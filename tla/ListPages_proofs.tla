------------------------- MODULE ListPages_proofs -------------------------
(***************************************************************************)
(* Theorems about ListPages for every table of pages that meets its        *)
(* assumptions, and any number of clicks and loads.                        *)
(***************************************************************************)
EXTENDS ListPages, TLAPS

\* A click whose handler has gone on past its request was carried out, unless
\* the handler does not look at the answer.
HeldInv ==
    /\ \A k \in Clicks : phase[k] \in {"reloading", "done"} => k \in held \/ Rule(k).checks = "no"
    /\ \A k \in Clicks : phase[k] = "applied" => k \in held

\* The user is told by handlers that have gone on.
SaidInv == \A k \in said : phase[k] \in {"reloading", "done"}

\* The word in the field of a dialog was typed while it was open.
DialogInv == typed \subseteq keyed

\* The clicks whose effect a list has to show.
Finished ==
    {k \in held : /\ phase[k] \in {"reloading", "done"}
                  /\ Rule(k).reloads # "none" \/ Rule(k).writes = "result"}

\* A list that will be shown was read after them.
LoadInv ==
    /\ seen \subseteq held
    /\ Cached /\ load # NoLoad /\ ~killed /\ read => Finished \subseteq seen

\* The list agrees with the server, or a handler that has written ahead, a load
\* or an error will keep the page from being settled.  Pages that put results
\* into their list have no load to rely on, and always agree.
Synced == Finished \subseteq shown /\ shown \subseteq held

Ahead == \E k \in Clicks : phase[k] \in {"sent", "applied"} /\ Rule(k).writes = "early"

KeepsResults == \E h \in Handlers(page) : Keeps(page, h)

Pending ==
    \/ Spoiled \/ Ahead
    \/ ~KeepsResults /\ (failed \/ ~listed \/ (load # NoLoad /\ ~killed))

ScreenInv == Cached /\ ~crashed => Synced \/ Pending

SafeInv == ListTypeOK /\ HeldInv /\ SaidInv /\ DialogInv /\ AskedFirst /\ FlagsFreed

----------------------------------------------------------------------------
(* Types *)

LEMMA Bounds ==
    /\ MaxClicks \in Nat /\ MaxRefresh \in Nat
    /\ PageLoad \in Nat /\ PageLoad # NoLoad
    /\ \A k \in Clicks : k \in 0 .. PageLoad /\ k \in 1 .. MaxClicks /\ k # NoLoad
  BY ListAssumption DEF ListAssumption, PageLoad, NoLoad, Clicks

\* Nothing was clicked, and the first load is under way.
LEMMA InitType == ListInit => ListTypeOK
  <1> SUFFICES ASSUME ListInit PROVE ListTypeOK
    OBVIOUS
  <1>1. FlagsOK
    BY DEF ListInit, FlagsOK
  <1>2. SetsOK
    BY Bounds DEF ListInit, SetsOK
  <1>3. ClicksOK
    BY Bounds DEF ListInit, ClicksOK, Phases
  <1>4. OrderOK
    BY Bounds DEF ListInit, OrderOK, Clicks
  <1> QED
    BY <1>1, <1>2, <1>3, <1>4 DEF ListTypeOK

\* A handler that sends its request.
LEMMA SentType ==
    ASSUME ListTypeOK, NEW k \in Clicks, NEW h \in Handlers(page), NEW r, Sent(k, h, r)
    PROVE  /\ phase' = [phase EXCEPT ![k] = "sent"]
           /\ base' \in [Clicks -> SUBSET Clicks]
           /\ locked' \subseteq Clicks
           /\ load' = load /\ read' = read /\ seen' = seen /\ listed' = listed
           /\ shown' \subseteq Clicks /\ failed' \in BOOLEAN /\ killed' \in BOOLEAN
  <1>1. phase' = [phase EXCEPT ![k] = "sent"] /\ locked' \subseteq Clicks
    BY DEF Sent, ListTypeOK, SetsOK
  <1>2. base' \in [Clicks -> SUBSET Clicks]
    BY DEF Sent, ListTypeOK, SetsOK, ClicksOK
  <1>3. CASE Does(h).writes = "early"
    BY <1>1, <1>2, <1>3 DEF Sent, Written, ListTypeOK, SetsOK
  <1>4. CASE Does(h).writes # "early"
    BY <1>1, <1>2, <1>4 DEF Sent, loadVars, listVars, ListTypeOK, SetsOK, FlagsOK
  <1> QED
    BY <1>3, <1>4

\* Starting a handler.
LEMMA ClickType ==
    ASSUME ListTypeOK, NEW h \in Handlers(page), NEW r \in 0 .. MaxClicks, Click(h, r)
    PROVE  ListTypeOK'
  <1> DEFINE k == clicks + 1
  <1>1. k \in Clicks /\ clicks \in Nat
    BY Bounds DEF Click, ListTypeOK, ClicksOK, Clicks
  <1>2. /\ clicks' = k /\ what' = [what EXCEPT ![k] = h] /\ row' = [row EXCEPT ![k] = r]
        /\ UNCHANGED <<page, held, crashed, refreshes, said>>
    BY DEF Click
  <1>3. Handlers(page)' = Handlers(page)
    BY <1>2 DEF Handlers
  <1>4. /\ clicks' \in 0 .. MaxClicks /\ what' \in [Clicks -> Handlers(page) \cup {"none"}]
        /\ row' \in [Clicks -> 0 .. MaxClicks]
    BY <1>1, <1>2, Bounds DEF ListTypeOK, ClicksOK, Clicks
  <1>5. \A j \in Clicks : j <= clicks' => what'[j] \in Handlers(page)
    BY <1>1, <1>2, Bounds DEF ListTypeOK, ClicksOK, OrderOK, Clicks
  <1>6. CASE Does(h).ask \in {"dialog", "word"}
    <2>1. /\ dialogs' \subseteq dialogs \cup {k} /\ phase' = [phase EXCEPT ![k] = "asking"]
          /\ typed' \subseteq typed \cup {k} /\ keyed' \subseteq keyed \cup {k}
          /\ UNCHANGED <<base, locked>>
      BY <1>6 DEF Click, Opened
    <2>2. UNCHANGED <<load, read, seen, killed, listed, failed, shown>>
      BY <1>6 DEF Click, loadVars, listVars
    <2>3. FlagsOK'
      BY <2>1, <2>2, <1>2 DEF ListTypeOK, FlagsOK
    <2>4. SetsOK'
      BY <2>1, <2>2, <1>1, <1>2 DEF ListTypeOK, SetsOK
    <2>5. ClicksOK'
      BY <2>1, <1>1, <1>3, <1>4, Bounds DEF ListTypeOK, ClicksOK, Phases, Clicks
    <2>6. OrderOK'
      BY <2>1, <1>1, <1>2, <1>3, <1>5, Bounds DEF ListTypeOK, ClicksOK, OrderOK, Clicks
    <2> QED
      BY <2>3, <2>4, <2>5, <2>6 DEF ListTypeOK
  <1>7. CASE Does(h).ask \notin {"dialog", "word"}
    <2>1. Sent(k, h, r) /\ UNCHANGED <<dialogs, typed, keyed>>
      BY <1>7 DEF Click, askVars
    <2>2. /\ phase' = [phase EXCEPT ![k] = "sent"]
          /\ base' \in [Clicks -> SUBSET Clicks]
          /\ locked' \subseteq Clicks
          /\ load' = load /\ read' = read /\ seen' = seen /\ listed' = listed
          /\ shown' \subseteq Clicks /\ failed' \in BOOLEAN /\ killed' \in BOOLEAN
      BY <2>1, <1>1, SentType
    <2>3. FlagsOK'
      BY <2>1, <2>2, <1>2 DEF ListTypeOK, FlagsOK
    <2>4. SetsOK'
      BY <2>1, <2>2, <1>2 DEF ListTypeOK, SetsOK
    <2>5. ClicksOK'
      BY <2>1, <2>2, <1>1, <1>3, <1>4, Bounds DEF ListTypeOK, ClicksOK, Phases, Clicks
    <2>6. OrderOK'
      BY <2>1, <2>2, <1>1, <1>2, <1>3, <1>5, Bounds DEF ListTypeOK, ClicksOK, OrderOK, Clicks
    <2> QED
      BY <2>3, <2>4, <2>5, <2>6 DEF ListTypeOK
  <1> QED
    BY <1>6, <1>7

\* A step of an open dialog or of a handler, by what it leaves alone.
LEMMA PhaseType ==
    ASSUME ListTypeOK, NEW k \in Clicks, NEW p \in Phases \ {"idle"}, phase[k] # "idle",
           phase' = [phase EXCEPT ![k] = p], base' \in [Clicks -> SUBSET Clicks],
           UNCHANGED <<page, clickVars>>, dialogs' \subseteq dialogs \ {k}
    PROVE  ClicksOK' /\ OrderOK'
  <1>1. Handlers(page)' = Handlers(page) /\ UNCHANGED <<clicks, what, row>>
    BY DEF Handlers, clickVars
  <1>2. ClicksOK'
    BY <1>1 DEF ListTypeOK, ClicksOK
  <1>3. OrderOK'
    BY <1>1, Bounds DEF ListTypeOK, SetsOK, ClicksOK, OrderOK, Clicks
  <1> QED
    BY <1>2, <1>3

\* The dialog.
LEMMA DialogType ==
    ASSUME ListTypeOK, NEW k \in Clicks, Asked(k)
    PROVE  ListTypeOK'
  <1>1. k \in dialogs /\ phase[k] = "asking"
    BY DEF Asked, TypeWord, CloseDialog, ConfirmDialog, ListTypeOK, OrderOK
  <1>2. what[k] \in Handlers(page)
    BY <1>1, Bounds DEF ListTypeOK, ClicksOK, OrderOK, Clicks
  <1>3. CASE TypeWord(k) \/ CloseDialog(k)
    <2>1. /\ typed' \subseteq typed \cup {k} /\ keyed' \subseteq keyed \cup {k}
          /\ dialogs' \subseteq dialogs
          /\ UNCHANGED <<page, held, crashed, refreshes, load, read, seen, killed, listed, failed,
                         shown, clicks, what, row, phase, base, locked, said>>
      BY <1>3 DEF TypeWord, CloseDialog, loadVars, listVars, clickVars, runVars
    <2>2. FlagsOK'
      BY <2>1 DEF ListTypeOK, FlagsOK
    <2>3. SetsOK'
      BY <2>1 DEF ListTypeOK, SetsOK
    <2>4. ClicksOK' /\ OrderOK'
      BY <2>1 DEF ListTypeOK, ClicksOK, OrderOK, Handlers
    <2> QED
      BY <2>2, <2>3, <2>4 DEF ListTypeOK
  <1>4. CASE ConfirmDialog(k)
    <2>1. Sent(k, what[k], row[k]) /\ dialogs' = dialogs \ {k}
          /\ UNCHANGED <<page, held, crashed, refreshes, typed, keyed, clickVars, said>>
      BY <1>4 DEF ConfirmDialog
    <2>2. /\ phase' = [phase EXCEPT ![k] = "sent"]
          /\ base' \in [Clicks -> SUBSET Clicks]
          /\ locked' \subseteq Clicks
          /\ load' = load /\ read' = read /\ seen' = seen /\ listed' = listed
          /\ shown' \subseteq Clicks /\ failed' \in BOOLEAN /\ killed' \in BOOLEAN
      BY <2>1, <1>2, SentType
    <2>3. FlagsOK'
      BY <2>1, <2>2 DEF ListTypeOK, FlagsOK
    <2>4. SetsOK'
      BY <2>1, <2>2 DEF ListTypeOK, SetsOK
    <2>5. ClicksOK' /\ OrderOK'
      BY <2>1, <2>2, <1>1, PhaseType DEF Phases
    <2> QED
      BY <2>3, <2>4, <2>5 DEF ListTypeOK
  <1> QED
    BY <1>3, <1>4 DEF Asked

\* Escape.
LEMMA CloseAllType ==
    ASSUME ListTypeOK, CloseAll
    PROVE  ListTypeOK'
  <1>1. /\ dialogs' = {}
        /\ UNCHANGED <<page, held, crashed, refreshes, load, read, seen, killed, listed, failed,
                       shown, typed, keyed, clicks, what, row, phase, base, locked, said>>
    BY DEF CloseAll, loadVars, listVars, clickVars, runVars
  <1>2. FlagsOK' /\ SetsOK'
    BY <1>1 DEF ListTypeOK, FlagsOK, SetsOK
  <1>3. ClicksOK' /\ OrderOK'
    BY <1>1 DEF ListTypeOK, ClicksOK, OrderOK, Handlers
  <1> QED
    BY <1>2, <1>3 DEF ListTypeOK

\* Loads.
LEMMA LoadType ==
    ASSUME ListTypeOK, Refresh \/ ReadList \/ LoadEnds
    PROVE  ListTypeOK'
  <1>1. UNCHANGED <<page, held, askVars, clickVars, runVars>>
    BY DEF Refresh, ReadList, LoadEnds, ListArrives, ListFails, ListMisread
  <1>2. ClicksOK' /\ OrderOK'
    BY <1>1 DEF ListTypeOK, ClicksOK, OrderOK, Handlers, askVars, clickVars, runVars
  <1>3. UNCHANGED <<page, held, dialogs, typed, keyed, locked, said>>
    BY <1>1 DEF askVars, runVars
  <1>4. CASE Refresh
    <2>1. load' = PageLoad /\ read' = FALSE /\ seen' = {} /\ killed' = FALSE
          /\ UNCHANGED <<crashed, listed, failed, shown>>
      BY <1>4 DEF Refresh, StartedLoad, listVars
    <2>2. refreshes' \in 0 .. MaxRefresh
      BY <1>4, Bounds DEF Refresh, ListTypeOK, SetsOK
    <2>3. FlagsOK'
      BY <2>1, <1>3 DEF ListTypeOK, FlagsOK
    <2>4. SetsOK'
      BY <2>1, <2>2, <1>3, Bounds DEF ListTypeOK, SetsOK
    <2> QED
      BY <1>2, <2>3, <2>4 DEF ListTypeOK
  <1>5. CASE ReadList
    <2>1. read' = TRUE /\ seen' = held
          /\ UNCHANGED <<crashed, refreshes, load, killed, listed, failed, shown>>
      BY <1>5 DEF ReadList, listVars
    <2>2. FlagsOK'
      BY <2>1, <1>3 DEF ListTypeOK, FlagsOK
    <2>3. SetsOK'
      BY <2>1, <1>3 DEF ListTypeOK, SetsOK
    <2> QED
      BY <1>2, <2>2, <2>3 DEF ListTypeOK
  <1>6. CASE LoadEnds
    <2>1. load' = NoLoad /\ UNCHANGED <<refreshes, read, seen, killed>>
      BY <1>6 DEF LoadEnds, ListArrives, ListFails, ListMisread
    <2>2. shown' \in {shown, seen, {}}
      BY <1>6 DEF LoadEnds, ListArrives, ListFails, ListMisread, listVars
    <2>3. /\ listed' = listed \/ listed' = TRUE
          /\ failed' = failed \/ failed' = FALSE \/ failed' = TRUE
          /\ crashed' \in BOOLEAN
      <3>1. CASE ListArrives
        BY <3>1 DEF ListArrives, listVars, ListTypeOK, FlagsOK
      <3>2. CASE ListFails
        BY <3>2 DEF ListFails, ListTypeOK, FlagsOK
      <3>3. CASE ListMisread
        BY <3>3 DEF ListMisread
      <3> QED
        BY <1>6, <3>1, <3>2, <3>3 DEF LoadEnds
    <2>4. FlagsOK'
      BY <2>1, <2>3, <1>3 DEF ListTypeOK, FlagsOK
    <2>5. SetsOK'
      BY <2>1, <2>2, <1>3, Bounds DEF ListTypeOK, SetsOK, NoLoad
    <2> QED
      BY <1>2, <2>4, <2>5 DEF ListTypeOK
  <1> QED
    BY <1>4, <1>5, <1>6

\* A handler that goes on.
LEMMA ContinuesType ==
    ASSUME ListTypeOK, NEW k \in Clicks, phase[k] \in {"sent", "applied"},
           Continues(k), UNCHANGED crashed
    PROVE  ListTypeOK'
  <1>1. /\ UNCHANGED <<page, held, refreshes, clickVars, base, crashed>>
        /\ UNCHANGED <<dialogs, typed, keyed>>
        /\ phase' = [phase EXCEPT ![k] = IF Rule(k).reloads = "await" THEN "reloading" ELSE "done"]
    BY DEF Continues, askVars
  <1>2. said' \subseteq Clicks /\ locked' \subseteq Clicks
    BY DEF Continues, Unlocked, ListTypeOK, SetsOK
  <1>3. shown' \subseteq Clicks
    BY DEF Continues, ListTypeOK, SetsOK, ClicksOK, listVars
  <1>4. listed' = listed /\ failed' \in BOOLEAN
    BY DEF Continues, ListTypeOK, FlagsOK, listVars
  <1>5. /\ load' = load \/ load' = k
        /\ seen' = seen \/ seen' = {}
        /\ read' = read \/ read' = FALSE
        /\ killed' \in BOOLEAN
    BY DEF Continues, StartedLoad
  <1>6. FlagsOK'
    BY <1>1, <1>4, <1>5 DEF ListTypeOK, FlagsOK
  <1>7. SetsOK'
    BY <1>1, <1>2, <1>3, <1>5, Bounds DEF ListTypeOK, SetsOK
  <1>8. k \notin dialogs
    BY DEF ListTypeOK, OrderOK
  <1>9. ClicksOK' /\ OrderOK'
    <2>1. base' \in [Clicks -> SUBSET Clicks]
      BY <1>1 DEF ListTypeOK, ClicksOK
    <2>2. (IF Rule(k).reloads = "await" THEN "reloading" ELSE "done") \in Phases \ {"idle"}
      BY DEF Phases
    <2>3. UNCHANGED <<page, clickVars>> /\ phase[k] # "idle"
      BY <1>1
    <2>4. dialogs' \subseteq dialogs \ {k}
      BY <1>1, <1>8
    <2> QED
      BY <1>1, <2>1, <2>2, <2>3, <2>4, PhaseType
  <1> QED
    BY <1>6, <1>7, <1>9 DEF ListTypeOK

\* A handler that ends in an error.
LEMMA FailsType ==
    ASSUME ListTypeOK, NEW k \in Clicks, phase[k] \in {"sent", "applied"}, Fails(k)
    PROVE  ListTypeOK'
  <1>1. /\ UNCHANGED <<page, held, crashed, refreshes, clickVars, base, said>>
        /\ UNCHANGED <<listed, failed, shown, dialogs, typed, keyed>>
        /\ phase' = [phase EXCEPT ![k] = "failed"]
    BY DEF Fails, listVars, askVars
  <1>2. locked' \subseteq Clicks
    BY DEF Fails, Unlocked, ListTypeOK, SetsOK
  <1>3. /\ load' = load \/ load' = k
        /\ seen' = seen \/ seen' = {}
        /\ read' = read \/ read' = FALSE
        /\ killed' = killed \/ killed' = FALSE
    BY DEF Fails, StartedLoad, loadVars
  <1>4. FlagsOK'
    BY <1>1, <1>3 DEF ListTypeOK, FlagsOK
  <1>5. SetsOK'
    BY <1>1, <1>2, <1>3, Bounds DEF ListTypeOK, SetsOK
  <1>6. ClicksOK' /\ OrderOK'
    <2>1. base' \in [Clicks -> SUBSET Clicks]
      BY <1>1 DEF ListTypeOK, ClicksOK
    <2>2. dialogs' \subseteq dialogs \ {k}
      BY <1>1 DEF ListTypeOK, OrderOK
    <2> QED
      BY <1>1, <2>1, <2>2, PhaseType DEF Phases
  <1> QED
    BY <1>4, <1>5, <1>6 DEF ListTypeOK

\* What a request and its answer can do.
LEMMA RequestCases ==
    ASSUME NEW k \in Clicks, Ends(k)
    PROVE  \/ phase[k] = "applied" /\ Continues(k) /\ UNCHANGED crashed
           \/ phase[k] = "sent" /\ Rule(k).checks = "no" /\ Continues(k) /\ UNCHANGED crashed
           \/ phase[k] \in {"sent", "applied"} /\ Fails(k)
           \/ /\ phase[k] = "sent" /\ crashed' = TRUE
              /\ phase' = [phase EXCEPT ![k] = "failed"]
              /\ UNCHANGED <<page, held, refreshes, loadVars, listVars, askVars, clickVars, base,
                             locked, said>>
  BY Zenon DEF Ends, Answered, Refused, Broken

\* Requests and their answers.
LEMMA RequestType ==
    ASSUME ListTypeOK, NEW k \in Clicks, Apply(k) \/ Ends(k) \/ Reloaded(k)
    PROVE  ListTypeOK'
  <1>1. CASE Apply(k)
    <2>1. /\ phase[k] = "sent" /\ phase' = [phase EXCEPT ![k] = "applied"]
          /\ held' = held \cup {k} /\ UNCHANGED <<page, clickVars, base>>
      BY <1>1 DEF Apply
    <2>2. UNCHANGED <<crashed, refreshes, load, read, seen, killed, listed, failed, shown,
                      dialogs, typed, keyed, locked, said>>
      BY <1>1 DEF Apply, loadVars, listVars, askVars
    <2>3. FlagsOK'
      BY <2>2 DEF ListTypeOK, FlagsOK
    <2>4. SetsOK'
      BY <2>1, <2>2 DEF ListTypeOK, SetsOK
    <2>5. ClicksOK' /\ OrderOK'
      <3>1. base' \in [Clicks -> SUBSET Clicks]
        BY <2>1 DEF ListTypeOK, ClicksOK
      <3>2. dialogs' \subseteq dialogs \ {k}
        BY <2>1, <2>2 DEF ListTypeOK, OrderOK
      <3> QED
        BY <2>1, <3>1, <3>2, PhaseType DEF Phases
    <2> QED
      BY <2>3, <2>4, <2>5 DEF ListTypeOK
  <1>2. CASE Continues(k) /\ UNCHANGED crashed /\ phase[k] \in {"sent", "applied"}
    BY <1>2, ContinuesType
  <1>3. CASE Fails(k) /\ phase[k] \in {"sent", "applied"}
    BY <1>3, FailsType
  <1>4. CASE /\ phase[k] = "sent" /\ crashed' = TRUE
             /\ phase' = [phase EXCEPT ![k] = "failed"]
             /\ UNCHANGED <<page, held, refreshes, loadVars, listVars, askVars, clickVars, base,
                            locked, said>>
    <2>1. UNCHANGED <<load, read, seen, killed, listed, failed, shown, dialogs, typed, keyed>>
      BY <1>4 DEF loadVars, listVars, askVars
    <2>2. FlagsOK'
      BY <2>1, <1>4 DEF ListTypeOK, FlagsOK
    <2>3. SetsOK'
      BY <2>1, <1>4 DEF ListTypeOK, SetsOK
    <2>4. ClicksOK' /\ OrderOK'
      <3>1. base' \in [Clicks -> SUBSET Clicks]
        BY <1>4 DEF ListTypeOK, ClicksOK
      <3>2. dialogs' \subseteq dialogs \ {k}
        BY <2>1, <1>4 DEF ListTypeOK, OrderOK
      <3> QED
        BY <1>4, <3>1, <3>2, PhaseType DEF Phases
    <2> QED
      BY <2>2, <2>3, <2>4 DEF ListTypeOK
  <1>5. CASE Reloaded(k)
    <2>1. said' \subseteq Clicks /\ locked' \subseteq Clicks
      BY <1>5 DEF Reloaded, Unlocked, ListTypeOK, SetsOK
    <2>2. /\ phase[k] = "reloading" /\ phase' = [phase EXCEPT ![k] = "done"]
          /\ UNCHANGED <<page, clickVars, base>>
      BY <1>5 DEF Reloaded
    <2>3. UNCHANGED <<held, crashed, refreshes, load, read, seen, killed, listed, failed, shown,
                      dialogs, typed, keyed>>
      BY <1>5 DEF Reloaded, loadVars, listVars, askVars
    <2>4. FlagsOK'
      BY <2>3 DEF ListTypeOK, FlagsOK
    <2>5. SetsOK'
      BY <2>1, <2>2, <2>3 DEF ListTypeOK, SetsOK
    <2>6. ClicksOK' /\ OrderOK'
      <3>1. base' \in [Clicks -> SUBSET Clicks]
        BY <2>2 DEF ListTypeOK, ClicksOK
      <3>2. dialogs' \subseteq dialogs \ {k}
        BY <2>2, <2>3 DEF ListTypeOK, OrderOK
      <3> QED
        BY <2>2, <3>1, <3>2, PhaseType DEF Phases
    <2> QED
      BY <2>4, <2>5, <2>6 DEF ListTypeOK
  <1> QED
    BY <1>1, <1>2, <1>3, <1>4, <1>5, RequestCases

----------------------------------------------------------------------------
(* What was said, asked and locked *)

\* Rules stay as they are for every click that was made.
LEMMA RuleKept ==
    ASSUME UNCHANGED page, NEW k, what'[k] = what[k]
    PROVE  Rule(k)' = Rule(k)
  BY DEF Rule, Does

\* Nothing was clicked.
LEMMA InitSafe == ListInit => SafeInv
  <1> SUFFICES ASSUME ListInit PROVE SafeInv
    OBVIOUS
  <1>1. \A k \in Clicks : phase[k] = "idle"
    BY DEF ListInit
  <1>2. HeldInv /\ AskedFirst
    BY <1>1 DEF HeldInv, AskedFirst
  <1>3. SaidInv /\ DialogInv /\ FlagsFreed
    BY DEF ListInit, SaidInv, DialogInv, FlagsFreed
  <1> QED
    BY <1>2, <1>3, InitType DEF SafeInv

\* A click that gets no further than its dialog or its request disturbs none of
\* the others, and its own flag is that of a handler under way.
LEMMA StartSafe ==
    ASSUME SafeInv, NEW k \in Clicks, phase[k] \in {"idle", "asking"},
           NEW p \in {"asking", "sent"}, phase' = [phase EXCEPT ![k] = p],
           UNCHANGED <<page, held, said, crashed>>, keyed \subseteq keyed',
           \A j \in Clicks : j # k => what'[j] = what[j],
           locked' \subseteq locked \cup {k}, k \in locked' => p = "sent",
           p = "sent" /\ Rule(k)'.ask = "word" => k \in keyed
    PROVE  HeldInv' /\ SaidInv' /\ AskedFirst' /\ FlagsFreed'
  <1>1. \A j \in Clicks : j # k => Rule(j)' = Rule(j) /\ phase'[j] = phase[j]
    BY RuleKept DEF SafeInv, ListTypeOK, ClicksOK
  <1>2. phase'[k] = p
    BY DEF SafeInv, ListTypeOK, ClicksOK
  <1>3. HeldInv'
    BY <1>1, <1>2 DEF SafeInv, HeldInv
  <1>4. SaidInv'
    BY <1>1, <1>2 DEF SafeInv, SaidInv, ListTypeOK, SetsOK
  <1>5. AskedFirst'
    BY <1>1, <1>2 DEF SafeInv, AskedFirst
  <1>6. FlagsFreed'
    <2> SUFFICES ASSUME ~crashed, NEW j \in locked'
                 PROVE  Underway(j)' \/ (phase'[j] = "done" /\ Rule(j)'.frees = "failure")
      BY DEF FlagsFreed
    <2>1. CASE j = k
      BY <2>1, <1>2 DEF Underway
    <2>2. CASE j # k
      BY <2>2, <1>1 DEF SafeInv, FlagsFreed, Underway, ListTypeOK, SetsOK
    <2> QED
      BY <2>1, <2>2
  <1> QED
    BY <1>3, <1>4, <1>5, <1>6

\* Starting a handler.
LEMMA ClickSafe ==
    ASSUME SafeInv, ~crashed, NEW h \in Handlers(page), NEW r \in 0 .. MaxClicks, Click(h, r)
    PROVE  SafeInv'
  <1>0. PICK k \in Clicks : k = clicks + 1
    BY Bounds DEF Click, SafeInv, ListTypeOK, ClicksOK, Clicks
  <1>1. phase[k] = "idle" /\ k \notin dialogs
    BY <1>0, Bounds DEF SafeInv, ListTypeOK, OrderOK, ClicksOK, SetsOK, Clicks
  <1>2. what' = [what EXCEPT ![k] = h] /\ UNCHANGED <<page, held, crashed, said>>
    BY <1>0 DEF Click
  <1>3. (\A j \in Clicks : j # k => what'[j] = what[j]) /\ what'[k] = h
    BY <1>1, <1>2 DEF SafeInv, ListTypeOK, ClicksOK
  <1>4. Rule(k)' = Does(h)
    BY <1>2, <1>3 DEF Rule, Does
  <1>5. k \notin locked
    BY <1>1 DEF SafeInv, FlagsFreed, Underway
  <1>6. CASE Does(h).ask \in {"dialog", "word"}
    <2>1. Opened(k, h, r) /\ phase' = [phase EXCEPT ![k] = "asking"] /\ UNCHANGED locked
      BY <1>0, <1>6 DEF Click
    <2>2. PICK kept \in SUBSET {k} :
              /\ dialogs' \subseteq dialogs \cup {k}
              /\ typed' = typed \cup kept /\ keyed' = keyed \cup kept
      BY <2>1 DEF Opened
    <2>3. HeldInv' /\ SaidInv' /\ AskedFirst' /\ FlagsFreed'
      BY <2>1, <2>2, <1>1, <1>2, <1>3, <1>5, StartSafe
    <2>4. DialogInv'
      BY <2>2 DEF SafeInv, DialogInv
    <2> QED
      BY <2>3, <2>4, ClickType DEF SafeInv
  <1>7. CASE Does(h).ask \notin {"dialog", "word"}
    <2>1. Sent(k, h, r) /\ UNCHANGED <<dialogs, typed, keyed>>
      BY <1>0, <1>7 DEF Click, askVars
    <2>2. phase' = [phase EXCEPT ![k] = "sent"] /\ locked' \subseteq locked \cup {k}
      BY <2>1 DEF Sent
    <2>3. HeldInv' /\ SaidInv' /\ AskedFirst' /\ FlagsFreed'
      BY <2>1, <2>2, <1>1, <1>2, <1>3, <1>4, <1>7, StartSafe
    <2>4. DialogInv'
      BY <2>1 DEF SafeInv, DialogInv
    <2> QED
      BY <2>3, <2>4, ClickType DEF SafeInv
  <1> QED
    BY <1>6, <1>7

\* The dialog.
LEMMA DialogSafe ==
    ASSUME SafeInv, ~crashed, NEW k \in Clicks, Asked(k)
    PROVE  SafeInv'
  <1>1. k \in dialogs /\ phase[k] = "asking"
    BY DEF Asked, TypeWord, CloseDialog, ConfirmDialog, SafeInv, ListTypeOK, OrderOK
  <1>2. UNCHANGED <<page, what, held, crashed, said>>
    BY DEF Asked, TypeWord, CloseDialog, ConfirmDialog, clickVars, runVars
  <1>3. \A j : Rule(j)' = Rule(j)
    BY <1>2, RuleKept
  <1>4. CASE TypeWord(k) \/ CloseDialog(k)
    <2>1. UNCHANGED <<phase, locked>>
      BY <1>4 DEF TypeWord, CloseDialog, runVars
    <2>2. \/ typed' = typed \cup {k} /\ keyed' = keyed \cup {k}
          \/ UNCHANGED <<typed, keyed>>
      BY <1>4 DEF TypeWord, CloseDialog
    <2>3. HeldInv' /\ SaidInv'
      BY <2>1, <1>2, <1>3 DEF SafeInv, HeldInv, SaidInv
    <2>4. DialogInv' /\ AskedFirst'
      BY <2>1, <2>2, <1>3 DEF SafeInv, DialogInv, AskedFirst
    <2>5. FlagsFreed'
      BY <2>1, <1>2, <1>3 DEF SafeInv, FlagsFreed, Underway
    <2> QED
      BY <2>3, <2>4, <2>5, DialogType DEF SafeInv
  <1>5. CASE ConfirmDialog(k)
    <2>1. /\ phase' = [phase EXCEPT ![k] = "sent"]
          /\ UNCHANGED <<keyed, typed>> /\ locked' \subseteq locked \cup {k}
      BY <1>5 DEF ConfirmDialog, Sent
    <2>2. Rule(k).ask = "word" => k \in keyed
      BY <1>5 DEF ConfirmDialog, SafeInv, DialogInv
    <2>3. HeldInv' /\ SaidInv' /\ AskedFirst' /\ FlagsFreed'
      BY <2>1, <2>2, <1>1, <1>2, <1>3, StartSafe
    <2>4. DialogInv'
      BY <2>1 DEF SafeInv, DialogInv
    <2> QED
      BY <2>3, <2>4, DialogType DEF SafeInv
  <1> QED
    BY <1>4, <1>5 DEF Asked

\* Escape leaves the clicks unanswered.
LEMMA CloseAllSafe ==
    ASSUME SafeInv, ~crashed, CloseAll
    PROVE  SafeInv'
  <1>1. UNCHANGED <<page, what, held, crashed, said, phase, locked, typed, keyed>>
    BY DEF CloseAll, clickVars, runVars
  <1>2. \A j : Rule(j)' = Rule(j)
    BY <1>1, RuleKept
  <1>3. HeldInv' /\ SaidInv' /\ DialogInv' /\ AskedFirst' /\ FlagsFreed'
    BY <1>1, <1>2 DEF SafeInv, HeldInv, SaidInv, DialogInv, AskedFirst, FlagsFreed, Underway
  <1> QED
    BY <1>3, CloseAllType DEF SafeInv

\* Loads touch none of it.
LEMMA LoadSafe ==
    ASSUME SafeInv, ~crashed, Refresh \/ ReadList \/ LoadEnds
    PROVE  SafeInv'
  <1>1. UNCHANGED <<page, held, askVars, clickVars, runVars>>
    BY DEF Refresh, ReadList, LoadEnds, ListArrives, ListFails, ListMisread
  <1>2. UNCHANGED <<dialogs, typed, keyed, what, phase, locked, said>>
    BY <1>1 DEF askVars, clickVars, runVars
  <1>3. \A j : Rule(j)' = Rule(j)
    BY <1>1, <1>2, RuleKept
  <1>4. HeldInv' /\ SaidInv' /\ DialogInv' /\ AskedFirst'
    BY <1>1, <1>2, <1>3 DEF SafeInv, HeldInv, SaidInv, DialogInv, AskedFirst
  <1>5. FlagsFreed'
    BY <1>2, <1>3 DEF SafeInv, FlagsFreed, Underway
  <1> QED
    BY <1>4, <1>5, LoadType DEF SafeInv

\* A click that takes a step after its request.
LEMMA StepSafe ==
    ASSUME SafeInv, ~crashed, NEW k \in Clicks, NEW p, phase' = [phase EXCEPT ![k] = p],
           phase[k] \in {"sent", "applied", "reloading"},
           p \in {"applied", "reloading", "done", "failed"},
           p \in {"applied", "reloading", "done"} => k \in held' \/ Rule(k).checks = "no",
           p = "applied" => k \in held',
           UNCHANGED <<page, what, askVars>>, held \subseteq held',
           said' \subseteq said \cup {k}, k \in said' => p \in {"reloading", "done"},
           locked' \subseteq locked,
           \/ crashed'
           \/ k \in locked' => p \in {"applied", "reloading"} \/ (p = "done" /\ Rule(k).frees = "failure")
    PROVE  HeldInv' /\ SaidInv' /\ DialogInv' /\ AskedFirst' /\ FlagsFreed'
  <1>1. \A j : Rule(j)' = Rule(j)
    BY RuleKept
  <1>2. phase'[k] = p /\ \A j \in Clicks : j # k => phase'[j] = phase[j]
    BY DEF SafeInv, ListTypeOK, ClicksOK
  <1>3. UNCHANGED <<dialogs, typed, keyed>>
    BY DEF askVars
  <1>4. HeldInv'
    BY <1>1, <1>2 DEF SafeInv, HeldInv
  <1>5. SaidInv'
    BY <1>2 DEF SafeInv, SaidInv, ListTypeOK, SetsOK
  <1>6. DialogInv' /\ AskedFirst'
    BY <1>1, <1>2, <1>3 DEF SafeInv, DialogInv, AskedFirst
  <1>7. FlagsFreed'
    <2> SUFFICES ASSUME ~crashed', NEW j \in locked'
                 PROVE  Underway(j)' \/ (phase'[j] = "done" /\ Rule(j)'.frees = "failure")
      BY DEF FlagsFreed
    <2>1. CASE j = k
      BY <2>1, <1>1, <1>2 DEF Underway
    <2>2. CASE j # k
      BY <2>2, <1>1, <1>2 DEF SafeInv, FlagsFreed, Underway, ListTypeOK, SetsOK
    <2> QED
      BY <2>1, <2>2
  <1> QED
    BY <1>4, <1>5, <1>6, <1>7

\* Unlocking frees the flag of the click itself.
LEMMA OwnUnlocked ==
    ASSUME NEW k, Unlocked(k)
    PROVE  locked' \subseteq locked /\ k \notin locked'
  BY DEF Unlocked, Shares, Rule

\* Requests and their answers.
LEMMA RequestSafe ==
    ASSUME SafeInv, ~crashed, NEW k \in Clicks, Apply(k) \/ Ends(k) \/ Reloaded(k)
    PROVE  SafeInv'
  <1> SUFFICES HeldInv' /\ SaidInv' /\ DialogInv' /\ AskedFirst' /\ FlagsFreed'
    BY RequestType DEF SafeInv
  <1>0. phase[k] \in {"sent", "applied"} => k \notin said
    BY DEF SafeInv, SaidInv
  <1>1. CASE Apply(k)
    <2>1. /\ phase[k] = "sent" /\ phase' = [phase EXCEPT ![k] = "applied"]
          /\ held' = held \cup {k} /\ UNCHANGED <<page, what, askVars, locked, said>>
      BY <1>1 DEF Apply, clickVars
    <2> QED
      BY <2>1, <1>0, StepSafe
  <1>2. CASE /\ Continues(k) /\ UNCHANGED crashed /\ phase[k] \in {"sent", "applied"}
             /\ phase[k] = "applied" \/ Rule(k).checks = "no"
    <2> DEFINE p == IF Rule(k).reloads = "await" THEN "reloading" ELSE "done"
    <2>1. /\ phase' = [phase EXCEPT ![k] = p] /\ said' \subseteq said \cup {k}
          /\ UNCHANGED <<page, what, askVars, held>>
      BY <1>2 DEF Continues, clickVars
    <2>2. k \in held' \/ Rule(k).checks = "no"
      BY <1>2, <2>1 DEF SafeInv, HeldInv
    <2>3. locked' \subseteq locked
      BY <1>2, OwnUnlocked DEF Continues
    <2>4. k \in locked' => p = "reloading" \/ (p = "done" /\ Rule(k).frees = "failure")
      BY <1>2, OwnUnlocked DEF Continues
    <2>5. p \in {"reloading", "done"}
      OBVIOUS
    <2> HIDE DEF p
    <2> QED
      BY <1>2, <2>1, <2>2, <2>3, <2>4, <2>5, StepSafe
  <1>3. CASE Fails(k) /\ phase[k] \in {"sent", "applied"}
    <2>1. /\ phase' = [phase EXCEPT ![k] = "failed"]
          /\ UNCHANGED <<page, what, askVars, held, said>> /\ Unlocked(k)
      BY <1>3 DEF Fails, clickVars
    <2> QED
      BY <1>0, <1>3, <2>1, OwnUnlocked, StepSafe
  <1>4. CASE /\ phase[k] = "sent" /\ crashed' = TRUE
             /\ phase' = [phase EXCEPT ![k] = "failed"]
             /\ UNCHANGED <<page, held, refreshes, loadVars, listVars, askVars, clickVars, base,
                            locked, said>>
    <2>1. UNCHANGED <<page, what, askVars, held, said, locked>>
      BY <1>4 DEF clickVars
    <2> QED
      BY <1>0, <1>4, <2>1, StepSafe
  <1>5. CASE Reloaded(k)
    <2>1. /\ phase[k] = "reloading" /\ phase' = [phase EXCEPT ![k] = "done"]
          /\ UNCHANGED <<page, what, askVars, held>> /\ Unlocked(k) /\ said' \subseteq said \cup {k}
      BY <1>5 DEF Reloaded, clickVars
    <2>2. k \in held' \/ Rule(k).checks = "no"
      BY <2>1 DEF SafeInv, HeldInv
    <2> QED
      BY <2>1, <2>2, OwnUnlocked, StepSafe
  <1> QED
    BY <1>1, <1>2, <1>3, <1>4, <1>5, RequestCases

\* Every step of the page.
LEMMA NextSafe == SafeInv /\ [ListNext]_listPageVars => SafeInv'
  <1> SUFFICES ASSUME SafeInv, [ListNext]_listPageVars PROVE SafeInv'
    OBVIOUS
  <1>1. CASE UNCHANGED listPageVars
    <2>1. UNCHANGED <<page, held, crashed, refreshes, load, read, seen, killed, listed, failed, shown,
                      dialogs, typed, keyed, clicks, what, row, phase, base, locked, said>>
      BY <1>1 DEF listPageVars, loadVars, listVars, askVars, clickVars, runVars
    <2>2. ListTypeOK'
      BY <2>1 DEF SafeInv, ListTypeOK, FlagsOK, SetsOK, ClicksOK, OrderOK, Handlers
    <2>3. \A j : Rule(j)' = Rule(j)
      BY <2>1, RuleKept
    <2>4. HeldInv' /\ SaidInv' /\ DialogInv' /\ AskedFirst' /\ FlagsFreed'
      BY <2>1, <2>3 DEF SafeInv, HeldInv, SaidInv, DialogInv, AskedFirst, FlagsFreed, Underway
    <2> QED
      BY <2>2, <2>4 DEF SafeInv
  <1>2. CASE ListNext
    BY <1>2, ClickSafe, DialogSafe, CloseAllSafe, LoadSafe, RequestSafe DEF ListNext
  <1> QED
    BY <1>1, <1>2

----------------------------------------------------------------------------
(* The list on the screen *)

\* Everything the screen depends on, but for one click.
OthersKept(k) ==
    /\ UNCHANGED page
    /\ \A j \in Clicks : j # k => phase'[j] = phase[j] /\ Rule(j)' = Rule(j)

LEMMA PageKept ==
    ASSUME UNCHANGED page
    PROVE  (Cached' <=> Cached) /\ (KeepsResults' <=> KeepsResults)
  BY DEF Cached, KeepsResults, Keeps, Handlers

\* A click that is not finished by the step leaves the finished ones as they are.
LEMMA FinishedKept ==
    ASSUME SafeInv, NEW k \in Clicks, OthersKept(k), held \subseteq held', held' \subseteq held \cup {k},
           phase[k] \notin {"reloading", "done"}, phase'[k] \notin {"reloading", "done"}
    PROVE  Finished' = Finished
  BY DEF OthersKept, Finished, SafeInv, ListTypeOK, SetsOK

\* What keeps a page from being settled stays while the click is not of it.
LEMMA PendingKept ==
    ASSUME SafeInv, NEW k \in Clicks, OthersKept(k), phase[k] # "failed",
           phase[k] \notin {"sent", "applied"} \/ Rule(k).writes # "early",
           failed' = failed, listed' = listed, load' = load, killed' = killed
    PROVE  Pending => Pending'
  <1>1. Spoiled => Spoiled'
    BY DEF OthersKept, Spoiled
  <1>2. Ahead => Ahead'
    BY DEF OthersKept, Ahead
  <1> QED
    BY <1>1, <1>2, PageKept DEF OthersKept, Pending

\* What the rules of a page that keeps its list in SWR have in common.
LEMMA RuleFacts ==
    ASSUME SafeInv, Cached, NEW k \in Clicks, phase[k] # "idle"
    PROVE  /\ Rule(k).writes \in {"early", "late"} => Rule(k).reloads # "none"
           /\ KeepsResults => Rule(k).reloads = "none"
           /\ Rule(k).writes = "result" /\ Rule(k).reloads = "none" =>
                  Rule(k).checks # "no" /\ KeepsResults
           /\ Pages[page].onRefusal \notin {"error", "crash"} =>
                  Rule(k).reloads = "none" /\ Rule(k).writes # "result"
  <1>1. page \in DOMAIN Pages /\ what[k] \in Handlers(page) /\ Pages[page].cache = "swr"
    BY Bounds DEF SafeInv, ListTypeOK, SetsOK, ClicksOK, OrderOK, Cached, Clicks
  <1>2. /\ Rule(k).writes = Writes(page, what[k])
        /\ Rule(k).checks = Pages[page].does[what[k]].checks
        /\ Rule(k).reloads = "none" <=> ~Reloads(page, what[k])
    BY DEF Rule, Does, Writes, Reloads
  <1>3. Rule(k).writes = "result" /\ Rule(k).reloads = "none" => Keeps(page, what[k])
    BY <1>2 DEF Keeps
  <1> QED
    BY <1>1, <1>2, <1>3, TableAssumption DEF TableAssumption, KeepsResults

\* Nothing was clicked, and the first list has not arrived.
LEMMA InitScreen == ListInit => LoadInv /\ ScreenInv
  <1> SUFFICES ASSUME ListInit PROVE LoadInv /\ ScreenInv
    OBVIOUS
  <1>1. Finished = {} /\ shown = {} /\ seen = {} /\ held = {}
    BY DEF ListInit, Finished
  <1> QED
    BY <1>1 DEF LoadInv, ScreenInv, Synced

\* A load is started for the page or by a click that ends.
LEMMA StartedScreen ==
    ASSUME SafeInv, LoadInv, NEW o, o # NoLoad, StartedLoad(o), UNCHANGED page, ~KeepsResults
    PROVE  LoadInv' /\ ScreenInv'
  BY PageKept DEF StartedLoad, LoadInv, ScreenInv, Pending

\* Starting a handler.
LEMMA StartScreen ==
    ASSUME SafeInv, LoadInv, ScreenInv, ~crashed, NEW k \in Clicks, OthersKept(k),
           phase[k] \in {"idle", "asking"}, phase'[k] \in {"asking", "sent"},
           UNCHANGED <<held, crashed>>,
           \/ UNCHANGED <<loadVars, listVars>>
           \/ Written(shown \cup {k}) /\ phase'[k] = "sent" /\ Rule(k)'.writes = "early"
    PROVE  LoadInv' /\ ScreenInv'
  <1>1. Finished' = Finished
    BY FinishedKept
  <1>2. (Cached' <=> Cached) /\ (KeepsResults' <=> KeepsResults)
    BY PageKept DEF OthersKept
  <1>3. CASE UNCHANGED <<loadVars, listVars>>
    <2>1. UNCHANGED <<load, read, seen, killed, listed, failed, shown>>
      BY <1>3 DEF loadVars, listVars
    <2>2. Pending => Pending'
      BY <2>1, PendingKept
    <2> QED
      BY <1>1, <1>2, <2>1, <2>2 DEF LoadInv, ScreenInv, Synced
  <1>4. CASE Written(shown \cup {k}) /\ phase'[k] = "sent" /\ Rule(k)'.writes = "early"
    <2>1. Ahead'
      BY <1>4 DEF Ahead
    <2>2. LoadInv'
      BY <1>1, <1>2, <1>4 DEF Written, LoadInv
    <2> QED
      BY <2>1, <2>2 DEF ScreenInv, Pending
  <1> QED
    BY <1>3, <1>4

\* Starting a handler.
LEMMA ClickScreen ==
    ASSUME SafeInv, LoadInv, ScreenInv, ~crashed, NEW h \in Handlers(page),
           NEW r \in 0 .. MaxClicks, Click(h, r)
    PROVE  LoadInv' /\ ScreenInv'
  <1>0. PICK k \in Clicks : k = clicks + 1
    BY Bounds DEF Click, SafeInv, ListTypeOK, ClicksOK, Clicks
  <1>1. phase[k] = "idle"
    BY <1>0, Bounds DEF SafeInv, ListTypeOK, ClicksOK, OrderOK, Clicks
  <1>2. what' = [what EXCEPT ![k] = h] /\ UNCHANGED <<page, held, crashed>>
    BY <1>0 DEF Click
  <1>3. (\A j \in Clicks : j # k => what'[j] = what[j]) /\ what'[k] = h
    BY <1>2 DEF SafeInv, ListTypeOK, ClicksOK
  <1>4. Rule(k)' = Does(h)
    BY <1>2, <1>3 DEF Rule, Does
  <1>5. \/ /\ phase' = [phase EXCEPT ![k] = "asking"]
           /\ UNCHANGED <<loadVars, listVars>>
        \/ Sent(k, h, r)
    BY <1>0 DEF Click
  <1>6. /\ phase' \in {[phase EXCEPT ![k] = "asking"], [phase EXCEPT ![k] = "sent"]}
        /\ \/ UNCHANGED <<loadVars, listVars>>
           \/ Written(shown \cup {k}) /\ phase' = [phase EXCEPT ![k] = "sent"]
              /\ Rule(k)'.writes = "early"
    BY <1>4, <1>5 DEF Sent
  <1>7. phase'[k] \in {"asking", "sent"} /\ (phase' = [phase EXCEPT ![k] = "sent"] => phase'[k] = "sent")
    BY <1>6 DEF SafeInv, ListTypeOK, ClicksOK
  <1>8. OthersKept(k)
    BY <1>2, <1>3, <1>6, RuleKept DEF OthersKept, SafeInv, ListTypeOK, ClicksOK
  <1> QED
    BY <1>1, <1>2, <1>6, <1>7, <1>8, StartScreen

\* A step that touches neither the list nor a handler.
LEMMA AsideScreen ==
    ASSUME LoadInv, ScreenInv, UNCHANGED <<page, what, held, crashed, phase, loadVars, listVars>>
    PROVE  LoadInv' /\ ScreenInv'
  <1>1. UNCHANGED <<load, read, seen, killed, listed, failed, shown>>
    BY DEF loadVars, listVars
  <1>2. \A j : Rule(j)' = Rule(j)
    BY RuleKept
  <1>3. Finished' = Finished /\ (Spoiled => Spoiled') /\ (Ahead => Ahead')
    BY <1>2 DEF Finished, Spoiled, Ahead
  <1> QED
    BY <1>1, <1>3, PageKept DEF LoadInv, ScreenInv, Synced, Pending

\* The dialog.
LEMMA DialogScreen ==
    ASSUME SafeInv, LoadInv, ScreenInv, ~crashed, NEW k \in Clicks, Asked(k)
    PROVE  LoadInv' /\ ScreenInv'
  <1>1. k \in dialogs /\ phase[k] = "asking"
    BY DEF Asked, TypeWord, CloseDialog, ConfirmDialog, SafeInv, ListTypeOK, OrderOK
  <1>2. UNCHANGED <<page, what, held, crashed>>
    BY DEF Asked, TypeWord, CloseDialog, ConfirmDialog, clickVars
  <1>3. \A j : Rule(j)' = Rule(j)
    BY <1>2, RuleKept
  <1>4. CASE TypeWord(k) \/ CloseDialog(k)
    <2>1. UNCHANGED <<phase, loadVars, listVars>>
      BY <1>4 DEF TypeWord, CloseDialog, runVars
    <2> QED
      BY <2>1, <1>2, AsideScreen
  <1>5. CASE ConfirmDialog(k)
    <2>1. /\ phase' = [phase EXCEPT ![k] = "sent"]
          /\ \/ UNCHANGED <<loadVars, listVars>>
             \/ Written(shown \cup {k}) /\ Rule(k).writes = "early"
      BY <1>5 DEF ConfirmDialog, Sent, Rule
    <2>2. phase'[k] = "sent"
      BY <2>1 DEF SafeInv, ListTypeOK, ClicksOK
    <2>3. OthersKept(k)
      BY <2>1, <1>2, <1>3 DEF OthersKept, SafeInv, ListTypeOK, ClicksOK
    <2> QED
      BY <1>1, <1>2, <1>3, <2>1, <2>2, <2>3, StartScreen
  <1> QED
    BY <1>4, <1>5 DEF Asked

\* Escape.
LEMMA CloseAllScreen ==
    ASSUME LoadInv, ScreenInv, CloseAll
    PROVE  LoadInv' /\ ScreenInv'
  <1>1. UNCHANGED <<page, what, held, crashed, phase, loadVars, listVars>>
    BY DEF CloseAll, clickVars, runVars
  <1> QED
    BY <1>1, AsideScreen

\* Loads.
LEMMA LoadScreen ==
    ASSUME SafeInv, LoadInv, ScreenInv, ~crashed, Refresh \/ ReadList \/ LoadEnds
    PROVE  LoadInv' /\ ScreenInv'
  <1>1. UNCHANGED <<page, held, clickVars, runVars>>
    BY DEF Refresh, ReadList, LoadEnds, ListArrives, ListFails, ListMisread
  <1>2. UNCHANGED <<what, phase>>
    BY <1>1 DEF clickVars, runVars
  <1>3. \A j : Rule(j)' = Rule(j)
    BY <1>1, <1>2, RuleKept
  <1>4. Finished' = Finished /\ (Spoiled => Spoiled') /\ (Ahead => Ahead')
    BY <1>1, <1>2, <1>3 DEF Finished, Spoiled, Ahead
  <1>5. (Cached' <=> Cached) /\ (KeepsResults' <=> KeepsResults)
    BY <1>1, PageKept
  <1>6. CASE Refresh
    <2>1. PageLoad # NoLoad /\ StartedLoad(PageLoad) /\ UNCHANGED <<crashed, listed, failed, shown>>
      BY <1>6, Bounds DEF Refresh, listVars
    <2>2. CASE KeepsResults
      BY <2>1, <2>2, <1>1, <1>4, <1>5 DEF StartedLoad, LoadInv, ScreenInv, Synced, Pending
    <2>3. CASE ~KeepsResults
      BY <2>1, <2>3, <1>1, StartedScreen
    <2> QED
      BY <2>2, <2>3
  <1>7. CASE ReadList
    <2>1. seen' = held /\ UNCHANGED <<crashed, load, killed, listed, failed, shown>>
      BY <1>7 DEF ReadList, listVars
    <2>2. Finished \subseteq held
      BY DEF Finished
    <2> QED
      BY <2>1, <2>2, <1>1, <1>4, <1>5 DEF LoadInv, ScreenInv, Synced, Pending
  <1>8. CASE ListArrives
    <2>1. load # NoLoad /\ read /\ load' = NoLoad /\ UNCHANGED <<crashed, read, seen, killed>>
      BY <1>8 DEF ListArrives
    <2>2. LoadInv'
      BY <2>1, <1>1 DEF LoadInv
    <2>3. CASE killed
      BY <2>1, <2>2, <2>3, <1>1, <1>4, <1>5, <1>8
      DEF ListArrives, listVars, ScreenInv, Synced, Pending
    <2>4. CASE ~killed
      BY <2>1, <2>2, <2>4, <1>1, <1>4, <1>5, <1>8 DEF ListArrives, LoadInv, ScreenInv, Synced
    <2> QED
      BY <2>3, <2>4
  <1>9. CASE ListFails
    <2>1. load' = NoLoad /\ failed' = TRUE /\ UNCHANGED <<crashed, seen, listed, shown>>
      BY <1>9 DEF ListFails
    <2> QED
      BY <2>1, <1>1, <1>4, <1>5 DEF LoadInv, ScreenInv, Synced, Pending
  <1>10. CASE ListMisread
    <2>1. load' = NoLoad /\ shown' = {} /\ seen' = seen
          /\ Pages[page].onRefusal # "error" /\ crashed' = (Pages[page].onRefusal = "crash")
      BY <1>10 DEF ListMisread
    <2>2. LoadInv'
      BY <2>1, <1>1 DEF LoadInv
    <2>3. ASSUME Cached, ~crashed' PROVE Finished = {}
      <3>1. Pages[page].onRefusal \notin {"error", "crash"}
        BY <2>1, <2>3
      <3> SUFFICES ASSUME NEW k \in Finished PROVE FALSE
        OBVIOUS
      <3>2. k \in Clicks /\ phase[k] # "idle"
            /\ (Rule(k).reloads # "none" \/ Rule(k).writes = "result")
        BY DEF Finished, SafeInv, ListTypeOK, SetsOK
      <3> QED
        BY <2>3, <3>1, <3>2, RuleFacts
    <2> QED
      BY <2>1, <2>2, <2>3, <1>4, <1>5 DEF ScreenInv, Synced
  <1> QED
    BY <1>6, <1>7, <1>8, <1>9, <1>10 DEF LoadEnds

\* A handler that goes on.
LEMMA ContinuesScreen ==
    ASSUME SafeInv, LoadInv, ScreenInv, ~crashed, NEW k \in Clicks, Continues(k), UNCHANGED crashed,
           phase[k] = "applied" \/ (phase[k] = "sent" /\ Rule(k).checks = "no")
    PROVE  LoadInv' /\ ScreenInv'
  <1>1. /\ UNCHANGED <<page, held, what>>
        /\ phase' = [phase EXCEPT ![k] = IF Rule(k).reloads = "await" THEN "reloading" ELSE "done"]
    BY DEF Continues, clickVars
  <1>2. OthersKept(k) /\ Rule(k)' = Rule(k) /\ phase'[k] \in {"reloading", "done"}
    BY <1>1, RuleKept DEF OthersKept, SafeInv, ListTypeOK, ClicksOK
  <1>3. (Cached' <=> Cached) /\ (KeepsResults' <=> KeepsResults)
    BY <1>1, PageKept
  <1>4. CASE ~Cached
    <2>1. seen' = seen \/ seen' = {}
      BY DEF Continues, StartedLoad
    <2> QED
      BY <2>1, <1>1, <1>3, <1>4 DEF LoadInv, ScreenInv
  <1>5. CASE Cached /\ Rule(k).reloads # "none"
    <2>1. StartedLoad(k) /\ k # NoLoad
      BY <1>5, Bounds DEF Continues
    <2>2. ~KeepsResults
      BY <1>5, RuleFacts
    <2> QED
      BY <2>1, <2>2, <1>1, StartedScreen
  <1>6. CASE Cached /\ Rule(k).reloads = "none"
    <2>1. Rule(k).writes \notin {"early", "late"}
      BY <1>6, RuleFacts
    <2>2. UNCHANGED <<load, read, seen>>
          /\ killed' = (killed \/ (load # NoLoad /\ Rule(k).writes = "result"))
      BY <1>6, <2>1 DEF Continues, StartedLoad
    <2>3. CASE Rule(k).writes = "result"
      <3>1. shown' = shown \cup {k} /\ KeepsResults /\ k \in held
        BY <1>6, <2>3, RuleFacts DEF Continues, SafeInv, HeldInv
      <3>2. Finished' \subseteq Finished \cup {k}
        BY <1>1, <1>2 DEF OthersKept, Finished, SafeInv, ListTypeOK, SetsOK
      <3>3. (Spoiled => Spoiled') /\ (Ahead => Ahead')
        BY <1>2, <2>1 DEF OthersKept, Spoiled, Ahead
      <3>4. LoadInv'
        BY <2>2, <2>3, <1>1 DEF LoadInv
      <3> QED
        BY <3>1, <3>2, <3>3, <3>4, <1>1, <1>3 DEF ScreenInv, Synced, Pending
    <2>4. CASE Rule(k).writes # "result"
      <3>1. UNCHANGED <<listed, failed, shown>> /\ (killed' <=> killed)
        BY <2>1, <2>2, <2>4 DEF Continues, listVars
      <3>2. Finished' = Finished
        <4>1. k \notin Finished /\ k \notin Finished'
          BY <1>2, <1>6, <2>4 DEF Finished
        <4> QED
          BY <4>1, <1>1, <1>2 DEF OthersKept, Finished, SafeInv, ListTypeOK, SetsOK
      <3>3. (Spoiled => Spoiled') /\ (Ahead => Ahead')
        BY <1>2, <2>1 DEF OthersKept, Spoiled, Ahead
      <3>4. LoadInv'
        BY <2>2, <3>1, <3>2, <1>1, <1>3 DEF LoadInv
      <3> QED
        BY <2>2, <3>1, <3>2, <3>3, <3>4, <1>1, <1>3 DEF ScreenInv, Synced, Pending
    <2> QED
      BY <2>3, <2>4
  <1> QED
    BY <1>4, <1>5, <1>6

\* A handler that ends in an error.
LEMMA FailsScreen ==
    ASSUME SafeInv, LoadInv, ScreenInv, ~crashed, NEW k \in Clicks, Fails(k),
           phase[k] \in {"sent", "applied"}
    PROVE  LoadInv' /\ ScreenInv'
  <1>1. /\ UNCHANGED <<page, held, what, crashed, listed, failed, shown>>
        /\ phase' = [phase EXCEPT ![k] = "failed"]
    BY DEF Fails, clickVars, listVars
  <1>2. OthersKept(k) /\ Rule(k)' = Rule(k) /\ phase'[k] = "failed"
    BY <1>1, RuleKept DEF OthersKept, SafeInv, ListTypeOK, ClicksOK
  <1>3. (Cached' <=> Cached) /\ (KeepsResults' <=> KeepsResults) /\ Finished' = Finished
    BY <1>1, <1>2, PageKept, FinishedKept
  <1>4. CASE Rule(k).always /\ ~KeepsResults
    <2>1. StartedLoad(k) /\ k # NoLoad
      BY <1>4, Bounds DEF Fails
    <2> QED
      BY <2>1, <1>1, <1>4, StartedScreen
  <1>5. CASE ~Rule(k).always
    <2>1. UNCHANGED <<load, read, seen, killed>>
      BY <1>5 DEF Fails, loadVars
    <2>2. LoadInv'
      BY <2>1, <1>1, <1>3 DEF LoadInv
    <2>3. CASE Rule(k).writes = "early"
      <3>1. Spoiled'
        BY <1>2, <1>5, <2>3 DEF Spoiled
      <3> QED
        BY <2>2, <3>1 DEF ScreenInv, Pending
    <2>4. CASE Rule(k).writes # "early"
      <3>1. Pending => Pending'
        BY <2>1, <2>4, <1>1, <1>2, PendingKept
      <3> QED
        BY <2>2, <3>1, <1>1, <1>3 DEF ScreenInv, Synced
    <2> QED
      BY <2>3, <2>4
  <1>6. CASE Rule(k).always /\ KeepsResults
    <2>1. LoadInv'
      BY <1>1, <1>6 DEF Fails, StartedLoad, LoadInv
    <2>2. ASSUME Cached PROVE (Spoiled => Spoiled') /\ (Ahead => Ahead')
      <3>1. Rule(k).writes # "early"
        BY <1>6, <2>2, RuleFacts
      <3> QED
        BY <3>1, <1>2 DEF OthersKept, Spoiled, Ahead
    <2> QED
      BY <2>1, <2>2, <1>1, <1>3, <1>6 DEF ScreenInv, Synced, Pending
  <1> QED
    BY <1>4, <1>5, <1>6

\* Requests and their answers.
LEMMA RequestScreen ==
    ASSUME SafeInv, LoadInv, ScreenInv, ~crashed, NEW k \in Clicks,
           Apply(k) \/ Ends(k) \/ Reloaded(k)
    PROVE  LoadInv' /\ ScreenInv'
  <1>1. CASE Apply(k)
    <2>1. /\ phase[k] = "sent" /\ phase' = [phase EXCEPT ![k] = "applied"]
          /\ held' = held \cup {k} /\ UNCHANGED <<page, what, crashed>>
      BY <1>1 DEF Apply, clickVars
    <2>2. UNCHANGED <<load, read, seen, killed, listed, failed, shown>>
      BY <1>1 DEF Apply, loadVars, listVars
    <2>3. OthersKept(k) /\ Rule(k)' = Rule(k) /\ phase'[k] = "applied"
      BY <2>1, RuleKept DEF OthersKept, SafeInv, ListTypeOK, ClicksOK
    <2>4. Finished' = Finished
      BY <2>1, <2>3, FinishedKept
    <2>5. (Spoiled => Spoiled') /\ (Ahead => Ahead')
      BY <2>1, <2>3 DEF OthersKept, Spoiled, Ahead
    <2> QED
      BY <2>1, <2>2, <2>4, <2>5, PageKept DEF LoadInv, ScreenInv, Synced, Pending
  <1>2. CASE /\ Continues(k) /\ UNCHANGED crashed
             /\ phase[k] = "applied" \/ (phase[k] = "sent" /\ Rule(k).checks = "no")
    BY <1>2, ContinuesScreen
  <1>3. CASE Fails(k) /\ phase[k] \in {"sent", "applied"}
    BY <1>3, FailsScreen
  <1>4. CASE /\ phase[k] = "sent" /\ crashed' = TRUE
             /\ phase' = [phase EXCEPT ![k] = "failed"]
             /\ UNCHANGED <<page, held, refreshes, loadVars, listVars, askVars, clickVars, base,
                            locked, said>>
    <2>1. UNCHANGED <<page, what, held, load, read, seen, killed>>
      BY <1>4 DEF loadVars, clickVars
    <2>2. OthersKept(k) /\ phase'[k] = "failed"
      BY <1>4, <2>1, RuleKept DEF OthersKept, SafeInv, ListTypeOK, ClicksOK
    <2>3. Finished' = Finished
      BY <1>4, <2>1, <2>2, FinishedKept
    <2> QED
      BY <1>4, <2>1, <2>3, PageKept DEF LoadInv, ScreenInv
  <1>5. CASE Reloaded(k)
    <2>1. /\ phase[k] = "reloading" /\ phase' = [phase EXCEPT ![k] = "done"]
          /\ UNCHANGED <<page, held, what, crashed, load, read, seen, killed, listed, failed, shown>>
      BY <1>5 DEF Reloaded, loadVars, listVars, clickVars
    <2>2. OthersKept(k) /\ Rule(k)' = Rule(k) /\ phase'[k] = "done"
      BY <2>1, RuleKept DEF OthersKept, SafeInv, ListTypeOK, ClicksOK
    <2>3. Finished' = Finished
      BY <2>1, <2>2 DEF OthersKept, Finished, SafeInv, ListTypeOK, SetsOK
    <2>4. Pending => Pending'
      BY <2>1, <2>2, PendingKept
    <2> QED
      BY <2>1, <2>3, <2>4, PageKept DEF LoadInv, ScreenInv, Synced
  <1> QED
    BY <1>1, <1>2, <1>3, <1>4, <1>5, RequestCases

\* Every step of the page.
LEMMA NextScreen ==
    SafeInv /\ LoadInv /\ ScreenInv /\ [ListNext]_listPageVars => LoadInv' /\ ScreenInv'
  <1> SUFFICES ASSUME SafeInv, LoadInv, ScreenInv, [ListNext]_listPageVars
               PROVE  LoadInv' /\ ScreenInv'
    OBVIOUS
  <1>1. CASE UNCHANGED listPageVars
    <2>1. UNCHANGED <<page, what, held, crashed, phase, loadVars, listVars>>
      BY <1>1 DEF listPageVars, clickVars, runVars
    <2> QED
      BY <2>1, AsideScreen
  <1>2. CASE ListNext
    BY <1>2, ClickScreen, DialogScreen, CloseAllScreen, LoadScreen, RequestScreen DEF ListNext
  <1> QED
    BY <1>1, <1>2

----------------------------------------------------------------------------
\* Every reachable state has it.
THEOREM SafeInvariant == ListSpec => []SafeInv
  BY InitSafe, NextSafe, PTL DEF ListSpec

\* The type invariant of the page, for any table, number of clicks and loads.
THEOREM TypeCorrect == ListSpec => []ListTypeOK
  <1>1. SafeInv => ListTypeOK
    BY DEF SafeInv
  <1> QED
    BY SafeInvariant, <1>1, PTL

\* No handler that looks at the answer tells the user of something that the
\* server did not do, however requests, loads and broken connections interleave.
THEOREM SaidIsDone == ListSpec => []SaidDone
  <1>1. SafeInv => SaidDone
    BY DEF SafeInv, SaidInv, HeldInv, SaidDone, ListTypeOK, SetsOK
  <1> QED
    BY SafeInvariant, <1>1, PTL

\* What asks for a word is sent only after the word was typed in its dialog since
\* that dialog was opened, however many dialogs and clicks behind them there are.
THEOREM WordAsked == ListSpec => []AskedFirst
  <1>1. SafeInv => AskedFirst
    BY DEF SafeInv
  <1> QED
    BY SafeInvariant, <1>1, PTL

\* No busy flag outlives the handlers that may clear it, shared or not.
THEOREM NothingStuck == ListSpec => []FlagsFreed
  <1>1. SafeInv => FlagsFreed
    BY DEF SafeInv
  <1> QED
    BY SafeInvariant, <1>1, PTL

\* Whatever loads, writes ahead of the server, failures and older lists follow
\* each other, a page that keeps its list in SWR and has come to rest shows what
\* was done through it and nothing else.
THEOREM ScreenIsTrue == ListSpec => []ScreenTrue
  <1>1. SafeInv /\ LoadInv /\ ScreenInv /\ [ListNext]_listPageVars
            => (SafeInv /\ LoadInv /\ ScreenInv)'
    BY NextSafe, NextScreen
  <1>2. SafeInv /\ LoadInv /\ ScreenInv => ScreenTrue
    <2> SUFFICES ASSUME SafeInv, ScreenInv, Settled PROVE ScreenTrue
      BY DEF ScreenTrue, OwnShown, NoPhantom
    <2>1. ~Pending
      BY DEF Settled, Pending, Ahead, Underway
    <2>2. Finished \subseteq shown /\ shown \subseteq held
      BY <2>1 DEF Settled, ScreenInv, Synced
    <2> QED
      BY <2>2 DEF ScreenTrue, OwnShown, NoPhantom, Finished
  <1> QED
    BY InitSafe, InitScreen, <1>1, <1>2, PTL DEF ListSpec
=============================================================================
