----------------------------- MODULE ListPages -----------------------------
(***************************************************************************)
(* A page of the frontend that shows a list kept by the server and has     *)
(* buttons that change it.  The pages differ in a table: what each handler *)
(* asks before its request, whether it looks at the answer, when it tells  *)
(* the user, what it writes into the list and whether it loads the list    *)
(* again; which buttons a running handler disables; and what the page does *)
(* with a load that is refused.  PageTables has the table of every page.   *)
(*                                                                         *)
(* Lists are kept by SWR, where a load that is superseded by a newer one,  *)
(* or by a write of the page, is dropped when it arrives, or copied from   *)
(* it, or kept by hand.  A list is described by the set of clicks whose    *)
(* effect is in it.                                                        *)
(***************************************************************************)
EXTENDS Naturals

CONSTANTS
    Pages,      \* the pages, by name: cache, onRefusal, does and buttons
    MaxClicks,  \* bound: handlers started in a visit
    MaxRefresh  \* bound: loads the page starts by itself after the first

Clicks   == 1 .. MaxClicks
NoLoad   == 0
PageLoad == MaxClicks + 1

Handlers(p) == DOMAIN Pages[p].does

ASSUME ListAssumption ==
    /\ MaxClicks \in Nat
    /\ MaxRefresh \in Nat
    /\ \A p \in DOMAIN Pages : DOMAIN Pages[p].buttons = Handlers(p)

VARIABLES
    page,       \* the page that is open
    held,       \* clicks the server has carried out
    listed, failed, crashed,    \* a list arrived; the last load failed; the page is gone
    shown,      \* clicks whose effect is on the screen
    load,       \* who started the current load: a click, the page, or nobody
    read, seen, \* the server has read the list for it, and what it saw
    killed,     \* the page wrote into the list since: the load will be dropped
    refreshes,  \* loads the page started (bounded)
    clicks,     \* handlers started
    what, row,  \* handler and row of each click
    phase,      \* where its handler is
    base,       \* the list its closure holds
    locked,     \* clicks whose busy flag is set
    said,       \* clicks the user was told succeeded
    dialogs,    \* clicks whose confirmation is open
    typed,      \* clicks in whose confirmation the field holds the word
    keyed       \* clicks in whose confirmation the word was typed while it was open (history)

loadVars  == <<load, read, seen, killed>>
listVars  == <<listed, failed, shown>>
askVars   == <<dialogs, typed, keyed>>
clickVars == <<clicks, what, row>>
runVars   == <<phase, base, locked, said>>
listPageVars == <<page, held, crashed, refreshes, loadVars, listVars, askVars, clickVars, runVars>>

Cached       == Pages[page].cache = "swr"
Does(h)      == Pages[page].does[h]
Rule(k)      == Does(what[k])
Button(h)    == Pages[page].buttons[h]

\* What the tables have in common, and a list that follows the server rests on.
Writes(p, h)   == Pages[p].does[h].writes
Reloads(p, h)  == Pages[p].does[h].reloads # "none"
Keeps(p, h)    == Writes(p, h) = "result" /\ ~Reloads(p, h)

ASSUME TableAssumption ==
    \A p \in DOMAIN Pages : Pages[p].cache = "swr" =>
        /\ \A h \in Handlers(p) : Writes(p, h) \in {"early", "late"} => Reloads(p, h)
        /\ \A h, g \in Handlers(p) : Keeps(p, h) => ~Reloads(p, g)
        /\ \A h \in Handlers(p) : Keeps(p, h) => Pages[p].does[h].checks # "no"
        /\ Pages[p].onRefusal \notin {"error", "crash"} =>
               \A h \in Handlers(p) : ~Reloads(p, h) /\ Writes(p, h) # "result"

----------------------------------------------------------------------------
ListInit ==
    /\ page \in DOMAIN Pages
    /\ held = {} /\ shown = {} /\ seen = {} /\ said = {} /\ locked = {}
    /\ dialogs = {} /\ typed = {} /\ keyed = {}
    /\ listed = FALSE /\ failed = FALSE /\ crashed = FALSE
    /\ load = PageLoad /\ read = FALSE /\ killed = FALSE
    /\ refreshes = 0 /\ clicks = 0
    /\ what = [k \in Clicks |-> "none"]
    /\ row = [k \in Clicks |-> 0]
    /\ phase = [k \in Clicks |-> "idle"]
    /\ base = [k \in Clicks |-> {}]

\* "asking" is a click whose confirmation was opened and has not been given.
Phases == {"idle", "asking", "sent", "applied", "reloading", "done", "failed"}

----------------------------------------------------------------------------
(* Loads of the list *)

\* Variant: a load that is asked for while another is under way joins it.
JoinedLoad(o) ==
    IF load # NoLoad
    THEN UNCHANGED loadVars
    ELSE load' = o /\ read' = FALSE /\ seen' = {} /\ killed' = FALSE

\* mutate(): a new load, and the one under way is dropped.
StartedLoad(o) == load' = o /\ read' = FALSE /\ seen' = {} /\ killed' = FALSE

\* mutate(data, false): the data is shown, and the load under way is dropped.
Written(list) ==
    /\ shown' = list
    /\ failed' = FALSE
    /\ killed' = (Cached /\ load # NoLoad)
    /\ UNCHANGED <<listed, load, read, seen>>

\* The timer, or the window getting the focus.  During a load it changes nothing.
Refresh ==
    /\ Pages[page].cache # "hand"
    /\ load = NoLoad
    /\ refreshes < MaxRefresh
    /\ refreshes' = refreshes + 1
    /\ StartedLoad(PageLoad)
    /\ UNCHANGED <<page, held, crashed, listVars, askVars, clickVars, runVars>>

\* The server reads the list for the load.
ReadList ==
    /\ load # NoLoad
    /\ ~read
    /\ read' = TRUE
    /\ seen' = held
    /\ UNCHANGED <<page, held, crashed, refreshes, load, killed, listVars, askVars, clickVars,
                   runVars>>

\* The list arrives, and is shown unless its load was dropped.
ListArrives ==
    /\ load # NoLoad
    /\ read
    /\ load' = NoLoad
    /\ IF killed
       THEN UNCHANGED listVars
       ELSE shown' = seen /\ listed' = TRUE /\ failed' = FALSE
    /\ UNCHANGED <<page, held, crashed, refreshes, read, seen, killed, askVars, clickVars, runVars>>

\* The load fails: the list stays on the screen.
ListFails ==
    /\ load # NoLoad
    /\ load' = NoLoad
    /\ failed' = TRUE
    /\ UNCHANGED <<page, held, crashed, refreshes, read, seen, killed, listed, shown, askVars,
                   clickVars, runVars>>

\* The load is refused, and the page takes the error for a list.
ListMisread ==
    /\ load # NoLoad
    /\ ~killed
    /\ Pages[page].onRefusal # "error"
    /\ load' = NoLoad
    /\ crashed' = (Pages[page].onRefusal = "crash")
    /\ shown' = {}
    /\ listed' = TRUE
    /\ failed' = FALSE
    /\ UNCHANGED <<page, held, refreshes, read, seen, killed, askVars, clickVars, runVars>>

----------------------------------------------------------------------------
(* Starting a handler *)

\* Click j set the busy flag that handler h sets in row r: the one of that row,
\* or one of the page, which several handlers may share.
Shares(j, h, r) ==
    /\ Rule(j).lock = Does(h).lock
    /\ Does(h).lock = "row" => what[j] = h /\ row[j] = r

Unlocked(k) == locked' = {j \in locked : ~Shares(j, what[k], row[k])}

\* The button of handler h, in row r, is not disabled.
Enabled(h, r) ==
    \A j \in locked : what[j] \in Button(h).off => Rule(j).lock = "row" /\ row[j] # r

\* The handler takes its flag, writes ahead of the server if it does that, and
\* sends its request.
Sent(k, h, r) ==
    LET R == Does(h) IN
    /\ phase' = [phase EXCEPT ![k] = "sent"]
    /\ base' = [base EXCEPT ![k] = IF R.writes = "late" THEN shown ELSE {}]
    /\ locked' = IF R.lock = "none"
                 THEN locked
                 ELSE {j \in locked : ~Shares(j, h, r)} \cup {k}
    /\ IF R.writes = "early" THEN Written(shown \cup {k}) ELSE UNCHANGED <<loadVars, listVars>>

\* Click j opened the dialog that handler h opens in row r: one for all rows, or
\* one of the row.
SameDialog(j, h, r) == what[j] = h /\ (Does(h).apart => row[j] = r)

\* Variant: the field of a dialog is not emptied when it opens.
OpenedTyped(k, h, r) ==
    LET before == {j \in Clicks : SameDialog(j, h, r)} IN
    /\ dialogs' = (dialogs \ before) \cup {k}
    /\ typed' = typed \cup {j \in {k} : before \cap typed # {}}
    /\ UNCHANGED keyed

\* A dialog opens with an empty field.  One that is open is turned to the new
\* click, and keeps what is in its field.
Opened(k, h, r) ==
    LET over == {j \in dialogs : SameDialog(j, h, r)}
        kept == {j \in {k} : over \cap typed # {}}
    IN  /\ dialogs' = (dialogs \ over) \cup {k}
        /\ typed' = typed \cup kept
        /\ keyed' = keyed \cup kept

\* A button is pressed, with its form filled in; native confirms are answered
\* at once, and a click they stop is none.  Rows are numbered as they are used.
\* A dialog does not hold the focus: the keyboard gets to the buttons behind it.
Click(h, r) ==
    LET k == clicks + 1 IN
    /\ clicks < MaxClicks
    /\ Button(h).shows # "always" => listed
    /\ IF Button(h).shows = "row" THEN r \in 1 .. k ELSE r = 0
    /\ Enabled(h, r)
    /\ clicks' = k
    /\ what' = [what EXCEPT ![k] = h]
    /\ row' = [row EXCEPT ![k] = r]
    /\ IF Does(h).ask \in {"dialog", "word"}
       THEN /\ Opened(k, h, r)
            /\ phase' = [phase EXCEPT ![k] = "asking"]
            /\ UNCHANGED <<base, locked, loadVars, listVars>>
       ELSE Sent(k, h, r) /\ UNCHANGED askVars
    /\ UNCHANGED <<page, held, crashed, refreshes, said>>

\* The word is typed; it cannot be pasted.
TypeWord(k) ==
    /\ k \in dialogs
    /\ Rule(k).ask = "word"
    /\ typed' = typed \cup {k}
    /\ keyed' = keyed \cup {k}
    /\ UNCHANGED <<page, held, crashed, refreshes, loadVars, listVars, dialogs, clickVars, runVars>>

\* Cancel, the close button or the backdrop.
CloseDialog(k) ==
    /\ k \in dialogs
    /\ dialogs' = dialogs \ {k}
    /\ UNCHANGED <<page, held, crashed, refreshes, loadVars, listVars, typed, keyed, clickVars,
                   runVars>>

\* Escape, which every open dialog listens to.
CloseAll ==
    /\ dialogs # {}
    /\ dialogs' = {}
    /\ UNCHANGED <<page, held, crashed, refreshes, loadVars, listVars, typed, keyed, clickVars,
                   runVars>>

\* The button of the dialog, or Enter in its field: the handler runs and the
\* dialog closes.
ConfirmDialog(k) ==
    /\ k \in dialogs
    /\ Rule(k).ask = "word" => k \in typed
    /\ dialogs' = dialogs \ {k}
    /\ Sent(k, what[k], row[k])
    /\ UNCHANGED <<page, held, crashed, refreshes, typed, keyed, clickVars, said>>

----------------------------------------------------------------------------
(* The rest of the handler *)

\* The server carries the request out.
Apply(k) ==
    /\ phase[k] = "sent"
    /\ phase' = [phase EXCEPT ![k] = "applied"]
    /\ held' = held \cup {k}
    /\ UNCHANGED <<page, crashed, refreshes, loadVars, listVars, askVars, clickVars, base, locked,
                   said>>

\* The handler goes on after an answer it takes for success.
Continues(k) ==
    LET R == Rule(k) IN
    /\ \/ R.writes \in {"none", "early"} /\ UNCHANGED listVars
       \/ R.writes = "late"   /\ shown' = base[k] \cup {k} /\ failed' = FALSE /\ UNCHANGED listed
       \/ R.writes = "result" /\ shown' = shown \cup {k}   /\ failed' = FALSE /\ UNCHANGED listed
    /\ \/ R.reloads # "none" /\ StartedLoad(k)
       \/ /\ R.reloads = "none"
          /\ killed' = (killed \/ (Cached /\ load # NoLoad /\ R.writes \in {"late", "result"}))
          /\ UNCHANGED <<load, read, seen>>
    /\ phase' = [phase EXCEPT ![k] = IF R.reloads = "await" THEN "reloading" ELSE "done"]
    /\ said' = IF R.tells = "first" \/ (R.tells = "last" /\ R.reloads # "await")
               THEN said \cup {k} ELSE said
    /\ IF R.reloads = "await" \/ R.frees = "failure" THEN UNCHANGED locked ELSE Unlocked(k)
    /\ UNCHANGED <<page, held, refreshes, askVars, clickVars, base>>

\* Variant: the flag is cleared on success only.
FailsLocked(k) ==
    /\ phase' = [phase EXCEPT ![k] = "failed"]
    /\ IF Rule(k).always THEN StartedLoad(k) ELSE UNCHANGED loadVars
    /\ UNCHANGED <<page, held, crashed, refreshes, listVars, askVars, clickVars, base, locked, said>>

\* The handler ends in its catch or finally, or in an error nobody catches.
Fails(k) ==
    /\ phase' = [phase EXCEPT ![k] = "failed"]
    /\ Unlocked(k)
    /\ IF Rule(k).always THEN StartedLoad(k) ELSE UNCHANGED loadVars
    /\ UNCHANGED <<page, held, crashed, refreshes, listVars, askVars, clickVars, base, said>>

Answered(k) == phase[k] = "applied" /\ Continues(k) /\ UNCHANGED crashed

\* Variant: no handler looks at the answer.
RefusedUnseen(k) == phase[k] = "sent" /\ Continues(k) /\ UNCHANGED crashed

\* The request is refused.  A handler that does not look at the answer goes on as
\* if it had succeeded, or breaks the page with what it takes from it.
Refused(k) ==
    /\ phase[k] = "sent"
    /\ \/ Rule(k).checks # "no" /\ Fails(k)
       \/ Rule(k).checks = "no" /\ Continues(k) /\ UNCHANGED crashed
       \/ /\ Rule(k).checks = "crash"
          /\ crashed' = TRUE
          /\ phase' = [phase EXCEPT ![k] = "failed"]
          /\ UNCHANGED <<page, held, refreshes, loadVars, listVars, askVars, clickVars, base,
                         locked, said>>

\* The network fails before the answer, and perhaps after the server's work.
Broken(k) == phase[k] \in {"sent", "applied"} /\ Fails(k)

\* The load the handler waits for has ended, or was dropped and ends.
Reloaded(k) ==
    /\ phase[k] = "reloading"
    /\ load # k
    /\ phase' = [phase EXCEPT ![k] = "done"]
    /\ said' = IF Rule(k).tells = "last" THEN said \cup {k} ELSE said
    /\ Unlocked(k)
    /\ UNCHANGED <<page, held, crashed, refreshes, loadVars, listVars, askVars, clickVars, base>>

----------------------------------------------------------------------------
LoadEnds == ListArrives \/ ListFails \/ ListMisread
Asked(k) == TypeWord(k) \/ CloseDialog(k) \/ ConfirmDialog(k)
Ends(k)  == Answered(k) \/ Refused(k) \/ Broken(k)

ListNext ==
    /\ ~crashed
    /\ \/ Refresh \/ ReadList \/ LoadEnds \/ CloseAll
       \/ \E h \in Handlers(page), r \in 0 .. MaxClicks : Click(h, r)
       \/ \E k \in Clicks : Asked(k) \/ Apply(k) \/ Ends(k) \/ Reloaded(k)

ListSpec == ListInit /\ [][ListNext]_listPageVars

----------------------------------------------------------------------------
(* Properties *)

FlagsOK ==
    /\ listed \in BOOLEAN /\ failed \in BOOLEAN /\ crashed \in BOOLEAN
    /\ read \in BOOLEAN /\ killed \in BOOLEAN

SetsOK ==
    /\ page \in DOMAIN Pages
    /\ held \subseteq Clicks /\ shown \subseteq Clicks /\ seen \subseteq Clicks
    /\ said \subseteq Clicks /\ locked \subseteq Clicks
    /\ dialogs \subseteq Clicks /\ typed \subseteq Clicks /\ keyed \subseteq Clicks
    /\ load \in 0 .. PageLoad
    /\ refreshes \in 0 .. MaxRefresh

ClicksOK ==
    /\ clicks \in 0 .. MaxClicks
    /\ what \in [Clicks -> Handlers(page) \cup {"none"}]
    /\ row \in [Clicks -> 0 .. MaxClicks]
    /\ phase \in [Clicks -> Phases]
    /\ base \in [Clicks -> SUBSET Clicks]

OrderOK ==
    /\ \A k \in Clicks : phase[k] = "idle" <=> k > clicks
    /\ \A k \in Clicks : k <= clicks => what[k] \in Handlers(page)
    /\ \A k \in dialogs : phase[k] = "asking"

ListTypeOK == FlagsOK /\ SetsOK /\ ClicksOK /\ OrderOK

Underway(k) == phase[k] \in {"sent", "applied", "reloading"}

\* A write ahead of a request that then failed, with no load to undo it: the
\* edit of a flag (flags/page.tsx:268-274).
Spoiled ==
    \E k \in Clicks : phase[k] = "failed" /\ Rule(k).writes = "early" /\ ~Rule(k).always

Settled ==
    /\ Cached /\ listed /\ ~crashed
    /\ load = NoLoad /\ ~failed
    /\ \A k \in Clicks : ~Underway(k)
    /\ ~Spoiled

\* Once no handler and no load is under way, a change the server carried out for
\* a handler that loads or writes the list is on the screen, whatever load was
\* under way when it was made ...
OwnShown ==
    Settled => \A k \in held :
        (phase[k] = "done" /\ (Rule(k).reloads # "none" \/ Rule(k).writes = "result"))
            => k \in shown

\* ... and the screen shows no change that the server did not carry out, however
\* writes ahead of the server, their failures and older lists followed each other.
NoPhantom == Settled => shown \subseteq held

ScreenTrue == OwnShown /\ NoPhantom

\* The user is told that something was done only when it was, by every handler
\* that looks at the answer: a refusal or a broken connection is never reported
\* as success, and neither is the load that follows it.
SaidDone == \A k \in said : k \in held \/ Rule(k).checks = "no"

\* A request behind a word is sent only after the word was typed in its dialog
\* while that dialog was open, whatever was clicked behind it: what was typed in an
\* earlier one, closed without an answer, is of no use (ConfirmDialog.tsx:3-8,
\* 49-54).  A dialog that rows share keeps the word when it is turned to another
\* row before it is closed; where each row has its own, the word is the row's.
AskedFirst ==
    \A k \in Clicks :
        (phase[k] \notin {"idle", "asking"} /\ Rule(k).ask = "word") => k \in keyed

\* A busy flag is set only by a handler that is under way, however handlers that
\* share one end: no button stays disabled.  The flag of a row that was deleted
\* goes with the row (connectors/page.tsx:252-261).
FlagsFreed ==
    crashed \/ \A k \in locked : Underway(k) \/ (phase[k] = "done" /\ Rule(k).frees = "failure")
=============================================================================
