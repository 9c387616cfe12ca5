---------------------------- MODULE Clients_proofs ----------------------------
(***************************************************************************)
(* Theorems about the clients: the JavaScript, Node and React Native SDKs  *)
(* for any events, users, batch size and timeout, and the screens of the   *)
(* frontend for any tabs, requests, queries and streams.                   *)
(***************************************************************************)
EXTENDS JsSdk, RnSdk, NodeSdk, QueryPages, Session, LivePage, TLAPS

----------------------------------------------------------------------------
(* The session of the browser *)

\* A request that n sign-ins have been made before.
Request(n) ==
    [id : Nat, tab : Tabs, does : DOMAIN Forms \cup {"call"},
     how : CallKinds \cup {Forms[f].how : f \in DOMAIN Forms}, made : 0 .. n, as : 0 .. n]

\* Every sign-in that is stored, sent, waited for or refused is one the server
\* made.
SessionTypeOK ==
    /\ signIns \in Nat /\ sends \in Nat
    /\ token \in 0 .. signIns /\ key \in 0 .. signIns /\ org \in 0 .. signIns
    /\ place \in [Tabs -> {"entry", "app"}]
    /\ leaving \subseteq Tabs
    /\ sent \subseteq Request(signIns)
    /\ gone \subseteq 1 .. signIns
    /\ withKey \subseteq 1 .. signIns

\* A sign-in that brings a key was asked for with a form that keeps it.
KeyedBy(q) == q.made \in withKey => q.does # "call" /\ "key" \in Forms[q.does].keeps

SessionInv == SessionTypeOK /\ SessionWhole /\ \A q \in sent : KeyedBy(q)

\* More sign-ins only add to what a request can be.
LEMMA RequestGrows ==
    ASSUME NEW m \in Nat, NEW n \in Nat, m <= n
    PROVE  Request(m) \subseteq Request(n) /\ 1 .. m \subseteq 1 .. n /\ 0 .. m \subseteq 0 .. n
  <1>1. 0 .. m \subseteq 0 .. n /\ 1 .. m \subseteq 1 .. n
    OBVIOUS
  <1> QED BY <1>1 DEF Request

\* Storing the answer of an entry page replaces the token and the organisation
\* together, and the key with them where the answer brought one.
LEMMA StoredKeeps ==
    ASSUME SessionTypeOK, NEW form, NEW n \in 1 .. signIns', signIns' \in Nat,
           signIns <= signIns', withKey' = withKey, n \in withKey => "key" \in form.keeps,
           Stored(form, n)
    PROVE  /\ token' \in 0 .. signIns' /\ key' \in 0 .. signIns' /\ org' \in 0 .. signIns'
           /\ SessionWhole'
  BY DEF SessionTypeOK, SessionWhole, Stored

\* Nobody is signed in at first.
LEMMA InitSession == SessionInit => SessionInv
  BY DEF SessionInit, SessionInv, SessionTypeOK, SessionWhole, KeyedBy

\* A request knows the token of the moment it left.
LEMMA SendsKeeps ==
    ASSUME SessionTypeOK, NEW t \in Tabs, NEW what \in DOMAIN Forms \cup {"call"},
           NEW how \in CallKinds \cup {Forms[f].how : f \in DOMAIN Forms},
           Sends(t, what, how)
    PROVE  /\ sends' \in Nat /\ sent' \subseteq Request(signIns)
           /\ \A q \in sent' : q \in sent \/ q.made \notin withKey
  BY DEF SessionTypeOK, Request, Sends

\* What a tab does: it opens, asks, signs in by a link, loads /login, logs out or
\* submits a form.
LEMMA TabStep ==
    ASSUME SessionInv, NEW t \in Tabs,
           \/ Opens(t) \/ Call(t) \/ SsoLands(t) \/ Unload(t) \/ Logout(t)
           \/ \E f \in DOMAIN Forms : Submit(t, f)
    PROVE  SessionInv'
  <1> USE DEF SessionInv
  <1>1. CASE Opens(t)
    <2>1. /\ sends' \in Nat /\ sent' \subseteq Request(signIns)
          /\ \A q \in sent' : q \in sent \/ q.made \notin withKey
      BY <1>1, SendsKeeps DEF Opens, SessionTypeOK
    <2> QED BY <1>1, <2>1 DEF Opens, SessionTypeOK, SessionWhole, KeyedBy, stored
  <1>2. CASE Call(t)
    <2>1. /\ sends' \in Nat /\ sent' \subseteq Request(signIns)
          /\ \A q \in sent' : q \in sent \/ q.made \notin withKey
      BY <1>2, SendsKeeps DEF Call
    <2> QED BY <1>2, <2>1 DEF Call, SessionTypeOK, SessionWhole, KeyedBy, stored
  <1>3. CASE SsoLands(t)
    <2>1. signIns' = signIns + 1 /\ Stored(SsoLanding, signIns + 1)
      BY <1>3 DEF SsoLands
    <2>2. sent' \subseteq Request(signIns')
      BY <1>3, <2>1, RequestGrows DEF SsoLands, SessionTypeOK
    <2>3. gone' \subseteq 1 .. signIns'
      BY <1>3, <2>1 DEF SsoLands, SessionTypeOK
    <2>4. /\ token' \in 0 .. signIns' /\ key' \in 0 .. signIns' /\ org' \in 0 .. signIns'
          /\ SessionWhole'
      <3>1. signIns + 1 \notin withKey /\ withKey' = withKey
        BY <1>3 DEF SsoLands, SessionTypeOK
      <3> QED BY <2>1, <3>1, StoredKeeps DEF SessionTypeOK
    <2>5. withKey' \subseteq 1 .. signIns' /\ \A q \in sent' : KeyedBy(q)'
      BY <1>3, <2>1 DEF SsoLands, SessionTypeOK, KeyedBy
    <2> QED BY <1>3, <2>1, <2>2, <2>3, <2>4, <2>5 DEF SsoLands, SessionTypeOK
  <1>4. CASE Unload(t)
    BY <1>4 DEF Unload, SessionTypeOK, SessionWhole, KeyedBy, stored
  <1>5. CASE Logout(t)
    BY <1>5 DEF Logout, Cleared, SessionTypeOK, SessionWhole, KeyedBy
  <1>6. ASSUME NEW f \in DOMAIN Forms, Submit(t, f)
        PROVE  SessionInv'
    <2>1. /\ sends' \in Nat /\ sent' \subseteq Request(signIns)
          /\ \A q \in sent' : q \in sent \/ q.made \notin withKey
      BY <1>6, SendsKeeps DEF Submit
    <2> QED BY <1>6, <2>1 DEF Submit, SessionTypeOK, SessionWhole, KeyedBy, stored
  <1> QED BY <1>1, <1>2, <1>3, <1>4, <1>5, <1>6

\* What comes of a request: a token, an answer that is stored, or the end of the
\* session.
LEMMA RequestStep ==
    ASSUME SessionInv, NEW q \in sent,
           LetsIn(q) \/ SignedIn(q) \/ Over(q) \/ Unauthorized(q)
    PROVE  SessionInv'
  <1> USE DEF SessionInv
  <1>1. CASE LetsIn(q)
    <2>1. signIns' = signIns + 1 /\ gone' \subseteq 1 .. signIns'
      BY <1>1 DEF LetsIn, SessionTypeOK
    <2>2. sent \subseteq Request(signIns')
      BY <2>1, RequestGrows DEF SessionTypeOK
    <2>3. [q EXCEPT !.made = signIns + 1] \in Request(signIns')
      BY <2>1, <2>2 DEF Request, SessionTypeOK
    <2>4. sent' \subseteq Request(signIns')
      BY <1>1, <2>2, <2>3 DEF LetsIn
    <2>5. withKey \subseteq withKey' /\ withKey' \subseteq withKey \cup {signIns + 1}
      BY <1>1 DEF LetsIn
    <2>6. SessionWhole' /\ withKey' \subseteq 1 .. signIns'
      BY <1>1, <2>1, <2>5 DEF LetsIn, SessionTypeOK, SessionWhole, stored
    <2>7. ASSUME NEW r \in sent'
          PROVE  KeyedBy(r)'
      <3>1. CASE r \in sent
        <4>1. r.made \in 0 .. signIns
          BY <3>1 DEF SessionTypeOK, Request
        <4> QED BY <2>5, <3>1, <4>1 DEF KeyedBy, SessionTypeOK
      <3>2. CASE r = [q EXCEPT !.made = signIns + 1]
        <4>1. r.made = signIns + 1 /\ r.does = q.does /\ q.does # "call"
          BY <1>1, <3>2 DEF LetsIn, SessionTypeOK, Request
        <4>2. signIns + 1 \notin withKey
          BY DEF SessionTypeOK
        <4>3. withKey' = IF "key" \in Forms[q.does].keeps THEN withKey \cup {signIns + 1} ELSE withKey
          BY <1>1 DEF LetsIn
        <4> HIDE DEF Forms
        <4> QED BY <4>1, <4>2, <4>3 DEF KeyedBy
      <3> QED BY <1>1, <3>1, <3>2 DEF LetsIn
    <2> QED BY <1>1, <2>1, <2>4, <2>6, <2>7 DEF LetsIn, SessionTypeOK, stored
  <1>2. CASE SignedIn(q)
    <2>1. q.made \in 1 .. signIns /\ q.tab \in Tabs
      BY <1>2 DEF SignedIn, SessionTypeOK, Request
    <2>2. /\ token' \in 0 .. signIns' /\ key' \in 0 .. signIns' /\ org' \in 0 .. signIns'
          /\ SessionWhole'
      <3>1. q.made \in withKey => "key" \in Forms[q.does].keeps
        BY DEF KeyedBy
      <3>2. Stored(Forms[q.does], q.made) /\ signIns' = signIns /\ withKey' = withKey
        BY <1>2 DEF SignedIn
      <3> QED BY <2>1, <3>1, <3>2, StoredKeeps DEF SessionTypeOK
    <2> QED BY <1>2, <2>1, <2>2 DEF SignedIn, SessionTypeOK, KeyedBy
  <1>3. CASE Over(q)
    BY <1>3 DEF Over, SessionTypeOK, SessionWhole, KeyedBy, stored
  <1>4. CASE Unauthorized(q)
    <2>1. q.tab \in Tabs
      BY DEF SessionTypeOK, Request
    <2> QED BY <1>4, <2>1 DEF Unauthorized, Cleared, SessionTypeOK, SessionWhole, KeyedBy
  <1> QED BY <1>1, <1>2, <1>3, <1>4

\* The invariant of the session.
LEMMA SessionInvariant == SessionSpec => []SessionInv
  <1>1. SessionInv /\ [SessionNext]_sessionVars => SessionInv'
    <2> SUFFICES ASSUME SessionInv, [SessionNext]_sessionVars
                 PROVE  SessionInv'
      OBVIOUS
    <2>1. ASSUME NEW n \in 1 .. MaxSignIns, Expire(n)
          PROVE  SessionInv'
      BY <2>1 DEF Expire, SessionInv, SessionTypeOK, SessionWhole, KeyedBy, stored
    <2>2. CASE UNCHANGED sessionVars
      BY <2>2 DEF sessionVars, stored, SessionInv, SessionTypeOK, SessionWhole, KeyedBy
    <2> QED BY <2>1, <2>2, TabStep, RequestStep DEF SessionNext
  <1> QED BY <1>1, InitSession, PTL DEF SessionSpec

\* Whatever tabs sign in and out, and in whichever order answers and late 401s
\* come (lib/api.ts, the entry pages, the sidebar), the browser holds a token and
\* the organisation of the same sign-in or neither, no API key without them, and
\* the key of the same answer after a login, a signup or the demo.  (After an
\* invite or a provider's sign-in the key may be of another sign-in.)
THEOREM WholeSession == SessionSpec => []SessionWhole
  BY SessionInvariant, PTL DEF SessionInv

\* Every token, key and org in storage, and every request, is of a sign-in that the
\* server has made; no tab is on another page than the two kinds there are.
THEOREM SessionTypes == SessionSpec => []SessionTypeOK
  <1>1. SessionInv => SessionTypeOK
    BY DEF SessionInv
  <1> QED BY <1>1, SessionInvariant, PTL

----------------------------------------------------------------------------
(* The mobile SDK *)

RnTypeOK ==
    /\ rnApp \in {"fresh", "reading", "writing", "ready", "broken"}
    /\ rnKeyed \in BOOLEAN
    /\ rnStarts \in Nat /\ rnStarts > 0
    /\ rnAnon \in 0 .. rnStarts /\ rnDraft \in 0 .. rnStarts /\ rnDisk \in 0 .. rnStarts
    /\ rnUser \in RnUsers \cup {Unknown}
    /\ rnAt \in [RnEvents -> {"uncalled", "due", "waiting", "sent", "dropped"}]
    /\ rnCarries \in [RnEvents -> [anon : Nat, user : RnUsers \cup {Unknown}]]
    /\ rnSentTo \in [RnEvents -> {"nobody", "org", "default"}]

\* Every id in use is the one on the disk: memory takes it from there, or after
\* it was stored there, and a draft is only stored where there was none.
IdInv ==
    /\ rnAnon \in {0, rnDisk}
    /\ rnApp = "writing" => rnDraft # 0 /\ rnDisk \in {0, rnDraft}
    /\ \A e \in RnEvents : rnCarries[e].anon \in {0, rnDisk}

RnInv == RnTypeOK /\ IdInv

\* A device that has never run the app has no id.
LEMMA InitRn == RnInit => RnInv
  <1> SUFFICES ASSUME RnInit PROVE RnInv
    OBVIOUS
  <1>1. rnCarries \in [RnEvents -> [anon : Nat, user : RnUsers \cup {Unknown}]]
    BY DEF RnInit
  <1>4. /\ rnAt \in [RnEvents -> {"uncalled", "due", "waiting", "sent", "dropped"}]
        /\ rnSentTo \in [RnEvents -> {"nobody", "org", "default"}]
    BY DEF RnInit
  <1>5. /\ rnStarts \in Nat /\ rnStarts > 0
        /\ rnAnon \in 0 .. rnStarts /\ rnDraft \in 0 .. rnStarts /\ rnDisk \in 0 .. rnStarts
    BY DEF RnInit
  <1>6. rnApp = "fresh" /\ rnKeyed = FALSE /\ rnUser = Unknown
    BY DEF RnInit
  <1>2. RnTypeOK
    BY <1>1, <1>4, <1>5, <1>6 DEF RnTypeOK
  <1>3. IdInv
    BY DEF RnInit, IdInv
  <1> QED BY <1>2, <1>3 DEF RnInv

\* The steps of configure, and what ends or interrupts it.
LEMMA ConfigureStep ==
    ASSUME RnInv,
           \/ RnConfigure \/ RnRead \/ RnStored \/ RnWritten \/ RnStorageFails
           \/ RnReset \/ RnRestart
    PROVE  RnInv'
  <1> USE DEF RnInv, RnTypeOK, IdInv, rnMemory, rnEvents
  <1>1. CASE RnConfigure
    BY <1>1 DEF RnConfigure
  <1>2. CASE RnRead
    <2>1. CASE rnDisk = 0
      BY <1>2, <2>1 DEF RnRead
    <2>2. CASE rnDisk # 0
      BY <1>2, <2>2 DEF RnRead
    <2> QED BY <2>1, <2>2
  <1>3. CASE RnStored
    <2>1. rnDisk = 0 /\ rnAnon = 0 /\ \A e \in RnEvents : rnCarries[e].anon = 0
      BY <1>3 DEF RnStored
    <2> QED BY <1>3, <2>1 DEF RnStored
  <1>4. CASE RnWritten
    BY <1>4 DEF RnWritten
  <1>5. CASE RnStorageFails
    BY <1>5 DEF RnStorageFails
  <1>6. CASE RnReset
    BY <1>6 DEF RnReset
  <1>7. CASE RnRestart
    <2>1. rnAt' \in [RnEvents -> {"uncalled", "due", "waiting", "sent", "dropped"}]
      BY <1>7 DEF RnRestart
    <2>2. rnStarts' \in Nat /\ rnStarts' > 0 /\ rnAnon' = 0 /\ rnDraft' = 0 /\ rnDisk' \in 0 .. rnStarts'
      BY <1>7 DEF RnRestart
    <2>3. rnApp' = "fresh" /\ rnKeyed' = FALSE /\ rnUser' = Unknown
          /\ UNCHANGED <<rnDisk, rnCarries, rnSentTo>>
      BY <1>7 DEF RnRestart
    <2>4. RnTypeOK'
      <3>1. /\ rnApp' \in {"fresh", "reading", "writing", "ready", "broken"}
            /\ rnKeyed' \in BOOLEAN /\ rnUser' \in RnUsers \cup {Unknown}
        BY <2>3
      <3>2. rnAnon' \in 0 .. rnStarts' /\ rnDraft' \in 0 .. rnStarts'
        BY <2>2
      <3> QED BY <2>1, <2>2, <2>3, <3>1, <3>2
    <2>5. IdInv'
      BY <2>2, <2>3
    <2> QED BY <2>4, <2>5
  <1> QED BY <1>1, <1>2, <1>3, <1>4, <1>5, <1>6, <1>7

\* An event carries the id that memory holds, or none.
LEMMA EnqueueKeeps ==
    ASSUME RnInv, NEW e \in RnEvents, NEW user \in RnUsers \cup {Unknown},
           RnEnqueue(e, user), rnDisk' = rnDisk
    PROVE  /\ rnAt' \in [RnEvents -> {"uncalled", "due", "waiting", "sent", "dropped"}]
           /\ rnCarries' \in [RnEvents -> [anon : Nat, user : RnUsers \cup {Unknown}]]
           /\ \A f \in RnEvents : rnCarries'[f].anon \in {0, rnDisk'}
           /\ rnSentTo' = rnSentTo
  <1> USE DEF RnInv, RnTypeOK, IdInv, RnEnqueue
  <1>1. rnAt' \in [RnEvents -> {"uncalled", "due", "waiting", "sent", "dropped"}]
    <2> DEFINE where == CASE rnApp \in {"fresh", "ready"} -> "due"
                           [] rnApp \in {"reading", "writing"} -> "waiting"
                           [] rnApp = "broken" -> "dropped"
    <2>1. where \in {"due", "waiting", "dropped"}
      <3>1. CASE rnApp \in {"fresh", "ready"}
        BY <3>1
      <3>2. CASE rnApp \in {"reading", "writing"}
        BY <3>2
      <3>3. CASE rnApp = "broken"
        BY <3>3
      <3> QED BY <3>1, <3>2, <3>3
    <2>2. rnAt' = [rnAt EXCEPT ![e] = where]
      OBVIOUS
    <2> QED BY <2>1, <2>2
  <1>2. [anon |-> rnAnon, user |-> user] \in [anon : Nat, user : RnUsers \cup {Unknown}]
    OBVIOUS
  <1>3. rnCarries' \in [RnEvents -> [anon : Nat, user : RnUsers \cup {Unknown}]]
    BY <1>2
  <1>4. \A f \in RnEvents : rnCarries'[f].anon \in {0, rnDisk'}
    OBVIOUS
  <1> QED BY <1>1, <1>3, <1>4

\* The calls of the app, and the requests they lead to.
LEMMA EventStep ==
    ASSUME RnInv, NEW e \in RnEvents,
           RnTrack(e) \/ RnSend(e) \/ \E u \in RnUsers : RnIdentify(e, u)
    PROVE  RnInv'
  <1>1. CASE RnTrack(e)
    <2>1. rnUser \in RnUsers \cup {Unknown}
      BY DEF RnInv, RnTypeOK
    <2> QED BY <1>1, <2>1, EnqueueKeeps DEF RnTrack, RnInv, RnTypeOK, IdInv, rnMemory
  <1>2. CASE RnSend(e)
    BY <1>2 DEF RnSend, RnInv, RnTypeOK, IdInv, rnMemory
  <1>3. ASSUME NEW u \in RnUsers, RnIdentify(e, u)
        PROVE  RnInv'
    BY <1>3, EnqueueKeeps DEF RnIdentify, RnInv, RnTypeOK, IdInv
  <1> QED BY <1>1, <1>2, <1>3

\* The invariant of the mobile SDK.
LEMMA RnInvariant == RnSpec => []RnInv
  <1>1. RnInv /\ [RnNext]_rnVars => RnInv'
    <2> SUFFICES ASSUME RnInv, [RnNext]_rnVars
                 PROVE  RnInv'
      OBVIOUS
    <2>1. CASE UNCHANGED rnVars
      BY <2>1 DEF rnVars, rnMemory, rnEvents, RnInv, RnTypeOK, IdInv
    <2> QED BY <2>1, ConfigureStep, EventStep DEF RnNext
  <1> QED BY <1>1, InitRn, PTL DEF RnSpec

\* However often the app is killed and its storage fails in the middle of
\* configure (analytiq_react_native.ts:44-58), all events of a device that carry
\* an anonymous id carry the same one.
THEOREM OneVisitor == RnSpec => []RnOneVisitor
  <1>1. RnInv => RnOneVisitor
    BY DEF RnInv, IdInv, RnOneVisitor
  <1> QED BY <1>1, RnInvariant, PTL

\* The app is in one of its five phases, and an id was drawn in one of its starts.
THEOREM RnTypes == RnSpec => []RnTypeOK
  <1>1. RnInv => RnTypeOK
    BY DEF RnInv
  <1> QED BY <1>1, RnInvariant, PTL

\* The id a device has once stored stays its id for good: no start, failure or
\* reset of the app replaces it.
THEOREM DeviceIdKept == RnSpec => [][rnDisk # 0 => rnDisk' = rnDisk]_rnVars
  <1>1. RnInv /\ [RnNext]_rnVars => [rnDisk # 0 => rnDisk' = rnDisk]_rnVars
    BY DEF RnInv, IdInv, RnNext, RnConfigure, RnRead, RnStored, RnWritten, RnStorageFails, RnReset,
           RnRestart, RnTrack, RnIdentify, RnSend, rnVars, rnMemory, rnEvents
  <1> QED BY <1>1, RnInvariant, PTL DEF RnSpec

----------------------------------------------------------------------------
(* The queries of the pages *)

\* What the parts have in common: the query takes what the controls hold, and a
\* key names all of it.
LEMMA ViewFacts ==
    ASSUME NEW w \in DOMAIN Views
    PROVE  /\ Views[w].kind \in {"keyed", "effect", "button", "once"}
           /\ Views[w].takes = Views[w].controls
           /\ Views[w].key = Views[w].takes
           /\ Views[w].delays => Views[w].kind = "keyed"
           /\ Views[w].stays \subseteq {"loading", "failure"}
  <1> DEFINE Sound(p) == /\ p.kind \in {"keyed", "effect", "button", "once"}
                         /\ p.takes = p.controls
                         /\ p.key = p.takes
                         /\ p.delays => p.kind = "keyed"
                         /\ p.stays \subseteq {"loading", "failure"}
  <1>1. \A controls : Sound(Keyed(controls))
    BY DEF Keyed
  <1>2. \A controls : \A k \in {"effect", "button", "once"} : Sound(OfKind(k, controls))
    BY DEF Keyed, OfKind
  <1>3. Sound(SegmentB) /\ Sound(SegmentA) /\ Sound(Cohorts) /\ Sound(Anomalies) /\ Sound(Churn)
        /\ Sound(HeatmapClicks) /\ Sound(HeatmapScroll) /\ Sound(FunnelResults)
        /\ Sound(SetupStatus) /\ Sound(SystemPage)
    BY <1>1 DEF SegmentB, SegmentA, Cohorts, Anomalies, Churn, HeatmapClicks, HeatmapScroll,
                FunnelResults, SetupStatus, SystemPage
  <1>4. Sound(SharePage) /\ Sound(EmbedWidget)
    BY <1>2 DEF SharePage, EmbedWidget
  <1>8. Sound(Retention) /\ Sound(ArchiveBrowser)
    BY DEF Retention, ArchiveBrowser, OfKind, Keyed
  <1>5. Sound(People)
    BY DEF People, Keyed
  <1>6. Sound(Paths) /\ Sound(Copilot) /\ Sound(ExportButton) /\ Sound(ExportCard)
    BY DEF Paths, Copilot, ExportButton, ExportCard, OfKind, Keyed
  <1> HIDE DEF Sound
  <1>7. Sound(Views[w])
    BY <1>3, <1>4, <1>5, <1>6, <1>8 DEF Views
  <1> QED BY <1>7 DEF Sound

\* Of the parts with a button only the one that lags does not wait.
LEMMA InTurn ==
    ASSUME view \in DOMAIN Views, View.kind = "button", ~View.lags
    PROVE  View.waits
  <1> DEFINE Waits(p) == p.kind = "button" /\ ~p.lags => p.waits
  <1>1. \A controls : Waits(Keyed(controls)) /\ Waits(OfKind("once", controls))
    BY DEF Keyed, OfKind
  <1>2. /\ Waits(SegmentB) /\ Waits(SegmentA) /\ Waits(Cohorts) /\ Waits(Anomalies)
        /\ Waits(Churn) /\ Waits(HeatmapClicks) /\ Waits(HeatmapScroll)
        /\ Waits(FunnelResults) /\ Waits(SetupStatus) /\ Waits(SystemPage)
        /\ Waits(SharePage) /\ Waits(EmbedWidget)
    BY <1>1 DEF SegmentB, SegmentA, Cohorts, Anomalies, Churn, HeatmapClicks, HeatmapScroll,
                FunnelResults, SetupStatus, SystemPage, SharePage, EmbedWidget
  <1>3. Waits(People) /\ Waits(Retention) /\ Waits(ArchiveBrowser)
    BY DEF People, Retention, ArchiveBrowser, OfKind, Keyed
  <1>4. Waits(Paths) /\ Waits(Copilot) /\ Waits(ExportButton) /\ Waits(ExportCard)
    BY DEF Paths, Copilot, ExportButton, ExportCard, OfKind, Keyed
  <1> HIDE DEF Waits
  <1>5. Waits(Views[view])
    BY <1>2, <1>3, <1>4 DEF Views
  <1> QED BY <1>5 DEF Waits, View

\* A query for these values, under its key.
Queries == {[for |-> v, key |-> Only(View.key, v)] : v \in [View.controls -> {0, 1}]}

QueryTypeOK ==
    /\ view \in DOMAIN Views
    /\ picked \in [View.controls -> {0, 1}]
    /\ committed \in [View.controls -> {0, 1}]
    /\ asked \in [View.controls -> {0, 1}]
    /\ flights \subseteq Queries
    /\ answers \subseteq Queries
    /\ result \subseteq [View.controls -> {0, 1}]
    /\ busy \in BOOLEAN /\ broke \in BOOLEAN /\ down \in BOOLEAN
    /\ picks \in Nat /\ asks \in Nat

\* A part that asks only while it waits for nothing has one query under way, for
\* what it asked last, and keeps the answer to it, or after a failure the one before.
InTurnInv ==
    ~IsKeyed /\ ~Unordered =>
        /\ \A q \in flights : q.for = asked
        /\ ~busy => flights = {}
        /\ ~busy /\ ~down =>
              result \subseteq {asked} \/ (broke /\ "failure" \in View.stays)

QueryInv == QueryTypeOK /\ InTurnInv

\* A part opens with its first query, or with none if it has a button.
LEMMA InitQuery == QueryInit => QueryInv
  <1> SUFFICES ASSUME QueryInit PROVE QueryInv
    OBVIOUS
  <1>1. picked \in [View.controls -> {0, 1}]
    BY DEF QueryInit
  <1>2. flights \subseteq Queries
    BY <1>1 DEF QueryInit, Queries, KeyOf
  <1>3. busy \in BOOLEAN /\ broke \in BOOLEAN /\ down \in BOOLEAN
    BY Zenon DEF QueryInit
  <1>4. QueryTypeOK
    BY <1>1, <1>2, <1>3 DEF QueryInit, QueryTypeOK
  <1>5. InTurnInv
    <2>1. CASE View.kind = "button"
      BY <2>1 DEF QueryInit, InTurnInv
    <2>2. CASE View.kind # "button"
      <3>1. busy = TRUE
        BY <2>2, Zenon DEF QueryInit
      <3>2. \A q \in flights : q.for = asked
        BY <2>2 DEF QueryInit
      <3> QED BY <3>1, <3>2 DEF InTurnInv
    <2> QED BY <2>1, <2>2
  <1> QED BY <1>4, <1>5 DEF QueryInv

\* Asking for some values adds at most the query for them.
LEMMA AsksKeeps ==
    ASSUME QueryTypeOK, NEW v \in [View.controls -> {0, 1}], Asks(v)
    PROVE  /\ asked' = v
           /\ flights' \subseteq Queries
           /\ flights' \subseteq flights \cup {[for |-> v, key |-> KeyOf(v)]}
  BY DEF QueryTypeOK, Asks, Queries, KeyOf

\* A control changes, with the query where the part asks at once.
LEMMA PickStep ==
    ASSUME QueryInv, NEW c \in View.controls, NEW x \in {0, 1}, Pick(c, x)
    PROVE  QueryInv'
  <1> DEFINE v == [picked EXCEPT ![c] = x]
  <1> USE DEF QueryInv
  <1>1. v \in [View.controls -> {0, 1}]
    BY DEF QueryTypeOK
  <1>2. view' = view /\ picked' = v /\ answers' = answers /\ result' = result /\ asks' = asks
        /\ picks' = picks + 1 /\ View.kind # "once" /\ committed' = committed /\ down' = down
    BY DEF Pick
  <1>3. View' = View /\ Queries' = Queries /\ IsKeyed' = IsKeyed /\ Unordered' = Unordered
    BY <1>2 DEF View, Queries, IsKeyed, Unordered
  <1>4. CASE View.kind = "button" \/ View.delays
    <2>1. UNCHANGED <<asked, flights, busy, broke>>
      BY <1>4 DEF Pick
    <2> QED BY <1>1, <1>2, <1>3, <2>1 DEF QueryTypeOK, InTurnInv
  <1>5. CASE ~(View.kind = "button" \/ View.delays)
    <2>1. Asks(v)
      BY <1>5 DEF Pick
    <2>5. busy' \in BOOLEAN /\ broke' \in BOOLEAN
      BY <1>5, Zenon DEF Pick
    <2>2. asked' = v /\ flights' \subseteq Queries
      BY <1>1, <2>1, AsksKeeps
    <2>3. QueryTypeOK'
      BY <1>1, <1>2, <1>3, <2>2, <2>5 DEF QueryTypeOK
    <2>4. IsKeyed \/ Unordered
      BY <1>2, <1>5, ViewFacts DEF QueryTypeOK, View, IsKeyed, Unordered
    <2> QED BY <1>3, <2>3, <2>4 DEF InTurnInv
  <1> QED BY <1>4, <1>5

\* The other ways to ask: a delay or a timer of a key, and a button.
LEMMA AskStep ==
    ASSUME QueryInv, Debounced \/ Revalidate \/ Press
    PROVE  QueryInv'
  <1> USE DEF QueryInv
  <1>1. /\ view' = view /\ picked' = picked /\ answers' = answers /\ result' = result
        /\ picks' = picks /\ down' = down /\ committed' \in {committed, picked}
    BY DEF Debounced, Revalidate, Press, queryBounds
  <1>2. View' = View /\ Queries' = Queries /\ IsKeyed' = IsKeyed /\ Unordered' = Unordered
    BY <1>1 DEF View, Queries, IsKeyed, Unordered
  <1>3. CASE Debounced \/ Revalidate
    <2>1. PICK v \in {picked, asked} : Asks(v)
      BY <1>3 DEF Debounced, Revalidate
    <2>2. v \in [View.controls -> {0, 1}]
      BY <2>1 DEF QueryTypeOK
    <2>3. asked' = v /\ flights' \subseteq Queries
      BY <2>1, <2>2, AsksKeeps
    <2>4. asks' \in Nat
      BY <1>3 DEF Debounced, Revalidate, QueryTypeOK, queryBounds
    <2>6. busy' \in BOOLEAN /\ broke' \in BOOLEAN
      BY <1>3, Zenon DEF Debounced, Revalidate, QueryTypeOK
    <2>5. IsKeyed
      BY <1>3, ViewFacts DEF Debounced, Revalidate, View, IsKeyed, QueryTypeOK
    <2> QED BY <1>1, <1>2, <2>2, <2>3, <2>4, <2>5, <2>6 DEF QueryTypeOK, InTurnInv
  <1>4. CASE Press
    <2>1. PICK v \in {picked, committed} : Asks(v)
      BY <1>4 DEF Press
    <2>6. v \in [View.controls -> {0, 1}]
      BY <2>1 DEF QueryTypeOK
    <2>2. /\ asked' = v /\ flights' \subseteq Queries
          /\ flights' \subseteq flights \cup {[for |-> v, key |-> KeyOf(v)]}
      BY <2>1, <2>6, AsksKeeps
    <2>3. asks' \in Nat /\ busy' = TRUE /\ broke' = FALSE /\ View.kind = "button"
          /\ (View.waits => ~busy)
      BY <1>4 DEF Press, QueryTypeOK
    <2>4. QueryTypeOK'
      BY <1>1, <1>2, <2>2, <2>3, <2>6 DEF QueryTypeOK
    <2>5. ASSUME ~IsKeyed, ~Unordered
          PROVE  \A q \in flights' : q.for = asked'
      <3>1. flights = {}
        <4>1. View.waits
          BY <2>3, <2>5, InTurn DEF Unordered, QueryTypeOK
        <4> QED BY <2>3, <2>5, <4>1 DEF InTurnInv
      <3> QED BY <2>2, <3>1
    <2> QED BY <1>2, <2>3, <2>4, <2>5 DEF InTurnInv
  <1> QED BY <1>3, <1>4

\* The end of a query, which is the only one unless the part is keyed or
\* unordered.
LEMMA EndStep ==
    ASSUME QueryInv, ~down, NEW q \in flights, Answer(q) \/ QueryFails(q) \/ Unreadable(q)
    PROVE  QueryInv'
  <1> USE DEF QueryInv
  <1>1. view' = view /\ picked' = picked /\ asked' = asked /\ picks' = picks /\ asks' = asks
        /\ flights' = flights \ {q} /\ committed' = committed
    BY DEF Answer, QueryFails, Unreadable, queryBounds
  <1>2. View' = View /\ Queries' = Queries /\ IsKeyed' = IsKeyed /\ Unordered' = Unordered
    BY <1>1 DEF View, Queries, IsKeyed, Unordered
  <1>3. q \in Queries /\ q.for \in [View.controls -> {0, 1}]
    BY DEF QueryTypeOK, Queries
  <1>4. answers' \subseteq Queries /\ result' \subseteq [View.controls -> {0, 1}]
    BY <1>3 DEF Answer, QueryFails, Unreadable, QueryTypeOK
  <1>7. busy' \in BOOLEAN /\ broke' \in BOOLEAN /\ down' \in BOOLEAN
    BY Zenon DEF Answer, QueryFails, Unreadable, QueryTypeOK
  <1>5. QueryTypeOK'
    BY <1>1, <1>2, <1>4, <1>7 DEF QueryTypeOK
  <1>6. ASSUME ~IsKeyed, ~Unordered
        PROVE  /\ \A r \in flights' : r.for = asked'
               /\ flights' = {}
               /\ ~busy' /\ ~down' =>
                     result' \subseteq {asked'} \/ (broke' /\ "failure" \in View.stays)
    <2>1. \A r \in flights : r.for = asked
      BY <1>6 DEF InTurnInv
    <2>2. \A r \in flights : r = q
      <3> SUFFICES ASSUME NEW r \in flights PROVE r = q
        OBVIOUS
      <3>1. r = [for |-> r.for, key |-> Only(View.key, r.for)]
        BY DEF QueryTypeOK, Queries
      <3>2. q = [for |-> q.for, key |-> Only(View.key, q.for)]
        BY <1>3 DEF Queries
      <3> QED BY <2>1, <3>1, <3>2
    <2>3. CASE Answer(q)
      BY <1>1, <1>6, <2>1, <2>2, <2>3 DEF Answer
    <2>4. CASE QueryFails(q)
      <3>1. "failure" \in View.stays => broke'
        BY <1>6, <2>4, Zenon DEF QueryFails
      <3>2. "failure" \notin View.stays => result' = {}
        BY <2>4 DEF QueryFails
      <3> QED BY <1>1, <2>1, <2>2, <3>1, <3>2
    <2>5. CASE Unreadable(q)
      BY <1>1, <2>1, <2>2, <2>5 DEF Unreadable
    <2> QED BY <2>3, <2>4, <2>5
  <1> QED BY <1>1, <1>2, <1>5, <1>6 DEF InTurnInv

\* The invariant of the parts with a query.
LEMMA QueryInvariant == QuerySpec => []QueryInv
  <1>1. QueryInv /\ [QueryNext]_queryVars => QueryInv'
    <2> SUFFICES ASSUME QueryInv, [QueryNext]_queryVars
                 PROVE  QueryInv'
      OBVIOUS
    <2>1. CASE UNCHANGED queryVars
      BY <2>1 DEF queryVars, QueryInv, QueryTypeOK, InTurnInv, View, Queries, IsKeyed, Unordered
    <2> QED BY <2>1, PickStep, AskStep, EndStep DEF QueryNext
  <1> QED BY <1>1, InitQuery, PTL DEF QuerySpec

\* Whatever answers come late, twice or for a selection that was left, data on
\* the screen answers the query the user asked last, in all parts but the two that
\* take any answer for it (the retention page and the archive browser), and on the
\* paths page and in the copilot except for the earlier answer that they leave
\* there while a newer query is under way, or has failed.
THEOREM SelectionIsShown == QuerySpec => []SelectionShown
  <1>1. ASSUME QueryInv, ~Unordered, ~Outlasted, NEW v \in OnScreen
        PROVE  Only(View.takes, v) = Only(View.takes, asked)
    <2>1. CASE IsKeyed
      <3>1. PICK a \in answers : a.for = v /\ a.key = KeyOf(asked)
        BY <1>1, <2>1 DEF OnScreen, AnswerOf
      <3>2. a.key = Only(View.key, a.for)
        BY <1>1 DEF QueryInv, QueryTypeOK, Queries
      <3>3. View.key = View.takes
        BY <1>1, ViewFacts DEF QueryInv, QueryTypeOK, View
      <3> QED BY <3>1, <3>2, <3>3 DEF KeyOf
    <2>2. CASE ~IsKeyed
      <3>1. v \in result /\ ~busy /\ ~down
        BY <1>1, <2>2 DEF OnScreen, Outlasted
      <3>2. ~(broke /\ "failure" \in View.stays)
        BY <1>1, <2>2 DEF Outlasted
      <3> QED BY <1>1, <2>2, <3>1, <3>2 DEF QueryInv, InTurnInv
    <2> QED BY <2>1, <2>2
  <1>2. QueryInv => SelectionShown
    BY <1>1 DEF SelectionShown
  <1> QED BY <1>2, QueryInvariant, PTL

\* Every query in the air and every answer kept is for values the view's own
\* controls can take, and has the key of those values.
THEOREM QueryTypes == QuerySpec => []QueryTypeOK
  <1>1. QueryInv => QueryTypeOK
    BY DEF QueryInv
  <1> QED BY <1>1, QueryInvariant, PTL

----------------------------------------------------------------------------
(* The JavaScript SDK *)

\* The queue holds the queued events, each once, and less than a batch of them.
QueueInv ==
    /\ Len(jsQueue) < BatchSize
    /\ \A i \in 1 .. Len(jsQueue) : jsAt[jsQueue[i]] = "queued"
    /\ \A i, j \in 1 .. Len(jsQueue) : jsQueue[i] = jsQueue[j] => i = j

\* A request may still become a copy of its event at the server.
Pending(e) == IF jsAt[e] = "air" THEN 1 ELSE 0

\* An event has no more copies than requests, and every request but the first
\* follows an error.
BudgetInv ==
    \A e \in JsEvents :
        /\ jsCopies[e] + jsStray[e] + Pending(e) <= jsTries[e]
        /\ jsErrors[e] <= jsTries[e] /\ jsTries[e] <= jsErrors[e] + 1
        /\ jsAt[e] \in {"uncalled", "ignored", "queued"} => jsTries[e] = 0
        /\ jsAt[e] \in {"air", "landed"} => jsTries[e] = jsErrors[e] + 1
        /\ jsAt[e] = "pausing" => jsTries[e] = jsErrors[e] /\ jsTries[e] < MaxRetries

JsInv == JsTypeOK /\ QueueInv /\ BudgetInv

\* The page loads with nothing called.
LEMMA InitJs == JsInit => JsInv
  BY JsAssumption
  DEF JsAssumption, JsInit, JsInv, JsTypeOK, QueueInv, BudgetInv, Pending, JsOpen, JsPlaces

\* What flush does to a queue of queued events, each in it once: of those it takes
\* some are requested for the first time and the rest lost, and the others stay.
LEMMA FlushKeeps ==
    ASSUME JsTypeOK, BudgetInv,
           NEW q \in Seq(JsEvents), NEW at \in [JsEvents -> JsPlaces],
           Len(q) <= BatchSize,
           \A i \in 1 .. Len(q) : at[q[i]] = "queued" /\ jsTries[q[i]] = 0,
           \A i, j \in 1 .. Len(q) : q[i] = q[j] => i = j,
           \A e \in JsEvents : at[e] = jsAt[e] \/ (at[e] = "queued" /\ jsAt[e] = "uncalled"),
           Flushed(q, at), UNCHANGED <<jsCopies, jsStray, jsErrors>>
    PROVE  /\ jsQueue' \in Seq(JsEvents)
           /\ jsAt' \in [JsEvents -> JsPlaces]
           /\ jsTries' \in [JsEvents -> 0 .. MaxRetries]
           /\ QueueInv' /\ BudgetInv'
  <1> DEFINE n == Least(Len(q), BatchSize)
             Among(e, i, j) == \E m \in i .. j : q[m] = e
  <1>1. n = Len(q) /\ n \in Nat
    BY JsAssumption DEF JsAssumption, Least
  <1>2. jsQueue' = << >>
    BY <1>1 DEF Flushed
  <1>3. QueueInv' /\ jsQueue' \in Seq(JsEvents)
    BY <1>2, JsAssumption DEF JsAssumption, QueueInv
  <1>4. PICK k \in 0 .. n :
        /\ jsTries' = [e \in JsEvents |-> IF Among(e, 1, k) THEN 1 ELSE jsTries[e]]
        /\ jsAt' = [e \in JsEvents |->
              IF Among(e, 1, k) THEN "air"
              ELSE IF k < n /\ q[k + 1] = e THEN "thrown"
              ELSE IF Among(e, k + 2, n) THEN "dropped" ELSE at[e]]
    BY DEF Flushed
  <1> DEFINE Sent(e) == Among(e, 1, k)
             Lost(e) == (k < n /\ q[k + 1] = e) \/ Among(e, k + 2, n)
  <1>5. \A e \in JsEvents : Sent(e) \/ Lost(e) => at[e] = "queued" /\ jsTries[e] = 0
    BY <1>1, <1>4
  <1>9. \A e \in JsEvents :
          /\ Sent(e) => jsAt'[e] = "air" /\ jsTries'[e] = 1
          /\ ~Sent(e) => jsTries'[e] = jsTries[e]
          /\ ~Sent(e) /\ Lost(e) => jsAt'[e] \in {"thrown", "dropped"}
          /\ ~Sent(e) /\ ~Lost(e) => jsAt'[e] = at[e]
    BY <1>4
  <1>6. jsAt' \in [JsEvents -> JsPlaces]
    BY <1>4 DEF JsPlaces
  <1>7. jsTries' \in [JsEvents -> 0 .. MaxRetries]
    BY <1>4, JsAssumption DEF JsAssumption, JsTypeOK
  <1> HIDE DEF Sent, Lost, Among, n
  <1>8. BudgetInv'
    <2> SUFFICES ASSUME NEW e \in JsEvents
                 PROVE  /\ jsCopies[e] + jsStray[e] + Pending(e)' <= jsTries'[e]
                        /\ jsErrors[e] <= jsTries'[e] /\ jsTries'[e] <= jsErrors[e] + 1
                        /\ jsAt'[e] \in {"uncalled", "ignored", "queued"} => jsTries'[e] = 0
                        /\ jsAt'[e] \in {"air", "landed"} => jsTries'[e] = jsErrors[e] + 1
                        /\ jsAt'[e] = "pausing" =>
                              jsTries'[e] = jsErrors[e] /\ jsTries'[e] < MaxRetries
      BY DEF BudgetInv
    <2>1. /\ jsCopies[e] \in Nat /\ jsStray[e] \in Nat /\ jsErrors[e] \in Nat
          /\ jsTries[e] \in Nat
      BY JsAssumption DEF JsAssumption, JsTypeOK
    <2>2. CASE Sent(e)
      <3>1. jsAt'[e] = "air" /\ jsTries'[e] = 1 /\ jsTries[e] = 0
        BY <1>5, <1>9, <2>2
      <3>2. jsCopies[e] = 0 /\ jsStray[e] = 0 /\ jsErrors[e] = 0
        BY <2>1, <3>1 DEF BudgetInv, Pending
      <3> QED BY <3>1, <3>2 DEF Pending
    <2>4. CASE ~Sent(e) /\ Lost(e)
      <3>1. jsAt'[e] \in {"thrown", "dropped"} /\ jsTries'[e] = 0 /\ jsTries[e] = 0
        BY <1>5, <1>9, <2>4
      <3>2. jsCopies[e] = 0 /\ jsStray[e] = 0 /\ jsErrors[e] = 0
        BY <2>1, <3>1 DEF BudgetInv, Pending
      <3> QED BY <3>1, <3>2 DEF Pending
    <2>3. CASE ~Sent(e) /\ ~Lost(e)
      <3>1. jsAt'[e] = at[e] /\ jsTries'[e] = jsTries[e]
        BY <1>9, <2>3
      <3>2. CASE at[e] = jsAt[e]
        BY <3>1, <3>2 DEF BudgetInv, Pending
      <3>3. CASE at[e] = "queued" /\ jsAt[e] = "uncalled"
        BY <3>1, <3>3 DEF BudgetInv, Pending
      <3> QED BY <3>2, <3>3
    <2> QED BY <2>2, <2>3, <2>4
  <1> QED BY <1>3, <1>6, <1>7, <1>8

\* A call puts its event at the end of the queue, and a full queue is flushed.
LEMMA EnqueuedKeeps ==
    ASSUME JsInv, NEW e \in JsEvents, jsAt[e] = "uncalled", Enqueued(e),
           UNCHANGED <<jsCopies, jsStray, jsErrors>>
    PROVE  /\ jsQueue' \in Seq(JsEvents)
           /\ jsAt' \in [JsEvents -> JsPlaces]
           /\ jsTries' \in [JsEvents -> 0 .. MaxRetries]
           /\ QueueInv' /\ BudgetInv'
  <1> DEFINE q == Append(jsQueue, e)
             at == [jsAt EXCEPT ![e] = "queued"]
  <1> USE DEF JsInv
  <1>1. /\ jsQueue \in Seq(JsEvents) /\ Len(jsQueue) \in Nat
        /\ \A i \in 1 .. Len(jsQueue) : jsQueue[i] \in JsEvents
    BY DEF JsTypeOK
  <1>2. /\ q \in Seq(JsEvents) /\ Len(q) = Len(jsQueue) + 1
        /\ \A i \in 1 .. Len(jsQueue) : q[i] = jsQueue[i]
        /\ q[Len(q)] = e
    BY <1>1
  <1>3. at \in [JsEvents -> JsPlaces]
    BY DEF JsTypeOK, JsPlaces
  <1>4. \A i \in 1 .. Len(jsQueue) : jsQueue[i] # e
    BY DEF QueueInv
  <1>5. \A f \in JsEvents : at[f] = jsAt[f] \/ (at[f] = "queued" /\ jsAt[f] = "uncalled")
    BY DEF JsTypeOK
  <1> HIDE DEF q
  <1>6. \A i \in 1 .. Len(q) : at[q[i]] = "queued" /\ jsTries[q[i]] = 0
    <2> SUFFICES ASSUME NEW i \in 1 .. Len(q)
                 PROVE  at[q[i]] = "queued" /\ jsTries[q[i]] = 0
      OBVIOUS
    <2>1. CASE i \in 1 .. Len(jsQueue)
      BY <1>1, <1>2, <1>4, <2>1 DEF QueueInv, BudgetInv, JsTypeOK
    <2>2. CASE i = Len(q)
      BY <1>2, <2>2 DEF BudgetInv, JsTypeOK
    <2> QED BY <1>1, <1>2, <2>1, <2>2
  <1>7. \A i, j \in 1 .. Len(q) : q[i] = q[j] => i = j
    BY <1>1, <1>2, <1>4 DEF QueueInv
  <1> HIDE DEF at
  <1>8. CASE Len(q) >= BatchSize
    <2>1. Flushed(q, at) /\ Len(q) <= BatchSize
      BY <1>1, <1>2, <1>8, JsAssumption DEF JsAssumption, Enqueued, QueueInv, q, at
    <2> QED BY <1>2, <1>3, <1>5, <1>6, <1>7, <2>1, FlushKeeps
  <1>9. CASE ~(Len(q) >= BatchSize)
    <2>1. jsQueue' = q /\ jsAt' = at /\ jsTries' = jsTries
      BY <1>9 DEF Enqueued, q, at
    <2>2. QueueInv'
      BY <1>1, <1>2, <1>6, <1>7, <1>9, <2>1, JsAssumption DEF JsAssumption, QueueInv
    <2>3. BudgetInv'
      BY <1>5, <2>1 DEF BudgetInv, Pending
    <2> QED BY <1>2, <1>3, <2>1, <2>2, <2>3 DEF JsTypeOK
  <1> QED BY <1>8, <1>9

\* The calls of the page, the timer, and the end of the page.
LEMMA PageStep ==
    ASSUME JsInv,
           \/ JsStart \/ JsFlush \/ JsLeave \/ JsGo
           \/ \E e \in JsEvents : JsTrack(e) \/ \E u \in JsUsers : JsIdentify(e, u)
    PROVE  JsInv'
  <1> USE DEF JsInv, jsServerVars, JsOpen
  <1>1. CASE JsStart
    BY <1>1 DEF JsStart, JsTypeOK, QueueInv, BudgetInv, Pending
  <1>2. CASE JsGo
    BY <1>2 DEF JsGo, JsTypeOK, QueueInv, BudgetInv, Pending
  <1>3. CASE JsFlush \/ JsLeave
    <2>1. Flushed(jsQueue, jsAt) /\ UNCHANGED <<jsCopies, jsStray, jsErrors>>
      BY <1>3 DEF JsFlush, JsLeave
    <2>2. \A i \in 1 .. Len(jsQueue) : jsAt[jsQueue[i]] = "queued" /\ jsTries[jsQueue[i]] = 0
      <3>1. \A i \in 1 .. Len(jsQueue) : jsQueue[i] \in JsEvents
        BY DEF JsTypeOK
      <3> QED BY <3>1 DEF QueueInv, BudgetInv
    <2>3. Len(jsQueue) <= BatchSize
      BY JsAssumption DEF JsAssumption, JsTypeOK, QueueInv
    <2>4. /\ jsQueue' \in Seq(JsEvents)
          /\ jsAt' \in [JsEvents -> JsPlaces]
          /\ jsTries' \in [JsEvents -> 0 .. MaxRetries]
          /\ QueueInv' /\ BudgetInv'
      BY <2>1, <2>2, <2>3, FlushKeeps DEF JsTypeOK, QueueInv
    <2>5. /\ jsPage' \in {"loading", "ready", "leaving"}
          /\ UNCHANGED <<jsUser, jsStored, jsBy, jsLate>>
      BY <1>3 DEF JsFlush, JsLeave
    <2> QED BY <2>1, <2>4, <2>5 DEF JsTypeOK
  <1>4. ASSUME NEW e \in JsEvents, JsTrack(e)
        PROVE  JsInv'
    <2>1. CASE jsPage = "loading"
      <3>1. /\ jsAt' = [jsAt EXCEPT ![e] = "ignored"] /\ jsAt[e] = "uncalled"
            /\ UNCHANGED <<jsPage, jsUser, jsStored, jsQueue, jsBy, jsTries, jsCopies, jsStray,
                           jsErrors, jsLate>>
        BY <1>4, <2>1 DEF JsTrack
      <3>2. JsTypeOK'
        BY <3>1 DEF JsTypeOK, JsPlaces
      <3>3. QueueInv'
        <4>1. \A i \in 1 .. Len(jsQueue) : jsQueue[i] \in JsEvents /\ jsQueue[i] # e
          <5>1. \A i \in 1 .. Len(jsQueue) : jsQueue[i] \in JsEvents
            BY DEF JsTypeOK
          <5> QED BY <3>1, <5>1 DEF QueueInv
        <4>2. \A i \in 1 .. Len(jsQueue) : jsAt'[jsQueue[i]] = "queued"
          BY <3>1, <4>1 DEF JsTypeOK, QueueInv
        <4> QED BY <3>1, <4>2 DEF QueueInv
      <3>4. BudgetInv'
        BY <3>1 DEF JsTypeOK, BudgetInv, Pending
      <3> QED BY <3>2, <3>3, <3>4
    <2>2. CASE jsPage # "loading"
      <3>1. /\ Enqueued(e) /\ jsAt[e] = "uncalled"
            /\ UNCHANGED <<jsPage, jsUser, jsStored, jsCopies, jsStray, jsErrors>>
        BY <1>4, <2>2 DEF JsTrack
      <3>2. jsBy' \in [JsEvents -> JsUsers \cup {NoUser}] /\ jsLate' \subseteq JsEvents
        BY <1>4, <2>2 DEF JsTrack, JsTypeOK
      <3> QED BY <3>1, <3>2, EnqueuedKeeps DEF JsTypeOK
    <2> QED BY <2>1, <2>2
  <1>5. ASSUME NEW e \in JsEvents, NEW u \in JsUsers, JsIdentify(e, u)
        PROVE  JsInv'
    <2>1. /\ Enqueued(e) /\ jsAt[e] = "uncalled" /\ jsUser' = u /\ jsStored' = u
          /\ UNCHANGED <<jsPage, jsCopies, jsStray, jsErrors>>
      BY <1>5 DEF JsIdentify
    <2>2. jsBy' \in [JsEvents -> JsUsers \cup {NoUser}] /\ jsLate' \subseteq JsEvents
      BY <1>5 DEF JsIdentify, JsTypeOK
    <2> QED BY <2>1, <2>2, EnqueuedKeeps DEF JsTypeOK
  <1> QED BY <1>1, <1>2, <1>3, <1>4, <1>5

\* A request that has not landed may do so later, as one more copy.
LEMMA AbandonedStrays ==
    ASSUME JsInv, NEW e \in JsEvents, jsAt[e] \in {"air", "landed"}, Abandoned(e)
    PROVE  \E n \in 0 .. Pending(e) : jsStray' = [jsStray EXCEPT ![e] = @ + n]
  <1>1. CASE jsAt[e] = "air"
    BY <1>1 DEF Abandoned, Pending
  <1>2. CASE jsAt[e] # "air"
    <2>1. jsStray' = jsStray /\ jsStray \in [JsEvents -> 0 .. MaxRetries]
      BY <1>2 DEF Abandoned, JsInv, JsTypeOK
    <2>2. jsStray[e] + 0 = jsStray[e]
      BY <2>1, JsAssumption DEF JsAssumption
    <2>3. jsStray' = [jsStray EXCEPT ![e] = @ + 0]
      BY <2>1, <2>2
    <2>4. 0 \in 0 .. Pending(e)
      BY <1>2 DEF Pending
    <2> QED BY <2>3, <2>4, Zenon
  <1> QED BY <1>1, <1>2

\* The requests of one event: they land, are answered, fail, and are made again.
LEMMA RequestsStep ==
    ASSUME JsInv, NEW e \in JsEvents,
           JsLand(e) \/ JsLandLate(e) \/ JsRequest(e) \/ JsAgain(e)
    PROVE  JsInv'
  <1> USE DEF JsInv, jsPageVars, jsServerVars
  <1>1. \A f \in JsEvents : /\ jsCopies[f] \in Nat /\ jsStray[f] \in Nat
                            /\ jsErrors[f] \in Nat /\ jsTries[f] \in Nat
    BY JsAssumption DEF JsAssumption, JsTypeOK
  <1>2. UNCHANGED <<jsPage, jsUser, jsStored, jsQueue, jsBy, jsLate>>
    BY DEF JsLand, JsLandLate, JsRequest, JsAnswer, JsError, JsNetworkFails, JsAgain
  <1>3. \A f \in JsEvents \ {e} :
            UNCHANGED <<jsAt[f], jsTries[f], jsCopies[f], jsStray[f], jsErrors[f]>>
    BY DEF JsLand, JsLandLate, JsRequest, JsAnswer, JsError, JsNetworkFails, JsAgain, Abandoned,
           JsTypeOK
  <1>4. QueueInv'
    <2>1. jsAt[e] = "queued" => jsAt' = jsAt
      BY DEF JsLand, JsLandLate, JsRequest, JsAnswer, JsError, JsNetworkFails, JsAgain
    <2>2. \A i \in 1 .. Len(jsQueue) : jsQueue[i] \in JsEvents
      BY DEF JsTypeOK
    <2>3. \A f \in JsEvents : jsAt[f] = "queued" => jsAt'[f] = "queued"
      BY <1>3, <2>1
    <2>4. \A i \in 1 .. Len(jsQueue) : jsAt[jsQueue[i]] = "queued"
      BY DEF QueueInv
    <2> QED BY <1>2, <2>2, <2>3, <2>4 DEF QueueInv
  <1>5. jsAt' \in [JsEvents -> JsPlaces]
    BY DEF JsLand, JsLandLate, JsRequest, JsAnswer, JsError, JsNetworkFails, JsAgain, JsTypeOK,
           JsPlaces
  <1>6. /\ jsTries'[e] \in 0 .. MaxRetries
        /\ jsCopies'[e] \in Nat /\ jsStray'[e] \in Nat /\ jsErrors'[e] \in Nat
        /\ jsCopies'[e] + jsStray'[e] + Pending(e)' <= jsTries'[e]
        /\ jsErrors'[e] <= jsTries'[e] /\ jsTries'[e] <= jsErrors'[e] + 1
        /\ jsAt'[e] \in {"uncalled", "ignored", "queued"} => jsTries'[e] = 0
        /\ jsAt'[e] \in {"air", "landed"} => jsTries'[e] = jsErrors'[e] + 1
        /\ jsAt'[e] = "pausing" => jsTries'[e] = jsErrors'[e] /\ jsTries'[e] < MaxRetries
    <2> USE <1>1, JsAssumption DEF JsAssumption, JsTypeOK
    <2>1. CASE JsLand(e)
      BY <2>1 DEF JsLand, BudgetInv, Pending
    <2>2. CASE JsLandLate(e)
      BY <2>2 DEF JsLandLate, BudgetInv, Pending
    <2>3. CASE JsAnswer(e)
      BY <2>3 DEF JsAnswer, BudgetInv, Pending
    <2>4. CASE JsError(e)
      <3>1. PICK n \in 0 .. Pending(e) : jsStray' = [jsStray EXCEPT ![e] = @ + n]
        BY <2>4, AbandonedStrays DEF JsError
      <3>2. /\ jsCopies' = jsCopies /\ jsTries' = jsTries
            /\ jsErrors'[e] = jsErrors[e] + 1 /\ jsStray'[e] = jsStray[e] + n
            /\ jsAt'[e] = IF jsTries[e] < MaxRetries THEN "pausing" ELSE "answered"
            /\ jsAt[e] \in {"air", "landed"}
        BY <2>4, <3>1 DEF JsError
      <3> QED BY <3>2 DEF BudgetInv, Pending
    <2>5. CASE JsNetworkFails(e)
      <3>1. PICK n \in 0 .. Pending(e) : jsStray' = [jsStray EXCEPT ![e] = @ + n]
        BY <2>5, AbandonedStrays DEF JsNetworkFails
      <3>2. /\ jsCopies' = jsCopies /\ jsTries' = jsTries /\ jsErrors' = jsErrors
            /\ jsStray'[e] = jsStray[e] + n /\ jsAt'[e] = "failed"
            /\ jsAt[e] \in {"air", "landed"}
        BY <2>5, <3>1 DEF JsNetworkFails
      <3> QED BY <3>2 DEF BudgetInv, Pending
    <2>6. CASE JsAgain(e)
      <3>1. /\ jsAt[e] = "pausing"
            /\ \/ jsAt'[e] = "air" /\ jsTries'[e] = jsTries[e] + 1
               \/ jsAt'[e] = "thrown" /\ jsTries'[e] = jsTries[e]
            /\ jsCopies' = jsCopies /\ jsStray' = jsStray /\ jsErrors' = jsErrors
        BY <2>6 DEF JsAgain
      <3>2. /\ jsCopies[e] + jsStray[e] <= jsTries[e]
            /\ jsTries[e] = jsErrors[e] /\ jsTries[e] < MaxRetries
        <4>1. Pending(e) = 0
          BY <3>1 DEF Pending
        <4>2. jsCopies[e] + jsStray[e] + 0 <= jsTries[e]
          BY <4>1 DEF BudgetInv
        <4>3. jsTries[e] = jsErrors[e] /\ jsTries[e] < MaxRetries
          BY <3>1 DEF BudgetInv
        <4> QED BY <4>2, <4>3
      <3> QED BY <3>1, <3>2 DEF Pending
    <2> QED BY <2>1, <2>2, <2>3, <2>4, <2>5, <2>6 DEF JsRequest
  <1>7. BudgetInv'
    BY <1>3, <1>6 DEF BudgetInv, Pending
  <1>8. \A f \in JsEvents : /\ jsTries'[f] \in 0 .. MaxRetries
                            /\ jsCopies'[f] \in Nat /\ jsStray'[f] \in Nat
                            /\ jsErrors'[f] \in Nat
    BY <1>1, <1>3, <1>6 DEF JsTypeOK
  <1>9. /\ jsTries' \in [JsEvents -> 0 .. MaxRetries]
        /\ jsCopies' \in [JsEvents -> 0 .. MaxRetries]
        /\ jsStray' \in [JsEvents -> 0 .. MaxRetries]
        /\ jsErrors' \in [JsEvents -> 0 .. MaxRetries]
    <2>1. \A f \in JsEvents : /\ jsCopies'[f] \in 0 .. MaxRetries
                              /\ jsStray'[f] \in 0 .. MaxRetries
                              /\ jsErrors'[f] \in 0 .. MaxRetries
      <3> SUFFICES ASSUME NEW f \in JsEvents
                   PROVE  /\ jsCopies'[f] \in 0 .. MaxRetries
                          /\ jsStray'[f] \in 0 .. MaxRetries
                          /\ jsErrors'[f] \in 0 .. MaxRetries
        OBVIOUS
      <3>1. Pending(f)' \in {0, 1}
        BY DEF Pending
      <3>2. /\ jsCopies'[f] + jsStray'[f] + Pending(f)' <= jsTries'[f]
            /\ jsErrors'[f] <= jsTries'[f]
        BY <1>7 DEF BudgetInv
      <3> QED BY <1>8, <3>1, <3>2, JsAssumption DEF JsAssumption
    <2>2. /\ jsTries' = [f \in JsEvents |-> jsTries'[f]]
          /\ jsCopies' = [f \in JsEvents |-> jsCopies'[f]]
          /\ jsStray' = [f \in JsEvents |-> jsStray'[f]]
          /\ jsErrors' = [f \in JsEvents |-> jsErrors'[f]]
      BY DEF JsLand, JsLandLate, JsRequest, JsAnswer, JsError, JsNetworkFails, JsAgain, Abandoned,
             JsTypeOK
    <2> QED BY <1>8, <2>1, <2>2
  <1> QED BY <1>2, <1>4, <1>5, <1>7, <1>9 DEF JsTypeOK

\* The invariant of the JavaScript SDK.
LEMMA JsInvariant == JsSpec => []JsInv
  <1>1. JsInv /\ [JsNext]_jsVars => JsInv'
    <2> SUFFICES ASSUME JsInv, [JsNext]_jsVars
                 PROVE  JsInv'
      OBVIOUS
    <2>1. CASE UNCHANGED jsVars
      BY <2>1 DEF jsVars, JsInv, JsTypeOK, QueueInv, BudgetInv, Pending
    <2> QED BY <2>1, PageStep, RequestsStep DEF JsNext
  <1> QED BY <1>1, InitJs, PTL DEF JsSpec

\* Neither the timer, the size limit, a hidden page and the last flush together,
\* nor the retries (analytics.js:74-94, 178-203) send an event again that went
\* through: the server holds one copy, and one more for each error it answered.
THEOREM NoNeedlessCopy == JsSpec => []JsNoNeedlessCopy
  <1>1. JsInv => JsNoNeedlessCopy
    <2> SUFFICES ASSUME JsInv, NEW e \in JsEvents
                 PROVE  jsCopies[e] <= 1 + jsErrors[e]
      BY DEF JsNoNeedlessCopy
    <2>1. /\ jsCopies[e] \in Nat /\ jsStray[e] \in Nat /\ jsErrors[e] \in Nat
          /\ jsTries[e] \in Nat /\ Pending(e) \in {0, 1}
      BY JsAssumption DEF JsAssumption, JsInv, JsTypeOK, Pending
    <2> QED BY <2>1 DEF JsInv, BudgetInv
  <1> QED BY <1>1, JsInvariant, PTL

\* However calls, timers and retries mix, the queue holds each call once and less
\* than a batch, and no event is requested, or stored, more than MaxRetries times.
THEOREM QueueIsBounded == JsSpec => [](JsTypeOK /\ QueueInv)
  <1>1. JsInv => JsTypeOK /\ QueueInv
    BY DEF JsInv
  <1> QED BY <1>1, JsInvariant, PTL

\* No queued event is lost from the queue, nothing is queued before init, and what
\* is queued once the page leaves was called after its last flush.
HeldInv ==
    /\ \A e \in JsEvents : jsAt[e] = "queued" => \E i \in 1 .. Len(jsQueue) : jsQueue[i] = e
    /\ jsPage = "loading" => \A e \in JsEvents : jsAt[e] \in {"uncalled", "ignored"}
    /\ jsPage \in {"leaving", "closed"} => \A e \in JsEvents : jsAt[e] = "queued" => e \in jsLate

\* A queue is never longer than a batch, so that one flush takes all of it.
LEMMA FlushTakesAll ==
    ASSUME NEW q \in Seq(JsEvents), NEW at, Len(q) <= BatchSize, Flushed(q, at)
    PROVE  /\ jsQueue' = << >>
           /\ \A e \in JsEvents : jsAt'[e] = "queued" =>
                /\ at[e] = "queued"
                /\ ~ \E i \in 1 .. Len(q) : q[i] = e
  <1>1. Least(Len(q), BatchSize) = Len(q) /\ Len(q) \in Nat
    BY JsAssumption DEF JsAssumption, Least
  <1>2. jsQueue' = << >>
    BY <1>1 DEF Flushed
  <1>3. PICK k \in 0 .. Len(q) :
          jsAt' = [e \in JsEvents |->
              IF \E m \in 1 .. k : q[m] = e THEN "air"
              ELSE IF k < Len(q) /\ q[k + 1] = e THEN "thrown"
              ELSE IF \E m \in k + 2 .. Len(q) : q[m] = e THEN "dropped" ELSE at[e]]
    BY <1>1 DEF Flushed
  <1>4. ASSUME NEW e \in JsEvents, jsAt'[e] = "queued"
        PROVE  at[e] = "queued" /\ ~ \E i \in 1 .. Len(q) : q[i] = e
    <2>1. /\ ~ \E m \in 1 .. k : q[m] = e
          /\ ~(k < Len(q) /\ q[k + 1] = e)
          /\ ~ \E m \in k + 2 .. Len(q) : q[m] = e
          /\ at[e] = "queued"
      BY <1>3, <1>4
    <2>2. \A i \in 1 .. Len(q) : i \in 1 .. k \/ (k < Len(q) /\ i = k + 1) \/ i \in k + 2 .. Len(q)
      BY <1>1
    <2> QED BY <2>1, <2>2
  <1> QED BY <1>2, <1>4

\* Of a page's calls and flushes, and of its end.
LEMMA HeldStep ==
    ASSUME JsInv, HeldInv, JsNext
    PROVE  HeldInv'
  <1> USE DEF JsInv, jsPageVars, jsServerVars
  <1>0. /\ jsQueue \in Seq(JsEvents) /\ Len(jsQueue) \in Nat /\ Len(jsQueue) < BatchSize
        /\ jsAt \in [JsEvents -> JsPlaces]
    BY DEF JsTypeOK, QueueInv
  <1>1. CASE JsStart \/ JsGo
    BY <1>1 DEF JsStart, JsGo, HeldInv, JsOpen
  <1>2. ASSUME Flushed(jsQueue, jsAt), jsPage' # "loading"
        PROVE  HeldInv'
    <2>1. \A e \in JsEvents : jsAt'[e] # "queued"
      BY <1>0, <1>2, FlushTakesAll, JsAssumption DEF JsAssumption, HeldInv
    <2> QED BY <1>2, <2>1 DEF HeldInv
  <1>3. CASE JsFlush \/ JsLeave
    <2>1. Flushed(jsQueue, jsAt) /\ jsPage' # "loading"
      BY <1>3 DEF JsFlush, JsLeave, JsOpen
    <2> QED BY <1>2, <2>1
  <1>4. ASSUME NEW e \in JsEvents, jsAt[e] = "uncalled", jsPage \in {"ready", "leaving"},
               Enqueued(e), jsPage' = jsPage,
               jsLate' = IF jsPage = "leaving" THEN jsLate \cup {e} ELSE jsLate
        PROVE  HeldInv'
    <2> DEFINE q == Append(jsQueue, e)
               at == [jsAt EXCEPT ![e] = "queued"]
    <2>1. /\ q \in Seq(JsEvents) /\ Len(q) = Len(jsQueue) + 1 /\ q[Len(q)] = e
          /\ \A i \in 1 .. Len(jsQueue) : q[i] = jsQueue[i]
      BY <1>0
    <2>2. \A f \in JsEvents : at[f] = "queued" => \E i \in 1 .. Len(q) : q[i] = f
      <3> SUFFICES ASSUME NEW f \in JsEvents, at[f] = "queued"
                   PROVE  \E i \in 1 .. Len(q) : q[i] = f
        OBVIOUS
      <3>1. CASE f = e
        BY <1>0, <2>1, <3>1
      <3>2. CASE f # e
        <4>1. PICK i \in 1 .. Len(jsQueue) : jsQueue[i] = f
          BY <1>0, <3>2 DEF HeldInv
        <4> QED BY <1>0, <2>1, <4>1
      <3> QED BY <3>1, <3>2
    <2>3. \A f \in JsEvents : at[f] = "queued" => f = e \/ jsAt[f] = "queued"
      BY <1>0
    <2> HIDE DEF q
    <2>4. CASE Len(q) >= BatchSize
      <3>1. Flushed(q, at) /\ Len(q) <= BatchSize
        BY <1>0, <1>4, <2>1, <2>4, JsAssumption DEF JsAssumption, Enqueued, q
      <3> HIDE DEF at
      <3>2. \A f \in JsEvents : jsAt'[f] = "queued" =>
              at[f] = "queued" /\ ~ \E i \in 1 .. Len(q) : q[i] = f
        BY <2>1, <3>1, FlushTakesAll
      <3>3. \A f \in JsEvents : jsAt'[f] # "queued"
        BY <2>2, <3>2
      <3> QED BY <1>4, <3>3 DEF HeldInv
    <2>5. CASE ~(Len(q) >= BatchSize)
      <3>1. jsQueue' = q /\ jsAt' = at
        BY <1>4, <2>5 DEF Enqueued, q
      <3>2. jsPage' = "leaving" => \A f \in JsEvents : jsAt'[f] = "queued" => f \in jsLate'
        BY <1>4, <2>3, <3>1 DEF HeldInv
      <3> HIDE DEF at
      <3> QED BY <1>4, <2>2, <3>1, <3>2 DEF HeldInv
    <2> QED BY <2>4, <2>5
  <1>5. ASSUME NEW e \in JsEvents, JsTrack(e)
        PROVE  HeldInv'
    <2>1. CASE jsPage = "loading"
      <3>1. jsAt' = [jsAt EXCEPT ![e] = "ignored"] /\ UNCHANGED <<jsPage, jsQueue, jsLate>>
        BY <1>5, <2>1 DEF JsTrack
      <3> QED BY <1>0, <2>1, <3>1 DEF HeldInv
    <2>2. CASE jsPage # "loading"
      BY <1>4, <1>5, <2>2 DEF JsTrack, JsOpen
    <2> QED BY <2>1, <2>2
  <1>6. ASSUME NEW e \in JsEvents, NEW u \in JsUsers, JsIdentify(e, u)
        PROVE  HeldInv'
    BY <1>4, <1>6 DEF JsIdentify, JsOpen
  <1>7. ASSUME NEW e \in JsEvents, JsLand(e) \/ JsLandLate(e) \/ JsRequest(e) \/ JsAgain(e)
        PROVE  HeldInv'
    <2>1. UNCHANGED <<jsPage, jsQueue, jsLate>>
      BY <1>7 DEF JsLand, JsLandLate, JsRequest, JsAnswer, JsError, JsNetworkFails, JsAgain
    <2>2. \A f \in JsEvents : jsAt'[f] = jsAt[f]
             \/ (jsAt[f] \notin {"uncalled", "ignored"} /\ jsAt'[f] # "queued")
      BY <1>0, <1>7 DEF JsLand, JsLandLate, JsRequest, JsAnswer, JsError, JsNetworkFails, JsAgain
    <2> QED BY <2>1, <2>2 DEF HeldInv
  <1> QED BY <1>1, <1>3, <1>5, <1>6, <1>7 DEF JsNext

\* The flush on pagehide leaves nothing behind: an event still queued in a page
\* that leaves, or has gone in peace, was called by a listener that ran after it
\* (analytics.js:74-94, init's listeners).  This is the part of JsSettled that no
\* fairness is needed for, and it holds because the queue is never longer than the
\* batch that one flush takes.
THEOREM LastFlushTakesAll ==
    JsSpec => [](jsPage \in {"leaving", "closed"} =>
                   \A e \in JsEvents : jsAt[e] = "queued" => e \in jsLate)
  <1>1. JsInit => HeldInv
    BY DEF JsInit, HeldInv
  <1>2. JsInv /\ HeldInv /\ [JsNext]_jsVars => HeldInv'
    <2>1. ASSUME HeldInv, UNCHANGED jsVars PROVE HeldInv'
      BY <2>1 DEF jsVars, HeldInv
    <2> QED BY <2>1, HeldStep
  <1>3. HeldInv => (jsPage \in {"leaving", "closed"} =>
                      \A e \in JsEvents : jsAt[e] = "queued" => e \in jsLate)
    BY DEF HeldInv
  <1> QED BY <1>1, <1>2, <1>3, JsInvariant, PTL DEF JsSpec

----------------------------------------------------------------------------
(* The Node SDK *)

NodeTypeOK ==
    /\ nodeAt \in [NodeCalls -> {"idle", "sent", "reading", "resolved", "rejected", "lost"}]
    /\ nodeTimer \in [NodeCalls -> 0 .. Timeout]
    /\ nodeCopies \in [NodeCalls -> {0, 1}]
    /\ nodeDropped \subseteq NodeCalls

\* A promise that resolved is about an event that the server stored, or dropped
\* for a user who has opted out, and never both.
NodeHonest ==
    \A c \in NodeCalls :
        /\ nodeAt[c] = "resolved" => nodeCopies[c] = 1 \/ c \in nodeDropped
        /\ c \in nodeDropped => nodeCopies[c] = 0

\* A call that has ended stays as it ended; one in the air stays there with less
\* time left, or goes on.
NodeMovesOn ==
    \A c \in NodeCalls :
        /\ nodeAt[c] \in {"resolved", "rejected", "lost"} => nodeAt'[c] = nodeAt[c]
        /\ nodeAt[c] = "sent" => nodeAt'[c] # "idle" /\ nodeTimer'[c] <= nodeTimer[c]

\* For any calls and any timeout, a promise resolves only for an event that the
\* server stored, and stored once, or dropped because its user has opted out
\* (ingest.py:203-209 answers ok for both, index.ts:115 looks no further): the part
\* of NodeTold that no fairness is needed for.
THEOREM ResolvedIsHandled == NodeSpec => [](NodeTypeOK /\ NodeHonest)
  <1>1. NodeInit => NodeTypeOK /\ NodeHonest
    BY NodeAssumption DEF NodeAssumption, NodeInit, NodeTypeOK, NodeHonest
  <1>2. NodeTypeOK /\ NodeHonest /\ [NodeNext]_nodeVars => (NodeTypeOK /\ NodeHonest)'
    <2> SUFFICES ASSUME NodeTypeOK, NodeHonest, [NodeNext]_nodeVars
                 PROVE  (NodeTypeOK /\ NodeHonest)'
      OBVIOUS
    <2> USE NodeAssumption DEF NodeAssumption, NodeTypeOK, NodeHonest, NodeGoto, nodeServerVars
    <2>1. CASE UNCHANGED nodeVars
      BY <2>1 DEF nodeVars
    <2>2. ASSUME NEW c \in NodeCalls, NodeSend(c) \/ NodeHeaders(c) \/ NodeBody(c) \/ NodeFails(c)
                                        \/ NodeAbort(c)
          PROVE  (NodeTypeOK /\ NodeHonest)'
      BY <2>2 DEF NodeSend, NodeHeaders, NodeBody, NodeFails, NodeAbort
    <2>3. ASSUME NEW c \in NodeCalls, NodeLand(c) \/ NodeDrop(c)
          PROVE  (NodeTypeOK /\ NodeHonest)'
      BY <2>3 DEF NodeLand, NodeDrop
    <2>4. ASSUME NEW c \in NodeCalls, NodeTick(c)
          PROVE  (NodeTypeOK /\ NodeHonest)'
      BY <2>4 DEF NodeTick
    <2> QED BY <2>1, <2>2, <2>3, <2>4 DEF NodeNext
  <1> QED BY <1>1, <1>2, PTL DEF NodeSpec

\* The end of a call is final, whatever the server does after the timer aborted it.
THEOREM EndsAreFinal == NodeSpec => [][NodeMovesOn]_nodeVars
  <1>1. NodeTypeOK /\ [NodeNext]_nodeVars => [NodeMovesOn]_nodeVars
    <2> SUFFICES ASSUME NodeTypeOK, NodeNext
                 PROVE  NodeMovesOn
      OBVIOUS
    <2>1. \A c \in NodeCalls : nodeTimer[c] \in Nat
      BY NodeAssumption DEF NodeAssumption, NodeTypeOK
    <2> QED BY <2>1 DEF NodeNext, NodeSend, NodeLand, NodeDrop, NodeHeaders, NodeBody, NodeFails,
                        NodeAbort, NodeTick, NodeGoto, nodeServerVars, NodeTypeOK, NodeMovesOn
  <1> QED BY <1>1, ResolvedIsHandled, PTL DEF NodeSpec

----------------------------------------------------------------------------
(* The live feed *)

StreamPlaces == {"asked", "refused", "open", "aborted", "over"}

Stream == [at : StreamPlaces, last : Nat]

\* What the feed lists when n streams were started.
Entry(n) == [id : Nat, of : 1 .. n]

LiveTypeOK ==
    /\ atServer \in Nat
    /\ streams \in Seq(Stream)
    /\ current \in 1 .. Len(streams)
    /\ timers \in Nat
    /\ onPage \in BOOLEAN /\ connected \in BOOLEAN /\ errored \in BOOLEAN /\ paused \in BOOLEAN
    /\ feed \in Seq(Entry(Len(streams)))

\* Only the stream of abortRef is read, and it is the last that was started.  A
\* stream that was asked for has read nothing.
CurrentInv ==
    /\ current = Len(streams)
    /\ \A s \in 1 .. Len(streams) : Reading(s) => s = current
    /\ \A s \in 1 .. Len(streams) : streams[s].at = "asked" => streams[s].last = 0

\* An event of the feed is one its stream has read.
ReadInv ==
    /\ \A i \in 1 .. Len(feed) : feed[i].id <= streams[feed[i].of].last
    /\ \A i \in 1 .. Len(feed) : streams[feed[i].of].at # "asked"

\* One entry of the feed came above another: of a later stream, or later in it.
Above(a, b) == a.of > b.of \/ (a.of = b.of /\ a.id > b.id)

FeedInv == \A i, j \in 1 .. Len(feed) : i < j => Above(feed[i], feed[j])

LiveInv == LiveTypeOK /\ CurrentInv /\ ReadInv /\ FeedInv

\* What a sequence is made of.
LEMMA SeqFacts ==
    ASSUME NEW S, NEW q \in Seq(S)
    PROVE  Len(q) \in Nat /\ DOMAIN q = 1 .. Len(q) /\ \A i \in 1 .. Len(q) : q[i] \in S
  OBVIOUS

\* What the types say of each stream and of each entry of the feed.
LEMMA LiveFacts ==
    ASSUME LiveTypeOK
    PROVE  /\ Len(streams) \in Nat /\ DOMAIN streams = 1 .. Len(streams)
           /\ \A s \in 1 .. Len(streams) :
                 /\ streams[s] \in Stream
                 /\ streams[s].at \in StreamPlaces /\ streams[s].last \in Nat
           /\ Len(feed) \in Nat /\ DOMAIN feed = 1 .. Len(feed)
           /\ \A i \in 1 .. Len(feed) : feed[i].of \in 1 .. Len(streams) /\ feed[i].id \in Nat
  <1>1. streams \in Seq(Stream) /\ feed \in Seq(Entry(Len(streams)))
    BY DEF LiveTypeOK
  <1>2. /\ Len(streams) \in Nat /\ DOMAIN streams = 1 .. Len(streams)
        /\ \A s \in 1 .. Len(streams) : streams[s] \in Stream
    BY <1>1, SeqFacts
  <1>3. /\ Len(feed) \in Nat /\ DOMAIN feed = 1 .. Len(feed)
        /\ \A i \in 1 .. Len(feed) : feed[i] \in Entry(Len(streams))
    BY <1>1, SeqFacts
  <1> QED BY <1>2, <1>3 DEF Stream, Entry

\* The page opens with one stream and an empty feed.
LEMMA InitLive == LiveInit => LiveInv
  <1> SUFFICES ASSUME LiveInit PROVE LiveInv
    OBVIOUS
  <1>1. [at |-> "asked", last |-> 0] \in Stream
    BY DEF Stream, StreamPlaces
  <1>2. streams \in Seq(Stream) /\ Len(streams) = 1 /\ current = 1
    BY <1>1 DEF LiveInit
  <1>3. feed = << >> /\ atServer \in Nat
    BY LiveAssumption DEF LiveAssumption, LiveInit
  <1>4. LiveTypeOK
    <2>1. feed \in Seq(Entry(Len(streams))) /\ current \in 1 .. Len(streams)
      BY <1>2, <1>3
    <2>2. /\ onPage \in BOOLEAN /\ connected \in BOOLEAN /\ errored \in BOOLEAN
          /\ paused \in BOOLEAN /\ timers \in Nat
      BY DEF LiveInit
    <2> QED BY <1>2, <1>3, <2>1, <2>2 DEF LiveTypeOK
  <1>5. CurrentInv
    BY <1>2 DEF LiveInit, CurrentInv
  <1> QED BY <1>3, <1>4, <1>5 DEF LiveInv, ReadInv, FeedInv

\* What the steps of one stream have in common: the other streams stay, its
\* cursor does not go back, it is not asked for again, and it is not read when it
\* was not.  What is listed goes on being what its stream has read.
LEMMA StreamMoves ==
    ASSUME LiveInv, NEW s \in 1 .. Len(streams), NEW r \in Stream,
           streams' = [streams EXCEPT ![s] = r],
           r.last >= streams[s].last, r.at # "asked",
           r.at \in {"refused", "open"} => Reading(s),
           current' = current
    PROVE  /\ streams' \in Seq(Stream) /\ Len(streams') = Len(streams)
           /\ CurrentInv'
           /\ \A i \in 1 .. Len(feed) : /\ feed[i].id <= streams'[feed[i].of].last
                                        /\ streams'[feed[i].of].at # "asked"
  <1>1. streams \in Seq(Stream) /\ feed \in Seq(Entry(Len(streams)))
    BY DEF LiveInv, LiveTypeOK
  <1>2. streams' \in Seq(Stream) /\ Len(streams') = Len(streams)
    BY <1>1
  <1>3. \A u \in 1 .. Len(streams) : streams'[u] = IF u = s THEN r ELSE streams[u]
    BY <1>1
  <1>4. /\ \A i \in 1 .. Len(feed) : feed[i].of \in 1 .. Len(streams) /\ feed[i].id \in Nat
        /\ streams[s].last \in Nat /\ r.last \in Nat
    BY LiveFacts DEF LiveInv, Stream
  <1>5. CurrentInv'
    BY <1>2, <1>3 DEF LiveInv, CurrentInv, Reading
  <1>6. ASSUME NEW i \in 1 .. Len(feed)
        PROVE  feed[i].id <= streams'[feed[i].of].last /\ streams'[feed[i].of].at # "asked"
    <2>1. CASE feed[i].of = s
      <3>1. streams'[feed[i].of] = r /\ feed[i].id <= streams[s].last
        BY <1>3, <2>1 DEF LiveInv, ReadInv
      <3> QED BY <1>4, <3>1
    <2>2. CASE feed[i].of # s
      BY <1>3, <1>4, <2>2 DEF LiveInv, ReadInv
    <2> QED BY <2>1, <2>2
  <1> QED BY <1>2, <1>5, <1>6

\* Starting a stream aborts the one before, and what is listed is of older ones.
LEMMA StartKeeps ==
    ASSUME LiveInv, StartStream, feed' = feed
    PROVE  /\ streams' \in Seq(Stream)
           /\ current' \in 1 .. Len(streams')
           /\ feed' \in Seq(Entry(Len(streams')))
           /\ CurrentInv' /\ ReadInv' /\ FeedInv'
           /\ errored' \in BOOLEAN /\ connected' \in BOOLEAN
  <1> DEFINE new == [at |-> "asked", last |-> 0]
             old == [s \in DOMAIN streams |->
                        IF s = current /\ Reading(s)
                        THEN [streams[s] EXCEPT !.at = "aborted"] ELSE streams[s]]
             n == Len(streams)
  <1>1. /\ n \in Nat /\ DOMAIN streams = 1 .. n
        /\ \A s \in 1 .. n : streams[s] \in Stream
    BY LiveFacts DEF LiveInv
  <1>2. \A s \in 1 .. n : /\ old[s] \in Stream
                          /\ old[s].last = streams[s].last
                          /\ old[s].at \in {streams[s].at, "aborted"}
                          /\ (s = current /\ Reading(s) => old[s].at = "aborted")
    BY <1>1 DEF Stream, StreamPlaces
  <1>3. streams' = Append(old, new) /\ current' = n + 1
    BY DEF StartStream
  <1>4. DOMAIN old = 1 .. n
    BY <1>1
  <1>5. new \in Stream
    BY DEF Stream, StreamPlaces
  <1>6. new.at = "asked" /\ new.last = 0
    OBVIOUS
  <1> HIDE DEF old, new, n
  <1>7. old \in Seq(Stream) /\ Len(old) = n
    <2>1. old = [s \in 1 .. n |-> old[s]]
      BY <1>1 DEF old
    <2>2. \A s \in 1 .. n : old[s] \in Stream
      BY <1>2
    <2>3. [s \in 1 .. n |-> old[s]] \in Seq(Stream)
      BY <1>1, <2>2
    <2>4. Len([s \in 1 .. n |-> old[s]]) = n
      BY <1>1
    <2> QED BY <2>1, <2>3, <2>4
  <1>8. /\ streams' \in Seq(Stream) /\ Len(streams') = n + 1
        /\ \A s \in 1 .. n : streams'[s] = old[s]
        /\ streams'[n + 1] = new
    BY <1>1, <1>3, <1>5, <1>7
  <1>9. CurrentInv'
    <2>1. \A s \in 1 .. n : ~(old[s].at \in {"asked", "refused", "open"})
      BY <1>1, <1>2 DEF LiveInv, CurrentInv, Reading, n
    <2>2. \A s \in 1 .. n + 1 : streams'[s].at \in {"asked", "refused", "open"} => s = n + 1
      BY <1>1, <1>8, <2>1
    <2>3. streams'[n + 1].last = 0
      BY <1>6, <1>8
    <2> QED BY <1>3, <1>8, <2>2, <2>3 DEF CurrentInv, Reading
  <1>10. \A i \in 1 .. Len(feed) : feed[i].of \in 1 .. n
    BY LiveFacts DEF LiveInv, n
  <1>11. ReadInv'
    <2> SUFFICES ASSUME NEW i \in 1 .. Len(feed)
                 PROVE  feed[i].id <= streams'[feed[i].of].last
                        /\ streams'[feed[i].of].at # "asked"
      BY DEF ReadInv
    <2>1. streams'[feed[i].of] = old[feed[i].of] /\ feed[i].of \in 1 .. n
      BY <1>8, <1>10
    <2>2. /\ feed[i].id <= streams[feed[i].of].last
          /\ streams[feed[i].of].at # "asked"
      BY DEF LiveInv, ReadInv
    <2> QED BY <1>2, <2>1, <2>2
  <1>12. feed' \in Seq(Entry(Len(streams')))
    <2>1. Entry(n) \subseteq Entry(n + 1)
      BY <1>1 DEF Entry
    <2>2. feed \in Seq(Entry(n))
      BY DEF LiveInv, LiveTypeOK, n
    <2> QED BY <1>8, <2>1, <2>2
  <1>13. FeedInv'
    BY DEF LiveInv, FeedInv
  <1>14. errored' \in BOOLEAN
    BY Zenon DEF StartStream
  <1>15. connected' \in BOOLEAN
    BY Zenon DEF StartStream
  <1> QED BY <1>1, <1>3, <1>8, <1>9, <1>11, <1>12, <1>13, <1>14, <1>15

\* ... and so does the list, when nothing is added to it.
LEMMA ListStays ==
    ASSUME LiveInv, NEW s \in 1 .. Len(streams), NEW r \in Stream,
           streams' = [streams EXCEPT ![s] = r],
           r.last >= streams[s].last, r.at # "asked",
           r.at \in {"refused", "open"} => Reading(s),
           UNCHANGED <<current, feed>>,
           atServer' \in Nat /\ timers' \in Nat,
           onPage' \in BOOLEAN /\ connected' \in BOOLEAN,
           errored' \in BOOLEAN /\ paused' \in BOOLEAN
    PROVE  LiveInv'
  <1>1. /\ streams' \in Seq(Stream) /\ Len(streams') = Len(streams)
        /\ CurrentInv' /\ ReadInv'
    BY StreamMoves DEF ReadInv
  <1>2. FeedInv'
    BY DEF LiveInv, FeedInv
  <1>3. current' \in 1 .. Len(streams') /\ feed' \in Seq(Entry(Len(streams')))
    BY <1>1 DEF LiveInv, LiveTypeOK
  <1> QED BY <1>1, <1>2, <1>3 DEF LiveInv, LiveTypeOK

\* A stream that goes where it is not read, or from asked to refused.
LEMMA GoesKeeps ==
    ASSUME LiveInv, NEW s \in 1 .. Len(streams), NEW at \in {"refused", "aborted", "over"},
           Goes(s, at), at = "refused" => streams[s].at = "asked",
           UNCHANGED <<current, feed>>,
           atServer' \in Nat /\ timers' \in Nat,
           onPage' \in BOOLEAN /\ connected' \in BOOLEAN,
           errored' \in BOOLEAN /\ paused' \in BOOLEAN
    PROVE  LiveInv'
  <1> DEFINE r == [streams[s] EXCEPT !.at = at]
  <1>1. streams[s] \in Stream /\ streams[s].last \in Nat
    BY LiveFacts DEF LiveInv
  <1>2. r \in Stream /\ r.last = streams[s].last /\ r.at = at
    BY <1>1 DEF Stream, StreamPlaces
  <1>3. streams' = [streams EXCEPT ![s] = r]
    BY DEF Goes
  <1>4. r.last >= streams[s].last
    BY <1>1, <1>2
  <1>5. r.at # "asked" /\ (r.at \in {"refused", "open"} => Reading(s))
    BY <1>2 DEF Reading
  <1> HIDE DEF r
  <1> QED BY <1>2, <1>3, <1>4, <1>5, ListStays

\* The start, the refusal and the end of a stream.
LEMMA StreamStep ==
    ASSUME LiveInv, NEW s \in DOMAIN streams,
           Connect(s) \/ Refuse(s) \/ RefusalRead(s) \/ Break(s) \/ End(s)
    PROVE  LiveInv'
  <1>1. s \in 1 .. Len(streams) /\ streams[s].last \in Nat
    BY LiveFacts DEF LiveInv
  <1>2. /\ atServer \in Nat /\ timers \in Nat /\ timers + 1 \in Nat
        /\ onPage \in BOOLEAN /\ connected \in BOOLEAN /\ errored \in BOOLEAN
        /\ paused \in BOOLEAN
    BY DEF LiveInv, LiveTypeOK
  <1>3. CASE Connect(s)
    <2> DEFINE r == [at |-> "open", last |-> IF atServer > History THEN atServer - History ELSE 0]
    <2>1. r \in Stream /\ r.at = "open" /\ r.last \in Nat
      BY <1>2, LiveAssumption DEF LiveAssumption, Stream, StreamPlaces
    <2>2. /\ streams[s].at = "asked" /\ streams' = [streams EXCEPT ![s] = r]
          /\ connected' = TRUE
          /\ UNCHANGED <<atServer, current, timers, onPage, errored, paused, feed>>
      BY <1>3 DEF Connect
    <2> HIDE DEF r
    <2>3. streams[s].last = 0
      BY <1>1, <2>2 DEF LiveInv, CurrentInv
    <2>4. r.last >= streams[s].last /\ Reading(s)
      BY <2>1, <2>2, <2>3 DEF Reading
    <2>5. connected' \in BOOLEAN
      BY <2>2
    <2> QED BY <1>1, <1>2, <2>1, <2>2, <2>4, <2>5, ListStays
  <1>4. CASE Refuse(s)
    BY <1>1, <1>2, <1>4, GoesKeeps DEF Refuse
  <1>5. CASE RefusalRead(s)
    BY <1>1, <1>2, <1>5, GoesKeeps DEF RefusalRead
  <1>6. CASE Break(s)
    BY <1>1, <1>2, <1>6, GoesKeeps DEF Break
  <1>7. CASE End(s)
    BY <1>1, <1>2, <1>7, GoesKeeps DEF End
  <1> QED BY <1>3, <1>4, <1>5, <1>6, <1>7

\* An entry put before a list of at most m.
LEMMA PrependFacts ==
    ASSUME NEW S, NEW h \in S, NEW q \in Seq(S), NEW m \in Nat, NEW r,
           r = SubSeq(<<h>> \o q, 1, IF Len(<<h>> \o q) < m THEN Len(<<h>> \o q) ELSE m)
    PROVE  /\ r \in Seq(S) /\ Len(r) \in Nat /\ Len(r) <= Len(q) + 1
           /\ \A i \in 1 .. Len(r) : r[i] = IF i = 1 THEN h ELSE q[i - 1]
  <1> DEFINE all == <<h>> \o q
             k == IF Len(all) < m THEN Len(all) ELSE m
  <1>0. r = SubSeq(all, 1, k)
    OBVIOUS
  <1>1. /\ all \in Seq(S) /\ Len(all) = Len(q) + 1 /\ Len(q) \in Nat
        /\ \A i \in 1 .. Len(all) : all[i] = IF i = 1 THEN h ELSE q[i - 1]
    OBVIOUS
  <1> HIDE DEF all
  <1>2. k \in Nat /\ k <= Len(all)
    BY <1>1
  <1> HIDE DEF k
  <1>3. r \in Seq(S) /\ Len(r) = k /\ \A i \in 1 .. k : r[i] = all[i]
    BY <1>0, <1>1, <1>2
  <1> QED BY <1>1, <1>2, <1>3

\* A frame heads the list: it is of the last stream, and newer than what that
\* stream brought before.
LEMMA FrameStep ==
    ASSUME LiveInv, NEW s \in DOMAIN streams, Frame(s)
    PROVE  LiveInv'
  <1> DEFINE e == streams[s].last + 1
             r == [streams[s] EXCEPT !.last = e]
             h == [id |-> e, of |-> s]
  <1>1. /\ s \in 1 .. Len(streams) /\ Len(streams) \in Nat
        /\ streams[s] \in Stream /\ streams[s].last \in Nat
        /\ \A i \in 1 .. Len(feed) : feed[i].of \in 1 .. Len(streams) /\ feed[i].id \in Nat
    BY LiveFacts DEF LiveInv
  <1>2. /\ streams[s].at = "open" /\ streams' = [streams EXCEPT ![s] = r]
        /\ UNCHANGED <<atServer, current, timers, onPage, connected, errored, paused>>
    BY DEF Frame
  <1>3. r \in Stream /\ r.last = e /\ r.at = "open" /\ e \in Nat /\ e > streams[s].last
    BY <1>1, <1>2 DEF Stream
  <1>4. Reading(s) /\ s = current /\ s = Len(streams)
    BY <1>1, <1>2 DEF LiveInv, CurrentInv, Reading
  <1>5. h \in Entry(Len(streams)) /\ h.id = e /\ h.of = s
    BY <1>1, <1>3 DEF Entry
  <1>6. feed' = feed \/ feed' = SubSeq(<<h>> \o feed, 1,
                                       IF Len(<<h>> \o feed) < MaxShown
                                       THEN Len(<<h>> \o feed) ELSE MaxShown)
    BY DEF Frame
  <1> HIDE DEF r, h, e
  <1>7. r.last >= streams[s].last /\ r.at # "asked"
    BY <1>1, <1>3
  <1>8. /\ atServer' \in Nat /\ timers' \in Nat /\ onPage' \in BOOLEAN /\ connected' \in BOOLEAN
        /\ errored' \in BOOLEAN /\ paused' \in BOOLEAN
    BY <1>2 DEF LiveInv, LiveTypeOK
  <1>9. CASE feed' = feed
    BY <1>1, <1>2, <1>3, <1>4, <1>7, <1>8, <1>9, ListStays
  <1>10. CASE feed' # feed
    <2>1. /\ streams' \in Seq(Stream) /\ Len(streams') = Len(streams) /\ CurrentInv'
          /\ \A i \in 1 .. Len(feed) : /\ feed[i].id <= streams'[feed[i].of].last
                                       /\ streams'[feed[i].of].at # "asked"
      BY <1>1, <1>2, <1>3, <1>4, <1>7, StreamMoves
    <2>2. streams'[s] = r
      BY <1>1, <1>2 DEF LiveInv, LiveTypeOK
    <2>3. feed \in Seq(Entry(Len(streams))) /\ Len(feed) \in Nat
      BY LiveFacts DEF LiveInv, LiveTypeOK
    <2>4. /\ feed' \in Seq(Entry(Len(streams))) /\ Len(feed') \in Nat
          /\ Len(feed') <= Len(feed) + 1
          /\ \A i \in 1 .. Len(feed') : feed'[i] = IF i = 1 THEN h ELSE feed[i - 1]
      <3>1. MaxShown \in Nat
        BY LiveAssumption DEF LiveAssumption
      <3>2. feed' = SubSeq(<<h>> \o feed, 1, IF Len(<<h>> \o feed) < MaxShown
                                             THEN Len(<<h>> \o feed) ELSE MaxShown)
        BY <1>6, <1>10
      <3> HIDE <1>6
      <3> QED BY <1>5, <2>3, <3>1, <3>2, PrependFacts
    <2>5. \A i \in 2 .. Len(feed') : i - 1 \in 1 .. Len(feed) /\ feed'[i] = feed[i - 1]
      BY <2>3, <2>4
    <2>6. ReadInv'
      <3> SUFFICES ASSUME NEW i \in 1 .. Len(feed')
                   PROVE  feed'[i].id <= streams'[feed'[i].of].last
                          /\ streams'[feed'[i].of].at # "asked"
        BY DEF ReadInv
      <3>1. CASE i = 1
        BY <1>3, <1>5, <2>2, <2>4, <3>1
      <3>2. CASE i # 1
        BY <2>1, <2>4, <2>5, <3>2
      <3> QED BY <3>1, <3>2
    <2>7. FeedInv'
      <3> SUFFICES ASSUME NEW i \in 1 .. Len(feed'), NEW j \in 1 .. Len(feed'), i < j
                   PROVE  Above(feed'[i], feed'[j])
        BY DEF FeedInv
      <3>1. j \in 2 .. Len(feed')
        BY <2>4
      <3>2. CASE i = 1
        <4> DEFINE a == feed[j - 1]
        <4>1. feed'[j] = a /\ feed'[i] = h
          BY <2>4, <2>5, <3>1, <3>2
        <4>2. a.of \in 1 .. Len(streams) /\ a.id \in Nat /\ a.id <= streams[a.of].last
          BY <1>1, <2>5, <3>1 DEF LiveInv, ReadInv
        <4>3. CASE a.of = s
          BY <1>1, <1>3, <1>5, <4>1, <4>2, <4>3 DEF Above
        <4>4. CASE a.of # s
          BY <1>1, <1>4, <1>5, <4>1, <4>2, <4>4 DEF Above
        <4> QED BY <4>3, <4>4
      <3>3. CASE i # 1
        <4>1. /\ i - 1 \in 1 .. Len(feed) /\ j - 1 \in 1 .. Len(feed) /\ i - 1 < j - 1
              /\ feed'[i] = feed[i - 1] /\ feed'[j] = feed[j - 1]
          BY <2>4, <2>5, <3>1, <3>3
        <4> QED BY <4>1 DEF LiveInv, FeedInv
      <3> QED BY <3>2, <3>3
    <2>8. current' \in 1 .. Len(streams') /\ feed' \in Seq(Entry(Len(streams')))
      BY <1>2, <2>1, <2>4 DEF LiveInv, LiveTypeOK
    <2> QED BY <1>8, <2>1, <2>6, <2>7, <2>8 DEF LiveInv, LiveTypeOK
  <1> QED BY <1>9, <1>10

\* What starts a stream, and what leaves the streams alone.
LEMMA FeedStep ==
    ASSUME LiveInv, Store \/ Reconnect \/ Retry \/ Pause \/ Clear \/ Leave
    PROVE  LiveInv'
  <1>1. /\ atServer \in Nat /\ atServer + 1 \in Nat /\ timers \in Nat
        /\ onPage \in BOOLEAN /\ connected \in BOOLEAN /\ errored \in BOOLEAN
        /\ paused \in BOOLEAN /\ current \in 1 .. Len(streams)
    BY DEF LiveInv, LiveTypeOK
  <1>2. CASE Store
    BY <1>1, <1>2 DEF Store, LiveInv, LiveTypeOK, CurrentInv, ReadInv, FeedInv, Reading
  <1>3. CASE Reconnect \/ Retry
    <2>1. /\ StartStream /\ feed' = feed /\ atServer' = atServer /\ onPage' = onPage
          /\ paused' = paused
      BY <1>3 DEF Reconnect, Retry
    <2>2. timers' \in Nat
      BY <1>1, <1>3 DEF Reconnect, Retry
    <2> QED BY <1>1, <2>1, <2>2, StartKeeps DEF LiveInv, LiveTypeOK
  <1>4. CASE Pause
    <2>1. paused' \in BOOLEAN
      BY <1>4, Zenon DEF Pause
    <2> QED BY <1>4, <2>1 DEF Pause, LiveInv, LiveTypeOK, CurrentInv, ReadInv, FeedInv, Reading
  <1>5. CASE Clear
    <2>1. feed' = << >> /\ feed' \in Seq(Entry(Len(streams)))
      BY <1>5 DEF Clear
    <2> QED BY <1>5, <2>1 DEF Clear, LiveInv, LiveTypeOK, CurrentInv, ReadInv, FeedInv, Reading
  <1>6. CASE Leave
    <2>1. /\ UNCHANGED <<atServer, current, timers, connected, errored, paused, feed>>
          /\ onPage' = FALSE
      BY <1>6 DEF Leave
    <2>2. CASE Reading(current)
      <3>1. Goes(current, "aborted")
        BY <1>6, <2>2 DEF Leave
      <3> QED BY <1>1, <2>1, <3>1, GoesKeeps
    <2>3. CASE ~Reading(current)
      <3>1. streams' = streams
        BY <1>6, <2>3 DEF Leave
      <3> QED BY <2>1, <3>1 DEF LiveInv, LiveTypeOK, CurrentInv, ReadInv, FeedInv, Reading
    <2> QED BY <2>2, <2>3
  <1> QED BY <1>2, <1>3, <1>4, <1>5, <1>6

\* The invariant of the live feed.
LEMMA LiveInvariant == LiveSpec => []LiveInv
  <1>1. LiveInv /\ [LiveNext]_liveVars => LiveInv'
    <2> SUFFICES ASSUME LiveInv, [LiveNext]_liveVars
                 PROVE  LiveInv'
      OBVIOUS
    <2>1. CASE UNCHANGED liveVars
      BY <2>1 DEF liveVars, LiveInv, LiveTypeOK, CurrentInv, ReadInv, FeedInv, Reading
    <2> QED BY <2>1, StreamStep, FrameStep, FeedStep DEF LiveNext
  <1> QED BY <1>1, InitLive, PTL DEF LiveSpec

\* Whatever breaks, retries and reconnects follow each other, one stream is read
\* at a time, and the page lists what each brought once and newest first, later
\* streams above earlier ones (live/page.tsx).
THEOREM OneStreamRead == LiveSpec => []OneReader
  <1>1. LiveInv => OneReader
    BY LiveFacts DEF LiveInv, CurrentInv, FeedInv, Above, OneReader
  <1> QED BY <1>1, LiveInvariant, PTL

\* The repeated event of the finding takes a second connection: entries that one
\* stream brought are of different events, so an event is listed twice only where a
\* reconnect or a retry has brought it again (stream.py:27-30).
COROLLARY TwiceTakesTwoStreams ==
    LiveSpec => []((\A i, j \in DOMAIN feed : feed[i].of = feed[j].of) => ListedOnce)
  <1>1. LiveInv => ((\A i, j \in DOMAIN feed : feed[i].of = feed[j].of) => ListedOnce)
    <2> SUFFICES ASSUME LiveInv, \A i, j \in DOMAIN feed : feed[i].of = feed[j].of,
                        NEW i \in DOMAIN feed, NEW j \in DOMAIN feed, feed[i].id = feed[j].id
                 PROVE  i = j
      BY DEF ListedOnce
    <2>1. /\ i \in 1 .. Len(feed) /\ j \in 1 .. Len(feed) /\ feed[i].of = feed[j].of
          /\ feed[i].id \in Nat /\ feed[i].of \in Nat
      BY LiveFacts DEF LiveInv
    <2>2. ~(i < j) /\ ~(j < i)
      BY <2>1 DEF LiveInv, FeedInv, Above
    <2> QED BY <2>1, <2>2
  <1> QED BY <1>1, LiveInvariant, PTL

\* abortRef is a stream that was started, and every entry of the feed names the
\* stream it came from.
THEOREM LiveTypes == LiveSpec => []LiveTypeOK
  <1>1. LiveInv => LiveTypeOK
    BY DEF LiveInv
  <1> QED BY <1>1, LiveInvariant, PTL
=============================================================================
