------------------------------- MODULE RnSdk -------------------------------
(***************************************************************************)
(* The mobile SDK (sdk/mobile/analytiq_react_native.ts) over several       *)
(* starts of an app.  configure reads the anonymous id from the device's   *)
(* storage, or makes one and stores it; meanwhile events are put together  *)
(* and wait for the promise `ready`.  The app may be killed anywhere.  It  *)
(* calls configure once per start, as the usage of the module says.        *)
(***************************************************************************)
EXTENDS Naturals

CONSTANTS
    RnEvents,   \* calls of track and screen; each is made at most once
    RnUsers,    \* users the app may identify
    Unknown,     \* userId is undefined
    MaxStarts   \* bound: starts of the app, and so ids it makes

ASSUME RnAssumption == Unknown \notin RnUsers /\ MaxStarts \in Nat

VARIABLES
    rnApp,      \* fresh, reading, writing, ready or broken: how far configure got
    rnKeyed,    \* apiKey and host are set
    rnAnon,     \* anonymousId; 0 is the empty string
    rnDraft,    \* id that configure has made in this start
    rnDisk,     \* AsyncStorage[ANON_KEY]
    rnUser,     \* userId
    rnAt,       \* where each event is: uncalled, due, waiting, sent or dropped
    rnCarries,  \* the anonymous id and user in its payload
    rnSentTo,   \* whether it was sent with an apiKey
    rnStarts    \* starts so far

rnMemory == <<rnApp, rnKeyed, rnAnon, rnDraft, rnUser>>
rnEvents == <<rnAt, rnCarries, rnSentTo>>
rnVars   == <<rnMemory, rnDisk, rnEvents, rnStarts>>

RnInit ==
    /\ rnApp = "fresh" /\ rnKeyed = FALSE
    /\ rnAnon = 0 /\ rnDraft = 0 /\ rnDisk = 0
    /\ rnUser = Unknown
    /\ rnAt = [e \in RnEvents |-> "uncalled"]
    /\ rnCarries = [e \in RnEvents |-> [anon |-> 0, user |-> Unknown]]
    /\ rnSentTo = [e \in RnEvents |-> "nobody"]
    /\ rnStarts = 1

----------------------------------------------------------------------------
(* configure *)

RnConfigure ==
    /\ rnApp = "fresh"
    /\ rnApp' = "reading"
    /\ rnKeyed' = TRUE
    /\ UNCHANGED <<rnAnon, rnDraft, rnUser, rnDisk, rnEvents, rnStarts>>

\* Variant: the id is in use before it is stored.
RnReadEager ==
    /\ rnApp = "reading"
    /\ rnDraft' = IF rnDisk = 0 THEN rnStarts ELSE rnDisk
    /\ rnApp' = IF rnDisk = 0 THEN "writing" ELSE "ready"
    /\ rnAnon' = rnDraft'
    /\ UNCHANGED <<rnKeyed, rnUser, rnDisk, rnEvents, rnStarts>>

\* await getItem: the stored id is used; without one a new id is made, which is
\* used when it has been stored.
RnRead ==
    /\ rnApp = "reading"
    /\ IF rnDisk = 0
       THEN rnApp' = "writing" /\ rnDraft' = rnStarts /\ UNCHANGED rnAnon
       ELSE rnApp' = "ready" /\ rnAnon' = rnDisk /\ UNCHANGED rnDraft
    /\ UNCHANGED <<rnKeyed, rnUser, rnDisk, rnEvents, rnStarts>>

\* setItem reaches the disk ...
RnStored ==
    /\ rnApp = "writing"
    /\ rnDisk # rnDraft
    /\ rnDisk' = rnDraft
    /\ UNCHANGED <<rnMemory, rnEvents, rnStarts>>

\* ... and is awaited.
RnWritten ==
    /\ rnApp = "writing"
    /\ rnDisk = rnDraft
    /\ rnApp' = "ready"
    /\ rnAnon' = rnDraft
    /\ UNCHANGED <<rnKeyed, rnDraft, rnUser, rnDisk, rnEvents, rnStarts>>

\* The storage throws: `ready` is rejected, and with it what waits for it.
RnStorageFails ==
    /\ rnApp \in {"reading", "writing"}
    /\ rnApp' = "broken"
    /\ rnAt' = [e \in RnEvents |-> IF rnAt[e] = "waiting" THEN "dropped" ELSE rnAt[e]]
    /\ UNCHANGED <<rnKeyed, rnAnon, rnDraft, rnUser, rnDisk, rnCarries, rnSentTo, rnStarts>>

----------------------------------------------------------------------------
(* Events *)

\* The payload is made at the call.  It waits for the promise `ready` of that
\* moment: fulfilled before configure and after it, pending meanwhile, or rejected.
RnEnqueue(e, user) ==
    /\ rnAt[e] = "uncalled"
    /\ rnAt' = [rnAt EXCEPT ![e] = CASE rnApp \in {"fresh", "ready"} -> "due"
                                    [] rnApp \in {"reading", "writing"} -> "waiting"
                                    [] rnApp = "broken" -> "dropped"]
    /\ rnCarries' = [rnCarries EXCEPT ![e] = [anon |-> rnAnon, user |-> user]]
    /\ UNCHANGED rnSentTo

RnTrack(e) ==
    /\ RnEnqueue(e, rnUser)
    /\ UNCHANGED <<rnMemory, rnDisk, rnStarts>>

RnIdentify(e, u) ==
    /\ RnEnqueue(e, u)
    /\ rnUser' = u
    /\ UNCHANGED <<rnApp, rnKeyed, rnAnon, rnDraft, rnDisk, rnStarts>>

\* reset forgets the user; the anonymous id stays.
RnReset ==
    /\ rnUser # Unknown
    /\ rnUser' = Unknown
    /\ UNCHANGED <<rnApp, rnKeyed, rnAnon, rnDraft, rnDisk, rnEvents, rnStarts>>

\* The promise is fulfilled: the request is made, with the host and the key of
\* this moment, and never again.
RnSend(e) ==
    /\ \/ rnAt[e] = "due"
       \/ rnAt[e] = "waiting" /\ rnApp = "ready"
    /\ rnAt' = [rnAt EXCEPT ![e] = "sent"]
    /\ rnSentTo' = [rnSentTo EXCEPT ![e] = IF rnKeyed THEN "org" ELSE "default"]
    /\ UNCHANGED <<rnCarries, rnMemory, rnDisk, rnStarts>>

\* The app is killed and started again.
RnRestart ==
    /\ rnStarts < MaxStarts
    /\ rnStarts' = rnStarts + 1
    /\ rnApp' = "fresh" /\ rnKeyed' = FALSE
    /\ rnAnon' = 0 /\ rnDraft' = 0 /\ rnUser' = Unknown
    /\ rnAt' = [e \in RnEvents |->
                   IF rnAt[e] \in {"due", "waiting"} THEN "dropped" ELSE rnAt[e]]
    /\ UNCHANGED <<rnDisk, rnCarries, rnSentTo>>

RnNext ==
    \/ RnConfigure \/ RnRead \/ RnStored \/ RnWritten \/ RnStorageFails
    \/ RnReset \/ RnRestart
    \/ \E e \in RnEvents :
         RnTrack(e) \/ RnSend(e) \/ \E u \in RnUsers : RnIdentify(e, u)

RnSpec == RnInit /\ [][RnNext]_rnVars

\* A device is one visitor: all its events that carry an anonymous id carry the
\* same one, through restarts, kills and failures of the storage in the middle of
\* configure (analytiq_react_native.ts:44-58).
RnOneVisitor ==
    \A e, f \in RnEvents :
        (rnCarries[e].anon # 0 /\ rnCarries[f].anon # 0)
            => rnCarries[e].anon = rnCarries[f].anon
=============================================================================
