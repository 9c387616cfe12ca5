----------------------------- MODULE MCClients -----------------------------
(***************************************************************************)
(* Small instances of the client side for TLC: the three SDKs, and the     *)
(* kinds of screens of the frontend.  One of them runs in each behaviour.  *)
(***************************************************************************)
EXTENDS JsSdk, NodeSdk, RnSdk, ListPages, PageTables, QueryPages, Session, LivePage

CONSTANTS e1, e2, u1, c1, c2, t1, t2

TwoEvents == {e1, e2}
OneUser   == {u1}
TwoCalls  == {c1, c2}
TwoTabs   == {t1, t2}

VARIABLE client    \* the one that runs

sdkVars      == <<jsVars, nodeVars, rnVars>>
screenVars   == <<listPageVars, queryVars, sessionVars, liveVars>>
clientVars   == <<client, sdkVars, screenVars>>

Inits == JsInit /\ NodeInit /\ RnInit /\ ListInit /\ QueryInit /\ SessionInit /\ LiveInit

\* One client has all its initial states, each of the others one of its own.
Still(c) ==
    /\ c # "list"  => page = "alerts"
    /\ c # "query" => view = "churn"
    /\ c # "live"  => atServer = 0
    /\ c # "js"    => jsStored = NoUser

ClientsInit ==
    /\ Inits
    /\ client \in {"js", "node", "rn", "list", "query", "session", "live"}
    /\ Still(client)

ClientsNext ==
    /\ UNCHANGED client
    /\ \/ /\ UNCHANGED screenVars
          /\ \/ client = "js"   /\ JsNext   /\ UNCHANGED <<nodeVars, rnVars>>
             \/ client = "node" /\ NodeNext /\ UNCHANGED <<jsVars, rnVars>>
             \/ client = "rn"   /\ RnNext   /\ UNCHANGED <<jsVars, nodeVars>>
       \/ /\ UNCHANGED sdkVars
          /\ \/ /\ client = "list" /\ ListNext
                /\ UNCHANGED <<queryVars, sessionVars, liveVars>>
             \/ /\ client = "query" /\ QueryNext
                /\ UNCHANGED <<listPageVars, sessionVars, liveVars>>
             \/ /\ client = "session" /\ SessionNext
                /\ UNCHANGED <<listPageVars, queryVars, liveVars>>
             \/ /\ client = "live" /\ LiveNext
                /\ UNCHANGED <<listPageVars, queryVars, sessionVars>>

\* No fair action is enabled before its SDK is called.
ClientsSpec == ClientsInit /\ [][ClientsNext]_clientVars /\ JsFair /\ NodeFair
=============================================================================
