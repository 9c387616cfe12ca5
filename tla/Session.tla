------------------------------ MODULE Session ------------------------------
(***************************************************************************)
(* Who is signed in, in the browser: a token, the id of its organisation   *)
(* and an API key in localStorage, which all tabs share.  The entry pages  *)
(* store them when their answer comes, request() of lib/api.ts removes     *)
(* them at any 401, whoever the refused token belonged to, and the sidebar *)
(* at a logout.  A sign-in is the number of the token the server made.     *)
(* What one handler does without an await is one step in all tabs.         *)
(***************************************************************************)
EXTENDS Naturals, TLC

CONSTANTS
    Tabs,
    MaxSignIns, \* bound: tokens the server makes
    MaxSends    \* bound: requests

VARIABLES
    token, key, org,    \* the sign-in that each entry of localStorage is of, or 0
    place,      \* of each tab: an entry page or a page of the application
    leaving,    \* tabs that are loading /login
    sent,       \* requests without an answer
    signIns, sends,
    gone,       \* sign-ins whose token the server refuses by now
    withKey     \* sign-ins by a form that keeps the key of its answer (history)

sessionVars == <<token, key, org, place, leaving, sent, signIns, sends, gone, withKey>>
stored      == <<token, key, org>>

----------------------------------------------------------------------------
(* The calls of lib/api.ts, and how each is sent: through request(), which ends
   the session at a 401; with a fetch of its own and the token; or openly. *)

Through(how, names) == [c \in names |-> how]

AuthCalls       == Through("request", {"signup", "login"})
DashboardCalls  == Through("request", {"getSegmentBDashboard", "getSegmentADashboard"})
ConnectorCalls  == Through("request", {"listConnectors", "createConnector", "getSyncRuns",
                                       "deleteConnector", "triggerSync"})
ConnectorUpdate == Through("request", {"updateConnector"})
UploadCall      == Through("raw", {"uploadCsv"})
AlertCalls      == Through("request", {"listAlertRules", "createAlertRule", "deleteAlertRule"})
AccountCalls    == Through("request", {"getMe", "rotateApiKey"})
RetentionCalls  == Through("request", {"getRetention"})
ShareCalls      == Through("request", {"listShareTokens", "createShareToken",
                                       "revokeShareToken"})
ShareDataCall   == Through("open", {"getShareData"})
AnnotationCalls == Through("request", {"listAnnotations", "createAnnotation",
                                       "deleteAnnotation"})
ExportCall      == Through("raw", {"downloadExport"})
TeamCalls       == Through("request", {"getTeam", "inviteMember", "removeMember",
                                       "updateMemberRole", "cancelInvite"})
InviteCalls     == Through("open", {"getInvite", "acceptInvite"})
AnomalyCalls    == Through("request", {"listAnomalies", "getAnomalySummary"})
SsoCalls        == Through("request", {"listSSOConfigs", "createSSOConfig", "deleteSSOConfig"})
FunnelCalls     == Through("request", {"listFunnels", "createFunnel", "updateFunnel",
                                       "deleteFunnel", "getFunnelData", "listFunnelEvents"})
SetupCalls      == Through("request", {"getSetupStatus"})
CopilotCalls    == Through("request", {"copilotQuery", "copilotSuggestions"})
FlagCalls       == Through("request", {"listFlags", "createFlag", "updateFlag", "deleteFlag"})
HeatmapCalls    == Through("request", {"listHeatmapPages", "getHeatmapClicks",
                                       "getHeatmapScroll"})
PeopleCalls     == Through("request", {"listPeople", "getPerson"})
ChurnCalls      == Through("request", {"getChurnSummary", "listChurn"})
WarehouseCalls  == Through("request", {"getWarehouseStats"})
WarehouseExport == Through("raw", {"downloadWarehouseExport"})
GdprCalls       == Through("request", {"listOptOuts", "gdprExport", "gdprOptOut",
                                       "gdprRemoveOptOut", "gdprForget"})
AuditCalls      == Through("request", {"listAudit"})
StorageCalls    == Through("request", {"getStorageStats", "archiveEvents",
                                       "listArchivedEvents"})
PathCalls       == Through("request", {"getPathEvents", "getPaths"})
SchemaCalls     == Through("request", {"listSchemas", "upsertSchema", "deleteSchema",
                                       "listSchemaViolations", "getPiiSummary", "inferSchema"})
KeyCalls        == Through("request", {"listApiKeys", "createApiKey", "revokeApiKey"})
ReportCalls     == Through("request", {"listReports", "createReport", "updateReport",
                                       "deleteReport", "runReport"})
SystemCalls     == Through("request", {"getSystemHealth", "getSystemStats"})
EmbedCalls      == Through("request", {"listEmbedTokens", "createEmbedToken",
                                       "revokeEmbedToken"})

\* Three pages have a fetch of their own.
PageFetches     == Through("raw", {"embed", "ssoConfig", "system"})

Calls ==
    DashboardCalls @@ ConnectorCalls @@ ConnectorUpdate @@ UploadCall @@ AlertCalls
    @@ AccountCalls @@ RetentionCalls @@ ShareCalls @@ ShareDataCall @@ AnnotationCalls @@ ExportCall
    @@ TeamCalls @@ InviteCalls @@ AnomalyCalls @@ SsoCalls @@ FunnelCalls @@ SetupCalls
    @@ CopilotCalls @@ FlagCalls @@ HeatmapCalls @@ PeopleCalls @@ ChurnCalls
    @@ WarehouseCalls @@ WarehouseExport @@ GdprCalls @@ AuditCalls @@ StorageCalls
    @@ PathCalls @@ SchemaCalls @@ KeyCalls @@ ReportCalls @@ SystemCalls @@ EmbedCalls
    @@ PageFetches

CallKinds == {Calls[c] : c \in DOMAIN Calls}

----------------------------------------------------------------------------
(* The entry pages: how their request is sent and what they store of the answer *)

LoginForm  == [how |-> AuthCalls["login"], keeps |-> {"token", "key", "org"}]
DemoButton == [how |-> "open", keeps |-> {"token", "key", "org"}]
SignupForm == [how |-> AuthCalls["signup"], keeps |-> {"token", "key", "org"}]
InviteForm == [how |-> InviteCalls["acceptInvite"], keeps |-> {"token", "org"}]
SsoLanding == [how |-> "link", keeps |-> {"token", "org"}]

Forms == [login |-> LoginForm, demo |-> DemoButton, signup |-> SignupForm, invite |-> InviteForm]

Stored(form, n) ==
    /\ token' = n
    /\ org' = n
    /\ key' = IF "key" \in form.keeps THEN n ELSE key

\* Variant: request() forgets the token alone.
ClearedToken == token' = 0 /\ UNCHANGED <<key, org>>

Cleared == token' = 0 /\ key' = 0 /\ org' = 0

----------------------------------------------------------------------------
SessionInit ==
    /\ token = 0 /\ key = 0 /\ org = 0
    /\ place = [t \in Tabs |-> "entry"]
    /\ leaving = {} /\ sent = {} /\ gone = {}
    /\ signIns = 0 /\ sends = 0
    /\ withKey = {}

\* A request leaves the tab with the token of the moment, unless it needs none.
Sends(t, what, how) ==
    /\ sends < MaxSends
    /\ sends' = sends + 1
    /\ sent' = sent \cup {[id |-> sends, tab |-> t, does |-> what, how |-> how, made |-> 0,
                           as |-> IF how = "open" THEN 0 ELSE token]}

\* The root page, or a page of the application, is opened in a tab.  Without a
\* token its shell goes to /login, but its own effects have asked already.
Opens(t) ==
    /\ t \notin leaving
    /\ place' = [place EXCEPT ![t] = IF token = 0 THEN "entry" ELSE "app"]
    /\ \/ UNCHANGED <<sent, sends>>
       \/ \E how \in CallKinds : Sends(t, "call", how)
    /\ UNCHANGED <<stored, leaving, signIns, gone, withKey>>

\* A page that is open asks for something.
Call(t) ==
    /\ place[t] = "app"
    /\ \E how \in CallKinds : Sends(t, "call", how)
    /\ UNCHANGED <<stored, place, leaving, signIns, gone, withKey>>

Submit(t, f) ==
    /\ place[t] = "entry"
    /\ ~ \E q \in sent : q.tab = t /\ q.does = f
    /\ Sends(t, f, Forms[f].how)
    /\ UNCHANGED <<stored, place, leaving, signIns, gone, withKey>>

\* The server lets the user in and makes a token.
LetsIn(q) ==
    /\ q.does # "call"
    /\ q.made = 0
    /\ signIns < MaxSignIns
    /\ signIns' = signIns + 1
    /\ sent' = (sent \ {q}) \cup {[q EXCEPT !.made = signIns + 1]}
    /\ withKey' = IF "key" \in Forms[q.does].keeps THEN withKey \cup {signIns + 1} ELSE withKey
    /\ UNCHANGED <<stored, place, leaving, sends, gone>>

\* Its answer comes, and the form goes on to the dashboard.
SignedIn(q) ==
    /\ q.made # 0
    /\ sent' = sent \ {q}
    /\ Stored(Forms[q.does], q.made)
    /\ place' = [place EXCEPT ![q.tab] = "app"]
    /\ UNCHANGED <<leaving, signIns, sends, gone, withKey>>

\* The link of a provider leaves the page; the callback lands on sso-success,
\* which stores what is in its address.
SsoLands(t) ==
    /\ place[t] = "entry"
    /\ signIns < MaxSignIns
    /\ signIns' = signIns + 1
    /\ sent' = {q \in sent : q.tab # t}
    /\ leaving' = leaving \ {t}
    /\ Stored(SsoLanding, signIns + 1)
    /\ place' = [place EXCEPT ![t] = "app"]
    /\ UNCHANGED <<sends, gone, withKey>>

\* A call is answered, or fails otherwise than with a 401; so may a form.
Over(q) ==
    /\ sent' = sent \ {q}
    /\ UNCHANGED <<stored, place, leaving, signIns, sends, gone, withKey>>

\* 401: no token, one the server refuses by now, or a wrong password.
Refuses(q) == IF q.does = "call" THEN q.as = 0 \/ q.as \in gone ELSE q.made = 0

\* request() takes it for the end of the session, whatever is stored by now.
Unauthorized(q) ==
    /\ Refuses(q)
    /\ q.how = "request"
    /\ sent' = sent \ {q}
    /\ Cleared
    /\ leaving' = leaving \cup {q.tab}
    /\ UNCHANGED <<place, signIns, sends, gone, withKey>>

\* The tab has loaded /login: what it was waiting for is gone.
Unload(t) ==
    /\ t \in leaving
    /\ leaving' = leaving \ {t}
    /\ place' = [place EXCEPT ![t] = "entry"]
    /\ sent' = {q \in sent : q.tab # t}
    /\ UNCHANGED <<stored, signIns, sends, gone, withKey>>

\* The sidebar's logout, behind its dialog: nothing is sent, and the tab goes to
\* /login without loading it anew, so that answers under way still come.
Logout(t) ==
    /\ place[t] = "app"
    /\ Cleared
    /\ place' = [place EXCEPT ![t] = "entry"]
    /\ UNCHANGED <<leaving, sent, signIns, sends, gone, withKey>>

\* A token expires.
Expire(n) ==
    /\ n \in 1 .. signIns
    /\ gone' = gone \cup {n}
    /\ UNCHANGED <<stored, place, leaving, sent, signIns, sends, withKey>>

SessionNext ==
    \/ \E t \in Tabs : Opens(t) \/ Call(t) \/ SsoLands(t) \/ Unload(t) \/ Logout(t)
    \/ \E t \in Tabs, f \in DOMAIN Forms : Submit(t, f)
    \/ \E q \in sent : LetsIn(q) \/ SignedIn(q) \/ Over(q) \/ Unauthorized(q)
    \/ \E n \in 1 .. MaxSignIns : Expire(n)

SessionSpec == SessionInit /\ [][SessionNext]_sessionVars

----------------------------------------------------------------------------
\* Whichever tabs signed in and out, in whichever order answers and late 401s of
\* older tokens came: the token and the organisation are of one sign-in, no API
\* key is left without one, and after a login, a signup or the demo the key is
\* that of the same answer.  An invite or a provider's sign-in brings no key and
\* clears none, so that beside its token the key of another sign-in may stand.
SessionWhole ==
    /\ token = org
    /\ token = 0 => key = 0
    /\ token \in withKey => key = token
=============================================================================
