----------------------------- MODULE PageTables -----------------------------
(* What each list page of the frontend and its handlers do, for ListPages. *)
EXTENDS TLC

\* A handler that sends one request through lib/api.ts, whose request() raises
\* on a refusal, and does nothing after it.
Plain == [ask |-> "no", apart |-> FALSE, checks |-> "yes", tells |-> "never", writes |-> "none",
          reloads |-> "none", always |-> FALSE, lock |-> "none", frees |-> "always"]

\* Buttons: of the page, there once the list has arrived, or of a row; disabled
\* by the busy flags of the handlers off, unless Enter gets past them.
OnPage(off) == [shows |-> "always", off |-> off]
OnList(off) == [shows |-> "listed", off |-> off]
InRow(off)  == [shows |-> "row", off |-> off]

\* A page whose fetcher raises on a refusal.
Swr(does, buttons) ==
    [cache |-> "swr", onRefusal |-> "error", does |-> does, buttons |-> buttons]

----------------------------------------------------------------------------
(* Connectors *)

ConnectorCreate   == [Plain EXCEPT !.tells = "first", !.reloads = "start", !.lock = "creating"]
ConnectorInterval == [Plain EXCEPT !.tells = "first", !.reloads = "start", !.lock = "row"]
ConnectorSync     == [Plain EXCEPT !.tells = "first", !.reloads = "start", !.lock = "row"]
ConnectorUpload   == [Plain EXCEPT !.tells = "first", !.reloads = "start", !.lock = "row"]
ConnectorDelete   == [Plain EXCEPT !.ask = "word", !.apart = TRUE, !.reloads = "start",
                                   !.lock = "row", !.frees = "failure"]

ConnectorForm == [create |-> OnPage({"create"})]

ConnectorCard == [interval |-> InRow({}), sync |-> InRow({"sync"}),
                  upload |-> InRow({"upload"}), delete |-> InRow({"delete"})]

ConnectorsPage ==
    Swr([create |-> ConnectorCreate, interval |-> ConnectorInterval, sync |-> ConnectorSync,
         upload |-> ConnectorUpload, delete |-> ConnectorDelete],
        ConnectorForm @@ ConnectorCard)

SyncRunsPanel == Swr(<< >>, << >>)

----------------------------------------------------------------------------
(* Alert rules *)

AlertCreate == [Plain EXCEPT !.tells = "first", !.reloads = "start", !.lock = "creating"]
AlertDelete == [Plain EXCEPT !.ask = "dialog", !.apart = TRUE, !.reloads = "start",
                             !.lock = "row"]

AlertForm == [create |-> OnPage({"create"})]
AlertRow  == [delete |-> InRow({"delete"})]

AlertsPage == Swr([create |-> AlertCreate, delete |-> AlertDelete], AlertForm @@ AlertRow)

----------------------------------------------------------------------------
(* Scheduled reports: the page fetches by itself, and only create looks at the
   answer.  What a refused load returns has no map. *)

ReportCreate == [Plain EXCEPT !.tells = "last", !.reloads = "await", !.lock = "saving"]
ReportToggle == [Plain EXCEPT !.checks = "no", !.reloads = "await"]
ReportDelete == [Plain EXCEPT !.ask = "native", !.checks = "no", !.tells = "last",
                              !.reloads = "await"]
ReportRun    == [Plain EXCEPT !.checks = "crash", !.tells = "first", !.reloads = "await"]

ReportButtons == [create |-> OnPage({"create"}), toggle |-> InRow({}), delete |-> InRow({}),
                  run |-> InRow({})]

ReportsPage ==
    [Swr([create |-> ReportCreate, toggle |-> ReportToggle, delete |-> ReportDelete,
          run |-> ReportRun], ReportButtons) EXCEPT !.onRefusal = "crash"]

----------------------------------------------------------------------------
(* API keys *)

KeyCreate == [Plain EXCEPT !.tells = "first", !.reloads = "await", !.lock = "creating"]
KeyRevoke == [Plain EXCEPT !.ask = "dialog", !.checks = "no", !.tells = "last",
                           !.reloads = "await"]

KeyButtons == [create |-> OnPage({"create"}), revoke |-> InRow({})]

ApiKeysPage ==
    [Swr([create |-> KeyCreate, revoke |-> KeyRevoke], KeyButtons) EXCEPT !.onRefusal = "crash"]

----------------------------------------------------------------------------
(* Event schemas *)

SchemaSave   == [Plain EXCEPT !.tells = "last", !.reloads = "await", !.lock = "saving"]
SchemaAdopt  == [Plain EXCEPT !.checks = "no", !.tells = "last", !.reloads = "await",
                              !.lock = "saving"]
SchemaDelete == [Plain EXCEPT !.ask = "dialog", !.checks = "no", !.tells = "last",
                              !.reloads = "await"]
SchemaInfer  == [Plain EXCEPT !.checks = "no"]

SchemaButtons == [save |-> OnPage({"save", "adopt"}), adopt |-> OnList({"save", "adopt"}),
                  delete |-> InRow({}), infer |-> InRow({})]

SchemaPage ==
    [Swr([save |-> SchemaSave, adopt |-> SchemaAdopt, delete |-> SchemaDelete,
          infer |-> SchemaInfer], SchemaButtons) EXCEPT !.onRefusal = "crash"]

----------------------------------------------------------------------------
(* Embed tokens *)

EmbedCreate == [Plain EXCEPT !.tells = "first", !.reloads = "await", !.lock = "creating"]
EmbedRevoke == [Plain EXCEPT !.ask = "dialog", !.checks = "no", !.tells = "last",
                             !.reloads = "await"]

EmbedButtons == [create |-> OnPage({"create"}), revoke |-> InRow({})]

EmbedPage == Swr([create |-> EmbedCreate, revoke |-> EmbedRevoke], EmbedButtons)

----------------------------------------------------------------------------
(* Settings: the team, single sign-on, the account's key *)

TeamInvite == [Plain EXCEPT !.tells = "first", !.reloads = "await", !.lock = "inviting"]
TeamRemove == [Plain EXCEPT !.ask = "native", !.reloads = "await"]
TeamRole   == [Plain EXCEPT !.reloads = "await"]
TeamCancel == [Plain EXCEPT !.reloads = "await"]

TeamButtons == [invite |-> OnPage({"invite"}), remove |-> InRow({}), role |-> InRow({}),
                cancel |-> InRow({})]

TeamPanel ==
    Swr([invite |-> TeamInvite, remove |-> TeamRemove, role |-> TeamRole,
         cancel |-> TeamCancel], TeamButtons)

SsoSave   == [Plain EXCEPT !.tells = "first", !.reloads = "await", !.lock = "saving"]
SsoDelete == [Plain EXCEPT !.ask = "native", !.reloads = "await"]

SsoButtons == [save |-> OnPage({"save"}), delete |-> InRow({})]

SsoPanel == Swr([save |-> SsoSave, delete |-> SsoDelete], SsoButtons)

\* The key in the answer is put into the account that is shown.
KeyRotate == [Plain EXCEPT !.ask = "native", !.tells = "last", !.writes = "result",
                           !.lock = "rotating"]

RotateButton == [rotate |-> OnList({"rotate"})]

AccountPanel == Swr([rotate |-> KeyRotate], RotateButton)

\* settings/sso has its own form, which does not load what it saved.
SsoPageSave == [Plain EXCEPT !.tells = "first", !.lock = "saving"]

SsoPageButtons == [save |-> OnPage({"save"})]

SsoPage == [Swr([save |-> SsoPageSave], SsoPageButtons) EXCEPT !.onRefusal = "taken"]

----------------------------------------------------------------------------
(* Privacy: three handlers share one busy flag, which names the last of them. *)

GdprExport == [Plain EXCEPT !.lock = "loading"]
GdprOptOut == [Plain EXCEPT !.tells = "last", !.reloads = "await", !.lock = "loading"]
GdprRemove == [Plain EXCEPT !.ask = "dialog", !.tells = "last", !.reloads = "await"]
GdprForget == [Plain EXCEPT !.ask = "word", !.tells = "first", !.lock = "loading"]

GdprButtons == [export |-> OnPage({}), optout |-> OnPage({}), forget |-> OnPage({"forget"}),
                remove |-> InRow({})]

GdprPage ==
    Swr([export |-> GdprExport, optout |-> GdprOptOut, remove |-> GdprRemove,
         forget |-> GdprForget], GdprButtons)

----------------------------------------------------------------------------
(* Storage *)

StorageArchive == [Plain EXCEPT !.ask = "dialog", !.tells = "first", !.reloads = "await",
                                !.lock = "archiving"]
StorageBrowse  == [Plain EXCEPT !.lock = "browsing"]

StorageButtons == [archive |-> OnPage({"archive"}), browse |-> OnPage({})]

StoragePage == Swr([archive |-> StorageArchive, browse |-> StorageBrowse], StorageButtons)

----------------------------------------------------------------------------
(* Feature flags: the page writes into its list ahead of the server.  The form is
   a modal, which can be closed and opened again while it saves. *)

FlagCreate == [Plain EXCEPT !.tells = "first", !.reloads = "start"]
FlagEdit   == [Plain EXCEPT !.tells = "first", !.writes = "early", !.reloads = "start"]
FlagToggle == [Plain EXCEPT !.writes = "early", !.reloads = "start", !.always = TRUE]
FlagDelete == [Plain EXCEPT !.ask = "word", !.writes = "late", !.reloads = "start"]

FlagModal == [create |-> OnPage({}), edit |-> InRow({})]
FlagRow   == [toggle |-> InRow({}), delete |-> InRow({})]

FlagsPage ==
    Swr([create |-> FlagCreate, edit |-> FlagEdit, toggle |-> FlagToggle,
         delete |-> FlagDelete], FlagModal @@ FlagRow)

----------------------------------------------------------------------------
(* Share links and annotations: lists loaded by hand when they are opened, and
   then kept by the page. *)

ShareCreate == [Plain EXCEPT !.writes = "result", !.lock = "creating"]
ShareRevoke == [Plain EXCEPT !.ask = "dialog", !.writes = "result"]

ShareButtons == [create |-> OnPage({"create"}), revoke |-> InRow({})]

ShareModal ==
    [Swr([create |-> ShareCreate, revoke |-> ShareRevoke], ShareButtons) EXCEPT !.cache = "hand"]

NoteAdd    == [Plain EXCEPT !.writes = "result", !.lock = "saving"]
NoteDelete == [Plain EXCEPT !.ask = "dialog", !.writes = "result"]

NoteButtons == [add |-> OnPage({"add"}), delete |-> InRow({})]

AnnotationsPanel ==
    [Swr([add |-> NoteAdd, delete |-> NoteDelete], NoteButtons) EXCEPT !.cache = "hand"]

----------------------------------------------------------------------------
(* Funnels: each load is copied into a state of the page, and so is what the
   builder saved, which can be closed and opened again while it saves. *)

FunnelSave   == [Plain EXCEPT !.writes = "result"]
FunnelDelete == [Plain EXCEPT !.ask = "native", !.writes = "result"]

FunnelBuilder == [create |-> OnPage({}), edit |-> InRow({})]
FunnelRows    == [delete |-> InRow({})]

FunnelsPage ==
    [Swr([create |-> FunnelSave, edit |-> FunnelSave, delete |-> FunnelDelete],
         FunnelBuilder @@ FunnelRows) EXCEPT !.cache = "copied"]

----------------------------------------------------------------------------
PageTable ==
    [connectors |-> ConnectorsPage, runs |-> SyncRunsPanel, alerts |-> AlertsPage,
     reports |-> ReportsPage, keys |-> ApiKeysPage, schema |-> SchemaPage, embed |-> EmbedPage,
     team |-> TeamPanel, sso |-> SsoPanel, account |-> AccountPanel, ssoPage |-> SsoPage,
     gdpr |-> GdprPage, storage |-> StoragePage, flags |-> FlagsPage, share |-> ShareModal,
     notes |-> AnnotationsPanel, funnels |-> FunnelsPage]
=============================================================================
