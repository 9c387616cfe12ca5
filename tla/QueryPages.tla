----------------------------- MODULE QueryPages -----------------------------
(***************************************************************************)
(* A part of the frontend that shows the answer to a query, and the        *)
(* controls its user picks the query with.  Answers come in any order.     *)
(*   keyed:  SWR asks when the key changes and keeps an answer per key     *)
(*   effect: an effect asks when a control changes and keeps the last      *)
(*           answer that comes                                             *)
(*   button: the user asks; the last answer that comes is kept             *)
(*   once:   asked when the page opens, about what its address names       *)
(***************************************************************************)
EXTENDS Naturals, FiniteSets

CONSTANTS
    MaxPicks,   \* bound: changes of a control
    MaxAsks     \* bound: queries a user sends with a button, and timers of a key

VARIABLES
    view,       \* the part that is open
    picked,     \* what each control holds
    committed,  \* the archive browser's query: what its search held at the last press
    asked,      \* the controls' values the part last asked with
    flights,    \* queries without an answer: for which values, under which key
    answers,    \* keyed: the values each key's answer is for
    result,     \* otherwise: the values the answer on the screen is for, in a set
    busy,       \* the part says that it is loading
    broke,      \* the last query failed
    down,       \* the part could not draw what it got, and the page with it
    picks, asks \* bounded

queryVars == <<view, picked, committed, asked, flights, answers, result, busy, broke, down,
               picks, asks>>
queryBounds == <<picks, asks>>

----------------------------------------------------------------------------
(* The parts: their controls, the values the query takes, the values in the key,
   and what an earlier answer stays on the screen through. *)

Keyed(controls)    == [kind |-> "keyed", controls |-> controls, takes |-> controls,
                       key |-> controls, waits |-> FALSE, delays |-> FALSE,
                       lags |-> FALSE, stays |-> {}]
OfKind(k, takes)   == [Keyed(takes) EXCEPT !.kind = k]

SegmentB       == Keyed({"days", "channel"})
SegmentA       == Keyed({"days", "eventType"})
Cohorts        == Keyed({"weeks"})
Anomalies      == Keyed({"metric"})
Churn          == Keyed({"filter"})
HeatmapClicks  == Keyed({"url", "days"})
HeatmapScroll  == Keyed({"url", "days"})
FunnelResults  == Keyed({"funnel", "days"})

\* What has no control is only asked for again.
SetupStatus    == Keyed({})
SystemPage     == Keyed({})

\* The search of the people page reaches the key 300 ms after the last change.
People         == [Keyed({"search"}) EXCEPT !.delays = TRUE]

\* The retention page asks at each change of the weeks, with no regard to the
\* load under way; while it loads it shows nothing.
Retention       == [OfKind("effect", {"weeks"}) EXCEPT !.stays = {"failure"}]

\* When the button is pressed, which is disabled meanwhile.  The paths of the last
\* answer stay on the screen whatever becomes of the next query, as the copilot's
\* answers do, each below its question.  An export shows nothing: it hands out a
\* file.
Paths           == [OfKind("button", {"start", "steps"}) EXCEPT
                      !.waits = TRUE, !.stays = {"loading", "failure"}]
Copilot         == [OfKind("button", {"question"}) EXCEPT
                      !.waits = TRUE, !.stays = {"loading", "failure"}]
ExportButton    == [OfKind("button", {"days", "filter"}) EXCEPT !.waits = TRUE]
ExportCard      == [OfKind("button", {"range", "fmt"}) EXCEPT !.waits = TRUE]

\* The archive is also asked by Enter, which is never disabled, and with the query
\* of the render before: setQuery is seen by the next press.
ArchiveBrowser  == [OfKind("button", {"search"}) EXCEPT !.lags = TRUE, !.stays = {"loading"}]

SharePage      == OfKind("once", {"token"})
EmbedWidget    == OfKind("once", {"token"})

Views == [segmentB |-> SegmentB, segmentA |-> SegmentA, cohorts |-> Cohorts,
          anomalies |-> Anomalies, churn |-> Churn, clicks |-> HeatmapClicks,
          scroll |-> HeatmapScroll, funnel |-> FunnelResults, people |-> People,
          retention |-> Retention, paths |-> Paths, copilot |-> Copilot,
          exportButton |-> ExportButton, exportCard |-> ExportCard,
          browser |-> ArchiveBrowser, share |-> SharePage, widget |-> EmbedWidget,
          setup |-> SetupStatus, system |-> SystemPage]

View     == Views[view]
IsKeyed  == View.kind = "keyed"

Only(fs, v) == [f \in fs |-> v[f]]

\* Variant: the key leaves out one of the values.
KeyOfShort(v) == [f \in {} |-> v[f]]

\* The key of the part with these values in its controls.
KeyOf(v) == Only(View.key, v)

----------------------------------------------------------------------------
QueryInit ==
    /\ view \in DOMAIN Views
    /\ picked = [c \in View.controls |-> 0]
    /\ committed = picked
    /\ asked = picked
    /\ flights = IF View.kind = "button" THEN {} ELSE {[for |-> picked, key |-> KeyOf(picked)]}
    /\ answers = {}
    /\ result = {}
    /\ busy = (View.kind # "button")
    /\ broke = FALSE
    /\ down = FALSE
    /\ picks = 0
    /\ asks = 0

AnswerOf(k) == {a \in answers : a.key = k}

\* The part asks for these values: SWR unless it is asking for the key already.
Asks(v) ==
    /\ asked' = v
    /\ flights' = IF IsKeyed /\ \E q \in flights : q.key = KeyOf(v)
                  THEN flights
                  ELSE flights \cup {[for |-> v, key |-> KeyOf(v)]}

\* A control changes, and the query with it where nothing delays it.
Pick(c, x) ==
    LET v == [picked EXCEPT ![c] = x] IN
    /\ View.kind # "once"
    /\ picks < MaxPicks
    /\ x # picked[c]
    /\ picks' = picks + 1
    /\ picked' = v
    /\ IF View.kind = "button" \/ View.delays
       THEN UNCHANGED <<asked, flights, busy, broke>>
       ELSE /\ Asks(v)
            /\ busy' = (View.kind = "effect" \/ AnswerOf(KeyOf(v)) = {})
            /\ broke' = FALSE
    /\ UNCHANGED <<view, committed, answers, result, down, asks>>

\* The delay after the last change of the search is over.
Debounced ==
    /\ View.delays
    /\ picked # asked
    /\ Asks(picked)
    /\ busy' = (AnswerOf(KeyOf(picked)) = {})
    /\ broke' = FALSE
    /\ UNCHANGED <<view, picked, committed, answers, result, down, queryBounds>>

\* The refresh timer of a key, or the window getting the focus.
Revalidate ==
    /\ IsKeyed
    /\ asks < MaxAsks
    /\ asks' = asks + 1
    /\ Asks(asked)
    /\ UNCHANGED <<view, picked, committed, answers, result, busy, broke, down, picks>>

\* The button is pressed.
Press ==
    /\ View.kind = "button"
    /\ View.waits => ~busy
    /\ asks < MaxAsks
    /\ asks' = asks + 1
    /\ Asks(IF View.lags THEN committed ELSE picked)
    /\ committed' = picked
    /\ busy' = TRUE
    /\ broke' = FALSE
    /\ UNCHANGED <<view, picked, answers, result, down, picks>>

\* An answer comes: SWR keeps it under its key, the others on the screen.
Answer(q) ==
    /\ q \in flights
    /\ flights' = flights \ {q}
    /\ IF IsKeyed
       THEN /\ answers' = {a \in answers : a.key # q.key} \cup {q}
            /\ IF q.key = KeyOf(asked) THEN busy' = FALSE /\ broke' = FALSE
                                       ELSE UNCHANGED <<busy, broke>>
            /\ UNCHANGED result
       ELSE /\ result' = {q.for}
            /\ busy' = FALSE
            /\ UNCHANGED <<answers, broke>>
    /\ UNCHANGED <<view, picked, committed, asked, down, queryBounds>>

\* A query fails: the error is shown or swallowed, and what was on the screen
\* stays or goes.
QueryFails(q) ==
    /\ q \in flights
    /\ flights' = flights \ {q}
    /\ IF IsKeyed /\ q.key # KeyOf(asked)
       THEN UNCHANGED <<busy, broke>>
       ELSE busy' = FALSE /\ broke' = TRUE
    /\ result' = IF "failure" \in View.stays THEN result ELSE {}
    /\ UNCHANGED <<view, picked, committed, asked, answers, down, queryBounds>>

\* The paths page does not look at the status of an answer: it takes the body of
\* an error for paths, and drawing it throws.
Unreadable(q) ==
    /\ q \in flights
    /\ view = "paths"
    /\ flights' = flights \ {q}
    /\ down' = TRUE
    /\ busy' = FALSE
    /\ UNCHANGED <<view, picked, committed, asked, answers, result, broke, queryBounds>>

----------------------------------------------------------------------------
QueryNext ==
    /\ ~down
    /\ \/ Debounced \/ Revalidate \/ Press
       \/ \E c \in View.controls, x \in {0, 1} : Pick(c, x)
       \/ \E q \in flights : Answer(q) \/ QueryFails(q) \/ Unreadable(q)

QuerySpec == QueryInit /\ [][QueryNext]_queryVars

----------------------------------------------------------------------------
(* What the screen shows, and what it is *)

\* The values the data on the screen is for.
OnScreen ==
    IF IsKeyed THEN {a.for : a \in AnswerOf(KeyOf(asked))}
               ELSE IF down \/ (busy /\ "loading" \notin View.stays) THEN {} ELSE result

\* Two parts take the last answer to come for the answer to the last query: the
\* retention page, and the archive browser, which Enter gets to ask twice.
Unordered == View.kind = "effect" \/ View.lags

\* On the paths page and in the copilot an earlier answer is still there while a
\* newer query is under way, or has failed.
Outlasted ==
    /\ ~IsKeyed
    /\ \/ busy /\ "loading" \in View.stays
       \/ broke /\ "failure" \in View.stays

\* Data on the screen answers the query the user asked last: the values that the
\* query takes are those it was asked with, whatever answers come late, twice or
\* for a selection that was left.  It is older only on the two parts that keep it
\* (Outlasted), and there only until a query succeeds; two others (Unordered) make
\* no promise.
SelectionShown ==
    \/ Unordered \/ Outlasted
    \/ \A v \in OnScreen : Only(View.takes, v) = Only(View.takes, asked)
=============================================================================
