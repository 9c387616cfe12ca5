----------------------------- MODULE AlertRules -----------------------------
(***************************************************************************)
(* Alert rules: the alert_rules table and its routes                       *)
(* (app/routers/alerts.py), the evaluation pass that the scheduler runs    *)
(* every minute (scheduler/alert_evaluator.py), and the messages it sends  *)
(* (scheduler/notifications.py).                                           *)
(*                                                                         *)
(* A pass loads every rule of every org, measures each metric once, over   *)
(* the widest window that any of the metric's rules has, judges the rules  *)
(* one after the other by what it loaded and measured, commits the new     *)
(* state of a rule and only then sends its message.  The scheduler starts  *)
(* no pass while one is running.                                           *)
(***************************************************************************)
EXTENDS Integers, FiniteSets

CONSTANTS
    Rules,
    Metrics,    \* pairs of an org and a metric
    MetricOf,   \* MetricOf[r] is the pair a rule is about
    Window,     \* Window[r] is the window_hours of a rule
    Condition,  \* Condition[r] is "below", "above" or "no_data"
    Threshold,
    Numbers,    \* values a metric can have
    NoData,     \* ... or None
    NotYet,     \* not measured in this pass
    Nothing,    \* no message is being sent
    MaxFaults   \* bound: crashes, failed passes and failed deliveries

Values  == Numbers \cup {NoData}
Windows == {Window[r] : r \in Rules}

ASSUME AlertAssumption ==
    /\ MetricOf \in [Rules -> Metrics]
    /\ Window \in [Rules -> Int]
    /\ Condition \in [Rules -> {"below", "above", "no_data"}]
    /\ Threshold \in [Rules -> Int]
    /\ Numbers \subseteq Int
    /\ NoData \notin Numbers
    /\ NotYet \notin Values
    /\ Nothing \notin [rule : Rules, kind : {"triggered", "resolved"}]
    /\ MaxFaults \in Nat

VARIABLES
    state,      \* alert_rules.state; "absent" before, "deleted" after the row
    fired,      \* last_triggered_at: never, less than 24 h ago, or in the past
    value,      \* each metric as a query over each window would find it now
    snap,       \* the states the pass in progress has loaded
    todo,       \* rules the pass has yet to judge
    measured,   \* metrics as the pass found them
    sending,    \* the message the pass is sending
    heard,      \* the last message about each rule that arrived (history)
    missed,     \* rules whose last message did not arrive (history)
    rung,       \* an alarm was raised less than 24 h ago (history)
    since,      \* <<window, value>> of each metric since the pass began (history)
    faults      \* faults so far

tableVars   == <<state, fired>>
passVars    == <<snap, todo, measured>>
messageVars == <<heard, missed, rung>>
vars == <<tableVars, value, passVars, sending, messageVars, since, faults>>

Message == [rule : Rules, kind : {"triggered", "resolved"}]

TypeOK ==
    /\ state \in [Rules -> {"absent", "OK", "TRIGGERED", "deleted"}]
    /\ fired \in [Rules -> {"never", "recent", "past"}]
    /\ value \in [Metrics -> [Windows -> Values]]
    /\ snap \in [Rules -> {"absent", "OK", "TRIGGERED"}]
    /\ todo \subseteq {r \in Rules : snap[r] # "absent"}
    /\ measured \in [Metrics -> Values \cup {NotYet}]
    /\ sending \in Message \cup {Nothing}
    /\ heard \in [Rules -> {"nothing", "triggered", "resolved"}]
    /\ missed \subseteq Rules
    /\ rung \in [Rules -> BOOLEAN]
    /\ since \in [Metrics -> SUBSET (Windows \X Values)]
    /\ faults \in 0 .. MaxFaults

\* Where a window has no data, no narrower one has.
Readings == {f \in [Windows -> Values] :
               \A w1, w2 \in Windows : w1 < w2 /\ f[w2] = NoData => f[w1] = NoData}

Init ==
    /\ state = [r \in Rules |-> "absent"]
    /\ fired = [r \in Rules |-> "never"]
    /\ value \in [Metrics -> Readings]
    /\ snap = [r \in Rules |-> "absent"]
    /\ todo = {}
    /\ measured = [m \in Metrics |-> NotYet]
    /\ sending = Nothing
    /\ heard = [r \in Rules |-> "nothing"]
    /\ missed = {}
    /\ rung = [r \in Rules |-> FALSE]
    /\ since = [m \in Metrics |-> {}]
    /\ faults = 0

----------------------------------------------------------------------------
Exists(r) == state[r] \in {"OK", "TRIGGERED"}

\* Without data only a no_data rule is met, and with data it is not.
ConditionMet(r, v) ==
    \/ Condition[r] = "no_data" /\ v = NoData
    \/ Condition[r] = "below" /\ v # NoData /\ v < Threshold[r]
    \/ Condition[r] = "above" /\ v # NoData /\ v > Threshold[r]

\* Variant: a rule fires once.
NeverRefire(r) == fired[r] = "never"

\* A rule that has fired is silent for 24 hours.
ShouldRefire(r) == fired[r] # "recent"

----------------------------------------------------------------------------
(* Users and time *)

CreateRule(r) ==
    /\ state[r] = "absent"
    /\ state' = [state EXCEPT ![r] = "OK"]
    /\ UNCHANGED <<fired, value, passVars, sending, messageVars, since, faults>>

DeleteRule(r) ==
    /\ Exists(r)
    /\ state' = [state EXCEPT ![r] = "deleted"]
    /\ UNCHANGED <<fired, value, passVars, sending, messageVars, since, faults>>

\* All windows at this moment.
Now(reading) == {<<w, reading[w]>> : w \in Windows}

\* Orders and events come in and fall out of the windows.
MetricMoves(m) ==
    /\ \E f \in Readings \ {value[m]} :
         /\ value' = [value EXCEPT ![m] = f]
         /\ since' = IF todo = {} /\ sending = Nothing THEN since
                     ELSE [since EXCEPT ![m] = @ \cup Now(f)]
    /\ UNCHANGED <<tableVars, passVars, sending, messageVars, faults>>

\* 24 hours have passed since the rule fired.
DayPasses(r) ==
    /\ fired[r] = "recent"
    /\ fired' = [fired EXCEPT ![r] = "past"]
    /\ rung' = [rung EXCEPT ![r] = FALSE]
    /\ UNCHANGED <<state, value, passVars, sending, heard, missed, since, faults>>

----------------------------------------------------------------------------
(* The evaluation pass *)

Idle == todo = {} /\ sending = Nothing

\* Variant: values of the last pass are used again.
LoadKeeping ==
    /\ Idle
    /\ \E r \in Rules : Exists(r)
    /\ snap' = [r \in Rules |-> IF Exists(r) THEN state[r] ELSE "absent"]
    /\ todo' = {r \in Rules : Exists(r)}
    /\ since' = [m \in Metrics |-> Now(value[m])]
    /\ UNCHANGED <<measured, tableVars, value, sending, messageVars, faults>>

\* All rules are loaded; without any the pass is over.
Load ==
    /\ Idle
    /\ \E r \in Rules : Exists(r)
    /\ snap' = [r \in Rules |-> IF Exists(r) THEN state[r] ELSE "absent"]
    /\ todo' = {r \in Rules : Exists(r)}
    /\ measured' = [m \in Metrics |-> NotYet]
    /\ since' = [m \in Metrics |-> Now(value[m])]
    /\ UNCHANGED <<tableVars, value, sending, messageVars, faults>>

Loaded == {r \in Rules : snap[r] # "absent"}

\* The widest window that rules on m have, among a set of rules.
Widest(rules, m, w) ==
    /\ \E r \in rules : MetricOf[r] = m /\ Window[r] = w
    /\ \A r \in rules : MetricOf[r] = m => Window[r] <= w

\* Every metric with a rule is measured once, before any rule is judged, over the
\* widest window of the rules that were loaded for it.
Measure(m) ==
    /\ \E r \in todo : MetricOf[r] = m
    /\ measured[m] = NotYet
    /\ \E w \in Windows : /\ Widest(Loaded, m, w)
                          /\ measured' = [measured EXCEPT ![m] = value[m][w]]
    /\ UNCHANGED <<snap, todo, tableVars, value, sending, messageVars, since, faults>>

\* What a rule comes to: its new state, and the message to send if any.  The
\* pass is the only writer of last_triggered_at.
Verdict(r) ==
    LET met == ConditionMet(r, measured[MetricOf[r]]) IN
    CASE snap[r] = "OK" /\ met                               -> "triggered"
      [] snap[r] = "TRIGGERED" /\ ~met                       -> "resolved"
      [] snap[r] = "TRIGGERED" /\ met /\ ShouldRefire(r)     -> "triggered"
      [] OTHER                                               -> "unchanged"

\* Variant: the message goes out although the state was not stored.
PersistNothing(r, new, alarm) == UNCHANGED tableVars

\* Variant: the time is stored only with a change of state.
PersistChange(r, new, alarm) ==
    /\ Exists(r)
    /\ state' = [state EXCEPT ![r] = new]
    /\ fired' = [fired EXCEPT ![r] = IF alarm /\ state[r] # new THEN "recent" ELSE @]

\* The UPDATE of a rule deleted meanwhile changes nothing; its message is sent.
Persist(r, new, alarm) ==
    /\ state' = [state EXCEPT ![r] = IF Exists(r) THEN new ELSE @]
    /\ fired' = [fired EXCEPT ![r] = IF Exists(r) /\ alarm THEN "recent" ELSE @]

\* The state is committed, then the message goes out.
Judge(r) ==
    /\ r \in todo
    /\ sending = Nothing
    /\ \A s \in todo : measured[MetricOf[s]] # NotYet
    /\ todo' = todo \ {r}
    /\ \/ /\ Verdict(r) = "triggered"
          /\ Persist(r, "TRIGGERED", TRUE)
          /\ sending' = [rule |-> r, kind |-> "triggered"]
          /\ rung' = [rung EXCEPT ![r] = TRUE]
       \/ /\ Verdict(r) = "resolved"
          /\ Persist(r, "OK", FALSE)
          /\ sending' = [rule |-> r, kind |-> "resolved"]
          /\ UNCHANGED rung
       \/ /\ Verdict(r) = "unchanged"
          /\ UNCHANGED <<tableVars, sending, rung>>
    /\ UNCHANGED <<snap, measured, value, heard, missed, since, faults>>

Deliver ==
    /\ sending # Nothing
    /\ heard' = [heard EXCEPT ![sending.rule] = sending.kind]
    /\ missed' = missed \ {sending.rule}
    /\ sending' = Nothing
    /\ UNCHANGED <<tableVars, value, passVars, rung, since, faults>>

\* Slack or the mail server does not take it, or no mail server is configured:
\* the error is logged and the pass goes on.
DeliveryFails ==
    /\ faults < MaxFaults
    /\ sending # Nothing
    /\ missed' = missed \cup {sending.rule}
    /\ sending' = Nothing
    /\ faults' = faults + 1
    /\ UNCHANGED <<tableVars, value, passVars, heard, rung, since>>

\* A query fails: the whole pass is given up, for every org.
PassFails ==
    /\ faults < MaxFaults
    /\ todo # {}
    /\ sending = Nothing
    /\ todo' = {}
    /\ faults' = faults + 1
    /\ UNCHANGED <<snap, measured, tableVars, value, sending, messageVars, since>>

\* The scheduler stops in a pass; the message it had in hand is not sent.
Crash ==
    /\ faults < MaxFaults
    /\ ~Idle
    /\ todo' = {}
    /\ missed' = IF sending = Nothing THEN missed ELSE missed \cup {sending.rule}
    /\ sending' = Nothing
    /\ faults' = faults + 1
    /\ UNCHANGED <<snap, measured, tableVars, value, heard, rung, since>>

----------------------------------------------------------------------------
PassStep ==
    \/ Load
    \/ \E m \in Metrics : Measure(m)
    \/ \E r \in Rules : Judge(r)
    \/ Deliver

Next ==
    \/ \E r \in Rules : CreateRule(r) \/ DeleteRule(r) \/ DayPasses(r)
    \/ \E m \in Metrics : MetricMoves(m)
    \/ PassStep
    \/ DeliveryFails
    \/ PassFails
    \/ Crash

Spec == Init /\ [][Next]_vars

\* The job comes round every minute and the scheduler is restarted when it
\* stops; days go by.
FairSpec == Spec /\ WF_vars(PassStep) /\ \A r \in Rules : WF_vars(DayPasses(r))

----------------------------------------------------------------------------
(* Properties *)

\* The destination knows the state of a rule: unless the last message about it
\* was lost, it has heard an alarm if and only if the rule is TRIGGERED.  This is
\* what committing the state and sending the message in two steps may break.
Told(r) == \/ ~Exists(r)
           \/ r \in missed
           \/ sending # Nothing /\ sending.rule = r
           \/ state[r] = "TRIGGERED" <=> heard[r] = "triggered"
StateIsTold == \A r \in Rules : Told(r)

\* A message is true of a moment of the pass when the metric was, over this window,
\* as it says.
TrueOf(msg, w) ==
    \E v \in Values : /\ <<w, v>> \in since[MetricOf[msg.rule]]
                      /\ ConditionMet(msg.rule, v) <=> msg.kind = "triggered"

\* Every message is true of a moment of the pass that sends it, over the widest window
\* of the rules that the pass loaded for the metric, however stale what the pass has
\* loaded and measured has become.  Of the rule's own window it need not be true, though
\* the alerts page shows that one (frontend/src/app/alerts/page.tsx:195).
NoFalseAlarm ==
    sending # Nothing =>
        \E w \in Windows : Widest(Loaded, MetricOf[sending.rule], w) /\ TrueOf(sending, w)

\* Two alarms of a rule within 24 hours have a resolution between them, which
\* may have been lost.
Repeats(r) == /\ sending' = [rule |-> r, kind |-> "triggered"]
              /\ sending' # sending
              /\ rung[r]
              /\ heard[r] = "triggered"
AtMostDaily == [][\A r \in Rules : Repeats(r) => r \in missed]_vars

\* Trouble that lasts, over the widest window of the rules on the metric, is heard
\* in the end when the failures of passes and deliveries end (MaxFaults): what was
\* lost is made up for, as the alarm is repeated after 24 hours.
Trouble(r) ==
    /\ Exists(r)
    /\ \E w \in Windows : /\ Widest({s \in Rules : Exists(s)}, MetricOf[r], w)
                          /\ ConditionMet(r, value[MetricOf[r]][w])
TroubleIsHeard ==
    \A r \in Rules : <>[]Trouble(r) => <>[](heard[r] = "triggered")
=============================================================================
