------------------------- MODULE AlertRules_proofs -------------------------
(***************************************************************************)
(* Theorems about AlertRules for any rules, metrics and conditions.        *)
(***************************************************************************)
EXTENDS AlertRules, TLAPS

\* What the pass has loaded and measured since it began.
PassInv ==
    /\ \A r \in todo : state[r] \in {snap[r], "deleted"}
    /\ todo # {} => \A m \in Metrics :
                      /\ Now(value[m]) \subseteq since[m]
                      /\ measured[m] # NotYet =>
                           \E w \in Windows : /\ Widest(Loaded, m, w)
                                              /\ <<w, measured[m]>> \in since[m]

\* The message in hand agrees with the row it was committed to, and a rule is
\* not known before it exists.
SendingInv ==
    /\ sending # Nothing =>
         /\ state[sending.rule] # "absent"
         /\ Exists(sending.rule) =>
              (state[sending.rule] = "TRIGGERED" <=> sending.kind = "triggered")
    /\ \A r \in Rules : state[r] = "absent" => heard[r] = "nothing" /\ ~rung[r]

\* A rule still to be judged was told what the pass has loaded.
TodoTold ==
    \A r \in todo : r \notin missed /\ (sending = Nothing \/ sending.rule # r) =>
        (snap[r] = "TRIGGERED" <=> heard[r] = "triggered")

\* No message is in hand about a rule that is still to be judged.
TodoUnsent == sending # Nothing => sending.rule \notin todo

\* An alarm raised today is on the row.
RungInv == \A r \in Rules : rung[r] /\ (Exists(r) \/ r \in todo) => fired[r] = "recent"

IInv ==
    /\ TypeOK /\ PassInv /\ SendingInv /\ TodoTold /\ TodoUnsent /\ RungInv
    /\ StateIsTold /\ NoFalseAlarm

----------------------------------------------------------------------------
\* There are no rules at first.
LEMMA InitIInv == Init => IInv
  <1> SUFFICES ASSUME Init PROVE IInv
    OBVIOUS
  <1>1. TypeOK
    BY AlertAssumption DEF Init, TypeOK, Readings, AlertAssumption
  <1> QED
    BY <1>1 DEF Init, IInv, PassInv, SendingInv, TodoTold, TodoUnsent, RungInv, StateIsTold, Told,
       NoFalseAlarm, Exists

\* A message has a rule and a kind.
LEMMA MessageFacts ==
    ASSUME TypeOK, sending # Nothing
    PROVE  /\ sending.rule \in Rules /\ MetricOf[sending.rule] \in Metrics
           /\ sending.kind \in {"triggered", "resolved"}
  BY AlertAssumption DEF TypeOK, Message, AlertAssumption

\* What was loaded and measured stays true while nothing of it changes and no rule
\* is added to those to be judged.
LEMMA PassSame ==
    ASSUME PassInv, UNCHANGED <<value, snap, measured, since>>, todo' \subseteq todo,
           \A r \in todo : state'[r] \in {state[r], "deleted"} \/ r \notin todo'
    PROVE  PassInv'
  <1>1. \A n, w : Widest(Loaded, n, w) <=> Widest(Loaded, n, w)'
    BY DEF Widest, Loaded
  <1>2. \A m \in Metrics : Now(value'[m]) = Now(value[m])
    BY DEF Now
  <1>3. \A r \in todo' : state'[r] \in {snap'[r], "deleted"}
    BY DEF PassInv
  <1> QED BY <1>1, <1>2, <1>3 DEF PassInv, Now

\* So does what the message in hand says, also while metrics move.
LEMMA AlarmSame ==
    ASSUME NoFalseAlarm, UNCHANGED snap, sending' \in {sending, Nothing},
           sending # Nothing => since[MetricOf[sending.rule]] \subseteq since'[MetricOf[sending.rule]]
    PROVE  NoFalseAlarm'
  <1> SUFFICES ASSUME sending' # Nothing
               PROVE  \E w \in Windows : Widest(Loaded, MetricOf[sending.rule], w)' /\ TrueOf(sending, w)'
    BY DEF NoFalseAlarm
  <1>2. sending' = sending /\ sending # Nothing
    OBVIOUS
  <1>3. PICK w \in Windows : Widest(Loaded, MetricOf[sending.rule], w) /\ TrueOf(sending, w)
    BY <1>2 DEF NoFalseAlarm
  <1>4. TrueOf(sending, w)'
    BY <1>2, <1>3 DEF TrueOf, ConditionMet
  <1>5. Widest(Loaded, MetricOf[sending.rule], w)'
    BY <1>2, <1>3 DEF Widest, Loaded
  <1> QED BY <1>4, <1>5

\* Users and time.
LEMMA WorldPreserves ==
    ASSUME IInv,
           \/ \E r \in Rules : CreateRule(r) \/ DeleteRule(r) \/ DayPasses(r)
           \/ \E m \in Metrics : MetricMoves(m)
    PROVE  IInv'
  <1> USE DEF passVars, messageVars, tableVars
  <1>0. TypeOK /\ PassInv /\ SendingInv /\ TodoTold /\ TodoUnsent /\ RungInv
        /\ StateIsTold /\ NoFalseAlarm
    BY DEF IInv
  <1>1. ASSUME NEW r \in Rules, CreateRule(r) PROVE IInv'
    <2>1. r \notin todo /\ (sending # Nothing => sending.rule # r) /\ heard[r] = "nothing" /\ ~rung[r]
      BY <1>0, <1>1 DEF CreateRule, TypeOK, PassInv, SendingInv
    <2>2. /\ state' = [state EXCEPT ![r] = "OK"]
          /\ UNCHANGED <<fired, value, snap, todo, measured, sending, heard, missed, rung, since, faults>>
      BY <1>1 DEF CreateRule
    <2>3. \A s \in Rules : s # r => state'[s] = state[s]
      BY <2>2, <1>0 DEF TypeOK
    <2>4. TypeOK'
      BY <2>2, <1>0 DEF TypeOK
    <2>p. PassInv' /\ NoFalseAlarm'
      BY <2>1, <2>2, <2>3, <1>0, PassSame, AlarmSame DEF TypeOK
    <2>5. TodoTold' /\ TodoUnsent'
      BY <2>1, <2>2, <2>3, <1>0 DEF TypeOK, TodoTold, TodoUnsent
    <2>6. SendingInv'
      BY <2>1, <2>2, <2>3, <1>0, MessageFacts DEF TypeOK, SendingInv, Exists
    <2>7. StateIsTold'
      BY <2>1, <2>2, <2>3, <1>0 DEF TypeOK, StateIsTold, Told, Exists
    <2>8. RungInv'
      BY <2>1, <2>2, <2>3, <1>0, <1>1 DEF TypeOK, RungInv, Exists, CreateRule
    <2> QED BY <2>4, <2>p, <2>5, <2>6, <2>7, <2>8 DEF IInv
  <1>2. ASSUME NEW r \in Rules, DeleteRule(r) PROVE IInv'
    <2>2. /\ state' = [state EXCEPT ![r] = "deleted"]
          /\ UNCHANGED <<fired, value, snap, todo, measured, sending, heard, missed, rung, since, faults>>
          /\ Exists(r)
      BY <1>2 DEF DeleteRule
    <2>3. state'[r] = "deleted" /\ \A s \in Rules : s # r => state'[s] = state[s]
      BY <2>2, <1>0 DEF TypeOK
    <2>4. TypeOK'
      BY <2>2, <1>0 DEF TypeOK
    <2>p. PassInv' /\ NoFalseAlarm'
      BY <2>2, <2>3, <1>0, PassSame, AlarmSame DEF TypeOK
    <2>5. TodoTold' /\ TodoUnsent'
      BY <2>2, <2>3, <1>0 DEF TypeOK, TodoTold, TodoUnsent
    <2>6. SendingInv'
      BY <2>2, <2>3, <1>0, MessageFacts DEF TypeOK, SendingInv, Exists
    <2>7. StateIsTold' /\ RungInv'
      BY <2>2, <2>3, <1>0 DEF TypeOK, StateIsTold, Told, RungInv, Exists
    <2> QED BY <2>4, <2>p, <2>5, <2>6, <2>7 DEF IInv
  <1>3. ASSUME NEW r \in Rules, DayPasses(r) PROVE IInv'
    <2>2. /\ fired' = [fired EXCEPT ![r] = "past"]
          /\ rung' = [rung EXCEPT ![r] = FALSE]
          /\ UNCHANGED <<state, value, snap, todo, measured, sending, heard, missed, since, faults>>
      BY <1>3 DEF DayPasses
    <2>4. TypeOK'
      BY <2>2, <1>0 DEF TypeOK
    <2>p. PassInv' /\ NoFalseAlarm'
      BY <2>2, <1>0, PassSame, AlarmSame
    <2>5. TodoTold' /\ TodoUnsent' /\ SendingInv' /\ StateIsTold'
      BY <2>2, <1>0 DEF TodoTold, TodoUnsent, SendingInv, StateIsTold, Told, Exists
    <2>6. RungInv'
      BY <2>2, <1>0 DEF TypeOK, RungInv, Exists
    <2> QED BY <2>4, <2>p, <2>5, <2>6 DEF IInv
  <1>4. ASSUME NEW m \in Metrics, MetricMoves(m) PROVE IInv'
    <2>1. PICK f \in Readings \ {value[m]} :
            /\ value' = [value EXCEPT ![m] = f]
            /\ since' = IF todo = {} /\ sending = Nothing THEN since
                        ELSE [since EXCEPT ![m] = @ \cup Now(f)]
      BY <1>4 DEF MetricMoves
    <2>f. f \in [Windows -> Values] /\ Now(f) \subseteq Windows \X Values
      BY DEF Readings, Now
    <2>2. UNCHANGED <<state, fired, snap, todo, measured, sending, heard, missed, rung, faults>>
      BY <1>4 DEF MetricMoves
    <2>3. \A n \in Metrics : since[n] \subseteq since'[n]
      BY <2>1, <1>0 DEF TypeOK
    <2>4. TypeOK'
      <3>1. /\ value' \in [Metrics -> [Windows -> Values]]
            /\ since' \in [Metrics -> SUBSET (Windows \X Values)]
        BY <2>1, <2>f, <1>0 DEF TypeOK
      <3> QED BY <3>1, <2>2, <1>0 DEF TypeOK
    <2>5. PassInv'
      <3>1. \A n \in Metrics, w \in Windows : Widest(Loaded, n, w) <=> Widest(Loaded, n, w)'
        BY <2>2 DEF Widest, Loaded
      <3>2. ASSUME todo # {}, NEW n \in Metrics
            PROVE  Now(value'[n]) \subseteq since'[n]
        BY <3>2, <2>1, <1>0 DEF TypeOK, PassInv
      <3>3. ASSUME todo # {}, NEW n \in Metrics, measured[n] # NotYet
            PROVE  \E w \in Windows : /\ Widest(Loaded, n, w)'
                                      /\ <<w, measured'[n]>> \in since'[n]
        BY <3>1, <3>3, <2>2, <2>3, <1>0 DEF PassInv
      <3>4. \A s \in todo : state[s] \in {snap[s], "deleted"}
        BY <1>0 DEF PassInv
      <3> QED BY <3>2, <3>3, <3>4, <2>2 DEF PassInv, Now
    <2>6. TodoTold' /\ TodoUnsent' /\ SendingInv' /\ StateIsTold' /\ RungInv'
      BY <2>2, <1>0 DEF TodoTold, TodoUnsent, SendingInv, StateIsTold, Told, RungInv, Exists
    <2>7. NoFalseAlarm'
      BY <2>2, <2>3, <1>0, MessageFacts, AlarmSame
    <2> QED BY <2>4, <2>5, <2>6, <2>7 DEF IInv
  <1> QED BY <1>1, <1>2, <1>3, <1>4

\* Loading and measuring.
LEMMA ReadPreserves ==
    ASSUME IInv, Load \/ \E m \in Metrics : Measure(m)
    PROVE  IInv'
  <1> USE DEF passVars, messageVars, tableVars
  <1>0. TypeOK /\ PassInv /\ SendingInv /\ TodoTold /\ TodoUnsent /\ RungInv
        /\ StateIsTold /\ NoFalseAlarm
    BY DEF IInv
  <1>1. CASE Load
    <2>1. /\ todo = {} /\ sending = Nothing
          /\ snap' = [r \in Rules |-> IF Exists(r) THEN state[r] ELSE "absent"]
          /\ todo' = {r \in Rules : Exists(r)}
          /\ measured' = [m \in Metrics |-> NotYet]
          /\ since' = [m \in Metrics |-> Now(value[m])]
          /\ UNCHANGED <<state, fired, value, sending, heard, missed, rung, faults>>
      BY <1>1 DEF Load, Idle
    <2>2. TypeOK'
      <3>1. \A m \in Metrics : Now(value[m]) \subseteq Windows \X Values
        BY <1>0 DEF TypeOK, Now
      <3>2. since' \in [Metrics -> SUBSET (Windows \X Values)]
        BY <2>1, <3>1
      <3>3. /\ snap' \in [Rules -> {"absent", "OK", "TRIGGERED"}]
            /\ todo' \subseteq {r \in Rules : snap'[r] # "absent"}
            /\ measured' \in [Metrics -> Values \cup {NotYet}]
        BY <2>1, <1>0 DEF TypeOK, Exists
      <3> QED BY <2>1, <3>2, <3>3, <1>0 DEF TypeOK
    <2>3. PassInv'
      <3>1. \A m \in Metrics : Now(value[m])' \subseteq since'[m] /\ measured'[m] = NotYet
        BY <2>1 DEF Now
      <3>2. \A r \in todo' : state'[r] = snap'[r]
        BY <2>1, <1>0 DEF TypeOK
      <3> QED BY <3>1, <3>2 DEF PassInv, Now
    <2>4. SendingInv' /\ TodoUnsent' /\ StateIsTold' /\ NoFalseAlarm'
      BY <2>1, <1>0 DEF SendingInv, TodoUnsent, StateIsTold, Told, NoFalseAlarm, Exists
    <2>5. TodoTold' /\ RungInv'
      BY <2>1, <1>0 DEF TodoTold, StateIsTold, Told, RungInv, Exists
    <2> QED BY <2>2, <2>3, <2>4, <2>5 DEF IInv
  <1>2. ASSUME NEW m \in Metrics, Measure(m) PROVE IInv'
    <2>1. PICK w \in Windows : /\ Widest(Loaded, m, w)
                              /\ measured' = [measured EXCEPT ![m] = value[m][w]]
      BY <1>2 DEF Measure
    <2>u. /\ todo # {}
          /\ UNCHANGED <<state, fired, value, snap, todo, sending, heard, missed, rung, since, faults>>
      BY <1>2 DEF Measure
    <2>v. value[m][w] \in Values
      BY <1>0 DEF TypeOK
    <2>2. TypeOK'
      BY <2>1, <2>u, <2>v, <1>0 DEF TypeOK
    <2>3. PassInv'
      <3>1. \A n, w1 : Widest(Loaded, n, w1) <=> Widest(Loaded, n, w1)'
        BY <2>u DEF Widest, Loaded
      <3>2. \A n \in Metrics : Now(value[n])' = Now(value[n])
        BY <2>u DEF Now
      <3>3. \A s \in todo' : state'[s] \in {snap'[s], "deleted"}
        BY <2>u, <1>0 DEF PassInv
      <3>4. <<w, value[m][w]>> \in since[m]
        BY <2>u, <1>0 DEF PassInv, Now
      <3>5. measured'[m] = value[m][w] /\ \A n \in Metrics : n # m => measured'[n] = measured[n]
        BY <2>1, <1>0 DEF TypeOK
      <3>6. ASSUME NEW n \in Metrics, measured'[n] # NotYet
            PROVE  \E w1 \in Windows : /\ Widest(Loaded, n, w1)'
                                       /\ <<w1, measured'[n]>> \in since'[n]
        <4>1. CASE n = m
          BY <4>1, <2>1, <2>u, <3>1, <3>4, <3>5
        <4>2. CASE n # m
          BY <4>2, <2>u, <3>1, <3>5, <3>6, <1>0 DEF PassInv
        <4> QED BY <4>1, <4>2
      <3> QED BY <2>u, <3>2, <3>3, <3>6, <1>0 DEF PassInv
    <2>n. NoFalseAlarm'
      BY <2>u, <1>0, AlarmSame
    <2>4. SendingInv' /\ TodoUnsent' /\ StateIsTold' /\ TodoTold' /\ RungInv'
      BY <2>u, <1>0 DEF SendingInv, TodoUnsent, StateIsTold, Told, Exists, TodoTold, RungInv
    <2> QED BY <2>2, <2>3, <2>n, <2>4 DEF IInv
  <1> QED BY <1>1, <1>2

\* Judging one rule: the only step that raises an alarm.
LEMMA JudgePreserves ==
    ASSUME IInv, NEW r \in Rules, Judge(r)
    PROVE  IInv' /\ (Repeats(r) => r \in missed) /\ \A s \in Rules : s # r => ~Repeats(s)
  <1> USE DEF passVars, messageVars, tableVars
  <1>0. TypeOK /\ PassInv /\ SendingInv /\ TodoTold /\ TodoUnsent /\ RungInv
        /\ StateIsTold /\ NoFalseAlarm
    BY DEF IInv
  <1> DEFINE v == measured[MetricOf[r]]
  <1>1. /\ r \in todo /\ sending = Nothing /\ todo' = todo \ {r}
        /\ v # NotYet
        /\ UNCHANGED <<snap, measured, value, heard, missed, since, faults>>
    BY DEF Judge
  <1>2. /\ MetricOf[r] \in Metrics
        /\ snap[r] \in {"OK", "TRIGGERED"}
        /\ state[r] \in {snap[r], "deleted"}
    BY <1>0, <1>1, AlertAssumption DEF TypeOK, PassInv, AlertAssumption
  <1>w. PICK w \in Windows : Widest(Loaded, MetricOf[r], w) /\ <<w, v>> \in since[MetricOf[r]]
    BY <1>0, <1>1, <1>2 DEF PassInv
  <1>v. v \in Values
    BY <1>0, <1>1, <1>2 DEF TypeOK
  <1>l. Widest(Loaded, MetricOf[r], w)'
    BY <1>1, <1>w DEF Widest, Loaded
  <1>3. /\ state' \in [Rules -> {"absent", "OK", "TRIGGERED", "deleted"}]
        /\ \A s \in Rules : s # r => state'[s] = state[s] /\ fired'[s] = fired[s] /\ rung'[s] = rung[s]
        /\ fired' \in [Rules -> {"never", "recent", "past"}]
        /\ rung' \in [Rules -> BOOLEAN]
    <2>1. \/ Persist(r, "TRIGGERED", TRUE) /\ rung' = [rung EXCEPT ![r] = TRUE]
          \/ Persist(r, "OK", FALSE) /\ rung' = rung
          \/ UNCHANGED <<state, fired, rung>>
      BY DEF Judge
    <2>2. ASSUME NEW new \in {"OK", "TRIGGERED"}, NEW alarm \in BOOLEAN, Persist(r, new, alarm)
          PROVE  /\ state' \in [Rules -> {"absent", "OK", "TRIGGERED", "deleted"}]
                 /\ fired' \in [Rules -> {"never", "recent", "past"}]
                 /\ \A s \in Rules : s # r => state'[s] = state[s] /\ fired'[s] = fired[s]
      BY <1>0, <2>2 DEF Persist, TypeOK
    <2>3. /\ rung' \in [Rules -> BOOLEAN]
          /\ \A s \in Rules : s # r => rung'[s] = rung[s]
      BY <1>0, <2>1 DEF TypeOK
    <2> QED BY <1>0, <2>1, <2>2, <2>3 DEF TypeOK
  <1>4. ~Exists(r) => state'[r] = state[r] /\ state[r] = "deleted" /\ ~Exists(r)'
    BY <1>0, <1>2 DEF Judge, Persist, TypeOK, Exists
  <1>5. CASE Verdict(r) = "triggered"
    <2>1. /\ sending' = [rule |-> r, kind |-> "triggered"]
          /\ rung' = [rung EXCEPT ![r] = TRUE]
          /\ Persist(r, "TRIGGERED", TRUE)
      BY <1>5 DEF Judge
    <2>2. sending' # Nothing /\ sending'.rule = r /\ sending'.kind = "triggered" /\ sending' \in Message
      BY <2>1, AlertAssumption DEF Message, AlertAssumption
    <2>3. ConditionMet(r, v) /\ (snap[r] = "TRIGGERED" => fired[r] # "recent")
      BY <1>2, <1>5 DEF Verdict, ShouldRefire
    <2>4. Exists(r) => state'[r] = "TRIGGERED" /\ fired'[r] = "recent"
      BY <2>1, <1>0 DEF Persist, TypeOK
    <2>5. TypeOK'
      BY <1>0, <1>1, <1>3, <2>2 DEF TypeOK
    <2>p. PassInv'
      BY <1>0, <1>1, <1>3, PassSame DEF TypeOK
    <2>6. TodoTold' /\ TodoUnsent'
      BY <1>0, <1>1, <1>3, <2>2 DEF TypeOK, TodoTold, TodoUnsent
    <2>7. SendingInv'
      BY <1>0, <1>1, <1>2, <1>3, <1>4, <2>2, <2>4 DEF TypeOK, SendingInv, Exists
    <2>8. RungInv'
      BY <1>0, <1>1, <1>3, <1>4, <2>4 DEF TypeOK, RungInv, Exists
    <2>9. StateIsTold'
      BY <1>0, <1>1, <1>3, <2>2 DEF StateIsTold, Told, Exists
    <2>10. NoFalseAlarm'
      BY <1>1, <1>w, <1>v, <1>l, <2>2, <2>3 DEF NoFalseAlarm, TrueOf, ConditionMet
    <2>11. Repeats(r) => r \in missed
      BY <1>0, <1>1, <1>2, <2>3 DEF Repeats, TodoTold, RungInv
    <2>12. \A s \in Rules : s # r => ~Repeats(s)
      BY <2>2 DEF Repeats
    <2> QED BY <2>5, <2>p, <2>6, <2>7, <2>8, <2>9, <2>10, <2>11, <2>12 DEF IInv
  <1>6. CASE Verdict(r) = "resolved"
    <2>1. /\ sending' = [rule |-> r, kind |-> "resolved"]
          /\ rung' = rung
          /\ Persist(r, "OK", FALSE)
      BY <1>6 DEF Judge
    <2>2. sending' # Nothing /\ sending'.rule = r /\ sending'.kind = "resolved" /\ sending' \in Message
      BY <2>1, AlertAssumption DEF Message, AlertAssumption
    <2>3. ~ConditionMet(r, v)
      BY <1>6 DEF Verdict
    <2>4. (Exists(r) => state'[r] = "OK") /\ fired'[r] = fired[r]
      BY <2>1, <1>0 DEF Persist, TypeOK
    <2>5. TypeOK'
      BY <1>0, <1>1, <1>3, <2>2 DEF TypeOK
    <2>p. PassInv'
      BY <1>0, <1>1, <1>3, PassSame DEF TypeOK
    <2>6. TodoTold' /\ TodoUnsent'
      BY <1>0, <1>1, <1>3, <2>2 DEF TypeOK, TodoTold, TodoUnsent
    <2>7. SendingInv'
      BY <1>0, <1>1, <1>2, <1>3, <1>4, <2>2, <2>4 DEF TypeOK, SendingInv, Exists
    <2>8. RungInv'
      BY <1>0, <1>1, <1>3, <1>4, <2>1, <2>4 DEF TypeOK, RungInv, Exists
    <2>9. StateIsTold'
      BY <1>0, <1>1, <1>3, <2>2 DEF StateIsTold, Told, Exists
    <2>10. NoFalseAlarm'
      BY <1>1, <1>w, <1>v, <1>l, <2>2, <2>3 DEF NoFalseAlarm, TrueOf, ConditionMet
    <2>11. \A s \in Rules : ~Repeats(s)
      BY <2>1 DEF Repeats
    <2> QED BY <2>5, <2>p, <2>6, <2>7, <2>8, <2>9, <2>10, <2>11 DEF IInv
  <1>7. CASE Verdict(r) = "unchanged"
    <2>1. UNCHANGED <<state, fired, sending, rung>>
      BY <1>7 DEF Judge
    <2>2. TypeOK'
      BY <1>0, <1>1, <2>1 DEF TypeOK
    <2>p. PassInv' /\ NoFalseAlarm'
      BY <1>0, <1>1, <2>1, PassSame, AlarmSame
    <2>3. TodoTold' /\ TodoUnsent' /\ RungInv'
      BY <1>0, <1>1, <2>1 DEF TodoTold, TodoUnsent, RungInv, Exists
    <2>4. SendingInv' /\ StateIsTold'
      BY <1>0, <1>1, <2>1 DEF SendingInv, StateIsTold, Told, Exists
    <2>5. \A s \in Rules : ~Repeats(s)
      BY <2>1 DEF Repeats
    <2> QED BY <2>2, <2>p, <2>3, <2>4, <2>5 DEF IInv
  <1> QED BY <1>5, <1>6, <1>7 DEF Judge, Verdict

\* The message arrives or is lost, and a pass is given up.
LEMMA EndPreserves ==
    ASSUME IInv, Deliver \/ DeliveryFails \/ PassFails \/ Crash
    PROVE  IInv'
  <1> USE DEF passVars, messageVars, tableVars
  <1>0. TypeOK /\ PassInv /\ SendingInv /\ TodoTold /\ TodoUnsent /\ RungInv
        /\ StateIsTold /\ NoFalseAlarm
    BY DEF IInv
  <1>1. CASE Deliver
    <2> DEFINE r == sending.rule
    <2>1. /\ sending # Nothing /\ sending' = Nothing
          /\ heard' = [heard EXCEPT ![r] = sending.kind]
          /\ missed' = missed \ {r}
          /\ UNCHANGED <<state, fired, value, snap, todo, measured, rung, since, faults>>
      BY <1>1 DEF Deliver
    <2>2. r \in Rules /\ sending.kind \in {"triggered", "resolved"} /\ r \notin todo
      BY <1>0, <2>1, MessageFacts DEF TodoUnsent
    <2>3. heard'[r] = sending.kind /\ \A s \in Rules : s # r => heard'[s] = heard[s]
      BY <1>0, <2>1, <2>2 DEF TypeOK
    <2>4. TypeOK'
      BY <1>0, <2>1, <2>2 DEF TypeOK
    <2>p. PassInv' /\ NoFalseAlarm'
      BY <1>0, <2>1, PassSame, AlarmSame
    <2>5. TodoUnsent' /\ RungInv'
      BY <1>0, <2>1 DEF TodoUnsent, RungInv, Exists
    <2>6. TodoTold'
      BY <1>0, <2>1, <2>2, <2>3 DEF TypeOK, TodoTold
    <2>7. SendingInv' /\ StateIsTold'
      BY <1>0, <2>1, <2>2, <2>3 DEF SendingInv, StateIsTold, Told, Exists
    <2> QED BY <2>4, <2>p, <2>5, <2>6, <2>7 DEF IInv
  <1>2. CASE DeliveryFails
    <2>1. /\ sending # Nothing /\ sending' = Nothing
          /\ missed' = missed \cup {sending.rule}
          /\ faults' = faults + 1 /\ faults < MaxFaults
          /\ UNCHANGED <<state, fired, value, snap, todo, measured, heard, rung, since>>
      BY <1>2 DEF DeliveryFails
    <2>2. sending.rule \in Rules
      BY <1>0, <2>1, MessageFacts
    <2>3. TypeOK'
      BY <1>0, <2>1, <2>2, AlertAssumption DEF TypeOK, AlertAssumption
    <2>p. PassInv' /\ NoFalseAlarm'
      BY <1>0, <2>1, PassSame, AlarmSame
    <2>4. TodoUnsent' /\ RungInv' /\ TodoTold'
      BY <1>0, <2>1 DEF TodoUnsent, RungInv, Exists, TodoTold
    <2>5. SendingInv' /\ StateIsTold'
      BY <1>0, <2>1 DEF SendingInv, StateIsTold, Told, Exists
    <2> QED BY <2>3, <2>p, <2>4, <2>5 DEF IInv
  <1>3. CASE PassFails \/ Crash
    <2>1. /\ todo' = {} /\ sending' = Nothing
          /\ missed' = IF sending = Nothing THEN missed ELSE missed \cup {sending.rule}
          /\ faults' = faults + 1 /\ faults < MaxFaults
          /\ UNCHANGED <<state, fired, value, snap, measured, heard, rung, since>>
      BY <1>3 DEF PassFails, Crash
    <2>2. sending # Nothing => sending.rule \in Rules
      BY <1>0, MessageFacts
    <2>3. TypeOK'
      BY <1>0, <2>1, <2>2, AlertAssumption DEF TypeOK, AlertAssumption
    <2>p. PassInv' /\ NoFalseAlarm'
      BY <1>0, <2>1, PassSame, AlarmSame
    <2>4. TodoUnsent' /\ RungInv' /\ TodoTold'
      BY <1>0, <2>1 DEF TodoUnsent, RungInv, Exists, TodoTold
    <2>5. SendingInv' /\ StateIsTold'
      BY <1>0, <2>1 DEF SendingInv, StateIsTold, Told, Exists
    <2> QED BY <2>3, <2>p, <2>4, <2>5 DEF IInv
  <1> QED BY <1>1, <1>2, <1>3

LEMMA NextIInv == IInv /\ [Next]_vars => IInv'
  <1> SUFFICES ASSUME IInv, [Next]_vars PROVE IInv'
    OBVIOUS
  <1>1. CASE UNCHANGED vars
    <2> USE <1>1 DEF vars, tableVars, passVars, messageVars
    <2>1. PassInv' /\ NoFalseAlarm'
      BY PassSame, AlarmSame DEF IInv
    <2>2. TypeOK' /\ SendingInv' /\ TodoTold' /\ TodoUnsent' /\ RungInv' /\ StateIsTold'
      BY DEF IInv, TypeOK, SendingInv, TodoTold, TodoUnsent, RungInv, StateIsTold, Told, Exists
    <2> QED BY <2>1, <2>2 DEF IInv
  <1> QED
    BY <1>1, WorldPreserves, ReadPreserves, JudgePreserves, EndPreserves DEF Next, PassStep

\* IInv is inductive, hence an invariant.
LEMMA Invariance == Spec => []IInv
  BY InitIInv, NextIInv, PTL DEF Spec

----------------------------------------------------------------------------
\* Every variable keeps its type.
THEOREM TypeCorrect == Spec => []TypeOK
  <1>1. IInv => TypeOK
    BY DEF IInv
  <1> QED BY <1>1, Invariance, PTL

\* For any rules and any failures the destination knows the state of a rule
\* whose last message was not lost.
THEOREM DestinationKnows == Spec => []StateIsTold
  <1>1. IInv => StateIsTold
    BY DEF IInv
  <1> QED BY <1>1, Invariance, PTL

\* For any metrics, moving at any moment, messages are true of a moment of the
\* pass that sends them.
THEOREM MessagesAreTrue == Spec => []NoFalseAlarm
  <1>1. IInv => NoFalseAlarm
    BY DEF IInv
  <1> QED BY <1>1, Invariance, PTL

\* An alarm is repeated within a day only when the rule was resolved in between.
THEOREM DailyAtMost == Spec => AtMostDaily
  <1>1. IInv /\ [Next]_vars => [\A r \in Rules : Repeats(r) => r \in missed]_vars
    <2> SUFFICES ASSUME IInv, Next, NEW r \in Rules, Repeats(r) PROVE r \in missed
      OBVIOUS
    <2>1. sending' # sending /\ sending' # Nothing
      BY AlertAssumption DEF Repeats, AlertAssumption
    <2>2. PICK s \in Rules : Judge(s)
      BY <2>1 DEF Next, PassStep, CreateRule, DeleteRule, DayPasses, MetricMoves, Load, Measure,
         Deliver, DeliveryFails, PassFails, Crash, messageVars
    <2> QED BY <2>2, JudgePreserves
  <1> QED BY <1>1, Invariance, PTL DEF Spec, AtMostDaily
=============================================================================
