------------------------- MODULE UsageAlertsProofs -------------------------
(***************************************************************************)
(* The safety properties of UsageAlerts, for any number of rules, of runs  *)
(* and of refusals.                                                        *)
(***************************************************************************)
EXTENDS UsageAlerts, TLAPS

LEMMA PeriodStartInStarts ==
  ASSUME NEW h \in Hours, NEW p \in Periods
  PROVE  PeriodStartAt(p, h) \in Starts
<1>1. h \in Nat /\ h > 0 /\ h =< MaxHour /\ MaxHour \in Nat /\ DayHours \in Nat \ {0}
  BY AlertsAssumption DEF AlertsAssumption, Hours
<1>2. h - 1 \in Starts
  BY <1>1 DEF Starts
<1>3. DayHours * (h \div DayHours) \in Starts
  BY <1>1, Z3 DEF Starts
<1> QED
  BY <1>2, <1>3 DEF PeriodStartAt

\* Tokens are counted before an hour only once they are recorded.
Counted == \A s \in Starts : before[s] <= total

\* A run evaluates a rule when its group has a value.
Ready ==
  \A k \in Runs : at[k] \notin {"idle", "fetching"} =>
    \A x \in todo[k] : value[k][x.period] # NotFetched

Raising == {"asking", "inserting", "sending"}

Raised == \A a \in Actors : at[a] \in Raising => alert[a] \in Alerts

\* Nothing is sent before its row is there; who is to send has inserted the
\* row, has not sent yet, and is alone.
Unlogged == \A k \in Keys : k \notin DOMAIN logs => mails[k] = 0

SenderOwnsRow ==
  \A a \in Actors : at[a] = "sending" =>
    alert[a].key \in DOMAIN logs /\ mails[alert[a].key] = 0

SendersDiffer ==
  \A a, b \in Actors : at[a] = "sending" /\ at[b] = "sending" /\ a # b =>
    alert[a].key # alert[b].key

Inv == TypeOK /\ Counted /\ Ready /\ Raised /\ Unlogged /\ SenderOwnsRow /\ SendersDiffer
       /\ OneAlertPerPeriod

LEMMA Bounds ==
  /\ MaxHour \in Nat /\ MaxHour > 0 /\ MaxUsage \in Nat /\ MaxChanges \in Nat
  /\ 1 \in Hours /\ 0 \in Starts /\ 0 \in 0..MaxUsage /\ 0 \in 0..MaxChanges
  /\ Hours \subseteq Nat /\ Starts \subseteq Nat
  /\ Runs \subseteq Actors /\ Refusals \subseteq Actors
  /\ Runs \intersect Refusals = {}
  /\ Shapes \subseteq [active : BOOLEAN, action : {"notify", "block", "both"},
                     period : Periods, threshold : Nat]
BY AlertsAssumption DEF AlertsAssumption, Hours, Starts, Actors

LEMMA ConsumptionBounded ==
  ASSUME TypeOK, Counted, NEW s \in Starts
  PROVE  Consumption(s) \in 0..MaxUsage
<1>1. before[s] \in 0..MaxUsage /\ total \in 0..MaxUsage /\ before[s] <= total
  BY DEF TypeOK, Counted
<1> QED
  BY <1>1, Bounds DEF Consumption

LEMMA UncleanReport ==
  ASSUME TypeOK, NEW k \in Runs
  PROVE  [report EXCEPT ![k].clean = FALSE] \in [Runs -> Reports]
<1>1. report \in [Runs -> Reports] /\ report[k] \in Reports
  BY DEF TypeOK
<1>2. [report[k] EXCEPT !.clean = FALSE] \in Reports
  BY <1>1 DEF Reports
<1> QED
  BY <1>1, <1>2

LEMMA InitInv == Init => Inv
<1> SUFFICES ASSUME Init PROVE Inv
  OBVIOUS
<1> USE DEF Init
<1>1. TypeOK
  <2>1. /\ hour \in Hours /\ total \in 0..MaxUsage /\ before \in [Starts -> 0..MaxUsage]
        /\ rules \in [Rules -> Shapes] /\ changes \in 0..MaxChanges
    BY Bounds
  <2>2. DOMAIN logs = {}
    OBVIOUS
  <2>3. /\ at \in [Actors -> {"idle", "fetching", "judging", "asking", "inserting",
                             "sending", "done"}]
        /\ todo \in [Runs -> SUBSET Snapshots]
        /\ value \in [Runs -> [Periods -> Fetched \union {NotFetched}]]
        /\ alert \in [Actors -> Alerts \union {NoAlert}]
        /\ mails \in [Keys -> Nat]
    OBVIOUS
  <2>4. NoReport \in Reports
    BY Bounds DEF NoReport, Reports
  <2> QED
    BY <2>1, <2>2, <2>3, <2>4 DEF TypeOK
<1>2. Counted /\ Ready /\ Raised /\ Unlogged /\ SenderOwnsRow /\ SendersDiffer
  BY Bounds DEF Counted, Ready, Raised, Raising, Unlogged, SenderOwnsRow, SendersDiffer, Actors
<1>3. OneAlertPerPeriod
  BY DEF OneAlertPerPeriod
<1> QED
  BY <1>1, <1>2, <1>3 DEF Inv

\* A step after which only actors are sending that were sending before.
LEMMA NoNewSender ==
  ASSUME Inv, logs' = logs, mails' = mails,
         \A a \in Actors : at'[a] = "sending" => at[a] = "sending" /\ alert'[a] = alert[a]
  PROVE  Unlogged' /\ SenderOwnsRow' /\ SendersDiffer' /\ OneAlertPerPeriod'
BY DEF Inv, Unlogged, SenderOwnsRow, SendersDiffer, OneAlertPerPeriod

\* Time, usage and the rules change nothing an actor holds.
LEMMA WorldInv ==
  ASSUME Inv, Tick \/ RecordUsage \/ \E r \in Rules : ChangeRule(r)
  PROVE  Inv'
<1> USE DEF Inv
<1>1. /\ at' = at /\ alert' = alert /\ todo' = todo /\ value' = value
      /\ logs' = logs /\ mails' = mails /\ report' = report
  BY DEF Tick, RecordUsage, ChangeRule
<1>2. /\ hour' \in Hours /\ total' \in 0..MaxUsage /\ before' \in [Starts -> 0..MaxUsage]
      /\ rules' \in [Rules -> Shapes] /\ changes' \in 0..MaxChanges
      /\ Counted'
  <2>1. CASE Tick
    BY <2>1, Bounds DEF Tick, TypeOK, Hours, Counted
  <2>2. CASE RecordUsage
    BY <2>2, Bounds DEF RecordUsage, TypeOK, Counted
  <2>3. CASE \E r \in Rules : ChangeRule(r)
    BY <2>3, Bounds DEF ChangeRule, TypeOK, Counted
  <2> QED
    BY <2>1, <2>2, <2>3
<1>3. TypeOK'
  BY <1>1, <1>2 DEF TypeOK
<1>4. Ready' /\ Raised'
  BY <1>1 DEF Ready, Raised
<1> QED
  BY <1>1, <1>2, <1>3, <1>4, NoNewSender

\* What TypeOK says of the actors, apart from the rest of the state.
ActorsTyped ==
  /\ at \in [Actors -> {"idle", "fetching", "judging", "asking", "inserting",
                        "sending", "done"}]
  /\ todo \in [Runs -> SUBSET Snapshots]
  /\ value \in [Runs -> [Periods -> Fetched \union {NotFetched}]]
  /\ alert \in [Actors -> Alerts \union {NoAlert}]
  /\ report \in [Runs -> Reports]

\* What is left to show of an actor's step that writes nothing.
LEMMA ActorStep ==
  ASSUME Inv, UNCHANGED <<hour, total, before, rules, changes, logs, mails>>,
         ActorsTyped',
         \A a \in Actors : at'[a] = "sending" => at[a] = "sending" /\ alert'[a] = alert[a],
         \A a \in Actors : at'[a] \in Raising => alert'[a] \in Alerts,
         \A k \in Runs : at'[k] \notin {"idle", "fetching"} =>
           \A x \in todo'[k] : value'[k][x.period] # NotFetched
  PROVE  Inv'
<1>1. TypeOK' /\ Counted'
  BY DEF Inv, TypeOK, ActorsTyped, Counted
<1>2. Ready' /\ Raised'
  BY DEF Ready, Raised
<1> QED
  BY <1>1, <1>2, NoNewSender DEF Inv

LEMMA CheckThresholdsInv ==
  ASSUME Inv, NEW k \in Runs, CheckThresholds(k)
  PROVE  Inv'
<1> USE DEF Inv
<1>1. NotifyRules \subseteq Snapshots
  BY Bounds DEF NotifyRules, Snapshots, TypeOK
<1>2. \A x \in NotifyRules : <<x.rule, PeriodStart(x.period)>> \in Keys
  BY <1>1, PeriodStartInStarts DEF PeriodStart, Keys, Snapshots, TypeOK
<1>3. \A x \in NotifyRules : <<x.rule, hour - 1>> \in Keys
  BY <1>1, Bounds DEF Keys, Snapshots, TypeOK, Hours, Starts
<1>4. report' \in [Runs -> Reports]
  <2> DEFINE due == {<<x.rule, PeriodStart(x.period)>> : x \in {x \in NotifyRules : Reached(x)}}
             over == {<<x.rule, hour - 1>> :
                       x \in {x \in NotifyRules : x.period = "hour" /\ LastHour >= x.threshold}}
             new == [began |-> hour, clean |-> TRUE, due |-> due, over |-> over]
  <2>1. due \subseteq Keys /\ over \subseteq Keys
    BY <1>2, <1>3 DEF TypeOK
  <2>2. new \in Reports
    <3> HIDE DEF due, over
    <3> QED
      BY <2>1 DEF Reports, TypeOK
  <2>3. report' = [report EXCEPT ![k] = new]
    BY DEF CheckThresholds
  <2> HIDE DEF new
  <2> QED
    BY <2>2, <2>3 DEF TypeOK
<1>5. \/ at' = [at EXCEPT ![k] = "judging"] /\ NotifyRules = {}
      \/ at' = [at EXCEPT ![k] = "fetching"]
  BY DEF CheckThresholds
<1>6. todo' = [todo EXCEPT ![k] = NotifyRules] /\ value' = value /\ alert' = alert
  BY DEF CheckThresholds
<1>7. ActorsTyped'
  BY <1>1, <1>4, <1>5, <1>6, Bounds DEF ActorsTyped, TypeOK
<1>8. \A q \in Runs : at'[q] \notin {"idle", "fetching"} =>
        \A x \in todo'[q] : value'[q][x.period] # NotFetched
  BY <1>5, <1>6, Bounds DEF Ready, TypeOK
<1>9. \A a \in Actors : at'[a] \in Raising => at[a] = at'[a]
  BY <1>5 DEF Raising, TypeOK
<1> HIDE DEF Inv
<1> QED
  BY <1>6, <1>7, <1>8, <1>9, ActorStep DEF CheckThresholds, Raising, Raised, Inv

LEMMA FetchInv ==
  ASSUME Inv, NEW k \in Runs, NEW p \in Periods, FetchGroup(k, p) \/ FetchFails(k, p)
  PROVE  Inv'
<1> USE DEF Inv
<1>1. /\ at[k] = "fetching" /\ alert' = alert
      /\ at' = [at EXCEPT ![k] = IF Unfetched(k) = {p} THEN "judging" ELSE @]
  BY DEF FetchGroup, FetchFails, GroupDealtWith
<1>2. PeriodStart(p) \in Starts
  BY PeriodStartInStarts DEF PeriodStart, TypeOK
<1>3. Consumption(PeriodStart(p)) \in 0..MaxUsage
  BY <1>2, ConsumptionBounded
<1>4. /\ todo' \in [Runs -> SUBSET Snapshots] /\ report' \in [Runs -> Reports]
      /\ value' \in [Runs -> [Periods -> Fetched \union {NotFetched}]]
      /\ \A q \in Runs \ {k} : todo'[q] = todo[q] /\ value'[q] = value[q]
      /\ todo'[k] \subseteq todo[k]
      /\ \A x \in todo'[k] : x.period \in Unfetched(k) \ {p} \/ value'[k][x.period] # NotFetched
  <2>1. CASE FetchGroup(k, p)
    <3> DEFINE new == [start |-> PeriodStart(p), tokens |-> Consumption(PeriodStart(p))]
    <3>1. new \in Fetched /\ new # NotFetched
      BY <1>2, <1>3, Bounds DEF Fetched, NotFetched
    <3>2. value' = [value EXCEPT ![k][p] = new] /\ todo' = todo /\ report' = report
      BY <2>1 DEF FetchGroup
    <3> HIDE DEF new
    <3> QED
      BY <3>1, <3>2 DEF TypeOK, Unfetched, Snapshots
  <2>2. CASE FetchFails(k, p)
    <3>1. /\ todo' = [todo EXCEPT ![k] = {x \in @ : x.period # p}] /\ value' = value
          /\ report' = [report EXCEPT ![k].clean = FALSE]
      BY <2>2 DEF FetchFails
    <3>2. report' \in [Runs -> Reports]
      BY <3>1, UncleanReport
    <3> QED
      BY <3>1, <3>2 DEF TypeOK, Unfetched, Snapshots
  <2> QED
    BY <2>1, <2>2
<1>5. ActorsTyped'
  BY <1>1, <1>4 DEF ActorsTyped, TypeOK
<1>6. \A q \in Runs : at'[q] \notin {"idle", "fetching"} =>
        \A x \in todo'[q] : value'[q][x.period] # NotFetched
  BY <1>1, <1>4, Bounds DEF Ready, TypeOK
<1>7. \A a \in Actors : at'[a] \in Raising => at[a] = at'[a]
  BY <1>1 DEF Raising, TypeOK
<1>8. UNCHANGED <<hour, total, before, rules, changes, logs, mails>>
  BY DEF FetchGroup, FetchFails, GroupDealtWith
<1> HIDE DEF Inv
<1> QED
  BY <1>1, <1>5, <1>6, <1>7, <1>8, ActorStep DEF Raising, Raised, Inv

LEMMA EndRunInv ==
  ASSUME Inv, NEW k \in Runs, EndRun(k)
  PROVE  Inv'
<1> USE DEF Inv
<1>1. /\ at' = [at EXCEPT ![k] = "done"] /\ alert' = alert
      /\ todo' = todo /\ todo[k] = {}
      /\ value' = [value EXCEPT ![k] = [p \in Periods |-> NotFetched]]
      /\ report' = report \/ report' = [report EXCEPT ![k] = NoReport]
  BY DEF EndRun
<1>2. NoReport \in Reports
  BY Bounds DEF NoReport, Reports
<1>3. ActorsTyped'
  BY <1>1, <1>2, Bounds DEF ActorsTyped, TypeOK
<1>4. \A q \in Runs : at'[q] \notin {"idle", "fetching"} =>
        \A x \in todo'[q] : value'[q][x.period] # NotFetched
  BY <1>1, Bounds DEF Ready, TypeOK
<1>5. \A a \in Actors : at'[a] \in Raising => at[a] = at'[a]
  BY <1>1 DEF Raising, TypeOK
<1>6. UNCHANGED <<hour, total, before, rules, changes, logs, mails>>
  BY DEF EndRun
<1> HIDE DEF Inv
<1> QED
  BY <1>1, <1>3, <1>4, <1>5, <1>6, ActorStep DEF Raising, Raised, Inv

\* What Leave does to the actors.
LEMMA LeaveEffect ==
  ASSUME Inv, NEW a \in Actors, at[a] \in Raising, Leave(a)
  PROVE  /\ at' \in [Actors -> {"idle", "fetching", "judging", "asking", "inserting",
                               "sending", "done"}]
         /\ alert' \in [Actors -> Alerts \union {NoAlert}]
         /\ at'[a] \in {"judging", "done"}
         /\ \A b \in Actors \ {a} : at'[b] = at[b] /\ alert'[b] = alert[b]
         /\ \A k \in Runs : at'[k] \notin {"idle", "fetching"} =>
              at[k] \notin {"idle", "fetching"}
BY Bounds DEF Leave, Inv, TypeOK, Raising

LEMMA EvaluateRuleInv ==
  ASSUME Inv, NEW k \in Runs, NEW x \in todo[k], EvaluateRule(k, x)
  PROVE  Inv'
<1> USE DEF Inv
<1> DEFINE y == Evaluated(k, x)
<1>1. /\ at[k] = "judging" /\ todo' = [todo EXCEPT ![k] = @ \ {x}]
      /\ value' = value /\ report' = report
      /\ \/ at' = at /\ alert' = alert
         \/ at' = [at EXCEPT ![k] = "inserting"] /\ alert' = [alert EXCEPT ![k] = y]
  BY DEF EvaluateRule
<1>2. x \in Snapshots /\ x.rule \in Rules /\ x.period \in Periods /\ x.threshold \in Nat
  BY DEF TypeOK, Snapshots
<1>3. PeriodStart(x.period) \in Starts
  BY <1>2, PeriodStartInStarts DEF PeriodStart, TypeOK
<1>4. value[k][x.period] \in Fetched
  BY <1>1, <1>2 DEF Ready, TypeOK
<1>5. y \in Alerts
  BY <1>2, <1>3, <1>4 DEF Evaluated, Alerts, Keys, Fetched
<1> HIDE DEF y
<1>6. ActorsTyped'
  BY <1>1, <1>5, Bounds DEF ActorsTyped, TypeOK
<1>7. \A q \in Runs : at'[q] \notin {"idle", "fetching"} =>
        \A z \in todo'[q] : value'[q][z.period] # NotFetched
  BY <1>1, Bounds DEF Ready, TypeOK
<1>8. \A a \in Actors : at'[a] \in Raising =>
        \/ at'[a] = at[a] /\ alert'[a] = alert[a]
        \/ at'[a] = "inserting" /\ alert'[a] = y
  <2>1. /\ k \in Actors /\ at \in [Actors -> {"idle", "fetching", "judging", "asking",
                                          "inserting", "sending", "done"}]
        /\ alert \in [Actors -> Alerts \union {NoAlert}]
    BY Bounds DEF TypeOK
  <2> HIDE DEF Inv
  <2> QED
    BY <1>1, <2>1
<1>9. UNCHANGED <<hour, total, before, rules, changes, logs, mails>>
  BY DEF EvaluateRule
<1> HIDE DEF Inv
<1> QED
  BY <1>1, <1>5, <1>6, <1>7, <1>8, <1>9, ActorStep DEF Raising, Raised, Inv

LEMMA RefuseInv ==
  ASSUME Inv, NEW a \in Refusals, NEW r \in Rules, NEW s \in Starts, NEW v \in 0..MaxUsage,
         Refuse(a, r, s, v)
  PROVE  Inv'
<1> USE DEF Inv
<1> DEFINE y == [key |-> <<r, s>>, actual |-> v, threshold |-> rules[r].threshold,
                 measured |-> s]
<1>1. /\ at' = [at EXCEPT ![a] = "asking"] /\ alert' = [alert EXCEPT ![a] = y]
      /\ todo' = todo /\ value' = value /\ report' = report
      /\ UNCHANGED <<hour, total, before, rules, changes, logs, mails>>
  BY DEF Refuse
<1>2. rules[r].threshold \in Nat
  BY Bounds DEF TypeOK
<1>3. y \in Alerts
  BY <1>2 DEF Alerts, Keys
<1> HIDE DEF y
<1>4. ActorsTyped'
  BY <1>1, <1>3, Bounds DEF ActorsTyped, TypeOK
<1>5. \A k \in Runs : at'[k] = at[k]
  BY <1>1, Bounds DEF TypeOK
<1>6. \A b \in Actors : at'[b] \in Raising =>
        \/ at'[b] = at[b] /\ alert'[b] = alert[b]
        \/ at'[b] = "asking" /\ alert'[b] = y
  <2>1. /\ a \in Actors /\ at \in [Actors -> {"idle", "fetching", "judging", "asking",
                                          "inserting", "sending", "done"}]
        /\ alert \in [Actors -> Alerts \union {NoAlert}]
    BY Bounds DEF TypeOK
  <2> HIDE DEF Inv
  <2> QED
    BY <1>1, <2>1
<1>7. \A k \in Runs : at'[k] \notin {"idle", "fetching"} =>
           \A x \in todo'[k] : value'[k][x.period] # NotFetched
  BY <1>1, <1>5 DEF Ready
<1> HIDE DEF Inv
<1> QED
  BY <1>1, <1>3, <1>4, <1>6, <1>7, ActorStep DEF Raising, Raised, Inv

\* An actor leaves its alert, or goes on to insert it, without a write.
LEMMA NoWriteInv ==
  ASSUME Inv, NEW a \in Actors,
         \/ a \in Refusals /\ NotifyLimitExceeded(a)
         \/ InsertRefused(a)
         \/ QueryFails(a)
  PROVE  Inv'
<1>1. at[a] \in {"asking", "inserting"} /\ at[a] \in Raising
  BY DEF NotifyLimitExceeded, InsertRefused, QueryFails, Raising
<1>2. /\ UNCHANGED <<hour, total, before, rules, changes, logs, mails, todo, value>>
      /\ report' \in [Runs -> Reports]
  <2>1. UNCHANGED <<hour, total, before, rules, changes, logs, todo, value, mails>>
    BY DEF NotifyLimitExceeded, InsertRefused, QueryFails
  <2>2. \/ report' = report
        \/ a \in Runs /\ report' = [report EXCEPT ![a].clean = FALSE]
    BY DEF NotifyLimitExceeded, InsertRefused, QueryFails
  <2> QED
    BY <2>1, <2>2, UncleanReport DEF Inv, TypeOK
<1>3. CASE Leave(a)
  <2>1. ActorsTyped'
    BY <1>1, <1>2, <1>3, LeaveEffect DEF ActorsTyped, Inv, TypeOK
  <2>2. \A b \in Actors : at'[b] \in Raising => at'[b] = at[b] /\ alert'[b] = alert[b]
    BY <1>1, <1>3, LeaveEffect DEF Raising
  <2>3. \A k \in Runs : at'[k] \notin {"idle", "fetching"} =>
           \A x \in todo'[k] : value'[k][x.period] # NotFetched
    BY <1>1, <1>2, <1>3, LeaveEffect DEF Inv, Ready
  <2> QED
    BY <1>2, <2>1, <2>2, <2>3, ActorStep DEF Raising, Raised, Inv
<1>4. CASE a \in Refusals /\ at[a] = "asking" /\ at' = [at EXCEPT ![a] = "inserting"]
           /\ alert' = alert
  <2>1. ActorsTyped'
    BY <1>2, <1>4 DEF ActorsTyped, Inv, TypeOK
  <2>2. \A k \in Runs : at'[k] = at[k]
    BY <1>4, Bounds DEF Inv, TypeOK
  <2>3. \A b \in Actors : at'[b] \in Raising => at[b] \in Raising
    BY <1>4 DEF Raising, Inv, TypeOK
  <2>4. \A b \in Actors : at'[b] = "sending" => at[b] = "sending"
    BY <1>4 DEF Inv, TypeOK
  <2> QED
    BY <1>2, <1>4, <2>1, <2>2, <2>3, <2>4, ActorStep DEF Ready, Raised, Inv
<1> QED
  BY <1>3, <1>4 DEF NotifyLimitExceeded, InsertRefused, QueryFails

\* Only InsertLog makes a sender, and it does so for a key that had no row.
LEMMA InsertLogInv ==
  ASSUME Inv, NEW a \in Actors, InsertLog(a)
  PROVE  Inv'
<1>1. /\ at[a] = "inserting" /\ at[a] \in Raising /\ alert[a].key \notin DOMAIN logs
      /\ UNCHANGED <<hour, total, before, rules, changes, todo, value, mails, report>>
  BY DEF InsertLog, InsertAllowed, Raising
<1>2. alert[a] \in Alerts /\ alert[a].key \in Keys
  BY <1>1 DEF Inv, Raised, Alerts
<1>3. Row(a) \in [actual : 0..MaxUsage, threshold : Nat, measured : Starts, crossed : BOOLEAN]
  BY <1>2 DEF Row, Alerts
<1>4. /\ DOMAIN logs' = DOMAIN logs \union {alert[a].key}
      /\ \A k \in DOMAIN logs' : logs'[k] \in {Row(a)} \union {logs[q] : q \in DOMAIN logs}
  <2>1. logs' = [k \in DOMAIN logs \union {alert[a].key} |->
                   IF k = alert[a].key THEN Row(a) ELSE logs[k]]
    BY DEF InsertLog
  <2> QED
    BY <2>1
<1>5. \/ at' = [at EXCEPT ![a] = "sending"] /\ alert' = alert
      \/ Leave(a)
  BY DEF InsertLog
<1>6. /\ at' \in [Actors -> {"idle", "fetching", "judging", "asking", "inserting",
                            "sending", "done"}]
      /\ alert' \in [Actors -> Alerts \union {NoAlert}]
      /\ \A b \in Actors \ {a} : at'[b] = at[b] /\ alert'[b] = alert[b]
      /\ at'[a] \in {"judging", "sending", "done"}
      /\ at'[a] = "sending" => alert'[a] = alert[a]
      /\ \A k \in Runs : at'[k] \notin {"idle", "fetching"} =>
           at[k] \notin {"idle", "fetching"}
  <2>1. CASE Leave(a)
    BY <1>1, <2>1, LeaveEffect
  <2>2. CASE at' = [at EXCEPT ![a] = "sending"] /\ alert' = alert
    BY <1>1, <2>2, Bounds DEF Inv, TypeOK
  <2> QED
    BY <1>5, <2>1, <2>2
<1>7. TypeOK' /\ Counted'
  <2>1. /\ DOMAIN logs' \subseteq Keys
        /\ \A k \in DOMAIN logs' : logs'[k] \in [actual : 0..MaxUsage, threshold : Nat,
                                                 measured : Starts, crossed : BOOLEAN]
    BY <1>2, <1>3, <1>4 DEF Inv, TypeOK
  <2>2. Counted'
    BY <1>1 DEF Inv, Counted
  <2> QED
    BY <1>1, <1>6, <2>1, <2>2 DEF Inv, TypeOK
<1>8. Ready'
  BY <1>1, <1>6 DEF Inv, Ready
<1>9. Raised'
  BY <1>2, <1>6 DEF Inv, Raised, Raising
<1>10. Unlogged' /\ OneAlertPerPeriod'
  BY <1>1, <1>4 DEF Inv, Unlogged, OneAlertPerPeriod
<1>11. mails[alert[a].key] = 0
  BY <1>1, <1>2 DEF Inv, Unlogged
<1>12. SenderOwnsRow'
  BY <1>1, <1>4, <1>6, <1>11 DEF Inv, SenderOwnsRow
<1>13. SendersDiffer'
  BY <1>1, <1>6 DEF Inv, SenderOwnsRow, SendersDiffer
<1> QED
  BY <1>7, <1>8, <1>9, <1>10, <1>12, <1>13 DEF Inv

LEMMA SendAlertInv ==
  ASSUME Inv, NEW a \in Actors, SendAlert(a)
  PROVE  Inv'
<1>1. /\ at[a] = "sending" /\ at[a] \in Raising /\ Leave(a)
      /\ mails' = [mails EXCEPT ![alert[a].key] = @ + 1]
      /\ UNCHANGED <<hour, total, before, rules, changes, logs, todo, value, report>>
  BY DEF SendAlert, Raising
<1>2. /\ alert[a].key \in Keys /\ alert[a].key \in DOMAIN logs
      /\ mails[alert[a].key] = 0
  BY <1>1 DEF Inv, Raised, Alerts, SenderOwnsRow
<1>3. mails \in [Keys -> Nat]
  BY DEF Inv, TypeOK
<1>4. /\ mails' \in [Keys -> Nat] /\ mails'[alert[a].key] = 1
      /\ \A k \in Keys : k # alert[a].key => mails'[k] = mails[k]
  BY <1>1, <1>2, <1>3
<1>5. TypeOK' /\ Counted'
  BY <1>1, <1>2, <1>4, LeaveEffect DEF Inv, TypeOK, Counted
<1>6. Ready'
  BY <1>1, LeaveEffect DEF Inv, Ready
<1>7. Raised'
  BY <1>1, LeaveEffect DEF Inv, Raised, Raising
<1>8. Unlogged' /\ OneAlertPerPeriod'
  BY <1>1, <1>2, <1>4 DEF Inv, Unlogged, OneAlertPerPeriod
<1>9. \A b \in Actors : at'[b] = "sending" =>
        b # a /\ at[b] = "sending" /\ alert'[b] = alert[b] /\ alert[b].key \in Keys
  BY <1>1, LeaveEffect DEF Inv, Raised, Raising, Alerts
<1>10. SenderOwnsRow' /\ SendersDiffer'
  BY <1>1, <1>4, <1>9 DEF Inv, SenderOwnsRow, SendersDiffer
<1> QED
  BY <1>5, <1>6, <1>7, <1>8, <1>10 DEF Inv

LEMMA RestartInv ==
  ASSUME Inv, Restart
  PROVE  Inv'
<1>1. /\ at' = [a \in Actors |-> IF at[a] = "idle" THEN "idle" ELSE "done"]
      /\ todo' = [k \in Runs |-> {}]
      /\ value' = [k \in Runs |-> [p \in Periods |-> NotFetched]]
      /\ alert' = [a \in Actors |-> NoAlert]
      /\ report' = [k \in Runs |-> IF at[k] = "done" THEN report[k] ELSE NoReport]
      /\ UNCHANGED <<hour, total, before, rules, changes, logs, mails>>
  BY DEF Restart
<1>2. NoReport \in Reports
  BY Bounds DEF NoReport, Reports
<1>3. ActorsTyped'
  BY <1>1, <1>2 DEF ActorsTyped, Inv, TypeOK
<1>4. \A a \in Actors : at'[a] \notin Raising
  BY <1>1 DEF Raising
<1>5. \A k \in Runs : \A x \in todo'[k] : value'[k][x.period] # NotFetched
  BY <1>1
<1> QED
  BY <1>1, <1>3, <1>4, <1>5, ActorStep DEF Raising

LEMMA NextInv == Inv /\ [Next]_vars => Inv'
<1> SUFFICES ASSUME Inv, [Next]_vars PROVE Inv'
  OBVIOUS
<1>1. CASE UNCHANGED vars
  BY <1>1 DEF vars, Inv, TypeOK, Counted, Ready, Raised, Unlogged, SenderOwnsRow,
              SendersDiffer, OneAlertPerPeriod
<1>2. CASE Tick \/ RecordUsage \/ \E r \in Rules : ChangeRule(r)
  BY <1>2, WorldInv
<1>3. CASE Restart
  BY <1>3, RestartInv
<1>4. CASE \E k \in Runs : CheckThresholds(k) \/ EndRun(k)
  BY <1>4, CheckThresholdsInv, EndRunInv
<1>5. CASE \E k \in Runs, p \in Periods : FetchGroup(k, p) \/ FetchFails(k, p)
  BY <1>5, FetchInv
<1>6. CASE \E k \in Runs : \E x \in todo[k] : EvaluateRule(k, x)
  BY <1>6, EvaluateRuleInv
<1>7. CASE \E a \in Refusals, r \in Rules, s \in Starts, v \in 0..MaxUsage : Refuse(a, r, s, v)
  BY <1>7, RefuseInv
<1>8. CASE \E a \in Refusals : NotifyLimitExceeded(a)
  BY <1>8, NoWriteInv, Bounds
<1>9. CASE \E a \in Actors : InsertLog(a) \/ InsertRefused(a) \/ QueryFails(a) \/ SendAlert(a)
  BY <1>9, NoWriteInv, InsertLogInv, SendAlertInv
<1> QED
  BY <1>1, <1>2, <1>3, <1>4, <1>5, <1>6, <1>7, <1>8, <1>9 DEF Next

THEOREM AlertInvariant == Spec => []Inv
<1>1. Init => Inv
  BY InitInv
<1>2. Inv /\ [Next]_vars => Inv'
  BY NextInv
<1> QED
  BY <1>1, <1>2, PTL DEF Spec

\* Every reachable state has the shape TypeOK describes.
THEOREM AlertTypeCorrect == Spec => []TypeOK
<1>1. Inv => TypeOK
  BY DEF Inv
<1> QED
  BY <1>1, AlertInvariant, PTL

\* No rule is alerted for twice in a period, however many runs and refused
\* requests there are and whenever the process stops.
THEOREM OneAlertPerPeriodHolds == Spec => []OneAlertPerPeriod
<1>1. Inv => OneAlertPerPeriod
  BY DEF Inv
<1> QED
  BY <1>1, AlertInvariant, PTL
---------------------------------------------------------------------------
(* What alerts say, and whom runs leave out *)

\* What an alert says of its rule is so, and stays so: consumption counted from
\* a start that has passed only grows.
Earned(x) ==
  /\ x.threshold <= x.actual
  /\ x.measured <= hour
  /\ x.actual <= Consumption(x.measured)

\* What a run has fetched it fetched for the period of an hour it has seen, and
\* for the present one if none has passed since it began.
FetchedTruly ==
  \A k \in Runs :
    /\ report[k].began <= hour
    /\ \A p \in Periods : value[k][p] # NotFetched =>
         /\ at[k] \notin {"idle", "done"}
         /\ value[k][p].start <= hour
         /\ value[k][p].tokens <= Consumption(value[k][p].start)
         /\ value[k][p].start = PeriodStart(p) \/ report[k].began < hour

RaisedTruly ==
  \A a \in Actors : at[a] \in Raising =>
    /\ Earned(alert[a])
    /\ \/ alert[a].measured = alert[a].key[2]
       \/ a \in Runs /\ report[a].began < hour

LoggedTruly == AlertIsEarned /\ \A k \in DOMAIN logs : logs[k].measured <= hour

Truths == FetchedTruly /\ RaisedTruly /\ LoggedTruly

LEMMA PeriodHasBegun ==
  ASSUME NEW h \in Hours, NEW p \in Periods
  PROVE  PeriodStartAt(p, h) <= h
<1>1. h \in Nat /\ h > 0 /\ DayHours \in Nat \ {0}
  BY AlertsAssumption DEF AlertsAssumption, Hours
<1>2. DayHours * (h \div DayHours) <= h
  BY <1>1, Z3
<1> QED
  BY <1>1, <1>2 DEF PeriodStartAt

\* What the types say of single values.
LEMMA Kinds ==
  ASSUME Inv
  PROVE  /\ hour \in Nat /\ total \in Nat /\ before \in [Starts -> Nat] /\ Starts \subseteq Nat
         /\ \A k \in Runs : report[k].began \in Nat
         /\ \A k \in Runs, p \in Periods : value[k][p] # NotFetched =>
              value[k][p].start \in Starts /\ value[k][p].tokens \in Nat
         /\ \A a \in Actors : at[a] \in Raising =>
              /\ alert[a].measured \in Starts /\ alert[a].key \in Keys
              /\ alert[a].actual \in Nat /\ alert[a].threshold \in Nat
         /\ \A k \in DOMAIN logs :
              logs[k].measured \in Starts /\ logs[k].actual \in Nat /\ logs[k].threshold \in Nat
<1>1. hour \in Nat /\ total \in Nat /\ before \in [Starts -> Nat] /\ Starts \subseteq Nat
  BY Bounds DEF Inv, TypeOK
<1>2. ASSUME NEW k \in Runs PROVE report[k].began \in Nat
  BY Bounds DEF Inv, TypeOK, Reports
<1>3. ASSUME NEW k \in Runs, NEW p \in Periods, value[k][p] # NotFetched
      PROVE  value[k][p].start \in Starts /\ value[k][p].tokens \in Nat
  <2>1. value[k][p] \in Fetched
    BY <1>3 DEF Inv, TypeOK
  <2> QED
    BY <2>1, Bounds DEF Fetched
<1>4. ASSUME NEW a \in Actors, at[a] \in Raising
      PROVE  /\ alert[a].measured \in Starts /\ alert[a].key \in Keys
             /\ alert[a].actual \in Nat /\ alert[a].threshold \in Nat
  BY <1>4, Bounds DEF Inv, Raised, Alerts
<1>5. ASSUME NEW k \in DOMAIN logs
      PROVE  logs[k].measured \in Starts /\ logs[k].actual \in Nat /\ logs[k].threshold \in Nat
  BY Bounds DEF Inv, TypeOK
<1> QED
  BY <1>1, <1>2, <1>3, <1>4, <1>5

\* Hours pass, and what was used since a start that has passed only grows.
LEMMA Later ==
  ASSUME Inv, [Next]_vars
  PROVE  /\ hour' \in Nat /\ hour <= hour'
         /\ \A s \in Starts : Consumption(s) \in Int /\ Consumption(s)' \in Int
         /\ \A s \in Starts : s <= hour => Consumption(s) <= Consumption(s)'
<1>1. CASE Tick
  BY <1>1, Kinds DEF Tick, Consumption
<1>2. CASE RecordUsage
  BY <1>2, Kinds DEF RecordUsage, Consumption
<1>3. CASE UNCHANGED <<hour, total, before>>
  BY <1>3, Kinds DEF Consumption
<1> QED
  BY <1>1, <1>2, <1>3 DEF Next, vars, Restart, ChangeRule, CheckThresholds, EndRun, FetchGroup,
     FetchFails, GroupDealtWith, EvaluateRule, Refuse, NotifyLimitExceeded, InsertLog,
     InsertRefused, QueryFails, SendAlert

\* Time, usage and edits of rules take the truth of nothing.
LEMMA WorldTruths ==
  ASSUME Inv, Truths, [Next]_vars,
         UNCHANGED <<logs, at, value, alert, report>>,
         hour' = hour \/ hour < hour'
  PROVE  Truths'
<1>1. FetchedTruly'
  <2>1. ASSUME NEW k \in Runs PROVE report[k].began <= hour'
    BY Kinds, Later DEF Truths, FetchedTruly
  <2>2. ASSUME NEW k \in Runs, NEW p \in Periods, value[k][p] # NotFetched
        PROVE  /\ value[k][p].start <= hour'
               /\ value[k][p].tokens <= Consumption(value[k][p].start)'
               /\ value[k][p].start = PeriodStart(p)' \/ report[k].began < hour'
    <3>1. /\ value[k][p].start \in Starts /\ value[k][p].tokens \in Nat
          /\ report[k].began \in Nat /\ hour \in Nat /\ value[k][p].start \in Nat
      BY <2>2, Kinds
    <3>2. /\ value[k][p].start <= hour /\ report[k].began <= hour
          /\ value[k][p].tokens <= Consumption(value[k][p].start)
          /\ value[k][p].start = PeriodStart(p) \/ report[k].began < hour
      BY <2>2 DEF Truths, FetchedTruly
    <3>3. value[k][p].tokens <= Consumption(value[k][p].start)'
      <4> DEFINE s == value[k][p].start
      <4>1. s' = s
        OBVIOUS
      <4>2. Consumption(s) <= Consumption(s)'
        BY <3>1, <3>2, <4>1, Later
      <4> QED
        BY <3>1, <3>2, <4>2, Later
    <3>4. hour' = hour => PeriodStart(p)' = PeriodStart(p)
      BY DEF PeriodStart, PeriodStartAt
    <3> QED
      BY <3>1, <3>2, <3>3, <3>4, Later
  <2> QED
    BY <2>1, <2>2 DEF Truths, FetchedTruly
<1>2. RaisedTruly'
  <2>1. ASSUME NEW a \in Actors, at[a] \in Raising
        PROVE  /\ Earned(alert[a])'
               /\ \/ alert[a].measured = alert[a].key[2]
                  \/ a \in Runs /\ report[a].began < hour'
    <3>1. /\ alert[a].measured \in Starts /\ alert[a].actual \in Nat
          /\ alert[a].measured \in Nat /\ hour \in Nat
          /\ a \in Runs => report[a].began \in Nat
      BY <2>1, Kinds
    <3>2. /\ Earned(alert[a])
          /\ \/ alert[a].measured = alert[a].key[2]
             \/ a \in Runs /\ report[a].began < hour
      BY <2>1 DEF Truths, RaisedTruly
    <3>3. Consumption(alert[a].measured) <= Consumption(alert[a].measured)'
      BY <3>1, <3>2, Later DEF Earned
    <3> QED
      BY <3>1, <3>2, <3>3, Later DEF Earned
  <2> QED
    BY <2>1 DEF RaisedTruly
<1>3. LoggedTruly'
  <2>1. ASSUME NEW k \in DOMAIN logs
        PROVE  /\ logs[k].actual <= Consumption(logs[k].measured)'
               /\ logs[k].measured <= hour'
    <3>1. /\ logs[k].measured \in Starts /\ logs[k].actual \in Nat
          /\ logs[k].measured \in Nat /\ hour \in Nat
      BY Kinds
    <3>2. logs[k].actual <= Consumption(logs[k].measured) /\ logs[k].measured <= hour
      BY DEF Truths, LoggedTruly, AlertIsEarned
    <3>3. Consumption(logs[k].measured) <= Consumption(logs[k].measured)'
      BY <3>1, <3>2, Later
    <3> QED
      BY <3>1, <3>2, <3>3, Later
  <2> QED
    BY <2>1 DEF Truths, LoggedTruly, AlertIsEarned
<1> QED
  BY <1>1, <1>2, <1>3 DEF Truths

\* What is left to show of an actor's step: what it fetches is the consumption
\* of the present period, and what it raises is earned.
LEMMA ActorTruths ==
  ASSUME Inv, Truths, UNCHANGED <<hour, total, before>>,
         \A k \in Runs : report'[k].began \in {report[k].began, 1, hour},
         \A k \in Runs, p \in Periods : value'[k][p] # NotFetched =>
           /\ at'[k] \notin {"idle", "done"}
           /\ \/ value'[k][p] = value[k][p] /\ report'[k].began = report[k].began
              \/ /\ value'[k][p].start = PeriodStart(p)
                 /\ value'[k][p].tokens <= Consumption(PeriodStart(p)),
         \A a \in Actors : at'[a] \in Raising =>
           \/ /\ at[a] \in Raising /\ alert'[a] = alert[a]
              /\ a \in Runs => report'[a].began = report[a].began
           \/ /\ alert'[a].threshold <= alert'[a].actual
              /\ alert'[a].measured <= hour
              /\ alert'[a].actual <= Consumption(alert'[a].measured)
              /\ \/ alert'[a].measured = alert'[a].key[2]
                 \/ a \in Runs /\ report'[a].began < hour
  PROVE  FetchedTruly' /\ RaisedTruly'
<1>1. /\ \A s : Consumption(s)' = total - before[s]
      /\ \A p : PeriodStart(p)' = PeriodStart(p)
      /\ hour' = hour /\ hour \in Nat /\ hour > 0
  BY Bounds DEF Consumption, PeriodStart, Inv, TypeOK, Hours
<1>2. FetchedTruly'
  <2>1. ASSUME NEW k \in Runs PROVE report'[k].began <= hour
    BY <1>1, Kinds DEF Truths, FetchedTruly
  <2>2. ASSUME NEW k \in Runs, NEW p \in Periods, value'[k][p] # NotFetched
        PROVE  /\ at'[k] \notin {"idle", "done"}
               /\ value'[k][p].start <= hour
               /\ value'[k][p].tokens <= total - before[value'[k][p].start]
               /\ value'[k][p].start = PeriodStart(p) \/ report'[k].began < hour
    <3>1. CASE value'[k][p] = value[k][p] /\ report'[k].began = report[k].began
      BY <2>2, <3>1 DEF Truths, FetchedTruly, Consumption
    <3>2. CASE /\ value'[k][p].start = PeriodStart(p)
               /\ value'[k][p].tokens <= Consumption(PeriodStart(p))
      BY <2>2, <3>2, PeriodHasBegun DEF PeriodStart, Consumption, Inv, TypeOK
    <3> QED
      BY <2>2, <3>1, <3>2
  <2> QED
    BY <1>1, <2>1, <2>2 DEF FetchedTruly, Consumption
<1>3. RaisedTruly'
  <2>1. ASSUME NEW a \in Actors, at'[a] \in Raising
        PROVE  /\ alert'[a].threshold <= alert'[a].actual
               /\ alert'[a].measured <= hour
               /\ alert'[a].actual <= total - before[alert'[a].measured]
               /\ \/ alert'[a].measured = alert'[a].key[2]
                  \/ a \in Runs /\ report'[a].began < hour
    BY <2>1 DEF Truths, RaisedTruly, Earned, Consumption
  <2> QED
    BY <1>1, <2>1 DEF RaisedTruly, Earned, Consumption
<1> QED
  BY <1>2, <1>3

\* The log is as true as before, and as the alert that is inserted.
LEMMA LogTruths ==
  ASSUME Inv, Truths, UNCHANGED <<hour, total, before>>,
         logs' = logs \/ \E a \in Actors : InsertLog(a)
  PROVE  LoggedTruly'
<1>1. ASSUME NEW k \in DOMAIN logs'
      PROVE  /\ logs'[k].threshold <= logs'[k].actual
             /\ logs'[k].actual <= total - before[logs'[k].measured]
             /\ logs'[k].measured = k[2] \/ logs'[k].crossed
             /\ logs'[k].measured <= hour
  <2>1. CASE k \in DOMAIN logs /\ logs'[k] = logs[k]
    BY <2>1 DEF Truths, LoggedTruly, AlertIsEarned, Consumption
  <2>2. ASSUME NEW a \in Actors, InsertLog(a), k = alert[a].key
        PROVE  /\ logs'[k].threshold <= logs'[k].actual
               /\ logs'[k].actual <= total - before[logs'[k].measured]
               /\ logs'[k].measured = k[2] \/ logs'[k].crossed
               /\ logs'[k].measured <= hour
    <3>1. logs'[k] = Row(a)
      BY <2>2 DEF InsertLog
    <3>2. /\ Earned(alert[a])
          /\ \/ alert[a].measured = alert[a].key[2]
             \/ a \in Runs /\ report[a].began < hour
      BY <2>2 DEF Truths, RaisedTruly, InsertLog, Raising
    <3>3. a \in Runs /\ report[a].began < hour => logs'[k].crossed
      <4> DEFINE crossed == a \in Runs /\ report[a].began < hour
      <4>1. Row(a) = [actual |-> alert[a].actual, threshold |-> alert[a].threshold,
                      measured |-> alert[a].measured, crossed |-> crossed]
        BY DEF Row
      <4> HIDE DEF crossed
      <4>2. Row(a).crossed = crossed
        BY <4>1
      <4>3. crossed => logs'[k].crossed
        BY <3>1, <4>2, Zenon
      <4> QED
        BY <4>3 DEF crossed
    <3>4. /\ logs'[k].threshold = alert[a].threshold /\ logs'[k].actual = alert[a].actual
          /\ logs'[k].measured = alert[a].measured
      BY <3>1 DEF Row
    <3>5. logs'[k].measured = k[2] \/ logs'[k].crossed
      BY <2>2, <3>2, <3>3, <3>4, Zenon
    <3> QED
      BY <3>2, <3>4, <3>5 DEF Earned, Consumption
  <2>3. ASSUME NEW a \in Actors, InsertLog(a)
        PROVE  k = alert[a].key \/ (k \in DOMAIN logs /\ logs'[k] = logs[k])
    BY <2>3 DEF InsertLog
  <2> QED
    BY <2>1, <2>2, <2>3
<1> QED
  BY <1>1 DEF LoggedTruly, AlertIsEarned, Consumption

\* The present period has a start that has passed.
LEMMA NowCounted ==
  ASSUME Inv, NEW p \in Periods
  PROVE  /\ PeriodStart(p) \in Starts /\ PeriodStart(p) <= hour
         /\ Consumption(PeriodStart(p)) \in Nat
<1>1. TypeOK /\ Counted /\ hour \in Hours
  BY DEF Inv, TypeOK
<1>2. PeriodStart(p) \in Starts /\ PeriodStart(p) <= hour
  BY <1>1, PeriodStartInStarts, PeriodHasBegun DEF PeriodStart
<1>3. Consumption(PeriodStart(p)) \in 0..MaxUsage
  BY <1>1, <1>2, ConsumptionBounded
<1> QED
  BY <1>2, <1>3, Bounds

LEMMA SameBegan ==
  ASSUME Inv, NEW k \in Runs,
         report' = report \/ report' = [report EXCEPT ![k].clean = FALSE]
  PROVE  \A j \in Runs : report'[j].began = report[j].began
<1>1. report \in [Runs -> Reports] /\ report[k] \in Reports
  BY DEF Inv, TypeOK
<1>2. [report[k] EXCEPT !.clean = FALSE].began = report[k].began
  BY <1>1 DEF Reports
<1> QED
  BY <1>1, <1>2

LEMMA TruthsInit == Init => Truths
<1> SUFFICES ASSUME Init PROVE Truths
  OBVIOUS
<1>1. FetchedTruly /\ RaisedTruly
  BY DEF Init, NoReport, FetchedTruly, RaisedTruly, Raising
<1>2. LoggedTruly
  BY DEF Init, LoggedTruly, AlertIsEarned
<1> QED
  BY <1>1, <1>2 DEF Truths

LEMMA TruthsNext ==
  ASSUME Inv, Truths, [Next]_vars
  PROVE  Truths'
<1> DEFINE Left(a) == at'[a] \notin Raising \/ (at[a] \in Raising /\ alert'[a] = alert[a])
<1>1. CASE UNCHANGED vars \/ Tick \/ RecordUsage \/ \E r \in Rules : ChangeRule(r)
  <2>1. UNCHANGED <<logs, at, value, alert, report>> /\ (hour' = hour \/ hour < hour')
    BY <1>1, Kinds DEF vars, Tick, RecordUsage, ChangeRule
  <2> QED
    BY <2>1, WorldTruths
<1>2. ASSUME NEW k \in Runs, CheckThresholds(k) PROVE Truths'
  <2>1. /\ UNCHANGED <<hour, total, before, logs, value, alert>> /\ at[k] = "idle"
        /\ \A j \in Runs : at'[j] # at[j] => j = k
        /\ at'[k] \in {"judging", "fetching"}
        /\ \A a \in Actors : at'[a] \in Raising => at[a] \in Raising /\ a # k
    BY <1>2, Bounds DEF CheckThresholds, Inv, TypeOK, Raising
  <2>2. \A j \in Runs : report'[j].began = IF j = k THEN hour ELSE report[j].began
    BY <1>2 DEF CheckThresholds, Inv, TypeOK
  <2>3. \A p \in Periods : value[k][p] = NotFetched
    BY <2>1 DEF Truths, FetchedTruly
  <2>4. \A j \in Runs, p \in Periods : value[j][p] # NotFetched =>
          at'[j] \notin {"idle", "done"} /\ report'[j].began = report[j].began
    BY <2>1, <2>2, <2>3 DEF Truths, FetchedTruly
  <2> QED
    BY <2>1, <2>2, <2>4, ActorTruths, LogTruths DEF Truths
<1>3. ASSUME NEW k \in Runs, EndRun(k) PROVE Truths'
  <2>1. /\ UNCHANGED <<hour, total, before, logs, alert>>
        /\ value' = [value EXCEPT ![k] = [p \in Periods |-> NotFetched]]
        /\ \A a \in Actors : a # k => at'[a] = at[a]
        /\ at'[k] = "done"
        /\ \A j \in Runs : report'[j].began = report[j].began \/ j = k
        /\ \A j \in Runs : report'[j].began \in {report[j].began, 1}
    BY <1>3, Bounds DEF EndRun, Inv, TypeOK, NoReport
  <2>2. \A j \in Runs, p \in Periods : value'[j][p] # NotFetched =>
          j # k /\ value'[j][p] = value[j][p]
    BY <2>1 DEF Inv, TypeOK
  <2>3. \A j \in Runs, p \in Periods : value'[j][p] # NotFetched =>
          /\ at'[j] \notin {"idle", "done"}
          /\ value'[j][p] = value[j][p] /\ report'[j].began = report[j].began
    BY <2>1, <2>2, Bounds DEF Truths, FetchedTruly
  <2>4. \A a \in Actors : at'[a] \in Raising =>
          a # k /\ at[a] \in Raising /\ alert'[a] = alert[a]
    BY <2>1 DEF Raising
  <2> QED
    BY <2>1, <2>3, <2>4, ActorTruths, LogTruths DEF Truths
<1>4. ASSUME NEW k \in Runs, NEW p \in Periods, FetchGroup(k, p) \/ FetchFails(k, p)
      PROVE  Truths'
  <2>1. /\ UNCHANGED <<hour, total, before, logs, alert>>
        /\ at[k] = "fetching" /\ at'[k] \in {"fetching", "judging"}
        /\ \A a \in Actors : a # k => at'[a] = at[a]
    BY <1>4, Bounds DEF FetchGroup, FetchFails, GroupDealtWith, Inv, TypeOK
  <2>2. \A j \in Runs : report'[j].began = report[j].began
    BY <1>4, SameBegan DEF FetchGroup, FetchFails
  <2>3. \A j \in Runs, q \in Periods :
          \/ value'[j][q] = value[j][q]
          \/ /\ j = k /\ value'[j][q].start = PeriodStart(q)
             /\ value'[j][q].tokens = Consumption(PeriodStart(q))
    BY <1>4 DEF FetchGroup, FetchFails, Inv, TypeOK
  <2>4. \A q \in Periods : Consumption(PeriodStart(q)) \in Nat
    BY NowCounted
  <2>5. \A j \in Runs, q \in Periods : value'[j][q] # NotFetched =>
          /\ at'[j] \notin {"idle", "done"}
          /\ \/ value'[j][q] = value[j][q]
             \/ /\ value'[j][q].start = PeriodStart(q)
                /\ value'[j][q].tokens <= Consumption(PeriodStart(q))
    BY <2>1, <2>3, <2>4, Bounds DEF Truths, FetchedTruly
  <2>6. \A a \in Actors : at'[a] \in Raising => at[a] \in Raising /\ alert'[a] = alert[a]
    BY <2>1 DEF Raising
  <2> QED
    BY <2>1, <2>2, <2>5, <2>6, ActorTruths, LogTruths DEF Truths
<1>5. ASSUME NEW k \in Runs, NEW x \in todo[k], EvaluateRule(k, x) PROVE Truths'
  <2> DEFINE y == Evaluated(k, x)
  <2>1. /\ UNCHANGED <<hour, total, before, logs, value, report>> /\ at[k] = "judging"
        /\ \/ at' = at /\ alert' = alert
           \/ /\ at' = [at EXCEPT ![k] = "inserting"] /\ alert' = [alert EXCEPT ![k] = y]
              /\ y.threshold <= y.actual
    BY <1>5, ZenonT(30) DEF EvaluateRule, Exceeds
  <2>2. x \in Snapshots /\ x.period \in Periods /\ value[k][x.period] # NotFetched
    BY <2>1 DEF Inv, TypeOK, Snapshots, Ready
  <2>3. /\ y.measured <= hour /\ y.actual <= Consumption(y.measured)
        /\ y.measured = y.key[2] \/ report[k].began < hour
    BY <2>2 DEF Evaluated, Truths, FetchedTruly
  <2>4. \A a \in Actors : at'[a] \in Raising =>
          \/ at[a] \in Raising /\ alert'[a] = alert[a]
          \/ a = k /\ alert'[a] = y /\ y.threshold <= y.actual
    BY <2>1, Bounds DEF Raising, Inv, TypeOK
  <2>5. \A j \in Runs, p \in Periods : value[j][p] # NotFetched => at'[j] \notin {"idle", "done"}
    BY <2>1, Bounds DEF Truths, FetchedTruly, Inv, TypeOK
  <2> HIDE DEF y
  <2> QED
    BY <2>1, <2>3, <2>4, <2>5, ActorTruths, LogTruths DEF Truths
<1>6. ASSUME NEW a \in Refusals, NEW r \in Rules, NEW s \in Starts, NEW v \in 0..MaxUsage,
             Refuse(a, r, s, v)
      PROVE  Truths'
  <2>1. /\ UNCHANGED <<hour, total, before, logs, value, report>>
        /\ at' = [at EXCEPT ![a] = "asking"]
        /\ \A b \in Actors : b # a => alert'[b] = alert[b]
        /\ alert'[a] = [key |-> <<r, s>>, actual |-> v, threshold |-> rules[r].threshold,
                        measured |-> s]
        /\ s = PeriodStart(rules[r].period) /\ v \in rules[r].threshold..Consumption(s)
    BY <1>6, Bounds DEF Refuse, Inv, TypeOK
  <2>2. rules[r].period \in Periods
    BY Bounds DEF Inv, TypeOK
  <2>3. /\ alert'[a].measured = alert'[a].key[2] /\ alert'[a].measured <= hour
        /\ alert'[a].threshold <= alert'[a].actual
        /\ alert'[a].actual <= Consumption(alert'[a].measured)
    BY <2>1, <2>2, NowCounted
  <2>4. \A b \in Actors : at'[b] \in Raising /\ b # a => at[b] \in Raising /\ alert'[b] = alert[b]
    BY <2>1 DEF Inv, TypeOK
  <2>5. \A j \in Runs : at'[j] = at[j]
    BY <2>1, Bounds DEF Inv, TypeOK
  <2>6. \A j \in Runs, p \in Periods : value[j][p] # NotFetched => at'[j] \notin {"idle", "done"}
    BY <2>5 DEF Truths, FetchedTruly
  <2> QED
    BY <2>1, <2>3, <2>4, <2>6, ActorTruths, LogTruths DEF Truths
<1>7. ASSUME NEW a \in Actors,
             \/ a \in Refusals /\ NotifyLimitExceeded(a)
             \/ InsertLog(a) \/ InsertRefused(a) \/ QueryFails(a) \/ SendAlert(a)
      PROVE  Truths'
  <2>1. /\ UNCHANGED <<hour, total, before, value>> /\ at[a] \in Raising
        /\ \/ Leave(a)
           \/ at' = [at EXCEPT ![a] = "inserting"] /\ alert' = alert
           \/ at' = [at EXCEPT ![a] = "sending"] /\ alert' = alert
        /\ logs' = logs \/ InsertLog(a)
        /\ report' = report \/ (a \in Runs /\ report' = [report EXCEPT ![a].clean = FALSE])
    BY <1>7 DEF NotifyLimitExceeded, InsertLog, InsertRefused, QueryFails, SendAlert, Raising
  <2>2. \A j \in Runs : report'[j].began = report[j].began
    BY <2>1, SameBegan
  <2>3. /\ \A b \in Actors : at'[b] \in Raising => at[b] \in Raising /\ alert'[b] = alert[b]
        /\ \A b \in Actors : at'[b] = "idle" => at[b] = "idle"
    BY <2>1, LeaveEffect DEF Raising, Inv, TypeOK
  <2>5. \A k \in Runs : at'[k] = "done" => at[k] = "done"
    BY <2>1, Bounds DEF Leave, Inv, TypeOK
  <2>4. \A j \in Runs, p \in Periods : value[j][p] # NotFetched => at'[j] \notin {"idle", "done"}
    BY <2>3, <2>5, Bounds DEF Truths, FetchedTruly
  <2> QED
    BY <2>1, <2>2, <2>3, <2>4, ActorTruths, LogTruths DEF Truths
<1>8. CASE Restart
  <2>1. /\ UNCHANGED <<hour, total, before, logs>>
        /\ \A j \in Runs, p \in Periods : value'[j][p] = NotFetched
        /\ \A a \in Actors : at'[a] \notin Raising
        /\ \A j \in Runs : report'[j].began \in {report[j].began, 1}
    BY <1>8 DEF Restart, Raising, NoReport
  <2> QED
    BY <2>1, ActorTruths, LogTruths DEF Truths
<1> QED
  BY <1>1, <1>2, <1>3, <1>4, <1>5, <1>6, <1>7, <1>8, Bounds DEF Next

\* An alert on record reached its threshold with tokens of the period it is filed
\* under, however long before its figures were fetched or cached.
THEOREM AlertIsEarnedHolds == Spec => []AlertIsEarned
<1>1. Init => Inv /\ Truths
  BY InitInv, TruthsInit
<1>2. (Inv /\ Truths) /\ [Next]_vars => (Inv /\ Truths)'
  BY NextInv, TruthsNext
<1>3. Inv /\ Truths => AlertIsEarned
  BY DEF Truths, LoggedTruly
<1> QED
  BY <1>1, <1>2, <1>3, PTL DEF Spec

---------------------------------------------------------------------------
(* Whom a run leaves out *)

\* The rule x is still to be evaluated, and will be found exceeded.
WillExceed(k, x) ==
  IF value[k][x.period] = NotFetched THEN Reached(x)
  ELSE value[k][x.period].tokens >= x.threshold

\* A rule that was due is on record, in hand, or still to be evaluated.
OnItsWay(k, key) ==
  \/ key \in DOMAIN logs
  \/ at[k] = "inserting" /\ alert[k].key = key
  \/ \E x \in todo[k] : key = <<x.rule, PeriodStart(x.period)>> /\ WillExceed(k, x)

Accountable(k) ==
  at[k] \notin {"idle", "done"} /\ report[k].clean /\ report[k].began = hour

Covers(k) ==
  LET rulesDue == report[k].due \union report[k].over
  IN  /\ at[k] = "done" => rulesDue \subseteq DOMAIN logs
      /\ Accountable(k) => \A key \in rulesDue : OnItsWay(k, key)

Covered == \A k \in Runs : Covers(k)

\* What a rule reaches it goes on reaching until the hour is over.
LEMMA ReachedStays ==
  ASSUME Inv, hour' = hour, before' = before, total' \in Nat, total <= total',
         NEW x \in Snapshots, Reached(x)
  PROVE  Reached(x)'
<1>1. x.period \in Periods /\ x.threshold \in Nat
  BY DEF Snapshots
<1>2. PeriodStart(x.period) \in Starts
  BY <1>1, NowCounted
<1>3. PeriodStart(x.period)' = PeriodStart(x.period)
  BY DEF PeriodStart
<1>4. before[PeriodStart(x.period)] \in Nat /\ total \in Nat
  BY <1>2, Kinds
<1> QED
  BY <1>1, <1>3, <1>4 DEF Reached, Consumption

\* A run that a step does not concern.
LEMMA CoversStays ==
  ASSUME Inv, Truths, NEW k \in Runs, Covers(k),
         DOMAIN logs \subseteq DOMAIN logs',
         at'[k] = at[k], todo'[k] = todo[k], value'[k] = value[k], alert'[k] = alert[k],
         report'[k] = report[k],
         \/ hour' > hour
         \/ hour' = hour /\ before' = before /\ total' \in Nat /\ total <= total'
  PROVE  Covers(k)'
<1>1. CASE hour' > hour
  <2>1. ~Accountable(k)'
    BY <1>1, Kinds DEF Accountable, Truths, FetchedTruly
  <2> QED
    BY <2>1 DEF Covers
<1>2. CASE hour' = hour /\ before' = before /\ total' \in Nat /\ total <= total'
  <2>1. ASSUME NEW key, OnItsWay(k, key) PROVE OnItsWay(k, key)'
    <3>1. ASSUME NEW x \in todo[k], WillExceed(k, x) PROVE WillExceed(k, x)'
      <4>1. x \in Snapshots
        BY DEF Inv, TypeOK
      <4> QED
        BY <1>2, <3>1, <4>1, ReachedStays DEF WillExceed
    <3>2. \A p : PeriodStart(p)' = PeriodStart(p)
      BY <1>2 DEF PeriodStart
    <3> QED
      BY <2>1, <3>1, <3>2 DEF OnItsWay
  <2> QED
    BY <1>2, <2>1 DEF Covers, Accountable
<1> QED
  BY <1>1, <1>2

\* A run begins: each of its rules that is due is still to be evaluated.
LEMMA BeginCovers ==
  ASSUME Inv, Truths, NEW k \in Runs, CheckThresholds(k)
  PROVE  Covers(k)'
<1>1. /\ UNCHANGED <<hour, total, before, logs, value>>
      /\ todo'[k] = NotifyRules /\ at'[k] # "done" /\ at[k] = "idle"
      /\ report'[k] = [began |-> hour, clean |-> TRUE,
           due |-> {<<x.rule, PeriodStart(x.period)>> : x \in {x \in NotifyRules : Reached(x)}},
           over |-> {<<x.rule, hour - 1>> :
             x \in {x \in NotifyRules : x.period = "hour" /\ LastHour >= x.threshold}}]
  BY Bounds DEF CheckThresholds, Inv, TypeOK
<1>2. NotifyRules \subseteq Snapshots
  BY Bounds DEF NotifyRules, Snapshots, Inv, TypeOK
<1>3. \A p \in Periods : value[k][p] = NotFetched
  BY <1>1 DEF Truths, FetchedTruly
<1>4. \A p : PeriodStart(p)' = PeriodStart(p) /\ \A s : Consumption(s)' = Consumption(s)
  BY <1>1 DEF PeriodStart, Consumption
<1>5. ASSUME NEW x \in NotifyRules, Reached(x)
      PROVE  WillExceed(k, x)'
  BY <1>1, <1>2, <1>3, <1>4, <1>5 DEF WillExceed, Reached, Snapshots
<1>6. ASSUME NEW x \in NotifyRules, x.period = "hour", LastHour >= x.threshold
      PROVE  Reached(x) /\ PeriodStart(x.period) = hour - 1
  <2>1. hour \in Starts /\ hour - 1 \in Starts /\ before[hour] <= total
    BY Bounds DEF Inv, TypeOK, Hours, Starts, Counted
  <2>2. before[hour] \in Nat /\ before[hour - 1] \in Nat /\ total \in Nat /\ x.threshold \in Nat
    BY <1>2, <2>1, Kinds DEF Snapshots
  <2>3. PeriodStart(x.period) = hour - 1
    BY <1>6 DEF PeriodStart, PeriodStartAt
  <2> QED
    BY <1>6, <2>1, <2>2, <2>3 DEF Reached, Consumption, LastHour
<1>7. ASSUME NEW key \in report'[k].due \union report'[k].over
      PROVE  OnItsWay(k, key)'
  <2>1. PICK x \in NotifyRules : Reached(x) /\ key = <<x.rule, PeriodStart(x.period)>>
    BY <1>1, <1>6
  <2>2. x \in todo'[k] /\ WillExceed(k, x)' /\ key = <<x.rule, PeriodStart(x.period)'>>
    BY <1>1, <1>4, <1>5, <2>1
  <2> QED
    BY <2>2 DEF OnItsWay
<1> QED
  BY <1>1, <1>7 DEF Covers

\* A group is fetched: what was reached is fetched as reached.
LEMMA FetchCovers ==
  ASSUME Inv, Truths, NEW k \in Runs, Covers(k), NEW p \in Periods, FetchGroup(k, p)
  PROVE  Covers(k)'
<1>1. /\ UNCHANGED <<hour, total, before, logs, alert, todo, report>>
      /\ at[k] = "fetching" /\ at'[k] \in {"fetching", "judging"}
      /\ value'[k] = [value[k] EXCEPT ![p] =
           [start |-> PeriodStart(p), tokens |-> Consumption(PeriodStart(p))]]
  BY Bounds DEF FetchGroup, GroupDealtWith, Inv, TypeOK
<1>2. \A q : PeriodStart(q)' = PeriodStart(q) /\ \A s : Consumption(s)' = Consumption(s)
  BY <1>1 DEF PeriodStart, Consumption
<1>3. /\ value[k] \in [Periods -> Fetched \union {NotFetched}]
      /\ value[k][p] = NotFetched
      /\ Consumption(PeriodStart(p)) \in Nat
      /\ todo[k] \subseteq Snapshots
  BY NowCounted DEF FetchGroup, GroupDealtWith, Unfetched, Inv, TypeOK
<1>4. ASSUME NEW x \in todo[k], WillExceed(k, x) PROVE WillExceed(k, x)'
  <2>1. x.period \in Periods
    BY <1>3 DEF Snapshots
  <2>2. CASE x.period = p
    <3>1. Consumption(PeriodStart(p)) >= x.threshold
      BY <1>3, <1>4, <2>2 DEF WillExceed, Reached
    <3>2. value'[k][p].tokens = Consumption(PeriodStart(p))
      BY <1>1, <1>3
    <3>3. Reached(x)'
      BY <1>2, <2>2, <3>1 DEF Reached
    <3> QED
      BY <2>2, <3>1, <3>2, <3>3 DEF WillExceed
  <2>3. CASE x.period # p
    <3>1. value'[k][x.period] = value[k][x.period]
      BY <1>1, <1>3, <2>1, <2>3
    <3> QED
      BY <1>2, <1>4, <3>1 DEF WillExceed, Reached
  <2> QED
    BY <2>2, <2>3
<1>5. ASSUME NEW key, OnItsWay(k, key) PROVE OnItsWay(k, key)'
  BY <1>1, <1>2, <1>4, <1>5 DEF OnItsWay
<1> QED
  BY <1>1, <1>5 DEF Covers, Accountable

\* A rule is evaluated: one that was due is on record already or is raised.
LEMMA EvaluateCovers ==
  ASSUME Inv, Truths, NEW k \in Runs, Covers(k), NEW z \in todo[k], EvaluateRule(k, z)
  PROVE  Covers(k)'
<1> DEFINE y == Evaluated(k, z)
<1>1. /\ UNCHANGED <<hour, total, before, logs, value, report>>
      /\ at[k] = "judging" /\ at'[k] \in {"judging", "inserting"}
      /\ todo'[k] = todo[k] \ {z}
      /\ \/ y.key \in DOMAIN logs
         \/ ~(y.actual >= y.threshold)
         \/ at'[k] = "inserting" /\ alert'[k] = y
  <2>1. /\ k \in Actors
        /\ at \in [Actors -> {"idle", "fetching", "judging", "asking", "inserting",
                              "sending", "done"}]
        /\ alert \in [Actors -> Alerts \union {NoAlert}]
        /\ todo \in [Runs -> SUBSET Snapshots]
    BY Bounds DEF Inv, TypeOK
  <2> QED
    BY <2>1 DEF EvaluateRule, AlreadySent, Exceeds
<1>2. \A q : PeriodStart(q)' = PeriodStart(q) /\ \A s : Consumption(s)' = Consumption(s)
  BY <1>1 DEF PeriodStart, Consumption
<1>3. value[k][z.period] # NotFetched
  BY <1>1 DEF Inv, Ready
<1>4. /\ y.key = <<z.rule, PeriodStart(z.period)>> /\ y.threshold = z.threshold
      /\ y.actual = value[k][z.period].tokens
  BY DEF Evaluated
<1>5. ASSUME NEW x \in todo[k], WillExceed(k, x) PROVE WillExceed(k, x)'
  BY <1>1, <1>2, <1>5 DEF WillExceed, Reached
<1>6. ASSUME NEW key, OnItsWay(k, key) PROVE OnItsWay(k, key)'
  <2>1. CASE key \in DOMAIN logs
    BY <1>1, <2>1 DEF OnItsWay
  <2>2. ASSUME NEW x \in todo[k], key = <<x.rule, PeriodStart(x.period)>>, WillExceed(k, x)
        PROVE  OnItsWay(k, key)'
    <3>1. CASE x = z
      <4>1. y.actual >= y.threshold /\ key = y.key
        BY <1>3, <1>4, <2>2, <3>1 DEF WillExceed
      <4> QED
        BY <1>1, <4>1 DEF OnItsWay
    <3>2. CASE x # z
      BY <1>1, <1>2, <1>5, <2>2, <3>2 DEF OnItsWay
    <3> QED
      BY <3>1, <3>2
  <2> QED
    BY <1>1, <1>6, <2>1, <2>2 DEF OnItsWay
<1> QED
  BY <1>1, <1>6 DEF Covers, Accountable

\* A run that raises an alert goes on when its row is there, or is no longer
\* accountable.
LEMMA RaiseCovers ==
  ASSUME Inv, Truths, NEW k \in Runs, Covers(k),
         InsertLog(k) \/ InsertRefused(k) \/ QueryFails(k) \/ SendAlert(k)
  PROVE  Covers(k)'
<1>1. /\ UNCHANGED <<hour, total, before, todo, value>>
      /\ DOMAIN logs \subseteq DOMAIN logs' /\ at[k] \in Raising
      /\ at[k] \notin {"idle", "done"}
      /\ at'[k] \in {"judging", "sending"}
  BY Bounds DEF InsertLog, InsertRefused, QueryFails, SendAlert, Leave, Raising, Inv, TypeOK
<1>2. CASE QueryFails(k)
  <2>1. /\ report' = [report EXCEPT ![k].clean = FALSE]
        /\ report \in [Runs -> Reports]
    BY <1>2 DEF QueryFails, Inv, TypeOK
  <2>2. report[k] \in Reports /\ report'[k] = [report[k] EXCEPT !.clean = FALSE]
    BY <2>1
  <2>3. report'[k].clean = FALSE
    BY <2>2 DEF Reports
  <2> QED
    BY <1>1, <2>3 DEF Covers, Accountable
<1>3. CASE report' = report /\ (at[k] = "inserting" => alert[k].key \in DOMAIN logs')
  <2>1. \A q : PeriodStart(q)' = PeriodStart(q) /\ \A s : Consumption(s)' = Consumption(s)
    BY <1>1 DEF PeriodStart, Consumption
  <2>2. ASSUME NEW x \in todo[k], WillExceed(k, x) PROVE WillExceed(k, x)'
    BY <1>1, <2>1, <2>2 DEF WillExceed, Reached
  <2>3. ASSUME NEW key, OnItsWay(k, key) PROVE OnItsWay(k, key)'
    BY <1>1, <1>3, <2>1, <2>2, <2>3 DEF OnItsWay
  <2> QED
    BY <1>1, <1>3, <2>3 DEF Covers, Accountable
<1>4. CASE InsertLog(k)
  <2>1. /\ report' = report
        /\ logs' = [x \in DOMAIN logs \union {alert[k].key} |->
                      IF x = alert[k].key THEN Row(k) ELSE logs[x]]
    BY <1>4 DEF InsertLog
  <2>2. alert[k].key \in DOMAIN logs'
    BY <2>1
  <2> QED
    BY <1>3, <2>1, <2>2
<1>5. CASE InsertRefused(k)
  BY <1>3, <1>5 DEF InsertRefused, InsertAllowed
<1>6. CASE SendAlert(k)
  BY <1>3, <1>6 DEF SendAlert
<1> QED
  BY <1>2, <1>4, <1>5, <1>6

LEMMA CoveredInit == Init => Covered
<1> SUFFICES ASSUME Init, NEW k \in Runs PROVE at[k] = "idle"
  BY DEF Covered, Covers, Accountable
<1> QED
  BY DEF Init, Actors

LEMMA CoveredNext ==
  ASSUME Inv, Truths, Covered, [Next]_vars
  PROVE  Covered'
<1> SUFFICES ASSUME NEW k \in Runs PROVE Covers(k)'
  BY DEF Covered
<1>1. Covers(k) /\ k \in Actors
  BY Bounds DEF Covered
<1> DEFINE Same == /\ at'[k] = at[k] /\ todo'[k] = todo[k] /\ value'[k] = value[k]
                   /\ alert'[k] = alert[k] /\ report'[k] = report[k]
<1>2. ASSUME Same, DOMAIN logs \subseteq DOMAIN logs',
             \/ hour' > hour
             \/ hour' = hour /\ before' = before /\ total' \in Nat /\ total <= total'
      PROVE  Covers(k)'
  BY <1>1, <1>2, CoversStays
<1>3. CASE UNCHANGED vars \/ Tick \/ RecordUsage \/ \E r \in Rules : ChangeRule(r)
  BY <1>2, <1>3, Kinds DEF vars, Tick, RecordUsage, ChangeRule
<1>4. ASSUME NEW a \in Actors, a # k,
             \/ a \in Runs /\ (CheckThresholds(a) \/ EndRun(a))
             \/ \E p \in Periods : a \in Runs /\ (FetchGroup(a, p) \/ FetchFails(a, p))
             \/ a \in Runs /\ \E x \in todo[a] : EvaluateRule(a, x)
             \/ \E r \in Rules, s \in Starts, v \in 0..MaxUsage : Refuse(a, r, s, v)
             \/ NotifyLimitExceeded(a)
             \/ InsertLog(a) \/ InsertRefused(a) \/ QueryFails(a) \/ SendAlert(a)
      PROVE  Covers(k)'
  <2>1. UNCHANGED <<hour, total, before>> /\ DOMAIN logs \subseteq DOMAIN logs'
    BY <1>4 DEF CheckThresholds, EndRun, FetchGroup, FetchFails, GroupDealtWith, EvaluateRule,
       Refuse, NotifyLimitExceeded, InsertLog, InsertRefused, QueryFails, SendAlert
  <2>2. Same
    BY <1>1, <1>4 DEF CheckThresholds, EndRun, FetchGroup, FetchFails, GroupDealtWith,
       EvaluateRule, Refuse, NotifyLimitExceeded, InsertLog, InsertRefused, QueryFails,
       SendAlert, Leave, Inv, TypeOK
  <2> QED
    BY <1>2, <2>1, <2>2, Kinds
<1>5. CASE CheckThresholds(k)
  BY <1>5, BeginCovers
<1>6. CASE EndRun(k)
  <2>1. /\ at[k] = "judging" /\ todo[k] = {} /\ logs' = logs /\ at'[k] = "done"
        /\ \/ report'[k] = NoReport
           \/ report'[k] = report[k] /\ report[k].clean /\ report[k].began = hour
    BY <1>1, <1>6 DEF EndRun, Inv, TypeOK
  <2>2. CASE report'[k] = NoReport
    BY <2>1, <2>2 DEF Covers, Accountable, NoReport
  <2>3. CASE report'[k] = report[k] /\ report[k].clean /\ report[k].began = hour
    <3>1. \A key \in report[k].due \union report[k].over : key \in DOMAIN logs
      BY <1>1, <2>1, <2>3 DEF Covers, Accountable, OnItsWay
    <3> QED
      BY <2>1, <2>3, <3>1 DEF Covers, Accountable
  <2> QED
    BY <2>1, <2>2, <2>3
<1>7. ASSUME NEW p \in Periods, FetchGroup(k, p) PROVE Covers(k)'
  BY <1>1, <1>7, FetchCovers
<1>8. ASSUME NEW p \in Periods, FetchFails(k, p) PROVE Covers(k)'
  <2>1. at'[k] # "done"
    BY <1>1, <1>8 DEF FetchFails, GroupDealtWith, Inv, TypeOK
  <2>2. ~report'[k].clean
    BY <1>8 DEF FetchFails, Inv, TypeOK, Reports
  <2> QED
    BY <2>1, <2>2 DEF Covers, Accountable
<1>9. ASSUME NEW x \in todo[k], EvaluateRule(k, x) PROVE Covers(k)'
  BY <1>1, <1>9, EvaluateCovers
<1>10. CASE InsertLog(k) \/ InsertRefused(k) \/ QueryFails(k) \/ SendAlert(k)
  BY <1>1, <1>10, RaiseCovers
<1>11. CASE Restart
  <2>1. /\ logs' = logs /\ at'[k] \in {"idle", "done"}
        /\ \/ report'[k] = report[k] /\ at[k] = "done"
           \/ report'[k] = NoReport
    BY <1>1, <1>11 DEF Restart
  <2> QED
    BY <1>1, <2>1 DEF Covers, Accountable, NoReport
<1>12. k \notin Refusals
  BY Bounds
<1> QED
  BY <1>3, <1>4, <1>5, <1>6, <1>7, <1>8, <1>9, <1>10, <1>11, <1>12, Bounds DEF Next

\* A run that met no failing query and saw no hour pass leaves none of the rules
\* behind that were due when it began, whoever else alerts for them meanwhile.
THEOREM RunCoversItsRulesHolds == Spec => []RunCoversItsRules
<1>1. Init => Inv /\ Truths /\ Covered
  BY InitInv, TruthsInit, CoveredInit
<1>2. (Inv /\ Truths /\ Covered) /\ [Next]_vars => (Inv /\ Truths /\ Covered)'
  BY NextInv, TruthsNext, CoveredNext
<1>3. Covered => RunCoversItsRules
  BY DEF Covered, Covers, RunCoversItsRules
<1> QED
  BY <1>1, <1>2, <1>3, PTL DEF Spec
=============================================================================
