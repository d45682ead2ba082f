---------------------------- MODULE UsageAlerts ----------------------------
(***************************************************************************)
(* The threshold alerts of one agent: NotificationCronService, the         *)
(* notifier that LimitCheckService starts when it refuses a request, the   *)
(* rules they are about and the notification_logs rows that keep them from *)
(* alerting twice.  A run is one call of checkThresholds (the hourly cron, *)
(* the catch-up at startup, or the user's trigger-check); a refusal is one *)
(* request that checkLimits refused.  One metric; time passes in hours;    *)
(* a day stands for the periods that begin on the calendar.                *)
(***************************************************************************)
EXTENDS Integers

CONSTANTS Rules, Runs, Refusals,
          Shapes,      \* the rules a user may configure
          DayHours,    \* hours in a day
          MaxHour,     \* bound on the clock
          MaxUsage,    \* bound on the tokens recorded
          MaxChanges   \* bound on the edits of rules

Periods == {"hour", "day"}

ASSUME AlertsAssumption ==
  /\ Runs \intersect Refusals = {}
  /\ Shapes \subseteq [active : BOOLEAN, action : {"notify", "block", "both"},
                       period : Periods, threshold : Nat]
  /\ DayHours \in Nat \ {0}
  /\ {MaxHour, MaxUsage, MaxChanges} \subseteq Nat /\ MaxHour > 0

Hours == 1..MaxHour
Starts == 0..MaxHour  \* a period is named by the hour it starts at

\* What a run keeps of a rule it read.
Snapshots == [rule : Rules, period : Periods, threshold : Nat]

Keys == Rules \X Starts  \* rule_id, period_start

Actors == Runs \union Refusals

VARIABLES
  hour,     \* the clock
  total,    \* tokens recorded in agent_messages
  before,   \* tokens recorded before an hour began
  rules,    \* notification_rules
  changes,  \* how often a rule was edited
  logs,     \* notification_logs, by Keys
  at,       \* the await each run and each refusal is at
  todo,     \* the rules a run is still to evaluate
  value,    \* per run and period: the consumption it fetched, and the start it fetched it for
  alert,    \* the alert an actor is raising
  mails,    \* ghost: emails sent
  report    \* ghost: what a run has to have done by its end

vars == <<hour, total, before, rules, changes, logs, at, todo, value, alert,
          mails, report>>

Alerts == [key : Keys, actual : 0..MaxUsage, threshold : Nat, measured : Starts]

NoAlert == [key |-> <<>>]

Fetched == [start : Starts, tokens : 0..MaxUsage]

NotFetched == [start |-> 0, tokens |-> -1]

\* due: rules that had reached their threshold when the run began; over: hourly
\* rules that the hour before exceeded by itself.
Reports == [began : Hours, clean : BOOLEAN, due : SUBSET Keys, over : SUBSET Keys]

NoReport == [began |-> 1, clean |-> TRUE, due |-> {}, over |-> {}]

\* Shape of the state.
TypeOK ==
  /\ hour \in Hours
  /\ total \in 0..MaxUsage
  /\ before \in [Starts -> 0..MaxUsage]
  /\ rules \in [Rules -> Shapes]
  /\ changes \in 0..MaxChanges
  /\ DOMAIN logs \subseteq Keys
  /\ \A k \in DOMAIN logs : logs[k] \in [actual : 0..MaxUsage, threshold : Nat,
                                         measured : Starts, crossed : BOOLEAN]
  /\ at \in [Actors -> {"idle", "fetching", "judging", "asking", "inserting",
                        "sending", "done"}]
  /\ todo \in [Runs -> SUBSET Snapshots]
  /\ value \in [Runs -> [Periods -> Fetched \union {NotFetched}]]
  /\ alert \in [Actors -> Alerts \union {NoAlert}]
  /\ mails \in [Keys -> Nat]
  /\ report \in [Runs -> Reports]

\* Any rules the user may have configured.
Init ==
  /\ hour = 1
  /\ total = 0
  /\ before = [s \in Starts |-> 0]
  /\ rules \in [Rules -> Shapes]
  /\ changes = 0
  /\ logs = [k \in {} |-> NoAlert]
  /\ at = [a \in Actors |-> "idle"]
  /\ todo = [k \in Runs |-> {}]
  /\ value = [k \in Runs |-> [p \in Periods |-> NotFetched]]
  /\ alert = [a \in Actors |-> NoAlert]
  /\ mails = [k \in Keys |-> 0]
  /\ report = [k \in Runs |-> NoReport]

---------------------------------------------------------------------------
(* Time, usage and rules *)

\* Mutant: an hourly period begins with the hour.
ThisHourOnly(period, h) == IF period = "hour" THEN h ELSE DayHours * (h \div DayHours)

\* computePeriodBoundaries: an hourly period also covers the hour before.
PeriodStartAt(period, h) ==
  IF period = "hour" THEN h - 1 ELSE DayHours * (h \div DayHours)

PeriodStart(period) == PeriodStartAt(period, hour)

\* NotificationRulesService.getConsumption, asked now: the window ends now.
Consumption(start) == total - before[start]

Tick ==
  /\ hour < MaxHour
  /\ hour' = hour + 1
  /\ before' = [s \in Starts |-> IF s > hour THEN total ELSE before[s]]
  /\ UNCHANGED <<total, rules, changes, logs, at, todo, value, alert, mails,
                 report>>

\* A message row with its tokens is written.
RecordUsage ==
  /\ total < MaxUsage
  /\ total' = total + 1
  /\ UNCHANGED <<hour, before, rules, changes, logs, at, todo, value, alert,
                 mails, report>>

\* updateRule, createRule (a rule that was not active) and deleteRule.
ChangeRule(r) ==
  /\ changes < MaxChanges
  /\ changes' = changes + 1
  /\ \E row \in Shapes : rules' = [rules EXCEPT ![r] = row]
  /\ UNCHANGED <<hour, total, before, logs, at, todo, value, alert, mails,
                 report>>

---------------------------------------------------------------------------
(* checkThresholds *)

\* getAllActiveRules, getActiveRulesForUser
NotifyRules ==
  {[rule |-> r, period |-> rules[r].period, threshold |-> rules[r].threshold] :
     r \in {r \in Rules : rules[r].active /\ rules[r].action \in {"notify", "both"}}}

Reached(x) == Consumption(PeriodStart(x.period)) >= x.threshold

LastHour == before[hour] - before[hour - 1]

CheckThresholds(k) ==
  /\ at[k] = "idle"
  /\ at' = [at EXCEPT ![k] = IF NotifyRules = {} THEN "judging" ELSE "fetching"]
  /\ todo' = [todo EXCEPT ![k] = NotifyRules]
  /\ LET due == {<<x.rule, PeriodStart(x.period)>> : x \in {x \in NotifyRules : Reached(x)}}
     IN report' = [report EXCEPT ![k] =
          [began |-> hour, clean |-> TRUE, due |-> due,
           over |-> {<<x.rule, hour - 1>> :
             x \in {x \in NotifyRules : x.period = "hour" /\ LastHour >= x.threshold}}]]
  /\ UNCHANGED <<hour, total, before, rules, changes, logs, value, alert, mails>>

\* The periods of the run's groups whose consumption is still to be fetched.
Unfetched(k) == {p \in {x.period : x \in todo[k]} : value[k][p] = NotFetched}

GroupDealtWith(k, p) ==
  /\ at[k] = "fetching"
  /\ p \in Unfetched(k)
  /\ at' = [at EXCEPT ![k] = IF Unfetched(k) = {p} THEN "judging" ELSE @]
  /\ UNCHANGED <<hour, total, before, rules, changes, logs, alert, mails>>

\* One group: its consumption is fetched once, for the period as of now.
FetchGroup(k, p) ==
  /\ GroupDealtWith(k, p)
  /\ value' = [value EXCEPT ![k][p] =
                 [start |-> PeriodStart(p), tokens |-> Consumption(PeriodStart(p))]]
  /\ UNCHANGED <<todo, report>>

\* The group goes without a value, and its rules are skipped.
FetchFails(k, p) ==
  /\ GroupDealtWith(k, p)
  /\ todo' = [todo EXCEPT ![k] = {x \in @ : x.period # p}]
  /\ report' = [report EXCEPT ![k].clean = FALSE]
  /\ UNCHANGED value

\* The alert evaluateRule would raise: the rule's period is computed anew.
Evaluated(k, x) ==
  [key |-> <<x.rule, PeriodStart(x.period)>>, actual |-> value[k][x.period].tokens,
   threshold |-> x.threshold, measured |-> value[k][x.period].start]

\* hasAlreadySent
AlreadySent(x) == x.key \in DOMAIN logs

Exceeds(x) == x.actual >= x.threshold

\* evaluateRule up to insertLog.
EvaluateRule(k, x) ==
  /\ at[k] = "judging"
  /\ x \in todo[k]
  /\ LET y == Evaluated(k, x) IN
       IF AlreadySent(y) \/ ~Exceeds(y)
         THEN UNCHANGED <<at, alert>>
         ELSE /\ at' = [at EXCEPT ![k] = "inserting"]
              /\ alert' = [alert EXCEPT ![k] = y]
  /\ todo' = [todo EXCEPT ![k] = @ \ {x}]
  /\ UNCHANGED <<hour, total, before, rules, changes, logs, value, mails, report>>

\* Runs that met no failing query and no change of hour are accountable.
EndRun(k) ==
  /\ at[k] = "judging"
  /\ todo[k] = {}
  /\ at' = [at EXCEPT ![k] = "done"]
  /\ value' = [value EXCEPT ![k] = [p \in Periods |-> NotFetched]]
  /\ report' = IF report[k].clean /\ report[k].began = hour THEN report
               ELSE [report EXCEPT ![k] = NoReport]
  /\ UNCHANGED <<hour, total, before, rules, changes, logs, todo, alert, mails>>

---------------------------------------------------------------------------
(* checkLimits has refused a request *)

BlockRules == {r \in Rules : rules[r].active /\ rules[r].action \in {"block", "both"}}

\* checkLimits starts notifyLimitExceeded with the figures of its verdict; the
\* consumption may come from its cache (LimitCheck).
Refuse(a, r, start, actual) ==
  /\ at[a] = "idle"
  /\ r \in BlockRules
  /\ start = PeriodStart(rules[r].period)
  /\ actual \in rules[r].threshold..Consumption(start)
  /\ at' = [at EXCEPT ![a] = "asking"]
  /\ alert' = [alert EXCEPT ![a] = [key |-> <<r, start>>, actual |-> actual,
                                    threshold |-> rules[r].threshold, measured |-> start]]
  /\ UNCHANGED <<hour, total, before, rules, changes, logs, todo, value, mails,
                 report>>

\* An actor is done with its alert: a run goes on with its next rule.
Leave(a) ==
  /\ at' = [at EXCEPT ![a] = IF a \in Runs THEN "judging" ELSE "done"]
  /\ alert' = [alert EXCEPT ![a] = NoAlert]

\* Mutant: the notifier computes the period anew, as the cron does.
NotifyForPeriodNow(a) ==
  /\ at[a] = "asking"
  /\ \E p \in Periods :
       LET x == [alert[a] EXCEPT !.key = <<@[1], PeriodStart(p)>>] IN
         /\ rules[x.key[1]].period = p
         /\ IF AlreadySent(x)
              THEN Leave(a)
              ELSE /\ at' = [at EXCEPT ![a] = "inserting"]
                   /\ alert' = [alert EXCEPT ![a] = x]
  /\ UNCHANGED <<hour, total, before, rules, changes, logs, todo, value, mails,
                 report>>

\* notifyLimitExceeded up to insertLog.
NotifyLimitExceeded(a) ==
  /\ at[a] = "asking"
  /\ IF AlreadySent(alert[a])
       THEN Leave(a)
       ELSE at' = [at EXCEPT ![a] = "inserting"] /\ UNCHANGED alert
  /\ UNCHANGED <<hour, total, before, rules, changes, logs, todo, value, mails,
                 report>>

---------------------------------------------------------------------------
(* insertLog and sendThresholdAlert *)

\* Mutant: no unique index, only the hasAlreadySent before.
NoIndex(x) == TRUE

\* The unique index on (rule_id, period_start).
InsertAllowed(x) == x.key \notin DOMAIN logs

Row(a) ==
  [actual |-> alert[a].actual, threshold |-> alert[a].threshold,
   measured |-> alert[a].measured, crossed |-> a \in Runs /\ report[a].began < hour]

\* The user may have no address to send to.
InsertLog(a) ==
  /\ at[a] = "inserting"
  /\ InsertAllowed(alert[a])
  /\ logs' = [k \in DOMAIN logs \union {alert[a].key} |->
                IF k = alert[a].key THEN Row(a) ELSE logs[k]]
  /\ \/ at' = [at EXCEPT ![a] = "sending"] /\ UNCHANGED alert
     \/ Leave(a)
  /\ UNCHANGED <<hour, total, before, rules, changes, todo, value, mails, report>>

\* The index refuses the row: the caller catches the exception and sends nothing.
InsertRefused(a) ==
  /\ at[a] = "inserting"
  /\ ~InsertAllowed(alert[a])
  /\ Leave(a)
  /\ UNCHANGED <<hour, total, before, rules, changes, logs, todo, value, mails,
                 report>>

\* A query of evaluateRule or of notifyLimitExceeded fails.
QueryFails(a) ==
  /\ at[a] \in {"asking", "inserting"}
  /\ Leave(a)
  /\ report' = IF a \in Runs THEN [report EXCEPT ![a].clean = FALSE] ELSE report
  /\ UNCHANGED <<hour, total, before, rules, changes, logs, todo, value, mails>>

\* The email goes out, or fails.
SendAlert(a) ==
  /\ at[a] = "sending"
  /\ mails' = [mails EXCEPT ![alert[a].key] = @ + 1]
  /\ Leave(a)
  /\ UNCHANGED <<hour, total, before, rules, changes, logs, todo, value, report>>

\* The process stops and starts again: what was under way is forgotten.
Restart ==
  /\ \E a \in Actors : at[a] \notin {"idle", "done"}
  /\ at' = [a \in Actors |-> IF at[a] = "idle" THEN "idle" ELSE "done"]
  /\ todo' = [k \in Runs |-> {}]
  /\ value' = [k \in Runs |-> [p \in Periods |-> NotFetched]]
  /\ alert' = [a \in Actors |-> NoAlert]
  /\ report' = [k \in Runs |-> IF at[k] = "done" THEN report[k] ELSE NoReport]
  /\ UNCHANGED <<hour, total, before, rules, changes, logs, mails>>

---------------------------------------------------------------------------

Next ==
  \/ Tick \/ RecordUsage \/ Restart
  \/ \E r \in Rules : ChangeRule(r)
  \/ \E k \in Runs : CheckThresholds(k) \/ EndRun(k)
  \/ \E k \in Runs, p \in Periods : FetchGroup(k, p) \/ FetchFails(k, p)
  \/ \E k \in Runs : \E x \in todo[k] : EvaluateRule(k, x)
  \/ \E a \in Refusals, r \in Rules, s \in Starts, v \in 0..MaxUsage : Refuse(a, r, s, v)
  \/ \E a \in Refusals : NotifyLimitExceeded(a)
  \/ \E a \in Actors : InsertLog(a) \/ InsertRefused(a) \/ QueryFails(a) \/ SendAlert(a)

Spec == Init /\ [][Next]_vars

---------------------------------------------------------------------------
(* Properties *)

\* At most one email is sent for a rule and a period, whichever of the cron,
\* the startup run, the user's check and the refused requests get there
\* together, and whatever they were told by hasAlreadySent.
OneAlertPerPeriod == \A k \in Keys : mails[k] <= 1

\* An alert that is on record reached its threshold, with tokens of the period
\* it is filed under.  Only a run during which an hour passed may have
\* measured another period than the one it files the alert under.
AlertIsEarned ==
  \A k \in DOMAIN logs :
    /\ logs[k].threshold <= logs[k].actual
    /\ logs[k].actual <= Consumption(logs[k].measured)
    /\ logs[k].measured = k[2] \/ logs[k].crossed

\* A run that met no failing query and no change of hour leaves no rule behind
\* that had reached its threshold when the run began: not one that another
\* actor was alerting for, not one evaluated after a rule whose row was refused,
\* and, of the hourly ones, not one that reached it in the hour just over.
RunCoversItsRules ==
  \A k \in Runs : at[k] = "done" => report[k].due \union report[k].over \subseteq DOMAIN logs
=============================================================================
