----------------------------- MODULE LimitCheck -----------------------------
(***************************************************************************)
(* LimitCheckService for one agent: checkLimits, its cache of the rules    *)
(* that block, its cache of consumption, and the two ways they are         *)
(* evicted: by the rules controller, and by the debounced event that       *)
(* IngestEventBusService sends after a message row was written.  One       *)
(* metric; the agent's rows and rules are in the database, the rest is in  *)
(* memory.  What other agents do to the caches is to make room in them.    *)
(* The rules belong to the user who owns the agent.  A restart, which only *)
(* empties the caches, is left out.                                        *)
(* A row is stamped when it is written; a query is answered with the       *)
(* database as it was when it was asked.                                   *)
(***************************************************************************)
EXTENDS Integers

CONSTANTS Checks, Rules,
          Shapes,      \* what a user may make of each rule
          HourTicks,   \* ticks in an hour
          DayTicks,    \* ticks in a day
          TTL,         \* CACHE_TTL_MS
          DEBOUNCE,    \* DEBOUNCE_MS
          Horizon,     \* bound on the clock
          MaxUsage,    \* bound on the tokens recorded
          MaxChanges   \* bound on the edits of rules

Periods == {"hour", "day"}

ASSUME LimitsAssumption ==
  /\ \A r \in Rules :
       Shapes[r] \subseteq [active : BOOLEAN, period : Periods, threshold : Nat]
  /\ {HourTicks, DayTicks} \subseteq Nat \ {0}
  /\ TTL \in Nat \ {0} /\ {DEBOUNCE, MaxUsage, MaxChanges} \subseteq Nat
  /\ Horizon \in Nat /\ HourTicks <= Horizon

\* The rules a user may have at one time.
Configurations ==
  {f \in [Rules -> UNION {Shapes[r] : r \in Rules}] : \A r \in Rules : f[r] \in Shapes[r]}

NoEntry == [expiresAt |-> 0]
NoTimer == 0

VARIABLES
  clock,        \* the time
  upTo,         \* tokens in agent_messages stamped at a time or before
  rules,        \* notification_rules whose action blocks
  since,        \* updated_at of each rule
  changes,      \* how often a rule was edited
  unannounced,  \* rows written whose emit is still to come
  timer,        \* debounceTimers: when the event is due
  owing,        \* edits whose invalidateCache is still to come
  rulesCache,   \* the agent's entry of rulesCache
  consumption,  \* the agent's entries of consumptionCache, by period start
  at,           \* the await each check is at
  began,        \* when a check began
  todo,         \* the rules a check has read, or is still to look at
  query,        \* what a check awaits
  verdict,      \* what checkLimits has just returned
  missed,       \* ghost: an eviction came while the check was awaiting a fill
  past          \* ghost: the rules that edits replaced, and when

limitsVars == <<clock, upTo, rules, since, changes, unannounced, timer, owing, rulesCache,
          consumption, at, began, todo, query, verdict, missed, past>>

database == <<upTo, rules, since, changes, past>>
events == <<unannounced, timer, owing>>
caches == <<rulesCache, consumption>>
checks == <<at, began, todo, query>>

NoQuery == [asked |-> 0]

Silent == [kind |-> "none"]
Passed(began_) == [kind |-> "passed", began |-> began_]
Refused(began_, q) == [kind |-> "refused", began |-> began_, query |-> q]

LimitsInit ==
  /\ clock = HourTicks
  /\ upTo = [t \in 0..Horizon |-> 0]
  /\ rules \in Configurations
  /\ since = [r \in Rules |-> HourTicks]
  /\ changes = 0
  /\ unannounced = 0 /\ timer = NoTimer /\ owing = 0
  /\ rulesCache = NoEntry
  /\ consumption = [s \in {} |-> NoEntry]
  /\ at = [c \in Checks |-> "idle"]
  /\ began = [c \in Checks |-> HourTicks]
  /\ todo = [c \in Checks |-> {}]
  /\ query = [c \in Checks |-> NoQuery]
  /\ verdict = Silent
  /\ missed = [c \in Checks |-> FALSE]
  /\ past = {}

---------------------------------------------------------------------------
(* The database and the events *)

ClockTick ==
  /\ clock < Horizon
  /\ clock' = clock + 1
  /\ UNCHANGED <<database, events, caches, checks, missed>> /\ verdict' = Silent

\* computePeriodBoundaries: an hourly period also covers the hour before.
PeriodStart(period, t) ==
  IF period = "hour" THEN HourTicks * ((t \div HourTicks) - 1)
                     ELSE DayTicks * (t \div DayTicks)

\* NotificationRulesService.getConsumption of the rows stamped up to t.
Consumed(start, t) == upTo[t] - (IF start = 0 THEN 0 ELSE upTo[start - 1])

\* getActiveBlockRules
ActiveBlockRules ==
  {[rule |-> r, period |-> rules[r].period, threshold |-> rules[r].threshold] :
     r \in {r \in Rules : rules[r].active}}

\* The recorder has written a message row; its emit follows.
WriteRow ==
  /\ upTo[clock] < MaxUsage
  /\ upTo' = [t \in 0..Horizon |-> IF t >= clock THEN upTo[t] + 1 ELSE upTo[t]]
  /\ unannounced' = unannounced + 1
  /\ UNCHANGED <<clock, rules, since, changes, past, timer, owing, caches, checks, missed>> /\ verdict' = Silent

\* IngestEventBusService.emit: every emit restarts the timer.
Emit ==
  /\ unannounced > 0
  /\ unannounced' = unannounced - 1
  /\ timer' = clock + DEBOUNCE
  /\ UNCHANGED <<clock, database, owing, caches, checks, missed>> /\ verdict' = Silent

\* The timer runs out: the user's bucket is dropped.
Evict ==
  /\ timer # NoTimer /\ timer <= clock
  /\ timer' = NoTimer
  /\ consumption' = [s \in {} |-> NoEntry]
  /\ missed' = [c \in Checks |-> missed[c] \/ at[c] = "consumption"]
  /\ UNCHANGED <<clock, database, unannounced, owing, rulesCache, checks>> /\ verdict' = Silent

\* createRule, updateRule and deleteRule of the controller, up to the write.
ChangeRule(r) ==
  /\ changes < MaxChanges
  /\ changes' = changes + 1
  /\ \E shape \in Shapes[r] \ {rules[r]} : rules' = [rules EXCEPT ![r] = shape]
  /\ since' = [since EXCEPT ![r] = clock]
  /\ past' = past \union {[rule |-> x, until |-> clock] :
                            x \in {x \in ActiveBlockRules : x.rule = r}}
  /\ owing' = owing + 1
  /\ UNCHANGED <<clock, upTo, unannounced, timer, caches, checks, missed>> /\ verdict' = Silent

\* Mutant: the rules stay in their cache.
InvalidateConsumption ==
  /\ owing > 0
  /\ owing' = owing - 1
  /\ consumption' = [s \in {} |-> NoEntry]
  /\ missed' = [c \in Checks |-> missed[c] \/ at[c] = "rules"]
  /\ UNCHANGED <<clock, database, unannounced, timer, rulesCache, checks>> /\ verdict' = Silent

\* The same, once the write is answered.
InvalidateCache ==
  /\ owing > 0
  /\ owing' = owing - 1
  /\ rulesCache' = NoEntry
  /\ consumption' = [s \in {} |-> NoEntry]
  /\ missed' = [c \in Checks |-> missed[c] \/ at[c] = "rules"]
  /\ UNCHANGED <<clock, database, unannounced, timer, checks>> /\ verdict' = Silent

Drop(f, s) == [x \in DOMAIN f \ {s} |-> f[x]]

\* evictOldestIfFull and evictOldestConsumptionIfFull, for another agent.
MakeRoom ==
  /\ \/ rulesCache # NoEntry /\ rulesCache' = NoEntry /\ UNCHANGED consumption
     \/ \E s \in DOMAIN consumption :
          consumption' = Drop(consumption, s) /\ UNCHANGED rulesCache
  /\ UNCHANGED <<clock, database, events, checks, missed>> /\ verdict' = Silent

---------------------------------------------------------------------------
(* checkLimits *)

\* Mutant: an entry is served in the tick it expires in.
AliveTooLong(entry) == entry.expiresAt >= clock

Alive(entry) == entry.expiresAt > clock

\* Mutant: the life of an entry begins when the query is answered.
LifetimeFromAnswer(asked) == clock + TTL

\* The life of an entry begins when its query is asked.
Lifetime(asked) == asked + TTL

Return(c, value) ==
  /\ verdict' = value
  /\ at' = [at EXCEPT ![c] = "idle"]
  /\ began' = [began EXCEPT ![c] = HourTicks]
  /\ todo' = [todo EXCEPT ![c] = {}]
  /\ query' = [query EXCEPT ![c] = NoQuery]

\* getCachedConsumption answers from the cache.
Cached(x, cache) ==
  LET start == PeriodStart(x.period, clock) IN start \in DOMAIN cache /\ Alive(cache[start])

Query(x, tokens) ==
  [asked |-> clock, rule |-> x, start |-> PeriodStart(x.period, clock), tokens |-> tokens]

InCache(x, cache) == Query(x, cache[PeriodStart(x.period, clock)].data)

Reached(q) == q.tokens >= q.rule.threshold

\* The loop of checkLimits, over the rules left, in the order of the list: it
\* stops at a rule that is reached, or whose consumption is to be fetched.
Loop(c, start, left, cache) ==
  LET goesOn == {x \in left : Cached(x, cache) /\ ~Reached(InCache(x, cache))} IN
  IF left = goesOn
    THEN Return(c, Passed(start)) /\ consumption' = cache
    ELSE \E x \in left \ goesOn, before \in SUBSET goesOn :
           IF Cached(x, cache)
             THEN Return(c, Refused(start, InCache(x, cache))) /\ consumption' = cache
             ELSE /\ at' = [at EXCEPT ![c] = "consumption"]
                  /\ began' = [began EXCEPT ![c] = start]
                  /\ todo' = [todo EXCEPT ![c] = left \ ({x} \union before)]
                  /\ query' = [query EXCEPT ![c] =
                       Query(x, Consumed(PeriodStart(x.period, clock), clock))]
                  /\ consumption' = [s \in {s \in DOMAIN cache : Alive(cache[s])} |-> cache[s]]
                  /\ verdict' = Silent

\* A request is checked: getCachedRules, up to the query.
CheckLimits(c) ==
  /\ at[c] = "idle"
  /\ IF rulesCache # NoEntry /\ Alive(rulesCache)
       THEN Loop(c, clock, rulesCache.data, consumption) /\ UNCHANGED rulesCache
       ELSE /\ rulesCache' = NoEntry
            /\ at' = [at EXCEPT ![c] = "rules"]
            /\ began' = [began EXCEPT ![c] = clock]
            /\ todo' = [todo EXCEPT ![c] = ActiveBlockRules]
            /\ query' = [query EXCEPT ![c] = [asked |-> clock]]
            /\ verdict' = Silent
            /\ UNCHANGED consumption
  /\ UNCHANGED <<clock, database, events, missed>>

RulesAnswer(c) ==
  /\ at[c] = "rules"
  /\ rulesCache' = [data |-> todo[c], expiresAt |-> Lifetime(query[c].asked),
                    raced |-> missed[c]]
  /\ missed' = [missed EXCEPT ![c] = FALSE]
  /\ Loop(c, began[c], todo[c], consumption)
  /\ UNCHANGED <<clock, database, events>>

\* The rest of getCachedConsumption, and of the loop.
ConsumptionAnswer(c) ==
  /\ at[c] = "consumption"
  /\ LET q == query[c]
         filled == [s \in DOMAIN consumption \union {q.start} |->
           IF s = q.start
             THEN [data |-> q.tokens, expiresAt |-> Lifetime(q.asked), raced |-> missed[c]]
             ELSE consumption[s]]
     IN  IF Reached(q)
           THEN Return(c, Refused(began[c], q)) /\ consumption' = filled
           ELSE Loop(c, began[c], todo[c], filled)
  /\ missed' = [missed EXCEPT ![c] = FALSE]
  /\ UNCHANGED <<clock, database, events, rulesCache>>

\* A query is rejected: the request ends with an error.
QueryFails(c) ==
  /\ at[c] # "idle"
  /\ Return(c, Silent)
  /\ missed' = [missed EXCEPT ![c] = FALSE]
  /\ UNCHANGED <<clock, database, events, caches>>

---------------------------------------------------------------------------

LimitsNext ==
  \/ ClockTick \/ WriteRow \/ Emit \/ Evict \/ InvalidateCache \/ MakeRoom
  \/ \E r \in Rules : ChangeRule(r)
  \/ \E c \in Checks : CheckLimits(c) \/ RulesAnswer(c) \/ ConsumptionAnswer(c) \/ QueryFails(c)

LimitsSpec == LimitsInit /\ [][LimitsNext]_limitsVars

---------------------------------------------------------------------------
(* Properties *)

\* A request that passed was under every rule that had been in force for TTL
\* when its check began, counting every token recorded until then: however the
\* two caches, fills that are under way and the evictions interleave, nothing
\* older than TTL is decided on.
LimitsUpheld ==
  verdict.kind = "passed" =>
    LET horizon == verdict.began - TTL IN
      \A x \in ActiveBlockRules : since[x.rule] <= horizon =>
        \E t \in verdict.began..clock :
          Consumed(PeriodStart(x.period, t), horizon) < x.threshold

\* A request that was refused had reached the threshold of a rule that was in
\* force when its check began or less than TTL before, in a period that was
\* current while it was checked.
RefusalsEarned ==
  verdict.kind = "refused" =>
    LET q == verdict.query IN
      /\ q.rule.threshold <= q.tokens /\ q.tokens <= Consumed(q.start, clock)
      /\ \E t \in verdict.began..clock : q.start = PeriodStart(q.rule.period, t)
      /\ \/ q.rule \in ActiveBlockRules
         \/ \E p \in past : p.rule = q.rule /\ p.until > verdict.began - TTL

\* What the caches hold is what the database holds, unless the eviction is
\* still to come or came while the entry was being fetched.
StaleForAReason ==
  /\ rulesCache # NoEntry =>
       rulesCache.data = ActiveBlockRules \/ owing > 0 \/ rulesCache.raced
  /\ \A s \in DOMAIN consumption :
       \/ consumption[s].data = Consumed(s, clock)
       \/ unannounced > 0 \/ timer # NoTimer \/ consumption[s].raced

=============================================================================
