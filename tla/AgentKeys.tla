------------------------------ MODULE AgentKeys ------------------------------
(***************************************************************************)
(* The agents of one tenant, their keys, the two caches requests find them *)
(* through and the tables that repeat an agent's name: AgentKeyAuthGuard,  *)
(* ResolveAgentService, ApiKeyGeneratorService, AgentLifecycleService,     *)
(* AgentDuplicationService.                                                *)
(*                                                                         *)
(* The dashboard's calls are jobs that read an agent by its name and write *)
(* to it by its id, one database call at a time; requests and other calls  *)
(* come in between.  Of what an agent has, only its messages and its rules *)
(* are kept, as records that carry the agent's id and its name.            *)
(***************************************************************************)
EXTENDS Naturals, FiniteSets

CONSTANTS Agents,      \* ids of agents, used once each
          Names,       \* slugs
          Keys,        \* agent keys, used once each
          None,        \* nothing cached, nothing under way
          Requests,    \* slots for requests under way
          Jobs,        \* slots for the dashboard's calls under way
          KeyTtl,      \* AgentKeyAuthGuard.CACHE_TTL_MS
          AgentTtl,    \* TTL_MS of ResolveAgentService
          MaxStarted,  \* bound: calls of the dashboard on agents that exist
          MaxRecords,  \* bound: records kept
          MaxTime      \* bound: ticks

Tables == {"agent_messages", "notification_rules"}
Records == [table : Tables, agent : Agents, name : Names, late : BOOLEAN]

Ops == {"onboard", "duplicate", "rotate", "delete", "rename", "rule"}
JobSteps == {"agent", "key", "delete", "remove", "clear", "check", "update", "commit", "rule"}
JobRecords == [op : Ops, agent : Agents \cup {None}, name : Names \cup {None},
               to : Names \cup {None}, step : JobSteps, moved : SUBSET Records]

ASSUME AgentKeysAssumption ==
  {KeyTtl, AgentTtl, MaxStarted, MaxRecords, MaxTime} \subseteq Nat
ASSUME NoneAssumption == None \notin Nat \cup Agents \cup Names \cup JobRecords

VARIABLES agents,    \* agents: is the row there, not deleted, and its name
          keys,      \* agent_api_keys: the agent, and is_active, or not there
          records,   \* rows of Tables
          guard,     \* cache of AgentKeyAuthGuard, by key
          resolved,  \* cache of ResolveAgentService, by name; ghosts in both:
                     \* raced, read before a clearing and cached after it, and
                     \* lost, when what it says ceased to be true
          requests,  \* each before its key is looked up, or behind the guard
          lookups,   \* ResolveAgentService.resolve between its find and its set
          jobs,
          started,
          now,
          crossed    \* ghost: agents touched by a call that had read an agent
                     \* under a name which is no longer that agent's

vars == <<agents, keys, records, guard, resolved, requests, lookups, jobs,
          started, now, crossed>>
-------------------------------------------------------------------------------
Live(a) == agents[a].state = "live"
Holds(a, n) == Live(a) /\ agents[a].name = n
Valid(k) == keys[k].state = "active" /\ Live(keys[k].agent)
KeysOf(a) == {k \in Keys : keys[k].state \in {"active", "inactive"} /\ keys[k].agent = a}

Become(K, state) ==
  [k \in Keys |-> IF k \in K THEN [keys[k] EXCEPT !.state = state] ELSE keys[k]]

Unused == {k \in Keys : keys[k].state = "unused"}
Fresh == {a \in Agents : agents[a].state = "none"}

At(p, step) == jobs[p] # None /\ jobs[p].step = step
Done(p) == jobs' = [jobs EXCEPT ![p] = None]
Goto(p, step) == jobs' = [jobs EXCEPT ![p].step = step]

\* A transaction that has updated an agent's row holds it until it commits; a
\* name it is about to give the agent is held by the unique index.
Renaming(a) == \E p \in Jobs : At(p, "commit") /\ jobs[p].agent = a
NameTaken(n) == \E a \in Agents : Holds(a, n)
TakenByOther(a, n) == \E b \in Agents \ {a} : Holds(b, n)
NameHeld(n) == \E p \in Jobs : At(p, "commit") /\ jobs[p].to = n /\ Live(jobs[p].agent)

\* What a cache holds of an agent has ceased to be true.
Lost(cache, a) ==
  [x \in DOMAIN cache |->
     IF cache[x] # None /\ cache[x].agent = a /\ cache[x].lost = None
       THEN [cache[x] EXCEPT !.lost = now] ELSE cache[x]]
Expired(entry) == entry # None => entry.expires <= now
Since(isTrue) == IF isTrue THEN None ELSE now
-------------------------------------------------------------------------------
Init ==
  /\ agents = [a \in Agents |-> [state |-> "none", name |-> None]]
  /\ keys = [k \in Keys |-> [state |-> "unused", agent |-> None]]
  /\ records = {}
  /\ guard = [k \in Keys |-> None]
  /\ resolved = [n \in Names |-> None]
  /\ requests = [q \in Requests |-> None]
  /\ lookups = [n \in Names |-> None]
  /\ jobs = [p \in Jobs |-> None]
  /\ started = 0
  /\ now = 0
  /\ crossed = {}

\* A call of the dashboard begins with the read of the agent it names.  (Bounds:
\* MaxStarted such calls; an agent is onboarded only while an id is left and no
\* other agent is being onboarded.)
Begin(p, op, n, step, agent, to) ==
  /\ jobs[p] = None
  /\ started' = IF op = "onboard" THEN started ELSE started + 1
  /\ started' <= MaxStarted
  /\ op = "onboard" => Fresh # {} /\ \A o \in Jobs : jobs[o] # None => jobs[o].op # "onboard"
  /\ jobs' = [jobs EXCEPT ![p] = [op |-> op, agent |-> agent, name |-> n,
                                  to |-> to, step |-> step, moved |-> {}]]
  /\ UNCHANGED <<agents, keys, records, guard, resolved, requests, lookups, now,
                 crossed>>

\* A database call throws and leaves the database as it was, or is refused.
GiveUp(p) ==
  /\ Done(p)
  /\ UNCHANGED <<agents, keys, records, guard, resolved, requests, lookups,
                 started, now, crossed>>
Fail(p) == jobs[p] # None /\ jobs[p].step # "clear" /\ GiveUp(p)
-------------------------------------------------------------------------------
\* onboardAgent: the agent's row, then its key, each on its own.
Onboard(p, n) == Begin(p, "onboard", None, "agent", None, n)

InsertAgent(p) ==
  /\ At(p, "agent") /\ jobs[p].op = "onboard"
  /\ ~NameHeld(jobs[p].to)
  /\ \/ NameTaken(jobs[p].to) /\ GiveUp(p)
     \/ \E a \in Fresh :
          /\ ~NameTaken(jobs[p].to)
          /\ agents' = [agents EXCEPT ![a] = [state |-> "live", name |-> jobs[p].to]]
          /\ jobs' = [jobs EXCEPT ![p].agent = a, ![p].step = "key"]
          /\ UNCHANGED <<keys, records, guard, resolved, requests, lookups,
                         started, now, crossed>>

\* The insert of a new key; agent_id is unique.
InsertKey(p) ==
  /\ At(p, "key")
  /\ \/ KeysOf(jobs[p].agent) # {} /\ GiveUp(p)
     \/ /\ KeysOf(jobs[p].agent) = {}
        /\ \E k \in Unused :
             keys' = [keys EXCEPT ![k] = [state |-> "active", agent |-> jobs[p].agent]]
        /\ Done(p)
        /\ UNCHANGED <<agents, records, guard, resolved, requests, lookups,
                       started, now, crossed>>

\* duplicate: the copy and its key in one transaction, after a look for a clash.
Duplicate(p, a, n, to) ==
  Holds(a, n) /\ ~NameTaken(to) /\ Begin(p, "duplicate", None, "agent", None, to)

InsertCopy(p) ==
  /\ At(p, "agent") /\ jobs[p].op = "duplicate"
  /\ ~NameHeld(jobs[p].to)
  /\ \/ NameTaken(jobs[p].to) /\ GiveUp(p)
     \/ \E a \in Fresh, k \in Unused :
          /\ ~NameTaken(jobs[p].to)
          /\ agents' = [agents EXCEPT ![a] = [state |-> "live", name |-> jobs[p].to]]
          /\ keys' = [keys EXCEPT ![k] = [state |-> "active", agent |-> a]]
          /\ Done(p)
          /\ UNCHANGED <<records, guard, resolved, requests, lookups, started,
                         now, crossed>>
-------------------------------------------------------------------------------
\* Mutant: clearCache is forgotten.
KeepsCache == UNCHANGED <<guard, requests>>

\* clearCache.  A lookup that has read the keys and not yet cached what it found
\* is not reached by it.
ClearCache ==
  /\ guard' = [k \in Keys |-> None]
  /\ requests' = [q \in Requests |->
       IF requests[q] # None /\ requests[q].step = "looking"
         THEN [requests[q] EXCEPT !.raced = TRUE] ELSE requests[q]]

\* rotateKey: the old keys go, the cache is cleared, a new key is stored.
Rotate(p, a, n) == Holds(a, n) /\ Begin(p, "rotate", None, "delete", a, None)

RotateDelete(p) ==
  /\ At(p, "delete")
  /\ keys' = Become(KeysOf(jobs[p].agent), "gone")
  /\ guard' = Lost(guard, jobs[p].agent)
  /\ Goto(p, "clear")
  /\ UNCHANGED <<agents, records, resolved, requests, lookups, started, now, crossed>>

RotateClear(p) ==
  /\ At(p, "clear") /\ jobs[p].op = "rotate"
  /\ ClearCache
  /\ Goto(p, "key")
  /\ UNCHANGED <<agents, keys, records, resolved, lookups, started, now,
                 crossed>>

\* deleteAgent: the agent and its keys in one transaction, then the caches.
Delete(p, a, n) == Holds(a, n) /\ Begin(p, "delete", n, "remove", a, None)

DeleteCommit(p) == LET a == jobs[p].agent IN
  /\ At(p, "remove") /\ ~Renaming(a)
  /\ agents' = [agents EXCEPT ![a].state = "deleted"]
  /\ keys' = Become(KeysOf(a), "inactive")
  /\ guard' = Lost(guard, a) /\ resolved' = Lost(resolved, a)
  /\ crossed' = IF Holds(a, jobs[p].name) THEN crossed ELSE crossed \cup {a}
  /\ Goto(p, "clear")
  /\ UNCHANGED <<records, requests, lookups, started, now>>

DeleteClear(p) == LET n == jobs[p].name IN
  /\ At(p, "clear") /\ jobs[p].op = "delete"
  /\ resolved' = [resolved EXCEPT ![n] = None]
  /\ lookups' = [lookups EXCEPT ![n] = IF @ = None THEN None
                                       ELSE [@ EXCEPT !.raced = TRUE]]
  /\ ClearCache
  /\ Done(p)
  /\ UNCHANGED <<agents, keys, records, started, now, crossed>>
-------------------------------------------------------------------------------
\* renameAgent: the agent, a look for a namesake, then one transaction.
Rename(p, a, n, to) ==
  Holds(a, n) /\ to # n /\ Begin(p, "rename", n, "check", a, to)

RenameCheck(p) ==
  /\ At(p, "check")
  /\ \/ NameTaken(jobs[p].to) /\ GiveUp(p)
     \/ /\ ~NameTaken(jobs[p].to)
        /\ Goto(p, "update")
        /\ UNCHANGED <<agents, keys, records, guard, resolved, requests, lookups,
                       started, now, crossed>>

\* Mutant: the rules keep the name they had.
MovesMessagesOnly(n) ==
  {r \in records : r.name = n /\ r.table = "agent_messages"}

\* The records a rename moves are those that bear the old name when its updates
\* run: none that is inserted later, and others' that bear it too.
ToMove(n) == {r \in records : r.name = n}

RenameUpdate(p) == LET j == jobs[p] IN
  /\ At(p, "update")
  /\ ~Renaming(j.agent) /\ ~NameHeld(j.to)
  /\ \A other \in Jobs : At(other, "commit") => jobs[other].moved \cap ToMove(j.name) = {}
  /\ \/ Live(j.agent) /\ TakenByOther(j.agent, j.to) /\ GiveUp(p)
     \/ /\ ~(Live(j.agent) /\ TakenByOther(j.agent, j.to))
        /\ jobs' = [jobs EXCEPT ![p].moved = ToMove(j.name), ![p].step = "commit"]
        /\ UNCHANGED <<agents, keys, records, guard, resolved, requests, lookups,
                       started, now, crossed>>

RenameCommit(p) == LET j == jobs[p] IN
  /\ At(p, "commit")
  /\ agents' = [agents EXCEPT ![j.agent].name = j.to]
  /\ records' = (records \ j.moved) \cup {[r EXCEPT !.name = j.to] : r \in j.moved}
  /\ guard' = Lost(guard, j.agent) /\ resolved' = Lost(resolved, j.agent)
  /\ crossed' = IF Holds(j.agent, j.name) THEN crossed
                ELSE crossed \cup {j.agent} \cup {r.agent : r \in j.moved}
  /\ Done(p)
  /\ UNCHANGED <<keys, requests, lookups, started, now>>
-------------------------------------------------------------------------------
\* A record is written under an agent's id and the name that was read with it.
\* It is late when the agent is about to lose that name or has lost it already.
Record(table, a, n) ==
  /\ records' = records \cup {[table |-> table, agent |-> a, name |-> n,
                               late |-> Renaming(a) \/ agents[a].name # n]}
  /\ Cardinality(records') <= MaxRecords

\* createRule.
CreateRule(p, a, n) == Holds(a, n) /\ Begin(p, "rule", n, "rule", a, None)

InsertRule(p) ==
  /\ At(p, "rule")
  /\ Record("notification_rules", jobs[p].agent, jobs[p].name)
  /\ Done(p)
  /\ UNCHANGED <<agents, keys, guard, resolved, requests, lookups, started, now,
                 crossed>>
-------------------------------------------------------------------------------
\* Mutant: a hit puts the entry off.
ExtendsOnTouch(k) == [guard EXCEPT ![k].expires = now + KeyTtl]

\* A hit moves the entry to the end of the map, whose order is left out here.
\* (Bound: nothing is looked up once MaxRecords are kept: what becomes of a record
\* has nothing to do with the caches any more.)
Touched(k) == guard

Hit(q, k) ==
  /\ requests[q] = None
  /\ Cardinality(records) < MaxRecords
  /\ ~Expired(guard[k])
  /\ guard' = Touched(k)
  /\ requests' = [requests EXCEPT ![q] =
       [step |-> "admitted", agent |-> guard[k].agent, name |-> guard[k].name]]
  /\ UNCHANGED <<agents, keys, records, resolved, lookups, jobs, started, now,
                 crossed>>

\* A miss, and the query's answer.  A key it does not find is refused.  (Bound: as
\* in Hit.)
Look(q, k) ==
  /\ requests[q] = None
  /\ Cardinality(records) < MaxRecords
  /\ Expired(guard[k])
  /\ \A n \in Names : Expired(resolved[n]) /\ lookups[n] = None
  /\ Valid(k)
  /\ requests' = [requests EXCEPT ![q] =
       [step |-> "looking", key |-> k, agent |-> keys[k].agent,
        name |-> agents[keys[k].agent].name, raced |-> FALSE]]
  /\ UNCHANGED <<agents, keys, records, guard, resolved, lookups, jobs, started,
                 now, crossed>>

Unexpired == [k \in Keys |-> IF Expired(guard[k]) THEN None ELSE guard[k]]

\* What was found is cached, and expired entries are dropped.
Admit(q) == LET found == requests[q] IN
  /\ found # None /\ found.step = "looking"
  /\ guard' = [Unexpired EXCEPT ![found.key] =
       [agent |-> found.agent, name |-> found.name, expires |-> now + KeyTtl,
        raced |-> found.raced,
        lost |-> Since(Valid(found.key) /\ Holds(found.agent, found.name))]]
  /\ requests' = [requests EXCEPT ![q] =
       [step |-> "admitted", agent |-> found.agent, name |-> found.name]]
  /\ UNCHANGED <<agents, keys, records, resolved, lookups, jobs, started, now,
                 crossed>>

\* The request is over, and the recorder has written a row of it, or has not.
Leave(q) ==
  /\ requests[q] # None /\ requests[q].step = "admitted"
  /\ requests' = [requests EXCEPT ![q] = None]
  /\ \/ Record("agent_messages", requests[q].agent, requests[q].name)
     \/ UNCHANGED records
  /\ UNCHANGED <<agents, keys, guard, resolved, lookups, jobs, started, now,
                 crossed>>
-------------------------------------------------------------------------------
\* ResolveAgentService.resolve misses, drops what has expired and reads; later
\* it caches what it read.  (Bounds: while no key is cached or looked up, for the
\* two caches have nothing to do with each other, and as in Hit.)
Find(n) ==
  /\ Cardinality(records) < MaxRecords
  /\ \A k \in Keys : Expired(guard[k])
  /\ \A q \in Requests : requests[q] = None
  /\ lookups[n] = None
  /\ Expired(resolved[n])
  /\ resolved' = [resolved EXCEPT ![n] = None]
  /\ \E a \in Agents :
       /\ Holds(a, n)
       /\ lookups' = [lookups EXCEPT ![n] = [agent |-> a, raced |-> FALSE]]
  /\ UNCHANGED <<agents, keys, records, guard, requests, jobs, started, now,
                 crossed>>

Keep(n) ==
  /\ lookups[n] # None
  /\ resolved' = [resolved EXCEPT ![n] =
       [agent |-> lookups[n].agent, expires |-> now + AgentTtl,
        raced |-> lookups[n].raced, lost |-> Since(Holds(lookups[n].agent, n))]]
  /\ lookups' = [lookups EXCEPT ![n] = None]
  /\ UNCHANGED <<agents, keys, records, guard, requests, jobs, started, now,
                 crossed>>

\* The guard's cleanup timer.
EvictExpired ==
  /\ Unexpired # guard
  /\ guard' = Unexpired
  /\ UNCHANGED <<agents, keys, records, resolved, requests, lookups, jobs,
                 started, now, crossed>>

\* Time passes.  (Bounds: MaxTime, as in Hit, and only while something is cached
\* that may expire; a call of the dashboard and a query that fills a cache are
\* answered within the tick they were made in: they take seconds, the lifetimes
\* minutes.)
Tick ==
  /\ now < MaxTime
  /\ Cardinality(records) < MaxRecords
  /\ (\E k \in Keys : ~Expired(guard[k])) \/ (\E n \in Names : ~Expired(resolved[n]))
  /\ \A p \in Jobs : jobs[p] = None
  /\ \A n \in Names : lookups[n] = None
  /\ \A q \in Requests : requests[q] # None => requests[q].step # "looking"
  /\ now' = now + 1
  /\ UNCHANGED <<agents, keys, records, guard, resolved, requests, lookups, jobs,
                 started, crossed>>
-------------------------------------------------------------------------------
Start(p) ==
  \E n \in Names :
    \/ Onboard(p, n)
    \/ \E a \in Agents :
         \/ Rotate(p, a, n) \/ Delete(p, a, n) \/ CreateRule(p, a, n)
         \/ \E to \in Names : Duplicate(p, a, n, to) \/ Rename(p, a, n, to)

Proceed(p) ==
  \/ InsertAgent(p) \/ InsertKey(p) \/ InsertCopy(p)
  \/ RotateDelete(p) \/ RotateClear(p)
  \/ DeleteCommit(p) \/ DeleteClear(p)
  \/ RenameCheck(p) \/ RenameUpdate(p) \/ RenameCommit(p)
  \/ InsertRule(p)

Next ==
  \/ \E p \in Jobs : Start(p) \/ Proceed(p) \/ Fail(p)
  \/ \E q \in Requests : Admit(q) \/ Leave(q) \/ \E k \in Keys : Hit(q, k) \/ Look(q, k)
  \/ \E n \in Names : Find(n) \/ Keep(n)
  \/ EvictExpired \/ Tick

Spec == Init /\ [][Next]_vars
-------------------------------------------------------------------------------
Clearing(a) == \E p \in Jobs : At(p, "clear") /\ jobs[p].agent = a

\* A revoked key and a deleted agent are in no cache, unless the lookup that
\* brought them there had read before the cache was cleared, or the clearing is
\* about to come.  By name, an agent is forgotten under the name it was deleted
\* under: names it had before go on leading to it until they expire.
RevokedIsForgotten ==
  /\ \A k \in Keys : guard[k] # None =>
       Valid(k) \/ guard[k].raced \/ Clearing(guard[k].agent)
  /\ \A n \in Names : resolved[n] # None =>
       LET a == resolved[n].agent IN
       \/ Live(a) \/ resolved[n].raced \/ Clearing(a)
       \/ agents[a].name # n \/ a \in crossed

\* A key that was revoked, a name that an agent has given up and an agent that
\* was deleted are taken for good no longer than an entry's lifetime after that,
\* however busy the key is and whatever became of the clearing.
StaleForALifetime ==
  /\ \A k \in Keys : guard[k] # None =>
       \/ Valid(k) /\ Holds(guard[k].agent, guard[k].name)
       \/ guard[k].lost # None /\ guard[k].expires <= guard[k].lost + KeyTtl
  /\ \A n \in Names : resolved[n] # None =>
       \/ Holds(resolved[n].agent, n)
       \/ resolved[n].lost # None /\ resolved[n].expires <= resolved[n].lost + AgentTtl

\* Messages and rules follow their agent through its names, and no other's,
\* unless they were written too late for that: a message by a request that was
\* let in under the old name, a rule by a call that had read it.
RecordsFollowTheAgent ==
  \A r \in records :
    Live(r.agent) /\ ~r.late => r.name = agents[r.agent].name \/ r.agent \in crossed
===============================================================================
