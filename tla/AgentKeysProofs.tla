---------------------------- MODULE AgentKeysProofs ----------------------------
(***************************************************************************)
(* Proofs about agents and the keys that requests bring: what renames,     *)
(* deletions, rotations and the guard's cache make of them, for any number *)
(* of agents, calls and writers.                                           *)
(***************************************************************************)
EXTENDS AgentKeys, TLAPS

\* Types, or the forms of records where a field may be anything.
\* Which step a call can be at, and what it knows by then.
IsJob(j) ==
  /\ j \in JobRecords
  /\ \/ j.step = "agent" /\ j.op \in {"onboard", "duplicate"}
     \/ j.step = "key" /\ j.op \in {"onboard", "rotate"}
     \/ j.step = "delete" /\ j.op = "rotate"
     \/ j.step = "remove" /\ j.op = "delete"
     \/ j.step = "clear" /\ j.op \in {"rotate", "delete"}
     \/ j.step \in {"check", "update", "commit"} /\ j.op = "rename"
     \/ j.step = "rule" /\ j.op = "rule"
  /\ j.step # "agent" => j.agent \in Agents
  /\ j.op \in {"delete", "rename", "rule"} => j.name \in Names
  /\ j.op \in {"onboard", "duplicate", "rename"} => j.to \in Names

IsEntry(e, latest) ==
  /\ e.agent \in Agents
  /\ e.expires \in Nat /\ e.expires <= latest
  /\ e.lost \in Nat \cup {None}

IsGuardEntry(e, t) ==
  /\ e = [agent |-> e.agent, name |-> e.name, expires |-> e.expires, raced |-> e.raced,
          lost |-> e.lost]
  /\ IsEntry(e, t + KeyTtl) /\ e.name \in Names

IsResolvedEntry(e, t) ==
  /\ e = [agent |-> e.agent, expires |-> e.expires, raced |-> e.raced, lost |-> e.lost]
  /\ IsEntry(e, t + AgentTtl)

IsRequest(q) ==
  /\ q.step \in {"looking", "admitted"} /\ q.agent \in Agents /\ q.name \in Names
  /\ q.step = "looking" =>
       /\ q = [step |-> q.step, key |-> q.key, agent |-> q.agent, name |-> q.name,
               raced |-> q.raced]
       /\ q.key \in Keys

IsLookup(l) == l = [agent |-> l.agent, raced |-> l.raced] /\ l.agent \in Agents

AgentsOK ==
  /\ agents \in [Agents -> [state : {"none", "live", "deleted"}, name : Names \cup {None}]]
  /\ \A a \in Agents : Live(a) => agents[a].name \in Names

KeysOK ==
  /\ keys \in [Keys -> [state : {"unused", "active", "inactive", "gone"},
                        agent : Agents \cup {None}]]
  /\ \A k \in Keys : keys[k].state \in {"active", "inactive"} => keys[k].agent \in Agents

GuardOK ==
  /\ guard = [k \in Keys |-> guard[k]]
  /\ \A k \in Keys : guard[k] # None => IsGuardEntry(guard[k], now)

ResolvedOK ==
  /\ resolved = [n \in Names |-> resolved[n]]
  /\ \A n \in Names : resolved[n] # None => IsResolvedEntry(resolved[n], now)

RequestsOK ==
  /\ requests = [q \in Requests |-> requests[q]]
  /\ \A q \in Requests : requests[q] # None => IsRequest(requests[q])

LookupsOK ==
  /\ lookups = [n \in Names |-> lookups[n]]
  /\ \A n \in Names : lookups[n] # None => IsLookup(lookups[n])

JobsOK ==
  /\ jobs = [p \in Jobs |-> jobs[p]]
  /\ \A p \in Jobs : jobs[p] # None => IsJob(jobs[p])

TypeOK ==
  /\ AgentsOK /\ KeysOK /\ records \subseteq Records
  /\ GuardOK /\ ResolvedOK /\ RequestsOK /\ LookupsOK /\ JobsOK
  /\ now \in Nat

\* What an entry says was true, and is so until it is lost.
EntriesTell ==
  /\ \A k \in Keys : guard[k] # None =>
       /\ keys[k].agent = guard[k].agent /\ keys[k].state # "unused"
       /\ guard[k].lost = None => Valid(k) /\ Holds(guard[k].agent, guard[k].name)
       /\ guard[k].lost # None => guard[k].expires <= guard[k].lost + KeyTtl
  /\ \A q \in Requests : requests[q] # None /\ requests[q].step = "looking" =>
       LET k == requests[q].key IN keys[k].agent = requests[q].agent /\ keys[k].state # "unused"
  /\ \A n \in Names : resolved[n] # None =>
       /\ resolved[n].lost = None => Holds(resolved[n].agent, n)
       /\ resolved[n].lost # None => resolved[n].expires <= resolved[n].lost + AgentTtl

\* A deletion under the name n that is to clear the caches.
Deleting(a, n) ==
  \E p \in Jobs : At(p, "clear") /\ jobs[p].op = "delete" /\ jobs[p].agent = a /\ jobs[p].name = n

MayKeep(a, n, raced) ==
  Live(a) \/ raced \/ agents[a].name # n \/ a \in crossed \/ Deleting(a, n)

\* RevokedIsForgotten, and the same of what lookups have read and not yet cached.
RevokedIsCleared ==
  /\ \A k \in Keys : guard[k] # None =>
       Valid(k) \/ guard[k].raced \/ Clearing(guard[k].agent)
  /\ \A q \in Requests : requests[q] # None /\ requests[q].step = "looking" =>
       Valid(requests[q].key) \/ requests[q].raced \/ Clearing(requests[q].agent)
  /\ \A n \in Names : resolved[n] # None => MayKeep(resolved[n].agent, n, resolved[n].raced)
  /\ \A n \in Names : lookups[n] # None => MayKeep(lookups[n].agent, n, lookups[n].raced)

\* Agents are told of once they are there.
Known(a) == agents[a].state # "none"

AllKnown ==
  /\ \A r \in records : Known(r.agent)
  /\ \A k \in Keys : guard[k] # None => Known(guard[k].agent)
  /\ \A q \in Requests : requests[q] # None => Known(requests[q].agent)
  /\ \A n \in Names : resolved[n] # None => Known(resolved[n].agent)
  /\ \A n \in Names : lookups[n] # None => Known(lookups[n].agent)
  /\ \A p \in Jobs : jobs[p] # None /\ jobs[p].step # "agent" => Known(jobs[p].agent)

\* The unique index.
NamesApart == \A a \in Agents : Live(a) => ~TakenByOther(a, agents[a].name)

\* Between its updates and its commit a rename has every record that is its
\* agent's and in time, nobody else's rename has one of them or its agent, and
\* the new name is kept free.
Ready(p, j) ==
  /\ j.moved \subseteq ToMove(j.name)
  /\ Live(j.agent) => ~TakenByOther(j.agent, j.to)
  /\ Holds(j.agent, j.name) /\ j.agent \notin crossed =>
       \A r \in records : r.agent = j.agent /\ ~r.late => r \in j.moved
  /\ \A o \in Jobs \ {p} : At(o, "commit") =>
       /\ jobs[o].agent # j.agent
       /\ jobs[o].moved \cap j.moved = {}
       /\ Live(j.agent) /\ Live(jobs[o].agent) => jobs[o].to # j.to

CommitsReady == \A p \in Jobs : At(p, "commit") => Ready(p, jobs[p])

LEMMA TypeInit == Init => TypeOK
BY DEF Init, TypeOK, AgentsOK, KeysOK, GuardOK, ResolvedOK, RequestsOK, LookupsOK, JobsOK, Live

\* A call moves on.
LEMMA JobMoves ==
  ASSUME JobsOK, NEW p \in Jobs, NEW j, j = None \/ IsJob(j), jobs' = [jobs EXCEPT ![p] = j]
  PROVE  JobsOK'
BY DEF JobsOK

After(j, a, s, m) ==
  [op |-> j.op, agent |-> a, name |-> j.name, to |-> j.to, step |-> s, moved |-> m]

LEMMA MakeJob ==
  ASSUME NEW op \in Ops, NEW a \in Agents \cup {None}, NEW n \in Names \cup {None},
         NEW to \in Names \cup {None}, NEW s \in JobSteps, NEW m \in SUBSET Records
  PROVE  [op |-> op, agent |-> a, name |-> n, to |-> to, step |-> s, moved |-> m] \in JobRecords
BY DEF JobRecords

LEMMA JobShape ==
  ASSUME NEW j \in JobRecords
  PROVE  /\ j = [op |-> j.op, agent |-> j.agent, name |-> j.name, to |-> j.to, step |-> j.step, moved |-> j.moved]
         /\ j.op \in Ops /\ j.agent \in Agents \cup {None} /\ j.name \in Names \cup {None}
         /\ j.to \in Names \cup {None} /\ j.step \in JobSteps /\ j.moved \in SUBSET Records
BY DEF JobRecords

LEMMA Steps ==
  ASSUME NEW j \in JobRecords, NEW a, NEW s, NEW m
  PROVE  /\ [j EXCEPT !.step = s] = After(j, j.agent, s, j.moved)
         /\ [j EXCEPT !.agent = a, !.step = s] = After(j, a, s, j.moved)
         /\ [j EXCEPT !.moved = m, !.step = s] = After(j, j.agent, s, m)
<1>0. j = [op |-> j.op, agent |-> j.agent, name |-> j.name, to |-> j.to, step |-> j.step, moved |-> j.moved]
  BY JobShape
<1>1. [j EXCEPT !.step = s] = After(j, j.agent, s, j.moved) BY <1>0 DEF After
<1>2. [j EXCEPT !.agent = a, !.step = s] = After(j, a, s, j.moved)
  <2>1. [j EXCEPT !.agent = a] = After(j, a, j.step, j.moved) BY <1>0 DEF After
  <2>2. [After(j, a, j.step, j.moved) EXCEPT !.step = s] = After(j, a, s, j.moved) BY DEF After
  <2> QED BY <2>1, <2>2
<1>3. [j EXCEPT !.moved = m, !.step = s] = After(j, j.agent, s, m)
  <2>1. [j EXCEPT !.moved = m] = After(j, j.agent, j.step, m) BY <1>0 DEF After
  <2>2. [After(j, j.agent, j.step, m) EXCEPT !.step = s] = After(j, j.agent, s, m) BY DEF After
  <2> QED BY <2>1, <2>2
<1> QED BY <1>1, <1>2, <1>3

LEMMA Stepped ==
  ASSUME NEW j, IsJob(j), 
         NEW a \in Agents, NEW m \in SUBSET Records,
         NEW s \in {"key", "clear", "update", "commit"},
         s = "key" => j.op \in {"onboard", "rotate"},
         s = "clear" => j.op \in {"rotate", "delete"},
         s \in {"update", "commit"} => j.op = "rename"
  PROVE  IsJob(After(j, a, s, m))
<1>0. s \in JobSteps /\ j \in JobRecords BY DEF IsJob, JobSteps
<1>1. After(j, a, s, m) \in JobRecords BY <1>0, MakeJob, JobShape DEF After
<1> DEFINE k == After(j, a, s, m)
<1>2. k.op = j.op /\ k.agent = a /\ k.name = j.name /\ k.to = j.to /\ k.step = s BY DEF After
<1>3. k \in JobRecords BY <1>1
<1> HIDE DEF k
<1>4. IsJob(k) BY <1>2, <1>3 DEF IsJob
<1> QED BY <1>4 DEF k

LEMMA StepMoves ==
  ASSUME JobsOK, NEW p \in Jobs, jobs[p] # None, jobs[p].agent \in Agents,
         NEW s \in {"key", "clear", "update", "commit"},
         jobs' = [jobs EXCEPT ![p].step = s],
         s = "key" => jobs[p].op \in {"onboard", "rotate"},
         s = "clear" => jobs[p].op \in {"rotate", "delete"},
         s \in {"update", "commit"} => jobs[p].op = "rename"
  PROVE  JobsOK'
<1>1. IsJob(jobs[p]) BY DEF JobsOK
<1>2. jobs[p] \in JobRecords /\ jobs[p].moved \subseteq Records BY <1>1 DEF IsJob, JobRecords
<1>3. jobs' = [jobs EXCEPT ![p] = After(jobs[p], jobs[p].agent, s, jobs[p].moved)] BY <1>2, Steps
<1>4. IsJob(After(jobs[p], jobs[p].agent, s, jobs[p].moved)) BY <1>1, <1>2, Stepped
<1> QED BY <1>3, <1>4, JobMoves

LEMMA DoneMoves == ASSUME JobsOK, NEW p \in Jobs, Done(p) PROVE JobsOK'
BY JobMoves DEF Done

LEMMA LostGuard == ASSUME GuardOK, now \in Nat, NEW a, now' = now PROVE
  guard' = Lost(guard, a) => GuardOK'
<1> SUFFICES ASSUME guard' = Lost(guard, a) PROVE GuardOK' OBVIOUS
<1>1. guard' = [k \in Keys |-> guard'[k]] BY DEF GuardOK, Lost
<1>2. ASSUME NEW k \in Keys, guard'[k] # None PROVE IsGuardEntry(guard'[k], now')
  <2>1. guard[k] # None /\ IsGuardEntry(guard[k], now) BY <1>2 DEF GuardOK, Lost
  <2>2. guard'[k] = guard[k] \/ guard'[k] = [guard[k] EXCEPT !.lost = now]
    BY <1>2 DEF Lost, GuardOK
  <2> QED BY <2>1, <2>2 DEF IsGuardEntry, IsEntry
<1> QED BY <1>1, <1>2 DEF GuardOK

LEMMA LostResolved == ASSUME ResolvedOK, now \in Nat, NEW a, now' = now PROVE
  resolved' = Lost(resolved, a) => ResolvedOK'
<1> SUFFICES ASSUME resolved' = Lost(resolved, a) PROVE ResolvedOK' OBVIOUS
<1>1. resolved' = [k \in Names |-> resolved'[k]] BY DEF ResolvedOK, Lost
<1>2. ASSUME NEW k \in Names, resolved'[k] # None PROVE IsResolvedEntry(resolved'[k], now')
  <2>1. resolved[k] # None /\ IsResolvedEntry(resolved[k], now) BY <1>2 DEF ResolvedOK, Lost
  <2>2. resolved'[k] = resolved[k] \/ resolved'[k] = [resolved[k] EXCEPT !.lost = now]
    BY <1>2 DEF Lost, ResolvedOK
  <2> QED BY <2>1, <2>2 DEF IsResolvedEntry, IsEntry
<1> QED BY <1>1, <1>2 DEF ResolvedOK

LEMMA CleanGuard == ASSUME ClearCache, RequestsOK PROVE GuardOK' /\ RequestsOK'
<1>1. GuardOK' BY DEF ClearCache, GuardOK
<1>2. ASSUME NEW q \in Requests, requests'[q] # None PROVE IsRequest(requests'[q])
  <2>1. CASE requests[q] # None /\ requests[q].step = "looking"
    <3>1. requests'[q] = [requests[q] EXCEPT !.raced = TRUE] BY <2>1 DEF ClearCache
    <3>2. IsRequest(requests[q]) BY <2>1 DEF RequestsOK
    <3>3. requests'[q] = [step |-> "looking", key |-> requests[q].key, agent |-> requests[q].agent,
                          name |-> requests[q].name, raced |-> TRUE]
      BY <2>1, <3>1, <3>2 DEF IsRequest
    <3> QED BY <3>2, <3>3, <2>1 DEF IsRequest
  <2>2. CASE ~(requests[q] # None /\ requests[q].step = "looking")
    BY <1>2, <2>2 DEF ClearCache, RequestsOK, IsRequest
  <2> QED BY <2>1, <2>2
<1>3. requests' = [q \in Requests |-> requests'[q]] BY DEF ClearCache
<1> QED BY <1>1, <1>2, <1>3 DEF RequestsOK

LEMMA RecordTyped ==
  ASSUME records \subseteq Records, NEW a \in Agents, NEW n \in Names, NEW t \in Tables,
         Record(t, a, n)
  PROVE  records' \subseteq Records
<1>1. PICK l \in BOOLEAN :
        records' = records \cup {[table |-> t, agent |-> a, name |-> n, late |-> l]}
  <2>1. (Renaming(a) \/ agents[a].name # n) \in BOOLEAN OBVIOUS
  <2> QED BY <2>1, Zenon DEF Record
<1>2. [table |-> t, agent |-> a, name |-> n, late |-> l] \in Records BY DEF Records
<1> QED BY <1>1, <1>2

Starting(op, a, n, to, s) ==
  [op |-> op, agent |-> a, name |-> n, to |-> to, step |-> s, moved |-> {}]

\* A call that starts is one of these, and knows an agent that is there, if any.
LEMMA Starts ==
  ASSUME NEW p \in Jobs, Start(p)
  PROVE  \E j : /\ IsJob(j) /\ j.moved = {} /\ j.step \notin {"clear", "commit"}
                /\ j.step # "agent" => Live(j.agent)
                /\ jobs[p] = None /\ jobs' = [jobs EXCEPT ![p] = j]
                /\ UNCHANGED <<agents, keys, records, guard, resolved, requests, lookups,
                               now, crossed>>
<1>. DEFINE Good(j) == /\ IsJob(j) /\ j.moved = {} /\ j.step \notin {"clear", "commit"}
                       /\ j.step # "agent" => Live(j.agent)
<1>1. ASSUME NEW op, NEW n, NEW s, NEW a, NEW to, Begin(p, op, n, s, a, to),
             Good(Starting(op, a, n, to, s))
      PROVE  \E j : /\ Good(j) /\ jobs[p] = None /\ jobs' = [jobs EXCEPT ![p] = j]
                    /\ UNCHANGED <<agents, keys, records, guard, resolved, requests,
                                   lookups, now, crossed>>
  BY <1>1 DEF Begin, Starting
<1>a. ASSUME NEW op, NEW a, NEW n, NEW to, NEW s, NEW j,
             j = Starting(op, a, n, to, s), j \in JobRecords
      PROVE  j.op = op /\ j.agent = a /\ j.name = n /\ j.to = to /\ j.step = s /\ j.moved = {}
  BY <1>a DEF Starting
<1>b. {} \in SUBSET Records OBVIOUS
<1>c. ASSUME NEW op \in Ops, NEW a \in Agents \cup {None}, NEW n \in Names \cup {None},
             NEW to \in Names \cup {None}, NEW s \in JobSteps, s \notin {"clear", "commit"},
             s # "agent" => a \in Agents /\ Live(a),
             op \in {"delete", "rename", "rule"} => n \in Names,
             op \in {"onboard", "duplicate", "rename"} => to \in Names,
             \/ s = "agent" /\ op \in {"onboard", "duplicate"}
             \/ s = "delete" /\ op = "rotate"
             \/ s = "remove" /\ op = "delete"
             \/ s = "check" /\ op = "rename"
             \/ s = "rule" /\ op = "rule"
      PROVE  Good(Starting(op, a, n, to, s))
  <2>1. PICK j : j = Starting(op, a, n, to, s) OBVIOUS
  <2>2. j \in JobRecords BY <1>b, <2>1, MakeJob DEF Starting
  <2>3. j.op = op /\ j.agent = a /\ j.name = n /\ j.to = to /\ j.step = s /\ j.moved = {}
    BY <2>1, <2>2, <1>a
  <2>4. IsJob(j) BY <1>c, <2>2, <2>3 DEF IsJob
  <2> QED BY <1>c, <2>1, <2>3, <2>4
<1>. HIDE DEF Good
<1>5. ASSUME NEW n \in Names, Onboard(p, n) PROVE
        \E op, m, s, a, to : Begin(p, op, m, s, a, to) /\ Good(Starting(op, a, m, to, s))
  <2>1. Good(Starting("onboard", None, None, n, "agent")) BY <1>c DEF Ops, JobSteps
  <2> QED BY <1>5, <2>1 DEF Onboard
<1>6. ASSUME NEW n \in Names, NEW a \in Agents, Rotate(p, a, n) \/ Delete(p, a, n) \/ CreateRule(p, a, n)
      PROVE \E op, m, s, b, to : Begin(p, op, m, s, b, to) /\ Good(Starting(op, b, m, to, s))
  <2>1. Live(a) BY <1>6 DEF Rotate, Delete, CreateRule, Holds
  <2>2. Good(Starting("rotate", a, None, None, "delete")) BY <2>1, <1>c DEF Ops, JobSteps
  <2>3. Good(Starting("delete", a, n, None, "remove")) BY <2>1, <1>c DEF Ops, JobSteps
  <2>4. Good(Starting("rule", a, n, None, "rule")) BY <2>1, <1>c DEF Ops, JobSteps
  <2> QED BY <1>6, <2>2, <2>3, <2>4 DEF Rotate, Delete, CreateRule
<1>7. ASSUME NEW n \in Names, NEW a \in Agents, NEW to \in Names, Duplicate(p, a, n, to) \/ Rename(p, a, n, to)
      PROVE \E op, m, s, b, t : Begin(p, op, m, s, b, t) /\ Good(Starting(op, b, m, t, s))
  <2>1. Live(a) BY <1>7 DEF Duplicate, Rename, Holds
  <2>2. Good(Starting("duplicate", None, None, to, "agent")) BY <1>c DEF Ops, JobSteps
  <2>3. Good(Starting("rename", a, n, to, "check")) BY <2>1, <1>c DEF Ops, JobSteps
  <2> QED BY <1>7, <2>2, <2>3 DEF Duplicate, Rename
<1>8. \E op, m, s, b, t : Begin(p, op, m, s, b, t) /\ Good(Starting(op, b, m, t, s))
  BY <1>5, <1>6, <1>7 DEF Start
<1> QED BY <1>1, <1>8 DEF Good

LEMMA TypeBegin ==
  ASSUME TypeOK, NEW p \in Jobs, Start(p)
  PROVE  TypeOK'
<1>1. JobsOK' BY Starts, JobMoves DEF TypeOK
<1>2. UNCHANGED <<agents, keys, records, guard, resolved, requests, lookups, now>> BY Starts
<1> QED BY <1>1, <1>2 DEF TypeOK, AgentsOK, KeysOK, GuardOK, ResolvedOK, RequestsOK, LookupsOK, Live

LEMMA BecomeTyped == ASSUME KeysOK, NEW K,
    NEW s \in {"unused", "active", "inactive", "gone"},
    K \subseteq {k \in Keys : keys[k].agent \in Agents}, keys' = Become(K, s)
  PROVE KeysOK'
<1>1. ASSUME NEW k \in Keys PROVE
        /\ keys'[k] \in [state : {"unused", "active", "inactive", "gone"}, agent : Agents \cup {None}]
        /\ keys'[k].state \in {"active", "inactive"} => keys'[k].agent \in Agents
  BY DEF KeysOK, Become
<1>2. keys' = [k \in Keys |-> keys'[k]] BY DEF Become
<1> QED BY <1>1, <1>2 DEF KeysOK

LEMMA TypeGiveUp == ASSUME TypeOK, NEW p \in Jobs, GiveUp(p) PROVE TypeOK'
<1>1. JobsOK' BY DoneMoves DEF GiveUp, TypeOK
<1> QED BY <1>1 DEF GiveUp, TypeOK, AgentsOK, KeysOK, GuardOK, ResolvedOK, RequestsOK, LookupsOK, Live

\* RenameUpdate takes the records to move along.
LEMMA Taken ==
  ASSUME JobsOK, NEW p \in Jobs, RenameUpdate(p), ~GiveUp(p)
  PROVE  jobs' = [jobs EXCEPT ![p] = After(jobs[p], jobs[p].agent, "commit", ToMove(jobs[p].name))]
<1>. DEFINE j == jobs[p]
<1>1. PICK m : m = ToMove(j.name) /\ jobs' = [jobs EXCEPT ![p].moved = m, ![p].step = "commit"]
  BY DEF RenameUpdate
<1>2. j \in JobRecords BY DEF RenameUpdate, At, JobsOK, IsJob
<1>3. j = After(j, j.agent, j.step, j.moved) BY <1>2, JobShape DEF After
<1>4. [j EXCEPT !.moved = m] = After(j, j.agent, j.step, m) BY <1>3 DEF After
<1>5. [After(j, j.agent, j.step, m) EXCEPT !.step = "commit"] = After(j, j.agent, "commit", m)
  BY DEF After
<1>6. PICK i : i = [j EXCEPT !.moved = m] OBVIOUS
<1>7. jobs' = [jobs EXCEPT ![p] = [i EXCEPT !.step = "commit"]] BY <1>1, <1>6 DEF JobsOK
<1> QED BY <1>1, <1>4, <1>5, <1>6, <1>7

LEMMA TypeProceed ==
  ASSUME TypeOK, NEW p \in Jobs, Proceed(p)
  PROVE  TypeOK'
<1>. USE DEF TypeOK
<1>. DEFINE j == jobs[p]
<1>1. ASSUME NEW s, At(p, s) PROVE j # None /\ IsJob(j) /\ j.step = s
  BY <1>1 DEF At, JobsOK
<1>2. CASE InsertAgent(p) /\ ~GiveUp(p)
  <2>1. PICK a \in Fresh :
          /\ agents' = [agents EXCEPT ![a] = [state |-> "live", name |-> j.to]]
          /\ jobs' = [jobs EXCEPT ![p].agent = a, ![p].step = "key"]
          /\ UNCHANGED <<keys, records, guard, resolved, requests, lookups, now>>
    BY <1>2 DEF InsertAgent
  <2>2. IsJob(j) /\ j.op = "onboard" /\ a \in Agents BY <1>1, <1>2, <2>1 DEF InsertAgent, Fresh
  <2>3. AgentsOK' BY <2>1, <2>2 DEF AgentsOK, IsJob, Live
  <2>4. JobsOK'
    <3>1. j \in JobRecords /\ j.moved \in SUBSET Records BY <2>2 DEF IsJob, JobRecords
    <3>2. jobs' = [jobs EXCEPT ![p] = After(j, a, "key", j.moved)] BY <2>1, <3>1, Steps
    <3>3. IsJob(After(j, a, "key", j.moved)) BY <2>2, <3>1, Stepped
    <3> QED BY <3>2, <3>3, JobMoves
  <2> QED BY <2>1, <2>3, <2>4 DEF KeysOK, GuardOK, ResolvedOK, RequestsOK, LookupsOK
<1>3. CASE InsertKey(p) /\ ~GiveUp(p)
  <2>1. PICK k \in Unused : keys' = [keys EXCEPT ![k] = [state |-> "active", agent |-> j.agent]]
    BY <1>3 DEF InsertKey
  <2>2. IsJob(j) /\ j.agent \in Agents BY <1>1, <1>3 DEF InsertKey, IsJob
  <2>3. KeysOK' BY <2>1, <2>2 DEF KeysOK
  <2>4. JobsOK' BY <1>3, DoneMoves DEF InsertKey
  <2> QED BY <1>3, <2>3, <2>4 DEF InsertKey, AgentsOK, GuardOK, ResolvedOK, RequestsOK, LookupsOK, Live
<1>4. CASE InsertCopy(p) /\ ~GiveUp(p)
  <2>1. PICK a \in Fresh, k \in Unused :
          /\ agents' = [agents EXCEPT ![a] = [state |-> "live", name |-> j.to]]
          /\ keys' = [keys EXCEPT ![k] = [state |-> "active", agent |-> a]]
    BY <1>4 DEF InsertCopy
  <2>2. IsJob(j) /\ j.op = "duplicate" /\ a \in Agents BY <1>1, <1>4, <2>1 DEF InsertCopy, Fresh
  <2>3. AgentsOK' BY <2>1, <2>2 DEF AgentsOK, IsJob, Live
  <2>4. KeysOK' BY <2>1, <2>2 DEF KeysOK
  <2>5. JobsOK' BY <1>4, DoneMoves DEF InsertCopy
  <2> QED BY <1>4, <2>3, <2>4, <2>5 DEF InsertCopy, GuardOK, ResolvedOK, RequestsOK, LookupsOK
<1>5. CASE RotateDelete(p)
  <2>1. IsJob(j) /\ j # None /\ j.step = "delete" BY <1>1, <1>5 DEF RotateDelete
  <2>2. KeysOK' BY <1>5, BecomeTyped DEF RotateDelete, KeysOf, KeysOK
  <2>3. GuardOK' BY <1>5, LostGuard DEF RotateDelete
  <2>4. j.agent \in Agents /\ j.op = "rotate" BY <2>1 DEF IsJob
  <2>5. JobsOK' BY <1>5, <2>1, <2>4, StepMoves DEF RotateDelete, Goto
  <2> QED BY <1>5, <2>2, <2>3, <2>5 DEF RotateDelete, AgentsOK, ResolvedOK, RequestsOK, LookupsOK, Live
<1>6. CASE RotateClear(p)
  <2>1. IsJob(j) /\ j # None /\ j.step = "clear" /\ j.op = "rotate"
    BY <1>1, <1>6 DEF RotateClear
  <2>2. GuardOK' /\ RequestsOK' BY <1>6, CleanGuard DEF RotateClear
  <2>4. j.agent \in Agents BY <2>1 DEF IsJob
  <2>5. JobsOK' BY <1>6, <2>1, <2>4, StepMoves DEF RotateClear, Goto
  <2> QED BY <1>6, <2>2, <2>5 DEF RotateClear, AgentsOK, KeysOK, ResolvedOK, LookupsOK, Live
<1>7. CASE DeleteCommit(p)
  <2>1. IsJob(j) /\ j # None /\ j.step = "remove" BY <1>1, <1>7 DEF DeleteCommit
  <2>2. KeysOK' BY <1>7, BecomeTyped DEF DeleteCommit, KeysOf, KeysOK
  <2>3. GuardOK' BY <1>7, LostGuard DEF DeleteCommit
  <2>4. ResolvedOK' BY <1>7, LostResolved DEF DeleteCommit
  <2>5. j.agent \in Agents /\ j.op = "delete" BY <2>1 DEF IsJob
  <2>6. JobsOK' BY <1>7, <2>1, <2>5, StepMoves DEF DeleteCommit, Goto
  <2>7. AgentsOK' BY <1>7 DEF DeleteCommit, AgentsOK, Live
  <2> QED BY <1>7, <2>2, <2>3, <2>4, <2>6, <2>7 DEF DeleteCommit, RequestsOK, LookupsOK
<1>8. CASE DeleteClear(p)
  <2>1. GuardOK' /\ RequestsOK' BY <1>8, CleanGuard DEF DeleteClear
  <2>2. JobsOK' BY <1>8, DoneMoves DEF DeleteClear
  <2>3. ResolvedOK' BY <1>8 DEF DeleteClear, ResolvedOK
  <2>4. LookupsOK'
    <3>1. lookups' = [n \in Names |-> lookups'[n]] BY <1>8 DEF DeleteClear, LookupsOK
    <3>2. ASSUME NEW n \in Names, lookups'[n] # None PROVE IsLookup(lookups'[n])
      <4>1. lookups[n] # None /\ IsLookup(lookups[n]) BY <1>8, <3>2 DEF DeleteClear, LookupsOK
      <4>2. lookups'[n] \in {lookups[n], [lookups[n] EXCEPT !.raced = TRUE]}
        BY <1>8, <3>2, <4>1 DEF DeleteClear, LookupsOK
      <4> QED BY <4>1, <4>2 DEF IsLookup
    <3> QED BY <3>1, <3>2 DEF LookupsOK
  <2> QED BY <1>8, <2>1, <2>2, <2>3, <2>4 DEF DeleteClear, AgentsOK, KeysOK, Live
<1>9. CASE RenameCheck(p) /\ ~GiveUp(p)
  <2>1. IsJob(j) /\ j # None /\ j.step = "check" BY <1>1, <1>9 DEF RenameCheck
  <2>2. j.agent \in Agents /\ j.op = "rename" BY <2>1 DEF IsJob
  <2>3. JobsOK' BY <1>9, <2>1, <2>2, StepMoves DEF RenameCheck, Goto
  <2> QED BY <1>9, <2>3 DEF RenameCheck, AgentsOK, KeysOK, GuardOK, ResolvedOK, RequestsOK, LookupsOK, Live
<1>10. CASE RenameUpdate(p) /\ ~GiveUp(p)
  <2>1. IsJob(j) /\ j # None /\ j.step = "update" BY <1>1, <1>10 DEF RenameUpdate
  <2>2. j \in JobRecords /\ j.agent \in Agents /\ j.op = "rename" BY <2>1 DEF IsJob
  <2>3. jobs' = [jobs EXCEPT ![p] = After(j, j.agent, "commit", ToMove(j.name))] BY <1>10, Taken
  <2>4. ToMove(j.name) \subseteq Records BY DEF ToMove
  <2>5. IsJob(After(j, j.agent, "commit", ToMove(j.name))) BY <2>1, <2>2, <2>4, Stepped
  <2>6. JobsOK' BY <2>3, <2>5, JobMoves
  <2> QED BY <1>10, <2>6 DEF RenameUpdate, AgentsOK, KeysOK, GuardOK, ResolvedOK, RequestsOK, LookupsOK, Live
<1>11. CASE RenameCommit(p)
  <2>1. IsJob(j) /\ j # None /\ j.step = "commit" BY <1>1, <1>11 DEF RenameCommit
  <2>2. GuardOK' BY <1>11, LostGuard DEF RenameCommit
  <2>3. ResolvedOK' BY <1>11, LostResolved DEF RenameCommit
  <2>4. JobsOK' BY <1>11, DoneMoves DEF RenameCommit
  <2>5. AgentsOK' BY <1>11, <2>1 DEF RenameCommit, AgentsOK, Live, IsJob
  <2>6. (records \subseteq Records)'
    <3>1. records' = (records \ j.moved) \cup {[r EXCEPT !.name = j.to] : r \in j.moved}
      BY <1>11 DEF RenameCommit
    <3>2. j.moved \subseteq Records /\ j.to \in Names BY <2>1 DEF IsJob, JobRecords
    <3> QED BY <3>1, <3>2 DEF Records
  <2> QED BY <1>11, <2>2, <2>3, <2>4, <2>5, <2>6 DEF RenameCommit, KeysOK, RequestsOK, LookupsOK
<1>12. CASE InsertRule(p)
  <2>1. IsJob(j) /\ j # None /\ j.step = "rule" BY <1>1, <1>12 DEF InsertRule
  <2>2. JobsOK' BY <1>12, DoneMoves DEF InsertRule
  <2>3. (records \subseteq Records)'
    BY <1>12, <2>1, RecordTyped DEF InsertRule, IsJob, Tables
  <2> QED BY <1>12, <2>2, <2>3 DEF InsertRule, AgentsOK, KeysOK, GuardOK, ResolvedOK, RequestsOK, LookupsOK, Live
<1>13. CASE GiveUp(p) BY <1>13, TypeGiveUp
<1> QED
  BY <1>2, <1>3, <1>4, <1>5, <1>6, <1>7, <1>8, <1>9, <1>10, <1>11, <1>12, <1>13 DEF Proceed

LEMMA TypeStep == TypeOK /\ [Next]_vars => TypeOK'
<1> SUFFICES ASSUME TypeOK, [Next]_vars PROVE TypeOK' OBVIOUS
<1>1. ASSUME NEW q \in Requests, Admit(q) PROVE TypeOK'
  <2>. DEFINE f == requests[q]
  <2>1. f # None /\ IsRequest(f) /\ f.key \in Keys
    BY <1>1 DEF Admit, TypeOK, RequestsOK, IsRequest
  <2>2. PICK l \in Nat \cup {None} : guard' = [Unexpired EXCEPT ![f.key] =
          [agent |-> f.agent, name |-> f.name, expires |-> now + KeyTtl, raced |-> f.raced, lost |-> l]]
    BY <1>1 DEF Admit, Since, TypeOK
  <2>3. now + KeyTtl \in Nat BY AgentKeysAssumption DEF TypeOK
  <2>4. GuardOK'
    <3>1. guard' = [k \in Keys |-> guard'[k]] BY <2>2 DEF Unexpired
    <3>2. ASSUME NEW k \in Keys \ {f.key} PROVE guard'[k] \in {guard[k], None}
      BY <2>2, <3>2 DEF Unexpired
    <3>3. guard'[f.key] = [agent |-> f.agent, name |-> f.name, expires |-> now + KeyTtl,
                           raced |-> f.raced, lost |-> l]
      BY <2>1, <2>2 DEF Unexpired
    <3>4. IsGuardEntry(guard'[f.key], now) BY <2>1, <2>3, <3>3 DEF IsGuardEntry, IsEntry, IsRequest
    <3>5. now' = now BY <1>1 DEF Admit
    <3> QED BY <3>1, <3>2, <3>4, <3>5 DEF GuardOK, TypeOK
  <2>5. RequestsOK' BY <1>1, <2>1 DEF Admit, RequestsOK, TypeOK, IsRequest
  <2> QED BY <1>1, <2>4, <2>5 DEF Admit, TypeOK, AgentsOK, KeysOK, ResolvedOK, LookupsOK, JobsOK, Live
<1>2. ASSUME NEW q \in Requests, Leave(q) PROVE TypeOK'
  <2>1. requests[q] # None /\ IsRequest(requests[q]) BY <1>2 DEF Leave, TypeOK, RequestsOK
  <2>2. (records \subseteq Records)'
    BY <1>2, <2>1, RecordTyped DEF Leave, IsRequest, Tables, TypeOK
  <2>3. RequestsOK' BY <1>2 DEF Leave, RequestsOK, TypeOK
  <2> QED BY <1>2, <2>2, <2>3 DEF Leave, TypeOK, AgentsOK, KeysOK, GuardOK, ResolvedOK, LookupsOK, JobsOK, Live
<1>3. ASSUME NEW q \in Requests, NEW k \in Keys, Hit(q, k), guard[k] # None PROVE TypeOK'
  <2>1. IsGuardEntry(guard[k], now) BY <1>3 DEF TypeOK, GuardOK
  <2>2. RequestsOK' BY <1>3, <2>1 DEF Hit, TypeOK, RequestsOK, IsRequest, IsGuardEntry, IsEntry
  <2> QED BY <1>3, <2>2 DEF Hit, Touched, TypeOK, AgentsOK, KeysOK, GuardOK, ResolvedOK, LookupsOK, JobsOK, Live
<1>4. ASSUME NEW q \in Requests, NEW k \in Keys, Look(q, k) PROVE TypeOK'
  <2>1. keys[k].agent \in Agents /\ agents[keys[k].agent].name \in Names
    BY <1>4 DEF Look, TypeOK, KeysOK, AgentsOK, Valid
  <2>2. requests' = [requests EXCEPT ![q] =
          [step |-> "looking", key |-> k, agent |-> keys[k].agent,
           name |-> agents[keys[k].agent].name, raced |-> FALSE]]
    BY <1>4 DEF Look
  <2>3. IsRequest(requests'[q])
    <3>1. requests'[q] = [step |-> "looking", key |-> k, agent |-> keys[k].agent,
                          name |-> agents[keys[k].agent].name, raced |-> FALSE]
      BY <2>2 DEF TypeOK, RequestsOK
    <3> QED BY <2>1, <3>1 DEF IsRequest
  <2>4. /\ requests' = [r \in Requests |-> requests'[r]]
        /\ \A r \in Requests \ {q} : requests'[r] = requests[r]
    BY <2>2 DEF TypeOK, RequestsOK
  <2>5. RequestsOK' BY <2>3, <2>4 DEF TypeOK, RequestsOK
  <2> QED BY <1>4, <2>5 DEF Look, TypeOK, AgentsOK, KeysOK, GuardOK, ResolvedOK, LookupsOK, JobsOK, Live
<1>5. ASSUME NEW n \in Names, Find(n) PROVE TypeOK'
  <2>1. ResolvedOK' BY <1>5 DEF Find, TypeOK, ResolvedOK
  <2>2. LookupsOK'
    <3>1. PICK a \in Agents : lookups' = [lookups EXCEPT ![n] = [agent |-> a, raced |-> FALSE]]
      BY <1>5 DEF Find
    <3>2. IsLookup([agent |-> a, raced |-> FALSE]) BY DEF IsLookup
    <3> QED BY <3>1, <3>2 DEF TypeOK, LookupsOK
  <2> QED BY <1>5, <2>1, <2>2 DEF Find, TypeOK, AgentsOK, KeysOK, GuardOK, RequestsOK, JobsOK, Live
<1>6. ASSUME NEW n \in Names, Keep(n) PROVE TypeOK'
  <2>1. lookups[n] # None /\ IsLookup(lookups[n]) BY <1>6 DEF Keep, TypeOK, LookupsOK
  <2>2. PICK l \in Nat \cup {None} : resolved' = [resolved EXCEPT ![n] =
          [agent |-> lookups[n].agent, expires |-> now + AgentTtl, raced |-> lookups[n].raced,
           lost |-> l]]
    BY <1>6 DEF Keep, Since, TypeOK
  <2>3. now + AgentTtl \in Nat /\ now' = now BY <1>6, AgentKeysAssumption DEF TypeOK, Keep
  <2>4. ResolvedOK'
    <3>1. IsResolvedEntry(resolved'[n], now)
      BY <2>1, <2>2, <2>3 DEF TypeOK, ResolvedOK, IsResolvedEntry, IsEntry, IsLookup
    <3> QED BY <2>2, <2>3, <3>1 DEF TypeOK, ResolvedOK
  <2>5. LookupsOK' BY <1>6 DEF Keep, TypeOK, LookupsOK
  <2> QED BY <1>6, <2>4, <2>5 DEF Keep, TypeOK, AgentsOK, KeysOK, GuardOK, RequestsOK, JobsOK, Live
<1>7. CASE EvictExpired
  BY <1>7 DEF EvictExpired, Unexpired, TypeOK, AgentsOK, KeysOK, GuardOK, ResolvedOK, RequestsOK,
              LookupsOK, JobsOK, Live
<1>8. CASE Tick
  <2>1. now' = now + 1 /\ now' \in Nat BY <1>8 DEF Tick, TypeOK
  <2>2. GuardOK' BY <1>8, <2>1, AgentKeysAssumption DEF Tick, TypeOK, GuardOK, IsGuardEntry, IsEntry
  <2>3. ResolvedOK' BY <1>8, <2>1, AgentKeysAssumption DEF Tick, TypeOK, ResolvedOK, IsResolvedEntry, IsEntry
  <2> QED BY <1>8, <2>1, <2>2, <2>3 DEF Tick, TypeOK, AgentsOK, KeysOK, RequestsOK, LookupsOK, JobsOK, Live
<1>9. CASE UNCHANGED vars
  BY <1>9 DEF vars, TypeOK, AgentsOK, KeysOK, GuardOK, ResolvedOK, RequestsOK, LookupsOK, JobsOK, Live
<1>10. ASSUME NEW p \in Jobs, Fail(p) PROVE TypeOK' BY <1>10, TypeGiveUp DEF Fail
<1>11. ASSUME NEW q \in Requests, NEW k \in Keys, Hit(q, k) PROVE guard[k] # None
  BY <1>11 DEF Hit, Expired
<1> QED
  BY <1>1, <1>2, <1>3, <1>4, <1>5, <1>6, <1>7, <1>8, <1>9, <1>10, <1>11, TypeBegin, TypeProceed
    DEF Next

\* Steps after which what the caches say, and what lookups have read, is as true
\* as before, or forgotten.
Keeps ==
  /\ \A a \in Agents : agents[a].state # "none" => agents'[a] = agents[a]
  /\ \A k \in Keys : /\ keys[k].state # "unused" => keys'[k] = keys[k]
                     /\ guard'[k] \in {guard[k], None}
  /\ \A n \in Names : resolved'[n] \in {resolved[n], None}
  /\ \A q \in Requests : requests'[q] # None /\ requests'[q].step = "looking" =>
       /\ requests[q] # None /\ requests[q].step = "looking"
       /\ requests'[q].key = requests[q].key /\ requests'[q].agent = requests[q].agent
       /\ requests[q].raced => requests'[q].raced

LEMMA ClearKeeps ==
  ASSUME TypeOK, ClearCache, UNCHANGED <<agents, keys>>,
         \A n \in Names : resolved'[n] \in {resolved[n], None}
  PROVE  /\ Keeps
         /\ \A k \in Keys : guard'[k] = None
         /\ \A q \in Requests : requests'[q] # None /\ requests'[q].step = "looking" => requests'[q].raced
<1>1. ASSUME NEW q \in Requests, requests'[q] # None, requests'[q].step = "looking" PROVE
       /\ requests[q] # None /\ requests[q].step = "looking"
       /\ requests'[q].key = requests[q].key /\ requests'[q].agent = requests[q].agent
       /\ requests'[q].raced
  <2>1. requests[q] # None /\ requests[q].step = "looking" BY <1>1 DEF ClearCache
  <2>2. requests'[q] = [requests[q] EXCEPT !.raced = TRUE] BY <2>1 DEF ClearCache
  <2>3. IsRequest(requests[q]) BY <2>1 DEF TypeOK, RequestsOK
  <2>4. requests'[q] = [step |-> "looking", key |-> requests[q].key, agent |-> requests[q].agent,
                        name |-> requests[q].name, raced |-> TRUE]
      BY <2>1, <2>2, <2>3 DEF IsRequest
  <2> QED BY <2>1, <2>4
<1>2. \A k \in Keys : guard'[k] = None BY DEF ClearCache
<1> QED BY <1>1, <1>2 DEF Keeps

\* Every step keeps, but for those that revoke, rename or cache.
LEMMA StepKeeps ==
  ASSUME TypeOK, [Next]_vars
  PROVE  \/ Keeps
         \/ \E p \in Jobs : RotateDelete(p) \/ DeleteCommit(p) \/ RenameCommit(p)
         \/ \E q \in Requests : Admit(q) \/ \E k \in Keys : Look(q, k)
         \/ \E n \in Names : Keep(n)
<1>1. ASSUME UNCHANGED <<agents, keys, guard, resolved, requests>> PROVE Keeps BY <1>1 DEF Keeps
<1>2. ASSUME NEW p \in Jobs, GiveUp(p) PROVE Keeps BY <1>1, <1>2 DEF GiveUp
<1>3. ASSUME NEW p \in Jobs, Start(p) PROVE Keeps BY <1>1, <1>3, Starts
<1>4. ASSUME NEW p \in Jobs, InsertAgent(p) \/ InsertKey(p) \/ InsertCopy(p), ~GiveUp(p) PROVE Keeps
  <2>1. UNCHANGED <<guard, resolved, requests>>
    BY <1>4 DEF InsertAgent, InsertKey, InsertCopy
  <2>2. \A a \in Agents : agents[a].state # "none" => agents'[a] = agents[a]
    BY <1>4 DEF InsertAgent, InsertKey, InsertCopy, Fresh, TypeOK, AgentsOK
  <2>3. \A k \in Keys : keys[k].state # "unused" => keys'[k] = keys[k]
    BY <1>4 DEF InsertAgent, InsertKey, InsertCopy, Unused, TypeOK, KeysOK
  <2> QED BY <2>1, <2>2, <2>3 DEF Keeps
<1>5. ASSUME NEW p \in Jobs, RotateClear(p) \/ DeleteClear(p) PROVE Keeps
  BY <1>5, ClearKeeps DEF RotateClear, DeleteClear, TypeOK, ResolvedOK
<1>6. ASSUME NEW p \in Jobs, RenameCheck(p) \/ RenameUpdate(p) \/ InsertRule(p) PROVE Keeps
  BY <1>1, <1>2, <1>6 DEF RenameCheck, RenameUpdate, InsertRule
<1>7. ASSUME NEW q \in Requests, Leave(q) PROVE Keeps
  BY <1>7 DEF Leave, Keeps, TypeOK, RequestsOK
<1>8. ASSUME NEW q \in Requests, NEW k \in Keys, Hit(q, k) PROVE Keeps
  BY <1>8 DEF Hit, Touched, Keeps, TypeOK, RequestsOK
<1>9. ASSUME NEW n \in Names, Find(n) PROVE Keeps
  BY <1>9 DEF Find, Keeps, TypeOK, ResolvedOK
<1>10. CASE EvictExpired BY <1>10 DEF EvictExpired, Unexpired, Keeps
<1>11. CASE Tick BY <1>1, <1>11 DEF Tick
<1>12. CASE UNCHANGED vars BY <1>1, <1>12 DEF vars
<1> QED
  BY <1>2, <1>3, <1>4, <1>5, <1>6, <1>7, <1>8, <1>9, <1>10, <1>11, <1>12 DEF Next, Proceed, Fail

LEMMA TellInit == Init => EntriesTell
BY DEF Init, EntriesTell

LEMMA TellKeeps == ASSUME TypeOK, EntriesTell, Keeps PROVE EntriesTell'
<1>1. ASSUME NEW k \in Keys, guard'[k] # None PROVE
       /\ keys'[k].agent = guard'[k].agent /\ keys'[k].state # "unused"
       /\ guard'[k].lost = None => Valid(k)' /\ Holds(guard[k].agent, guard[k].name)'
       /\ guard'[k].lost # None => guard'[k].expires <= guard'[k].lost + KeyTtl
  <2>1. guard'[k] = guard[k] /\ keys'[k] = keys[k] BY <1>1 DEF Keeps, EntriesTell
  <2>2. guard[k].agent \in Agents BY <1>1, <2>1 DEF TypeOK, GuardOK, IsGuardEntry, IsEntry
  <2>3. guard[k].lost = None => agents'[guard[k].agent] = agents[guard[k].agent]
    BY <1>1, <2>1, <2>2 DEF Keeps, EntriesTell, Valid, Holds, Live
  <2> QED BY <1>1, <2>1, <2>2, <2>3 DEF EntriesTell, Valid, Holds, Live
<1>2. ASSUME NEW n \in Names, resolved'[n] # None PROVE
       /\ resolved'[n].lost = None => Holds(resolved[n].agent, n)'
       /\ resolved'[n].lost # None => resolved'[n].expires <= resolved'[n].lost + AgentTtl
  <2>1. resolved'[n] = resolved[n] BY <1>2 DEF Keeps
  <2>2. resolved[n].agent \in Agents BY <1>2, <2>1 DEF TypeOK, ResolvedOK, IsResolvedEntry, IsEntry
  <2> QED BY <1>2, <2>1, <2>2 DEF EntriesTell, Holds, Live, Keeps
<1>3. ASSUME NEW q \in Requests, requests'[q] # None, requests'[q].step = "looking"
      PROVE  LET k == requests'[q].key IN keys'[k].agent = requests'[q].agent /\ keys'[k].state # "unused"
  <2>1. requests[q] # None /\ requests[q].step = "looking" /\ requests[q].key \in Keys
    BY <1>3 DEF Keeps, TypeOK, RequestsOK, IsRequest
  <2> QED BY <1>3, <2>1 DEF Keeps, EntriesTell
<1> QED BY <1>1, <1>2, <1>3 DEF EntriesTell

\* An agent loses a key, its name or its life: so do the entries that tell of it.
LEMMA TellLoses ==
  ASSUME TypeOK, EntriesTell, NEW a \in Agents,
         guard' = Lost(guard, a), now' = now, requests' = requests,
         resolved' = Lost(resolved, a) \/ (resolved' = resolved /\ agents' = agents),
         \A b \in Agents \ {a} : agents'[b] = agents[b],
         \A k \in Keys : keys'[k].agent = keys[k].agent,
         \A k \in Keys : keys[k].state # "unused" => keys'[k].state # "unused",
         \A k \in Keys : keys[k].agent # a => keys'[k] = keys[k]
  PROVE  EntriesTell'
<1>1. ASSUME NEW k \in Keys, guard'[k] # None PROVE
       /\ keys'[k].agent = guard'[k].agent /\ keys'[k].state # "unused"
       /\ guard'[k].lost = None => Valid(k)' /\ Holds(guard[k].agent, guard[k].name)'
       /\ guard'[k].lost # None => guard'[k].expires <= guard'[k].lost + KeyTtl
  <2>1. guard[k] # None /\ IsGuardEntry(guard[k], now) BY <1>1 DEF Lost, TypeOK, GuardOK
  <2>2. CASE guard[k].agent = a /\ guard[k].lost = None
    <3>1. guard'[k] = [guard[k] EXCEPT !.lost = now] BY <1>1, <2>1, <2>2 DEF Lost, TypeOK, GuardOK
    <3>2. guard'[k] = [agent |-> guard[k].agent, name |-> guard[k].name, expires |-> guard[k].expires,
                       raced |-> guard[k].raced, lost |-> now]
      BY <2>1, <3>1 DEF IsGuardEntry
    <3> QED BY <2>1, <3>2, NoneAssumption DEF EntriesTell, IsGuardEntry, IsEntry, TypeOK
  <2>3. CASE ~(guard[k].agent = a /\ guard[k].lost = None)
    <3>1. guard'[k] = guard[k] BY <1>1, <2>1, <2>3 DEF Lost, TypeOK, GuardOK
    <3> QED BY <1>1, <2>1, <2>3, <3>1 DEF EntriesTell, IsGuardEntry, IsEntry, Valid, Holds, Live
  <2> QED BY <2>2, <2>3
<1>2. ASSUME NEW n \in Names, resolved'[n] # None PROVE
       /\ resolved'[n].lost = None => Holds(resolved[n].agent, n)'
       /\ resolved'[n].lost # None => resolved'[n].expires <= resolved'[n].lost + AgentTtl
  <2>0. CASE resolved' = resolved /\ agents' = agents BY <1>2, <2>0 DEF EntriesTell, Holds, Live
  <2>a. CASE resolved' = Lost(resolved, a)
    <3>1. resolved[n] # None /\ IsResolvedEntry(resolved[n], now) BY <1>2, <2>a DEF Lost, TypeOK, ResolvedOK
    <3>2. CASE resolved[n].agent = a /\ resolved[n].lost = None
      <4>1. resolved'[n] = [resolved[n] EXCEPT !.lost = now] BY <1>2, <2>a, <3>1, <3>2 DEF Lost, TypeOK, ResolvedOK
      <4>2. resolved'[n] = [agent |-> resolved[n].agent, expires |-> resolved[n].expires,
                         raced |-> resolved[n].raced, lost |-> now]
        BY <3>1, <4>1 DEF IsResolvedEntry
      <4> QED BY <3>1, <4>2, NoneAssumption DEF EntriesTell, IsResolvedEntry, IsEntry, TypeOK
    <3>3. CASE ~(resolved[n].agent = a /\ resolved[n].lost = None)
      <4>1. resolved'[n] = resolved[n] BY <1>2, <2>a, <3>1, <3>3 DEF Lost, TypeOK, ResolvedOK
      <4> QED BY <1>2, <3>1, <3>3, <4>1 DEF EntriesTell, IsResolvedEntry, IsEntry, Holds, Live
    <3> QED BY <3>2, <3>3
  <2> QED BY <2>0, <2>a
<1>3. ASSUME NEW q \in Requests, requests'[q] # None, requests'[q].step = "looking"
      PROVE  LET k == requests'[q].key IN keys'[k].agent = requests'[q].agent /\ keys'[k].state # "unused"
  <2>1. requests[q].key \in Keys BY <1>3 DEF TypeOK, RequestsOK, IsRequest
  <2> QED BY <1>3, <2>1 DEF EntriesTell
<1> QED BY <1>1, <1>2, <1>3 DEF EntriesTell

LEMMA TellStep == TypeOK /\ EntriesTell /\ [Next]_vars => EntriesTell'
<1> SUFFICES ASSUME TypeOK, EntriesTell, [Next]_vars PROVE EntriesTell' OBVIOUS
<1>0. ASSUME NEW p \in Jobs, NEW s, At(p, s), s # "agent" PROVE jobs[p].agent \in Agents
  BY <1>0 DEF At, TypeOK, JobsOK, IsJob
<1>1. ASSUME NEW p \in Jobs, RotateDelete(p) PROVE EntriesTell'
  <2>1. jobs[p].agent \in Agents BY <1>0, <1>1 DEF RotateDelete
  <2> QED BY <1>1, <2>1, TellLoses DEF RotateDelete, Become, KeysOf, TypeOK, KeysOK
<1>2. ASSUME NEW p \in Jobs, DeleteCommit(p) PROVE EntriesTell'
  <2>1. jobs[p].agent \in Agents BY <1>0, <1>2 DEF DeleteCommit
  <2> QED BY <1>2, <2>1, TellLoses DEF DeleteCommit, Become, KeysOf, TypeOK, KeysOK, AgentsOK
<1>3. ASSUME NEW p \in Jobs, RenameCommit(p) PROVE EntriesTell'
  <2>1. jobs[p].agent \in Agents BY <1>0, <1>3 DEF RenameCommit
  <2> QED BY <1>3, <2>1, TellLoses DEF RenameCommit, TypeOK, AgentsOK
<1>4. ASSUME NEW q \in Requests, Admit(q) PROVE EntriesTell'
  <2>. DEFINE f == requests[q]
  <2>1. f # None /\ IsRequest(f) /\ f.key \in Keys /\ f.step = "looking"
    BY <1>4 DEF Admit, TypeOK, RequestsOK, IsRequest
  <2>2. PICK l \in Nat \cup {None} :
          /\ guard' = [Unexpired EXCEPT ![f.key] =
               [agent |-> f.agent, name |-> f.name, expires |-> now + KeyTtl, raced |-> f.raced, lost |-> l]]
          /\ l = None => Valid(f.key) /\ Holds(f.agent, f.name)
          /\ l # None => l = now
    BY <1>4, NoneAssumption DEF Admit, Since, TypeOK
  <2>3. /\ \A k \in Keys \ {f.key} : guard'[k] \in {guard[k], None}
        /\ guard'[f.key] = [agent |-> f.agent, name |-> f.name, expires |-> now + KeyTtl,
                            raced |-> f.raced, lost |-> l]
    BY <2>1, <2>2 DEF Unexpired
  <2>4. UNCHANGED <<agents, keys, resolved, now>> BY <1>4 DEF Admit
  <2>5. keys[f.key].agent = f.agent /\ keys[f.key].state # "unused" BY <2>1 DEF EntriesTell
  <2>6. \A r \in Requests : requests'[r] # None /\ requests'[r].step = "looking" => requests'[r] = requests[r]
    BY <1>4 DEF Admit, TypeOK, RequestsOK
  <2>7. now + KeyTtl <= now + KeyTtl BY AgentKeysAssumption DEF TypeOK
  <2>8. ASSUME NEW k \in Keys, guard'[k] # None PROVE
       /\ keys'[k].agent = guard'[k].agent /\ keys'[k].state # "unused"
       /\ guard'[k].lost = None => Valid(k)' /\ Holds(guard'[k].agent, guard'[k].name)
       /\ guard'[k].lost # None => guard'[k].expires <= guard'[k].lost + KeyTtl
    <3>1. CASE k = f.key BY <2>2, <2>3, <2>4, <2>5, <2>7, <3>1 DEF Valid, Live
    <3>2. CASE k # f.key BY <2>3, <2>4, <2>8, <3>2 DEF EntriesTell, Valid, Live
    <3> QED BY <3>1, <3>2
  <2> QED BY <2>4, <2>6, <2>8 DEF EntriesTell, Holds, Live
<1>5. ASSUME NEW q \in Requests, NEW k \in Keys, Look(q, k) PROVE EntriesTell'
  <2>1. UNCHANGED <<agents, keys, guard, resolved>> BY <1>5 DEF Look
  <2>2. requests' = [requests EXCEPT ![q] =
          [step |-> "looking", key |-> k, agent |-> keys[k].agent,
           name |-> agents[keys[k].agent].name, raced |-> FALSE]]
    BY <1>5 DEF Look
  <2>3. requests'[q].key = k /\ requests'[q].agent = keys[k].agent
    BY <2>2 DEF TypeOK, RequestsOK
  <2>4. \A r \in Requests \ {q} : requests'[r] = requests[r] BY <2>2 DEF TypeOK, RequestsOK
  <2>5. keys[k].state # "unused" BY <1>5 DEF Look, Valid
  <2> QED BY <2>1, <2>3, <2>4, <2>5 DEF EntriesTell, Valid, Holds, Live
<1>6. ASSUME NEW n \in Names, Keep(n) PROVE EntriesTell'
  <2>1. PICK l \in Nat \cup {None} :
          /\ resolved' = [resolved EXCEPT ![n] =
               [agent |-> lookups[n].agent, expires |-> now + AgentTtl, raced |-> lookups[n].raced,
                lost |-> l]]
          /\ l = None => Holds(lookups[n].agent, n)
          /\ l # None => l = now
    BY <1>6, NoneAssumption DEF Keep, Since, TypeOK
  <2>2. now + AgentTtl <= now + AgentTtl BY AgentKeysAssumption DEF TypeOK
  <2>3. /\ \A m \in Names \ {n} : resolved'[m] = resolved[m]
        /\ resolved'[n] = [agent |-> lookups[n].agent, expires |-> now + AgentTtl,
                           raced |-> lookups[n].raced, lost |-> l]
    BY <2>1 DEF TypeOK, ResolvedOK
  <2>4. UNCHANGED <<agents, keys, guard, requests>> BY <1>6 DEF Keep
  <2> QED BY <2>1, <2>2, <2>3, <2>4 DEF EntriesTell, Valid, Holds, Live
<1> QED BY <1>1, <1>2, <1>3, <1>4, <1>5, <1>6, StepKeeps, TellKeeps

\* A key that was revoked, a name given up, an agent deleted: what a cache still
\* holds of it is gone a lifetime later, for hits do not put an entry off and
\* whatever is cached afresh was read true or is marked lost at once
\* (AgentKeyAuthGuard and ResolveAgentService).
THEOREM LostForALifetime == Spec => []StaleForALifetime
<1>1. TypeOK /\ EntriesTell => StaleForALifetime BY DEF EntriesTell, StaleForALifetime
<1> QED BY TypeInit, TypeStep, TellInit, TellStep, <1>1, PTL DEF Spec

LEMMA KnownInit == Init => AllKnown
BY DEF Init, AllKnown

\* Agents are never forgotten, so only what is new has to be looked at.
LEMMA KnownGrows ==
  ASSUME TypeOK, AllKnown,
         \A a \in Agents : Known(a) => Known(a)',
         \A r \in records' : r \in records \/ agents'[r.agent].state # "none",
         \A k \in Keys : guard'[k] # None =>
           (guard[k] # None /\ guard'[k].agent = guard[k].agent) \/ agents'[guard'[k].agent].state # "none",
         \A q \in Requests : requests'[q] # None =>
           (requests[q] # None /\ requests'[q].agent = requests[q].agent) \/ agents'[requests'[q].agent].state # "none",
         \A n \in Names : resolved'[n] # None =>
           (resolved[n] # None /\ resolved'[n].agent = resolved[n].agent) \/ agents'[resolved'[n].agent].state # "none",
         \A n \in Names : lookups'[n] # None =>
           (lookups[n] # None /\ lookups'[n].agent = lookups[n].agent) \/ agents'[lookups'[n].agent].state # "none",
         \A p \in Jobs : jobs'[p] # None /\ jobs'[p].step # "agent" =>
           \/ jobs[p] # None /\ jobs[p].step # "agent" /\ jobs'[p].agent = jobs[p].agent
           \/ agents'[jobs'[p].agent].state # "none"
  PROVE  AllKnown'
<1>1. \A r \in records : r.agent \in Agents BY DEF TypeOK, Records
<1>2. \A k \in Keys : guard[k] # None => guard[k].agent \in Agents
  BY DEF TypeOK, GuardOK, IsGuardEntry, IsEntry
<1>3. \A q \in Requests : requests[q] # None => requests[q].agent \in Agents
  BY DEF TypeOK, RequestsOK, IsRequest
<1>4. \A n \in Names : resolved[n] # None => resolved[n].agent \in Agents
  BY DEF TypeOK, ResolvedOK, IsResolvedEntry, IsEntry
<1>5. \A n \in Names : lookups[n] # None => lookups[n].agent \in Agents
  BY DEF TypeOK, LookupsOK, IsLookup
<1>6. \A p \in Jobs : jobs[p] # None /\ jobs[p].step # "agent" => jobs[p].agent \in Agents
  BY DEF TypeOK, JobsOK, IsJob
<1>7. (\A r \in records : Known(r.agent))' BY <1>1 DEF AllKnown, Known
<1>8. (\A k \in Keys : guard[k] # None => Known(guard[k].agent))' BY <1>2 DEF AllKnown, Known
<1>9. (\A q \in Requests : requests[q] # None => Known(requests[q].agent))' BY <1>3 DEF AllKnown, Known
<1>10. (\A n \in Names : resolved[n] # None => Known(resolved[n].agent))' BY <1>4 DEF AllKnown, Known
<1>11. (\A n \in Names : lookups[n] # None => Known(lookups[n].agent))' BY <1>5 DEF AllKnown, Known
<1>12. (\A p \in Jobs : jobs[p] # None /\ jobs[p].step # "agent" => Known(jobs[p].agent))'
  BY <1>6 DEF AllKnown, Known
<1> QED BY <1>7, <1>8, <1>9, <1>10, <1>11, <1>12 DEF AllKnown

\* The caches' entries keep their agent when what they say is lost, and so do
\* lookups that are overtaken.
LEMMA SameGuard ==
  ASSUME TypeOK, NEW a, guard' = Lost(guard, a), NEW k \in Keys, guard'[k] # None
  PROVE  guard[k] # None /\ guard'[k].agent = guard[k].agent /\ guard'[k].raced = guard[k].raced
<1>1. guard[k] # None /\ IsGuardEntry(guard[k], now) BY DEF Lost, TypeOK, GuardOK
<1>2. guard'[k] = guard[k] \/ guard'[k] = [guard[k] EXCEPT !.lost = now] BY DEF Lost, TypeOK, GuardOK
<1> QED BY <1>1, <1>2 DEF IsGuardEntry

LEMMA SameResolved ==
  ASSUME TypeOK, NEW a, resolved' = Lost(resolved, a), NEW n \in Names, resolved'[n] # None
  PROVE  /\ resolved[n] # None /\ resolved'[n].agent = resolved[n].agent
         /\ resolved'[n].raced = resolved[n].raced
<1>1. resolved[n] # None /\ IsResolvedEntry(resolved[n], now) BY DEF Lost, TypeOK, ResolvedOK
<1>2. resolved'[n] = resolved[n] \/ resolved'[n] = [resolved[n] EXCEPT !.lost = now]
  BY DEF Lost, TypeOK, ResolvedOK
<1> QED BY <1>1, <1>2 DEF IsResolvedEntry

LEMMA SameRequests ==
  ASSUME TypeOK, ClearCache, NEW q \in Requests, requests'[q] # None
  PROVE  requests[q] # None /\ requests'[q].agent = requests[q].agent
<1>1. requests[q] # None BY DEF ClearCache
<1>2. CASE requests[q].step = "looking"
  <2>1. requests'[q] = [requests[q] EXCEPT !.raced = TRUE] /\ IsRequest(requests[q])
    BY <1>1, <1>2 DEF ClearCache, TypeOK, RequestsOK
  <2> QED BY <1>1, <1>2, <2>1 DEF IsRequest
<1>3. CASE requests[q].step # "looking" BY <1>1, <1>3 DEF ClearCache
<1> QED BY <1>2, <1>3

LEMMA SameLookups ==
  ASSUME TypeOK, NEW p \in Jobs, DeleteClear(p), NEW n \in Names, lookups'[n] # None
  PROVE  /\ lookups[n] # None /\ lookups'[n].agent = lookups[n].agent
         /\ IF n = jobs[p].name THEN lookups'[n].raced ELSE lookups'[n] = lookups[n]
<1>1. lookups[n] # None BY DEF DeleteClear, TypeOK, LookupsOK
<1>2. CASE n = jobs[p].name
  <2>1. lookups'[n] = [lookups[n] EXCEPT !.raced = TRUE] /\ IsLookup(lookups[n])
    BY <1>1, <1>2 DEF DeleteClear, TypeOK, LookupsOK
  <2>2. lookups'[n] = [agent |-> lookups[n].agent, raced |-> TRUE] BY <2>1 DEF IsLookup
  <2> QED BY <1>1, <1>2, <2>2
<1>3. CASE n # jobs[p].name BY <1>1, <1>3 DEF DeleteClear, TypeOK, LookupsOK
<1> QED BY <1>2, <1>3

LEMMA KnownStep == TypeOK /\ AllKnown /\ CommitsReady /\ [Next]_vars => AllKnown'
<1> SUFFICES ASSUME TypeOK, AllKnown, CommitsReady, [Next]_vars PROVE AllKnown' OBVIOUS
<1>. DEFINE Alike == UNCHANGED <<agents, records, guard, requests, resolved, lookups>>
<1>1. ASSUME NEW p \in Jobs, NEW j, jobs' = [jobs EXCEPT ![p] = j],
             j # None /\ j.step # "agent" =>
               \/ j.agent \in Agents /\ Known(j.agent)
               \/ jobs[p] # None /\ jobs[p].step # "agent" /\ j.agent = jobs[p].agent
      PROVE  \A o \in Jobs : jobs'[o] # None /\ jobs'[o].step # "agent" =>
               \/ jobs[o] # None /\ jobs[o].step # "agent" /\ jobs'[o].agent = jobs[o].agent
               \/ jobs'[o].agent \in Agents /\ Known(jobs'[o].agent)
  BY <1>1 DEF TypeOK, JobsOK
<1>2. ASSUME NEW p \in Jobs, GiveUp(p) PROVE AllKnown'
  <2>1. jobs' = [jobs EXCEPT ![p] = None] /\ Alike BY <1>2 DEF GiveUp, Done
  <2> QED BY <1>1, <2>1, KnownGrows DEF Known
<1>3. ASSUME NEW p \in Jobs, Start(p) PROVE AllKnown'
  <2>1. PICK j : /\ IsJob(j) /\ (j.step # "agent" => Live(j.agent))
                 /\ jobs' = [jobs EXCEPT ![p] = j] /\ Alike
    BY <1>3, Starts
  <2>2. j.step # "agent" => j.agent \in Agents /\ Known(j.agent) BY <2>1 DEF IsJob, Known, Live
  <2> QED BY <1>1, <2>1, <2>2, KnownGrows DEF Known
<1>4. ASSUME NEW p \in Jobs, NEW s, At(p, s) PROVE
        /\ jobs[p] # None /\ IsJob(jobs[p]) /\ jobs[p].step = s
        /\ s # "agent" => jobs[p].agent \in Agents /\ Known(jobs[p].agent)
  BY <1>4 DEF At, TypeOK, JobsOK, IsJob, AllKnown
<1>5. ASSUME NEW p \in Jobs, NEW s \in JobSteps, jobs[p] # None, jobs[p].step # "agent",
             jobs' = [jobs EXCEPT ![p].step = s]
      PROVE  \A o \in Jobs : jobs'[o] # None /\ jobs'[o].step # "agent" =>
               jobs[o] # None /\ jobs[o].step # "agent" /\ jobs'[o].agent = jobs[o].agent
  <2>1. jobs[p] \in JobRecords BY <1>5 DEF TypeOK, JobsOK, IsJob
  <2>2. jobs' = [jobs EXCEPT ![p] = After(jobs[p], jobs[p].agent, s, jobs[p].moved)]
    BY <1>5, <2>1, Steps
  <2>3. After(jobs[p], jobs[p].agent, s, jobs[p].moved).agent = jobs[p].agent BY DEF After
  <2> QED BY <1>5, <2>2, <2>3 DEF TypeOK, JobsOK
<1>6. ASSUME NEW p \in Jobs, InsertAgent(p), ~GiveUp(p) PROVE AllKnown'
  <2>1. PICK a \in Fresh :
          /\ agents' = [agents EXCEPT ![a] = [state |-> "live", name |-> jobs[p].to]]
          /\ jobs' = [jobs EXCEPT ![p].agent = a, ![p].step = "key"]
          /\ UNCHANGED <<records, guard, resolved, requests, lookups>>
    BY <1>6 DEF InsertAgent
  <2>2. \A b \in Agents : Known(b) => Known(b)' BY <2>1 DEF Known, Fresh, TypeOK, AgentsOK
  <2>3. jobs[p] \in JobRecords /\ jobs[p] # None BY <1>4, <1>6 DEF InsertAgent, IsJob
  <2>4. jobs' = [jobs EXCEPT ![p] = After(jobs[p], a, "key", jobs[p].moved)] BY <2>1, <2>3, Steps
  <2>5. After(jobs[p], a, "key", jobs[p].moved).agent = a BY DEF After
  <2>6. agents'[a].state # "none" BY <2>1 DEF Fresh, TypeOK, AgentsOK
  <2>7. \A o \in Jobs : jobs'[o] # None /\ jobs'[o].step # "agent" =>
          \/ jobs[o] # None /\ jobs[o].step # "agent" /\ jobs'[o].agent = jobs[o].agent
          \/ agents'[jobs'[o].agent].state # "none"
    BY <2>4, <2>5, <2>6 DEF TypeOK, JobsOK
  <2> QED BY <2>1, <2>2, <2>7, KnownGrows
<1>7. ASSUME NEW p \in Jobs, InsertKey(p) \/ InsertCopy(p), ~GiveUp(p) PROVE AllKnown'
  <2>1. jobs' = [jobs EXCEPT ![p] = None] /\ UNCHANGED <<records, guard, resolved, requests, lookups>>
    BY <1>7 DEF InsertKey, InsertCopy, Done
  <2>2. \A b \in Agents : Known(b) => Known(b)'
    BY <1>7 DEF InsertKey, InsertCopy, Known, Fresh, TypeOK, AgentsOK
  <2>3. \A o \in Jobs : jobs'[o] # None => jobs'[o] = jobs[o] BY <2>1 DEF TypeOK, JobsOK
  <2> QED BY <2>1, <2>2, <2>3, KnownGrows
<1>8. ASSUME NEW p \in Jobs, RotateDelete(p) PROVE AllKnown'
  <2>1. UNCHANGED <<agents, records, resolved, requests, lookups>> BY <1>8 DEF RotateDelete
  <2>2. guard' = Lost(guard, jobs[p].agent) BY <1>8 DEF RotateDelete
  <2>3. jobs' = [jobs EXCEPT ![p].step = "clear"] /\ At(p, "delete") BY <1>8 DEF RotateDelete, Goto
  <2> QED BY <1>4, <1>5, <2>1, <2>2, <2>3, SameGuard, KnownGrows DEF Known, JobSteps
<1>9. ASSUME NEW p \in Jobs, RotateClear(p) PROVE AllKnown'
  <2>1. UNCHANGED <<agents, records, resolved, lookups>> /\ ClearCache BY <1>9 DEF RotateClear
  <2>2. jobs' = [jobs EXCEPT ![p].step = "key"] /\ At(p, "clear") BY <1>9 DEF RotateClear, Goto
  <2>3. \A k \in Keys : guard'[k] = None BY <2>1 DEF ClearCache
  <2> QED BY <1>4, <1>5, <2>1, <2>2, <2>3, SameRequests, KnownGrows DEF Known, JobSteps
<1>10. ASSUME NEW p \in Jobs, DeleteCommit(p) PROVE AllKnown'
  <2>1. UNCHANGED <<records, requests, lookups>> BY <1>10 DEF DeleteCommit
  <2>2. guard' = Lost(guard, jobs[p].agent) /\ resolved' = Lost(resolved, jobs[p].agent)
    BY <1>10 DEF DeleteCommit
  <2>3. jobs' = [jobs EXCEPT ![p].step = "clear"] /\ At(p, "remove") BY <1>10 DEF DeleteCommit, Goto
  <2>4. \A b \in Agents : Known(b) => Known(b)' BY <1>10 DEF DeleteCommit, Known, TypeOK, AgentsOK
  <2> QED BY <1>4, <1>5, <2>1, <2>2, <2>3, <2>4, SameGuard, SameResolved, KnownGrows DEF JobSteps
<1>11. ASSUME NEW p \in Jobs, DeleteClear(p) PROVE AllKnown'
  <2>1. UNCHANGED <<agents, records>> /\ ClearCache BY <1>11 DEF DeleteClear
  <2>2. jobs' = [jobs EXCEPT ![p] = None] BY <1>11 DEF DeleteClear, Done
  <2>3. \A k \in Keys : guard'[k] = None BY <2>1 DEF ClearCache
  <2>4. \A n \in Names : resolved'[n] # None => resolved'[n] = resolved[n]
    BY <1>11 DEF DeleteClear, TypeOK, ResolvedOK
  <2> QED BY <1>1, <1>11, <2>1, <2>2, <2>3, <2>4, SameRequests, SameLookups, KnownGrows DEF Known
<1>12. ASSUME NEW p \in Jobs, RenameCheck(p), ~GiveUp(p) PROVE AllKnown'
  <2>1. jobs' = [jobs EXCEPT ![p].step = "update"] /\ At(p, "check") /\ Alike
    BY <1>12 DEF RenameCheck, Goto
  <2> QED BY <1>4, <1>5, <2>1, KnownGrows DEF Known, JobSteps
<1>13. ASSUME NEW p \in Jobs, RenameUpdate(p), ~GiveUp(p) PROVE AllKnown'
  <2>1. jobs' = [jobs EXCEPT ![p] = After(jobs[p], jobs[p].agent, "commit", ToMove(jobs[p].name))]
    BY <1>13, Taken DEF TypeOK
  <2>2. At(p, "update") /\ Alike BY <1>13 DEF RenameUpdate
  <2>3. After(jobs[p], jobs[p].agent, "commit", ToMove(jobs[p].name)).agent = jobs[p].agent BY DEF After
  <2> QED BY <1>1, <1>4, <2>1, <2>2, <2>3, KnownGrows DEF Known
<1>14. ASSUME NEW p \in Jobs, RenameCommit(p) PROVE AllKnown'
  <2>1. UNCHANGED <<requests, lookups>> /\ At(p, "commit") BY <1>14 DEF RenameCommit
  <2>2. guard' = Lost(guard, jobs[p].agent) /\ resolved' = Lost(resolved, jobs[p].agent)
    BY <1>14 DEF RenameCommit
  <2>3. jobs' = [jobs EXCEPT ![p] = None] BY <1>14 DEF RenameCommit, Done
  <2>4. \A b \in Agents : Known(b) => Known(b)' BY <1>14 DEF RenameCommit, Known, TypeOK, AgentsOK
  <2>5. ASSUME NEW r \in records', r \notin records PROVE agents'[r.agent].state # "none"
    <3>1. PICK x \in jobs[p].moved : r = [x EXCEPT !.name = jobs[p].to] BY <1>14, <2>5 DEF RenameCommit
    <3>2. x \in records /\ x \in Records BY <2>1 DEF CommitsReady, Ready, ToMove, TypeOK
    <3>3. r.agent = x.agent /\ x.agent \in Agents BY <3>1, <3>2 DEF Records
    <3> QED BY <2>4, <3>2, <3>3 DEF AllKnown, Known
  <2>6. \A o \in Jobs : jobs'[o] # None => jobs'[o] = jobs[o] BY <2>3 DEF TypeOK, JobsOK
  <2> QED BY <2>1, <2>2, <2>4, <2>5, <2>6, SameGuard, SameResolved, KnownGrows
<1>15. ASSUME NEW p \in Jobs, InsertRule(p) PROVE AllKnown'
  <2>1. /\ UNCHANGED <<agents, guard, resolved, requests, lookups>> /\ At(p, "rule")
        /\ jobs' = [jobs EXCEPT ![p] = None]
    BY <1>15 DEF InsertRule, Done
  <2>2. PICK l : records' = records \cup {[table |-> "notification_rules", agent |-> jobs[p].agent,
                                           name |-> jobs[p].name, late |-> l]}
    BY <1>15, Zenon DEF InsertRule, Record
  <2>3. \A r \in records' : r \in records \/ agents'[r.agent].state # "none"
    BY <1>4, <2>1, <2>2 DEF Known
  <2> QED BY <1>1, <2>1, <2>3, KnownGrows DEF Known
<1>16. ASSUME NEW q \in Requests, Admit(q) PROVE AllKnown'
  <2>1. UNCHANGED <<agents, records, resolved, lookups, jobs>> BY <1>16 DEF Admit
  <2>. DEFINE f == requests[q]
  <2>2. /\ f # None /\ f.key \in Keys
        /\ requests' = [requests EXCEPT ![q] = [step |-> "admitted", agent |-> f.agent, name |-> f.name]]
    BY <1>16 DEF Admit, TypeOK, RequestsOK, IsRequest
  <2>3. PICK l : guard' = [Unexpired EXCEPT ![f.key] =
           [agent |-> f.agent, name |-> f.name, expires |-> now + KeyTtl, raced |-> f.raced, lost |-> l]]
    BY <1>16 DEF Admit
  <2>4. /\ \A k \in Keys \ {f.key} : guard'[k] \in {guard[k], None}
        /\ guard'[f.key].agent = f.agent
    BY <2>2, <2>3 DEF Unexpired
  <2>5. /\ \A r \in Requests \ {q} : requests'[r] = requests[r]
        /\ requests'[q].agent = f.agent
    BY <2>2 DEF TypeOK, RequestsOK
  <2>6. agents'[f.agent].state # "none" BY <2>1, <2>2 DEF AllKnown, Known
  <2>7. \A k \in Keys : guard'[k] # None =>
          (guard[k] # None /\ guard'[k].agent = guard[k].agent) \/ agents'[guard'[k].agent].state # "none"
    BY <2>4, <2>6
  <2>8. \A r \in Requests : requests'[r] # None =>
          \/ requests[r] # None /\ requests'[r].agent = requests[r].agent
          \/ agents'[requests'[r].agent].state # "none"
    BY <2>2, <2>5
  <2> QED BY <2>1, <2>7, <2>8, KnownGrows DEF Known
<1>17. ASSUME NEW q \in Requests, Leave(q) PROVE AllKnown'
  <2>1. UNCHANGED <<agents, guard, resolved, lookups, jobs>> BY <1>17 DEF Leave
  <2>2. \A r \in Requests : requests'[r] # None => requests'[r] = requests[r]
    BY <1>17 DEF Leave, TypeOK, RequestsOK
  <2>3. PICK l : records' = records \/
          records' = records \cup {[table |-> "agent_messages", agent |-> requests[q].agent,
                                   name |-> requests[q].name, late |-> l]}
    BY <1>17, Zenon DEF Leave, Record
  <2>4. agents'[requests[q].agent].state # "none" BY <1>17, <2>1 DEF Leave, AllKnown, Known
  <2>5. \A r \in records' : r \in records \/ agents'[r.agent].state # "none" BY <2>3, <2>4
  <2> QED BY <2>1, <2>2, <2>5, KnownGrows DEF Known
<1>18. ASSUME NEW q \in Requests, NEW k \in Keys, Hit(q, k) PROVE AllKnown'
  <2>1. UNCHANGED <<agents, records, guard, resolved, lookups, jobs>> BY <1>18 DEF Hit, Touched
  <2>2. guard[k] # None BY <1>18 DEF Hit, Expired
  <2>3. \A r \in Requests : requests'[r] # None =>
          requests'[r] = requests[r] \/ requests'[r].agent = guard[k].agent
    BY <1>18 DEF Hit, TypeOK, RequestsOK
  <2>4. agents'[guard[k].agent].state # "none" BY <2>1, <2>2 DEF AllKnown, Known
  <2> QED BY <2>1, <2>3, <2>4, KnownGrows DEF Known
<1>19. ASSUME NEW q \in Requests, NEW k \in Keys, Look(q, k) PROVE AllKnown'
  <2>1. UNCHANGED <<agents, records, guard, resolved, lookups, jobs>> BY <1>19 DEF Look
  <2>2. \A r \in Requests : requests'[r] = requests[r] \/ requests'[r].agent = keys[k].agent
    BY <1>19 DEF Look, TypeOK, RequestsOK
  <2>3. agents'[keys[k].agent].state # "none" BY <1>19, <2>1 DEF Look, Valid, Live
  <2> QED BY <2>1, <2>2, <2>3, KnownGrows DEF Known
<1>20. ASSUME NEW n \in Names, Find(n) PROVE AllKnown'
  <2>1. UNCHANGED <<agents, records, guard, requests, jobs>> BY <1>20 DEF Find
  <2>2. \A m \in Names : resolved'[m] # None => resolved'[m] = resolved[m]
    BY <1>20 DEF Find, TypeOK, ResolvedOK
  <2>3. PICK a \in Agents : Holds(a, n) /\ lookups' = [lookups EXCEPT ![n] = [agent |-> a, raced |-> FALSE]]
    BY <1>20 DEF Find
  <2>4. \A m \in Names : lookups'[m] = lookups[m] \/ lookups'[m].agent = a
    BY <2>3 DEF TypeOK, LookupsOK
  <2>5. agents'[a].state # "none" BY <2>1, <2>3 DEF Holds, Live
  <2> QED BY <2>1, <2>2, <2>4, <2>5, KnownGrows DEF Known
<1>21. ASSUME NEW n \in Names, Keep(n) PROVE AllKnown'
  <2>1. UNCHANGED <<agents, records, guard, requests, jobs>> /\ lookups[n] # None BY <1>21 DEF Keep
  <2>2. \A m \in Names : lookups'[m] # None => lookups'[m] = lookups[m]
    BY <1>21 DEF Keep, TypeOK, LookupsOK
  <2>3. \A m \in Names : resolved'[m] = resolved[m] \/ resolved'[m].agent = lookups[n].agent
    BY <1>21 DEF Keep, TypeOK, ResolvedOK
  <2>4. agents'[lookups[n].agent].state # "none" BY <2>1 DEF AllKnown, Known
  <2> QED BY <2>1, <2>2, <2>3, <2>4, KnownGrows DEF Known
<1>22. CASE EvictExpired
  <2>1. UNCHANGED <<agents, records, requests, resolved, lookups, jobs>> BY <1>22 DEF EvictExpired
  <2>2. \A k \in Keys : guard'[k] # None => guard'[k] = guard[k] BY <1>22 DEF EvictExpired, Unexpired
  <2> QED BY <2>1, <2>2, KnownGrows DEF Known
<1>23. CASE Alike /\ UNCHANGED jobs BY <1>23 DEF AllKnown, Known
<1> QED
  BY <1>2, <1>3, <1>6, <1>7, <1>8, <1>9, <1>10, <1>11, <1>12, <1>13, <1>14, <1>15, <1>16, <1>17,
     <1>18, <1>19, <1>20, <1>21, <1>22, <1>23
    DEF Next, Proceed, Fail, Tick, vars

LEMMA ClearedInit == Init => RevokedIsCleared
BY DEF Init, RevokedIsCleared

\* Clearings that are to come are not called off.
Waits == \A p \in Jobs : At(p, "clear") => jobs'[p] = jobs[p]

LEMMA StillClearing ==
  ASSUME TypeOK, NEW a
  PROVE  /\ Waits /\ Clearing(a) => Clearing(a)'
         /\ \A n \in Names : Waits /\ Deleting(a, n) => Deleting(a, n)'
BY DEF Waits, Clearing, Deleting, At

\* A call that comes to its clearing.
LEMMA ComesToClear ==
  ASSUME TypeOK, NEW p \in Jobs, At(p, "delete") \/ At(p, "remove"), Goto(p, "clear"),
         NEW a, a = jobs[p].agent, NEW n, n = jobs[p].name
  PROVE  /\ Waits /\ Clearing(a)'
         /\ At(p, "remove") => Deleting(a, n)'
<1>. DEFINE j == jobs[p]
            k == After(j, j.agent, "clear", j.moved)
<1>1. /\ j # None /\ IsJob(j) /\ j \in JobRecords
      /\ (At(p, "remove") => j.step = "remove")
  BY DEF At, TypeOK, JobsOK, IsJob
<1>2. jobs' = [jobs EXCEPT ![p] = k] BY <1>1, Steps DEF Goto
<1>3. k \in JobRecords BY <1>1, MakeJob, JobShape DEF After, JobSteps
<1>4. k # None BY <1>3, NoneAssumption
<1>5. k.step = "clear" /\ k.agent = j.agent /\ k.op = j.op /\ k.name = j.name BY DEF After
<1>. HIDE DEF k
<1>6. jobs'[p] = k /\ \A o \in Jobs \ {p} : jobs'[o] = jobs[o] BY <1>2 DEF TypeOK, JobsOK
<1>7. Waits BY <1>6 DEF Waits, At
<1>8. At(p, "clear")' BY <1>4, <1>5, <1>6 DEF At
<1>9. Clearing(a)' BY <1>5, <1>6, <1>8 DEF Clearing
<1>10. At(p, "remove") => Deleting(a, n)'
  BY <1>1, <1>5, <1>6, <1>8 DEF Deleting, IsJob
<1> QED BY <1>7, <1>9, <1>10

\* What may be kept may be kept on, while the agent does not die.
LEMMA MayKeepOn ==
  ASSUME TypeOK, Waits, NEW a \in Agents, NEW n \in Names, NEW raced, NEW still,
         MayKeep(a, n, raced), raced => still,
         agents'[a] = agents[a], a \in crossed => a \in crossed'
  PROVE  MayKeep(a, n, still)'
BY StillClearing DEF MayKeep, Live

\* Steps that keep, with no clearing called off, bring nothing that is revoked.
LEMMA ClearedKeeps ==
  ASSUME TypeOK, AllKnown, EntriesTell, RevokedIsCleared, Keeps, Waits, crossed \subseteq crossed',
         \A n \in Names : lookups'[n] # None => lookups'[n] = lookups[n]
  PROVE  RevokedIsCleared'
<1>1. ASSUME NEW k \in Keys, keys[k].state # "unused" PROVE Valid(k) => Valid(k)'
  <2>1. Valid(k) => keys[k].agent \in Agents BY DEF Valid, TypeOK, KeysOK
  <2> QED BY <1>1, <2>1 DEF Keeps, Valid, Live
<1>2. ASSUME NEW k \in Keys, guard'[k] # None
      PROVE  Valid(k)' \/ guard'[k].raced \/ Clearing(guard[k].agent)'
  <2>1. guard'[k] = guard[k] /\ guard[k] # None /\ keys[k].state # "unused"
    BY <1>2 DEF Keeps, EntriesTell
  <2>2. Valid(k) \/ guard[k].raced \/ Clearing(guard[k].agent) BY <2>1 DEF RevokedIsCleared
  <2> QED BY <1>1, <2>1, <2>2, StillClearing
<1>3. ASSUME NEW q \in Requests, requests'[q] # None, requests'[q].step = "looking"
      PROVE  /\ requests'[q].key = requests[q].key /\ requests'[q].agent = requests[q].agent
             /\ Valid(requests[q].key)' \/ requests'[q].raced \/ Clearing(requests[q].agent)'
  <2>1. /\ requests[q] # None /\ requests[q].step = "looking"
        /\ requests'[q].key = requests[q].key /\ requests'[q].agent = requests[q].agent
        /\ requests[q].raced => requests'[q].raced
        /\ requests[q].key \in Keys
    BY <1>3 DEF Keeps, TypeOK, RequestsOK, IsRequest
  <2>2. Valid(requests[q].key) \/ requests[q].raced \/ Clearing(requests[q].agent)
    BY <2>1 DEF RevokedIsCleared
  <2>3. keys[requests[q].key].state # "unused" BY <2>1 DEF EntriesTell
  <2> QED BY <1>1, <2>1, <2>2, <2>3, StillClearing
<1>4. ASSUME NEW n \in Names, resolved'[n] # None
      PROVE  resolved'[n] = resolved[n] /\ MayKeep(resolved[n].agent, n, resolved[n].raced)'
  <2>1. resolved'[n] = resolved[n] /\ resolved[n] # None BY <1>4 DEF Keeps
  <2>2. resolved[n].agent \in Agents BY <2>1 DEF TypeOK, ResolvedOK, IsResolvedEntry, IsEntry
  <2>3. agents'[resolved[n].agent] = agents[resolved[n].agent]
    BY <2>1, <2>2 DEF Keeps, AllKnown, Known
  <2>4. MayKeep(resolved[n].agent, n, resolved[n].raced) BY <2>1 DEF RevokedIsCleared
  <2>5. PICK a, r : a = resolved[n].agent /\ r = resolved[n].raced OBVIOUS
  <2>6. MayKeep(a, n, r)' BY <2>2, <2>3, <2>4, <2>5, MayKeepOn
  <2> QED BY <2>1, <2>5, <2>6
<1>5. ASSUME NEW n \in Names, lookups'[n] # None PROVE MayKeep(lookups[n].agent, n, lookups[n].raced)'
  <2>1. lookups'[n] = lookups[n] /\ lookups[n] # None BY <1>5
  <2>2. lookups[n].agent \in Agents BY <2>1 DEF TypeOK, LookupsOK, IsLookup
  <2>3. agents'[lookups[n].agent] = agents[lookups[n].agent]
    BY <2>1, <2>2 DEF Keeps, AllKnown, Known
  <2>4. MayKeep(lookups[n].agent, n, lookups[n].raced) BY <2>1 DEF RevokedIsCleared
  <2>5. PICK a, r : a = lookups[n].agent /\ r = lookups[n].raced OBVIOUS
  <2>6. MayKeep(a, n, r)' BY <2>2, <2>3, <2>4, <2>5, MayKeepOn
  <2> QED BY <2>1, <2>5, <2>6
<1>6. (\A k \in Keys : guard[k] # None => Valid(k) \/ guard[k].raced \/ Clearing(guard[k].agent))'
  BY <1>2
<1>7. (\A q \in Requests : requests[q] # None /\ requests[q].step = "looking" =>
         Valid(requests[q].key) \/ requests[q].raced \/ Clearing(requests[q].agent))'
  BY <1>3
<1> QED BY <1>4, <1>5, <1>6, <1>7 DEF RevokedIsCleared

\* The agent a loses a key or dies, and a clearing is to come.
LEMMA ClearedLoses ==
  ASSUME TypeOK, EntriesTell, RevokedIsCleared, NEW a \in Agents,
         Waits, Clearing(a)',
         guard' = Lost(guard, a), requests' = requests,
         \A b \in Agents \ {a} : agents'[b] = agents[b],
         \A k \in Keys : keys[k].agent # a => keys'[k] = keys[k]
  PROVE  /\ (\A k \in Keys : guard[k] # None =>
               Valid(k) \/ guard[k].raced \/ Clearing(guard[k].agent))'
         /\ (\A q \in Requests : requests[q] # None /\ requests[q].step = "looking" =>
               Valid(requests[q].key) \/ requests[q].raced \/ Clearing(requests[q].agent))'
<1>1. ASSUME NEW k \in Keys, keys[k].agent # a, Valid(k) PROVE Valid(k)'
  BY <1>1 DEF Valid, TypeOK, KeysOK, Live
<1>2. ASSUME NEW k \in Keys, guard'[k] # None
      PROVE  Valid(k)' \/ guard'[k].raced \/ Clearing(guard[k].agent)'
  <2>1. PICK b, r : b = guard[k].agent /\ r = guard[k].raced OBVIOUS
  <2>0. guard[k] # None /\ guard'[k].agent = b /\ guard'[k].raced = r /\ b = keys[k].agent
    BY <1>2, <2>1, SameGuard DEF EntriesTell
  <2>2. CASE b = a BY <2>0, <2>2
  <2>3. CASE b # a
    <3>1. Valid(k) \/ r \/ Clearing(b) BY <2>0, <2>1 DEF RevokedIsCleared
    <3>2. Clearing(b) => Clearing(b)' BY StillClearing
    <3> QED BY <1>1, <2>0, <2>3, <3>1, <3>2
  <2> QED BY <2>2, <2>3
<1>3. ASSUME NEW q \in Requests, requests[q] # None, requests[q].step = "looking"
      PROVE  Valid(requests[q].key)' \/ requests[q].raced \/ Clearing(requests[q].agent)'
  <2>1. PICK k, b : k = requests[q].key /\ b = requests[q].agent OBVIOUS
  <2>2. k \in Keys /\ keys[k].agent = b
    BY <1>3, <2>1 DEF EntriesTell, TypeOK, RequestsOK, IsRequest
  <2>3. Valid(k) \/ requests[q].raced \/ Clearing(b) BY <1>3, <2>1 DEF RevokedIsCleared
  <2>4. Clearing(b) => Clearing(b)' BY StillClearing
  <2> QED BY <1>1, <2>1, <2>2, <2>3, <2>4
<1> QED BY <1>2, <1>3

\* A rotation: the old keys are gone and the clearing is to come.
LEMMA ClearedRotate ==
  ASSUME TypeOK, TypeOK', EntriesTell, RevokedIsCleared, NEW p \in Jobs, RotateDelete(p)
  PROVE  RevokedIsCleared'
<1>1. jobs[p].agent \in Agents BY DEF RotateDelete, At, TypeOK, JobsOK, IsJob
<1>5. PICK a, m : a = jobs[p].agent /\ m = jobs[p].name OBVIOUS
<1>2. Waits /\ Clearing(a)' BY <1>5, ComesToClear DEF RotateDelete
<1>3. UNCHANGED <<agents, resolved, lookups, crossed>> BY DEF RotateDelete
<1>4. \A k \in Keys : keys[k].agent # a => keys'[k] = keys[k]
  BY <1>5 DEF RotateDelete, Become, KeysOf
<1>7. /\ (\A k \in Keys : guard[k] # None =>
             Valid(k) \/ guard[k].raced \/ Clearing(guard[k].agent))'
      /\ (\A q \in Requests : requests[q] # None /\ requests[q].step = "looking" =>
             Valid(requests[q].key) \/ requests[q].raced \/ Clearing(requests[q].agent))'
  BY <1>1, <1>2, <1>3, <1>4, <1>5, ClearedLoses DEF RotateDelete
<1>8. ASSUME NEW n \in Names, resolved'[n] # None
      PROVE  MayKeep(resolved[n].agent, n, resolved[n].raced)'
  <2>1. PICK b, r : b = resolved[n].agent /\ r = resolved[n].raced OBVIOUS
  <2>2. MayKeep(b, n, r) BY <1>3, <1>8, <2>1 DEF RevokedIsCleared
  <2>3. b \in Agents BY <1>3, <1>8, <2>1 DEF TypeOK, ResolvedOK, IsResolvedEntry, IsEntry
  <2>4. MayKeep(b, n, r)' BY <1>2, <1>3, <2>2, <2>3, MayKeepOn
  <2> QED BY <1>3, <2>1, <2>4
<1>9. ASSUME NEW n \in Names, lookups'[n] # None
      PROVE  MayKeep(lookups[n].agent, n, lookups[n].raced)'
  <2>1. PICK b, r : b = lookups[n].agent /\ r = lookups[n].raced OBVIOUS
  <2>2. MayKeep(b, n, r) BY <1>3, <1>9, <2>1 DEF RevokedIsCleared
  <2>3. b \in Agents BY <1>3, <1>9, <2>1 DEF TypeOK, LookupsOK, IsLookup
  <2>4. MayKeep(b, n, r)' BY <1>2, <1>3, <2>2, <2>3, MayKeepOn
  <2> QED BY <1>3, <2>1, <2>4
<1> QED BY <1>7, <1>8, <1>9 DEF RevokedIsCleared

\* A deletion: what leads to the agent under another name than the one it is
\* deleted under stays, and what leads to it under that name waits.
LEMMA ClearedDelete ==
  ASSUME TypeOK, TypeOK', EntriesTell, RevokedIsCleared, NEW p \in Jobs, DeleteCommit(p)
  PROVE  RevokedIsCleared'
<1>. DEFINE j == jobs[p]
<1>0. PICK a, m : a = j.agent /\ m = j.name OBVIOUS
<1>1. a \in Agents BY <1>0 DEF DeleteCommit, At, TypeOK, JobsOK, IsJob
<1>2. Waits /\ Clearing(a)' /\ Deleting(a, m)' BY <1>0, ComesToClear DEF DeleteCommit
<1>3. lookups' = lookups /\ requests' = requests BY DEF DeleteCommit
<1>4. \A k \in Keys : keys[k].agent # a => keys'[k] = keys[k] BY <1>0 DEF DeleteCommit, Become, KeysOf
<1>5. \A b \in Agents \ {a} : agents'[b] = agents[b] BY <1>0 DEF DeleteCommit, TypeOK, AgentsOK
<1>7. /\ (\A k \in Keys : guard[k] # None =>
             Valid(k) \/ guard[k].raced \/ Clearing(guard[k].agent))'
      /\ (\A q \in Requests : requests[q] # None /\ requests[q].step = "looking" =>
             Valid(requests[q].key) \/ requests[q].raced \/ Clearing(requests[q].agent))'
  BY <1>0, <1>1, <1>2, <1>3, <1>4, <1>5, ClearedLoses DEF DeleteCommit
<1>8. ASSUME NEW b \in Agents, NEW n \in Names, NEW r, MayKeep(b, n, r) PROVE MayKeep(b, n, r)'
  <2>1. crossed \subseteq crossed' BY DEF DeleteCommit
  <2>2. CASE b # a BY <1>2, <1>5, <1>8, <2>1, <2>2, MayKeepOn
  <2>3. CASE b = a
    <3>1. agents'[a].name = agents[a].name BY <1>0, <1>1 DEF DeleteCommit, TypeOK, AgentsOK
    <3>2. CASE Holds(j.agent, j.name)
      <4>1. n = m \/ agents'[a].name # n BY <1>0, <3>1, <3>2 DEF Holds
      <4> QED BY <1>2, <2>3, <4>1 DEF MayKeep
    <3>3. CASE ~Holds(j.agent, j.name) BY <1>0, <2>3, <3>3 DEF DeleteCommit, MayKeep
    <3> QED BY <3>2, <3>3
  <2> QED BY <2>2, <2>3
<1>9. ASSUME NEW n \in Names, resolved'[n] # None
      PROVE  MayKeep(resolved[n].agent, n, resolved[n].raced)'
  <2>1. PICK b, r : b = resolved[n].agent /\ r = resolved[n].raced OBVIOUS
  <2>2. resolved[n] # None /\ resolved'[n].agent = b /\ resolved'[n].raced = r
    BY <1>9, <2>1, SameResolved DEF DeleteCommit
  <2>3. MayKeep(b, n, r) BY <2>1, <2>2 DEF RevokedIsCleared
  <2>4. b \in Agents BY <2>1, <2>2 DEF TypeOK, ResolvedOK, IsResolvedEntry, IsEntry
  <2> QED BY <1>8, <2>2, <2>3, <2>4
<1>10. ASSUME NEW n \in Names, lookups'[n] # None
      PROVE  MayKeep(lookups[n].agent, n, lookups[n].raced)'
  <2>1. PICK b, r : b = lookups[n].agent /\ r = lookups[n].raced OBVIOUS
  <2>2. MayKeep(b, n, r) BY <1>3, <1>10, <2>1 DEF RevokedIsCleared
  <2>3. b \in Agents BY <1>3, <1>10, <2>1 DEF TypeOK, LookupsOK, IsLookup
  <2> QED BY <1>3, <1>8, <2>1, <2>2, <2>3
<1> QED BY <1>7, <1>9, <1>10 DEF RevokedIsCleared

\* A clearing comes.
LEMMA ClearedClears ==
  ASSUME TypeOK, RevokedIsCleared, ClearCache, NEW p \in Jobs, NEW m,
         UNCHANGED <<agents, keys, crossed>>,
         \A o \in Jobs \ {p} : jobs'[o] = jobs[o],
         jobs[p].op = "delete" => jobs[p].name = m,
         \A n \in Names : resolved'[n] # None =>
           resolved'[n] = resolved[n] /\ (jobs[p].op # "delete" \/ n # m),
         \A n \in Names : lookups'[n] # None =>
           /\ lookups[n] # None /\ lookups'[n].agent = lookups[n].agent
           /\ lookups'[n].raced \/ (lookups'[n] = lookups[n] /\ (jobs[p].op # "delete" \/ n # m))
  PROVE  RevokedIsCleared'
<1>1. \A n \in Names : resolved'[n] \in {resolved[n], None} OBVIOUS
<1>2. /\ \A k \in Keys : guard'[k] = None
      /\ \A q \in Requests : requests'[q] # None /\ requests'[q].step = "looking" => requests'[q].raced
  BY <1>1, ClearKeeps
<1>3. ASSUME NEW a, NEW n \in Names, NEW r, MayKeep(a, n, r), jobs[p].op # "delete" \/ n # m
      PROVE  MayKeep(a, n, r)'
  <2>1. Deleting(a, n) => Deleting(a, n)' BY <1>3 DEF Deleting, At
  <2> QED BY <1>3, <2>1 DEF MayKeep, Live
<1>4. ASSUME NEW n \in Names, resolved'[n] # None
      PROVE  MayKeep(resolved[n].agent, n, resolved[n].raced)'
  <2>1. PICK b, r : b = resolved[n].agent /\ r = resolved[n].raced OBVIOUS
  <2>2. MayKeep(b, n, r) BY <1>4, <2>1 DEF RevokedIsCleared
  <2> QED BY <1>3, <1>4, <2>1, <2>2
<1>5. ASSUME NEW n \in Names, lookups'[n] # None
      PROVE  MayKeep(lookups[n].agent, n, lookups[n].raced)'
  <2>1. PICK b, r : b = lookups[n].agent /\ r = lookups[n].raced OBVIOUS
  <2>2. MayKeep(b, n, r) BY <1>5, <2>1 DEF RevokedIsCleared
  <2>3. CASE lookups'[n].raced BY <2>3 DEF MayKeep
  <2>4. CASE lookups'[n] = lookups[n] /\ (jobs[p].op # "delete" \/ n # m)
    BY <1>3, <2>1, <2>2, <2>4
  <2> QED BY <1>5, <2>3, <2>4
<1> QED BY <1>2, <1>4, <1>5 DEF RevokedIsCleared

\* A rename revokes no key; a deletion that it overtook has crossed it.
LEMMA ClearedRename ==
  ASSUME TypeOK, TypeOK', EntriesTell, RevokedIsCleared, NEW p \in Jobs, RenameCommit(p)
  PROVE  RevokedIsCleared'
<1>. DEFINE j == jobs[p]
<1>0. PICK a : a = j.agent OBVIOUS
<1>1. a \in Agents BY <1>0 DEF RenameCommit, At, TypeOK, JobsOK, IsJob
<1>2. Waits BY DEF Waits, RenameCommit, At, Done, TypeOK, JobsOK
<1>3. UNCHANGED <<keys, lookups, requests>> BY DEF RenameCommit
<1>4. /\ \A b \in Agents \ {a} : agents'[b] = agents[b]
      /\ \A b \in Agents : agents'[b].state = agents[b].state
  BY <1>0 DEF RenameCommit, TypeOK, AgentsOK
<1>5. \A k \in Keys : Valid(k) => Valid(k)' BY <1>3, <1>4 DEF Valid, Live, TypeOK, KeysOK
<1>6. ASSUME NEW k \in Keys, guard'[k] # None
      PROVE  Valid(k)' \/ guard'[k].raced \/ Clearing(guard[k].agent)'
  <2>1. PICK b, r : b = guard[k].agent /\ r = guard[k].raced OBVIOUS
  <2>2. guard[k] # None /\ guard'[k].agent = b /\ guard'[k].raced = r
    BY <1>6, <2>1, SameGuard DEF RenameCommit
  <2>3. Valid(k) \/ r \/ Clearing(b) BY <2>1, <2>2 DEF RevokedIsCleared
  <2>4. Clearing(b) => Clearing(b)' BY <1>2, StillClearing
  <2> QED BY <1>5, <2>2, <2>3, <2>4
<1>7. ASSUME NEW q \in Requests, requests'[q] # None, requests'[q].step = "looking"
      PROVE  Valid(requests[q].key)' \/ requests'[q].raced \/ Clearing(requests[q].agent)'
  <2>1. PICK k, b : k = requests[q].key /\ b = requests[q].agent OBVIOUS
  <2>2. k \in Keys BY <1>3, <1>7, <2>1 DEF TypeOK, RequestsOK, IsRequest
  <2>3. Valid(k) \/ requests[q].raced \/ Clearing(b) BY <1>3, <1>7, <2>1 DEF RevokedIsCleared
  <2>4. Clearing(b) => Clearing(b)' BY <1>2, StillClearing
  <2> QED BY <1>3, <1>5, <2>1, <2>2, <2>3, <2>4
<1>8. ASSUME NEW b \in Agents, NEW n \in Names, NEW r, MayKeep(b, n, r) PROVE MayKeep(b, n, r)'
  <2>1. crossed \subseteq crossed' BY DEF RenameCommit
  <2>2. CASE b # a BY <1>2, <1>4, <1>8, <2>1, <2>2, MayKeepOn
  <2>3. CASE b = a /\ Live(a) BY <1>1, <1>4, <2>3 DEF MayKeep, Live
  <2>4. CASE b = a /\ ~Live(a) BY <1>0, <2>4 DEF RenameCommit, Holds, MayKeep
  <2> QED BY <2>2, <2>3, <2>4
<1>9. ASSUME NEW n \in Names, resolved'[n] # None
      PROVE  MayKeep(resolved[n].agent, n, resolved[n].raced)'
  <2>1. PICK b, r : b = resolved[n].agent /\ r = resolved[n].raced OBVIOUS
  <2>2. resolved[n] # None /\ resolved'[n].agent = b /\ resolved'[n].raced = r
    BY <1>9, <2>1, SameResolved DEF RenameCommit
  <2>3. MayKeep(b, n, r) BY <2>1, <2>2 DEF RevokedIsCleared
  <2>4. b \in Agents BY <2>1, <2>2 DEF TypeOK, ResolvedOK, IsResolvedEntry, IsEntry
  <2> QED BY <1>8, <2>2, <2>3, <2>4
<1>10. ASSUME NEW n \in Names, lookups'[n] # None
      PROVE  MayKeep(lookups[n].agent, n, lookups[n].raced)'
  <2>1. PICK b, r : b = lookups[n].agent /\ r = lookups[n].raced OBVIOUS
  <2>2. MayKeep(b, n, r) BY <1>3, <1>10, <2>1 DEF RevokedIsCleared
  <2>3. b \in Agents BY <1>3, <1>10, <2>1 DEF TypeOK, LookupsOK, IsLookup
  <2> QED BY <1>3, <1>8, <2>1, <2>2, <2>3
<1>11. (\A k \in Keys : guard[k] # None => Valid(k) \/ guard[k].raced \/ Clearing(guard[k].agent))'
  BY <1>6
<1>12. (\A q \in Requests : requests[q] # None /\ requests[q].step = "looking" =>
         Valid(requests[q].key) \/ requests[q].raced \/ Clearing(requests[q].agent))'
  BY <1>7
<1> QED BY <1>9, <1>10, <1>11, <1>12 DEF RevokedIsCleared

\* The steps of the caches: agents, keys and calls stay as they are.
LEMMA ClearedCaches ==
  ASSUME TypeOK, RevokedIsCleared, UNCHANGED <<agents, keys, jobs, crossed>>,
         \A k \in Keys : guard'[k] # None =>
           guard'[k] = guard[k] \/ Valid(k) \/ guard'[k].raced \/ Clearing(guard'[k].agent),
         \A q \in Requests : requests'[q] # None /\ requests'[q].step = "looking" =>
           requests'[q] = requests[q] \/ Valid(requests'[q].key),
         \A n \in Names : resolved'[n] # None =>
           resolved'[n] = resolved[n] \/ MayKeep(resolved'[n].agent, n, resolved'[n].raced),
         \A n \in Names : lookups'[n] # None => lookups'[n] = lookups[n] \/ Live(lookups'[n].agent)
  PROVE  RevokedIsCleared'
<1>1. \A k : Valid(k)' <=> Valid(k) BY DEF Valid, Live
<1>2. \A a : Clearing(a)' <=> Clearing(a) BY DEF Clearing, At
<1>3. \A a, n, r : MayKeep(a, n, r)' <=> MayKeep(a, n, r) BY DEF MayKeep, Deleting, At, Live
<1>4. ASSUME NEW k \in Keys, guard'[k] # None
      PROVE  Valid(k)' \/ guard'[k].raced \/ Clearing(guard[k].agent)'
  <2>1. PICK b : b = guard'[k].agent OBVIOUS
  <2>2. Valid(k) \/ guard'[k].raced \/ Clearing(b) BY <1>4, <2>1 DEF RevokedIsCleared
  <2> QED BY <1>1, <1>2, <2>1, <2>2
<1>5. ASSUME NEW q \in Requests, requests'[q] # None, requests'[q].step = "looking"
      PROVE  Valid(requests[q].key)' \/ requests'[q].raced \/ Clearing(requests[q].agent)'
  <2>1. PICK b, k : b = requests'[q].agent /\ k = requests'[q].key OBVIOUS
  <2>2. Valid(k) \/ requests'[q].raced \/ Clearing(b) BY <1>5, <2>1 DEF RevokedIsCleared
  <2> QED BY <1>1, <1>2, <2>1, <2>2
<1>6. ASSUME NEW n \in Names, resolved'[n] # None
      PROVE  MayKeep(resolved[n].agent, n, resolved[n].raced)'
  <2>1. PICK b, r : b = resolved'[n].agent /\ r = resolved'[n].raced OBVIOUS
  <2>2. MayKeep(b, n, r) BY <1>6, <2>1 DEF RevokedIsCleared
  <2> QED BY <1>3, <2>1, <2>2
<1>7. ASSUME NEW n \in Names, lookups'[n] # None
      PROVE  MayKeep(lookups[n].agent, n, lookups[n].raced)'
  <2>1. PICK b, r : b = lookups'[n].agent /\ r = lookups'[n].raced OBVIOUS
  <2>2. MayKeep(b, n, r) BY <1>7, <2>1 DEF RevokedIsCleared, MayKeep
  <2> QED BY <1>3, <2>1, <2>2
<1>8. (\A k \in Keys : guard[k] # None => Valid(k) \/ guard[k].raced \/ Clearing(guard[k].agent))'
  BY <1>4
<1>9. (\A q \in Requests : requests[q] # None /\ requests[q].step = "looking" =>
         Valid(requests[q].key) \/ requests[q].raced \/ Clearing(requests[q].agent))'
  BY <1>5
<1> QED BY <1>6, <1>7, <1>8, <1>9 DEF RevokedIsCleared

LEMMA ClearedStep ==
  TypeOK /\ TypeOK' /\ AllKnown /\ EntriesTell /\ RevokedIsCleared /\ [Next]_vars => RevokedIsCleared'
<1> SUFFICES ASSUME TypeOK, TypeOK', AllKnown, EntriesTell, RevokedIsCleared, [Next]_vars
             PROVE  RevokedIsCleared'
  OBVIOUS
<1>1. ASSUME NEW p \in Jobs, RotateClear(p) PROVE RevokedIsCleared'
  <2>1. jobs[p].op # "delete" BY <1>1 DEF RotateClear
  <2>2. \A o \in Jobs \ {p} : jobs'[o] = jobs[o] BY <1>1 DEF RotateClear, Goto, TypeOK, JobsOK
  <2>3. ClearCache /\ UNCHANGED <<agents, keys, crossed, resolved, lookups>> BY <1>1 DEF RotateClear
  <2> QED BY <2>1, <2>2, <2>3, ClearedClears
<1>2. ASSUME NEW p \in Jobs, DeleteClear(p) PROVE RevokedIsCleared'
  <2>1. PICK m : m = jobs[p].name OBVIOUS
  <2>2. \A o \in Jobs \ {p} : jobs'[o] = jobs[o] BY <1>2 DEF DeleteClear, Done, TypeOK, JobsOK
  <2>3. ClearCache /\ UNCHANGED <<agents, keys, crossed>> BY <1>2 DEF DeleteClear
  <2>4. \A n \in Names : resolved'[n] # None => resolved'[n] = resolved[n] /\ n # m
    BY <1>2, <2>1 DEF DeleteClear, TypeOK, ResolvedOK
  <2>5. \A n \in Names : lookups'[n] # None =>
          /\ lookups[n] # None /\ lookups'[n].agent = lookups[n].agent
          /\ lookups'[n].raced \/ (lookups'[n] = lookups[n] /\ n # m)
    BY <1>2, <2>1, SameLookups
  <2> QED BY <2>1, <2>2, <2>3, <2>4, <2>5, ClearedClears
<1>3. ASSUME NEW q \in Requests, Admit(q) PROVE RevokedIsCleared'
  <2>. DEFINE f == requests[q]
  <2>1. f # None /\ IsRequest(f) /\ f.key \in Keys /\ f.step = "looking"
    BY <1>3 DEF Admit, TypeOK, RequestsOK, IsRequest
  <2>2. PICK b, r, l :
          /\ b = f.agent /\ r = f.raced
          /\ guard' = [Unexpired EXCEPT ![f.key] =
               [agent |-> b, name |-> f.name, expires |-> now + KeyTtl, raced |-> r, lost |-> l]]
    BY <1>3 DEF Admit
  <2>3. \A k \in Keys \ {f.key} : guard'[k] \in {guard[k], None}
    BY <2>1, <2>2 DEF Unexpired
  <2>4. guard'[f.key].agent = b /\ guard'[f.key].raced = r BY <2>1, <2>2 DEF Unexpired
  <2>5. Valid(f.key) \/ r \/ Clearing(b) BY <2>1, <2>2 DEF RevokedIsCleared
  <2>6. \A k \in Keys : guard'[k] # None =>
          guard'[k] = guard[k] \/ Valid(k) \/ guard'[k].raced \/ Clearing(guard'[k].agent)
    BY <2>3, <2>4, <2>5
  <2>7. \A r1 \in Requests : requests'[r1] # None /\ requests'[r1].step = "looking" =>
          requests'[r1] = requests[r1]
    BY <1>3 DEF Admit, TypeOK, RequestsOK
  <2> QED BY <1>3, <2>6, <2>7, ClearedCaches DEF Admit
<1>4. ASSUME NEW q \in Requests, NEW k \in Keys, Look(q, k) PROVE RevokedIsCleared'
  <2>1. requests' = [requests EXCEPT ![q] =
          [step |-> "looking", key |-> k, agent |-> keys[k].agent,
           name |-> agents[keys[k].agent].name, raced |-> FALSE]]
    BY <1>4 DEF Look
  <2>2. requests'[q].key = k /\ \A r \in Requests \ {q} : requests'[r] = requests[r]
    BY <2>1 DEF TypeOK, RequestsOK
  <2>3. UNCHANGED <<agents, keys, jobs, crossed, guard, resolved, lookups>> /\ Valid(k)
    BY <1>4 DEF Look
  <2> QED BY <2>2, <2>3, ClearedCaches
<1>5. ASSUME NEW n \in Names, Find(n) PROVE RevokedIsCleared'
  <2>1. UNCHANGED <<agents, keys, jobs, crossed, guard, requests>> BY <1>5 DEF Find
  <2>2. \A m \in Names : resolved'[m] # None => resolved'[m] = resolved[m]
    BY <1>5 DEF Find, TypeOK, ResolvedOK
  <2>3. PICK a \in Agents : Holds(a, n) /\ lookups' = [lookups EXCEPT ![n] = [agent |-> a, raced |-> FALSE]]
    BY <1>5 DEF Find
  <2>4. \A m \in Names : lookups'[m] = lookups[m] \/ lookups'[m].agent = a
    BY <2>3 DEF TypeOK, LookupsOK
  <2>5. Live(a) BY <2>3 DEF Holds
  <2> QED BY <2>1, <2>2, <2>4, <2>5, ClearedCaches
<1>6. ASSUME NEW n \in Names, Keep(n) PROVE RevokedIsCleared'
  <2>1. UNCHANGED <<agents, keys, jobs, crossed, guard, requests>> /\ lookups[n] # None
    BY <1>6 DEF Keep
  <2>2. \A m \in Names : lookups'[m] # None => lookups'[m] = lookups[m]
    BY <1>6 DEF Keep, TypeOK, LookupsOK
  <2>3. PICK b, r, l :
          /\ b = lookups[n].agent /\ r = lookups[n].raced
          /\ resolved' = [resolved EXCEPT ![n] =
               [agent |-> b, expires |-> now + AgentTtl, raced |-> r, lost |-> l]]
    BY <1>6 DEF Keep
  <2>4. /\ \A m \in Names \ {n} : resolved'[m] = resolved[m]
        /\ resolved'[n].agent = b /\ resolved'[n].raced = r
    BY <2>3 DEF TypeOK, ResolvedOK
  <2>5. MayKeep(b, n, r) BY <2>1, <2>3 DEF RevokedIsCleared
  <2> QED BY <2>1, <2>2, <2>4, <2>5, ClearedCaches
<1>7. ASSUME NEW p \in Jobs, ~At(p, "clear"), \A o \in Jobs \ {p} : jobs'[o] = jobs[o] PROVE Waits
  BY <1>7 DEF Waits
<1>8. ASSUME Keeps, Waits, crossed \subseteq crossed', lookups' = lookups PROVE RevokedIsCleared'
  BY <1>8, ClearedKeeps
<1>9. ASSUME NEW p \in Jobs, \/ Start(p) \/ Fail(p) \/ InsertAgent(p) \/ InsertKey(p) \/ InsertCopy(p)
                             \/ RenameCheck(p) \/ RenameUpdate(p) \/ InsertRule(p)
      PROVE  Waits /\ UNCHANGED <<crossed, lookups>>
  <2>1. UNCHANGED <<crossed, lookups>>
    BY <1>9, Starts DEF Fail, GiveUp, InsertAgent, InsertKey, InsertCopy, RenameCheck, RenameUpdate, InsertRule
  <2>2. ~At(p, "clear")
    BY <1>9, Starts DEF At, Fail, InsertAgent, InsertKey, InsertCopy, RenameCheck, RenameUpdate, InsertRule
  <2>3. \A o \in Jobs \ {p} : jobs'[o] = jobs[o]
    <3>1. CASE Start(p) BY <3>1, Starts DEF TypeOK, JobsOK
    <3>2. CASE ~Start(p)
      BY <1>9, <3>2 DEF Fail, GiveUp, InsertAgent, InsertKey, InsertCopy, RenameCheck, RenameUpdate,
           InsertRule, Done, Goto, TypeOK, JobsOK
    <3> QED BY <3>1, <3>2
  <2> QED BY <1>7, <2>1, <2>2, <2>3
<1>10. CASE \E p \in Jobs : RotateDelete(p) \/ DeleteCommit(p) \/ RenameCommit(p)
  BY <1>10, ClearedRotate, ClearedDelete, ClearedRename
<1>11. CASE \E p \in Jobs : \/ Start(p) \/ Fail(p) \/ InsertAgent(p) \/ InsertKey(p) \/ InsertCopy(p)
                            \/ RenameCheck(p) \/ RenameUpdate(p) \/ InsertRule(p)
  <2>1. PICK p \in Jobs : \/ Start(p) \/ Fail(p) \/ InsertAgent(p) \/ InsertKey(p) \/ InsertCopy(p)
                          \/ RenameCheck(p) \/ RenameUpdate(p) \/ InsertRule(p)
    BY <1>11
  <2>2. Waits /\ UNCHANGED <<crossed, lookups>> BY <1>9, <2>1
  <2>3. CASE Keeps BY <1>8, <2>2, <2>3
  <2>4. CASE ~Keeps BY <1>3, <1>4, <1>6, <1>10, <2>4, StepKeeps
  <2> QED BY <2>3, <2>4
<1>12. CASE UNCHANGED <<jobs, crossed, lookups>>
  <2>1. Waits BY <1>12 DEF Waits
  <2>2. CASE Keeps BY <1>8, <1>12, <2>1, <2>2
  <2>3. CASE ~Keeps BY <1>3, <1>4, <1>6, <1>10, <2>3, StepKeeps
  <2> QED BY <2>2, <2>3
<1>13. ASSUME NEW q \in Requests, NEW k \in Keys, Hit(q, k) PROVE UNCHANGED <<jobs, crossed, lookups>>
  BY <1>13 DEF Hit
<1>14. ASSUME NEW q \in Requests, Leave(q) PROVE UNCHANGED <<jobs, crossed, lookups>>
  BY <1>14 DEF Leave
<1>15. EvictExpired \/ Tick \/ UNCHANGED vars => UNCHANGED <<jobs, crossed, lookups>>
  BY DEF EvictExpired, Tick, vars
<1> QED
  BY <1>1, <1>2, <1>3, <1>4, <1>5, <1>6, <1>10, <1>11, <1>12, <1>13, <1>14, <1>15 DEF Next, Proceed

\* Records follow their agent while names are apart and commits are ready.
FollowInv == NamesApart /\ CommitsReady /\ RecordsFollowTheAgent

LEMMA FollowInit == Init => FollowInv
BY DEF Init, FollowInv, NamesApart, CommitsReady, RecordsFollowTheAgent, Live, At

\* Steps in which no agent that is there takes a name, none comes back to life
\* and no call starts to commit: an agent that comes into being takes a free
\* name, and a record that is written is late or tells its agent's name.
LEMMA FollowKeeps ==
  ASSUME TypeOK, AllKnown, FollowInv, crossed \subseteq crossed', records \subseteq records',
         \A o \in Jobs : jobs'[o] # None /\ jobs'[o].step = "commit" => jobs'[o] = jobs[o],
         \A a \in Agents : Known(a) =>
           agents'[a].name = agents[a].name /\ (Live(a)' => Live(a)),
         \A a \in Agents : ~Known(a) /\ Live(a)' =>
           /\ \A b \in Agents \ {a} : ~Holds(b, agents[a].name)'
           /\ ~NameHeld(agents'[a].name),
         \A r \in records' : r \notin records =>
           \/ r.late
           \/ r.agent \in Agents /\ r.name = agents[r.agent].name /\ Known(r.agent) /\ ~Renaming(r.agent)
  PROVE  FollowInv'
<1>1. ASSUME NEW a \in Agents, NEW b \in Agents, a # b, Live(a)', Live(b)'
      PROVE  agents'[a].name # agents'[b].name
  <2>1. CASE Known(a) /\ Known(b)
    BY <1>1, <2>1 DEF FollowInv, NamesApart, TakenByOther, Holds
  <2>2. CASE ~Known(a) BY <1>1, <2>2 DEF Holds
  <2>3. CASE ~Known(b) BY <1>1, <2>3 DEF Holds
  <2> QED BY <2>1, <2>2, <2>3
<1>2. NamesApart' BY <1>1 DEF NamesApart, TakenByOther, Holds
<1>3. ASSUME NEW p \in Jobs, At(p, "commit")'
      PROVE  /\ jobs'[p] = jobs[p] /\ At(p, "commit") /\ jobs[p].agent \in Agents
             /\ Known(jobs[p].agent)
  BY <1>3 DEF At, TypeOK, JobsOK, IsJob, AllKnown
<1>4. ASSUME NEW p \in Jobs, At(p, "commit")', NEW j, j = jobs[p]
      PROVE  Ready(p, j)'
  <2>1. At(p, "commit") /\ j.agent \in Agents /\ Known(j.agent) BY <1>3, <1>4
  <2>2. /\ j.moved \subseteq ToMove(j.name)
        /\ Live(j.agent) => ~TakenByOther(j.agent, j.to)
        /\ Holds(j.agent, j.name) /\ j.agent \notin crossed =>
             \A r \in records : r.agent = j.agent /\ ~r.late => r \in j.moved
        /\ \A o \in Jobs \ {p} : At(o, "commit") =>
             /\ jobs[o].agent # j.agent
             /\ jobs[o].moved \cap j.moved = {}
             /\ Live(j.agent) /\ Live(jobs[o].agent) => jobs[o].to # j.to
    BY <1>4, <2>1 DEF FollowInv, CommitsReady, Ready
  <2>3. j.moved \subseteq ToMove(j.name)' BY <2>2 DEF ToMove
  <2>4. ASSUME Live(j.agent)', NEW b \in Agents \ {j.agent}, Holds(b, j.to)' PROVE FALSE
    <3>1. Live(j.agent) BY <2>1, <2>4
    <3>2. CASE Known(b) BY <2>2, <2>4, <3>1, <3>2 DEF Holds, TakenByOther
    <3>3. CASE ~Known(b)
      <4>1. agents'[b].name = j.to /\ Live(b)' BY <2>4 DEF Holds
      <4>2. NameHeld(j.to) BY <1>4, <2>1, <3>1 DEF NameHeld
      <4> QED BY <3>3, <4>1, <4>2
    <3> QED BY <3>2, <3>3
  <2>5. ASSUME Holds(j.agent, j.name)', j.agent \notin crossed', NEW r \in records',
               r.agent = j.agent, ~r.late
        PROVE  r \in j.moved
    <3>1. Holds(j.agent, j.name) /\ j.agent \notin crossed BY <2>1, <2>5 DEF Holds
    <3>2. Renaming(j.agent) BY <1>4, <2>1 DEF Renaming
    <3> QED BY <2>2, <2>5, <3>1, <3>2
  <2>6. ASSUME NEW o \in Jobs \ {p}, At(o, "commit")'
        PROVE  /\ jobs'[o].agent # j.agent
               /\ jobs'[o].moved \cap j.moved = {}
               /\ Live(j.agent)' /\ Live(jobs[o].agent)' => jobs'[o].to # j.to
    <3>1. PICK i : i = jobs[o] OBVIOUS
    <3>2. jobs'[o] = i /\ At(o, "commit") /\ i.agent \in Agents /\ Known(i.agent)
      BY <1>3, <2>6, <3>1
    <3>3. Live(i.agent)' => Live(i.agent) BY <3>2
    <3>4. Live(j.agent)' => Live(j.agent) BY <2>1
    <3>5. /\ i.agent # j.agent
          /\ i.moved \cap j.moved = {}
          /\ Live(j.agent) /\ Live(i.agent) => i.to # j.to
      BY <2>2, <2>6, <3>1, <3>2
    <3> QED BY <3>2, <3>3, <3>4, <3>5
  <2> QED BY <2>3, <2>4, <2>5, <2>6 DEF Ready, TakenByOther
<1>5. CommitsReady'
  <2>1. ASSUME NEW p \in Jobs, At(p, "commit")' PROVE Ready(p, jobs[p])'
    <3>1. PICK j : j = jobs[p] OBVIOUS
    <3>2. jobs'[p] = j BY <1>3, <2>1, <3>1
    <3> QED BY <1>4, <2>1, <3>1, <3>2
  <2> QED BY <2>1 DEF CommitsReady
<1>6. ASSUME NEW r \in records', Live(r.agent)', ~r.late
      PROVE  r.name = agents'[r.agent].name \/ r.agent \in crossed'
  <2>1. CASE r \in records
    <3>1. r.agent \in Agents /\ Known(r.agent) BY <2>1 DEF TypeOK, Records, AllKnown
    <3> QED BY <1>6, <2>1, <3>1 DEF FollowInv, RecordsFollowTheAgent
  <2>2. CASE r \notin records BY <1>6, <2>2
  <2> QED BY <2>1, <2>2
<1> QED BY <1>2, <1>5, <1>6 DEF FollowInv, RecordsFollowTheAgent

\* A rename has run its updates: whoever commits next waits for it where they meet.
LEMMA FollowUpdate ==
  ASSUME TypeOK, FollowInv, NEW p \in Jobs, RenameUpdate(p), ~GiveUp(p)
  PROVE  FollowInv'
<1>1. PICK j, m : j = jobs[p] /\ m = ToMove(j.name) OBVIOUS
<1>2. PICK k : k = After(j, j.agent, "commit", m) OBVIOUS
<1>3. k.agent = j.agent /\ k.name = j.name /\ k.to = j.to /\ k.moved = m BY <1>2 DEF After
<1>4. jobs'[p] = k /\ \A o \in Jobs \ {p} : jobs'[o] = jobs[o]
  BY <1>1, <1>2, Taken DEF TypeOK, JobsOK
<1>5. UNCHANGED <<agents, records, crossed>> BY DEF RenameUpdate
<1>6. /\ ~Renaming(j.agent) /\ ~NameHeld(j.to)
      /\ \A o \in Jobs : At(o, "commit") => jobs[o].moved \cap m = {}
      /\ ~(Live(j.agent) /\ TakenByOther(j.agent, j.to))
  BY <1>1 DEF RenameUpdate
<1>7. \A r : r \in m <=> r \in records /\ r.name = j.name BY <1>1 DEF ToMove
<1>8. \A o \in Jobs \ {p} : At(o, "commit") =>
        /\ jobs[o].agent # j.agent
        /\ jobs[o].moved \cap m = {}
        /\ Live(jobs[o].agent) => jobs[o].to # j.to
  BY <1>6 DEF Renaming, NameHeld
<1>9. ASSUME NEW o \in Jobs \ {p}, At(o, "commit")' PROVE Ready(o, jobs[o])'
  <2>1. PICK i : i = jobs[o] OBVIOUS
  <2>2. jobs'[o] = i /\ At(o, "commit") /\ Ready(o, i)
    BY <1>4, <1>9, <2>1 DEF At, FollowInv, CommitsReady
  <2>3. /\ (i.moved \subseteq ToMove(i.name))'
        /\ (Live(i.agent) => ~TakenByOther(i.agent, i.to))'
        /\ (Holds(i.agent, i.name) /\ i.agent \notin crossed =>
              \A r \in records : r.agent = i.agent /\ ~r.late => r \in i.moved)'
    BY <1>5, <2>2 DEF Ready, ToMove, Live, TakenByOther, Holds
  <2>4. ASSUME NEW l \in Jobs \ {o}, At(l, "commit")'
        PROVE  /\ jobs'[l].agent # i.agent
               /\ jobs'[l].moved \cap i.moved = {}
               /\ Live(i.agent)' /\ Live(jobs[l].agent)' => jobs'[l].to # i.to
    <3>1. CASE l = p
      <4>1. jobs'[l] = k BY <1>4, <3>1
      <4>2. i.agent # k.agent /\ i.moved \cap k.moved = {} /\ (Live(i.agent) => i.to # k.to)
        BY <1>3, <1>8, <2>1, <2>2
      <4> QED BY <1>5, <4>1, <4>2 DEF Live
    <3>2. CASE l # p
      <4>1. PICK c : c = jobs[l] OBVIOUS
      <4>2. jobs'[l] = c /\ At(l, "commit") BY <1>4, <2>4, <3>2, <4>1 DEF At
      <4>3. /\ c.agent # i.agent /\ c.moved \cap i.moved = {}
            /\ Live(i.agent) /\ Live(c.agent) => c.to # i.to
        BY <2>2, <2>4, <4>1, <4>2 DEF Ready
      <4> QED BY <1>5, <4>2, <4>3 DEF Live
    <3> QED BY <3>1, <3>2
  <2>5. Ready(o, i)' BY <2>3, <2>4 DEF Ready
  <2> QED BY <2>2, <2>5
<1>10. Ready(p, jobs[p])'
  <2>1. k.moved \subseteq ToMove(k.name)' BY <1>3, <1>5, <1>7 DEF ToMove
  <2>2. (Live(k.agent) => ~TakenByOther(k.agent, k.to))'
    BY <1>3, <1>5, <1>6 DEF Live, TakenByOther, Holds
  <2>3. (Holds(k.agent, k.name) /\ k.agent \notin crossed =>
           \A r \in records : r.agent = k.agent /\ ~r.late => r \in k.moved)'
    BY <1>3, <1>5, <1>7 DEF Holds, Live, FollowInv, RecordsFollowTheAgent
  <2>4. ASSUME NEW l \in Jobs \ {p}, At(l, "commit")'
        PROVE  /\ jobs'[l].agent # k.agent
               /\ jobs'[l].moved \cap k.moved = {}
               /\ Live(k.agent)' /\ Live(jobs[l].agent)' => jobs'[l].to # k.to
    <3>1. PICK c : c = jobs[l] OBVIOUS
    <3>2. jobs'[l] = c /\ At(l, "commit") BY <1>4, <2>4, <3>1 DEF At
    <3>3. c.agent # k.agent /\ c.moved \cap k.moved = {} /\ (Live(c.agent) => c.to # k.to)
      BY <1>3, <1>8, <2>4, <3>1, <3>2
    <3> QED BY <1>5, <3>2, <3>3 DEF Live
  <2>5. Ready(p, k)' BY <2>1, <2>2, <2>3, <2>4 DEF Ready
  <2> QED BY <1>4, <2>5
<1>11. CommitsReady' BY <1>9, <1>10 DEF CommitsReady
<1>12. NamesApart' /\ RecordsFollowTheAgent'
  BY <1>5 DEF FollowInv, NamesApart, TakenByOther, Holds, Live, RecordsFollowTheAgent
<1> QED BY <1>11, <1>12 DEF FollowInv

\* A rename commits.  A record it moves that is another agent's bore the name the
\* renamed agent held, so the other was not called that, unless names had crossed.
LEMMA FollowRename ==
  ASSUME TypeOK, AllKnown, FollowInv, NEW p \in Jobs, RenameCommit(p)
  PROVE  FollowInv'
<1>1. PICK j, a : j = jobs[p] /\ a = j.agent OBVIOUS
<1>2. a \in Agents /\ At(p, "commit") BY <1>1 DEF RenameCommit, At, TypeOK, JobsOK, IsJob
<1>3. /\ j.moved \subseteq ToMove(j.name)
      /\ Live(a) => ~TakenByOther(a, j.to)
      /\ Holds(a, j.name) /\ a \notin crossed =>
           \A r \in records : r.agent = a /\ ~r.late => r \in j.moved
      /\ \A o \in Jobs \ {p} : At(o, "commit") =>
           /\ jobs[o].agent # a
           /\ jobs[o].moved \cap j.moved = {}
           /\ Live(a) /\ Live(jobs[o].agent) => jobs[o].to # j.to
  BY <1>1, <1>2 DEF FollowInv, CommitsReady, Ready
<1>4. /\ agents'[a].name = j.to
      /\ \A b \in Agents \ {a} : agents'[b] = agents[b]
      /\ \A b \in Agents : agents'[b].state = agents[b].state
  BY <1>1, <1>2 DEF RenameCommit, TypeOK, AgentsOK
<1>5. /\ Holds(a, j.name) => crossed' = crossed
      /\ ~Holds(a, j.name) => crossed' = crossed \cup {a} \cup {r.agent : r \in j.moved}
      /\ crossed \subseteq crossed'
  BY <1>1 DEF RenameCommit
<1>6. \A x \in j.moved : x \in records /\ x \in Records /\ x.name = j.name
  BY <1>3 DEF ToMove, TypeOK
<1>7. ASSUME NEW x \in Records, NEW n
      PROVE  /\ [x EXCEPT !.name = n].agent = x.agent
             /\ [x EXCEPT !.name = n].name = n
             /\ [x EXCEPT !.name = n].late = x.late
  BY DEF Records
<1>8. ASSUME NEW r \in records'
      PROVE  \/ r \in records /\ r \notin j.moved
             \/ \E x \in j.moved : r.agent = x.agent /\ r.name = j.to /\ r.late = x.late
  <2>1. CASE r \in records /\ r \notin j.moved BY <2>1
  <2>2. CASE ~(r \in records /\ r \notin j.moved)
    <3>1. PICK x \in j.moved : r = [x EXCEPT !.name = j.to] BY <1>1, <2>2 DEF RenameCommit
    <3>2. r.agent = x.agent /\ r.name = j.to /\ r.late = x.late BY <1>6, <1>7, <3>1
    <3> QED BY <3>2
  <2> QED BY <2>1, <2>2
<1>9. \A r \in records : r \notin j.moved => r \in records' BY <1>1 DEF RenameCommit
<1>10. \A r \in records : r.agent \in Agents BY DEF TypeOK, Records
<1>11. \A o \in Jobs : jobs'[o] # None => o # p /\ jobs'[o] = jobs[o]
  BY DEF RenameCommit, Done, TypeOK, JobsOK
<1>12. NamesApart'
  <2>1. ASSUME NEW b \in Agents, NEW c \in Agents, b # c, Live(b)', Live(c)'
        PROVE  agents'[b].name # agents'[c].name
    <3>1. Live(b) /\ Live(c) BY <1>4, <2>1 DEF Live
    <3>2. CASE b # a /\ c # a
      BY <1>4, <2>1, <3>1, <3>2 DEF FollowInv, NamesApart, TakenByOther, Holds
    <3>3. CASE b = a BY <1>3, <1>4, <2>1, <3>1, <3>3 DEF TakenByOther, Holds
    <3>4. CASE c = a BY <1>3, <1>4, <2>1, <3>1, <3>4 DEF TakenByOther, Holds
    <3> QED BY <3>2, <3>3, <3>4
  <2> QED BY <2>1 DEF NamesApart, TakenByOther, Holds
<1>13. ASSUME NEW r \in records', Live(r.agent)', ~r.late
       PROVE  r.name = agents'[r.agent].name \/ r.agent \in crossed'
  <2>1. CASE r \in records /\ r \notin j.moved
    <3>1. PICK b : b = r.agent OBVIOUS
    <3>2. b \in Agents /\ Live(b) BY <1>4, <1>10, <1>13, <2>1, <3>1 DEF Live
    <3>3. r.name = agents[b].name \/ b \in crossed
      BY <1>13, <2>1, <3>1, <3>2 DEF FollowInv, RecordsFollowTheAgent
    <3>4. CASE b = a BY <1>3, <1>5, <1>13, <2>1, <3>1, <3>4
    <3>5. CASE b # a BY <1>4, <1>5, <3>1, <3>2, <3>3, <3>5
    <3> QED BY <3>4, <3>5
  <2>2. ASSUME NEW x \in j.moved, r.agent = x.agent, r.name = j.to, r.late = x.late
        PROVE  r.name = agents'[r.agent].name \/ r.agent \in crossed'
    <3>1. PICK b : b = r.agent OBVIOUS
    <3>2. b \in Agents /\ x \in records /\ x.name = j.name /\ ~x.late
      BY <1>6, <1>10, <1>13, <2>2, <3>1
    <3>3. Live(b) BY <1>4, <1>13, <3>1, <3>2 DEF Live
    <3>4. x.name = agents[b].name \/ b \in crossed
      BY <2>2, <3>1, <3>2, <3>3 DEF FollowInv, RecordsFollowTheAgent
    <3>5. CASE b = a BY <1>4, <2>2, <3>1, <3>5
    <3>6. CASE b # a /\ ~Holds(a, j.name) BY <1>5, <2>2, <3>1, <3>6
    <3>7. CASE b # a /\ Holds(a, j.name)
      <4>1. x.name # agents[b].name
        BY <1>2, <3>2, <3>3, <3>7 DEF FollowInv, NamesApart, TakenByOther, Holds
      <4> QED BY <1>5, <3>1, <3>4, <4>1
    <3> QED BY <3>5, <3>6, <3>7
  <2> QED BY <1>8, <2>1, <2>2
<1>14. ASSUME NEW o \in Jobs, At(o, "commit")' PROVE Ready(o, jobs[o])'
  <2>1. PICK i, b : i = jobs[o] /\ b = i.agent OBVIOUS
  <2>2. o # p /\ jobs'[o] = i /\ At(o, "commit") /\ b \in Agents
    BY <1>11, <1>14, <2>1 DEF At, TypeOK, JobsOK, IsJob
  <2>3. Ready(o, i) BY <2>1, <2>2 DEF FollowInv, CommitsReady
  <2>4. b # a /\ i.moved \cap j.moved = {} /\ (Live(a) /\ Live(b) => i.to # j.to)
    BY <1>3, <2>1, <2>2
  <2>5. i.moved \subseteq ToMove(i.name)' BY <1>9, <2>3, <2>4 DEF Ready, ToMove
  <2>6. ASSUME Live(b)', NEW c \in Agents \ {b}, Holds(c, i.to)' PROVE FALSE
    <3>1. Live(b) /\ Live(c) BY <1>4, <2>2, <2>6 DEF Holds, Live
    <3>2. CASE c = a BY <1>4, <2>4, <2>6, <3>1, <3>2 DEF Holds
    <3>3. CASE c # a BY <1>4, <2>1, <2>3, <2>6, <3>1, <3>3 DEF Holds, Ready, TakenByOther
    <3> QED BY <3>2, <3>3
  <2>7. ASSUME Holds(b, i.name)', b \notin crossed', NEW r \in records', r.agent = b, ~r.late
        PROVE  r \in i.moved
    <3>1. Holds(b, i.name) /\ b \notin crossed BY <1>4, <1>5, <2>2, <2>4, <2>7 DEF Holds, Live
    <3>2. \A x \in records : x.agent = b /\ ~x.late => x \in i.moved BY <2>1, <2>3, <3>1 DEF Ready
    <3>3. CASE r \in records BY <2>7, <3>2, <3>3
    <3>4. ASSUME NEW x \in j.moved, r.agent = x.agent, r.late = x.late PROVE FALSE
      BY <1>6, <2>4, <2>7, <3>2, <3>4
    <3> QED BY <1>8, <3>3, <3>4
  <2>8. ASSUME NEW l \in Jobs \ {o}, At(l, "commit")'
        PROVE  /\ jobs'[l].agent # b
               /\ jobs'[l].moved \cap i.moved = {}
               /\ Live(b)' /\ Live(jobs[l].agent)' => jobs'[l].to # i.to
    <3>1. PICK c : c = jobs[l] OBVIOUS
    <3>2. jobs'[l] = c /\ At(l, "commit") /\ c.agent \in Agents
      BY <1>11, <2>8, <3>1 DEF At, TypeOK, JobsOK, IsJob
    <3>3. /\ c.agent # b /\ c.moved \cap i.moved = {}
          /\ Live(b) /\ Live(c.agent) => c.to # i.to
      BY <2>1, <2>3, <2>8, <3>1, <3>2 DEF Ready
    <3> QED BY <1>4, <2>2, <3>2, <3>3 DEF Live
  <2>9. Ready(o, i)' BY <2>1, <2>5, <2>6, <2>7, <2>8 DEF Ready, TakenByOther
  <2> QED BY <2>2, <2>9
<1>15. CommitsReady' BY <1>14 DEF CommitsReady
<1>16. RecordsFollowTheAgent' BY <1>13 DEF RecordsFollowTheAgent
<1> QED BY <1>12, <1>15, <1>16 DEF FollowInv

\* A record that is new is late, or tells the name its agent has and keeps.
LEMMA NewRecord ==
  ASSUME TypeOK, AllKnown, NEW t, NEW a \in Agents, Known(a), NEW n, Record(t, a, n)
  PROVE  /\ records \subseteq records'
         /\ \A r \in records' : r \notin records =>
              \/ r.late
              \/ r.agent \in Agents /\ r.name = agents[r.agent].name /\ Known(r.agent) /\ ~Renaming(r.agent)
<1>1. PICK l :
        /\ records' = records \cup {[table |-> t, agent |-> a, name |-> n, late |-> l]}
        /\ l = (Renaming(a) \/ agents[a].name # n)
  BY Zenon DEF Record
<1>2. l \/ (~Renaming(a) /\ agents[a].name = n) BY <1>1, Zenon
<1> QED BY <1>1, <1>2

LEMMA FollowStep ==
  TypeOK /\ AllKnown /\ FollowInv /\ [Next]_vars => FollowInv'
<1> SUFFICES ASSUME TypeOK, AllKnown, FollowInv, [Next]_vars PROVE FollowInv'
  OBVIOUS
<1>. DEFINE NoCommit == \A o \in Jobs : jobs'[o] # None /\ jobs'[o].step = "commit" => jobs'[o] = jobs[o]
            Named == \A a \in Agents : agents'[a].name = agents[a].name /\ (Live(a)' => Live(a))
<1>1. ASSUME NoCommit, Named, crossed \subseteq crossed', records' = records PROVE FollowInv'
  <2>1. \A a \in Agents : ~Known(a) => ~Live(a) BY DEF Known, Live
  <2> QED BY <1>1, <2>1, FollowKeeps
<1>2. ASSUME NEW p \in Jobs, NEW j, jobs' = [jobs EXCEPT ![p] = j], j = None \/ j.step # "commit"
      PROVE  NoCommit
  BY <1>2 DEF TypeOK, JobsOK
<1>3. ASSUME NEW p \in Jobs, NEW s \in JobSteps, s # "commit", jobs[p] # None,
             jobs' = [jobs EXCEPT ![p].step = s]
      PROVE  NoCommit
  <2>1. jobs[p] \in JobRecords BY <1>3 DEF TypeOK, JobsOK, IsJob
  <2>2. jobs' = [jobs EXCEPT ![p] = After(jobs[p], jobs[p].agent, s, jobs[p].moved)]
    BY <1>3, <2>1, Steps
  <2>3. After(jobs[p], jobs[p].agent, s, jobs[p].moved).step = s BY DEF After
  <2> QED BY <1>2, <1>3, <2>2, <2>3
<1>4. ASSUME agents' = agents PROVE Named BY <1>4 DEF Live
<1>5. ASSUME NEW p \in Jobs, GiveUp(p) PROVE FollowInv'
  <2>1. jobs' = [jobs EXCEPT ![p] = None] /\ UNCHANGED <<agents, records, crossed>>
    BY <1>5 DEF GiveUp, Done
  <2> QED BY <1>1, <1>2, <1>4, <2>1
<1>6. ASSUME NEW p \in Jobs, Start(p) PROVE FollowInv'
  <2>1. PICK j : /\ j.step # "commit" /\ jobs' = [jobs EXCEPT ![p] = j]
                 /\ UNCHANGED <<agents, records, crossed>>
    BY <1>6, Starts
  <2> QED BY <1>1, <1>2, <1>4, <2>1
<1>7. ASSUME NEW p \in Jobs, NEW s, At(p, s) PROVE
        /\ jobs[p] # None /\ IsJob(jobs[p]) /\ jobs[p].step = s
        /\ s # "agent" => jobs[p].agent \in Agents /\ Known(jobs[p].agent)
  BY <1>7 DEF At, TypeOK, JobsOK, IsJob, AllKnown
<1>8. ASSUME NEW a \in Fresh, NEW n, ~NameTaken(n), ~NameHeld(n), NoCommit,
             agents' = [agents EXCEPT ![a] = [state |-> "live", name |-> n]],
             UNCHANGED <<records, crossed>>
      PROVE  FollowInv'
  <2>1. a \in Agents /\ ~Known(a) /\ agents'[a].name = n BY <1>8 DEF Fresh, Known, TypeOK, AgentsOK
  <2>2. \A b \in Agents \ {a} : agents'[b] = agents[b] BY <1>8 DEF TypeOK, AgentsOK
  <2>3. \A b \in Agents \ {a} : ~Holds(b, n)' BY <1>8, <2>2 DEF NameTaken, Holds, Live
  <2>4. ASSUME NEW b \in Agents, ~Known(b), Live(b)'
        PROVE  (\A c \in Agents \ {b} : ~Holds(c, agents[b].name)') /\ ~NameHeld(agents'[b].name)
    <3>1. b = a BY <2>2, <2>4 DEF Known, Live
    <3> QED BY <1>8, <2>1, <2>3, <3>1
  <2>5. \A b \in Agents : Known(b) => agents'[b].name = agents[b].name /\ (Live(b)' => Live(b))
    BY <2>1, <2>2 DEF Live
  <2> QED BY <1>8, <2>4, <2>5, FollowKeeps
<1>9. ASSUME NEW p \in Jobs, InsertAgent(p), ~GiveUp(p) PROVE FollowInv'
  <2>1. PICK a \in Fresh :
          /\ agents' = [agents EXCEPT ![a] = [state |-> "live", name |-> jobs[p].to]]
          /\ jobs' = [jobs EXCEPT ![p].agent = a, ![p].step = "key"]
          /\ UNCHANGED <<records, crossed>>
    BY <1>9 DEF InsertAgent
  <2>2. ~NameTaken(jobs[p].to) /\ ~NameHeld(jobs[p].to) /\ At(p, "agent") BY <1>9 DEF InsertAgent
  <2>3. jobs[p] \in JobRecords BY <1>7, <2>2 DEF IsJob
  <2>4. [jobs[p] EXCEPT !.agent = a, !.step = "key"] = After(jobs[p], a, "key", jobs[p].moved)
    BY <2>3, Steps
  <2>5. jobs' = [jobs EXCEPT ![p] = After(jobs[p], a, "key", jobs[p].moved)]
    BY <2>1, <2>4 DEF TypeOK, JobsOK
  <2>6. After(jobs[p], a, "key", jobs[p].moved).step = "key" BY DEF After
  <2>7. NoCommit BY <1>2, <2>5, <2>6
  <2> QED BY <1>8, <2>1, <2>2, <2>7
<1>10. ASSUME NEW p \in Jobs, InsertKey(p), ~GiveUp(p) PROVE FollowInv'
  <2>1. jobs' = [jobs EXCEPT ![p] = None] /\ UNCHANGED <<agents, records, crossed>>
    BY <1>10 DEF InsertKey, Done
  <2> QED BY <1>1, <1>2, <1>4, <2>1
<1>11. ASSUME NEW p \in Jobs, InsertCopy(p), ~GiveUp(p) PROVE FollowInv'
  <2>1. PICK a \in Fresh :
          /\ agents' = [agents EXCEPT ![a] = [state |-> "live", name |-> jobs[p].to]]
          /\ jobs' = [jobs EXCEPT ![p] = None]
          /\ UNCHANGED <<records, crossed>>
    BY <1>11 DEF InsertCopy, Done
  <2>2. ~NameTaken(jobs[p].to) /\ ~NameHeld(jobs[p].to) BY <1>11 DEF InsertCopy
  <2>3. NoCommit BY <1>2, <2>1
  <2> QED BY <1>8, <2>1, <2>2, <2>3
<1>12. ASSUME NEW p \in Jobs, RotateDelete(p) \/ RotateClear(p) \/ (RenameCheck(p) /\ ~GiveUp(p))
       PROVE  FollowInv'
  <2>1. PICK s \in {"clear", "key", "update"} : Goto(p, s) /\ UNCHANGED <<agents, records, crossed>>
    BY <1>12 DEF RotateDelete, RotateClear, RenameCheck
  <2>2. jobs[p] # None BY <1>12 DEF RotateDelete, RotateClear, RenameCheck, At
  <2>3. NoCommit BY <1>3, <2>1, <2>2 DEF Goto, JobSteps
  <2> QED BY <1>1, <1>4, <2>1, <2>3
<1>13. ASSUME NEW p \in Jobs, DeleteCommit(p) PROVE FollowInv'
  <2>1. /\ Goto(p, "clear") /\ jobs[p] # None /\ crossed \subseteq crossed' /\ records' = records
        /\ agents' = [agents EXCEPT ![jobs[p].agent].state = "deleted"]
    BY <1>13 DEF DeleteCommit, At
  <2>2. NoCommit BY <1>3, <2>1 DEF Goto, JobSteps
  <2>3. Named BY <2>1 DEF Live, TypeOK, AgentsOK
  <2> QED BY <1>1, <2>1, <2>2, <2>3
<1>14. ASSUME NEW p \in Jobs, DeleteClear(p) PROVE FollowInv'
  <2>1. jobs' = [jobs EXCEPT ![p] = None] /\ UNCHANGED <<agents, records, crossed>>
    BY <1>14 DEF DeleteClear, Done
  <2> QED BY <1>1, <1>2, <1>4, <2>1
<1>15. ASSUME NEW t, NEW a \in Agents, Known(a), NEW n, Record(t, a, n), NoCommit,
              UNCHANGED <<agents, crossed>>
       PROVE  FollowInv'
  <2>1. /\ records \subseteq records'
        /\ \A r \in records' : r \notin records =>
             \/ r.late
             \/ r.agent \in Agents /\ r.name = agents[r.agent].name /\ Known(r.agent) /\ ~Renaming(r.agent)
    BY <1>15, NewRecord
  <2>2. \A b \in Agents : ~Known(b) => ~Live(b)' BY <1>15 DEF Known, Live
  <2>3. Named BY <1>4, <1>15
  <2> QED BY <1>15, <2>1, <2>2, <2>3, FollowKeeps
<1>16. ASSUME NEW p \in Jobs, InsertRule(p) PROVE FollowInv'
  <2>1. /\ jobs' = [jobs EXCEPT ![p] = None] /\ UNCHANGED <<agents, crossed>> /\ At(p, "rule")
        /\ Record("notification_rules", jobs[p].agent, jobs[p].name)
    BY <1>16 DEF InsertRule, Done
  <2>2. jobs[p].agent \in Agents /\ Known(jobs[p].agent) BY <1>7, <2>1
  <2>3. NoCommit BY <1>2, <2>1
  <2> QED BY <1>15, <2>1, <2>2, <2>3
<1>17. ASSUME NEW q \in Requests, Leave(q) PROVE FollowInv'
  <2>1. UNCHANGED <<agents, crossed, jobs>> /\ requests[q] # None BY <1>17 DEF Leave
  <2>2. requests[q].agent \in Agents /\ Known(requests[q].agent)
    BY <2>1 DEF AllKnown, TypeOK, RequestsOK, IsRequest
  <2>3. NoCommit BY <2>1
  <2>4. CASE records' = records BY <1>1, <1>4, <2>1, <2>3, <2>4
  <2>5. CASE Record("agent_messages", requests[q].agent, requests[q].name)
    BY <1>15, <2>1, <2>2, <2>3, <2>5
  <2> QED BY <1>17, <2>4, <2>5 DEF Leave
<1>18. ASSUME UNCHANGED <<agents, records, jobs, crossed>> PROVE FollowInv'
  BY <1>1, <1>4, <1>18
<1>19. ASSUME NEW q \in Requests, Admit(q) \/ \E k \in Keys : Hit(q, k) \/ Look(q, k) PROVE FollowInv'
  BY <1>18, <1>19 DEF Admit, Hit, Look
<1>20. ASSUME NEW n \in Names, Find(n) \/ Keep(n) PROVE FollowInv' BY <1>18, <1>20 DEF Find, Keep
<1>21. CASE EvictExpired \/ Tick \/ UNCHANGED vars BY <1>18, <1>21 DEF EvictExpired, Tick, vars
<1>22. ASSUME NEW p \in Jobs, RenameUpdate(p) PROVE FollowInv' BY <1>5, <1>22, FollowUpdate
<1>23. ASSUME NEW p \in Jobs, RenameCommit(p) PROVE FollowInv' BY <1>23, FollowRename
<1> QED
  BY <1>5, <1>6, <1>9, <1>10, <1>11, <1>12, <1>13, <1>14, <1>16, <1>17, <1>19, <1>20, <1>21, <1>22,
     <1>23
    DEF Next, Proceed, Fail

\* Keys, names and records, with what each needs of the others.
IInv == TypeOK /\ EntriesTell /\ AllKnown /\ FollowInv /\ RevokedIsCleared

LEMMA IndInit == Init => IInv
BY TypeInit, TellInit, KnownInit, FollowInit, ClearedInit DEF IInv

LEMMA IndStep == IInv /\ [Next]_vars => IInv'
BY TypeStep, TellStep, KnownStep, FollowStep, ClearedStep DEF IInv, FollowInv

\* After its clearing (of rotateKey or deleteAgent) a revoked key or a deleted agent
\* is cached only by a lookup that had read before.
THEOREM RevokedForgotten == Spec => []RevokedIsForgotten
<1>1. \A a, n : Deleting(a, n) => Clearing(a) BY DEF Deleting, Clearing
<1>2. IInv => RevokedIsForgotten BY <1>1 DEF IInv, RevokedIsCleared, RevokedIsForgotten, MayKeep
<1> QED BY IndInit, IndStep, <1>2, PTL DEF Spec

\* However renames, deletions and writers overlap, a record that was written in time
\* bears its agent's name, unless a call went on with a name that had changed under
\* it (renameAgent).
THEOREM RecordsFollow == Spec => []RecordsFollowTheAgent
<1>1. IInv => RecordsFollowTheAgent BY DEF IInv, FollowInv
<1> QED BY IndInit, IndStep, <1>1, PTL DEF Spec

===============================================================================
