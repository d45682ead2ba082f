------------------------------ MODULE KeyRouting ------------------------------
(***************************************************************************)
(* The keys of one provider of one agent, the routes that name them and    *)
(* the cached lists they are served from: ProviderService and              *)
(* ProviderKeyService, the three services that keep routes (TierService,   *)
(* SpecificityService, HeaderTierService) and RoutingCacheService.         *)
(*                                                                         *)
(* A mutation is a job that goes through its database calls one at a time; *)
(* between two of them any other job, reader or expiry may run.  What a    *)
(* job has read it keeps, and TypeORM's save writes back the whole entity: *)
(* it overwrites what others changed meanwhile and inserts the row again   *)
(* when it is gone.                                                        *)
(***************************************************************************)
EXTENDS Naturals, FiniteSets, Sequences, Functions

CONSTANTS Auths,          \* the auth types the provider can be connected with
          Labels,         \* the names a key can carry
          DefaultLabel,   \* the name of a key stored without one
          Keys,           \* credential values
          None,           \* no entry, nothing read yet
          Jobs,           \* slots for mutations in flight
          RemovalAuths,   \* the auth types a removal may name (AnyAuth: none)
          MaxKeys,        \* MAX_KEYS_PER_PROVIDER
          MaxPins,        \* bound: routes stored at one time
          MaxStarted,     \* bound: mutations, when each runs alone
          MaxShared       \* bound: mutations, once two have overlapped

NoLabel == "no label"
AnyAuth == "any auth"

ASSUME KeyRoutingAssumption ==
  /\ DefaultLabel \in Labels /\ NoLabel \notin Labels /\ AnyAuth \notin Auths
  /\ RemovalAuths \subseteq Auths \cup {AnyAuth}
  /\ {MaxKeys, MaxPins, MaxStarted, MaxShared} \subseteq Nat

\* The tables that hold routes, in the order the code rewrites them.
Tables == <<"tier", "specificity", "header">>

\* A ModelRoute on this provider: its auth type and the key it is pinned to.
Routes == [auth : Auths, label : Labels \cup {NoLabel}]

VARIABLES rows,         \* user_providers: the keys, connected or not
          routes,       \* override_route and fallback_routes, by table
          cache,        \* providerKeys, by auth type
          fills,        \* getProviderKeys between its find and its set
          jobs,         \* the mutations in flight
          dirty,        \* those that have written and not yet invalidated
          started,      \* mutations begun so far
          alone,        \* each mutation so far ran alone and to its end, and
                        \* left no route to a key it took away
          unannounced   \* a mutation has failed between a write and its
                        \* invalidateAgent, and no other has come since

vars == <<rows, routes, cache, fills, jobs, dirty, started, alone, unannounced>>
-------------------------------------------------------------------------------
\* A slot without a mutation has nothing left to do.
NoJob == [op |-> "none", id |-> 0, todo |-> <<>>, auth |-> AnyAuth,
          label |-> NoLabel, to |-> NoLabel, key |-> None, route |-> None,
          snap |-> {}, seen |-> None]

Idle(p) == jobs[p].todo = <<>>
Quiet == \A p \in Jobs : Idle(p)
At(p, step) == ~Idle(p) /\ Head(jobs[p].todo) = step

OfAuth(a) == {r \in rows : a \in {r.auth, AnyAuth}}
Active(S) == {r \in S : r.active}
Named(S, l) == {r \in S : r.label = l}

\* resolveProviderKeys: the keys a request of that auth type can be sent with.
Resolvable(a) == Active(OfAuth(a))

\* TypeORM's save of a set of entities, and the unique index on
\* (agent_id, provider, auth_type, LOWER(label)) that can refuse it.
Saved(S) == {r \in rows : \A s \in S : s.id # r.id} \cup S
Fits(S) == \A r, s \in Saved(S) :
             (r.auth = s.auth /\ r.label = s.label) => r.id = s.id

\* The orders ORDER BY priority ASC may return: ties in any order.
Orders(S) == {f \in [S -> 0 .. Cardinality(S) - 1] :
                \A r, s \in S : /\ f[r] = f[s] => r = s
                                /\ r.priority < s.priority => f[r] < f[s]}
Numbered(S, f) == {[r EXCEPT !.priority = f[r]] : r \in S}

NextPriority(S) ==
  IF Active(S) = {} THEN 0
  ELSE 1 + CHOOSE n \in {r.priority : r \in Active(S)} :
             \A r \in Active(S) : r.priority <= n
-------------------------------------------------------------------------------
Init == /\ rows = {}
        /\ routes = [t \in Range(Tables) |-> {}]
        /\ cache = [a \in Auths |-> None]
        /\ fills = [a \in Auths |-> None]
        /\ jobs = [p \in Jobs |-> NoJob]
        /\ dirty = {}
        /\ started = 0
        /\ alone = TRUE
        /\ unannounced = FALSE

\* A mutation begins with its first read; `todo` lists the steps that follow.
Job(p, op, todo, auth) ==
  [op |-> op, id |-> started + 1, todo |-> todo, auth |-> auth, label |-> NoLabel,
   to |-> NoLabel, key |-> None, route |-> None, snap |-> OfAuth(auth), seen |-> None]

\* (Bounds: MaxStarted mutations one after the other, MaxShared once one has
\* failed or two have overlapped, and no third that overlaps.)
MayBegin(p) ==
  /\ Idle(p)
  /\ Quiet \/ alone
  /\ started < IF alone /\ Quiet THEN MaxStarted ELSE MaxShared

Begin(p, job) ==
  /\ started' = started + 1
  /\ alone' = (alone /\ Quiet)
  /\ jobs' = [jobs EXCEPT ![p] = job]
  /\ UNCHANGED <<rows, routes, cache, fills, dirty, unannounced>>

\* The job has made the call at the head of its list, and written or not.
Went(p, rest) == jobs' = [jobs EXCEPT ![p].todo = rest, ![p].seen = None]
Wrote(p) == dirty' = dirty \cup {p}

\* The job ends without reaching its invalidateAgent.
GiveUp(p) ==
  /\ jobs' = [jobs EXCEPT ![p] = NoJob]
  /\ dirty' = dirty \ {p}
  /\ alone' = (alone /\ p \notin dirty)
  /\ unannounced' = (unannounced \/ p \in dirty)
  /\ UNCHANGED <<rows, routes, cache, fills, started>>

\* A save of rows: it goes through, or the unique index refuses it.
Save(p, S, rest) ==
  \/ /\ Fits(S)
     /\ rows' = Saved(S)
     /\ Went(p, rest) /\ Wrote(p)
     /\ UNCHANGED <<routes, cache, fills, started, alone, unannounced>>
  \/ ~Fits(S) /\ GiveUp(p)

Rest(p) == Tail(jobs[p].todo)
-------------------------------------------------------------------------------
\* upsertProvider and upsertProviderWithLabel: store a key under a name, or
\* replace the key stored there and connect it again.
Connect(p, a, l, k) ==
  Begin(p, [Job(p, "connect", <<"write", "recalculate", "invalidate">>, a)
              EXCEPT !.label = l, !.key = k])

Refused(j) == LET connected == Active(j.snap) IN
  /\ j.label # NoLabel
  /\ \/ Cardinality(connected) >= MaxKeys
     \/ \E r \in connected : r.key = j.key

ConnectWrite(p) ==
  LET j == jobs[p]
      l == IF j.label = NoLabel THEN DefaultLabel ELSE j.label
      old == Named(j.snap, l)
      priority == IF j.label = NoLabel THEN 0 ELSE NextPriority(j.snap)
  IN /\ At(p, "write") /\ j.op = "connect"
     /\ \/ /\ old # {}
           /\ Save(p, {[r EXCEPT !.key = j.key, !.active = TRUE] : r \in old},
                   Rest(p))
        \/ old = {} /\ Refused(j) /\ GiveUp(p)
        \/ /\ old = {} /\ ~Refused(j)
           /\ Save(p, {[id |-> j.id, auth |-> j.auth, label |-> l,
                        priority |-> priority, active |-> TRUE,
                        key |-> j.key]}, Rest(p))

\* Mutant: the routes keep the old name.
RenameRowOnly(p, a, l, n) ==
  /\ Named(OfAuth(a), l) # {}
  /\ Named(OfAuth(a), n) = {}
  /\ Begin(p, [Job(p, "rename", <<"write", "invalidate">>, a)
                 EXCEPT !.label = l, !.to = n])

\* renameKey: rename the row, then the routes pinned to it.
Rename(p, a, l, n) ==
  /\ Named(OfAuth(a), l) # {}
  /\ Named(OfAuth(a), n) = {}
  /\ Begin(p, [Job(p, "rename", <<"write">> \o Tables \o <<"invalidate">>, a)
                 EXCEPT !.label = l, !.to = n])

RenameWrite(p) ==
  /\ At(p, "write") /\ jobs[p].op = "rename"
  /\ Save(p, {[r EXCEPT !.label = jobs[p].to] :
                r \in Named(jobs[p].snap, jobs[p].label)}, Rest(p))

\* reorderKeys: the connected keys, numbered in the order the caller gives.
Reorder(p, a) ==
  /\ Resolvable(a) # {}
  /\ Begin(p, Job(p, "reorder", <<"write", "invalidate">>, a))

ReorderWrite(p) == LET S == Active(jobs[p].snap) IN
  /\ At(p, "write") /\ jobs[p].op = "reorder"
  /\ \E f \in Bijection(S, 0 .. Cardinality(S) - 1) :
       Save(p, Numbered(S, f), Rest(p))
-------------------------------------------------------------------------------
\* removeProvider: disconnect every key of an auth type (or of all).
Remove(p, a) ==
  /\ OfAuth(a) # {}
  /\ Begin(p, Job(p, "remove", <<"write", "others">>, a))

RemoveWrite(p) == LET S == Active(jobs[p].snap) IN
  /\ At(p, "write") /\ jobs[p].op = "remove"
  /\ IF S = {}
       THEN \/ /\ OfAuth(jobs[p].auth) # {}
               /\ Went(p, Rest(p))
               /\ UNCHANGED <<rows, routes, cache, fills, dirty, started, alone,
                              unannounced>>
            \/ OfAuth(jobs[p].auth) = {} /\ GiveUp(p)
       ELSE Save(p, {[r EXCEPT !.active = FALSE] : r \in S}, Rest(p))

\* Are keys of another auth type connected?  Then only this one's routes go,
\* and none when the caller named no auth type.
RemoveOthers(p) == LET others == Active(rows) # {} IN
  /\ At(p, "others")
  /\ jobs' = [jobs EXCEPT
       ![p].todo = IF others /\ jobs[p].auth = AnyAuth
                     THEN <<"invalidate">>
                     ELSE Tables \o <<"recalculate", "invalidate">>,
       ![p].auth = IF others THEN @ ELSE AnyAuth]
  /\ UNCHANGED <<rows, routes, cache, fills, dirty, started, alone, unannounced>>

\* removeKeyByLabel: the last connected key goes the way of removeProvider.
RemoveKey(p, a, l) ==
  \E target \in Named(OfAuth(a), l) :
    IF \E r \in Active(OfAuth(a)) : r.id # target.id
      THEN Begin(p, [Job(p, "removeKey", <<"write">> \o Tables
                              \o <<"renumber", "number", "invalidate">>,
                         target.auth)
                       EXCEPT !.label = l])
      ELSE Begin(p, Job(p, "remove", <<"find", "write", "others">>, target.auth))

RemoveFind(p) ==
  /\ At(p, "find")
  /\ jobs' = [jobs EXCEPT ![p].todo = Rest(p),
                          ![p].snap = OfAuth(jobs[p].auth)]
  /\ UNCHANGED <<rows, routes, cache, fills, dirty, started, alone, unannounced>>

\* A removal that names no auth type takes a key for one of several when keys
\* of another auth type are connected, and leaves the routes of the last one.
Stranded(a) == /\ Active(OfAuth(a))' = {}
               /\ \E t \in Range(Tables) : \E r \in routes[t] : r.auth = a

RemoveKeyWrite(p) ==
  /\ At(p, "write") /\ jobs[p].op = "removeKey"
  /\ rows' = {r \in rows : \A s \in Named(jobs[p].snap, jobs[p].label) :
                             r.id # s.id}
  /\ Went(p, Rest(p)) /\ Wrote(p)
  /\ alone' = (alone /\ ~Stranded(jobs[p].auth))
  /\ UNCHANGED <<routes, cache, fills, started, unannounced>>

\* renumberPriorities: read the chain, then close its gaps.
RenumberRead(p) ==
  /\ At(p, "renumber")
  /\ jobs' = [jobs EXCEPT ![p].todo = Rest(p),
                          ![p].snap = Resolvable(jobs[p].auth)]
  /\ UNCHANGED <<rows, routes, cache, fills, dirty, started, alone, unannounced>>

Renumber(p) ==
  /\ At(p, "number")
  /\ \E f \in Orders(jobs[p].snap) :
       IF Numbered(jobs[p].snap, f) = jobs[p].snap
         THEN /\ Went(p, Rest(p))
              /\ UNCHANGED <<rows, routes, cache, fills, dirty, started, alone,
                             unannounced>>
         ELSE Save(p, Numbered(jobs[p].snap, f), Rest(p))

\* deactivateAllProviders: every key, then the routes of two tables of three.
DeactivateAll(p) ==
  Begin(p, Job(p, "deactivate",
               <<"write", "tier", "header", "recalculate", "invalidate">>, AnyAuth))

DeactivateWrite(p) ==
  /\ At(p, "write") /\ jobs[p].op = "deactivate"
  /\ rows' = {[r EXCEPT !.active = FALSE] : r \in rows}
  /\ Went(p, Rest(p)) /\ Wrote(p)
  /\ alone' = (alone /\ routes["specificity"] = {})
  /\ UNCHANGED <<routes, cache, fills, started, unannounced>>

BlindUpdates == {"deactivate", "reset"}

Clear(p, t) ==
  /\ At(p, t) /\ jobs[p].op \in BlindUpdates
  /\ routes' = [routes EXCEPT ![t] = {}]
  /\ Went(p, Rest(p)) /\ Wrote(p)
  /\ UNCHANGED <<rows, cache, fills, started, alone, unannounced>>
-------------------------------------------------------------------------------
\* The dashboard lets the user choose among the keys that are connected.
Shown(r) ==
  \E key \in Active(rows) : key.auth = r.auth /\ r.label \in {key.label, NoLabel}

PinTo(p, t, r) ==
  Shown(r) /\ Begin(p, [Job(p, "pin", <<t, "invalidate">>, r.auth) EXCEPT !.route = r])

\* setOverride of the three services; only the first looks at the models that
\* the connected keys offer.
PinTier(p, r) == Active(rows) # {} /\ PinTo(p, "tier", r)
PinSpecificity(p, r) == PinTo(p, "specificity", r)
PinHeader(p, r) == PinTo(p, "header", r)

\* setFallbacks: the auth type is checked as well, the key's name is not.
PinFallback(p, t, r) == (\E key \in Active(rows) : key.auth = r.auth) /\ PinTo(p, t, r)

\* clearOverride and clearFallbacks read and save, resetAll updates blindly.
Unpin(p, t) ==
  routes[t] # {} /\ Begin(p, Job(p, "unpin", <<t, "invalidate">>, AnyAuth))
ResetAll(p, t) ==
  routes[t] # {} /\ Begin(p, Job(p, "reset", <<t, "invalidate">>, AnyAuth))

\* What the step at the head of the list makes of a table's routes.
Cleaned(j, S) == {r \in S : j.auth \notin {r.auth, AnyAuth}}

Relabelled(j, S) ==
  {IF r.auth = j.auth /\ r.label = j.label
     THEN [r EXCEPT !.label = j.to] ELSE r : r \in S}

\* A table's new routes are some of those it had and the one chosen.
Pinned(j, S) == {kept \cup {j.route} : kept \in SUBSET S}

Rewrites(j, S) == CASE j.op = "pin" -> Pinned(j, S)
                    [] j.op = "unpin" -> SUBSET S
                    [] j.op = "remove" -> {Cleaned(j, S)}
                    [] OTHER -> {Relabelled(j, S)}

Total(f) == FoldFunction(+, 0, [t \in DOMAIN f |-> Cardinality(f[t])])

\* find of one table's entities ...
Read(p, t) ==
  /\ At(p, t) /\ jobs[p].seen = None /\ jobs[p].op \notin BlindUpdates
  /\ jobs' = [jobs EXCEPT ![p].seen = routes[t]]
  /\ UNCHANGED <<rows, routes, cache, fills, dirty, started, alone, unannounced>>

\* ... and the save of those that are to change.
Write(p, t) ==
  /\ At(p, t) /\ jobs[p].seen # None
  /\ \E new \in Rewrites(jobs[p], jobs[p].seen) :
       LET saved == jobs[p].op \in {"pin", "unpin"} \/ new # jobs[p].seen IN
       /\ routes' = IF saved THEN [routes EXCEPT ![t] = new] ELSE routes
       /\ jobs[p].op = "pin" => Total(routes') <= MaxPins
       /\ Went(p, Rest(p))
       /\ IF saved THEN Wrote(p) ELSE UNCHANGED dirty
  /\ UNCHANGED <<rows, cache, fills, started, alone, unannounced>>

\* recalculate: every tier entity is read, given its automatic route (which is
\* left out here) and saved whole, the user's routes with it.
RecalculateRead(p) ==
  /\ At(p, "recalculate") /\ jobs[p].seen = None
  /\ jobs' = [jobs EXCEPT ![p].seen = routes["tier"]]
  /\ UNCHANGED <<rows, routes, cache, fills, dirty, started, alone, unannounced>>

Recalculate(p) ==
  /\ At(p, "recalculate") /\ jobs[p].seen # None
  /\ routes' = [routes EXCEPT !["tier"] = jobs[p].seen]
  /\ Went(p, Rest(p)) /\ Wrote(p)
  /\ UNCHANGED <<rows, cache, fills, started, alone, unannounced>>
-------------------------------------------------------------------------------
\* Mutant: the other caches are dropped, and the lists of keys are not.
SparesProviderKeys(c) == c

\* What invalidateAgent leaves of the cached lists.
Invalidated(c) == [a \in DOMAIN c |-> None]

\* invalidateAgent, the last step of a mutation.
Invalidate(p) ==
  /\ At(p, "invalidate")
  /\ cache' = Invalidated(cache)
  /\ fills' = [a \in Auths |-> IF fills[a] = None THEN None
                               ELSE [list |-> fills[a].list, raced |-> TRUE]]
  /\ unannounced' = FALSE
  /\ jobs' = [jobs EXCEPT ![p] = NoJob]
  /\ dirty' = dirty \ {p}
  /\ UNCHANGED <<rows, routes, started, alone>>

\* A database call, or the discovery behind recalculate, throws.  (Bound: one
\* failure, of a mutation that runs alone and is one of the first MaxShared.)
Fail(p) == ~Idle(p) /\ alone /\ started <= MaxShared /\ GiveUp(p)

\* getProviderKeys misses and reads; later it stores what it read.  (Bound: one
\* list is read or kept at a time, since the lists have nothing to do with each
\* other, and none is read after the first MaxShared mutations.)
Fetch(a) ==
  /\ started <= MaxShared
  /\ \A b \in Auths : cache[b] = None /\ fills[b] = None
  /\ fills' = [fills EXCEPT ![a] = [list |-> Resolvable(a), raced |-> FALSE]]
  /\ UNCHANGED <<rows, routes, cache, jobs, dirty, started, alone, unannounced>>

Fill(a) ==
  /\ fills[a] # None
  /\ cache' = [cache EXCEPT ![a] = fills[a]]
  /\ fills' = [fills EXCEPT ![a] = None]
  /\ UNCHANGED <<rows, routes, jobs, dirty, started, alone, unannounced>>

\* An entry outlives its two minutes, or makes room for another agent's.
Expire(a) ==
  /\ cache[a] # None
  /\ cache' = [cache EXCEPT ![a] = None]
  /\ UNCHANGED <<rows, routes, fills, jobs, dirty, started, alone, unannounced>>
-------------------------------------------------------------------------------
Start(p) ==
  /\ MayBegin(p)
  /\ \/ \E a \in Auths :
          \/ \E l \in Labels \cup {NoLabel}, k \in Keys :
               Connect(p, a, l, k)
          \/ \E l, n \in Labels : Rename(p, a, l, n)
          \/ Reorder(p, a)
     \/ \E a \in RemovalAuths :
          Remove(p, a) \/ \E l \in Labels : RemoveKey(p, a, l)
     \/ DeactivateAll(p)
     \/ \E r \in Routes :
          \/ PinTier(p, r) \/ PinSpecificity(p, r) \/ PinHeader(p, r)
          \/ \E t \in Range(Tables) : PinFallback(p, t, r)
     \/ \E t \in Range(Tables) : Unpin(p, t)
     \/ \E t \in {"tier", "specificity"} : ResetAll(p, t)

Proceed(p) ==
  \/ ConnectWrite(p) \/ RenameWrite(p) \/ ReorderWrite(p)
  \/ RemoveFind(p) \/ RemoveWrite(p) \/ RemoveOthers(p)
  \/ RemoveKeyWrite(p) \/ RenumberRead(p) \/ Renumber(p)
  \/ DeactivateWrite(p)
  \/ \E t \in Range(Tables) : Clear(p, t) \/ Read(p, t) \/ Write(p, t)
  \/ RecalculateRead(p) \/ Recalculate(p)
  \/ Invalidate(p)

Next == \/ \E p \in Jobs : Start(p) \/ Proceed(p) \/ Fail(p)
        \/ \E a \in Auths : Fetch(a) \/ Fill(a) \/ Expire(a)

Spec == Init /\ [][Next]_vars
-------------------------------------------------------------------------------
\* A list served from the cache is the list of the keys connected now, unless
\* a mutation has written and not yet invalidated, or failed in between, or the
\* list was read before an invalidation and stored after it.  Every mutation,
\* however two of them interleave, must invalidate after its last write.
StaleForAReason ==
  \A a \in Auths :
    cache[a] # None /\ cache[a].list # Resolvable(a) =>
      \/ cache[a].raced
      \/ unannounced
      \/ dirty # {}

\* When each mutation so far ran alone and to its end, a stored route names an
\* auth type that is connected and a key that exists: no sequence of connects,
\* renames, reorders and removals leaves a route behind that requests would
\* fail on, or send to another key than the one it is pinned to.  (The code makes
\* two exceptions: the pins of specificity categories when everything is
\* deactivated, and a removal by label that names no auth type and takes the last
\* key of one.)
PinsResolve ==
  alone /\ Quiet =>
    \A t \in Range(Tables) : \A r \in routes[t] :
      \E key \in Active(rows) : key.auth = r.auth /\ r.label \in {key.label, NoLabel}
===============================================================================
