--------------------------- MODULE KeyRoutingProofs ---------------------------
(***************************************************************************)
(* StaleForAReason and PinsResolve hold of KeyRouting whatever the auth    *)
(* types, the names, the credentials and the number of mutations.          *)
(***************************************************************************)
EXTENDS KeyRouting, SequenceTheorems, TLAPS

\* Why a list that was read earlier may differ from the keys connected now.
Excused(entry) == entry.raced \/ unannounced \/ dirty # {}
Sound(entry, a) == entry.list = Resolvable(a) \/ Excused(entry)

\* The same is asked of a list that has been read and not yet stored.
Inv == /\ cache = [a \in Auths |-> cache[a]]
       /\ fills = [a \in Auths |-> fills[a]]
       /\ \A a \in Auths : cache[a] # None => Sound(cache[a], a)
       /\ \A a \in Auths : fills[a] # None => Sound(fills[a], a)

\* A step that leaves both kinds of list alone preserves the invariant when it
\* leaves the keys alone and takes no excuse away ...
LEMMA Undisturbed ==
  ASSUME Inv, UNCHANGED <<cache, fills>>,
         \/ rows' = rows /\ (unannounced => unannounced') /\ dirty \subseteq dirty'
         \/ dirty' # {}
         \/ rows' = rows /\ (unannounced \/ dirty # {} => unannounced' \/ dirty' # {})
  PROVE  Inv'
BY DEF Inv, Sound, Excused, Resolvable, Active, OfAuth

\* ... and so does a mutation that gives up.
LEMMA GiveUpPreserves ==
  ASSUME Inv, NEW p \in Jobs, GiveUp(p)
  PROVE  Inv'
<1>1. /\ UNCHANGED <<cache, fills>> /\ rows' = rows
      /\ unannounced \/ dirty # {} => unannounced' \/ dirty' # {}
  BY DEF GiveUp
<1>. QED  BY <1>1, Undisturbed

LEMMA SavePreserves ==
  ASSUME Inv, NEW p \in Jobs, NEW S, NEW rest, Save(p, S, rest)
  PROVE  Inv'
<1>1. CASE GiveUp(p)
  BY <1>1, GiveUpPreserves
<1>2. CASE UNCHANGED <<cache, fills>> /\ Wrote(p)
  <2>1. dirty' # {}
    BY <1>2 DEF Wrote
  <2>. QED  BY <1>2, <2>1, Undisturbed
<1>. QED  BY <1>1, <1>2 DEF Save

\* A mutation that begins has written nothing.
LEMMA StartPreserves ==
  ASSUME Inv, NEW p \in Jobs, Start(p)
  PROVE  Inv'
<1>1. ASSUME NEW job, Begin(p, job)
      PROVE  UNCHANGED <<cache, fills, rows, dirty, unannounced>>
  BY <1>1 DEF Begin
<1>2. UNCHANGED <<cache, fills, rows, dirty, unannounced>>
  BY <1>1 DEF Start, Connect, Rename, Reorder, Remove, RemoveKey, DeactivateAll,
         PinTier, PinSpecificity, PinHeader, PinFallback, PinTo, Unpin, ResetAll
<1>. QED  BY <1>2, Undisturbed

\* Between its first read and its end a mutation either saves, or changes the
\* keys and is dirty from then on, or leaves the keys alone.
LEMMA ProceedPreserves ==
  ASSUME Inv, NEW p \in Jobs, Proceed(p)
  PROVE  Inv'
<1>1. CASE ConnectWrite(p) \/ RenameWrite(p) \/ ReorderWrite(p)
  BY <1>1, SavePreserves, GiveUpPreserves
     DEF ConnectWrite, RenameWrite, ReorderWrite
<1>2. CASE RemoveWrite(p)
  <2>1. CASE UNCHANGED <<rows, routes, cache, fills, dirty, started, alone,
                         unannounced>>
    BY <2>1, Undisturbed
  <2>. QED  BY <1>2, <2>1, SavePreserves, GiveUpPreserves DEF RemoveWrite
<1>3. CASE RemoveFind(p) \/ RemoveOthers(p) \/ RenumberRead(p) \/ RecalculateRead(p)
  <2>1. UNCHANGED <<rows, cache, fills, dirty, unannounced>>
    BY <1>3 DEF RemoveFind, RemoveOthers, RenumberRead, RecalculateRead
  <2>. QED  BY <2>1, Undisturbed
<1>4. CASE RemoveKeyWrite(p) \/ DeactivateWrite(p) \/ Recalculate(p)
  <2>1. UNCHANGED <<cache, fills>> /\ dirty' # {}
    BY <1>4 DEF RemoveKeyWrite, DeactivateWrite, Recalculate, Wrote
  <2>. QED  BY <2>1, Undisturbed
<1>5. CASE Renumber(p)
  <2>1. CASE UNCHANGED <<rows, routes, cache, fills, dirty, started, alone,
                         unannounced>>
    BY <2>1, Undisturbed
  <2>. QED  BY <1>5, <2>1, SavePreserves DEF Renumber
<1>6. ASSUME NEW t \in Range(Tables),
             Clear(p, t) \/ Read(p, t) \/ Write(p, t)
      PROVE  Inv'
  <2>1. /\ UNCHANGED <<cache, fills, rows, unannounced>>
        /\ dirty \subseteq dirty'
    BY <1>6 DEF Clear, Read, Write, Wrote
  <2>. QED  BY <2>1, Undisturbed
<1>7. CASE Invalidate(p)
  <2>1. cache' = [a \in Auths |-> None]
    BY <1>7 DEF Invalidate, Invalidated, Inv
  <2>2. fills' = [a \in Auths |-> IF fills[a] = None THEN None
                                  ELSE [list |-> fills[a].list, raced |-> TRUE]]
    BY <1>7 DEF Invalidate
  <2>3. \A a \in Auths : fills'[a] # None => fills'[a].raced
    BY <2>2
  <2>. QED  BY <2>1, <2>2, <2>3 DEF Inv, Sound, Excused
<1>. QED  BY <1>1, <1>2, <1>3, <1>4, <1>5, <1>6, <1>7 DEF Proceed

\* A list is read as it is, stored as it was read, and dropped.
LEMMA ReaderPreserves ==
  ASSUME Inv, NEW a \in Auths, Fetch(a) \/ Fill(a) \/ Expire(a)
  PROVE  Inv'
<1>1. UNCHANGED <<rows, dirty, unannounced>>
  BY DEF Fetch, Fill, Expire
<1>2. CASE Fetch(a)
  BY <1>1, <1>2 DEF Fetch, Inv, Sound, Excused, Resolvable, Active, OfAuth
<1>3. CASE Fill(a)
  <2>1. \A b \in Auths : Resolvable(b)' = Resolvable(b)
    BY <1>1 DEF Resolvable, Active, OfAuth
  <2>2. cache' = [b \in Auths |-> IF b = a THEN fills[a] ELSE cache[b]]
    <3>1. cache = [b \in Auths |-> cache[b]]
      BY DEF Inv
    <3>2. cache' = [cache EXCEPT ![a] = fills[a]]
      BY <1>3 DEF Fill
    <3>. QED  BY <3>1, <3>2
  <2>3. fills' = [b \in Auths |-> IF b = a THEN None ELSE fills[b]]
    <3>1. fills = [b \in Auths |-> fills[b]]
      BY DEF Inv
    <3>2. fills' = [fills EXCEPT ![a] = None]
      BY <1>3 DEF Fill
    <3>. QED  BY <3>1, <3>2
  <2>4. Sound(fills[a], a)
    BY <1>3 DEF Fill, Inv
  <2>5. ASSUME NEW b \in Auths, cache'[b] # None PROVE Sound(cache[b], b)'
    BY <1>1, <2>1, <2>2, <2>4, <2>5 DEF Inv, Sound, Excused
  <2>6. ASSUME NEW b \in Auths, fills'[b] # None PROVE Sound(fills[b], b)'
    BY <1>1, <2>1, <2>3, <2>6 DEF Inv, Sound, Excused
  <2>7. /\ cache' = [b \in Auths |-> cache'[b]]
        /\ fills' = [b \in Auths |-> fills'[b]]
    BY <2>2, <2>3
  <2>. QED  BY <2>5, <2>6, <2>7 DEF Inv
<1>4. CASE Expire(a)
  BY <1>1, <1>4 DEF Expire, Inv, Sound, Excused, Resolvable, Active, OfAuth
<1>. QED  BY <1>2, <1>3, <1>4

\* A cached list of keys differs from the keys connected now only while a
\* mutation is between its write and its invalidateAgent, after one has failed
\* there, or when the list was read before an invalidation and stored after it.
THEOREM CacheFollowsKeys == Spec => []StaleForAReason
<1>1. Init => Inv
  BY DEF Init, Inv
<1>2. Inv /\ [Next]_vars => Inv'
  <2>. SUFFICES ASSUME Inv, [Next]_vars PROVE Inv'
    OBVIOUS
  <2>1. ASSUME NEW p \in Jobs, Start(p) \/ Proceed(p) \/ Fail(p) PROVE Inv'
    BY <2>1, StartPreserves, ProceedPreserves, GiveUpPreserves DEF Fail
  <2>2. CASE UNCHANGED vars
    <3>1. UNCHANGED <<rows, cache, fills, dirty, unannounced>>
      BY <2>2 DEF vars
    <3>. QED  BY <3>1, Undisturbed
  <2>. QED  BY <2>1, <2>2, ReaderPreserves DEF Next
<1>3. Inv => StaleForAReason
  BY DEF Inv, Sound, Excused, StaleForAReason
<1>. QED  BY <1>1, <1>2, <1>3, PTL DEF Spec
-------------------------------------------------------------------------------
(***************************************************************************)
(* PinsResolve: as long as each mutation has run alone and to its end, the *)
(* one in flight knows which routes its last write has left without a key, *)
(* and still has those tables ahead of it.                                 *)
(***************************************************************************)
TableNames == {"tier", "specificity", "header"}

Steps == TableNames \cup {"find", "write", "others", "renumber", "number",
                          "recalculate", "invalidate"}

Relabelling == {"rename", "removeKey"}
Removing == {"remove", "deactivate"}

\* The tables that a mutation rewrites once it has changed the keys.
Rewritten(op) == CASE op \in Relabelling \cup {"remove"} -> TableNames
                   [] op = "deactivate" -> {"tier", "header"}
                   [] OTHER -> {}

\* A table that is still to be rewritten, or may have to be.
Awaits(todo, t) == \E i \in 1 .. Len(todo) : todo[i] \in {t, "others"}

\* Which mutation takes a step, and which step it takes before.
Belongs(op, todo, i) ==
  /\ todo[i] \in {"find", "others"} => op = "remove"
  /\ todo[i] \in {"renumber", "number"} => op = "removeKey"
  /\ todo[i] = "write" =>
       op \in {"connect", "reorder"} \cup Relabelling \cup Removing
  /\ todo[i] \in TableNames =>
       op \in {"pin", "unpin", "reset"} \cup Relabelling \cup Removing
Follows(todo, i) ==
  /\ todo[i] # "find"
  /\ todo[i] = "write" => todo[i - 1] = "find"
  /\ todo[i] = "number" => todo[i - 1] = "renumber"
  /\ todo[i] = "others" => todo[i - 1] = "write"

\* What is left of a mutation: it ends with invalidateAgent, or is not decided
\* yet, and the tables come after the keys.
Planned(op, todo) ==
  /\ todo \in Seq(Steps) /\ todo # <<>>
  /\ \A i \in 1 .. Len(todo) :
       /\ Belongs(op, todo, i)
       /\ i > 1 => Follows(todo, i)
       /\ todo[i] \in {"invalidate", "others"} <=> i = Len(todo)
       /\ todo[i] = "write" =>
            \A t \in Rewritten(op) :
              \E k \in i + 1 .. Len(todo) : todo[k] \in {t, "others"}

IsRow(r) == r = [id |-> r.id, auth |-> r.auth, label |-> r.label,
                 priority |-> r.priority, active |-> r.active, key |-> r.key]

\* The keys have an id of their own, given out by a mutation that has begun.
Proper(R, n) == /\ \A r \in R : IsRow(r) /\ r.auth \in Auths /\ r.id \in 1 .. n
                /\ \A r, s \in R : r.id = s.id => r = s

\* What stays in order whatever the mutation in flight.
Sane == /\ started \in Nat
        /\ Proper(rows, started)
        /\ routes \in [TableNames -> SUBSET Routes]
        /\ DOMAIN jobs = Jobs

AllShown == \A t \in TableNames : \A r \in routes[t] : Shown(r)

Relabels(j) == j.op \in Relabelling
Matches(j, r) == r.auth = j.auth /\ r.label = j.label

IsJob(j) ==
  /\ j = [op |-> j.op, id |-> j.id, todo |-> j.todo, auth |-> j.auth,
          label |-> j.label, to |-> j.to, key |-> j.key, route |-> j.route,
          snap |-> j.snap, seen |-> j.seen]
  /\ Planned(j.op, j.todo)
  /\ j.to \in Labels \cup {NoLabel}
  /\ j.op \in Relabelling \cup {"connect"} => j.auth \in Auths
  /\ Relabels(j) => j.label \in Labels
  /\ j.op = "removeKey" => j.to = NoLabel
  /\ j.op = "pin" => j.route \in Routes

\* What the mutation has read is still so.
ReadsHold(j) == LET step == Head(j.todo) IN
  /\ j.id \in 1 .. started
  /\ step \in {"write", "find"} => \A r \in rows : r.id # j.id
  /\ step = "write" => j.snap = OfAuth(j.auth)
  /\ step = "number" => j.snap \subseteq rows
  /\ step = "others" => Active(OfAuth(j.auth)) = {}
  /\ j.op = "pin" => Shown(j.route)
  /\ j.seen # None =>
       \/ step \in TableNames /\ j.op \notin BlindUpdates /\ j.seen = routes[step]
       \/ step = "recalculate" /\ j.seen = routes["tier"]

\* The routes that the mutation drops or renames in those tables.
Mends(j, r) == \/ Relabels(j) /\ Matches(j, r)
               \/ j.op = "remove" /\ j.auth \in {r.auth, AnyAuth}
               \/ j.op = "deactivate"

Mending(j, wrote) ==
  /\ ~wrote \/ Head(j.todo) \in {"write", "find"} => AllShown
  /\ \A t \in TableNames : \A r \in routes[t] :
       Shown(r) \/ (Awaits(j.todo, t) /\ Mends(j, r))
  /\ Relabels(j) /\ Head(j.todo) # "write" =>
       \A t \in TableNames : Awaits(j.todo, t) =>
         \A r \in routes[t] : Matches(j, r) => Shown([r EXCEPT !.label = j.to])

JobFine(p) ==
  IsJob(jobs[p]) /\ ReadsHold(jobs[p]) /\ Mending(jobs[p], p \in dirty)

PInv == alone =>
  /\ Sane
  /\ dirty \subseteq {p \in Jobs : ~Idle(p)}
  /\ \A p, q \in Jobs : Idle(p) \/ Idle(q) \/ p = q
  /\ Quiet => AllShown
  /\ \A p \in Jobs : ~Idle(p) => JobFine(p)
-------------------------------------------------------------------------------
\* What a sequence and its rest have in common.
LEMMA RestOfSequence ==
  ASSUME NEW S, NEW s \in Seq(S), s # <<>>
  PROVE  /\ Len(s) \in Nat /\ Len(s) >= 1 /\ Head(s) = s[1] /\ Head(s) \in S
         /\ Tail(s) \in Seq(S) /\ Len(Tail(s)) = Len(s) - 1
         /\ \A i \in 1 .. Len(s) - 1 : Tail(s)[i] = s[i + 1]
         /\ Len(s) > 1 => Tail(s) # <<>> /\ Head(Tail(s)) = s[2]
<1>1. Len(s) \in Nat /\ Len(s) >= 1
  BY EmptySeq, LenProperties
<1>2. Head(s) = s[1]
  OBVIOUS
<1>3. /\ Head(s) \in S /\ Tail(s) \in Seq(S) /\ Len(Tail(s)) = Len(s) - 1
      /\ \A i \in 1 .. Len(s) - 1 : Tail(s)[i] = s[i + 1]
  BY HeadTailProperties
<1>4. ASSUME Len(s) > 1 PROVE Tail(s) # <<>> /\ Head(Tail(s)) = s[2]
  <2>1. Tail(s) # <<>>
    BY <1>1, <1>3, <1>4, EmptySeq
  <2>2. Head(Tail(s)) = Tail(s)[1]
    BY <1>3, <2>1
  <2>3. 1 \in 1 .. Len(s) - 1 /\ 1 + 1 = 2
    BY <1>1, <1>4
  <2>. QED  BY <1>3, <2>1, <2>2, <2>3
<1>. QED  BY <1>1, <1>2, <1>3, <1>4

\* A step of a plan, and the plan that is left after it.
LEMMA PlanHead ==
  ASSUME NEW op, NEW todo, Planned(op, todo)
  PROVE  /\ todo # <<>> /\ Head(todo) \in Steps /\ Belongs(op, todo, 1)
         /\ Head(todo) = todo[1] /\ Len(todo) \in Nat /\ Len(todo) >= 1
         /\ Len(Tail(todo)) = Len(todo) - 1
         /\ \A i \in 1 .. Len(todo) - 1 : Tail(todo)[i] = todo[i + 1]
BY RestOfSequence DEF Planned

LEMMA PlanTail ==
  ASSUME NEW op, NEW todo, Planned(op, todo), Head(todo) \notin {"others", "invalidate"}
  PROVE  Planned(op, Tail(todo)) /\ Follows(todo, 2) /\ Head(Tail(todo)) = todo[2]
<1>. DEFINE n == Len(todo)  rest == Tail(todo)
<1>1. /\ n \in Nat /\ n > 1 /\ todo[1] = Head(todo)
      /\ rest \in Seq(Steps) /\ rest # <<>> /\ Head(rest) = todo[2]
      /\ Len(rest) = n - 1
      /\ \A i \in 1 .. n - 1 : rest[i] = todo[i + 1]
  <2>1. todo \in Seq(Steps) /\ todo # <<>> /\ (1 = n => todo[1] \in {"invalidate", "others"})
    BY PlanHead DEF Planned
  <2>2. n \in Nat /\ n >= 1 /\ todo[1] = Head(todo)
    BY PlanHead
  <2>3. n > 1
    BY <2>1, <2>2
  <2>. QED  BY <2>1, <2>2, <2>3, RestOfSequence
<1>2. \A i \in 1 .. n :
        /\ Belongs(op, todo, i)
        /\ i > 1 => Follows(todo, i)
        /\ todo[i] \in {"invalidate", "others"} <=> i = n
        /\ todo[i] = "write" =>
             \A t \in Rewritten(op) : \E k \in i + 1 .. n : todo[k] \in {t, "others"}
  BY DEF Planned
<1>. HIDE DEF n, rest
<1>3. ASSUME NEW i \in 1 .. n - 1
      PROVE  /\ Belongs(op, rest, i)
             /\ i > 1 => Follows(rest, i)
             /\ rest[i] \in {"invalidate", "others"} <=> i = n - 1
  <2>1. i + 1 \in 1 .. n /\ rest[i] = todo[i + 1] /\ i + 1 > 1 /\ i + 1 - 1 = i
    BY <1>1
  <2>2. i > 1 => rest[i - 1] = todo[i]
    BY <1>1
  <2>3. Belongs(op, rest, i)
    BY <1>2, <2>1 DEF Belongs
  <2>4. i > 1 => Follows(rest, i)
    BY <1>2, <2>1, <2>2 DEF Follows
  <2>5. rest[i] \in {"invalidate", "others"} <=> i = n - 1
    BY <1>1, <1>2, <2>1
  <2>. QED  BY <2>3, <2>4, <2>5
<1>4. ASSUME NEW i \in 1 .. n - 1, rest[i] = "write", NEW t \in Rewritten(op)
      PROVE  \E k \in i + 1 .. n - 1 : rest[k] \in {t, "others"}
  <2>0. i + 1 \in 1 .. n /\ rest[i] = todo[i + 1] /\ (i + 1) + 1 = i + 2
    BY <1>1
  <2>1. PICK k \in i + 2 .. n : todo[k] \in {t, "others"}
    BY <1>2, <1>4, <2>0
  <2>2. /\ k - 1 \in 1 .. n - 1 /\ k - 1 \in i + 1 .. n - 1
        /\ (k - 1) + 1 = k
    BY <1>1, <2>1
  <2>3. rest[k - 1] = todo[k]
    BY <1>1, <2>2
  <2>. QED  BY <2>1, <2>2, <2>3
<1>5. Follows(todo, 2)
  BY <1>1, <1>2
<1>6. Planned(op, rest)
  BY <1>1, <1>3, <1>4 DEF Planned
<1>. QED  BY <1>1, <1>5, <1>6 DEF rest

LEMMA PlanNext ==
  ASSUME NEW op, NEW todo, Planned(op, todo), Head(todo) \notin {"others", "invalidate"}
  PROVE  LET next == Head(Tail(todo)) IN
           /\ next # "find"
           /\ next = "write" => Head(todo) = "find"
           /\ next = "number" => Head(todo) = "renumber"
           /\ next = "others" => Head(todo) = "write"
<1>. DEFINE next == Head(Tail(todo))
<1>1. Follows(todo, 2) /\ next = todo[2]
  BY PlanTail
<1>2. Head(todo) = todo[1]
  BY PlanHead
<1>. DEFINE this == Head(todo)
<1>. HIDE DEF next, this
<1>3. /\ todo[2] # "find"
      /\ todo[2] = "write" => todo[1] = "find"
      /\ todo[2] = "number" => todo[1] = "renumber"
      /\ todo[2] = "others" => todo[1] = "write"
  BY <1>1 DEF Follows
<1>4. this = todo[1]
  BY <1>2 DEF this
<1>5. /\ next # "find"
      /\ next = "write" => this = "find"
      /\ next = "number" => this = "renumber"
      /\ next = "others" => this = "write"
  BY <1>1, <1>3, <1>4
<1>. QED  BY <1>5 DEF next, this

LEMMA PlanAwaits ==
  ASSUME NEW op, NEW todo, Planned(op, todo), NEW t \in TableNames
  PROVE  /\ Head(todo) = "invalidate" => ~Awaits(todo, t)
         /\ Head(todo) \notin {t, "others", "invalidate"} /\ Awaits(todo, t)
              => Awaits(Tail(todo), t)
         /\ Head(todo) \notin {"others", "invalidate"} /\ Awaits(Tail(todo), t)
              => Awaits(todo, t)
         /\ Head(todo) = "write" /\ t \in Rewritten(op) => Awaits(Tail(todo), t)
         /\ Head(todo) = "others" => Awaits(todo, t)
<1>. DEFINE n == Len(todo)  rest == Tail(todo)
<1>1. /\ n \in Nat /\ n >= 1 /\ Len(rest) = n - 1 /\ Head(todo) = todo[1]
      /\ \A i \in 1 .. n - 1 : rest[i] = todo[i + 1]
  BY PlanHead
<1>2. /\ \A i \in 1 .. n : todo[i] \in {"invalidate", "others"} <=> i = n
      /\ todo[1] = "write" /\ t \in Rewritten(op) =>
           \E k \in 2 .. n : todo[k] \in {t, "others"}
  <2>1. 1 \in 1 .. n /\ 1 + 1 = 2
    BY <1>1
  <2>2. \A i \in 1 .. n : todo[i] \in {"invalidate", "others"} <=> i = n
    BY DEF Planned
  <2>3. todo[1] = "write" /\ t \in Rewritten(op) =>
          \E k \in 1 + 1 .. n : todo[k] \in {t, "others"}
    BY <2>1 DEF Planned
  <2>. QED  BY <2>1, <2>2, <2>3
<1>3. (\E i \in 1 .. n : todo[i] \in {t, "others"}) <=> Awaits(todo, t)
  BY DEF Awaits
<1>4. (\E i \in 1 .. n - 1 : rest[i] \in {t, "others"}) <=> Awaits(rest, t)
  BY <1>1 DEF Awaits
<1>. HIDE DEF n, rest
<1>5. t # "invalidate"
  BY DEF TableNames
<1>6. ASSUME NEW i \in 2 .. n PROVE i - 1 \in 1 .. n - 1 /\ rest[i - 1] = todo[i]
  <2>1. i - 1 \in 1 .. n - 1 /\ (i - 1) + 1 = i
    BY <1>1
  <2>. QED  BY <1>1, <2>1
<1>7. ASSUME NEW k \in 2 .. n, todo[k] \in {t, "others"} PROVE Awaits(rest, t)
  BY <1>4, <1>6, <1>7
<1>8. /\ Head(todo) = "write" /\ t \in Rewritten(op) => Awaits(rest, t)
      /\ Head(todo) \notin {t, "others", "invalidate"} /\ Awaits(todo, t) => Awaits(rest, t)
  <2>1. ASSUME Head(todo) \notin {t, "others", "invalidate"}, Awaits(todo, t)
        PROVE  Awaits(rest, t)
    <3>1. PICK k \in 1 .. n : todo[k] \in {t, "others"}
      BY <1>3, <2>1
    <3>2. k \in 2 .. n
      BY <1>1, <2>1, <3>1
    <3>. QED  BY <1>7, <3>1, <3>2
  <2>. QED  BY <1>1, <1>2, <1>7, <2>1
<1>9. ASSUME Awaits(rest, t) PROVE Awaits(todo, t)
  <2>1. PICK k \in 1 .. n - 1 : rest[k] \in {t, "others"}
    BY <1>4, <1>9
  <2>2. k + 1 \in 1 .. n /\ todo[k + 1] = rest[k]
    BY <1>1
  <2>. QED  BY <1>3, <2>1, <2>2
<1>10. Head(todo) = "invalidate" => ~Awaits(todo, t)
  BY <1>1, <1>2, <1>3, <1>5
<1>11. Head(todo) = "others" => Awaits(todo, t)
  BY <1>1, <1>3
<1>. QED  BY <1>8, <1>9, <1>10, <1>11 DEF rest

\* The plans a mutation begins with, or is left with once a removal has counted
\* the keys that are still connected.
LEMMA ThenSequence ==
  ASSUME NEW s \in Seq(Steps), NEW t \in Seq(Steps), NEW both \in Seq(Steps),
         Len(both) = Len(s) + Len(t),
         \A i \in 1 .. Len(s) : both[i] = s[i],
         \A i \in 1 .. Len(t) : both[Len(s) + i] = t[i]
  PROVE  s \o t = both
<1>. DEFINE m == Len(s)  n == Len(t)  st == s \o t
<1>1. /\ m \in Nat /\ n \in Nat /\ st \in Seq(Steps) /\ Len(st) = m + n
      /\ \A i \in 1 .. m + n : st[i] = IF i <= m THEN s[i] ELSE t[i - m]
  BY LenProperties, ConcatProperties
<1>2. \A i \in 1 .. m + n : i <= m => i \in 1 .. m
  BY <1>1
<1>3. \A i \in 1 .. m + n : i > m => i - m \in 1 .. n /\ m + (i - m) = i
  BY <1>1
<1>. HIDE DEF m, n, st
<1>4. ASSUME NEW i \in 1 .. m + n PROVE st[i] = both[i]
  <2>1. CASE i <= m
    BY <1>1, <1>2, <2>1 DEF m
  <2>2. CASE i > m
    BY <1>1, <1>3, <2>2 DEF m, n
  <2>. QED  BY <1>1, <2>1, <2>2
<1>5. Len(both) = Len(st)
  BY <1>1 DEF m, n
<1>6. st = both
  BY <1>1, <1>4, <1>5, SeqEqual
<1>. QED  BY <1>6 DEF st

LEMMA TablesInPlans ==
  /\ <<"write">> \o Tables \o <<"invalidate">> =
       <<"write", "tier", "specificity", "header", "invalidate">>
  /\ <<"write">> \o Tables \o <<"renumber", "number", "invalidate">> =
       <<"write", "tier", "specificity", "header", "renumber", "number", "invalidate">>
  /\ Tables \o <<"recalculate", "invalidate">> =
       <<"tier", "specificity", "header", "recalculate", "invalidate">>
<1>1. <<"write">> \o Tables =
       <<"write", "tier", "specificity", "header">>
  <2>. DEFINE s == <<"write">>
              t == Tables
              both == <<"write", "tier", "specificity", "header">>
  <2>1. s \in Seq(Steps) /\ t \in Seq(Steps) /\ both \in Seq(Steps)
    BY DEF Steps, TableNames, Tables
  <2>2. Len(both) = Len(s) + Len(t)
    BY DEF Tables
  <2>3. /\ \A i \in 1 .. Len(s) : both[i] = s[i]
        /\ \A i \in 1 .. Len(t) : both[Len(s) + i] = t[i]
    BY DEF Tables
  <2>. HIDE DEF s, t, both
  <2>4. s \o t = both
    BY <2>1, <2>2, <2>3, ThenSequence
  <2>. QED  BY <2>4 DEF s, t, both
<1>2. <<"write", "tier", "specificity", "header">> \o <<"invalidate">> =
       <<"write", "tier", "specificity", "header", "invalidate">>
  <2>. DEFINE s == <<"write", "tier", "specificity", "header">>
              t == <<"invalidate">>
              both == <<"write", "tier", "specificity", "header", "invalidate">>
  <2>1. s \in Seq(Steps) /\ t \in Seq(Steps) /\ both \in Seq(Steps)
    BY DEF Steps, TableNames
  <2>2. Len(both) = Len(s) + Len(t)
    BY DEF Tables
  <2>3. /\ \A i \in 1 .. Len(s) : both[i] = s[i]
        /\ \A i \in 1 .. Len(t) : both[Len(s) + i] = t[i]
    BY DEF Tables
  <2>. HIDE DEF s, t, both
  <2>4. s \o t = both
    BY <2>1, <2>2, <2>3, ThenSequence
  <2>. QED  BY <2>4 DEF s, t, both
<1>3. <<"write", "tier", "specificity", "header">> \o <<"renumber", "number", "invalidate">> =
       <<"write", "tier", "specificity", "header", "renumber", "number", "invalidate">>
  <2>. DEFINE s == <<"write", "tier", "specificity", "header">>
              t == <<"renumber", "number", "invalidate">>
              both == <<"write", "tier", "specificity", "header", "renumber", "number", "invalidate">>
  <2>1. s \in Seq(Steps) /\ t \in Seq(Steps) /\ both \in Seq(Steps)
    BY DEF Steps, TableNames
  <2>2. Len(both) = Len(s) + Len(t)
    BY DEF Tables
  <2>3. /\ \A i \in 1 .. Len(s) : both[i] = s[i]
        /\ \A i \in 1 .. Len(t) : both[Len(s) + i] = t[i]
    BY DEF Tables
  <2>. HIDE DEF s, t, both
  <2>4. s \o t = both
    BY <2>1, <2>2, <2>3, ThenSequence
  <2>. QED  BY <2>4 DEF s, t, both
<1>4. Tables \o <<"recalculate", "invalidate">> =
       <<"tier", "specificity", "header", "recalculate", "invalidate">>
  <2>. DEFINE s == Tables
              t == <<"recalculate", "invalidate">>
              both == <<"tier", "specificity", "header", "recalculate", "invalidate">>
  <2>1. s \in Seq(Steps) /\ t \in Seq(Steps) /\ both \in Seq(Steps)
    BY DEF Steps, TableNames, Tables
  <2>2. Len(both) = Len(s) + Len(t)
    BY DEF Tables
  <2>3. /\ \A i \in 1 .. Len(s) : both[i] = s[i]
        /\ \A i \in 1 .. Len(t) : both[Len(s) + i] = t[i]
    BY DEF Tables
  <2>. HIDE DEF s, t, both
  <2>4. s \o t = both
    BY <2>1, <2>2, <2>3, ThenSequence
  <2>. QED  BY <2>4 DEF s, t, both
<1>. QED  BY <1>1, <1>2, <1>3, <1>4

LEMMA ShortPlans ==
  /\ Planned("connect", <<"write", "recalculate", "invalidate">>)
  /\ Planned("reorder", <<"write", "invalidate">>)
  /\ Planned("remove", <<"write", "others">>)
  /\ Planned("remove", <<"find", "write", "others">>)
  /\ Planned("remove", <<"invalidate">>)
<1>1. Planned("connect", <<"write", "recalculate", "invalidate">>)
  BY DEF Planned, Steps, TableNames, Belongs, Follows, Rewritten, Relabelling, Removing
<1>2. Planned("reorder", <<"write", "invalidate">>)
  BY DEF Planned, Steps, TableNames, Belongs, Follows, Rewritten, Relabelling, Removing
<1>3. Planned("remove", <<"write", "others">>)
  BY DEF Planned, Steps, TableNames, Belongs, Follows, Rewritten, Relabelling, Removing
<1>4. Planned("remove", <<"find", "write", "others">>)
  BY DEF Planned, Steps, TableNames, Belongs, Follows, Rewritten, Relabelling, Removing
<1>5. Planned("remove", <<"invalidate">>)
  BY DEF Planned, Steps, TableNames, Belongs, Follows, Rewritten, Relabelling, Removing
<1>. QED  BY <1>1, <1>2, <1>3, <1>4, <1>5

LEMMA RouteEditPlans ==
  ASSUME NEW op \in {"pin", "unpin", "reset"}, NEW t \in TableNames
  PROVE  Planned(op, <<t, "invalidate">>)
BY DEF Planned, Steps, TableNames, Belongs, Follows, Rewritten, Relabelling, Removing

LEMMA LongPlans ==
  /\ Planned("rename", <<"write", "tier", "specificity", "header", "invalidate">>)
  /\ Planned("removeKey", <<"write", "tier", "specificity", "header", "renumber",
                            "number", "invalidate">>)
  /\ Planned("remove", <<"tier", "specificity", "header", "recalculate", "invalidate">>)
  /\ Planned("deactivate", <<"write", "tier", "header", "recalculate", "invalidate">>)
<1>1. Planned("rename", <<"write", "tier", "specificity", "header", "invalidate">>)
  BY DEF Planned, Steps, TableNames, Belongs, Follows, Rewritten, Relabelling, Removing
<1>2. Planned("removeKey", <<"write", "tier", "specificity", "header", "renumber",
                            "number", "invalidate">>)
  BY DEF Planned, Steps, TableNames, Belongs, Follows, Rewritten, Relabelling, Removing
<1>3. Planned("remove", <<"tier", "specificity", "header", "recalculate", "invalidate">>)
  BY DEF Planned, Steps, TableNames, Belongs, Follows, Rewritten, Relabelling, Removing
<1>4. Planned("deactivate", <<"write", "tier", "header", "recalculate", "invalidate">>)
  BY DEF Planned, Steps, TableNames, Belongs, Follows, Rewritten, Relabelling, Removing
<1>. QED  BY <1>1, <1>2, <1>3, <1>4
-------------------------------------------------------------------------------
LEMMA TableRange == Range(Tables) = TableNames
BY DEF Range, Tables, TableNames

\* What is known of the one mutation in flight.
LEMMA Busy ==
  ASSUME PInv, alone, NEW p \in Jobs, ~Idle(p)
  PROVE  /\ Sane /\ JobFine(p) /\ Planned(jobs[p].op, jobs[p].todo)
         /\ \A q \in Jobs : q # p => Idle(q)
BY DEF PInv, JobFine, IsJob

\* It goes on, and the others stay away.
LEMMA OneGoesOn ==
  ASSUME PInv, alone, NEW p \in Jobs, ~Idle(p),
         DOMAIN jobs' = Jobs, \A q \in Jobs : q # p => jobs'[q] = jobs[q],
         dirty' \subseteq dirty \cup {p}, Sane', ~Idle(p)', JobFine(p)'
  PROVE  PInv'
<1>1. \A q \in Jobs : q # p => Idle(q) /\ Idle(q)'
  BY Busy DEF Idle
<1>2. dirty' \subseteq {q \in Jobs : ~Idle(q)'}
  BY <1>1 DEF PInv
<1>3. ~Quiet'
  BY DEF Quiet
<1>. QED  BY <1>1, <1>2, <1>3 DEF PInv

\* It ends, well or badly.
LEMMA OneEnds ==
  ASSUME PInv, alone, NEW p \in Jobs, ~Idle(p),
         jobs' = [jobs EXCEPT ![p] = NoJob], dirty' = dirty \ {p},
         UNCHANGED <<rows, routes, started>>, AllShown
  PROVE  PInv'
<1>1. \A q \in Jobs : Idle(q)'
  BY Busy DEF Idle, NoJob, Sane
<1>2. dirty' = {}
  BY Busy DEF PInv
<1>3. Sane' /\ AllShown'
  BY Busy DEF Sane, AllShown, Shown, Active
<1>. QED  BY <1>1, <1>2, <1>3 DEF PInv

LEMMA GiveUpKeepsPins ==
  ASSUME PInv, NEW p \in Jobs, ~Idle(p), GiveUp(p)
  PROVE  PInv'
<1>. SUFFICES ASSUME alone' PROVE PInv'
  BY DEF PInv
<1>1. alone /\ p \notin dirty
  BY DEF GiveUp
<1>2. AllShown
  BY <1>1, Busy DEF JobFine, Mending
<1>. QED  BY <1>1, <1>2, OneEnds DEF GiveUp

\* A step of its list is done.
SameMutation(j, k) ==
  /\ k.op = j.op /\ k.id = j.id /\ k.auth = j.auth /\ k.label = j.label
  /\ k.to = j.to /\ k.route = j.route

LEMMA WentOn ==
  ASSUME NEW p \in Jobs, DOMAIN jobs = Jobs, IsJob(jobs[p]),
         Head(jobs[p].todo) \notin {"others", "invalidate"}, Went(p, Rest(p))
  PROVE  /\ DOMAIN jobs' = Jobs
         /\ \A q \in Jobs : q # p => jobs'[q] = jobs[q]
         /\ SameMutation(jobs[p], jobs'[p]) /\ IsJob(jobs'[p]) /\ ~Idle(p)'
         /\ jobs'[p].todo = Tail(jobs[p].todo)
         /\ jobs'[p].snap = jobs[p].snap /\ jobs'[p].seen = None
<1>. DEFINE j == jobs[p]  k == jobs'[p]
<1>1. /\ DOMAIN jobs' = Jobs
      /\ \A q \in Jobs : q # p => jobs'[q] = jobs[q]
      /\ k = [j EXCEPT !.todo = Rest(p), !.seen = None]
  BY DEF Went
<1>2. /\ SameMutation(j, k) /\ k.snap = j.snap /\ k.seen = None /\ k.todo = Tail(j.todo)
      /\ k = [op |-> k.op, id |-> k.id, todo |-> k.todo, auth |-> k.auth,
              label |-> k.label, to |-> k.to, key |-> k.key, route |-> k.route,
              snap |-> k.snap, seen |-> k.seen]
  BY <1>1 DEF IsJob, SameMutation, Rest
<1>3. Planned(k.op, k.todo) /\ k.todo # <<>>
  <2>1. Planned(j.op, Tail(j.todo))
    BY PlanTail DEF IsJob
  <2>. QED  BY <1>2, <2>1, PlanHead DEF SameMutation
<1>4. IsJob(k)
  BY <1>2, <1>3 DEF IsJob, SameMutation, Relabels
<1>. QED  BY <1>1, <1>2, <1>3, <1>4 DEF Idle

\* A step that only reads, and leaves as much to be mended as before.
LEMMA LooksOnly ==
  ASSUME PInv, alone, NEW p \in Jobs, ~Idle(p),
         UNCHANGED <<rows, routes, dirty, started>>,
         DOMAIN jobs' = Jobs, \A q \in Jobs : q # p => jobs'[q] = jobs[q],
         ~Idle(p)', IsJob(jobs'[p]), ReadsHold(jobs[p])',
         Head(jobs'[p].todo) \in {"write", "find"}
           => Head(jobs[p].todo) \in {"write", "find"},
         \A t \in TableNames : \A r \in routes[t] :
           Awaits(jobs[p].todo, t) /\ Mends(jobs[p], r)
             => Awaits(jobs'[p].todo, t) /\ Mends(jobs'[p], r),
         Relabels(jobs'[p]) =>
           /\ SameMutation(jobs[p], jobs'[p])
           /\ Head(jobs'[p].todo) # "write" => Head(jobs[p].todo) # "write"
           /\ \A t \in TableNames : Awaits(jobs'[p].todo, t) => Awaits(jobs[p].todo, t)
  PROVE  PInv'
<1>. DEFINE j == jobs[p]  k == jobs'[p]
<1>1. Sane /\ IsJob(j) /\ Mending(j, p \in dirty)
  BY Busy DEF JobFine
<1>2. /\ routes' = routes /\ (p \in dirty') = (p \in dirty)
      /\ AllShown' = AllShown /\ \A r : Shown(r)' = Shown(r)
  BY DEF AllShown, Shown, Active
<1>3. ~(p \in dirty) \/ Head(k.todo) \in {"write", "find"} => AllShown
  BY <1>1 DEF Mending
<1>4. \A t \in TableNames : \A r \in routes[t] :
        Shown(r) \/ (Awaits(k.todo, t) /\ Mends(k, r))
  BY <1>1 DEF Mending
<1>5. Relabels(k) /\ Head(k.todo) # "write" =>
        \A t \in TableNames : Awaits(k.todo, t) =>
          \A r \in routes[t] : Matches(k, r) => Shown([r EXCEPT !.label = k.to])
  BY <1>1 DEF Mending, SameMutation, Relabels, Matches
<1>6. Mending(jobs[p], p \in dirty)'
  BY <1>2, <1>3, <1>4, <1>5 DEF Mending
<1>7. Sane'
  BY <1>1 DEF Sane
<1>. QED  BY <1>6, <1>7, OneGoesOn DEF JobFine

\* A step that changes the keys: no route is left without one but those that
\* the tables still ahead will mend.
LEMMA KeysChanged ==
  ASSUME PInv, alone, NEW p \in Jobs, ~Idle(p),
         Head(jobs[p].todo) \in {"write", "number"}, jobs[p].op # "pin",
         Went(p, Rest(p)), Wrote(p), UNCHANGED <<routes, started>>,
         Proper(rows, started)',
         jobs[p].op = "remove" => Active(OfAuth(jobs[p].auth))' = {},
         \A t \in TableNames : \A r \in routes[t] :
           Shown(r)' \/ (Awaits(Tail(jobs[p].todo), t) /\ Mends(jobs[p], r)),
         Relabels(jobs[p]) =>
           \A t \in TableNames : Awaits(Tail(jobs[p].todo), t) =>
             \A r \in routes[t] :
               Matches(jobs[p], r) => Shown([r EXCEPT !.label = jobs[p].to])'
  PROVE  PInv'
<1>. DEFINE j == jobs[p]  k == jobs'[p]
<1>1. /\ Sane /\ IsJob(j) /\ Planned(j.op, j.todo) /\ j.id \in 1 .. started
      /\ DOMAIN jobs = Jobs
  BY Busy DEF JobFine, ReadsHold, Sane
<1>2. /\ DOMAIN jobs' = Jobs /\ \A q \in Jobs : q # p => jobs'[q] = jobs[q]
      /\ SameMutation(j, k) /\ IsJob(k) /\ ~Idle(p)'
      /\ k.todo = Tail(j.todo) /\ k.seen = None
  BY <1>1, WentOn
<1>3. /\ Head(k.todo) \notin {"write", "find", "number"}
      /\ Head(k.todo) = "others" => j.op = "remove"
  <2>0. Head(j.todo) \notin {"others", "invalidate"}
    OBVIOUS
  <2>3. Planned(j.op, Tail(j.todo))
    BY <1>1, <2>0, PlanTail
  <2>1. Planned(j.op, k.todo)
    BY <1>2, <2>3
  <2>2. Belongs(j.op, k.todo, 1) /\ Head(k.todo) = k.todo[1]
    BY <2>1, PlanHead
  <2>4. Head(Tail(j.todo)) \notin {"write", "find", "number"}
    BY <1>1, <2>0, PlanNext
  <2>. QED  BY <1>2, <2>2, <2>4 DEF Belongs
<1>4. ReadsHold(jobs[p])'
  BY <1>1, <1>2, <1>3 DEF ReadsHold, SameMutation
<1>5. p \in dirty' /\ dirty' \subseteq dirty \cup {p}
  BY DEF Wrote
<1>6. Mending(jobs[p], p \in dirty)'
  <2>1. \A t \in TableNames : \A r \in routes'[t] :
          Shown(r)' \/ (Awaits(k.todo, t) /\ Mends(k, r))
    BY <1>2 DEF SameMutation, Mends, Relabels, Matches
  <2>2. Relabels(k) => \A t \in TableNames : Awaits(k.todo, t) =>
          \A r \in routes'[t] : Matches(k, r) => Shown([r EXCEPT !.label = jobs[p].to])'
    BY <1>2 DEF SameMutation, Relabels, Matches
  <2>. QED  BY <1>3, <1>5, <2>1, <2>2 DEF Mending
<1>7. Sane'
  BY <1>1, <1>2 DEF Sane
<1>. QED  BY <1>2, <1>4, <1>5, <1>6, <1>7, OneGoesOn DEF JobFine

\* An edit of a key changes the field it names.
LEMMA ActiveEdits ==
  ASSUME NEW r, IsRow(r), NEW y
  PROVE  [r EXCEPT !.active = y] =
           [id |-> r.id, auth |-> r.auth, label |-> r.label,
            priority |-> r.priority, active |-> y, key |-> r.key]
BY DEF IsRow

LEMMA KeyEdits ==
  ASSUME NEW r, IsRow(r), NEW x
  PROVE  LET s == [r EXCEPT !.key = x] IN
           /\ IsRow(s) /\ s.id = r.id /\ s.auth = r.auth /\ s.label = r.label
           /\ s.priority = r.priority /\ s.key = x
<1>. DEFINE s == [r EXCEPT !.key = x]
<1>1. s = [id |-> r.id, auth |-> r.auth, label |-> r.label,
           priority |-> r.priority, active |-> r.active, key |-> x]
  BY DEF IsRow
<1>. HIDE DEF s
<1>2. /\ IsRow(s) /\ s.id = r.id /\ s.auth = r.auth /\ s.label = r.label
      /\ s.priority = r.priority /\ s.key = x
  BY <1>1 DEF IsRow
<1>. QED  BY <1>2 DEF s

Replaced(r, x) == [r EXCEPT !.key = x, !.active = TRUE]
Renamed(r, x) == [r EXCEPT !.label = x]
Renumbered(r, x) == [r EXCEPT !.priority = x]
Disconnected(r) == [r EXCEPT !.active = FALSE]

LEMMA ReplacedRow ==
  ASSUME NEW r, IsRow(r), NEW x
  PROVE  LET s == Replaced(r, x) IN
           /\ IsRow(s) /\ s.id = r.id /\ s.auth = r.auth /\ s.label = r.label /\ s.active
<1>. DEFINE t == [r EXCEPT !.key = x]  s == [t EXCEPT !.active = TRUE]
<1>1. IsRow(t) /\ t.id = r.id /\ t.auth = r.auth /\ t.label = r.label
  BY KeyEdits
<1>. HIDE DEF t
<1>2. s = [id |-> t.id, auth |-> t.auth, label |-> t.label,
           priority |-> t.priority, active |-> TRUE, key |-> t.key]
  BY <1>1, ActiveEdits
<1>. HIDE DEF s
<1>3. IsRow(s) /\ s.id = r.id /\ s.auth = r.auth /\ s.label = r.label /\ s.active
  BY <1>1, <1>2 DEF IsRow
<1>4. s = Replaced(r, x)
  BY DEF s, t, Replaced
<1>. QED  BY <1>3, <1>4

LEMMA RenamedRow ==
  ASSUME NEW r, IsRow(r), NEW x
  PROVE  LET s == Renamed(r, x) IN
           /\ IsRow(s) /\ s.id = r.id /\ s.auth = r.auth /\ s.label = x /\ s.active = r.active
<1>. DEFINE s == Renamed(r, x)
<1>1. s = [id |-> r.id, auth |-> r.auth, label |-> x,
           priority |-> r.priority, active |-> r.active, key |-> r.key]
  BY DEF IsRow, Renamed
<1>. HIDE DEF s
<1>2. IsRow(s) /\ s.id = r.id /\ s.auth = r.auth /\ s.label = x /\ s.active = r.active
  BY <1>1 DEF IsRow
<1>. QED  BY <1>2 DEF s

LEMMA RenumberedRow ==
  ASSUME NEW r, IsRow(r), NEW x
  PROVE  LET s == Renumbered(r, x) IN
           /\ IsRow(s) /\ s.id = r.id /\ s.auth = r.auth /\ s.label = r.label /\ s.active = r.active
<1>. DEFINE s == Renumbered(r, x)
<1>1. s = [id |-> r.id, auth |-> r.auth, label |-> r.label,
           priority |-> x, active |-> r.active, key |-> r.key]
  BY DEF IsRow, Renumbered
<1>. HIDE DEF s
<1>2. IsRow(s) /\ s.id = r.id /\ s.auth = r.auth /\ s.label = r.label /\ s.active = r.active
  BY <1>1 DEF IsRow
<1>. QED  BY <1>2 DEF s

LEMMA DisconnectedRow ==
  ASSUME NEW r, IsRow(r)
  PROVE  LET s == Disconnected(r) IN
           /\ IsRow(s) /\ s.id = r.id /\ s.auth = r.auth /\ s.label = r.label /\ ~s.active
<1>. DEFINE s == Disconnected(r)
<1>1. s = [id |-> r.id, auth |-> r.auth, label |-> r.label,
           priority |-> r.priority, active |-> FALSE, key |-> r.key]
  BY ActiveEdits DEF Disconnected
<1>. HIDE DEF s
<1>2. IsRow(s) /\ s.id = r.id /\ s.auth = r.auth /\ s.label = r.label /\ ~s.active
  BY <1>1 DEF IsRow
<1>. QED  BY <1>2 DEF s

\* What a save of edited keys, or of one new key, leaves.
LEMMA SavedProper ==
  ASSUME Proper(rows, started), NEW S,
         \A s \in S : IsRow(s) /\ s.auth \in Auths /\ s.id \in 1 .. started,
         \A s, t \in S : s.id = t.id => s = t
  PROVE  Proper(Saved(S), started)
BY DEF Proper, Saved

LEMMA SavedShows ==
  ASSUME NEW S, rows' = Saved(S), NEW r, Shown(r),
         \A key \in Active(rows), s \in S :
           key.id = s.id => s.active /\ s.auth = key.auth /\ s.label = key.label
  PROVE  Shown(r)'
<1>1. PICK key \in Active(rows) : key.auth = r.auth /\ r.label \in {key.label, NoLabel}
  BY DEF Shown
<1>2. CASE \A s \in S : s.id # key.id
  BY <1>1, <1>2 DEF Shown, Active, Saved
<1>3. ASSUME NEW s \in S, s.id = key.id PROVE Shown(r)'
  <2>1. s \in Active(rows)' /\ s.auth = r.auth /\ r.label \in {s.label, NoLabel}
    BY <1>1, <1>3 DEF Active, Saved
  <2>. QED  BY <2>1 DEF Shown
<1>. QED  BY <1>2, <1>3

\* A key of the mutation's snapshot is a key, unless it has yet to be read.
LEMMA BeforeWrite ==
  ASSUME PInv, alone, NEW p \in Jobs, At(p, "write")
  PROVE  /\ ~Idle(p) /\ Head(jobs[p].todo) = "write" /\ AllShown
         /\ Proper(rows, started) /\ started \in Nat
         /\ jobs[p].snap = OfAuth(jobs[p].auth)
         /\ \A r \in jobs[p].snap : r \in rows /\ IsRow(r)
         /\ jobs[p].id \in 1 .. started /\ \A r \in rows : r.id # jobs[p].id
         /\ jobs[p].op # "pin"
<1>1. ~Idle(p) /\ Head(jobs[p].todo) = "write"
  BY DEF At
<1>2. Sane /\ JobFine(p) /\ Planned(jobs[p].op, jobs[p].todo)
  BY <1>1, Busy
<1>3. Belongs(jobs[p].op, jobs[p].todo, 1) /\ jobs[p].todo[1] = "write"
  BY <1>1, <1>2, PlanHead
<1>4. jobs[p].op # "pin"
  BY <1>3 DEF Belongs, Relabelling, Removing
<1>. QED  BY <1>1, <1>2, <1>4 DEF JobFine, Sane, ReadsHold, Mending, OfAuth, Proper

\* A save by a mutation that takes no key away from a route.
LEMMA HarmlessSave ==
  ASSUME PInv, alone, alone', NEW p \in Jobs, ~Idle(p),
         Head(jobs[p].todo) \in {"write", "number"},
         jobs[p].op \notin {"remove", "rename", "pin"}, NEW S,
         jobs[p].op = "removeKey" => Head(jobs[p].todo) = "number",
         Save(p, S, Rest(p)),
         \A s \in S : IsRow(s) /\ s.auth \in Auths /\ s.id \in 1 .. started,
         \A s, t \in S : s.id = t.id => s = t,
         \A key \in Active(rows), s \in S :
           key.id = s.id => s.active /\ s.auth = key.auth /\ s.label = key.label
  PROVE  PInv'
<1>. DEFINE j == jobs[p]
<1>1. CASE GiveUp(p)
  BY <1>1, GiveUpKeepsPins
<1>2. CASE rows' = Saved(S) /\ Went(p, Rest(p)) /\ Wrote(p) /\ UNCHANGED <<routes, started>>
  <2>1. /\ Sane /\ JobFine(p) /\ Planned(j.op, j.todo)
    BY Busy
  <2>2. Proper(rows, started)'
    BY <1>2, <2>1, SavedProper DEF Sane
  <2>3. \A r : Shown(r) => Shown(r)'
    BY <1>2, SavedShows
  <2>4. \A t \in TableNames : Awaits(j.todo, t) <=> Awaits(Tail(j.todo), t)
    <3>1. ASSUME NEW t \in TableNames PROVE Awaits(j.todo, t) <=> Awaits(Tail(j.todo), t)
      <4>1. Head(j.todo) \notin {t, "others", "invalidate"}
        BY DEF TableNames
      <4>. QED  BY <2>1, <4>1, PlanAwaits
    <3>. QED  BY <3>1
  <2>5. \A t \in TableNames : \A r \in routes[t] :
          Shown(r)' \/ (Awaits(Tail(j.todo), t) /\ Mends(j, r))
    BY <2>1, <2>3, <2>4 DEF JobFine, Mending
  <2>6. Relabels(j) => \A t \in TableNames : Awaits(Tail(j.todo), t) =>
          \A r \in routes[t] : Matches(j, r) => Shown([r EXCEPT !.label = j.to])
    BY <2>1, <2>4 DEF JobFine, Mending, Relabels, Relabelling
  <2>7. IsJob(j) /\ DOMAIN jobs = Jobs
    BY <2>1 DEF JobFine, Sane
  <2>8. j.to = jobs'[p].to
    <3>1. Head(jobs[p].todo) \notin {"others", "invalidate"}
      OBVIOUS
    <3>. QED  BY <1>2, <2>7, <3>1, WentOn DEF SameMutation
  <2>9. \A t \in TableNames : Awaits(Tail(j.todo), t) /\ Relabels(j) =>
          \A r \in routes[t] : Matches(j, r) => Shown([r EXCEPT !.label = jobs[p].to])'
    BY <2>3, <2>6, <2>8
  <2>. QED  BY <1>2, <2>2, <2>5, <2>9, KeysChanged
<1>. QED  BY <1>1, <1>2 DEF Save

LEMMA ConnectWriteKeepsPins ==
  ASSUME PInv, NEW p \in Jobs, ConnectWrite(p)
  PROVE  PInv'
<1>. SUFFICES ASSUME alone' PROVE PInv'
  BY DEF PInv
<1>. DEFINE j == jobs[p]
            l == IF j.label = NoLabel THEN DefaultLabel ELSE j.label
            old == Named(j.snap, l)
            S == {Replaced(r, j.key) : r \in old}
            new == [id |-> j.id, auth |-> j.auth, label |-> l,
                    priority |-> IF j.label = NoLabel THEN 0 ELSE NextPriority(j.snap),
                    active |-> TRUE, key |-> j.key]
<1>1. /\ \/ old # {} /\ Save(p, S, Rest(p))
         \/ GiveUp(p)
         \/ old = {} /\ Save(p, {new}, Rest(p))
      /\ At(p, "write") /\ j.op = "connect"
  BY DEF ConnectWrite, Replaced
<1>2. alone
  BY <1>1 DEF Save, GiveUp, Went
<1>3. /\ ~Idle(p) /\ Head(j.todo) = "write" /\ Proper(rows, started)
      /\ \A r \in j.snap : r \in rows /\ IsRow(r)
      /\ j.id \in 1 .. started /\ \A r \in rows : r.id # j.id
  BY <1>1, <1>2, BeforeWrite
<1>4. ASSUME NEW s \in S
      PROVE  \E r \in rows : /\ IsRow(s) /\ s.id = r.id /\ s.auth = r.auth
                             /\ s.label = r.label /\ s.active
                             /\ s = Replaced(r, j.key)
  <2>1. PICK r \in old : s = Replaced(r, j.key)
    OBVIOUS
  <2>2. r \in rows /\ IsRow(r)
    BY <1>3, <2>1 DEF Named
  <2>. HIDE DEF S, old, l
  <2>. QED  BY <2>1, <2>2, ReplacedRow
<1>. HIDE DEF S, old, l
<1>5. CASE Save(p, S, Rest(p))
  <2>1. \A s \in S : IsRow(s) /\ s.auth \in Auths /\ s.id \in 1 .. started
    BY <1>3, <1>4 DEF Proper
  <2>2. \A s, t \in S : s.id = t.id => s = t
    BY <1>3, <1>4 DEF Proper
  <2>3. \A key \in Active(rows), s \in S :
          key.id = s.id => s.active /\ s.auth = key.auth /\ s.label = key.label
    BY <1>3, <1>4 DEF Proper, Active
  <2>. QED  BY <1>1, <1>2, <1>3, <1>5, <2>1, <2>2, <2>3, HarmlessSave
<1>6. CASE Save(p, {new}, Rest(p))
  <2>1. IsRow(new) /\ new.id = j.id /\ new.auth = j.auth
    BY DEF IsRow
  <2>2. j.auth \in Auths
    BY <1>1, <1>2, <1>3, Busy DEF JobFine, IsJob
  <2>. HIDE DEF new
  <2>3. \A s \in {new} : IsRow(s) /\ s.auth \in Auths /\ s.id \in 1 .. started
    BY <1>3, <2>1, <2>2
  <2>4. \A key \in Active(rows), s \in {new} : key.id # s.id
    BY <1>3, <2>1 DEF Active
  <2>. QED  BY <1>1, <1>2, <1>3, <1>6, <2>3, <2>4, HarmlessSave
<1>. QED  BY <1>1, <1>3, <1>5, <1>6, GiveUpKeepsPins

\* A save of the same keys in a new order.
LEMMA NumberedKeys ==
  ASSUME Proper(rows, started), NEW X, X \subseteq rows, NEW f
  PROVE  /\ \A s \in Numbered(X, f) :
              IsRow(s) /\ s.auth \in Auths /\ s.id \in 1 .. started
         /\ \A s, t \in Numbered(X, f) : s.id = t.id => s = t
         /\ \A key \in rows, s \in Numbered(X, f) : key.id = s.id =>
              s.active = key.active /\ s.auth = key.auth /\ s.label = key.label
<1>1. ASSUME NEW s \in Numbered(X, f)
      PROVE  \E r \in rows : /\ IsRow(s) /\ s.id = r.id /\ s.auth = r.auth
                             /\ s.label = r.label /\ s.active = r.active
                             /\ s = Renumbered(r, f[r])
  <2>1. PICK r \in X : s = Renumbered(r, f[r])
    BY DEF Numbered, Renumbered
  <2>2. r \in rows /\ IsRow(r)
    BY DEF Proper
  <2>. QED  BY <2>1, <2>2, RenumberedRow
<1>. QED  BY <1>1 DEF Proper

LEMMA ReorderWriteKeepsPins ==
  ASSUME PInv, NEW p \in Jobs, ReorderWrite(p)
  PROVE  PInv'
<1>. SUFFICES ASSUME alone' PROVE PInv'
  BY DEF PInv
<1>. DEFINE X == Active(jobs[p].snap)
<1>1. PICK f : At(p, "write") /\ jobs[p].op = "reorder" /\ Save(p, Numbered(X, f), Rest(p))
  BY DEF ReorderWrite
<1>2. alone
  BY <1>1 DEF Save, GiveUp, Went
<1>3. /\ ~Idle(p) /\ Head(jobs[p].todo) = "write" /\ Proper(rows, started)
      /\ X \subseteq rows
  BY <1>1, <1>2, BeforeWrite DEF Active
<1>. DEFINE S == Numbered(X, f)
<1>. HIDE DEF X
<1>4. /\ \A s \in S : IsRow(s) /\ s.auth \in Auths /\ s.id \in 1 .. started
      /\ \A s, t \in S : s.id = t.id => s = t
      /\ \A key \in rows, s \in S : key.id = s.id =>
           s.active = key.active /\ s.auth = key.auth /\ s.label = key.label
  BY <1>3, NumberedKeys
<1>. HIDE DEF S
<1>5. \A key \in Active(rows), s \in S :
        key.id = s.id => s.active /\ s.auth = key.auth /\ s.label = key.label
  BY <1>4 DEF Active
<1>6. Save(p, S, Rest(p))
  BY <1>1 DEF S
<1>. QED  BY <1>1, <1>2, <1>3, <1>4, <1>5, <1>6, HarmlessSave

LEMMA RenumberKeepsPins ==
  ASSUME PInv, NEW p \in Jobs, Renumber(p)
  PROVE  PInv'
<1>. SUFFICES ASSUME alone' PROVE PInv'
  BY DEF PInv
<1>. DEFINE j == jobs[p]
<1>1. alone /\ ~Idle(p) /\ Head(j.todo) = "number"
  BY DEF Renumber, Save, GiveUp, Went, At
<1>2. /\ Sane /\ IsJob(j) /\ ReadsHold(j) /\ Planned(j.op, j.todo) /\ j.op = "removeKey"
      /\ j.snap \subseteq rows /\ DOMAIN jobs = Jobs
  <2>1. JobFine(p) /\ Sane /\ Planned(j.op, j.todo)
    BY <1>1, Busy
  <2>2. Belongs(j.op, j.todo, 1) /\ j.todo[1] = "number"
    BY <1>1, <2>1, PlanHead
  <2>. QED  BY <1>1, <2>1, <2>2 DEF JobFine, ReadsHold, Belongs, Sane
<1>3. PICK f :
        \/ Went(p, Rest(p)) /\ UNCHANGED <<rows, routes, started, dirty>>
        \/ Save(p, Numbered(j.snap, f), Rest(p))
  BY DEF Renumber
<1>4. CASE Save(p, Numbered(j.snap, f), Rest(p))
  <2>. DEFINE S == Numbered(j.snap, f)
  <2>1. /\ \A s \in S : IsRow(s) /\ s.auth \in Auths /\ s.id \in 1 .. started
        /\ \A s, t \in S : s.id = t.id => s = t
        /\ \A key \in rows, s \in S : key.id = s.id =>
             s.active = key.active /\ s.auth = key.auth /\ s.label = key.label
    BY <1>2, NumberedKeys DEF Sane
  <2>2. Save(p, S, Rest(p))
    BY <1>4
  <2>. HIDE DEF S
  <2>3. \A key \in Active(rows), s \in S :
          key.id = s.id => s.active /\ s.auth = key.auth /\ s.label = key.label
    BY <2>1 DEF Active
  <2>. QED  BY <1>1, <1>2, <2>1, <2>2, <2>3, HarmlessSave
<1>5. CASE Went(p, Rest(p)) /\ UNCHANGED <<rows, routes, started, dirty>>
  <2>. DEFINE k == jobs'[p]
  <2>1. Head(j.todo) \notin {"others", "invalidate"}
    BY <1>1
  <2>2. /\ DOMAIN jobs' = Jobs /\ \A q \in Jobs : q # p => jobs'[q] = jobs[q]
        /\ SameMutation(j, k) /\ IsJob(k) /\ ~Idle(p)'
        /\ k.todo = Tail(j.todo) /\ k.seen = None
    BY <1>2, <1>5, <2>1, WentOn
  <2>3. Head(k.todo) \notin {"write", "find", "number", "others"}
    <3>1. Head(Tail(j.todo)) \notin {"write", "find", "number", "others"}
      BY <1>1, <1>2, <2>1, PlanNext
    <3>. QED  BY <2>2, <3>1
  <2>4. ReadsHold(jobs[p])'
    BY <1>2, <1>5, <2>2, <2>3 DEF ReadsHold, SameMutation
  <2>5. \A t \in TableNames : Awaits(j.todo, t) <=> Awaits(k.todo, t)
    <3>1. ASSUME NEW t \in TableNames PROVE Awaits(j.todo, t) <=> Awaits(Tail(j.todo), t)
      <4>1. Head(j.todo) \notin {t, "others", "invalidate"}
        BY <1>1 DEF TableNames
      <4>. QED  BY <1>2, <4>1, PlanAwaits
    <3>. QED  BY <2>2, <3>1
  <2>6. \A r : Mends(j, r) => Mends(k, r)
    BY <2>2 DEF Mends, SameMutation, Relabels, Matches
  <2>. QED  BY <1>1, <1>5, <2>2, <2>3, <2>4, <2>5, <2>6, LooksOnly
<1>. QED  BY <1>3, <1>4, <1>5

LEMMA RenameWriteKeepsPins ==
  ASSUME PInv, NEW p \in Jobs, RenameWrite(p)
  PROVE  PInv'
<1>. SUFFICES ASSUME alone' PROVE PInv'
  BY DEF PInv
<1>. DEFINE j == jobs[p]
            X == Named(j.snap, j.label)
            S == {Renamed(r, j.to) : r \in X}
<1>1. /\ GiveUp(p) \/ (/\ rows' = Saved(S) /\ Went(p, Rest(p)) /\ Wrote(p)
                       /\ UNCHANGED <<routes, started>>)
      /\ At(p, "write") /\ j.op = "rename"
  BY DEF RenameWrite, Save, Renamed
<1>2. alone
  BY DEF RenameWrite, Save, GiveUp, Went
<1>3. /\ ~Idle(p) /\ Head(j.todo) = "write" /\ Proper(rows, started) /\ AllShown
      /\ j.snap = OfAuth(j.auth)
      /\ \A r \in X : r \in rows /\ IsRow(r)
  BY <1>1, <1>2, BeforeWrite DEF Named
<1>4. /\ Sane /\ IsJob(j) /\ Planned(j.op, j.todo) /\ Relabels(j)
      /\ j.auth \in Auths /\ j.label \in Labels
      /\ \A t \in TableNames : \A r \in routes[t] : r \in Routes
  BY <1>1, <1>2, <1>3, Busy DEF JobFine, IsJob, Relabels, Relabelling, Sane
<1>5. ASSUME NEW s \in S
      PROVE  \E r \in X : /\ IsRow(s) /\ s.id = r.id /\ s.auth = r.auth
                          /\ s.label = j.to /\ s.active = r.active
                          /\ s = Renamed(r, j.to)
  <2>1. PICK r \in X : s = Renamed(r, j.to)
    OBVIOUS
  <2>. HIDE DEF X, S
  <2>. QED  BY <1>3, <2>1, RenamedRow
<1>6. ASSUME NEW r \in X PROVE Renamed(r, j.to) \in S
  OBVIOUS
<1>7. \A key \in rows : key \in X <=> key.label = j.label /\ j.auth \in {key.auth, AnyAuth}
  BY <1>3 DEF Named, OfAuth
<1>. HIDE DEF X, S
<1>8. CASE rows' = Saved(S) /\ Went(p, Rest(p)) /\ Wrote(p) /\ UNCHANGED <<routes, started>>
  <2>1. Proper(rows, started)'
    <3>1. \A s \in S : IsRow(s) /\ s.auth \in Auths /\ s.id \in 1 .. started
      BY <1>3, <1>5 DEF Proper
    <3>2. \A s, t \in S : s.id = t.id => s = t
      BY <1>3, <1>5 DEF Proper
    <3>. QED  BY <1>3, <1>8, <3>1, <3>2, SavedProper
  <2>2. ASSUME NEW key \in Active(rows), key \notin X PROVE key \in Active(rows)'
    BY <1>3, <1>5, <1>8, <2>2 DEF Proper, Active, Saved
  <2>3. ASSUME NEW key \in Active(rows), key \in X
        PROVE  \E s \in Active(rows)' : s.auth = j.auth /\ s.label = j.to
    <3>1. LET s == Renamed(key, j.to) IN
            s \in S /\ s.auth = key.auth /\ s.label = j.to /\ s.active = key.active
      BY <1>3, <1>6, <2>3, RenamedRow
    <3>2. key.auth = j.auth
      BY <1>4, <1>7, <2>3, KeyRoutingAssumption DEF Active
    <3>. QED  BY <1>8, <2>3, <3>1, <3>2 DEF Active, Saved
  <2>4. ASSUME NEW t \in TableNames, NEW r \in routes[t]
        PROVE  Shown(r)' \/ Matches(j, r)
    <3>1. PICK key \in Active(rows) : key.auth = r.auth /\ r.label \in {key.label, NoLabel}
      BY <1>3 DEF AllShown, Shown
    <3>2. CASE key \notin X
      BY <2>2, <3>1, <3>2 DEF Shown
    <3>3. CASE key \in X
      <4>1. key.auth = j.auth /\ key.label = j.label
        BY <1>4, <1>7, <3>3, KeyRoutingAssumption DEF Active
      <4>. QED  BY <2>3, <3>1, <3>3, <4>1 DEF Shown, Matches
    <3>. QED  BY <3>2, <3>3
  <2>5. ASSUME NEW t \in TableNames, NEW r \in routes[t], Matches(j, r)
        PROVE  Shown([r EXCEPT !.label = jobs[p].to])'
    <3>1. PICK key \in Active(rows) : key.auth = r.auth /\ r.label \in {key.label, NoLabel}
      BY <1>3 DEF AllShown, Shown
    <3>2. key \in X
      BY <1>4, <1>7, <2>5, <3>1, KeyRoutingAssumption DEF Matches, Active
    <3>3. PICK s \in Active(rows)' : s.auth = j.auth /\ s.label = j.to
      BY <2>3, <3>2
    <3>4. jobs'[p].to = j.to
      <4>1. Head(j.todo) \notin {"others", "invalidate"} /\ DOMAIN jobs = Jobs
        BY <1>3, <1>4 DEF Sane
      <4>. QED  BY <1>4, <1>8, <4>1, WentOn DEF SameMutation
    <3>5. LET q == [r EXCEPT !.label = j.to] IN q.auth = j.auth /\ q.label = j.to
      BY <1>4, <2>5 DEF Matches, Routes
    <3>. QED  BY <3>3, <3>4, <3>5 DEF Shown
  <2>6. \A t \in TableNames : Awaits(Tail(j.todo), t)
    BY <1>1, <1>3, <1>4, PlanAwaits DEF Rewritten, Relabelling
  <2>7. \A t \in TableNames : \A r \in routes[t] :
          Shown(r)' \/ (Awaits(Tail(j.todo), t) /\ Mends(j, r))
    BY <1>4, <2>4, <2>6 DEF Mends
  <2>. QED  BY <1>1, <1>2, <1>3, <1>8, <2>1, <2>5, <2>7, KeysChanged
<1>. QED  BY <1>1, <1>2, <1>3, <1>8, GiveUpKeepsPins

LEMMA RemoveKeyWriteKeepsPins ==
  ASSUME PInv, NEW p \in Jobs, RemoveKeyWrite(p)
  PROVE  PInv'
<1>. SUFFICES ASSUME alone' PROVE PInv'
  BY DEF PInv
<1>. DEFINE j == jobs[p]
            X == Named(j.snap, j.label)
<1>1. /\ rows' = {r \in rows : \A s \in X : r.id # s.id}
      /\ Went(p, Rest(p)) /\ Wrote(p) /\ UNCHANGED <<routes, started>>
      /\ At(p, "write") /\ j.op = "removeKey" /\ alone /\ ~Stranded(j.auth)
  BY DEF RemoveKeyWrite
<1>2. /\ ~Idle(p) /\ Head(j.todo) = "write" /\ Proper(rows, started) /\ AllShown
      /\ j.snap = OfAuth(j.auth) /\ j.op # "pin"
      /\ \A r \in X : r \in rows /\ IsRow(r)
  BY <1>1, BeforeWrite DEF Named
<1>3. /\ Sane /\ IsJob(j) /\ Planned(j.op, j.todo) /\ Relabels(j)
      /\ j.auth \in Auths /\ j.label \in Labels /\ j.to = NoLabel
      /\ \A t \in TableNames : \A r \in routes[t] : r \in Routes
  BY <1>1, <1>2, Busy DEF JobFine, IsJob, Relabels, Relabelling, Sane
<1>4. \A key \in rows : key \in X <=> key.label = j.label /\ j.auth \in {key.auth, AnyAuth}
  BY <1>2 DEF Named, OfAuth
<1>. HIDE DEF X
<1>5. Proper(rows, started)'
  BY <1>1, <1>2 DEF Proper
<1>6. ASSUME NEW key \in Active(rows), key \notin X PROVE key \in Active(rows)'
  BY <1>1, <1>2, <1>6 DEF Proper, Active
<1>7. ASSUME NEW t \in TableNames, NEW r \in routes[t], r.auth = j.auth
      PROVE  \E key \in Active(rows)' : key.auth = j.auth
  <2>1. Active(OfAuth(j.auth))' # {}
    <3>1. t \in Range(Tables)
      BY TableRange
    <3>. QED  BY <1>1, <1>7, <3>1 DEF Stranded
  <2>2. Active(OfAuth(j.auth))' = {key \in Active(rows)' : j.auth \in {key.auth, AnyAuth}}
    <3>1. j.auth' = j.auth
      <4>1. Head(j.todo) \notin {"others", "invalidate"} /\ DOMAIN jobs = Jobs
        BY <1>2, <1>3 DEF Sane
      <4>. QED  BY <1>1, <1>3, <4>1, WentOn DEF SameMutation
    <3>. QED  BY <3>1 DEF Active, OfAuth
  <2>. QED  BY <1>3, <2>1, <2>2, KeyRoutingAssumption
<1>8. ASSUME NEW t \in TableNames, NEW r \in routes[t]
      PROVE  Shown(r)' \/ Matches(j, r)
  <2>1. PICK key \in Active(rows) : key.auth = r.auth /\ r.label \in {key.label, NoLabel}
    BY <1>2 DEF AllShown, Shown
  <2>2. CASE key \notin X
    BY <1>6, <2>1, <2>2 DEF Shown
  <2>3. CASE key \in X
    <3>1. key.auth = j.auth /\ key.label = j.label
      BY <1>3, <1>4, <2>3, KeyRoutingAssumption DEF Active
    <3>. QED  BY <1>7, <2>1, <3>1 DEF Shown, Matches
  <2>. QED  BY <2>2, <2>3
<1>9. ASSUME NEW t \in TableNames, NEW r \in routes[t], Matches(j, r)
      PROVE  Shown([r EXCEPT !.label = jobs[p].to])'
  <2>1. PICK key \in Active(rows)' : key.auth = j.auth
    BY <1>7, <1>9 DEF Matches
  <2>2. jobs'[p].to = NoLabel
    <3>1. Head(j.todo) \notin {"others", "invalidate"} /\ DOMAIN jobs = Jobs
      BY <1>2, <1>3 DEF Sane
    <3>. QED  BY <1>1, <1>3, <3>1, WentOn DEF SameMutation
  <2>3. LET q == [r EXCEPT !.label = NoLabel] IN q.auth = j.auth /\ q.label = NoLabel
    BY <1>3, <1>9 DEF Matches, Routes
  <2>. QED  BY <2>1, <2>2, <2>3 DEF Shown
<1>10. \A t \in TableNames : Awaits(Tail(j.todo), t)
  BY <1>1, <1>2, <1>3, PlanAwaits DEF Rewritten, Relabelling
<1>11. \A t \in TableNames : \A r \in routes[t] :
         Shown(r)' \/ (Awaits(Tail(j.todo), t) /\ Mends(j, r))
  BY <1>3, <1>8, <1>10 DEF Mends
<1>. QED  BY <1>1, <1>2, <1>5, <1>9, <1>11, KeysChanged

LEMMA DeactivateWriteKeepsPins ==
  ASSUME PInv, NEW p \in Jobs, DeactivateWrite(p)
  PROVE  PInv'
<1>. SUFFICES ASSUME alone' PROVE PInv'
  BY DEF PInv
<1>. DEFINE j == jobs[p]
<1>1. /\ rows' = {Disconnected(r) : r \in rows}
      /\ Went(p, Rest(p)) /\ Wrote(p) /\ UNCHANGED <<routes, started>>
      /\ At(p, "write") /\ j.op = "deactivate" /\ alone /\ routes["specificity"] = {}
  BY DEF DeactivateWrite, Disconnected
<1>2. /\ ~Idle(p) /\ Head(j.todo) = "write" /\ Proper(rows, started)
      /\ Planned(j.op, j.todo)
  BY <1>1, BeforeWrite, Busy
<1>3. ASSUME NEW s \in rows'
      PROVE  \E r \in rows : IsRow(s) /\ s.id = r.id /\ s.auth = r.auth /\ s = Disconnected(r)
  BY <1>1, <1>2, DisconnectedRow DEF Proper
<1>4. Proper(rows, started)'
  BY <1>1, <1>2, <1>3 DEF Proper
<1>5. \A t \in TableNames : t # "specificity" => Awaits(Tail(j.todo), t)
  BY <1>1, <1>2, PlanAwaits DEF Rewritten, Relabelling, TableNames
<1>6. \A t \in TableNames : \A r \in routes[t] :
         Shown(r)' \/ (Awaits(Tail(j.todo), t) /\ Mends(j, r))
  BY <1>1, <1>5 DEF Mends
<1>7. ~Relabels(j)
  BY <1>1 DEF Relabels, Relabelling
<1>. QED  BY <1>1, <1>2, <1>4, <1>6, <1>7, KeysChanged

LEMMA RemoveWriteKeepsPins ==
  ASSUME PInv, NEW p \in Jobs, RemoveWrite(p)
  PROVE  PInv'
<1>. SUFFICES ASSUME alone' PROVE PInv'
  BY DEF PInv
<1>. DEFINE j == jobs[p]
            X == Active(j.snap)
            S == {Disconnected(r) : r \in X}
<1>1. /\ \/ GiveUp(p)
         \/ /\ X = {} /\ Went(p, Rest(p))
            /\ UNCHANGED <<rows, routes, started, dirty>>
         \/ /\ rows' = Saved(S) /\ Went(p, Rest(p)) /\ Wrote(p)
            /\ UNCHANGED <<routes, started>>
      /\ At(p, "write") /\ j.op = "remove"
  BY DEF RemoveWrite, Save, Disconnected
<1>2. alone
  BY DEF RemoveWrite, Save, GiveUp, Went
<1>3. /\ ~Idle(p) /\ Head(j.todo) = "write" /\ Proper(rows, started) /\ AllShown
      /\ j.snap = OfAuth(j.auth) /\ j.id \in 1 .. started
      /\ X = {r \in rows : j.auth \in {r.auth, AnyAuth} /\ r.active}
  BY <1>1, <1>2, BeforeWrite DEF Active, OfAuth
<1>4. Sane /\ IsJob(j) /\ Planned(j.op, j.todo) /\ DOMAIN jobs = Jobs /\ ~Relabels(j)
  BY <1>1, <1>2, <1>3, Busy DEF JobFine, Sane, Relabels, Relabelling
<1>5. /\ Head(j.todo) \notin {"others", "invalidate"}
      /\ \A t \in TableNames : Awaits(j.todo, t) /\ Awaits(Tail(j.todo), t)
  BY <1>1, <1>3, <1>4, PlanAwaits DEF Rewritten, Relabelling
<1>6. ASSUME NEW s \in S
      PROVE  \E r \in X : /\ IsRow(s) /\ s.id = r.id /\ s.auth = r.auth /\ ~s.active
                          /\ s = Disconnected(r)
  <2>1. PICK r \in X : s = Disconnected(r)
    OBVIOUS
  <2>. HIDE DEF S
  <2>. QED  BY <1>3, <2>1, DisconnectedRow DEF Proper
<1>7. ASSUME NEW r \in X PROVE \E s \in S : s.id = r.id
  <2>1. Disconnected(r) \in S
    OBVIOUS
  <2>. HIDE DEF S
  <2>. QED  BY <1>3, <2>1, DisconnectedRow DEF Proper
<1>. HIDE DEF S
<1>8. CASE rows' = Saved(S) /\ Went(p, Rest(p)) /\ Wrote(p) /\ UNCHANGED <<routes, started>>
  <2>1. Proper(rows, started)'
    <3>1. \A s \in S : IsRow(s) /\ s.auth \in Auths /\ s.id \in 1 .. started
      BY <1>3, <1>6 DEF Proper
    <3>2. \A s, t \in S : s.id = t.id => s = t
      BY <1>3, <1>6 DEF Proper
    <3>. QED  BY <1>3, <1>8, <3>1, <3>2, SavedProper
  <2>2. ASSUME NEW key \in rows', key.active PROVE key \in rows /\ key \notin X
    BY <1>3, <1>6, <1>7, <1>8, <2>2 DEF Saved
  <2>3. Active(OfAuth(jobs[p].auth))' = {}
    <3>1. j.auth' = j.auth
      BY <1>4, <1>5, <1>8, WentOn DEF SameMutation
    <3>. QED  BY <1>3, <2>2, <3>1 DEF Active, OfAuth
  <2>4. ASSUME NEW key \in rows, key.active, key \notin X PROVE key \in Active(rows)'
    BY <1>3, <1>6, <1>8, <2>4 DEF Saved, Active, Proper
  <2>5. ASSUME NEW t \in TableNames, NEW r \in routes[t]
        PROVE  Shown(r)' \/ j.auth \in {r.auth, AnyAuth}
    <3>1. PICK key \in Active(rows) : key.auth = r.auth /\ r.label \in {key.label, NoLabel}
      BY <1>3 DEF AllShown, Shown
    <3>2. CASE key \in X
      BY <1>3, <3>1, <3>2
    <3>3. CASE key \notin X
      BY <2>4, <3>1, <3>3 DEF Shown, Active
    <3>. QED  BY <3>2, <3>3
  <2>6. \A t \in TableNames : \A r \in routes[t] :
          Shown(r)' \/ (Awaits(Tail(j.todo), t) /\ Mends(j, r))
    BY <1>1, <1>5, <2>5 DEF Mends
  <2>. QED  BY <1>1, <1>2, <1>3, <1>4, <1>8, <2>1, <2>3, <2>6, KeysChanged
<1>9. CASE X = {} /\ Went(p, Rest(p)) /\ UNCHANGED <<rows, routes, started, dirty>>
  <2>. DEFINE k == jobs'[p]
  <2>1. /\ DOMAIN jobs' = Jobs /\ \A q \in Jobs : q # p => jobs'[q] = jobs[q]
        /\ SameMutation(j, k) /\ IsJob(k) /\ ~Idle(p)'
        /\ k.todo = Tail(j.todo) /\ k.seen = None
    BY <1>4, <1>5, <1>9, WentOn
  <2>2. Head(k.todo) \notin {"write", "find", "number"}
    <3>1. Head(Tail(j.todo)) \notin {"write", "find", "number"}
      BY <1>3, <1>4, <1>5, PlanNext
    <3>. QED  BY <2>1, <3>1
  <2>3. Active(OfAuth(jobs[p].auth))' = {}
    BY <1>3, <1>9, <2>1 DEF SameMutation, Active, OfAuth
  <2>4. ReadsHold(jobs[p])'
    BY <1>1, <1>3, <1>9, <2>1, <2>2, <2>3 DEF ReadsHold, SameMutation
  <2>5. \A r : Mends(j, r) => Mends(k, r)
    BY <2>1 DEF Mends, SameMutation, Relabels, Matches
  <2>6. ~Relabels(k) /\ \A t \in TableNames : Awaits(k.todo, t)
    BY <1>4, <1>5, <2>1 DEF Relabels, SameMutation
  <2>. QED  BY <1>2, <1>3, <1>9, <2>1, <2>2, <2>4, <2>5, <2>6, LooksOnly
<1>. QED  BY <1>1, <1>2, <1>3, <1>8, <1>9, GiveUpKeepsPins

\* A step that rewrites a table leaves it without a route to no key.
LEMMA TableRewritten ==
  ASSUME PInv, alone, NEW p \in Jobs, ~Idle(p),
         Head(jobs[p].todo) \in TableNames \cup {"recalculate"},
         Went(p, Rest(p)), UNCHANGED <<rows, started>>,
         dirty \subseteq dirty', dirty' \subseteq dirty \cup {p},
         routes' \in [TableNames -> SUBSET Routes],
         p \notin dirty' => routes' = routes,
         \A u \in TableNames : u # Head(jobs[p].todo) => routes'[u] = routes[u],
         \A u \in TableNames : u = Head(jobs[p].todo) =>
           \A r \in routes'[u] :
             /\ Shown(r)
             /\ Relabels(jobs[p]) /\ Matches(jobs[p], r) => r.label = jobs[p].to
  PROVE  PInv'
<1>. DEFINE j == jobs[p]  k == jobs'[p]
<1>1. /\ Sane /\ IsJob(j) /\ ReadsHold(j) /\ Mending(j, p \in dirty)
      /\ Planned(j.op, j.todo) /\ DOMAIN jobs = Jobs
  BY Busy DEF JobFine, Sane
<1>2. Head(j.todo) \notin {"others", "invalidate", "find", "write", "renumber"}
  BY DEF TableNames
<1>3. /\ DOMAIN jobs' = Jobs /\ \A q \in Jobs : q # p => jobs'[q] = jobs[q]
      /\ SameMutation(j, k) /\ IsJob(k) /\ ~Idle(p)'
      /\ k.todo = Tail(j.todo) /\ k.seen = None
  BY <1>1, <1>2, WentOn
<1>4. Head(k.todo) \notin {"write", "find", "number", "others"}
  <2>1. Head(Tail(j.todo)) \notin {"write", "find", "number", "others"}
    BY <1>1, <1>2, PlanNext
  <2>. QED  BY <1>3, <2>1
<1>5. \A r : Shown(r)' = Shown(r)
  BY DEF Shown, Active
<1>6. ReadsHold(jobs[p])'
  BY <1>1, <1>3, <1>4, <1>5 DEF ReadsHold, SameMutation
<1>7. \A u \in TableNames : u # Head(j.todo) => (Awaits(j.todo, u) <=> Awaits(k.todo, u))
  <2>1. ASSUME NEW u \in TableNames, u # Head(j.todo)
        PROVE  Awaits(j.todo, u) <=> Awaits(Tail(j.todo), u)
    BY <1>1, <1>2, <2>1, PlanAwaits
  <2>. QED  BY <1>3, <2>1
<1>8. ~(p \in dirty') => AllShown'
  BY <1>1, <1>5 DEF Mending, AllShown
<1>9. ASSUME NEW u \in TableNames, NEW r \in routes'[u]
      PROVE  Shown(r) \/ (Awaits(k.todo, u) /\ Mends(k, r))
  <2>1. Mends(k, r) <=> Mends(j, r)
    BY <1>3 DEF Mends, SameMutation, Relabels, Matches
  <2>. QED  BY <1>1, <1>7, <2>1 DEF Mending
<1>10. ASSUME Relabels(k), NEW u \in TableNames, Awaits(k.todo, u),
              NEW r \in routes'[u], Matches(k, r)
       PROVE  Shown([r EXCEPT !.label = k.to])
  <2>1. k.to = j.to /\ Relabels(j) /\ Matches(j, r) /\ r \in Routes
    BY <1>3, <1>10 DEF SameMutation, Relabels, Matches
  <2>2. CASE u = Head(j.todo)
    <3>1. r.label = j.to /\ Shown(r)
      BY <2>1, <2>2
    <3>2. LET q == [r EXCEPT !.label = k.to] IN q.auth = r.auth /\ q.label = j.to
      BY <2>1 DEF Routes
    <3>. QED  BY <3>1, <3>2 DEF Shown
  <2>3. CASE u # Head(j.todo)
    BY <1>1, <1>2, <1>7, <1>10, <2>1, <2>3 DEF Mending
  <2>. QED  BY <2>2, <2>3
<1>11. Mending(jobs[p], p \in dirty)'
  BY <1>4, <1>5, <1>8, <1>9, <1>10 DEF Mending
<1>12. Sane'
  BY <1>1, <1>3 DEF Sane
<1>. QED  BY <1>3, <1>6, <1>11, <1>12, OneGoesOn DEF JobFine

LEMMA AtTable ==
  ASSUME PInv, alone, NEW p \in Jobs, NEW t \in TableNames \cup {"recalculate"}, At(p, t)
  PROVE  /\ ~Idle(p) /\ Head(jobs[p].todo) = t /\ Sane /\ IsJob(jobs[p])
         /\ ReadsHold(jobs[p]) /\ Mending(jobs[p], p \in dirty)
         /\ Planned(jobs[p].op, jobs[p].todo)
         /\ jobs[p].op \in {"pin", "unpin", "reset"} \cup Relabelling \cup Removing
              \/ t = "recalculate"
<1>1. ~Idle(p) /\ Head(jobs[p].todo) = t
  BY DEF At
<1>2. Sane /\ JobFine(p) /\ Planned(jobs[p].op, jobs[p].todo)
  BY <1>1, Busy
<1>3. Belongs(jobs[p].op, jobs[p].todo, 1) /\ jobs[p].todo[1] = t
  BY <1>1, <1>2, PlanHead
<1>. QED  BY <1>1, <1>2, <1>3 DEF JobFine, Belongs

LEMMA ClearKeepsPins ==
  ASSUME PInv, NEW p \in Jobs, NEW t \in TableNames, Clear(p, t)
  PROVE  PInv'
<1>. SUFFICES ASSUME alone' PROVE PInv'
  BY DEF PInv
<1>1. /\ alone /\ At(p, t) /\ routes' = [routes EXCEPT ![t] = {}] /\ Went(p, Rest(p))
      /\ Wrote(p) /\ UNCHANGED <<rows, started>>
  BY DEF Clear
<1>2. ~Idle(p) /\ Head(jobs[p].todo) = t /\ routes \in [TableNames -> SUBSET Routes]
  BY <1>1, AtTable DEF Sane
<1>3. /\ routes' \in [TableNames -> SUBSET Routes] /\ routes'[t] = {}
      /\ \A u \in TableNames : u # t => routes'[u] = routes[u]
  BY <1>1, <1>2
<1>. QED  BY <1>1, <1>2, <1>3, TableRewritten DEF Wrote

LEMMA RecalculateKeepsPins ==
  ASSUME PInv, NEW p \in Jobs, Recalculate(p)
  PROVE  PInv'
<1>. SUFFICES ASSUME alone' PROVE PInv'
  BY DEF PInv
<1>1. /\ alone /\ At(p, "recalculate") /\ jobs[p].seen # None
      /\ routes' = [routes EXCEPT !["tier"] = jobs[p].seen] /\ Went(p, Rest(p))
      /\ Wrote(p) /\ UNCHANGED <<rows, started>>
  BY DEF Recalculate
<1>2. /\ ~Idle(p) /\ Head(jobs[p].todo) = "recalculate"
      /\ routes \in [TableNames -> SUBSET Routes] /\ jobs[p].seen = routes["tier"]
  BY <1>1, AtTable DEF Sane, ReadsHold, TableNames
<1>3. routes' = routes
  BY <1>1, <1>2
<1>. QED  BY <1>1, <1>2, <1>3, TableRewritten DEF Wrote, TableNames

\* Each save of a mutation's routes leaves only routes that have a key.
LEMMA WriteKeepsPins ==
  ASSUME PInv, NEW p \in Jobs, NEW t \in TableNames, Write(p, t)
  PROVE  PInv'
<1>. SUFFICES ASSUME alone' PROVE PInv'
  BY DEF PInv
<1>. DEFINE j == jobs[p]
<1>1. alone /\ At(p, t) /\ j.seen # None /\ Went(p, Rest(p)) /\ UNCHANGED <<rows, started>>
  BY DEF Write
<1>2. /\ ~Idle(p) /\ Head(j.todo) = t /\ Sane /\ IsJob(j) /\ ReadsHold(j)
      /\ Mending(j, p \in dirty) /\ Planned(j.op, j.todo) /\ t # "recalculate"
      /\ j.op \in {"pin", "unpin", "reset"} \cup Relabelling \cup Removing
  BY <1>1, AtTable DEF TableNames
<1>3. j.seen = routes[t] /\ j.op \in {"pin", "unpin", "remove"} \cup Relabelling
  BY <1>1, <1>2 DEF ReadsHold, BlindUpdates, Removing
<1>4. PICK new \in Rewrites(j, routes[t]) :
        LET saved == j.op \in {"pin", "unpin"} \/ new # routes[t] IN
        /\ routes' = IF saved THEN [routes EXCEPT ![t] = new] ELSE routes
        /\ IF saved THEN Wrote(p) ELSE UNCHANGED dirty
  BY <1>3 DEF Write
<1>5. routes \in [TableNames -> SUBSET Routes]
  BY <1>2 DEF Sane
<1>6. /\ routes'[t] = new /\ \A u \in TableNames : u # t => routes'[u] = routes[u]
      /\ p \notin dirty' => routes' = routes
      /\ dirty \subseteq dirty' /\ dirty' \subseteq dirty \cup {p}
  BY <1>4, <1>5 DEF Wrote
<1>7. ASSUME NEW r \in new
      PROVE  /\ r \in Routes /\ Shown(r)
             /\ Relabels(j) /\ Matches(j, r) => r.label = j.to
  <2>1. CASE j.op = "pin"
    <3>1. r \in routes[t] \/ r = j.route
      BY <1>4, <1>7, <2>1 DEF Rewrites, Pinned
    <3>2. ~Relabels(j) /\ j.route \in Routes /\ Shown(j.route)
      BY <1>2, <2>1 DEF Relabels, Relabelling, IsJob, ReadsHold
    <3>3. r \in routes[t] => Shown(r) /\ r \in Routes
      BY <1>2, <1>5, <2>1, <3>2 DEF Mending, Mends
    <3>. QED  BY <3>1, <3>2, <3>3
  <2>2. CASE j.op = "unpin"
    <3>1. r \in routes[t]
      BY <1>4, <1>7, <2>2 DEF Rewrites
    <3>2. ~Relabels(j)
      BY <2>2 DEF Relabels, Relabelling
    <3>. QED  BY <1>2, <1>5, <2>2, <3>1, <3>2 DEF Mending, Mends
  <2>3. CASE j.op = "remove"
    <3>1. r \in routes[t] /\ j.auth \notin {r.auth, AnyAuth}
      BY <1>4, <1>7, <2>3 DEF Rewrites, Cleaned
    <3>2. ~Relabels(j)
      BY <2>3 DEF Relabels, Relabelling
    <3>. QED  BY <1>2, <1>5, <2>3, <3>1, <3>2 DEF Mending, Mends
  <2>4. CASE j.op \in Relabelling
    <3>1. new = Relabelled(j, routes[t])
      BY <1>4, <2>4 DEF Rewrites, Relabelling
    <3>2. PICK q \in routes[t] :
            r = IF Matches(j, q) THEN [q EXCEPT !.label = j.to] ELSE q
      BY <1>7, <3>1 DEF Relabelled, Matches
    <3>3. q \in Routes /\ Relabels(j) /\ j.to \in Labels \cup {NoLabel}
      BY <1>2, <1>5, <2>4 DEF Relabels, IsJob
    <3>4. CASE Matches(j, q)
      <4>1. r \in Routes /\ r.label = j.to
        BY <3>2, <3>3, <3>4 DEF Routes
      <4>2. Awaits(j.todo, t) /\ Head(j.todo) # "write"
        <5>1. Awaits(j.todo, t)
          BY <1>2, PlanHead DEF Awaits
        <5>. QED  BY <1>2, <5>1 DEF TableNames
      <4>3. Shown([q EXCEPT !.label = j.to])
        BY <1>2, <3>3, <3>4, <4>2 DEF Mending
      <4>. QED  BY <3>2, <3>4, <4>1, <4>3
    <3>5. CASE ~Matches(j, q)
      BY <1>2, <2>4, <3>2, <3>3, <3>5 DEF Mending, Mends, Relabelling
    <3>. QED  BY <3>4, <3>5
  <2>. QED  BY <1>3, <2>1, <2>2, <2>3, <2>4
<1>8. routes' \in [TableNames -> SUBSET Routes]
  BY <1>4, <1>5, <1>7
<1>. QED  BY <1>1, <1>2, <1>6, <1>7, <1>8, TableRewritten

LEMMA ReadKeepsPins ==
  ASSUME PInv, NEW p \in Jobs, RecalculateRead(p) \/ \E t \in TableNames : Read(p, t)
  PROVE  PInv'
<1>. SUFFICES ASSUME alone' PROVE PInv'
  BY DEF PInv
<1>. DEFINE j == jobs[p]  k == jobs'[p]
<1>1. PICK t \in TableNames \cup {"recalculate"}, u \in TableNames :
        /\ At(p, t) /\ jobs' = [jobs EXCEPT ![p].seen = routes[u]]
        /\ \/ t = u /\ j.op \notin BlindUpdates
           \/ t = "recalculate" /\ u = "tier"
  BY DEF RecalculateRead, Read, TableNames
<1>2. alone /\ UNCHANGED <<rows, routes, dirty, started>>
  BY DEF RecalculateRead, Read
<1>3. /\ ~Idle(p) /\ Head(j.todo) = t /\ Sane /\ IsJob(j) /\ ReadsHold(j)
  BY <1>1, <1>2, AtTable
<1>4. /\ DOMAIN jobs' = Jobs /\ \A q \in Jobs : q # p => jobs'[q] = jobs[q]
      /\ k = [j EXCEPT !.seen = routes[u]]
  BY <1>1, <1>3 DEF Sane
<1>5. /\ SameMutation(j, k) /\ k.todo = j.todo /\ k.snap = j.snap /\ k.seen = routes[u]
      /\ k = [op |-> k.op, id |-> k.id, todo |-> k.todo, auth |-> k.auth,
              label |-> k.label, to |-> k.to, key |-> k.key, route |-> k.route,
              snap |-> k.snap, seen |-> k.seen]
  BY <1>3, <1>4 DEF IsJob, SameMutation
<1>6. IsJob(k) /\ ~Idle(p)'
  BY <1>3, <1>5 DEF IsJob, SameMutation, Relabels, Idle
<1>7. ReadsHold(jobs[p])'
  BY <1>1, <1>2, <1>3, <1>5 DEF ReadsHold, SameMutation, TableNames, Shown, Active
<1>8. \A r : Mends(j, r) => Mends(k, r)
  BY <1>5 DEF Mends, SameMutation, Relabels, Matches
<1>. QED  BY <1>2, <1>3, <1>4, <1>5, <1>6, <1>7, <1>8, LooksOnly

\* A removal reads the keys again, and the priorities are read to be renumbered.
LEMMA SnapshotKeepsPins ==
  ASSUME PInv, NEW p \in Jobs, RemoveFind(p) \/ RenumberRead(p)
  PROVE  PInv'
<1>. SUFFICES ASSUME alone' PROVE PInv'
  BY DEF PInv
<1>. DEFINE j == jobs[p]  k == jobs'[p]
<1>1. PICK snap :
        /\ jobs' = [jobs EXCEPT ![p].todo = Rest(p), ![p].snap = snap]
        /\ \/ At(p, "find") /\ snap = OfAuth(j.auth)
           \/ At(p, "renumber") /\ snap = Resolvable(j.auth)
  BY DEF RemoveFind, RenumberRead
<1>2. alone /\ UNCHANGED <<rows, routes, dirty, started>>
  BY DEF RemoveFind, RenumberRead
<1>3. /\ ~Idle(p) /\ Head(j.todo) \in {"find", "renumber"}
      /\ Head(j.todo) = "find" => snap = OfAuth(j.auth)
      /\ Head(j.todo) = "renumber" => snap = Resolvable(j.auth)
  BY <1>1 DEF At
<1>4. Sane /\ IsJob(j) /\ ReadsHold(j) /\ Planned(j.op, j.todo)
  BY <1>2, <1>3, Busy DEF JobFine
<1>5. /\ DOMAIN jobs' = Jobs /\ \A q \in Jobs : q # p => jobs'[q] = jobs[q]
      /\ k = [j EXCEPT !.todo = Tail(j.todo), !.snap = snap]
  BY <1>1, <1>4 DEF Sane, Rest
<1>6. /\ SameMutation(j, k) /\ k.todo = Tail(j.todo) /\ k.snap = snap /\ k.seen = j.seen
      /\ k = [op |-> k.op, id |-> k.id, todo |-> k.todo, auth |-> k.auth,
              label |-> k.label, to |-> k.to, key |-> k.key, route |-> k.route,
              snap |-> k.snap, seen |-> k.seen]
  BY <1>4, <1>5 DEF IsJob, SameMutation
<1>7. /\ Planned(j.op, Tail(j.todo)) /\ Tail(j.todo) # <<>>
      /\ Head(Tail(j.todo)) \notin {"find", "others"}
      /\ Head(Tail(j.todo)) = "write" => Head(j.todo) = "find"
      /\ Head(Tail(j.todo)) = "number" => Head(j.todo) = "renumber"
  <2>1. Planned(j.op, Tail(j.todo))
    BY <1>3, <1>4, PlanTail
  <2>2. Tail(j.todo) # <<>>
    BY <2>1, PlanHead
  <2>. QED  BY <1>3, <1>4, <2>1, <2>2, PlanNext
<1>8. IsJob(k) /\ ~Idle(p)'
  BY <1>4, <1>6, <1>7 DEF IsJob, SameMutation, Relabels, Idle
<1>9. ReadsHold(jobs[p])'
  <2>1. j.seen = None
    BY <1>3, <1>4 DEF ReadsHold, TableNames
  <2>2. Head(k.todo) = "number" => k.snap \subseteq rows
    BY <1>3, <1>6, <1>7 DEF Resolvable, Active, OfAuth
  <2>3. Head(k.todo) = "write" => /\ k.snap = OfAuth(j.auth)
                                  /\ \A r \in rows : r.id # j.id
    BY <1>3, <1>4, <1>6, <1>7 DEF ReadsHold
  <2>4. Head(k.todo) \notin {"find", "others"}
    BY <1>6, <1>7
  <2>5. k.id \in 1 .. started /\ (k.op = "pin" => Shown(k.route))
    BY <1>4, <1>6 DEF ReadsHold, SameMutation
  <2>6. k.auth = j.auth /\ k.id = j.id /\ k.seen = None
    BY <1>6, <2>1 DEF SameMutation
  <2>. QED  BY <1>2, <2>2, <2>3, <2>4, <2>5, <2>6 DEF ReadsHold, OfAuth, Shown, Active
<1>10. \A t \in TableNames : Awaits(j.todo, t) <=> Awaits(k.todo, t)
  <2>1. ASSUME NEW t \in TableNames PROVE Awaits(j.todo, t) <=> Awaits(Tail(j.todo), t)
    <3>1. Head(j.todo) \notin {t, "others", "invalidate"}
      BY <1>3 DEF TableNames
    <3>. QED  BY <1>4, <3>1, PlanAwaits
  <2>. QED  BY <1>6, <2>1
<1>11. \A r : Mends(j, r) => Mends(k, r)
  BY <1>6 DEF Mends, SameMutation, Relabels, Matches
<1>12. /\ Head(k.todo) \in {"write", "find"} => Head(j.todo) \in {"write", "find"}
       /\ Head(j.todo) # "write"
  BY <1>3, <1>6, <1>7
<1>. QED  BY <1>2, <1>3, <1>5, <1>6, <1>8, <1>9, <1>10, <1>11, <1>12, LooksOnly

\* Once the keys are gone the removal knows which routes are to go, or all.
LEMMA RemoveOthersKeepsPins ==
  ASSUME PInv, NEW p \in Jobs, RemoveOthers(p)
  PROVE  PInv'
<1>. SUFFICES ASSUME alone' PROVE PInv'
  BY DEF PInv
<1>. DEFINE j == jobs[p]  k == jobs'[p]
            others == Active(rows) # {}
            todo == IF others /\ j.auth = AnyAuth THEN <<"invalidate">>
                    ELSE Tables \o <<"recalculate", "invalidate">>
            auth == IF others THEN j.auth ELSE AnyAuth
<1>1. /\ jobs' = [jobs EXCEPT ![p].todo = todo, ![p].auth = auth]
      /\ alone /\ UNCHANGED <<rows, routes, dirty, started>>
      /\ ~Idle(p) /\ Head(j.todo) = "others"
  BY DEF RemoveOthers, At
<1>2. /\ Sane /\ IsJob(j) /\ ReadsHold(j) /\ Planned(j.op, j.todo) /\ j.op = "remove"
  <2>1. Sane /\ JobFine(p) /\ Planned(j.op, j.todo)
    BY <1>1, Busy
  <2>2. Belongs(j.op, j.todo, 1) /\ j.todo[1] = "others"
    BY <1>1, <2>1, PlanHead
  <2>. QED  BY <2>1, <2>2 DEF JobFine, Belongs
<1>3. ~(others /\ j.auth = AnyAuth)
  BY <1>1, <1>2 DEF ReadsHold, Active, OfAuth
<1>4. todo = <<"tier", "specificity", "header", "recalculate", "invalidate">>
  BY <1>3, TablesInPlans
<1>. HIDE DEF todo, auth
<1>5. Planned(j.op, todo)
  BY <1>2, <1>4, LongPlans
<1>6. \A t \in TableNames : Awaits(todo, t)
  BY <1>4 DEF Awaits, TableNames
<1>7. Head(todo) = "tier" /\ todo # <<>>
  BY <1>4
<1>8. /\ DOMAIN jobs' = Jobs /\ \A q \in Jobs : q # p => jobs'[q] = jobs[q]
      /\ k = [j EXCEPT !.todo = todo, !.auth = auth]
  BY <1>1, <1>2 DEF Sane
<1>9. /\ k.op = j.op /\ k.id = j.id /\ k.to = j.to /\ k.todo = todo /\ k.auth = auth
      /\ k.seen = j.seen
      /\ k = [op |-> k.op, id |-> k.id, todo |-> k.todo, auth |-> k.auth,
              label |-> k.label, to |-> k.to, key |-> k.key, route |-> k.route,
              snap |-> k.snap, seen |-> k.seen]
  BY <1>2, <1>8 DEF IsJob
<1>10. ~Relabels(k) /\ IsJob(k) /\ ~Idle(p)'
  BY <1>2, <1>5, <1>7, <1>9 DEF IsJob, Relabels, Relabelling, Idle
<1>11. j.seen = None
  BY <1>1, <1>2 DEF ReadsHold, TableNames
<1>12. ReadsHold(jobs[p])'
  BY <1>1, <1>2, <1>7, <1>9, <1>11 DEF ReadsHold
<1>13. ASSUME NEW r, Mends(j, r) PROVE Mends(k, r)
  <2>1. ~Relabels(j)
    BY <1>2 DEF Relabels, Relabelling
  <2>. QED  BY <1>2, <1>9, <1>13, <2>1 DEF Mends, auth
<1>14. Head(k.todo) \notin {"write", "find"} /\ \A t \in TableNames : Awaits(k.todo, t)
  BY <1>6, <1>7, <1>9
<1>. QED  BY <1>1, <1>8, <1>10, <1>12, <1>13, <1>14, LooksOnly

LEMMA InvalidateKeepsPins ==
  ASSUME PInv, NEW p \in Jobs, Invalidate(p)
  PROVE  PInv'
<1>. SUFFICES ASSUME alone' PROVE PInv'
  BY DEF PInv
<1>1. /\ alone /\ ~Idle(p) /\ Head(jobs[p].todo) = "invalidate"
      /\ jobs' = [jobs EXCEPT ![p] = NoJob] /\ dirty' = dirty \ {p}
      /\ UNCHANGED <<rows, routes, started>>
  BY DEF Invalidate, At
<1>2. JobFine(p) /\ Planned(jobs[p].op, jobs[p].todo)
  BY <1>1, Busy
<1>3. \A t \in TableNames : ~Awaits(jobs[p].todo, t)
  BY <1>1, <1>2, PlanAwaits
<1>4. AllShown
  BY <1>2, <1>3 DEF JobFine, Mending, AllShown
<1>. QED  BY <1>1, <1>4, OneEnds

\* A mutation as it begins.
Begun(op, todo, auth, label, to, key, route) ==
  [op |-> op, id |-> started + 1, todo |-> todo, auth |-> auth, label |-> label,
   to |-> to, key |-> key, route |-> route, snap |-> OfAuth(auth), seen |-> None]

LEMMA JobBegun ==
  ASSUME NEW p, NEW op, NEW todo, NEW auth
  PROVE  Job(p, op, todo, auth) = Begun(op, todo, auth, NoLabel, NoLabel, None, None)
BY DEF Job, Begun

LEMMA LabelBegun ==
  ASSUME NEW p, NEW op, NEW todo, NEW auth, NEW l
  PROVE  [Job(p, op, todo, auth) EXCEPT !.label = l] =
           Begun(op, todo, auth, l, NoLabel, None, None)
BY JobBegun DEF Begun

LEMMA RouteBegun ==
  ASSUME NEW p, NEW op, NEW todo, NEW auth, NEW r
  PROVE  [Job(p, op, todo, auth) EXCEPT !.route = r] =
           Begun(op, todo, auth, NoLabel, NoLabel, None, r)
BY JobBegun DEF Begun

\* A mutation begins when no other is in flight, and finds every route in order.
LEMMA BeginKeepsPins ==
  ASSUME PInv, NEW p \in Jobs, MayBegin(p),
         NEW op, NEW todo, NEW auth, NEW label, NEW to, NEW key, NEW route,
         Begin(p, Begun(op, todo, auth, label, to, key, route)),
         Planned(op, todo), Head(todo) \notin {"number", "others"},
         to \in Labels \cup {NoLabel},
         op \in Relabelling \cup {"connect"} => auth \in Auths,
         op \in Relabelling => label \in Labels /\ Head(todo) = "write",
         op = "removeKey" => to = NoLabel,
         op = "pin" => route \in Routes /\ Shown(route)
  PROVE  PInv'
<1>. SUFFICES ASSUME alone' PROVE PInv'
  BY DEF PInv
<1>. DEFINE job == Begun(op, todo, auth, label, to, key, route)
<1>1. /\ alone /\ Quiet /\ started' = started + 1 /\ jobs' = [jobs EXCEPT ![p] = job]
      /\ UNCHANGED <<rows, routes, dirty>>
  BY DEF Begin
<1>5. /\ todo # <<>> /\ job.todo = todo /\ job.op = op /\ job.auth = auth
      /\ job.id = started + 1 /\ job.snap = OfAuth(auth) /\ job.seen = None
      /\ job.label = label /\ job.to = to /\ job.route = route
      /\ job = [op |-> job.op, id |-> job.id, todo |-> job.todo, auth |-> job.auth,
                label |-> job.label, to |-> job.to, key |-> job.key,
                route |-> job.route, snap |-> job.snap, seen |-> job.seen]
  BY PlanHead DEF Begun
<1>. HIDE DEF job
<1>2. Sane /\ AllShown /\ dirty = {} /\ \A q \in Jobs : Idle(q)
  BY <1>1 DEF PInv, Quiet
<1>3. /\ DOMAIN jobs' = Jobs /\ jobs'[p] = job
      /\ \A q \in Jobs : q # p => jobs'[q] = jobs[q]
  BY <1>1, <1>2 DEF Sane
<1>4. Sane'
  BY <1>1, <1>2, <1>3 DEF Sane, Proper
<1>6. IsJob(job)
  BY <1>5 DEF IsJob, Relabels
<1>7. \A r : Shown(r)' = Shown(r)
  BY <1>1 DEF Shown, Active
<1>8. ReadsHold(jobs[p])'
  BY <1>1, <1>2, <1>3, <1>5, <1>7 DEF ReadsHold, OfAuth, Sane, Proper
<1>9. Mending(jobs[p], p \in dirty)'
  BY <1>1, <1>2, <1>3, <1>5, <1>7 DEF Mending, AllShown, Relabels
<1>10. \A q \in Jobs : q # p => Idle(q)'
  BY <1>2, <1>3 DEF Idle
<1>11. ~Idle(p)'
  BY <1>3, <1>5 DEF Idle
<1>. QED  BY <1>1, <1>2, <1>3, <1>4, <1>6, <1>8, <1>9, <1>10, <1>11
          DEF PInv, JobFine, Quiet

LEMMA StartKeepsPins ==
  ASSUME PInv, NEW p \in Jobs, Start(p)
  PROVE  PInv'
<1>. NoLabel \in Labels \cup {NoLabel} /\ MayBegin(p)
  BY DEF Start
<1>1. ASSUME NEW a \in Auths, NEW l, NEW k, Connect(p, a, l, k) PROVE PInv'
  <2>. DEFINE todo == <<"write", "recalculate", "invalidate">>
  <2>1. Begin(p, [Job(p, "connect", todo, a) EXCEPT !.label = l, !.key = k])
    BY <1>1 DEF Connect
  <2>2. Planned("connect", todo) /\ Head(todo) = "write"
    BY ShortPlans
  <2>. HIDE DEF todo
  <2>3. Begin(p, Begun("connect", todo, a, l, NoLabel, k, None))
    <3>. DEFINE named == [Job(p, "connect", todo, a) EXCEPT !.label = l]
    <3>1. Begin(p, [named EXCEPT !.key = k])
      BY <2>1
    <3>2. named = Begun("connect", todo, a, l, NoLabel, None, None)
      BY LabelBegun
    <3>. HIDE DEF named
    <3>3. [named EXCEPT !.key = k] = Begun("connect", todo, a, l, NoLabel, k, None)
      BY <3>2 DEF Begun
    <3>. QED  BY <3>1, <3>3
  <2>. QED  BY <2>2, <2>3, BeginKeepsPins DEF Relabelling
<1>2. ASSUME NEW a \in Auths, NEW l \in Labels, NEW n \in Labels, Rename(p, a, l, n)
      PROVE  PInv'
  <2>. DEFINE todo == <<"write", "tier", "specificity", "header", "invalidate">>
  <2>1. Begin(p, [Job(p, "rename", todo, a) EXCEPT !.label = l, !.to = n])
    BY <1>2, TablesInPlans DEF Rename
  <2>2. Planned("rename", todo) /\ Head(todo) = "write"
    BY LongPlans
  <2>. HIDE DEF todo
  <2>3. Begin(p, Begun("rename", todo, a, l, n, None, None))
    <3>. DEFINE named == [Job(p, "rename", todo, a) EXCEPT !.label = l]
    <3>1. Begin(p, [named EXCEPT !.to = n])
      BY <2>1
    <3>2. named = Begun("rename", todo, a, l, NoLabel, None, None)
      BY LabelBegun
    <3>. HIDE DEF named
    <3>3. [named EXCEPT !.to = n] = Begun("rename", todo, a, l, n, None, None)
      BY <3>2 DEF Begun
    <3>. QED  BY <3>1, <3>3
  <2>. QED  BY <2>2, <2>3, BeginKeepsPins DEF Relabelling
<1>3. ASSUME NEW a \in Auths, Reorder(p, a) PROVE PInv'
  <2>. DEFINE todo == <<"write", "invalidate">>
  <2>1. Begin(p, Job(p, "reorder", todo, a))
    BY <1>3 DEF Reorder
  <2>2. Planned("reorder", todo) /\ Head(todo) = "write"
    BY ShortPlans
  <2>. HIDE DEF todo
  <2>3. Begin(p, Begun("reorder", todo, a, NoLabel, NoLabel, None, None))
    BY <2>1, JobBegun
  <2>. QED  BY <2>2, <2>3, BeginKeepsPins DEF Relabelling
<1>4. ASSUME NEW a, Remove(p, a) PROVE PInv'
  <2>. DEFINE todo == <<"write", "others">>
  <2>1. Begin(p, Job(p, "remove", todo, a))
    BY <1>4 DEF Remove
  <2>2. Planned("remove", todo) /\ Head(todo) = "write"
    BY ShortPlans
  <2>. HIDE DEF todo
  <2>3. Begin(p, Begun("remove", todo, a, NoLabel, NoLabel, None, None))
    BY <2>1, JobBegun
  <2>. QED  BY <2>2, <2>3, BeginKeepsPins DEF Relabelling
<1>5. ASSUME NEW a, NEW l \in Labels, RemoveKey(p, a, l) PROVE PInv'
  <2>1. PICK target \in Named(OfAuth(a), l) :
          \/ Begin(p, [Job(p, "removeKey", <<"write">> \o Tables
                              \o <<"renumber", "number", "invalidate">>,
                         target.auth)
                       EXCEPT !.label = l])
          \/ Begin(p, Job(p, "remove", <<"find", "write", "others">>, target.auth))
    BY <1>5 DEF RemoveKey
  <2>2. ASSUME alone PROVE target.auth \in Auths
    BY <2>1, <2>2 DEF Named, OfAuth, PInv, Sane, Proper
  <2>3. CASE Begin(p, Job(p, "remove", <<"find", "write", "others">>, target.auth))
    <3>. DEFINE todo == <<"find", "write", "others">>
    <3>1. Begin(p, Job(p, "remove", todo, target.auth))
      BY <2>3
    <3>2. Planned("remove", todo) /\ Head(todo) = "find"
      BY ShortPlans
    <3>. HIDE DEF todo
    <3>3. Begin(p, Begun("remove", todo, target.auth, NoLabel, NoLabel, None, None))
      BY <3>1, JobBegun
    <3>. QED  BY <3>2, <3>3, BeginKeepsPins DEF Relabelling
  <2>4. CASE Begin(p, [Job(p, "removeKey", <<"write">> \o Tables
                              \o <<"renumber", "number", "invalidate">>,
                         target.auth)
                       EXCEPT !.label = l])
    <3>. DEFINE todo == <<"write", "tier", "specificity", "header", "renumber",
                          "number", "invalidate">>
    <3>1. Begin(p, [Job(p, "removeKey", todo, target.auth) EXCEPT !.label = l])
      BY <2>4, TablesInPlans
    <3>2. Planned("removeKey", todo) /\ Head(todo) = "write"
      BY LongPlans
    <3>. HIDE DEF todo
    <3>3. Begin(p, Begun("removeKey", todo, target.auth, l, NoLabel, None, None))
      BY <3>1, LabelBegun
    <3>4. CASE alone
      BY <2>2, <3>2, <3>3, <3>4, BeginKeepsPins DEF Relabelling
    <3>5. CASE ~alone
      BY <3>3, <3>5 DEF PInv, Begin
    <3>. QED  BY <3>4, <3>5
  <2>. QED  BY <2>1, <2>3, <2>4
<1>6. ASSUME DeactivateAll(p) PROVE PInv'
  <2>. DEFINE todo == <<"write", "tier", "header", "recalculate", "invalidate">>
  <2>1. Begin(p, Job(p, "deactivate", todo, AnyAuth))
    BY <1>6 DEF DeactivateAll
  <2>2. Planned("deactivate", todo) /\ Head(todo) = "write"
    BY LongPlans
  <2>. HIDE DEF todo
  <2>3. Begin(p, Begun("deactivate", todo, AnyAuth, NoLabel, NoLabel, None, None))
    BY <2>1, JobBegun
  <2>. QED  BY <2>2, <2>3, BeginKeepsPins DEF Relabelling
<1>7. ASSUME NEW t \in TableNames, NEW r \in Routes, PinTo(p, t, r) PROVE PInv'
  <2>. DEFINE todo == <<t, "invalidate">>
  <2>1. Begin(p, [Job(p, "pin", todo, r.auth) EXCEPT !.route = r]) /\ Shown(r)
    BY <1>7 DEF PinTo
  <2>2. Planned("pin", todo) /\ Head(todo) \in TableNames
    BY RouteEditPlans
  <2>. HIDE DEF todo
  <2>3. Begin(p, Begun("pin", todo, r.auth, NoLabel, NoLabel, None, r))
    BY <2>1, RouteBegun
  <2>. QED  BY <2>1, <2>2, <2>3, BeginKeepsPins DEF Relabelling, TableNames
<1>8. ASSUME NEW t \in TableNames, Unpin(p, t) \/ ResetAll(p, t) PROVE PInv'
  <2>. DEFINE todo == <<t, "invalidate">>
  <2>1. PICK op \in {"unpin", "reset"} :
          Begin(p, Job(p, op, todo, AnyAuth))
    BY <1>8 DEF Unpin, ResetAll
  <2>2. Planned(op, todo) /\ Head(todo) \in TableNames
    BY RouteEditPlans
  <2>. HIDE DEF todo
  <2>3. Begin(p, Begun(op, todo, AnyAuth, NoLabel, NoLabel, None, None))
    BY <2>1, JobBegun
  <2>. QED  BY <2>2, <2>3, BeginKeepsPins DEF Relabelling, TableNames
<1>9. ASSUME NEW r \in Routes,
             PinTier(p, r) \/ PinSpecificity(p, r) \/ PinHeader(p, r)
               \/ \E t \in Range(Tables) : PinFallback(p, t, r)
      PROVE  PInv'
  <2>1. \E t \in TableNames : PinTo(p, t, r)
    BY <1>9, TableRange DEF PinTier, PinSpecificity, PinHeader, PinFallback, TableNames
  <2>. QED  BY <1>7, <2>1
<1>10. ASSUME NEW t \in Range(Tables) \cup {"tier", "specificity"},
              Unpin(p, t) \/ ResetAll(p, t)
       PROVE  PInv'
  BY <1>8, <1>10, TableRange DEF TableNames
<1>. QED  BY <1>1, <1>2, <1>3, <1>4, <1>5, <1>6, <1>9, <1>10 DEF Start

LEMMA ProceedKeepsPins ==
  ASSUME PInv, NEW p \in Jobs, Proceed(p)
  PROVE  PInv'
<1>1. ASSUME NEW t \in Range(Tables), Clear(p, t) \/ Read(p, t) \/ Write(p, t)
      PROVE  PInv'
  BY <1>1, TableRange, ClearKeepsPins, ReadKeepsPins, WriteKeepsPins
<1>. QED  BY <1>1, ConnectWriteKeepsPins, RenameWriteKeepsPins, ReorderWriteKeepsPins,
             SnapshotKeepsPins, RemoveWriteKeepsPins, RemoveOthersKeepsPins,
             RemoveKeyWriteKeepsPins, RenumberKeepsPins, DeactivateWriteKeepsPins,
             ReadKeepsPins, RecalculateKeepsPins, InvalidateKeepsPins
          DEF Proceed

\* A reader, an expiry and a stuttering step change no key, route or mutation.
LEMMA ReaderKeepsPins ==
  ASSUME PInv, UNCHANGED <<rows, routes, jobs, dirty, started, alone>>
  PROVE  PInv'
<1>1. \A r : Shown(r)' = Shown(r)
  BY DEF Shown, Active
<1>2. (alone' = alone) /\ (Sane' = Sane) /\ (AllShown' = AllShown) /\ (Quiet' = Quiet)
  BY <1>1 DEF Sane, AllShown, Quiet, Idle, Proper
<1>3. ASSUME NEW p \in Jobs, JobFine(p) PROVE JobFine(p)'
  BY <1>1, <1>2, <1>3 DEF JobFine, IsJob, ReadsHold, Mending, OfAuth, Active
<1>. QED  BY <1>2, <1>3 DEF PInv, Idle

\* As long as each mutation has run alone and to its end, every route names an
\* auth type that is connected and a key that exists, whatever was connected,
\* renamed, reordered, removed, chosen and cleared, and in whichever order.
THEOREM RoutesFollowKeys == Spec => []PinsResolve
<1>1. Init => PInv
  <2>. SUFFICES ASSUME Init PROVE PInv
    OBVIOUS
  <2>1. /\ rows = {} /\ routes = [t \in TableNames |-> {}] /\ dirty = {} /\ started = 0
        /\ \A p \in Jobs : Idle(p)
        /\ DOMAIN jobs = Jobs
    BY TableRange DEF Init, Idle, NoJob
  <2>2. Sane /\ AllShown
    BY <2>1 DEF Sane, Proper, AllShown
  <2>. QED  BY <2>1, <2>2 DEF PInv
<1>2. PInv /\ [Next]_vars => PInv'
  <2>. SUFFICES ASSUME PInv, [Next]_vars PROVE PInv'
    OBVIOUS
  <2>1. ASSUME NEW p \in Jobs, Start(p) \/ Proceed(p) \/ Fail(p) PROVE PInv'
    BY <2>1, StartKeepsPins, ProceedKeepsPins, GiveUpKeepsPins DEF Fail
  <2>2. ASSUME NEW a \in Auths, Fetch(a) \/ Fill(a) \/ Expire(a) PROVE PInv'
    <3>1. UNCHANGED <<rows, routes, jobs, dirty, started, alone>>
      BY <2>2 DEF Fetch, Fill, Expire
    <3>. QED  BY <3>1, ReaderKeepsPins
  <2>3. CASE UNCHANGED vars
    <3>1. UNCHANGED <<rows, routes, jobs, dirty, started, alone>>
      BY <2>3 DEF vars
    <3>. QED  BY <3>1, ReaderKeepsPins
  <2>. QED  BY <2>1, <2>2, <2>3 DEF Next
<1>3. PInv => PinsResolve
  BY TableRange DEF PInv, PinsResolve, AllShown, Shown
<1>. QED  BY <1>1, <1>2, <1>3, PTL DEF Spec
===============================================================================
