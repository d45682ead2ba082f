------------------------- MODULE ProxyRateLimiter -------------------------
(***************************************************************************)
(* Admission control of the proxy: the three limits of ProxyRateLimiter    *)
(* (requests per user and window, requests per client address and window,  *)
(* requests of a user in flight) with the bracket ProxyController puts     *)
(* around a request: check, check, acquire, ..., release in `finally'.     *)
(*                                                                         *)
(* The checks and the acquisition run with no await between them, so the   *)
(* way in is one step per outcome; a rejected request has already been     *)
(* counted by the limits that it passed.                                   *)
(***************************************************************************)
EXTENDS Naturals, Sequences, FiniteSets

CONSTANTS
  Requests,        \* HTTP requests
  Users,           \* userId of the ingestion context
  Addresses,       \* req.ip
  UserOf,          \* [Requests -> Users]
  AddressOf,       \* [Requests -> Addresses]
  Window,          \* RATE_WINDOW_MS, in clock ticks
  UserMax,         \* RATE_MAX_REQUESTS
  AddressMax,      \* IP_RATE_MAX_REQUESTS
  MaxEntries,      \* MAX_RATE_ENTRIES
  ConcurrencyMax,  \* CONCURRENCY_MAX
  MaxTime          \* bound on the clock

ASSUME LimiterAssumption ==
  /\ IsFiniteSet(Requests)
  /\ UserOf \in [Requests -> Users]
  /\ AddressOf \in [Requests -> Addresses]
  /\ {Window, UserMax, AddressMax, MaxEntries, ConcurrencyMax} \subseteq Nat \ {0}
  /\ MaxTime \in Nat

VARIABLES
  now,          \* Date.now()
  rates,        \* the Map of users: count, windowStart, and the turn it was put in
  ipRates,      \* the Map of addresses
  concurrency,  \* requests in flight per user; 0 stands for no entry
  stage,        \* where each request is
  hits,         \* ghost: per user, the times at which checkLimit counted
  forgotten     \* ghost: the users dropped by an overflow while their window was open

limiterVars == <<now, rates, ipRates, concurrency, stage, hits, forgotten>>

LimiterInit ==
  /\ now = 0
  /\ rates = <<>>
  /\ ipRates = <<>>
  /\ concurrency = [u \in Users |-> 0]
  /\ stage = [r \in Requests |-> "new"]
  /\ hits = [u \in Users |-> <<>>]
  /\ forgotten = {}

---------------------------------------------------------------------------
(* The two Maps *)

\* The place a key gets when it is put into a Map: behind all that are there.
Turn == Cardinality({r \in Requests : stage[r] # "new"})

Expired(entry) == now - entry.windowStart >= Window

\* The keys of open windows.
Remembered(map) == {k \in DOMAIN map : ~Expired(map[k])}

\* The entry a check works on: the stored one, or a new one when there is
\* none or its window is over.
EntryFor(map, k) ==
  IF k \in Remembered(map) THEN map[k]
  ELSE [count |-> 0, windowStart |-> now, turn |-> Turn]

\* Mutant: one request too many.
UnderLimitOffByOne(map, k, max) == EntryFor(map, k).count <= max

UnderLimit(map, k, max) == EntryFor(map, k).count < max

\* The keys that stand behind a key.
Behind(map, k) == {j \in DOMAIN map : map[j].turn > map[k].turn}

\* What exceeds the capacity is dropped from the head.
EvictLru(map) ==
  [k \in {j \in DOMAIN map : Cardinality(Behind(map, j)) < MaxEntries} |-> map[k]]

Put(map, k, entry) ==
  EvictLru([j \in DOMAIN map \union {k} |-> IF j = k THEN entry ELSE map[j]])

\* Mutant: a key that is there keeps its place.
CountInPlace(map, k) ==
  Put(map, k, [count |-> EntryFor(map, k).count + 1,
               windowStart |-> EntryFor(map, k).windowStart,
               turn |-> IF k \in DOMAIN map THEN map[k].turn ELSE Turn])

\* count++, then delete-and-set so that the key moves to the tail.
Count(map, k) ==
  Put(map, k, [EntryFor(map, k) EXCEPT !.count = @ + 1, !.turn = Turn])

---------------------------------------------------------------------------
(* A request *)

SlotFree(u) == concurrency[u] < ConcurrencyMax

CountUser(u) == /\ rates' = Count(rates, u)
                /\ hits' = [hits EXCEPT ![u] = Append(@, now)]
                /\ forgotten' = forgotten \union (Remembered(rates) \ Remembered(rates'))

RejectUser(r) ==
  /\ stage[r] = "new"
  /\ ~UnderLimit(rates, UserOf[r], UserMax)
  /\ stage' = [stage EXCEPT ![r] = "rejected"]
  /\ UNCHANGED <<now, rates, ipRates, concurrency, hits, forgotten>>

RejectAddress(r) ==
  /\ stage[r] = "new"
  /\ UnderLimit(rates, UserOf[r], UserMax)
  /\ ~UnderLimit(ipRates, AddressOf[r], AddressMax)
  /\ CountUser(UserOf[r])
  /\ stage' = [stage EXCEPT ![r] = "rejected"]
  /\ UNCHANGED <<now, ipRates, concurrency>>

PassRates(r) ==
  /\ stage[r] = "new"
  /\ UnderLimit(rates, UserOf[r], UserMax)
  /\ UnderLimit(ipRates, AddressOf[r], AddressMax)
  /\ CountUser(UserOf[r])
  /\ ipRates' = Count(ipRates, AddressOf[r])

RejectSlot(r) ==
  /\ PassRates(r)
  /\ ~SlotFree(UserOf[r])
  /\ stage' = [stage EXCEPT ![r] = "rejected"]
  /\ UNCHANGED <<now, concurrency>>

AcquireSlot(r) ==
  /\ PassRates(r)
  /\ SlotFree(UserOf[r])
  /\ concurrency' = [concurrency EXCEPT ![UserOf[r]] = @ + 1]
  /\ stage' = [stage EXCEPT ![r] = "inFlight"]
  /\ UNCHANGED now

\* Mutant: the slot of a finished request is kept.
FinishLeaksSlot(r) ==
  /\ stage[r] = "inFlight"
  /\ stage' = [stage EXCEPT ![r] = "done"]
  /\ UNCHANGED <<now, rates, ipRates, concurrency, hits, forgotten>>

\* The `finally' of the handler, whatever the request came to.
Finish(r) ==
  /\ stage[r] = "inFlight"
  /\ concurrency' = [concurrency EXCEPT ![UserOf[r]] = IF @ <= 1 THEN 0 ELSE @ - 1]
  /\ stage' = [stage EXCEPT ![r] = "done"]
  /\ UNCHANGED <<now, rates, ipRates, hits, forgotten>>

\* The cleanup timer.
EvictExpired ==
  /\ rates' = [k \in Remembered(rates) |-> rates[k]]
  /\ ipRates' = [k \in Remembered(ipRates) |-> ipRates[k]]
  /\ <<rates, ipRates>>' # <<rates, ipRates>>
  /\ UNCHANGED <<now, concurrency, stage, hits, forgotten>>

ClockTick ==
  /\ now < MaxTime
  /\ now' = now + 1
  /\ UNCHANGED <<rates, ipRates, concurrency, stage, hits, forgotten>>

LimiterNext ==
  \/ \E r \in Requests :
       RejectUser(r) \/ RejectAddress(r) \/ RejectSlot(r) \/ AcquireSlot(r) \/ Finish(r)
  \/ EvictExpired
  \/ ClockTick

LimiterSpec == LimiterInit /\ [][LimiterNext]_limiterVars

---------------------------------------------------------------------------
(* Properties *)

InFlight(u) == {r \in Requests : stage[r] = "inFlight" /\ UserOf[r] = u}

\* A user's slot count is the number of that user's requests between
\* acquireSlot and the `finally' of the handler: no path leaks a slot, and no
\* rejected request gives back one that it never took.
SlotsMatchInFlight ==
  \A u \in Users : concurrency[u] = Cardinality(InFlight(u))

HitsSince(u, t) == Cardinality({i \in DOMAIN hits[u] : hits[u][i] >= t})

\* Unless an overflow makes the limiter forget about a user, that user gets
\* fewer than twice the limit through checkLimit in any stretch of one window's
\* length: the limit in the part that belongs to the old window (whose first
\* request opened it before the stretch) and the limit in the new one.
SlidingBound ==
  \A u \in Users \ forgotten : \A t \in 0..now :
    HitsSince(u, t) - HitsSince(u, t + Window) < 2 * UserMax

LastHit(h, u) == h[u][Len(h[u])]

\* A user whose window is still open is forgotten only by an overflow, and
\* then every user kept was counted no earlier than the one dropped
\* (the "LRU touch" of checkLimit).
ForgetsLeastRecent ==
  [][ \A u \in Remembered(rates) \ Remembered(rates') :
        now' = now =>
          /\ Cardinality(DOMAIN rates') = MaxEntries
          /\ \A k \in DOMAIN rates' : LastHit(hits, u) <= LastHit(hits', k) ]_limiterVars
===========================================================================
