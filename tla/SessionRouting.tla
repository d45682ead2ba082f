---------------------------- MODULE SessionRouting ----------------------------
(***************************************************************************)
(* How a request is routed, and what the session it belongs to has to do   *)
(* with that: ProxyService.resolveRouting, ResolveService, the end of      *)
(* detectSpecificity and of scoreRequest, SessionMomentumService.          *)
(*                                                                         *)
(* A message stands for what the scanners find in a request: its raw score *)
(* and the weight momentum has at its length, in hundredths, the signal of *)
(* each category, in hundredths, and the flags the shortcuts look at; it   *)
(* is mute if no text of the user's is found in the request.  The routing  *)
(* is what reads, through their caches, return; a read and the next are    *)
(* apart, and the user may change a row in between.                        *)
(*                                                                         *)
(* A session is a value of the header x-session-key: all requests without  *)
(* one, whoever sends them, are of the session "default".  A request with   *)
(* nothing to score is one of raw score and weight 0.                      *)
(***************************************************************************)
EXTENDS Integers, Sequences, FiniteSets, SequencesExt

CONSTANTS Messages,       \* see above; the fields are those of MCSessionRouting
          CategoryOrder,  \* SPECIFICITY_CATEGORIES
          Threshold,      \* ACTIVATION_THRESHOLDS, in hundredths
          Streamable,     \* models of providers that can stream
          Rows,           \* what the user may store for a tier or a category
          Routings,       \* the routings to begin with
          Slots,          \* requests being forwarded
          None,
          MAX_ENTRIES,    \* of SessionMomentumService
          TTL,            \* of SessionMomentumService
          MaxWait,        \* bound: ticks that a forwarded request takes
          MaxChanges      \* bound: changes to the routing

ASSUME SessionAssumption ==
  /\ MAX_ENTRIES \in Nat \ {0}
  /\ {TTL, MaxWait, MaxChanges} \subseteq Nat
  /\ CategoryOrder \in Seq(ToSet(CategoryOrder)) /\ None \notin ToSet(CategoryOrder)
  /\ Threshold \in [ToSet(CategoryOrder) -> Nat]
  /\ \A m \in Messages :
       /\ DOMAIN m = {"name", "raw", "weight", "signal", "asked", "header", "heartbeat", "mute",
                      "formal", "brief", "technical", "plain", "tools", "large"}
       /\ m.raw \in Int /\ m.weight \in 0..60
       /\ m.signal \in [ToSet(CategoryOrder) -> Nat]
       /\ m.name # None /\ \A n \in Messages : n.name = m.name => n = m
  /\ \A r \in Routings :
       /\ DOMAIN r = {"header", "complexity", "specific", "tier", "available", "flags"}
       /\ None \notin r.available
       /\ r.flags \in [ToSet(CategoryOrder) -> Nat]

Order == [simple |-> 0, standard |-> 1, complex |-> 2, reasoning |-> 3]
Tiers == DOMAIN Order
TierSlots == Tiers \cup {"default"}
Categories == ToSet(CategoryOrder)
TIER_SCORES == [simple |-> -20, standard |-> 0, complex |-> 20, reasoning |-> 40]
STICKY_AGREEMENT_MIN == 3
STICKY_BIAS == 200
PENALTY_PER_FLAG == 75
PENALTY_CAP == 300

VARIABLES routing,     \* [header, complexity, specific, tier, available, flags]
          session,     \* the entry of SessionMomentumService, or None
          resolving,   \* the request whose route is being looked for, or None
          forwarding,  \* requests that have one, by slot
          changes

routingVars == <<routing, session, resolving, forwarding, changes>>
-------------------------------------------------------------------------------
(* scoreRequest *)

MaxTier(a, b) == IF Order[a] >= Order[b] THEN a ELSE b

\* The tier of the score n / d.
ScoreToTier(n, d) ==
  CASE n < -10 * d -> "simple"
    [] n >= -10 * d /\ n < 8 * d -> "standard"
    [] n >= 8 * d /\ n < 35 * d -> "complex"
    [] OTHER -> "reasoning"

Floored(m, tier) ==
  LET withTools == IF m.tools THEN MaxTier(tier, "standard") ELSE tier
  IN  IF m.large THEN MaxTier(withTools, "complex") ELSE withTools

Times(tier, recent) == Cardinality({i \in DOMAIN recent : recent[i] = tier})

\* The sum of the last tiers' scores; that of "standard" is 0.
History(recent) ==
  TIER_SCORES.simple * Times("simple", recent) + TIER_SCORES.complex * Times("complex", recent)
    + TIER_SCORES.reasoning * Times("reasoning", recent)

\* Mutant: the last tiers' scores are summed, not averaged.
SummedHistory(m, recent) ==
  ((100 - m.weight) * m.raw + m.weight * History(recent)) * Len(recent)

\* applyMomentum: the effective score, times 100 * Len(recent).
Blended(m, recent) ==
  (100 - m.weight) * m.raw * Len(recent) + m.weight * History(recent)

Shortcut(m, recent) == m.brief /\ ~m.technical /\ (recent = <<>> \/ m.plain)

\* A short message that opens a session, and would be scored at any other place in it.
Opening(m, recent) == ~m.formal /\ ~m.plain /\ Shortcut(m, recent)

\* (A tier for want of confidence there is none: the sigmoid of a distance is at
\* least a half, and confidenceThreshold lies below that.)
ScoredTier(m, recent) ==
  CASE m.formal -> "reasoning"
    [] ~m.formal /\ Shortcut(m, recent) -> "simple"
    [] OTHER -> Floored(m, IF recent = <<>> THEN ScoreToTier(m.raw, 1)
                           ELSE ScoreToTier(Blended(m, recent), 100 * Len(recent)))
-------------------------------------------------------------------------------
(* detectSpecificity *)

Bias(c, categories) ==
  IF /\ Len(categories) >= STICKY_AGREEMENT_MIN
     /\ \A i \in 1..STICKY_AGREEMENT_MIN : categories[i] = c
  THEN STICKY_BIAS ELSE 0

Less(a, b) == IF a > b THEN a - b ELSE 0
Penalty(n) == IF n * PENALTY_PER_FLAG > PENALTY_CAP THEN PENALTY_CAP ELSE n * PENALTY_PER_FLAG

\* Mutant: the penalty is taken off before the bias is put on.
PenalizedFirst(m, c, categories, flags) ==
  Less(m.signal[c], Penalty(flags[c])) + Bias(c, categories)

Strength(m, c, categories, flags) ==
  Less(m.signal[c] + Bias(c, categories), Penalty(flags[c]))

Rank(c) == CHOOSE i \in DOMAIN CategoryOrder : CategoryOrder[i] = c

\* The strongest of the categories over their threshold, the first of equals;
\* unless the header names it, not if it is hardly over it (a confidence below
\* MIN_SPECIFICITY_CONFIDENCE).  A header that names none stills the doubt, too.
\* Where the user has said nothing, scanMessages looks at neither.
Detected(m, categories, flags) ==
  LET S == [c \in Categories |-> Strength(m, c, categories, flags)]
      over == {c \in Categories : S[c] >= Threshold[c]}
      best == CHOOSE c \in over : \A d \in over :
                S[c] > S[d] \/ (S[c] = S[d] /\ Rank(c) <= Rank(d))
  IN  CASE m.mute -> None
        [] ~m.mute /\ m.asked \in Categories -> m.asked
        [] ~m.mute /\ m.asked \notin Categories /\ over = {} -> None
        [] OTHER -> IF m.asked # None \/ 10 * S[best] >= 12 * Threshold[best]
                      THEN best ELSE None
-------------------------------------------------------------------------------
(* The route *)

\* effectiveRoutesForResponseMode: the primary route.
Effective(row, primary) ==
  LET routes == (IF primary = None THEN <<>> ELSE <<primary>>) \o row.fallbacks
      streaming == SelectSeq(routes, LAMBDA r : r \in Streamable)
  IN  CASE ~row.stream -> primary
        [] row.stream /\ streaming = <<>> -> None
        [] OTHER -> streaming[1]

Choice(tier, category, row, primary) ==
  [tier |-> tier, category |-> category, model |-> Effective(row, primary)]

\* What a routing prescribes, said at once: the first of a heartbeat, the header's
\* tier, the agent's switch, the category and the score that has a model to offer.
Prescribed(r, m, recent, categories) ==
  LET Offer(row) == IF row.override \in r.available THEN row.override ELSE row.auto
      Sound(row) == row # None /\ IF row.override = None THEN row.auto # None
                                  ELSE row.override \in r.available
      headed == m.header /\ r.header # None /\ r.header.override \in r.available
      c == Detected(m, categories, r.flags)
      slot == CASE m.heartbeat -> "simple"
                [] ~m.heartbeat /\ ~r.complexity -> "default"
                [] OTHER -> ScoredTier(m, recent)
  IN  CASE ~m.heartbeat /\ headed -> Choice("standard", None, r.header, r.header.override)
        [] /\ ~m.heartbeat /\ ~headed
           /\ r.complexity /\ c # None /\ Sound(IF c = None THEN None ELSE r.specific[c]) ->
             Choice("standard", c, r.specific[c], Offer(r.specific[c]))
        [] OTHER -> Choice(slot, None, r.tier[slot], Offer(r.tier[slot]))
-------------------------------------------------------------------------------
RoutingInit ==
  /\ routing \in Routings
  /\ session = None
  /\ resolving = None
  /\ forwarding = [q \in Slots |-> None]
  /\ changes = 0

NobodyAlike == [by |-> None, n |-> 0]

At(step) == resolving # None /\ resolving.step = step
Go(step) == resolving' = [resolving EXCEPT !.step = step]

\* readFresh: an entry that is too old is deleted.  (Mutant: the age is not looked at.)
KeptStale == session

Fresh == IF session # None /\ session.age > TTL THEN None ELSE session

\* resolveRouting reads what the session remembers and asks for a route.  (Bound:
\* one request does so at a time, for all that they share is read only.)
Read(m) ==
  /\ resolving = None
  /\ \E q \in Slots : forwarding[q] = None
  /\ session' = Fresh
  /\ LET recent == IF Fresh = None THEN <<>> ELSE Fresh.tiers
         categories == IF Fresh = None THEN <<>> ELSE Fresh.categories
     IN  resolving' =
           [step |-> IF m.heartbeat THEN "tiers" ELSE "header", msg |-> m,
            tiers |-> recent, categories |-> categories,
            alike |-> IF Fresh = None THEN NobodyAlike ELSE Fresh.alike,
            tier |-> IF m.heartbeat THEN "simple" ELSE None,
            category |-> None, row |-> None, model |-> None, scored |-> FALSE,
            flags |-> 0, grew |-> FALSE, meanwhile |-> 0,
            prescribed |-> {Prescribed(routing, m, recent, categories)}]
  /\ UNCHANGED <<routing, forwarding, changes>>

Decide(tier, category, row, primary) ==
  resolving' = [resolving EXCEPT !.step = "decided", !.tier = tier,
                  !.category = category, !.row = None, !.model = Effective(row, primary)]

Score ==
  resolving' = [resolving EXCEPT !.step = "tiers", !.scored = TRUE, !.category = None,
                  !.row = None, !.tier = ScoredTier(resolving.msg, resolving.tiers)]

Unread == UNCHANGED <<routing, session, forwarding, changes>>

ReadHeader ==
  /\ At("header")
  /\ LET row == routing.header IN
     IF resolving.msg.header /\ row # None /\ row.override # None
       THEN resolving' = [resolving EXCEPT !.step = "header model", !.row = row]
       ELSE Go("agent")
  /\ Unread

CheckHeader ==
  /\ At("header model")
  /\ LET row == resolving.row IN
     IF row.override \in routing.available
       THEN Decide("standard", None, row, row.override)
       ELSE Go("agent")
  /\ Unread

ReadAgent ==
  /\ At("agent")
  /\ IF routing.complexity
       THEN Go("categories")
       ELSE resolving' = [resolving EXCEPT !.step = "tiers", !.tier = "default"]
  /\ Unread

ReadCategories ==
  /\ At("categories")
  /\ IF \A c \in Categories : routing.specific[c] = None
       THEN Score
       ELSE resolving' = [resolving EXCEPT !.step = "flags", !.row = routing.specific]
  /\ Unread

ReadFlags ==
  LET c == Detected(resolving.msg, resolving.categories, routing.flags)
      row == IF c = None THEN None ELSE resolving.row[c]
  IN
  /\ At("flags")
  /\ CASE row = None -> Score
       [] row # None /\ row.override # None ->
            resolving' = [resolving EXCEPT !.step = "category model", !.row = row,
                            !.category = c, !.flags = routing.flags[c]]
       [] row # None /\ row.override = None /\ row.auto = None -> Score
       [] OTHER ->
            resolving' = [resolving EXCEPT !.step = "decided", !.tier = "standard",
                            !.category = c, !.flags = routing.flags[c], !.row = None,
                            !.model = Effective(row, row.auto)]
  /\ Unread

\* Mutant: the row is read again once its model has been checked.
ChecksThenReads ==
  /\ At("category model")
  /\ LET row == routing.specific[resolving.category]
         now == IF row = None THEN resolving.row ELSE row
     IN  IF resolving.row.override \in routing.available
           THEN Decide("standard", resolving.category, now, now.override)
           ELSE Score
  /\ Unread

CheckCategory ==
  /\ At("category model")
  /\ LET row == resolving.row IN
     IF row.override \in routing.available
       THEN Decide("standard", resolving.category, row, row.override)
       ELSE Score
  /\ Unread

\* getTiers: there is a row for every slot.
ReadTiers ==
  /\ At("tiers")
  /\ LET row == routing.tier[resolving.tier] IN
     IF row.override = None
       THEN Decide(resolving.tier, None, row, row.auto)
       ELSE resolving' = [resolving EXCEPT !.step = "tier model", !.row = row]
  /\ Unread

CheckTier ==
  /\ At("tier model")
  /\ LET row == resolving.row IN
     Decide(resolving.tier, None, row,
            IF row.override \in routing.available THEN row.override ELSE row.auto)
  /\ Unread
-------------------------------------------------------------------------------
\* The request goes to the model, or ends here for want of one or of its key.
\* (Bound: after a change it ends here.)
Forward ==
  /\ At("decided")
  /\ resolving' = None
  /\ \/ UNCHANGED forwarding
     \/ \E q \in Slots :
          /\ changes = 0 /\ resolving.model # None /\ forwarding[q] = None
          /\ forwarding' = [forwarding EXCEPT ![q] =
               [tier |-> resolving.tier, category |-> resolving.category, age |-> 0,
                by |-> IF /\ resolving.scored /\ resolving.category = None
                          /\ ~Opening(resolving.msg, resolving.tiers)
                         THEN resolving.msg.name ELSE None]]
  /\ UNCHANGED <<routing, session, changes>>

Newest(list, x) ==
  SubSeq(<<x>> \o list, 1, IF Len(list) < MAX_ENTRIES THEN Len(list) + 1 ELSE MAX_ENTRIES)

\* recordTier and recordCategory.
Remember(x) ==
  LET entry == IF session = None
                 THEN [tiers |-> <<>>, categories |-> <<>>, age |-> 0, torn |-> FALSE,
                       alike |-> NobodyAlike]
                 ELSE session
      torn == session # None /\ session.age > TTL + x.age
      again == x.by = entry.alike.by
      more == IF entry.alike.n < MAX_ENTRIES THEN entry.alike.n + 1 ELSE MAX_ENTRIES
  IN  session' = [tiers |-> Newest(entry.tiers, x.tier),
                  categories |-> IF x.category = None THEN entry.categories
                                 ELSE Newest(entry.categories, x.category),
                  age |-> 0, torn |-> entry.torn \/ torn,
                  alike |-> CASE x.by = None -> NobodyAlike
                              [] OTHER -> [by |-> x.by, n |-> IF again THEN more ELSE 1]]

\* The model, or the last of the fallbacks, has answered, well or badly; what is
\* thrown instead is not remembered, and the default tier never is.
Answered(q) ==
  /\ forwarding[q] # None
  /\ forwarding' = [forwarding EXCEPT ![q] = None]
  /\ \/ forwarding[q].tier \in Tiers /\ Remember(forwarding[q])
     \/ UNCHANGED session
  /\ UNCHANGED <<routing, resolving, changes>>

EvictStale ==
  /\ session # None /\ session.age > TTL
  /\ session' = None
  /\ UNCHANGED <<routing, resolving, forwarding, changes>>

\* Time passes.  (Bounds: MaxWait, far less than TTL in the code; a route is found
\* within the tick it is asked for in; ages count as far as they matter.)
Older(age) == IF age > TTL + MaxWait THEN age ELSE age + 1

Tick ==
  /\ resolving = None
  /\ session # None
  /\ \A q \in Slots : forwarding[q] # None => forwarding[q].age < MaxWait
  /\ session' = [session EXCEPT !.age = Older(@)]
  /\ forwarding' = [q \in Slots |-> IF forwarding[q] = None THEN None
                                    ELSE [forwarding[q] EXCEPT !.age = @ + 1]]
  /\ UNCHANGED <<routing, resolving, changes>>
-------------------------------------------------------------------------------
\* The user changes a row, loses or gains a model, or flags a message as wrongly
\* categorised, or takes the flag back.  (Bounds: MaxChanges; rows and models only before the session
\* remembers anything, for its memory never looks at them.)
Change(r, grew) ==
  /\ changes < MaxChanges
  /\ routing' = r
  /\ changes' = changes + 1
  /\ resolving' = IF resolving = None \/ At("decided") THEN resolving
       ELSE [resolving EXCEPT !.grew = @ \/ grew, !.meanwhile = @ + 1,
               !.prescribed = @ \cup {Prescribed(r, resolving.msg, resolving.tiers,
                                                 resolving.categories)}]
  /\ UNCHANGED <<session, forwarding>>

StoreHeader(row) == session = None /\ Change([routing EXCEPT !.header = row], FALSE)
StoreCategory(c, row) == session = None /\ Change([routing EXCEPT !.specific[c] = row], FALSE)
StoreTier(slot, row) == session = None /\ Change([routing EXCEPT !.tier[slot] = row], FALSE)
Switch == session = None /\ Change([routing EXCEPT !.complexity = ~@], FALSE)
Lose(model) ==
  session = None /\ model \in routing.available
  /\ Change([routing EXCEPT !.available = @ \ {model}], FALSE)
Gain(model) ==
  session = None /\ model \notin routing.available
  /\ Change([routing EXCEPT !.available = @ \cup {model}], TRUE)
Flag(c) == Change([routing EXCEPT !.flags[c] = @ + 1], FALSE)
Unflag(c) ==
  routing.flags[c] > 0 /\ Change([routing EXCEPT !.flags[c] = @ - 1], FALSE)

RoutingNext ==
  \/ \E m \in Messages : Read(m)
  \/ ReadHeader \/ CheckHeader \/ ReadAgent
  \/ ReadCategories \/ ReadFlags \/ CheckCategory
  \/ ReadTiers \/ CheckTier
  \/ Forward
  \/ \E q \in Slots : Answered(q)
  \/ EvictStale
  \/ Tick
  \/ \E row \in Rows :
       \/ StoreHeader(row)
       \/ \E c \in Categories : StoreCategory(c, row)
       \/ row # None /\ \E slot \in TierSlots : StoreTier(slot, row)
  \/ Switch
  \/ \E model \in UNION {r.available : r \in Routings} : Lose(model) \/ Gain(model)
  \/ \E c \in Categories : Flag(c) \/ Unflag(c)

RoutingSpec == RoutingInit /\ [][RoutingNext]_routingVars
-------------------------------------------------------------------------------
\* Momentum is no ratchet (momentum.ts).  After MAX_ENTRIES answers in a row to
\* the same message, wherever the session was before and whatever overlaps, the
\* message's tier is within one of what its own score says: the mean of the last
\* tiers, fed back into the scores that become the next tiers, does not hold on
\* to what is gone nor drift from what is asked.  (The answers to a short message
\* that opens its session do not count: it is not scored then, and as many of them
\* as overlap make it simple.)
SettlesWithinOne ==
  LET m == resolving.msg
      own == ScoredTier([m EXCEPT !.weight = 0], resolving.tiers)
      apart == Order[resolving.tier] - Order[own]
  IN  At("decided") /\ resolving.scored
        /\ resolving.alike = [by |-> m.name, n |-> MAX_ENTRIES]
      => apart \in -1..1

\* What a session remembers is of one session (readFresh, recordTier): however
\* requests and the cleanup's timer overlap, no answer is added to an entry that
\* had expired before its request asked for a route, which would carry the tiers
\* of a session that is over into the next.
HistoryIsOneSession == session # None => ~session.torn

\* After enough flags a category "requires an unambiguous anchor on the current
\* turn to fire again" (specificity-penalty.service.ts): three flags outweigh the
\* bias of any history, so what the message itself says reaches the threshold.
FlaggedNeedsAnAnchor ==
  At("decided") /\ resolving.category # None
    /\ resolving.msg.asked # resolving.category /\ resolving.flags >= 3
  => resolving.msg.signal[resolving.category] >= Threshold[resolving.category]

\* The five tables a route is looked up in are read at five moments.  Still, when
\* the user makes one change meanwhile, the route is the one the routing before it
\* or the one after it prescribes, never a mixture of both.  (Not when a model is
\* gained: the tier found wanting is not looked at again.)
DecisionIsOfItsTime ==
  At("decided") /\ ~resolving.grew /\ resolving.meanwhile <= 1
  => [tier |-> resolving.tier, category |-> resolving.category, model |-> resolving.model]
       \in resolving.prescribed
===============================================================================
