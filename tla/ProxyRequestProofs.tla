------------------------- MODULE ProxyRequestProofs -------------------------
(***************************************************************************)
(* What becomes of a request, in three parts that are proved apart: what   *)
(* its handler leaves behind (ProxyRequest), the limits it is held to      *)
(* (ProxyRateLimiter) and the session that decides where it goes           *)
(* (SessionRouting).                                                       *)
(***************************************************************************)
EXTENDS ProxyRequest, ProxyRateLimiter, SessionRouting, FiniteSetTheorems,
        WellFoundedInduction, TLAPS

-------------------------------------------------------------------------------
(* The handler, for any number of fallback routes.                             *)
(*                                                                             *)
(* The properties speak of the end of a request.  Inv says, for each await of  *)
(* the handler, which attempts have been made and which rows exist: none until *)
(* the answer is begun, then those of the attempts that failed before the one  *)
(* that is relayed.                                                            *)

Untouched(n) == \A a \in Attempts : a >= n => outcome[a] = "none"

Tried(n) == \A a \in 1..n : outcome[a] \in Errors \union {"skipped"}

NoRows == \A a \in Subjects : rows[a] = <<>>

\* failedFallbacks lists the fallbacks that failed, each once.
FailuresTrue ==
  /\ \A k \in DOMAIN failures :
       /\ failures[k].attempt \in 1..chain
       /\ outcome[failures[k].attempt] = failures[k].status
  /\ \A j, k \in DOMAIN failures : failures[j].attempt = failures[k].attempt => j = k
  /\ \A a \in Attempts \ {0} : outcome[a] \in Errors <=> a \in FailedFallbacks

\* Up to the credentials nothing was forwarded.
BeforeExchange ==
  pc \in {"entered", "arrived", "limits", "routing", "credentials"} =>
    Untouched(0) /\ failures = <<>>

InExchange ==
  pc = "exchange" =>
    /\ at \in 0..chain
    /\ Untouched(at)
    /\ IF at = 0 THEN failures = <<>> ELSE outcome[0] \in Errors /\ Tried(at - 1)

InPeek ==
  pc = "peek" => at = 0 /\ outcome[0] = "ok" /\ Untouched(1) /\ failures = <<>>

BeforeChain ==
  pc = "chain" => at = 0 /\ outcome[0] \in Errors /\ Untouched(1) /\ failures = <<>>

BeforeRefusal ==
  pc = "refuse" => outcome[0] \in Errors /\ Tried(chain) /\ Untouched(chain + 1)

\* The attempt that is relayed, or none for a canned answer.
Relayed ==
  \/ at = Unattributed /\ Untouched(0) /\ failures = <<>>
  \/ /\ at \in 0..chain
     /\ outcome[at] = "ok"
     /\ Untouched(at + 1)
     /\ IF at = 0 THEN failures = <<>> ELSE outcome[0] \in Errors /\ Tried(at - 1)

BeforeRelay == pc = "relay" => Relayed

InBody ==
  pc = "body" =>
    /\ Relayed
    /\ \A a \in Subjects :
         rows[a] = IF at > 0 /\ (a = 0 \/ a \in FailedFallbacks)
                   THEN <<"fallback_error">> ELSE <<>>

Unanswered ==
  /\ pc \notin {"body", "over"} => NoRows /\ answer.kind = "none"
  /\ pc = "body" => answer.kind \in {"none", "streaming"}

Inv ==
  /\ TypeOK
  /\ FailuresTrue
  /\ BeforeExchange /\ InExchange /\ InPeek /\ BeforeChain /\ BeforeRefusal
  /\ BeforeRelay /\ InBody /\ Unanswered
  /\ OneVerdict /\ RowsNameTheAttempts /\ ExhaustionIsReal /\ SuccessIsDelivered

---------------------------------------------------------------------------
(* A subject with one row *)

LEMMA FirstRow ==
  ASSUME NEW s \in RowStatus
  PROVE  /\ Append(<<>>, s) = <<s>>
         /\ Len(<<s>>) = 1
         /\ <<s>> # <<>>
         /\ DOMAIN <<s>> = {1}
         /\ <<s>>[1] = s
         /\ <<s>> \in Seq(RowStatus)
OBVIOUS

LEMMA SameRow == \A s, t \in RowStatus : <<s>> = <<t>> => s = t
OBVIOUS

LEMMA RowForVerdict == \A s : RowFor(s) \in {"error", "rate_limited"}
  BY DEF RowFor

LEMMA SubjectFacts ==
  /\ Attempts \subseteq Int
  /\ Unattributed \in Subjects /\ Unattributed \notin Attempts
  /\ Attempts \subseteq Subjects
  /\ 0 \in Attempts
  BY RequestAssumption DEF RequestAssumption, Attempts, Subjects, Unattributed

LEMMA InitInv == Init => Inv
<1> SUFFICES ASSUME Init PROVE Inv
  OBVIOUS
<1> USE DEF Init
<1>1. TypeOK
  <2>1. /\ failures \in Seq([attempt : Attempts, status : Errors])
        /\ answer \in [kind : AnswerKinds, status : {"none", "ok"} \union Errors \union Thrown]
    BY DEF AnswerKinds
  <2>2. rows \in [Subjects -> Seq(RowStatus)]
    OBVIOUS
  <2>3. chain \in Attempts /\ at \in Subjects
    BY SubjectFacts
  <2> QED
    BY <2>1, <2>2, <2>3 DEF TypeOK
<1>2. FailuresTrue
  BY DEF FailuresTrue, FailedFallbacks, Errors, Upstream, Synthetic
<1>3. NoRows
  BY DEF NoRows
<1>4. BeforeExchange /\ InExchange /\ InPeek /\ BeforeChain /\ BeforeRefusal
  BY DEF BeforeExchange, InExchange, InPeek, BeforeChain, BeforeRefusal, Untouched
<1>5. BeforeRelay /\ InBody /\ Unanswered
  BY <1>3 DEF BeforeRelay, InBody, Unanswered
<1>6. OneVerdict /\ RowsNameTheAttempts /\ ExhaustionIsReal
  BY DEF OneVerdict, RowsNameTheAttempts, ExhaustionIsReal
<1>7. SuccessIsDelivered
  BY SubjectFacts, FirstRow DEF SuccessIsDelivered, RowStatus, Verdicts
<1> QED
  BY <1>1, <1>2, <1>4, <1>5, <1>6, <1>7 DEF Inv

\* A step before the answer is begun leaves nothing to show of the answer.
LEMMA Quiet ==
  ASSUME Inv, pc \notin {"body", "over"}, pc' \notin {"body", "over"},
         rows' = rows, answer' = answer
  PROVE  /\ InBody' /\ Unanswered'
         /\ OneVerdict' /\ RowsNameTheAttempts' /\ ExhaustionIsReal' /\ SuccessIsDelivered'
<1>1. NoRows /\ answer.kind = "none"
  BY DEF Inv, Unanswered
<1>2. NoRows' /\ answer'.kind = "none"
  BY <1>1 DEF NoRows
<1>3. InBody' /\ Unanswered' /\ OneVerdict' /\ RowsNameTheAttempts' /\ ExhaustionIsReal'
  BY <1>2 DEF InBody, Unanswered, OneVerdict, RowsNameTheAttempts, ExhaustionIsReal
<1>4. SuccessIsDelivered'
  BY <1>2, SubjectFacts, FirstRow DEF NoRows, SuccessIsDelivered, RowStatus, Verdicts
<1> QED
  BY <1>3, <1>4

\* Until the answer is over at most the handled rows exist.
LEMMA HandledOnly ==
  ASSUME Inv, pc # "over"
  PROVE  \A a \in Subjects : AtMostHandled(a)
  BY DEF Inv, Unanswered, NoRows, InBody, AtMostHandled

LEMMA FailedInChain == Inv => FailedFallbacks \subseteq 1..chain
  BY DEF Inv, FailuresTrue, FailedFallbacks

LEMMA OtherFailures ==
  ASSUME Inv, NEW a, a \notin FailedFallbacks
  PROVE  \A k \in DOMAIN failures : failures[k].attempt \in Attempts /\ failures[k].attempt # a
<1> SUFFICES ASSUME NEW k \in DOMAIN failures
             PROVE  failures[k].attempt \in Attempts /\ failures[k].attempt # a
  OBVIOUS
<1>1. failures[k].attempt \in 1..chain /\ chain \in Attempts
  BY DEF Inv, FailuresTrue, TypeOK
<1>2. failures[k].attempt \in Attempts
  BY <1>1, RequestAssumption DEF RequestAssumption, Attempts
<1>3. failures[k].attempt \in FailedFallbacks
  BY DEF FailedFallbacks
<1> QED
  BY <1>2, <1>3

LEMMA NothingUnattributed == Inv /\ pc # "over" => rows[Unattributed] = <<>>
<1> SUFFICES ASSUME Inv, pc # "over" PROVE rows[Unattributed] = <<>>
  OBVIOUS
<1>1. CASE pc = "body"
  <2>1. Unattributed # 0 /\ Unattributed \notin FailedFallbacks
    BY FailedInChain DEF Unattributed
  <2> QED
    BY <1>1, <2>1, SubjectFacts DEF Inv, InBody
<1>2. CASE pc # "body"
  BY <1>2, SubjectFacts DEF Inv, Unanswered, NoRows
<1> QED
  BY <1>1, <1>2

\* Whatever is thrown, wherever: one row, or none when the client is gone.
LEMMA ErrorInv ==
  ASSUME Inv, pc # "over", NEW s \in Thrown, HandleProxyError(s)
  PROVE  Inv'
<1> USE DEF HandleProxyError, Over
<1>1. \A a \in Subjects : AtMostHandled(a)
  BY HandledOnly
<1>2. rows[Unattributed] = <<>>
  BY NothingUnattributed
<1>3. ~aborted => rows' = [rows EXCEPT ![Unattributed] = <<RowFor(s)>>]
  <2>1. RowFor(s) \in RowStatus
    BY RowForVerdict DEF RowStatus, Verdicts
  <2> QED
    BY <1>2, <2>1, FirstRow DEF AddRow
<1>4. rows \in [Subjects -> Seq(RowStatus)]
  BY DEF Inv, TypeOK
<1>5. rows' \in [Subjects -> Seq(RowStatus)]
  <2>1. <<RowFor(s)>> \in Seq(RowStatus)
    BY RowForVerdict DEF RowStatus, Verdicts
  <2> QED
    BY <1>3, <1>4, <2>1
<1>6. answer' \in [kind : AnswerKinds, status : {"none", "ok"} \union Errors \union Thrown]
      /\ answer'.kind \in {"truncated", "dropped", "failed"}
  BY DEF AnswerKinds
<1>7. TypeOK'
  BY <1>5, <1>6 DEF Inv, TypeOK
<1>8. FailuresTrue'
  BY DEF Inv, FailuresTrue, FailedFallbacks
<1>9. /\ BeforeExchange' /\ InExchange' /\ InPeek' /\ BeforeChain' /\ BeforeRefusal'
      /\ BeforeRelay' /\ InBody' /\ Unanswered'
  BY DEF BeforeExchange, InExchange, InPeek, BeforeChain, BeforeRefusal, BeforeRelay,
         InBody, Unanswered
<1>10. RowsNameTheAttempts' /\ ExhaustionIsReal'
  BY <1>6 DEF RowsNameTheAttempts, ExhaustionIsReal
<1>11. OneVerdict'
  <2>1. CASE aborted
    BY <1>1, <2>1 DEF OneVerdict, AtMostHandled
  <2>2. CASE ~aborted
    <3>1. rows'[Unattributed] = <<RowFor(s)>>
      BY <1>3, <1>4, <2>2, SubjectFacts
    <3>2. Len(rows'[Unattributed]) = 1 /\ IsVerdict(Unattributed)'
      BY <3>1, RowForVerdict DEF IsVerdict
    <3>3. \A b \in Subjects \ {Unattributed} : AtMostHandled(b)'
      BY <1>1, <1>3, <1>4, <2>2 DEF AtMostHandled
    <3> QED
      BY <3>2, <3>3, SubjectFacts DEF OneVerdict
  <2> QED
    BY <2>1, <2>2
<1>12. SuccessIsDelivered'
  <2>1. \A a \in Attempts : rows'[a] # <<"ok">>
    <3> SUFFICES ASSUME NEW a \in Attempts PROVE rows'[a] # <<"ok">>
      OBVIOUS
    <3>1. a \in Subjects /\ a # Unattributed
      BY SubjectFacts
    <3>2. rows'[a] = rows[a]
      BY <1>3, <1>4, <3>1
    <3>3. rows[a] = <<>> \/ rows[a] = <<"fallback_error">>
      BY <1>1, <3>1 DEF AtMostHandled
    <3>4. <<"ok">> # <<>> /\ <<"ok">> # <<"fallback_error">>
      BY SameRow, FirstRow DEF RowStatus, Verdicts
    <3> QED
      BY <3>2, <3>3, <3>4
  <2> QED
    BY <2>1, <1>6 DEF SuccessIsDelivered
<1> QED
  BY <1>7, <1>8, <1>9, <1>10, <1>11, <1>12 DEF Inv

PhaseDefs == BeforeExchange /\ InExchange /\ InPeek /\ BeforeChain /\ BeforeRefusal /\ BeforeRelay

\* Up to the first exchange only the place and the routes change.
LEMMA SetupInv ==
  ASSUME Inv, RecordingRead \/ Admit \/ Canned \/ WithinLimits \/ ResolveRouting
              \/ ResolveCredentials
  PROVE  Inv'
<1> USE DEF RecordingRead, Admit, Canned, WithinLimits, ResolveRouting, ResolveCredentials
<1>1. /\ pc \in {"entered", "arrived", "limits", "routing", "credentials"}
      /\ rows' = rows /\ answer' = answer /\ failures' = failures /\ outcome' = outcome
  OBVIOUS
<1>2. failures = <<>> /\ Untouched(0)
  BY <1>1 DEF Inv, BeforeExchange
<1>3. TypeOK'
  <2>1. streaming' \in BOOLEAN /\ chain' \in Attempts /\ at' \in Subjects
        /\ slot' \in BOOLEAN /\ gone' = gone /\ aborted' = aborted /\ momentum' = momentum
    BY SubjectFacts DEF Inv, TypeOK
  <2>2. pc' \in {"arrived", "limits", "routing", "credentials", "exchange", "relay"}
    OBVIOUS
  <2> QED
    BY <1>1, <2>1, <2>2 DEF Inv, TypeOK
<1>4. Untouched(0)' /\ failures' = <<>>
  BY <1>1, <1>2 DEF Untouched
<1>5. FailuresTrue'
  BY <1>4, SubjectFacts DEF FailuresTrue, FailedFallbacks, Untouched, Errors, Upstream, Synthetic, Attempts
<1>6. pc' = "exchange" => at' = 0 /\ chain' = chain
  OBVIOUS
<1>7. pc' = "relay" => at' = Unattributed
  OBVIOUS
<1>8. PhaseDefs'
  <2>1. pc' = "exchange" => 0 \in 0..chain'
    BY <1>6 DEF Inv, TypeOK, Attempts
  <2>2. pc' \in {"arrived", "limits", "routing", "credentials", "exchange", "relay"}
    OBVIOUS
  <2> QED
    BY <1>4, <1>6, <1>7, <2>1, <2>2 DEF PhaseDefs, BeforeExchange, InExchange, InPeek,
       BeforeChain, BeforeRefusal, BeforeRelay, Relayed
<1>9. pc' \notin {"body", "over"}
  OBVIOUS
<1> QED
  BY <1>1, <1>3, <1>5, <1>8, <1>9, Quiet DEF Inv, PhaseDefs

\* The primary is answered, or its stream peeked at.
LEMMA PrimaryInv ==
  ASSUME Inv, at = 0, Accepted \/ PrimaryRefused \/ WarmupSucceeds \/ WarmupFails \/ NoFallbacks
              \/ StartChain
  PROVE  Inv'
<1> USE DEF Accepted, PrimaryRefused, WarmupSucceeds, WarmupFails, NoFallbacks, StartChain, Comes
<1>1. /\ pc \in {"exchange", "peek", "chain"}
      /\ rows' = rows /\ answer' = answer /\ failures' = failures /\ chain' = chain
      /\ UNCHANGED <<streaming, gone, aborted, slot>>
  OBVIOUS
<1>2. failures = <<>> /\ Untouched(1)
  BY <1>1, SubjectFacts DEF Inv, InExchange, InPeek, BeforeChain, Untouched
<1>3. outcome' \in [Attempts -> {"none", "skipped", "ok", "dead"} \union Errors]
  BY SubjectFacts DEF Inv, TypeOK, Errors, Upstream, Synthetic
<1>4. \A a \in Attempts : a # 0 => outcome'[a] = outcome[a]
  BY SubjectFacts DEF Inv, TypeOK
<1>5. Untouched(1)'
  BY <1>2, <1>4, SubjectFacts DEF Untouched
<1>6. TypeOK'
  <2>1. at' \in Subjects /\ momentum' \in Nat
    BY RequestAssumption DEF RequestAssumption, Inv, TypeOK, Subjects, Attempts
  <2>2. pc' \in {"peek", "relay", "chain", "refuse", "exchange"}
    OBVIOUS
  <2> QED
    BY <1>1, <1>3, <2>1, <2>2 DEF Inv, TypeOK
<1>7. FailuresTrue'
  BY <1>1, <1>2, <1>5, SubjectFacts
  DEF FailuresTrue, FailedFallbacks, Untouched, Errors, Upstream, Synthetic, Attempts
<1>8. PhaseDefs'
  <2>0. chain \in Nat
    BY RequestAssumption DEF RequestAssumption, Inv, TypeOK, Attempts
  <2>1. CASE Accepted
    <3>1. outcome'[0] = "ok"
      BY <2>1, SubjectFacts DEF Inv, TypeOK
    <3> QED
      BY <1>1, <1>2, <1>5, <2>0, <2>1, <3>1 DEF PhaseDefs, BeforeExchange, InExchange, InPeek,
         BeforeChain, BeforeRefusal, BeforeRelay, Relayed
  <2>2. CASE PrimaryRefused \/ WarmupFails
    <3>1. outcome'[0] \in Errors
      BY <2>2, SubjectFacts DEF Inv, TypeOK, Errors, Upstream, Synthetic
    <3> QED
      BY <1>1, <1>2, <1>5, <2>2, <3>1 DEF PhaseDefs, BeforeExchange, InExchange, InPeek,
         BeforeChain, BeforeRefusal, BeforeRelay
  <2>3. CASE WarmupSucceeds
    BY <1>1, <1>2, <1>5, <2>0, <2>3 DEF Inv, PhaseDefs, BeforeExchange, InExchange, InPeek,
       BeforeChain, BeforeRefusal, BeforeRelay, Relayed
  <2>4. CASE NoFallbacks
    BY <1>1, <1>2, <1>5, <2>4 DEF Inv, PhaseDefs, BeforeExchange, InExchange, InPeek,
       BeforeChain, BeforeRefusal, BeforeRelay, Tried
  <2>5. CASE StartChain
    BY <1>1, <1>2, <1>5, <2>0, <2>5 DEF Inv, PhaseDefs, BeforeExchange, InExchange, InPeek,
       BeforeChain, BeforeRefusal, BeforeRelay, Tried
  <2> QED
    BY <2>1, <2>2, <2>3, <2>4, <2>5
<1>9. pc' \notin {"body", "over"}
  OBVIOUS
<1> QED
  BY <1>1, <1>6, <1>7, <1>8, <1>9, Quiet DEF Inv, PhaseDefs

\* The bookkeeping of the chain: where it goes on after a fallback.
LEMMA AdvanceInv ==
  ASSUME Inv, pc = "exchange", at > 0, Advance, chain' = chain,
         NEW s \in {"skipped"} \union Errors, outcome' = [outcome EXCEPT ![at] = s]
  PROVE  PhaseDefs' /\ at' \in Subjects /\ momentum' \in Nat /\ pc' \in {"exchange", "refuse"}
<1>1. at \in 1..chain /\ chain \in Nat /\ chain <= MaxFallbacks /\ at \in Attempts
  BY RequestAssumption DEF RequestAssumption, Inv, TypeOK, InExchange, Attempts
<1>2. outcome[0] \in Errors /\ Tried(at - 1) /\ Untouched(at)
  BY <1>1 DEF Inv, InExchange
<1>3. \A a \in Attempts : outcome'[a] = IF a = at THEN s ELSE outcome[a]
  BY <1>1 DEF Inv, TypeOK
<1>4. outcome'[0] \in Errors
  BY <1>1, <1>2, <1>3, SubjectFacts
<1>5. \A a \in 1..at : outcome'[a] \in Errors \union {"skipped"}
  <2> SUFFICES ASSUME NEW a \in 1..at PROVE outcome'[a] \in Errors \union {"skipped"}
    OBVIOUS
  <2>1. a \in Attempts /\ (a = at \/ a \in 1..(at - 1))
    BY <1>1, RequestAssumption DEF RequestAssumption, Attempts
  <2> QED
    BY <1>2, <1>3, <2>1 DEF Tried
<1>6. \A a \in Attempts : a >= at + 1 => outcome'[a] = "none"
  BY <1>1, <1>2, <1>3, SubjectFacts DEF Untouched
<1>7. CASE at < chain
  <2>1. at' = at + 1 /\ pc' = "exchange" /\ momentum' = momentum
    BY <1>7 DEF Advance
  <2>2. (at + 1) - 1 = at /\ at + 1 \in 0..chain /\ at + 1 # 0
    BY <1>1, <1>7
  <2>3. PhaseDefs'
    BY <1>4, <1>5, <1>6, <2>1, <2>2 DEF PhaseDefs, BeforeExchange, InExchange, InPeek,
       BeforeChain, BeforeRefusal, BeforeRelay, Tried, Untouched
  <2> QED
    BY <1>1, <1>7, <2>1, <2>3, RequestAssumption
    DEF RequestAssumption, Inv, TypeOK, Subjects, Attempts
<1>8. CASE ~(at < chain)
  <2>1. at' = 0 /\ pc' = "refuse" /\ momentum' = momentum + 1 /\ at = chain
    BY <1>1, <1>8 DEF Advance
  <2>2. PhaseDefs'
    BY <1>4, <1>5, <1>6, <2>1 DEF PhaseDefs, BeforeExchange, InExchange, InPeek,
       BeforeChain, BeforeRefusal, BeforeRelay, Tried, Untouched
  <2> QED
    BY <2>1, <2>2, SubjectFacts DEF Inv, TypeOK
<1> QED
  BY <1>7, <1>8

LEMMA SkipInv ==
  ASSUME Inv, SkipFallback
  PROVE  Inv'
<1> USE DEF SkipFallback, Comes
<1>1. PhaseDefs' /\ at' \in Subjects /\ momentum' \in Nat /\ pc' \in {"exchange", "refuse"}
  BY AdvanceInv
<1>2. at \in Attempts /\ at # 0 /\ outcome[at] = "none"
  BY RequestAssumption DEF RequestAssumption, Inv, TypeOK, InExchange, Untouched, Attempts
<1>3. TypeOK'
  BY <1>1, <1>2 DEF Inv, TypeOK
<1>4. FailuresTrue'
  <2>1. \A a \in Attempts : outcome'[a] = IF a = at THEN "skipped" ELSE outcome[a]
    BY DEF Inv, TypeOK
  <2>2. at \notin FailedFallbacks /\ "skipped" \notin Errors
    BY <1>2 DEF Inv, FailuresTrue, Errors, Upstream, Synthetic
  <2>3. \A k \in DOMAIN failures : failures[k].attempt \in Attempts /\ failures[k].attempt # at
    BY <2>2, OtherFailures
  <2> QED
    BY <2>1, <2>2, <2>3 DEF Inv, FailuresTrue, FailedFallbacks
<1> QED
  BY <1>1, <1>3, <1>4, Quiet DEF Inv, PhaseDefs

LEMMA FallbackRefusedInv ==
  ASSUME Inv, FallbackRefused
  PROVE  Inv'
<1> USE DEF FallbackRefused, Comes
<1>0. PICK s \in Upstream \union {"unavailable"} :
         /\ outcome' = [outcome EXCEPT ![at] = s]
         /\ failures' = Append(failures, [attempt |-> at, status |-> s])
  OBVIOUS
<1>1. s \in Errors
  BY DEF Errors, Synthetic
<1>2. PhaseDefs' /\ at' \in Subjects /\ momentum' \in Nat /\ pc' \in {"exchange", "refuse"}
  BY <1>0, <1>1, AdvanceInv
<1>3. at \in Attempts /\ at # 0 /\ outcome[at] = "none" /\ at \in 1..chain
  BY RequestAssumption DEF RequestAssumption, Inv, TypeOK, InExchange, Untouched, Attempts
<1>4. TypeOK'
  <2>1. failures' \in Seq([attempt : Attempts, status : Errors])
    BY <1>0, <1>1, <1>3 DEF Inv, TypeOK
  <2>2. outcome' \in [Attempts -> {"none", "skipped", "ok", "dead"} \union Errors]
    BY <1>0, <1>1, <1>3 DEF Inv, TypeOK
  <2> QED
    BY <1>2, <2>1, <2>2 DEF Inv, TypeOK
<1>5. FailuresTrue'
  <2>1. \A a \in Attempts : outcome'[a] = IF a = at THEN s ELSE outcome[a]
    BY <1>0 DEF Inv, TypeOK
  <2>2. at \notin FailedFallbacks
    BY <1>3 DEF Inv, FailuresTrue, Errors, Upstream, Synthetic
  <2> DEFINE n == Len(failures)
  <2>3. /\ n \in Nat /\ DOMAIN failures = 1..n /\ DOMAIN failures' = 1..(n + 1)
        /\ \A k \in 1..n : failures'[k] = failures[k]
        /\ failures'[n + 1] = [attempt |-> at, status |-> s]
    BY <1>0 DEF Inv, TypeOK
  <2>4. \A k \in 1..n : failures[k].attempt \in Attempts /\ failures[k].attempt # at
    BY <2>2, <2>3, OtherFailures
  <2>5. FailedFallbacks' = FailedFallbacks \union {at}
    <3>1. \A x : x \in FailedFallbacks' <=> \E k \in 1..(n + 1) : x = failures'[k].attempt
      BY <2>3 DEF FailedFallbacks
    <3>2. \A x : x \in FailedFallbacks <=> \E k \in 1..n : x = failures[k].attempt
      BY <2>3 DEF FailedFallbacks
    <3>3. \A k \in 1..(n + 1) : k \in 1..n \/ k = n + 1
      BY <2>3
    <3>4. n + 1 \in 1..(n + 1) /\ \A k \in 1..n : k \in 1..(n + 1)
      BY <2>3
    <3> HIDE DEF n
    <3> QED
      BY <2>3, <3>1, <3>2, <3>3, <3>4
  <2>6. \A k \in DOMAIN failures' :
          /\ failures'[k].attempt \in 1..chain'
          /\ outcome'[failures'[k].attempt] = failures'[k].status
    <3> SUFFICES ASSUME NEW k \in 1..(n + 1)
                 PROVE  /\ failures'[k].attempt \in 1..chain
                        /\ outcome'[failures'[k].attempt] = failures'[k].status
      BY <2>3
    <3>1. CASE k \in 1..n
      BY <2>1, <2>3, <2>4, <3>1 DEF Inv, FailuresTrue
    <3>2. CASE k = n + 1
      BY <1>3, <2>1, <2>3, <3>2
    <3> QED
      BY <2>3, <3>1, <3>2
  <2>7. \A j, k \in DOMAIN failures' : failures'[j].attempt = failures'[k].attempt => j = k
    <3> SUFFICES ASSUME NEW j \in 1..(n + 1), NEW k \in 1..(n + 1),
                        failures'[j].attempt = failures'[k].attempt
                 PROVE  j = k
      BY <2>3
    <3>1. CASE j \in 1..n /\ k \in 1..n
      BY <2>3, <3>1 DEF Inv, FailuresTrue
    <3>2. CASE j = n + 1 \/ k = n + 1
      BY <2>3, <2>4, <3>2
    <3> QED
      BY <2>3, <3>1, <3>2
  <2>8. \A a \in Attempts \ {0} : outcome'[a] \in Errors <=> a \in FailedFallbacks'
    BY <1>1, <2>1, <2>5 DEF Inv, FailuresTrue
  <2> QED
    BY <2>6, <2>7, <2>8 DEF FailuresTrue
<1> QED
  BY <1>2, <1>4, <1>5, Quiet DEF Inv, PhaseDefs

LEMMA FallbackAcceptedInv ==
  ASSUME Inv, Accepted, at # 0
  PROVE  Inv'
<1> USE DEF Accepted, Comes
<1>1. /\ at \in 1..chain /\ chain \in Nat /\ at \in Attempts /\ outcome[at] = "none"
      /\ outcome[0] \in Errors /\ Tried(at - 1) /\ Untouched(at)
  BY RequestAssumption DEF RequestAssumption, Inv, TypeOK, InExchange, Untouched, Attempts
<1>2. \A a \in Attempts : outcome'[a] = IF a = at THEN "ok" ELSE outcome[a]
  BY <1>1 DEF Inv, TypeOK
<1>3. TypeOK'
  BY <1>1 DEF Inv, TypeOK
<1>4. at \notin FailedFallbacks /\ "ok" \notin Errors
  BY <1>1 DEF Inv, FailuresTrue, Errors, Upstream, Synthetic
<1>5. FailuresTrue'
  <2>1. \A k \in DOMAIN failures : failures[k].attempt \in Attempts /\ failures[k].attempt # at
    BY <1>4, OtherFailures
  <2> QED
    BY <1>2, <1>4, <2>1 DEF Inv, FailuresTrue, FailedFallbacks
<1>6. PhaseDefs'
  <2>1. outcome'[0] \in Errors /\ outcome'[at] = "ok"
    BY <1>1, <1>2, SubjectFacts
  <2>2. \A a \in 1..(at - 1) : outcome'[a] \in Errors \union {"skipped"}
    BY <1>1, <1>2 DEF Tried, Inv, TypeOK, Attempts
  <2>3. \A a \in Attempts : a >= at + 1 => outcome'[a] = "none"
    BY <1>1, <1>2, SubjectFacts DEF Untouched
  <2>4. Relayed'
    BY <1>1, <2>1, <2>2, <2>3 DEF Relayed, Tried, Untouched
  <2> QED
    BY <1>1, <2>4 DEF PhaseDefs, BeforeExchange, InExchange, InPeek, BeforeChain,
       BeforeRefusal, BeforeRelay
<1>7. pc' = "relay" /\ rows' = rows /\ answer' = answer
  OBVIOUS
<1> QED
  BY <1>3, <1>5, <1>6, <1>7, Quiet DEF Inv, PhaseDefs

LEMMA BeginRelayInv ==
  ASSUME Inv, BeginRelay
  PROVE  Inv'
<1> USE DEF BeginRelay
<1>1. NoRows /\ answer.kind = "none" /\ Relayed
  BY DEF Inv, Unanswered, BeforeRelay
<1>2. "fallback_error" \in RowStatus
  BY DEF RowStatus
<1>3. rows' = [a \in Subjects |-> IF at > 0 /\ (a = 0 \/ a \in FailedFallbacks)
                                  THEN <<"fallback_error">> ELSE <<>>]
  BY <1>1, <1>2, FirstRow DEF NoRows, AddHandled, Inv, TypeOK
<1>4. answer' \in [kind : AnswerKinds, status : {"none", "ok"} \union Errors \union Thrown]
      /\ answer'.kind \in {"none", "streaming"}
  BY <1>1 DEF Inv, TypeOK, AnswerKinds
<1>5. TypeOK'
  <2>1. rows' \in [Subjects -> Seq(RowStatus)]
    <3>1. <<>> \in Seq(RowStatus) /\ <<"fallback_error">> \in Seq(RowStatus)
      BY <1>2, FirstRow
    <3> QED
      BY <1>3, <3>1
  <2> QED
    BY <1>4, <2>1 DEF Inv, TypeOK
<1>6. FailuresTrue' /\ Relayed'
  BY <1>1 DEF Inv, FailuresTrue, FailedFallbacks, Relayed, Tried, Untouched
<1>7. PhaseDefs' /\ InBody' /\ Unanswered'
  BY <1>3, <1>4, <1>6 DEF PhaseDefs, BeforeExchange, InExchange, InPeek, BeforeChain,
     BeforeRefusal, BeforeRelay, InBody, Unanswered, FailedFallbacks
<1>8. OneVerdict' /\ RowsNameTheAttempts' /\ ExhaustionIsReal'
  BY <1>4 DEF OneVerdict, RowsNameTheAttempts, ExhaustionIsReal
<1>9. SuccessIsDelivered'
  <2>1. \A a \in Attempts : rows'[a] # <<"ok">>
    BY <1>3, SubjectFacts, SameRow, FirstRow DEF RowStatus, Verdicts
  <2> QED
    BY <1>4, <2>1 DEF SuccessIsDelivered
<1> QED
  BY <1>5, <1>6, <1>7, <1>8, <1>9 DEF Inv, PhaseDefs

\* The end of a request leaves nothing to show of its phases.
LEMMA OverPhases ==
  ASSUME pc' = "over"
  PROVE  PhaseDefs' /\ InBody' /\ Unanswered'
  BY DEF PhaseDefs, BeforeExchange, InExchange, InPeek, BeforeChain, BeforeRefusal,
     BeforeRelay, InBody, Unanswered

LEMMA RefuseInv ==
  ASSUME Inv, Refuse
  PROVE  Inv'
<1> USE DEF Refuse, Over
<1>1. NoRows /\ outcome[0] \in Errors /\ Tried(chain) /\ Untouched(chain + 1)
  BY DEF Inv, Unanswered, BeforeRefusal
<1>2. chain \in Nat /\ chain <= MaxFallbacks
  BY RequestAssumption DEF RequestAssumption, Inv, TypeOK, Attempts
<1>3. \A s : RowFor(s) \in RowStatus /\ RowFor(s) \notin {"ok", "fallback_error"}
  BY RowForVerdict DEF RowStatus, Verdicts
<1>4. FailuresTrue'
  BY DEF Inv, FailuresTrue, FailedFallbacks
<1>5. \A a \in Attempts : Forwarded(a) <=> a = 0 \/ a \in FailedFallbacks
  <2>1. FailedFallbacks \subseteq Attempts \ {0}
    BY <1>2, FailedInChain, RequestAssumption DEF RequestAssumption, Attempts
  <2>2. Forwarded(0)
    BY <1>1 DEF Forwarded, Errors, Upstream, Synthetic
  <2>3. \A a \in Attempts \ {0} : outcome[a] \in Errors \union {"skipped", "none"}
    BY <1>1, <1>2, RequestAssumption DEF RequestAssumption, Tried, Untouched, Attempts
  <2>4. "none" \notin Errors /\ "skipped" \notin Errors
    BY DEF Errors, Upstream, Synthetic
  <2> QED
    BY <2>1, <2>2, <2>3, <2>4 DEF Inv, FailuresTrue, Forwarded
<1>6. answer'.status = outcome[0] /\ answer'.kind \in {"upstream_error", "exhausted"}
      /\ answer' \in [kind : AnswerKinds, status : {"none", "ok"} \union Errors \union Thrown]
      /\ (answer'.kind = "exhausted" <=> failures # <<>>)
  BY <1>1 DEF AnswerKinds
<1>7. ExhaustionIsReal'
  <2>1. failures # <<>> <=> \E a \in 1..chain : a \in FailedFallbacks
    <3>1. failures # <<>> <=> DOMAIN failures # {}
      BY DEF Inv, TypeOK
    <3> QED
      BY <3>1, FailedInChain DEF FailedFallbacks
  <2>2. \A a \in 1..chain : a \in Attempts /\ a # 0
    BY <1>2, RequestAssumption DEF RequestAssumption, Attempts
  <2>3. failures # <<>> <=> \E a \in 1..chain : Forwarded(a)
    BY <1>5, <2>1, <2>2
  <2> QED
    BY <1>1, <1>6, <2>3 DEF ExhaustionIsReal, Tried, Forwarded
<1>8. CASE failures = <<>>
  <2>1. rows' = [rows EXCEPT ![0] = <<RowFor(outcome[0])>>]
    BY <1>1, <1>3, <1>8, FirstRow, SubjectFacts DEF AddRow, NoRows
  <2>2. rows' = [a \in Subjects |-> IF a = 0 THEN <<RowFor(outcome[0])>> ELSE <<>>]
    BY <1>1, <2>1 DEF NoRows, Inv, TypeOK
  <2>3. FailedFallbacks = {}
    BY <1>8 DEF FailedFallbacks
  <2>4. TypeOK'
    <3>1. rows' \in [Subjects -> Seq(RowStatus)]
      BY <1>3, <2>2, FirstRow
    <3> QED
      BY <1>6, <3>1 DEF Inv, TypeOK
  <2>5. OneVerdict'
    <3>1. Len(rows'[0]) = 1 /\ IsVerdict(0)'
      BY <1>3, <2>2, SubjectFacts, FirstRow DEF IsVerdict
    <3>2. \A b \in Subjects \ {0} : AtMostHandled(b)'
      BY <2>2 DEF AtMostHandled
    <3> QED
      BY <3>1, <3>2, SubjectFacts DEF OneVerdict
  <2>6. RowsNameTheAttempts'
    <3>1. rows'[Unattributed] = <<>>
      BY <2>2, SubjectFacts
    <3>2. \A a \in Attempts : Len(rows'[a]) = IF a = 0 THEN 1 ELSE 0
      BY <1>3, <2>2, SubjectFacts, FirstRow
    <3> QED
      BY <1>5, <2>3, <3>1, <3>2 DEF RowsNameTheAttempts, Forwarded
  <2>7. SuccessIsDelivered'
    <3>1. \A a \in Attempts : rows'[a] # <<"ok">>
      BY <1>3, <2>2, SubjectFacts, SameRow, FirstRow DEF RowStatus, Verdicts
    <3> QED
      BY <1>6, <3>1 DEF SuccessIsDelivered
  <2> QED
    BY <1>4, <1>7, <2>4, <2>5, <2>6, <2>7, OverPhases DEF Inv, PhaseDefs
<1>9. CASE failures # <<>>
  <2> DEFINE last == failures[Len(failures)]
  <2>1. Len(failures) \in DOMAIN failures
    BY <1>9 DEF Inv, TypeOK
  <2>2. last.attempt \in FailedFallbacks /\ last.attempt \in 1..chain
    BY <2>1, FailedInChain DEF FailedFallbacks
  <2>3. last.attempt \in Attempts /\ last.attempt # 0 /\ last.attempt # Unattributed
    BY <1>2, <2>2, RequestAssumption DEF RequestAssumption, Attempts, Unattributed
  <2>4. AddHandled({last.attempt}) =
          [a \in Subjects |-> IF a = 0 \/ a \in FailedFallbacks \ {last.attempt}
                              THEN <<"fallback_error">> ELSE <<>>]
    <3>1. Append(<<>>, "fallback_error") = <<"fallback_error">>
      BY FirstRow DEF RowStatus
    <3> QED
      BY <1>1, <3>1 DEF AddHandled, NoRows
  <2>5. rows' = [AddHandled({last.attempt}) EXCEPT
                   ![last.attempt] = Append(@, RowFor(last.status))]
    BY <1>9
  <2> HIDE DEF last
  <2>6. AddHandled({last.attempt})[last.attempt] = <<>>
    BY <2>3, <2>4, SubjectFacts
  <2>7. rows' = [AddHandled({last.attempt}) EXCEPT ![last.attempt] = <<RowFor(last.status)>>]
    BY <1>3, <2>5, <2>6, FirstRow
  <2>8. rows' = [a \in Subjects |-> IF a = last.attempt THEN <<RowFor(last.status)>>
                                    ELSE IF a = 0 \/ a \in FailedFallbacks
                                    THEN <<"fallback_error">> ELSE <<>>]
    BY <2>3, <2>4, <2>7, SubjectFacts
  <2>9. TypeOK'
    <3>1. rows' \in [Subjects -> Seq(RowStatus)]
      <4>1. /\ <<>> \in Seq(RowStatus) /\ <<"fallback_error">> \in Seq(RowStatus)
            /\ <<RowFor(last.status)>> \in Seq(RowStatus)
        BY <1>3, FirstRow DEF RowStatus
      <4> QED
        BY <2>8, <4>1
    <3> QED
      BY <1>6, <3>1 DEF Inv, TypeOK
  <2>10. OneVerdict'
    <3>1. PICK a \in Subjects : a = last.attempt
      BY <2>3, SubjectFacts
    <3>2. rows'[a] = <<RowFor(last.status)>>
      BY <2>8, <3>1
    <3>3. \A b \in Subjects \ {a} : rows'[b] \in {<<>>, <<"fallback_error">>}
      BY <2>8, <3>1
    <3> HIDE DEF Refuse, Over
    <3>4. Len(rows'[a]) = 1 /\ IsVerdict(a)'
      BY <1>3, <3>2, FirstRow DEF IsVerdict
    <3>5. \A b \in Subjects \ {a} : AtMostHandled(b)'
      BY <3>3 DEF AtMostHandled
    <3> QED
      BY <3>4, <3>5 DEF OneVerdict
  <2>11. RowsNameTheAttempts'
    <3>1. rows'[Unattributed] = <<>>
      <4>1. Unattributed # 0 /\ Unattributed \notin FailedFallbacks
        BY FailedInChain DEF Unattributed
      <4> QED
        BY <2>3, <2>8, <4>1, SubjectFacts
    <3>2. \A a \in Attempts : Len(rows'[a]) = IF a = 0 \/ a \in FailedFallbacks THEN 1 ELSE 0
      BY <1>3, <2>2, <2>8, SubjectFacts, FirstRow DEF RowStatus
    <3> QED
      BY <1>5, <3>1, <3>2 DEF RowsNameTheAttempts, Forwarded
  <2>12. SuccessIsDelivered'
    <3>1. \A a \in Attempts : rows'[a] # <<"ok">>
      BY <1>3, <2>8, SubjectFacts, SameRow, FirstRow DEF RowStatus, Verdicts
    <3> QED
      BY <1>6, <3>1 DEF SuccessIsDelivered
  <2> QED
    BY <1>4, <1>7, <2>9, <2>10, <2>11, <2>12, OverPhases DEF Inv, PhaseDefs
<1> QED
  BY <1>8, <1>9

\* A body is relayed to its end: one row more, for the attempt that had it.
LEMMA DeliveredInv ==
  ASSUME Inv, pc = "body", at # Unattributed, AddRow(at, "ok"), Over,
         answer' = [kind |-> "complete", status |-> "ok"],
         NEW s \in {"ok", "dead"}, outcome' = [outcome EXCEPT ![at] = s], s = "ok" \/ at > 0,
         ~aborted,
         UNCHANGED <<streaming, chain, at, failures, gone, aborted, momentum>>
  PROVE  Inv'
<1>1. /\ at \in 0..chain /\ chain \in Nat /\ at \in Attempts /\ outcome[at] = "ok"
      /\ Untouched(at + 1)
      /\ IF at = 0 THEN failures = <<>> ELSE outcome[0] \in Errors /\ Tried(at - 1)
  BY RequestAssumption DEF RequestAssumption, Inv, TypeOK, InBody, Relayed, Unattributed, Attempts
<1>2. \A a \in Attempts : outcome'[a] = IF a = at THEN s ELSE outcome[a]
  BY <1>1 DEF Inv, TypeOK
<1>3. "ok" \in RowStatus /\ "fallback_error" \in RowStatus
  BY DEF RowStatus, Verdicts
<1>4. "ok" \notin Errors /\ "dead" \notin Errors /\ "none" \notin Errors /\ "skipped" \notin Errors
  BY DEF Errors, Upstream, Synthetic
<1>5. at \notin FailedFallbacks
  <2>1. at = 0 => FailedFallbacks = {}
    BY <1>1 DEF FailedFallbacks
  <2> QED
    BY <1>1, <1>4, <2>1 DEF Inv, FailuresTrue
<1>6. rows' = [a \in Subjects |-> IF a = at THEN <<"ok">>
                                 ELSE IF at > 0 /\ (a = 0 \/ a \in FailedFallbacks)
                                 THEN <<"fallback_error">> ELSE <<>>]
  <2>1. rows = [a \in Subjects |-> IF at > 0 /\ (a = 0 \/ a \in FailedFallbacks)
                                   THEN <<"fallback_error">> ELSE <<>>]
    BY DEF Inv, TypeOK, InBody
  <2>2. rows[at] = <<>>
    BY <1>1, <1>5, <2>1, SubjectFacts
  <2>3. rows' = [rows EXCEPT ![at] = <<"ok">>]
    BY <1>3, <2>2, FirstRow DEF AddRow
  <2> QED
    BY <2>1, <2>3
<1>7. TypeOK'
  <2>1. rows' \in [Subjects -> Seq(RowStatus)]
    <3>1. /\ <<>> \in Seq(RowStatus) /\ <<"fallback_error">> \in Seq(RowStatus)
          /\ <<"ok">> \in Seq(RowStatus)
      BY <1>3, FirstRow
    <3> QED
      BY <1>6, <3>1
  <2>2. answer' \in [kind : AnswerKinds, status : {"none", "ok"} \union Errors \union Thrown]
    BY DEF AnswerKinds
  <2>3. outcome' \in [Attempts -> {"none", "skipped", "ok", "dead"} \union Errors]
    BY DEF Inv, TypeOK
  <2> QED
    BY <2>1, <2>2, <2>3 DEF Inv, TypeOK, Over
<1>8. FailuresTrue'
  <2>1. \A k \in DOMAIN failures : failures[k].attempt \in Attempts /\ failures[k].attempt # at
    BY <1>5, OtherFailures
  <2> QED
    BY <1>2, <1>4, <1>5, <2>1 DEF Inv, FailuresTrue, FailedFallbacks
<1>9. OneVerdict'
  <2>1. PICK a \in Subjects : a = at /\ a \in Attempts
    BY <1>1, SubjectFacts
  <2>2. rows'[a] = <<"ok">>
    BY <1>6, <2>1
  <2>3. Len(rows'[a]) = 1 /\ IsVerdict(a)'
    BY <1>3, <2>2, FirstRow DEF IsVerdict
  <2>4. \A b \in Subjects \ {a} : AtMostHandled(b)'
    BY <1>6, <2>1 DEF AtMostHandled
  <2> QED
    BY <2>3, <2>4 DEF OneVerdict
<1>10. RowsNameTheAttempts'
  <2>1. rows'[Unattributed] = <<>>
    <3>1. Unattributed # 0 /\ Unattributed \notin FailedFallbacks
      BY FailedInChain DEF Unattributed
    <3> QED
      BY <1>6, <3>1, SubjectFacts
  <2>2. \A a \in Attempts :
          Len(rows'[a]) = IF a = at \/ (at > 0 /\ (a = 0 \/ a \in FailedFallbacks)) THEN 1 ELSE 0
    BY <1>3, <1>6, SubjectFacts, FirstRow
  <2>3. \A a \in Attempts :
          Forwarded(a)' <=> a = at \/ (at > 0 /\ (a = 0 \/ a \in FailedFallbacks))
    <3>1. Forwarded(at)'
      BY <1>1, <1>2 DEF Forwarded
    <3>2. at > 0 => Forwarded(0)'
      BY <1>1, <1>2, <1>4, SubjectFacts DEF Forwarded
    <3>3. ASSUME NEW a \in Attempts, a # at, a # 0
          PROVE  Forwarded(a)' <=> at > 0 /\ a \in FailedFallbacks
      <4>1. a \in FailedFallbacks <=> outcome[a] \in Errors
        BY <3>3 DEF Inv, FailuresTrue
      <4>2. at = 0 => outcome[a] = "none"
        BY <1>1, <3>3 DEF Untouched, Attempts
      <4>3. outcome[a] \in Errors \union {"skipped", "none"}
        BY <1>1, <3>3, RequestAssumption DEF RequestAssumption, Tried, Untouched, Attempts
      <4> QED
        BY <1>1, <1>2, <1>4, <3>3, <4>1, <4>2, <4>3 DEF Forwarded
    <3>4. at = 0 \/ at > 0
      BY <1>1
    <3> QED
      BY <3>1, <3>2, <3>3, <3>4
  <2> QED
    BY <2>1, <2>2, <2>3 DEF RowsNameTheAttempts
<1>11. ExhaustionIsReal'
  BY DEF ExhaustionIsReal
<1>12. SuccessIsDelivered'
  <2>1. rows'[at] = <<"ok">> /\ outcome'[at] \in {"ok", "dead"}
    BY <1>1, <1>2, <1>6, SubjectFacts
  <2>2. \A a \in Attempts : rows'[a] = <<"ok">> => a = at
    BY <1>3, <1>6, SubjectFacts, SameRow, FirstRow
  <2> QED
    BY <1>1, <2>1, <2>2 DEF SuccessIsDelivered, LeftUnheard
<1> QED
  BY <1>7, <1>8, <1>9, <1>10, <1>11, <1>12, OverPhases DEF Inv, PhaseDefs, Over

LEMMA RelayCannedInv ==
  ASSUME Inv, RelayCanned
  PROVE  Inv'
<1> USE DEF RelayCanned, Over
<1>1. \A a \in Subjects : AtMostHandled(a)
  BY HandledOnly
<1>2. rows' = [rows EXCEPT ![Unattributed] = <<"error">>]
  BY NothingUnattributed, FirstRow DEF AddRow, RowStatus, Verdicts
<1>3. rows \in [Subjects -> Seq(RowStatus)]
  BY DEF Inv, TypeOK
<1>4. TypeOK'
  <2>1. <<"error">> \in Seq(RowStatus)
    BY FirstRow DEF RowStatus, Verdicts
  <2>2. rows' \in [Subjects -> Seq(RowStatus)]
    BY <1>2, <1>3, <2>1
  <2>3. answer' \in [kind : AnswerKinds, status : {"none", "ok"} \union Errors \union Thrown]
    BY DEF AnswerKinds
  <2> QED
    BY <2>2, <2>3 DEF Inv, TypeOK
<1>5. FailuresTrue'
  BY DEF Inv, FailuresTrue, FailedFallbacks
<1>6. OneVerdict'
  <2>1. rows'[Unattributed] = <<"error">>
    BY <1>2, <1>3, SubjectFacts
  <2>2. Len(rows'[Unattributed]) = 1 /\ IsVerdict(Unattributed)'
    BY <2>1 DEF IsVerdict
  <2>3. \A b \in Subjects \ {Unattributed} : AtMostHandled(b)'
    BY <1>1, <1>2, <1>3 DEF AtMostHandled
  <2> QED
    BY <2>2, <2>3, SubjectFacts DEF OneVerdict
<1>7. RowsNameTheAttempts' /\ ExhaustionIsReal'
  BY DEF RowsNameTheAttempts, ExhaustionIsReal
<1>8. SuccessIsDelivered'
  <2>1. \A a \in Attempts : rows'[a] # <<"ok">>
    BY <1>1, <1>2, <1>3, SubjectFacts, SameRow, FirstRow DEF AtMostHandled, RowStatus, Verdicts
  <2> QED
    BY <2>1 DEF SuccessIsDelivered
<1> QED
  BY <1>4, <1>5, <1>6, <1>7, <1>8, OverPhases DEF Inv, PhaseDefs

\* Before the try there is nothing to show: no row, and no attempt.
LEMMA RecordingFailsInv ==
  ASSUME Inv, RecordingFails
  PROVE  Inv'
<1> USE DEF RecordingFails
<1>1. NoRows
  BY DEF Inv, Unanswered
<1>2. TypeOK'
  <2>1. answer' \in [kind : AnswerKinds, status : {"none", "ok"} \union Errors \union Thrown]
    BY DEF AnswerKinds, Thrown
  <2> QED
    BY <2>1 DEF Inv, TypeOK
<1>3. FailuresTrue'
  BY DEF Inv, FailuresTrue, FailedFallbacks
<1>4. OneVerdict' /\ RowsNameTheAttempts' /\ ExhaustionIsReal'
  BY <1>1 DEF NoRows, OneVerdict, RowsNameTheAttempts, ExhaustionIsReal
<1>5. SuccessIsDelivered'
  BY <1>1, SubjectFacts, FirstRow DEF NoRows, SuccessIsDelivered, RowStatus, Verdicts
<1> QED
  BY <1>2, <1>3, <1>4, <1>5, OverPhases DEF Inv, PhaseDefs

LEMMA ClientGoesInv ==
  ASSUME Inv, ClientGoes
  PROVE  Inv'
<1> USE DEF ClientGoes
<1>1. TypeOK' /\ FailuresTrue'
  BY DEF Inv, TypeOK, FailuresTrue, FailedFallbacks
<1>2. PhaseDefs' /\ InBody' /\ Unanswered'
  BY DEF Inv, PhaseDefs, BeforeExchange, InExchange, InPeek, BeforeChain, BeforeRefusal,
     BeforeRelay, InBody, Unanswered, Relayed, Tried, Untouched, NoRows, FailedFallbacks
<1>3. OneVerdict' /\ RowsNameTheAttempts' /\ ExhaustionIsReal'
  BY DEF Inv, OneVerdict, RowsNameTheAttempts, ExhaustionIsReal, Forwarded
<1>4. SuccessIsDelivered'
  <2>1. \A a \in Attempts : rows[a] # <<"ok">>
    <3> SUFFICES ASSUME NEW a \in Attempts PROVE rows[a] # <<"ok">>
      OBVIOUS
    <3>1. rows[a] = <<>> \/ rows[a] = <<"fallback_error">>
      BY HandledOnly, SubjectFacts DEF AtMostHandled
    <3>2. <<"ok">> # <<>> /\ <<"ok">> # <<"fallback_error">>
      BY SameRow, FirstRow DEF RowStatus, Verdicts
    <3> QED
      BY <3>1, <3>2
  <2>2. answer.kind # "complete"
    BY DEF Inv, Unanswered
  <2> QED
    BY <2>1, <2>2 DEF SuccessIsDelivered
<1> QED
  BY <1>1, <1>2, <1>3, <1>4 DEF Inv, PhaseDefs

LEMMA StutterInv ==
  ASSUME Inv, UNCHANGED vars
  PROVE  Inv'
<1> USE DEF vars
<1>1. TypeOK' /\ FailuresTrue'
  BY DEF Inv, TypeOK, FailuresTrue, FailedFallbacks
<1>2. PhaseDefs' /\ InBody' /\ Unanswered'
  BY DEF Inv, PhaseDefs, BeforeExchange, InExchange, InPeek, BeforeChain, BeforeRefusal,
     BeforeRelay, InBody, Unanswered, Relayed, Tried, Untouched, NoRows, FailedFallbacks
<1>3. OneVerdict' /\ RowsNameTheAttempts' /\ ExhaustionIsReal' /\ SuccessIsDelivered'
  BY DEF Inv, OneVerdict, IsVerdict, AtMostHandled, RowsNameTheAttempts, ExhaustionIsReal,
     SuccessIsDelivered, LeftUnheard, Forwarded
<1> QED
  BY <1>1, <1>2, <1>3 DEF Inv, PhaseDefs

LEMMA NextInv == Inv /\ [Next]_vars => Inv'
<1> SUFFICES ASSUME Inv, [Next]_vars PROVE Inv'
  OBVIOUS
<1>1. CASE Reject \/ InvalidPayload \/ LookupFails \/ ExchangeThrows \/ BodyBreaks
  <2>1. PICK s \in Thrown : HandleProxyError(s) /\ pc # "over"
    BY <1>1 DEF Reject, InvalidPayload, LookupFails, ExchangeThrows, BodyBreaks, Thrown
  <2> QED
    BY <2>1, ErrorInv
<1>2. CASE RecordingRead \/ Admit \/ Canned \/ WithinLimits \/ ResolveRouting
           \/ ResolveCredentials
  BY <1>2, SetupInv
<1>3. CASE Accepted
  BY <1>3, PrimaryInv, FallbackAcceptedInv
<1>4. CASE PrimaryRefused \/ WarmupSucceeds \/ WarmupFails \/ NoFallbacks \/ StartChain
  <2>1. at = 0
    BY <1>4 DEF PrimaryRefused, WarmupSucceeds, WarmupFails, NoFallbacks, StartChain,
       Inv, InPeek, BeforeChain
  <2> QED
    BY <1>4, <2>1, PrimaryInv
<1>5. CASE FallbackRefused
  BY <1>5, FallbackRefusedInv
<1>6. CASE SkipFallback
  BY <1>6, SkipInv
<1>7. CASE Refuse
  BY <1>7, RefuseInv
<1>8. CASE BeginRelay
  BY <1>8, BeginRelayInv
<1>9. CASE RelayCanned
  BY <1>9, RelayCannedInv
<1>10. CASE RelayBody
  <2>1. outcome[at] = "ok" /\ outcome' = outcome /\ at \in Attempts
    BY <1>10, RequestAssumption
    DEF RequestAssumption, RelayBody, Inv, InBody, Relayed, Unattributed, TypeOK, Attempts
  <2>2. outcome' = [outcome EXCEPT ![at] = "ok"]
    BY <2>1 DEF Inv, TypeOK
  <2> QED
    BY <1>10, <2>2, DeliveredInv DEF RelayBody
<1>11. CASE RelayEmptyStream
  <2>1. at # Unattributed
    BY <1>11 DEF RelayEmptyStream, Unattributed
  <2> QED
    BY <1>11, <2>1, DeliveredInv DEF RelayEmptyStream, Comes
<1>12. CASE ClientGoes
  BY <1>12, ClientGoesInv
<1>13. CASE UNCHANGED vars
  BY <1>13, StutterInv
<1>14. CASE RecordingFails
  BY <1>14, RecordingFailsInv
<1> QED
  BY <1>1, <1>2, <1>3, <1>4, <1>5, <1>6, <1>7, <1>8, <1>9, <1>10, <1>11, <1>12, <1>13, <1>14
  DEF Next, Handler

LEMMA InvariantInv == Spec => []Inv
<1> QED
  BY InitInv, NextInv, PTL DEF Spec

\* The variables keep their types, for any number of fallback routes: in
\* particular the chain never runs past its last route.
THEOREM RequestTypeCorrect == Spec => []TypeOK
<1>1. Inv => TypeOK
  BY DEF Inv
<1> QED
  BY <1>1, InvariantInv, PTL

\* A request that is over counts once: one row is its verdict, the others are
\* marked as handled by a fallback.
THEOREM OneVerdictHolds == Spec => []OneVerdict
<1>1. Inv => OneVerdict
  BY DEF Inv
<1> QED
  BY <1>1, InvariantInv, PTL

\* The rows name the attempts that were forwarded, and no other.
THEOREM RowsNameTheAttemptsHolds == Spec => []RowsNameTheAttempts
<1>1. Inv => RowsNameTheAttempts
  BY DEF Inv
<1> QED
  BY <1>1, InvariantInv, PTL

\* A client told that the chain is exhausted gets the primary's status, and no
\* fallback with a credential was left out.
THEOREM ExhaustionIsRealHolds == Spec => []ExhaustionIsReal
<1>1. Inv => ExhaustionIsReal
  BY DEF Inv
<1> QED
  BY <1>1, InvariantInv, PTL

\* A success is recorded for a body relayed to its end, and for a client that was
\* still there unless it left before the handler listened (ProxyController's first
\* await): no client that leaves later is recorded as served.
THEOREM SuccessIsDeliveredHolds == Spec => []SuccessIsDelivered
<1>1. Inv => SuccessIsDelivered
  BY DEF Inv
<1> QED
  BY <1>1, InvariantInv, PTL

\* At most how many steps the handler has left: each route of the chain is
\* tried once, and what comes before and after it is a straight line.
StepsFrom(place, routes, route) ==
  CASE place = "over"        -> 0
    [] place = "body"        -> 1
    [] place = "relay"       -> 2
    [] place = "refuse"      -> 2
    [] place = "exchange"    -> IF route = 0 THEN 6 + routes ELSE 3 + (routes - route)
    [] place = "chain"       -> 4 + routes
    [] place = "peek"        -> 5 + routes
    [] place = "credentials" -> 7 + routes
    [] place = "routing"     -> 8 + MaxFallbacks
    [] place = "limits"      -> 9 + MaxFallbacks
    [] place = "arrived"     -> 10 + MaxFallbacks
    [] place = "entered"     -> 11 + MaxFallbacks

StepsLeft == StepsFrom(pc, chain, at)

LEMMA StepsFromPlace ==
  ASSUME NEW p, NEW n, NEW a
  PROVE  /\ p = "over" => StepsFrom(p, n, a) = 0
         /\ p = "body" => StepsFrom(p, n, a) = 1
         /\ p = "relay" => StepsFrom(p, n, a) = 2
         /\ p = "refuse" => StepsFrom(p, n, a) = 2
         /\ p = "exchange" =>
              StepsFrom(p, n, a) = IF a = 0 THEN 6 + n ELSE 3 + (n - a)
         /\ p = "chain" => StepsFrom(p, n, a) = 4 + n
         /\ p = "peek" => StepsFrom(p, n, a) = 5 + n
         /\ p = "credentials" => StepsFrom(p, n, a) = 7 + n
         /\ p = "routing" => StepsFrom(p, n, a) = 8 + MaxFallbacks
         /\ p = "limits" => StepsFrom(p, n, a) = 9 + MaxFallbacks
         /\ p = "arrived" => StepsFrom(p, n, a) = 10 + MaxFallbacks
         /\ p = "entered" => StepsFrom(p, n, a) = 11 + MaxFallbacks
  BY DEF StepsFrom

\* Where the handler stands in its chain, as far as the count needs it.
InRange ==
  /\ pc \in {"entered", "arrived", "limits", "routing", "credentials", "exchange", "peek",
             "chain", "refuse", "relay", "body", "over"}
  /\ chain \in Nat /\ chain <= MaxFallbacks
  /\ pc = "exchange" => at \in Nat /\ at <= chain

LEMMA InvInRange == Inv => InRange
  BY RequestAssumption
  DEF RequestAssumption, Inv, TypeOK, Attempts, InExchange, PhaseDefs, InRange

LEMMA StepsLeftNat ==
  ASSUME InRange
  PROVE  StepsLeft \in 0..(MaxFallbacks + 11) /\ (StepsLeft = 0 <=> pc = "over")
<1> USE RequestAssumption, StepsFromPlace DEF RequestAssumption, InRange
<1>1. CASE pc \in {"over", "body", "relay", "refuse"}
  BY <1>1 DEF StepsLeft
<1>2. CASE pc = "exchange"
  BY <1>2 DEF StepsLeft
<1>3. CASE pc \in {"chain", "peek", "credentials"}
  BY <1>3 DEF StepsLeft
<1>4. CASE pc \in {"routing", "limits", "arrived", "entered"}
  BY <1>4 DEF StepsLeft
<1> QED
  BY <1>1, <1>2, <1>3, <1>4

LEMMA AnErrorIsTheEnd ==
  ASSUME InRange, pc # "over", Over
  PROVE  StepsLeft' < StepsLeft
<1>1. StepsLeft' = 0
  BY StepsFromPlace DEF Over, StepsLeft
<1> QED
  BY <1>1, StepsLeftNat

\* No step of the handler leaves as many steps as there were.
LEMMA StepsRunDown ==
  ASSUME InRange, InRange', Handler
  PROVE  StepsLeft' < StepsLeft
<1>1. CASE Reject \/ InvalidPayload \/ LookupFails \/ ExchangeThrows \/ Refuse
           \/ RelayCanned \/ RelayBody \/ RelayEmptyStream \/ BodyBreaks
  <2>1. pc # "over" /\ Over
    BY <1>1 DEF Reject, InvalidPayload, LookupFails, ExchangeThrows, Refuse, RelayCanned,
       RelayBody, RelayEmptyStream, BodyBreaks, HandleProxyError
  <2> QED
    BY <2>1, AnErrorIsTheEnd
<1>2. CASE RecordingRead \/ Admit \/ WithinLimits
  BY <1>2, StepsFromPlace, RequestAssumption
  DEF RequestAssumption, RecordingRead, Admit, WithinLimits, StepsLeft
<1>3. CASE Canned
  BY <1>3, StepsFromPlace, RequestAssumption DEF RequestAssumption, InRange, Canned, StepsLeft
<1>4. CASE ResolveRouting
  BY <1>4, StepsFromPlace, RequestAssumption
  DEF RequestAssumption, InRange, ResolveRouting, StepsLeft
<1>5. CASE ResolveCredentials
  BY <1>5, StepsFromPlace DEF InRange, ResolveCredentials, StepsLeft
<1>6. CASE Accepted \/ PrimaryRefused \/ WarmupSucceeds \/ WarmupFails
  BY <1>6, StepsFromPlace DEF InRange, Accepted, PrimaryRefused, WarmupSucceeds, WarmupFails, StepsLeft
<1>7. CASE FallbackRefused \/ SkipFallback
  <2>1. pc = "exchange" /\ at > 0 /\ Advance /\ chain' = chain
    BY <1>7 DEF FallbackRefused, SkipFallback
  <2> QED
    BY <2>1, StepsFromPlace DEF InRange, Advance, StepsLeft
<1>8. CASE NoFallbacks \/ StartChain \/ BeginRelay
  BY <1>8, StepsFromPlace DEF InRange, NoFallbacks, StartChain, BeginRelay, StepsLeft
<1>9. CASE RecordingFails
  <2>1. StepsLeft' = 0 /\ pc # "over"
    BY <1>9, StepsFromPlace DEF RecordingFails, StepsLeft
  <2> QED
    BY <2>1, StepsLeftNat
<1> QED
  BY <1>1, <1>2, <1>3, <1>4, <1>5, <1>6, <1>7, <1>8, <1>9 DEF Handler

\* Why a request ends, whatever the providers, the queries and the client do:
\* each step of the handler uses up one of at most MaxFallbacks + 11, a client
\* that goes away adds none, and none are left only when it is over.
EveryStepCounts ==
  /\ StepsLeft \in 0..(MaxFallbacks + 11)
  /\ StepsLeft = 0 <=> pc = "over"
  /\ Handler => StepsLeft' < StepsLeft
  /\ ClientGoes => StepsLeft' = StepsLeft

THEOREM RequestsRunDown == Spec => [][EveryStepCounts]_vars
<1>1. ASSUME Inv, Inv', [Next]_vars
      PROVE  [EveryStepCounts]_vars
  <2>1. InRange /\ InRange'
    BY <1>1, InvInRange, RequestAssumption
    DEF RequestAssumption, Inv, TypeOK, Attempts, InExchange, PhaseDefs, InRange
  <2>2. ClientGoes => StepsLeft' = StepsLeft
    BY DEF ClientGoes, StepsLeft
  <2> QED
    BY <1>1, <2>1, <2>2, StepsLeftNat, StepsRunDown DEF EveryStepCounts
<1> QED
  BY <1>1, InvariantInv, PTL DEF Spec

\* A request that is over has given its slot back, however it ended, and it
\* stays over: no later step takes the slot, writes a row or answers again.
THEOREM TheSlotComesBack ==
  Spec => [](pc = "over" => ~slot) /\ [][pc # "over"]_vars
<1> DEFINE Returned == pc \in {"entered", "over"} => ~slot
<1>1. Init => Returned
  BY DEF Init
<1>2. Returned /\ [Next]_vars => Returned'
  <2> SUFFICES ASSUME Returned, [Next]_vars PROVE Returned'
    OBVIOUS
  <2>0. pc' = "entered" => pc = "entered" /\ slot' = slot
    BY DEF Next, Handler, vars, RecordingRead, RecordingFails, Reject, Admit, InvalidPayload,
       LookupFails, Canned, WithinLimits, ResolveRouting, ResolveCredentials, ExchangeThrows,
       Accepted, PrimaryRefused, FallbackRefused, SkipFallback, Advance, WarmupSucceeds,
       WarmupFails, NoFallbacks, StartChain, Refuse, BeginRelay, RelayCanned, RelayBody,
       RelayEmptyStream, BodyBreaks, HandleProxyError, Over, ClientGoes
  <2>1. CASE pc' = "over" /\ pc # "over"
    <3>1. Over \/ (pc = "entered" /\ slot' = slot)
      BY <2>1 DEF Next, Handler, vars, RecordingRead, RecordingFails, Reject, Admit,
         InvalidPayload, LookupFails, Canned,
         WithinLimits, ResolveRouting, ResolveCredentials, ExchangeThrows, Accepted,
         PrimaryRefused, FallbackRefused, SkipFallback, Advance, WarmupSucceeds, WarmupFails,
         NoFallbacks, StartChain, Refuse, BeginRelay, RelayCanned, RelayBody,
         RelayEmptyStream, BodyBreaks, HandleProxyError, ClientGoes
    <3> QED
      BY <2>1, <3>1 DEF Over
  <2>2. CASE pc = "over"
    BY <2>2 DEF Next, Handler, vars, RecordingRead, RecordingFails, Reject, Admit,
       InvalidPayload, LookupFails, Canned,
       WithinLimits, ResolveRouting, ResolveCredentials, ExchangeThrows, Accepted,
       PrimaryRefused, FallbackRefused, SkipFallback, WarmupSucceeds, WarmupFails,
       NoFallbacks, StartChain, Refuse, BeginRelay, RelayCanned, RelayBody,
       RelayEmptyStream, BodyBreaks, ClientGoes
  <2> QED
    BY <2>0, <2>1, <2>2
<1>3. [Next]_vars => [pc # "over"]_vars
  BY DEF Next, Handler, RecordingRead, RecordingFails, Reject, Admit, InvalidPayload,
     LookupFails, Canned, WithinLimits, ResolveRouting, ResolveCredentials, ExchangeThrows, Accepted,
     PrimaryRefused, FallbackRefused, SkipFallback, WarmupSucceeds, WarmupFails,
     NoFallbacks, StartChain, Refuse, BeginRelay, RelayCanned, RelayBody,
     RelayEmptyStream, BodyBreaks, ClientGoes
<1>4. Returned => (pc = "over" => ~slot)
  OBVIOUS
<1> QED
  BY <1>1, <1>2, <1>3, <1>4, PTL DEF Spec

-------------------------------------------------------------------------------
(* The limits *)

SlotTypes ==
  /\ concurrency \in [Users -> Nat]
  /\ stage \in [Requests -> {"new", "inFlight", "done", "rejected"}]

\* acquireSlot never goes above its limit.
SlotsBounded == \A u \in Users : concurrency[u] <= ConcurrencyMax

LimiterInv == SlotTypes /\ SlotsMatchInFlight /\ SlotsBounded

LEMMA LimiterGiven ==
  IsFiniteSet(Requests) /\ UserOf \in [Requests -> Users] /\ ConcurrencyMax \in Nat \ {0}
BY LimiterAssumption

\* A user's requests in flight are finitely many.
LEMMA InFlightFinite ==
  ASSUME NEW u \in Users
  PROVE  IsFiniteSet(InFlight(u)) /\ IsFiniteSet(InFlight(u)')
<1>1. InFlight(u) \subseteq Requests /\ InFlight(u)' \subseteq Requests BY DEF InFlight
<1> QED BY <1>1, LimiterGiven, FS_Subset

LEMMA SlotsInit ==
  ASSUME LimiterInit PROVE LimiterInv
<1>1. ASSUME NEW u \in Users PROVE concurrency[u] = Cardinality(InFlight(u))
  <2>1. InFlight(u) = {} BY DEF LimiterInit, InFlight
  <2> QED BY <2>1, FS_EmptySet DEF LimiterInit
<1> QED BY <1>1, LimiterGiven DEF LimiterInit, LimiterInv, SlotTypes, SlotsMatchInFlight, SlotsBounded

\* A step in which a request moves without having had a slot, or getting one.
LEMMA Refuses ==
  ASSUME LimiterInv, UNCHANGED concurrency, NEW r \in Requests, stage[r] = "new",
         stage' = [stage EXCEPT ![r] = "rejected"]
  PROVE  LimiterInv'
<1>1. ASSUME NEW u \in Users PROVE InFlight(u)' = InFlight(u)
  BY DEF InFlight, LimiterInv, SlotTypes
<1> QED BY <1>1 DEF LimiterInv, SlotTypes, SlotsMatchInFlight, SlotsBounded

\* The request that gets a slot was not in flight, and its user had one free.
LEMMA Admits ==
  ASSUME LimiterInv, NEW r \in Requests, AcquireSlot(r)
  PROVE  LimiterInv'
<1> DEFINE user == UserOf[r]
<1>1. user \in Users /\ stage[r] = "new" /\ concurrency[user] < ConcurrencyMax
  BY LimiterGiven DEF AcquireSlot, PassRates, SlotFree
<1>2. /\ concurrency' = [concurrency EXCEPT ![user] = @ + 1]
      /\ stage' = [stage EXCEPT ![r] = "inFlight"]
  BY DEF AcquireSlot
<1>3. SlotTypes' BY <1>1, <1>2 DEF LimiterInv, SlotTypes
<1>4. SlotsBounded' BY <1>1, <1>2, LimiterGiven DEF LimiterInv, SlotTypes, SlotsBounded
<1>5. ASSUME NEW u \in Users PROVE concurrency'[u] = Cardinality(InFlight(u)')
  <2>1. CASE u = user
    <3>1. InFlight(u)' = InFlight(u) \cup {r} /\ r \notin InFlight(u)
      BY <1>1, <1>2, <2>1 DEF InFlight, LimiterInv, SlotTypes
    <3>2. Cardinality(InFlight(u)') = Cardinality(InFlight(u)) + 1
      BY <3>1, InFlightFinite, FS_AddElement
    <3> QED BY <1>2, <2>1, <3>2 DEF LimiterInv, SlotTypes, SlotsMatchInFlight
  <2>2. CASE u # user
    <3>1. InFlight(u)' = InFlight(u) BY <1>2, <2>2 DEF InFlight, LimiterInv, SlotTypes
    <3> QED BY <1>2, <2>2, <3>1 DEF LimiterInv, SlotTypes, SlotsMatchInFlight
  <2> QED BY <2>1, <2>2
<1> QED BY <1>3, <1>4, <1>5 DEF LimiterInv, SlotsMatchInFlight

\* The request that gives its slot back had one, so the count was above zero.
LEMMA Finishes ==
  ASSUME LimiterInv, NEW r \in Requests, Finish(r)
  PROVE  LimiterInv'
<1> DEFINE user == UserOf[r]
<1>1. user \in Users /\ stage[r] = "inFlight" BY LimiterGiven DEF Finish
<1>2. /\ concurrency' = [concurrency EXCEPT ![user] = IF @ <= 1 THEN 0 ELSE @ - 1]
      /\ stage' = [stage EXCEPT ![r] = "done"]
  BY DEF Finish
<1>3. r \in InFlight(user) BY <1>1 DEF InFlight
<1>4. concurrency[user] # 0
  <2>1. InFlight(user) # {} BY <1>3
  <2> QED BY <1>1, <2>1, InFlightFinite, FS_EmptySet DEF LimiterInv, SlotsMatchInFlight
<1>5. concurrency' = [concurrency EXCEPT ![user] = @ - 1]
  <2>1. concurrency[user] \in Nat BY <1>1 DEF LimiterInv, SlotTypes
  <2>2. (IF concurrency[user] <= 1 THEN 0 ELSE concurrency[user] - 1) = concurrency[user] - 1
    BY <2>1, <1>4
  <2> QED BY <1>2, <2>2
<1>6. SlotTypes' BY <1>1, <1>2, <1>4, <1>5 DEF LimiterInv, SlotTypes
<1>7. SlotsBounded' BY <1>1, <1>5, LimiterGiven DEF LimiterInv, SlotTypes, SlotsBounded
<1>8. ASSUME NEW u \in Users PROVE concurrency'[u] = Cardinality(InFlight(u)')
  <2>1. CASE u = user
    <3>1. InFlight(u)' = InFlight(u) \ {r} /\ r \in InFlight(u)
      BY <1>2, <1>3, <2>1 DEF InFlight, LimiterInv, SlotTypes
    <3>2. Cardinality(InFlight(u)') = Cardinality(InFlight(u)) - 1
      BY <3>1, InFlightFinite, FS_RemoveElement
    <3> QED BY <1>5, <2>1, <3>2 DEF LimiterInv, SlotTypes, SlotsMatchInFlight
  <2>2. CASE u # user
    <3>1. InFlight(u)' = InFlight(u) BY <1>2, <2>2 DEF InFlight, LimiterInv, SlotTypes
    <3> QED BY <1>5, <2>2, <3>1 DEF LimiterInv, SlotTypes, SlotsMatchInFlight
  <2> QED BY <2>1, <2>2
<1> QED BY <1>6, <1>7, <1>8 DEF LimiterInv, SlotsMatchInFlight

LEMMA SlotsStep ==
  ASSUME LimiterInv, [LimiterNext]_limiterVars
  PROVE  LimiterInv'
<1>1. ASSUME NEW r \in Requests, RejectUser(r) PROVE LimiterInv' BY <1>1, Refuses DEF RejectUser
<1>2. ASSUME NEW r \in Requests, RejectAddress(r) PROVE LimiterInv' BY <1>2, Refuses DEF RejectAddress
<1>3. ASSUME NEW r \in Requests, RejectSlot(r) PROVE LimiterInv'
  BY <1>3, Refuses DEF RejectSlot, PassRates
<1>4. ASSUME NEW r \in Requests, AcquireSlot(r) PROVE LimiterInv' BY <1>4, Admits
<1>5. ASSUME NEW r \in Requests, Finish(r) PROVE LimiterInv' BY <1>5, Finishes
<1>6. CASE UNCHANGED <<concurrency, stage>>
  BY <1>6 DEF LimiterInv, SlotTypes, SlotsMatchInFlight, SlotsBounded, InFlight
<1> QED BY <1>1, <1>2, <1>3, <1>4, <1>5, <1>6 DEF LimiterNext, EvictExpired, ClockTick, limiterVars

\* A user's slot count is the number of that user's requests in flight, however
\* many come, are refused by one limit or another, and end (acquireSlot and
\* releaseSlot in the handler's finally).
THEOREM NoSlotLeaks ==
  LimiterSpec => []SlotsMatchInFlight
<1>1. LimiterInv => SlotsMatchInFlight
  BY DEF LimiterInv
<1>2. LimiterInit => LimiterInv BY SlotsInit
<1>3. LimiterInv /\ [LimiterNext]_limiterVars => LimiterInv' BY SlotsStep
<1> QED BY <1>1, <1>2, <1>3, PTL DEF LimiterSpec

\* And the count never exceeds the limit.
THEOREM SlotsStayBounded ==
  LimiterSpec => []SlotsBounded
<1>1. LimiterInv => SlotsBounded BY DEF LimiterInv
<1>2. LimiterInit => LimiterInv BY SlotsInit
<1>3. LimiterInv /\ [LimiterNext]_limiterVars => LimiterInv' BY SlotsStep
<1> QED BY <1>1, <1>2, <1>3, PTL DEF LimiterSpec

\* The windows of the limits.

Entries == [count : Nat, windowStart : Nat, turn : Nat]

\* The times in a list that are not before t.
HitsFrom(h, t) == Cardinality({i \in DOMAIN h : h[i] >= t})

RatesTyped ==
  /\ now \in Nat
  /\ hits \in [Users -> Seq(Nat)]
  /\ rates \in [DOMAIN rates -> Entries]
  /\ DOMAIN rates \subseteq Users

\* The keys of the Map stand in the order in which they were last counted.
InTurn ==
  /\ IsFiniteSet(DOMAIN rates)
  /\ Cardinality(DOMAIN rates) <= MaxEntries
  /\ \A k \in DOMAIN rates : rates[k].turn < Turn
  /\ \A j, k \in DOMAIN rates : j # k => rates[j].turn # rates[k].turn

LastHits ==
  /\ \A u \in Users : \A i \in DOMAIN hits[u] : hits[u][i] <= now
  /\ \A k \in DOMAIN rates : hits[k] # <<>>
  /\ \A j, k \in DOMAIN rates :
       rates[j].turn <= rates[k].turn => LastHit(hits, j) <= LastHit(hits, k)

\* A window that is stored: it has counted all since its start, which is the time
\* of a hit, and what came before it within a window's length was not all the
\* window before it can have passed.
InWindow(u) ==
  LET s == rates[u].windowStart
      n == rates[u].count
  IN  /\ s <= now /\ n = HitsFrom(hits[u], s) /\ n <= UserMax
      /\ \A t \in Nat : t > s => HitsFrom(hits[u], t) < n
      /\ HitsFrom(hits[u], s + Window) = 0
      /\ \A t \in Nat : t <= s /\ s < t + Window => HitsFrom(hits[u], t) < n + UserMax

\* A user without a window can open one.
NoWindow(u) ==
  /\ HitsFrom(hits[u], now) = 0
  /\ \A t \in Nat : now < t + Window => HitsFrom(hits[u], t) < UserMax

Slides(u) == \A t \in Nat : HitsFrom(hits[u], t) < HitsFrom(hits[u], t + Window) + 2 * UserMax

Windows ==
  \A u \in Users \ forgotten :
    /\ u \in DOMAIN rates => InWindow(u)
    /\ u \notin DOMAIN rates => NoWindow(u)
    /\ Slides(u)

RatesInv == RatesTyped /\ InTurn /\ LastHits /\ Windows

LEMMA SizesGiven ==
  /\ Window \in Nat /\ Window > 0 /\ UserMax \in Nat /\ UserMax > 0
         /\ MaxEntries \in Nat /\ MaxEntries > 0
BY LimiterAssumption

\* Of a list of times, those not before t are some number, and fewer for a later t.
LEMMA HitsFromFinite ==
  ASSUME NEW h \in Seq(Nat), NEW t \in Nat
  PROVE  /\ IsFiniteSet({i \in DOMAIN h : h[i] >= t})
         /\ HitsFrom(h, t) \in Nat
<1>1. IsFiniteSet(DOMAIN h)
  <2>1. DOMAIN h = 1..Len(h) /\ Len(h) \in Nat OBVIOUS
  <2> QED BY <2>1, FS_Interval
<1>2. IsFiniteSet({i \in DOMAIN h : h[i] >= t}) BY <1>1, FS_Subset
<1> QED BY <1>2, FS_CardinalityType DEF HitsFrom

LEMMA HitsFromFalls ==
  ASSUME NEW h \in Seq(Nat), NEW t \in Nat, NEW later \in Nat, t <= later
  PROVE  HitsFrom(h, later) <= HitsFrom(h, t)
<1> DEFINE A == {i \in DOMAIN h : h[i] >= t}
           B == {i \in DOMAIN h : h[i] >= later}
<1>1. B \subseteq A
  <2> SUFFICES ASSUME NEW i \in DOMAIN h, h[i] >= later PROVE h[i] >= t OBVIOUS
  <2>1. h[i] \in Nat OBVIOUS
  <2> QED BY <2>1
<1>2. IsFiniteSet(A) BY HitsFromFinite
<1>3. Cardinality(B) <= Cardinality(A)
  <2> HIDE DEF A, B
  <2> QED BY <1>1, <1>2, FS_Subset
<1> QED BY <1>3 DEF HitsFrom

\* One more, now, adds one to what is counted since an earlier time.
LEMMA HitsFromGrows ==
  ASSUME NEW h \in Seq(Nat), NEW n \in Nat, NEW t \in Nat
  PROVE  /\ t <= n => HitsFrom(Append(h, n), t) = HitsFrom(h, t) + 1
         /\ t > n => HitsFrom(Append(h, n), t) = HitsFrom(h, t)
<1> DEFINE more == Append(h, n)
           A == {i \in DOMAIN h : h[i] >= t}
           B == {i \in DOMAIN more : more[i] >= t}
           last == Len(h) + 1
<1>1. /\ DOMAIN more = DOMAIN h \union {last} /\ last \notin DOMAIN h
      /\ more[last] = n /\ \A i \in DOMAIN h : more[i] = h[i]
  OBVIOUS
<1>2. IsFiniteSet(A) BY HitsFromFinite
<1>3. HitsFrom(h, t) = Cardinality(A) /\ HitsFrom(more, t) = Cardinality(B) BY DEF HitsFrom
<1>4. last \notin A BY <1>1
<1>5. CASE t <= n
  <2>1. B = A \union {last} BY <1>1, <1>5
  <2>2. Cardinality(B) = Cardinality(A) + 1
    <3> HIDE DEF A, B, last
    <3> QED BY <2>1, <1>2, <1>4, FS_AddElement
  <2> HIDE DEF A, B
  <2> QED BY <2>2, <1>3, <1>5
<1>6. CASE t > n
  <2>1. B = A BY <1>1, <1>6
  <2> HIDE DEF A, B
  <2> QED BY <2>1, <1>3, <1>6
<1> QED BY <1>5, <1>6

\* What an overflow by one drops: the one key that all others stand behind.
LEMMA Drops ==
  ASSUME NEW map, map \in [DOMAIN map -> Entries],
         IsFiniteSet(DOMAIN map), Cardinality(DOMAIN map) <= MaxEntries + 1,
         \A j, k \in DOMAIN map : j # k => map[j].turn # map[k].turn,
         NEW kept, kept = EvictLru(map)
  PROVE  /\ DOMAIN kept \subseteq DOMAIN map /\ \A k \in DOMAIN kept : kept[k] = map[k]
         /\ kept \in [DOMAIN kept -> Entries]
         /\ IsFiniteSet(DOMAIN kept) /\ Cardinality(DOMAIN kept) <= MaxEntries
         /\ \A k \in DOMAIN map \ DOMAIN kept :
              /\ Cardinality(DOMAIN kept) = MaxEntries
              /\ \A j \in DOMAIN kept : map[k].turn < map[j].turn
<1> DEFINE D == DOMAIN map
           behind(k) == {j \in D : map[j].turn > map[k].turn}
           E == {k \in D : Cardinality(behind(k)) < MaxEntries}
<1>1. /\ MaxEntries \in Nat /\ MaxEntries > 0
      /\ IsFiniteSet(D) /\ Cardinality(D) <= MaxEntries + 1
  BY SizesGiven
<1>2. \A k \in D : map[k].turn \in Nat BY DEF Entries
<1>3. kept = [k \in E |-> map[k]]
  <2>1. \A k : Cardinality(Behind(map, k)) = Cardinality(behind(k))
    BY DEF Behind
  <2> QED BY <2>1 DEF EvictLru
<1>4. Cardinality(D) \in Nat /\ IsFiniteSet(E) /\ Cardinality(E) \in Nat /\ Cardinality(E) <= Cardinality(D)
  <2>1. E \subseteq D OBVIOUS
  <2> HIDE DEF E, D
  <2> QED BY <2>1, <1>1, FS_Subset, FS_CardinalityType
<1>5. ASSUME NEW k \in D, k \notin E
      PROVE  E = D \ {k} /\ Cardinality(E) = MaxEntries /\ \A j \in E : map[k].turn < map[j].turn
  <2>1. \A j \in D : /\ behind(j) \subseteq D \ {j} /\ IsFiniteSet(D \ {j})
                     /\ IsFiniteSet(behind(j)) /\ Cardinality(behind(j)) \in Nat
                     /\ Cardinality(D \ {j}) = Cardinality(D) - 1
                     /\ Cardinality(behind(j)) <= Cardinality(D \ {j})
                     /\ Cardinality(behind(j)) = Cardinality(D \ {j}) => behind(j) = D \ {j}
    <3> SUFFICES ASSUME NEW j \in D
                 PROVE  /\ behind(j) \subseteq D \ {j} /\ IsFiniteSet(D \ {j})
                        /\ IsFiniteSet(behind(j)) /\ Cardinality(behind(j)) \in Nat
                        /\ Cardinality(D \ {j}) = Cardinality(D) - 1
                        /\ Cardinality(behind(j)) <= Cardinality(D \ {j})
                        /\ Cardinality(behind(j)) = Cardinality(D \ {j}) => behind(j) = D \ {j}
      OBVIOUS
    <3>1. behind(j) \subseteq D \ {j} BY <1>2
    <3>2. IsFiniteSet(D \ {j}) /\ Cardinality(D \ {j}) = Cardinality(D) - 1
      <4> HIDE DEF D
      <4> QED BY <1>1, FS_RemoveElement
    <3> HIDE DEF behind, D
    <3> QED BY <3>1, <3>2, FS_Subset, FS_CardinalityType
  <2>2. Cardinality(behind(k)) >= MaxEntries
    <3>1. Cardinality(behind(k)) \in Nat /\ ~(Cardinality(behind(k)) < MaxEntries) BY <1>5, <2>1
    <3> HIDE DEF behind, D
    <3> QED BY <3>1, <1>1
  <2>3. behind(k) = D \ {k} /\ Cardinality(D) = MaxEntries + 1
    <3> DEFINE n == Cardinality(behind(k))
               d == Cardinality(D \ {k})
    <3>1. n \in Nat /\ d = Cardinality(D) - 1 /\ n <= d /\ (n = d => behind(k) = D \ {k})
      BY <2>1
    <3>2. n >= MaxEntries BY <2>2
    <3> HIDE DEF n, d
    <3>3. n = d /\ Cardinality(D) = MaxEntries + 1
      <4> HIDE DEF D
      <4> QED BY <3>1, <3>2, <1>1, <1>4
    <3> QED BY <3>1, <3>3
  <2>4. ASSUME NEW j \in D, j # k PROVE j \in E
    <3>1. k \notin behind(j)
      <4>1. j \in behind(k) BY <2>3, <2>4
      <4> QED BY <4>1, <1>2
    <3>2. Cardinality(behind(j)) < Cardinality(D \ {j})
      <4> HIDE DEF behind, D
      <4> QED BY <2>1, <2>4, <3>1, <1>4
    <3> HIDE DEF behind, D
    <3>3. Cardinality(behind(j)) < MaxEntries BY <2>1, <2>3, <3>2, <1>1
    <3> QED BY <3>3
  <2>5. E = D \ {k} BY <1>5, <2>4
  <2>6. Cardinality(E) = MaxEntries
    <3> HIDE DEF behind, D, E
    <3> QED BY <2>1, <2>3, <2>5, <1>1
  <2> QED BY <2>3, <2>5, <2>6
<1>6. CASE D = E
  <2>1. ASSUME Cardinality(E) > MaxEntries PROVE FALSE
    <3>1. D # {}
      <4> HIDE DEF D, E
      <4> QED BY <2>1, <1>6, <1>1, FS_EmptySet
    <3> DEFINE turns == {map[k].turn : k \in D}
    <3>2. \E m \in turns : \A x \in turns : <<x, m>> \notin OpToRel(<, Nat)
      <4>1. turns \subseteq Nat /\ turns # {} BY <3>1, <1>2
      <4> HIDE DEF turns
      <4> QED BY <4>1, WFMin, NatLessThanWellFounded
    <3>3. PICK k \in D : \A j \in D : ~(map[j].turn < map[k].turn)
      <4>1. OpToRel(<, Nat) = {p \in Nat \X Nat : p[1] < p[2]} BY Zenon DEF OpToRel
      <4> QED BY <3>2, <4>1, <1>2
    <3>4. behind(k) = D \ {k} BY <3>3, <1>2
    <3>5. Cardinality(D \ {k}) = Cardinality(D) - 1
      <4> HIDE DEF D
      <4> QED BY <1>1, FS_RemoveElement
    <3>6. Cardinality(behind(k)) < MaxEntries BY <1>6
    <3> HIDE DEF behind, D, E
    <3> QED BY <2>1, <3>4, <3>5, <3>6, <1>1, <1>4, <1>6
  <2> QED BY <2>1, <1>1, <1>3, <1>4, <1>6
<1>7. CASE D # E
  <2>1. PICK k \in D : k \notin E BY <1>7
  <2>2. Cardinality(E) = MaxEntries BY <2>1, <1>5
  <2> QED BY <2>2, <1>1, <1>3, <1>4, <1>5
<1> QED BY <1>6, <1>7

\* What is put in comes in behind all others, and is there to stay.
LEMMA PutsIn ==
  ASSUME RatesTyped, InTurn, Turn \in Nat,
         NEW u \in Users, CountUser(u)
  PROVE  /\ hits' = [hits EXCEPT ![u] = Append(@, now)]
         /\ u \in DOMAIN rates' /\ DOMAIN rates' \subseteq DOMAIN rates \union {u}
         /\ rates'[u].turn = Turn
         /\ rates'[u].count = EntryFor(rates, u).count + 1
         /\ rates'[u].windowStart = EntryFor(rates, u).windowStart
         /\ \A k \in DOMAIN rates' : k # u => rates'[k] = rates[k]
         /\ rates' \in [DOMAIN rates' -> Entries]
         /\ IsFiniteSet(DOMAIN rates') /\ Cardinality(DOMAIN rates') <= MaxEntries
         /\ \A k \in DOMAIN rates \ DOMAIN rates' :
              /\ Cardinality(DOMAIN rates') = MaxEntries
              /\ \A j \in DOMAIN rates' : j # u => rates[k].turn < rates[j].turn
<1> DEFINE old == EntryFor(rates, u)
           entry == [old EXCEPT !.count = @ + 1, !.turn = Turn]
           map == [j \in DOMAIN rates \union {u} |-> IF j = u THEN entry ELSE rates[j]]
           D == DOMAIN rates
<1>1. /\ old \in Entries /\ entry \in Entries /\ entry.turn = Turn
      /\ entry.count = old.count + 1 /\ entry.windowStart = old.windowStart
  <2>1. old \in Entries
    <3>1. CASE u \in Remembered(rates)
      <4>1. old = rates[u] /\ u \in DOMAIN rates BY <3>1 DEF EntryFor, Remembered
      <4> QED BY <4>1 DEF RatesTyped
    <3>2. CASE u \notin Remembered(rates)
      <4>1. old = [count |-> 0, windowStart |-> now, turn |-> Turn]
        BY <3>2 DEF EntryFor
      <4> QED BY <4>1 DEF RatesTyped, Entries
    <3> QED BY <3>1, <3>2
  <2> DEFINE more == [old EXCEPT !.count = @ + 1]
  <2> HIDE DEF old
  <2>2. more \in Entries /\ more.count = old.count + 1 /\ more.windowStart = old.windowStart
    BY <2>1 DEF Entries
  <2>3. entry = [more EXCEPT !.turn = Turn] OBVIOUS
  <2> HIDE DEF more, entry
  <2> QED BY <2>1, <2>2, <2>3 DEF Entries
<1> HIDE DEF old, entry
<1>2. rates' = EvictLru(map) /\ hits' = [hits EXCEPT ![u] = Append(@, now)]
  BY DEF CountUser, Count, Put, old, entry
<1>3. map \in [DOMAIN map -> Entries] BY <1>1 DEF RatesTyped
<1>4. IsFiniteSet(DOMAIN map) /\ Cardinality(DOMAIN map) <= MaxEntries + 1
  <2>1. IsFiniteSet(D) /\ Cardinality(D) <= MaxEntries /\ Cardinality(D) \in Nat
    BY FS_CardinalityType DEF InTurn
  <2>2. DOMAIN map = D \union {u} OBVIOUS
  <2> HIDE DEF D, map
  <2>3. /\ IsFiniteSet(D \union {u})
        /\ Cardinality(D \union {u}) = IF u \in D THEN Cardinality(D) ELSE Cardinality(D) + 1
    BY <2>1, FS_AddElement
  <2>4. Cardinality(D \union {u}) <= MaxEntries + 1 BY <2>1, <2>3, SizesGiven
  <2> QED BY <2>2, <2>3, <2>4
<1>5. \A j, k \in DOMAIN map : j # k => map[j].turn # map[k].turn
  <2> SUFFICES ASSUME NEW j \in DOMAIN rates \union {u}, NEW k \in DOMAIN rates \union {u}, j # k
               PROVE  map[j].turn # map[k].turn
    OBVIOUS
  <2>1. \A i \in DOMAIN rates : rates[i].turn \in Nat /\ rates[i].turn < Turn
    BY DEF InTurn, RatesTyped, Entries
  <2>2. CASE j # u /\ k # u BY <2>2 DEF InTurn
  <2>3. CASE j = u \/ k = u BY <1>1, <2>1, <2>3
  <2> QED BY <2>2, <2>3
<1>6. /\ map[u] = entry /\ \A k \in DOMAIN rates : k # u => map[k] = rates[k]
      /\ DOMAIN map = DOMAIN rates \union {u}
  OBVIOUS
<1> HIDE DEF map
<1>7. /\ DOMAIN rates' \subseteq DOMAIN map /\ \A k \in DOMAIN rates' : rates'[k] = map[k]
      /\ rates' \in [DOMAIN rates' -> Entries]
      /\ IsFiniteSet(DOMAIN rates') /\ Cardinality(DOMAIN rates') <= MaxEntries
      /\ \A k \in DOMAIN map \ DOMAIN rates' :
           /\ Cardinality(DOMAIN rates') = MaxEntries
           /\ \A j \in DOMAIN rates' : map[k].turn < map[j].turn
  BY <1>2, <1>3, <1>4, <1>5, Drops
<1>8. u \in DOMAIN rates'
  <2> SUFFICES ASSUME u \notin DOMAIN rates' PROVE FALSE OBVIOUS
  <2>1. \A j \in DOMAIN rates' : j \in DOMAIN rates /\ map[u].turn < map[j].turn /\ map[j] = rates[j]
    BY <1>6, <1>7
  <2>2. DOMAIN rates' = {}
    <3> SUFFICES ASSUME NEW j \in DOMAIN rates' PROVE FALSE OBVIOUS
    <3>1. rates[j].turn \in Nat BY <2>1 DEF RatesTyped, Entries
    <3> QED BY <1>1, <1>6, <2>1, <3>1 DEF InTurn
  <2>3. Cardinality(DOMAIN rates') = MaxEntries BY <1>6, <1>7
  <2> QED BY <2>2, <2>3, SizesGiven, FS_EmptySet
<1> QED BY <1>1, <1>2, <1>6, <1>7, <1>8 DEF old

\* What a step does to the user's windows: it counts a request, or it lets time pass,
\* drops windows that are over, and leaves the rest alone.
Counts(u) ==
  /\ UnderLimit(rates, u, UserMax) /\ CountUser(u)
  /\ now' = now /\ Turn' = Turn + 1

Ages ==
  /\ hits' = hits /\ forgotten' = forgotten
  /\ now' \in Nat /\ now' >= now
  /\ Turn' \in Nat /\ Turn' >= Turn
  /\ rates' = [k \in DOMAIN rates' |-> rates[k]] /\ DOMAIN rates' \subseteq DOMAIN rates
  /\ \A k \in DOMAIN rates \ DOMAIN rates' : now - rates[k].windowStart >= Window

LEMMA TurnComes ==
  ASSUME SlotTypes
  PROVE  /\ Turn \in Nat
         /\ \A r \in Requests : \A x \in {"inFlight", "rejected"} :
              stage[r] = "new" /\ stage' = [stage EXCEPT ![r] = x] => Turn' = Turn + 1
         /\ \A r \in Requests : stage[r] = "inFlight" /\ stage' = [stage EXCEPT ![r] = "done"]
                             => Turn' = Turn
<1> DEFINE begun == {r \in Requests : stage[r] # "new"}
<1>1. IsFiniteSet(begun) /\ Cardinality(begun) \in Nat
  <2>1. begun \subseteq Requests OBVIOUS
  <2> HIDE DEF begun
  <2> QED BY <2>1, LimiterGiven, FS_Subset, FS_CardinalityType
<1>2. Turn = Cardinality(begun) BY DEF Turn
<1>3. Turn' = Cardinality(begun') BY DEF Turn
<1>4. ASSUME NEW r \in Requests, NEW x \in {"inFlight", "rejected"}, stage[r] = "new", stage' = [stage EXCEPT ![r] = x]
      PROVE  Turn' = Turn + 1
  <2>1. begun' = begun \union {r} /\ r \notin begun BY <1>4 DEF SlotTypes
  <2> HIDE DEF begun
  <2> QED BY <1>1, <1>2, <1>3, <2>1, FS_AddElement
<1>5. ASSUME NEW r \in Requests, stage[r] = "inFlight", stage' = [stage EXCEPT ![r] = "done"]
      PROVE  Turn' = Turn
  <2>1. begun' = begun BY <1>5 DEF SlotTypes
  <2> QED BY <1>2, <1>3, <2>1
<1> QED BY <1>1, <1>2, <1>4, <1>5

LEMMA Kinds ==
  ASSUME SlotTypes, RatesTyped, [LimiterNext]_limiterVars
  PROVE  (\E u \in Users : Counts(u)) \/ Ages
<1>1. Turn \in Nat BY TurnComes
<1>2. ASSUME UNCHANGED <<hits, rates, forgotten, now>>, Turn' \in {Turn, Turn + 1}
      PROVE  Ages
  BY <1>1, <1>2 DEF Ages, RatesTyped
<1>3. ASSUME NEW r \in Requests, RejectUser(r) PROVE Ages
  <2>1. Turn' = Turn + 1 BY <1>3, TurnComes DEF RejectUser
  <2> QED BY <1>2, <1>3, <2>1 DEF RejectUser
<1>4. ASSUME NEW r \in Requests,
             RejectAddress(r) \/ RejectSlot(r) \/ AcquireSlot(r)
      PROVE  \E u \in Users : Counts(u)
  <2>1. UserOf[r] \in Users BY LimiterGiven
  <2>2. \E x \in {"inFlight", "rejected"} : stage[r] = "new" /\ stage' = [stage EXCEPT ![r] = x]
    BY <1>4 DEF RejectAddress, RejectSlot, AcquireSlot, PassRates
  <2>3. Turn' = Turn + 1 BY <2>2, TurnComes
  <2>4. /\ now' = now /\ UnderLimit(rates, UserOf[r], UserMax)
        /\ CountUser(UserOf[r])
    BY <1>4 DEF RejectAddress, RejectSlot, AcquireSlot, PassRates
  <2> QED BY <2>1, <2>3, <2>4 DEF Counts
<1>5. ASSUME NEW r \in Requests, Finish(r) PROVE Ages
  <2>1. Turn' = Turn BY <1>5, TurnComes DEF Finish
  <2> QED BY <1>2, <1>5, <2>1 DEF Finish
<1>6. ASSUME UNCHANGED stage PROVE Turn' = Turn BY <1>6 DEF Turn
<1>7. CASE EvictExpired
  <2>1. Turn' = Turn BY <1>6, <1>7 DEF EvictExpired
  <2>2. /\ UNCHANGED <<hits, forgotten, now>>
        /\ rates' = [k \in Remembered(rates) |-> rates[k]]
    BY <1>7 DEF EvictExpired
  <2>3. \A k \in DOMAIN rates \ DOMAIN rates' : now - rates[k].windowStart >= Window
    BY <2>2 DEF Remembered, Expired
  <2>4. DOMAIN rates' = Remembered(rates) /\ DOMAIN rates' \subseteq DOMAIN rates
    BY <2>2 DEF Remembered
  <2>5. rates' = [k \in DOMAIN rates' |-> rates[k]] BY <2>2, <2>4
  <2> QED BY <1>1, <2>1, <2>2, <2>3, <2>4, <2>5 DEF Ages, RatesTyped
<1>8. CASE ClockTick
  <2>1. Turn' = Turn BY <1>6, <1>8 DEF ClockTick
  <2> QED BY <1>1, <1>8, <2>1 DEF Ages, RatesTyped, ClockTick
<1>9. CASE UNCHANGED limiterVars
  <2>1. Turn' = Turn BY <1>6, <1>9 DEF limiterVars
  <2> QED BY <1>2, <1>9, <2>1 DEF limiterVars
<1> QED BY <1>3, <1>4, <1>5, <1>7, <1>8, <1>9 DEF LimiterNext

\* A window that is over leaves a user free to open another.
LEMMA OverIsNone ==
  ASSUME RatesTyped, NEW u \in DOMAIN rates, InWindow(u),
         now - rates[u].windowStart >= Window
  PROVE  NoWindow(u)
<1> DEFINE h == hits[u]
           s == rates[u].windowStart
           n == rates[u].count
<1>1. h \in Seq(Nat) /\ s \in Nat /\ n \in Nat /\ now \in Nat BY DEF RatesTyped, Entries
<1>2. s + Window <= now BY <1>1, SizesGiven
<1>3. HitsFrom(h, now) = 0
  <2>1. HitsFrom(h, s + Window) = 0 BY DEF InWindow
  <2>2. HitsFrom(h, now) <= HitsFrom(h, s + Window) BY <1>1, <1>2, HitsFromFalls, SizesGiven
  <2>3. HitsFrom(h, now) \in Nat BY <1>1, HitsFromFinite
  <2> HIDE DEF h, s
  <2> QED BY <2>1, <2>2, <2>3
<1>4. ASSUME NEW t \in Nat, now < t + Window PROVE HitsFrom(h, t) < UserMax
  <2>1. t > s BY <1>1, <1>2, <1>4, SizesGiven
  <2>2. HitsFrom(h, t) < n /\ n <= UserMax BY <2>1 DEF InWindow
  <2>3. HitsFrom(h, t) \in Nat BY <1>1, HitsFromFinite
  <2> HIDE DEF h, n
  <2> QED BY <1>1, <2>2, <2>3, SizesGiven
<1> QED BY <1>3, <1>4 DEF NoWindow

LEMMA NoneStays ==
  ASSUME RatesTyped, NEW u \in Users, NoWindow(u), Ages
  PROVE  NoWindow(u)'
<1> DEFINE h == hits[u]
<1>1. h \in Seq(Nat) /\ now \in Nat /\ now' \in Nat /\ now' >= now /\ hits' = hits
  BY DEF RatesTyped, Ages
<1>2. HitsFrom(h, now') = 0
  <2>1. HitsFrom(h, now') <= HitsFrom(h, now) BY <1>1, HitsFromFalls
  <2>2. HitsFrom(h, now') \in Nat BY <1>1, HitsFromFinite
  <2> QED BY <2>1, <2>2 DEF NoWindow
<1>3. ASSUME NEW t \in Nat, now' < t + Window PROVE HitsFrom(h, t) < UserMax
  <2>1. now < t + Window BY <1>1, <1>3, SizesGiven
  <2> QED BY <2>1 DEF NoWindow
<1> QED BY <1>1, <1>2, <1>3 DEF NoWindow

\* What a request that is counted makes of its user's window: a new one ...
LEMMA Opens ==
  ASSUME RatesTyped, NEW u \in Users, NoWindow(u), now' = now,
         hits'[u] = Append(hits[u], now),
         rates'[u].windowStart = now, rates'[u].count = 1
  PROVE  InWindow(u)'
<1> DEFINE h == hits[u]
           more == Append(h, now)
<1>1. h \in Seq(Nat) /\ now \in Nat BY DEF RatesTyped
<1>2. \A t \in Nat : /\ t <= now => HitsFrom(more, t) = HitsFrom(h, t) + 1
                     /\ t > now => HitsFrom(more, t) = HitsFrom(h, t)
                     /\ HitsFrom(h, t) \in Nat
  <2> HIDE DEF h
  <2>1. \A t \in Nat : HitsFrom(h, t) \in Nat BY <1>1, HitsFromFinite
  <2>2. \A t \in Nat : /\ t <= now => HitsFrom(more, t) = HitsFrom(h, t) + 1
                       /\ t > now => HitsFrom(more, t) = HitsFrom(h, t)
    BY <1>1, HitsFromGrows
  <2> QED BY <2>1, <2>2
<1>3. /\ HitsFrom(h, now) = 0
      /\ \A t \in Nat : now < t + Window => HitsFrom(h, t) < UserMax
  BY DEF NoWindow
<1>4. \A t \in Nat : t > now => HitsFrom(more, t) = 0
  <2> SUFFICES ASSUME NEW t \in Nat, t > now PROVE HitsFrom(more, t) = 0 OBVIOUS
  <2>1. HitsFrom(h, t) <= HitsFrom(h, now) BY <1>1, HitsFromFalls
  <2> HIDE DEF h, more
  <2> QED BY <1>2, <1>3, <2>1
<1>5. HitsFrom(more, now) = 1 /\ HitsFrom(more, now + Window) = 0
  <2>1. HitsFrom(more, now) = HitsFrom(h, now) + 1 BY <1>1, <1>2
  <2>2. now + Window \in Nat /\ now + Window > now BY <1>1, SizesGiven
  <2> HIDE DEF h, more
  <2> QED BY <1>3, <1>4, <2>1, <2>2
<1>6. \A t \in Nat : t <= now /\ now < t + Window => HitsFrom(more, t) < 1 + UserMax
  <2> SUFFICES ASSUME NEW t \in Nat, t <= now, now < t + Window
               PROVE  HitsFrom(more, t) < 1 + UserMax
    OBVIOUS
  <2>1. HitsFrom(more, t) = HitsFrom(h, t) + 1 /\ HitsFrom(h, t) \in Nat /\ HitsFrom(h, t) < UserMax
    BY <1>2, <1>3
  <2> HIDE DEF h, more
  <2> QED BY <2>1, SizesGiven
<1>7. hits'[u] = more OBVIOUS
<1> HIDE DEF more, h
<1> QED BY <1>1, <1>4, <1>5, <1>6, <1>7, SizesGiven DEF InWindow

\* ... or one more in the one it has.
LEMMA Fills ==
  ASSUME RatesTyped, NEW u \in DOMAIN rates, InWindow(u), now' = now,
         now - rates[u].windowStart < Window, rates[u].count < UserMax,
         hits'[u] = Append(hits[u], now),
         rates'[u].windowStart = rates[u].windowStart, rates'[u].count = rates[u].count + 1
  PROVE  InWindow(u)'
<1> DEFINE h == hits[u]
           more == Append(h, now)
           s == rates[u].windowStart
           n == rates[u].count
<1>1. h \in Seq(Nat) /\ now \in Nat /\ s \in Nat /\ n \in Nat BY DEF RatesTyped, Entries
<1>2. \A t \in Nat : /\ t <= now => HitsFrom(more, t) = HitsFrom(h, t) + 1
                     /\ t > now => HitsFrom(more, t) = HitsFrom(h, t)
                     /\ HitsFrom(h, t) \in Nat
  <2> HIDE DEF h
  <2>1. \A t \in Nat : HitsFrom(h, t) \in Nat BY <1>1, HitsFromFinite
  <2>2. \A t \in Nat : /\ t <= now => HitsFrom(more, t) = HitsFrom(h, t) + 1
                       /\ t > now => HitsFrom(more, t) = HitsFrom(h, t)
    BY <1>1, HitsFromGrows
  <2> QED BY <2>1, <2>2
<1>3. /\ s <= now /\ n = HitsFrom(h, s)
      /\ \A t \in Nat : t > s => HitsFrom(h, t) < n
      /\ HitsFrom(h, s + Window) = 0
      /\ \A t \in Nat : t <= s /\ s < t + Window => HitsFrom(h, t) < n + UserMax
  BY DEF InWindow
<1>4. now < s + Window /\ s + Window \in Nat BY <1>1, SizesGiven
<1>5. /\ hits'[u] = more /\ rates'[u].windowStart = s /\ rates'[u].count = n + 1
      /\ n < UserMax
  OBVIOUS
<1> HIDE DEF h, more, s, n
<1>6. HitsFrom(more, s) = n + 1 /\ n + 1 <= UserMax BY <1>1, <1>2, <1>3, <1>5, SizesGiven
<1>7. HitsFrom(more, s + Window) = 0 BY <1>1, <1>2, <1>3, <1>4
<1>8. \A t \in Nat : t > s => HitsFrom(more, t) < n + 1
  <2> SUFFICES ASSUME NEW t \in Nat, t > s PROVE HitsFrom(more, t) < n + 1 OBVIOUS
  <2>1. HitsFrom(h, t) < n /\ HitsFrom(h, t) \in Nat BY <1>2, <1>3
  <2>2. HitsFrom(more, t) = HitsFrom(h, t) \/ HitsFrom(more, t) = HitsFrom(h, t) + 1 BY <1>1, <1>2
  <2> QED BY <1>1, <2>1, <2>2
<1>9. \A t \in Nat : t <= s /\ s < t + Window => HitsFrom(more, t) < n + 1 + UserMax
  <2> SUFFICES ASSUME NEW t \in Nat, t <= s, s < t + Window PROVE HitsFrom(more, t) < n + 1 + UserMax
    OBVIOUS
  <2>1. HitsFrom(h, t) < n + UserMax /\ HitsFrom(h, t) \in Nat BY <1>2, <1>3
  <2>2. HitsFrom(more, t) = HitsFrom(h, t) \/ HitsFrom(more, t) = HitsFrom(h, t) + 1 BY <1>1, <1>2
  <2> QED BY <1>1, <2>1, <2>2, SizesGiven
<1> QED BY <1>3, <1>5, <1>6, <1>7, <1>8, <1>9 DEF InWindow

\* Either way the stretches of a window's length that end now are not too full: what
\* lies in the window is limited, and so is what lies before it.
LEMMA SlidesOn ==
  ASSUME RatesTyped, RatesTyped', NEW u \in DOMAIN rates', Slides(u),
         InWindow(u)', now' = now, hits'[u] = Append(hits[u], now)
  PROVE  Slides(u)'
<1> DEFINE h == hits[u]
           more == Append(h, now)
           s == rates'[u].windowStart
           n == rates'[u].count
<1>1. h \in Seq(Nat) /\ now \in Nat /\ s \in Nat /\ n \in Nat BY DEF RatesTyped, Entries
<1>2. \A t \in Nat : /\ t <= now => HitsFrom(more, t) = HitsFrom(h, t) + 1
                     /\ HitsFrom(more, t) \in Nat /\ HitsFrom(h, t) \in Nat
  <2>1. more \in Seq(Nat) BY <1>1
  <2> HIDE DEF h
  <2>2. \A t \in Nat : HitsFrom(more, t) \in Nat /\ HitsFrom(h, t) \in Nat BY <1>1, <2>1, HitsFromFinite
  <2>3. \A t \in Nat : t <= now => HitsFrom(more, t) = HitsFrom(h, t) + 1 BY <1>1, HitsFromGrows
  <2> QED BY <2>2, <2>3
<1>3. /\ s <= now /\ n <= UserMax
      /\ \A t \in Nat : t > s => HitsFrom(more, t) < n
      /\ \A t \in Nat : t <= s /\ s < t + Window => HitsFrom(more, t) < n + UserMax
  BY DEF InWindow
<1>4. hits'[u] = more OBVIOUS
<1>5. \A t \in Nat : HitsFrom(h, t) < HitsFrom(h, t + Window) + 2 * UserMax BY DEF Slides
<1> HIDE DEF h, more, s, n
<1>6. ASSUME NEW t \in Nat PROVE HitsFrom(more, t) < HitsFrom(more, t + Window) + 2 * UserMax
  <2>1. t + Window \in Nat /\ t <= t + Window BY SizesGiven
  <2>2. CASE t + Window <= now
    <3>1. t <= now BY <1>1, <2>1, <2>2
    <3>2. /\ HitsFrom(more, t) = HitsFrom(h, t) + 1 /\ HitsFrom(more, t + Window) = HitsFrom(h, t + Window) + 1
          /\ HitsFrom(h, t) \in Nat /\ HitsFrom(h, t + Window) \in Nat
      BY <1>2, <2>1, <2>2, <3>1
    <3>3. HitsFrom(h, t) < HitsFrom(h, t + Window) + 2 * UserMax BY <1>5
    <3> QED BY <3>2, <3>3, SizesGiven
  <2>3. CASE now < t + Window
    <3>1. HitsFrom(more, t) < n + UserMax
      <4>1. HitsFrom(more, t) \in Nat BY <1>2
      <4>2. CASE t > s
        <5>1. HitsFrom(more, t) < n BY <1>3, <4>2
        <5> QED BY <1>1, <4>1, <5>1, SizesGiven
      <4>3. CASE t <= s
        <5>1. s < t + Window BY <1>1, <1>3, <2>1, <2>3
        <5> QED BY <1>3, <4>3, <5>1
      <4> QED BY <1>1, <4>2, <4>3
    <3>2. HitsFrom(more, t) \in Nat /\ HitsFrom(more, t + Window) \in Nat BY <1>2, <2>1
    <3> QED BY <1>1, <1>3, <3>1, <3>2, SizesGiven
  <2> QED BY <1>1, <2>1, <2>2, <2>3
<1> QED BY <1>4, <1>6 DEF Slides

LEMMA RatesInit ==
  ASSUME LimiterInit PROVE RatesInv
<1>1. /\ now = 0 /\ rates = <<>> /\ hits = [u \in Users |-> <<>>] BY DEF LimiterInit
<1>2. DOMAIN rates = {} BY <1>1
<1>3. RatesTyped
  <2>1. rates = [k \in {} |-> 0] BY <1>1
  <2>2. rates \in [{} -> Entries] BY <2>1
  <2> QED BY <1>1, <1>2, <2>2 DEF RatesTyped
<1>4. InTurn BY <1>2, SizesGiven, FS_EmptySet DEF InTurn
<1>5. LastHits BY <1>1, <1>2 DEF LastHits
<1>6. ASSUME NEW u \in Users, NEW t \in Nat PROVE HitsFrom(hits[u], t) = 0
  <2>1. {i \in DOMAIN hits[u] : hits[u][i] >= t} = {} BY <1>1
  <2> QED BY <2>1, FS_EmptySet DEF HitsFrom
<1>7. ASSUME NEW u \in Users PROVE NoWindow(u) /\ Slides(u)
  <2>1. NoWindow(u) BY <1>1, <1>6, SizesGiven DEF NoWindow
  <2>2. ASSUME NEW t \in Nat PROVE HitsFrom(hits[u], t) < HitsFrom(hits[u], t + Window) + 2 * UserMax
    <3>1. HitsFrom(hits[u], t) = 0 /\ HitsFrom(hits[u], t + Window) = 0 BY <1>6, SizesGiven
    <3> QED BY <3>1, SizesGiven
  <2> QED BY <2>1, <2>2 DEF Slides
<1> QED BY <1>2, <1>3, <1>4, <1>5, <1>7 DEF RatesInv, Windows

\* The request that is counted is the last of its user.
LEMMA HitIsLast ==
  ASSUME RatesTyped, LastHits, NEW u \in Users, hits' = [hits EXCEPT ![u] = Append(@, now)]
  PROVE  /\ hits' \in [Users -> Seq(Nat)]
         /\ hits'[u] = Append(hits[u], now)
         /\ hits'[u] # <<>> /\ LastHit(hits', u) = now
         /\ \A k \in Users : k # u => hits'[k] = hits[k] /\ LastHit(hits', k) = LastHit(hits, k)
         /\ \A k \in Users : \A i \in DOMAIN hits'[k] : hits'[k][i] <= now
         /\ \A k \in Users : hits[k] # <<>> => LastHit(hits, k) <= now
<1>1. now \in Nat /\ hits \in [Users -> Seq(Nat)] BY DEF RatesTyped
<1>2. hits'[u] = Append(hits[u], now) /\ \A k \in Users : k # u => hits'[k] = hits[k] BY <1>1
<1>3. hits[u] \in Seq(Nat) BY <1>1
<1> DEFINE h == hits[u]
<1> HIDE DEF h
<1>4. /\ h \in Seq(Nat) => /\ Append(h, now) \in Seq(Nat) /\ Append(h, now) # <<>>
                           /\ Len(Append(h, now)) = Len(h) + 1
                           /\ Append(h, now)[Len(h) + 1] = now
                           /\ DOMAIN Append(h, now) = DOMAIN h \union {Len(h) + 1}
                           /\ \A i \in DOMAIN h : Append(h, now)[i] = h[i]
  BY <1>1
<1>5. /\ hits'[u] \in Seq(Nat) /\ hits'[u] # <<>> /\ Len(hits'[u]) = Len(hits[u]) + 1
      /\ hits'[u][Len(hits[u]) + 1] = now
      /\ DOMAIN hits'[u] = DOMAIN hits[u] \union {Len(hits[u]) + 1}
      /\ \A i \in DOMAIN hits[u] : hits'[u][i] = hits[u][i]
  BY <1>2, <1>3, <1>4 DEF h
<1>6. hits' \in [Users -> Seq(Nat)] BY <1>1, <1>5
<1>7. LastHit(hits', u) = now BY <1>5 DEF LastHit
<1>8. \A k \in Users : k # u => LastHit(hits', k) = LastHit(hits, k)
  BY <1>2 DEF LastHit
<1>9. \A k \in Users : \A i \in DOMAIN hits'[k] : hits'[k][i] <= now
  <2> SUFFICES ASSUME NEW k \in Users, NEW i \in DOMAIN hits'[k] PROVE hits'[k][i] <= now OBVIOUS
  <2>1. CASE k # u BY <1>2, <2>1 DEF LastHits
  <2>2. CASE k = u
    <3>1. CASE i \in DOMAIN hits[u] BY <1>5, <2>2, <3>1 DEF LastHits
    <3>2. CASE i = Len(hits[u]) + 1 BY <1>1, <1>5, <2>2, <3>2
    <3> QED BY <1>5, <2>2, <3>1, <3>2
  <2> QED BY <2>1, <2>2
<1>10. ASSUME NEW k \in Users, hits[k] # <<>> PROVE LastHit(hits, k) <= now
  <2>1. hits[k] \in Seq(Nat) BY <1>1
  <2>2. Len(hits[k]) \in DOMAIN hits[k] BY <1>10, <2>1
  <2> QED BY <2>2 DEF LastHits, LastHit
<1> QED BY <1>2, <1>5, <1>6, <1>7, <1>8, <1>9, <1>10

\* A request that is counted leaves the Map in turn, and in the order of the last hits.
LEMMA OrderKept ==
  ASSUME Turn \in Nat, RatesTyped, InTurn, LastHits,
         NEW u \in Users, Counts(u)
  PROVE  RatesTyped' /\ InTurn' /\ LastHits'
<1>1. /\ hits' = [hits EXCEPT ![u] = Append(@, now)]
      /\ u \in DOMAIN rates' /\ DOMAIN rates' \subseteq DOMAIN rates \union {u}
      /\ rates'[u].turn = Turn
      /\ \A k \in DOMAIN rates' : k # u => rates'[k] = rates[k] /\ k \in DOMAIN rates
      /\ rates' \in [DOMAIN rates' -> Entries]
      /\ IsFiniteSet(DOMAIN rates') /\ Cardinality(DOMAIN rates') <= MaxEntries
      /\ now' = now /\ Turn' = Turn + 1
  BY PutsIn DEF Counts
<1>2. /\ hits' \in [Users -> Seq(Nat)]
      /\ hits'[u] # <<>> /\ LastHit(hits', u) = now
      /\ \A k \in Users : k # u => hits'[k] = hits[k] /\ LastHit(hits', k) = LastHit(hits, k)
      /\ \A k \in Users : \A i \in DOMAIN hits'[k] : hits'[k][i] <= now
      /\ \A k \in Users : hits[k] # <<>> => LastHit(hits, k) <= now
  BY <1>1, HitIsLast
<1>3. RatesTyped' BY <1>1, <1>2 DEF RatesTyped
<1>4. \A k \in DOMAIN rates : rates[k].turn \in Nat /\ rates[k].turn < Turn
  BY DEF RatesTyped, InTurn, Entries
<1>5. InTurn'
  <2>1. ASSUME NEW k \in DOMAIN rates' PROVE rates'[k].turn < Turn'
    BY <1>1, <1>4
  <2>2. ASSUME NEW j \in DOMAIN rates', NEW k \in DOMAIN rates', j # k
        PROVE  rates'[j].turn # rates'[k].turn
    <3>1. CASE j # u /\ k # u BY <1>1, <2>2, <3>1 DEF InTurn
    <3>2. CASE j = u \/ k = u BY <1>1, <1>4, <2>2, <3>2
    <3> QED BY <3>1, <3>2
  <2> QED BY <1>1, <2>1, <2>2 DEF InTurn
<1>6. LastHits'
  <2>1. ASSUME NEW k \in DOMAIN rates' PROVE k \in Users /\ hits'[k] # <<>>
    BY <1>1, <1>2 DEF RatesTyped, LastHits
  <2>2. ASSUME NEW j \in DOMAIN rates', NEW k \in DOMAIN rates', rates'[j].turn <= rates'[k].turn
        PROVE  LastHit(hits', j) <= LastHit(hits', k)
    <3>1. CASE j # u /\ k # u
      <4>1. j \in DOMAIN rates /\ k \in DOMAIN rates /\ rates[j].turn <= rates[k].turn
        BY <1>1, <2>2, <3>1
      <4>2. LastHit(hits, j) <= LastHit(hits, k) BY <4>1 DEF LastHits
      <4> QED BY <1>2, <2>1, <3>1, <4>2
    <3>2. CASE k = u
      <4>1. CASE j = u BY <1>2, <3>2, <4>1 DEF RatesTyped
      <4>2. CASE j # u
        <5>1. j \in DOMAIN rates /\ j \in Users /\ hits[j] # <<>> BY <1>1, <2>1, <4>2 DEF LastHits
        <5> QED BY <1>2, <3>2, <4>2, <5>1
      <4> QED BY <4>1, <4>2
    <3>3. CASE j = u /\ k # u
      <4>1. k \in DOMAIN rates /\ rates'[k] = rates[k] BY <1>1, <3>3
      <4> QED BY <1>1, <1>4, <2>2, <3>3, <4>1
    <3> QED BY <3>1, <3>2, <3>3
  <2> QED BY <1>1, <1>2, <2>1, <2>2 DEF LastHits
<1> QED BY <1>3, <1>5, <1>6

\* ... and every window as it must be.
LEMMA WindowsKept ==
  ASSUME Turn \in Nat, RatesInv, NEW u \in Users, Counts(u)
  PROVE  Windows'
<1>1. /\ hits' = [hits EXCEPT ![u] = Append(@, now)]
      /\ u \in DOMAIN rates' /\ DOMAIN rates' \subseteq DOMAIN rates \union {u}
      /\ rates'[u].count = EntryFor(rates, u).count + 1
      /\ rates'[u].windowStart = EntryFor(rates, u).windowStart
      /\ \A k \in DOMAIN rates' : k # u => rates'[k] = rates[k] /\ k \in DOMAIN rates
      /\ now' = now
  BY PutsIn DEF Counts, RatesInv
<1>2. RatesTyped' BY OrderKept DEF RatesInv
<1>3. hits'[u] = Append(hits[u], now) /\ \A k \in Users : k # u => hits'[k] = hits[k]
  BY <1>1 DEF RatesInv, RatesTyped
<1>4. /\ EntryFor(rates, u).count < UserMax
      /\ forgotten' = forgotten \union (Remembered(rates) \ Remembered(rates'))
  BY DEF Counts, UnderLimit, CountUser
<1>5. ASSUME NEW k \in DOMAIN rates, k \notin Remembered(rates), InWindow(k) PROVE NoWindow(k)
  <2>1. now - rates[k].windowStart >= Window BY <1>5 DEF Remembered, Expired
  <2> QED BY <1>5, <2>1, OverIsNone DEF RatesInv
<1>6. ASSUME u \notin forgotten PROVE InWindow(u)' /\ Slides(u)'
  <2>1. InWindow(u)'
    <3>1. CASE u \in Remembered(rates)
      <4>1. u \in DOMAIN rates /\ ~(now - rates[u].windowStart >= Window)
        BY <3>1 DEF Remembered, Expired
      <4>2. EntryFor(rates, u) = rates[u] BY <3>1 DEF EntryFor
      <4>3. now - rates[u].windowStart < Window
        <5>1. now \in Nat /\ rates[u].windowStart \in Nat BY <4>1 DEF RatesInv, RatesTyped, Entries
        <5> QED BY <4>1, <5>1, SizesGiven
      <4>4. InWindow(u) BY <1>6, <4>1 DEF RatesInv, Windows
      <4> QED BY <1>1, <1>3, <1>4, <4>1, <4>2, <4>3, <4>4, Fills DEF RatesInv
    <3>2. CASE u \notin Remembered(rates)
      <4>1. EntryFor(rates, u).count = 0 /\ EntryFor(rates, u).windowStart = now
        BY <3>2 DEF EntryFor
      <4>2. NoWindow(u) BY <1>5, <1>6, <3>2 DEF RatesInv, Windows
      <4> QED BY <1>1, <1>3, <4>1, <4>2, Opens DEF RatesInv
    <3> QED BY <3>1, <3>2
  <2>2. Slides(u) BY <1>6 DEF RatesInv, Windows
  <2> QED BY <1>1, <1>2, <1>3, <2>1, <2>2, SlidesOn DEF RatesInv
<1>7. ASSUME NEW v \in Users \ forgotten, v # u
      PROVE  /\ v \in DOMAIN rates' => InWindow(v)'
             /\ v \notin DOMAIN rates' => NoWindow(v)' \/ v \in forgotten'
             /\ Slides(v)'
  <2>1. /\ v \in DOMAIN rates => InWindow(v)
        /\ v \notin DOMAIN rates => NoWindow(v)
        /\ Slides(v)
    BY <1>7 DEF RatesInv, Windows
  <2>2. hits'[v] = hits[v] BY <1>3, <1>7
  <2>3. v \in DOMAIN rates' => InWindow(v)' BY <1>1, <1>7, <2>1, <2>2 DEF InWindow
  <2>4. Slides(v)' BY <2>1, <2>2 DEF Slides
  <2>5. ASSUME v \notin DOMAIN rates', v \notin forgotten' PROVE NoWindow(v)'
    <3>1. v \notin Remembered(rates) BY <1>4, <2>5 DEF Remembered
    <3>2. NoWindow(v) BY <1>5, <2>1, <3>1
    <3> QED BY <1>1, <2>2, <3>2 DEF NoWindow
  <2> QED BY <2>3, <2>4, <2>5
<1> QED BY <1>1, <1>4, <1>6, <1>7 DEF Windows

LEMMA RatesAge ==
  ASSUME Turn \in Nat, RatesInv, Ages PROVE RatesInv'
<1>1. /\ hits' = hits /\ forgotten' = forgotten /\ now' \in Nat /\ now' >= now /\ now \in Nat
      /\ DOMAIN rates' \subseteq DOMAIN rates /\ \A k \in DOMAIN rates' : rates'[k] = rates[k]
      /\ rates' \in [DOMAIN rates' -> Entries]
      /\ \A k \in DOMAIN rates \ DOMAIN rates' : now - rates[k].windowStart >= Window
  BY DEF Ages, RatesInv, RatesTyped
<1>2. RatesTyped' BY <1>1 DEF RatesInv, RatesTyped
<1>3. InTurn'
  <2>1. IsFiniteSet(DOMAIN rates') /\ Cardinality(DOMAIN rates') <= MaxEntries
    <3>1. IsFiniteSet(DOMAIN rates) /\ Cardinality(DOMAIN rates) <= MaxEntries BY DEF RatesInv, InTurn
    <3>2. /\ IsFiniteSet(DOMAIN rates') /\ Cardinality(DOMAIN rates') <= Cardinality(DOMAIN rates)
      BY <1>1, <3>1, FS_Subset
    <3>3. Cardinality(DOMAIN rates') \in Nat /\ Cardinality(DOMAIN rates) \in Nat
      BY <3>1, <3>2, FS_CardinalityType
    <3> QED BY <3>1, <3>2, <3>3, SizesGiven
  <2>2. ASSUME NEW k \in DOMAIN rates' PROVE rates'[k].turn < Turn'
    <3>1. rates[k].turn \in Nat /\ rates[k].turn < Turn BY <1>1 DEF RatesInv, RatesTyped, InTurn, Entries
    <3>2. rates[k].turn < Turn'
      <4>1. Turn' \in Nat /\ Turn' >= Turn BY DEF Ages
      <4> QED BY <3>1, <4>1
    <3> QED BY <1>1, <3>2
  <2> QED BY <1>1, <2>1, <2>2 DEF RatesInv, InTurn
<1>4. LastHits'
  <2>1. \A u \in Users : \A i \in DOMAIN hits[u] : hits[u][i] <= now'
    <3> SUFFICES ASSUME NEW u \in Users, NEW i \in DOMAIN hits[u] PROVE hits[u][i] <= now' OBVIOUS
    <3>1. hits[u] \in Seq(Nat) BY DEF RatesInv, RatesTyped
    <3>2. hits[u][i] \in Nat BY <3>1
    <3>3. hits[u][i] <= now BY DEF RatesInv, LastHits
    <3> QED BY <1>1, <3>2, <3>3
  <2> QED BY <1>1, <2>1 DEF RatesInv, LastHits, LastHit
<1>5. ASSUME NEW u \in Users \ forgotten
      PROVE  /\ u \in DOMAIN rates' => InWindow(u)'
             /\ u \notin DOMAIN rates' => NoWindow(u)'
             /\ Slides(u)'
  <2>1. /\ u \in DOMAIN rates => InWindow(u)
        /\ u \notin DOMAIN rates => NoWindow(u)
        /\ Slides(u)
    BY DEF RatesInv, Windows
  <2>2. ASSUME u \in DOMAIN rates' PROVE InWindow(u)'
    <3>1. InWindow(u) /\ rates'[u] = rates[u] /\ rates[u].windowStart \in Nat
      BY <1>1, <2>1, <2>2 DEF RatesInv, RatesTyped, Entries
    <3>2. rates[u].windowStart <= now'
      <4>1. rates[u].windowStart <= now BY <3>1 DEF InWindow
      <4> QED BY <1>1, <3>1, <4>1
    <3> QED BY <1>1, <3>1, <3>2 DEF InWindow
  <2>3. ASSUME u \notin DOMAIN rates' PROVE NoWindow(u)'
    <3>1. NoWindow(u) BY <1>1, <2>1, <2>3, OverIsNone DEF RatesInv
    <3> QED BY <3>1, NoneStays DEF RatesInv
  <2>4. Slides(u)' BY <1>1, <2>1 DEF Slides
  <2> QED BY <2>2, <2>3, <2>4
<1> QED BY <1>1, <1>2, <1>3, <1>4, <1>5 DEF RatesInv, Windows

LEMMA RatesStep ==
  ASSUME LimiterInv, RatesInv, [LimiterNext]_limiterVars
  PROVE  RatesInv'
<1>1. Turn \in Nat BY TurnComes DEF LimiterInv
<1>2. ASSUME NEW u \in Users, Counts(u) PROVE RatesInv'
  <2>1. RatesTyped' /\ InTurn' /\ LastHits' BY <1>1, <1>2, OrderKept DEF RatesInv
  <2>2. Windows' BY <1>1, <1>2, WindowsKept
  <2> QED BY <2>1, <2>2 DEF RatesInv
<1>3. CASE Ages BY <1>1, <1>3, RatesAge
<1> QED BY <1>2, <1>3, Kinds DEF LimiterInv, RatesInv

\* No user gets twice the limit through in a stretch of one window's length, wherever it
\* begins, unless an overflow made the limiter forget its window (checkLimit).
THEOREM StretchesBounded ==
  LimiterSpec => []SlidingBound
<1>1. RatesInv => SlidingBound
  <2> SUFFICES ASSUME RatesInv, NEW u \in Users \ forgotten, NEW t \in 0..now
               PROVE  HitsSince(u, t) - HitsSince(u, t + Window) < 2 * UserMax
    BY DEF SlidingBound
  <2>1. t \in Nat /\ t + Window \in Nat /\ hits[u] \in Seq(Nat) BY SizesGiven DEF RatesInv, RatesTyped
  <2>2. /\ HitsSince(u, t) = HitsFrom(hits[u], t)
        /\ HitsSince(u, t + Window) = HitsFrom(hits[u], t + Window)
    BY DEF HitsSince, HitsFrom
  <2>3. HitsFrom(hits[u], t) < HitsFrom(hits[u], t + Window) + 2 * UserMax
    BY <2>1 DEF RatesInv, Windows, Slides
  <2>4. HitsFrom(hits[u], t) \in Nat /\ HitsFrom(hits[u], t + Window) \in Nat BY <2>1, HitsFromFinite
  <2> QED BY <2>2, <2>3, <2>4, SizesGiven
<1>2. LimiterInit => LimiterInv /\ RatesInv BY SlotsInit, RatesInit
<1>3. LimiterInv /\ RatesInv /\ [LimiterNext]_limiterVars => (LimiterInv /\ RatesInv)'
  BY SlotsStep, RatesStep
<1> QED BY <1>1, <1>2, <1>3, PTL DEF LimiterSpec

\* An overflow forgets a user whose window is open only if every user it keeps was
\* counted no earlier, and keeps as many as the Map may have (evictLruIfNeeded).
THEOREM OverflowForgetsLeastRecent ==
  LimiterSpec => ForgetsLeastRecent
<1> DEFINE Evicts ==
      \A u \in Remembered(rates) \ Remembered(rates') :
        now' = now =>
          /\ Cardinality(DOMAIN rates') = MaxEntries
          /\ \A k \in DOMAIN rates' : LastHit(hits, u) <= LastHit(hits', k)
<1>1. ASSUME LimiterInv, RatesInv, [LimiterNext]_limiterVars PROVE Evicts
  <2>1. Turn \in Nat BY <1>1, TurnComes DEF LimiterInv
  <2> SUFFICES ASSUME NEW u \in Remembered(rates), u \notin Remembered(rates'), now' = now
               PROVE  /\ Cardinality(DOMAIN rates') = MaxEntries
                      /\ \A k \in DOMAIN rates' : LastHit(hits, u) <= LastHit(hits', k)
    OBVIOUS
  <2>2. u \in DOMAIN rates /\ ~(now - rates[u].windowStart >= Window)
    BY DEF Remembered, Expired
  <2>3. u \in DOMAIN rates' => rates'[u].windowStart # rates[u].windowStart
    BY <2>2 DEF Remembered, Expired
  <2>4. CASE Ages BY <2>2, <2>3, <2>4 DEF Ages
  <2>5. ASSUME NEW v \in Users, Counts(v)
        PROVE  /\ Cardinality(DOMAIN rates') = MaxEntries
               /\ \A k \in DOMAIN rates' : LastHit(hits, u) <= LastHit(hits', k)
    <3>1. /\ hits' = [hits EXCEPT ![v] = Append(@, now)]
          /\ v \in DOMAIN rates'
          /\ rates'[v].windowStart = EntryFor(rates, v).windowStart
          /\ \A k \in DOMAIN rates' : k # v => rates'[k] = rates[k] /\ k \in DOMAIN rates
          /\ \A k \in DOMAIN rates \ DOMAIN rates' :
               /\ Cardinality(DOMAIN rates') = MaxEntries
               /\ \A j \in DOMAIN rates' : j # v => rates[k].turn < rates[j].turn
      BY <1>1, <2>1, <2>5, PutsIn DEF Counts, RatesInv
    <3>2. u # v
      <4> SUFFICES ASSUME u = v PROVE FALSE OBVIOUS
      <4>1. EntryFor(rates, v) = rates[u] BY DEF EntryFor
      <4> QED BY <2>3, <3>1, <4>1
    <3>3. u \notin DOMAIN rates' BY <2>3, <3>1, <3>2
    <3>4. Cardinality(DOMAIN rates') = MaxEntries BY <2>2, <3>1, <3>3
    <3>5. /\ LastHit(hits', v) = now
          /\ \A k \in Users : k # v => LastHit(hits', k) = LastHit(hits, k)
          /\ \A k \in Users : hits[k] # <<>> => LastHit(hits, k) <= now
      BY <1>1, <3>1, HitIsLast DEF RatesInv
    <3>6. \A k \in DOMAIN rates : k \in Users /\ hits[k] # <<>> /\ rates[k].turn \in Nat
      BY <1>1 DEF RatesInv, RatesTyped, LastHits, Entries
    <3>7. ASSUME NEW k \in DOMAIN rates' PROVE LastHit(hits, u) <= LastHit(hits', k)
      <4>1. CASE k = v BY <2>2, <3>5, <3>6, <4>1
      <4>2. CASE k # v
        <5>1. k \in DOMAIN rates /\ rates[u].turn < rates[k].turn BY <2>2, <3>1, <3>3, <4>2
        <5>2. rates[u].turn <= rates[k].turn BY <2>2, <3>6, <5>1
        <5>3. LastHit(hits, u) <= LastHit(hits, k)
          BY <1>1, <2>2, <5>1, <5>2 DEF RatesInv, LastHits
        <5> QED BY <3>5, <3>6, <4>2, <5>1, <5>3
      <4> QED BY <4>1, <4>2
    <3> QED BY <3>4, <3>7
  <2> QED BY <1>1, <2>4, <2>5, Kinds DEF LimiterInv, RatesInv
<1>2. LimiterInit => LimiterInv /\ RatesInv BY SlotsInit, RatesInit
<1>3. LimiterInv /\ RatesInv /\ [LimiterNext]_limiterVars => (LimiterInv /\ RatesInv)'
  BY SlotsStep, RatesStep
<1>4. LimiterInv /\ RatesInv /\ [LimiterNext]_limiterVars => [Evicts]_limiterVars BY <1>1
<1> HIDE DEF Evicts
<1>5. LimiterSpec => [][Evicts]_limiterVars BY <1>2, <1>3, <1>4, PTL DEF LimiterSpec
<1>6. [][Evicts]_limiterVars => ForgetsLeastRecent
  BY PTL DEF Evicts, ForgetsLeastRecent
<1> QED BY <1>5, <1>6

-------------------------------------------------------------------------------
(* The session *)

\* What a session's entry and a forwarded request are made of.
IsSession(s) == s = [tiers |-> s.tiers, categories |-> s.categories, age |-> s.age,
                   torn |-> s.torn, alike |-> s.alike]
IsForwarded(f) == f = [tier |-> f.tier, category |-> f.category, age |-> f.age, by |-> f.by]

\* No older than a session may be, when a request asked for its route.
AgesTell ==
  /\ session # None => IsSession(session) /\ session.age \in Nat /\ ~session.torn
  /\ resolving # None /\ session # None => session.age <= TTL
  /\ forwarding = [q \in Slots |-> forwarding[q]]
  /\ \A q \in Slots : forwarding[q] # None =>
       /\ IsForwarded(forwarding[q]) /\ forwarding[q].age \in Nat
       /\ session # None => session.age <= TTL + forwarding[q].age

LEMMA RouterInit == RoutingInit => AgesTell
BY DEF RoutingInit, AgesTell

LEMMA RouterStep ==
  ASSUME AgesTell, [RoutingNext]_routingVars
  PROVE  AgesTell'
<1>. USE DEF AgesTell
<1>1. TTL \in Nat /\ MaxWait \in Nat BY SessionAssumption
<1>2. ASSUME NEW m \in Messages, Read(m) PROVE AgesTell'
  <2>1. resolving = None /\ session' = Fresh /\ forwarding' = forwarding
    BY <1>2 DEF Read
  <2>2. session' = None \/ (session' = session /\ (session # None => session.age <= TTL))
    BY <1>1, <2>1 DEF Fresh
  <2> QED BY <1>1, <2>1, <2>2
<1>3. CASE UNCHANGED <<session, forwarding>> /\ resolving # None
  BY <1>3
<1>4. CASE Forward
  <2>1. resolving # None /\ resolving' = None /\ session' = session
    BY <1>4 DEF Forward, At
  <2>2. CASE UNCHANGED forwarding BY <2>1, <2>2
  <2>3. CASE ~UNCHANGED forwarding
    <3> PICK q \in Slots : \E by : forwarding' = [forwarding EXCEPT ![q] =
             [tier |-> resolving.tier, category |-> resolving.category, age |-> 0, by |-> by]]
      BY <1>4, <2>3 DEF Forward
    <3>1. PICK by : forwarding' = [forwarding EXCEPT ![q] =
             [tier |-> resolving.tier, category |-> resolving.category, age |-> 0, by |-> by]]
      OBVIOUS
    <3>2. forwarding'[q].age = 0 /\ IsForwarded(forwarding'[q])
      BY <3>1 DEF IsForwarded
    <3>3. \A p \in Slots \ {q} : forwarding'[p] = forwarding[p] BY <3>1
    <3>4. forwarding' = [p \in Slots |-> forwarding'[p]] BY <3>1
    <3> QED BY <1>1, <2>1, <3>2, <3>3, <3>4
  <2> QED BY <2>2, <2>3
<1>5. ASSUME NEW q \in Slots, Answered(q) PROVE AgesTell'
  <2>1. /\ forwarding[q] # None /\ forwarding' = [forwarding EXCEPT ![q] = None]
        /\ resolving' = resolving
    BY <1>5 DEF Answered
  <2>2. /\ forwarding' = [p \in Slots |-> forwarding'[p]] /\ forwarding'[q] = None
        /\ \A p \in Slots \ {q} : forwarding'[p] = forwarding[p]
    BY <2>1
  <2>3. CASE session' = session BY <2>1, <2>2, <2>3
  <2>4. CASE Remember(forwarding[q])
    <3>1. ~(session # None /\ session.age > TTL + forwarding[q].age)
      <4>1. forwarding[q].age \in Nat /\ (session # None => session.age <= TTL + forwarding[q].age)
        BY <2>1
      <4> QED BY <1>1, <4>1
    <3>2. PICK tiers, categories, alike :
            session' = [tiers |-> tiers, categories |-> categories, age |-> 0, torn |-> FALSE,
                        alike |-> alike]
      BY <2>4, <3>1 DEF Remember
    <3>3. IsSession(session') /\ session'.age = 0 /\ ~session'.torn BY <3>2 DEF IsSession
    <3>4. \A p \in Slots : forwarding'[p] # None => forwarding'[p] = forwarding[p] BY <2>2
    <3> QED BY <1>1, <2>1, <2>2, <3>3, <3>4
  <2> QED BY <1>5, <2>3, <2>4 DEF Answered
<1>6. CASE EvictStale BY <1>6 DEF EvictStale
<1>7. CASE Tick
  <2>1. /\ resolving = None /\ resolving' = None /\ session # None
        /\ session' = [session EXCEPT !.age = Older(@)]
        /\ forwarding' = [q \in Slots |-> IF forwarding[q] = None THEN None
                                          ELSE [forwarding[q] EXCEPT !.age = @ + 1]]
    BY <1>7 DEF Tick
  <2>2. session' = [tiers |-> session.tiers, categories |-> session.categories,
                    age |-> Older(session.age), torn |-> session.torn, alike |-> session.alike]
    BY <2>1 DEF IsSession
  <2>3. IsSession(session') /\ ~session'.torn /\ session'.age = Older(session.age)
    BY <2>1, <2>2 DEF IsSession
  <2>4. session.age \in Nat /\ session'.age \in Nat /\ session'.age <= session.age + 1
    <3>1. \A age \in Nat : Older(age) \in Nat /\ Older(age) <= age + 1
      BY <1>1 DEF Older
    <3>2. session.age \in Nat BY <2>1
    <3> HIDE DEF AgesTell
    <3> QED BY <2>3, <3>1, <3>2
  <2>5. ASSUME NEW q \in Slots, forwarding'[q] # None
        PROVE  /\ IsForwarded(forwarding'[q]) /\ forwarding'[q].age \in Nat
               /\ session'.age <= TTL + forwarding'[q].age
    <3>1. forwarding[q] # None BY <2>1, <2>5
    <3>2. IsForwarded(forwarding[q]) /\ forwarding[q].age \in Nat
          /\ session.age <= TTL + forwarding[q].age
      BY <2>1, <3>1
    <3>3. forwarding'[q] = [tier |-> forwarding[q].tier, category |-> forwarding[q].category,
                            age |-> forwarding[q].age + 1, by |-> forwarding[q].by]
      BY <2>1, <3>1, <3>2 DEF IsForwarded
    <3>4. IsForwarded(forwarding'[q]) /\ forwarding'[q].age = forwarding[q].age + 1
      BY <3>3 DEF IsForwarded
    <3> QED BY <1>1, <2>4, <3>2, <3>4
  <2>6. forwarding' = [q \in Slots |-> forwarding'[q]] BY <2>1
  <2> QED BY <2>1, <2>3, <2>4, <2>5, <2>6
<1>8. ASSUME NEW r, NEW grew, Change(r, grew) PROVE AgesTell'
  <2>1. UNCHANGED <<session, forwarding>> /\ (resolving = None => resolving' = None)
    BY <1>8 DEF Change
  <2> QED BY <2>1
<1>9. CASE UNCHANGED routingVars BY <1>9 DEF routingVars
<1>10. CASE \/ ReadHeader \/ CheckHeader \/ ReadAgent
            \/ ReadCategories \/ ReadFlags \/ CheckCategory
            \/ ReadTiers \/ CheckTier
  <2>1. UNCHANGED <<session, forwarding>> /\ resolving # None
    BY <1>10 DEF ReadHeader, CheckHeader, ReadAgent, ReadCategories,
                 ReadFlags, CheckCategory, ReadTiers, CheckTier,
                 Unread, At
  <2> QED BY <1>3, <2>1
<1> QED
  BY <1>2, <1>4, <1>5, <1>6, <1>7, <1>8, <1>9, <1>10
    DEF RoutingNext, StoreHeader, StoreCategory, StoreTier, Switch,
        Lose, Gain, Flag, Unflag

\* What SessionMomentumService adds to a session's entry belongs to that session: an
\* answer finds no entry that was out of date when its request asked for a route
\* (readFresh in getRecentTiers, then recordTier after the provider's answer).
THEOREM SessionsStayWhole ==
  RoutingSpec => []HistoryIsOneSession
<1>1. AgesTell => HistoryIsOneSession BY DEF AgesTell, HistoryIsOneSession
<1>2. AgesTell /\ [RoutingNext]_routingVars => AgesTell' BY RouterStep
<1> QED BY RouterInit, <1>1, <1>2, PTL DEF RoutingSpec

\* What a decision about a route is made of: the tables it reads, in r, and the request
\* that is looking for its route, R.
RoutingTables == {"header", "complexity", "specific", "tier", "available", "flags"}

IsRouting(r) ==
  /\ DOMAIN r = RoutingTables /\ None \notin r.available
  /\ r.flags \in [Categories -> Nat]

IsResolving(R) ==
  R = [step |-> R.step, msg |-> R.msg, tiers |-> R.tiers, categories |-> R.categories,
       alike |-> R.alike, tier |-> R.tier, category |-> R.category, row |-> R.row,
       model |-> R.model, scored |-> R.scored, flags |-> R.flags, grew |-> R.grew,
       meanwhile |-> R.meanwhile, prescribed |-> R.prescribed]

\* What is decided when every table still to be read is read from the routing r, by the
\* table it begins with.
Offer(r, row) == IF row.override \in r.available THEN row.override ELSE row.auto

FromTier(r, place) == Choice(place, None, r.tier[place], Offer(r, r.tier[place]))

FromScore(r, R) == FromTier(r, ScoredTier(R.msg, R.tiers))

Usable(r, row) ==
  row # None
    /\ (IF row.override = None THEN row.auto # None ELSE row.override \in r.available)

FromCategory(r, R, c, row) ==
  IF Usable(r, row) THEN Choice("standard", c, row, Offer(r, row)) ELSE FromScore(r, R)

Said(r, R) == Detected(R.msg, R.categories, r.flags)

RowOf(table, c) == IF c = None THEN None ELSE table[c]

FromFlags(r, R, table) == FromCategory(r, R, Said(r, R), RowOf(table, Said(r, R)))

FromAgent(r, R) == IF r.complexity THEN FromFlags(r, R, r.specific) ELSE FromTier(r, "default")

Headed(r, R) == R.msg.header /\ r.header # None /\ r.header.override \in r.available

FromHeader(r, R) ==
  IF Headed(r, R) THEN Choice("standard", None, r.header, r.header.override)
  ELSE FromAgent(r, R)

\* Where R gets to when the routing stays r.
Course(r, R) ==
  CASE R.step = "header" -> FromHeader(r, R)
    [] R.step = "header model" ->
         IF R.row.override \in r.available
           THEN Choice("standard", None, R.row, R.row.override) ELSE FromAgent(r, R)
    [] R.step = "agent" -> FromAgent(r, R)
    [] R.step = "categories" -> FromFlags(r, R, r.specific)
    [] R.step = "flags" -> FromFlags(r, R, R.row)
    [] R.step = "category model" -> FromCategory(r, R, R.category, R.row)
    [] R.step = "tiers" -> FromTier(r, R.tier)
    [] R.step = "tier model" -> Choice(R.tier, None, R.row, Offer(r, R.row))
    [] R.step = "decided" -> [tier |-> R.tier, category |-> R.category, model |-> R.model]

\* What r makes of a request before it looks for the header's model, a category, a tier.
Unheard(R) == ~R.msg.heartbeat
Tagged(r, R) == Unheard(R) /\ R.msg.header /\ r.header # None
Unheaded(r, R) == Unheard(R) /\ ~Headed(r, R)
Scoring(r, R) == Unheaded(r, R) /\ r.complexity

TierReason(r, R) ==
  \/ R.msg.heartbeat /\ R.tier = "simple"
  \/ Unheaded(r, R) /\ ~r.complexity /\ R.tier = "default"
  \/ /\ Scoring(r, R) /\ ~Usable(r, RowOf(r.specific, Said(r, R)))
     /\ R.tier = ScoredTier(R.msg, R.tiers)

\* All that R has read so far is what r says.
Agrees(r, R) ==
  CASE R.step = "header" -> Unheard(R)
    [] R.step = "header model" -> Tagged(r, R) /\ R.row = r.header
    [] R.step = "agent" -> Unheaded(r, R)
    [] R.step = "categories" -> Scoring(r, R)
    [] R.step = "flags" -> Scoring(r, R) /\ R.row = r.specific
    [] R.step = "category model" ->
         Scoring(r, R) /\ R.category = Said(r, R) /\ R.row = RowOf(r.specific, R.category)
    [] R.step = "tiers" -> TierReason(r, R)
    [] R.step = "tier model" -> TierReason(r, R) /\ R.row = r.tier[R.tier]
    [] R.step = "decided" -> TRUE

RouteSteps == {"header", "header model", "agent", "categories", "flags", "category model",
          "tiers", "tier model", "decided"}

Then(r, R) == Prescribed(r, R.msg, R.tiers, R.categories)

LEMMA CourseAt ==
  ASSUME NEW r, NEW R
  PROVE  /\ R.step = "header" => Course(r, R) = FromHeader(r, R)
         /\ R.step = "header model" => Course(r, R) =
              IF R.row.override \in r.available
                THEN Choice("standard", None, R.row, R.row.override)
                ELSE FromAgent(r, R)
         /\ R.step = "agent" => Course(r, R) = FromAgent(r, R)
         /\ R.step = "categories" => Course(r, R) = FromFlags(r, R, r.specific)
         /\ R.step = "flags" => Course(r, R) = FromFlags(r, R, R.row)
         /\ R.step = "category model" => Course(r, R) = FromCategory(r, R, R.category, R.row)
         /\ R.step = "tiers" => Course(r, R) = FromTier(r, R.tier)
         /\ R.step = "tier model" =>
              Course(r, R) = Choice(R.tier, None, R.row, Offer(r, R.row))
         /\ R.step = "decided" =>
              Course(r, R) = [tier |-> R.tier, category |-> R.category, model |-> R.model]
BY DEF Course

LEMMA AgreesAt ==
  ASSUME NEW r, NEW R
  PROVE  /\ R.step = "header" => (Agrees(r, R) <=> Unheard(R))
         /\ R.step = "header model" => (Agrees(r, R) <=> Tagged(r, R) /\ R.row = r.header)
         /\ R.step = "agent" => (Agrees(r, R) <=> Unheaded(r, R))
         /\ R.step = "categories" => (Agrees(r, R) <=> Scoring(r, R))
         /\ R.step = "flags" => (Agrees(r, R) <=> Scoring(r, R) /\ R.row = r.specific)
         /\ R.step = "category model" =>
              (Agrees(r, R) <=> /\ Scoring(r, R) /\ R.category = Said(r, R)
                                /\ R.row = RowOf(r.specific, R.category))
         /\ R.step = "tiers" => (Agrees(r, R) <=> TierReason(r, R))
         /\ R.step = "tier model" => (Agrees(r, R) <=> TierReason(r, R) /\ R.row = r.tier[R.tier])
         /\ R.step = "decided" => Agrees(r, R)
BY DEF Agrees

\* The order of the reads is the order of what the routing prescribes.
LEMMA PrescribedIs ==
  ASSUME NEW r, NEW R, IsRouting(r)
  PROVE  Then(r, R) = IF R.msg.heartbeat THEN FromTier(r, "simple") ELSE FromHeader(r, R)
<1>1. CASE R.msg.heartbeat BY <1>1 DEF Then, Prescribed, FromTier, Offer
<1>2. CASE ~R.msg.heartbeat
  <2>1. CASE Headed(r, R) BY <1>2, <2>1 DEF Then, Prescribed, FromHeader, Headed
  <2>2. CASE ~Headed(r, R) /\ r.complexity
    <3>1. CASE Said(r, R) # None /\ Usable(r, RowOf(r.specific, Said(r, R)))
      BY <1>2, <2>2, <3>1
      DEF Then, Prescribed, FromHeader, Headed, FromAgent, FromFlags, FromCategory, Said,
          Usable, RowOf, Offer
    <3>2. CASE ~(Said(r, R) # None /\ Usable(r, RowOf(r.specific, Said(r, R))))
      <4>1. ~Usable(r, RowOf(r.specific, Said(r, R))) BY <3>2 DEF Usable, RowOf
      <4>2. FromHeader(r, R) = FromScore(r, R)
        BY <1>2, <2>2, <4>1 DEF FromHeader, FromAgent, FromFlags, FromCategory
      <4>3. Then(r, R) = FromScore(r, R)
        BY <1>2, <2>2, <3>2
        DEF Then, Prescribed, Headed, Said, Usable, RowOf, FromScore, FromTier, Offer
      <4> QED BY <1>2, <4>2, <4>3
    <3> QED BY <3>1, <3>2
  <2>3. CASE ~Headed(r, R) /\ ~r.complexity
    BY <1>2, <2>3 DEF Then, Prescribed, FromHeader, Headed, FromAgent, FromTier, Offer
  <2> QED BY <2>1, <2>2, <2>3
<1> QED BY <1>1, <1>2

\* A request that has read nothing but what r says gets to where r prescribes.
LEMMA AgreeingLeads ==
  ASSUME NEW r, NEW R, IsRouting(r), Agrees(r, R), R.step \in RouteSteps \ {"decided"}
  PROVE  Course(r, R) = Then(r, R)
<1>1. PICK x : x = Then(r, R)
         /\ x = IF R.msg.heartbeat THEN FromTier(r, "simple") ELSE FromHeader(r, R)
  BY PrescribedIs
<1>2. Unheard(R) => x = FromHeader(r, R) BY <1>1 DEF Unheard
<1>3. Unheaded(r, R) => x = FromAgent(r, R) BY <1>2 DEF Unheaded, FromHeader
<1>4. Scoring(r, R) => x = FromFlags(r, R, r.specific) BY <1>3 DEF Scoring, FromAgent
<1>5. TierReason(r, R) => x = FromTier(r, R.tier)
  <2>1. CASE R.msg.heartbeat /\ R.tier = "simple" BY <1>1, <2>1
  <2>2. CASE Unheaded(r, R) /\ ~r.complexity /\ R.tier = "default"
    BY <1>3, <2>2 DEF FromAgent
  <2>3. CASE /\ Scoring(r, R) /\ ~Usable(r, RowOf(r.specific, Said(r, R)))
             /\ R.tier = ScoredTier(R.msg, R.tiers)
    BY <1>4, <2>3 DEF FromFlags, FromCategory, FromScore
  <2> QED BY <2>1, <2>2, <2>3 DEF TierReason
<1>6. CASE R.step = "header" BY <1>1, <1>2, <1>6, AgreesAt, CourseAt
<1>7. CASE R.step = "header model"
  <2>1. Tagged(r, R) /\ R.row = r.header BY <1>7, AgreesAt
  <2>2. Course(r, R) = IF r.header.override \in r.available
          THEN Choice("standard", None, r.header, r.header.override)
          ELSE FromAgent(r, R)
    BY <1>7, <2>1, CourseAt
  <2>3. x = FromHeader(r, R) BY <1>2, <2>1 DEF Tagged
  <2> QED BY <1>1, <2>1, <2>2, <2>3 DEF FromHeader, Headed, Tagged
<1>8. CASE R.step = "agent" BY <1>1, <1>3, <1>8, AgreesAt, CourseAt
<1>9. CASE R.step = "categories" BY <1>1, <1>4, <1>9, AgreesAt, CourseAt
<1>10. CASE R.step = "flags"
  <2>1. Scoring(r, R) /\ R.row = r.specific BY <1>10, AgreesAt
  <2>2. Course(r, R) = FromFlags(r, R, R.row) BY <1>10, CourseAt
  <2> QED BY <1>1, <1>4, <2>1, <2>2
<1>11. CASE R.step = "category model"
  <2>1. Scoring(r, R) /\ R.category = Said(r, R) /\ R.row = RowOf(r.specific, R.category)
    BY <1>11, AgreesAt
  <2>2. Course(r, R) = FromCategory(r, R, R.category, R.row) BY <1>11, CourseAt
  <2>3. Course(r, R) = FromFlags(r, R, r.specific) BY <2>1, <2>2 DEF FromFlags
  <2> QED BY <1>1, <1>4, <2>1, <2>3
<1>12. CASE R.step = "tiers" BY <1>1, <1>5, <1>12, AgreesAt, CourseAt
<1>13. CASE R.step = "tier model"
  <2>1. TierReason(r, R) /\ R.row = r.tier[R.tier] BY <1>13, AgreesAt
  <2>2. Course(r, R) = FromTier(r, R.tier) BY <1>13, <2>1, CourseAt DEF FromTier
  <2> QED BY <1>1, <1>5, <2>1, <2>2
<1> QED BY <1>6, <1>7, <1>8, <1>9, <1>10, <1>11, <1>12, <1>13 DEF RouteSteps

\* The routings r and r1 have the same to say to R from where it is on.
SameToRead(r, r1, R) ==
  /\ r1.available = r.available
  /\ R.step # "header"
  /\ R.step \in {"header model", "agent"} => r1.complexity = r.complexity
  /\ R.step \in {"header model", "agent", "categories"} => r1.specific = r.specific
  /\ R.step \in {"header model", "agent", "categories", "flags"} => r1.flags = r.flags
  /\ R.step \in RouteSteps \ {"tier model", "decided"} => r1.tier = r.tier

LEMMA CourseStays ==
  ASSUME NEW r, NEW r1, NEW R, R.step \in RouteSteps, SameToRead(r, r1, R)
  PROVE  Course(r1, R) = Course(r, R)
<1>0. r1.available = r.available BY DEF SameToRead
<1>1. \A row : Offer(r1, row) = Offer(r, row) BY <1>0 DEF Offer
<1>2. \A row : Usable(r1, row) = Usable(r, row) BY <1>0 DEF Usable
<1>3. ASSUME r1.tier = r.tier
      PROVE  /\ \A place : FromTier(r1, place) = FromTier(r, place)
             /\ FromScore(r1, R) = FromScore(r, R)
             /\ \A c, row : FromCategory(r1, R, c, row) = FromCategory(r, R, c, row)
  <2>1. ASSUME NEW place PROVE FromTier(r1, place) = FromTier(r, place)
    BY <1>1, <1>3, <2>1 DEF FromTier
  <2>2. FromScore(r1, R) = FromScore(r, R) BY <2>1 DEF FromScore
  <2>3. ASSUME NEW c, NEW row PROVE FromCategory(r1, R, c, row) = FromCategory(r, R, c, row)
    BY <1>1, <1>2, <2>2 DEF FromCategory
  <2> QED BY <2>1, <2>2, <2>3
<1>4. ASSUME r1.tier = r.tier, r1.flags = r.flags
      PROVE  \A table : FromFlags(r1, R, table) = FromFlags(r, R, table)
  <2>1. Said(r1, R) = Said(r, R) BY <1>4 DEF Said
  <2> QED BY <1>3, <1>4, <2>1 DEF FromFlags
<1>5. ASSUME r1.complexity = r.complexity, r1.specific = r.specific, r1.tier = r.tier,
             r1.flags = r.flags
      PROVE  FromAgent(r1, R) = FromAgent(r, R)
  BY <1>3, <1>4, <1>5 DEF FromAgent
<1>6. CASE R.step = "header model"
  <2>1. r1.complexity = r.complexity /\ r1.specific = r.specific /\ r1.tier = r.tier /\ r1.flags = r.flags
    BY <1>6 DEF SameToRead, RouteSteps
  <2>2. Course(r, R) = IF R.row.override \in r.available
          THEN Choice("standard", None, R.row, R.row.override)
          ELSE FromAgent(r, R)
    BY <1>6, CourseAt
  <2>3. Course(r1, R) = IF R.row.override \in r1.available
          THEN Choice("standard", None, R.row, R.row.override)
          ELSE FromAgent(r1, R)
    BY <1>6, CourseAt
  <2> QED BY <1>0, <1>5, <2>1, <2>2, <2>3
<1>7. CASE R.step = "agent"
  <2>1. r1.complexity = r.complexity /\ r1.specific = r.specific /\ r1.tier = r.tier /\ r1.flags = r.flags
    BY <1>7 DEF SameToRead, RouteSteps
  <2>2. Course(r, R) = FromAgent(r, R) BY <1>7, CourseAt
  <2>3. Course(r1, R) = FromAgent(r1, R) BY <1>7, CourseAt
  <2> QED BY <1>5, <2>1, <2>2, <2>3
<1>8. CASE R.step = "categories"
  <2>1. r1.specific = r.specific /\ r1.tier = r.tier /\ r1.flags = r.flags
    BY <1>8 DEF SameToRead, RouteSteps
  <2>2. Course(r, R) = FromFlags(r, R, r.specific) BY <1>8, CourseAt
  <2>3. Course(r1, R) = FromFlags(r1, R, r1.specific) BY <1>8, CourseAt
  <2> QED BY <1>4, <2>1, <2>2, <2>3
<1>9. CASE R.step = "flags"
  <2>1. r1.tier = r.tier /\ r1.flags = r.flags
    BY <1>9 DEF SameToRead, RouteSteps
  <2>2. Course(r, R) = FromFlags(r, R, R.row) BY <1>9, CourseAt
  <2>3. Course(r1, R) = FromFlags(r1, R, R.row) BY <1>9, CourseAt
  <2> QED BY <1>4, <2>1, <2>2, <2>3
<1>10. CASE R.step = "category model"
  <2>1. r1.tier = r.tier
    BY <1>10 DEF SameToRead, RouteSteps
  <2>2. Course(r, R) = FromCategory(r, R, R.category, R.row) BY <1>10, CourseAt
  <2>3. Course(r1, R) = FromCategory(r1, R, R.category, R.row) BY <1>10, CourseAt
  <2> QED BY <1>3, <2>1, <2>2, <2>3
<1>11. CASE R.step = "tiers"
  <2>1. r1.tier = r.tier
    BY <1>11 DEF SameToRead, RouteSteps
  <2>2. Course(r, R) = FromTier(r, R.tier) BY <1>11, CourseAt
  <2>3. Course(r1, R) = FromTier(r1, R.tier) BY <1>11, CourseAt
  <2> QED BY <1>3, <2>1, <2>2, <2>3
<1>12. CASE R.step = "tier model"
  <2>2. Course(r, R) = Choice(R.tier, None, R.row, Offer(r, R.row)) BY <1>12, CourseAt
  <2>3. Course(r1, R) = Choice(R.tier, None, R.row, Offer(r1, R.row)) BY <1>12, CourseAt
  <2> QED BY <1>1, <2>2, <2>3
<1>13. CASE R.step = "decided"
  <2>2. Course(r, R) = [tier |-> R.tier, category |-> R.category, model |-> R.model] BY <1>13, CourseAt
  <2>3. Course(r1, R) = [tier |-> R.tier, category |-> R.category, model |-> R.model] BY <1>13, CourseAt
  <2> QED BY <2>2, <2>3
<1>14. R.step # "header" BY DEF SameToRead
<1> QED BY <1>6, <1>7, <1>8, <1>9, <1>10, <1>11, <1>12, <1>13, <1>14 DEF RouteSteps

\* What has been read is still what the routing says, when it is something else that has
\* changed, or a model is lost.
SameRead(r, r1, R) ==
  /\ r1.available \subseteq r.available
  /\ R.step \in RouteSteps \ {"header", "decided"} => r1.header = r.header
  /\ R.step \in RouteSteps \ {"header", "header model", "agent", "decided"} =>
       r1.complexity = r.complexity
  /\ R.step \in {"flags", "category model", "tiers", "tier model"} => r1.specific = r.specific
  /\ R.step \in {"category model", "tiers", "tier model"} => r1.flags = r.flags
  /\ R.step = "tier model" => r1.tier = r.tier

LEMMA AgreementStays ==
  ASSUME NEW r, NEW r1, NEW R, R.step \in RouteSteps, Agrees(r, R), SameRead(r, r1, R)
  PROVE  Agrees(r1, R)
<1>0. r1.available \subseteq r.available BY DEF SameRead
<1>1. ASSUME NEW row, Usable(r1, row) PROVE Usable(r, row) BY <1>0, <1>1 DEF Usable
<1>2. ASSUME r1.header = r.header, Unheaded(r, R) PROVE Unheaded(r1, R)
  BY <1>0, <1>2 DEF Unheaded, Headed
<1>3. ASSUME r1.header = r.header, r1.complexity = r.complexity, Scoring(r, R)
      PROVE  Scoring(r1, R)
  BY <1>2, <1>3 DEF Scoring
<1>4. ASSUME r1.flags = r.flags PROVE Said(r1, R) = Said(r, R) BY <1>4 DEF Said
<1>5. ASSUME r1.header = r.header, r1.complexity = r.complexity, r1.specific = r.specific,
             r1.flags = r.flags, TierReason(r, R)
      PROVE  TierReason(r1, R)
  <2>1. CASE R.msg.heartbeat /\ R.tier = "simple" BY <2>1 DEF TierReason
  <2>2. CASE Unheaded(r, R) /\ ~r.complexity /\ R.tier = "default"
    BY <1>2, <1>5, <2>2 DEF TierReason
  <2>3. CASE /\ Scoring(r, R) /\ ~Usable(r, RowOf(r.specific, Said(r, R)))
             /\ R.tier = ScoredTier(R.msg, R.tiers)
    BY <1>1, <1>3, <1>4, <1>5, <2>3 DEF TierReason
  <2> QED BY <1>5, <2>1, <2>2, <2>3 DEF TierReason
<1>6. CASE R.step = "header" BY <1>6, AgreesAt
<1>7. CASE R.step = "header model" /\ r1.header = r.header
  <2>1. Tagged(r, R) /\ R.row = r.header BY <1>7, AgreesAt
  <2>2. Tagged(r1, R) /\ R.row = r1.header BY <1>7, <2>1 DEF Tagged
  <2> QED BY <1>7, <2>2, AgreesAt
<1>8. CASE R.step = "agent" /\ r1.header = r.header BY <1>2, <1>8, AgreesAt
<1>9. CASE R.step = "categories" /\ r1.header = r.header /\ r1.complexity = r.complexity
  BY <1>3, <1>9, AgreesAt
<1>10. CASE R.step = "flags" /\ r1.header = r.header /\ r1.complexity = r.complexity
            /\ r1.specific = r.specific
  <2>1. Scoring(r, R) /\ R.row = r.specific BY <1>10, AgreesAt
  <2>2. Scoring(r1, R) /\ R.row = r1.specific BY <1>3, <1>10, <2>1
  <2> QED BY <1>10, <2>2, AgreesAt
<1>11. CASE R.step = "category model" /\ r1.header = r.header /\ r1.complexity = r.complexity
            /\ r1.specific = r.specific /\ r1.flags = r.flags
  <2>1. Scoring(r, R) /\ R.category = Said(r, R) /\ R.row = RowOf(r.specific, R.category)
    BY <1>11, AgreesAt
  <2>2. Scoring(r1, R) /\ R.category = Said(r1, R) /\ R.row = RowOf(r1.specific, R.category)
    BY <1>3, <1>4, <1>11, <2>1
  <2> QED BY <1>11, <2>2, AgreesAt
<1>12. CASE R.step = "tiers" /\ r1.header = r.header /\ r1.complexity = r.complexity
            /\ r1.specific = r.specific /\ r1.flags = r.flags
  <2>1. TierReason(r, R) BY <1>12, AgreesAt
  <2>2. TierReason(r1, R) BY <1>5, <1>12, <2>1
  <2> QED BY <1>12, <2>2, AgreesAt
<1>13. CASE R.step = "tier model" /\ r1.header = r.header /\ r1.complexity = r.complexity
            /\ r1.specific = r.specific /\ r1.flags = r.flags /\ r1.tier = r.tier
  <2>1. TierReason(r, R) /\ R.row = r.tier[R.tier] BY <1>13, AgreesAt
  <2>2. TierReason(r1, R) /\ R.row = r1.tier[R.tier] BY <1>5, <1>13, <2>1
  <2> QED BY <1>13, <2>2, AgreesAt
<1>14. CASE R.step = "decided" BY <1>14, AgreesAt
<1> QED
  BY <1>6, <1>7, <1>8, <1>9, <1>10, <1>11, <1>12, <1>13, <1>14 DEF RouteSteps, SameRead

\* One change: what has been read is what the routing says now, or leads on to where the
\* routing before it led.
OneTable(r, r1) ==
  \/ /\ r1.available = r.available
     /\ \/ /\ r1.complexity = r.complexity /\ r1.specific = r.specific
           /\ r1.tier = r.tier /\ r1.flags = r.flags
        \/ /\ r1.header = r.header /\ r1.specific = r.specific
           /\ r1.tier = r.tier /\ r1.flags = r.flags
        \/ /\ r1.header = r.header /\ r1.complexity = r.complexity
           /\ r1.tier = r.tier /\ r1.flags = r.flags
        \/ /\ r1.header = r.header /\ r1.complexity = r.complexity
           /\ r1.specific = r.specific /\ r1.flags = r.flags
        \/ /\ r1.header = r.header /\ r1.complexity = r.complexity
           /\ r1.specific = r.specific /\ r1.tier = r.tier
  \/ /\ r1.available \subseteq r.available
     /\ r1.header = r.header /\ r1.complexity = r.complexity
     /\ r1.specific = r.specific /\ r1.tier = r.tier /\ r1.flags = r.flags

LEMMA OneChange ==
  ASSUME NEW r, NEW r1, NEW R, R.step \in RouteSteps, Agrees(r, R), OneTable(r, r1)
  PROVE  Agrees(r1, R) \/ Course(r1, R) = Course(r, R)
<1>1. SameRead(r, r1, R) \/ SameToRead(r, r1, R)
  BY DEF OneTable, RouteSteps, SameRead, SameToRead
<1> QED BY <1>1, AgreementStays, CourseStays

\* The strongest of some categories there always is.
Ranked(over, seq, S, T) ==
  \A c \in over : S[c] \in Nat /\ T[c] \in Nat /\ \E i \in DOMAIN seq : seq[i] = c

Strongest(c, over, S, T) == \A d \in over : S[c] > S[d] \/ (S[c] = S[d] /\ T[c] <= T[d])

LEMMA StrongestExists ==
  ASSUME NEW E, NEW seq \in Seq(E), NEW over, NEW S, NEW T, Ranked(over, seq, S, T), over # {}
  PROVE  \E c \in over : Strongest(c, over, S, T)
<1> USE DEF Ranked, Strongest
<1> DEFINE Upto(n) == {c \in over : \E i \in DOMAIN seq : i <= n /\ seq[i] = c}
           Beats(c, d) == S[c] > S[d] \/ (S[c] = S[d] /\ T[c] <= T[d])
           Without == {n \in Nat : Upto(n) # {} /\ ~\E c \in Upto(n) : \A d \in Upto(n) : Beats(c, d)}
<1>1. Len(seq) \in Nat /\ DOMAIN seq = 1..Len(seq) OBVIOUS
<1>2. Upto(Len(seq)) = over BY <1>1
<1>3. Without = {}
  <2>1. SUFFICES ASSUME Without # {} PROVE FALSE OBVIOUS
  <2>2. PICK n \in Without : \A k \in Without : ~(<<k, n>> \in OpToRel(<, Nat))
    BY <2>1, WFMin, NatLessThanWellFounded
  <2>3. ASSUME NEW k \in Without PROVE ~(k < n)
    <3>1. k \in Nat /\ n \in Nat OBVIOUS
    <3>2. <<k, n>> \notin OpToRel(<, Nat) BY <2>2
    <3>3. OpToRel(<, Nat) = {p \in Nat \X Nat : p[1] < p[2]} BY Zenon DEF OpToRel
    <3> HIDE DEF Without
    <3> QED BY <3>1, <3>2, <3>3
  <2>4. n \in Nat /\ Upto(n) # {} /\ ~\E c \in Upto(n) : \A d \in Upto(n) : Beats(c, d)
    BY <2>2
  <2>5. n > 0 BY <1>1, <2>4
  <2>6. n - 1 \in Nat /\ n - 1 \notin Without
    <3>1. n - 1 \in Nat /\ n - 1 < n BY <2>4, <2>5
    <3> HIDE DEF Without
    <3> QED BY <3>1, <2>3
  <2>7. \A c \in Upto(n) : c \in Upto(n - 1) \/ (n \in DOMAIN seq /\ c = seq[n])
    BY <1>1, <2>4, <2>5
  <2>8. CASE Upto(n - 1) = {}
    <3>1. seq[n] \in Upto(n) /\ \A d \in Upto(n) : d = seq[n] BY <2>4, <2>7, <2>8
    <3>2. Beats(seq[n], seq[n]) BY <3>1
    <3> QED BY <2>4, <3>1, <3>2
  <2>9. CASE Upto(n - 1) # {}
    <3>1. PICK b \in Upto(n - 1) : \A d \in Upto(n - 1) : Beats(b, d) BY <2>6, <2>9
    <3>2. b \in Upto(n) BY <2>4, <3>1
    <3>3. PICK e \in Upto(n) : ~Beats(b, e) BY <2>4, <3>2
    <3>4. e = seq[n] BY <2>7, <3>1, <3>3
    <3>5. \A d \in Upto(n - 1) : Beats(e, d)
      <4>1. S[b] \in Nat /\ T[b] \in Nat /\ S[e] \in Nat /\ T[e] \in Nat BY <3>1, <3>3
      <4>2. Beats(e, b) BY <3>3, <4>1
      <4>3. ASSUME NEW d \in Upto(n - 1) PROVE Beats(e, d)
        <5>1. S[d] \in Nat /\ T[d] \in Nat /\ Beats(b, d) BY <3>1
        <5> HIDE DEF Upto, Without
        <5> QED BY <4>1, <4>2, <5>1
      <4> QED BY <4>3
    <3>6. Beats(e, e) BY <3>3
    <3> QED BY <2>4, <2>7, <3>3, <3>4, <3>5, <3>6
  <2> QED BY <2>8, <2>9
<1> QED BY <1>1, <1>2, <1>3

\* What detectSpecificity finds is a category, one that the header names or that is over
\* its threshold.
OverThreshold(m, c, categories, n) ==
  Less(m.signal[c] + Bias(c, categories), Penalty(n)) >= Threshold[c]

LEMMA DetectedIsOver ==
  ASSUME NEW m \in Messages, NEW categories,
         NEW flags \in [Categories -> Nat],
         Detected(m, categories, flags) # None
  PROVE  /\ Detected(m, categories, flags) \in Categories
         /\ \/ m.asked = Detected(m, categories, flags)
            \/ OverThreshold(m, Detected(m, categories, flags), categories,
                    flags[Detected(m, categories, flags)])
<1> DEFINE S == [c \in Categories |-> Strength(m, c, categories, flags)]
           over == {c \in Categories : S[c] >= Threshold[c]}
           T == [c \in Categories |-> Rank(c)]
           Best(c) == \A d \in over :
                S[c] > S[d] \/ (S[c] = S[d] /\ Rank(c) <= Rank(d))
<1>1. CASE m.asked \in Categories BY <1>1 DEF Detected
<1>2. CASE m.asked \notin Categories
  <2>1. over # {} BY <1>2 DEF Detected
  <2>2. Detected(m, categories, flags) = CHOOSE c \in over : Best(c)
    BY <1>2, <2>1 DEF Detected
  <2>3. /\ CategoryOrder \in Seq(Categories)
        /\ Categories = {CategoryOrder[i] : i \in DOMAIN CategoryOrder}
    BY SessionAssumption DEF Categories, ToSet
  <2>4. ASSUME NEW c \in over
        PROVE  S[c] \in Nat /\ T[c] \in Nat /\ \E i \in DOMAIN CategoryOrder : CategoryOrder[i] = c
    <3>1. PICK i \in DOMAIN CategoryOrder : CategoryOrder[i] = c BY <2>3
    <3>2. Rank(c) \in DOMAIN CategoryOrder BY <3>1 DEF Rank
    <3>3. DOMAIN CategoryOrder \subseteq Nat BY <2>3
    <3>4. m.signal[c] \in Nat /\ flags[c] \in Nat
      <4>1. c \in Categories BY <2>4
      <4>2. m.signal \in [Categories -> Nat]
        BY SessionAssumption DEF Categories
      <4> HIDE DEF over
      <4> QED BY <4>1, <4>2
    <3>5. Bias(c, categories) \in Nat BY DEF Bias, STICKY_BIAS
    <3>6. Penalty(flags[c]) \in Nat
      BY <3>4 DEF Penalty, PENALTY_CAP, PENALTY_PER_FLAG
    <3>7. Strength(m, c, categories, flags) \in Nat
      <4>1. \A a, b, d \in Nat : Less(a + b, d) \in Nat BY DEF Less
      <4> QED BY <3>4, <3>5, <3>6, <4>1 DEF Strength
    <3> QED BY <3>1, <3>2, <3>3, <3>7
  <2>5. \E c \in over : \A d \in over : S[c] > S[d] \/ (S[c] = S[d] /\ T[c] <= T[d])
    <3> HIDE DEF over, S, T
    <3>1. Ranked(over, CategoryOrder, S, T) BY <2>4 DEF Ranked
    <3>2. \E c \in over : Strongest(c, over, S, T) BY <2>1, <2>3, <3>1, StrongestExists
    <3> QED BY <3>2 DEF Strongest
  <2>6. \E c \in over : Best(c) BY <2>5
  <2>7. PICK b : b = Detected(m, categories, flags) /\ b \in over BY <2>2, <2>6
  <2>8. S[b] >= Threshold[b] /\ b \in Categories BY <2>7
  <2>9. OverThreshold(m, b, categories, flags[b]) BY <2>8 DEF OverThreshold, Strength
  <2> QED BY <2>7, <2>8, <2>9
<1> QED BY <1>1, <1>2

\* A request under way: what it knows of a row it is to check, and why of a category.
Anchored(R) ==
  R.category # None =>
    /\ R.category \in Categories /\ R.flags \in Nat
    /\ R.msg.asked = R.category \/ OverThreshold(R.msg, R.category, R.categories, R.flags)

Placed(R) ==
  /\ R.step = "category model" => R.row # None /\ R.row.override # None
  /\ R.step \notin {"category model", "decided"} => R.category = None

\* What a request keeps from one read to the next.
Alike(R, R1) == R1.msg = R.msg /\ R1.tiers = R.tiers /\ R1.categories = R.categories

Carried(R, R1) ==
  IsResolving(R1) /\ R1.grew = R.grew /\ R1.meanwhile = R.meanwhile /\ R1.prescribed = R.prescribed

Onward(r, R, R1) ==
  /\ R1.step \in RouteSteps
  /\ Course(r, R1) = Course(r, R)
  /\ Agrees(r, R) => Agrees(r, R1)
  /\ Anchored(R1) /\ Placed(R1)

LEMMA SameOfAlike ==
  ASSUME NEW r, NEW R, NEW R1, Alike(R, R1)
  PROVE  /\ FromScore(r, R1) = FromScore(r, R) /\ Said(r, R1) = Said(r, R)
         /\ FromAgent(r, R1) = FromAgent(r, R)
         /\ Unheard(R1) <=> Unheard(R)
         /\ Tagged(r, R1) <=> Tagged(r, R)
         /\ Unheaded(r, R1) <=> Unheaded(r, R)
         /\ Scoring(r, R1) <=> Scoring(r, R)
<1>1. R1.msg = R.msg /\ R1.tiers = R.tiers /\ R1.categories = R.categories BY DEF Alike
<1>2. FromScore(r, R1) = FromScore(r, R) BY <1>1 DEF FromScore
<1>3. Said(r, R1) = Said(r, R) BY <1>1 DEF Said
<1>4. ASSUME NEW c, NEW row PROVE FromCategory(r, R1, c, row) = FromCategory(r, R, c, row)
  BY <1>2 DEF FromCategory
<1>5. ASSUME NEW table PROVE FromFlags(r, R1, table) = FromFlags(r, R, table)
  BY <1>3, <1>4 DEF FromFlags
<1>6. FromAgent(r, R1) = FromAgent(r, R) BY <1>5 DEF FromAgent
<1>7. Unheard(R1) <=> Unheard(R) BY <1>1 DEF Unheard
<1>8. Tagged(r, R1) <=> Tagged(r, R) BY <1>1, <1>7 DEF Tagged
<1>9. Headed(r, R1) <=> Headed(r, R) BY <1>1 DEF Headed
<1>10. Unheaded(r, R1) <=> Unheaded(r, R) BY <1>7, <1>9 DEF Unheaded
<1>11. Scoring(r, R1) <=> Scoring(r, R) BY <1>10 DEF Scoring
<1> QED BY <1>2, <1>3, <1>6, <1>7, <1>8, <1>10, <1>11

LEMMA CategoryOfAlike ==
  ASSUME NEW r, NEW R, NEW R1, Alike(R, R1), NEW c, NEW row
  PROVE  FromCategory(r, R1, c, row) = FromCategory(r, R, c, row)
BY SameOfAlike DEF FromCategory

LEMMA FlagsOfAlike ==
  ASSUME NEW r, NEW R, NEW R1, Alike(R, R1), NEW table
  PROVE  FromFlags(r, R1, table) = FromFlags(r, R, table)
<1>1. Said(r, R1) = Said(r, R) BY SameOfAlike
<1> QED BY <1>1, CategoryOfAlike DEF FromFlags

\* ReadHeader, CheckHeader.
LEMMA HeaderReads ==
  ASSUME IsRouting(routing), IsResolving(resolving), Anchored(resolving),
         resolving.category = None,
         ReadHeader \/ CheckHeader
  PROVE  /\ Carried(resolving, resolving') /\ Alike(resolving, resolving')
         /\ Onward(routing, resolving, resolving')
<1> DEFINE r == routing
           R == resolving
           R1 == resolving'
<1>1. CASE ReadHeader /\ ~(R.msg.header /\ r.header # None /\ r.header.override # None)
  <2>1. R.step = "header" /\ R1 = [R EXCEPT !.step = "agent"]
    BY <1>1 DEF ReadHeader, At, Go
  <2>2. Carried(R, R1) /\ Alike(R, R1) /\ R1.step = "agent" /\ R1.category = None
    BY <2>1 DEF IsResolving, Alike, Carried
  <2>3. ~Headed(r, R) BY <1>1 DEF Headed, IsRouting
  <2>4. Course(r, R) = FromAgent(r, R)
    <3>1. Course(r, R) = FromHeader(r, R) BY <2>1, CourseAt
    <3> QED BY <2>3, <3>1 DEF FromHeader
  <2>5. Course(r, R1) = FromAgent(r, R)
    <3>1. Course(r, R1) = FromAgent(r, R1) BY <2>2, CourseAt
    <3> QED BY <2>2, <3>1, SameOfAlike
  <2>6. Agrees(r, R) => Agrees(r, R1)
    <3>1. Agrees(r, R) => Unheard(R) BY <2>1, AgreesAt
    <3>2. Unheaded(r, R1) => Agrees(r, R1) BY <2>2, AgreesAt
    <3> QED BY <2>2, <2>3, <3>1, <3>2, SameOfAlike DEF Unheaded
  <2> QED BY <2>2, <2>4, <2>5, <2>6 DEF Onward, RouteSteps, Anchored, Placed
<1>2. CASE ReadHeader /\ R.msg.header /\ r.header # None /\ r.header.override # None
  <2>1. R.step = "header" /\ R1 = [R EXCEPT !.step = "header model", !.row = r.header]
    BY <1>2 DEF ReadHeader, At
  <2>2. /\ Carried(R, R1) /\ Alike(R, R1) /\ R1.step = "header model"
        /\ R1.category = None /\ R1.row = r.header
    BY <2>1 DEF IsResolving, Alike, Carried
  <2>3. Course(r, R) = IF r.header.override \in r.available
                         THEN Choice("standard", None, r.header, r.header.override)
                         ELSE FromAgent(r, R)
    <3>1. Course(r, R) = FromHeader(r, R) BY <2>1, CourseAt
    <3>2. Headed(r, R) <=> r.header.override \in r.available BY <1>2 DEF Headed
    <3> QED BY <3>1, <3>2 DEF FromHeader
  <2>4. Course(r, R1) = IF R1.row.override \in r.available
                          THEN Choice("standard", None, R1.row, R1.row.override)
                          ELSE FromAgent(r, R1)
    BY <2>2, CourseAt
  <2>5. FromAgent(r, R1) = FromAgent(r, R) BY <2>2, SameOfAlike
  <2>6. Course(r, R1) = Course(r, R)
    <3>1. CASE r.header.override \in r.available BY <2>2, <2>3, <2>4, <3>1
    <3>2. CASE r.header.override \notin r.available BY <2>2, <2>3, <2>4, <2>5, <3>2
    <3> QED BY <3>1, <3>2
  <2>7. Agrees(r, R) => Agrees(r, R1)
    <3>1. Agrees(r, R) => Unheard(R) BY <2>1, AgreesAt
    <3>2. Tagged(r, R1) /\ R1.row = r.header => Agrees(r, R1) BY <2>2, AgreesAt
    <3>3. Unheard(R) => Tagged(r, R) BY <1>2 DEF Tagged
    <3> QED BY <2>2, <3>1, <3>2, <3>3, SameOfAlike
  <2> QED BY <2>2, <2>6, <2>7 DEF Onward, RouteSteps, Anchored, Placed
<1>3. CASE CheckHeader /\ R.row.override \in r.available
  <2>1. /\ R.step = "header model"
        /\ R1 = [R EXCEPT !.step = "decided", !.tier = "standard", !.category = None,
                   !.row = None, !.model = Effective(R.row, R.row.override)]
    BY <1>3 DEF CheckHeader, At, Decide
  <2>2. /\ Carried(R, R1) /\ Alike(R, R1) /\ R1.step = "decided" /\ R1.tier = "standard"
        /\ R1.category = None /\ R1.model = Effective(R.row, R.row.override)
    BY <2>1 DEF IsResolving, Alike, Carried
  <2>3. Course(r, R) = Choice("standard", None, R.row, R.row.override)
    BY <1>3, <2>1, CourseAt
  <2>4. Course(r, R1) = [tier |-> R1.tier, category |-> R1.category, model |-> R1.model]
    BY <2>2, CourseAt
  <2>5. Course(r, R1) = Course(r, R) BY <2>2, <2>3, <2>4 DEF Choice
  <2>6. Agrees(r, R1) BY <2>2, AgreesAt
  <2> QED BY <2>2, <2>5, <2>6 DEF Onward, RouteSteps, Anchored, Placed
<1>4. CASE CheckHeader /\ R.row.override \notin r.available
  <2>1. R.step = "header model" /\ R1 = [R EXCEPT !.step = "agent"]
    BY <1>4 DEF CheckHeader, At, Go
  <2>2. Carried(R, R1) /\ Alike(R, R1) /\ R1.step = "agent" /\ R1.category = None
    BY <2>1 DEF IsResolving, Alike, Carried
  <2>3. Course(r, R) = FromAgent(r, R) BY <1>4, <2>1, CourseAt
  <2>4. Course(r, R1) = FromAgent(r, R1) BY <2>2, CourseAt
  <2>5. FromAgent(r, R1) = FromAgent(r, R) BY <2>2, SameOfAlike
  <2>6. Agrees(r, R) => Agrees(r, R1)
    <3>1. Agrees(r, R) => Tagged(r, R) /\ R.row = r.header BY <2>1, AgreesAt
    <3>2. Tagged(r, R) /\ R.row = r.header => Unheaded(r, R)
      BY <1>4 DEF Tagged, Unheaded, Headed
    <3>3. Unheaded(r, R1) => Agrees(r, R1) BY <2>2, AgreesAt
    <3> QED BY <2>2, <3>1, <3>2, <3>3, SameOfAlike
  <2> QED BY <2>2, <2>3, <2>4, <2>5, <2>6 DEF Onward, RouteSteps, Anchored, Placed
<1> QED BY <1>1, <1>2, <1>3, <1>4

\* What becomes of a request that no category decides about.
LEMMA ScoreReads ==
  ASSUME NEW R, NEW R1, NEW r, IsResolving(R),
         R1 = [R EXCEPT !.step = "tiers", !.scored = TRUE, !.category = None,
                        !.row = None, !.tier = ScoredTier(R.msg, R.tiers)],
         Course(r, R) = FromScore(r, R),
         Agrees(r, R) => Scoring(r, R) /\ ~Usable(r, RowOf(r.specific, Said(r, R)))
  PROVE  Carried(R, R1) /\ Alike(R, R1) /\ Onward(r, R, R1)
<1>1. /\ Carried(R, R1) /\ Alike(R, R1) /\ R1.step = "tiers" /\ R1.category = None
      /\ R1.tier = ScoredTier(R.msg, R.tiers)
  BY DEF IsResolving, Alike, Carried
<1>2. Course(r, R1) = FromTier(r, R1.tier) BY <1>1, CourseAt
<1>3. Course(r, R1) = Course(r, R) BY <1>1, <1>2 DEF FromScore
<1>4. Agrees(r, R) => TierReason(r, R1)
  <2>1. R1.msg = R.msg /\ R1.tiers = R.tiers BY <1>1 DEF Alike
  <2>2. R1.tier = ScoredTier(R1.msg, R1.tiers) BY <1>1, <2>1
  <2>3. Said(r, R1) = Said(r, R) /\ (Scoring(r, R1) <=> Scoring(r, R)) BY <1>1, SameOfAlike
  <2> QED BY <2>2, <2>3 DEF TierReason
<1>5. TierReason(r, R1) => Agrees(r, R1) BY <1>1, AgreesAt
<1> QED BY <1>1, <1>3, <1>4, <1>5 DEF Onward, RouteSteps, Anchored, Placed

\* ReadAgent, ReadCategories.
LEMMA AgentReads ==
  ASSUME IsRouting(routing), IsResolving(resolving), resolving.category = None,
         resolving.msg \in Messages,
         ReadAgent \/ ReadCategories
  PROVE  /\ Carried(resolving, resolving') /\ Alike(resolving, resolving')
         /\ Onward(routing, resolving, resolving')
<1> DEFINE r == routing
           R == resolving
           R1 == resolving'
<1>1. CASE ReadAgent /\ r.complexity
  <2>1. R.step = "agent" /\ R1 = [R EXCEPT !.step = "categories"]
    BY <1>1 DEF ReadAgent, At, Go
  <2>2. Carried(R, R1) /\ Alike(R, R1) /\ R1.step = "categories" /\ R1.category = None
    BY <2>1 DEF IsResolving, Alike, Carried
  <2>3. Course(r, R) = FromAgent(r, R) BY <2>1, CourseAt
  <2>4. FromAgent(r, R) = FromFlags(r, R, r.specific) BY <1>1 DEF FromAgent
  <2>5. Course(r, R1) = FromFlags(r, R1, r.specific) BY <2>2, CourseAt
  <2>6. FromFlags(r, R1, r.specific) = FromFlags(r, R, r.specific) BY <2>2, FlagsOfAlike
  <2>7. Agrees(r, R) => Agrees(r, R1)
    <3>1. Agrees(r, R) => Unheaded(r, R) BY <2>1, AgreesAt
    <3>2. Unheaded(r, R) => Scoring(r, R) BY <1>1 DEF Scoring
    <3>3. Scoring(r, R1) => Agrees(r, R1) BY <2>2, AgreesAt
    <3> QED BY <2>2, <3>1, <3>2, <3>3, SameOfAlike
  <2> QED BY <2>2, <2>3, <2>4, <2>5, <2>6, <2>7 DEF Onward, RouteSteps, Anchored, Placed
<1>2. CASE ReadAgent /\ ~r.complexity
  <2>1. R.step = "agent" /\ R1 = [R EXCEPT !.step = "tiers", !.tier = "default"]
    BY <1>2 DEF ReadAgent, At, Go
  <2>2. /\ Carried(R, R1) /\ Alike(R, R1) /\ R1.step = "tiers" /\ R1.category = None
        /\ R1.tier = "default"
    BY <2>1 DEF IsResolving, Alike, Carried
  <2>3. Course(r, R) = FromAgent(r, R) BY <2>1, CourseAt
  <2>4. FromAgent(r, R) = FromTier(r, "default") BY <1>2 DEF FromAgent
  <2>5. Course(r, R1) = FromTier(r, R1.tier) BY <2>2, CourseAt
  <2>6. Agrees(r, R) => Agrees(r, R1)
    <3>1. Agrees(r, R) => Unheaded(r, R) BY <2>1, AgreesAt
    <3>2. Unheaded(r, R1) => TierReason(r, R1) BY <1>2, <2>2 DEF TierReason
    <3>3. TierReason(r, R1) => Agrees(r, R1) BY <2>2, AgreesAt
    <3> QED BY <2>2, <3>1, <3>2, <3>3, SameOfAlike
  <2> QED BY <2>2, <2>3, <2>4, <2>5, <2>6 DEF Onward, RouteSteps, Anchored, Placed
<1>3. CASE ReadCategories /\ \A c \in Categories : r.specific[c] = None
  <2>1. /\ R.step = "categories"
        /\ R1 = [R EXCEPT !.step = "tiers", !.scored = TRUE, !.category = None,
                          !.row = None, !.tier = ScoredTier(R.msg, R.tiers)]
    BY <1>3 DEF ReadCategories, At, Score
  <2>2. ~Usable(r, RowOf(r.specific, Said(r, R)))
    <3>1. Said(r, R) # None => Said(r, R) \in Categories
      BY DetectedIsOver DEF IsRouting, Said
    <3>2. RowOf(r.specific, Said(r, R)) = None BY <1>3, <3>1 DEF RowOf
    <3> QED BY <3>2 DEF Usable
  <2>3. Course(r, R) = FromScore(r, R)
    <3>1. Course(r, R) = FromFlags(r, R, r.specific) BY <2>1, CourseAt
    <3> QED BY <2>2, <3>1 DEF FromFlags, FromCategory
  <2>4. Agrees(r, R) => Scoring(r, R) BY <2>1, AgreesAt
  <2> QED BY <2>1, <2>2, <2>3, <2>4, ScoreReads
<1>4. CASE ReadCategories /\ ~\A c \in Categories : r.specific[c] = None
  <2>1. R.step = "categories" /\ R1 = [R EXCEPT !.step = "flags", !.row = r.specific]
    BY <1>4 DEF ReadCategories, At
  <2>2. /\ Carried(R, R1) /\ Alike(R, R1) /\ R1.step = "flags" /\ R1.category = None
        /\ R1.row = r.specific
    BY <2>1 DEF IsResolving, Alike, Carried
  <2>3. Course(r, R) = FromFlags(r, R, r.specific) BY <2>1, CourseAt
  <2>4. Course(r, R1) = FromFlags(r, R1, R1.row) BY <2>2, CourseAt
  <2>5. FromFlags(r, R1, r.specific) = FromFlags(r, R, r.specific) BY <2>2, FlagsOfAlike
  <2>6. Agrees(r, R) => Agrees(r, R1)
    <3>1. Agrees(r, R) => Scoring(r, R) BY <2>1, AgreesAt
    <3>2. Scoring(r, R1) /\ R1.row = r.specific => Agrees(r, R1) BY <2>2, AgreesAt
    <3> QED BY <2>2, <3>1, <3>2, SameOfAlike
  <2> QED BY <2>2, <2>3, <2>4, <2>5, <2>6 DEF Onward, RouteSteps, Anchored, Placed
<1> QED BY <1>1, <1>2, <1>3, <1>4

\* ReadFlags, CheckCategory.
LEMMA CategoryReads ==
  ASSUME IsRouting(routing), IsResolving(resolving),
         Anchored(resolving), Placed(resolving),
         resolving.msg \in Messages,
         ReadFlags \/ CheckCategory
  PROVE  /\ Carried(resolving, resolving') /\ Alike(resolving, resolving')
         /\ Onward(routing, resolving, resolving')
<1> DEFINE r == routing
           R == resolving
           R1 == resolving'
           c == Said(r, R)
           row == RowOf(R.row, c)
<1>1. c # None =>
        /\ c \in Categories /\ r.flags[c] \in Nat
        /\ R.msg.asked = c \/ OverThreshold(R.msg, c, R.categories, r.flags[c])
  BY DetectedIsOver DEF IsRouting, Said
<1>2. ASSUME ReadFlags
      PROVE  /\ R.step = "flags" /\ Course(r, R) = FromCategory(r, R, c, row)
             /\ Agrees(r, R) => Scoring(r, R) /\ row = RowOf(r.specific, c)
  <2>1. R.step = "flags" BY <1>2 DEF ReadFlags, At
  <2>2. Course(r, R) = FromFlags(r, R, R.row) BY <2>1, CourseAt
  <2>3. Agrees(r, R) => Scoring(r, R) /\ R.row = r.specific BY <2>1, AgreesAt
  <2> QED BY <2>1, <2>2, <2>3 DEF FromFlags
<1>3. CASE ReadFlags /\ (row = None \/ (row.override = None /\ row.auto = None))
  <2>1. R1 = [R EXCEPT !.step = "tiers", !.scored = TRUE, !.category = None,
                       !.row = None, !.tier = ScoredTier(R.msg, R.tiers)]
    BY <1>3 DEF ReadFlags, Score, Said, RowOf
  <2>2. ~Usable(r, row) BY <1>3 DEF Usable
  <2>3. Course(r, R) = FromScore(r, R) BY <1>2, <1>3, <2>2 DEF FromCategory
  <2>4. Agrees(r, R) => Scoring(r, R) /\ ~Usable(r, RowOf(r.specific, Said(r, R)))
    BY <1>2, <1>3, <2>2
  <2> QED BY <2>1, <2>3, <2>4, ScoreReads
<1>4. CASE ReadFlags /\ row # None /\ row.override # None
  <2>1. R1 = [R EXCEPT !.step = "category model", !.row = row, !.category = c, !.flags = r.flags[c]]
    BY <1>4 DEF ReadFlags, Said, RowOf
  <2>2. /\ Carried(R, R1) /\ Alike(R, R1) /\ R1.step = "category model" /\ R1.category = c
        /\ R1.row = row /\ R1.flags = r.flags[c]
    BY <2>1 DEF IsResolving, Alike, Carried
  <2>3. Course(r, R1) = FromCategory(r, R1, R1.category, R1.row) BY <2>2, CourseAt
  <2>4. FromCategory(r, R1, c, row) = FromCategory(r, R, c, row)
    <3>1. Alike(R, R1) BY <2>2
    <3> HIDE DEF c, row
    <3> QED BY <3>1, CategoryOfAlike
  <2>5. Course(r, R1) = Course(r, R) BY <1>2, <1>4, <2>2, <2>3, <2>4
  <2>6. Agrees(r, R) => Agrees(r, R1)
    <3>1. Agrees(r, R) => Scoring(r, R1) /\ R1.row = RowOf(r.specific, R1.category)
      BY <1>2, <1>4, <2>2, SameOfAlike
    <3>2. R1.category = Said(r, R1) BY <2>2, SameOfAlike
    <3>3. /\ Scoring(r, R1) /\ R1.category = Said(r, R1) /\ R1.row = RowOf(r.specific, R1.category)
          => Agrees(r, R1)
      BY <2>2, AgreesAt
    <3> QED BY <3>1, <3>2, <3>3
  <2>7. Anchored(R1)
    <3>1. R1.msg = R.msg /\ R1.categories = R.categories BY <2>2 DEF Alike
    <3> QED BY <1>1, <2>2, <3>1 DEF Anchored
  <2> QED BY <1>4, <2>2, <2>5, <2>6, <2>7 DEF Onward, RouteSteps, Placed
<1>5. CASE ReadFlags /\ row # None /\ row.override = None /\ row.auto # None
  <2>1. R1 = [R EXCEPT !.step = "decided", !.tier = "standard", !.category = c,
                       !.flags = r.flags[c], !.row = None,
                       !.model = Effective(row, row.auto)]
    BY <1>5 DEF ReadFlags, Said, RowOf
  <2>2. /\ Carried(R, R1) /\ Alike(R, R1) /\ R1.step = "decided" /\ R1.category = c
        /\ R1.tier = "standard" /\ R1.model = Effective(row, row.auto)
        /\ R1.flags = r.flags[c]
    BY <2>1 DEF IsResolving, Alike, Carried
  <2>3. Course(r, R1) = [tier |-> R1.tier, category |-> R1.category, model |-> R1.model]
    BY <2>2, CourseAt
  <2>4. Usable(r, row) /\ Offer(r, row) = row.auto BY <1>5 DEF Usable, Offer, IsRouting
  <2>5. Course(r, R) = Choice("standard", c, row, row.auto)
    BY <1>2, <1>5, <2>4 DEF FromCategory
  <2>6. Course(r, R1) = Course(r, R) BY <2>2, <2>3, <2>5 DEF Choice
  <2>7. Agrees(r, R1) BY <2>2, AgreesAt
  <2>8. Anchored(R1)
    <3>1. R1.msg = R.msg /\ R1.categories = R.categories BY <2>2 DEF Alike
    <3> QED BY <1>1, <2>2, <3>1 DEF Anchored
  <2> QED BY <2>2, <2>6, <2>7, <2>8 DEF Onward, RouteSteps, Placed
<1>6. ASSUME CheckCategory
      PROVE  /\ R.step = "category model" /\ Course(r, R) = FromCategory(r, R, R.category, R.row)
             /\ Usable(r, R.row) <=> R.row.override \in r.available
             /\ Agrees(r, R) => Scoring(r, R) /\ R.row = RowOf(r.specific, Said(r, R))
  <2>1. R.step = "category model" BY <1>6 DEF CheckCategory, At
  <2>2. Course(r, R) = FromCategory(r, R, R.category, R.row) BY <2>1, CourseAt
  <2>3. Usable(r, R.row) <=> R.row.override \in r.available BY <2>1 DEF Usable, Placed
  <2>4. Agrees(r, R) => /\ Scoring(r, R) /\ R.category = Said(r, R)
                        /\ R.row = RowOf(r.specific, R.category)
    BY <2>1, AgreesAt
  <2> QED BY <2>1, <2>2, <2>3, <2>4
<1>7. CASE CheckCategory /\ R.row.override \in r.available
  <2>1. R1 = [R EXCEPT !.step = "decided", !.tier = "standard", !.category = R.category,
                       !.row = None, !.model = Effective(R.row, R.row.override)]
    BY <1>7 DEF CheckCategory, Decide
  <2>2. /\ Carried(R, R1) /\ Alike(R, R1) /\ R1.step = "decided" /\ R1.category = R.category
        /\ R1.tier = "standard" /\ R1.model = Effective(R.row, R.row.override)
        /\ R1.flags = R.flags
    BY <2>1 DEF IsResolving, Alike, Carried
  <2>3. Course(r, R1) = [tier |-> R1.tier, category |-> R1.category, model |-> R1.model]
    BY <2>2, CourseAt
  <2>4. Usable(r, R.row) /\ Offer(r, R.row) = R.row.override BY <1>6, <1>7 DEF Offer
  <2>5. Course(r, R) = Choice("standard", R.category, R.row, R.row.override)
    BY <1>6, <1>7, <2>4 DEF FromCategory
  <2>6. Course(r, R1) = Course(r, R) BY <2>2, <2>3, <2>5 DEF Choice
  <2>7. Agrees(r, R1) BY <2>2, AgreesAt
  <2>8. Anchored(R1)
    <3>1. R1.msg = R.msg /\ R1.categories = R.categories BY <2>2 DEF Alike
    <3> QED BY <2>2, <3>1 DEF Anchored
  <2> QED BY <2>2, <2>6, <2>7, <2>8 DEF Onward, RouteSteps, Placed
<1>8. CASE CheckCategory /\ R.row.override \notin r.available
  <2>1. R1 = [R EXCEPT !.step = "tiers", !.scored = TRUE, !.category = None,
                       !.row = None, !.tier = ScoredTier(R.msg, R.tiers)]
    BY <1>8 DEF CheckCategory, Score
  <2>2. Course(r, R) = FromScore(r, R) BY <1>6, <1>8 DEF FromCategory
  <2>3. Agrees(r, R) => Scoring(r, R) /\ ~Usable(r, RowOf(r.specific, Said(r, R)))
    BY <1>6, <1>8
  <2> QED BY <2>1, <2>2, <2>3, ScoreReads
<1> QED BY <1>3, <1>4, <1>5, <1>7, <1>8

\* ReadTiers, CheckTier.
LEMMA TierReads ==
  ASSUME IsRouting(routing), IsResolving(resolving), resolving.category = None,
         ReadTiers \/ CheckTier
  PROVE  /\ Carried(resolving, resolving') /\ Alike(resolving, resolving')
         /\ Onward(routing, resolving, resolving')
<1> DEFINE r == routing
           R == resolving
           R1 == resolving'
           row == r.tier[R.tier]
<1>1. CASE ReadTiers /\ row.override = None
  <2>1. /\ R.step = "tiers"
        /\ R1 = [R EXCEPT !.step = "decided", !.tier = R.tier, !.category = None,
                          !.row = None, !.model = Effective(row, row.auto)]
    BY <1>1 DEF ReadTiers, At, Decide
  <2>2. /\ Carried(R, R1) /\ Alike(R, R1) /\ R1.step = "decided" /\ R1.category = None
        /\ R1.tier = R.tier /\ R1.model = Effective(row, row.auto)
    BY <2>1 DEF IsResolving, Alike, Carried
  <2>3. Course(r, R1) = [tier |-> R1.tier, category |-> R1.category, model |-> R1.model]
    BY <2>2, CourseAt
  <2>4. Offer(r, row) = row.auto BY <1>1 DEF Offer, IsRouting
  <2>5. Course(r, R) = FromTier(r, R.tier) BY <2>1, CourseAt
  <2>6. Course(r, R1) = Course(r, R)
    BY <2>2, <2>3, <2>4, <2>5 DEF FromTier, Choice
  <2>7. Agrees(r, R1) BY <2>2, AgreesAt
  <2> QED BY <2>2, <2>6, <2>7 DEF Onward, RouteSteps, Anchored, Placed
<1>2. CASE ReadTiers /\ row.override # None
  <2>1. R.step = "tiers" /\ R1 = [R EXCEPT !.step = "tier model", !.row = row]
    BY <1>2 DEF ReadTiers, At
  <2>2. /\ Carried(R, R1) /\ Alike(R, R1) /\ R1.step = "tier model"
        /\ R1.category = R.category /\ R1.tier = R.tier /\ R1.row = row
    BY <2>1 DEF IsResolving, Alike, Carried
  <2>3. Course(r, R) = FromTier(r, R.tier) BY <2>1, CourseAt
  <2>4. Course(r, R1) = Choice(R1.tier, None, R1.row, Offer(r, R1.row))
    BY <2>2, CourseAt
  <2>5. Course(r, R1) = Course(r, R) BY <2>2, <2>3, <2>4 DEF FromTier
  <2>6. Agrees(r, R) => Agrees(r, R1)
    <3>1. Agrees(r, R) => TierReason(r, R) BY <2>1, AgreesAt
    <3>2. TierReason(r, R) => TierReason(r, R1)
      <4>1. R1.msg = R.msg /\ R1.tiers = R.tiers /\ R1.tier = R.tier BY <2>2 DEF Alike
      <4>2. /\ Said(r, R1) = Said(r, R) /\ (Scoring(r, R1) <=> Scoring(r, R))
            /\ Unheaded(r, R1) <=> Unheaded(r, R)
        BY <2>2, SameOfAlike
      <4> QED BY <4>1, <4>2 DEF TierReason
    <3>3. TierReason(r, R1) /\ R1.row = r.tier[R1.tier] => Agrees(r, R1) BY <2>2, AgreesAt
    <3> QED BY <2>2, <3>1, <3>2, <3>3
  <2> QED BY <2>2, <2>5, <2>6 DEF Onward, RouteSteps, Anchored, Placed
<1>3. CASE CheckTier
  <2>1. /\ R.step = "tier model"
        /\ R1 = [R EXCEPT !.step = "decided", !.tier = R.tier, !.category = None,
                          !.row = None, !.model = Effective(R.row, Offer(r, R.row))]
    BY <1>3 DEF CheckTier, At, Decide, Offer
  <2>2. /\ Carried(R, R1) /\ Alike(R, R1) /\ R1.step = "decided" /\ R1.category = None
        /\ R1.tier = R.tier /\ R1.model = Effective(R.row, Offer(r, R.row))
    BY <2>1 DEF IsResolving, Alike, Carried
  <2>3. Course(r, R1) = [tier |-> R1.tier, category |-> R1.category, model |-> R1.model]
    BY <2>2, CourseAt
  <2>4. Course(r, R) = Choice(R.tier, None, R.row, Offer(r, R.row))
    BY <2>1, CourseAt
  <2>5. Course(r, R1) = Course(r, R) BY <2>2, <2>3, <2>4 DEF Choice
  <2>6. Agrees(r, R1) BY <2>2, AgreesAt
  <2> QED BY <2>2, <2>5, <2>6 DEF Onward, RouteSteps, Anchored, Placed
<1> QED BY <1>1, <1>2, <1>3

LEMMA CourseOfAlike ==
  ASSUME NEW r, NEW R, NEW R1, Alike(R, R1), R.step \in RouteSteps, R1.step = R.step,
         R1.row = R.row, R1.tier = R.tier, R1.category = R.category, R1.model = R.model
  PROVE  Course(r, R1) = Course(r, R)
<1>1. ASSUME NEW c, NEW row PROVE FromCategory(r, R1, c, row) = FromCategory(r, R, c, row)
  BY CategoryOfAlike
<1>2. ASSUME NEW table PROVE FromFlags(r, R1, table) = FromFlags(r, R, table) BY FlagsOfAlike
<1>3. FromAgent(r, R1) = FromAgent(r, R) /\ FromHeader(r, R1) = FromHeader(r, R)
  <2>1. FromAgent(r, R1) = FromAgent(r, R) BY SameOfAlike
  <2>2. Headed(r, R1) <=> Headed(r, R) BY DEF Headed, Alike
  <2> QED BY <2>1, <2>2 DEF FromHeader
<1> QED BY <1>1, <1>2, <1>3 DEF Course

\* What is decided follows from one routing of the time: until a change, the one that all
\* reads agree with; after it, that one or the new one.
OfItsTime(r, R) ==
  ~R.grew => /\ R.meanwhile = 0 => Agrees(r, R)
             /\ R.meanwhile <= 1 => Course(r, R) \in R.prescribed

RoutesTell ==
  /\ IsRouting(routing)
  /\ resolving # None =>
       /\ IsResolving(resolving) /\ resolving.step \in RouteSteps /\ resolving.msg \in Messages
       /\ resolving.meanwhile \in Nat
       /\ Anchored(resolving) /\ Placed(resolving)
       /\ OfItsTime(routing, resolving)

LEMMA RoutesTellFirst == RoutingInit => RoutesTell
BY SessionAssumption DEF RoutingInit, RoutesTell, IsRouting, RoutingTables, Categories

LEMMA AsksForRoute ==
  ASSUME RoutesTell, NEW m \in Messages, Read(m)
  PROVE  RoutesTell'
<1> DEFINE r == routing
           R1 == resolving'
<1>1. PICK recent, categories, alike :
        resolving' =
           [step |-> IF m.heartbeat THEN "tiers" ELSE "header", msg |-> m,
            tiers |-> recent, categories |-> categories, alike |-> alike,
            tier |-> IF m.heartbeat THEN "simple" ELSE None,
            category |-> None, row |-> None, model |-> None, scored |-> FALSE,
            flags |-> 0, grew |-> FALSE, meanwhile |-> 0,
            prescribed |-> {Prescribed(routing, m, recent, categories)}]
  BY DEF Read
<1>2. routing' = routing BY DEF Read
<1>3. /\ IsResolving(R1) /\ R1.step \in RouteSteps \ {"decided"} /\ R1.msg = m /\ R1.meanwhile = 0
      /\ R1.category = None /\ R1.step # "category model"
      /\ R1.prescribed = {Then(r, R1)}
  BY <1>1 DEF IsResolving, RouteSteps, Then
<1>4. Agrees(r, R1)
  <2>1. CASE m.heartbeat
    <3>1. R1.step = "tiers" /\ R1.msg = m /\ R1.tier = "simple" BY <1>1, <2>1
    <3>2. TierReason(r, R1) BY <2>1, <3>1 DEF TierReason
    <3> QED BY <3>1, <3>2, AgreesAt
  <2>2. CASE ~m.heartbeat
    <3>1. R1.step = "header" /\ R1.msg = m BY <1>1, <2>2
    <3>2. Unheard(R1) BY <2>2, <3>1 DEF Unheard
    <3> QED BY <3>1, <3>2, AgreesAt
  <2> QED BY <2>1, <2>2
<1>5. IsRouting(r) BY DEF RoutesTell
<1>6. Course(r, R1) \in R1.prescribed BY <1>3, <1>4, <1>5, AgreeingLeads
<1>7. OfItsTime(r, R1) BY <1>3, <1>4, <1>6 DEF OfItsTime
<1>8. Anchored(R1) /\ Placed(R1) BY <1>3 DEF Anchored, Placed
<1>9. R1.step \in RouteSteps BY <1>3
<1>10. R1.msg \in Messages
  <2>1. R1.msg = m BY <1>3
  <2> QED BY <2>1
<1>11. R1.meanwhile \in Nat
  <2>1. R1.meanwhile = 0 BY <1>3
  <2> QED BY <2>1
<1>12. IsResolving(R1) BY <1>3
<1> QED BY <1>2, <1>5, <1>7, <1>8, <1>9, <1>10, <1>11, <1>12 DEF RoutesTell

LEMMA ReadsOnward ==
  ASSUME RoutesTell,
         \/ ReadHeader \/ CheckHeader \/ ReadAgent
         \/ ReadCategories \/ ReadFlags \/ CheckCategory
         \/ ReadTiers \/ CheckTier
  PROVE  RoutesTell'
<1>1. resolving # None /\ routing' = routing
  BY DEF ReadHeader, CheckHeader, ReadAgent, ReadCategories,
         ReadFlags, CheckCategory, ReadTiers, CheckTier,
         Unread, At
<1>2. /\ IsRouting(routing) /\ IsResolving(resolving) /\ resolving.step \in RouteSteps
      /\ resolving.msg \in Messages /\ resolving.meanwhile \in Nat
      /\ Anchored(resolving) /\ Placed(resolving) /\ OfItsTime(routing, resolving)
  BY <1>1 DEF RoutesTell
<1>3. /\ Carried(resolving, resolving') /\ Alike(resolving, resolving')
      /\ Onward(routing, resolving, resolving')
  <2>1. CASE ReadHeader \/ CheckHeader
    <3>1. resolving.category = None
      BY <1>2, <2>1 DEF ReadHeader, CheckHeader, At, Placed
    <3> QED BY <1>2, <2>1, <3>1, HeaderReads
  <2>2. CASE ReadAgent \/ ReadCategories
    <3>1. resolving.category = None
      BY <1>2, <2>2 DEF ReadAgent, ReadCategories, At, Placed
    <3> QED BY <1>2, <2>2, <3>1, AgentReads
  <2>3. CASE ReadFlags \/ CheckCategory BY <1>2, <2>3, CategoryReads
  <2>4. CASE ReadTiers \/ CheckTier
    <3>1. resolving.category = None
      BY <1>2, <2>4 DEF ReadTiers, CheckTier, At, Placed
    <3> QED BY <1>2, <2>4, <3>1, TierReads
  <2> QED BY <2>1, <2>2, <2>3, <2>4
<1>4. OfItsTime(routing, resolving') BY <1>2, <1>3 DEF OfItsTime, Carried, Onward
<1>5. resolving'.msg \in Messages /\ resolving'.meanwhile \in Nat
  BY <1>2, <1>3 DEF Carried, Alike
<1>6. IsResolving(resolving') /\ resolving'.step \in RouteSteps /\ Anchored(resolving') /\ Placed(resolving')
  BY <1>3 DEF Carried, Onward
<1> QED BY <1>1, <1>2, <1>4, <1>5, <1>6 DEF RoutesTell

LEMMA ChangeTells ==
  ASSUME RoutesTell, NEW r1, NEW grew,
         grew \in BOOLEAN, IsRouting(r1), ~grew => OneTable(routing, r1),
         Change(r1, grew)
  PROVE  RoutesTell'
<1> DEFINE r == routing
           R == resolving
           R1 == resolving'
<1>1. routing' = r1 /\ IsRouting(r1) BY DEF Change
<1>2. CASE R = None
  <2>1. R1 = None BY <1>2 DEF Change
  <2> QED BY <1>1, <2>1 DEF RoutesTell
<1>3. CASE R # None /\ R.step = "decided"
  <2>1. R1 = R BY <1>3 DEF Change, At
  <2>2. Course(r, R) = [tier |-> R.tier, category |-> R.category, model |-> R.model]
        /\ Course(r1, R) = [tier |-> R.tier, category |-> R.category, model |-> R.model]
        /\ Agrees(r1, R)
    BY <1>3, CourseAt, AgreesAt
  <2>3. OfItsTime(r, R) BY <1>3 DEF RoutesTell
  <2>4. OfItsTime(r1, R) BY <2>2, <2>3 DEF OfItsTime
  <2> QED BY <1>1, <1>3, <2>1, <2>4 DEF RoutesTell
<1>4. CASE R # None /\ R.step # "decided"
  <2>1. /\ IsRouting(r) /\ IsResolving(R) /\ R.step \in RouteSteps
        /\ R.msg \in Messages /\ R.meanwhile \in Nat
        /\ Anchored(R) /\ Placed(R) /\ OfItsTime(r, R)
    BY <1>4 DEF RoutesTell
  <2>2. R1 = [R EXCEPT !.grew = R.grew \/ grew, !.meanwhile = R.meanwhile + 1,
                      !.prescribed = R.prescribed \cup {Then(r1, R)}]
    BY <1>4 DEF Change, At, Then
  <2>3. /\ IsResolving(R1) /\ Alike(R, R1) /\ R1.step = R.step /\ R1.row = R.row
        /\ R1.tier = R.tier /\ R1.category = R.category /\ R1.model = R.model
        /\ R1.flags = R.flags /\ R1.meanwhile = R.meanwhile + 1
        /\ R1.prescribed = R.prescribed \cup {Then(r1, R)}
    BY <2>1, <2>2 DEF IsResolving, Alike
  <2>4. ~R1.grew => ~R.grew /\ ~grew BY <2>1, <2>2 DEF IsResolving
  <2>5. Course(r1, R1) = Course(r1, R) BY <2>1, <2>3, CourseOfAlike
  <2>6. ASSUME ~R1.grew, R1.meanwhile <= 1 PROVE Course(r1, R1) \in R1.prescribed
    <3>1. R.meanwhile = 0 /\ ~R.grew /\ OneTable(r, r1) BY <2>1, <2>3, <2>4, <2>6
    <3>2. Agrees(r, R) /\ Course(r, R) \in R.prescribed BY <2>1, <3>1 DEF OfItsTime
    <3>3. Agrees(r1, R) \/ Course(r1, R) = Course(r, R) BY <2>1, <3>1, <3>2, OneChange
    <3>4. Agrees(r1, R) => Course(r1, R) = Then(r1, R) BY <1>1, <1>4, <2>1, AgreeingLeads
    <3> QED BY <2>3, <2>5, <3>2, <3>3, <3>4
  <2>7. OfItsTime(r1, R1) BY <2>1, <2>3, <2>6 DEF OfItsTime
  <2>8. Anchored(R1) /\ Placed(R1) /\ R1.msg \in Messages
    BY <2>1, <2>3 DEF Anchored, Placed, Alike
  <2> QED BY <1>1, <2>1, <2>3, <2>7, <2>8 DEF RoutesTell
<1> QED BY <1>2, <1>3, <1>4

\* The tables after a change are those of a routing, and differ in one.
LEMMA EachChangeTells ==
  ASSUME RoutesTell,
         \/ \E row \in Rows :
              \/ StoreHeader(row)
              \/ \E c \in Categories : StoreCategory(c, row)
              \/ row # None /\ \E place \in TierSlots : StoreTier(place, row)
         \/ Switch
         \/ \E model \in UNION {r.available : r \in Routings} :
              Lose(model) \/ Gain(model)
         \/ \E c \in Categories : Flag(c) \/ Unflag(c)
  PROVE  RoutesTell'
<1>1. DOMAIN routing = RoutingTables /\ None \notin routing.available
      /\ routing.flags \in [Categories -> Nat]
  BY DEF RoutesTell, IsRouting
<1>2. ASSUME NEW row, StoreHeader(row) PROVE RoutesTell'
  <2>1. Change([routing EXCEPT !.header = row], FALSE) BY <1>2 DEF StoreHeader
  <2>2. IsRouting([routing EXCEPT !.header = row]) BY <1>1 DEF IsRouting, RoutingTables
  <2>3. OneTable(routing, [routing EXCEPT !.header = row]) BY <1>1 DEF OneTable, RoutingTables
  <2> QED BY <2>1, <2>2, <2>3, ChangeTells
<1>3. ASSUME NEW c \in Categories, NEW row, StoreCategory(c, row) PROVE RoutesTell'
  <2>1. Change([routing EXCEPT !.specific[c] = row], FALSE) BY <1>3 DEF StoreCategory
  <2>2. IsRouting([routing EXCEPT !.specific[c] = row]) BY <1>1 DEF IsRouting, RoutingTables
  <2>3. OneTable(routing, [routing EXCEPT !.specific[c] = row]) BY <1>1 DEF OneTable, RoutingTables
  <2> QED BY <2>1, <2>2, <2>3, ChangeTells
<1>4. ASSUME NEW place, NEW row, StoreTier(place, row) PROVE RoutesTell'
  <2>1. Change([routing EXCEPT !.tier[place] = row], FALSE) BY <1>4 DEF StoreTier
  <2>2. IsRouting([routing EXCEPT !.tier[place] = row]) BY <1>1 DEF IsRouting, RoutingTables
  <2>3. OneTable(routing, [routing EXCEPT !.tier[place] = row]) BY <1>1 DEF OneTable, RoutingTables
  <2> QED BY <2>1, <2>2, <2>3, ChangeTells
<1>5. CASE Switch
  <2>1. Change([routing EXCEPT !.complexity = ~@], FALSE) BY <1>5 DEF Switch
  <2>2. IsRouting([routing EXCEPT !.complexity = ~@]) BY <1>1 DEF IsRouting, RoutingTables
  <2>3. OneTable(routing, [routing EXCEPT !.complexity = ~@]) BY <1>1 DEF OneTable, RoutingTables
  <2> QED BY <2>1, <2>2, <2>3, ChangeTells
<1>6. ASSUME NEW model, Lose(model) PROVE RoutesTell'
  <2>1. Change([routing EXCEPT !.available = @ \ {model}], FALSE) BY <1>6 DEF Lose
  <2>2. IsRouting([routing EXCEPT !.available = @ \ {model}]) BY <1>1 DEF IsRouting, RoutingTables
  <2>3. OneTable(routing, [routing EXCEPT !.available = @ \ {model}]) BY <1>1 DEF OneTable, RoutingTables
  <2> QED BY <2>1, <2>2, <2>3, ChangeTells
<1>7. ASSUME NEW model \in UNION {r.available : r \in Routings}, Gain(model)
      PROVE  RoutesTell'
  <2>1. Change([routing EXCEPT !.available = @ \cup {model}], TRUE) BY <1>7 DEF Gain
  <2>2. model # None BY SessionAssumption
  <2>3. IsRouting([routing EXCEPT !.available = @ \cup {model}])
    BY <1>1, <2>2 DEF IsRouting, RoutingTables
  <2> QED BY <2>1, <2>3, ChangeTells
<1>8. ASSUME NEW c \in Categories, Flag(c) PROVE RoutesTell'
  <2>1. Change([routing EXCEPT !.flags[c] = @ + 1], FALSE) BY <1>8 DEF Flag
  <2>2. IsRouting([routing EXCEPT !.flags[c] = @ + 1]) BY <1>1 DEF IsRouting, RoutingTables
  <2>3. OneTable(routing, [routing EXCEPT !.flags[c] = @ + 1]) BY <1>1 DEF OneTable, RoutingTables
  <2> QED BY <2>1, <2>2, <2>3, ChangeTells
<1>9. ASSUME NEW c \in Categories, Unflag(c) PROVE RoutesTell'
  <2>1. routing.flags[c] > 0 /\ Change([routing EXCEPT !.flags[c] = @ - 1], FALSE)
    BY <1>9 DEF Unflag
  <2>2. IsRouting([routing EXCEPT !.flags[c] = @ - 1]) BY <1>1, <2>1 DEF IsRouting, RoutingTables
  <2>3. OneTable(routing, [routing EXCEPT !.flags[c] = @ - 1]) BY <1>1 DEF OneTable, RoutingTables
  <2> QED BY <2>1, <2>2, <2>3, ChangeTells
<1> QED BY <1>2, <1>3, <1>4, <1>5, <1>6, <1>7, <1>8, <1>9

LEMMA RoutesTellOn ==
  ASSUME RoutesTell, [RoutingNext]_routingVars
  PROVE  RoutesTell'
<1>1. CASE Forward
  <2>1. routing' = routing /\ resolving' = None BY <1>1 DEF Forward
  <2> QED BY <2>1 DEF RoutesTell
<1>2. CASE UNCHANGED <<routing, resolving>> BY <1>2 DEF RoutesTell
<1>3. ASSUME NEW q \in Slots, Answered(q) PROVE UNCHANGED <<routing, resolving>>
  BY <1>3 DEF Answered
<1>4. CASE EvictStale \/ Tick
  <2>1. UNCHANGED <<routing, resolving>> BY <1>4 DEF EvictStale, Tick
  <2> QED BY <1>2, <2>1
<1>5. CASE UNCHANGED routingVars
  <2>1. UNCHANGED <<routing, resolving>> BY <1>5 DEF routingVars
  <2> QED BY <1>2, <2>1
<1> QED
  BY <1>1, <1>2, <1>3, <1>4, <1>5, AsksForRoute, ReadsOnward, EachChangeTells DEF RoutingNext

\* However the tables change while they are read, one change between the first and the
\* last read leaves a decision that the old routing or the new one prescribes
\* (resolveRouting and ResolveService.resolve, which await each table in turn).
THEOREM RoutesAreOfTheirTime ==
  RoutingSpec => []DecisionIsOfItsTime
<1>1. RoutesTell => DecisionIsOfItsTime
  <2>1. SUFFICES ASSUME RoutesTell, At("decided"), ~resolving.grew, resolving.meanwhile <= 1
                 PROVE  [tier |-> resolving.tier, category |-> resolving.category,
                         model |-> resolving.model] \in resolving.prescribed
    BY DEF DecisionIsOfItsTime
  <2>2. resolving # None /\ resolving.step = "decided" BY <2>1 DEF At
  <2>3. Course(routing, resolving) \in resolving.prescribed BY <2>1, <2>2 DEF RoutesTell, OfItsTime
  <2> QED BY <2>2, <2>3, CourseAt
<1>2. RoutingInit => RoutesTell BY RoutesTellFirst
<1>3. RoutesTell /\ [RoutingNext]_routingVars => RoutesTell' BY RoutesTellOn
<1> QED BY <1>1, <1>2, <1>3, PTL DEF RoutingSpec

LEMMA FlagsOutweigh ==
  ASSUME NEW m, NEW c, NEW categories, NEW n \in Nat, n >= 3,
         m.signal[c] \in Nat, Threshold[c] \in Nat, OverThreshold(m, c, categories, n)
  PROVE  m.signal[c] >= Threshold[c]
<1>1. PICK s : s = m.signal[c] OBVIOUS
<1>2. PICK t : t = Threshold[c] OBVIOUS
<1>3. PICK b : b = Bias(c, categories) OBVIOUS
<1>4. PICK p : p = Penalty(n) OBVIOUS
<1>5. Less(s + b, p) >= t BY <1>1, <1>2, <1>3, <1>4 DEF OverThreshold
<1>6. s \in Nat /\ t \in Nat BY <1>1, <1>2
<1>7. b \in 0..200 BY <1>3 DEF Bias, STICKY_BIAS
<1>8. p \in Nat /\ p >= 225
  BY <1>4 DEF Penalty, PENALTY_CAP, PENALTY_PER_FLAG
<1>9. s >= t BY <1>5, <1>6, <1>7, <1>8 DEF Less
<1> QED BY <1>1, <1>2, <1>9

\* Three flags outweigh the bias that a session's history gives a category
\* (detectSpecificity with the penalties of SpecificityPenaltyService): a flagged
\* category is chosen only for what the message itself says, or its header.
THEOREM FlagsOutweighHistory ==
  RoutingSpec => []FlaggedNeedsAnAnchor
<1>1. RoutesTell => FlaggedNeedsAnAnchor
  <2> DEFINE c == resolving.category
             m == resolving.msg
  <2>1. SUFFICES ASSUME RoutesTell, At("decided"), c # None, m.asked # c,
                        resolving.flags >= 3
                 PROVE  m.signal[c] >= Threshold[c]
    BY DEF FlaggedNeedsAnAnchor
  <2>2. /\ m \in Messages /\ c \in Categories /\ resolving.flags \in Nat
        /\ OverThreshold(m, c, resolving.categories, resolving.flags)
    BY <2>1 DEF RoutesTell, Anchored, At
  <2>3. m.signal[c] \in Nat /\ Threshold[c] \in Nat
    <3>1. m.signal \in [Categories -> Nat] /\ Threshold \in [Categories -> Nat]
      BY <2>2, SessionAssumption DEF Categories
    <3> HIDE DEF m, c
    <3> QED BY <2>2, <3>1
  <2> QED BY <2>1, <2>2, <2>3, FlagsOutweigh
<1>2. RoutingInit => RoutesTell BY RoutesTellFirst
<1>3. RoutesTell /\ [RoutingNext]_routingVars => RoutesTell' BY RoutesTellOn
<1> QED BY <1>1, <1>2, <1>3, PTL DEF RoutingSpec

\* Momentum.

\* m's tier is a matter of its score once the session has begun.
Weighed(m) == ~m.formal /\ ~(m.brief /\ ~m.technical /\ m.plain)

\* A tier that an answer to m may have: whatever history its score is blended with,
\* one at an end of the scale does not come out at the other end.
Kin(m, t) ==
  /\ t \in Tiers
  /\ Weighed(m) => (m.raw >= 35 => t # "simple") /\ (m.raw < -10 => t # "reasoning")

LEMMA FourTiers ==
  /\ Tiers = {"simple", "standard", "complex", "reasoning"}
  /\ Order["simple"] = 0 /\ Order["standard"] = 1 /\ Order["complex"] = 2 /\ Order["reasoning"] = 3
BY DEF Tiers, Order

LEMMA TimesBounded ==
  ASSUME NEW list \in Seq(Tiers), NEW t
  PROVE  /\ Times(t, list) \in Nat /\ Times(t, list) <= Len(list)
         /\ (\A i \in DOMAIN list : list[i] # t) => Times(t, list) = 0
<1> DEFINE S == {i \in DOMAIN list : list[i] = t}
<1>1. DOMAIN list = 1..Len(list) /\ Len(list) \in Nat OBVIOUS
<1>2. IsFiniteSet(1..Len(list)) /\ Cardinality(1..Len(list)) = Len(list)
  BY <1>1, FS_Interval
<1>3. S \subseteq 1..Len(list) BY <1>1
<1>4. IsFiniteSet(S) /\ Cardinality(S) <= Len(list) BY <1>2, <1>3, FS_Subset
<1>5. Cardinality(S) \in Nat BY <1>4, FS_CardinalityType
<1>6. (\A i \in DOMAIN list : list[i] # t) => Cardinality(S) = 0
  <2>1. (\A i \in DOMAIN list : list[i] # t) => S = {} OBVIOUS
  <2> QED BY <2>1, FS_EmptySet
<1> QED BY <1>4, <1>5, <1>6 DEF Times

\* Two tiers together are met at most as often as there are entries.
LEMMA TimesOfTwo ==
  ASSUME NEW list \in Seq(Tiers), NEW t, NEW u, t # u
  PROVE  Times(t, list) + Times(u, list) <= Len(list)
<1> DEFINE S == {i \in DOMAIN list : list[i] = t}
           T == {i \in DOMAIN list : list[i] = u}
<1>1. DOMAIN list = 1..Len(list) /\ Len(list) \in Nat OBVIOUS
<1>2. IsFiniteSet(1..Len(list)) /\ Cardinality(1..Len(list)) = Len(list)
  BY <1>1, FS_Interval
<1>3. S \cup T \subseteq 1..Len(list) /\ S \cap T = {} BY <1>1
<1>4. IsFiniteSet(S) /\ IsFiniteSet(T) BY <1>2, <1>3, FS_Subset
<1>5. IsFiniteSet(S \cup T) /\ Cardinality(S \cup T) <= Len(list) BY <1>2, <1>3, FS_Subset
<1>6. Cardinality(S \cup T) = Cardinality(S) + Cardinality(T) - Cardinality(S \cap T)
  BY <1>4, FS_Union
<1>7. Cardinality(S \cap T) = 0 BY <1>3, FS_EmptySet
<1>8. Cardinality(S) \in Nat /\ Cardinality(T) \in Nat BY <1>4, FS_CardinalityType
<1> QED BY <1>1, <1>5, <1>6, <1>7, <1>8 DEF Times

\* The mean of a history lies between the scores of its tiers.
LEMMA HistoryBounded ==
  ASSUME NEW list \in Seq(Tiers)
  PROVE  /\ History(list) \in Int
         /\ -20 * Len(list) <= History(list) /\ History(list) <= 40 * Len(list)
         /\ (\A i \in DOMAIN list : list[i] # "simple") => 0 * Len(list) <= History(list)
         /\ (\A i \in DOMAIN list : list[i] # "reasoning") => History(list) <= 20 * Len(list)
<1>1. PICK s \in Nat : s = Times("simple", list) BY TimesBounded
<1>2. PICK c \in Nat : c = Times("complex", list) BY TimesBounded
<1>3. PICK r \in Nat : r = Times("reasoning", list) BY TimesBounded
<1>4. PICK n \in Nat : n = Len(list) OBVIOUS
<1>5. s <= n /\ c <= n BY <1>1, <1>2, <1>4, TimesBounded
<1>6. c + r <= n
  <2>1. "complex" # "reasoning" OBVIOUS
  <2>2. Times("complex", list) + Times("reasoning", list) <= Len(list) BY <2>1, TimesOfTwo
  <2> QED BY <1>2, <1>3, <1>4, <2>2
<1>7. (\A i \in DOMAIN list : list[i] # "simple") => s = 0 BY <1>1, TimesBounded
<1>8. (\A i \in DOMAIN list : list[i] # "reasoning") => r = 0 BY <1>3, TimesBounded
<1>9. History(list) = -20 * s + 20 * c + 40 * r
  <2>1. TIER_SCORES.simple = -20 /\ TIER_SCORES.complex = 20 /\ TIER_SCORES.reasoning = 40
    BY DEF TIER_SCORES
  <2> QED BY <1>1, <1>2, <1>3, <2>1 DEF History
<1> QED BY <1>4, <1>5, <1>6, <1>7, <1>8, <1>9

LEMMA Grows ==
  ASSUME NEW c \in Nat, NEW a \in Int, NEW b \in Int, a <= b
  PROVE  c * a <= c * b /\ c * a \in Int /\ c * b \in Int
OBVIOUS

LEMMA MixFloor ==
  ASSUME NEW w \in 0..60, NEW n \in Nat, NEW r \in Int, NEW h \in Int,
         NEW lo \in Int, NEW g \in Int, lo <= r, g * n <= h
  PROVE  n * ((100 - w) * lo + w * g) <= (100 - w) * r * n + w * h
<1>1. (100 - w) * lo <= (100 - w) * r /\ (100 - w) * lo \in Int /\ (100 - w) * r \in Int
  BY Grows
<1>2. n * ((100 - w) * lo) <= n * ((100 - w) * r) BY <1>1, Grows
<1>3. w * (g * n) <= w * h
  <2>1. g * n \in Int /\ w \in Nat OBVIOUS
  <2> QED BY <2>1, Grows
<1>4. n * ((100 - w) * lo + w * g) = n * ((100 - w) * lo) + w * (g * n) BY <1>1
<1>5. n * ((100 - w) * r) = (100 - w) * r * n BY <1>1
<1>6. /\ n * ((100 - w) * lo) \in Int /\ n * ((100 - w) * r) \in Int
      /\ w * (g * n) \in Int /\ w * h \in Int
  BY <1>1
<1> QED BY <1>2, <1>3, <1>4, <1>5, <1>6

LEMMA MixCeiling ==
  ASSUME NEW w \in 0..60, NEW n \in Nat, NEW r \in Int, NEW h \in Int,
         NEW hi \in Int, NEW g \in Int, r <= hi, h <= g * n
  PROVE  (100 - w) * r * n + w * h <= n * ((100 - w) * hi + w * g)
<1>1. (100 - w) * r <= (100 - w) * hi /\ (100 - w) * hi \in Int /\ (100 - w) * r \in Int
  BY Grows
<1>2. n * ((100 - w) * r) <= n * ((100 - w) * hi) BY <1>1, Grows
<1>3. w * h <= w * (g * n)
  <2>1. g * n \in Int /\ w \in Nat OBVIOUS
  <2> QED BY <2>1, Grows
<1>4. n * ((100 - w) * hi + w * g) = n * ((100 - w) * hi) + w * (g * n) BY <1>1
<1>5. n * ((100 - w) * r) = (100 - w) * r * n BY <1>1
<1>6. /\ n * ((100 - w) * hi) \in Int /\ n * ((100 - w) * r) \in Int
      /\ w * (g * n) \in Int /\ w * h \in Int
  BY <1>1
<1> QED BY <1>2, <1>3, <1>4, <1>5, <1>6

\* The tier of a score is a matter of where it lies between the boundaries.
LEMMA TierOfScore ==
  ASSUME NEW n \in Int, NEW d \in Nat \ {0}
  PROVE  /\ ScoreToTier(n, d) \in Tiers
         /\ -10 * d <= n => ScoreToTier(n, d) # "simple"
         /\ 8 * d <= n => ScoreToTier(n, d) \in {"complex", "reasoning"}
         /\ n < 8 * d => ScoreToTier(n, d) \in {"simple", "standard"}
         /\ n < 35 * d => ScoreToTier(n, d) # "reasoning"
         /\ n < -10 * d => ScoreToTier(n, d) = "simple"
         /\ 35 * d <= n => ScoreToTier(n, d) = "reasoning"
<1>1. PICK a \in Int : a = -10 * d OBVIOUS
<1>2. PICK b \in Int : b = 8 * d OBVIOUS
<1>3. PICK c \in Int : c = 35 * d OBVIOUS
<1>4. a < b /\ b < c BY <1>1, <1>2, <1>3
<1>5. ScoreToTier(n, d) = CASE n < a -> "simple"
                            [] n >= a /\ n < b -> "standard"
                            [] n >= b /\ n < c -> "complex"
                            [] OTHER -> "reasoning"
  BY <1>1, <1>2, <1>3 DEF ScoreToTier
<1>6. CASE n < a BY <1>1, <1>2, <1>3, <1>4, <1>5, <1>6, FourTiers
<1>7. CASE n >= a /\ n < b BY <1>1, <1>2, <1>3, <1>4, <1>5, <1>7, FourTiers
<1>8. CASE n >= b /\ n < c BY <1>1, <1>2, <1>3, <1>4, <1>5, <1>8, FourTiers
<1>9. CASE n >= c BY <1>1, <1>2, <1>3, <1>4, <1>5, <1>9, FourTiers
<1> QED BY <1>4, <1>6, <1>7, <1>8, <1>9

\* The same of a score that momentum was blended into: what the raw score and the
\* sum of the history say of the tier.
BlendedTier(m, recent) == ScoreToTier(Blended(m, recent), 100 * Len(recent))

LEMMA BlendIs ==
  ASSUME NEW m \in Messages, NEW list \in Seq(Tiers), list # <<>>
  PROVE  /\ Len(list) \in Nat \ {0} /\ 100 * Len(list) \in Nat \ {0}
         /\ m.raw \in Int /\ m.weight \in 0..60 /\ History(list) \in Int
         /\ Blended(m, list) = (100 - m.weight) * m.raw * Len(list) + m.weight * History(list)
         /\ Blended(m, list) \in Int
<1>1. Len(list) \in Nat \ {0} OBVIOUS
<1>2. m.raw \in Int /\ m.weight \in 0..60 BY SessionAssumption
<1>3. History(list) \in Int BY HistoryBounded
<1>4. Blended(m, list) = (100 - m.weight) * m.raw * Len(list) + m.weight * History(list) BY DEF Blended
<1>5. Blended(m, list) \in Int
  <2>1. PICK w \in 0..60 : w = m.weight BY <1>2
  <2>2. PICK r \in Int : r = m.raw BY <1>2
  <2>3. PICK n \in Nat : n = Len(list) OBVIOUS
  <2>4. PICK h \in Int : h = History(list) BY <1>3
  <2>5. (100 - w) * r * n + w * h \in Int OBVIOUS
  <2> QED BY <1>4, <2>1, <2>2, <2>3, <2>4, <2>5
<1> QED BY <1>1, <1>2, <1>3, <1>4, <1>5

LEMMA BlendFloor ==
  ASSUME NEW m \in Messages, NEW list \in Seq(Tiers), list # <<>>,
         NEW lo \in Int, NEW g \in Int, NEW k \in Int, lo <= m.raw, g * Len(list) <= History(list),
         \A w \in 0..60 : k <= (100 - w) * lo + w * g
  PROVE  k * Len(list) <= Blended(m, list)
<1>1. PICK n \in Nat : n = Len(list) OBVIOUS
<1>2. PICK w \in 0..60 : w = m.weight BY BlendIs
<1>3. PICK h \in Int : h = History(list) BY BlendIs
<1>4. PICK r \in Int : r = m.raw BY BlendIs
<1>5. n * ((100 - w) * lo + w * g) <= (100 - w) * r * n + w * h BY <1>1, <1>2, <1>3, <1>4, MixFloor
<1>6. (100 - w) * r * n + w * h = Blended(m, list) BY <1>1, <1>2, <1>3, <1>4, BlendIs
<1>7. PICK e \in Int : e = (100 - w) * lo + w * g OBVIOUS
<1>8. n * k <= n * e /\ n * k \in Int /\ n * e \in Int BY <1>2, <1>7, Grows
<1>9. n * k = k * n OBVIOUS
<1> QED BY <1>1, <1>5, <1>6, <1>7, <1>8, <1>9, BlendIs

LEMMA BlendCeiling ==
  ASSUME NEW m \in Messages, NEW list \in Seq(Tiers), list # <<>>,
         NEW hi \in Int, NEW g \in Int, NEW k \in Int, m.raw <= hi, History(list) <= g * Len(list),
         \A w \in 0..60 : (100 - w) * hi + w * g < k
  PROVE  Blended(m, list) < k * Len(list)
<1>1. PICK n \in Nat : n = Len(list) /\ n # 0 OBVIOUS
<1>2. PICK w \in 0..60 : w = m.weight BY BlendIs
<1>3. PICK h \in Int : h = History(list) BY BlendIs
<1>4. PICK r \in Int : r = m.raw BY BlendIs
<1>5. (100 - w) * r * n + w * h <= n * ((100 - w) * hi + w * g)
  <2>1. r <= hi /\ h <= g * n BY <1>1, <1>3, <1>4
  <2> QED BY <2>1, MixCeiling, Zenon
<1>6. (100 - w) * r * n + w * h = Blended(m, list) BY <1>1, <1>2, <1>3, <1>4, BlendIs
<1>7. PICK e \in Int : e = (100 - w) * hi + w * g OBVIOUS
<1>8. n * e <= n * (k - 1) /\ n * (k - 1) \in Int /\ n * e \in Int
  <2>1. e < k BY <1>7
  <2>2. e <= k - 1 /\ k - 1 \in Int BY <2>1
  <2> QED BY <2>2, Grows
<1>9. n * (k - 1) = k * n - n OBVIOUS
<1> QED BY <1>1, <1>5, <1>6, <1>7, <1>8, <1>9, BlendIs

\* What the boundaries make of a score that momentum was blended into.
LEMMA BlendedFar ==
  ASSUME NEW m \in Messages, NEW list \in Seq(Tiers), list # <<>>
  PROVE  /\ BlendedTier(m, list) \in Tiers
         /\ m.raw >= 35 => BlendedTier(m, list) # "simple"
         /\ m.raw >= 8 => BlendedTier(m, list) # "simple"
         /\ m.raw < 8 => BlendedTier(m, list) # "reasoning"
         /\ m.raw < -10 => BlendedTier(m, list) # "reasoning"
<1> DEFINE n == Len(list)
           b == Blended(m, list)
<1>1. /\ n \in Nat \ {0} /\ 100 * n \in Nat \ {0} /\ m.raw \in Int /\ m.weight \in 0..60
      /\ b \in Int
  BY BlendIs
<1>2. -20 * n <= History(list) /\ History(list) <= 40 * n BY HistoryBounded
<1>3. BlendedTier(m, list) = ScoreToTier(b, 100 * n) BY DEF BlendedTier
<1>4. BlendedTier(m, list) \in Tiers BY <1>1, <1>3, TierOfScore
<1>5. ASSUME m.raw >= 8 PROVE BlendedTier(m, list) # "simple"
  <2>1. PICK lo \in Int : lo = 8 OBVIOUS
  <2>2. PICK g \in Int : g = -20 OBVIOUS
  <2>3. PICK k \in Int : k = -1000 OBVIOUS
  <2>4. \A w \in 0..60 : k <= (100 - w) * lo + w * g BY <2>1, <2>2, <2>3
  <2>5. lo <= m.raw /\ g * n <= History(list) BY <1>1, <1>2, <1>5, <2>1, <2>2
  <2>6. k * n <= b BY <2>4, <2>5, BlendFloor, Zenon
  <2>7. -10 * (100 * n) <= b BY <1>1, <2>3, <2>6
  <2> QED BY <1>1, <1>3, <2>7, TierOfScore
<1>6. ASSUME m.raw < 8 PROVE BlendedTier(m, list) # "reasoning"
  <2>1. PICK hi \in Int : hi = 7 OBVIOUS
  <2>2. PICK g \in Int : g = 40 OBVIOUS
  <2>3. PICK k \in Int : k = 3500 OBVIOUS
  <2>4. \A w \in 0..60 : (100 - w) * hi + w * g < k BY <2>1, <2>2, <2>3
  <2>5. m.raw <= hi /\ History(list) <= g * n BY <1>1, <1>2, <1>6, <2>1, <2>2
  <2>6. b < k * n BY <2>4, <2>5, BlendCeiling, Zenon
  <2>7. b < 35 * (100 * n) BY <1>1, <2>3, <2>6
  <2> QED BY <1>1, <1>3, <2>7, TierOfScore
<1> QED BY <1>1, <1>4, <1>5, <1>6

\* Once a history holds nothing from the far end of the scale.
LEMMA BlendedNear ==
  ASSUME NEW m \in Messages, NEW list \in Seq(Tiers), list # <<>>
  PROVE  /\ m.raw >= 35 /\ (\A i \in DOMAIN list : list[i] # "simple")
              => BlendedTier(m, list) \in {"complex", "reasoning"}
         /\ m.raw < -10 /\ (\A i \in DOMAIN list : list[i] # "reasoning")
              => BlendedTier(m, list) \in {"simple", "standard"}
<1> DEFINE n == Len(list)
           b == Blended(m, list)
<1>1. /\ n \in Nat \ {0} /\ 100 * n \in Nat \ {0} /\ m.raw \in Int /\ m.weight \in 0..60
      /\ b \in Int
  BY BlendIs
<1>2. BlendedTier(m, list) = ScoreToTier(b, 100 * n) BY DEF BlendedTier
<1>3. ASSUME m.raw >= 35, \A i \in DOMAIN list : list[i] # "simple"
      PROVE  BlendedTier(m, list) \in {"complex", "reasoning"}
  <2>1. PICK lo \in Int : lo = 35 OBVIOUS
  <2>2. PICK g \in Int : g = 0 OBVIOUS
  <2>3. PICK k \in Int : k = 800 OBVIOUS
  <2>4. \A w \in 0..60 : k <= (100 - w) * lo + w * g BY <2>1, <2>2, <2>3
  <2>5. lo <= m.raw /\ g * n <= History(list) BY <1>1, <1>3, HistoryBounded, <2>1, <2>2
  <2>6. k * n <= b BY <2>4, <2>5, BlendFloor, Zenon
  <2>7. 8 * (100 * n) <= b BY <1>1, <2>3, <2>6
  <2> QED BY <1>1, <1>2, <2>7, TierOfScore
<1>4. ASSUME m.raw < -10, \A i \in DOMAIN list : list[i] # "reasoning"
      PROVE  BlendedTier(m, list) \in {"simple", "standard"}
  <2>1. PICK hi \in Int : hi = -11 OBVIOUS
  <2>2. PICK g \in Int : g = 20 OBVIOUS
  <2>3. PICK k \in Int : k = 800 OBVIOUS
  <2>4. \A w \in 0..60 : (100 - w) * hi + w * g < k BY <2>1, <2>2, <2>3
  <2>5. m.raw <= hi /\ History(list) <= g * n BY <1>1, <1>4, HistoryBounded, <2>1, <2>2
  <2>6. b < k * n BY <2>4, <2>5, BlendCeiling, Zenon
  <2>7. b < 8 * (100 * n) BY <1>1, <2>3, <2>6
  <2> QED BY <1>1, <1>2, <2>7, TierOfScore
<1> QED BY <1>3, <1>4

LEMMA FlooredIs ==
  ASSUME NEW m, NEW t \in Tiers
  PROVE  /\ Floored(m, t) \in Tiers
         /\ t # "simple" => Floored(m, t) # "simple"
         /\ t # "reasoning" => Floored(m, t) # "reasoning"
         /\ t \in {"complex", "reasoning"} => Floored(m, t) = t
<1>1. \A a, b \in Tiers : MaxTier(a, b) = IF Order[a] >= Order[b] THEN a ELSE b BY DEF MaxTier
<1>2. PICK x \in Tiers : x = IF m.tools THEN MaxTier(t, "standard") ELSE t BY <1>1, FourTiers
<1>3. x = t \/ (x = "standard" /\ t = "simple") BY <1>1, <1>2, FourTiers
<1>4. Floored(m, t) = IF m.large THEN MaxTier(x, "complex") ELSE x BY <1>2 DEF Floored
<1>5. Floored(m, t) = x \/ (Floored(m, t) = "complex" /\ x \in {"simple", "standard"})
  BY <1>1, <1>4, FourTiers
<1> QED BY <1>3, <1>5, FourTiers

\* The floors keep tiers that are neighbours neighbours.
LEMMA FlooredNear ==
  ASSUME NEW m, NEW t \in Tiers, NEW o \in Tiers, Order[t] - Order[o] \in -1..1
  PROVE  Order[Floored(m, t)] - Order[Floored(m, o)] \in -1..1
<1>1. \A a, b \in Tiers : MaxTier(a, b) = IF Order[a] >= Order[b] THEN a ELSE b BY DEF MaxTier
<1>2. PICK x \in Tiers : x = IF m.tools THEN MaxTier(t, "standard") ELSE t BY <1>1, FourTiers
<1>3. PICK y \in Tiers : y = IF m.tools THEN MaxTier(o, "standard") ELSE o BY <1>1, FourTiers
<1>4. Order[x] - Order[y] \in -1..1
  <2>1. CASE m.tools BY <1>1, <1>2, <1>3, <2>1, FourTiers
  <2>2. CASE ~m.tools BY <1>2, <1>3, <2>2
  <2> QED BY <2>1, <2>2
<1>5. Floored(m, t) = IF m.large THEN MaxTier(x, "complex") ELSE x BY <1>2 DEF Floored
<1>6. Floored(m, o) = IF m.large THEN MaxTier(y, "complex") ELSE y BY <1>3 DEF Floored
<1>7. CASE m.large BY <1>1, <1>4, <1>5, <1>6, <1>7, FourTiers
<1>8. CASE ~m.large BY <1>4, <1>5, <1>6, <1>8
<1> QED BY <1>7, <1>8

\* Whatever the history, an answer to m is of a tier that its answers may have.
LEMMA AnswersAreKin ==
  ASSUME NEW m \in Messages, NEW list \in Seq(Tiers)
  PROVE  /\ ScoredTier(m, list) \in Tiers
         /\ ~Opening(m, list) => Kin(m, ScoredTier(m, list))
<1>1. CASE m.formal
  <2>1. ScoredTier(m, list) = "reasoning" BY <1>1 DEF ScoredTier
  <2> QED BY <1>1, <2>1, FourTiers DEF Kin, Weighed
<1>2. CASE ~m.formal /\ Shortcut(m, list)
  <2>1. ScoredTier(m, list) = "simple" BY <1>2 DEF ScoredTier
  <2>2. ~Opening(m, list) => ~Weighed(m) BY <1>2 DEF Opening, Shortcut, Weighed
  <2> QED BY <2>1, <2>2, FourTiers DEF Kin
<1>3. CASE ~m.formal /\ ~Shortcut(m, list) /\ list = <<>>
  <2>1. ScoredTier(m, list) = Floored(m, ScoreToTier(m.raw, 1)) BY <1>3 DEF ScoredTier
  <2>2. m.raw \in Int BY SessionAssumption
  <2>3. /\ ScoreToTier(m.raw, 1) \in Tiers
        /\ m.raw >= 35 => ScoreToTier(m.raw, 1) # "simple"
        /\ m.raw < -10 => ScoreToTier(m.raw, 1) # "reasoning"
    BY <2>2, TierOfScore
  <2>4. /\ Floored(m, ScoreToTier(m.raw, 1)) \in Tiers
        /\ m.raw >= 35 => Floored(m, ScoreToTier(m.raw, 1)) # "simple"
        /\ m.raw < -10 => Floored(m, ScoreToTier(m.raw, 1)) # "reasoning"
    BY <2>3, FlooredIs
  <2> QED BY <2>1, <2>4 DEF Kin
<1>4. CASE ~m.formal /\ ~Shortcut(m, list) /\ list # <<>>
  <2>1. ScoredTier(m, list) = Floored(m, BlendedTier(m, list)) BY <1>4 DEF ScoredTier, BlendedTier
  <2>2. /\ BlendedTier(m, list) \in Tiers
        /\ m.raw >= 35 => BlendedTier(m, list) # "simple"
        /\ m.raw < -10 => BlendedTier(m, list) # "reasoning"
    BY <1>4, BlendedFar
  <2>3. /\ Floored(m, BlendedTier(m, list)) \in Tiers
        /\ m.raw >= 35 => Floored(m, BlendedTier(m, list)) # "simple"
        /\ m.raw < -10 => Floored(m, BlendedTier(m, list)) # "reasoning"
    BY <2>2, FlooredIs
  <2> QED BY <2>1, <2>3 DEF Kin
<1> QED BY <1>1, <1>2, <1>3, <1>4

\* Once a session remembers nothing but answers to m, the next is near to m's own tier.
LEMMA KinAreNear ==
  ASSUME NEW m \in Messages, NEW list \in Seq(Tiers), list # <<>>,
         \A i \in DOMAIN list : Kin(m, list[i])
  PROVE  Order[ScoredTier(m, list)] - Order[ScoredTier([m EXCEPT !.weight = 0], list)] \in -1..1
<1> DEFINE own == [m EXCEPT !.weight = 0]
<1>1. /\ own.formal = m.formal /\ own.brief = m.brief /\ own.technical = m.technical
      /\ own.plain = m.plain /\ own.tools = m.tools /\ own.large = m.large
      /\ own.raw = m.raw /\ own.weight = 0
  <2>1. DOMAIN m = {"name", "raw", "weight", "signal", "asked", "header", "heartbeat", "mute",
                    "formal", "brief", "technical", "plain", "tools", "large"}
    BY SessionAssumption
  <2> QED BY <2>1
<1>2. Shortcut(own, list) <=> Shortcut(m, list) BY <1>1 DEF Shortcut
<1>3. CASE m.formal
  <2>1. ScoredTier(m, list) = "reasoning" /\ ScoredTier(own, list) = "reasoning"
    BY <1>1, <1>3 DEF ScoredTier
  <2> QED BY <2>1, FourTiers
<1>4. CASE ~m.formal /\ Shortcut(m, list)
  <2>1. ScoredTier(m, list) = "simple" /\ ScoredTier(own, list) = "simple"
    BY <1>1, <1>2, <1>4 DEF ScoredTier
  <2> QED BY <2>1, FourTiers
<1>5. CASE ~m.formal /\ ~Shortcut(m, list)
  <2>1. ScoredTier(m, list) = Floored(m, BlendedTier(m, list)) BY <1>5 DEF ScoredTier, BlendedTier
  <2>2. ScoredTier(own, list) = Floored(own, BlendedTier(own, list))
    BY <1>1, <1>2, <1>5 DEF ScoredTier, BlendedTier
  <2>3. Floored(own, BlendedTier(own, list)) = Floored(m, BlendedTier(own, list))
    BY <1>1 DEF Floored
  <2>4. PICK o : o = BlendedTier(own, list) OBVIOUS
  <2>5. PICK t : t = BlendedTier(m, list) OBVIOUS
  <2>6. /\ o \in Tiers
        /\ m.raw < -10 => o = "simple"
        /\ -10 <= m.raw => o # "simple"
        /\ m.raw < 8 => o \in {"simple", "standard"}
        /\ 8 <= m.raw => o \in {"complex", "reasoning"}
        /\ m.raw < 35 => o # "reasoning"
        /\ 35 <= m.raw => o = "reasoning"
    <3>1. PICK n \in Nat \ {0} : n = Len(list) BY BlendIs
    <3>2. PICK r \in Int : r = m.raw BY BlendIs
    <3>3. Blended(own, list) = 100 * r * n + 0 * History(list)
      <4>1. own.raw = r /\ 100 - own.weight = 100 /\ own.weight = 0 BY <1>1, <3>2
      <4> QED BY <3>1, <4>1 DEF Blended
    <3>4. Blended(own, list) = n * (100 * r)
      <4>1. PICK h \in Int : h = History(list) BY BlendIs
      <4> QED BY <3>3, <4>1
    <3>5. PICK d \in Nat \ {0} : d = 100 * n OBVIOUS
    <3>6. PICK b \in Int : b = n * (100 * r) OBVIOUS
    <3>7. o = ScoreToTier(b, d) BY <2>4, <3>1, <3>4, <3>5, <3>6 DEF BlendedTier
    <3>8. ASSUME NEW c \in Int, c <= r PROVE c * d <= b
      <4>1. PICK x \in Int : x = 100 * c OBVIOUS
      <4>2. PICK y \in Int : y = 100 * r OBVIOUS
      <4>3. x <= y BY <3>8, <4>1, <4>2
      <4>4. n * x <= n * y BY <4>3, Grows
      <4>5. c * d = n * x BY <3>5, <4>1
      <4> QED BY <3>6, <4>2, <4>4, <4>5
    <3>9. ASSUME NEW c \in Int, r < c PROVE b < c * d
      <4>1. PICK x \in Int : x = 100 * c OBVIOUS
      <4>2. PICK y \in Int : y = 100 * r OBVIOUS
      <4>3. y <= x - 1 /\ x - 1 \in Int BY <3>9, <4>1, <4>2
      <4>4. n * y <= n * (x - 1) BY <4>3, Grows
      <4>5. c * d = n * x /\ n * (x - 1) = n * x - n BY <3>5, <4>1
      <4> QED BY <3>6, <4>2, <4>4, <4>5
    <3>10. /\ r < -10 => b < -10 * d
           /\ -10 <= r => -10 * d <= b
           /\ r < 8 => b < 8 * d
           /\ 8 <= r => 8 * d <= b
           /\ r < 35 => b < 35 * d
           /\ 35 <= r => 35 * d <= b
      <4>1. PICK c \in Int : c = -10 OBVIOUS
      <4>2. (r < c => b < c * d) /\ (c <= r => c * d <= b) BY <3>8, <3>9
      <4>3. PICK e \in Int : e = 8 OBVIOUS
      <4>4. (r < e => b < e * d) /\ (e <= r => e * d <= b) BY <3>8, <3>9
      <4>5. PICK f \in Int : f = 35 OBVIOUS
      <4>6. (r < f => b < f * d) /\ (f <= r => f * d <= b) BY <3>8, <3>9
      <4> QED BY <4>1, <4>2, <4>3, <4>4, <4>5, <4>6
    <3> QED BY <3>2, <3>7, <3>10, TierOfScore, FourTiers
  <2>7. /\ t \in Tiers
        /\ m.raw >= 8 => t # "simple"
        /\ m.raw < 8 => t # "reasoning"
    BY <2>5, BlendedFar
  <2>8. m.raw >= 35 => t \in {"complex", "reasoning"}
    <3>1. m.raw >= 35 => \A i \in DOMAIN list : list[i] # "simple" BY <1>5 DEF Kin, Weighed, Shortcut
    <3> QED BY <2>5, <3>1, BlendedNear
  <2>9. m.raw < -10 => t \in {"simple", "standard"}
    <3>1. m.raw < -10 => \A i \in DOMAIN list : list[i] # "reasoning" BY <1>5 DEF Kin, Weighed, Shortcut
    <3> QED BY <2>5, <3>1, BlendedNear
  <2>10. Order[t] - Order[o] \in -1..1
    <3>1. PICK r \in Int : r = m.raw BY BlendIs
    <3> QED BY <2>6, <2>7, <2>8, <2>9, <3>1, FourTiers
  <2> QED BY <2>1, <2>2, <2>3, <2>4, <2>5, <2>6, <2>7, <2>10, FlooredNear
<1> QED BY <1>3, <1>4, <1>5

\* What a session remembers: the last of the answers noted in it, of which the first n
\* were to one message.
Recalls(tiers, alike) ==
  /\ tiers \in Seq(Tiers) /\ Len(tiers) <= MAX_ENTRIES
  /\ alike.n \in Nat /\ alike.n <= Len(tiers)
  /\ alike.by # None =>
       \E m \in Messages : m.name = alike.by /\ \A i \in 1..alike.n : Kin(m, tiers[i])

\* A request is scored against what it has read.
Scored(R) ==
  R.scored => /\ R.step \in {"tiers", "tier model", "decided"} /\ R.category = None
              /\ R.tier = ScoredTier(R.msg, R.tiers)

\* The answer that f, a forwarded request, waits for may be one to the message it names.
Vouched(f) ==
  f # None /\ f.by # None => \E m \in Messages : m.name = f.by /\ Kin(m, f.tier)

MomentumTells ==
  /\ session # None => Recalls(session.tiers, session.alike)
  /\ resolving # None => Recalls(resolving.tiers, resolving.alike) /\ Scored(resolving)
  /\ \A q \in Slots : Vouched(forwarding[q])

LEMMA NothingToRecall == Recalls(<<>>, NobodyAlike)
BY SessionAssumption DEF Recalls, NobodyAlike

LEMMA NewestIs ==
  ASSUME NEW list \in Seq(Tiers), Len(list) <= MAX_ENTRIES, NEW t \in Tiers
  PROVE  /\ Newest(list, t) \in Seq(Tiers)
         /\ Len(Newest(list, t)) = IF Len(list) < MAX_ENTRIES THEN Len(list) + 1 ELSE MAX_ENTRIES
         /\ Newest(list, t)[1] = t
         /\ \A i \in 1..Len(Newest(list, t)) : i # 1 => Newest(list, t)[i] = list[i - 1]
<1>1. MAX_ENTRIES \in Nat \ {0} BY SessionAssumption
<1>2. PICK n \in Nat : n = IF Len(list) < MAX_ENTRIES THEN Len(list) + 1 ELSE MAX_ENTRIES BY <1>1
<1>3. PICK all \in Seq(Tiers) : all = <<t>> \o list
  <2>1. <<t>> \in Seq(Tiers) OBVIOUS
  <2>2. <<t>> \o list \in Seq(Tiers) BY <2>1
  <2> QED BY <2>2
<1>4. /\ Len(all) = Len(list) + 1 /\ all[1] = t
      /\ \A i \in 1..Len(all) : i # 1 => all[i] = list[i - 1]
  BY <1>3
<1>5. Newest(list, t) = SubSeq(all, 1, n) BY <1>2, <1>3 DEF Newest
<1>6. 1 <= n /\ n <= Len(all) BY <1>1, <1>2, <1>4
<1>7. /\ SubSeq(all, 1, n) \in Seq(Tiers) /\ Len(SubSeq(all, 1, n)) = n
      /\ \A i \in 1..n : SubSeq(all, 1, n)[i] = all[i]
  BY <1>6
<1> QED BY <1>2, <1>4, <1>5, <1>6, <1>7

\* An answer is noted in front of the others (recordTier).
LEMMA NotesAnswer ==
  ASSUME NEW tiers, NEW alike, Recalls(tiers, alike), NEW x, x.tier \in Tiers,
         x.by # None => \E m \in Messages : m.name = x.by /\ Kin(m, x.tier),
         NEW alike1,
         alike1 = IF x.by = None THEN NobodyAlike
                  ELSE [by |-> x.by,
                        n |-> IF x.by = alike.by
                                THEN IF alike.n < MAX_ENTRIES THEN alike.n + 1 ELSE MAX_ENTRIES
                                ELSE 1]
  PROVE  Recalls(Newest(tiers, x.tier), alike1)
<1>1. MAX_ENTRIES \in Nat \ {0} BY SessionAssumption
<1>2. /\ tiers \in Seq(Tiers) /\ Len(tiers) \in Nat /\ Len(tiers) <= MAX_ENTRIES
      /\ alike.n \in Nat /\ alike.n <= Len(tiers)
  BY DEF Recalls
<1>3. PICK list : list = Newest(tiers, x.tier) OBVIOUS
<1>4. /\ list \in Seq(Tiers)
      /\ Len(list) = IF Len(tiers) < MAX_ENTRIES THEN Len(tiers) + 1 ELSE MAX_ENTRIES
      /\ list[1] = x.tier
      /\ \A i \in 1..Len(list) : i # 1 => list[i] = tiers[i - 1]
  BY <1>2, <1>3, NewestIs
<1>5. Len(list) <= MAX_ENTRIES /\ Len(list) >= 1 BY <1>1, <1>2, <1>4
<1>6. CASE x.by = None
  <2>1. alike1.n = 0 /\ alike1.by = None BY <1>6 DEF NobodyAlike
  <2> QED BY <1>3, <1>4, <1>5, <2>1 DEF Recalls
<1>7. CASE x.by # None
  <2>1. PICK m \in Messages : m.name = x.by /\ Kin(m, x.tier) BY <1>7
  <2>2. alike1.by = x.by BY <1>7
  <2>3. PICK n \in Nat : n = alike1.n BY <1>1, <1>2, <1>7
  <2>4. n = IF x.by = alike.by
              THEN IF alike.n < MAX_ENTRIES THEN alike.n + 1 ELSE MAX_ENTRIES ELSE 1
    BY <1>7, <2>3
  <2>5. n <= Len(list) BY <1>1, <1>2, <1>4, <1>5, <2>4
  <2>6. ASSUME NEW i \in 1..n PROVE Kin(m, list[i])
    <3>1. CASE i = 1 BY <1>4, <2>1, <3>1
    <3>2. CASE i # 1
      <4>1. x.by = alike.by BY <2>4, <3>2
      <4>2. PICK k \in Messages : k.name = alike.by /\ \A j \in 1..alike.n : Kin(k, tiers[j])
        BY <1>7, <4>1 DEF Recalls
      <4>3. k = m BY <2>1, <4>1, <4>2, SessionAssumption
      <4>4. i - 1 \in 1..alike.n BY <1>1, <1>2, <2>4, <3>2, <4>1
      <4>5. i \in 1..Len(list) BY <2>5, <1>5, <1>4
      <4> QED BY <1>4, <3>2, <4>2, <4>3, <4>4, <4>5
    <3> QED BY <3>1, <3>2
  <2> QED BY <1>3, <1>4, <1>5, <2>1, <2>2, <2>3, <2>5, <2>6 DEF Recalls
<1> QED BY <1>6, <1>7

LEMMA ReadsKeepScore ==
  ASSUME IsResolving(resolving), Scored(resolving),
         \/ ReadHeader \/ CheckHeader \/ ReadAgent
         \/ ReadCategories \/ ReadFlags \/ CheckCategory
         \/ ReadTiers \/ CheckTier
  PROVE  /\ resolving'.tiers = resolving.tiers /\ resolving'.alike = resolving.alike
         /\ Scored(resolving')
<1> DEFINE R == resolving
           R1 == resolving'
           Unscored == R.step \notin {"tiers", "tier model", "decided"}
<1>1. CASE Score
  <2>1. R1 = [R EXCEPT !.step = "tiers", !.scored = TRUE, !.category = None,
                !.row = None, !.tier = ScoredTier(R.msg, R.tiers)]
    BY <1>1 DEF Score
  <2>2. /\ R1.tiers = R.tiers /\ R1.alike = R.alike /\ R1.msg = R.msg /\ R1.step = "tiers"
        /\ R1.category = None /\ R1.tier = ScoredTier(R.msg, R.tiers)
    BY <2>1 DEF IsResolving
  <2> QED BY <2>2 DEF Scored
<1>2. CASE ReadHeader
  <2>1. Unscored BY <1>2 DEF ReadHeader, At
  <2>2. \/ R1 = [R EXCEPT !.step = "header model", !.row = routing.header]
        \/ R1 = [R EXCEPT !.step = "agent"]
    BY <1>2 DEF ReadHeader, Go
  <2> QED BY <2>1, <2>2 DEF Scored, IsResolving
<1>3. CASE CheckHeader
  <2>1. Unscored BY <1>3 DEF CheckHeader, At
  <2>2. \/ R1 = [R EXCEPT !.step = "decided", !.tier = "standard", !.category = None,
                    !.row = None, !.model = Effective(R.row, R.row.override)]
        \/ R1 = [R EXCEPT !.step = "agent"]
    BY <1>3 DEF CheckHeader, Go, Decide
  <2> QED BY <2>1, <2>2 DEF Scored, IsResolving
<1>4. CASE ReadAgent
  <2>1. Unscored BY <1>4 DEF ReadAgent, At
  <2>2. \/ R1 = [R EXCEPT !.step = "categories"]
        \/ R1 = [R EXCEPT !.step = "tiers", !.tier = "default"]
    BY <1>4 DEF ReadAgent, Go
  <2> QED BY <2>1, <2>2 DEF Scored, IsResolving
<1>5. CASE ReadCategories /\ ~Score
  <2>1. Unscored BY <1>5 DEF ReadCategories, At
  <2>2. R1 = [R EXCEPT !.step = "flags", !.row = routing.specific]
    BY <1>5 DEF ReadCategories
  <2> QED BY <2>1, <2>2 DEF Scored, IsResolving
<1>6. CASE ReadFlags /\ ~Score
  <2>1. Unscored BY <1>6 DEF ReadFlags, At
  <2>2. PICK c, row :
          \/ R1 = [R EXCEPT !.step = "category model", !.row = row, !.category = c,
                      !.flags = routing.flags[c]]
          \/ R1 = [R EXCEPT !.step = "decided", !.tier = "standard", !.category = c,
                      !.flags = routing.flags[c], !.row = None,
                      !.model = Effective(row, row.auto)]
    BY <1>6 DEF ReadFlags
  <2> QED BY <2>1, <2>2 DEF Scored, IsResolving
<1>7. CASE CheckCategory /\ ~Score
  <2>1. Unscored BY <1>7 DEF CheckCategory, At
  <2>2. R1 = [R EXCEPT !.step = "decided", !.tier = "standard", !.category = R.category,
                !.row = None, !.model = Effective(R.row, R.row.override)]
    BY <1>7 DEF CheckCategory, Decide
  <2> QED BY <2>1, <2>2 DEF Scored, IsResolving
<1>8. CASE ReadTiers \/ CheckTier
  <2>1. R.step \in {"tiers", "tier model"} BY <1>8 DEF ReadTiers, CheckTier, At
  <2>2. PICK row, model :
          \/ R1 = [R EXCEPT !.step = "tier model", !.row = row]
          \/ R1 = [R EXCEPT !.step = "decided", !.tier = R.tier, !.category = None,
                      !.row = None, !.model = model]
    BY <1>8 DEF ReadTiers, CheckTier, Decide
  <2>3. /\ R1.tiers = R.tiers /\ R1.alike = R.alike /\ R1.scored = R.scored
        /\ R1.msg = R.msg /\ R1.tier = R.tier /\ R1.step \in {"tier model", "decided"}
        /\ R1.category = None \/ R1.category = R.category
    BY <2>2 DEF IsResolving
  <2> QED BY <2>3 DEF Scored
<1> QED BY <1>1, <1>2, <1>3, <1>4, <1>5, <1>6, <1>7, <1>8

LEMMA MomentumBegins == RoutingInit => MomentumTells
BY DEF RoutingInit, MomentumTells, Vouched

LEMMA AnswerIsNoted ==
  ASSUME AgesTell, MomentumTells, NEW q \in Slots, Answered(q)
  PROVE  MomentumTells'
<1>1. /\ forwarding[q] # None /\ forwarding' = [forwarding EXCEPT ![q] = None]
      /\ resolving' = resolving
  BY DEF Answered
<1>2. resolving' # None => Recalls(resolving'.tiers, resolving'.alike) /\ Scored(resolving')
  BY <1>1 DEF MomentumTells
<1>3. ASSUME NEW p \in Slots PROVE Vouched(forwarding'[p])
  <2>1. forwarding'[p] \in {None, forwarding[p]}
    <3>1. forwarding = [s \in Slots |-> forwarding[s]] BY DEF AgesTell
    <3> QED BY <1>1, <3>1
  <2>2. Vouched(None) /\ Vouched(forwarding[p]) BY DEF Vouched, MomentumTells
  <2> QED BY <2>1, <2>2
<1>4. CASE session' = session BY <1>2, <1>3, <1>4 DEF MomentumTells
<1>5. CASE forwarding[q].tier \in Tiers /\ Remember(forwarding[q])
  <2>1. PICK x : x = forwarding[q] OBVIOUS
  <2>2. PICK entry : entry = IF session = None
               THEN [tiers |-> <<>>, categories |-> <<>>, age |-> 0, torn |-> FALSE,
                     alike |-> NobodyAlike]
               ELSE session
    OBVIOUS
  <2>3. Recalls(entry.tiers, entry.alike)
    <3>1. CASE session = None
      <4>1. entry.tiers = <<>> /\ entry.alike = NobodyAlike BY <2>2, <3>1
      <4> QED BY <4>1, NothingToRecall
    <3>2. CASE session # None
      <4>1. entry = session BY <2>2, <3>2
      <4> QED BY <3>2, <4>1 DEF MomentumTells
    <3> QED BY <3>1, <3>2
  <2>4. x.tier \in Tiers BY <1>5, <2>1
  <2>5. x.by # None => \E m \in Messages : m.name = x.by /\ Kin(m, x.tier)
    <3>1. x # None /\ Vouched(x) BY <1>1, <2>1 DEF MomentumTells
    <3> QED BY <3>1 DEF Vouched
  <2>6. PICK alike1 :
          alike1 = IF x.by = None THEN NobodyAlike
                   ELSE [by |-> x.by,
                         n |-> IF x.by = entry.alike.by
                                 THEN IF entry.alike.n < MAX_ENTRIES THEN entry.alike.n + 1
                                      ELSE MAX_ENTRIES
                                 ELSE 1]
    OBVIOUS
  <2>7. Recalls(Newest(entry.tiers, x.tier), alike1) BY <2>3, <2>4, <2>5, <2>6, NotesAnswer
  <2>8. Remember(x) BY <1>5, <2>1
  <2>9. session'.tiers = Newest(entry.tiers, x.tier) /\ session'.alike = alike1
    BY <2>2, <2>6, <2>8 DEF Remember
  <2> QED BY <1>2, <1>3, <2>7, <2>9 DEF MomentumTells
<1> QED BY <1>4, <1>5 DEF Answered

LEMMA ForwardsScored ==
  ASSUME RoutesTell, AgesTell, MomentumTells, Forward
  PROVE  MomentumTells'
<1> DEFINE R == resolving
<1>1. R # None /\ resolving' = None /\ session' = session BY DEF Forward, At
<1>2. R.msg \in Messages /\ Recalls(R.tiers, R.alike) /\ Scored(R)
  BY <1>1 DEF RoutesTell, MomentumTells
<1>3. CASE UNCHANGED forwarding BY <1>1, <1>3 DEF MomentumTells
<1>4. CASE ~UNCHANGED forwarding
  <2>1. PICK by : by = IF /\ R.scored /\ R.category = None
                          /\ ~Opening(R.msg, R.tiers)
                         THEN R.msg.name ELSE None
    OBVIOUS
  <2>2. PICK f : f = [tier |-> R.tier, category |-> R.category, age |-> 0, by |-> by]
    OBVIOUS
  <2>3. PICK q \in Slots : forwarding' = [forwarding EXCEPT ![q] = f]
    BY <1>4, <2>1, <2>2 DEF Forward
  <2>4. Vouched(f)
    <3>1. SUFFICES ASSUME by # None
                   PROVE  \E m \in Messages : m.name = by /\ Kin(m, R.tier)
      BY <2>2 DEF Vouched
    <3>2. R.scored /\ ~Opening(R.msg, R.tiers) /\ by = R.msg.name BY <2>1, <3>1
    <3>3. R.tier = ScoredTier(R.msg, R.tiers) BY <1>2, <3>2 DEF Scored
    <3>4. R.tiers \in Seq(Tiers) BY <1>2 DEF Recalls
    <3>5. Kin(R.msg, ScoredTier(R.msg, R.tiers)) BY <1>2, <3>2, <3>4, AnswersAreKin
    <3> QED BY <1>2, <3>2, <3>3, <3>5
  <2>5. ASSUME NEW p \in Slots PROVE Vouched(forwarding'[p])
    <3>1. forwarding'[p] \in {f, forwarding[p]}
      <4>1. forwarding = [s \in Slots |-> forwarding[s]] BY DEF AgesTell
      <4> QED BY <2>3, <4>1
    <3>2. Vouched(forwarding[p]) BY DEF MomentumTells
    <3> QED BY <2>4, <3>1, <3>2
  <2> QED BY <1>1, <2>5 DEF MomentumTells
<1> QED BY <1>3, <1>4

LEMMA ReadsMomentum ==
  ASSUME MomentumTells, NEW m \in Messages, Read(m)
  PROVE  MomentumTells'
<1>1. session' = Fresh /\ forwarding' = forwarding BY DEF Read
<1>2. Fresh # None => Fresh = session /\ Recalls(Fresh.tiers, Fresh.alike)
  BY DEF Fresh, MomentumTells
<1>3. PICK recent, alike :
        /\ recent = IF Fresh = None THEN <<>> ELSE Fresh.tiers
        /\ alike = IF Fresh = None THEN NobodyAlike ELSE Fresh.alike
  OBVIOUS
<1>4. Recalls(recent, alike) BY <1>2, <1>3, NothingToRecall
<1>5. resolving'.tiers = recent /\ resolving'.alike = alike /\ ~resolving'.scored
  BY <1>3 DEF Read
<1>6. Recalls(resolving'.tiers, resolving'.alike) /\ Scored(resolving')
  BY <1>4, <1>5 DEF Scored
<1> QED BY <1>1, <1>2, <1>6 DEF MomentumTells

LEMMA TicksMomentum ==
  ASSUME AgesTell, MomentumTells, Tick
  PROVE  MomentumTells'
<1>1. /\ resolving' = None /\ session # None
      /\ session' = [session EXCEPT !.age = Older(@)]
      /\ forwarding' = [q \in Slots |-> IF forwarding[q] = None THEN None
                                        ELSE [forwarding[q] EXCEPT !.age = @ + 1]]
  BY DEF Tick
<1>2. session'.tiers = session.tiers /\ session'.alike = session.alike
  <2>1. IsSession(session) BY <1>1 DEF AgesTell
  <2> QED BY <1>1, <2>1 DEF IsSession
<1>3. ASSUME NEW q \in Slots PROVE Vouched(forwarding'[q])
  <2>1. CASE forwarding[q] = None BY <1>1, <2>1 DEF Vouched
  <2>2. CASE forwarding[q] # None
    <3>1. IsForwarded(forwarding[q]) /\ Vouched(forwarding[q])
      BY <2>2 DEF AgesTell, MomentumTells
    <3>2. forwarding'[q].by = forwarding[q].by /\ forwarding'[q].tier = forwarding[q].tier
      BY <1>1, <2>2, <3>1 DEF IsForwarded
    <3> QED BY <2>2, <3>1, <3>2 DEF Vouched
  <2> QED BY <2>1, <2>2
<1> QED BY <1>1, <1>2, <1>3 DEF MomentumTells

LEMMA ChangesKeepMomentum ==
  ASSUME RoutesTell, MomentumTells, NEW r, NEW grew, Change(r, grew)
  PROVE  MomentumTells'
<1> DEFINE R == resolving
           R1 == resolving'
<1>1. UNCHANGED <<session, forwarding>> BY DEF Change
<1>2. CASE R1 = R BY <1>1, <1>2 DEF MomentumTells
<1>3. CASE R # None /\ R1 # R
  <2>1. PICK g, n, p : R1 = [R EXCEPT !.grew = g, !.meanwhile = n, !.prescribed = p]
    BY <1>3 DEF Change
  <2>2. IsResolving(R) /\ Recalls(R.tiers, R.alike) /\ Scored(R)
    BY <1>3 DEF RoutesTell, MomentumTells
  <2>3. /\ R1.tiers = R.tiers /\ R1.alike = R.alike /\ R1.scored = R.scored
        /\ R1.msg = R.msg /\ R1.tier = R.tier /\ R1.step = R.step /\ R1.category = R.category
    BY <2>1, <2>2 DEF IsResolving
  <2>4. Recalls(R1.tiers, R1.alike) /\ Scored(R1) BY <2>2, <2>3 DEF Scored
  <2> QED BY <1>1, <2>4 DEF MomentumTells
<1> QED BY <1>2, <1>3 DEF Change

LEMMA MomentumTellsOn ==
  ASSUME RoutesTell, AgesTell, MomentumTells, [RoutingNext]_routingVars
  PROVE  MomentumTells'
<1>1. CASE \/ ReadHeader \/ CheckHeader \/ ReadAgent
           \/ ReadCategories \/ ReadFlags \/ CheckCategory
           \/ ReadTiers \/ CheckTier
  <2>1. resolving # None /\ UNCHANGED <<session, forwarding>>
    BY <1>1 DEF ReadHeader, CheckHeader, ReadAgent, ReadCategories,
                ReadFlags, CheckCategory, ReadTiers, CheckTier,
                Unread, At
  <2>2. IsResolving(resolving) /\ Scored(resolving) /\ Recalls(resolving.tiers, resolving.alike)
    BY <2>1 DEF RoutesTell, MomentumTells
  <2>3. /\ resolving'.tiers = resolving.tiers /\ resolving'.alike = resolving.alike
        /\ Scored(resolving')
    BY <1>1, <2>2, ReadsKeepScore
  <2> QED BY <2>1, <2>2, <2>3 DEF MomentumTells
<1>2. CASE EvictStale
  <2>1. session' = None /\ UNCHANGED <<resolving, forwarding>> BY <1>2 DEF EvictStale
  <2> QED BY <2>1 DEF MomentumTells
<1>3. CASE UNCHANGED routingVars
  <2>1. UNCHANGED <<session, resolving, forwarding>> BY <1>3 DEF routingVars
  <2> QED BY <2>1 DEF MomentumTells
<1>4. ASSUME NEW m \in Messages, Read(m) PROVE MomentumTells' BY <1>4, ReadsMomentum
<1>5. CASE Forward BY <1>5, ForwardsScored
<1>6. ASSUME NEW q \in Slots, Answered(q) PROVE MomentumTells' BY <1>6, AnswerIsNoted
<1>7. CASE Tick BY <1>7, TicksMomentum
<1>8. ASSUME NEW r, NEW grew, Change(r, grew) PROVE MomentumTells'
  BY <1>8, ChangesKeepMomentum
<1> QED
  BY <1>1, <1>2, <1>3, <1>4, <1>5, <1>6, <1>7, <1>8
    DEF RoutingNext, StoreHeader, StoreCategory, StoreTier, Switch,
        Lose, Gain, Flag, Unflag

\* The mean of the last tiers, which SessionMomentumService feeds back into the scores
\* that become the next ones, is no ratchet (applyMomentum): once a session remembers
\* nothing but answers to one message, its next tier is at most one away from the tier
\* the message's own score gives, for any scores, any weight momentum may have, any
\* length of the memory, and however many requests overlap.
THEOREM MomentumSettles ==
  RoutingSpec => []SettlesWithinOne
<1> DEFINE Told == RoutesTell /\ AgesTell /\ MomentumTells
<1>1. Told => SettlesWithinOne
  <2> DEFINE R == resolving
             m == R.msg
  <2>1. SUFFICES ASSUME RoutesTell, MomentumTells, At("decided"), R.scored,
                        R.alike = [by |-> m.name, n |-> MAX_ENTRIES]
                 PROVE  Order[R.tier] - Order[ScoredTier([m EXCEPT !.weight = 0], R.tiers)]
                          \in -1..1
    BY DEF SettlesWithinOne
  <2>2. R # None BY <2>1 DEF At
  <2>3. m \in Messages /\ Recalls(R.tiers, R.alike) /\ R.tier = ScoredTier(m, R.tiers)
    BY <2>1, <2>2 DEF RoutesTell, MomentumTells, Scored
  <2>4. R.alike.n = MAX_ENTRIES /\ R.alike.by = m.name /\ m.name # None
    BY <2>1, <2>3, SessionAssumption
  <2>5. /\ R.tiers \in Seq(Tiers) /\ Len(R.tiers) = MAX_ENTRIES
        /\ R.tiers # <<>> /\ DOMAIN R.tiers = 1..MAX_ENTRIES
    <3>1. PICK list \in Seq(Tiers) : list = R.tiers BY <2>3 DEF Recalls
    <3>2. Len(list) = MAX_ENTRIES BY <2>3, <2>4, <3>1, SessionAssumption DEF Recalls
    <3> QED BY <3>1, <3>2, SessionAssumption
  <2>6. \A i \in DOMAIN R.tiers : Kin(m, R.tiers[i])
    <3>1. PICK k \in Messages : k.name = m.name /\ \A i \in 1..MAX_ENTRIES : Kin(k, R.tiers[i])
      BY <2>3, <2>4 DEF Recalls
    <3>2. k = m BY <2>3, <3>1, SessionAssumption
    <3> QED BY <2>5, <3>1, <3>2
  <2> QED BY <2>3, <2>5, <2>6, KinAreNear
<1>2. RoutingInit => Told BY RoutesTellFirst, RouterInit, MomentumBegins
<1>3. Told /\ [RoutingNext]_routingVars => Told' BY RoutesTellOn, RouterStep, MomentumTellsOn
<1> QED BY <1>1, <1>2, <1>3, PTL DEF RoutingSpec
===============================================================================
