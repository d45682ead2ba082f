---------------------------- MODULE ProxyRequest ----------------------------
(***************************************************************************)
(* One request through the proxy, from ProxyController.handleProxyRequest  *)
(* to the row or rows it leaves in agent_messages: limits, routing, the    *)
(* primary exchange, the warm-up of its stream, the fallback chain, the    *)
(* answer, and what the recorder is asked to write.  The client may go     *)
(* away between any two steps.                                             *)
(*                                                                         *)
(* Requests share no state here: what they do share is modelled by         *)
(* ProxyRateLimiter, OAuthRefresh and MessageRecorder.  An attempt is a    *)
(* number: 0 is the primary route, i the i-th fallback route.              *)
(***************************************************************************)
EXTENDS Integers, Sequences

CONSTANT MaxFallbacks   \* bound on the fallback routes of a tier

ASSUME RequestAssumption == MaxFallbacks \in Nat

Attempts == 0..MaxFallbacks

\* A row that names no attempt: the error envelope, or a canned answer.
Unattributed == -1

Upstream  == {"rate_limited", "server_error"}  \* 429, any other status >= 400
Synthetic == {"unavailable",   \* 503 made of a transport error
              "bad_gateway",   \* 502 of a failed warm-up
              "cut"}           \* the same 502, when it was the client who left
Errors    == Upstream \union Synthetic
Thrown    == {"rate_limited", "bad_request", "internal"}

\* What a row of agent_messages is about.
Subjects == {Unattributed} \union Attempts

VARIABLES
  pc,         \* the await the handler is at
  streaming,  \* body.stream, or the response mode of the route
  chain,      \* fallback routes of the resolved tier; 0 until it is resolved
  at,         \* the attempt under way, or answered from
  failures,   \* failedFallbacks: the fallbacks that were forwarded and failed
  gone,       \* the client has closed its connection
  aborted,    \* clientAbort.signal
  slot,       \* slotAcquired and not yet released
  momentum,   \* times recordTierIfScoring ran
  answer,     \* what was written to the client's response
  rows,       \* per attempt, the rows handed to the recorder
  outcome     \* ghost: what came of each attempt

vars == <<pc, streaming, chain, at, failures, gone, aborted, slot, momentum, answer, rows, outcome>>

Verdicts  == {"ok", "error", "rate_limited"}
RowStatus == Verdicts \union {"fallback_error"}

AnswerKinds == {"none", "canned", "streaming", "complete", "truncated",
                "upstream_error", "exhausted", "failed", "dropped", "unhandled"}

TypeOK ==
  /\ pc \in {"entered", "arrived", "limits", "routing", "credentials", "exchange", "peek",
             "chain", "refuse", "relay", "body", "over"}
  /\ streaming \in BOOLEAN
  /\ chain \in Attempts
  /\ at \in Subjects
  /\ failures \in Seq([attempt : Attempts, status : Errors])
  /\ gone \in BOOLEAN
  /\ aborted \in BOOLEAN
  /\ slot \in BOOLEAN
  /\ momentum \in Nat
  /\ answer \in [kind : AnswerKinds, status : {"none", "ok"} \union Errors \union Thrown]
  /\ rows \in [Subjects -> Seq(RowStatus)]
  /\ outcome \in [Attempts -> {"none", "skipped", "ok", "dead"} \union Errors]

Init ==
  /\ pc = "entered"
  /\ streaming \in BOOLEAN
  /\ chain = 0
  /\ at = Unattributed
  /\ failures = <<>>
  /\ gone = FALSE
  /\ aborted = FALSE
  /\ slot = FALSE
  /\ momentum = 0
  /\ answer = [kind |-> "none", status |-> "none"]
  /\ rows = [a \in Subjects |-> <<>>]
  /\ outcome = [a \in Attempts |-> "none"]

RowFor(status) == IF status = "rate_limited" THEN "rate_limited" ELSE "error"

AddRow(a, status) == rows' = [rows EXCEPT ![a] = Append(@, status)]

\* The attempts whose rows the handled part of a chain consists of: the
\* primary and the fallbacks that failed.
FailedFallbacks == {failures[k].attempt : k \in DOMAIN failures}

AddHandled(exempt) ==
  [a \in Subjects |->
     IF a = 0 \/ a \in FailedFallbacks \ exempt
     THEN Append(rows[a], "fallback_error") ELSE rows[a]]

\* Mutant: no finally, the slot is kept.
OverKeepsSlot == pc' = "over" /\ UNCHANGED slot

\* The finally of the handler releases the slot.
Over == pc' = "over" /\ slot' = FALSE

---------------------------------------------------------------------------
(* Whatever is thrown ends in the handler's catch and finally *)

HeadersSent == answer.kind = "streaming"

HandleProxyError(status) ==
  /\ Over
  /\ answer' = IF HeadersSent THEN [kind |-> "truncated", status |-> "ok"]
               ELSE IF aborted THEN [kind |-> "dropped", status |-> "none"]
               ELSE [kind |-> "failed", status |-> status]
  /\ IF aborted THEN UNCHANGED rows ELSE AddRow(Unattributed, RowFor(status))
  /\ UNCHANGED <<streaming, chain, at, failures, gone, aborted, momentum, outcome>>

---------------------------------------------------------------------------
(* Up to the first exchange *)

\* Whether the agent's messages are recorded is known.  Only now does the
\* handler begin to listen for the client's leaving, and its try begins.
RecordingRead ==
  /\ pc = "entered"
  /\ pc' = "arrived"
  /\ UNCHANGED <<streaming, chain, at, failures, gone, aborted, slot, momentum, answer, rows, outcome>>

\* The query rejects before the try: the framework answers, nothing is recorded.
RecordingFails ==
  /\ pc = "entered"
  /\ pc' = "over"
  /\ answer' = [kind |-> "unhandled", status |-> "internal"]
  /\ UNCHANGED <<streaming, chain, at, failures, gone, aborted, slot, momentum, rows, outcome>>

Reject == pc = "arrived" /\ HandleProxyError("rate_limited")

Admit ==
  /\ pc = "arrived"
  /\ slot' = TRUE
  /\ pc' = "limits"
  /\ UNCHANGED <<streaming, chain, at, failures, gone, aborted, momentum, answer, rows, outcome>>

InvalidPayload == pc = "limits" /\ HandleProxyError("bad_request")

\* A query of the limits, the routes or the key rejects; in a chain, also the
\* reading of the primary's error, or the lookup of the parameters to record.
LookupFails ==
  /\ \/ pc \in {"limits", "routing", "credentials", "chain"}
     \/ pc = "refuse" /\ (chain > 0 \/ outcome[0] \in Upstream)
     \/ pc = "relay" /\ at > 0
  /\ HandleProxyError("internal")

\* A canned answer: limit exceeded, no provider, no key.
Canned ==
  /\ pc \in {"limits", "routing", "credentials"}
  /\ at' = Unattributed
  /\ pc' = "relay"
  /\ UNCHANGED <<streaming, chain, failures, gone, aborted, slot, momentum, answer, rows, outcome>>

WithinLimits ==
  /\ pc = "limits"
  /\ pc' = "routing"
  /\ UNCHANGED <<streaming, chain, at, failures, gone, aborted, slot, momentum, answer, rows, outcome>>

ResolveRouting ==
  /\ pc = "routing"
  /\ \E n \in Attempts : chain' = n
  /\ streaming' \in IF streaming THEN {TRUE} ELSE BOOLEAN
  /\ pc' = "credentials"
  /\ UNCHANGED <<at, failures, gone, aborted, slot, momentum, answer, rows, outcome>>

ResolveCredentials ==
  /\ pc = "credentials"
  /\ at' = 0
  /\ pc' = "exchange"
  /\ UNCHANGED <<streaming, chain, failures, gone, aborted, slot, momentum, answer, rows, outcome>>

---------------------------------------------------------------------------
(* An exchange with a provider *)

\* A client that is gone makes the fetch reject.  Otherwise anything that is
\* no transport error is rethrown (the Copilot token exchange, an endpoint
\* that is refused), and so is the failure to read an error's body.
ExchangeThrows ==
  /\ pc = "exchange"
  /\ HandleProxyError("internal")

Comes(status) == outcome' = [outcome EXCEPT ![at] = status]

Accepted ==
  /\ pc = "exchange"
  /\ ~aborted
  /\ Comes("ok")
  /\ IF streaming /\ at = 0
     THEN pc' = "peek" /\ UNCHANGED momentum
     ELSE pc' = "relay" /\ momentum' = momentum + 1
  /\ UNCHANGED <<streaming, chain, at, failures, gone, aborted, slot, answer, rows>>

PrimaryRefused ==
  /\ pc = "exchange"
  /\ at = 0
  /\ ~aborted
  /\ \E s \in Upstream \union {"unavailable"} : Comes(s)
  /\ pc' = "chain"
  /\ UNCHANGED <<streaming, chain, at, failures, gone, aborted, slot, momentum, answer, rows>>

\* The next fallback, or the end of the chain.
Advance ==
  IF at < chain
  THEN at' = at + 1 /\ pc' = "exchange" /\ UNCHANGED momentum
  ELSE at' = 0 /\ pc' = "refuse" /\ momentum' = momentum + 1

FallbackRefused ==
  /\ pc = "exchange"
  /\ at > 0
  /\ ~aborted
  /\ \E s \in Upstream \union {"unavailable"} :
       /\ Comes(s)
       /\ failures' = Append(failures, [attempt |-> at, status |-> s])
  /\ Advance
  /\ UNCHANGED <<streaming, chain, gone, aborted, slot, answer, rows>>

\* No provider, no key, or no OAuth token for the fallback route.
SkipFallback ==
  /\ pc = "exchange"
  /\ at > 0
  /\ Comes("skipped")
  /\ Advance
  /\ UNCHANGED <<streaming, chain, failures, gone, aborted, slot, answer, rows>>

WarmupSucceeds ==
  /\ pc = "peek"
  /\ ~aborted
  /\ pc' = "relay"
  /\ momentum' = momentum + 1
  /\ UNCHANGED <<streaming, chain, at, failures, gone, aborted, slot, answer, rows, outcome>>

\* Nothing within the warm-up time, an empty stream, or a read that rejects,
\* which is also what the client's going away looks like.
WarmupFails ==
  /\ pc = "peek"
  /\ Comes(IF aborted THEN "cut" ELSE "bad_gateway")
  /\ pc' = "chain"
  /\ UNCHANGED <<streaming, chain, at, failures, gone, aborted, slot, momentum, answer, rows>>

---------------------------------------------------------------------------
(* The fallback chain *)

NoFallbacks ==
  /\ pc = "chain"
  /\ chain = 0
  /\ momentum' = momentum + 1
  /\ pc' = "refuse"
  /\ UNCHANGED <<streaming, chain, at, failures, gone, aborted, slot, answer, rows, outcome>>

StartChain ==
  /\ pc = "chain"
  /\ chain > 0
  /\ at' = 1
  /\ pc' = "exchange"
  /\ UNCHANGED <<streaming, chain, failures, gone, aborted, slot, momentum, answer, rows, outcome>>

---------------------------------------------------------------------------
(* The answer *)

\* Mutant: the client gets the status of the last fallback.
RefuseWithLast ==
  /\ pc = "refuse"
  /\ Over
  /\ LET last == failures[Len(failures)]
     IN  IF failures = <<>>
         THEN /\ AddRow(0, RowFor(outcome[0]))
              /\ answer' = [kind |-> "upstream_error", status |-> outcome[0]]
         ELSE /\ rows' = [AddHandled({last.attempt}) EXCEPT
                            ![last.attempt] = Append(@, RowFor(last.status))]
              /\ answer' = [kind |-> "exhausted", status |-> last.status]
  /\ UNCHANGED <<streaming, chain, at, failures, gone, aborted, momentum, outcome>>

\* Mutant: the last failed fallback counts as handled, too.
RefuseAllHandled ==
  /\ pc = "refuse"
  /\ Over
  /\ IF failures = <<>>
     THEN /\ AddRow(0, RowFor(outcome[0]))
          /\ answer' = [kind |-> "upstream_error", status |-> outcome[0]]
     ELSE /\ rows' = AddHandled({})
          /\ answer' = [kind |-> "exhausted", status |-> outcome[0]]
  /\ UNCHANGED <<streaming, chain, at, failures, gone, aborted, momentum, outcome>>

\* handleProviderError, with handleFallbackExhausted: the answer carries the
\* primary's status; the last fallback's row is the error, the others and the
\* primary's are marked as handled.
Refuse ==
  /\ pc = "refuse"
  /\ Over
  /\ IF failures = <<>>
     THEN /\ AddRow(0, RowFor(outcome[0]))
          /\ answer' = [kind |-> "upstream_error", status |-> outcome[0]]
     ELSE LET last == failures[Len(failures)]
          IN  /\ rows' = [AddHandled({last.attempt}) EXCEPT
                            ![last.attempt] = Append(@, RowFor(last.status))]
              /\ answer' = [kind |-> "exhausted", status |-> outcome[0]]
  /\ UNCHANGED <<streaming, chain, at, failures, gone, aborted, momentum, outcome>>

\* Mutant: the primary's row is written only next to failed fallbacks.
BeginRelayForgetsPrimary ==
  /\ pc = "relay"
  /\ rows' = IF at > 0 /\ failures # <<>> THEN AddHandled({}) ELSE rows
  /\ answer' = IF streaming THEN [kind |-> "streaming", status |-> "ok"] ELSE answer
  /\ pc' = "body"
  /\ UNCHANGED <<streaming, chain, at, failures, gone, aborted, slot, momentum, outcome>>

\* recordFallbackFailures, then the headers of a stream.
BeginRelay ==
  /\ pc = "relay"
  /\ rows' = IF at > 0 THEN AddHandled({}) ELSE rows
  /\ answer' = IF streaming THEN [kind |-> "streaming", status |-> "ok"] ELSE answer
  /\ pc' = "body"
  /\ UNCHANGED <<streaming, chain, at, failures, gone, aborted, slot, momentum, outcome>>

\* recordSuccess; a canned answer is recorded as an error.
RelayCanned ==
  /\ pc = "body"
  /\ at = Unattributed
  /\ AddRow(Unattributed, "error")
  /\ answer' = [kind |-> "canned", status |-> "ok"]
  /\ Over
  /\ UNCHANGED <<streaming, chain, at, failures, gone, aborted, momentum, outcome>>

RelayBody ==
  /\ pc = "body"
  /\ at # Unattributed
  /\ ~aborted
  /\ AddRow(at, "ok")
  /\ answer' = [kind |-> "complete", status |-> "ok"]
  /\ Over
  /\ UNCHANGED <<streaming, chain, at, failures, gone, aborted, momentum, outcome>>

\* Only the stream of the primary was peeked at: a fallback's may end before
\* it has delivered anything.
RelayEmptyStream ==
  /\ pc = "body"
  /\ streaming
  /\ at > 0
  /\ ~aborted
  /\ Comes("dead")
  /\ AddRow(at, "ok")
  /\ answer' = [kind |-> "complete", status |-> "ok"]
  /\ Over
  /\ UNCHANGED <<streaming, chain, at, failures, gone, aborted, momentum>>

\* Mutant: a body that breaks off is recorded like one that ended.
BodyBreaksQuietly ==
  /\ pc = "body"
  /\ at # Unattributed
  /\ AddRow(at, "ok")
  /\ answer' = [kind |-> "truncated", status |-> "ok"]
  /\ Over
  /\ UNCHANGED <<streaming, chain, at, failures, gone, aborted, momentum, outcome>>

\* The body breaks off, cannot be parsed, or the client is gone.
BodyBreaks ==
  /\ pc = "body"
  /\ at # Unattributed
  /\ HandleProxyError("internal")

---------------------------------------------------------------------------

\* The response emits "close" once: before the handler listens, nobody hears it.
ClientGoes ==
  /\ pc # "over"
  /\ ~gone
  /\ gone' = TRUE
  /\ aborted' = (pc # "entered")
  /\ UNCHANGED <<pc, streaming, chain, at, failures, slot, momentum, answer, rows, outcome>>

Handler ==
  \/ RecordingRead \/ RecordingFails
  \/ Reject \/ Admit \/ InvalidPayload \/ LookupFails \/ Canned \/ WithinLimits
  \/ ResolveRouting \/ ResolveCredentials
  \/ ExchangeThrows \/ Accepted \/ PrimaryRefused \/ FallbackRefused \/ SkipFallback
  \/ WarmupSucceeds \/ WarmupFails
  \/ NoFallbacks \/ StartChain \/ Refuse
  \/ BeginRelay \/ RelayCanned \/ RelayBody \/ RelayEmptyStream \/ BodyBreaks

Next == Handler \/ ClientGoes

Spec == Init /\ [][Next]_vars

\* Every await of the handler settles: the queries answer, a fetch and the
\* body it returned end with AbortSignal.timeout(PROVIDER_TIMEOUT_MS), the
\* warm-up with its own timer.
FairSpec == Spec /\ WF_vars(Handler)

---------------------------------------------------------------------------
(* Properties *)

IsVerdict(a) == rows[a] # <<>> /\ \A k \in DOMAIN rows[a] : rows[a][k] # "fallback_error"

AtMostHandled(a) == rows[a] \in {<<>>, <<"fallback_error">>}

\* A request that is over has exactly one row that says how it ended, and
\* every other row of it is marked as handled by a fallback; so the error
\* rate counts a request once however long its chain was.  A client that was
\* heard to leave may leave no such row, never two; a request that failed
\* before the handler's try leaves no row at all.
OneVerdict ==
  pc = "over" =>
    \/ \E a \in Subjects :
         /\ Len(rows[a]) = 1
         /\ IsVerdict(a)
         /\ \A b \in Subjects \ {a} : AtMostHandled(b)
    \/ aborted /\ \A a \in Subjects : AtMostHandled(a)
    \/ answer.kind = "unhandled" /\ \A a \in Subjects : rows[a] = <<>>

Forwarded(a) == outcome[a] \notin {"none", "skipped"}

\* When the client got a provider's answer, good or bad, the rows name just
\* the attempts that were forwarded, each of them once: none is charged to
\* the wrong model, none is forgotten.
RowsNameTheAttempts ==
  answer.kind \in {"complete", "exhausted", "upstream_error"} =>
    /\ rows[Unattributed] = <<>>
    /\ \A a \in Attempts : Len(rows[a]) = IF Forwarded(a) THEN 1 ELSE 0

\* What the client gets when everything failed is the primary's own status,
\* and it is told that the chain is exhausted only when no fallback with a
\* credential is left untried.
ExhaustionIsReal ==
  answer.kind \in {"exhausted", "upstream_error"} =>
    /\ answer.status = outcome[0]
    /\ \A a \in 1..chain : outcome[a] \in Errors \union {"skipped"}
    /\ answer.kind = "exhausted" <=> \E a \in 1..chain : Forwarded(a)

\* A client that left before the handler listened, so that no one heard it.
LeftUnheard == gone /\ ~aborted

\* A success is recorded just when a body was relayed to its end, and charged
\* to the attempt that had it; and the client it was relayed to was still
\* there, or it had left in the one await in which the handler does not listen
\* yet: from then on no client leaves unheard and is recorded as served.
SuccessIsDelivered ==
  /\ answer.kind = "complete" <=>
       \E a \in Attempts : rows[a] = <<"ok">> /\ outcome[a] \in {"ok", "dead"}
  /\ \A a \in Attempts : rows[a] = <<"ok">> => a = at /\ (~gone \/ LeftUnheard)

\* The handler ends and its concurrency slot is given back.
RequestEnds == <>(pc = "over" /\ ~slot)

===========================================================================
