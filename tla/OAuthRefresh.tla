--------------------------- MODULE OAuthRefresh ---------------------------
(***************************************************************************)
(* The stored OAuth credential of one (provider, user, agent, label) and   *)
(* everything that touches it: proxy requests that unwrap it, the          *)
(* single-flight refresh coordinator, the provider's token endpoint, the   *)
(* row in user_providers, and the user who connects and disconnects it.    *)
(*                                                                         *)
(* A blob is [t, r]: an access token and a refresh token, each named by    *)
(* the number of the token answer that brought it.  The expiry `e' is the  *)
(* membership of t in `expired' (the clock is within the refresh skew of   *)
(* e).  Every grant comes with a refresh token.  A request takes the blob  *)
(* from the routing cache or the database at some moment and may hold it   *)
(* for any time before it looks at it, which is what a cached copy is.     *)
(***************************************************************************)
EXTENDS Naturals, FiniteSets

CONSTANTS
  Requests,     \* proxy requests routed to this credential
  NoRequest,    \* no refresh in flight
  PersistMax,   \* PERSIST_MAX_ATTEMPTS
  MaxTokens     \* bound on the token answers of the provider

ASSUME RefreshAssumption ==
  /\ NoRequest \notin Requests
  /\ PersistMax \in Nat \ {0}
  /\ MaxTokens \in Nat

VARIABLES
  row,       \* the stored blob, NoBlob when there is no row
  active,    \* is_active of the row
  revoking,  \* refresh token a disconnect under way revokes, 0 when none is
  issued,    \* token answers so far
  live,      \* refresh tokens the provider accepts
  expired,   \* access tokens within the skew of their expiry, or past it
  inFlight,  \* the request that runs the refresh in the in-flight map
  pc,        \* where each request is
  held,      \* blob each request was handed
  forced,    \* the request's token was rejected upstream: its blob has e = 0
  token,     \* access token each request goes upstream with, 0 for none
  current,   \* blob the run of a request refreshes from
  fallback,  \* the run found no row and uses the caller's blob
  fresh,     \* blob the provider answered
  attempts,  \* failed persist attempts of the run
  burnt,     \* ghost: refresh tokens revoked, or whose successor was lost
  spent      \* ghost: access tokens whose successor has been stored

storeVars == <<row, active, revoking>>
providerVars == <<issued, live>>
runVars == <<current, fallback, fresh, attempts>>
requestVars == <<held, forced>>
ghostVars == <<burnt, spent>>
vars == <<storeVars, providerVars, runVars, requestVars, ghostVars,
          expired, inFlight, pc, token>>

Tokens == 1..MaxTokens
Blobs == [t : Tokens, r : Tokens]
NoBlob == [t |-> 0, r |-> 0]

Leading == {"reading", "read", "exchanging", "persisting"}

TypeOK ==
  /\ row \in Blobs \union {NoBlob}
  /\ active \in BOOLEAN
  /\ revoking \in 0..MaxTokens
  /\ issued \in 0..MaxTokens
  /\ live \subseteq 1..issued
  /\ expired \subseteq 1..issued
  /\ inFlight \in Requests \union {NoRequest}
  /\ pc \in [Requests -> {"idle", "holding", "waiting", "using", "done"} \union Leading]
  /\ held \in [Requests -> Blobs \union {NoBlob}]
  /\ forced \in [Requests -> BOOLEAN]
  /\ token \in [Requests -> 0..MaxTokens]
  /\ current \in [Requests -> Blobs \union {NoBlob}]
  /\ fallback \in [Requests -> BOOLEAN]
  /\ fresh \in [Requests -> Blobs \union {NoBlob}]
  /\ attempts \in [Requests -> 0..PersistMax]
  /\ burnt \subseteq Tokens
  /\ spent \subseteq Tokens

Init ==
  /\ row = NoBlob /\ active = FALSE /\ revoking = 0
  /\ issued = 0 /\ live = {} /\ expired = {}
  /\ inFlight = NoRequest
  /\ pc = [r \in Requests |-> "idle"]
  /\ held = [r \in Requests |-> NoBlob]
  /\ forced = [r \in Requests |-> FALSE]
  /\ token = [r \in Requests |-> 0]
  /\ current = [r \in Requests |-> NoBlob]
  /\ fallback = [r \in Requests |-> FALSE]
  /\ fresh = [r \in Requests |-> NoBlob]
  /\ attempts = [r \in Requests |-> 0]
  /\ burnt = {} /\ spent = {}

Goto(r, l) == pc' = [pc EXCEPT ![r] = l]

---------------------------------------------------------------------------
(* unwrapToken *)

\* The locals of a handler end with it.
Forget(ended) ==
  /\ held' = [q \in Requests |-> IF q \in ended THEN NoBlob ELSE held[q]]
  /\ forced' = [q \in Requests |-> IF q \in ended THEN FALSE ELSE forced[q]]

\* getProviderApiKey hands the request the blob of an active row.
Take(r) ==
  /\ pc[r] = "idle"
  /\ row # NoBlob /\ active
  /\ held' = [held EXCEPT ![r] = row]
  /\ Goto(r, "holding")
  /\ UNCHANGED <<storeVars, providerVars, runVars, ghostVars, expired, inFlight, forced, token>>

Valid(r) == ~forced[r] /\ held[r].t \notin expired

UseToken(r) ==
  /\ pc[r] = "holding" /\ Valid(r)
  /\ token' = [token EXCEPT ![r] = held[r].t]
  /\ Goto(r, "using")
  /\ UNCHANGED <<storeVars, providerVars, runVars, requestVars, ghostVars, expired, inFlight>>

\* The map has an entry: await its promise.  The promise of a run that is over,
\* were it still there, would answer at once with what it was rejected with.
Join(r) ==
  /\ pc[r] = "holding" /\ ~Valid(r) /\ inFlight # NoRequest
  /\ IF pc[inFlight] \in Leading
     THEN Goto(r, "waiting") /\ UNCHANGED <<requestVars, token>>
     ELSE Goto(r, "done") /\ token' = [token EXCEPT ![r] = 0] /\ Forget({r})
  /\ UNCHANGED <<storeVars, providerVars, runVars, ghostVars, expired, inFlight>>

\* Mutant: every caller runs its own refresh.
LeadAlways(r) ==
  /\ pc[r] = "holding" /\ ~Valid(r)
  /\ inFlight' = r
  /\ attempts' = [attempts EXCEPT ![r] = 0]
  /\ Goto(r, "reading")
  /\ UNCHANGED <<storeVars, providerVars, requestVars, ghostVars, expired, token,
                 current, fallback, fresh>>

\* None is: start one and enter it in the map; its first step reads the row.
Lead(r) ==
  /\ pc[r] = "holding" /\ ~Valid(r) /\ inFlight = NoRequest
  /\ inFlight' = r
  /\ attempts' = [attempts EXCEPT ![r] = 0]
  /\ Goto(r, "reading")
  /\ UNCHANGED <<storeVars, providerVars, requestVars, ghostVars, expired, token,
                 current, fallback, fresh>>

---------------------------------------------------------------------------
(* coordinateOAuthRefresh, refreshOnce, persistWithRetry *)

\* The locals of a run end with it.
EndRun(r) ==
  /\ current' = [current EXCEPT ![r] = NoBlob]
  /\ fallback' = [fallback EXCEPT ![r] = FALSE]
  /\ fresh' = [fresh EXCEPT ![r] = NoBlob]
  /\ attempts' = [attempts EXCEPT ![r] = 0]

\* The run of r ends with access token t, or 0 when it rejects (each caller's
\* catch then answers null).  The entry leaves the map and every request that
\* awaited the run gets the same answer.  A request retrying after a 401
\* goes on only with a token other than the rejected one.
Settle(r, t) ==
  LET answered == {r} \union {q \in Requests : pc[q] = "waiting"}
      ended == {q \in answered : t \in {0, token[q]}}
  IN  /\ inFlight' = NoRequest
      /\ token' = [q \in Requests |-> IF q \in answered THEN t ELSE token[q]]
      /\ pc' = [q \in Requests |-> IF q \in ended THEN "done"
                                   ELSE IF q \in answered THEN "using" ELSE pc[q]]
      /\ Forget(ended)
      /\ EndRun(r)

\* Mutant: the entry leaves the map on success only; whoever awaited the run
\* gets its rejection, and so does whoever joins it from then on.
RejectKeepsEntry(r) ==
  LET answered == {r} \union {q \in Requests : pc[q] = "waiting"}
  IN  /\ token' = [q \in Requests |-> IF q \in answered THEN 0 ELSE token[q]]
      /\ pc' = [q \in Requests |-> IF q \in answered THEN "done" ELSE pc[q]]
      /\ Forget(answered)
      /\ EndRun(r)
      /\ UNCHANGED inFlight

Reject(r) == Settle(r, 0)

\* Mutant: the run trusts the caller's blob.
TrustCaller(r) ==
  /\ pc[r] = "reading"
  /\ current' = [current EXCEPT ![r] = held[r]]
  /\ fallback' = [fallback EXCEPT ![r] = FALSE]
  /\ Goto(r, "read")
  /\ UNCHANGED <<storeVars, providerVars, requestVars, ghostVars, expired, inFlight, token,
                 fresh, attempts>>

\* readFreshRaw, without a filter on is_active.
ReadRow(r) ==
  /\ pc[r] = "reading"
  /\ current' = [current EXCEPT ![r] = IF row = NoBlob THEN held[r] ELSE row]
  /\ fallback' = [fallback EXCEPT ![r] = row = NoBlob]
  /\ Goto(r, "read")
  /\ UNCHANGED <<storeVars, providerVars, requestVars, ghostVars, expired, inFlight, token,
                 fresh, attempts>>

ReadFails(r) ==
  /\ pc[r] = "reading"
  /\ Reject(r)
  /\ UNCHANGED <<storeVars, providerVars, ghostVars, expired>>

\* A caller's blob with e = 0 has expired, whatever its access token.
NeedsRefresh(r) == current[r].t \in expired \/ (fallback[r] /\ forced[r])

StillValid(r) ==
  /\ pc[r] = "read" /\ ~NeedsRefresh(r)
  /\ Settle(r, current[r].t)
  /\ UNCHANGED <<storeVars, providerVars, ghostVars, expired>>

StartExchange(r) ==
  /\ pc[r] = "read" /\ NeedsRefresh(r)
  /\ Goto(r, "exchanging")
  /\ UNCHANGED <<storeVars, providerVars, runVars, requestVars, ghostVars, expired, inFlight, token>>

\* The provider accepts the refresh token; it rotates it or keeps it.
Accepts(r, rotates) ==
  /\ pc[r] = "exchanging"
  /\ current[r].r \in live /\ issued < MaxTokens
  /\ issued' = issued + 1
  /\ live' = IF rotates THEN (live \ {current[r].r}) \union {issued'} ELSE live

ExchangeSucceeds(r) ==
  \E rotates \in BOOLEAN :
    /\ Accepts(r, rotates)
    /\ fresh' = [fresh EXCEPT ![r] =
                   [t |-> issued', r |-> IF rotates THEN issued' ELSE current[r].r]]
    /\ Goto(r, "persisting")
    /\ UNCHANGED <<storeVars, requestVars, ghostVars, expired, inFlight, token,
                   current, fallback, attempts>>

\* The provider rotated, but its answer never arrives.
AnswerLost(r) ==
  /\ Accepts(r, TRUE)
  /\ burnt' = burnt \union {current[r].r}
  /\ Reject(r)
  /\ UNCHANGED <<storeVars, expired, spent>>

\* The provider refuses the token, or fails before it looks at it.
ExchangeFails(r) ==
  /\ pc[r] = "exchanging"
  /\ Reject(r)
  /\ UNCHANGED <<storeVars, providerVars, ghostVars, expired>>

\* Mutant: the answer's refresh token is dropped.
StoreAccessTokenOnly(r) ==
  /\ row' = [fresh[r] EXCEPT !.r = current[r].r] /\ active' = TRUE
  /\ spent' = spent \union {current[r].t}
  /\ UNCHANGED <<revoking, burnt>>

\* upsertProvider: insert, or update in place; is_active becomes true.
Store(r) ==
  /\ row' = fresh[r] /\ active' = TRUE
  /\ spent' = spent \union {current[r].t}
  /\ UNCHANGED <<revoking, burnt>>

PersistSucceeds(r) ==
  /\ pc[r] = "persisting"
  /\ Store(r)
  /\ Settle(r, fresh[r].t)
  /\ UNCHANGED <<providerVars, expired>>

\* An attempt throws before the row is written, or after it (the tier
\* recalculation behind upsertProvider).
PersistRetries(r) ==
  /\ pc[r] = "persisting"
  /\ attempts[r] + 1 < PersistMax
  /\ attempts' = [attempts EXCEPT ![r] = @ + 1]
  /\ Store(r) \/ UNCHANGED <<storeVars, ghostVars>>
  /\ UNCHANGED <<providerVars, requestVars, expired, inFlight, pc, token,
                 current, fallback, fresh>>

PersistGivesUp(r) ==
  /\ pc[r] = "persisting"
  /\ attempts[r] + 1 = PersistMax
  /\ \/ Store(r)
     \/ /\ burnt' = burnt \union {current[r].r}
        /\ UNCHANGED <<storeVars, spent>>
  /\ Reject(r)
  /\ UNCHANGED <<providerVars, expired>>

---------------------------------------------------------------------------
(* The request upstream *)

Answered(r) ==
  /\ pc[r] = "using"
  /\ Goto(r, "done")
  /\ token' = [token EXCEPT ![r] = 0]
  /\ Forget({r})
  /\ UNCHANGED <<storeVars, providerVars, runVars, ghostVars, expired, inFlight>>

\* retryOAuthSubscriptionAfterRejectedToken: a first 401 expires the blob the
\* request was handed and unwraps it again.
Rejected401(r) ==
  /\ pc[r] = "using" /\ ~forced[r]
  /\ forced' = [forced EXCEPT ![r] = TRUE]
  /\ Goto(r, "holding")
  /\ UNCHANGED <<storeVars, providerVars, runVars, ghostVars, expired, inFlight, token, held>>

---------------------------------------------------------------------------
(* The user, the clock and the process *)

\* exchangeCode, when the account is not connected: nextOAuthLabel finds no
\* active row under the label, and the upsert inserts it or overwrites it.
Connect ==
  /\ ~active /\ issued < MaxTokens
  /\ issued' = issued + 1
  /\ live' = live \union {issued'}
  /\ row' = [t |-> issued', r |-> issued'] /\ active' = TRUE
  /\ UNCHANGED <<runVars, requestVars, ghostVars, expired, inFlight, pc, token, revoking>>

\* The revoke endpoint reads the stored blob and asks the provider to revoke
\* its tokens, then disconnects.
StartDisconnect ==
  /\ active /\ revoking = 0
  /\ revoking' = row.r
  /\ UNCHANGED <<providerVars, runVars, requestVars, ghostVars, expired, inFlight, pc, token,
                 row, active>>

\* Revocation is best-effort.  The last key of a provider keeps its row,
\* inactive; a key beside others loses it.
Disconnect ==
  /\ revoking # 0
  /\ revoking' = 0
  /\ \E revoked \in BOOLEAN :
       /\ live' = IF revoked THEN live \ {revoking} ELSE live
       /\ burnt' = IF revoked THEN burnt \union {revoking} ELSE burnt
  /\ active' = FALSE
  /\ row' \in {row, NoBlob}
  /\ UNCHANGED <<runVars, requestVars, expired, inFlight, pc, token, issued, spent>>

Expire ==
  /\ \E t \in (1..issued) \ expired : expired' = expired \union {t}
  /\ UNCHANGED <<storeVars, providerVars, runVars, requestVars, ghostVars, inFlight, pc, token>>

\* The process restarts: every request and the in-flight map are gone.
Crash ==
  /\ \E r \in Requests : pc[r] \notin {"idle", "done"}
  /\ burnt' = burnt \union {current[r].r : r \in {q \in Requests : pc[q] = "persisting"}}
  /\ inFlight' = NoRequest
  /\ pc' = [r \in Requests |-> IF pc[r] = "idle" THEN "idle" ELSE "done"]
  /\ token' = [r \in Requests |-> 0]
  /\ current' = [r \in Requests |-> NoBlob]
  /\ fallback' = [r \in Requests |-> FALSE]
  /\ fresh' = [r \in Requests |-> NoBlob]
  /\ attempts' = [r \in Requests |-> 0]
  /\ Forget(Requests)
  /\ UNCHANGED <<storeVars, providerVars, expired, spent>>

Unwrap(r) == UseToken(r) \/ Join(r) \/ Lead(r)
Run(r) ==
  \/ ReadRow(r) \/ ReadFails(r) \/ StillValid(r) \/ StartExchange(r)
  \/ ExchangeSucceeds(r) \/ AnswerLost(r) \/ ExchangeFails(r)
  \/ PersistSucceeds(r) \/ PersistRetries(r) \/ PersistGivesUp(r)
Upstream(r) == Answered(r) \/ Rejected401(r)

Next ==
  \/ \E r \in Requests : Take(r) \/ Unwrap(r) \/ Run(r) \/ Upstream(r)
  \/ Connect \/ StartDisconnect \/ Disconnect
  \/ Expire
  \/ Crash

Spec == Init /\ [][Next]_vars

\* Promises settle: the database and upstream answer or fail, and fetch gives
\* up on a token endpoint that does not answer.  Users and clock owe nothing.
FairSpec ==
  Spec /\ \A r \in Requests : WF_vars(Unwrap(r) \/ Run(r) \/ Upstream(r))

---------------------------------------------------------------------------
(* Properties *)

\* At most one refresh of the credential is in flight, and it is the one the
\* in-flight map knows: every later caller joins it.
SingleFlight ==
  \A r \in Requests : pc[r] \in Leading => inFlight = r

\* A run that found the stored row presents a refresh token the provider
\* still accepts, unless the token was revoked by a disconnect or its
\* successor was lost: in an answer that never came, after PersistMax failed
\* writes, or in a crash before the write.  No interleaving of parallel
\* callers, stale cached blobs, disconnects and reconnects presents a token
\* that was rotated and replaced.
NoDeadToken ==
  \A r \in Requests :
    pc[r] = "exchanging" /\ ~fallback[r] => current[r].r \in live \union burnt

\* When nothing is in flight the stored refresh token is good, with the same
\* exceptions: a refresh can brick the account in no other way.
NotBricked ==
  inFlight = NoRequest /\ row # NoBlob => row.r \in live \union burnt

\* A blob that was exchanged, with its successor stored, is never exchanged
\* again, also by a provider that would accept the old refresh token.
NeverRefreshedTwice ==
  \A r \in Requests :
    pc[r] = "exchanging" /\ ~fallback[r] => current[r].t \notin spent

\* A request that holds a blob is answered, and a refresh leaves the in-flight
\* map however it ended: a caller that comes later runs one of its own, and is
\* not refused with what an earlier run was rejected with.
EveryRefreshEnds ==
  \A r \in Requests :
    /\ pc[r] = "holding" ~> pc[r] = "done"
    /\ inFlight = r ~> inFlight # r

\* A refresh token was rotated and its successor is known to the run alone.
Rotated(n) == \E r \in Requests : pc[r] = "persisting" /\ current[r].r = n /\ fresh[r].r # n

\* The worth of the stored refresh token.
Stored ==
  IF row = NoBlob THEN "absent"
  ELSE IF row.r \in live THEN "good"
  ELSE IF Rotated(row.r) THEN "rotated" ELSE "lost"

Promise == INSTANCE Credential
             WITH stored <- Stored, connected <- active, excused <- row.r \in burnt

\* The coordinator keeps what Credential promises: a stored credential is lost
\* only by a revocation, a lost answer, a successor that could not be written
\* or a restart, and only a connect or a save of a refresh makes it good
\* again, whatever requests, users and restarts do in between.
ImplementsCredential == Promise!Spec

\* The release note of the retry: a credential rejected upstream is refreshed.
\* The retry therefore never comes back with the very token just rejected.
RejectedTokenReplaced ==
  [][ \A r \in Requests :
        forced[r] /\ pc[r] \in Leading \union {"waiting"} /\ pc'[r] \in {"using", "done"}
          => token'[r] # token[r] ]_vars
===========================================================================
