--------------------------- MODULE MessageRecorder ---------------------------
(***************************************************************************)
(* What ProxyMessageRecorder and ProxyMessageDedup write to agent_messages *)
(* for one model of one agent.  A call stands for one request that has     *)
(* come to an end (ProxyRequest: each request makes one).  A row is named  *)
(* by the call that inserted it.  Token counts are small numbers, and 0 is *)
(* a provider that reported no usage; time passes in units of the grace.   *)
(***************************************************************************)
EXTENDS Integers, FiniteSets

CONSTANTS Calls, Traces, Sessions, Kinds, NoTrace, NoSession, NoCall,
          Durations,  \* how long a request may have taken
          Tokens,     \* the token counts a provider may report
          WINDOW,     \* SUCCESS_SESSION_DEDUP_WINDOW_MS
          GRACE,      \* SUCCESS_END_TIME_GRACE_MS
          COOLDOWN,   \* RATE_LIMIT_COOLDOWN_MS
          MaxTime     \* bound on the clock

ASSUME RecorderAssumption ==
  /\ NoTrace \notin Traces /\ NoSession \notin Sessions /\ NoCall \notin Calls
  /\ Kinds \subseteq {"success", "recorded", "canned", "fallback", "rate_limited"}
  /\ Tokens \subseteq Nat /\ Durations \subseteq Nat
  /\ {WINDOW, GRACE, COOLDOWN, MaxTime} \subseteq Nat

NoDuration == -1
Never == -1

\* Kinds of calls: "success" is recordSuccessMessage, "recorded" the same with a
\* payload to keep, "canned" the same of a text of Hyper-Tern's own, "fallback"
\* recordFallbackSuccess, "rate_limited" recordProviderError of a 429.

Keys == Traces \union Sessions \union {NoSession}

VARIABLES
  now,        \* the clock
  pc,         \* the await each call is at
  call,       \* what each call is to record
  tail,       \* successWriteLocks: the call that queued last on a key
  previous,   \* the promise a call waits for: the call queued before it
  agentLock,  \* SELECT ... FOR UPDATE on the agent's row
  found,      \* the row findExistingSuccessMessage returned to a call
  seen,       \* and its tokens, as that lookup read them
  rows,       \* agent_messages
  payloads,   \* message_recordings: per row, whose payload
  cooldown,   \* rateLimitCooldown of the agent
  wrote       \* the row a call has written, or NoCall

vars == <<now, pc, call, tail, previous, agentLock, found, seen, rows, payloads, cooldown, wrote>>

Fresh == [kind |-> "success", trace |-> NoTrace, session |-> NoSession, tokens |-> 0,
          duration |-> NoDuration]

Ended == {"done", "dropped", "failed"}

Init ==
  /\ now = 0
  /\ pc = [c \in Calls |-> "idle"]
  /\ call = [c \in Calls |-> Fresh]
  /\ tail = [k \in Keys |-> NoCall]
  /\ previous = [c \in Calls |-> NoCall]
  /\ agentLock = NoCall
  /\ found = [c \in Calls |-> NoCall]
  /\ seen = [c \in Calls |-> 0]
  /\ rows = [r \in {} |-> Fresh]
  /\ payloads = [r \in {} |-> NoCall]
  /\ cooldown = Never
  /\ wrote = [c \in Calls |-> NoCall]

Goto(c, place) == pc' = [pc EXCEPT ![c] = place]

With(f, x, v) == [y \in DOMAIN f \union {x} |-> IF y = x THEN v ELSE f[y]]

---------------------------------------------------------------------------
(* A request has succeeded, or was answered with a canned text *)

\* getSuccessWriteLockKey
KeyOf(m) == IF m.trace # NoTrace THEN m.trace ELSE m.session

Key(c) == KeyOf(call[c])

\* What recordSuccess hands over; the duration ends here.
Messages ==
  [kind : Kinds \intersect {"success", "recorded", "canned"}, trace : Traces \union {NoTrace},
   session : Sessions \union {NoSession}, tokens : Tokens, duration : Durations]

\* recordSuccessMessage up to the first half of withSuccessWriteLock; what it
\* awaits before is read-only.  A canned text has no usage.
RecordSuccessMessage(c) ==
  /\ pc[c] = "idle"
  /\ \E m \in Messages :
       /\ m.kind = "canned" => m.tokens = 0
       /\ call' = [call EXCEPT ![c] = m]
       /\ previous' = [previous EXCEPT ![c] = tail[KeyOf(m)]]
       /\ tail' = [tail EXCEPT ![KeyOf(m)] = c]
  /\ Goto(c, "queued")
  /\ UNCHANGED <<now, agentLock, found, seen, rows, payloads, cooldown, wrote>>

\* The promise of a call settles when it has released the lock.
Settled(p) == p \in Calls => pc[p] \in Ended \union {"saving"}

EnterLock(c) ==
  /\ pc[c] = "queued"
  /\ Settled(previous[c])
  /\ Goto(c, "waiting")
  /\ UNCHANGED <<now, call, tail, previous, agentLock, found, seen, rows, payloads, cooldown, wrote>>

\* Mutant: the transaction does not lock the agent's row.
LockNothing(c) ==
  /\ pc[c] = "waiting"
  /\ Goto(c, "looking")
  /\ UNCHANGED <<now, call, tail, previous, agentLock, found, seen, rows, payloads, cooldown, wrote>>

LockAgentMessageWrites(c) ==
  /\ pc[c] = "waiting"
  /\ agentLock = NoCall
  /\ agentLock' = c
  /\ Goto(c, "looking")
  /\ UNCHANGED <<now, call, tail, previous, found, seen, rows, payloads, cooldown, wrote>>

SameTrace(c) ==
  {r \in DOMAIN rows : call[c].trace # NoTrace /\ rows[r].trace = call[c].trace
                       /\ rows[r].status = "ok"}

Distance(a, b) == IF a < b THEN b - a ELSE a - b

\* A row of the same tokens that ended about now, if its timestamp is when it
\* began.
SameUsage(c) ==
  {r \in DOMAIN rows :
     /\ rows[r].status = "ok"
     /\ call[c].session # NoSession => rows[r].session = call[c].session
     /\ rows[r].duration # NoDuration
     /\ now - rows[r].timestamp <= WINDOW
     /\ rows[r].tokens = call[c].tokens
     /\ Distance(now - rows[r].timestamp, rows[r].duration) <= GRACE}

Latest(S) == {r \in S : \A s \in S : rows[s].timestamp <= rows[r].timestamp}

Matches(c) ==
  IF SameTrace(c) # {} THEN Latest(SameTrace(c))
  ELSE IF SameUsage(c) # {} THEN Latest(SameUsage(c))
  ELSE {NoCall}

FindExistingSuccessMessage(c) ==
  /\ pc[c] = "looking"
  /\ \E r \in Matches(c) :
       /\ found' = [found EXCEPT ![c] = r]
       /\ seen' = [seen EXCEPT ![c] = IF r = NoCall THEN 0 ELSE rows[r].tokens]
  /\ Goto(c, "found")
  /\ UNCHANGED <<now, call, tail, previous, agentLock, rows, payloads, cooldown, wrote>>

Status(m) ==
  CASE m.kind = "canned" -> "error"
    [] m.kind = "rate_limited" -> "rate_limited"
    [] OTHER -> "ok"

HasPayload(c) == call[c].kind = "recorded"

Inserted(m) ==
  [status |-> Status(m), tokens |-> m.tokens, trace |-> m.trace, session |-> m.session,
   timestamp |-> now, duration |-> m.duration, recorded |-> m.kind = "recorded"]

Updated(c, row) ==
  [row EXCEPT !.status = Status(call[c]), !.tokens = call[c].tokens, !.duration = call[c].duration,
              !.session = IF call[c].session = NoSession THEN @ ELSE call[c].session,
              !.recorded = HasPayload(c)]

\* hasRecordedTokens, of the copy the lookup returned: whatever the row holds by
\* now, the update that follows is decided on what was read.
Duplicate(c) == found[c] # NoCall /\ seen[c] > 0

Commit(c) ==
  /\ pc[c] = "found"
  /\ LET r == IF found[c] = NoCall THEN c ELSE found[c]
     IN  IF Duplicate(c) THEN UNCHANGED <<rows, wrote>>
         ELSE /\ rows' = With(rows, r, IF r = c THEN Inserted(call[c]) ELSE Updated(c, rows[r]))
              /\ wrote' = [wrote EXCEPT ![c] = r]
  /\ agentLock' = NoCall
  /\ Goto(c, "committed")
  /\ UNCHANGED <<now, call, tail, previous, found, seen, payloads, cooldown>>

\* Mutant: the entry is deleted whoever queued last.
ForgetKeyAlways(c) == tail' = [tail EXCEPT ![Key(c)] = NoCall]

\* Mutant: the entry stays.
KeepKey(c) == UNCHANGED tail

\* The finally of withSuccessWriteLock.
ForgetKey(c) == tail' = [tail EXCEPT ![Key(c)] = IF @ = c THEN NoCall ELSE @]

\* The locals of a call are gone with it.
Leave(c) ==
  /\ previous' = [previous EXCEPT ![c] = NoCall]
  /\ found' = [found EXCEPT ![c] = NoCall]
  /\ seen' = [seen EXCEPT ![c] = 0]

Release(c) ==
  /\ pc[c] = "committed"
  /\ ForgetKey(c)
  /\ Goto(c, IF wrote[c] = NoCall THEN "dropped" ELSE IF HasPayload(c) THEN "saving" ELSE "done")
  /\ Leave(c)
  /\ UNCHANGED <<now, call, agentLock, rows, payloads, cooldown, wrote>>

\* A query of the transaction rejects: it is rolled back.
TransactionFails(c) ==
  /\ pc[c] \in {"waiting", "looking", "found"}
  /\ agentLock' = IF agentLock = c THEN NoCall ELSE agentLock
  /\ ForgetKey(c)
  /\ Leave(c)
  /\ Goto(c, "failed")
  /\ UNCHANGED <<now, call, rows, payloads, cooldown, wrote>>

\* recordingService.save, whose failure is swallowed.
SaveRecording(c) ==
  /\ pc[c] = "saving"
  /\ payloads' \in {payloads, With(payloads, wrote[c], c)}
  /\ Goto(c, "done")
  /\ UNCHANGED <<now, call, tail, previous, agentLock, found, seen, rows, cooldown, wrote>>

\* recordFallbackSuccess neither looks for a duplicate nor locks anything.
RecordFallbackSuccess(c) ==
  /\ pc[c] = "idle"
  /\ "fallback" \in Kinds
  /\ \E trace \in Traces \union {NoTrace}, tokens \in Tokens :
       LET m == [Fresh EXCEPT !.kind = "fallback", !.trace = trace, !.tokens = tokens]
       IN  call' = [call EXCEPT ![c] = m] /\ rows' = With(rows, c, Inserted(m))
  /\ wrote' = [wrote EXCEPT ![c] = c]
  /\ Goto(c, "done")
  /\ UNCHANGED <<now, tail, previous, agentLock, found, seen, payloads, cooldown>>

---------------------------------------------------------------------------
(* A request has failed with 429 *)

RecordRateLimited(c) ==
  /\ pc[c] = "idle"
  /\ "rate_limited" \in Kinds
  /\ call' = [call EXCEPT ![c].kind = "rate_limited"]
  /\ IF cooldown # Never /\ now - cooldown < COOLDOWN
     THEN Goto(c, "done") /\ UNCHANGED cooldown
     ELSE /\ cooldown' = now
          /\ Goto(c, "inserting")
  /\ UNCHANGED <<now, tail, previous, agentLock, found, seen, rows, payloads, wrote>>

InsertRateLimited(c) ==
  /\ pc[c] = "inserting"
  /\ rows' = With(rows, c, Inserted(call[c]))
  /\ wrote' = [wrote EXCEPT ![c] = c]
  /\ Goto(c, "done")
  /\ UNCHANGED <<now, call, tail, previous, agentLock, found, seen, payloads, cooldown>>

\* The insert rejects; recordSafely logs it.  (A call whose first queries reject
\* leaves nothing behind: it is as if it had not been made.)
RecordingFails(c) ==
  /\ pc[c] = "inserting"
  /\ Goto(c, "failed")
  /\ UNCHANGED <<now, call, tail, previous, agentLock, found, seen, rows, payloads, cooldown, wrote>>

EvictExpiredCooldowns ==
  /\ cooldown # Never
  /\ now - cooldown >= COOLDOWN
  /\ cooldown' = Never
  /\ UNCHANGED <<now, pc, call, tail, previous, agentLock, found, seen, rows, payloads, wrote>>

---------------------------------------------------------------------------

\* MessageRecordingService.delete, for a row the message log shows as recorded.
DeleteRecording ==
  \E r \in DOMAIN rows :
    /\ rows[r].recorded
    /\ rows' = [rows EXCEPT ![r].recorded = FALSE]
    /\ payloads' = [s \in DOMAIN payloads \ {r} |-> payloads[s]]
    /\ UNCHANGED <<now, pc, call, tail, previous, agentLock, found, seen, cooldown, wrote>>

Tick ==
  /\ now < MaxTime
  /\ now' = now + 1
  /\ UNCHANGED <<pc, call, tail, previous, agentLock, found, seen, rows, payloads, cooldown, wrote>>

\* The process dies: transactions are rolled back, its memory is gone.
Restart ==
  /\ \E c \in Calls : pc[c] \notin {"idle"} \union Ended
  /\ pc' = [c \in Calls |-> IF pc[c] \in {"idle"} \union Ended THEN pc[c] ELSE "done"]
  /\ tail' = [k \in Keys |-> NoCall]
  /\ agentLock' = NoCall
  /\ cooldown' = Never
  /\ previous' = [c \in Calls |-> NoCall]
  /\ found' = [c \in Calls |-> NoCall]
  /\ seen' = [c \in Calls |-> 0]
  /\ UNCHANGED <<now, call, rows, payloads, wrote>>

Progress(c) ==
  \/ EnterLock(c) \/ LockAgentMessageWrites(c) \/ FindExistingSuccessMessage(c)
  \/ Commit(c) \/ Release(c) \/ SaveRecording(c)
  \/ InsertRateLimited(c)

Next ==
  \/ \E c \in Calls : \/ RecordSuccessMessage(c) \/ RecordFallbackSuccess(c)
                     \/ RecordRateLimited(c) \/ Progress(c)
                     \/ TransactionFails(c) \/ RecordingFails(c)
  \/ EvictExpiredCooldowns \/ DeleteRecording \/ Tick \/ Restart

Spec == Init /\ [][Next]_vars

---------------------------------------------------------------------------
(* Properties *)

Holding(c) == pc[c] \in {"waiting", "looking", "found", "committed"}

\* The promise chain lets one call of a key through at a time, also when calls
\* come, fail and leave in any order.
KeyExclusion ==
  \A c, d \in Calls : Holding(c) /\ Holding(d) /\ Key(c) = Key(d) => c = d

\* The map of locks does not grow: without a call on a key there is no entry.
\* And whoever waits for a lock waits for a call that is still under way: one
\* that failed, or was dropped, holds nobody up.
LocksDrain ==
  /\ \A k \in Keys : tail[k] # NoCall =>
       \E c \in Calls : (Holding(c) \/ pc[c] = "queued") /\ Key(c) = k
  /\ \A c \in Calls : pc[c] = "queued" =>
       Settled(previous[c]) \/ Holding(previous[c]) \/ pc[previous[c]] = "queued"

\* What a call has looked up still holds when it writes: in between no other
\* call that looks for duplicates changes a row.
DecisionsHold ==
  [][ \A c \in Calls : pc[c] = "found" /\ pc'[c] = "found" =>
        \A r \in {s \in DOMAIN rows' : call'[s].kind \in {"success", "recorded", "canned"}} :
          /\ r \in DOMAIN rows
          /\ rows'[r].status = rows[r].status /\ rows'[r].tokens = rows[r].tokens ]_vars

\* Tokens once recorded are never overwritten by another request, although an
\* update is decided on a copy of the row that was read an await before it.
TokensSettle ==
  [][ \A r \in DOMAIN rows : rows[r].tokens > 0 =>
        /\ r \in DOMAIN rows'
        /\ rows'[r].tokens = rows[r].tokens /\ rows'[r].status = rows[r].status ]_vars
===========================================================================
