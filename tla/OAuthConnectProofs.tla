-------------------------- MODULE OAuthConnectProofs --------------------------
(***************************************************************************)
(* For any number of logins, slots, edits and refreshes: a flow that is    *)
(* taken out when it is used is used once, the loopback server listens for *)
(* every live sign-in page, a pasted code meets the verifier of its own    *)
(* login, and no login or refresh writes over another grant that was       *)
(* connected when it was given its label.                                  *)
(***************************************************************************)
EXTENDS OAuthConnect, FiniteSetTheorems, TLAPS

Shapes == /\ sent \in [Logins -> Nat]
          /\ auth \in [Logins -> {"new", "deleted", "waiting", "refused", "out"}]
          /\ pending \subseteq Logins
          /\ expired \in Nat
          /\ DOMAIN calls = Calls
          /\ kind # "paste" => /\ \A l \in Logins : auth[l] # "deleted"
                               /\ \A c \in Calls : calls[c].step # "consume"

\* A flow still stored has not been used, and none is stored or used before its
\* login has stored it.
FlowsUnused ==
  kind # "device" =>
    \A l \in Logins : /\ sent[l] \in {0, 1}
                      /\ l \in pending => sent[l] = 0
                      /\ auth[l] \in {"new", "deleted"} => l \notin pending /\ sent[l] = 0

\* The server listens for the live flows whose page is out.
ServerServes ==
  kind = "loopback" =>
    \A l \in Live : auth[l] = "out" => server = "up"

CInv == Shapes /\ FlowsUnused /\ ServerServes
-------------------------------------------------------------------------------
\* The initial states satisfy it.
LEMMA ConnectInit == ASSUME Init PROVE CInv
<1>1. Shapes
  BY DEF Init, Shapes, Idle
<1>2. FlowsUnused /\ ServerServes
  BY DEF Init, FlowsUnused, ServerServes, Live
<1> QED BY <1>1, <1>2 DEF CInv

\* Ending a call takes flows out, adds none, and leaves the server up for those
\* that are left.
LEMMA EndsTidily ==
  ASSUME NEW c, NEW via, NEW ok, NEW P, Ends(c, via, ok, P)
  PROVE  /\ pending' \subseteq P
         /\ calls' = [calls EXCEPT ![c] = Idle]
         /\ server = "up" /\ P \ Expired # {} => server' = "up"
BY DEF Ends

\* What a step that starts no login and uses no flow may do to the invariant.
LEMMA Shrinking ==
  ASSUME CInv, pending' \subseteq pending, NEW c \in Calls, NEW job,
         calls' = [calls EXCEPT ![c] = job], kind = "paste" \/ job.step # "consume",
         server = "up" /\ pending' \ Expired # {} => server' = "up",
         UNCHANGED <<kind, auth, expired, sent>>
  PROVE  CInv'
<1>1. DOMAIN calls' = Calls /\ \A k \in Calls : k # c => calls'[k] = calls[k]
  BY DEF CInv, Shapes
<1>2. calls'[c] = job
  BY DEF CInv, Shapes
<1>3. Shapes'
  BY <1>1, <1>2 DEF CInv, Shapes
<1>4. FlowsUnused' /\ ServerServes'
  BY DEF CInv, FlowsUnused, ServerServes, Live, Expired
<1> QED BY <1>3, <1>4 DEF CInv

\* A call that ends, whatever it took out.
LEMMA Ending ==
  ASSUME CInv, NEW c \in Calls, NEW via, NEW ok, NEW P \in SUBSET pending, Ends(c, via, ok, P),
         UNCHANGED <<kind, auth, expired, sent>>
  PROVE  CInv'
<1>1. /\ pending' \subseteq P
      /\ calls' = [calls EXCEPT ![c] = Idle]
      /\ server = "up" /\ P \ Expired # {} => server' = "up"
  BY EndsTidily
<1>2. pending' \ Expired # {} => P \ Expired # {}
  BY <1>1
<1>3. Idle.step # "consume"
  BY DEF Idle
<1> QED BY <1>1, <1>2, <1>3, Shrinking

\* A call that sends the verifier of a stored flow and takes the flow out.
LEMMA Using ==
  ASSUME CInv, NEW c \in Calls, NEW l, NEW f \in Live, NEW via, Sends(c, l, f, via),
         pending' = IF kind = "device" THEN pending ELSE pending \ {f},
         UNCHANGED <<kind, auth, expired, server>>
  PROVE  CInv'
<1>1. f \in Logins /\ f \in pending
  BY DEF CInv, Shapes, Live
<1>4. /\ DOMAIN calls' = Calls
      /\ \A k \in Calls : calls'[k].step # "consume" \/ calls'[k] = calls[k]
  BY DEF Sends, CInv, Shapes, Idle
<1>2. CASE kind = "device"
  <2>1. UNCHANGED <<pending, sent>>
    BY <1>2 DEF Sends
  <2>2. Shapes'
    BY <2>1, <1>4 DEF CInv, Shapes
  <2> QED BY <2>1, <2>2, <1>2 DEF CInv, FlowsUnused, ServerServes
<1>3. CASE kind # "device"
  <2>1. /\ sent' = [sent EXCEPT ![f] = @ + 1]
        /\ sent[f] = 0 /\ auth[f] \notin {"new", "deleted"}
    BY <1>1, <1>3 DEF Sends, CInv, FlowsUnused
  <2>2. Shapes'
    BY <2>1, <1>1, <1>3, <1>4 DEF CInv, Shapes
  <2>3. FlowsUnused'
    <3> SUFFICES ASSUME NEW k \in Logins
                 PROVE  /\ sent'[k] \in {0, 1}
                        /\ k \in pending' => sent'[k] = 0
                        /\ auth[k] \in {"new", "deleted"} => k \notin pending' /\ sent'[k] = 0
      BY DEF FlowsUnused
    <3>1. CASE k = f
      BY <3>1, <2>1, <1>1, <1>3 DEF CInv, Shapes
    <3>2. CASE k # f
      <4>1. sent'[k] = sent[k] /\ (k \in pending' <=> k \in pending)
        BY <3>2, <2>1, <1>3 DEF CInv, Shapes
      <4> QED BY <4>1, <1>3 DEF CInv, FlowsUnused
    <3> QED BY <3>1, <3>2
  <2>4. ServerServes'
    BY <1>3 DEF CInv, ServerServes, Live, Expired
  <2> QED BY <2>2, <2>3, <2>4 DEF CInv
<1> QED BY <1>2, <1>3
-------------------------------------------------------------------------------
\* Every step keeps it.
LEMMA ConnectNext == ASSUME CInv, [Next]_vars PROVE CInv'
<1>1. ASSUME NEW l \in Logins, Authorize(l) PROVE CInv'
  <2>1. kind # "paste" /\ auth[l] = "new" /\ pending' = Live \cup {l}
        /\ auth' = [auth EXCEPT ![l] = IF kind = "loopback" /\ server # "up"
                                       THEN "waiting" ELSE "out"]
        /\ server' = (IF kind = "loopback" /\ server = "down" THEN "starting"
                      ELSE server)
        /\ UNCHANGED <<kind, expired, calls, sent>>
    BY <1>1 DEF Authorize, MayStart
  <2>2. Shapes'
    BY <2>1 DEF CInv, Shapes, Live
  <2>3. FlowsUnused'
    BY <2>1 DEF CInv, Shapes, FlowsUnused, Live
  <2>4. ServerServes'
    BY <2>1 DEF CInv, Shapes, ServerServes, Live, Expired
  <2> QED BY <2>2, <2>3, <2>4 DEF CInv
<1>2. ASSUME NEW l \in Logins, DeleteFlows(l) PROVE CInv'
  BY <1>2 DEF DeleteFlows, MayStart, CInv, Shapes, FlowsUnused, ServerServes, Live, Expired
<1>3. ASSUME NEW l \in Logins, InsertFlow(l) PROVE CInv'
  BY <1>3 DEF InsertFlow, CInv, Shapes, FlowsUnused, ServerServes, Live, Expired
<1>4. CASE Listen
  <2>1. Shapes'
    BY <1>4 DEF Listen, CInv, Shapes
  <2>2. FlowsUnused'
    BY <1>4 DEF Listen, CInv, Shapes, FlowsUnused
  <2>3. ServerServes'
    BY <1>4 DEF Listen, CInv, Shapes, ServerServes, Live, Expired
  <2> QED BY <2>1, <2>2, <2>3 DEF CInv
<1>5. CASE Expire
  BY <1>5 DEF Expire, CInv, Shapes, FlowsUnused, ServerServes, Live, Expired
<1>6. CASE Sweep
  <2>1. pending' \subseteq pending /\ UNCHANGED <<kind, auth, expired, sent, calls, server>>
    BY <1>6 DEF Sweep, Live
  <2> QED BY <2>1 DEF CInv, Shapes, FlowsUnused, ServerServes, Live, Expired
<1>7. ASSUME NEW c \in Calls, NEW l \in Logins, NEW via, Callback(c, l, via) PROVE CInv'
  <2>1. CASE l \in Live /\ Sends(c, l, l, via) /\ pending' = pending \ {l} /\ UNCHANGED server
    BY <2>1, <1>7, Using DEF Callback, Begins
  <2>2. CASE Ends(c, via, FALSE, pending \ {l}) /\ UNCHANGED sent
    BY <2>2, <1>7, Ending DEF Callback
  <2> QED BY <2>1, <2>2, <1>7 DEF Callback
<1>8. ASSUME NEW c \in Calls, NEW l \in Logins, NEW via, Paste(c, l, via) PROVE CInv'
  <2>1. /\ kind = "paste" /\ pending' \subseteq pending
        /\ UNCHANGED <<kind, auth, expired, sent, server>>
    BY <1>8 DEF Paste, Begins, Live
  <2>2. \E job : calls' = [calls EXCEPT ![c] = job]
    BY <1>8 DEF Paste
  <2> QED BY <2>1, <2>2, Shrinking
<1>9. ASSUME NEW c \in Calls, NEW l \in Logins, Poll(c, l) PROVE CInv'
  <2>1. CASE l \in Live /\ Sends(c, l, l, Posted) /\ UNCHANGED <<pending, server>>
    BY <2>1, <1>9, Using DEF Poll, Begins
  <2>2. CASE Ends(c, Posted, FALSE, pending \ {l}) /\ UNCHANGED sent
    BY <2>2, <1>9, Ending DEF Poll
  <2> QED BY <2>1, <2>2, <1>9 DEF Poll
<1>10. ASSUME NEW c \in Calls, Consume(c) PROVE CInv'
  <2> DEFINE f == calls[c].flow
  <2>1. CASE f \in Live /\ Sends(c, calls[c].login, f, calls[c].via)
             /\ pending' = pending \ {f} /\ UNCHANGED server
    BY <2>1, <1>10, Using DEF Consume, CInv, Shapes
  <2>2. CASE Ends(c, calls[c].via, FALSE, pending \ {f}) /\ UNCHANGED sent
    BY <2>2, <1>10, Ending DEF Consume
  <2> QED BY <2>1, <2>2, <1>10 DEF Consume
<1>11. ASSUME NEW c \in Calls, Answer(c) PROVE CInv'
  <2> DEFINE job == calls[c]
             without == IF kind = "device" THEN pending \ {job.login} ELSE pending
  <2>0. without \subseteq pending /\ UNCHANGED <<kind, auth, expired, sent>>
    BY <1>11 DEF Answer
  <2>1. ASSUME NEW next, calls' = [calls EXCEPT ![c] = next], next.step # "consume",
               pending' \in {pending, without}, UNCHANGED server
        PROVE  CInv'
    BY <2>0, <2>1, Shrinking
  <2>2. CASE /\ calls' = [calls EXCEPT ![c] = [Idle EXCEPT !.step = "label", !.via = job.via,
                                                              !.grant = job.login]]
             /\ pending' = without /\ UNCHANGED server
    <3>1. [Idle EXCEPT !.step = "label", !.via = job.via, !.grant = job.login].step # "consume"
      BY DEF Idle
    <3> QED BY <3>1, <2>2, <2>1
  <2>3. CASE Ends(c, job.via, FALSE, pending)
    BY <2>3, <2>0, Ending
  <2>4. CASE Ends(c, job.via, FALSE, without)
    BY <2>4, <2>0, Ending
  <2>5. CASE calls' = [calls EXCEPT ![c] = Idle] /\ UNCHANGED <<pending, server>>
    <3>1. Idle.step # "consume"
      BY DEF Idle
    <3> QED BY <3>1, <2>5, <2>1
  <2> QED BY <2>2, <2>3, <2>4, <2>5, <1>11 DEF Answer
<1>12. ASSUME NEW c \in Calls, Label(c) PROVE CInv'
  <2>1. UNCHANGED <<kind, auth, expired, sent, pending, server>>
    BY <1>12 DEF Label, flowVars
  <2>2. calls' = [calls EXCEPT ![c].step = "find", ![c].label = NextLabel(Active)]
    BY <1>12 DEF Label
  <2>3. DOMAIN calls' = Calls /\ \A k \in Calls : calls'[k].step = "consume" => calls[k].step = "consume"
    BY <2>2 DEF CInv, Shapes
  <2> QED BY <2>1, <2>3 DEF CInv, Shapes, FlowsUnused, ServerServes, Live, Expired
<1>13. ASSUME NEW r, Refresh(r) PROVE CInv'
  <2>1. UNCHANGED <<kind, auth, expired, sent, pending, server>>
    BY <1>13 DEF Refresh, flowVars
  <2>2. calls' = [calls EXCEPT ![Refresher] =
                    [Idle EXCEPT !.step = "find", !.label = r.label, !.grant = r.grant]]
    BY <1>13 DEF Refresh
  <2>3. [Idle EXCEPT !.step = "find", !.label = r.label, !.grant = r.grant].step # "consume"
    BY DEF Idle
  <2>4. Refresher \in Calls /\ pending' \subseteq pending
    BY <2>1 DEF Calls
  <2> QED BY <2>1, <2>2, <2>3, <2>4, Shrinking
<1>14. ASSUME NEW c \in Calls, Find(c) PROVE CInv'
  <2>1. UNCHANGED <<kind, auth, expired, sent>>
    BY <1>14 DEF Find
  <2>2. ASSUME NEW r, calls' = [calls EXCEPT ![c].step = "write", ![c].found = r],
               UNCHANGED <<pending, server>>
        PROVE  CInv'
    <3>1. DOMAIN calls' = Calls /\ \A k \in Calls : calls'[k].step = "consume" => calls[k].step = "consume"
      BY <2>2 DEF CInv, Shapes
    <3> QED BY <3>1, <2>1, <2>2 DEF CInv, Shapes, FlowsUnused, ServerServes, Live, Expired
  <2>3. CASE Ends(c, calls[c].via, FALSE, pending)
    BY <2>3, <2>1, Ending
  <2> QED BY <2>2, <2>3, <1>14 DEF Find
<1>15. ASSUME NEW c \in Calls, Write(c) PROVE CInv'
  <2>1. UNCHANGED <<kind, auth, expired, sent>>
    BY <1>15 DEF Write
  <2>2. ASSUME NEW new, UNCHANGED <<pending, server>>,
               calls' = [Noted(new, c) EXCEPT ![c] = [Idle EXCEPT !.step = "after",
                                                                  !.via = calls[c].via]]
        PROVE  CInv'
    <3>1. [Idle EXCEPT !.step = "after", !.via = calls[c].via].step = "after"
      BY DEF Idle
    <3>2. DOMAIN calls' = Calls /\ \A k \in Calls : k # c => calls'[k] = Noted(new, c)[k]
      BY <2>2 DEF Noted
    <3>3. calls'[c].step = "after"
      BY <2>2, <3>1 DEF Noted
    <3>4. \A k \in Calls : Noted(new, c)[k].step = "consume" => calls[k].step = "consume"
      BY DEF Noted, Choosing
    <3> QED BY <3>2, <3>3, <3>4, <2>1, <2>2
            DEF CInv, Shapes, FlowsUnused, ServerServes, Live, Expired
  <2>3. CASE Ends(c, calls[c].via, FALSE, pending)
    BY <2>3, <2>1, Ending
  <2> QED BY <2>2, <2>3, <1>15 DEF Write
<1>16. ASSUME NEW c \in Calls, Finish(c) PROVE CInv'
  BY <1>16, Ending DEF Finish
<1>17. CASE User
  <2>1. PICK new : calls' = Noted(new, None) /\ UNCHANGED <<kind, auth, expired, sent, pending, server>>
    BY <1>17 DEF User, RemoveKey, Disconnect, Rename, Edits, flowVars
  <2>2. DOMAIN calls' = Calls /\ \A k \in Calls : calls'[k].step = "consume" => calls[k].step = "consume"
    BY <2>1 DEF Noted, Choosing
  <2> QED BY <2>1, <2>2 DEF CInv, Shapes, FlowsUnused, ServerServes, Live, Expired
<1>18. CASE UNCHANGED vars
  BY <1>18 DEF vars, CInv, Shapes, FlowsUnused, ServerServes, Live, Expired
<1> QED BY <1>1, <1>2, <1>3, <1>4, <1>5, <1>6, <1>7, <1>8, <1>9, <1>10, <1>11, <1>12,
           <1>13, <1>14, <1>15, <1>16, <1>17, <1>18 DEF Next

LEMMA ConnectInvariant == Spec => []CInv
BY ConnectInit, ConnectNext, PTL DEF Spec
-------------------------------------------------------------------------------
\* exchangeCode takes a flow out before it awaits anything, and consume deletes
\* and reads it in one statement: however many callbacks and pastes of a login
\* arrive, its verifier is sent once.
THEOREM FlowsAreUsedOnce == Spec => []UsedOnce
<1>1. CInv => UsedOnce
  BY DEF CInv, FlowsUnused, UsedOnce
<1> QED BY <1>1, ConnectInvariant, PTL

\* The flow is stored before the server is waited for, and the server is closed
\* only when no flow is left: a sign-in page that is out and alive finds it.
THEOREM PagesCanComeBack == Spec => []CallbackReachable
<1>1. CInv => CallbackReachable
  BY DEF CInv, ServerServes, CallbackReachable
<1> QED BY <1>1, ConnectInvariant, PTL
-------------------------------------------------------------------------------
(* Whose verifier a pasted code meets *)

Begun(l) == auth[l] # "new"

StartedInOrder == \A l, m \in Logins : l < m /\ Begun(m) => Begun(l)

\* Unless two logins were begun at once, only the latest can have a flow stored.
Overtaken ==
  kind = "paste" /\ ~crossed =>
    \A l, m \in Logins : l < m /\ Begun(m) => l \notin pending /\ auth[l] # "deleted"

Later(l) == \E m \in Logins : m > l /\ Begun(m)

\* A code on its way to the vendor belongs to a page that is out; one that
\* carries another login's verifier was pasted without its state.
Matches(job) ==
  job.step \in {"consume", "fetch"} =>
    /\ job.login \in Logins /\ auth[job.login] = "out"
    /\ job.flow # job.login =>
         job.via = Posted /\ (job.step = "fetch" => crossed \/ Later(job.login))

Matched == \A c \in Calls : Matches(calls[c])

MInv == StartedInOrder /\ Overtaken /\ Matched

LEMMA MatchInit == ASSUME Init PROVE MInv
<1>1. StartedInOrder /\ Overtaken
  BY DEF Init, StartedInOrder, Overtaken, Begun
<1>2. Matched
  BY DEF Init, Matched, Matches, Idle
<1> QED BY <1>1, <1>2 DEF MInv

\* A job that is not with the vendor, nor about to be.
Elsewhere(job) == job.step \notin {"consume", "fetch"}

SameFlow(new, old) == /\ new.step = old.step /\ new.via = old.via
                      /\ new.login = old.login /\ new.flow = old.flow

\* A step that begins no login may send a job that matches.
LEMMA MatchKeeps ==
  ASSUME CInv, MInv, UNCHANGED <<kind, auth, crossed>>, pending' \subseteq pending,
         \A k \in Calls : \/ Matches(calls'[k]) \/ Elsewhere(calls'[k])
                          \/ SameFlow(calls'[k], calls[k])
  PROVE  MInv'
<1>1. StartedInOrder' /\ Overtaken'
  BY DEF MInv, StartedInOrder, Overtaken, Begun
<1>2. ASSUME NEW k \in Calls PROVE Matches(calls[k])'
  BY <1>2 DEF MInv, Matched, Matches, Elsewhere, SameFlow, Later, Begun
<1> QED BY <1>1, <1>2 DEF MInv, Matched

\* A call whose job becomes another, which matches or is elsewhere.
LEMMA MatchTakes ==
  ASSUME CInv, MInv, UNCHANGED <<kind, auth, crossed>>, pending' \subseteq pending,
         NEW c \in Calls, NEW job, calls' = [calls EXCEPT ![c] = job],
         Matches(job) \/ Elsewhere(job)
  PROVE  MInv'
<1>1. \A k \in Calls : calls'[k] = job \/ calls'[k] = calls[k]
  BY DEF CInv, Shapes
<1>2. ASSUME NEW k \in Calls
      PROVE  \/ Matches(calls'[k]) \/ Elsewhere(calls'[k]) \/ SameFlow(calls'[k], calls[k])
  <2>1. CASE calls'[k] = job
    BY <2>1
  <2>2. CASE calls'[k] = calls[k]
    BY <2>2 DEF SameFlow
  <2> QED BY <1>1, <2>1, <2>2
<1> QED BY <1>2, MatchKeeps

LEMMA MatchEnds ==
  ASSUME CInv, MInv, UNCHANGED <<kind, auth, crossed>>,
         NEW c \in Calls, NEW via, NEW ok, NEW P \in SUBSET pending, Ends(c, via, ok, P)
  PROVE  MInv'
<1>1. pending' \subseteq P /\ calls' = [calls EXCEPT ![c] = Idle]
  BY EndsTidily
<1>2. Elsewhere(Idle)
  BY DEF Elsewhere, Idle
<1> QED BY <1>1, <1>2, MatchTakes

\* A verifier is sent: its own, or another's for a reason.
LEMMA MatchSends ==
  ASSUME CInv, MInv, UNCHANGED <<kind, auth, crossed>>, pending' \subseteq pending,
         NEW c \in Calls, NEW l \in Logins, NEW f, NEW via, Sends(c, l, f, via),
         auth[l] = "out", f # l => via = Posted /\ (crossed \/ Later(l))
  PROVE  MInv'
<1> DEFINE job == [Idle EXCEPT !.step = "fetch", !.via = via, !.login = l, !.flow = f]
<1>1. calls' = [calls EXCEPT ![c] = job]
  BY DEF Sends
<1>2. job.step = "fetch" /\ job.via = via /\ job.login = l /\ job.flow = f
  BY DEF Idle
<1> HIDE DEF job
<1>3. Matches(job)
  BY <1>2 DEF Matches
<1> QED BY <1>1, <1>3, MatchTakes

\* Every step keeps it.
LEMMA MatchNext == ASSUME CInv, MInv, [Next]_vars PROVE MInv'
<1>1. ASSUME NEW l \in Logins, Authorize(l) PROVE MInv'
  <2>1. /\ kind # "paste" /\ kind' = kind /\ MayStart(l)
        /\ auth' = [auth EXCEPT ![l] = IF kind = "loopback" /\ server # "up"
                                       THEN "waiting" ELSE "out"]
        /\ UNCHANGED <<calls, crossed>>
    BY <1>1 DEF Authorize
  <2>2. auth \in [Logins -> {"new", "deleted", "waiting", "refused", "out"}] /\ auth[l] = "new"
    BY <2>1 DEF CInv, Shapes, MayStart
  <2>3. \A k \in Logins : Begun(k)' <=> Begun(k) \/ k = l
    BY <2>1, <2>2 DEF Begun
  <2>4. StartedInOrder' /\ Overtaken'
    BY <2>1, <2>3 DEF MInv, StartedInOrder, Overtaken, MayStart, Begun, Logins
  <2>5. Matched'
    BY <2>1, <2>2, <2>3 DEF MInv, Matched, Matches, Later
  <2> QED BY <2>4, <2>5 DEF MInv
<1>2. ASSUME NEW l \in Logins, DeleteFlows(l) PROVE MInv'
  <2>1. /\ kind' = kind /\ MayStart(l) /\ pending' = {}
        /\ auth' = [auth EXCEPT ![l] = "deleted"]
        /\ calls' = calls /\ crossed' = (crossed \/ \E k \in Logins : auth[k] = "deleted")
    BY <1>2 DEF DeleteFlows
  <2>2. auth \in [Logins -> {"new", "deleted", "waiting", "refused", "out"}] /\ auth[l] = "new"
    BY <2>1 DEF CInv, Shapes, MayStart
  <2>3. \A k \in Logins : Begun(k)' <=> Begun(k) \/ k = l
    BY <2>1, <2>2 DEF Begun
  <2>4. StartedInOrder'
    BY <2>1, <2>3 DEF MInv, StartedInOrder, MayStart, Begun, Logins
  <2>5. ASSUME ~crossed', NEW k \in Logins, NEW m \in Logins, k < m, Begun(m)'
        PROVE  auth'[k] # "deleted"
    <3>1. k # l
      BY <2>2, <2>3, <2>5 DEF MInv, StartedInOrder, Begun, Logins
    <3> QED BY <2>1, <2>2, <2>5, <3>1
  <2>6. Overtaken'
    BY <2>1, <2>5 DEF Overtaken
  <2>7. Matched'
    BY <2>1, <2>2, <2>3 DEF MInv, Matched, Matches, Later
  <2> QED BY <2>4, <2>6, <2>7 DEF MInv
<1>3. ASSUME NEW l \in Logins, InsertFlow(l) PROVE MInv'
  <2>1. /\ auth[l] = "deleted" /\ pending' = pending \cup {l}
        /\ auth' = [auth EXCEPT ![l] = "out"] /\ UNCHANGED <<kind, calls, crossed>>
    BY <1>3 DEF InsertFlow
  <2>2. auth \in [Logins -> {"new", "deleted", "waiting", "refused", "out"}]
    BY DEF CInv, Shapes
  <2>3. \A k \in Logins : Begun(k)' <=> Begun(k)
    BY <2>1, <2>2 DEF Begun
  <2>4. StartedInOrder'
    BY <2>1, <2>3 DEF MInv, StartedInOrder
  <2>5. ASSUME kind = "paste", ~crossed, NEW k \in Logins, NEW m \in Logins, k < m, Begun(m)
        PROVE  k \notin pending' /\ auth'[k] # "deleted"
    BY <2>1, <2>2, <2>5 DEF MInv, Overtaken
  <2>6. Overtaken'
    BY <2>1, <2>3, <2>5 DEF Overtaken
  <2>7. Matched'
    BY <2>1, <2>2, <2>3 DEF MInv, Matched, Matches, Later
  <2> QED BY <2>4, <2>6, <2>7 DEF MInv
<1>4. CASE Listen
  <2>1. /\ auth' \in {[l \in Logins |-> IF auth[l] = "waiting" THEN "out" ELSE auth[l]],
                      [l \in Logins |-> IF auth[l] = "waiting" THEN "refused" ELSE auth[l]]}
        /\ UNCHANGED <<kind, pending, calls, crossed>>
    BY <1>4 DEF Listen
  <2>2. \A k \in Logins : /\ Begun(k)' <=> Begun(k)
                          /\ auth[k] = "out" => auth'[k] = "out"
                          /\ auth'[k] = "deleted" => auth[k] = "deleted"
    BY <2>1 DEF Begun
  <2>3. StartedInOrder' /\ Overtaken'
    BY <2>1, <2>2 DEF MInv, StartedInOrder, Overtaken
  <2>4. Matched'
    BY <2>1, <2>2 DEF MInv, Matched, Matches, Later
  <2> QED BY <2>3, <2>4 DEF MInv
<1>5. CASE Expire \/ Sweep \/ UNCHANGED vars
  <2>1. UNCHANGED <<kind, auth, crossed, calls>> /\ pending' \subseteq pending
    BY <1>5 DEF Expire, Sweep, Live, vars
  <2> QED BY <2>1, MatchKeeps DEF SameFlow
<1>6. ASSUME NEW c \in Calls, NEW l \in Logins, NEW via, Callback(c, l, via) PROVE MInv'
  <2>1. UNCHANGED <<kind, auth, crossed>> /\ auth[l] = "out"
    BY <1>6 DEF Callback, Begins
  <2>2. CASE Sends(c, l, l, via) /\ pending' = pending \ {l}
    BY <2>1, <2>2, MatchSends
  <2>3. CASE Ends(c, via, FALSE, pending \ {l})
    BY <2>1, <2>3, MatchEnds
  <2> QED BY <1>6, <2>2, <2>3 DEF Callback
<1>7. ASSUME NEW c \in Calls, NEW l \in Logins, NEW via \in {Served, Posted}, Paste(c, l, via)
      PROVE  MInv'
  <2> DEFINE flow == IF via = Served THEN l ELSE Latest
             job == [Idle EXCEPT !.step = "consume", !.via = via, !.login = l, !.flow = flow]
  <2>1. /\ UNCHANGED <<kind, auth, crossed>> /\ auth[l] = "out" /\ pending' \subseteq pending
        /\ calls' = [calls EXCEPT ![c] = IF flow = None THEN Idle ELSE job]
    BY <1>7 DEF Paste, Begins, Live
  <2>2. Elsewhere(Idle)
    BY DEF Elsewhere, Idle
  <2>3. job.step = "consume" /\ job.via = via /\ job.login = l /\ job.flow = flow
    BY DEF Idle
  <2> HIDE DEF job
  <2>4. Matches(job)
    BY <2>1, <2>3 DEF Matches
  <2> QED BY <2>1, <2>2, <2>4, MatchTakes
<1>8. ASSUME NEW c \in Calls, NEW l \in Logins, Poll(c, l) PROVE MInv'
  <2>1. UNCHANGED <<kind, auth, crossed>> /\ auth[l] = "out"
    BY <1>8 DEF Poll, Begins
  <2>2. CASE Sends(c, l, l, Posted) /\ UNCHANGED pending
    BY <2>1, <2>2, MatchSends
  <2>3. CASE Ends(c, Posted, FALSE, pending \ {l})
    BY <2>1, <2>3, MatchEnds
  <2> QED BY <1>8, <2>2, <2>3 DEF Poll
<1>9. ASSUME NEW c \in Calls, Consume(c) PROVE MInv'
  <2> DEFINE f == calls[c].flow
             l == calls[c].login
  <2>1. /\ UNCHANGED <<kind, auth, crossed>>
        /\ l \in Logins /\ auth[l] = "out" /\ (f # l => calls[c].via = Posted)
        /\ kind = "paste"
    BY <1>9 DEF Consume, MInv, Matched, Matches, CInv, Shapes
  <2>2. CASE f \in Live /\ Sends(c, l, f, calls[c].via) /\ pending' = pending \ {f}
    <3>1. f \in Logins /\ f \in pending /\ Begun(f)
      BY <2>1, <2>2 DEF Live, CInv, Shapes, FlowsUnused, Begun
    <3>2. f < l => crossed
      BY <2>1, <3>1 DEF MInv, Overtaken, Begun
    <3>3. f # l => crossed \/ Later(l)
      BY <2>1, <3>1, <3>2 DEF Later, Logins
    <3> QED BY <2>1, <2>2, <3>3, MatchSends
  <2>3. CASE Ends(c, calls[c].via, FALSE, pending \ {f})
    BY <2>1, <2>3, MatchEnds
  <2> QED BY <1>9, <2>2, <2>3 DEF Consume
<1>10. ASSUME NEW c \in Calls, Answer(c) PROVE MInv'
  <2> DEFINE job == calls[c]
             without == IF kind = "device" THEN pending \ {job.login} ELSE pending
             next == [Idle EXCEPT !.step = "label", !.via = job.via, !.grant = job.login]
  <2>1. UNCHANGED <<kind, auth, crossed>> /\ without \subseteq pending
    BY <1>10 DEF Answer
  <2>2. Elsewhere(Idle) /\ Elsewhere(next)
    BY DEF Elsewhere, Idle
  <2>3. CASE calls' = [calls EXCEPT ![c] = next] /\ pending' = without
    BY <2>1, <2>2, <2>3, MatchTakes
  <2>4. CASE Ends(c, job.via, FALSE, pending) \/ Ends(c, job.via, FALSE, without)
    BY <2>1, <2>4, MatchEnds
  <2>5. CASE calls' = [calls EXCEPT ![c] = Idle] /\ UNCHANGED pending
    BY <2>1, <2>2, <2>5, MatchTakes
  <2> QED BY <1>10, <2>3, <2>4, <2>5 DEF Answer
<1>11. ASSUME NEW c \in Calls, Label(c) PROVE MInv'
  <2>1. /\ UNCHANGED <<kind, auth, crossed, pending>> /\ calls[c].step = "label"
        /\ calls' = [calls EXCEPT ![c].step = "find", ![c].label = NextLabel(Active)]
    BY <1>11 DEF Label, flowVars
  <2>2. \A k \in Calls : Elsewhere(calls'[k]) \/ calls'[k] = calls[k]
    BY <2>1 DEF CInv, Shapes, Elsewhere
  <2> QED BY <2>1, <2>2, MatchKeeps DEF SameFlow
<1>12. ASSUME NEW r, Refresh(r) PROVE MInv'
  <2> DEFINE job == [Idle EXCEPT !.step = "find", !.label = r.label, !.grant = r.grant]
  <2>1. /\ UNCHANGED <<kind, auth, crossed, pending>> /\ Refresher \in Calls
        /\ calls' = [calls EXCEPT ![Refresher] = job]
    BY <1>12 DEF Refresh, flowVars, Calls
  <2>2. Elsewhere(job)
    BY DEF Elsewhere, Idle
  <2> HIDE DEF job
  <2> QED BY <2>1, <2>2, MatchTakes
<1>13. ASSUME NEW c \in Calls, Find(c) PROVE MInv'
  <2>1. UNCHANGED <<kind, auth, crossed>> /\ calls[c].step = "find"
    BY <1>13 DEF Find
  <2>2. ASSUME NEW r, UNCHANGED pending,
               calls' = [calls EXCEPT ![c].step = "write", ![c].found = r]
        PROVE  MInv'
    <3>1. \A k \in Calls : Elsewhere(calls'[k]) \/ calls'[k] = calls[k]
      BY <2>1, <2>2 DEF CInv, Shapes, Elsewhere
    <3> QED BY <2>1, <2>2, <3>1, MatchKeeps DEF SameFlow
  <2>3. CASE Ends(c, calls[c].via, FALSE, pending)
    BY <2>1, <2>3, MatchEnds
  <2> QED BY <1>13, <2>2, <2>3 DEF Find
<1>14. ASSUME NEW new, NEW c \in Calls \cup {None}, NEW job, Elsewhere(job),
              UNCHANGED <<kind, auth, crossed, pending>>,
              calls' = [Noted(new, c) EXCEPT ![c] = job] \/ calls' = Noted(new, c)
       PROVE  MInv'
  <2>1. \A k \in Calls : SameFlow(Noted(new, c)[k], calls[k])
    BY DEF Noted, SameFlow
  <2>2. \A k \in Calls : calls'[k] = job \/ calls'[k] = Noted(new, c)[k]
    BY <1>14 DEF Noted
  <2>3. \A k \in Calls : Elsewhere(calls'[k]) \/ SameFlow(calls'[k], calls[k])
    BY <1>14, <2>1, <2>2
  <2> QED BY <1>14, <2>3, MatchKeeps
<1>15. ASSUME NEW c \in Calls, Write(c) PROVE MInv'
  <2> DEFINE job == [Idle EXCEPT !.step = "after", !.via = calls[c].via]
  <2>1. UNCHANGED <<kind, auth, crossed>>
    BY <1>15 DEF Write
  <2>2. Elsewhere(job)
    BY DEF Elsewhere, Idle
  <2>3. CASE Ends(c, calls[c].via, FALSE, pending)
    BY <2>1, <2>3, MatchEnds
  <2>4. CASE UNCHANGED pending /\ \E new : calls' = [Noted(new, c) EXCEPT ![c] = job]
    BY <1>14, <2>1, <2>2, <2>4
  <2> QED BY <1>15, <2>3, <2>4 DEF Write
<1>16. ASSUME NEW c \in Calls, Finish(c) PROVE MInv'
  BY <1>16, MatchEnds DEF Finish
<1>17. CASE User
  <2>1. PICK new : calls' = Noted(new, None) /\ UNCHANGED <<kind, auth, crossed, pending>>
    BY <1>17 DEF User, RemoveKey, Disconnect, Rename, Edits, flowVars
  <2>2. Elsewhere(Idle)
    BY DEF Elsewhere, Idle
  <2> QED BY <1>14, <2>1, <2>2
<1> QED BY <1>1, <1>2, <1>3, <1>4, <1>5, <1>6, <1>7, <1>8, <1>9, <1>10, <1>11, <1>12,
           <1>13, <1>15, <1>16, <1>17 DEF Next

LEMMA MatchInvariant == Spec => [](CInv /\ MInv)
BY ConnectInit, ConnectNext, MatchInit, MatchNext, PTL DEF Spec

\* create deletes the agent's own flows before it stores one, so a code pasted
\* without its state meets the flow of its own login, unless another login began
\* after it or two began at once.
THEOREM OwnVerifierHolds == Spec => []OwnVerifier
<1>1. MInv => OwnVerifier
  <2> SUFFICES ASSUME MInv, NEW c \in Slots, calls[c].step = "fetch",
                      calls[c].flow # calls[c].login
               PROVE  /\ calls[c].via = Posted
                      /\ crossed \/ \E l \in Logins : l > calls[c].login /\ auth[l] # "new"
    BY DEF OwnVerifier
  <2> QED BY DEF MInv, Matched, Matches, Later, Begun, Calls
<1> QED BY <1>1, MatchInvariant, PTL
-------------------------------------------------------------------------------
(* Names and ids that are free *)

LEMMA LeastNatural ==
  ASSUME NEW T \in SUBSET Nat, T # {}
  PROVE  \E x \in T : \A y \in T : x <= y
<1>1. \E x \in T : \A y \in T : <<y, x>> \notin OpToRel(<, Nat)
  BY NatLessThanWellFounded, WFMin
<1>2. PICK x \in T : \A y \in T : <<y, x>> \notin OpToRel(<, Nat)
  BY <1>1, Zenon
<1>3. ASSUME NEW y \in T PROVE x <= y
  <2>1. <<y, x>> \in Nat \X Nat /\ <<y, x>>[1] = y /\ <<y, x>>[2] = x
    OBVIOUS
  <2>2. <<y, x>> \notin {ss \in Nat \X Nat : ss[1] < ss[2]}
    BY <1>2, Zenon DEF OpToRel
  <2>3. ~(y < x)
    BY <2>1, <2>2
  <2>4. y \in Nat /\ x \in Nat
    OBVIOUS
  <2> QED BY <2>3, <2>4
<1> QED BY <1>3

LEMMA FiniteImage ==
  ASSUME NEW S, IsFiniteSet(S), NEW f, DOMAIN f = S, f = [x \in S |-> f[x]]
  PROVE  /\ IsFiniteSet({f[x] : x \in S})
         /\ Cardinality({f[x] : x \in S}) <= Cardinality(S)
<1> DEFINE T == {f[x] : x \in S}
<1>1. f \in Surjection(S, T)
  BY DEF Surjection
<1> QED BY <1>1, FS_Surjection

\* One of as many numbers as a set has elements, and one more, is not in it.
LEMMA OneIsFree ==
  ASSUME NEW T, IsFiniteSet(T), NEW n \in Nat, NEW size \in Nat, Cardinality(T) <= size
  PROVE  \E m \in n .. n + size : m \notin T
<1> SUFFICES ASSUME n .. n + size \subseteq T PROVE FALSE
  OBVIOUS
<1>1. IsFiniteSet(n .. n + size) /\ Cardinality(n .. n + size) = size + 1
  BY FS_Interval
<1>2. Cardinality(n .. n + size) <= Cardinality(T) /\ Cardinality(T) \in Nat
  BY FS_Subset, FS_CardinalityType
<1> QED BY <1>1, <1>2

LEMMA FreeNameIsFree ==
  ASSUME NEW taken, IsFiniteSet(taken), NEW n \in Nat
  PROVE  FreeName(taken, n) \in Nat \ taken
<1> DEFINE size == Cardinality(taken)
           free == {m \in n .. n + size : m \notin taken}
<1>1. size \in Nat
  BY FS_CardinalityType
<1>2. \E m \in n .. n + size : m \notin taken
  <2>1. Cardinality(taken) <= size
    BY <1>1
  <2> HIDE DEF size
  <2> QED BY <1>1, <2>1, OneIsFree
<1>3. free \in SUBSET Nat /\ free # {}
  BY <1>1, <1>2
<1>4. PICK x \in free : \A y \in free : x <= y
  BY <1>3, LeastNatural
<1>5. x \in n .. n + size /\ x \notin taken /\ \A k \in n .. x - 1 : k \in taken
  BY <1>1, <1>4
<1>6. \E m \in n .. n + size : KeyName(m) \notin taken /\ \A k \in n .. m - 1 : KeyName(k) \in taken
  BY <1>5 DEF KeyName
<1> QED BY <1>1, <1>6 DEF FreeName, KeyName
-------------------------------------------------------------------------------
(* What the user connected stays connected *)

Rows == [id : Nat, label : Nat, active : BOOLEAN, grant : Nat]
Vias == {Served, Posted, None}

\* A call that has its grant: what it carries to the row.
Storing == {"label", "find", "write", "after"}
Jobs == [step : Storing, via : Vias, login : {None}, flow : {None}, grant : Nat \cup {None},
         label : Nat \cup {None}, found : Rows \cup {None}, since : SUBSET Nat]

Proper(job) ==
  /\ job.via \in Vias
  /\ job.step \in Storing => job \in Jobs
  /\ job.step \in {"label", "find", "write"} => job.grant \in Nat
  /\ job.step \in Choosing => job.label \in Nat

\* The row a call is about to write over.
Aims(job, r) ==
  \/ job.step = "find" /\ r.label = job.label
  \/ job.step = "write" /\ job.found # None /\ r.id = job.found.id

\* What it will write over is its own grant, or came there after the call was
\* given its label.
Known(job) == \A r \in Active : Aims(job, r) => r.grant \in job.since \cup {job.grant}

RowsProper == rows \in SUBSET Rows /\ IsFiniteSet(rows)
LabelsDiffer == \A r, s \in rows : r.label = s.label => r = s
IdsDiffer == \A r, s \in rows : r.id = s.id => r = s
LeftProper == left \in [edits : Nat, refreshes : Nat]
Calling == DOMAIN calls = Calls /\ \A c \in Calls : Proper(calls[c]) /\ Known(calls[c])

KInv == RowsProper /\ LabelsDiffer /\ IdsDiffer /\ LeftProper /\ Calling

LEMMA ChoosingKinds ==
  /\ \A job : job.step \notin Choosing => Known(job)
  /\ Proper(Idle) /\ Known(Idle)
  /\ Choosing \subseteq Storing
  /\ ~ (None \in Rows)
BY ConnectAssumption DEF Known, Aims, Choosing, Proper, Idle, Vias, Storing, Rows

LEMMA KeysInit == ASSUME Init PROVE KInv
<1>1. RowsProper /\ LabelsDiffer /\ IdsDiffer
  BY FS_EmptySet DEF Init, RowsProper, LabelsDiffer, IdsDiffer
<1>2. LeftProper
  BY ConnectAssumption DEF Init, LeftProper
<1>3. Calling
  BY ChoosingKinds DEF Init, Calling
<1> QED BY <1>1, <1>2, <1>3 DEF KInv

\* Rows that are stored already keep their ids to themselves.
LEMMA FreshIdIsFresh ==
  ASSUME KInv
  PROVE  FreshId \in Nat /\ \A r \in rows : r.id # FreshId
<1> DEFINE found == [c \in Calls |-> calls[c].found]
           S == (rows \cup {found[c] : c \in Calls}) \ {None}
           id == [r \in S |-> r.id]
           size == Cardinality(rows) + Cardinality(Calls)
<1>1. IsFiniteSet(Calls) /\ IsFiniteSet(rows)
  BY ConnectAssumption, FS_AddElement DEF Calls, KInv, RowsProper
<1>2. IsFiniteSet({found[c] : c \in Calls}) /\ Cardinality({found[c] : c \in Calls}) <= Cardinality(Calls)
  BY <1>1, FiniteImage
<1>3. {found[c] : c \in Calls} = {calls[c].found : c \in Calls}
  <2>1. \A c \in Calls : found[c] = calls[c].found
    OBVIOUS
  <2> HIDE DEF found
  <2> QED BY <2>1
<1> HIDE DEF found
<1>4. /\ IsFiniteSet(rows \cup {found[c] : c \in Calls})
      /\ Cardinality(rows \cup {found[c] : c \in Calls}) <= size
      /\ size \in Nat
  <2>1. /\ Cardinality(rows) \in Nat /\ Cardinality(Calls) \in Nat
        /\ Cardinality({found[c] : c \in Calls}) \in Nat
        /\ IsFiniteSet(rows \cap {found[c] : c \in Calls})
    BY <1>1, <1>2, FS_CardinalityType, FS_Intersection
  <2>2. Cardinality(rows \cap {found[c] : c \in Calls}) \in Nat
    BY <2>1, FS_CardinalityType
  <2>3. /\ IsFiniteSet(rows \cup {found[c] : c \in Calls})
        /\ Cardinality(rows \cup {found[c] : c \in Calls})
             = Cardinality(rows) + Cardinality({found[c] : c \in Calls})
               - Cardinality(rows \cap {found[c] : c \in Calls})
    BY <1>1, <1>2, FS_Union
  <2> QED BY <1>2, <2>1, <2>2, <2>3
<1>5. IsFiniteSet(S) /\ Cardinality(S) <= size
  <2>1. S \in SUBSET (rows \cup {found[c] : c \in Calls})
    OBVIOUS
  <2>2. IsFiniteSet(S) /\ Cardinality(S) <= Cardinality(rows \cup {found[c] : c \in Calls})
    BY <1>4, <2>1, FS_Subset
  <2>3. Cardinality(S) \in Nat /\ Cardinality(rows \cup {found[c] : c \in Calls}) \in Nat
    BY <1>4, <2>2, FS_CardinalityType
  <2> HIDE DEF size
  <2> QED BY <1>4, <2>2, <2>3
<1> HIDE DEF S, size
<1>6. IsFiniteSet({id[r] : r \in S}) /\ Cardinality({id[r] : r \in S}) <= size
  <2>1. IsFiniteSet({id[r] : r \in S}) /\ Cardinality({id[r] : r \in S}) <= Cardinality(S)
    BY <1>5, FiniteImage
  <2> QED BY <1>4, <1>5, <2>1, FS_CardinalityType
<1>7. \E n \in 0 .. 0 + size : n \notin {id[r] : r \in S}
  BY <1>4, <1>6, OneIsFree
<1>8. \E n \in 0 .. size : \A r \in S : r.id # n
  BY <1>4, <1>7
<1>9. S = (rows \cup {calls[c].found : c \in Calls}) \ {None}
  BY <1>3 DEF S
<1>10. FreshId = CHOOSE n \in 0 .. size : \A r \in S : r.id # n
  BY <1>9 DEF FreshId, size
<1>11. FreshId \in 0 .. size /\ \A r \in S : r.id # FreshId
  BY <1>8, <1>10
<1>12. rows \subseteq S
  BY ChoosingKinds DEF S, KInv, RowsProper
<1> QED BY <1>4, <1>11, <1>12

\* The label a login is given names no connected row.
LEMMA NextLabelIsFree ==
  ASSUME KInv
  PROVE  NextLabel(Active) \in Nat /\ \A r \in Active : r.label # NextLabel(Active)
<1> DEFINE label == [r \in Active |-> r.label]
<1>1. CASE Active = {}
  BY <1>1 DEF NextLabel, DefaultLabel
<1>2. CASE Active # {}
  <2>1. Active \in SUBSET rows /\ IsFiniteSet(rows)
    BY DEF Active, KInv, RowsProper
  <2>2. IsFiniteSet(Active)
    BY <2>1, FS_Subset
  <2>3. Cardinality(Active) \in Nat
    BY <2>2, FS_CardinalityType
  <2> DEFINE taken == {r.label : r \in Active}
             n == Cardinality(Active) + 1
  <2>4. IsFiniteSet({label[r] : r \in Active})
    BY <2>2, FiniteImage
  <2>5. \A r \in Active : label[r] = r.label
    OBVIOUS
  <2> HIDE DEF label
  <2>6. taken = {label[r] : r \in Active}
    BY <2>5
  <2>7. IsFiniteSet(taken) /\ n \in Nat
    <3> HIDE DEF taken
    <3> QED BY <2>4, <2>6, <2>3
  <2>8. NextLabel(Active) = FreeName(taken, n)
    BY <1>2 DEF NextLabel
  <2>9. \A r \in Active : r.label \in taken
    OBVIOUS
  <2> HIDE DEF taken, n
  <2>10. FreeName(taken, n) \in Nat \ taken
    BY <2>7, FreeNameIsFree
  <2> QED BY <2>8, <2>9, <2>10
<1> QED BY <1>1, <1>2

\* A step that leaves the rows alone and gives one call another job.
LEMMA KeyTakes ==
  ASSUME KInv, rows' = rows, LeftProper', NEW c \in Calls, NEW job,
         calls' = [calls EXCEPT ![c] = job], Proper(job), Known(job)
  PROVE  KInv'
<1>1. DOMAIN calls' = Calls /\ \A k \in Calls : calls'[k] = job \/ calls'[k] = calls[k]
  BY DEF KInv, Calling
<1>2. ASSUME NEW k \in Calls PROVE Proper(calls'[k]) /\ Known(calls'[k])
  BY <1>1 DEF KInv, Calling
<1>3. \A k \in Calls : Known(calls[k])' <=> Known(calls'[k])
  BY DEF Known, Active
<1>4. Calling'
  BY <1>1, <1>2, <1>3 DEF Calling, Proper
<1>5. RowsProper' /\ LabelsDiffer' /\ IdsDiffer'
  BY DEF KInv, RowsProper, LabelsDiffer, IdsDiffer
<1> QED BY <1>4, <1>5 DEF KInv

LEMMA KeyEnds ==
  ASSUME KInv, UNCHANGED <<rows, left>>, NEW c \in Calls, NEW via, NEW ok, NEW P,
         Ends(c, via, ok, P)
  PROVE  KInv'
<1>1. LeftProper' /\ calls' = [calls EXCEPT ![c] = Idle]
  BY DEF KInv, LeftProper, Ends
<1> QED BY <1>1, KeyTakes, ChoosingKinds

LEMMA KeyAway ==
  ASSUME KInv, UNCHANGED <<rows, left>>, NEW c \in Calls, NEW job,
         calls' = [calls EXCEPT ![c] = job], job.step \notin Storing, job.via \in Vias
  PROVE  KInv'
<1>1. LeftProper'
  BY DEF KInv, LeftProper
<1>2. job.step \notin Choosing
  BY DEF Storing, Choosing
<1>3. Proper(job) /\ Known(job)
  BY <1>2, ChoosingKinds DEF Proper, Storing
<1> QED BY <1>1, <1>3, KeyTakes

LEMMA KeySends ==
  ASSUME KInv, UNCHANGED <<rows, left>>, NEW c \in Calls, NEW l, NEW f, NEW via \in Vias,
         Sends(c, l, f, via)
  PROVE  KInv'
<1> DEFINE job == [Idle EXCEPT !.step = "fetch", !.via = via, !.login = l, !.flow = f]
<1>1. calls' = [calls EXCEPT ![c] = job]
  BY DEF Sends
<1>2. job.step \notin Storing /\ job.via = via
  BY DEF Idle, Storing
<1> HIDE DEF job
<1> QED BY <1>1, <1>2, KeyAway

\* A step that changes the rows: every other call that has its label notes what
\* came there.
LEMMA KeyRows ==
  ASSUME KInv, RowsProper', LabelsDiffer', IdsDiffer', LeftProper', NEW c,
         DOMAIN calls' = Calls,
         \A k \in Calls : \/ k # c /\ calls'[k] = Noted(rows', c)[k]
                          \/ Proper(calls'[k]) /\ calls'[k].step \notin Choosing
  PROVE  KInv'
<1> SUFFICES ASSUME NEW k \in Calls PROVE (Proper(calls[k]) /\ Known(calls[k]))'
  BY DEF KInv, Calling
<1>1. CASE Proper(calls'[k]) /\ calls'[k].step \notin Choosing
  BY <1>1 DEF Proper, Known, Aims, Choosing
<1>2. CASE k # c /\ calls'[k] = Noted(rows', c)[k] /\ calls[k].step \notin Choosing
  <2>1. calls'[k] = calls[k]
    BY <1>2 DEF Noted
  <2> QED BY <1>1, <1>2, <2>1 DEF KInv, Calling
<1>3. CASE k # c /\ calls'[k] = Noted(rows', c)[k] /\ calls[k].step \in Choosing
  <2> DEFINE job == calls[k]
             more == {r.grant : r \in rows' \ rows}
  <2>1. calls'[k] = [job EXCEPT !.since = @ \cup more]
    BY <1>3 DEF Noted
  <2>2. job \in Jobs /\ job.grant \in Nat /\ job.label \in Nat /\ job.via \in Vias /\ Known(job)
    BY <1>3, ChoosingKinds DEF KInv, Calling, Proper, Choosing
  <2>3. more \subseteq Nat
    BY DEF RowsProper, Rows
  <2>4. /\ calls'[k].step = job.step /\ calls'[k].grant = job.grant /\ calls'[k].via = job.via
        /\ calls'[k].label = job.label /\ calls'[k].found = job.found
        /\ calls'[k].since = job.since \cup more /\ calls'[k] \in Jobs
    BY <2>1, <2>2, <2>3 DEF Jobs
  <2>5. Proper(calls[k])'
    BY <2>2, <2>4 DEF Proper
  <2>6. ASSUME NEW r \in Active', Aims(calls'[k], r)
        PROVE  r.grant \in calls'[k].since \cup {calls'[k].grant}
    <3>1. CASE r \in rows
      <4>1. r \in Active /\ Aims(job, r)
        BY <2>4, <2>6, <3>1 DEF Active, Aims
      <4> QED BY <2>2, <2>4, <4>1 DEF Known
    <3>2. CASE r \notin rows
      <4>1. r.grant \in more
        BY <3>2 DEF Active
      <4> QED BY <2>4, <4>1
    <3> QED BY <3>1, <3>2
  <2> QED BY <2>5, <2>6 DEF Known, Aims
<1> QED BY <1>1, <1>2, <1>3

\* A call finds the row it will write over, or that there is none.
LEMMA KeyFinds ==
  ASSUME KInv, UNCHANGED <<rows, left>>, NEW c \in Calls, calls[c].step = "find",
         NEW r \in IF Named(calls[c].label) = {} THEN {None} ELSE Named(calls[c].label),
         calls' = [calls EXCEPT ![c].step = "write", ![c].found = r]
  PROVE  KInv'
<1> DEFINE job == [calls[c] EXCEPT !.step = "write", !.found = r]
<1>1. calls' = [calls EXCEPT ![c] = job] /\ LeftProper'
  BY DEF KInv, Calling, LeftProper
<1>2. /\ calls[c] \in Jobs /\ calls[c].grant \in Nat /\ calls[c].label \in Nat
      /\ calls[c].via \in Vias /\ Known(calls[c])
  BY ChoosingKinds DEF KInv, Calling, Proper, Choosing
<1>3. r = None \/ (r \in rows /\ r \in Rows /\ r.label = calls[c].label)
  BY DEF Named, KInv, RowsProper
<1>4. /\ job.step = "write" /\ job.found = r /\ job.grant = calls[c].grant /\ job.via = calls[c].via
      /\ job.label = calls[c].label /\ job.since = calls[c].since /\ job \in Jobs
  BY <1>2, <1>3 DEF Jobs, Storing
<1>5. Proper(job)
  BY <1>2, <1>4 DEF Proper
<1>6. Known(job)
  <2> SUFFICES ASSUME NEW s \in Active, r # None, s.id = r.id
               PROVE  s.grant \in calls[c].since \cup {calls[c].grant}
    BY <1>4 DEF Known, Aims
  <2>1. s = r
    BY <1>3 DEF Active, KInv, IdsDiffer
  <2> QED BY <1>2, <1>3, <2>1 DEF Known, Aims
<1> HIDE DEF job
<1> QED BY <1>1, <1>5, <1>6, KeyTakes

\* The row written: the found one with its new grant, or a new one.
Written(c) ==
  IF calls[c].found = None
  THEN [id |-> FreshId, label |-> calls[c].label, active |-> TRUE, grant |-> calls[c].grant]
  ELSE [calls[c].found EXCEPT !.active = TRUE, !.grant = calls[c].grant]

RowsWith(row) == {r \in rows : r.id # row.id} \cup {row}

LEMMA WrittenIsARow ==
  ASSUME KInv, NEW c \in Calls, calls[c].step = "write"
  PROVE  /\ Written(c) \in Rows /\ Written(c).active /\ Written(c).grant = calls[c].grant
         /\ calls[c].found = None => Written(c).id = FreshId
         /\ calls[c].found # None => Written(c).id = calls[c].found.id
<1>1. /\ calls[c].found \in Rows \cup {None} /\ calls[c].grant \in Nat /\ calls[c].label \in Nat
  BY ChoosingKinds DEF KInv, Calling, Proper, Choosing, Jobs
<1>2. CASE calls[c].found = None
  BY <1>1, <1>2, FreshIdIsFresh DEF Written, Rows
<1>3. CASE calls[c].found # None
  BY <1>1, <1>3 DEF Written, Rows
<1> QED BY <1>2, <1>3

LEMMA KeyWrites ==
  ASSUME KInv, NEW c \in Calls, calls[c].step = "write", left' = left,
         rows' = RowsWith(Written(c)),
         \A r \in rows' : r.label = Written(c).label => r = Written(c),
         calls' = [Noted(rows', c) EXCEPT ![c] = [Idle EXCEPT !.step = "after",
                                                             !.via = calls[c].via]]
  PROVE  KInv'
<1> DEFINE row == Written(c)
           job == [Idle EXCEPT !.step = "after", !.via = calls[c].via]
<1>1. row \in Rows
  BY WrittenIsARow
<1>2. RowsProper'
  <2>1. {r \in rows : r.id # row.id} \in SUBSET rows
    OBVIOUS
  <2>2. IsFiniteSet({r \in rows : r.id # row.id})
    BY <2>1, FS_Subset DEF KInv, RowsProper
  <2>3. IsFiniteSet(rows')
    BY <2>2, FS_AddElement DEF RowsWith
  <2> QED BY <1>1, <2>3 DEF RowsProper, RowsWith, KInv
<1>3. LabelsDiffer' /\ IdsDiffer'
  BY DEF KInv, LabelsDiffer, IdsDiffer, RowsWith
<1>4. LeftProper'
  BY DEF KInv, LeftProper
<1>5. job.step = "after" /\ Proper(job)
  <2>1. calls[c].via \in Vias
    BY DEF KInv, Calling, Proper
  <2> QED BY <2>1 DEF Idle, Proper, Jobs, Storing, Choosing
<1> HIDE DEF job
<1>6. DOMAIN calls' = Calls /\ \A k \in Calls : calls'[k] = IF k = c THEN job ELSE Noted(rows', c)[k]
  BY DEF Noted, job
<1>7. \A k \in Calls : \/ k # c /\ calls'[k] = Noted(rows', c)[k]
                       \/ Proper(calls'[k]) /\ calls'[k].step \notin Choosing
  BY <1>5, <1>6 DEF Choosing
<1> QED BY <1>2, <1>3, <1>4, <1>6, <1>7, KeyRows

\* Every step keeps it.
LEMMA KeysNext == ASSUME CInv, MInv, KInv, [Next]_vars PROVE KInv'
<1>1. CASE \/ \E l \in Logins : Authorize(l) \/ DeleteFlows(l) \/ InsertFlow(l)
           \/ Listen \/ Expire \/ Sweep \/ UNCHANGED vars
  <2>1. UNCHANGED <<rows, left, calls>>
    BY <1>1 DEF Authorize, DeleteFlows, InsertFlow, Listen, Expire, Sweep, vars
  <2> QED BY <2>1 DEF KInv, RowsProper, LabelsDiffer, IdsDiffer, LeftProper, Calling, Known, Active
<1>2. ASSUME NEW c \in Calls, NEW l \in Logins, NEW via \in {Served, Posted},
             Callback(c, l, via) \/ Paste(c, l, via) \/ Poll(c, l)
      PROVE  KInv'
  <2>1. UNCHANGED <<rows, left>> /\ via \in Vias /\ Posted \in Vias
    BY <1>2 DEF Callback, Paste, Poll, Vias
  <2>2. ASSUME NEW v \in Vias, NEW P, Sends(c, l, l, v) \/ Ends(c, v, FALSE, P) PROVE KInv'
    BY <2>1, <2>2, KeySends, KeyEnds
  <2>3. CASE Callback(c, l, via) \/ Poll(c, l)
    BY <2>1, <2>2, <2>3 DEF Callback, Poll
  <2>4. CASE Paste(c, l, via)
    <3> DEFINE job == [Idle EXCEPT !.step = "consume", !.via = via, !.login = l,
                                   !.flow = IF via = Served THEN l ELSE Latest]
    <3>1. calls' = [calls EXCEPT ![c] = Idle] \/ calls' = [calls EXCEPT ![c] = job]
      BY <2>4 DEF Paste
    <3>2. job.step \notin Storing /\ job.via = via
      BY DEF Idle, Storing
    <3>3. Idle.step \notin Storing /\ Idle.via \in Vias
      BY DEF Idle, Storing, Vias
    <3> HIDE DEF job
    <3> QED BY <2>1, <3>1, <3>2, <3>3, KeyAway
  <2> QED BY <1>2, <2>3, <2>4
<1>3. ASSUME NEW c \in Calls, Consume(c) PROVE KInv'
  <2>1. UNCHANGED <<rows, left>> /\ calls[c].via \in Vias
    BY <1>3 DEF Consume, KInv, Calling, Proper
  <2> QED BY <1>3, <2>1, KeySends, KeyEnds DEF Consume
<1>4. ASSUME NEW c \in Calls, Answer(c) PROVE KInv'
  <2> DEFINE l == calls[c].login
             next == [Idle EXCEPT !.step = "label", !.via = calls[c].via, !.grant = l]
  <2>1. /\ UNCHANGED <<rows, left>> /\ calls[c].via \in Vias /\ l \in Logins
        /\ \/ calls' = [calls EXCEPT ![c] = next] \/ calls' = [calls EXCEPT ![c] = Idle]
           \/ \E P : Ends(c, calls[c].via, FALSE, P)
    BY <1>4 DEF Answer, KInv, Calling, Proper, MInv, Matched, Matches
  <2>2. LeftProper' /\ l \in Nat
    BY <2>1 DEF KInv, LeftProper, Logins
  <2>3. Proper(next) /\ Known(next)
    <3>1. next.step = "label" /\ Proper(next)
      BY <2>1, <2>2 DEF Idle, Proper, Jobs, Storing, Choosing
    <3> HIDE DEF next
    <3> QED BY <3>1, ChoosingKinds DEF Choosing
  <2> HIDE DEF next
  <2> QED BY <2>1, <2>2, <2>3, KeyTakes, KeyEnds, ChoosingKinds
<1>5. ASSUME NEW c \in Calls, Label(c) PROVE KInv'
  <2> DEFINE job == [calls[c] EXCEPT !.step = "find", !.label = NextLabel(Active)]
  <2>1. /\ rows' = rows /\ LeftProper' /\ calls[c].step = "label"
        /\ calls' = [calls EXCEPT ![c] = job]
    BY <1>5 DEF Label, flowVars, KInv, LeftProper, Calling
  <2>2. calls[c] \in Jobs /\ calls[c].grant \in Nat /\ calls[c].via \in Vias
    BY <2>1 DEF KInv, Calling, Proper, Storing
  <2>3. /\ job.step = "find" /\ job.label = NextLabel(Active) /\ job \in Jobs
        /\ job.grant = calls[c].grant /\ job.via = calls[c].via
    BY <2>2, NextLabelIsFree DEF Jobs, Storing
  <2> HIDE DEF job
  <2>4. Proper(job) /\ Known(job)
    BY <2>2, <2>3, NextLabelIsFree DEF Proper, Known, Aims
  <2> QED BY <2>1, <2>4, KeyTakes
<1>6. ASSUME NEW r \in rows, Refresh(r) PROVE KInv'
  <2> DEFINE job == [Idle EXCEPT !.step = "find", !.label = r.label, !.grant = r.grant]
  <2>1. /\ rows' = rows /\ LeftProper' /\ Refresher \in Calls
        /\ calls' = [calls EXCEPT ![Refresher] = job]
    BY <1>6 DEF Refresh, flowVars, KInv, LeftProper, Calls
  <2>2. r \in Rows
    BY DEF KInv, RowsProper
  <2>3. job.step = "find" /\ job.label = r.label /\ job.grant = r.grant /\ Proper(job)
    BY <2>2 DEF Idle, Proper, Jobs, Storing, Rows, Vias
  <2> HIDE DEF job
  <2>4. Known(job)
    BY <2>3 DEF Known, Aims, Active, KInv, LabelsDiffer
  <2> QED BY <2>1, <2>3, <2>4, KeyTakes
<1>7. ASSUME NEW c \in Calls, Find(c) PROVE KInv'
  <2>1. UNCHANGED <<rows, left>> /\ calls[c].step = "find"
    BY <1>7 DEF Find
  <2> QED BY <1>7, <2>1, KeyFinds, KeyEnds DEF Find
<1>8. ASSUME NEW c \in Calls, Write(c) PROVE KInv'
  <2>1. left' = left /\ calls[c].step = "write"
    BY <1>8 DEF Write
  <2>2. CASE Ends(c, calls[c].via, FALSE, pending) /\ rows' = rows
    BY <2>1, <2>2, KeyEnds
  <2>3. CASE ~ (Ends(c, calls[c].via, FALSE, pending) /\ rows' = rows)
    <3>1. /\ rows' = RowsWith(Written(c))
          /\ \A r \in rows' : r.label = Written(c).label => r = Written(c)
          /\ calls' = [Noted(rows', c) EXCEPT ![c] = [Idle EXCEPT !.step = "after",
                                                                 !.via = calls[c].via]]
      BY <1>8, <2>3 DEF Write, RowsWith, Written
    <3> QED BY <2>1, <3>1, KeyWrites
  <2> QED BY <2>2, <2>3
<1>9. ASSUME NEW c \in Calls, Finish(c) PROVE KInv'
  BY <1>9, KeyEnds DEF Finish
<1>10. ASSUME NEW new \in SUBSET Rows, IsFiniteSet(new), Edits(new),
              \A r, s \in new : r.label = s.label \/ r.id = s.id => r = s
       PROVE  KInv'
  <2>1. rows' = new /\ calls' = Noted(new, None) /\ left.edits > 0
        /\ left' = [left EXCEPT !.edits = @ - 1]
    BY <1>10 DEF Edits
  <2>2. LeftProper'
    BY <2>1 DEF KInv, LeftProper
  <2>3. RowsProper' /\ LabelsDiffer' /\ IdsDiffer'
    BY <1>10, <2>1 DEF RowsProper, LabelsDiffer, IdsDiffer
  <2>4. DOMAIN calls' = Calls /\ \A k \in Calls : k # None /\ calls'[k] = Noted(rows', None)[k]
    BY <2>1, ConnectAssumption DEF Noted
  <2> QED BY <2>2, <2>3, <2>4, KeyRows
<1>11. CASE User
  <2> DEFINE off == [s \in rows |-> [s EXCEPT !.active = FALSE]]
             none == {[s EXCEPT !.active = FALSE] : s \in rows}
  <2>1. /\ rows \in SUBSET Rows /\ IsFiniteSet(rows)
        /\ \A r, s \in rows : r.label = s.label \/ r.id = s.id => r = s
    BY DEF KInv, RowsProper, LabelsDiffer, IdsDiffer
  <2>2. CASE Edits(none)
    <3>1. \A s \in rows : off[s] = [s EXCEPT !.active = FALSE]
      OBVIOUS
    <3>2. \A s \in rows : off[s] \in Rows /\ off[s].id = s.id /\ off[s].label = s.label
      BY <2>1, <3>1 DEF Rows
    <3>3. DOMAIN off = rows /\ off = [s \in rows |-> off[s]]
      OBVIOUS
    <3> HIDE DEF off
    <3>4. IsFiniteSet({off[s] : s \in rows})
      BY <2>1, <3>3, FiniteImage
    <3>5. none = {off[s] : s \in rows}
      BY <3>1
    <3> HIDE DEF none
    <3>6. IsFiniteSet(none) /\ none \in SUBSET Rows
      BY <3>2, <3>4, <3>5
    <3>7. \A r, s \in none : r.label = s.label \/ r.id = s.id => r = s
      BY <2>1, <3>2, <3>5
    <3> QED BY <1>10, <2>2, <3>6, <3>7
  <2>3. ASSUME NEW r \in rows, Edits(rows \ {r}) PROVE KInv'
    BY <1>10, <2>1, <2>3, FS_RemoveElement
  <2>4. ASSUME NEW r \in rows, NEW l \in Labels, Rename(r, l) PROVE KInv'
    <3> DEFINE row == [r EXCEPT !.label = l]
    <3>1. row \in Rows /\ row.id = r.id /\ row.label = l
      BY <2>1 DEF Rows, Labels
    <3>2. \A s \in rows : s.label # l
      BY <2>4 DEF Rename, Named
    <3>3. Edits((rows \ {r}) \cup {row})
      BY <2>4 DEF Rename
    <3> HIDE DEF row
    <3>4. IsFiniteSet((rows \ {r}) \cup {row})
      BY <2>1, FS_RemoveElement, FS_AddElement
    <3> QED BY <1>10, <2>1, <3>1, <3>2, <3>3, <3>4
  <2>5. Active \subseteq rows
    BY DEF Active
  <2> HIDE DEF none
  <2> QED BY <1>11, <2>2, <2>3, <2>4, <2>5 DEF User, RemoveKey, Disconnect, none
<1> QED BY <1>1, <1>2, <1>3, <1>4, <1>5, <1>6, <1>7, <1>8, <1>9, <1>11 DEF Next

LEMMA KeysInvariant == Spec => [](CInv /\ MInv /\ KInv)
BY ConnectInit, ConnectNext, MatchInit, MatchNext, KeysInit, KeysNext, PTL DEF Spec

\* Which grants a step may take out of the connected rows.
Keeps ==
  \/ left'.edits < left.edits
  \/ Held \subseteq Held'
  \/ \E c \in Calls : /\ calls[c].step = "write" /\ calls'[c].step # "write"
                      /\ Held \ Held' \subseteq calls[c].since

LEMMA WriteKeeps ==
  ASSUME KInv, NEW c \in Calls, calls[c].step = "write", rows' = RowsWith(Written(c)),
         calls'[c].step # "write"
  PROVE  Keeps
<1> DEFINE job == calls[c]
<1>1. /\ Written(c).active /\ Written(c).grant = job.grant
      /\ job.found = None => Written(c).id = FreshId
      /\ job.found # None => Written(c).id = job.found.id
  BY WrittenIsARow
<1>2. job.grant \in Held'
  BY <1>1 DEF Held, Active, RowsWith
<1>3. ASSUME NEW r \in Active, r.grant \notin Held' PROVE r.grant \in job.since
  <2>1. r \in rows /\ r.active
    BY DEF Active
  <2>2. r \notin rows'
    BY <1>3, <2>1 DEF Held, Active
  <2>3. r.id = Written(c).id
    BY <2>1, <2>2 DEF RowsWith
  <2>4. job.found # None /\ r.id = job.found.id
    BY <1>1, <2>1, <2>3, FreshIdIsFresh
  <2>5. r.grant \in job.since \cup {job.grant}
    BY <2>4 DEF KInv, Calling, Known, Aims
  <2> QED BY <1>2, <1>3, <2>5
<1>4. Held \ Held' \subseteq job.since
  BY <1>3 DEF Held
<1> QED BY <1>4 DEF Keeps

LEMMA StepKeeps == ASSUME CInv, KInv, [Next]_vars PROVE Keeps
<1>1. CASE rows' = rows
  BY <1>1 DEF Keeps, Held, Active
<1>2. ASSUME NEW c \in Calls, Write(c), rows' # rows PROVE Keeps
  <2>1. calls[c].step = "write" /\ rows' = RowsWith(Written(c))
        /\ calls' = [Noted(rows', c) EXCEPT ![c] = [Idle EXCEPT !.step = "after",
                                                               !.via = calls[c].via]]
    BY <1>2 DEF Write, RowsWith, Written
  <2>2. calls'[c].step # "write"
    BY <2>1 DEF Noted, Idle
  <2> QED BY <2>1, <2>2, WriteKeeps
<1>3. CASE User
  <2>1. left.edits > 0 /\ left' = [left EXCEPT !.edits = @ - 1]
    BY <1>3 DEF User, RemoveKey, Disconnect, Rename, Edits
  <2>2. left'.edits < left.edits
    BY <2>1 DEF KInv, LeftProper
  <2> QED BY <2>2 DEF Keeps
<1>4. \/ rows' = rows \/ User
      \/ \E c \in Calls : Write(c) /\ rows' # rows
  BY DEF Next, Authorize, DeleteFlows, InsertFlow, Listen, Expire, Sweep, Callback, Paste, Poll,
         Consume, Answer, Label, Find, Finish, Refresh, vars
<1> QED BY <1>1, <1>2, <1>3, <1>4

\* nextOAuthLabel gives a login a label no connected row has, and a refresh has
\* the label of the only row that bears it: what upsertProvider then writes over
\* is the call's own grant, or came there since, whatever logins, refreshes and
\* edits run together.
THEOREM GrantsAreKeptHolds == Spec => GrantsAreKept
<1>1. CInv /\ KInv /\ [Next]_vars => [Keeps]_vars
  BY StepKeeps
<1>2. Spec => [][Keeps]_vars
  BY <1>1, KeysInvariant, PTL DEF Spec
<1> QED BY <1>2 DEF GrantsAreKept, Keeps
=============================================================================
