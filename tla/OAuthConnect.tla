----------------------------- MODULE OAuthConnect -----------------------------
(***************************************************************************)
(* Signing in to a subscription: from the URL or code a login is started   *)
(* with to the row its grant is stored in.  The code has it in four kinds: *)
(*                                                                         *)
(*   loopback  RedirectPkceOauthBaseService in development: flows in       *)
(*             memory, callbacks on a server the process opens for them;   *)
(*   redirect  the same service in production: the page posts the callback;*)
(*   paste     AnthropicOauthService: flows in the database, the user      *)
(*             pastes a code, with the flow's state or without;            *)
(*   device    KiroOauthService and MinimaxOauthService: flows in memory,  *)
(*             the page polls until the vendor grants.                     *)
(*                                                                         *)
(* All end in ProviderService: nextOAuthLabel, upsertProvider.  Around them*)
(* run other logins of the same agent and provider, a refresh that stores  *)
(* its successor, and the user who renames and removes keys (KeyRouting    *)
(* has the steps those two take).                                          *)
(***************************************************************************)
EXTENDS Naturals, FiniteSets, Sequences, SequencesExt

CONSTANTS Kinds,        \* the kinds of login to look at
          MaxLogins,    \* bound: logins
          Slots,        \* bound: callbacks, pastes and polls in flight at a time
          MaxKeys,      \* MAX_KEYS_PER_PROVIDER
          EditedKinds,  \* bound: the kinds to look at with edits and refreshes;
                        \* from nextOAuthLabel on they are all the same
          MaxEdits,     \* bound: renames and removals by the user
          MaxRefreshes, \* bound: refreshes
          Refresher,    \* the refresh in flight
          None

Logins == 1 .. MaxLogins
Served == "served"     \* by the loopback server, or with its state pasted
Posted == "posted"     \* by the page, or pasted without a state

\* nextOAuthLabel's names, and one the user may choose.
DefaultLabel == 1
Work == 0
KeyName(n) == n
Labels == 0 .. MaxLogins + 1

Calls == Slots \cup {Refresher}

ASSUME ConnectAssumption ==
  /\ IsFiniteSet(Slots)
  /\ MaxEdits \in Nat /\ MaxRefreshes \in Nat
  /\ None \notin Calls
  /\ None \notin [id : Nat, label : Nat, active : BOOLEAN, grant : Nat]

VARIABLES kind,      \* the provider's kind of login
          auth,      \* how far the start of each login is
          made,      \* the logins in the order their flows were stored
          pending,   \* the flows stored
          expired,   \* the logins up to this one are past their lifetime
          server,    \* the loopback server: down, starting, up
          calls,     \* the callbacks, pastes, polls and the refresh in flight
          sent,      \* how often each flow's verifier went to the vendor
          redeemed,  \* the codes the vendor has granted tokens for
          rows,      \* user_providers of this agent, provider, subscription
          left,      \* edits and refreshes left
          crossed    \* two logins were started at the same time

vars == <<kind, auth, made, pending, expired, server, calls, sent, redeemed,
          rows, left, crossed>>
flowVars == <<auth, made, pending, server, sent, redeemed, crossed>>
-------------------------------------------------------------------------------
Expired == 1 .. expired
Live == pending \ Expired
Active == {r \in rows : r.active}
Named(l) == {r \in rows : r.label = l}
Held == {r.grant : r \in Active}

\* A call: its login and flow, the grant it carries, the label it was given, the
\* row it found there, and the grants that came to be held since it got it.
Idle == [step |-> "idle", via |-> None, login |-> None, flow |-> None,
         grant |-> None, label |-> None, found |-> None, since |-> {}]
Choosing == {"find", "write"}

Init == /\ kind \in Kinds
        /\ auth = [l \in Logins |-> "new"]
        /\ made = <<>>
        /\ pending = {}
        /\ expired = 0
        /\ server = "down"
        /\ calls = [c \in Calls |-> Idle]
        /\ sent = [l \in Logins |-> 0]
        /\ redeemed = {}
        /\ rows = {}
        /\ left = IF kind \in EditedKinds
                  THEN [edits |-> MaxEdits, refreshes |-> MaxRefreshes]
                  ELSE [edits |-> 0, refreshes |-> 0]
        /\ crossed = FALSE

Stored(l) == made' = Append(made, l)
MayStart(l) == auth[l] = "new" /\ \A k \in 1 .. l - 1 : auth[k] # "new"
-------------------------------------------------------------------------------
\* generateAuthorizationUrl with its flow in memory: the flow is stored before
\* the server is waited for.  A vendor that is asked for a code first (device)
\* leaves nothing behind when it fails.
Authorize(l) ==
  /\ kind # "paste" /\ MayStart(l)
  /\ pending' = Live \cup {l}
  /\ Stored(l)
  /\ auth' = [auth EXCEPT ![l] = IF kind = "loopback" /\ server # "up"
                                 THEN "waiting" ELSE "out"]
  /\ server' = IF kind = "loopback" /\ server = "down" THEN "starting"
               ELSE server
  /\ UNCHANGED <<kind, expired, calls, sent, redeemed, rows, left, crossed>>

\* ensureCallbackServer: the port is free, or another provider's server has it.
Listen ==
  /\ server = "starting"
  /\ \/ /\ server' = "up"
        /\ auth' = [l \in Logins |-> IF auth[l] = "waiting" THEN "out" ELSE auth[l]]
     \/ /\ server' = "down"
        /\ auth' = [l \in Logins |-> IF auth[l] = "waiting" THEN "refused" ELSE auth[l]]
  /\ UNCHANGED <<kind, made, pending, expired, calls, sent, redeemed, rows, left,
                 crossed>>

\* Mutant: only the expired flows are deleted.
KeepsOwnFlows(l) ==
  /\ kind = "paste" /\ MayStart(l)
  /\ pending' = Live
  /\ crossed' = (crossed \/ \E k \in Logins : auth[k] = "deleted")
  /\ auth' = [auth EXCEPT ![l] = "deleted"]
  /\ UNCHANGED <<kind, made, expired, server, calls, sent, redeemed, rows, left>>

\* OAuthPendingFlowStore.create: its first two statements delete the expired
\* flows and the agent's own; the third inserts.
DeleteFlows(l) ==
  /\ kind = "paste" /\ MayStart(l)
  /\ pending' = {}
  /\ crossed' = (crossed \/ \E k \in Logins : auth[k] = "deleted")
  /\ auth' = [auth EXCEPT ![l] = "deleted"]
  /\ UNCHANGED <<kind, made, expired, server, calls, sent, redeemed, rows, left>>

InsertFlow(l) ==
  /\ auth[l] = "deleted"
  /\ pending' = pending \cup {l}
  /\ Stored(l)
  /\ auth' = [auth EXCEPT ![l] = "out"]
  /\ UNCHANGED <<kind, expired, server, calls, sent, redeemed, rows, left, crossed>>

\* Time passes: the lifetime is the same for all, so the oldest goes first.
Expire ==
  /\ expired < MaxLogins /\ auth[expired + 1] # "new"
  /\ expired' = expired + 1
  /\ UNCHANGED <<kind, auth, made, pending, server, calls, sent, redeemed, rows,
                 left, crossed>>

\* cleanupExpiredCron.
Sweep ==
  /\ kind = "paste" /\ pending # Live
  /\ pending' = Live
  /\ UNCHANGED <<kind, auth, made, expired, server, calls, sent, redeemed, rows,
                 left, crossed>>
-------------------------------------------------------------------------------
\* Mutant: the server is closed whether or not a flow is left.
EndsAndCloses(c, via, ok, P) ==
  /\ calls' = [calls EXCEPT ![c] = Idle]
  /\ pending' = P
  /\ server' = IF c # Refresher /\ server = "up" THEN "down" ELSE server

\* A call ends, well or not, and leaves the flows P.  With a redirect, a success and all that
\* the loopback server handled close that server when no flow is left
\* (shutdownCallbackServerIfIdle).
Ends(c, via, ok, P) ==
  LET tidies == /\ kind \in {"loopback", "redirect"} /\ c # Refresher
                /\ ok \/ via = Served
  IN /\ calls' = [calls EXCEPT ![c] = Idle]
     /\ pending' = IF tidies THEN P \ Expired ELSE P
     /\ server' = IF tidies /\ P \ Expired = {} /\ server = "up" THEN "down"
                  ELSE server

\* The verifier of flow f goes with the code of login l to the vendor's token
\* endpoint.  (Uses of a flow are counted where it is taken out by its first.)
Sends(c, l, f, via) ==
  /\ calls' = [calls EXCEPT ![c] = [Idle EXCEPT !.step = "fetch", !.via = via,
                                                !.login = l, !.flow = f]]
  /\ sent' = IF kind = "device" THEN sent ELSE [sent EXCEPT ![f] = @ + 1]

\* Callbacks, pastes and polls come at any time, and any number of times.
Begins(c, l, kinds) == /\ c \in Slots /\ calls[c] = Idle
                       /\ kind \in kinds /\ auth[l] = "out"

\* Mutant: a flow is only taken out when its callback fails.
FailedFlowsOnly(c, l, via) ==
  /\ Begins(c, l, {"loopback", "redirect"})
  /\ via = Served => server = "up"
  /\ \/ l \in Live /\ Sends(c, l, l, via) /\ UNCHANGED <<pending, server>>
     \/ /\ l \notin Live \/ via = Served
        /\ Ends(c, via, FALSE, pending \ {l})
        /\ UNCHANGED sent
  /\ UNCHANGED <<kind, auth, made, expired, redeemed, rows, left, crossed>>

\* exchangeCode of the redirecting services: the flow is taken out before
\* anything is awaited.  The loopback server also hears of denials.
Callback(c, l, via) ==
  /\ Begins(c, l, {"loopback", "redirect"})
  /\ via = Served => server = "up"
  /\ \/ /\ l \in Live
        /\ Sends(c, l, l, via)
        /\ pending' = pending \ {l}
        /\ UNCHANGED server
     \/ /\ l \notin Live \/ via = Served
        /\ Ends(c, via, FALSE, pending \ {l})
        /\ UNCHANGED sent
  /\ UNCHANGED <<kind, auth, made, expired, redeemed, rows, left, crossed>>

\* exchangeCode of the pasting service: the flow is the one whose state was
\* pasted, or else the latest of the agent (findLatestForAgent) ...
Latest == LET live == SelectSeq(made, LAMBDA f : f \in Live)
          IN IF live = <<>> THEN None ELSE Last(live)

Paste(c, l, via) ==
  /\ Begins(c, l, {"paste"})
  /\ LET flow == IF via = Served THEN l ELSE Latest IN
       calls' = [calls EXCEPT ![c] =
                   IF flow = None THEN Idle
                   ELSE [Idle EXCEPT !.step = "consume", !.via = via,
                                     !.login = l, !.flow = flow]]
  /\ pending' = IF via = Served THEN pending ELSE Live
  /\ UNCHANGED <<kind, auth, made, expired, server, sent, redeemed, rows, left,
                 crossed>>

\* ... and its row is deleted and read in one statement.  (It may run out
\* before the second look at its expiry.)
Consume(c) == LET f == calls[c].flow IN
  /\ calls[c].step = "consume"
  /\ \/ /\ f \in Live
        /\ Sends(c, calls[c].login, f, calls[c].via)
        /\ pending' = pending \ {f}
        /\ UNCHANGED server
     \/ /\ Ends(c, calls[c].via, FALSE, pending \ {f})
        /\ UNCHANGED sent
  /\ UNCHANGED <<kind, auth, made, expired, redeemed, rows, left, crossed>>

\* pollAuthorization asks with the flow still stored.
Poll(c, l) ==
  /\ Begins(c, l, {"device"})
  /\ \/ l \in Live /\ Sends(c, l, l, Posted) /\ UNCHANGED <<pending, server>>
     \/ l \notin Live /\ Ends(c, Posted, FALSE, pending \ {l}) /\ UNCHANGED sent
  /\ UNCHANGED <<kind, auth, made, expired, redeemed, rows, left, crossed>>

\* The vendor (external) grants a login's code once, to the verifier it was
\* made for; it refuses, says the user has not decided yet, or its answer is
\* lost.  A poll deletes its flow on every answer but "not yet".
Answer(c) == LET job == calls[c]
                 l == job.login
                 without == IF kind = "device" THEN pending \ {l} ELSE pending IN
  /\ job.step = "fetch"
  /\ \/ /\ job.flow = l /\ l \notin redeemed
        /\ redeemed' = redeemed \cup {l}
        /\ \/ /\ calls' = [calls EXCEPT ![c] = [Idle EXCEPT !.step = "label", !.via = job.via,
                                                            !.grant = l]]
              /\ pending' = without
              /\ UNCHANGED server
           \/ Ends(c, job.via, FALSE, pending)
     \/ Ends(c, job.via, FALSE, without) /\ UNCHANGED redeemed
     \/ /\ kind = "device"
        /\ calls' = [calls EXCEPT ![c] = Idle]
        /\ UNCHANGED <<pending, server, redeemed>>
  /\ UNCHANGED <<kind, auth, made, expired, sent, rows, left, crossed>>
-------------------------------------------------------------------------------
\* Every other call that has been given its label learns which grants the rows
\* hold since (for the properties only).
Noted(new, c) == [k \in Calls |->
  IF k # c /\ calls[k].step \in Choosing
  THEN [calls[k] EXCEPT !.since = @ \cup {r.grant : r \in new \ rows}]
  ELSE calls[k]]

\* Mutant: the number is not looked up among the names taken.
FirstName(taken, n) == KeyName(n)

\* nextOAuthLabel: none while no key is connected, which makes it the default;
\* else the first free name from the number of keys plus one.
FreeName(taken, n) ==
  KeyName(CHOOSE m \in n .. n + Cardinality(taken) :
            KeyName(m) \notin taken /\ \A k \in n .. m - 1 : KeyName(k) \in taken)

NextLabel(connected) ==
  IF connected = {} THEN DefaultLabel
  ELSE FreeName({r.label : r \in connected}, Cardinality(connected) + 1)

Label(c) ==
  /\ calls[c].step = "label"
  /\ calls' = [calls EXCEPT ![c].step = "find", ![c].label = NextLabel(Active)]
  /\ UNCHANGED <<flowVars, kind, expired, rows, left>>

\* The refresh of a key persists the successor of the grant it read under the
\* key's own label (OAuthRefresh has what happens before).
Refresh(r) ==
  /\ left.refreshes > 0 /\ calls[Refresher] = Idle
  /\ calls' = [calls EXCEPT ![Refresher] =
                 [Idle EXCEPT !.step = "find", !.label = r.label, !.grant = r.grant]]
  /\ left' = [left EXCEPT !.refreshes = @ - 1]
  /\ UNCHANGED <<flowVars, kind, expired, rows>>

\* upsertProvider: the row of that label, connected or not, or a new one unless
\* there are too many ...
Find(c) == LET job == calls[c]
               full == /\ job.label # DefaultLabel \/ c = Refresher
                       /\ Cardinality(Active) >= MaxKeys IN
  /\ job.step = "find"
  /\ \/ /\ Named(job.label) # {} \/ ~full
        /\ \E r \in IF Named(job.label) = {} THEN {None} ELSE Named(job.label) :
             calls' = [calls EXCEPT ![c].step = "write", ![c].found = r]
        /\ UNCHANGED <<pending, server>>
     \/ /\ Named(job.label) = {} /\ full
        /\ Ends(c, job.via, FALSE, pending)
  /\ UNCHANGED <<kind, auth, made, expired, sent, redeemed, rows, left, crossed>>

FreshId ==
  CHOOSE n \in 0 .. Cardinality(rows) + Cardinality(Calls) : \A r \in (rows \cup {calls[c].found : c \in Calls}) \ {None} :
                      r.id # n

\* ... is written back whole, under the unique index of labels ...
Write(c) ==
  LET job == calls[c]
      row == IF job.found = None
             THEN [id |-> FreshId, label |-> job.label, active |-> TRUE, grant |-> job.grant]
             ELSE [job.found EXCEPT !.active = TRUE, !.grant = job.grant]
      new == {r \in rows : r.id # row.id} \cup {row}
      fits == \A r \in new : r.label = row.label => r = row
  IN /\ job.step = "write"
     /\ \/ /\ fits
           /\ rows' = new
           /\ calls' = [Noted(new, c) EXCEPT ![c] = [Idle EXCEPT !.step = "after",
                                                            !.via = job.via]]
           /\ UNCHANGED <<pending, server>>
        \/ ~fits /\ Ends(c, job.via, FALSE, pending) /\ UNCHANGED rows
     /\ UNCHANGED <<kind, auth, made, expired, sent, redeemed, left, crossed>>

\* ... and the agent's tiers are recalculated, which may throw.  The discovery
\* of models that follows may not.
Finish(c) ==
  /\ calls[c].step = "after"
  /\ \E ok \in BOOLEAN : Ends(c, calls[c].via, ok, pending)
  /\ UNCHANGED <<kind, auth, made, expired, sent, redeemed, rows, left, crossed>>
-------------------------------------------------------------------------------
Edits(new) ==
  /\ left.edits > 0
  /\ left' = [left EXCEPT !.edits = @ - 1]
  /\ rows' = new
  /\ calls' = Noted(new, None)
  /\ UNCHANGED <<flowVars, kind, expired>>

\* removeKeyByLabel: one of several is deleted, the last is disconnected.
RemoveKey(r) ==
  Edits(IF Active = {r} THEN {[s EXCEPT !.active = FALSE] : s \in rows}
        ELSE rows \ {r})

\* removeProvider without a label.
Disconnect == Active # {} /\ Edits({[r EXCEPT !.active = FALSE] : r \in rows})

Rename(r, l) == Named(l) = {} /\ Edits((rows \ {r}) \cup {[r EXCEPT !.label = l]})

User == \/ \E r \in Active : RemoveKey(r) \/ \E l \in Labels : Rename(r, l)
        \/ Disconnect

Next ==
  \/ \E l \in Logins : Authorize(l) \/ DeleteFlows(l) \/ InsertFlow(l)
  \/ Listen \/ Expire \/ Sweep
  \/ \E c \in Calls, l \in Logins :
        \/ \E via \in {Served, Posted} : Callback(c, l, via) \/ Paste(c, l, via)
        \/ Poll(c, l)
  \/ \E c \in Calls : \/ Consume(c) \/ Answer(c)
                      \/ Label(c) \/ Find(c) \/ Write(c) \/ Finish(c)
  \/ \E r \in rows : Refresh(r)
  \/ User

Spec == Init /\ [][Next]_vars
-------------------------------------------------------------------------------
\* What the user connected stays connected: a grant leaves the connected rows
\* only when the user removes it, or when a login or a refresh writes over a
\* row that came to hold it after that call was given its label.  So logins
\* that follow one another never overwrite each other, whatever was renamed,
\* removed or disconnected between them (nextOAuthLabel, upsertProvider).
GrantsAreKept ==
  [][\/ left'.edits < left.edits
     \/ Held \subseteq Held'
     \/ \E c \in Calls : /\ calls[c].step = "write" /\ calls'[c].step # "write"
                         /\ Held \ Held' \subseteq calls[c].since]_vars

\* The verifier of a flow that is taken out when it is used goes to the vendor
\* once, however often its callback arrives or its code is pasted.
UsedOnce == kind # "device" => \A l \in Logins : sent[l] <= 1

\* A sign-in page that was handed out can come back: while its flow is alive the
\* loopback server listens, whatever other logins began, ended or failed
\* meanwhile (shutdownCallbackServerIfIdle).
CallbackReachable ==
  kind = "loopback" => \A l \in Live : auth[l] = "out" => server = "up"

\* A code pasted without its state meets its own verifier, unless a later login
\* has begun or two were begun at the same time (create, findLatestForAgent).
OwnVerifier ==
  \A c \in Slots :
    calls[c].step = "fetch" /\ calls[c].flow # calls[c].login =>
      /\ calls[c].via = Posted
      /\ crossed \/ \E l \in Logins : l > calls[c].login /\ auth[l] # "new"
=============================================================================
