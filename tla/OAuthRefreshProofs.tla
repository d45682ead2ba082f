------------------------ MODULE OAuthRefreshProofs ------------------------
(***************************************************************************)
(* The safety properties of OAuthRefresh, for any number of requests, any  *)
(* number of persist attempts and any number of token answers.             *)
(*                                                                         *)
(* NoDeadToken is not inductive: that the blob a run works on is good      *)
(* follows from the row being good when it was read, and the row is good   *)
(* because the only run that can have rotated its token is the one that    *)
(* is still to store the successor.  Inv adds those facts.                 *)
(***************************************************************************)
EXTENDS OAuthRefresh, TLAPS

IssuedBlobs == [t : 1..issued, r : 1..issued]

\* Every blob in the system was answered by the provider.
Numbered ==
  /\ row \in IssuedBlobs \union {NoBlob}
  /\ held \in [Requests -> IssuedBlobs \union {NoBlob}]
  /\ current \in [Requests -> IssuedBlobs \union {NoBlob}]
  /\ fresh \in [Requests -> IssuedBlobs \union {NoBlob}]
  /\ spent \subseteq 1..issued

\* The stored blob is good, or a run has exchanged it and is storing its
\* successor.
RowGood ==
  row # NoBlob =>
    /\ row.t \notin spent
    /\ \/ row.r \in live \union burnt
       \/ \E r \in Requests : pc[r] = "persisting" /\ current[r].r = row.r

\* What a run read from the row is good until the run exchanges it.
ReadGood ==
  \A r \in Requests :
    pc[r] \in {"read", "exchanging"} /\ ~fallback[r] =>
      /\ current[r].r \in live \union burnt
      /\ current[r].t \notin spent

\* The blob a run stores is new and good.
FreshGood ==
  \A r \in Requests :
    pc[r] = "persisting" =>
      /\ current[r] # NoBlob /\ fresh[r] # NoBlob
      /\ fresh[r].r \in live \union burnt
      /\ fresh[r].t \notin spent \union {current[r].t}

Inv == TypeOK /\ SingleFlight /\ Numbered /\ RowGood /\ ReadGood /\ FreshGood

LEMMA InitInv == Init => Inv
<1> SUFFICES ASSUME Init PROVE Inv
  OBVIOUS
<1> USE DEF Init
<1>1. TypeOK
  <2>1. MaxTokens \in Nat /\ 0 \in 0..MaxTokens /\ 0 \in 0..PersistMax
    BY RefreshAssumption DEF RefreshAssumption
  <2> QED
    BY <2>1 DEF TypeOK, NoBlob
<1>2. SingleFlight /\ Numbered /\ RowGood /\ ReadGood /\ FreshGood
  BY DEF SingleFlight, Numbered, RowGood, ReadGood, FreshGood, Leading
<1> QED
  BY <1>1, <1>2 DEF Inv

\* When a run settles nobody leads any more, and whoever awaited it goes on
\* or ends.
LEMMA SettleEffect ==
  ASSUME Inv, NEW r \in Requests, pc[r] \in Leading, NEW t \in 0..MaxTokens, Settle(r, t)
  PROVE  /\ inFlight' = NoRequest
         /\ pc' \in [Requests -> {"idle", "holding", "waiting", "using", "done"}]
         /\ token' \in [Requests -> 0..MaxTokens]
         /\ held' \in [Requests -> IssuedBlobs \union {NoBlob}]
         /\ forced' \in [Requests -> BOOLEAN]
         /\ current' \in [Requests -> IssuedBlobs \union {NoBlob}]
         /\ fallback' \in [Requests -> BOOLEAN]
         /\ fresh' \in [Requests -> IssuedBlobs \union {NoBlob}]
         /\ attempts' \in [Requests -> 0..PersistMax]
<1> USE DEF Inv, TypeOK, Numbered
<1>1. \A q \in Requests \ {r} : pc[q] \notin Leading
  BY DEF SingleFlight
<1>2. pc' \in [Requests -> {"idle", "holding", "waiting", "using", "done"}]
  BY <1>1 DEF Settle, Leading
<1>3. token' \in [Requests -> 0..MaxTokens]
  BY DEF Settle
<1>4. held' \in [Requests -> IssuedBlobs \union {NoBlob}] /\ forced' \in [Requests -> BOOLEAN]
  BY DEF Settle, Forget
<1>5. /\ current' \in [Requests -> IssuedBlobs \union {NoBlob}]
      /\ fallback' \in [Requests -> BOOLEAN]
      /\ fresh' \in [Requests -> IssuedBlobs \union {NoBlob}]
      /\ attempts' \in [Requests -> 0..PersistMax]
  BY RefreshAssumption DEF RefreshAssumption, Settle, EndRun
<1> QED
  BY <1>2, <1>3, <1>4, <1>5 DEF Settle

\* What is left to show of a step that settles a run.
LEMMA SettleInv ==
  ASSUME Inv, NEW r \in Requests, pc[r] \in Leading, NEW t \in 0..MaxTokens, Settle(r, t),
         row' \in IssuedBlobs' \union {NoBlob}, active' \in BOOLEAN, revoking' = revoking,
         issued' \in issued..MaxTokens, live' \subseteq 1..issued', expired' = expired,
         burnt' \subseteq Tokens, spent' \subseteq 1..issued',
         row' # NoBlob => row'.t \notin spent' /\ row'.r \in live' \union burnt'
  PROVE  Inv'
<1> USE DEF Inv
<1>1. IssuedBlobs \subseteq IssuedBlobs' /\ IssuedBlobs' \subseteq Blobs
  BY RefreshAssumption DEF RefreshAssumption, TypeOK, IssuedBlobs, Blobs, Tokens
<1>2. Numbered'
  BY <1>1, SettleEffect DEF Numbered, NoBlob
<1>3. TypeOK'
  <2>1. spent' \subseteq Tokens /\ expired' \subseteq 1..issued' /\ issued' \in 0..MaxTokens
    BY RefreshAssumption DEF RefreshAssumption, TypeOK, Tokens
  <2> QED
    BY <1>1, <2>1, SettleEffect DEF TypeOK, NoBlob, Leading
<1>4. \A q \in Requests : pc'[q] \notin Leading
  BY SettleEffect DEF Leading
<1>5. SingleFlight' /\ ReadGood' /\ FreshGood'
  BY <1>4 DEF SingleFlight, ReadGood, FreshGood, Leading
<1>6. RowGood'
  BY DEF RowGood
<1> QED
  BY <1>2, <1>3, <1>5, <1>6

\* Before a run stores anything, and when none is storing, the row is good.
LEMMA RowGoodOutsideStore ==
  ASSUME Inv, row # NoBlob, \A r \in Requests : pc[r] # "persisting"
  PROVE  row.t \notin spent /\ row.r \in live \union burnt
  BY DEF Inv, RowGood

LEMMA JoinInv ==
  ASSUME Inv, NEW r \in Requests, Join(r)
  PROVE  Inv'
<1>1. UNCHANGED <<row, active, revoking, issued, live, current, fallback, fresh, attempts,
                  burnt, spent, expired, inFlight>>
  BY DEF Join, storeVars, providerVars, runVars, ghostVars
<1>2. \E l \in {"waiting", "done"} : pc' = [pc EXCEPT ![r] = l]
  BY DEF Join, Goto
<1>3. /\ held' = held \/ held' = [q \in Requests |-> IF q \in {r} THEN NoBlob ELSE held[q]]
      /\ forced' = forced \/ forced' = [q \in Requests |-> IF q \in {r} THEN FALSE ELSE forced[q]]
      /\ token' = token \/ token' = [token EXCEPT ![r] = 0]
  BY DEF Join, Forget, requestVars
<1>4. IssuedBlobs' = IssuedBlobs
  BY <1>1 DEF IssuedBlobs
<1>5. held' \in [Requests -> IssuedBlobs \union {NoBlob}]
  BY <1>3 DEF Inv, Numbered
<1>6. Numbered'
  BY <1>1, <1>4, <1>5 DEF Inv, Numbered
<1>7. TypeOK'
  <2>1. IssuedBlobs \subseteq Blobs
    BY RefreshAssumption DEF RefreshAssumption, Inv, TypeOK, IssuedBlobs, Blobs, Tokens
  <2>2. held' \in [Requests -> Blobs \union {NoBlob}]
    BY <1>5, <2>1
  <2>3. forced' \in [Requests -> BOOLEAN]
    BY <1>3 DEF Inv, TypeOK
  <2>4. token' \in [Requests -> 0..MaxTokens]
    BY <1>3, RefreshAssumption DEF RefreshAssumption, Inv, TypeOK
  <2>5. pc' \in [Requests -> {"idle", "holding", "waiting", "using", "done"} \union Leading]
    BY <1>2 DEF Inv, TypeOK
  <2> QED
    BY <1>1, <2>2, <2>3, <2>4, <2>5 DEF Inv, TypeOK
<1>8. \A q \in Requests : pc'[q] \in Leading => pc'[q] = pc[q]
  BY <1>2 DEF Inv, TypeOK, Leading
<1>9. SingleFlight' /\ ReadGood' /\ FreshGood'
  BY <1>1, <1>8 DEF Inv, SingleFlight, ReadGood, FreshGood, Leading
<1>10. RowGood'
  <2>1. \A q \in Requests : pc[q] \in Leading => pc'[q] = pc[q]
    BY <1>2 DEF Join, Inv, TypeOK, Leading
  <2> QED
    BY <1>1, <1>8, <2>1 DEF Inv, RowGood, Leading
<1> QED
  BY <1>6, <1>7, <1>9, <1>10 DEF Inv

LEMMA NextInv == Inv /\ [Next]_vars => Inv'
<1> SUFFICES ASSUME Inv, [Next]_vars PROVE Inv'
  OBVIOUS
<1> USE RefreshAssumption DEF RefreshAssumption, Inv, TypeOK, SingleFlight, Numbered, RowGood, ReadGood,
      FreshGood, Leading, IssuedBlobs, NoBlob, Blobs, Tokens, Goto,
      storeVars, providerVars, runVars, requestVars, ghostVars
<1>1. ASSUME NEW r \in Requests, Take(r) PROVE Inv'
  BY <1>1 DEF Take
<1>2. ASSUME NEW r \in Requests, UseToken(r) PROVE Inv'
  BY <1>2 DEF UseToken
<1>3. ASSUME NEW r \in Requests, Join(r) PROVE Inv'
  BY <1>3, JoinInv
<1>4. ASSUME NEW r \in Requests, Lead(r) PROVE Inv'
  BY <1>4 DEF Lead
<1>5. ASSUME NEW r \in Requests, ReadRow(r) PROVE Inv'
  BY <1>5 DEF ReadRow
<1>6. ASSUME NEW r \in Requests, ReadFails(r) PROVE Inv'
  <2>1. \A q \in Requests : pc[q] # "persisting"
    BY <1>6 DEF ReadFails
  <2> QED
    BY <1>6, <2>1, RowGoodOutsideStore, SettleInv DEF ReadFails, Reject
<1>7. ASSUME NEW r \in Requests, StillValid(r) PROVE Inv'
  <2>1. \A q \in Requests : pc[q] # "persisting"
    BY <1>7 DEF StillValid
  <2>2. current[r].t \in 0..MaxTokens
    BY <1>7
  <2> QED
    BY <1>7, <2>1, <2>2, RowGoodOutsideStore, SettleInv DEF StillValid
<1>8. ASSUME NEW r \in Requests, StartExchange(r) PROVE Inv'
  BY <1>8 DEF StartExchange
<1>9. ASSUME NEW r \in Requests, ExchangeSucceeds(r) PROVE Inv'
  <2>1. PICK rotates \in BOOLEAN :
          /\ Accepts(r, rotates)
          /\ fresh' = [fresh EXCEPT ![r] =
                         [t |-> issued', r |-> IF rotates THEN issued' ELSE current[r].r]]
          /\ pc' = [pc EXCEPT ![r] = "persisting"]
          /\ UNCHANGED <<storeVars, requestVars, ghostVars, expired, inFlight, token,
                         current, fallback, attempts>>
    BY <1>9 DEF ExchangeSucceeds
  <2>2. pc[r] = "exchanging"
    BY <2>1 DEF Accepts
  <2>3. \A q \in Requests \ {r} : pc[q] \notin Leading /\ pc'[q] = pc[q]
    BY <2>1, <2>2
  <2>4. /\ issued' = issued + 1 /\ issued' \in 1..MaxTokens
        /\ current[r].r \in 1..issued /\ current[r] \in IssuedBlobs
    BY <2>1 DEF Accepts
  <2>5. \E n \in {issued', current[r].r} :
          /\ fresh' = [fresh EXCEPT ![r] = [t |-> issued', r |-> n]]
          /\ n \in live'
          /\ live' \subseteq 1..issued'
          /\ live \subseteq live' \union {current[r].r}
    <3>1. CASE rotates
      <4>1. live' = (live \ {current[r].r}) \union {issued'}
        BY <2>1, <3>1 DEF Accepts
      <4>2. fresh' = [fresh EXCEPT ![r] = [t |-> issued', r |-> issued']]
        BY <2>1, <3>1
      <4>3. 1..issued \subseteq 1..issued' /\ issued' \in 1..issued'
        BY <2>4
      <4> QED
        BY <4>1, <4>2, <4>3
    <3>2. CASE ~rotates
      <4>1. live' = live /\ current[r].r \in live
        BY <2>1, <3>2 DEF Accepts
      <4>2. fresh' = [fresh EXCEPT ![r] = [t |-> issued', r |-> current[r].r]]
        BY <2>1, <3>2
      <4>3. 1..issued \subseteq 1..issued'
        BY <2>4
      <4> QED
        BY <4>1, <4>2, <4>3
    <3> QED
      BY <3>1, <3>2
  <2>6. IssuedBlobs \subseteq IssuedBlobs' /\ fresh'[r] \in IssuedBlobs'
    BY <2>4, <2>5
  <2>7. TypeOK'
    <3>1. IssuedBlobs' \subseteq Blobs
      BY <2>4
    <3>2. fresh' \in [Requests -> Blobs \union {NoBlob}]
      BY <2>5, <2>6, <3>1
    <3>3. pc' \in [Requests -> {"idle", "holding", "waiting", "using", "done"} \union Leading]
      BY <2>1
    <3> QED
      BY <2>1, <2>4, <2>5, <3>2, <3>3
  <2>8. Numbered'
    BY <2>1, <2>4, <2>5, <2>6
  <2>9. SingleFlight'
    BY <2>1, <2>2
  <2>10. RowGood'
    BY <2>1, <2>3, <2>5
  <2>11. ReadGood'
    BY <2>1, <2>3
  <2>12. FreshGood'
    BY <2>1, <2>3, <2>4, <2>5
  <2> QED
    BY <2>7, <2>8, <2>9, <2>10, <2>11, <2>12
<1>10. ASSUME NEW r \in Requests, AnswerLost(r) PROVE Inv'
  <2>1. /\ pc[r] = "exchanging" /\ Settle(r, 0)
        /\ current[r].r \in live /\ issued' = issued + 1 /\ issued < MaxTokens
        /\ live' = (live \ {current[r].r}) \union {issued'}
        /\ burnt' = burnt \union {current[r].r}
        /\ UNCHANGED <<storeVars, expired, spent>>
    BY <1>10 DEF AnswerLost, Accepts, Reject
  <2>2. /\ 1..issued \subseteq 1..issued' /\ issued' \in 1..issued'
        /\ 1..issued \subseteq Tokens
        /\ issued' \in issued..MaxTokens /\ 0 \in 0..MaxTokens
    BY <2>1
  <2>3. live' \subseteq 1..issued' /\ burnt' \subseteq Tokens /\ spent' \subseteq 1..issued'
    BY <2>1, <2>2
  <2>4. row' \in IssuedBlobs' \union {NoBlob}
    BY <2>1, <2>2
  <2>5. \A q \in Requests : pc[q] # "persisting"
    BY <2>1
  <2>6. row' # NoBlob => row'.t \notin spent' /\ row'.r \in live' \union burnt'
    BY <2>1, <2>5, RowGoodOutsideStore
  <2> QED
    BY <2>1, <2>2, <2>3, <2>4, <2>6, SettleInv
<1>11. ASSUME NEW r \in Requests, ExchangeFails(r) PROVE Inv'
  <2>1. \A q \in Requests : pc[q] # "persisting"
    BY <1>11 DEF ExchangeFails
  <2> QED
    BY <1>11, <2>1, RowGoodOutsideStore, SettleInv DEF ExchangeFails, Reject
<1>12. ASSUME NEW r \in Requests, PersistSucceeds(r) PROVE Inv'
  <2>1. fresh[r].t \in 0..MaxTokens
    BY <1>12
  <2> QED
    <3>1. /\ row' \in IssuedBlobs' \union {NoBlob} /\ spent' \subseteq 1..issued'
          /\ row' # NoBlob => row'.t \notin spent' /\ row'.r \in live' \union burnt'
      BY <1>12 DEF PersistSucceeds, Store
    <3> QED
      BY <1>12, <2>1, <3>1, SettleInv DEF PersistSucceeds, Store
<1>13. ASSUME NEW r \in Requests, PersistRetries(r) PROVE Inv'
  <2>1. /\ pc[r] = "persisting"
        /\ attempts' \in [Requests -> 0..PersistMax]
        /\ UNCHANGED <<providerVars, requestVars, expired, inFlight, pc, token,
                       current, fallback, fresh, revoking, burnt>>
    BY <1>13 DEF PersistRetries, Store
  <2>2. \A q \in Requests \ {r} : pc[q] \notin Leading
    BY <2>1
  <2>3. CASE UNCHANGED <<storeVars, ghostVars>>
    BY <2>1, <2>3
  <2>4. CASE Store(r)
    <3>1. /\ current[r] \in IssuedBlobs /\ fresh[r] \in IssuedBlobs
          /\ row' = fresh[r] /\ active' = TRUE
          /\ spent' = spent \union {current[r].t}
      BY <2>1, <2>4 DEF Store
    <3>2. /\ current[r].t \in 1..issued /\ 1..issued \subseteq Tokens
          /\ row' \in Blobs /\ row' \in IssuedBlobs
      BY <3>1
    <3>4. TypeOK'
      <4>1. spent' \subseteq Tokens /\ row' \in Blobs \union {NoBlob} /\ active' \in BOOLEAN
        BY <3>1, <3>2
      <4> QED
        BY <2>1, <4>1
    <3>5. SingleFlight' /\ Numbered'
      BY <2>1, <3>1, <3>2
    <3>3. RowGood' /\ ReadGood' /\ FreshGood'
      BY <2>1, <2>2, <3>1
    <3> QED
      BY <3>3, <3>4, <3>5
  <2> QED
    BY <1>13, <2>3, <2>4 DEF PersistRetries
<1>14. ASSUME NEW r \in Requests, PersistGivesUp(r) PROVE Inv'
  <2>1. CASE Store(r)
    <3>1. /\ row' \in IssuedBlobs' \union {NoBlob} /\ spent' \subseteq 1..issued'
          /\ row' # NoBlob => row'.t \notin spent' /\ row'.r \in live' \union burnt'
      <4>1. current[r] \in IssuedBlobs /\ fresh[r] \in IssuedBlobs
        BY <1>14 DEF PersistGivesUp
      <4> QED
        BY <1>14, <2>1, <4>1 DEF PersistGivesUp, Store
    <3> QED
      BY <1>14, <2>1, <3>1, SettleInv DEF PersistGivesUp, Store, Reject
  <2>2. CASE burnt' = burnt \union {current[r].r} /\ UNCHANGED <<storeVars, spent>>
    <3>1. row # NoBlob => row.t \notin spent /\ row.r \in live \union burnt'
      BY <1>14, <2>2 DEF PersistGivesUp
    <3> QED
      <4>1. burnt' \subseteq Tokens
        BY <1>14, <2>2 DEF PersistGivesUp
      <4> QED
        <5>1. /\ pc[r] \in Leading /\ Settle(r, 0) /\ UNCHANGED <<providerVars, expired>>
              /\ 0 \in 0..MaxTokens /\ issued \in issued..MaxTokens
          BY <1>14 DEF PersistGivesUp, Reject
        <5> QED
          BY <2>2, <3>1, <4>1, <5>1, SettleInv
  <2> QED
    BY <1>14, <2>1, <2>2 DEF PersistGivesUp
<1>15. ASSUME NEW r \in Requests, Answered(r) PROVE Inv'
  <2>1. /\ held' \in [Requests -> IssuedBlobs \union {NoBlob}]
        /\ forced' \in [Requests -> BOOLEAN]
        /\ token' \in [Requests -> 0..MaxTokens]
        /\ pc' \in [Requests -> {"idle", "holding", "waiting", "using", "done"} \union Leading]
    <3>1. held' \in [Requests -> IssuedBlobs \union {NoBlob}]
      BY <1>15 DEF Answered, Forget
    <3>2. forced' \in [Requests -> BOOLEAN]
      BY <1>15 DEF Answered, Forget
    <3>3. token' \in [Requests -> 0..MaxTokens]
      BY <1>15 DEF Answered
    <3>4. pc' \in [Requests -> {"idle", "holding", "waiting", "using", "done"} \union Leading]
      BY <1>15 DEF Answered
    <3> QED
      BY <3>1, <3>2, <3>3, <3>4
  <2>4. TypeOK'
    BY <1>15, <2>1 DEF Answered
  <2>5. SingleFlight'
    BY <1>15 DEF Answered
  <2>2. Numbered'
    BY <1>15, <2>1 DEF Answered
  <2>3. RowGood' /\ ReadGood' /\ FreshGood'
    BY <1>15 DEF Answered
  <2> QED
    BY <2>2, <2>3, <2>4, <2>5
<1>16. ASSUME NEW r \in Requests, Rejected401(r) PROVE Inv'
  BY <1>16 DEF Rejected401
<1>17. CASE Connect
  BY <1>17 DEF Connect
<1>18. CASE StartDisconnect
  BY <1>18 DEF StartDisconnect
<1>19. CASE Disconnect
  <2>1. \E gone \in {{}, {revoking}} :
          live' = live \ gone /\ burnt' = burnt \union gone
    BY <1>19 DEF Disconnect
  <2>2. live' \subseteq live /\ burnt' \subseteq Tokens /\ live \union burnt \subseteq live' \union burnt'
    BY <1>19, <2>1 DEF Disconnect
  <2>3. TypeOK' /\ SingleFlight' /\ Numbered'
    <3>1. /\ revoking' = 0 /\ active' = FALSE /\ row' \in {row, NoBlob}
          /\ UNCHANGED <<runVars, requestVars, expired, inFlight, pc, token, issued, spent>>
      BY <1>19 DEF Disconnect
    <3>2. live' \subseteq 1..issued /\ 0 \in 0..MaxTokens
      BY <2>2
    <3>3. TypeOK'
      BY <2>2, <3>1, <3>2
    <3> QED
      BY <3>1, <3>3
  <2>4. UNCHANGED <<runVars, expired, inFlight, pc, spent>> /\ row' \in {row, NoBlob}
    BY <1>19 DEF Disconnect
  <2>5. RowGood'
    BY <2>2, <2>4
  <2>6. ReadGood' /\ FreshGood'
    BY <2>2, <2>4
  <2> QED
    BY <2>3, <2>5, <2>6
<1>20. CASE Expire
  BY <1>20 DEF Expire
<1>21. CASE Crash
  <2>1. \A q \in Requests : pc'[q] \in {"idle", "done"}
    BY <1>21 DEF Crash
  <2>2. burnt' \subseteq Tokens
    <3>1. \A q \in Requests : pc[q] = "persisting" => current[q].r \in Tokens
      OBVIOUS
    <3>2. \A n \in burnt' :
            n \in burnt \/ \E q \in Requests : pc[q] = "persisting" /\ n = current[q].r
      BY <1>21 DEF Crash
    <3>3. SUFFICES ASSUME NEW n \in burnt', n \notin burnt PROVE n \in Tokens
      OBVIOUS
    <3>4. PICK q \in Requests : pc[q] = "persisting" /\ n = current[q].r
      BY <3>2, <3>3
    <3> QED
      BY <3>1, <3>4
  <2>3. TypeOK'
    BY <1>21, <2>2 DEF Crash, Forget
  <2>4. Numbered'
    BY <1>21 DEF Crash, Forget
  <2>5. RowGood'
    <3>1. \A r \in Requests : pc[r] = "persisting" => current[r].r \in burnt'
      BY <1>21 DEF Crash
    <3> QED
      BY <1>21, <3>1 DEF Crash
  <2>6. SingleFlight' /\ ReadGood' /\ FreshGood'
    BY <2>1
  <2> QED
    BY <2>3, <2>4, <2>5, <2>6
<1>22. CASE UNCHANGED vars
  BY <1>22 DEF vars
<1> QED
  BY <1>1, <1>2, <1>3, <1>4, <1>5, <1>6, <1>7, <1>8, <1>9, <1>10, <1>11, <1>12,
     <1>13, <1>14, <1>15, <1>16, <1>17, <1>18, <1>19, <1>20, <1>21, <1>22
  DEF Next, Unwrap, Run, Upstream

LEMMA InvariantInv == Spec => []Inv
<1> QED
  BY InitInv, NextInv, PTL DEF Spec

\* The variables keep their types.
THEOREM TypeCorrect == Spec => []TypeOK
<1>1. Inv => TypeOK
  BY DEF Inv
<1> QED
  BY <1>1, InvariantInv, PTL

\* At most one refresh of a credential is in flight.
THEOREM SingleFlightHolds == Spec => []SingleFlight
<1>1. Inv => SingleFlight
  BY DEF Inv
<1> QED
  BY <1>1, InvariantInv, PTL

\* No refresh token is presented after it was rotated and replaced.
THEOREM NoDeadTokenHolds == Spec => []NoDeadToken
<1>1. Inv => NoDeadToken
  BY DEF Inv, ReadGood, NoDeadToken
<1> QED
  BY <1>1, InvariantInv, PTL

\* Between refreshes the stored refresh token is good.
THEOREM NotBrickedHolds == Spec => []NotBricked
<1>1. Inv => NotBricked
  <2> SUFFICES ASSUME Inv, inFlight = NoRequest, row # NoBlob
               PROVE  row.r \in live \union burnt
    BY DEF NotBricked
  <2>1. \A r \in Requests : pc[r] # "persisting"
    BY RefreshAssumption DEF RefreshAssumption, Inv, SingleFlight, Leading
  <2> QED
    BY <2>1, RowGoodOutsideStore
<1> QED
  BY <1>1, InvariantInv, PTL

\* A blob whose successor is stored is never exchanged again.
THEOREM NeverRefreshedTwiceHolds == Spec => []NeverRefreshedTwice
<1>1. Inv => NeverRefreshedTwice
  BY DEF Inv, ReadGood, NeverRefreshedTwice
<1> QED
  BY <1>1, InvariantInv, PTL

---------------------------------------------------------------------------
(* OAuthRefresh implements Credential. *)

\* Numbers are given once, and a rotated token is dead.
Ordered ==
  /\ burnt \subseteq 1..issued
  /\ revoking \in 0..issued
  /\ \A r \in Requests :
       pc[r] = "persisting" => fresh[r].r = current[r].r \/ current[r].r \notin live

FullInv == Inv /\ Ordered

\* The run that leads is alone.
LEMMA NobodyElseStores ==
  ASSUME Inv, NEW r \in Requests, pc[r] \in Leading
  PROVE  \A q \in Requests \ {r} : pc[q] \notin Leading
  BY DEF Inv, SingleFlight

LEMMA SettleLeavesNoStore ==
  ASSUME Inv, NEW r \in Requests, pc[r] \in Leading, NEW t, Settle(r, t)
  PROVE  \A q \in Requests : pc'[q] # "persisting"
<1>1. \A q \in Requests \ {r} : pc[q] # "persisting"
  BY NobodyElseStores DEF Leading
<1> QED
  BY <1>1 DEF Settle, Inv, TypeOK

LEMMA OrderedInit == Init => Ordered
  BY DEF Init, Ordered

LEMMA OrderedNext == Inv /\ Inv' /\ Ordered /\ [Next]_vars => Ordered'
<1> SUFFICES ASSUME Inv, Inv', Ordered, [Next]_vars PROVE Ordered'
  OBVIOUS
<1> USE RefreshAssumption DEF RefreshAssumption, Ordered, Goto,
      storeVars, providerVars, runVars, requestVars, ghostVars
<1>0. /\ issued \in Nat /\ current \in [Requests -> IssuedBlobs \union {NoBlob}]
      /\ row \in IssuedBlobs \union {NoBlob} /\ live \subseteq 1..issued
      /\ fresh \in [Requests -> IssuedBlobs \union {NoBlob}]
      /\ pc \in [Requests -> {"idle", "holding", "waiting", "using", "done"} \union Leading]
  BY DEF Inv, TypeOK, Numbered
<1> HIDE DEF Ordered
<1>a. ASSUME burnt' = burnt, revoking' = revoking, issued' = issued, live' = live,
             \A r \in Requests : pc'[r] = "persisting" =>
               pc[r] = "persisting" /\ fresh'[r] = fresh[r] /\ current'[r] = current[r]
      PROVE  Ordered'
  BY <1>a DEF Ordered
<1>b. ASSUME burnt' \subseteq 1..issued', revoking' = revoking, issued' \in {issued, issued + 1},
             \A r \in Requests : pc'[r] # "persisting"
      PROVE  Ordered'
  BY <1>b, <1>0 DEF Ordered
<1>1. ASSUME NEW r \in Requests, Take(r) \/ UseToken(r) \/ Join(r) PROVE Ordered'
  BY <1>1, <1>0, <1>a DEF Take, UseToken, Join
<1>2. ASSUME NEW r \in Requests, Lead(r) \/ ReadRow(r) \/ StartExchange(r) PROVE Ordered'
  <2>1. /\ UNCHANGED <<storeVars, providerVars, ghostVars, fresh>>
        /\ pc' \in {[pc EXCEPT ![r] = "reading"], [pc EXCEPT ![r] = "read"],
                    [pc EXCEPT ![r] = "exchanging"]}
        /\ \A q \in Requests \ {r} : current'[q] = current[q]
    BY <1>2, <1>0 DEF Lead, ReadRow, StartExchange
  <2> QED
    BY <2>1, <1>0, <1>a
<1>3. ASSUME NEW r \in Requests, ReadFails(r) \/ StillValid(r) \/ ExchangeFails(r) PROVE Ordered'
  <2>1. /\ pc[r] \in Leading /\ \E t \in Nat : Settle(r, t)
        /\ UNCHANGED <<storeVars, providerVars, ghostVars>>
    BY <1>3, <1>0 DEF ReadFails, StillValid, ExchangeFails, Reject, Leading, IssuedBlobs, NoBlob
  <2>2. \A q \in Requests : pc'[q] # "persisting"
    BY <2>1, SettleLeavesNoStore
  <2> QED
    BY <2>1, <2>2, <1>a
<1>4. ASSUME NEW r \in Requests, ExchangeSucceeds(r) PROVE Ordered'
  <2>1. PICK rotates \in BOOLEAN :
          /\ Accepts(r, rotates)
          /\ fresh' = [fresh EXCEPT ![r] =
                         [t |-> issued', r |-> IF rotates THEN issued' ELSE current[r].r]]
          /\ pc' = [pc EXCEPT ![r] = "persisting"]
          /\ UNCHANGED <<storeVars, ghostVars, current>>
    BY <1>4 DEF ExchangeSucceeds
  <2>2. /\ pc[r] = "exchanging" /\ current[r].r \in live /\ issued' = issued + 1
        /\ live' = IF rotates THEN (live \ {current[r].r}) \union {issued'} ELSE live
    BY <2>1 DEF Accepts
  <2>3. \A q \in Requests \ {r} : pc'[q] # "persisting"
    BY <2>1, <2>2, <1>0, NobodyElseStores DEF Leading
  <2>4. burnt' \subseteq 1..issued' /\ revoking' \in 0..issued'
    <3>1. UNCHANGED <<burnt, revoking>>
      BY <2>1
    <3>2. 1..issued \subseteq 1..issued' /\ 0..issued \subseteq 0..issued'
      BY <2>2, <1>0
    <3> QED
      BY <3>1, <3>2 DEF Ordered
  <2>5. fresh'[r].r = current'[r].r \/ current'[r].r \notin live'
    <3>1. current[r].r # issued'
      BY <2>2, <1>0
    <3>2. CASE rotates
      BY <2>1, <2>2, <3>1, <3>2
    <3>3. CASE ~rotates
      BY <2>1, <3>3, <1>0
    <3> QED
      BY <3>2, <3>3
  <2>6. \A q \in Requests :
          pc'[q] = "persisting" => fresh'[q].r = current'[q].r \/ current'[q].r \notin live'
    BY <2>3, <2>5
  <2> QED
    BY <2>4, <2>6 DEF Ordered
<1>5. ASSUME NEW r \in Requests, AnswerLost(r) PROVE Ordered'
  <2>1. /\ pc[r] \in Leading /\ Settle(r, 0) /\ revoking' = revoking
        /\ current[r].r \in live /\ issued' = issued + 1 /\ burnt' = burnt \union {current[r].r}
    BY <1>5 DEF AnswerLost, Accepts, Reject, Leading
  <2>2. burnt' \subseteq 1..issued'
    <3>1. current[r].r \in 1..issued
      BY <2>1, <1>0
    <3>2. issued' = issued + 1
      BY <2>1
    <3>3. 1..issued \subseteq 1..issued'
      BY <3>2, <1>0
    <3> QED
      BY <2>1, <3>1, <3>3 DEF Ordered
  <2> QED
    BY <2>1, <2>2, <1>b, SettleLeavesNoStore
<1>6. ASSUME NEW r \in Requests, PersistSucceeds(r) PROVE Ordered'
  <2>1. /\ pc[r] \in Leading /\ Settle(r, fresh[r].t)
        /\ UNCHANGED <<revoking, burnt, providerVars>>
    BY <1>6 DEF PersistSucceeds, Store, Leading
  <2> QED
    BY <2>1, <1>a, SettleLeavesNoStore
<1>7. ASSUME NEW r \in Requests, PersistRetries(r) PROVE Ordered'
  BY <1>7, <1>a DEF PersistRetries, Store
<1>8. ASSUME NEW r \in Requests, PersistGivesUp(r) PROVE Ordered'
  <2>1. /\ pc[r] = "persisting" /\ Settle(r, 0) /\ UNCHANGED <<revoking, providerVars>>
        /\ burnt' \in {burnt, burnt \union {current[r].r}}
    BY <1>8 DEF PersistGivesUp, Store, Reject
  <2>2. current[r].r \in 1..issued
    BY <2>1, <1>0 DEF Inv, FreshGood, IssuedBlobs
  <2>3. burnt' \subseteq 1..issued'
    BY <2>1, <2>2 DEF Ordered
  <2> QED
    BY <2>1, <2>3, <1>b, SettleLeavesNoStore DEF Leading
<1>9. ASSUME NEW r \in Requests, Answered(r) \/ Rejected401(r) PROVE Ordered'
  BY <1>9, <1>0, <1>a DEF Answered, Rejected401
<1>10. CASE Connect
  <2>1. /\ issued' = issued + 1 /\ live' = live \union {issued'}
        /\ UNCHANGED <<burnt, revoking, pc, current, fresh>>
    BY <1>10 DEF Connect
  <2>2. \A r \in Requests : current[r].r # issued'
    BY <2>1, <1>0 DEF IssuedBlobs, NoBlob
  <2>3. burnt' \subseteq 1..issued' /\ revoking' \in 0..issued'
    BY <2>1, <1>0 DEF Ordered
  <2> QED
    BY <2>1, <2>2, <2>3 DEF Ordered
<1>11. CASE StartDisconnect
  <2>1. revoking' = row.r /\ UNCHANGED <<burnt, issued, live, pc, current, fresh>>
    BY <1>11 DEF StartDisconnect
  <2>2. row.r \in 0..issued
    BY <1>0 DEF IssuedBlobs, NoBlob
  <2> QED
    BY <2>1, <2>2 DEF Ordered
<1>12. CASE Disconnect
  <2>1. /\ revoking # 0 /\ revoking' = 0 /\ live' \subseteq live
        /\ burnt' \subseteq burnt \union {revoking}
        /\ UNCHANGED <<issued, pc, current, fresh>>
    BY <1>12 DEF Disconnect
  <2>2. revoking \in 1..issued /\ revoking' \in 0..issued' /\ burnt' \subseteq 1..issued'
    BY <2>1, <1>0 DEF Ordered
  <2> QED
    BY <2>1, <2>2 DEF Ordered
<1>13. CASE Expire
  BY <1>13, <1>a DEF Expire
<1>14. CASE Crash
  <2>1. /\ \A r \in Requests : pc'[r] # "persisting"
        /\ UNCHANGED <<revoking, issued>>
    BY <1>14, <1>0 DEF Crash
  <2>2. burnt' \subseteq 1..issued
    <3>1. \A q \in Requests : pc[q] = "persisting" => current[q].r \in 1..issued
      BY <1>0 DEF Inv, FreshGood, IssuedBlobs
    <3>2. \A n \in burnt' :
            n \in burnt \/ \E q \in Requests : pc[q] = "persisting" /\ n = current[q].r
      BY <1>14 DEF Crash
    <3> QED
      BY <3>1, <3>2 DEF Ordered
  <2> QED
    BY <2>1, <2>2, <1>b
<1>15. CASE UNCHANGED vars
  BY <1>15, <1>a DEF vars
<1> QED
  BY <1>1, <1>2, <1>3, <1>4, <1>5, <1>6, <1>7, <1>8, <1>9, <1>10, <1>11, <1>12, <1>13, <1>14, <1>15
  DEF Next, Unwrap, Run, Upstream

LEMMA FullInvariant == Spec => []FullInv
<1>1. Init => FullInv
  BY InitInv, OrderedInit DEF FullInv
<1>2. FullInv /\ [Next]_vars => FullInv'
  BY NextInv, OrderedNext DEF FullInv
<1> QED
  BY <1>1, <1>2, PTL DEF Spec

\* Nothing is lost without an excuse.
LEMMA LostIsExcused ==
  ASSUME Inv, Stored = "lost" PROVE row.r \in burnt
  BY DEF Inv, Stored, Rotated, RowGood, FreshGood

LEMMA WorthIsNamed == Stored \in {"absent", "good", "rotated", "lost"}
  BY DEF Stored

\* What leaves the row, the provider and the storing runs alone changes
\* nothing of the promise.
LEMMA SameWorth ==
  ASSUME row' = row, active' = active, live' = live, burnt' = burnt,
         \A r \in Requests :
           /\ (pc'[r] = "persisting") = (pc[r] = "persisting")
           /\ pc[r] = "persisting" => current'[r] = current[r] /\ fresh'[r] = fresh[r]
  PROVE  UNCHANGED Promise!vars
<1>1. Rotated(row.r)' = Rotated(row.r)
  BY DEF Rotated
<1>2. Stored' = Stored
  BY <1>1 DEF Stored
<1> QED
  BY <1>2 DEF Promise!vars

\* A mishap, or a loss that befell a token that is no longer stored.
LEMMA WorthOfLoss ==
  ASSUME FullInv, FullInv', row' = row, active' = active, row.r \in live' => row.r \in live,
         burnt \subseteq burnt',
         \A r \in Requests : pc'[r] # "persisting",
         row.r \in live \ live' => row.r \in burnt'
  PROVE  Promise!Mishap \/ UNCHANGED Promise!vars
<1>1. CASE row = NoBlob
  <2>1. 0 \notin burnt /\ 0 \notin burnt' /\ row.r = 0
    BY <1>1 DEF FullInv, Ordered, NoBlob
  <2> QED
    BY <1>1, <2>1 DEF Promise!vars, Stored
<1>2. CASE row # NoBlob /\ row.r \in live'
  <2>1. Stored = "good" /\ Stored' = "good"
    BY <1>2 DEF Stored
  <2>2. (row.r \in burnt)' = (row.r \in burnt) \/ (row.r \in burnt)'
    OBVIOUS
  <2> QED
    BY <2>1, <2>2 DEF Promise!vars, Promise!Mishap, Promise!NoWorse
<1>3. CASE row # NoBlob /\ row.r \notin live'
  <2>1. Stored' = "lost"
    BY <1>3 DEF Stored, Rotated
  <2>2. (row.r \in burnt)'
    BY <2>1, LostIsExcused DEF FullInv, Inv, Stored, Rotated, RowGood, FreshGood
  <2>3. Stored # "absent"
    BY <1>3 DEF Stored
  <2> QED
    BY <2>1, <2>2, <2>3 DEF Promise!Mishap, Promise!NoWorse
<1> QED
  BY <1>1, <1>2, <1>3

\* Whatever a store leaves is good, or revoked already.
LEMMA WorthOfStore ==
  ASSUME Inv, FullInv', NEW r \in Requests, pc[r] = "persisting", Store(r),
         \A q \in Requests :
           pc'[q] = "persisting" => q = r /\ fresh'[r] = fresh[r]
  PROVE  Promise!Save
<1>1. row' # NoBlob /\ active' = TRUE /\ row' = fresh[r]
  BY DEF Store, Inv, FreshGood
<1>2. ~Rotated(row.r)'
  BY <1>1 DEF Rotated
<1>3. Stored' = "good" \/ Stored' = "lost"
  BY <1>1, <1>2 DEF Stored
<1>4. Stored' = "lost" => (row.r \in burnt)'
  BY <1>1, <1>2 DEF FullInv, Inv, RowGood, FreshGood, Stored, Rotated
<1> QED
  BY <1>1, <1>3, <1>4 DEF Promise!Save, Promise!NoWorse

LEMMA InitImplements == Init => Promise!Init
  BY DEF Init, Promise!Init, Stored, NoBlob

LEMMA NextImplements ==
  FullInv /\ FullInv' /\ [Next]_vars => [Promise!Next]_Promise!vars
<1> SUFFICES ASSUME FullInv, FullInv', [Next]_vars
             PROVE  Promise!Next \/ UNCHANGED Promise!vars
  OBVIOUS
<1> USE DEF Goto, storeVars, providerVars, runVars, requestVars, ghostVars
<1>0. /\ Inv /\ issued \in Nat
      /\ current \in [Requests -> IssuedBlobs \union {NoBlob}]
      /\ fresh \in [Requests -> IssuedBlobs \union {NoBlob}]
      /\ row \in IssuedBlobs \union {NoBlob} /\ live \subseteq 1..issued
      /\ pc \in [Requests -> {"idle", "holding", "waiting", "using", "done"} \union Leading]
  BY RefreshAssumption DEF RefreshAssumption, FullInv, Inv, TypeOK, Numbered
<1>r. row.r \in 0..issued /\ issued + 1 # row.r
  BY <1>0 DEF IssuedBlobs, NoBlob
<1>1. ASSUME NEW r \in Requests, Take(r) \/ UseToken(r) \/ Join(r) PROVE UNCHANGED Promise!vars
  BY <1>1, <1>0, SameWorth DEF Take, UseToken, Join
<1>2. ASSUME NEW r \in Requests, Lead(r) \/ ReadRow(r) \/ StartExchange(r)
      PROVE  UNCHANGED Promise!vars
  <2>1. /\ UNCHANGED <<storeVars, providerVars, ghostVars, fresh>>
        /\ pc' \in {[pc EXCEPT ![r] = "reading"], [pc EXCEPT ![r] = "read"],
                    [pc EXCEPT ![r] = "exchanging"]}
        /\ pc[r] # "persisting"
        /\ \A q \in Requests \ {r} : current'[q] = current[q]
    BY <1>2, <1>0 DEF Lead, ReadRow, StartExchange
  <2> QED
    BY <2>1, <1>0, SameWorth
<1>3. ASSUME NEW r \in Requests, ReadFails(r) \/ StillValid(r) \/ ExchangeFails(r)
      PROVE  UNCHANGED Promise!vars
  <2>1. /\ pc[r] \in Leading /\ pc[r] # "persisting" /\ \E t \in Nat : Settle(r, t)
        /\ UNCHANGED <<storeVars, providerVars, ghostVars>>
    BY <1>3, <1>0 DEF ReadFails, StillValid, ExchangeFails, Reject, Leading, IssuedBlobs, NoBlob
  <2>2. \A q \in Requests : pc'[q] # "persisting" /\ pc[q] # "persisting"
    BY <2>1, <1>0, SettleLeavesNoStore, NobodyElseStores DEF Leading
  <2> QED
    BY <2>1, <2>2, SameWorth
<1>4. ASSUME NEW r \in Requests, ExchangeSucceeds(r)
      PROVE  Promise!Rotate \/ UNCHANGED Promise!vars
  <2>1. PICK rotates \in BOOLEAN :
          /\ Accepts(r, rotates)
          /\ fresh' = [fresh EXCEPT ![r] =
                         [t |-> issued', r |-> IF rotates THEN issued' ELSE current[r].r]]
          /\ pc' = [pc EXCEPT ![r] = "persisting"]
          /\ UNCHANGED <<storeVars, ghostVars, current>>
    BY <1>4 DEF ExchangeSucceeds
  <2>2. /\ pc[r] = "exchanging" /\ current[r].r \in live /\ issued' = issued + 1
        /\ live' = IF rotates THEN (live \ {current[r].r}) \union {issued'} ELSE live
    BY <2>1 DEF Accepts
  <2>3. \A q \in Requests : pc[q] # "persisting"
    BY <2>2, <1>0, NobodyElseStores DEF Leading
  <2>4. CASE row # NoBlob /\ row.r \in live /\ row.r \notin live'
    <3>1. rotates /\ current[r].r = row.r /\ fresh'[r].r # row.r
      BY <2>1, <2>2, <2>4, <1>0, <1>r
    <3>2. Rotated(row.r)'
      <4>1. pc'[r] = "persisting" /\ current'[r].r = row'.r /\ fresh'[r].r # row'.r
        BY <3>1, <2>1, <1>0
      <4> QED
        BY <4>1 DEF Rotated
    <3>3. Stored = "good" /\ Stored' = "rotated"
      BY <2>1, <2>4, <3>2 DEF Stored
    <3> QED
      BY <2>1, <3>3 DEF Promise!Rotate
  <2>5. CASE row = NoBlob \/ (row.r \in live /\ row.r \in live')
    BY <2>1, <2>5 DEF Stored, Promise!vars
  <2>6. CASE row # NoBlob /\ row.r \notin live
    <3>1. row.r \notin live'
      BY <2>2, <2>6, <1>r
    <3>2. ~Rotated(row.r) /\ ~Rotated(row.r)'
      BY <2>1, <2>2, <2>3, <2>6, <1>0 DEF Rotated
    <3> QED
      BY <2>1, <2>6, <3>1, <3>2 DEF Stored, Promise!vars
  <2> QED
    BY <2>4, <2>5, <2>6
<1>5. ASSUME NEW r \in Requests, AnswerLost(r) PROVE Promise!Mishap \/ UNCHANGED Promise!vars
  <2>1. /\ pc[r] = "exchanging" /\ Settle(r, 0) /\ row' = row /\ active' = active
        /\ live' = (live \ {current[r].r}) \union {issued'} /\ issued' = issued + 1
        /\ burnt' = burnt \union {current[r].r}
    BY <1>5 DEF AnswerLost, Accepts, Reject
  <2>2. \A q \in Requests : pc'[q] # "persisting"
    BY <2>1, <1>0, SettleLeavesNoStore DEF Leading
  <2> QED
    BY <2>1, <2>2, <1>r, WorthOfLoss
<1>6. ASSUME NEW r \in Requests, PersistSucceeds(r) PROVE Promise!Save
  <2>1. pc[r] = "persisting" /\ Store(r) /\ Settle(r, fresh[r].t)
    BY <1>6 DEF PersistSucceeds
  <2>2. \A q \in Requests : pc'[q] # "persisting"
    BY <2>1, <1>0, SettleLeavesNoStore DEF Leading
  <2> QED
    BY <2>1, <2>2, <1>0, WorthOfStore
<1>7. ASSUME NEW r \in Requests, PersistRetries(r) PROVE Promise!Save \/ UNCHANGED Promise!vars
  <2>1. /\ pc[r] = "persisting"
        /\ UNCHANGED <<providerVars, pc, current, fresh>>
        /\ Store(r) \/ UNCHANGED <<storeVars, ghostVars>>
    BY <1>7 DEF PersistRetries
  <2>2. \A q \in Requests : pc[q] = "persisting" => q = r
    BY <2>1, <1>0, NobodyElseStores DEF Leading
  <2>3. CASE Store(r)
    BY <2>1, <2>2, <2>3, <1>0, WorthOfStore
  <2>4. CASE UNCHANGED <<storeVars, ghostVars>>
    BY <2>1, <2>4, SameWorth
  <2> QED
    BY <2>1, <2>3, <2>4
<1>8. ASSUME NEW r \in Requests, PersistGivesUp(r)
      PROVE  Promise!Save \/ Promise!Mishap \/ UNCHANGED Promise!vars
  <2>1. /\ pc[r] = "persisting" /\ Settle(r, 0) /\ UNCHANGED providerVars
        /\ \/ Store(r)
           \/ burnt' = burnt \union {current[r].r} /\ UNCHANGED storeVars
    BY <1>8 DEF PersistGivesUp, Reject
  <2>2. \A q \in Requests : pc'[q] # "persisting"
    BY <2>1, <1>0, SettleLeavesNoStore DEF Leading
  <2>3. CASE Store(r)
    BY <2>1, <2>2, <2>3, <1>0, WorthOfStore
  <2>4. CASE burnt' = burnt \union {current[r].r} /\ UNCHANGED storeVars
    BY <2>1, <2>2, <2>4, WorthOfLoss
  <2> QED
    BY <2>1, <2>3, <2>4
<1>9. ASSUME NEW r \in Requests, Answered(r) \/ Rejected401(r) PROVE UNCHANGED Promise!vars
  BY <1>9, <1>0, SameWorth DEF Answered, Rejected401
<1>10. CASE Connect
  <2>1. /\ ~active /\ active' = TRUE /\ row' = [t |-> issued', r |-> issued']
        /\ issued' = issued + 1 /\ live' = live \union {issued'} /\ burnt' = burnt
    BY <1>10 DEF Connect
  <2>2. row' # NoBlob /\ row'.r \in live' /\ row'.r \notin burnt'
    BY <2>1, <1>0 DEF NoBlob, FullInv, Ordered
  <2>3. Stored' = "good"
    BY <2>2 DEF Stored
  <2> QED
    BY <2>1, <2>2, <2>3 DEF Promise!Next, Promise!Connect
<1>11. CASE StartDisconnect
  BY <1>11, SameWorth DEF StartDisconnect
<1>12. CASE Disconnect
  <2>1. /\ active' = FALSE /\ row' \in {row, NoBlob} /\ live' \subseteq live
        /\ burnt \subseteq burnt' /\ live \ live' \subseteq burnt'
        /\ UNCHANGED <<pc, current, fresh>>
    BY <1>12 DEF Disconnect
  <2>2. CASE row' = NoBlob
    <3>1. Stored' = "absent" /\ ~(row.r \in burnt)'
      BY <2>2 DEF Stored, NoBlob, FullInv, Ordered
    <3> QED
      BY <2>1, <3>1 DEF Promise!Next, Promise!Disconnect
  <2>3. CASE row' = row /\ row # NoBlob
    <3>1. Stored' = Stored \/ (Stored' = "lost" /\ (row.r \in burnt)')
      <4>1. Rotated(row.r)' = Rotated(row.r)
        BY <2>1, <2>3 DEF Rotated
      <4>2. CASE row.r \in live'
        BY <2>1, <2>3, <4>2 DEF Stored
      <4>3. CASE row.r \in live \ live'
        <5>1. ~Rotated(row.r)
          BY <4>3 DEF FullInv, Ordered, Rotated
        <5> QED
          BY <2>1, <2>3, <4>1, <4>3, <5>1 DEF Stored
      <4>4. CASE row.r \notin live
        BY <2>1, <2>3, <4>1, <4>4 DEF Stored
      <4> QED
        BY <2>1, <4>2, <4>3, <4>4
    <3>2. row.r \in burnt => (row.r \in burnt)'
      BY <2>1, <2>3
    <3> QED
      BY <2>1, <3>1, <3>2 DEF Promise!Next, Promise!Disconnect, Promise!NoWorse
  <2> QED
    BY <2>1, <2>2, <2>3 DEF Promise!Next
<1>13. CASE Expire
  BY <1>13, SameWorth DEF Expire
<1>14. CASE Crash
  <2>1. /\ \A r \in Requests : pc'[r] # "persisting"
        /\ UNCHANGED <<storeVars, providerVars>> /\ burnt \subseteq burnt'
    BY <1>14, <1>0 DEF Crash
  <2>2. live' \subseteq live
    BY <2>1
  <2> QED
    BY <2>1, <2>2, WorthOfLoss DEF Promise!Next
<1>15. CASE UNCHANGED vars
  BY <1>15, SameWorth DEF vars
<1> QED
  BY <1>1, <1>2, <1>3, <1>4, <1>5, <1>6, <1>7, <1>8, <1>9, <1>10, <1>11, <1>12, <1>13, <1>14, <1>15
  DEF Next, Unwrap, Run, Upstream, Promise!Next

\* The coordinator implements the safety of Credential: whatever the requests,
\* the user, the provider and restarts do, each step of it is a step the
\* promise allows or leaves the promise's state alone.
THEOREM CredentialImplemented == Spec => ImplementsCredential
<1>1. FullInv /\ [Next]_vars => FullInv'
  BY NextInv, OrderedNext DEF FullInv
<1>2. FullInv /\ [Next]_vars => [Promise!Next]_Promise!vars
  BY <1>1, NextImplements
<1> QED
  BY InitImplements, FullInvariant, <1>2, PTL DEF Spec, ImplementsCredential, Promise!Spec
---------------------------------------------------------------------------
(* Why requests end.  Fairness is beyond the prover; what it has to add to *)
(* these facts is that promises settle.                                    *)

\* The entry of the map is a run under way, and who waits, waits for that.
MapTells ==
  /\ inFlight # NoRequest => pc[inFlight] \in Leading
  /\ \A r \in Requests : pc[r] = "waiting" => inFlight # NoRequest

\* The request whose steps r waits for, its own unless it has joined a run.
Awaited(r) == IF pc[r] = "waiting" THEN inFlight ELSE r

\* The awaits that are left of the run of q, at most.
RunLeft(q) ==
  CASE pc[q] = "reading" -> PersistMax + 4
    [] pc[q] = "read" -> PersistMax + 3
    [] pc[q] = "exchanging" -> PersistMax + 2
    [] OTHER -> PersistMax + 1 - attempts[q]

\* And of a request, which may be refused once and unwrap its blob again.
Again(r) == IF forced[r] THEN 0 ELSE PersistMax + 6

Left(r) ==
  CASE pc[r] \in {"idle", "done"} -> 0
    [] pc[r] = "using" -> Again(r) + 1
    [] pc[r] = "holding" -> Again(r) + PersistMax + 6
    [] OTHER -> Again(r) + 1 + RunLeft(Awaited(r))

Nearer(q) ==
  \A r \in Requests : pc[r] # "idle" =>
    /\ Left(r)' <= Left(r)
    /\ Awaited(r) = q => Left(r)' < Left(r)

LEMMA RunLeftIs ==
  ASSUME TypeOK, NEW q \in Requests, pc[q] \in Leading
  PROVE  /\ RunLeft(q) \in 1..PersistMax + 4
         /\ pc[q] = "reading" => RunLeft(q) = PersistMax + 4
         /\ pc[q] = "read" => RunLeft(q) = PersistMax + 3
         /\ pc[q] = "exchanging" => RunLeft(q) = PersistMax + 2
         /\ pc[q] = "persisting" => RunLeft(q) = PersistMax + 1 - attempts[q]
<1>1. PersistMax \in Nat BY RefreshAssumption
<1>2. attempts[q] \in 0..PersistMax BY DEF TypeOK
<1> QED BY <1>1, <1>2 DEF RunLeft, Leading

LEMMA LeftIs ==
  ASSUME TypeOK, MapTells, NEW r \in Requests
  PROVE  /\ Left(r) \in Nat /\ Again(r) \in Nat
         /\ pc[r] \in {"idle", "done"} <=> Left(r) = 0
         /\ pc[r] = "using" => Left(r) = Again(r) + 1
         /\ pc[r] = "holding" => Left(r) = Again(r) + PersistMax + 6
         /\ pc[r] \in Leading => Left(r) = Again(r) + 1 + RunLeft(r) /\ Awaited(r) = r
         /\ pc[r] = "waiting" => /\ inFlight \in Requests /\ pc[inFlight] \in Leading
                                 /\ Left(r) = Again(r) + 1 + RunLeft(inFlight)
<1>1. PersistMax \in Nat /\ Again(r) \in Nat BY RefreshAssumption DEF Again
<1>2. CASE pc[r] \in {"idle", "done", "using", "holding"}
  BY <1>1, <1>2 DEF Left, Leading
<1>3. CASE pc[r] \in Leading
  <2>1. Awaited(r) = r /\ RunLeft(r) \in 1..PersistMax + 4
    BY <1>3, RunLeftIs DEF Awaited, Leading
  <2>2. Left(r) = Again(r) + 1 + RunLeft(r) BY <1>3, <2>1 DEF Left, Leading
  <2> QED BY <1>1, <1>3, <2>1, <2>2 DEF Leading
<1>4. CASE pc[r] = "waiting"
  <2>1. Awaited(r) = inFlight /\ inFlight \in Requests /\ pc[inFlight] \in Leading
    BY <1>4 DEF Awaited, MapTells, TypeOK
  <2>2. RunLeft(inFlight) \in 1..PersistMax + 4 BY <2>1, RunLeftIs
  <2>3. Left(r) = Again(r) + 1 + RunLeft(inFlight) BY <1>4, <2>1 DEF Left
  <2> QED BY <1>1, <1>4, <2>1, <2>2, <2>3 DEF Leading
<1> QED BY <1>2, <1>3, <1>4 DEF TypeOK

\* A run that settles answers the requests that await it.
LEMMA SettleNearer ==
  ASSUME Inv, MapTells, NEW q \in Requests, pc[q] \in Leading, NEW t, Settle(q, t), Inv'
  PROVE  MapTells' /\ Nearer(q)
<1> DEFINE answered == {q} \union {p \in Requests : pc[p] = "waiting"}
           ended == {p \in answered : t \in {0, token[p]}}
<1>1. /\ inFlight' = NoRequest
      /\ pc' = [p \in Requests |-> IF p \in ended THEN "done"
                                   ELSE IF p \in answered THEN "using" ELSE pc[p]]
      /\ forced' = [p \in Requests |-> IF p \in ended THEN FALSE ELSE forced[p]]
  BY DEF Settle, Forget
<1>2. inFlight = q BY DEF Inv, SingleFlight
<1>3. TypeOK /\ TypeOK' BY DEF Inv
<1>4. MapTells' BY <1>1 DEF MapTells
<1>5. ASSUME NEW r \in Requests, pc[r] # "idle"
      PROVE  Left(r)' <= Left(r) /\ (Awaited(r) = q => Left(r)' < Left(r))
  <2>1. CASE r \in ended
    <3>1. pc'[r] = "done" BY <1>1, <2>1
    <3>2. Left(r)' = 0 BY <3>1 DEF Left
    <3>3. Left(r) \in Nat /\ Left(r) # 0 BY <1>3, <2>1, LeftIs DEF Leading
    <3> QED BY <3>2, <3>3
  <2>2. CASE r \in answered \ ended
    <3>1. pc'[r] = "using" /\ Again(r)' = Again(r) BY <1>1, <2>2 DEF Again
    <3>2. Left(r)' = Again(r) + 1 BY <3>1 DEF Left
    <3>3. Left(r) = Again(r) + 1 + RunLeft(q) /\ Again(r) \in Nat
      BY <1>2, <1>3, <2>2, LeftIs DEF Leading
    <3>4. RunLeft(q) \in 1..PersistMax + 4 BY <1>3, RunLeftIs
    <3>5. PersistMax \in Nat BY RefreshAssumption
    <3> QED BY <3>2, <3>3, <3>4, <3>5
  <2>3. CASE r \notin answered
    <3>1. pc'[r] = pc[r] /\ Again(r)' = Again(r) BY <1>1, <2>3 DEF Again
    <3>2. pc[r] \notin Leading /\ pc[r] # "waiting" BY <1>2, <2>3 DEF Inv, SingleFlight
    <3>3. Awaited(r) # q BY <2>3, <3>2 DEF Awaited
    <3>4. Left(r)' = Left(r)
      <4>1. pc[r] \in {"idle", "done", "using", "holding"} BY <1>3, <3>2 DEF TypeOK, Leading
      <4> QED BY <3>1, <4>1 DEF Left
    <3>5. Left(r) \in Nat BY <1>3, LeftIs
    <3> QED BY <3>3, <3>4, <3>5
  <2> QED BY <2>1, <2>2, <2>3
<1> QED BY <1>4, <1>5 DEF Nearer

\* A step of q alone brings q nearer to its end, and those who wait for its run.
LEMMA OneNearer ==
  ASSUME TypeOK, TypeOK', MapTells, MapTells', NEW q \in Requests, pc[q] # "idle",
         \A r \in Requests \ {q} : pc'[r] = pc[r] /\ forced'[r] = forced[r]
                                   /\ attempts'[r] = attempts[r],
         Left(q)' \in Nat, Left(q)' < Left(q),
         \/ inFlight' = inFlight
         \/ inFlight = NoRequest,
         pc[q] \in Leading => RunLeft(q)' \in Nat /\ RunLeft(q)' <= RunLeft(q) - 1
  PROVE  Nearer(q)
<1>1. ASSUME NEW r \in Requests \ {q}, pc[r] # "idle"
      PROVE  Left(r)' <= Left(r) /\ (Awaited(r) = q => Left(r)' < Left(r))
  <2>1. pc'[r] = pc[r] /\ Again(r)' = Again(r) BY <1>1 DEF Again
  <2>2. Left(r) \in Nat BY LeftIs
  <2>3. CASE pc[r] = "waiting"
    <3>1. /\ inFlight' = inFlight /\ inFlight \in Requests /\ pc[inFlight] \in Leading
          /\ Left(r) = Again(r) + 1 + RunLeft(inFlight) /\ Awaited(r) = inFlight
          /\ Again(r) \in Nat
      BY <2>3, LeftIs DEF MapTells, Awaited
    <3>2. Left(r)' = Again(r) + 1 + RunLeft(inFlight)'
      <4>1. Awaited(r)' = inFlight BY <2>1, <2>3, <3>1 DEF Awaited
      <4> QED BY <2>1, <2>3, <3>1, <4>1 DEF Left, Awaited, RunLeft
    <3>3. PersistMax \in Nat /\ RunLeft(inFlight) \in 1..PersistMax + 4
      BY <3>1, RunLeftIs, RefreshAssumption
    <3>4. CASE inFlight = q
      <4>1. RunLeft(q)' \in Nat /\ RunLeft(q)' <= RunLeft(q) - 1 BY <3>1, <3>4
      <4>2. Left(r) = Again(r) + 1 + RunLeft(q) BY <3>1, <3>4
      <4>3. Left(r)' = Again(r) + 1 + RunLeft(q)'
        <5>1. RunLeft(inFlight)' = RunLeft(q)' BY <3>1, <3>4
        <5> QED BY <3>2, <5>1
      <4>4. RunLeft(q) \in Nat BY <3>3, <3>4
      <4> QED BY <3>1, <4>1, <4>2, <4>3, <4>4
    <3>5. CASE inFlight # q
      <4>1. RunLeft(inFlight)' = RunLeft(inFlight) BY <3>1, <3>5 DEF RunLeft
      <4> QED BY <2>2, <3>1, <3>2, <3>5, <4>1
    <3> QED BY <3>4, <3>5
  <2>4. CASE pc[r] # "waiting"
    <3>1. Awaited(r) = r /\ Awaited(r)' = r BY <2>1, <2>4 DEF Awaited
    <3>2. RunLeft(r)' = RunLeft(r) BY <1>1, <2>1 DEF RunLeft
    <3>3. Left(r)' = Left(r) BY <2>1, <3>1, <3>2 DEF Left
    <3> QED BY <1>1, <2>2, <3>1, <3>3
  <2> QED BY <2>3, <2>4
<1>2. Left(q)' <= Left(q)
  <2>1. Left(q) \in Nat BY LeftIs
  <2> QED BY <2>1
<1> QED BY <1>1, <1>2 DEF Nearer

\* The steps of a request and of its run.
Step(q) == Unwrap(q) \/ Run(q) \/ Upstream(q)

LEMMA StepNearer ==
  ASSUME Inv, Inv', MapTells, NEW q \in Requests, Step(q)
  PROVE  MapTells' /\ Nearer(q)
<1>1. TypeOK /\ TypeOK' BY DEF Inv
<1>2. PersistMax \in Nat BY RefreshAssumption
<1>3. Left(q) \in Nat /\ Again(q) \in Nat BY <1>1, LeftIs
<1>4. ASSUME NEW t, pc[q] \in Leading, Settle(q, t) PROVE MapTells' /\ Nearer(q)
  BY <1>4, SettleNearer
<1>5. pc \in [Requests -> {"idle", "holding", "waiting", "using", "done"} \union Leading]
  BY <1>1 DEF TypeOK
<1>6. CASE UseToken(q)
  <2>1. /\ pc[q] = "holding" /\ pc' = [pc EXCEPT ![q] = "using"]
        /\ UNCHANGED <<inFlight, forced, attempts>>
    BY <1>6 DEF UseToken, Goto, runVars, requestVars
  <2>2. MapTells' BY <1>5, <2>1 DEF MapTells, Leading
  <2>3. Left(q)' = Again(q) + 1
    <3>1. pc'[q] = "using" /\ Again(q)' = Again(q) BY <1>5, <2>1 DEF Again
    <3> QED BY <3>1 DEF Left
  <2>4. Left(q) = Again(q) + PersistMax + 6 BY <1>1, <2>1, LeftIs
  <2> QED BY <1>1, <1>2, <1>3, <1>5, <2>1, <2>2, <2>3, <2>4, OneNearer DEF Leading
<1>7. CASE Join(q)
  <2>1. /\ pc[q] = "holding" /\ pc' = [pc EXCEPT ![q] = "waiting"]
        /\ inFlight # NoRequest /\ UNCHANGED <<inFlight, forced, attempts>>
    BY <1>7 DEF Join, Goto, runVars, requestVars, MapTells
  <2>2. MapTells' BY <1>5, <2>1 DEF MapTells, Leading
  <2>3. inFlight \in Requests /\ inFlight # q /\ RunLeft(inFlight) \in 1..PersistMax + 4
    BY <1>1, <2>1, RunLeftIs DEF MapTells, TypeOK, Leading
  <2>4. Left(q)' = Again(q) + 1 + RunLeft(inFlight)
    <3>1. pc'[q] = "waiting" /\ Again(q)' = Again(q) /\ Awaited(q)' = inFlight
      BY <1>5, <2>1 DEF Again, Awaited
    <3>2. RunLeft(inFlight)' = RunLeft(inFlight) BY <1>5, <2>1, <2>3 DEF RunLeft
    <3> QED BY <2>1, <3>1, <3>2 DEF Left, Awaited
  <2>5. Left(q) = Again(q) + PersistMax + 6 BY <1>1, <2>1, LeftIs
  <2>6. Left(q)' \in Nat /\ Left(q)' < Left(q) BY <1>2, <1>3, <2>3, <2>4, <2>5
  <2> QED BY <1>1, <1>5, <2>1, <2>2, <2>6, OneNearer DEF Leading
<1>8. CASE Lead(q)
  <2>1. /\ pc[q] = "holding" /\ pc' = [pc EXCEPT ![q] = "reading"]
        /\ inFlight = NoRequest /\ inFlight' = q /\ forced' = forced
        /\ attempts' = [attempts EXCEPT ![q] = 0]
    BY <1>8 DEF Lead, Goto, requestVars
  <2>2. MapTells'
    <3>1. pc'[q] \in Leading /\ q # NoRequest
      BY <1>5, <2>1, RefreshAssumption DEF Leading
    <3> QED BY <2>1, <3>1 DEF MapTells
  <2>3. Left(q)' = Again(q) + 1 + (PersistMax + 4)
    <3>1. pc'[q] = "reading" /\ Again(q)' = Again(q) /\ Awaited(q)' = q
      BY <1>5, <2>1 DEF Again, Awaited
    <3>2. RunLeft(q)' = PersistMax + 4 BY <3>1 DEF RunLeft
    <3> QED BY <3>1, <3>2 DEF Left, Awaited
  <2>4. Left(q) = Again(q) + PersistMax + 6 BY <1>1, <2>1, LeftIs
  <2>5. Left(q)' \in Nat /\ Left(q)' < Left(q) BY <1>2, <1>3, <2>3, <2>4
  <2>6. \A r \in Requests \ {q} : pc'[r] = pc[r] /\ forced'[r] = forced[r]
                                  /\ attempts'[r] = attempts[r]
    BY <1>1, <1>5, <2>1 DEF TypeOK
  <2> QED BY <1>1, <2>1, <2>2, <2>5, <2>6, OneNearer DEF Leading
<1>9. ASSUME pc[q] \in Leading, UNCHANGED <<inFlight, forced>>,
             pc' \in [Requests -> {"idle", "holding", "waiting", "using", "done"} \union Leading],
             pc'[q] \in Leading, RunLeft(q)' \in Nat, RunLeft(q)' <= RunLeft(q) - 1,
             \A r \in Requests \ {q} : pc'[r] = pc[r] /\ attempts'[r] = attempts[r]
      PROVE  MapTells' /\ Nearer(q)
  <2>1. MapTells'
    <3>1. \A r \in Requests : /\ pc[r] \in Leading => pc'[r] \in Leading
                              /\ pc'[r] = "waiting" => pc[r] = "waiting"
      BY <1>9 DEF Leading
    <3>2. inFlight # NoRequest => inFlight \in Requests BY <1>1 DEF TypeOK
    <3> QED BY <1>9, <3>1, <3>2 DEF MapTells
  <2>2. Left(q) = Again(q) + 1 + RunLeft(q) /\ RunLeft(q) \in 1..PersistMax + 4
    BY <1>1, <1>9, LeftIs, RunLeftIs
  <2>3. Left(q)' = Again(q) + 1 + RunLeft(q)'
    <3>1. Again(q)' = Again(q) /\ Awaited(q)' = q BY <1>9 DEF Again, Awaited, Leading
    <3>2. pc'[q] \notin {"idle", "done", "using", "holding"} BY <1>9 DEF Leading
    <3> QED BY <3>1, <3>2 DEF Left
  <2>4. Left(q)' \in Nat /\ Left(q)' < Left(q) BY <1>2, <1>3, <1>9, <2>2, <2>3
  <2> QED BY <1>1, <1>9, <2>1, <2>4, OneNearer DEF Leading
<1>10. CASE ReadRow(q)
  <2>1. /\ pc[q] = "reading" /\ pc' = [pc EXCEPT ![q] = "read"]
        /\ UNCHANGED <<inFlight, forced, attempts>>
    BY <1>10 DEF ReadRow, Goto, requestVars
  <2>2. pc'[q] = "read" /\ \A r \in Requests \ {q} : pc'[r] = pc[r] BY <1>5, <2>1
  <2>3. RunLeft(q)' = PersistMax + 3 BY <2>2 DEF RunLeft
  <2>4. RunLeft(q) = PersistMax + 4 BY <2>1 DEF RunLeft
  <2>5. pc[q] \in Leading /\ pc'[q] \in Leading BY <2>1, <2>2 DEF Leading
  <2>6. pc' \in [Requests -> {"idle", "holding", "waiting", "using", "done"} \union Leading]
    BY <1>1 DEF TypeOK
  <2> QED BY <1>2, <1>9, <2>1, <2>2, <2>3, <2>4, <2>5, <2>6
<1>11. CASE StartExchange(q)
  <2>1. /\ pc[q] = "read" /\ pc' = [pc EXCEPT ![q] = "exchanging"]
        /\ UNCHANGED <<inFlight, forced, attempts>>
    BY <1>11 DEF StartExchange, Goto, requestVars, runVars
  <2>2. pc'[q] = "exchanging" /\ \A r \in Requests \ {q} : pc'[r] = pc[r] BY <1>5, <2>1
  <2>3. RunLeft(q)' = PersistMax + 2 BY <2>2 DEF RunLeft
  <2>4. RunLeft(q) = PersistMax + 3 BY <2>1 DEF RunLeft
  <2>5. pc[q] \in Leading /\ pc'[q] \in Leading BY <2>1, <2>2 DEF Leading
  <2>6. pc' \in [Requests -> {"idle", "holding", "waiting", "using", "done"} \union Leading]
    BY <1>1 DEF TypeOK
  <2> QED BY <1>2, <1>9, <2>1, <2>2, <2>3, <2>4, <2>5, <2>6
<1>12. CASE ExchangeSucceeds(q)
  <2>1. /\ pc[q] = "exchanging" /\ pc' = [pc EXCEPT ![q] = "persisting"]
        /\ UNCHANGED <<inFlight, forced, attempts>>
    BY <1>12 DEF ExchangeSucceeds, Accepts, Goto, requestVars
  <2>2. pc'[q] = "persisting" /\ \A r \in Requests \ {q} : pc'[r] = pc[r] BY <1>5, <2>1
  <2>3. RunLeft(q)' = PersistMax + 1 - attempts[q] BY <2>1, <2>2 DEF RunLeft
  <2>4. RunLeft(q) = PersistMax + 2 BY <2>1 DEF RunLeft
  <2>5. pc[q] \in Leading /\ pc'[q] \in Leading BY <2>1, <2>2 DEF Leading
  <2>6. pc' \in [Requests -> {"idle", "holding", "waiting", "using", "done"} \union Leading]
    BY <1>1 DEF TypeOK
  <2>7. attempts[q] \in 0..PersistMax BY <1>1 DEF TypeOK
  <2>8. RunLeft(q)' \in Nat /\ RunLeft(q)' <= RunLeft(q) - 1 BY <1>2, <2>3, <2>4, <2>7
  <2> QED BY <1>9, <2>1, <2>2, <2>5, <2>6, <2>8
<1>13. CASE PersistRetries(q)
  <2>1. /\ pc[q] = "persisting" /\ attempts[q] + 1 < PersistMax
        /\ attempts' = [attempts EXCEPT ![q] = @ + 1]
        /\ UNCHANGED <<inFlight, forced, pc>>
    BY <1>13 DEF PersistRetries, requestVars
  <2>2. attempts \in [Requests -> 0..PersistMax] BY <1>1 DEF TypeOK
  <2>3. attempts'[q] = attempts[q] + 1 /\ \A r \in Requests \ {q} : attempts'[r] = attempts[r]
    BY <2>1, <2>2
  <2>4. RunLeft(q)' = PersistMax + 1 - (attempts[q] + 1) BY <2>1, <2>3 DEF RunLeft
  <2>5. RunLeft(q) = PersistMax + 1 - attempts[q] BY <2>1 DEF RunLeft
  <2>6. attempts[q] \in 0..PersistMax BY <2>2
  <2>7. RunLeft(q)' \in Nat /\ RunLeft(q)' <= RunLeft(q) - 1 BY <1>2, <2>4, <2>5, <2>6
  <2>8. pc[q] \in Leading /\ pc'[q] \in Leading BY <2>1 DEF Leading
  <2>9. pc' \in [Requests -> {"idle", "holding", "waiting", "using", "done"} \union Leading]
    BY <1>5, <2>1
  <2> QED BY <1>9, <2>1, <2>3, <2>7, <2>8, <2>9
<1>14. CASE ReadFails(q) \/ AnswerLost(q) \/ ExchangeFails(q) \/ PersistGivesUp(q)
  <2>1. pc[q] \in Leading /\ Settle(q, 0)
    BY <1>14 DEF ReadFails, AnswerLost, Accepts, ExchangeFails, PersistGivesUp, Reject, Leading
  <2> QED BY <1>4, <2>1
<1>15. CASE StillValid(q)
  <2>1. pc[q] \in Leading /\ Settle(q, current[q].t) BY <1>15 DEF StillValid, Leading
  <2> QED BY <1>4, <2>1
<1>16. CASE PersistSucceeds(q)
  <2>1. pc[q] \in Leading /\ Settle(q, fresh[q].t) BY <1>16 DEF PersistSucceeds, Leading
  <2> QED BY <1>4, <2>1
<1>17. CASE Answered(q)
  <2>1. /\ pc[q] = "using" /\ pc' = [pc EXCEPT ![q] = "done"]
        /\ UNCHANGED <<inFlight, attempts>>
        /\ \A r \in Requests \ {q} : forced'[r] = forced[r]
    BY <1>17 DEF Answered, Goto, Forget, runVars
  <2>2. MapTells' BY <1>5, <2>1 DEF MapTells, Leading
  <2>3. Left(q)' = 0 BY <1>5, <2>1 DEF Left
  <2>4. Left(q) = Again(q) + 1 BY <1>1, <2>1, LeftIs
  <2>5. Left(q)' \in Nat /\ Left(q)' < Left(q) BY <1>3, <2>3, <2>4
  <2> QED BY <1>1, <1>5, <2>1, <2>2, <2>5, OneNearer DEF Leading
<1>18. CASE Rejected401(q)
  <2>1. /\ pc[q] = "using" /\ pc' = [pc EXCEPT ![q] = "holding"]
        /\ ~forced[q] /\ forced' = [forced EXCEPT ![q] = TRUE]
        /\ UNCHANGED <<inFlight, attempts>>
    BY <1>18 DEF Rejected401, Goto, runVars
  <2>2. MapTells' BY <1>5, <2>1 DEF MapTells, Leading
  <2>3. Left(q)' = PersistMax + 6
    <3>1. pc'[q] = "holding" BY <1>5, <2>1
    <3>2. forced'[q] BY <1>1, <2>1 DEF TypeOK
    <3>3. Again(q)' = 0 BY <3>2 DEF Again
    <3> QED BY <1>2, <3>1, <3>3 DEF Left
  <2>4. Left(q) = PersistMax + 6 + 1
    <3>1. Again(q) = PersistMax + 6 BY <2>1 DEF Again
    <3> QED BY <1>1, <2>1, <3>1, LeftIs
  <2>5. Left(q)' \in Nat /\ Left(q)' < Left(q) BY <1>2, <2>3, <2>4
  <2>6. \A r \in Requests \ {q} : pc'[r] = pc[r] /\ forced'[r] = forced[r]
                                  /\ attempts'[r] = attempts[r]
    BY <1>1, <1>5, <2>1 DEF TypeOK
  <2> QED BY <1>1, <2>1, <2>2, <2>5, <2>6, OneNearer DEF Leading
<1> QED
  BY <1>6, <1>7, <1>8, <1>10, <1>11, <1>12, <1>13, <1>14, <1>15, <1>16, <1>17, <1>18
    DEF Step, Unwrap, Run, Upstream

\* Requests that arrive, the user, the clock and restarts put nobody back.
LEMMA OthersPutNobodyBack ==
  ASSUME Inv, Inv', MapTells,
         \/ \E q \in Requests : Take(q)
         \/ Connect \/ StartDisconnect \/ Disconnect \/ Expire \/ Crash
         \/ UNCHANGED vars
  PROVE  MapTells' /\ \A r \in Requests : pc[r] # "idle" => Left(r)' <= Left(r)
<1>1. TypeOK /\ TypeOK' BY DEF Inv
<1>2. \A r \in Requests : Left(r) \in Nat BY <1>1, LeftIs
<1>3. ASSUME UNCHANGED <<inFlight, forced, attempts>>,
             \A r \in Requests : pc'[r] = pc[r] \/ (pc[r] = "idle" /\ pc'[r] = "holding")
      PROVE  MapTells' /\ \A r \in Requests : pc[r] # "idle" => Left(r)' <= Left(r)
  <2>1. MapTells'
    <3>1. inFlight # NoRequest => inFlight \in Requests BY <1>1 DEF TypeOK
    <3> QED BY <1>3, <3>1 DEF MapTells, Leading
  <2>2. ASSUME NEW r \in Requests, pc[r] # "idle" PROVE Left(r)' = Left(r)
    <3>1. pc'[r] = pc[r] /\ Again(r)' = Again(r) /\ Awaited(r)' = Awaited(r)
      BY <1>3, <2>2 DEF Again, Awaited
    <3>2. CASE pc[r] \in {"done", "using", "holding"} BY <3>1, <3>2 DEF Left
    <3>3. CASE pc[r] \in Leading \union {"waiting"}
      <4>1. Awaited(r) \in Requests /\ pc[Awaited(r)] \in Leading
        BY <1>1, <3>3 DEF Awaited, MapTells, TypeOK, Leading
      <4>2. pc'[Awaited(r)] = pc[Awaited(r)] BY <1>3, <4>1 DEF Leading
      <4>3. RunLeft(Awaited(r))' = RunLeft(Awaited(r)) BY <1>3, <3>1, <4>2 DEF RunLeft
      <4> QED BY <3>1, <4>3 DEF Left
    <3> QED BY <1>1, <2>2, <3>2, <3>3 DEF TypeOK
  <2>3. ASSUME NEW r \in Requests, pc[r] # "idle" PROVE Left(r)' <= Left(r)
    <3>1. Left(r)' = Left(r) /\ Left(r) \in Nat BY <1>2, <2>2, <2>3
    <3> QED BY <3>1
  <2> QED BY <2>1, <2>3
<1>4. ASSUME NEW q \in Requests, Take(q)
      PROVE  /\ UNCHANGED <<inFlight, forced, attempts>>
             /\ \A r \in Requests : pc'[r] = pc[r] \/ (pc[r] = "idle" /\ pc'[r] = "holding")
  BY <1>1, <1>4 DEF TypeOK, Take, Goto, runVars
<1>5. CASE Connect \/ StartDisconnect \/ Disconnect \/ Expire \/ UNCHANGED vars
  <2>1. UNCHANGED <<inFlight, forced, attempts, pc>>
    BY <1>5 DEF Connect, StartDisconnect, Disconnect, Expire, vars, runVars, requestVars
  <2> QED BY <1>3, <2>1
<1>6. CASE Crash
  <2>1. /\ inFlight' = NoRequest
        /\ pc' = [r \in Requests |-> IF pc[r] = "idle" THEN "idle" ELSE "done"]
    BY <1>6 DEF Crash
  <2>2. MapTells' BY <2>1 DEF MapTells
  <2>3. ASSUME NEW r \in Requests, pc[r] # "idle" PROVE Left(r)' <= Left(r)
    <3>1. pc'[r] = "done" BY <2>1, <2>3
    <3>2. Left(r)' = 0 BY <3>1 DEF Left
    <3> QED BY <1>2, <3>2
  <2> QED BY <2>2, <2>3
<1> QED BY <1>3, <1>4, <1>5, <1>6

LEMMA MapTellsFirst == Init => MapTells
BY DEF Init, MapTells

LEMMA AllComeNearer ==
  ASSUME Inv, Inv', MapTells, [Next]_vars
  PROVE  /\ MapTells'
         /\ \A r \in Requests : pc[r] # "idle" =>
              Left(r)' <= Left(r) /\ (Step(Awaited(r)) => Left(r)' < Left(r))
<1>1. MapTells' /\ \A r \in Requests : pc[r] # "idle" => Left(r)' <= Left(r)
  <2>1. ASSUME NEW q \in Requests, Step(q)
        PROVE  MapTells' /\ \A r \in Requests : pc[r] # "idle" => Left(r)' <= Left(r)
    BY <2>1, StepNearer DEF Nearer
  <2> QED BY <2>1, OthersPutNobodyBack DEF Next, Step
<1>2. ASSUME NEW r \in Requests, pc[r] # "idle", Step(Awaited(r)) PROVE Left(r)' < Left(r)
  <2>1. PICK q : q = Awaited(r) OBVIOUS
  <2>2. q \in Requests BY <2>1 DEF Inv, TypeOK, MapTells, Awaited
  <2>3. Nearer(q) BY <1>2, <2>1, <2>2, StepNearer
  <2> QED BY <1>2, <2>1, <2>3 DEF Nearer
<1> QED BY <1>1, <1>2

\* Nobody waits in vain (coordinateOAuthRefresh): a request that has joined a refresh
\* awaits one that is under way, whose promise is still to settle, through crashes,
\* failures and answers that are lost.
THEOREM NobodyWaitsInVain ==
  Spec => [](\A r \in Requests :
               pc[r] = "waiting" => inFlight \in Requests /\ pc[inFlight] \in Leading)
<1>1. Inv /\ MapTells =>
        \A r \in Requests : pc[r] = "waiting" => inFlight \in Requests /\ pc[inFlight] \in Leading
  BY DEF Inv, TypeOK, MapTells
<1>2. Inv /\ Inv' /\ MapTells /\ [Next]_vars => MapTells' BY AllComeNearer
<1> QED BY <1>1, <1>2, MapTellsFirst, InvariantInv, PTL DEF Spec

\* Why each request ends (EveryRefreshEnds): it has at most Left steps to go, its own or,
\* while it waits, the run's.  Each of those brings it nearer to its end, and nothing
\* else puts it back: not another request, the 401 that sends it round once more, the
\* user, the clock or a restart.
THEOREM RequestsComeNearer ==
  Spec => [][\A r \in Requests : pc[r] # "idle" =>
               /\ Left(r) \in Nat /\ (Left(r) = 0 <=> pc[r] = "done")
               /\ Left(r)' <= Left(r)
               /\ Step(Awaited(r)) => Left(r)' < Left(r)]_vars
<1>1. Inv /\ Inv' /\ MapTells /\ [Next]_vars =>
        /\ MapTells'
        /\ [\A r \in Requests : pc[r] # "idle" =>
               /\ Left(r) \in Nat /\ (Left(r) = 0 <=> pc[r] = "done")
               /\ Left(r)' <= Left(r)
               /\ Step(Awaited(r)) => Left(r)' < Left(r)]_vars
  <2>1. SUFFICES ASSUME Inv, Inv', MapTells, [Next]_vars
                 PROVE  /\ MapTells'
                        /\ \A r \in Requests : pc[r] # "idle" =>
                             /\ Left(r) \in Nat /\ (Left(r) = 0 <=> pc[r] = "done")
                             /\ Left(r)' <= Left(r)
                             /\ Step(Awaited(r)) => Left(r)' < Left(r)
    OBVIOUS
  <2>2. ASSUME NEW r \in Requests, pc[r] # "idle"
        PROVE  Left(r) \in Nat /\ (Left(r) = 0 <=> pc[r] = "done")
    BY <2>1, <2>2, LeftIs DEF Inv
  <2> QED BY <2>1, <2>2, AllComeNearer
<1> QED BY <1>1, MapTellsFirst, InvariantInv, PTL DEF Spec
===========================================================================
