------------------------- MODULE UsageProofs -------------------------
(***************************************************************************)
(* Usage, as it is recorded and as requests are judged by it.  First the   *)
(* locks and the rows of the message recorder, for any number of calls,    *)
(* keys and restarts: the promises of a key form a queue that no variable  *)
(* holds, so its invariant says there is an order in which every call      *)
(* waits for the one before it, the first waits for nobody, and the entry  *)
(* of the map is the last.  Then the checks of the limits (LimitCheck).    *)
(***************************************************************************)
EXTENDS MessageRecorder, LimitCheck, TLAPS

Under(c) == Holding(c) \/ pc[c] = "queued"

Places == {"idle", "queued", "waiting", "looking", "found", "committed", "saving", "inserting"}
          \union Ended

LockTypes ==
  /\ pc \in [Calls -> Places]
  /\ \A c \in Calls : Key(c) \in Keys
  /\ DOMAIN call = Calls
  /\ tail \in [Keys -> Calls \union {NoCall}]
  /\ previous \in [Calls -> Calls \union {NoCall}]
  /\ \A c \in Calls : Holding(c) => Settled(previous[c])

Beside(c, d) == Under(c) /\ Under(d) /\ Key(c) = Key(d)

\* The calls of a key, by their place in the queue.
Ordered(place) ==
  /\ place \in [Calls -> Nat]
  /\ \A c, d \in Calls : Beside(c, d) /\ place[c] = place[d] => c = d
  /\ \A c \in Calls : Under(c) =>
       LET last == tail[Key(c)]
       IN last \in Calls /\ Beside(c, last) /\ place[c] <= place[last]
  /\ \A c, d \in Calls : Beside(c, d) /\ Settled(previous[c]) => place[c] <= place[d]
  /\ \A c \in Calls : Under(c) /\ ~Settled(previous[c]) =>
       /\ Beside(c, previous[c]) /\ place[previous[c]] < place[c]
       /\ \A d \in Calls : Beside(c, d) => place[d] <= place[previous[c]] \/ place[c] <= place[d]

Queued == \E place : Ordered(place)

\* An entry of the map is a call under way on its key.
Entries == \A k \in Keys : tail[k] # NoCall => Under(tail[k]) /\ Key(tail[k]) = k

LockInv == LockTypes /\ Queued /\ Entries

LEMMA InitLocks == Init => LockInv
<1> SUFFICES ASSUME Init PROVE LockInv OBVIOUS
<1>1. \A c \in Calls : ~Under(c) BY DEF Init, Under, Holding
<1>2. LockTypes /\ Entries
  BY <1>1, RecorderAssumption
    DEF Init, LockTypes, Entries, Key, KeyOf, Fresh, Keys, Places, Ended, Under, Holding
<1>3. Ordered([c \in Calls |-> 0]) BY <1>1 DEF Ordered, Beside
<1> QED BY <1>2, <1>3 DEF LockInv, Queued

\* A step that moves a call on within the lock, or outside it.
LEMMA Stays ==
  ASSUME LockInv, UNCHANGED <<tail, previous>>,
         pc' \in [Calls -> Places], DOMAIN call' = Calls, \A c \in Calls : Key(c)' \in Keys,
         \A c \in Calls : Under(c)' = Under(c),
         \A c \in Calls : Settled(c) => Settled(c)',
         \A c \in Calls : Under(c) => Key(c)' = Key(c),
         \A c \in Calls : Holding(c)' => Holding(c) \/ Settled(previous[c])
  PROVE  LockInv'
<1>1. PICK place : Ordered(place) BY DEF LockInv, Queued
<1>2. \A c \in Calls : Under(c) /\ ~Settled(previous[c]) =>
        previous[c] \in Calls /\ Under(previous[c])
  BY <1>1, RecorderAssumption DEF Ordered, Beside, Settled, LockInv, LockTypes
<1>3. \A c \in Calls : Under(c) => ~Settled(c)
  BY DEF Under, Holding, Settled, Places, Ended, LockInv, LockTypes
<1>4. \A c \in Calls : Under(c)' => ~Settled(c)'
  BY DEF Under, Holding, Settled, Places, Ended
<1>5. \A c \in Calls : Under(c) => Settled(previous[c])' = Settled(previous[c])
  <2> SUFFICES ASSUME NEW c \in Calls, Under(c)
               PROVE  Settled(previous[c])' = Settled(previous[c])
    OBVIOUS
  <2>1. CASE previous[c] \in Calls
    <3>1. PICK p \in Calls : p = previous[c] /\ p = previous[c]' BY <2>1
    <3>2. Settled(p) => Settled(p)' OBVIOUS
    <3>3. ~Settled(p) => ~Settled(p)' BY <1>2, <1>4, <3>1
    <3>4. Settled(p)' = Settled(p) BY <3>2, <3>3 DEF Settled
    <3> QED BY <3>1, <3>4
  <2>2. CASE previous[c] \notin Calls BY <2>2 DEF Settled
  <2> QED BY <2>1, <2>2
<1>6. \A c, d \in Calls : Beside(c, d)' = Beside(c, d) BY DEF Beside
<1>7. LockTypes'
  <2>1. \A c \in Calls : Holding(c)' => Settled(previous[c])'
    BY <1>5 DEF Under, LockInv, LockTypes
  <2> QED BY <2>1 DEF LockInv, LockTypes
<1>8. Queued'
  <2>1. ASSUME NEW c \in Calls, Under(c)'
        PROVE  (LET last == tail[Key(c)]
                IN  last \in Calls /\ Beside(c, last) /\ place[c] <= place[last])'
    <3>1. Under(c) BY <2>1
    <3>2. PICK last \in Calls : last = tail[Key(c)] /\ Beside(c, last) /\ place[c] <= place[last]
      BY <1>1, <3>1 DEF Ordered
    <3>3. tail[Key(c)]' = last BY <3>1, <3>2
    <3> QED BY <1>6, <3>2, <3>3
  <2>2. ASSUME NEW c \in Calls, NEW d \in Calls, Beside(c, d)', Settled(previous[c])'
        PROVE  place[c] <= place[d]
    <3>1. Beside(c, d) /\ Settled(previous[c]) BY <1>5, <1>6, <2>2 DEF Beside
    <3> QED BY <1>1, <3>1 DEF Ordered
  <2>3. ASSUME NEW c \in Calls, Under(c)', ~Settled(previous[c])'
        PROVE  /\ Beside(c, previous[c])' /\ (place[previous[c]])' < place[c]
               /\ \A d \in Calls : Beside(c, d)' =>
                    place[d] <= (place[previous[c]])' \/ place[c] <= place[d]
    <3>1. Under(c) /\ ~Settled(previous[c]) BY <1>5, <2>3
    <3>2. PICK p \in Calls : p = previous[c] /\ p = previous[c]' BY <1>2, <3>1
    <3>3. /\ Beside(c, p) /\ place[p] < place[c]
          /\ \A d \in Calls : Beside(c, d) => place[d] <= place[p] \/ place[c] <= place[d]
      BY <1>1, <3>1, <3>2 DEF Ordered
    <3> QED BY <1>6, <3>2, <3>3
  <2>4. \A c, d \in Calls : Beside(c, d)' /\ place[c] = place[d] => c = d
    BY <1>1, <1>6 DEF Ordered
  <2>5. Ordered(place)' BY <1>1, <2>1, <2>2, <2>3, <2>4 DEF Ordered
  <2> QED BY <2>5 DEF Queued
<1>9. Entries' BY RecorderAssumption DEF Entries, LockInv, LockTypes
<1> QED BY <1>7, <1>8, <1>9 DEF LockInv

\* A call joins the queue of its key: last, behind the entry of the map.
LEMMA Joins ==
  ASSUME LockInv, NEW c \in Calls, RecordSuccessMessage(c)
  PROVE  LockInv'
<1>1. PICK k \in Keys : k = Key(c)' /\ previous' = [previous EXCEPT ![c] = tail[k]]
                        /\ tail' = [tail EXCEPT ![k] = c]
  <2>1. PICK m \in Messages :
          /\ call' = [call EXCEPT ![c] = m]
          /\ previous' = [previous EXCEPT ![c] = tail[KeyOf(m)]]
          /\ tail' = [tail EXCEPT ![KeyOf(m)] = c]
    BY DEF RecordSuccessMessage
  <2>2. Key(c)' = KeyOf(m) BY <2>1 DEF Key, LockInv, LockTypes
  <2>3. KeyOf(m) \in Keys BY DEF Messages, KeyOf, Keys
  <2> QED BY <2>1, <2>2, <2>3
<1>2. /\ pc[c] = "idle" /\ pc' = [pc EXCEPT ![c] = "queued"]
      /\ \A d \in Calls \ {c} : Key(d)' = Key(d)
      /\ DOMAIN call' = Calls
  BY DEF RecordSuccessMessage, Goto, Key, LockInv, LockTypes
<1>3. ~Under(c) /\ ~Settled(c) /\ Under(c)' /\ ~Settled(c)'
  BY <1>2 DEF LockInv, LockTypes, Under, Holding, Settled, Places, Ended
<1>4. \A d \in Calls \ {c} : /\ Under(d)' = Under(d) /\ Settled(d)' = Settled(d)
                             /\ Holding(d)' = Holding(d) /\ previous'[d] = previous[d]
  BY <1>1, <1>2 DEF LockInv, LockTypes, Under, Holding, Settled
<1>5. PICK place : Ordered(place) BY DEF LockInv, Queued
<1>6. \A d \in Calls \ {c} : Under(d) => previous[d] # c
  BY <1>3, <1>5 DEF Ordered, Beside
<1>7. \A d \in Calls \ {c} : Under(d) => Settled(previous[d])' = Settled(previous[d])
  BY <1>4, <1>6, RecorderAssumption DEF LockInv, LockTypes, Settled
<1>8. LockTypes'
  <2>1. \A d \in Calls : Holding(d)' => Settled(previous[d])'
    BY <1>2, <1>4, <1>7 DEF LockInv, LockTypes, Holding, Under
  <2> QED BY <1>1, <1>2, <2>1 DEF LockInv, LockTypes, Places, Ended
<1>9. Entries' BY <1>1, <1>3, <1>4, <1>2 DEF Entries, LockInv, LockTypes
<1>10. \A d, e \in Calls \ {c} : Beside(d, e)' = Beside(d, e) BY <1>2, <1>4 DEF Beside
<1>11. Queued'
  <2>1. CASE tail[k] = NoCall
    <3>1. \A d \in Calls \ {c} : Under(d) => Key(d) # k
      BY <1>5, <2>1, RecorderAssumption DEF Ordered
    <3>2. \A d \in Calls \ {c} : ~Beside(c, d)' /\ ~Beside(d, c)'
      BY <1>1, <1>2, <1>4, <3>1 DEF Beside
    <3>3. Settled(previous[c])' BY <1>1, <2>1, RecorderAssumption DEF Settled, LockInv, LockTypes
    <3>4. Beside(c, c)' /\ tail[Key(c)]' = c BY <1>1, <1>3 DEF Beside, LockInv, LockTypes
    <3>5. \A d \in Calls \ {c} : Under(d) =>
            tail[Key(d)]' = tail[Key(d)] /\ tail[Key(d)] \in Calls \ {c}
      BY <1>1, <1>2, <1>3, <1>5, <3>1 DEF Ordered, Beside, LockInv, LockTypes
    <3>6. \A d \in Calls \ {c} : Under(d) /\ ~Settled(previous[d]) => previous[d] \in Calls \ {c}
      BY <1>6, RecorderAssumption DEF Settled, LockInv, LockTypes
    <3>7. Ordered(place)'
      <4>1. \A d, e \in Calls : Beside(d, e)' => (d = c /\ e = c) \/ Beside(d, e)
        BY <1>10, <3>2
      <4>2. ASSUME NEW d \in Calls, Under(d)'
            PROVE  (LET l == tail[Key(d)] IN l \in Calls /\ Beside(d, l) /\ place[d] <= place[l])'
        <5>1. CASE d = c BY <1>5, <3>4, <5>1 DEF Ordered
        <5>2. CASE d # c
          <6>1. Under(d) BY <1>4, <4>2, <5>2
          <6>2. Beside(d, tail[Key(d)]) /\ place[d] <= place[tail[Key(d)]]
            BY <1>5, <6>1 DEF Ordered
          <6> QED BY <1>10, <3>5, <5>2, <6>1, <6>2
        <5> QED BY <5>1, <5>2
      <4>3. ASSUME NEW d \in Calls, NEW e \in Calls, Beside(d, e)', Settled(previous[d])'
            PROVE  place[d] <= place[e]
        <5>1. CASE d = c /\ e = c BY <1>5, <5>1 DEF Ordered
        <5>2. CASE d # c
          <6>1. Beside(d, e) /\ Settled(previous[d]) BY <1>7, <4>1, <4>3, <5>2 DEF Beside
          <6> QED BY <1>5, <6>1 DEF Ordered
        <5> QED BY <3>2, <4>3, <5>1, <5>2
      <4>4. ASSUME NEW d \in Calls, Under(d)', ~Settled(previous[d])'
            PROVE  /\ Beside(d, previous[d])' /\ (place[previous[d]])' < place[d]
                   /\ \A e \in Calls : Beside(d, e)' =>
                        place[e] <= (place[previous[d]])' \/ place[d] <= place[e]
        <5>1. d # c BY <3>3, <4>4
        <5>2. Under(d) /\ ~Settled(previous[d]) /\ previous[d]' = previous[d]
          BY <1>4, <1>7, <4>4, <5>1
        <5>3. PICK p \in Calls \ {c} : p = previous[d] BY <3>6, <5>1, <5>2
        <5>4. /\ Beside(d, p) /\ place[p] < place[d]
              /\ \A e \in Calls : Beside(d, e) => place[e] <= place[p] \/ place[d] <= place[e]
          BY <1>5, <5>2, <5>3 DEF Ordered
        <5> QED BY <1>10, <4>1, <5>1, <5>2, <5>3, <5>4
      <4>5. \A d, e \in Calls : Beside(d, e)' /\ place[d] = place[e] => d = e
        BY <1>5, <4>1 DEF Ordered
      <4> QED BY <1>5, <4>2, <4>3, <4>4, <4>5 DEF Ordered
    <3> QED BY <3>7 DEF Queued
  <2>2. CASE tail[k] # NoCall
    <3>1. PICK last \in Calls \ {c} :
            /\ last = tail[k] /\ Under(last) /\ Key(last) = k /\ ~Settled(last)
            /\ \A d \in Calls \ {c} : Under(d) /\ Key(d) = k =>
                 tail[Key(d)] = last /\ place[d] <= place[last]
      BY <1>3, <1>5, <2>2
        DEF Ordered, Entries, LockInv, LockTypes, Under, Holding, Settled, Places, Ended
    <3>2. PICK behind \in [Calls -> Nat] :
            behind[c] = place[last] + 1 /\ \A d \in Calls \ {c} : behind[d] = place[d]
      <4>1. [place EXCEPT ![c] = place[last] + 1] \in [Calls -> Nat] BY <1>5 DEF Ordered
      <4> QED BY <4>1, <1>5 DEF Ordered
    <3>3. \A d \in Calls \ {c} : Beside(c, d)' <=> Under(d) /\ Key(d) = k
      BY <1>1, <1>2, <1>3, <1>4 DEF Beside
    <3>4. \A d \in Calls : Beside(d, c)' <=> Beside(c, d)' BY DEF Beside
    <3>5. \A d \in Calls \ {c} : Beside(c, d)' => behind[d] <= place[last] /\ behind[d] < behind[c]
      BY <1>5, <3>1, <3>2, <3>3 DEF Ordered
    <3>6. previous[c]' = last /\ tail[Key(c)]' = c /\ ~Settled(previous[c])'
      BY <1>1, <1>4, <3>1 DEF LockInv, LockTypes, Settled
    <3>7. \A d, e \in Calls : Beside(d, e)' /\ behind[d] = behind[e] => d = e
      BY <1>5, <1>10, <3>2, <3>4, <3>5 DEF Ordered
    <3>8. ASSUME NEW d \in Calls, Under(d)'
          PROVE  (LET l == tail[Key(d)] IN l \in Calls /\ Beside(d, l) /\ behind[d] <= behind[l])'
      <4>1. CASE Key(d)' = k
        <5>1. tail[Key(d)]' = c BY <1>1, <4>1 DEF LockInv, LockTypes
        <5>2. Beside(d, c)' BY <1>1, <1>3, <3>8, <4>1 DEF Beside
        <5>3. behind[d] <= behind[c] BY <3>2, <3>4, <3>5, <5>2
        <5> QED BY <5>1, <5>2, <5>3
      <4>2. CASE Key(d)' # k
        <5>1. d # c /\ Under(d) /\ Key(d)' = Key(d) BY <1>1, <1>2, <1>4, <3>8, <4>2
        <5>2. tail[Key(d)]' = tail[Key(d)] BY <1>1, <4>2, <5>1 DEF LockInv, LockTypes
        <5>3. PICK l \in Calls : l = tail[Key(d)] /\ Beside(d, l) /\ place[d] <= place[l]
          BY <1>5, <5>1 DEF Ordered
        <5>4. l # c BY <1>3, <5>3 DEF Beside
        <5> QED BY <1>10, <3>2, <5>1, <5>2, <5>3, <5>4
      <4> QED BY <4>1, <4>2
    <3>9. ASSUME NEW d \in Calls, NEW e \in Calls, Beside(d, e)', Settled(previous[d])'
          PROVE  behind[d] <= behind[e]
      <4>1. d # c BY <3>6, <3>9
      <4>2. CASE e = c BY <3>4, <3>5, <3>9, <4>1, <4>2, <3>2
      <4>3. CASE e # c
        <5>1. Beside(d, e) /\ Settled(previous[d]) BY <1>7, <1>10, <3>9, <4>1, <4>3 DEF Beside
        <5> QED BY <1>5, <3>2, <4>1, <4>3, <5>1 DEF Ordered
      <4> QED BY <4>2, <4>3
    <3>10. ASSUME NEW d \in Calls, Under(d)', ~Settled(previous[d])'
           PROVE  /\ Beside(d, previous[d])' /\ (behind[previous[d]])' < behind[d]
                  /\ \A e \in Calls : Beside(d, e)' =>
                       behind[e] <= (behind[previous[d]])' \/ behind[d] <= behind[e]
      <4>1. CASE d = c
        <5>1. Beside(c, last)' BY <3>1, <3>3
        <5>2. \A e \in Calls : Beside(c, e)' => behind[e] <= behind[last] \/ behind[c] <= behind[e]
          BY <3>2, <3>5, <3>1
        <5>3. behind[last] < behind[c] BY <1>5, <3>1, <3>2 DEF Ordered
        <5> QED BY <3>6, <4>1, <5>1, <5>2, <5>3
      <4>2. CASE d # c
        <5>1. Under(d) /\ ~Settled(previous[d]) /\ previous[d]' = previous[d]
          BY <1>4, <1>7, <3>10, <4>2
        <5>2. PICK p \in Calls \ {c} : p = previous[d]
          BY <1>6, <4>2, <5>1, RecorderAssumption DEF Settled, LockInv, LockTypes
        <5>3. /\ Beside(d, p) /\ place[p] < place[d]
              /\ \A e \in Calls : Beside(d, e) => place[e] <= place[p] \/ place[d] <= place[e]
          BY <1>5, <5>1, <5>2 DEF Ordered
        <5>4. ASSUME NEW e \in Calls, Beside(d, e)' PROVE behind[e] <= behind[p] \/ behind[d] <= behind[e]
          <6>1. CASE e = c BY <3>2, <3>4, <3>5, <4>2, <5>4, <6>1
          <6>2. CASE e # c BY <1>10, <3>2, <4>2, <5>2, <5>3, <5>4, <6>2
          <6> QED BY <6>1, <6>2
        <5> QED BY <1>10, <3>2, <4>2, <5>1, <5>2, <5>3, <5>4
      <4> QED BY <4>1, <4>2
    <3>11. Ordered(behind)' BY <3>2, <3>7, <3>8, <3>9, <3>10 DEF Ordered
    <3> QED BY <3>11 DEF Queued
  <2> QED BY <2>1, <2>2
<1> QED BY <1>8, <1>9, <1>11 DEF LockInv

\* A call that held the lock leaves the queue: it was the first of it, and the
\* entry of the map is forgotten only when it was also the last.
LEMMA Leaves ==
  ASSUME LockInv, NEW c \in Calls, NEW place \in Ended \union {"saving"},
         Holding(c), Goto(c, place), ForgetKey(c),
         previous' = [previous EXCEPT ![c] = NoCall], UNCHANGED call
  PROVE  LockInv'
<1>1. ~Under(c)' /\ ~Holding(c)' /\ ~Settled(c) /\ Settled(c)' /\ Under(c) /\ Settled(previous[c])
  BY DEF LockInv, LockTypes, Goto, Under, Holding, Settled, Places, Ended
<1>2. \A d \in Calls \ {c} : /\ Under(d)' = Under(d) /\ Settled(d)' = Settled(d)
                             /\ Holding(d)' = Holding(d) /\ previous'[d] = previous[d]
  BY DEF LockInv, LockTypes, Goto, Under, Holding, Settled
<1>3. \A d \in Calls : Key(d)' = Key(d) BY DEF Key
<1>4. \A d, e \in Calls : Beside(d, e)' <=> Beside(d, e) /\ d # c /\ e # c
  BY <1>1, <1>2, <1>3 DEF Beside
<1>5. \A k \in Keys : tail'[k] = IF k = Key(c) /\ tail[k] = c THEN NoCall ELSE tail[k]
  BY DEF ForgetKey, LockInv, LockTypes
<1>6. \A d \in Calls \ {c} : Settled(previous[d])' <=> Settled(previous[d]) \/ previous[d] = c
  BY <1>1, <1>2, RecorderAssumption DEF LockInv, LockTypes, Settled
<1>7. PICK order : Ordered(order) BY DEF LockInv, Queued
<1>8. \A d \in Calls : Beside(c, d) /\ order[d] <= order[c] => d = c
  BY <1>1, <1>7 DEF Ordered, Beside
<1>9. LockTypes'
  <2>1. \A d \in Calls : Holding(d)' => Settled(previous[d])' BY <1>1, <1>2, <1>6 DEF LockInv, LockTypes
  <2>2. tail' \in [Keys -> Calls \union {NoCall}] BY DEF ForgetKey, LockInv, LockTypes
  <2> QED BY <1>3, <2>1, <2>2 DEF LockInv, LockTypes, Goto, Places, Ended
<1>10. Entries'
  BY <1>2, <1>3, <1>5, RecorderAssumption DEF Entries, LockInv, LockTypes
<1>11. Ordered(order)'
  <2>1. \A d, e \in Calls : Beside(d, e)' /\ order[d] = order[e] => d = e BY <1>4, <1>7 DEF Ordered
  <2>2. ASSUME NEW d \in Calls, Under(d)'
        PROVE  (LET l == tail[Key(d)] IN l \in Calls /\ Beside(d, l) /\ order[d] <= order[l])'
    <3>1. d # c /\ Under(d) BY <1>1, <1>2, <2>2
    <3>2. PICK l \in Calls : l = tail[Key(d)] /\ Beside(d, l) /\ order[d] <= order[l]
      BY <1>7, <3>1 DEF Ordered
    <3>3. l # c BY <1>8, <3>1, <3>2 DEF Beside
    <3>4. tail[Key(d)]' = l BY <1>3, <1>5, <3>2, <3>3 DEF LockInv, LockTypes
    <3> QED BY <1>4, <3>1, <3>2, <3>3, <3>4
  <2>3. ASSUME NEW d \in Calls, NEW e \in Calls, Beside(d, e)', Settled(previous[d])'
        PROVE  order[d] <= order[e]
    <3>1. d # c /\ e # c /\ Beside(d, e) BY <1>4, <2>3
    <3>2. CASE Settled(previous[d]) BY <1>7, <3>1, <3>2 DEF Ordered
    <3>3. CASE previous[d] = c
      <4>1. Beside(d, c) /\ (order[e] <= order[c] \/ order[d] <= order[e])
        BY <1>1, <1>7, <3>1, <3>3 DEF Ordered, Beside
      <4> QED BY <1>8, <3>1, <4>1 DEF Beside
    <3> QED BY <1>6, <2>3, <3>1, <3>2, <3>3
  <2>4. ASSUME NEW d \in Calls, Under(d)', ~Settled(previous[d])'
        PROVE  /\ Beside(d, previous[d])' /\ (order[previous[d]])' < order[d]
               /\ \A e \in Calls : Beside(d, e)' =>
                    order[e] <= (order[previous[d]])' \/ order[d] <= order[e]
    <3>1. d # c /\ Under(d) /\ ~Settled(previous[d]) /\ previous[d] # c /\ previous[d]' = previous[d]
      BY <1>1, <1>2, <1>6, <2>4
    <3>2. PICK p \in Calls \ {c} : p = previous[d]
      BY <3>1, RecorderAssumption DEF Settled, LockInv, LockTypes
    <3>3. /\ Beside(d, p) /\ order[p] < order[d]
          /\ \A e \in Calls : Beside(d, e) => order[e] <= order[p] \/ order[d] <= order[e]
      BY <1>7, <3>1, <3>2 DEF Ordered
    <3> QED BY <1>4, <3>1, <3>2, <3>3
  <2> QED BY <1>7, <2>1, <2>2, <2>3, <2>4 DEF Ordered
<1> QED BY <1>9, <1>10, <1>11 DEF LockInv, Queued

\* A restart empties every queue.
LEMMA RestartLocks == ASSUME LockInv, Restart PROVE LockInv'
<1>1. \A c \in Calls : ~Under(c)' /\ ~Holding(c)'
  BY DEF LockInv, LockTypes, Restart, Under, Holding, Ended
<1>2. LockTypes' BY <1>1 DEF LockInv, LockTypes, Restart, Key, Places, Ended
<1>3. Entries' BY DEF Entries, Restart
<1>4. Ordered([c \in Calls |-> 0])' BY <1>1 DEF Ordered, Beside
<1> QED BY <1>2, <1>3, <1>4 DEF LockInv, Queued

LEMMA NextLocks == ASSUME LockInv, [Next]_vars PROVE LockInv'
<1> USE DEF Goto
<1>1. ASSUME NEW c \in Calls, RecordSuccessMessage(c) PROVE LockInv' BY <1>1, Joins
<1>2. ASSUME NEW c \in Calls, RecordFallbackSuccess(c) PROVE LockInv'
  <2>1. pc' = [pc EXCEPT ![c] = "done"] /\ pc[c] = "idle" /\ UNCHANGED <<tail, previous>>
    BY <1>2 DEF RecordFallbackSuccess
  <2>2. PICK trace \in Traces \union {NoTrace}, tokens \in Tokens :
          call' = [call EXCEPT ![c] =
                     [Fresh EXCEPT !.kind = "fallback", !.trace = trace, !.tokens = tokens]]
    BY <1>2 DEF RecordFallbackSuccess
  <2>3. DOMAIN call' = Calls /\ \A d \in Calls \ {c} : Key(d)' = Key(d)
    BY <2>2 DEF LockInv, LockTypes, Key
  <2>4. Key(c)' \in Keys BY <2>2 DEF LockInv, LockTypes, Key, KeyOf, Fresh, Keys
  <2> QED BY <2>1, <2>3, <2>4, Stays
      DEF LockInv, LockTypes, Under, Holding, Settled, Places, Ended
<1>3. ASSUME NEW c \in Calls, RecordRateLimited(c) PROVE LockInv'
  <2>1. /\ pc[c] = "idle" /\ pc' \in {[pc EXCEPT ![c] = "done"], [pc EXCEPT ![c] = "inserting"]}
        /\ UNCHANGED <<tail, previous>> /\ call' = [call EXCEPT ![c].kind = "rate_limited"]
    BY <1>3 DEF RecordRateLimited
  <2>2. DOMAIN call' = Calls /\ \A d \in Calls : Key(d)' = Key(d)
    BY <2>1 DEF LockInv, LockTypes, Key, KeyOf
  <2> QED BY <2>1, <2>2, Stays DEF LockInv, LockTypes, Under, Holding, Settled, Places, Ended
<1>4. ASSUME NEW c \in Calls, Release(c) PROVE LockInv'
  BY <1>4, Leaves DEF Release, Leave, Holding, Ended
<1>5. ASSUME NEW c \in Calls, TransactionFails(c) PROVE LockInv'
  BY <1>5, Leaves DEF TransactionFails, Leave, Holding, Ended
<1>6. ASSUME NEW c \in Calls,
             \/ EnterLock(c) \/ LockAgentMessageWrites(c) \/ FindExistingSuccessMessage(c)
             \/ Commit(c) \/ SaveRecording(c) \/ InsertRateLimited(c) \/ RecordingFails(c)
      PROVE  LockInv'
  <2>1. /\ UNCHANGED <<call, tail, previous>>
        /\ \/ pc[c] = "queued" /\ Settled(previous[c]) /\ pc' = [pc EXCEPT ![c] = "waiting"]
           \/ pc[c] = "waiting" /\ pc' = [pc EXCEPT ![c] = "looking"]
           \/ pc[c] = "looking" /\ pc' = [pc EXCEPT ![c] = "found"]
           \/ pc[c] = "found" /\ pc' = [pc EXCEPT ![c] = "committed"]
           \/ pc[c] = "saving" /\ pc' = [pc EXCEPT ![c] = "done"]
           \/ pc[c] = "inserting" /\ pc' \in {[pc EXCEPT ![c] = "done"], [pc EXCEPT ![c] = "failed"]}
    BY <1>6 DEF EnterLock, LockAgentMessageWrites, FindExistingSuccessMessage, Commit,
                SaveRecording, InsertRateLimited, RecordingFails
  <2>2. \A d \in Calls : Key(d)' = Key(d) BY <2>1 DEF Key
  <2> QED BY <2>1, <2>2, Stays DEF LockInv, LockTypes, Under, Holding, Settled, Places, Ended
<1>7. CASE UNCHANGED <<pc, call, tail, previous>>
  BY <1>7, Stays DEF LockInv, LockTypes, Under, Holding, Settled, Key
<1>8. CASE Restart BY <1>8, RestartLocks
<1> QED
  BY <1>1, <1>2, <1>3, <1>4, <1>5, <1>6, <1>7, <1>8
    DEF Next, Progress, EvictExpiredCooldowns, DeleteRecording, Tick, vars

\* Whatever calls come, fail and leave, in whatever order and through restarts,
\* withSuccessWriteLock lets one call of a key through at a time.
THEOREM KeyExclusionHolds == Spec => []KeyExclusion
<1>1. ASSUME LockInv PROVE KeyExclusion
  <2>1. PICK place : Ordered(place) BY <1>1 DEF LockInv, Queued
  <2>2. \A c, d \in Calls : Holding(c) /\ Holding(d) /\ Key(c) = Key(d) =>
          Beside(c, d) /\ Beside(d, c) /\ Settled(previous[c]) /\ Settled(previous[d])
    BY <1>1 DEF LockInv, LockTypes, Beside, Under
  <2> QED BY <2>1, <2>2 DEF Ordered, KeyExclusion
<1> QED BY <1>1, InitLocks, NextLocks, PTL DEF Spec

\* The map of locks holds nothing but calls under way, and whoever waits for a
\* lock waits for one of them.
THEOREM LocksDrainHolds == Spec => []LocksDrain
<1>1. ASSUME LockInv PROVE LocksDrain
  <2>1. PICK place : Ordered(place) BY <1>1 DEF LockInv, Queued
  <2>2. \A k \in Keys : tail[k] # NoCall => tail[k] \in Calls /\ Under(tail[k]) /\ Key(tail[k]) = k
    BY <1>1 DEF LockInv, LockTypes, Entries
  <2>3. \A c \in Calls : pc[c] = "queued" /\ ~Settled(previous[c]) => Under(previous[c])
    BY <2>1 DEF Ordered, Under, Beside
  <2> QED BY <2>2, <2>3 DEF LocksDrain, Under
<1> QED BY <1>1, InitLocks, NextLocks, PTL DEF Spec

---------------------------------------------------------------------------
(* Rows *)

\* A call that has yet to write has no row of its own, and the row it found
\* exists.
RowInv ==
  /\ pc \in [Calls -> Places] /\ DOMAIN call = Calls
  /\ found \in [Calls -> DOMAIN rows \union {NoCall}]
  /\ \A c \in Calls : pc[c] \notin Ended \union {"committed", "saving"} => c \notin DOMAIN rows
  /\ \A r \in DOMAIN rows : {"status", "tokens", "recorded"} \subseteq DOMAIN rows[r]

\* The tokens a call goes by are still those of the row it found.
SeenInv ==
  /\ DOMAIN seen = Calls
  /\ \A c \in Calls : pc[c] = "found" /\ found[c] # NoCall => seen[c] = rows[found[c]].tokens

Unchanging(r) ==
  /\ r \in DOMAIN rows'
  /\ rows'[r].tokens = rows[r].tokens /\ rows'[r].status = rows[r].status

LEMMA InitRows == Init => RowInv
BY DEF Init, RowInv, Places, Ended

\* A write of a row that is new, or has no tokens, leaves the others alone.
LEMMA Writes ==
  ASSUME RowInv, NEW r, NEW row, rows' = With(rows, r, row),
         r \notin DOMAIN rows \/ ~(rows[r].tokens > 0)
  PROVE  \A s \in DOMAIN rows : rows[s].tokens > 0 => Unchanging(s)
BY DEF With, Unchanging

LEMMA NextRows ==
  ASSUME RowInv, SeenInv, [Next]_vars
  PROVE  RowInv' /\ \A r \in DOMAIN rows : rows[r].tokens > 0 => Unchanging(r)
<1> DEFINE Done == RowInv' /\ \A r \in DOMAIN rows : rows[r].tokens > 0 => Unchanging(r)
<1> USE DEF Goto
<1>1. ASSUME NEW c \in Calls, RecordFallbackSuccess(c) PROVE Done
  <2>1. PICK m : rows' = With(rows, c, Inserted(m)) BY <1>1 DEF RecordFallbackSuccess
  <2>2. c \notin DOMAIN rows BY <1>1 DEF RecordFallbackSuccess, RowInv, Ended
  <2>3. RowInv' BY <1>1, <2>1 DEF RecordFallbackSuccess, RowInv, With, Inserted, Places, Ended
  <2> QED BY <2>1, <2>2, <2>3, Writes
<1>2. ASSUME NEW c \in Calls, InsertRateLimited(c) PROVE Done
  <2>1. c \notin DOMAIN rows BY <1>2 DEF InsertRateLimited, RowInv, Ended
  <2>2. RowInv' BY <1>2 DEF InsertRateLimited, RowInv, With, Inserted, Places, Ended
  <2> QED BY <1>2, <2>1, <2>2, Writes DEF InsertRateLimited
<1>3. ASSUME NEW c \in Calls, Commit(c) PROVE Done
  <2>1. CASE Duplicate(c)
    <3>1. UNCHANGED rows BY <1>3, <2>1 DEF Commit
    <3>2. RowInv' BY <1>3, <3>1 DEF Commit, RowInv, Places, Ended
    <3> QED BY <3>1, <3>2 DEF Unchanging
  <2>2. CASE ~Duplicate(c)
    <3>1. PICK r : /\ r = IF found[c] = NoCall THEN c ELSE found[c]
                   /\ rows' = With(rows, r, IF r = c THEN Inserted(call[c]) ELSE Updated(c, rows[r]))
      BY <1>3, <2>2 DEF Commit
    <3>2. r = c \/ r \in DOMAIN rows BY <3>1 DEF RowInv
    <3>3. c \notin DOMAIN rows BY <1>3 DEF Commit, RowInv, Ended
    <3>4. r \notin DOMAIN rows \/ ~(rows[r].tokens > 0) BY <1>3, <2>2, <3>1, <3>3 DEF Duplicate, SeenInv, Commit
    <3>5. RowInv'
      BY <1>3, <3>1, <3>2 DEF Commit, RowInv, With, Inserted, Updated, Places, Ended
    <3> QED BY <3>1, <3>4, <3>5, Writes
  <2> QED BY <2>1, <2>2
<1>4. CASE DeleteRecording
  <2>1. PICK r \in DOMAIN rows : rows' = [rows EXCEPT ![r].recorded = FALSE] BY <1>4 DEF DeleteRecording
  <2>2. \A s \in DOMAIN rows : Unchanging(s) BY <2>1 DEF Unchanging, RowInv
  <2>3. RowInv' BY <1>4, <2>1 DEF DeleteRecording, RowInv
  <2> QED BY <2>2, <2>3
<1>5. ASSUME NEW c \in Calls, FindExistingSuccessMessage(c) PROVE Done
  <2>1. Matches(c) \subseteq DOMAIN rows \union {NoCall}
    BY DEF Matches, Latest, SameTrace, SameUsage
  <2>2. RowInv' BY <1>5, <2>1 DEF FindExistingSuccessMessage, RowInv, Places, Ended
  <2> QED BY <1>5, <2>2 DEF FindExistingSuccessMessage, Unchanging
<1>6. CASE UNCHANGED rows /\ RowInv' BY <1>6 DEF Unchanging
<1>7. ASSUME NEW c \in Calls,
             \/ RecordSuccessMessage(c) \/ EnterLock(c) \/ LockAgentMessageWrites(c)
             \/ RecordRateLimited(c) \/ SaveRecording(c) \/ RecordingFails(c)
      PROVE  UNCHANGED rows /\ RowInv'
  BY <1>7 DEF RecordSuccessMessage, EnterLock, LockAgentMessageWrites, RecordRateLimited,
              SaveRecording, RecordingFails, RowInv, Places, Ended
<1>8. ASSUME NEW c \in Calls, Release(c) \/ TransactionFails(c) PROVE UNCHANGED rows /\ RowInv'
  BY <1>8 DEF Release, TransactionFails, Leave, RowInv, Places, Ended
<1>9. CASE Restart
  <2>1. UNCHANGED rows /\ RowInv' BY <1>9 DEF Restart, RowInv, Places, Ended
  <2> QED BY <1>6, <2>1
<1>10. CASE EvictExpiredCooldowns \/ Tick \/ UNCHANGED vars
  <2>1. UNCHANGED rows /\ RowInv' BY <1>10 DEF EvictExpiredCooldowns, Tick, vars, RowInv
  <2> QED BY <1>6, <2>1
<1> QED
  BY <1>1, <1>2, <1>3, <1>4, <1>5, <1>6, <1>7, <1>8, <1>9, <1>10 DEF Next, Progress

---------------------------------------------------------------------------
(* Decisions *)

\* Only the call that holds the agent's row looks for duplicates and decides,
\* and the unlocked insert of an error is a row no lookup finds.
DecideInv ==
  /\ pc \in [Calls -> Places] /\ DOMAIN call = Calls
  /\ \A c \in Calls : pc[c] = "idle" => call[c] = Fresh
  /\ \A c \in Calls : pc[c] = "inserting" => call[c].kind = "rate_limited"
  /\ \A c \in Calls : pc[c] \in {"looking", "found"} => agentLock = c

LEMMA InitDecide == Init => DecideInv
BY DEF Init, DecideInv, Places, Ended

\* A call that begins says what it is to record.
LEMMA Begins ==
  ASSUME NEW c \in Calls, DecideInv,
         RecordSuccessMessage(c) \/ RecordFallbackSuccess(c) \/ RecordRateLimited(c)
  PROVE  /\ pc[c] = "idle" /\ agentLock' = agentLock
         /\ DOMAIN call' = Calls /\ \A d \in Calls \ {c} : call'[d] = call[d]
         /\ \E place \in {"queued", "inserting", "done"} :
              /\ pc' = [pc EXCEPT ![c] = place]
              /\ place = "inserting" => call'[c].kind = "rate_limited"
<1>1. CASE RecordSuccessMessage(c)
  BY <1>1 DEF RecordSuccessMessage, Goto, DecideInv
<1>2. CASE RecordFallbackSuccess(c)
  BY <1>2 DEF RecordFallbackSuccess, Goto, DecideInv
<1>3. CASE RecordRateLimited(c)
  <2>1. /\ pc[c] = "idle" /\ agentLock' = agentLock
        /\ call' = [call EXCEPT ![c].kind = "rate_limited"]
        /\ pc' \in {[pc EXCEPT ![c] = "done"], [pc EXCEPT ![c] = "inserting"]}
    BY <1>3 DEF RecordRateLimited, Goto
  <2>2. call[c] = Fresh BY <2>1 DEF DecideInv
  <2>3. call'[c].kind = "rate_limited" /\ \A d \in Calls \ {c} : call'[d] = call[d]
    BY <2>1, <2>2 DEF DecideInv, Fresh
  <2> QED BY <2>1, <2>3 DEF DecideInv
<1> QED BY <1>1, <1>2, <1>3

LEMMA NextDecide == ASSUME DecideInv, [Next]_vars PROVE DecideInv'
<1> USE DEF Goto
<1>1. ASSUME NEW c \in Calls,
             RecordSuccessMessage(c) \/ RecordFallbackSuccess(c) \/ RecordRateLimited(c)
      PROVE  DecideInv'
  BY <1>1, Begins DEF DecideInv, Places, Ended
<1>2. ASSUME NEW c \in Calls, LockAgentMessageWrites(c) PROVE DecideInv'
  <2>1. \A d \in Calls : pc[d] \notin {"looking", "found"}
    BY <1>2, RecorderAssumption DEF LockAgentMessageWrites, DecideInv
  <2> QED BY <1>2, <2>1 DEF LockAgentMessageWrites, DecideInv, Places, Ended
<1>3. ASSUME NEW c \in Calls, FindExistingSuccessMessage(c) PROVE DecideInv'
  BY <1>3 DEF FindExistingSuccessMessage, DecideInv, Places, Ended
<1>4. ASSUME NEW c \in Calls, Commit(c) \/ TransactionFails(c) PROVE DecideInv'
  <2>1. PICK place \in {"committed", "failed"} :
          /\ call' = call /\ pc' = [pc EXCEPT ![c] = place]
          /\ agentLock' \in {NoCall, agentLock}
          /\ agentLock = c => agentLock' = NoCall
    BY <1>4 DEF Commit, TransactionFails
  <2>2. \A d \in Calls : pc'[d] \in {"looking", "found"} =>
          d # c /\ pc[d] \in {"looking", "found"}
    BY <2>1 DEF DecideInv
  <2>3. \A d \in Calls : pc'[d] \in {"looking", "found"} => agentLock' = d
    BY <1>4, <2>2 DEF DecideInv, Commit, TransactionFails
  <2> QED BY <2>1, <2>3 DEF DecideInv, Places, Ended
<1>5. ASSUME NEW c \in Calls,
             \/ EnterLock(c) \/ Release(c) \/ SaveRecording(c)
             \/ InsertRateLimited(c) \/ RecordingFails(c)
      PROVE  DecideInv'
  <2>1. PICK place \in {"waiting", "dropped", "saving", "done", "failed"} :
          pc' = [pc EXCEPT ![c] = place] /\ UNCHANGED <<call, agentLock>>
    BY <1>5 DEF EnterLock, Release, SaveRecording, InsertRateLimited, RecordingFails
  <2> QED BY <2>1 DEF DecideInv, Places, Ended
<1>6. CASE Restart
  BY <1>6 DEF Restart, DecideInv, Places, Ended
<1>7. CASE UNCHANGED <<pc, call, agentLock>>
  BY <1>7 DEF DecideInv
<1> QED
  BY <1>1, <1>2, <1>3, <1>4, <1>5, <1>6, <1>7
    DEF Next, Progress, EvictExpiredCooldowns, DeleteRecording, Tick, vars

\* The rows that a lookup may find.
LookedFor == {"success", "recorded", "canned"}

Kept(r) == /\ r \in DOMAIN rows
           /\ rows'[r].status = rows[r].status /\ rows'[r].tokens = rows[r].tokens

\* While a call is about to write what it has decided, the rows that others
\* change are those of fallbacks and errors.
LEMMA DecidedRows ==
  ASSUME RowInv, DecideInv, [Next]_vars, NEW c \in Calls, pc[c] = "found", pc'[c] = "found",
         NEW r \in DOMAIN rows', call'[r].kind \in LookedFor
  PROVE  Kept(r)
<1> USE DEF Goto
<1>1. CASE UNCHANGED rows BY <1>1 DEF Kept
<1>2. ASSUME NEW d \in Calls, Commit(d) PROVE FALSE
  <2>1. d = c BY <1>2 DEF Commit, DecideInv
  <2> QED BY <1>2, <2>1 DEF Commit, DecideInv
<1>3. ASSUME NEW d \in Calls, RecordFallbackSuccess(d) PROVE Kept(r)
  <2>1. PICK m : /\ m.kind = "fallback" /\ call' = [call EXCEPT ![d] = m]
                 /\ rows' = With(rows, d, Inserted(m))
    <3>1. PICK trace \in Traces \union {NoTrace}, tokens \in Tokens :
            LET m == [Fresh EXCEPT !.kind = "fallback", !.trace = trace, !.tokens = tokens]
            IN  call' = [call EXCEPT ![d] = m] /\ rows' = With(rows, d, Inserted(m))
      BY <1>3 DEF RecordFallbackSuccess
    <3> DEFINE m == [Fresh EXCEPT !.kind = "fallback", !.trace = trace, !.tokens = tokens]
    <3>2. m.kind = "fallback" BY DEF Fresh
    <3>3. call' = [call EXCEPT ![d] = m] /\ rows' = With(rows, d, Inserted(m)) BY <3>1
    <3> HIDE DEF m
    <3> QED BY <3>2, <3>3
  <2>2. r # d BY <2>1 DEF DecideInv, LookedFor
  <2> QED BY <2>1, <2>2 DEF With, Kept
<1>4. ASSUME NEW d \in Calls, InsertRateLimited(d) PROVE Kept(r)
  <2>1. r # d BY <1>4 DEF InsertRateLimited, DecideInv, LookedFor
  <2> QED BY <1>4, <2>1 DEF InsertRateLimited, With, Kept
<1>5. CASE DeleteRecording
  <2>1. PICK s \in DOMAIN rows : rows' = [rows EXCEPT ![s].recorded = FALSE]
    BY <1>5 DEF DeleteRecording
  <2> QED BY <2>1 DEF Kept, RowInv
<1>6. ASSUME NEW d \in Calls,
             \/ RecordSuccessMessage(d) \/ RecordRateLimited(d) \/ EnterLock(d)
             \/ LockAgentMessageWrites(d) \/ FindExistingSuccessMessage(d) \/ Release(d)
             \/ SaveRecording(d) \/ TransactionFails(d) \/ RecordingFails(d)
      PROVE  UNCHANGED rows
  BY <1>6 DEF RecordSuccessMessage, RecordRateLimited, EnterLock, LockAgentMessageWrites,
              FindExistingSuccessMessage, Release, SaveRecording, TransactionFails, RecordingFails
<1>7. CASE EvictExpiredCooldowns \/ Tick \/ Restart \/ UNCHANGED vars
  <2>1. UNCHANGED rows BY <1>7 DEF EvictExpiredCooldowns, Tick, Restart, vars
  <2> QED BY <1>1, <2>1
<1> QED BY <1>1, <1>2, <1>3, <1>4, <1>5, <1>6, <1>7 DEF Next, Progress

LEMMA SeenStays ==
  ASSUME RowInv, SeenInv, DOMAIN seen' = Calls,
         \A c \in Calls : pc'[c] = "found" =>
           pc[c] = "found" /\ found'[c] = found[c] /\ seen'[c] = seen[c],
         \A r \in DOMAIN rows : rows'[r].tokens = rows[r].tokens
  PROVE  SeenInv'
BY DEF SeenInv, RowInv

\* Whatever else is written while a call is about to act on its copy, the row it
\* was copied from keeps its tokens.
LEMMA NextSeen == ASSUME RowInv, DecideInv, SeenInv, [Next]_vars PROVE SeenInv'
<1> USE DEF Goto
<1>1. ASSUME NEW c \in Calls, FindExistingSuccessMessage(c) PROVE SeenInv'
  BY <1>1 DEF FindExistingSuccessMessage, SeenInv, RowInv
<1>2. ASSUME NEW c \in Calls, Commit(c) PROVE SeenInv'
  <2>1. \A d \in Calls : pc'[d] # "found" BY <1>2 DEF Commit, DecideInv
  <2> QED BY <1>2, <2>1 DEF Commit, SeenInv
<1>3. ASSUME NEW c \in Calls, RecordFallbackSuccess(c) \/ InsertRateLimited(c) PROVE SeenInv'
  <2>1. PICK row : rows' = With(rows, c, row)
    BY <1>3 DEF RecordFallbackSuccess, InsertRateLimited
  <2>2. c \notin DOMAIN rows BY <1>3 DEF RecordFallbackSuccess, InsertRateLimited, RowInv, Ended
  <2>3. \A r \in DOMAIN rows : rows'[r].tokens = rows[r].tokens BY <2>1, <2>2 DEF With
  <2>4. UNCHANGED <<found, seen>> /\ pc' = [pc EXCEPT ![c] = "done"]
    BY <1>3 DEF RecordFallbackSuccess, InsertRateLimited
  <2>5. DOMAIN seen' = Calls BY <2>4 DEF SeenInv
  <2>6. \A d \in Calls : pc'[d] = "found" => pc[d] = "found" BY <2>4 DEF RowInv
  <2> QED BY <2>3, <2>4, <2>5, <2>6, SeenStays
<1>4. CASE DeleteRecording
  <2>1. PICK r \in DOMAIN rows : rows' = [rows EXCEPT ![r].recorded = FALSE] BY <1>4 DEF DeleteRecording
  <2>2. \A s \in DOMAIN rows : rows'[s].tokens = rows[s].tokens BY <2>1 DEF RowInv
  <2> QED BY <1>4, <2>2, SeenStays DEF DeleteRecording, SeenInv
<1>5. ASSUME NEW c \in Calls,
             \/ RecordSuccessMessage(c) \/ RecordRateLimited(c) \/ EnterLock(c)
             \/ LockAgentMessageWrites(c) \/ Release(c) \/ SaveRecording(c)
             \/ TransactionFails(c) \/ RecordingFails(c)
      PROVE  SeenInv'
  <2>1. PICK place \in Places \ {"found"} : pc' = [pc EXCEPT ![c] = place] /\ UNCHANGED rows
    BY <1>5 DEF RecordSuccessMessage, RecordRateLimited, EnterLock, LockAgentMessageWrites, Release,
                SaveRecording, TransactionFails, RecordingFails, Places, Ended
  <2>2. /\ found' \in {found, [found EXCEPT ![c] = NoCall]}
        /\ seen' \in {seen, [seen EXCEPT ![c] = 0]}
    BY <1>5 DEF RecordSuccessMessage, RecordRateLimited, EnterLock, LockAgentMessageWrites, Release,
                SaveRecording, TransactionFails, RecordingFails, Leave
  <2>3. DOMAIN seen' = Calls BY <2>2 DEF SeenInv
  <2>4. \A d \in Calls : pc'[d] = "found" =>
          pc[d] = "found" /\ found'[d] = found[d] /\ seen'[d] = seen[d]
    BY <2>1, <2>2 DEF RowInv, SeenInv
  <2> QED BY <2>1, <2>3, <2>4, SeenStays
<1>6. CASE Restart
  BY <1>6 DEF Restart, SeenInv, Ended
<1>7. CASE UNCHANGED <<pc, found, seen, rows>>
  BY <1>7 DEF SeenInv
<1> QED
  BY <1>1, <1>2, <1>3, <1>4, <1>5, <1>6, <1>7
    DEF Next, Progress, EvictExpiredCooldowns, Tick, vars

LEMMA InitSeen == Init => SeenInv
BY DEF Init, SeenInv

\* Tokens a request has been charged with are never overwritten by another one: the
\* update is decided on a copy of the row, and by no interleaving of the dedup
\* transactions with the unlocked writes has the row got tokens since.
THEOREM TokensAreSettled == Spec => TokensSettle
<1>1. Init => RowInv /\ DecideInv /\ SeenInv BY InitRows, InitDecide, InitSeen
<1>2. RowInv /\ DecideInv /\ SeenInv /\ [Next]_vars => RowInv' /\ DecideInv' /\ SeenInv'
  BY NextRows, NextDecide, NextSeen
<1>3. RowInv /\ SeenInv /\ [Next]_vars =>
        \A r \in DOMAIN rows : rows[r].tokens > 0 =>
          /\ r \in DOMAIN rows'
          /\ rows'[r].tokens = rows[r].tokens /\ rows'[r].status = rows[r].status
  BY NextRows DEF Unchanging
<1> QED BY <1>1, <1>2, <1>3, PTL DEF Spec, TokensSettle

\* What a call has found, a row or none, is still so when it writes: whoever
\* else looks for duplicates is kept out by the lock on the agent's row.
THEOREM DecisionsAreKept == Spec => DecisionsHold
<1>1. Init => RowInv /\ DecideInv /\ SeenInv BY InitRows, InitDecide, InitSeen
<1>2. RowInv /\ DecideInv /\ SeenInv /\ [Next]_vars => RowInv' /\ DecideInv' /\ SeenInv'
  BY NextRows, NextDecide, NextSeen
<1>3. ASSUME RowInv, DecideInv, [Next]_vars
      PROVE  \A c \in Calls : pc[c] = "found" /\ pc'[c] = "found" =>
               \A r \in {s \in DOMAIN rows' : call'[s].kind \in {"success", "recorded", "canned"}} :
                 /\ r \in DOMAIN rows
                 /\ rows'[r].status = rows[r].status /\ rows'[r].tokens = rows[r].tokens
  BY <1>3, DecidedRows DEF Kept, LookedFor
<1> QED BY <1>1, <1>2, <1>3, PTL DEF Spec, DecisionsHold
-------------------------------------------------------------------------------
(* Limits.  LimitCheck judges requests by the rows that the recorder writes.     *)
(* What a cache holds was true of the database when it was asked for, and the    *)
(* database keeps what it needs to show it: tokens are only added, in the        *)
(* present, and a rule that is replaced goes to the past.                        *)

Items == [rule : Rules, period : Periods, threshold : Nat]
Times == 0..Horizon

\* x is a rule in force, or was one at that time or later.
InForce(x, from) ==
  \/ x \in ActiveBlockRules
  \/ \E p \in past : p.rule = x /\ p.until \in Nat /\ p.until >= from

\* S holds every rule in force that has not been edited at that time or later.
Holds(S, from) == \A x \in ActiveBlockRules : since[x.rule] < from => x \in S

\* tokens is what a query asked at that time may have been answered.
CountedAt(start, tokens, asked) ==
  /\ asked \in 0..clock /\ start \in 0..asked /\ tokens \in Nat
  /\ tokens <= Consumed(start, clock)
  /\ \A t \in 0..asked : t < asked => Consumed(start, t) <= tokens

\* A rule was under its threshold in a period that was current since then.
BelowThreshold(x, from) ==
  \E t \in from..clock : Consumed(PeriodStart(x.period, t), from - TTL) < x.threshold

\* Tokens are only added, and only to the present; nothing is stamped in the future.
DatabaseInv ==
  /\ clock \in Times /\ HourTicks <= clock
  /\ upTo \in [Times -> Nat]
  /\ \A s, t \in Times : s <= t => upTo[s] <= upTo[t]
  /\ \A t \in Times : clock <= t => upTo[t] = upTo[clock]
  /\ rules \in Configurations
  /\ since \in [Rules -> Nat]
  /\ \A r \in Rules : HourTicks <= since[r] /\ since[r] <= clock
  /\ unannounced \in Nat /\ timer \in Nat /\ owing \in Nat

\* An entry of a cache was true when its query was asked, a TTL before it expires.
RulesEntryInv(e) ==
  e # NoEntry =>
    /\ e.data \subseteq Items /\ e.expiresAt \in Nat
    /\ e.expiresAt - TTL \in 0..clock
    /\ Holds(e.data, e.expiresAt - TTL)
    /\ \A x \in e.data : InForce(x, e.expiresAt - TTL)

EntriesInv(cache) ==
  \A s \in DOMAIN cache :
    cache[s].expiresAt \in Nat /\ CountedAt(s, cache[s].data, cache[s].expiresAt - TTL)

\* A check that began at b has read these rules, and awaits them.
AsksRules(b, left, q) ==
  /\ b \in HourTicks..clock /\ q.asked = b
  /\ left \subseteq Items
  /\ Holds(left, b)
  /\ \A x \in left : InForce(x, b)

\* What a loop over these rules goes by.
ReadyToLoop(b, left) ==
  /\ b \in HourTicks..clock
  /\ left \subseteq Items
  /\ \A x \in left : InForce(x, b - TTL + 1)
  /\ \A x \in ActiveBlockRules :
       since[x.rule] <= b - TTL => x \in left \/ BelowThreshold(x, b)

\* A check that began at b awaits the answer to q; left is what it is still to look at.
AsksConsumption(b, left, q) ==
  /\ q.rule \in Items
  /\ q.asked \in b..clock /\ q.start = PeriodStart(q.rule.period, q.asked)
  /\ ReadyToLoop(b, left \cup {q.rule})
  /\ CountedAt(q.start, q.tokens, q.asked)

Checking ==
  /\ at \in [Checks -> {"idle", "rules", "consumption"}]
  /\ began \in [Checks -> Nat] /\ DOMAIN todo = Checks /\ DOMAIN query = Checks
  /\ \A c \in Checks :
       /\ at[c] = "rules" => AsksRules(began[c], todo[c], query[c])
       /\ at[c] = "consumption" => AsksConsumption(began[c], todo[c], query[c])

\* The inductive invariant.
LimitsInv ==
  /\ DatabaseInv
  /\ RulesEntryInv(rulesCache)
  /\ EntriesInv(consumption)
  /\ Checking
  /\ LimitsUpheld
  /\ RefusalsEarned

\* What the caches may hold while no eviction is missed.
UpToDate(S) == S = ActiveBlockRules \/ owing > 0
Current(start, tokens) ==
  tokens = Consumed(start, clock) \/ unannounced > 0 \/ timer # NoTimer

\* The same of what is on its way into the caches.
Filling ==
  /\ DOMAIN missed = Checks
  /\ \A c \in Checks :
       /\ at[c] = "rules" => UpToDate(todo[c]) \/ missed[c]
       /\ at[c] = "consumption" => Current(query[c].start, query[c].tokens) \/ missed[c]

-----------------------------------------------------------------------------
LEMMA DayBefore ==
  ASSUME NEW d \in Nat \ {0}, NEW t \in Nat PROVE d * (t \div d) \in 0..t
BY SMT

LEMMA HourBefore ==
  ASSUME NEW d \in Nat \ {0}, NEW t \in Nat, d <= t PROVE d * ((t \div d) - 1) \in 0..t
BY SMT

LEMMA StartBefore ==
  ASSUME NEW p \in Periods, NEW t \in Nat, HourTicks <= t
  PROVE  PeriodStart(p, t) \in 0..t
<1>1. HourTicks \in Nat \ {0} /\ DayTicks \in Nat \ {0} BY LimitsAssumption
<1>2. p = "hour" => PeriodStart(p, t) \in 0..t BY <1>1, HourBefore DEF PeriodStart
<1>3. p = "day" => PeriodStart(p, t) \in 0..t BY <1>1, DayBefore DEF PeriodStart
<1> QED BY <1>2, <1>3 DEF Periods

LEMMA LimitsGiven ==
  /\ HourTicks \in Nat \ {0} /\ DayTicks \in Nat \ {0} /\ TTL \in Nat \ {0}
         /\ DEBOUNCE \in Nat /\ MaxUsage \in Nat /\ MaxChanges \in Nat
         /\ Horizon \in Nat /\ HourTicks <= Horizon
BY LimitsAssumption

LEMMA EarlierIsATime ==
  ASSUME DatabaseInv, NEW t \in Nat, t <= clock
  PROVE  t \in Times
<1>1. clock \in Nat /\ clock <= Horizon /\ Horizon \in Nat BY LimitsGiven DEF DatabaseInv, Times
<1> QED BY <1>1 DEF Times

LEMMA ConsumedIsInt ==
  ASSUME DatabaseInv, NEW h \in Nat, h <= clock, NEW s \in 0..clock
  PROVE  Consumed(s, h) \in Int
<1>1. clock \in Nat BY DEF DatabaseInv, Times
<1>2. s # 0 => s - 1 \in Nat /\ s - 1 <= clock BY <1>1
<1>3. h \in Times /\ (s # 0 => s - 1 \in Times) BY <1>2, EarlierIsATime
<1>4. upTo[h] \in Nat /\ (s # 0 => upTo[s - 1] \in Nat) BY <1>3 DEF DatabaseInv
<1> QED BY <1>4 DEF Consumed

LEMMA ActiveAreItems ==
  ASSUME rules \in Configurations
  PROVE  ActiveBlockRules \subseteq Items
<1>1. ASSUME NEW r \in Rules PROVE rules[r] \in [active : BOOLEAN, period : Periods, threshold : Nat]
  BY LimitsAssumption DEF Configurations
<1> QED BY <1>1 DEF ActiveBlockRules, Items

\* What a step does to the database and the clock.
DatabaseMoves ==
  /\ DatabaseInv'
  /\ clock <= clock'
  /\ \A t \in Times : upTo[t] <= upTo'[t] /\ (t < clock => upTo'[t] = upTo[t])
  /\ past \subseteq past'
  /\ \A x \in ActiveBlockRules :
       x \in ActiveBlockRules' \/ \E p \in past' : p.rule = x /\ p.until = clock
  /\ \A x \in ActiveBlockRules' :
       \/ x \in ActiveBlockRules /\ since'[x.rule] = since[x.rule]
       \/ since'[x.rule] >= clock

LEMMA StillMoves ==
  ASSUME DatabaseInv, UNCHANGED <<clock, database>>,
         unannounced' \in Nat, timer' \in Nat, owing' \in Nat
  PROVE  DatabaseMoves
<1>1. ActiveBlockRules' = ActiveBlockRules BY DEF ActiveBlockRules, database
<1>2. DatabaseInv' BY DEF DatabaseInv, database
<1> QED BY <1>1, <1>2 DEF DatabaseMoves, database, DatabaseInv, Times

LEMMA TickMoves ==
  ASSUME DatabaseInv, ClockTick
  PROVE  DatabaseMoves /\ \A s \in 0..clock : \A n : Current(s, n) => Current(s, n)'
<1>1. ActiveBlockRules' = ActiveBlockRules BY DEF ActiveBlockRules, database, ClockTick
<1>2. clock' \in Times /\ clock' = clock + 1 BY LimitsAssumption DEF ClockTick, DatabaseInv, Times
<1>3. upTo'[clock'] = upTo[clock] BY <1>2 DEF ClockTick, DatabaseInv, Times, database
<1>4. DatabaseInv' BY <1>2, <1>3, LimitsGiven DEF DatabaseInv, database, events, ClockTick, Times
<1>5. ASSUME NEW s \in 0..clock PROVE Consumed(s, clock)' = Consumed(s, clock)
  BY <1>3 DEF Consumed, ClockTick, database
<1> QED BY <1>1, <1>2, <1>4, <1>5 DEF DatabaseMoves, ClockTick, database, DatabaseInv, Times, Current, events

LEMMA WriteRowMoves ==
  ASSUME DatabaseInv, WriteRow
  PROVE  DatabaseMoves /\ \A s, n : Current(s, n)'
<1>1. ActiveBlockRules' = ActiveBlockRules BY DEF ActiveBlockRules, WriteRow
<1>2. clock' = clock /\ clock \in Nat /\ unannounced' \in Nat /\ unannounced' > 0
  BY DEF WriteRow, DatabaseInv, Times
<1>3. \A t \in Times : upTo'[t] = IF t >= clock THEN upTo[t] + 1 ELSE upTo[t]
  BY DEF WriteRow, Times
<1>4. upTo' \in [Times -> Nat] BY <1>2 DEF WriteRow, DatabaseInv, Times
<1>a. /\ \A s, t \in Times : s <= t => upTo[s] <= upTo[t]
      /\ \A t \in Times : clock <= t => upTo[t] = upTo[clock]
      /\ \A t \in Times : t \in Nat /\ upTo[t] \in Nat
      /\ clock \in Times
  BY DEF DatabaseInv, Times
<1>5. ASSUME NEW s \in Times, NEW t \in Times, s <= t PROVE upTo'[s] <= upTo'[t]
  <2>1. s \in Nat /\ t \in Nat /\ upTo[s] \in Nat /\ upTo[t] \in Nat /\ upTo[s] <= upTo[t]
    BY <1>5, <1>a
  <2>2. upTo'[s] = (IF s >= clock THEN upTo[s] + 1 ELSE upTo[s])
        /\ upTo'[t] = (IF t >= clock THEN upTo[t] + 1 ELSE upTo[t])
    BY <1>3
  <2> QED BY <1>2, <1>5, <2>1, <2>2
<1>6. \A t \in Times : clock' <= t => upTo'[t] = upTo'[clock'] BY <1>2, <1>3, <1>a
<1>7. DatabaseInv' BY <1>2, <1>4, <1>5, <1>6 DEF DatabaseInv, WriteRow
<1>8. \A t \in Times : upTo[t] <= upTo'[t] /\ (t < clock => upTo'[t] = upTo[t]) BY <1>2, <1>3, <1>a
<1> QED BY <1>1, <1>2, <1>7, <1>8 DEF DatabaseMoves, WriteRow, Current

LEMMA ChangeRuleMoves ==
  ASSUME DatabaseInv, NEW r \in Rules, ChangeRule(r)
  PROVE  /\ DatabaseMoves /\ owing' > 0
         /\ \A s, n : Current(s, n) => Current(s, n)'
<1>1. clock' = clock /\ clock \in Nat /\ owing' \in Nat /\ owing' > 0 /\ upTo' = upTo
      /\ unannounced' = unannounced /\ timer' = timer
  BY DEF ChangeRule, DatabaseInv, Times
<1>2. PICK shape \in Shapes[r] : rules' = [rules EXCEPT ![r] = shape] BY DEF ChangeRule
<1>3. rules' \in Configurations BY <1>2 DEF Configurations, DatabaseInv
<1>4. since' = [since EXCEPT ![r] = clock] BY DEF ChangeRule
<1>6. past' = past \union {[rule |-> x, until |-> clock] :
                            x \in {x \in ActiveBlockRules : x.rule = r}}
  BY DEF ChangeRule
<1>5. DatabaseInv' BY <1>1, <1>3, <1>4 DEF DatabaseInv, Times
<1>7. \A x \in ActiveBlockRules : x.rule \in Rules BY DEF ActiveBlockRules
<1>8. ASSUME NEW s \in Rules \ {r} PROVE rules'[s] = rules[s] /\ since'[s] = since[s]
  BY <1>2, <1>4 DEF DatabaseInv, Configurations
<1>9. ASSUME NEW x \in ActiveBlockRules
      PROVE  x \in ActiveBlockRules' \/ \E p \in past' : p.rule = x /\ p.until = clock
  <2>1. CASE x.rule = r
    <3>1. [rule |-> x, until |-> clock] \in past' BY <1>6, <2>1
    <3> QED BY <3>1
  <2>2. CASE x.rule # r BY <1>7, <1>8, <2>2 DEF ActiveBlockRules
  <2> QED BY <2>1, <2>2
<1>10. ASSUME NEW x \in ActiveBlockRules'
       PROVE  \/ x \in ActiveBlockRules /\ since'[x.rule] = since[x.rule]
              \/ since'[x.rule] >= clock
  <2>1. PICK s \in Rules : x = [rule |-> s, period |-> rules'[s].period, threshold |-> rules'[s].threshold]
                            /\ rules'[s].active
    BY DEF ActiveBlockRules
  <2>2. CASE s = r BY <1>1, <1>4, <2>1, <2>2 DEF DatabaseInv
  <2>3. CASE s # r BY <1>8, <2>1, <2>3 DEF ActiveBlockRules
  <2> QED BY <2>2, <2>3
<1>11. past \subseteq past' BY <1>6
<1>12. \A t \in Times : upTo[t] <= upTo'[t] /\ (t < clock => upTo'[t] = upTo[t])
  BY <1>1 DEF DatabaseInv
<1> QED BY <1>1, <1>5, <1>9, <1>10, <1>11, <1>12 DEF DatabaseMoves, Current, Consumed
-----------------------------------------------------------------------------
\* What a check or an entry says of the database stays true as it moves on.
LEMMA InForceStays ==
  ASSUME DatabaseMoves, DatabaseInv, NEW x, NEW f \in Int, f <= clock, InForce(x, f)
  PROVE  InForce(x, f)'
<1>1. clock \in Nat BY DEF DatabaseInv, Times
<1>2. CASE x \in ActiveBlockRules BY <1>1, <1>2 DEF InForce, DatabaseMoves
<1>3. CASE \E p \in past : p.rule = x /\ p.until \in Nat /\ p.until >= f BY <1>3 DEF InForce, DatabaseMoves
<1> QED BY <1>2, <1>3 DEF InForce

LEMMA HoldsStays ==
  ASSUME DatabaseMoves, DatabaseInv, NEW S, NEW f \in Int, f <= clock, Holds(S, f)
  PROVE  Holds(S, f)'
<1> SUFFICES ASSUME NEW x \in ActiveBlockRules', since'[x.rule] < f PROVE x \in S
  BY DEF Holds
<1>1. x.rule \in Rules BY DEF ActiveBlockRules
<1>2. since'[x.rule] \in Nat /\ clock \in Nat BY <1>1 DEF DatabaseMoves, DatabaseInv, Times
<1> QED BY <1>1, <1>2 DEF Holds, DatabaseMoves

LEMMA CountStays ==
  ASSUME DatabaseMoves, DatabaseInv, NEW s, NEW n, NEW a, CountedAt(s, n, a)
  PROVE  CountedAt(s, n, a)'
<1>1. /\ a \in 0..clock /\ s \in 0..a /\ n \in Nat /\ n <= Consumed(s, clock)
      /\ \A t \in 0..a : t < a => Consumed(s, t) <= n
  BY DEF CountedAt
<1>2. clock \in Times /\ clock' \in Times /\ clock <= clock' BY DEF DatabaseMoves, DatabaseInv
<1>3. a \in Times /\ s \in Times BY <1>1, <1>2, LimitsGiven DEF Times
<1>4. upTo \in [Times -> Nat] /\ upTo' \in [Times -> Nat] BY DEF DatabaseMoves, DatabaseInv
<1>5. upTo[clock] <= upTo'[clock'] BY <1>2, <1>4 DEF DatabaseMoves, DatabaseInv, Times
<1>6. s # 0 => s - 1 \in Times /\ upTo'[s - 1] = upTo[s - 1]
  BY <1>1, <1>2, <1>3, LimitsGiven DEF DatabaseMoves, Times
<1>7. Consumed(s, clock) <= Consumed(s, clock)' BY <1>1, <1>2, <1>3, <1>4, <1>5, <1>6 DEF Consumed
<1>8. ASSUME NEW t \in 0..a, t < a PROVE Consumed(s, t)' = Consumed(s, t)
  <2>1. upTo'[t] = upTo[t] BY <1>1, <1>2, <1>3, <1>8, LimitsGiven DEF DatabaseMoves, Times
  <2> QED BY <1>6, <2>1 DEF Consumed
<1>9. Consumed(s, clock) \in Int /\ Consumed(s, clock)' \in Int
  BY <1>2, <1>3, <1>4, <1>6 DEF Consumed
<1>10. n <= Consumed(s, clock)' BY <1>1, <1>7, <1>9
<1> QED BY <1>1, <1>2, <1>8, <1>10 DEF CountedAt, Times

LEMMA UnderStays ==
  ASSUME DatabaseMoves, DatabaseInv, NEW x \in Items, NEW b \in HourTicks..clock,
         BelowThreshold(x, b), TTL <= b
  PROVE  BelowThreshold(x, b)'
<1>1. PICK t \in b..clock : Consumed(PeriodStart(x.period, t), b - TTL) < x.threshold BY DEF BelowThreshold
<1>2. clock \in Times /\ clock' \in Times /\ clock <= clock' BY DEF DatabaseMoves, DatabaseInv
<1>3. t \in Times /\ HourTicks <= t /\ b \in Times BY <1>2, LimitsGiven DEF Times
<1>4. PeriodStart(x.period, t) \in 0..t BY <1>3, StartBefore DEF Items, Times
<1> DEFINE h == b - TTL
           s == PeriodStart(x.period, t)
<1>5. h \in Times /\ h < clock BY <1>2, <1>3, LimitsGiven DEF Times
<1>6. upTo'[h] = upTo[h] BY <1>5 DEF DatabaseMoves
<1>7. s # 0 => s - 1 \in Times /\ s - 1 < clock BY <1>2, <1>3, <1>4, LimitsGiven DEF Times
<1>8. s # 0 => upTo'[s - 1] = upTo[s - 1] BY <1>7 DEF DatabaseMoves
<1>9. Consumed(s, h)' = Consumed(s, h) BY <1>6, <1>8 DEF Consumed
<1>10. t \in b..clock' BY <1>2, <1>3 DEF Times
<1> QED BY <1>1, <1>9, <1>10 DEF BelowThreshold

LEMMA ReadyStays ==
  ASSUME DatabaseMoves, DatabaseInv, NEW b, NEW left, ReadyToLoop(b, left)
  PROVE  ReadyToLoop(b, left)'
<1>1. /\ b \in HourTicks..clock /\ left \subseteq Items
      /\ \A x \in left : InForce(x, b - TTL + 1)
      /\ \A x \in ActiveBlockRules : since[x.rule] <= b - TTL => x \in left \/ BelowThreshold(x, b)
  BY DEF ReadyToLoop
<1>2. clock \in Nat /\ clock' \in Nat /\ clock <= clock' /\ TTL \in Nat \ {0} /\ HourTicks \in Nat \ {0}
  BY LimitsGiven DEF DatabaseMoves, DatabaseInv, Times
<1>3. \A x \in left : InForce(x, b - TTL + 1)'
  <2>1. b - TTL + 1 \in Int /\ b - TTL + 1 <= clock BY <1>1, <1>2
  <2> QED BY <1>1, <2>1, InForceStays
<1>4. ASSUME NEW x \in ActiveBlockRules', since'[x.rule] <= b - TTL
      PROVE  x \in left \/ BelowThreshold(x, b)'
  <2>1. x.rule \in Rules BY DEF ActiveBlockRules
  <2>2. since'[x.rule] \in Nat /\ HourTicks <= since'[x.rule] BY <2>1 DEF DatabaseMoves, DatabaseInv
  <2>3. x \in ActiveBlockRules /\ since'[x.rule] = since[x.rule]
    BY <1>1, <1>2, <1>4, <2>2 DEF DatabaseMoves
  <2>4. x \in left \/ BelowThreshold(x, b) BY <1>1, <1>4, <2>3
  <2>5. x \in Items BY <2>3, ActiveAreItems DEF DatabaseInv
  <2>6. TTL <= b BY <1>1, <1>2, <1>4, <2>2
  <2> QED BY <1>1, <2>4, <2>5, <2>6, UnderStays
<1>5. b \in HourTicks..clock' BY <1>1, <1>2
<1> QED BY <1>1, <1>3, <1>4, <1>5 DEF ReadyToLoop

LEMMA AsksRulesStays ==
  ASSUME DatabaseMoves, DatabaseInv, NEW b, NEW left, NEW q, AsksRules(b, left, q)
  PROVE  AsksRules(b, left, q)'
<1>1. b \in HourTicks..clock /\ clock \in Nat /\ clock' \in Nat /\ clock <= clock' /\ HourTicks \in Nat
  BY LimitsGiven DEF AsksRules, DatabaseMoves, DatabaseInv, Times
<1>2. b \in Int /\ b <= clock /\ b \in HourTicks..clock' BY <1>1
<1>3. Holds(left, b)' BY <1>2, HoldsStays DEF AsksRules
<1>4. \A x \in left : InForce(x, b)' BY <1>2, InForceStays DEF AsksRules
<1> QED BY <1>2, <1>3, <1>4 DEF AsksRules

LEMMA AsksConsumptionStays ==
  ASSUME DatabaseMoves, DatabaseInv, NEW b, NEW left, NEW q, AsksConsumption(b, left, q)
  PROVE  AsksConsumption(b, left, q)'
<1>1. ReadyToLoop(b, left \cup {q.rule})' BY ReadyStays DEF AsksConsumption
<1>2. CountedAt(q.start, q.tokens, q.asked)' BY CountStays DEF AsksConsumption
<1>3. b \in Nat BY LimitsGiven DEF AsksConsumption, ReadyToLoop
<1>4. q.asked \in b..clock' BY <1>3 DEF AsksConsumption, DatabaseMoves, DatabaseInv, Times
<1> QED BY <1>1, <1>2, <1>4 DEF AsksConsumption

LEMMA EntriesStay ==
  ASSUME DatabaseMoves, DatabaseInv, NEW cache, EntriesInv(cache)
  PROVE  EntriesInv(cache)'
BY CountStays DEF EntriesInv

LEMMA RulesEntryStays ==
  ASSUME DatabaseMoves, DatabaseInv, NEW e, RulesEntryInv(e)
  PROVE  RulesEntryInv(e)'
<1> SUFFICES ASSUME e # NoEntry PROVE RulesEntryInv(e)' BY DEF RulesEntryInv
<1> DEFINE a == e.expiresAt - TTL
<1>1. a \in 0..clock /\ clock \in Nat /\ clock' \in Nat /\ clock <= clock'
  BY DEF RulesEntryInv, DatabaseMoves, DatabaseInv, Times
<1>2. a \in Int /\ a <= clock /\ a \in 0..clock' BY <1>1
<1>3. Holds(e.data, a)' BY <1>2, HoldsStays DEF RulesEntryInv
<1>4. \A x \in e.data : InForce(x, a)' BY <1>2, InForceStays DEF RulesEntryInv
<1> QED BY <1>2, <1>3, <1>4 DEF RulesEntryInv
-----------------------------------------------------------------------------
\* The loop asks for the consumption of x, having found those before under their thresholds.
Asks(c, b, left, cache, x, before) ==
  /\ \A y \in before : Cached(y, cache) /\ ~Reached(InCache(y, cache))
  /\ at' = [at EXCEPT ![c] = "consumption"]
  /\ began' = [began EXCEPT ![c] = b]
  /\ todo' = [todo EXCEPT ![c] = left \ ({x} \union before)]
  /\ query' = [query EXCEPT ![c] = Query(x, Consumed(PeriodStart(x.period, clock), clock))]
  /\ consumption' = [s \in {s \in DOMAIN cache : Alive(cache[s])} |-> cache[s]]
  /\ verdict' = Silent

\* The loop of checkLimits passes, refuses, or asks.
LEMMA LoopOutcomes ==
  ASSUME NEW c \in Checks, NEW b, NEW left, NEW cache, Loop(c, b, left, cache)
  PROVE  \/ /\ Return(c, Passed(b)) /\ consumption' = cache
            /\ \A x \in left : Cached(x, cache) /\ ~Reached(InCache(x, cache))
         \/ \E x \in left :
              /\ Cached(x, cache) /\ Reached(InCache(x, cache))
              /\ Return(c, Refused(b, InCache(x, cache))) /\ consumption' = cache
         \/ \E x \in left, before \in SUBSET left : Asks(c, b, left, cache, x, before)
<1> DEFINE goesOn == {x \in left : Cached(x, cache) /\ ~Reached(InCache(x, cache))}
<1>1. CASE left = goesOn
  <2>1. Return(c, Passed(b)) /\ consumption' = cache BY <1>1 DEF Loop
  <2> QED BY <1>1, <2>1
<1>2. CASE left # goesOn
  <2>1. PICK x \in left \ goesOn, before \in SUBSET goesOn :
          IF Cached(x, cache)
            THEN Return(c, Refused(b, InCache(x, cache))) /\ consumption' = cache
            ELSE Asks(c, b, left, cache, x, before)
    BY <1>2 DEF Loop, Asks
  <2> QED BY <2>1
<1> QED BY <1>1, <1>2

\* An entry that is alive decides as well as the database a TTL before the check.
LEMMA CachedIsCounted ==
  ASSUME DatabaseInv, NEW cache, EntriesInv(cache), NEW x \in Items,
         Cached(x, cache), NEW b \in HourTicks..clock
  PROVE  LET q == InCache(x, cache) IN
         /\ q = [asked |-> clock, rule |-> x, start |-> PeriodStart(x.period, clock), tokens |-> q.tokens]
         /\ q.tokens \in Nat /\ q.tokens <= Consumed(q.start, clock)
         /\ TTL <= b /\ ~Reached(q) => BelowThreshold(x, b)
<1> DEFINE s == PeriodStart(x.period, clock)
           n == cache[s].data
           a == cache[s].expiresAt - TTL
<1>1. InCache(x, cache) = [asked |-> clock, rule |-> x, start |-> s, tokens |-> n]
  BY DEF InCache, Query
<1>2. s \in DOMAIN cache /\ cache[s].expiresAt > clock BY DEF Cached, Alive
<1>3. CountedAt(s, n, a) BY <1>2 DEF EntriesInv
<1>4. n \in Nat /\ n <= Consumed(s, clock) /\ a \in 0..clock
      /\ \A t \in 0..a : t < a => Consumed(s, t) <= n
  BY <1>3 DEF CountedAt
<1>5. ASSUME TTL <= b, ~Reached(InCache(x, cache)) PROVE BelowThreshold(x, b)
  <2>1. ~(n >= x.threshold) BY <1>1, <1>5 DEF Reached
  <2>2. x.threshold \in Nat BY DEF Items
  <2> DEFINE h == b - TTL
  <2>3. clock \in Nat /\ b \in Nat /\ b <= clock /\ TTL \in Nat \ {0} /\ HourTicks \in Nat
    BY LimitsGiven DEF DatabaseInv, Times
  <2>4. cache[s].expiresAt \in Nat BY <1>2 DEF EntriesInv
  <2> HIDE DEF s
  <2>5. h < a /\ h \in 0..a /\ h \in Times
    <3>1. PICK e \in Nat : e = cache[s].expiresAt BY <2>4
    <3>2. e > clock /\ e - TTL \in 0..clock BY <1>2, <1>4, <3>1
    <3>3. h < e - TTL /\ h \in 0..(e - TTL) BY <1>5, <2>3, <3>2
    <3>4. clock <= Horizon /\ Horizon \in Nat BY LimitsGiven DEF DatabaseInv, Times
    <3>5. h \in Times BY <2>3, <1>5, <3>4 DEF Times
    <3> QED BY <3>1, <3>3, <3>5
  <2>6. Consumed(s, h) <= n BY <1>4, <2>5
  <2>7. h \in Nat /\ h <= clock BY <1>5, <2>3
  <2>a. s \in 0..clock
    <3>1. PICK k \in 0..clock : k = a BY <1>4
    <3>2. s \in 0..k BY <1>3, <3>1 DEF CountedAt
    <3> QED BY <2>3, <3>1, <3>2
  <2>8. Consumed(s, h) \in Int BY <2>7, <2>a, ConsumedIsInt
  <2>9. Consumed(s, h) < x.threshold BY <1>4, <2>1, <2>2, <2>6, <2>8
  <2>10. clock \in b..clock BY <2>3
  <2> QED BY <2>9, <2>10 DEF BelowThreshold, s
<1> QED BY <1>1, <1>4, <1>5

LEMMA AnswersAreCounted ==
  ASSUME DatabaseInv, NEW s \in 0..clock
  PROVE  CountedAt(s, Consumed(s, clock), clock)
<1>1. clock \in Nat /\ clock \in Times /\ (s # 0 => s - 1 \in Times) /\ 0..clock \subseteq Times
  BY LimitsGiven DEF DatabaseInv, Times
<1>2. upTo \in [Times -> Nat] BY DEF DatabaseInv
<1>3. \A t \in 0..clock : upTo[t] <= upTo[clock] BY <1>1 DEF DatabaseInv
<1>4. s # 0 => upTo[s - 1] <= upTo[clock] BY <1>1 DEF DatabaseInv
<1>5. Consumed(s, clock) \in Nat BY <1>1, <1>2, <1>4 DEF Consumed
<1>6. \A t \in 0..clock : Consumed(s, t) <= Consumed(s, clock) BY <1>1, <1>2, <1>3 DEF Consumed
<1> QED BY <1>1, <1>5, <1>6 DEF CountedAt

LEMMA CheckStays ==
  ASSUME DatabaseMoves, DatabaseInv, Checking, NEW d \in Checks,
         at'[d] = at[d], began'[d] = began[d], todo'[d] = todo[d], query'[d] = query[d]
  PROVE  /\ (at[d] = "rules" => AsksRules(began[d], todo[d], query[d]))'
         /\ (at[d] = "consumption" => AsksConsumption(began[d], todo[d], query[d]))'
<1>1. PICK b, left, q : b = began[d] /\ left = todo[d] /\ q = query[d] OBVIOUS
<1>2. at[d] = "rules" => AsksRules(b, left, q)' BY <1>1, AsksRulesStays DEF Checking
<1>3. at[d] = "consumption" => AsksConsumption(b, left, q)' BY <1>1, AsksConsumptionStays DEF Checking
<1> QED BY <1>1, <1>2, <1>3

LEMMA ReturnStays ==
  ASSUME DatabaseMoves, DatabaseInv, Checking, NEW c \in Checks, NEW v, Return(c, v)
  PROVE  Checking'
<1>1. /\ at' = [at EXCEPT ![c] = "idle"] /\ began' = [began EXCEPT ![c] = HourTicks]
      /\ todo' = [todo EXCEPT ![c] = {}] /\ query' = [query EXCEPT ![c] = NoQuery]
  BY DEF Return
<1>2. ASSUME NEW d \in Checks
      PROVE  /\ (at[d] = "rules" => AsksRules(began[d], todo[d], query[d]))'
             /\ (at[d] = "consumption" => AsksConsumption(began[d], todo[d], query[d]))'
  <2>1. CASE d = c BY <1>1, <2>1 DEF Checking
  <2>2. CASE d # c
    <3>1. at'[d] = at[d] /\ began'[d] = began[d] /\ todo'[d] = todo[d] /\ query'[d] = query[d]
      BY <1>1, <2>2 DEF Checking
    <3> QED BY <3>1, CheckStays
  <2> QED BY <2>1, <2>2
<1> QED BY <1>1, <1>2, LimitsGiven DEF Checking

LEMMA AsksStays ==
  ASSUME DatabaseMoves, DatabaseInv, Checking, UNCHANGED <<clock, database>>,
         NEW c \in Checks, NEW b, NEW left, NEW cache, ReadyToLoop(b, left), EntriesInv(cache),
         NEW x \in left, NEW before \in SUBSET left, Asks(c, b, left, cache, x, before)
  PROVE  Checking' /\ EntriesInv(consumption)'
<1> DEFINE s == PeriodStart(x.period, clock)
           q == Query(x, Consumed(s, clock))
           rest == left \ ({x} \union before)
<1>1. /\ at' = [at EXCEPT ![c] = "consumption"] /\ began' = [began EXCEPT ![c] = b]
      /\ todo' = [todo EXCEPT ![c] = rest] /\ query' = [query EXCEPT ![c] = q]
      /\ consumption' = [t \in {t \in DOMAIN cache : Alive(cache[t])} |-> cache[t]]
      /\ \A y \in before : Cached(y, cache) /\ ~Reached(InCache(y, cache))
  BY DEF Asks
<1>2. EntriesInv(cache)' BY EntriesStay
<1>3. EntriesInv(consumption)' BY <1>1, <1>2 DEF EntriesInv
<1>4. left \subseteq Items /\ b \in HourTicks..clock /\ clock \in Nat /\ HourTicks <= clock /\ b \in Nat
  BY LimitsGiven DEF ReadyToLoop, DatabaseInv, Times
<1>5. ReadyToLoop(b, rest \cup {q.rule})
  <2>1. q.rule = x BY DEF Query
  <2>2. rest \cup {x} \subseteq left OBVIOUS
  <2>3. ASSUME NEW y \in ActiveBlockRules, since[y.rule] <= b - TTL
        PROVE  y \in rest \cup {x} \/ BelowThreshold(y, b)
    <3>1. y \in left \/ BelowThreshold(y, b) BY <2>3 DEF ReadyToLoop
    <3>2. TTL <= b
      <4>1. y.rule \in Rules BY DEF ActiveBlockRules
      <4>2. since[y.rule] \in Nat BY <4>1 DEF DatabaseInv
      <4> QED BY <1>4, <2>3, <4>2, LimitsGiven
    <3>3. ASSUME y \in before PROVE BelowThreshold(y, b)
      BY <1>1, <1>4, <3>2, <3>3, CachedIsCounted
    <3> QED BY <3>1, <3>3
  <2> QED BY <2>1, <2>2, <2>3 DEF ReadyToLoop
<1>6. AsksConsumption(b, rest, q)
  <2>1. s \in 0..clock BY <1>4, StartBefore DEF Items
  <2>2. CountedAt(s, Consumed(s, clock), clock) BY <2>1, AnswersAreCounted
  <2>3. q.asked = clock /\ q.rule = x /\ q.start = s /\ q.tokens = Consumed(s, clock) BY DEF Query
  <2>4. clock \in b..clock BY <1>4
  <2> QED BY <1>4, <1>5, <2>2, <2>3, <2>4 DEF AsksConsumption
<1>7. PICK r, p : r = rest /\ p = q OBVIOUS
<1>a. AsksConsumption(b, r, p)' BY <1>6, <1>7, AsksConsumptionStays
<1>8. ASSUME NEW d \in Checks
      PROVE  /\ (at[d] = "rules" => AsksRules(began[d], todo[d], query[d]))'
             /\ (at[d] = "consumption" => AsksConsumption(began[d], todo[d], query[d]))'
  <2>1. CASE d = c
    <3>1. began'[d] = b /\ todo'[d] = r /\ query'[d] = p /\ at'[d] = "consumption"
      BY <1>1, <1>7, <2>1 DEF Checking
    <3> QED BY <1>a, <3>1
  <2>2. CASE d # c
    <3>1. at'[d] = at[d] /\ began'[d] = began[d] /\ todo'[d] = todo[d] /\ query'[d] = query[d]
      BY <1>1, <2>2 DEF Checking
    <3> QED BY <3>1, CheckStays
  <2> QED BY <2>1, <2>2
<1> QED BY <1>1, <1>3, <1>4, <1>8 DEF Checking

LEMMA SilenceIsSafe ==
  ASSUME verdict' = Silent
  PROVE  LimitsUpheld' /\ RefusalsEarned'
BY DEF LimitsUpheld, RefusalsEarned, Silent

LEMMA PassIsUpheld ==
  ASSUME DatabaseInv, NEW b, NEW left, NEW cache, ReadyToLoop(b, left), EntriesInv(cache),
         \A x \in left : Cached(x, cache) /\ ~Reached(InCache(x, cache)),
         UNCHANGED <<clock, database>>, verdict' = Passed(b)
  PROVE  LimitsUpheld' /\ RefusalsEarned'
<1>1. ASSUME NEW x \in ActiveBlockRules, since[x.rule] <= b - TTL PROVE BelowThreshold(x, b)
  <2>1. x \in left \/ BelowThreshold(x, b) BY <1>1 DEF ReadyToLoop
  <2>2. b \in HourTicks..clock /\ left \subseteq Items BY DEF ReadyToLoop
  <2>3. x.rule \in Rules BY DEF ActiveBlockRules
  <2>4. TTL <= b
    <3>1. since[x.rule] \in Nat /\ b \in Int BY <2>2, <2>3, LimitsGiven DEF DatabaseInv
    <3> QED BY <1>1, <3>1, LimitsGiven
  <2> QED BY <2>1, <2>2, <2>4, CachedIsCounted
<1>2. verdict'.kind = "passed" /\ verdict'.began = b BY DEF Passed
<1>3. LimitsUpheld' BY <1>1, <1>2 DEF LimitsUpheld, BelowThreshold, ActiveBlockRules, database, Consumed
<1> QED BY <1>2, <1>3 DEF RefusalsEarned

LEMMA RefusalIsEarned ==
  ASSUME DatabaseInv, NEW b, NEW q, q.rule \in Items,
         InForce(q.rule, b - TTL + 1), b \in HourTicks..clock,
         q.tokens \in Nat, q.tokens <= Consumed(q.start, clock), Reached(q),
         \E t \in b..clock : q.start = PeriodStart(q.rule.period, t),
         UNCHANGED <<clock, database>>, verdict' = Refused(b, q)
  PROVE  LimitsUpheld' /\ RefusalsEarned'
<1>1. verdict'.kind = "refused" /\ verdict'.began = b /\ verdict'.query = q BY DEF Refused
<1>2. q.rule.threshold <= q.tokens BY DEF Reached, Items
<1>3. q.rule \in ActiveBlockRules \/ \E p \in past : p.rule = q.rule /\ p.until > b - TTL
  <2>1. b \in Int /\ TTL \in Int BY LimitsGiven
  <2> QED BY <2>1 DEF InForce
<1>4. RefusalsEarned' BY <1>1, <1>2, <1>3 DEF RefusalsEarned, ActiveBlockRules, database, Consumed
<1> QED BY <1>1, <1>4 DEF LimitsUpheld

LEMMA LoopKeeps ==
  ASSUME DatabaseMoves, DatabaseInv, Checking, UNCHANGED <<clock, database>>,
         NEW c \in Checks, NEW b, NEW left, NEW cache, ReadyToLoop(b, left), EntriesInv(cache),
         Loop(c, b, left, cache)
  PROVE  EntriesInv(consumption)' /\ Checking' /\ LimitsUpheld' /\ RefusalsEarned'
<1>1. b \in HourTicks..clock /\ left \subseteq Items BY DEF ReadyToLoop
<1>2. EntriesInv(cache)' BY EntriesStay
<1>3. CASE /\ Return(c, Passed(b)) /\ consumption' = cache
           /\ \A x \in left : Cached(x, cache) /\ ~Reached(InCache(x, cache))
  <2>1. Checking' BY <1>3, ReturnStays
  <2>2. verdict' = Passed(b) BY <1>3 DEF Return
  <2>3. LimitsUpheld' /\ RefusalsEarned' BY <1>3, <2>2, PassIsUpheld
  <2> QED BY <1>2, <1>3, <2>1, <2>3
<1>4. ASSUME NEW x \in left, Cached(x, cache), Reached(InCache(x, cache)),
             Return(c, Refused(b, InCache(x, cache))), consumption' = cache
      PROVE  EntriesInv(consumption)' /\ Checking' /\ LimitsUpheld' /\ RefusalsEarned'
  <2>1. PICK q : q = InCache(x, cache) OBVIOUS
  <2>2. /\ q.rule = x /\ q.start = PeriodStart(x.period, clock)
        /\ q.tokens \in Nat /\ q.tokens <= Consumed(q.start, clock)
    BY <1>1, <1>4, <2>1, CachedIsCounted
  <2>3. Return(c, Refused(b, q)) BY <1>4, <2>1
  <2>4. Checking' BY <2>3, ReturnStays
  <2>5. verdict' = Refused(b, q) BY <2>3 DEF Return
  <2>6. clock \in b..clock BY <1>1, LimitsGiven DEF DatabaseInv, Times
  <2>7. InForce(q.rule, b - TTL + 1) BY <2>2 DEF ReadyToLoop
  <2>8. LimitsUpheld' /\ RefusalsEarned'
    BY <1>1, <1>4, <2>1, <2>2, <2>5, <2>6, <2>7, RefusalIsEarned
  <2> QED BY <1>2, <1>4, <2>4, <2>8
<1>5. ASSUME NEW x \in left, NEW before \in SUBSET left, Asks(c, b, left, cache, x, before)
      PROVE  EntriesInv(consumption)' /\ Checking' /\ LimitsUpheld' /\ RefusalsEarned'
  <2>1. verdict' = Silent BY <1>5 DEF Asks
  <2> QED BY <1>5, <2>1, AsksStays, SilenceIsSafe
<1> QED BY <1>3, <1>4, <1>5, LoopOutcomes

LEMMA ChecksStay ==
  ASSUME DatabaseMoves, DatabaseInv, Checking, UNCHANGED checks
  PROVE  Checking'
<1>1. at' = at /\ began' = began /\ todo' = todo /\ query' = query BY DEF checks
<1>2. ASSUME NEW d \in Checks
      PROVE  /\ (at[d] = "rules" => AsksRules(began[d], todo[d], query[d]))'
             /\ (at[d] = "consumption" => AsksConsumption(began[d], todo[d], query[d]))'
  BY <1>1, CheckStays
<1> QED BY <1>1, <1>2 DEF Checking

LEMMA InForceEarlier ==
  ASSUME NEW x, NEW f \in Int, NEW g \in Int, g <= f, InForce(x, f)
  PROVE  InForce(x, g)
BY DEF InForce

\* Rules that were read less than a TTL ago are rules to loop over.
LEMMA AnswerIsReady ==
  ASSUME DatabaseInv, NEW b \in HourTicks..clock, NEW S, S \subseteq Items,
         NEW a \in Int, b < a + TTL, Holds(S, a), \A x \in S : InForce(x, a)
  PROVE  ReadyToLoop(b, S)
<1>1. b \in Int /\ TTL \in Nat \ {0} /\ b - TTL + 1 <= a BY LimitsGiven
<1>2. \A x \in S : InForce(x, b - TTL + 1) BY <1>1, InForceEarlier
<1>3. ASSUME NEW x \in ActiveBlockRules, since[x.rule] <= b - TTL PROVE x \in S
  <2>1. x.rule \in Rules BY DEF ActiveBlockRules
  <2>2. since[x.rule] \in Nat BY <2>1 DEF DatabaseInv
  <2> QED BY <1>1, <1>3, <2>2 DEF Holds
<1> QED BY <1>2, <1>3 DEF ReadyToLoop

LEMMA CheckMoves ==
  ASSUME DatabaseInv, UNCHANGED <<clock, database, events>>
  PROVE  DatabaseMoves
BY StillMoves DEF events, DatabaseInv

LEMMA CheckLimitsKeeps ==
  ASSUME LimitsInv, NEW c \in Checks, CheckLimits(c)
  PROVE  LimitsInv'
<1>1. UNCHANGED <<clock, database, events>> /\ at[c] = "idle" BY DEF CheckLimits
<1>2. DatabaseMoves /\ DatabaseInv /\ Checking BY <1>1, CheckMoves DEF LimitsInv
<1>3. clock \in Nat /\ clock \in HourTicks..clock BY LimitsGiven DEF LimitsInv, DatabaseInv, Times
<1>4. CASE rulesCache # NoEntry /\ Alive(rulesCache)
  <2>1. PICK e, f : e = rulesCache /\ f = consumption OBVIOUS
  <2>2. PICK b : b = clock OBVIOUS
  <2>3. Loop(c, b, e.data, f) /\ rulesCache' = e BY <1>4, <2>1, <2>2 DEF CheckLimits
  <2>4. RulesEntryInv(e) /\ EntriesInv(f) BY <2>1 DEF LimitsInv
  <2>5. /\ e.data \subseteq Items /\ e.expiresAt \in Nat /\ e.expiresAt > clock
        /\ Holds(e.data, e.expiresAt - TTL)
        /\ \A x \in e.data : InForce(x, e.expiresAt - TTL)
    BY <1>4, <2>1, <2>4 DEF RulesEntryInv, Alive
  <2>6. PICK a \in Int : a = e.expiresAt - TTL BY <2>5, LimitsGiven
  <2>7. b < a + TTL BY <1>3, <2>2, <2>5, <2>6, LimitsGiven
  <2>8. ReadyToLoop(b, e.data) BY <1>2, <1>3, <2>2, <2>5, <2>6, <2>7, AnswerIsReady
  <2>9. EntriesInv(consumption)' /\ Checking' /\ LimitsUpheld' /\ RefusalsEarned'
    BY <1>1, <1>2, <2>3, <2>4, <2>8, LoopKeeps
  <2>10. RulesEntryInv(rulesCache)' BY <1>2, <2>3, <2>4, RulesEntryStays
  <2> QED BY <1>2, <2>9, <2>10 DEF LimitsInv, DatabaseMoves
<1>5. CASE ~(rulesCache # NoEntry /\ Alive(rulesCache))
  <2>1. /\ rulesCache' = NoEntry /\ at' = [at EXCEPT ![c] = "rules"]
        /\ began' = [began EXCEPT ![c] = clock] /\ todo' = [todo EXCEPT ![c] = ActiveBlockRules]
        /\ query' = [query EXCEPT ![c] = [asked |-> clock]] /\ verdict' = Silent
        /\ consumption' = consumption
    BY <1>5 DEF CheckLimits
  <2>2. PICK b, left, q, f : b = clock /\ left = ActiveBlockRules /\ q = [asked |-> clock] /\ f = consumption
    OBVIOUS
  <2>3. left \subseteq Items BY <2>2, ActiveAreItems DEF LimitsInv, DatabaseInv
  <2>4. AsksRules(b, left, q) BY <1>3, <2>2, <2>3 DEF AsksRules, Holds, InForce
  <2>5. AsksRules(b, left, q)' BY <1>2, <2>4, AsksRulesStays
  <2>6. ASSUME NEW d \in Checks
        PROVE  /\ (at[d] = "rules" => AsksRules(began[d], todo[d], query[d]))'
               /\ (at[d] = "consumption" => AsksConsumption(began[d], todo[d], query[d]))'
    <3>1. CASE d = c
      <4>1. at'[d] = "rules" /\ began'[d] = b /\ todo'[d] = left /\ query'[d] = q
        BY <1>2, <2>1, <2>2, <3>1 DEF Checking
      <4> QED BY <2>5, <4>1
    <3>2. CASE d # c
      <4>1. at'[d] = at[d] /\ began'[d] = began[d] /\ todo'[d] = todo[d] /\ query'[d] = query[d]
        BY <1>2, <2>1, <3>2 DEF Checking
      <4> QED BY <1>2, <4>1, CheckStays
    <3> QED BY <3>1, <3>2
  <2>7. Checking' BY <1>2, <1>3, <2>1, <2>6 DEF Checking
  <2>8. EntriesInv(consumption)'
    <3>1. EntriesInv(f)' BY <1>2, <2>2, EntriesStay DEF LimitsInv
    <3> QED BY <2>1, <2>2, <3>1
  <2>9. RulesEntryInv(rulesCache)' BY <2>1 DEF RulesEntryInv
  <2> QED BY <1>2, <2>1, <2>7, <2>8, <2>9, SilenceIsSafe DEF LimitsInv, DatabaseMoves
<1> QED BY <1>4, <1>5

LEMMA RulesAnswerKeeps ==
  ASSUME LimitsInv, NEW c \in Checks, RulesAnswer(c)
  PROVE  LimitsInv'
<1>1. UNCHANGED <<clock, database, events>> /\ at[c] = "rules" BY DEF RulesAnswer
<1>2. DatabaseMoves /\ DatabaseInv /\ Checking BY <1>1, CheckMoves DEF LimitsInv
<1>3. PICK b, left, q, f : b = began[c] /\ left = todo[c] /\ q = query[c] /\ f = consumption OBVIOUS
<1>4. AsksRules(b, left, q) BY <1>1, <1>2, <1>3 DEF Checking
<1>5. /\ b \in HourTicks..clock /\ q.asked = b /\ left \subseteq Items
      /\ Holds(left, b) /\ \A x \in left : InForce(x, b)
  BY <1>4 DEF AsksRules
<1>6. b \in Nat /\ b <= clock /\ clock \in Nat /\ TTL \in Nat \ {0}
  BY <1>5, LimitsGiven DEF LimitsInv, DatabaseInv, Times
<1>7. ReadyToLoop(b, left) BY <1>2, <1>5, <1>6, AnswerIsReady
<1>8. Loop(c, b, left, f) /\ EntriesInv(f) BY <1>3 DEF RulesAnswer, LimitsInv
<1>9. EntriesInv(consumption)' /\ Checking' /\ LimitsUpheld' /\ RefusalsEarned'
  BY <1>1, <1>2, <1>7, <1>8, LoopKeeps
<1>10. PICK e : e = rulesCache' OBVIOUS
<1>11. e.data = left /\ e.expiresAt = b + TTL BY <1>3, <1>5, <1>10 DEF RulesAnswer, Lifetime
<1>12. e.expiresAt \in Nat /\ e.expiresAt - TTL = b /\ b \in 0..clock BY <1>6, <1>11
<1>13. RulesEntryInv(e) BY <1>5, <1>11, <1>12 DEF RulesEntryInv
<1>14. RulesEntryInv(e)' BY <1>2, <1>13, RulesEntryStays
<1> QED BY <1>2, <1>9, <1>10, <1>14 DEF LimitsInv, DatabaseMoves

LEMMA ConsumptionAnswerKeeps ==
  ASSUME LimitsInv, NEW c \in Checks, ConsumptionAnswer(c)
  PROVE  LimitsInv'
<1>1. UNCHANGED <<clock, database, events>> /\ at[c] = "consumption" /\ rulesCache' = rulesCache
  BY DEF ConsumptionAnswer
<1>2. DatabaseMoves /\ DatabaseInv /\ Checking BY <1>1, CheckMoves DEF LimitsInv
<1>3. PICK b, left, q : b = began[c] /\ left = todo[c] /\ q = query[c] OBVIOUS
<1>4. AsksConsumption(b, left, q) BY <1>1, <1>2, <1>3 DEF Checking
<1>5. /\ q.rule \in Items /\ q.asked \in b..clock /\ q.start = PeriodStart(q.rule.period, q.asked)
      /\ ReadyToLoop(b, left \cup {q.rule}) /\ CountedAt(q.start, q.tokens, q.asked)
  BY <1>4 DEF AsksConsumption
<1>6. /\ b \in HourTicks..clock /\ left \subseteq Items
      /\ \A x \in left \cup {q.rule} : InForce(x, b - TTL + 1)
  BY <1>5 DEF ReadyToLoop
<1>7. /\ clock \in Nat /\ b \in Nat /\ b <= clock /\ TTL \in Nat \ {0} /\ q.asked \in Nat
      /\ b <= q.asked /\ q.asked <= clock
  BY <1>5, <1>6, LimitsGiven DEF LimitsInv, DatabaseInv, Times
<1>8. PICK f : f = [s \in DOMAIN consumption \union {q.start} |->
           IF s = q.start
             THEN [data |-> q.tokens, expiresAt |-> Lifetime(q.asked), raced |-> missed[c]]
             ELSE consumption[s]]
  OBVIOUS
<1>9. IF Reached(q) THEN Return(c, Refused(b, q)) /\ consumption' = f ELSE Loop(c, b, left, f)
  BY <1>3, <1>8 DEF ConsumptionAnswer
<1>10. EntriesInv(f)
  <2>1. Lifetime(q.asked) \in Nat /\ Lifetime(q.asked) - TTL = q.asked BY <1>7 DEF Lifetime
  <2>2. ASSUME NEW s \in DOMAIN f
        PROVE  f[s].expiresAt \in Nat /\ CountedAt(s, f[s].data, f[s].expiresAt - TTL)
    <3>1. CASE s = q.start
      <4>1. f[s].data = q.tokens /\ f[s].expiresAt = Lifetime(q.asked) BY <1>8, <3>1
      <4> QED BY <1>5, <2>1, <3>1, <4>1
    <3>2. CASE s # q.start
      <4>1. s \in DOMAIN consumption /\ f[s] = consumption[s] BY <1>8, <3>2
      <4> QED BY <4>1 DEF LimitsInv, EntriesInv
    <3> QED BY <3>1, <3>2
  <2> QED BY <2>2 DEF EntriesInv
<1>11. RulesEntryInv(rulesCache)'
  <2>1. PICK e : e = rulesCache OBVIOUS
  <2>2. RulesEntryInv(e)' BY <1>2, <2>1, RulesEntryStays DEF LimitsInv
  <2> QED BY <1>1, <2>1, <2>2
<1>12. CASE Reached(q)
  <2>1. Return(c, Refused(b, q)) /\ consumption' = f BY <1>9, <1>12
  <2>2. EntriesInv(consumption)' BY <1>2, <1>10, <2>1, EntriesStay
  <2>3. Checking' BY <1>2, <2>1, ReturnStays
  <2>4. verdict' = Refused(b, q) BY <2>1 DEF Return
  <2>5. q.tokens \in Nat /\ q.tokens <= Consumed(q.start, clock) BY <1>5 DEF CountedAt
  <2>6. \E t \in b..clock : q.start = PeriodStart(q.rule.period, t) BY <1>5
  <2>7. LimitsUpheld' /\ RefusalsEarned'
    BY <1>1, <1>2, <1>5, <1>6, <1>12, <2>4, <2>5, <2>6, RefusalIsEarned
  <2> QED BY <1>2, <1>11, <2>2, <2>3, <2>7 DEF LimitsInv, DatabaseMoves
<1>13. CASE ~Reached(q)
  <2>1. Loop(c, b, left, f) BY <1>9, <1>13
  <2>2. ASSUME TTL <= b PROVE BelowThreshold(q.rule, b)
    <3>1. PICK s, n, a : s = q.start /\ n = q.tokens /\ a = q.asked OBVIOUS
    <3>2. /\ a \in 0..clock /\ s \in 0..a /\ n \in Nat
          /\ \A t \in 0..a : t < a => Consumed(s, t) <= n
      BY <1>5, <3>1 DEF CountedAt
    <3>3. b - TTL \in 0..a /\ b - TTL < a BY <1>7, <2>2, <3>1
    <3>4. Consumed(s, b - TTL) <= n BY <3>2, <3>3
    <3>5. n < q.rule.threshold BY <1>5, <1>13, <3>1, <3>2 DEF Reached, Items
    <3>6. Consumed(s, b - TTL) \in Int
      <4>1. b - TTL \in Nat /\ b - TTL <= clock /\ s \in 0..clock BY <1>7, <2>2, <3>2
      <4> QED BY <1>2, <4>1, ConsumedIsInt
    <3>7. Consumed(s, b - TTL) < q.rule.threshold BY <1>5, <3>2, <3>4, <3>5, <3>6 DEF Items
    <3> QED BY <1>5, <3>1, <3>7 DEF BelowThreshold
  <2>3. ASSUME NEW x \in ActiveBlockRules, since[x.rule] <= b - TTL PROVE x \in left \/ BelowThreshold(x, b)
    <3>1. x \in left \cup {q.rule} \/ BelowThreshold(x, b) BY <1>5, <2>3 DEF ReadyToLoop
    <3>2. TTL <= b
      <4>1. x.rule \in Rules BY DEF ActiveBlockRules
      <4>2. since[x.rule] \in Nat BY <4>1 DEF LimitsInv, DatabaseInv
      <4> QED BY <1>7, <2>3, <4>2
    <3> QED BY <2>2, <3>1, <3>2
  <2>4. ReadyToLoop(b, left) BY <1>6, <2>3 DEF ReadyToLoop
  <2>5. EntriesInv(consumption)' /\ Checking' /\ LimitsUpheld' /\ RefusalsEarned'
    BY <1>1, <1>2, <1>10, <2>1, <2>4, LoopKeeps
  <2> QED BY <1>2, <1>11, <2>5 DEF LimitsInv, DatabaseMoves
<1> QED BY <1>12, <1>13

LEMMA QueryFailsKeeps ==
  ASSUME LimitsInv, NEW c \in Checks, QueryFails(c)
  PROVE  LimitsInv'
<1>1. UNCHANGED <<clock, database, events>> /\ UNCHANGED caches /\ Return(c, Silent) BY DEF QueryFails
<1>2. DatabaseMoves /\ DatabaseInv /\ Checking BY <1>1, CheckMoves DEF LimitsInv
<1>3. Checking' BY <1>1, <1>2, ReturnStays
<1>4. verdict' = Silent BY <1>1 DEF Return
<1>5. RulesEntryInv(rulesCache)' /\ EntriesInv(consumption)'
  <2>1. PICK e, f : e = rulesCache /\ f = consumption OBVIOUS
  <2>2. RulesEntryInv(e)' /\ EntriesInv(f)' BY <1>2, <2>1, RulesEntryStays, EntriesStay DEF LimitsInv
  <2> QED BY <1>1, <2>1, <2>2 DEF caches
<1> QED BY <1>2, <1>3, <1>4, <1>5, SilenceIsSafe DEF LimitsInv, DatabaseMoves

\* The steps outside checkLimits: what is in the caches stays or goes.
LEMMA OutsideKeeps ==
  ASSUME LimitsInv, DatabaseMoves, UNCHANGED checks, verdict' = Silent,
         rulesCache' \in {rulesCache, NoEntry},
         DOMAIN consumption' \subseteq DOMAIN consumption,
         \A s \in DOMAIN consumption' : consumption'[s] = consumption[s]
  PROVE  LimitsInv'
<1>1. Checking' BY ChecksStay DEF LimitsInv
<1>2. PICK e, f : e = rulesCache /\ f = consumption OBVIOUS
<1>3. RulesEntryInv(e)' /\ EntriesInv(f)' BY <1>2, RulesEntryStays, EntriesStay DEF LimitsInv
<1>4. RulesEntryInv(rulesCache)'
  <2>1. CASE rulesCache' = rulesCache BY <1>2, <1>3, <2>1
  <2>2. CASE rulesCache' = NoEntry BY <2>2 DEF RulesEntryInv
  <2> QED BY <2>1, <2>2
<1>5. EntriesInv(consumption)' BY <1>2, <1>3 DEF EntriesInv
<1> QED BY <1>1, <1>4, <1>5, SilenceIsSafe DEF LimitsInv, DatabaseMoves

LEMMA LimitsStep ==
  ASSUME LimitsInv, [LimitsNext]_limitsVars
  PROVE  LimitsInv'
<1> USE DEF LimitsInv
<1>1. CASE ClockTick BY <1>1, TickMoves, OutsideKeeps DEF ClockTick, caches
<1>2. CASE WriteRow BY <1>2, WriteRowMoves, OutsideKeeps DEF WriteRow, caches
<1>3. CASE Emit
  <2>1. unannounced' \in Nat /\ owing' \in Nat BY <1>3 DEF Emit, DatabaseInv
  <2>2. timer' \in Nat BY <1>3, LimitsGiven DEF Emit, DatabaseInv, Times
  <2>3. UNCHANGED <<clock, database>> BY <1>3 DEF Emit
  <2>4. DatabaseMoves BY <2>1, <2>2, <2>3, StillMoves
  <2> QED BY <1>3, <2>4, OutsideKeeps DEF Emit, caches
<1>4. CASE Evict
  <2>1. DatabaseMoves BY <1>4, StillMoves, LimitsGiven DEF Evict, DatabaseInv, NoTimer
  <2> QED BY <1>4, <2>1, OutsideKeeps DEF Evict
<1>5. CASE InvalidateCache
  <2>1. DatabaseMoves BY <1>5, StillMoves, LimitsGiven DEF InvalidateCache, DatabaseInv
  <2> QED BY <1>5, <2>1, OutsideKeeps DEF InvalidateCache
<1>6. CASE MakeRoom
  <2>1. DatabaseMoves BY <1>6, CheckMoves DEF MakeRoom
  <2> QED BY <1>6, <2>1, OutsideKeeps DEF MakeRoom, Drop
<1>7. ASSUME NEW r \in Rules, ChangeRule(r) PROVE LimitsInv'
  BY <1>7, ChangeRuleMoves, OutsideKeeps DEF ChangeRule, caches
<1>8. ASSUME NEW c \in Checks, CheckLimits(c) \/ RulesAnswer(c) \/ ConsumptionAnswer(c) \/ QueryFails(c)
      PROVE  LimitsInv'
  BY <1>8, CheckLimitsKeeps, RulesAnswerKeeps, ConsumptionAnswerKeeps, QueryFailsKeeps
<1>9. CASE UNCHANGED limitsVars
  <2>1. DatabaseMoves BY <1>9, CheckMoves DEF limitsVars, database, events
  <2>2. PICK e, f : e = rulesCache /\ f = consumption OBVIOUS
  <2>3. RulesEntryInv(e)' /\ EntriesInv(f)' BY <2>1, <2>2, RulesEntryStays, EntriesStay
  <2>4. Checking' BY <1>9, <2>1, ChecksStay DEF limitsVars, checks
  <2>5. LimitsUpheld' /\ RefusalsEarned'
    BY <1>9 DEF limitsVars, LimitsUpheld, RefusalsEarned, ActiveBlockRules, Consumed
  <2> QED BY <1>9, <2>1, <2>2, <2>3, <2>4, <2>5 DEF limitsVars, DatabaseMoves
<1> QED BY <1>1, <1>2, <1>3, <1>4, <1>5, <1>6, <1>7, <1>8, <1>9 DEF LimitsNext

LEMMA LimitsBegin ==
  ASSUME LimitsInit
  PROVE  LimitsInv
<1>1. DatabaseInv BY LimitsGiven DEF LimitsInit, DatabaseInv, Times, NoTimer
<1>2. Checking BY LimitsGiven DEF LimitsInit, Checking
<1>3. RulesEntryInv(rulesCache) /\ EntriesInv(consumption) BY DEF LimitsInit, RulesEntryInv, EntriesInv
<1>4. LimitsUpheld /\ RefusalsEarned BY DEF LimitsInit, Silent, LimitsUpheld, RefusalsEarned
<1> QED BY <1>1, <1>2, <1>3, <1>4 DEF LimitsInv

LEMMA LimitsInvariant ==
  LimitsSpec => []LimitsInv
<1>1. LimitsInit => LimitsInv BY LimitsBegin
<1>2. LimitsInv /\ [LimitsNext]_limitsVars => LimitsInv' BY LimitsStep
<1> QED BY <1>1, <1>2, PTL DEF LimitsSpec

\* For any number of checks and rules and any lives of the caches: a request that
\* checkLimits lets pass was under every rule that had been in force for TTL.
THEOREM LimitsAreUpheld ==
  LimitsSpec => []LimitsUpheld
<1>1. LimitsInv => LimitsUpheld BY DEF LimitsInv
<1> QED BY <1>1, LimitsInvariant, PTL

\* A request that checkLimits refuses had reached a rule that was in force while it
\* was checked, or less than TTL before, in a period that was current.
THEOREM RefusalsAreEarned ==
  LimitsSpec => []RefusalsEarned
<1>1. LimitsInv => RefusalsEarned BY DEF LimitsInv
<1> QED BY <1>1, LimitsInvariant, PTL
-----------------------------------------------------------------------------
\* StaleForAReason, in these terms.
Explained ==
  /\ rulesCache # NoEntry => UpToDate(rulesCache.data) \/ rulesCache.raced
  /\ \A s \in DOMAIN consumption : Current(s, consumption[s].data) \/ consumption[s].raced

LEMMA FillingStays ==
  ASSUME LimitsInv, Filling, UNCHANGED checks, UNCHANGED missed,
         \A S : UpToDate(S) => UpToDate(S)',
         \A s \in 0..clock : \A n : Current(s, n) => Current(s, n)'
  PROVE  Filling'
<1> SUFFICES ASSUME NEW c \in Checks
             PROVE  /\ (at[c] = "rules" => UpToDate(todo[c]) \/ missed[c])'
                    /\ (at[c] = "consumption" => Current(query[c].start, query[c].tokens) \/ missed[c])'
  BY DEF Filling
<1>1. at' = at /\ todo' = todo /\ query' = query /\ missed' = missed BY DEF checks
<1>2. CASE at[c] = "rules" BY <1>1, <1>2 DEF Filling
<1>3. CASE at[c] = "consumption"
  <2>1. query[c].start \in 0..clock
    <3>1. AsksConsumption(began[c], todo[c], query[c]) BY <1>3 DEF LimitsInv, Checking
    <3>2. PICK q : q = query[c] OBVIOUS
    <3>3. CountedAt(q.start, q.tokens, q.asked) BY <3>1, <3>2 DEF AsksConsumption
    <3>4. q.asked \in 0..clock /\ q.start \in 0..q.asked /\ clock \in Nat
      BY <3>3 DEF CountedAt, LimitsInv, DatabaseInv, Times
    <3>5. q.start \in 0..clock BY <3>4
    <3> QED BY <3>2, <3>5
  <2> QED BY <1>1, <1>3, <2>1 DEF Filling
<1>4. CASE at[c] \notin {"rules", "consumption"} BY <1>1, <1>4
<1> QED BY <1>2, <1>3, <1>4

LEMMA ExplainedStays ==
  ASSUME LimitsInv, Explained, rulesCache' \in {rulesCache, NoEntry},
         DOMAIN consumption' \subseteq DOMAIN consumption,
         \A s \in DOMAIN consumption' : consumption'[s] = consumption[s],
         \A S : UpToDate(S) => UpToDate(S)',
         \A s \in 0..clock : \A n : Current(s, n) => Current(s, n)'
  PROVE  Explained'
<1>2. (rulesCache # NoEntry => UpToDate(rulesCache.data) \/ rulesCache.raced)'
  BY DEF Explained
<1>3. ASSUME NEW s \in DOMAIN consumption'
      PROVE  (Current(s, consumption[s].data) \/ consumption[s].raced)'
  <2>1. s \in DOMAIN consumption /\ consumption'[s] = consumption[s] BY <1>3
  <2>2. s \in 0..clock
    <3>1. PICK n, a : n = consumption[s].data /\ a = consumption[s].expiresAt - TTL OBVIOUS
    <3>2. CountedAt(s, n, a) BY <2>1, <3>1 DEF LimitsInv, EntriesInv
    <3>3. a \in 0..clock /\ s \in 0..a /\ clock \in Nat
      BY <3>2 DEF CountedAt, LimitsInv, DatabaseInv, Times
    <3> QED BY <3>3
  <2> QED BY <2>1, <2>2 DEF Explained
<1> QED BY <1>2, <1>3 DEF Explained

LEMMA LoopFills ==
  ASSUME Checking, NEW c \in Checks, NEW b, NEW left, NEW cache, Loop(c, b, left, cache)
  PROVE  /\ \A d \in Checks : d # c =>
               at'[d] = at[d] /\ todo'[d] = todo[d] /\ query'[d] = query[d]
         /\ \/ at'[c] = "idle"
            \/ /\ at'[c] = "consumption"
               /\ query'[c].tokens = Consumed(query'[c].start, clock)
         /\ DOMAIN consumption' \subseteq DOMAIN cache
         /\ \A s \in DOMAIN consumption' : consumption'[s] = cache[s]
<1>1. ASSUME NEW v, Return(c, v)
      PROVE  /\ at'[c] = "idle"
             /\ \A d \in Checks : d # c =>
                   at'[d] = at[d] /\ todo'[d] = todo[d] /\ query'[d] = query[d]
  BY <1>1 DEF Return, Checking
<1>2. ASSUME NEW x \in left, NEW before \in SUBSET left, Asks(c, b, left, cache, x, before)
      PROVE  /\ at'[c] = "consumption"
             /\ query'[c] = Query(x, Consumed(PeriodStart(x.period, clock), clock))
             /\ \A d \in Checks : d # c =>
                   at'[d] = at[d] /\ todo'[d] = todo[d] /\ query'[d] = query[d]
             /\ consumption' = [t \in {t \in DOMAIN cache : Alive(cache[t])} |-> cache[t]]
  BY <1>2 DEF Asks, Checking
<1>3. ASSUME NEW x \in left, NEW before \in SUBSET left, Asks(c, b, left, cache, x, before)
      PROVE  /\ query'[c].tokens = Consumed(query'[c].start, clock)
             /\ DOMAIN consumption' \subseteq DOMAIN cache
             /\ \A s \in DOMAIN consumption' : consumption'[s] = cache[s]
  <2>1. PICK q : q = Query(x, Consumed(PeriodStart(x.period, clock), clock)) OBVIOUS
  <2>2. q.start = PeriodStart(x.period, clock) /\ q.tokens = Consumed(PeriodStart(x.period, clock), clock)
    BY <2>1 DEF Query
  <2>3. query'[c] = q /\ consumption' = [t \in {t \in DOMAIN cache : Alive(cache[t])} |-> cache[t]]
    BY <1>2, <1>3, <2>1
  <2> QED BY <2>2, <2>3
<1>4. ASSUME NEW x \in left, Return(c, Refused(b, InCache(x, cache)))
      PROVE  /\ at'[c] = "idle"
             /\ \A d \in Checks : d # c =>
                   at'[d] = at[d] /\ todo'[d] = todo[d] /\ query'[d] = query[d]
  <2>1. PICK v : v = Refused(b, InCache(x, cache)) OBVIOUS
  <2> QED BY <1>1, <1>4, <2>1
<1>5. Return(c, Passed(b)) => /\ at'[c] = "idle"
             /\ \A d \in Checks : d # c =>
                   at'[d] = at[d] /\ todo'[d] = todo[d] /\ query'[d] = query[d]
  BY <1>1
<1>6. CASE Return(c, Passed(b)) /\ consumption' = cache BY <1>5, <1>6
<1>7. CASE \E x \in left : Return(c, Refused(b, InCache(x, cache))) /\ consumption' = cache
  BY <1>4, <1>7
<1>8. CASE \E x \in left, before \in SUBSET left : Asks(c, b, left, cache, x, before)
  BY <1>2, <1>3, <1>8
<1> QED BY <1>6, <1>7, <1>8, LoopOutcomes

LEMMA FreshStays ==
  ASSUME UNCHANGED <<clock, database, events>>
  PROVE  /\ \A S : UpToDate(S) => UpToDate(S)'
         /\ \A s, n : Current(s, n) => Current(s, n)'
BY DEF UpToDate, Current, ActiveBlockRules, Consumed, database, events

LEMMA ReadyFills ==
  ASSUME Checking, Filling, UNCHANGED <<clock, database, events>>,
         NEW c \in Checks, NEW b, NEW left, NEW cache, Loop(c, b, left, cache),
         DOMAIN missed' = Checks, \A d \in Checks : d # c => missed'[d] = missed[d]
  PROVE  Filling'
<1> SUFFICES ASSUME NEW d \in Checks
             PROVE  /\ (at[d] = "rules" => UpToDate(todo[d]) \/ missed[d])'
                    /\ (at[d] = "consumption" => Current(query[d].start, query[d].tokens) \/ missed[d])'
  BY DEF Filling
<1>1. CASE d = c
  <2>1. CASE at'[c] = "idle" BY <1>1, <2>1
  <2>2. CASE /\ at'[c] = "consumption"
             /\ query'[c].tokens = Consumed(query'[c].start, clock)
    <3>1. PICK q : q = query'[c] OBVIOUS
    <3>2. Current(q.start, q.tokens) BY <2>2, <3>1 DEF Current
    <3>3. Current(q.start, q.tokens)' BY <3>2, FreshStays
    <3> QED BY <1>1, <2>2, <3>1, <3>3
  <2> QED BY <2>1, <2>2, LoopFills
<1>2. CASE d # c
  <2>1. at'[d] = at[d] /\ todo'[d] = todo[d] /\ query'[d] = query[d] /\ missed'[d] = missed[d]
    BY <1>2, LoopFills
  <2>2. PICK S, q : S = todo[d] /\ q = query[d] OBVIOUS
  <2>3. at[d] = "rules" => UpToDate(S)' \/ missed[d] BY <2>2, FreshStays DEF Filling
  <2>4. at[d] = "consumption" => Current(q.start, q.tokens)' \/ missed[d]
    BY <2>2, FreshStays DEF Filling
  <2> QED BY <2>1, <2>2, <2>3, <2>4
<1> QED BY <1>1, <1>2

LEMMA CheckLimitsFills ==
  ASSUME LimitsInv, Filling, Explained, NEW c \in Checks, CheckLimits(c)
  PROVE  Filling' /\ Explained'
<1>1. UNCHANGED <<clock, database, events>> /\ missed' = missed BY DEF CheckLimits
<1>2. Checking /\ DOMAIN missed = Checks BY DEF LimitsInv, Filling
<1>3. CASE rulesCache # NoEntry /\ Alive(rulesCache)
  <2>1. PICK b, left, f : b = clock /\ left = rulesCache.data /\ f = consumption OBVIOUS
  <2>2. Loop(c, b, left, f) /\ rulesCache' = rulesCache BY <1>3, <2>1 DEF CheckLimits
  <2>3. Filling' BY <1>1, <1>2, <2>2, ReadyFills
  <2>4. DOMAIN consumption' \subseteq DOMAIN consumption
        /\ \A s \in DOMAIN consumption' : consumption'[s] = consumption[s]
    BY <1>2, <2>1, <2>2, LoopFills
  <2>5. Explained' BY <1>1, <2>2, <2>4, FreshStays, ExplainedStays
  <2> QED BY <2>3, <2>5
<1>4. CASE ~(rulesCache # NoEntry /\ Alive(rulesCache))
  <2>1. /\ rulesCache' = NoEntry /\ at' = [at EXCEPT ![c] = "rules"]
        /\ todo' = [todo EXCEPT ![c] = ActiveBlockRules]
        /\ query' = [query EXCEPT ![c] = [asked |-> clock]]
        /\ consumption' = consumption
    BY <1>4 DEF CheckLimits
  <2>2. Explained' BY <1>1, <2>1, FreshStays, ExplainedStays
  <2>3. ASSUME NEW d \in Checks
        PROVE  /\ (at[d] = "rules" => UpToDate(todo[d]) \/ missed[d])'
               /\ (at[d] = "consumption" => Current(query[d].start, query[d].tokens) \/ missed[d])'
    <3>1. CASE d = c
      <4>1. PICK S : S = ActiveBlockRules OBVIOUS
      <4>2. UpToDate(S)' BY <1>1, <4>1, FreshStays DEF UpToDate
      <4>3. at'[d] = "rules" /\ todo'[d] = S BY <1>2, <2>1, <3>1, <4>1 DEF Checking
      <4> QED BY <4>2, <4>3
    <3>2. CASE d # c
      <4>1. at'[d] = at[d] /\ todo'[d] = todo[d] /\ query'[d] = query[d] /\ missed'[d] = missed[d]
        BY <1>1, <1>2, <2>1, <3>2 DEF Checking
      <4>2. PICK S, q : S = todo[d] /\ q = query[d] OBVIOUS
      <4>3. at[d] = "rules" => UpToDate(S)' \/ missed[d] BY <1>1, <4>2, FreshStays DEF Filling
      <4>4. at[d] = "consumption" => Current(q.start, q.tokens)' \/ missed[d]
        BY <1>1, <4>2, FreshStays DEF Filling
      <4> QED BY <4>1, <4>2, <4>3, <4>4
    <3> QED BY <3>1, <3>2
  <2>4. Filling' BY <1>1, <1>2, <2>3 DEF Filling
  <2> QED BY <2>2, <2>4
<1> QED BY <1>3, <1>4

LEMMA RulesAnswerFills ==
  ASSUME LimitsInv, Filling, Explained, NEW c \in Checks, RulesAnswer(c)
  PROVE  Filling' /\ Explained'
<1>1. UNCHANGED <<clock, database, events>> /\ at[c] = "rules" BY DEF RulesAnswer
<1>2. Checking /\ DOMAIN missed = Checks BY DEF LimitsInv, Filling
<1>3. missed' = [missed EXCEPT ![c] = FALSE] BY DEF RulesAnswer
<1>4. PICK b, left, f : b = began[c] /\ left = todo[c] /\ f = consumption OBVIOUS
<1>5. Loop(c, b, left, f) BY <1>4 DEF RulesAnswer
<1>6. DOMAIN missed' = Checks /\ \A d \in Checks : d # c => missed'[d] = missed[d] BY <1>2, <1>3
<1>7. Filling' BY <1>1, <1>2, <1>5, <1>6, ReadyFills
<1>8. PICK m : m = missed[c] OBVIOUS
<1>9. UpToDate(left) \/ m BY <1>1, <1>4, <1>8 DEF Filling
<1>10. UpToDate(left)' \/ m BY <1>1, <1>9, FreshStays
<1>11. PICK e : e = rulesCache' OBVIOUS
<1>12. e.data = left /\ e.raced = m BY <1>4, <1>8, <1>11 DEF RulesAnswer
<1>13. UpToDate(e.data)' \/ e.raced BY <1>10, <1>12
<1>14. DOMAIN consumption' \subseteq DOMAIN consumption
       /\ \A s \in DOMAIN consumption' : consumption'[s] = consumption[s]
  BY <1>2, <1>4, <1>5, LoopFills
<1>15. ASSUME NEW s \in DOMAIN consumption'
       PROVE  (Current(s, consumption[s].data) \/ consumption[s].raced)'
  <2>1. PICK g : g = consumption[s] OBVIOUS
  <2>2. Current(s, g.data)' \/ g.raced BY <1>1, <1>14, <2>1, FreshStays DEF Explained
  <2> QED BY <1>14, <2>1, <2>2
<1>16. Explained' BY <1>11, <1>13, <1>15 DEF Explained
<1> QED BY <1>7, <1>16

LEMMA ConsumptionAnswerFills ==
  ASSUME LimitsInv, Filling, Explained, NEW c \in Checks, ConsumptionAnswer(c)
  PROVE  Filling' /\ Explained'
<1>1. UNCHANGED <<clock, database, events>> /\ at[c] = "consumption" /\ rulesCache' = rulesCache
  BY DEF ConsumptionAnswer
<1>2. Checking /\ DOMAIN missed = Checks BY DEF LimitsInv, Filling
<1>3. missed' = [missed EXCEPT ![c] = FALSE] BY DEF ConsumptionAnswer
<1>4. PICK b, left, q, m : b = began[c] /\ left = todo[c] /\ q = query[c] /\ m = missed[c] OBVIOUS
<1>5. PICK f : f = [s \in DOMAIN consumption \union {q.start} |->
           IF s = q.start
             THEN [data |-> q.tokens, expiresAt |-> Lifetime(q.asked), raced |-> missed[c]]
             ELSE consumption[s]]
  OBVIOUS
<1>6. IF Reached(q) THEN Return(c, Refused(b, q)) /\ consumption' = f ELSE Loop(c, b, left, f)
  BY <1>4, <1>5 DEF ConsumptionAnswer
<1>7. DOMAIN missed' = Checks /\ \A d \in Checks : d # c => missed'[d] = missed[d] BY <1>2, <1>3
<1>8. Filling'
  <2>1. CASE Reached(q)
    <3>1. at' = [at EXCEPT ![c] = "idle"] /\ todo' = [todo EXCEPT ![c] = {}]
          /\ query' = [query EXCEPT ![c] = NoQuery]
      BY <1>6, <2>1 DEF Return
    <3>2. ASSUME NEW d \in Checks
          PROVE  /\ (at[d] = "rules" => UpToDate(todo[d]) \/ missed[d])'
                 /\ (at[d] = "consumption" => Current(query[d].start, query[d].tokens) \/ missed[d])'
      <4>1. CASE d = c BY <1>2, <3>1, <4>1 DEF Checking
      <4>2. CASE d # c
        <5>1. at'[d] = at[d] /\ todo'[d] = todo[d] /\ query'[d] = query[d] /\ missed'[d] = missed[d]
          BY <1>2, <1>7, <3>1, <4>2 DEF Checking
        <5>2. PICK S, p : S = todo[d] /\ p = query[d] OBVIOUS
        <5>3. at[d] = "rules" => UpToDate(S)' \/ missed[d] BY <1>1, <5>2, FreshStays DEF Filling
        <5>4. at[d] = "consumption" => Current(p.start, p.tokens)' \/ missed[d]
          BY <1>1, <5>2, FreshStays DEF Filling
        <5> QED BY <5>1, <5>2, <5>3, <5>4
      <4> QED BY <4>1, <4>2
    <3> QED BY <1>7, <3>2 DEF Filling
  <2>2. CASE ~Reached(q) BY <1>1, <1>2, <1>6, <1>7, <2>2, ReadyFills
  <2> QED BY <2>1, <2>2
<1>9. /\ DOMAIN consumption' \subseteq DOMAIN f
      /\ \A s \in DOMAIN consumption' : consumption'[s] = f[s]
  BY <1>2, <1>6, LoopFills
<1>10. ASSUME NEW s \in DOMAIN consumption'
       PROVE  (Current(s, consumption[s].data) \/ consumption[s].raced)'
  <2>1. PICK g : g = f[s] OBVIOUS
  <2>2. s \in DOMAIN f /\ consumption'[s] = g BY <1>9, <2>1
  <2>3. Current(s, g.data) \/ g.raced
    <3>1. CASE s = q.start
      <4>1. g.data = q.tokens /\ g.raced = m BY <1>4, <1>5, <2>1, <2>2, <3>1
      <4>2. Current(q.start, q.tokens) \/ m BY <1>1, <1>4 DEF Filling
      <4> QED BY <3>1, <4>1, <4>2
    <3>2. CASE s # q.start
      <4>1. s \in DOMAIN consumption /\ consumption[s] = g BY <1>5, <2>1, <2>2, <3>2
      <4> QED BY <4>1 DEF Explained
    <3> QED BY <3>1, <3>2
  <2>4. Current(s, g.data)' \/ g.raced BY <1>1, <2>3, FreshStays
  <2> QED BY <2>2, <2>4
<1>11. (rulesCache # NoEntry => UpToDate(rulesCache.data) \/ rulesCache.raced)'
  <2>1. PICK e : e = rulesCache OBVIOUS
  <2>2. e # NoEntry => UpToDate(e.data)' \/ e.raced BY <1>1, <2>1, FreshStays DEF Explained
  <2> QED BY <1>1, <2>1, <2>2
<1> QED BY <1>8, <1>10, <1>11 DEF Explained

LEMMA QueryFailsFills ==
  ASSUME LimitsInv, Filling, Explained, NEW c \in Checks, QueryFails(c)
  PROVE  Filling' /\ Explained'
<1>1. UNCHANGED <<clock, database, events>> /\ rulesCache' = rulesCache /\ consumption' = consumption
  BY DEF QueryFails, caches
<1>2. /\ at' = [at EXCEPT ![c] = "idle"] /\ todo' = [todo EXCEPT ![c] = {}]
      /\ query' = [query EXCEPT ![c] = NoQuery] /\ missed' = [missed EXCEPT ![c] = FALSE]
  BY DEF QueryFails, Return
<1>3. Checking /\ DOMAIN missed = Checks BY DEF LimitsInv, Filling
<1>4. Explained' BY <1>1, FreshStays, ExplainedStays
<1>5. ASSUME NEW d \in Checks
      PROVE  /\ (at[d] = "rules" => UpToDate(todo[d]) \/ missed[d])'
             /\ (at[d] = "consumption" => Current(query[d].start, query[d].tokens) \/ missed[d])'
  <2>1. CASE d = c BY <1>2, <1>3, <2>1 DEF Checking
  <2>2. CASE d # c
    <3>1. at'[d] = at[d] /\ todo'[d] = todo[d] /\ query'[d] = query[d] /\ missed'[d] = missed[d]
      BY <1>2, <1>3, <2>2 DEF Checking
    <3>2. PICK S, p : S = todo[d] /\ p = query[d] OBVIOUS
    <3>3. at[d] = "rules" => UpToDate(S)' \/ missed[d] BY <1>1, <3>2, FreshStays DEF Filling
    <3>4. at[d] = "consumption" => Current(p.start, p.tokens)' \/ missed[d]
      BY <1>1, <3>2, FreshStays DEF Filling
    <3> QED BY <3>1, <3>2, <3>3, <3>4
  <2> QED BY <2>1, <2>2
<1> QED BY <1>2, <1>3, <1>4, <1>5 DEF Filling

LEMMA EvictFills ==
  ASSUME LimitsInv, Filling, Explained, Evict
  PROVE  Filling' /\ Explained'
<1>1. /\ UNCHANGED <<clock, upTo, rules, unannounced, owing, rulesCache, at, todo, query>>
      /\ consumption' = [s \in {} |-> NoEntry]
      /\ missed' = [c \in Checks |-> missed[c] \/ at[c] = "consumption"]
  BY DEF Evict, database, checks
<1>2. \A S : UpToDate(S) => UpToDate(S)' BY <1>1 DEF UpToDate, ActiveBlockRules
<1>3. Explained'
  <2>1. PICK e : e = rulesCache OBVIOUS
  <2>2. e # NoEntry => UpToDate(e.data)' \/ e.raced BY <1>2, <2>1 DEF Explained
  <2> QED BY <1>1, <2>1, <2>2 DEF Explained
<1>4. ASSUME NEW d \in Checks
      PROVE  /\ (at[d] = "rules" => UpToDate(todo[d]) \/ missed[d])'
             /\ (at[d] = "consumption" => Current(query[d].start, query[d].tokens) \/ missed[d])'
  <2>1. PICK S, m : S = todo[d] /\ m = missed[d] OBVIOUS
  <2>2. at[d] = "rules" => UpToDate(S)' \/ m BY <1>2, <2>1 DEF Filling
  <2>3. missed'[d] <=> m \/ at[d] = "consumption" BY <1>1, <2>1
  <2> QED BY <1>1, <2>1, <2>2, <2>3
<1> QED BY <1>1, <1>3, <1>4 DEF Filling

LEMMA InvalidateCacheFills ==
  ASSUME LimitsInv, Filling, Explained, InvalidateCache
  PROVE  Filling' /\ Explained'
<1>1. /\ UNCHANGED <<clock, upTo, rules, unannounced, timer, at, todo, query>>
      /\ consumption' = [s \in {} |-> NoEntry] /\ rulesCache' = NoEntry
      /\ missed' = [c \in Checks |-> missed[c] \/ at[c] = "rules"]
  BY DEF InvalidateCache, database, checks
<1>2. \A s, n : Current(s, n) => Current(s, n)' BY <1>1 DEF Current, Consumed
<1>3. Explained' BY <1>1 DEF Explained
<1>4. ASSUME NEW d \in Checks
      PROVE  /\ (at[d] = "rules" => UpToDate(todo[d]) \/ missed[d])'
             /\ (at[d] = "consumption" => Current(query[d].start, query[d].tokens) \/ missed[d])'
  <2>1. PICK q, m : q = query[d] /\ m = missed[d] OBVIOUS
  <2>2. at[d] = "consumption" => Current(q.start, q.tokens)' \/ m BY <1>2, <2>1 DEF Filling
  <2>3. missed'[d] <=> m \/ at[d] = "rules" BY <1>1, <2>1
  <2> QED BY <1>1, <2>1, <2>2, <2>3
<1> QED BY <1>1, <1>3, <1>4 DEF Filling

LEMMA CachesStep ==
  ASSUME LimitsInv, Filling, Explained, [LimitsNext]_limitsVars
  PROVE  Filling' /\ Explained'
<1>1. CASE ClockTick
  <2>1. \A S : UpToDate(S) => UpToDate(S)'
    BY <1>1 DEF ClockTick, UpToDate, ActiveBlockRules, database, events
  <2>2. \A s \in 0..clock : \A n : Current(s, n) => Current(s, n)' BY <1>1, TickMoves DEF LimitsInv
  <2> QED BY <1>1, <2>1, <2>2, FillingStays, ExplainedStays DEF ClockTick, caches
<1>2. CASE WriteRow
  <2>1. \A S : UpToDate(S) => UpToDate(S)' BY <1>2 DEF WriteRow, UpToDate, ActiveBlockRules
  <2>2. \A s, n : Current(s, n)' BY <1>2, WriteRowMoves DEF LimitsInv
  <2> QED BY <1>2, <2>1, <2>2, FillingStays, ExplainedStays DEF WriteRow, caches
<1>3. CASE Emit
  <2>1. \A S : UpToDate(S) => UpToDate(S)' BY <1>3 DEF Emit, UpToDate, ActiveBlockRules, database
  <2>2. timer' # NoTimer BY <1>3, LimitsGiven DEF Emit, NoTimer, LimitsInv, DatabaseInv, Times
  <2>3. \A s, n : Current(s, n)' BY <2>2 DEF Current
  <2> QED BY <1>3, <2>1, <2>3, FillingStays, ExplainedStays DEF Emit, caches
<1>4. CASE Evict BY <1>4, EvictFills
<1>5. CASE InvalidateCache BY <1>5, InvalidateCacheFills
<1>6. CASE MakeRoom
  <2>1. UNCHANGED <<clock, database, events>> /\ UNCHANGED checks /\ UNCHANGED missed
        /\ rulesCache' \in {rulesCache, NoEntry}
        /\ DOMAIN consumption' \subseteq DOMAIN consumption
        /\ \A s \in DOMAIN consumption' : consumption'[s] = consumption[s]
    BY <1>6 DEF MakeRoom, Drop
  <2> QED BY <2>1, FreshStays, FillingStays, ExplainedStays
<1>7. ASSUME NEW r \in Rules, ChangeRule(r) PROVE Filling' /\ Explained'
  <2>1. owing' > 0 /\ \A s, n : Current(s, n) => Current(s, n)' BY <1>7, ChangeRuleMoves DEF LimitsInv
  <2>2. \A S : UpToDate(S)' BY <2>1 DEF UpToDate
  <2> QED BY <1>7, <2>1, <2>2, FillingStays, ExplainedStays DEF ChangeRule, caches
<1>8. ASSUME NEW c \in Checks, CheckLimits(c) \/ RulesAnswer(c) \/ ConsumptionAnswer(c) \/ QueryFails(c)
      PROVE  Filling' /\ Explained'
  BY <1>8, CheckLimitsFills, RulesAnswerFills, ConsumptionAnswerFills, QueryFailsFills
<1>9. CASE UNCHANGED limitsVars
  <2>1. UNCHANGED <<clock, database, events>> /\ UNCHANGED checks /\ UNCHANGED missed
        /\ rulesCache' = rulesCache /\ consumption' = consumption
    BY <1>9 DEF limitsVars, database, events, checks
  <2> QED BY <2>1, FreshStays, FillingStays, ExplainedStays
<1> QED BY <1>1, <1>2, <1>3, <1>4, <1>5, <1>6, <1>7, <1>8, <1>9 DEF LimitsNext

\* What the two caches hold is what the database holds, unless an eviction is still
\* to come or came while the entry was being fetched.
THEOREM CachesAreExplained ==
  LimitsSpec => []StaleForAReason
<1>1. LimitsInit => Filling /\ Explained BY DEF LimitsInit, Filling, Explained
<1>2. LimitsInv /\ Filling /\ Explained /\ [LimitsNext]_limitsVars => Filling' /\ Explained' BY CachesStep
<1>3. Explained => StaleForAReason BY DEF Explained, StaleForAReason, UpToDate, Current
<1> QED BY <1>1, <1>2, <1>3, LimitsInvariant, PTL DEF LimitsSpec
===============================================================================
