------------------------- MODULE MessagesStreamProofs -------------------------
(***************************************************************************)
(* Proofs that the blocks of a streamed answer stay apart, that the client *)
(* which reads to the end has everything, in order, and the right end, and *)
(* that what it reads is a streamed answer as StreamedAnswer has it: for   *)
(* any calls and payloads and any number of parts.                         *)
(*                                                                         *)
(* BlocksStayApart follows from what the parts before the next one left    *)
(* open.  For the others, SInv says that the events on the wire lead the   *)
(* client, each by a step StreamedAnswer allows, to a state that has the   *)
(* blocks the converter has numbered, open where it says so, with all that *)
(* the provider has sent, but for calls that text parted; or that the      *)
(* client was cut off.  StoppedByText says which calls those are: what     *)
(* stops a call's block is text.                                           *)
(***************************************************************************)
EXTENDS MessagesStream, FiniteSetTheorems, SequenceTheorems, TLAPS

\* A fragment comes where its array has closed what was open: the invariant of
\* the parts that are left.
ArraysClose ==
  \A j \in DOMAIN todo : todo[j].kind = "call" =>
    \/ InArray(todo, j)
    \/ j = 1 /\ (api = "messages" => thinkingIndex = None /\ textIndex = None)

\* Calls that are open have a block; the responses converter has neither calls
\* nor reasoning.
CallsHaveBlocks ==
  /\ \A c \in Calls : toolCalls[c].opened => toolCalls[c].index # None
  /\ api = "responses" =>
       thinkingIndex = None /\ \A c \in Calls : toolCalls[c].index = None

IInv == TypeOK /\ BlocksApart /\ ArraysClose /\ CallsHaveBlocks

LEMMA InitInv == Init => IInv
  BY ApisAssumption DEF Init, IInv, TypeOK, BlocksApart, ArraysClose, CallsHaveBlocks, OpenCalls

\* The parts that are left after the first one.  The array of a fragment is
\* still there, or has just closed what was open.
LEMMA PartsLeft ==
  ASSUME TypeOK, ArraysClose, todo # <<>>, todo' = Tail(todo), api' = api,
         Head(todo).kind \in {"tools", "call"} /\ api = "messages" =>
           thinkingIndex' = None /\ textIndex' = None
  PROVE  todo' \in Seq(Part) /\ ArraysClose'
<1>1. todo' \in Seq(Part) BY DEF TypeOK
<1>2. ASSUME NEW j \in DOMAIN todo', todo'[j].kind = "call"
      PROVE  \/ InArray(todo', j)
             \/ j = 1 /\ (api' = "messages" => thinkingIndex' = None /\ textIndex' = None)
  <2>1. /\ j \in 1 .. Len(todo) - 1 /\ j + 1 \in DOMAIN todo /\ j \in DOMAIN todo
        /\ todo'[j] = todo[j + 1]
        /\ j # 1 => todo'[j - 1] = todo[j]
        /\ Head(todo) = todo[1]
    BY <1>2 DEF TypeOK
  <2>2. InArray(todo, j + 1) BY <1>2, <2>1 DEF ArraysClose
  <2>3. todo[j].kind \in {"tools", "call"} BY <2>1, <2>2 DEF InArray
  <2>4. CASE j = 1 BY <2>1, <2>3, <2>4
  <2>5. CASE j # 1 BY <2>1, <2>3, <2>5 DEF InArray
  <2> QED BY <2>4, <2>5
<1> QED BY <1>1, <1>2 DEF ArraysClose

\* Each action leaves the invariant true.
LEMMA Inductive == IInv /\ [Next]_vars => IInv'
<1> SUFFICES ASSUME IInv, [Next]_vars PROVE IInv' OBVIOUS
<1> USE NoneAssumption DEF IInv, TypeOK
<1>1. ASSUME NEW p \in Payloads, Read(p) PROVE IInv'
  <2>1. p \in Seq(Part) /\ ArraysClose' BY <1>1, PayloadsAssumption DEF Read, ArraysClose, InArray
  <2> QED BY <1>1, <2>1 DEF Read, BlocksApart, CallsHaveBlocks, OpenCalls
<1>2. CASE DropReasoning
  <2>1. todo' \in Seq(Part) /\ ArraysClose' BY <1>2, PartsLeft DEF DropReasoning, Meets
  <2> QED BY <1>2, <2>1 DEF DropReasoning, Meets, BlocksApart, CallsHaveBlocks, OpenCalls
<1>3. CASE Reasoning
  <2>1. todo' \in Seq(Part) /\ ArraysClose' BY <1>3, PartsLeft DEF Reasoning, Meets
  <2> QED BY <1>3, <2>1
    DEF Reasoning, Meets, BlocksApart, CallsHaveBlocks, OpenCalls, BlockOf, CounterAfter
<1>4. CASE Content
  <2>1. todo' \in Seq(Part) /\ ArraysClose' BY <1>4, PartsLeft DEF Content, Meets
  <2>2. /\ toolCalls' \in [Calls -> [index : Nat \cup {None}, opened : BOOLEAN]]
        /\ \A c \in Calls : toolCalls'[c].index = toolCalls[c].index /\ ~toolCalls'[c].opened
    BY <1>4 DEF Content, CallsClosed
  <2>3. /\ thinkingIndex' = None /\ api' = api
        /\ textIndex = None => textIndex' = nextBlockIndex /\ nextBlockIndex' = nextBlockIndex + 1
        /\ textIndex # None => textIndex' = textIndex /\ nextBlockIndex' = nextBlockIndex
    BY <1>4 DEF Content, Meets, BlockOf, CounterAfter
  <2>4. CallsHaveBlocks' BY <2>2, <2>3 DEF CallsHaveBlocks
  <2>5. OpenCalls' = {} BY <2>2 DEF OpenCalls
  <2>6. nextBlockIndex' \in Nat /\ textIndex' \in Nat /\ nextBlockIndex <= nextBlockIndex'
        /\ textIndex' < nextBlockIndex'
    BY <2>3 DEF BlocksApart
  <2>7. \A c \in Calls : toolCalls[c].index # None =>
          toolCalls[c].index < nextBlockIndex /\ toolCalls[c].index # textIndex
    BY DEF BlocksApart
  <2>8. \A c \in Calls : toolCalls'[c].index # None =>
          toolCalls'[c].index < nextBlockIndex' /\ toolCalls'[c].index # textIndex'
    <3>1. CASE textIndex = None BY <2>2, <2>3, <2>7, <3>1
    <3>2. CASE textIndex # None BY <2>2, <2>3, <2>7, <3>2
    <3> QED BY <3>1, <3>2
  <2>9. \A c, d \in Calls : toolCalls'[c].index = toolCalls'[d].index
                             => c = d \/ toolCalls'[c].index = None
    BY <2>2 DEF BlocksApart
  <2>10. BlocksApart' BY <2>3, <2>5, <2>6, <2>8, <2>9 DEF BlocksApart
  <2> QED BY <2>1, <2>2, <2>3, <2>4, <2>6, <2>10
<1>5. CASE Tools
  <2>1. todo' \in Seq(Part) /\ ArraysClose' BY <1>5, PartsLeft DEF Tools, Meets
  <2> QED BY <1>5, <2>1 DEF Tools, Meets, BlocksApart, CallsHaveBlocks, OpenCalls
<1>6. CASE Fragment
  <2>1. thinkingIndex = None /\ textIndex = None
    <3>1. 1 \in DOMAIN todo /\ todo[1].kind = "call"
      <4>1. todo # <<>> /\ Head(todo).kind = "call" BY <1>6 DEF Fragment, Meets
      <4>2. todo \in Seq(Part) OBVIOUS
      <4> QED BY ONLY <4>1, <4>2
    <3>2. ~InArray(todo, 1) BY DEF InArray
    <3>3. api = "messages" BY <1>6 DEF Fragment
    <3> QED BY <3>1, <3>2, <3>3 DEF ArraysClose
  <2>2. todo' \in Seq(Part) /\ ArraysClose' BY <1>6, <2>1, PartsLeft DEF Fragment, Meets
  <2>3. PICK c \in Calls :
          /\ toolCalls' = [toolCalls EXCEPT
               ![c] = [index |-> BlockOf(toolCalls[c].index), opened |-> TRUE]]
          /\ nextBlockIndex' = CounterAfter(toolCalls[c].index)
    <3>1. Head(todo) \in Part /\ Head(todo).kind = "call"
      <4>1. todo # <<>> /\ Head(todo).kind = "call" BY <1>6 DEF Fragment, Meets
      <4>2. todo \in Seq(Part) OBVIOUS
      <4> QED BY ONLY <4>1, <4>2
    <3>2. Head(todo).call \in Calls BY <3>1 DEF Part
    <3> QED BY <1>6, <3>2 DEF Fragment
  <2>4. /\ UNCHANGED <<api, thinkingIndex, textIndex>>
        /\ api = "messages"
    BY <1>6 DEF Fragment, Meets
  <2>5. /\ \A d \in Calls \ {c} : toolCalls'[d] = toolCalls[d]
        /\ toolCalls'[c].index = BlockOf(toolCalls[c].index) /\ toolCalls'[c].opened
        /\ toolCalls' \in [Calls -> [index : Nat \cup {None}, opened : BOOLEAN]]
        /\ nextBlockIndex' \in Nat
    BY <2>3 DEF BlockOf, CounterAfter
  <2>6. CASE toolCalls[c].index = None
    BY <2>1, <2>2, <2>3, <2>4, <2>5, <2>6
      DEF BlocksApart, CallsHaveBlocks, OpenCalls, BlockOf, CounterAfter
  <2>7. CASE toolCalls[c].index # None
    BY <2>1, <2>2, <2>3, <2>4, <2>5, <2>7
      DEF BlocksApart, CallsHaveBlocks, OpenCalls, BlockOf, CounterAfter
  <2> QED BY <2>6, <2>7
<1>7. CASE SkipFragment
  <2>1. todo' \in Seq(Part) /\ ArraysClose' BY <1>7, PartsLeft DEF SkipFragment, Meets
  <2> QED BY <1>7, <2>1 DEF SkipFragment, Meets, BlocksApart, CallsHaveBlocks, OpenCalls
<1>8. CASE FinishReason
  <2>1. todo' \in Seq(Part) /\ ArraysClose' BY <1>8, PartsLeft DEF FinishReason, Meets
  <2>2. UNCHANGED <<api, thinkingIndex, textIndex, toolCalls, nextBlockIndex>>
    BY <1>8 DEF FinishReason, Meets
  <2> QED BY <2>1, <2>2 DEF BlocksApart, CallsHaveBlocks, OpenCalls
<1>9. CASE UsageOnly
  <2>1. todo' \in Seq(Part) /\ ArraysClose' BY <1>9, PartsLeft DEF UsageOnly, Meets
  <2> QED BY <1>9, <2>1 DEF UsageOnly, Meets, BlocksApart, CallsHaveBlocks, OpenCalls
<1>12. CASE UsageBeside
  <2>1. todo' \in Seq(Part) /\ ArraysClose' BY <1>12, PartsLeft DEF UsageBeside, Meets
  <2>2. UNCHANGED <<api, thinkingIndex, textIndex, toolCalls, nextBlockIndex>>
    BY <1>12 DEF UsageBeside, Meets
  <2> QED BY <2>1, <2>2 DEF BlocksApart, CallsHaveBlocks, OpenCalls
<1>10. CASE Finalize
  <2>1. /\ toolCalls' \in [Calls -> [index : Nat \cup {None}, opened : BOOLEAN]]
        /\ \A c \in Calls : toolCalls'[c].index = toolCalls[c].index /\ ~toolCalls'[c].opened
    BY <1>10 DEF Finalize, CallsClosed
  <2> QED BY <1>10, <2>1 DEF Finalize, BlocksApart, ArraysClose, InArray, CallsHaveBlocks, OpenCalls
<1>11. CASE UNCHANGED <<api, todo, thinkingIndex, textIndex, toolCalls, nextBlockIndex>>
  BY <1>11 DEF BlocksApart, ArraysClose, InArray, CallsHaveBlocks, OpenCalls
<1> QED BY <1>1, <1>2, <1>3, <1>4, <1>5, <1>6, <1>7, <1>8, <1>9, <1>10, <1>11, <1>12
  DEF Next, Transform, Close, Break, Receive, Cut, vars, converter

\* However the parts of an answer come, blocks that are open never collide and
\* every index is below the counter (createMessagesStreamTransformer).
THEOREM BlocksStayApart == Spec => []BlocksApart
<1>1. IInv => BlocksApart BY DEF IInv
<1> QED BY InitInv, Inductive, <1>1, PTL DEF Spec

-------------------------------------------------------------------------------
(* What the client will have *)

Client == [phase |-> phase, blocks |-> blocks, told |-> told]

Kinds == {"thinking", "text"} \cup Calls

\* An event, as Receive takes it: what it makes of the client.
Opened(b, i, kind) ==
  [j \in DOMAIN b \cup {i} |->
     IF j # i THEN b[j]
     ELSE [kind |-> kind, open |-> TRUE, pieces |-> <<>>]]
Grown(b, i, piece) == [b EXCEPT ![i].pieces = Append(@, piece)]
Shut(b, i) == [b EXCEPT ![i].open = FALSE]

IsOpen(b, i) == i \in DOMAIN b /\ b[i].open

Heard(s, e) ==
  [phase |-> IF e.type = "message_start" THEN "reading"
             ELSE IF e.type = "message_delta" THEN "told"
             ELSE IF e.type = "message_stop" THEN "done" ELSE s.phase,
   blocks |-> IF e.type = "content_block_start" THEN Opened(s.blocks, e.index, e.kind)
              ELSE IF e.type = "content_block_delta" /\ IsOpen(s.blocks, e.index)
              THEN Grown(s.blocks, e.index, e.piece)
              ELSE IF e.type = "content_block_stop" /\ IsOpen(s.blocks, e.index)
              THEN Shut(s.blocks, e.index) ELSE s.blocks,
   told |-> IF e.type = "message_delta" THEN e ELSE s.told]

\* A step of StreamedAnswer, from one state of the client to another.
Moves(s, t) ==
  \/ s.phase = "waiting" /\ t.phase = "reading"
  \/ /\ s.phase \in {"waiting", "reading"} /\ t.phase = "told"
     /\ \A i \in DOMAIN s.blocks : ~s.blocks[i].open
  \/ s.phase = "told" /\ t.phase = "done"

Changes(b, c) ==
  \/ \E k \in Kinds :
       /\ \A i \in DOMAIN b : b[i].open => {k, b[i].kind} \subseteq Calls
       /\ LET next == Cardinality(DOMAIN b)
          IN c = [i \in DOMAIN b \cup {next} |->
                    IF i = next THEN [kind |-> k, open |-> TRUE, pieces |-> <<>>] ELSE b[i]]
  \/ \E i \in DOMAIN b :
       \/ /\ b[i].kind \in Calls /\ ~b[i].open
          /\ \A j \in DOMAIN b : b[j].open => b[j].kind \in Calls
          /\ c = [b EXCEPT ![i].open = TRUE, ![i].pieces = <<>>]
       \/ b[i].open /\ c = Shut(b, i)
       \/ b[i].open /\ \E p \in 1 .. MaxParts : c = Grown(b, i, p)

Allowed(s, t) == \/ Moves(s, t) /\ t.blocks = s.blocks
                 \/ s.phase = "reading" /\ t.phase = "reading" /\ Changes(s.blocks, t.blocks)

Increasing(p) == \A m, n \in DOMAIN p : m < n => p[m] < p[n]
Ordered(b) ==
  /\ \A i \in DOMAIN b : Increasing(b[i].pieces)
  /\ \A i, j \in DOMAIN b : i < j /\ b[i].kind \notin Calls =>
       \A m \in DOMAIN b[i].pieces, n \in DOMAIN b[j].pieces : b[i].pieces[m] <= b[j].pieces[n]

Unended == {"waiting", "reading"}
Good(s) == /\ Ordered(s.blocks)
           /\ s.phase \in Unended \cup {"told", "done"}
           /\ s.phase \in Unended => s.told = None

\* The end has been told, and nothing comes after it but Over.
Settled(r, s) == r.phase \notin Unended =>
                   r.blocks = s.blocks /\ r.told = s.told /\ s.phase \notin Unended

\* The events w lead a client from c to s.
Follows(h, w) ==
  \A i \in 1 .. Len(w) : h[i] = Heard(h[i - 1], w[i]) /\ Allowed(h[i - 1], h[i])
Leads(c, w, s) ==
  /\ \E S : w \in Seq(S)
  /\ \E h :
         /\ h[0] = c /\ h[Len(w)] = s
         /\ Follows(h, w)
         /\ \A i \in 0 .. Len(w) : Good(h[i]) /\ Settled(h[i], s)

\* The blocks a client has, numbered from 0, with no piece above top.
IsBlock(r, top) ==
  /\ r = [kind |-> r.kind, open |-> r.open, pieces |-> r.pieces]
  /\ r.kind \in Kinds /\ r.open \in BOOLEAN /\ r.pieces \in Seq(1 .. top)
Whole(b, n, top) ==
  /\ b = [i \in 0 .. n - 1 |-> b[i]]
  /\ \A i \in 0 .. n - 1 : IsBlock(b[i], top)

PiecesOf(b, kind) == UNION {ToSet(b[i].pieces) : i \in {j \in DOMAIN b : b[j].kind = kind}}

\* What the provider has sent of this kind.
Sent(kind) == {h \in given : h[1] = kind}

\* The blocks have it all, but for calls that text parted.
AllOf(b) ==
  /\ \A kind \in {"thinking", "text"} : PiecesOf(b, kind) = Given(kind)
  /\ \A c \in Calls : /\ PiecesOf(b, c) \subseteq Arguments(c)
                      /\ PiecesOf(b, c) = Arguments(c) \/ Parted(c)

\* The blocks are those the converter has numbered, and open where it says so,
\* and have what the provider has sent.
Ahead(b) ==
  /\ Whole(b, nextBlockIndex, read) /\ Ordered(b)
  /\ \A i \in DOMAIN b : b[i].open <=> \/ i \in {thinkingIndex, textIndex}
                                       \/ \E c \in OpenCalls : toolCalls[c].index = i
  /\ thinkingIndex # None => /\ thinkingIndex = nextBlockIndex - 1
                             /\ b[thinkingIndex].kind = "thinking"
  /\ textIndex # None => textIndex = nextBlockIndex - 1 /\ b[textIndex].kind = "text"
  /\ \A c \in Calls : \A i \in DOMAIN b : b[i].kind = c <=> toolCalls[c].index = i
  /\ AllOf(b)
  /\ api = "responses" => \A i \in DOMAIN b : b[i].pieces = answerText

\* The client that has these blocks once all is received.
Will(b) ==
  [phase |-> IF endedMessage THEN "done" ELSE IF startedMessage THEN "reading" ELSE "waiting",
   blocks |-> b,
   told |-> IF endedMessage THEN Ending(StopReasonOf(stopReason), finalUsage, answerText)
            ELSE None]

\* What the converter's state says of the parts read and of the end.
Sane ==
  /\ read \in Nat /\ read + Len(todo) <= MaxParts
  /\ ~startedMessage => todo = <<>> /\ nextBlockIndex = 0
  /\ endedMessage => /\ captured = finalUsage
                     /\ source = "closed" /\ todo = <<>>
                     /\ thinkingIndex = None /\ textIndex = None /\ OpenCalls = {}
  /\ source # "open" => todo = <<>>
  /\ \A g \in given : g[2] \in 1 .. read
  /\ api = "responses" => /\ textIndex = None => endedMessage \/ (nextBlockIndex = 0 /\ answerText = <<>>)
                          /\ textIndex # None => nextBlockIndex = 1

\* What it has of usage and of the finish reason is what the provider said last.
Says ==
  /\ IF finalUsage = None THEN UsageTaken = {}
     ELSE /\ finalUsage \in UsageTaken
          /\ \A n \in IF api = "responses" THEN UsageTaken ELSE Given("usage") : n <= finalUsage
  /\ api = "messages" =>
       IF stopReason = None THEN Given("finish") = {}
       ELSE stopReason \in LastReason

\* A call whose block is not open has been stopped by text behind all of its
\* fragments.
BehindText(c) == toolCalls[c].opened \/ \A f \in Given(c) : \E t \in Given("text") : f < t
StoppedByText == \A c \in Calls : endedMessage \/ BehindText(c)

\* The client that was cut off.
CutOff == wire = <<>> /\ source = "broken" /\ Ordered(blocks) /\ told = None

\* What is on the wire leads the client to what the converter has written.
SInv == /\ Sane /\ Says
        /\ phase = "cut" => CutOff
        /\ phase # "cut" => \E b : Leads(Client, wire, Will(b)) /\ Ahead(b)

-------------------------------------------------------------------------------
(* Events lead the client from one state to another *)

LEMMA LeadsNowhere ==
  ASSUME NEW s, Good(s)
  PROVE  Leads(s, <<>>, s)
<1>. DEFINE h == [i \in {0} |-> s]
<1>1. Len(<<>>) = 0 /\ \E S : <<>> \in Seq(S)
  <2>1. <<>> \in Seq({}) BY EmptySeq
  <2> QED BY <2>1, EmptySeq
<1>2. h[0] = s /\ Follows(h, <<>>) /\ \A i \in 0 .. 0 : Good(h[i]) /\ Settled(h[i], s)
  BY <1>1 DEF Follows, Settled, Good
<1> QED BY <1>1, <1>2 DEF Leads

LEMMA LeadsOnce ==
  ASSUME NEW s, NEW e, Good(s), Good(Heard(s, e)), Allowed(s, Heard(s, e)),
         Settled(s, Heard(s, e))
  PROVE  Leads(s, <<e>>, Heard(s, e))
<1>. DEFINE t == Heard(s, e)
            h == [i \in {0, 1} |-> IF i = 0 THEN s ELSE t]
<1>1. Len(<<e>>) = 1 /\ <<e>>[1] = e /\ \E S : <<e>> \in Seq(S)
  <2>1. <<e>> \in Seq({e}) OBVIOUS
  <2> QED BY <2>1
<1>. HIDE DEF t
<1>2. Good(s) /\ Good(t) /\ Allowed(s, t) /\ Settled(s, t) /\ t = Heard(s, e) BY DEF t
<1>3. h[0] = s /\ h[1] = t OBVIOUS
<1>. HIDE DEF h
<1>4. Follows(h, <<e>>)
  <2>1. \A i \in 1 .. 1 : i = 1 /\ i - 1 = 0 OBVIOUS
  <2> QED BY <1>1, <1>2, <1>3, <2>1 DEF Follows
<1>5. \A i \in 0 .. 1 : Good(h[i]) /\ Settled(h[i], t)
  <2>1. \A i \in 0 .. 1 : i = 0 \/ i = 1 OBVIOUS
  <2>2. Settled(t, t) BY DEF Settled
  <2> QED BY <1>2, <1>3, <2>1, <2>2
<1>6. Leads(s, <<e>>, t) BY <1>1, <1>3, <1>4, <1>5 DEF Leads
<1> QED BY <1>6, <1>2

LEMMA LeadsFurther ==
  ASSUME NEW r, NEW v, NEW s, NEW w, NEW t, Leads(r, v, s), Leads(s, w, t)
  PROVE  Leads(r, v \o w, t)
<1>1. PICK S, T : v \in Seq(S) /\ w \in Seq(T) BY DEF Leads
<1>2. v \in Seq(S \cup T) /\ w \in Seq(S \cup T)
  BY <1>1
<1>3. /\ v \o w \in Seq(S \cup T) /\ Len(v) \in Nat /\ Len(w) \in Nat
      /\ Len(v \o w) = Len(v) + Len(w)
      /\ \A i \in 1 .. Len(v) : (v \o w)[i] = v[i]
      /\ \A i \in 1 .. Len(w) : (v \o w)[Len(v) + i] = w[i]
  BY <1>2
<1>4. PICK f : /\ f[0] = r /\ f[Len(v)] = s /\ Follows(f, v)
               /\ \A i \in 0 .. Len(v) : Good(f[i]) /\ Settled(f[i], s)
  BY DEF Leads
<1>5. PICK g : /\ g[0] = s /\ g[Len(w)] = t /\ Follows(g, w)
               /\ \A i \in 0 .. Len(w) : Good(g[i]) /\ Settled(g[i], t)
  BY DEF Leads
<1>. DEFINE m == Len(v)
            n == Len(w)
            u == v \o w
            h == [i \in 0 .. m + n |-> IF i <= m THEN f[i] ELSE g[i - m]]
<1>6. m \in Nat /\ n \in Nat /\ Len(u) = m + n BY <1>3
<1>7. (\A i \in 0 .. m : h[i] = f[i]) /\ (\A i \in 0 .. n : h[m + i] = g[i])
  <2>1. \A i \in 0 .. m : h[i] = f[i] BY <1>6
  <2>2. ASSUME NEW i \in 0 .. n PROVE h[m + i] = g[i]
    <3>1. CASE i = 0 BY <1>4, <1>5, <1>6, <3>1
    <3>2. CASE i # 0 BY <1>6, <3>2
    <3> QED BY <3>1, <3>2
  <2> QED BY <2>1, <2>2
<1>. HIDE DEF h
<1>8. Follows(h, u)
  <2>. SUFFICES ASSUME NEW i \in 1 .. m + n
                PROVE  h[i] = Heard(h[i - 1], u[i]) /\ Allowed(h[i - 1], h[i])
    BY <1>6 DEF Follows
  <2>1. CASE i <= m
    <3>1. i \in 1 .. m /\ i \in 0 .. m /\ i - 1 \in 0 .. m BY <1>6, <2>1
    <3>2. h[i] = f[i] /\ h[i - 1] = f[i - 1] /\ u[i] = v[i] BY <1>3, <1>7, <3>1
    <3> QED BY <1>4, <3>1, <3>2 DEF Follows
  <2>2. CASE ~(i <= m)
    <3>1. PICK k \in 1 .. n : i = m + k
      <4>1. i - m \in 1 .. n /\ i = m + (i - m) BY <1>6, <2>2
      <4> QED BY <4>1
    <3>2. k \in 0 .. n /\ k - 1 \in 0 .. n /\ i - 1 = m + (k - 1) BY <1>6, <3>1
    <3>3. h[i] = g[k] /\ h[i - 1] = g[k - 1] /\ u[i] = w[k] BY <1>3, <1>7, <3>1, <3>2
    <3> QED BY <1>5, <3>1, <3>3 DEF Follows
  <2> QED BY <2>1, <2>2
<1>9. \A i \in 0 .. m + n : Good(h[i]) /\ Settled(h[i], t)
  <2>. SUFFICES ASSUME NEW i \in 0 .. m + n PROVE Good(h[i]) /\ Settled(h[i], t)
    OBVIOUS
  <2>1. CASE i <= m
    <3>1. i \in 0 .. m BY <1>6, <2>1
    <3>2. h[i] = f[i] BY <1>7, <3>1
    <3>3. Good(f[i]) /\ Settled(f[i], s) BY <1>4, <3>1
    <3>4. Settled(s, t) BY <1>5, <1>6
    <3> QED BY <3>2, <3>3, <3>4 DEF Settled
  <2>2. CASE ~(i <= m)
    <3>1. PICK k \in 0 .. n : i = m + k BY <1>6, <2>2
    <3> QED BY <1>5, <1>7, <3>1
  <2> QED BY <2>1, <2>2
<1>10. h[0] = r /\ h[Len(u)] = t
  <2>1. h[0] = f[0] /\ h[m + n] = g[n] BY <1>6, <1>7
  <2> QED BY <1>4, <1>5, <1>6, <2>1
<1>. HIDE DEF u
<1>11. \E A : u \in Seq(A) BY <1>3 DEF u
<1>12. \A i \in 0 .. Len(u) : Good(h[i]) /\ Settled(h[i], t) BY <1>6, <1>9
<1>13. Leads(r, u, t) BY <1>8, <1>10, <1>11, <1>12 DEF Leads
<1> QED BY <1>13 DEF u

\* The first event that is received.
LEMMA LeadsAfterOne ==
  ASSUME NEW r, NEW w, NEW s, Leads(r, w, s), w # <<>>
  PROVE  /\ Leads(Heard(r, Head(w)), Tail(w), s)
         /\ Allowed(r, Heard(r, Head(w)))
<1>1. PICK S : w \in Seq(S) BY DEF Leads
<1>2. PICK h : /\ h[0] = r /\ h[Len(w)] = s /\ Follows(h, w)
               /\ \A i \in 0 .. Len(w) : Good(h[i]) /\ Settled(h[i], s)
  BY DEF Leads
<1>. DEFINE n == Len(w)
            rest == Tail(w)
            f == [i \in 0 .. n - 1 |-> h[i + 1]]
<1>3. /\ n \in Nat \ {0} /\ Head(w) = w[1] /\ rest \in Seq(S) /\ Len(rest) = n - 1
      /\ \A i \in 1 .. n - 1 : rest[i] = w[i + 1]
  BY <1>1, EmptySeq, LenProperties, HeadTailProperties
<1>4. h[1] = Heard(r, Head(w)) /\ Allowed(r, h[1])
  <2>1. 1 \in 1 .. Len(w) /\ 1 - 1 = 0 BY <1>3
  <2> QED BY <1>2, <1>3, <2>1 DEF Follows
<1>5. \A i \in 0 .. n - 1 : f[i] = h[i + 1] OBVIOUS
<1>. HIDE DEF f, rest
<1>6. Follows(f, rest)
  <2>. SUFFICES ASSUME NEW i \in 1 .. n - 1
                PROVE  f[i] = Heard(f[i - 1], rest[i]) /\ Allowed(f[i - 1], f[i])
    BY <1>3 DEF Follows
  <2>1. i \in 0 .. n - 1 /\ i - 1 \in 0 .. n - 1 /\ i + 1 \in 1 .. Len(w)
        /\ (i + 1) - 1 = i /\ (i - 1) + 1 = i
    BY <1>3
  <2>2. f[i] = h[i + 1] /\ f[i - 1] = h[i] /\ rest[i] = w[i + 1] BY <1>3, <1>5, <2>1
  <2>3. h[i + 1] = Heard(h[i], w[i + 1]) /\ Allowed(h[i], h[i + 1])
    BY <1>2, <2>1 DEF Follows
  <2> QED BY <2>2, <2>3
<1>7. \A i \in 0 .. Len(rest) : Good(f[i]) /\ Settled(f[i], s)
  BY <1>2, <1>3, <1>5
<1>8. f[0] = h[1] /\ f[Len(rest)] = s
  <2>1. 0 \in 0 .. n - 1 /\ n - 1 \in 0 .. n - 1 /\ (n - 1) + 1 = n BY <1>3
  <2> QED BY <1>2, <1>3, <1>5, <2>1
<1>9. Leads(h[1], rest, s) BY <1>3, <1>6, <1>7, <1>8 DEF Leads
<1> QED BY <1>4, <1>9 DEF rest

-------------------------------------------------------------------------------
(* Each kind of event *)

LEMMA BlockIsBlock ==
  ASSUME NEW kind \in Kinds, NEW open \in BOOLEAN, NEW top, NEW pieces \in Seq(1 .. top)
  PROVE  IsBlock([kind |-> kind, open |-> open, pieces |-> pieces], top)
BY DEF IsBlock

\* A client that is reading an answer.
Reading(b) == [phase |-> "reading", blocks |-> b, told |-> None]

\* An event that only changes the blocks.
LEMMA BlocksLead ==
  ASSUME NEW b, NEW c, NEW e, Ordered(b), Ordered(c), Changes(b, c),
         Heard(Reading(b), e) = Reading(c)
  PROVE  Leads(Reading(b), <<e>>, Reading(c))
<1>1. Good(Reading(b)) /\ Good(Reading(c)) BY DEF Good, Reading, Unended
<1>2. Allowed(Reading(b), Reading(c)) BY DEF Allowed, Reading
<1>3. Settled(Reading(b), Reading(c)) BY DEF Settled, Reading, Unended
<1> QED BY <1>1, <1>2, <1>3, LeadsOnce

LEMMA WholeDomain ==
  ASSUME NEW n \in Nat, NEW top \in Nat, NEW b, Whole(b, n, top)
  PROVE  DOMAIN b = 0 .. n - 1 /\ Cardinality(DOMAIN b) = n
<1>1. DOMAIN b = 0 .. n - 1 BY DEF Whole
<1>2. Cardinality(0 .. n - 1) = n BY FS_Interval
<1> QED BY <1>1, <1>2

\* The blocks c are the blocks b and an empty one of this kind after them.
Begins(b, n, top, kind, c) ==
  /\ Whole(c, n + 1, top) /\ Ordered(c)
  /\ c[n].kind = kind /\ c[n].open /\ c[n].pieces = <<>>
  /\ \A i \in 0 .. n - 1 : c[i] = b[i]

LEMMA StartLeads ==
  ASSUME NEW n \in Nat, NEW top \in Nat, NEW b, Whole(b, n, top), Ordered(b),
         NEW kind \in Kinds,
         \A i \in DOMAIN b : b[i].open => {kind, b[i].kind} \subseteq Calls
  PROVE  \E c : Leads(Reading(b), <<Started(n, kind)>>, Reading(c)) /\ Begins(b, n, top, kind, c)
<1>. DEFINE c == Opened(b, n, kind)
<1>1. DOMAIN b = 0 .. n - 1 /\ Cardinality(DOMAIN b) = n /\ n \notin DOMAIN b
  BY WholeDomain
<1>2. /\ c = [i \in DOMAIN b \cup {n} |->
                IF i = n THEN [kind |-> kind, open |-> TRUE, pieces |-> <<>>] ELSE b[i]]
      /\ Heard(Reading(b), Started(n, kind)) = Reading(c)
  BY <1>1 DEF Opened, Heard, Reading, Started
<1>. HIDE DEF c
<1>3. DOMAIN c = 0 .. n /\ DOMAIN b \cup {n} = 0 .. (n + 1) - 1
  BY <1>1, <1>2
<1>4. /\ c[n] = [kind |-> kind, open |-> TRUE, pieces |-> <<>>]
      /\ \A i \in 0 .. n - 1 : c[i] = b[i]
  BY <1>1, <1>2
<1>5. Whole(c, n + 1, top)
  <2>1. c = [i \in 0 .. (n + 1) - 1 |-> c[i]] BY <1>2, <1>3
  <2>2. <<>> \in Seq(1 .. top) BY EmptySeq
  <2>3. \A i \in 0 .. (n + 1) - 1 : i = n \/ i \in 0 .. n - 1 OBVIOUS
  <2>4. ASSUME NEW i \in 0 .. (n + 1) - 1
        PROVE  IsBlock(c[i], top)
    <3>1. CASE i = n BY <1>4, <2>2, <3>1, BlockIsBlock
    <3>2. CASE i \in 0 .. n - 1
      <4>1. c[i] = b[i] BY <1>4, <3>2
      <4> QED BY <3>2, <4>1 DEF Whole
    <3> QED BY <2>3, <3>1, <3>2
  <2> QED BY <2>1, <2>4 DEF Whole
<1>6. Ordered(c)
  <2>1. DOMAIN <<>> = {} BY EmptySeq
  <2>2. c[n].pieces = <<>> /\ \A i \in DOMAIN c : i = n \/ (i \in DOMAIN b /\ i < n /\ c[i] = b[i])
    BY <1>1, <1>3, <1>4
  <2>3. \A i \in DOMAIN c : Increasing(c[i].pieces)
    BY <2>1, <2>2 DEF Increasing, Ordered
  <2>4. ASSUME NEW i \in DOMAIN c, NEW j \in DOMAIN c, i < j, c[i].kind \notin Calls,
               NEW k \in DOMAIN c[i].pieces, NEW m \in DOMAIN c[j].pieces
        PROVE  c[i].pieces[k] <= c[j].pieces[m]
    <3>1. i # n /\ j # n BY <2>1, <2>2, <2>4
    <3>2. i \in DOMAIN b /\ j \in DOMAIN b /\ c[i] = b[i] /\ c[j] = b[j] BY <2>2, <3>1
    <3> QED BY <2>4, <3>2 DEF Ordered
  <2> QED BY <2>3, <2>4 DEF Ordered
<1>7. Changes(b, c) BY <1>1, <1>2 DEF Changes
<1>8. Leads(Reading(b), <<Started(n, kind)>>, Reading(c))
  BY <1>2, <1>6, <1>7, BlocksLead
<1>9. c[n].kind = kind /\ c[n].open /\ c[n].pieces = <<>> BY <1>4
<1> QED BY <1>4, <1>5, <1>6, <1>8, <1>9 DEF Begins

LEMMA RestartLeads ==
  ASSUME NEW n \in Nat, NEW top \in Nat, NEW b, Whole(b, n, top), Ordered(b),
         NEW k \in 0 .. n - 1, b[k].kind \in Calls, ~b[k].open,
         \A i \in DOMAIN b : b[i].open => b[i].kind \in Calls
  PROVE  \E c : /\ Leads(Reading(b), <<Started(k, b[k].kind)>>, Reading(c))
                /\ Whole(c, n, top) /\ Ordered(c)
                /\ c[k] = [kind |-> b[k].kind, open |-> TRUE, pieces |-> <<>>]
                /\ \A i \in (0 .. n - 1) \ {k} : c[i] = b[i]
<1>. DEFINE c == [b EXCEPT ![k].open = TRUE, ![k].pieces = <<>>]
<1>1. DOMAIN b = 0 .. n - 1 BY WholeDomain
<1>2. b[k] = [kind |-> b[k].kind, open |-> b[k].open, pieces |-> b[k].pieces]
  BY DEF Whole, IsBlock
<1>3. /\ DOMAIN c = 0 .. n - 1
      /\ c[k] = [kind |-> b[k].kind, open |-> TRUE, pieces |-> <<>>]
      /\ \A i \in (0 .. n - 1) \ {k} : c[i] = b[i]
      /\ c = [i \in 0 .. n - 1 |-> c[i]]
  BY <1>1, <1>2
<1>4. Changes(b, c) BY <1>1 DEF Changes
<1>. HIDE DEF c
<1>5. Heard(Reading(b), Started(k, b[k].kind)) = Reading(c)
  <2>. DEFINE d == Opened(b, k, b[k].kind)
  <2>1. Heard(Reading(b), Started(k, b[k].kind)) = Reading(d)
    BY DEF Heard, Reading, Started
  <2>2. d = [i \in 0 .. n - 1 |-> IF i # k THEN b[i] ELSE
               [kind |-> b[k].kind, open |-> TRUE, pieces |-> <<>>]]
    <3>1. DOMAIN b \cup {k} = 0 .. n - 1 BY <1>1
    <3> QED BY <1>1, <3>1 DEF Opened
  <2>. HIDE DEF d
  <2>3. d = c
    <3>1. DOMAIN d = DOMAIN c /\ \A i \in DOMAIN c : d[i] = c[i] BY <1>3, <2>2
    <3> QED BY <1>3, <2>2, <3>1
  <2> QED BY <2>1, <2>3
<1>6. /\ \A i \in 0 .. n - 1 : c[i].kind = b[i].kind
      /\ \A i \in (0 .. n - 1) \ {k} : c[i].pieces = b[i].pieces
      /\ DOMAIN c[k].pieces = {}
  <2>1. DOMAIN <<>> = {} BY EmptySeq
  <2>2. c[k].pieces = <<>> BY <1>3
  <2> QED BY <1>3, <2>1, <2>2
<1>7. Whole(c, n, top)
  <2>1. ASSUME NEW i \in 0 .. n - 1
        PROVE  IsBlock(c[i], top)
    <3>1. CASE i = k
      <4>1. b[k].kind \in Kinds /\ <<>> \in Seq(1 .. top) BY EmptySeq DEF Whole, IsBlock
      <4> QED BY <1>3, <3>1, <4>1, BlockIsBlock
    <3>2. CASE i # k
      <4>1. c[i] = b[i] BY <1>3, <3>2
      <4> QED BY <3>2, <4>1 DEF Whole
    <3> QED BY <3>1, <3>2
  <2> QED BY <1>3, <2>1 DEF Whole
<1>8. Ordered(c)
  <2>1. \A i \in DOMAIN c : Increasing(c[i].pieces) BY <1>1, <1>3, <1>6 DEF Ordered, Increasing
  <2>2. ASSUME NEW i \in DOMAIN c, NEW j \in DOMAIN c, i < j, c[i].kind \notin Calls,
               NEW l \in DOMAIN c[i].pieces, NEW m \in DOMAIN c[j].pieces
        PROVE  c[i].pieces[l] <= c[j].pieces[m]
    <3>1. i # k /\ j # k BY <1>6, <2>2
    <3>2. i \in DOMAIN b /\ j \in DOMAIN b /\ c[i] = b[i] /\ c[j] = b[j] BY <1>1, <1>3, <3>1
    <3> QED BY <2>2, <3>2 DEF Ordered
  <2> QED BY <2>1, <2>2 DEF Ordered
<1>9. Leads(Reading(b), <<Started(k, b[k].kind)>>, Reading(c))
  BY <1>4, <1>5, <1>8, BlocksLead
<1> QED BY <1>3, <1>7, <1>8, <1>9

\* The blocks c are the blocks b, with the piece p in block k.
Added(b, n, k, p, c) ==
  /\ Whole(c, n, p) /\ Ordered(c)
  /\ c[k].kind = b[k].kind /\ c[k].open /\ c[k].pieces = Append(b[k].pieces, p)
  /\ \A i \in (0 .. n - 1) \ {k} : c[i] = b[i]

LEMMA AddLeads ==
  ASSUME NEW n \in Nat, NEW top \in Nat, NEW b, Whole(b, n, top), Ordered(b),
         NEW k \in 0 .. n - 1, b[k].open, b[k].kind \in Calls \/ k = n - 1,
         NEW p \in 1 .. MaxParts, p > top,
         NEW e, e.type = "content_block_delta", e.index = k, e.piece = p
  PROVE  \E c : Leads(Reading(b), <<e>>, Reading(c)) /\ Added(b, n, k, p, c)
<1>. DEFINE c == Grown(b, k, p)
            longer == Append(b[k].pieces, p)
<1>1. DOMAIN b = 0 .. n - 1 BY WholeDomain
<1>2. /\ b[k] = [kind |-> b[k].kind, open |-> b[k].open, pieces |-> b[k].pieces]
      /\ b[k].kind \in Kinds /\ b[k].pieces \in Seq(1 .. top)
  BY DEF Whole, IsBlock
<1>3. b[k] = [kind |-> b[k].kind, open |-> TRUE, pieces |-> b[k].pieces]
  <2>1. b[k].open = TRUE BY DEF Whole, IsBlock
  <2> QED BY <1>2, <2>1
<1>4. /\ DOMAIN c = 0 .. n - 1
      /\ c[k] = [kind |-> b[k].kind, open |-> TRUE, pieces |-> longer]
      /\ \A i \in (0 .. n - 1) \ {k} : c[i] = b[i]
      /\ c = [i \in 0 .. n - 1 |-> c[i]]
  BY <1>1, <1>3 DEF Grown
<1>5. Changes(b, c) BY <1>1 DEF Changes
<1>6. Heard(Reading(b), e) = Reading(c) BY <1>1 DEF Heard, Reading, IsOpen
<1>. HIDE DEF c
<1>7. /\ longer \in Seq(1 .. p) /\ DOMAIN longer = 1 .. Len(b[k].pieces) + 1
      /\ Len(b[k].pieces) \in Nat /\ DOMAIN b[k].pieces = 1 .. Len(b[k].pieces)
      /\ longer[Len(b[k].pieces) + 1] = p
      /\ \A m \in DOMAIN b[k].pieces : longer[m] = b[k].pieces[m] /\ b[k].pieces[m] < p
  <2>1. b[k].pieces \in Seq(1 .. p) /\ p \in 1 .. p
    BY <1>2
  <2>2. Len(longer) = Len(b[k].pieces) + 1 BY <2>1
  <2> QED BY <1>2, <2>1, <2>2
<1>. HIDE DEF longer
<1>8. Whole(c, n, p)
  <2>1. ASSUME NEW i \in 0 .. n - 1 PROVE IsBlock(c[i], p)
    <3>1. CASE i = k
      <4>1. IsBlock([kind |-> b[k].kind, open |-> TRUE, pieces |-> longer], p)
        BY <1>2, <1>7, BlockIsBlock
      <4> QED BY <1>4, <3>1, <4>1
    <3>2. CASE i # k
      <4>1. IsBlock(b[i], top) /\ c[i] = b[i] BY <1>4, <3>2 DEF Whole
      <4>2. b[i].pieces \in Seq(1 .. p)
        <5>1. b[i].pieces \in Seq(1 .. top) BY <4>1 DEF IsBlock
        <5> QED BY <5>1
      <4>3. IsBlock(b[i], p) BY <4>1, <4>2 DEF IsBlock
      <4> QED BY <4>1, <4>3
    <3> QED BY <3>1, <3>2
  <2> QED BY <1>4, <2>1 DEF Whole
<1>9. Ordered(c)
  <2>1. \A i \in DOMAIN c : c[i].kind = b[i].kind BY <1>4
  <2>2. \A i \in DOMAIN c : i # k => c[i].pieces = b[i].pieces BY <1>4
  <2>3. c[k].pieces = longer BY <1>4
  <2>4. Increasing(longer)
    <3>1. Increasing(b[k].pieces) BY <1>1 DEF Ordered
    <3>2. ASSUME NEW m \in DOMAIN longer, NEW j \in DOMAIN longer, m < j
          PROVE  longer[m] < longer[j]
      <4>1. m \in DOMAIN b[k].pieces BY <1>7, <3>2
      <4>2. CASE j = Len(b[k].pieces) + 1 BY <1>7, <4>1, <4>2
      <4>3. CASE j # Len(b[k].pieces) + 1
        <5>1. j \in DOMAIN b[k].pieces
          <6>1. PICK l \in Nat : l = Len(b[k].pieces) BY <1>7
          <6>2. j \in 1 .. l + 1 /\ j # l + 1 BY <1>7, <4>3, <6>1
          <6>3. j \in 1 .. l BY ONLY <6>1, <6>2
          <6> QED BY <1>7, <6>1, <6>3
        <5> QED BY <1>7, <3>1, <3>2, <4>1, <5>1 DEF Increasing
      <4> QED BY <4>2, <4>3
    <3> QED BY <3>2 DEF Increasing
  <2>5. \A i \in DOMAIN c : Increasing(c[i].pieces)
    BY <1>1, <1>4, <2>2, <2>3, <2>4 DEF Ordered
  <2>6. ASSUME NEW i \in DOMAIN c, NEW j \in DOMAIN c, i < j, c[i].kind \notin Calls,
               NEW m \in DOMAIN c[i].pieces, NEW l \in DOMAIN c[j].pieces
        PROVE  c[i].pieces[m] <= c[j].pieces[l]
    <3>1. i # k
      <4>1. b[i].kind \notin Calls BY <2>1, <2>6
      <4>2. i # n - 1 BY <1>4, <2>6
      <4> QED BY <4>1, <4>2
    <3>2. i \in DOMAIN b /\ j \in DOMAIN b /\ c[i].pieces = b[i].pieces /\ m \in DOMAIN b[i].pieces
          /\ b[i].kind \notin Calls
      BY <1>1, <1>4, <2>1, <2>2, <2>6, <3>1
    <3>3. b[i].pieces[m] <= top
      <4>1. b[i].pieces \in Seq(1 .. top) BY <1>1, <3>2 DEF Whole, IsBlock
      <4> QED BY <3>2, <4>1
    <3>4. CASE j # k
      <4>1. c[j].pieces = b[j].pieces /\ l \in DOMAIN b[j].pieces BY <2>2, <2>6, <3>4
      <4> QED BY <2>6, <3>2, <4>1 DEF Ordered
    <3>5. CASE j = k
      <4>1. c[j].pieces = longer /\ l \in DOMAIN longer BY <2>3, <2>6, <3>5
      <4>2. CASE l = Len(b[k].pieces) + 1
        <5>1. b[i].pieces[m] \in Nat
          <6>1. b[i].pieces \in Seq(1 .. top) BY <1>1, <3>2 DEF Whole, IsBlock
          <6> QED BY <3>2, <6>1
        <5> QED BY <1>7, <3>2, <3>3, <4>1, <4>2, <5>1
      <4>3. CASE l # Len(b[k].pieces) + 1
        <5>1. l \in DOMAIN b[k].pieces BY <1>7, <4>1, <4>3
        <5>2. longer[l] = b[k].pieces[l] BY <1>7, <5>1
        <5> QED BY <1>1, <2>6, <3>2, <3>5, <4>1, <5>1, <5>2 DEF Ordered
      <4> QED BY <4>2, <4>3
    <3> QED BY <3>4, <3>5
  <2> QED BY <2>5, <2>6 DEF Ordered
<1>10. Leads(Reading(b), <<e>>, Reading(c)) BY <1>5, <1>6, <1>9, BlocksLead
<1>11. c[k].kind = b[k].kind /\ c[k].open /\ c[k].pieces = longer BY <1>4
<1>. HIDE <1>2, <1>3
<1> QED BY <1>4, <1>8, <1>9, <1>10, <1>11 DEF longer, Added

Closed(r) == [kind |-> r.kind, open |-> FALSE, pieces |-> r.pieces]

\* The blocks once those that X names are stopped.
AllShut(b, n, X) == [i \in 0 .. n - 1 |-> IF i \in X THEN Closed(b[i]) ELSE b[i]]

LEMMA ShutOne ==
  ASSUME NEW n \in Nat, NEW b, NEW top, Whole(b, n, top), NEW k \in 0 .. n - 1
  PROVE  Shut(b, k) = AllShut(b, n, {k})
<1>. DEFINE c == Shut(b, k)
<1>1. /\ DOMAIN b = 0 .. n - 1
      /\ b[k] = [kind |-> b[k].kind, open |-> b[k].open, pieces |-> b[k].pieces]
  BY DEF Whole, IsBlock
<1>2. /\ DOMAIN c = 0 .. n - 1
      /\ c[k] = [kind |-> b[k].kind, open |-> FALSE, pieces |-> b[k].pieces]
      /\ \A i \in (0 .. n - 1) \ {k} : c[i] = b[i]
      /\ c = [i \in 0 .. n - 1 |-> c[i]]
  BY <1>1 DEF Shut
<1>. HIDE DEF c
<1>3. c = AllShut(b, n, {k})
  BY <1>2 DEF Closed, AllShut
<1> QED BY <1>3 DEF c

LEMMA ClosedBlock ==
  ASSUME NEW r, NEW top, IsBlock(r, top)
  PROVE  /\ IsBlock(Closed(r), top)
         /\ Closed(r).kind = r.kind /\ Closed(r).pieces = r.pieces /\ ~Closed(r).open
<1>1. r.kind \in Kinds /\ r.pieces \in Seq(1 .. top) BY DEF IsBlock
<1>2. IsBlock(Closed(r), top) BY <1>1, BlockIsBlock DEF Closed
<1>3. Closed(r).kind = r.kind /\ Closed(r).pieces = r.pieces /\ ~Closed(r).open
  BY DEF Closed
<1> QED BY <1>2, <1>3

LEMMA ShutBlocks ==
  ASSUME NEW n \in Nat, NEW top \in Nat, NEW b, Whole(b, n, top), Ordered(b), NEW X
  PROVE  LET c == AllShut(b, n, X) IN
         /\ Whole(c, n, top) /\ Ordered(c)
         /\ \A i \in 0 .. n - 1 : /\ c[i].kind = b[i].kind /\ c[i].pieces = b[i].pieces
                                  /\ c[i].open <=> b[i].open /\ i \notin X
<1>. DEFINE c == AllShut(b, n, X)
<1>1. /\ c = [i \in 0 .. n - 1 |-> c[i]]
      /\ \A i \in 0 .. n - 1 : c[i] = IF i \in X THEN Closed(b[i]) ELSE b[i]
  BY DEF AllShut
<1>. HIDE DEF c
<1>2. \A i \in 0 .. n - 1 : /\ IsBlock(c[i], top)
                            /\ c[i].kind = b[i].kind /\ c[i].pieces = b[i].pieces
                            /\ c[i].open <=> b[i].open /\ i \notin X
  <2>. SUFFICES ASSUME NEW i \in 0 .. n - 1
                PROVE  /\ IsBlock(c[i], top)
                       /\ c[i].kind = b[i].kind /\ c[i].pieces = b[i].pieces
                       /\ c[i].open <=> b[i].open /\ i \notin X
    OBVIOUS
  <2>1. IsBlock(b[i], top) BY DEF Whole
  <2>2. CASE i \in X BY <1>1, <2>1, <2>2, ClosedBlock
  <2>3. CASE i \notin X BY <1>1, <2>1, <2>3
  <2> QED BY <2>2, <2>3
<1>3. DOMAIN b = 0 .. n - 1 /\ DOMAIN c = 0 .. n - 1 BY <1>1, WholeDomain
<1>4. Whole(c, n, top) BY <1>1, <1>2 DEF Whole
<1>5. Ordered(c) BY <1>2, <1>3 DEF Ordered
<1> QED BY <1>2, <1>4, <1>5 DEF c

\* The events v stop the blocks Y, which are open, each once and in the order f.
Stops(n, b, k, f, v, Y) ==
  /\ f \in [1 .. k -> 0 .. n - 1]
  /\ \A j \in 1 .. k : b[f[j]].open
  /\ \A i, j \in 1 .. k : f[i] = f[j] => i = j
  /\ \E S : v \in Seq(S)
  /\ Len(v) = k
  /\ \A j \in 1 .. k : v[j] = Stopped(f[j])
  /\ \A i : i \in Y <=> \E j \in 1 .. k : f[j] = i

\* Blocks that are open are stopped one after the other.
LEMMA ShutsLead ==
  ASSUME NEW n \in Nat, NEW top \in Nat, NEW b, Whole(b, n, top), Ordered(b),
         NEW k \in Nat, NEW f, NEW v, NEW Y, Stops(n, b, k, f, v, Y)
  PROVE  Leads(Reading(b), v, Reading(AllShut(b, n, Y)))
<1>. DEFINE X(j) == {f[i] : i \in 1 .. j}
            c(j) == AllShut(b, n, X(j))
            h == [j \in 0 .. k |-> Reading(c(j))]
<1>. USE DEF Stops
<1>1. X(k) = Y OBVIOUS
<1>2. \A j \in 0 .. k : Whole(c(j), n, top) /\ Ordered(c(j))
  BY ShutBlocks
<1>3. c(0) = b
  <2>1. X(0) = {} OBVIOUS
  <2> QED BY <2>1 DEF AllShut, Whole
<1>4. ASSUME NEW j \in 1 .. k
      PROVE  /\ Changes(c(j - 1), c(j))
             /\ Heard(Reading(c(j - 1)), v[j]) = Reading(c(j))
  <2>1. f[j] \in 0 .. n - 1 /\ f[j] \notin X(j - 1) /\ X(j) = X(j - 1) \cup {f[j]}
    <3>1. \A i \in 1 .. j - 1 : i \in 1 .. k /\ i # j /\ i \in 1 .. j OBVIOUS
    <3>2. \A i \in 1 .. j : i = j \/ i \in 1 .. j - 1 OBVIOUS
    <3>3. j \in 1 .. j OBVIOUS
    <3> QED BY <3>1, <3>2, <3>3
  <2>. DEFINE old == c(j - 1)
              new == c(j)
  <2>2. /\ DOMAIN old = 0 .. n - 1 /\ old[f[j]] = b[f[j]] /\ b[f[j]].open
        /\ new = AllShut(old, n, {f[j]})
    BY <2>1 DEF AllShut
  <2>3. new = Shut(old, f[j])
    <3>1. Whole(old, n, top)
      <4>1. j - 1 \in 0 .. k OBVIOUS
      <4> QED BY <1>2, <4>1
    <3>. HIDE DEF old, new
    <3>2. PICK x \in 0 .. n - 1 : x = f[j] BY <2>1
    <3>3. Shut(old, x) = AllShut(old, n, {x}) BY <3>1, ShutOne
    <3> QED BY <2>2, <3>2, <3>3
  <2>. HIDE DEF old, new
  <2>4. Changes(old, new) BY <2>1, <2>2, <2>3 DEF Changes
  <2>5. v[j] = Stopped(f[j]) OBVIOUS
  <2>6. Heard(Reading(old), Stopped(f[j])) = Reading(new)
    BY <2>1, <2>2, <2>3 DEF Heard, Reading, Stopped, IsOpen
  <2> QED BY <2>4, <2>5, <2>6 DEF old, new
<1>5. \A j \in 0 .. k : h[j] = Reading(c(j)) OBVIOUS
<1>. HIDE DEF c, h
<1>6. Follows(h, v)
  <2>. SUFFICES ASSUME NEW j \in 1 .. k
                PROVE  h[j] = Heard(h[j - 1], v[j]) /\ Allowed(h[j - 1], h[j])
    BY DEF Follows
  <2>1. h[j] = Reading(c(j)) /\ h[j - 1] = Reading(c(j - 1)) BY <1>5
  <2>2. Allowed(Reading(c(j - 1)), Reading(c(j))) BY <1>4 DEF Allowed, Reading
  <2> QED BY <1>4, <2>1, <2>2
<1>7. \A j \in 0 .. k : Good(h[j]) /\ Settled(h[j], Reading(c(k)))
  <2>. SUFFICES ASSUME NEW j \in 0 .. k
                PROVE  Good(h[j]) /\ Settled(h[j], Reading(c(k)))
    OBVIOUS
  <2>1. Ordered(c(j)) /\ h[j] = Reading(c(j)) BY <1>2, <1>5
  <2>2. Good(Reading(c(j))) /\ Settled(Reading(c(j)), Reading(c(k)))
    BY <2>1 DEF Good, Settled, Reading, Unended
  <2> QED BY <2>1, <2>2
<1>8. h[0] = Reading(b) /\ h[k] = Reading(c(k)) BY <1>3, <1>5
<1>9. Leads(Reading(b), v, Reading(c(k))) BY <1>6, <1>7, <1>8 DEF Leads
<1> QED BY <1>1, <1>9 DEF c

-------------------------------------------------------------------------------
(* What closes *)

\* A block or none is stopped.
LEMMA StopLeads ==
  ASSUME NEW n \in Nat, NEW top \in Nat, NEW b, Whole(b, n, top), Ordered(b),
         NEW i \in Nat \cup {None}, i # None => i \in 0 .. n - 1 /\ b[i].open
  PROVE  Leads(Reading(b), IF i = None THEN <<>> ELSE <<Stopped(i)>>,
               Reading(AllShut(b, n, {i})))
<1>1. CASE i = None
  <2>1. AllShut(b, n, {i}) = b
    <3>1. \A j \in 0 .. n - 1 : j # i BY <1>1, NoneAssumption
    <3>2. AllShut(b, n, {i}) = [j \in 0 .. n - 1 |-> b[j]] BY <3>1 DEF AllShut
    <3> QED BY <3>2 DEF Whole
  <2>2. Good(Reading(b)) BY DEF Good, Reading, Unended
  <2> QED BY <1>1, <2>1, <2>2, LeadsNowhere
<1>2. CASE i # None
  <2>. DEFINE f == [j \in 1 .. 1 |-> i]
              v == <<Stopped(i)>>
              X == {i}
  <2>1. /\ f \in [1 .. 1 -> 0 .. n - 1] /\ 1 \in Nat
        /\ \A j \in 1 .. 1 : b[f[j]].open
        /\ \A j, k \in 1 .. 1 : f[j] = f[k] => j = k
    BY <1>2
  <2>2. \A j : j \in X <=> \E k \in 1 .. 1 : f[k] = j OBVIOUS
  <2>3. (\E S : v \in Seq(S)) /\ Len(v) = 1 /\ \A j \in 1 .. 1 : v[j] = Stopped(f[j])
    <3>1. v \in Seq({Stopped(i)}) OBVIOUS
    <3>2. Len(v) = 1 /\ v[1] = Stopped(f[1]) /\ \A j \in 1 .. 1 : j = 1 OBVIOUS
    <3>. HIDE DEF v, f
    <3> QED BY <3>1, <3>2
  <2>. HIDE DEF f, v, X
  <2>4. Stops(n, b, 1, f, v, X) BY <2>1, <2>2, <2>3 DEF Stops
  <2>5. Leads(Reading(b), v, Reading(AllShut(b, n, X))) BY <2>1, <2>4, ShutsLead
  <2> QED BY <1>2, <2>5 DEF v, X
<1> QED BY <1>1, <1>2

Rank(S, i) == Cardinality({k \in S : k < i})

\* The members of a finite set of numbers by their rank.
LEMMA Ranked ==
  ASSUME NEW n \in Nat, NEW S, S \subseteq 0 .. n - 1
  PROVE  LET k == Cardinality(S)
             f == [j \in 1 .. k |-> CHOOSE i \in S : Rank(S, i) = j - 1]
         IN /\ k \in Nat /\ f \in [1 .. k -> S]
            /\ \A i, j \in 1 .. k : f[i] = f[j] => i = j
            /\ {f[j] : j \in 1 .. k} = S
<1>. DEFINE k == Cardinality(S)
            f == [j \in 1 .. k |-> CHOOSE i \in S : Rank(S, i) = j - 1]
            R == [i \in S |-> Rank(S, i)]
<1>1. IsFiniteSet(S) /\ k \in Nat
  BY FS_BoundedSetOfNaturals, FS_CardinalityType
<1>2. ASSUME NEW i \in S PROVE Rank(S, i) \in 0 .. k - 1
  <2>. DEFINE T == {m \in S : m < i}
  <2>1. T \in SUBSET S /\ i \notin T OBVIOUS
  <2>2. IsFiniteSet(T) /\ Cardinality(T) <= k /\ Cardinality(T) # k
    BY <1>1, <2>1, FS_Subset
  <2>3. Cardinality(T) \in Nat BY <2>2, FS_CardinalityType
  <2> QED BY <1>1, <2>2, <2>3 DEF Rank
<1>3. ASSUME NEW i \in S, NEW j \in S, i < j PROVE Rank(S, i) < Rank(S, j)
  <2>. DEFINE T == {m \in S : m < i}
              U == {m \in S : m < j}
  <2>1. T \in SUBSET U /\ i \notin T /\ i \in U /\ U \in SUBSET S
    <3>1. \A m \in S : m < i => m < j BY <1>3
    <3>2. T \in SUBSET U BY <3>1
    <3>3. i \notin T /\ i \in U /\ U \in SUBSET S BY <1>3
    <3> QED BY <3>2, <3>3
  <2>2. IsFiniteSet(U) BY <1>1, <2>1, FS_Subset
  <2>3. IsFiniteSet(T) /\ Cardinality(T) <= Cardinality(U) /\ Cardinality(T) # Cardinality(U)
    BY <2>1, <2>2, FS_Subset
  <2>4. Cardinality(T) \in Nat /\ Cardinality(U) \in Nat BY <2>2, <2>3, FS_CardinalityType
  <2> QED BY <2>3, <2>4 DEF Rank
<1>4. R \in [S -> 0 .. k - 1] BY <1>2
<1>5. \A i, j \in S : R[i] = R[j] => i = j
  <2>. SUFFICES ASSUME NEW i \in S, NEW j \in S, R[i] = R[j], i # j PROVE FALSE
    OBVIOUS
  <2>1. i < j \/ j < i OBVIOUS
  <2>2. Rank(S, i) = Rank(S, j) OBVIOUS
  <2>3. Rank(S, i) \in 0 .. k - 1 BY <1>2
  <2> QED BY <1>3, <2>1, <2>2, <2>3
<1>6. R \in Surjection(S, 0 .. k - 1)
  <2>1. R \in Injection(S, 0 .. k - 1) BY <1>4, <1>5 DEF Injection, IsInjective
  <2>2. IsFiniteSet(0 .. k - 1) /\ Cardinality(0 .. k - 1) = k
    <3>. HIDE DEF k
    <3>1. 0 \in Int /\ k - 1 \in Int /\ (0 > k - 1 <=> k = 0) /\ (k - 1) - 0 + 1 = k
      BY <1>1
    <3> QED BY <3>1, FS_Interval
  <2>. HIDE DEF R
  <2> QED BY <2>1, <2>2, FS_Injection
<1>7. \A j \in 1 .. k : \E i \in S : Rank(S, i) = j - 1
  <2>1. \A m \in 0 .. k - 1 : \E i \in S : R[i] = m BY <1>6 DEF Surjection
  <2>2. \A j \in 1 .. k : j - 1 \in 0 .. k - 1 BY <1>1
  <2> QED BY <2>1, <2>2
<1>8. \A j \in 1 .. k : f[j] \in S /\ Rank(S, f[j]) = j - 1
  BY <1>7
<1>. HIDE DEF R, f
<1>9. f \in [1 .. k -> S]
  <2>1. f = [j \in 1 .. k |-> f[j]] BY DEF f
  <2> QED BY <1>8, <2>1
<1>10. \A i, j \in 1 .. k : f[i] = f[j] => i = j BY <1>8
<1>11. {f[j] : j \in 1 .. k} = S
  <2>1. ASSUME NEW i \in S PROVE \E j \in 1 .. k : f[j] = i
    <3>1. Rank(S, i) + 1 \in 1 .. k BY <1>1, <1>2
    <3>2. Rank(S, f[Rank(S, i) + 1]) = Rank(S, i) /\ f[Rank(S, i) + 1] \in S
      BY <1>2, <1>8, <3>1
    <3>3. f[Rank(S, i) + 1] = i BY <1>5, <3>2 DEF R
    <3> QED BY <3>1, <3>3
  <2> QED BY <1>8, <2>1
<1> QED BY <1>1, <1>9, <1>10, <1>11 DEF f

\* closeOpenToolCalls: what is open is stopped.
OpenIndexes == {toolCalls[c].index : c \in OpenCalls}

LEMMA ToolStopsLead ==
  ASSUME NEW n \in Nat, NEW top \in Nat, NEW b, Whole(b, n, top), Ordered(b),
         \A c \in OpenCalls : toolCalls[c].index \in 0 .. n - 1 /\ b[toolCalls[c].index].open
  PROVE  Leads(Reading(b), ToolStops, Reading(AllShut(b, n, OpenIndexes)))
<1>. DEFINE S == OpenIndexes
            k == Cardinality(S)
            f == [j \in 1 .. k |-> CHOOSE i \in S : Rank(S, i) = j - 1]
<1>1. S \subseteq 0 .. n - 1 /\ \A i \in S : b[i].open BY DEF OpenIndexes
<1>2. ToolStops = [j \in 1 .. k |-> Stopped(f[j])] BY DEF ToolStops, OpenIndexes, Rank
<1>3. /\ k \in Nat /\ f \in [1 .. k -> S]
      /\ \A i, j \in 1 .. k : f[i] = f[j] => i = j
      /\ {f[j] : j \in 1 .. k} = S
  <2>. HIDE DEF OpenIndexes
  <2> QED BY <1>1, Ranked
<1>. HIDE DEF f, k, S
<1>4. f \in [1 .. k -> 0 .. n - 1] /\ \A j \in 1 .. k : b[f[j]].open
  BY <1>1, <1>3
<1>. DEFINE v == ToolStops
<1>5. (\E T : v \in Seq(T)) /\ Len(v) = k /\ \A j \in 1 .. k : v[j] = Stopped(f[j])
  <2>1. v \in Seq({Stopped(f[j]) : j \in 1 .. k}) BY <1>2, <1>3
  <2>2. Len(v) = k /\ \A j \in 1 .. k : v[j] = Stopped(f[j]) BY <1>2, <1>3
  <2> QED BY <2>1, <2>2
<1>6. \A i : i \in S <=> \E j \in 1 .. k : f[j] = i BY <1>3
<1>. HIDE DEF v
<1>7. Stops(n, b, k, f, v, S) BY <1>3, <1>4, <1>5, <1>6 DEF Stops
<1>8. Leads(Reading(b), v, Reading(AllShut(b, n, S)))
  BY <1>3, <1>7, ShutsLead
<1> QED BY <1>8 DEF S, v

-------------------------------------------------------------------------------
(* How an answer begins, grows and ends *)

LEMMA BeginLeads ==
  ASSUME NEW b, Ordered(b)
  PROVE  Leads([phase |-> "waiting", blocks |-> b, told |-> None], <<Begun>>, Reading(b))
<1>. DEFINE s == [phase |-> "waiting", blocks |-> b, told |-> None]
<1>1. Heard(s, Begun) = Reading(b) BY DEF Heard, Begun, Reading
<1>2. Good(s) /\ Good(Reading(b)) BY DEF Good, Reading, Unended
<1>3. Allowed(s, Reading(b)) BY DEF Allowed, Moves, Reading
<1>4. Settled(s, Reading(b)) BY DEF Settled, Unended
<1>. HIDE DEF s
<1>5. Leads(s, <<Begun>>, Reading(b)) BY <1>1, <1>2, <1>3, <1>4, LeadsOnce
<1> QED BY <1>5 DEF s

\* The end is told to a client whose blocks are all stopped.
LEMMA EndLeads ==
  ASSUME NEW b, Ordered(b), \A i \in DOMAIN b : ~b[i].open, NEW start \in Unended,
         NEW reason, NEW usage, NEW text
  PROVE  Leads([phase |-> start, blocks |-> b, told |-> None],
               <<Ending(reason, usage, text), Over>>,
               [phase |-> "done", blocks |-> b, told |-> Ending(reason, usage, text)])
<1>. DEFINE e == Ending(reason, usage, text)
            r == [phase |-> start, blocks |-> b, told |-> None]
            s == [phase |-> "told", blocks |-> b, told |-> e]
            t == [phase |-> "done", blocks |-> b, told |-> e]
<1>1. Heard(r, e) = s /\ Heard(s, Over) = t BY DEF Heard, Ending, Over
<1>2. Good(r) /\ Good(s) /\ Good(t) BY DEF Good, Unended
<1>3. Allowed(r, s) /\ Allowed(s, t) BY DEF Allowed, Moves, Unended
<1>4. Settled(r, s) /\ Settled(s, t) BY DEF Settled, Unended
<1>5. <<e, Over>> = <<e>> \o <<Over>> OBVIOUS
<1>. HIDE DEF e, r, s, t
<1>6. Leads(r, <<e>>, s) /\ Leads(s, <<Over>>, t)
  BY <1>1, <1>2, <1>3, <1>4, LeadsOnce
<1>7. Leads(r, <<e, Over>>, t) BY <1>5, <1>6, LeadsFurther
<1> QED BY <1>7 DEF e, r, t

\* The block of this kind is open, or no block is.
Ready(b, n, kind, index) ==
  /\ index = None => \A i \in DOMAIN b : ~b[i].open
  /\ index # None => index = n - 1 /\ b[index].kind = kind /\ b[index].open

\* The blocks c are the blocks b, with the piece p in block k.
Continues(b, n, kind, index, p, k, c) ==
  /\ Whole(c, IF index = None THEN n + 1 ELSE n, p) /\ Ordered(c)
  /\ c[k].kind = kind /\ c[k].open
  /\ c[k].pieces = Append(IF index = None THEN <<>> ELSE b[index].pieces, p)
  /\ \A i \in (0 .. n - 1) \ {k} : c[i] = b[i]

\* A piece of reasoning or of text, in the block that is open or one that is started.
LEMMA PieceLeads ==
  ASSUME NEW n \in Nat, NEW top \in Nat, NEW b, Whole(b, n, top), Ordered(b),
         NEW kind \in {"thinking", "text"}, NEW index \in Nat \cup {None},
         Ready(b, n, kind, index), NEW p \in 1 .. MaxParts, p = top + 1,
         NEW e, e.type = "content_block_delta", e.piece = p,
         e.index = IF index = None THEN n ELSE index
  PROVE  \E a, c :
           /\ Leads(Reading(b), IF index = None THEN <<Started(n, kind)>> ELSE <<>>, Reading(a))
           /\ Leads(Reading(a), <<e>>, Reading(c))
           /\ Continues(b, n, kind, index, p, e.index, c)
<1>. USE DEF Ready, Continues
<1>1. CASE index = None
  <2>1. PICK a : Leads(Reading(b), <<Started(n, kind)>>, Reading(a)) /\ Begins(b, n, top, kind, a)
    BY <1>1, StartLeads DEF Kinds
  <2>2. n + 1 \in Nat /\ n \in 0 .. (n + 1) - 1 /\ n = (n + 1) - 1 /\ p > top OBVIOUS
  <2>3. /\ Whole(a, n + 1, top) /\ Ordered(a)
        /\ a[n].open /\ a[n].kind = kind /\ a[n].pieces = <<>>
        /\ \A i \in 0 .. n - 1 : a[i] = b[i]
    BY <2>1 DEF Begins
  <2>4. e.index = n BY <1>1
  <2>5. PICK c : Leads(Reading(a), <<e>>, Reading(c)) /\ Added(a, n + 1, n, p, c)
    BY <2>1, <2>2, <2>3, <2>4, AddLeads
  <2>6. /\ Whole(c, n + 1, p) /\ Ordered(c)
        /\ c[n].kind = kind /\ c[n].open /\ c[n].pieces = Append(<<>>, p)
    BY <2>3, <2>5 DEF Added
  <2>7. \A i \in (0 .. n - 1) \ {n} : c[i] = b[i] BY <2>3, <2>5 DEF Added
  <2> QED BY <1>1, <2>1, <2>4, <2>5, <2>6, <2>7
<1>2. CASE index # None
  <2>1. Good(Reading(b)) BY DEF Good, Reading, Unended
  <2>2. Leads(Reading(b), <<>>, Reading(b)) BY <2>1, LeadsNowhere
  <2>3. index \in 0 .. n - 1 /\ index = n - 1 /\ p > top
    BY <1>2, NoneAssumption
  <2>4. b[index].open /\ b[index].kind = kind BY <1>2
  <2>5. e.index = index BY <1>2
  <2>6. PICK c : Leads(Reading(b), <<e>>, Reading(c)) /\ Added(b, n, index, p, c)
    BY <2>3, <2>4, <2>5, AddLeads
  <2>7. /\ Whole(c, n, p) /\ Ordered(c)
        /\ c[index].kind = kind /\ c[index].open /\ c[index].pieces = Append(b[index].pieces, p)
        /\ \A i \in (0 .. n - 1) \ {index} : c[i] = b[i]
    BY <2>4, <2>6 DEF Added
  <2> QED BY <1>2, <2>2, <2>5, <2>6, <2>7
<1> QED BY <1>1, <1>2

LEMMA AppendedPieces ==
  ASSUME NEW S, NEW s \in Seq(S), NEW p
  PROVE  ToSet(Append(s, p)) = ToSet(s) \cup {p}
<1>1. Append(s, p) \in Seq(S \cup {p}) /\ s \in Seq(S \cup {p}) OBVIOUS
<1>2. /\ Len(s) \in Nat /\ Len(Append(s, p)) = Len(s) + 1
      /\ DOMAIN s = 1 .. Len(s) /\ DOMAIN Append(s, p) = 1 .. Len(s) + 1
      /\ \A i \in 1 .. Len(s) : Append(s, p)[i] = s[i]
      /\ Append(s, p)[Len(s) + 1] = p
  BY <1>1
<1>. DEFINE t == Append(s, p)
<1>. HIDE DEF t
<1>3. \A x : (\E i \in DOMAIN t : t[i] = x) <=> x = p \/ \E i \in DOMAIN s : s[i] = x
  <2>. SUFFICES ASSUME NEW x
                PROVE  (\E i \in DOMAIN t : t[i] = x) <=> x = p \/ \E i \in DOMAIN s : s[i] = x
    OBVIOUS
  <2>1. ASSUME NEW i \in DOMAIN t, t[i] = x
        PROVE  x = p \/ \E j \in DOMAIN s : s[j] = x
    <3>1. i \in 1 .. Len(s) \/ i = Len(s) + 1 BY <1>2, <2>1 DEF t
    <3> QED BY <1>2, <2>1, <3>1 DEF t
  <2>2. ASSUME x = p PROVE \E i \in DOMAIN t : t[i] = x
    <3>1. Len(s) + 1 \in DOMAIN t BY <1>2 DEF t
    <3> QED BY <1>2, <2>2, <3>1 DEF t
  <2>3. ASSUME NEW i \in DOMAIN s, s[i] = x PROVE \E j \in DOMAIN t : t[j] = x
    <3>1. i \in DOMAIN t BY <1>2, <2>3 DEF t
    <3> QED BY <1>2, <2>3, <3>1 DEF t
  <2> QED BY <2>1, <2>2, <2>3
<1> QED BY <1>3 DEF t, ToSet

\* Block k, of this kind, is what tells the blocks c from b.
Differs(b, c, k, kind) ==
  /\ DOMAIN c = DOMAIN b \cup {k} /\ c[k].kind = kind
  /\ k \in DOMAIN b => b[k].kind = kind
  /\ \A i \in DOMAIN b : i # k => c[i].kind = b[i].kind /\ c[i].pieces = b[i].pieces

\* It has the pieces P more.
Gains(b, c, k, kind, P) ==
  /\ Differs(b, c, k, kind)
  /\ ToSet(c[k].pieces) = (IF k \in DOMAIN b THEN ToSet(b[k].pieces) ELSE {}) \cup P

\* Pieces that come to a block are those its kind gains.
LEMMA NewPieces ==
  ASSUME NEW b, NEW c, NEW k, NEW kind, NEW P, Gains(b, c, k, kind, P), NEW other
  PROVE  PiecesOf(c, other) = PiecesOf(b, other) \cup IF other = kind THEN P ELSE {}
<1>. USE DEF Gains, Differs
<1>1. \A d, x : x \in PiecesOf(d, other) <=>
        \E i \in DOMAIN d : d[i].kind = other /\ x \in ToSet(d[i].pieces)
  BY DEF PiecesOf
<1>2. ASSUME NEW x \in PiecesOf(c, other)
      PROVE  x \in PiecesOf(b, other) \/ (other = kind /\ x \in P)
  <2>1. PICK i \in DOMAIN c : c[i].kind = other /\ x \in ToSet(c[i].pieces) BY <1>1
  <2>2. CASE i = k BY <1>1, <2>1, <2>2
  <2>3. CASE i # k BY <1>1, <2>1, <2>3
  <2> QED BY <2>2, <2>3
<1>3. ASSUME NEW x \in PiecesOf(b, other) PROVE x \in PiecesOf(c, other)
  <2>1. PICK i \in DOMAIN b : b[i].kind = other /\ x \in ToSet(b[i].pieces) BY <1>1
  <2>2. i \in DOMAIN c /\ c[i].kind = other /\ x \in ToSet(c[i].pieces)
    <3>1. CASE i = k BY <2>1, <3>1
    <3>2. CASE i # k BY <2>1, <3>2
    <3> QED BY <3>1, <3>2
  <2> QED BY <1>1, <2>2
<1>4. ASSUME other = kind, NEW x \in P PROVE x \in PiecesOf(c, other)
  BY <1>1, <1>4
<1> QED BY <1>2, <1>3, <1>4

\* What comes to a block is no other kind's.
LEMMA OtherPieces ==
  ASSUME NEW b, NEW c, NEW k, NEW kind, Differs(b, c, k, kind), NEW other, other # kind
  PROVE  PiecesOf(c, other) = PiecesOf(b, other)
<1>. USE DEF Differs
<1>1. \A i : i \in DOMAIN c /\ c[i].kind = other <=> i \in DOMAIN b /\ b[i].kind = other OBVIOUS
<1>2. {i \in DOMAIN c : c[i].kind = other} = {i \in DOMAIN b : b[i].kind = other} BY <1>1
<1>3. \A i \in {j \in DOMAIN b : b[j].kind = other} : c[i].pieces = b[i].pieces OBVIOUS
<1> QED BY <1>2, <1>3 DEF PiecesOf

\* The only block of its kind has all the pieces.
LEMMA OnlyPieces ==
  ASSUME NEW b, NEW k \in DOMAIN b, NEW kind, \A i \in DOMAIN b : b[i].kind = kind <=> i = k
  PROVE  PiecesOf(b, kind) = ToSet(b[k].pieces)
<1>1. {i \in DOMAIN b : b[i].kind = kind} = {k} OBVIOUS
<1> QED BY <1>1 DEF PiecesOf

\* A call has this block, if any.
Has(b, n, call, index, opened) ==
  /\ index # None => /\ index \in 0 .. n - 1 /\ b[index].kind = call
                     /\ b[index].open <=> opened
  /\ opened => index # None

\* The blocks a are the blocks b, and block k is the call's and open, and empty
\* if it was not.
Joins(b, n, top, call, index, opened, k, a) ==
  /\ Whole(a, IF index = None THEN n + 1 ELSE n, top) /\ Ordered(a)
  /\ a[k].kind = call /\ a[k].open
  /\ a[k].pieces = IF opened THEN b[index].pieces ELSE <<>>
  /\ \A i \in (0 .. n - 1) \ {k} : a[i] = b[i]

\* The block of a tool call: the one it has, open or to be started again, or a new
\* one.
LEMMA CallLeads ==
  ASSUME NEW n \in Nat, NEW top \in Nat, NEW b, Whole(b, n, top), Ordered(b),
         \A i \in DOMAIN b : b[i].open => b[i].kind \in Calls,
         NEW call \in Calls, NEW index \in Nat \cup {None}, NEW opened,
         Has(b, n, call, index, opened), NEW k, k = IF index = None THEN n ELSE index
  PROVE  \E a : /\ Leads(Reading(b), IF opened THEN <<>> ELSE <<Started(k, call)>>, Reading(a))
                /\ Joins(b, n, top, call, index, opened, k, a)
<1>. USE DEF Has, Joins
<1>1. CASE index = None
  <2>1. PICK a : Leads(Reading(b), <<Started(n, call)>>, Reading(a)) /\ Begins(b, n, top, call, a)
    BY StartLeads DEF Kinds
  <2>2. /\ Whole(a, n + 1, top) /\ Ordered(a)
        /\ a[n].open /\ a[n].kind = call /\ a[n].pieces = <<>>
        /\ \A i \in 0 .. n - 1 : a[i] = b[i]
    BY <2>1 DEF Begins
  <2>3. ~opened BY <1>1
  <2> QED BY <1>1, <2>1, <2>2, <2>3
<1>2. CASE index # None /\ opened
  <2>1. Good(Reading(b)) BY DEF Good, Reading, Unended
  <2>2. Leads(Reading(b), <<>>, Reading(b)) BY <2>1, LeadsNowhere
  <2> QED BY <1>2, <2>2
<1>3. CASE index # None /\ ~opened
  <2>1. index \in 0 .. n - 1 /\ b[index].kind = call /\ ~b[index].open BY <1>3
  <2>2. PICK a : /\ Leads(Reading(b), <<Started(index, b[index].kind)>>, Reading(a))
                 /\ Whole(a, n, top) /\ Ordered(a)
                 /\ a[index] = [kind |-> b[index].kind, open |-> TRUE, pieces |-> <<>>]
                 /\ \A i \in (0 .. n - 1) \ {index} : a[i] = b[i]
    BY <2>1, RestartLeads
  <2>3. a[index].kind = call /\ a[index].open /\ a[index].pieces = <<>>
    BY <2>1, <2>2
  <2> QED BY <1>3, <2>1, <2>2, <2>3
<1> QED BY <1>1, <1>2, <1>3

-------------------------------------------------------------------------------
(* What the provider has sent, and what is left as it was *)

LEMMA GivenGrows ==
  ASSUME NEW g, given' = given \cup {g}
  PROVE  \A kind : Given(kind)' = Given(kind) \cup IF g[1] = kind THEN {g[2]} ELSE {}
BY DEF Given

\* Something of no block's kind.
LEMMA OthersSent ==
  ASSUME NEW g, g[1] \notin Kinds, given' = given \cup {g}
  PROVE  \A kind \in Kinds : Sent(kind)' = Sent(kind)
BY DEF Sent

LEMMA SameAllOf ==
  ASSUME \A kind \in Kinds : Sent(kind)' = Sent(kind),
         NEW a, NEW b, \A kind \in Kinds : PiecesOf(a, kind) = PiecesOf(b, kind), AllOf(b)
  PROVE  AllOf(a)'
<1>1. \A kind : Given(kind) = {g[2] : g \in Sent(kind)} BY DEF Given, Sent
<1>2. \A kind : Given(kind)' = {g[2] : g \in Sent(kind)'} BY DEF Given, Sent
<1>3. \A kind \in Kinds : Given(kind)' = Given(kind) BY <1>1, <1>2
<1>4. \A c : Arguments(c) = {g[2] : g \in {h \in Sent(c) : h[3]}} BY DEF Arguments, Sent
<1>5. \A c : Arguments(c)' = {g[2] : g \in {h \in Sent(c)' : h[3]}} BY DEF Arguments, Sent
<1>6. \A c \in Calls : Arguments(c)' = Arguments(c) BY <1>4, <1>5 DEF Kinds
<1>7. \A c \in Calls : Parted(c) => Parted(c)'
  <2>. SUFFICES ASSUME NEW c \in Calls, Parted(c) PROVE Parted(c)'
    OBVIOUS
  <2>1. Given(c)' = Given(c) /\ Given("text")' = Given("text") BY <1>3 DEF Kinds
  <2>2. PICK f \in Given(c), n \in Given(c), t \in Given("text") : f < t /\ t < n BY DEF Parted
  <2> QED BY <2>1, <2>2 DEF Parted
<1> QED BY <1>3, <1>6, <1>7 DEF AllOf, Kinds

LEMMA WholeLater ==
  ASSUME NEW b, NEW n \in Nat, NEW top \in Nat, NEW later \in Nat, top <= later, Whole(b, n, top)
  PROVE  Whole(b, n, later)
<1>1. ASSUME NEW i \in 0 .. n - 1 PROVE IsBlock(b[i], later)
  <2>1. b[i].pieces \in Seq(1 .. top) BY DEF Whole, IsBlock
  <2>2. b[i].pieces \in Seq(1 .. later) BY <2>1
  <2> QED BY <2>2 DEF Whole, IsBlock
<1> QED BY <1>1 DEF Whole

\* A step that changes no block, and what the provider has sent of none.
LEMMA SameAhead ==
  ASSUME TypeOK, read \in Nat, read' \in Nat, read <= read',
         UNCHANGED <<api, thinkingIndex, textIndex, toolCalls, nextBlockIndex, answerText>>,
         \A kind \in Kinds : Sent(kind)' = Sent(kind),
         NEW b, Ahead(b)
  PROVE  Ahead(b)'
<1>1. Whole(b, nextBlockIndex, read') BY WholeLater DEF Ahead, TypeOK
<1>2. AllOf(b)' BY SameAllOf DEF Ahead
<1>3. OpenCalls' = OpenCalls BY DEF OpenCalls
<1> QED BY <1>1, <1>2, <1>3 DEF Ahead

LEMMA SameWill ==
  ASSUME UNCHANGED <<startedMessage, endedMessage>>,
         endedMessage => UNCHANGED <<stopReason, finalUsage, answerText>>,
         NEW b
  PROVE  Will(b)' = Will(b)
BY DEF Will, Ending, StopReasonOf

\* A client that is connected will have what the converter has numbered.
LEMMA Live ==
  ASSUME SInv, todo # <<>> \/ source # "broken" \/ wire # <<>> \/ phase # "cut"
  PROVE  phase # "cut" /\ \E b : Leads(Client, wire, Will(b)) /\ Ahead(b)
BY DEF SInv, Sane, CutOff

\* While a chunk is being converted the answer has begun and not ended.
LEMMA Converting ==
  ASSUME SInv, todo # <<>>
  PROVE  /\ startedMessage /\ ~endedMessage /\ source = "open" /\ phase # "cut"
         /\ \E b : Leads(Client, wire, Reading(b)) /\ Ahead(b)
<1>1. startedMessage /\ ~endedMessage /\ source = "open" BY DEF SInv, Sane
<1>2. phase # "cut" /\ \E b : Leads(Client, wire, Will(b)) /\ Ahead(b) BY Live
<1>3. \A b : Will(b) = Reading(b) BY <1>1 DEF Will, Reading
<1> QED BY <1>1, <1>2, <1>3

LEMMA KindsAssumption ==
  Kinds \cap {"finish", "usage", "usage beside", "usage with finish"} = {}
BY CallsAssumption DEF Kinds

\* A part that was sent leaves what is sane so.
LEMMA PartRead ==
  ASSUME TypeOK, SInv, NEW kind, Meets(kind),
         \A g \in given' : g \in given \/ g[2] = Here,
         api = "responses" =>
           /\ textIndex' = None => nextBlockIndex' = 0 /\ answerText' = <<>>
           /\ textIndex' # None => nextBlockIndex' = 1
  PROVE  /\ Sane' /\ read \in Nat /\ read' = read + 1 /\ Here \in 1 .. MaxParts
         /\ phase' # "cut" /\ Client' = Client
         /\ \A b : Will(b)' = Reading(b)
<1>1. startedMessage /\ ~endedMessage /\ source = "open" /\ phase # "cut"
  BY Converting DEF Meets
<1>2. /\ read \in Nat /\ read' = read + 1 /\ todo # <<>> /\ todo' = Tail(todo)
      /\ UNCHANGED <<api, source, startedMessage, endedMessage, captured, client>>
      /\ \A g \in given : g[2] \in 1 .. read
      /\ read + Len(todo) <= MaxParts
  BY DEF Meets, SInv, Sane
<1>3. Len(todo) \in Nat \ {0} /\ Len(Tail(todo)) = Len(todo) - 1
  BY <1>2, EmptySeq, LenProperties, HeadTailProperties DEF TypeOK
<1>4. Here \in 1 .. MaxParts BY <1>2, <1>3, BoundAssumption DEF Here
<1>5. read' \in Nat /\ read' + Len(todo') <= MaxParts BY <1>2, <1>3, BoundAssumption
<1>6. \A g \in given' : g[2] \in 1 .. read' BY <1>2 DEF Here
<1>7. startedMessage' /\ ~endedMessage' /\ source' = "open" BY <1>1, <1>2
<1>8. Sane' BY <1>2, <1>5, <1>6, <1>7 DEF Sane
<1>9. phase' # "cut" /\ Client' = Client BY <1>1, <1>2 DEF client, Client
<1>10. \A b : Will(b)' = Reading(b) BY <1>7 DEF Will, Reading
<1> QED BY <1>2, <1>4, <1>8, <1>9, <1>10

\* What is said of usage and the end is as it was.
LEMMA SaysAsBefore ==
  ASSUME Says, UNCHANGED <<api, stopReason, finalUsage>>,
         NEW g, g[1] \in Kinds, given' = given \cup {g} \/ given' = given
  PROVE  Says'
<1>1. g[1] \notin {"finish", "usage", "usage beside", "usage with finish"} BY KindsAssumption
<1>2. \A kind \in {"finish", "usage", "usage beside", "usage with finish"} : Given(kind)' = Given(kind)
  BY <1>1, GivenGrows DEF Given
<1>3. {h \in given' : h[1] = "finish"} = {h \in given : h[1] = "finish"} BY <1>1
<1>4. LastReason' = LastReason
  <2>1. \A h : h \in given' /\ h[1] = "finish" <=> h \in given /\ h[1] = "finish" BY <1>3
  <2>2. Given("finish")' = Given("finish") BY <1>2
  <2> QED BY <2>1, <2>2 DEF LastReason
<1>5. \A r : StopReasonOf(r)' = StopReasonOf(r) BY DEF StopReasonOf
<1>6. UsageTaken' = UsageTaken BY <1>2 DEF UsageTaken
<1> QED BY <1>2, <1>4, <1>5, <1>6 DEF Says

\* A piece of reasoning or text, once nothing else is open.
LEMMA PieceStep ==
  ASSUME TypeOK, BlocksApart, read \in Nat, Here \in 1 .. MaxParts,
         NEW b, Ahead(b),
         NEW kind \in {"thinking", "text"}, NEW index \in Nat \cup {None},
         index # None => index = nextBlockIndex - 1 /\ b[index].kind = kind,
         NEW a, Whole(a, nextBlockIndex, read), Ordered(a),
         \A i \in 0 .. nextBlockIndex - 1 :
           a[i].kind = b[i].kind /\ a[i].pieces = b[i].pieces /\ (a[i].open <=> i = index),
         nextBlockIndex' = CounterAfter(index), read' = read + 1,
         given' = given \cup {<<kind, Here>>},
         thinkingIndex' = IF kind = "thinking" THEN BlockOf(index) ELSE None,
         textIndex' = IF kind = "text" THEN BlockOf(index) ELSE None,
         OpenCalls' = {}, \A c \in Calls : toolCalls'[c].index = toolCalls[c].index,
         api' = api,
         api = "responses" => /\ answerText' = Append(answerText, Here)
                              /\ index = None => nextBlockIndex = 0 /\ answerText = <<>>
                              /\ index # None => nextBlockIndex = 1
  PROVE  \E d, c : /\ Leads(Reading(a), Starts(index, kind), Reading(d))
                   /\ Leads(Reading(d), <<Delta(BlockOf(index), kind)>>, Reading(c))
                   /\ Ahead(c)'
<1>. DEFINE n == nextBlockIndex
            k == BlockOf(index)
            e == Delta(k, kind)
            m == CounterAfter(index)
<1>1. n \in Nat /\ Whole(b, n, read) /\ DOMAIN b = 0 .. n - 1 /\ DOMAIN a = 0 .. n - 1
  BY WholeDomain DEF TypeOK, Ahead
<1>2. /\ k = (IF index = None THEN n ELSE index)
      /\ m = (IF index = None THEN n + 1 ELSE n)
      /\ index # None => index \in 0 .. n - 1
      /\ e.type = "content_block_delta" /\ e.piece = Here /\ e.index = k
      /\ Starts(index, kind) = IF index = None THEN <<Started(n, kind)>> ELSE <<>>
  BY <1>1, NoneAssumption DEF BlockOf, CounterAfter, Delta, Starts
<1>. HIDE DEF e, m
<1>3. m \in Nat /\ 0 .. m - 1 = (0 .. n - 1) \cup {k} /\ k \in 0 .. m - 1 /\ k = m - 1
  <2>. HIDE DEF n, k
  <2>1. CASE index = None
    <3>1. k = n /\ m = n + 1 BY <1>2, <2>1
    <3> QED BY <1>1, <3>1
  <2>2. CASE index # None
    <3>1. k = index /\ m = n /\ index \in 0 .. n - 1 BY <1>2, <2>2
    <3>2. index = n - 1 BY <2>2 DEF n
    <3> QED BY <1>1, <3>1, <3>2
  <2> QED BY <2>1, <2>2
<1>. HIDE DEF n, k
<1>4. PICK d, c :
        /\ Leads(Reading(a), IF index = None THEN <<Started(n, kind)>> ELSE <<>>, Reading(d))
        /\ Leads(Reading(d), <<e>>, Reading(c))
        /\ Continues(a, n, kind, index, Here, e.index, c)
  <2>1. Here = read + 1 BY DEF Here
  <2>2. index = None => \A i \in DOMAIN a : ~a[i].open
    BY <1>1, NoneAssumption DEF n
  <2>3. index # None => index = n - 1 /\ a[index].kind = kind /\ a[index].open
    BY <1>1, <1>2 DEF n
  <2>4. Whole(a, n, read) BY DEF n
  <2>5. e.index = IF index = None THEN n ELSE index BY <1>2
  <2>6. Ready(a, n, kind, index) BY <2>2, <2>3 DEF Ready
  <2>7. n \in Nat /\ e.type = "content_block_delta" /\ e.piece = Here BY <1>1, <1>2
  <2>8. Ordered(a) /\ kind \in {"thinking", "text"} /\ index \in Nat \cup {None}
        /\ Here \in 1 .. MaxParts /\ read \in Nat
    OBVIOUS
  <2> QED BY ONLY <2>1, <2>4, <2>5, <2>6, <2>7, <2>8, PieceLeads
<1>5. /\ Whole(c, m, Here) /\ Ordered(c) /\ DOMAIN c = 0 .. m - 1
      /\ c[k].kind = kind /\ c[k].open
      /\ \A i \in (0 .. n - 1) \ {k} : c[i] = a[i]
  <2>1. Whole(c, m, Here) BY <1>2, <1>4 DEF Continues
  <2>2. Here \in Nat BY DEF Here
  <2>3. DOMAIN c = 0 .. m - 1 BY <1>3, <2>1, <2>2, WholeDomain
  <2> QED BY <1>2, <1>4, <2>1, <2>3 DEF Continues
<1>6. ToSet(c[k].pieces) = (IF k \in DOMAIN b THEN ToSet(b[k].pieces) ELSE {}) \cup {Here}
  <2>1. CASE index = None
    <3>1. k \notin DOMAIN b /\ c[k].pieces = Append(<<>>, Here)
      BY <1>1, <1>2, <1>4, <2>1 DEF Continues
    <3>2. ToSet(<<>>) = {} BY DEF ToSet
    <3>3. <<>> \in Seq({}) BY EmptySeq
    <3> QED BY <3>1, <3>2, <3>3, AppendedPieces
  <2>2. CASE index # None
    <3>1. k \in DOMAIN b /\ c[k].pieces = Append(b[k].pieces, Here)
      <4>1. k = index /\ k \in DOMAIN b BY <1>1, <1>2, <2>2
      <4>2. c[k].pieces = Append(a[k].pieces, Here) BY <1>2, <1>4, <2>2, <4>1 DEF Continues
      <4>3. a[k].pieces = b[k].pieces BY <1>1, <4>1 DEF n
      <4> QED BY <4>1, <4>2, <4>3
    <3>2. b[k].pieces \in Seq(1 .. read) BY <1>1, <3>1 DEF Whole, IsBlock
    <3> QED BY <3>1, <3>2, AppendedPieces
  <2> QED BY <2>1, <2>2
<1>7. AllOf(c)'
  <2>1. \A i \in DOMAIN b : i # k => c[i].kind = b[i].kind /\ c[i].pieces = b[i].pieces
    BY <1>1, <1>5 DEF n
  <2>2. k \in DOMAIN b => b[k].kind = kind
    <3>1. CASE index = None
      <4>1. k = n BY <1>2, <3>1
      <4> QED BY <1>1, <4>1
    <3>2. CASE index # None
      <4>1. k = index BY <1>2, <3>2
      <4> QED BY <3>2, <4>1
    <3> QED BY <3>1, <3>2
  <2>3. \A other : PiecesOf(c, other) = PiecesOf(b, other) \cup IF other = kind THEN {Here} ELSE {}
    <3>1. DOMAIN c = DOMAIN b \cup {k} /\ c[k].kind = kind BY <1>1, <1>3, <1>5
    <3>2. Gains(b, c, k, kind, {Here}) BY <1>6, <2>1, <2>2, <3>1 DEF Gains, Differs
    <3> QED BY <3>2, NewPieces
  <2>4. PICK g : g = <<kind, Here>> OBVIOUS
  <2>5. \A other : Given(other)' = Given(other) \cup IF other = kind THEN {Here} ELSE {}
    <3>1. g[1] = kind /\ g[2] = Here /\ given' = given \cup {g} BY <2>4
    <3>2. \A other : Given(other)' = Given(other) \cup IF other = g[1] THEN {g[2]} ELSE {}
      BY ONLY <3>1, GivenGrows
    <3> QED BY ONLY <3>1, <3>2
  <2>6. AllOf(b) BY DEF Ahead
  <2>7. kind \notin Calls BY CallsAssumption
  <2>8. \A call \in Calls : Arguments(call)' = Arguments(call) /\ (Parted(call) => Parted(call)')
    <3>1. g[1] = kind /\ given' = given \cup {g} BY <2>4
    <3>2. \A call \in Calls : Arguments(call)' = Arguments(call) BY <2>7, <3>1 DEF Arguments
    <3>3. \A other : Given(other) \subseteq Given(other)' BY <2>5
    <3> QED BY <3>2, <3>3 DEF Parted
  <2>9. \A call \in Calls : PiecesOf(c, call) = PiecesOf(b, call) BY <2>3, <2>7
  <2>10. \A other \in {"thinking", "text"} : PiecesOf(c, other) = Given(other)'
    BY <2>3, <2>5, <2>6 DEF AllOf
  <2>11. \A call \in Calls : /\ PiecesOf(c, call) \subseteq Arguments(call)'
                             /\ PiecesOf(c, call) = Arguments(call)' \/ Parted(call)'
    BY <2>6, <2>8, <2>9 DEF AllOf
  <2> QED BY <2>10, <2>11 DEF AllOf
<1>8. \A i \in DOMAIN c : c[i].open <=> i = k
  <2>. SUFFICES ASSUME NEW i \in DOMAIN c PROVE c[i].open <=> i = k
    OBVIOUS
  <2>1. CASE i = k BY <1>5, <2>1
  <2>2. CASE i # k
    <3>1. i \in 0 .. n - 1 /\ c[i] = a[i] BY <1>3, <1>5, <2>2
    <3>2. i # index BY <1>2, <2>2, <3>1, NoneAssumption
    <3> QED BY <2>2, <3>1, <3>2 DEF n
  <2> QED BY <2>1, <2>2
<1>9. \A call \in Calls : \A i \in DOMAIN c : c[i].kind = call <=> toolCalls'[call].index = i
  <2>. SUFFICES ASSUME NEW call \in Calls, NEW i \in DOMAIN c
                PROVE  c[i].kind = call <=> toolCalls[call].index = i
    OBVIOUS
  <2>1. \A j \in DOMAIN b : b[j].kind = call <=> toolCalls[call].index = j BY DEF Ahead
  <2>2. kind # call BY CallsAssumption
  <2>3. CASE i = k
    <3>1. CASE index = None
      <4>1. toolCalls[call].index = None \/ toolCalls[call].index < n
        BY DEF BlocksApart, n
      <4>2. i = n /\ n \notin {None} BY <1>1, <1>2, <2>3, <3>1, NoneAssumption
      <4>3. toolCalls[call].index # i BY <1>1, <4>1, <4>2
      <4> QED BY <1>5, <2>2, <2>3, <4>3
    <3>2. CASE index # None
      <4>1. i \in DOMAIN b /\ b[i].kind = kind BY <1>1, <1>2, <2>3, <3>2
      <4> QED BY <1>5, <2>1, <2>2, <2>3, <4>1
    <3> QED BY <3>1, <3>2
  <2>4. CASE i # k
    <3>1. i \in DOMAIN b /\ c[i].kind = b[i].kind BY <1>1, <1>3, <1>5, <2>4 DEF n
    <3> QED BY <2>1, <3>1
  <2> QED BY <2>3, <2>4
<1>10. api = "responses" => \A i \in DOMAIN c : c[i].pieces = answerText'
  <2>. SUFFICES ASSUME api = "responses", NEW i \in DOMAIN c PROVE c[i].pieces = answerText'
    OBVIOUS
  <2>1. i = k
    <3>1. m = 1 BY <1>2 DEF n
    <3> QED BY <1>3, <1>5, <3>1
  <2>2. CASE index = None BY <1>2, <1>4, <2>1, <2>2 DEF Continues
  <2>3. CASE index # None
    <3>1. a[index].pieces = answerText BY <1>1, <1>2, <2>3 DEF Ahead, n
    <3> QED BY <1>2, <1>4, <2>1, <2>3, <3>1 DEF Continues
  <2> QED BY <2>2, <2>3
<1>11. Whole(c, nextBlockIndex', read')
  BY <1>5 DEF Here, m
<1>12. k \in Nat /\ k # None /\ kind \in {"thinking", "text"} BY <1>3, NoneAssumption
<1>13. nextBlockIndex' = m /\ thinkingIndex' = (IF kind = "thinking" THEN k ELSE None)
       /\ textIndex' = (IF kind = "text" THEN k ELSE None)
  BY DEF m, k
<1>14. \A i \in DOMAIN c : c[i].open <=> \/ i \in {thinkingIndex', textIndex'}
                                         \/ \E call \in OpenCalls' : toolCalls'[call].index = i
  <2>. SUFFICES ASSUME NEW i \in DOMAIN c
                PROVE  i = k <=> i \in {thinkingIndex', textIndex'}
    BY <1>8
  <2>1. i # None BY <1>3, <1>5, NoneAssumption
  <2> QED BY <1>12, <1>13, <2>1
<1>15. /\ thinkingIndex' # None => /\ thinkingIndex' = nextBlockIndex' - 1
                                   /\ c[thinkingIndex'].kind = "thinking"
       /\ textIndex' # None => textIndex' = nextBlockIndex' - 1 /\ c[textIndex'].kind = "text"
  BY <1>3, <1>5, <1>12, <1>13
<1>16. Ahead(c)'
  BY <1>5, <1>7, <1>9, <1>10, <1>11, <1>14, <1>15 DEF Ahead
<1> QED BY <1>2, <1>4, <1>16 DEF n, k, e

\* What is kept of a fragment.
IsFragment(g, call, part, args) == g = <<call, part, args>>

\* A fragment of a tool call, while only tool calls are open.
LEMMA CallStep ==
  ASSUME TypeOK, BlocksApart, CallsHaveBlocks, read \in Nat, Here \in 1 .. MaxParts,
         NEW b, Ahead(b), api = "messages",
         thinkingIndex = None, textIndex = None,
         NEW call \in Calls, NEW args,
         NEW k, k = BlockOf(toolCalls[call].index),
         \A other \in Calls \ {call} : toolCalls'[other] = toolCalls[other],
         toolCalls'[call].index = k, toolCalls'[call].opened,
         nextBlockIndex' = CounterAfter(toolCalls[call].index), read' = read + 1,
         NEW g, IsFragment(g, call, Here, args), given' = given \cup {g},
         \A t \in Given("text") : t < Here,
         BehindText(call),
         UNCHANGED <<api, thinkingIndex, textIndex>>
  PROVE  \E d, c :
           /\ Leads(Reading(b), IF toolCalls[call].opened THEN <<>> ELSE <<Started(k, call)>>,
                    Reading(d))
           /\ Leads(Reading(d), IF args THEN <<Delta(k, call)>> ELSE <<>>, Reading(c))
           /\ Ahead(c)'
<1>. DEFINE n == nextBlockIndex
            index == toolCalls[call].index
            opened == toolCalls[call].opened
            e == Delta(k, call)
            m == CounterAfter(index)
            new == IF args THEN {Here} ELSE {}
<1>1. n \in Nat /\ Whole(b, n, read) /\ Ordered(b) /\ DOMAIN b = 0 .. n - 1
  BY WholeDomain DEF TypeOK, Ahead
<1>2. index \in Nat \cup {None} /\ (index # None => index \in 0 .. n - 1)
  <2>1. index \in Nat \cup {None} BY DEF TypeOK
  <2>2. index # None => index < n BY DEF BlocksApart
  <2> QED BY ONLY <1>1, <2>1, <2>2
<1>3. /\ k = (IF index = None THEN n ELSE index)
      /\ m = (IF index = None THEN n + 1 ELSE n)
      /\ e.type = "content_block_delta" /\ e.piece = Here /\ e.index = k
  BY DEF BlockOf, CounterAfter, Delta
<1>4. \A i \in DOMAIN b : b[i].open <=> \E c \in OpenCalls : toolCalls[c].index = i
  <2>1. \A i \in DOMAIN b : i # None BY <1>1, NoneAssumption
  <2> QED BY <2>1 DEF Ahead
<1>5. \A c \in Calls : \A i \in DOMAIN b : b[i].kind = c <=> toolCalls[c].index = i
  BY DEF Ahead
<1>6. \A c \in Calls : toolCalls[c].index = index => c = call \/ index = None
  BY DEF BlocksApart
<1>7. \A i \in DOMAIN b : b[i].open => b[i].kind \in Calls
  BY <1>4, <1>5 DEF OpenCalls
<1>8. Has(b, n, call, index, opened)
  <2>1. opened => index # None BY DEF CallsHaveBlocks
  <2>2. ASSUME index # None
        PROVE  index \in 0 .. n - 1 /\ b[index].kind = call /\ (b[index].open <=> opened)
    <3>1. index \in DOMAIN b /\ b[index].kind = call BY <1>1, <1>2, <1>5, <2>2
    <3>2. opened <=> call \in OpenCalls BY DEF OpenCalls
    <3>3. b[index].open <=> call \in OpenCalls
      <4>1. \A c \in OpenCalls : c \in Calls BY DEF OpenCalls
      <4> QED BY <1>4, <1>6, <2>2, <3>1, <4>1
    <3> QED BY <1>1, <3>1, <3>2, <3>3
  <2> QED BY <2>1, <2>2 DEF Has
<1>. HIDE DEF index, opened, e, m
<1>9. m \in Nat /\ 0 .. m - 1 = (0 .. n - 1) \cup {k} /\ k \in 0 .. m - 1
      /\ (k \in 0 .. n - 1 <=> index # None)
  <2>. HIDE DEF n
  <2>1. CASE index = None
    <3>1. k = n /\ m = n + 1 BY <1>3, <2>1
    <3> QED BY <1>1, <2>1, <3>1
  <2>2. CASE index # None
    <3>1. k = index /\ m = n /\ index \in 0 .. n - 1 BY <1>2, <1>3, <2>2
    <3> QED BY <1>1, <2>2, <3>1
  <2> QED BY <2>1, <2>2
<1>. HIDE DEF n
<1>10. PICK d :
         /\ Leads(Reading(b), IF opened THEN <<>> ELSE <<Started(k, call)>>, Reading(d))
         /\ Joins(b, n, read, call, index, opened, k, d)
  <2>1. k = IF index = None THEN n ELSE index BY <1>3
  <2>2. read \in Nat /\ call \in Calls OBVIOUS
  <2> QED BY ONLY <1>1, <1>2, <1>7, <1>8, <2>1, <2>2, CallLeads
<1>11. /\ Whole(d, m, read) /\ Ordered(d) /\ DOMAIN d = 0 .. m - 1
       /\ d[k].kind = call /\ d[k].open
       /\ d[k].pieces = (IF opened THEN b[k].pieces ELSE <<>>)
       /\ opened => k \in DOMAIN b
       /\ \A i \in (0 .. n - 1) \ {k} : d[i] = b[i]
  <2>1. Whole(d, m, read) BY <1>3, <1>10 DEF Joins
  <2>2. DOMAIN d = 0 .. m - 1 BY <1>9, <2>1, WholeDomain
  <2>3. opened => index # None BY <1>8 DEF Has
  <2>4. d[k].pieces = (IF opened THEN b[k].pieces ELSE <<>>) BY <1>3, <1>10, <2>3 DEF Joins
  <2>5. opened => k \in DOMAIN b BY <1>1, <1>9, <2>3
  <2> QED BY <1>10, <2>1, <2>2, <2>4, <2>5 DEF Joins
<1>12. d[k].pieces \in Seq(1 .. read)
       /\ ToSet(d[k].pieces) = IF opened THEN ToSet(b[k].pieces) ELSE {}
  <2>1. d[k].pieces \in Seq(1 .. read) BY <1>9, <1>11 DEF Whole, IsBlock
  <2>2. ToSet(<<>>) = {} BY DEF ToSet
  <2> QED BY <1>1, <1>9, <1>11, <2>1, <2>2
<1>13. \E c : /\ Leads(Reading(d), IF args THEN <<e>> ELSE <<>>, Reading(c))
              /\ Whole(c, m, Here) /\ Ordered(c) /\ DOMAIN c = 0 .. m - 1
              /\ c[k].kind = call /\ c[k].open
              /\ ToSet(c[k].pieces) = ToSet(d[k].pieces) \cup new
              /\ \A i \in (0 .. m - 1) \ {k} : c[i] = d[i]
  <2>1. CASE args
    <3>1. Here > read /\ Here \in Nat BY DEF Here
    <3>2. d[k].kind \in Calls \/ k = m - 1 BY <1>11
    <3>3. d[k].open BY <1>11
    <3>4. Here \in 1 .. MaxParts /\ read \in Nat OBVIOUS
    <3>5. PICK c : Leads(Reading(d), <<e>>, Reading(c)) /\ Added(d, m, k, Here, c)
      BY ONLY <1>3, <1>9, <1>11, <3>1, <3>2, <3>3, <3>4, AddLeads
    <3>6. /\ Whole(c, m, Here) /\ Ordered(c)
          /\ c[k].kind = call /\ c[k].open
          /\ c[k].pieces = Append(d[k].pieces, Here)
          /\ \A i \in (0 .. m - 1) \ {k} : c[i] = d[i]
      BY <1>11, <3>5 DEF Added
    <3>7. ToSet(c[k].pieces) = ToSet(d[k].pieces) \cup {Here}
      BY <1>12, <3>6, AppendedPieces
    <3>8. DOMAIN c = 0 .. m - 1 BY <1>9, <3>1, <3>6, WholeDomain
    <3> QED BY <2>1, <3>5, <3>6, <3>7, <3>8
  <2>2. CASE ~args
    <3>1. Good(Reading(d)) BY <1>11 DEF Good, Reading, Unended
    <3>2. Leads(Reading(d), <<>>, Reading(d)) BY <3>1, LeadsNowhere
    <3>3. Here \in Nat /\ read <= Here BY DEF Here
    <3>4. Whole(d, m, Here) BY <1>9, <1>11, <3>3, WholeLater
    <3>5. ToSet(d[k].pieces) = ToSet(d[k].pieces) \cup new BY <2>2
    <3> QED BY <1>11, <2>2, <3>2, <3>4, <3>5
  <2> QED BY <2>1, <2>2
<1>. HIDE DEF new
<1>14. PICK c : /\ Leads(Reading(d), IF args THEN <<e>> ELSE <<>>, Reading(c))
                /\ Whole(c, m, Here) /\ Ordered(c) /\ DOMAIN c = 0 .. m - 1
                /\ c[k].kind = call /\ c[k].open
                /\ ToSet(c[k].pieces) = ToSet(d[k].pieces) \cup new
                /\ \A i \in (0 .. m - 1) \ {k} : c[i] = d[i]
  BY <1>13
<1>15. \A i \in DOMAIN c : i # k => i \in DOMAIN b /\ c[i] = b[i]
  BY <1>1, <1>9, <1>11, <1>14
<1>16. AllOf(c)'
  <2>1. \A i \in DOMAIN b : i # k => c[i].kind = b[i].kind /\ c[i].pieces = b[i].pieces
    BY <1>1, <1>9, <1>14, <1>15
  <2>2. k \in DOMAIN b => b[k].kind = call
    BY <1>1, <1>3, <1>9, <1>8 DEF Has
  <2>3. DOMAIN c = DOMAIN b \cup {k} /\ c[k].kind = call BY <1>1, <1>9, <1>14
  <2>4. \A other : other # call => PiecesOf(c, other) = PiecesOf(b, other)
    <3>1. Differs(b, c, k, call) BY <2>1, <2>2, <2>3 DEF Differs
    <3> QED BY ONLY <3>1, OtherPieces
  <2>6. /\ given' = given \cup {g} /\ g[1] = call /\ g[2] = Here /\ (g[3] <=> args)
    BY DEF IsFragment
  <2>7. \A other : Given(other)' = Given(other) \cup IF g[1] = other THEN {g[2]} ELSE {}
    BY ONLY <2>6, GivenGrows
  <2>8. \A other : other # call => Arguments(other)' = Arguments(other)
    BY <2>6 DEF Arguments
  <2>9. Arguments(call)' = Arguments(call) \cup new
    <3>. DEFINE said(h) == h[3]
    <3>1. /\ Arguments(call) = {h[2] : h \in {x \in given : x[1] = call /\ said(x)}}
          /\ Arguments(call)' = {h[2] : h \in {x \in given' : x[1] = call /\ said(x)}}
          /\ said(g) <=> args
      BY <2>6 DEF Arguments
    <3>. HIDE DEF said
    <3>2. CASE args
      <4>1. new = {Here} /\ said(g) BY <3>1, <3>2 DEF new
      <4> QED BY ONLY <2>6, <3>1, <4>1
    <3>3. CASE ~args
      <4>1. new = {} /\ ~said(g) BY <3>1, <3>3 DEF new
      <4> QED BY ONLY <2>6, <3>1, <4>1
    <3> QED BY <3>2, <3>3
  <2>10. \A other : Given(other) \subseteq Given(other)' BY <2>7
  <2>11. \A other : Parted(other) => Parted(other)' BY <2>10 DEF Parted
  <2>12. AllOf(b) BY DEF Ahead
  <2>13. call # "thinking" /\ call # "text" BY CallsAssumption
  <2>14. PiecesOf(c, call) = ToSet(d[k].pieces) \cup new
    <3>1. \A i \in DOMAIN c : c[i].kind = call <=> i = k
      <4>1. \A i \in DOMAIN b : b[i].kind = call => i = k
        <5>1. index # None => k = index BY <1>3
        <5>2. \A i \in DOMAIN b : i # None BY <1>1, NoneAssumption
        <5> QED BY <1>5, <5>1, <5>2 DEF index
      <4> QED BY <1>14, <1>15, <4>1
    <3>2. k \in DOMAIN c BY <1>9, <1>14
    <3>3. PiecesOf(c, call) = ToSet(c[k].pieces) BY ONLY <3>1, <3>2, OnlyPieces
    <3> QED BY <1>14, <3>3
  <2>15. /\ PiecesOf(c, call) \subseteq Arguments(call)'
         /\ PiecesOf(c, call) = Arguments(call)' \/ Parted(call)'
    <3>1. CASE opened
      <4>1. k \in DOMAIN b /\ ToSet(d[k].pieces) = ToSet(b[k].pieces) BY <1>11, <1>12, <3>1
      <4>2. \A i \in DOMAIN b : b[i].kind = call <=> i = k
        <5>1. index # None BY <1>8, <3>1 DEF Has
        <5>2. k = index BY <1>3, <5>1
        <5> QED BY <1>5, <5>2 DEF index
      <4>3. PiecesOf(b, call) = ToSet(b[k].pieces) BY <4>1, <4>2, OnlyPieces
      <4>4. PiecesOf(c, call) = PiecesOf(b, call) \cup new BY <2>14, <4>1, <4>3
      <4>5. /\ PiecesOf(b, call) \subseteq Arguments(call)
            /\ PiecesOf(b, call) = Arguments(call) \/ Parted(call)
        BY <2>12 DEF AllOf
      <4> QED BY <2>9, <2>11, <4>4, <4>5
    <3>2. CASE ~opened
      <4>1. PiecesOf(c, call) = new BY <1>12, <2>14, <3>2
      <4>2. CASE Given(call) = {}
        <5>1. Arguments(call) \subseteq Given(call) BY DEF Arguments, Given
        <5> QED BY <2>9, <4>1, <4>2, <5>1
      <4>3. CASE Given(call) # {}
        <5>1. PICK f \in Given(call) : TRUE BY <4>3
        <5>2. PICK t \in Given("text") : f < t BY <3>2, <5>1 DEF opened, BehindText
        <5>3. t < Here OBVIOUS
        <5>4. f \in Given(call)' /\ Here \in Given(call)' /\ t \in Given("text")'
          BY <2>6, <2>7
        <5>5. Parted(call)' BY <5>2, <5>3, <5>4 DEF Parted
        <5> QED BY <2>9, <4>1, <5>5
      <4> QED BY <4>2, <4>3
    <3> QED BY <3>1, <3>2
  <2>16. \A kind \in {"thinking", "text"} : PiecesOf(c, kind) = Given(kind)'
    BY <2>4, <2>6, <2>7, <2>12, <2>13 DEF AllOf
  <2>17. \A other \in Calls : /\ PiecesOf(c, other) \subseteq Arguments(other)'
                              /\ PiecesOf(c, other) = Arguments(other)' \/ Parted(other)'
    <3>. SUFFICES ASSUME NEW other \in Calls, other # call
                  PROVE  /\ PiecesOf(c, other) \subseteq Arguments(other)'
                         /\ PiecesOf(c, other) = Arguments(other)' \/ Parted(other)'
      BY <2>15
    <3> QED BY <2>4, <2>8, <2>11, <2>12 DEF AllOf
  <2> QED BY <2>16, <2>17 DEF AllOf
<1>17. k \in Nat /\ k # None /\ \A i \in DOMAIN c : i # None
  BY <1>9, <1>14, NoneAssumption
<1>18. \A c1 \in Calls : c1 # call => toolCalls[c1].index # k
  <2>. SUFFICES ASSUME NEW c1 \in Calls, c1 # call, toolCalls[c1].index = k PROVE FALSE
    OBVIOUS
  <2>1. CASE index = None
    <3>1. k = n /\ toolCalls[c1].index < n BY <1>3, <1>17, <2>1 DEF BlocksApart, n
    <3> QED BY <1>1, <3>1
  <2>2. CASE index # None
    <3>1. toolCalls[c1].index = toolCalls[call].index BY <1>3, <2>2 DEF index
    <3> QED BY <1>6, <2>2, <3>1 DEF index
  <2> QED BY <2>1, <2>2
<1>19. OpenCalls' = OpenCalls \cup {call} BY DEF OpenCalls
<1>20. \A i \in DOMAIN c : c[i].open <=> \E c1 \in OpenCalls' : toolCalls'[c1].index = i
  <2>. SUFFICES ASSUME NEW i \in DOMAIN c
                PROVE  c[i].open <=> \E c1 \in OpenCalls' : toolCalls'[c1].index = i
    OBVIOUS
  <2>0. \A c1 \in OpenCalls : c1 \in Calls BY DEF OpenCalls
  <2>1. CASE i = k BY <1>14, <1>19, <2>1
  <2>2. CASE i # k
    <3>1. c[i].open <=> \E c1 \in OpenCalls : toolCalls[c1].index = i BY <1>4, <1>15, <2>2
    <3>2. \A c1 \in OpenCalls : c1 # call => toolCalls'[c1].index = toolCalls[c1].index
      BY <2>0
    <3>3. call \in OpenCalls => toolCalls[call].index # i
      <4>1. call \in OpenCalls => k = toolCalls[call].index
        BY <1>3, <1>8 DEF Has, OpenCalls, index, opened
      <4> QED BY <2>2, <4>1
    <3>4. toolCalls'[call].index # i BY <2>2
    <3> QED BY <1>19, <3>1, <3>2, <3>3, <3>4
  <2> QED BY <2>1, <2>2
<1>21. \A c1 \in Calls : \A i \in DOMAIN c : c[i].kind = c1 <=> toolCalls'[c1].index = i
  <2>. SUFFICES ASSUME NEW c1 \in Calls, NEW i \in DOMAIN c
                PROVE  c[i].kind = c1 <=> toolCalls'[c1].index = i
    OBVIOUS
  <2>1. CASE c1 = call
    <3>1. CASE i = k BY <1>14, <2>1, <3>1
    <3>2. CASE i # k
      <4>1. i \in DOMAIN b /\ c[i] = b[i] BY <1>15, <3>2
      <4>2. toolCalls[call].index # i
        <5>1. CASE index = None BY <1>17, <5>1 DEF index
        <5>2. CASE index # None BY <1>3, <3>2, <5>2 DEF index
        <5> QED BY <5>1, <5>2
      <4> QED BY <1>5, <2>1, <3>2, <4>1, <4>2
    <3> QED BY <3>1, <3>2
  <2>2. CASE c1 # call
    <3>1. toolCalls'[c1] = toolCalls[c1] BY <2>2
    <3>2. CASE i = k BY <1>14, <1>18, <2>2, <3>1, <3>2
    <3>3. CASE i # k BY <1>5, <1>15, <3>1, <3>3
    <3> QED BY <3>2, <3>3
  <2> QED BY <2>1, <2>2
<1>22. Whole(c, nextBlockIndex', read') BY <1>14 DEF Here, m, index
<1>23. \A i \in DOMAIN c : c[i].open <=> \/ i \in {thinkingIndex', textIndex'}
                                         \/ \E c1 \in OpenCalls' : toolCalls'[c1].index = i
  BY <1>17, <1>20
<1>24. thinkingIndex' = None /\ textIndex' = None /\ api' = "messages" OBVIOUS
<1>25. Ahead(c)'
  BY <1>14, <1>16, <1>21, <1>22, <1>23, <1>24 DEF Ahead
<1> QED BY <1>10, <1>14, <1>25 DEF n, e, opened

-------------------------------------------------------------------------------
(* Each action keeps the client on its way *)

LEMMA OnItsWay ==
  ASSUME Sane', Says', phase' # "cut", NEW b, Leads(Client', wire', Will(b)'), Ahead(b)'
  PROVE  SInv'
BY DEF SInv

\* The blocks that are open.
LEMMA OpenOnes ==
  ASSUME TypeOK, BlocksApart, CallsHaveBlocks, read \in Nat, NEW b, Ahead(b)
  PROVE  /\ nextBlockIndex \in Nat /\ DOMAIN b = 0 .. nextBlockIndex - 1
         /\ Whole(b, nextBlockIndex, read) /\ Ordered(b)
         /\ \A i \in 0 .. nextBlockIndex - 1 :
              b[i].open <=> i = thinkingIndex \/ i = textIndex \/ i \in OpenIndexes
         /\ thinkingIndex # None => thinkingIndex \in 0 .. nextBlockIndex - 1
         /\ textIndex # None => textIndex \in 0 .. nextBlockIndex - 1
         /\ OpenIndexes \subseteq 0 .. nextBlockIndex - 1
<1>1. /\ nextBlockIndex \in Nat /\ DOMAIN b = 0 .. nextBlockIndex - 1
      /\ Whole(b, nextBlockIndex, read) /\ Ordered(b)
  BY WholeDomain DEF TypeOK, Ahead
<1>2. \A i \in 0 .. nextBlockIndex - 1 :
        b[i].open <=> i = thinkingIndex \/ i = textIndex \/ i \in OpenIndexes
  BY <1>1 DEF Ahead, OpenIndexes
<1>3. /\ thinkingIndex # None => thinkingIndex \in 0 .. nextBlockIndex - 1
      /\ textIndex # None => textIndex \in 0 .. nextBlockIndex - 1
  BY <1>1 DEF TypeOK, BlocksApart
<1>4. \A c \in OpenCalls : toolCalls[c].index \in 0 .. nextBlockIndex - 1
  BY <1>1 DEF TypeOK, BlocksApart, CallsHaveBlocks, OpenCalls
<1>5. OpenIndexes \subseteq 0 .. nextBlockIndex - 1 BY <1>4 DEF OpenIndexes
<1> QED BY <1>1, <1>2, <1>3, <1>5

LEMMA ReasoningStep ==
  ASSUME IInv, SInv, Reasoning
  PROVE  SInv'
<1>. USE DEF IInv
<1>1. /\ Meets("reasoning") /\ api = "messages" /\ OpenCalls = {}
      /\ wire' = wire \o TextStop \o Starts(thinkingIndex, "thinking")
                      \o <<Delta(BlockOf(thinkingIndex), "thinking")>>
      /\ thinkingIndex' = BlockOf(thinkingIndex) /\ textIndex' = None
      /\ nextBlockIndex' = CounterAfter(thinkingIndex)
      /\ given' = given \cup {<<"thinking", Here>>}
      /\ UNCHANGED <<api, toolCalls, answerText, stopReason, finalUsage>>
  BY DEF Reasoning, Meets
<1>2. PICK b : Leads(Client, wire, Reading(b)) /\ Ahead(b)
  BY <1>1, Converting DEF Meets
<1>3. PICK g : g = <<"thinking", Here>> OBVIOUS
<1>4. g[1] = "thinking" /\ g[2] = Here BY <1>3
<1>5. /\ Sane' /\ read \in Nat /\ read' = read + 1 /\ Here \in 1 .. MaxParts
      /\ phase' # "cut" /\ Client' = Client /\ Will(b)' = Reading(b)
      /\ \A c : Will(c)' = Reading(c)
  <2>1. \A h \in given' : h \in given \/ h[2] = Here BY <1>1, <1>3, <1>4
  <2>2. api # "responses" BY <1>1
  <2> QED BY <1>1, <2>1, <2>2, PartRead
<1>6. Says' BY <1>1, <1>3, <1>4, SaysAsBefore DEF SInv, Kinds
<1>. DEFINE n == nextBlockIndex
            a == AllShut(b, n, {textIndex})
<1>7. /\ n \in Nat /\ Whole(b, n, read) /\ Ordered(b)
      /\ \A i \in 0 .. n - 1 : b[i].open <=> i = thinkingIndex \/ i = textIndex
      /\ textIndex # None => textIndex \in 0 .. n - 1
  <2>1. OpenIndexes = {} BY <1>1 DEF OpenIndexes
  <2> QED BY <1>2, <1>5, <2>1, OpenOnes
<1>8. Leads(Reading(b), TextStop, Reading(a))
  <2>1. textIndex # None => textIndex \in 0 .. n - 1 /\ b[textIndex].open BY <1>7
  <2>2. textIndex \in Nat \cup {None} BY DEF TypeOK
  <2> QED BY <1>5, <1>7, <2>1, <2>2, StopLeads DEF TextStop
<1>9. /\ Whole(a, n, read) /\ Ordered(a)
      /\ \A i \in 0 .. n - 1 : a[i].kind = b[i].kind /\ a[i].pieces = b[i].pieces
                               /\ (a[i].open <=> b[i].open /\ i \notin {textIndex})
  BY <1>5, <1>7, ShutBlocks
<1>. HIDE DEF a, n
<1>10. \A i \in 0 .. n - 1 : a[i].kind = b[i].kind /\ a[i].pieces = b[i].pieces
                             /\ (a[i].open <=> i = thinkingIndex)
  <2>1. \A i \in 0 .. n - 1 : i # None BY <1>7, NoneAssumption
  <2>2. thinkingIndex # None => textIndex = None BY DEF BlocksApart
  <2> QED BY <1>7, <1>9, <2>1, <2>2
<1>11. PICK d, c : /\ Leads(Reading(a), Starts(thinkingIndex, "thinking"), Reading(d))
                   /\ Leads(Reading(d), <<Delta(BlockOf(thinkingIndex), "thinking")>>, Reading(c))
                   /\ Ahead(c)'
  <2>1. thinkingIndex # None =>
          thinkingIndex = nextBlockIndex - 1 /\ b[thinkingIndex].kind = "thinking"
    BY <1>2 DEF Ahead
  <2>2. OpenCalls' = {} /\ \A c \in Calls : toolCalls'[c].index = toolCalls[c].index
    BY <1>1 DEF OpenCalls
  <2>3. thinkingIndex \in Nat \cup {None} /\ "thinking" \in {"thinking", "text"} BY DEF TypeOK
  <2>4. /\ Whole(a, nextBlockIndex, read)
        /\ \A i \in 0 .. nextBlockIndex - 1 :
             a[i].kind = b[i].kind /\ a[i].pieces = b[i].pieces
             /\ (a[i].open <=> i = thinkingIndex)
    BY <1>9, <1>10 DEF n
  <2>5. /\ thinkingIndex' = IF "thinking" = "thinking" THEN BlockOf(thinkingIndex) ELSE None
        /\ textIndex' = IF "thinking" = "text" THEN BlockOf(thinkingIndex) ELSE None
        /\ api' = api /\ api # "responses"
    BY <1>1
  <2> QED BY <1>1, <1>2, <1>5, <1>9, <2>1, <2>2, <2>3, <2>4, <2>5, PieceStep
<1>12. Leads(Client, wire', Reading(c))
  <2>1. Leads(Client, wire \o TextStop, Reading(a)) BY <1>2, <1>8, LeadsFurther
  <2>2. Leads(Client, (wire \o TextStop) \o Starts(thinkingIndex, "thinking"), Reading(d))
    BY <1>11, <2>1, LeadsFurther
  <2>3. Leads(Client, ((wire \o TextStop) \o Starts(thinkingIndex, "thinking"))
                      \o <<Delta(BlockOf(thinkingIndex), "thinking")>>, Reading(c))
    BY <1>11, <2>2, LeadsFurther
  <2> QED BY <1>1, <2>3
<1>13. Leads(Client', wire', Will(c)')
  <2>1. Client' = Client /\ Will(c)' = Reading(c) BY <1>5
  <2> QED BY <1>12, <2>1
<1> QED BY <1>5, <1>6, <1>11, <1>13, OnItsWay

LEMMA ContentStep ==
  ASSUME IInv, SInv, Content
  PROVE  SInv'
<1>. USE DEF IInv
<1>1. /\ Meets("content")
      /\ wire' = wire \o ThinkingStop \o ToolStops \o Starts(textIndex, "text")
                      \o <<Delta(BlockOf(textIndex), "text")>>
      /\ thinkingIndex' = None /\ textIndex' = BlockOf(textIndex)
      /\ toolCalls' = CallsClosed
      /\ nextBlockIndex' = CounterAfter(textIndex)
      /\ answerText' = (IF api = "responses" THEN Append(answerText, Here) ELSE answerText)
      /\ given' = given \cup {<<"text", Here>>}
      /\ UNCHANGED <<api, stopReason, finalUsage>>
  BY DEF Content, Meets
<1>2. PICK b : Leads(Client, wire, Reading(b)) /\ Ahead(b)
  BY <1>1, Converting DEF Meets
<1>3. PICK g : g = <<"text", Here>> OBVIOUS
<1>4. g[1] = "text" /\ g[2] = Here BY <1>3
<1>5. api = "responses" => /\ textIndex = None => nextBlockIndex = 0 /\ answerText = <<>>
                           /\ textIndex # None => nextBlockIndex = 1
  <2>1. ~endedMessage BY <1>1, Converting DEF Meets
  <2> QED BY <2>1 DEF SInv, Sane
<1>6. textIndex' # None
  BY <1>1, NoneAssumption DEF BlockOf, TypeOK
<1>7. /\ Sane' /\ read \in Nat /\ read' = read + 1 /\ Here \in 1 .. MaxParts
      /\ phase' # "cut" /\ Client' = Client
      /\ \A c : Will(c)' = Reading(c)
  <2>1. \A h \in given' : h \in given \/ h[2] = Here BY <1>1, <1>3, <1>4
  <2>2. api = "responses" => nextBlockIndex' = 1
    BY <1>1, <1>5 DEF CounterAfter
  <2> QED BY <1>1, <1>6, <2>1, <2>2, PartRead
<1>8. Says' BY <1>1, <1>3, <1>4, SaysAsBefore DEF SInv, Kinds
<1>. DEFINE n == nextBlockIndex
            s == AllShut(b, n, {thinkingIndex})
            a == AllShut(s, n, OpenIndexes)
<1>9. /\ n \in Nat /\ Whole(b, n, read) /\ Ordered(b)
      /\ \A i \in 0 .. n - 1 : b[i].open <=> i = thinkingIndex \/ i = textIndex \/ i \in OpenIndexes
      /\ thinkingIndex # None => thinkingIndex \in 0 .. n - 1
      /\ OpenIndexes \subseteq 0 .. n - 1
  BY <1>2, <1>7, OpenOnes
<1>10. Leads(Reading(b), ThinkingStop, Reading(s))
  <2>1. thinkingIndex # None => thinkingIndex \in 0 .. n - 1 /\ b[thinkingIndex].open BY <1>9
  <2>2. thinkingIndex \in Nat \cup {None} BY DEF TypeOK
  <2> QED BY <1>7, <1>9, <2>1, <2>2, StopLeads DEF ThinkingStop
<1>11. /\ Whole(s, n, read) /\ Ordered(s)
       /\ \A i \in 0 .. n - 1 : s[i].kind = b[i].kind /\ s[i].pieces = b[i].pieces
                                /\ (s[i].open <=> b[i].open /\ i \notin {thinkingIndex})
  BY <1>7, <1>9, ShutBlocks
<1>. HIDE DEF n, s
<1>12. thinkingIndex # None => textIndex = None /\ OpenIndexes = {}
  BY DEF BlocksApart, OpenIndexes
<1>13. Leads(Reading(s), ToolStops, Reading(a))
  <2>1. \A c \in OpenCalls : toolCalls[c].index \in OpenIndexes BY DEF OpenIndexes
  <2>2. \A i \in OpenIndexes : i \in 0 .. n - 1 /\ i # thinkingIndex
    BY <1>9, <1>12, NoneAssumption
  <2>3. \A c \in OpenCalls : toolCalls[c].index \in 0 .. n - 1 /\ s[toolCalls[c].index].open
    BY <1>9, <1>11, <2>1, <2>2
  <2> QED BY <1>7, <1>9, <1>11, <2>3, ToolStopsLead
<1>14. /\ Whole(a, n, read) /\ Ordered(a)
       /\ \A i \in 0 .. n - 1 : a[i].kind = s[i].kind /\ a[i].pieces = s[i].pieces
                                /\ (a[i].open <=> s[i].open /\ i \notin OpenIndexes)
  BY <1>7, <1>9, <1>11, ShutBlocks
<1>. HIDE DEF a
<1>15. \A i \in 0 .. n - 1 : a[i].kind = b[i].kind /\ a[i].pieces = b[i].pieces
                             /\ (a[i].open <=> i = textIndex)
  <2>1. \A i \in 0 .. n - 1 : i # None BY <1>9, NoneAssumption
  <2>2. textIndex # None => thinkingIndex = None /\ OpenIndexes = {}
    BY DEF BlocksApart, OpenIndexes
  <2> QED BY <1>9, <1>11, <1>14, <2>1, <2>2
<1>16. PICK d, c : /\ Leads(Reading(a), Starts(textIndex, "text"), Reading(d))
                   /\ Leads(Reading(d), <<Delta(BlockOf(textIndex), "text")>>, Reading(c))
                   /\ Ahead(c)'
  <2>1. textIndex # None =>
          textIndex = nextBlockIndex - 1 /\ b[textIndex].kind = "text"
    BY <1>2 DEF Ahead
  <2>2. OpenCalls' = {} /\ \A c \in Calls : toolCalls'[c].index = toolCalls[c].index
    <3>1. \A c \in Calls : toolCalls'[c].index = toolCalls[c].index /\ ~toolCalls'[c].opened
      BY <1>1 DEF CallsClosed, TypeOK
    <3> QED BY <3>1 DEF OpenCalls
  <2>3. textIndex \in Nat \cup {None} /\ "text" \in {"thinking", "text"} BY DEF TypeOK
  <2>4. /\ Whole(a, nextBlockIndex, read)
        /\ \A i \in 0 .. nextBlockIndex - 1 :
             a[i].kind = b[i].kind /\ a[i].pieces = b[i].pieces
             /\ (a[i].open <=> i = textIndex)
    BY <1>14, <1>15 DEF n
  <2>5. /\ thinkingIndex' = IF "text" = "thinking" THEN BlockOf(textIndex) ELSE None
        /\ textIndex' = IF "text" = "text" THEN BlockOf(textIndex) ELSE None
        /\ api' = api
    BY <1>1
  <2>6. api = "responses" => /\ answerText' = Append(answerText, Here)
                             /\ textIndex = None => nextBlockIndex = 0 /\ answerText = <<>>
                             /\ textIndex # None => nextBlockIndex = 1
    BY <1>1, <1>5
  <2>7. /\ TypeOK /\ BlocksApart /\ read \in Nat /\ Here \in 1 .. MaxParts
        /\ Ahead(b) /\ Ordered(a)
        /\ nextBlockIndex' = CounterAfter(textIndex) /\ read' = read + 1
        /\ given' = given \cup {<<"text", Here>>}
    BY <1>1, <1>2, <1>7, <1>14
  <2> QED BY ONLY <2>1, <2>2, <2>3, <2>4, <2>5, <2>6, <2>7, PieceStep
<1>17. Leads(Client, wire', Reading(c))
  <2>1. Leads(Client, wire \o ThinkingStop, Reading(s)) BY <1>2, <1>10, LeadsFurther
  <2>2. Leads(Client, (wire \o ThinkingStop) \o ToolStops, Reading(a))
    BY <1>13, <2>1, LeadsFurther
  <2>3. Leads(Client, ((wire \o ThinkingStop) \o ToolStops) \o Starts(textIndex, "text"), Reading(d))
    BY <1>16, <2>2, LeadsFurther
  <2>4. Leads(Client, (((wire \o ThinkingStop) \o ToolStops) \o Starts(textIndex, "text"))
                      \o <<Delta(BlockOf(textIndex), "text")>>, Reading(c))
    BY <1>16, <2>3, LeadsFurther
  <2> QED BY <1>1, <2>4
<1>18. Leads(Client', wire', Will(c)')
  <2>1. Client' = Client /\ Will(c)' = Reading(c) BY <1>7
  <2> QED BY <1>17, <2>1
<1> QED BY <1>7, <1>8, <1>16, <1>18, OnItsWay

LEMMA FragmentStep ==
  ASSUME IInv, SInv, StoppedByText, Fragment
  PROVE  SInv'
<1>. USE DEF IInv
<1>1. /\ Meets("call") /\ api = "messages" /\ todo # <<>> /\ Head(todo).kind = "call"
      /\ UNCHANGED <<api, thinkingIndex, textIndex, answerText, stopReason, finalUsage>>
  BY DEF Fragment, Meets
<1>2. PICK call, args : call = Head(todo).call /\ args = Head(todo).args OBVIOUS
<1>3. call \in Calls
  <2>1. Head(todo) \in Part BY <1>1 DEF TypeOK
  <2> QED BY <1>1, <1>2, <2>1 DEF Part
<1>4. PICK k : k = BlockOf(toolCalls[call].index) OBVIOUS
<1>5. /\ wire' = wire \o (IF toolCalls[call].opened THEN <<>> ELSE <<Started(k, call)>>)
                      \o (IF args THEN <<Delta(k, call)>> ELSE <<>>)
      /\ toolCalls' = [toolCalls EXCEPT ![call] = [index |-> k, opened |-> TRUE]]
      /\ nextBlockIndex' = CounterAfter(toolCalls[call].index)
      /\ given' = given \cup {<<call, Here, args>>}
  BY <1>2, <1>4 DEF Fragment
<1>6. PICK b : Leads(Client, wire, Reading(b)) /\ Ahead(b)
  BY <1>1, Converting
<1>7. PICK g : g = <<call, Here, args>> OBVIOUS
<1>8. g[1] = call /\ g[2] = Here BY <1>7
<1>9. given' = given \cup {g} BY <1>5, <1>7
<1>10. /\ Sane' /\ read \in Nat /\ read' = read + 1 /\ Here \in 1 .. MaxParts
       /\ phase' # "cut" /\ Client' = Client
       /\ \A c : Will(c)' = Reading(c)
  <2>1. \A h \in given' : h \in given \/ h[2] = Here BY <1>8, <1>9
  <2>2. api # "responses" BY <1>1
  <2> QED BY <1>1, <2>1, <2>2, PartRead
<1>11. Says' BY <1>1, <1>3, <1>8, <1>9, SaysAsBefore DEF SInv, Kinds
<1>12. thinkingIndex = None /\ textIndex = None
  <2>1. 1 \in DOMAIN todo /\ todo[1].kind = "call" BY <1>1 DEF TypeOK
  <2>2. ~InArray(todo, 1) BY DEF InArray
  <2> QED BY <1>1, <2>1, <2>2 DEF ArraysClose
<1>13. /\ \A other \in Calls \ {call} : toolCalls'[other] = toolCalls[other]
       /\ toolCalls'[call].index = k /\ toolCalls'[call].opened
  BY <1>3, <1>5 DEF TypeOK
<1>14. PICK d, c :
         /\ Leads(Reading(b), IF toolCalls[call].opened THEN <<>> ELSE <<Started(k, call)>>,
                  Reading(d))
         /\ Leads(Reading(d), IF args THEN <<Delta(k, call)>> ELSE <<>>, Reading(c))
         /\ Ahead(c)'
  <2>1. \A t \in Given("text") : t < Here
    <3>1. \A t \in Given("text") : t \in 1 .. read BY DEF Given, SInv, Sane
    <3> QED BY <1>10, <3>1 DEF Here
  <2>2. ~endedMessage BY <1>1, Converting
  <2>3. BehindText(call) BY <1>3, <2>2 DEF StoppedByText
  <2>4. IsFragment(g, call, Here, args) BY <1>7 DEF IsFragment
  <2>5. nextBlockIndex' = CounterAfter(toolCalls[call].index) BY <1>5
  <2> QED BY <1>1, <1>3, <1>4, <1>6, <1>9, <1>10, <1>12, <1>13, <2>1, <2>3, <2>4, <2>5, CallStep
<1>15. Leads(Client, wire', Reading(c))
  <2>1. Leads(Client, wire \o (IF toolCalls[call].opened THEN <<>> ELSE <<Started(k, call)>>),
              Reading(d))
    BY <1>6, <1>14, LeadsFurther
  <2>2. Leads(Client, (wire \o (IF toolCalls[call].opened THEN <<>> ELSE <<Started(k, call)>>))
                      \o (IF args THEN <<Delta(k, call)>> ELSE <<>>), Reading(c))
    BY <1>14, <2>1, LeadsFurther
  <2> QED BY <1>5, <2>2
<1>16. Leads(Client', wire', Will(c)')
  <2>1. Client' = Client /\ Will(c)' = Reading(c) BY <1>10
  <2> QED BY <1>15, <2>1
<1> QED BY <1>10, <1>11, <1>14, <1>16, OnItsWay

\* A part that no event is made of.
LEMMA QuietStep ==
  ASSUME IInv, SInv, NEW kind, Meets(kind),
         UNCHANGED <<thinkingIndex, textIndex, toolCalls, nextBlockIndex, answerText, wire>>,
         \A other \in Kinds : Sent(other)' = Sent(other),
         \A g \in given' : g \in given \/ g[2] = Here,
         Says'
  PROVE  SInv'
<1>1. UNCHANGED <<api, startedMessage, endedMessage>> /\ todo # <<>> /\ TypeOK BY DEF Meets, IInv
<1>2. ~endedMessage /\ \E b : Leads(Client, wire, Reading(b)) /\ Ahead(b) BY <1>1, Converting
<1>3. /\ Sane' /\ read \in Nat /\ read' = read + 1
      /\ phase' # "cut" /\ Client' = Client
      /\ \A c : Will(c)' = Reading(c)
  <2>1. api = "responses" => /\ textIndex' = None => nextBlockIndex' = 0 /\ answerText' = <<>>
                             /\ textIndex' # None => nextBlockIndex' = 1
    BY <1>2 DEF SInv, Sane
  <2> QED BY <1>1, <2>1, PartRead
<1>4. PICK b : Leads(Client, wire, Reading(b)) /\ Ahead(b) BY <1>2
<1>5. read' \in Nat /\ read <= read' BY <1>3
<1>6. Ahead(b)' BY <1>1, <1>3, <1>4, <1>5, SameAhead
<1>7. Leads(Client', wire', Will(b)')
  <2>1. Client' = Client /\ wire' = wire /\ Will(b)' = Reading(b) BY <1>3
  <2> QED BY <1>4, <2>1
<1> QED BY <1>3, <1>6, <1>7, OnItsWay

\* What is sent of other things leaves the last finish reason.
LEMMA LastAsBefore ==
  ASSUME NEW g, g[1] # "finish", given' = given \cup {g}
  PROVE  LastReason' = LastReason
<1>1. Given("finish")' = Given("finish") BY DEF Given
<1>2. \A h : h \in given' /\ h[1] = "finish" <=> h \in given /\ h[1] = "finish" OBVIOUS
<1> QED BY <1>1, <1>2 DEF LastReason

\* What has been given came before.
LEMMA GivenBefore ==
  ASSUME SInv
  PROVE  /\ read \in Nat /\ Here # None /\ Here <= Here
         /\ \A kind : \A n \in Given(kind) : n <= Here
         /\ \A n \in UsageTaken : n <= Here
<1>1. read \in Nat BY DEF SInv, Sane
<1>2. Here # None /\ Here <= Here BY <1>1, NoneAssumption DEF Here
<1>3. \A kind : \A n \in Given(kind) : n <= Here
  <2>1. \A kind : \A n \in Given(kind) : n \in 1 .. read BY DEF Given, SInv, Sane
  <2> QED BY <1>1, <2>1 DEF Here
<1>4. \A n \in UsageTaken : n <= Here BY <1>3 DEF UsageTaken
<1> QED BY <1>1, <1>2, <1>3, <1>4

\* Usage, alone or beside a choice.
LEMMA UsageStep ==
  ASSUME IInv, SInv, UsageOnly \/ UsageBeside
  PROVE  SInv'
<1>1. PICK kind \in {"usage", "usage beside"} :
        /\ Meets(kind) /\ given' = given \cup {<<kind, Here>>}
        /\ kind = "usage" \/ api = "responses" => finalUsage' = Here
        /\ ~(kind = "usage" \/ api = "responses") => finalUsage' = finalUsage
        /\ UNCHANGED <<api, thinkingIndex, textIndex, toolCalls, nextBlockIndex, answerText,
                       stopReason, wire>>
  BY DEF UsageOnly, UsageBeside, Meets
<1>2. PICK g : g = <<kind, Here>> OBVIOUS
<1>3. g[1] = kind /\ g[2] = Here /\ given' = given \cup {g} BY <1>1, <1>2
<1>4. \A other : Given(other)' = Given(other) \cup IF g[1] = other THEN {g[2]} ELSE {}
  BY ONLY <1>3, GivenGrows
<1>5. \A other \in Kinds : Sent(other)' = Sent(other)
  <2>1. g[1] \notin Kinds BY <1>3, KindsAssumption
  <2> QED BY <1>3, <2>1, OthersSent
<1>6. LastReason' = LastReason /\ Given("finish")' = Given("finish")
  BY <1>3, <1>4, LastAsBefore
<1>7. CASE kind = "usage" \/ api = "responses"
  <2>1. UsageTaken' = UsageTaken \cup {Here} /\ finalUsage' = Here
    BY <1>1, <1>3, <1>4, <1>7 DEF UsageTaken
  <2>2. Given("usage")' \subseteq UsageTaken' BY DEF UsageTaken
  <2>3. \A n \in UsageTaken' : n <= Here BY <2>1, GivenBefore
  <2>4. Here # None BY GivenBefore
  <2>5. Says' BY <1>1, <1>6, <2>1, <2>2, <2>3, <2>4 DEF SInv, Says
  <2>6. \A h \in given' : h \in given \/ h[2] = Here BY <1>3
  <2> QED BY <1>1, <1>5, <2>5, <2>6, QuietStep
<1>8. CASE ~(kind = "usage" \/ api = "responses")
  <2>1. /\ UsageTaken' = UsageTaken /\ Given("usage")' = Given("usage")
        /\ finalUsage' = finalUsage /\ api # "responses"
    BY <1>1, <1>3, <1>4, <1>8 DEF UsageTaken
  <2>2. Says' BY <1>1, <1>6, <2>1 DEF SInv, Says
  <2>3. \A h \in given' : h \in given \/ h[2] = Here BY <1>3
  <2> QED BY <1>1, <1>5, <2>2, <2>3, QuietStep
<1> QED BY <1>7, <1>8

LEMMA FinishStep ==
  ASSUME IInv, SInv, FinishReason
  PROVE  SInv'
<1>1. PICK reason, usage : reason = Head(todo).reason /\ usage = Head(todo).usage OBVIOUS
<1>2. /\ Meets("finish") /\ todo # <<>> /\ Head(todo).kind = "finish"
      /\ stopReason' = IF api = "messages" THEN reason ELSE stopReason
      /\ finalUsage' = IF usage /\ (api = "responses" \/ finalUsage = None)
                       THEN Here ELSE finalUsage
      /\ given' = given \cup {<<"finish", Here, reason>>}
                        \cup IF usage THEN {<<"usage with finish", Here>>} ELSE {}
      /\ UNCHANGED <<api, thinkingIndex, textIndex, toolCalls, nextBlockIndex, answerText, wire>>
  BY <1>1 DEF FinishReason, Meets
<1>3. reason # None
  <2>1. Head(todo) \in Part
    <3>1. todo # <<>> /\ todo \in Seq(Part) BY <1>2 DEF IInv, TypeOK
    <3> QED BY ONLY <3>1
  <2>2. reason \in Reasons BY <1>1, <1>2, <2>1 DEF Part
  <2> QED BY <2>2, NoneAssumption
<1>4. PICK f, u : f = <<"finish", Here, reason>> /\ u = <<"usage with finish", Here>> OBVIOUS
<1>5. /\ f[1] = "finish" /\ f[2] = Here /\ f[3] = reason
      /\ u[1] = "usage with finish" /\ u[2] = Here
  BY <1>4
<1>6. given' = given \cup {f} \cup IF usage THEN {u} ELSE {} BY <1>2, <1>4
<1>7. \A kind : Given(kind)' = Given(kind) \cup (IF kind = "finish" THEN {Here} ELSE {})
                  \cup (IF kind = "usage with finish" /\ usage THEN {Here} ELSE {})
  <2>1. CASE usage
    <3>1. given' = given \cup {f} \cup {u} BY <1>6, <2>1
    <3> QED BY <1>5, <2>1, <3>1 DEF Given
  <2>2. CASE ~usage
    <3>1. given' = given \cup {f} BY <1>6, <2>2
    <3> QED BY <1>5, <2>2, <3>1 DEF Given
  <2> QED BY <2>1, <2>2
<1>8. /\ Given("usage")' = Given("usage") /\ Given("usage beside")' = Given("usage beside")
      /\ Given("usage with finish")' = Given("usage with finish") \cup IF usage THEN {Here} ELSE {}
      /\ Given("finish")' = Given("finish") \cup {Here}
      /\ UsageTaken' = UsageTaken \cup IF usage THEN {Here} ELSE {}
  <2>1. /\ Given("usage")' = Given("usage") /\ Given("usage beside")' = Given("usage beside")
        /\ Given("usage with finish")' = Given("usage with finish") \cup IF usage THEN {Here} ELSE {}
        /\ Given("finish")' = Given("finish") \cup {Here}
    BY <1>7
  <2> QED BY <1>2, <2>1 DEF UsageTaken
<1>9. \A kind \in Kinds : Sent(kind)' = Sent(kind)
  <2>1. f[1] \notin Kinds /\ u[1] \notin Kinds BY <1>5, KindsAssumption
  <2>2. \A h : h \in given' => h \in given \/ h = f \/ h = u BY <1>6
  <2>3. given \subseteq given' BY <1>6
  <2> QED BY <2>1, <2>2, <2>3 DEF Sent
<1>10. /\ Here # None /\ Here <= Here
       /\ \A kind : \A n \in Given(kind) : n <= Here
       /\ \A n \in UsageTaken : n <= Here
  BY GivenBefore
<1>11. reason \in LastReason'
  <2>1. \A n \in Given("finish")' : n <= f[2] BY <1>5, <1>8, <1>10
  <2>2. f \in given' /\ f[1] = "finish" BY <1>5, <1>6
  <2> QED BY <1>5, <2>1, <2>2 DEF LastReason
<1>12. Says'
  <2>1. /\ finalUsage = None => UsageTaken = {}
        /\ finalUsage # None => /\ finalUsage \in UsageTaken
                                /\ api = "responses" => \A n \in UsageTaken : n <= finalUsage
                                /\ api # "responses" => \A n \in Given("usage") : n <= finalUsage
    BY DEF SInv, Says
  <2>2. IF finalUsage' = None THEN UsageTaken' = {}
        ELSE /\ finalUsage' \in UsageTaken'
             /\ api' = "responses" => \A n \in UsageTaken' : n <= finalUsage'
             /\ api' # "responses" => \A n \in Given("usage")' : n <= finalUsage'
    <3>1. CASE usage /\ (api = "responses" \/ finalUsage = None)
      <4>1. finalUsage' = Here BY <1>2, <3>1
      <4> QED BY <1>2, <1>8, <1>10, <3>1, <4>1
    <3>2. CASE ~(usage /\ (api = "responses" \/ finalUsage = None))
      <4>1. /\ finalUsage' = finalUsage /\ (finalUsage = None => ~usage)
            /\ api = "responses" => ~usage
        BY <1>2, <3>2
      <4> QED BY <1>2, <1>8, <2>1, <4>1
    <3> QED BY <3>1, <3>2
  <2>3. api' = "messages" => stopReason' # None /\ stopReason' \in LastReason'
    BY <1>2, <1>3, <1>11
  <2> QED BY <2>2, <2>3 DEF Says
<1>13. \A h \in given' : h \in given \/ h[2] = Here
  BY <1>5, <1>6
<1> QED BY <1>2, <1>9, <1>12, <1>13, QuietStep

LEMMA SkippedStep ==
  ASSUME IInv, SInv, DropReasoning \/ SkipFragment
  PROVE  SInv'
<1>1. PICK kind : Meets(kind) BY DEF DropReasoning, SkipFragment
<1>2. UNCHANGED <<api, thinkingIndex, textIndex, toolCalls, nextBlockIndex, answerText,
                  stopReason, finalUsage, wire, given>>
  BY DEF DropReasoning, SkipFragment, Meets
<1>3. \A other \in Kinds : Sent(other)' = Sent(other) BY <1>2 DEF Sent
<1>4. PICK g : g = <<"thinking", Here>> OBVIOUS
<1>5. g[1] \in Kinds BY <1>4 DEF Kinds
<1>6. Says' BY <1>2, <1>5, SaysAsBefore DEF SInv
<1> QED BY <1>1, <1>2, <1>3, <1>6, QuietStep

\* Blocks of which some are stopped and none is begun.
LEMMA ShutAhead ==
  ASSUME TypeOK, read \in Nat, read' \in Nat, read <= read', NEW b, Ahead(b),
         NEW a, Whole(a, nextBlockIndex, read), Ordered(a),
         \A i \in 0 .. nextBlockIndex - 1 :
           a[i].kind = b[i].kind /\ a[i].pieces = b[i].pieces /\ (a[i].open <=> i \in OpenIndexes'),
         thinkingIndex' = None, textIndex' = None,
         \A c \in Calls : toolCalls'[c].index = toolCalls[c].index,
         UNCHANGED <<api, nextBlockIndex, answerText>>,
         \A kind \in Kinds : Sent(kind)' = Sent(kind)
  PROVE  Ahead(a)'
<1>. DEFINE n == nextBlockIndex
<1>1. n \in Nat /\ DOMAIN b = 0 .. n - 1 /\ DOMAIN a = 0 .. n - 1
  BY WholeDomain DEF TypeOK, Ahead
<1>2. Whole(a, n, read') BY WholeLater DEF TypeOK
<1>3. \A i \in DOMAIN a : a[i].kind = b[i].kind /\ a[i].pieces = b[i].pieces BY <1>1
<1>4. \A i \in DOMAIN a : a[i].open <=> \E c \in OpenCalls' : toolCalls'[c].index = i
  BY <1>1 DEF OpenIndexes
<1>. HIDE DEF n
<1>5. \A i \in DOMAIN a : i # None BY <1>1, NoneAssumption
<1>6. AllOf(a)'
  <2>. SUFFICES ASSUME NEW kind \in Kinds PROVE PiecesOf(a, kind) = PiecesOf(b, kind)
    BY SameAllOf DEF Ahead
  <2>1. \A i : i \in DOMAIN a /\ a[i].kind = kind <=> i \in DOMAIN b /\ b[i].kind = kind
    BY <1>1, <1>3
  <2>2. {i \in DOMAIN a : a[i].kind = kind} = {i \in DOMAIN b : b[i].kind = kind} BY <2>1
  <2>3. \A i \in DOMAIN a : a[i].pieces = b[i].pieces BY <1>3
  <2> QED BY <2>2, <2>3 DEF PiecesOf
<1>7. \A c \in Calls : \A i \in DOMAIN a : a[i].kind = c <=> toolCalls'[c].index = i
  <2>1. \A c \in Calls : \A i \in DOMAIN b : b[i].kind = c <=> toolCalls[c].index = i BY DEF Ahead
  <2> QED BY <1>1, <1>3, <2>1
<1>8. api = "responses" => \A i \in DOMAIN a : a[i].pieces = answerText
  BY <1>1, <1>3 DEF Ahead
<1>9. \A i \in DOMAIN a : a[i].open <=> \/ i \in {thinkingIndex', textIndex'}
                                        \/ \E c \in OpenCalls' : toolCalls'[c].index = i
  BY <1>4, <1>5
<1>10. Whole(a, nextBlockIndex', read') BY <1>2 DEF n
<1> QED BY <1>6, <1>7, <1>8, <1>9, <1>10 DEF Ahead

LEMMA ToolsStep ==
  ASSUME IInv, SInv, Tools
  PROVE  SInv'
<1>. USE DEF IInv
<1>1. /\ Meets("tools")
      /\ UNCHANGED <<api, toolCalls, nextBlockIndex, answerText, stopReason, finalUsage, given>>
  BY DEF Tools, Meets
<1>2. \A kind \in Kinds : Sent(kind)' = Sent(kind) BY <1>1 DEF Sent
<1>3. Says'
  <2>1. PICK g : g = <<"thinking", Here>> OBVIOUS
  <2>2. g[1] \in Kinds BY <2>1 DEF Kinds
  <2> QED BY <1>1, <2>2, SaysAsBefore DEF SInv
<1>4. CASE api # "messages"
  <2>1. UNCHANGED <<thinkingIndex, textIndex, wire>> BY <1>4 DEF Tools
  <2> QED BY <1>1, <1>2, <1>3, <2>1, QuietStep
<1>5. CASE api = "messages"
  <2>1. /\ wire' = wire \o ThinkingStop \o TextStop
        /\ thinkingIndex' = None /\ textIndex' = None
    BY <1>5 DEF Tools
  <2>2. PICK b : Leads(Client, wire, Reading(b)) /\ Ahead(b)
    BY <1>1, Converting DEF Meets
  <2>3. /\ Sane' /\ read \in Nat /\ read' = read + 1
        /\ phase' # "cut" /\ Client' = Client
        /\ \A c : Will(c)' = Reading(c)
    <3>1. api # "responses" BY <1>5
    <3> QED BY <1>1, <3>1, PartRead
  <2>. DEFINE n == nextBlockIndex
              s == AllShut(b, n, {thinkingIndex})
              a == AllShut(s, n, {textIndex})
  <2>4. /\ n \in Nat /\ Whole(b, n, read) /\ Ordered(b)
        /\ \A i \in 0 .. n - 1 : b[i].open <=> i = thinkingIndex \/ i = textIndex \/ i \in OpenIndexes
        /\ thinkingIndex # None => thinkingIndex \in 0 .. n - 1
        /\ textIndex # None => textIndex \in 0 .. n - 1
    BY <2>2, <2>3, OpenOnes
  <2>5. Leads(Reading(b), ThinkingStop, Reading(s))
    <3>1. thinkingIndex # None => thinkingIndex \in 0 .. n - 1 /\ b[thinkingIndex].open BY <2>4
    <3>2. thinkingIndex \in Nat \cup {None} BY DEF TypeOK
    <3> QED BY <2>3, <2>4, <3>1, <3>2, StopLeads DEF ThinkingStop
  <2>6. /\ Whole(s, n, read) /\ Ordered(s)
        /\ \A i \in 0 .. n - 1 : s[i].kind = b[i].kind /\ s[i].pieces = b[i].pieces
                                 /\ (s[i].open <=> b[i].open /\ i \notin {thinkingIndex})
    BY <2>3, <2>4, ShutBlocks
  <2>. HIDE DEF n, s
  <2>7. thinkingIndex # None => textIndex = None BY DEF BlocksApart
  <2>8. Leads(Reading(s), TextStop, Reading(a))
    <3>1. textIndex # None => textIndex \in 0 .. n - 1 /\ s[textIndex].open
      BY <2>4, <2>6, <2>7
    <3>2. textIndex \in Nat \cup {None} BY DEF TypeOK
    <3> QED BY <2>3, <2>4, <2>6, <3>1, <3>2, StopLeads DEF TextStop
  <2>9. /\ Whole(a, n, read) /\ Ordered(a)
        /\ \A i \in 0 .. n - 1 : a[i].kind = s[i].kind /\ a[i].pieces = s[i].pieces
                                 /\ (a[i].open <=> s[i].open /\ i \notin {textIndex})
    BY <2>3, <2>4, <2>6, ShutBlocks
  <2>. HIDE DEF a
  <2>10. OpenIndexes' = OpenIndexes BY <1>1 DEF OpenIndexes, OpenCalls
  <2>11. \A i \in 0 .. n - 1 : a[i].kind = b[i].kind /\ a[i].pieces = b[i].pieces
                               /\ (a[i].open <=> i \in OpenIndexes)
    <3>1. thinkingIndex # None => thinkingIndex \notin OpenIndexes
      BY DEF BlocksApart, OpenIndexes
    <3>2. textIndex # None => textIndex \notin OpenIndexes BY DEF BlocksApart, OpenIndexes
    <3>3. \A i \in 0 .. n - 1 : i # None BY <2>4, NoneAssumption
    <3> QED BY <2>4, <2>6, <2>9, <3>1, <3>2, <3>3
  <2>12. PICK c : c = a OBVIOUS
  <2>13. Ahead(c)'
    <3>1. read' \in Nat /\ read <= read' BY <2>3
    <3>2. \A i \in 0 .. nextBlockIndex - 1 :
            c[i].kind = b[i].kind /\ c[i].pieces = b[i].pieces /\ (c[i].open <=> i \in OpenIndexes')
      BY <2>10, <2>11, <2>12 DEF n
    <3>3. Whole(c, nextBlockIndex, read) /\ Ordered(c) BY <2>9, <2>12 DEF n
    <3>4. \A call \in Calls : toolCalls'[call].index = toolCalls[call].index BY <1>1
    <3> QED BY <1>1, <1>2, <2>1, <2>2, <2>3, <3>1, <3>2, <3>3, <3>4, ShutAhead
  <2>14. Leads(Client', wire', Will(c)')
    <3>1. Leads(Client, wire \o ThinkingStop, Reading(s)) BY <2>2, <2>5, LeadsFurther
    <3>2. Leads(Client, (wire \o ThinkingStop) \o TextStop, Reading(c))
      BY <2>8, <2>12, <3>1, LeadsFurther
    <3>3. Client' = Client /\ Will(c)' = Reading(c) BY <2>3
    <3> QED BY <2>1, <3>2, <3>3
  <2> QED BY <1>3, <2>3, <2>13, <2>14, OnItsWay
<1> QED BY <1>4, <1>5

\* A chunk is read: the first one begins the message.
LEMMA ReadStep ==
  ASSUME IInv, SInv, NEW payload \in Payloads, Read(payload)
  PROVE  SInv'
<1>1. /\ source = "open" /\ todo = <<>> /\ wire = <<>> /\ todo' = payload
      /\ read + Len(payload) <= MaxParts
      /\ startedMessage' = TRUE
      /\ wire' = IF startedMessage THEN <<>> ELSE <<Begun>>
      /\ UNCHANGED <<api, source, read, thinkingIndex, textIndex, toolCalls, nextBlockIndex,
                     answerText, stopReason, finalUsage, endedMessage, captured, phase, blocks,
                     told, given>>
  BY DEF Read, client
<1>2. PICK b : Leads(Client, wire, Will(b)) /\ Ahead(b) BY <1>1, Live
<1>3. phase' # "cut" /\ Client' = Client BY <1>1, Live DEF Client
<1>4. ~endedMessage /\ read \in Nat BY <1>1 DEF SInv, Sane
<1>5. Sane' /\ OpenCalls' = OpenCalls
  BY <1>1, <1>4 DEF SInv, Sane, OpenCalls
<1>6. Says'
  <2>1. PICK g : g = <<"thinking", Here>> OBVIOUS
  <2>2. g[1] \in Kinds BY <2>1 DEF Kinds
  <2> QED BY <1>1, <2>2, SaysAsBefore DEF SInv
<1>7. Ahead(b)'
  <2>1. \A kind \in Kinds : Sent(kind)' = Sent(kind) BY <1>1 DEF Sent
  <2>2. read' \in Nat /\ read <= read' /\ TypeOK BY <1>1, <1>4 DEF IInv
  <2> QED BY <1>1, <1>2, <1>4, <2>1, <2>2, SameAhead
<1>8. Will(b)' = Reading(b) BY <1>1, <1>4 DEF Will, Reading
<1>9. Leads(Client, wire', Reading(b))
  <2>1. CASE startedMessage
    <3>1. Will(b) = Reading(b) /\ wire' = wire BY <1>1, <1>4, <2>1 DEF Will, Reading
    <3> QED BY <1>2, <3>1
  <2>2. CASE ~startedMessage
    <3>1. Will(b) = [phase |-> "waiting", blocks |-> b, told |-> None]
      BY <1>4, <2>2 DEF Will
    <3>2. Leads(Will(b), <<Begun>>, Reading(b)) BY <1>2, <3>1, BeginLeads DEF Ahead
    <3>3. Leads(Client, wire \o <<Begun>>, Reading(b)) BY <1>2, <3>2, LeadsFurther
    <3>4. wire \o <<Begun>> = <<Begun>> BY <1>1
    <3> QED BY <1>1, <2>2, <3>3, <3>4
  <2> QED BY <2>1, <2>2
<1> QED BY <1>3, <1>5, <1>6, <1>7, <1>8, <1>9, OnItsWay

\* The provider's stream ends, one way or the other.
LEMMA EndStep ==
  ASSUME IInv, SInv, Close \/ Break
  PROVE  SInv'
<1>1. /\ source = "open" /\ todo = <<>> /\ source' \in {"closed", "broken"}
      /\ UNCHANGED <<api, read, todo, startedMessage, thinkingIndex, textIndex, toolCalls,
                     nextBlockIndex, answerText, stopReason, finalUsage, endedMessage,
                     wire, captured, phase, blocks, told, given>>
  BY DEF Close, Break, converter, client
<1>2. PICK b : Leads(Client, wire, Will(b)) /\ Ahead(b) BY <1>1, Live
<1>3. phase' # "cut" /\ Client' = Client BY <1>1, Live DEF Client
<1>4. Sane' BY <1>1 DEF SInv, Sane, OpenCalls
<1>5. Says'
  <2>1. PICK g : g = <<"thinking", Here>> OBVIOUS
  <2>2. g[1] \in Kinds BY <2>1 DEF Kinds
  <2> QED BY <1>1, <2>2, SaysAsBefore DEF SInv
<1>6. Ahead(b)'
  <2>1. \A kind \in Kinds : Sent(kind)' = Sent(kind) BY <1>1 DEF Sent
  <2>2. read \in Nat /\ read' \in Nat /\ read <= read' /\ TypeOK BY <1>1 DEF IInv, SInv, Sane
  <2> QED BY <1>1, <1>2, <2>1, <2>2, SameAhead
<1>7. Will(b)' = Will(b) BY <1>1, SameWill
<1>8. Leads(Client', wire', Will(b)') BY <1>1, <1>2, <1>3, <1>7
<1> QED BY <1>3, <1>4, <1>5, <1>6, <1>8, OnItsWay

\* What is made of the client's blocks before the end is told.
Ends(b, n, top, c) ==
  /\ Whole(c, n, top) /\ Ordered(c)
  /\ \A i \in 0 .. n - 1 : c[i].kind = b[i].kind /\ c[i].pieces = b[i].pieces /\ ~c[i].open

LEMMA ClosingLeads ==
  ASSUME TypeOK, BlocksApart, CallsHaveBlocks, read \in Nat, NEW b, Ahead(b),
         NEW w, Leads(Client, w, Reading(b))
  PROVE  \E c : /\ Leads(Client, w \o ThinkingStop \o TextStop \o ToolStops, Reading(c))
                /\ Ends(b, nextBlockIndex, read, c)
<1>. DEFINE n == nextBlockIndex
            s == AllShut(b, n, {thinkingIndex})
            t == AllShut(s, n, {textIndex})
            c == AllShut(t, n, OpenIndexes)
<1>1. /\ n \in Nat /\ Whole(b, n, read) /\ Ordered(b)
      /\ \A i \in 0 .. n - 1 : b[i].open <=> i = thinkingIndex \/ i = textIndex \/ i \in OpenIndexes
      /\ thinkingIndex # None => thinkingIndex \in 0 .. n - 1
      /\ textIndex # None => textIndex \in 0 .. n - 1
      /\ OpenIndexes \subseteq 0 .. n - 1
  BY OpenOnes
<1>2. /\ thinkingIndex # None => textIndex = None /\ OpenIndexes = {}
      /\ textIndex # None => OpenIndexes = {}
      /\ \A i \in 0 .. n - 1 : i # None
  BY <1>1, NoneAssumption DEF BlocksApart, OpenIndexes
<1>3. thinkingIndex \in Nat \cup {None} /\ textIndex \in Nat \cup {None} BY DEF TypeOK
<1>4. Leads(Reading(b), ThinkingStop, Reading(s))
  <2>1. thinkingIndex # None => thinkingIndex \in 0 .. n - 1 /\ b[thinkingIndex].open BY <1>1
  <2> QED BY <1>1, <1>3, <2>1, StopLeads DEF ThinkingStop
<1>5. /\ Whole(s, n, read) /\ Ordered(s)
      /\ \A i \in 0 .. n - 1 : s[i].kind = b[i].kind /\ s[i].pieces = b[i].pieces
                               /\ (s[i].open <=> b[i].open /\ i \notin {thinkingIndex})
  BY <1>1, ShutBlocks
<1>. HIDE DEF n, s
<1>6. Leads(Reading(s), TextStop, Reading(t))
  <2>1. textIndex # None => textIndex \in 0 .. n - 1 /\ s[textIndex].open
    BY <1>1, <1>2, <1>5
  <2> QED BY <1>1, <1>3, <1>5, <2>1, StopLeads DEF TextStop
<1>7. /\ Whole(t, n, read) /\ Ordered(t)
      /\ \A i \in 0 .. n - 1 : t[i].kind = s[i].kind /\ t[i].pieces = s[i].pieces
                               /\ (t[i].open <=> s[i].open /\ i \notin {textIndex})
  BY <1>1, <1>5, ShutBlocks
<1>. HIDE DEF t
<1>8. Leads(Reading(t), ToolStops, Reading(c))
  <2>1. \A call \in OpenCalls : toolCalls[call].index \in OpenIndexes BY DEF OpenIndexes
  <2>2. \A i \in OpenIndexes : i \in 0 .. n - 1 /\ i # thinkingIndex /\ i # textIndex
    BY <1>1, <1>2
  <2>3. \A call \in OpenCalls : /\ toolCalls[call].index \in 0 .. n - 1
                                /\ t[toolCalls[call].index].open
    BY <1>1, <1>5, <1>7, <2>1, <2>2
  <2> QED BY <1>1, <1>7, <2>3, ToolStopsLead
<1>9. /\ Whole(c, n, read) /\ Ordered(c)
      /\ \A i \in 0 .. n - 1 : c[i].kind = t[i].kind /\ c[i].pieces = t[i].pieces
                               /\ (c[i].open <=> t[i].open /\ i \notin OpenIndexes)
  BY <1>1, <1>7, ShutBlocks
<1>. HIDE DEF c
<1>10. Ends(b, n, read, c)
  <2>1. \A i \in 0 .. n - 1 : c[i].kind = b[i].kind /\ c[i].pieces = b[i].pieces /\ ~c[i].open
    BY <1>1, <1>5, <1>7, <1>9
  <2> QED BY <1>9, <2>1 DEF Ends
<1>11. Leads(Client, w \o ThinkingStop, Reading(s)) BY <1>4, LeadsFurther
<1>12. Leads(Client, (w \o ThinkingStop) \o TextStop, Reading(t)) BY <1>6, <1>11, LeadsFurther
<1>13. Leads(Client, ((w \o ThinkingStop) \o TextStop) \o ToolStops, Reading(c))
  BY <1>8, <1>12, LeadsFurther
<1> QED BY <1>10, <1>13 DEF n

\* The provider has sent nothing, and nothing was begun.
LEMMA NothingToClose ==
  ASSUME TypeOK, BlocksApart, CallsHaveBlocks, nextBlockIndex = 0
  PROVE  ThinkingStop = <<>> /\ TextStop = <<>> /\ ToolStops = <<>>
<1>1. thinkingIndex = None /\ textIndex = None BY DEF TypeOK, BlocksApart
<1>2. \A c \in Calls : ~toolCalls[c].opened
  <2>. SUFFICES ASSUME NEW c \in Calls, toolCalls[c].opened PROVE FALSE
    OBVIOUS
  <2>1. toolCalls[c].index # None BY DEF CallsHaveBlocks
  <2>2. toolCalls[c].index \in Nat BY <2>1 DEF TypeOK
  <2>3. toolCalls[c].index < 0 BY <2>1 DEF BlocksApart
  <2> QED BY <2>2, <2>3
<1>3. {toolCalls[c].index : c \in OpenCalls} = {} BY <1>2 DEF OpenCalls
<1>4. ToolStops = <<>>
  <2>. DEFINE S == {toolCalls[c].index : c \in OpenCalls}
              k == Cardinality(S)
              v == [j \in 1 .. k |-> Stopped(CHOOSE i \in S : Cardinality({m \in S : m < i}) = j - 1)]
  <2>1. ToolStops = v BY DEF ToolStops
  <2>2. k = 0 BY <1>3, FS_EmptySet
  <2>. HIDE DEF S, k
  <2>3. v = <<>> BY <2>2
  <2> QED BY <2>1, <2>3
<1> QED BY <1>1, <1>4 DEF ThinkingStop, TextStop

LEMMA FinalizeStep ==
  ASSUME IInv, SInv, Finalize
  PROVE  SInv'
<1>. USE DEF IInv
<1>. DEFINE first == IF api = "responses" /\ ~startedMessage THEN <<Begun>> ELSE <<>>
            last == Ending(StopReasonOf(stopReason), finalUsage, answerText)
<1>1. /\ source = "closed" /\ todo = <<>> /\ ~endedMessage /\ endedMessage' = TRUE
      /\ wire' = wire \o first \o ThinkingStop \o TextStop \o ToolStops \o <<last, Over>>
      /\ startedMessage' = (startedMessage \/ api = "responses")
      /\ thinkingIndex' = None /\ textIndex' = None
      /\ toolCalls' = CallsClosed
      /\ captured' = finalUsage
      /\ UNCHANGED <<api, source, read, todo, nextBlockIndex, answerText, stopReason,
                     finalUsage, phase, blocks, told, given>>
  BY DEF Finalize, client
<1>2. PICK b : Leads(Client, wire, Will(b)) /\ Ahead(b) BY <1>1, Live
<1>3. phase' # "cut" /\ Client' = Client BY <1>1, Live DEF Client
<1>4. /\ \A c \in Calls : toolCalls'[c].index = toolCalls[c].index /\ ~toolCalls'[c].opened
      /\ OpenCalls' = {} /\ OpenIndexes' = {}
  <2>1. \A c \in Calls : toolCalls'[c].index = toolCalls[c].index /\ ~toolCalls'[c].opened
    BY <1>1 DEF CallsClosed, TypeOK
  <2> QED BY <2>1 DEF OpenCalls, OpenIndexes
<1>5. read \in Nat /\ nextBlockIndex \in Nat BY DEF SInv, Sane, TypeOK
<1>6. Sane' BY <1>1, <1>4 DEF SInv, Sane
<1>7. Says'
  <2>1. PICK g : g = <<"thinking", Here>> OBVIOUS
  <2>2. g[1] \in Kinds BY <2>1 DEF Kinds
  <2> QED BY <1>1, <2>2, SaysAsBefore DEF SInv
<1>. HIDE DEF first, last
<1>8. PICK c, start :
        /\ start \in Unended
        /\ Leads(Client, wire \o first \o ThinkingStop \o TextStop \o ToolStops,
                 [phase |-> start, blocks |-> c, told |-> None])
        /\ Ends(b, nextBlockIndex, read, c)
  <2>1. CASE startedMessage \/ api = "responses"
    <3>1. Leads(Will(b), first, Reading(b))
      <4>1. CASE startedMessage
        <5>1. first = <<>> /\ Will(b) = Reading(b) BY <1>1, <4>1 DEF first, Will, Reading
        <5>2. Good(Reading(b)) BY <1>2 DEF Ahead, Good, Reading, Unended
        <5> QED BY <5>1, <5>2, LeadsNowhere
      <4>2. CASE ~startedMessage
        <5>1. first = <<Begun>> BY <2>1, <4>2 DEF first
        <5>2. Will(b) = [phase |-> "waiting", blocks |-> b, told |-> None]
          BY <1>1, <4>2 DEF Will
        <5> QED BY <1>2, <5>1, <5>2, BeginLeads DEF Ahead
      <4> QED BY <4>1, <4>2
    <3>2. Leads(Client, wire \o first, Reading(b)) BY <1>2, <3>1, LeadsFurther
    <3>3. PICK c : /\ Leads(Client, (wire \o first) \o ThinkingStop \o TextStop \o ToolStops, Reading(c))
                   /\ Ends(b, nextBlockIndex, read, c)
      BY <1>2, <1>5, <3>2, ClosingLeads
    <3>4. "reading" \in Unended BY DEF Unended
    <3> QED BY <3>3, <3>4 DEF Reading
  <2>2. CASE ~(startedMessage \/ api = "responses")
    <3>1. nextBlockIndex = 0 /\ first = <<>> BY <2>2 DEF SInv, Sane, first
    <3>2. ThinkingStop = <<>> /\ TextStop = <<>> /\ ToolStops = <<>> BY <3>1, NothingToClose
    <3>3. Will(b) = [phase |-> "waiting", blocks |-> b, told |-> None]
      BY <1>1, <2>2 DEF Will
    <3>4. wire \o first \o ThinkingStop \o TextStop \o ToolStops = wire
      <4>1. PICK S : wire \in Seq(S) BY <1>2 DEF Leads
      <4> QED BY <3>1, <3>2, <4>1
    <3>5. Ends(b, nextBlockIndex, read, b)
      BY <1>2, <3>1 DEF Ends, Ahead
    <3>6. "waiting" \in Unended BY DEF Unended
    <3> QED BY <1>2, <3>3, <3>4, <3>5, <3>6
  <2> QED BY <2>1, <2>2
<1>9. /\ Whole(c, nextBlockIndex, read) /\ Ordered(c)
      /\ \A i \in 0 .. nextBlockIndex - 1 :
           c[i].kind = b[i].kind /\ c[i].pieces = b[i].pieces /\ ~c[i].open
  BY <1>8 DEF Ends
<1>10. Ahead(c)'
  <2>1. \A kind \in Kinds : Sent(kind)' = Sent(kind) BY <1>1 DEF Sent
  <2>2. read' \in Nat /\ read <= read' BY <1>1, <1>5
  <2>3. \A i \in 0 .. nextBlockIndex - 1 :
          c[i].kind = b[i].kind /\ c[i].pieces = b[i].pieces /\ (c[i].open <=> i \in OpenIndexes')
    BY <1>4, <1>9
  <2>4. \A call \in Calls : toolCalls'[call].index = toolCalls[call].index BY <1>4
  <2> QED BY <1>1, <1>2, <1>5, <1>9, <2>1, <2>2, <2>3, <2>4, ShutAhead
<1>11. PICK done : done = [phase |-> "done", blocks |-> c, told |-> last] OBVIOUS
<1>12. Leads(Client, wire', done)
  <2>1. \A i \in DOMAIN c : ~c[i].open
    <3>1. DOMAIN c = 0 .. nextBlockIndex - 1 BY <1>5, <1>9, WholeDomain
    <3> QED BY <1>9, <3>1
  <2>2. Leads([phase |-> start, blocks |-> c, told |-> None], <<last, Over>>, done)
    <3>1. PICK reason, usage, text :
            reason = StopReasonOf(stopReason) /\ usage = finalUsage /\ text = answerText
      OBVIOUS
    <3>2. last = Ending(reason, usage, text) BY <3>1 DEF last
    <3>3. start \in Unended BY <1>8
    <3>4. Leads([phase |-> start, blocks |-> c, told |-> None],
                <<Ending(reason, usage, text), Over>>,
                [phase |-> "done", blocks |-> c, told |-> Ending(reason, usage, text)])
      BY ONLY <1>9, <2>1, <3>3, EndLeads
    <3> QED BY <1>11, <3>2, <3>4
  <2>3. Leads(Client, (wire \o first \o ThinkingStop \o TextStop \o ToolStops) \o <<last, Over>>, done)
    BY <1>8, <2>2, LeadsFurther
  <2> QED BY <1>1, <2>3
<1>13. Will(c)' = done
  <2>1. /\ Will(c)'.phase = "done" /\ Will(c)'.blocks = c
        /\ Will(c)' = [phase |-> "done", blocks |-> c,
                       told |-> Ending(StopReasonOf(stopReason'), finalUsage', answerText')]
    BY <1>1 DEF Will
  <2> QED BY <1>1, <1>11, <2>1 DEF last
<1>14. Leads(Client', wire', Will(c)') BY <1>3, <1>12, <1>13
<1> QED BY <1>3, <1>6, <1>7, <1>10, <1>14, OnItsWay

\* What is received is the first of what the client is led by.
LEMMA ReceiveStep ==
  ASSUME IInv, SInv, Receive
  PROVE  SInv' /\ Allowed(Client, Client')
<1>. DEFINE e == Head(wire)
<1>1. /\ todo = <<>> /\ wire # <<>> /\ wire' = Tail(wire)
      /\ BlockStarts(e) \/ BlockGrows(e) \/ BlockStops(e) \/ MessageMoves(e)
      /\ UNCHANGED <<api, source, read, todo, startedMessage, thinkingIndex, textIndex, toolCalls,
                     nextBlockIndex, answerText, stopReason, finalUsage, endedMessage,
                     captured, given>>
  BY DEF Receive, converter
<1>2. PICK b : Leads(Client, wire, Will(b)) /\ Ahead(b) BY <1>1, Live
<1>3. phase # "cut" BY <1>1, Live
<1>. HIDE DEF e
<1>4. Client' = Heard(Client, e)
  <2>1. CASE BlockStarts(e)
    <3>1. e.type = "content_block_start" /\ phase' = phase /\ told' = told
          /\ blocks' = Opened(blocks, e.index, e.kind)
      BY <2>1 DEF BlockStarts, Opened
    <3> QED BY <3>1 DEF Client, Heard
  <2>2. CASE BlockGrows(e)
    <3>1. e.type = "content_block_delta" /\ phase' = phase /\ told' = told
          /\ blocks' = IF IsOpen(blocks, e.index) THEN Grown(blocks, e.index, e.piece) ELSE blocks
      BY <2>2 DEF BlockGrows, Hears, IsOpen, Grown
    <3> QED BY <3>1 DEF Client, Heard
  <2>3. CASE BlockStops(e)
    <3>1. e.type = "content_block_stop" /\ phase' = phase /\ told' = told
          /\ blocks' = IF IsOpen(blocks, e.index) THEN Shut(blocks, e.index) ELSE blocks
      BY <2>3 DEF BlockStops, Hears, IsOpen, Shut
    <3> QED BY <3>1 DEF Client, Heard
  <2>4. CASE MessageMoves(e)
    <3>1. CASE e = Begun /\ phase' = "reading" /\ UNCHANGED <<blocks, told>>
      <4>1. e.type = "message_start" BY <3>1 DEF Begun
      <4> QED BY <3>1, <4>1 DEF Client, Heard
    <3>2. CASE e.type = "message_delta" /\ phase' = "told" /\ told' = e /\ UNCHANGED blocks
      BY <3>2 DEF Client, Heard
    <3>3. CASE e = Over /\ phase' = "done" /\ UNCHANGED <<blocks, told>>
      <4>1. e.type = "message_stop" BY <3>3 DEF Over
      <4> QED BY <3>3, <4>1 DEF Client, Heard
    <3> QED BY <2>4, <3>1, <3>2, <3>3 DEF MessageMoves
  <2> QED BY <1>1, <2>1, <2>2, <2>3, <2>4
<1>5. Leads(Client', wire', Will(b)) /\ Allowed(Client, Client')
  BY <1>1, <1>2, <1>4, LeadsAfterOne DEF e
<1>6. phase' # "cut"
  BY <1>1, <1>3 DEF BlockStarts, BlockGrows, BlockStops, MessageMoves
<1>7. Will(b)' = Will(b) BY <1>1, SameWill
<1>8. Sane' BY <1>1 DEF SInv, Sane, OpenCalls
<1>9. Says'
  <2>1. PICK g : g = <<"thinking", Here>> OBVIOUS
  <2>2. g[1] \in Kinds BY <2>1 DEF Kinds
  <2> QED BY <1>1, <2>2, SaysAsBefore DEF SInv
<1>10. Ahead(b)'
  <2>1. \A kind \in Kinds : Sent(kind)' = Sent(kind) BY <1>1 DEF Sent
  <2>2. read \in Nat /\ read' \in Nat /\ read <= read' /\ TypeOK BY <1>1 DEF IInv, SInv, Sane
  <2> QED BY <1>1, <1>2, <2>1, <2>2, SameAhead
<1>11. Leads(Client', wire', Will(b)') BY <1>5, <1>7
<1>12. SInv' BY <1>6, <1>8, <1>9, <1>10, <1>11, OnItsWay
<1> QED BY <1>5, <1>12

\* Where the client is on its way.
LEMMA LeadsFrom ==
  ASSUME NEW r, NEW w, NEW s, Leads(r, w, s)
  PROVE  Good(r) /\ Settled(r, s)
<1>1. PICK S : w \in Seq(S) BY DEF Leads
<1>2. 0 \in 0 .. Len(w) BY <1>1
<1> QED BY <1>2 DEF Leads

LEMMA CutStep ==
  ASSUME IInv, SInv, Cut
  PROVE  SInv' /\ phase \in Unended
<1>1. /\ source = "broken" /\ phase # "cut" /\ phase' = "cut" /\ wire' = <<>>
      /\ UNCHANGED <<api, source, read, todo, startedMessage, thinkingIndex, textIndex, toolCalls,
                     nextBlockIndex, answerText, stopReason, finalUsage, endedMessage,
                     captured, blocks, told, given>>
  BY DEF Cut, converter
<1>2. PICK b : Leads(Client, wire, Will(b)) /\ Ahead(b) BY <1>1 DEF SInv
<1>3. Good(Client) /\ Settled(Client, Will(b)) BY <1>2, LeadsFrom
<1>4. ~endedMessage BY <1>1 DEF SInv, Sane
<1>5. Will(b).phase \in Unended BY <1>4 DEF Will, Unended
<1>6. phase \in Unended /\ told = None /\ Ordered(blocks)
  BY <1>3, <1>5 DEF Settled, Good, Client
<1>7. Sane' BY <1>1 DEF SInv, Sane, OpenCalls
<1>8. Says'
  <2>1. PICK g : g = <<"thinking", Here>> OBVIOUS
  <2>2. g[1] \in Kinds BY <2>1 DEF Kinds
  <2> QED BY <1>1, <2>2, SaysAsBefore DEF SInv
<1>9. CutOff' BY <1>1, <1>6 DEF CutOff
<1>10. SInv' BY <1>1, <1>7, <1>8, <1>9 DEF SInv
<1> QED BY <1>6, <1>10

LEMMA InitSays == Init => SInv
<1>. SUFFICES ASSUME Init PROVE SInv
  OBVIOUS
<1>. DEFINE b == [i \in {} |-> i]
<1>1. /\ read = 0 /\ todo = <<>> /\ nextBlockIndex = 0 /\ ~startedMessage /\ ~endedMessage
      /\ thinkingIndex = None /\ textIndex = None /\ OpenCalls = {}
      /\ source = "open" /\ wire = <<>> /\ phase = "waiting" /\ blocks = b /\ told = None
      /\ given = {} /\ answerText = <<>> /\ stopReason = None /\ finalUsage = None
      /\ \A c \in Calls : toolCalls[c].index = None
  BY DEF Init, OpenCalls
<1>2. \A kind : Given(kind) = {} BY <1>1 DEF Given
<1>3. Sane BY <1>1, EmptySeq, BoundAssumption DEF Sane
<1>4. Says BY <1>1, <1>2 DEF Says, UsageTaken
<1>5. DOMAIN b = {} /\ 0 .. 0 - 1 = {} /\ b = [i \in 0 .. 0 - 1 |-> b[i]] OBVIOUS
<1>. HIDE DEF b
<1>6. Whole(b, 0, 0) /\ Ordered(b) BY <1>5 DEF Whole, Ordered
<1>7. \A kind : PiecesOf(b, kind) = {} BY <1>5 DEF PiecesOf
<1>8. Ahead(b)
  <2>1. \A c : Arguments(c) = {} BY <1>1 DEF Arguments
  <2>2. AllOf(b) BY <1>2, <1>7, <2>1 DEF AllOf
  <2> QED BY <1>1, <1>5, <1>6, <2>2 DEF Ahead
<1>9. Client = Will(b) BY <1>1 DEF Client, Will
<1>10. Good(Will(b)) BY <1>1, <1>6 DEF Will, Good, Unended
<1>11. Leads(Client, wire, Will(b)) BY <1>1, <1>9, <1>10, LeadsNowhere
<1> QED BY <1>1, <1>3, <1>4, <1>8, <1>11 DEF SInv

\* Each action leaves it true, and is a step of the client's that is allowed.
LEMMA StepsAllowed ==
  ASSUME IInv, SInv, StoppedByText, [Next]_vars
  PROVE  /\ SInv'
         /\ \/ UNCHANGED <<phase, blocks>>
            \/ Allowed(Client, Client')
            \/ phase \in Unended /\ phase' = "cut" /\ blocks' = blocks
<1>1. ASSUME NEW p \in Payloads, Read(p) PROVE SInv' /\ UNCHANGED <<phase, blocks>>
  BY <1>1, ReadStep DEF Read, client
<1>2. ASSUME Transform PROVE SInv' /\ UNCHANGED <<phase, blocks>>
  <2>1. UNCHANGED <<phase, blocks>>
    BY <1>2 DEF Transform, DropReasoning, Reasoning, Content, Tools, Fragment, SkipFragment,
                FinishReason, UsageOnly, UsageBeside, Meets, client
  <2>2. SInv'
    BY <1>2, SkippedStep, ReasoningStep, ContentStep, ToolsStep, FragmentStep, FinishStep, UsageStep
      DEF Transform
  <2> QED BY <2>1, <2>2
<1>3. ASSUME Close \/ Break PROVE SInv' /\ UNCHANGED <<phase, blocks>>
  <2>1. UNCHANGED <<phase, blocks>> BY <1>3 DEF Close, Break, client
  <2> QED BY <1>3, <2>1, EndStep
<1>4. ASSUME Finalize PROVE SInv' /\ UNCHANGED <<phase, blocks>>
  <2>1. UNCHANGED <<phase, blocks>> BY <1>4 DEF Finalize, client
  <2> QED BY <1>4, <2>1, FinalizeStep
<1>5. CASE Receive BY <1>5, ReceiveStep
<1>6. CASE Cut
  <2>1. phase' = "cut" /\ blocks' = blocks BY <1>6 DEF Cut
  <2> QED BY <1>6, <2>1, CutStep
<1>7. CASE UNCHANGED vars
  <2>1. /\ UNCHANGED <<api, source, read, todo, startedMessage, thinkingIndex, textIndex, toolCalls,
                       nextBlockIndex, answerText, stopReason, finalUsage, endedMessage,
                       wire, captured, phase, blocks, told, given>>
    BY <1>7 DEF vars, converter, client
  <2>2. \A kind \in Kinds : Sent(kind)' = Sent(kind) BY <2>1 DEF Sent
  <2>3. Sane' BY <2>1 DEF SInv, Sane, OpenCalls
  <2>4. Says'
    <3>1. PICK g : g = <<"thinking", Here>> OBVIOUS
    <3>2. g[1] \in Kinds BY <3>1 DEF Kinds
    <3> QED BY <2>1, <3>2, SaysAsBefore DEF SInv
  <2>5. CASE phase = "cut"
    <3>1. CutOff' BY <2>1, <2>5 DEF SInv, CutOff
    <3> QED BY <2>1, <2>3, <2>4, <2>5, <3>1 DEF SInv
  <2>6. CASE phase # "cut"
    <3>1. PICK b : Leads(Client, wire, Will(b)) /\ Ahead(b) BY <2>6 DEF SInv
    <3>2. read \in Nat /\ read' \in Nat /\ read <= read' /\ TypeOK BY <2>1 DEF IInv, SInv, Sane
    <3>3. Ahead(b)' BY <2>1, <2>2, <3>1, <3>2, SameAhead
    <3>4. Will(b)' = Will(b) BY <2>1, SameWill
    <3>5. Client' = Client BY <2>1 DEF Client
    <3>6. Leads(Client', wire', Will(b)') BY <2>1, <3>1, <3>4, <3>5
    <3>7. phase' # "cut" BY <2>1, <2>6
    <3>8. SInv' BY <2>3, <2>4, <3>3, <3>6, <3>7, OnItsWay
    <3> QED BY <2>1, <3>8
  <2> QED BY <2>5, <2>6
<1> QED BY <1>1, <1>2, <1>3, <1>4, <1>5, <1>6, <1>7 DEF Next

\* A step that sends nothing of text or calls and opens or stops none.
LEMMA NothingStopped ==
  ASSUME StoppedByText, UNCHANGED <<toolCalls, endedMessage>>,
         \A kind \in Calls \cup {"text"} : Sent(kind)' = Sent(kind)
  PROVE  StoppedByText'
<1>1. \A kind : Given(kind) = {g[2] : g \in Sent(kind)} BY DEF Given, Sent
<1>2. \A kind : Given(kind)' = {g[2] : g \in Sent(kind)'} BY DEF Given, Sent
<1>3. \A kind \in Calls \cup {"text"} : Given(kind)' = Given(kind) BY <1>1, <1>2
<1> QED BY <1>3 DEF StoppedByText, BehindText

\* What stops a call's block is text: the arrays of tool calls stop other blocks,
\* and late reasoning is dropped.
LEMMA TextStops ==
  ASSUME IInv, SInv, StoppedByText, [Next]_vars
  PROVE  StoppedByText'
<1>. USE DEF IInv, TypeOK
<1>1. CASE Content
  <2>1. PICK g : g = <<"text", Here>> OBVIOUS
  <2>2. g[1] = "text" /\ g[2] = Here /\ given' = given \cup {g} BY <1>1, <2>1 DEF Content
  <2>3. \A kind : Given(kind)' = Given(kind) \cup IF g[1] = kind THEN {g[2]} ELSE {}
    BY ONLY <2>2, GivenGrows
  <2>4. \A c \in Calls : Given(c)' = Given(c) BY <2>2, <2>3, CallsAssumption
  <2>5. \A c \in Calls : \A f \in Given(c) : f < Here
    <3>1. \A c : \A f \in Given(c) : f \in 1 .. read BY DEF Given, SInv, Sane
    <3>2. read \in Nat BY DEF SInv, Sane
    <3> QED BY <3>1, <3>2 DEF Here
  <2>6. Here \in Given("text")' BY <2>2, <2>3
  <2> QED BY <2>4, <2>5, <2>6 DEF StoppedByText, BehindText
<1>2. CASE Fragment
  <2>1. PICK call, args : call = Head(todo).call /\ args = Head(todo).args OBVIOUS
  <2>2. /\ given' = given \cup {<<call, Here, args>>} /\ endedMessage' = endedMessage
        /\ toolCalls' = [toolCalls EXCEPT
                           ![call] = [index |-> BlockOf(toolCalls[call].index), opened |-> TRUE]]
    BY <1>2, <2>1 DEF Fragment, Meets
  <2>3. PICK g : g = <<call, Here, args>> OBVIOUS
  <2>4. g[1] = call /\ given' = given \cup {g} BY <2>2, <2>3
  <2>5. \A kind : kind # call => Given(kind)' = Given(kind) BY <2>4 DEF Given
  <2>6. call \in Calls
    <3>1. todo # <<>> /\ Head(todo).kind = "call" BY <1>2 DEF Fragment, Meets
    <3>2. Head(todo) \in Part BY <3>1
    <3> QED BY <2>1, <3>1, <3>2 DEF Part
  <2>7. Given("text")' = Given("text") BY <2>5, <2>6, CallsAssumption
  <2>8. \A c \in Calls : c # call => Given(c)' = Given(c) /\ toolCalls'[c] = toolCalls[c]
    BY <2>2, <2>5
  <2>9. toolCalls'[call].opened BY <2>2, <2>6
  <2> QED BY <2>2, <2>7, <2>8, <2>9 DEF StoppedByText, BehindText
<1>3. CASE Finalize BY <1>3 DEF Finalize, StoppedByText
<1>4. CASE UNCHANGED <<toolCalls, endedMessage, given>>
  <2>1. \A kind : Sent(kind)' = Sent(kind) BY <1>4 DEF Sent
  <2> QED BY <1>4, <2>1, NothingStopped
<1>5. ASSUME NEW kind \in {"thinking", "usage", "usage beside"},
             given' = given \cup {<<kind, Here>>}, UNCHANGED <<toolCalls, endedMessage>>
      PROVE  StoppedByText'
  <2>1. PICK g : g = <<kind, Here>> OBVIOUS
  <2>2. g[1] = kind /\ given' = given \cup {g} BY <1>5, <2>1
  <2>3. kind \notin Calls \cup {"text"} BY CallsAssumption
  <2>4. \A other \in Calls \cup {"text"} : Sent(other)' = Sent(other) BY <2>2, <2>3 DEF Sent
  <2> QED BY <1>5, <2>4, NothingStopped
<1>6. CASE FinishReason
  <2>1. PICK f, u : f = <<"finish", Here, Head(todo).reason>> /\ u = <<"usage with finish", Here>>
    OBVIOUS
  <2>2. f[1] = "finish" /\ u[1] = "usage with finish" BY <2>1
  <2>3. given' = given \cup {f} \cup IF Head(todo).usage THEN {u} ELSE {}
    BY <1>6, <2>1 DEF FinishReason
  <2>4. UNCHANGED <<toolCalls, endedMessage>> BY <1>6 DEF FinishReason, Meets
  <2>5. \A other \in Calls \cup {"text"} : other # "finish" /\ other # "usage with finish"
    BY CallsAssumption
  <2>6. \A other \in Calls \cup {"text"} : Sent(other)' = Sent(other)
    BY <2>2, <2>3, <2>5 DEF Sent
  <2> QED BY <2>4, <2>6, NothingStopped
<1>7. CASE Reasoning BY <1>5, <1>7 DEF Reasoning, Meets
<1>8. CASE UsageOnly BY <1>5, <1>8 DEF UsageOnly, Meets
<1>9. CASE UsageBeside BY <1>5, <1>9 DEF UsageBeside, Meets
<1>10. \/ Content \/ Fragment \/ Finalize \/ FinishReason
       \/ Reasoning \/ UsageOnly \/ UsageBeside
       \/ UNCHANGED <<toolCalls, endedMessage, given>>
  <2>1. CASE Transform
    BY <2>1 DEF Transform, DropReasoning, Tools, SkipFragment, Meets
  <2>2. CASE (\E p \in Payloads : Read(p)) \/ Close \/ Break \/ Receive \/ Cut \/ UNCHANGED vars
    BY <2>2 DEF Read, Close, Break, Receive, Cut, vars, converter
  <2> QED BY <2>1, <2>2 DEF Next
<1> QED BY <1>1, <1>2, <1>3, <1>4, <1>6, <1>7, <1>8, <1>9, <1>10

LEMMA Held == Spec => [](IInv /\ SInv /\ StoppedByText)
<1>1. Init => IInv /\ SInv /\ StoppedByText
  <2>1. Init => StoppedByText BY DEF Init, StoppedByText, BehindText, Given
  <2> QED BY <2>1, InitInv, InitSays
<1>2. IInv /\ SInv /\ StoppedByText /\ [Next]_vars => IInv' /\ SInv' /\ StoppedByText'
  BY Inductive, StepsAllowed, TextStops
<1> QED BY <1>1, <1>2, PTL DEF Spec

\* The client that has been told the end has the blocks and the end that the
\* converter wrote.
LEMMA ToldAll ==
  ASSUME SInv, phase \notin Unended, phase # "cut"
  PROVE  /\ Ahead(blocks) /\ endedMessage
         /\ told = Ending(StopReasonOf(stopReason), finalUsage, answerText)
<1>1. PICK b : Leads(Client, wire, Will(b)) /\ Ahead(b) BY DEF SInv
<1>2. Settled(Client, Will(b)) BY <1>1, LeadsFrom
<1>3. blocks = b /\ told = Will(b).told /\ Will(b).phase \notin Unended
  BY <1>2 DEF Settled, Client, Will
<1>4. endedMessage BY <1>3 DEF Will, Unended
<1> QED BY <1>1, <1>3, <1>4 DEF Will

-------------------------------------------------------------------------------
(* The theorems *)

\* A client that has read to the end has every piece of text, and every piece of
\* each call's arguments unless text parted the call, in a block of that kind, and
\* nothing that was not sent: what the converters write, a client hears that takes
\* a block started again for a new one (createMessagesStreamTransformer,
\* createResponsesStreamTransformer).
THEOREM NothingElseLost == Spec => []OnlyPartedCallsLose
<1>1. SInv => OnlyPartedCallsLose
  <2>. SUFFICES ASSUME SInv, phase = "done" PROVE OnlyPartedCallsLose
    BY DEF OnlyPartedCallsLose
  <2>1. AllOf(blocks) BY ToldAll DEF Unended, Ahead
  <2>2. \A kind : Told(kind) = PiecesOf(blocks, kind) BY DEF PiecesOf, Told
  <2> QED BY <2>1, <2>2 DEF OnlyPartedCallsLose, AllOf
<1> QED BY Held, <1>1, PTL

\* What the client has is in the order the provider wrote it, within a block and,
\* but for tool calls, from block to block (closeThinkingBlock, closeTextBlock,
\* closeOpenToolCalls come before what opens the next block).
THEOREM KeptInOrder == Spec => []InOrder
<1>1. SInv => InOrder
  <2>. SUFFICES ASSUME SInv PROVE InOrder
    OBVIOUS
  <2>1. Ordered(blocks)
    <3>1. CASE phase = "cut" BY <3>1 DEF SInv, CutOff
    <3>2. CASE phase # "cut"
      <4>1. PICK b : Leads(Client, wire, Will(b)) BY <3>2 DEF SInv
      <4>2. Good(Client) BY <4>1, LeadsFrom
      <4> QED BY <4>2 DEF Good, Client
    <3> QED BY <3>1, <3>2
  <2> QED BY <2>1 DEF Ordered, Increasing, InOrder, ToSet
<1> QED BY Held, <1>1, PTL

\* The end tells what the provider said last, and what is recorded is what was
\* told (finalize, and the usage pipeStream captures).
THEOREM EndTold == Spec => []EndTellsAll
<1>1. SInv => EndTellsAll
  <2>. SUFFICES ASSUME SInv, told # None PROVE EndTellsAll
    BY DEF EndTellsAll
  <2>1. phase # "cut" BY DEF SInv, CutOff
  <2>2. phase \notin Unended
    <3>1. PICK b : Leads(Client, wire, Will(b)) BY <2>1 DEF SInv
    <3>2. Good(Client) BY <3>1, LeadsFrom
    <3> QED BY <3>2 DEF Good, Client
  <2>3. /\ Ahead(blocks) /\ endedMessage
        /\ told = Ending(StopReasonOf(stopReason), finalUsage, answerText)
    BY <2>1, <2>2, ToldAll
  <2>4. /\ told.usage = finalUsage /\ told.text = answerText
        /\ told.reason = StopReasonOf(stopReason)
    BY <2>3 DEF Ending
  <2>5. captured = finalUsage BY <2>3 DEF SInv, Sane
  <2>6. IF UsageTaken = {} THEN told.usage = None
        ELSE /\ told.usage \in UsageTaken
             /\ \A n \in IF api = "responses" THEN UsageTaken ELSE Given("usage") : n <= told.usage
    BY <2>4 DEF SInv, Says
  <2>7. api = "messages" =>
          told.reason \in IF LastReason = {} THEN {"end_turn"}
                          ELSE {StopReasonOf(r) : r \in LastReason}
    <3>1. CASE stopReason = None /\ api = "messages"
      <4>1. Given("finish") = {} BY <3>1 DEF SInv, Says
      <4>2. LastReason = {}
        <5>1. \A g \in given : g[1] # "finish" BY <4>1 DEF Given
        <5> QED BY <5>1 DEF LastReason
      <4>3. StopReasonOf(None) = "end_turn"
        <5>1. None # "length" /\ None # "tool_calls" BY NoneAssumption DEF Reasons
        <5> QED BY <5>1 DEF StopReasonOf
      <4> QED BY <2>4, <3>1, <4>2, <4>3
    <3>2. CASE stopReason # None /\ api = "messages"
      <4>1. stopReason \in LastReason BY <3>2 DEF SInv, Says
      <4> QED BY <2>4, <4>1
    <3> QED BY <3>1, <3>2
  <2>8. api = "responses" => \A i \in DOMAIN blocks : told.text = blocks[i].pieces
    BY <2>3, <2>4 DEF Ahead
  <2> QED BY <2>4, <2>5, <2>6, <2>7, <2>8 DEF EndTellsAll
<1> QED BY Held, <1>1, PTL

\* Every step is, for the client, a step of StreamedAnswer or none.
LEMMA StepsOfAnswer ==
  IInv /\ SInv /\ StoppedByText /\ [Next]_vars => [Answer!Next]_(Answer!vars)
<1>. SUFFICES ASSUME IInv, SInv, StoppedByText, [Next]_vars PROVE [Answer!Next]_(Answer!vars)
  OBVIOUS
<1>1. CASE UNCHANGED <<phase, blocks>> BY <1>1 DEF Answer!vars
<1>2. CASE phase \in Unended /\ phase' = "cut" /\ blocks' = blocks
  BY <1>2 DEF Unended, Answer!Next, Answer!Cut
<1>3. CASE Moves(Client, Client') /\ Client'.blocks = Client.blocks
  <2>1. blocks' = blocks BY <1>3 DEF Client
  <2>2. \/ phase = "waiting" /\ phase' = "reading"
        \/ /\ phase \in {"waiting", "reading"} /\ phase' = "told"
           /\ \A i \in DOMAIN blocks : ~blocks[i].open
        \/ phase = "told" /\ phase' = "done"
    BY <1>3 DEF Client, Moves
  <2>3. CASE phase = "waiting" /\ phase' = "reading"
    BY <2>1, <2>3 DEF Answer!Next, Answer!Begin
  <2>4. CASE /\ phase \in {"waiting", "reading"} /\ phase' = "told"
             /\ \A i \in DOMAIN blocks : ~blocks[i].open
    BY <2>1, <2>4 DEF Answer!Next, Answer!Conclude, Answer!OpenBlocks
  <2>5. CASE phase = "told" /\ phase' = "done"
    BY <2>1, <2>5 DEF Answer!Next, Answer!Finish
  <2> QED BY <2>2, <2>3, <2>4, <2>5
<1>4. CASE Client.phase = "reading" /\ Client'.phase = "reading" /\ Changes(Client.blocks, Client'.blocks)
  <2>1. phase = "reading" /\ phase' = "reading" /\ Changes(blocks, blocks') BY <1>4 DEF Client
  <2>2. CASE \E k \in Kinds :
               /\ \A i \in DOMAIN blocks : blocks[i].open => {k, blocks[i].kind} \subseteq Calls
               /\ LET next == Cardinality(DOMAIN blocks)
                  IN blocks' = [i \in DOMAIN blocks \cup {next} |->
                                  IF i = next THEN [kind |-> k, open |-> TRUE, pieces |-> <<>>]
                                  ELSE blocks[i]]
    <3>1. Cardinality(DOMAIN blocks) = Answer!Cardinality(DOMAIN blocks)
      BY DEF Cardinality, Answer!Cardinality
    <3> QED
      BY <2>1, <2>2, <3>1
        DEF Kinds, Answer!Next, Answer!StartBlock, Answer!OpenBlocks, Answer!Alone
  <2>3. CASE \E i \in DOMAIN blocks :
               /\ blocks[i].kind \in Calls /\ ~blocks[i].open
               /\ \A j \in DOMAIN blocks : blocks[j].open => blocks[j].kind \in Calls
               /\ blocks' = [blocks EXCEPT ![i].open = TRUE, ![i].pieces = <<>>]
    BY <2>1, <2>3 DEF Answer!Next, Answer!RestartCall, Answer!OpenBlocks
  <2>4. CASE \E i \in DOMAIN blocks : blocks[i].open /\ blocks' = Shut(blocks, i)
    BY <2>1, <2>4 DEF Answer!Next, Answer!StopBlock, Shut
  <2>5. CASE \E i \in DOMAIN blocks :
               blocks[i].open /\ \E p \in 1 .. MaxParts : blocks' = Grown(blocks, i, p)
    BY <2>1, <2>5 DEF Answer!Next, Answer!Add, Grown
  <2> QED BY <2>1, <2>2, <2>3, <2>4, <2>5 DEF Changes
<1> QED BY <1>1, <1>2, <1>3, <1>4, StepsAllowed DEF Allowed

\* What the client reads is a streamed answer: it begins, grows block by block and
\* ends, or is cut, wherever the provider's stream ends or breaks
\* (handleStreamResponse, pipeStream and both converters).
THEOREM AnswerImplemented == Spec => ImplementsAnswer
<1>1. Init => Answer!Init BY DEF Init, Answer!Init
<1> QED BY Held, <1>1, StepsOfAnswer, PTL DEF Spec, ImplementsAnswer, Answer!Spec

-------------------------------------------------------------------------------
(* Why clients are answered.  A stream that has ended has its end to be        *)
(* written, and then so many events to be received; nothing adds to them.      *)

\* The client is done when, and only when, nothing of the end is left.
EndIsAll == source = "closed" => (phase = "done" <=> endedMessage /\ wire = <<>>)

\* A step of a stream that has ended writes the end, once, or takes an event
\* off the wire.
EndComesNearer ==
  source = "closed" =>
    /\ source' = "closed"
    /\ \/ ~endedMessage /\ endedMessage'
       \/ endedMessage' = endedMessage /\ Len(wire) \in Nat /\ Len(wire') < Len(wire)

LEMMA NoneAfterTheEnd ==
  ASSUME NEW s, NEW t, s.phase = "done"
  PROVE  ~Allowed(s, t)
  BY DEF Allowed, Moves

LEMMA WireToTheEnd ==
  ASSUME SInv
  PROVE  EndIsAll
<1>. SUFFICES ASSUME source = "closed"
              PROVE  phase = "done" <=> endedMessage /\ wire = <<>>
  BY DEF EndIsAll
<1>1. PICK b : Leads(Client, wire, Will(b)) /\ Ahead(b) BY DEF SInv, CutOff
<1>2. PICK S, h : /\ wire \in Seq(S)
                  /\ h[0] = Client /\ h[Len(wire)] = Will(b)
                  /\ Follows(h, wire)
  BY <1>1 DEF Leads
<1>3. ASSUME phase = "done" PROVE endedMessage /\ wire = <<>>
  <2>1. endedMessage BY <1>3, ToldAll DEF Unended
  <2>2. CASE wire # <<>>
    <3>1. 1 \in 1 .. Len(wire) BY <1>2, <2>2, EmptySeq, LenProperties
    <3>2. Allowed(h[0], h[1]) BY <1>2, <3>1 DEF Follows
    <3>3. h[0].phase = "done" BY <1>2, <1>3 DEF Client
    <3> QED BY <3>2, <3>3, NoneAfterTheEnd
  <2> QED BY <2>1, <2>2
<1>4. ASSUME endedMessage, wire = <<>> PROVE phase = "done"
  <2>1. Client = Will(b) BY <1>2, <1>4, EmptySeq
  <2> QED BY <2>1, <1>4 DEF Client, Will
<1> QED BY <1>3, <1>4

LEMMA StepsAtTheEnd ==
  ASSUME SInv, Next
  PROVE  EndComesNearer
<1>. SUFFICES ASSUME source = "closed"
              PROVE  /\ source' = "closed"
                     /\ \/ ~endedMessage /\ endedMessage'
                        \/ endedMessage' = endedMessage /\ Len(wire) \in Nat
                           /\ Len(wire') < Len(wire)
  BY DEF EndComesNearer
<1>1. todo = <<>> BY DEF SInv, Sane
<1>2. Finalize \/ Receive
  <2>1. ~Transform
    BY <1>1 DEF Transform, DropReasoning, Reasoning, Content, Tools, Fragment, SkipFragment,
       FinishReason, UsageOnly, UsageBeside, Meets
  <2> QED BY <2>1 DEF Next, Read, Close, Break, Cut
<1>3. CASE Finalize BY <1>3 DEF Finalize
<1>4. CASE Receive
  <2>1. wire # <<>> /\ wire' = Tail(wire) /\ endedMessage' = endedMessage /\ source' = source
    BY <1>4 DEF Receive, converter
  <2>2. PICK b : Leads(Client, wire, Will(b)) BY DEF SInv, CutOff
  <2>3. PICK S : wire \in Seq(S) BY <2>2 DEF Leads
  <2>4. Len(wire) \in Nat /\ Len(wire') = Len(wire) - 1
    BY <2>1, <2>3, LenProperties, HeadTailProperties
  <2> QED BY <2>1, <2>4
<1> QED BY <1>2, <1>3, <1>4

\* Once the provider's stream has ended, each step of pipeStream or the client
\* brings the end nearer, and where no step is left the client has read it: what
\* ClientsAreAnswered needs, but for the fairness, for any number of parts.
THEOREM ClientsComeNearer == Spec => []EndIsAll /\ [][EndComesNearer]_vars
<1>1. SInv => EndIsAll BY WireToTheEnd
<1>2. SInv /\ [Next]_vars => [EndComesNearer]_vars BY StepsAtTheEnd
<1> QED BY Held, <1>1, <1>2, PTL DEF Spec
===============================================================================
