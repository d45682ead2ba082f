---------------------------- MODULE MessagesStream ----------------------------
(***************************************************************************)
(* An answer a provider streams as chat-completion chunks, on its way to a *)
(* client that speaks another API: handleStreamResponse picks a converter, *)
(* pipeStream drives it, and the client reads what it wrote.               *)
(*                                                                         *)
(*   messages   createMessagesStreamTransformer: the blocks of an          *)
(*              Anthropic message, reasoning, text and tool calls;         *)
(*   responses  createResponsesStreamTransformer: one item of text, which  *)
(*              is block 0 here.                                           *)
(*                                                                         *)
(* A chunk's payload is the sequence of the parts the converter looks at,  *)
(* in the order it does; each part is a step.  Pieces of reasoning, text   *)
(* and arguments, and what is said of usage and the end, are known by the  *)
(* number of the part they came in.                                        *)
(* Comments, [DONE] and what cannot be parsed change nothing and are left  *)
(* out.                                                                    *)
(***************************************************************************)
EXTENDS Naturals, FiniteSets, Sequences, SequencesExt

CONSTANTS Apis,       \* the APIs to look at: messages, responses
          Calls,      \* the indexes of the provider's tool calls
          Payloads,   \* the payloads a chunk may have
          MaxParts,   \* bound: parts, in however many chunks
          None

Reasons == {"stop", "length", "tool_calls", "content_filter"}

\* Usage comes alone, with a finish reason, or beside a choice that goes on.
Part == [kind : {"reasoning", "content", "tools", "usage", "usage beside"}]
          \cup [kind : {"call"}, call : Calls, args : BOOLEAN]
          \cup [kind : {"finish"}, reason : Reasons, usage : BOOLEAN]

\* The fragments of tool calls are in an array of theirs.
InArray(parts, j) == j > 1 /\ parts[j - 1].kind \in {"tools", "call"}

ASSUME ApisAssumption == Apis \subseteq {"messages", "responses"}
ASSUME PayloadsAssumption ==
  /\ Payloads \subseteq Seq(Part)
  /\ \A p \in Payloads : \A j \in DOMAIN p : p[j].kind = "call" => InArray(p, j)
ASSUME NoneAssumption == None \notin Nat \cup Reasons
ASSUME CallsAssumption ==
  Calls \cap {"thinking", "text", "finish", "usage", "usage beside", "usage with finish"} = {}
ASSUME BoundAssumption == MaxParts \in Nat

VARIABLES api,
          source,           \* the provider's stream: open, closed or broken
          read,             \* parts the converter has turned to
          todo,             \* what is left of the last chunk's parts
          startedMessage,   \* and createdEmitted
          thinkingIndex,    \* the reasoning block that is open, or None
          textIndex,        \* the text block that is open, or None
          toolCalls,        \* the tool calls met, their blocks
          nextBlockIndex,
          answerText,       \* state.text, of the responses converter
          stopReason,
          finalUsage,       \* the part whose usage is told
          endedMessage,
          wire,             \* events written and not received
          captured,         \* the usage pipeStream returns, to be recorded
          phase,            \* the client is waiting, reading, told, done, or was cut
          blocks,           \* what it has
          told,             \* what the end told it
          given             \* history: what the provider has sent

converter == <<startedMessage, thinkingIndex, textIndex, toolCalls, nextBlockIndex,
               answerText, stopReason, finalUsage, endedMessage>>
client == <<phase, blocks, told>>
vars == <<api, source, read, todo, converter, wire, captured, client, given>>
-------------------------------------------------------------------------------
\* The part the converter has turned to.
Here == read + 1

Begun == [type |-> "message_start"]
Started(i, kind) == [type |-> "content_block_start", index |-> i, kind |-> kind]
Delta(i, kind) == [type |-> "content_block_delta", index |-> i, kind |-> kind, piece |-> Here]
Stopped(i) == [type |-> "content_block_stop", index |-> i]
Ending(reason, usage, text) ==
  [type |-> "message_delta", reason |-> reason, usage |-> usage, text |-> text]
Over == [type |-> "message_stop"]

OpenCalls == {c \in Calls : toolCalls[c].opened}

\* closeThinkingBlock, closeTextBlock and closeOpenToolCalls: the events, in the
\* order of the map, which is that of the blocks.
ThinkingStop == IF thinkingIndex = None THEN <<>> ELSE <<Stopped(thinkingIndex)>>
TextStop == IF textIndex = None THEN <<>> ELSE <<Stopped(textIndex)>>
\* Mutant: text does not close the tool calls.
NoToolStops == <<>>

ToolStops ==
  LET open == {toolCalls[c].index : c \in OpenCalls}
  IN [j \in 1 .. Cardinality(open) |->
        Stopped(CHOOSE i \in open : Cardinality({k \in open : k < i}) = j - 1)]
CallsClosed == [c \in Calls |-> [toolCalls[c] EXCEPT !.opened = FALSE]]

\* The block of a kind that may be open or must be started.
BlockOf(index) == IF index = None THEN nextBlockIndex ELSE index
Starts(index, kind) ==
  IF index = None THEN <<Started(nextBlockIndex, kind)>> ELSE <<>>

CounterAfter(index) == IF index = None THEN nextBlockIndex + 1 ELSE nextBlockIndex

Init == /\ api \in Apis
        /\ source = "open"
        /\ read = 0
        /\ todo = <<>>
        /\ startedMessage = FALSE
        /\ thinkingIndex = None
        /\ textIndex = None
        /\ toolCalls = [c \in Calls |-> [index |-> None, opened |-> FALSE]]
        /\ nextBlockIndex = 0
        /\ answerText = <<>>
        /\ stopReason = None
        /\ finalUsage = None
        /\ endedMessage = FALSE
        /\ wire = <<>>
        /\ captured = None
        /\ phase = "waiting"
        /\ blocks = [i \in {} |-> i]
        /\ told = None
        /\ given = {}
-------------------------------------------------------------------------------
\* A chunk that parses.  The first one begins the message; the bound on the wire
\* loses no order, since the client sends nothing back.
Read(payload) ==
  /\ source = "open" /\ todo = <<>> /\ wire = <<>>
  /\ read + Len(payload) <= MaxParts
  /\ todo' = payload
  /\ startedMessage' = TRUE
  /\ wire' = IF startedMessage THEN <<>> ELSE <<Begun>>
  /\ UNCHANGED <<api, source, read, thinkingIndex, textIndex, toolCalls, nextBlockIndex,
                 answerText, stopReason, finalUsage, endedMessage, captured, client, given>>

\* The converter turns to the next part, which is of this kind.
Meets(kind) ==
  /\ todo # <<>> /\ Head(todo).kind = kind
  /\ todo' = Tail(todo)
  /\ read' = read + 1
  /\ UNCHANGED <<api, source, startedMessage, endedMessage, captured, client>>

\* Reasoning is dropped while a tool call is open.
DropReasoning ==
  /\ Meets("reasoning")
  /\ api = "responses" \/ OpenCalls # {}
  /\ UNCHANGED <<thinkingIndex, textIndex, toolCalls, nextBlockIndex, answerText,
                 stopReason, finalUsage, wire, given>>

Reasoning ==
  /\ Meets("reasoning")
  /\ api = "messages" /\ OpenCalls = {}
  /\ wire' = wire \o TextStop \o Starts(thinkingIndex, "thinking")
                  \o <<Delta(BlockOf(thinkingIndex), "thinking")>>
  /\ thinkingIndex' = BlockOf(thinkingIndex)
  /\ textIndex' = None
  /\ nextBlockIndex' = CounterAfter(thinkingIndex)
  /\ given' = given \cup {<<"thinking", Here>>}
  /\ UNCHANGED <<toolCalls, answerText, stopReason, finalUsage>>

\* Text.  The responses converter has no block but this one.
Content ==
  /\ Meets("content")
  /\ wire' = wire \o ThinkingStop \o ToolStops \o Starts(textIndex, "text")
                  \o <<Delta(BlockOf(textIndex), "text")>>
  /\ thinkingIndex' = None
  /\ toolCalls' = CallsClosed
  /\ textIndex' = BlockOf(textIndex)
  /\ nextBlockIndex' = CounterAfter(textIndex)
  /\ answerText' = IF api = "responses" THEN Append(answerText, Here) ELSE answerText
  /\ given' = given \cup {<<"text", Here>>}
  /\ UNCHANGED <<stopReason, finalUsage>>

\* Mutant: a tool call leaves the text open.
ToolsBesideText ==
  /\ Meets("tools")
  /\ IF api = "messages" THEN wire' = wire \o ThinkingStop /\ thinkingIndex' = None
     ELSE UNCHANGED <<wire, thinkingIndex>>
  /\ UNCHANGED <<textIndex, toolCalls, nextBlockIndex, answerText, stopReason, finalUsage, given>>

\* An array of tool calls, which may be empty.
Tools ==
  /\ Meets("tools")
  /\ IF api = "messages"
     THEN /\ wire' = wire \o ThinkingStop \o TextStop
          /\ thinkingIndex' = None /\ textIndex' = None
     ELSE UNCHANGED <<wire, thinkingIndex, textIndex>>
  /\ UNCHANGED <<toolCalls, nextBlockIndex, answerText, stopReason, finalUsage, given>>

\* Mutant: the fragment that opens a call only opens it.
FragmentOpensOnly ==
  /\ Meets("call")
  /\ api = "messages"
  /\ LET part == Head(todo)
         call == toolCalls[part.call]
         index == BlockOf(call.index)
     IN /\ wire' = wire \o IF ~call.opened THEN <<Started(index, part.call)>>
                          ELSE IF part.args THEN <<Delta(index, part.call)>> ELSE <<>>
        /\ toolCalls' = [toolCalls EXCEPT ![part.call] = [index |-> index, opened |-> TRUE]]
        /\ nextBlockIndex' = CounterAfter(call.index)
        /\ given' = given \cup {<<part.call, Here, part.args>>}
  /\ UNCHANGED <<thinkingIndex, textIndex, answerText, stopReason, finalUsage>>

\* A fragment of a tool call, in the block the call has.
Fragment ==
  /\ Meets("call")
  /\ api = "messages"
  /\ LET part == Head(todo)
         call == toolCalls[part.call]
         index == BlockOf(call.index)
     IN /\ wire' = wire \o (IF call.opened THEN <<>> ELSE <<Started(index, part.call)>>)
                        \o (IF part.args THEN <<Delta(index, part.call)>> ELSE <<>>)
        /\ toolCalls' = [toolCalls EXCEPT ![part.call] = [index |-> index, opened |-> TRUE]]
        /\ nextBlockIndex' = CounterAfter(call.index)
        /\ given' = given \cup {<<part.call, Here, part.args>>}
  /\ UNCHANGED <<thinkingIndex, textIndex, answerText, stopReason, finalUsage>>

\* The responses converter does not look at tool calls.
SkipFragment ==
  /\ Meets("call")
  /\ api = "responses"
  /\ UNCHANGED <<thinkingIndex, textIndex, toolCalls, nextBlockIndex, answerText,
                 stopReason, finalUsage, wire, given>>

\* A finish reason, with usage or without.  Usage met before is kept by the
\* messages converter, and replaced by the other.
FinishReason ==
  /\ Meets("finish")
  /\ LET part == Head(todo)
     IN /\ stopReason' = IF api = "messages" THEN part.reason ELSE stopReason
        /\ finalUsage' = IF part.usage /\ (api = "responses" \/ finalUsage = None)
                         THEN Here ELSE finalUsage
        /\ given' = given \cup {<<"finish", Here, part.reason>>}
                          \cup IF part.usage THEN {<<"usage with finish", Here>>} ELSE {}
  /\ UNCHANGED <<thinkingIndex, textIndex, toolCalls, nextBlockIndex, answerText, wire>>

\* Mutant: usage met before is kept.
FirstUsage ==
  /\ Meets("usage")
  /\ finalUsage' = IF finalUsage = None THEN Here ELSE finalUsage
  /\ given' = given \cup {<<"usage", Here>>}
  /\ UNCHANGED <<thinkingIndex, textIndex, toolCalls, nextBlockIndex, answerText,
                 stopReason, wire>>

\* A chunk of usage alone.
UsageOnly ==
  /\ Meets("usage")
  /\ finalUsage' = Here
  /\ given' = given \cup {<<"usage", Here>>}
  /\ UNCHANGED <<thinkingIndex, textIndex, toolCalls, nextBlockIndex, answerText,
                 stopReason, wire>>

\* Usage beside a choice that gives no finish reason: the messages converter
\* drops it.
UsageBeside ==
  /\ Meets("usage beside")
  /\ finalUsage' = IF api = "responses" THEN Here ELSE finalUsage
  /\ given' = given \cup {<<"usage beside", Here>>}
  /\ UNCHANGED <<thinkingIndex, textIndex, toolCalls, nextBlockIndex, answerText,
                 stopReason, wire>>

Transform ==
  \/ DropReasoning \/ Reasoning \/ Content \/ Tools \/ Fragment \/ SkipFragment
  \/ FinishReason \/ UsageOnly \/ UsageBeside
-------------------------------------------------------------------------------
\* The provider's stream ends, or reading it fails: the provider's connection
\* broke, the client went away, an event was too long.
Close == /\ source = "open" /\ todo = <<>>
         /\ source' = "closed"
         /\ UNCHANGED <<api, read, todo, converter, wire, captured, client, given>>

Break == /\ source = "open" /\ todo = <<>>
         /\ source' = "broken"
         /\ UNCHANGED <<api, read, todo, converter, wire, captured, client, given>>

StopReasonOf(reason) ==
  CASE reason = "length" -> "max_tokens"
    [] reason = "tool_calls" -> "tool_use"
    [] OTHER -> "end_turn"

\* Mutant: only a stream that said why it stops is ended.
FinalizeFinished ==
  /\ source = "closed" /\ todo = <<>> /\ ~endedMessage
  /\ stopReason # None
  /\ endedMessage' = TRUE
  /\ wire' = wire \o ThinkingStop \o TextStop \o ToolStops
       \o <<Ending(StopReasonOf(stopReason), finalUsage, answerText), Over>>
  /\ thinkingIndex' = None /\ textIndex' = None
  /\ toolCalls' = CallsClosed
  /\ captured' = finalUsage
  /\ UNCHANGED <<api, source, read, todo, startedMessage, nextBlockIndex, answerText,
                 stopReason, finalUsage, client, given>>

\* finalize, and pipeStream captures the usage it told.  The responses converter
\* begins here what it has not begun; the other does not.
Finalize ==
  /\ source = "closed" /\ todo = <<>> /\ ~endedMessage
  /\ endedMessage' = TRUE
  /\ wire' = wire
       \o (IF api = "responses" /\ ~startedMessage THEN <<Begun>> ELSE <<>>)
       \o ThinkingStop \o TextStop \o ToolStops
       \o <<Ending(StopReasonOf(stopReason), finalUsage, answerText), Over>>
  /\ startedMessage' = (startedMessage \/ api = "responses")
  /\ thinkingIndex' = None /\ textIndex' = None
  /\ toolCalls' = CallsClosed
  /\ captured' = finalUsage
  /\ UNCHANGED <<api, source, read, todo, nextBlockIndex, answerText, stopReason,
                 finalUsage, client, given>>
-------------------------------------------------------------------------------
\* The client: it takes what it is sent, but a delta for a block it has not open
\* it drops, as strict clients do, and a start begins the block anew, with the
\* empty content it carries, though the index were one that was stopped.
Hears(e) == e.index \in DOMAIN blocks /\ blocks[e.index].open

BlockStarts(e) ==
  /\ e.type = "content_block_start"
  /\ blocks' = [i \in DOMAIN blocks \cup {e.index} |->
                  IF i # e.index THEN blocks[i]
                  ELSE [kind |-> e.kind, open |-> TRUE, pieces |-> <<>>]]
  /\ UNCHANGED <<phase, told>>

BlockGrows(e) ==
  /\ e.type = "content_block_delta"
  /\ blocks' = IF Hears(e) THEN [blocks EXCEPT ![e.index].pieces = Append(@, e.piece)]
               ELSE blocks
  /\ UNCHANGED <<phase, told>>

BlockStops(e) ==
  /\ e.type = "content_block_stop"
  /\ blocks' = IF Hears(e) THEN [blocks EXCEPT ![e.index].open = FALSE] ELSE blocks
  /\ UNCHANGED <<phase, told>>

MessageMoves(e) ==
  \/ e = Begun /\ phase' = "reading" /\ UNCHANGED <<blocks, told>>
  \/ e.type = "message_delta" /\ phase' = "told" /\ told' = e /\ UNCHANGED blocks
  \/ e = Over /\ phase' = "done" /\ UNCHANGED <<blocks, told>>

Receive ==
  /\ todo = <<>> /\ wire # <<>>
  /\ wire' = Tail(wire)
  /\ LET e == Head(wire)
     IN BlockStarts(e) \/ BlockGrows(e) \/ BlockStops(e) \/ MessageMoves(e)
  /\ UNCHANGED <<api, source, read, todo, converter, captured, given>>

\* pipeStream ends the response without a finalize; what is on the wire may be
\* lost with the connection.
Cut ==
  /\ source = "broken" /\ phase # "cut"
  /\ phase' = "cut" /\ wire' = <<>>
  /\ UNCHANGED <<api, source, read, todo, converter, captured, blocks, told, given>>

Next ==
  \/ \E p \in Payloads : Read(p)
  \/ Transform \/ Close \/ Break \/ Finalize \/ Receive \/ Cut

\* The converter and pipeStream run on once they have a chunk or the end; the
\* provider may go silent for ever.
Spec == Init /\ [][Next]_vars /\ WF_vars(Transform \/ Finalize \/ Receive \/ Cut)
-------------------------------------------------------------------------------
(***************************************************************************)
(* Properties.                                                             *)
(***************************************************************************)
\* What each part of the converter's state may be.
TypeOK ==
  /\ api \in {"messages", "responses"}
  /\ todo \in Seq(Part)
  /\ nextBlockIndex \in Nat
  /\ thinkingIndex \in Nat \cup {None}
  /\ textIndex \in Nat \cup {None}
  /\ toolCalls \in [Calls -> [index : Nat \cup {None}, opened : BOOLEAN]]

\* The blocks that are open never collide: a block of reasoning or text is open
\* alone, two tool calls never share a block, and no block has an index the
\* counter has not passed (nextBlockIndex, and what closes before what opens).
BlocksApart ==
  /\ thinkingIndex # None => textIndex = None /\ OpenCalls = {}
  /\ textIndex # None => OpenCalls = {}
  /\ \A c, d \in Calls : toolCalls[c].index = toolCalls[d].index
                           => c = d \/ toolCalls[c].index = None
  /\ \A c \in Calls : toolCalls[c].index # None
                        => toolCalls[c].index \notin {thinkingIndex, textIndex}
  /\ \A i \in {thinkingIndex, textIndex} \cup {toolCalls[c].index : c \in Calls} :
       i # None => i < nextBlockIndex

\* What the client reads is a streamed answer as StreamedAnswer has it, whatever
\* the parts come in and wherever the stream ends (both converters, pipeStream).
Answer == INSTANCE StreamedAnswer WITH Pieces <- 1 .. MaxParts
ImplementsAnswer == Answer!Spec

Given(kind) == {g[2] : g \in {h \in given : h[1] = kind}}
Told(kind) == UNION {ToSet(blocks[i].pieces) : i \in {j \in DOMAIN blocks : blocks[j].kind = kind}}

Arguments(c) == {g[2] : g \in {h \in given : h[1] = c /\ h[3]}}

\* The provider went on with a tool call after text that came in between.
Parted(c) == \E f, n \in Given(c), t \in Given("text") : f < t /\ t < n

\* A client that has read to the end has all the text, all the arguments of each
\* call as that call's, and nothing that was not the provider's (the converters
\* open before they write, and each fragment goes to its call's block), but for
\* the call that text parted: text stops its block, and its next fragment starts
\* that index again, which the comment on nextBlockIndex says never happens; a
\* client that holds to the protocol loses what the block had.
OnlyPartedCallsLose ==
  phase = "done" =>
    /\ Told("text") = Given("text")
    /\ Told("thinking") \subseteq Given("thinking")
    /\ \A c \in Calls : Told(c) \subseteq Arguments(c) /\ (Told(c) = Arguments(c) \/ Parted(c))

\* The client reads in the order the provider wrote: within a block, and, but for
\* a tool call that goes on later, from block to block (blocks are closed, not
\* returned to).
InOrder ==
  /\ \A i \in DOMAIN blocks :
       \A m, n \in DOMAIN blocks[i].pieces : m < n => blocks[i].pieces[m] < blocks[i].pieces[n]
  /\ \A i, j \in DOMAIN blocks : i < j /\ blocks[i].kind \notin Calls =>
       \A m \in ToSet(blocks[i].pieces), n \in ToSet(blocks[j].pieces) : m <= n

LastReason == {g[3] : g \in {h \in given : /\ h[1] = "finish"
                                          /\ \A n \in Given("finish") : n <= h[2]}}

\* The usage a converter takes: the messages converter not that beside a choice
\* that goes on, which is neither told nor recorded.
UsageTaken == Given("usage") \cup Given("usage with finish")
                \cup IF api = "responses" THEN Given("usage beside") ELSE {}

\* The end tells what the provider said last: its finish reason, and usage if it
\* gave any that the converter takes: the last of all (responses), or none that a
\* later chunk of usage alone replaced (messages).  What is told is what is
\* recorded, and a completed response has the text its deltas had (finalize,
\* pipeStream's capturedUsage).
EndTellsAll ==
  told # None =>
    /\ told.usage = captured
    /\ IF UsageTaken = {} THEN told.usage = None
       ELSE /\ told.usage \in UsageTaken
            /\ \A n \in IF api = "responses" THEN UsageTaken ELSE Given("usage") : n <= told.usage
    /\ api = "messages" =>
         told.reason \in IF LastReason = {} THEN {"end_turn"}
                         ELSE {StopReasonOf(r) : r \in LastReason}
    /\ api = "responses" =>
         \A i \in DOMAIN blocks : told.text = blocks[i].pieces

\* No client hangs: once the provider's stream has ended, however early, the
\* client reads the end of its answer (finalize closes what is open).
ClientsAreAnswered == source = "closed" ~> phase = "done"

===============================================================================
