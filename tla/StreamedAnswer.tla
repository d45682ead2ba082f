--------------------------- MODULE StreamedAnswer ---------------------------
(***************************************************************************)
(* What a client is promised of an answer that reaches it as a stream,     *)
(* whatever the provider sends and in whichever order: the answer begins,  *)
(* grows block by block and ends, or the connection is cut.  A piece goes  *)
(* into a block that is open; reasoning and text are never open beside     *)
(* another block; the answer ends when all its blocks have.                *)
(* MessagesStream implements this specification.                           *)
(***************************************************************************)
EXTENDS Naturals, FiniteSets, Sequences

CONSTANTS Calls,   \* the provider's tool calls
          Pieces   \* what a delta carries

Alone == {"thinking", "text"}

VARIABLES phase,   \* waiting, reading, told, done or cut
          blocks   \* the blocks the client has, by index

vars == <<phase, blocks>>

OpenBlocks == {i \in DOMAIN blocks : blocks[i].open}

Init == phase = "waiting" /\ blocks = [i \in {} |-> i]

Begin == /\ phase = "waiting" /\ phase' = "reading"
         /\ UNCHANGED blocks

\* A block starts at the next index.
StartBlock(kind) ==
  /\ phase = "reading"
  /\ \A i \in OpenBlocks : {kind, blocks[i].kind} \subseteq Calls
  /\ LET next == Cardinality(DOMAIN blocks)
     IN blocks' = [i \in DOMAIN blocks \cup {next} |->
                     IF i = next THEN [kind |-> kind, open |-> TRUE, pieces |-> <<>>]
                     ELSE blocks[i]]
  /\ UNCHANGED phase

\* A tool call that was stopped goes on: its block starts again, empty.
RestartCall(i) ==
  /\ phase = "reading"
  /\ blocks[i].kind \in Calls /\ ~blocks[i].open
  /\ \A j \in OpenBlocks : blocks[j].kind \in Calls
  /\ blocks' = [blocks EXCEPT ![i].open = TRUE, ![i].pieces = <<>>]
  /\ UNCHANGED phase

Add(i, piece) ==
  /\ phase = "reading"
  /\ blocks[i].open
  /\ blocks' = [blocks EXCEPT ![i].pieces = Append(@, piece)]
  /\ UNCHANGED phase

StopBlock(i) ==
  /\ phase = "reading"
  /\ blocks[i].open
  /\ blocks' = [blocks EXCEPT ![i].open = FALSE]
  /\ UNCHANGED phase

\* The end is told and the answer over.  An empty stream has no beginning.
Conclude ==
  /\ phase \in {"waiting", "reading"} /\ OpenBlocks = {}
  /\ phase' = "told"
  /\ UNCHANGED blocks

Finish == phase = "told" /\ phase' = "done" /\ UNCHANGED blocks

Cut == phase \in {"waiting", "reading"} /\ phase' = "cut" /\ UNCHANGED blocks

Next ==
  \/ Begin \/ Conclude \/ Finish \/ Cut
  \/ \E k \in Alone \cup Calls : StartBlock(k)
  \/ \E i \in DOMAIN blocks : RestartCall(i) \/ StopBlock(i)
  \/ \E i \in DOMAIN blocks, p \in Pieces : Add(i, p)

Spec == Init /\ [][Next]_vars
=============================================================================
