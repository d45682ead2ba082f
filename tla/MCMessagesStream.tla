--------------------------- MODULE MCMessagesStream ---------------------------
EXTENDS MessagesStream

\* Two tool calls.
CONSTANTS c1, c2

P(k) == [kind |-> k]
Call(c, args) == [kind |-> "call", call |-> c, args |-> args]
Finish(r, usage) == [kind |-> "finish", reason |-> r, usage |-> usage]

\* One of each kind, and the mixtures in which two parts of a chunk meet.
Chunks == {
  <<>>, <<P("usage")>>, <<P("usage beside")>>, <<P("reasoning")>>, <<P("content")>>,
  <<P("reasoning"), P("content")>>,
  <<P("tools")>>, <<P("tools"), Call(c1, TRUE)>>, <<P("tools"), Call(c2, FALSE)>>,
  <<P("tools"), Call(c2, TRUE), Call(c1, TRUE)>>,
  <<P("content"), P("tools"), Call(c1, TRUE)>>,
  <<Finish("tool_calls", TRUE)>>, <<P("content"), Finish("stop", FALSE)>> }

===============================================================================
