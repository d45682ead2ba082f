--------------------------- MODULE MCSessionRouting ---------------------------
(***************************************************************************)
(* SessionRouting for TLC: two categories, three models of which one       *)
(* cannot stream, and a message for each way through the decision.         *)
(***************************************************************************)
EXTENDS SessionRouting

Text(name, raw, weight, coding) ==
  [name |-> name, raw |-> raw, weight |-> weight,
   signal |-> [coding |-> coding, web_browsing |-> 0], asked |-> None,
   header |-> FALSE, heartbeat |-> FALSE, mute |-> FALSE, formal |-> FALSE, brief |-> FALSE,
   technical |-> FALSE, plain |-> FALSE, tools |-> FALSE, large |-> FALSE]

MCMessages ==
  { Text("code", 15, 10, 350),
    Text("doubt", 36, 0, 100),
    [Text("go on", -11, 55, 0) EXCEPT !.brief = TRUE],
    [Text("hi", -30, 58, 0) EXCEPT !.brief = TRUE, !.plain = TRUE],
    [Text("beat", 0, 0, 0) EXCEPT !.heartbeat = TRUE],
    [Text("tagged", -15, 40, 0) EXCEPT !.header = TRUE, !.brief = TRUE,
      !.technical = TRUE, !.tools = TRUE, !.asked = "web_browsing"],
    [Text("picture", 12, 60, 0) EXCEPT !.mute = TRUE, !.asked = "coding"] }

Row(override, auto, fallbacks, stream) ==
  [override |-> override, auto |-> auto, fallbacks |-> fallbacks, stream |-> stream]

MCRows == { None, Row("gpt", None, <<>>, FALSE), Row("sora", "gpt", <<"haiku">>, TRUE) }

Routing(header, coding, flags, sora) ==
  [header |-> header, complexity |-> TRUE,
   specific |-> [coding |-> coding, web_browsing |-> Row(None, "sora", <<>>, FALSE)],
   tier |-> [t \in TierSlots |->
               Row(IF t = "complex" THEN "sora" ELSE None, "haiku", <<"gpt">>, FALSE)],
   available |-> {"gpt", "haiku"} \cup sora,
   flags |-> [c \in Categories |-> IF c = "coding" THEN flags ELSE 0]]

MCRoutings ==
  LET pinned == Row("gpt", None, <<>>, FALSE)
  IN  { Routing(None, None, 0, {}), Routing(pinned, pinned, 0, {}),
        Routing(None, Row(None, "haiku", <<>>, FALSE), 3, {"sora"}) }

MCCategoryOrder == <<"coding", "web_browsing">>
MCThreshold == [coding |-> 100, web_browsing |-> 300]
MCStreamable == {"gpt", "haiku"}
===============================================================================
