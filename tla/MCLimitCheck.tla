---------------------------- MODULE MCLimitCheck ----------------------------
(***************************************************************************)
(* LimitCheck for TLC: a rule by the hour that the user may switch off and *)
(* on, and a rule by the day.  Checks are interchangeable.                 *)
(***************************************************************************)
EXTENDS LimitCheck, TLC

CONSTANTS Hourly, Daily

Rule(active, period) == [active |-> active, period |-> period, threshold |-> 1]

MCRules == {Hourly, Daily}

MCShapes == Hourly :> {Rule(TRUE, "hour"), Rule(FALSE, "hour")} @@ Daily :> {Rule(TRUE, "day")}

Alike == Permutations(Checks)
=============================================================================
