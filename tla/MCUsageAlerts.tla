--------------------------- MODULE MCUsageAlerts ---------------------------
(***************************************************************************)
(* UsageAlerts for TLC.  A rule both alerts and blocks by the hour, alerts *)
(* by the day, or has been deleted.  Runs are interchangeable, and so are  *)
(* rules.                                                                  *)
(***************************************************************************)
EXTENDS UsageAlerts, TLC

Rule(active, action, period) ==
  [active |-> active, action |-> action, period |-> period, threshold |-> 2]

MCShapes == {Rule(TRUE, "both", "hour"), Rule(TRUE, "notify", "day"),
             Rule(FALSE, "both", "hour")}

Alike == UNION {Permutations(S) : S \in {Runs, Refusals, Rules}}
=============================================================================
