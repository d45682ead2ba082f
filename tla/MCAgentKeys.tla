----------------------------- MODULE MCAgentKeys -----------------------------
(***************************************************************************)
(* AgentKeys for TLC.                                                      *)
(***************************************************************************)
EXTENDS AgentKeys, TLC

Symmetry == Permutations(Agents) \cup Permutations(Names) \cup Permutations(Keys)
              \cup Permutations(Requests) \cup Permutations(Jobs)
===============================================================================
