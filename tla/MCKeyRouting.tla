----------------------------- MODULE MCKeyRouting -----------------------------
(***************************************************************************)
(* KeyRouting for TLC: one provider with two auth types and two key names. *)
(***************************************************************************)
EXTENDS KeyRouting, TLC

Symmetry == Permutations(Auths) \cup Permutations(Keys) \cup Permutations(Jobs)
===============================================================================
