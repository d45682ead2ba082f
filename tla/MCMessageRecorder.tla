-------------------------- MODULE MCMessageRecorder --------------------------
EXTENDS MessageRecorder, TLC

\* Calls are told apart by nothing but their names.
Symmetry == Permutations(Calls)
===========================================================================
