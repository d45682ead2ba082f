---------------------------- MODULE MCOAuthConnect ----------------------------
EXTENDS OAuthConnect, TLC

\* The slots are interchangeable.
Symmetry == Permutations(Slots)
=============================================================================
