------------------------ MODULE MCProxyRateLimiter ------------------------
(* An instance of ProxyRateLimiter for TLC. *)
EXTENDS ProxyRateLimiter, TLC

CONSTANTS r1, r2, r3, r4, r5, r6, r7, u1, u2, u3, a1, a2

\* Five requests of one user from two addresses, enough for two windows, and
\* one of each of two other users, enough to overflow a map of two entries.
MCUserOf == (r1 :> u1 @@ r2 :> u1 @@ r3 :> u1 @@ r4 :> u1 @@ r5 :> u1 @@ r6 :> u2 @@ r7 :> u3)
MCAddressOf == (r1 :> a1 @@ r2 :> a1 @@ r3 :> a1 @@ r4 :> a2 @@ r5 :> a2 @@ r6 :> a2 @@ r7 :> a2)

\* Requests of the same user from the same address are interchangeable, and so
\* are the two other users, each with its request.
MCOthers == r6 :> r7 @@ r7 :> r6 @@ u2 :> u3 @@ u3 :> u2
MCSymmetry == Permutations({r1, r2, r3}) \union Permutations({r4, r5}) \union {MCOthers}
===========================================================================
