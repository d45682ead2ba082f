---------------------------- MODULE Credential ----------------------------
(***************************************************************************)
(* What the refresh coordinator promises of one stored OAuth credential,   *)
(* without tokens, requests or runs: it is good until a refresh rotates    *)
(* it; then either the successor is saved or a mishap is to blame.         *)
(* OAuthRefresh implements this specification.                             *)
(***************************************************************************)
VARIABLES
  stored,     \* what the stored refresh token is worth
  connected,  \* the account is shown as connected
  excused     \* the stored refresh token has met with a mishap

vars == <<stored, connected, excused>>

TypeOK ==
  /\ stored \in {"absent", "good", "rotated", "lost"}
  /\ connected \in BOOLEAN
  /\ excused \in BOOLEAN

Init == stored = "absent" /\ connected = FALSE /\ excused = FALSE

\* What a step leaves is lost only if there is an excuse for it.
NoWorse(before) == stored' = before \/ (stored' = "lost" /\ excused')

\* The user connects a disconnected account.
Connect ==
  /\ ~connected /\ connected'
  /\ stored' = "good" /\ ~excused'

\* The user disconnects; the provider may revoke the token, and the row of a
\* key beside others goes.
Disconnect ==
  /\ ~connected'
  /\ NoWorse(stored) \/ (stored' = "absent" /\ ~excused')
  /\ excused => excused' \/ stored' = "absent"

\* The provider rotated the token; the successor is in memory only.
Rotate ==
  /\ stored = "good" /\ stored' = "rotated"
  /\ UNCHANGED <<connected, excused>>

\* A refresh stores what it was answered.  Also of an account that was
\* disconnected meanwhile, which it connects again.
Save == NoWorse("good") /\ connected'

\* An answer or a successor is lost.
Mishap ==
  /\ stored # "absent"
  /\ NoWorse(stored) /\ excused'
  /\ UNCHANGED connected

Next == Connect \/ Disconnect \/ Rotate \/ Save \/ Mishap

Spec == Init /\ [][Next]_vars
===========================================================================
