----------------------------- MODULE MCMsgQueue -----------------------------
(* The instances of MsgQueue that TLC checks. *)
EXTENDS MsgQueue

CONSTANTS p1, p2, c1, c2        \* threads

\* Two of a kind with one of the other; and nobody at all.
MCCrews == {{p1, p2, c1}, {p1, c1, c2}, {}}
MCPair == {{p1, c1}}
MCMinPosition == -1
=============================================================================
