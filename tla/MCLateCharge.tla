---------------------------- MODULE MCLateCharge ----------------------------
(* The write limiter when a call may charge its buckets a tick after it took *)
(* its moment, as it does when it waits for a bucket's row.                  *)
EXTENDS WriteLimiter

CONSTANTS p1, c1, c2, c3

OnePrincipal == {p1}
ThreeCalls == {c1, c2, c3}
SamePrincipal == [c \in Calls |-> p1]
TwoTokens == [s \in Scopes |-> 2]
=============================================================================
