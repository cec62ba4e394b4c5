------------------------------ MODULE MCRingBuf ------------------------------
(* Instances of RingBuf small enough to check.                             *)
EXTENDS RingBuf

CONSTANTS w1, w2, r1, r2, p1, d, a, b

BothWays == {TRUE, FALSE}
Always   == {TRUE}
=============================================================================
