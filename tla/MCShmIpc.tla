----------------------------- MODULE MCShmIpc -----------------------------
(* Instances of ShmIpc for TLC. *)
EXTENDS ShmIpc, TLC

CONSTANTS w1, w2, r1, r2, a1, s1, s2

\* Every flag bk_shmipc_write and bk_shmipc_read look at.
AllWriteModes == {{}, {"all"}, {"noblock"}, {"drop"}}
AllReadModes == {{}, {"all"}, {"noblock"}, {"readall"}}
\* What covers every branch: readall goes on with noblock.
SomeWriteModes == {{"all"}, {"noblock"}, {"drop"}}
SomeReadModes == {{}, {"readall"}}
\* Segments are alike.
SegSyms == Permutations({s1, s2})
=============================================================================
