------------------------------- MODULE MCFq -------------------------------
(* The ring that fq_new makes of a request for three nodes, and two        *)
(* messages, one of them longer than a node.  The arithmetic of module     *)
(* FqSize is checked for the two sizes main() asks for, 4096 and 256, the  *)
(* values on either side of each threshold of power2_align, zero, and one  *)
(* beyond its limit.                                                       *)
EXTENDS FqSize, Bitwise, TLC

CONSTANTS m1, m2

MCMsg == {m1, m2}
MCMsgLen == m1 :> 2 @@ m2 :> 5
MCSize == power2_align(3)
MCRequest == {0, 1, 3, 4, 5, 8, 9, 16, 17, 32, 33, 64, 65, 128, 129, 255,
              256, 257, 512, 513, 1024, 1025, 2048, 2049, 4095, 4096, 5000}

\* BitAnd is the bitwise operator.
ASSUME AndIsBitwise == \A n, k \in 0 .. 40 : BitAnd(n, k) = n & k
=============================================================================
