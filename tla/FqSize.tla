------------------------------- MODULE FqSize -------------------------------
(***************************************************************************)
(* The size of a ring and its index arithmetic (fq.c).  fq_new rounds the  *)
(* requested number of nodes with power2_align; every index then advances  *)
(* by "(i + 1) & (size - 1)", which is a step around the ring only when    *)
(* size is a power of two.  Module Fq relies on both: its Size is such a   *)
(* number and its Inc is modulo Size.                                      *)
(*                                                                         *)
(* "&" is written by what it does to the bits, and not with the recursive  *)
(* operator of module Bitwise, which no proof could use; MCFq compares the *)
(* two.                                                                    *)
(***************************************************************************)
EXTENDS Fq, FiniteSetsExt

CONSTANT Request      \* what fq_new can be asked for, its parameter sz

ASSUME RequestAssumption == Request \subseteq Nat

Thresholds == {4, 8, 16, 32, 64, 128, 256, 512, 1024, 2048}

\* The cascade of comparisons: the first threshold, from the top, that n
\* exceeds gives the size, and a size of 4 if there is none.
power2_align(n) ==
  LET exceeded == {t \in Thresholds : n > t}
  IN  IF exceeded = {} THEN 4 ELSE 2 * Max(exceeded)

\* The bits of the numbers that occur: up to 4096.
Weight == {1, 2, 4, 8, 16, 32, 64, 128, 256, 512, 1024, 2048, 4096}
Bit(n, w) == (n \div w) % 2

\* n & m: the number that has the bits that both have.
BitAnd(n, m) == CHOOSE r \in 0 .. m : \A w \in Weight : Bit(r, w) = Bit(n, w) * Bit(m, w)

\* Faulty: the size itself as the mask.
MaskedBySize(i, size) == BitAnd(i + 1, size)

\* The advance of every index: (i + 1) & (size - 1).
Advanced(i, size) == BitAnd(i + 1, size - 1)

---------------------------------------------------------------------------
\* The ring is as large as asked, up to the 4096 nodes power2_align stops
\* at, and never twice what was asked (or the minimum of four): the
\* thresholds of power2_align leave no gap and no overlap (fq.c:16-41).
SizeFits ==
  \A sz \in Request :
    LET size == power2_align(sz) IN
      /\ size <= 4096 /\ (sz <= 4096 => size >= sz)
      /\ size = 4 \/ size < 2 * sz

\* In every ring power2_align can make, the masked advance is the advance
\* modulo its size that module Fq uses, at every index: none leaves the ring
\* and none is passed over (fq.c:114, 184, 197).
MaskWraps ==
  \A size \in {power2_align(sz) : sz \in Request} :
    \A i \in 0 .. size - 1 : Advanced(i, size) = (i + 1) % size

\* Together: the rings fq_new makes have the right size and their indices go
\* around them, those of the ring of module Fq as that module has it.
RingsFit ==
  /\ SizeFits /\ MaskWraps
  /\ \A i \in {ridx, widx} : Advanced(i, Size) = Inc(i)
=============================================================================
