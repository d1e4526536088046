------------------------------- MODULE Buffer -------------------------------
(***************************************************************************)
(* The receive buffer of buffer.c: one block of memory, the unread bytes   *)
(* in it starting at rptr, behind the misalign bytes that were drained.    *)
(* misalign is always rptr - bufbase, so rptr stands for both.             *)
(*                                                                         *)
(* Callers keep pointers into the block.  A pointer is the block and the   *)
(* offset in it, so that it can be seen to point at something else after   *)
(* the bytes were moved, or into a block that realloc has given back.      *)
(***************************************************************************)
EXTENDS Integers, Sequences, FiniteSetsExt

CONSTANTS
  Byte,       \* what a byte can be: its value val and what a model adds to it
  NoByte,     \* memory nobody has written
  MinLen      \* the least a growing buffer grows to (256)

VARIABLES
  mem,        \* the block, [0 .. totallen - 1 -> Byte or NoByte]
  block,      \* which block it is: realloc may give another one
  rptr,       \* rptr - bufbase
  off         \* how many bytes are unread

bufferVars == <<mem, block, rptr, off>>

totallen == Cardinality(DOMAIN mem)
Unread == rptr .. rptr + off - 1

\* buffer_init
Init(sz) ==
  /\ mem = [i \in 0 .. sz - 1 |-> NoByte]
  /\ block = 0 /\ rptr = 0 /\ off = 0

\* buffer_reset
Reset ==
  /\ rptr' = 0 /\ off' = 0
  /\ UNCHANGED <<mem, block>>

\* buffer_align: a memmove of the unread bytes; what is behind them stays.
Aligned == [i \in DOMAIN mem |-> IF i < off THEN mem[rptr + i] ELSE mem[i]]

\* A block of the length buffer_expand asks realloc for: doubled until it
\* is enough.
Grown(m, need) ==
  LET least == IF totallen < MinLen THEN MinLen ELSE totallen
      length == Min({l \in {least * 2 ^ k : k \in 0 .. need} : l >= need})
  IN  [i \in 0 .. length - 1 |-> IF i \in DOMAIN m THEN m[i] ELSE NoByte]

Write(m, at, data) ==
  [i \in DOMAIN m |-> IF i - at + 1 \in DOMAIN data THEN data[i - at + 1] ELSE m[i]]

\* There is room behind the unread bytes for n more ...
Fits(n) == totallen >= rptr + off + n

\* ... or in place of the drained ones, or else in a longer block.
Read(data) ==
  LET n == Len(data)
      need == rptr + off + n
  IN /\ off' = off + n
     /\ \/ /\ Fits(n)
           /\ mem' = Write(mem, rptr + off, data)
           /\ UNCHANGED <<rptr, block>>
        \/ /\ ~Fits(n) /\ rptr >= n
           /\ mem' = Write(Aligned, off, data)
           /\ rptr' = 0 /\ UNCHANGED block
        \/ /\ ~Fits(n) /\ rptr < n
           /\ mem' = Write(Grown(Aligned, need), off, data)
           /\ rptr' = 0 /\ block' \in {block, block + 1}

\* Faulty: an empty buffer does not start from the beginning again.
DrainPtrNoRewind(ptr) == rptr' = ptr /\ off' = off - (ptr - rptr)

\* buffer_drain_ptr, its pointer given as an offset; the block stays.
DrainPtr(ptr) ==
  IF ptr - rptr >= off
  THEN rptr' = 0 /\ off' = 0
  ELSE rptr' = ptr /\ off' = off - (ptr - rptr)

\* The pointers buffer_find_chr can return: the place of the first unread byte
\* of value c, none if there is none.
FindChr(c) ==
  LET found == {i \in Unread : mem[i].val = c}
  IN  {[block |-> block, at |-> i] : i \in {f \in found : \A j \in found : f <= j}}

\* What a pointer points at now: memory that was given back can be anything.
Deref(p) == IF p.block = block /\ p.at \in DOMAIN mem THEN {mem[p.at]} ELSE Byte

\* What p - q can be: of pointers into two blocks, anything.
Minus(p, q) == IF p.block = q.block THEN {p.at - q.at} ELSE -totallen .. totallen

---------------------------------------------------------------------------
(* What the callers may rely on *)

\* The unread bytes, in the order in which they will be parsed.
Data == [i \in 1 .. off |-> mem[rptr + i - 1]]

\* The unread bytes are inside the block and somebody has written each of
\* them: realloc'ed memory behind them is never taken for data.
Sound ==
  /\ totallen \in Nat /\ rptr \in Nat /\ off \in Nat
  /\ mem \in [0 .. totallen - 1 -> Byte \cup {NoByte}]
  /\ rptr + off <= totallen
  /\ Data \in Seq(Byte)

=============================================================================
