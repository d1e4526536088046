---------------------------- MODULE BufferProofs ----------------------------
(***************************************************************************)
(* What buffer.c promises to the two threads that parse what it holds: the *)
(* unread bytes are a queue.  buffer_read appends to it, whichever of its  *)
(* three ways to find room it takes, buffer_drain_ptr removes from its     *)
(* head, and nothing else changes them.                                    *)
(*                                                                         *)
(* Then, what a stream of messages looks like, where each of them begins   *)
(* and ends in it, for the proofs about the two framings.                  *)
(***************************************************************************)
EXTENDS Buffer, ByteStream, FiniteSetTheorems, FunctionTheorems, SequenceTheorems,
        WellFoundedInduction, TLAPS

Less == {p \in Nat \X Nat : p[1] < p[2]}

\* The order of the naturals as a relation.
LEMMA LessIsWellFounded == IsWellFoundedOn(Less, Nat)
BY NatLessThanWellFounded DEF OpToRel, Less

\* Every nonempty set of naturals has a least element, and Min is that.
LEMMA MinIsLeast ==
  ASSUME NEW S \in SUBSET Nat, S # {}
  PROVE  Min(S) \in S /\ \A y \in S : Min(S) <= y
<1>1. PICK x \in S : \A y \in S : ~(<<y, x>> \in Less)
  BY LessIsWellFounded, WFMin
<1>2. ASSUME NEW y \in S PROVE x <= y
  <2>1. ~(<<y, x>> \in Less) BY <1>1
  <2>2. <<y, x>> \in Nat \X Nat OBVIOUS
  <2>3. ~(y < x) BY <2>1, <2>2 DEF Less
  <2> QED BY <2>3
<1> QED BY <1>2 DEF Min

\* A power of two is at least its exponent: doubling a length ends.
LEMMA PowerExceeds ==
  ASSUME NEW n \in Nat
  PROVE  2 ^ n \in Nat /\ n <= 2 ^ n /\ 1 <= 2 ^ n
<1> DEFINE S == 1 .. n
           f == [i \in S |-> {i}]
           T == [i \in {0} |-> {}]
<1>1. IsFiniteSet(S) /\ Cardinality(S) = n BY FS_Interval
<1>2. IsFiniteSet(SUBSET S) /\ Cardinality(SUBSET S) = 2 ^ n BY <1>1, FS_SUBSET
<1>3. 2 ^ n \in Nat BY <1>2, FS_CardinalityType
<1>4. f \in Injection(S, SUBSET S) BY DEF Injection, IsInjective
<1>5. n <= 2 ^ n BY <1>1, <1>2, <1>4, FS_Injection, FS_CardinalityType
<1>6. 2 ^ n # 0 BY <1>2, FS_EmptySet
<1> QED BY <1>3, <1>5, <1>6

Cell == Byte \cup {NoByte}

\* The block realloc is asked for holds what is needed, and begins with what
\* was in the old one.
LEMMA GrownIsEnough ==
  ASSUME MinLen \in Nat \ {0}, totallen \in Nat, NEW need \in Nat, totallen < need,
         NEW m \in [0 .. totallen - 1 -> Cell]
  PROVE  \E len \in Nat : /\ need <= len
                          /\ Grown(m, need) \in [0 .. len - 1 -> Cell]
                          /\ \A i \in 0 .. totallen - 1 : Grown(m, need)[i] = m[i]
<1> DEFINE least == IF totallen < MinLen THEN MinLen ELSE totallen
           L == {l \in {least * 2 ^ k : k \in 0 .. need} : l >= need}
           len == Min(L)
<1>1. least \in Nat /\ 1 <= least OBVIOUS
<1>2. L \subseteq Nat
  <2> SUFFICES ASSUME NEW k \in 0 .. need PROVE least * 2 ^ k \in Nat OBVIOUS
  <2>1. k \in Nat OBVIOUS
  <2>2. 2 ^ k \in Nat BY <2>1, PowerExceeds
  <2> HIDE DEF least
  <2> QED BY <2>2, <1>1
<1>3. least * 2 ^ need \in L
  <2> DEFINE e == 2 ^ need
  <2>1. e \in Nat /\ need <= e BY PowerExceeds
  <2> HIDE DEF least, e
  <2>2. need <= least * e BY <1>1, <2>1
  <2> QED BY <2>2 DEF e
<1>4. len \in L BY <1>2, <1>3, MinIsLeast
<1>5. len \in Nat /\ need <= len BY <1>2, <1>4
<1>6. Grown(m, need) = [i \in 0 .. len - 1 |-> IF i \in DOMAIN m THEN m[i] ELSE NoByte]
  BY DEF Grown
<1> HIDE DEF len
<1>7. Grown(m, need) \in [0 .. len - 1 -> Cell] BY <1>6 DEF Cell
<1>8. \A i \in 0 .. totallen - 1 : Grown(m, need)[i] = m[i]
  BY <1>5, <1>6
<1> QED BY <1>5, <1>7, <1>8

\* A block as long as it says.
LEMMA LengthOf ==
  ASSUME NEW n \in Nat, NEW m \in [0 .. n - 1 -> Cell]
  PROVE  Cardinality(DOMAIN m) = n
<1>1. Cardinality(0 .. n - 1) = n BY FS_Interval
<1> QED BY <1>1

\* buffer_read appends what it has read to the unread bytes, whether there
\* was room behind them, the drained bytes had to make room, or a longer block
\* (buffer.c:43-125).
THEOREM ReadAppends ==
  ASSUME MinLen \in Nat \ {0}, Sound, NEW new \in Seq(Byte), Read(new)
  PROVE  Sound' /\ Data' = Data \o new
<1> DEFINE n == Len(new)
<1>1. n \in Nat BY LenProperties
<1>2. /\ totallen \in Nat /\ rptr \in Nat /\ off \in Nat /\ rptr + off <= totallen
      /\ mem \in [0 .. totallen - 1 -> Cell] /\ Data \in Seq(Byte)
  BY DEF Sound, Cell
<1>3. off' = off + n BY DEF Read
<1>4. \A i \in 1 .. off : mem[rptr + i - 1] = Data[i] BY DEF Data
<1>5. Data \o new \in Seq(Byte) BY <1>2, ConcatProperties
<1>6. SUFFICES ASSUME NEW len \in Nat, NEW at \in Nat, at + off + n <= len,
                      NEW m \in [0 .. len - 1 -> Cell],
                      \A i \in 1 .. off : m[at + i - 1] = Data[i],
                      mem' = Write(m, at + off, new), rptr' = at
               PROVE  Sound' /\ Data' = Data \o new
  <2>1. CASE Fits(n) /\ mem' = Write(mem, rptr + off, new) /\ rptr' = rptr
    <3>1. rptr + off + n <= totallen BY <2>1, <1>1, <1>2 DEF Fits
    <3> QED BY <1>2, <1>4, <1>6, <2>1, <3>1
  <2>2. Aligned \in [0 .. totallen - 1 -> Cell] /\ \A i \in 1 .. off : Aligned[i - 1] = Data[i]
    <3>1. Aligned = [i \in 0 .. totallen - 1 |-> IF i < off THEN mem[rptr + i] ELSE mem[i]]
      BY <1>2 DEF Aligned
    <3>2. Aligned \in [0 .. totallen - 1 -> Cell] BY <1>2, <3>1
    <3>3. ASSUME NEW i \in 1 .. off PROVE Aligned[i - 1] = Data[i]
      <4>1. i - 1 \in 0 .. totallen - 1 /\ i - 1 < off BY <1>2
      <4>2. Aligned[i - 1] = mem[rptr + (i - 1)] BY <4>1, <3>1
      <4>3. rptr + (i - 1) = rptr + i - 1 BY <1>2
      <4> QED BY <4>2, <4>3, <1>4
    <3> QED BY <3>2, <3>3
  <2>3. CASE ~Fits(n) /\ rptr >= n /\ mem' = Write(Aligned, off, new) /\ rptr' = 0
    <3>1. 0 + off + n <= totallen BY <2>3, <1>1, <1>2
    <3>2. mem' = Write(Aligned, 0 + off, new) BY <2>3, <1>2
    <3>3. \A i \in 1 .. off : Aligned[0 + i - 1] = Data[i] BY <2>2
    <3> HIDE DEF n
    <3> QED BY <1>2, <1>6, <2>2, <2>3, <3>1, <3>2, <3>3
  <2>4. CASE ~Fits(n) /\ rptr < n /\ rptr' = 0
               /\ mem' = Write(Grown(Aligned, rptr + off + n), off, new)
    <3> DEFINE need == rptr + off + n
               g == Grown(Aligned, need)
    <3>1. need \in Nat /\ totallen < need BY <2>4, <1>1, <1>2 DEF Fits
    <3>2. PICK len \in Nat : /\ need <= len /\ g \in [0 .. len - 1 -> Cell]
                            /\ \A i \in 0 .. totallen - 1 : g[i] = Aligned[i]
      BY <3>1, <2>2, <1>2, GrownIsEnough
    <3>3. 0 + off + n <= len BY <3>1, <3>2, <1>1, <1>2
    <3>4. \A i \in 1 .. off : g[0 + i - 1] = Data[i]
      <4> SUFFICES ASSUME NEW i \in 1 .. off PROVE g[0 + i - 1] = Data[i] OBVIOUS
      <4>1. 0 + i - 1 = i - 1 /\ i - 1 \in 0 .. totallen - 1 BY <1>2
      <4> HIDE DEF g
      <4> QED BY <4>1, <3>2, <2>2
    <3>5. mem' = Write(g, 0 + off, new) BY <2>4, <1>2
    <3> HIDE DEF n, g
    <3> QED BY <1>6, <2>4, <3>2, <3>3, <3>4, <3>5
  <2> QED BY <2>1, <2>3, <2>4 DEF Read
<1> HIDE DEF n
<1>7. /\ mem' \in [0 .. len - 1 -> Cell]
      /\ [i \in 1 .. off + n |-> mem'[at + i - 1]] = Data \o new
  <2>1. DOMAIN new = 1 .. n /\ \A j \in 1 .. n : new[j] \in Byte
    BY ElementOfSeq, LenProperties DEF n
  <2>2. mem' = [i \in 0 .. len - 1 |->
                  IF i - (at + off) + 1 \in 1 .. n THEN new[i - (at + off) + 1] ELSE m[i]]
    BY <1>6, <2>1 DEF Write
  <2>3. mem' \in [0 .. len - 1 -> Cell] BY <2>1, <2>2 DEF Cell
  <2>4. Len(Data) = off BY <1>2 DEF Data
  <2>5. Data \o new \in Seq(Byte) /\ Len(Data \o new) = off + n
    BY <1>2, <2>4, ConcatProperties DEF n
  <2>6. Data \o new \in [1 .. off + n -> Byte] BY <2>5, LenProperties
  <2>7. \A i \in 1 .. off + n : (Data \o new)[i] = IF i <= off THEN Data[i] ELSE new[i - off]
    BY <1>2, <2>4, ConcatProperties DEF n
  <2>8. ASSUME NEW i \in 1 .. off + n
        PROVE  mem'[at + i - 1] = IF i <= off THEN Data[i] ELSE new[i - off]
    <3>1. at + i - 1 \in 0 .. len - 1 BY <1>1, <1>2, <1>6
    <3>2. CASE i <= off
      <4>1. ~((at + i - 1) - (at + off) + 1 \in 1 .. n) BY <3>2, <1>1, <1>2
      <4>2. mem'[at + i - 1] = m[at + i - 1] BY <4>1, <3>1, <2>2
      <4> QED BY <4>2, <3>2, <1>2, <1>6
    <3>3. CASE ~(i <= off)
      <4>1. (at + i - 1) - (at + off) + 1 = i - off /\ i - off \in 1 .. n
        BY <3>3, <1>1, <1>2
      <4>2. mem'[at + i - 1] = new[i - off] BY <4>1, <3>1, <2>2
      <4> QED BY <4>2, <3>3
    <3> QED BY <3>2, <3>3
  <2> QED BY <2>3, <2>6, <2>7, <2>8
<1>8. Data' = Data \o new
  <2>1. Data' = [i \in 1 .. off' |-> mem'[rptr' + i - 1]] BY DEF Data
  <2> QED BY <2>1, <1>3, <1>6, <1>7
<1>9. totallen' = len
  <2>1. totallen' = Cardinality(DOMAIN mem') BY DEF totallen
  <2> QED BY <2>1, <1>7, LengthOf
<1>10. off' \in Nat /\ rptr' \in Nat /\ rptr' + off' <= totallen'
  BY <1>1, <1>2, <1>3, <1>6, <1>9
<1> QED BY <1>5, <1>6, <1>7, <1>8, <1>9, <1>10 DEF Sound, Cell

\* buffer_drain_ptr, given a place among the unread bytes or just behind them,
\* removes what is before it, which the caller may have written over by then;
\* an empty buffer starts from its beginning again
\* (buffer.c:161-178).
THEOREM DrainPtrRemoves ==
  ASSUME Sound, NEW ptr \in Nat, rptr <= ptr, ptr <= rptr + off,
         DrainPtr(ptr), mem' \in [DOMAIN mem -> Cell],
         \A i \in ptr .. rptr + off - 1 : mem'[i] = mem[i]
  PROVE  Sound' /\ Data' = SubSeq(Data, ptr - rptr + 1, off)
<1>1. /\ totallen \in Nat /\ rptr \in Nat /\ off \in Nat /\ rptr + off <= totallen
      /\ mem \in [0 .. totallen - 1 -> Byte \cup {NoByte}] /\ Data \in Seq(Byte)
  BY DEF Sound
<1>2. totallen' = totallen /\ mem' \in [0 .. totallen - 1 -> Byte \cup {NoByte}]
  <2>1. DOMAIN mem' = DOMAIN mem OBVIOUS
  <2> QED BY <2>1, <1>1 DEF totallen, Cell
<1>3. Len(Data) = off BY <1>1 DEF Data
<1> DEFINE d == ptr - rptr
<1>4. d \in 0 .. off /\ ptr = rptr + d BY <1>1
<1>5. off' = off - d /\ off' \in Nat /\ rptr' \in Nat /\ (off' # 0 => rptr' = rptr + d)
      /\ rptr' + off' <= totallen
  BY <1>1, <1>4 DEF DrainPtr
<1> HIDE DEF d
<1>6. SubSeq(Data, d + 1, off) = [i \in 1 .. off - d |-> Data[i + d]]
  <2>1. off - (d + 1) + 1 = off - d BY <1>1, <1>4
  <2> QED BY <1>1, <1>3, <1>4, <2>1
<1>7. SubSeq(Data, d + 1, off) \in Seq(Byte)
  BY <1>1, <1>3, <1>4, SubSeqProperties
<1>8. Data' = [i \in 1 .. off' |-> mem'[rptr' + i - 1]] BY DEF Data
<1>9. ASSUME NEW i \in 1 .. off - d PROVE mem'[rptr' + i - 1] = Data[i + d]
  <2>1. rptr' = rptr + d BY <1>4, <1>5, <1>1
  <2>2. i + d \in 1 .. off BY <1>4, <1>1
  <2>3. Data[i + d] = mem[rptr + (i + d) - 1] BY <2>2 DEF Data
  <2> DEFINE l == rptr + (i + d) - 1
  <2>4. rptr' + i - 1 = l /\ l \in ptr .. rptr + off - 1 BY <2>1, <1>4, <1>1
  <2> HIDE DEF l
  <2>5. mem'[l] = mem[l] BY <2>4
  <2> QED BY <2>3, <2>4, <2>5 DEF l
<1>10. Data' = SubSeq(Data, d + 1, off) BY <1>5, <1>6, <1>8, <1>9
<1> QED BY <1>1, <1>2, <1>5, <1>7, <1>10 DEF Sound, d
\* buffer_find_chr returns the first unread byte of the value, and none only if
\* there is none.
THEOREM FindsTheFirst ==
  ASSUME Sound, NEW c
  PROVE  /\ \A p \in FindChr(c) :
              /\ p = [block |-> block, at |-> p.at] /\ p.at \in Unread /\ mem[p.at].val = c
              /\ \A i \in Unread : mem[i].val = c => p.at <= i
         /\ FindChr(c) = {} => \A i \in Unread : mem[i].val # c
<1> DEFINE found == {i \in Unread : mem[i].val = c}
<1>1. FindChr(c) = {[block |-> block, at |-> i] : i \in {f \in found : \A j \in found : f <= j}}
  BY DEF FindChr
<1>2. found \in SUBSET Nat BY DEF Sound, Unread
<1>3. found # {} => Min(found) \in {f \in found : \A j \in found : f <= j}
  BY <1>2, MinIsLeast
<1> HIDE DEF found
<1>4. ASSUME found # {} PROVE FindChr(c) # {}
  <2>1. [block |-> block, at |-> Min(found)] \in FindChr(c) BY <1>1, <1>3, <1>4
  <2> QED BY <2>1
<1> QED BY <1>1, <1>4 DEF found

---------------------------------------------------------------------------
(* Flattening *)

\* Every nonempty set of naturals has a least element.
LEMMA LeastExists ==
  ASSUME NEW T \in SUBSET Nat, T # {}
  PROVE  \E m \in T : \A y \in T : m <= y
BY MinIsLeast

\* The recursion of FlattenSeq has a solution on each initial part of a
\* sequence of sequences.
LEMMA FlattenExists ==
  ASSUME NEW S, NEW ss \in Seq(Seq(S)), NEW n \in 1 .. Len(ss)
  PROVE  \E g : g = [i \in 1 .. n |-> IF i = 1 THEN ss[i] ELSE g[i - 1] \o ss[i]]
<1> DEFINE Has(m) == \E g : g = [i \in 1 .. m |-> IF i = 1 THEN ss[i] ELSE g[i - 1] \o ss[i]]
           Bad == {m \in 1 .. n : ~Has(m)}
<1>1. n \in Nat /\ n \in 1 .. n BY LenProperties
<1>2. SUFFICES ASSUME Bad # {} PROVE FALSE BY <1>1
<1> HIDE DEF Has
<1>3. Bad \in SUBSET Nat BY <1>1
<1>4. PICK m \in Bad : \A y \in Bad : m <= y BY <1>2, <1>3, LeastExists
<1>5. m \in 1 .. n /\ ~Has(m) BY <1>4
<1>6. CASE m = 1
  <2> DEFINE g == [i \in 1 .. 1 |-> ss[i]]
  <2>1. g = [i \in 1 .. 1 |-> IF i = 1 THEN ss[i] ELSE g[i - 1] \o ss[i]] OBVIOUS
  <2> HIDE DEF g
  <2> QED BY <1>5, <1>6, <2>1 DEF Has
<1>7. CASE m # 1
  <2>1. m - 1 \in 1 .. n /\ m \in Nat /\ ~(m <= m - 1) BY <1>5, <1>7, <1>1
  <2>2. Has(m - 1) BY <2>1, <1>4
  <2>3. PICK g : g = [i \in 1 .. m - 1 |-> IF i = 1 THEN ss[i] ELSE g[i - 1] \o ss[i]]
    BY <2>2 DEF Has
  <2> DEFINE h == [i \in 1 .. m |-> IF i = m THEN g[m - 1] \o ss[m] ELSE g[i]]
  <2>4. ASSUME NEW i \in 1 .. m
        PROVE  h[i] = IF i = 1 THEN ss[i] ELSE h[i - 1] \o ss[i]
    <3>1. CASE i = m
      <4>1. i - 1 \in 1 .. m /\ i - 1 # m BY <3>1, <2>1, <1>7
      <4>2. h[i - 1] = g[i - 1] /\ h[i] = g[m - 1] \o ss[m] BY <4>1, <3>1
      <4> QED BY <4>2, <3>1, <1>7
    <3>2. CASE i # m
      <4>1. i \in 1 .. m - 1 BY <3>2, <2>1
      <4>2. h[i] = g[i] BY <3>2
      <4>3. g[i] = IF i = 1 THEN ss[i] ELSE g[i - 1] \o ss[i] BY <4>1, <2>3
      <4>4. i # 1 => h[i - 1] = g[i - 1]
        <5> SUFFICES ASSUME i # 1 PROVE h[i - 1] = g[i - 1] OBVIOUS
        <5>1. i - 1 \in 1 .. m /\ i - 1 # m BY <4>1, <2>1
        <5> QED BY <5>1
      <4> HIDE DEF h
      <4> QED BY <4>2, <4>3, <4>4
    <3> QED BY <3>1, <3>2
  <2>5. h = [i \in 1 .. m |-> h[i]] OBVIOUS
  <2> HIDE DEF h
  <2>6. h = [i \in 1 .. m |-> IF i = 1 THEN ss[i] ELSE h[i - 1] \o ss[i]] BY <2>4, <2>5
  <2> QED BY <2>6, <1>5 DEF Has
<1> QED BY <1>6, <1>7

\* FlattenSeq is the last value of that recursion.
LEMMA FlattenIsFold ==
  ASSUME NEW S, NEW ss \in Seq(Seq(S)), Len(ss) # 0
  PROVE  \E f : /\ f = [i \in 1 .. Len(ss) |-> IF i = 1 THEN ss[i] ELSE f[i - 1] \o ss[i]]
               /\ FlattenSeq(ss) = f[Len(ss)]
<1> DEFINE n == Len(ss)
           f == CHOOSE g : g = [i \in 1 .. n |-> IF i = 1 THEN ss[i] ELSE g[i - 1] \o ss[i]]
<1>1. n \in 1 .. n
  <2>1. n \in Nat BY LenProperties
  <2> QED BY <2>1
<1>2. f = [i \in 1 .. n |-> IF i = 1 THEN ss[i] ELSE f[i - 1] \o ss[i]]
  BY <1>1, FlattenExists
<1>3. FlattenSeq(ss) = f[n] BY DEF FlattenSeq
<1> HIDE DEF f
<1> QED BY <1>2, <1>3

\* The places of the elements of two sequences in their concatenation.
LEMMA ConcatPlaces ==
  ASSUME NEW S, NEW u \in Seq(S), NEW v \in Seq(S)
  PROVE  /\ u \o v \in Seq(S)
         /\ \A i \in 1 .. Len(u) : i \in 1 .. Len(u \o v) /\ (u \o v)[i] = u[i]
         /\ \A j \in 1 .. Len(v) :
              Len(u) + j \in 1 .. Len(u \o v) /\ (u \o v)[Len(u) + j] = v[j]
         /\ \A i \in 1 .. Len(u \o v) :
              i \in 1 .. Len(u) \/ \E j \in 1 .. Len(v) : i = Len(u) + j
<1>1. /\ u \o v \in Seq(S) /\ Len(u \o v) = Len(u) + Len(v)
      /\ Len(u) \in Nat /\ Len(v) \in Nat
      /\ \A i \in 1 .. Len(u) + Len(v) :
           (u \o v)[i] = IF i <= Len(u) THEN u[i] ELSE v[i - Len(u)]
  BY ConcatProperties, LenProperties
<1> DEFINE a == Len(u)
           b == Len(v)
           w == u \o v
<1>2. \A i \in 1 .. a : i \in 1 .. a + b /\ i <= a BY <1>1
<1>3. \A j \in 1 .. b : a + j \in 1 .. a + b /\ ~(a + j <= a) /\ a + j - a = j BY <1>1
<1>4. \A i \in 1 .. a + b : i \in 1 .. a \/ (i - a \in 1 .. b /\ i = a + (i - a)) BY <1>1
<1>5. /\ w \in Seq(S) /\ Len(w) = a + b
      /\ \A i \in 1 .. a + b : w[i] = IF i <= a THEN u[i] ELSE v[i - a]
  BY <1>1
<1> HIDE DEF a, b, w
<1>6. \A i \in 1 .. a : i \in 1 .. Len(w) /\ w[i] = u[i] BY <1>2, <1>5
<1>7. ASSUME NEW j \in 1 .. b PROVE a + j \in 1 .. Len(w) /\ w[a + j] = v[j]
  <2> DEFINE i == a + j
  <2>1. i \in 1 .. a + b /\ ~(i <= a) /\ i - a = j BY <1>1 DEF a, b
  <2> HIDE DEF i
  <2>2. i \in 1 .. Len(w) /\ w[i] = v[j] BY <2>1, <1>5
  <2> QED BY <2>2 DEF i
<1>8. \A i \in 1 .. Len(w) : i \in 1 .. a \/ \E j \in 1 .. b : i = a + j BY <1>4, <1>5
<1> QED BY <1>5, <1>6, <1>7, <1>8 DEF a, b, w

\* The elements of ss[k] stand in s behind place base[k], those of one k in
\* front of those of the next, and nothing else is in s.
PutAt(base, ss, s) ==
  /\ \A k \in 1 .. Len(ss) : \A j \in 1 .. Len(ss[k]) :
       base[k] + j \in 1 .. Len(s) /\ s[base[k] + j] = ss[k][j]
  /\ \A i \in 1 .. Len(s) :
       \E k \in 1 .. Len(ss) : \E j \in 1 .. Len(ss[k]) : i = base[k] + j
  /\ \A k, l \in 1 .. Len(ss) : k < l => \A j \in 1 .. Len(ss[k]) : base[k] + j <= base[l]

\* Sequences over S put one behind the other are a sequence over S, in which
\* each of them has its place.
LEMMA FlattenPlaces ==
  ASSUME NEW S, NEW ss \in Seq(Seq(S)), Len(ss) # 0
  PROVE  /\ FlattenSeq(ss) \in Seq(S)
         /\ \E base \in [1 .. Len(ss) -> Nat] : PutAt(base, ss, FlattenSeq(ss))
<1> DEFINE n == Len(ss)
<1>1. n \in Nat /\ n \in 1 .. n
  <2>1. n \in Nat BY LenProperties
  <2> QED BY <2>1
<1>2. PICK f : /\ f = [i \in 1 .. n |-> IF i = 1 THEN ss[i] ELSE f[i - 1] \o ss[i]]
               /\ FlattenSeq(ss) = f[n]
  BY FlattenIsFold
<1>3. \A k \in 1 .. n : ss[k] \in Seq(S) /\ Len(ss[k]) \in Nat
  <2> SUFFICES ASSUME NEW k \in 1 .. n PROVE ss[k] \in Seq(S) /\ Len(ss[k]) \in Nat OBVIOUS
  <2>1. ss[k] \in Seq(S) BY ElementOfSeq
  <2> QED BY <2>1, LenProperties
<1> HIDE DEF n
<1>4. \A m \in 1 .. n : m # 1 => m - 1 \in 1 .. n /\ m - 1 \in Nat /\ ~(m <= m - 1) BY <1>1
<1>5. f[1] = ss[1] /\ \A m \in 1 .. n : m # 1 => f[m] = f[m - 1] \o ss[m]
  <2>1. 1 \in 1 .. n BY <1>1
  <2> QED BY <2>1, <1>2
<1>6. \A m \in 1 .. n : f[m] \in Seq(S) /\ Len(f[m]) \in Nat
  <2> DEFINE Bad == {i \in 1 .. n : f[i] \notin Seq(S)}
  <2>1. ASSUME Bad # {} PROVE FALSE
    <3>1. Bad \in SUBSET Nat BY <1>1
    <3>2. PICK m \in Bad : \A y \in Bad : m <= y BY <2>1, <3>1, LeastExists
    <3>3. m \in 1 .. n /\ f[m] \notin Seq(S) BY <3>2
    <3>4. CASE m = 1 BY <3>3, <3>4, <1>3, <1>5
    <3>5. CASE m # 1
      <4>1. f[m - 1] \in Seq(S) BY <3>2, <3>3, <3>5, <1>4
      <4>2. f[m - 1] \o ss[m] \in Seq(S) BY <4>1, <3>3, <1>3, ConcatProperties
      <4> QED BY <4>2, <3>3, <3>5, <1>5
    <3> QED BY <3>4, <3>5
  <2> QED BY <2>1, LenProperties
<1> DEFINE base == [k \in 1 .. n |-> IF k = 1 THEN 0 ELSE Len(f[k - 1])]
<1>7. base \in [1 .. n -> Nat] BY <1>4, <1>6
<1>8. 1 \in 1 .. n /\ base[1] = 0 /\ \A m \in 1 .. n : m # 1 => base[m] = Len(f[m - 1]) BY <1>1
<1> DEFINE Placed(m) ==
             /\ \A k \in 1 .. m : \A j \in 1 .. Len(ss[k]) :
                  base[k] + j \in 1 .. Len(f[m]) /\ f[m][base[k] + j] = ss[k][j]
             /\ \A i \in 1 .. Len(f[m]) :
                  \E k \in 1 .. m : \E j \in 1 .. Len(ss[k]) : i = base[k] + j
<1> HIDE DEF base
<1>9. Placed(1)
  <2>1. \A j \in 1 .. Len(ss[1]) : base[1] + j = j BY <1>3, <1>8
  <2>2. 1 \in 1 .. 1 /\ \A k \in 1 .. 1 : k = 1 OBVIOUS
  <2> QED BY <2>1, <2>2, <1>5
<1>10. ASSUME NEW m \in 1 .. n, m # 1, Placed(m - 1) PROVE Placed(m)
  <2> DEFINE u == f[m - 1]
             v == ss[m]
  <2>1. u \in Seq(S) /\ v \in Seq(S) /\ f[m] = u \o v /\ base[m] = Len(u)
    BY <1>3, <1>4, <1>5, <1>6, <1>8, <1>10
  <2>2. \A k \in 1 .. m : k = m \/ k \in 1 .. m - 1 BY <1>1
  <2>3. m \in 1 .. m /\ \A k \in 1 .. m - 1 : k \in 1 .. m BY <1>1
  <2>4. /\ \A i \in 1 .. Len(u) : i \in 1 .. Len(f[m]) /\ f[m][i] = u[i]
        /\ \A j \in 1 .. Len(v) :
             Len(u) + j \in 1 .. Len(f[m]) /\ f[m][Len(u) + j] = v[j]
        /\ \A i \in 1 .. Len(f[m]) :
             i \in 1 .. Len(u) \/ \E j \in 1 .. Len(v) : i = Len(u) + j
    <3> HIDE DEF u, v
    <3> QED BY <2>1, ConcatPlaces
  <2>5. ASSUME NEW k \in 1 .. m, NEW j \in 1 .. Len(ss[k])
        PROVE  base[k] + j \in 1 .. Len(f[m]) /\ f[m][base[k] + j] = ss[k][j]
    <3>1. CASE k = m BY <3>1, <2>1, <2>4
    <3>2. CASE k # m
      <4> DEFINE i == base[k] + j
      <4>1. i \in 1 .. Len(u) /\ u[i] = ss[k][j] BY <3>2, <2>2, <1>10
      <4> HIDE DEF i, u
      <4>2. i \in 1 .. Len(f[m]) /\ f[m][i] = ss[k][j] BY <4>1, <2>4
      <4> QED BY <4>2 DEF i
    <3> QED BY <3>1, <3>2
  <2>6. ASSUME NEW i \in 1 .. Len(f[m])
        PROVE  \E k \in 1 .. m : \E j \in 1 .. Len(ss[k]) : i = base[k] + j
    <3>1. CASE i \in 1 .. Len(u)
      <4>1. \E k \in 1 .. m - 1 : \E j \in 1 .. Len(ss[k]) : i = base[k] + j BY <3>1, <1>10
      <4> QED BY <4>1, <2>3
    <3>2. CASE \E j \in 1 .. Len(v) : i = Len(u) + j BY <3>2, <2>1, <2>3
    <3> QED BY <3>1, <3>2, <2>4
  <2> QED BY <2>5, <2>6
<1>11. \A m \in 1 .. n : Placed(m)
  <2> HIDE DEF Placed
  <2> DEFINE Bad == {i \in 1 .. n : ~Placed(i)}
  <2>1. ASSUME Bad # {} PROVE FALSE
    <3>1. Bad \in SUBSET Nat BY <1>1
    <3>2. PICK m \in Bad : \A y \in Bad : m <= y BY <2>1, <3>1, LeastExists
    <3>3. m \in 1 .. n /\ ~Placed(m) BY <3>2
    <3>4. m # 1 BY <3>3, <1>9
    <3>5. Placed(m - 1) BY <3>2, <3>3, <3>4, <1>4
    <3> QED BY <3>3, <3>4, <3>5, <1>10
  <2> QED BY <2>1
<1>12. FlattenSeq(ss) = f[n] /\ f[n] \in Seq(S) BY <1>1, <1>2, <1>6
<1>13. ASSUME NEW k \in 1 .. n, NEW l \in 1 .. n, k < l, NEW j \in 1 .. Len(ss[k])
       PROVE  base[k] + j <= base[l]
  <2>1. l # 1 /\ l - 1 \in 1 .. n /\ k \in 1 .. l - 1 BY <1>1, <1>13
  <2>2. Placed(l - 1) /\ base[l] = Len(f[l - 1]) /\ Len(f[l - 1]) \in Nat
    BY <2>1, <1>6, <1>8, <1>11
  <2>3. base[k] + j \in 1 .. Len(f[l - 1]) BY <2>1, <2>2
  <2> DEFINE i == base[k] + j
             e == Len(f[l - 1])
  <2>4. i \in 1 .. e /\ e \in Nat /\ base[l] = e BY <2>2, <2>3
  <2> HIDE DEF i, e, Placed
  <2>5. i <= base[l] BY <2>4
  <2> QED BY <2>5 DEF i
<1>14. Placed(n) BY <1>1, <1>11
<1>15. PutAt(base, ss, FlattenSeq(ss)) BY <1>12, <1>13, <1>14 DEF PutAt, n
<1> HIDE DEF Placed
<1> QED BY <1>7, <1>12, <1>15 DEF n

---------------------------------------------------------------------------
(* What a peer sends *)

\* Up to n messages of at most m values in V, and the bytes they are sent as.
Messages(V, n, m) == [1 .. n -> {c \in Seq(V) : Len(c) \in 1 .. m}]
Tagged(V, n, m) == [val : V, msg : 1 .. n, at : 1 .. m]

\* Message k stands in s behind place base[k], each in its turn, and nothing
\* else is in s.
SentAt(base, msgs, n, s) ==
  /\ \A k \in 1 .. n : \A j \in 1 .. Len(msgs[k]) :
       /\ base[k] + j \in 1 .. Len(s)
       /\ s[base[k] + j] = [val |-> msgs[k][j], msg |-> k, at |-> j]
  /\ \A i \in 1 .. Len(s) :
       \E k \in 1 .. n : \E j \in 1 .. Len(msgs[k]) : i = base[k] + j
  /\ \A k, l \in 1 .. n : k < l => \A j \in 1 .. Len(msgs[k]) : base[k] + j <= base[l]

\* Each message has its place in what is sent, and nothing else is sent.
LEMMA SentPlaces ==
  ASSUME NEW V, NEW n \in Nat, NEW m \in Nat, NEW msgs \in Messages(V, n, m)
  PROVE  /\ Sent(msgs) \in Seq(Tagged(V, n, m))
         /\ \E base \in [1 .. n -> Nat] : SentAt(base, msgs, n, Sent(msgs))
<1> DEFINE of(k) == [j \in DOMAIN msgs[k] |-> [val |-> msgs[k][j], msg |-> k, at |-> j]]
           ss == [k \in DOMAIN msgs |-> of(k)]
           B == Tagged(V, n, m)
           s == Sent(msgs)
<1>1. /\ msgs \in [1 .. n -> Seq(V)] /\ DOMAIN msgs = 1 .. n
      /\ \A k \in 1 .. n : Len(msgs[k]) \in 1 .. m
  BY DEF Messages
<1>2. ASSUME NEW k \in 1 .. n
      PROVE  /\ of(k) \in Seq(B) /\ Len(of(k)) = Len(msgs[k])
             /\ \A j \in 1 .. Len(msgs[k]) :
                  of(k)[j] = [val |-> msgs[k][j], msg |-> k, at |-> j]
  <2>1. msgs[k] \in Seq(V) /\ Len(msgs[k]) \in 1 .. m BY <1>1
  <2> DEFINE e == Len(msgs[k])
  <2>2. e \in Nat /\ e <= m /\ DOMAIN msgs[k] = 1 .. e BY <2>1, LenProperties
  <2>3. ASSUME NEW j \in 1 .. e PROVE [val |-> msgs[k][j], msg |-> k, at |-> j] \in B
    <3>1. msgs[k][j] \in V BY <2>1, ElementOfSeq
    <3>2. j \in 1 .. m BY <2>1
    <3> QED BY <3>1, <3>2 DEF Tagged
  <2>4. \A j \in 1 .. e : of(k)[j] = [val |-> msgs[k][j], msg |-> k, at |-> j] BY <2>2
  <2> HIDE DEF e
  <2>5. of(k) \in [1 .. e -> B] BY <2>2, <2>3
  <2> HIDE DEF of, B
  <2>6. of(k) \in Seq(B) /\ DOMAIN of(k) = 1 .. e BY <2>2, <2>5, SeqDef
  <2>7. Len(of(k)) = e BY <2>2, <2>6, LenProperties
  <2> QED BY <2>4, <2>6, <2>7 DEF e
<1>3. ss \in Seq(Seq(B)) /\ Len(ss) = n /\ \A k \in 1 .. n : ss[k] = of(k)
  <2> HIDE DEF of, B
  <2>1. ss \in [1 .. n -> Seq(B)] /\ \A k \in 1 .. n : ss[k] = of(k)
    BY <1>1, <1>2
  <2> HIDE DEF ss
  <2>2. ss \in Seq(Seq(B)) /\ DOMAIN ss = 1 .. n BY <2>1, SeqDef
  <2>3. Len(ss) = n BY <2>2, LenProperties
  <2> QED BY <2>1, <2>2, <2>3
<1>4. s = FlattenSeq(ss) BY DEF Sent
<1> HIDE DEF ss, of, B, s
<1>5. CASE n = 0
  <2>1. ss = <<>> BY <1>3, <1>5, EmptySeq
  <2>2. s = <<>> BY <2>1, <1>3, <1>4, <1>5 DEF FlattenSeq
  <2> DEFINE base == [k \in 1 .. n |-> 0]
  <2>3. base \in [1 .. n -> Nat] /\ 1 .. n = {} /\ 1 .. Len(s) = {} /\ s \in Seq(B)
    BY <2>2, <1>5
  <2> QED BY <2>3 DEF SentAt, s, B
<1>6. CASE n # 0
  <2>0. Len(ss) # 0 BY <1>3, <1>6
  <2>1. PICK base \in [1 .. Len(ss) -> Nat] : PutAt(base, ss, FlattenSeq(ss))
    BY <2>0, <1>3, FlattenPlaces
  <2>2. s \in Seq(B) BY <2>0, <1>3, <1>4, FlattenPlaces
  <2>3. base \in [1 .. n -> Nat] BY <1>3
  <2>4. \A k \in 1 .. n : Len(ss[k]) = Len(msgs[k]) BY <1>2, <1>3
  <2>5. \A k \in 1 .. n : \A j \in 1 .. Len(msgs[k]) :
          ss[k][j] = [val |-> msgs[k][j], msg |-> k, at |-> j]
    BY <1>2, <1>3
  <2>6. /\ \A k \in 1 .. n : \A j \in 1 .. Len(msgs[k]) :
             base[k] + j \in 1 .. Len(s) /\ s[base[k] + j] = ss[k][j]
        /\ \A i \in 1 .. Len(s) :
             \E k \in 1 .. n : \E j \in 1 .. Len(msgs[k]) : i = base[k] + j
        /\ \A k, l \in 1 .. n : k < l =>
             \A j \in 1 .. Len(msgs[k]) : base[k] + j <= base[l]
    BY <2>1, <2>4, <1>3, <1>4 DEF PutAt
  <2>7. ASSUME NEW k \in 1 .. n, NEW j \in 1 .. Len(msgs[k])
        PROVE  /\ base[k] + j \in 1 .. Len(s)
               /\ s[base[k] + j] = [val |-> msgs[k][j], msg |-> k, at |-> j]
    <3> DEFINE i == base[k] + j
    <3>1. i \in 1 .. Len(s) /\ s[i] = ss[k][j] BY <2>6
    <3> HIDE DEF i
    <3>2. s[i] = [val |-> msgs[k][j], msg |-> k, at |-> j] BY <3>1, <2>5
    <3> QED BY <3>1, <3>2 DEF i
  <2>8. SentAt(base, msgs, n, s) BY <2>6, <2>7 DEF SentAt
  <2> QED BY <2>2, <2>3, <2>8 DEF s, B
<1> QED BY <1>5, <1>6

\* The place behind which the message of the byte at i begins, and its length.
begin(msgs, i) == i - Sent(msgs)[i].at
size(msgs, i) == Len(msgs[Sent(msgs)[i].msg])
InPlace(msgs, n, m, i) ==
  LET s == Sent(msgs) IN
  /\ i \in Nat /\ begin(msgs, i) \in Nat /\ size(msgs, i) \in 1 .. m
  /\ i = begin(msgs, i) + s[i].at
  /\ s[i].msg \in 1 .. n /\ s[i].at \in 1 .. size(msgs, i)
  /\ DOMAIN msgs[s[i].msg] = 1 .. size(msgs, i)
  /\ \A j \in 1 .. size(msgs, i) :
       /\ begin(msgs, i) + j \in DOMAIN s
       /\ s[begin(msgs, i) + j] = [val |-> msgs[s[i].msg][j], msg |-> s[i].msg, at |-> j]
  /\ \A l \in DOMAIN s : s[l].msg = s[i].msg => begin(msgs, l) = begin(msgs, i)
  /\ \A l \in DOMAIN s : i <= l => s[i].msg <= s[l].msg

\* The bytes of a message stand side by side, and each message in its turn.
LEMMA SentAround ==
  ASSUME NEW V, NEW n \in Nat, NEW m \in Nat, NEW msgs \in Messages(V, n, m),
         NEW i \in DOMAIN Sent(msgs)
  PROVE  InPlace(msgs, n, m, i)
<1> DEFINE s == Sent(msgs)
<1>1. s \in Seq(Tagged(V, n, m)) /\ Len(s) \in Nat /\ DOMAIN s = 1 .. Len(s)
  BY SentPlaces, LenProperties
<1>2. PICK base \in [1 .. n -> Nat] : SentAt(base, msgs, n, s) BY SentPlaces
<1>3. msgs \in [1 .. n -> Seq(V)] /\ \A k \in 1 .. n : Len(msgs[k]) \in 1 .. m
  BY DEF Messages
<1> HIDE DEF s
<1>4. ASSUME NEW l \in DOMAIN s
      PROVE  /\ s[l].msg \in 1 .. n /\ s[l].at \in 1 .. Len(msgs[s[l].msg])
             /\ l = base[s[l].msg] + s[l].at /\ l - s[l].at = base[s[l].msg]
  <2>1. PICK k \in 1 .. n : \E j \in 1 .. Len(msgs[k]) : l = base[k] + j
    BY <1>1, <1>2 DEF SentAt
  <2> PICK j \in 1 .. Len(msgs[k]) : l = base[k] + j BY <2>1
  <2>2. s[l] = [val |-> msgs[k][j], msg |-> k, at |-> j] BY <1>2 DEF SentAt
  <2>3. s[l].msg = k /\ s[l].at = j BY <2>2
  <2>4. l - j = base[k] OBVIOUS
  <2> QED BY <2>3, <2>4
<1>5. \A l \in DOMAIN s : /\ begin(msgs, l) = base[s[l].msg]
                          /\ size(msgs, l) = Len(msgs[s[l].msg])
  BY <1>4 DEF begin, size, s
<1> DEFINE k0 == s[i].msg
           e == Len(msgs[k0])
<1>6. /\ k0 \in 1 .. n /\ s[i].at \in 1 .. e /\ i = base[k0] + s[i].at
      /\ begin(msgs, i) = base[k0] /\ size(msgs, i) = e
  BY <1>4, <1>5 DEF s
<1>7. i \in Nat /\ base[k0] \in Nat /\ e \in 1 .. m /\ DOMAIN msgs[k0] = 1 .. e
  BY <1>1, <1>3, <1>6, LenProperties DEF s
<1>8. \A j \in 1 .. e : /\ base[k0] + j \in DOMAIN s
                        /\ s[base[k0] + j] = [val |-> msgs[k0][j], msg |-> k0, at |-> j]
  BY <1>1, <1>2, <1>6 DEF SentAt
<1>9. ASSUME NEW l \in DOMAIN s, i <= l PROVE k0 <= s[l].msg
  <2>1. /\ s[l].msg \in 1 .. n /\ s[l].at \in 1 .. Len(msgs[s[l].msg])
        /\ l = base[s[l].msg] + s[l].at /\ l \in Nat
    BY <1>1, <1>4
  <2> DEFINE k == s[l].msg
             j == s[l].at
  <2>2. k < k0 => base[k] + j <= base[k0] BY <2>1, <1>2, <1>6 DEF SentAt
  <2>3. k < k0 => l <= base[k0] BY <2>1, <2>2
  <2>4. k \in Nat /\ k0 \in Nat BY <2>1, <1>6
  <2>5. base[k0] < l BY <2>1, <1>6, <1>7, <1>9
  <2> HIDE DEF k, k0
  <2>6. ~(k < k0) BY <2>1, <2>3, <2>5, <1>7
  <2>7. k0 <= k BY <2>4, <2>6
  <2> QED BY <2>7 DEF k
<1>10. \A l \in DOMAIN s : s[l].msg = k0 => begin(msgs, l) = begin(msgs, i) BY <1>5, <1>6
<1>11. \A j \in 1 .. size(msgs, i) :
         /\ begin(msgs, i) + j \in DOMAIN s
         /\ s[begin(msgs, i) + j] = [val |-> msgs[k0][j], msg |-> k0, at |-> j]
  BY <1>6, <1>8
<1> HIDE DEF k0, e
<1> QED BY <1>6, <1>7, <1>9, <1>10, <1>11 DEF s, k0, InPlace

\* The byte at place j of message k is sent.
IsSent(msgs, k, j) ==
  \E i \in DOMAIN Sent(msgs) : Sent(msgs)[i] = [val |-> msgs[k][j], msg |-> k, at |-> j]

\* Every byte of every message is sent, and no message is without bytes.
LEMMA SentWhole ==
  ASSUME NEW V, NEW n \in Nat, NEW m \in Nat, NEW msgs \in Messages(V, n, m), NEW k \in 1 .. n
  PROVE  Len(msgs[k]) \in 1 .. m /\ \A j \in 1 .. Len(msgs[k]) : IsSent(msgs, k, j)
<1> DEFINE s == Sent(msgs)
<1>1. s \in Seq(Tagged(V, n, m)) /\ Len(s) \in Nat /\ DOMAIN s = 1 .. Len(s)
  BY SentPlaces, LenProperties
<1>2. PICK base \in [1 .. n -> Nat] : SentAt(base, msgs, n, s) BY SentPlaces
<1> DEFINE e == Len(msgs[k])
<1>3. e \in 1 .. m BY DEF Messages
<1>4. \A j \in 1 .. e : /\ base[k] + j \in DOMAIN s
                        /\ s[base[k] + j] = [val |-> msgs[k][j], msg |-> k, at |-> j]
  BY <1>1, <1>2 DEF SentAt
<1> QED BY <1>3, <1>4 DEF IsSent

=============================================================================
