----------------------------- MODULE FqProofs -----------------------------
(* Proofs about the ring buffer of module Fq, for every ring size, node    *)
(* size and set of messages, and about the size of the rings that fq_new   *)
(* makes of every request (FqSize).                                        *)
EXTENDS FqSize, TLAPS, SequenceTheorems

---------------------------------------------------------------------------
(* Lemmas about the operators *)

\* (i + 1) & (size - 1) steps to the next node and wraps at the last one.
LEMMA IncWraps ==
  ASSUME NEW i \in Slot
  PROVE  /\ Inc(i) = IF i = Size - 1 THEN 0 ELSE i + 1
         /\ Inc(i) \in Slot
<1>1. CASE i = Size - 1
  BY <1>1, FqAssumption DEF Slot, Inc
<1>2. CASE i # Size - 1
  <2>1. i + 1 \in 0 .. Size - 1
    BY <1>2, FqAssumption DEF Slot
  <2>2. (i + 1) % Size = i + 1
    BY <2>1, FqAssumption
  <2>3. QED
    BY <1>2, <2>1, <2>2 DEF Slot, Inc
<1>3. QED
  BY <1>1, <1>2

\* What fq_put stores, clears and starts from are node values, and copying
\* a node out with a buffer of FQ_NODE_SZ bytes cuts nothing more off it.
LEMMA NodeValues ==
  /\ Nothing \in NodeVal
  /\ \A m \in Msg : Stored(m) \in NodeVal
  /\ \A n \in NodeVal : Blank(n) \in NodeVal /\ Copied(n) = n
<1>1. Nothing \in NodeVal
  BY FqAssumption DEF Nothing, NodeVal
<1>2. ASSUME NEW m \in Msg PROVE Stored(m) \in NodeVal
  BY FqAssumption DEF Stored, NodeVal, AtMost
<1>3. ASSUME NEW n \in NodeVal PROVE Blank(n) \in NodeVal
  BY DEF Blank, NodeVal
<1>4. ASSUME NEW n \in NodeVal PROVE Copied(n) = n
  BY FqAssumption DEF Copied, NodeVal, AtMost
<1>5. QED
  BY <1>1, <1>2, <1>3, <1>4

\* The readable nodes: how many there are, where they are, and that the one
\* at widx is not among them.
LEMMA Readable ==
  ASSUME ridx \in Slot, widx \in Slot
  PROVE  /\ Count \in 0 .. Size - 1
         /\ (Count = 0) <=> (ridx = widx)
         /\ (Count = Size - 1) <=> (Inc(widx) = ridx)
         /\ At(0) = ridx
         /\ At(Count) = widx
         /\ \A i \in 0 .. Count - 1 : At(i) \in Slot /\ At(i) # widx
<1>1. Inc(widx) = IF widx = Size - 1 THEN 0 ELSE widx + 1
  BY IncWraps
<1>2. QED
  BY <1>1, FqAssumption DEF Slot, Count, At

\* Moving ridx forward removes the first readable node and no other.
LEMMA AdvanceRidx ==
  ASSUME ridx \in Slot, widx \in Slot, ridx # widx,
         ridx' = Inc(ridx), widx' = widx
  PROVE  /\ Count' = Count - 1
         /\ \A i \in 0 .. Count - 2 : At(i)' = At(i + 1)
<1>1. Inc(ridx) = IF ridx = Size - 1 THEN 0 ELSE ridx + 1
  BY IncWraps
<1>2. QED
  BY <1>1, FqAssumption DEF Slot, Count, At

\* Moving widx forward, where there is room, adds the node it leaves.
LEMMA AdvanceWidx ==
  ASSUME ridx \in Slot, widx \in Slot, Inc(widx) # ridx,
         widx' = Inc(widx), ridx' = ridx
  PROVE  /\ Count' = Count + 1
         /\ \A i \in 0 .. Count : At(i)' = At(i)
<1>1. Inc(widx) = IF widx = Size - 1 THEN 0 ELSE widx + 1
  BY IncWraps
<1>2. QED
  BY <1>1, FqAssumption DEF Slot, Count, At

---------------------------------------------------------------------------
(* The inductive invariant *)

\* A new ring satisfies the invariant.
LEMMA InitIInv == Init => IInv
<1> SUFFICES ASSUME Init PROVE IInv
  OBVIOUS
<1>1. TypeOK
  BY NodeValues, FqAssumption DEF Init, TypeOK, Slot
<1>2. Count = 0
  BY DEF Init, Count
<1>3. QED
  BY <1>1, <1>2 DEF Init, IInv, MutexHeld, RoomForPut, ReadableIsWhole, InPut,
     FilledIsStored, ArgIsMsg

\* No step of the writer or of the reader breaks it.
LEMMA NextIInv == IInv /\ [Next]_vars => IInv'
<1> SUFFICES ASSUME IInv, [Next]_vars PROVE IInv'
  OBVIOUS
<1> USE DEF IInv, MutexHeld, RoomForPut, FilledIsStored, ArgIsMsg, InPut
<1>1. ASSUME NEW m \in Msg, PutLock(m) PROVE IInv'
  BY <1>1 DEF PutLock, Lock, TypeOK, ReadableIsWhole, Count, At
<1>2. CASE PutRoom
  <2> USE <1>2 DEF PutRoom
  <2>1. ridx' \in Slot
    BY IncWraps DEF TypeOK
  <2>2. TypeOK'
    BY <2>1 DEF TypeOK
  <2>3. Inc(widx') # ridx'
    BY IncWraps, FqAssumption DEF TypeOK, Slot
  <2>4. ReadableIsWhole'
    <3>1. CASE Inc(widx) = ridx
      <4>1. ridx # widx
        BY <3>1, IncWraps, FqAssumption DEF TypeOK, Slot
      <4>2. /\ Count' = Count - 1
            /\ \A i \in 0 .. Count - 2 : At(i)' = At(i + 1)
        BY <3>1, <4>1, AdvanceRidx DEF TypeOK
      <4>3. Count \in 0 .. Size - 1
        BY Readable DEF TypeOK
      <4>4. QED
        BY <4>2, <4>3, FqAssumption DEF ReadableIsWhole
    <3>2. CASE Inc(widx) # ridx
      BY <3>2 DEF ReadableIsWhole, Count, At
    <3>3. QED
      BY <3>1, <3>2
  <2>5. QED
    BY <2>2, <2>3, <2>4
<1>3. CASE PutClear
  <2> USE <1>3 DEF PutClear
  <2>1. TypeOK'
    BY NodeValues DEF TypeOK
  <2>2. ReadableIsWhole'
    BY Readable DEF ReadableIsWhole, Count, At, TypeOK
  <2>3. QED
    BY <2>1, <2>2 DEF TypeOK
<1>4. CASE PutFill
  <2> USE <1>4 DEF PutFill
  <2>1. TypeOK'
    BY NodeValues DEF TypeOK
  <2>2. ReadableIsWhole'
    BY Readable DEF ReadableIsWhole, Count, At, TypeOK
  <2>3. QED
    BY <2>1, <2>2 DEF TypeOK
<1>5. CASE PutPublish
  <2> USE <1>5 DEF PutPublish, Unlock
  <2>1. TypeOK'
    BY IncWraps DEF TypeOK
  <2>2. ReadableIsWhole'
    <3>1. /\ Count' = Count + 1
          /\ \A i \in 0 .. Count : At(i)' = At(i)
      BY AdvanceWidx DEF TypeOK
    <3>2. Count \in 0 .. Size - 1 /\ At(Count) = widx
      BY Readable DEF TypeOK
    <3>3. \E m \in Msg : node[widx] = Stored(m)
      OBVIOUS
    <3>4. QED
      BY <3>1, <3>2, <3>3, FqAssumption DEF ReadableIsWhole
  <2>3. QED
    BY <2>1, <2>2
<1>6. ASSUME NEW op \in {"get", "get_ai", "drain"}, ReadLock(op) PROVE IInv'
  BY <1>6 DEF ReadLock, Lock, TypeOK, ReadableIsWhole, Count, At
<1>7. ASSUME ReadHead \in NodeVal, GetCopy \/ AiCopy PROVE IInv'
  BY <1>7 DEF GetCopy, AiCopy, Leave, Unlock, TypeOK, ReadableIsWhole, Count, At
<1>8. CASE AiAdvance \/ DrainAdvance
  <2> USE <1>8 DEF AiAdvance, DrainAdvance, Advance, Leave, Unlock
  <2>1. TypeOK'
    BY IncWraps DEF TypeOK
  <2>2. ReadableIsWhole'
    <3>1. CASE ridx # widx
      <4>1. /\ Count' = Count - 1
            /\ \A i \in 0 .. Count - 2 : At(i)' = At(i + 1)
        BY <3>1, AdvanceRidx DEF TypeOK
      <4>2. Count \in 0 .. Size - 1
        BY Readable DEF TypeOK
      <4>3. QED
        BY <4>1, <4>2, FqAssumption DEF ReadableIsWhole
    <3>2. CASE ridx = widx
      BY <3>2 DEF ReadableIsWhole, Count, At
    <3>3. QED
      BY <3>1, <3>2
  <2>3. QED
    BY <2>1, <2>2
<1>9. CASE UNCHANGED vars
  BY <1>9 DEF vars, TypeOK, ReadableIsWhole, Count, At
<1>10. ReadHead \in NodeVal
  BY NodeValues DEF ReadHead, TypeOK
<1>11. QED
  BY <1>1, <1>2, <1>3, <1>4, <1>5, <1>6, <1>7, <1>8, <1>9, <1>10
     DEF Next, Writer, Reader

\* The invariant holds in every reachable state, for every ring size.
THEOREM Invariance == Spec => []IInv
<1>1. QED
  BY InitIInv, NextIInv, PTL DEF Spec

\* The fields keep their types: no index ever leaves the ring.
THEOREM TypeCorrect == Spec => []TypeOK
<1>1. IInv => TypeOK
  BY DEF IInv
<1>2. QED
  BY <1>1, Invariance, PTL

\* A reader can never see a node that fq_put has cleared or half filled.
THEOREM NoTornRead == Spec => []ReadableIsWhole
<1>1. IInv => ReadableIsWhole
  BY DEF IInv
<1>2. QED
  BY <1>1, Invariance, PTL

---------------------------------------------------------------------------
(* The ring implements the drop-oldest queue *)

\* The readable nodes as a sequence: Contents has Count items, all of them
\* node values, the i-th one at distance i - 1 from ridx.
ContentsOK ==
  /\ Count \in Nat
  /\ Contents \in Seq(NodeVal)
  /\ Len(Contents) = Count
  /\ \A i \in 1 .. Count : Contents[i] = node[At(i - 1)]

LEMMA ContentsSeq == TypeOK => ContentsOK
<1> SUFFICES ASSUME TypeOK PROVE ContentsOK
  OBVIOUS
<1>1. Count \in Nat /\ \A i \in 1 .. Count : node[At(i - 1)] \in NodeVal
  <2>1. Count \in 0 .. Size - 1 /\ \A i \in 0 .. Count - 1 : At(i) \in Slot
    BY Readable DEF TypeOK
  <2>2. \A i \in 1 .. Count : i - 1 \in 0 .. Count - 1
    BY <2>1, FqAssumption
  <2>3. QED
    BY <2>1, <2>2, FqAssumption DEF TypeOK
<1>2. Contents \in [1 .. Count -> NodeVal]
  BY <1>1 DEF Contents
<1>3. Contents \in Seq(NodeVal)
  BY <1>1, <1>2, SeqDef
<1>4. QED
  BY <1>1, <1>2, <1>3 DEF Contents, ContentsOK

\* The same for the state after a step.
LEMMA ContentsSeqPrime == TypeOK' => ContentsOK'
BY ContentsSeq, PTL

\* What a read at ridx returns is the first item of Contents, if any.
ReadsHead == ReadHead = Abstract!First(Contents)

\* As an implication, so that it can be primed.
LEMMA HeadOfContentsDef == TypeOK => ReadsHead
<1> SUFFICES ASSUME TypeOK PROVE ReadHead = Abstract!First(Contents)
  BY DEF ReadsHead
<1>1. CASE ridx = widx
  <2>1. Contents = <<>>
    BY <1>1, Readable, ContentsSeq, EmptySeq DEF TypeOK, ContentsOK
  <2>2. QED
    BY <1>1, <2>1 DEF ReadHead, Abstract!First
<1>2. CASE ridx # widx
  <2>1. Count \in Nat /\ Count # 0 /\ At(0) = ridx
    BY <1>2, Readable, FqAssumption DEF TypeOK
  <2>2. Contents # <<>> /\ Contents[1] = node[ridx]
    BY <2>1, ContentsSeq DEF ContentsOK
  <2>3. Copied(node[ridx]) = node[ridx]
    BY NodeValues DEF TypeOK
  <2>4. Head(Contents) = Contents[1]
    BY <2>2, ContentsSeq DEF ContentsOK
  <2>5. QED
    BY <1>2, <2>2, <2>3, <2>4 DEF ReadHead, Abstract!First
<1>3. QED
  BY <1>1, <1>2

\* What fq_get copies is the first item of Contents, if any.
LEMMA HeadOfContents ==
  ASSUME TypeOK PROVE ReadHead = Abstract!First(Contents)
BY HeadOfContentsDef DEF ReadsHead

\* The same for the state after a step.
LEMMA HeadOfContentsPrime ==
  ASSUME TypeOK' PROVE ReadHead' = Abstract!First(Contents')
<1>1. TypeOK' => ReadsHead'
  BY HeadOfContentsDef, PTL
<1>2. QED
  BY <1>1 DEF ReadsHead, Abstract!First

\* Moving ridx forward takes the first item off, and moves nothing else.
LEMMA AdvanceIsTail ==
  ASSUME TypeOK, TypeOK', ridx # widx,
         ridx' = Inc(ridx), widx' = widx, node' = node
  PROVE  Contents # <<>> /\ Contents' = Tail(Contents)
<1>1. /\ Count' = Count - 1
      /\ \A i \in 0 .. Count - 2 : At(i)' = At(i + 1)
      /\ Count \in Nat /\ Count # 0
  BY AdvanceRidx, Readable, FqAssumption DEF TypeOK
<1>2. Contents # <<>>
  BY <1>1, ContentsSeq DEF ContentsOK
<1>3. /\ Tail(Contents) \in Seq(NodeVal)
      /\ Len(Tail(Contents)) = Count - 1
      /\ \A i \in 1 .. Count - 1 : Tail(Contents)[i] = Contents[i + 1]
  BY <1>2, ContentsSeq, HeadTailProperties DEF ContentsOK
<1>4. ASSUME NEW i \in 1 .. Count - 1
      PROVE  Contents'[i] = Tail(Contents)[i]
  <2>1. Contents'[i] = node[At(i - 1)']
    BY <1>1, ContentsSeqPrime DEF ContentsOK
  <2>2. At(i - 1)' = At(i)
    BY <1>1
  <2>3. Contents[i + 1] = node[At(i)]
    BY <1>1, ContentsSeq DEF ContentsOK
  <2>4. QED
    BY <1>3, <2>1, <2>2, <2>3
<1>5. Contents' = Tail(Contents)
  BY <1>1, <1>3, <1>4, ContentsSeqPrime, SeqEqual DEF ContentsOK
<1>6. QED
  BY <1>2, <1>5

\* Moving widx forward adds the node it leaves at the end.
LEMMA PublishIsAppend ==
  ASSUME TypeOK, TypeOK', Inc(widx) # ridx,
         widx' = Inc(widx), ridx' = ridx, node' = node
  PROVE  Contents' = Append(Contents, node[widx])
<1>1. /\ Count' = Count + 1
      /\ \A i \in 0 .. Count : At(i)' = At(i)
      /\ Count \in Nat /\ At(Count) = widx
  BY AdvanceWidx, Readable, FqAssumption DEF TypeOK
<1> DEFINE A == Append(Contents, node[widx])
<1>2. node[widx] \in NodeVal
  BY DEF TypeOK
<1>3. /\ A \in Seq(NodeVal)
      /\ Len(A) = Count + 1
      /\ A[Count + 1] = node[widx]
      /\ \A i \in 1 .. Count : A[i] = Contents[i]
  BY <1>1, <1>2, ContentsSeq, AppendProperties DEF ContentsOK
<1>4. ASSUME NEW i \in 1 .. Count + 1
      PROVE  Contents'[i] = A[i]
  <2>1. Contents'[i] = node[At(i - 1)]
    BY <1>1, ContentsSeqPrime DEF ContentsOK
  <2>2. CASE i = Count + 1
    BY <1>1, <1>3, <2>1, <2>2
  <2>3. CASE i # Count + 1
    <3>1. i \in 1 .. Count
      BY <1>1, <2>3
    <3>2. A[i] = Contents[i] /\ Contents[i] = node[At(i - 1)]
      BY <1>3, <3>1, ContentsSeq DEF ContentsOK
    <3>3. QED
      BY <2>1, <3>2
  <2>4. QED
    BY <2>2, <2>3
<1>5. QED
  BY <1>1, <1>3, <1>4, ContentsSeqPrime, SeqEqual DEF ContentsOK

\* A step that leaves the indices alone and writes at most the node at widx
\* leaves Contents alone.
LEMMA ContentsUnchanged ==
  ASSUME TypeOK, UNCHANGED <<ridx, widx>>,
         \A s \in Slot \ {widx} : node'[s] = node[s]
  PROVE  Contents' = Contents
<1>1. Count' = Count /\ \A i \in Int : At(i)' = At(i)
  BY DEF Count, At
<1>2. \A i \in 1 .. Count : node'[At(i - 1)] = node[At(i - 1)]
  <2>1. \A i \in 0 .. Count - 1 : At(i) \in Slot \ {widx}
    BY Readable DEF TypeOK
  <2>2. QED
    BY <2>1, Readable, FqAssumption DEF TypeOK
<1>3. QED
  BY <1>1, <1>2, Readable, FqAssumption DEF Contents, TypeOK

\* A new ring is an empty queue.
LEMMA InitImplements == Init => Abstract!Init
<1> SUFFICES ASSUME Init PROVE Abstract!Init
  OBVIOUS
<1>1. TypeOK
  BY InitIInv DEF IInv
<1>2. Contents = <<>>
  <2>1. Count = 0
    BY DEF Init, Count
  <2>2. QED
    BY <1>1, <2>1, ContentsSeq, EmptySeq DEF ContentsOK
<1>3. QED
  BY <1>2 DEF Init, Abstract!Init, QueueBar, RetBar, InPut

\* Every step of the ring is one operation of the queue, or invisible.
LEMMA StepImplements ==
  IInv /\ IInv' /\ [Next]_vars => [Abstract!Next]_(Abstract!qvars)
<1> SUFFICES ASSUME IInv, IInv', [Next]_vars
             PROVE  Abstract!Next \/ UNCHANGED <<QueueBar, RetBar>>
  BY DEF Abstract!qvars
<1> USE DEF IInv, MutexHeld
<1>1. ASSUME NEW m \in Msg, PutLock(m) PROVE UNCHANGED <<QueueBar, RetBar>>
  <2>1. Contents' = Contents
    BY <1>1, ContentsUnchanged DEF PutLock
  <2>2. QED
    BY <1>1, <2>1 DEF PutLock, Lock, QueueBar, RetBar, InPut
<1>2. CASE PutRoom
  <2> USE <1>2 DEF PutRoom
  <2>1. ridx \in Slot /\ widx \in Slot
    BY DEF TypeOK
  <2>2. QueueBar = Contents /\ QueueBar' = Append(Contents', Stored(warg))
    BY DEF QueueBar, InPut
  <2>3. RetBar' = RetBar
    BY DEF RetBar
  <2>4. Abstract!Full <=> (Inc(widx) = ridx)
    BY <2>1, <2>2, ContentsSeq, Readable DEF Abstract!Full, ContentsOK
  <2>5. Contents' = IF Abstract!Full THEN Tail(Contents) ELSE Contents
    <3>1. CASE Inc(widx) = ridx
      <4>1. ridx # widx
        BY <2>1, <3>1, IncWraps, FqAssumption DEF Slot
      <4>2. QED
        BY <2>4, <3>1, <4>1, AdvanceIsTail
    <3>2. CASE Inc(widx) # ridx
      BY <2>4, <3>2, ContentsUnchanged
    <3>3. QED
      BY <3>1, <3>2
  <2>6. Abstract!Put(Stored(warg))
    BY <2>2, <2>3, <2>5 DEF Abstract!Put
  <2>7. warg \in Msg
    BY DEF ArgIsMsg
  <2>8. QED
    BY <2>6, <2>7 DEF Abstract!Next
<1>3. CASE PutClear \/ PutFill
  <2>1. Contents' = Contents
    <3>1. \A s \in Slot \ {widx} : node'[s] = node[s]
      BY <1>3 DEF PutClear, PutFill, TypeOK
    <3>2. QED
      BY <1>3, <3>1, ContentsUnchanged DEF PutClear, PutFill
  <2>2. QED
    BY <1>3, <2>1 DEF PutClear, PutFill, QueueBar, RetBar, InPut
<1>4. CASE PutPublish
  <2>1. Contents' = Append(Contents, Stored(warg))
    BY <1>4, PublishIsAppend DEF PutPublish, RoomForPut, FilledIsStored, InPut
  <2>2. QED
    BY <1>4, <2>1 DEF PutPublish, QueueBar, RetBar, InPut
<1>5. ASSUME NEW op \in {"get", "get_ai", "drain"}, ReadLock(op)
      PROVE  UNCHANGED <<QueueBar, RetBar>>
  <2>1. Contents' = Contents
    BY <1>5, ContentsUnchanged DEF ReadLock
  <2>2. QED
    BY <1>5, <2>1 DEF ReadLock, Lock, QueueBar, RetBar, InPut
<1>6. CASE GetCopy
  <2>1. Contents' = Contents
    BY <1>6, ContentsUnchanged DEF GetCopy, Leave
  <2>2. QueueBar = Contents /\ QueueBar' = QueueBar
    BY <1>6, <2>1 DEF GetCopy, Leave, QueueBar, InPut
  <2>3. RetBar' = Abstract!First(QueueBar)
    BY <1>6, <2>2, HeadOfContents DEF GetCopy, Leave, RetBar
  <2>4. Abstract!Get
    BY <2>2, <2>3 DEF Abstract!Get
  <2>5. QED
    BY <2>4 DEF Abstract!Next
<1>7. CASE AiAdvance \/ DrainAdvance
  <2>1. QueueBar = Contents /\ QueueBar' = Contents'
    BY <1>7 DEF AiAdvance, DrainAdvance, Leave, QueueBar, InPut
  <2>2. Contents' = Abstract!Behead(Contents)
    <3>1. CASE ridx # widx
      BY <1>7, <3>1, AdvanceIsTail
         DEF AiAdvance, DrainAdvance, Advance, Leave, Abstract!Behead
    <3>2. CASE ridx = widx
      <4>1. Contents = <<>>
        BY <3>2, Readable, ContentsSeq, EmptySeq DEF TypeOK, ContentsOK
      <4>2. Contents' = Contents
        BY <1>7, <3>2, ContentsUnchanged
           DEF AiAdvance, DrainAdvance, Advance, Leave
      <4>3. QED
        BY <4>1, <4>2 DEF Abstract!Behead
    <3>3. QED
      BY <3>1, <3>2
  <2>3. CASE AiAdvance
    <3>1. RetBar' = ReadHead'
      BY <2>3 DEF AiAdvance, RetBar
    <3>2. ReadHead' = Abstract!First(Contents')
      BY HeadOfContentsPrime
    <3>3. Abstract!GetNext
      BY <2>1, <2>2, <3>1, <3>2 DEF Abstract!GetNext
    <3>4. QED
      BY <3>3 DEF Abstract!Next
  <2>4. CASE DrainAdvance
    <3>1. RetBar' = RetBar
      BY <2>4 DEF DrainAdvance, Leave, RetBar
    <3>2. Abstract!Drain
      BY <2>1, <2>2, <3>1 DEF Abstract!Drain
    <3>3. QED
      BY <3>2 DEF Abstract!Next
  <2>5. QED
    BY <1>7, <2>3, <2>4
<1>8. CASE AiCopy
  <2>1. Contents' = Contents
    BY <1>8, ContentsUnchanged DEF AiCopy, Leave
  <2>2. QED
    BY <1>8, <2>1 DEF AiCopy, Leave, QueueBar, RetBar, InPut
<1>9. CASE UNCHANGED vars
  <2>1. Contents' = Contents
    BY <1>9, ContentsUnchanged DEF vars
  <2>2. QED
    BY <1>9, <2>1 DEF vars, QueueBar, RetBar, InPut, ReadHead
<1>10. QED
  BY <1>1, <1>2, <1>3, <1>4, <1>5, <1>6, <1>7, <1>8, <1>9
     DEF Next, Writer, Reader

\* The ring under its mutex implements the drop-oldest queue, for every ring
\* size: items leave in the order they came, whole, at most once, and the
\* only ones lost are the oldest at an overflow.
THEOREM Implements == Spec => ImplementsQueue
<1>1. Init => Abstract!Init
  BY InitImplements
<1>2. IInv /\ IInv' /\ [Next]_vars => [Abstract!Next]_(Abstract!qvars)
  BY StepImplements
<1>3. QED
  BY <1>1, <1>2, Invariance, PTL DEF Spec, ImplementsQueue, Abstract!Spec

---------------------------------------------------------------------------
(* The size of the ring *)

\* What power2_align can return.
Sizes == {4, 8, 16, 32, 64, 128, 256, 512, 1024, 2048, 4096}

\* The thresholds leave no gap: a size is one of these, large enough as far as
\* they go, and less than twice what was asked for.
LEMMA Rounded ==
  ASSUME NEW sz \in Nat
  PROVE  /\ power2_align(sz) \in Sizes
         /\ sz <= 4096 => sz <= power2_align(sz)
         /\ power2_align(sz) = 4 \/ power2_align(sz) < 2 * sz
<1> DEFINE exceeded == {t \in Thresholds : sz > t}
<1>1. CASE exceeded = {}
  <2>1. 4 \notin exceeded BY <1>1
  <2>2. sz <= 4 BY <2>1 DEF Thresholds
  <2>3. power2_align(sz) = 4 BY <1>1 DEF power2_align
  <2> QED BY <2>2, <2>3 DEF Sizes
<1>2. CASE exceeded # {}
  <2> DEFINE IsTop(t) == t \in exceeded /\ \A s \in exceeded : t >= s
  <2>1. \E t : IsTop(t)
    <3>1. CASE sz > 2048 BY <3>1 DEF Thresholds
    <3>2. CASE sz <= 2048 /\ sz > 1024
      <4>1. IsTop(1024) BY <3>2 DEF Thresholds
      <4> QED BY <4>1
    <3>3. CASE sz <= 1024 /\ sz > 512
      <4>1. IsTop(512) BY <3>3 DEF Thresholds
      <4> QED BY <4>1
    <3>4. CASE sz <= 512 /\ sz > 256
      <4>1. IsTop(256) BY <3>4 DEF Thresholds
      <4> QED BY <4>1
    <3>5. CASE sz <= 256 /\ sz > 128
      <4>1. IsTop(128) BY <3>5 DEF Thresholds
      <4> QED BY <4>1
    <3>6. CASE sz <= 128 /\ sz > 64
      <4>1. IsTop(64) BY <3>6 DEF Thresholds
      <4> QED BY <4>1
    <3>7. CASE sz <= 64 /\ sz > 32
      <4>1. IsTop(32) BY <3>7 DEF Thresholds
      <4> QED BY <4>1
    <3>8. CASE sz <= 32 /\ sz > 16
      <4>1. IsTop(16) BY <3>8 DEF Thresholds
      <4> QED BY <4>1
    <3>9. CASE sz <= 16 /\ sz > 8
      <4>1. IsTop(8) BY <3>9 DEF Thresholds
      <4> QED BY <4>1
    <3>10. CASE sz <= 8 /\ sz > 4
      <4>1. IsTop(4) BY <3>10 DEF Thresholds
      <4> QED BY <4>1
    <3>11. sz > 4 BY <1>2 DEF Thresholds
    <3> QED BY <3>1, <3>2, <3>3, <3>4, <3>5, <3>6, <3>7, <3>8, <3>9, <3>10, <3>11
  <2> DEFINE m == Max(exceeded)
  <2>2. IsTop(m) BY <2>1 DEF Max
  <2>3. power2_align(sz) = 2 * m BY <1>2 DEF power2_align
  <2>4. m \in Thresholds /\ sz > m /\ \A s \in Thresholds : sz > s => m >= s BY <2>2
  <2> HIDE DEF m
  <2>5. 2 * m \in Sizes BY <2>4 DEF Thresholds, Sizes
  <2>6. sz <= 4096 => sz <= 2 * m
    <3>1. CASE m = 2048 BY <3>1
    <3>2. CASE m # 2048
      <4>1. 2 * m \in Thresholds /\ 2 * m > m BY <3>2, <2>4 DEF Thresholds
      <4>2. ~(sz > 2 * m) BY <4>1, <2>4 DEF Thresholds
      <4> QED BY <4>1, <4>2 DEF Thresholds
    <3> QED BY <3>1, <3>2
  <2>7. 2 * m < 2 * sz BY <2>4 DEF Thresholds
  <2> QED BY <2>3, <2>5, <2>6, <2>7
<1> QED BY <1>1, <1>2

\* A number is its bits.
LEMMA SameBits ==
  ASSUME NEW a \in Nat, NEW b \in Nat, a <= 4096, b <= 4096,
         \A w \in Weight : Bit(a, w) = Bit(b, w)
  PROVE  a = b
<1>1. a \div 4096 = b \div 4096
  <2>1. Bit(a, 4096) = Bit(b, 4096) BY DEF Weight
  <2> QED BY <2>1 DEF Bit
<1>2. a \div 2048 = b \div 2048
  <2>1. (a \div 2048) % 2 = (b \div 2048) % 2 BY DEF Weight, Bit
  <2>2. \A x \in Nat : x \div 2048 = 2 * (x \div 4096) + ((x \div 2048) % 2)
    OBVIOUS
  <2> QED BY <2>1, <2>2, <1>1
<1>3. a \div 1024 = b \div 1024
  <2>1. (a \div 1024) % 2 = (b \div 1024) % 2 BY DEF Weight, Bit
  <2>2. \A x \in Nat : x \div 1024 = 2 * (x \div 2048) + ((x \div 1024) % 2)
    OBVIOUS
  <2> QED BY <2>1, <2>2, <1>2
<1>4. a \div 512 = b \div 512
  <2>1. (a \div 512) % 2 = (b \div 512) % 2 BY DEF Weight, Bit
  <2>2. \A x \in Nat : x \div 512 = 2 * (x \div 1024) + ((x \div 512) % 2)
    OBVIOUS
  <2> QED BY <2>1, <2>2, <1>3
<1>5. a \div 256 = b \div 256
  <2>1. (a \div 256) % 2 = (b \div 256) % 2 BY DEF Weight, Bit
  <2>2. \A x \in Nat : x \div 256 = 2 * (x \div 512) + ((x \div 256) % 2)
    OBVIOUS
  <2> QED BY <2>1, <2>2, <1>4
<1>6. a \div 128 = b \div 128
  <2>1. (a \div 128) % 2 = (b \div 128) % 2 BY DEF Weight, Bit
  <2>2. \A x \in Nat : x \div 128 = 2 * (x \div 256) + ((x \div 128) % 2)
    OBVIOUS
  <2> QED BY <2>1, <2>2, <1>5
<1>7. a \div 64 = b \div 64
  <2>1. (a \div 64) % 2 = (b \div 64) % 2 BY DEF Weight, Bit
  <2>2. \A x \in Nat : x \div 64 = 2 * (x \div 128) + ((x \div 64) % 2)
    OBVIOUS
  <2> QED BY <2>1, <2>2, <1>6
<1>8. a \div 32 = b \div 32
  <2>1. (a \div 32) % 2 = (b \div 32) % 2 BY DEF Weight, Bit
  <2>2. \A x \in Nat : x \div 32 = 2 * (x \div 64) + ((x \div 32) % 2)
    OBVIOUS
  <2> QED BY <2>1, <2>2, <1>7
<1>9. a \div 16 = b \div 16
  <2>1. (a \div 16) % 2 = (b \div 16) % 2 BY DEF Weight, Bit
  <2>2. \A x \in Nat : x \div 16 = 2 * (x \div 32) + ((x \div 16) % 2)
    OBVIOUS
  <2> QED BY <2>1, <2>2, <1>8
<1>10. a \div 8 = b \div 8
  <2>1. (a \div 8) % 2 = (b \div 8) % 2 BY DEF Weight, Bit
  <2>2. \A x \in Nat : x \div 8 = 2 * (x \div 16) + ((x \div 8) % 2)
    OBVIOUS
  <2> QED BY <2>1, <2>2, <1>9
<1>11. a \div 4 = b \div 4
  <2>1. (a \div 4) % 2 = (b \div 4) % 2 BY DEF Weight, Bit
  <2>2. \A x \in Nat : x \div 4 = 2 * (x \div 8) + ((x \div 4) % 2)
    OBVIOUS
  <2> QED BY <2>1, <2>2, <1>10
<1>12. a \div 2 = b \div 2
  <2>1. (a \div 2) % 2 = (b \div 2) % 2 BY DEF Weight, Bit
  <2>2. \A x \in Nat : x \div 2 = 2 * (x \div 4) + ((x \div 2) % 2)
    OBVIOUS
  <2> QED BY <2>1, <2>2, <1>11
<1>13. a \div 1 = b \div 1
  <2>1. (a \div 1) % 2 = (b \div 1) % 2 BY DEF Weight, Bit
  <2>2. \A x \in Nat : x \div 1 = 2 * (x \div 2) + ((x \div 1) % 2)
    OBVIOUS
  <2> QED BY <2>1, <2>2, <1>12
<1> QED BY <1>13

\* The bits of a size and of the number below it.
LEMMA BitsOfSize ==
  ASSUME NEW size \in Sizes, NEW w \in Weight
  PROVE  /\ w < size => Bit(size - 1, w) = 1 /\ Bit(size, w) = 0
         /\ w >= size => Bit(size - 1, w) = 0
<1>1. CASE size = 4 BY <1>1 DEF Weight, Bit
<1>2. CASE size = 8 BY <1>2 DEF Weight, Bit
<1>3. CASE size = 16 BY <1>3 DEF Weight, Bit
<1>4. CASE size = 32 BY <1>4 DEF Weight, Bit
<1>5. CASE size = 64 BY <1>5 DEF Weight, Bit
<1>6. CASE size = 128 BY <1>6 DEF Weight, Bit
<1>7. CASE size = 256 BY <1>7 DEF Weight, Bit
<1>8. CASE size = 512 BY <1>8 DEF Weight, Bit
<1>9. CASE size = 1024 BY <1>9 DEF Weight, Bit
<1>10. CASE size = 2048 BY <1>10 DEF Weight, Bit
<1>11. CASE size = 4096 BY <1>11 DEF Weight, Bit
<1> QED BY <1>1, <1>2, <1>3, <1>4, <1>5, <1>6, <1>7, <1>8, <1>9, <1>10, <1>11 DEF Sizes

\* What n & m is: the number with the bits of both.
BitsOfBoth(r, n, m) == \A w \in Weight : Bit(r, w) = Bit(n, w) * Bit(m, w)

LEMMA BitAndIs ==
  ASSUME NEW n \in Nat, NEW m \in Nat, m <= 4096, NEW r \in 0 .. m, BitsOfBoth(r, n, m)
  PROVE  BitAnd(n, m) = r
<1> DEFINE IsAnd(x) == x \in 0 .. m /\ BitsOfBoth(x, n, m)
<1>1. IsAnd(r) OBVIOUS
<1>2. BitAnd(n, m) = CHOOSE x : IsAnd(x) BY DEF BitAnd, BitsOfBoth
<1>3. IsAnd(BitAnd(n, m))
  <2> HIDE DEF IsAnd
  <2>1. IsAnd(CHOOSE x : IsAnd(x)) BY <1>1
  <2> QED BY <2>1, <1>2
<1>4. \A w \in Weight : Bit(BitAnd(n, m), w) = Bit(r, w) BY <1>3 DEF BitsOfBoth
<1>5. \A x \in 0 .. m : x \in Nat /\ x <= 4096 OBVIOUS
<1>6. /\ BitAnd(n, m) \in Nat /\ BitAnd(n, m) <= 4096
      /\ r \in Nat /\ r <= 4096
  BY <1>3, <1>5
<1> QED BY <1>4, <1>6, SameBits

\* The masked advance is the one around the ring.
LEMMA Masked ==
  ASSUME NEW size \in Sizes, NEW i \in 0 .. size - 1
  PROVE  Advanced(i, size) = (i + 1) % size
<1> DEFINE n == i + 1
           m == size - 1
<1>1. size \in Nat /\ size >= 4 /\ n \in Nat /\ m \in Nat /\ m <= 4096 /\ n <= size
  BY DEF Sizes
<1>2. CASE n < size
  <2>1. n % size = n
    <3>1. size \in Nat /\ size >= 2 /\ n \in 0 .. size - 1 BY <1>1, <1>2
    <3> HIDE DEF n
    <3> QED BY <3>1
  <2>0. ASSUME NEW w \in Weight PROVE Bit(n, w) = Bit(n, w) * Bit(m, w)
    <3>1. CASE w < size
      <4>1. Bit(m, w) = 1 BY <3>1, BitsOfSize
      <4>2. Bit(n, w) \in Int
        <5>1. w \in Nat \ {0} BY DEF Weight
        <5> HIDE DEF n
        <5> QED BY <5>1, <1>1 DEF Bit
      <4> HIDE DEF n, m
      <4> QED BY <4>1, <4>2
    <3>2. CASE w >= size
      <4>1. Bit(m, w) = 0 BY <3>2, BitsOfSize
      <4>2. Bit(n, w) = 0
        <5>1. w \in Nat /\ n < w BY <3>2, <1>1, <1>2 DEF Weight
        <5> HIDE DEF n
        <5>2. n \div w = 0 BY <5>1, <1>1
        <5> QED BY <5>2 DEF Bit
      <4> QED BY <4>1, <4>2
    <3>3. w \in Nat BY DEF Weight
    <3> QED BY <3>1, <3>2, <3>3, <1>1
  <2>2. BitsOfBoth(n, n, m) BY <2>0 DEF BitsOfBoth
  <2>3. n \in 0 .. m BY <1>1, <1>2
  <2> HIDE DEF n, m
  <2>4. BitAnd(n, m) = n BY <2>2, <2>3, <1>1, BitAndIs
  <2> QED BY <2>1, <2>4 DEF Advanced, n, m
<1>3. CASE n = size
  <2>1. n % size = 0
    <3>1. size \in Nat /\ size >= 2 /\ n = size BY <1>1, <1>3
    <3> HIDE DEF n
    <3>2. size % size = 0 BY <3>1
    <3> QED BY <3>1, <3>2
  <2>2. ASSUME NEW w \in Weight PROVE Bit(0, w) = Bit(n, w) * Bit(m, w)
    <3>0. w \in Nat \ {0} BY DEF Weight
    <3>1. Bit(0, w) = 0
      <4>1. 0 \div w = 0 BY <3>0
      <4> QED BY <4>1 DEF Bit
    <3>2. Bit(n, w) \in Int /\ Bit(m, w) \in Int
      <4> HIDE DEF n, m
      <4> QED BY <3>0, <1>1 DEF Bit
    <3>3. Bit(n, w) = 0 \/ Bit(m, w) = 0
      <4>1. CASE w < size BY <4>1, <1>3, BitsOfSize
      <4>2. CASE w >= size BY <4>2, BitsOfSize
      <4> QED BY <4>1, <4>2, <3>0, <1>1
    <3> HIDE DEF n, m
    <3> QED BY <3>1, <3>2, <3>3
  <2>3. 0 \in 0 .. m BY <1>1
  <2>4. BitsOfBoth(0, n, m) BY <2>2 DEF BitsOfBoth
  <2> DEFINE z == 0
  <2>5. z \in 0 .. m /\ BitsOfBoth(z, n, m) BY <2>3, <2>4
  <2> HIDE DEF n, m, z
  <2>6. BitAnd(n, m) = z BY <2>5, <1>1, BitAndIs
  <2> QED BY <2>1, <2>6 DEF Advanced, n, m, z
<1> QED BY <1>1, <1>2, <1>3

\* The ring that fq_new makes is large enough for every request up to 4096, and
\* not twice too large; and the masked indices go around it, node by node, in
\* every ring it can make (fq.c:16-41, 114, 184, 197).
THEOREM RingsGoAround ==
  Size \in {power2_align(sz) : sz \in Request} => (Spec => []RingsFit)
<1> SUFFICES ASSUME Size \in {power2_align(sz) : sz \in Request} PROVE Spec => []RingsFit
  OBVIOUS
<1>1. Request \subseteq Nat BY RequestAssumption
<1>2. SizeFits
  <2> SUFFICES ASSUME NEW sz \in Request
               PROVE  LET size == power2_align(sz) IN
                        /\ size <= 4096 /\ (sz <= 4096 => size >= sz)
                        /\ size = 4 \/ size < 2 * sz
    BY DEF SizeFits
  <2> DEFINE size == power2_align(sz)
  <2>1. size \in Sizes /\ (sz <= 4096 => sz <= size) /\ (size = 4 \/ size < 2 * sz)
        /\ sz \in Nat
    BY <1>1, Rounded
  <2> HIDE DEF size
  <2>2. size <= 4096 /\ (sz <= 4096 => size >= sz) /\ (size = 4 \/ size < 2 * sz)
    BY <2>1 DEF Sizes
  <2> QED BY <2>2 DEF size
<1>3. \A size \in {power2_align(sz) : sz \in Request} : size \in Sizes
  BY <1>1, Rounded
<1>4. MaskWraps
  <2> SUFFICES ASSUME NEW size \in {power2_align(sz) : sz \in Request}, NEW i \in 0 .. size - 1
               PROVE  Advanced(i, size) = (i + 1) % size
    BY DEF MaskWraps
  <2> QED BY <1>3, Masked
<1>5. TypeOK => \A i \in {ridx, widx} : Advanced(i, Size) = Inc(i)
  <2> SUFFICES ASSUME NEW i \in Slot PROVE Advanced(i, Size) = Inc(i)
    BY DEF TypeOK
  <2> QED BY <1>3, Masked DEF Slot, Inc
<1>6. TypeOK => RingsFit BY <1>2, <1>4, <1>5 DEF RingsFit
<1> QED BY <1>6, TypeCorrect, PTL
=============================================================================
