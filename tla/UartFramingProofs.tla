-------------------------- MODULE UartFramingProofs --------------------------
(***************************************************************************)
(* The proof that the UART thread acts on each plain frame that the board  *)
(* sends, whatever marks are among the octets of the frames in between,    *)
(* for all frames, any sizes of them and of the buffer, and reads of any   *)
(* length.                                                                 *)
(***************************************************************************)
EXTENDS UartFraming, FiniteSetTheorems, SequenceTheorems, TLAPS

Queue == INSTANCE BufferProofs WITH MinLen <- BufLen

---------------------------------------------------------------------------
(* The stream and the buffer *)

\* The board's frames, as the lemmas of BufferProofs speak of them.
LEMMA FramesSent ==
  ASSUME frames \in TupleOf(Frame, MaxFrames)
  PROVE  /\ frames \in Queue!Messages(Value, MaxFrames, MaxLen)
         /\ stream = Queue!Sent(frames) /\ MaxFrames \in Nat /\ MaxLen \in Nat
<1>1. frames \in [1 .. MaxFrames -> Frame] /\ MaxFrames \in Nat /\ MaxLen \in Nat
  BY UartAssumption DEF TupleOf
<1>2. Frame \subseteq {c \in Seq(Value) : Len(c) \in 1 .. MaxLen} BY UartAssumption
<1>3. frames \in Queue!Messages(Value, MaxFrames, MaxLen) BY <1>1, <1>2 DEF Queue!Messages
<1>4. Queue!Sent(frames) = Sent(frames)
  BY DEF Queue!Sent, Sent, Queue!FlattenSeq, FlattenSeq
<1> QED BY <1>1, <1>3, <1>4 DEF stream

\* What the board sends is a sequence of bytes.
LEMMA StreamType ==
  ASSUME frames \in TupleOf(Frame, MaxFrames)
  PROVE  stream \in Seq(Byte) /\ Len(stream) \in Nat
<1>1. stream \in Seq(Queue!Tagged(Value, MaxFrames, MaxLen)) BY FramesSent, Queue!SentPlaces
<1> QED BY <1>1, LenProperties DEF Queue!Tagged, Byte

\* The place in the stream behind which the frame of the byte at i begins, and
\* the length of that frame.
begin(i) == i - stream[i].at
size(i) == Len(frames[stream[i].msg])

\* The bytes of a frame stand side by side, and each frame in its turn.
LEMMA FrameAround ==
  ASSUME frames \in TupleOf(Frame, MaxFrames), NEW i \in DOMAIN stream
  PROVE  /\ i \in Nat /\ begin(i) \in Nat /\ size(i) \in Nat /\ i = begin(i) + stream[i].at
         /\ stream[i].msg \in DOMAIN frames
         /\ frames[stream[i].msg] \in Frame /\ DOMAIN frames[stream[i].msg] = 1 .. size(i)
         /\ stream[i].at \in 1 .. size(i)
         /\ \A j \in 1 .. size(i) :
              /\ begin(i) + j \in DOMAIN stream
              /\ stream[begin(i) + j] = [val |-> frames[stream[i].msg][j],
                                         msg |-> stream[i].msg, at |-> j]
         /\ \A l \in DOMAIN stream : stream[l].msg = stream[i].msg => begin(l) = begin(i)
<1>1. /\ frames \in Queue!Messages(Value, MaxFrames, MaxLen) /\ stream = Queue!Sent(frames)
      /\ MaxFrames \in Nat /\ MaxLen \in Nat
  BY FramesSent
<1>2. \A l \in DOMAIN stream : begin(l) = Queue!begin(frames, l) /\ size(l) = Queue!size(frames, l)
  BY <1>1 DEF begin, size, Queue!begin, Queue!size
<1> DEFINE s == Queue!Sent(frames)
<1>3. /\ i \in Nat /\ begin(i) \in Nat /\ size(i) \in 1 .. MaxLen
      /\ i = begin(i) + stream[i].at
      /\ stream[i].msg \in 1 .. MaxFrames /\ stream[i].at \in 1 .. size(i)
      /\ DOMAIN frames[stream[i].msg] = 1 .. size(i)
      /\ \A j \in 1 .. size(i) :
           /\ begin(i) + j \in DOMAIN stream
           /\ stream[begin(i) + j] = [val |-> frames[stream[i].msg][j],
                                      msg |-> stream[i].msg, at |-> j]
      /\ \A l \in DOMAIN stream : stream[l].msg = stream[i].msg => begin(l) = begin(i)
  <2>1. i \in DOMAIN s BY <1>1
  <2>2. Queue!InPlace(frames, MaxFrames, MaxLen, i) BY <1>1, <2>1, Queue!SentAround
  <2>3. /\ i \in Nat /\ Queue!begin(frames, i) \in Nat /\ Queue!size(frames, i) \in 1 .. MaxLen
        /\ i = Queue!begin(frames, i) + s[i].at
        /\ s[i].msg \in 1 .. MaxFrames /\ s[i].at \in 1 .. Queue!size(frames, i)
        /\ DOMAIN frames[s[i].msg] = 1 .. Queue!size(frames, i)
    BY <2>2 DEF Queue!InPlace
  <2>4. \A j \in 1 .. Queue!size(frames, i) :
          /\ Queue!begin(frames, i) + j \in DOMAIN s
          /\ s[Queue!begin(frames, i) + j] = [val |-> frames[s[i].msg][j],
                                              msg |-> s[i].msg, at |-> j]
    BY <2>2 DEF Queue!InPlace
  <2>5. \A l \in DOMAIN s :
          s[l].msg = s[i].msg => Queue!begin(frames, l) = Queue!begin(frames, i)
    BY <2>2 DEF Queue!InPlace
  <2>6. s = stream BY <1>1
  <2> HIDE DEF s
  <2> QED BY <1>2, <2>3, <2>4, <2>5, <2>6
<1>4. frames \in [1 .. MaxFrames -> Frame] BY UartAssumption DEF TupleOf
<1> QED BY <1>3, <1>4

\* Frames are sent one after the other.
LEMMA FramesInTurn ==
  ASSUME frames \in TupleOf(Frame, MaxFrames), NEW i \in DOMAIN stream,
         NEW l \in DOMAIN stream, i <= l
  PROVE  stream[i].msg <= stream[l].msg
<1>1. /\ frames \in Queue!Messages(Value, MaxFrames, MaxLen) /\ stream = Queue!Sent(frames)
      /\ MaxFrames \in Nat /\ MaxLen \in Nat
  BY FramesSent
<1>2. i \in DOMAIN Queue!Sent(frames) BY <1>1
<1>3. Queue!InPlace(frames, MaxFrames, MaxLen, i) BY <1>1, <1>2, Queue!SentAround
<1>4. \A a \in DOMAIN Queue!Sent(frames) :
        i <= a => Queue!Sent(frames)[i].msg <= Queue!Sent(frames)[a].msg
  BY <1>3 DEF Queue!InPlace
<1> QED BY <1>1, <1>4

\* Each frame has a last byte.
LEMMA FrameEnds ==
  ASSUME frames \in TupleOf(Frame, MaxFrames), NEW k \in DOMAIN frames
  PROVE  \E i \in DOMAIN stream : stream[i].msg = k /\ stream[i].at = size(i)
                                   /\ stream[i].val = frames[k][size(i)]
<1>1. k \in 1 .. MaxFrames BY UartAssumption DEF TupleOf
<1>2. /\ frames \in Queue!Messages(Value, MaxFrames, MaxLen) /\ stream = Queue!Sent(frames)
      /\ MaxFrames \in Nat /\ MaxLen \in Nat
  BY FramesSent
<1> DEFINE e == Len(frames[k])
<1>3. e \in 1 .. MaxLen /\ \A j \in 1 .. e : Queue!IsSent(frames, k, j)
  BY <1>1, <1>2, Queue!SentWhole
<1> HIDE DEF e
<1>4. Queue!IsSent(frames, k, e) BY <1>3
<1>5. PICK l \in DOMAIN stream : stream[l] = [val |-> frames[k][e], msg |-> k, at |-> e]
  BY <1>2, <1>4 DEF Queue!IsSent
<1> QED BY <1>5 DEF size, e

\* Between two bytes of a frame there are only bytes of this frame.
LEMMA SameFrame ==
  ASSUME frames \in TupleOf(Frame, MaxFrames), NEW i \in DOMAIN stream,
         NEW l \in Int, begin(i) < l, l <= begin(i) + size(i)
  PROVE  /\ l \in DOMAIN stream /\ l - begin(i) \in 1 .. size(i)
         /\ stream[l].msg = stream[i].msg /\ stream[l].at = l - begin(i)
         /\ stream[l].val = frames[stream[i].msg][l - begin(i)]
<1>1. begin(i) \in Nat /\ size(i) \in Nat BY FrameAround
<1> DEFINE j == l - begin(i)
<1>2. j \in 1 .. size(i) /\ begin(i) + j = l BY <1>1
<1> HIDE DEF j
<1>3. /\ begin(i) + j \in DOMAIN stream
      /\ stream[begin(i) + j] = [val |-> frames[stream[i].msg][j],
                                 msg |-> stream[i].msg, at |-> j]
  BY <1>2, FrameAround
<1> QED BY <1>2, <1>3 DEF j

\* The promises of the buffer, for the buffer of a connection.
LEMMA ReadAppends ==
  ASSUME Buf!Sound, NEW new \in Seq(Byte), Buf!Read(new)
  PROVE  Buf!Sound' /\ Buf!Data' = Buf!Data \o new
<1>1. BufLen \in Nat \ {0} BY UartAssumption
<1>2. Queue!Sound /\ Queue!Read(new)
  BY DEF Buf!Sound, Buf!Read, Buf!Fits, Buf!Write, Buf!Grown, Buf!Aligned, Buf!Data,
         Buf!totallen, Buf!Cardinality, Buf!Min,
         Queue!Sound, Queue!Read, Queue!Fits, Queue!Write, Queue!Grown, Queue!Aligned,
         Queue!Data, Queue!totallen, Queue!Cardinality, Queue!Min
<1>3. Queue!Sound' /\ Queue!Data' = Queue!Data \o new BY <1>1, <1>2, Queue!ReadAppends
<1> QED BY <1>3 DEF Buf!Sound, Buf!Data, Buf!totallen, Buf!Cardinality, Queue!Sound, Queue!Data, Queue!totallen, Queue!Cardinality

LEMMA DrainPtrRemoves ==
  ASSUME Buf!Sound, NEW ptr \in Nat, rptr <= ptr, ptr <= rptr + off,
         Buf!DrainPtr(ptr), mem' \in [DOMAIN mem -> Byte \cup {NoByte}],
         \A i \in ptr .. rptr + off - 1 : mem'[i] = mem[i]
  PROVE  Buf!Sound' /\ Buf!Data' = SubSeq(Buf!Data, ptr - rptr + 1, off)
<1>1. Queue!Sound /\ Queue!DrainPtr(ptr)
  BY DEF Buf!Sound, Buf!Data, Buf!totallen, Buf!Cardinality, Buf!DrainPtr,
         Queue!Sound, Queue!Data, Queue!totallen, Queue!Cardinality, Queue!DrainPtr
<1>2. Queue!Sound' /\ Queue!Data' = SubSeq(Queue!Data, ptr - rptr + 1, off)
  <2>1. mem' \in [DOMAIN mem -> Queue!Cell] BY DEF Queue!Cell
  <2> QED BY <1>1, <2>1, Queue!DrainPtrRemoves
<1> QED BY <1>2 DEF Buf!Sound, Buf!Data, Buf!totallen, Buf!Cardinality,
                    Queue!Sound, Queue!Data, Queue!totallen, Queue!Cardinality

LEMMA FindsTheFirst ==
  ASSUME Buf!Sound, NEW c
  PROVE  /\ \A p \in Buf!FindChr(c) :
              /\ p = [block |-> block, at |-> p.at] /\ p.at \in Buf!Unread
              /\ mem[p.at].val = c
              /\ \A i \in Buf!Unread : mem[i].val = c => p.at <= i
         /\ Buf!FindChr(c) = {} => \A i \in Buf!Unread : mem[i].val # c
<1>1. Queue!Sound
  BY DEF Buf!Sound, Buf!Data, Buf!totallen, Buf!Cardinality, Queue!Sound, Queue!Data, Queue!totallen, Queue!Cardinality
<1>2. Queue!FindChr(c) = Buf!FindChr(c) /\ Queue!Unread = Buf!Unread
  BY DEF Buf!FindChr, Buf!Unread, Queue!FindChr, Queue!Unread
<1> QED BY <1>1, <1>2, Queue!FindsTheFirst

\* An empty buffer has the bytes that arrived and are not parsed: none.
LEMMA EmptyInOrder ==
  ASSUME Buf!Sound, Buf!Reset, stream' \in Seq(Byte), arrived' \in Nat
  PROVE  Buf!Sound' /\ BytesInOrder'
<1>1. mem' = mem /\ rptr' = 0 /\ off' = 0 BY DEF Buf!Reset
<1>2. Buf!totallen' = Buf!totallen BY <1>1 DEF Buf!totallen
<1>3. Buf!Data' = <<>> BY <1>1 DEF Buf!Data
<1>4. Buf!Sound' BY <1>1, <1>2, <1>3 DEF Buf!Sound
<1>5. \A a \in Nat : SubSeq(stream', a + 1, a) = <<>>
  <2> SUFFICES ASSUME NEW a \in Nat PROVE SubSeq(stream', a + 1, a) = <<>> OBVIOUS
  <2>1. a + 1 \in Int /\ a \in Int /\ a < a + 1 OBVIOUS
  <2> QED BY <2>1, SubSeqEmpty
<1>6. arrived' - off' + 1 = arrived' + 1 /\ off' <= arrived' BY <1>1
<1>7. BytesInOrder' <=> /\ off' <= arrived'
                        /\ Buf!Data' = SubSeq(stream', arrived' - off' + 1, arrived')
  BY DEF BytesInOrder
<1>8. SubSeq(stream', arrived' - off' + 1, arrived') = <<>> BY <1>5, <1>6
<1> QED BY <1>3, <1>4, <1>6, <1>7, <1>8

\* The place of an unread byte in the stream.
LEMMA PlaceInStream ==
  ASSUME IInv, NEW i \in Buf!Unread
  PROVE  /\ i - rptr + (arrived - off + 1) \in DOMAIN stream
         /\ mem[i] = stream[i - rptr + (arrived - off + 1)]
<1>1. stream \in Seq(Byte) /\ Len(stream) \in Nat BY StreamType DEF IInv, TypeOK
<1>2. /\ arrived \in 0 .. Len(stream) /\ off \in Nat /\ rptr \in Nat
      /\ off <= arrived /\ Buf!Data = SubSeq(stream, arrived - off + 1, arrived)
  BY DEF IInv, TypeOK, Buf!Sound, BytesInOrder
<1> DEFINE k == i - rptr + 1
           a == arrived - off + 1
<1>3. k \in 1 .. off /\ rptr + k - 1 = i BY <1>2 DEF Buf!Unread
<1>4. Buf!Data[k] = mem[i] BY <1>3 DEF Buf!Data
<1>5. SubSeq(stream, a, arrived)[k] = stream[a + k - 1]
  <2>1. a \in 1 .. Len(stream) /\ arrived \in 1 .. Len(stream)
        /\ a \in 1 .. Len(stream) + 1 /\ a <= arrived
        /\ k \in 1 .. arrived - a + 1
    BY <1>1, <1>2, <1>3
  <2> HIDE DEF k, a
  <2> QED BY <1>1, <2>1, SubSeqProperties
<1>6. a + k - 1 = i - rptr + (arrived - off + 1) /\ a + k - 1 \in 1 .. Len(stream)
  BY <1>1, <1>2, <1>3
<1>7. DOMAIN stream = 1 .. Len(stream) BY <1>1, LenProperties
<1> QED BY <1>2, <1>4, <1>5, <1>6, <1>7

\* The place in the buffer of a byte that has arrived and is not parsed.
LEMMA PlaceInBuffer ==
  ASSUME IInv, NEW z \in unparsed .. arrived
  PROVE  /\ z - unparsed + rptr \in Buf!Unread /\ z \in DOMAIN stream
         /\ mem[z - unparsed + rptr] = stream[z]
<1>1. stream \in Seq(Byte) /\ Len(stream) \in Nat BY StreamType DEF IInv, TypeOK
<1>2. arrived \in 0 .. Len(stream) /\ off \in Nat /\ rptr \in Nat /\ off <= arrived
  BY DEF IInv, TypeOK, Buf!Sound, BytesInOrder
<1> DEFINE i == z - unparsed + rptr
<1>3. i \in Buf!Unread /\ i - rptr + (arrived - off + 1) = z
  BY <1>1, <1>2 DEF unparsed, Buf!Unread
<1> HIDE DEF i
<1>4. z \in DOMAIN stream /\ mem[i] = stream[z] BY <1>3, PlaceInStream
<1> QED BY <1>3, <1>4 DEF i

\* The numbers of a state.
LEMMA Numbers ==
  ASSUME IInv
  PROVE  /\ unparsed \in Nat /\ arrived \in Nat /\ arrived <= Len(stream)
         /\ off \in Nat /\ unparsed = arrived - off + 1 /\ unparsed >= 1
         /\ Len(stream) \in Nat /\ DOMAIN stream = 1 .. Len(stream)
         /\ frames \in TupleOf(Frame, MaxFrames)
<1>1. stream \in Seq(Byte) /\ Len(stream) \in Nat /\ DOMAIN stream = 1 .. Len(stream)
  BY StreamType, LenProperties DEF IInv, TypeOK
<1>2. /\ arrived \in 0 .. Len(stream) /\ off \in Nat /\ off <= arrived
      /\ frames \in TupleOf(Frame, MaxFrames)
  BY DEF IInv, TypeOK, Buf!Sound, BytesInOrder
<1> QED BY <1>1, <1>2 DEF unparsed

\* A part of a part of a sequence.
LEMMA PartOfPart ==
  ASSUME NEW S, NEW s \in Seq(S), NEW i \in 1 .. Len(s), NEW j \in 1 .. Len(s),
         NEW m \in 1 .. j - i + 1, NEW n \in 1 .. j - i + 1
  PROVE  SubSeq(SubSeq(s, i, j), m, n) = SubSeq(s, i + m - 1, i + n - 1)
BY SubSeqOfSubSeq

\* A read.
LEMMA ReadSomeStep ==
  ASSUME IInv, NEW n \in Nat \ {0}, ReadSome(n)
  PROVE  IInv'
<1> DEFINE new == SubSeq(stream, arrived + 1, arrived + n)
<1>1. /\ pc' = "parse" /\ arrived' = arrived + n /\ arrived + n <= Len(stream)
      /\ uart_rptr' = uart_rptr /\ frames' = frames /\ handled' = handled
      /\ Buf!Read(new)
  BY DEF ReadSome
<1>2. stream' = stream BY <1>1 DEF stream
<1>3. stream \in Seq(Byte) /\ Len(stream) \in Nat BY StreamType DEF IInv, TypeOK
<1>4. /\ Buf!Sound /\ arrived \in 0 .. Len(stream) /\ off \in Nat /\ rptr \in Nat
      /\ off <= arrived /\ Buf!Data = SubSeq(stream, arrived - off + 1, arrived)
  BY DEF IInv, TypeOK, Buf!Sound, BytesInOrder
<1>5. new \in Seq(Byte) /\ Len(new) = n
  <2>1. arrived + 1 \in 1 .. Len(stream) /\ arrived + n \in 1 .. Len(stream)
        /\ arrived + n \in 0 .. Len(stream) /\ arrived + 1 <= arrived + n
    BY <1>1, <1>3, <1>4
  <2>2. (arrived + n) - (arrived + 1) + 1 = n BY <1>4
  <2> QED BY <1>3, <2>1, <2>2, SubSeqProperties
<1> HIDE DEF new
<1>6. Buf!Sound' /\ Buf!Data' = Buf!Data \o new BY <1>1, <1>4, <1>5, ReadAppends
<1>7. off' = off + n BY <1>1, <1>5 DEF Buf!Read
<1>8. Buf!Data' = SubSeq(stream, arrived' - off' + 1, arrived')
  <2> DEFINE a == arrived - off + 1
  <2>1. arrived' - off' + 1 = a BY <1>1, <1>4, <1>7
  <2>2. a \in 1 .. Len(stream) + 1 /\ arrived \in a - 1 .. Len(stream)
        /\ arrived + n \in arrived .. Len(stream)
    BY <1>1, <1>3, <1>4
  <2>3. SubSeq(stream, a, arrived) \o SubSeq(stream, arrived + 1, arrived + n)
          = SubSeq(stream, a, arrived + n)
    BY <1>3, <2>2, ConcatAdjacentSubSeq
  <2> QED BY <1>1, <1>4, <1>6, <2>1, <2>3 DEF new
<1>9. BytesInOrder' BY <1>1, <1>2, <1>4, <1>7, <1>8 DEF BytesInOrder
<1>10. block' \in Nat
  <2>1. block \in Nat BY DEF IInv, TypeOK
  <2> QED BY <1>1, <2>1 DEF Buf!Read
<1>11. hit' \subseteq DOMAIN frames'
  <2> SUFFICES ASSUME NEW i \in 1 .. n PROVE stream[arrived + i].msg \in DOMAIN frames
    BY <1>1 DEF ReadSome, IInv, TypeOK
  <2> DEFINE z == arrived + i
  <2>1. z \in 1 .. Len(stream) BY <1>1, <1>3, <1>4
  <2>2. z \in DOMAIN stream BY <2>1, <1>3, LenProperties
  <2> HIDE DEF z
  <2>3. stream[z].msg \in DOMAIN frames BY <2>2, FrameAround DEF IInv, TypeOK
  <2> QED BY <2>3 DEF z
<1>12. TypeOK' BY <1>1, <1>2, <1>3, <1>4, <1>6, <1>10, <1>11 DEF IInv, TypeOK
<1> QED BY <1>9, <1>12 DEF IInv

\* The start of the frame that is looked for.
LEMMA StartIs ==
  ASSUME IInv, NEW p \in Start
  PROVE  /\ p \in [block : Nat, at : Nat] /\ p # Null
         /\ uart_rptr # Null => p = uart_rptr
         /\ uart_rptr = Null =>
              \E c \in StartMark : /\ p \in Buf!FindChr(c)
                                   /\ \A e \in StartMark \ {c} : Buf!FindChr(e) = {}
<1>1. CASE uart_rptr # Null BY <1>1 DEF IInv, TypeOK, Start, Null
<1>2. CASE uart_rptr = Null
  <2>1. PICK c \in StartMark : /\ p \in Buf!FindChr(c)
                               /\ \A e \in StartMark \ {c} : Buf!FindChr(e) = {}
    BY <1>2 DEF Start, StartMark
  <2>2. p = [block |-> block, at |-> p.at] /\ p.at \in Buf!Unread
    BY <2>1, FindsTheFirst DEF IInv, TypeOK
  <2>3. p.at \in Nat /\ block \in Nat
    BY <2>2 DEF IInv, TypeOK, Buf!Sound, Buf!Unread
  <2>4. p \in [block : Nat, at : Nat] /\ p.at # -1 BY <2>2, <2>3
  <2> QED BY <1>2, <2>1, <2>4 DEF Null
<1> QED BY <1>1, <1>2

\* What _handle_uart is called with, and what that leaves.
LEMMA Handled ==
  ASSUME IInv, Handle
  PROVE  \E p \in Start, t \in uart_tail :
           /\ \E first \in Buf!Deref(p), second \in Buf!Deref([p EXCEPT !.at = @ + 1]),
                 d \in Buf!Minus(t, p) :
                handled' = Append(handled, [kind |-> Kind(first, second, d + 1),
                             first |-> first, last |-> mem[t.at], size |-> d + 1])
           /\ uart_rptr' = p
           /\ mem' \in [DOMAIN mem -> Byte \cup {NoByte}]
           /\ t = [block |-> block, at |-> t.at] /\ t.at \in Nat
           /\ rptr <= t.at /\ t.at < rptr + off
           /\ mem[t.at].val = "dd" /\ \A i \in Buf!Unread : mem[i].val = "dd" => t.at <= i
           /\ \A i \in Nat : i > t.at => mem'[i] = mem[i]
           /\ Buf!DrainPtr(t.at + 1)
<1>1. PICK p \in Start, t \in uart_tail :
        /\ \E first \in Buf!Deref(p), second \in Buf!Deref([p EXCEPT !.at = @ + 1]),
              d \in Buf!Minus(t, p) :
             /\ handled' = Append(handled, [kind |-> Kind(first, second, d + 1),
                             first |-> first, last |-> mem[t.at], size |-> d + 1])
             /\ mem' = Answered(Kind(first, second, d + 1), p)
        /\ uart_rptr' = p
        /\ Buf!DrainPtr(t.at + 1)
  BY DEF Handle
<1>2. PICK first \in Buf!Deref(p), second \in Buf!Deref([p EXCEPT !.at = @ + 1]) :
        \E d \in Buf!Minus(t, p) :
             /\ handled' = Append(handled, [kind |-> Kind(first, second, d + 1),
                             first |-> first, last |-> mem[t.at], size |-> d + 1])
             /\ mem' = Answered(Kind(first, second, d + 1), p)
  BY <1>1
<1>3. PICK d \in Buf!Minus(t, p) :
             /\ handled' = Append(handled, [kind |-> Kind(first, second, d + 1),
                             first |-> first, last |-> mem[t.at], size |-> d + 1])
             /\ mem' = Answered(Kind(first, second, d + 1), p)
  BY <1>2
<1>4. /\ t = [block |-> block, at |-> t.at] /\ t.at \in Buf!Unread
      /\ mem[t.at].val = "dd" /\ \A i \in Buf!Unread : mem[i].val = "dd" => t.at <= i
  <2>1. t \in Buf!FindChr("dd") BY DEF uart_tail
  <2> QED BY <2>1, FindsTheFirst DEF IInv, TypeOK
<1>5. /\ rptr \in Nat /\ off \in Nat /\ rptr + off <= Buf!totallen /\ Buf!totallen \in Nat
      /\ mem \in [0 .. Buf!totallen - 1 -> Byte \cup {NoByte}]
      /\ Buf!Unread = rptr .. rptr + off - 1 /\ DOMAIN mem = 0 .. Buf!totallen - 1
  BY DEF IInv, TypeOK, Buf!Sound, Buf!Unread
<1>6. t.at \in Nat /\ rptr <= t.at /\ t.at < rptr + off /\ t.at \in DOMAIN mem
  BY <1>4, <1>5
<1>7. p \in [block : Nat, at : Nat] BY StartIs
<1> DEFINE a == p.at + 1
           k == Kind(first, second, d + 1)
<1>8. CASE k = "shake hands" /\ p.block = block
  <2>1. second.val = "f5" /\ d + 1 = 3 BY <1>8 DEF Kind
  <2>2. d = t.at - p.at
    <3>1. t.block = block BY <1>4
    <3> QED BY <3>1, <1>8 DEF Buf!Minus
  <2>3. a \in Nat /\ a < t.at /\ a \in DOMAIN mem
    <3> DEFINE P == p.at
               T == t.at
    <3>1. P \in Nat /\ d = T - P BY <2>2, <1>7
    <3>2. T \in Nat /\ T < rptr + off BY <1>6
    <3> HIDE DEF P, T
    <3>3. P + 1 \in Nat /\ P + 1 < T /\ P + 1 \in 0 .. Buf!totallen - 1
      BY <3>1, <3>2, <2>1, <1>5
    <3> QED BY <3>3, <1>5 DEF P, T
  <2> DEFINE q == [p EXCEPT !.at = @ + 1]
  <2>4. q.block = block /\ q.at = a BY <1>7, <1>8
  <2> HIDE DEF q
  <2>5. second = mem[a]
    <3>1. second \in Buf!Deref(q) BY DEF q
    <3> HIDE DEF a
    <3> QED BY <3>1, <2>3, <2>4 DEF Buf!Deref
  <2> HIDE DEF a
  <2>6. mem[a] \in Byte
    <3>1. mem[a] \in Byte \cup {NoByte} BY <2>3, <1>5
    <3>2. mem[a].val # NoByte.val BY <2>1, <2>5 DEF NoByte
    <3> QED BY <3>1, <3>2
  <2>7. [mem[a] EXCEPT !.val = "f6"] \in Byte BY <2>6 DEF Byte, Value
  <2>8. mem' = [mem EXCEPT ![a].val = "f6"] BY <1>3, <1>8 DEF Answered, a
  <2>9. mem' \in [DOMAIN mem -> Byte \cup {NoByte}]
    BY <2>7, <2>8, <1>5
  <2>10. ASSUME NEW i \in Nat, i > t.at PROVE mem'[i] = mem[i]
    <3>1. i # a BY <2>3, <2>10, <1>6
    <3> QED BY <3>1, <2>8, <1>5
  <2> HIDE DEF k
  <2> QED BY <2>9, <2>10, <1>1, <1>4, <1>6
<1>9. CASE ~(k = "shake hands" /\ p.block = block)
  <2>1. mem' = mem BY <1>3, <1>9 DEF Answered
  <2>2. mem' \in [DOMAIN mem -> Byte \cup {NoByte}] BY <2>1, <1>5
  <2> HIDE DEF k
  <2> QED BY <2>1, <2>2, <1>1, <1>4, <1>6
<1> QED BY <1>8, <1>9

\* One more record of the history, behind n others.
Grows(n, k, a, b, s) ==
  /\ DOMAIN handled = 1 .. n /\ DOMAIN handled' = 1 .. n + 1 /\ Len(handled') = n + 1
  /\ \A i \in 1 .. n : handled'[i] = handled[i]
  /\ handled'[n + 1] = [kind |-> k, first |-> a, last |-> b, size |-> s]

\* The history grows by what _handle_uart is called with.
LEMMA HistoryGrows ==
  ASSUME IInv, NEW k, NEW a, NEW b, NEW s,
         handled' = Append(handled, [kind |-> k, first |-> a, last |-> b, size |-> s])
  PROVE  \E n \in Nat : Grows(n, k, a, b, s)
<1> DEFINE q == [kind |-> k, first |-> a, last |-> b, size |-> s]
           n == Len(handled)
<1>1. n \in Nat /\ DOMAIN handled = 1 .. n BY DEF IInv, TypeOK
<1>2. handled' = [i \in 1 .. n + 1 |-> IF i = n + 1 THEN q ELSE handled[i]]
  <2> HIDE DEF q
  <2> QED BY <1>1 DEF q
<1>3. Len(handled') = n + 1
  <2> HIDE DEF n, q
  <2> QED BY <1>1, <1>2
<1> HIDE DEF n, q
<1>4. n + 1 \in 1 .. n + 1 /\ \A i \in 1 .. n : i \in 1 .. n + 1 /\ i # n + 1 BY <1>1
<1>5. \A i \in 1 .. n : handled'[i] = handled[i] BY <1>2, <1>4
<1>6. handled'[n + 1] = q /\ DOMAIN handled' = 1 .. n + 1 BY <1>2, <1>4
<1>7. Grows(n, k, a, b, s) BY <1>1, <1>3, <1>5, <1>6 DEF q, Grows
<1> QED BY <1>1, <1>7

\* A frame is handled.
LEMMA HandleStep ==
  ASSUME IInv, Handle
  PROVE  IInv'
<1>1. PICK p \in Start, t \in uart_tail :
           /\ \E first \in Buf!Deref(p), second \in Buf!Deref([p EXCEPT !.at = @ + 1]),
                 d \in Buf!Minus(t, p) :
                handled' = Append(handled, [kind |-> Kind(first, second, d + 1),
                             first |-> first, last |-> mem[t.at], size |-> d + 1])
           /\ uart_rptr' = p
           /\ mem' \in [DOMAIN mem -> Byte \cup {NoByte}]
           /\ t.at \in Nat /\ rptr <= t.at /\ t.at < rptr + off
           /\ \A i \in Nat : i > t.at => mem'[i] = mem[i]
           /\ Buf!DrainPtr(t.at + 1)
  BY Handled
<1> DEFINE ptr == t.at + 1
<1>0. /\ ptr \in Nat /\ rptr < ptr /\ ptr <= rptr + off /\ Buf!DrainPtr(ptr)
      /\ \A i \in Nat : i >= ptr => mem'[i] = mem[i]
  <2> DEFINE T == t.at
  <2>1. /\ T \in Nat /\ rptr <= T /\ T < rptr + off /\ Buf!DrainPtr(T + 1)
        /\ \A i \in Nat : i > T => mem'[i] = mem[i]
    BY <1>1
  <2>2. rptr \in Nat /\ off \in Nat BY DEF IInv, TypeOK, Buf!Sound
  <2> HIDE DEF T
  <2>3. T + 1 \in Nat /\ rptr < T + 1 /\ T + 1 <= rptr + off
        /\ \A i \in Nat : i >= T + 1 => i > T
    BY <2>1, <2>2
  <2> QED BY <2>1, <2>3 DEF T
<1> HIDE DEF ptr
<1>2. /\ block' = block /\ frames' = frames /\ arrived' = arrived /\ hit' = hit
      /\ pc' \in {"loop", "parse"}
  BY DEF Handle
<1>3. stream' = stream BY <1>2 DEF stream
<1>4. stream \in Seq(Byte) /\ Len(stream) \in Nat BY StreamType DEF IInv, TypeOK
<1>5. /\ Buf!Sound /\ arrived \in 0 .. Len(stream) /\ off \in Nat /\ rptr \in Nat
      /\ off <= arrived /\ Buf!Data = SubSeq(stream, arrived - off + 1, arrived)
  BY DEF IInv, TypeOK, Buf!Sound, BytesInOrder
<1> DEFINE e == ptr - rptr
<1>6. e \in 1 .. off /\ ptr - rptr + 1 = e + 1 BY <1>0, <1>5
<1>7. Buf!Sound' /\ Buf!Data' = SubSeq(Buf!Data, e + 1, off)
  <2>1. \A i \in ptr .. rptr + off - 1 : mem'[i] = mem[i]
    <3>1. \A i \in ptr .. rptr + off - 1 : i \in Nat /\ i >= ptr BY <1>0, <1>5
    <3> QED BY <3>1, <1>0
  <2>2. rptr <= ptr BY <1>0, <1>5
  <2> HIDE DEF e
  <2>3. Buf!Sound' /\ Buf!Data' = SubSeq(Buf!Data, ptr - rptr + 1, off)
    BY <2>1, <2>2, <1>0, <1>1, <1>5, DrainPtrRemoves
  <2> QED BY <2>3, <1>6
<1>8. off' = off - e
  <2>1. ptr - rptr >= off => off = e BY <1>0, <1>5, <1>6
  <2> QED BY <2>1, <1>0, <1>5, <1>6 DEF Buf!DrainPtr
<1> HIDE DEF e
<1>9. BytesInOrder'
  <2> DEFINE a == arrived - off + 1
  <2>1. arrived' - off' + 1 = a + e /\ off' <= arrived' BY <1>2, <1>5, <1>6, <1>8
  <2>2. SubSeq(SubSeq(stream, a, arrived), e + 1, off) = SubSeq(stream, a + e, arrived)
    <3>1. CASE e = off
      <4>1. e + 1 \in Int /\ off \in Int /\ off < e + 1 /\ a + e \in Int /\ arrived \in Int
            /\ arrived < a + e
        BY <3>1, <1>5, <1>6
      <4> HIDE DEF a
      <4> QED BY <4>1, SubSeqEmpty
    <3>2. CASE e # off
      <4>1. /\ a \in 1 .. Len(stream) /\ arrived \in 1 .. Len(stream)
            /\ e + 1 \in 1 .. arrived - a + 1 /\ off \in 1 .. arrived - a + 1
            /\ a + (e + 1) - 1 = a + e /\ a + off - 1 = arrived
        BY <3>2, <1>4, <1>5, <1>6
      <4> DEFINE m == e + 1
      <4> HIDE DEF a, m
      <4>2. m \in 1 .. arrived - a + 1 /\ a + m - 1 = a + e BY <4>1 DEF m
      <4>3. SubSeq(SubSeq(stream, a, arrived), m, off) = SubSeq(stream, a + m - 1, a + off - 1)
        BY <4>1, <4>2, <1>4, PartOfPart
      <4> QED BY <4>1, <4>2, <4>3 DEF m
    <3> QED BY <3>1, <3>2
  <2>3. Buf!Data' = SubSeq(stream', arrived' - off' + 1, arrived')
    BY <2>1, <2>2, <1>2, <1>3, <1>5, <1>7
  <2> QED BY <2>1, <2>3 DEF BytesInOrder
<1>10. DOMAIN handled' = 1 .. Len(handled') /\ Len(handled') \in Nat
  <2> DEFINE n == Len(handled)
             last == mem[t.at]
  <2>1. \E k, first, sz : handled' = Append(handled, [kind |-> k, first |-> first,
                                                      last |-> last, size |-> sz])
    BY <1>1
  <2> HIDE DEF last
  <2>2. \E h \in Nat : DOMAIN handled' = 1 .. h + 1 /\ Len(handled') = h + 1
    BY <2>1, HistoryGrows DEF Grows
  <2> QED BY <2>2
<1>11. uart_rptr' \in [block : Nat, at : Nat] BY <1>1, StartIs
<1>12. TypeOK' BY <1>2, <1>3, <1>4, <1>7, <1>10, <1>11 DEF IInv, TypeOK
<1> QED BY <1>9, <1>12 DEF IInv

\* The node as ev_nio_alloc hands it out.
LEMMA InitIInv == Init => IInv
<1> SUFFICES ASSUME Init PROVE IInv OBVIOUS
<1> USE UartAssumption
<1>1. /\ mem = [i \in 0 .. BufLen - 1 |-> NoByte] /\ block = 0 /\ rptr = 0 /\ off = 0
      /\ uart_rptr = Null /\ pc = "loop" /\ frames \in TupleOf(Frame, MaxFrames)
      /\ arrived = 0 /\ hit = {} /\ handled = <<>>
  BY DEF Init, Buf!Init
<1>2. Cardinality(0 .. BufLen - 1) = BufLen BY FS_Interval
<1>3. Buf!totallen = BufLen
  BY <1>1, <1>2 DEF Buf!totallen, Buf!Cardinality, Cardinality
<1>4. Buf!Data = <<>> BY <1>1 DEF Buf!Data
<1>5. Buf!Sound BY <1>1, <1>3, <1>4 DEF Buf!Sound
<1>6. Len(stream) \in Nat BY <1>1, StreamType
<1>7. TypeOK BY <1>1, <1>5, <1>6 DEF TypeOK
<1>8. BytesInOrder
  <2>1. SubSeq(stream, 0 + 1, 0) = <<>> BY SubSeqEmpty
  <2>2. arrived - off + 1 = 0 + 1 BY <1>1
  <2> QED BY <1>1, <1>4, <2>1, <2>2 DEF BytesInOrder
<1> QED BY <1>7, <1>8 DEF IInv

\* Every step of the UART thread.
LEMMA NextIInv == IInv /\ [Next]_vars => IInv'
<1> SUFFICES ASSUME IInv, [Next]_vars PROVE IInv' OBVIOUS
<1>1. ASSUME NEW n \in 1 .. MaxFrames * MaxLen, ReadSome(n) PROVE IInv'
  <2>1. MaxFrames * MaxLen \in Nat BY UartAssumption
  <2>2. n \in Nat \ {0} BY <2>1
  <2> QED BY <2>2, <1>1, ReadSomeStep
<1>2. CASE ReadFails \/ InvalidData
  <2>1. /\ Buf!Reset /\ uart_rptr' = Null /\ pc' \in {"loop", "parse"}
        /\ frames' = frames /\ arrived' = arrived /\ handled' = handled
        /\ hit' \subseteq DOMAIN frames'
    BY <1>2 DEF ReadFails, InvalidData, uart_buf_reset, Cut, IInv, TypeOK
  <2>2. stream' = stream BY <2>1 DEF stream
  <2>3. stream \in Seq(Byte) /\ Len(stream) \in Nat BY StreamType DEF IInv, TypeOK
  <2>4. arrived' \in Nat BY <2>1, <2>3 DEF IInv, TypeOK
  <2>5. Buf!Sound' /\ BytesInOrder'
    BY <2>1, <2>2, <2>3, <2>4, EmptyInOrder DEF IInv, TypeOK
  <2>6. block' = block BY <2>1 DEF Buf!Reset
  <2>7. TypeOK' BY <2>1, <2>2, <2>5, <2>6 DEF IInv, TypeOK
  <2> QED BY <2>5, <2>7 DEF IInv
<1>3. ASSUME uartBuf' = uartBuf, frames' = frames, arrived' = arrived, hit' = hit,
             handled' = handled, pc' \in {"loop", "parse", "crashed"},
             uart_rptr' = Null \/ uart_rptr' \in [block : Nat, at : Nat]
      PROVE  IInv'
  <2>1. mem' = mem /\ block' = block /\ rptr' = rptr /\ off' = off BY <1>3 DEF uartBuf
  <2>2. stream' = stream BY <1>3 DEF stream
  <2>3. Buf!totallen' = Buf!totallen /\ Buf!Data' = Buf!Data BY <2>1 DEF Buf!totallen, Buf!Data
  <2>4. Buf!Sound' BY <2>1, <2>3 DEF IInv, TypeOK, Buf!Sound
  <2>5. TypeOK' BY <1>3, <2>1, <2>2, <2>4 DEF IInv, TypeOK
  <2>6. BytesInOrder' BY <1>3, <2>1, <2>2, <2>3 DEF IInv, BytesInOrder
  <2> QED BY <2>5, <2>6 DEF IInv
<1>4. CASE NoEndFlag
  <2>1. uart_rptr' \in [block : Nat, at : Nat] BY <1>4, StartIs DEF NoEndFlag
  <2> QED BY <2>1, <1>3, <1>4 DEF NoEndFlag
<1>5. CASE Handle BY <1>5, HandleStep
<1>6. CASE CrashHandle \/ UNCHANGED vars
  BY <1>3, <1>6 DEF CrashHandle, vars, IInv, TypeOK
<1> QED BY <1>1, <1>2, <1>4, <1>5, <1>6 DEF Next

---------------------------------------------------------------------------
(* Where the frames are *)

\* A byte has the value that its frame has in its place, and between it and
\* the next byte there is none.
LEMMA FrameValues ==
  ASSUME frames \in TupleOf(Frame, MaxFrames), NEW i \in DOMAIN stream
  PROVE  /\ stream[i] = [val |-> frames[stream[i].msg][stream[i].at],
                         msg |-> stream[i].msg, at |-> stream[i].at]
         /\ stream[i].val = frames[stream[i].msg][stream[i].at]
         /\ stream[i].at \in 1 .. size(i)
<1> DEFINE j == stream[i].at
<1>1. j \in 1 .. size(i) /\ i = begin(i) + j BY FrameAround
<1> HIDE DEF j
<1>2. stream[begin(i) + j] = [val |-> frames[stream[i].msg][j], msg |-> stream[i].msg, at |-> j]
  BY <1>1, FrameAround
<1>3. stream[i] = [val |-> frames[stream[i].msg][j], msg |-> stream[i].msg, at |-> j]
  BY <1>1, <1>2
<1>4. stream[i].val = frames[stream[i].msg][j] BY <1>3
<1> QED BY <1>1, <1>3, <1>4 DEF j

\* The byte behind one that is not the last of its frame.
LEMMA NextInFrame ==
  ASSUME frames \in TupleOf(Frame, MaxFrames), NEW i \in DOMAIN stream,
         stream[i].at # size(i)
  PROVE  /\ i + 1 \in DOMAIN stream /\ stream[i + 1].msg = stream[i].msg
         /\ stream[i + 1].at = stream[i].at + 1
<1>1. /\ i \in Nat /\ begin(i) \in Nat /\ size(i) \in Nat /\ i = begin(i) + stream[i].at
      /\ stream[i].at \in 1 .. size(i)
  BY FrameAround
<1> DEFINE l == i + 1
<1>2. l \in Int /\ begin(i) < l /\ l <= begin(i) + size(i) /\ l - begin(i) = stream[i].at + 1
  BY <1>1
<1> HIDE DEF l
<1>3. l \in DOMAIN stream /\ stream[l].msg = stream[i].msg /\ stream[l].at = l - begin(i)
  BY <1>2, SameFrame
<1> QED BY <1>2, <1>3 DEF l

\* The byte in front of one that is not the first of its frame.
LEMMA LastInFrame ==
  ASSUME frames \in TupleOf(Frame, MaxFrames), NEW a \in Nat, a + 1 \in DOMAIN stream,
         stream[a + 1].at > 1
  PROVE  /\ a \in DOMAIN stream /\ stream[a].msg = stream[a + 1].msg
         /\ stream[a + 1].at = stream[a].at + 1
<1> DEFINE i == a + 1
<1>0. i \in DOMAIN stream /\ stream[i].at > 1 /\ i = a + 1 OBVIOUS
<1> HIDE DEF i
<1>1. /\ i \in Nat /\ begin(i) \in Nat /\ size(i) \in Nat /\ i = begin(i) + stream[i].at
      /\ stream[i].at \in 1 .. size(i)
  BY <1>0, FrameAround
<1>2. a \in Int /\ begin(i) < a /\ a <= begin(i) + size(i) /\ a - begin(i) + 1 = stream[i].at
  BY <1>0, <1>1
<1>3. a \in DOMAIN stream /\ stream[a].msg = stream[i].msg /\ stream[a].at = a - begin(i)
  BY <1>0, <1>2, SameFrame
<1> QED BY <1>2, <1>3 DEF i

\* Every frame is from a start mark to an end mark.
LEMMA FrameMarks ==
  ASSUME FramesAsExpected, frames \in TupleOf(Frame, MaxFrames), NEW i \in DOMAIN stream
  PROVE  /\ frames[stream[i].msg][1] \in StartMark /\ frames[stream[i].msg][size(i)] = "dd"
         /\ size(i) \in 2 .. MaxLen
         /\ stream[i].at = 1 => stream[i].val \in StartMark
         /\ stream[i].at = size(i) => stream[i].val = "dd"
<1>1. frames[stream[i].msg] \in Frame /\ size(i) \in Nat BY FrameAround
<1>2. /\ frames[stream[i].msg][1] \in StartMark /\ frames[stream[i].msg][size(i)] = "dd"
  BY <1>1 DEF FramesAsExpected, size
<1>3. size(i) \in 1 .. MaxLen BY <1>1, UartAssumption DEF size
<1>4. size(i) # 1 BY <1>2 DEF StartMark
<1>5. MaxLen \in Nat BY UartAssumption
<1>6. size(i) \in 2 .. MaxLen BY <1>3, <1>4, <1>5
<1> QED BY <1>2, <1>6, FrameValues

\* A plain frame has a start mark in its first place and an end mark in its
\* last one, and no other mark.
LEMMA PlainMarks ==
  ASSUME FramesAsExpected, frames \in TupleOf(Frame, MaxFrames), NEW i \in DOMAIN stream,
         stream[i].msg \in Plain
  PROVE  /\ stream[i].val \in StartMark <=> stream[i].at = 1
         /\ stream[i].val = "dd" <=> stream[i].at = size(i)
<1> DEFINE k == stream[i].msg
           j == stream[i].at
<1>1. /\ frames[k][1] \in StartMark /\ frames[k][size(i)] = "dd" /\ size(i) \in 2 .. MaxLen
      /\ stream[i].val = frames[k][j] /\ j \in 1 .. size(i)
  BY FrameMarks, FrameValues
<1>2. \A l \in 2 .. size(i) : frames[k][l] \in StartMark \cup {"dd"} <=>
                                l = size(i) /\ frames[k][l] = "dd"
  BY DEF Plain, size
<1>3. "dd" \notin StartMark /\ MaxLen \in Nat BY UartAssumption DEF StartMark
<1> HIDE DEF k, j
<1>4. j = 1 \/ j \in 2 .. size(i) BY <1>1
<1> QED BY <1>1, <1>2, <1>3, <1>4 DEF j

\* A plain frame has been read up to some place if its end mark has.
LEMMA PlainEnd ==
  ASSUME FramesAsExpected, frames \in TupleOf(Frame, MaxFrames), NEW k \in Plain
  PROVE  \E i \in DOMAIN stream :
           /\ stream[i].msg = k /\ stream[i].val = "dd" /\ stream[i].at = size(i)
           /\ \A z \in Nat : k \in Before(z) <=> i < z
<1>1. k \in DOMAIN frames BY DEF Plain
<1>2. PICK i \in DOMAIN stream : stream[i].msg = k /\ stream[i].at = size(i)
  BY <1>1, FrameEnds
<1>3. stream[i].val = "dd" BY <1>2, PlainMarks
<1>4. /\ i \in Nat /\ begin(i) \in Nat /\ i = begin(i) + stream[i].at
  BY FrameAround
<1>5. ASSUME NEW l \in DOMAIN stream, stream[l].msg = k PROVE l \in Nat /\ l <= i
  <2>1. /\ l \in Nat /\ l = begin(l) + stream[l].at /\ stream[l].at \in 1 .. size(l)
        /\ size(l) \in Nat
    BY FrameAround
  <2>2. begin(l) = begin(i) BY <1>2, <1>5, FrameAround
  <2>3. size(l) = size(i) BY <1>2, <1>5 DEF size
  <2> QED BY <2>1, <2>2, <2>3, <1>2, <1>4
<1>6. ASSUME NEW z \in Nat PROVE k \in Before(z) <=> i < z
  <2>1. k \in Before(z) => i < z BY <1>2 DEF Before
  <2>2. ASSUME i < z, NEW l \in DOMAIN stream, stream[l].msg = k PROVE l < z
    <3>1. l \in Nat /\ l <= i BY <1>5, <2>2
    <3> QED BY <3>1, <2>2, <1>4
  <2>3. i < z => k \in Before(z) BY <2>2, <1>1 DEF Before
  <2> QED BY <2>1, <2>3
<1> QED BY <1>2, <1>3, <1>6

\* Where there is no end mark of a plain frame between two places, but of those
\* in h, no other plain frame is read between them.
LEMMA NoneBetween ==
  ASSUME FramesAsExpected, frames \in TupleOf(Frame, MaxFrames), NEW h,
         NEW u \in Nat, NEW v \in Nat, u <= v,
         \A i \in DOMAIN stream :
           stream[i].msg \in Plain \ h /\ stream[i].val = "dd" => ~(u <= i /\ i < v)
  PROVE  (Before(v) \cap Plain) \ h = (Before(u) \cap Plain) \ h
<1> SUFFICES ASSUME NEW k \in Plain, k \notin h PROVE k \in Before(v) <=> k \in Before(u)
  OBVIOUS
<1>1. PICK i \in DOMAIN stream :
        /\ stream[i].msg = k /\ stream[i].val = "dd"
        /\ \A z \in Nat : k \in Before(z) <=> i < z
  BY PlainEnd
<1>2. ~(u <= i /\ i < v) BY <1>1
<1>3. i \in Nat BY FrameAround
<1> QED BY <1>1, <1>2, <1>3

\* What is looked for is found if it is among the bytes that have arrived and
\* are not parsed, and only then.
LEMMA FoundAmong ==
  ASSUME IInv, NEW c
  PROVE  Buf!FindChr(c) = {} <=> \A z \in unparsed .. arrived : stream[z].val # c
<1>1. ASSUME Buf!FindChr(c) = {}, NEW z \in unparsed .. arrived PROVE stream[z].val # c
  <2>1. \A i \in Buf!Unread : mem[i].val # c BY <1>1, FindsTheFirst DEF IInv, TypeOK
  <2> QED BY <2>1, PlaceInBuffer
<1>2. ASSUME NEW p \in Buf!FindChr(c)
      PROVE  \E z \in unparsed .. arrived : stream[z].val = c
  <2>1. p.at \in Buf!Unread /\ mem[p.at].val = c BY FindsTheFirst DEF IInv, TypeOK
  <2> DEFINE i == p.at
             z == i - rptr + (arrived - off + 1)
  <2>2. mem[i] = stream[z] BY <2>1, PlaceInStream
  <2>3. z \in unparsed .. arrived
    <3>1. rptr \in Nat /\ i \in rptr .. rptr + off - 1
      BY <2>1 DEF IInv, TypeOK, Buf!Sound, Buf!Unread
    <3>2. off \in Nat /\ arrived \in Nat /\ unparsed = arrived - off + 1 BY Numbers
    <3> HIDE DEF i
    <3> QED BY <3>1, <3>2
  <2> HIDE DEF z
  <2> QED BY <2>1, <2>2, <2>3
<1> QED BY <1>1, <1>2

\* The bytes that have arrived and are not parsed are of one frame.
LEMMA AllOfOneFrame ==
  ASSUME IInv, FramesAsExpected, OneFrame, off > 0, NEW z \in unparsed .. arrived
  PROVE  /\ z \in DOMAIN stream /\ arrived \in DOMAIN stream
         /\ stream[z].msg = stream[arrived].msg /\ size(z) = size(arrived)
         /\ stream[arrived].at = stream[z].at + (arrived - z)
<1>1. /\ unparsed \in Nat /\ arrived \in Nat /\ arrived <= Len(stream) /\ off \in Nat
      /\ unparsed = arrived - off + 1 /\ unparsed >= 1 /\ Len(stream) \in Nat
      /\ DOMAIN stream = 1 .. Len(stream) /\ frames \in TupleOf(Frame, MaxFrames)
  BY Numbers
<1>2. arrived \in DOMAIN stream BY <1>1
<1>3. /\ begin(arrived) \in Nat /\ size(arrived) \in Nat
      /\ arrived = begin(arrived) + stream[arrived].at
      /\ stream[arrived].at \in 1 .. size(arrived)
  BY <1>1, <1>2, FrameAround
<1>4. rptr + off <= stream[arrived].at /\ rptr \in Nat
  BY DEF OneFrame, IInv, TypeOK, Buf!Sound
<1>5. z \in Int /\ begin(arrived) < z /\ z <= begin(arrived) + size(arrived)
  BY <1>1, <1>3, <1>4
<1>6. z \in DOMAIN stream /\ stream[z].msg = stream[arrived].msg
      /\ stream[z].at = z - begin(arrived)
  BY <1>1, <1>2, <1>5, SameFrame
<1> QED BY <1>1, <1>2, <1>3, <1>5, <1>6 DEF size

\* Among the bytes of a frame that are unread from its first one on, the start
\* that is found is that one, where the buffer begins.
LEMMA StartAtFirst ==
  ASSUME IInv, FramesAsExpected, OneFrame, off > 0, uart_rptr = Null, NEW p \in Start,
         stream[unparsed].at = 1
  PROVE  p.at = 0
<1>1. PICK c \in StartMark : /\ p \in Buf!FindChr(c)
                             /\ \A e \in StartMark \ {c} : Buf!FindChr(e) = {}
  BY StartIs
<1>2. /\ unparsed \in Nat /\ arrived \in Nat /\ off \in Nat /\ unparsed = arrived - off + 1
      /\ frames \in TupleOf(Frame, MaxFrames)
  BY Numbers
<1>3. unparsed \in unparsed .. arrived BY <1>2
<1>4. unparsed \in DOMAIN stream BY <1>3, AllOfOneFrame
<1>5. stream[unparsed].val \in StartMark BY <1>2, <1>4, FrameMarks
<1>6. stream[unparsed].val = c BY <1>1, <1>3, <1>5, FoundAmong
<1>7. rptr = 0 BY DEF OneFrame
<1>8. 0 \in Buf!Unread /\ mem[0].val = c
  <2>1. unparsed - unparsed + rptr = 0 BY <1>2, <1>7
  <2> QED BY <2>1, <1>3, <1>6, PlaceInBuffer
<1>9. p.at \in Buf!Unread /\ p.at <= 0
  BY <1>1, <1>8, FindsTheFirst DEF IInv, TypeOK
<1>10. p.at \in Nat BY <1>9 DEF IInv, TypeOK, Buf!Sound, Buf!Unread
<1> QED BY <1>9, <1>10

\* A start that is found behind the place where the buffer begins is one among
\* the octets of a frame of which the beginning is gone.
LEMMA StartBehind ==
  ASSUME IInv, FramesAsExpected, OneFrame, StartLost, off > 0, uart_rptr = Null,
         NEW p \in Start, p.at > 0
  PROVE  (hit \cap Marked) \cup Torn # {}
<1>1. PICK c \in StartMark : p \in Buf!FindChr(c) BY StartIs
<1>2. /\ unparsed \in Nat /\ arrived \in Nat /\ off \in Nat /\ unparsed = arrived - off + 1
      /\ frames \in TupleOf(Frame, MaxFrames)
  BY Numbers
<1> DEFINE u == unparsed
           z == p.at + u
<1>3. rptr = 0 BY DEF OneFrame
<1>4. p.at \in Buf!Unread /\ mem[p.at].val = c BY <1>1, FindsTheFirst DEF IInv, TypeOK
<1>5. p.at \in 0 .. off - 1
  <2>1. Buf!Unread = rptr .. rptr + off - 1 BY DEF Buf!Unread
  <2> QED BY <2>1, <1>2, <1>3, <1>4
<1>6. z \in u .. arrived /\ u \in u .. arrived BY <1>2, <1>5
<1>7. stream[z].val = c
  <2>1. p.at - rptr + (arrived - off + 1) = z BY <1>2, <1>3, <1>5
  <2> QED BY <2>1, <1>4, PlaceInStream
<1> DEFINE K == stream[arrived].msg
           n == stream[u].at
           i == stream[z].at
<1>8. /\ u \in DOMAIN stream /\ z \in DOMAIN stream /\ stream[u].msg = K /\ stream[z].msg = K
      /\ size(z) = size(u)
      /\ stream[arrived].at = n + (arrived - u) /\ stream[arrived].at = i + (arrived - z)
  BY <1>6, AllOfOneFrame
<1>9. n \in 1 .. size(u) /\ i \in 1 .. size(u) /\ size(u) \in Nat /\ frames[K][i] = c
      /\ size(u) = Len(frames[K]) /\ K \in DOMAIN frames
  <2>1. n \in 1 .. size(u) /\ size(u) \in Nat /\ K \in DOMAIN frames
    BY <1>2, <1>8, FrameAround
  <2>2. i \in 1 .. size(u) /\ frames[K][i] = c BY <1>2, <1>7, <1>8, FrameValues
  <2> QED BY <2>1, <2>2, <1>8 DEF size
<1>10. n > 1
  <2>1. n # 1 BY StartAtFirst
  <2> QED BY <2>1, <1>9
<1>11. i > n
  <2> DEFINE a == p.at
  <2>1. z = a + u /\ a \in Nat /\ a > 0 BY <1>5
  <2> HIDE DEF a, z, n, i
  <2> QED BY <2>1, <1>2, <1>8, <1>9
<1>12. K \in hit \/ OtherMark(K, n) BY <1>8, <1>10 DEF StartLost
<1> HIDE DEF K, n, i
<1>13. CASE K \in hit
  <2>1. i \in 2 .. Len(frames[K]) BY <1>9, <1>10, <1>11
  <2>2. K \in Marked BY <2>1, <1>9 DEF Marked
  <2> QED BY <2>2, <1>13
<1>14. CASE OtherMark(K, n)
  <2>1. n \in 2 .. Len(frames[K]) - 1 /\ i \in n + 1 .. Len(frames[K])
    BY <1>9, <1>10, <1>11
  <2>2. K \in Seen
    <3>1. off <= arrived BY DEF IInv, BytesInOrder
    <3>2. arrived \in 1 .. arrived BY <3>1, <1>2
    <3> QED BY <3>2 DEF Seen, K
  <2>3. K \in Torn BY <2>1, <2>2, <1>9, <1>14 DEF Torn
  <2> QED BY <2>3
<1> QED BY <1>12, <1>13, <1>14

---------------------------------------------------------------------------
(* Which frames are acted on *)

\* The invariant of the frames.
Kept == OneFrame /\ StartLost /\ PlainInPlace /\ OncePerFrame(Parsed)

\* Nothing is handled, and no plain frame is parsed that is not in hit.
LEMMA OnceStays ==
  ASSUME OncePerFrame(Parsed), frames' = frames, handled' = handled, hit \subseteq hit',
         (Parsed' \cap Plain) \ hit' = (Parsed \cap Plain) \ hit'
  PROVE  OncePerFrame(Parsed)'
<1>1. Plain' = Plain BY DEF Plain
<1>3. Acted' = {i \in Acted : handled[i].last.msg \notin hit'} BY <1>1 DEF Acted
<1>4. {handled[i].last.msg : i \in Acted'} = {handled[i].last.msg : i \in Acted} \ hit'
  BY <1>3
<1>5. {handled[i].last.msg : i \in Acted'} = (Parsed' \cap Plain) \ hit'
  BY <1>4 DEF OncePerFrame
<1>6. ASSUME NEW i \in Acted' PROVE handled'[i] = Whole(handled[i].last.msg)'
  <2>1. handled[i] = Whole(handled[i].last.msg) BY <1>3 DEF OncePerFrame
  <2> QED BY <2>1 DEF Whole, Meant
<1>7. \A i, j \in Acted' : i < j => handled'[i].last.msg < handled'[j].last.msg
  BY <1>3 DEF OncePerFrame
<1> QED BY <1>1, <1>5, <1>6, <1>7 DEF OncePerFrame

\* A read appends to what is in the buffer, which has the room.
LEMMA KeptRead ==
  ASSUME IInv, FramesAsExpected, Kept, NEW n \in Nat \ {0}, ReadSome(n)
  PROVE  Kept'
<1>1. /\ pc = "loop" /\ pc' = "parse" /\ arrived + n <= Len(stream) /\ arrived' = arrived + n
      /\ uart_rptr' = uart_rptr /\ frames' = frames /\ handled' = handled
      /\ stream[arrived + 1].msg = stream[arrived + n].msg
      /\ hit' = hit \cup IF Astray THEN {stream[arrived + i].msg : i \in 1 .. n} ELSE {}
  BY DEF ReadSome, FramesAsExpected
<1>2. /\ unparsed \in Nat /\ arrived \in Nat /\ off \in Nat /\ unparsed = arrived - off + 1
      /\ Len(stream) \in Nat /\ DOMAIN stream = 1 .. Len(stream) /\ stream \in Seq(Byte)
      /\ frames \in TupleOf(Frame, MaxFrames)
  BY Numbers, StreamType
<1>3. /\ rptr \in Nat /\ Buf!totallen = BufLen /\ BufLen \in Nat /\ MaxLen \in Nat
      /\ MaxLen <= BufLen /\ mem \in [DOMAIN mem -> Byte \cup {NoByte}]
  BY UartAssumption DEF Kept, OneFrame, FramesAsExpected, IInv, TypeOK, Buf!Sound
<1> DEFINE c == arrived + 1
           b == arrived + n
           new == SubSeq(stream, c, b)
<1>4. c \in DOMAIN stream /\ b \in DOMAIN stream /\ stream[c].msg = stream[b].msg
      /\ b = c + n - 1 /\ c \in Nat /\ b \in Nat
  BY <1>1, <1>2
<1>5. Len(new) = n
  <2>1. c \in 1 .. Len(stream) /\ b \in 0 .. Len(stream) /\ c <= b /\ b - c + 1 = n
    BY <1>1, <1>2
  <2> HIDE DEF c, b
  <2> QED BY <2>1, <1>2, SubSeqProperties
<1>6. Buf!Read(new) BY DEF ReadSome
<1> HIDE DEF new, c, b
<1>7. /\ begin(c) = begin(b) /\ c = begin(c) + stream[c].at /\ b = begin(b) + stream[b].at
      /\ begin(c) \in Nat /\ begin(b) \in Nat
      /\ stream[c].at \in 1 .. size(c) /\ stream[b].at \in 1 .. size(b)
      /\ size(c) \in Nat /\ size(b) \in 2 .. MaxLen
  BY <1>2, <1>4, FrameAround, FrameMarks
<1>8. rptr + off + n <= stream[b].at
  <2>1. CASE off = 0
    <3>1. rptr = 0 BY <2>1 DEF Kept, OneFrame
    <3> QED BY <2>1, <3>1, <1>2, <1>4, <1>7
  <2>2. CASE off > 0
    <3>1. arrived \in unparsed .. arrived BY <2>2, <1>2
    <3>2. stream[arrived].val # "dd" BY <3>1, <1>1 DEF Kept, OneFrame
    <3>3. arrived \in DOMAIN stream BY <3>1, <2>2, AllOfOneFrame DEF Kept
    <3>4. stream[arrived].at # size(arrived) BY <3>2, <3>3, <1>2, FrameMarks
    <3>5. /\ stream[c].msg = stream[arrived].msg /\ stream[c].at = stream[arrived].at + 1
      BY <3>3, <3>4, <1>2, NextInFrame DEF c
    <3>6. rptr + off <= stream[arrived].at BY <2>2 DEF Kept, OneFrame
    <3>7. stream[arrived].at \in Nat
      <4>1. stream[arrived].at \in 1 .. size(arrived) /\ size(arrived) \in Nat
        BY <3>3, <1>2, FrameAround
      <4> QED BY <4>1
    <3> DEFINE x == stream[arrived].at
               y == stream[b].at
               w == begin(b)
    <3>9. x \in Nat /\ w \in Nat /\ rptr + off <= x /\ b = w + y BY <3>6, <3>7, <1>7
    <3>11. c = w + x + 1
      <4>1. c = w + stream[c].at BY <1>7
      <4>2. stream[c].at = x + 1 BY <3>5
      <4> HIDE DEF x, y, w
      <4> QED BY <4>1, <4>2, <3>9
    <3>12. y \in Nat
      <4>1. y \in 1 .. size(b) /\ size(b) \in Nat BY <1>7
      <4> HIDE DEF y
      <4> QED BY <4>1
    <3>13. /\ b \in Nat /\ c \in Nat /\ b = c + n - 1 /\ rptr \in Nat /\ off \in Nat
           /\ n \in Nat
      BY <1>2, <1>3, <1>4
    <3> HIDE DEF x, y, w
    <3>10. rptr + off + n <= y BY <3>9, <3>11, <3>12, <3>13
    <3> QED BY <3>10 DEF y
  <2> QED BY <2>1, <2>2, <1>2
<1>9. Buf!Fits(n)
  <2>1. rptr + off + n <= BufLen
    <3> DEFINE y == stream[b].at
    <3>1. y \in Nat /\ y <= MaxLen
      <4>1. y \in 1 .. size(b) /\ size(b) \in 2 .. MaxLen BY <1>7
      <4> HIDE DEF y
      <4> QED BY <4>1, <1>3
    <3>2. rptr + off + n <= y BY <1>8
    <3> HIDE DEF y
    <3> QED BY <3>1, <3>2, <1>2, <1>3
  <2> QED BY <2>1, <1>3 DEF Buf!Fits
<1>10. /\ off' = off + n /\ rptr' = rptr /\ block' = block /\ DOMAIN mem' = DOMAIN mem
  BY <1>5, <1>6, <1>9 DEF Buf!Read, Buf!Write
<1>11. stream' = stream /\ Plain' = Plain /\ Marked' = Marked /\ Torn \subseteq Torn'
       /\ Astray' = Astray /\ hit \subseteq hit'
       /\ \A k, e : OtherMark(k, e)' = OtherMark(k, e)
  <2>1. stream' = stream /\ Plain' = Plain /\ Marked' = Marked
        /\ Astray' = Astray /\ hit \subseteq hit'
        /\ \A k, e : OtherMark(k, e)' = OtherMark(k, e)
    BY <1>1 DEF stream, Plain, Marked, OtherMark, Astray
  <2>2. 1 .. arrived \subseteq 1 .. arrived' BY <1>1, <1>2
  <2>3. Seen \subseteq Seen' BY <2>1, <2>2 DEF Seen
  <2>4. Torn \subseteq Torn' BY <2>1, <2>3, <1>1 DEF Torn
  <2> QED BY <2>1, <2>4
<1>12. unparsed' = unparsed
  <2>1. unparsed' = arrived' - off' + 1 BY DEF unparsed
  <2> QED BY <2>1, <1>1, <1>2, <1>10
<1>13. OneFrame'
  <2>1. Buf!totallen' = BufLen BY <1>3, <1>10 DEF Buf!totallen
  <2>2. arrived' = b /\ off' > 0 /\ off' # 0 BY <1>1, <1>2, <1>10 DEF b
  <2>3. rptr' + off' <= stream'[arrived'].at BY <2>2, <1>2, <1>3, <1>8, <1>10, <1>11
  <2> QED BY <2>1, <2>2, <2>3, <1>1, <1>10 DEF Kept, OneFrame
<1>14. StartLost' BY <1>1, <1>11, <1>12 DEF Kept, StartLost
<1>15. PlainInPlace'
  <2>1. ASSUME Astray PROVE stream[b].msg \in hit'
    <3>1. n \in 1 .. n OBVIOUS
    <3> QED BY <3>1, <2>1, <1>1 DEF b
  <2>2. arrived' = b BY <1>1 DEF b
  <2> QED BY <2>1, <2>2, <1>11, <1>12 DEF Kept, PlainInPlace
<1>16. OncePerFrame(Parsed)'
  <2>1. Parsed' = Parsed BY <1>1, <1>11, <1>12 DEF Parsed, Before
  <2> QED BY <2>1, <1>1, <1>11, OnceStays DEF Kept
<1> QED BY <1>13, <1>14, <1>15, <1>16 DEF Kept

\* The buffer is emptied: by then there is no end mark of a plain frame in it
\* but of those in hit, and the start of the next one is not taken from it.
LEMMA KeptReset ==
  ASSUME IInv, FramesAsExpected, Kept, uart_buf_reset, pc' = "loop",
         frames' = frames, arrived' = arrived, handled' = handled, hit \subseteq hit',
         \A z \in unparsed .. arrived :
           stream[z].val = "dd" => stream[z].msg \notin Plain \ hit',
         arrived + 1 \in DOMAIN stream /\ stream[arrived + 1].at > 1
           => /\ \/ stream[arrived + 1].msg \in hit'
                 \/ OtherMark(stream[arrived + 1].msg, stream[arrived + 1].at)
              /\ stream[arrived + 1].msg \notin Plain \ hit'
  PROVE  Kept'
<1>1. mem' = mem /\ block' = block /\ rptr' = 0 /\ off' = 0 /\ uart_rptr' = Null
  BY DEF uart_buf_reset, Buf!Reset
<1>2. /\ unparsed \in Nat /\ arrived \in Nat /\ off \in Nat /\ unparsed = arrived - off + 1
      /\ frames \in TupleOf(Frame, MaxFrames)
  BY Numbers
<1> DEFINE u == unparsed
           v == arrived + 1
<1>3. unparsed' = v /\ u \in Nat /\ v \in Nat /\ u <= v
  <2>1. unparsed' = arrived' - off' + 1 BY DEF unparsed
  <2> QED BY <2>1, <1>1, <1>2
<1>4. stream' = stream /\ Plain' = Plain /\ ~Astray'
      /\ \A k, e : OtherMark(k, e)' = OtherMark(k, e)
  BY <1>1 DEF stream, Plain, OtherMark, Astray
<1>5. OneFrame'
  <2>1. Buf!totallen' = BufLen BY <1>1 DEF Buf!totallen, Kept, OneFrame
  <2>2. unparsed' .. arrived' = {} BY <1>2, <1>3
  <2> QED BY <2>1, <2>2, <1>1 DEF OneFrame
<1>6. StartLost' BY <1>3, <1>4 DEF StartLost
<1>7. PlainInPlace' BY <1>1, <1>3, <1>4 DEF PlainInPlace
<1>8. OncePerFrame(Parsed)'
  <2>1. ASSUME NEW i \in DOMAIN stream, stream[i].msg \in Plain \ hit', stream[i].val = "dd"
        PROVE  ~(u <= i /\ i < v)
    <3>1. i \in Nat BY <1>2, FrameAround
    <3>2. u <= i /\ i < v => i \in u .. arrived BY <3>1, <1>2
    <3> QED BY <3>2, <2>1
  <2>2. Parsed' = Before(v) BY <1>3, <1>4 DEF Parsed, Before
  <2> HIDE DEF u, v
  <2>3. (Before(v) \cap Plain) \ hit' = (Before(u) \cap Plain) \ hit'
    BY <2>1, <1>2, <1>3, NoneBetween
  <2> QED BY <2>2, <2>3, OnceStays DEF Kept, Parsed, u
<1> QED BY <1>5, <1>6, <1>7, <1>8 DEF Kept

\* A failed read.
LEMMA KeptFails ==
  ASSUME IInv, FramesAsExpected, Kept, ReadFails
  PROVE  Kept'
<1>1. /\ pc = "loop" /\ pc' = "loop" /\ uart_buf_reset /\ hit' = hit \cup Cut
      /\ frames' = frames /\ arrived' = arrived /\ handled' = handled
  BY DEF ReadFails
<1>2. arrived \in Nat /\ frames \in TupleOf(Frame, MaxFrames) BY Numbers
<1>3. \A z \in unparsed .. arrived : stream[z].val # "dd" BY <1>1 DEF Kept, OneFrame
<1> DEFINE v == arrived + 1
<1>4. ASSUME v \in DOMAIN stream, stream[v].at > 1 PROVE stream[v].msg \in hit'
  <2>1. arrived \in DOMAIN stream /\ stream[arrived].msg = stream[v].msg
    BY <1>2, <1>4, LastInFrame
  <2>2. arrived <= arrived /\ v > arrived BY <1>2
  <2>3. stream[v].msg \in DOMAIN frames BY <1>2, <1>4, FrameAround
  <2> HIDE DEF v
  <2>4. stream[v].msg \in Cut BY <2>1, <2>2, <2>3, <1>4 DEF Cut
  <2> QED BY <2>4, <1>1
<1> QED BY <1>1, <1>3, <1>4, KeptReset

\* Data in which no start, or no single kind of it, is found.
LEMMA KeptInvalid ==
  ASSUME IInv, FramesAsExpected, Kept, InvalidData
  PROVE  Kept'
<1>1. /\ pc = "parse" /\ pc' = "loop" /\ uart_buf_reset /\ hit' = hit /\ Start = {}
      /\ frames' = frames /\ arrived' = arrived /\ handled' = handled
  BY DEF InvalidData
<1>2. /\ unparsed \in Nat /\ arrived \in Nat /\ off \in Nat /\ unparsed = arrived - off + 1
      /\ frames \in TupleOf(Frame, MaxFrames)
  BY Numbers
<1>3. off > 0 /\ OneFrame BY <1>1 DEF Kept, OneFrame
<1>4. uart_rptr = Null
      /\ \/ \A c \in StartMark : Buf!FindChr(c) = {}
         \/ \A c \in StartMark : Buf!FindChr(c) # {}
  BY <1>1 DEF Start, StartMark
<1> DEFINE u == unparsed
           K == stream[arrived].msg
           e == stream[arrived].at + 1
<1>5. u \in u .. arrived /\ arrived \in u .. arrived BY <1>2, <1>3
<1>6. u \in DOMAIN stream /\ arrived \in DOMAIN stream /\ stream[u].msg = K
      /\ size(u) = size(arrived)
  BY <1>3, <1>5, AllOfOneFrame
<1>7. /\ stream[arrived].at \in 1 .. size(u) /\ size(u) \in Nat /\ stream[u].at \in 1 .. size(u)
      /\ stream[arrived].at = stream[u].at + (arrived - u)
      /\ frames[K][1] \in StartMark
  <2>1. /\ stream[arrived].at \in 1 .. size(arrived) /\ size(arrived) \in Nat
        /\ stream[u].at \in 1 .. size(u)
    BY <1>2, <1>6, FrameAround
  <2>2. frames[K][1] \in StartMark BY <1>2, <1>6, FrameMarks
  <2>3. stream[arrived].at = stream[u].at + (arrived - u) BY <1>3, <1>5, AllOfOneFrame
  <2> QED BY <2>1, <2>2, <2>3, <1>6
<1>8. ASSUME stream[u].at = 1 PROVE OtherMark(K, e) /\ K \notin Plain
  <2>1. stream[u].val = frames[K][1] /\ stream[u].val \in StartMark
    BY <1>2, <1>6, <1>8, FrameValues, FrameMarks
  <2>2. \A c \in StartMark : Buf!FindChr(c) # {} BY <2>1, <1>4, <1>5, FoundAmong
  <2>3. PICK c \in StartMark : c # frames[K][1] BY DEF StartMark
  <2>4. PICK z \in u .. arrived : stream[z].val = c BY <2>2, FoundAmong
  <2>5. /\ z \in DOMAIN stream /\ stream[z].msg = K /\ size(z) = size(arrived)
        /\ stream[arrived].at = stream[z].at + (arrived - z)
    BY <1>3, AllOfOneFrame
  <2>6. stream[z].at \in 1 .. size(z) /\ frames[K][stream[z].at] = c
    BY <2>4, <2>5, <1>2, FrameValues
  <2>7. stream[z].at # 1 BY <2>3, <2>6
  <2>8. stream[z].at \in 2 .. e - 1
    <3> DEFINE i == stream[z].at
    <3>1. i \in 1 .. size(u) /\ i # 1 /\ stream[arrived].at = i + (arrived - z) /\ z \in Nat
          /\ z <= arrived
      BY <2>5, <2>6, <2>7, <1>2, <1>6
    <3> HIDE DEF i
    <3> QED BY <3>1, <1>2, <1>7 DEF i
  <2>9. OtherMark(K, e) BY <2>3, <2>6, <2>8 DEF OtherMark
  <2>10. stream[z].val \in StartMark BY <2>4
  <2>11. K \notin Plain BY <2>5, <2>7, <2>10, <1>2, PlainMarks
  <2> QED BY <2>9, <2>11
<1>9. ASSUME stream[u].at # 1 PROVE (K \in hit \/ OtherMark(K, e)) /\ K \notin Plain \ hit
  <2>1. stream[u].at > 1 BY <1>7, <1>9
  <2>2. K \in hit \/ OtherMark(K, stream[u].at)
    BY <2>1, <1>4, <1>6 DEF Kept, StartLost
  <2>3. \A i \in 2 .. stream[u].at - 1 : i \in 2 .. e - 1 BY <1>2, <1>5, <1>7
  <2>4. OtherMark(K, stream[u].at) => OtherMark(K, e) BY <2>3 DEF OtherMark
  <2>5. K \notin Plain \ hit BY <2>1, <1>6 DEF Kept, PlainInPlace
  <2> QED BY <2>2, <2>4, <2>5
<1>10. (K \in hit \/ OtherMark(K, e)) /\ K \notin Plain \ hit BY <1>8, <1>9
<1>11. \A z \in unparsed .. arrived : stream[z].msg = K BY <1>3, AllOfOneFrame
<1>12. ASSUME arrived + 1 \in DOMAIN stream, stream[arrived + 1].at > 1
       PROVE  stream[arrived + 1].msg = K /\ stream[arrived + 1].at = e
  BY <1>2, <1>12, LastInFrame
<1> HIDE DEF K, e, u
<1> QED BY <1>1, <1>10, <1>11, <1>12, KeptReset

\* A start behind the place where the buffer begins is of no plain frame.
LEMMA StartAstray ==
  ASSUME IInv, FramesAsExpected, Kept, pc = "parse", NEW p \in Start, p.at > 0
  PROVE  /\ (hit \cap Marked) \cup Torn # {}
         /\ stream[arrived].msg \notin Plain \ hit
<1>1. off > 0 /\ OneFrame BY DEF Kept, OneFrame
<1>2. CASE uart_rptr # Null
  <2>1. Astray BY <1>2, StartIs DEF Astray
  <2> QED BY <2>1, <1>1 DEF Kept, StartLost, PlainInPlace
<1>3. CASE uart_rptr = Null
  <2>1. (hit \cap Marked) \cup Torn # {} BY <1>1, <1>3, StartBehind DEF Kept
  <2>2. stream[unparsed].at # 1
    <3>1. p.at # 0 OBVIOUS
    <3> QED BY <3>1, <1>1, <1>3, StartAtFirst
  <2>3. unparsed \in unparsed .. arrived
    <3>1. unparsed \in Nat /\ arrived \in Nat /\ off \in Nat /\ unparsed = arrived - off + 1
      BY Numbers
    <3> QED BY <3>1, <1>1
  <2>4. unparsed \in DOMAIN stream /\ stream[unparsed].msg = stream[arrived].msg
    BY <2>3, <1>1, AllOfOneFrame
  <2>5. stream[unparsed].at > 1
    <3>1. stream[unparsed].at \in 1 .. size(unparsed) /\ size(unparsed) \in Nat
      BY <2>4, FrameAround, Numbers
    <3> QED BY <3>1, <2>2
  <2> QED BY <2>1, <2>4, <2>5 DEF Kept, PlainInPlace
<1> QED BY <1>2, <1>3

\* Waiting for the rest of a frame.
LEMMA KeptWaits ==
  ASSUME IInv, FramesAsExpected, Kept, NoEndFlag
  PROVE  Kept'
<1>1. /\ pc = "parse" /\ pc' = "loop" /\ uart_tail = {} /\ uart_rptr' \in Start
      /\ mem' = mem /\ block' = block /\ rptr' = rptr /\ off' = off
      /\ frames' = frames /\ arrived' = arrived /\ hit' = hit /\ handled' = handled
  BY DEF NoEndFlag, uartBuf
<1>2. off > 0 /\ OneFrame BY <1>1 DEF Kept, OneFrame
<1>3. /\ uart_rptr' \in [block : Nat, at : Nat] /\ uart_rptr' # Null
      /\ uart_rptr # Null => uart_rptr' = uart_rptr
      /\ uart_rptr = Null => \E c \in StartMark : uart_rptr' \in Buf!FindChr(c)
  BY <1>1, StartIs
<1>4. uart_rptr'.block = block
  <2>1. ASSUME NEW c, uart_rptr' \in Buf!FindChr(c) PROVE uart_rptr'.block = block
    <3>1. uart_rptr' = [block |-> block, at |-> uart_rptr'.at]
      BY <2>1, FindsTheFirst DEF IInv, TypeOK
    <3> QED BY <3>1
  <2> QED BY <2>1, <1>2, <1>3 DEF OneFrame
<1>5. stream' = stream /\ Plain' = Plain /\ Marked' = Marked /\ Torn' = Torn
      /\ unparsed' = unparsed
  BY <1>1 DEF stream, Plain, Marked, Torn, Seen, OtherMark, unparsed
<1>6. OneFrame'
  <2>1. \A z \in unparsed .. arrived : stream[z].val # "dd"
    BY <1>1, FoundAmong DEF uart_tail
  <2>2. Buf!totallen' = Buf!totallen BY <1>1 DEF Buf!totallen
  <2>3. off # 0 BY <1>2
  <2> QED BY <2>1, <2>2, <2>3, <1>1, <1>2, <1>3, <1>4, <1>5 DEF OneFrame
<1>7. Astray' => /\ (hit \cap Marked) \cup Torn # {}
                 /\ stream[arrived].msg \notin Plain \ hit
  BY <1>1, StartAstray DEF Astray
<1>8. StartLost' BY <1>1, <1>3, <1>5, <1>7 DEF StartLost
<1>9. PlainInPlace' BY <1>1, <1>5, <1>7 DEF Kept, PlainInPlace
<1>10. OncePerFrame(Parsed)'
  <2>1. Parsed' = Parsed BY <1>1, <1>5 DEF Parsed, Before
  <2> QED BY <2>1, <1>1, OnceStays DEF Kept
<1> QED BY <1>6, <1>8, <1>9, <1>10 DEF Kept

\* The end mark at y is the first of those unread, the frame that begins at p is
\* handed over up to it, and the bytes up to it are gone.
EndsAt(y, p) ==
  /\ stream[y].val = "dd" /\ \A z \in unparsed .. arrived : stream[z].val = "dd" => y <= z
  /\ \E d \in Int :
       /\ d = y - unparsed + rptr - p.at
       /\ \E first \in Buf!Deref(p), second \in Buf!Deref([p EXCEPT !.at = @ + 1]), n \in Nat :
            Grows(n, Kind(first, second, d + 1), first, stream[y], d + 1)
  /\ unparsed' = y + 1 /\ off' = arrived - y
  /\ off' = 0 => rptr' = 0
  /\ off' > 0 => rptr' + off' = rptr + off

\* What is handed over, by its place in the stream.
LEMMA HandledAt ==
  ASSUME IInv, OneFrame, Handle
  PROVE  \E y \in unparsed .. arrived, p \in Start :
           /\ EndsAt(y, p) /\ uart_rptr' = p /\ p.block = block /\ p.at \in Nat
           /\ Buf!totallen' = Buf!totallen
<1>1. PICK p \in Start, t \in uart_tail :
           /\ \E first \in Buf!Deref(p), second \in Buf!Deref([p EXCEPT !.at = @ + 1]),
                 d \in Buf!Minus(t, p) :
                handled' = Append(handled, [kind |-> Kind(first, second, d + 1),
                             first |-> first, last |-> mem[t.at], size |-> d + 1])
           /\ uart_rptr' = p
           /\ mem' \in [DOMAIN mem -> Byte \cup {NoByte}]
           /\ t = [block |-> block, at |-> t.at] /\ t.at \in Nat
           /\ rptr <= t.at /\ t.at < rptr + off
           /\ mem[t.at].val = "dd" /\ \A i \in Buf!Unread : mem[i].val = "dd" => t.at <= i
           /\ Buf!DrainPtr(t.at + 1)
  BY Handled
<1>2. /\ unparsed \in Nat /\ arrived \in Nat /\ off \in Nat /\ unparsed = arrived - off + 1
      /\ rptr \in Nat
  BY Numbers DEF IInv, TypeOK, Buf!Sound
<1> DEFINE T == t.at
           P == p.at
           y == T - rptr + unparsed
<1>3. T \in Nat /\ rptr <= T /\ T < rptr + off BY <1>1
<1>4. P \in Nat /\ p.block = block
  <2>1. p \in [block : Nat, at : Nat] BY StartIs
  <2>2. p.block = block
    <3>1. CASE uart_rptr # Null BY <3>1, StartIs DEF OneFrame
    <3>2. CASE uart_rptr = Null
      <4>1. PICK c \in StartMark : p \in Buf!FindChr(c) BY <3>2, StartIs
      <4>2. p = [block |-> block, at |-> p.at] BY <4>1, FindsTheFirst DEF IInv, TypeOK
      <4> QED BY <4>2
    <3> QED BY <3>1, <3>2
  <2> QED BY <2>1, <2>2
<1>5. arrived' = arrived BY DEF Handle
<1>6. /\ off' = off - (T + 1 - rptr)
      /\ off' = 0 => rptr' = 0
      /\ off' > 0 => rptr' + off' = rptr + off
  <2>1. Buf!DrainPtr(T + 1) BY <1>1
  <2> HIDE DEF T
  <2>2. CASE T + 1 - rptr >= off
    <3>1. rptr' = 0 /\ off' = 0 BY <2>1, <2>2, <1>2, <1>3 DEF Buf!DrainPtr
    <3> QED BY <3>1, <2>2, <1>2, <1>3
  <2>3. CASE ~(T + 1 - rptr >= off)
    <3>1. rptr' = T + 1 /\ off' = off - (T + 1 - rptr) BY <2>1, <2>3, <1>2, <1>3 DEF Buf!DrainPtr
    <3> QED BY <3>1, <2>3, <1>2, <1>3
  <2> QED BY <2>2, <2>3
<1>7. y \in unparsed .. arrived /\ y \in Int
  <2> HIDE DEF T
  <2> QED BY <1>2, <1>3
<1>8. off' = arrived - y /\ unparsed' = y + 1
  <2>1. unparsed' = arrived' - off' + 1 BY DEF unparsed
  <2> HIDE DEF T
  <2> QED BY <2>1, <1>2, <1>3, <1>5, <1>6
<1>9. T \in Buf!Unread /\ T = y - unparsed + rptr
  <2> HIDE DEF T
  <2> QED BY <1>2, <1>3 DEF Buf!Unread
<1>10. mem[T] = stream[y]
  <2> HIDE DEF T, y
  <2> QED BY <1>7, <1>9, PlaceInBuffer
<1>11. stream[y].val = "dd" BY <1>1, <1>10
<1>12. ASSUME NEW z \in unparsed .. arrived, stream[z].val = "dd" PROVE y <= z
  <2> DEFINE i == z - unparsed + rptr
  <2>1. i \in Buf!Unread /\ mem[i] = stream[z] BY PlaceInBuffer
  <2>2. T <= i BY <2>1, <1>1, <1>12
  <2> HIDE DEF T
  <2> QED BY <2>2, <1>2, <1>3
<1>13. PICK first \in Buf!Deref(p), second \in Buf!Deref([p EXCEPT !.at = @ + 1]) :
         \E d \in Buf!Minus(t, p) :
           handled' = Append(handled, [kind |-> Kind(first, second, d + 1),
                        first |-> first, last |-> mem[t.at], size |-> d + 1])
  BY <1>1
<1>14. PICK d \in Buf!Minus(t, p) :
           handled' = Append(handled, [kind |-> Kind(first, second, d + 1),
                        first |-> first, last |-> mem[t.at], size |-> d + 1])
  BY <1>13
<1>15. d = T - P
  <2>1. t.block = block BY <1>1
  <2> QED BY <2>1, <1>4 DEF Buf!Minus
<1>16. d \in Int /\ d = y - unparsed + rptr - P
  <2> HIDE DEF T, P
  <2> QED BY <1>2, <1>3, <1>4, <1>15
<1>17. \E n \in Nat : Grows(n, Kind(first, second, d + 1), first, stream[y], d + 1)
  <2> DEFINE k == Kind(first, second, d + 1)
             s == d + 1
             b == mem[T]
  <2>1. handled' = Append(handled, [kind |-> k, first |-> first, last |-> b, size |-> s])
    BY <1>14
  <2> HIDE DEF k, s, b
  <2>2. \E n \in Nat : Grows(n, k, first, b, s) BY <2>1, HistoryGrows
  <2> QED BY <2>2, <1>10 DEF k, s, b
<1>18. Buf!totallen' = Buf!totallen
  <2>1. DOMAIN mem' = DOMAIN mem BY <1>1
  <2> QED BY <2>1 DEF Buf!totallen
<1>19. EndsAt(y, p)
  <2> HIDE DEF y, T
  <2> QED BY <1>6, <1>8, <1>11, <1>12, <1>16, <1>17 DEF EndsAt
<1> HIDE DEF y
<1> QED BY <1>1, <1>4, <1>7, <1>18, <1>19

\* What is left behind a frame that was handled begins a frame, or is the rest
\* of one that is not plain.
LEMMA HandleInPlace ==
  ASSUME IInv, FramesAsExpected, Kept, Handle
  PROVE  OneFrame' /\ StartLost' /\ PlainInPlace'
<1>1. OneFrame /\ pc = "parse" BY DEF Kept, Handle
<1>2. PICK y \in unparsed .. arrived, p \in Start :
           /\ EndsAt(y, p) /\ uart_rptr' = p /\ p.block = block /\ p.at \in Nat
           /\ Buf!totallen' = Buf!totallen
  BY <1>1, HandledAt
<1>3. /\ unparsed \in Nat /\ arrived \in Nat /\ off \in Nat /\ unparsed = arrived - off + 1
      /\ rptr \in Nat /\ frames \in TupleOf(Frame, MaxFrames)
  BY Numbers DEF IInv, TypeOK, Buf!Sound
<1>4. /\ unparsed' = y + 1 /\ off' = arrived - y /\ stream[y].val = "dd"
      /\ off' = 0 => rptr' = 0
      /\ off' > 0 => rptr' + off' = rptr + off
  BY <1>2 DEF EndsAt
<1>5. /\ block' = block /\ frames' = frames /\ arrived' = arrived /\ hit' = hit
      /\ pc' = IF off' > 0 THEN "parse" ELSE "loop"
  BY DEF Handle
<1>6. stream' = stream /\ Plain' = Plain /\ Marked' = Marked /\ Torn' = Torn
  BY <1>5 DEF stream, Plain, Marked, Torn, Seen, OtherMark
<1>7. off > 0 BY <1>1 DEF OneFrame
<1>8. p # Null BY StartIs
<1>9. y \in Nat /\ y <= arrived /\ off' \in Nat BY <1>2, <1>3, <1>4
<1>10. OneFrame'
  <2>1. off' > 0 => rptr' + off' <= stream'[arrived'].at
    BY <1>1, <1>4, <1>5, <1>6, <1>7 DEF OneFrame
  <2>2. pc' = "loop" => unparsed' .. arrived' = {}
    <3>1. pc' = "loop" => off' = 0 BY <1>5, <1>9
    <3>2. off' = 0 => unparsed' = arrived' + 1 BY <1>3, <1>4, <1>5, <1>9
    <3> QED BY <3>1, <3>2, <1>3, <1>5
  <2>3. pc' = "parse" => off' > 0 BY <1>5
  <2> QED BY <2>1, <2>2, <2>3, <1>1, <1>2, <1>4, <1>5, <1>8 DEF OneFrame
<1>11. Astray' => /\ (hit \cap Marked) \cup Torn # {}
                  /\ stream[arrived].msg \notin Plain \ hit
  <2>1. Astray' => p.at > 0 BY <1>2 DEF Astray
  <2> QED BY <2>1, <1>1, StartAstray
<1>12. StartLost' BY <1>2, <1>5, <1>6, <1>8, <1>11 DEF StartLost
<1>13. PlainInPlace'
  <2>1. ASSUME y + 1 \in DOMAIN stream, stream[y + 1].at > 1
        PROVE  stream[y + 1].msg \notin Plain
    <3> DEFINE v == y + 1
    <3>1. y \in DOMAIN stream /\ stream[y].msg = stream[v].msg
          /\ stream[v].at = stream[y].at + 1
      BY <2>1, <1>3, <1>9, LastInFrame
    <3> SUFFICES ASSUME stream[v].msg \in Plain PROVE FALSE OBVIOUS
    <3>2. stream[y].at = size(y) BY <3>1, <1>3, <1>4, PlainMarks
    <3>3. stream[v].at \in 1 .. size(v) /\ size(v) \in Nat BY <2>1, <1>3, FrameAround
    <3>4. size(v) = size(y) BY <3>1 DEF size
    <3> QED BY <3>1, <3>2, <3>3, <3>4
  <2> QED BY <2>1, <1>4, <1>5, <1>6, <1>11 DEF PlainInPlace
<1> QED BY <1>10, <1>12, <1>13

\* The history goes on with a plain frame that is not in hit, whole.
LEMMA OnceGrows ==
  ASSUME IInv, OncePerFrame(Parsed), frames' = frames, hit' = hit,
         NEW n \in Nat, NEW k, NEW a, NEW b, NEW s, Grows(n, k, a, b, s),
         b.msg \in Plain \ hit,
         [kind |-> k, first |-> a, last |-> b, size |-> s] = Whole(b.msg),
         (Parsed' \cap Plain) \ hit = ((Parsed \cap Plain) \ hit) \cup {b.msg},
         \A j \in (Parsed \cap Plain) \ hit : j < b.msg
  PROVE  OncePerFrame(Parsed)'
<1>1. Plain' = Plain BY DEF Plain
<1> DEFINE e == n + 1
<1>2. /\ DOMAIN handled = 1 .. n /\ DOMAIN handled' = 1 .. e
      /\ \A i \in 1 .. n : handled'[i] = handled[i]
      /\ handled'[e] = [kind |-> k, first |-> a, last |-> b, size |-> s]
  BY DEF Grows
<1>3. 1 .. e = (1 .. n) \cup {e} /\ \A i \in 1 .. n : i < e /\ i # e OBVIOUS
<1> HIDE DEF e
<1>4. handled'[e].last = b /\ handled'[e] = Whole(b.msg) BY <1>2
<1>5. Acted' = Acted \cup {e} BY <1>1, <1>2, <1>3, <1>4 DEF Acted
<1>6. Acted \subseteq 1 .. n BY <1>2 DEF Acted
<1>7. \A j \in Acted : handled'[j] = handled[j] BY <1>2, <1>6
<1>8. \A j \in Acted : handled[j].last.msg \in (Parsed \cap Plain) \ hit BY DEF OncePerFrame
<1>9. {handled'[j].last.msg : j \in Acted'} = {handled[j].last.msg : j \in Acted} \cup {b.msg}
  BY <1>4, <1>5, <1>7
<1>10. {handled'[j].last.msg : j \in Acted'} = (Parsed' \cap Plain) \ hit'
  BY <1>9 DEF OncePerFrame
<1>11. ASSUME NEW i \in Acted' PROVE handled'[i] = Whole(handled[i].last.msg)'
  <2>1. handled'[i] = Whole(handled'[i].last.msg)
    BY <1>4, <1>5, <1>7 DEF OncePerFrame
  <2> QED BY <2>1 DEF Whole, Meant
<1>12. ASSUME NEW i \in Acted', NEW j \in Acted', i < j
       PROVE  handled'[i].last.msg < handled'[j].last.msg
  <2>1. CASE j = e
    <3>1. i \in Acted
      <4>1. i # e
        <5>1. e \in Nat BY <1>3 DEF e
        <5> QED BY <5>1, <2>1, <1>12
      <4> QED BY <4>1, <1>5
    <3> QED BY <3>1, <2>1, <1>4, <1>7, <1>8
  <2>2. CASE j # e
    <3>1. j \in Acted BY <2>2, <1>5
    <3>2. i # e
      <4>1. j \in 1 .. n /\ j < e /\ e \in Nat BY <3>1, <1>3, <1>6 DEF e
      <4> QED BY <4>1, <1>12
    <3>3. i \in Acted BY <3>2, <1>5
    <3> QED BY <3>1, <3>3, <1>7, <1>12 DEF OncePerFrame
  <2> QED BY <2>1, <2>2
<1> QED BY <1>1, <1>10, <1>11, <1>12 DEF OncePerFrame

\* It goes on with something else.
LEMMA OnceSkips ==
  ASSUME IInv, OncePerFrame(Parsed), frames' = frames, hit' = hit,
         NEW n \in Nat, NEW k, NEW a, NEW b, NEW s, Grows(n, k, a, b, s),
         b.msg \notin Plain \ hit,
         (Parsed' \cap Plain) \ hit = (Parsed \cap Plain) \ hit
  PROVE  OncePerFrame(Parsed)'
<1>1. Plain' = Plain BY DEF Plain
<1> DEFINE e == n + 1
<1>2. /\ DOMAIN handled = 1 .. n /\ DOMAIN handled' = 1 .. e
      /\ \A i \in 1 .. n : handled'[i] = handled[i]
      /\ handled'[e] = [kind |-> k, first |-> a, last |-> b, size |-> s]
  BY DEF Grows
<1>3. 1 .. e = (1 .. n) \cup {e} OBVIOUS
<1> HIDE DEF e
<1>4. handled'[e].last = b BY <1>2
<1>5. Acted' = Acted BY <1>1, <1>2, <1>3, <1>4 DEF Acted
<1>6. Acted \subseteq 1 .. n BY <1>2 DEF Acted
<1>7. \A j \in Acted : handled'[j] = handled[j] BY <1>2, <1>6
<1>8. {handled'[j].last.msg : j \in Acted'} = (Parsed' \cap Plain) \ hit'
  BY <1>5, <1>7 DEF OncePerFrame
<1>9. ASSUME NEW i \in Acted' PROVE handled'[i] = Whole(handled[i].last.msg)'
  <2>1. handled'[i] = Whole(handled'[i].last.msg) BY <1>5, <1>7 DEF OncePerFrame
  <2> QED BY <2>1 DEF Whole, Meant
<1>10. \A i, j \in Acted' : i < j => handled'[i].last.msg < handled'[j].last.msg
  BY <1>5, <1>7 DEF OncePerFrame
<1> QED BY <1>1, <1>8, <1>9, <1>10 DEF OncePerFrame

\* A frame is handled, or what is taken for one.
LEMMA OnceHandle ==
  ASSUME IInv, FramesAsExpected, Kept, Handle
  PROVE  OncePerFrame(Parsed)'
<1>1. OneFrame /\ pc = "parse" BY DEF Kept, Handle
<1>2. PICK y \in unparsed .. arrived, p \in Start :
           /\ EndsAt(y, p) /\ uart_rptr' = p /\ p.block = block /\ p.at \in Nat
  BY <1>1, HandledAt
<1>3. /\ unparsed \in Nat /\ arrived \in Nat /\ off \in Nat /\ unparsed = arrived - off + 1
      /\ rptr \in Nat /\ frames \in TupleOf(Frame, MaxFrames)
      /\ Buf!Unread \subseteq DOMAIN mem
  <2>1. Buf!Unread \subseteq DOMAIN mem
    <3>1. /\ rptr \in Nat /\ off \in Nat /\ Buf!totallen \in Nat /\ rptr + off <= Buf!totallen
          /\ DOMAIN mem = 0 .. Buf!totallen - 1 /\ Buf!Unread = rptr .. rptr + off - 1
      BY DEF IInv, TypeOK, Buf!Sound, Buf!Unread
    <3> DEFINE l == Buf!totallen
    <3>2. l \in Nat /\ rptr + off <= l BY <3>1
    <3> HIDE DEF l
    <3>3. rptr .. rptr + off - 1 \subseteq 0 .. l - 1 BY <3>1, <3>2
    <3> QED BY <3>1, <3>3 DEF l
  <2> QED BY <2>1, Numbers DEF IInv, TypeOK, Buf!Sound
<1>4. /\ stream[y].val = "dd" /\ \A z \in unparsed .. arrived : stream[z].val = "dd" => y <= z
      /\ unparsed' = y + 1
  BY <1>2 DEF EndsAt
<1>5. PICK d \in Int :
       /\ d = y - unparsed + rptr - p.at
       /\ \E first \in Buf!Deref(p), second \in Buf!Deref([p EXCEPT !.at = @ + 1]), n \in Nat :
            Grows(n, Kind(first, second, d + 1), first, stream[y], d + 1)
  BY <1>2 DEF EndsAt
<1>6. PICK first \in Buf!Deref(p), second \in Buf!Deref([p EXCEPT !.at = @ + 1]), n \in Nat :
        Grows(n, Kind(first, second, d + 1), first, stream[y], d + 1)
  BY <1>5
<1>7. frames' = frames /\ hit' = hit /\ stream' = stream BY DEF Handle, stream
<1> DEFINE u == unparsed
           v == y + 1
           K == stream[arrived].msg
<1>8. off > 0 BY <1>1 DEF OneFrame
<1>9. /\ u \in u .. arrived /\ y \in Nat /\ u \in Nat /\ u <= y /\ y <= arrived /\ v \in Nat
      /\ u <= v
  BY <1>2, <1>3, <1>8
<1>10. /\ u \in DOMAIN stream /\ y \in DOMAIN stream /\ stream[u].msg = K /\ stream[y].msg = K
       /\ size(y) = size(u)
       /\ stream[arrived].at = stream[u].at + (arrived - u)
       /\ stream[arrived].at = stream[y].at + (arrived - y)
  BY <1>1, <1>2, <1>8, <1>9, AllOfOneFrame
<1>11. Parsed' = Before(v) /\ Parsed = Before(u) BY <1>4, <1>7 DEF Parsed, Before
<1>12. CASE K \notin Plain \ hit
  <2>1. ASSUME NEW i \in DOMAIN stream, stream[i].msg \in Plain \ hit, stream[i].val = "dd"
        PROVE  ~(u <= i /\ i < v)
    <3> SUFFICES ASSUME u <= i, i < v PROVE FALSE OBVIOUS
    <3>1. i \in Nat BY <1>3, FrameAround
    <3>2. i \in u .. arrived BY <3>1, <1>3, <1>9
    <3>3. stream[i].msg = K BY <3>2, <1>1, <1>8, AllOfOneFrame
    <3> QED BY <3>3, <2>1, <1>12
  <2>2. (Before(v) \cap Plain) \ hit = (Before(u) \cap Plain) \ hit
    <3> HIDE DEF u, v
    <3> QED BY <2>1, <1>3, <1>9, NoneBetween
  <2>3. (Parsed' \cap Plain) \ hit = (Parsed \cap Plain) \ hit BY <2>2, <1>11
  <2> DEFINE k == Kind(first, second, d + 1)
             s == d + 1
             b == stream[y]
  <2>4. Grows(n, k, first, b, s) /\ b.msg \notin Plain \ hit BY <1>6, <1>10, <1>12
  <2> HIDE DEF k, s, b
  <2> QED BY <2>3, <2>4, <1>7, OnceSkips DEF Kept
<1>13. CASE K \in Plain \ hit
  <2>1. stream[u].at = 1
    <3>1. ~(stream[u].at > 1) BY <1>10, <1>13 DEF Kept, PlainInPlace
    <3>2. stream[u].at \in 1 .. size(u) /\ size(u) \in Nat BY <1>3, <1>10, FrameAround
    <3> QED BY <3>1, <3>2
  <2>2. p.at = 0
    <3>1. ~(p.at > 0) BY <1>1, <1>13, StartAstray
    <3> QED BY <3>1, <1>2
  <2>3. rptr = 0
    <3>1. rptr + off <= stream[arrived].at BY <1>1, <1>8 DEF OneFrame
    <3>2. rptr + off <= 1 + (arrived - u) BY <3>1, <2>1, <1>10
    <3> QED BY <3>2, <1>3
  <2>4. stream[y].at = size(y) BY <1>3, <1>4, <1>10, <1>13, PlainMarks
  <2>5. size(y) \in 2 .. MaxLen /\ MaxLen \in Nat BY <1>3, <1>10, FrameMarks, UartAssumption
  <2>6. d + 1 = size(y) /\ u + 1 <= y
    <3>1. d = y - u BY <2>2, <2>3, <1>3, <1>5, <1>9
    <3>2. size(y) + (arrived - y) = 1 + (arrived - u) BY <2>1, <2>4, <1>10
    <3> DEFINE e == size(y)
    <3>3. e \in Nat /\ e >= 2 /\ e + (arrived - y) = 1 + (arrived - u) BY <3>2, <2>5
    <3> HIDE DEF e
    <3>4. d + 1 = e /\ u + 1 <= y BY <3>1, <3>3, <1>3, <1>9
    <3> QED BY <3>4 DEF e
  <2>7. mem[0] = stream[u] /\ 0 \in DOMAIN mem
    <3>1. u - unparsed + rptr = 0 BY <2>3, <1>3
    <3>2. u - unparsed + rptr \in Buf!Unread /\ mem[u - unparsed + rptr] = stream[u]
      BY <1>9, PlaceInBuffer
    <3> QED BY <3>1, <3>2, <1>3
  <2> DEFINE w == u + 1
  <2>8. mem[1] = stream[w] /\ 1 \in DOMAIN mem /\ stream[w].msg = K /\ stream[w].at = 2
        /\ w \in DOMAIN stream
    <3>1. w \in u .. arrived /\ w - unparsed + rptr = 1 BY <2>3, <2>6, <1>3, <1>9
    <3>2. w - unparsed + rptr \in Buf!Unread /\ mem[w - unparsed + rptr] = stream[w]
      BY <3>1, PlaceInBuffer
    <3>3. stream[u].at # size(u) BY <2>1, <2>5, <1>10
    <3>4. w \in DOMAIN stream /\ stream[w].msg = K /\ stream[w].at = 2
      BY <3>3, <2>1, <1>3, <1>10, NextInFrame
    <3> QED BY <3>1, <3>2, <3>4, <1>3
  <2>9. first = stream[u] BY <2>2, <2>7, <1>2, <1>6 DEF Buf!Deref
  <2>10. second = stream[w]
    <3> DEFINE q == [p EXCEPT !.at = @ + 1]
    <3>1. p \in [block : Nat, at : Nat] BY StartIs
    <3>2. q.block = block /\ q.at = 1 BY <3>1, <2>2, <1>2
    <3>3. second \in Buf!Deref(q) BY <1>6
    <3> HIDE DEF q, w
    <3> QED BY <3>2, <3>3, <2>8 DEF Buf!Deref
  <2> DEFINE f == frames[K]
             e == Len(f)
  <2>11. first = [val |-> f[1], msg |-> K, at |-> 1] /\ second.val = f[2]
    <3>1. stream[u] = [val |-> frames[stream[u].msg][stream[u].at],
                       msg |-> stream[u].msg, at |-> stream[u].at]
      BY <1>3, <1>10, FrameValues
    <3>2. stream[w].val = frames[stream[w].msg][stream[w].at] BY <2>8, <1>3, FrameValues
    <3> QED BY <3>1, <3>2, <2>1, <2>8, <2>9, <2>10, <1>10
  <2>12. stream[y] = [val |-> f[e], msg |-> K, at |-> e]
    <3>1. stream[y] = [val |-> frames[stream[y].msg][stream[y].at],
                       msg |-> stream[y].msg, at |-> stream[y].at]
      BY <1>3, <1>10, FrameValues
    <3>2. size(y) = e BY <1>10 DEF size
    <3> QED BY <3>1, <3>2, <2>4, <1>10
  <2>13. d + 1 = e BY <2>6, <1>10 DEF size
  <2>14. Kind(first, second, e) = Meant(f)
    <3>1. f \in Frame BY <1>3, <1>10, FrameAround
    <3>2. f[1] \in {"ee", "bb"} /\ (f[1] = "ee" /\ f[2] = "f5" => e = 3)
      BY <3>1 DEF FramesAsExpected, StartMark
    <3>3. first.val = f[1] BY <2>11
    <3> HIDE DEF f, e
    <3>4. CASE f[1] = "bb" BY <3>4, <3>3 DEF Kind, Meant
    <3>5. CASE f[1] = "ee" /\ f[2] = "f5" BY <3>5, <3>2, <3>3, <2>11 DEF Kind, Meant
    <3>6. CASE f[1] = "ee" /\ f[2] = "f3" BY <3>6, <3>3, <2>11 DEF Kind, Meant
    <3>7. CASE f[1] = "ee" /\ f[2] \notin {"f5", "f3"} BY <3>7, <3>3, <2>11 DEF Kind, Meant
    <3> QED BY <3>2, <3>4, <3>5, <3>6, <3>7
  <2> DEFINE b == stream[y]
             k == Kind(first, second, d + 1)
             s == d + 1
  <2>15. b.msg = K /\ b.msg \in Plain \ hit /\ Grows(n, k, first, b, s)
    BY <1>6, <1>10, <1>13
  <2>16. [kind |-> k, first |-> first, last |-> b, size |-> s] = Whole(b.msg)
    <3>1. k = Meant(f) /\ s = e BY <2>13, <2>14
    <3>2. Whole(K) = [kind |-> Meant(f), first |-> [val |-> f[1], msg |-> K, at |-> 1],
                      last |-> [val |-> f[e], msg |-> K, at |-> e], size |-> e]
      BY DEF Whole
    <3> HIDE DEF k, s
    <3> QED BY <3>1, <3>2, <2>11, <2>12, <2>15
  <2>17. PICK l \in DOMAIN stream :
           /\ stream[l].msg = K /\ stream[l].at = size(l)
           /\ \A z \in Nat : K \in Before(z) <=> l < z
    BY <1>3, <1>13, PlainEnd
  <2>18. l = y
    <3>1. begin(l) = begin(y) /\ size(l) = size(y)
      <4>1. begin(l) = begin(y) BY <2>17, <1>3, <1>10, FrameAround
      <4> QED BY <4>1, <2>17, <1>10 DEF size
    <3>2. l = begin(l) + stream[l].at /\ y = begin(y) + stream[y].at
      BY <2>17, <1>3, <1>10, FrameAround
    <3> QED BY <3>1, <3>2, <2>4, <2>17
  <2>19. K \in Before(v) BY <2>17, <2>18, <1>9
  <2>20. K \notin Before(u) BY <2>17, <2>18, <1>9
  <2>21. ASSUME NEW j \in Plain
         PROVE  \E i \in DOMAIN stream :
                  /\ stream[i].msg = j /\ i \in Nat
                  /\ \A z \in Nat : j \in Before(z) <=> i < z
    BY <1>3, PlainEnd, FrameAround
  <2>22. ASSUME NEW j \in Plain PROVE j \in Before(v) <=> j \in Before(u) \/ j = K
    <3>1. PICK i \in DOMAIN stream : /\ stream[i].msg = j /\ i \in Nat
                                     /\ \A z \in Nat : j \in Before(z) <=> i < z
      BY <2>21
    <3>2. j \in Before(u) => j \in Before(v) BY <3>1, <1>9
    <3>3. ASSUME j \in Before(v), j \notin Before(u) PROVE j = K
      <4>1. i \in u .. arrived BY <3>1, <3>3, <1>3, <1>9
      <4> QED BY <4>1, <3>1, <1>1, <1>8, AllOfOneFrame
    <3> QED BY <3>2, <3>3, <2>19
  <2>23. (Parsed' \cap Plain) \ hit = ((Parsed \cap Plain) \ hit) \cup {b.msg}
    BY <2>15, <2>22, <1>11
  <2>24. ASSUME NEW j \in (Parsed \cap Plain) \ hit PROVE j < b.msg
    <3>1. PICK i \in DOMAIN stream : /\ stream[i].msg = j /\ i \in Nat
                                     /\ \A z \in Nat : j \in Before(z) <=> i < z
      BY <2>21
    <3>2. i < u BY <3>1, <1>9, <1>11
    <3>3. i <= y BY <3>1, <3>2, <1>9
    <3>4. stream[i].msg <= stream[y].msg BY <3>3, <1>3, <1>10, FramesInTurn
    <3>5. j # K BY <2>20, <1>11
    <3>6. j \in Nat /\ K \in Nat
      <4>1. DOMAIN frames = 1 .. MaxFrames BY <1>3, UartAssumption DEF TupleOf
      <4>2. j \in DOMAIN frames /\ K \in DOMAIN frames BY <1>13 DEF Plain
      <4> QED BY <4>1, <4>2
    <3>7. j <= K BY <3>1, <3>4, <1>10
    <3> HIDE DEF K, b
    <3>8. j < K BY <3>5, <3>6, <3>7
    <3> QED BY <3>8, <2>15
  <2> HIDE DEF b, k, s
  <2> QED BY <2>15, <2>16, <2>23, <2>24, <1>7, OnceGrows DEF Kept
<1> QED BY <1>12, <1>13

\* Every step keeps the invariant of the frames.
LEMMA NextKept ==
  ASSUME IInv, FramesAsExpected, Kept, [Next]_vars
  PROVE  Kept'
<1>1. ASSUME NEW n \in 1 .. MaxFrames * MaxLen, ReadSome(n) PROVE Kept'
  <2>1. MaxFrames * MaxLen \in Nat BY UartAssumption
  <2>2. n \in Nat \ {0} BY <2>1
  <2> QED BY <2>2, <1>1, KeptRead
<1>2. CASE ReadFails BY <1>2, KeptFails
<1>3. CASE InvalidData BY <1>3, KeptInvalid
<1>4. CASE NoEndFlag BY <1>4, KeptWaits
<1>5. CASE Handle BY <1>5, HandleInPlace, OnceHandle DEF Kept
<1>6. CASE CrashHandle \/ UNCHANGED vars
  <2>1. /\ mem' = mem /\ block' = block /\ rptr' = rptr /\ off' = off /\ uart_rptr' = uart_rptr
        /\ pc' \in {pc, "crashed"} /\ frames' = frames /\ arrived' = arrived /\ hit' = hit
        /\ handled' = handled
    BY <1>6 DEF CrashHandle, vars, uartBuf
  <2>2. /\ stream' = stream /\ Plain' = Plain /\ Marked' = Marked /\ Torn' = Torn
        /\ unparsed' = unparsed /\ Astray' = Astray /\ Buf!totallen' = Buf!totallen
        /\ \A k, e : OtherMark(k, e)' = OtherMark(k, e)
    BY <2>1 DEF stream, Plain, Marked, Torn, Seen, OtherMark, unparsed, Astray, Buf!totallen
  <2>3. OneFrame' BY <2>1, <2>2 DEF Kept, OneFrame
  <2>4. StartLost' BY <2>1, <2>2 DEF Kept, StartLost
  <2>5. PlainInPlace' BY <2>1, <2>2 DEF Kept, PlainInPlace
  <2>6. Parsed' = Parsed BY <2>1, <2>2 DEF Parsed, Before
  <2>7. OncePerFrame(Parsed)' BY <2>1, <2>6, OnceStays DEF Kept
  <2> QED BY <2>3, <2>4, <2>5, <2>7 DEF Kept
<1> QED BY <1>1, <1>2, <1>3, <1>4, <1>5, <1>6 DEF Next

\* Nothing has been read.
LEMMA InitKept ==
  ASSUME Init, FramesAsExpected
  PROVE  Kept
<1>1. /\ mem = [i \in 0 .. BufLen - 1 |-> NoByte] /\ block = 0 /\ rptr = 0 /\ off = 0
      /\ uart_rptr = Null /\ pc = "loop" /\ frames \in TupleOf(Frame, MaxFrames)
      /\ arrived = 0 /\ hit = {} /\ handled = <<>>
  BY DEF Init, Buf!Init
<1>2. IInv BY InitIInv
<1>3. unparsed = 1 /\ DOMAIN stream = 1 .. Len(stream) /\ Len(stream) \in Nat
  BY <1>1, <1>2, Numbers
<1>4. ~Astray BY <1>1 DEF Astray
<1>5. 1 \in DOMAIN stream => ~(stream[1].at > 1)
  <2> SUFFICES ASSUME 1 \in DOMAIN stream, stream[1].at > 1 PROVE FALSE OBVIOUS
  <2> DEFINE a == 0
  <2>1. a \in Nat /\ a + 1 = 1 OBVIOUS
  <2> HIDE DEF a
  <2>2. a \in DOMAIN stream BY <2>1, <1>1, LastInFrame
  <2> QED BY <2>2, <1>3 DEF a
<1>6. OneFrame
  <2>1. Cardinality(0 .. BufLen - 1) = BufLen BY UartAssumption, FS_Interval
  <2>2. Buf!totallen = BufLen
    BY <2>1, <1>1, UartAssumption DEF Buf!totallen, Buf!Cardinality, Cardinality
  <2>3. unparsed .. arrived = {} BY <1>1, <1>3
  <2> QED BY <2>2, <2>3, <1>1 DEF OneFrame
<1>7. StartLost BY <1>3, <1>4, <1>5 DEF StartLost
<1>8. PlainInPlace BY <1>1, <1>3, <1>4, <1>5 DEF PlainInPlace
<1>9. OncePerFrame(Parsed)
  <2>1. Acted = {} BY <1>1 DEF Acted
  <2>2. ASSUME NEW k \in Plain PROVE k \notin Parsed
    <3>1. PICK i \in DOMAIN stream : \A z \in Nat : k \in Before(z) <=> i < z
      BY <1>1, PlainEnd
    <3>2. ~(i < 1) BY <1>3
    <3> QED BY <3>1, <3>2, <1>3 DEF Parsed
  <2> QED BY <2>1, <2>2 DEF OncePerFrame
<1> QED BY <1>6, <1>7, <1>8, <1>9 DEF Kept

---------------------------------------------------------------------------
(* The theorems *)

\* The types and the order of the bytes, whatever the board sends, whatever
\* the size of the buffer and however reads cut the stream.
THEOREM Invariance == Spec => []IInv
<1>1. Init => IInv BY InitIInv
<1>2. IInv /\ [Next]_vars => IInv' BY NextIInv
<1> QED BY <1>1, <1>2, PTL DEF Spec

\* Its frames are in their places, too.
THEOREM FramesInvariance == Spec => []FramesInv
<1>1. Init => FramesInv BY InitIInv, InitKept DEF FramesInv, Kept
<1>2. FramesInv /\ [Next]_vars => FramesInv'
  <2> SUFFICES ASSUME FramesInv, [Next]_vars PROVE FramesInv' OBVIOUS
  <2>1. IInv' BY NextIInv DEF FramesInv
  <2>2. FramesAsExpected' => FramesAsExpected BY DEF FramesAsExpected
  <2>3. ASSUME FramesAsExpected PROVE Kept' BY <2>3, NextKept DEF FramesInv, Kept
  <2> QED BY <2>1, <2>2, <2>3 DEF FramesInv, Kept
<1> QED BY <1>1, <1>2, PTL DEF Spec

\* Each plain frame that has arrived, if no failed read has cut it and it was
\* not read while uart_rptr was astray, is acted on once, whole and in its turn
\* (main.c:1014-1050, 1084-1108): of frames as the board should send them.
THEOREM ActedOnceEach == FramesAsExpected => (Spec => []ActedOnce)
<1> SUFFICES ASSUME FramesAsExpected PROVE Spec => []ActedOnce OBVIOUS
<1>1. FramesInv => ActedOnce
  <2> SUFFICES ASSUME FramesInv, pc = "loop" PROVE OncePerFrame(Complete)
    BY DEF ActedOnce
  <2>1. OneFrame /\ OncePerFrame(Parsed) /\ IInv BY DEF FramesInv
  <2>2. /\ unparsed \in Nat /\ arrived \in Nat /\ off \in Nat
        /\ unparsed = arrived - off + 1 /\ frames \in TupleOf(Frame, MaxFrames)
    BY <2>1, Numbers
  <2> DEFINE u == unparsed
             v == arrived + 1
  <2>3. u \in Nat /\ v \in Nat /\ u <= v BY <2>2
  <2>4. ASSUME NEW i \in DOMAIN stream, stream[i].val = "dd" PROVE ~(u <= i /\ i < v)
    <3>1. i \in Nat BY <2>2, FrameAround
    <3>2. u <= i /\ i < v => i \in unparsed .. arrived BY <3>1, <2>2
    <3> QED BY <3>2, <2>1, <2>4 DEF OneFrame
  <2>5. (Before(v) \cap Plain) \ hit = (Before(u) \cap Plain) \ hit
    <3> HIDE DEF u, v
    <3> QED BY <2>2, <2>3, <2>4, NoneBetween
  <2> QED BY <2>1, <2>5 DEF OncePerFrame, Complete, Parsed
<1> QED BY <1>1, FramesInvariance, PTL

\* uart_rptr, which only a reset sets back, is where the next byte will be
\* written whenever nothing is unread, or went astray in one of the two ways
\* that there are (buffer.c:161-178, main.c:1018-1050).
THEOREM PointerIsKept == FramesAsExpected => (Spec => []PointerKept)
<1> SUFFICES ASSUME FramesAsExpected PROVE Spec => []PointerKept OBVIOUS
<1>1. FramesInv => PointerKept
  <2> SUFFICES ASSUME FramesInv, uart_rptr # Null, off = 0
               PROVE  \/ uart_rptr = [block |-> block, at |-> rptr]
                      \/ Astray /\ (hit \cap Marked) \cup Torn # {}
    BY DEF PointerKept
  <2>1. OneFrame /\ StartLost /\ IInv BY DEF FramesInv
  <2>2. uart_rptr \in [block : Nat, at : Nat] BY <2>1 DEF IInv, TypeOK
  <2>3. uart_rptr.block = block /\ rptr = 0 BY <2>1 DEF OneFrame
  <2>4. CASE uart_rptr.at = 0 BY <2>2, <2>3, <2>4
  <2>5. CASE uart_rptr.at # 0
    <3>1. Astray BY <2>2, <2>5 DEF Astray
    <3> QED BY <3>1, <2>1 DEF StartLost
  <2> QED BY <2>4, <2>5
<1> QED BY <1>1, FramesInvariance, PTL
=============================================================================
