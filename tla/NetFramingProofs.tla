-------------------------- MODULE NetFramingProofs --------------------------
(***************************************************************************)
(* The proof that the net thread takes its messages from the stream of     *)
(* bytes it reads as they were sent, for all messages and noise, any sizes *)
(* of the buffer, and reads of any length.                                 *)
(***************************************************************************)
EXTENDS NetFraming, FiniteSetTheorems, SequenceTheorems, WellFoundedInduction, TLAPS

Queue == INSTANCE BufferProofs WITH MinLen <- BufLen

---------------------------------------------------------------------------
(* The stream and the buffer *)

\* The clients' chunks, as the lemmas of BufferProofs speak of them.
LEMMA ChunksSent ==
  ASSUME chunks \in TupleOf(Chunk, MaxChunks)
  PROVE  /\ chunks \in Queue!Messages(Value, MaxChunks, MaxLen)
         /\ stream = Queue!Sent(chunks) /\ MaxChunks \in Nat /\ MaxLen \in Nat
<1>1. chunks \in [1 .. MaxChunks -> Chunk] /\ MaxChunks \in Nat /\ MaxLen \in Nat
  BY NetAssumption DEF TupleOf
<1>2. Chunk \subseteq {c \in Seq(Value) : Len(c) \in 1 .. MaxLen} BY NetAssumption
<1>3. chunks \in Queue!Messages(Value, MaxChunks, MaxLen) BY <1>1, <1>2 DEF Queue!Messages
<1>4. Queue!Sent(chunks) = Sent(chunks)
  BY DEF Queue!Sent, Sent, Queue!FlattenSeq, FlattenSeq
<1> QED BY <1>1, <1>3, <1>4 DEF stream

\* What the clients send is a sequence of bytes.
LEMMA StreamType ==
  ASSUME chunks \in TupleOf(Chunk, MaxChunks)
  PROVE  stream \in Seq(Byte) /\ Len(stream) \in Nat
<1>1. stream \in Seq(Queue!Tagged(Value, MaxChunks, MaxLen)) BY ChunksSent, Queue!SentPlaces
<1> QED BY <1>1, LenProperties DEF Queue!Tagged, Byte

\* The place in the stream behind which the chunk of the byte at i begins, and
\* the length of that chunk.
begin(i) == i - stream[i].at
size(i) == Len(chunks[stream[i].msg])

\* The bytes of a chunk stand side by side, and each chunk in its turn.
LEMMA ChunkAround ==
  ASSUME chunks \in TupleOf(Chunk, MaxChunks), NEW i \in DOMAIN stream
  PROVE  /\ i \in Nat /\ begin(i) \in Nat /\ size(i) \in Nat /\ i = begin(i) + stream[i].at
         /\ stream[i].msg \in DOMAIN chunks
         /\ chunks[stream[i].msg] \in Chunk /\ DOMAIN chunks[stream[i].msg] = 1 .. size(i)
         /\ stream[i].at \in 1 .. size(i)
         /\ \A j \in 1 .. size(i) :
              /\ begin(i) + j \in DOMAIN stream
              /\ stream[begin(i) + j] = [val |-> chunks[stream[i].msg][j],
                                         msg |-> stream[i].msg, at |-> j]
         /\ \A l \in DOMAIN stream : stream[l].msg = stream[i].msg => begin(l) = begin(i)
<1>1. /\ chunks \in Queue!Messages(Value, MaxChunks, MaxLen) /\ stream = Queue!Sent(chunks)
      /\ MaxChunks \in Nat /\ MaxLen \in Nat
  BY ChunksSent
<1>2. \A l \in DOMAIN stream : begin(l) = Queue!begin(chunks, l) /\ size(l) = Queue!size(chunks, l)
  BY <1>1 DEF begin, size, Queue!begin, Queue!size
<1> DEFINE s == Queue!Sent(chunks)
<1>3. /\ i \in Nat /\ begin(i) \in Nat /\ size(i) \in 1 .. MaxLen
      /\ i = begin(i) + stream[i].at
      /\ stream[i].msg \in 1 .. MaxChunks /\ stream[i].at \in 1 .. size(i)
      /\ DOMAIN chunks[stream[i].msg] = 1 .. size(i)
      /\ \A j \in 1 .. size(i) :
           /\ begin(i) + j \in DOMAIN stream
           /\ stream[begin(i) + j] = [val |-> chunks[stream[i].msg][j],
                                      msg |-> stream[i].msg, at |-> j]
      /\ \A l \in DOMAIN stream : stream[l].msg = stream[i].msg => begin(l) = begin(i)
  <2>1. i \in DOMAIN s BY <1>1
  <2>2. Queue!InPlace(chunks, MaxChunks, MaxLen, i) BY <1>1, <2>1, Queue!SentAround
  <2>3. /\ i \in Nat /\ Queue!begin(chunks, i) \in Nat /\ Queue!size(chunks, i) \in 1 .. MaxLen
        /\ i = Queue!begin(chunks, i) + s[i].at
        /\ s[i].msg \in 1 .. MaxChunks /\ s[i].at \in 1 .. Queue!size(chunks, i)
        /\ DOMAIN chunks[s[i].msg] = 1 .. Queue!size(chunks, i)
    BY <2>2 DEF Queue!InPlace
  <2>4. \A j \in 1 .. Queue!size(chunks, i) :
          /\ Queue!begin(chunks, i) + j \in DOMAIN s
          /\ s[Queue!begin(chunks, i) + j] = [val |-> chunks[s[i].msg][j],
                                              msg |-> s[i].msg, at |-> j]
    BY <2>2 DEF Queue!InPlace
  <2>5. \A l \in DOMAIN s :
          s[l].msg = s[i].msg => Queue!begin(chunks, l) = Queue!begin(chunks, i)
    BY <2>2 DEF Queue!InPlace
  <2>6. s = stream BY <1>1
  <2> HIDE DEF s
  <2> QED BY <1>2, <2>3, <2>4, <2>5, <2>6
<1>4. chunks \in [1 .. MaxChunks -> Chunk] BY NetAssumption DEF TupleOf
<1> QED BY <1>3, <1>4

\* Chunks are sent one after the other.
LEMMA ChunksInTurn ==
  ASSUME chunks \in TupleOf(Chunk, MaxChunks), NEW i \in DOMAIN stream,
         NEW l \in DOMAIN stream, i <= l
  PROVE  stream[i].msg <= stream[l].msg
<1>1. /\ chunks \in Queue!Messages(Value, MaxChunks, MaxLen) /\ stream = Queue!Sent(chunks)
      /\ MaxChunks \in Nat /\ MaxLen \in Nat
  BY ChunksSent
<1>2. i \in DOMAIN Queue!Sent(chunks) BY <1>1
<1>3. Queue!InPlace(chunks, MaxChunks, MaxLen, i) BY <1>1, <1>2, Queue!SentAround
<1>4. \A a \in DOMAIN Queue!Sent(chunks) :
        i <= a => Queue!Sent(chunks)[i].msg <= Queue!Sent(chunks)[a].msg
  BY <1>3 DEF Queue!InPlace
<1> QED BY <1>1, <1>4

\* Each chunk has a last byte.
LEMMA ChunkEnds ==
  ASSUME chunks \in TupleOf(Chunk, MaxChunks), NEW k \in DOMAIN chunks
  PROVE  \E i \in DOMAIN stream : stream[i].msg = k /\ stream[i].at = size(i)
                                   /\ stream[i].val = chunks[k][size(i)]
<1>1. k \in 1 .. MaxChunks BY NetAssumption DEF TupleOf
<1>2. /\ chunks \in Queue!Messages(Value, MaxChunks, MaxLen) /\ stream = Queue!Sent(chunks)
      /\ MaxChunks \in Nat /\ MaxLen \in Nat
  BY ChunksSent
<1> DEFINE e == Len(chunks[k])
<1>3. e \in 1 .. MaxLen /\ \A j \in 1 .. e : Queue!IsSent(chunks, k, j)
  BY <1>1, <1>2, Queue!SentWhole
<1> HIDE DEF e
<1>4. Queue!IsSent(chunks, k, e) BY <1>3
<1>5. PICK l \in DOMAIN stream : stream[l] = [val |-> chunks[k][e], msg |-> k, at |-> e]
  BY <1>2, <1>4 DEF Queue!IsSent
<1> QED BY <1>5 DEF size, e

\* Between two bytes of a chunk there are only bytes of this chunk.
LEMMA SameChunk ==
  ASSUME chunks \in TupleOf(Chunk, MaxChunks), NEW i \in DOMAIN stream,
         NEW l \in Int, begin(i) < l, l <= begin(i) + size(i)
  PROVE  /\ l \in DOMAIN stream /\ l - begin(i) \in 1 .. size(i)
         /\ stream[l].msg = stream[i].msg /\ stream[l].at = l - begin(i)
         /\ stream[l].val = chunks[stream[i].msg][l - begin(i)]
<1>1. begin(i) \in Nat /\ size(i) \in Nat BY ChunkAround
<1> DEFINE j == l - begin(i)
<1>2. j \in 1 .. size(i) /\ begin(i) + j = l BY <1>1
<1> HIDE DEF j
<1>3. /\ begin(i) + j \in DOMAIN stream
      /\ stream[begin(i) + j] = [val |-> chunks[stream[i].msg][j],
                                 msg |-> stream[i].msg, at |-> j]
  BY <1>2, ChunkAround
<1> QED BY <1>2, <1>3 DEF j

\* The promises of the buffer, for the buffer of a connection.
LEMMA ReadAppends ==
  ASSUME Buf!Sound, NEW new \in Seq(Byte), Buf!Read(new)
  PROVE  Buf!Sound' /\ Buf!Data' = Buf!Data \o new
<1>1. BufLen \in Nat \ {0} BY NetAssumption
<1>2. Queue!Sound /\ Queue!Read(new)
  BY DEF Buf!Sound, Buf!Read, Buf!Fits, Buf!Write, Buf!Grown, Buf!Aligned, Buf!Data,
         Buf!totallen, Buf!Cardinality, Buf!Min,
         Queue!Sound, Queue!Read, Queue!Fits, Queue!Write, Queue!Grown, Queue!Aligned,
         Queue!Data, Queue!totallen, Queue!Cardinality, Queue!Min
<1>3. Queue!Sound' /\ Queue!Data' = Queue!Data \o new BY <1>1, <1>2, Queue!ReadAppends
<1> QED BY <1>3 DEF Buf!Sound, Buf!Data, Buf!totallen, Buf!Cardinality, Queue!Sound, Queue!Data, Queue!totallen, Queue!Cardinality

LEMMA DrainPtrRemoves ==
  ASSUME Buf!Sound, NEW ptr \in Nat, rptr <= ptr, ptr <= rptr + off,
         Buf!DrainPtr(ptr), mem' = mem
  PROVE  Buf!Sound' /\ Buf!Data' = SubSeq(Buf!Data, ptr - rptr + 1, off)
<1>1. Queue!Sound /\ Queue!DrainPtr(ptr)
  BY DEF Buf!Sound, Buf!Data, Buf!totallen, Buf!Cardinality, Buf!DrainPtr,
         Queue!Sound, Queue!Data, Queue!totallen, Queue!Cardinality, Queue!DrainPtr
<1>2. Queue!Sound' /\ Queue!Data' = SubSeq(Queue!Data, ptr - rptr + 1, off)
  <2>1. mem' \in [DOMAIN mem -> Queue!Cell] BY <1>1 DEF Queue!Sound, Queue!Cell
  <2> QED BY <1>1, <2>1, Queue!DrainPtrRemoves
<1> QED BY <1>2 DEF Buf!Sound, Buf!Data, Buf!totallen, Buf!Cardinality, Queue!Sound, Queue!Data, Queue!totallen, Queue!Cardinality

LEMMA FindsTheFirst ==
  ASSUME Buf!Sound, NEW c
  PROVE  /\ \A p \in Buf!FindChr(c) :
              /\ p = [block |-> block, at |-> p.at] /\ p.at \in Buf!Unread
              /\ mem[p.at].val = c
              /\ \A i \in Buf!Unread : mem[i].val = c => p.at <= i
         /\ Buf!FindChr(c) = {} => \A i \in Buf!Unread : mem[i].val # c
<1>1. Queue!Sound
  BY DEF Buf!Sound, Buf!Data, Buf!totallen, Buf!Cardinality, Queue!Sound, Queue!Data, Queue!totallen, Queue!Cardinality
<1>2. Queue!FindChr(c) = Buf!FindChr(c) /\ Queue!Unread = Buf!Unread
  BY DEF Buf!FindChr, Buf!Unread, Queue!FindChr, Queue!Unread
<1> QED BY <1>1, <1>2, Queue!FindsTheFirst
---------------------------------------------------------------------------
(* The steps *)

\* An empty buffer has the bytes that arrived and are not parsed: none.
LEMMA EmptyInOrder ==
  ASSUME Buf!Sound, Buf!Reset, stream' \in Seq(Byte), arrived' \in Nat
  PROVE  Buf!Sound' /\ BytesInOrder'
<1>1. mem' = mem /\ rptr' = 0 /\ off' = 0 BY DEF Buf!Reset
<1>2. Buf!totallen' = Buf!totallen BY <1>1 DEF Buf!totallen
<1>3. Buf!Data' = <<>> BY <1>1 DEF Buf!Data
<1>4. Buf!Sound' BY <1>1, <1>2, <1>3 DEF Buf!Sound
<1>5. \A a \in Nat : SubSeq(stream', a + 1, a) = <<>>
  <2> SUFFICES ASSUME NEW a \in Nat PROVE SubSeq(stream', a + 1, a) = <<>> OBVIOUS
  <2>1. a + 1 \in Int /\ a \in Int /\ a < a + 1 OBVIOUS
  <2> QED BY <2>1, SubSeqEmpty
<1>6. arrived' - off' + 1 = arrived' + 1 /\ off' <= arrived' BY <1>1
<1>7. BytesInOrder' <=> /\ off' <= arrived'
                        /\ Buf!Data' = SubSeq(stream', arrived' - off' + 1, arrived')
  BY DEF BytesInOrder
<1>8. SubSeq(stream', arrived' - off' + 1, arrived') = <<>> BY <1>5, <1>6
<1> QED BY <1>3, <1>4, <1>6, <1>7, <1>8

\* What the history says of the past stays true.
LEMMA HandedStays ==
  ASSUME HandedAsSent, chunks' = chunks, queued' = queued
  PROVE  HandedAsSent'
<1>1. stream' = stream BY DEF stream
<1> QED BY <1>1 DEF HandedAsSent

\* ev_nio_remove leaves the node as a new session finds it.
LEMMA EndSessionStep ==
  ASSUME IInv, EndSession, chunks' = chunks, queued' = queued, block' = block
  PROVE  IInv'
<1>1. stream' = stream BY DEF stream
<1>2. stream \in Seq(Byte) /\ Len(stream) \in Nat BY StreamType DEF IInv, TypeOK
<1>3. arrived \in 0 .. Len(stream) BY DEF IInv, TypeOK
<1> DEFINE R == arrived + 1 .. Len(stream)
           D == {i \in R : stream[i].msg \in Pending}
<1>4. IsFiniteSet(R) /\ Cardinality(R) = Len(stream) - arrived
  <2>1. arrived + 1 \in Int /\ Len(stream) \in Int BY <1>2, <1>3
  <2>2. IsFiniteSet(R) /\ Cardinality(R) = IF arrived + 1 <= Len(stream)
                          THEN Len(stream) - (arrived + 1) + 1 ELSE 0
    BY <2>1, FS_Interval
  <2> QED BY <2>2, <1>2, <1>3
<1>5. D \subseteq R OBVIOUS
<1> HIDE DEF D, R
<1>6. Cardinality(D) \in 0 .. Len(stream) - arrived
  BY <1>4, <1>5, FS_Subset, FS_CardinalityType
<1>7. arrived' = arrived + Cardinality(D) BY DEF EndSession, D, R
<1>8. arrived' \in 0 .. Len(stream) BY <1>2, <1>3, <1>6, <1>7
<1>9. Buf!Reset /\ start' = Null /\ pc' = "loop" BY DEF EndSession, ev_nio_buf_reset
<1>10. Buf!Sound' /\ BytesInOrder'
  <2>1. arrived' \in Nat BY <1>8, <1>2
  <2> QED BY <2>1, <1>1, <1>2, <1>9, EmptyInOrder DEF IInv, TypeOK
<1>11. TypeOK' BY <1>1, <1>8, <1>9, <1>10 DEF IInv, TypeOK
<1>12. Roomy => StartKept' /\ HandedAsSent'
  BY <1>9, HandedStays DEF IInv, StartKept
<1> QED BY <1>10, <1>11, <1>12 DEF IInv

\* A read.
LEMMA ReadSomeStep ==
  ASSUME IInv, NEW n \in Nat \ {0}, ReadSome(n)
  PROVE  IInv'
<1> DEFINE new == SubSeq(stream, arrived + 1, arrived + n)
<1>1. /\ pc' = "parse" /\ arrived' = arrived + n /\ arrived + n <= Len(stream)
      /\ start' = start /\ chunks' = chunks /\ queued' = queued
      /\ Buf!Read(new) /\ (Roomy => Buf!Fits(n))
  BY DEF ReadSome
<1>2. stream' = stream BY <1>1 DEF stream
<1>3. stream \in Seq(Byte) /\ Len(stream) \in Nat BY StreamType DEF IInv, TypeOK
<1>4. /\ Buf!Sound /\ arrived \in 0 .. Len(stream) /\ off \in Nat /\ rptr \in Nat
      /\ off <= arrived /\ Buf!Data = SubSeq(stream, arrived - off + 1, arrived)
  BY DEF IInv, TypeOK, Buf!Sound, BytesInOrder
<1>5. new \in Seq(Byte) /\ Len(new) = n
  <2>1. arrived + 1 \in 1 .. Len(stream) /\ arrived + n \in 1 .. Len(stream)
        /\ arrived + n \in 0 .. Len(stream) /\ arrived + 1 <= arrived + n
    BY <1>1, <1>3, <1>4
  <2>2. (arrived + n) - (arrived + 1) + 1 = n BY <1>4
  <2> QED BY <1>3, <2>1, <2>2, SubSeqProperties
<1> HIDE DEF new
<1>6. Buf!Sound' /\ Buf!Data' = Buf!Data \o new BY <1>1, <1>4, <1>5, ReadAppends
<1>7. off' = off + n BY <1>1, <1>5 DEF Buf!Read
<1>8. Buf!Data' = SubSeq(stream, arrived' - off' + 1, arrived')
  <2> DEFINE a == arrived - off + 1
  <2>1. arrived' - off' + 1 = a BY <1>1, <1>4, <1>7
  <2>2. a \in 1 .. Len(stream) + 1 /\ arrived \in a - 1 .. Len(stream)
        /\ arrived + n \in arrived .. Len(stream)
    BY <1>1, <1>3, <1>4
  <2>3. SubSeq(stream, a, arrived) \o SubSeq(stream, arrived + 1, arrived + n)
          = SubSeq(stream, a, arrived + n)
    BY <1>3, <2>2, ConcatAdjacentSubSeq
  <2> QED BY <1>1, <1>4, <1>6, <2>1, <2>3 DEF new
<1>9. BytesInOrder' BY <1>1, <1>2, <1>4, <1>7, <1>8 DEF BytesInOrder
<1>10. block' \in Nat /\ (Roomy => rptr' = rptr /\ block' = block)
  <2>1. block \in Nat BY DEF IInv, TypeOK
  <2> QED BY <1>1, <1>5, <2>1 DEF Buf!Read
<1>11. TypeOK' BY <1>1, <1>2, <1>3, <1>4, <1>6, <1>10 DEF IInv, TypeOK
<1>12. ASSUME Roomy, start # Null PROVE StartKept'
  <2>1. /\ start.block = block /\ start.at \in Buf!Unread /\ mem[start.at].val = "ee"
        /\ \A i \in Buf!Unread : mem[i].val = "ee" => start.at <= i
    BY <1>12 DEF IInv, StartKept
  <2>2. rptr' = rptr /\ block' = block BY <1>10, <1>12
  <2>3. Buf!Unread = rptr .. rptr + off - 1 /\ Buf!Unread' = rptr .. rptr + off + n - 1
    BY <1>4, <1>7, <2>2 DEF Buf!Unread
  <2>4. ASSUME NEW i \in Buf!Unread PROVE mem'[i] = mem[i]
    <3> DEFINE k == i - rptr + 1
    <3>1. k \in 1 .. off /\ k \in 1 .. off' /\ rptr + k - 1 = i BY <1>4, <1>7, <2>3
    <3> HIDE DEF k
    <3>2. Buf!Data[k] = mem[i] BY <3>1 DEF Buf!Data
    <3>3. Buf!Data'[k] = mem'[i] BY <3>1, <2>2 DEF Buf!Data
    <3>4. (Buf!Data \o new)[k] = Buf!Data[k]
      <4>1. Len(Buf!Data) = off BY <1>4 DEF Buf!Data
      <4>2. Buf!Data \in Seq(Byte) BY <1>4 DEF Buf!Sound
      <4> QED BY <1>4, <1>5, <3>1, <4>1, <4>2, ConcatProperties
    <3> QED BY <3>2, <3>3, <3>4, <1>6
  <2>5. start.at \in Buf!Unread' /\ mem'[start.at].val = "ee"
    BY <2>1, <2>3, <2>4, <1>4
  <2>6. ASSUME NEW i \in Buf!Unread', mem'[i].val = "ee" PROVE start.at <= i
    <3>1. CASE i \in Buf!Unread BY <3>1, <2>1, <2>4, <2>6
    <3>2. CASE i \notin Buf!Unread
      BY <3>2, <2>1, <2>3, <1>4
    <3> QED BY <3>1, <3>2
  <2> QED BY <1>1, <2>1, <2>2, <2>5, <2>6 DEF StartKept
<1>13. Roomy => StartKept' /\ HandedAsSent'
  <2>1. start = Null => StartKept' BY <1>1 DEF StartKept
  <2> QED BY <1>1, <1>12, <2>1, HandedStays DEF IInv
<1> QED BY <1>9, <1>11, <1>13 DEF IInv

\* The place of an unread byte in the stream.
LEMMA PlaceInStream ==
  ASSUME IInv, NEW i \in Buf!Unread
  PROVE  /\ i - rptr + (arrived - off + 1) \in DOMAIN stream
         /\ mem[i] = stream[i - rptr + (arrived - off + 1)]
<1>1. stream \in Seq(Byte) /\ Len(stream) \in Nat BY StreamType DEF IInv, TypeOK
<1>2. /\ arrived \in 0 .. Len(stream) /\ off \in Nat /\ rptr \in Nat
      /\ off <= arrived /\ Buf!Data = SubSeq(stream, arrived - off + 1, arrived)
  BY DEF IInv, TypeOK, Buf!Sound, BytesInOrder
<1> DEFINE k == i - rptr + 1
           a == arrived - off + 1
<1>3. k \in 1 .. off /\ rptr + k - 1 = i BY <1>2 DEF Buf!Unread
<1>4. Buf!Data[k] = mem[i] BY <1>3 DEF Buf!Data
<1>5. SubSeq(stream, a, arrived)[k] = stream[a + k - 1]
  <2>1. a \in 1 .. Len(stream) /\ arrived \in 1 .. Len(stream)
        /\ a \in 1 .. Len(stream) + 1 /\ a <= arrived
        /\ k \in 1 .. arrived - a + 1
    BY <1>1, <1>2, <1>3
  <2> HIDE DEF k, a
  <2> QED BY <1>1, <2>1, SubSeqProperties
<1>6. a + k - 1 = i - rptr + (arrived - off + 1) /\ a + k - 1 \in 1 .. Len(stream)
  BY <1>1, <1>2, <1>3
<1>7. DOMAIN stream = 1 .. Len(stream) BY <1>1, LenProperties
<1> QED BY <1>2, <1>4, <1>5, <1>6, <1>7

\* The place in the buffer of a byte that has arrived and is not parsed.
LEMMA PlaceInBuffer ==
  ASSUME IInv, NEW z \in unparsed .. arrived
  PROVE  /\ z - unparsed + rptr \in Buf!Unread /\ z \in DOMAIN stream
         /\ mem[z - unparsed + rptr] = stream[z]
<1>1. stream \in Seq(Byte) /\ Len(stream) \in Nat BY StreamType DEF IInv, TypeOK
<1>2. arrived \in 0 .. Len(stream) /\ off \in Nat /\ rptr \in Nat /\ off <= arrived
  BY DEF IInv, TypeOK, Buf!Sound, BytesInOrder
<1> DEFINE i == z - unparsed + rptr
<1>3. i \in Buf!Unread /\ i - rptr + (arrived - off + 1) = z
  BY <1>1, <1>2 DEF unparsed, Buf!Unread
<1> HIDE DEF i
<1>4. z \in DOMAIN stream /\ mem[i] = stream[z] BY <1>3, PlaceInStream
<1> QED BY <1>3, <1>4 DEF i

\* The start of the message that is looked for: with no read that moves the
\* data, the first start mark among the unread bytes.
LEMMA StartIsFirst ==
  ASSUME IInv, Roomy, NEW p \in Start
  PROVE  /\ p.block = block /\ p.at \in Buf!Unread /\ mem[p.at].val = "ee"
         /\ \A i \in Buf!Unread : mem[i].val = "ee" => p.at <= i
<1>1. CASE start # Null BY <1>1 DEF IInv, StartKept, Start
<1>2. CASE start = Null
  <2>1. p \in Buf!FindChr("ee") BY <1>2 DEF Start
  <2>2. /\ p = [block |-> block, at |-> p.at] /\ p.at \in Buf!Unread /\ mem[p.at].val = "ee"
        /\ \A i \in Buf!Unread : mem[i].val = "ee" => p.at <= i
    BY <2>1, FindsTheFirst DEF IInv, TypeOK
  <2> QED BY <2>2
<1> QED BY <1>1, <1>2

\* What handle_netmsg hands on begins at the first start mark and ends at the
\* first end mark that has not been parsed.
LEMMA Handed ==
  ASSUME IInv, Roomy, HandleMsg
  PROVE  \E x, y \in unparsed .. arrived :
           /\ queued' = Append(queued, [first |-> stream[x], last |-> stream[y],
                                        size |-> y - x + 1])
           /\ stream[x].val = "ee" /\ stream[y].val = "dd" /\ x <= y + 1
           /\ \A z \in unparsed .. arrived : /\ stream[z].val = "ee" => x <= z
                                             /\ stream[z].val = "dd" => y <= z
           /\ unparsed' = y + 1
<1>1. PICK p \in Start, t \in Buf!FindChr("dd") : Hand(p, t) BY DEF HandleMsg, tail
<1>2. /\ t = [block |-> block, at |-> t.at] /\ t.at \in Buf!Unread /\ mem[t.at].val = "dd"
      /\ \A i \in Buf!Unread : mem[i].val = "dd" => t.at <= i
  BY FindsTheFirst DEF IInv, TypeOK
<1>3. PICK first \in Buf!Deref(p), d \in Buf!Minus(t, p) :
        /\ d >= -1
        /\ queued' = Append(queued, [first |-> first, last |-> mem[t.at], size |-> d + 1])
  BY <1>1 DEF Hand
<1>4. /\ p.block = block /\ p.at \in Buf!Unread /\ mem[p.at].val = "ee"
      /\ \A i \in Buf!Unread : mem[i].val = "ee" => p.at <= i
  BY StartIsFirst
<1>5. /\ arrived \in Nat /\ off \in Nat /\ rptr \in Nat /\ off <= arrived
      /\ Buf!Unread = rptr .. rptr + off - 1 /\ Buf!Unread \subseteq DOMAIN mem
  <2>1. Len(stream) \in Nat BY StreamType DEF IInv, TypeOK
  <2> QED BY <2>1 DEF IInv, TypeOK, Buf!Sound, BytesInOrder, Buf!Unread
<1>6. first = mem[p.at] BY <1>4, <1>5 DEF Buf!Deref
<1>7. d = t.at - p.at
  <2>1. t.block = block BY <1>2
  <2> QED BY <2>1, <1>4 DEF Buf!Minus
<1> DEFINE P == p.at
           T == t.at
           u == unparsed
           x == P - rptr + u
           y == T - rptr + u
<1>8. P \in rptr .. rptr + off - 1 /\ T \in rptr .. rptr + off - 1 /\ d = T - P
  BY <1>2, <1>4, <1>5, <1>7
<1>9. u = arrived - off + 1 /\ u \in Nat BY <1>5 DEF unparsed
<1>10. mem[P] = stream[x] /\ mem[T] = stream[y] BY <1>2, <1>4, PlaceInStream DEF unparsed
<1>11. mem[P].val = "ee" /\ mem[T].val = "dd" BY <1>2, <1>4
<1>12. arrived' = arrived /\ off' = off - (T + 1 - rptr)
  <2>1. Buf!DrainPtr(T + 1) /\ arrived' = arrived BY <1>1 DEF Hand
  <2>2. T + 1 - rptr >= off => off = T + 1 - rptr BY <1>5, <1>8
  <2> QED BY <2>1, <2>2, <1>5, <1>8 DEF Buf!DrainPtr
<1> HIDE DEF P, T, u
<1>13. x \in u .. arrived /\ y \in u .. arrived /\ x <= y + 1 /\ d + 1 = y - x + 1
       /\ arrived' - off' + 1 = y + 1
  BY <1>3, <1>5, <1>8, <1>9, <1>12
<1>14. ASSUME NEW z \in u .. arrived
       PROVE  (stream[z].val = "ee" => x <= z) /\ (stream[z].val = "dd" => y <= z)
  <2> DEFINE i == z - u + rptr
  <2>1. i \in Buf!Unread /\ mem[i] = stream[z] BY PlaceInBuffer DEF u
  <2>2. i \in rptr .. rptr + off - 1 /\ x - z = P - i /\ y - z = T - i /\ z \in Int
        /\ x \in Int /\ y \in Int /\ i \in Int
    BY <2>1, <1>5, <1>8, <1>9
  <2> HIDE DEF i, x, y
  <2>3. (mem[i].val = "ee" => P <= i) /\ (mem[i].val = "dd" => T <= i)
    BY <2>1, <1>2, <1>4 DEF P, T
  <2> QED BY <2>1, <2>2, <2>3, <1>8
<1>15. queued' = Append(queued, [first |-> stream[x], last |-> stream[y], size |-> y - x + 1])
  <2> HIDE DEF x, y
  <2> QED BY <1>3, <1>6, <1>10, <1>13 DEF P, T
<1> HIDE DEF x, y
<1> QED BY <1>10, <1>11, <1>13, <1>14, <1>15 DEF u, unparsed

\* Waiting for the rest of a message.
LEMMA NoTailStep ==
  ASSUME IInv, NoTail
  PROVE  IInv'
<1>1. /\ start' \in Start /\ pc' = "loop" /\ evBuf' = evBuf
      /\ chunks' = chunks /\ arrived' = arrived /\ queued' = queued
  BY DEF NoTail
<1>2. mem' = mem /\ block' = block /\ rptr' = rptr /\ off' = off BY <1>1 DEF evBuf
<1>3. stream' = stream BY <1>1 DEF stream
<1>4. Buf!totallen' = Buf!totallen /\ Buf!Data' = Buf!Data /\ Buf!Unread' = Buf!Unread
  BY <1>2 DEF Buf!totallen, Buf!Data, Buf!Unread
<1>5. Buf!Sound' BY <1>2, <1>4 DEF IInv, TypeOK, Buf!Sound
<1>6. BytesInOrder' BY <1>1, <1>2, <1>3, <1>4 DEF IInv, BytesInOrder
<1>7. CASE start # Null
  <2>1. start' = start BY <1>1, <1>7 DEF Start
  <2>2. Roomy => StartKept' BY <2>1, <1>2, <1>4 DEF IInv, StartKept
  <2>3. TypeOK' BY <2>1, <1>1, <1>2, <1>3, <1>5 DEF IInv, TypeOK
  <2> QED BY <1>1, <1>6, <2>2, <2>3, HandedStays DEF IInv
<1>8. CASE start = Null
  <2>1. start' \in Buf!FindChr("ee") BY <1>1, <1>8 DEF Start
  <2>2. /\ start' = [block |-> block, at |-> start'.at] /\ start'.at \in Buf!Unread
        /\ mem[start'.at].val = "ee"
        /\ \A i \in Buf!Unread : mem[i].val = "ee" => start'.at <= i
    BY <2>1, FindsTheFirst DEF IInv, TypeOK
  <2>3. start'.block = block BY <2>2
  <2>4. Buf!Unread \subseteq Nat BY DEF IInv, TypeOK, Buf!Sound, Buf!Unread
  <2>5. start' \in [block : Nat, at : Nat] BY <2>2, <2>4 DEF IInv, TypeOK
  <2>6. StartKept' BY <1>2, <1>4, <2>2, <2>3 DEF StartKept
  <2>7. TypeOK' BY <2>5, <1>1, <1>2, <1>3, <1>5 DEF IInv, TypeOK
  <2> QED BY <1>1, <1>6, <2>6, <2>7, HandedStays DEF IInv
<1> QED BY <1>7, <1>8

\* A part of a part of a sequence.
LEMMA PartOfPart ==
  ASSUME NEW S, NEW s \in Seq(S), NEW i \in 1 .. Len(s), NEW j \in 1 .. Len(s),
         NEW m \in 1 .. j - i + 1, NEW n \in 1 .. j - i + 1
  PROVE  SubSeq(SubSeq(s, i, j), m, n) = SubSeq(s, i + m - 1, i + n - 1)
BY SubSeqOfSubSeq

\* What is handed on comes behind what was handed on before.
LEMMA AppendHistory ==
  ASSUME IInv, NEW a, NEW b, NEW s,
         queued' = Append(queued, [first |-> a, last |-> b, size |-> s])
  PROVE  /\ DOMAIN queued' = 1 .. Len(queued) + 1 /\ Len(queued') = Len(queued) + 1
         /\ Len(queued) + 1 \in Nat
         /\ \A k \in DOMAIN queued' :
              \/ k \in DOMAIN queued /\ queued'[k] = queued[k]
              \/ queued'[k] = [first |-> a, last |-> b, size |-> s]
<1> DEFINE q == [first |-> a, last |-> b, size |-> s]
           n == Len(queued)
<1>1. n \in Nat /\ DOMAIN queued = 1 .. n BY DEF IInv, TypeOK
<1>2. queued' = [k \in 1 .. n + 1 |-> IF k = n + 1 THEN q ELSE queued[k]]
  <2> HIDE DEF q
  <2> QED BY <1>1 DEF q
<1>3. Len(queued') = n + 1
  <2> HIDE DEF n, q
  <2> QED BY <1>1, <1>2
<1>4. \A k \in 1 .. n + 1 : k = n + 1 \/ k \in 1 .. n BY <1>1
<1> HIDE DEF n, q
<1>5. n + 1 \in Nat /\ DOMAIN queued' = 1 .. n + 1 BY <1>1, <1>2
<1>6. \A k \in DOMAIN queued' : (k \in DOMAIN queued /\ queued'[k] = queued[k]) \/ queued'[k] = q
  BY <1>1, <1>2, <1>4, <1>5
<1> QED BY <1>3, <1>5, <1>6 DEF n, q

\* handle_netmsg hands a message on.
LEMMA HandleMsgStep ==
  ASSUME IInv, HandleMsg
  PROVE  IInv'
<1>1. PICK p \in Start, t \in Buf!FindChr("dd") : Hand(p, t) BY DEF HandleMsg, tail
<1>2. /\ t = [block |-> block, at |-> t.at] /\ t.at \in Buf!Unread /\ mem[t.at].val = "dd"
      /\ \A i \in Buf!Unread : mem[i].val = "dd" => t.at <= i
  BY FindsTheFirst DEF IInv, TypeOK
<1>3. PICK first \in Buf!Deref(p), d \in Buf!Minus(t, p) :
        /\ d >= -1
        /\ queued' = Append(queued, [first |-> first, last |-> mem[t.at], size |-> d + 1])
  BY <1>1 DEF Hand
<1>4. /\ Buf!DrainPtr(t.at + 1) /\ mem' = mem /\ block' = block /\ chunks' = chunks
      /\ arrived' = arrived /\ pc' \in {"loop", "parse"} /\ start' = Null
  BY <1>1 DEF Hand, HandleMsg
<1>5. stream' = stream BY <1>4 DEF stream
<1>6. stream \in Seq(Byte) /\ Len(stream) \in Nat BY StreamType DEF IInv, TypeOK
<1>7. /\ Buf!Sound /\ arrived \in 0 .. Len(stream) /\ off \in Nat /\ rptr \in Nat
      /\ off <= arrived /\ Buf!Data = SubSeq(stream, arrived - off + 1, arrived)
  BY DEF IInv, TypeOK, Buf!Sound, BytesInOrder
<1>8. t.at \in Nat /\ rptr <= t.at /\ t.at + 1 <= rptr + off
  BY <1>2, <1>7 DEF Buf!Unread
<1> DEFINE e == t.at + 1 - rptr
<1>9. e \in 1 .. off /\ t.at + 1 - rptr + 1 = e + 1 BY <1>7, <1>8
<1>10. Buf!Sound' /\ Buf!Data' = SubSeq(Buf!Data, e + 1, off)
  <2> DEFINE ptr == t.at + 1
  <2>1. ptr \in Nat /\ rptr <= ptr /\ ptr <= rptr + off /\ ptr - rptr + 1 = e + 1
    BY <1>7, <1>8
  <2>2. Buf!DrainPtr(ptr) BY <1>4
  <2> HIDE DEF e, ptr
  <2>3. Buf!Sound' /\ Buf!Data' = SubSeq(Buf!Data, ptr - rptr + 1, off)
    BY <2>1, <2>2, <1>4, <1>7, DrainPtrRemoves
  <2> QED BY <2>1, <2>3
<1>11. off' = off - e
  <2>1. t.at + 1 - rptr >= off => off = e BY <1>7, <1>8, <1>9
  <2> QED BY <2>1, <1>4, <1>7, <1>8, <1>9 DEF Buf!DrainPtr
<1> HIDE DEF e
<1>12. BytesInOrder'
  <2> DEFINE a == arrived - off + 1
  <2>1. arrived' - off' + 1 = a + e /\ off' <= arrived' BY <1>4, <1>7, <1>9, <1>11
  <2>2. SubSeq(SubSeq(stream, a, arrived), e + 1, off) = SubSeq(stream, a + e, arrived)
    <3>1. CASE e = off
      <4>1. e + 1 \in Int /\ off \in Int /\ off < e + 1 /\ a + e \in Int /\ arrived \in Int
            /\ arrived < a + e
        BY <3>1, <1>7, <1>9
      <4> HIDE DEF a
      <4> QED BY <4>1, SubSeqEmpty
    <3>2. CASE e # off
      <4>1. /\ a \in 1 .. Len(stream) /\ arrived \in 1 .. Len(stream)
            /\ e + 1 \in 1 .. arrived - a + 1 /\ off \in 1 .. arrived - a + 1
            /\ a + (e + 1) - 1 = a + e /\ a + off - 1 = arrived
        BY <3>2, <1>6, <1>7, <1>9
      <4> DEFINE m == e + 1
      <4> HIDE DEF a, m
      <4>2. m \in 1 .. arrived - a + 1 /\ a + m - 1 = a + e BY <4>1 DEF m
      <4>3. SubSeq(SubSeq(stream, a, arrived), m, off) = SubSeq(stream, a + m - 1, a + off - 1)
        BY <4>1, <4>2, <1>6, PartOfPart
      <4> QED BY <4>1, <4>2, <4>3 DEF m
    <3> QED BY <3>1, <3>2
  <2>3. Buf!Data' = SubSeq(stream', arrived' - off' + 1, arrived')
    BY <2>1, <2>2, <1>4, <1>5, <1>7, <1>10
  <2> QED BY <2>1, <2>3 DEF BytesInOrder
<1>13. /\ DOMAIN queued' = 1 .. Len(queued) + 1 /\ Len(queued') = Len(queued) + 1
       /\ Len(queued) + 1 \in Nat
  <2> DEFINE last == mem[t.at]
             size0 == d + 1
  <2>1. queued' = Append(queued, [first |-> first, last |-> last, size |-> size0]) BY <1>3
  <2> HIDE DEF last, size0
  <2> QED BY <2>1, AppendHistory
<1>14. ASSUME Roomy PROVE HandedAsSent'
  <2>1. PICK x \in unparsed .. arrived, y \in unparsed .. arrived :
           /\ queued' = Append(queued, [first |-> stream[x], last |-> stream[y],
                                        size |-> y - x + 1])
           /\ stream[x].val = "ee" /\ stream[y].val = "dd" /\ x <= y + 1
           /\ \A z \in unparsed .. arrived : stream[z].val = "dd" => y <= z
    BY <1>14, Handed
  <2>2. x \in DOMAIN stream /\ y \in DOMAIN stream BY PlaceInBuffer
  <2>3. ASSUME NEW j \in x .. y - 1 PROVE stream[j].val # "dd"
    <3>1. unparsed \in Int BY <1>6, <1>7 DEF unparsed
    <3>2. j \in unparsed .. arrived /\ ~(y <= j) BY <3>1, <1>6, <1>7
    <3> QED BY <3>2, <2>1
  <2>4. ASSUME NEW k \in DOMAIN queued'
        PROVE  \E u, v \in DOMAIN stream :
                 /\ queued'[k] = [first |-> stream[u], last |-> stream[v], size |-> v - u + 1]
                 /\ stream[u].val = "ee" /\ stream[v].val = "dd" /\ u <= v + 1
                 /\ \A j \in u .. v - 1 : stream[j].val # "dd"
    <3>1. CASE k \in DOMAIN queued /\ queued'[k] = queued[k]
      BY <3>1, <1>14 DEF IInv, HandedAsSent
    <3>2. CASE queued'[k] = [first |-> stream[x], last |-> stream[y], size |-> y - x + 1]
      BY <3>2, <2>1, <2>2, <2>3
    <3>3. \/ k \in DOMAIN queued /\ queued'[k] = queued[k]
          \/ queued'[k] = [first |-> stream[x], last |-> stream[y], size |-> y - x + 1]
      <4> DEFINE z == y - x + 1
      <4>1. queued' = Append(queued, [first |-> stream[x], last |-> stream[y], size |-> z])
        BY <2>1
      <4> HIDE DEF z
      <4>2. \/ k \in DOMAIN queued /\ queued'[k] = queued[k]
            \/ queued'[k] = [first |-> stream[x], last |-> stream[y], size |-> z]
        BY <4>1, <2>4, AppendHistory
      <4> QED BY <4>2 DEF z
    <3> QED BY <3>1, <3>2, <3>3
  <2> QED BY <2>4, <1>5 DEF HandedAsSent
<1>15. TypeOK'
  BY <1>4, <1>5, <1>10, <1>13 DEF IInv, TypeOK
<1> QED BY <1>4, <1>12, <1>14, <1>15 DEF IInv, StartKept

\* The node as ev_nio_alloc hands it out.
LEMMA InitIInv == Init => IInv
<1> SUFFICES ASSUME Init PROVE IInv OBVIOUS
<1> USE NetAssumption
<1>1. /\ mem = [i \in 0 .. BufLen - 1 |-> NoByte] /\ block = 0 /\ rptr = 0 /\ off = 0
      /\ start = Null /\ pc = "loop" /\ chunks \in TupleOf(Chunk, MaxChunks)
      /\ arrived = 0 /\ queued = <<>>
  BY DEF Init, Buf!Init
<1>2. Cardinality(0 .. BufLen - 1) = BufLen BY FS_Interval
<1>3. Buf!totallen = BufLen
  BY <1>1, <1>2 DEF Buf!totallen, Buf!Cardinality, Cardinality
<1>4. Buf!Data = <<>> BY <1>1 DEF Buf!Data
<1>5. Buf!Sound BY <1>1, <1>3, <1>4 DEF Buf!Sound
<1>6. Len(stream) \in Nat BY <1>1, StreamType
<1>7. TypeOK BY <1>1, <1>5, <1>6 DEF TypeOK
<1>8. BytesInOrder
  <2>1. SubSeq(stream, 0 + 1, 0) = <<>> BY SubSeqEmpty
  <2>2. arrived - off + 1 = 0 + 1 BY <1>1
  <2> QED BY <1>1, <1>4, <2>1, <2>2 DEF BytesInOrder
<1>9. StartKept /\ HandedAsSent BY <1>1 DEF StartKept, HandedAsSent
<1> QED BY <1>7, <1>8, <1>9 DEF IInv

\* Every step of the net thread and of its clients.
LEMMA NextIInv == IInv /\ [Next]_vars => IInv'
<1> SUFFICES ASSUME IInv, [Next]_vars PROVE IInv' OBVIOUS
<1> USE DEF ev_nio_buf_reset, Buf!Reset
<1>1. ASSUME NEW n \in 1 .. MaxChunks * MaxLen, ReadSome(n) PROVE IInv'
  <2>1. MaxChunks * MaxLen \in Nat BY NetAssumption
  <2>2. n \in Nat \ {0} BY <2>1
  <2> QED BY <2>2, <1>1, ReadSomeStep
<1>2. CASE ReadFails BY <1>2, EndSessionStep DEF ReadFails, EndSession
<1>3. CASE InvalidData
  <2>1. stream' = stream BY <1>3 DEF InvalidData, stream
  <2>2. stream \in Seq(Byte) /\ Len(stream) \in Nat BY StreamType DEF IInv, TypeOK
  <2>3. arrived' \in Nat BY <1>3, <2>2 DEF InvalidData, IInv, TypeOK
  <2>4. Buf!Reset BY <1>3 DEF InvalidData
  <2>5. Buf!Sound' /\ BytesInOrder'
    BY <2>1, <2>2, <2>3, <2>4, EmptyInOrder DEF IInv, TypeOK
  <2>6. TypeOK' BY <1>3, <2>1, <2>5 DEF InvalidData, IInv, TypeOK
  <2> QED BY <1>3, <2>5, <2>6, HandedStays DEF InvalidData, IInv, StartKept
<1>4. CASE NoTail BY <1>4, NoTailStep
<1>5. CASE HandleMsg BY <1>5, HandleMsgStep
<1>6. CASE CrashMsg BY <1>6, EndSessionStep DEF CrashMsg, EndSession
<1>7. CASE RejectMsg BY <1>7, EndSessionStep DEF RejectMsg, EndSession
<1>8. CASE UNCHANGED vars
  <2>1. /\ mem' = mem /\ block' = block /\ rptr' = rptr /\ off' = off /\ start' = start
        /\ pc' = pc /\ chunks' = chunks /\ arrived' = arrived /\ queued' = queued
    BY <1>8 DEF vars, evBuf
  <2>2. stream' = stream BY <2>1 DEF stream
  <2>3. Buf!totallen' = Buf!totallen /\ Buf!Data' = Buf!Data /\ Buf!Unread' = Buf!Unread
    BY <2>1 DEF Buf!totallen, Buf!Data, Buf!Unread
  <2>4. Buf!Sound' BY <2>1, <2>3 DEF IInv, TypeOK, Buf!Sound
  <2>5. TypeOK' BY <2>1, <2>2, <2>4 DEF IInv, TypeOK
  <2>6. BytesInOrder' BY <2>1, <2>2, <2>3 DEF IInv, BytesInOrder
  <2>7. Roomy => StartKept' BY <2>1, <2>3 DEF IInv, StartKept
  <2> QED BY <2>1, <2>5, <2>6, <2>7, HandedStays DEF IInv
<1> QED BY <1>1, <1>2, <1>3, <1>4, <1>5, <1>6, <1>7, <1>8 DEF Next

---------------------------------------------------------------------------
(* Where the marks are *)

\* The values of the bytes of a chunk.
LEMMA ChunkValues ==
  ASSUME chunks \in TupleOf(Chunk, MaxChunks), NEW i \in DOMAIN stream
  PROVE  \A j \in 1 .. size(i) : /\ begin(i) + j \in DOMAIN stream
                                 /\ stream[begin(i) + j].val = chunks[stream[i].msg][j]
<1> TAKE j \in 1 .. size(i)
<1> DEFINE l == begin(i) + j
<1>1. /\ l \in DOMAIN stream
      /\ stream[l] = [val |-> chunks[stream[i].msg][j], msg |-> stream[i].msg, at |-> j]
  BY ChunkAround
<1> HIDE DEF l
<1>2. l \in DOMAIN stream /\ stream[l].val = chunks[stream[i].msg][j] BY <1>1
<1> QED BY <1>2 DEF l

\* In front of a start mark there is the start of its chunk, and no end mark in
\* between.
LEMMA StartInFront ==
  ASSUME chunks \in TupleOf(Chunk, MaxChunks), MarksInPlace,
         NEW i \in DOMAIN stream, stream[i].val = "ee"
  PROVE  /\ begin(i) + 1 \in DOMAIN stream /\ begin(i) + 1 <= i
         /\ stream[begin(i) + 1].val = "ee"
         /\ \A l \in begin(i) + 1 .. i : stream[l].val # "dd"
         /\ \E j \in 1 .. size(i) : chunks[stream[i].msg][j] = "dd"
<1> DEFINE c == chunks[stream[i].msg]
           b == begin(i)
           n == size(i)
           a == stream[i].at
<1>1. /\ i \in Nat /\ b \in Nat /\ n \in Nat /\ i = b + a /\ a \in 1 .. n
      /\ c \in Chunk /\ DOMAIN c = 1 .. n
      /\ \A j \in 1 .. n : b + j \in DOMAIN stream /\ stream[b + j].val = c[j]
  BY ChunkAround, ChunkValues
<1> HIDE DEF a, b, c, n
<1>2. c[a] = "ee" BY <1>1
<1>3. c[1] = "ee" /\ \A j \in 1 .. a : c[j] # "dd" BY <1>1, <1>2 DEF MarksInPlace
<1>4. \E j \in 1 .. n : c[j] = "dd" BY <1>1, <1>3 DEF MarksInPlace
<1>5. 1 \in 1 .. n /\ b + 1 <= i BY <1>1
<1>6. b + 1 \in DOMAIN stream /\ stream[b + 1].val = "ee" BY <1>1, <1>3, <1>5
<1>7. ASSUME NEW l \in b + 1 .. i PROVE stream[l].val # "dd"
  <2> DEFINE j == l - b
  <2>1. j \in 1 .. a /\ j \in 1 .. n /\ b + j = l BY <1>1
  <2> HIDE DEF j
  <2>2. stream[b + j].val = c[j] BY <2>1, <1>1
  <2> QED BY <2>1, <2>2, <1>3
<1> QED BY <1>4, <1>5, <1>6, <1>7 DEF b, n, c

\* A plain message begins with a start mark, and its one end mark is its end.
LEMMA PlainMarks ==
  ASSUME chunks \in TupleOf(Chunk, MaxChunks), NEW i \in DOMAIN stream,
         stream[i].msg \in Plain
  PROVE  /\ begin(i) + 1 \in DOMAIN stream /\ begin(i) + 1 <= i
         /\ stream[begin(i) + 1].val = "ee"
         /\ stream[i].val = "dd" <=> stream[i].at = size(i)
<1> DEFINE c == chunks[stream[i].msg]
           b == begin(i)
           n == size(i)
           a == stream[i].at
<1>1. /\ i \in Nat /\ b \in Nat /\ n \in Nat /\ i = b + a /\ a \in 1 .. n
      /\ c \in Chunk /\ DOMAIN c = 1 .. n
      /\ \A j \in 1 .. n : b + j \in DOMAIN stream /\ stream[b + j].val = c[j]
  BY ChunkAround, ChunkValues
<1>2. c[1] = "ee" /\ \A j \in DOMAIN c : c[j] = "dd" <=> j = n BY DEF Plain, size
<1> HIDE DEF a, b, c, n
<1>3. 1 \in 1 .. n /\ b + 1 <= i BY <1>1
<1>4. b + 1 \in DOMAIN stream /\ stream[b + 1].val = "ee" BY <1>1, <1>2, <1>3
<1>5. stream[i].val = c[a] BY <1>1
<1> QED BY <1>1, <1>2, <1>3, <1>4, <1>5 DEF a, b, n

\* The first end mark of a chunk that has one.
LEMMA FirstMarkIs ==
  ASSUME NEW c, NEW n \in Nat, DOMAIN c = 1 .. n, \E i \in 1 .. n : c[i] = "dd"
  PROVE  /\ FirstMark(c) \in 1 .. n /\ c[FirstMark(c)] = "dd"
         /\ \A i \in 1 .. n : c[i] = "dd" => FirstMark(c) <= i
<1> DEFINE T == {i \in DOMAIN c : c[i] = "dd"}
<1>1. T \in SUBSET Nat /\ T # {} OBVIOUS
<1>2. FirstMark(c) = CHOOSE x \in T : \A y \in T : x <= y BY DEF FirstMark, Min
<1> HIDE DEF T
<1>3. FirstMark(c) \in T /\ \A y \in T : FirstMark(c) <= y BY <1>1, <1>2, Queue!LeastExists
<1> QED BY <1>3 DEF T

\* Nothing that the property reads of the past changes.
LEMMA CutStays ==
  ASSUME CutAtFirstMark, chunks' = chunks, queued' = queued
  PROVE  CutAtFirstMark'
<1>1. Plain' = Plain BY DEF Plain
<1> QED BY <1>1 DEF CutAtFirstMark, FirstMark

\* The numbers of a state.
LEMMA Numbers ==
  ASSUME IInv
  PROVE  /\ unparsed \in Nat /\ arrived \in Nat /\ arrived <= Len(stream)
         /\ off \in Nat /\ unparsed = arrived - off + 1 /\ unparsed >= 1
         /\ Len(stream) \in Nat /\ DOMAIN stream = 1 .. Len(stream)
         /\ chunks \in TupleOf(Chunk, MaxChunks)
<1>1. stream \in Seq(Byte) /\ Len(stream) \in Nat /\ DOMAIN stream = 1 .. Len(stream)
  BY StreamType, LenProperties DEF IInv, TypeOK
<1>2. /\ arrived \in 0 .. Len(stream) /\ off \in Nat /\ off <= arrived
      /\ chunks \in TupleOf(Chunk, MaxChunks)
  BY DEF IInv, TypeOK, Buf!Sound, BytesInOrder
<1> QED BY <1>1, <1>2 DEF unparsed

\* One more message that is cut where it should be.
LEMMA CutAppends ==
  ASSUME IInv, CutAtFirstMark, chunks' = chunks, NEW a, NEW b, NEW s,
         queued' = Append(queued, [first |-> a, last |-> b, size |-> s]),
         a.at = 1, a.val = "ee",
         \/ s = 0 /\ b.msg \notin Plain
         \/ /\ b.msg = a.msg /\ b.at = s
            /\ s = FirstMark(chunks[a.msg])
  PROVE  CutAtFirstMark'
<1>1. Plain' = Plain BY DEF Plain
<1> DEFINE r == [first |-> a, last |-> b, size |-> s]
           Cut(q) == /\ q.first.at = 1 /\ q.first.val = "ee"
                     /\ \/ q.size = 0 /\ q.last.msg \notin Plain
                        \/ /\ q.last.msg = q.first.msg /\ q.last.at = q.size
                           /\ q.size = FirstMark(chunks[q.first.msg])
<1>2. Cut(r) OBVIOUS
<1>3. \A k \in DOMAIN queued : Cut(queued[k]) BY DEF CutAtFirstMark
<1>4. \A k \in DOMAIN queued' :
        (k \in DOMAIN queued /\ queued'[k] = queued[k]) \/ queued'[k] = r
  BY AppendHistory
<1> HIDE DEF Cut, r
<1>5. \A k \in DOMAIN queued' : Cut(queued'[k]) BY <1>2, <1>3, <1>4
<1>6. ASSUME NEW i \in DOMAIN queued'
      PROVE  LET q == queued'[i] IN
               /\ q.first.at = 1 /\ q.first.val = "ee"
               /\ \/ q.size = 0 /\ q.last.msg \notin Plain'
                  \/ /\ q.last.msg = q.first.msg /\ q.last.at = q.size
                     /\ q.size = FirstMark(chunks'[q.first.msg])
  <2> DEFINE q == queued'[i]
  <2>1. Cut(q) BY <1>5
  <2> HIDE DEF q
  <2>2. /\ q.first.at = 1 /\ q.first.val = "ee"
        /\ \/ q.size = 0 /\ q.last.msg \notin Plain'
           \/ /\ q.last.msg = q.first.msg /\ q.last.at = q.size
              /\ q.size = FirstMark(chunks'[q.first.msg])
    BY <2>1, <1>1 DEF Cut
  <2> QED BY <2>2 DEF q
<1> QED BY <1>6 DEF CutAtFirstMark, FirstMark

\* A message is cut at its first end mark, and what is left begins behind it.
LEMMA CutHandMsg ==
  ASSUME CutInv, Roomy, MarksInPlace, HandleMsg
  PROVE  RestInv' /\ CutAtFirstMark'
<1>1. IInv /\ RestInv /\ CutAtFirstMark BY DEF CutInv
<1>2. PICK x \in unparsed .. arrived, y \in unparsed .. arrived :
           /\ queued' = Append(queued, [first |-> stream[x], last |-> stream[y],
                                        size |-> y - x + 1])
           /\ stream[x].val = "ee" /\ stream[y].val = "dd" /\ x <= y + 1
           /\ \A z \in unparsed .. arrived : /\ stream[z].val = "ee" => x <= z
                                             /\ stream[z].val = "dd" => y <= z
           /\ unparsed' = y + 1
  BY <1>1, Handed
<1> DEFINE u == unparsed
<1>3. /\ u \in Nat /\ arrived \in Nat /\ arrived <= Len(stream) /\ Len(stream) \in Nat
      /\ DOMAIN stream = 1 .. Len(stream) /\ u >= 1 /\ chunks \in TupleOf(Chunk, MaxChunks)
  BY <1>1, Numbers
<1>4. /\ x \in Nat /\ y \in Nat /\ u <= x /\ x <= arrived /\ u <= y /\ y <= arrived
      /\ x \in DOMAIN stream /\ y \in DOMAIN stream /\ u \in DOMAIN stream
  BY <1>3
<1>5. chunks' = chunks /\ stream' = stream /\ Plain' = Plain
  BY DEF HandleMsg, Hand, stream, Plain
<1>6. \A z \in DOMAIN stream : z >= u /\ stream[z].val = "ee" => begin(z) + 1 >= u
  BY <1>1 DEF RestInv, begin
<1>7. u \in DOMAIN stream /\ stream[u].at > 1 => stream[u].msg \notin Plain
  BY <1>1 DEF RestInv
<1>8. \A z \in u .. arrived : /\ stream[z].val = "ee" => x <= z
                              /\ stream[z].val = "dd" => y <= z
  BY <1>2
<1> DEFINE v == y + 1
<1>9. v \in Nat /\ unparsed' = v BY <1>2, <1>4
<1> HIDE DEF u, v
<1>10. RestInv'
  <2>1. ASSUME NEW z \in DOMAIN stream, z >= v, stream[z].val = "ee" PROVE begin(z) + 1 >= v
    <3>1. z >= u /\ z \in Nat /\ y < z BY <2>1, <1>3, <1>4 DEF v
    <3>2. begin(z) \in Nat /\ \A l \in begin(z) + 1 .. z : stream[l].val # "dd"
      BY <2>1, <1>3, StartInFront, ChunkAround
    <3>3. ~(y \in begin(z) + 1 .. z) BY <3>2, <1>2
    <3> QED BY <3>1, <3>2, <3>3, <1>4 DEF v
  <2>2. ASSUME v \in DOMAIN stream, stream[v].at > 1, stream[v].msg \in Plain PROVE FALSE
    <3>1. /\ begin(v) \in Nat /\ size(v) \in Nat /\ v = begin(v) + stream[v].at
          /\ stream[v].at \in 1 .. size(v)
      BY <2>2, <1>3, ChunkAround
    <3>2. y \in Int /\ begin(v) < y /\ y <= begin(v) + size(v) /\ y - begin(v) # size(v)
      BY <3>1, <2>2, <1>4 DEF v
    <3>3. stream[y].msg = stream[v].msg /\ stream[y].at = y - begin(v)
      BY <3>2, <2>2, <1>3, SameChunk
    <3>4. size(y) = size(v) BY <3>3 DEF size
    <3>5. stream[y].at = size(y) BY <3>3, <2>2, <1>2, <1>3, <1>4, PlainMarks
    <3> QED BY <3>2, <3>3, <3>4, <3>5
  <2> QED BY <2>1, <2>2, <1>5, <1>9 DEF RestInv, begin
<1>11. begin(x) + 1 = x /\ stream[x].at = 1
  <2>1. /\ begin(x) + 1 \in DOMAIN stream /\ begin(x) + 1 <= x
        /\ stream[begin(x) + 1].val = "ee"
    BY <1>2, <1>3, <1>4, StartInFront
  <2>2. begin(x) \in Nat /\ x = begin(x) + stream[x].at /\ stream[x].at \in Nat
    <3>1. /\ begin(x) \in Nat /\ x = begin(x) + stream[x].at /\ size(x) \in Nat
          /\ stream[x].at \in 1 .. size(x)
      BY <1>3, <1>4, ChunkAround
    <3> QED BY <3>1
  <2>3. begin(x) + 1 >= u BY <1>2, <1>4, <1>6
  <2> DEFINE s == begin(x) + 1
  <2>4. s \in u .. arrived /\ stream[s].val = "ee" BY <2>1, <2>2, <2>3, <1>3, <1>4
  <2> HIDE DEF s
  <2>5. x <= s BY <2>4, <1>8
  <2> QED BY <2>1, <2>2, <2>5, <1>4 DEF s
<1> DEFINE m == stream[x].msg
           F == FirstMark(chunks[m])
           n == size(x)
<1>12. /\ n \in Nat /\ DOMAIN chunks[m] = 1 .. n /\ begin(x) = x - 1
       /\ \E j \in 1 .. n : chunks[m][j] = "dd"
  BY <1>2, <1>3, <1>4, <1>11, StartInFront, ChunkAround
<1>13. /\ F \in 1 .. n /\ chunks[m][F] = "dd"
       /\ \A j \in 1 .. n : chunks[m][j] = "dd" => F <= j
  <2> DEFINE c == chunks[m]
  <2> HIDE DEF m, n
  <2>1. DOMAIN c = 1 .. n /\ \E j \in 1 .. n : c[j] = "dd" BY <1>12
  <2> HIDE DEF c
  <2>2. /\ FirstMark(c) \in 1 .. n /\ c[FirstMark(c)] = "dd"
        /\ \A j \in 1 .. n : c[j] = "dd" => FirstMark(c) <= j
    BY <2>1, <1>12, FirstMarkIs
  <2> QED BY <2>2 DEF c
<1>14. CASE y = x - 1
  <2>1. ASSUME stream[y].msg \in Plain PROVE FALSE
    <3>1. /\ begin(y) + 1 \in DOMAIN stream /\ begin(y) + 1 <= y
          /\ stream[begin(y) + 1].val = "ee"
      BY <2>1, <1>3, <1>4, PlainMarks
    <3>2. begin(y) \in Nat /\ y <= begin(y) + size(y) /\ size(y) \in Nat
      <4>1. /\ begin(y) \in Nat /\ y = begin(y) + stream[y].at /\ size(y) \in Nat
            /\ stream[y].at \in 1 .. size(y)
        BY <1>3, <1>4, ChunkAround
      <4> QED BY <4>1
    <3> DEFINE s == begin(y) + 1
    <3>3. s \in Nat /\ s <= y /\ stream[s].val = "ee" BY <3>1, <3>2
    <3>4. CASE s >= u
      <4> HIDE DEF s
      <4>1. s \in u .. arrived BY <3>3, <3>4, <1>3, <1>4
      <4>2. x <= s BY <4>1, <3>3, <1>8
      <4> QED BY <4>2, <3>3, <1>4, <1>14
    <3>5. CASE s < u
      <4>1. u \in Int /\ begin(y) < u /\ u <= begin(y) + size(y) /\ u - begin(y) > 1
        BY <3>2, <3>5, <1>3, <1>4
      <4>2. stream[u].msg = stream[y].msg /\ stream[u].at = u - begin(y)
        BY <4>1, <1>3, <1>4, SameChunk
      <4> QED BY <4>1, <4>2, <1>4, <1>7, <2>1
    <3> QED BY <3>2, <3>4, <3>5, <1>3
  <2>2. y - x + 1 = 0 BY <1>4, <1>14
  <2> DEFINE s == y - x + 1
             a == stream[x]
             b == stream[y]
  <2>3. queued' = Append(queued, [first |-> a, last |-> b, size |-> s]) BY <1>2
  <2>4. /\ a.at = 1 /\ a.val = "ee" /\ s = 0 /\ b.msg \notin Plain
        /\ IInv /\ CutAtFirstMark /\ chunks' = chunks
    BY <2>1, <2>2, <1>1, <1>2, <1>5, <1>11
  <2> HIDE DEF s, a, b
  <2>5. CutAtFirstMark' BY <2>3, <2>4, CutAppends
  <2> QED BY <2>5, <1>10
<1>15. CASE y # x - 1
  <2>1. x <= y BY <1>2, <1>4, <1>15
  <2> DEFINE f == x - 1 + F
  <2>2. f \in Int /\ begin(x) < f /\ f <= begin(x) + n /\ f - begin(x) = F /\ x <= f
        /\ f = x - 1 + F /\ F \in Nat
    BY <1>4, <1>12, <1>13
  <2> HIDE DEF f, F
  <2>3. f \in DOMAIN stream /\ stream[f].val = "dd"
    BY <2>2, <1>3, <1>4, <1>13, SameChunk
  <2>4. y <= f
    <3>1. CASE f <= arrived
      <4>1. f \in u .. arrived BY <3>1, <2>2, <1>3, <1>4
      <4> QED BY <4>1, <2>3, <1>8
    <3>2. CASE ~(f <= arrived) BY <3>2, <2>2, <1>3, <1>4
    <3> QED BY <3>1, <3>2
  <2>5. y \in Int /\ begin(x) < y /\ y <= begin(x) + n
    BY <2>1, <2>2, <2>4, <1>4, <1>12
  <2>6. /\ stream[y].msg = m /\ stream[y].at = y - begin(x) /\ y - begin(x) \in 1 .. n
        /\ stream[y].val = chunks[m][y - begin(x)]
    BY <2>5, <1>3, <1>4, SameChunk
  <2>7. F <= y - begin(x)
    <3> DEFINE j == y - begin(x)
    <3>1. j \in 1 .. n /\ chunks[m][j] = "dd" BY <2>6, <1>2
    <3> HIDE DEF j
    <3>2. F <= j BY <3>1, <1>13 DEF F
    <3> QED BY <3>2 DEF j
  <2>8. y = f /\ y - x + 1 = F /\ y - begin(x) = y - x + 1
    BY <2>2, <2>4, <2>7, <1>4, <1>12
  <2> DEFINE s == y - x + 1
             a == stream[x]
             b == stream[y]
  <2>9. queued' = Append(queued, [first |-> a, last |-> b, size |-> s]) BY <1>2
  <2>10. /\ a.at = 1 /\ a.val = "ee" /\ b.msg = a.msg /\ b.at = s /\ s = F
         /\ IInv /\ CutAtFirstMark /\ chunks' = chunks
    BY <2>6, <2>8, <1>1, <1>2, <1>5, <1>11
  <2>11. F = FirstMark(chunks[a.msg]) BY DEF F
  <2> HIDE DEF s, a, b
  <2>12. CutAtFirstMark' BY <2>9, <2>10, <2>11, CutAppends
  <2> QED BY <2>12, <1>10
<1> QED BY <1>10, <1>14, <1>15

\* Where the bytes that are not parsed begin with a chunk, they are whole chunks.
LEMMA RestAtStart ==
  ASSUME chunks \in TupleOf(Chunk, MaxChunks), chunks' = chunks,
         NEW v \in Nat \ {0}, unparsed' = v, v \in DOMAIN stream => stream[v].at = 1
  PROVE  RestInv'
<1>1. stream' = stream BY DEF stream
<1>2. Len(stream) \in Nat /\ DOMAIN stream = 1 .. Len(stream) BY StreamType, LenProperties
<1>3. ASSUME NEW z \in DOMAIN stream, z >= v PROVE begin(z) + 1 >= v
  <2>1. /\ z \in Nat /\ begin(z) \in Nat /\ size(z) \in Nat /\ z = begin(z) + stream[z].at
        /\ stream[z].at \in 1 .. size(z)
    BY ChunkAround
  <2>2. CASE begin(z) + 1 < v
    <3>1. v \in Int /\ begin(z) < v /\ v <= begin(z) + size(z) /\ v - begin(z) # 1
      BY <2>1, <2>2, <1>3
    <3>2. v \in DOMAIN stream /\ stream[v].at = v - begin(z) BY <3>1, SameChunk
    <3> QED BY <3>1, <3>2
  <2> QED BY <2>1, <2>2
<1> QED BY <1>1, <1>3 DEF RestInv, begin

\* Data without a start mark does not have a part of a plain message in it.
LEMMA CutInvalid ==
  ASSUME CutInv, Roomy, MarksInPlace, InvalidData
  PROVE  RestInv' /\ CutAtFirstMark'
<1>1. IInv /\ RestInv /\ CutAtFirstMark BY DEF CutInv
<1>2. /\ chunks' = chunks /\ stream' = stream /\ Plain' = Plain /\ queued' = queued
      /\ arrived' = arrived /\ off' = 0
  BY DEF InvalidData, ev_nio_buf_reset, Buf!Reset, stream, Plain
<1> DEFINE u == unparsed
           v == arrived + 1
<1>3. /\ u \in Nat /\ arrived \in Nat /\ off \in Nat /\ u = arrived - off + 1 /\ u >= 1
      /\ Len(stream) \in Nat /\ DOMAIN stream = 1 .. Len(stream)
      /\ chunks \in TupleOf(Chunk, MaxChunks)
  BY <1>1, Numbers
<1>4. unparsed' = v /\ u <= v BY <1>2, <1>3 DEF unparsed
<1>5. \A z \in u .. arrived : stream[z].val # "ee"
  <2>1. Buf!FindChr("ee") = {} BY DEF InvalidData, Start
  <2>2. \A i \in Buf!Unread : mem[i].val # "ee" BY <2>1, <1>1, FindsTheFirst DEF IInv, TypeOK
  <2> QED BY <2>2, <1>1, PlaceInBuffer
<1>6. u \in DOMAIN stream /\ stream[u].at > 1 => stream[u].msg \notin Plain
  BY <1>1 DEF RestInv
<1>7. ASSUME NEW z \in DOMAIN stream, z >= v, stream[z].val = "ee" PROVE begin(z) + 1 >= v
  <2> DEFINE s == begin(z) + 1
  <2>1. s >= u
    <3>1. z >= u BY <1>3, <1>4, <1>7
    <3> QED BY <3>1, <1>1, <1>7 DEF RestInv, begin
  <2>2. s \in Nat /\ stream[s].val = "ee" BY <1>3, <1>7, StartInFront, ChunkAround
  <2> HIDE DEF s
  <2>3. ~(s \in u .. arrived) BY <2>2, <1>5
  <2> QED BY <2>1, <2>2, <2>3, <1>3 DEF s
<1>8. ASSUME v \in DOMAIN stream, stream[v].at > 1, stream[v].msg \in Plain PROVE FALSE
  <2> HIDE DEF u, v
  <2> DEFINE s == begin(v) + 1
  <2>1. stream[s].val = "ee" BY <1>3, <1>8, PlainMarks
  <2>2. /\ begin(v) \in Nat /\ size(v) \in Nat /\ v = begin(v) + stream[v].at
        /\ stream[v].at \in 1 .. size(v)
    BY <1>3, <1>8, ChunkAround
  <2>3. s \in Nat /\ s <= arrived BY <2>2, <1>3, <1>8 DEF v
  <2> HIDE DEF s
  <2>4. ~(s \in u .. arrived) BY <2>1, <1>5
  <2>5. begin(v) + 1 < u BY <2>3, <2>4, <1>3 DEF s
  <2>6. u \in Int /\ begin(v) < u /\ u <= begin(v) + size(v) /\ u - begin(v) > 1
    BY <2>2, <2>5, <1>3, <1>4
  <2>7. u \in DOMAIN stream /\ stream[u].msg = stream[v].msg /\ stream[u].at = u - begin(v)
    BY <2>6, <1>3, <1>8, SameChunk
  <2> QED BY <2>6, <2>7, <1>6, <1>8
<1> HIDE DEF u, v
<1>9. RestInv' BY <1>2, <1>4, <1>7, <1>8 DEF RestInv, begin
<1> QED BY <1>1, <1>2, <1>9, CutStays

\* A session's end skips the rest of the chunk that was being sent, and the
\* next session begins with a chunk of its own.
LEMMA SessionSkips ==
  ASSUME IInv, EndSession
  PROVE  /\ arrived' \in Nat /\ arrived <= arrived' /\ unparsed' = arrived' + 1
         /\ \A i \in DOMAIN stream : i > arrived => (stream[i].msg \in Pending <=> i <= arrived')
         /\ arrived' + 1 \in DOMAIN stream => stream[arrived' + 1].at = 1
<1>1. IInv OBVIOUS
<1> DEFINE a == arrived + 1
           D == {i \in a .. Len(stream) : stream[i].msg \in Pending}
<1>2. /\ arrived \in Nat /\ off \in Nat /\ off <= arrived /\ arrived <= Len(stream)
      /\ Len(stream) \in Nat /\ DOMAIN stream = 1 .. Len(stream)
      /\ chunks \in TupleOf(Chunk, MaxChunks)
  BY <1>1, Numbers DEF IInv, BytesInOrder
<1>3. arrived' = arrived + Cardinality(D) /\ off' = 0
  BY DEF EndSession, ev_nio_buf_reset, Buf!Reset
<1>4. Pending = {mem[i].msg : i \in Buf!Unread}
                  \cup IF arrived < Len(stream) /\ stream[a].at > 1
                       THEN {stream[a].msg} ELSE {}
  BY DEF Pending
<1>5. a \in Nat /\ a = arrived + 1 BY <1>2
<1> HIDE DEF a
<1>6. ASSUME NEW i \in D PROVE a \in DOMAIN stream /\ stream[a].at > 1 /\ stream[a].msg = stream[i].msg
  <2>1. i \in Nat /\ a <= i /\ i <= Len(stream) /\ i \in DOMAIN stream /\ a \in DOMAIN stream
    BY <1>2, <1>5
  <2>2. CASE stream[i].msg \in {mem[l].msg : l \in Buf!Unread}
    <3>1. PICK l \in Buf!Unread : mem[l].msg = stream[i].msg BY <2>2
    <3> DEFINE z == l - rptr + (arrived - off + 1)
    <3>2. z \in DOMAIN stream /\ stream[z].msg = stream[i].msg BY <3>1, <1>1, PlaceInStream
    <3>3. z \in Nat /\ z <= arrived
      <4>1. l \in rptr .. rptr + off - 1 /\ rptr \in Nat
        BY <1>1 DEF Buf!Unread, IInv, TypeOK, Buf!Sound
      <4>2. z \in Nat BY <3>2, <1>2
      <4> QED BY <4>1, <4>2, <1>2
    <3> HIDE DEF z
    <3>4. begin(z) = begin(i) BY <3>2, <2>1, <1>2, ChunkAround
    <3>5. /\ begin(z) \in Nat /\ size(z) \in Nat /\ z = begin(z) + stream[z].at
          /\ stream[z].at \in 1 .. size(z)
      BY <3>2, <1>2, ChunkAround
    <3>6. /\ size(i) \in Nat /\ i = begin(i) + stream[i].at /\ stream[i].at \in 1 .. size(i)
      BY <2>1, <1>2, ChunkAround
    <3>7. a \in Int /\ begin(i) < a /\ a <= begin(i) + size(i) /\ a - begin(i) > 1
      <4>1. begin(i) \in Nat /\ begin(i) < z BY <3>3, <3>4, <3>5
      <4>2. i <= begin(i) + size(i) /\ size(i) \in Nat BY <3>6, <4>1
      <4> QED BY <3>3, <4>1, <4>2, <2>1, <1>2, <1>5
    <3>8. stream[a].msg = stream[i].msg /\ stream[a].at = a - begin(i)
      BY <3>7, <2>1, <1>2, SameChunk
    <3> QED BY <3>7, <3>8, <2>1
  <2>3. CASE stream[i].msg \notin {mem[l].msg : l \in Buf!Unread}
    <3>1. stream[i].msg \in Pending OBVIOUS
    <3> QED BY <3>1, <2>1, <2>3, <1>4
  <2> QED BY <2>2, <2>3
<1> DEFINE v == arrived' + 1
<1>9. arrived' \in Nat => unparsed' = v
  <2>1. unparsed' = arrived' - off' + 1 BY DEF unparsed
  <2> QED BY <2>1, <1>3
<1>7. CASE a \in DOMAIN stream /\ stream[a].at > 1
  <2> DEFINE e == begin(a) + size(a)
  <2>1. /\ begin(a) \in Nat /\ size(a) \in Nat /\ a = begin(a) + stream[a].at
        /\ stream[a].at \in 1 .. size(a)
    BY <1>2, <1>7, ChunkAround
  <2>2. e \in Nat /\ a <= e BY <2>1
  <2>3. ASSUME NEW i \in D PROVE i \in a .. e
    <3>1. i \in DOMAIN stream /\ a <= i /\ i \in Int BY <1>2, <1>5
    <3>2. begin(i) = begin(a) /\ size(i) = size(a)
      BY <3>1, <1>2, <1>6, <1>7, <2>3, ChunkAround DEF size
    <3>3. i = begin(i) + stream[i].at /\ stream[i].at \in 1 .. size(i)
      BY <3>1, <1>2, ChunkAround
    <3> HIDE DEF D
    <3> QED BY <3>1, <3>2, <3>3, <2>1
  <2>4. ASSUME NEW i \in a .. e PROVE i \in D
    <3>1. i \in Int /\ begin(a) < i /\ i <= begin(a) + size(a) /\ a <= i
      BY <2>1, <2>2, <1>5
    <3>2. i \in DOMAIN stream /\ stream[i].msg = stream[a].msg
      BY <3>1, <1>2, <1>7, SameChunk
    <3>3. arrived < Len(stream) BY <1>2, <1>5, <1>7
    <3>4. stream[a].msg \in Pending BY <3>3, <1>4, <1>7
    <3> QED BY <3>1, <3>2, <3>4, <1>2
  <2>5. D = a .. e BY <2>3, <2>4
  <2>6. Cardinality(D) = e - a + 1
    <3> HIDE DEF D, e
    <3> QED BY <2>2, <2>5, <1>5, FS_Interval
  <2>7. arrived' = e BY <2>2, <2>6, <1>2, <1>3, <1>5
  <2> HIDE DEF D
  <2>8. ASSUME v \in DOMAIN stream, stream[v].at # 1 PROVE FALSE
    <3>1. /\ begin(v) \in Nat /\ size(v) \in Nat /\ v = begin(v) + stream[v].at
          /\ stream[v].at \in 1 .. size(v)
      BY <1>2, <2>8, ChunkAround
    <3>2. v = e + 1 BY <2>7
    <3> HIDE DEF v, e
    <3>3. e \in Int /\ begin(v) < e /\ e <= begin(v) + size(v) BY <3>1, <3>2, <2>2, <2>8
    <3>4. stream[e].msg = stream[v].msg BY <3>3, <1>2, <2>8, SameChunk
    <3>5. begin(a) < e /\ e <= begin(a) + size(a) BY <2>1, <2>2 DEF e
    <3>6. stream[e].msg = stream[a].msg BY <3>3, <3>5, <1>2, <1>7, SameChunk
    <3>7. begin(v) = begin(a) /\ size(v) = size(a)
      BY <3>4, <3>6, <1>2, <1>7, <2>8, ChunkAround DEF size
    <3> QED BY <3>1, <3>2, <3>7, <2>1, <2>2 DEF e
  <2>9. arrived' \in Nat /\ arrived <= arrived' BY <2>2, <2>7, <1>2, <1>5
  <2>10. ASSUME NEW i \in DOMAIN stream, i > arrived
         PROVE  stream[i].msg \in Pending <=> i <= arrived'
    <3>1. i \in a .. Len(stream) BY <2>10, <1>2, <1>5
    <3>2. stream[i].msg \in Pending <=> i \in D BY <3>1 DEF D
    <3> HIDE DEF e
    <3> QED BY <3>1, <3>2, <2>2, <2>5, <2>7, <1>2, <1>5
  <2> QED BY <2>8, <2>9, <2>10, <1>9
<1>8. CASE ~(a \in DOMAIN stream /\ stream[a].at > 1)
  <2>1. D = {} BY <1>6, <1>8
  <2> HIDE DEF D
  <2>2. arrived' = arrived
    <3>1. Cardinality(D) = 0 BY <2>1, FS_EmptySet
    <3> QED BY <3>1, <1>2, <1>3
  <2>3. v = a /\ arrived' \in Nat /\ arrived <= arrived' BY <2>2, <1>2, <1>5
  <2>4. v \in DOMAIN stream => stream[v].at = 1
    <3>1. SUFFICES ASSUME a \in DOMAIN stream PROVE stream[a].at = 1 BY <2>3
    <3>2. stream[a].at \in 1 .. size(a) /\ size(a) \in Nat BY <3>1, <1>2, ChunkAround
    <3> QED BY <3>1, <3>2, <1>8
  <2>5. ASSUME NEW i \in DOMAIN stream, i > arrived
        PROVE  stream[i].msg \in Pending <=> i <= arrived'
    <3>1. i \in a .. Len(stream) BY <2>5, <1>2, <1>5
    <3>2. stream[i].msg \in Pending <=> i \in D BY <3>1 DEF D
    <3> QED BY <3>1, <3>2, <2>1, <2>2, <1>2, <1>5
  <2> QED BY <2>3, <2>4, <2>5, <1>9
<1> QED BY <1>7, <1>8

\* A session's end leaves what has not been sent by then: whole chunks.
LEMMA CutEnd ==
  ASSUME CutInv, Roomy, EndSession, chunks' = chunks, queued' = queued
  PROVE  RestInv' /\ CutAtFirstMark'
<1>1. IInv /\ CutAtFirstMark BY DEF CutInv
<1>2. chunks \in TupleOf(Chunk, MaxChunks) BY <1>1, Numbers
<1> DEFINE v == arrived' + 1
<1>3. v \in Nat \ {0} /\ unparsed' = v /\ (v \in DOMAIN stream => stream[v].at = 1)
  BY <1>1, SessionSkips
<1> HIDE DEF v
<1> QED BY <1>1, <1>2, <1>3, RestAtStart, CutStays

\* Before anything was sent.
LEMMA InitCut == Init => CutInv
<1> SUFFICES ASSUME Init PROVE CutInv OBVIOUS
<1>1. IInv BY InitIInv
<1>2. chunks \in TupleOf(Chunk, MaxChunks) /\ arrived = 0 /\ off = 0 /\ queued = <<>>
  BY DEF Init, Buf!Init
<1>3. unparsed = 1 BY <1>2 DEF unparsed
<1>4. ASSUME NEW z \in DOMAIN stream PROVE begin(z) + 1 >= 1
  <2>1. begin(z) \in Nat BY <1>2, ChunkAround
  <2> QED BY <2>1
<1>5. 1 \in DOMAIN stream => ~(stream[1].at > 1)
  <2>1. SUFFICES ASSUME 1 \in DOMAIN stream PROVE ~(stream[1].at > 1) OBVIOUS
  <2>2. /\ begin(1) \in Nat /\ 1 = begin(1) + stream[1].at /\ size(1) \in Nat
        /\ stream[1].at \in 1 .. size(1)
    BY <2>1, <1>2, ChunkAround
  <2> QED BY <2>2
<1>6. RestInv BY <1>3, <1>4, <1>5 DEF RestInv, begin
<1>7. CutAtFirstMark BY <1>2 DEF CutAtFirstMark
<1> QED BY <1>1, <1>6, <1>7 DEF CutInv

\* A read parses nothing.
LEMMA ReadKeepsUnparsed ==
  ASSUME IInv, NEW n \in Nat \ {0}, ReadSome(n)
  PROVE  unparsed' = unparsed
<1> DEFINE new == SubSeq(stream, arrived + 1, arrived + n)
<1>1. arrived \in Nat /\ Len(stream) \in Nat /\ off \in Nat /\ stream \in Seq(Byte)
  BY Numbers, StreamType
<1>2. Len(new) = n
  <2>1. arrived + 1 \in 1 .. Len(stream) /\ arrived + n \in 1 .. Len(stream)
        /\ arrived + n \in 0 .. Len(stream) /\ arrived + 1 <= arrived + n
    BY <1>1 DEF ReadSome
  <2>2. (arrived + n) - (arrived + 1) + 1 = n BY <1>1
  <2> QED BY <1>1, <2>1, <2>2, SubSeqProperties
<1>3. Buf!Read(new) /\ arrived' = arrived + n BY DEF ReadSome
<1> HIDE DEF new
<1>4. off' = off + n BY <1>2, <1>3 DEF Buf!Read
<1> QED BY <1>1, <1>3, <1>4 DEF unparsed

\* Every step of the net thread and of its clients.
LEMMA NextCut == MarksInPlace /\ CutInv /\ [Next]_vars => CutInv'
<1> SUFFICES ASSUME MarksInPlace, CutInv, [Next]_vars PROVE CutInv' OBVIOUS
<1>1. IInv /\ IInv' BY NextIInv DEF CutInv
<1>2. SUFFICES ASSUME Roomy PROVE RestInv' /\ CutAtFirstMark' BY <1>1 DEF CutInv
<1>3. RestInv /\ CutAtFirstMark BY <1>2 DEF CutInv
<1>4. ASSUME chunks' = chunks, queued' = queued, unparsed' = unparsed
      PROVE  RestInv' /\ CutAtFirstMark'
  <2>1. stream' = stream /\ Plain' = Plain BY <1>4 DEF stream, Plain
  <2>2. RestInv' BY <2>1, <1>3, <1>4 DEF RestInv
  <2> QED BY <2>2, <1>3, <1>4, CutStays
<1>5. ASSUME NEW n \in 1 .. MaxChunks * MaxLen, ReadSome(n) PROVE RestInv' /\ CutAtFirstMark'
  <2>1. n \in Nat \ {0}
    <3>1. MaxChunks * MaxLen \in Nat BY NetAssumption
    <3> QED BY <3>1
  <2>2. unparsed' = unparsed BY <2>1, <1>1, <1>5, ReadKeepsUnparsed
  <2> QED BY <2>2, <1>4, <1>5 DEF ReadSome
<1>6. CASE ReadFails BY <1>2, <1>6, CutEnd DEF ReadFails
<1>7. CASE InvalidData BY <1>2, <1>7, CutInvalid
<1>8. CASE NoTail BY <1>4, <1>8 DEF NoTail, evBuf, unparsed
<1>9. CASE HandleMsg BY <1>2, <1>9, CutHandMsg
<1>10. CASE CrashMsg BY <1>2, <1>10, CutEnd DEF CrashMsg
<1>11. CASE RejectMsg BY <1>2, <1>11, CutEnd DEF RejectMsg
<1>12. CASE UNCHANGED vars BY <1>4, <1>12 DEF vars, evBuf, unparsed
<1> QED BY <1>5, <1>6, <1>7, <1>8, <1>9, <1>10, <1>11, <1>12 DEF Next

---------------------------------------------------------------------------
(* Which messages are handed on *)

\* A plain message has been read up to some place if its end mark has.
LEMMA PlainEnd ==
  ASSUME chunks \in TupleOf(Chunk, MaxChunks), NEW k \in Plain
  PROVE  \E i \in DOMAIN stream :
           /\ stream[i].msg = k /\ stream[i].val = "dd"
           /\ \A z \in Nat : k \in Before(z) <=> i < z
<1>1. k \in DOMAIN chunks BY DEF Plain
<1>2. PICK i \in DOMAIN stream : stream[i].msg = k /\ stream[i].at = size(i)
  BY <1>1, ChunkEnds
<1>3. stream[i].val = "dd" BY <1>2, PlainMarks
<1>4. /\ i \in Nat /\ begin(i) \in Nat /\ i = begin(i) + stream[i].at
  BY ChunkAround
<1>5. ASSUME NEW l \in DOMAIN stream, stream[l].msg = k PROVE l \in Nat /\ l <= i
  <2>1. /\ l \in Nat /\ l = begin(l) + stream[l].at /\ stream[l].at \in 1 .. size(l)
        /\ size(l) \in Nat
    BY ChunkAround
  <2>2. begin(l) = begin(i) BY <1>2, <1>5, ChunkAround
  <2>3. size(l) = size(i) BY <1>2, <1>5 DEF size
  <2> QED BY <2>1, <2>2, <2>3, <1>2, <1>4
<1>6. ASSUME NEW z \in Nat PROVE k \in Before(z) <=> i < z
  <2>1. k \in Before(z) => i < z BY <1>2 DEF Before
  <2>2. ASSUME i < z, NEW l \in DOMAIN stream, stream[l].msg = k PROVE l < z
    <3>1. l \in Nat /\ l <= i BY <1>5, <2>2
    <3> QED BY <3>1, <2>2, <1>4
  <2>3. i < z => k \in Before(z) BY <2>2, <1>1 DEF Before
  <2> QED BY <2>1, <2>3
<1> QED BY <1>2, <1>3, <1>6

\* Where there is no end mark between two places, no plain message is read
\* between them.
LEMMA NoneBetween ==
  ASSUME chunks \in TupleOf(Chunk, MaxChunks), NEW u \in Nat, NEW v \in Nat, u <= v,
         \A k \in Plain : \A i \in DOMAIN stream :
           stream[i].msg = k /\ stream[i].val = "dd" => ~(u <= i /\ i < v)
  PROVE  Before(v) \cap Plain = Before(u) \cap Plain
<1> SUFFICES ASSUME NEW k \in Plain PROVE k \in Before(v) <=> k \in Before(u) OBVIOUS
<1>1. PICK i \in DOMAIN stream :
        /\ stream[i].msg = k /\ stream[i].val = "dd"
        /\ \A z \in Nat : k \in Before(z) <=> i < z
  BY PlainEnd
<1>2. ~(u <= i /\ i < v) BY <1>1
<1>3. i \in Nat BY ChunkAround
<1> QED BY <1>1, <1>2, <1>3

\* What is looked for in vain is not among the bytes that have arrived and are
\* not parsed.
LEMMA FoundNowhere ==
  ASSUME IInv, NEW c, Buf!FindChr(c) = {}
  PROVE  \A z \in unparsed .. arrived : stream[z].val # c
<1>1. \A i \in Buf!Unread : mem[i].val # c BY FindsTheFirst DEF IInv, TypeOK
<1> QED BY <1>1, PlaceInBuffer

\* Nothing is handed on and no plain message is parsed that is not dropped.
LEMMA OnceStays ==
  ASSUME OncePerMessage(Parsed), chunks' = chunks, queued' = queued,
         (Parsed' \cap Plain) \ dropped' = (Parsed \cap Plain) \ dropped
  PROVE  OncePerMessage(Parsed)'
<1>1. Plain' = Plain BY DEF Plain
<1>2. Whole' = Whole BY <1>1 DEF Whole
<1> QED BY <1>1, <1>2 DEF OncePerMessage

\* The chunks that a session's end takes away have been read in part.
LEMMA PendingIs ==
  ASSUME IInv
  PROVE  \A k : k \in Pending <=>
           \E i \in DOMAIN stream :
             /\ stream[i].msg = k /\ unparsed <= i
             /\ i <= arrived \/ (i = arrived + 1 /\ stream[i].at > 1)
<1>1. /\ unparsed \in Nat /\ arrived \in Nat /\ arrived <= Len(stream) /\ off \in Nat
      /\ unparsed = arrived - off + 1 /\ Len(stream) \in Nat /\ DOMAIN stream = 1 .. Len(stream)
  BY Numbers
<1>2. rptr \in Nat /\ Buf!Unread = rptr .. rptr + off - 1
  BY DEF IInv, TypeOK, Buf!Sound, Buf!Unread
<1>3. Pending = {mem[i].msg : i \in Buf!Unread}
                  \cup IF arrived < Len(stream) /\ stream[arrived + 1].at > 1
                       THEN {stream[arrived + 1].msg} ELSE {}
  BY DEF Pending
<1>4. ASSUME NEW i \in Buf!Unread
      PROVE  \E z \in DOMAIN stream : stream[z].msg = mem[i].msg /\ unparsed <= z /\ z <= arrived
  <2> DEFINE z == i - rptr + (arrived - off + 1)
  <2>1. z \in DOMAIN stream /\ mem[i] = stream[z] BY PlaceInStream
  <2>2. unparsed <= z /\ z <= arrived BY <1>1, <1>2
  <2> HIDE DEF z
  <2> QED BY <2>1, <2>2
<1>5. ASSUME NEW z \in DOMAIN stream, unparsed <= z, z <= arrived
      PROVE  stream[z].msg \in {mem[i].msg : i \in Buf!Unread}
  <2> DEFINE i == z - unparsed + rptr
  <2>1. z \in unparsed .. arrived BY <1>1, <1>5
  <2>2. i \in Buf!Unread /\ mem[i] = stream[z] BY <2>1, PlaceInBuffer
  <2> HIDE DEF i
  <2> QED BY <2>2
<1> DEFINE a == arrived + 1
<1>6. unparsed <= a /\ (a \in DOMAIN stream <=> arrived < Len(stream)) BY <1>1
<1> HIDE DEF a
<1>7. Pending = {mem[i].msg : i \in Buf!Unread}
                  \cup IF a \in DOMAIN stream /\ stream[a].at > 1 THEN {stream[a].msg} ELSE {}
  BY <1>3, <1>6 DEF a
<1>8. \A k : k \in Pending <=> \E i \in DOMAIN stream :
        stream[i].msg = k /\ unparsed <= i /\ (i <= arrived \/ (i = a /\ stream[i].at > 1))
  BY <1>4, <1>5, <1>6, <1>7
<1> QED BY <1>8 DEF a

\* What a session's end takes away is dropped and, from then on, parsed.
LEMMA OnceEnd ==
  ASSUME IInv, OnceInv, EndSession, chunks' = chunks, queued' = queued
  PROVE  OnceInv'
<1>1. /\ unparsed \in Nat /\ arrived \in Nat /\ off \in Nat /\ unparsed <= arrived + 1
      /\ chunks \in TupleOf(Chunk, MaxChunks)
  BY Numbers
<1> DEFINE v == arrived' + 1
<1>2. /\ arrived' \in Nat /\ arrived <= arrived' /\ unparsed' = v
      /\ \A i \in DOMAIN stream : i > arrived => (stream[i].msg \in Pending <=> i <= arrived')
  BY SessionSkips
<1>3. stream' = stream /\ dropped' = dropped \cup Pending BY DEF stream, EndSession
<1>4. v \in Nat /\ \A i \in Nat : (i < v <=> i <= arrived')
  <2> DEFINE b == arrived'
  <2>1. b \in Nat BY <1>2
  <2> HIDE DEF b
  <2>2. b + 1 \in Nat /\ \A i \in Nat : (i < b + 1 <=> i <= b) BY <2>1
  <2> QED BY <2>2 DEF b
<1>5. DOMAIN stream \subseteq Nat BY <1>1, ChunkAround
<1> HIDE DEF v
<1>6. Parsed' = Before(v) BY <1>2, <1>3 DEF Parsed, Before
<1>7. ASSUME NEW k \in Pending PROVE k \in Before(v) /\ k \notin Parsed
  <2>1. PICK i \in DOMAIN stream :
          /\ stream[i].msg = k /\ unparsed <= i
          /\ i <= arrived \/ (i = arrived + 1 /\ stream[i].at > 1)
    BY <1>7, PendingIs
  <2>2. k \in DOMAIN chunks BY <2>1, <1>1, ChunkAround
  <2>3. k \notin Parsed BY <2>1, <1>1, <1>5 DEF Parsed, Before
  <2>4. ASSUME NEW l \in DOMAIN stream, stream[l].msg = k PROVE l < v
    <3>1. l \in Nat BY <1>5
    <3>2. l > arrived => l <= arrived' BY <2>4, <1>2
    <3> QED BY <3>1, <3>2, <1>1, <1>2, <1>4
  <2> QED BY <2>2, <2>3, <2>4 DEF Before
<1>8. ASSUME NEW k \in Before(v), k \notin Parsed PROVE k \in Pending
  <2>1. PICK i \in DOMAIN stream : stream[i].msg = k /\ ~(i < unparsed)
    BY <1>8 DEF Parsed, Before
  <2>2. i \in Nat /\ unparsed <= i BY <2>1, <1>1, <1>5
  <2>3. i < v BY <2>1 DEF Before
  <2>4. i > arrived => k \in Pending BY <2>1, <2>2, <2>3, <1>2, <1>4
  <2>5. i <= arrived => k \in Pending BY <2>1, <2>2, PendingIs
  <2> QED BY <2>2, <2>4, <2>5, <1>1
<1>9. Parsed \subseteq Before(v)
  <2> SUFFICES ASSUME NEW k \in DOMAIN chunks, NEW i \in DOMAIN stream, i < unparsed
               PROVE  i < v
    BY DEF Parsed, Before
  <2> QED BY <1>1, <1>2, <1>4, <1>5
<1>10. Parsed' = Parsed \cup Pending BY <1>6, <1>7, <1>8, <1>9
<1>11. Parsed \cap Pending = {} BY <1>7
<1>12. (Parsed' \cap Plain) \ dropped' = (Parsed \cap Plain) \ dropped
  BY <1>3, <1>10, <1>11
<1>13. OncePerMessage(Parsed)' BY <1>12, OnceStays DEF OnceInv
<1>14. dropped' \subseteq Parsed' BY <1>3, <1>10 DEF OnceInv
<1>15. unparsed' .. arrived' = {} BY <1>2, <1>4
<1> QED BY <1>13, <1>14, <1>15 DEF OnceInv

\* Data without a start mark does not have the end of a plain message in it.
LEMMA OnceInvalid ==
  ASSUME IInv, RestInv, OnceInv, InvalidData
  PROVE  OnceInv'
<1>1. /\ unparsed \in Nat /\ arrived \in Nat /\ off \in Nat /\ unparsed <= arrived + 1
      /\ chunks \in TupleOf(Chunk, MaxChunks)
  BY Numbers
<1> DEFINE u == unparsed
           v == arrived + 1
<1>2. /\ chunks' = chunks /\ stream' = stream /\ queued' = queued /\ dropped' = dropped
      /\ arrived' = arrived /\ unparsed' = v
  <2>1. /\ chunks' = chunks /\ queued' = queued /\ dropped' = dropped /\ arrived' = arrived
        /\ off' = 0
    BY DEF InvalidData, ev_nio_buf_reset, Buf!Reset
  <2>2. unparsed' = arrived' - off' + 1 BY DEF unparsed
  <2> QED BY <2>1, <2>2, <1>1 DEF stream
<1>3. \A z \in u .. arrived : stream[z].val # "ee"
  <2>1. Buf!FindChr("ee") = {} BY DEF InvalidData, Start
  <2> QED BY <2>1, FoundNowhere
<1>4. u \in DOMAIN stream /\ stream[u].at > 1 => stream[u].msg \notin Plain BY DEF RestInv
<1>5. v \in Nat /\ u \in Nat /\ u <= v BY <1>1
<1> HIDE DEF u
<1>6. ASSUME NEW i \in DOMAIN stream, stream[i].msg \in Plain, u <= i, i < v PROVE FALSE
  <2> DEFINE s == begin(i) + 1
  <2>1. stream[s].val = "ee" BY <1>1, <1>6, PlainMarks
  <2>2. /\ i \in Nat /\ begin(i) \in Nat /\ size(i) \in Nat /\ i = begin(i) + stream[i].at
        /\ stream[i].at \in 1 .. size(i)
    BY <1>1, ChunkAround
  <2>3. s \in Nat /\ s <= i BY <2>2
  <2> HIDE DEF s
  <2>4. s < u BY <2>1, <2>2, <2>3, <1>1, <1>3, <1>5, <1>6
  <2>5. u \in Int /\ begin(i) < u /\ u <= begin(i) + size(i) /\ u - begin(i) > 1
    BY <2>2, <2>4, <1>5, <1>6 DEF s
  <2>6. u \in DOMAIN stream /\ stream[u].msg = stream[i].msg /\ stream[u].at = u - begin(i)
    BY <2>5, <1>1, SameChunk
  <2> QED BY <2>5, <2>6, <1>4, <1>6
<1>7. Before(v) \cap Plain = Parsed \cap Plain
  <2> HIDE DEF v
  <2>1. Before(v) \cap Plain = Before(u) \cap Plain BY <1>1, <1>5, <1>6, NoneBetween
  <2> QED BY <2>1 DEF Parsed, u
<1>8. Parsed' = Before(v) BY <1>2 DEF Parsed, Before
<1>9. OncePerMessage(Parsed)' BY <1>2, <1>7, <1>8, OnceStays DEF OnceInv
<1>10. dropped' \subseteq Parsed'
  <2> SUFFICES ASSUME NEW k \in DOMAIN chunks, NEW i \in DOMAIN stream, i < u PROVE i < v
    BY <1>2, <1>8 DEF OnceInv, Parsed, Before, u
  <2>1. i \in Nat BY <1>1, ChunkAround
  <2> QED BY <2>1, <1>5
<1>11. unparsed' .. arrived' = {} BY <1>1, <1>2
<1> QED BY <1>9, <1>10, <1>11 DEF OnceInv

\* One more record of the history, and the ones before it.
LEMMA HistoryGrows ==
  ASSUME IInv, NEW a, NEW b, NEW s,
         queued' = Append(queued, [first |-> a, last |-> b, size |-> s])
  PROVE  \E n \in Nat :
           /\ DOMAIN queued = 1 .. n /\ DOMAIN queued' = 1 .. n + 1
           /\ \A k \in 1 .. n : queued'[k] = queued[k]
           /\ queued'[n + 1] = [first |-> a, last |-> b, size |-> s]
<1> DEFINE q == [first |-> a, last |-> b, size |-> s]
           n == Len(queued)
<1>1. n \in Nat /\ DOMAIN queued = 1 .. n BY DEF IInv, TypeOK
<1>2. queued' = [k \in 1 .. n + 1 |-> IF k = n + 1 THEN q ELSE queued[k]]
  <2> HIDE DEF q
  <2> QED BY <1>1 DEF q
<1> HIDE DEF n, q
<1>3. n + 1 \in 1 .. n + 1 /\ \A k \in 1 .. n : k \in 1 .. n + 1 /\ k # n + 1 BY <1>1
<1>4. \A k \in 1 .. n : queued'[k] = queued[k] BY <1>2, <1>3
<1>5. queued'[n + 1] = q /\ DOMAIN queued' = 1 .. n + 1 BY <1>2, <1>3
<1> QED BY <1>1, <1>4, <1>5 DEF q

\* The message that is handed on is the one that gets parsed, if it is plain,
\* and it comes behind all that were.
LEMMA OnceHandMsg ==
  ASSUME CutInv, Roomy, MarksInPlace, OnceInv, HandleMsg
  PROVE  OnceInv'
<1>1. IInv BY DEF CutInv
<1>2. PICK x \in unparsed .. arrived, y \in unparsed .. arrived :
           /\ queued' = Append(queued, [first |-> stream[x], last |-> stream[y],
                                        size |-> y - x + 1])
           /\ stream[x].val = "ee" /\ stream[y].val = "dd" /\ x <= y + 1
           /\ \A z \in unparsed .. arrived : /\ stream[z].val = "ee" => x <= z
                                             /\ stream[z].val = "dd" => y <= z
           /\ unparsed' = y + 1
  BY <1>1, Handed
<1>3. /\ unparsed \in Nat /\ arrived \in Nat /\ arrived <= Len(stream) /\ Len(stream) \in Nat
      /\ DOMAIN stream = 1 .. Len(stream) /\ unparsed >= 1
      /\ chunks \in TupleOf(Chunk, MaxChunks)
  BY <1>1, Numbers
<1> DEFINE u == unparsed
           v == y + 1
           s == y - x + 1
           m == stream[x].msg
<1>4. /\ x \in Nat /\ y \in Nat /\ u <= x /\ u <= y /\ y <= arrived /\ s \in Int
      /\ x \in DOMAIN stream /\ y \in DOMAIN stream /\ v \in Nat /\ u \in Nat /\ u <= v
  BY <1>2, <1>3
<1>5. /\ chunks' = chunks /\ stream' = stream /\ Plain' = Plain /\ dropped' = dropped
      /\ arrived' = arrived /\ pc' = IF off' > 0 THEN "parse" ELSE "loop"
  BY DEF HandleMsg, Hand, stream, Plain
<1>6. PICK n \in Nat :
           /\ DOMAIN queued = 1 .. n /\ DOMAIN queued' = 1 .. n + 1
           /\ \A k \in 1 .. n : queued'[k] = queued[k]
           /\ queued'[n + 1] = [first |-> stream[x], last |-> stream[y], size |-> s]
  <2> DEFINE a == stream[x]
             b == stream[y]
  <2>1. queued' = Append(queued, [first |-> a, last |-> b, size |-> s])
    BY <1>2
  <2> HIDE DEF a, b, s
  <2>2. \E n \in Nat :
           /\ DOMAIN queued = 1 .. n /\ DOMAIN queued' = 1 .. n + 1
           /\ \A k \in 1 .. n : queued'[k] = queued[k]
           /\ queued'[n + 1] = [first |-> a, last |-> b, size |-> s]
    BY <2>1, <1>1, HistoryGrows
  <2> QED BY <2>2 DEF a, b
<1> DEFINE e == n + 1
<1>7. e \in Nat /\ DOMAIN queued' = (1 .. n) \cup {e} /\ \A k \in 1 .. n : k < e /\ k # e
  BY <1>6
<1>8. /\ queued'[e].first = stream[x] /\ queued'[e].last = stream[y] /\ queued'[e].size = s
  BY <1>6
<1>9. \/ s = 0 /\ stream[y].msg \notin Plain
      \/ stream[y].msg = m /\ stream[y].at = s
  <2>1. CutAtFirstMark' BY CutHandMsg
  <2>2. e \in DOMAIN queued' BY <1>7
  <2> HIDE DEF e, s
  <2> QED BY <2>1, <2>2, <1>5, <1>8 DEF CutAtFirstMark
<1>10. ASSUME NEW i \in DOMAIN stream, stream[i].val = "dd", u <= i, i < v PROVE i = y
  <2>1. i \in u .. arrived BY <1>3, <1>4, <1>10
  <2>2. y <= i BY <2>1, <1>2, <1>10
  <2> QED BY <2>1, <2>2, <1>3, <1>4, <1>10
<1>11. Parsed' = Before(v) BY <1>2, <1>5 DEF Parsed, Before
<1>12. Parsed \subseteq Parsed'
  <2>1. \A i \in DOMAIN stream : i < u => i < v BY <1>3, <1>4
  <2> HIDE DEF v
  <2> QED BY <2>1, <1>11 DEF Parsed, Before
<1>13. dropped' \subseteq Parsed' BY <1>5, <1>12 DEF OnceInv
<1>14. pc' = "loop" => \A z \in unparsed' .. arrived' : stream'[z].val # "dd"
  <2> SUFFICES ASSUME pc' = "loop" PROVE unparsed' .. arrived' = {} OBVIOUS
  <2>1. unparsed' = arrived' - off' + 1 BY DEF unparsed
  <2>2. off' \in Nat
    <3>1. IInv' BY <1>1, NextIInv DEF Next
    <3> QED BY <3>1 DEF IInv, TypeOK, Buf!Sound
  <2>3. off' = 0 BY <2>2, <1>5
  <2> QED BY <2>1, <2>3, <1>3, <1>5
<1> HIDE DEF s, v, e
<1>15. CASE m \in Plain /\ stream[y].msg = m /\ s > 0
  <2>1. stream[y].val = "dd" BY <1>2
  <2>2. PICK i \in DOMAIN stream :
          /\ stream[i].msg = m /\ stream[i].val = "dd"
          /\ \A z \in Nat : m \in Before(z) <=> i < z
    BY <1>3, <1>15, PlainEnd
  <2>3. m \notin Parsed
    <3>1. x \in DOMAIN stream /\ ~(x < u) /\ stream[x].msg = m BY <1>3, <1>4
    <3> QED BY <3>1 DEF Parsed, Before
  <2>4. i = y
    <3>1. stream[y].at = size(y) BY <2>1, <1>3, <1>4, <1>15, PlainMarks
    <3>2. stream[i].at = size(i) BY <2>2, <1>3, <1>15, PlainMarks
    <3>3. size(i) = size(y) BY <2>2, <1>15 DEF size
    <3>4. begin(i) = begin(y) BY <2>2, <1>3, <1>4, <1>15, ChunkAround
    <3>5. i = begin(i) + stream[i].at /\ y = begin(y) + stream[y].at
      BY <1>3, <1>4, ChunkAround
    <3> QED BY <3>1, <3>2, <3>3, <3>4, <3>5
  <2>5. m \in Before(v) BY <2>2, <2>4, <1>4 DEF v
  <2>6. ASSUME NEW k \in Plain, k \in Before(v), k # m PROVE k \in Parsed
    <3>1. PICK l \in DOMAIN stream :
            /\ stream[l].msg = k /\ stream[l].val = "dd"
            /\ \A z \in Nat : k \in Before(z) <=> l < z
      BY <1>3, <2>6, PlainEnd
    <3>2. l < v /\ l # y BY <3>1, <2>6, <1>4, <1>15
    <3>3. ~(u <= l) BY <3>1, <3>2, <1>10
    <3>4. l < u BY <3>3, <1>3, <1>4
    <3> QED BY <3>1, <3>4, <1>4 DEF Parsed
  <2>7. Parsed' \cap Plain = (Parsed \cap Plain) \cup {m}
    BY <2>5, <2>6, <1>11, <1>12, <1>15
  <2>8. m \notin dropped BY <2>3 DEF OnceInv
  <2>9. (Parsed' \cap Plain) \ dropped' = ((Parsed \cap Plain) \ dropped) \cup {m}
    BY <2>7, <2>8, <1>5
  <2>10. Whole' = Whole \cup {e}
    BY <1>5, <1>6, <1>7, <1>8, <1>15 DEF Whole
  <2>11. Whole \subseteq 1 .. n BY <1>6 DEF Whole
  <2>12. \A j \in Whole : queued'[j] = queued[j] BY <2>11, <1>6
  <2>13. {queued'[j].first.msg : j \in Whole'} = {queued[j].first.msg : j \in Whole} \cup {m}
    BY <2>10, <2>12, <1>8
  <2>14. ASSUME NEW j \in Whole PROVE queued[j].first.msg < m
    <3>1. queued[j].first.msg \in (Parsed \cap Plain) \ dropped
      BY DEF OnceInv, OncePerMessage
    <3> DEFINE k == queued[j].first.msg
    <3>2. k \in Plain /\ k \in Before(u) /\ k # m BY <3>1, <2>3 DEF Parsed
    <3> HIDE DEF k
    <3>3. PICK l \in DOMAIN stream :
            /\ stream[l].msg = k /\ stream[l].val = "dd"
            /\ \A z \in Nat : k \in Before(z) <=> l < z
      BY <1>3, <3>2, PlainEnd
    <3>4. l < u BY <3>2, <3>3, <1>4
    <3>5. l <= x BY <3>4, <1>3, <1>4
    <3>6. k <= m BY <3>3, <3>5, <1>3, <1>4, ChunksInTurn
    <3>7. k \in Nat /\ m \in Nat
      <4>1. DOMAIN chunks = 1 .. MaxChunks BY <1>3, NetAssumption DEF TupleOf
      <4>2. k \in DOMAIN chunks BY <3>2 DEF Plain
      <4>3. m \in DOMAIN chunks BY <1>15 DEF Plain
      <4> QED BY <4>1, <4>2, <4>3
    <3>8. k < m BY <3>2, <3>6, <3>7
    <3> QED BY <3>8 DEF k
  <2>15. ASSUME NEW i2 \in Whole', NEW j2 \in Whole', i2 < j2
         PROVE  queued'[i2].first.msg < queued'[j2].first.msg
    <3>1. CASE j2 = e
      <4>1. i2 \in Whole BY <3>1, <2>10, <2>15, <1>7
      <4> QED BY <3>1, <4>1, <2>12, <2>14, <1>8
    <3>2. CASE j2 # e
      <4>1. j2 \in Whole BY <3>2, <2>10
      <4>2. j2 < e /\ j2 \in 1 .. n BY <4>1, <2>11, <1>7
      <4>3. i2 # e BY <4>2, <2>15, <1>6, <1>7
      <4>4. i2 \in Whole BY <4>3, <2>10
      <4> QED BY <4>1, <4>4, <2>12, <2>15 DEF OnceInv, OncePerMessage
    <3> QED BY <3>1, <3>2
  <2>16. OncePerMessage(Parsed)'
    BY <2>9, <2>13, <2>15, <1>5 DEF OnceInv, OncePerMessage
  <2> QED BY <2>16, <1>13, <1>14 DEF OnceInv
<1>16. CASE ~(m \in Plain /\ stream[y].msg = m /\ s > 0)
  <2>1. stream[y].msg \notin Plain
    <3>1. stream[y].at > 0
      <4>1. stream[y].at \in 1 .. size(y) /\ size(y) \in Nat BY <1>3, <1>4, ChunkAround
      <4> QED BY <4>1
    <3> QED BY <3>1, <1>9, <1>16
  <2>2. Before(v) \cap Plain = Parsed \cap Plain
    <3>1. Before(v) \cap Plain = Before(u) \cap Plain
      BY <2>1, <1>3, <1>4, <1>10, NoneBetween
    <3> QED BY <3>1 DEF Parsed
  <2>3. (Parsed' \cap Plain) \ dropped' = (Parsed \cap Plain) \ dropped
    BY <2>2, <1>5, <1>11
  <2>4. ~(s > 0 /\ m \in Plain) BY <2>1, <1>4, <1>9
  <2>5. Whole' = Whole
    BY <2>4, <1>5, <1>6, <1>7, <1>8 DEF Whole
  <2>6. Whole \subseteq 1 .. n BY <1>6 DEF Whole
  <2>7. \A j \in Whole : queued'[j] = queued[j] BY <2>6, <1>6
  <2>8. OncePerMessage(Parsed)'
    BY <2>3, <2>5, <2>7, <1>5 DEF OnceInv, OncePerMessage
  <2> QED BY <2>8, <1>13, <1>14 DEF OnceInv
<1> QED BY <1>15, <1>16

\* Every step of the net thread and of its clients.
LEMMA NextOnce == MarksInPlace /\ QueueInv /\ [Next]_vars => QueueInv'
<1> SUFFICES ASSUME MarksInPlace, QueueInv, [Next]_vars PROVE QueueInv' OBVIOUS
<1>1. CutInv /\ CutInv' BY NextCut DEF QueueInv
<1>2. SUFFICES ASSUME Roomy PROVE OnceInv' BY <1>1 DEF QueueInv
<1>3. IInv /\ RestInv /\ OnceInv BY <1>1, <1>2 DEF QueueInv, CutInv
<1>4. ASSUME chunks' = chunks, queued' = queued, dropped' = dropped, unparsed' = unparsed
      PROVE  Parsed' = Parsed /\ OncePerMessage(Parsed)' /\ dropped' \subseteq Parsed'
  <2>1. stream' = stream BY <1>4 DEF stream
  <2>2. Parsed' = Parsed BY <2>1, <1>4 DEF Parsed, Before
  <2> QED BY <2>2, <1>3, <1>4, OnceStays DEF OnceInv
<1>5. ASSUME NEW n \in 1 .. MaxChunks * MaxLen, ReadSome(n) PROVE OnceInv'
  <2>1. n \in Nat \ {0}
    <3>1. MaxChunks * MaxLen \in Nat BY NetAssumption
    <3> QED BY <3>1
  <2>2. unparsed' = unparsed BY <2>1, <1>3, <1>5, ReadKeepsUnparsed
  <2> QED BY <2>2, <1>4, <1>5 DEF ReadSome, OnceInv
<1>6. CASE ReadFails BY <1>3, <1>6, OnceEnd DEF ReadFails
<1>7. CASE InvalidData BY <1>3, <1>7, OnceInvalid
<1>8. CASE NoTail
  <2>1. /\ chunks' = chunks /\ queued' = queued /\ dropped' = dropped /\ unparsed' = unparsed
        /\ stream' = stream /\ arrived' = arrived
    BY <1>8 DEF NoTail, evBuf, unparsed, stream
  <2>2. \A z \in unparsed .. arrived : stream[z].val # "dd"
    <3>1. Buf!FindChr("dd") = {} BY <1>8 DEF NoTail, tail
    <3> QED BY <3>1, <1>3, FoundNowhere
  <2> QED BY <2>1, <2>2, <1>4 DEF OnceInv
<1>9. CASE HandleMsg BY <1>1, <1>2, <1>3, <1>9, OnceHandMsg
<1>10. CASE CrashMsg BY <1>3, <1>10, OnceEnd DEF CrashMsg
<1>11. CASE RejectMsg BY <1>3, <1>11, OnceEnd DEF RejectMsg
<1>12. CASE UNCHANGED vars
  <2>1. /\ chunks' = chunks /\ queued' = queued /\ dropped' = dropped /\ unparsed' = unparsed
        /\ stream' = stream /\ arrived' = arrived /\ pc' = pc
    BY <1>12 DEF vars, evBuf, unparsed, stream
  <2> QED BY <2>1, <1>3, <1>4 DEF OnceInv
<1> QED BY <1>5, <1>6, <1>7, <1>8, <1>9, <1>10, <1>11, <1>12 DEF Next

---------------------------------------------------------------------------
(* The theorems *)

\* The inductive invariant of the framing, whatever clients send, whatever the
\* size of the buffer and however reads cut the stream.
THEOREM Invariance == Spec => []IInv
<1>1. Init => IInv BY InitIInv
<1>2. IInv /\ [Next]_vars => IInv' BY NextIInv
<1> QED BY <1>1, <1>2, PTL DEF Spec

\* The unread bytes are those that arrived last, in their order, also after the
\* buffer has moved them or has got a longer block (buffer.c:43-125).
THEOREM OrderOfBytes == Spec => []BytesInOrder
<1>1. IInv => BytesInOrder BY DEF IInv
<1> QED BY <1>1, Invariance, PTL

\* As long as no read makes the buffer move its data, the start that is kept
\* for a message that is not complete is its first start mark.
THEOREM StartIsKept == Roomy => (Spec => []StartKept)
<1>1. SUFFICES ASSUME Roomy PROVE Spec => []StartKept OBVIOUS
<1>2. IInv => StartKept BY <1>1 DEF IInv
<1> QED BY <1>2, Invariance, PTL

\* As long as no read makes the buffer move its data, what is queued is a piece
\* of what was sent, from a start mark to the first end mark behind it
\* (main.c:606-622).
THEOREM PieceOfTheStream == Roomy => (Spec => []HandedAsSent)
<1>1. SUFFICES ASSUME Roomy PROVE Spec => []HandedAsSent OBVIOUS
<1>2. IInv => HandedAsSent BY <1>1 DEF IInv
<1> QED BY <1>2, Invariance, PTL

\* As long as no read makes the buffer move its data, whatever end marks come
\* before a message or among its data, it is handed on from its start to the
\* first of them (main.c:606-622); of the messages and the noise this needs
\* that a start mark is found only where a chunk begins, or behind that start.
THEOREM CutWhereItEnds == Roomy /\ MarksInPlace => (Spec => []CutAtFirstMark)
<1>1. SUFFICES ASSUME Roomy, MarksInPlace PROVE Spec => []CutAtFirstMark OBVIOUS
<1>2. Init => CutInv BY InitCut
<1>3. CutInv /\ [Next]_vars => CutInv' BY <1>1, NextCut
<1>4. CutInv => CutAtFirstMark BY <1>1 DEF CutInv
<1> QED BY <1>2, <1>3, <1>4, PTL DEF Spec

\* As long as no read makes the buffer move its data, each plain message that
\* has arrived and was not dropped with its session is handed on once, and in
\* its turn, whatever noise and other messages come in between
\* (main.c:592-622).
THEOREM OnceAndInTurn == Roomy /\ MarksInPlace => (Spec => []QueuedOnce)
<1>1. SUFFICES ASSUME Roomy, MarksInPlace PROVE Spec => []QueuedOnce OBVIOUS
<1>2. Init => QueueInv
  <2> SUFFICES ASSUME Init PROVE QueueInv OBVIOUS
  <2>1. CutInv BY InitCut
  <2>2. /\ queued = <<>> /\ dropped = {} /\ arrived = 0 /\ off = 0
        /\ chunks \in TupleOf(Chunk, MaxChunks)
    BY DEF Init, Buf!Init
  <2>3. unparsed = 1 /\ unparsed .. arrived = {} BY <2>2 DEF unparsed
  <2>4. Parsed \cap Plain = {}
    <3> SUFFICES ASSUME NEW k \in Plain, k \in Parsed PROVE FALSE OBVIOUS
    <3>1. PICK i \in DOMAIN stream : \A z \in Nat : k \in Before(z) <=> i < z
      BY <2>2, PlainEnd
    <3>2. i \in Nat /\ begin(i) \in Nat /\ i = begin(i) + stream[i].at
          /\ stream[i].at \in 1 .. size(i) /\ size(i) \in Nat
      BY <2>2, ChunkAround
    <3>3. i < 1 BY <3>1, <2>3 DEF Parsed
    <3> QED BY <3>2, <3>3
  <2>5. Whole = {} BY <2>2 DEF Whole
  <2>6. OnceInv BY <2>2, <2>3, <2>4, <2>5 DEF OnceInv, OncePerMessage
  <2> QED BY <2>1, <2>6 DEF QueueInv
<1>3. QueueInv /\ [Next]_vars => QueueInv' BY <1>1, NextOnce
<1>4. QueueInv => QueuedOnce
  <2> SUFFICES ASSUME QueueInv, pc = "loop" PROVE OncePerMessage(Complete) BY DEF QueuedOnce
  <2>1. IInv /\ OnceInv BY <1>1 DEF QueueInv, CutInv
  <2>2. /\ unparsed \in Nat /\ arrived \in Nat /\ unparsed <= arrived + 1
        /\ chunks \in TupleOf(Chunk, MaxChunks)
    BY <2>1, Numbers
  <2>3. \A z \in unparsed .. arrived : stream[z].val # "dd" BY <2>1 DEF OnceInv
  <2> DEFINE v == arrived + 1
  <2>4. v \in Nat /\ unparsed <= v BY <2>2
  <2>5. ASSUME NEW i \in DOMAIN stream, stream[i].val = "dd" PROVE ~(unparsed <= i /\ i < v)
    <3>1. i \in Nat BY <2>2, ChunkAround
    <3>2. unparsed <= i /\ i < v => i \in unparsed .. arrived BY <3>1, <2>2
    <3> QED BY <3>2, <2>3, <2>5
  <2> HIDE DEF v
  <2>6. Before(v) \cap Plain = Before(unparsed) \cap Plain
    BY <2>2, <2>4, <2>5, NoneBetween
  <2>7. Complete \cap Plain = Parsed \cap Plain BY <2>6 DEF Complete, Parsed, v
  <2> QED BY <2>1, <2>7 DEF OnceInv, OncePerMessage
<1> QED BY <1>2, <1>3, <1>4, PTL DEF Spec

=============================================================================
