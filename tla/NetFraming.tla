----------------------------- MODULE NetFraming -----------------------------
(***************************************************************************)
(* How the net thread finds the messages in what it reads from one client  *)
(* (handle_nio, handle_netmsg): from 0xee to 0xdd.  ev->rptr is set when   *)
(* a start is found and set back to NULL after each message; in between it *)
(* is kept from one read to the next, while buffer_expand may move what it *)
(* points at.                                                              *)
(*                                                                         *)
(* One node ev is followed through its sessions.  Clients do not wait for  *)
(* an ack before they send the next message.  Who is registered under      *)
(* which ID is in Sessions, what happens to a queued message in AlarmLink. *)
(***************************************************************************)
EXTENDS ByteStream

CONSTANTS
  Chunk,        \* what clients send, messages and noise: sequences of values
  MaxChunks,    \* bound: how many of these
  MaxLen,       \* length of the longest
  BufLen,       \* size of ev->buff (256)
  Roomy         \* every read fits behind what is in the buffer

Value == {"ee", "dd", "x"}           \* "x" is any byte that is no mark
Byte == [val : Value, msg : 1 .. MaxChunks, at : 1 .. MaxLen]
NoByte == [val |-> "none", msg |-> 0, at |-> 0]
Null == [block |-> -1, at |-> -1]

ASSUME NetAssumption ==
  /\ Chunk \subseteq Seq(Value)
  /\ \A c \in Chunk : Len(c) \in 1 .. MaxLen
  /\ MaxChunks \in Nat /\ MaxLen \in Nat /\ BufLen \in Nat \ {0}
  /\ Roomy \in BOOLEAN

VARIABLES
  mem, block, rptr, off,   \* ev->buff, see module Buffer
  start,        \* ev->rptr, Null for NULL
  pc,           \* "loop", or "parse" in the while loop of handle_nio
  chunks,       \* what the clients send
  arrived,      \* how many of its bytes have been read, or lost
  dropped,      \* history: chunks a session's end has cut or thrown away
  queued        \* history: what fq_put(g_inq, ...) was called with

evBuf == <<mem, block, rptr, off>>
vars == <<evBuf, start, pc, chunks, arrived, dropped, queued>>

Buf == INSTANCE Buffer WITH MinLen <- BufLen

stream == Sent(chunks)

Init ==
  /\ Buf!Init(BufLen)
  /\ start = Null /\ pc = "loop"
  /\ chunks \in TupleOf(Chunk, MaxChunks)
  /\ arrived = 0 /\ dropped = {} /\ queued = <<>>

ev_nio_buf_reset == Buf!Reset /\ start' = Null

---------------------------------------------------------------------------
\* buffer_read gets the next n bytes.
ReadSome(n) ==
  /\ pc = "loop" /\ arrived + n <= Len(stream)
  /\ Roomy => Buf!Fits(n)
  /\ Buf!Read(SubSeq(stream, arrived + 1, arrived + n))
  /\ arrived' = arrived + n
  /\ pc' = "parse"
  /\ UNCHANGED <<start, chunks, dropped, queued>>

\* The chunks with bytes that wait in the buffer or have been read in part.
Pending == {mem[i].msg : i \in Buf!Unread}
             \cup IF arrived < Len(stream) /\ stream[arrived + 1].at > 1
                  THEN {stream[arrived + 1].msg} ELSE {}

\* Faulty: the buffer keeps what the last client has left.
EndSessionKeepsBuffer ==
  /\ UNCHANGED evBuf /\ start' = Null
  /\ dropped' = dropped \cup Pending
  /\ arrived' = arrived + Cardinality({i \in arrived + 1 .. Len(stream) :
                                          stream[i].msg \in Pending})
  /\ pc' = "loop"

\* ev_nio_remove: the node is reset, and the rest of what the client was
\* sending will not be read.  The next session of the node begins with a
\* chunk of its own.
EndSession ==
  /\ ev_nio_buf_reset
  /\ dropped' = dropped \cup Pending
  /\ arrived' = arrived + Cardinality({i \in arrived + 1 .. Len(stream) :
                                          stream[i].msg \in Pending})
  /\ pc' = "loop"

\* buffer_read fails, finds the end of the connection or has no memory.
ReadFails ==
  /\ pc = "loop" /\ arrived < Len(stream)
  /\ EndSession
  /\ UNCHANGED <<chunks, queued>>

Start == IF start # Null THEN {start} ELSE Buf!FindChr("ee")

\* The end mark is looked for from the first unread byte on.
tail == Buf!FindChr("dd")

InvalidData ==
  /\ pc = "parse" /\ Start = {}
  /\ ev_nio_buf_reset
  /\ pc' = "loop"
  /\ UNCHANGED <<chunks, arrived, dropped, queued>>

\* Faulty: part of a message is taken for invalid data.
NoTailResets ==
  /\ pc = "parse" /\ tail = {}
  /\ ev_nio_buf_reset
  /\ pc' = "loop"
  /\ UNCHANGED <<chunks, arrived, dropped, queued>>

NoTail ==
  /\ pc = "parse" /\ tail = {}
  /\ start' \in Start
  /\ pc' = "loop"
  /\ UNCHANGED <<evBuf, chunks, arrived, dropped, queued>>

\* handle_netmsg hands on what is between p and the end mark at t, however
\* many bytes that is, and drains the buffer up to the mark.
Hand(p, t) ==
  /\ \E first \in Buf!Deref(p), d \in Buf!Minus(t, p) :
       /\ d >= -1
       /\ queued' = Append(queued, [first |-> first, last |-> mem[t.at], size |-> d + 1])
  /\ Buf!DrainPtr(t.at + 1)
  /\ pc' = IF off' > 0 THEN "parse" ELSE "loop"
  /\ UNCHANGED <<mem, block, chunks, arrived, dropped>>

\* Faulty: the start of the last message is taken for that of the next one.
HandleMsgKeepsStart ==
  /\ pc = "parse"
  /\ \E p \in Start, t \in tail : Hand(p, t) /\ start' = p

HandleMsg ==
  /\ pc = "parse"
  /\ \E p \in Start, t \in tail : Hand(p, t)
  /\ start' = Null

\* An end mark further before the start than next to it: the size is negative,
\* and fq_put's memcpy of so many bytes ends the program.
CrashMsg ==
  /\ pc = "parse"
  /\ \E p \in Start, t \in tail : \E d \in Buf!Minus(t, p) : d < -1
  /\ EndSession
  /\ UNCHANGED <<chunks, queued>>

\* handle_netmsg refuses the message or cannot acknowledge it.
RejectMsg ==
  /\ pc = "parse" /\ Start # {} /\ tail # {}
  /\ EndSession
  /\ UNCHANGED <<chunks, queued>>

Next ==
  \/ \E n \in 1 .. MaxChunks * MaxLen : ReadSome(n)
  \/ ReadFails \/ InvalidData \/ NoTail \/ HandleMsg \/ CrashMsg \/ RejectMsg

Spec == Init /\ [][Next]_vars

---------------------------------------------------------------------------
(* Properties *)

\* What goes to g_inq is one whole message, from its 0xee to its 0xdd, and
\* so its size is positive (main.c:592-593, "receiving package completed").
WholeMessages ==
  \A i \in DOMAIN queued :
    LET q == queued[i] IN
      /\ q.first.msg = q.last.msg /\ q.first.at = 1
      /\ q.size = Len(chunks[q.first.msg]) /\ q.last.at = q.size

\* Whatever end marks come before a message or among its data, it is handed
\* on from its start to the first of them; the mark of noise, or of the rest
\* of a message cut so, that ends just before the start of another one gives
\* a node of size 0, and nothing else does (main.c:606-622).
Plain == {k \in DOMAIN chunks :
            /\ Head(chunks[k]) = "ee"
            /\ \A i \in DOMAIN chunks[k] : chunks[k][i] = "dd" <=> i = Len(chunks[k])}
FirstMark(c) == Min({i \in DOMAIN c : c[i] = "dd"})
CutAtFirstMark ==
  \A i \in DOMAIN queued :
    LET q == queued[i] IN
      /\ q.first.at = 1 /\ q.first.val = "ee"
      /\ \/ q.size = 0 /\ q.last.msg \notin Plain
         \/ /\ q.last.msg = q.first.msg /\ q.last.at = q.size
            /\ q.size = FirstMark(chunks[q.first.msg])

\* Back in its loop the thread has handed on each plain message that has
\* arrived and was not dropped with its session, once and in its turn.
Before(z) == {k \in DOMAIN chunks : \A i \in DOMAIN stream : stream[i].msg = k => i < z}
Complete == Before(arrived + 1)
Whole == {i \in DOMAIN queued : queued[i].size > 0 /\ queued[i].first.msg \in Plain}
OncePerMessage(done) ==
  /\ {queued[i].first.msg : i \in Whole} = (done \cap Plain) \ dropped
  /\ \A i, j \in Whole : i < j => queued[i].first.msg < queued[j].first.msg
QueuedOnce == pc = "loop" => OncePerMessage(Complete)

\* However the reads fall and whatever the buffer moves, the unread bytes are
\* the last off of those that arrived, in their order (buffer.c:43-125).
BytesInOrder ==
  /\ off <= arrived
  /\ Buf!Data = SubSeq(stream, arrived - off + 1, arrived)

\* The start that is kept while the rest of its message is awaited is the
\* first start mark in the data.
StartKept ==
  start # Null =>
    /\ start.block = block /\ start.at \in Buf!Unread /\ mem[start.at].val = "ee"
    /\ \A i \in Buf!Unread : mem[i].val = "ee" => start.at <= i

\* What is handed on is a piece of what the clients sent, unbroken, from a
\* start mark to the first end mark behind it, or it has size 0 and lies
\* between an end mark and a start mark; never are bytes of two places put
\* together (main.c:606-622).
HandedAsSent ==
  \A k \in DOMAIN queued : \E x, y \in DOMAIN stream :
    /\ queued[k] = [first |-> stream[x], last |-> stream[y], size |-> y - x + 1]
    /\ stream[x].val = "ee" /\ stream[y].val = "dd" /\ x <= y + 1
    /\ \A j \in x .. y - 1 : stream[j].val # "dd"

TypeOK ==
  /\ Buf!Sound
  /\ block \in Nat
  /\ start = Null \/ start \in [block : Nat, at : Nat]
  /\ pc \in {"loop", "parse"}
  /\ chunks \in TupleOf(Chunk, MaxChunks)
  /\ arrived \in 0 .. Len(stream)
  /\ DOMAIN queued = 1 .. Len(queued) /\ Len(queued) \in Nat

\* The inductive invariant; the start is kept and whole pieces are handed on
\* as long as no read moves the data.
IInv ==
  /\ TypeOK /\ BytesInOrder
  /\ Roomy => StartKept /\ HandedAsSent

\* What CutAtFirstMark needs of the messages and the noise: a start mark is
\* the first byte or behind one, in front of every end mark; and what begins
\* with a start mark has an end mark.
MarksInPlace ==
  \A c \in Chunk :
    /\ \A i \in DOMAIN c : c[i] = "ee" => c[1] = "ee" /\ \A j \in 1 .. i : c[j] # "dd"
    /\ c[1] = "ee" => \E i \in DOMAIN c : c[i] = "dd"

\* The bytes that have not been parsed, from the first one in the buffer on,
\* have a start mark only where the start of its message is among them too;
\* and if they begin in the middle of a message, it is not a plain one.
unparsed == arrived - off + 1
RestInv ==
  /\ \A z \in DOMAIN stream :
       z >= unparsed /\ stream[z].val = "ee" => z - stream[z].at + 1 >= unparsed
  /\ unparsed \in DOMAIN stream /\ stream[unparsed].at > 1
       => stream[unparsed].msg \notin Plain
CutInv == IInv /\ (Roomy => RestInv /\ CutAtFirstMark)

\* The plain messages that have been parsed are those that were handed on; a
\* dropped one counts as parsed, and a complete one that waits is parsed before
\* the thread goes back to its loop.
Parsed == Before(unparsed)
OnceInv ==
  /\ OncePerMessage(Parsed)
  /\ dropped \subseteq Parsed
  /\ pc = "loop" => \A z \in unparsed .. arrived : stream[z].val # "dd"
QueueInv == CutInv /\ (Roomy => OnceInv)
=============================================================================
