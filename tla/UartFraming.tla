---------------------------- MODULE UartFraming ----------------------------
(***************************************************************************)
(* How the UART thread finds the frames in what it reads from the serial   *)
(* line (handle_uart): from a start mark, 0xee or 0xbb, to the end mark    *)
(* 0xdd.  uart_rptr is set at the first start mark and set back only by    *)
(* uart_buf_reset: after a frame was handled it keeps pointing to where    *)
(* that frame began.                                                       *)
(*                                                                         *)
(* The board sends a sequence of frames, of which a configuration carries  *)
(* any octets, the marks among them.  What the branches of _handle_uart do *)
(* beyond the buffer is in AlarmLink (an ack), NetCtl (reverse control)    *)
(* and NetConf (a configuration).                                          *)
(***************************************************************************)
EXTENDS ByteStream

CONSTANTS
  Frame,        \* frames the board can send: sequences of values
  MaxFrames,    \* bound: how many it sends
  MaxLen,       \* length of the longest of them
  BufLen,       \* size of uart_buf (16*1024)
  OneAtATime    \* the board sends a frame only after the previous one was read

\* Marks, the second bytes _handle_uart tells apart, and any other byte.
Value == {"ee", "bb", "dd", "f3", "f5", "f6", "x"}
Byte == [val : Value, msg : 1 .. MaxFrames, at : 1 .. MaxLen]
NoByte == [val |-> "none", msg |-> 0, at |-> 0]
Null == [block |-> -1, at |-> -1]

ASSUME UartAssumption ==
  /\ Frame \subseteq Seq(Value)
  /\ \A f \in Frame : Len(f) \in 1 .. MaxLen
  /\ MaxFrames \in Nat /\ MaxLen \in Nat /\ BufLen \in Nat \ {0}
  /\ OneAtATime \in BOOLEAN

VARIABLES
  mem, block, rptr, off,   \* uart_buf, see module Buffer
  uart_rptr,    \* start of the current frame, Null for NULL
  pc,           \* "loop", "parse" in the while loop of handle_uart, or "crashed"
  frames,       \* what the board sends
  arrived,      \* how many of its bytes have been read
  hit,          \* history: frames that a failed read has cut, and those read
                \* while uart_rptr was astray
  handled       \* history: what _handle_uart was called with and took it for

uartBuf == <<mem, block, rptr, off>>
vars == <<uartBuf, uart_rptr, pc, frames, arrived, hit, handled>>

Buf == INSTANCE Buffer WITH MinLen <- BufLen

stream == Sent(frames)

Init ==
  /\ Buf!Init(BufLen)
  /\ uart_rptr = Null /\ pc = "loop"
  /\ frames \in TupleOf(Frame, MaxFrames)
  /\ arrived = 0 /\ hit = {} /\ handled = <<>>

uart_buf_reset == Buf!Reset /\ uart_rptr' = Null

---------------------------------------------------------------------------
\* uart_rptr points behind the place where frames begin: it was set at a
\* start mark that was not the first byte, and nothing sets it back.
Astray == uart_rptr # Null /\ uart_rptr.at > 0

\* buffer_read gets the next n bytes.
ReadSome(n) ==
  /\ pc = "loop" /\ arrived + n <= Len(stream)
  /\ OneAtATime => stream[arrived + 1].msg = stream[arrived + n].msg
  /\ Buf!Read(SubSeq(stream, arrived + 1, arrived + n))
  /\ arrived' = arrived + n
  /\ hit' = hit \cup IF Astray THEN {stream[arrived + i].msg : i \in 1 .. n} ELSE {}
  /\ pc' = "parse"
  /\ UNCHANGED <<uart_rptr, frames, handled>>

\* The frame of which a part has been read and a part has not.
Cut == LET sent == stream IN
  {k \in DOMAIN frames :
     \E i, j \in DOMAIN sent :
       i <= arrived /\ j > arrived /\ sent[i].msg = k /\ sent[j].msg = k}

\* buffer_read fails or has no memory: start over.
ReadFails ==
  /\ pc = "loop" /\ arrived < Len(stream)
  /\ uart_buf_reset
  /\ hit' = hit \cup Cut
  /\ UNCHANGED <<pc, frames, arrived, handled>>

\* Where the frame starts: where uart_rptr points already, or else at the
\* first start mark, as long as there are not marks of both kinds.
Start ==
  LET p0 == Buf!FindChr("ee")
      p1 == Buf!FindChr("bb")
  IN  IF uart_rptr # Null THEN {uart_rptr}
      ELSE IF p0 # {} /\ p1 # {} THEN {} ELSE p0 \cup p1

uart_tail == Buf!FindChr("dd")

InvalidData ==
  /\ pc = "parse" /\ Start = {}
  /\ uart_buf_reset
  /\ pc' = "loop"
  /\ UNCHANGED <<frames, arrived, hit, handled>>

\* Faulty: part of a frame is taken for invalid data.
NoEndFlagResets ==
  /\ pc = "parse" /\ uart_tail = {}
  /\ uart_buf_reset
  /\ pc' = "loop"
  /\ UNCHANGED <<frames, arrived, hit, handled>>

NoEndFlag ==
  /\ pc = "parse" /\ uart_tail = {}
  /\ uart_rptr' \in Start
  /\ pc' = "loop"
  /\ UNCHANGED <<uartBuf, frames, arrived, hit, handled>>

\* What _handle_uart takes a frame for: the first two bytes decide, and a
\* shake hands must be no longer than these and its end mark.
Kind(first, second, size) ==
  CASE first.val = "bb" -> "ack"
    [] first.val = "ee" /\ second.val = "f5" ->
         IF size = 3 THEN "shake hands" ELSE "nothing"
    [] first.val = "ee" /\ second.val = "f3" -> "configuration"
    [] first.val = "ee" /\ second.val \notin {"f5", "f3"} -> "control"
    [] OTHER -> "nothing"

\* The answer to a shake hands at p is written over it.
Answered(kind, p) ==
  IF kind = "shake hands" /\ p.block = block THEN [mem EXCEPT ![p.at + 1].val = "f6"] ELSE mem

\* For reverse control fq_put is given a size that is negative when uart_rptr,
\* astray, is further behind the end mark than next to it: its memcpy of so many
\* bytes ends the program.
Fatal(kind, size) == kind = "control" /\ size < 0

CrashHandle ==
  /\ pc = "parse"
  /\ \E p \in Start, t \in uart_tail :
       \E first \in Buf!Deref(p), second \in Buf!Deref([p EXCEPT !.at = @ + 1]),
          d \in Buf!Minus(t, p) : Fatal(Kind(first, second, d + 1), d + 1)
  /\ pc' = "crashed"
  /\ UNCHANGED <<uartBuf, uart_rptr, frames, arrived, hit, handled>>

\* _handle_uart on what is between uart_rptr and uart_tail, then drain up
\* to the end mark and look at what is left.
Handle ==
  /\ pc = "parse"
  /\ \E p \in Start, t \in uart_tail :
       /\ \E first \in Buf!Deref(p), second \in Buf!Deref([p EXCEPT !.at = @ + 1]),
             d \in Buf!Minus(t, p) :
            LET kind == Kind(first, second, d + 1)
            IN  /\ ~Fatal(kind, d + 1)
                /\ handled' = Append(handled, [kind |-> kind, first |-> first,
                                               last |-> mem[t.at], size |-> d + 1])
                /\ mem' = Answered(kind, p)
       /\ uart_rptr' = p
       /\ Buf!DrainPtr(t.at + 1)
  /\ pc' = IF off' > 0 THEN "parse" ELSE "loop"
  /\ UNCHANGED <<block, frames, arrived, hit>>

Next ==
  \/ \E n \in 1 .. MaxFrames * MaxLen : ReadSome(n)
  \/ ReadFails \/ InvalidData \/ NoEndFlag \/ Handle \/ CrashHandle

Spec == Init /\ [][Next]_vars

---------------------------------------------------------------------------
(* Properties *)

\* What _handle_uart is called with is one whole frame, from its first byte
\* to its last (main.c:1099, "received whole completely packet.").
WholeFrames ==
  \A i \in DOMAIN handled :
    LET h == handled[i] IN
      /\ h.first.msg = h.last.msg /\ h.first.at = 1
      /\ h.size = Len(frames[h.first.msg]) /\ h.last.at = h.size

\* Back in its loop the thread has acted on each plain frame that has
\* arrived, if it is not in hit, as a whole, for what it is, once and in its
\* turn: whatever it made of the marks among the octets of the configurations
\* in between (main.c:1014-1050, 1084-1108).
StartMark == {"ee", "bb"}
Plain == {k \in DOMAIN frames :
            /\ frames[k][1] \in StartMark
            /\ \A i \in 2 .. Len(frames[k]) :
                 frames[k][i] \in StartMark \cup {"dd"} <=>
                   i = Len(frames[k]) /\ frames[k][i] = "dd"}
Before(z) == LET sent == stream IN
  {k \in DOMAIN frames : \A i \in DOMAIN sent : sent[i].msg = k => i < z}
Complete == Before(arrived + 1)
Meant(f) ==
  IF f[1] = "bb" THEN "ack"
  ELSE CASE f[2] = "f5" -> "shake hands" [] f[2] = "f3" -> "configuration"
         [] OTHER -> "control"
Whole(k) ==
  LET f == frames[k]
      b(i) == [val |-> f[i], msg |-> k, at |-> i]
  IN  [kind |-> Meant(f), first |-> b(1), last |-> b(Len(f)), size |-> Len(f)]
Acted == {i \in DOMAIN handled : handled[i].last.msg \in Plain \ hit}
OncePerFrame(done) ==
  /\ {handled[i].last.msg : i \in Acted} = (done \cap Plain) \ hit
  /\ \A i \in Acted : handled[i] = Whole(handled[i].last.msg)
  /\ \A i, j \in Acted : i < j => handled[i].last.msg < handled[j].last.msg
ActedOnce == pc = "loop" => OncePerFrame(Complete)

\* uart_rptr, kept from one frame to the next, is where the next byte will
\* be written whenever nothing is unread: an empty buffer is filled from its
\* beginning again (buffer.c:161-178).  It goes astray only where a failed
\* read has cut a frame with a start mark among its octets, or where a frame
\* has marks of both kinds, for which it is thrown away, and another one
\* behind them.
Marked == {k \in DOMAIN frames : \E i \in 2 .. Len(frames[k]) : frames[k][i] \in StartMark}
OtherMark(k, n) ==
  \E i \in 2 .. n - 1 : frames[k][i] \in StartMark /\ frames[k][i] # frames[k][1]
Seen == LET sent == stream IN {sent[i].msg : i \in 1 .. arrived}
Torn == {k \in Seen :
           \E n \in 2 .. Len(frames[k]) - 1 :
             /\ OtherMark(k, n)
             /\ \E i \in n + 1 .. Len(frames[k]) : frames[k][i] \in StartMark}
PointerKept ==
  uart_rptr # Null /\ off = 0 =>
    \/ uart_rptr = [block |-> block, at |-> rptr]
    \/ Astray /\ (hit \cap Marked) \cup Torn # {}

\* The unread bytes are the last off of those that arrived, in their order,
\* though an answer is written over a frame in the buffer.
BytesInOrder ==
  /\ off <= arrived
  /\ Buf!Data = SubSeq(stream, arrived - off + 1, arrived)

TypeOK ==
  /\ Buf!Sound
  /\ block \in Nat
  /\ uart_rptr = Null \/ uart_rptr \in [block : Nat, at : Nat]
  /\ pc \in {"loop", "parse", "crashed"}
  /\ frames \in TupleOf(Frame, MaxFrames)
  /\ arrived \in 0 .. Len(stream)
  /\ hit \subseteq DOMAIN frames
  /\ DOMAIN handled = 1 .. Len(handled) /\ Len(handled) \in Nat

\* What both properties need of the board: it waits with a frame until the one
\* before was read; the longest one fits into the buffer; each is from a
\* start mark to an end mark, and a shake hands is nothing more than that.
FramesAsExpected ==
  /\ OneAtATime /\ MaxLen <= BufLen
  /\ \A f \in Frame :
       /\ f[1] \in StartMark /\ f[Len(f)] = "dd"
       /\ f[1] = "ee" /\ f[2] = "f5" => Len(f) = 3

\* All that is unread is of one frame, it begins where the buffer does unless
\* a part of that frame was drained, and it is parsed before more is read.
unparsed == arrived - off + 1
OneFrame ==
  /\ Buf!totallen = BufLen
  /\ uart_rptr # Null => uart_rptr.block = block
  /\ off = 0 \/ uart_rptr = Null => rptr = 0
  /\ off > 0 => rptr + off <= stream[arrived].at
  /\ pc = "parse" => off > 0
  /\ pc = "loop" => \A z \in unparsed .. arrived : stream[z].val # "dd"

\* How the start of a frame can have been lost while its rest is to come.
StartLost ==
  /\ Astray => (hit \cap Marked) \cup Torn # {}
  /\ uart_rptr = Null /\ unparsed \in DOMAIN stream /\ stream[unparsed].at > 1
       => \/ stream[unparsed].msg \in hit
          \/ OtherMark(stream[unparsed].msg, stream[unparsed].at)

\* A plain frame that is not in hit is parsed as a whole, and uart_rptr is
\* where it begins.
Parsed == Before(unparsed)
PlainInPlace ==
  /\ unparsed \in DOMAIN stream /\ stream[unparsed].at > 1
       => stream[unparsed].msg \notin Plain \ hit
  /\ off > 0 /\ Astray => stream[arrived].msg \notin Plain \ hit

\* The inductive invariant.
IInv == TypeOK /\ BytesInOrder
FramesInv ==
  /\ IInv
  /\ FramesAsExpected => OneFrame /\ StartLost /\ PlainInPlace /\ OncePerFrame(Parsed)
=============================================================================
