----------------------------- MODULE AlarmLink -----------------------------
(***************************************************************************)
(* The way of an alarm from the network to the ARM7 board: the net thread  *)
(* puts it in g_inq and writes a command byte (main.c, end of              *)
(* handle_netmsg); the UART thread takes it from there with a stop-and-    *)
(* wait protocol over the serial line (send_uart, uart_tmeo_cb, the ack    *)
(* branch of _handle_uart, inq_cb).                                        *)
(*                                                                         *)
(* A callback of the UART loop is one step, since all it works on besides  *)
(* the queue belongs to that thread; inq_cb has two, because the net       *)
(* thread may run between its fq_getcmd and its fq_get.  The board and the *)
(* line are outside the repository: the board acknowledges each frame it   *)
(* receives, and frames and acknowledgements may be lost.  An ack carries  *)
(* no identity; the model tags it with its alarm for the properties only.  *)
(*                                                                         *)
(* Alarms are numbered in the order in which the net thread takes them.    *)
(***************************************************************************)
EXTENDS Naturals, Sequences, FiniteSets

CONSTANTS
  N,          \* bound: how many alarms arrive
  InqCap,     \* alarms g_inq can hold: its ring size less one
  PipeCap,    \* bytes its command pipe can hold
  MaxTry      \* UART_MAX_TRY

ASSUME LinkAssumption ==
  /\ N \in Nat
  /\ InqCap \in Nat \ {0}
  /\ PipeCap \in Nat \ {0}
  /\ MaxTry \in Nat

Alarm == 1 .. N
NoAlarm == 0

VARIABLES
  next,       \* the alarm the net thread will take next
  npc,        \* net thread: "loop", or "notify" after fq_put
  inq,        \* g_inq
  pipe,       \* its command pipe
  upc,        \* UART thread: "loop", or "send" inside inq_cb
  obuf,       \* uart_obuf, NoAlarm while uart_obuf_sz is 0
  repeat,     \* repeat_counter
  timer,      \* uart_tmeo_watcher: "active" or "stopped"
  wire,       \* frames on their way to the board
  acks,       \* acknowledgements on their way back
  sent,       \* history: how often each alarm was written to the line
  overflow,   \* history: puts that found the queue full
  stray,      \* history: acks that found no alarm in flight
  late        \* history: "yes" from a timeout with an answer still under way
              \* until the line is quiet again

netVars == <<next, npc>>
uartVars == <<upc, obuf, repeat, timer>>
lineVars == <<wire, acks>>
vars == <<netVars, inq, pipe, uartVars, lineVars, sent, overflow, stray, late>>

Inq == INSTANCE DropOldestQueue WITH
  Item <- Alarm, NoItem <- NoAlarm, Cap <- InqCap, queue <- inq, ret <- obuf
Cmd == INSTANCE CmdPipe

\* ev_is_active(&uart_tmeo_watcher): an alarm is in flight.
Active == timer = "active"

Init ==
  /\ next = 1 /\ npc = "loop"
  /\ Inq!Init
  /\ Cmd!Init
  /\ upc = "loop" /\ repeat = 0 /\ timer = "stopped"
  /\ wire = <<>> /\ acks = <<>>
  /\ sent = [a \in Alarm |-> 0]
  /\ overflow = 0 /\ stray = 0 /\ late = "no"

---------------------------------------------------------------------------
(* The net thread *)

\* fq_put(g_inq, ...): the writer never waits, a full queue drops its head.
PutAlarm ==
  /\ npc = "loop" /\ next \in Alarm
  /\ Inq!Put(next)
  /\ overflow' = IF Inq!Full THEN overflow + 1 ELSE overflow
  /\ next' = next + 1
  /\ npc' = "notify"
  /\ UNCHANGED <<pipe, upc, repeat, timer, lineVars, sent, stray, late>>

\* Faulty: nobody is told.
NotifyForgotten ==
  /\ npc = "notify"
  /\ npc' = "loop"
  /\ UNCHANGED <<next, inq, pipe, uartVars, lineVars, sent, overflow, stray, late>>

\* fq_putcmd(g_inq, FQ_CMD_DATAIN)
Notify ==
  /\ npc = "notify"
  /\ Cmd!PutCmd(Cmd!DATAIN)
  /\ npc' = "loop"
  /\ UNCHANGED <<next, inq, uartVars, lineVars, sent, overflow, stray, late>>

---------------------------------------------------------------------------
(* The UART thread *)

\* With w and a left on the line, it may be quiet.
Settle(w, a) == late' = IF w = <<>> /\ a = <<>> THEN "no" ELSE late

\* u_writen(uart_fd, uart_obuf, uart_obuf_sz)
WriteFrame(a) ==
  /\ wire' = Append(wire, a)
  /\ sent' = [sent EXCEPT ![a] = @ + 1]

\* send_uart, its argument (fq_get or fq_get_ai) applied: write what was
\* loaded and start the timer; if that is nothing, the timer and the
\* counter stay as the caller has left them.
SendUart(Load, timer0, repeat0) ==
  /\ Load
  /\ IF obuf' # NoAlarm
     THEN WriteFrame(obuf') /\ repeat' = MaxTry /\ timer' = "active"
     ELSE UNCHANGED <<wire, sent>> /\ repeat' = repeat0 /\ timer' = timer0

\* Faulty: send whether or not an alarm is in flight.
InqCbUntested ==
  /\ upc = "loop"
  /\ Cmd!GetCmd(Cmd!DATAIN)
  /\ upc' = "send"
  /\ UNCHANGED <<netVars, inq, obuf, repeat, timer, lineVars, sent, overflow, stray, late>>

\* inq_cb: a command was read; with an alarm in flight there is no more to do.
InqCb ==
  /\ upc = "loop"
  /\ Cmd!GetCmd(Cmd!DATAIN)
  /\ upc' = IF Active THEN "loop" ELSE "send"
  /\ UNCHANGED <<netVars, inq, obuf, repeat, timer, lineVars, sent, overflow, stray, late>>

\* Faulty: send_uart(1) in place of send_uart(0).
InqSendNext ==
  /\ upc = "send"
  /\ SendUart(Inq!GetNext, timer, repeat)
  /\ upc' = "loop"
  /\ UNCHANGED <<netVars, pipe, acks, overflow, stray, late>>

InqSend ==
  /\ upc = "send"
  /\ SendUart(Inq!Get, timer, repeat)
  /\ upc' = "loop"
  /\ UNCHANGED <<netVars, pipe, acks, overflow, stray, late>>

\* The timer runs out, the answer being lost or only late.
Expires ==
  /\ upc = "loop" /\ Active
  /\ late' = IF wire = <<>> /\ acks = <<>> THEN late ELSE "yes"

\* Faulty: the tries are not counted.
RetryUncounted ==
  /\ Expires /\ repeat > 0
  /\ WriteFrame(obuf)
  /\ UNCHANGED <<netVars, inq, pipe, upc, obuf, repeat, timer, acks, overflow, stray>>

\* uart_tmeo_cb, repeat_counter > 0: write uart_obuf again.
Retry ==
  /\ Expires /\ repeat > 0
  /\ repeat' = repeat - 1
  /\ IF obuf # NoAlarm
     THEN WriteFrame(obuf) /\ timer' = "active"
     ELSE UNCHANGED <<wire, sent>> /\ timer' = "stopped"
  /\ UNCHANGED <<netVars, inq, pipe, upc, obuf, acks, overflow, stray>>

\* Faulty: the alarm that failed goes back to the end of the queue.
GiveUpRequeues ==
  /\ Expires /\ repeat = 0
  /\ SendUart(/\ inq' = IF inq = <<>> THEN <<>> ELSE Append(Tail(inq), Head(inq))
              /\ obuf' = Inq!First(inq'), "stopped", repeat)
  /\ UNCHANGED <<netVars, pipe, upc, acks, overflow, stray>>

\* uart_tmeo_cb, no tries left: discard and send the next one.
GiveUp ==
  /\ Expires /\ repeat = 0
  /\ SendUart(Inq!GetNext, "stopped", repeat)
  /\ UNCHANGED <<netVars, pipe, upc, acks, overflow, stray>>

\* Faulty: the next alarm is copied and the head left in the queue.
AlarmAckPeeks ==
  /\ upc = "loop" /\ acks # <<>>
  /\ acks' = Tail(acks) /\ Settle(wire, Tail(acks))
  /\ SendUart(obuf' = Inq!First(Inq!Behead(inq)) /\ UNCHANGED inq, "stopped", 0)
  /\ stray' = IF Active THEN stray ELSE stray + 1
  /\ UNCHANGED <<netVars, pipe, upc, overflow>>

\* Faulty: the ack discards its alarm and leaves the next one to inq_cb.
AlarmAckStops ==
  /\ upc = "loop" /\ acks # <<>>
  /\ acks' = Tail(acks) /\ Settle(wire, Tail(acks))
  /\ inq' = Inq!Behead(inq) /\ obuf' = NoAlarm
  /\ timer' = "stopped" /\ repeat' = 0
  /\ stray' = IF Active THEN stray ELSE stray + 1
  /\ UNCHANGED <<netVars, pipe, upc, wire, sent, overflow>>

\* _handle_uart, 0xbb: stop the timer, whatever is or is not in flight,
\* then discard and send the next one.
AlarmAck ==
  /\ upc = "loop" /\ acks # <<>>
  /\ acks' = Tail(acks) /\ Settle(wire, Tail(acks))
  /\ SendUart(Inq!GetNext, "stopped", 0)
  /\ stray' = IF Active THEN stray ELSE stray + 1
  /\ UNCHANGED <<netVars, pipe, upc, overflow>>

---------------------------------------------------------------------------
(* The line and the board (external) *)

ArmReceive ==
  /\ wire # <<>>
  /\ wire' = Tail(wire)
  /\ acks' = Append(acks, Head(wire))
  /\ UNCHANGED <<netVars, inq, pipe, uartVars, sent, overflow, stray, late>>

LoseFrame ==
  /\ wire # <<>>
  /\ wire' = Tail(wire) /\ Settle(Tail(wire), acks)
  /\ UNCHANGED <<netVars, inq, pipe, uartVars, acks, sent, overflow, stray>>

LoseAck ==
  /\ acks # <<>>
  /\ acks' = Tail(acks) /\ Settle(wire, Tail(acks))
  /\ UNCHANGED <<netVars, inq, pipe, uartVars, wire, sent, overflow, stray>>

---------------------------------------------------------------------------
Net == PutAlarm \/ Notify
Uart == InqCb \/ InqSend \/ Retry \/ GiveUp \/ AlarmAck
Line == ArmReceive \/ LoseFrame \/ LoseAck

Next == Net \/ Uart \/ Line

Spec == Init /\ [][Next]_vars

\* The event loops of the two threads serve every pending callback and the
\* timer expires; the line delivers or loses what it carries.  Nothing says
\* that alarms arrive.
FairSpec ==
  /\ Spec
  /\ WF_vars(Notify)
  /\ WF_vars(InqCb) /\ WF_vars(InqSend)
  /\ WF_vars(Retry \/ GiveUp) /\ WF_vars(AlarmAck)
  /\ WF_vars(ArmReceive \/ LoseFrame)

---------------------------------------------------------------------------
(* Properties *)

Queued == {inq[i] : i \in 1 .. Len(inq)}
Taken == 1 .. next - 1

\* The state stays within the values the fields can have; both histories
\* of surprises are counts.
TypeOK ==
  /\ next \in 1 .. N + 1 /\ npc \in {"loop", "notify"}
  /\ inq \in Seq(Alarm) /\ Len(inq) <= InqCap
  /\ pipe \in Seq({Cmd!DATAIN}) /\ Len(pipe) <= PipeCap
  /\ upc \in {"loop", "send"}
  /\ obuf \in Alarm \cup {NoAlarm}
  /\ repeat \in 0 .. MaxTry /\ timer \in {"active", "stopped"}
  /\ wire \in Seq(Alarm) /\ acks \in Seq(Alarm)
  /\ sent \in [Alarm -> Nat]
  /\ overflow \in Nat /\ stray \in Nat /\ late \in {"no", "yes"}

\* No lost wakeup: alarms never wait in g_inq with nothing in flight and
\* nobody about to look.  Commands are consumed while an alarm is in flight
\* and dropped by a full pipe, and yet one is there, or about to be written,
\* or being served, whenever it is needed (main.c:573-574, 1131-1145).
NoLostWakeup ==
  inq # <<>> /\ ~Active => pipe # <<>> \/ npc = "notify" \/ upc = "send"

\* What is in flight is the head of the queue, unless an overflow has
\* already removed it: fq_get leaves the node in place until the exchange
\* is over (main.c:976-987).
InFlightIsHead ==
  Active => obuf \in Taken /\ (obuf \in Queued => Head(inq) = obuf)

\* An alarm is written at most 1 + UART_MAX_TRY times, whatever acks,
\* timeouts and overflows do (main.c:994-1004).
MaxCopies == \A a \in Alarm : sent[a] <= 1 + MaxTry

\* Alarms reach the line in the order of their arrival: none is written
\* after a later one has been.
InOrder ==
  [][\A a \in Alarm : sent'[a] > sent[a] =>
       \A b \in Alarm : b > a => sent[b] = 0]_vars

\* What the four above rest on.  The queue is in order of arrival and holds
\* only what was taken; an alarm that was written is at or before the head,
\* at the head only while it is in flight; the tries made and left of the
\* alarm in flight add up; a callback that goes to send has found no timer.
Increasing == \A i, j \in 1 .. Len(inq) : i < j => inq[i] < inq[j]
QueuedIsTaken == \A i \in 1 .. Len(inq) : inq[i] < next
SentIsTaken == \A a \in Alarm : a >= next => sent[a] = 0
SentIsBefore ==
  \A a \in Alarm : sent[a] > 0 =>
    /\ \A i \in 1 .. Len(inq) : a <= inq[i]
    /\ Active => a <= obuf
HeadIsUnsent == inq # <<>> /\ ~Active => sent[Head(inq)] = 0
InFlight ==
  Active => /\ obuf \in Alarm /\ obuf < next
            /\ \A i \in 1 .. Len(inq) : obuf <= inq[i]
            /\ sent[obuf] + repeat <= 1 + MaxTry
SendsIdle == upc = "send" => ~Active

ExchangeInv ==
  /\ TypeOK
  /\ NoLostWakeup
  /\ MaxCopies
  /\ Increasing
  /\ QueuedIsTaken
  /\ SentIsTaken
  /\ SentIsBefore
  /\ HeadIsUnsent
  /\ InFlight
  /\ SendsIdle

\* Alarms that left the queue and were never written to the line.
NeverSent == {a \in Taken \ Queued : sent[a] = 0}

\* Each loss has its cause: no more alarms vanish unsent than there were
\* overflows and acks without an alarm in flight.  An alarm in flight that
\* an overflow removed will cost another alarm its place when it is done
\* (fq_get_ai then discards the next one), and counts as that loss already.
Displaced == IF Active /\ obuf \notin Queued THEN 1 ELSE 0
LossAccounted == Cardinality(NeverSent) + Displaced <= overflow + stray

\* Unless an answer is late, an ack ends the exchange of the alarm it was
\* sent for, though it carries no identity; and once the line was quiet after
\* a late one, the two ends agree again (main.c:991-1020).
AckEndsItsExchange ==
  [][late = "no" /\ AlarmAck => Active /\ obuf = Head(acks)]_vars

\* What these two rest on besides.  What is in flight has been written, so it
\* is not among the alarms lost unsent; and with no answer late, the line
\* carries one frame or one ack at most, that of the alarm in flight.
SentInFlight == Active => sent[obuf] > 0
OneOnTheLine ==
  late = "no" =>
    \/ wire = <<>> /\ acks = <<>>
    \/ Active /\ <<wire, acks>> \in {<<<<obuf>>, <<>>>>, <<<<>>, <<obuf>>>>}

IInv == ExchangeInv /\ SentInFlight /\ LossAccounted /\ OneOnTheLine

\* No alarm is stuck in the queue.
AlarmsLeave == \A a \in Alarm : a \in Queued ~> a \notin Queued

\* What fq_get_ai says of itself (fq.c:104): it discards the current node,
\* the one its caller has taken with fq_get or the last fq_get_ai.
DiscardsCurrent ==
  [][(AlarmAck \/ GiveUp) /\ inq # <<>> => Head(inq) = obuf]_vars
=============================================================================
