-------------------------- MODULE AlarmLinkProofs --------------------------
(***************************************************************************)
(* Proofs about AlarmLink, for every number of alarms, every capacity of   *)
(* queue and pipe, every UART_MAX_TRY, and for a timely line or not.       *)
(***************************************************************************)
EXTENDS AlarmLink, FiniteSetTheorems, SequenceTheorems, TLAPS

\* What the provers need to know of a sequence.
LEMMA SeqFacts ==
  ASSUME NEW S, NEW q \in Seq(S)
  PROVE  /\ Len(q) \in Nat
         /\ \A i \in 1 .. Len(q) : q[i] \in S
         /\ q = <<>> <=> Len(q) = 0
BY LenProperties, ElementOfSeq, EmptySeq

\* fq_put in terms of positions: the queue moves up by d (one on overflow,
\* else none) and the new alarm is at its end.
LEMMA PutEffect ==
  ASSUME LinkAssumption, TypeOK, NEW x \in Alarm, Inq!Put(x)
  PROVE  /\ inq' \in Seq(Alarm) /\ Len(inq') \in 1 .. InqCap
         /\ obuf' = obuf
         /\ \E d \in {0, 1} :
              /\ d = 1 <=> Inq!Full
              /\ Len(inq') = Len(inq) - d + 1
              /\ \A i \in 1 .. Len(inq') - 1 : i + d \in 1 .. Len(inq) /\ inq'[i] = inq[i + d]
              /\ inq'[Len(inq')] = x
<1> DEFINE rest == IF Inq!Full THEN Tail(inq) ELSE inq
           d == IF Inq!Full THEN 1 ELSE 0
<1>1. /\ inq \in Seq(Alarm) /\ Len(inq) \in Nat /\ Len(inq) <= InqCap
      /\ InqCap \in Nat \ {0}
  BY DEF TypeOK, LinkAssumption
<1>2. /\ rest \in Seq(Alarm)
      /\ Len(rest) = Len(inq) - d
      /\ Len(rest) < InqCap
      /\ \A i \in 1 .. Len(rest) : i + d \in 1 .. Len(inq) /\ rest[i] = inq[i + d]
  <2>1. CASE Inq!Full
    <3>1. inq # <<>> /\ Len(inq) = InqCap
      BY <1>1, <2>1 DEF Inq!Full
    <3>2. QED
      BY <1>1, <2>1, <3>1, HeadTailProperties
  <2>2. CASE ~Inq!Full
    BY <1>1, <2>2 DEF Inq!Full
  <2>3. QED
    BY <2>1, <2>2
<1>3. inq' = Append(rest, x) /\ obuf' = obuf
  BY DEF Inq!Put, Inq!Full
<1>4. /\ inq' \in Seq(Alarm) /\ Len(inq') = Len(rest) + 1
      /\ \A i \in 1 .. Len(rest) : inq'[i] = rest[i]
      /\ inq'[Len(rest) + 1] = x
  BY <1>2, <1>3, AppendProperties
<1>5. d \in {0, 1} /\ Len(rest) \in Nat /\ (d = 1 <=> Inq!Full)
  BY <1>2
<1> HIDE DEF rest, d
<1>6. /\ Len(inq') = Len(inq) - d + 1
      /\ \A i \in 1 .. Len(inq') - 1 : i + d \in 1 .. Len(inq) /\ inq'[i] = inq[i + d]
      /\ inq'[Len(inq')] = x
  <2>1. Len(inq') = Len(inq) - d + 1 /\ Len(inq') - 1 = Len(rest)
    BY <1>1, <1>2, <1>4, <1>5
  <2>2. inq'[Len(inq')] = x
    BY <1>4
  <2>3. QED
    BY <2>1, <2>2, <1>2, <1>4
<1>7. Len(inq') \in 1 .. InqCap
  BY <1>1, <1>2, <1>4, <1>5
<1>8. QED
  BY <1>3, <1>4, <1>5, <1>6, <1>7

\* fq_get_ai in terms of positions: nothing happens to an empty queue; else
\* the queue moves up by one and what is now its head, if any, is loaded.
LEMMA GetNextEffect ==
  ASSUME TypeOK, Inq!GetNext
  PROVE  /\ inq' \in Seq(Alarm) /\ Len(inq') <= Len(inq)
         /\ inq # <<>> => Len(inq') = Len(inq) - 1
         /\ \A i \in 1 .. Len(inq') : i + 1 \in 1 .. Len(inq) /\ inq'[i] = inq[i + 1]
         /\ inq' = <<>> => obuf' = NoAlarm
         /\ inq' # <<>> => obuf' = inq'[1] /\ inq # <<>>
<1>1. inq \in Seq(Alarm)
  BY DEF TypeOK
<1>2. CASE inq = <<>>
  BY <1>1, <1>2 DEF Inq!GetNext, Inq!Behead, Inq!First
<1>3. CASE inq # <<>>
  <2>1. inq' = Tail(inq)
    BY <1>3 DEF Inq!GetNext, Inq!Behead
  <2>2. /\ inq' \in Seq(Alarm) /\ Len(inq') = Len(inq) - 1 /\ Len(inq) \in Nat \ {0}
        /\ \A i \in 1 .. Len(inq') : inq'[i] = inq[i + 1]
    BY <1>1, <1>3, <2>1, HeadTailProperties
  <2>3. obuf' = IF inq' = <<>> THEN NoAlarm ELSE Head(inq')
    BY <1>3 DEF Inq!GetNext, Inq!Behead, Inq!First
  <2>4. QED
    BY <1>3, <2>2, <2>3
<1>4. QED
  BY <1>2, <1>3

\* The first state.
LEMMA InitExchangeInv == LinkAssumption /\ Init => ExchangeInv
<1> SUFFICES ASSUME LinkAssumption, Init PROVE ExchangeInv
  OBVIOUS
<1> USE DEF LinkAssumption, Init, Inq!Init, Cmd!Init
<1>1. \A S : <<>> \in Seq(S)
  OBVIOUS
<1>2. Len(<<>>) = 0
  OBVIOUS
<1>3. TypeOK
  <2>1. next \in 1 .. N + 1 /\ npc \in {"loop", "notify"}
    OBVIOUS
  <2>2. inq \in Seq(Alarm) /\ Len(inq) <= InqCap
    BY <1>1, <1>2
  <2>3. pipe \in Seq({Cmd!DATAIN}) /\ Len(pipe) <= PipeCap
    BY <1>1, <1>2
  <2>4. upc \in {"loop", "send"} /\ obuf \in Alarm \cup {NoAlarm}
    OBVIOUS
  <2>5. repeat \in 0 .. MaxTry /\ timer \in {"active", "stopped"}
    OBVIOUS
  <2>6. wire \in Seq(Alarm) /\ acks \in Seq(Alarm)
    BY <1>1
  <2>7. sent \in [Alarm -> Nat] /\ overflow \in Nat /\ stray \in Nat /\ late \in {"no", "yes"}
    OBVIOUS
  <2>8. QED
    BY <2>1, <2>2, <2>3, <2>4, <2>5, <2>6, <2>7 DEF TypeOK
<1>4. QED
  BY <1>3 DEF ExchangeInv, NoLostWakeup, MaxCopies, Increasing, QueuedIsTaken, SentIsTaken,
              SentIsBefore, HeadIsUnsent, InFlight, SendsIdle, Active

---------------------------------------------------------------------------
(* The net thread's steps *)

\* fq_put keeps the invariant: the new alarm is later than all queued ones,
\* and at most the head has left.
LEMMA PutAlarmStep == LinkAssumption /\ ExchangeInv /\ PutAlarm => ExchangeInv'
<1> SUFFICES ASSUME LinkAssumption, ExchangeInv, PutAlarm PROVE ExchangeInv'
  OBVIOUS
<1>1. /\ TypeOK /\ NoLostWakeup /\ MaxCopies /\ Increasing /\ QueuedIsTaken
      /\ SentIsTaken /\ SentIsBefore /\ HeadIsUnsent /\ InFlight /\ SendsIdle
  BY DEF ExchangeInv
<1>2. /\ next \in Alarm /\ next' = next + 1 /\ npc' = "notify"
      /\ UNCHANGED <<obuf, pipe, upc, repeat, timer, wire, acks, sent, stray, late>>
      /\ Inq!Put(next)
  BY DEF PutAlarm, Inq!Put, lineVars
<1>3. PICK d \in {0, 1} :
           /\ Len(inq') = Len(inq) - d + 1
           /\ \A i \in 1 .. Len(inq') - 1 : i + d \in 1 .. Len(inq) /\ inq'[i] = inq[i + d]
           /\ inq'[Len(inq')] = next
  BY <1>1, <1>2, PutEffect
<1>4. /\ inq' \in Seq(Alarm) /\ Len(inq') <= InqCap
      /\ Len(inq) \in Nat /\ Len(inq') \in Nat \ {0}
  <2>1. inq' \in Seq(Alarm) /\ Len(inq') \in 1 .. InqCap /\ InqCap \in Nat
    BY <1>1, <1>2, PutEffect DEF LinkAssumption
  <2>2. Len(inq) \in Nat
    BY <1>1, SeqFacts DEF TypeOK
  <2>3. QED
    BY <2>1, <2>2
<1>5. /\ \A i \in 1 .. Len(inq) : inq[i] \in Nat
      /\ \A a \in Alarm : a \in Nat /\ sent[a] \in Nat
      /\ next \in Nat
  <2>1. inq \in Seq(Alarm) /\ sent \in [Alarm -> Nat]
    BY <1>1 DEF TypeOK
  <2>2. Alarm \subseteq Nat
    BY DEF Alarm, LinkAssumption
  <2>3. QED
    BY <1>2, <2>1, <2>2, SeqFacts
<1>6. TypeOK'
  <2>1. overflow' \in Nat /\ next' \in 1 .. N + 1
    BY <1>1, <1>2 DEF PutAlarm, TypeOK, Alarm, LinkAssumption
  <2>2. QED
    BY <1>1, <1>2, <1>4, <2>1 DEF TypeOK
\* What is in the queue was there before, or is the new alarm at its end.
<1>7. \A i \in 1 .. Len(inq') :
         inq'[i] = next \/ \E k \in 1 .. Len(inq) : inq'[i] = inq[k]
  BY <1>3, <1>4
<1>8. Increasing'
  <2>1. SUFFICES ASSUME NEW i \in 1 .. Len(inq'), NEW j \in 1 .. Len(inq'), i < j
                 PROVE  inq'[i] < inq'[j]
    BY DEF Increasing
  <2>2. i \in 1 .. Len(inq') - 1
    BY <1>4, <2>1
  <2>3. i + d \in 1 .. Len(inq) /\ inq'[i] = inq[i + d]
    BY <1>3, <2>2
  <2>4. CASE j = Len(inq')
    BY <1>1, <1>3, <2>3, <2>4 DEF QueuedIsTaken
  <2>5. CASE j # Len(inq')
    <3>1. j \in 1 .. Len(inq') - 1
      BY <1>4, <2>5
    <3>2. j + d \in 1 .. Len(inq) /\ inq'[j] = inq[j + d]
      BY <1>3, <3>1
    <3>3. i + d < j + d
      BY <2>1, <2>2, <3>1
    <3>4. QED
      BY <1>1, <2>3, <3>2, <3>3 DEF Increasing
  <2>6. QED
    BY <2>4, <2>5
<1>9. QueuedIsTaken'
  <2>1. SUFFICES ASSUME NEW i \in 1 .. Len(inq') PROVE inq'[i] < next + 1
    BY <1>2 DEF QueuedIsTaken
  <2>2. CASE inq'[i] = next
    BY <1>5, <2>2
  <2>3. CASE \E k \in 1 .. Len(inq) : inq'[i] = inq[k]
    BY <1>1, <1>5, <2>3 DEF QueuedIsTaken
  <2>4. QED
    BY <1>7, <2>2, <2>3
<1>10. SentIsTaken'
  BY <1>1, <1>2, <1>5 DEF SentIsTaken
<1>11. MaxCopies' /\ SendsIdle'
  BY <1>1, <1>2 DEF MaxCopies, SendsIdle, Active
<1>12. SentIsBefore'
  <2>1. SUFFICES ASSUME NEW a \in Alarm, sent[a] > 0
                 PROVE  (\A i \in 1 .. Len(inq') : a <= inq'[i]) /\ (Active => a <= obuf)
    BY <1>2 DEF SentIsBefore, Active
  <2>2. a < next
    BY <1>1, <1>5, <2>1 DEF SentIsTaken
  <2>3. (\A k \in 1 .. Len(inq) : a <= inq[k]) /\ (Active => a <= obuf)
    BY <1>1, <2>1 DEF SentIsBefore
  <2>4. QED
    BY <1>5, <1>7, <2>2, <2>3
<1>13. InFlight'
  <2>1. SUFFICES ASSUME Active
                 PROVE  /\ obuf \in Alarm /\ obuf < next + 1
                        /\ \A i \in 1 .. Len(inq') : obuf <= inq'[i]
                        /\ sent[obuf] + repeat <= 1 + MaxTry
    BY <1>2 DEF InFlight, Active
  <2>2. /\ obuf \in Alarm /\ obuf < next /\ sent[obuf] + repeat <= 1 + MaxTry
        /\ \A i \in 1 .. Len(inq) : obuf <= inq[i]
    BY <1>1, <2>1 DEF InFlight
  <2>3. QED
    BY <1>5, <1>7, <2>2
<1>14. HeadIsUnsent'
  <2>1. SUFFICES ASSUME ~Active PROVE sent[inq'[1]] = 0
    BY <1>2, <1>4 DEF HeadIsUnsent, Active
  <2>2. CASE Len(inq') = 1
    <3>1. inq'[1] = next
      BY <1>3, <2>2
    <3>2. next >= next
      BY <1>5
    <3>3. QED
      BY <1>1, <1>2, <3>1, <3>2 DEF SentIsTaken
  <2>3. CASE Len(inq') # 1
    <3>1. 1 \in 1 .. Len(inq') - 1
      <4>1. \A n \in Nat \ {0} : n # 1 => 1 \in 1 .. n - 1
        OBVIOUS
      <4>2. QED
        BY <1>4, <2>3, <4>1
    <3>2. 1 + d \in 1 .. Len(inq) /\ inq'[1] = inq[1 + d]
      BY <1>3, <3>1
    <3>3. inq \in Seq(Alarm) /\ inq # <<>> /\ \A i \in 1 .. Len(inq) : inq[i] \in Alarm
      BY <1>1, <1>4, <3>2, SeqFacts DEF TypeOK
    <3>4. sent[inq[1]] = 0
      BY <1>1, <2>1, <3>3 DEF HeadIsUnsent
    <3>5. CASE d = 1
      <4>1. 1 \in 1 .. Len(inq) /\ 2 \in 1 .. Len(inq)
        BY <1>4, <3>2, <3>5
      <4>2. inq[1] < inq[2] /\ inq[2] \in Alarm /\ inq[1] \in Nat /\ inq[2] \in Nat
        BY <1>1, <1>5, <3>3, <4>1 DEF Increasing
      <4>3. ~(sent[inq[2]] > 0)
        BY <1>1, <4>1, <4>2 DEF SentIsBefore
      <4>4. QED
        BY <1>5, <3>2, <3>5, <4>2, <4>3
    <3>6. QED
      BY <3>2, <3>4, <3>5
  <2>4. QED
    BY <1>4, <2>2, <2>3
<1>15. NoLostWakeup'
  BY <1>2 DEF NoLostWakeup
<1>16. QED
  BY <1>6, <1>8, <1>9, <1>10, <1>11, <1>12, <1>13, <1>14, <1>15 DEF ExchangeInv

\* fq_putcmd keeps it: a full pipe is not an empty one.
LEMMA NotifyStep == LinkAssumption /\ ExchangeInv /\ Notify => ExchangeInv'
<1> SUFFICES ASSUME LinkAssumption, ExchangeInv, Notify PROVE ExchangeInv'
  OBVIOUS
<1>1. /\ TypeOK /\ MaxCopies /\ Increasing /\ QueuedIsTaken
      /\ SentIsTaken /\ SentIsBefore /\ HeadIsUnsent /\ InFlight /\ SendsIdle
  BY DEF ExchangeInv
<1>2. /\ npc' = "loop"
      /\ UNCHANGED <<next, inq, upc, obuf, repeat, timer, wire, acks, sent, overflow, stray, late>>
      /\ pipe' = IF Len(pipe) < PipeCap THEN Append(pipe, Cmd!DATAIN) ELSE pipe
  BY DEF Notify, Cmd!PutCmd, uartVars, lineVars
<1>3. pipe' \in Seq({Cmd!DATAIN}) /\ Len(pipe') <= PipeCap /\ pipe' # <<>>
  <2>1. pipe \in Seq({Cmd!DATAIN}) /\ Len(pipe) <= PipeCap /\ PipeCap \in Nat \ {0}
    BY <1>1 DEF TypeOK, LinkAssumption
  <2>2. CASE Len(pipe) < PipeCap
    BY <1>2, <2>1, <2>2, AppendProperties
  <2>3. CASE ~(Len(pipe) < PipeCap)
    BY <1>2, <2>1, <2>3
  <2>4. QED
    BY <2>2, <2>3
<1>4. TypeOK'
  BY <1>1, <1>2, <1>3 DEF TypeOK
<1>5. NoLostWakeup'
  BY <1>3 DEF NoLostWakeup
<1>6. QED
  BY <1>1, <1>2, <1>4, <1>5
  DEF ExchangeInv, MaxCopies, Increasing, QueuedIsTaken, SentIsTaken, SentIsBefore,
      HeadIsUnsent, InFlight, SendsIdle, Active

---------------------------------------------------------------------------
(* The UART thread's steps *)

\* inq_cb up to the test of the timer keeps the invariant: the command it
\* takes is made up for by the look at the queue, or not needed yet.
LEMMA InqCbStep == LinkAssumption /\ ExchangeInv /\ InqCb => ExchangeInv'
<1> SUFFICES ASSUME LinkAssumption, ExchangeInv, InqCb PROVE ExchangeInv'
  OBVIOUS
<1>1. /\ TypeOK /\ MaxCopies /\ Increasing /\ QueuedIsTaken
      /\ SentIsTaken /\ SentIsBefore /\ HeadIsUnsent /\ InFlight
  BY DEF ExchangeInv
<1>2. /\ pipe # <<>> /\ pipe' = Tail(pipe)
      /\ upc' = IF Active THEN "loop" ELSE "send"
      /\ UNCHANGED <<next, npc, inq, obuf, repeat, timer, wire, acks, sent, overflow, stray, late>>
  BY DEF InqCb, Cmd!GetCmd, netVars, lineVars
<1>3. pipe' \in Seq({Cmd!DATAIN}) /\ Len(pipe') <= PipeCap
  <2>1. pipe \in Seq({Cmd!DATAIN}) /\ Len(pipe) <= PipeCap /\ PipeCap \in Nat /\ Len(pipe) \in Nat
    BY <1>1, SeqFacts DEF TypeOK, LinkAssumption
  <2>2. QED
    BY <1>2, <2>1, HeadTailProperties
<1>4. TypeOK'
  BY <1>1, <1>2, <1>3 DEF TypeOK
<1>5. NoLostWakeup' /\ SendsIdle'
  BY <1>2 DEF NoLostWakeup, SendsIdle, Active
<1>6. QED
  BY <1>1, <1>2, <1>4, <1>5
  DEF ExchangeInv, MaxCopies, Increasing, QueuedIsTaken, SentIsTaken, SentIsBefore,
      HeadIsUnsent, InFlight, Active

\* The three callers of send_uart leave the same behind: a queue from whose
\* front d alarms are gone, its head written once and in flight, or an empty
\* queue and no timer.
LEMMA LoadStep ==
  ASSUME LinkAssumption, ExchangeInv,
         inq' \in Seq(Alarm), Len(inq') <= Len(inq),
         NEW d \in {0, 1},
         \A i \in 1 .. Len(inq') : i + d \in 1 .. Len(inq) /\ inq'[i] = inq[i + d],
         inq' = <<>> => obuf' = NoAlarm,
         inq' # <<>> => obuf' = inq'[1] /\ sent[inq'[1]] = 0,
         obuf' # NoAlarm => WriteFrame(obuf') /\ repeat' = MaxTry /\ timer' = "active",
         obuf' = NoAlarm => /\ UNCHANGED <<wire, sent>>
                            /\ repeat' \in 0 .. MaxTry /\ timer' = "stopped",
         upc' = "loop", UNCHANGED <<next, npc, pipe>>,
         acks' \in Seq(Alarm), overflow' \in Nat, stray' \in Nat,
         late' \in {"no", "yes"}
  PROVE  ExchangeInv'
<1>1. /\ TypeOK /\ MaxCopies /\ Increasing /\ QueuedIsTaken
      /\ SentIsTaken /\ SentIsBefore /\ HeadIsUnsent /\ InFlight
  BY DEF ExchangeInv
<1>2. /\ Len(inq) \in Nat /\ Len(inq') \in Nat /\ inq \in Seq(Alarm)
      /\ \A i \in 1 .. Len(inq) : inq[i] \in Alarm
      /\ \A i \in 1 .. Len(inq') : inq'[i] \in Alarm
      /\ inq' = <<>> <=> Len(inq') = 0
  BY <1>1, SeqFacts DEF TypeOK
<1>3. /\ Alarm \subseteq Nat /\ NoAlarm \notin Alarm
      /\ sent \in [Alarm -> Nat] /\ next \in Nat /\ MaxTry \in Nat /\ InqCap \in Nat
      /\ Len(inq) <= InqCap
      /\ \A a \in Alarm : a \in Nat /\ sent[a] \in Nat
      /\ \A i \in 1 .. Len(inq') : inq'[i] \in Nat
  <2>1. Alarm \subseteq Nat /\ NoAlarm \notin Alarm
    BY DEF Alarm, NoAlarm, LinkAssumption
  <2>2. sent \in [Alarm -> Nat] /\ next \in Nat /\ Len(inq) <= InqCap
    BY <1>1 DEF LinkAssumption, TypeOK
  <2>3. MaxTry \in Nat /\ InqCap \in Nat
    BY DEF LinkAssumption
  <2>4. QED
    BY <1>2, <2>1, <2>2, <2>3
<1>4. Increasing'
  <2>1. SUFFICES ASSUME NEW i \in 1 .. Len(inq'), NEW j \in 1 .. Len(inq'), i < j
                 PROVE  inq'[i] < inq'[j]
    BY DEF Increasing
  <2>2. i + d \in 1 .. Len(inq) /\ j + d \in 1 .. Len(inq) /\ i + d < j + d
    BY <2>1
  <2>3. QED
    BY <1>1, <2>1, <2>2 DEF Increasing
<1>5. QueuedIsTaken'
  BY <1>1 DEF QueuedIsTaken
<1>6. Len(inq') <= InqCap
  BY <1>2, <1>3
<1>7. CASE inq' = <<>>
  <2>1. /\ UNCHANGED <<wire, sent>>
        /\ repeat' \in 0 .. MaxTry /\ timer' = "stopped" /\ obuf' = NoAlarm
    BY <1>7
  <2>2. TypeOK'
    BY <1>1, <1>6, <2>1 DEF TypeOK
  <2>3. Len(inq') = 0
    BY <1>2, <1>7
  <2>4. SentIsBefore'
    BY <2>1, <2>3 DEF SentIsBefore, Active
  <2>5. QED
    BY <1>1, <1>4, <1>5, <1>7, <2>1, <2>2, <2>4
    DEF ExchangeInv, NoLostWakeup, MaxCopies, SentIsTaken, HeadIsUnsent, InFlight, SendsIdle, Active
<1>8. CASE inq' # <<>>
  <2>1. 1 \in 1 .. Len(inq') /\ obuf' = inq'[1] /\ obuf' \in Alarm /\ obuf' # NoAlarm
        /\ sent[obuf'] = 0
    BY <1>2, <1>3, <1>8
  <2>2. /\ wire' = Append(wire, obuf') /\ repeat' = MaxTry /\ timer' = "active"
        /\ sent' = [sent EXCEPT ![obuf'] = @ + 1]
    BY <2>1 DEF WriteFrame
  <2>3. /\ sent' \in [Alarm -> Nat] /\ sent'[obuf'] = 1
        /\ \A a \in Alarm : a # obuf' => sent'[a] = sent[a]
    BY <1>3, <2>1, <2>2
  <2>4. TypeOK'
    <3>1. wire' \in Seq(Alarm)
      BY <1>1, <2>1, <2>2, AppendProperties DEF TypeOK
    <3>2. repeat' \in 0 .. MaxTry
      BY <1>3, <2>2
    <3>3. QED
      BY <1>1, <1>6, <2>1, <2>2, <2>3, <3>1, <3>2 DEF TypeOK
  <2>5. obuf' < next
    BY <1>5, <2>1 DEF QueuedIsTaken
  <2>6. \A i \in 1 .. Len(inq') : obuf' <= inq'[i]
    <3>1. SUFFICES ASSUME NEW i \in 1 .. Len(inq') PROVE inq'[1] <= inq'[i]
      BY <2>1
    <3>2. CASE i = 1
      BY <1>3, <2>1, <3>2
    <3>3. CASE i # 1
      <4>1. 1 < i
        BY <3>3
      <4>2. inq'[1] < inq'[i]
        BY <1>4, <2>1, <4>1 DEF Increasing
      <4>3. QED
        BY <1>3, <2>1, <4>2
    <3>4. QED
      BY <3>2, <3>3
  <2>7. MaxCopies' /\ InFlight'
    <3>1. MaxCopies'
      <4>1. 1 <= 1 + MaxTry
        BY <1>3
      <4>2. QED
        BY <1>1, <2>1, <2>3, <4>1 DEF MaxCopies
    <3>2. InFlight'
      BY <1>3, <2>1, <2>2, <2>3, <2>5, <2>6 DEF InFlight
    <3>3. QED
      BY <3>1, <3>2
  <2>8. SentIsTaken'
    BY <1>1, <1>3, <2>1, <2>3, <2>5 DEF SentIsTaken
  <2>9. SentIsBefore'
    <3>1. SUFFICES ASSUME NEW a \in Alarm, sent'[a] > 0 PROVE a <= obuf'
      <4>1. ASSUME NEW a \in Alarm, a <= obuf', NEW i \in 1 .. Len(inq')
            PROVE  a <= inq'[i]
        <5>1. a \in Nat /\ obuf' \in Nat /\ inq'[i] \in Nat
          BY <1>3, <2>1
        <5>2. obuf' <= inq'[i]
          BY <2>6
        <5>3. QED
          BY <4>1, <5>1, <5>2
      <4>2. QED
        BY <4>1 DEF SentIsBefore
    <3>2. CASE a = obuf'
      BY <1>3, <2>1, <3>2
    <3>3. CASE a # obuf'
      <4>1. sent[a] > 0
        BY <2>3, <3>1, <3>3
      <4>2. 1 + d \in 1 .. Len(inq) /\ obuf' = inq[1 + d]
        BY <2>1
      <4>3. QED
        BY <1>1, <4>1, <4>2 DEF SentIsBefore
    <3>4. QED
      BY <3>2, <3>3
  <2>10. QED
    BY <1>4, <1>5, <2>2, <2>4, <2>7, <2>8, <2>9
    DEF ExchangeInv, NoLostWakeup, HeadIsUnsent, SendsIdle, Active
<1>9. QED
  BY <1>7, <1>8

\* inq_cb after the test of the timer: no alarm is in flight, so the head is
\* one that has not been sent, and it stays where it is.
LEMMA InqSendStep == LinkAssumption /\ ExchangeInv /\ InqSend => ExchangeInv'
<1> SUFFICES ASSUME LinkAssumption, ExchangeInv, InqSend PROVE ExchangeInv'
  OBVIOUS
<1>1. TypeOK /\ HeadIsUnsent /\ SendsIdle
  BY DEF ExchangeInv
<1>2. /\ UNCHANGED <<next, npc, pipe, inq, acks, overflow, stray, late>>
      /\ obuf' = Inq!First(inq) /\ upc = "send" /\ upc' = "loop"
      /\ obuf' # NoAlarm => WriteFrame(obuf') /\ repeat' = MaxTry /\ timer' = "active"
      /\ obuf' = NoAlarm => UNCHANGED <<wire, sent, repeat, timer>>
  BY DEF InqSend, SendUart, Inq!Get, netVars
<1>3. timer = "stopped"
  BY <1>1, <1>2 DEF SendsIdle, TypeOK, Active
<1>4. /\ inq' \in Seq(Alarm) /\ Len(inq') <= Len(inq)
      /\ \A i \in 1 .. Len(inq') : i + 0 \in 1 .. Len(inq) /\ inq'[i] = inq[i + 0]
  BY <1>1, <1>2, SeqFacts DEF TypeOK
<1>5. /\ inq' = <<>> => obuf' = NoAlarm
      /\ inq' # <<>> => obuf' = inq'[1] /\ sent[inq'[1]] = 0
  BY <1>1, <1>2, <1>3 DEF Inq!First, HeadIsUnsent, Active
<1>6. /\ acks' \in Seq(Alarm) /\ overflow' \in Nat /\ stray' \in Nat
      /\ late' \in {"no", "yes"} /\ repeat \in 0 .. MaxTry
  BY <1>1, <1>2 DEF TypeOK
<1>7. obuf' = NoAlarm => /\ UNCHANGED <<wire, sent>>
                         /\ repeat' \in 0 .. MaxTry /\ timer' = "stopped"
  BY <1>2, <1>3, <1>6
<1>8. 0 \in {0, 1}
  OBVIOUS
<1>9. QED
  BY <1>2, <1>4, <1>5, <1>6, <1>7, <1>8, LoadStep

\* What follows the head in the queue has never been sent.
LEMMA SecondIsUnsent ==
  ASSUME LinkAssumption, ExchangeInv, Inq!GetNext
  PROVE  inq' # <<>> => sent[inq'[1]] = 0
<1> SUFFICES ASSUME inq' # <<>> PROVE sent[inq'[1]] = 0
  OBVIOUS
<1>1. /\ inq \in Seq(Alarm) /\ sent \in [Alarm -> Nat] /\ Increasing /\ SentIsBefore /\ TypeOK
  BY DEF ExchangeInv, TypeOK
<1>2. /\ \A i \in 1 .. Len(inq') : i + 1 \in 1 .. Len(inq) /\ inq'[i] = inq[i + 1]
      /\ inq' \in Seq(Alarm)
  BY <1>1, GetNextEffect
<1>3. 1 \in 1 .. Len(inq')
  BY <1>2, SeqFacts
<1>4. 2 \in 1 .. Len(inq) /\ 1 \in 1 .. Len(inq) /\ inq'[1] = inq[2]
  BY <1>2, <1>3
<1>5. inq[1] < inq[2] /\ inq[1] \in Alarm /\ inq[2] \in Alarm
  BY <1>1, <1>4, SeqFacts DEF Increasing
<1>6. inq[1] \in Nat /\ inq[2] \in Nat
  BY <1>5 DEF Alarm, LinkAssumption
<1>7. ~(sent[inq[2]] > 0)
  BY <1>1, <1>4, <1>5, <1>6 DEF SentIsBefore
<1>8. QED
  BY <1>1, <1>4, <1>5, <1>7

\* uart_tmeo_cb without tries left, and the ack: send_uart(1) discards the
\* head and sends the one behind it, which is new to the line.
LEMMA GetNextStep ==
  ASSUME LinkAssumption, ExchangeInv, NEW r \in 0 .. MaxTry,
         SendUart(Inq!GetNext, "stopped", r),
         UNCHANGED <<next, npc, pipe>>, upc' = "loop",
         acks' \in Seq(Alarm), overflow' \in Nat, stray' \in Nat,
         late' \in {"no", "yes"}
  PROVE  ExchangeInv'
<1>1. TypeOK
  BY DEF ExchangeInv
<1>2. /\ Inq!GetNext
      /\ obuf' # NoAlarm => WriteFrame(obuf') /\ repeat' = MaxTry /\ timer' = "active"
      /\ obuf' = NoAlarm => /\ UNCHANGED <<wire, sent>>
                            /\ repeat' \in 0 .. MaxTry /\ timer' = "stopped"
  BY DEF SendUart
<1>3. /\ inq' \in Seq(Alarm) /\ Len(inq') <= Len(inq)
      /\ \A i \in 1 .. Len(inq') : i + 1 \in 1 .. Len(inq) /\ inq'[i] = inq[i + 1]
      /\ inq' = <<>> => obuf' = NoAlarm
      /\ inq' # <<>> => obuf' = inq'[1]
  BY <1>1, <1>2, GetNextEffect
<1>4. inq' # <<>> => sent[inq'[1]] = 0
  BY <1>2, SecondIsUnsent
<1>5. 1 \in {0, 1}
  OBVIOUS
<1>6. QED
  BY <1>2, <1>3, <1>4, <1>5, LoadStep

\* Giving up leaves repeat_counter at zero until the next alarm is loaded.
LEMMA GiveUpStep == LinkAssumption /\ ExchangeInv /\ GiveUp => ExchangeInv'
<1> SUFFICES ASSUME LinkAssumption, ExchangeInv, GiveUp PROVE ExchangeInv'
  OBVIOUS
<1>1. TypeOK
  BY DEF ExchangeInv
<1>2. /\ SendUart(Inq!GetNext, "stopped", repeat) /\ repeat \in 0 .. MaxTry
      /\ UNCHANGED <<next, npc, pipe>> /\ upc' = "loop"
      /\ acks' \in Seq(Alarm) /\ overflow' \in Nat /\ stray' \in Nat
  BY <1>1 DEF GiveUp, Expires, netVars, TypeOK
<1>3. late' \in {"no", "yes"}
  BY <1>1 DEF GiveUp, Expires, TypeOK
<1>4. QED
  BY <1>2, <1>3, GetNextStep

\* An ack, in flight or stray, is a discard with the counter reset.
LEMMA AlarmAckStep == LinkAssumption /\ ExchangeInv /\ AlarmAck => ExchangeInv'
<1> SUFFICES ASSUME LinkAssumption, ExchangeInv, AlarmAck PROVE ExchangeInv'
  OBVIOUS
<1>1. TypeOK
  BY DEF ExchangeInv
<1>2. /\ SendUart(Inq!GetNext, "stopped", 0) /\ 0 \in 0 .. MaxTry
      /\ UNCHANGED <<next, npc, pipe>> /\ upc' = "loop"
      /\ overflow' \in Nat
  BY <1>1 DEF AlarmAck, netVars, TypeOK, LinkAssumption
<1>3. stray' \in Nat
  BY <1>1 DEF AlarmAck, TypeOK
<1>4. acks' \in Seq(Alarm)
  BY <1>1, HeadTailProperties DEF AlarmAck, TypeOK
<1>5. late' \in {"no", "yes"}
  BY <1>1 DEF AlarmAck, Settle, TypeOK
<1>6. QED
  BY <1>2, <1>3, <1>4, <1>5, GetNextStep

\* A retry uses up one try of the alarm in flight.
LEMMA RetryStep == LinkAssumption /\ ExchangeInv /\ Retry => ExchangeInv'
<1> SUFFICES ASSUME LinkAssumption, ExchangeInv, Retry PROVE ExchangeInv'
  OBVIOUS
<1>1. /\ TypeOK /\ NoLostWakeup /\ MaxCopies /\ Increasing /\ QueuedIsTaken
      /\ SentIsTaken /\ SentIsBefore /\ InFlight /\ SendsIdle
  BY DEF ExchangeInv
<1>2. /\ obuf \in Alarm /\ obuf # NoAlarm /\ obuf < next
      /\ \A i \in 1 .. Len(inq) : obuf <= inq[i]
      /\ sent[obuf] + repeat <= 1 + MaxTry
      /\ timer = "active" /\ upc = "loop"
  BY <1>1 DEF Retry, Expires, Active, InFlight, Alarm, NoAlarm, LinkAssumption
<1>3. /\ repeat > 0 /\ repeat' = repeat - 1 /\ timer' = "active"
      /\ wire' = Append(wire, obuf) /\ sent' = [sent EXCEPT ![obuf] = @ + 1]
      /\ UNCHANGED <<next, npc, inq, pipe, upc, obuf, acks, overflow, stray>>
  BY <1>2 DEF Retry, WriteFrame, netVars
<1>4. /\ sent \in [Alarm -> Nat] /\ repeat \in 0 .. MaxTry /\ MaxTry \in Nat
      /\ \A a \in Alarm : a \in Nat /\ sent[a] \in Nat
  <2>1. sent \in [Alarm -> Nat] /\ repeat \in 0 .. MaxTry /\ MaxTry \in Nat
    BY <1>1 DEF TypeOK, LinkAssumption
  <2>2. QED
    BY <2>1 DEF Alarm, LinkAssumption
<1>5. /\ sent' \in [Alarm -> Nat] /\ sent'[obuf] = sent[obuf] + 1
      /\ \A a \in Alarm : a # obuf => sent'[a] = sent[a]
  BY <1>2, <1>3, <1>4
<1>6. TypeOK'
  <2>1. wire' \in Seq(Alarm)
    BY <1>1, <1>2, <1>3, AppendProperties DEF TypeOK
  <2>2. repeat' \in 0 .. MaxTry
    BY <1>3, <1>4
  <2>3. late' \in {"no", "yes"}
    BY <1>1 DEF Retry, Expires, TypeOK
  <2>4. QED
    BY <1>1, <1>3, <1>5, <2>1, <2>2, <2>3 DEF TypeOK
<1>7. sent'[obuf] + repeat' <= 1 + MaxTry
  BY <1>2, <1>3, <1>4, <1>5
<1>8. InFlight'
  BY <1>2, <1>3, <1>7 DEF InFlight
<1>9. MaxCopies'
  <2>1. sent'[obuf] <= 1 + MaxTry
    BY <1>2, <1>3, <1>4, <1>5
  <2>2. QED
    BY <1>1, <1>5, <2>1 DEF MaxCopies
<1>10. SentIsTaken'
  <2>1. next \in Nat
    BY <1>1 DEF TypeOK, LinkAssumption
  <2>2. ~(obuf >= next)
    BY <1>2, <1>4, <2>1
  <2>3. QED
    BY <1>1, <1>3, <1>5, <2>2 DEF SentIsTaken
<1>11. SentIsBefore'
  <2>1. SUFFICES ASSUME NEW a \in Alarm, sent'[a] > 0
                 PROVE  (\A i \in 1 .. Len(inq) : a <= inq[i]) /\ a <= obuf
    BY <1>3 DEF SentIsBefore
  <2>2. CASE a = obuf
    BY <1>2, <1>4, <2>2
  <2>3. CASE a # obuf
    BY <1>1, <1>2, <1>5, <2>1, <2>3 DEF SentIsBefore, Active
  <2>4. QED
    BY <2>2, <2>3
<1>12. QED
  BY <1>1, <1>2, <1>3, <1>6, <1>8, <1>9, <1>10, <1>11
  DEF ExchangeInv, NoLostWakeup, Increasing, QueuedIsTaken, HeadIsUnsent, SendsIdle, Active

---------------------------------------------------------------------------
(* The line, and all steps together *)

\* What happens on the line changes nothing the invariant relates.
LEMMA LineStep == ExchangeInv /\ (Line \/ UNCHANGED vars) => ExchangeInv'
<1> SUFFICES ASSUME ExchangeInv, Line \/ UNCHANGED vars PROVE ExchangeInv'
  OBVIOUS
<1>1. TypeOK
  BY DEF ExchangeInv
<1>2. UNCHANGED <<next, npc, inq, pipe, upc, obuf, repeat, timer, sent, overflow, stray>>
  BY DEF Line, ArmReceive, LoseFrame, LoseAck, vars, netVars, uartVars
<1>3. wire' \in Seq(Alarm) /\ acks' \in Seq(Alarm)
  <2>1. wire \in Seq(Alarm) /\ acks \in Seq(Alarm)
    BY <1>1 DEF TypeOK
  <2>2. CASE ArmReceive
    BY <2>1, <2>2, HeadTailProperties, AppendProperties DEF ArmReceive
  <2>3. CASE LoseFrame
    BY <2>1, <2>3, HeadTailProperties DEF LoseFrame
  <2>4. CASE LoseAck
    BY <2>1, <2>4, HeadTailProperties DEF LoseAck
  <2>5. CASE UNCHANGED vars
    BY <2>1, <2>5 DEF vars, lineVars
  <2>6. QED
    BY <2>2, <2>3, <2>4, <2>5 DEF Line
<1>4. late' \in {"no", "yes"}
  BY <1>1 DEF Line, ArmReceive, LoseFrame, LoseAck, Settle, TypeOK, vars
<1>5. TypeOK'
  BY <1>1, <1>2, <1>3, <1>4 DEF TypeOK
<1>6. QED
  BY <1>2, <1>5
  DEF ExchangeInv, NoLostWakeup, MaxCopies, Increasing, QueuedIsTaken, SentIsTaken,
      SentIsBefore, HeadIsUnsent, InFlight, SendsIdle, Active

\* Every step keeps the invariant.
LEMMA NextExchangeInv == LinkAssumption /\ ExchangeInv /\ [Next]_vars => ExchangeInv'
BY PutAlarmStep, NotifyStep, InqCbStep, InqSendStep, RetryStep, GiveUpStep,
   AlarmAckStep, LineStep
DEF Next, Net, Uart

---------------------------------------------------------------------------
(* What is lost *)

\* The alarms that vanished unsent can be counted, and one more counts for one.
LEMMA NeverSentIsFinite ==
  ASSUME next \in Nat
  PROVE  IsFiniteSet(NeverSent) /\ Cardinality(NeverSent) \in Nat
<1>1. IsFiniteSet(1 .. next - 1)
  BY FS_Interval
<1>2. NeverSent \subseteq 1 .. next - 1
  BY DEF NeverSent, Taken
<1>3. QED
  BY <1>1, <1>2, FS_Subset, FS_CardinalityType

LEMMA Fewer ==
  ASSUME NEW S, IsFiniteSet(S), NEW T, T \subseteq S
  PROVE  Cardinality(T) \in Nat /\ Cardinality(T) <= Cardinality(S)
BY FS_Subset, FS_CardinalityType

LEMMA OneMore ==
  ASSUME NEW S, IsFiniteSet(S), NEW x, NEW T, T \subseteq S \cup {x}
  PROVE  Cardinality(T) \in Nat /\ Cardinality(T) <= Cardinality(S) + 1
<1>1. /\ IsFiniteSet(S \cup {x}) /\ Cardinality(S) \in Nat
      /\ Cardinality(S \cup {x}) = Cardinality(S) \/ Cardinality(S \cup {x}) = Cardinality(S) + 1
  BY FS_AddElement, FS_CardinalityType
<1>2. Cardinality(T) \in Nat /\ Cardinality(T) <= Cardinality(S \cup {x})
  BY <1>1, Fewer
<1>3. QED
  BY <1>1, <1>2

\* The alarm in flight is the head of the queue, if it is still there.
LEMMA HeadIsInFlight == LinkAssumption /\ ExchangeInv => InFlightIsHead
<1>1. SUFFICES ASSUME LinkAssumption, ExchangeInv, Active
               PROVE  obuf \in Taken /\ (obuf \in Queued => Head(inq) = obuf)
  BY DEF InFlightIsHead
<1>2. /\ TypeOK /\ Increasing
      /\ obuf \in Alarm /\ obuf < next /\ \A i \in 1 .. Len(inq) : obuf <= inq[i]
  BY <1>1 DEF ExchangeInv, InFlight
<1>3. inq \in Seq(Alarm) /\ next \in Nat /\ Alarm \subseteq Nat /\ \A a \in Alarm : a >= 1
  BY <1>1, <1>2 DEF TypeOK, Alarm, LinkAssumption
<1>4. obuf \in Taken
  BY <1>2, <1>3 DEF Taken
<1>5. SUFFICES ASSUME NEW i \in 1 .. Len(inq), obuf = inq[i] PROVE Head(inq) = obuf
  BY <1>4 DEF Queued
<1>6. Len(inq) \in Nat /\ inq # <<>> /\ 1 \in 1 .. Len(inq) /\ inq[1] \in Nat
  <2>1. Len(inq) \in Nat /\ \A k \in 1 .. Len(inq) : inq[k] \in Alarm
    BY <1>3, SeqFacts
  <2>2. Len(inq) # 0 /\ 1 \in 1 .. Len(inq)
    BY <1>5, <2>1
  <2>3. QED
    BY <1>3, <2>1, <2>2, SeqFacts
<1>7. i # 1 => inq[1] < inq[i]
  BY <1>2, <1>5, <1>6 DEF Increasing
<1>8. obuf <= inq[1] /\ obuf \in Nat
  BY <1>2, <1>3, <1>6
<1>9. i = 1
  BY <1>5, <1>6, <1>7, <1>8
<1>10. QED
  BY <1>5, <1>6, <1>9

\* An unsent alarm that is not lost is in the queue.
LEMMA UnsentIsQueued ==
  ASSUME NEW a \in Taken, sent[a] = 0, a \notin NeverSent
  PROVE  \E k \in 1 .. Len(inq) : inq[k] = a
BY DEF NeverSent, Queued

\* What the steps below share: of the alarms of the queue none but the head
\* gets lost, and not even that if it is in flight.
LEMMA HeadIsLost ==
  ASSUME LinkAssumption, IInv, NEW a \in Taken \ Queued', sent[a] = 0, a \notin NeverSent,
         NEW d \in {0, 1}, NEW m \in Nat, m >= Len(inq) - d, m <= Len(inq'),
         \A i \in 1 .. m : inq'[i] = inq[i + d], Len(inq') \in Nat
  PROVE  d = 1 /\ inq # <<>> /\ a = inq[1] /\ ~(Active /\ obuf \in Queued)
<1>1. TypeOK /\ Len(inq) \in Nat /\ InFlightIsHead /\ SentInFlight
  BY HeadIsInFlight, SeqFacts DEF IInv, ExchangeInv, TypeOK
<1>2. PICK k \in 1 .. Len(inq) : inq[k] = a
  BY UnsentIsQueued
<1>3. k - d \notin 1 .. m
  <2>1. SUFFICES ASSUME k - d \in 1 .. m PROVE FALSE
    OBVIOUS
  <2>2. k - d \in 1 .. Len(inq') /\ (k - d) + d = k
    BY <1>1, <2>1
  <2>3. inq'[k - d] = a
    BY <1>2, <2>1, <2>2
  <2>4. QED
    BY <2>2, <2>3 DEF Queued
<1>4. k = 1 /\ d = 1
  BY <1>1, <1>3
<1>5. inq # <<>> /\ Head(inq) = inq[1]
  BY <1>1, <1>2, SeqFacts, HeadTailProperties DEF TypeOK
<1>6. ~(Active /\ obuf \in Queued)
  <2>1. SUFFICES ASSUME Active, obuf \in Queued PROVE FALSE
    OBVIOUS
  <2>2. a = obuf /\ sent[obuf] > 0
    BY <1>1, <1>2, <1>4, <1>5, <2>1 DEF InFlightIsHead, SentInFlight
  <2>3. QED
    BY <2>2
<1>7. QED
  BY <1>2, <1>4, <1>5, <1>6

\* An overflow loses the head, or displaces the alarm in flight.
LEMMA PutAlarmLoss == LinkAssumption /\ IInv /\ PutAlarm => LossAccounted'
<1> SUFFICES ASSUME LinkAssumption, IInv, PutAlarm PROVE LossAccounted'
  OBVIOUS
<1>1. /\ TypeOK /\ LossAccounted /\ next \in Nat /\ overflow \in Nat /\ stray \in Nat
      /\ Len(inq) \in Nat /\ Displaced \in {0, 1}
  BY SeqFacts DEF IInv, ExchangeInv, TypeOK, Displaced, LinkAssumption
<1>2. /\ next \in Alarm /\ next' = next + 1 /\ Inq!Put(next)
      /\ UNCHANGED <<obuf, timer, sent, stray>>
      /\ overflow' = IF Inq!Full THEN overflow + 1 ELSE overflow
  BY DEF PutAlarm, Inq!Put
<1>3. PICK d \in {0, 1} :
           /\ d = 1 <=> Inq!Full
           /\ Len(inq') = Len(inq) - d + 1
           /\ \A i \in 1 .. Len(inq') - 1 : i + d \in 1 .. Len(inq) /\ inq'[i] = inq[i + d]
           /\ inq'[Len(inq')] = next
  BY <1>1, <1>2, PutEffect
<1>4. Len(inq') \in Nat \ {0} /\ Len(inq') - 1 \in Nat
  <2>1. Len(inq') \in 1 .. InqCap /\ InqCap \in Nat
    BY <1>1, <1>2, PutEffect DEF LinkAssumption
  <2>2. QED
    BY <2>1
<1>5. next \in Queued'
  <2>1. Len(inq') \in 1 .. Len(inq')
    BY <1>4
  <2>2. QED
    BY <1>3, <2>1 DEF Queued
<1>6. ASSUME NEW a \in NeverSent', a \notin NeverSent
      PROVE  d = 1 /\ a = inq[1] /\ ~(Active /\ obuf \in Queued)
  <2>1. a \in Taken' \ Queued' /\ sent[a] = 0
    BY <1>2, <1>6 DEF NeverSent
  <2>2. a \in Taken
    BY <1>1, <1>2, <1>5, <2>1 DEF Taken
  <2>3. Len(inq') - 1 >= Len(inq) - d /\ Len(inq') - 1 <= Len(inq')
    BY <1>1, <1>3, <1>4
  <2>4. QED
    BY <1>3, <1>4, <1>6, <2>1, <2>2, <2>3, HeadIsLost
<1>7. Displaced' \in {0, 1} /\ (Active' <=> Active)
  BY <1>2 DEF Displaced, Active
<1>8. IsFiniteSet(NeverSent) /\ Cardinality(NeverSent) \in Nat
  BY <1>1, NeverSentIsFinite
<1>9. CASE d = 0
  <2>1. NeverSent' \subseteq NeverSent
    BY <1>6, <1>9
  <2>2. Queued \subseteq Queued'
    <3>1. SUFFICES ASSUME NEW i \in 1 .. Len(inq) PROVE inq[i] \in Queued'
      BY DEF Queued
    <3>2. i \in 1 .. Len(inq') - 1 /\ i \in 1 .. Len(inq') /\ i + 0 = i
      BY <1>1, <1>3, <1>9
    <3>3. inq'[i] = inq[i]
      BY <1>3, <1>9, <3>2
    <3>4. QED
      BY <3>2, <3>3 DEF Queued
  <2>3. Displaced' <= Displaced
    BY <1>2, <1>7, <2>2 DEF Displaced
  <2>4. overflow' = overflow /\ stray' = stray
    BY <1>2, <1>3, <1>9
  <2>5. Cardinality(NeverSent') \in Nat /\ Cardinality(NeverSent') <= Cardinality(NeverSent)
    BY <1>8, <2>1, Fewer
  <2>6. QED
    BY <1>1, <1>7, <1>8, <2>3, <2>4, <2>5 DEF LossAccounted
<1>10. CASE d = 1
  <2>1. overflow' = overflow + 1 /\ stray' = stray
    BY <1>2, <1>3, <1>10
  <2>2. CASE Active /\ obuf \in Queued
    <3>1. NeverSent' \subseteq NeverSent
      BY <1>6, <2>2
    <3>2. Cardinality(NeverSent') \in Nat /\ Cardinality(NeverSent') <= Cardinality(NeverSent)
      BY <1>8, <3>1, Fewer
    <3>3. QED
      BY <1>1, <1>7, <1>8, <2>1, <3>2 DEF LossAccounted
  <2>3. CASE ~(Active /\ obuf \in Queued)
    <3>1. Displaced' <= Displaced
      BY <1>2, <1>7, <2>3 DEF Displaced
    <3>2. NeverSent' \subseteq NeverSent \cup {inq[1]}
      BY <1>6
    <3>3. Cardinality(NeverSent') \in Nat /\ Cardinality(NeverSent') <= Cardinality(NeverSent) + 1
      BY <1>8, <3>2, OneMore
    <3>4. QED
      BY <1>1, <1>7, <1>8, <2>1, <3>1, <3>3 DEF LossAccounted
  <2>4. QED
    BY <2>2, <2>3
<1>11. QED
  BY <1>9, <1>10

\* What writes a frame adds to the count of its alarm and to no other.
LEMMA CountGrows ==
  ASSUME TypeOK, NEW x \in Alarm, sent' = [sent EXCEPT ![x] = @ + 1]
  PROVE  /\ sent'[x] > 0
         /\ \A a \in Alarm : sent'[a] = 0 => sent[a] = 0
<1>1. sent \in [Alarm -> Nat]
  BY DEF TypeOK
<1>2. sent'[x] = sent[x] + 1 /\ \A a \in Alarm \ {x} : sent'[a] = sent[a]
  BY <1>1
<1>3. QED
  BY <1>1, <1>2

\* fq_get_ai loses the head, unless it is the alarm that was in flight; after
\* it nothing is displaced.
LEMMA GetNextLoss ==
  ASSUME LinkAssumption, IInv, NEW r, SendUart(Inq!GetNext, "stopped", r), next' = next
  PROVE  /\ Displaced' = 0 /\ SentInFlight'
         /\ Cardinality(NeverSent') \in Nat
         /\ Cardinality(NeverSent') <= Cardinality(NeverSent) + 1
         /\ Active /\ obuf \in Queued => Cardinality(NeverSent') <= Cardinality(NeverSent)
<1>1. TypeOK /\ next \in 1 .. N + 1 /\ next \in Nat /\ Len(inq) \in Nat /\ N \in Nat
  BY SeqFacts DEF IInv, ExchangeInv, TypeOK, LinkAssumption
<1>2. /\ Inq!GetNext
      /\ obuf' # NoAlarm => Active' /\ sent' = [sent EXCEPT ![obuf'] = @ + 1]
      /\ obuf' = NoAlarm => ~Active' /\ sent' = sent
  BY DEF SendUart, WriteFrame, Active
<1>3. /\ inq' \in Seq(Alarm)
      /\ inq # <<>> => Len(inq') = Len(inq) - 1
      /\ \A i \in 1 .. Len(inq') : i + 1 \in 1 .. Len(inq) /\ inq'[i] = inq[i + 1]
      /\ inq' = <<>> => obuf' = NoAlarm
      /\ inq' # <<>> => obuf' = inq'[1]
  BY <1>1, <1>2, GetNextEffect
<1>4. Len(inq') \in Nat /\ (inq' # <<>> => 1 \in 1 .. Len(inq'))
  <2>1. Len(inq') \in Nat /\ (inq' = <<>> <=> Len(inq') = 0)
    BY <1>3, SeqFacts
  <2>2. QED
    BY <2>1
<1>5. Active' => obuf' \in Queued' /\ obuf' \in Alarm
  <2>1. SUFFICES ASSUME Active' PROVE obuf' \in Queued' /\ obuf' \in Alarm
    OBVIOUS
  <2>2. inq' # <<>> /\ obuf' = inq'[1] /\ 1 \in 1 .. Len(inq')
    BY <1>2, <1>3, <1>4, <2>1
  <2>3. QED
    BY <1>3, <2>2, SeqFacts DEF Queued
<1>6. Displaced' = 0
  BY <1>5 DEF Displaced
<1>7. SentInFlight'
  BY <1>1, <1>2, <1>5, CountGrows DEF SentInFlight
<1>8. \A a \in Alarm : sent'[a] = 0 => sent[a] = 0
  BY <1>1, <1>2, <1>5, CountGrows
<1>9. ASSUME NEW a \in NeverSent', a \notin NeverSent
      PROVE  a = inq[1] /\ ~(Active /\ obuf \in Queued)
  <2>1. a \in Taken \ Queued' /\ sent'[a] = 0
    BY <1>9 DEF NeverSent, Taken
  <2>2. sent[a] = 0
    <3>1. a \in Alarm
      BY <1>1, <2>1 DEF Taken, Alarm
    <3>2. QED
      BY <1>8, <2>1, <3>1
  <2>3. inq # <<>>
    BY <1>1, <1>9, <2>1, <2>2, UnsentIsQueued, SeqFacts DEF TypeOK
  <2>4. Len(inq') >= Len(inq) - 1 /\ Len(inq') <= Len(inq')
    BY <1>1, <1>3, <1>4, <2>3
  <2>5. QED
    BY <1>3, <1>4, <1>9, <2>1, <2>2, <2>4, HeadIsLost
<1>10. IsFiniteSet(NeverSent)
  BY <1>1, NeverSentIsFinite
<1>11. NeverSent' \subseteq NeverSent \cup {inq[1]}
  BY <1>9
<1>12. /\ Cardinality(NeverSent') \in Nat
       /\ Cardinality(NeverSent') <= Cardinality(NeverSent) + 1
  BY <1>10, <1>11, OneMore
<1>13. Active /\ obuf \in Queued => Cardinality(NeverSent') <= Cardinality(NeverSent)
  <2>1. SUFFICES ASSUME Active, obuf \in Queued
                 PROVE  Cardinality(NeverSent') <= Cardinality(NeverSent)
    OBVIOUS
  <2>2. NeverSent' \subseteq NeverSent
    BY <1>9, <2>1
  <2>3. QED
    BY <1>10, <2>2, Fewer
<1>14. QED
  BY <1>6, <1>7, <1>12, <1>13

\* Every loss keeps having its cause, and what is in flight has been written.
LEMMA LossStep ==
  LinkAssumption /\ IInv /\ [Next]_vars => LossAccounted' /\ SentInFlight'
<1> SUFFICES ASSUME LinkAssumption, IInv, [Next]_vars
             PROVE  LossAccounted' /\ SentInFlight'
  OBVIOUS
<1>1. /\ TypeOK /\ LossAccounted /\ SentInFlight /\ next \in Nat
      /\ overflow \in Nat /\ stray \in Nat /\ Displaced \in {0, 1}
  BY DEF IInv, ExchangeInv, TypeOK, Displaced, LinkAssumption
<1>2. IsFiniteSet(NeverSent) /\ Cardinality(NeverSent) \in Nat
  BY <1>1, NeverSentIsFinite
<1>3. CASE PutAlarm
  BY <1>1, <1>3, PutAlarmLoss DEF PutAlarm, SentInFlight, Active, Inq!Put
<1>4. CASE InqSend
  <2>1. /\ ~Active /\ Inq!Get /\ UNCHANGED <<next, overflow, stray>>
        /\ obuf' # NoAlarm => Active' /\ sent' = [sent EXCEPT ![obuf'] = @ + 1]
        /\ obuf' = NoAlarm => ~Active' /\ sent' = sent
    BY <1>4 DEF InqSend, SendUart, WriteFrame, Active, IInv, ExchangeInv, SendsIdle, netVars
  <2>2. inq' = inq /\ obuf' = IF inq = <<>> THEN NoAlarm ELSE Head(inq)
    BY <2>1 DEF Inq!Get, Inq!First
  <2>3. inq # <<>> => Head(inq) \in Alarm /\ Head(inq) \in Queued
    <3>1. inq # <<>> => Head(inq) = inq[1] /\ 1 \in 1 .. Len(inq) /\ inq[1] \in Alarm
      <4>1. inq \in Seq(Alarm) /\ (inq # <<>> => Len(inq) \in Nat \ {0})
        BY <1>1, EmptySeq DEF TypeOK
      <4>2. \A n \in Nat \ {0} : 1 \in 1 .. n
        OBVIOUS
      <4>3. QED
        BY <4>1, <4>2, HeadTailProperties, SeqFacts
    <3>2. QED
      BY <3>1 DEF Queued
  <2>4. Active' => obuf' \in Alarm /\ obuf' \in Queued
    BY <2>1, <2>2, <2>3
  <2>5. Displaced' = 0
    BY <2>2, <2>4 DEF Displaced, Queued
  <2>6. SentInFlight'
    BY <1>1, <2>1, <2>4, CountGrows DEF SentInFlight
  <2>7. NeverSent' \subseteq NeverSent
    <3>1. \A a \in Alarm : sent'[a] = 0 => sent[a] = 0
      BY <1>1, <2>1, <2>4, CountGrows
    <3>2. Taken' = Taken /\ Queued' = Queued /\ Taken \subseteq Alarm
      BY <1>1, <2>1, <2>2 DEF Taken, Queued, Alarm, TypeOK, LinkAssumption
    <3>3. QED
      BY <3>1, <3>2 DEF NeverSent
  <2>8. Cardinality(NeverSent') \in Nat /\ Cardinality(NeverSent') <= Cardinality(NeverSent)
    BY <1>2, <2>7, Fewer
  <2>9. QED
    BY <1>1, <1>2, <2>1, <2>5, <2>6, <2>8 DEF LossAccounted
<1>5. CASE Retry
  <2>1. /\ Active /\ UNCHANGED <<next, inq, obuf, overflow, stray>>
        /\ obuf # NoAlarm => Active' /\ sent' = [sent EXCEPT ![obuf] = @ + 1]
    BY <1>5 DEF Retry, Expires, WriteFrame, Active, netVars
  <2>2. obuf \in Alarm /\ obuf # NoAlarm
    BY <2>1 DEF IInv, ExchangeInv, InFlight, LinkAssumption, Alarm, NoAlarm
  <2>3. SentInFlight' /\ \A a \in Alarm : sent'[a] = 0 => sent[a] = 0
    BY <1>1, <2>1, <2>2, CountGrows DEF SentInFlight
  <2>4. /\ Taken' = Taken /\ Queued' = Queued /\ Taken \subseteq Alarm
        /\ Displaced' = Displaced
    BY <1>1, <2>1, <2>2 DEF Taken, Queued, Alarm, TypeOK, LinkAssumption, Displaced
  <2>5. NeverSent' \subseteq NeverSent
    BY <2>3, <2>4 DEF NeverSent
  <2>6. Cardinality(NeverSent') \in Nat /\ Cardinality(NeverSent') <= Cardinality(NeverSent)
    BY <1>2, <2>5, Fewer
  <2>7. QED
    BY <1>1, <1>2, <2>1, <2>3, <2>4, <2>6 DEF LossAccounted
<1>6. CASE GiveUp
  <2>1. /\ Active /\ UNCHANGED <<next, overflow, stray>>
        /\ SendUart(Inq!GetNext, "stopped", repeat)
    BY <1>6 DEF GiveUp, Expires, netVars
  <2>2. /\ Displaced' = 0 /\ SentInFlight'
        /\ Cardinality(NeverSent') \in Nat
        /\ Cardinality(NeverSent') <= Cardinality(NeverSent) + 1
        /\ Active /\ obuf \in Queued => Cardinality(NeverSent') <= Cardinality(NeverSent)
    BY <2>1, GetNextLoss
  <2>3. obuf \notin Queued => Displaced = 1
    BY <2>1 DEF Displaced
  <2>4. QED
    BY <1>1, <1>2, <2>1, <2>2, <2>3 DEF LossAccounted
<1>7. CASE AlarmAck
  <2>1. /\ UNCHANGED <<next, overflow>> /\ SendUart(Inq!GetNext, "stopped", 0)
        /\ stray' = IF Active THEN stray ELSE stray + 1
    BY <1>7 DEF AlarmAck, netVars
  <2>2. /\ Displaced' = 0 /\ SentInFlight'
        /\ Cardinality(NeverSent') \in Nat
        /\ Cardinality(NeverSent') <= Cardinality(NeverSent) + 1
        /\ Active /\ obuf \in Queued => Cardinality(NeverSent') <= Cardinality(NeverSent)
    BY <2>1, GetNextLoss
  <2>3. Active /\ obuf \notin Queued => Displaced = 1
    BY DEF Displaced
  <2>4. QED
    BY <1>1, <1>2, <2>1, <2>2, <2>3 DEF LossAccounted
<1>8. CASE Notify \/ InqCb \/ Line \/ UNCHANGED vars
  <2>1. UNCHANGED <<next, inq, obuf, timer, sent, overflow, stray>>
    BY <1>8 DEF Notify, InqCb, Line, ArmReceive, LoseFrame, LoseAck, vars, netVars, uartVars
  <2>2. QED
    BY <1>1, <2>1 DEF LossAccounted, SentInFlight, NeverSent, Displaced, Taken, Queued, Active
<1>9. QED
  BY <1>3, <1>4, <1>5, <1>6, <1>7, <1>8 DEF Next, Net, Uart

---------------------------------------------------------------------------
(* What is on the line *)

\* A sequence with one element, and what is left of it.
LEMMA OneElement ==
  ASSUME NEW x, NEW S, x \in S
  PROVE  /\ Append(<<>>, x) = <<x>> /\ Head(<<x>>) = x /\ Tail(<<x>>) = <<>>
         /\ <<x>> # <<>>
OBVIOUS

\* A frame is written only to a quiet line, unless an answer is late, and an
\* ack is there to be taken only for the alarm in flight.
LEMMA LineInOrder == IInv /\ [Next]_vars => OneOnTheLine'
<1> SUFFICES ASSUME IInv, [Next]_vars, late' = "no"
             PROVE  \/ wire' = <<>> /\ acks' = <<>>
                    \/ Active' /\ <<wire', acks'>> \in {<<<<obuf'>>, <<>>>>, <<<<>>, <<obuf'>>>>}
  BY DEF OneOnTheLine
<1>1. /\ TypeOK /\ late \in {"no", "yes"} /\ (upc = "send" => ~Active)
      /\ late = "no" =>
           \/ wire = <<>> /\ acks = <<>>
           \/ Active /\ wire = <<obuf>> /\ acks = <<>>
           \/ Active /\ wire = <<>> /\ acks = <<obuf>>
      /\ Active => obuf # NoAlarm
  BY DEF IInv, ExchangeInv, OneOnTheLine, TypeOK, SendsIdle, InFlight, Alarm, NoAlarm
<1>2. \A x : Append(<<>>, x) = <<x>> /\ Head(<<x>>) = x /\ Tail(<<x>>) = <<>> /\ <<x>> # <<>>
  BY OneElement
\* send_uart on a line that is quiet.
<1>3. ASSUME wire = <<>>, acks' = <<>>,
             \/ obuf' # NoAlarm /\ WriteFrame(obuf') /\ timer' = "active"
             \/ wire' = wire
      PROVE  \/ wire' = <<>> /\ acks' = <<>>
             \/ Active' /\ wire' = <<obuf'>> /\ acks' = <<>>
  BY <1>2, <1>3 DEF WriteFrame, Active
<1>4. CASE InqSend
  <2>1. /\ ~Active /\ late = "no" /\ acks' = acks
        /\ \/ obuf' # NoAlarm /\ WriteFrame(obuf') /\ timer' = "active"
           \/ wire' = wire
    BY <1>1, <1>4 DEF InqSend, SendUart
  <2>2. wire = <<>> /\ acks = <<>>
    BY <1>1, <2>1
  <2>3. QED
    BY <1>3, <2>1, <2>2
<1>5. CASE Retry \/ GiveUp
  <2>1. /\ wire = <<>> /\ acks = <<>> /\ acks' = acks
        /\ \/ obuf' # NoAlarm /\ WriteFrame(obuf') /\ timer' = "active"
           \/ wire' = wire
    BY <1>5 DEF Retry, GiveUp, Expires, SendUart
  <2>2. QED
    BY <1>3, <2>1
<1>6. CASE AlarmAck
  <2>1. /\ acks # <<>> /\ acks' = Tail(acks)
        /\ late' = IF wire = <<>> /\ Tail(acks) = <<>> THEN "no" ELSE late
        /\ \/ obuf' # NoAlarm /\ WriteFrame(obuf') /\ timer' = "active"
           \/ wire' = wire
    BY <1>6 DEF AlarmAck, SendUart, Settle
  <2>2. wire = <<>> /\ Tail(acks) = <<>>
    BY <1>1, <1>2, <2>1
  <2>3. QED
    BY <1>3, <2>1, <2>2
<1>7. CASE ArmReceive
  <2>1. /\ wire # <<>> /\ wire' = Tail(wire) /\ acks' = Append(acks, Head(wire))
        /\ UNCHANGED <<obuf, timer, late>>
    BY <1>7 DEF ArmReceive, uartVars
  <2>2. Active /\ wire = <<obuf>> /\ acks = <<>>
    BY <1>1, <2>1
  <2>3. Active' /\ wire' = <<>> /\ acks' = <<obuf'>>
    BY <1>2, <2>1, <2>2 DEF Active
  <2>4. QED
    BY <2>3
<1>8. CASE LoseFrame
  <2>1. /\ wire # <<>> /\ wire' = Tail(wire) /\ acks' = acks
        /\ late' = IF Tail(wire) = <<>> /\ acks = <<>> THEN "no" ELSE late
    BY <1>8 DEF LoseFrame, Settle
  <2>2. QED
    BY <1>1, <1>2, <2>1
<1>9. CASE LoseAck
  <2>1. /\ acks # <<>> /\ acks' = Tail(acks) /\ wire' = wire
        /\ late' = IF wire = <<>> /\ Tail(acks) = <<>> THEN "no" ELSE late
    BY <1>9 DEF LoseAck, Settle
  <2>2. QED
    BY <1>1, <1>2, <2>1
<1>10. CASE PutAlarm \/ Notify \/ InqCb \/ UNCHANGED vars
  <2>1. UNCHANGED <<obuf, timer, wire, acks, late>>
    BY <1>10 DEF PutAlarm, Inq!Put, Notify, InqCb, vars, uartVars, lineVars
  <2>2. QED
    BY <1>1, <2>1 DEF Active
<1>11. QED
  BY <1>4, <1>5, <1>6, <1>7, <1>8, <1>9, <1>10 DEF Next, Net, Uart, Line

---------------------------------------------------------------------------
(* The theorems *)

\* In the first state nothing is lost, in flight or on the line.
LEMMA InitIInv == LinkAssumption /\ Init => IInv
<1> SUFFICES ASSUME LinkAssumption, Init PROVE IInv
  OBVIOUS
<1>1. ExchangeInv
  BY InitExchangeInv
<1>2. SentInFlight /\ OneOnTheLine
  BY DEF Init, SentInFlight, OneOnTheLine, Active
<1>3. LossAccounted
  <2>1. NeverSent = {}
    BY DEF Init, NeverSent, Taken
  <2>2. Displaced = 0 /\ overflow = 0 /\ stray = 0
    BY DEF Init, Displaced, Active
  <2>3. QED
    BY <2>1, <2>2, FS_EmptySet DEF LossAccounted
<1>4. QED
  BY <1>1, <1>2, <1>3 DEF IInv

\* The invariant of the link that the theorems below rest on.
THEOREM Invariance == Spec => []IInv
<1>1. Init => IInv
  BY LinkAssumption, InitIInv
<1>2. IInv /\ [Next]_vars => IInv'
  BY LinkAssumption, NextExchangeInv, LossStep, LineInOrder DEF IInv
<1>3. QED
  BY <1>1, <1>2, PTL DEF Spec

\* Type correctness.
THEOREM TypeCorrect == Spec => []TypeOK
<1>1. IInv => TypeOK
  BY DEF IInv, ExchangeInv
<1>2. QED
  BY <1>1, Invariance, PTL

\* Alarms in g_inq never wait with the link idle and no command byte there,
\* on its way or being served, even if the pipe holds a single byte.
THEOREM Wakeup == Spec => []NoLostWakeup
<1>1. IInv => NoLostWakeup
  BY DEF IInv, ExchangeInv
<1>2. QED
  BY <1>1, Invariance, PTL

\* No alarm is written more often than once and UART_MAX_TRY times again.
THEOREM BoundedCopies == Spec => []MaxCopies
<1>1. IInv => MaxCopies
  BY DEF IInv, ExchangeInv
<1>2. QED
  BY <1>1, Invariance, PTL

\* The alarm in flight is the head of the queue or no longer in it: no
\* sequence of overflows, acks and timeouts puts another one in front.
THEOREM HeadInFlight == Spec => []InFlightIsHead
<1>1. IInv => InFlightIsHead
  BY LinkAssumption, HeadIsInFlight DEF IInv
<1>2. QED
  BY <1>1, Invariance, PTL

\* A frame is written only by a step that ends with it in flight.
LEMMA WritesInFlight ==
  ASSUME [Next]_vars
  PROVE  sent' = sent \/ /\ Active' /\ obuf' # NoAlarm
                         /\ sent' = [sent EXCEPT ![obuf'] = @ + 1]
<1>1. CASE InqSend
  BY <1>1 DEF InqSend, SendUart, WriteFrame, Active
<1>2. CASE GiveUp
  BY <1>2 DEF GiveUp, SendUart, WriteFrame, Active
<1>3. CASE AlarmAck
  BY <1>3 DEF AlarmAck, SendUart, WriteFrame, Active
<1>4. CASE Retry
  BY <1>4 DEF Retry, WriteFrame, Active
<1>5. CASE PutAlarm \/ Notify \/ InqCb \/ Line \/ UNCHANGED vars
  BY <1>5 DEF PutAlarm, Notify, InqCb, Line, ArmReceive, LoseFrame, LoseAck, vars
<1>6. QED
  BY <1>1, <1>2, <1>3, <1>4, <1>5 DEF Next, Net, Uart

\* Alarms are written to the line in the order of their arrival.
THEOREM ArrivalOrder == Spec => InOrder
<1>1. IInv /\ IInv' /\ [Next]_vars =>
        [\A a \in Alarm : sent'[a] > sent[a] =>
           \A b \in Alarm : b > a => sent[b] = 0]_vars
  <2>1. SUFFICES ASSUME IInv, IInv', [Next]_vars,
                        NEW a \in Alarm, sent'[a] > sent[a],
                        NEW b \in Alarm, b > a
                 PROVE  sent[b] = 0
    OBVIOUS
  <2>2. /\ sent \in [Alarm -> Nat] /\ a \in Nat /\ b \in Nat
        /\ \A c \in Alarm : sent[c] \in Nat
    <3>1. sent \in [Alarm -> Nat]
      BY <2>1 DEF IInv, ExchangeInv, TypeOK
    <3>2. QED
      BY <3>1, LinkAssumption DEF Alarm
  <2>3. sent' # sent
    BY <2>1, <2>2
  <2>4. Active' /\ sent' = [sent EXCEPT ![obuf'] = @ + 1]
    BY <2>1, <2>3, WritesInFlight
  <2>5. a = obuf'
    BY <2>1, <2>2, <2>4
  <2>6. sent'[b] = sent[b]
    BY <2>1, <2>2, <2>4, <2>5
  <2>7. sent'[b] > 0 => b <= obuf'
    BY <2>1, <2>4 DEF IInv, ExchangeInv, SentIsBefore
  <2>8. QED
    BY <2>1, <2>2, <2>5, <2>6, <2>7
<1>2. QED
  BY <1>1, Invariance, PTL DEF Spec, InOrder

\* No more alarms vanish unsent than there were overflows and stray acks.
THEOREM LossHasItsCause == Spec => []LossAccounted
<1>1. IInv => LossAccounted
  BY DEF IInv
<1>2. QED
  BY <1>1, Invariance, PTL

\* Unless an answer is late, the ack that is taken is that of the alarm in
\* flight, which carries nothing to tell it by.
THEOREM AckIsForTheAlarmInFlight == Spec => AckEndsItsExchange
<1>1. IInv /\ [Next]_vars => [late = "no" /\ AlarmAck => Active /\ obuf = Head(acks)]_vars
  <2>1. SUFFICES ASSUME IInv, late = "no", AlarmAck PROVE Active /\ obuf = Head(acks)
    OBVIOUS
  <2>2. acks # <<>> /\ OneOnTheLine
    BY <2>1 DEF AlarmAck, IInv
  <2>3. Active /\ acks = <<obuf>>
    BY <2>1, <2>2 DEF OneOnTheLine
  <2>4. QED
    BY <2>3, OneElement
<1>2. QED
  BY <1>1, Invariance, PTL DEF Spec, AckEndsItsExchange
=============================================================================
