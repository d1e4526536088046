---------------------------- MODULE NetCtlProofs ----------------------------
(***************************************************************************)
(* Proofs about NetCtl, for every number of connections, configurations    *)
(* and messages, all values of the items and every capacity of the queue   *)
(* and its pipe.                                                           *)
(***************************************************************************)
EXTENDS NetCtl, FiniteSetTheorems, SequenceTheorems, TLAPS

---------------------------------------------------------------------------
(* Lemmas about the pipe and the queue *)

\* What the provers need to know of the two sequences.
LEMMA Lengths ==
  ASSUME TypeOK
  PROVE  /\ outq \in Seq(Ctl) /\ Len(outq) \in Nat /\ Len(outq) <= OutqCap
         /\ \A i \in 1 .. Len(outq) : outq[i] \in Ctl
         /\ outq = <<>> <=> Len(outq) = 0
         /\ pipe \in Seq({Cmd!DATAIN, Cmd!QUIT}) /\ Len(pipe) \in Nat /\ Len(pipe) <= PipeCap
         /\ \A i \in 1 .. Len(pipe) : pipe[i] \in {Cmd!DATAIN, Cmd!QUIT}
         /\ pipe = <<>> <=> Len(pipe) = 0
         /\ OutqCap \in Nat \ {0} /\ PipeCap \in Nat \ {0}
         /\ Cmd!DATAIN # Cmd!QUIT
<1>1. outq \in Seq(Ctl) /\ pipe \in Seq({Cmd!DATAIN, Cmd!QUIT})
      /\ Len(outq) <= OutqCap /\ Len(pipe) <= PipeCap
  BY DEF TypeOK
<1>2. \A S : \A q \in Seq(S) : /\ Len(q) \in Nat /\ (q = <<>> <=> Len(q) = 0)
                               /\ \A i \in 1 .. Len(q) : q[i] \in S
  BY LenProperties, ElementOfSeq, EmptySeq
<1>3. OutqCap \in Nat \ {0} /\ PipeCap \in Nat \ {0} /\ Cmd!DATAIN # Cmd!QUIT
  BY NetCtlAssumption DEF Cmd!DATAIN, Cmd!QUIT
<1>4. QED
  BY <1>1, <1>2, <1>3

\* fq_putcmd adds a byte at the end, or nothing to a full pipe.
LEMMA PutCmdEffect ==
  ASSUME TypeOK, NEW c \in {Cmd!DATAIN, Cmd!QUIT}, Cmd!PutCmd(c)
  PROVE  /\ pipe' \in Seq({Cmd!DATAIN, Cmd!QUIT}) /\ Len(pipe') <= PipeCap
         /\ Len(pipe) = PipeCap => pipe' = pipe
         /\ Len(pipe) # PipeCap => /\ Len(pipe') = Len(pipe) + 1
                                   /\ pipe'[Len(pipe) + 1] = c
                                   /\ \A i \in 1 .. Len(pipe) : pipe'[i] = pipe[i]
<1>1. /\ pipe \in Seq({Cmd!DATAIN, Cmd!QUIT}) /\ Len(pipe) \in Nat
      /\ Len(pipe) <= PipeCap /\ PipeCap \in Nat
  BY Lengths
<1>2. CASE Len(pipe) = PipeCap
  BY <1>1, <1>2 DEF Cmd!PutCmd
<1>3. CASE Len(pipe) # PipeCap
  <2>1. Len(pipe) < PipeCap
    BY <1>1, <1>3
  <2>2. pipe' = Append(pipe, c)
    BY <2>1 DEF Cmd!PutCmd
  <2>3. QED
    BY <1>1, <1>3, <2>1, <2>2, AppendProperties
<1>4. QED
  BY <1>2, <1>3

\* fq_getcmd takes the first byte.
LEMMA GetCmdEffect ==
  ASSUME TypeOK, NEW c, Cmd!GetCmd(c)
  PROVE  /\ pipe' \in Seq({Cmd!DATAIN, Cmd!QUIT}) /\ Len(pipe') <= PipeCap
         /\ Len(pipe) \in Nat \ {0} /\ pipe[1] = c
         /\ Len(pipe') = Len(pipe) - 1
         /\ \A i \in 1 .. Len(pipe) - 1 : pipe'[i] = pipe[i + 1]
<1>1. pipe \in Seq({Cmd!DATAIN, Cmd!QUIT}) /\ Len(pipe) <= PipeCap /\ PipeCap \in Nat
  BY Lengths
<1>2. pipe # <<>> /\ c = Head(pipe) /\ pipe' = Tail(pipe)
  BY DEF Cmd!GetCmd
<1>3. /\ Head(pipe) = pipe[1] /\ Tail(pipe) \in Seq({Cmd!DATAIN, Cmd!QUIT})
      /\ Len(Tail(pipe)) = Len(pipe) - 1 /\ Len(pipe) \in Nat \ {0}
      /\ \A i \in 1 .. Len(pipe) - 1 : Tail(pipe)[i] = pipe[i + 1]
  BY <1>1, <1>2, HeadTailProperties, LenProperties, EmptySeq
<1>4. QED
  BY <1>1, <1>2, <1>3

\* fq_put in positions: the queue moves up by d, one on overflow and else
\* none, and the new message is at its end.
LEMMA PutEffect ==
  ASSUME TypeOK, NEW x \in Ctl, Outq!Put(x)
  PROVE  /\ outq' \in Seq(Ctl) /\ Len(outq') \in 1 .. OutqCap /\ obuf' = obuf
         /\ \E d \in {0, 1} :
              /\ d = 1 <=> Outq!Full
              /\ Len(outq') = Len(outq) - d + 1
              /\ \A i \in 1 .. Len(outq') - 1 : i + d \in 1 .. Len(outq) /\ outq'[i] = outq[i + d]
              /\ outq'[Len(outq')] = x
<1> DEFINE rest == IF Outq!Full THEN Tail(outq) ELSE outq
           d == IF Outq!Full THEN 1 ELSE 0
<1>1. /\ outq \in Seq(Ctl) /\ Len(outq) \in Nat /\ Len(outq) <= OutqCap
      /\ OutqCap \in Nat \ {0} /\ (outq = <<>> <=> Len(outq) = 0)
  BY Lengths
<1>2. /\ rest \in Seq(Ctl) /\ Len(rest) = Len(outq) - d /\ Len(rest) < OutqCap
      /\ \A i \in 1 .. Len(rest) : i + d \in 1 .. Len(outq) /\ rest[i] = outq[i + d]
  <2>1. CASE Outq!Full
    <3>1. outq # <<>> /\ Len(outq) = OutqCap
      BY <1>1, <2>1 DEF Outq!Full
    <3>2. QED
      BY <1>1, <2>1, <3>1, HeadTailProperties
  <2>2. CASE ~Outq!Full
    BY <1>1, <2>2 DEF Outq!Full
  <2>3. QED
    BY <2>1, <2>2
<1>3. outq' = Append(rest, x) /\ obuf' = obuf
  BY DEF Outq!Put
<1>4. /\ outq' \in Seq(Ctl) /\ Len(outq') = Len(rest) + 1
      /\ \A i \in 1 .. Len(rest) : outq'[i] = rest[i]
      /\ outq'[Len(rest) + 1] = x
  BY <1>2, <1>3, AppendProperties
<1>5. d \in {0, 1} /\ Len(rest) \in Nat /\ (d = 1 <=> Outq!Full)
  BY <1>2
<1> HIDE DEF rest, d
<1>6. Len(outq') = Len(outq) - d + 1 /\ Len(outq') - 1 = Len(rest)
  BY <1>1, <1>2, <1>4, <1>5
<1>7. Len(outq') \in 1 .. OutqCap
  BY <1>1, <1>2, <1>4, <1>5
<1>8. QED
  BY <1>2, <1>3, <1>4, <1>5, <1>6, <1>7

\* fq_get copies the head, or nothing if there is none.
LEMMA GetEffect ==
  ASSUME TypeOK, Outq!Get
  PROVE  /\ outq' = outq
         /\ obuf' = IF outq = <<>> THEN NoCtl ELSE outq[1]
         /\ obuf' \in Ctl \cup {NoCtl}
         /\ obuf' = NoCtl <=> outq = <<>>
<1>1. NoCtl \notin Ctl
  BY NetCtlAssumption DEF NoCtl, Ctl
<1>2. outq # <<>> => outq[1] \in Ctl /\ Head(outq) = outq[1]
  BY Lengths, HeadTailProperties
<1>3. QED
  BY <1>1, <1>2 DEF Outq!Get, Outq!First

\* fq_drain removes the head, if there is one.
LEMMA DrainEffect ==
  ASSUME TypeOK, Outq!Drain
  PROVE  /\ outq' \in Seq(Ctl) /\ obuf' = obuf
         /\ Len(outq') = IF Len(outq) = 0 THEN 0 ELSE Len(outq) - 1
         /\ \A i \in 1 .. Len(outq') : i + 1 \in 1 .. Len(outq) /\ outq'[i] = outq[i + 1]
<1>1. outq \in Seq(Ctl) /\ (outq = <<>> <=> Len(outq) = 0) /\ Len(outq) \in Nat
  BY Lengths
<1>2. CASE outq = <<>>
  BY <1>1, <1>2 DEF Outq!Drain, Outq!Behead
<1>3. CASE outq # <<>>
  <2>1. outq' = Tail(outq) /\ obuf' = obuf
    BY <1>3 DEF Outq!Drain, Outq!Behead
  <2>2. QED
    BY <1>1, <1>3, <2>1, HeadTailProperties
<1>4. QED
  BY <1>2, <1>3

\* The bytes of each kind, counted.
LEMMA CountBytes ==
  ASSUME TypeOK
  PROVE  /\ AllData => Count(Cmd!QUIT) = 0 /\ Count(Cmd!DATAIN) = Len(pipe)
         /\ QuitLast => Count(Cmd!QUIT) = 1 /\ Count(Cmd!DATAIN) = Len(pipe) - 1
         /\ ~(AllData /\ QuitLast)
<1>1. Len(pipe) \in Nat /\ (pipe = <<>> <=> Len(pipe) = 0) /\ Cmd!DATAIN # Cmd!QUIT
  BY Lengths
<1>2. \A n \in Nat : IsFiniteSet(1 .. n) /\ Cardinality(1 .. n) = n
  BY FS_Interval
<1>3. CASE AllData
  <2>1. {i \in 1 .. Len(pipe) : pipe[i] = Cmd!QUIT} = {}
    BY <1>1, <1>3 DEF AllData
  <2>2. {i \in 1 .. Len(pipe) : pipe[i] = Cmd!DATAIN} = 1 .. Len(pipe)
    BY <1>3 DEF AllData
  <2>3. ~QuitLast
    BY <1>1, <1>3 DEF AllData, QuitLast
  <2>4. QED
    BY <1>1, <1>2, <2>1, <2>2, <2>3, FS_EmptySet DEF Count
<1>4. CASE QuitLast
  <2>1. Len(pipe) \in Nat \ {0} /\ pipe[Len(pipe)] = Cmd!QUIT
    BY <1>1, <1>4 DEF QuitLast
  <2>2. {i \in 1 .. Len(pipe) : pipe[i] = Cmd!QUIT} = {Len(pipe)}
    BY <1>1, <1>4, <2>1 DEF QuitLast
  <2>3. {i \in 1 .. Len(pipe) : pipe[i] = Cmd!DATAIN} = 1 .. Len(pipe) - 1
    BY <1>1, <1>4, <2>1 DEF QuitLast
  <2>4. ~AllData
    BY <1>1, <2>1 DEF AllData
  <2>5. Len(pipe) - 1 \in Nat
    BY <2>1
  <2>6. QED
    BY <1>2, <2>2, <2>3, <2>4, <2>5, FS_Singleton DEF Count
<1>5. QED
  BY <1>3, <1>4

---------------------------------------------------------------------------
(* The first state *)

\* The module is started, nothing is queued and every item agrees.
LEMMA InitIInv == Init => IInv
<1> SUFFICES ASSUME Init PROVE IInv
  OBVIOUS
<1> USE NetCtlAssumption DEF Init, Outq!Init, Cmd!Init
<1>1. \A S : <<>> \in Seq(S)
  OBVIOUS
<1>2. Len(<<>>) = 0
  OBVIOUS
<1>3. TypeOK
  <2>1. conf \in Conf /\ msg \in Conf /\ file \in Conf /\ iface \in Val
    BY DEF Conf
  <2>2. outq \in Seq(Ctl) /\ pipe \in Seq({Cmd!DATAIN, Cmd!QUIT})
    BY <1>1
  <2>3. Len(outq) <= OutqCap /\ Len(pipe) <= PipeCap
    BY <1>2
  <2>4. reset \in BOOLEAN /\ quitLost \in BOOLEAN
    OBVIOUS
  <2>5. /\ listenPort \in Val \cup {None} /\ sess \in [Conn -> Val \cup {None}]
        /\ nconf \in 0 .. MaxConf /\ nctl \in 0 .. MaxCtl /\ overflow \in 0 .. MaxCtl
        /\ sleepers \subseteq Thread /\ handled \subseteq Ctl /\ obuf \in Ctl \cup {NoCtl}
        /\ g_nl \in {0, 1} /\ upc = "loop" /\ npc = "wait"
    OBVIOUS
  <2>6. QED
    BY <2>1, <2>2, <2>3, <2>4, <2>5 DEF TypeOK
<1>4. Phases /\ PipeInOrder
  BY <1>2 DEF Phases, Configuring, Stopping, NoSockets, PipeInOrder, AllData
<1>5. AgreeSoFar
  BY DEF AgreeSoFar, Stored, SocketsAgree, TimersAgree
<1>6. EachIsTold
  BY <1>2 DEF EachIsTold, Told, DataBytes, AllData, Stopping
<1>7. QueueInOrder
  BY <1>2 DEF QueueInOrder
<1>8. Lost = {} /\ LossAccounted
  <2>1. Lost = {}
    BY DEF Lost
  <2>2. QED
    BY <2>1, FS_EmptySet DEF LossAccounted
<1>9. QED
  BY <1>3, <1>4, <1>5, <1>6, <1>7, <1>8 DEF IInv

---------------------------------------------------------------------------
(* The steps, one part of the invariant after the other *)

\* Steps that are not about the queue, its pipe or the history.
LEMMA OtherSteps ==
  ASSUME \/ ReadConf \/ WritePort \/ WriteHb \/ AwaitStop \/ store_net_conf \/ config_netif
         \/ start_net_module \/ AwaitStart \/ StartListening \/ Cleanup \/ CloseListenFd
         \/ SignalStopped \/ Clients \/ SpuriousWakeup \/ UNCHANGED vars
  PROVE  UNCHANGED <<queueVars, nctl, histVars>>
BY DEF ReadConf, WritePort, WriteHb, AwaitStop, store_net_conf, config_netif,
       start_net_module, AwaitStart, StartListening, Cleanup, CloseListenFd, SignalStopped,
       Clients, AcceptFails, Accept, Receive, CloseSession, SpuriousWakeup, vars, countVars

\* No step leaves the values of the state's types.
LEMMA TypeStep == IInv /\ [Next]_vars => TypeOK'
<1> SUFFICES ASSUME IInv, [Next]_vars PROVE TypeOK'
  OBVIOUS
<1> USE DEF ctlVars, confVars, sockVars, queueVars, countVars, histVars
<1>1. /\ TypeOK /\ overflow <= nctl
      /\ MaxConf \in Nat /\ MaxCtl \in Nat /\ Val0 \in Val
  BY NetCtlAssumption DEF IInv
<1>2. /\ conf \in Conf /\ msg \in Conf /\ sess \in [Conn -> Val \cup {None}]
      /\ \A c \in Conf : c.ip \in Val /\ c.port \in Val /\ c.hb \in Val
  BY <1>1 DEF TypeOK, Conf
<1>3. CASE PutControl
  <2>1. nctl + 1 \in Ctl /\ nctl' \in 0 .. MaxCtl /\ overflow' \in 0 .. MaxCtl
    BY <1>1, <1>3 DEF PutControl, TypeOK, Ctl
  <2>2. outq' \in Seq(Ctl) /\ Len(outq') <= OutqCap /\ obuf' = obuf
    BY <1>1, <1>3, <2>1, PutEffect, Lengths DEF PutControl
  <2>3. QED
    BY <1>1, <1>3, <2>1, <2>2 DEF PutControl, TypeOK
<1>4. CASE NotifyControl
  <2>1. pipe' \in Seq({Cmd!DATAIN, Cmd!QUIT}) /\ Len(pipe') <= PipeCap
    BY <1>1, <1>4, PutCmdEffect DEF NotifyControl
  <2>2. QED
    BY <1>1, <1>4, <2>1 DEF NotifyControl, TypeOK
<1>5. CASE ReadConf
  <2>1. conf' \in Conf /\ msg' \in Conf /\ reset' \in BOOLEAN /\ nconf' \in 0 .. MaxConf
    <3>1. msg' \in Conf /\ conf' = [conf EXCEPT !.ip = msg'.ip]
      BY <1>5 DEF ReadConf
    <3>2. conf' \in Conf
      BY <1>2, <3>1 DEF Conf
    <3>3. nconf' \in 0 .. MaxConf
      BY <1>1, <1>5 DEF ReadConf, TypeOK
    <3>4. reset' \in BOOLEAN
      BY <1>5 DEF ReadConf
    <3>5. QED
      BY <3>1, <3>2, <3>3, <3>4
  <2>2. QED
    BY <1>1, <1>5, <2>1 DEF ReadConf, TypeOK
<1>6. CASE WritePort
  <2>1. conf' \in Conf
    BY <1>2, <1>6 DEF WritePort, Conf
  <2>2. reset' \in BOOLEAN
    BY <1>6 DEF WritePort
  <2>3. QED
    BY <1>1, <1>6, <2>1, <2>2 DEF WritePort, TypeOK
<1>7. CASE WriteHb
  <2>1. conf' \in Conf
    BY <1>2, <1>7 DEF WriteHb, Conf
  <2>2. reset' \in BOOLEAN
    BY <1>7 DEF WriteHb
  <2>3. QED
    BY <1>1, <1>7, <2>1, <2>2 DEF WriteHb, TypeOK
<1>8. CASE SendQuit
  <2>1. pipe' \in Seq({Cmd!DATAIN, Cmd!QUIT}) /\ Len(pipe') <= PipeCap
    BY <1>1, <1>8, PutCmdEffect DEF SendQuit
  <2>2. quitLost' \in BOOLEAN
    BY <1>8 DEF SendQuit
  <2>3. QED
    BY <1>1, <1>8, <2>1, <2>2 DEF SendQuit, TypeOK
<1>9. CASE AwaitStop \/ AwaitStart
  BY <1>1, <1>9 DEF AwaitStop, AwaitStart, Await, TypeOK, Thread
<1>10. CASE store_net_conf \/ config_netif
  BY <1>1, <1>2, <1>10 DEF store_net_conf, config_netif, TypeOK
<1>12. CASE start_net_module \/ SignalStopped
  BY <1>1, <1>12 DEF start_net_module, SignalStopped, Signal, TypeOK
<1>13. CASE StartListening \/ AcceptFails
  BY <1>1, <1>2, <1>13 DEF StartListening, AcceptFails, AddListenFd, TypeOK
<1>14. ASSUME NEW c \in Conn, Accept(c) \/ Receive(c) \/ CloseSession(c) PROVE TypeOK'
  BY <1>1, <1>2, <1>14 DEF Accept, Receive, CloseSession, Remove, TypeOK
<1>15. CASE OutqCb
  <2>1. pipe' \in Seq({Cmd!DATAIN, Cmd!QUIT}) /\ Len(pipe') <= PipeCap
    BY <1>1, <1>15, GetCmdEffect DEF OutqCb
  <2>2. QED
    BY <1>1, <1>15, <2>1 DEF OutqCb, TypeOK
<1>16. CASE WriteGet
  <2>1. outq' = outq /\ obuf' \in Ctl \cup {NoCtl}
    BY <1>1, <1>16, GetEffect DEF WriteGet
  <2>2. QED
    BY <1>1, <1>16, <2>1 DEF WriteGet, TypeOK
<1>17. CASE WriteDrain
  <2>1. outq' \in Seq(Ctl) /\ Len(outq') <= OutqCap /\ obuf' = obuf
    BY <1>1, <1>17, DrainEffect, Lengths DEF WriteDrain
  <2>2. handled' \subseteq Ctl
    <3>1. obuf \in Ctl
      BY <1>1, <1>17 DEF WriteDrain, IInv, QueueInOrder, TypeOK, Ctl
    <3>2. QED
      BY <1>1, <1>17, <3>1 DEF WriteDrain, TypeOK
  <2>3. sess' \in [Conn -> Val \cup {None}]
    BY <1>2, <1>17 DEF WriteDrain, Remove
  <2>4. QED
    BY <1>1, <1>17, <2>1, <2>2, <2>3 DEF WriteDrain, TypeOK
<1>18. CASE Cleanup \/ CloseListenFd
  BY <1>1, <1>18 DEF Cleanup, CloseListenFd, TypeOK
<1>19. CASE SpuriousWakeup
  BY <1>1, <1>19 DEF SpuriousWakeup, TypeOK
<1>20. CASE UNCHANGED vars
  BY <1>1, <1>20 DEF vars, TypeOK
<1>21. QED
  BY <1>3, <1>4, <1>5, <1>6, <1>7, <1>8, <1>9, <1>10, <1>12, <1>13, <1>14, <1>15, <1>16,
     <1>17, <1>18, <1>19, <1>20 DEF Next, FromUart, UartLoop, NetLoop, Clients

\* A QUIT that is taken from the pipe is the last byte in it, and the UART
\* thread waits for what follows.
LEMMA QuitTaken ==
  ASSUME IInv, Cmd!GetCmd(Cmd!QUIT)
  PROVE  QuitLast /\ Len(pipe) = 1 /\ upc = "await" /\ g_nl = 1 /\ ~Stopping
<1>1. Len(pipe) \in Nat \ {0} /\ pipe[1] = Cmd!QUIT /\ Cmd!QUIT # Cmd!DATAIN
  BY GetCmdEffect, Lengths DEF IInv
<1>2. ~AllData
  BY <1>1 DEF AllData
<1>3. QuitLast /\ upc = "await" /\ g_nl = 1 /\ ~Stopping
  BY <1>2 DEF IInv, PipeInOrder
<1>4. Len(pipe) = 1
  <2>1. \A n \in Nat \ {0} : n # 1 => 1 \in 1 .. n - 1
    OBVIOUS
  <2>2. QED
    BY <1>1, <1>3, <2>1 DEF QuitLast
<1>5. QED
  BY <1>3, <1>4

\* Neither thread gets ahead of the other.
LEMMA PhasesStep == IInv /\ [Next]_vars => Phases'
<1> SUFFICES ASSUME IInv, [Next]_vars PROVE Phases'
  OBVIOUS
<1> USE DEF ctlVars, confVars, sockVars, queueVars, countVars, histVars
<1>1. Phases /\ g_nl \in {0, 1}
  BY DEF IInv, TypeOK
<1>2. CASE PutControl \/ NotifyControl \/ ReadConf \/ WritePort \/ WriteHb \/ SendQuit
  BY <1>1, <1>2 DEF PutControl, NotifyControl, ReadConf, WritePort, WriteHb, SendQuit,
     Phases, Stopping, Configuring, NoSockets
<1>3. CASE AwaitStop
  BY <1>1, <1>3 DEF AwaitStop, Await, Phases, Stopping, Configuring, NoSockets
<1>4. CASE store_net_conf \/ config_netif \/ start_net_module
  BY <1>1, <1>4 DEF store_net_conf, config_netif, start_net_module,
     Phases, Stopping, Configuring, NoSockets
<1>5. CASE AwaitStart \/ StartListening
  BY <1>1, <1>5 DEF AwaitStart, Await, StartListening, Phases, Stopping, Configuring, NoSockets
<1>6. CASE OutqCb
  <2>1. CASE Cmd!GetCmd(Cmd!DATAIN) /\ npc' = "get"
    BY <1>1, <1>6, <2>1 DEF OutqCb, Phases, Stopping, Configuring, NoSockets
  <2>2. CASE Cmd!GetCmd(Cmd!QUIT) /\ npc' = "cleanup"
    BY <1>1, <1>6, <2>2, QuitTaken DEF OutqCb, Phases, Stopping, Configuring, NoSockets
  <2>3. QED
    BY <1>6, <2>1, <2>2 DEF OutqCb
<1>7. CASE WriteGet \/ WriteDrain
  BY <1>1, <1>7 DEF WriteGet, WriteDrain, Phases, Stopping, Configuring
<1>8. CASE Cleanup \/ CloseListenFd \/ SignalStopped
  BY <1>1, <1>8 DEF Cleanup, CloseListenFd, SignalStopped, Phases, Stopping, Configuring, NoSockets
<1>9. CASE Clients
  <2>1. /\ Serving /\ UNCHANGED <<upc, npc, g_nl>>
    BY <1>9 DEF Clients, AcceptFails, Accept, Receive, CloseSession
  <2>2. QED
    BY <1>1, <2>1 DEF Phases, Stopping, Configuring, Serving
<1>10. CASE SpuriousWakeup \/ UNCHANGED vars
  BY <1>1, <1>10 DEF SpuriousWakeup, vars, Phases, Stopping, Configuring, NoSockets
<1>11. QED
  BY <1>2, <1>3, <1>4, <1>5, <1>6, <1>7, <1>8, <1>9, <1>10
     DEF Next, FromUart, UartLoop, NetLoop

\* QUIT stays the last byte, and is followed by the stop it asks for.
LEMMA PipeStep == IInv /\ [Next]_vars => PipeInOrder'
<1> SUFFICES ASSUME IInv, [Next]_vars PROVE PipeInOrder'
  OBVIOUS
<1> USE DEF ctlVars, confVars, sockVars, queueVars, countVars, histVars
<1>1. TypeOK /\ Phases /\ PipeInOrder /\ g_nl \in {0, 1}
  BY DEF IInv, TypeOK
<1>2. /\ Len(pipe) \in Nat /\ Cmd!DATAIN # Cmd!QUIT
      /\ pipe = <<>> <=> Len(pipe) = 0
  BY <1>1, Lengths
<1>3. ASSUME UNCHANGED <<pipe, quitLost>> PROVE (AllData' <=> AllData) /\ (QuitLast' <=> QuitLast)
  BY <1>3 DEF AllData, QuitLast
<1>4. CASE NotifyControl
  <2>1. Cmd!PutCmd(Cmd!DATAIN) /\ upc = "notify" /\ upc' = "loop"
    BY <1>4 DEF NotifyControl
  <2>2. AllData
    BY <1>1, <2>1 DEF PipeInOrder
  <2>3. AllData'
    <3>1. CASE Len(pipe) = PipeCap
      BY <1>1, <2>1, <2>2, <3>1, PutCmdEffect DEF AllData
    <3>2. CASE Len(pipe) # PipeCap
      <4>1. /\ Len(pipe') = Len(pipe) + 1 /\ pipe'[Len(pipe) + 1] = Cmd!DATAIN
            /\ \A i \in 1 .. Len(pipe) : pipe'[i] = pipe[i]
        BY <1>1, <2>1, <3>2, PutCmdEffect
      <4>2. QED
        BY <1>2, <2>2, <4>1 DEF AllData
    <3>3. QED
      BY <3>1, <3>2
  <2>4. QED
    BY <2>1, <2>3 DEF PipeInOrder
<1>5. CASE SendQuit
  <2>1. /\ Cmd!PutCmd(Cmd!QUIT) /\ upc = "stop" /\ upc' = "await"
        /\ quitLost' = (Len(pipe) = PipeCap) /\ UNCHANGED <<npc, g_nl>>
    BY <1>5 DEF SendQuit
  <2>2. AllData /\ g_nl = 1 /\ ~Stopping
    BY <1>1, <2>1 DEF PipeInOrder, Phases, Configuring, Stopping
  <2>3. CASE Len(pipe) = PipeCap
    <3>1. pipe' = pipe
      BY <1>1, <2>1, <2>3, PutCmdEffect
    <3>2. AllData' /\ quitLost'
      BY <2>1, <2>2, <2>3, <3>1 DEF AllData
    <3>3. QED
      BY <3>2 DEF PipeInOrder
  <2>4. CASE Len(pipe) # PipeCap
    <3>1. /\ Len(pipe') = Len(pipe) + 1 /\ pipe'[Len(pipe) + 1] = Cmd!QUIT
          /\ \A i \in 1 .. Len(pipe) : pipe'[i] = pipe[i]
          /\ pipe' \in Seq({Cmd!DATAIN, Cmd!QUIT})
      BY <1>1, <2>1, <2>4, PutCmdEffect
    <3>2. pipe' # <<>>
      BY <1>2, <3>1, EmptySeq
    <3>3. QuitLast'
      BY <1>2, <2>2, <3>1, <3>2 DEF AllData, QuitLast
    <3>4. QED
      BY <2>1, <2>2, <3>3 DEF PipeInOrder, Stopping
  <2>5. QED
    BY <2>3, <2>4
<1>6. CASE OutqCb
  <2>1. upc' = upc /\ g_nl' = g_nl /\ quitLost' = quitLost /\ npc = "run"
    BY <1>6 DEF OutqCb
  <2>2. CASE Cmd!GetCmd(Cmd!QUIT) /\ npc' = "cleanup"
    <3>1. Len(pipe) = 1 /\ upc = "await"
      BY <2>2, QuitTaken
    <3>2. Len(pipe') = 0
      BY <1>1, <2>2, <3>1, GetCmdEffect
    <3>3. AllData'
      BY <3>2 DEF AllData
    <3>4. QED
      BY <2>2, <3>3 DEF PipeInOrder, Stopping
  <2>3. CASE Cmd!GetCmd(Cmd!DATAIN) /\ npc' = "get"
    <3>1. /\ Len(pipe) \in Nat \ {0} /\ pipe[1] = Cmd!DATAIN /\ Len(pipe') = Len(pipe) - 1
          /\ \A i \in 1 .. Len(pipe) - 1 : pipe'[i] = pipe[i + 1]
          /\ pipe' \in Seq({Cmd!DATAIN, Cmd!QUIT})
      BY <1>1, <2>3, GetCmdEffect
    <3>2. AllData => AllData'
      BY <3>1 DEF AllData
    <3>3. QuitLast => QuitLast'
      <4>1. SUFFICES ASSUME QuitLast PROVE QuitLast'
        OBVIOUS
      <4>2. Len(pipe) # 1
        BY <1>2, <3>1, <4>1 DEF QuitLast
      <4>3. pipe' # <<>>
        BY <3>1, <4>2, EmptySeq
      <4>4. Len(pipe') + 1 = Len(pipe) /\ Len(pipe') \in 1 .. Len(pipe) - 1
        BY <3>1, <4>2
      <4>5. pipe'[Len(pipe')] = Cmd!QUIT
        BY <3>1, <4>1, <4>4 DEF QuitLast
      <4>6. ASSUME NEW i \in 1 .. Len(pipe') - 1 PROVE pipe'[i] = Cmd!DATAIN
        BY <3>1, <4>1, <4>4 DEF QuitLast
      <4>7. QED
        BY <4>3, <4>5, <4>6 DEF QuitLast
    <3>4. QED
      BY <1>1, <2>1, <2>3, <3>2, <3>3 DEF PipeInOrder, Stopping
  <2>4. QED
    BY <1>6, <2>2, <2>3 DEF OutqCb
<1>7. CASE PutControl \/ ReadConf \/ WritePort \/ WriteHb \/ store_net_conf \/ config_netif
           \/ start_net_module
  <2>1. UNCHANGED <<pipe, quitLost>> /\ upc # "await" /\ upc' # "await"
    BY <1>7 DEF PutControl, ReadConf, WritePort, WriteHb, store_net_conf, config_netif,
       start_net_module
  <2>2. QED
    BY <1>1, <1>3, <2>1 DEF PipeInOrder
<1>8. CASE AwaitStop
  <2>1. UNCHANGED <<pipe, quitLost, npc, g_nl>> /\ (upc' = "await" \/ (g_nl = 0 /\ upc' = "store"))
    BY <1>8 DEF AwaitStop, Await
  <2>2. CASE upc' = "await"
    BY <1>1, <1>3, <1>8, <2>1, <2>2 DEF PipeInOrder, Stopping, AwaitStop
  <2>3. CASE g_nl = 0 /\ upc' = "store"
    BY <1>1, <1>3, <2>1, <2>3 DEF PipeInOrder
  <2>4. QED
    BY <2>1, <2>2, <2>3
<1>9. CASE AwaitStart \/ StartListening \/ WriteGet \/ WriteDrain \/ Clients
           \/ SpuriousWakeup \/ UNCHANGED vars
  <2>1. UNCHANGED <<pipe, quitLost, upc, g_nl>> /\ (npc' = npc \/ (~Stopping /\ ~Stopping'))
    <3>1. CASE AwaitStart
      BY <3>1 DEF AwaitStart, Await, Stopping
    <3>2. CASE StartListening \/ WriteGet \/ WriteDrain
      BY <3>2 DEF StartListening, WriteGet, WriteDrain, Stopping
    <3>3. CASE Clients
      BY <3>3 DEF Clients, AcceptFails, Accept, Receive, CloseSession
    <3>4. CASE SpuriousWakeup
      BY <3>4 DEF SpuriousWakeup
    <3>5. CASE UNCHANGED vars
      BY <3>5 DEF vars
    <3>6. QED
      BY <1>9, <3>1, <3>2, <3>3, <3>4, <3>5
  <2>2. QED
    BY <1>1, <1>3, <2>1 DEF PipeInOrder, Stopping
<1>10. CASE Cleanup \/ CloseListenFd \/ SignalStopped
  <2>1. UNCHANGED <<pipe, quitLost, upc>> /\ Stopping /\ (Stopping' \/ g_nl' = 0)
    BY <1>10 DEF Cleanup, CloseListenFd, SignalStopped, Stopping
  <2>2. QED
    BY <1>1, <1>3, <2>1 DEF PipeInOrder
<1>11. QED
  BY <1>4, <1>5, <1>6, <1>7, <1>8, <1>9, <1>10 DEF Next, FromUart, UartLoop, NetLoop

\* The items agree, one after the other.
LEMMA AgreeStep == IInv /\ [Next]_vars => AgreeSoFar'
<1> SUFFICES ASSUME IInv, [Next]_vars PROVE AgreeSoFar'
  OBVIOUS
<1> USE DEF ctlVars, confVars, sockVars, queueVars, countVars, histVars
<1>1. /\ AgreeSoFar /\ Phases
      /\ conf \in Conf /\ msg \in Conf /\ sess \in [Conn -> Val \cup {None}]
  BY DEF IInv, TypeOK
<1>2. CASE PutControl \/ NotifyControl
  BY <1>1, <1>2 DEF PutControl, NotifyControl, AgreeSoFar, Stored, SocketsAgree, TimersAgree
<1>3. CASE ReadConf
  <2>1. /\ upc = "loop" /\ upc' = "port" /\ msg' \in Conf
        /\ conf' = [conf EXCEPT !.ip = msg'.ip]
        /\ reset' = (msg'.ip # conf.ip)
        /\ UNCHANGED <<file, iface, listenPort, sess>>
    BY <1>3 DEF ReadConf
  <2>2. conf'.port = conf.port /\ conf'.hb = conf.hb /\ (msg'.ip = conf.ip => conf' = conf)
    BY <1>1, <2>1 DEF Conf
  <2>3. (~reset)' => Stored'
    BY <1>1, <2>1, <2>2 DEF AgreeSoFar, Stored
  <2>4. SocketsAgree' /\ TimersAgree'
    BY <1>1, <2>1, <2>2 DEF AgreeSoFar, SocketsAgree, TimersAgree
  <2>5. QED
    BY <2>1, <2>3, <2>4 DEF AgreeSoFar
<1>4. CASE WritePort
  <2>1. /\ upc = "port" /\ upc' = "hb"
        /\ conf' = [conf EXCEPT !.port = msg.port]
        /\ reset' = (reset \/ msg.port # conf.port)
        /\ UNCHANGED <<file, iface, listenPort, sess>>
    BY <1>4 DEF WritePort
  <2>2. conf'.hb = conf.hb /\ (msg.port = conf.port => conf' = conf)
    BY <1>1, <2>1 DEF Conf
  <2>3. (~reset)' => Stored' /\ SocketsAgree'
    BY <1>1, <2>1, <2>2 DEF AgreeSoFar, Stored, SocketsAgree
  <2>4. TimersAgree'
    BY <1>1, <2>1, <2>2 DEF AgreeSoFar, TimersAgree
  <2>5. QED
    BY <2>1, <2>3, <2>4 DEF AgreeSoFar
<1>5. CASE WriteHb
  <2>1. /\ upc = "hb" /\ upc' = IF reset' THEN "stop" ELSE "loop"
        /\ conf' = [conf EXCEPT !.hb = msg.hb]
        /\ reset' = (reset \/ msg.hb # conf.hb)
        /\ UNCHANGED <<file, iface, listenPort, sess>>
    BY <1>5 DEF WriteHb
  <2>2. msg.hb = conf.hb => conf' = conf
    BY <1>1, <2>1 DEF Conf
  <2>3. (~reset)' => Stored' /\ SocketsAgree' /\ TimersAgree'
    BY <1>1, <2>1, <2>2 DEF AgreeSoFar, Stored, SocketsAgree, TimersAgree
  <2>4. QED
    BY <2>1, <2>3 DEF AgreeSoFar
<1>6. CASE SendQuit \/ AwaitStop
  <2>1. upc' \in {"await", "store"}
    BY <1>6 DEF SendQuit, AwaitStop, Await
  <2>2. QED
    BY <2>1 DEF AgreeSoFar
<1>7. CASE store_net_conf \/ config_netif
  BY <1>1, <1>7 DEF store_net_conf, config_netif, AgreeSoFar, Stored
<1>8. CASE start_net_module
  <2>1. NoSockets
    BY <1>1, <1>8 DEF start_net_module, Phases, Configuring
  <2>2. QED
    BY <1>1, <1>8, <2>1
       DEF start_net_module, NoSockets, AgreeSoFar, Stored, SocketsAgree, TimersAgree
<1>9. CASE StartListening \/ AcceptFails
  <2>1. UNCHANGED <<upc, conf, reset, file, iface, sess>> /\ listenPort' \in {conf.port, None}
    BY <1>9 DEF StartListening, AcceptFails, AddListenFd
  <2>2. QED
    BY <1>1, <2>1 DEF AgreeSoFar, Stored, SocketsAgree, TimersAgree
<1>10. ASSUME NEW c \in Conn, Accept(c) \/ Receive(c) \/ CloseSession(c) PROVE AgreeSoFar'
  <2>1. UNCHANGED <<upc, conf, reset, file, iface, listenPort>>
        /\ \E h \in {conf.hb, None} : sess' = [sess EXCEPT ![c] = h]
    BY <1>10 DEF Accept, Receive, CloseSession, Remove
  <2>2. TimersAgree => TimersAgree'
    BY <1>1, <2>1 DEF TimersAgree
  <2>3. QED
    BY <1>1, <2>1, <2>2 DEF AgreeSoFar, Stored, SocketsAgree
<1>11. CASE WriteDrain
  <2>1. UNCHANGED <<upc, conf, reset, file, iface, listenPort>>
        /\ (sess' = sess \/ \E c \in Conn : sess' = [sess EXCEPT ![c] = None])
    BY <1>11 DEF WriteDrain, Remove
  <2>2. TimersAgree => TimersAgree'
    BY <1>1, <2>1 DEF TimersAgree
  <2>3. QED
    BY <1>1, <2>1, <2>2 DEF AgreeSoFar, Stored, SocketsAgree
<1>12. CASE Cleanup \/ CloseListenFd
  <2>1. UNCHANGED <<upc, conf, reset, file, iface>>
        /\ listenPort' \in {listenPort, None} /\ \A c \in Conn : sess'[c] \in {sess[c], None}
    BY <1>12 DEF Cleanup, CloseListenFd
  <2>2. QED
    BY <1>1, <2>1 DEF AgreeSoFar, Stored, SocketsAgree, TimersAgree
<1>13. CASE AwaitStart \/ OutqCb \/ WriteGet \/ SignalStopped \/ SpuriousWakeup \/ UNCHANGED vars
  <2>1. UNCHANGED <<upc, conf, reset, file, iface, listenPort, sess>>
    BY <1>13 DEF AwaitStart, OutqCb, WriteGet, SignalStopped, SpuriousWakeup, vars
  <2>2. QED
    BY <1>1, <2>1 DEF AgreeSoFar, Stored, SocketsAgree, TimersAgree
<1>14. QED
  BY <1>2, <1>3, <1>4, <1>5, <1>6, <1>7, <1>8, <1>9, <1>10, <1>11, <1>12, <1>13
     DEF Next, FromUart, UartLoop, NetLoop, Clients

\* A message byte that is taken from the pipe leaves the others in place.
LEMMA DataTaken ==
  ASSUME TypeOK, Cmd!GetCmd(Cmd!DATAIN)
  PROVE  DataBytes' = DataBytes - 1 /\ DataBytes \in Nat
<1>1. /\ Len(pipe) \in Nat \ {0} /\ pipe[1] = Cmd!DATAIN /\ Len(pipe') = Len(pipe) - 1
      /\ \A i \in 1 .. Len(pipe) - 1 : pipe'[i] = pipe[i + 1]
  BY GetCmdEffect
<1>2. AllData => AllData'
  BY <1>1 DEF AllData
<1>3. ASSUME AllData' PROVE AllData
  <2>1. SUFFICES ASSUME NEW i \in 1 .. Len(pipe), i # 1 PROVE pipe[i] = Cmd!DATAIN
    BY <1>1 DEF AllData
  <2>2. i - 1 \in 1 .. Len(pipe) - 1 /\ (i - 1) + 1 = i
    BY <1>1, <2>1
  <2>3. pipe'[i - 1] = Cmd!DATAIN
    BY <1>1, <1>3, <2>2 DEF AllData
  <2>4. QED
    BY <1>1, <2>2, <2>3
<1>4. QED
  BY <1>1, <1>2, <1>3 DEF DataBytes

\* Each message in the queue has its byte, and a stop finds the queue empty.
LEMMA ToldStep == IInv /\ [Next]_vars => EachIsTold'
<1> SUFFICES ASSUME IInv, [Next]_vars, PipeCap >= OutqCap
             PROVE  Len(outq') <= Told' /\ (Stopping' \/ g_nl' = 0 => outq' = <<>>)
  BY DEF EachIsTold
<1> USE DEF ctlVars, confVars, sockVars, queueVars, countVars, histVars
<1>1. /\ TypeOK /\ Phases /\ PipeInOrder /\ g_nl \in {0, 1}
      /\ Len(outq) <= Told /\ (Stopping \/ g_nl = 0 => outq = <<>>)
  BY DEF IInv, TypeOK, EachIsTold
<1>2. /\ Len(outq) \in Nat /\ Len(outq) <= OutqCap /\ OutqCap \in Nat /\ PipeCap \in Nat
      /\ Len(pipe) \in Nat /\ Len(pipe) <= PipeCap
      /\ outq = <<>> <=> Len(outq) = 0
      /\ Cmd!DATAIN # Cmd!QUIT
  BY <1>1, Lengths
<1>3. /\ DataBytes \in Nat
      /\ upc # "await" => AllData /\ g_nl = g_nl /\ ~Stopping
      /\ upc # "await" /\ ~Configuring => g_nl = 1
  <2>1. DataBytes \in Nat
    BY <1>2 DEF DataBytes, AllData
  <2>2. QED
    BY <1>1, <2>1 DEF PipeInOrder, Phases
<1>4. CASE PutControl
  <2>1. /\ upc = "loop" /\ upc' = "notify" /\ UNCHANGED <<npc, g_nl, pipe>>
        /\ Outq!Put(nctl + 1) /\ nctl + 1 \in Ctl
    BY <1>1, <1>4, NetCtlAssumption DEF PutControl, TypeOK, Ctl
  <2>2. Len(outq') <= Len(outq) + 1
    BY <1>1, <1>2, <2>1, PutEffect
  <2>3. Told' = Told + 1 /\ Told \in Nat
    <3>1. DataBytes' = DataBytes
      BY <2>1 DEF DataBytes, AllData
    <3>2. QED
      BY <1>3, <2>1, <3>1 DEF Told
  <2>4. ~Stopping' /\ g_nl' = 1
    BY <1>3, <2>1 DEF Stopping, Configuring
  <2>5. Len(outq') \in Nat
    BY <1>1, <2>1, PutEffect, Lengths
  <2>6. QED
    BY <1>1, <1>2, <2>2, <2>3, <2>4, <2>5
<1>5. CASE NotifyControl
  <2>1. /\ upc = "notify" /\ upc' = "loop" /\ UNCHANGED <<npc, g_nl, outq>>
        /\ Cmd!PutCmd(Cmd!DATAIN)
    BY <1>5 DEF NotifyControl
  <2>2. AllData /\ Told = Len(pipe) + (IF npc \in {"get", "drain"} THEN 1 ELSE 0) + 1
    BY <1>2, <1>3, <2>1 DEF Told, DataBytes
  <2>3. ~Stopping' /\ g_nl' = 1
    BY <1>3, <2>1 DEF Stopping, Configuring
  <2>4. CASE Len(pipe) = PipeCap
    <3>1. pipe' = pipe
      BY <1>1, <2>1, <2>4, PutCmdEffect
    <3>2. Told' = Len(pipe) + (IF npc \in {"get", "drain"} THEN 1 ELSE 0)
      <4>1. DataBytes' = DataBytes /\ DataBytes = Len(pipe)
        BY <2>2, <3>1 DEF DataBytes, AllData
      <4>2. QED
        BY <1>2, <2>1, <4>1 DEF Told
    <3>3. QED
      BY <1>2, <2>1, <2>3, <2>4, <3>2
  <2>5. CASE Len(pipe) # PipeCap
    <3>1. /\ Len(pipe') = Len(pipe) + 1 /\ pipe'[Len(pipe) + 1] = Cmd!DATAIN
          /\ \A i \in 1 .. Len(pipe) : pipe'[i] = pipe[i]
      BY <1>1, <2>1, <2>5, PutCmdEffect
    <3>2. AllData'
      BY <1>2, <2>2, <3>1 DEF AllData
    <3>3. Told' = Told
      BY <1>2, <2>1, <2>2, <3>1, <3>2 DEF Told, DataBytes
    <3>4. QED
      BY <1>1, <2>1, <2>3, <3>3
  <2>6. QED
    BY <2>4, <2>5
<1>6. CASE SendQuit
  <2>1. /\ upc = "stop" /\ upc' = "await" /\ UNCHANGED <<npc, g_nl, outq>>
        /\ Cmd!PutCmd(Cmd!QUIT)
    BY <1>6 DEF SendQuit
  <2>2. AllData /\ DataBytes = Len(pipe) /\ ~Stopping' /\ g_nl' = 1
    BY <1>3, <2>1 DEF DataBytes, Stopping, Configuring
  <2>3. DataBytes' = DataBytes
    <3>1. CASE Len(pipe) = PipeCap
      BY <1>1, <2>1, <3>1, PutCmdEffect DEF DataBytes, AllData
    <3>2. CASE Len(pipe) # PipeCap
      <4>1. Len(pipe') = Len(pipe) + 1 /\ pipe'[Len(pipe) + 1] = Cmd!QUIT
        BY <1>1, <2>1, <3>2, PutCmdEffect
      <4>2. ~AllData'
        BY <1>2, <4>1 DEF AllData
      <4>3. QED
        BY <1>2, <2>2, <4>1, <4>2 DEF DataBytes
    <3>3. QED
      BY <3>1, <3>2
  <2>4. Told' = Told
    BY <2>1, <2>3 DEF Told
  <2>5. QED
    BY <1>1, <2>1, <2>2, <2>4
<1>7. CASE OutqCb
  <2>1. npc = "run" /\ UNCHANGED <<upc, g_nl, outq>>
    BY <1>7 DEF OutqCb
  <2>2. CASE Cmd!GetCmd(Cmd!DATAIN) /\ npc' = "get"
    <3>1. DataBytes' = DataBytes - 1
      BY <1>1, <2>2, DataTaken
    <3>2. Told' = Told
      BY <1>3, <2>1, <2>2, <3>1 DEF Told
    <3>3. g_nl # 0 /\ ~Stopping'
      BY <1>1, <2>1, <2>2 DEF Phases, Stopping
    <3>4. QED
      BY <1>1, <2>1, <3>2, <3>3
  <2>3. CASE Cmd!GetCmd(Cmd!QUIT) /\ npc' = "cleanup"
    <3>1. Len(pipe) = 1 /\ pipe[1] = Cmd!QUIT /\ Len(pipe') = 0 /\ upc = "await"
      BY <1>1, <2>3, QuitTaken, GetCmdEffect
    <3>2. ~AllData /\ AllData'
      BY <1>2, <3>1 DEF AllData
    <3>3. Told = 0 /\ Told' = 0
      BY <2>1, <2>3, <3>1, <3>2 DEF Told, DataBytes
    <3>4. QED
      BY <1>1, <1>2, <2>1, <3>3
  <2>4. QED
    BY <1>7, <2>2, <2>3 DEF OutqCb
<1>8. CASE WriteGet
  <2>1. /\ npc = "get" /\ npc' = IF outq = <<>> THEN "run" ELSE "drain"
        /\ UNCHANGED <<upc, g_nl, pipe, outq>>
    BY <1>1, <1>8, GetEffect DEF WriteGet
  <2>2. DataBytes' = DataBytes
    BY <2>1 DEF DataBytes, AllData
  <2>3. Told' \in Nat /\ (outq # <<>> => Told' = Told)
    BY <1>3, <2>1, <2>2 DEF Told
  <2>4. g_nl # 0 /\ ~Stopping'
    BY <1>1, <2>1 DEF Phases, Stopping
  <2>5. QED
    BY <1>1, <1>2, <2>1, <2>3, <2>4
<1>9. CASE WriteDrain
  <2>1. /\ npc = "drain" /\ npc' = "run" /\ UNCHANGED <<upc, g_nl, pipe>> /\ Outq!Drain
    BY <1>9 DEF WriteDrain
  <2>2. DataBytes' = DataBytes
    BY <2>1 DEF DataBytes, AllData
  <2>3. Told' \in Nat /\ Told = Told' + 1
    BY <1>3, <2>1, <2>2 DEF Told
  <2>4. g_nl # 0 /\ ~Stopping'
    BY <1>1, <2>1 DEF Phases, Stopping
  <2>5. Len(outq') = IF Len(outq) = 0 THEN 0 ELSE Len(outq) - 1
    BY <1>1, <2>1, DrainEffect
  <2>6. QED
    BY <1>1, <1>2, <2>1, <2>3, <2>4, <2>5
<1>10. CASE \/ ReadConf \/ WritePort \/ WriteHb \/ AwaitStop \/ store_net_conf \/ config_netif
            \/ start_net_module \/ AwaitStart \/ StartListening \/ Cleanup \/ CloseListenFd
            \/ SignalStopped \/ Clients \/ SpuriousWakeup \/ UNCHANGED vars
  <2>1. UNCHANGED <<outq, pipe>>
    BY <1>10, OtherSteps
  <2>2. (upc' = "notify") <=> (upc = "notify")
    BY <1>10 DEF ReadConf, WritePort, WriteHb, AwaitStop, Await, store_net_conf, config_netif,
       start_net_module, AwaitStart, StartListening, Cleanup, CloseListenFd, SignalStopped,
       Clients, AcceptFails, Accept, Receive, CloseSession, SpuriousWakeup, vars
  <2>3. (npc' \in {"get", "drain"}) <=> (npc \in {"get", "drain"})
    BY <1>10 DEF ReadConf, WritePort, WriteHb, AwaitStop, Await, store_net_conf, config_netif,
       start_net_module, AwaitStart, StartListening, Cleanup, CloseListenFd, SignalStopped,
       Clients, AcceptFails, Accept, Receive, CloseSession, SpuriousWakeup, vars
  <2>4. (Stopping' \/ g_nl' = 0) => (Stopping \/ g_nl = 0)
    BY <1>10 DEF ReadConf, WritePort, WriteHb, AwaitStop, Await, store_net_conf, config_netif,
       start_net_module, AwaitStart, StartListening, Cleanup, CloseListenFd, SignalStopped,
       Clients, AcceptFails, Accept, Receive, CloseSession, SpuriousWakeup, vars, Stopping
  <2>5. Told' = Told
    BY <2>1, <2>2, <2>3 DEF Told, DataBytes, AllData
  <2>6. QED
    BY <1>1, <2>1, <2>4, <2>5
<1>11. QED
  BY <1>4, <1>5, <1>6, <1>7, <1>8, <1>9, <1>10 DEF Next, FromUart, UartLoop, NetLoop

\* Steps that are not about the queue, its reader or the history.
LEMMA BesideTheQueue ==
  ASSUME \/ NotifyControl \/ SendQuit \/ OutqCb
         \/ ReadConf \/ WritePort \/ WriteHb \/ AwaitStop \/ store_net_conf \/ config_netif
         \/ start_net_module \/ AwaitStart \/ StartListening \/ Cleanup \/ CloseListenFd
         \/ SignalStopped \/ Clients \/ SpuriousWakeup \/ UNCHANGED vars
  PROVE  UNCHANGED <<outq, obuf, nctl, handled, overflow>> /\ (npc' = "drain" => npc = "drain")
<1>1. CASE NotifyControl \/ SendQuit \/ OutqCb
  BY <1>1 DEF NotifyControl, SendQuit, OutqCb, countVars, histVars
<1>2. CASE \/ ReadConf \/ WritePort \/ WriteHb \/ AwaitStop \/ store_net_conf \/ config_netif
           \/ start_net_module \/ AwaitStart \/ StartListening \/ Cleanup \/ CloseListenFd
           \/ SignalStopped \/ Clients \/ SpuriousWakeup \/ UNCHANGED vars
  <2>1. UNCHANGED <<outq, obuf, nctl, handled, overflow>>
    BY <1>2, OtherSteps DEF queueVars, histVars
  <2>2. npc' = "drain" => npc = "drain"
    BY <1>2 DEF ReadConf, WritePort, WriteHb, AwaitStop, store_net_conf, config_netif,
       start_net_module, AwaitStart, Await, StartListening, Cleanup, CloseListenFd, SignalStopped,
       Clients, AcceptFails, Accept, Receive, CloseSession, SpuriousWakeup, vars
  <2>3. QED
    BY <2>1, <2>2
<1>3. QED
  BY <1>1, <1>2

\* What the provers need to know of messages, which are numbers.
LEMMA Numbers ==
  ASSUME IInv
  PROVE  /\ MaxCtl \in Nat /\ nctl \in Nat /\ overflow \in Nat
         /\ \A i \in 1 .. Len(outq) : outq[i] \in Nat /\ outq[i] >= 1
         /\ \A n \in handled : n \in Nat /\ n >= 1
         /\ npc = "drain" => obuf \in Nat /\ 1 \in 1 .. Len(outq)
<1>1. MaxCtl \in Nat /\ nctl \in Nat /\ overflow \in Nat
  BY NetCtlAssumption DEF IInv, TypeOK
<1>2. \A i \in 1 .. Len(outq) : outq[i] \in Ctl
  BY Lengths DEF IInv
<1>3. handled \subseteq Ctl
  BY DEF IInv, TypeOK
<1>4. npc = "drain" => obuf \in 1 .. nctl /\ Len(outq) \in Nat \ {0}
  BY Lengths DEF IInv, QueueInOrder
<1>5. \A n \in Nat \ {0} : 1 \in 1 .. n
  OBVIOUS
<1>6. QED
  BY <1>1, <1>2, <1>3, <1>4, <1>5 DEF Ctl

\* The queue stays in order, whatever an overflow takes from its front.
LEMMA OrderStep == IInv /\ [Next]_vars => QueueInOrder'
<1> SUFFICES ASSUME IInv, [Next]_vars PROVE QueueInOrder'
  OBVIOUS
<1>1. TypeOK /\ QueueInOrder
  BY DEF IInv
<1>2. /\ nctl \in Nat /\ \A i \in 1 .. Len(outq) : outq[i] \in Nat
      /\ \A n \in handled : n \in Nat
      /\ npc = "drain" => obuf \in Nat /\ 1 \in 1 .. Len(outq)
  BY Numbers
<1>3. CASE PutControl
  <2>1. /\ Outq!Put(nctl + 1) /\ nctl + 1 \in Ctl /\ nctl' = nctl + 1
        /\ UNCHANGED <<npc, handled>>
    BY <1>1, <1>3, NetCtlAssumption DEF PutControl, TypeOK, Ctl
  <2>2. PICK d \in {0, 1} :
             /\ Len(outq') = Len(outq) - d + 1
             /\ \A i \in 1 .. Len(outq') - 1 : i + d \in 1 .. Len(outq) /\ outq'[i] = outq[i + d]
             /\ outq'[Len(outq')] = nctl + 1
    BY <1>1, <2>1, PutEffect
  <2>3. Len(outq') \in Nat \ {0} /\ obuf' = obuf /\ outq' \in Seq(Ctl) /\ Len(outq) \in Nat
    <3>1. Len(outq') \in 1 .. OutqCap /\ obuf' = obuf /\ outq' \in Seq(Ctl) /\ OutqCap \in Nat
      BY <1>1, <2>1, PutEffect, Lengths
    <3>2. QED
      BY <1>1, <3>1, Lengths
\* What is in the queue was there before, or is the new message at its end.
  <2>4. \A i \in 1 .. Len(outq') :
           outq'[i] = nctl + 1 \/ \E k \in 1 .. Len(outq) : outq'[i] = outq[k]
    BY <2>2, <2>3
  <2>5. \A i \in 1 .. Len(outq') : outq'[i] <= nctl'
    BY <1>1, <1>2, <2>1, <2>4 DEF QueueInOrder
  <2>6. ASSUME NEW i \in 1 .. Len(outq'), NEW j \in 1 .. Len(outq'), i < j
        PROVE  outq'[i] < outq'[j]
    <3>1. i \in 1 .. Len(outq') - 1
      BY <2>3, <2>6
    <3>2. i + d \in 1 .. Len(outq) /\ outq'[i] = outq[i + d]
      BY <2>2, <3>1
    <3>3. CASE j = Len(outq')
      BY <1>1, <1>2, <2>2, <3>2, <3>3 DEF QueueInOrder
    <3>4. CASE j # Len(outq')
      <4>1. j \in 1 .. Len(outq') - 1
        BY <2>3, <3>4
      <4>2. j + d \in 1 .. Len(outq) /\ outq'[j] = outq[j + d]
        BY <2>2, <4>1
      <4>3. i + d < j + d
        BY <2>6, <3>1, <4>1
      <4>4. QED
        BY <1>1, <3>2, <4>2, <4>3 DEF QueueInOrder
    <3>5. QED
      BY <3>3, <3>4
  <2>7. ASSUME NEW n \in handled'
        PROVE  n <= nctl' /\ \A i \in 1 .. Len(outq') : n < outq'[i]
    <3>1. n \in Nat /\ n <= nctl /\ \A k \in 1 .. Len(outq) : n < outq[k]
      BY <1>1, <1>2, <2>1 DEF QueueInOrder
    <3>2. QED
      BY <1>2, <2>1, <2>4, <3>1
  <2>8. ASSUME npc' = "drain"
        PROVE  /\ outq' # <<>> /\ obuf' \in 1 .. nctl'
               /\ \A i \in 1 .. Len(outq') : obuf' <= outq'[i]
               /\ \A n \in handled' : n < obuf'
    <3>1. /\ obuf \in 1 .. nctl /\ \A k \in 1 .. Len(outq) : obuf <= outq[k]
          /\ \A n \in handled : n < obuf
      BY <1>1, <2>1, <2>8 DEF QueueInOrder
    <3>2. outq' # <<>>
      BY <2>3, EmptySeq
    <3>3. \A i \in 1 .. Len(outq') : obuf <= outq'[i]
      BY <1>2, <2>4, <3>1
    <3>4. QED
      BY <1>2, <2>1, <2>3, <3>1, <3>2, <3>3
  <2>9. QED
    BY <2>5, <2>6, <2>7, <2>8 DEF QueueInOrder
<1>4. CASE WriteGet
  <2>1. /\ npc' = IF outq = <<>> THEN "run" ELSE "drain"
        /\ UNCHANGED <<outq, nctl, handled>> /\ (outq # <<>> => obuf' = outq[1])
    BY <1>1, <1>4, GetEffect DEF WriteGet, countVars, histVars
  <2>2. ASSUME outq # <<>>
        PROVE  /\ obuf' \in 1 .. nctl /\ \A i \in 1 .. Len(outq) : obuf' <= outq[i]
               /\ \A n \in handled : n < obuf'
    <3>1. Len(outq) \in Nat \ {0}
      BY <1>1, <2>2, Lengths
    <3>2. 1 \in 1 .. Len(outq) /\ obuf' = outq[1] /\ outq[1] \in Ctl
      BY <1>1, <2>1, <2>2, <3>1, Lengths
    <3>3. \A i \in 1 .. Len(outq) : outq[1] <= outq[i]
      <4>1. SUFFICES ASSUME NEW i \in 1 .. Len(outq), i # 1 PROVE outq[1] <= outq[i]
        BY <1>2, <3>2
      <4>2. 1 < i
        BY <4>1
      <4>3. outq[1] < outq[i]
        BY <1>1, <3>2, <4>2 DEF QueueInOrder
      <4>4. QED
        BY <1>2, <3>2, <4>3
    <3>4. outq[1] <= nctl /\ \A n \in handled : n < outq[1]
      BY <1>1, <3>2 DEF QueueInOrder
    <3>5. QED
      BY <1>2, <3>2, <3>3, <3>4 DEF Ctl
  <2>3. QED
    BY <1>1, <2>1, <2>2 DEF QueueInOrder
<1>5. CASE WriteDrain
  <2>1. /\ npc = "drain" /\ npc' = "run" /\ Outq!Drain /\ nctl' = nctl
        /\ handled' = handled \cup {obuf}
    BY <1>5 DEF WriteDrain, countVars
  <2>2. /\ outq' \in Seq(Ctl) /\ Len(outq) \in Nat \ {0} /\ Len(outq') = Len(outq) - 1
        /\ \A i \in 1 .. Len(outq') : i + 1 \in 1 .. Len(outq) /\ outq'[i] = outq[i + 1]
    BY <1>1, <1>2, <2>1, DrainEffect, Lengths
  <2>3. /\ obuf \in 1 .. nctl /\ \A k \in 1 .. Len(outq) : obuf <= outq[k]
        /\ \A n \in handled : n < obuf
    BY <1>1, <2>1 DEF QueueInOrder
  <2>4. \A i \in 1 .. Len(outq') : outq'[i] <= nctl'
    BY <1>1, <2>1, <2>2 DEF QueueInOrder
  <2>5. ASSUME NEW i \in 1 .. Len(outq'), NEW j \in 1 .. Len(outq'), i < j
        PROVE  outq'[i] < outq'[j]
    BY <1>1, <2>2, <2>5 DEF QueueInOrder
  <2>6. ASSUME NEW i \in 1 .. Len(outq') PROVE obuf < outq'[i]
    <3>1. 1 \in 1 .. Len(outq) /\ i + 1 \in 1 .. Len(outq) /\ 1 < i + 1
      BY <2>2
    <3>2. outq[1] < outq[i + 1] /\ obuf <= outq[1]
      BY <1>1, <2>3, <3>1 DEF QueueInOrder
    <3>3. QED
      BY <1>2, <2>1, <2>2, <3>1, <3>2
  <2>7. ASSUME NEW n \in handled'
        PROVE  n <= nctl' /\ \A i \in 1 .. Len(outq') : n < outq'[i]
    <3>1. CASE n = obuf
      BY <1>2, <2>1, <2>3, <2>6, <3>1
    <3>2. CASE n \in handled
      BY <1>1, <2>1, <2>2, <3>2 DEF QueueInOrder
    <3>3. QED
      BY <2>1, <3>1, <3>2
  <2>8. QED
    BY <2>1, <2>4, <2>5, <2>7 DEF QueueInOrder
<1>6. CASE \/ NotifyControl \/ SendQuit \/ OutqCb
           \/ ReadConf \/ WritePort \/ WriteHb \/ AwaitStop \/ store_net_conf \/ config_netif
           \/ start_net_module \/ AwaitStart \/ StartListening \/ Cleanup \/ CloseListenFd
           \/ SignalStopped \/ Clients \/ SpuriousWakeup \/ UNCHANGED vars
  BY <1>1, <1>6, BesideTheQueue DEF QueueInOrder
<1>7. QED
  BY <1>3, <1>4, <1>5, <1>6 DEF Next, FromUart, UartLoop, NetLoop

\* Lost messages are among those that came, so they can be counted.
LEMMA LostIsFinite ==
  ASSUME nctl \in Nat
  PROVE  IsFiniteSet(Lost) /\ Cardinality(Lost) \in Nat
<1>1. IsFiniteSet(1 .. nctl)
  BY FS_Interval
<1>2. Lost \subseteq 1 .. nctl
  BY DEF Lost
<1>3. QED
  BY <1>1, <1>2, FS_Subset, FS_CardinalityType

\* What is not lost and not handled is queued.
LEMMA LostOrQueued ==
  ASSUME NEW n \in 1 .. nctl, n \notin handled, n \notin Lost
  PROVE  \E k \in 1 .. Len(outq) : outq[k] = n
BY DEF Lost

\* An overflow costs one message: the head it drops or, if write_nio is busy
\* with that one, the message behind it, for which fq_drain takes it.
LEMMA LossStep == IInv /\ [Next]_vars => LossAccounted' /\ (overflow <= nctl)'
<1> SUFFICES ASSUME IInv, [Next]_vars PROVE LossAccounted' /\ (overflow <= nctl)'
  OBVIOUS
<1>1. TypeOK /\ QueueInOrder /\ LossAccounted /\ overflow <= nctl
  BY DEF IInv
<1>2. /\ nctl \in Nat /\ overflow \in Nat /\ \A i \in 1 .. Len(outq) : outq[i] \in Nat
      /\ npc = "drain" => obuf \in Nat /\ 1 \in 1 .. Len(outq)
  BY Numbers
<1>3. /\ IsFiniteSet(Lost) /\ Cardinality(Lost) \in Nat /\ Cardinality(Lost) <= overflow
      /\ Len(outq) \in Nat
  BY <1>1, <1>2, LostIsFinite, Lengths DEF LossAccounted
<1>4. CASE PutControl
  <2>1. /\ Outq!Put(nctl + 1) /\ nctl + 1 \in Ctl /\ nctl' = nctl + 1 /\ handled' = handled
        /\ overflow' = IF Outq!Full THEN overflow + 1 ELSE overflow
    BY <1>1, <1>4, NetCtlAssumption DEF PutControl, TypeOK, Ctl
  <2>2. PICK d \in {0, 1} :
             /\ d = 1 <=> Outq!Full
             /\ Len(outq') = Len(outq) - d + 1
             /\ \A i \in 1 .. Len(outq') - 1 : i + d \in 1 .. Len(outq) /\ outq'[i] = outq[i + d]
             /\ outq'[Len(outq')] = nctl + 1
    BY <1>1, <2>1, PutEffect
  <2>3. Len(outq') \in Nat \ {0}
    <3>1. Len(outq') \in 1 .. OutqCap /\ OutqCap \in Nat
      BY <1>1, <2>1, PutEffect, Lengths
    <3>2. QED
      BY <3>1
  <2>4. ASSUME NEW n \in Lost', n \notin Lost PROVE d = 1 /\ n = outq[1]
    <3>1. /\ n \in 1 .. nctl' /\ n \notin handled
          /\ \A i \in 1 .. Len(outq') : outq'[i] # n
      BY <2>1, <2>4 DEF Lost
    <3>2. Len(outq') \in 1 .. Len(outq')
      BY <2>3
    <3>3. n # nctl + 1
      BY <2>2, <3>1, <3>2
    <3>4. n \in 1 .. nctl
      BY <1>2, <2>1, <3>1, <3>3
    <3>5. PICK k \in 1 .. Len(outq) : outq[k] = n
      BY <2>4, <3>1, <3>4, LostOrQueued
    <3>6. k - d \notin 1 .. Len(outq') - 1
      <4>1. SUFFICES ASSUME k - d \in 1 .. Len(outq') - 1 PROVE FALSE
        OBVIOUS
      <4>2. (k - d) + d = k /\ k - d \in 1 .. Len(outq')
        BY <1>3, <2>3, <4>1
      <4>3. outq'[k - d] = outq[k]
        BY <2>2, <4>1, <4>2
      <4>4. QED
        BY <3>1, <3>5, <4>2, <4>3
    <3>7. k = 1 /\ d = 1
      BY <1>3, <2>2, <3>6
    <3>8. QED
      BY <3>5, <3>7
  <2>5. CASE d = 0
    <3>1. Lost' \subseteq Lost
      BY <2>4, <2>5
    <3>2. Cardinality(Lost') <= Cardinality(Lost)
      BY <1>3, <3>1, FS_Subset
    <3>3. overflow' = overflow
      BY <2>1, <2>2, <2>5
    <3>4. Cardinality(Lost') \in Nat
      BY <1>2, <1>3, <3>1, FS_Subset, FS_CardinalityType
    <3>5. QED
      BY <1>1, <1>2, <1>3, <2>1, <3>2, <3>3, <3>4 DEF LossAccounted
  <2>6. CASE d = 1
    <3>1. Lost' \subseteq Lost \cup {outq[1]}
      BY <2>4
    <3>2. /\ IsFiniteSet(Lost \cup {outq[1]}) /\ Cardinality(Lost \cup {outq[1]}) \in Nat
          /\ Cardinality(Lost \cup {outq[1]}) <= Cardinality(Lost) + 1
      <4>1. /\ IsFiniteSet(Lost \cup {outq[1]})
            /\ \/ Cardinality(Lost \cup {outq[1]}) = Cardinality(Lost)
               \/ Cardinality(Lost \cup {outq[1]}) = Cardinality(Lost) + 1
        BY <1>3, FS_AddElement
      <4>2. QED
        BY <1>3, <4>1
    <3>3. Cardinality(Lost') \in Nat /\ Cardinality(Lost') <= Cardinality(Lost \cup {outq[1]})
      BY <3>1, <3>2, FS_Subset, FS_CardinalityType
    <3>4. overflow' = overflow + 1
      BY <2>1, <2>2, <2>6
    <3>5. QED
      BY <1>1, <1>2, <1>3, <2>1, <3>2, <3>3, <3>4 DEF LossAccounted
  <2>7. QED
    BY <2>5, <2>6
<1>5. CASE WriteDrain
  <2>1. /\ npc = "drain" /\ Outq!Drain /\ UNCHANGED <<nctl, overflow>>
        /\ handled' = handled \cup {obuf}
    BY <1>5 DEF WriteDrain, countVars
  <2>2. /\ Len(outq') = Len(outq) - 1
        /\ \A i \in 1 .. Len(outq') : i + 1 \in 1 .. Len(outq) /\ outq'[i] = outq[i + 1]
        /\ Len(outq) \in Nat \ {0}
    BY <1>1, <1>2, <2>1, DrainEffect, Lengths
  <2>3. /\ obuf \in 1 .. nctl /\ \A k \in 1 .. Len(outq) : obuf <= outq[k]
        /\ \A n \in handled : n < obuf
    BY <1>1, <2>1 DEF QueueInOrder
\* Only the head leaves the queue.
  <2>4. ASSUME NEW n \in Lost', n \notin Lost PROVE n = outq[1] /\ n # obuf
    <3>1. /\ n \in 1 .. nctl /\ n \notin handled /\ n # obuf
          /\ \A i \in 1 .. Len(outq') : outq'[i] # n
      BY <2>1, <2>4 DEF Lost
    <3>2. PICK k \in 1 .. Len(outq) : outq[k] = n
      BY <2>4, <3>1, LostOrQueued
    <3>3. k = 1
      <4>1. SUFFICES ASSUME k # 1 PROVE FALSE
        OBVIOUS
      <4>2. k - 1 \in 1 .. Len(outq') /\ (k - 1) + 1 = k
        BY <2>2, <4>1
      <4>3. outq'[k - 1] = outq[k]
        BY <2>2, <4>2
      <4>4. QED
        BY <3>1, <3>2, <4>2, <4>3
    <3>4. QED
      BY <3>1, <3>2, <3>3
  <2>5. obuf \notin Lost'
    BY <2>1 DEF Lost
  <2>6. CASE outq[1] = obuf
    <3>1. Lost' \subseteq Lost
      BY <2>4, <2>6
    <3>2. Cardinality(Lost') <= Cardinality(Lost) /\ Cardinality(Lost') \in Nat
      BY <1>3, <3>1, FS_Subset, FS_CardinalityType
    <3>3. QED
      BY <1>1, <1>2, <1>3, <2>1, <3>2 DEF LossAccounted
  <2>7. CASE outq[1] # obuf
    <3>1. obuf \in Lost
      <4>1. \A i \in 1 .. Len(outq) : outq[i] # obuf
        <5>1. SUFFICES ASSUME NEW i \in 1 .. Len(outq), i # 1 PROVE obuf < outq[i]
          BY <1>2, <2>1, <2>3, <2>7
        <5>2. 1 < i /\ 1 \in 1 .. Len(outq)
          BY <5>1, <2>1, <1>2
        <5>3. outq[1] < outq[i] /\ obuf <= outq[1]
          BY <1>1, <2>3, <5>2 DEF QueueInOrder
        <5>4. QED
          BY <1>2, <2>1, <5>2, <5>3
      <4>2. obuf \notin handled
        BY <1>2, <2>1, <2>3
      <4>3. QED
        BY <2>3, <4>1, <4>2 DEF Lost
    <3> DEFINE rest == Lost \ {obuf}
    <3>2. IsFiniteSet(rest) /\ Cardinality(rest) = Cardinality(Lost) - 1
      BY <1>3, <3>1, FS_RemoveElement
    <3>3. Lost' \subseteq rest \cup {outq[1]}
      BY <2>4, <2>5
    <3>4. /\ IsFiniteSet(rest \cup {outq[1]})
          /\ \/ Cardinality(rest \cup {outq[1]}) = Cardinality(rest)
             \/ Cardinality(rest \cup {outq[1]}) = Cardinality(rest) + 1
      BY <3>2, FS_AddElement
    <3> HIDE DEF rest
    <3>5. Cardinality(Lost') \in Nat /\ Cardinality(Lost') <= Cardinality(rest \cup {outq[1]})
      BY <3>3, <3>4, FS_Subset, FS_CardinalityType
    <3>6. QED
      BY <1>1, <1>2, <1>3, <2>1, <3>2, <3>4, <3>5 DEF LossAccounted
  <2>8. QED
    BY <2>6, <2>7
<1>6. CASE WriteGet
  <2>1. UNCHANGED <<outq, nctl, handled, overflow>>
    BY <1>1, <1>6, GetEffect DEF WriteGet, countVars, histVars
  <2>2. QED
    BY <1>1, <2>1 DEF LossAccounted, Lost
<1>7. CASE \/ NotifyControl \/ SendQuit \/ OutqCb
           \/ ReadConf \/ WritePort \/ WriteHb \/ AwaitStop \/ store_net_conf \/ config_netif
           \/ start_net_module \/ AwaitStart \/ StartListening \/ Cleanup \/ CloseListenFd
           \/ SignalStopped \/ Clients \/ SpuriousWakeup \/ UNCHANGED vars
  BY <1>1, <1>7, BesideTheQueue DEF LossAccounted, Lost
<1>8. QED
  BY <1>4, <1>5, <1>6, <1>7 DEF Next, FromUart, UartLoop, NetLoop

---------------------------------------------------------------------------
(* The theorems *)

\* Every step of the two threads keeps the invariant.
LEMMA NextIInv == IInv /\ [Next]_vars => IInv'
BY TypeStep, PhasesStep, PipeStep, AgreeStep, ToldStep, OrderStep, LossStep DEF IInv

\* The invariant that the other theorems rest on: how the phases of the two
\* threads, the bytes of the pipe, the messages of g_outq and the items of
\* the configuration hang together, at every moment.
THEOREM Invariance == Spec => []IInv
<1>1. IInv /\ [Next]_vars => IInv'
  BY NextIInv
<1>2. QED
  BY InitIInv, <1>1, PTL DEF Spec

\* The UART thread stores and applies a configuration only when net_loop has
\* closed everything and waits to be started.
THEOREM ConfiguredWhileStopped == Spec => []StoppedWhileConfiguring
<1>1. IInv => StoppedWhileConfiguring
  BY DEF IInv, Phases, Configuring, StoppedWhileConfiguring
<1>2. QED
  BY Invariance, <1>1, PTL

\* After a reconfiguration nothing is left of the old one: not in net.conf,
\* the interface, the listening socket or the timer of any session.
THEOREM ConfigurationTakesEffect == Spec => []NothingStale
<1>1. IInv => NothingStale
  BY DEF IInv, AgreeSoFar, Stored, SocketsAgree, TimersAgree, NothingStale
<1>2. QED
  BY Invariance, <1>1, PTL

\* No QUIT outlives the stop it was written for.
THEOREM QuitIsForThisStop == Spec => []NoStaleQuit
<1>1. IInv => NoStaleQuit
  <2> SUFFICES ASSUME IInv, Count(Cmd!QUIT) > 0 PROVE upc = "await" /\ g_nl = 1
    BY DEF NoStaleQuit
  <2>1. ~AllData
    BY CountBytes DEF IInv
  <2>2. QED
    BY <2>1 DEF IInv, PipeInOrder
<1>2. QED
  BY Invariance, <1>1, PTL

\* A stop that was asked for is on its way, unless the pipe was full.
THEOREM StopIsNotForgotten == Spec => []StopIsUnderWay
<1>1. IInv => StopIsUnderWay
  <2> SUFFICES ASSUME IInv, upc = "await", ~quitLost
               PROVE  Count(Cmd!QUIT) = 1 \/ npc \in {"cleanup", "close", "stopped"} \/ g_nl = 0
    BY DEF StopIsUnderWay
  <2>1. QuitLast \/ Stopping \/ g_nl = 0
    BY DEF IInv, PipeInOrder
  <2>2. QuitLast => Count(Cmd!QUIT) = 1
    BY CountBytes DEF IInv
  <2>3. QED
    BY <2>1, <2>2 DEF Stopping
<1>2. QED
  BY Invariance, <1>1, PTL

\* With a pipe no smaller than the queue, every queued message has a command
\* byte to its name.
THEOREM NoMessageIsStranded == Spec => []ControlsAnnounced
<1>1. IInv => ControlsAnnounced
  <2> SUFFICES ASSUME IInv, PipeCap >= OutqCap PROVE Len(outq) <= Announced
    BY DEF ControlsAnnounced
  <2>1. TypeOK /\ PipeInOrder /\ Len(outq) <= Told
    BY DEF IInv, EachIsTold
  <2>2. DataBytes = Count(Cmd!DATAIN)
    BY <2>1, CountBytes DEF PipeInOrder, DataBytes
  <2>3. QED
    BY <2>1, <2>2 DEF Told, Announced
<1>2. QED
  BY Invariance, <1>1, PTL

\* ... and is handled before the module stops: none crosses a restart.
THEOREM StopsAfterTheLast == Spec => []HandledBeforeStop
<1>1. IInv => HandledBeforeStop
  BY DEF IInv, EachIsTold, Phases, Stopping, Configuring, HandledBeforeStop
<1>2. QED
  BY Invariance, <1>1, PTL

\* No more messages are lost than there were overflows.
THEOREM LossIsOverflow == Spec => []LossAccounted
<1>1. IInv => LossAccounted
  BY DEF IInv
<1>2. QED
  BY Invariance, <1>1, PTL

\* write_nio is through with a message only when all it was through with
\* before are older: no client sees two messages out of order, or one twice.
THEOREM OrderOfArrival == Spec => DeliveredInOrder
<1>1. IInv /\ [Next]_vars => (npc = "drain" /\ npc' # "drain" => \A n \in handled : n < obuf)
  BY DEF IInv, QueueInOrder
<1>2. IInv /\ [Next]_vars => [npc = "drain" /\ npc' # "drain" => \A n \in handled : n < obuf]_vars
  BY <1>1
<1>3. QED
  BY Invariance, <1>2, PTL DEF Spec, DeliveredInOrder
=============================================================================
