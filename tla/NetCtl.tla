------------------------------- MODULE NetCtl -------------------------------
(***************************************************************************)
(* How the UART thread controls the net thread (main.c).  A network        *)
(* configuration that arrives over the serial line is written to the       *)
(* globals, and if it changed anything the UART thread stops the net       *)
(* module with a QUIT byte in the pipe of g_outq, waits on a condition     *)
(* variable until the net thread has closed everything, stores and applies *)
(* the configuration and starts the module again.  The same queue and pipe *)
(* carry the reverse-control messages from the serial line to the network. *)
(*                                                                         *)
(* Both threads wait on the one condition variable nl_cnd, each for the    *)
(* opposite value of g_nl.  A critical section of nl_mtx is one step, as   *)
(* g_nl is accessed nowhere else; the globals g_prt and hb_tmeo have no    *)
(* lock, and each access to them is a step of its own.                     *)
(*                                                                         *)
(* A session is here only the heartbeat timeout its timer was armed with   *)
(* (module Sessions has the rest), the listening socket the port it was    *)
(* bound to, the address, mask and gateway one value "ip".                 *)
(***************************************************************************)
EXTENDS Naturals, Sequences, FiniteSets

CONSTANTS
  Conn,        \* connections, as they are seen by the net thread
  Val,         \* values a configuration item can take
  Val0,        \* the value of every item at boot, from the file
  MaxConf,     \* bound: configuration messages received
  MaxCtl,      \* bound: reverse-control messages received
  OutqCap,     \* messages g_outq can hold
  PipeCap      \* bytes its command pipe can hold

ASSUME NetCtlAssumption ==
  /\ Val0 \in Val
  /\ MaxConf \in Nat /\ MaxCtl \in Nat
  /\ OutqCap \in Nat \ {0} /\ PipeCap \in Nat \ {0}

None == "none"
Thread == {"uart", "net"}
Ctl == 1 .. MaxCtl
NoCtl == 0
Conf == [ip : Val, port : Val, hb : Val]

VARIABLES
  upc,         \* where the UART thread is
  npc,         \* where the net thread is
  g_nl,        \* 1 while the net module runs or is to run
  sleepers,    \* threads asleep in pthread_cond_wait(&nl_cnd)
  conf,        \* the globals g_ipaddr..., g_prt, hb_tmeo
  msg,         \* the configuration message in handle_netconf
  reset,       \* need_reset
  file,        \* what net.conf holds
  iface,       \* the address the interface has
  listenPort,  \* port of the open listening socket, None without one
  sess,        \* heartbeat timeout of each session, None without one
  outq,        \* g_outq; its messages are numbered in order
  obuf,        \* write_nio's buf
  pipe,        \* command pipe of g_outq
  nconf,       \* configuration messages so far
  nctl,        \* reverse-control messages so far
  handled,     \* history: messages write_nio got through with
  overflow,    \* history: puts that found g_outq full
  quitLost     \* history: a QUIT met a full pipe

ctlVars == <<g_nl, sleepers>>
confVars == <<conf, msg, reset, file, iface>>
sockVars == <<listenPort, sess>>
queueVars == <<outq, obuf, pipe>>
countVars == <<nconf, nctl>>
histVars == <<handled, overflow, quitLost>>
vars == <<upc, npc, ctlVars, confVars, sockVars, queueVars, countVars, histVars>>

Outq == INSTANCE DropOldestQueue WITH
  Item <- Ctl, NoItem <- NoCtl, Cap <- OutqCap, queue <- outq, ret <- obuf
Cmd == INSTANCE CmdPipe

\* The UART loop is about to run, start_net_module has just been called.
Init ==
  /\ upc = "loop" /\ npc = "wait"
  /\ g_nl = 1 /\ sleepers = {}
  /\ conf = [ip |-> Val0, port |-> Val0, hb |-> Val0]
  /\ msg = conf /\ reset = FALSE /\ file = conf /\ iface = conf.ip
  /\ listenPort = None /\ sess = [c \in Conn |-> None]
  /\ Outq!Init /\ Cmd!Init
  /\ nconf = 0 /\ nctl = 0
  /\ handled = {} /\ overflow = 0 /\ quitLost = FALSE

---------------------------------------------------------------------------
(* The condition variable *)

Awake(t) == t \notin sleepers

\* pthread_cond_signal: one of the sleepers, if any, wakes up.
Signal == IF sleepers = {} THEN UNCHANGED sleepers
          ELSE \E t \in sleepers : sleepers' = sleepers \ {t}

\* pthread_cond_wait may also return by itself.
SpuriousWakeup ==
  /\ \E t \in sleepers : sleepers' = sleepers \ {t}
  /\ UNCHANGED <<upc, npc, g_nl, confVars, sockVars, queueVars, countVars, histVars>>

\* while (!ok) nl_p(): go on to the next place, or sleep and test again.
Await(t, ok, pc, next) ==
  /\ Awake(t)
  /\ IF ok THEN pc' = next /\ UNCHANGED sleepers
           ELSE sleepers' = sleepers \cup {t} /\ UNCHANGED pc

---------------------------------------------------------------------------
(* The UART thread *)

\* Reverse control in _handle_uart: fq_put, then fq_putcmd.
PutControl ==
  /\ upc = "loop" /\ nctl < MaxCtl
  /\ Outq!Put(nctl + 1)
  /\ nctl' = nctl + 1
  /\ overflow' = IF Outq!Full THEN overflow + 1 ELSE overflow
  /\ upc' = "notify"
  /\ UNCHANGED <<npc, ctlVars, confVars, sockVars, pipe, nconf, handled, quitLost>>

\* Faulty: nobody is told.
NotifyForgotten ==
  /\ upc = "notify"
  /\ upc' = "loop"
  /\ UNCHANGED <<npc, ctlVars, confVars, sockVars, queueVars, countVars, histVars>>

NotifyControl ==
  /\ upc = "notify"
  /\ Cmd!PutCmd(Cmd!DATAIN)
  /\ upc' = "loop"
  /\ UNCHANGED <<npc, ctlVars, confVars, sockVars, outq, obuf, countVars, histVars>>

\* handle_netconf: the items up to the gateway belong to this thread ...
ReadConf ==
  /\ upc = "loop" /\ nconf < MaxConf
  /\ nconf' = nconf + 1
  /\ msg' \in Conf
  /\ conf' = [conf EXCEPT !.ip = msg'.ip]
  /\ reset' = (msg'.ip # conf.ip)
  /\ upc' = "port"
  /\ UNCHANGED <<npc, ctlVars, file, iface, sockVars, queueVars, nctl, histVars>>

\* ... g_prt and hb_tmeo are written while the net thread may read them.
WritePort ==
  /\ upc = "port"
  /\ conf' = [conf EXCEPT !.port = msg.port]
  /\ reset' = (reset \/ msg.port # conf.port)
  /\ upc' = "hb"
  /\ UNCHANGED <<npc, ctlVars, msg, file, iface, sockVars, queueVars, countVars, histVars>>

\* Faulty: a new heartbeat timeout does not count as a change.
WriteHbUncounted ==
  /\ upc = "hb"
  /\ conf' = [conf EXCEPT !.hb = msg.hb]
  /\ upc' = IF reset THEN "stop" ELSE "loop"
  /\ UNCHANGED <<npc, ctlVars, msg, reset, file, iface, sockVars, queueVars, countVars, histVars>>

WriteHb ==
  /\ upc = "hb"
  /\ conf' = [conf EXCEPT !.hb = msg.hb]
  /\ reset' = (reset \/ msg.hb # conf.hb)
  /\ upc' = IF reset' THEN "stop" ELSE "loop"
  /\ UNCHANGED <<npc, ctlVars, msg, file, iface, sockVars, queueVars, countVars, histVars>>

\* stop_net_module: fq_putcmd(g_outq, FQ_CMD_QUIT), then wait for g_nl == 0.
SendQuit ==
  /\ upc = "stop"
  /\ Cmd!PutCmd(Cmd!QUIT)
  /\ quitLost' = (Len(pipe) = PipeCap)
  /\ upc' = "await"
  /\ UNCHANGED <<npc, ctlVars, confVars, sockVars, outq, obuf, countVars, handled, overflow>>

\* Faulty: QUIT is sent and not waited for.
AwaitNothing ==
  /\ upc = "await"
  /\ upc' = "store"
  /\ UNCHANGED <<npc, ctlVars, confVars, sockVars, queueVars, countVars, histVars>>

AwaitStop ==
  /\ upc = "await"
  /\ Await("uart", g_nl = 0, upc, "store")
  /\ UNCHANGED <<npc, g_nl, confVars, sockVars, queueVars, countVars, histVars>>

\* net.conf is written; that fopen may fail is in NetConf.
store_net_conf ==
  /\ upc = "store"
  /\ file' = conf
  /\ upc' = "config"
  /\ UNCHANGED <<npc, ctlVars, conf, msg, reset, iface, sockVars, queueVars, countVars, histVars>>

config_netif ==
  /\ upc = "config"
  /\ iface' = conf.ip
  /\ upc' = "start"
  /\ UNCHANGED <<npc, ctlVars, conf, msg, reset, file, sockVars, queueVars, countVars, histVars>>

\* Faulty: g_nl is set and the net thread left asleep.
StartUnsignalled ==
  /\ upc = "start"
  /\ g_nl' = 1 /\ UNCHANGED sleepers
  /\ upc' = "loop"
  /\ UNCHANGED <<npc, confVars, sockVars, queueVars, countVars, histVars>>

start_net_module ==
  /\ upc = "start"
  /\ IF g_nl = 0 THEN g_nl' = 1 /\ Signal ELSE UNCHANGED ctlVars
  /\ upc' = "loop"
  /\ UNCHANGED <<npc, confVars, sockVars, queueVars, countVars, histVars>>

---------------------------------------------------------------------------
(* The net thread: net_loop around its event loop *)

AwaitStart ==
  /\ npc = "wait"
  /\ Await("net", g_nl # 0, npc, "listen")
  /\ UNCHANGED <<upc, g_nl, confVars, sockVars, queueVars, countVars, histVars>>

\* add_listen_fd: bind to g_prt, or fail and have no listening socket.
AddListenFd == listenPort' \in {conf.port, None}

StartListening ==
  /\ npc = "listen"
  /\ AddListenFd
  /\ npc' = "run"
  /\ UNCHANGED <<upc, ctlVars, confVars, sess, queueVars, countVars, histVars>>

\* The net thread serves its sockets; after a QUIT, for the rest of the
\* round of libev (ev_break ends ev_run only then).
Serving == npc \in {"run", "cleanup"}

\* listen_cb: a new session with its timer ...
Accept(c) ==
  /\ Serving /\ listenPort # None
  /\ sess[c] = None
  /\ sess' = [sess EXCEPT ![c] = conf.hb]
  /\ UNCHANGED <<upc, npc, ctlVars, confVars, listenPort, queueVars, countVars, histVars>>

\* ... or accept fails: close the listening socket and open another.
AcceptFails ==
  /\ Serving /\ listenPort # None
  /\ AddListenFd
  /\ UNCHANGED <<upc, npc, ctlVars, confVars, sess, queueVars, countVars, histVars>>

\* conn_cb: a message re-arms the timer with the hb_tmeo of the moment.
Receive(c) ==
  /\ Serving /\ sess[c] # None
  /\ sess' = [sess EXCEPT ![c] = conf.hb]
  /\ UNCHANGED <<upc, npc, ctlVars, confVars, listenPort, queueVars, countVars, histVars>>

\* conn_cb on an error, ntmeo_cb: the session is over.
Remove(c) == sess' = [sess EXCEPT ![c] = None]

CloseSession(c) ==
  /\ Serving /\ sess[c] # None
  /\ Remove(c)
  /\ UNCHANGED <<upc, npc, ctlVars, confVars, listenPort, queueVars, countVars, histVars>>

\* outq_cb: a command byte ...
OutqCb ==
  /\ npc = "run"
  /\ \/ Cmd!GetCmd(Cmd!DATAIN) /\ npc' = "get"
     \/ Cmd!GetCmd(Cmd!QUIT) /\ npc' = "cleanup"
  /\ UNCHANGED <<upc, ctlVars, confVars, sockVars, outq, obuf, countVars, histVars>>

\* Faulty: on an empty queue, throw away what else is in the pipe.
WriteGetFlushes ==
  /\ npc = "get"
  /\ Outq!Get
  /\ npc' = IF obuf' = NoCtl THEN "run" ELSE "drain"
  /\ pipe' = IF obuf' = NoCtl THEN <<>> ELSE pipe
  /\ UNCHANGED <<upc, ctlVars, confVars, sockVars, countVars, histVars>>

\* Faulty: fq_get_ai in place of fq_get.
WriteGetNext ==
  /\ npc = "get"
  /\ Outq!GetNext
  /\ npc' = IF obuf' = NoCtl THEN "run" ELSE "drain"
  /\ UNCHANGED <<upc, ctlVars, confVars, sockVars, pipe, countVars, histVars>>

\* ... write_nio: copy the head of the queue; nothing to do when empty ...
WriteGet ==
  /\ npc = "get"
  /\ Outq!Get
  /\ npc' = IF obuf' = NoCtl THEN "run" ELSE "drain"
  /\ UNCHANGED <<upc, ctlVars, confVars, sockVars, pipe, countVars, histVars>>

\* Faulty: a message that cannot be written stays in the queue.
WriteDrainKeeps ==
  /\ npc = "drain"
  /\ \/ UNCHANGED sess /\ Outq!Drain
     \/ \E c \in Conn : sess[c] # None /\ Remove(c) /\ UNCHANGED <<outq, obuf>>
  /\ handled' = handled \cup {obuf}
  /\ npc' = "run"
  /\ UNCHANGED <<upc, ctlVars, confVars, listenPort, pipe, countVars, overflow, quitLost>>

\* ... write it to the session it is for, if there is one, which ends the
\* session if that fails; then remove the head, whatever it is by now.
WriteDrain ==
  /\ npc = "drain"
  /\ \/ UNCHANGED sess
     \/ \E c \in Conn : sess[c] # None /\ Remove(c)
  /\ handled' = handled \cup {obuf}
  /\ Outq!Drain
  /\ npc' = "run"
  /\ UNCHANGED <<upc, ctlVars, confVars, listenPort, pipe, countVars, overflow, quitLost>>

\* After ev_run: ev_nio_cleanup and ev_ntmeo_cleanup, close(listenFd), then
\* tell the UART thread.
Cleanup ==
  /\ npc = "cleanup"
  /\ sess' = [c \in Conn |-> None]
  /\ npc' = "close"
  /\ UNCHANGED <<upc, ctlVars, confVars, listenPort, queueVars, countVars, histVars>>

\* Faulty: the listening socket stays open.
CloseNothing ==
  /\ npc = "close"
  /\ npc' = "stopped"
  /\ UNCHANGED <<upc, ctlVars, confVars, sockVars, queueVars, countVars, histVars>>

CloseListenFd ==
  /\ npc = "close"
  /\ listenPort' = None
  /\ npc' = "stopped"
  /\ UNCHANGED <<upc, ctlVars, confVars, sess, queueVars, countVars, histVars>>

\* Faulty: g_nl is cleared and the UART thread left asleep.
StoppedUnsignalled ==
  /\ npc = "stopped"
  /\ g_nl' = 0 /\ UNCHANGED sleepers
  /\ npc' = "wait"
  /\ UNCHANGED <<upc, confVars, sockVars, queueVars, countVars, histVars>>

SignalStopped ==
  /\ npc = "stopped"
  /\ g_nl' = 0 /\ Signal
  /\ npc' = "wait"
  /\ UNCHANGED <<upc, confVars, sockVars, queueVars, countVars, histVars>>

---------------------------------------------------------------------------
FromUart == PutControl \/ ReadConf

UartLoop ==
  \/ NotifyControl
  \/ WritePort \/ WriteHb
  \/ SendQuit \/ AwaitStop
  \/ store_net_conf \/ config_netif \/ start_net_module

NetLoop ==
  \/ AwaitStart \/ StartListening
  \/ OutqCb \/ WriteGet \/ WriteDrain
  \/ Cleanup \/ CloseListenFd \/ SignalStopped

Clients == AcceptFails \/ \E c \in Conn : Accept(c) \/ Receive(c) \/ CloseSession(c)

Next == FromUart \/ UartLoop \/ NetLoop \/ Clients \/ SpuriousWakeup

Spec == Init /\ [][Next]_vars

\* Both threads run; each loop of libev serves the pipe among the sockets
\* that are ready.  What comes from outside (FromUart, Clients)
\* need not happen, and nothing relies on spurious wakeups.
FairSpec ==
  /\ Spec
  /\ WF_vars(UartLoop)
  /\ WF_vars(NetLoop)

---------------------------------------------------------------------------
(* Properties *)

\* The values each piece of state can have; queue and pipe within bounds.
TypeOK ==
  /\ upc \in {"loop", "notify", "port", "hb", "stop", "await", "store", "config", "start"}
  /\ npc \in {"wait", "listen", "run", "get", "drain", "cleanup", "close", "stopped"}
  /\ g_nl \in {0, 1} /\ sleepers \subseteq Thread
  /\ conf \in Conf /\ msg \in Conf /\ file \in Conf /\ reset \in BOOLEAN
  /\ iface \in Val /\ listenPort \in Val \cup {None}
  /\ sess \in [Conn -> Val \cup {None}]
  /\ outq \in Seq(Ctl) /\ Len(outq) <= OutqCap /\ obuf \in Ctl \cup {NoCtl}
  /\ pipe \in Seq({Cmd!DATAIN, Cmd!QUIT}) /\ Len(pipe) <= PipeCap
  /\ nconf \in 0 .. MaxConf /\ nctl \in 0 .. MaxCtl
  /\ handled \subseteq Ctl /\ overflow \in 0 .. MaxCtl /\ quitLost \in BOOLEAN

NoSockets == listenPort = None /\ \A c \in Conn : sess[c] = None

\* While the UART thread stores and applies a configuration, the net module
\* is stopped and every socket it had is closed: stop_net_module returns
\* only after net_loop is through with its cleanup (main.c:799-822, 957-961).
StoppedWhileConfiguring ==
  upc \in {"store", "config", "start"} => npc = "wait" /\ NoSockets

\* Back in its loop, the UART thread leaves nothing of the configuration it
\* has replaced: the file, the interface, the listening socket and the timer
\* of every session agree with the globals, even those of sessions accepted
\* while the globals were being written (main.c:939-963).
NothingStale ==
  upc \in {"loop", "notify"} =>
    /\ file = conf /\ iface = conf.ip
    /\ listenPort \in {None, conf.port}
    /\ \A c \in Conn : sess[c] \in {None, conf.hb}

Count(c) == Cardinality({i \in 1 .. Len(pipe) : pipe[i] = c})

\* A QUIT is in the pipe only while the UART thread waits for its effect:
\* none is left to stop the module that is started next.
NoStaleQuit == Count(Cmd!QUIT) > 0 => upc = "await" /\ g_nl = 1

\* A stop that has been asked for is on its way, unless a full pipe has
\* swallowed the QUIT (fq_putcmd ignores EAGAIN, fq.c:215).
StopIsUnderWay ==
  upc = "await" /\ ~quitLost =>
    Count(Cmd!QUIT) = 1 \/ npc \in {"cleanup", "close", "stopped"} \/ g_nl = 0

\* Every message in g_outq has a command byte to its name, if the pipe holds
\* at least as many bytes as the queue has messages: outq_cb takes one
\* message per byte, and no message waits for the next one to arrive.
Announced == Count(Cmd!DATAIN) + (IF npc \in {"get", "drain"} THEN 1 ELSE 0)
               + (IF upc = "notify" THEN 1 ELSE 0)
ControlsAnnounced == PipeCap >= OutqCap => Len(outq) <= Announced

\* What was queued before a stop is handled before it: QUIT is behind the
\* command bytes of the messages, so no message crosses a restart.
HandledBeforeStop ==
  /\ PipeCap >= OutqCap
  /\ npc \in {"cleanup", "close", "stopped"} \/ upc \in {"store", "config", "start"}
  => outq = <<>>

\* No more messages are lost between fq_get and fq_drain in write_nio than
\* there were overflows, although an overflow in between makes fq_drain
\* remove a message that was never looked at (main.c:730-747).
Lost == {n \in 1 .. nctl : n \notin handled /\ \A i \in 1 .. Len(outq) : outq[i] # n}
LossAccounted == Cardinality(Lost) <= overflow

\* The clients get the messages in the order in which the board has sent them,
\* each of them once: fq_drain, after an overflow, removes a message that was
\* not written yet, but never leaves one that was (main.c:731-747).
DeliveredInOrder ==
  [][npc = "drain" /\ npc' # "drain" => \A n \in handled : n < obuf]_vars

\* What the invariants above rest on.  g_nl is 0 only between the end of
\* net_loop's cleanup and start_net_module, and the net thread stops only
\* while the UART thread waits for it.
Stopping == npc \in {"cleanup", "close", "stopped"}
Configuring == upc \in {"store", "config", "start"}
Phases ==
  /\ g_nl = 0 => npc = "wait" /\ (upc = "await" \/ Configuring)
  /\ Configuring => g_nl = 0
  /\ Stopping => upc = "await"
  /\ npc \in {"wait", "listen", "stopped"} => NoSockets
  /\ npc = "close" => \A c \in Conn : sess[c] = None

\* QUIT is the last byte of the pipe, if it is there at all.
AllData == \A i \in 1 .. Len(pipe) : pipe[i] = Cmd!DATAIN
QuitLast ==
  /\ pipe # <<>> /\ pipe[Len(pipe)] = Cmd!QUIT
  /\ \A i \in 1 .. Len(pipe) - 1 : pipe[i] = Cmd!DATAIN
PipeInOrder ==
  /\ AllData \/ (QuitLast /\ upc = "await" /\ g_nl = 1 /\ ~Stopping)
  /\ upc = "await" /\ ~quitLost => QuitLast \/ Stopping \/ g_nl = 0

\* The items agree one by one as handle_netconf goes through them; those it
\* has not come to yet are what they were, and reset tells of the others.
SocketsAgree == listenPort \in {None, conf.port}
TimersAgree == \A c \in Conn : sess[c] \in {None, conf.hb}
Stored == file = conf /\ iface = conf.ip
AgreeSoFar ==
  /\ upc \in {"loop", "notify"} => Stored /\ SocketsAgree /\ TimersAgree
  /\ upc = "port" => (~reset => Stored) /\ SocketsAgree /\ TimersAgree
  /\ upc = "hb" => (~reset => Stored /\ SocketsAgree) /\ TimersAgree
  /\ upc = "config" => file = conf
  /\ upc = "start" => Stored

\* The command bytes of messages, QUIT not being one.
DataBytes == IF AllData THEN Len(pipe) ELSE Len(pipe) - 1
Told == DataBytes + (IF npc \in {"get", "drain"} THEN 1 ELSE 0)
                  + (IF upc = "notify" THEN 1 ELSE 0)
EachIsTold ==
  PipeCap >= OutqCap =>
    /\ Len(outq) <= Told
    /\ Stopping \/ g_nl = 0 => outq = <<>>

\* The queue is in order of arrival, behind what was handled and what is
\* being handled.
QueueInOrder ==
  /\ \A i \in 1 .. Len(outq) : outq[i] <= nctl
  /\ \A i, j \in 1 .. Len(outq) : i < j => outq[i] < outq[j]
  /\ \A n \in handled : n <= nctl /\ \A i \in 1 .. Len(outq) : n < outq[i]
  /\ npc = "drain" =>
       /\ outq # <<>> /\ obuf \in 1 .. nctl
       /\ \A i \in 1 .. Len(outq) : obuf <= outq[i]
       /\ \A n \in handled : n < obuf

IInv ==
  /\ TypeOK /\ Phases /\ PipeInOrder /\ AgreeSoFar
  /\ EachIsTold /\ QueueInOrder /\ LossAccounted /\ overflow <= nctl

\* A stop that is asked for comes to its end, and the UART thread returns to
\* its loop, whatever the clients and the condition variable do.
StopEnds == upc = "stop" ~> upc = "loop" \/ quitLost

\* The net module comes up whenever it is told to.
ModuleRuns == g_nl = 1 ~> npc = "run"
=============================================================================
