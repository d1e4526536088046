------------------------------ MODULE Sessions ------------------------------
(***************************************************************************)
(* The client sessions of the net thread (main.c): nodes ev_nio_t for      *)
(* connections and ev_ntmeo_t for their heartbeat timers, each taken from  *)
(* a pool that never shrinks, tied together by plain pointers, and the     *)
(* table ev_arr from user ID to session.                                   *)
(*                                                                         *)
(* The callbacks run one at a time in the event loop of the net thread.    *)
(* listen_cb and conn_cb are split at the functions they call, so that the *)
(* state in between can be looked at: pc says where the callback is, cur   *)
(* is the node it works on.  A node is in one list at a time, its header   *)
(* being part of it; the order of a free list is left open.                *)
(***************************************************************************)
EXTENDS Naturals, FiniteSets

CONSTANTS
  Nio,        \* addresses calloc can give to connection nodes
  Timer,      \* addresses calloc can give to timer nodes
  Fd,         \* descriptors of accepted sockets
  Id,         \* valid user IDs, those below MAX_USER_ID
  MaxClient   \* MAX_CLIENT, the limit of either pool

Null == "null"
NoId == "-1"
BadId == "bad"    \* an ID a message can carry that is not valid

ASSUME SessionsAssumption ==
  /\ IsFiniteSet(Nio) /\ IsFiniteSet(Timer)
  /\ MaxClient \in Nat \ {0}
  /\ Cardinality(Nio) >= MaxClient /\ Cardinality(Timer) >= MaxClient
  /\ Null \notin Nio \cup Timer \cup Fd /\ NoId \notin Id

VARIABLES
  pc,         \* where the current callback is
  cur,        \* the node it works on
  mid,        \* the ID in the message being handled
  nlist,      \* list each connection node is in: "none" before its calloc
  fd,         \* ev->fd
  id,         \* ev->id
  tev,        \* ev->tev
  iocnt,      \* g_iocnt
  tlist,      \* list each timer node is in
  nio,        \* tev->nio
  active,     \* timer nodes whose watcher is started
  tmeocnt,    \* g_tmeocnt
  ev_arr,     \* session of each user ID
  open        \* descriptors open in the kernel

cbVars == <<pc, cur, mid>>
nioVars == <<nlist, fd, id, iocnt, ev_arr, open>>
timerVars == <<tlist, nio, active, tmeocnt>>
vars == <<cbVars, nioVars, tev, timerVars>>

Live == {n \in Nio : nlist[n] = "live"}         \* g_watcher_list
FreeNio == {n \in Nio : nlist[n] = "free"}      \* free_list
LiveTimer == {t \in Timer : tlist[t] = "live"}  \* g_tmeo_list
FreeTimer == {t \in Timer : tlist[t] = "free"}  \* tmeo_free_list

Init ==
  /\ pc = "loop" /\ cur = Null /\ mid = NoId
  /\ nlist = [n \in Nio |-> "none"] /\ fd = [n \in Nio |-> Null]
  /\ id = [n \in Nio |-> NoId] /\ tev = [n \in Nio |-> Null]
  /\ iocnt = 0
  /\ tlist = [t \in Timer |-> "none"] /\ nio = [t \in Timer |-> Null]
  /\ active = {} /\ tmeocnt = 0
  /\ ev_arr = [i \in Id |-> Null]
  /\ open = {}

Return == pc' = "loop" /\ cur' = Null /\ mid' = NoId

---------------------------------------------------------------------------
(* The pools *)

\* Faulty: the node is stopped and stays out of the free list.
StopTimerNode(t) ==
  /\ active' = active \ {t}
  /\ UNCHANGED <<tlist, nio, tmeocnt>>

\* ev_ntmeo_remove, or its two parts as ntmeo_cb calls them.
FreeTimerNode(t) ==
  /\ active' = active \ {t}
  /\ tlist' = [tlist EXCEPT ![t] = "free"]
  /\ UNCHANGED <<nio, tmeocnt>>

\* ev_nio_remove_timer
RemoveTimer(n) ==
  /\ IF tev[n] # Null THEN FreeTimerNode(tev[n]) ELSE UNCHANGED timerVars
  /\ tev' = [tev EXCEPT ![n] = Null]

\* Faulty: the table keeps the node.
RemoveNioKeepsEntry(n) ==
  /\ open' = open \ {fd[n]}
  /\ id' = [id EXCEPT ![n] = NoId]
  /\ nlist' = [nlist EXCEPT ![n] = "free"]
  /\ UNCHANGED <<fd, iocnt, ev_arr>>

\* Faulty: the socket stays open.
RemoveNioKeepsFd(n) ==
  /\ ev_arr' = IF id[n] # NoId THEN [ev_arr EXCEPT ![id[n]] = Null] ELSE ev_arr
  /\ id' = [id EXCEPT ![n] = NoId]
  /\ nlist' = [nlist EXCEPT ![n] = "free"]
  /\ UNCHANGED <<fd, iocnt, open>>

\* ev_nio_remove: close the socket, clear the table entry, free the node.
\* The pointer tev stays what it is.
RemoveNio(n) ==
  /\ open' = open \ {fd[n]}
  /\ ev_arr' = IF id[n] # NoId THEN [ev_arr EXCEPT ![id[n]] = Null] ELSE ev_arr
  /\ id' = [id EXCEPT ![n] = NoId]
  /\ nlist' = [nlist EXCEPT ![n] = "free"]
  /\ UNCHANGED <<fd, iocnt>>

\* ev_nio_timer_add with a node t that ev_ntmeo_new has found.
StartTimer(n, t) ==
  /\ tev' = [tev EXCEPT ![n] = t]
  /\ nio' = [nio EXCEPT ![t] = n]
  /\ active' = active \cup {t}
  /\ tlist' = [tlist EXCEPT ![t] = "live"]

---------------------------------------------------------------------------
(* listen_cb *)

\* A node for the new connection, from the free list or else from calloc,
\* its timer to be added.
AcceptOn(n, f) ==
  /\ nlist' = [nlist EXCEPT ![n] = "live"]
  /\ fd' = [fd EXCEPT ![n] = f]
  /\ id' = [id EXCEPT ![n] = NoId]
  /\ open' = open \cup {f}
  /\ pc' = "timer" /\ cur' = n
  /\ UNCHANGED <<mid, tev, timerVars, ev_arr>>

AcceptReused(n, f) ==
  /\ pc = "loop" /\ f \notin open
  /\ n \in FreeNio
  /\ AcceptOn(n, f)
  /\ UNCHANGED iocnt

AcceptNew(n, f) ==
  /\ pc = "loop" /\ f \notin open
  /\ FreeNio = {} /\ iocnt < MaxClient
  /\ nlist[n] = "none"
  /\ AcceptOn(n, f)
  /\ iocnt' = iocnt + 1

\* Faulty: the limit is not looked at.
AcceptNoMemoryUnlimited ==
  /\ pc = "loop" /\ Fd \ open # {}
  /\ FreeNio = {}
  /\ iocnt' = iocnt + 1
  /\ UNCHANGED <<cbVars, nlist, fd, id, ev_arr, open, tev, timerVars>>

\* calloc fails: the connection is closed again, and counted all the same.
AcceptNoMemory ==
  /\ pc = "loop" /\ Fd \ open # {}
  /\ FreeNio = {} /\ iocnt < MaxClient
  /\ iocnt' = iocnt + 1
  /\ UNCHANGED <<cbVars, nlist, fd, id, ev_arr, open, tev, timerVars>>

---------------------------------------------------------------------------
(* ev_nio_timer_add, the end of listen_cb and of handle_nio *)

TimerReused(t) ==
  /\ pc = "timer"
  /\ t \in FreeTimer
  /\ StartTimer(cur, t)
  /\ Return
  /\ UNCHANGED <<nioVars, tmeocnt>>

TimerNew(t) ==
  /\ pc = "timer"
  /\ FreeTimer = {} /\ tmeocnt < MaxClient
  /\ tlist[t] = "none"
  /\ StartTimer(cur, t)
  /\ tmeocnt' = tmeocnt + 1
  /\ Return
  /\ UNCHANGED nioVars

\* No timer, no session: calloc fails (and counts), or the pool is used up.
NoTimer ==
  /\ RemoveNio(cur)
  /\ Return
  /\ UNCHANGED <<tev, tlist, nio, active>>

TimerNoMemory ==
  /\ pc = "timer"
  /\ FreeTimer = {} /\ tmeocnt < MaxClient
  /\ tmeocnt' = tmeocnt + 1
  /\ NoTimer

TimerPoolEmpty ==
  /\ pc = "timer"
  /\ FreeTimer = {} /\ tmeocnt >= MaxClient
  /\ UNCHANGED tmeocnt
  /\ NoTimer

---------------------------------------------------------------------------
(* conn_cb *)

\* The socket has data: stop the timer and go through the messages.
ConnCb(n) ==
  /\ pc = "loop" /\ n \in Live
  /\ RemoveTimer(n)
  /\ pc' = "read" /\ cur' = n
  /\ UNCHANGED <<mid, nioVars>>

\* EV_ERROR, or the read fails or finds the connection closed.
ConnFails(n) ==
  /\ pc = "loop" /\ n \in Live
  /\ RemoveTimer(n)
  /\ RemoveNio(n)
  /\ UNCHANGED cbVars

\* handle_nio: another whole message in the buffer, or none and the timer.
Message(i) ==
  /\ pc = "read"
  /\ pc' = "msg" /\ mid' = i
  /\ UNCHANGED <<cur, nioVars, tev, timerVars>>

\* Faulty: back to the loop without a timer.
NoMoreMessagesNoTimer ==
  /\ pc = "read"
  /\ Return
  /\ UNCHANGED <<nioVars, tev, timerVars>>

NoMoreMessages ==
  /\ pc = "read"
  /\ pc' = "timer"
  /\ UNCHANGED <<cur, mid, nioVars, tev, timerVars>>

\* Faulty: the session that loses the ID keeps its timer.
TakeOverKeepsTimer ==
  /\ pc = "msg" /\ mid \in Id
  /\ id[cur] = NoId /\ ev_arr[mid] # Null
  /\ RemoveNio(ev_arr[mid])
  /\ UNCHANGED <<cbVars, tev, timerVars>>

\* handle_netmsg, first message of this session: whoever has the ID loses it ...
TakeOver ==
  /\ pc = "msg" /\ mid \in Id
  /\ id[cur] = NoId /\ ev_arr[mid] # Null
  /\ RemoveTimer(ev_arr[mid])
  /\ RemoveNio(ev_arr[mid])
  /\ UNCHANGED cbVars

\* ... and the ID is this session's.
Register ==
  /\ pc = "msg" /\ mid \in Id
  /\ id[cur] = NoId /\ ev_arr[mid] = Null
  /\ id' = [id EXCEPT ![cur] = mid]
  /\ ev_arr' = [ev_arr EXCEPT ![mid] = cur]
  /\ UNCHANGED <<cbVars, nlist, fd, iocnt, open, tev, timerVars>>

\* The ack is written, the alarm queued (module AlarmLink): next message.
Acknowledge ==
  /\ pc = "msg" /\ mid \in Id /\ id[cur] = mid
  /\ pc' = "read" /\ mid' = NoId
  /\ UNCHANGED <<cur, nioVars, tev, timerVars>>

\* An invalid ID, an ID that is not this session's, or the ack cannot be
\* written: the session ends, its timer being off already.
Reject ==
  /\ pc = "msg"
  /\ mid = BadId \/ id[cur] # NoId
  /\ RemoveNio(cur)
  /\ Return
  /\ UNCHANGED <<tev, timerVars>>

---------------------------------------------------------------------------
(* The other callbacks *)

\* ntmeo_cb: it frees the timer node without a look at ev->tev.
Timeout(t) ==
  /\ pc = "loop" /\ t \in active
  /\ RemoveNio(nio[t])
  /\ FreeTimerNode(t)
  /\ UNCHANGED <<cbVars, tev>>

\* write_nio: a message for user i cannot be written.
WriteFails(i) ==
  /\ pc = "loop" /\ ev_arr[i] # Null
  /\ RemoveTimer(ev_arr[i])
  /\ RemoveNio(ev_arr[i])
  /\ UNCHANGED cbVars

\* ev_nio_cleanup and ev_ntmeo_cleanup, when the net module is stopped.
Cleanup ==
  /\ pc = "loop"
  /\ nlist' = [n \in Nio |-> IF n \in Live THEN "free" ELSE nlist[n]]
  /\ open' = open \ {fd[n] : n \in Live}
  /\ id' = [n \in Nio |-> IF n \in Live THEN NoId ELSE id[n]]
  /\ ev_arr' = [i \in Id |-> Null]
  /\ tlist' = [t \in Timer |-> IF t \in LiveTimer THEN "free" ELSE tlist[t]]
  /\ active' = active \ LiveTimer
  /\ UNCHANGED <<cbVars, fd, iocnt, tev, nio, tmeocnt>>

---------------------------------------------------------------------------
ListenCb ==
  \/ \E n \in Nio, f \in Fd : AcceptReused(n, f) \/ AcceptNew(n, f)
  \/ AcceptNoMemory

TimerAdd ==
  \/ \E t \in Timer : TimerReused(t) \/ TimerNew(t)
  \/ TimerNoMemory \/ TimerPoolEmpty

HandleNio ==
  \/ \E n \in Nio : ConnCb(n) \/ ConnFails(n)
  \/ \E i \in Id \cup {BadId} : Message(i)
  \/ NoMoreMessages
  \/ TakeOver \/ Register \/ Acknowledge \/ Reject

Next ==
  \/ ListenCb \/ TimerAdd \/ HandleNio
  \/ \E t \in Timer : Timeout(t)
  \/ \E i \in Id : WriteFails(i)
  \/ Cleanup

Spec == Init /\ [][Next]_vars

\* A callback ends: what one read has put in the buffer holds finitely many
\* messages.  libev looks at its timers in every round of the loop, so one
\* that stays started runs out, whatever else there is to do.
FairSpec ==
  /\ Spec
  /\ WF_vars(TimerAdd)
  /\ WF_vars(TakeOver \/ Register \/ Acknowledge \/ Reject)
  /\ SF_vars(NoMoreMessages)
  /\ \A t \in Timer : SF_vars(Timeout(t))

---------------------------------------------------------------------------
(* Properties *)

\* Pointers point to nodes of their kind and both counters stay at or below
\* MAX_CLIENT, failed callocs included.
TypeOK ==
  /\ pc \in {"loop", "timer", "read", "msg"}
  /\ cur \in Nio \cup {Null} /\ mid \in Id \cup {NoId, BadId}
  /\ nlist \in [Nio -> {"none", "free", "live"}]
  /\ fd \in [Nio -> Fd \cup {Null}] /\ id \in [Nio -> Id \cup {NoId}]
  /\ tev \in [Nio -> Timer \cup {Null}] /\ iocnt \in 0 .. MaxClient
  /\ tlist \in [Timer -> {"none", "free", "live"}]
  /\ nio \in [Timer -> Nio \cup {Null}]
  /\ active \subseteq Timer /\ tmeocnt \in 0 .. MaxClient
  /\ ev_arr \in [Id -> Nio \cup {Null}] /\ open \subseteq Fd

\* Every session waits with exactly one running timer that points back at
\* it, and no timer runs for a node that is free: a heartbeat timeout always
\* ends the session it was started for.  The session a callback works on
\* has no timer until the callback ends.  The pointer tev that ntmeo_cb and
\* ev_nio_cleanup leave behind in a free node is never followed, or it would
\* take the timer of another session (main.c:398-406, 490-502).
OneTimerEach ==
  /\ active = LiveTimer
  /\ \A n \in Live \ {cur} : tev[n] \in active /\ nio[tev[n]] = n
  /\ \A t \in active : nio[t] \in Live \ {cur} /\ tev[nio[t]] = t

\* ev_arr and the sessions agree: a user ID has at most one session, and a
\* session that ends, however it ends, is out of the table.
TableAgrees ==
  /\ \A i \in Id : ev_arr[i] # Null => ev_arr[i] \in Live /\ id[ev_arr[i]] = i
  /\ \A n \in Nio : id[n] # NoId => n \in Live /\ ev_arr[id[n]] = n

\* Each session has an open descriptor of its own and none is leaked or
\* closed twice: a close on the wrong node would hit another session's.
DescriptorsAgree ==
  /\ open = {fd[n] : n \in Live}
  /\ \A m, n \in Live : fd[m] = fd[n] => m = n

\* To everybody else the sessions are a set of open connections and a table
\* from user IDs to them (module Registry): no connection is ever closed
\* behind the back of the table, none is left in it after its end, none is
\* listed twice, and a descriptor that is used again belongs to nobody.
Reached(n) == IF n = Null THEN Null ELSE fd[n]
Reg == INSTANCE Registry WITH
  None <- Null, conns <- open, owner <- [i \in Id |-> Reached(ev_arr[i])]
ImplementsRegistry == Reg!Spec

\* A client that has just been heard is never dropped for want of a timer:
\* while conn_cb works, the node it has given back at its start is there to
\* be had at its end, with the pool used up and whoever else is removed.
HeardIsKept == pc \in {"read", "msg"} => FreeTimer # {}

\* Between callbacks nothing is being worked on; a callback works on a
\* session that is there to the end of it.
WorksOnSession ==
  /\ pc = "loop" <=> cur = Null
  /\ pc # "loop" => cur \in Live

\* A session has a descriptor that accept has returned.
HasDescriptor == \A n \in Live : fd[n] \in Fd

\* A pool has no node that is not counted, so none beyond MAX_CLIENT; a failed
\* calloc is counted as well (main.c:340-360, 414-424).
PoolsCounted ==
  /\ Cardinality({n \in Nio : nlist[n] # "none"}) <= iocnt
  /\ Cardinality({t \in Timer : tlist[t] # "none"}) <= tmeocnt

\* The inductive invariant: what ties the nodes together, and the counts.
NodesInv ==
  /\ TypeOK /\ WorksOnSession /\ HasDescriptor
  /\ OneTimerEach /\ TableAgrees /\ DescriptorsAgree /\ HeardIsKept
IInv == NodesInv /\ PoolsCounted

\* A session that falls silent is closed: nothing takes the timer from it
\* that would not start another one.
SilentEnds == \A n \in Nio : n \in Live ~> n \notin Live \/ (pc = "read" /\ cur = n)
=============================================================================
