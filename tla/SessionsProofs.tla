-------------------------- MODULE SessionsProofs --------------------------
(* Proofs about the sessions of module Sessions, for every number of       *)
(* nodes, descriptors and user IDs and every limit of the pools.           *)
EXTENDS Sessions, FiniteSetTheorems, TLAPS

---------------------------------------------------------------------------
(* Lemmas about the operations on nodes *)

\* ev_nio_remove on any session leaves a table and a set of descriptors
\* that agree about the others, and touches no other node.
LEMMA NioRemoved ==
  ASSUME NodesInv, NEW n \in Live, RemoveNio(n)
  PROVE  /\ Live' = Live \ {n}
         /\ TableAgrees' /\ DescriptorsAgree' /\ HasDescriptor'
         /\ nlist' \in [Nio -> {"none", "free", "live"}]
         /\ id' \in [Nio -> Id \cup {NoId}]
         /\ ev_arr' \in [Id -> Nio \cup {Null}]
         /\ open' \subseteq Fd
<1> USE SessionsAssumption DEF NodesInv, RemoveNio
<1>1. Live' = Live \ {n}
  BY DEF Live, TypeOK
<1>2. n \in Nio /\ id[n] \in Id \cup {NoId}
  BY DEF Live, TypeOK
<1>3. id' \in [Nio -> Id \cup {NoId}] /\ ev_arr' \in [Id -> Nio \cup {Null}]
  BY <1>2 DEF TypeOK
<1>4. TableAgrees'
  <2>1. ASSUME NEW i \in Id, ev_arr'[i] # Null
        PROVE  ev_arr'[i] \in Live' /\ id'[ev_arr'[i]] = i
    <3>1. ev_arr'[i] = ev_arr[i] /\ i # id[n]
      BY <1>2, <2>1 DEF TypeOK
    <3>2. ev_arr[i] \in Live /\ id[ev_arr[i]] = i
      BY <2>1, <3>1 DEF TableAgrees
    <3>3. ev_arr[i] # n
      BY <3>1, <3>2
    <3>4. QED
      BY <1>1, <3>1, <3>2, <3>3 DEF TypeOK, Live
  <2>2. ASSUME NEW m \in Nio, id'[m] # NoId
        PROVE  m \in Live' /\ ev_arr'[id'[m]] = m
    <3>1. m # n /\ id'[m] = id[m]
      BY <1>2, <2>2 DEF TypeOK
    <3>2. m \in Live /\ ev_arr[id[m]] = m /\ id[m] \in Id
      BY <2>2, <3>1 DEF TableAgrees, TypeOK
    <3>3. id[n] # NoId => id[n] # id[m]
      BY <1>2, <3>1, <3>2 DEF TableAgrees
    <3>4. QED
      BY <1>1, <1>2, <3>1, <3>2, <3>3 DEF TypeOK
  <2>3. QED
    BY <2>1, <2>2 DEF TableAgrees
<1>5. DescriptorsAgree' /\ HasDescriptor'
  BY <1>1 DEF DescriptorsAgree, HasDescriptor
<1>6. QED
  BY <1>1, <1>3, <1>4, <1>5 DEF TypeOK

\* ev_nio_remove_timer on a waiting session frees the timer that points to
\* it, and no timer of another.
LEMMA TimerRemoved ==
  ASSUME NodesInv, NEW n \in Live \ {cur}, RemoveTimer(n)
  PROVE  /\ active' = LiveTimer' /\ active' \subseteq Timer
         /\ FreeTimer' # {}
         /\ \A m \in Live \ {cur, n} : tev'[m] \in active' /\ nio'[tev'[m]] = m
         /\ \A t \in active' : nio'[t] \in Live \ {cur, n} /\ tev'[nio'[t]] = t
         /\ tev' \in [Nio -> Timer \cup {Null}]
         /\ tlist' \in [Timer -> {"none", "free", "live"}]
         /\ UNCHANGED <<nio, tmeocnt>>
<1> USE SessionsAssumption DEF NodesInv
<1>1. n \in Nio /\ tev[n] \in active /\ tev[n] \in Timer /\ tev[n] # Null /\ nio[tev[n]] = n
  BY DEF OneTimerEach, Live, TypeOK
<1>2. /\ active' = active \ {tev[n]}
      /\ tlist' = [tlist EXCEPT ![tev[n]] = "free"]
      /\ tev' = [tev EXCEPT ![n] = Null]
      /\ UNCHANGED <<nio, tmeocnt>>
  BY <1>1 DEF RemoveTimer, FreeTimerNode
<1>3. active' = LiveTimer' /\ FreeTimer' # {}
  BY <1>1, <1>2 DEF OneTimerEach, LiveTimer, FreeTimer, TypeOK
<1>4. ASSUME NEW m \in Live \ {cur, n}
      PROVE  tev'[m] \in active' /\ nio'[tev'[m]] = m
  <2>1. tev'[m] = tev[m]
    BY <1>2 DEF TypeOK, Live
  <2>2. tev[m] \in active /\ nio[tev[m]] = m
    BY DEF OneTimerEach
  <2>3. QED
    BY <1>1, <1>2, <2>1, <2>2
<1>5. ASSUME NEW t \in active'
      PROVE  nio'[t] \in Live \ {cur, n} /\ tev'[nio'[t]] = t
  <2>1. t \in active /\ t # tev[n]
    BY <1>2
  <2>2. nio[t] \in Live \ {cur} /\ tev[nio[t]] = t
    BY <2>1 DEF OneTimerEach
  <2>3. QED
    BY <1>2, <2>1, <2>2 DEF TypeOK, Live
<1>6. QED
  BY <1>1, <1>2, <1>3, <1>4, <1>5 DEF TypeOK

\* ev_nio_timer_add ties the session of the callback to a timer that no
\* other session has.
LEMMA TimerStarted ==
  ASSUME NodesInv, pc = "timer", NEW t \in Timer \ LiveTimer, StartTimer(cur, t), Return,
         UNCHANGED nioVars
  PROVE  OneTimerEach' /\ WorksOnSession' /\ HeardIsKept'
         /\ tev' \in [Nio -> Timer \cup {Null}]
         /\ nio' \in [Timer -> Nio \cup {Null}]
         /\ tlist' \in [Timer -> {"none", "free", "live"}]
         /\ active' \subseteq Timer
         /\ pc' = "loop" /\ cur' = Null /\ mid' = NoId
<1> USE SessionsAssumption DEF NodesInv, StartTimer, Return
<1>1. cur \in Nio /\ cur \in Live /\ Live' = Live /\ Null \notin Live
  BY DEF WorksOnSession, Live, nioVars
<1>2. active' = LiveTimer'
  BY DEF OneTimerEach, LiveTimer, TypeOK
<1>3. ASSUME NEW n \in Live'
      PROVE  tev'[n] \in active' /\ nio'[tev'[n]] = n
  <2>1. CASE n = cur
    BY <1>1, <2>1 DEF TypeOK
  <2>2. CASE n # cur
    <3>1. n \in Nio /\ tev'[n] = tev[n]
      BY <1>1, <2>2 DEF Live, TypeOK
    <3>2. tev[n] \in active /\ nio[tev[n]] = n
      BY <1>1, <2>2 DEF OneTimerEach
    <3>3. tev[n] # t /\ tev[n] \in Timer
      BY <3>2 DEF OneTimerEach, TypeOK
    <3>4. QED
      BY <3>1, <3>2, <3>3 DEF TypeOK
  <2>3. QED
    BY <2>1, <2>2
<1>4. ASSUME NEW s \in active'
      PROVE  nio'[s] \in Live' /\ tev'[nio'[s]] = s
  <2>1. CASE s = t
    BY <1>1, <2>1 DEF TypeOK
  <2>2. CASE s # t
    <3>1. nio[s] \in Live \ {cur} /\ tev[nio[s]] = s /\ s \in Timer
      BY <2>2 DEF OneTimerEach, TypeOK
    <3>2. QED
      BY <1>1, <2>2, <3>1 DEF TypeOK, Live
  <2>3. QED
    BY <2>1, <2>2
<1>5. OneTimerEach'
  BY <1>1, <1>2, <1>3, <1>4 DEF OneTimerEach
<1>6. QED
  BY <1>1, <1>5 DEF WorksOnSession, HeardIsKept, TypeOK

---------------------------------------------------------------------------
(* The inductive invariant: how the nodes are tied together *)

\* With no node allocated the invariant holds.
LEMMA InitNodesInv == Init => NodesInv
<1> SUFFICES ASSUME Init PROVE NodesInv
  OBVIOUS
<1> USE SessionsAssumption DEF Init
<1>1. TypeOK
  BY DEF TypeOK
<1>2. Live = {} /\ LiveTimer = {}
  BY DEF Live, LiveTimer
<1>3. OneTimerEach /\ TableAgrees /\ DescriptorsAgree
  BY <1>2 DEF OneTimerEach, TableAgrees, DescriptorsAgree
<1>4. QED
  BY <1>1, <1>2, <1>3 DEF NodesInv, WorksOnSession, HasDescriptor, HeardIsKept

\* listen_cb ties the new session to no table entry and no timer yet; its
\* descriptor is one that no session has.
LEMMA AcceptIInv ==
  ASSUME NodesInv, NEW n \in Nio \ Live, NEW f \in Fd \ open, pc = "loop",
         AcceptOn(n, f), iocnt' \in 0 .. MaxClient
  PROVE  NodesInv'
<1> USE SessionsAssumption DEF NodesInv, AcceptOn
<1>1. TypeOK'
  BY DEF TypeOK, timerVars
<1>2. /\ Live' = Live \cup {n} /\ LiveTimer' = LiveTimer
      /\ cur = Null /\ n # Null /\ Null \notin Live
  BY DEF Live, LiveTimer, TypeOK, WorksOnSession, timerVars
<1>3. WorksOnSession' /\ HasDescriptor' /\ HeardIsKept'
  BY <1>2 DEF WorksOnSession, HasDescriptor, HeardIsKept, TypeOK, Live
<1>4. OneTimerEach'
  <2>1. Live' \ {cur'} = Live \ {cur}
    BY <1>2
  <2>2. QED
    BY <1>2, <2>1 DEF OneTimerEach, timerVars
<1>5. TableAgrees'
  BY <1>2 DEF TableAgrees, TypeOK, Live
<1>6. DescriptorsAgree'
  <2>1. /\ fd'[n] = f /\ f \notin open
        /\ \A m \in Live : fd'[m] = fd[m] /\ fd[m] \in open
    BY DEF DescriptorsAgree, TypeOK, Live
  <2>2. open' = {fd'[m] : m \in Live'}
    BY <1>2, <2>1 DEF DescriptorsAgree
  <2>3. QED
    BY <1>2, <2>1, <2>2 DEF DescriptorsAgree
<1>7. QED
  BY <1>1, <1>3, <1>4, <1>5, <1>6

\* A session taken down between callbacks, or while another one is worked on,
\* together with its timer.
LEMMA RemovedIInv ==
  ASSUME NodesInv, NEW n \in Live \ {cur}, RemoveTimer(n), RemoveNio(n), UNCHANGED cbVars
  PROVE  NodesInv'
<1>1. TypeOK'
  <2>1. /\ nlist' \in [Nio -> {"none", "free", "live"}]
        /\ id' \in [Nio -> Id \cup {NoId}]
        /\ ev_arr' \in [Id -> Nio \cup {Null}]
        /\ open' \subseteq Fd
    BY NioRemoved
  <2>2. /\ tev' \in [Nio -> Timer \cup {Null}]
        /\ tlist' \in [Timer -> {"none", "free", "live"}]
        /\ active' \subseteq Timer
        /\ UNCHANGED <<nio, tmeocnt>>
    BY TimerRemoved
  <2>3. UNCHANGED <<pc, cur, mid, fd, iocnt>>
    BY DEF RemoveNio, cbVars
  <2>4. QED
    BY <2>1, <2>2, <2>3 DEF NodesInv, TypeOK
<1> USE SessionsAssumption DEF NodesInv, cbVars
<1>2. Live' = Live \ {n}
  BY NioRemoved
<1>3. WorksOnSession' /\ HeardIsKept'
  BY <1>2, TimerRemoved DEF WorksOnSession, HeardIsKept
<1>4. OneTimerEach'
  <2>1. Live' \ {cur'} = Live \ {cur, n}
    BY <1>2
  <2>2. QED
    BY <2>1, TimerRemoved DEF OneTimerEach
<1>5. QED
  BY <1>1, <1>3, <1>4, NioRemoved

\* A callback that ends the session it works on, the timer being off.
LEMMA EndedIInv ==
  ASSUME NodesInv, pc # "loop", RemoveNio(cur), Return,
         UNCHANGED <<tev, tlist, nio, active>>, tmeocnt' \in 0 .. MaxClient
  PROVE  NodesInv'
<1> USE SessionsAssumption DEF NodesInv, Return
<1>1. cur \in Live
  BY DEF WorksOnSession
<1>2. Live' = Live \ {cur}
  BY <1>1, NioRemoved
<1>3. TypeOK'
  BY <1>1, NioRemoved DEF TypeOK, RemoveNio
<1>4. WorksOnSession' /\ HeardIsKept' /\ Null \notin Live
  BY DEF WorksOnSession, HeardIsKept, Live
<1>5. OneTimerEach'
  <2>1. Live' \ {cur'} = Live \ {cur} /\ LiveTimer' = LiveTimer
    BY <1>2, <1>4 DEF LiveTimer
  <2>2. QED
    BY <2>1 DEF OneTimerEach
<1>6. QED
  BY <1>1, <1>3, <1>4, <1>5, NioRemoved

\* ntmeo_cb: the timer ends the session it was started for, and no other.
LEMMA TimeoutIInv ==
  ASSUME NodesInv, NEW t \in Timer, Timeout(t)
  PROVE  NodesInv' /\ nio[t] \in Live
<1> USE SessionsAssumption DEF NodesInv, Timeout, FreeTimerNode, cbVars
<1> DEFINE n == nio[t]
<1>1. n \in Live /\ tev[n] = t /\ cur = Null /\ Null \notin Live
  BY DEF OneTimerEach, WorksOnSession, Live
<1>2. Live' = Live \ {n}
  BY <1>1, NioRemoved
<1>3. TypeOK'
  BY <1>1, NioRemoved DEF TypeOK, RemoveNio
<1>4. WorksOnSession' /\ HeardIsKept'
  BY DEF WorksOnSession, HeardIsKept
<1>5. OneTimerEach'
  <2>1. active' = LiveTimer'
    BY DEF OneTimerEach, LiveTimer, TypeOK
  <2>2. ASSUME NEW m \in Live' \ {cur'} PROVE tev'[m] \in active' /\ nio'[tev'[m]] = m
    BY <1>1, <1>2 DEF OneTimerEach
  <2>3. ASSUME NEW s \in active' PROVE nio'[s] \in Live' \ {cur'} /\ tev'[nio'[s]] = s
    BY <1>1, <1>2 DEF OneTimerEach
  <2>4. QED
    BY <2>1, <2>2, <2>3 DEF OneTimerEach
<1>6. QED
  BY <1>1, <1>3, <1>4, <1>5, NioRemoved

\* No callback breaks the invariant, wherever it is.
LEMMA NextNodesInv == NodesInv /\ [Next]_vars => NodesInv'
<1> SUFFICES ASSUME NodesInv, [Next]_vars PROVE NodesInv'
  OBVIOUS
<1>0. /\ iocnt \in 0 .. MaxClient /\ tmeocnt \in 0 .. MaxClient /\ MaxClient \in Nat
      /\ pc = "loop" => Live \ {cur} = Live
      /\ Null \notin Live /\ NoId \notin Id
  BY SessionsAssumption DEF NodesInv, TypeOK, WorksOnSession, Live
<1>1. ASSUME NEW n \in Nio, NEW f \in Fd, AcceptReused(n, f) \/ AcceptNew(n, f) PROVE NodesInv'
  <2>1. /\ n \in Nio \ Live /\ f \in Fd \ open /\ pc = "loop" /\ AcceptOn(n, f)
        /\ iocnt' \in 0 .. MaxClient
    BY <1>0, <1>1 DEF AcceptReused, AcceptNew, FreeNio, Live
  <2>2. QED
    BY <2>1, AcceptIInv
<1>2. CASE AcceptNoMemory
  <2>1. /\ UNCHANGED <<cbVars, nlist, fd, id, ev_arr, open, tev, timerVars>>
        /\ iocnt' \in 0 .. MaxClient
    BY <1>0, <1>2 DEF AcceptNoMemory
  <2>2. /\ Live' = Live /\ LiveTimer' = LiveTimer /\ FreeTimer' = FreeTimer
    BY <2>1 DEF Live, LiveTimer, FreeTimer, timerVars
  <2>3. QED
    BY <2>1, <2>2 DEF NodesInv, TypeOK, WorksOnSession, HasDescriptor, OneTimerEach, TableAgrees,
       DescriptorsAgree, HeardIsKept, cbVars, timerVars
<1>3. ASSUME NEW t \in Timer, TimerReused(t) \/ TimerNew(t) PROVE NodesInv'
  <2>1. /\ pc = "timer" /\ t \in Timer \ LiveTimer /\ StartTimer(cur, t) /\ Return
        /\ UNCHANGED nioVars /\ tmeocnt' \in 0 .. MaxClient
    BY <1>0, <1>3 DEF TimerReused, TimerNew, FreeTimer, LiveTimer
  <2>2. TypeOK' /\ OneTimerEach' /\ WorksOnSession' /\ HeardIsKept'
    BY <2>1, TimerStarted DEF NodesInv, TypeOK, nioVars
  <2>3. Live' = Live
    BY <2>1 DEF Live, nioVars
  <2>4. HasDescriptor' /\ TableAgrees' /\ DescriptorsAgree'
    BY <2>1, <2>3 DEF NodesInv, HasDescriptor, TableAgrees, DescriptorsAgree, nioVars
  <2>5. QED
    BY <2>2, <2>4 DEF NodesInv
<1>4. CASE TimerNoMemory \/ TimerPoolEmpty
  BY <1>0, <1>4, EndedIInv DEF TimerNoMemory, TimerPoolEmpty, NoTimer
<1>5. ASSUME NEW n \in Nio, ConnCb(n) PROVE NodesInv'
  <2> USE <1>5 DEF ConnCb
  <2>1. n \in Live \ {cur} /\ RemoveTimer(n)
    BY <1>0
  <2>2. Live' = Live
    BY DEF Live, nioVars
  <2>3. WorksOnSession' /\ HasDescriptor' /\ TableAgrees' /\ DescriptorsAgree'
    BY <1>0, <2>2 DEF NodesInv, WorksOnSession, HasDescriptor, TableAgrees, DescriptorsAgree, nioVars
  <2>4. TypeOK' /\ HeardIsKept'
    BY <2>1, TimerRemoved DEF NodesInv, TypeOK, HeardIsKept, nioVars
  <2>5. OneTimerEach'
    <3>1. Live' \ {cur'} = Live \ {cur, n}
      BY <1>0, <2>2
    <3>2. QED
      BY <2>1, <3>1, TimerRemoved DEF OneTimerEach
  <2>6. QED
    BY <2>3, <2>4, <2>5 DEF NodesInv
<1>6. ASSUME NEW n \in Nio, ConnFails(n) PROVE NodesInv'
  BY <1>0, <1>6, RemovedIInv DEF ConnFails
<1>7. ASSUME UNCHANGED <<cur, nioVars, tev, timerVars>>,
             pc \in {"read", "msg"}, pc' \in {"read", "msg", "timer"},
             mid' \in Id \cup {NoId, BadId}
      PROVE  NodesInv'
  <2>1. Live' = Live /\ LiveTimer' = LiveTimer /\ FreeTimer' = FreeTimer
    BY <1>7 DEF Live, LiveTimer, FreeTimer, nioVars, timerVars
  <2>2. TypeOK' /\ WorksOnSession' /\ HasDescriptor' /\ HeardIsKept'
    BY <1>7, <2>1 DEF NodesInv, TypeOK, WorksOnSession, HasDescriptor, HeardIsKept, nioVars, timerVars
  <2>3. OneTimerEach' /\ TableAgrees' /\ DescriptorsAgree'
    BY <1>7, <2>1 DEF NodesInv, OneTimerEach, TableAgrees, DescriptorsAgree, nioVars, timerVars
  <2>4. QED
    BY <2>2, <2>3 DEF NodesInv
<1>8. ASSUME NEW i \in Id \cup {BadId}, Message(i) PROVE NodesInv'
  BY <1>7, <1>8 DEF Message
<1>9. CASE NoMoreMessages \/ Acknowledge
  BY <1>7, <1>9 DEF NoMoreMessages, Acknowledge, NodesInv, TypeOK
<1>10. CASE TakeOver
  <2>1. ev_arr[mid] \in Live \ {cur}
    BY <1>0, <1>10 DEF TakeOver, NodesInv, TableAgrees
  <2>2. QED
    BY <1>10, <2>1, RemovedIInv DEF TakeOver
<1>11. CASE Register
  <2> USE <1>11 DEF Register
  <2>1. cur \in Live /\ cur \in Nio
    BY DEF NodesInv, WorksOnSession, Live
  <2>2. Live' = Live /\ LiveTimer' = LiveTimer /\ FreeTimer' = FreeTimer
    BY DEF Live, LiveTimer, FreeTimer, timerVars
  <2>3. TypeOK'
    BY <2>1 DEF NodesInv, TypeOK, cbVars, timerVars
  <2>4. WorksOnSession' /\ HasDescriptor' /\ HeardIsKept' /\ OneTimerEach' /\ DescriptorsAgree'
    BY <2>2 DEF NodesInv, WorksOnSession, HasDescriptor, HeardIsKept, OneTimerEach, DescriptorsAgree,
       cbVars, timerVars
  <2>5. TableAgrees'
    BY <1>0, <2>1, <2>2 DEF NodesInv, TypeOK, TableAgrees
  <2>6. QED
    BY <2>3, <2>4, <2>5 DEF NodesInv
<1>12. CASE Reject
  BY <1>0, <1>12, EndedIInv DEF Reject, timerVars
<1>13. ASSUME NEW t \in Timer, Timeout(t) PROVE NodesInv'
  BY <1>13, TimeoutIInv
<1>14. ASSUME NEW i \in Id, WriteFails(i) PROVE NodesInv'
  <2>1. ev_arr[i] \in Live \ {cur}
    BY <1>0, <1>14 DEF WriteFails, NodesInv, TableAgrees
  <2>2. QED
    BY <1>14, <2>1, RemovedIInv DEF WriteFails
<1>15. CASE Cleanup
  <2> USE <1>15 DEF Cleanup
  <2>1. TypeOK'
    BY DEF NodesInv, TypeOK, cbVars
  <2>2. Live' = {} /\ LiveTimer' = {} /\ active' = {}
    BY DEF Live, LiveTimer, NodesInv, TypeOK, OneTimerEach
  <2>3. open' = {}
    BY DEF NodesInv, DescriptorsAgree
  <2>4. OneTimerEach' /\ DescriptorsAgree' /\ HasDescriptor'
    BY <2>2, <2>3 DEF OneTimerEach, DescriptorsAgree, HasDescriptor
  <2>5. TableAgrees'
    <3>1. \A n \in Nio : id'[n] = NoId
      BY DEF NodesInv, TableAgrees
    <3>2. QED
      BY <3>1 DEF TableAgrees
  <2>6. WorksOnSession' /\ HeardIsKept'
    BY DEF NodesInv, WorksOnSession, HeardIsKept, cbVars
  <2>7. QED
    BY <2>1, <2>4, <2>5, <2>6 DEF NodesInv
<1>16. CASE UNCHANGED vars
  <2>1. Live' = Live /\ LiveTimer' = LiveTimer /\ FreeTimer' = FreeTimer
    BY <1>16 DEF Live, LiveTimer, FreeTimer, vars, nioVars, timerVars
  <2>2. QED
    BY <1>16, <2>1 DEF NodesInv, TypeOK, WorksOnSession, HasDescriptor, HeardIsKept, OneTimerEach,
       TableAgrees, DescriptorsAgree, vars, cbVars, nioVars, timerVars
<1>17. QED
  BY <1>1, <1>2, <1>3, <1>4, <1>5, <1>6, <1>8, <1>9, <1>10, <1>11, <1>12, <1>13, <1>14,
     <1>15, <1>16 DEF Next, ListenCb, TimerAdd, HandleNio

---------------------------------------------------------------------------
(* The inductive invariant: the pools *)

\* A calloc that fails, one that does not, or none: the count keeps up.
LEMMA CountKeepsUp ==
  ASSUME NEW S, NEW T, IsFiniteSet(S), NEW c \in Nat, NEW d \in Nat, Cardinality(S) <= c,
         \/ T = S /\ d \in {c, c + 1}
         \/ d = c + 1 /\ \E x : T = S \cup {x}
  PROVE  Cardinality(T) <= d
<1>1. Cardinality(S) \in Nat
  BY FS_CardinalityType
<1>2. CASE T = S /\ d \in {c, c + 1}
  BY <1>1, <1>2
<1>3. ASSUME NEW x, T = S \cup {x}, d = c + 1 PROVE Cardinality(T) <= d
  <2>1. Cardinality(T) = IF x \in S THEN Cardinality(S) ELSE Cardinality(S) + 1
    BY <1>3, FS_AddElement
  <2>2. QED
    BY <1>1, <1>3, <2>1
<1>4. QED
  BY <1>2, <1>3

\* Connection nodes: only listen_cb takes one from calloc.
LEMMA NextNioCounted ==
  ASSUME NodesInv, [Next]_vars
  PROVE  LET S == {n \in Nio : nlist[n] # "none"}
         IN  \/ S' = S /\ iocnt' \in {iocnt, iocnt + 1}
             \/ iocnt' = iocnt + 1 /\ \E x : S' = S \cup {x}
<1> DEFINE S == {n \in Nio : nlist[n] # "none"}
<1> USE DEF NodesInv
<1>1. nlist \in [Nio -> {"none", "free", "live"}] /\ \A n \in Live : nlist[n] = "live"
  BY DEF TypeOK, Live
<1>2. ASSUME UNCHANGED nlist, iocnt' \in {iocnt, iocnt + 1}
      PROVE  S' = S /\ iocnt' \in {iocnt, iocnt + 1}
  BY <1>2
<1>3. ASSUME NEW n \in Live, RemoveNio(n) PROVE S' = S /\ iocnt' \in {iocnt, iocnt + 1}
  BY <1>1, <1>3 DEF RemoveNio
<1>4. ASSUME NEW n \in Nio, NEW f \in Fd, AcceptReused(n, f)
      PROVE  S' = S /\ iocnt' \in {iocnt, iocnt + 1}
  BY <1>1, <1>4 DEF AcceptReused, AcceptOn, FreeNio
<1>5. ASSUME NEW n \in Nio, NEW f \in Fd, AcceptNew(n, f)
      PROVE  iocnt' = iocnt + 1 /\ \E x : S' = S \cup {x}
  <2>1. S' = S \cup {n}
    BY <1>1, <1>5 DEF AcceptNew, AcceptOn
  <2>2. QED
    BY <1>5, <2>1 DEF AcceptNew
<1>6. CASE AcceptNoMemory
  BY <1>2, <1>6 DEF AcceptNoMemory
<1>7. ASSUME UNCHANGED <<nlist, iocnt>> PROVE S' = S /\ iocnt' \in {iocnt, iocnt + 1}
  BY <1>2, <1>7
<1>8. ASSUME NEW t \in Timer, TimerReused(t) \/ TimerNew(t)
      PROVE  S' = S /\ iocnt' \in {iocnt, iocnt + 1}
  BY <1>7, <1>8 DEF TimerReused, TimerNew, nioVars
<1>9. /\ pc # "loop" => cur \in Live
      /\ \A i \in Id : ev_arr[i] # Null => ev_arr[i] \in Live
      /\ \A t \in active : nio[t] \in Live
  BY DEF WorksOnSession, TableAgrees, OneTimerEach
<1>10. CASE TimerNoMemory \/ TimerPoolEmpty \/ Reject \/ TakeOver
  BY <1>3, <1>9, <1>10 DEF TimerNoMemory, TimerPoolEmpty, NoTimer, Reject, TakeOver
<1>11. ASSUME NEW t \in Timer, Timeout(t) PROVE S' = S /\ iocnt' \in {iocnt, iocnt + 1}
  BY <1>3, <1>9, <1>11 DEF Timeout
<1>12. ASSUME NEW i \in Id, WriteFails(i) PROVE S' = S /\ iocnt' \in {iocnt, iocnt + 1}
  BY <1>3, <1>9, <1>12 DEF WriteFails
<1>13. ASSUME NEW n \in Nio, ConnCb(n) \/ ConnFails(n)
       PROVE  S' = S /\ iocnt' \in {iocnt, iocnt + 1}
  BY <1>3, <1>7, <1>13 DEF ConnCb, ConnFails, nioVars
<1>14. ASSUME NEW i \in Id \cup {BadId}, Message(i)
       PROVE  S' = S /\ iocnt' \in {iocnt, iocnt + 1}
  BY <1>7, <1>14 DEF Message, nioVars
<1>15. CASE Register \/ NoMoreMessages \/ Acknowledge \/ UNCHANGED vars
  BY <1>7, <1>15 DEF Register, NoMoreMessages, Acknowledge, vars, nioVars
<1>16. CASE Cleanup
  BY <1>1, <1>16 DEF Cleanup
<1>17. QED
  BY <1>4, <1>5, <1>6, <1>8, <1>10, <1>11, <1>12, <1>13, <1>14, <1>15, <1>16
     DEF Next, ListenCb, TimerAdd, HandleNio

\* Timer nodes: only ev_nio_timer_add takes one from calloc.
LEMMA NextTimerCounted ==
  ASSUME NodesInv, [Next]_vars
  PROVE  LET S == {t \in Timer : tlist[t] # "none"}
         IN  \/ S' = S /\ tmeocnt' \in {tmeocnt, tmeocnt + 1}
             \/ tmeocnt' = tmeocnt + 1 /\ \E x : S' = S \cup {x}
<1> DEFINE S == {t \in Timer : tlist[t] # "none"}
<1> USE DEF NodesInv
<1>1. /\ tlist \in [Timer -> {"none", "free", "live"}]
      /\ \A t \in active : t \in Timer /\ tlist[t] = "live"
      /\ \A n \in Live \ {cur} : tev[n] \in active
  BY DEF TypeOK, LiveTimer, OneTimerEach
<1>2. ASSUME UNCHANGED tlist, tmeocnt' \in {tmeocnt, tmeocnt + 1}
      PROVE  S' = S /\ tmeocnt' \in {tmeocnt, tmeocnt + 1}
  BY <1>2
<1>3. ASSUME NEW t \in active, FreeTimerNode(t)
      PROVE  S' = S /\ tmeocnt' \in {tmeocnt, tmeocnt + 1}
  BY <1>1, <1>3 DEF FreeTimerNode
<1>4. ASSUME NEW t \in Timer, TimerReused(t)
      PROVE  S' = S /\ tmeocnt' \in {tmeocnt, tmeocnt + 1}
  BY <1>1, <1>4 DEF TimerReused, StartTimer, FreeTimer
<1>5. ASSUME NEW t \in Timer, TimerNew(t)
      PROVE  tmeocnt' = tmeocnt + 1 /\ \E x : S' = S \cup {x}
  <2>1. S' = S \cup {t}
    BY <1>1, <1>5 DEF TimerNew, StartTimer
  <2>2. QED
    BY <1>5, <2>1 DEF TimerNew
<1>6. CASE TimerNoMemory \/ TimerPoolEmpty
  BY <1>2, <1>6 DEF TimerNoMemory, TimerPoolEmpty, NoTimer
<1>7. ASSUME UNCHANGED timerVars PROVE S' = S /\ tmeocnt' \in {tmeocnt, tmeocnt + 1}
  BY <1>2, <1>7 DEF timerVars
<1>8. ASSUME NEW n \in Live \ {cur}, RemoveTimer(n)
      PROVE  S' = S /\ tmeocnt' \in {tmeocnt, tmeocnt + 1}
  BY <1>1, <1>3, <1>7, <1>8 DEF RemoveTimer
<1>9. /\ pc = "loop" => Live \ {cur} = Live
      /\ \A i \in Id : ev_arr[i] # Null => ev_arr[i] \in Live /\ id[ev_arr[i]] = i
      /\ Null \notin Live /\ NoId \notin Id
  BY SessionsAssumption DEF WorksOnSession, TableAgrees, Live
<1>10. CASE TakeOver
  BY <1>8, <1>9, <1>10 DEF TakeOver
<1>11. ASSUME NEW t \in Timer, Timeout(t)
       PROVE  S' = S /\ tmeocnt' \in {tmeocnt, tmeocnt + 1}
  BY <1>3, <1>11 DEF Timeout
<1>12. ASSUME NEW i \in Id, WriteFails(i)
       PROVE  S' = S /\ tmeocnt' \in {tmeocnt, tmeocnt + 1}
  BY <1>8, <1>9, <1>12 DEF WriteFails
<1>13. ASSUME NEW n \in Nio, ConnCb(n) \/ ConnFails(n)
       PROVE  S' = S /\ tmeocnt' \in {tmeocnt, tmeocnt + 1}
  BY <1>8, <1>9, <1>13 DEF ConnCb, ConnFails
<1>14. ASSUME NEW n \in Nio, NEW f \in Fd, AcceptReused(n, f) \/ AcceptNew(n, f)
       PROVE  S' = S /\ tmeocnt' \in {tmeocnt, tmeocnt + 1}
  BY <1>7, <1>14 DEF AcceptReused, AcceptNew, AcceptOn
<1>15. ASSUME NEW i \in Id \cup {BadId}, Message(i)
       PROVE  S' = S /\ tmeocnt' \in {tmeocnt, tmeocnt + 1}
  BY <1>7, <1>15 DEF Message
<1>16. CASE AcceptNoMemory \/ NoMoreMessages \/ Register \/ Acknowledge \/ Reject
            \/ UNCHANGED vars
  BY <1>7, <1>16 DEF AcceptNoMemory, NoMoreMessages, Register, Acknowledge, Reject, vars
<1>17. CASE Cleanup
  BY <1>1, <1>17 DEF Cleanup, LiveTimer
<1>18. QED
  BY <1>4, <1>5, <1>6, <1>10, <1>11, <1>12, <1>13, <1>14, <1>15, <1>16, <1>17
     DEF Next, ListenCb, TimerAdd, HandleNio

\* With no node allocated nothing is to be counted.
LEMMA InitIInv == Init => IInv
<1> SUFFICES ASSUME Init PROVE PoolsCounted
  BY InitNodesInv DEF IInv
<1>1. {n \in Nio : nlist[n] # "none"} = {} /\ {t \in Timer : tlist[t] # "none"} = {}
  BY DEF Init
<1>2. QED
  BY <1>1, FS_EmptySet DEF Init, PoolsCounted

\* No callback has a node that it does not count.
LEMMA NextIInv == IInv /\ [Next]_vars => IInv'
<1> SUFFICES ASSUME IInv, [Next]_vars PROVE IInv'
  OBVIOUS
<1> DEFINE S == {n \in Nio : nlist[n] # "none"}
           T == {t \in Timer : tlist[t] # "none"}
<1>1. NodesInv /\ NodesInv'
  BY NextNodesInv DEF IInv
<1>2. /\ iocnt \in Nat /\ iocnt' \in Nat /\ tmeocnt \in Nat /\ tmeocnt' \in Nat
  BY <1>1, SessionsAssumption DEF NodesInv, TypeOK
<1>3. IsFiniteSet(S) /\ IsFiniteSet(T)
  BY SessionsAssumption, FS_Subset
<1>4. Cardinality(S) <= iocnt /\ Cardinality(T) <= tmeocnt
  BY DEF IInv, PoolsCounted
<1>5. \/ S' = S /\ iocnt' \in {iocnt, iocnt + 1}
      \/ iocnt' = iocnt + 1 /\ \E x : S' = S \cup {x}
  BY <1>1, NextNioCounted
<1>6. \/ T' = T /\ tmeocnt' \in {tmeocnt, tmeocnt + 1}
      \/ tmeocnt' = tmeocnt + 1 /\ \E x : T' = T \cup {x}
  BY <1>1, NextTimerCounted
<1> HIDE DEF S, T
<1>7. Cardinality(S') <= iocnt'
  BY <1>2, <1>3, <1>4, <1>5, CountKeepsUp
<1>8. Cardinality(T') <= tmeocnt'
  BY <1>2, <1>3, <1>4, <1>6, CountKeepsUp
<1>9. PoolsCounted'
  BY <1>7, <1>8 DEF S, T, PoolsCounted
<1>10. QED
  BY <1>1, <1>9 DEF IInv

---------------------------------------------------------------------------
(* The theorems *)

\* The invariant holds in every state the sessions can be in.
THEOREM Invariance == Spec => []IInv
BY InitIInv, NextIInv, PTL DEF Spec

\* Pointers point to nodes of their kind.  A pool never has more nodes than
\* its counter says, which never passes MAX_CLIENT, failed callocs included.
THEOREM TypeCorrect ==
  Spec => [](/\ TypeOK
             /\ Cardinality({n \in Nio : nlist[n] # "none"}) <= MaxClient
             /\ Cardinality({t \in Timer : tlist[t] # "none"}) <= MaxClient)
<1> DEFINE S == {n \in Nio : nlist[n] # "none"}
           T == {t \in Timer : tlist[t] # "none"}
<1>1. IInv => TypeOK /\ Cardinality(S) <= MaxClient /\ Cardinality(T) <= MaxClient
  <2> SUFFICES ASSUME IInv
               PROVE  TypeOK /\ Cardinality(S) <= MaxClient /\ Cardinality(T) <= MaxClient
    OBVIOUS
  <2>1. TypeOK /\ Cardinality(S) <= iocnt /\ Cardinality(T) <= tmeocnt
    BY DEF IInv, NodesInv, PoolsCounted
  <2>2. Cardinality(S) \in Nat /\ Cardinality(T) \in Nat
    BY SessionsAssumption, FS_Subset, FS_CardinalityType
  <2> HIDE DEF S, T
  <2>3. QED
    BY <2>1, <2>2, SessionsAssumption DEF TypeOK
<1>2. QED
  BY <1>1, Invariance, PTL

\* A heartbeat timeout ends the session its timer was started for, and every
\* session that waits has one.
THEOREM TimerOfItsOwn == Spec => []OneTimerEach
<1>1. IInv => OneTimerEach
  BY DEF IInv, NodesInv
<1>2. QED
  BY <1>1, Invariance, PTL

\* However a session ends, it is out of the table, and nobody else is.
THEOREM TableOfSessions == Spec => []TableAgrees
<1>1. IInv => TableAgrees
  BY DEF IInv, NodesInv
<1>2. QED
  BY <1>1, Invariance, PTL

\* No descriptor is leaked, shared or closed for another session.
THEOREM DescriptorOfItsOwn == Spec => []DescriptorsAgree
<1>1. IInv => DescriptorsAgree
  BY DEF IInv, NodesInv
<1>2. QED
  BY <1>1, Invariance, PTL

\* The timer a callback has given back is there for it to take at its end.
THEOREM TimerIsToBeHad == Spec => []HeardIsKept
<1>1. IInv => HeardIsKept
  BY DEF IInv, NodesInv
<1>2. QED
  BY <1>1, Invariance, PTL

---------------------------------------------------------------------------
(* The sessions implement the registry *)

\* Reached is nobody exactly for a user without a session, and two users
\* never reach the same connection.
LEMMA ReachedIsConnection ==
  ASSUME NodesInv, NEW i \in Id
  PROVE  /\ (Reached(ev_arr[i]) = Null) <=> (ev_arr[i] = Null)
         /\ \A n \in Live : (Reached(ev_arr[i]) = fd[n]) <=> (ev_arr[i] = n)
         /\ \A n \in Live : (ev_arr[i] = n) <=> (id[n] = i)
<1>1. /\ Null \notin Live /\ Null \notin Fd /\ NoId \notin Id
      /\ \A n \in Live : fd[n] \in Fd /\ n \in Nio
      /\ ev_arr[i] # Null => ev_arr[i] \in Live
  BY SessionsAssumption DEF NodesInv, HasDescriptor, TableAgrees, Live
<1>2. \A m, n \in Live : fd[m] = fd[n] => m = n
  BY DEF NodesInv, DescriptorsAgree
<1>3. \A n \in Live : (ev_arr[i] = n) <=> (id[n] = i)
  BY <1>1 DEF NodesInv, TableAgrees
<1>4. QED
  BY <1>1, <1>2, <1>3 DEF Reached

\* A session removed, in whatever callback, is one connection closed.
LEMMA RemoveIsClose ==
  ASSUME NodesInv, NEW n \in Live, RemoveNio(n)
  PROVE  Reg!CloseOne
<1> USE SessionsAssumption DEF RemoveNio
<1>1. n \in Nio /\ fd[n] \in open /\ id[n] \in Id \cup {NoId} /\ fd' = fd
  BY DEF NodesInv, DescriptorsAgree, TypeOK, Live
<1>2. ASSUME NEW i \in Id
      PROVE  Reached(ev_arr[i])' =
               IF Reached(ev_arr[i]) \in {fd[n]} THEN Null ELSE Reached(ev_arr[i])
  <2>1. CASE id[n] = i
    <3>1. ev_arr[i] = n
      BY <2>1, ReachedIsConnection
    <3>2. ev_arr'[i] = Null
      BY <1>1, <2>1 DEF NodesInv, TypeOK
    <3>3. Reached(ev_arr[i]) = fd[n]
      BY <3>1, ReachedIsConnection
    <3>4. Reached(ev_arr[i])' = Null
      BY <3>2 DEF Reached
    <3>5. QED
      BY <3>3, <3>4
  <2>2. CASE id[n] # i
    <3>1. Reached(ev_arr[i]) # fd[n]
      BY <2>2, ReachedIsConnection
    <3>2. ev_arr'[i] = ev_arr[i]
      BY <1>1, <2>2 DEF NodesInv, TypeOK
    <3>3. Reached(ev_arr[i])' = Reached(ev_arr[i])
      BY <1>1, <3>2 DEF Reached
    <3>4. QED
      BY <3>1, <3>3
  <2>3. QED
    BY <2>1, <2>2
<1>3. Reg!Close({fd[n]})
  BY <1>1, <1>2 DEF Reg!Close
<1>4. QED
  BY <1>1, <1>3 DEF Reg!CloseOne

\* What changes neither the table, the descriptors of the nodes nor those of
\* the kernel changes nothing that anybody else can see.
LEMMA SeenByNobody ==
  ASSUME UNCHANGED <<open, ev_arr, fd>>
  PROVE  UNCHANGED Reg!rvars
BY DEF Reg!rvars, Reached

\* Every callback is a connection made, closed or registered, or is seen by
\* nobody.
LEMMA NextIsRegistry == NodesInv /\ [Next]_vars => [Reg!Next]_(Reg!rvars)
<1> SUFFICES ASSUME NodesInv, [Next]_vars PROVE Reg!Next \/ UNCHANGED Reg!rvars
  OBVIOUS
<1>0. /\ pc = "loop" => cur = Null
      /\ pc # "loop" => cur \in Live
      /\ \A i \in Id : ev_arr[i] # Null => ev_arr[i] \in Live
      /\ \A t \in active : nio[t] \in Live
      /\ \A n \in Live : n \in Nio /\ fd[n] \in open
      /\ Live \subseteq Nio
  BY DEF NodesInv, WorksOnSession, TableAgrees, OneTimerEach, DescriptorsAgree, Live
<1>1. ASSUME NEW n \in Live, RemoveNio(n) PROVE Reg!Next
  BY <1>1, RemoveIsClose DEF Reg!Next
<1>2. ASSUME NEW n \in Nio, NEW f \in Fd, AcceptReused(n, f) \/ AcceptNew(n, f) PROVE Reg!Next
  <2>1. n \notin Live /\ f \notin open /\ AcceptOn(n, f)
    BY <1>2 DEF AcceptReused, AcceptNew, FreeNio, Live
  <2>2. ASSUME NEW i \in Id PROVE Reached(ev_arr[i])' = Reached(ev_arr[i])
    <3>1. ev_arr' = ev_arr /\ fd' = [fd EXCEPT ![n] = f]
      BY <2>1 DEF AcceptOn
    <3>2. ev_arr[i] # n /\ (ev_arr[i] # Null => ev_arr[i] \in Nio)
      BY <1>0, <2>1, SessionsAssumption
    <3>3. ev_arr[i] # Null => fd'[ev_arr[i]] = fd[ev_arr[i]]
      BY <3>1, <3>2 DEF NodesInv, TypeOK
    <3>4. QED
      BY <3>1, <3>3 DEF Reached
  <2>3. Reg!Connect(f)
    BY <2>1, <2>2 DEF Reg!Connect, AcceptOn
  <2>4. QED
    BY <2>3 DEF Reg!Next
<1>3. CASE Register
  <2> USE <1>3 DEF Register
  <2>1. cur \in Live /\ fd[cur] \in open /\ fd[cur] \in Fd /\ fd' = fd
    BY <1>0 DEF NodesInv, HasDescriptor
  <2>2. \A i \in Id : Reached(ev_arr[i]) # fd[cur]
    BY <2>1, ReachedIsConnection, SessionsAssumption
  <2>3. Reached(ev_arr[mid]) = Null
    BY DEF Reached
  <2>4. ASSUME NEW i \in Id
        PROVE  Reached(ev_arr[i])' = IF i = mid THEN fd[cur] ELSE Reached(ev_arr[i])
    <3>1. ev_arr'[i] = IF i = mid THEN cur ELSE ev_arr[i]
      BY DEF NodesInv, TypeOK
    <3>2. cur # Null
      BY <2>1, <1>0, SessionsAssumption
    <3>3. QED
      BY <2>1, <3>1, <3>2 DEF Reached
  <2>6. Reg!Register(mid, fd[cur])
    BY <2>1, <2>2, <2>3, <2>4 DEF Reg!Register
  <2>7. QED
    BY <2>1, <2>6 DEF Reg!Next
<1>4. CASE Cleanup
  <2>1. open \ {fd[n] : n \in Live} = {}
    BY DEF NodesInv, DescriptorsAgree
  <2>2. open' = open \ open
    BY <1>4, <2>1 DEF Cleanup
  <2>3. \A i \in Id : Reached(ev_arr[i])' = Null
    BY <1>4 DEF Cleanup, Reached
  <2>4. \A i \in Id : Reached(ev_arr[i]) # Null => Reached(ev_arr[i]) \in open
    BY <1>0 DEF Reached
  <2>5. CASE open = {}
    BY <2>2, <2>3, <2>4, <2>5 DEF Reg!rvars
  <2>6. CASE open # {}
    <3>1. Reg!CloseAll
      BY <2>2, <2>3, <2>4, <2>6 DEF Reg!CloseAll, Reg!Close
    <3>2. QED
      BY <3>1 DEF Reg!Next
  <2>7. QED
    BY <2>5, <2>6
<1>5. CASE TimerNoMemory \/ TimerPoolEmpty \/ Reject
  BY <1>0, <1>1, <1>5 DEF TimerNoMemory, TimerPoolEmpty, NoTimer, Reject
<1>6. CASE TakeOver
  BY <1>0, <1>1, <1>6 DEF TakeOver
<1>7. ASSUME NEW t \in Timer, Timeout(t) PROVE Reg!Next
  BY <1>0, <1>1, <1>7 DEF Timeout
<1>8. ASSUME NEW i \in Id, WriteFails(i) PROVE Reg!Next
  BY <1>0, <1>1, <1>8 DEF WriteFails
<1>9. ASSUME NEW n \in Nio, ConnFails(n) PROVE Reg!Next
  BY <1>0, <1>1, <1>9 DEF ConnFails
<1>10. CASE UNCHANGED <<open, ev_arr, fd>>
  BY <1>10, SeenByNobody
<1>11. ASSUME NEW n \in Nio, ConnCb(n) PROVE UNCHANGED <<open, ev_arr, fd>>
  BY <1>11 DEF ConnCb, nioVars
<1>12. ASSUME NEW t \in Timer, TimerReused(t) \/ TimerNew(t) PROVE UNCHANGED <<open, ev_arr, fd>>
  BY <1>12 DEF TimerReused, TimerNew, nioVars
<1>13. ASSUME NEW i \in Id \cup {BadId}, Message(i) PROVE UNCHANGED <<open, ev_arr, fd>>
  BY <1>13 DEF Message, nioVars
<1>14. CASE AcceptNoMemory \/ NoMoreMessages \/ Acknowledge \/ UNCHANGED vars
  <2>1. UNCHANGED <<open, ev_arr, fd>>
    BY <1>14 DEF AcceptNoMemory, NoMoreMessages, Acknowledge, vars, nioVars
  <2>2. QED
    BY <2>1, <1>10
<1>15. QED
  BY <1>2, <1>3, <1>4, <1>5, <1>6, <1>7, <1>8, <1>9, <1>10, <1>11, <1>12, <1>13, <1>14
     DEF Next, ListenCb, TimerAdd, HandleNio

\* To everybody else the sessions are the registry of module Registry.
THEOREM Implements == Spec => ImplementsRegistry
<1>1. Init => Reg!Init
  BY DEF Init, Reg!Init, Reached
<1>2. IInv => NodesInv
  BY DEF IInv
<1>3. QED
  BY <1>1, <1>2, Invariance, NextIsRegistry, PTL DEF Spec, ImplementsRegistry, Reg!Spec
=============================================================================
