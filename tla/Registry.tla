------------------------------ MODULE Registry ------------------------------
(***************************************************************************)
(* What the sessions of the net thread are to everybody else: a set of     *)
(* open connections, some of them known under a user ID, to which the      *)
(* messages for that user go.  An ID has one connection at most, and it is *)
(* an open one.  A connection gets its ID once.                            *)
(*                                                                         *)
(* Module Sessions implements this with its pools of nodes and timers and  *)
(* the pointers between them.                                              *)
(***************************************************************************)
CONSTANTS
  Fd,      \* connections: the descriptors of their sockets
  Id,      \* user IDs
  None     \* nobody's descriptor

VARIABLES
  conns,   \* open connections
  owner    \* the connection of each user, None without one

rvars == <<conns, owner>>

Init ==
  /\ conns = {}
  /\ owner = [i \in Id |-> None]

\* A client connects.
Connect(f) ==
  /\ f \notin conns
  /\ conns' = conns \cup {f}
  /\ UNCHANGED owner

\* The first message of a connection names a user without one.
Register(i, f) ==
  /\ f \in conns
  /\ owner[i] = None /\ \A j \in Id : owner[j] # f
  /\ owner' = [owner EXCEPT ![i] = f]
  /\ UNCHANGED conns

\* Connections end, for whatever reason, and with them what was known of
\* them: one, or all when the module is stopped.
Close(F) ==
  /\ F \subseteq conns /\ F # {}
  /\ conns' = conns \ F
  /\ owner' = [i \in Id |-> IF owner[i] \in F THEN None ELSE owner[i]]

CloseOne == \E f \in conns : Close({f})
CloseAll == Close(conns)

Next ==
  \/ \E f \in Fd : Connect(f)
  \/ \E i \in Id, f \in Fd : Register(i, f)
  \/ CloseOne \/ CloseAll

Spec == Init /\ [][Next]_rvars
=============================================================================
