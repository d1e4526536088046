-------------------------- MODULE DropOldestQueue --------------------------
(***************************************************************************)
(* What the message queue of fq.c promises to the two threads that share   *)
(* it: a bounded FIFO whose writer never waits.  A put into a full queue   *)
(* drops the oldest item.  The reader works in two phases: it looks at the *)
(* head with fq_get, works on the copy, and only later removes the head,   *)
(* with fq_drain or with fq_get_ai, which also copies the item behind it.  *)
(*                                                                         *)
(* Every operation is one atomic step here; module Fq has the ring buffer, *)
(* its indices and its mutex, and is shown to implement this module.       *)
(***************************************************************************)
EXTENDS Naturals, Sequences

CONSTANTS
  Item,     \* what can be queued
  NoItem,   \* what a read of the empty queue yields
  Cap       \* how many items the queue holds

VARIABLES
  queue,    \* the queued items, oldest first
  ret       \* the reader's copy: the result of its last fq_get or fq_get_ai

qvars == <<queue, ret>>

Init ==
  /\ queue = <<>>
  /\ ret = NoItem

First(q) == IF q = <<>> THEN NoItem ELSE Head(q)
Behead(q) == IF q = <<>> THEN <<>> ELSE Tail(q)

\* fq_put: the queue is full, the oldest item makes room.
Full == Len(queue) = Cap
Put(x) ==
  /\ queue' = Append(IF Full THEN Tail(queue) ELSE queue, x)
  /\ UNCHANGED ret

\* fq_get: copy the head and leave it in the queue.
Get ==
  /\ ret' = First(queue)
  /\ UNCHANGED queue

\* fq_get_ai: remove the head and copy the item that follows it.
GetNext ==
  /\ queue' = Behead(queue)
  /\ ret' = First(Behead(queue))

\* fq_drain: remove the head.
Drain ==
  /\ queue' = Behead(queue)
  /\ UNCHANGED ret

Next == (\E x \in Item : Put(x)) \/ Get \/ GetNext \/ Drain

Spec == Init /\ [][Next]_qvars
=============================================================================
