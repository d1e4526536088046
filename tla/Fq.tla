-------------------------------- MODULE Fq --------------------------------
(***************************************************************************)
(* The ring buffer of fq.c, shared by one writer thread (fq_put) and one   *)
(* reader thread (fq_get, fq_get_ai, fq_drain) under the mutex fmtx.       *)
(*                                                                         *)
(* Each access to the shared fields is a step of its own, so that the      *)
(* mutex matters: fq_put first moves ridx when the ring is full, then      *)
(* clears the node (memset), then fills it (memcpy and size), then moves   *)
(* widx; a reader let in between would see a node that is gone or blank.   *)
(*                                                                         *)
(* The index arithmetic "(i + 1) & (size - 1)" is written modulo Size:     *)
(* size comes from power2_align (module FqSize), so the two agree.         *)
(***************************************************************************)
EXTENDS Integers, Sequences

CONSTANTS
  Msg,      \* the messages a caller can put
  MsgLen,   \* [Msg -> Nat], the "size" argument that goes with a message
  Size,     \* number of nodes in the ring (fq->size)
  NodeSz,   \* bytes in a node (FQ_NODE_SZ)
  NoMsg     \* contents of a node nobody has written, or just cleared

ASSUME FqAssumption ==
  /\ Size \in Nat /\ Size >= 2
  /\ NodeSz \in Nat \ {0}
  /\ MsgLen \in [Msg -> Nat]
  /\ NoMsg \notin Msg

VARIABLES
  node,     \* fq->node, a ring of [buf, size]
  ridx,     \* fq->ridx
  widx,     \* fq->widx
  mtx,      \* who holds fq->fmtx
  wpc,      \* where the writer is in fq_put
  warg,     \* the message the writer is putting
  rpc,      \* where the reader is, in which function
  ret       \* the reader's buffer and the returned sz

vars == <<node, ridx, widx, mtx, wpc, warg, rpc, ret>>

Slot == 0 .. Size - 1
Inc(i) == (i + 1) % Size

AtMost(n, bound) == IF n > bound THEN bound ELSE n

\* A message as a node keeps it: its bytes cut to FQ_NODE_SZ.
Stored(m) == [buf |-> m, size |-> AtMost(MsgLen[m], NodeSz)]
Blank(n) == [n EXCEPT !.buf = NoMsg]

\* A node as fq_get copies it out, into a buffer of FQ_NODE_SZ bytes.
Copied(n) == [buf |-> n.buf, size |-> AtMost(n.size, NodeSz)]

Nothing == [buf |-> NoMsg, size |-> 0]

\* What a read at ridx returns: sz = 0 when the ring is empty.
ReadHead == IF ridx # widx THEN Copied(node[ridx]) ELSE Nothing

\* fq_new: calloc'ed nodes, both indices zero, the mutex free.
Init ==
  /\ node = [i \in Slot |-> Nothing]
  /\ ridx = 0 /\ widx = 0
  /\ mtx = "free"
  /\ wpc = "idle" /\ warg = NoMsg
  /\ rpc = "idle" /\ ret = Nothing

LockWithoutWait(t) == mtx' = t            \* faulty: no mutual exclusion
Lock(t) == mtx = "free" /\ mtx' = t
Unlock == mtx' = "free"

---------------------------------------------------------------------------
(* The writer: fq_put *)

PutLock(m) ==
  /\ wpc = "idle" /\ Lock("writer")
  /\ wpc' = "room" /\ warg' = m
  /\ UNCHANGED <<node, ridx, widx, rpc, ret>>

\* "buffer full": give up the oldest node by moving ridx past it.
PutRoom ==
  /\ wpc = "room"
  /\ ridx' = IF Inc(widx) = ridx THEN Inc(ridx) ELSE ridx
  /\ wpc' = "clear"
  /\ UNCHANGED <<node, widx, mtx, warg, rpc, ret>>

\* Faulty: the node is cleared and published without the message.
PutClearOnly ==
  /\ wpc = "clear"
  /\ node' = [node EXCEPT ![widx] = Blank(@)]
  /\ wpc' = "publish"
  /\ UNCHANGED <<ridx, widx, mtx, warg, rpc, ret>>

PutClear ==
  /\ wpc = "clear"
  /\ node' = [node EXCEPT ![widx] = Blank(@)]
  /\ wpc' = "fill"
  /\ UNCHANGED <<ridx, widx, mtx, warg, rpc, ret>>

PutFill ==
  /\ wpc = "fill"
  /\ node' = [node EXCEPT ![widx] = Stored(warg)]
  /\ wpc' = "publish"
  /\ UNCHANGED <<ridx, widx, mtx, warg, rpc, ret>>

PutPublish ==
  /\ wpc = "publish"
  /\ widx' = Inc(widx)
  /\ Unlock
  /\ wpc' = "idle"
  /\ UNCHANGED <<node, ridx, warg, rpc, ret>>

---------------------------------------------------------------------------
(* The reader *)

ReadLock(op) ==
  /\ rpc = "idle" /\ Lock("reader")
  /\ rpc' = op
  /\ UNCHANGED <<node, ridx, widx, wpc, warg, ret>>

Leave ==
  /\ Unlock
  /\ rpc' = "idle"
  /\ UNCHANGED <<node, widx, wpc, warg>>

AdvanceAlways == ridx' = Inc(ridx)        \* faulty: also when empty
Advance == ridx' = IF ridx # widx THEN Inc(ridx) ELSE ridx

\* fq_get
GetCopy ==
  /\ rpc = "get"
  /\ ret' = ReadHead
  /\ Leave
  /\ UNCHANGED ridx

\* fq_get_ai, in two accesses: move ridx, then copy what is there now.
AiAdvance ==
  /\ rpc = "get_ai"
  /\ Advance
  /\ rpc' = "ai_copy"
  /\ UNCHANGED <<node, widx, mtx, wpc, warg, ret>>

AiCopy ==
  /\ rpc = "ai_copy"
  /\ ret' = ReadHead
  /\ Leave
  /\ UNCHANGED ridx

\* fq_drain
DrainAdvance ==
  /\ rpc = "drain"
  /\ Advance
  /\ Leave
  /\ UNCHANGED ret

---------------------------------------------------------------------------
Writer ==
  \/ \E m \in Msg : PutLock(m)
  \/ PutRoom
  \/ PutClear
  \/ PutFill
  \/ PutPublish

Reader ==
  \/ \E op \in {"get", "get_ai", "drain"} : ReadLock(op)
  \/ GetCopy
  \/ AiAdvance
  \/ AiCopy
  \/ DrainAdvance

Next == Writer \/ Reader

Spec == Init /\ [][Next]_vars

---------------------------------------------------------------------------
(* Properties *)

NodeVal == [buf : Msg \cup {NoMsg}, size : 0 .. NodeSz]

\* The fields hold what their C types and the masks on the indices allow.
TypeOK ==
  /\ node \in [Slot -> NodeVal]
  /\ ridx \in Slot /\ widx \in Slot
  /\ mtx \in {"free", "writer", "reader"}
  /\ wpc \in {"idle", "room", "clear", "fill", "publish"}
  /\ warg \in Msg \cup {NoMsg}
  /\ rpc \in {"idle", "get", "get_ai", "ai_copy", "drain"}
  /\ ret \in NodeVal

\* Whoever is past the lock holds it: fq_put and the three readers never
\* overlap (fq_lock/fq_unlock around every body in fq.c).
MutexHeld ==
  /\ (wpc # "idle") <=> (mtx = "writer")
  /\ (rpc # "idle") <=> (mtx = "reader")

InPut == wpc \in {"clear", "fill", "publish"}

\* While fq_put writes, the node at widx is outside the readable part and
\* moving widx over it cannot make the ring look empty (fq.c:197-207).
RoomForPut == InPut => Inc(widx) # ridx

\* A node that fq_put has cleared or not yet filled is never readable: every
\* node between ridx and widx carries a whole message.
Count == IF widx >= ridx THEN widx - ridx ELSE widx - ridx + Size
At(i) == IF ridx + i >= Size THEN ridx + i - Size ELSE ridx + i
ReadableIsWhole ==
  \A i \in 0 .. Count - 1 : \E m \in Msg : node[At(i)] = Stored(m)

\* The node being written holds the message once filled.
FilledIsStored == wpc = "publish" => node[widx] = Stored(warg)

\* The writer's argument is a message as long as fq_put runs.
ArgIsMsg == wpc # "idle" => warg \in Msg

IInv ==
  /\ TypeOK
  /\ MutexHeld
  /\ RoomForPut
  /\ ReadableIsWhole
  /\ FilledIsStored
  /\ ArgIsMsg

---------------------------------------------------------------------------
(* The ring implements the drop-oldest queue.  fq_put takes effect when it *)
(* makes room, fq_get_ai when it moves ridx; the mutex hides the rest.     *)

Contents == [i \in 1 .. Count |-> node[At(i - 1)]]

QueueBar == IF InPut THEN Append(Contents, Stored(warg)) ELSE Contents
RetBar == IF rpc = "ai_copy" THEN ReadHead ELSE ret

Abstract == INSTANCE DropOldestQueue WITH
  Item <- {Stored(m) : m \in Msg}, NoItem <- Nothing, Cap <- Size - 1,
  queue <- QueueBar, ret <- RetBar

\* Every behaviour of the ring under its mutex is a behaviour of the atomic
\* drop-oldest queue of capacity size - 1: no item is lost but by overflow,
\* none is duplicated, reordered or read half-written.
ImplementsQueue == Abstract!Spec
=============================================================================
