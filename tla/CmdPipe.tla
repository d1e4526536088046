------------------------------ MODULE CmdPipe ------------------------------
(***************************************************************************)
(* The pipe beside each message queue (fq->pfd), which wakes the event     *)
(* loop of the reading thread with one command byte per fq_putcmd.  Both   *)
(* ends are non-blocking: a write into a full pipe fails with EAGAIN, and  *)
(* fq_putcmd ignores that, so the command is lost without a trace.         *)
(***************************************************************************)
EXTENDS Naturals, Sequences

CONSTANT PipeCap      \* bytes the kernel keeps for a pipe

VARIABLE pipe         \* command bytes written and not yet read

DATAIN == 1           \* FQ_CMD_DATAIN
QUIT == 0             \* FQ_CMD_QUIT

Init == pipe = <<>>

\* fq_putcmd
PutCmd(c) == pipe' = IF Len(pipe) < PipeCap THEN Append(pipe, c) ELSE pipe

\* fq_getcmd, called by the watcher of the readable end: there is a byte.
GetCmd(c) ==
  /\ pipe # <<>> /\ c = Head(pipe)
  /\ pipe' = Tail(pipe)
=============================================================================
