------------------------------- MODULE Daemon -------------------------------
(***************************************************************************)
(* The supervisor daemon.c: detached from its terminal (daemon_init) it    *)
(* forks a child that executes the program, waits for its end, forks the   *)
(* next child, and sleeps.  execl may fail (the file is being replaced),   *)
(* fork may fail, and the program may fail to start (main of main.c).      *)
(*                                                                         *)
(* A child forked in the loop whose execl fails does not exit: it falls    *)
(* through to sleep(10) and goes on in the loop as a supervisor itself,    *)
(* with pid 0 and no child.  So there can be many supervisors, and the     *)
(* question is whether there can be many programs, or none.                *)
(*                                                                         *)
(* The names of the specification's parts begin with Daemon, for there is  *)
(* a module that extends this one and NetConf, too.                        *)
(***************************************************************************)
EXTENDS Naturals, FiniteSets

CONSTANTS
  Proc,      \* process IDs
  Daemon0,   \* the process that daemon.c starts with: in daemon_init, of a
             \* parent that only exits and its child it is the child
  MaxFail    \* bound: how often a call fails

NoChild == "0"      \* pid in a child: waitpid(0, ...) waits for any child
ForkError == "-1"   \* pid after a failed fork: the same for waitpid
AnyChild == {NoChild, ForkError}

\* What fork returns to a parent is positive.
ASSUME DaemonAssumption ==
  /\ IsFiniteSet(Proc) /\ Daemon0 \in Proc
  /\ AnyChild \cap Proc = {}
  /\ MaxFail \in Nat

VARIABLES
  st,       \* where each process is; "unused" if there is none
  parent,   \* its parent
  pid,      \* its variable pid
  nfail     \* failures so far

dvars == <<st, parent, pid, nfail>>

DaemonInit ==
  /\ st = [p \in Proc |-> IF p = Daemon0 THEN "detach" ELSE "unused"]
  /\ parent = [p \in Proc |-> p]
  /\ pid = [p \in Proc |-> ForkError]
  /\ nfail = 0

Children(p) == {c \in Proc \ {p} : parent[c] = p /\ st[c] # "unused"}
Fails == nfail < MaxFail /\ nfail' = nfail + 1

---------------------------------------------------------------------------
\* fork: the child c, its pid being 0, goes to atChild.
Fork(p, c, atParent, atChild) ==
  /\ st[c] = "unused"
  /\ st' = [st EXCEPT ![p] = atParent, ![c] = atChild]
  /\ parent' = [parent EXCEPT ![c] = p]
  /\ pid' = [pid EXCEPT ![p] = c, ![c] = NoChild]
  /\ UNCHANGED nfail

\* daemon_init: fork, and its parent exits ...
Detach(p) ==
  /\ st[p] = "detach"
  /\ st' = [st EXCEPT ![p] = "setsid"]
  /\ UNCHANGED <<parent, pid, nfail>>

\* ... then setsid and the second fork.
DetachAgain(p) ==
  /\ st[p] = "setsid"
  /\ st' = [st EXCEPT ![p] = "first"]
  /\ UNCHANGED <<parent, pid, nfail>>

\* If a fork fails it is the parent that goes on, and exits all the same.  If
\* setsid fails daemon_init returns -1, which main does not look at.
DetachFails(p) ==
  /\ Fails
  /\ \/ st[p] \in {"detach", "setsid"} /\ st' = [st EXCEPT ![p] = "exited"]
     \/ st[p] = "setsid" /\ st' = [st EXCEPT ![p] = "first"]
  /\ UNCHANGED <<parent, pid>>

\* The first fork in main.
FirstFork(p, c) == st[p] = "first" /\ Fork(p, c, "wait", "exec1")

\* main returns, and nobody supervises anything.
FirstForkFails(p) ==
  /\ st[p] = "first" /\ Fails
  /\ st' = [st EXCEPT ![p] = "exited"]
  /\ UNCHANGED <<parent, pid>>

\* execl
Exec(p) ==
  /\ st[p] \in {"exec1", "exec"}
  /\ st' = [st EXCEPT ![p] = "starting"]
  /\ UNCHANGED <<parent, pid, nfail>>

\* Without a program the first child returns from main, and a later one
\* goes on in the loop of its parent.
ExecFails(p) ==
  /\ Fails
  /\ \/ st[p] = "exec1" /\ st' = [st EXCEPT ![p] = "exited"]
     \/ st[p] = "exec" /\ st' = [st EXCEPT ![p] = "sleep"]
  /\ UNCHANGED <<parent, pid>>

\* main of main.c: the serial port, the queues, the net thread, the loop.
Start(p) ==
  /\ st[p] = "starting"
  /\ st' = [st EXCEPT ![p] = "program"]
  /\ UNCHANGED <<parent, pid, nfail>>

\* uart_init or fq_new fails, and main returns, or it is killed.  If pthread_create fails main
\* does not see it, an error being positive, and goes on without a net thread.
StartFails(p) ==
  /\ st[p] = "starting" /\ Fails
  /\ \E s \in {"exited", "half"} : st' = [st EXCEPT ![p] = s]
  /\ UNCHANGED <<parent, pid>>

\* The program, once started, ends or is killed.
ProgramEnds(p) ==
  /\ st[p] \in {"program", "half"}
  /\ st' = [st EXCEPT ![p] = "exited"]
  /\ UNCHANGED <<parent, pid, nfail>>

\* Faulty: waitpid does not wait (WNOHANG).
WaitReturnsAtOnce(p, c) ==
  /\ st[p] = "wait" /\ c \in Children(p)
  /\ st' = [st EXCEPT ![p] = "fork"]
  /\ UNCHANGED <<parent, pid, nfail>>

\* r_waitpid finds that the child c has ended: the next one, if it is the
\* one that was waited for.
WaitReturns(p, c) ==
  /\ st[p] = "wait" /\ c \in Children(p) /\ st[c] = "exited"
  /\ pid[p] \in AnyChild \cup {c}
  /\ st' = [st EXCEPT ![c] = "unused", ![p] = IF pid[p] = c THEN "fork" ELSE "sleep"]
  /\ UNCHANGED <<parent, pid, nfail>>

\* Faulty: an error of waitpid is not looked at.
WaitErrorIgnored(p) ==
  /\ st[p] = "wait"
  /\ IF pid[p] \in AnyChild THEN Children(p) = {} ELSE pid[p] \notin Children(p)
  /\ st' = [st EXCEPT ![p] = "sleep"]
  /\ UNCHANGED <<parent, pid, nfail>>

\* There is no such child, errno == ECHILD.
WaitError(p) ==
  /\ st[p] = "wait"
  /\ IF pid[p] \in AnyChild THEN Children(p) = {} ELSE pid[p] \notin Children(p)
  /\ st' = [st EXCEPT ![p] = "fork"]
  /\ UNCHANGED <<parent, pid, nfail>>

\* The fork in the loop.
LoopFork(p, c) == st[p] = "fork" /\ Fork(p, c, "sleep", "exec")

\* Faulty: the old pid is kept.
LoopForkFailsKeeps(p) ==
  /\ st[p] = "fork" /\ Fails
  /\ st' = [st EXCEPT ![p] = "sleep"]
  /\ UNCHANGED <<parent, pid>>

LoopForkFails(p) ==
  /\ st[p] = "fork" /\ Fails
  /\ st' = [st EXCEPT ![p] = "sleep"]
  /\ pid' = [pid EXCEPT ![p] = ForkError]
  /\ UNCHANGED parent

\* sleep(10)
Sleep(p) ==
  /\ st[p] = "sleep"
  /\ st' = [st EXCEPT ![p] = "wait"]
  /\ UNCHANGED <<parent, pid, nfail>>

---------------------------------------------------------------------------
Supervise(p) ==
  \/ \E c \in Proc : FirstFork(p, c) \/ WaitReturns(p, c) \/ LoopFork(p, c)
  \/ Detach(p) \/ DetachAgain(p)
  \/ Exec(p) \/ Start(p) \/ WaitError(p) \/ Sleep(p)

Fail(p) ==
  \/ DetachFails(p) \/ FirstForkFails(p) \/ LoopForkFails(p)
  \/ ExecFails(p) \/ StartFails(p)

DaemonNext == \E p \in Proc : Supervise(p) \/ Fail(p) \/ ProgramEnds(p)

DaemonSpec == DaemonInit /\ [][DaemonNext]_dvars

\* The kernel runs every process; nothing has to fail and no program has
\* to end.
FairSpec == DaemonSpec /\ \A p \in Proc : WF_dvars(Supervise(p))

---------------------------------------------------------------------------
(* Properties *)

\* Two programs would share the serial port: however many supervisors
\* failed execs have left, at most one process is, or is about to become,
\* the program (daemon.c:84-96).
Program == {"exec1", "exec", "starting", "program", "half"}
AtMostOne == Cardinality({p \in Proc : st[p] \in Program}) <= 1

\* A supervisor with a child waits for that one: its pid is never that of a
\* process reaped before, which may be somebody else's by now.
WaitsForOwnChild ==
  \A p \in Proc : st[p] \in {"wait", "sleep"} =>
    IF pid[p] \in Proc THEN Children(p) = {pid[p]} ELSE Children(p) = {}

\* What both rest on.  Only a process in its loop has a child, and but one
\* process has none: each supervisor that a failed exec has left is itself
\* the child that the one before it waits for.
DaemonTypeOK ==
  /\ st \in [Proc -> Program \cup {"unused", "detach", "setsid", "first", "wait", "fork",
                                   "sleep", "exited"}]
  /\ parent \in [Proc -> Proc] /\ pid \in [Proc -> Proc \cup AnyChild]
  /\ nfail \in 0 .. MaxFail
HasChild(p) == Children(p) # {}
InLoop(p) == st[p] \in {"wait", "sleep"}
Last(p) == st[p] # "unused" /\ ~HasChild(p)
DaemonInv ==
  /\ DaemonTypeOK /\ WaitsForOwnChild
  /\ \A p \in Proc : HasChild(p) => InLoop(p)
  /\ \A p \in Proc : st[p] = "exec" => pid[p] = NoChild
  /\ \A p, q \in Proc : Last(p) /\ Last(q) => p = q

\* Whenever the program is gone it comes back, unless the supervisor failed
\* before its loop: whichever of the processes is to start it, and whichever
\* calls fail on the way.  It may come back without its net thread.
Started == \E p \in Proc : st[p] \in {"program", "half"}
ComesBack == ~Started ~> Started \/ st[Daemon0] = "exited"
=============================================================================
