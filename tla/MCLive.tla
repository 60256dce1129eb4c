------------------------------- MODULE MCLive --------------------------------
(* Small instances, for TLC, of the modules whose liveness rests on the       *)
(* scheduler: the process table (Proc) on one CPU, and the processes and      *)
(* descriptors of the shell's pipelines (Pipeline).  They share no state.  A  *)
(* behaviour is one of a single module, the one that part names; the other    *)
(* stays in its initial state.                                                *)
EXTENDS Integers

VARIABLES
  part,
  lock, state, pid, parent, chan, killed, kstack, nextpid, cproc, spc, scan, pc, ret, np,
  cmd, shpc, shparent, fd

Pids == {2, 3}
Procs == INSTANCE Proc WITH NPROC <- 3, NCPU <- 1, Chan <- {}, KillPids <- Pids, MaxPid <- 4

Simple == [type |-> "EXEC"]
Piped(a, b) == [type |-> "PIPE", left |-> a, right |-> b]
InTurn(a, b) == [type |-> "LIST", left |-> a, right |-> b]
Background(a) == [type |-> "BACK", cmd |-> a]
Redirected(a, d) == [type |-> "REDIR", cmd |-> a, fd |-> d]

\* a < file | b | c     and     a & b > file
MCCommands ==
  {Piped(Redirected(Simple, 0), Piped(Simple, Simple)),
   InTurn(Background(Simple), Redirected(Simple, 1))}

Lines == INSTANCE Pipeline WITH
  NPROC <- 5, BUSY <- 1, Commands <- MCCommands, pc <- shpc, parent <- shparent

procVars == <<lock, state, pid, parent, chan, killed, kstack, nextpid, cproc, spc, scan, pc, ret, np>>
shellVars == <<cmd, shpc, shparent, fd>>
allVars == <<part, procVars, shellVars>>

LiveInit == part \in {"proc", "shell"} /\ Procs!Init /\ Lines!Init

LiveNext ==
  \/ part = "proc" /\ Procs!Next /\ UNCHANGED <<part, shellVars>>
  \/ part = "shell" /\ Lines!Next /\ UNCHANGED <<part, procVars>>

\* The fairness of the modules, for the part that runs.
LiveSpec ==
  /\ LiveInit /\ [][LiveNext]_allVars
  /\ \A c \in Procs!CPU :
       WF_procVars(part = "proc" /\ (Procs!Scheduler(c) \/ \E p \in Procs!Slot : Procs!Switch(c, p)))
  /\ SF_procVars(part = "proc" /\ \E c \in Procs!CPU, p \in Procs!Slot : Procs!Yield(c, p))
  /\ \A p \in Procs!Slot : SF_procVars(part = "proc" /\ \E c \in Procs!CPU : Procs!Kernel(c, p))
  /\ SF_procVars(part = "proc" /\ \E c \in Procs!CPU : Procs!Trap(c, Procs!InitProc))
  /\ SF_procVars(part = "proc" /\ \E c \in Procs!CPU : Procs!WaitAcquire(c, Procs!InitProc))
  /\ WF_shellVars(part = "shell" /\ (Lines!MainWait \/ \E x \in Lines!Proc : Lines!Step(x)))

-----------------------------------------------------------------------------
(* The properties of the modules, as they state them *)

\* The round-robin scan of scheduler() starves nobody.
Scheduled == part = "proc" => Procs!Scheduled

\* A killed process that is back in user space exits, even if it makes no call.
KilledExits == part = "proc" => Procs!KilledExits

\* init collects every zombie it has or inherits (exit(), wait()).
OrphanReaped == part = "proc" => Procs!OrphanReaped

\* The prompt comes back: nobody waits for an end of file that cannot come, for
\* a reader that does not read, or for a child that is not there (runcmd()).
PromptReturns == Lines!PromptReturns
=============================================================================
