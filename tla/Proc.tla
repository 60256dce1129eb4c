-------------------------------- MODULE Proc --------------------------------
(***************************************************************************)
(* The process table, the per-CPU schedulers and the kernel threads of    *)
(* processes (proc.c, proc.h, and the parts of trap.c that decide when a   *)
(* process exits or yields).                                               *)
(*                                                                         *)
(* A CPU is always on one stack: its own scheduler stack (spc "idle" or    *)
(* "scan") or, when spc is "run", the kernel stack of the process cproc.   *)
(* ptable.lock is owned by a CPU, not by a thread: sched() switches stacks *)
(* with the lock held, and the thread that runs next on that CPU releases  *)
(* it.  A section between acquire and release with no switch in it is one  *)
(* step; everything that happens with the lock held across a switch, or    *)
(* without the lock, is a step of its own.                                 *)
(***************************************************************************)
EXTENDS Integers

CONSTANTS
  NPROC,      \* number of slots of ptable.proc
  NCPU,       \* number of CPUs
  Chan,       \* wait channels of the other subsystems (addresses)
  KillPids,   \* the pids that processes pass to kill()
  MaxPid      \* bound on nextpid, to keep the state space finite

Slot == 1..NPROC
CPU == 1..NCPU
InitProc == 1    \* userinit() takes the first slot

ASSUME SizeAssumption == NPROC \in Nat \ {0} /\ NCPU \in Nat \ {0} /\ MaxPid \in Nat
ASSUME ChanAssumption == Chan \subseteq Int /\ Chan \cap (0..NPROC) = {}
ASSUME KillAssumption == KillPids \subseteq Nat

VARIABLES
  lock,     \* ptable.lock.cpu, 0 when the lock is free
  state,    \* p->state
  pid,      \* p->pid
  parent,   \* p->parent, 0 for a null pointer
  chan,     \* p->chan: a slot (wait() sleeps on the proc), a Chan, or 0
  killed,   \* p->killed
  kstack,   \* TRUE when p->kstack is an allocated page
  nextpid,
  cproc,    \* c->proc, 0 for a null pointer
  spc,      \* where the scheduler thread of c is
  scan,     \* the local p of scheduler() on c
  pc,       \* where the kernel thread of a slot is
  ret,      \* where it continues after sched() returns
  np        \* the local np of fork()

slotVars == <<state, pid, parent, chan, killed, kstack, nextpid>>
cpuVars == <<cproc, spc, scan>>
threadVars == <<pc, ret, np>>
vars == <<lock, state, pid, parent, chan, killed, kstack, nextpid,
          cproc, spc, scan, pc, ret, np>>

ProcState == {"UNUSED", "EMBRYO", "SLEEPING", "RUNNABLE", "RUNNING", "ZOMBIE"}

\* Interrupts are enabled and no spinlock is held: the timer may preempt here.
Preemptible == {"user", "sys", "body", "sysret", "kalloc", "copyuvm", "runchild", "exiting"}
Label == Preemptible \cup {"none", "forkret", "wait", "sched", "resume", "panic"}

\* Thread p executes on CPU c and is at label l.
At(c, p, l) == spc[c] = "run" /\ cproc[c] = p /\ pc[p] = l

\* q is the slot that a loop over ptable.proc meets first among those in S.
First(q, S) == q \in S /\ \A r \in S : q <= r

Goto(p, l) == pc' = [pc EXCEPT ![p] = l]

\* The effect of wakeup1(ch) on the states st.
Wake(st, ch) ==
  [q \in Slot |-> IF st[q] = "SLEEPING" /\ chan[q] = ch THEN "RUNNABLE" ELSE st[q]]

\* After userinit(): init is runnable and every CPU is about to schedule.
Init ==
  /\ lock = 0
  /\ state = [q \in Slot |-> IF q = InitProc THEN "RUNNABLE" ELSE "UNUSED"]
  /\ pid = [q \in Slot |-> IF q = InitProc THEN 1 ELSE 0]
  /\ parent = [q \in Slot |-> 0]
  /\ chan = [q \in Slot |-> 0]
  /\ killed = [q \in Slot |-> FALSE]
  /\ kstack = [q \in Slot |-> q = InitProc]
  /\ nextpid = 2
  /\ cproc = [c \in CPU |-> 0]
  /\ spc = [c \in CPU |-> "idle"]
  /\ scan = [c \in CPU |-> 1]
  /\ pc = [q \in Slot |-> IF q = InitProc THEN "forkret" ELSE "none"]
  /\ ret = [q \in Slot |-> "none"]
  /\ np = [q \in Slot |-> 0]

-----------------------------------------------------------------------------
(* scheduler() *)

\* sti(); acquire(&ptable.lock); p = ptable.proc
SchedAcquire(c) ==
  /\ spc[c] = "idle" /\ lock = 0
  /\ lock' = c
  /\ spc' = [spc EXCEPT ![c] = "scan"]
  /\ scan' = [scan EXCEPT ![c] = 1]
  /\ UNCHANGED <<slotVars, cproc, threadVars>>

\* The runnable processes that the rest of the loop will meet.
Ahead(c) == {q \in Slot : q >= scan[c] /\ state[q] = "RUNNABLE"}

\* The next RUNNABLE process: c->proc = p, RUNNING, swtch to its stack.
SchedPick(c) ==
  /\ spc[c] = "scan"
  /\ \E q \in Slot :
       /\ First(q, Ahead(c))
       /\ cproc' = [cproc EXCEPT ![c] = q]
       /\ state' = [state EXCEPT ![q] = "RUNNING"]
       /\ scan' = [scan EXCEPT ![c] = q]
  /\ spc' = [spc EXCEPT ![c] = "run"]
  /\ UNCHANGED <<lock, pid, parent, chan, killed, kstack, nextpid, threadVars>>

\* The loop met no other RUNNABLE process: release(&ptable.lock).
SchedRelease(c) ==
  /\ spc[c] = "scan" /\ Ahead(c) = {}
  /\ lock' = 0
  /\ spc' = [spc EXCEPT ![c] = "idle"]
  /\ scan' = [scan EXCEPT ![c] = 1]
  /\ UNCHANGED <<slotVars, cproc, threadVars>>

\* Faulty variant of Sched: the loop starts over after every process.
SchedStartsOver(c, p) ==
  /\ At(c, p, "sched")
  /\ Goto(p, IF state[p] = "ZOMBIE" THEN "none" ELSE "resume")
  /\ spc' = [spc EXCEPT ![c] = "scan"]
  /\ cproc' = [cproc EXCEPT ![c] = 0]
  /\ scan' = [scan EXCEPT ![c] = 1]
  /\ UNCHANGED <<lock, slotVars, ret, np>>

\* sched() switches from p to the scheduler, which sets c->proc = 0; p++.
Sched(c, p) ==
  /\ At(c, p, "sched")
  /\ Goto(p, IF state[p] = "ZOMBIE" THEN "none" ELSE "resume")
  /\ spc' = [spc EXCEPT ![c] = "scan"]
  /\ cproc' = [cproc EXCEPT ![c] = 0]
  /\ scan' = [scan EXCEPT ![c] = scan[c] + 1]
  /\ UNCHANGED <<lock, slotVars, ret, np>>

\* sched() returns into sleep() or yield(); sleep() tidies up p->chan, and
\* both release ptable.lock unless it is the lock wait() sleeps with.
Resume(c, p) ==
  /\ At(c, p, "resume")
  /\ chan' = [chan EXCEPT ![p] = 0]
  /\ lock' = IF ret[p] = "wait" THEN lock ELSE 0
  /\ Goto(p, ret[p])
  /\ ret' = [ret EXCEPT ![p] = "none"]
  /\ UNCHANGED <<state, pid, parent, killed, kstack, nextpid, cpuVars, np>>

\* A child's first scheduling: forkret() releases ptable.lock.
ForkRet(c, p) ==
  /\ At(c, p, "forkret")
  /\ lock' = 0
  /\ Goto(p, "user")
  /\ UNCHANGED <<slotVars, cpuVars, ret, np>>

-----------------------------------------------------------------------------
(* trap(): system calls, faults and the timer *)

\* A system call from user mode.
Trap(c, p) ==
  /\ At(c, p, "user") /\ ~killed[p]
  /\ Goto(p, "sys")
  /\ UNCHANGED <<lock, slotVars, cpuVars, ret, np>>

\* Faulty variant of TrapKilled: an interrupt returns to the killed process.
TrapKilledReturns(c, p) == At(c, p, "user") /\ killed[p] /\ UNCHANGED vars

\* A killed process exits at its next system call or interrupt in user mode.
TrapKilled(c, p) ==
  /\ At(c, p, "user") /\ killed[p]
  /\ Goto(p, "exiting")
  /\ UNCHANGED <<lock, slotVars, cpuVars, ret, np>>

\* A user program misbehaved: myproc()->killed = 1, without ptable.lock.
Fault(c, p) ==
  /\ At(c, p, "user") /\ p # InitProc
  /\ killed' = [killed EXCEPT ![p] = TRUE]
  /\ Goto(p, "sysret")
  /\ UNCHANGED <<lock, state, pid, parent, chan, kstack, nextpid, cpuVars, ret, np>>

\* The system call is done.
SysDone(c, p) ==
  /\ \E l \in {"sys", "body"} : At(c, p, l)
  /\ Goto(p, "sysret")
  /\ UNCHANGED <<lock, slotVars, cpuVars, ret, np>>

\* The check of p->killed on the way back to user mode.
TrapRet(c, p) ==
  /\ At(c, p, "sysret")
  /\ Goto(p, IF killed[p] THEN "exiting" ELSE "user")
  /\ UNCHANGED <<lock, slotVars, cpuVars, ret, np>>

\* acquire(&ptable.lock); p->state = s; sched(), to continue at l.
Block(c, p, s, ch, l) ==
  /\ lock = 0
  /\ lock' = c
  /\ state' = [state EXCEPT ![p] = s]
  /\ chan' = [chan EXCEPT ![p] = ch]
  /\ Goto(p, "sched")
  /\ ret' = [ret EXCEPT ![p] = l]
  /\ UNCHANGED <<pid, parent, killed, kstack, nextpid, cpuVars, np>>

\* The timer interrupt calls yield().  From user mode trap() then returns
\* through the check of p->killed; the kernel continues where it was.
Yield(c, p) ==
  \E l \in Preemptible :
    /\ At(c, p, l)
    /\ l = "user" => ~killed[p]
    /\ Block(c, p, "RUNNABLE", chan[p], IF l = "user" THEN "sysret" ELSE l)

-----------------------------------------------------------------------------
(* sleep() and wakeup() on the channels of other subsystems *)

\* sleep(ch, lk) from a system call, or while exit() closes files.
Sleep(c, p) ==
  /\ \E ch \in Chan, l \in {"sys", "body", "exiting"} :
       /\ At(c, p, l)
       /\ Block(c, p, "SLEEPING", ch, IF l = "exiting" THEN l ELSE "body")

\* wakeup(ch), from an interrupt handler or another thread.
Wakeup(ch) ==
  /\ lock = 0
  /\ state' = Wake(state, ch)
  /\ state' # state
  /\ UNCHANGED <<lock, pid, parent, chan, killed, kstack, nextpid, cpuVars, threadVars>>

-----------------------------------------------------------------------------
(* fork() *)

\* allocproc(): take the first UNUSED slot, under the lock.
AllocProc(c, p) ==
  /\ At(c, p, "sys") /\ lock = 0 /\ nextpid < MaxPid
  /\ \E q \in Slot :
       /\ First(q, {r \in Slot : state[r] = "UNUSED"})
       /\ state' = [state EXCEPT ![q] = "EMBRYO"]
       /\ pid' = [pid EXCEPT ![q] = nextpid]
       /\ np' = [np EXCEPT ![p] = q]
  /\ nextpid' = nextpid + 1
  /\ Goto(p, "kalloc")
  /\ UNCHANGED <<lock, parent, chan, killed, kstack, cpuVars, ret>>

\* fork() gives up: the slot is UNUSED again, its pid stays behind.
ForkFail(p) ==
  /\ state' = [state EXCEPT ![np[p]] = "UNUSED"]
  /\ kstack' = [kstack EXCEPT ![np[p]] = FALSE]
  /\ np' = [np EXCEPT ![p] = 0]
  /\ Goto(p, "sysret")
  /\ UNCHANGED <<lock, pid, parent, chan, killed, nextpid, cpuVars, ret>>

\* allocproc(): the kernel stack, which kalloc() may refuse.
AllocStack(c, p) ==
  /\ At(c, p, "kalloc")
  /\ \/ /\ kstack' = [kstack EXCEPT ![np[p]] = TRUE]
        /\ Goto(p, "copyuvm")
        /\ UNCHANGED <<lock, state, pid, parent, chan, killed, nextpid, cpuVars, ret, np>>
     \/ ForkFail(p)

\* copyuvm(), which may run out of memory, then np->parent = curproc.
CopyProc(c, p) ==
  /\ At(c, p, "copyuvm")
  /\ \/ /\ parent' = [parent EXCEPT ![np[p]] = p]
        /\ Goto(p, "runchild")
        /\ UNCHANGED <<lock, state, pid, chan, killed, kstack, nextpid, cpuVars, ret, np>>
     \/ ForkFail(p)

\* The child becomes RUNNABLE under the lock; it will start at forkret().
RunChild(c, p) ==
  /\ At(c, p, "runchild") /\ lock = 0
  /\ state' = [state EXCEPT ![np[p]] = "RUNNABLE"]
  /\ pc' = [pc EXCEPT ![p] = "sysret", ![np[p]] = "forkret"]
  /\ np' = [np EXCEPT ![p] = 0]
  /\ UNCHANGED <<lock, pid, parent, chan, killed, kstack, nextpid, cpuVars, ret>>

-----------------------------------------------------------------------------
(* exit(), wait() and kill() *)

\* sys_exit(); init's program never calls it.
SysExit(c, p) ==
  /\ At(c, p, "sys") /\ p # InitProc
  /\ Goto(p, "exiting")
  /\ UNCHANGED <<lock, slotVars, cpuVars, ret, np>>

\* Faulty variants of Exit: the lock is released before sched(); the parent is
\* not woken.
ExitUnlocks(c, p) ==
  /\ At(c, p, "exiting") /\ p # InitProc /\ lock = 0
  /\ parent' = [q \in Slot |-> IF parent[q] = p THEN InitProc ELSE parent[q]]
  /\ state' = [Wake(Wake(state, parent[p]), InitProc) EXCEPT ![p] = "ZOMBIE"]
  /\ Goto(p, "sched")
  /\ UNCHANGED <<lock, pid, chan, killed, kstack, nextpid, cpuVars, ret, np>>

ExitQuietly(c, p) ==
  /\ At(c, p, "exiting") /\ p # InitProc /\ lock = 0
  /\ lock' = c
  /\ parent' = [q \in Slot |-> IF parent[q] = p THEN InitProc ELSE parent[q]]
  /\ state' = [state EXCEPT ![p] = "ZOMBIE"]
  /\ Goto(p, "sched")
  /\ UNCHANGED <<pid, chan, killed, kstack, nextpid, cpuVars, ret, np>>

\* The second half of exit(): wake the parent, pass the children to init,
\* become a ZOMBIE and enter sched() with the lock held.
Exit(c, p) ==
  /\ At(c, p, "exiting") /\ p # InitProc /\ lock = 0
  /\ lock' = c
  /\ parent' = [q \in Slot |-> IF parent[q] = p THEN InitProc ELSE parent[q]]
  /\ LET woken == Wake(state, parent[p])
         zombies == {q \in Slot : parent[q] = p /\ state[q] = "ZOMBIE"}
     IN  state' = [(IF zombies # {} THEN Wake(woken, InitProc) ELSE woken)
                     EXCEPT ![p] = "ZOMBIE"]
  /\ Goto(p, "sched")
  /\ UNCHANGED <<pid, chan, killed, kstack, nextpid, cpuVars, ret, np>>

\* exit() of init: panic("init exiting"), which stops this CPU for good.
ExitInit(c, p) ==
  /\ At(c, p, "exiting") /\ p = InitProc
  /\ Goto(p, "panic")
  /\ UNCHANGED <<lock, slotVars, cpuVars, ret, np>>

\* wait(): acquire(&ptable.lock).
WaitAcquire(c, p) ==
  /\ At(c, p, "sys") /\ lock = 0
  /\ lock' = c
  /\ Goto(p, "wait")
  /\ UNCHANGED <<slotVars, cpuVars, ret, np>>

Children(p) == {q \in Slot : parent[q] = p}

\* Faulty variant of Zombies: wait() does not look at p->state.
ZombiesAlive(p) == Children(p)

Zombies(p) == {q \in Children(p) : state[q] = "ZOMBIE"}

\* The scan of wait() meets an exited child: free it and return its pid.
WaitReap(c, p) ==
  /\ At(c, p, "wait")
  /\ \E q \in Slot :
       /\ First(q, Zombies(p))
       /\ kstack' = [kstack EXCEPT ![q] = FALSE]
       /\ pid' = [pid EXCEPT ![q] = 0]
       /\ parent' = [parent EXCEPT ![q] = 0]
       /\ killed' = [killed EXCEPT ![q] = FALSE]
       /\ state' = [state EXCEPT ![q] = "UNUSED"]
  /\ lock' = 0
  /\ Goto(p, "sysret")
  /\ UNCHANGED <<chan, nextpid, cpuVars, ret, np>>

\* The scan finds no exited child: return -1, or sleep on curproc.
WaitNone(c, p) ==
  /\ At(c, p, "wait") /\ Zombies(p) = {}
  /\ IF Children(p) = {} \/ killed[p]
     THEN /\ lock' = 0
          /\ Goto(p, "sysret")
          /\ UNCHANGED <<slotVars, cpuVars, ret, np>>
     ELSE /\ state' = [state EXCEPT ![p] = "SLEEPING"]
          /\ chan' = [chan EXCEPT ![p] = p]
          /\ Goto(p, "sched")
          /\ ret' = [ret EXCEPT ![p] = "wait"]
          /\ UNCHANGED <<lock, pid, parent, killed, kstack, nextpid, cpuVars, np>>

\* kill(k): the first slot with that pid, in whatever state it is.
Kill(c, p, k) ==
  /\ At(c, p, "sys") /\ lock = 0
  /\ IF \E q \in Slot : pid[q] = k
     THEN \E q \in Slot :
            /\ First(q, {r \in Slot : pid[r] = k})
            /\ killed' = [killed EXCEPT ![q] = TRUE]
            /\ state' = [state EXCEPT ![q] = IF @ = "SLEEPING" THEN "RUNNABLE" ELSE @]
     ELSE UNCHANGED <<killed, state>>
  /\ Goto(p, "sysret")
  /\ UNCHANGED <<lock, pid, parent, chan, kstack, nextpid, cpuVars, ret, np>>

-----------------------------------------------------------------------------
Scheduler(c) == SchedAcquire(c) \/ SchedPick(c) \/ SchedRelease(c)

\* Thread p switches stacks, with ptable.lock held.
Switch(c, p) == Sched(c, p) \/ Resume(c, p) \/ ForkRet(c, p)

\* Thread p executes kernel code that involves no choice of its program.
Kernel(c, p) ==
  \/ TrapKilled(c, p) \/ TrapRet(c, p)
  \/ AllocStack(c, p) \/ CopyProc(c, p) \/ RunChild(c, p)
  \/ Exit(c, p) \/ ExitInit(c, p) \/ WaitReap(c, p) \/ WaitNone(c, p)

\* What the program of p chooses to do.
Program(c, p) ==
  \/ Trap(c, p) \/ Fault(c, p) \/ SysDone(c, p) \/ Sleep(c, p)
  \/ AllocProc(c, p) \/ SysExit(c, p) \/ WaitAcquire(c, p)
  \/ \E k \in KillPids : Kill(c, p, k)

Next ==
  \/ \E c \in CPU : Scheduler(c)
  \/ \E c \in CPU, p \in Slot :
       Switch(c, p) \/ Kernel(c, p) \/ Program(c, p) \/ Yield(c, p)
  \/ \E ch \in Chan : Wakeup(ch)

Spec == Init /\ [][Next]_vars

-----------------------------------------------------------------------------
(* Safety *)

\* Every variable has its type.
TypeOK ==
  /\ lock \in CPU \cup {0}
  /\ state \in [Slot -> ProcState]
  /\ pid \in [Slot -> Nat]
  /\ parent \in [Slot -> Slot \cup {0}]
  /\ chan \in [Slot -> Slot \cup {0} \cup Chan]
  /\ killed \in [Slot -> BOOLEAN]
  /\ kstack \in [Slot -> BOOLEAN]
  /\ nextpid \in Nat
  /\ cproc \in [CPU -> Slot \cup {0}]
  /\ spc \in [CPU -> {"idle", "scan", "run"}]
  /\ scan \in [CPU -> 1..(NPROC + 1)]
  /\ pc \in [Slot -> Label]
  /\ ret \in [Slot -> Preemptible \cup {"none", "wait"}]
  /\ np \in [Slot -> Slot \cup {0}]

\* CPU c executes code that relies on holding ptable.lock.
InCritical(c) ==
  \/ spc[c] = "scan"
  \/ spc[c] = "run" /\ pc[cproc[c]] \in {"sched", "resume", "forkret", "wait"}

\* ptable.lock is handed over correctly across swtch(): it is held by a CPU
\* exactly while that CPU executes code that needs it, whichever thread took
\* it and whichever releases it.  The panics "sched ptable.lock", "release"
\* and "acquire" are about this.
LockHandoff == \A c \in CPU : lock = c <=> InCritical(c)

\* A process runs on at most one CPU, and a process is RUNNING exactly when
\* some CPU runs it and it is not on its way into the scheduler.
OneCPU ==
  /\ \A c, d \in CPU : cproc[c] = cproc[d] /\ cproc[c] # 0 => c = d
  /\ \A p \in Slot :
       state[p] = "RUNNING" <=> \E c \in CPU : cproc[c] = p /\ pc[p] # "sched"

\* The kernel stack a CPU is executing on is not freed under it: not by the
\* wait() of the parent of an exiting process, nor by a failing fork().  Nor
\* has the slot been given to somebody else.
StackInUse ==
  \A c \in CPU : spc[c] = "run" =>
    /\ cproc[c] # 0
    /\ kstack[cproc[c]]
    /\ state[cproc[c]] \in {"RUNNING", "RUNNABLE", "SLEEPING", "ZOMBIE"}

\* Every process but init has a parent that can still wait() for it, also
\* while that parent exits or forks on another CPU.
ParentAlive ==
  \A q \in Slot \ {InitProc} : state[q] \notin {"UNUSED", "EMBRYO"} =>
    parent[q] # 0 /\ state[parent[q]] \in {"SLEEPING", "RUNNABLE", "RUNNING"}

\* wait() misses no wakeup: a process asleep in wait() has children, none of
\* them has exited yet, and the process has not been killed.
NoMissedExit ==
  \A p \in Slot : state[p] = "SLEEPING" /\ chan[p] = p =>
    Children(p) # {} /\ Zombies(p) = {} /\ ~killed[p]

\* proc.h says of p->killed "If non-zero, have been killed": a slot that
\* allocproc() hands out to a new process is not already marked.
FreshNotKilled ==
  [][\A q \in Slot : state[q] = "UNUSED" /\ state'[q] = "EMBRYO" => ~killed'[q]]_vars

-----------------------------------------------------------------------------
(* fork(), exit() and wait() implement the process tree *)

Live == {p \in Slot : state[p] \in {"SLEEPING", "RUNNABLE", "RUNNING"}}
Zombie == {p \in Slot : state[p] = "ZOMBIE"}

Tree == INSTANCE ProcTree WITH
          Root <- InitProc, None <- 0, live <- Live, zombie <- Zombie,
          par <- [q \in Slot |-> IF state[q] = "EMBRYO" THEN 0 ELSE parent[q]]

\* Whatever the interleaving of CPUs, users see a tree of processes in which
\* only a living parent collects a child and orphans pass to init.
ImplementsTree == Tree!Spec

-----------------------------------------------------------------------------
(* Liveness *)

\* A CPU never stops executing.  A timer interrupt that arrives while
\* interrupts are off stays pending until they are on again, so the timer is
\* strongly fair.  A time slice is long enough for a step of kernel code, so
\* the steps of a thread that is scheduled again and again are strongly fair.
\* init's program keeps calling wait().
Fairness ==
  /\ \A c \in CPU : WF_vars(Scheduler(c) \/ \E p \in Slot : Switch(c, p))
  /\ SF_vars(\E c \in CPU, p \in Slot : Yield(c, p))
  /\ \A p \in Slot : SF_vars(\E c \in CPU : Kernel(c, p))
  /\ SF_vars(\E c \in CPU : Trap(c, InitProc))
  /\ SF_vars(\E c \in CPU : WaitAcquire(c, InitProc))

FairSpec == Spec /\ Fairness

\* The round-robin scan starves nobody: a RUNNABLE process is scheduled.
Scheduled == \A p \in Slot : state[p] = "RUNNABLE" ~> state[p] = "RUNNING"

\* "Process won't exit until it returns to user space (see trap in trap.c)"
\* (kill()): once there, a killed process exits, even if it makes no call.
KilledExits ==
  \A p \in Slot \ {InitProc} : killed[p] /\ pc[p] = "user" ~> state[p] = "ZOMBIE"

\* A zombie whose parent is init, by fork or because its parent exited first,
\* is collected: init is woken, scheduled and finds it.
OrphanReaped ==
  \A q \in Slot :
    state[q] = "ZOMBIE" /\ parent[q] = InitProc ~> state[q] = "UNUSED"
=============================================================================
