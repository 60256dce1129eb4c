----------------------------- MODULE ProcProofs -----------------------------
(***************************************************************************)
(* Proofs about Proc, for every number of slots and CPUs: its inductive    *)
(* invariant, the safety invariants, and the refinement of the process     *)
(* tree.                                                                   *)
(***************************************************************************)
EXTENDS Proc, TLAPS

\* Where thread p is, or will be when sched() returns.
Where(p) == IF pc[p] \in {"sched", "resume"} THEN ret[p] ELSE pc[p]

OnCPU(p) == \E c \in CPU : cproc[c] = p

\* A CPU is on a process's stack exactly when c->proc is set, and no two
\* CPUs are on the same one.
CpuInv ==
  /\ \A c \in CPU : (spc[c] = "run" <=> cproc[c] # 0) /\ (spc[c] = "run" => scan[c] = cproc[c])
  /\ \A c, d \in CPU : cproc[c] = cproc[d] /\ cproc[c] # 0 => c = d

\* How the state of a slot and the position of its thread go together.
ThreadInv ==
  \A p \in Slot :
    /\ OnCPU(p) =>
         /\ pc[p] # "none"
         /\ state[p] = "RUNNING" <=> pc[p] # "sched"
         /\ state[p] \notin {"UNUSED", "EMBRYO"}
    /\ ~OnCPU(p) =>
         /\ state[p] # "RUNNING"
         /\ state[p] \in {"RUNNABLE", "SLEEPING"} => pc[p] \in {"forkret", "resume"}
         /\ state[p] \in {"UNUSED", "EMBRYO", "ZOMBIE"} => pc[p] = "none"
    /\ ret[p] # "none" <=>
         pc[p] = "resume" \/ (pc[p] = "sched" /\ state[p] # "ZOMBIE")

\* A fork() in progress owns the EMBRYO slot np.
ForkInv ==
  \A p \in Slot :
    /\ np[p] # 0 <=> Where(p) \in {"kalloc", "copyuvm", "runchild"}
    /\ np[p] # 0 => state[np[p]] = "EMBRYO"
    /\ Where(p) \in {"copyuvm", "runchild"} => kstack[np[p]]
    /\ Where(p) = "runchild" => parent[np[p]] = p
    /\ \A q \in Slot : np[p] = np[q] /\ np[p] # 0 => p = q

StackInv ==
  \A p \in Slot : state[p] \notin {"UNUSED", "EMBRYO"} => kstack[p]

\* Parent pointers lead to living processes.
ParentInv ==
  /\ state[InitProc] \in {"SLEEPING", "RUNNABLE", "RUNNING"}
  /\ parent[InitProc] = 0
  /\ \A q \in Slot :
       /\ parent[q] # 0 => state[parent[q]] \in {"SLEEPING", "RUNNABLE", "RUNNING"}
       /\ parent[q] # q
       /\ state[q] = "UNUSED" => parent[q] = 0
       /\ state[q] = "EMBRYO" /\ parent[q] # 0 =>
            np[parent[q]] = q /\ Where(parent[q]) = "runchild"
       /\ state[q] \notin {"UNUSED", "EMBRYO"} /\ q # InitProc => parent[q] # 0

IInv ==
  /\ TypeOK /\ LockHandoff /\ CpuInv /\ ThreadInv
  /\ ForkInv /\ StackInv /\ ParentInv /\ NoMissedExit

ForkLabel == {"kalloc", "copyuvm", "runchild"}

-----------------------------------------------------------------------------
\* The thread a CPU executes is RUNNING until it has entered sched(), and
\* ptable.lock is not held by the CPU while interrupts are enabled.
LEMMA Current ==
  ASSUME IInv, NEW c \in CPU, NEW p \in Slot, NEW l, At(c, p, l), l # "sched"
  PROVE  OnCPU(p) /\ state[p] = "RUNNING" /\ p # 0 /\ pc[p] = l /\ spc[c] = "run"
         /\ \A d \in CPU : cproc[d] = p <=> d = c
BY DEF IInv, ThreadInv, OnCPU, At, CpuInv, Slot

\* The slot np of a fork() in progress belongs to that fork() alone.
LEMMA ForkOwner ==
  ASSUME IInv, NEW p \in Slot, Where(p) \in ForkLabel, OnCPU(p)
  PROVE  /\ np[p] \in Slot /\ state[np[p]] = "EMBRYO" /\ ~OnCPU(np[p])
         /\ pc[np[p]] = "none" /\ np[p] # p /\ np[p] # InitProc /\ np[np[p]] = 0
         /\ \A r \in Slot : parent[r] # np[p] /\ (np[r] = np[p] => r = p)
         /\ \A d \in CPU : cproc[d] # np[p]
<1>1. np[p] \in Slot /\ state[np[p]] = "EMBRYO" /\ \A r \in Slot : np[r] = np[p] => r = p
  BY DEF IInv, ForkInv, ForkLabel, TypeOK
<1>2. ~OnCPU(np[p]) /\ pc[np[p]] = "none" /\ np[p] # p
  BY <1>1, Zenon DEF IInv, ThreadInv
<1>3. np[p] # InitProc /\ \A r \in Slot : parent[r] # np[p]
  BY <1>1, SizeAssumption DEF IInv, ParentInv, InitProc, Slot
<1>4. np[np[p]] = 0
  BY <1>1, <1>2, Zenon DEF IInv, ForkInv, Where
<1> QED BY <1>1, <1>2, <1>3, <1>4, Zenon DEF OnCPU

\* A thread that only moves between labels at which interrupts are enabled
\* disturbs nothing.
LEMMA MoveKeeps ==
  ASSUME IInv, NEW c \in CPU, NEW p \in Slot,
         NEW l \in (Preemptible \cup {"panic"}) \ ForkLabel,
         spc[c] = "run", cproc[c] = p, pc[p] \in Preemptible \ ForkLabel,
         Goto(p, l), UNCHANGED <<lock, slotVars, cpuVars, ret, np>>
  PROVE  IInv'
<1> USE DEF slotVars, cpuVars, Goto
<1>1. TypeOK'
  BY Zenon DEF IInv, TypeOK, Label, ProcState, Preemptible
<1>2. LockHandoff'
  BY DEF IInv, LockHandoff, InCritical, TypeOK, Preemptible, ForkLabel, CpuInv
<1>3. CpuInv'
  BY Zenon DEF IInv, CpuInv
<1>4. ThreadInv'
  BY DEF IInv, ThreadInv, OnCPU, TypeOK, Preemptible, ForkLabel
<1>5. ForkInv'
  BY DEF IInv, ForkInv, Where, TypeOK, Preemptible, ForkLabel
<1>6. StackInv'
  BY Zenon DEF IInv, StackInv, TypeOK
<1>7. ParentInv'
  BY DEF IInv, ParentInv, Where, TypeOK, Preemptible, ForkLabel
<1>8. NoMissedExit'
  BY Zenon DEF IInv, NoMissedExit, Children, Zombies
<1> QED BY <1>1, <1>2, <1>3, <1>4, <1>5, <1>6, <1>7, <1>8, Zenon DEF IInv

\* The scheduler takes the free lock.
LEMMA SchedAcquireKeeps ==
  ASSUME IInv, NEW c \in CPU, SchedAcquire(c)
  PROVE  IInv'
<1> USE DEF slotVars, cpuVars, threadVars, Goto, At, SchedAcquire
<1>0. 1 \in 1..(NPROC + 1)
  BY SizeAssumption
<1>1. TypeOK'
  BY <1>0, Zenon DEF IInv, TypeOK
<1>2. LockHandoff'
  BY DEF IInv, LockHandoff, InCritical, TypeOK, CpuInv, ThreadInv, OnCPU, CPU, Slot, Preemptible
<1>3. CpuInv'
  BY DEF IInv, CpuInv, TypeOK, ThreadInv, OnCPU, LockHandoff, InCritical, Slot
<1>4. ThreadInv'
  BY DEF IInv, ThreadInv, OnCPU, TypeOK, CpuInv, LockHandoff, InCritical, CPU, Slot, Preemptible
<1>5. ForkInv'
  BY Zenon DEF IInv, ForkInv, Where, TypeOK, ThreadInv, OnCPU
<1>6. StackInv'
  BY Zenon DEF IInv, StackInv, TypeOK
<1>7. ParentInv'
  BY Zenon DEF IInv, ParentInv, Where, TypeOK, ThreadInv, OnCPU
<1>8. NoMissedExit'
  BY DEF IInv, NoMissedExit, Children, Zombies, TypeOK, ThreadInv, OnCPU
<1> QED BY <1>1, <1>2, <1>3, <1>4, <1>5, <1>6, <1>7, <1>8, Zenon DEF IInv

\* The process picked was off every CPU, so the lock passes to its thread.
LEMMA SchedPickKeeps ==
  ASSUME IInv, NEW c \in CPU, SchedPick(c)
  PROVE  IInv'
<1> USE DEF slotVars, cpuVars, threadVars
<1>a. spc[c] = "scan" /\ lock = c /\ cproc[c] = 0 /\ spc' = [spc EXCEPT ![c] = "run"]
      /\ UNCHANGED <<lock, pid, parent, chan, killed, kstack, nextpid, threadVars>>
  BY Zenon DEF IInv, SchedPick, LockHandoff, InCritical, CpuInv
<1>b. PICK q \in Slot : /\ state[q] = "RUNNABLE" /\ cproc' = [cproc EXCEPT ![c] = q]
                        /\ state' = [state EXCEPT ![q] = "RUNNING"]
                        /\ scan' = [scan EXCEPT ![c] = q]
  BY Zenon DEF SchedPick, Ahead, First
<1>c. ~OnCPU(q) /\ pc[q] \in {"forkret", "resume"} /\ q # 0 /\ q \in 1..(NPROC + 1)
  <2>1. \A d \in CPU : lock = d => d = c
    BY <1>a, Zenon
  <2>2. ASSUME NEW d \in CPU, cproc[d] = q PROVE FALSE
    BY <1>a, <1>b, <2>1, <2>2
       DEF IInv, ThreadInv, OnCPU, CpuInv, LockHandoff, InCritical, Slot
  <2> QED BY <1>b, <2>2, SizeAssumption DEF IInv, ThreadInv, OnCPU, Slot
<1>1. TypeOK'
  BY <1>a, <1>b, <1>c, Zenon DEF IInv, TypeOK, Label, ProcState, Preemptible
<1>2. LockHandoff'
  BY <1>a, <1>b, <1>c
     DEF IInv, LockHandoff, InCritical, TypeOK, CpuInv, ThreadInv, OnCPU, CPU, Slot,
         Preemptible
<1>3. CpuInv'
  BY <1>a, <1>b, <1>c
     DEF IInv, CpuInv, TypeOK, ThreadInv, OnCPU, LockHandoff, InCritical, Slot
<1>4. ThreadInv'
  BY <1>a, <1>b, <1>c
     DEF IInv, ThreadInv, OnCPU, TypeOK, CpuInv, LockHandoff, InCritical, CPU, Slot,
         Preemptible
<1>5. ForkInv'
  BY <1>a, <1>b, <1>c DEF IInv, ForkInv, Where, TypeOK, ThreadInv, OnCPU
<1>6. StackInv'
  BY <1>a, <1>b, <1>c, Zenon DEF IInv, StackInv, TypeOK
<1>7. ParentInv'
  BY <1>a, <1>b, <1>c DEF IInv, ParentInv, Where, TypeOK, ThreadInv, OnCPU
<1>8. NoMissedExit'
  BY <1>a, <1>b, <1>c DEF IInv, NoMissedExit, Children, Zombies, TypeOK, ThreadInv, OnCPU
<1> QED BY <1>1, <1>2, <1>3, <1>4, <1>5, <1>6, <1>7, <1>8, Zenon DEF IInv

\* The scheduler releases the lock it holds.
LEMMA SchedReleaseKeeps ==
  ASSUME IInv, NEW c \in CPU, SchedRelease(c)
  PROVE  IInv'
<1> USE DEF slotVars, cpuVars, threadVars, Goto, At, SchedRelease
<1>0. 1 \in 1..(NPROC + 1)
  BY SizeAssumption
<1>1. TypeOK'
  BY <1>0, Zenon DEF IInv, TypeOK
<1>2. LockHandoff'
  BY DEF IInv, LockHandoff, InCritical, TypeOK, CpuInv, ThreadInv, OnCPU, CPU, Slot, Preemptible
<1>3. CpuInv'
  BY DEF IInv, CpuInv, TypeOK, ThreadInv, OnCPU, LockHandoff, InCritical, Slot
<1>4. ThreadInv'
  BY DEF IInv, ThreadInv, OnCPU, TypeOK, CpuInv, LockHandoff, InCritical, CPU, Slot, Preemptible
<1>5. ForkInv'
  BY Zenon DEF IInv, ForkInv, Where, TypeOK, ThreadInv, OnCPU
<1>6. StackInv'
  BY Zenon DEF IInv, StackInv, TypeOK
<1>7. ParentInv'
  BY Zenon DEF IInv, ParentInv, Where, TypeOK, ThreadInv, OnCPU
<1>8. NoMissedExit'
  BY DEF IInv, NoMissedExit, Children, Zombies, TypeOK, ThreadInv, OnCPU
<1> QED BY <1>1, <1>2, <1>3, <1>4, <1>5, <1>6, <1>7, <1>8, Zenon DEF IInv

\* sched() leaves the lock to the scheduler of the same CPU.
LEMMA SchedKeeps ==
  ASSUME IInv, NEW c \in CPU, NEW p \in Slot, Sched(c, p)
  PROVE  IInv'
<1> USE DEF slotVars, cpuVars, threadVars, Goto, At, Sched
<1>0. p = scan[c] /\ p + 1 \in 1..(NPROC + 1)
  BY SizeAssumption DEF IInv, CpuInv, Slot
<1>1. TypeOK'
  BY <1>0, Zenon DEF IInv, TypeOK, Label, Preemptible
<1>2. LockHandoff'
  BY DEF IInv, LockHandoff, InCritical, TypeOK, CpuInv, ThreadInv, OnCPU, CPU, Slot, Preemptible
<1>3. CpuInv'
  BY DEF IInv, CpuInv, TypeOK, ThreadInv, OnCPU, LockHandoff, InCritical, Slot
<1>4. ThreadInv'
  BY DEF IInv, ThreadInv, OnCPU, TypeOK, CpuInv, LockHandoff, InCritical, CPU, Slot, Preemptible
<1>5. ForkInv'
  BY DEF IInv, ForkInv, Where, TypeOK, ThreadInv, OnCPU
<1>6. StackInv'
  BY Zenon DEF IInv, StackInv, TypeOK
<1>7. ParentInv'
  BY DEF IInv, ParentInv, Where, TypeOK, ThreadInv, OnCPU
<1>8. NoMissedExit'
  BY DEF IInv, NoMissedExit, Children, Zombies, TypeOK, ThreadInv, OnCPU
<1> QED BY <1>1, <1>2, <1>3, <1>4, <1>5, <1>6, <1>7, <1>8, Zenon DEF IInv

\* A thread that sched() returns to releases the lock or goes on with it.
LEMMA ResumeKeeps ==
  ASSUME IInv, NEW c \in CPU, NEW p \in Slot, Resume(c, p)
  PROVE  IInv'
<1> USE DEF slotVars, cpuVars, threadVars, Goto, At, Resume
<1>1. TypeOK'
  BY Zenon DEF IInv, TypeOK, Label, ProcState, Preemptible
<1>2. LockHandoff'
  BY DEF IInv, LockHandoff, InCritical, TypeOK, CpuInv, ThreadInv, OnCPU, CPU, Slot, Preemptible
<1>3. CpuInv'
  BY DEF IInv, CpuInv, TypeOK, ThreadInv, OnCPU, LockHandoff, InCritical, Slot
<1>4. ThreadInv'
  BY DEF IInv, ThreadInv, OnCPU, TypeOK, CpuInv, LockHandoff, InCritical, CPU, Slot, Preemptible
<1>5. ForkInv'
  BY DEF IInv, ForkInv, Where, TypeOK, ThreadInv, OnCPU
<1>6. StackInv'
  BY Zenon DEF IInv, StackInv, TypeOK
<1>7. ParentInv'
  BY DEF IInv, ParentInv, Where, TypeOK, ThreadInv, OnCPU
<1>8. NoMissedExit'
  BY DEF IInv, NoMissedExit, Children, Zombies, TypeOK, ThreadInv, OnCPU
<1> QED BY <1>1, <1>2, <1>3, <1>4, <1>5, <1>6, <1>7, <1>8, Zenon DEF IInv

\* forkret() releases the lock it inherited.
LEMMA ForkRetKeeps ==
  ASSUME IInv, NEW c \in CPU, NEW p \in Slot, ForkRet(c, p)
  PROVE  IInv'
<1> USE DEF slotVars, cpuVars, threadVars, Goto, At, ForkRet
<1>1. TypeOK'
  BY Zenon DEF IInv, TypeOK, Label, ProcState, Preemptible
<1>2. LockHandoff'
  BY DEF IInv, LockHandoff, InCritical, TypeOK, CpuInv, ThreadInv, OnCPU, CPU, Slot, Preemptible
<1>3. CpuInv'
  BY DEF IInv, CpuInv, TypeOK, ThreadInv, OnCPU, LockHandoff, InCritical, Slot
<1>4. ThreadInv'
  BY DEF IInv, ThreadInv, OnCPU, TypeOK, CpuInv, LockHandoff, InCritical, CPU, Slot, Preemptible
<1>5. ForkInv'
  BY DEF IInv, ForkInv, Where, TypeOK, ThreadInv, OnCPU
<1>6. StackInv'
  BY Zenon DEF IInv, StackInv, TypeOK
<1>7. ParentInv'
  BY DEF IInv, ParentInv, Where, TypeOK, ThreadInv, OnCPU
<1>8. NoMissedExit'
  BY DEF IInv, NoMissedExit, Children, Zombies, TypeOK, ThreadInv, OnCPU
<1> QED BY <1>1, <1>2, <1>3, <1>4, <1>5, <1>6, <1>7, <1>8, Zenon DEF IInv

\* Only a RUNNING process marks itself killed.
LEMMA FaultKeeps ==
  ASSUME IInv, NEW c \in CPU, NEW p \in Slot, Fault(c, p)
  PROVE  IInv'
<1> USE DEF slotVars, cpuVars, threadVars, Goto, At, Fault
<1>1. TypeOK'
  BY Zenon DEF IInv, TypeOK, Label, ProcState, Preemptible
<1>2. LockHandoff'
  BY DEF IInv, LockHandoff, InCritical, TypeOK, CpuInv, ThreadInv, OnCPU, CPU, Slot, Preemptible
<1>3. CpuInv'
  BY DEF IInv, CpuInv, TypeOK, ThreadInv, OnCPU, LockHandoff, InCritical, Slot
<1>4. ThreadInv'
  BY DEF IInv, ThreadInv, OnCPU, TypeOK, CpuInv, LockHandoff, InCritical, CPU, Slot, Preemptible
<1>5. ForkInv'
  BY DEF IInv, ForkInv, Where, TypeOK, ThreadInv, OnCPU
<1>6. StackInv'
  BY Zenon DEF IInv, StackInv, TypeOK
<1>7. ParentInv'
  BY DEF IInv, ParentInv, Where, TypeOK, ThreadInv, OnCPU
<1>8. NoMissedExit'
  BY DEF IInv, NoMissedExit, Children, Zombies, TypeOK, ThreadInv, OnCPU
<1> QED BY <1>1, <1>2, <1>3, <1>4, <1>5, <1>6, <1>7, <1>8, Zenon DEF IInv

\* yield() and sleep() on another subsystem's channel.
LEMMA BlockKeeps ==
  ASSUME IInv, NEW c \in CPU, NEW p \in Slot, NEW st \in {"RUNNABLE", "SLEEPING"},
         NEW ch \in Slot \cup {0} \cup Chan, st = "SLEEPING" => ch \in Chan,
         NEW m \in Preemptible, At(c, p, m), NEW l \in Preemptible,
         Block(c, p, st, ch, l), l \in ForkLabel \/ m \in ForkLabel => l = m
  PROVE  IInv'
<1> USE DEF slotVars, cpuVars, threadVars, Goto, At, Block
<1>0. state[p] = "RUNNING" /\ pc[p] = m /\ OnCPU(p)
  BY Current, ZenonT(40) DEF Preemptible
<1>w. Where(p) = m /\ Where(p)' = l /\ \A r \in Slot : r # p => Where(r)' = Where(r)
  BY <1>0, Zenon DEF Where, IInv, TypeOK, Preemptible
<1>1. TypeOK'
  BY Zenon DEF IInv, TypeOK, Label, ProcState, Preemptible
<1>2. LockHandoff'
  BY DEF IInv, LockHandoff, InCritical, TypeOK, CpuInv, ThreadInv, OnCPU, CPU, Slot, Preemptible
<1>3. CpuInv'
  BY DEF IInv, CpuInv, TypeOK, ThreadInv, OnCPU, LockHandoff, InCritical, Slot
<1>4. ThreadInv'
  BY DEF IInv, ThreadInv, OnCPU, TypeOK, CpuInv, LockHandoff, InCritical, CPU, Slot, Preemptible
<1>5. ForkInv'
  BY <1>0, <1>w DEF IInv, ForkInv, TypeOK, ForkLabel
<1>6. StackInv'
  BY <1>0, Zenon DEF IInv, StackInv, TypeOK
<1>7. ParentInv'
  BY <1>0, <1>w DEF IInv, ParentInv, TypeOK, ForkLabel
<1>8. NoMissedExit'
  BY <1>0, ChanAssumption DEF IInv, NoMissedExit, Children, Zombies, TypeOK, Slot
<1> QED BY <1>1, <1>2, <1>3, <1>4, <1>5, <1>6, <1>7, <1>8, Zenon DEF IInv

\* wakeup() only makes sleepers RUNNABLE.
LEMMA WakeupKeeps ==
  ASSUME IInv, NEW ch \in Chan, Wakeup(ch)
  PROVE  IInv'
<1> USE DEF slotVars, cpuVars, threadVars, Goto, At, Wakeup, Wake
<1>1. TypeOK'
  BY Zenon DEF IInv, TypeOK, Label, ProcState, Preemptible
<1>2. LockHandoff'
  BY Zenon DEF IInv, LockHandoff, InCritical, TypeOK, CpuInv, ThreadInv, OnCPU, CPU, Slot, Preemptible
<1>3. CpuInv'
  BY DEF IInv, CpuInv, TypeOK, ThreadInv, OnCPU, LockHandoff, InCritical, Slot
<1>4. ThreadInv'
  BY DEF IInv, ThreadInv, OnCPU, TypeOK, CpuInv, LockHandoff, InCritical, CPU, Slot, Preemptible
<1>5. ForkInv'
  BY DEF IInv, ForkInv, Where, TypeOK, ThreadInv, OnCPU
<1>6. StackInv'
  BY Zenon DEF IInv, StackInv, TypeOK
<1>7. ParentInv'
  <2> state' = [q \in Slot |-> IF state[q] = "SLEEPING" /\ chan[q] = ch THEN "RUNNABLE" ELSE state[q]]
    BY Zenon
  <2>1. \A q \in Slot : state'[q] = state[q] \/ (state[q] = "SLEEPING" /\ state'[q] = "RUNNABLE")
    BY Zenon
  <2>2. InitProc \in Slot
    BY SizeAssumption DEF Slot, InitProc
  <2> QED BY <2>1, <2>2 DEF IInv, ParentInv, Where, TypeOK
<1>8. NoMissedExit'
  BY DEF IInv, NoMissedExit, Children, Zombies, TypeOK, ThreadInv, OnCPU
<1> QED BY <1>1, <1>2, <1>3, <1>4, <1>5, <1>6, <1>7, <1>8, Zenon DEF IInv

\* A new EMBRYO slot was nobody's.
LEMMA AllocProcKeeps ==
  ASSUME IInv, NEW c \in CPU, NEW p \in Slot, AllocProc(c, p)
  PROVE  IInv'
<1> USE DEF slotVars, cpuVars, threadVars, Goto, At
<1>a. state[p] = "RUNNING" /\ pc[p] = "sys" /\ lock = 0 /\ np[p] = 0
  BY Current DEF AllocProc, IInv, ForkInv, Where
<1>b. PICK q \in Slot : /\ state[q] = "UNUSED" /\ state' = [state EXCEPT ![q] = "EMBRYO"]
                        /\ pid' = [pid EXCEPT ![q] = nextpid] /\ np' = [np EXCEPT ![p] = q]
  BY Zenon DEF AllocProc, First
<1>c. nextpid' = nextpid + 1 /\ pc' = [pc EXCEPT ![p] = "kalloc"]
      /\ UNCHANGED <<lock, parent, chan, killed, kstack, cpuVars, ret>>
  BY Zenon DEF AllocProc
<1>d. q # p /\ q # 0 /\ parent[q] = 0 /\ \A r \in Slot : parent[r] # q /\ np[r] # q
  BY <1>a, <1>b DEF IInv, ParentInv, ForkInv, Slot
<1>1. TypeOK'
  BY <1>a, <1>b, <1>c, <1>d DEF IInv, TypeOK, Label, ProcState, Preemptible
<1>2. LockHandoff'
  BY <1>a, <1>b, <1>c, <1>d
     DEF IInv, LockHandoff, InCritical, TypeOK, CpuInv, ThreadInv, OnCPU, CPU, Slot,
         Preemptible
<1>3. CpuInv'
  BY <1>a, <1>b, <1>c, <1>d
     DEF IInv, CpuInv, TypeOK, ThreadInv, OnCPU, LockHandoff, InCritical, Slot
<1>4. ThreadInv'
  BY <1>a, <1>b, <1>c, <1>d
     DEF IInv, ThreadInv, OnCPU, TypeOK, CpuInv, LockHandoff, InCritical, CPU, Slot,
         Preemptible
<1>5. ForkInv'
  BY <1>a, <1>b, <1>c, <1>d DEF IInv, ForkInv, Where, TypeOK, ThreadInv, OnCPU
<1>6. StackInv'
  BY <1>a, <1>b, <1>c, <1>d, Zenon DEF IInv, StackInv, TypeOK
<1>7. ParentInv'
  BY <1>a, <1>b, <1>c, <1>d DEF IInv, ParentInv, Where, TypeOK, ThreadInv, OnCPU
<1>8. NoMissedExit'
  BY <1>a, <1>b, <1>c, <1>d
     DEF IInv, NoMissedExit, Children, Zombies, TypeOK, ThreadInv, OnCPU
<1> QED BY <1>1, <1>2, <1>3, <1>4, <1>5, <1>6, <1>7, <1>8, Zenon DEF IInv

\* A failing fork() returns a slot that nothing refers to.
LEMMA ForkFailKeeps ==
  ASSUME IInv, NEW c \in CPU, NEW p \in Slot,
         NEW l \in {"kalloc", "copyuvm"}, At(c, p, l), ForkFail(p)
  PROVE  IInv'
<1> USE DEF slotVars, cpuVars, threadVars, Goto, At, ForkFail
<1>a. state[p] = "RUNNING" /\ OnCPU(p) /\ pc[p] = Where(p) /\ Where(p) \in ForkLabel
  BY Current, ZenonT(40) DEF Where, ForkLabel
<1> DEFINE q == np[p]
<1>b. /\ q \in Slot /\ state[q] = "EMBRYO" /\ ~OnCPU(q) /\ pc[q] = "none" /\ q # p /\ q # InitProc
      /\ \A r \in Slot : parent[r] # q /\ (np[r] = q => r = p)
      /\ np[q] = 0 /\ \A d \in CPU : cproc[d] # q
  BY <1>a, ForkOwner, Zenon
<1>c. parent[q] = 0
  BY <1>a, <1>b DEF IInv, ParentInv, TypeOK
<1> HIDE DEF q
<1>d. state' = [state EXCEPT ![q] = "UNUSED"] /\ kstack' = [kstack EXCEPT ![q] = FALSE]
  BY Zenon DEF q
<1>1. TypeOK'
  BY <1>a, <1>b, <1>c, <1>d, Zenon DEF IInv, TypeOK, Label, ProcState, Preemptible
<1>2. LockHandoff'
  BY <1>a, <1>b, <1>c, <1>d
     DEF IInv, LockHandoff, InCritical, TypeOK, CpuInv, ThreadInv, OnCPU, CPU, Slot,
         Preemptible
<1>3. CpuInv'
  BY <1>a, <1>b, <1>c, <1>d
     DEF IInv, CpuInv, TypeOK, ThreadInv, OnCPU, LockHandoff, InCritical, Slot
<1>4. ThreadInv'
  BY <1>a, <1>b, <1>c, <1>d
     DEF IInv, ThreadInv, OnCPU, TypeOK, CpuInv, LockHandoff, InCritical, CPU, Slot,
         Preemptible
<1>5. ForkInv'
  BY <1>a, <1>b, <1>c, <1>d DEF IInv, ForkInv, Where, TypeOK, q, ForkLabel
<1>6. StackInv'
  BY <1>a, <1>b, <1>c, <1>d, Zenon DEF IInv, StackInv, TypeOK
<1>7. ParentInv'
  BY <1>a, <1>b, <1>c, <1>d DEF IInv, ParentInv, Where, TypeOK, ThreadInv, OnCPU
<1>8. NoMissedExit'
  BY <1>a, <1>b, <1>c, <1>d
     DEF IInv, NoMissedExit, Children, Zombies, TypeOK, ThreadInv, OnCPU
<1> QED BY <1>1, <1>2, <1>3, <1>4, <1>5, <1>6, <1>7, <1>8, Zenon DEF IInv

\* The new kernel stack belongs to the EMBRYO slot.
LEMMA AllocStackKeeps ==
  ASSUME IInv, NEW c \in CPU, NEW p \in Slot, At(c, p, "kalloc"),
         kstack' = [kstack EXCEPT ![np[p]] = TRUE], Goto(p, "copyuvm"),
         UNCHANGED <<lock, state, pid, parent, chan, killed, nextpid, cpuVars, ret, np>>
  PROVE  IInv'
<1> USE DEF slotVars, cpuVars, threadVars, Goto, At
<1>a. state[p] = "RUNNING" /\ OnCPU(p) /\ pc[p] = Where(p) /\ Where(p) \in ForkLabel
  BY Current, ZenonT(30) DEF Where, ForkLabel
<1> DEFINE q == np[p]
<1>b. /\ q \in Slot /\ state[q] = "EMBRYO" /\ ~OnCPU(q) /\ pc[q] = "none" /\ q # p /\ q # InitProc
      /\ \A r \in Slot : parent[r] # q /\ (np[r] = q => r = p)
      /\ np[q] = 0 /\ \A d \in CPU : cproc[d] # q
  BY <1>a, ForkOwner, Zenon
<1>1. TypeOK'
  BY <1>a, <1>b, Zenon DEF IInv, TypeOK, Label, ProcState, Preemptible
<1>2. LockHandoff'
  BY <1>a, <1>b
     DEF IInv, LockHandoff, InCritical, TypeOK, CpuInv, ThreadInv, OnCPU, CPU, Slot,
         Preemptible
<1>3. CpuInv'
  BY <1>a, <1>b DEF IInv, CpuInv, TypeOK, ThreadInv, OnCPU, LockHandoff, InCritical, Slot
<1>4. ThreadInv'
  BY <1>a, <1>b
     DEF IInv, ThreadInv, OnCPU, TypeOK, CpuInv, LockHandoff, InCritical, CPU, Slot,
         Preemptible
<1>5. ForkInv'
  BY <1>a, <1>b DEF IInv, ForkInv, Where, TypeOK, ForkLabel
<1>6. StackInv'
  BY <1>a, <1>b, Zenon DEF IInv, StackInv, TypeOK
<1>7. ParentInv'
  BY <1>a, <1>b DEF IInv, ParentInv, Where, TypeOK, ThreadInv, OnCPU
<1>8. NoMissedExit'
  BY <1>a, <1>b DEF IInv, NoMissedExit, Children, Zombies, TypeOK, ThreadInv, OnCPU
<1> QED BY <1>1, <1>2, <1>3, <1>4, <1>5, <1>6, <1>7, <1>8, Zenon DEF IInv

\* np->parent is written without the lock, but only fork() looks at np yet.
LEMMA CopyProcKeeps ==
  ASSUME IInv, NEW c \in CPU, NEW p \in Slot, At(c, p, "copyuvm"),
         parent' = [parent EXCEPT ![np[p]] = p], Goto(p, "runchild"),
         UNCHANGED <<lock, state, pid, chan, killed, kstack, nextpid, cpuVars, ret, np>>
  PROVE  IInv'
<1> USE DEF slotVars, cpuVars, threadVars, Goto, At
<1>a. state[p] = "RUNNING" /\ OnCPU(p) /\ pc[p] = Where(p) /\ Where(p) \in ForkLabel
  BY Current, ZenonT(40) DEF Where, ForkLabel
<1> DEFINE q == np[p]
<1>b. /\ q \in Slot /\ state[q] = "EMBRYO" /\ ~OnCPU(q) /\ pc[q] = "none" /\ q # p /\ q # InitProc
      /\ \A r \in Slot : parent[r] # q /\ (np[r] = q => r = p)
      /\ np[q] = 0 /\ \A d \in CPU : cproc[d] # q
  BY <1>a, ForkOwner, Zenon
<1>c. parent[q] = 0
  BY <1>a, <1>b DEF IInv, ParentInv, TypeOK
<1>1. TypeOK'
  BY <1>a, <1>b, <1>c, Zenon DEF IInv, TypeOK, Label, ProcState, Preemptible
<1>2. LockHandoff'
  BY <1>a, <1>b, <1>c
     DEF IInv, LockHandoff, InCritical, TypeOK, CpuInv, ThreadInv, OnCPU, CPU, Slot,
         Preemptible
<1>3. CpuInv'
  BY <1>a, <1>b, <1>c
     DEF IInv, CpuInv, TypeOK, ThreadInv, OnCPU, LockHandoff, InCritical, Slot
<1>4. ThreadInv'
  BY <1>a, <1>b, <1>c
     DEF IInv, ThreadInv, OnCPU, TypeOK, CpuInv, LockHandoff, InCritical, CPU, Slot,
         Preemptible
<1>5. ForkInv'
  BY <1>a, <1>b DEF IInv, ForkInv, Where, TypeOK, ForkLabel
<1>6. StackInv'
  BY <1>a, <1>b, <1>c, Zenon DEF IInv, StackInv, TypeOK
<1>7. ParentInv'
  BY <1>a, <1>b, <1>c DEF IInv, ParentInv, Where, TypeOK, ThreadInv, OnCPU
<1>8. NoMissedExit'
  <2>1. ASSUME NEW r \in Slot, r # p
        PROVE  Children(r)' = Children(r) /\ Zombies(r)' = Zombies(r)
    BY <1>a, <1>b, <1>c, <2>1 DEF Children, Zombies, IInv, TypeOK, Slot
  <2> QED BY <1>a, <2>1, Zenon DEF IInv, NoMissedExit
<1> QED BY <1>1, <1>2, <1>3, <1>4, <1>5, <1>6, <1>7, <1>8, Zenon DEF IInv

-----------------------------------------------------------------------------
\* The child is complete when it becomes RUNNABLE.
LEMMA RunChildKeeps ==
  ASSUME IInv, NEW c \in CPU, NEW p \in Slot, RunChild(c, p)
  PROVE  IInv'
<1> USE DEF slotVars, cpuVars, threadVars, Goto, At, RunChild
<1>a. state[p] = "RUNNING" /\ OnCPU(p) /\ pc[p] = Where(p) /\ Where(p) \in ForkLabel
  BY Current, ZenonT(40) DEF Where, ForkLabel
<1> DEFINE q == np[p]
<1>b. /\ q \in Slot /\ state[q] = "EMBRYO" /\ ~OnCPU(q) /\ pc[q] = "none" /\ q # p /\ q # InitProc
      /\ \A r \in Slot : parent[r] # q /\ (np[r] = q => r = p)
      /\ np[q] = 0 /\ \A d \in CPU : cproc[d] # q
  BY <1>a, ForkOwner, ZenonT(30)
<1>c. kstack[q] /\ parent[q] = p
  BY <1>a, ZenonT(40) DEF IInv, ForkInv
<1>1. TypeOK'
  BY <1>a, <1>b, <1>c, Zenon DEF IInv, TypeOK, Label, ProcState, Preemptible
<1>2. LockHandoff'
  BY <1>a, <1>b, <1>c
     DEF IInv, LockHandoff, InCritical, TypeOK, CpuInv, ThreadInv, OnCPU, CPU, Slot,
         Preemptible
<1>3. CpuInv'
  BY <1>a, <1>b, <1>c
     DEF IInv, CpuInv, TypeOK, ThreadInv, OnCPU, LockHandoff, InCritical, Slot
<1>4. ThreadInv'
  BY <1>a, <1>b, <1>c
     DEF IInv, ThreadInv, OnCPU, TypeOK, CpuInv, LockHandoff, InCritical, CPU, Slot,
         Preemptible
<1>5. ForkInv'
  BY <1>a, <1>b, <1>c DEF IInv, ForkInv, Where, TypeOK, ForkLabel
<1>6. StackInv'
  BY <1>a, <1>b, <1>c, ZenonT(30) DEF IInv, StackInv, TypeOK
<1>7. ParentInv'
  <2>1. /\ \A r \in Slot \ {p, q} : Where(r)' = Where(r) /\ np'[r] = np[r]
        /\ \A r \in Slot \ {q} : state'[r] = state[r]
        /\ state'[q] = "RUNNABLE"
    BY <1>a, <1>b, ZenonT(40) DEF Where, IInv, TypeOK
  <2>2. ASSUME NEW r \in Slot, state'[r] = "EMBRYO", parent[r] # 0
        PROVE  parent[r] # p /\ parent[r] # q
    BY <1>b, <2>1, <2>2 DEF IInv, ParentInv
  <2>3. InitProc \in Slot
    BY SizeAssumption DEF InitProc, Slot
  <2>4. ASSUME NEW r \in Slot, parent[r] # 0
        PROVE  state'[parent[r]] \in {"SLEEPING", "RUNNABLE", "RUNNING"}
    BY <1>b, <2>1, <2>4 DEF IInv, ParentInv, TypeOK
  <2>5. ASSUME NEW r \in Slot, state'[r] = "EMBRYO", parent[r] # 0
        PROVE  np'[parent[r]] = r /\ Where(parent[r])' = "runchild"
    BY <1>b, <2>1, <2>2, <2>5 DEF IInv, ParentInv, TypeOK
  <2>6. p # 0
    BY DEF Slot
  <2> QED BY <1>b, <1>c, <2>1, <2>3, <2>4, <2>5, <2>6 DEF IInv, ParentInv
<1>8. NoMissedExit'
  BY <1>a, <1>b, <1>c DEF IInv, NoMissedExit, Children, Zombies, TypeOK, ThreadInv, OnCPU
<1> QED BY <1>1, <1>2, <1>3, <1>4, <1>5, <1>6, <1>7, <1>8, Zenon DEF IInv

\* What the two calls of wakeup1() in exit() do to the states of other processes.
LEMMA ExitStates ==
  ASSUME IInv, NEW c \in CPU, NEW p \in Slot, Exit(c, p)
  PROVE  /\ state' \in [Slot -> ProcState] /\ state'[p] = "ZOMBIE"
         /\ \A q \in Slot \ {p} :
           state'[q] = state[q] \/ (state[q] = "SLEEPING" /\ state'[q] = "RUNNABLE")
         /\ \A q \in Slot : chan[q] = parent[p] => state'[q] # "SLEEPING"
         /\ Zombies(p) # {} => \A q \in Slot : chan[q] = InitProc => state'[q] # "SLEEPING"
<1> DEFINE woken == Wake(state, parent[p])
           st == IF Zombies(p) # {} THEN Wake(woken, InitProc) ELSE woken
<1>1. state' = [st EXCEPT ![p] = "ZOMBIE"]
  BY Zenon DEF Exit, Zombies, Children
<1>2. /\ woken \in [Slot -> ProcState]
      /\ \A q \in Slot :
           woken[q] = IF state[q] = "SLEEPING" /\ chan[q] = parent[p] THEN "RUNNABLE" ELSE state[q]
  BY Zenon DEF Wake, IInv, TypeOK, ProcState
<1> HIDE DEF woken
<1>3. /\ Wake(woken, InitProc) \in [Slot -> ProcState]
      /\ \A q \in Slot : Wake(woken, InitProc)[q] =
           IF woken[q] = "SLEEPING" /\ chan[q] = InitProc THEN "RUNNABLE" ELSE woken[q]
  BY <1>2, Zenon DEF Wake, ProcState
<1> QED BY <1>1, <1>2, <1>3, Zenon DEF ProcState

\* exit(): children go to init, and whoever waits is woken.
LEMMA ExitKeeps ==
  ASSUME IInv, NEW c \in CPU, NEW p \in Slot, Exit(c, p)
  PROVE  IInv'
<1> USE DEF At, Goto, cpuVars
<1>a. /\ state[p] = "RUNNING" /\ OnCPU(p) /\ pc[p] = "exiting" /\ p # InitProc /\ lock = 0 /\ spc[c] = "run"
      /\ \A d \in CPU : cproc[d] = p <=> d = c
  <2>1. /\ spc[c] = "run" /\ cproc[c] = p /\ pc[p] = "exiting"
        /\ p # InitProc /\ lock = 0
    BY Zenon DEF Exit
  <2> QED BY <2>1, Current
<1>e. np[p] = 0 /\ Where(p) = "exiting"
  BY <1>a, Zenon DEF IInv, ForkInv, Where
<1>b. /\ lock' = c /\ pc' = [pc EXCEPT ![p] = "sched"]
      /\ parent' = [q \in Slot |-> IF parent[q] = p THEN InitProc ELSE parent[q]]
      /\ UNCHANGED <<pid, chan, killed, kstack, nextpid, cpuVars, ret, np>>
  BY Zenon DEF Exit
<1>c. /\ state' \in [Slot -> ProcState] /\ state'[p] = "ZOMBIE"
      /\ \A q \in Slot \ {p} :
           state'[q] = state[q] \/ (state[q] = "SLEEPING" /\ state'[q] = "RUNNABLE")
      /\ \A q \in Slot : chan[q] = parent[p] => state'[q] # "SLEEPING"
      /\ Zombies(p) # {} => \A q \in Slot : chan[q] = InitProc => state'[q] # "SLEEPING"
  BY ExitStates, Zenon
<1>d. InitProc \in Slot
  BY SizeAssumption DEF InitProc, Slot
<1>1. TypeOK'
  BY <1>b, <1>c, <1>d, Zenon DEF IInv, TypeOK, Label
<1>2. LockHandoff'
  BY <1>a, <1>b, <1>c, <1>d, <1>e
     DEF IInv, LockHandoff, InCritical, TypeOK, CpuInv, ThreadInv, OnCPU, CPU, Slot,
         Preemptible
<1>3. CpuInv'
  BY <1>a, <1>b, <1>c, <1>d, <1>e
     DEF IInv, CpuInv, TypeOK, ThreadInv, OnCPU, LockHandoff, InCritical, Slot
<1>4. ThreadInv'
  BY <1>a, <1>b, <1>c, <1>d, <1>e
     DEF IInv, ThreadInv, OnCPU, TypeOK, CpuInv, LockHandoff, InCritical, CPU, Slot,
         Preemptible
<1>5. ForkInv'
  BY <1>a, <1>b, <1>c, <1>d, <1>e DEF IInv, ForkInv, Where, TypeOK, ThreadInv, OnCPU
<1>6. StackInv'
  BY <1>a, <1>b, <1>c, <1>d, <1>e, Zenon DEF IInv, StackInv, TypeOK
<1>7. ParentInv'
  <2>1. \A r \in Slot \ {p} : Where(r)' = Where(r)
    BY <1>b, Zenon DEF Where, IInv, TypeOK
  <2>2. ASSUME NEW r \in Slot, state[r] = "EMBRYO" PROVE parent[r] # p
    BY <1>e, <2>2 DEF IInv, ParentInv, Slot
  <2>3. ASSUME NEW r \in Slot PROVE parent'[r] # p /\ (parent'[r] = parent[r] \/ parent'[r] = InitProc)
    BY <1>a, <1>b, Zenon
  <2>4. \A r \in Slot : parent'[r] = 0 <=> parent[r] = 0
    BY <1>a, <1>b, <1>d DEF Slot
  <2> QED BY <1>a, <1>b, <1>c, <1>d, <2>1, <2>2, <2>3, <2>4
          DEF IInv, ParentInv, TypeOK, ProcState
<1>8. NoMissedExit'
  <2> SUFFICES ASSUME NEW r \in Slot, state'[r] = "SLEEPING", chan'[r] = r
              PROVE  Children(r)' # {} /\ Zombies(r)' = {} /\ ~killed'[r]
    BY Zenon DEF NoMissedExit
  <2>1. r # p /\ r # parent[p] /\ (Zombies(p) # {} => r # InitProc) /\ state[r] = "SLEEPING" /\ chan[r] = r
    BY <1>b, <1>c, Zenon
  <2>2. Children(r) # {} /\ Zombies(r) = {} /\ ~killed[r]
    BY <2>1, Zenon DEF IInv, NoMissedExit
  <2>3. Children(r)' # {}
    BY <1>b, <2>1, <2>2, Zenon DEF Children
  <2>4. ASSUME NEW x \in Slot, parent'[x] = r, state'[x] = "ZOMBIE" PROVE FALSE
    <3>1. CASE x = p
      BY <1>b, <2>1, <2>4, <3>1, Zenon DEF IInv, ParentInv
    <3>2. CASE x # p
      BY <1>b, <1>c, <2>1, <2>2, <2>4, <3>2, Zenon DEF Children, Zombies
    <3> QED BY <3>1, <3>2, Zenon
  <2> QED BY <1>b, <2>2, <2>3, <2>4, Zenon DEF Children, Zombies
<1> QED BY <1>1, <1>2, <1>3, <1>4, <1>5, <1>6, <1>7, <1>8, ZenonT(30) DEF IInv

\* wait() takes the free lock.
LEMMA WaitAcquireKeeps ==
  ASSUME IInv, NEW c \in CPU, NEW p \in Slot, WaitAcquire(c, p)
  PROVE  IInv'
<1> USE DEF slotVars, cpuVars, threadVars, Goto, At, WaitAcquire
<1>1. TypeOK'
  BY Zenon DEF IInv, TypeOK, Label, ProcState, Preemptible
<1>2. LockHandoff'
  BY DEF IInv, LockHandoff, InCritical, TypeOK, CpuInv, ThreadInv, OnCPU, CPU, Slot, Preemptible
<1>3. CpuInv'
  BY DEF IInv, CpuInv, TypeOK, ThreadInv, OnCPU, LockHandoff, InCritical, Slot
<1>4. ThreadInv'
  BY DEF IInv, ThreadInv, OnCPU, TypeOK, CpuInv, LockHandoff, InCritical, CPU, Slot, Preemptible
<1>5. ForkInv'
  BY DEF IInv, ForkInv, Where, TypeOK, ThreadInv, OnCPU
<1>6. StackInv'
  BY Zenon DEF IInv, StackInv, TypeOK
<1>7. ParentInv'
  BY DEF IInv, ParentInv, Where, TypeOK, ThreadInv, OnCPU
<1>8. NoMissedExit'
  BY DEF IInv, NoMissedExit, Children, Zombies, TypeOK, ThreadInv, OnCPU
<1> QED BY <1>1, <1>2, <1>3, <1>4, <1>5, <1>6, <1>7, <1>8, Zenon DEF IInv

\* The child freed by wait() is off every CPU and has no children left.
LEMMA WaitReapKeeps ==
  ASSUME IInv, NEW c \in CPU, NEW p \in Slot, WaitReap(c, p)
  PROVE  IInv'
<1> USE DEF At, Goto, cpuVars
<1>0. pc[p] = "wait" /\ spc[c] = "run" /\ cproc[c] = p
  BY Zenon DEF WaitReap
<1>l. lock = c
  BY <1>0, Zenon DEF IInv, LockHandoff, InCritical
<1>a. state[p] = "RUNNING" /\ pc[p] = "wait" /\ lock = c /\ spc[c] = "run" /\ cproc[c] = p
  BY <1>0, <1>l, Current, ZenonT(30)
<1>b. PICK q \in Slot : /\ state[q] = "ZOMBIE" /\ parent[q] = p
                        /\ kstack' = [kstack EXCEPT ![q] = FALSE] /\ pid' = [pid EXCEPT ![q] = 0]
                        /\ parent' = [parent EXCEPT ![q] = 0]
                        /\ killed' = [killed EXCEPT ![q] = FALSE]
                        /\ state' = [state EXCEPT ![q] = "UNUSED"]
  BY Zenon DEF WaitReap, First, Zombies, Children
<1>c. lock' = 0 /\ pc' = [pc EXCEPT ![p] = "sysret"] /\ UNCHANGED <<chan, nextpid, cpuVars, ret, np>>
  BY Zenon DEF WaitReap
<1>d. ~OnCPU(q) /\ q # InitProc /\ \A r \in Slot : parent[r] # q /\ np[r] # q
  <2>1. ASSUME NEW d \in CPU, cproc[d] = q PROVE FALSE
    BY <1>a, <1>b, <2>1 DEF IInv, ThreadInv, OnCPU, CpuInv, LockHandoff, InCritical, Slot
  <2> QED BY <1>b, <2>1 DEF OnCPU, IInv, ParentInv, ForkInv, Slot
<1>1. TypeOK'
  BY <1>a, <1>b, <1>c, <1>d, Zenon DEF IInv, TypeOK, Label, ProcState, Preemptible
<1>2. LockHandoff'
  BY <1>a, <1>b, <1>c, <1>d
     DEF IInv, LockHandoff, InCritical, TypeOK, CpuInv, ThreadInv, OnCPU, CPU, Slot,
         Preemptible
<1>3. CpuInv'
  BY <1>a, <1>b, <1>c, <1>d
     DEF IInv, CpuInv, TypeOK, ThreadInv, OnCPU, LockHandoff, InCritical, Slot
<1>4. ThreadInv'
  BY <1>a, <1>b, <1>c, <1>d
     DEF IInv, ThreadInv, OnCPU, TypeOK, CpuInv, LockHandoff, InCritical, CPU, Slot,
         Preemptible
<1>5. ForkInv'
  BY <1>a, <1>b, <1>c, <1>d DEF IInv, ForkInv, Where, TypeOK, ThreadInv, OnCPU
<1>6. StackInv'
  BY <1>a, <1>b, <1>c, <1>d, Zenon DEF IInv, StackInv, TypeOK
<1>7. ParentInv'
  BY <1>a, <1>b, <1>c, <1>d DEF IInv, ParentInv, Where, TypeOK, Slot
<1>8. NoMissedExit'
  BY <1>a, <1>b, <1>c, <1>d
     DEF IInv, NoMissedExit, Children, Zombies, TypeOK, ThreadInv, OnCPU
<1> QED BY <1>1, <1>2, <1>3, <1>4, <1>5, <1>6, <1>7, <1>8, Zenon DEF IInv

\* wait() returns -1, or sleeps while it has children and none has exited.
LEMMA WaitNoneKeeps ==
  ASSUME IInv, NEW c \in CPU, NEW p \in Slot, WaitNone(c, p)
  PROVE  IInv'
<1> USE DEF At, Goto, cpuVars, slotVars
<1>a. state[p] = "RUNNING" /\ pc[p] = "wait" /\ lock = c /\ spc[c] = "run" /\ cproc[c] = p
      /\ Zombies(p) = {} /\ p \in Slot \cup {0} \cup Chan /\ np[p] = 0
  BY Current DEF WaitNone, IInv, LockHandoff, InCritical, ForkInv, Where
<1>b. CASE Children(p) = {} \/ killed[p]
  <2>0. lock' = 0 /\ pc' = [pc EXCEPT ![p] = "sysret"] /\ UNCHANGED <<slotVars, cpuVars, ret, np>>
    BY <1>b, Zenon DEF WaitNone
  <2>1. TypeOK'
    BY <1>a, <2>0, Zenon DEF IInv, TypeOK, Label, ProcState, Preemptible
  <2>2. LockHandoff'
    BY <1>a, <2>0 DEF IInv, LockHandoff, InCritical, TypeOK, CpuInv, CPU, Slot
  <2>3. CpuInv'
    BY <1>a, <2>0, Zenon DEF IInv, CpuInv
  <2>4. ThreadInv'
    BY <1>a, <2>0 DEF IInv, ThreadInv, OnCPU, TypeOK, CpuInv
  <2>5. ForkInv'
    BY <1>a, <2>0 DEF IInv, ForkInv, Where, TypeOK
  <2>6. StackInv'
    BY <1>a, <2>0, Zenon DEF IInv, StackInv, TypeOK
  <2>7. ParentInv'
    BY <1>a, <2>0 DEF IInv, ParentInv, Where, TypeOK
  <2>8. NoMissedExit'
    BY <1>a, <2>0 DEF IInv, NoMissedExit, Children, Zombies, TypeOK
  <2> QED BY <2>1, <2>2, <2>3, <2>4, <2>5, <2>6, <2>7, <2>8, Zenon DEF IInv
<1>c. CASE ~(Children(p) = {} \/ killed[p])
  <2>0. /\ state' = [state EXCEPT ![p] = "SLEEPING"] /\ chan' = [chan EXCEPT ![p] = p]
        /\ pc' = [pc EXCEPT ![p] = "sched"] /\ ret' = [ret EXCEPT ![p] = "wait"]
        /\ UNCHANGED <<lock, pid, parent, killed, kstack, nextpid, cpuVars, np>>
    BY <1>c, Zenon DEF WaitNone
  <2>1. TypeOK'
    BY <1>a, <1>c, <2>0, Zenon DEF IInv, TypeOK, Label, ProcState, Preemptible
  <2>2. LockHandoff'
    BY <1>a, <1>c, <2>0 DEF IInv, LockHandoff, InCritical, TypeOK, CpuInv, CPU, Slot
  <2>3. CpuInv'
    BY <1>a, <1>c, <2>0, Zenon DEF IInv, CpuInv
  <2>4. ThreadInv'
    BY <1>a, <1>c, <2>0 DEF IInv, ThreadInv, OnCPU, TypeOK, CpuInv
  <2>5. ForkInv'
    BY <1>a, <1>c, <2>0 DEF IInv, ForkInv, Where, TypeOK
  <2>6. StackInv'
    BY <1>a, <1>c, <2>0, Zenon DEF IInv, StackInv, TypeOK
  <2>7. ParentInv'
    BY <1>a, <1>c, <2>0 DEF IInv, ParentInv, Where, TypeOK
  <2>8. NoMissedExit'
    BY <1>a, <1>c, <2>0 DEF IInv, NoMissedExit, Children, Zombies, TypeOK
  <2> QED BY <2>1, <2>2, <2>3, <2>4, <2>5, <2>6, <2>7, <2>8, Zenon DEF IInv
<1> QED BY <1>b, <1>c, Zenon

\* kill() wakes the sleeper it marks.
LEMMA KillKeeps ==
  ASSUME IInv, NEW c \in CPU, NEW p \in Slot, NEW k \in KillPids, Kill(c, p, k)
  PROVE  IInv'
<1> USE DEF At, Goto, cpuVars
<1>a. state[p] = "RUNNING" /\ pc[p] = "sys" /\ lock = 0 /\ spc[c] = "run" /\ cproc[c] = p
      /\ InitProc \in Slot
  BY Current, SizeAssumption DEF Kill, InitProc, Slot
<1>b. /\ pc' = [pc EXCEPT ![p] = "sysret"]
      /\ UNCHANGED <<lock, pid, parent, chan, kstack, nextpid, cpuVars, ret, np>>
  BY Zenon DEF Kill
<1>c. /\ state' \in [Slot -> ProcState] /\ killed' \in [Slot -> BOOLEAN]
      /\ \A q \in Slot :
           state'[q] = state[q] \/ (state[q] = "SLEEPING" /\ state'[q] = "RUNNABLE")
      /\ \A q \in Slot : killed'[q] => killed[q] \/ state'[q] # "SLEEPING"
  <2>1. CASE \E q \in Slot : pid[q] = k
    <3>1. PICK q \in Slot : /\ killed' = [killed EXCEPT ![q] = TRUE]
                            /\ state' = [state EXCEPT ![q] = IF @ = "SLEEPING" THEN "RUNNABLE" ELSE @]
      BY <2>1, Zenon DEF Kill
    <3>2. state' \in [Slot -> ProcState] /\ killed' \in [Slot -> BOOLEAN]
      BY <3>1, Zenon DEF IInv, TypeOK, ProcState
    <3>3. \A r \in Slot : r # q => state'[r] = state[r] /\ killed'[r] = killed[r]
      BY <3>1, Zenon DEF IInv, TypeOK
    <3>4. state'[q] # "SLEEPING" /\ (state'[q] = state[q] \/ (state[q] = "SLEEPING" /\ state'[q] = "RUNNABLE"))
      BY <3>1, Zenon DEF IInv, TypeOK
    <3> QED BY <3>2, <3>3, <3>4, Zenon
  <2>2. CASE ~\E q \in Slot : pid[q] = k
    <3>1. state' = state /\ killed' = killed
      BY <2>2, Zenon DEF Kill
    <3> QED BY <3>1, Zenon DEF IInv, TypeOK
  <2> QED BY <2>1, <2>2, Zenon
<1>1. TypeOK'
  BY <1>b, <1>c, Zenon DEF IInv, TypeOK, Label, Preemptible
<1>2. LockHandoff'
  BY <1>a, <1>b, <1>c
     DEF IInv, LockHandoff, InCritical, TypeOK, CpuInv, ThreadInv, OnCPU, CPU, Slot,
         Preemptible
<1>3. CpuInv'
  BY <1>a, <1>b, <1>c
     DEF IInv, CpuInv, TypeOK, ThreadInv, OnCPU, LockHandoff, InCritical, Slot
<1>4. ThreadInv'
  BY <1>a, <1>b, <1>c
     DEF IInv, ThreadInv, OnCPU, TypeOK, CpuInv, LockHandoff, InCritical, CPU, Slot,
         Preemptible
<1>5. ForkInv'
  BY <1>a, <1>b, <1>c DEF IInv, ForkInv, Where, TypeOK, ThreadInv, OnCPU
<1>6. StackInv'
  BY <1>a, <1>b, <1>c, Zenon DEF IInv, StackInv, TypeOK
<1>7. ParentInv'
  BY <1>a, <1>b, <1>c DEF IInv, ParentInv, Where, TypeOK, ThreadInv, OnCPU
<1>8. NoMissedExit'
  BY <1>a, <1>b, <1>c DEF IInv, NoMissedExit, Children, Zombies, TypeOK, ThreadInv, OnCPU
<1> QED BY <1>1, <1>2, <1>3, <1>4, <1>5, <1>6, <1>7, <1>8, Zenon DEF IInv


-----------------------------------------------------------------------------
\* IInv holds initially and every step preserves it.
THEOREM Invariance == Spec => []IInv
<1>1. Init => IInv
  <2> SUFFICES ASSUME Init PROVE IInv
    BY Zenon
  <2> USE SizeAssumption DEF Init, InitProc
  <2>1. TypeOK
    BY DEF TypeOK, Slot, CPU, ProcState, Label, Preemptible
  <2>2. LockHandoff /\ CpuInv
    BY DEF LockHandoff, InCritical, CpuInv, CPU
  <2>3. ThreadInv
    BY DEF ThreadInv, OnCPU, CPU, Slot
  <2>4. ForkInv
    BY Zenon DEF ForkInv, Where
  <2>5. ParentInv
    BY DEF ParentInv, Slot
  <2>6. StackInv /\ NoMissedExit
    BY Zenon DEF StackInv, NoMissedExit
  <2> QED BY <2>1, <2>2, <2>3, <2>4, <2>5, <2>6, Zenon DEF IInv
<1>2. IInv /\ [Next]_vars => IInv'
  <2> SUFFICES ASSUME IInv, [Next]_vars PROVE IInv'
    BY Zenon
  <2>1. ASSUME NEW c \in CPU, Scheduler(c) PROVE IInv'
    BY <2>1, SchedAcquireKeeps, SchedPickKeeps, SchedReleaseKeeps, Zenon DEF Scheduler
  <2>2. ASSUME NEW c \in CPU, NEW p \in Slot, Switch(c, p) PROVE IInv'
    BY <2>2, SchedKeeps, ResumeKeeps, ForkRetKeeps, Zenon DEF Switch
  <2>3. ASSUME NEW c \in CPU, NEW p \in Slot, Kernel(c, p) PROVE IInv'
    <3>1. CASE TrapKilled(c, p) \/ TrapRet(c, p) \/ ExitInit(c, p)
      BY <3>1, MoveKeeps, Zenon DEF TrapKilled, TrapRet, ExitInit, At, Preemptible, ForkLabel
    <3>2. CASE AllocStack(c, p)
      BY <3>2, AllocStackKeeps, ForkFailKeeps, Zenon DEF AllocStack
    <3>3. CASE CopyProc(c, p)
      BY <3>3, CopyProcKeeps, ForkFailKeeps, Zenon DEF CopyProc
    <3> QED BY <2>3, <3>1, <3>2, <3>3, RunChildKeeps, ExitKeeps, WaitReapKeeps, WaitNoneKeeps, Zenon
            DEF Kernel
  <2>4. ASSUME NEW c \in CPU, NEW p \in Slot, Program(c, p) PROVE IInv'
    <3>1. CASE Trap(c, p) \/ SysDone(c, p) \/ SysExit(c, p)
      BY <3>1, MoveKeeps, Zenon DEF Trap, SysDone, SysExit, At, Preemptible, ForkLabel
    <3>2. CASE Sleep(c, p)
      <4>1. PICK ch \in Chan, l \in {"sys", "body", "exiting"} :
              At(c, p, l) /\ Block(c, p, "SLEEPING", ch, IF l = "exiting" THEN l ELSE "body")
        BY <3>2, Zenon DEF Sleep
      <4> QED BY <4>1, BlockKeeps, Zenon DEF Preemptible, ForkLabel
    <3> QED BY <2>4, <3>1, <3>2, FaultKeeps, AllocProcKeeps, WaitAcquireKeeps, KillKeeps, Zenon
            DEF Program
  <2>5. ASSUME NEW c \in CPU, NEW p \in Slot, Yield(c, p) PROVE IInv'
    <3>1. PICK l \in Preemptible :
            At(c, p, l) /\ Block(c, p, "RUNNABLE", chan[p], IF l = "user" THEN "sysret" ELSE l)
      BY <2>5, Zenon DEF Yield
    <3>2. chan[p] \in Slot \cup {0} \cup Chan
      BY Zenon DEF IInv, TypeOK
    <3> QED BY <3>1, <3>2, BlockKeeps, ZenonT(30) DEF Preemptible, ForkLabel
  <2>6. ASSUME NEW ch \in Chan, Wakeup(ch) PROVE IInv'
    BY <2>6, WakeupKeeps, Zenon
  <2>7. CASE UNCHANGED vars
    <3> USE <2>7 DEF vars, IInv
    <3>1. TypeOK'
      BY Zenon DEF TypeOK
    <3>2. LockHandoff'
      BY Zenon DEF LockHandoff, InCritical
    <3>3. CpuInv'
      BY Zenon DEF CpuInv
    <3>4. ThreadInv'
      BY ZenonT(40) DEF ThreadInv, OnCPU
    <3>5. ForkInv' /\ StackInv'
      BY Zenon DEF ForkInv, StackInv, Where
    <3>6. ParentInv'
      BY ZenonT(40) DEF ParentInv, Where
    <3>7. NoMissedExit'
      BY ZenonT(40) DEF NoMissedExit, Children, Zombies
    <3> QED BY <3>1, <3>2, <3>3, <3>4, <3>5, <3>6, <3>7, Zenon
  <2> QED BY <2>1, <2>2, <2>3, <2>4, <2>5, <2>6, <2>7, Zenon DEF Next
<1> QED BY <1>1, <1>2, PTL DEF Spec

\* Every variable keeps its type.
THEOREM TypeCorrect == Spec => []TypeOK
<1>1. IInv => TypeOK
  BY Zenon DEF IInv
<1> QED BY <1>1, Invariance, PTL

\* acquire() and release() of ptable.lock pair up across swtch(): a CPU holds
\* the lock exactly while it executes code that needs it.
THEOREM LockIsHandedOff == Spec => []LockHandoff
<1>1. IInv => LockHandoff
  BY Zenon DEF IInv
<1> QED BY <1>1, Invariance, PTL

\* A process runs on at most one CPU, for every number of CPUs.
THEOREM RunsOnOneCPU == Spec => []OneCPU
<1>1. IInv => OneCPU
  BY ZenonT(60) DEF IInv, CpuInv, ThreadInv, OnCPU, OneCPU
<1> QED BY <1>1, Invariance, PTL

\* No kernel stack is freed while a CPU is on it.
THEOREM StackStaysAllocated == Spec => []StackInUse
<1>1. IInv => StackInUse
  BY DEF IInv, CpuInv, ThreadInv, OnCPU, StackInv, StackInUse, TypeOK, ProcState
<1> QED BY <1>1, Invariance, PTL

\* Every process has a parent that can wait for it.
THEOREM ParentsAreAlive == Spec => []ParentAlive
<1>1. IInv => ParentAlive
  BY Zenon DEF IInv, ParentInv, ParentAlive
<1> QED BY <1>1, Invariance, PTL

\* A parent asleep in wait() has missed no exit() and no kill().
THEOREM WaitMissesNothing == Spec => []NoMissedExit
<1>1. IInv => NoMissedExit
  BY Zenon DEF IInv
<1> QED BY <1>1, Invariance, PTL

-----------------------------------------------------------------------------
Par == [q \in Slot |-> IF state[q] = "EMBRYO" THEN 0 ELSE parent[q]]

\* A step that moves no slot between the classes living, zombie and free, and
\* no parent pointer of a slot in use, is invisible in the tree.
LEMMA TreeStutter ==
  ASSUME TypeOK, TypeOK',
         \A q \in Slot : \/ state'[q] = state[q]
                         \/ {state[q], state'[q]} \subseteq {"SLEEPING", "RUNNABLE", "RUNNING"}
                         \/ {state[q], state'[q]} \subseteq {"UNUSED", "EMBRYO"},
         Par' = Par
  PROVE  UNCHANGED <<Live, Zombie, Par>>
BY DEF Live, Zombie, TypeOK, ProcState

\* fork(), exit() and wait() implement the abstract process tree: fork() takes
\* effect when the child becomes RUNNABLE, exit() when the process becomes a
\* ZOMBIE, wait() when it frees the slot, and no other step is visible.
THEOREM Refinement == Spec => ImplementsTree
<1>1. Init => Tree!Init
  <2> SUFFICES ASSUME Init PROVE Tree!Init
    BY Zenon
  <2>0. InitProc \in Slot
    BY SizeAssumption DEF InitProc, Slot
  <2>1. Live = {InitProc} /\ Zombie = {}
    BY <2>0, Zenon DEF Init, Live, Zombie
  <2>2. Par = [q \in Slot |-> 0]
    BY Zenon DEF Init, Par
  <2> QED BY <2>1, <2>2, Zenon DEF Tree!Init, Par
<1>2. IInv /\ IInv' /\ [Next]_vars => [Tree!Next]_(Tree!vars)
  <2> SUFFICES ASSUME IInv, IInv', [Next]_vars PROVE Tree!Next \/ UNCHANGED <<Live, Zombie, Par>>
    BY Zenon DEF Tree!vars, Par
  <2> USE DEF IInv
  <2>1. ASSUME NEW c \in CPU, NEW p \in Slot, RunChild(c, p) PROVE \E q \in Slot : Tree!Fork(p, q)
    <3>1. At(c, p, "runchild") /\ OnCPU(p) /\ state[p] = "RUNNING" /\ Where(p) = "runchild"
      BY <2>1, Current, ZenonT(40) DEF RunChild, Where, At
    <3>2. PICK q \in Slot : /\ q = np[p] /\ state[q] = "EMBRYO" /\ parent[q] = p /\ q # p
      BY <3>1, ForkOwner, SMTT(40) DEF ForkLabel, ForkInv
    <3>3. state' = [state EXCEPT ![q] = "RUNNABLE"] /\ parent' = parent
      BY <2>1, <3>2, Zenon DEF RunChild
    <3>4. Live' = Live \cup {q} /\ Zombie' = Zombie /\ p \in Live /\ q \notin Live \cup Zombie
      BY <3>1, <3>2, <3>3, ZenonT(40) DEF Live, Zombie, TypeOK
    <3>5. Par' = [Par EXCEPT ![q] = p]
      BY <3>2, <3>3, Zenon DEF Par, TypeOK
    <3>6. Tree!Fork(p, q)
      BY <3>4, <3>5, Zenon DEF Tree!Fork, Par
    <3> QED BY <3>6, Zenon
  <2>2. ASSUME NEW c \in CPU, NEW p \in Slot, Exit(c, p) PROVE Tree!Exit(p)
    <3>1. state[p] = "RUNNING" /\ p # InitProc /\ pc[p] = "exiting" /\ p # 0
      BY <2>2, Current, SMTT(40) DEF Exit
    <3>2. np[p] = 0
      BY <3>1, Zenon DEF ForkInv, Where
    <3>3. parent' = [q \in Slot |-> IF parent[q] = p THEN InitProc ELSE parent[q]]
      BY <2>2, Zenon DEF Exit
    <3>4. \A q \in Slot : state[q] = "EMBRYO" => parent[q] # p
      BY <3>2 DEF ParentInv, Slot
    <3>5. ASSUME NEW q \in Slot
          PROVE  IF q = p THEN state'[q] = "ZOMBIE"
                 ELSE state'[q] = state[q] \/ (state[q] = "SLEEPING" /\ state'[q] = "RUNNABLE")
      BY <2>2, <3>1, ExitStates, Zenon
    <3>6. Live' = Live \ {p} /\ Zombie' = Zombie \cup {p} /\ p \in Live
      BY <3>1, <3>5, Zenon DEF Live, Zombie
    <3>7. Par' = [q \in Slot |-> IF Par[q] = p THEN InitProc ELSE Par[q]]
      BY <3>1, <3>3, <3>4, <3>5, Zenon DEF Par
    <3> QED BY <3>1, <3>6, <3>7, ZenonT(30) DEF Tree!Exit, Par
  <2>3. ASSUME NEW c \in CPU, NEW p \in Slot, WaitReap(c, p) PROVE \E q \in Slot : Tree!Reap(p, q)
    <3>1. state[p] = "RUNNING"
      BY <2>3, Current, Zenon DEF WaitReap
    <3>2. PICK q \in Slot : /\ state[q] = "ZOMBIE" /\ parent[q] = p
                            /\ parent' = [parent EXCEPT ![q] = 0]
                            /\ state' = [state EXCEPT ![q] = "UNUSED"]
      BY <2>3, Zenon DEF WaitReap, First, Zombies, Children
    <3>3. Tree!Reap(p, q)
      <4>1. Live' = Live /\ Zombie' = Zombie \ {q} /\ p \in Live /\ q \in Zombie
        BY <3>1, <3>2, Zenon DEF Live, Zombie, TypeOK
      <4>2. Par' = [Par EXCEPT ![q] = 0] /\ Par[q] = p
        BY <3>2, Zenon DEF Par, TypeOK
      <4> QED BY <4>1, <4>2, Zenon DEF Tree!Reap, Par
    <3> QED BY <3>3, Zenon
  <2>4. ASSUME UNCHANGED <<state, parent>> PROVE UNCHANGED <<Live, Zombie, Par>>
    BY <2>4, Zenon DEF Live, Zombie, Par
  <2>5. ASSUME UNCHANGED parent,
               \A q \in Slot : state'[q] = state[q] \/ {state[q], state'[q]} \subseteq {"SLEEPING", "RUNNABLE", "RUNNING"}
        PROVE  UNCHANGED <<Live, Zombie, Par>>
    <3>1. Par' = Par
      BY <2>5, Zenon DEF Par
    <3> QED BY <2>5, <3>1, TreeStutter, Zenon
  <2>6. ASSUME NEW c \in CPU, Scheduler(c) PROVE UNCHANGED <<Live, Zombie, Par>>
    <3>1. CASE SchedPick(c)
      BY <3>1, <2>5, ZenonT(30) DEF SchedPick, Ahead, First, TypeOK
    <3> QED BY <2>4, <2>6, <3>1, Zenon DEF Scheduler, SchedAcquire, SchedRelease, slotVars
  <2>7. ASSUME NEW c \in CPU, NEW p \in Slot, AllocProc(c, p) PROVE UNCHANGED <<Live, Zombie, Par>>
    <3>1. PICK q \in Slot : state[q] = "UNUSED" /\ state' = [state EXCEPT ![q] = "EMBRYO"] /\ parent' = parent
      BY <2>7, Zenon DEF AllocProc, First
    <3>2. Par' = Par
      BY <3>1, SMTT(40) DEF Par, ParentInv, TypeOK
    <3> QED BY <3>1, <3>2, TreeStutter, ZenonT(60) DEF TypeOK
  <2>8. ASSUME NEW c \in CPU, NEW p \in Slot, Where(p) \in ForkLabel, OnCPU(p),
               UNCHANGED parent, state' = [state EXCEPT ![np[p]] = "UNUSED"]
        PROVE  UNCHANGED <<Live, Zombie, Par>>
    <3>1. np[p] \in Slot /\ state[np[p]] = "EMBRYO"
      BY <2>8, ForkOwner, Zenon
    <3>2. state'[np[p]] = "UNUSED" /\ \A q \in Slot : q # np[p] => state'[q] = state[q]
      BY <2>8, <3>1, SMTT(40) DEF TypeOK
    <3>3. parent[np[p]] = 0
      BY <2>8, <3>1, <3>2, Zenon DEF ParentInv
    <3>4. Par' = Par
      BY <2>8, <3>1, <3>2, <3>3, Zenon DEF Par
    <3> QED BY <3>1, <3>2, <3>4, TreeStutter, Zenon
  <2>9. ASSUME NEW c \in CPU, NEW p \in Slot, AllocStack(c, p) \/ CopyProc(c, p)
        PROVE  UNCHANGED <<Live, Zombie, Par>>
    <3>1. OnCPU(p) /\ Where(p) \in ForkLabel
      BY <2>9, Current, SMTT(40) DEF AllocStack, CopyProc, Where, ForkLabel
    <3>2. CASE ForkFail(p)
      BY <2>8, <3>1, <3>2, Zenon DEF ForkFail
    <3>3. CASE UNCHANGED state /\ parent' = [parent EXCEPT ![np[p]] = p]
      <4>1. Par' = Par
        BY <3>1, <3>3, ForkOwner, SMTT(40) DEF Par, TypeOK
      <4> QED BY <3>3, <4>1, TreeStutter, ZenonT(60)
    <3> QED BY <2>4, <2>9, <3>2, <3>3, Zenon DEF AllocStack, CopyProc
  <2>10. ASSUME NEW c \in CPU, NEW p \in Slot, NEW st \in {"RUNNABLE", "SLEEPING"}, NEW ch, NEW l,
                NEW m \in Preemptible, At(c, p, m), Block(c, p, st, ch, l)
         PROVE  UNCHANGED <<Live, Zombie, Par>>
    <3>1. state[p] = "RUNNING"
      BY <2>10, Current, Zenon DEF Preemptible
    <3> QED BY <2>5, <2>10, <3>1, Zenon DEF Block, TypeOK
  <2>11. ASSUME NEW c \in CPU, NEW p \in Slot, WaitNone(c, p) PROVE UNCHANGED <<Live, Zombie, Par>>
    <3>1. state[p] = "RUNNING"
      BY <2>11, Current, SMTT(40) DEF WaitNone
    <3>2. parent' = parent /\ (state' = state \/ state' = [state EXCEPT ![p] = "SLEEPING"])
      BY <2>11, Zenon DEF WaitNone, slotVars
    <3> QED BY <2>5, <3>1, <3>2, Zenon DEF TypeOK
  <2>12. ASSUME NEW c \in CPU, NEW p \in Slot, NEW k \in KillPids, Kill(c, p, k)
         PROVE  UNCHANGED <<Live, Zombie, Par>>
    <3>1. parent' = parent /\ (state' = state \/ \E q \in Slot : state' = [state EXCEPT ![q] = IF @ = "SLEEPING" THEN "RUNNABLE" ELSE @])
      BY <2>12, Zenon DEF Kill
    <3> QED BY <2>5, <3>1, SMTT(40) DEF TypeOK
  <2>13. ASSUME NEW ch \in Chan, Wakeup(ch) PROVE UNCHANGED <<Live, Zombie, Par>>
    BY <2>5, <2>13, Zenon DEF Wakeup, Wake
  <2>14. ASSUME NEW c \in CPU, NEW p \in Slot, Kernel(c, p) \/ Switch(c, p)
         PROVE  Tree!Next \/ UNCHANGED <<Live, Zombie, Par>>
    BY <2>1, <2>2, <2>3, <2>4, <2>9, <2>11, <2>14, ZenonT(60) DEF Tree!Next, Kernel, Switch,
       TrapKilled, TrapRet, ExitInit, Sched, Resume, ForkRet, slotVars
  <2>15. ASSUME NEW c \in CPU, NEW p \in Slot, Program(c, p) \/ Yield(c, p)
         PROVE  UNCHANGED <<Live, Zombie, Par>>
    <3>1. CASE Sleep(c, p) \/ Yield(c, p)
      BY <2>10, <3>1, Zenon DEF Sleep, Yield, Preemptible
    <3> QED BY <2>4, <2>7, <2>12, <2>15, <3>1, Zenon
            DEF Program, Trap, Fault, SysDone, SysExit, WaitAcquire, slotVars
  <2>16. CASE UNCHANGED vars
    BY <2>4, <2>16, Zenon DEF vars
  <2> QED BY <2>6, <2>13, <2>14, <2>15, <2>16, Zenon DEF Next
<1> QED BY <1>1, <1>2, Invariance, PTL DEF Spec, Tree!Spec, ImplementsTree
=============================================================================
