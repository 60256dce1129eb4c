------------------------------ MODULE SpinLock -------------------------------
(***************************************************************************)
(* Spin locks, interrupts and kernel threads (spinlock.c, and sched(),     *)
(* scheduler(), forkret() of proc.c).  A processor runs the stack of a     *)
(* process or of its scheduler.  System-call code and interrupt handlers   *)
(* take a device lock, and ptable.lock inside it for wakeup(); yield()     *)
(* takes ptable.lock and switches stacks while holding it.                 *)
(*                                                                         *)
(* pushcli() counts in the processor, but whether interrupts were on is a  *)
(* property of the thread, which may release its lock on another processor *)
(* than the one that acquired it.                                          *)
(***************************************************************************)
EXTENDS Integers, FiniteSets

CONSTANTS
  CPU,      \* processors; a scheduler has the name of its processor
  Thread    \* processes

VARIABLES
  run,      \* the thread (or scheduler) each processor runs
  eif,      \* the interrupt flag of each processor
  ncli, intena,
  holder,   \* processor that holds "dev" and "ptable", or NoCPU
  pc, want, cont,   \* each thread: where it is; in acquire(): for what, and what follows
  handler,  \* each thread: it is in an interrupt handler
  saved     \* each thread: the local variable intena of sched()

cpus == <<eif, ncli, intena>>
vars == <<run, cpus, holder, pc, want, cont, handler, saved>>

NoCPU == "none"
Ctx == CPU \cup Thread
Lock == {"dev", "ptable"}

Init ==
  /\ run = [c \in CPU |-> c]
  /\ eif = [c \in CPU |-> FALSE]
  /\ ncli = [c \in CPU |-> 0]
  /\ intena = [c \in CPU |-> FALSE]
  /\ holder = [l \in Lock |-> NoCPU]
  /\ pc = [x \in Ctx |-> IF x \in CPU THEN "loop" ELSE "forkret"]
  /\ want = [x \in Ctx |-> "dev"] /\ cont = [x \in Ctx |-> "none"]
  /\ handler = [x \in Ctx |-> FALSE]
  /\ saved = [x \in Ctx |-> FALSE]

Goto(c, label) == pc' = [pc EXCEPT ![run[c]] = label]
At(c, label) == pc[run[c]] = label

-----------------------------------------------------------------------------
(* spinlock.c *)

\* What pushcli() leaves in intena.
Remember(c) == IF ncli[c] = 0 THEN eif[c] ELSE intena[c]

\* cli() in pushcli()
Cli(c) == [eif EXCEPT ![c] = FALSE]

\* acquire(): pushcli(), and then the loop of Xchg.
Acquire(c, l, label) ==
  /\ intena' = [intena EXCEPT ![c] = Remember(c)]
  /\ eif' = Cli(c)
  /\ ncli' = [ncli EXCEPT ![c] = @ + 1]
  /\ want' = [want EXCEPT ![run[c]] = l]
  /\ cont' = [cont EXCEPT ![run[c]] = label]
  /\ Goto(c, "spin")
  /\ UNCHANGED <<run, holder, handler, saved>>

Xchg(c) ==
  /\ At(c, "spin") /\ holder[want[run[c]]] = NoCPU
  /\ holder' = [holder EXCEPT ![want[run[c]]] = c]
  /\ Goto(c, cont[run[c]])
  /\ UNCHANGED <<run, cpus, want, cont, handler, saved>>

\* release(): free the lock, popcli().
Release(c, l, label) ==
  /\ holder' = [holder EXCEPT ![l] = NoCPU]
  /\ ncli' = [ncli EXCEPT ![c] = @ - 1]
  /\ eif' = [eif EXCEPT ![c] = @ \/ (ncli[c] = 1 /\ intena[c])]
  /\ Goto(c, label)
  /\ UNCHANGED <<run, intena, want, cont, handler, saved>>

-----------------------------------------------------------------------------
(* System calls and interrupts *)

\* Back in the code that was interrupted, or in the system call.
Outside(c) == IF handler[run[c]] THEN "hout" ELSE "kernel"

\* A system call uses a device (iderw(), consoleread(), piperead(), ...), or
\* gives up the processor (yield(), sleep()).
Syscall(c) ==
  At(c, "kernel") /\ (Acquire(c, "dev", "indev") \/ Acquire(c, "ptable", "sched"))

\* In the device's critical section.  wakeup() takes ptable.lock and releases
\* it; sleep() takes it, releases the device and switches.
Device(c) ==
  \/ At(c, "indev") /\ Acquire(c, "ptable", "inboth")
  \/ At(c, "inboth") /\ Release(c, "ptable", "indev")
  \/ At(c, "inboth") /\ ~handler[run[c]] /\ Release(c, "dev", "sched")
  \/ At(c, "indev") /\ Release(c, "dev", Outside(c))

\* An interrupt, through an interrupt gate: the flag is cleared.
Interrupt(c) ==
  /\ eif[c] /\ pc[run[c]] \in {"kernel", "idle"}
  /\ handler' = [handler EXCEPT ![run[c]] = TRUE]
  /\ eif' = [eif EXCEPT ![c] = FALSE]
  /\ Goto(c, "hin")
  /\ UNCHANGED <<run, ncli, intena, holder, want, cont, saved>>

Handler(c) == At(c, "hin") /\ Acquire(c, "dev", "indev")

\* The end of trap(): a timer interrupt in a process yields.
TimerIntr(c) == At(c, "hout") /\ run[c] \in Thread /\ Acquire(c, "ptable", "sched")

\* trapret, also for a new process: iret restores the flag, which is set.
Iret(c) ==
  /\ pc[run[c]] \in {"hout", "trapret"}
  /\ handler' = [handler EXCEPT ![run[c]] = FALSE]
  /\ eif' = [eif EXCEPT ![c] = TRUE]
  /\ Goto(c, IF run[c] \in CPU THEN "idle" ELSE "kernel")
  /\ UNCHANGED <<run, ncli, intena, holder, want, cont, saved>>

-----------------------------------------------------------------------------
(* Switching stacks *)

\* sched() up to swtch(): the scheduler of this processor goes on.
Sched(c) ==
  /\ At(c, "sched")
  /\ saved' = [saved EXCEPT ![run[c]] = intena[c]]
  /\ Goto(c, "resumed")
  /\ run' = [run EXCEPT ![c] = c]
  /\ UNCHANGED <<cpus, holder, want, cont, handler>>

\* Faulty variant of Restored: sched() leaves intena of the processor alone.
RestoredNot(c) == intena

\* mycpu()->intena = intena after swtch()
Restored(c) == [intena EXCEPT ![c] = saved[run[c]]]

\* sched() after swtch(), on whatever processor this is; then release().
Resumed(c) ==
  \/ /\ At(c, "resumed")
     /\ intena' = Restored(c)
     /\ Goto(c, "unlock")
     /\ UNCHANGED <<run, eif, ncli, holder, want, cont, handler, saved>>
  \/ At(c, "unlock") /\ Release(c, "ptable", Outside(c))

Forkret(c) == At(c, "forkret") /\ Release(c, "ptable", "trapret")

\* scheduler(): sti(), acquire(), switch to processes that can run, release().
Sti(c) ==
  /\ At(c, "loop")
  /\ eif' = [eif EXCEPT ![c] = TRUE]
  /\ Goto(c, "idle")
  /\ UNCHANGED <<run, ncli, intena, holder, want, cont, handler, saved>>

Scan(c) == At(c, "idle") /\ Acquire(c, "ptable", "pick")

Swtch(c) ==
  /\ At(c, "pick")
  /\ \E t \in Thread : /\ pc[t] \in {"resumed", "forkret"} /\ \A d \in CPU : run[d] # t
                       /\ run' = [run EXCEPT ![c] = t]
  /\ UNCHANGED <<cpus, holder, pc, want, cont, handler, saved>>

ScanDone(c) == At(c, "pick") /\ Release(c, "ptable", "loop")

Step(c) == Device(c) \/ Xchg(c) \/ Handler(c) \/ Sched(c) \/ Resumed(c) \/ Forkret(c)
             \/ Sti(c) \/ Scan(c) \/ ScanDone(c)
Next == \E c \in CPU : Step(c) \/ Syscall(c) \/ Interrupt(c) \/ TimerIntr(c) \/ Iret(c) \/ Swtch(c)

Spec == Init /\ [][Next]_vars

-----------------------------------------------------------------------------
(* Properties *)

InDevice(x) == pc[x] \in {"indev", "inboth"} \/ (pc[x] = "spin" /\ cont[x] = "inboth")

\* A device's data is used by one thread or handler at a time.
OneInDevice == Cardinality({x \in Ctx : InDevice(x)}) <= 1

\* Code that holds a lock is not interrupted by a handler that wants it too:
\* a processor that holds a lock has interrupts off, and never waits for a
\* lock that it holds itself.
NoSelfDeadlock ==
  \A c \in CPU, l \in Lock : holder[l] = c => ~eif[c] /\ ~(At(c, "spin") /\ want[run[c]] = l)

\* The locks that a thread may be about to release.
MayRelease(x, l) ==
  \/ l = "dev" /\ pc[x] \in {"indev", "inboth"}
  \/ l = "ptable" /\ pc[x] \in {"inboth", "unlock", "forkret", "pick"}

\* The panics of spinlock.c and sched() do not happen: acquire() is not called for a
\* lock that the processor holds, release() is called for one that it holds, popcli()
\* with interrupts off and something to undo, and sched() with ptable.lock, no other
\* lock and interrupts off.
Sane ==
  \A c \in CPU :
    /\ At(c, "spin") => holder[want[run[c]]] # c /\ ~eif[c]
    /\ \A l \in Lock : MayRelease(run[c], l) => holder[l] = c /\ ncli[c] >= 1 /\ ~eif[c]
    /\ At(c, "sched") => holder["ptable"] = c /\ ncli[c] = 1 /\ ~eif[c]

\* Releasing the last lock gives the thread back the interrupt flag that it had
\* before, on whatever processor it now runs: on in a system call, off in a
\* handler.
FlagRestored ==
  \A c \in CPU : /\ pc[run[c]] \in {"kernel", "idle"} => eif[c] /\ ncli[c] = 0
                 /\ pc[run[c]] \in {"hin", "hout"} => ~eif[c] /\ ncli[c] = 0

=============================================================================
