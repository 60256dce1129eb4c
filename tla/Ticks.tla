-------------------------------- MODULE Ticks --------------------------------
(***************************************************************************)
(* sleep() and wakeup() of proc.c with both of their locks, in their       *)
(* simplest client: the sleep(n) system call (sysproc.c) against the timer *)
(* interrupt (trap.c) and kill().                                          *)
(*                                                                         *)
(* The condition "n ticks have passed" is protected by tickslock, the      *)
(* state of a process by ptable.lock.  Every acquire and release of either *)
(* lock is a step of its own, except where a section under ptable.lock     *)
(* contains nothing else.  Scheduling is as in Proc: a RUNNABLE thread     *)
(* gets a CPU whose scheduler found ptable.lock free.  All sleepers are on *)
(* the channel &ticks.                                                     *)
(***************************************************************************)
EXTENDS Integers

CONSTANTS
  Thread,   \* processes that call sleep(n)
  Timer,    \* the timer interrupt handler on CPU 0
  Free,     \* nobody holds the lock
  M,        \* size of the unsigned counter: 2^32 in the code
  Wants     \* arguments of sleep(n)

ASSUME HolderAssumption == Timer \notin Thread /\ Free \notin Thread /\ Timer # Free
ASSUME WordAssumption == M \in Nat \ {0} /\ Wants \subseteq 0..(M - 1)

VARIABLES
  ticks,     \* the counter, modulo M
  lk,        \* the holder of tickslock
  ptl,       \* the holder of ptable.lock
  state,     \* p->state
  killed,    \* p->killed
  pc,        \* where the thread is
  ticks0,    \* the local ticks0 of sys_sleep()
  want,      \* its argument n
  tpc,       \* where the timer interrupt handler is
  slept      \* auxiliary: ticks since sys_sleep() read ticks0

vars == <<ticks, lk, ptl, state, killed, pc, ticks0, want, tpc, slept>>

Goto(t, l) == pc' = [pc EXCEPT ![t] = l]

Init ==
  /\ ticks = 0
  /\ lk = Free /\ ptl = Free
  /\ state = [t \in Thread |-> "RUNNING"]
  /\ killed = [t \in Thread |-> FALSE]
  /\ pc = [t \in Thread |-> "user"]
  /\ ticks0 = [t \in Thread |-> 0]
  /\ want = [t \in Thread |-> 0]
  /\ tpc = "off"
  /\ slept = [t \in Thread |-> 0]

\* Faulty variant of Elapsed: the difference is not unsigned.
ElapsedSigned(t) == ticks - ticks0[t]

\* ticks - ticks0, in unsigned arithmetic.
Elapsed(t) == (ticks - ticks0[t]) % M

-----------------------------------------------------------------------------
(* sys_sleep() and sleep(&ticks, &tickslock) *)

\* The system call; a killed process never gets here (trap()).
SysSleep(t) ==
  /\ pc[t] = "user" /\ ~killed[t]
  /\ \E n \in Wants : want' = [want EXCEPT ![t] = n]
  /\ Goto(t, "acquire")
  /\ UNCHANGED <<ticks, lk, ptl, state, killed, ticks0, tpc, slept>>

\* acquire(&tickslock); ticks0 = ticks
Acquire(t) ==
  /\ pc[t] = "acquire" /\ lk = Free
  /\ lk' = t
  /\ ticks0' = [ticks0 EXCEPT ![t] = ticks]
  /\ slept' = [slept EXCEPT ![t] = 0]
  /\ Goto(t, "loop")
  /\ UNCHANGED <<ticks, ptl, state, killed, want, tpc>>

\* The time is over, or the process was killed: release and return.
Return(t) ==
  /\ pc[t] = "loop" /\ (Elapsed(t) >= want[t] \/ killed[t])
  /\ lk' = Free
  /\ want' = [want EXCEPT ![t] = 0]
  /\ ticks0' = [ticks0 EXCEPT ![t] = 0]
  /\ slept' = [slept EXCEPT ![t] = 0]
  /\ Goto(t, "user")
  /\ UNCHANGED <<ticks, ptl, state, killed, tpc>>

\* ticks - ticks0 < n and p->killed is 0: call sleep().
Loop(t) ==
  /\ pc[t] = "loop" /\ Elapsed(t) < want[t] /\ ~killed[t]
  /\ Goto(t, "sleep")
  /\ UNCHANGED <<ticks, lk, ptl, state, killed, ticks0, want, tpc, slept>>

\* sleep(): acquire(&ptable.lock) first ...
SleepAcquire(t) ==
  /\ pc[t] = "sleep" /\ ptl = Free
  /\ ptl' = t
  /\ Goto(t, "release")
  /\ UNCHANGED <<ticks, lk, state, killed, ticks0, want, tpc, slept>>

\* ... then release(lk) ...
SleepRelease(t) ==
  /\ pc[t] = "release"
  /\ lk' = Free
  /\ Goto(t, "block")
  /\ UNCHANGED <<ticks, ptl, state, killed, ticks0, want, tpc, slept>>

\* ... then SLEEPING and sched(), after which the scheduler releases the lock.
SleepBlock(t) ==
  /\ pc[t] = "block"
  /\ state' = [state EXCEPT ![t] = "SLEEPING"]
  /\ ptl' = Free
  /\ Goto(t, "asleep")
  /\ UNCHANGED <<ticks, lk, killed, ticks0, want, tpc, slept>>

\* The scheduler runs the woken thread, which releases ptable.lock.
Awake(t) ==
  /\ pc[t] = "asleep" /\ state[t] = "RUNNABLE" /\ ptl = Free
  /\ state' = [state EXCEPT ![t] = "RUNNING"]
  /\ Goto(t, "relock")
  /\ UNCHANGED <<ticks, lk, ptl, killed, ticks0, want, tpc, slept>>

\* sleep() reacquires lk and returns to the loop.
Relock(t) ==
  /\ pc[t] = "relock" /\ lk = Free
  /\ lk' = t
  /\ Goto(t, "loop")
  /\ UNCHANGED <<ticks, ptl, state, killed, ticks0, want, tpc, slept>>

-----------------------------------------------------------------------------
(* The timer interrupt, and kill() *)

\* Faulty variant of Wakened: wakeup() is forgotten.
WakenedNobody == state

Wakened == [t \in Thread |-> IF state[t] = "SLEEPING" THEN "RUNNABLE" ELSE state[t]]

\* A thread between reading ticks0 and leaving sys_sleep().
Timing(t) == pc[t] \notin {"user", "acquire"}

\* acquire(&tickslock).  No thread stays in the call for M ticks (497 days).
TimerAcquire ==
  /\ tpc = "off" /\ lk = Free
  /\ \A t \in Thread : Timing(t) => slept[t] < M - 1
  /\ lk' = Timer
  /\ tpc' = "tick"
  /\ UNCHANGED <<ticks, ptl, state, killed, pc, ticks0, want, slept>>

\* ticks++
TimerTick ==
  /\ tpc = "tick"
  /\ ticks' = (ticks + 1) % M
  /\ slept' = [t \in Thread |-> IF Timing(t) THEN slept[t] + 1 ELSE slept[t]]
  /\ tpc' = "wakeup"
  /\ UNCHANGED <<lk, ptl, state, killed, pc, ticks0, want>>

\* wakeup(&ticks)
TimerWakeup ==
  /\ tpc = "wakeup" /\ ptl = Free
  /\ state' = Wakened
  /\ tpc' = "release"
  /\ UNCHANGED <<ticks, lk, ptl, killed, pc, ticks0, want, slept>>

\* release(&tickslock)
TimerRelease ==
  /\ tpc = "release"
  /\ lk' = Free
  /\ tpc' = "off"
  /\ UNCHANGED <<ticks, ptl, state, killed, pc, ticks0, want, slept>>

\* kill() of a thread, by some other process.
Kill(t) ==
  /\ ptl = Free /\ ~killed[t]
  /\ killed' = [killed EXCEPT ![t] = TRUE]
  /\ state' = [state EXCEPT ![t] = IF @ = "SLEEPING" THEN "RUNNABLE" ELSE @]
  /\ UNCHANGED <<ticks, lk, ptl, pc, ticks0, want, tpc, slept>>

-----------------------------------------------------------------------------
TimerStep == TimerAcquire \/ TimerTick \/ TimerWakeup \/ TimerRelease

InCall(t) ==
  \/ Acquire(t) \/ Return(t) \/ Loop(t) \/ SleepAcquire(t) \/ SleepRelease(t)
  \/ SleepBlock(t) \/ Awake(t) \/ Relock(t)

Next == TimerStep \/ \E t \in Thread : SysSleep(t) \/ InCall(t) \/ Kill(t)

Spec == Init /\ [][Next]_vars

\* Timer interrupts keep coming and a thread inside the kernel keeps going;
\* strong fairness: a CPU that spins for a lock which is free again and again
\* gets it at last.
FairSpec == Spec /\ SF_vars(TimerStep) /\ \A t \in Thread : SF_vars(InCall(t))

-----------------------------------------------------------------------------
(* Properties *)

\* Every variable has its type.
TypeOK ==
  /\ ticks \in 0..(M - 1)
  /\ lk \in Thread \cup {Timer, Free} /\ ptl \in Thread \cup {Free}
  /\ state \in [Thread -> {"RUNNING", "SLEEPING", "RUNNABLE"}]
  /\ killed \in [Thread -> BOOLEAN]
  /\ pc \in [Thread -> {"user", "acquire", "loop", "sleep", "release", "block",
                        "asleep", "relock"}]
  /\ ticks0 \in [Thread -> 0..(M - 1)] /\ want \in [Thread -> 0..(M - 1)]
  /\ tpc \in {"off", "tick", "wakeup", "release"}
  /\ slept \in [Thread -> 0..(M - 1)]

\* sleep() and wakeup() lose no wakeup: a thread is never SLEEPING although
\* its time is over, unless the tick that ended it has not reached its
\* wakeup() yet.
NoLostWakeup ==
  \A t \in Thread : state[t] = "SLEEPING" /\ Elapsed(t) >= want[t] => tpc = "wakeup"

Phase(t) ==
  CASE pc[t] \in {"user", "acquire"} -> "out"
    [] pc[t] = "block" \/ state[t] = "SLEEPING" -> "blocked"
    [] OTHER -> "in"

\* A tick shows when its wakeup() is done, so the last one may not count yet.
Counted(t) == IF tpc = "wakeup" /\ Timing(t) THEN slept[t] - 1 ELSE slept[t]

Left(t) == IF Timing(t) /\ want[t] > Counted(t) THEN want[t] - Counted(t) ELSE 0

Timed == INSTANCE TimedSleep WITH
           phase <- [t \in Thread |-> Phase(t)],
           left <- [t \in Thread |-> Left(t)]

\* "Atomically release lock and sleep on chan" (sleep(), proc.c): with the
\* two locks, checking the time and going to sleep, and counting a tick and
\* waking the sleepers, are each one step to the outside; and no call returns
\* early, also when the counter wraps around.
ImplementsTimedSleep == Timed!Spec

\* Every call of sleep(n) returns.
SleepReturns == \A t \in Thread : pc[t] = "acquire" ~> pc[t] = "user"
=============================================================================
