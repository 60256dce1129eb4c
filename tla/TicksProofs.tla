----------------------------- MODULE TicksProofs -----------------------------
(***************************************************************************)
(* Proofs about Ticks, for every number of threads and every size M of the *)
(* tick counter: no wakeup is lost, and sleep(n) keeps its promise.        *)
(***************************************************************************)
EXTENDS Ticks, TLAPS

\* Who holds tickslock and ptable.lock shows in the program counters.
Locks ==
  /\ \A t \in Thread : (lk = t) <=> (pc[t] \in {"loop", "sleep", "release"})
  /\ (lk = Timer) <=> (tpc # "off")
  /\ \A t \in Thread : (ptl = t) <=> (pc[t] \in {"release", "block"})

\* Only a thread in sleep() is not RUNNING; the argument n comes from the call.
States ==
  \A t \in Thread :
    /\ (state[t] # "RUNNING") <=> (pc[t] = "asleep")
    /\ pc[t] = "acquire" => want[t] \in Wants

\* From its test to the wakeup() of the tick that ends it, the wait is not over.
Waits ==
  \A t \in Thread :
    /\ pc[t] \in {"sleep", "release"} => Elapsed(t) < want[t]
    /\ (pc[t] = "block" \/ state[t] = "SLEEPING") =>
         (Elapsed(t) < want[t] \/ tpc = "wakeup")

\* The auxiliary slept counts the ticks since ticks0 was read; the counter may
\* have wrapped around once.
Counts ==
  \A t \in Thread : Timing(t) =>
    /\ ticks = ticks0[t] + slept[t] \/ ticks = ticks0[t] + slept[t] - M
    /\ tpc = "tick" => slept[t] < M - 1
    /\ tpc = "wakeup" => slept[t] > 0

IInv == TypeOK /\ Locks /\ States /\ Waits /\ Counts

-----------------------------------------------------------------------------
\* Unsigned arithmetic modulo M, on the values the code computes.
LEMMA Modulo ==
  ASSUME NEW x \in Int, -M < x, x <= M
  PROVE  x % M = IF x < 0 THEN x + M ELSE IF x = M THEN 0 ELSE x
<1>1. CASE x < 0
  BY <1>1, WordAssumption
<1>2. CASE x = M
  BY <1>2, WordAssumption
<1>3. CASE 0 <= x /\ x < M
  BY <1>3, WordAssumption
<1> QED
  BY <1>1, <1>2, <1>3, WordAssumption

\* The invariant is kept by the start of sys_sleep().
LEMMA SysSleepKeeps ==
  ASSUME IInv, NEW t \in Thread, SysSleep(t)
  PROVE  IInv'
<1>1. TypeOK'
  BY WordAssumption, HolderAssumption DEF IInv, TypeOK, SysSleep, Goto
<1>2. Locks'
  BY HolderAssumption, Zenon DEF IInv, TypeOK, Locks, SysSleep, Goto
<1>3. States'
  BY Zenon DEF IInv, TypeOK, States, SysSleep, Goto
<1>4. Waits'
  BY HolderAssumption, Zenon DEF IInv, TypeOK, Locks, States, Waits, Elapsed, SysSleep, Goto
<1>5. Counts'
  BY HolderAssumption, WordAssumption, Zenon DEF IInv, TypeOK, Locks, Counts, Timing, SysSleep, Goto
<1> QED
  BY <1>1, <1>2, <1>3, <1>4, <1>5, Zenon DEF IInv

\* The invariant is kept by reading ticks0.
LEMMA AcquireKeeps ==
  ASSUME IInv, NEW t \in Thread, Acquire(t)
  PROVE  IInv'
<1>1. TypeOK'
  BY WordAssumption, HolderAssumption DEF IInv, TypeOK, Acquire, Goto
<1>2. Locks'
  BY HolderAssumption, Zenon DEF IInv, TypeOK, Locks, Acquire, Goto
<1>3. States'
  BY Zenon DEF IInv, TypeOK, States, Acquire, Goto
<1>4. Waits'
  BY HolderAssumption, Zenon DEF IInv, TypeOK, Locks, States, Waits, Elapsed, Acquire, Goto
<1>5. Counts'
  BY HolderAssumption, WordAssumption DEF IInv, TypeOK, Locks, Counts, Timing, Acquire, Goto
<1> QED
  BY <1>1, <1>2, <1>3, <1>4, <1>5, Zenon DEF IInv

\* The invariant is kept by the return of sys_sleep().
LEMMA ReturnKeeps ==
  ASSUME IInv, NEW t \in Thread, Return(t)
  PROVE  IInv'
<1>1. TypeOK'
  BY WordAssumption, HolderAssumption DEF IInv, TypeOK, Return, Goto
<1>2. Locks'
  BY HolderAssumption, Zenon DEF IInv, TypeOK, Locks, Return, Goto
<1>3. States'
  BY Zenon DEF IInv, TypeOK, States, Return, Goto
<1>4. Waits'
  BY HolderAssumption, Zenon DEF IInv, TypeOK, Locks, States, Waits, Elapsed, Return, Goto
<1>5. Counts'
  BY HolderAssumption, WordAssumption, Zenon DEF IInv, TypeOK, Locks, Counts, Timing, Return, Goto
<1> QED
  BY <1>1, <1>2, <1>3, <1>4, <1>5, Zenon DEF IInv

\* The invariant is kept by the test of the loop.
LEMMA LoopKeeps ==
  ASSUME IInv, NEW t \in Thread, Loop(t)
  PROVE  IInv'
<1>1. TypeOK'
  BY WordAssumption, HolderAssumption, Zenon DEF IInv, TypeOK, Loop, Goto
<1>2. Locks'
  BY HolderAssumption, Zenon DEF IInv, TypeOK, Locks, Loop, Goto
<1>3. States'
  BY Zenon DEF IInv, TypeOK, States, Loop, Goto
<1>4. Waits'
  BY HolderAssumption, Zenon DEF IInv, TypeOK, Locks, States, Waits, Elapsed, Loop, Goto
<1>5. Counts'
  BY HolderAssumption, WordAssumption, Zenon DEF IInv, TypeOK, Locks, Counts, Timing, Loop, Goto
<1> QED
  BY <1>1, <1>2, <1>3, <1>4, <1>5, Zenon DEF IInv

\* The invariant is kept by the first step of sleep().
LEMMA SleepAcquireKeeps ==
  ASSUME IInv, NEW t \in Thread, SleepAcquire(t)
  PROVE  IInv'
<1>1. TypeOK'
  BY WordAssumption, HolderAssumption, Zenon DEF IInv, TypeOK, SleepAcquire, Goto
<1>2. Locks'
  BY HolderAssumption, Zenon DEF IInv, TypeOK, Locks, SleepAcquire, Goto
<1>3. States'
  BY Zenon DEF IInv, TypeOK, States, SleepAcquire, Goto
<1>4. Waits'
  BY HolderAssumption, Zenon DEF IInv, TypeOK, Locks, States, Waits, Elapsed, SleepAcquire, Goto
<1>5. Counts'
  BY HolderAssumption, WordAssumption, Zenon DEF IInv, TypeOK, Locks, Counts, Timing, SleepAcquire, Goto
<1> QED
  BY <1>1, <1>2, <1>3, <1>4, <1>5, Zenon DEF IInv

\* The invariant is kept by releasing tickslock in sleep().
LEMMA SleepReleaseKeeps ==
  ASSUME IInv, NEW t \in Thread, SleepRelease(t)
  PROVE  IInv'
<1>1. TypeOK'
  BY WordAssumption, HolderAssumption, Zenon DEF IInv, TypeOK, SleepRelease, Goto
<1>2. Locks'
  BY HolderAssumption, Zenon DEF IInv, TypeOK, Locks, SleepRelease, Goto
<1>3. States'
  BY Zenon DEF IInv, TypeOK, States, SleepRelease, Goto
<1>4. Waits'
  BY HolderAssumption, Zenon DEF IInv, TypeOK, Locks, States, Waits, Elapsed, SleepRelease, Goto
<1>5. Counts'
  BY HolderAssumption, WordAssumption, Zenon DEF IInv, TypeOK, Locks, Counts, Timing, SleepRelease, Goto
<1> QED
  BY <1>1, <1>2, <1>3, <1>4, <1>5, Zenon DEF IInv

\* The invariant is kept by going to sleep.
LEMMA SleepBlockKeeps ==
  ASSUME IInv, NEW t \in Thread, SleepBlock(t)
  PROVE  IInv'
<1>1. TypeOK'
  BY WordAssumption, HolderAssumption, Zenon DEF IInv, TypeOK, SleepBlock, Goto
<1>2. Locks'
  BY HolderAssumption, Zenon DEF IInv, TypeOK, Locks, SleepBlock, Goto
<1>3. States'
  BY Zenon DEF IInv, TypeOK, States, SleepBlock, Goto
<1>4. Waits'
  BY HolderAssumption, Zenon DEF IInv, TypeOK, Locks, States, Waits, Elapsed, SleepBlock, Goto
<1>5. Counts'
  BY HolderAssumption, WordAssumption, Zenon DEF IInv, TypeOK, Locks, Counts, Timing, SleepBlock, Goto
<1> QED
  BY <1>1, <1>2, <1>3, <1>4, <1>5, Zenon DEF IInv

\* The invariant is kept by being scheduled again.
LEMMA AwakeKeeps ==
  ASSUME IInv, NEW t \in Thread, Awake(t)
  PROVE  IInv'
<1>1. TypeOK'
  BY WordAssumption, HolderAssumption, Zenon DEF IInv, TypeOK, Awake, Goto
<1>2. Locks'
  BY HolderAssumption, Zenon DEF IInv, TypeOK, Locks, Awake, Goto
<1>3. States'
  BY Zenon DEF IInv, TypeOK, States, Awake, Goto
<1>4. Waits'
  BY HolderAssumption, Zenon DEF IInv, TypeOK, Locks, States, Waits, Elapsed, Awake, Goto
<1>5. Counts'
  BY HolderAssumption, WordAssumption, Zenon DEF IInv, TypeOK, Locks, Counts, Timing, Awake, Goto
<1> QED
  BY <1>1, <1>2, <1>3, <1>4, <1>5, Zenon DEF IInv

\* The invariant is kept by reacquiring tickslock.
LEMMA RelockKeeps ==
  ASSUME IInv, NEW t \in Thread, Relock(t)
  PROVE  IInv'
<1>1. TypeOK'
  BY WordAssumption, HolderAssumption, Zenon DEF IInv, TypeOK, Relock, Goto
<1>2. Locks'
  BY HolderAssumption, Zenon DEF IInv, TypeOK, Locks, Relock, Goto
<1>3. States'
  BY Zenon DEF IInv, TypeOK, States, Relock, Goto
<1>4. Waits'
  BY HolderAssumption, Zenon DEF IInv, TypeOK, Locks, States, Waits, Elapsed, Relock, Goto
<1>5. Counts'
  BY HolderAssumption, WordAssumption, Zenon DEF IInv, TypeOK, Locks, Counts, Timing, Relock, Goto
<1> QED
  BY <1>1, <1>2, <1>3, <1>4, <1>5, Zenon DEF IInv

\* The invariant is kept by the entry of the timer interrupt.
LEMMA TimerAcquireKeeps ==
  ASSUME IInv, TimerAcquire
  PROVE  IInv'
<1>1. TypeOK'
  BY WordAssumption, HolderAssumption, Zenon DEF IInv, TypeOK, TimerAcquire
<1>2. Locks'
  BY HolderAssumption, Zenon DEF IInv, TypeOK, Locks, TimerAcquire
<1>3. States'
  BY Zenon DEF IInv, TypeOK, States, TimerAcquire
<1>4. Waits'
  BY HolderAssumption, Zenon DEF IInv, TypeOK, Locks, States, Waits, Elapsed, TimerAcquire
<1>5. Counts'
  BY HolderAssumption, WordAssumption, Zenon DEF IInv, TypeOK, Locks, Counts, Timing, TimerAcquire
<1> QED
  BY <1>1, <1>2, <1>3, <1>4, <1>5, Zenon DEF IInv

\* The invariant is kept by ticks++.
LEMMA TimerTickKeeps ==
  ASSUME IInv, TimerTick
  PROVE  IInv'
<1>1. TypeOK'
  BY WordAssumption, HolderAssumption DEF IInv, TypeOK, TimerTick, Counts, Timing
<1>2. Locks'
  BY HolderAssumption, Zenon DEF IInv, TypeOK, Locks, TimerTick
<1>3. States'
  BY Zenon DEF IInv, TypeOK, States, TimerTick
<1>4. Waits'
  BY HolderAssumption, Zenon DEF IInv, TypeOK, Locks, States, Waits, Elapsed, TimerTick
<1>5. Counts'
  BY HolderAssumption, WordAssumption, SMTT(40) DEF IInv, TypeOK, Locks, Counts, Timing, TimerTick
<1> QED
  BY <1>1, <1>2, <1>3, <1>4, <1>5, Zenon DEF IInv

\* The invariant is kept by wakeup(&ticks).
LEMMA TimerWakeupKeeps ==
  ASSUME IInv, TimerWakeup
  PROVE  IInv'
<1>1. TypeOK'
  BY WordAssumption, HolderAssumption, Zenon DEF IInv, TypeOK, TimerWakeup, Wakened
<1>2. Locks'
  BY HolderAssumption, Zenon DEF IInv, TypeOK, Locks, TimerWakeup, Wakened
<1>3. States'
  BY Zenon DEF IInv, TypeOK, States, TimerWakeup, Wakened
<1>4. Waits'
  BY HolderAssumption, Zenon DEF IInv, TypeOK, Locks, States, Waits, Elapsed, TimerWakeup, Wakened
<1>5. Counts'
  BY HolderAssumption, WordAssumption, Zenon DEF IInv, TypeOK, Locks, Counts, Timing, TimerWakeup, Wakened
<1> QED
  BY <1>1, <1>2, <1>3, <1>4, <1>5, Zenon DEF IInv

\* The invariant is kept by the end of the timer interrupt.
LEMMA TimerReleaseKeeps ==
  ASSUME IInv, TimerRelease
  PROVE  IInv'
<1>1. TypeOK'
  BY WordAssumption, HolderAssumption, Zenon DEF IInv, TypeOK, TimerRelease
<1>2. Locks'
  BY HolderAssumption, Zenon DEF IInv, TypeOK, Locks, TimerRelease
<1>3. States'
  BY Zenon DEF IInv, TypeOK, States, TimerRelease
<1>4. Waits'
  BY HolderAssumption, Zenon DEF IInv, TypeOK, Locks, States, Waits, Elapsed, TimerRelease
<1>5. Counts'
  BY HolderAssumption, WordAssumption, Zenon DEF IInv, TypeOK, Locks, Counts, Timing, TimerRelease
<1> QED
  BY <1>1, <1>2, <1>3, <1>4, <1>5, Zenon DEF IInv

\* The invariant is kept by kill().
LEMMA KillKeeps ==
  ASSUME IInv, NEW t \in Thread, Kill(t)
  PROVE  IInv'
<1>1. TypeOK'
  BY WordAssumption, HolderAssumption, Zenon DEF IInv, TypeOK, Kill
<1>2. Locks'
  BY HolderAssumption, Zenon DEF IInv, TypeOK, Locks, Kill
<1>3. States'
  BY Zenon DEF IInv, TypeOK, States, Kill
<1>4. Waits'
  BY HolderAssumption, Zenon DEF IInv, TypeOK, Locks, States, Waits, Elapsed, Kill
<1>5. Counts'
  BY HolderAssumption, WordAssumption, Zenon DEF IInv, TypeOK, Locks, Counts, Timing, Kill
<1> QED
  BY <1>1, <1>2, <1>3, <1>4, <1>5, Zenon DEF IInv

-----------------------------------------------------------------------------
\* IInv holds in the initial state.
LEMMA Initially == Init => IInv
  BY WordAssumption, HolderAssumption
  DEF Init, IInv, TypeOK, Locks, States, Waits, Counts, Timing

\* IInv is an invariant of the two-lock protocol.
THEOREM Invariance == Spec => []IInv
<1>1. IInv /\ [Next]_vars => IInv'
  <2> SUFFICES ASSUME IInv, [Next]_vars PROVE IInv'
    BY Zenon
  <2>1. CASE TimerStep
    BY <2>1, TimerAcquireKeeps, TimerTickKeeps, TimerWakeupKeeps, TimerReleaseKeeps, Zenon
    DEF TimerStep
  <2>2. ASSUME NEW t \in Thread, SysSleep(t) \/ InCall(t) \/ Kill(t)
        PROVE  IInv'
    BY <2>2, SysSleepKeeps, AcquireKeeps, ReturnKeeps, LoopKeeps, SleepAcquireKeeps,
       SleepReleaseKeeps, SleepBlockKeeps, AwakeKeeps, RelockKeeps, KillKeeps, Zenon
    DEF InCall
  <2>3. CASE UNCHANGED vars
    BY <2>3, Zenon
    DEF vars, IInv, TypeOK, Locks, States, Waits, Counts, Timing, Elapsed
  <2> QED
    BY <2>1, <2>2, <2>3, Zenon DEF Next
<1> QED
  BY <1>1, Initially, PTL DEF Spec

\* Every variable keeps its type.
THEOREM TypeCorrect == Spec => []TypeOK
<1>1. IInv => TypeOK
  BY Zenon DEF IInv
<1> QED
  BY <1>1, Invariance, PTL

\* sleep() and wakeup() lose no wakeup, for any number of threads: acquiring
\* ptable.lock before releasing lk suffices.
THEOREM WakeupIsNotLost == Spec => []NoLostWakeup
<1>1. IInv => NoLostWakeup
  BY WordAssumption DEF IInv, TypeOK, Waits, NoLostWakeup, Elapsed
<1> QED
  BY <1>1, Invariance, PTL

-----------------------------------------------------------------------------
(* Ticks implements TimedSleep *)

\* In the loop, ticks - ticks0 is the number of ticks since the call, also
\* when the counter has wrapped around.
LEMMA ElapsedIsSlept ==
  ASSUME IInv, NEW t \in Thread, Timing(t)
  PROVE  Elapsed(t) = slept[t]
<1> DEFINE x == ticks - ticks0[t]
<1>1. /\ x \in Int /\ -M < x /\ x <= M
      /\ x = slept[t] \/ x = slept[t] - M
      /\ slept[t] \in 0..(M - 1)
  BY WordAssumption DEF IInv, TypeOK, Counts
<1>2. x % M = IF x < 0 THEN x + M ELSE IF x = M THEN 0 ELSE x
  BY <1>1, Modulo, Zenon
<1> QED
  BY <1>1, <1>2, WordAssumption DEF Elapsed

\* Steps that only show inside the call change nothing abstract.
LEMMA Stutter ==
  ASSUME IInv, NEW t \in Thread,
         \/ SysSleep(t) \/ Loop(t) \/ SleepAcquire(t) \/ SleepBlock(t) \/ Awake(t)
         \/ Relock(t)
  PROVE  UNCHANGED Timed!vars
<1>1. CASE SysSleep(t)
  BY <1>1, WordAssumption, HolderAssumption
  DEF IInv, TypeOK, Locks, States, Counts, SysSleep, Goto,
      Phase, Left, Counted, Timing, Timed!vars
<1>2. CASE Loop(t)
  BY <1>2, WordAssumption, HolderAssumption, Zenon
  DEF IInv, TypeOK, Locks, States, Counts, Loop, Goto,
      Phase, Left, Counted, Timing, Timed!vars
<1>3. CASE SleepAcquire(t)
  BY <1>3, WordAssumption, HolderAssumption, Zenon
  DEF IInv, TypeOK, Locks, States, Counts, SleepAcquire, Goto,
      Phase, Left, Counted, Timing, Timed!vars
<1>4. CASE SleepBlock(t)
  BY <1>4, WordAssumption, HolderAssumption
  DEF IInv, TypeOK, Locks, States, Counts, SleepBlock, Goto,
      Phase, Left, Counted, Timing, Timed!vars
<1>5. CASE Awake(t)
  BY <1>5, WordAssumption, HolderAssumption, Zenon
  DEF IInv, TypeOK, Locks, States, Counts, Awake, Goto,
      Phase, Left, Counted, Timing, Timed!vars
<1>6. CASE Relock(t)
  BY <1>6, WordAssumption, HolderAssumption, Zenon
  DEF IInv, TypeOK, Locks, States, Counts, Relock, Goto,
      Phase, Left, Counted, Timing, Timed!vars
<1> QED
  BY <1>1, <1>2, <1>3, <1>4, <1>5, <1>6, Zenon

\* Nor do the steps of the timer interrupt other than its wakeup().
LEMMA TimerStutter ==
  ASSUME IInv, TimerAcquire \/ TimerTick \/ TimerRelease
  PROVE  UNCHANGED Timed!vars
<1>1. CASE TimerAcquire
  BY <1>1, WordAssumption, HolderAssumption, Zenon
  DEF IInv, TypeOK, Locks, States, Counts, TimerAcquire,
      Phase, Left, Counted, Timing, Timed!vars
<1>2. CASE TimerTick
  BY <1>2, WordAssumption, HolderAssumption
  DEF IInv, TypeOK, Locks, States, Counts, TimerTick,
      Phase, Left, Counted, Timing, Timed!vars
<1>3. CASE TimerRelease
  BY <1>3, WordAssumption, HolderAssumption, Zenon
  DEF IInv, TypeOK, Locks, States, Counts, TimerRelease,
      Phase, Left, Counted, Timing, Timed!vars
<1> QED
  BY <1>1, <1>2, <1>3, Zenon

\* Reading ticks0 is the call of the abstract specification.
LEMMA AcquireMaps ==
  ASSUME IInv, NEW t \in Thread, Acquire(t)
  PROVE  Timed!Call(t)
<1>1. \A u \in Thread \ {t} : Phase(u)' = Phase(u) /\ Left(u)' = Left(u)
  BY HolderAssumption, Zenon DEF IInv, TypeOK, Locks, States, Counts, Acquire, Goto, Phase, Left, Counted, Timing
<1>2. Phase(t) = "out" /\ Phase(t)' = "in"
  BY Zenon DEF IInv, TypeOK, Locks, States, Counts, Acquire, Goto, Phase
<1>3. Left(t)' = want[t] /\ want[t] \in Wants
  BY HolderAssumption, WordAssumption DEF IInv, TypeOK, Locks, States, Counts, Acquire, Goto, Left, Counted, Timing
<1> QED
  BY <1>1, <1>2, <1>3, Zenon DEF Acquire, Timed!Call

\* Returning is the return of the abstract specification.
LEMMA ReturnMaps ==
  ASSUME IInv, NEW t \in Thread, Return(t)
  PROVE  Timed!Return(t)
<1>1. \A u \in Thread \ {t} : Phase(u)' = Phase(u) /\ Left(u)' = Left(u)
  BY HolderAssumption DEF IInv, TypeOK, Locks, States, Counts, Return, Goto, Phase, Left, Counted, Timing
<1>2. Phase(t) = "in" /\ Phase(t)' = "out" /\ Left(t)' = 0
  BY Zenon DEF IInv, TypeOK, Locks, States, Counts, Return, Goto, Phase, Left, Timing
<1>3. Elapsed(t) = slept[t] /\ Counted(t) = slept[t]
  BY ElapsedIsSlept, HolderAssumption DEF IInv, TypeOK, Locks, States, Counts, Return, Counted, Timing
<1>4. Left(t) = 0 \/ killed[t]
  BY <1>3, WordAssumption DEF IInv, TypeOK, Locks, States, Counts, Return, Left
<1> QED
  BY <1>1, <1>2, <1>4, Zenon DEF Return, Timed!Return

\* Releasing tickslock in sleep() is blocking.
LEMMA SleepReleaseMaps ==
  ASSUME IInv, NEW t \in Thread, SleepRelease(t)
  PROVE  Timed!Block(t)
<1>1. \A u \in Thread \ {t} : Phase(u)' = Phase(u) /\ Left(u)' = Left(u)
  BY HolderAssumption, Zenon DEF IInv, TypeOK, Locks, States, Counts, SleepRelease, Goto, Phase, Left, Counted, Timing
<1>2. Phase(t) = "in" /\ Phase(t)' = "blocked" /\ Left(t)' = Left(t)
  BY Zenon DEF IInv, TypeOK, Locks, States, Counts, SleepRelease, Goto, Phase, Left, Counted, Timing
<1>3. Elapsed(t) = slept[t] /\ Counted(t) = slept[t]
  BY ElapsedIsSlept, HolderAssumption DEF IInv, TypeOK, Locks, States, Counts, SleepRelease, Counted, Timing
<1>4. Left(t) > 0
  BY <1>3, WordAssumption DEF IInv, TypeOK, Locks, States, Counts, Waits, SleepRelease, Left, Timing
<1> QED
  BY <1>1, <1>2, <1>4, Zenon DEF SleepRelease, Timed!Block

\* wakeup(&ticks) is the tick of the abstract specification.
LEMMA TimerWakeupMaps ==
  ASSUME IInv, TimerWakeup
  PROVE  Timed!Tick
  BY WordAssumption, HolderAssumption
  DEF IInv, TypeOK, Locks, States, Counts, TimerWakeup, Wakened, Phase, Left, Counted, Timing, Timed!Tick

\* kill() is the kill of the abstract specification.
LEMMA KillMaps ==
  ASSUME IInv, NEW t \in Thread, Kill(t)
  PROVE  Timed!Kill(t)
  BY WordAssumption, HolderAssumption, Zenon
  DEF IInv, TypeOK, Locks, States, Counts, Kill, Phase, Left, Counted, Timing, Timed!Kill

\* sleep() and wakeup() with their two locks implement the atomic sleep(n),
\* for any number of threads and any size of the tick counter.
THEOREM Refinement == Spec => ImplementsTimedSleep
<1>1. Init => Timed!Init
  BY Zenon DEF Init, Timed!Init, Phase, Left, Timing
<1>2. IInv /\ [Next]_vars => [Timed!Next]_(Timed!vars)
  <2> SUFFICES ASSUME IInv, [Next]_vars PROVE [Timed!Next]_(Timed!vars)
    BY Zenon
  <2>1. CASE \E t \in Thread : SysSleep(t) \/ InCall(t) \/ Kill(t)
    BY <2>1, Stutter, AcquireMaps, ReturnMaps, SleepReleaseMaps, KillMaps, Zenon
    DEF InCall, Timed!Next
  <2>2. CASE TimerStep
    BY <2>2, TimerStutter, TimerWakeupMaps, Zenon DEF TimerStep, Timed!Next
  <2>3. CASE UNCHANGED vars
    BY <2>3 DEF vars, Timed!vars, Phase, Left, Counted, Timing
  <2> QED
    BY <2>1, <2>2, <2>3, Zenon DEF Next
<1> QED
  BY <1>1, <1>2, Invariance, PTL DEF Spec, ImplementsTimedSleep, Timed!Spec

=============================================================================
