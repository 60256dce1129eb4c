---------------------------- MODULE SpinLockProofs ---------------------------
(***************************************************************************)
(* Proofs about SpinLock, for any number of processors and processes: a    *)
(* device is used by one thread at a time, a processor never waits for a   *)
(* lock that it holds, the checks of spinlock.c and sched() never panic,   *)
(* and a thread gets back its own interrupt flag.                          *)
(***************************************************************************)
EXTENDS SpinLock, FiniteSetTheorems, TLAPS

\* The names of processors, of processes and of no processor differ.
Names == CPU \cap Thread = {} /\ NoCPU \notin CPU

Label == {"loop", "idle", "spin", "kernel", "indev", "inboth", "sched", "resumed", "unlock",
          "forkret", "trapret", "hin", "hout", "pick"}

Types ==
  /\ run \in [CPU -> Ctx] /\ eif \in [CPU -> BOOLEAN] /\ ncli \in [CPU -> Int]
  /\ intena \in [CPU -> BOOLEAN] /\ holder \in [Lock -> CPU \cup {NoCPU}]
  /\ pc \in [Ctx -> Label] /\ want \in [Ctx -> Lock] /\ cont \in [Ctx -> Label \cup {"none"}]
  /\ handler \in [Ctx -> BOOLEAN] /\ saved \in [Ctx -> BOOLEAN]

SpinsFor(x, label) == pc[x] = "spin" /\ cont[x] = label

\* What holds of every thread and scheduler
CtxOK(x) ==
  /\ pc[x] = "spin" => \/ want[x] = "dev" /\ cont[x] = "indev"
                       \/ want[x] = "ptable" /\ cont[x] \in {"inboth", "sched", "pick"}
  /\ pc[x] \in {"hin", "hout"} => handler[x]
  /\ pc[x] = "kernel" => ~handler[x]
  /\ pc[x] = "resumed" => (saved[x] <=> ~handler[x])
  /\ x \in Thread => pc[x] \notin {"loop", "idle", "pick"} /\ ~SpinsFor(x, "pick")
  /\ x \in CPU => /\ pc[x] \in {"loop", "idle", "pick", "hin", "hout", "indev", "inboth", "spin"}
                  /\ ~SpinsFor(x, "sched")
                  /\ \/ pc[x] \in {"indev", "inboth"}
                     \/ SpinsFor(x, "indev") \/ SpinsFor(x, "inboth")
                     => handler[x]

\* the locks that a processor holds, how deep its pushcli() nest, and its flag,
Holds(c, dev, ptable, depth) ==
  /\ (holder["dev"] = c <=> dev) /\ (holder["ptable"] = c <=> ptable)
  /\ ncli[c] = depth /\ (depth > 0 => ~eif[c])

\* which depend on where the context that it runs is,
CpuOK(c) ==
  /\ pc[run[c]] \in {"loop", "idle", "kernel", "trapret", "hin", "hout"} => Holds(c, FALSE, FALSE, 0)
  /\ pc[run[c]] = "spin" /\ cont[run[c]] # "inboth" => Holds(c, FALSE, FALSE, 1)
  /\ pc[run[c]] = "indev" => Holds(c, TRUE, FALSE, 1)
  /\ SpinsFor(run[c], "inboth") => Holds(c, TRUE, FALSE, 2)
  /\ pc[run[c]] = "inboth" => Holds(c, TRUE, TRUE, 2)
  /\ pc[run[c]] \in {"sched", "resumed", "unlock", "forkret", "pick"} => Holds(c, FALSE, TRUE, 1)
  /\ pc[run[c]] \in {"kernel", "idle"} => eif[c]
  /\ pc[run[c]] \in {"hin", "hout"} => ~eif[c]
  /\ \/ pc[run[c]] \in {"indev", "inboth", "sched", "unlock"}
     \/ pc[run[c]] = "spin" /\ ~SpinsFor(run[c], "pick")
     => (intena[c] <=> ~handler[run[c]])

\* and who runs where
Placed ==
  /\ \A c \in CPU : run[c] \in {c} \cup Thread
  /\ \A c, d \in CPU : run[c] = run[d] => c = d
  /\ \A c \in CPU : run[c] # c => pc[c] = "pick"
  /\ \A t \in Thread : (\A c \in CPU : run[c] # t) => pc[t] \in {"resumed", "forkret"}

IInv == Types /\ Placed /\ (\A x \in Ctx : CtxOK(x)) /\ (\A c \in CPU : CpuOK(c))

-----------------------------------------------------------------------------
(* IInv is inductive *)

LEMMA InitIInv ==
  ASSUME Names, Init
  PROVE  IInv
<1>1. Types
  BY DEF Init, Types, Ctx, Lock, Label
<1>2. Placed
  BY Zenon DEF Names, Init, Placed, Ctx
<1>3. \A x \in Ctx : CtxOK(x)
  BY Zenon DEF Names, Init, CtxOK, Ctx, SpinsFor
<1>4. \A c \in CPU : CpuOK(c)
  BY Zenon DEF Names, Init, CpuOK, Holds, Ctx, SpinsFor, Lock, NoCPU
<1> QED
  BY <1>1, <1>2, <1>3, <1>4, Zenon DEF IInv

\* CpuOK depends only on the processor, its locks and what it runs.
LEMMA CpuSame ==
  ASSUME NEW c \in CPU, CpuOK(c), run'[c] = run[c],
         pc'[run[c]] = pc[run[c]], cont'[run[c]] = cont[run[c]], handler'[run[c]] = handler[run[c]],
         eif'[c] = eif[c], ncli'[c] = ncli[c], intena'[c] = intena[c],
         holder'["dev"] = c <=> holder["dev"] = c,
         holder'["ptable"] = c <=> holder["ptable"] = c
  PROVE  CpuOK(c)'
<1>1. SpinsFor(run[c], "inboth")' <=> SpinsFor(run[c], "inboth")
  BY Zenon DEF SpinsFor
<1>2. SpinsFor(run[c], "pick")' <=> SpinsFor(run[c], "pick")
  BY Zenon DEF SpinsFor
<1>3. /\ Holds(c, FALSE, FALSE, 0)' <=> Holds(c, FALSE, FALSE, 0)
      /\ Holds(c, FALSE, FALSE, 1)' <=> Holds(c, FALSE, FALSE, 1)
      /\ Holds(c, TRUE, FALSE, 1)' <=> Holds(c, TRUE, FALSE, 1)
      /\ Holds(c, TRUE, FALSE, 2)' <=> Holds(c, TRUE, FALSE, 2)
      /\ Holds(c, TRUE, TRUE, 2)' <=> Holds(c, TRUE, TRUE, 2)
      /\ Holds(c, FALSE, TRUE, 1)' <=> Holds(c, FALSE, TRUE, 1)
  BY Zenon DEF Holds
<1> QED
  BY <1>1, <1>2, <1>3, ZenonT(60) DEF CpuOK

\* A step that touches one processor and what it runs preserves IInv if it
\* preserves what IInv says of the two.
LEMMA LocalStep ==
  ASSUME Names, IInv, Types', NEW c \in CPU, run' = run,
         \A x \in Ctx \ {run[c]} : /\ pc'[x] = pc[x] /\ want'[x] = want[x] /\ cont'[x] = cont[x]
                                   /\ handler'[x] = handler[x] /\ saved'[x] = saved[x],
         \A d \in CPU \ {c} : /\ eif'[d] = eif[d] /\ ncli'[d] = ncli[d] /\ intena'[d] = intena[d]
                              /\ holder'["dev"] = d <=> holder["dev"] = d
                              /\ holder'["ptable"] = d <=> holder["ptable"] = d,
         CtxOK(run[c])', CpuOK(c)'
  PROVE  IInv'
<1>1. ASSUME NEW x \in Ctx
      PROVE  CtxOK(x)'
  <2>1. CASE x = run[c]
    BY <2>1, Zenon
  <2>2. CASE x # run[c]
    BY <1>1, <2>2 DEF IInv, CtxOK, SpinsFor
  <2> QED
    BY <2>1, <2>2, Zenon
<1>2. ASSUME NEW d \in CPU
      PROVE  CpuOK(d)'
  <2>1. CASE d = c
    BY <2>1, Zenon
  <2>2. CASE d # c
    <3>1. run[d] \in Ctx /\ run[d] # run[c]
      BY <1>2, <2>2 DEF IInv, Types, Placed
    <3>2. CpuOK(d)
      BY Zenon DEF IInv
    <3> QED
      BY <2>2, <3>1, <3>2, CpuSame, Zenon
  <2> QED
    BY <2>1, <2>2, Zenon
<1>3. Placed'
  <2>1. ASSUME NEW d \in CPU, run[d] # d
        PROVE  pc'[d] = "pick"
    <3>1. d # run[c]
      BY <2>1 DEF Names, IInv, Placed
    <3> QED
      BY <2>1, <3>1 DEF IInv, Placed, Ctx
  <2>2. ASSUME NEW t \in Thread, \A d \in CPU : run[d] # t
        PROVE  pc'[t] \in {"resumed", "forkret"}
    BY <2>2, Zenon DEF IInv, Placed, Ctx
  <2> QED
    BY <2>1, <2>2 DEF IInv, Placed
<1> QED
  BY <1>1, <1>2, <1>3, Zenon DEF IInv

\* What is known of a processor and the context that it runs.
LEMMA Here ==
  ASSUME IInv, NEW c \in CPU
  PROVE  /\ CtxOK(run[c]) /\ CpuOK(c) /\ run[c] \in Ctx /\ run[c] \in {c} \cup Thread
         /\ (run[c] \in Thread \/ run[c] \in CPU)
         /\ pc[run[c]] \in Label /\ handler[run[c]] \in BOOLEAN /\ saved[run[c]] \in BOOLEAN
         /\ eif[c] \in BOOLEAN /\ intena[c] \in BOOLEAN /\ ncli[c] \in Int
BY DEF IInv, Types, Placed, Ctx


\* What acquire() needs, to go on at label with the lock.
MayWait(c, l, label) ==
  /\ holder["ptable"] # c
  /\ \/ l = "dev" /\ label = "indev" /\ ncli[c] = 0 /\ holder["dev"] # c
     \/ l = "ptable" /\ label \in {"sched", "pick"} /\ ncli[c] = 0 /\ holder["dev"] # c
     \/ l = "ptable" /\ label = "inboth" /\ ncli[c] = 1 /\ holder["dev"] = c
  /\ label # "pick" /\ ncli[c] = 0 => (eif[c] <=> ~handler[run[c]])
  /\ label # "pick" /\ ncli[c] # 0 => (intena[c] <=> ~handler[run[c]])
  /\ run[c] \in Thread => label # "pick"
  /\ run[c] \in CPU => label # "sched" /\ (label # "pick" => handler[run[c]])

\* pushcli() in acquire() leaves a state in which to wait for the lock.
LEMMA AcquireStep ==
  ASSUME Names, IInv, NEW c \in CPU, NEW l \in Lock, NEW label \in Label, Acquire(c, l, label),
         MayWait(c, l, label)
  PROVE  IInv'
<1>1. run[c] \in Ctx
  BY Zenon DEF IInv, Types
<1>2. Types'
  BY <1>1 DEF IInv, Types, Acquire, Goto, Remember, Cli, Label
<1>3. /\ pc'[run[c]] = "spin" /\ want'[run[c]] = l /\ cont'[run[c]] = label
      /\ handler' = handler /\ saved' = saved /\ run' = run /\ holder' = holder
      /\ ~eif'[c] /\ ncli'[c] = ncli[c] + 1
      /\ ncli[c] = 0 => intena'[c] = eif[c]
      /\ ncli[c] # 0 => intena'[c] = intena[c]
  BY <1>1, Zenon DEF IInv, Types, Acquire, Goto, Remember, Cli
<1>4. CtxOK(run[c])'
  BY <1>3, Zenon DEF CtxOK, MayWait, SpinsFor
<1>5. CpuOK(c)'
  <2>1. CASE label = "inboth"
    BY <1>3, <2>1 DEF CpuOK, Holds, MayWait, SpinsFor
  <2>2. CASE label # "inboth"
    BY <1>3, <2>2 DEF CpuOK, Holds, MayWait, SpinsFor
  <2> QED
    BY <2>1, <2>2, Zenon
<1>6. \A x \in Ctx \ {run[c]} : /\ pc'[x] = pc[x] /\ want'[x] = want[x] /\ cont'[x] = cont[x]
                                /\ handler'[x] = handler[x] /\ saved'[x] = saved[x]
  BY Zenon DEF IInv, Types, Acquire, Goto
<1>7. \A d \in CPU \ {c} : /\ eif'[d] = eif[d] /\ ncli'[d] = ncli[d] /\ intena'[d] = intena[d]
                           /\ holder'["dev"] = d <=> holder["dev"] = d
                           /\ holder'["ptable"] = d <=> holder["ptable"] = d
  BY Zenon DEF IInv, Types, Acquire, Cli
<1> QED
  BY <1>2, <1>3, <1>4, <1>5, <1>6, <1>7, LocalStep, Zenon

\* What release() needs, to go on at label without the lock.
MayGo(c, l, label) ==
  /\ holder[l] = c /\ ~eif[c]
  /\ \/ l = "ptable" /\ label = "indev" /\ ncli[c] = 2 /\ holder["dev"] = c
     \/ l = "dev" /\ label = "sched" /\ ncli[c] = 2 /\ holder["ptable"] = c
     \/ l = "ptable" /\ label \in {"hout", "kernel", "loop", "trapret"} /\ ncli[c] = 1 /\ holder["dev"] # c
     \/ l = "dev" /\ label \in {"hout", "kernel"} /\ ncli[c] = 1 /\ holder["ptable"] # c
  /\ label \in {"hout", "kernel", "indev", "sched"} => (intena[c] <=> ~handler[run[c]])
  /\ label = "hout" => handler[run[c]]
  /\ label = "kernel" => ~handler[run[c]]
  /\ run[c] \in Thread => label # "loop"
  /\ run[c] \in CPU => label \in {"loop", "hout", "indev"} /\ (label = "indev" => handler[run[c]])

\* popcli() in release() leaves the state that the code after it needs.
LEMMA ReleaseStep ==
  ASSUME Names, IInv, NEW c \in CPU, NEW l \in Lock, NEW label \in Label, Release(c, l, label),
         MayGo(c, l, label)
  PROVE  IInv'
<1>1. run[c] \in Ctx
  BY Zenon DEF IInv, Types
<1>2. Types'
  BY <1>1 DEF IInv, Types, Release, Goto
<1>3. /\ pc'[run[c]] = label /\ want' = want /\ cont' = cont
      /\ handler' = handler /\ saved' = saved /\ run' = run /\ intena' = intena
      /\ ncli'[c] = ncli[c] - 1 /\ (eif'[c] <=> eif[c] \/ (ncli[c] = 1 /\ intena[c]))
      /\ \A k \in Lock : holder'[k] = IF k = l THEN NoCPU ELSE holder[k]
  BY <1>1, Zenon DEF IInv, Types, Release, Goto
<1>4. CtxOK(run[c])'
  BY <1>3, Zenon DEF CtxOK, MayGo, SpinsFor
<1>5. CpuOK(c)'
  <2>1. c # NoCPU /\ "dev" \in Lock /\ "ptable" \in Lock
    BY Zenon DEF Names, Lock
  <2>2. CASE label \in {"indev", "sched"}
    BY <1>3, <2>1, <2>2 DEF CpuOK, Holds, MayGo, SpinsFor
  <2>3. CASE label \in {"hout", "kernel", "loop", "trapret"}
    BY <1>3, <2>1, <2>3 DEF CpuOK, Holds, MayGo, SpinsFor
  <2> QED
    BY <2>2, <2>3, Zenon DEF MayGo
<1>6. \A x \in Ctx \ {run[c]} : /\ pc'[x] = pc[x] /\ want'[x] = want[x] /\ cont'[x] = cont[x]
                                /\ handler'[x] = handler[x] /\ saved'[x] = saved[x]
  BY Zenon DEF IInv, Types, Release, Goto
<1>7. \A d \in CPU \ {c} : /\ eif'[d] = eif[d] /\ ncli'[d] = ncli[d] /\ intena'[d] = intena[d]
                           /\ holder'["dev"] = d <=> holder["dev"] = d
                           /\ holder'["ptable"] = d <=> holder["ptable"] = d
  <2>1. \A d \in CPU \ {c} : eif'[d] = eif[d] /\ ncli'[d] = ncli[d] /\ intena'[d] = intena[d]
    BY Zenon DEF IInv, Types, Release
  <2> QED
    BY <1>3, <2>1 DEF Names, Lock, MayGo
<1> QED
  BY <1>2, <1>3, <1>4, <1>5, <1>6, <1>7, LocalStep, Zenon

-----------------------------------------------------------------------------
(* One lemma per action *)

\* A system call starts to use a device, or gives up the processor.
LEMMA SyscallStep ==
  ASSUME Names, IInv, NEW c \in CPU, Syscall(c)
  PROVE  IInv'
<1>1. pc[run[c]] = "kernel"
  BY Zenon DEF Syscall, At
<1>2. MayWait(c, "dev", "indev") /\ MayWait(c, "ptable", "sched")
  BY <1>1, Here, Zenon DEF Names, MayWait, CtxOK, CpuOK, Holds
<1>3. Acquire(c, "dev", "indev") \/ Acquire(c, "ptable", "sched")
  BY Zenon DEF Syscall
<1> QED
  BY <1>2, <1>3, AcquireStep, Zenon DEF Lock, Label

\* The critical section of a device, with wakeup() and sleep() inside it.
LEMMA DeviceStep ==
  ASSUME Names, IInv, NEW c \in CPU, Device(c)
  PROVE  IInv'
<1>1. CASE At(c, "indev") /\ Acquire(c, "ptable", "inboth")
  <2>1. MayWait(c, "ptable", "inboth")
    BY <1>1, Here DEF At, Names, MayWait, CtxOK, CpuOK, Holds
  <2> QED
    BY <1>1, <2>1, AcquireStep, Zenon DEF Lock, Label
<1>2. CASE At(c, "inboth") /\ Release(c, "ptable", "indev")
  <2>1. MayGo(c, "ptable", "indev")
    BY <1>2, Here DEF At, Names, MayGo, CtxOK, CpuOK, Holds
  <2> QED
    BY <1>2, <2>1, ReleaseStep, Zenon DEF Lock, Label
<1>3. CASE At(c, "inboth") /\ ~handler[run[c]] /\ Release(c, "dev", "sched")
  <2>1. MayGo(c, "dev", "sched")
    BY <1>3, Here DEF At, Names, MayGo, CtxOK, CpuOK, Holds
  <2> QED
    BY <1>3, <2>1, ReleaseStep, Zenon DEF Lock, Label
<1>4. CASE At(c, "indev") /\ Release(c, "dev", Outside(c))
  <2>1. MayGo(c, "dev", Outside(c))
    BY <1>4, Here DEF At, Names, MayGo, Outside, CtxOK, CpuOK, Holds
  <2> QED
    BY <1>4, <2>1, ReleaseStep, Zenon DEF Lock, Label, Outside
<1> QED
  BY <1>1, <1>2, <1>3, <1>4, Zenon DEF Device

\* The atomic exchange of acquire() that finds the lock free.
LEMMA XchgStep ==
  ASSUME Names, IInv, NEW c \in CPU, Xchg(c)
  PROVE  IInv'
<1> DEFINE x == run[c]
<1>1. x \in Ctx /\ want[x] \in Lock /\ cont[x] \in {"indev", "inboth", "sched", "pick"}
      /\ pc[x] = "spin" /\ holder[want[x]] = NoCPU
  BY Here, Zenon DEF Xchg, At, IInv, Types, CtxOK
<1>2. /\ run' = run /\ eif' = eif /\ ncli' = ncli /\ intena' = intena /\ want' = want
      /\ cont' = cont /\ handler' = handler /\ saved' = saved
      /\ pc' = [pc EXCEPT ![x] = cont[x]] /\ holder' = [holder EXCEPT ![want[x]] = c]
  BY Zenon DEF Xchg, Goto, cpus
<1>3. Types'
  BY <1>1, <1>2, Zenon DEF IInv, Types, Label
<1>4. pc'[x] = cont[x] /\ \A l \in Lock : holder'[l] = IF l = want[x] THEN c ELSE holder[l]
  BY <1>1, <1>2, Zenon DEF IInv, Types
<1>5. CtxOK(x)'
  BY <1>1, <1>2, <1>4, Here, Zenon DEF CtxOK, SpinsFor
<1>6. CpuOK(c)'
  <2>1. c # NoCPU /\ "dev" \in Lock /\ "ptable" \in Lock
    BY Zenon DEF Names, Lock
  <2>2. ~SpinsFor(x, "pick") => (intena[c] <=> ~handler[x])
    BY <1>1, Here, Zenon DEF CpuOK
  <2>3. CASE cont[x] = "inboth"
    <3>1. Holds(c, TRUE, FALSE, 2) /\ want[x] = "ptable"
      BY <1>1, <2>3, Here, ZenonT(60) DEF CtxOK, CpuOK, SpinsFor
    <3> QED
      BY <1>1, <1>2, <1>4, <2>1, <2>2, <2>3, <3>1, Zenon DEF CpuOK, Holds, SpinsFor
  <2>4. CASE cont[x] = "indev"
    <3>1. Holds(c, FALSE, FALSE, 1) /\ want[x] = "dev"
      BY <1>1, <2>4, Here, ZenonT(60) DEF CtxOK, CpuOK
    <3> QED
      BY <1>1, <1>2, <1>4, <2>1, <2>2, <2>4, <3>1, Zenon DEF CpuOK, Holds, SpinsFor
  <2>5. CASE cont[x] \in {"sched", "pick"}
    <3>1. Holds(c, FALSE, FALSE, 1) /\ want[x] = "ptable"
      BY <1>1, <2>5, Here, Zenon DEF CtxOK, CpuOK
    <3> QED
      BY <1>1, <1>2, <1>4, <2>1, <2>2, <2>5, <3>1, Zenon DEF CpuOK, Holds, SpinsFor
  <2> QED
    BY <1>1, <2>3, <2>4, <2>5, Zenon
<1>7. \A y \in Ctx \ {x} : pc'[y] = pc[y]
  BY <1>1, <1>2, Zenon DEF IInv, Types
<1>8. \A d \in CPU \ {c} : /\ holder'["dev"] = d <=> holder["dev"] = d
                           /\ holder'["ptable"] = d <=> holder["ptable"] = d
  BY <1>1, <1>4 DEF Names, Lock
<1> QED
  BY <1>2, <1>3, <1>5, <1>6, <1>7, <1>8, LocalStep, Zenon

\* A handler takes the lock of its device.
LEMMA HandlerStep ==
  ASSUME Names, IInv, NEW c \in CPU, Handler(c)
  PROVE  IInv'
<1>1. pc[run[c]] = "hin" /\ Acquire(c, "dev", "indev")
  BY Zenon DEF Handler, At
<1>2. MayWait(c, "dev", "indev")
  BY <1>1, Here, Zenon DEF Names, MayWait, CtxOK, CpuOK, Holds
<1> QED
  BY <1>1, <1>2, AcquireStep, Zenon DEF Lock, Label

\* The timer makes a process yield.
LEMMA TimerStep ==
  ASSUME Names, IInv, NEW c \in CPU, TimerIntr(c)
  PROVE  IInv'
<1>1. pc[run[c]] = "hout" /\ Acquire(c, "ptable", "sched") /\ run[c] \in Thread
  BY Zenon DEF TimerIntr, At
<1>2. MayWait(c, "ptable", "sched")
  BY <1>1, Here, Zenon DEF Names, MayWait, CtxOK, CpuOK, Holds
<1> QED
  BY <1>1, <1>2, AcquireStep, Zenon DEF Lock, Label

\* The scheduler takes ptable.lock,
LEMMA ScanStep ==
  ASSUME Names, IInv, NEW c \in CPU, Scan(c)
  PROVE  IInv'
<1>1. pc[run[c]] = "idle" /\ Acquire(c, "ptable", "pick")
  BY Zenon DEF Scan, At
<1>2. MayWait(c, "ptable", "pick")
  BY <1>1, Here, Zenon DEF Names, MayWait, CtxOK, CpuOK, Holds
<1> QED
  BY <1>1, <1>2, AcquireStep, Zenon DEF Lock, Label

\* and releases it,
LEMMA ScanDoneStep ==
  ASSUME Names, IInv, NEW c \in CPU, ScanDone(c)
  PROVE  IInv'
<1>1. pc[run[c]] = "pick" /\ Release(c, "ptable", "loop")
  BY Zenon DEF ScanDone, At
<1>2. MayGo(c, "ptable", "loop")
  BY <1>1, Here DEF Names, MayGo, CtxOK, CpuOK, Holds
<1> QED
  BY <1>1, <1>2, ReleaseStep, Zenon DEF Lock, Label

\* and so does a new process.
LEMMA ForkretStep ==
  ASSUME Names, IInv, NEW c \in CPU, Forkret(c)
  PROVE  IInv'
<1>1. pc[run[c]] = "forkret" /\ Release(c, "ptable", "trapret")
  BY Zenon DEF Forkret, At
<1>2. MayGo(c, "ptable", "trapret")
  BY <1>1, Here DEF Names, MayGo, CtxOK, CpuOK, Holds
<1> QED
  BY <1>1, <1>2, ReleaseStep, Zenon DEF Lock, Label

\* An interrupt enters a handler.
LEMMA InterruptStep ==
  ASSUME Names, IInv, NEW c \in CPU, Interrupt(c)
  PROVE  IInv'
<1> DEFINE x == run[c]
<1>1. x \in Ctx /\ pc[x] \in {"kernel", "idle"} /\ (x \in Thread => x \notin CPU)
  BY Here, Zenon DEF Interrupt, At, Names
<1>2. /\ run' = run /\ ncli' = ncli /\ intena' = intena /\ holder' = holder /\ want' = want
      /\ cont' = cont /\ saved' = saved
  BY Zenon DEF Interrupt
<1>3. Types'
  BY <1>1, <1>2, Zenon DEF IInv, Types, Label, Interrupt, Goto
<1>4. /\ pc'[x] = "hin" /\ eif'[c] = FALSE /\ handler'[x] = TRUE
      /\ \A d \in CPU \ {c} : eif'[d] = eif[d]
      /\ \A y \in Ctx \ {x} : pc'[y] = pc[y] /\ handler'[y] = handler[y]
  BY <1>1, Zenon DEF IInv, Types, Interrupt, Goto
<1>5. CtxOK(x)'
  BY <1>1, <1>2, <1>4, Here, ZenonT(60) DEF CtxOK, SpinsFor
<1>6. CpuOK(c)'
  <2>1. Holds(c, FALSE, FALSE, 0)
    BY <1>1, Here, Zenon DEF CpuOK
  <2>2. run'[c] = x /\ Holds(c, FALSE, FALSE, 0)'
    BY <1>2, <2>1 DEF Holds
  <2> QED
    BY <1>4, <2>2, Zenon DEF CpuOK, SpinsFor
<1> QED
  BY <1>2, <1>3, <1>4, <1>5, <1>6, LocalStep, Zenon

\* iret leaves a handler, or starts a new process.
LEMMA IretStep ==
  ASSUME Names, IInv, NEW c \in CPU, Iret(c)
  PROVE  IInv'
<1> DEFINE x == run[c]
<1>1. x \in Ctx /\ pc[x] \in {"hout", "trapret"} /\ (x \in Thread => x \notin CPU)
  BY Here, Zenon DEF Iret, At, Names
<1>2. /\ run' = run /\ ncli' = ncli /\ intena' = intena /\ holder' = holder /\ want' = want
      /\ cont' = cont /\ saved' = saved
  BY Zenon DEF Iret
<1>3. Types'
  BY <1>1, <1>2, Zenon DEF IInv, Types, Label, Iret, Goto
<1>4. /\ pc'[x] = (IF x \in CPU THEN "idle" ELSE "kernel") /\ eif'[c] = TRUE /\ handler'[x] = FALSE
      /\ \A d \in CPU \ {c} : eif'[d] = eif[d]
      /\ \A y \in Ctx \ {x} : pc'[y] = pc[y] /\ handler'[y] = handler[y]
  BY <1>1, Zenon DEF IInv, Types, Iret, Goto
<1>5. CtxOK(x)'
  BY <1>1, <1>2, <1>4, Here, Zenon DEF CtxOK, SpinsFor
<1>6. CpuOK(c)'
  <2>1. Holds(c, FALSE, FALSE, 0)
    BY <1>1, Here, Zenon DEF CpuOK
  <2>2. run'[c] = x /\ Holds(c, FALSE, FALSE, 0)'
    BY <1>2, <2>1 DEF Holds
  <2> QED
    BY <1>4, <2>2, Zenon DEF CpuOK, SpinsFor
<1> QED
  BY <1>2, <1>3, <1>4, <1>5, <1>6, LocalStep, Zenon

\* sti() in scheduler().
LEMMA StiStep ==
  ASSUME Names, IInv, NEW c \in CPU, Sti(c)
  PROVE  IInv'
<1> DEFINE x == run[c]
<1>1. x \in Ctx /\ pc[x] \in {"loop"} /\ (x \in Thread => x \notin CPU)
  BY Here, Zenon DEF Sti, At, Names
<1>2. /\ run' = run /\ ncli' = ncli /\ intena' = intena /\ holder' = holder /\ want' = want
      /\ cont' = cont /\ saved' = saved /\ handler' = handler
  BY Zenon DEF Sti
<1>3. Types'
  BY <1>1, <1>2, Zenon DEF IInv, Types, Label, Sti, Goto
<1>4. /\ pc'[x] = "idle" /\ eif'[c] = TRUE
      /\ \A d \in CPU \ {c} : eif'[d] = eif[d]
      /\ \A y \in Ctx \ {x} : pc'[y] = pc[y] /\ handler'[y] = handler[y]
  BY <1>1, <1>2, Zenon DEF IInv, Types, Sti, Goto
<1>5. CtxOK(x)'
  BY <1>1, <1>2, <1>4, Here, Zenon DEF CtxOK, SpinsFor
<1>6. CpuOK(c)'
  <2>1. Holds(c, FALSE, FALSE, 0)
    BY <1>1, Here, Zenon DEF CpuOK
  <2>2. run'[c] = x /\ Holds(c, FALSE, FALSE, 0)'
    BY <1>2, <2>1 DEF Holds
  <2> QED
    BY <1>4, <2>2, Zenon DEF CpuOK, SpinsFor
<1> QED
  BY <1>2, <1>3, <1>4, <1>5, <1>6, LocalStep, Zenon

\* A thread that runs again restores the flag it saved, and releases the lock.
LEMMA ResumedStep ==
  ASSUME Names, IInv, NEW c \in CPU, Resumed(c)
  PROVE  IInv'
<1> DEFINE x == run[c]
<1>1. CASE /\ At(c, "resumed") /\ intena' = Restored(c) /\ Goto(c, "unlock")
           /\ UNCHANGED <<run, eif, ncli, holder, want, cont, handler, saved>>
  <2>1. x \in Ctx /\ pc[x] = "resumed"
    BY <1>1, Here, Zenon DEF At
  <2>2. Types'
    BY <1>1, <2>1, Zenon DEF IInv, Types, Label, Goto, Restored
  <2>3. /\ pc'[x] = "unlock" /\ intena'[c] = saved[x]
        /\ \A d \in CPU \ {c} : intena'[d] = intena[d]
        /\ \A y \in Ctx \ {x} : pc'[y] = pc[y]
    BY <1>1, <2>1, Zenon DEF IInv, Types, Goto, Restored
  <2>4. CtxOK(x)'
    BY <1>1, <2>1, <2>3, Here, Zenon DEF CtxOK, SpinsFor
  <2>5. CpuOK(c)'
    BY <1>1, <2>1, <2>3, Here, ZenonT(60) DEF CtxOK, CpuOK, Holds, SpinsFor
  <2> QED
    BY <1>1, <2>2, <2>3, <2>4, <2>5, LocalStep, Zenon
<1>2. CASE At(c, "unlock") /\ Release(c, "ptable", Outside(c))
  <2>0. Holds(c, FALSE, TRUE, 1) /\ (intena[c] <=> ~handler[x]) /\ x \notin CPU
    BY <1>2, Here, Zenon DEF At, CtxOK, CpuOK
  <2>1. MayGo(c, "ptable", Outside(c))
    BY <2>0 DEF MayGo, Outside, Holds
  <2> QED
    BY <1>2, <2>1, ReleaseStep, Zenon DEF Lock, Label, Outside
<1> QED
  BY <1>1, <1>2, Zenon DEF Resumed

\* sched() hands the processor, and ptable.lock with it, to the scheduler.
LEMMA SchedStep ==
  ASSUME Names, IInv, NEW c \in CPU, Sched(c)
  PROVE  IInv'
<1> DEFINE t == run[c]
<1>1. t \in Thread /\ t \in Ctx /\ c \in Ctx /\ c # t /\ t \notin CPU /\ pc[t] = "sched" /\ pc[c] = "pick"
  <2>1. pc[t] = "sched"
    BY Zenon DEF Sched, At
  <2>2. t \in Thread
    BY <2>1, Here, Zenon DEF CtxOK
  <2>3. t \notin CPU /\ t # c
    BY <2>2, Zenon DEF Names
  <2> QED
    BY <2>1, <2>2, <2>3, Zenon DEF IInv, Placed, Ctx
<1>2. /\ eif' = eif /\ ncli' = ncli /\ intena' = intena /\ holder' = holder /\ want' = want
      /\ cont' = cont /\ handler' = handler /\ run' = [run EXCEPT ![c] = c]
  BY Zenon DEF Sched, cpus
<1>3. Types'
  BY <1>1, <1>2 DEF IInv, Types, Label, Sched, Goto
<1>4. /\ pc'[t] = "resumed" /\ saved'[t] = intena[c] /\ run'[c] = c
      /\ \A y \in Ctx \ {t} : pc'[y] = pc[y] /\ saved'[y] = saved[y]
      /\ \A d \in CPU \ {c} : run'[d] = run[d]
  BY <1>1, <1>2, Zenon DEF IInv, Types, Sched, Goto
<1>5. ASSUME NEW y \in Ctx
      PROVE  CtxOK(y)'
  <2>1. CASE y = t
    BY <1>1, <1>2, <1>4, <2>1, Here, Zenon DEF CtxOK, CpuOK, SpinsFor
  <2>2. CASE y # t
    <3>1. CtxOK(y)
      BY Zenon DEF IInv
    <3> QED
      BY <1>2, <1>4, <2>2, <3>1, Zenon DEF CtxOK, SpinsFor
  <2> QED
    BY <2>1, <2>2, Zenon
<1>6. ASSUME NEW d \in CPU
      PROVE  CpuOK(d)'
  <2>1. CASE d = c
    <3>1. Holds(c, FALSE, TRUE, 1)
      BY <1>1, Here, Zenon DEF CpuOK
    <3> QED
      BY <1>1, <1>2, <1>4, <2>1, <3>1 DEF CpuOK, Holds, SpinsFor
  <2>2. CASE d # c
    <3>1. run[d] \in Ctx /\ run[d] # t /\ CpuOK(d)
      BY <1>6, <2>2, Zenon DEF IInv, Types, Placed
    <3> QED
      BY <1>2, <1>4, <2>2, <3>1, CpuSame, Zenon
  <2> QED
    BY <2>1, <2>2, Zenon
<1>7. Placed'
  <2>1. \A d \in CPU : run'[d] \in {d} \cup Thread
    BY <1>1, <1>4, Zenon DEF IInv, Placed
  <2>2. \A d, e \in CPU : run'[d] = run'[e] => d = e
    BY <1>1, <1>4 DEF IInv, Placed, Names
  <2>3. \A d \in CPU : run'[d] # d => pc'[d] = "pick"
    BY <1>1, <1>4 DEF IInv, Placed, Ctx
  <2>4. ASSUME NEW u \in Thread, \A d \in CPU : run'[d] # u
        PROVE  pc'[u] \in {"resumed", "forkret"}
    BY <1>1, <1>4, <2>4 DEF IInv, Placed, Ctx
  <2> QED
    BY <2>1, <2>2, <2>3, <2>4, Zenon DEF Placed
<1> QED
  BY <1>3, <1>5, <1>6, <1>7, Zenon DEF IInv

\* The scheduler switches to a thread that no processor runs, with the lock.
LEMMA SwtchStep ==
  ASSUME Names, IInv, NEW c \in CPU, Swtch(c)
  PROVE  IInv'
<1>1. PICK t \in Thread : /\ pc[t] \in {"resumed", "forkret"} /\ \A d \in CPU : run[d] # t
                          /\ run' = [run EXCEPT ![c] = t]
  BY Zenon DEF Swtch
<1>2. /\ eif' = eif /\ ncli' = ncli /\ intena' = intena /\ holder' = holder /\ want' = want
      /\ cont' = cont /\ handler' = handler /\ pc' = pc /\ saved' = saved
  BY Zenon DEF Swtch, cpus
<1>3. run[c] = c /\ pc[c] = "pick" /\ t \in Ctx /\ t \notin CPU
  BY Here, Zenon DEF Swtch, At, CtxOK, Names, Ctx
<1>4. run'[c] = t /\ \A d \in CPU \ {c} : run'[d] = run[d]
  BY <1>1, Zenon DEF IInv, Types
<1>5. Types'
  BY <1>1, <1>2, <1>3, Zenon DEF IInv, Types
<1>6. \A y \in Ctx : CtxOK(y)'
  BY <1>2, Zenon DEF IInv, CtxOK, SpinsFor
<1>7. ASSUME NEW d \in CPU
      PROVE  CpuOK(d)'
  <2>1. CASE d = c
    <3>1. Holds(c, FALSE, TRUE, 1)
      BY <1>3, Here, Zenon DEF CpuOK
    <3> QED
      BY <1>1, <1>2, <1>4, <2>1, <3>1, Zenon DEF CpuOK, Holds, SpinsFor
  <2>2. CASE d # c
    <3>1. CpuOK(d)
      BY Zenon DEF IInv
    <3> QED
      BY <1>2, <1>4, <2>2, <3>1, CpuSame, Zenon
  <2> QED
    BY <2>1, <2>2, Zenon
<1>8. Placed'
  <2>1. \A d, e \in CPU : run'[d] = run'[e] => d = e
    BY <1>1, <1>4 DEF IInv, Placed
  <2>2. \A d \in CPU : run'[d] \in {d} \cup Thread /\ (run'[d] # d => pc'[d] = "pick")
    BY <1>2, <1>3, <1>4, Zenon DEF IInv, Placed
  <2>3. ASSUME NEW u \in Thread, \A d \in CPU : run'[d] # u
        PROVE  pc'[u] \in {"resumed", "forkret"}
    BY <1>2, <1>3, <1>4, <2>3 DEF IInv, Placed, Names
  <2> QED
    BY <2>1, <2>2, <2>3, Zenon DEF Placed
<1> QED
  BY <1>5, <1>6, <1>7, <1>8, Zenon DEF IInv

-----------------------------------------------------------------------------
(* The theorems *)

LEMMA Inductive ==
  ASSUME Names, IInv, [Next]_vars
  PROVE  IInv'
<1>1. CASE UNCHANGED vars
  <2>1. Types' /\ Placed'
    BY <1>1, Zenon DEF vars, cpus, IInv, Types, Placed
  <2>2. \A x \in Ctx : CtxOK(x)'
    BY <1>1, Zenon DEF vars, cpus, IInv, CtxOK, SpinsFor
  <2>3. \A c \in CPU : CpuOK(c)'
    BY <1>1, CpuSame, Zenon DEF vars, cpus, IInv
  <2> QED
    BY <1>1, <2>1, <2>2, <2>3, Zenon DEF IInv, vars, cpus
<1>2. CASE Next
  <2>1. PICK c \in CPU : Step(c) \/ Syscall(c) \/ Interrupt(c) \/ TimerIntr(c) \/ Iret(c) \/ Swtch(c)
    BY <1>2, Zenon DEF Next
  <2> QED
    BY <2>1, SyscallStep, DeviceStep, XchgStep, HandlerStep, TimerStep, ScanStep, ScanDoneStep, ForkretStep,
       InterruptStep, IretStep, StiStep, ResumedStep, SchedStep, SwtchStep, Zenon DEF Step
<1> QED
  BY <1>1, <1>2, Zenon

LEMMA Invariance ==
  ASSUME Names
  PROVE  Spec => []IInv
<1>1. Init => IInv
  BY InitIInv, Zenon
<1>2. IInv /\ [Next]_vars => IInv'
  BY Inductive, Zenon
<1> QED
  BY <1>1, <1>2, PTL DEF Spec

\* A device's data is used by one thread or handler at a time, however threads
\* move between processors and interrupts come (acquire() and release()).
THEOREM DeviceIsExclusive ==
  ASSUME Names
  PROVE  Spec => []OneInDevice
<1>1. ASSUME IInv
      PROVE  OneInDevice
  <2> DEFINE S == {x \in Ctx : InDevice(x)}
  <2>1. ASSUME NEW x \in S
        PROVE  \E c \in CPU : run[c] = x /\ holder["dev"] = c
    <3>1. x \in Ctx /\ InDevice(x)
      BY <2>1, Zenon
    <3>2. PICK c \in CPU : run[c] = x
      <4>1. CASE x \in Thread
        BY <1>1, <3>1, <4>1, Zenon DEF IInv, Placed, InDevice
      <4>2. CASE x \in CPU
        BY <1>1, <3>1, <4>2, Zenon DEF IInv, Placed, InDevice
      <4> QED
        BY <3>1, <4>1, <4>2, Zenon DEF Ctx
    <3> QED
      BY <1>1, <3>1, <3>2, Zenon DEF IInv, CpuOK, Holds, SpinsFor, InDevice
  <2>2. \A x, y \in S : x = y
    BY <2>1, Zenon
  <2>3. CASE S = {}
    BY <2>3, FS_EmptySet DEF OneInDevice
  <2>4. CASE S # {}
    <3>1. PICK x \in S : S = {x}
      BY <2>2, <2>4, Zenon
    <3> QED
      BY <3>1, FS_Singleton DEF OneInDevice
  <2> QED
    BY <2>3, <2>4, Zenon
<1> QED
  BY <1>1, Invariance, PTL

\* A processor that holds a lock cannot be interrupted and never waits for that
\* lock (the cli() of pushcli(), and holding()).
THEOREM NoWaitForOneself ==
  ASSUME Names
  PROVE  Spec => []NoSelfDeadlock
<1>1. ASSUME IInv
      PROVE  NoSelfDeadlock
  <2> SUFFICES ASSUME NEW c \in CPU, NEW l \in Lock, holder[l] = c
               PROVE  ~eif[c] /\ ~(At(c, "spin") /\ want[run[c]] = l)
    BY Zenon DEF NoSelfDeadlock
  <2>0. CpuOK(c) /\ CtxOK(run[c]) /\ pc[run[c]] \in Label
    BY <1>1, Here, Zenon
  <2>1. CASE pc[run[c]] \in {"loop", "idle", "kernel", "trapret", "hin", "hout"}
    BY <2>0, <2>1, Zenon DEF Lock, CpuOK, Holds
  <2>2. CASE pc[run[c]] = "spin"
    <3>1. CASE cont[run[c]] = "inboth"
      <4>1. Holds(c, TRUE, FALSE, 2) /\ want[run[c]] = "ptable"
        BY <2>0, <2>2, <3>1, ZenonT(60) DEF CtxOK, CpuOK, SpinsFor
      <4> QED
        BY <4>1 DEF Lock, Holds
    <3>2. CASE cont[run[c]] # "inboth"
      BY <2>0, <2>2, <3>2, Zenon DEF Lock, CpuOK, Holds
    <3> QED
      BY <3>1, <3>2, Zenon
  <2>3. CASE pc[run[c]] \in {"indev", "inboth", "sched", "resumed", "unlock", "forkret", "pick"}
    <3>1. ~eif[c]
      BY <2>0, <2>3 DEF CpuOK, Holds
    <3> QED
      BY <2>3, <3>1, Zenon DEF At
  <2> QED
    BY <2>0, <2>1, <2>2, <2>3, Zenon DEF Label
<1> QED
  BY <1>1, Invariance, PTL

\* The panics of acquire(), release(), popcli() and sched() do not happen.
THEOREM ChecksPass ==
  ASSUME Names
  PROVE  Spec => []Sane
<1>1. ASSUME IInv
      PROVE  Sane
  <2> SUFFICES ASSUME NEW c \in CPU
               PROVE  /\ At(c, "spin") => holder[want[run[c]]] # c /\ ~eif[c]
                      /\ \A l \in Lock : MayRelease(run[c], l) => holder[l] = c /\ ncli[c] >= 1 /\ ~eif[c]
                      /\ At(c, "sched") => holder["ptable"] = c /\ ncli[c] = 1 /\ ~eif[c]
    BY Zenon DEF Sane
  <2>1. CpuOK(c) /\ CtxOK(run[c])
    BY <1>1, Here, Zenon
  <2>2. ASSUME At(c, "spin")
        PROVE  holder[want[run[c]]] # c /\ ~eif[c]
    <3>1. CASE cont[run[c]] = "inboth"
      <4>1. Holds(c, TRUE, FALSE, 2) /\ want[run[c]] = "ptable"
        BY <2>1, <2>2, <3>1, ZenonT(60) DEF At, CtxOK, CpuOK, SpinsFor
      <4> QED
        BY <4>1 DEF Holds
    <3>2. CASE cont[run[c]] # "inboth"
      <4>1. Holds(c, FALSE, FALSE, 1) /\ want[run[c]] \in Lock
        BY <2>1, <2>2, <3>2, Zenon DEF At, CtxOK, CpuOK, Lock
      <4> QED
        BY <4>1 DEF Holds, Lock
    <3> QED
      BY <3>1, <3>2, Zenon
  <2>3. ASSUME NEW l \in Lock, MayRelease(run[c], l)
        PROVE  holder[l] = c /\ ncli[c] >= 1 /\ ~eif[c]
    <3>1. CASE pc[run[c]] = "indev"
      BY <2>1, <2>3, <3>1 DEF CpuOK, Holds, MayRelease
    <3>2. CASE pc[run[c]] = "inboth"
      BY <2>1, <2>3, <3>2 DEF CpuOK, Holds, Lock
    <3>3. CASE pc[run[c]] \in {"unlock", "forkret", "pick"}
      BY <2>1, <2>3, <3>3 DEF CpuOK, Holds, MayRelease
    <3> QED
      BY <2>3, <3>1, <3>2, <3>3, Zenon DEF MayRelease
  <2>4. At(c, "sched") => holder["ptable"] = c /\ ncli[c] = 1 /\ ~eif[c]
    BY <2>1 DEF At, CpuOK, Holds
  <2> QED
    BY <2>2, <2>3, <2>4, Zenon
<1> QED
  BY <1>1, Invariance, PTL

\* popcli() gives a thread its own interrupt flag back, on whatever processor it
\* runs by then (the intena that sched() saves).
THEOREM FlagComesBack ==
  ASSUME Names
  PROVE  Spec => []FlagRestored
<1>1. ASSUME IInv
      PROVE  FlagRestored
  BY <1>1, Here, Zenon DEF FlagRestored, CtxOK, CpuOK, Holds, SpinsFor
<1> QED
  BY <1>1, Invariance, PTL
=============================================================================
