-------------------------------- MODULE Boot ---------------------------------
(***************************************************************************)
(* Start-up of the processors and the page allocator (main.c, kalloc.c,    *)
(* entryother.S).  The boot processor fills the free list and starts the   *)
(* others one at a time, without the allocator's lock; it takes the lock   *)
(* into use before the first process exists.  kalloc() and kfree() run in  *)
(* steps: enter (acquire the lock, if it is in use), read the list, write  *)
(* the list, leave (release the lock, if it is in use).                    *)
(***************************************************************************)
EXTENDS Integers, FiniteSets

CONSTANTS
  NCPU,     \* processors 0..NCPU-1; 0 is the boot processor
  Low,      \* pages that kinit1() frees
  High      \* pages that kinit2() frees

VARIABLES
  phase,    \* where the boot processor is in main()
  mode,     \* each processor: "off", "entry", "mpenter", "run"
  ap,       \* the processor that startothers() is at
  slot,     \* the stack for it, at code-4
  stack,    \* page each processor keeps: its stack, and kpgdir for the boot processor
  started,  \* cpu->started
  user,     \* the first process exists
  todo,     \* pages that freerange() has still to free
  freelist, next,      \* kmem.freelist and the next pointer in each page
  use_lock, klock,     \* kmem.use_lock and the holder of kmem.lock
  op, pc, r,           \* each processor in kalloc() or kfree(): which, where, and r
  held,                \* pages each processor has allocated
  panicked             \* release() of a lock not held

boot == <<phase, mode, ap, slot, stack, started, user, todo>>
kmem == <<freelist, next, use_lock, klock>>
call == <<op, pc, r>>
vars == <<boot, kmem, call, held, panicked>>

CPU == 0..(NCPU - 1)
Page == Low \cup High
Null == 0
NoCPU == -1
Least(S) == CHOOSE x \in S : \A y \in S : x <= y

Init ==
  /\ phase = "kinit1" /\ ap = 0 /\ slot = Null /\ user = FALSE /\ todo = Low
  /\ mode = [c \in CPU |-> IF c = 0 THEN "main" ELSE "off"]
  /\ stack = [c \in CPU |-> Null]
  /\ started = [c \in CPU |-> FALSE]
  /\ freelist = Null /\ next = [g \in Page |-> Null]
  /\ use_lock = FALSE /\ klock = NoCPU
  /\ op = [c \in CPU |-> "alloc"] /\ pc = [c \in CPU |-> "idle"] /\ r = [c \in CPU |-> Null]
  /\ held = [c \in CPU |-> {}] /\ panicked = FALSE

-----------------------------------------------------------------------------
(* kalloc() and kfree() *)

Enter(c, what, g) ==
  /\ pc[c] = "idle"
  /\ use_lock => klock = NoCPU
  /\ klock' = IF use_lock THEN c ELSE klock
  /\ op' = [op EXCEPT ![c] = what]
  /\ r' = [r EXCEPT ![c] = g]
  /\ pc' = [pc EXCEPT ![c] = "read"]
  /\ UNCHANGED <<freelist, next, use_lock, panicked>>

\* r = kmem.freelist, or r->next = kmem.freelist
ReadList(c) ==
  /\ pc[c] = "read"
  /\ IF op[c] = "alloc"
       THEN r' = [r EXCEPT ![c] = freelist] /\ UNCHANGED next
       ELSE next' = [next EXCEPT ![r[c]] = freelist] /\ UNCHANGED r
  /\ pc' = [pc EXCEPT ![c] = "write"]
  /\ UNCHANGED <<boot, freelist, use_lock, klock, op, held, panicked>>

\* kmem.freelist = r->next, or kmem.freelist = r
WriteList(c) ==
  /\ pc[c] = "write"
  /\ freelist' = IF op[c] = "free" THEN r[c] ELSE IF r[c] = Null THEN freelist ELSE next[r[c]]
  /\ pc' = [pc EXCEPT ![c] = "leave"]
  /\ UNCHANGED <<boot, next, use_lock, klock, op, r, held, panicked>>

Leave(c) ==
  /\ pc[c] = "leave"
  /\ panicked' = (use_lock /\ klock # c)
  /\ klock' = IF use_lock THEN NoCPU ELSE klock
  /\ IF op[c] = "alloc" /\ r[c] # Null
       THEN pc' = [pc EXCEPT ![c] = "done"] /\ UNCHANGED r
       ELSE pc' = [pc EXCEPT ![c] = "idle"] /\ r' = [r EXCEPT ![c] = Null]
  /\ UNCHANGED <<boot, freelist, next, use_lock, op, held>>

\* The caller of kalloc() takes its page and overwrites it; r is dead
\* after the call.
Take(c) == /\ pc[c] = "done"
           /\ pc' = [pc EXCEPT ![c] = "idle"] /\ r' = [r EXCEPT ![c] = Null] /\ UNCHANGED op
           /\ next' = [next EXCEPT ![r[c]] = Null]
Keep(c) == Take(c) /\ held' = [held EXCEPT ![c] = @ \cup {r[c]}]

-----------------------------------------------------------------------------
(* main() on the boot processor *)

\* The boot processor has returned from kalloc() or kfree().
Idle == pc[0] = "idle"

\* freerange(), in kinit1() and kinit2()
Freerange ==
  /\ phase \in {"kinit1", "kinit2"} /\ Idle /\ todo # {}
  /\ Enter(0, "free", Least(todo))
  /\ todo' = todo \ {Least(todo)}
  /\ UNCHANGED <<phase, mode, ap, slot, stack, started, user, held>>

\* Faulty variant of Locking: the lock is never taken into use.
LockingNever == phase = "locked"

\* kinit2() ends by taking the lock into use.
Locking == phase = "kinit2"

KinitDone ==
  /\ phase \in {"kinit1", "kinit2"} /\ Idle /\ todo = {}
  /\ phase' = IF phase = "kinit1" THEN "kvmalloc" ELSE "userinit"
  /\ use_lock' = (use_lock \/ Locking)
  /\ UNCHANGED <<mode, ap, slot, stack, started, user, todo, freelist, next, klock, call, held, panicked>>

\* kvmalloc(), a stack in startothers() and userinit() allocate.
Need ==
  /\ phase \in {"kvmalloc", "stack", "userinit"} /\ Idle
  /\ Enter(0, "alloc", Null)
  /\ UNCHANGED <<boot, held>>

Kvmalloc ==
  /\ phase = "kvmalloc" /\ Take(0) /\ phase' = "startothers"
  /\ stack' = [stack EXCEPT ![0] = r[0]]
  /\ UNCHANGED <<mode, ap, slot, started, user, todo, freelist, use_lock, klock, held, panicked>>

\* Faulty variant of More: the last processor is left out.
MoreLess == ap + 2 < NCPU

More == ap + 1 < NCPU

\* The next processor, or on to kinit2().
Startothers ==
  /\ phase = "startothers"
  /\ IF More THEN ap' = ap + 1 /\ phase' = "stack" /\ UNCHANGED todo
     ELSE phase' = "kinit2" /\ todo' = High /\ UNCHANGED ap
  /\ UNCHANGED <<mode, slot, stack, started, user, kmem, call, held, panicked>>

\* Tell entryother.S what stack to use, and send the start-up interrupt.
Lapicstartap ==
  /\ phase = "stack" /\ Take(0)
  /\ slot' = r[0]
  /\ mode' = [mode EXCEPT ![ap] = "entry"]
  /\ phase' = "wait"
  /\ UNCHANGED <<ap, stack, started, user, todo, freelist, use_lock, klock, held, panicked>>

\* Faulty variant of IsUp: the boot processor does not wait.
IsUpAlways == TRUE

IsUp == started[ap]

WaitStarted ==
  /\ phase = "wait" /\ IsUp /\ phase' = "startothers"
  /\ UNCHANGED <<mode, ap, slot, stack, started, user, todo, kmem, call, held, panicked>>

Userinit ==
  /\ phase = "userinit" /\ Keep(0)
  /\ user' = TRUE /\ phase' = "mpmain" /\ mode' = [mode EXCEPT ![0] = "mpenter"]
  /\ UNCHANGED <<ap, slot, stack, started, todo, freelist, use_lock, klock, panicked>>

-----------------------------------------------------------------------------
(* Every processor *)

\* entryother.S: load the stack pointer, call mpenter().
Entry(c) ==
  /\ mode[c] = "entry"
  /\ stack' = [stack EXCEPT ![c] = slot]
  /\ mode' = [mode EXCEPT ![c] = "mpenter"]
  /\ UNCHANGED <<phase, ap, slot, started, user, todo, kmem, call, held, panicked>>

\* mpmain(): tell startothers(), enter the scheduler.
Mpmain(c) ==
  /\ mode[c] = "mpenter"
  /\ started' = [started EXCEPT ![c] = TRUE]
  /\ mode' = [mode EXCEPT ![c] = "run"]
  /\ UNCHANGED <<phase, ap, slot, stack, user, todo, kmem, call, held, panicked>>

\* System calls of processes use the allocator.
Kalloc(c) == mode[c] = "run" /\ user /\ Enter(c, "alloc", Null) /\ UNCHANGED <<boot, held>>
Allocated(c) == mode[c] = "run" /\ Keep(c) /\ UNCHANGED <<boot, freelist, use_lock, klock, panicked>>
Kfree(c) ==
  /\ mode[c] = "run"
  /\ \E g \in held[c] : Enter(c, "free", g) /\ held' = [held EXCEPT ![c] = @ \ {g}]
  /\ UNCHANGED boot

Inside(c) == ReadList(c) \/ WriteList(c) \/ Leave(c)
Main == Freerange \/ KinitDone \/ Need \/ Kvmalloc \/ Startothers \/ Lapicstartap \/ WaitStarted \/ Userinit
Step(c) == Inside(c) \/ Entry(c) \/ Mpmain(c)

Next == Main \/ \E c \in CPU : Step(c) \/ Kalloc(c) \/ Allocated(c) \/ Kfree(c)

Spec == Init /\ [][Next]_vars

\* Every processor executes its instructions; processes may stop allocating.
Fairness == WF_vars(Main) /\ \A c \in CPU : WF_vars(Step(c))
FairSpec == Spec /\ Fairness

-----------------------------------------------------------------------------
(* Properties *)

RECURSIVE Chain(_, _)
Chain(g, n) == IF g = Null \/ n = 0 THEN {} ELSE {g} \cup Chain(next[g], n - 1)
Listed == Chain(freelist, Cardinality(Page))
Busy == {c \in CPU : pc[c] \in {"read", "write", "leave"}}
Transit(c) == IF (c \in Busy /\ op[c] = "free") \/ pc[c] = "done" THEN {r[c]} ELSE {}

\* A page is given to one caller at a time: what is on the free list, handed
\* out, in use as a stack or still to be freed does not overlap, before and after
\* kmem.lock is taken into use.  In particular every processor that has left
\* entryother.S runs on a stack of its own, though all read its address from one
\* place.
OneOwner ==
  /\ Busy = {} =>
       \A c, d \in CPU :
         /\ (held[c] \cup Transit(c) \cup {stack[c]}) \cap (Listed \cup todo) = {}
         /\ c # d => (held[c] \cup Transit(c)) \cap (held[d] \cup Transit(d) \cup {stack[d]}) = {}
  /\ \A c, d \in CPU \ {0} : mode[c] \in {"mpenter", "run"} =>
       stack[c] # Null /\ (c # d => stack[c] # stack[d])

\* Every processor comes up.
AllUp == <>(\A c \in CPU : mode[c] = "run")
=============================================================================
