------------------------------ MODULE MCKernel -------------------------------
(* Small instances of the modules about processors and memory, for TLC: the  *)
(* clock (Ticks), spin locks, booting, the memory of processes and of one    *)
(* program.  They share no state.  A behaviour is one of a single module,    *)
(* the one that part names; the others stay in their initial states.         *)
EXTENDS Ticks, Sequences, FiniteSets

CONSTANTS t1, t2

MCThread == {t1, t2}

VARIABLES
  part,
  run, eif, ncli, intena, holder, spc, swant, cont, handler, saved,
  phase, mode, ap, slot, stack, started, user, todo, freelist, next, use_lock,
  klock, op, bpc, r, held, panicked,
  m, as, kstack, sz,
  heap, used

SpinCPU == {"cpu0", "cpu1"}
SpinThread == {"sh", "ls"}
Spin == INSTANCE SpinLock WITH CPU <- SpinCPU, Thread <- SpinThread, pc <- spc, want <- swant

LowPages == {1, 2, 3, 4}
HighPages == {5}
Boot == INSTANCE Boot WITH NCPU <- 3, Low <- LowPages, High <- HighPages, pc <- bpc

Segment(vaddr, memsz, filesz, text) ==
  [vaddr |-> vaddr, memsz |-> memsz, filesz |-> filesz, text |-> text, short |-> FALSE]

\* One page and an argument; a second segment on a page, and with the stack a page
\* table, of its own; arguments that do not fit on the stack; a segment that is not
\* aligned.  The first two can be loaded.
Programs ==
  {[segs |-> <<Segment(0, 10, 10, "ls")>>, args |-> <<3>>],
   [segs |-> <<Segment(0, 16, 12, "sh"), Segment(16, 8, 4, "data")>>, args |-> << >>],
   [segs |-> <<Segment(0, 16, 16, "a")>>, args |-> <<9, 9>>],
   [segs |-> <<Segment(0, 16, 8, "a"), Segment(24, 4, 4, "b")>>, args |-> << >>]}

VmProc == {1, 2}
VmPages == 1..13
Increments == {-20, 12}
TouchedPages == {1}
Vm == INSTANCE Vm WITH
  Proc <- VmProc, Page <- VmPages, PGSIZE <- 16, NPTENTRIES <- 2, KERNBASE <- 96, MAXARG <- 3,
  Program <- Programs, Increment <- Increments, Touched <- TouchedPages, Zero <- "zero", Args <- "args"

\* 28 is the last request whose size in bytes is still a positive int, 40 makes it a
\* negative one, and 63 wraps to a header alone.
HeapRequests == {1, 3, 5, 8, 28, 40, 63}
Heap == INSTANCE Umalloc WITH
  HEAP <- 12, CORE <- 4, HDR <- 2, PG <- 4, WORD <- 64, Requests <- HeapRequests

spinVars == <<run, eif, ncli, intena, holder, spc, swant, cont, handler, saved>>
bootVars == <<phase, mode, ap, slot, stack, started, user, todo, freelist, next, use_lock,
              klock, op, bpc, r, held, panicked>>
vmVars == <<m, as, kstack, sz>>
heapVars == <<heap, used>>
allVars == <<part, vars, spinVars, bootVars, vmVars, heapVars>>

KernelInit ==
  /\ part \in {"ticks", "spin", "boot", "vm", "heap"}
  /\ Init /\ Spin!Init /\ Boot!Init /\ Vm!Init /\ Heap!Init

\* A process that has given back all its memory cannot go on, and a program that was
\* killed or given a wrong block is not followed.
Stop ==
  /\ (part = "vm" /\ ~Vm!Running(1)) \/ (part = "heap" /\ ~Heap!Running)
  /\ UNCHANGED allVars

KernelNext ==
  \/ part = "ticks" /\ Next /\ UNCHANGED <<part, spinVars, bootVars, vmVars, heapVars>>
  \/ part = "spin" /\ Spin!Next /\ UNCHANGED <<part, vars, bootVars, vmVars, heapVars>>
  \/ part = "boot" /\ Boot!Next /\ UNCHANGED <<part, vars, spinVars, vmVars, heapVars>>
  \/ part = "vm" /\ Vm!Next /\ UNCHANGED <<part, vars, spinVars, bootVars, heapVars>>
  \/ part = "heap" /\ Heap!Next /\ UNCHANGED <<part, vars, spinVars, bootVars, vmVars>>
  \/ Stop

\* The fairness of the modules, for the part that runs.
KernelSpec ==
  /\ KernelInit /\ [][KernelNext]_allVars
  /\ SF_vars(part = "ticks" /\ TimerStep)
  /\ \A t \in Thread : SF_vars(part = "ticks" /\ InCall(t))
  /\ WF_bootVars(part = "boot" /\ Boot!Main)
  /\ \A c \in Boot!CPU : WF_bootVars(part = "boot" /\ Boot!Step(c))

\* Pages are alike: states of Vm that differ in their numbers are the same.
View ==
  IF part # "vm" THEN allVars
  ELSE <<part,
         [x \in Vm!Use |-> IF Vm!PageAt(x) = Vm!NoPage THEN {} ELSE {y \in Vm!Use : Vm!PageAt(y) = Vm!PageAt(x)}],
         [x \in Vm!InUse |-> m.mem[Vm!PageAt(x)]],
         {x \in Vm!InUse : Vm!PageAt(x) \in m.free},
         [p \in VmProc |-> [v \in Vm!UserPage |-> as[p].pte[v].u]],
         Cardinality(m.free), Cardinality(Vm!Lost), sz, m.panicked, m.twice>>

-----------------------------------------------------------------------------
(* The properties, as the modules state them *)

\* popcli() gives a thread the interrupt flag it had, though sched() may have
\* moved it to another processor in between.
FlagRestored == part = "spin" => Spin!FlagRestored

\* kalloc() gives a page to one caller and a processor a stack of its own, during
\* start-up (kinit1(), startothers(), kinit2()) and after it.
OneOwner == part = "boot" => Boot!OneOwner

\* startothers() brings up every processor.
AllUp == part = "boot" => Boot!AllUp

\* A page is free or has one use, also after exec(), fork() or sbrk() failed, and
\* the panics of vm.c and kfree() are not reached.
OneUse == part = "vm" => Vm!OneUse

\* p->sz and the page table agree, also after a call that failed, so that what
\* argptr() and fetchint() accept is mapped.
SizeMapped == part = "vm" => Vm!SizeMapped

\* Failed calls give back what they allocated, except for one page in fork().
LostOnlyByFork == Vm!LostOnlyByFork

\* Processes have private, zeroed and exactly copied memory (Images).
ImplementsImages == Vm!ImplementsImages

\* malloc() and free() keep the heap covered by blocks without gap or overlap, its
\* free list merged and in order, and give at least the bytes asked for.
HeapSound == part = "heap" => Heap!HeapSound
=============================================================================
