# Verification of the xv6 kernel

xv6 is a small multiprocessor Unix kernel for the x86. This directory holds TLA+
models of it, TLC configurations that check them on small instances, and TLAPS
proofs that hold for every size. The code is in `src/`; `PROJECT.json` maps each
definition to the lines it translates.

## The system and its parts

| Part | Source | State | Concurrency | Module |
|---|---|---|---|---|
| process table, scheduler, fork/exit/wait/kill | `proc.c` | `ptable`, `cpus[]` | every CPU, under `ptable.lock` handed over across `swtch()` | `Proc` |
| traps and timer | `trap.c` | `ticks`, `p->killed` | interrupts on every CPU | `Proc`, `Ticks` |
| sleep and wakeup | `proc.c`, `sysproc.c` | `p->state`, `p->chan` | two locks, taken in turn | `Ticks` |
| spinlocks | `spinlock.c`, `proc.c` | `lk->locked`, `ncli`, `intena` | every CPU, interrupts, switches of stacks | `SpinLock` |
| boot and page allocator | `main.c`, `kalloc.c` | free list, `use_lock` | CPUs that start while the list has no lock | `Boot` |
| memory, exec, argument fetching | `vm.c`, `exec.c`, `syscall.c` | page tables, free pages | calls of several processes, allocations that fail | `Vm` |
| buffer cache, sleep-locks, disk | `bio.c`, `sleeplock.c`, `ide.c` | `bcache`, `idequeue` | processes and the disk interrupt | `BufCache` |
| write-ahead log | `log.c` | `log`, the log area on disk | all file system calls; power failure | `Log` |
| blocks of files | `fs.c`, `file.c`, `mkfs.c` | bitmap, `ip->addrs`, `f->off` | writers of several files and of one file | `Blocks` |
| inodes and one directory | `fs.c`, `sysfile.c` | `icache`, disk inodes | sleep-locks, reference and link counts | `Inode` |
| directories and path names | `fs.c`, `sysfile.c` | the tree, `p->cwd` | the tree changes under a walk | `Tree`, `Path` |
| open files | `file.c`, `sysfile.c` | `ftable`, `p->ofile` | shared descriptors | `FileTable` |
| pipes | `pipe.c`, `file.c` | `struct pipe`, `f->ref` | readers, writers, close, kill | `Pipe` |
| console and keyboard | `console.c`, `kbd.c` | input ring, `shift` | interrupt against readers | `Console`, `Kbd` |
| shell | `sh.c` | command line; processes and descriptors | the processes of pipelines | `Shell`, `Pipeline` |
| user-space allocator, grep | `umalloc.c`, `grep.c` | free list; buffer | sequential | `Umalloc`, `Grep` |
| interrupt controllers, boot loader, other programs | others | - | - | not modelled |

Inodes stand on the log, the log on the buffer cache, the cache on the disk driver.
All of them block with `sleep()` and are woken with `wakeup()`, which use `ptable.lock`.

## How the modules compose

Each module treats the layer below it by what that layer's own module shows.

- `SpinLock` shows that a lock excludes handlers and other CPUs. The other modules
  make a section under a spinlock one step.
- `Ticks` splits `sleep()` and `wakeup()` into their lock operations and shows
  that to a caller they are atomic. `Log`, `Pipe`, `Console` and `BufCache` therefore
  make "release the lock and block" one step. In `Pipe` and `Console` the test and the
  block stay two steps, because `kill()` can come between them.
- `BufCache` shows that a block has one value which one process at a time uses
  (`BlockStore`). `Log` therefore keeps block contents in a function `cache`.
- `Log` shows that the writes of a system call reach the disk all or not at all.
  `Inode`, `Tree` and `Blocks` therefore leave crashes out. `Blocks` shows in turn that
  `filewrite()` keeps to what a transaction may write.
- `Inode` shows what one inode's counts and locks do; `Tree` builds on it and keeps an
  inode as long as something points to it.
- `Boot` shows that the free list hands out each page once. `Vm` takes pages from a set.
- `Pipe` shows when a reader meets its end of file. `Pipeline` lets a program finish its
  input when no other process has the pipe open for writing.
- `Proc` keeps other subsystems' sleeping as `Sleep` and `Wakeup` on channels.

A step is a section of code under a spinlock, or whatever lies between two points
at which another thread's action can be noticed. Where a lock is held across a
context switch, or two locks overlap, the acquires and releases are steps.

Most components have an abstract specification of what they promise, checked as a
refinement.

| Component | Abstract module | Promise |
|---|---|---|
| `Proc` | `ProcTree` | fork, exit and wait are atomic steps on a tree rooted at init |
| `Ticks` | `TimedSleep` | `sleep(n)` blocks until n ticks have passed or the caller is killed |
| `Log` | `AtomicDisk` | writes become durable all together; a crash returns to the last durable state |
| `Pipe` | `Fifo` | a bounded byte queue, with end-of-file only after the last byte |
| `BufCache` | `BlockStore` | one value per block, with exclusive access |
| `Inode` | `Files` | a file lives, with its contents, while it has a name or a user; a new file is one that has neither |
| `Blocks` | `ByteFiles` | files are sequences of bytes, open files positions in them |
| `Vm` | `Images` | only its own calls and stores change the memory of a process; a call that fails changes nothing |
| `Console` | `Tty` | a line editor in front of a queue of lines |

`Path`, `Shell` and `Grep` are algorithms on text. Each is compared with a reference
definition of another kind: a path split at its slashes, a line cut at its operators,
an automaton.

## Modules

**Proc.** Variables are the fields of `ptable.proc[]`, the lock's owner, and for
each CPU its `c->proc` and position in `scheduler()`. `pc` says where each kernel
thread is. `ret` says where it goes on after `sched()`. `Sched`, `Resume` and
`ForkRet` are the ends of `swtch()`, with the lock still held. `Yield` is the timer
interrupt. It may come at every label at which interrupts are enabled. `fork()` is
four steps, since `allocproc()` gives up the lock early, and each allocation may
fail. `MaxPid` bounds `nextpid`.

**Ticks.** `lk` and `ptl` are the holders of `tickslock` and `ptable.lock`. The
counter is modulo `M`, so it wraps around. `slept` is auxiliary: it counts the
ticks of a call without wrapping and only serves the refinement mapping. The timer
waits when a further tick would wrap past a sleeper's start, which at the real
size of 2^32 takes over a year.

**SpinLock.** A CPU runs the stack of a process or of its scheduler. Code takes a
device lock and, inside it, `ptable.lock`; a handler may interrupt it wherever the
flag is on. `Swtch` moves a thread to another CPU with `ptable.lock` held, and the
local variable of `sched()` that keeps `intena` (`saved`) goes with it.

**Boot.** The boot CPU is at a `phase` of `main()`. `kalloc()` and `kfree()` run in
steps (enter, read the list, write it, leave) and take the lock only when `use_lock`
is set. A CPU that starts takes its stack from the word below its entry code.

**Vm.** Page tables with two levels, whose functions work on records. `Fork`, `Exec`
and `Sbrk` may see any part of the free pages, which stands for what other calls hold
at the moment, so every allocation may fail. `Store` is a store of the process, `Reap`
what `wait()` does with the memory of a child. `exit()` itself frees none. A word has
twice `KERNBASE` values and sums wrap. `twice` records that a free page was freed.

**BufCache.** `list` is the order of the buffers, most recent first. `bget()` is
`BgetHit`, `BgetMiss` or `BgetPanic`; a panic keeps `bcache.lock`. `brelse()` is two
steps, since it releases the sleep-lock before it takes `bcache.lock`. `active` is
the request the disk works on. `IdeIntr` is its completion and the whole handler;
an interrupt that finds the queue empty changes nothing and is not an action.
`Bad` is the set of blocks the disk fails to read. There is one device.

**Log.** Variables are the three disk areas (home blocks, log blocks, header), the
buffer cache and `struct log`. Every block write is a step. `Crash` may happen at
any time, loses all but the disk, and is followed by the three steps of
`recover_from_log()`, in which it may happen again. `log_write()` is two steps
(`LogCheck`, `LogAppend`), because it tests `log.lh.n` before it takes the lock.
A panic halts the system. The header in memory has `LOGSIZE` places and the log on disk
`SIZE` blocks, one of them its header. What `write_log()` writes past the end goes to the
home blocks `After`, in the cache and on the disk, and `install_trans()` reads it there. A
commit that needs the buffer of such a block and of the same home block waits for itself
(`TwoBuffers`).

**Blocks.** A step is one iteration of the loop of `writei()`. `logged` holds what the
transaction has written. The initial state is the image that `mkfs.c` writes. Two
writers have a handle each or share one.

**Inode.** `dinode` are the inodes on disk, `inode` their copies in `icache`. `dir` is
one directory with its lock `dlock`; the files in it are regular. A process has at
most one open file (`fd`) and one call under way, on the inode `ip`. `sys_link()` is
the steps from `Link` to `LinkBad`, `sys_unlink()` those from `Unlink` to
`UnlinkCount`, `create()` those from `Create` to `CreatePut`. `iput()` is three steps:
its test, the freeing, and the decrement under `icache.lock`. A failed `dirlink()`
runs `iput()` on the inode it found, with the directory locked, while `old` keeps the
inode to be linked. `iput()` of the directory takes the directory's lock again; it is
a step where the caller holds the lock of a file (`CreatePut`, `UnlinkPut`), and left
out where the caller holds nothing, since it then only delays the caller. File
contents are one value per inode.

**Tree.** A process walks a path one element at a time, with only the directory it
looks into locked. `create`, `mkdir`, `mknod`, `link`, `unlink`, `chdir` and `open`
follow. An inode is freed when nothing points to it and it has no links.

**FileTable.** Descriptors, `struct file` and what it refers to. `sys_open()` and
`sys_pipe()` are steps between uses of `ftable.lock`, each with its failure path.

**Pipe.** `struct pipe` with its free-running counters modulo `WORD`, the reference
counts of the two files, and one descriptor per process. `FileClose` and
`PipeClose` are separate steps, because `fileclose()` gives up `ftable.lock` in
between. `FileDup` is `fork()`. `Kill` comes at any time.

**Console, Kbd.** A step of the handler is one character. A reader holds `cons.lock`
from one sleep to the next. `Kbd` follows the modifier keys through make and break
codes, with and without the escape byte.

**Shell, Pipeline.** `Shell` parses every command line up to a length. `Pipeline` runs
the commands: it forks, moves descriptors and waits as `runcmd()` does.

**Umalloc, Path, Grep.** The allocator works on a heap of units; a header that is no
longer one is `Dead`, and reading it is an error. Numbers of bytes are modulo `WORD`, and
the argument of `sbrk()` is their value as an `int` (`SbrkArg`). `Sbrk` is `growproc()`
with the outcomes of `allocuvm()` and `deallocuvm()`. A program that touches a page it does
not have is killed. One that was given a block beyond its memory or without room is not
followed further (`Running`). `Path` and `Grep` are sequential.

Operators described as faulty variants are not part of the models. Each one is a
plausible bug that breaks one property, and so shows that the property depends on
the code it is about.

## Runs

`MCPrograms`, `MCLive`, `MCStorage`, `MCDevices` and `MCKernel` each hold instances of
several modules. Those share no state: a behaviour is one of a single module, which the
variable `part` names.

| Run | Instance | Shows |
|---|---|---|
| `proc` | `Proc`: 3 slots, 2 CPUs; `FileTable`: 2 processes, 3 files; `Tree`: 2 processes, 3 inodes; paths of 6, lines of 5 characters, patterns of 3 | stacks in use stay allocated, process tree, exact references to files, the reachable directories stay a tree, through links and their undoing too, text is taken apart as its grammar says |
| `proc_live` | `Proc`: 3 slots, 1 CPU; `Pipeline`: 5 processes | every runnable process is scheduled; orphans are reaped; killed processes exit; pipelines end |
| `proc_killed` | 2 slots, 1 CPU | **violated**: a new process can start marked killed |
| `log` | `Log`: 2 processes, 3 blocks, a log of 2 and its header; `Blocks`: 2 writers, 3 calls | atomic transactions under crashes, waiters in `begin_op()` are admitted; files are bytes, the free map is exact, a piece of a write fits its transaction |
| `log_overrun` | 3 processes, a log of 3 with its header | **violated**: a transaction can outgrow the on-disk log |
| `pipe` | 2 writers, 1 reader that may be killed, 2 cells, counters modulo 4 | FIFO across wrap-around, no lost wakeup, no use after free, closing an end releases the other |
| `pipe_kill` | as `pipe`, a writer may be killed | **violated**: a killed writer leaves a reader asleep at a full pipe |
| `devices` | `BufCache`: 2 processes, 2 buffers, 3 blocks; `Console`; `Kbd` | one exclusive value per block, waiters are served; the ring is a line editor; no modifier sticks |
| `inode` | 2 processes, 2 names, 2 inodes, 2 cache entries | exact reference and link counts, one write-through entry per inode, names lead to allocated inodes, refinement |
| `inode_leak` | as `inode` | **violated**: an unlinked inode can stay allocated for ever |
| `inode_deadlock` | as `inode` | **violated**: create and unlink can wait for each other |
| `kernel` | `Ticks`: 2 threads, counter of size 4; `SpinLock`: 2 CPUs, 2 threads; `Boot`: 3 CPUs; `Vm`: 2 processes, 13 pages; `Umalloc`: 12 units | exact `sleep(n)` that returns, the interrupt flag, every page has one owner, booting ends, memory images, a tiled heap |

### Why these bounds

- Three slots give a parent, a child and a grandchild that init inherits. Two CPUs
  give every race on a stack or on the lock. Only with four slots does `exit()` have
  to wake init for an inherited zombie while init is not the parent of the exiting
  process (`proc.c:260`); the proof of `NoMissedExit` covers that case.
- A counter of size 4 with waits of up to 2 wraps around in the middle of a wait.
- A log of two blocks takes two operations into one commit, and a third has to
  wait. Crashes then fall between the blocks of one transaction.
- Blocks of two bytes with one direct address put every write across the border of
  direct and indirect blocks. One bitmap block per block is the worst case for the
  number of blocks a write dirties.
- Writes of three bytes to two cells block half way. Counters modulo 4 wrap often.
- Three blocks in two buffers force recycling, and two pinned buffers the panic.
  Two processes cannot show two waiters at one sleep-lock. The proofs about `BufCache`
  cover them, but those are safety properties: that one of two waiters is served
  (`WaitersServed`) is checked for one waiter only.
- Two names give hard links and failing links. With two inodes `ialloc()` reuses what
  `iput()` has just freed, and runs out. With two entries `iget()` recycles, but does
  not run out of entries.
- Three inodes in `Tree` give a directory in a directory and the removal of both under
  a walk; the eleven calls include the relative ones that start in a removed directory,
  and a `link()`, which gives a device a second name or, when the name exists, takes the
  count back.
- Three CPUs in `Boot` make the second start overlap the first CPU's run.
- Thirteen pages hold two processes with their page tables, and run out in `exec()`. Of
  the four programs two can be loaded, one of them from two segments; the others fail in
  the header checks and in the arguments.
- Requests of up to 28 bytes, with a word of 64 values, are below half a word with their
  headers, and are more than the heap of 12 units can give. The other two, of 40 and 63
  bytes, become a negative `int` and a sum that wraps.

The runs `inode` and `proc` use the symmetry of the processes of `Inode` and `Tree` and
of the names of `Inode`: their properties are safety properties, and no definition tells
one of them from another. `kernel` has a view in which states of `Vm` that differ only in
the numbers of pages are the same: pages are alike.

### The disagreements found

- `proc.c:486`: `kill()` does not look at `p->state`, so it can mark a free slot.
  `allocproc()` does not clear the mark, and the next process there exits at once.
- `log.c:218`: two operations can both pass the unlocked test. The log then holds
  one block more than the disk area, and the extra block is the first inode block. It
  takes a log of `LOGSIZE` blocks with its header, which is what `mkfs.c:25` makes.
- `pipe.c:86`: a killed writer returns from a full pipe before its wakeup.
- `fs.c:338`: `iput()` reads `ip->ref`, gives up the inode's lock and only then drops
  its reference. Two processes that close an unlinked file can both read 2, and
  neither frees it.
- `fs.c:335`: `iput()` always takes the inode's lock. At the end of `create()` and in
  `sys_unlink()` the directory is unlocked and, in `iput()`, locked again while the
  file is locked. An unlink of that file that takes the directory in between waits for
  the file, and neither goes on.

### Limits of the code that the properties allow for

- When the disk fails to read a block, `ideintr()` sets `B_VALID` without reading
  (`ide.c:118`), and `bread()` returns whatever the buffer held. The run and the proofs
  about `HoldsItsBlock` and `ImplementsBlockStore` are for a disk without read errors.
- A process killed between its test of `p->killed` and `sleep()` in a pipe sleeps on
  until the pipe is used, since `kill()` does not take the pipe's lock. In
  `sys_sleep()` the next tick wakes it.
- `create()`, `mkdir()` or `link()` in a directory that is removed but still somebody's
  current directory makes entries that nothing reaches (`sysfile.c:250`). `OneLost` says
  that no step takes more than one inode out of what can be reached. The `..` of such a directory may lead to a free
  inode, and `ilock()` then panics (`fs.c:311`).
- `copyuvm()` loses the page it has just taken when the mapping fails (`vm.c:335`).
  `LostOnlyByFork` says that nothing else loses a page.
- `sbrk(-sz)` frees everything, returns -1 and leaves `p->sz` as it was.
- `morecore()` passes a `uint` to `sbrk()`, which takes an `int` (`umalloc.c:54`). From 2 GB
  on it is negative, and when the new size wraps around `growproc()` (`proc.c:169`) does
  nothing and reports success. `malloc()` then returns a block beyond the end of memory, or
  the process is killed when `morecore()` writes the header. From 2^32 - 7 bytes on the sum
  in `umalloc.c:69` wraps to one unit, a header without a block. The model does all this,
  and `HeapSound` says what holds while no such request has been granted.
- `mkfs.c:161` adds a block to the size of the root directory also when its entries
  fill their last block.
- `grep` drops the start of a line when a `read()` returns no newline (`grep.c:29`).
  `GrepsRight` is about reads that return the end of a line.

## Fairness

| Module | Assumed | Why the code justifies it |
|---|---|---|
| `Proc` | weak for each CPU's scheduler and switches; strong for the timer and for a thread's kernel steps; strong for init's call of `wait()` | a CPU does not stop; a pending timer interrupt is delivered when interrupts are on; a time slice outlasts a kernel step; `init.c` loops on `wait()` |
| `Ticks` | strong for the timer and for threads inside the call | ticks keep coming; a spinning CPU gets a lock that is free again and again |
| `Log` | weak for kernel steps; strong for `begin_op()` with room, and for ending an operation | file system calls make finitely many writes |
| `Pipe` | strong for steps inside a call and for `pipeclose()` | as for `Ticks`; nothing makes a program start a call |
| `Pipeline` | weak for the system as a whole: some process that can go on does | the scheduler; processes that run for ever do not occur in it |
| `Boot` | weak for `main()` and for each CPU | a CPU does not stop |
| `Inode` | weak for the steps of a call | a process that can go on is scheduled; used only to show the deadlock |
| `BufCache` | weak for the disk and for kernel steps | the disk answers; no fairness between waiters is assumed, so `WaitersServed` promises the buffer to one of them |

The assumption that a spinning CPU gets its lock at last is about hardware:
`xchg` in `spinlock.c` gives no order among waiters.

Deadlock is checked in every passing run but `pipe` (all descriptors may be closed) and
`inode` (`ialloc()` may panic, and calls may wait for each other, as `inode_deadlock`
shows). Parts that may really stop have a stuttering step: `BufCache` after a panic of
`bget()`, `Tree` after a panic, `Vm` without a process, `Umalloc` when the program is killed
or not followed, and the parts that end (texts, and `Blocks` after its calls).

## Proofs

All theorems hold for every value of the constants that satisfies the named
assumptions.

**Proc** (`ProcProofs`; assumptions `SizeAssumption`,
`ChanAssumption`, `KillAssumption`). Proved are type correctness, `LockHandoff`,
`OneCPU`, `StackInUse`, `ParentAlive`, `NoMissedExit` and the refinement of
`ProcTree`. None is inductive alone. The invariant `IInv` adds how CPUs, states
and program counters go together (`CpuInv`, `ThreadInv`), that a fork in progress
owns its `EMBRYO` slot (`ForkInv`), that a slot in use has a stack (`StackInv`),
and that parent pointers lead to living processes (`ParentInv`). The lock hand-off
is what makes the rest work: `wait()` can see a `ZOMBIE` only after that process
has left its stack. There is a lemma per action.

**Ticks** (`TicksProofs`; `HolderAssumption`, `WordAssumption`). Proved are type
correctness, `NoLostWakeup` and the refinement of `TimedSleep`. The invariant says
which lock is held at which point (`Locks`), that only a thread inside `sleep()` is
not running (`States`), that a wait is unfinished from its test until the wakeup
that ends it (`Waits`), and that the wrapped counter and the true count agree
(`Counts`). The refinement has a lemma per action.

**BufCache** (`BufCacheProofs`; `CacheAssumption`). Proved are type correctness,
`OneCopy` and `DriverInStep`, and, for a disk without read errors (`Bad = {}`),
`HoldsItsBlock` and the refinement of `BlockStore`. The key of the invariant is
`Refs`: `refcnt` is the number of processes between `bget()` and the end of
`brelse()`, so that a buffer with count 0 can be recycled under nobody. `Uses` ties
a process to the buffer of its block, `Locks` the sleep-locks to program counters,
`Flags` and `Clean` say what `B_VALID` and `B_DIRTY` mean, and `QueuedOnce` is needed
for the queue. The refinement has one lemma per kind of abstract step (`GetMaps`,
`PutMaps`, `WriteMaps`, `StillMaps`) and one per action.

**SpinLock** (`SpinLockProofs`). The hypothesis `Names` keeps the names of threads and
CPUs apart. Proved are `OneInDevice`, `NoSelfDeadlock`, `Sane` (no panic in `acquire()`,
`release()`, `popcli()` or `sched()`) and `FlagRestored`. The invariant says for each context at
each point which locks it holds and what its saved flag is (`CtxOK`), and for each CPU
that `ncli` counts those locks and that the flag is off while it is not 0 (`CpuOK`).

**Log** (`LogProofs`; `LogAssumption`). Proved are type correctness, `HeaderFits` and
`NoStrandedSleeper` for every log, and the refinement of `AtomicDisk`, with crashes, for
behaviours in which `write_log()` stays inside the log (`[]OnDiskFits`). That is so in every
behaviour when `SIZE > LOGSIZE` (`LargeLogIsAtomic`). With the sizes of `mkfs.c`, where
`SIZE = LOGSIZE`, the hypothesis can fail, as the run `log_overrun` shows, and transactions
are then not atomic. The invariant has two parts: `Base` is inductive for every log, and
`Copies` is preserved by steps from states with `OnDiskFits`.
`Counted` says that the blocks in the log and those that admitted operations may still
add have room together: `Owed` is the set of their reservations, and `log_write()` takes
one out for every block it puts in. `Control` says who commits and that nobody else is in
an operation then. `Copies` says what header, log blocks and home blocks hold at each
point of the commit and of the recovery; the abstract disk is `Recovered`, what a recovery
would make of them.

**Pipe** (`PipeProofs`; `PipeAssumption`). Proved are `NoUseAfterFree`, the
refinement of `Fifo`, and `NoLostWakeup` when no writer is killed. The last hypothesis is
needed, as the run `pipe_kill` shows; `WritersNotLost` is the half of the property that
holds without it. In the invariant, `Counted` says that the count of an end's file is the
number of processes that have it open, and `Ends` that only the last one to close it goes
to `pipeclose()`: so the lock, the counters and the buffer are not used after `kfree()`.
`Ring` says that the counters, whose difference is taken modulo `WORD`, are at most
`PIPESIZE` apart. `WritersWait` and `ReadersWait` say why a process sleeps: the pipe is full
(empty), or a process at the other end holds the lock and has its `wakeup()` before it. The
refinement rests on lemmas on the ring: the bytes between the counters lie in different
cells, also where a counter wraps around, because `PIPESIZE` divides `WORD`.

**Inode** (`InodeProofs`; `InodeAssumption`). Proved are `RefsCounted`, `CacheCoherent`,
`LinksCounted` and the refinement of `Files`, for any number of processes, names, inodes
and cache entries. The two counts are part of the invariant, since each step's effect on
an entry depends on whether somebody still points to it. `Entries` says that an entry with
references has an inode that no other such entry has, and agrees with the disk when it is
valid. For each call, `LocalsOf` says which variables are set at which label, `LocksOf`
which locks it holds there, and `KnowsOf` what it has read and may still rely on: that the
name it creates is absent, the name it removes leads to its inode, and that between the
test in `iput()` and the freeing nobody else has come to use the inode (`LastUse`). `New`
says that an inode that `ialloc()` has claimed is untouched until `create()` writes to it.
`Alloc` says that free inodes have no links and used ones are allocated. Other processes
are dealt with once: a step of `p` satisfies `Frame(p)`, which leaves their calls alone. The
counts change by `Toggle`, the size of two sets that differ in one element. The refinement
has a lemma for steps that `Files` does not see (`UnseenRefines`), and one for each kind
of step that it does.

**FileTable** (`FileTableProofs`). The hypothesis `Sizes` says that the processes and tables
are finite and that a pipe has two ends. Proved is `FilesCounted`, for tables of any size.
It needs three more facts to be inductive: what a call holds at each label (`CallOK`), that
a file without references has no type (`Reset`), and that a file that `filealloc()` has
given to a call and that has no type yet belongs to that call alone (`Private`). Without
the last, filling in the file in `sys_open()` or `pipealloc()` could overwrite what another
process has open. Every step is reduced to how it changes one descriptor, one call and one
file (`FileMoved`, `ObjectMoved`); `pipealloc()` and `sys_pipe()` change two, and `fork()` a
whole table (`Inherited`).

Not checked by TLC, because a theorem states it for all sizes: the type invariants and
`LockHandoff`, `OneCPU`, `ParentAlive`, `NoMissedExit` of `Proc`, `NoLostWakeup` of
`Ticks`, `OneCopy`, `HoldsItsBlock`, `DriverInStep` of `BufCache`, `HeaderFits` and
`NoStrandedSleeper` of `Log`, `OneInDevice`, `NoSelfDeadlock` and `Sane` of `SpinLock`.

Only model-checked are all liveness properties, which are out of the prover's reach;
the recursive algorithms (`Path`, `Shell`, `Grep`, `Umalloc`, `Vm`, `Blocks`), which
would need induction over data; and for the same reason `Tree`, whose reachable
directories are a closure, `Boot`, whose free list is a chain of pointers, `Console`, whose
`^U` erases in a recursive loop, and `Kbd`, whose flags depend on all the bytes that the
controller still holds.

## Not modelled

`PROJECT.json` lists every part with the reason. The boot loader, interrupt controllers
and device registers are hardware access that runs once or has no state of its
own. The other user programs matter only through the calls they make. Memory ordering is
not modelled: spinlocks are taken to give mutual exclusion with the usual barriers.

## Plan

1. A proof of `NoSleepOnInput` for `Console`, with `Erase` as a recursive function.
2. `memide.c`, and several devices in `BufCache`.
