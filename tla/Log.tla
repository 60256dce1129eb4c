--------------------------------- MODULE Log ---------------------------------
(***************************************************************************)
(* The write-ahead log of the file system (log.c) on top of a disk that    *)
(* writes one block at a time and may stop between any two writes.         *)
(*                                                                         *)
(* A step is a section under log.lock, a block write, or a step of a       *)
(* caller on a buffer whose sleep-lock it holds.  sleep(&log, &log.lock)   *)
(* is atomic with the test before it and wakeup(&log) wakes all sleepers,  *)
(* as Ticks shows of sleep() and wakeup().  Blocks the log has pinned stay *)
(* in the buffer cache until they are installed, so that cache[b] is what  *)
(* every read of the running system returns.                               *)
(***************************************************************************)
EXTENDS Integers, Sequences, FiniteSets

CONSTANTS
  Proc,          \* processes making file system calls
  Block,         \* home blocks
  NoBlock,       \* no buffer locked
  Val, Zero,     \* contents of a block
  MAXOPBLOCKS,   \* blocks one operation may write
  LOGSIZE,       \* capacity of the in-memory header
  SIZE,          \* log.size: blocks of the on-disk log, header included
  After          \* the home blocks that follow it, the inodes: After[i] is log.start + i

ASSUME LogAssumption ==
  /\ MAXOPBLOCKS \in Nat \ {0} /\ LOGSIZE \in Nat /\ SIZE \in Nat \ {0}
  /\ MAXOPBLOCKS <= LOGSIZE
  /\ Zero \in Val /\ NoBlock \notin Block
  /\ After \in [SIZE..LOGSIZE -> Block]

VARIABLES
  home,          \* on disk: the home blocks
  dlog,          \* on disk: the data blocks of the log
  dhead,         \* on disk: the block numbers in the log header
  cache,         \* buffer cache contents of the home blocks
  lh,            \* log.lh
  outstanding,   \* log.outstanding
  committing,    \* log.committing
  pc,            \* where each process is
  buf,           \* the block whose buffer the process has locked
  wrote,         \* the blocks its operation has written
  tail,          \* loop index of write_log() and install_trans()
  sys            \* "up", "halted" by panic(), or the step of initlog()

diskVars == <<home, dlog, dhead>>
opVars == <<buf, wrote>>
vars == <<home, dlog, dhead, cache, lh, outstanding, committing, pc, buf, wrote, tail, sys>>

Init ==
  /\ home = [b \in Block |-> Zero]
  /\ dlog = [i \in 1..(SIZE - 1) |-> Zero]
  /\ dhead = <<>>
  /\ cache = home
  /\ lh = <<>>
  /\ outstanding = 0
  /\ committing = FALSE
  /\ pc = [p \in Proc |-> "idle"]
  /\ buf = [p \in Proc |-> NoBlock]
  /\ wrote = [p \in Proc |-> {}]
  /\ tail = 1
  /\ sys = "up"

At(p, l) == sys = "up" /\ pc[p] = l

Goto(p, l) == pc' = [pc EXCEPT ![p] = l]

\* wakeup(&log) by p, which goes on to l.
Wakeup(p, l) ==
  pc' = [q \in Proc |-> IF q = p THEN l ELSE IF pc[q] = "sleep" THEN "begin" ELSE pc[q]]

Logged(b) == \E i \in 1..Len(lh) : lh[i] = b

\* Block log.start + i, a block of the log or, past its end, a home block of which
\* f has the contents;
LogBlock(i, f) == IF i < SIZE THEN dlog[i] ELSE f[After[i]]

\* and what a write of v to it makes of the home blocks.
PastEnd(f, i, v) == IF i < SIZE THEN f ELSE [f EXCEPT ![After[i]] = v]

\* commit() needs the buffers of both at the same time, and waits for ever when they
\* are one.
TwoBuffers == tail >= SIZE => After[tail] # lh[tail]

-----------------------------------------------------------------------------
(* begin_op() and log_write() *)

Call(p) ==
  /\ At(p, "idle")
  /\ Goto(p, "begin")
  /\ UNCHANGED <<diskVars, cache, lh, outstanding, committing, opVars, tail, sys>>

MustWait == committing \/ Len(lh) + (outstanding + 1) * MAXOPBLOCKS > LOGSIZE

BeginSleep(p) ==
  /\ At(p, "begin") /\ MustWait
  /\ Goto(p, "sleep")
  /\ UNCHANGED <<diskVars, cache, lh, outstanding, committing, opVars, tail, sys>>

BeginOp(p) ==
  /\ At(p, "begin") /\ ~MustWait
  /\ outstanding' = outstanding + 1
  /\ Goto(p, "op")
  /\ UNCHANGED <<diskVars, cache, lh, committing, opVars, tail, sys>>

\* The caller of log_write() has the buffer locked and modifies b->data.  An
\* operation writes at most MAXOPBLOCKS different blocks.
Modify(p, b, v) ==
  /\ At(p, "op")
  /\ \A q \in Proc : buf[q] # b
  /\ Cardinality(wrote[p] \cup {b}) <= MAXOPBLOCKS
  /\ cache' = [cache EXCEPT ![b] = v]
  /\ buf' = [buf EXCEPT ![p] = b]
  /\ wrote' = [wrote EXCEPT ![p] = @ \cup {b}]
  /\ Goto(p, "check")
  /\ UNCHANGED <<diskVars, lh, outstanding, committing, tail, sys>>

\* log_write() tests log.lh.n, before it takes log.lock.
TooBig == Len(lh) >= LOGSIZE \/ Len(lh) >= SIZE - 1

LogCheck(p) ==
  /\ At(p, "check") /\ ~TooBig /\ outstanding >= 1
  /\ Goto(p, "append")
  /\ UNCHANGED <<diskVars, cache, lh, outstanding, committing, opVars, tail, sys>>

\* panic("too big a transaction") or panic("log_write outside of trans")
LogPanic(p) ==
  /\ At(p, "check") /\ (TooBig \/ outstanding < 1)
  /\ sys' = "halted"
  /\ UNCHANGED <<diskVars, cache, lh, outstanding, committing, pc, opVars, tail>>

\* The rest of log_write(), under log.lock: append b, or absorb it.  The
\* caller then releases the buffer.
LogAppend(p) ==
  /\ At(p, "append")
  /\ lh' = IF Logged(buf[p]) THEN lh ELSE Append(lh, buf[p])
  /\ buf' = [buf EXCEPT ![p] = NoBlock]
  /\ Goto(p, "op")
  /\ UNCHANGED <<diskVars, cache, outstanding, committing, wrote, tail, sys>>

-----------------------------------------------------------------------------
(* end_op() and commit() *)

\* panic("log.committing") stops the machine.
CommitPanic == sys' = IF committing THEN "halted" ELSE sys

\* Not the last operation: "decrementing log.outstanding has decreased the
\* amount of reserved space", so wake up waiters.
EndOp(p) ==
  /\ At(p, "op") /\ outstanding # 1
  /\ CommitPanic
  /\ outstanding' = outstanding - 1
  /\ wrote' = [wrote EXCEPT ![p] = {}]
  /\ Wakeup(p, "idle")
  /\ UNCHANGED <<diskVars, cache, lh, committing, buf, tail>>

\* The last operation commits, if anything was written.
EndOpLast(p) ==
  /\ At(p, "op") /\ outstanding = 1
  /\ CommitPanic
  /\ outstanding' = 0
  /\ committing' = TRUE
  /\ tail' = 1
  /\ wrote' = [wrote EXCEPT ![p] = {}]
  /\ Goto(p, IF lh = <<>> THEN "done" ELSE "write_log")
  /\ UNCHANGED <<diskVars, cache, lh, buf>>

\* write_log(): one block from the cache to the log.
WriteLog(p) ==
  /\ At(p, "write_log") /\ tail <= Len(lh) /\ TwoBuffers
  /\ dlog' = IF tail < SIZE THEN [dlog EXCEPT ![tail] = cache[lh[tail]]] ELSE dlog
  /\ home' = PastEnd(home, tail, cache[lh[tail]])
  /\ cache' = PastEnd(cache, tail, cache[lh[tail]])
  /\ tail' = tail + 1
  /\ UNCHANGED <<dhead, lh, outstanding, committing, pc, opVars, sys>>

\* Faulty variant of WriteHead: blocks are installed without a commit record.
WriteHeadSkipped(p) ==
  /\ At(p, "write_log") /\ tail > Len(lh)
  /\ tail' = 1
  /\ Goto(p, "install")
  /\ UNCHANGED <<diskVars, cache, lh, outstanding, committing, opVars, sys>>

\* write_head(): "the true point at which the current transaction commits".
WriteHead(p) ==
  /\ At(p, "write_log") /\ tail > Len(lh)
  /\ dhead' = lh
  /\ tail' = 1
  /\ Goto(p, "install")
  /\ UNCHANGED <<home, dlog, cache, lh, outstanding, committing, opVars, sys>>

\* One round of install_trans(): a block from the log to its home.
InstallBlock ==
  /\ tail <= Len(lh) /\ TwoBuffers
  /\ home' = [home EXCEPT ![lh[tail]] = LogBlock(tail, cache)]
  /\ cache' = [cache EXCEPT ![lh[tail]] = LogBlock(tail, cache)]
  /\ tail' = tail + 1

Install(p) ==
  /\ At(p, "install")
  /\ InstallBlock
  /\ UNCHANGED <<dlog, dhead, lh, outstanding, committing, pc, opVars, sys>>

\* log.lh.n = 0 and the second write_head().
ClearLog ==
  /\ tail > Len(lh)
  /\ lh' = <<>>
  /\ dhead' = <<>>
  /\ tail' = 1

Clear(p) ==
  /\ At(p, "install")
  /\ ClearLog
  /\ Goto(p, "done")
  /\ UNCHANGED <<home, dlog, cache, outstanding, committing, opVars, sys>>

\* Faulty variant of Done: nobody is woken.
DoneQuietly(p) ==
  /\ At(p, "done")
  /\ committing' = FALSE
  /\ Goto(p, "idle")
  /\ UNCHANGED <<diskVars, cache, lh, outstanding, opVars, tail, sys>>

\* The end of end_op(): log.committing = 0 and wakeup(&log).
Done(p) ==
  /\ At(p, "done")
  /\ committing' = FALSE
  /\ Wakeup(p, "idle")
  /\ UNCHANGED <<diskVars, cache, lh, outstanding, opVars, tail, sys>>

-----------------------------------------------------------------------------
(* Crash and recover_from_log() *)

\* The machine stops, at any point, and is started again with an empty cache.
Crash ==
  /\ sys' = "read_head"
  /\ cache' = home
  /\ lh' = <<>>
  /\ outstanding' = 0
  /\ committing' = FALSE
  /\ pc' = [p \in Proc |-> "idle"]
  /\ wrote' = [p \in Proc |-> {}]
  /\ buf' = [p \in Proc |-> NoBlock]
  /\ tail' = 1
  /\ UNCHANGED diskVars

ReadHead ==
  /\ sys = "read_head"
  /\ lh' = dhead
  /\ sys' = "install"
  /\ UNCHANGED <<diskVars, cache, outstanding, committing, pc, opVars, tail>>

RecoverInstall ==
  /\ sys = "install"
  /\ InstallBlock
  /\ UNCHANGED <<dlog, dhead, lh, outstanding, committing, pc, opVars, sys>>

RecoverClear ==
  /\ sys = "install"
  /\ ClearLog
  /\ sys' = "up"
  /\ UNCHANGED <<home, dlog, cache, outstanding, committing, pc, opVars>>

-----------------------------------------------------------------------------
Write(p) == LogCheck(p) \/ LogPanic(p) \/ LogAppend(p)

End(p) == EndOp(p) \/ EndOpLast(p)

Commit(p) == WriteLog(p) \/ WriteHead(p) \/ Install(p) \/ Clear(p) \/ Done(p)

Recover == ReadHead \/ RecoverInstall \/ RecoverClear

Next ==
  \/ Crash \/ Recover
  \/ \E p \in Proc :
       \/ Call(p) \/ BeginSleep(p) \/ BeginOp(p) \/ Write(p) \/ End(p) \/ Commit(p)
       \/ \E b \in Block, v \in Val : Modify(p, b, v)

Spec == Init /\ [][Next]_vars

\* A process inside the kernel goes on, a file system call makes finitely many
\* log_write()s, and one that waits in begin_op() and finds room again and
\* again is at last the first to take log.lock.  Crashes are never certain.
FairSpec ==
  /\ Spec
  /\ WF_vars(Recover)
  /\ \A p \in Proc :
       /\ WF_vars(BeginSleep(p)) /\ SF_vars(BeginOp(p))
       /\ WF_vars(Write(p)) /\ SF_vars(End(p)) /\ WF_vars(Commit(p))

-----------------------------------------------------------------------------
(* Properties *)

\* Every variable has its type.
TypeOK ==
  /\ home \in [Block -> Val] /\ cache \in [Block -> Val]
  /\ dlog \in [1..(SIZE - 1) -> Val]
  /\ dhead \in Seq(Block) /\ lh \in Seq(Block)
  /\ outstanding \in Nat /\ committing \in BOOLEAN
  /\ pc \in [Proc -> {"idle", "begin", "sleep", "op", "check", "append",
                      "write_log", "install", "done"}]
  /\ buf \in [Proc -> Block \cup {NoBlock}] /\ wrote \in [Proc -> SUBSET Block]
  /\ tail \in Nat \ {0}
  /\ sys \in {"up", "halted", "read_head", "install"}

Operations == {p \in Proc : pc[p] \in {"op", "check", "append"}}

\* What recovery would make of the disk.
Recovered ==
  [b \in Block |->
     IF \E i \in 1..Len(dhead) : dhead[i] = b
       THEN LogBlock(CHOOSE i \in 1..Len(dhead) : dhead[i] = b, home)
       ELSE home[b]]

Disk == INSTANCE AtomicDisk WITH
          volatile <- IF sys \in {"up", "halted"} THEN cache ELSE Recovered,
          durable <- Recovered,
          active <- Operations

\* Transactions are atomic across crashes (log.c): the updates of the
\* operations between two commits reach the disk together, only when no
\* operation is active, and a crash at any write, of commit() or of the
\* recovery itself, leaves the last committed state.
ImplementsAtomicDisk == Disk!Spec

\* The reservation of begin_op() suffices: log.lh.block[LOGSIZE] is never
\* overrun, although log_write() tests log.lh.n before it takes log.lock.
HeaderFits == Len(lh) <= LOGSIZE

\* "Number of log blocks" (fs.h): write_log() stays inside the on-disk log, a
\* header and SIZE - 1 blocks; the block after it is the first inode block.
OnDiskFits == \A p \in Proc : pc[p] = "write_log" => Len(lh) < SIZE

\* A process that waits in begin_op() is woken: somebody who will call
\* wakeup(&log) is under way.
NoStrandedSleeper ==
  \A p \in Proc :
    pc[p] = "sleep" =>
      \E q \in Proc : pc[q] \in {"op", "check", "append", "write_log", "install", "done"}

\* begin_op() does not wait for ever, unless the machine stops.
Admitted == \A p \in Proc : pc[p] = "begin" ~> (pc[p] = "op" \/ sys # "up")
=============================================================================
