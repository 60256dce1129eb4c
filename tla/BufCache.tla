------------------------------ MODULE BufCache ------------------------------
(***************************************************************************)
(* The buffer cache (bio.c), its sleep-locks (sleeplock.c) and the disk    *)
(* driver (ide.c), with the disk as a device that finishes one request at  *)
(* a time and then interrupts.                                             *)
(*                                                                         *)
(* A step is a section under bcache.lock, the spinlock of a sleep-lock or  *)
(* idelock.  sleep() is atomic with the test before it, as Ticks shows.    *)
(* There is one device.  A process holds one buffer at a time.             *)
(***************************************************************************)
EXTENDS Integers, Sequences, FiniteSets

CONSTANTS
  Proc, Block, Buf,   \* processes, disk blocks, the buffers of bcache.buf
  Val, Zero,          \* block contents
  Bad,                \* the blocks the disk fails to read
  Nobody, NoBlock, NoBuf

ASSUME CacheAssumption ==
  /\ IsFiniteSet(Proc) /\ IsFiniteSet(Buf) /\ Zero \in Val
  /\ Nobody \notin Proc /\ NoBlock \notin Block /\ NoBuf \notin Buf

VARIABLES
  list,      \* the buffers, most recently used first
  blockno, refcnt, valid, dirty, data,   \* struct buf
  locked,    \* b->lock: its holder, or Nobody
  idequeue,  \* the buffers waiting for the disk
  active,    \* the buffer whose request idestart() gave to the disk
  disk,      \* contents of the disk
  pc, bp,    \* where each process is, and its buffer
  want       \* the block it asked for

cacheVars == <<list, blockno, refcnt>>
bufVars == <<valid, dirty, data>>
ideVars == <<idequeue, active, disk>>
vars == <<list, blockno, refcnt, valid, dirty, data, locked, idequeue, active, disk,
          pc, bp, want>>

\* The lists that link every buffer once.
Order ==
  {s \in [1..Cardinality(Buf) -> Buf] :
     /\ \A i, j \in DOMAIN s : s[i] = s[j] => i = j
     /\ \A b \in Buf : \E i \in DOMAIN s : s[i] = b}

Init ==
  /\ list \in Order
  /\ blockno = [b \in Buf |-> NoBlock]
  /\ refcnt = [b \in Buf |-> 0]
  /\ valid = [b \in Buf |-> FALSE] /\ dirty = [b \in Buf |-> FALSE]
  /\ data = [b \in Buf |-> Zero]
  /\ locked = [b \in Buf |-> Nobody]
  /\ idequeue = <<>> /\ active = NoBuf
  /\ disk = [k \in Block |-> Zero]
  /\ pc = [p \in Proc |-> "idle"]
  /\ bp = [p \in Proc |-> NoBuf]
  /\ want = [p \in Proc |-> NoBlock]

Goto(p, l) == pc' = [pc EXCEPT ![p] = l]

-----------------------------------------------------------------------------
(* bget() *)

\* panic("bget: no buffers") is called with bcache.lock held.
Unlocked == \A q \in Proc : pc[q] # "panic"

\* The block is cached: count the reference.
BgetHit(p, k) ==
  /\ pc[p] = "idle" /\ Unlocked
  /\ \E b \in Buf :
       /\ blockno[b] = k
       /\ refcnt' = [refcnt EXCEPT ![b] = @ + 1]
       /\ bp' = [bp EXCEPT ![p] = b]
  /\ want' = [want EXCEPT ![p] = k]
  /\ Goto(p, "acquiresleep")
  /\ UNCHANGED <<list, blockno, bufVars, locked, ideVars>>

\* Faulty variant of Unused: a buffer pinned by the log counts as unused.
UnusedPinned(b) == refcnt[b] = 0

\* "Even if refcnt==0, B_DIRTY indicates a buffer is in use."
Unused(b) == refcnt[b] = 0 /\ ~dirty[b]

\* The block is not cached: recycle the least recently used buffer.
BgetMiss(p, k) ==
  /\ pc[p] = "idle" /\ Unlocked /\ \A b \in Buf : blockno[b] # k
  /\ \E j \in DOMAIN list :
       /\ Unused(list[j]) /\ \A m \in DOMAIN list : m > j => ~Unused(list[m])
       /\ blockno' = [blockno EXCEPT ![list[j]] = k]
       /\ valid' = [valid EXCEPT ![list[j]] = FALSE]
       /\ refcnt' = [refcnt EXCEPT ![list[j]] = 1]
       /\ bp' = [bp EXCEPT ![p] = list[j]]
  /\ want' = [want EXCEPT ![p] = k]
  /\ Goto(p, "acquiresleep")
  /\ UNCHANGED <<list, dirty, data, locked, ideVars>>

\* panic("bget: no buffers")
BgetPanic(p, k) ==
  /\ pc[p] = "idle" /\ Unlocked /\ \A b \in Buf : blockno[b] # k /\ ~Unused(b)
  /\ Goto(p, "panic")
  /\ UNCHANGED <<cacheVars, bufVars, locked, ideVars, bp, want>>

-----------------------------------------------------------------------------
(* acquiresleep() and releasesleep() of b->lock *)

AcquireSleep(p) ==
  /\ pc[p] = "acquiresleep" /\ locked[bp[p]] = Nobody
  /\ locked' = [locked EXCEPT ![bp[p]] = p]
  /\ Goto(p, IF valid[bp[p]] THEN "locked" ELSE "iderw")
  /\ UNCHANGED <<cacheVars, bufVars, ideVars, bp, want>>

AcquireWait(p) ==
  /\ pc[p] = "acquiresleep" /\ locked[bp[p]] # Nobody
  /\ Goto(p, "sleeplock")
  /\ UNCHANGED <<cacheVars, bufVars, locked, ideVars, bp, want>>

\* Faulty variant of ReleaseSleep: no wakeup().
ReleaseSleepQuietly(p) ==
  /\ pc[p] = "locked"
  /\ locked' = [locked EXCEPT ![bp[p]] = Nobody]
  /\ Goto(p, "brelse")
  /\ UNCHANGED <<cacheVars, bufVars, ideVars, bp, want>>

\* brelse(): releasesleep(&b->lock) ...
ReleaseSleep(p) ==
  /\ pc[p] = "locked"
  /\ locked' = [locked EXCEPT ![bp[p]] = Nobody]
  /\ pc' = [q \in Proc |->
              IF q = p THEN "brelse"
              ELSE IF pc[q] = "sleeplock" /\ bp[q] = bp[p] THEN "acquiresleep" ELSE pc[q]]
  /\ UNCHANGED <<cacheVars, bufVars, ideVars, bp, want>>

\* Link b at the head of the list.
MoveToFront(b) ==
  LET i == CHOOSE i \in DOMAIN list : list[i] = b
  IN  [j \in DOMAIN list |-> IF j = 1 THEN b ELSE IF j <= i THEN list[j - 1] ELSE list[j]]

\* ... then b->refcnt--, and an unused buffer moves to the head of the list.
Brelse(p) ==
  /\ pc[p] = "brelse" /\ Unlocked
  /\ refcnt' = [refcnt EXCEPT ![bp[p]] = @ - 1]
  /\ list' = IF refcnt[bp[p]] = 1 THEN MoveToFront(bp[p]) ELSE list
  /\ bp' = [bp EXCEPT ![p] = NoBuf]
  /\ want' = [want EXCEPT ![p] = NoBlock]
  /\ Goto(p, "idle")
  /\ UNCHANGED <<blockno, bufVars, locked, ideVars>>

-----------------------------------------------------------------------------
(* The holder of a buffer *)

\* It changes the contents and calls bwrite(), which marks the buffer dirty.
Bwrite(p, v) ==
  /\ pc[p] = "locked"
  /\ data' = [data EXCEPT ![bp[p]] = v]
  /\ dirty' = [dirty EXCEPT ![bp[p]] = TRUE]
  /\ Goto(p, "iderw")
  /\ UNCHANGED <<cacheVars, valid, locked, ideVars, bp, want>>

\* It changes the contents and calls log_write(), which pins the buffer.
LogWrite(p, v) ==
  /\ pc[p] = "locked"
  /\ data' = [data EXCEPT ![bp[p]] = v]
  /\ dirty' = [dirty EXCEPT ![bp[p]] = TRUE]
  /\ UNCHANGED <<cacheVars, valid, locked, ideVars, pc, bp, want>>

-----------------------------------------------------------------------------
(* iderw() and ideintr() *)

\* Append b to idequeue, start the disk if necessary, and sleep.
IdeRw(p) ==
  /\ pc[p] = "iderw"
  /\ idequeue' = Append(idequeue, bp[p])
  /\ active' = IF idequeue = <<>> THEN bp[p] ELSE active
  /\ Goto(p, "iosleep")
  /\ UNCHANGED <<cacheVars, bufVars, locked, disk, bp, want>>

\* The disk has finished the request it was given and interrupts; the handler
\* takes the first queued buffer to be that request, completes it, wakes its
\* process and starts the next.  After a failed read (idewait(1) < 0) the buffer
\* keeps its old data and becomes valid all the same.
IdeIntr ==
  /\ active # NoBuf /\ idequeue # <<>>
  /\ LET b == Head(idequeue)
     IN  /\ disk' = IF dirty[active] THEN [disk EXCEPT ![blockno[active]] = data[active]]
                    ELSE disk
         /\ data' = IF dirty[b] \/ blockno[active] \in Bad THEN data
                    ELSE [data EXCEPT ![b] = disk[blockno[active]]]
         /\ valid' = [valid EXCEPT ![b] = TRUE]
         /\ dirty' = [dirty EXCEPT ![b] = FALSE]
         /\ pc' = [q \in Proc |->
                     IF pc[q] = "iosleep" /\ bp[q] = b THEN "locked" ELSE pc[q]]
  /\ idequeue' = Tail(idequeue)
  /\ active' = IF Tail(idequeue) = <<>> THEN NoBuf ELSE Head(Tail(idequeue))
  /\ UNCHANGED <<cacheVars, locked, bp, want>>

-----------------------------------------------------------------------------
Kernel(p) ==
  AcquireSleep(p) \/ AcquireWait(p) \/ IdeRw(p) \/ Brelse(p)

Next ==
  \/ IdeIntr
  \/ \E p \in Proc :
       \/ Kernel(p) \/ ReleaseSleep(p)
       \/ \E k \in Block : BgetHit(p, k) \/ BgetMiss(p, k) \/ BgetPanic(p, k)
       \/ \E v \in Val : Bwrite(p, v) \/ LogWrite(p, v)

Spec == Init /\ [][Next]_vars

\* The disk answers every request and a process inside the kernel goes on.
FairSpec == Spec /\ WF_vars(IdeIntr) /\ \A p \in Proc : WF_vars(Kernel(p))

-----------------------------------------------------------------------------
(* Properties *)

\* Every variable has its type.
TypeOK ==
  /\ list \in Order
  /\ blockno \in [Buf -> Block \cup {NoBlock}]
  /\ refcnt \in [Buf -> Nat]
  /\ valid \in [Buf -> BOOLEAN] /\ dirty \in [Buf -> BOOLEAN]
  /\ data \in [Buf -> Val]
  /\ locked \in [Buf -> Proc \cup {Nobody}]
  /\ idequeue \in Seq(Buf) /\ active \in Buf \cup {NoBuf}
  /\ disk \in [Block -> Val]
  /\ pc \in [Proc -> {"idle", "acquiresleep", "sleeplock", "locked", "iderw", "iosleep",
                      "brelse", "panic"}]
  /\ bp \in [Proc -> Buf \cup {NoBuf}] /\ want \in [Proc -> Block \cup {NoBlock}]

\* A block is cached in at most one buffer, also when several processes miss
\* it at the same time or wait while its buffer could be recycled (bget()).
OneCopy ==
  \A b, c \in Buf : blockno[b] = blockno[c] /\ blockno[b] # NoBlock => b = c

\* "Return a locked buf with the contents of the indicated block" (bread()):
\* what a process holds is its block, locked by it and valid, and it stays so
\* although it slept twice since bget() chose the buffer.
HoldsItsBlock ==
  \A p \in Proc : pc[p] = "locked" =>
    /\ blockno[bp[p]] = want[p] /\ locked[bp[p]] = p /\ valid[bp[p]]
    /\ ~dirty[bp[p]] => data[bp[p]] = disk[want[p]]

\* The driver's queue and the disk agree: the disk works exactly when requests
\* are queued, on the first one, which its process waits for.
DriverInStep ==
  /\ idequeue = <<>> <=> active = NoBuf
  /\ idequeue # <<>> => active = Head(idequeue)
  /\ \A b \in Buf : (\E j \in 1..Len(idequeue) : idequeue[j] = b)
                      <=> \E p \in Proc : pc[p] = "iosleep" /\ bp[p] = b

\* Contents of block k: in its buffer once that is valid, else on disk.
Contents(k) ==
  IF \E b \in Buf : blockno[b] = k /\ valid[b]
    THEN data[CHOOSE b \in Buf : blockno[b] = k /\ valid[b]] ELSE disk[k]

\* A process owns its block from the return of bread() to brelse().
Owns(p, k) ==
  /\ want[p] = k
  /\ \/ pc[p] = "locked"
     \/ pc[p] \in {"iderw", "iosleep"} /\ valid[bp[p]]

Owner(k) ==
  IF \E p \in Proc : Owns(p, k) THEN CHOOSE p \in Proc : Owns(p, k) ELSE Nobody

Store == INSTANCE BlockStore WITH
           val <- [k \in Block |-> Contents(k)], owner <- [k \in Block |-> Owner(k)]

\* To its clients the cache is one value per block, with exclusive access:
\* recycling, the disk queue and pinned buffers do not show.
ImplementsBlockStore == Store!Spec

\* While processes want a buffer, one of them gets it, with its contents: neither
\* releasesleep() nor ideintr() loses a wakeup, unless bget() panics.
WaitersServed ==
  \A b \in Buf :
    (\E p \in Proc : bp[p] = b /\ pc[p] \in {"acquiresleep", "sleeplock"})
      ~> (~Unlocked \/ \E p \in Proc : bp[p] = b /\ pc[p] = "locked")
=============================================================================
