--------------------------- MODULE BufCacheProofs ---------------------------
(***************************************************************************)
(* Proofs about BufCache, for every number of processes, buffers and       *)
(* blocks: its inductive invariant, that a block has one buffer, that      *)
(* bread() returns the block it was asked for, and that to its clients the *)
(* cache is a BlockStore.                                                  *)
(***************************************************************************)
EXTENDS BufCache, FiniteSetTheorems, TLAPS

\* The processes between bget() and the end of brelse() of buffer b.
Users(b) == {p \in Proc : bp[p] = b}

\* b->refcnt counts them.
Refs == \A b \in Buf : refcnt[b] = Cardinality(Users(b))

\* A process has a buffer from bget() to brelse(), and it is that of its block.
Uses ==
  \A p \in Proc :
    /\ (bp[p] = NoBuf) <=> (pc[p] \in {"idle", "panic"})
    /\ bp[p] # NoBuf => blockno[bp[p]] = want[p] /\ want[p] \in Block

\* The holder of a sleep-lock shows in the program counters.
Locks ==
  \A p \in Proc, b \in Buf :
    (locked[b] = p) <=> (bp[p] = b /\ pc[p] \in {"locked", "iderw", "iosleep"})

\* What B_VALID and B_DIRTY mean at each point.
Flags ==
  /\ \A b \in Buf : (dirty[b] => valid[b]) /\ (valid[b] => blockno[b] \in Block)
  /\ \A p \in Proc :
       /\ pc[p] = "locked" => valid[bp[p]]
       /\ pc[p] \in {"iderw", "iosleep"} => (~valid[bp[p]] \/ dirty[bp[p]])

\* Without read errors a valid buffer that is not dirty agrees with the disk.
Clean ==
  Bad = {} => \A b \in Buf : valid[b] /\ ~dirty[b] => data[b] = disk[blockno[b]]

\* No buffer is queued twice.
QueuedOnce == \A i, j \in 1..Len(idequeue) : idequeue[i] = idequeue[j] => i = j

IInv ==
  /\ TypeOK /\ Refs /\ Uses /\ Locks /\ Flags /\ Clean
  /\ OneCopy /\ QueuedOnce /\ DriverInStep

-----------------------------------------------------------------------------
\* Users(b) is finite and its size a number.
LEMMA UsersFinite ==
  ASSUME NEW b
  PROVE  IsFiniteSet(Users(b)) /\ Cardinality(Users(b)) \in Nat
<1>1. Users(b) \subseteq Proc
  BY Zenon DEF Users
<1> QED
  BY <1>1, CacheAssumption, FS_Subset, FS_CardinalityType, Zenon

\* The first buffer of a queue.
LEMMA HeadOfQueue ==
  ASSUME NEW q \in Seq(Buf), q # <<>>
  PROVE  Head(q) \in Buf /\ Head(q) = q[1] /\ Len(q) \in Nat \ {0}
OBVIOUS

\* Moving a buffer to the head of the list keeps every buffer linked once.
LEMMA MoveKeepsOrder ==
  ASSUME list \in Order, NEW b \in Buf
  PROVE  MoveToFront(b) \in Order
<1> DEFINE n == Cardinality(Buf)
           k == CHOOSE i \in DOMAIN list : list[i] = b
           s == MoveToFront(b)
<1>1. n \in Nat
  BY CacheAssumption, FS_CardinalityType, Zenon
<1>2. /\ list \in [1..n -> Buf]
      /\ \A i, j \in 1..n : list[i] = list[j] => i = j
      /\ \A c \in Buf : \E i \in 1..n : list[i] = c
  BY Zenon DEF Order
<1>3. k \in 1..n /\ list[k] = b
  BY <1>2, Zenon
<1>4. s = [j \in 1..n |-> IF j = 1 THEN b ELSE IF j <= k THEN list[j - 1] ELSE list[j]]
  BY <1>2, Zenon DEF MoveToFront
<1> HIDE DEF n, k, s
<1>5. s \in [1..n -> Buf]
  BY <1>1, <1>2, <1>3, <1>4
<1>6. ASSUME NEW i \in 1..n, NEW j \in 1..n, s[i] = s[j]
      PROVE  i = j
  BY <1>1, <1>2, <1>3, <1>4, <1>6
<1>7. ASSUME NEW c \in Buf
      PROVE  \E i \in 1..n : s[i] = c
  <2>1. PICK m \in 1..n : list[m] = c
    BY <1>2, Zenon
  <2>2. CASE m = k
    BY <2>1, <2>2, <1>1, <1>3, <1>4
  <2>3. CASE m < k
    <3>1. m + 1 \in 1..n /\ s[m + 1] = c
      BY <2>1, <2>3, <1>1, <1>3, <1>4
    <3> QED
      BY <3>1, Zenon
  <2>4. CASE m > k
    BY <2>1, <2>4, <1>1, <1>3, <1>4
  <2> QED
    BY <2>2, <2>3, <2>4, <1>1, <1>3
<1>8. DOMAIN s = 1..n
  BY <1>5, Zenon
<1> QED
  BY <1>5, <1>6, <1>7, <1>8, Zenon DEF Order, n, s

\* The driver stays in step when the queue and those waiting for the disk do.
LEMMA DriverStays ==
  ASSUME DriverInStep, UNCHANGED <<idequeue, active>>,
         \A q \in Proc : \/ pc'[q] = pc[q] /\ bp'[q] = bp[q]
                         \/ pc[q] # "iosleep" /\ pc'[q] # "iosleep"
  PROVE  DriverInStep'
<1>1. ASSUME NEW b \in Buf
      PROVE  (\E q \in Proc : pc'[q] = "iosleep" /\ bp'[q] = b)
               <=> \E q \in Proc : pc[q] = "iosleep" /\ bp[q] = b
  BY Zenon
<1>2. idequeue' = idequeue /\ active' = active
  BY Zenon
<1> QED
  BY <1>1, <1>2 DEF DriverInStep

-----------------------------------------------------------------------------
\* bget() finds the block: one more user.
LEMMA BgetHitKeeps ==
  ASSUME IInv, NEW p \in Proc, NEW k \in Block, BgetHit(p, k)
  PROVE  IInv'
<1> USE DEF BgetHit, Goto, cacheVars, bufVars, ideVars
<1> PICK b \in Buf :
         /\ blockno[b] = k
         /\ refcnt' = [refcnt EXCEPT ![b] = @ + 1]
         /\ bp' = [bp EXCEPT ![p] = b]
  BY Zenon
<1> HIDE DEF BgetHit
<1>0. /\ pc[p] = "idle" /\ bp[p] = NoBuf
      /\ want' = [want EXCEPT ![p] = k] /\ pc' = [pc EXCEPT ![p] = "acquiresleep"]
      /\ UNCHANGED <<list, blockno, bufVars, locked, ideVars>>
  BY Zenon DEF BgetHit, IInv, Uses
<1>1. TypeOK'
  BY <1>0, CacheAssumption DEF IInv, TypeOK
<1>2. Refs'
  <2>1. ASSUME NEW c \in Buf
        PROVE  Users(c)' = IF c = b THEN Users(c) \cup {p} ELSE Users(c)
    BY <1>0, CacheAssumption DEF IInv, TypeOK, Users
  <2>2. \A c \in Buf : p \notin Users(c)
    BY <1>0, CacheAssumption, Zenon DEF Users
  <2>3. Cardinality(Users(b) \cup {p}) = Cardinality(Users(b)) + 1
    BY <2>2, UsersFinite, FS_AddElement, Zenon
  <2> QED
    BY <2>1, <2>3, Zenon DEF IInv, Refs, TypeOK
<1>3. Uses'
  BY <1>0, CacheAssumption, Zenon DEF IInv, TypeOK, Uses
<1>4. Locks'
  BY <1>0, CacheAssumption DEF IInv, TypeOK, Uses, Locks
<1>5. Flags'
  BY <1>0, CacheAssumption DEF IInv, TypeOK, Uses, Locks, Flags
<1>6. Clean'
  BY <1>0, CacheAssumption, Zenon DEF IInv, TypeOK, Uses, Locks, Flags, Clean
<1>7. OneCopy'
  BY <1>0, CacheAssumption, Zenon DEF IInv, TypeOK, OneCopy
<1>8. QueuedOnce'
  BY <1>0, CacheAssumption, Zenon DEF IInv, TypeOK, QueuedOnce
<1>9. DriverInStep'
  BY <1>0, DriverStays, CacheAssumption, Zenon DEF IInv, TypeOK
<1> QED
  BY <1>1, <1>2, <1>3, <1>4, <1>5, <1>6, <1>7, <1>8, <1>9, Zenon DEF IInv

\* bget() recycles a buffer, which nobody uses.
LEMMA BgetMissKeeps ==
  ASSUME IInv, NEW p \in Proc, NEW k \in Block, BgetMiss(p, k)
  PROVE  IInv'
<1> USE DEF BgetMiss, Goto, cacheVars, bufVars, ideVars
<1> PICK j \in DOMAIN list :
         /\ Unused(list[j])
         /\ blockno' = [blockno EXCEPT ![list[j]] = k]
         /\ valid' = [valid EXCEPT ![list[j]] = FALSE]
         /\ refcnt' = [refcnt EXCEPT ![list[j]] = 1]
         /\ bp' = [bp EXCEPT ![p] = list[j]]
  BY Zenon
<1> HIDE DEF BgetMiss
<1> DEFINE b == list[j]
<1>0. /\ b \in Buf
      /\ pc[p] = "idle" /\ bp[p] = NoBuf /\ \A c \in Buf : blockno[c] # k
      /\ want' = [want EXCEPT ![p] = k] /\ pc' = [pc EXCEPT ![p] = "acquiresleep"]
      /\ UNCHANGED <<list, dirty, data, locked, ideVars>>
      /\ refcnt[b] = 0 /\ ~dirty[b]
  <2>1. b \in Buf
    BY ZenonT(60) DEF IInv, TypeOK, Order
  <2>2. /\ pc[p] = "idle" /\ \A c \in Buf : blockno[c] # k
        /\ want' = [want EXCEPT ![p] = k] /\ pc' = [pc EXCEPT ![p] = "acquiresleep"]
        /\ UNCHANGED <<list, dirty, data, locked, ideVars>>
    BY Zenon DEF BgetMiss
  <2>3. bp[p] = NoBuf
    BY <2>2, Zenon DEF IInv, Uses
  <2>4. refcnt[b] = 0 /\ ~dirty[b]
    BY Zenon DEF Unused
  <2> QED
    BY <2>1, <2>2, <2>3, <2>4, Zenon
<1>a. Users(b) = {}
  BY <1>0, UsersFinite, FS_EmptySet, Zenon DEF IInv, Refs
<1>b. \A q \in Proc : bp[q] # b
  BY <1>a, Zenon DEF Users
<1> HIDE DEF b
<1>c. /\ blockno' = [blockno EXCEPT ![b] = k] /\ valid' = [valid EXCEPT ![b] = FALSE]
      /\ refcnt' = [refcnt EXCEPT ![b] = 1] /\ bp' = [bp EXCEPT ![p] = b]
  BY Zenon DEF b
<1>1. TypeOK'
  BY <1>0, <1>b, <1>c, CacheAssumption DEF IInv, TypeOK
<1>2. Refs'
  <2>1. ASSUME NEW c \in Buf
        PROVE  Users(c)' = IF c = b THEN {p} ELSE Users(c)
    BY <1>0, <1>b, <1>c, CacheAssumption DEF IInv, TypeOK, Users
  <2>2. Cardinality({p}) = 1
    BY FS_Singleton, Zenon
  <2> QED
    BY <1>0, <1>c, <2>1, <2>2, ZenonT(60) DEF IInv, Refs, TypeOK
<1>3. Uses'
  BY <1>0, <1>b, <1>c, CacheAssumption DEF IInv, TypeOK, Uses
<1>4. Locks'
  BY <1>0, <1>b, <1>c, CacheAssumption DEF IInv, TypeOK, Uses, Locks
<1>5. Flags'
  BY <1>0, <1>b, <1>c, CacheAssumption DEF IInv, TypeOK, Uses, Locks, Flags
<1>6. Clean'
  BY <1>0, <1>b, <1>c, CacheAssumption DEF IInv, TypeOK, Uses, Locks, Flags, Clean
<1>7. OneCopy'
  BY <1>0, <1>b, <1>c, CacheAssumption DEF IInv, TypeOK, OneCopy
<1>8. QueuedOnce'
  BY <1>0, <1>b, <1>c, CacheAssumption DEF IInv, TypeOK, QueuedOnce
<1>9. DriverInStep'
  BY <1>0, <1>b, <1>c, DriverStays, CacheAssumption, Zenon DEF IInv, TypeOK
<1> QED
  BY <1>1, <1>2, <1>3, <1>4, <1>5, <1>6, <1>7, <1>8, <1>9, Zenon DEF IInv

\* bget() panics.
LEMMA BgetPanicKeeps ==
  ASSUME IInv, NEW p \in Proc, NEW k \in Block, BgetPanic(p, k)
  PROVE  IInv'
<1> USE DEF BgetPanic, Goto, cacheVars, bufVars, ideVars
<1>1. TypeOK'
  BY CacheAssumption, Zenon DEF IInv, TypeOK
<1>2. Refs'
  <2>1. \A b \in Buf : Users(b)' = Users(b)
    BY Zenon DEF Users
  <2> QED
    BY <2>1, Zenon DEF IInv, Refs
<1>3. Uses'
  BY CacheAssumption, Zenon DEF IInv, TypeOK, Uses
<1>4. Locks'
  BY CacheAssumption DEF IInv, TypeOK, Uses, Locks
<1>5. Flags'
  BY CacheAssumption DEF IInv, TypeOK, Uses, Locks, Flags
<1>6. Clean'
  BY CacheAssumption, Zenon DEF IInv, TypeOK, Uses, Locks, Flags, Clean
<1>7. OneCopy'
  BY CacheAssumption, Zenon DEF IInv, TypeOK, OneCopy
<1>8. QueuedOnce'
  BY CacheAssumption, Zenon DEF IInv, TypeOK, QueuedOnce
<1>9. DriverInStep'
  BY DriverStays, CacheAssumption, Zenon DEF IInv, TypeOK
<1> QED
  BY <1>1, <1>2, <1>3, <1>4, <1>5, <1>6, <1>7, <1>8, <1>9, Zenon DEF IInv

\* acquiresleep() takes the lock of the buffer, which bread() may have to read.
LEMMA AcquireSleepKeeps ==
  ASSUME IInv, NEW p \in Proc, AcquireSleep(p)
  PROVE  IInv'
<1> USE DEF AcquireSleep, Goto, cacheVars, bufVars, ideVars
<1>0. bp[p] \in Buf
  BY Zenon DEF IInv, TypeOK, Uses
<1>1. TypeOK'
  BY <1>0, CacheAssumption, Zenon DEF IInv, TypeOK
<1>2. Refs'
  <2>1. \A b \in Buf : Users(b)' = Users(b)
    BY Zenon DEF Users
  <2> QED
    BY <2>1, Zenon DEF IInv, Refs
<1>3. Uses'
  BY <1>0, CacheAssumption, Zenon DEF IInv, TypeOK, Uses
<1>4. Locks'
  BY <1>0, CacheAssumption DEF IInv, TypeOK, Uses, Locks
<1>5. Flags'
  BY <1>0, CacheAssumption DEF IInv, TypeOK, Uses, Locks, Flags
<1>6. Clean'
  BY <1>0, CacheAssumption, Zenon DEF IInv, TypeOK, Uses, Locks, Flags, Clean
<1>7. OneCopy'
  BY <1>0, CacheAssumption, Zenon DEF IInv, TypeOK, OneCopy
<1>8. QueuedOnce'
  BY <1>0, CacheAssumption, Zenon DEF IInv, TypeOK, QueuedOnce
<1>9. DriverInStep'
  BY <1>0, DriverStays, CacheAssumption, Zenon DEF IInv, TypeOK
<1> QED
  BY <1>1, <1>2, <1>3, <1>4, <1>5, <1>6, <1>7, <1>8, <1>9, Zenon DEF IInv

\* acquiresleep() sleeps.
LEMMA AcquireWaitKeeps ==
  ASSUME IInv, NEW p \in Proc, AcquireWait(p)
  PROVE  IInv'
<1> USE DEF AcquireWait, Goto, cacheVars, bufVars, ideVars
<1>1. TypeOK'
  BY CacheAssumption, Zenon DEF IInv, TypeOK
<1>2. Refs'
  <2>1. \A b \in Buf : Users(b)' = Users(b)
    BY Zenon DEF Users
  <2> QED
    BY <2>1, Zenon DEF IInv, Refs
<1>3. Uses'
  BY CacheAssumption, Zenon DEF IInv, TypeOK, Uses
<1>4. Locks'
  BY CacheAssumption DEF IInv, TypeOK, Uses, Locks
<1>5. Flags'
  BY CacheAssumption DEF IInv, TypeOK, Uses, Locks, Flags
<1>6. Clean'
  BY CacheAssumption, Zenon DEF IInv, TypeOK, Uses, Locks, Flags, Clean
<1>7. OneCopy'
  BY CacheAssumption, Zenon DEF IInv, TypeOK, OneCopy
<1>8. QueuedOnce'
  BY CacheAssumption, Zenon DEF IInv, TypeOK, QueuedOnce
<1>9. DriverInStep'
  BY DriverStays, CacheAssumption, Zenon DEF IInv, TypeOK
<1> QED
  BY <1>1, <1>2, <1>3, <1>4, <1>5, <1>6, <1>7, <1>8, <1>9, Zenon DEF IInv

\* releasesleep() wakes the waiters of the buffer.
LEMMA ReleaseSleepKeeps ==
  ASSUME IInv, NEW p \in Proc, ReleaseSleep(p)
  PROVE  IInv'
<1> USE DEF ReleaseSleep, Goto, cacheVars, bufVars, ideVars
<1>0. bp[p] \in Buf
  BY Zenon DEF IInv, TypeOK, Uses
<1>1. TypeOK'
  BY <1>0, CacheAssumption, Zenon DEF IInv, TypeOK
<1>2. Refs'
  <2>1. \A b \in Buf : Users(b)' = Users(b)
    BY Zenon DEF Users
  <2> QED
    BY <2>1, Zenon DEF IInv, Refs
<1>3. Uses'
  BY <1>0, CacheAssumption, Zenon DEF IInv, TypeOK, Uses
<1>4. Locks'
  BY <1>0, CacheAssumption DEF IInv, TypeOK, Uses, Locks
<1>5. Flags'
  BY <1>0, CacheAssumption, Zenon DEF IInv, TypeOK, Uses, Locks, Flags
<1>6. Clean'
  BY <1>0, CacheAssumption, Zenon DEF IInv, TypeOK, Uses, Locks, Flags, Clean
<1>7. OneCopy'
  BY <1>0, CacheAssumption, Zenon DEF IInv, TypeOK, OneCopy
<1>8. QueuedOnce'
  BY <1>0, CacheAssumption, Zenon DEF IInv, TypeOK, QueuedOnce
<1>9. DriverInStep'
  BY <1>0, DriverStays, CacheAssumption, Zenon DEF IInv, TypeOK
<1> QED
  BY <1>1, <1>2, <1>3, <1>4, <1>5, <1>6, <1>7, <1>8, <1>9, Zenon DEF IInv

\* brelse() gives up the reference.
LEMMA BrelseKeeps ==
  ASSUME IInv, NEW p \in Proc, Brelse(p)
  PROVE  IInv'
<1> USE DEF Brelse, Goto, cacheVars, bufVars, ideVars
<1>0. bp[p] \in Buf
  BY Zenon DEF IInv, TypeOK, Uses
<1>a. p \in Users(bp[p]) /\ refcnt[bp[p]] = Cardinality(Users(bp[p])) /\ refcnt[bp[p]] > 0
  <2>1. p \in Users(bp[p]) /\ refcnt[bp[p]] = Cardinality(Users(bp[p]))
    BY <1>0, Zenon DEF IInv, Refs, Users
  <2> QED
    BY <2>1, UsersFinite, FS_EmptySet
<1>1. TypeOK'
  BY <1>0, <1>a, MoveKeepsOrder, CacheAssumption DEF IInv, TypeOK
<1>2. Refs'
  <2>1. ASSUME NEW c \in Buf
        PROVE  Users(c)' = IF c = bp[p] THEN Users(c) \ {p} ELSE Users(c)
    BY <1>0, CacheAssumption, Zenon DEF IInv, TypeOK, Users
  <2>2. Cardinality(Users(bp[p]) \ {p}) = Cardinality(Users(bp[p])) - 1
    BY <1>a, UsersFinite, FS_RemoveElement, Zenon
  <2> QED
    BY <1>0, <2>1, <2>2, Zenon DEF IInv, Refs, TypeOK
<1>3. Uses'
  BY <1>0, CacheAssumption, Zenon DEF IInv, TypeOK, Uses
<1>4. Locks'
  BY <1>0, CacheAssumption DEF IInv, TypeOK, Uses, Locks
<1>5. Flags'
  BY <1>0, CacheAssumption DEF IInv, TypeOK, Uses, Locks, Flags
<1>6. Clean'
  BY <1>0, CacheAssumption, Zenon DEF IInv, TypeOK, Uses, Locks, Flags, Clean
<1>7. OneCopy'
  BY <1>0, CacheAssumption, Zenon DEF IInv, TypeOK, OneCopy
<1>8. QueuedOnce'
  BY <1>0, CacheAssumption, Zenon DEF IInv, TypeOK, QueuedOnce
<1>9. DriverInStep'
  BY <1>0, DriverStays, CacheAssumption, Zenon DEF IInv, TypeOK
<1> QED
  BY <1>1, <1>2, <1>3, <1>4, <1>5, <1>6, <1>7, <1>8, <1>9, Zenon DEF IInv

\* bwrite() marks the buffer dirty.
LEMMA BwriteKeeps ==
  ASSUME IInv, NEW p \in Proc, NEW v \in Val, Bwrite(p, v)
  PROVE  IInv'
<1> USE DEF Bwrite, Goto, cacheVars, bufVars, ideVars
<1>0. bp[p] \in Buf
  BY Zenon DEF IInv, TypeOK, Uses
<1>1. TypeOK'
  BY <1>0, CacheAssumption, Zenon DEF IInv, TypeOK
<1>2. Refs'
  <2>1. \A b \in Buf : Users(b)' = Users(b)
    BY Zenon DEF Users
  <2> QED
    BY <2>1, Zenon DEF IInv, Refs
<1>3. Uses'
  BY <1>0, CacheAssumption, Zenon DEF IInv, TypeOK, Uses
<1>4. Locks'
  BY <1>0, CacheAssumption DEF IInv, TypeOK, Uses, Locks
<1>5. Flags'
  BY <1>0, CacheAssumption DEF IInv, TypeOK, Uses, Locks, Flags
<1>6. Clean'
  BY <1>0, CacheAssumption DEF IInv, TypeOK, Uses, Locks, Flags, Clean
<1>7. OneCopy'
  BY <1>0, CacheAssumption, Zenon DEF IInv, TypeOK, OneCopy
<1>8. QueuedOnce'
  BY <1>0, CacheAssumption, Zenon DEF IInv, TypeOK, QueuedOnce
<1>9. DriverInStep'
  BY <1>0, DriverStays, CacheAssumption, Zenon DEF IInv, TypeOK
<1> QED
  BY <1>1, <1>2, <1>3, <1>4, <1>5, <1>6, <1>7, <1>8, <1>9, Zenon DEF IInv

\* log_write() pins the buffer.
LEMMA LogWriteKeeps ==
  ASSUME IInv, NEW p \in Proc, NEW v \in Val, LogWrite(p, v)
  PROVE  IInv'
<1> USE DEF LogWrite, Goto, cacheVars, bufVars, ideVars
<1>0. bp[p] \in Buf
  BY Zenon DEF IInv, TypeOK, Uses
<1>1. TypeOK'
  BY <1>0, CacheAssumption, Zenon DEF IInv, TypeOK
<1>2. Refs'
  <2>1. \A b \in Buf : Users(b)' = Users(b)
    BY Zenon DEF Users
  <2> QED
    BY <2>1, Zenon DEF IInv, Refs
<1>3. Uses'
  BY <1>0, CacheAssumption, Zenon DEF IInv, TypeOK, Uses
<1>4. Locks'
  BY <1>0, CacheAssumption DEF IInv, TypeOK, Uses, Locks
<1>5. Flags'
  BY <1>0, CacheAssumption DEF IInv, TypeOK, Uses, Locks, Flags
<1>6. Clean'
  BY <1>0, CacheAssumption DEF IInv, TypeOK, Uses, Locks, Flags, Clean
<1>7. OneCopy'
  BY <1>0, CacheAssumption, Zenon DEF IInv, TypeOK, OneCopy
<1>8. QueuedOnce'
  BY <1>0, CacheAssumption, Zenon DEF IInv, TypeOK, QueuedOnce
<1>9. DriverInStep'
  BY <1>0, DriverStays, CacheAssumption, Zenon DEF IInv, TypeOK
<1> QED
  BY <1>1, <1>2, <1>3, <1>4, <1>5, <1>6, <1>7, <1>8, <1>9, Zenon DEF IInv

\* iderw() queues the buffer, which is not queued yet.
LEMMA IdeRwKeeps ==
  ASSUME IInv, NEW p \in Proc, IdeRw(p)
  PROVE  IInv'
<1> USE DEF IdeRw, Goto, cacheVars, bufVars, ideVars
<1>0. bp[p] \in Buf
  BY Zenon DEF IInv, TypeOK, Uses
<1>a. \A j \in 1..Len(idequeue) : idequeue[j] # bp[p]
  BY <1>0 DEF IInv, DriverInStep, Locks, TypeOK
<1>b. /\ Len(idequeue') = Len(idequeue) + 1 /\ Len(idequeue) \in Nat
      /\ \A j \in 1..Len(idequeue') :
           idequeue'[j] = IF j = Len(idequeue') THEN bp[p] ELSE idequeue[j]
  BY <1>0 DEF IInv, TypeOK
<1>c. /\ pc[p] = "iderw" /\ pc' = [pc EXCEPT ![p] = "iosleep"]
      /\ UNCHANGED <<list, blockno, refcnt, valid, dirty, data, locked, disk, bp, want>>
  BY Zenon
<1>1. TypeOK'
  BY <1>0, CacheAssumption DEF IInv, TypeOK
<1>d. active' # NoBuf /\ idequeue' # <<>> /\ active' = Head(idequeue')
  <2>1. CASE idequeue = <<>>
    BY <2>1, <1>0, CacheAssumption
  <2>2. CASE idequeue # <<>>
    BY <2>2, <1>0, <1>b DEF IInv, TypeOK, DriverInStep
  <2> QED
    BY <2>1, <2>2, Zenon
<1> HIDE DEF IdeRw
<1>2. Refs'
  <2>1. \A b \in Buf : Users(b)' = Users(b)
    BY <1>c, Zenon DEF Users
  <2> QED
    BY <1>c, <2>1, Zenon DEF IInv, Refs
<1>3. Uses'
  BY <1>0, <1>c, CacheAssumption, Zenon DEF IInv, TypeOK, Uses
<1>4. Locks'
  BY <1>0, <1>c, CacheAssumption DEF IInv, TypeOK, Uses, Locks
<1>5. Flags'
  BY <1>0, <1>c, CacheAssumption DEF IInv, TypeOK, Uses, Locks, Flags
<1>6. Clean'
  BY <1>0, <1>c, CacheAssumption, Zenon DEF IInv, TypeOK, Uses, Locks, Flags, Clean
<1>7. OneCopy'
  BY <1>0, <1>c, CacheAssumption, Zenon DEF IInv, TypeOK, OneCopy
<1>8. QueuedOnce'
  BY <1>0, <1>a, <1>b DEF IInv, QueuedOnce
<1>9. DriverInStep'
  <2>1. ASSUME NEW c \in Buf
        PROVE  (\E j \in 1..Len(idequeue') : idequeue'[j] = c)
                 <=> (c = bp[p] \/ \E j \in 1..Len(idequeue) : idequeue[j] = c)
    <3>1. ASSUME NEW j \in 1..Len(idequeue'), idequeue'[j] = c
          PROVE  c = bp[p] \/ \E i \in 1..Len(idequeue) : idequeue[i] = c
      <4>1. j # Len(idequeue') => j \in 1..Len(idequeue)
        BY <1>b
      <4> QED
        BY <3>1, <4>1, <1>b, Zenon
    <3>2. ASSUME NEW j \in 1..Len(idequeue), idequeue[j] = c
          PROVE  \E i \in 1..Len(idequeue') : idequeue'[i] = c
      <4>1. j \in 1..Len(idequeue') /\ j # Len(idequeue')
        BY <1>b
      <4> QED
        BY <3>2, <4>1, <1>b, Zenon
    <3>3. Len(idequeue') \in 1..Len(idequeue') /\ idequeue'[Len(idequeue')] = bp[p]
      BY <1>b
    <3> QED
      BY <3>1, <3>2, <3>3, Zenon
  <2>2. ASSUME NEW c \in Buf
        PROVE  (\E q \in Proc : pc'[q] = "iosleep" /\ bp'[q] = c)
                 <=> (c = bp[p] \/ \E q \in Proc : pc[q] = "iosleep" /\ bp[q] = c)
    BY <1>c, Zenon DEF IInv, TypeOK
  <2> QED
    BY <1>d, <2>1, <2>2, Zenon DEF IInv, DriverInStep
<1> QED
  BY <1>1, <1>2, <1>3, <1>4, <1>5, <1>6, <1>7, <1>8, <1>9, Zenon DEF IInv

\* ideintr() completes the request at the head of the queue.
LEMMA IdeIntrKeeps ==
  ASSUME IInv, IdeIntr
  PROVE  IInv'
<1> USE DEF IdeIntr, Goto, cacheVars, bufVars, ideVars
<1> DEFINE b == Head(idequeue)
<1>0. /\ b \in Buf /\ active = b /\ Len(idequeue) \in Nat \ {0} /\ b = idequeue[1]
      /\ \E p \in Proc : pc[p] = "iosleep" /\ bp[p] = b
  <2>1. active = b /\ idequeue \in Seq(Buf) /\ idequeue # <<>>
    BY Zenon DEF IInv, TypeOK, DriverInStep
  <2>2. b \in Buf /\ Len(idequeue) \in Nat \ {0} /\ b = idequeue[1]
    BY <2>1, HeadOfQueue, Zenon
  <2>3. \E j \in 1..Len(idequeue) : idequeue[j] = b
    BY <2>2
  <2> QED
    BY <2>1, <2>2, <2>3, Zenon DEF IInv, DriverInStep
<1>a. PICK p \in Proc : pc[p] = "iosleep" /\ bp[p] = b
  BY <1>0, Zenon
<1>b. blockno[b] \in Block /\ \A q \in Proc : pc[q] = "iosleep" /\ bp[q] = b => q = p
  BY <1>0, <1>a, CacheAssumption DEF IInv, Uses, Locks
<1>c. /\ idequeue' \in Seq(Buf) /\ Len(idequeue') = Len(idequeue) - 1
      /\ \A j \in 1..Len(idequeue') : idequeue'[j] = idequeue[j + 1]
      /\ idequeue' # <<>> => Head(idequeue') = idequeue'[1]
  BY <1>0 DEF IInv, TypeOK
<1>d. /\ disk' = IF dirty[b] THEN [disk EXCEPT ![blockno[b]] = data[b]] ELSE disk
      /\ data' = IF dirty[b] \/ blockno[b] \in Bad THEN data
                 ELSE [data EXCEPT ![b] = disk[blockno[b]]]
      /\ valid' = [valid EXCEPT ![b] = TRUE] /\ dirty' = [dirty EXCEPT ![b] = FALSE]
      /\ pc' = [pc EXCEPT ![p] = "locked"]
      /\ active' = IF idequeue' = <<>> THEN NoBuf ELSE Head(idequeue')
      /\ UNCHANGED <<list, blockno, refcnt, locked, bp, want>>
  <2>1. pc' = [pc EXCEPT ![p] = "locked"]
    BY <1>a, <1>b, ZenonT(60) DEF IInv, TypeOK
  <2> QED
    BY <2>1, <1>0, Zenon
<1> HIDE DEF b, IdeIntr
<1>1. TypeOK'
  <2>1. active' \in Buf \cup {NoBuf}
    BY <1>c, <1>d, HeadOfQueue, Zenon
  <2>2. disk' \in [Block -> Val] /\ data' \in [Buf -> Val]
    BY <1>0, <1>b, <1>d, Zenon DEF IInv, TypeOK
  <2>3. valid' \in [Buf -> BOOLEAN] /\ dirty' \in [Buf -> BOOLEAN]
    BY <1>0, <1>d, Zenon DEF IInv, TypeOK
  <2> QED
    BY <2>1, <2>2, <2>3, <1>c, <1>d, Zenon DEF IInv, TypeOK
<1>2. Refs'
  <2>1. \A c \in Buf : Users(c)' = Users(c)
    BY <1>d, Zenon DEF Users
  <2> QED
    BY <1>d, <2>1, Zenon DEF IInv, Refs
<1>3. Uses'
  BY <1>0, <1>a, <1>d, CacheAssumption, ZenonT(60) DEF IInv, TypeOK, Uses
<1>4. Locks'
  BY <1>0, <1>a, <1>d, CacheAssumption DEF IInv, TypeOK, Locks
<1>5. Flags'
  <2>1. ASSUME NEW c \in Buf
        PROVE  (dirty'[c] => valid'[c]) /\ (valid'[c] => blockno'[c] \in Block)
    BY <1>0, <1>b, <1>d DEF IInv, TypeOK, Flags
  <2>2. ASSUME NEW q \in Proc, pc'[q] = "locked"
        PROVE  valid'[bp'[q]]
    <3>1. CASE q = p
      BY <3>1, <1>0, <1>a, <1>d, Zenon DEF IInv, TypeOK
    <3>2. CASE q # p
      <4>1. pc[q] = "locked" /\ valid[bp[q]] /\ bp[q] \in Buf
        <5>1. pc[q] = "locked"
          BY <2>2, <3>2, <1>d, Zenon DEF IInv, TypeOK
        <5>2. valid[bp[q]]
          BY <5>1, Zenon DEF IInv, Flags
        <5>3. bp[q] \in Buf
          BY <5>1, Zenon DEF IInv, TypeOK, Uses
        <5> QED
          BY <5>1, <5>2, <5>3, Zenon
      <4> QED
        BY <4>1, <1>0, <1>d, Zenon DEF IInv, TypeOK
    <3> QED
      BY <3>1, <3>2, Zenon
  <2>3. ASSUME NEW q \in Proc, pc'[q] \in {"iderw", "iosleep"}
        PROVE  ~valid'[bp'[q]] \/ dirty'[bp'[q]]
    <3>1. q # p /\ pc[q] = pc'[q]
      BY <2>3, <1>d, Zenon DEF IInv, TypeOK
    <3>2. bp[q] \in Buf /\ bp[q] # b
      <4>1. bp[q] \in Buf
        BY <2>3, <3>1, Zenon DEF IInv, TypeOK, Uses
      <4>2. locked[bp[q]] = q /\ locked[b] = p
        BY <2>3, <3>1, <4>1, <1>0, <1>a, Zenon DEF IInv, Locks
      <4> QED
        BY <3>1, <4>1, <4>2, Zenon
    <3>3. ~valid[bp[q]] \/ dirty[bp[q]]
      BY <2>3, <3>1, Zenon DEF IInv, Flags
    <3> QED
      BY <3>2, <3>3, <1>0, <1>d, Zenon DEF IInv, TypeOK
  <2> QED
    BY <2>1, <2>2, <2>3, Zenon DEF Flags
<1>6. Clean'
  <2> SUFFICES ASSUME Bad = {}, NEW c \in Buf, valid'[c], ~dirty'[c]
               PROVE  data'[c] = disk'[blockno'[c]]
    BY Zenon DEF Clean
  <2>1. CASE c = b
    BY <2>1, <1>0, <1>b, <1>d, Zenon DEF IInv, TypeOK
  <2>2. CASE c # b
    <3>1. valid[c] /\ ~dirty[c] /\ data'[c] = data[c] /\ data[c] = disk[blockno[c]]
      BY <2>2, <1>0, <1>d, Zenon DEF IInv, TypeOK, Clean
    <3>2. blockno[c] # blockno[b] /\ blockno[c] \in Block
      BY <2>2, <3>1, <1>0, <1>b, CacheAssumption, ZenonT(60) DEF IInv, OneCopy, Flags
    <3> QED
      BY <3>1, <3>2, <1>b, <1>d, Zenon DEF IInv, TypeOK
  <2> QED
    BY <2>1, <2>2, Zenon
<1>7. OneCopy'
  BY <1>d, Zenon DEF IInv, OneCopy
<1>8. QueuedOnce'
  BY <1>0, <1>c DEF IInv, QueuedOnce
<1>9. DriverInStep'
  <2>1. /\ idequeue' = <<>> <=> active' = NoBuf
        /\ idequeue' # <<>> => active' = Head(idequeue')
    <3>1. idequeue' # <<>> => Head(idequeue') \in Buf
      BY <1>c, HeadOfQueue, Zenon
    <3> QED
      BY <3>1, <1>d, CacheAssumption, Zenon
  <2>2. ASSUME NEW c \in Buf
        PROVE  (\E j \in 1..Len(idequeue') : idequeue'[j] = c)
                 <=> (c # b /\ \E j \in 1..Len(idequeue) : idequeue[j] = c)
    <3>1. ASSUME NEW j \in 1..Len(idequeue'), idequeue'[j] = c
          PROVE  c # b /\ \E i \in 1..Len(idequeue) : idequeue[i] = c
      <4>1. j + 1 \in 1..Len(idequeue) /\ idequeue[j + 1] = c /\ j + 1 # 1 /\ 1 \in 1..Len(idequeue)
        BY <3>1, <1>0, <1>c
      <4> QED
        BY <4>1, <1>0, Zenon DEF IInv, QueuedOnce
    <3>2. ASSUME c # b, NEW j \in 1..Len(idequeue), idequeue[j] = c
          PROVE  \E i \in 1..Len(idequeue') : idequeue'[i] = c
      <4>1. j - 1 \in 1..Len(idequeue') /\ idequeue'[j - 1] = c
        BY <3>2, <1>0, <1>c
      <4> QED
        BY <4>1, Zenon
    <3> QED
      BY <3>1, <3>2, Zenon
  <2>3. ASSUME NEW c \in Buf
        PROVE  (\E q \in Proc : pc'[q] = "iosleep" /\ bp'[q] = c)
                 <=> (c # b /\ \E q \in Proc : pc[q] = "iosleep" /\ bp[q] = c)
    BY <1>a, <1>b, <1>d, Zenon DEF IInv, TypeOK
  <2> QED
    BY <2>1, <2>2, <2>3, Zenon DEF IInv, DriverInStep
<1> QED
  BY <1>1, <1>2, <1>3, <1>4, <1>5, <1>6, <1>7, <1>8, <1>9, Zenon DEF IInv

-----------------------------------------------------------------------------
\* The invariant holds after binit().
LEMMA InitHolds ==
  ASSUME Init
  PROVE  IInv
<1> USE DEF Init
<1>1. TypeOK
  BY CacheAssumption DEF TypeOK
<1>2. \A b \in Buf : Users(b) = {}
  BY CacheAssumption, Zenon DEF Users
<1>3. Refs
  BY <1>2, FS_EmptySet, Zenon DEF Refs
<1>4. Uses /\ Locks /\ Flags /\ Clean /\ OneCopy
  BY CacheAssumption, Zenon DEF Uses, Locks, Flags, Clean, OneCopy
<1>5. QueuedOnce /\ DriverInStep
  <2>1. Len(idequeue) = 0
    BY Zenon
  <2> QED
    BY <2>1 DEF QueuedOnce, DriverInStep
<1> QED
  BY <1>1, <1>3, <1>4, <1>5, Zenon DEF IInv

\* Every step keeps the invariant.
LEMMA NextKeeps ==
  ASSUME IInv, [Next]_vars
  PROVE  IInv'
<1>1. CASE IdeIntr
  BY <1>1, IdeIntrKeeps, Zenon
<1>2. ASSUME NEW p \in Proc, Kernel(p) \/ ReleaseSleep(p)
      PROVE  IInv'
  BY <1>2, AcquireSleepKeeps, AcquireWaitKeeps, IdeRwKeeps, BrelseKeeps, ReleaseSleepKeeps, Zenon
     DEF Kernel
<1>3. ASSUME NEW p \in Proc, NEW k \in Block, BgetHit(p, k) \/ BgetMiss(p, k) \/ BgetPanic(p, k)
      PROVE  IInv'
  BY <1>3, BgetHitKeeps, BgetMissKeeps, BgetPanicKeeps, Zenon
<1>4. ASSUME NEW p \in Proc, NEW v \in Val, Bwrite(p, v) \/ LogWrite(p, v)
      PROVE  IInv'
  BY <1>4, BwriteKeeps, LogWriteKeeps, Zenon
<1>5. CASE UNCHANGED vars
  <2> USE <1>5 DEF vars
  <2>1. TypeOK' /\ Uses' /\ Locks' /\ Flags'
    BY DEF IInv, TypeOK, Uses, Locks, Flags
  <2>2. Clean' /\ OneCopy' /\ QueuedOnce'
    BY ZenonT(60) DEF IInv, Clean, OneCopy, QueuedOnce
  <2>3. DriverInStep'
    BY DriverStays, Zenon DEF IInv
  <2>4. \A b \in Buf : Users(b)' = Users(b)
    BY Zenon DEF Users
  <2>5. Refs'
    BY <2>4, Zenon DEF IInv, Refs
  <2> QED
    BY <2>1, <2>2, <2>3, <2>5, Zenon DEF IInv
<1> QED
  BY <1>1, <1>2, <1>3, <1>4, <1>5, Zenon DEF Next

\* The invariant always holds.
THEOREM Invariance == Spec => []IInv
<1>1. Init => IInv
  BY InitHolds, Zenon
<1>2. IInv /\ [Next]_vars => IInv'
  BY NextKeeps, Zenon
<1> QED
  BY <1>1, <1>2, PTL DEF Spec

-----------------------------------------------------------------------------
\* Type correctness of the buffer cache and the driver.
THEOREM TypeCorrect == Spec => []TypeOK
<1>1. IInv => TypeOK
  BY Zenon DEF IInv
<1> QED
  BY <1>1, Invariance, PTL

\* bget() never puts a block into two buffers.
THEOREM BlocksHaveOneCopy == Spec => []OneCopy
<1>1. IInv => OneCopy
  BY Zenon DEF IInv
<1> QED
  BY <1>1, Invariance, PTL

\* On a disk without read errors, bread() returns the block it was asked for,
\* locked, valid and current.
THEOREM BreadIsRight ==
  ASSUME Bad = {}
  PROVE  Spec => []HoldsItsBlock
<1>1. IInv => HoldsItsBlock
  <2> SUFFICES ASSUME IInv, NEW p \in Proc, pc[p] = "locked"
               PROVE  /\ blockno[bp[p]] = want[p] /\ locked[bp[p]] = p /\ valid[bp[p]]
                      /\ ~dirty[bp[p]] => data[bp[p]] = disk[want[p]]
    BY Zenon DEF HoldsItsBlock
  <2>1. bp[p] \in Buf /\ blockno[bp[p]] = want[p]
    BY Zenon DEF IInv, TypeOK, Uses
  <2> QED
    BY <2>1 DEF IInv, Locks, Flags, Clean
<1> QED
  BY <1>1, Invariance, PTL

\* The queue of ide.c and the disk stay in step.
THEOREM DriverStaysInStep == Spec => []DriverInStep
<1>1. IInv => DriverInStep
  BY Zenon DEF IInv
<1> QED
  BY <1>1, Invariance, PTL

-----------------------------------------------------------------------------
(* The refinement of BlockStore *)

\* An owner of block k holds the lock of the buffer of k.
LEMMA OwnerHolds ==
  ASSUME IInv, NEW k \in Block, NEW p \in Proc, Owns(p, k)
  PROVE  bp[p] \in Buf /\ blockno[bp[p]] = k /\ locked[bp[p]] = p
<1>1. pc[p] \in {"locked", "iderw", "iosleep"} /\ want[p] = k
  BY Zenon DEF Owns
<1>2. bp[p] \in Buf /\ blockno[bp[p]] = k
  BY <1>1, Zenon DEF IInv, TypeOK, Uses
<1> QED
  BY <1>1, <1>2, Zenon DEF IInv, Locks

\* A block has at most one owner.
LEMMA OwnerIsUnique ==
  ASSUME IInv, NEW k \in Block, NEW p \in Proc, NEW q \in Proc, Owns(p, k), Owns(q, k)
  PROVE  p = q
<1>1. /\ bp[p] \in Buf /\ blockno[bp[p]] = k /\ locked[bp[p]] = p
      /\ bp[q] \in Buf /\ blockno[bp[q]] = k /\ locked[bp[q]] = q
  BY OwnerHolds, Zenon
<1>2. bp[p] = bp[q]
  BY <1>1, CacheAssumption, Zenon DEF IInv, OneCopy
<1> QED
  BY <1>1, <1>2, Zenon

\* The value of Owner.
LEMMA OwnerValue ==
  ASSUME IInv, NEW k \in Block
  PROVE  /\ \A p \in Proc : Owns(p, k) => Owner(k) = p
         /\ (\A p \in Proc : ~Owns(p, k)) => Owner(k) = Nobody
<1>1. ASSUME NEW p \in Proc, Owns(p, k)
      PROVE  Owner(k) = p
  <2>1. Owner(k) \in Proc /\ Owns(Owner(k), k)
    BY <1>1, Zenon DEF Owner
  <2> QED
    BY <1>1, <2>1, OwnerIsUnique, Zenon
<1>2. ASSUME \A p \in Proc : ~Owns(p, k)
      PROVE  Owner(k) = Nobody
  BY <1>2, Zenon DEF Owner
<1> QED
  BY <1>1, <1>2, Zenon

\* The value of Contents.
LEMMA ContentsValue ==
  ASSUME IInv, NEW k \in Block
  PROVE  /\ \A b \in Buf : blockno[b] = k /\ valid[b] => Contents(k) = data[b]
         /\ (\A b \in Buf : blockno[b] = k => ~valid[b]) => Contents(k) = disk[k]
<1>1. ASSUME NEW b \in Buf, blockno[b] = k, valid[b]
      PROVE  Contents(k) = data[b]
  <2> DEFINE c == CHOOSE c \in Buf : blockno[c] = k /\ valid[c]
  <2>1. c \in Buf /\ blockno[c] = k /\ Contents(k) = data[c]
    BY <1>1, Zenon DEF Contents
  <2>2. c = b
    BY <1>1, <2>1, CacheAssumption, Zenon DEF IInv, OneCopy
  <2> QED
    BY <2>1, <2>2, Zenon
<1> QED
  BY <1>1, Zenon DEF Contents

\* A step that changes neither contents nor owners is a stutter.
LEMMA Stutters ==
  ASSUME \A k \in Block : Contents(k)' = Contents(k),
         \A k \in Block : Owner(k)' = Owner(k)
  PROVE  UNCHANGED Store!vars
BY Zenon DEF Store!vars

\* What OwnerValue and ContentsValue say, as one state predicate.
Values ==
  \A k \in Block :
    /\ \A p \in Proc : Owns(p, k) => Owner(k) = p
    /\ (\A p \in Proc : ~Owns(p, k)) => Owner(k) = Nobody
    /\ \A b \in Buf : blockno[b] = k /\ valid[b] => Contents(k) = data[b]
    /\ (\A b \in Buf : blockno[b] = k => ~valid[b]) => Contents(k) = disk[k]

\* The invariant determines owners and contents, before and after a step.
LEMMA ValuesHold == IInv => Values
BY OwnerValue, ContentsValue, Zenon DEF Values

LEMMA ValuesHoldNext == IInv' => Values'
BY ValuesHold, PTL

\* A step after which every block has the same owner and the same contents.
LEMMA StillMaps ==
  ASSUME IInv, IInv',
         \A k \in Block : Contents(k)' = Contents(k),
         \A q \in Proc, k \in Block : Owns(q, k)' <=> Owns(q, k)
  PROVE  UNCHANGED Store!vars
<1>1. Values /\ Values'
  BY ValuesHold, ValuesHoldNext, Zenon
<1>2. ASSUME NEW k \in Block
      PROVE  Owner(k)' = Owner(k)
  <2>1. CASE \E p \in Proc : Owns(p, k)
    BY <1>1, <2>1, Zenon DEF Values
  <2>2. CASE \A p \in Proc : ~Owns(p, k)
    BY <1>1, <2>2, Zenon DEF Values
  <2> QED
    BY <2>1, <2>2, Zenon
<1> QED
  BY <1>2, Stutters, Zenon

\* A step by which p comes to own block k.
LEMMA GetMaps ==
  ASSUME IInv, IInv', NEW p \in Proc, NEW k \in Block,
         \A j \in Block : Contents(j)' = Contents(j),
         \A q \in Proc : ~Owns(q, k),
         \A q \in Proc, j \in Block : Owns(q, j)' <=> (Owns(q, j) \/ (q = p /\ j = k))
  PROVE  Store!Next
<1>1. Values /\ Values'
  BY ValuesHold, ValuesHoldNext, Zenon
<1>2. Owner(k) = Nobody /\ Owner(k)' = p
  BY <1>1, Zenon DEF Values
<1>3. ASSUME NEW j \in Block, j # k
      PROVE  Owner(j)' = Owner(j)
  <2>1. CASE \E q \in Proc : Owns(q, j)
    BY <1>1, <1>3, <2>1, Zenon DEF Values
  <2>2. CASE \A q \in Proc : ~Owns(q, j)
    BY <1>1, <1>3, <2>2, Zenon DEF Values
  <2> QED
    BY <2>1, <2>2, Zenon
<1>4. Store!Get(p, k)
  BY <1>2, <1>3, Zenon DEF Store!Get
<1> QED
  BY <1>4, Zenon DEF Store!Next

\* A step by which p gives up block k.
LEMMA PutMaps ==
  ASSUME IInv, IInv', NEW p \in Proc, NEW k \in Block, Owns(p, k),
         \A j \in Block : Contents(j)' = Contents(j),
         \A q \in Proc, j \in Block : Owns(q, j)' <=> (Owns(q, j) /\ ~(q = p /\ j = k))
  PROVE  Store!Next
<1>1. Values /\ Values'
  BY ValuesHold, ValuesHoldNext, Zenon
<1>2. \A q \in Proc : ~(Owns(q, k)')
  BY OwnerIsUnique, Zenon
<1>3. Owner(k) = p /\ Owner(k)' = Nobody
  BY <1>1, <1>2, Zenon DEF Values
<1>4. ASSUME NEW j \in Block, j # k
      PROVE  Owner(j)' = Owner(j)
  <2>1. CASE \E q \in Proc : Owns(q, j)
    BY <1>1, <1>4, <2>1, Zenon DEF Values
  <2>2. CASE \A q \in Proc : ~Owns(q, j)
    BY <1>1, <1>4, <2>2, Zenon DEF Values
  <2> QED
    BY <2>1, <2>2, Zenon
<1>5. Store!Put(p, k)
  BY <1>3, <1>4, Zenon DEF Store!Put
<1> QED
  BY <1>5, Zenon DEF Store!Next

\* A step by which the owner p of block k changes its contents.
LEMMA WriteMaps ==
  ASSUME IInv, IInv', NEW p \in Proc, NEW k \in Block, NEW v \in Val, Owns(p, k),
         Contents(k)' = v,
         \A j \in Block \ {k} : Contents(j)' = Contents(j),
         \A q \in Proc, j \in Block : Owns(q, j)' <=> Owns(q, j)
  PROVE  Store!Next
<1>1. Values /\ Values'
  BY ValuesHold, ValuesHoldNext, Zenon
<1>2. Owner(k) = p
  BY <1>1, Zenon DEF Values
<1>3. ASSUME NEW j \in Block
      PROVE  Owner(j)' = Owner(j)
  <2>1. CASE \E q \in Proc : Owns(q, j)
    BY <1>1, <2>1, Zenon DEF Values
  <2>2. CASE \A q \in Proc : ~Owns(q, j)
    BY <1>1, <2>2, Zenon DEF Values
  <2> QED
    BY <2>1, <2>2, Zenon
<1>4. Store!Write(p, k)
  BY <1>2, <1>3, Zenon DEF Store!Write
<1> QED
  BY <1>4, Zenon DEF Store!Next

-----------------------------------------------------------------------------
\* Steps that neither touch a buffer nor pass through the ownership of one.
LEMMA QuietSteps ==
  ASSUME IInv, IInv', NEW p \in Proc, NEW k \in Block,
         BgetHit(p, k) \/ BgetPanic(p, k) \/ AcquireWait(p) \/ Brelse(p) \/ IdeRw(p)
  PROVE  UNCHANGED Store!vars
<1> USE DEF Goto, bufVars, cacheVars, ideVars
<1>1. UNCHANGED <<blockno, valid, data, disk>>
  BY Zenon DEF BgetHit, BgetPanic, AcquireWait, Brelse, IdeRw
<1>2. \A j \in Block : Contents(j)' = Contents(j)
  BY <1>1, Zenon DEF Contents
<1>3. \A q \in Proc, j \in Block : Owns(q, j)' <=> Owns(q, j)
  <2>1. CASE BgetHit(p, k)
    BY <2>1 DEF BgetHit, Owns, IInv, TypeOK
  <2>2. CASE BgetPanic(p, k) \/ AcquireWait(p)
    BY <2>2 DEF BgetPanic, AcquireWait, Owns, IInv, TypeOK
  <2>3. CASE Brelse(p)
    BY <2>3, Zenon DEF Brelse, Owns, IInv, TypeOK
  <2>4. CASE IdeRw(p)
    BY <2>4, Zenon DEF IdeRw, Owns, IInv, TypeOK
  <2> QED
    BY <2>1, <2>2, <2>3, <2>4, Zenon
<1> QED
  BY <1>2, <1>3, StillMaps, Zenon

\* Recycling a clean buffer loses nothing.
LEMMA BgetMissMaps ==
  ASSUME IInv, IInv', Bad = {}, NEW p \in Proc, NEW k \in Block, BgetMiss(p, k)
  PROVE  UNCHANGED Store!vars
<1>1. PICK b \in Buf :
        /\ refcnt[b] = 0 /\ ~dirty[b]
        /\ blockno' = [blockno EXCEPT ![b] = k]
        /\ valid' = [valid EXCEPT ![b] = FALSE]
        /\ bp' = [bp EXCEPT ![p] = b]
  <2>1. PICK j \in DOMAIN list :
          /\ Unused(list[j])
          /\ blockno' = [blockno EXCEPT ![list[j]] = k]
          /\ valid' = [valid EXCEPT ![list[j]] = FALSE]
          /\ bp' = [bp EXCEPT ![p] = list[j]]
    BY Zenon DEF BgetMiss
  <2>2. list[j] \in Buf
    BY Zenon DEF IInv, TypeOK, Order
  <2>3. refcnt[list[j]] = 0 /\ ~dirty[list[j]]
    BY <2>1, Zenon DEF Unused
  <2> QED
    BY <2>1, <2>2, <2>3, Zenon
<1>2. /\ \A c \in Buf : blockno[c] # k
      /\ pc[p] = "idle" /\ pc' = [pc EXCEPT ![p] = "acquiresleep"]
      /\ want' = [want EXCEPT ![p] = k] /\ UNCHANGED <<data, disk>>
  BY Zenon DEF BgetMiss, Goto, ideVars
<1>3. \A q \in Proc : bp[q] # b
  <2>1. Users(b) = {}
    BY <1>1, UsersFinite, FS_EmptySet, Zenon DEF IInv, Refs
  <2> QED
    BY <2>1, Zenon DEF Users
<1>4. ASSUME NEW j \in Block
      PROVE  Contents(j)' = Contents(j)
  <2>1. Values /\ Values'
    BY ValuesHold, ValuesHoldNext, Zenon
  <2>2. CASE j = k
    BY <2>1, <2>2, <1>1, <1>2 DEF Values, IInv, TypeOK, OneCopy
  <2>3. CASE j # k /\ blockno[b] = j
    <3>1. \A c \in Buf : blockno'[c] = j => ~valid'[c]
      BY <2>3, <1>1, CacheAssumption, Zenon DEF IInv, TypeOK, OneCopy
    <3>2. Contents(j)' = disk[j]
      BY <3>1, <2>1, <1>2, Zenon DEF Values
    <3>3. CASE valid[b]
      BY <3>2, <3>3, <2>1, <2>3, <1>1, Zenon DEF Values, IInv, Clean
    <3>4. CASE ~valid[b]
      BY <3>2, <3>4, <2>1, <2>3, <1>1, CacheAssumption DEF Values, IInv, OneCopy
    <3> QED
      BY <3>3, <3>4, Zenon
  <2>4. CASE j # k /\ blockno[b] # j
    <3>1. \A c \in Buf : (blockno'[c] = j /\ valid'[c]) <=> (blockno[c] = j /\ valid[c])
      BY <2>4, <1>1, Zenon DEF IInv, TypeOK
    <3>2. CASE \E c \in Buf : blockno[c] = j /\ valid[c]
      BY <3>1, <3>2, <2>1, <1>2 DEF Values
    <3>3. CASE \A c \in Buf : blockno[c] = j => ~valid[c]
      BY <3>1, <3>3, <2>1, <1>2 DEF Values
    <3> QED
      BY <3>2, <3>3, Zenon
  <2> QED
    BY <2>2, <2>3, <2>4, Zenon
<1>5. \A q \in Proc, j \in Block : Owns(q, j)' <=> Owns(q, j)
  BY <1>1, <1>2, <1>3 DEF Owns, IInv, TypeOK, Uses
<1> QED
  BY <1>4, <1>5, StillMaps, Zenon

\* acquiresleep() of a valid buffer makes p the owner of its block.
LEMMA AcquireSleepMaps ==
  ASSUME IInv, IInv', NEW p \in Proc, AcquireSleep(p)
  PROVE  Store!Next \/ UNCHANGED Store!vars
<1> USE DEF AcquireSleep, Goto, bufVars, cacheVars, ideVars
<1>1. \A j \in Block : Contents(j)' = Contents(j)
  BY Zenon DEF Contents
<1>2. bp[p] \in Buf /\ want[p] \in Block /\ blockno[bp[p]] = want[p]
  BY Zenon DEF IInv, TypeOK, Uses
<1>3. CASE valid[bp[p]]
  <2>1. ASSUME NEW q \in Proc, Owns(q, want[p])
        PROVE  FALSE
    <3>1. bp[q] \in Buf /\ blockno[bp[q]] = want[p] /\ locked[bp[q]] = q
      BY <1>2, <2>1, OwnerHolds, Zenon
    <3>2. bp[q] = bp[p]
      BY <3>1, <1>2, CacheAssumption, Zenon DEF IInv, OneCopy
    <3> QED
      BY <3>1, <3>2, CacheAssumption, Zenon
  <2>2. \A q \in Proc, j \in Block :
          Owns(q, j)' <=> (Owns(q, j) \/ (q = p /\ j = want[p]))
    BY <1>3, Zenon DEF Owns, IInv, TypeOK
  <2> QED
    BY <1>1, <1>2, <2>1, <2>2, GetMaps, Zenon
<1>4. CASE ~valid[bp[p]]
  <2>1. \A q \in Proc, j \in Block : Owns(q, j)' <=> Owns(q, j)
    BY <1>4 DEF Owns, IInv, TypeOK
  <2> QED
    BY <1>1, <2>1, StillMaps, Zenon
<1> QED
  BY <1>3, <1>4, Zenon

\* releasesleep() ends the ownership.
LEMMA ReleaseSleepMaps ==
  ASSUME IInv, IInv', NEW p \in Proc, ReleaseSleep(p)
  PROVE  Store!Next
<1> USE DEF ReleaseSleep, bufVars, cacheVars, ideVars
<1>1. \A j \in Block : Contents(j)' = Contents(j)
  BY Zenon DEF Contents
<1>2. want[p] \in Block /\ Owns(p, want[p])
  BY Zenon DEF IInv, Uses, Owns
<1>3. \A q \in Proc, j \in Block : Owns(q, j)' <=> (Owns(q, j) /\ ~(q = p /\ j = want[p]))
  BY Zenon DEF Owns, IInv, TypeOK
<1> QED
  BY <1>1, <1>2, <1>3, PutMaps, Zenon

\* bwrite() and log_write() are writes of the owner.
LEMMA WriteStepMaps ==
  ASSUME IInv, IInv', NEW p \in Proc, NEW v \in Val, Bwrite(p, v) \/ LogWrite(p, v)
  PROVE  Store!Next
<1> DEFINE b == bp[p]
<1>1. PICK k \in Block : b \in Buf /\ blockno[b] = k /\ valid[b] /\ Owns(p, k)
  BY Zenon DEF Bwrite, LogWrite, IInv, TypeOK, Uses, Flags, Owns
<1>2. /\ data' = [data EXCEPT ![b] = v] /\ UNCHANGED <<blockno, valid, disk, bp, want>>
      /\ pc[p] = "locked" /\ pc' \in {pc, [pc EXCEPT ![p] = "iderw"]}
  BY Zenon DEF Bwrite, LogWrite, Goto, cacheVars, ideVars
<1>3. Values /\ Values'
  BY ValuesHold, ValuesHoldNext, Zenon
<1>4. Contents(k)' = v
  BY <1>1, <1>2, <1>3, Zenon DEF Values, IInv, TypeOK
<1>5. ASSUME NEW j \in Block \ {k}
      PROVE  Contents(j)' = Contents(j)
  <2>1. CASE \E c \in Buf : blockno[c] = j /\ valid[c]
    BY <2>1, <1>1, <1>2, <1>3 DEF Values, IInv, TypeOK
  <2>2. CASE \A c \in Buf : blockno[c] = j => ~valid[c]
    BY <2>2, <1>1, <1>2, <1>3, Zenon DEF Values
  <2> QED
    BY <2>1, <2>2, Zenon
<1>6. \A q \in Proc, j \in Block : Owns(q, j)' <=> Owns(q, j)
  BY <1>1, <1>2 DEF Owns, IInv, TypeOK
<1> QED
  BY <1>1, <1>4, <1>5, <1>6, WriteMaps, Zenon

\* A completed read makes its process the owner; a completed write is invisible.
LEMMA IdeIntrMaps ==
  ASSUME IInv, IInv', Bad = {}, IdeIntr
  PROVE  Store!Next \/ UNCHANGED Store!vars
<1> DEFINE b == Head(idequeue)
<1>1. active = b /\ b \in Buf /\ idequeue # <<>>
  BY ZenonT(60) DEF IdeIntr, IInv, TypeOK, DriverInStep
<1>2. PICK p \in Proc : pc[p] = "iosleep" /\ bp[p] = b
  <2>1. 1 \in 1..Len(idequeue) /\ idequeue[1] = b
    BY <1>1 DEF IInv, TypeOK
  <2> QED
    BY <1>1, <2>1, Zenon DEF IInv, DriverInStep
<1>3. \A q \in Proc : pc[q] = "iosleep" /\ bp[q] = b => q = p
  <2>1. \A q \in Proc : pc[q] = "iosleep" /\ bp[q] = b => locked[b] = q
    BY <1>1, Zenon DEF IInv, Locks
  <2> QED
    BY <1>2, <2>1, Zenon
<1> DEFINE k == want[p]
<1>4. k \in Block /\ blockno[b] = k
  BY <1>1, <1>2, CacheAssumption, Zenon DEF IInv, Uses
<1>5. /\ disk' = IF dirty[b] THEN [disk EXCEPT ![k] = data[b]] ELSE disk
      /\ data' = IF dirty[b] THEN data ELSE [data EXCEPT ![b] = disk[k]]
      /\ valid' = [valid EXCEPT ![b] = TRUE] /\ UNCHANGED <<blockno, bp, want>>
  BY <1>1, <1>4, Zenon DEF IdeIntr, cacheVars
<1>6. pc' = [pc EXCEPT ![p] = "locked"]
  BY <1>1, <1>2, <1>3, ZenonT(60) DEF IdeIntr, IInv, TypeOK
<1>7. Values /\ Values'
  BY ValuesHold, ValuesHoldNext, Zenon
<1> HIDE DEF b, k
<1>8. \A c \in Buf : c # b => blockno[c] # k
  BY <1>1, <1>4, CacheAssumption, Zenon DEF IInv, OneCopy
<1>9. ASSUME NEW j \in Block
      PROVE  Contents(j)' = Contents(j)
  <2>1. CASE j = k /\ dirty[b]
    <3>1. valid[b] /\ valid'[b] /\ data'[b] = data[b]
      BY <2>1, <1>1, <1>5, Zenon DEF IInv, TypeOK, Flags
    <3>2. Contents(j)' = data'[b] /\ Contents(j) = data[b]
      BY <2>1, <3>1, <1>1, <1>4, <1>5, <1>7, Zenon DEF Values
    <3> QED
      BY <3>1, <3>2, Zenon
  <2>2. CASE j = k /\ ~dirty[b]
    <3>1. ~valid[b] /\ valid'[b] /\ data'[b] = disk[k]
      BY <2>2, <1>1, <1>2, <1>5, Zenon DEF IInv, TypeOK, Flags
    <3>2. Contents(j)' = disk[k]
      BY <2>2, <3>1, <1>1, <1>4, <1>5, <1>7, Zenon DEF Values
    <3>3. Contents(j) = disk[k]
      BY <2>2, <3>1, <1>4, <1>7, <1>8, Zenon DEF Values
    <3> QED
      BY <3>2, <3>3, Zenon
  <2>3. CASE j # k
    <3>1. \A c \in Buf : blockno[c] = j => (valid'[c] <=> valid[c]) /\ data'[c] = data[c]
      BY <2>3, <1>1, <1>4, <1>5, Zenon DEF IInv, TypeOK
    <3>2. disk'[j] = disk[j]
      BY <2>3, <1>4, <1>5, Zenon DEF IInv, TypeOK
    <3>3. CASE \E c \in Buf : blockno[c] = j /\ valid[c]
      BY <3>1, <3>3, <1>5, <1>7 DEF Values
    <3>4. CASE \A c \in Buf : blockno[c] = j => ~valid[c]
      BY <3>1, <3>2, <3>4, <1>5, <1>7 DEF Values
    <3> QED
      BY <3>3, <3>4, Zenon
  <2> QED
    BY <2>1, <2>2, <2>3, Zenon
<1>10. ASSUME NEW q \in Proc, q # p, pc[q] \in {"iderw", "iosleep"}
       PROVE  bp[q] # b /\ bp[q] \in Buf
  <2>1. bp[q] \in Buf
    BY <1>10, ZenonT(60) DEF IInv, TypeOK, Uses
  <2>2. locked[bp[q]] = q /\ locked[b] = p
    BY <1>10, <2>1, <1>1, <1>2, Zenon DEF IInv, Locks
  <2> QED
    BY <1>10, <2>1, <2>2, Zenon
<1>11. ASSUME NEW q \in Proc, NEW j \in Block
       PROVE  Owns(q, j)' <=> (Owns(q, j) \/ (q = p /\ j = k))
  <2>1. CASE q = p
    BY <2>1, <1>1, <1>2, <1>5, <1>6, Zenon DEF Owns, IInv, TypeOK, k
  <2>2. CASE q # p
    BY <2>2, <1>1, <1>5, <1>6, <1>10, Zenon DEF Owns, IInv, TypeOK
  <2> QED
    BY <2>1, <2>2, Zenon
<1>12. CASE Owns(p, k)
  <2>1. \A q \in Proc, j \in Block : Owns(q, j)' <=> Owns(q, j)
    BY <1>11, <1>12, Zenon
  <2> QED
    BY <1>9, <2>1, StillMaps, Zenon
<1>13. CASE ~Owns(p, k)
  <2>1. ASSUME NEW q \in Proc, Owns(q, k)
        PROVE  FALSE
    <3>1. bp[q] \in Buf /\ blockno[bp[q]] = k /\ locked[bp[q]] = q
      BY <2>1, <1>4, OwnerHolds, Zenon
    <3>2. bp[q] = b
      BY <3>1, <1>8, Zenon
    <3>3. q = p
      BY <3>1, <3>2, <1>1, <1>2 DEF IInv, Locks
    <3> QED
      BY <3>3, <2>1, <1>13, Zenon
  <2> QED
    BY <1>4, <1>9, <1>11, <2>1, GetMaps
<1> QED
  BY <1>12, <1>13, Zenon

\* On a disk without read errors, buffers, recycling, pinning and the disk queue
\* do not show: the cache implements one exclusive value per block.
THEOREM Refinement ==
  ASSUME Bad = {}
  PROVE  Spec => ImplementsBlockStore
<1>1. Init => Store!Init
  <2> SUFFICES ASSUME Init
               PROVE  Store!Init
    BY Zenon
  <2>1. Values
    BY InitHolds, ValuesHold, Zenon
  <2>2. \A k \in Block : Contents(k) = Zero /\ Owner(k) = Nobody
    BY <2>1, Zenon DEF Init, Values, Owns
  <2> QED
    BY <2>2, Zenon DEF Store!Init
<1>2. IInv /\ IInv' /\ [Next]_vars => [Store!Next]_(Store!vars)
  <2> SUFFICES ASSUME IInv, IInv', [Next]_vars
               PROVE  Store!Next \/ UNCHANGED Store!vars
    BY Zenon
  <2>1. CASE IdeIntr
    BY <2>1, IdeIntrMaps, Zenon
  <2>2. ASSUME NEW p \in Proc, AcquireSleep(p) \/ ReleaseSleep(p)
        PROVE  Store!Next \/ UNCHANGED Store!vars
    BY <2>2, AcquireSleepMaps, ReleaseSleepMaps, Zenon
  <2>3. ASSUME NEW p \in Proc, AcquireWait(p) \/ IdeRw(p) \/ Brelse(p)
        PROVE  UNCHANGED Store!vars
    <3>1. want[p] \in Block
      BY <2>3, Zenon DEF AcquireWait, IdeRw, Brelse, IInv, Uses
    <3> QED
      BY <2>3, <3>1, QuietSteps, Zenon
  <2>4. ASSUME NEW p \in Proc, NEW k \in Block, BgetHit(p, k) \/ BgetMiss(p, k) \/ BgetPanic(p, k)
        PROVE  UNCHANGED Store!vars
    BY <2>4, QuietSteps, BgetMissMaps, Zenon
  <2>5. ASSUME NEW p \in Proc, NEW v \in Val, Bwrite(p, v) \/ LogWrite(p, v)
        PROVE  Store!Next
    BY <2>5, WriteStepMaps, Zenon
  <2>6. CASE UNCHANGED vars
    <3>1. /\ \A k \in Block : Contents(k)' = Contents(k)
          /\ \A q \in Proc, k \in Block : Owns(q, k)' <=> Owns(q, k)
      BY <2>6, Zenon DEF vars, Contents, Owns
    <3> QED
      BY <3>1, StillMaps, Zenon
  <2> QED
    BY <2>1, <2>2, <2>3, <2>4, <2>5, <2>6, Zenon DEF Next, Kernel
<1> QED
  BY <1>1, <1>2, Invariance, PTL DEF Spec, ImplementsBlockStore, Store!Spec
=============================================================================
