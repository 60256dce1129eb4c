------------------------------- MODULE Blocks --------------------------------
(***************************************************************************)
(* File contents in blocks: the bitmap (balloc(), bfree()), the addresses  *)
(* of an inode and its indirect block (bmap(), itrunc()), readi(),         *)
(* writei() and filewrite(), on an image made by mkfs.c.                   *)
(*                                                                         *)
(* A step is one iteration of the loop of writei(): it uses the bitmap     *)
(* under the lock of a bitmap block, and otherwise blocks of an inode that *)
(* is locked.  A block is a function; its entries are bytes or addresses.  *)
(* The byte written at offset k of file f by process p is a number that    *)
(* tells k, f and p.  logged holds the blocks a transaction has written.   *)
(***************************************************************************)
EXTENDS Integers, Sequences, FiniteSets

CONSTANTS
  Writer, Handle,   \* processes; open files, which processes may share
  FileOf,           \* the file of a handle
  Lens, CALLS,      \* lengths of writes; number of calls
  FSSIZE, NMETA,    \* blocks of the disk; of them before the data
  BPB, BSIZE, NDIRECT, NINDIRECT, MAXOPBLOCKS,
  Image             \* lengths of the files of the image; the others are empty

VARIABLES
  bitmap,           \* blocks marked in use
  blk,              \* contents of the data blocks
  ino, dino,        \* inodes in memory and on disk
  lock,             \* holders of the inode locks
  off,              \* offsets of the handles
  w,                \* the call of each writer
  logged, calls, panicked

vars == <<bitmap, blk, ino, dino, lock, off, w, logged, calls, panicked>>

Root == 1
File == {Root} \cup {FileOf[h] : h \in Handle}
DataBlock == NMETA..(FSSIZE - 1)
MAXFILE == NDIRECT + NINDIRECT
Entry == 0..((IF BSIZE > NINDIRECT THEN BSIZE ELSE NINDIRECT) - 1)
Zeroed == [k \in Entry |-> 0]
Nobody == 0   \* not a writer or a handle
Fresh == [size |-> 0, addrs |-> [i \in 0..NDIRECT |-> 0]]
Idle == [h |-> Nobody, left |-> 0, tot |-> 0, n |-> 0]
ByteOf(p, f, k) == 100 * p + 10 * f + k
LeastOf(a, b) == IF a < b THEN a ELSE b
Lowest(S) == CHOOSE b \in S : \A c \in S : b <= c

-----------------------------------------------------------------------------
(* mkfs.c *)

\* One round of the loop of iappend(): the block for offset o of file f.
MkBlock(s, f, fbn) ==
  LET d == s.ino[f].addrs
      t == IF fbn >= NDIRECT /\ d[NDIRECT] = 0
             THEN [s EXCEPT !.ino[f].addrs[NDIRECT] = s.free, !.free = @ + 1] ELSE s
      ind == t.ino[f].addrs[NDIRECT]
  IN CASE fbn < NDIRECT /\ d[fbn] = 0 ->
            [s EXCEPT !.ino[f].addrs[fbn] = s.free, !.free = @ + 1]
       [] fbn < NDIRECT /\ d[fbn] # 0 -> s
       [] OTHER -> IF t.blk[ind][fbn - NDIRECT] # 0 THEN t
                   ELSE [t EXCEPT !.blk[ind][fbn - NDIRECT] = t.free, !.free = @ + 1]

MkAddr(s, f, fbn) ==
  IF fbn < NDIRECT THEN s.ino[f].addrs[fbn] ELSE s.blk[s.ino[f].addrs[NDIRECT]][fbn - NDIRECT]

RECURSIVE Iappend(_, _, _)
Iappend(s, f, n) ==
  IF n = 0 THEN s
  ELSE LET o == s.ino[f].size
           t == MkBlock(s, f, o \div BSIZE)
           b == MkAddr(t, f, o \div BSIZE)
       IN Iappend([t EXCEPT !.blk[b][o % BSIZE] = ByteOf(0, f, o), !.ino[f].size = o + 1], f, n - 1)

\* An entry of the root directory counts as one byte: "." and "..", then for each
\* file its entry and its contents.
RECURSIVE Populate(_, _)
Populate(s, fs) ==
  IF fs = {} THEN s
  ELSE LET f == Lowest(fs) IN Populate(Iappend(Iappend(s, Root, 1), f, Image[f]), fs \ {f})

\* "fix size of root inode dir"
FixRoot(s) == [s EXCEPT !.ino[Root].size = ((@ \div BSIZE) + 1) * BSIZE]

Mkfs ==
  FixRoot(Populate(Iappend([ino |-> [f \in File |-> Fresh], blk |-> [b \in DataBlock |-> Zeroed],
                            free |-> NMETA], Root, 2), DOMAIN Image))

\* balloc(freeblock) marks what is allocated.  (It asserts that one bitmap block
\* is enough; the model has as many as it needs.)
Init ==
  /\ bitmap = 0..(Mkfs.free - 1)
  /\ blk = Mkfs.blk /\ ino = Mkfs.ino /\ dino = Mkfs.ino
  /\ lock = [f \in File |-> Nobody]
  /\ off = [h \in Handle |-> 0]
  /\ w = [p \in Writer |-> Idle]
  /\ logged = [p \in Writer |-> {}]
  /\ calls = 0 /\ panicked = FALSE

-----------------------------------------------------------------------------
(* fs.c *)

\* balloc() on s = [bitmap, blk, log, ino]: the first block not marked, which
\* bzero() clears.  The bitmap blocks have numbers below zero.
BBLOCK(b) == -1 - (b \div BPB)
Free(s) == {b \in DataBlock : b \notin s.bitmap}
Balloc(s) ==
  LET b == Lowest(Free(s))
  IN [s EXCEPT !.bitmap = @ \cup {b}, !.blk[b] = Zeroed, !.log = @ \cup {BBLOCK(b), b}]

\* bmap(): the block of bn, allocated if necessary, with the indirect block.
DirectBmap(s, bn) ==
  IF s.ino.addrs[bn] # 0 THEN s ELSE [Balloc(s) EXCEPT !.ino.addrs[bn] = Lowest(Free(s))]

IndirectBmap(s, bn) ==
  LET t == DirectBmap(s, NDIRECT)
      ind == t.ino.addrs[NDIRECT]
  IN IF t.blk[ind][bn] # 0 THEN t
     ELSE [Balloc(t) EXCEPT !.blk[ind][bn] = Lowest(Free(t)), !.log = @ \cup {ind}]

Bmap(s, bn) == IF bn < NDIRECT THEN DirectBmap(s, bn) ELSE IndirectBmap(s, bn - NDIRECT)

\* Blocks that bmap() would have to allocate, and the address it returns.
Needed(i, bn) ==
  IF bn < NDIRECT THEN (IF i.addrs[bn] = 0 THEN 1 ELSE 0)
  ELSE IF i.addrs[NDIRECT] = 0 THEN 2
  ELSE IF blk[i.addrs[NDIRECT]][bn - NDIRECT] = 0 THEN 1 ELSE 0
Addr(i, bl, bn) == IF bn < NDIRECT THEN i.addrs[bn] ELSE bl[i.addrs[NDIRECT]][bn - NDIRECT]

\* The blocks of an inode: direct, through the indirect block, and that itself.
Indirect(i) == {k \in 0..(NINDIRECT - 1) : i.addrs[NDIRECT] # 0 /\ blk[i.addrs[NDIRECT]][k] # 0}

\* Faulty variant of Truncated: the indirect block itself is not freed.
TruncatedKeepsIndirect(i) ==
  {i.addrs[k] : k \in 0..(NDIRECT - 1)} \cup {blk[i.addrs[NDIRECT]][k] : k \in Indirect(i)}

\* What itrunc() frees
Truncated(i) ==
  {i.addrs[k] : k \in 0..NDIRECT} \cup {blk[i.addrs[NDIRECT]][k] : k \in Indirect(i)}

\* The bytes of one iteration of the loops of readi() and writei()
Piece(n, o) == LeastOf(n, BSIZE - (o % BSIZE))

\* readi(): the loop over the blocks.
RECURSIVE ReadLoop(_, _, _)
ReadLoop(i, o, n) ==
  IF n = 0 THEN << >>
  ELSE LET m == Piece(n, o)
           b == blk[Addr(i, blk, o \div BSIZE)]
       IN [k \in 1..m |-> b[(o % BSIZE) + k - 1]] \o ReadLoop(i, o + m, n - m)

Readi(i, o, n) ==
  IF o > i.size THEN << >> ELSE ReadLoop(i, o, IF o + n > i.size THEN i.size - o ELSE n)

-----------------------------------------------------------------------------
(* filewrite() and writei() *)

\* Faulty variant of max: the slop for non-aligned writes is forgotten.
maxNoSlop == ((MAXOPBLOCKS - 1 - 1) \div 2) * BSIZE

\* Bytes written in one transaction
max == ((MAXOPBLOCKS - 1 - 1 - 2) \div 2) * BSIZE

FileP(p) == FileOf[w[p].h]

Filewrite(p, h, n) ==
  /\ w[p] = Idle /\ calls < CALLS /\ ~panicked
  /\ w' = [w EXCEPT ![p] = [h |-> h, left |-> n, tot |-> 0, n |-> 0]]
  /\ calls' = calls + 1
  /\ UNCHANGED <<bitmap, blk, ino, dino, lock, off, logged, panicked>>

\* begin_op(), ilock() and the checks of writei(): a chunk begins, or the call
\* fails.
Begin(p) ==
  /\ w[p] # Idle /\ w[p].n = 0 /\ ~panicked
  /\ lock[FileP(p)] = Nobody
  /\ LET f == FileP(p)
         n == LeastOf(w[p].left, max)
         o == off[w[p].h]
     IN IF o > ino[f].size \/ o + n > MAXFILE * BSIZE
          THEN w' = [w EXCEPT ![p] = Idle] /\ UNCHANGED lock
          ELSE lock' = [lock EXCEPT ![f] = p] /\ w' = [w EXCEPT ![p].n = n]
  /\ UNCHANGED <<bitmap, blk, ino, dino, off, logged, calls, panicked>>

\* Faulty variant of Memmove: the bytes go to the start of the block.
MemmoveToStart(p, f, old, o, m) ==
  [k \in Entry |-> IF k < m THEN ByteOf(p, f, o + k) ELSE old[k]]

\* The block after memmove()
Memmove(p, f, old, o, m) ==
  [k \in Entry |-> IF k >= o % BSIZE /\ k < (o % BSIZE) + m
                     THEN ByteOf(p, f, o + k - (o % BSIZE)) ELSE old[k]]

\* One iteration; balloc() may panic.
Writei(p) ==
  /\ w[p].tot < w[p].n /\ ~panicked
  /\ LET f == FileP(p)
         o == off[w[p].h] + w[p].tot
         bn == o \div BSIZE
         s == Bmap([bitmap |-> bitmap, blk |-> blk, log |-> logged[p], ino |-> ino[f]], bn)
         b == Addr(s.ino, s.blk, bn)
         m == Piece(w[p].n - w[p].tot, o)
     IN IF Needed(ino[f], bn) > Cardinality(DataBlock \ bitmap)
          THEN panicked' = TRUE /\ UNCHANGED <<bitmap, blk, ino, w, logged>>
          ELSE /\ bitmap' = s.bitmap
               /\ blk' = [s.blk EXCEPT ![b] = Memmove(p, f, @, o, m)]
               /\ ino' = [ino EXCEPT ![f] = s.ino]
               /\ logged' = [logged EXCEPT ![p] = s.log \cup {b}]
               /\ w' = [w EXCEPT ![p].tot = @ + m]
               /\ UNCHANGED panicked
  /\ UNCHANGED <<dino, lock, off, calls>>

\* The end of writei(), iunlock() and end_op(); the next chunk, if any.
End(p) ==
  /\ w[p].n > 0 /\ w[p].tot = w[p].n /\ ~panicked
  /\ LET f == FileP(p)
         o == off[w[p].h] + w[p].n
     IN /\ IF o > ino[f].size
             THEN /\ ino' = [ino EXCEPT ![f].size = o]
                  /\ dino' = [dino EXCEPT ![f] = ino'[f]]
             ELSE UNCHANGED <<ino, dino>>
        /\ off' = [off EXCEPT ![w[p].h] = o]
        /\ lock' = [lock EXCEPT ![f] = Nobody]
  /\ w' = [w EXCEPT ![p] = IF @.left = @.n THEN Idle
                           ELSE [@ EXCEPT !.left = w[p].left - w[p].n, !.tot = 0, !.n = 0]]
  /\ logged' = [logged EXCEPT ![p] = {}]
  /\ UNCHANGED <<bitmap, blk, calls, panicked>>

\* itrunc() of a file that has lost its last name and user; another one, whose
\* offset is 0, takes its place.
Itrunc(f) ==
  /\ f # Root /\ calls < CALLS /\ ~panicked
  /\ \A p \in Writer : w[p] # Idle => FileP(p) # f
  /\ bitmap' = bitmap \ (Truncated(ino[f]) \ {0})
  /\ ino' = [ino EXCEPT ![f] = Fresh]
  /\ dino' = [dino EXCEPT ![f] = Fresh]
  /\ off' = [h \in Handle |-> IF FileOf[h] = f THEN 0 ELSE off[h]]
  /\ calls' = calls + 1
  /\ UNCHANGED <<blk, lock, w, logged, panicked>>

Next ==
  \/ \E p \in Writer : Begin(p) \/ Writei(p) \/ End(p) \/ \E h \in Handle, n \in Lens : Filewrite(p, h, n)
  \/ \E f \in File : Itrunc(f)

Spec == Init /\ [][Next]_vars

-----------------------------------------------------------------------------
(* Properties *)

\* The inode as the next user will find it: in memory while it is locked, on disk
\* otherwise.
Now(f) == IF lock[f] = Nobody THEN dino[f] ELSE ino[f]

\* Where a block is used: in which place of which inode.
UsesOf(b) ==
  {<<f, k>> \in File \X (0..(NDIRECT + NINDIRECT)) :
     IF k <= NDIRECT THEN Now(f).addrs[k] = b
     ELSE (k - NDIRECT - 1) \in Indirect(Now(f)) /\ blk[Now(f).addrs[NDIRECT]][k - NDIRECT - 1] = b}

\* The bitmap on disk says what the inodes on disk say: a block is marked exactly
\* if some inode has it, and then one inode has it once, also while several files
\* are written at the same time, and on the image that mkfs makes.  Every block
\* below the size of a file is there, so that readi() never makes bmap() allocate
\* outside of a write.
BitmapExact ==
  /\ \A b \in DataBlock : Cardinality(UsesOf(b)) = (IF b \in bitmap THEN 1 ELSE 0)
  /\ \A f \in File : \A bn \in 0..(MAXFILE - 1) :
       bn * BSIZE < Now(f).size => Needed(Now(f), bn) = 0

\* "write a few blocks at a time to avoid exceeding the maximum log transaction
\* size, including i-node, indirect block, allocation blocks, and 2 blocks of slop
\* for non-aligned writes": a chunk writes at most MAXOPBLOCKS blocks, its inode
\* included, even if every bit of the bitmap is in a block of its own.
TransactionFits == \A p \in Writer : Cardinality(logged[p]) + 1 <= MAXOPBLOCKS

\* A file's length while a chunk is written, and its contents.
Length(f) ==
  IF lock[f] = Nobody THEN dino[f].size
  ELSE LET o == off[w[lock[f]].h] + w[lock[f]].tot
       IN IF w[lock[f]].tot > 0 /\ o > ino[f].size THEN o ELSE ino[f].size
Contents(f) ==
  [k \in 1..Length(f) |-> blk[Addr(Now(f), blk, (k - 1) \div BSIZE)][(k - 1) % BSIZE]]

\* readi() returns the part of the contents it is asked for.
ReadsBack ==
  \A f \in File \ {Root} : lock[f] = Nobody =>
    \A o \in 0..(Length(f) + 1), n \in {1, BSIZE, Length(f)} :
      Readi(dino[f], o, n) = SubSeq(Contents(f), o + 1, LeastOf(o + n, Length(f)))

\* The position of an open file, also in the middle of a chunk.
Position(h) ==
  off[h] + (IF lock[FileOf[h]] # Nobody /\ w[lock[FileOf[h]]].h = h THEN w[lock[FileOf[h]]].tot ELSE 0)

Abstract ==
  INSTANCE ByteFiles WITH
    bytes <- [f \in File |-> IF f = Root THEN << >> ELSE Contents(f)],
    pos <- [h \in Handle |-> Position(h)],
    Data <- ByteOf

\* To its users a file is a sequence of bytes: a write puts its bytes one after
\* the other at the position of the open file, also of one that is shared, and
\* changes nothing else of that or another file; readi() returns the bytes it is
\* asked for, at any offset and length, across blocks and at the end of the file.
ImplementsByteFiles == Abstract!Spec /\ []ReadsBack
=============================================================================
