------------------------------- MODULE Inode --------------------------------
(***************************************************************************)
(* The inode cache of fs.c under the calls of sysfile.c and file.c that    *)
(* name, open, link and remove the files of one directory.                 *)
(*                                                                         *)
(* A step is a section under icache.lock, a use of one locked block of     *)
(* disk inodes, or what a process does between two waits for a sleep-lock. *)
(* Inode updates and directory writes are buffered by the log, whose       *)
(* transactions Log models; a system call is one transaction.  The         *)
(* directory itself is always referenced, so only its lock is modelled.    *)
(* iput() of the directory, which takes its lock once more, is a step of   *)
(* its own where the caller holds another lock.  A panic stops the machine.*)
(***************************************************************************)
EXTENDS Integers, FiniteSets

CONSTANTS
  Proc, Name,        \* processes and the names of directory entries
  NINODE,            \* entries of icache
  NINODES,           \* inodes of the disk, sb.ninodes
  Val, Zero,         \* contents of a file: its size, addresses and blocks
  Nobody, NoSlot, NoInum, NoName

Slot == 1..NINODE
Inum == 1..NINODES

ASSUME InodeAssumption ==
  /\ IsFiniteSet(Proc) /\ IsFiniteSet(Name)
  /\ NINODE \in Nat /\ NINODES \in Nat
  /\ Zero \in Val
  /\ Nobody \notin Proc /\ NoSlot \notin Slot /\ NoInum \notin Inum /\ NoName \notin Name

\* Values of dinode.type; regular files are the only inodes modelled.
T_FILE == 2
FreeType == 0

\* struct dinode
Dinode == [type : {FreeType, T_FILE}, nlink : Int, data : Val]
Empty == [type |-> FreeType, nlink |-> 0, data |-> Zero]

VARIABLES
  dinode,   \* the inodes on disk
  dir,      \* the directory: the inode number of each name, or NoInum
  dlock,    \* holder of the lock of the directory
  inum, ref, valid,   \* entries of icache
  inode,    \* their copies of the disk inodes
  lock,     \* holders of their sleep-locks
  pc,       \* where each process is in its system call
  ip,       \* the inode its system call works on
  old,      \* the inode sys_link() links, while dirlink() works on another
  fd,       \* the inode of its open file
  name,     \* the name it creates or removes
  fresh     \* the inode number ialloc() has found

diskVars == <<dinode, dir>>
cacheVars == <<inum, ref>>
vars == <<dinode, dir, dlock, inum, ref, valid, inode, lock, pc, ip, old, fd, name,
          fresh>>

Init ==
  /\ dinode = [i \in Inum |-> Empty]
  /\ dir = [n \in Name |-> NoInum]
  /\ dlock = Nobody
  /\ inum = [s \in Slot |-> NoInum]
  /\ ref = [s \in Slot |-> 0]
  /\ valid = [s \in Slot |-> FALSE]
  /\ inode = [s \in Slot |-> Empty]
  /\ lock = [s \in Slot |-> Nobody]
  /\ pc = [p \in Proc |-> "idle"]
  /\ ip = [p \in Proc |-> NoSlot]
  /\ old = [p \in Proc |-> NoSlot] /\ fd = [p \in Proc |-> NoSlot]
  /\ name = [p \in Proc |-> NoName]
  /\ fresh = [p \in Proc |-> NoInum]

Panicked == \E p \in Proc : pc[p] \in {"panic", "no inodes"}

At(p, l) == pc[p] = l /\ ~Panicked

Goto(p, l) == pc' = [pc EXCEPT ![p] = l]

-----------------------------------------------------------------------------
(* The directory and file contents *)

\* dirlookup(): the inode number of a name.
Dirlookup(n) == dir[n]

\* dirlink() of a name that is not there.
Dirlink(n, i) == dir' = [dir EXCEPT ![n] = i]

\* writei() and itrunc() on an inode.
Writei(d, v) == [d EXCEPT !.data = v]
Itrunc(d) == [d EXCEPT !.data = Zero]

-----------------------------------------------------------------------------
(* The inode cache *)

Cached(s, i) == ref[s] > 0 /\ inum[s] = i

\* The first entry of icache without references.
FirstEmpty(s) == ref[s] = 0 /\ \A t \in 1..(s - 1) : ref[t] > 0

IgetHit(p, i) ==
  /\ \E s \in Slot :
       /\ Cached(s, i)
       /\ ref' = [ref EXCEPT ![s] = @ + 1]
       /\ ip' = [ip EXCEPT ![p] = s]
  /\ UNCHANGED <<inum, valid>>

\* Recycle an entry; the caller panics when there is none.
Recycle(p, i) ==
  /\ inum' = [s \in Slot |-> IF FirstEmpty(s) THEN i ELSE inum[s]]
  /\ ref' = [s \in Slot |-> IF FirstEmpty(s) THEN 1 ELSE ref[s]]
  /\ valid' = [s \in Slot |-> ~FirstEmpty(s) /\ valid[s]]
  /\ ip' = [ip EXCEPT ![p] = IF \E s \in Slot : FirstEmpty(s)
                              THEN CHOOSE s \in Slot : FirstEmpty(s) ELSE NoSlot]

Iget(p, i, l) ==
  \/ /\ IgetHit(p, i)
     /\ Goto(p, l)
  \/ /\ \A s \in Slot : ~Cached(s, i)
     /\ Recycle(p, i)
     /\ Goto(p, IF \E s \in Slot : FirstEmpty(s) THEN l ELSE "no inodes")

\* What ilock() leaves in the entry: it reads the disk only if it has to.
Loaded(s) == IF valid[s] THEN inode[s] ELSE dinode[inum[s]]

\* ilock() panics on an inode that is not allocated.
NoType(s) == ~valid[s] /\ dinode[inum[s]].type = FreeType

\* The inode of entry s becomes d, in memory and by iupdate() on disk.
Iupdate(s, d) ==
  /\ inode' = [inode EXCEPT ![s] = d]
  /\ valid' = [valid EXCEPT ![s] = TRUE]
  /\ dinode' = [dinode EXCEPT ![inum[s]] = d]

\* Faulty variant: iput() does not look at ip->ref.
LastUseAnyRef(s) == valid[s] /\ inode[s].nlink = 0

\* The test of iput(), with the sleep-lock.
LastUse(s) == valid[s] /\ inode[s].nlink = 0 /\ ref[s] = 1

IputCheck(p) ==
  /\ At(p, "iput")
  /\ lock[ip[p]] = Nobody
  /\ \/ /\ LastUse(ip[p])
        /\ lock' = [lock EXCEPT ![ip[p]] = p]
        /\ Goto(p, "ifree")
     \/ /\ ~LastUse(ip[p])
        /\ Goto(p, "drop")
        /\ UNCHANGED lock
  /\ UNCHANGED <<diskVars, dlock, cacheVars, valid, inode, ip, fd, old, name, fresh>>

\* itrunc(), type = 0, iupdate(), valid = 0 and releasesleep().
IputFree(p) ==
  /\ At(p, "ifree")
  /\ LET s == ip[p] IN
       /\ inode' = [inode EXCEPT ![s] = [Itrunc(@) EXCEPT !.type = FreeType]]
       /\ dinode' = [dinode EXCEPT ![inum[s]] = inode'[s]]
       /\ valid' = [valid EXCEPT ![s] = FALSE]
       /\ lock' = [lock EXCEPT ![s] = Nobody]
  /\ Goto(p, "drop")
  /\ UNCHANGED <<dir, dlock, cacheVars, ip, fd, old, name, fresh>>

\* The end of iput(), and of the call unless iput() was called by dirlink():
\* then sys_link() unlocks the directory and goes on to undo its work.
IputDrop(p) ==
  /\ At(p, "drop")
  /\ ref' = [ref EXCEPT ![ip[p]] = @ - 1]
  /\ ip' = [ip EXCEPT ![p] = old[p]]
  /\ \/ /\ old[p] = NoSlot
        /\ Goto(p, "idle")
        /\ UNCHANGED <<dlock, old>>
     \/ /\ old[p] # NoSlot
        /\ dlock' = Nobody
        /\ old' = [old EXCEPT ![p] = NoSlot]
        /\ Goto(p, "bad")
  /\ UNCHANGED <<diskVars, inum, valid, inode, lock, fd, name, fresh>>

-----------------------------------------------------------------------------
(* Opening, writing and closing files *)

\* namei(): the entry is found and its inode referenced with the directory
\* locked; the lock of the directory is given back.
Namei(p, n, l) ==
  /\ At(p, "idle")
  /\ dlock = Nobody
  /\ Dirlookup(n) # NoInum
  /\ Iget(p, Dirlookup(n), l)
  /\ UNCHANGED <<diskVars, dlock, inode, lock, fd, old, name, fresh>>

\* sys_open() of an existing file, with or without O_CREATE.
Open(p, n) == fd[p] = NoSlot /\ Namei(p, n, "open")

OpenLock(p) ==
  /\ At(p, "open")
  /\ lock[ip[p]] = Nobody
  /\ LET s == ip[p] IN
       /\ lock' = [lock EXCEPT ![s] = p]
       /\ inode' = [inode EXCEPT ![s] = Loaded(s)]
       /\ valid' = [valid EXCEPT ![s] = TRUE]
       /\ Goto(p, IF NoType(s) THEN "panic" ELSE "opened")
  /\ UNCHANGED <<diskVars, dlock, cacheVars, ip, fd, old, name, fresh>>

\* Faulty variant: no iput() when there is no file or descriptor.
OpenDoneNoPut(p) ==
  /\ At(p, "opened")
  /\ lock' = [lock EXCEPT ![ip[p]] = Nobody]
  /\ \E g \in {ip[p], NoSlot} : fd' = [fd EXCEPT ![p] = g]
  /\ ip' = [ip EXCEPT ![p] = NoSlot]
  /\ Goto(p, "idle")
  /\ UNCHANGED <<diskVars, dlock, cacheVars, valid, inode, old, name, fresh>>

\* filealloc() and fdalloc(), which may fail.
OpenDone(p) ==
  /\ At(p, "opened")
  /\ lock' = [lock EXCEPT ![ip[p]] = Nobody]
  /\ \/ /\ fd' = [fd EXCEPT ![p] = ip[p]]
        /\ ip' = [ip EXCEPT ![p] = NoSlot]
        /\ Goto(p, "idle")
     \/ /\ Goto(p, "iput")
        /\ UNCHANGED <<fd, ip>>
  /\ UNCHANGED <<diskVars, dlock, cacheVars, valid, inode, old, name, fresh>>

\* filewrite(): ilock(), writei(), iunlock().
Write(p) ==
  /\ At(p, "idle")
  /\ fd[p] # NoSlot
  /\ lock[fd[p]] = Nobody
  /\ \E v \in Val : Iupdate(fd[p], Writei(Loaded(fd[p]), v))
  /\ Goto(p, IF NoType(fd[p]) THEN "panic" ELSE "idle")
  /\ UNCHANGED <<dir, dlock, cacheVars, lock, ip, fd, old, name, fresh>>

\* fileclose() of the last reference to the file.
Close(p) ==
  /\ At(p, "idle")
  /\ fd[p] # NoSlot
  /\ ip' = [ip EXCEPT ![p] = fd[p]]
  /\ fd' = [fd EXCEPT ![p] = NoSlot]
  /\ Goto(p, "iput")
  /\ UNCHANGED <<diskVars, dlock, cacheVars, valid, inode, lock, old, name, fresh>>

-----------------------------------------------------------------------------
(* create() of a new file, for sys_open() *)

\* Faulty variant: create() looks the name up and unlocks the directory.
CreateUnlocked(p, n) ==
  /\ At(p, "idle")
  /\ fd[p] = NoSlot
  /\ dlock = Nobody
  /\ Dirlookup(n) = NoInum
  /\ name' = [name EXCEPT ![p] = n]
  /\ Goto(p, "ialloc")
  /\ UNCHANGED <<diskVars, dlock, cacheVars, valid, inode, lock, ip, fd, old, fresh>>

Create(p, n) ==
  /\ At(p, "idle")
  /\ fd[p] = NoSlot
  /\ dlock = Nobody
  /\ Dirlookup(n) = NoInum
  /\ dlock' = p
  /\ name' = [name EXCEPT ![p] = n]
  /\ Goto(p, "ialloc")
  /\ UNCHANGED <<diskVars, cacheVars, valid, inode, lock, ip, fd, old, fresh>>

\* ialloc(): the first free inode, whose block is locked meanwhile.
Ialloc(p) ==
  /\ At(p, "ialloc")
  /\ \/ \E i \in Inum :
          /\ dinode[i].type = FreeType
          /\ \A j \in 1..(i - 1) : dinode[j].type # FreeType
          /\ dinode' = [dinode EXCEPT ![i] = [Empty EXCEPT !.type = T_FILE]]
          /\ fresh' = [fresh EXCEPT ![p] = i]
          /\ Goto(p, "iget")
     \/ /\ \A i \in Inum : dinode[i].type # FreeType
        /\ Goto(p, "no inodes")
        /\ UNCHANGED <<dinode, fresh>>
  /\ UNCHANGED <<dir, dlock, cacheVars, valid, inode, lock, ip, fd, old, name>>

IallocGet(p) ==
  /\ At(p, "iget")
  /\ Iget(p, fresh[p], "create")
  /\ fresh' = [fresh EXCEPT ![p] = NoInum]
  /\ UNCHANGED <<diskVars, dlock, inode, lock, fd, old, name>>

\* ilock(), nlink = 1, iupdate(), dirlink() and iunlock() of the directory.
CreateLink(p) ==
  /\ At(p, "create")
  /\ lock[ip[p]] = Nobody
  /\ LET s == ip[p] IN
       /\ lock' = [lock EXCEPT ![s] = p]
       /\ Iupdate(s, [Loaded(s) EXCEPT !.nlink = 1])
       /\ Dirlink(name[p], inum[s])
       /\ Goto(p, IF NoType(s) THEN "panic" ELSE "created")
  /\ dlock' = Nobody
  /\ name' = [name EXCEPT ![p] = NoName]
  /\ UNCHANGED <<cacheVars, ip, fd, old, fresh>>

\* iput() of the directory: acquiresleep(), with the new inode still locked.
CreatePut(p) ==
  /\ At(p, "created")
  /\ dlock = Nobody
  /\ Goto(p, "opened")
  /\ UNCHANGED <<diskVars, dlock, cacheVars, valid, inode, lock, ip, old, fd, name, fresh>>

-----------------------------------------------------------------------------
(* sys_link() *)

Link(p, n) == Namei(p, n, "link")

\* Faulty variant: nlink++ without iupdate().
LinkCountInMemory(p) ==
  /\ At(p, "link")
  /\ lock[ip[p]] = Nobody
  /\ inode' = [inode EXCEPT ![ip[p]] = [Loaded(ip[p]) EXCEPT !.nlink = @ + 1]]
  /\ valid' = [valid EXCEPT ![ip[p]] = TRUE]
  /\ Goto(p, "linkdir")
  /\ UNCHANGED <<diskVars, dlock, cacheVars, lock, ip, fd, old, name, fresh>>

\* ilock(), nlink++, iupdate() and iunlock().
LinkCount(p) ==
  /\ At(p, "link")
  /\ lock[ip[p]] = Nobody
  /\ LET s == ip[p] IN
       /\ Iupdate(s, [Loaded(s) EXCEPT !.nlink = @ + 1])
       /\ Goto(p, IF NoType(s) THEN "panic" ELSE "linkdir")
  /\ UNCHANGED <<dir, dlock, cacheVars, lock, ip, fd, old, name, fresh>>

\* Faulty variant: a failed dirlink() does not undo nlink++.
LinkDirNoUndo(p, n) ==
  /\ At(p, "linkdir")
  /\ dlock = Nobody
  /\ dir' = [dir EXCEPT ![n] = IF @ = NoInum THEN inum[ip[p]] ELSE @]
  /\ Goto(p, "iput")
  /\ UNCHANGED <<dinode, dlock, cacheVars, valid, inode, lock, ip, fd, old, name, fresh>>

\* dirlink() with the directory locked.  If the name exists, dirlink() fails
\* after iput() of the inode that dirlookup() found.
LinkDir(p, n) ==
  /\ At(p, "linkdir")
  /\ dlock = Nobody
  /\ \/ /\ Dirlookup(n) = NoInum
        /\ Dirlink(n, inum[ip[p]])
        /\ Goto(p, "iput")
        /\ UNCHANGED <<dlock, cacheVars, valid, ip, old>>
     \/ /\ Dirlookup(n) # NoInum
        /\ dlock' = p
        /\ old' = [old EXCEPT ![p] = ip[p]]
        /\ Iget(p, Dirlookup(n), "iput")
        /\ UNCHANGED dir
  /\ UNCHANGED <<dinode, inode, lock, fd, name, fresh>>

\* bad: ilock(), nlink--, iupdate(), iunlock().
LinkBad(p) ==
  /\ At(p, "bad")
  /\ lock[ip[p]] = Nobody
  /\ LET s == ip[p] IN
       /\ Iupdate(s, [Loaded(s) EXCEPT !.nlink = @ - 1])
       /\ Goto(p, IF NoType(s) THEN "panic" ELSE "iput")
  /\ UNCHANGED <<dir, dlock, cacheVars, lock, ip, fd, old, name, fresh>>

-----------------------------------------------------------------------------
(* sys_unlink() *)

Unlink(p, n) ==
  /\ At(p, "idle")
  /\ dlock = Nobody
  /\ Dirlookup(n) # NoInum
  /\ dlock' = p
  /\ name' = [name EXCEPT ![p] = n]
  /\ Iget(p, Dirlookup(n), "unlink")
  /\ UNCHANGED <<diskVars, inode, lock, fd, old, fresh>>

\* ilock(), the check of nlink, the entry erased, iunlock() of the directory.
UnlinkEntry(p) ==
  /\ At(p, "unlink")
  /\ lock[ip[p]] = Nobody
  /\ LET s == ip[p] IN
       /\ lock' = [lock EXCEPT ![s] = p]
       /\ inode' = [inode EXCEPT ![s] = Loaded(s)]
       /\ valid' = [valid EXCEPT ![s] = TRUE]
       /\ Goto(p, IF NoType(s) \/ Loaded(s).nlink < 1 THEN "panic" ELSE "erased")
  /\ dir' = [dir EXCEPT ![name[p]] = NoInum]
  /\ dlock' = Nobody
  /\ name' = [name EXCEPT ![p] = NoName]
  /\ UNCHANGED <<dinode, cacheVars, ip, fd, old, fresh>>

\* iput() of the directory: acquiresleep(), with the inode still locked.
UnlinkPut(p) ==
  /\ At(p, "erased")
  /\ dlock = Nobody
  /\ Goto(p, "unlinked")
  /\ UNCHANGED <<diskVars, dlock, cacheVars, valid, inode, lock, ip, old, fd, name, fresh>>

\* nlink--, iupdate(), iunlock().
UnlinkCount(p) ==
  /\ At(p, "unlinked")
  /\ LET s == ip[p] IN
       /\ Iupdate(s, [inode[s] EXCEPT !.nlink = @ - 1])
       /\ lock' = [lock EXCEPT ![s] = Nobody]
  /\ Goto(p, "iput")
  /\ UNCHANGED <<dir, dlock, cacheVars, ip, fd, old, name, fresh>>

-----------------------------------------------------------------------------
\* The steps of a system call that has started.
Step(p) ==
  \/ IputCheck(p) \/ IputFree(p) \/ IputDrop(p)
  \/ OpenLock(p) \/ OpenDone(p)
  \/ Ialloc(p) \/ IallocGet(p) \/ CreateLink(p) \/ CreatePut(p)
  \/ LinkCount(p) \/ (\E n \in Name : LinkDir(p, n)) \/ LinkBad(p)
  \/ UnlinkEntry(p) \/ UnlinkPut(p) \/ UnlinkCount(p)

Call(p) ==
  \/ Write(p) \/ Close(p)
  \/ \E n \in Name : Open(p, n) \/ Create(p, n) \/ Link(p, n) \/ Unlink(p, n)

Next == \E p \in Proc : Call(p) \/ Step(p)

Spec == Init /\ [][Next]_vars

\* A process that can go on is scheduled at some time.
FairSpec == Spec /\ \A p \in Proc : WF_vars(Step(p))

-----------------------------------------------------------------------------
(* Properties *)

\* ip->ref counts the pointers to the entry, those of calls under way and those
\* of open files, also when calls fail half way ("ip->ref tracks the number of
\* in-memory pointers to the entry").
RefsCounted ==
  \A s \in Slot :
    ref[s] = Cardinality({p \in Proc : ip[p] = s}) + Cardinality({p \in Proc : old[p] = s})
             + Cardinality({p \in Proc : fd[p] = s})

\* An inode is in one entry of icache, so that its sleep-lock excludes everybody,
\* and a valid copy is what the disk holds ("i-node cache is write-through"), also
\* after the inode was freed and allocated again while the entry was referenced.
CacheCoherent ==
  \A s \in Slot : ref[s] > 0 =>
    /\ \A t \in Slot : Cached(t, inum[s]) => s = t
    /\ valid[s] => inode[s] = dinode[inum[s]]

\* Processes that work on inode i at one of the labels of L.
Working(i, L) == {p \in Proc : pc[p] \in L /\ inum[ip[p]] = i}

\* nlink is the number of names, but for sys_link() and sys_unlink() calls that
\* have changed one of the two and not yet the other: it is never too small.  So
\* no name leads to a free inode, whatever iput() and ialloc() do to it at the same
\* time, and the code's own tests of this, panic("ilock: no type") and
\* panic("unlink: nlink < 1"), never fail.
LinksCounted ==
  /\ \A i \in Inum :
       dinode[i].nlink = Cardinality({n \in Name : dir[n] = i})
                         + Cardinality(Working(i, {"linkdir", "bad", "erased", "unlinked"}))
                         + Cardinality({p \in Proc : old[p] # NoSlot /\ inum[old[p]] = i})
  /\ \A n \in Name : dir[n] # NoInum => dinode[dir[n]].type # FreeType
  /\ \A p \in Proc : pc[p] # "panic"

Referenced(i) == \E s \in Slot : Cached(s, i)

\* iput(): "If that was the last reference and the inode has no links to it, free
\* the inode (and its content) on disk."  An allocated inode without links has a
\* reference, or ialloc() is about to take one.  Does not hold: two processes can
\* read ip->ref = 2 in turn before either has dropped its reference.
NoOrphan ==
  \A i \in Inum :
    dinode[i].type # FreeType /\ dinode[i].nlink = 0 =>
      Referenced(i) \/ \E p \in Proc : fresh[p] = i

\* linkunlink() in usertests.c runs link, unlink and create concurrently "to look
\* for deadlocks": a call returns, unless another process makes calls again and
\* again and takes the locks it waits for.  Does not hold: create() and
\* sys_unlink() hold the inode while iput() of the directory locks the directory
\* once more, and another sys_unlink() holds the directory and waits for the inode.
CallsReturn ==
  \A p \in Proc :
    <>[](pc[p] # "idle" /\ ~Panicked) =>
      \E q \in Proc \ {p} : []<>(pc[q] = "idle") /\ []<>(pc[q] # "idle")

\* The files p uses, from iget() to the test of iput().
Uses(p) ==
  {i \in Inum :
     \/ fd[p] # NoSlot /\ inum[fd[p]] = i
     \/ old[p] # NoSlot /\ inum[old[p]] = i
     \/ p \in Working(i, {"open", "opened", "created", "link", "linkdir", "bad",
                         "unlink", "erased", "unlinked", "iput"})}

Live(i) == (\E n \in Name : dir[n] = i) \/ (\E p \in Proc : i \in Uses(p))

Abstract ==
  INSTANCE Files WITH
    uses <- [p \in Proc |-> Uses(p)],
    val <- [i \in Inum |-> IF Live(i) THEN dinode[i].data ELSE Zero]

\* To its users the cache, its locks and the two counters are invisible: a file
\* keeps its contents while it has a name or a user, and create() returns a file
\* that has neither.
ImplementsFiles == Abstract!Spec
=============================================================================
