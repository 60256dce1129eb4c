-------------------------------- MODULE Tree ---------------------------------
(***************************************************************************)
(* The directory tree: namex() of fs.c and the calls of sysfile.c that     *)
(* make, remove, link and enter the files and directories it finds.        *)
(*                                                                         *)
(* A process walks a path one element at a time, with only the directory   *)
(* it looks into locked; the tree may change between two elements, and     *)
(* between nameiparent() and the ilock() that follows it.  The inode cache *)
(* is abstracted (Inode models it): an inode is freed when its last        *)
(* pointer goes and it has no links.  A panic stops the machine.           *)
(***************************************************************************)
EXTENDS Integers, Sequences, FiniteSets

CONSTANTS
  Proc, Name,
  NINODES,     \* inodes are 1..NINODES
  Calls        \* the calls: op, path, whether it starts at the root, and the new path of link

VARIABLES
  ino,         \* the inodes
  lock,        \* holders of inode locks that are kept from one step to the next
  cwd,
  st           \* the call of each process

vars == <<ino, lock, cwd, st>>

Root == 1
Inum == 1..NINODES
Dots == {".", ".."}
Nobody == "nobody"
None == 0

FreeInode == [type |-> "free", nlink |-> 0, ent |-> [n \in Name \cup Dots |-> None]]
Idle == [pc |-> "idle", op |-> "none", path |-> << >>, par |-> FALSE, ip |-> None, dp |-> None,
         new |-> << >>]

\* The root directory of mkfs.c: its ".." is itself.
Init ==
  /\ ino = [i \in Inum |-> IF i # Root THEN FreeInode
                           ELSE [type |-> "dir", nlink |-> 1,
                                 ent |-> [n \in Name \cup Dots |-> IF n \in Dots THEN Root ELSE None]]]
  /\ lock = [i \in Inum |-> Nobody]
  /\ cwd = [p \in Proc |-> Root]
  /\ st = [p \in Proc |-> Idle]

Halted == \E p \in Proc : st[p].pc \in {"no type", "nlink", "no inodes"}
At(p, l) == st[p].pc = l /\ ~Halted
Unlocked(i) == lock[i] = Nobody

Pointers == UNION {{cwd[p], st[p].ip, st[p].dp} : p \in Proc}

\* The inodes become f; those that nothing points to any more are freed (iput()).
Commit(f) ==
  ino' = [i \in Inum |-> IF f[i].type # "free" /\ f[i].nlink = 0 /\ i \notin Pointers'
                           THEN FreeInode ELSE f[i]]

Goto(p, s) == st' = [st EXCEPT ![p] = s]
Return(p) == Goto(p, Idle) /\ UNCHANGED <<lock, cwd>> /\ Commit(ino)
Panic(p, why) == Goto(p, [st[p] EXCEPT !.pc = why]) /\ UNCHANGED <<lock, cwd, ino>>

Lookup(d, n) == ino[d].ent[n]

-----------------------------------------------------------------------------
(* namex() *)

Parent(op) == op \in {"mkdir", "create", "mknod", "unlink"}

Start(p, c) ==
  /\ At(p, "idle")
  /\ Goto(p, [pc |-> "walk", op |-> c.op, path |-> c.path, par |-> Parent(c.op),
              ip |-> IF c.abs THEN Root ELSE cwd[p], dp |-> None, new |-> c.new])
  /\ UNCHANGED <<ino, lock, cwd>>

\* Undo the link that sys_link() has counted, and return.
Bad(p) ==
  /\ st[p].dp # None /\ Unlocked(st[p].dp)
  /\ Goto(p, Idle) /\ UNCHANGED <<lock, cwd>>
  /\ Commit([ino EXCEPT ![st[p].dp].nlink = @ - 1])

\* The walk fails.
Fail(p) == (st[p].op # "link" /\ Return(p)) \/ (st[p].op = "link" /\ st[p].dp = None /\ Return(p)) \/ Bad(p)

\* One element; the directory is unlocked and put before the next one.
Walk(p) ==
  /\ At(p, "walk")
  /\ LET s == st[p]
         i == s.ip
     IN \/ /\ s.path = << >>
           /\ IF s.par THEN Fail(p)
              ELSE Goto(p, [s EXCEPT !.pc = s.op]) /\ UNCHANGED <<ino, lock, cwd>>
        \/ /\ s.path # << >> /\ Unlocked(i)
           /\ CASE ino[i].type = "free" -> Panic(p, "no type")
                [] ino[i].type \in {"file", "dev"} -> Fail(p)
                [] OTHER ->
                     \/ /\ s.par /\ Len(s.path) = 1
                        /\ Goto(p, [s EXCEPT !.pc = s.op]) /\ UNCHANGED <<ino, lock, cwd>>
                     \/ /\ ~(s.par /\ Len(s.path) = 1)
                        /\ IF Lookup(i, Head(s.path)) = None THEN Fail(p)
                           ELSE /\ Goto(p, [s EXCEPT !.ip = Lookup(i, Head(s.path)), !.path = Tail(@)])
                                /\ UNCHANGED <<lock, cwd>> /\ Commit(ino)

\* ilock() of the inode found; it panics on a free one.
Locked(p, op) == At(p, op) /\ Unlocked(st[p].ip)
NoType(p) == ino[st[p].ip].type = "free" /\ Panic(p, "no type")
Typed(p) == ino[st[p].ip].type # "free"

-----------------------------------------------------------------------------
(* sys_open() of a file that exists, and sys_chdir() *)

Open(p) == Locked(p, "open") /\ (NoType(p) \/ (Typed(p) /\ Return(p)))

Chdir(p) ==
  /\ Locked(p, "chdir")
  /\ \/ NoType(p)
     \/ /\ ino[st[p].ip].type = "dir"
        /\ cwd' = [cwd EXCEPT ![p] = st[p].ip]
        /\ Goto(p, Idle) /\ UNCHANGED lock /\ Commit(ino)
     \/ ino[st[p].ip].type \in {"file", "dev"} /\ Return(p)

-----------------------------------------------------------------------------
(* create(), for sys_open(), sys_mkdir() and sys_mknod() *)

\* Faulty variant of DotDot: ".." is where the process is.
DotDotCwd(p) == cwd[p]

\* The directory that ".." of a new directory means
DotDot(p) == st[p].ip

\* A new inode, its "." and ".." and its entry, with the directory locked.
Made(p, i) ==
  LET d == st[p].ip
      t == CASE st[p].op = "mkdir" -> "dir" [] st[p].op = "mknod" -> "dev" [] OTHER -> "file"
      e == [n \in Name \cup Dots |-> IF t # "dir" THEN None
                                     ELSE CASE n = "." -> i [] n = ".." -> DotDot(p) [] OTHER -> None]
  IN [ino EXCEPT ![i] = [type |-> t, nlink |-> 1, ent |-> e],
                 ![d].nlink = IF t = "dir" THEN @ + 1 ELSE @,
                 ![d].ent[Head(st[p].path)] = i]

Create(p, op) ==
  /\ Locked(p, op)
  /\ LET s == st[p]
         there == Lookup(s.ip, Head(s.path))
         free == {i \in Inum : ino[i].type = "free"}
     IN \/ NoType(p)
        \/ /\ Typed(p) /\ there # None
           /\ Goto(p, [s EXCEPT !.pc = "exists", !.ip = there]) /\ UNCHANGED <<lock, cwd>>
           /\ Commit(ino)
        \/ /\ Typed(p) /\ there = None
           /\ IF free = {} THEN Panic(p, "no inodes")
              ELSE /\ Goto(p, Idle) /\ UNCHANGED <<lock, cwd>>
                   /\ Commit(Made(p, CHOOSE i \in free : \A j \in free : i <= j))

Exists(p) == Locked(p, "exists") /\ (NoType(p) \/ (Typed(p) /\ Return(p)))

-----------------------------------------------------------------------------
(* sys_link() *)

\* nlink++ of the file, which stays referenced while the new path is walked.
Link(p) ==
  /\ Locked(p, "link") /\ st[p].dp = None
  /\ \/ NoType(p)
     \/ ino[st[p].ip].type = "dir" /\ Return(p)
     \/ /\ ino[st[p].ip].type \in {"file", "dev"}
        /\ Goto(p, [st[p] EXCEPT !.pc = "walk", !.path = st[p].new, !.par = TRUE, !.dp = st[p].ip,
                                 !.ip = cwd[p]])
        /\ UNCHANGED <<lock, cwd>>
        /\ Commit([ino EXCEPT ![st[p].ip].nlink = @ + 1])

\* dirlink()
LinkDir(p) ==
  /\ Locked(p, "link") /\ st[p].dp # None
  /\ LET s == st[p] IN
     \/ NoType(p)
     \/ Typed(p) /\ Lookup(s.ip, Head(s.path)) # None /\ Bad(p)
     \/ /\ Typed(p) /\ Lookup(s.ip, Head(s.path)) = None
        /\ Goto(p, Idle) /\ UNCHANGED <<lock, cwd>>
        /\ Commit([ino EXCEPT ![s.ip].ent[Head(s.path)] = s.dp])

-----------------------------------------------------------------------------
(* sys_unlink() *)

Unlink(p) ==
  /\ Locked(p, "unlink") /\ st[p].dp = None
  /\ LET s == st[p]
         i == Lookup(s.ip, Head(s.path))
     IN \/ NoType(p)
        \/ Typed(p) /\ (Head(s.path) \in Dots \/ i = None) /\ Return(p)
        \/ /\ Typed(p) /\ Head(s.path) \notin Dots /\ i # None
           /\ lock' = [lock EXCEPT ![s.ip] = p]
           /\ Goto(p, [s EXCEPT !.pc = "remove", !.dp = s.ip, !.ip = i])
           /\ UNCHANGED <<ino, cwd>>

\* Faulty variant of Removable: directories need not be empty.
RemovableAny(i) == TRUE

Removable(i) == ino[i].type = "dir" => \A n \in Name : ino[i].ent[n] = None

\* Links that the directory loses with the entry of i
LostLinks(i) == IF ino[i].type = "dir" THEN 1 ELSE 0

\* The inode is locked too; the entry goes, then the links.
Remove(p) ==
  /\ Locked(p, "remove")
  /\ LET s == st[p] IN
     \/ NoType(p)
     \/ Typed(p) /\ ino[s.ip].nlink < 1 /\ Panic(p, "nlink")
     \/ /\ Typed(p) /\ ino[s.ip].nlink >= 1
        /\ lock' = [lock EXCEPT ![s.dp] = Nobody]
        /\ Goto(p, Idle) /\ UNCHANGED cwd
        /\ Commit(IF ~Removable(s.ip) THEN ino
                  ELSE [ino EXCEPT ![s.dp].ent[Head(s.path)] = None,
                                   ![s.dp].nlink = @ - LostLinks(s.ip),
                                   ![s.ip].nlink = @ - 1])

-----------------------------------------------------------------------------
Step(p) ==
  \/ Walk(p) \/ Open(p) \/ Chdir(p) \/ Exists(p) \/ Link(p) \/ LinkDir(p) \/ Unlink(p) \/ Remove(p)
  \/ \E op \in {"mkdir", "create", "mknod"} : Create(p, op)

Next == \E p \in Proc : Step(p) \/ \E c \in Calls : Start(p, c)

Spec == Init /\ [][Next]_vars

-----------------------------------------------------------------------------
(* Properties *)

Below(S) == S \cup ({ino[d].ent[n] : d \in {i \in S : ino[i].type = "dir"}, n \in Name} \ {None})
Within[k \in 0..NINODES] == IF k = 0 THEN {Root} ELSE Below(Within[k - 1])

\* The inodes that a path from the root leads to
Reachable == Within[NINODES]
Dirs(S) == {i \in S : ino[i].type = "dir"}
Entries(S, i) == {<<d, n>> \in Dirs(S) \X Name : ino[d].ent[n] = i}

\* Calls that have counted a link and not made its entry, or erased it.
Linking(i) == {p \in Proc : st[p].op = "link" /\ st[p].dp = i}

\* What can be reached is a tree of allocated inodes: a directory has one entry,
\* in the directory its ".." names, the root none, and no entry dangles.  To keep
\* it so, nlink is never below the number of names of an inode and of the ".."
\* entries that lead to it.
TreeShape ==
  /\ LET R == Reachable IN
       /\ \A i \in R : ino[i].type # "free"
       /\ \A i \in Dirs(R) :
            LET E == Entries(R, i) IN
              /\ ino[i].ent["."] = i
              /\ {e[1] : e \in E} = (IF i = Root THEN {} ELSE {ino[i].ent[".."]})
              /\ Cardinality(E) <= 1
  /\ \A i \in Inum :
       ino[i].nlink >= Cardinality(Entries(Inum, i)) + Cardinality(Linking(i))
                       + Cardinality({d \in Dirs(Inum) \ {Root} : ino[d].ent[".."] = i /\ Entries({i}, d) # {}})

\* A step takes at most one inode out of the tree, the one that is unlinked: a
\* directory that somebody fills meanwhile is not removed with its contents.
OneLost == [][Cardinality(Reachable \ Reachable') <= 1]_ino
=============================================================================
