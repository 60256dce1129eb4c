----------------------------- MODULE InodeProofs -----------------------------
(***************************************************************************)
(* An inductive invariant of Inode, for any number of processes, names,    *)
(* entries of the cache and inodes; and what follows from it: the counts   *)
(* of references and links are right, an inode has one entry that agrees   *)
(* with the disk, and the cache implements Files.                          *)
(***************************************************************************)
EXTENDS Inode, FiniteSetTheorems, TLAPS

Label == {"idle", "open", "opened", "ialloc", "iget", "create", "created", "link", "linkdir",
          "bad", "unlink", "erased", "unlinked", "iput", "ifree", "drop", "no inodes"}

\* Where a call holds the sleep-lock of its inode, has an inode, is in create(),
\* has changed one of nlink and the directory only, uses its inode.
Holding == {"opened", "created", "erased", "unlinked", "ifree"}
HasInode == Holding \cup {"open", "create", "link", "linkdir", "bad", "unlink", "iput", "drop"}
InCreate == {"ialloc", "iget", "create"}
HalfDone == {"linkdir", "bad", "erased", "unlinked"}
Using == {"open", "opened", "created", "link", "linkdir", "bad", "unlink", "erased",
          "unlinked", "iput"}

Types ==
  /\ dinode \in [Inum -> Dinode]
  /\ dir \in [Name -> Inum \cup {NoInum}]
  /\ dlock \in Proc \cup {Nobody}
  /\ inum \in [Slot -> Inum \cup {NoInum}]
  /\ ref \in [Slot -> Nat]
  /\ valid \in [Slot -> BOOLEAN]
  /\ inode \in [Slot -> Dinode]
  /\ lock \in [Slot -> Proc \cup {Nobody}]
  /\ pc \in [Proc -> Label]
  /\ ip \in [Proc -> Slot \cup {NoSlot}]
  /\ old \in [Proc -> Slot \cup {NoSlot}]
  /\ fd \in [Proc -> Slot \cup {NoSlot}]
  /\ name \in [Proc -> Name \cup {NoName}]
  /\ fresh \in [Proc -> Inum \cup {NoInum}]

\* The local variables of a call.
LocalsOf(p) ==
  /\ pc[p] \in HasInode => ip[p] \in Slot
  /\ pc[p] \notin HasInode => ip[p] = NoSlot
  /\ old[p] # NoSlot => pc[p] \in {"iput", "ifree", "drop", "no inodes"}
  /\ pc[p] \in InCreate \cup {"open", "opened", "created"} => fd[p] = NoSlot
  /\ pc[p] \in InCreate \cup {"unlink"} => name[p] \in Name
  /\ fresh[p] # NoInum <=> pc[p] = "iget"
  /\ fresh[p] # NoInum => fresh[p] \in Inum

\* A process holds a lock where the code holds it.
LocksOf(p) ==
  /\ \A s \in Slot : lock[s] = p <=> ip[p] = s /\ pc[p] \in Holding
  /\ pc[p] # "no inodes" =>
       (dlock = p <=> pc[p] \in InCreate \cup {"unlink"} \/ old[p] # NoSlot)

\* Entries with references, and their copies of allocated inodes.
Entries ==
  \A s \in Slot : ref[s] > 0 =>
    /\ inum[s] \in Inum
    /\ \A t \in Slot : Cached(t, inum[s]) => s = t
    /\ valid[s] => inode[s] = dinode[inum[s]] /\ inode[s].type = T_FILE

\* An inode that create() is about to name.
New(i) ==
  /\ dinode[i] = [Empty EXCEPT !.type = T_FILE]
  /\ \A s \in Slot : Cached(s, i) => ~valid[s]
  /\ \A q \in Proc : i \notin Uses(q)

\* What a call knows of the directory and of its inode.
KnowsOf(p) ==
  /\ pc[p] \in InCreate => dir[name[p]] = NoInum
  /\ pc[p] = "unlink" => dir[name[p]] = inum[ip[p]]
  /\ pc[p] = "iget" => New(fresh[p])
  /\ pc[p] = "create" => New(inum[ip[p]])
  /\ pc[p] = "ifree" => LastUse(ip[p])
  /\ pc[p] \in {"erased", "unlinked"} => valid[ip[p]]

Calls == \A p \in Proc : LocalsOf(p) /\ LocksOf(p) /\ KnowsOf(p)

\* Free inodes have no links; an inode in use is allocated.
Alloc ==
  /\ \A i \in Inum : dinode[i].type = FreeType => dinode[i].nlink = 0
  /\ \A p \in Proc : \A i \in Uses(p) : dinode[i].type = T_FILE

IInv == Types /\ Calls /\ RefsCounted /\ Entries /\ Alloc /\ LinksCounted

-----------------------------------------------------------------------------
(* Counting *)

\* Steps are for Zenon unless they name another prover.
USE Zenon

\* 1 or 0, as x is in A, as x is y.
Has(A, x) == IF x \in A THEN 1 ELSE 0
Is(x, y) == IF x = y THEN 1 ELSE 0

\* Two subsets of a finite set that differ at most in p.
Near(D, A, B, p) ==
  /\ IsFiniteSet(D) /\ A \in SUBSET D /\ B \in SUBSET D
  /\ \A q \in D : q # p => (q \in A <=> q \in B)

\* They differ in size by p alone.
LEMMA Toggle ==
  ASSUME NEW D, NEW A, NEW B, NEW p, Near(D, A, B, p)
  PROVE  /\ Cardinality(A) \in Nat /\ Cardinality(B) \in Nat
         /\ Cardinality(B) = Cardinality(A) + Has(B, p) - Has(A, p)
<1> USE DEF Near
<1>1. /\ IsFiniteSet(A) /\ IsFiniteSet(B)
      /\ Cardinality(A) \in Nat /\ Cardinality(B) \in Nat
  BY FS_Subset, FS_CardinalityType
<1>2. CASE p \in A /\ p \notin B
  <2>1. A = B \cup {p}
    BY <1>2
  <2>2. Cardinality(A) = Cardinality(B) + 1
    BY <1>1, <1>2, <2>1, FS_AddElement
  <2> QED BY <1>1, <1>2, <2>2, SMT DEF Has
<1>3. CASE p \notin A /\ p \in B
  <2>1. B = A \cup {p}
    BY <1>3
  <2>2. Cardinality(B) = Cardinality(A) + 1
    BY <1>1, <1>3, <2>1, FS_AddElement
  <2> QED BY <1>1, <1>3, <2>2, SMT DEF Has
<1>4. CASE p \in A <=> p \in B
  <2>1. A = B
    BY <1>4, SMT
  <2> QED BY <1>1, <1>4, <2>1, SMT DEF Has
<1> QED BY <1>2, <1>3, <1>4

\* The pointers of a process that make it a user of an inode.
Pointers(p) == {s \in Slot : s = fd[p] \/ s = old[p] \/ (s = ip[p] /\ pc[p] \in Using)}

\* A pointer of a process counts as a reference to an entry that has an inode; what
\* ilock() finds there is the inode on disk.
LEMMA HasRef ==
  ASSUME IInv, NEW p \in Proc, NEW s \in Slot, s = ip[p] \/ s = old[p] \/ s = fd[p]
  PROVE  /\ ref[s] \in Nat /\ ref[s] > 0
         /\ inum[s] \in Inum /\ dinode[inum[s]] \in Dinode
         /\ Loaded(s) = dinode[inum[s]]
<1> DEFINE A == {q \in Proc : ip[q] = s}
           B == {q \in Proc : old[q] = s}
           C == {q \in Proc : fd[q] = s}
<1>1. IsFiniteSet(A) /\ IsFiniteSet(B) /\ IsFiniteSet(C)
  <2>1. A \in SUBSET Proc /\ B \in SUBSET Proc /\ C \in SUBSET Proc
    OBVIOUS
  <2> QED BY <2>1, FS_Subset, InodeAssumption
<1>2. p \in A \/ p \in B \/ p \in C
  OBVIOUS
<1>3. ref[s] = Cardinality(A) + Cardinality(B) + Cardinality(C) /\ ref[s] \in Nat
  BY DEF IInv, RefsCounted, Types
<1> HIDE DEF A, B, C
<1>4. Cardinality(A) \in Nat /\ Cardinality(B) \in Nat /\ Cardinality(C) \in Nat
  BY <1>1, FS_CardinalityType
<1>5. Cardinality(A) # 0 \/ Cardinality(B) # 0 \/ Cardinality(C) # 0
  BY <1>1, <1>2, FS_EmptySet
<1>6. ref[s] \in Nat /\ ref[s] > 0
  BY <1>3, <1>4, <1>5, SMT
<1>7. inum[s] \in Inum
  BY <1>6 DEF IInv, Entries
<1>8. dinode[inum[s]] \in Dinode
  BY <1>7 DEF IInv, Types
<1>9. Loaded(s) = dinode[inum[s]]
  BY <1>6 DEF IInv, Entries, Loaded
<1> QED BY <1>6, <1>7, <1>8, <1>9

\* The only reference is the pointer of p.
LEMMA SoleUser ==
  ASSUME IInv, NEW p \in Proc, NEW s \in Slot, ip[p] = s, ref[s] = 1
  PROVE  \A q \in Proc : (ip[q] = s => q = p) /\ old[q] # s /\ fd[q] # s
<1> DEFINE A == {q \in Proc : ip[q] = s}
           B == {q \in Proc : old[q] = s}
           C == {q \in Proc : fd[q] = s}
<1>1. IsFiniteSet(A) /\ IsFiniteSet(B) /\ IsFiniteSet(C)
  <2>1. A \in SUBSET Proc /\ B \in SUBSET Proc /\ C \in SUBSET Proc
    OBVIOUS
  <2> QED BY <2>1, FS_Subset, InodeAssumption
<1>2. ref[s] = Cardinality(A) + Cardinality(B) + Cardinality(C)
  BY DEF IInv, RefsCounted
<1>3. p \in A
  OBVIOUS
<1>4. SUFFICES A \ {p} = {} /\ B = {} /\ C = {}
  BY <1>4
<1> HIDE DEF A, B, C
<1>5. /\ Cardinality(A) \in Nat /\ Cardinality(B) \in Nat /\ Cardinality(C) \in Nat
      /\ IsFiniteSet(A \ {p}) /\ Cardinality(A \ {p}) \in Nat
      /\ Cardinality(A \ {p}) = Cardinality(A) - 1
  BY <1>1, <1>3, FS_CardinalityType, FS_RemoveElement
<1>6. Cardinality(A \ {p}) = 0 /\ Cardinality(B) = 0 /\ Cardinality(C) = 0
  BY <1>2, <1>5, SMT
<1> QED BY <1>1, <1>5, <1>6, FS_EmptySet

-----------------------------------------------------------------------------
(* What a step of one process leaves to the others *)

\* A step of p changes local variables and locks of p only, and no entry of the
\* cache that has references is given to another inode.
Frame(p) ==
  /\ \A q \in Proc \ {p} :
       /\ pc'[q] = pc[q] /\ ip'[q] = ip[q] /\ old'[q] = old[q] /\ fd'[q] = fd[q]
       /\ name'[q] = name[q] /\ fresh'[q] = fresh[q]
       /\ dlock' = q <=> dlock = q
       /\ \A s \in Slot : lock'[s] = q <=> lock[s] = q
  /\ \A s \in Slot : ref[s] > 0 => inum'[s] = inum[s]

\* The uses of a process in terms of its pointers, and the same in the next state.
LEMMA UsesAre ==
  ASSUME Types, NEW p \in Proc, LocalsOf(p), NEW i
  PROVE  i \in Uses(p) <=> i \in Inum /\ \E s \in Pointers(p) : inum[s] = i
<1>1. Using \subseteq HasInode
  BY DEF Using, HasInode, Holding
<1>2. (fd[p] # NoSlot => fd[p] \in Slot) /\ (old[p] # NoSlot => old[p] \in Slot)
  BY DEF Types
<1>3. i \in Uses(p) <=> /\ i \in Inum
                        /\ \/ fd[p] # NoSlot /\ inum[fd[p]] = i
                           \/ old[p] # NoSlot /\ inum[old[p]] = i
                           \/ pc[p] \in Using /\ inum[ip[p]] = i
  BY DEF Uses, Working, Using
<1>4. pc[p] \in Using => ip[p] \in Slot
  BY <1>1 DEF LocalsOf
<1>5. \A s \in Slot : s # NoSlot
  BY InodeAssumption
<1>6. ASSUME i \in Uses(p) PROVE \E s \in Pointers(p) : inum[s] = i
  <2>1. CASE fd[p] # NoSlot /\ inum[fd[p]] = i
    BY <1>2, <2>1, SMT DEF Pointers
  <2>2. CASE old[p] # NoSlot /\ inum[old[p]] = i
    BY <1>2, <2>2, SMT DEF Pointers
  <2>3. CASE pc[p] \in Using /\ inum[ip[p]] = i
    BY <1>4, <2>3 DEF Pointers
  <2> QED BY <1>3, <1>6, <2>1, <2>2, <2>3
<1>7. ASSUME i \in Inum, NEW s \in Pointers(p), inum[s] = i PROVE i \in Uses(p)
  <2>1. s # NoSlot /\ (s = fd[p] \/ s = old[p] \/ (s = ip[p] /\ pc[p] \in Using))
    BY <1>5, <1>7 DEF Pointers
  <2> QED BY <1>3, <1>7, <2>1, SMT
<1> QED
  BY <1>3, <1>6, <1>7

\* The same in the next state.
LEMMA UsesAreNext ==
  ASSUME Types', NEW p \in Proc, LocalsOf(p)', NEW i
  PROVE  i \in Uses(p)' <=> i \in Inum /\ \E s \in Pointers(p)' : inum'[s] = i
<1>1. Using \subseteq HasInode
  BY DEF Using, HasInode, Holding
<1>2. (fd'[p] # NoSlot => fd'[p] \in Slot) /\ (old'[p] # NoSlot => old'[p] \in Slot)
  BY DEF Types
<1>3. i \in Uses(p)' <=> /\ i \in Inum
                         /\ \/ fd'[p] # NoSlot /\ inum'[fd'[p]] = i
                            \/ old'[p] # NoSlot /\ inum'[old'[p]] = i
                            \/ pc'[p] \in Using /\ inum'[ip'[p]] = i
  BY DEF Uses, Working, Using
<1>4. pc'[p] \in Using => ip'[p] \in Slot
  BY <1>1 DEF LocalsOf
<1>5. \A s \in Slot : s # NoSlot
  BY InodeAssumption
<1>6. ASSUME i \in Uses(p)' PROVE \E s \in Pointers(p)' : inum'[s] = i
  <2>1. CASE fd'[p] # NoSlot /\ inum'[fd'[p]] = i
    BY <1>2, <2>1, SMT DEF Pointers
  <2>2. CASE old'[p] # NoSlot /\ inum'[old'[p]] = i
    BY <1>2, <2>2, SMT DEF Pointers
  <2>3. CASE pc'[p] \in Using /\ inum'[ip'[p]] = i
    BY <1>4, <2>3 DEF Pointers
  <2> QED BY <1>3, <1>6, <2>1, <2>2, <2>3
<1>7. ASSUME i \in Inum, NEW s \in Pointers(p)', inum'[s] = i PROVE i \in Uses(p)'
  <2>1. s # NoSlot /\ (s = fd'[p] \/ s = old'[p] \/ (s = ip'[p] /\ pc'[p] \in Using))
    BY <1>5, <1>7 DEF Pointers
  <2> QED BY <1>3, <1>7, <2>1, SMT
<1> QED
  BY <1>3, <1>6, <1>7

\* The entries a process points to keep their inodes.
LEMMA PointersStay ==
  ASSUME IInv, NEW p \in Proc, Frame(p), NEW q \in Proc, NEW s \in Slot,
         s = ip[q] \/ s = old[q] \/ s = fd[q]
  PROVE  inum'[s] = inum[s] /\ inum[s] \in Inum
BY HasRef DEF Frame

\* A process uses no more than before when it has no more pointers.
LEMMA UsesShrink ==
  ASSUME IInv, Types', NEW p \in Proc, Frame(p), NEW q \in Proc, LocalsOf(q)'
  PROVE  /\ Pointers(q)' \subseteq Pointers(q) => Uses(q)' \subseteq Uses(q)
         /\ Pointers(q)' = Pointers(q) => Uses(q)' = Uses(q)
<1>1. Types /\ LocalsOf(q)
  BY DEF IInv, Calls
<1>2. \A s \in Pointers(q) : inum'[s] = inum[s]
  BY PointersStay DEF Pointers
<1>3. ASSUME Pointers(q)' \subseteq Pointers(q), NEW i \in Uses(q)' PROVE i \in Uses(q)
  BY <1>1, <1>2, <1>3, UsesAre, UsesAreNext, SMT
<1>4. ASSUME Pointers(q)' = Pointers(q), NEW i \in Uses(q) PROVE i \in Uses(q)'
  BY <1>1, <1>2, <1>4, UsesAre, UsesAreNext, SMT
<1>5. Pointers(q)' = Pointers(q) => Pointers(q)' \subseteq Pointers(q)
  OBVIOUS
<1> QED BY <1>3, <1>4, <1>5

\* The other processes use what they used.
LEMMA UsesFrame ==
  ASSUME IInv, Types', NEW p \in Proc, Frame(p), NEW q \in Proc, q # p
  PROVE  LocalsOf(q)' /\ Uses(q)' = Uses(q)
<1>1. LocalsOf(q)'
  <2>1. LocalsOf(q)
    BY DEF IInv, Calls
  <2>2. /\ pc'[q] = pc[q] /\ ip'[q] = ip[q] /\ old'[q] = old[q] /\ fd'[q] = fd[q]
        /\ name'[q] = name[q] /\ fresh'[q] = fresh[q]
    BY DEF Frame
  <2> QED BY <2>1, <2>2 DEF LocalsOf
<1>2. Pointers(q)' = Pointers(q)
  BY DEF Pointers, Frame
<1> QED BY <1>1, <1>2, UsesShrink

\* Memory that a step of p must leave alone for the sake of the other processes:
\* the directory without its lock; inodes that a create() has allocated, which p
\* does not use and which are not valid in the cache; entries of inodes without
\* links that p does not point to; the copies of the inodes that others have locked.
Gentle(p) ==
  /\ dir' = dir \/ dlock \in {p, Nobody}
  /\ \A i \in Inum : \/ dinode'[i] = dinode[i] \/ i \in Uses(p) \/ dlock = p
                     \/ \E s \in Slot : Cached(s, i) /\ valid[s]
  /\ \A s \in Slot : ref'[s] > 0 /\ valid'[s] =>
       /\ ref[s] > 0
       /\ valid[s] \/ inum[s] \in Uses(p) \/ dlock = p
  /\ \A i \in Uses(p)' : i \in Uses(p) \/ dinode[i].nlink # 0 \/ dlock = p
  /\ \A s \in Slot : \/ valid'[s] = valid[s] /\ inode'[s] = inode[s] /\ ref'[s] = ref[s]
                     \/ s = ip[p] \/ s = fd[p] \/ ref[s] = 0 \/ ~valid[s]
                     \/ dinode[inum[s]].nlink # 0
  /\ \A s \in Slot : valid[s] => valid'[s] \/ lock[s] = p \/ ref[s] = 0

\* Then what the others know stays true.
LEMMA KnowsFrame ==
  ASSUME IInv, Types', NEW p \in Proc, Frame(p), Gentle(p), NEW q \in Proc, q # p
  PROVE  LocalsOf(q)' /\ LocksOf(q)' /\ KnowsOf(q)'
<1>1. LocalsOf(q)'
  BY UsesFrame
<1>2. LocksOf(q)'
  <2>1. LocksOf(q)
    BY DEF IInv, Calls
  <2>2. /\ pc'[q] = pc[q] /\ ip'[q] = ip[q] /\ old'[q] = old[q]
        /\ dlock' = q <=> dlock = q
        /\ \A s \in Slot : lock'[s] = q <=> lock[s] = q
    BY DEF Frame
  <2> QED BY <2>1, <2>2 DEF LocksOf
<1>3. LocalsOf(q) /\ LocksOf(q) /\ KnowsOf(q)
  BY DEF IInv, Calls
<1>4. pc'[q] = pc[q] /\ ip'[q] = ip[q] /\ name'[q] = name[q] /\ fresh'[q] = fresh[q]
  BY DEF Frame
<1>5. ASSUME pc[q] \in InCreate \cup {"unlink"} PROVE dlock = q /\ dir' = dir
  <2>1. pc[q] # "no inodes"
    BY <1>5 DEF InCreate
  <2>2. dlock = q
    BY <1>3, <1>5, <2>1 DEF LocksOf
  <2> QED BY <2>2, InodeAssumption DEF Gentle
<1>6. ASSUME pc[q] \in HasInode
      PROVE  ip[q] \in Slot /\ inum'[ip[q]] = inum[ip[q]] /\ inum[ip[q]] \in Inum
  BY <1>3, <1>6, PointersStay DEF LocalsOf
<1>7. ASSUME NEW i \in Inum, New(i), dlock = q PROVE New(i)'
  <2>1. i \notin Uses(p) /\ dlock # p
    BY <1>7 DEF New
  <2>2. dinode'[i] = dinode[i]
    BY <1>7, <2>1 DEF Gentle, New
  <2>3. ASSUME NEW s \in Slot, Cached(s, i)', valid'[s] PROVE FALSE
    <3>1. ref[s] > 0 /\ (valid[s] \/ inum[s] \in Uses(p))
      BY <2>1, <2>3 DEF Gentle, Cached
    <3>2. inum[s] = i
      BY <3>1, <2>3 DEF Frame, Cached
    <3> QED BY <1>7, <2>1, <3>1, <3>2 DEF New, Cached
  <2>4. ASSUME NEW r \in Proc PROVE i \notin Uses(r)'
    <3>1. CASE r = p
      <4>1. dinode[i].nlink = 0
        BY <1>7 DEF New, Empty
      <4> QED BY <2>1, <3>1, <4>1 DEF Gentle
    <3>2. CASE r # p
      BY <1>7, <3>2, UsesFrame DEF New
    <3> QED BY <3>1, <3>2
  <2> QED BY <1>7, <2>2, <2>3, <2>4 DEF New
<1>8. ASSUME pc[q] = "ifree", LastUse(ip[q]) PROVE LastUse(ip[q])'
  <2> DEFINE s == ip[q]
  <2>1. pc[q] \in HasInode
    BY <1>8 DEF HasInode, Holding
  <2>2. s \in Slot /\ valid[s] /\ inode[s].nlink = 0 /\ ref[s] = 1
    BY <1>6, <1>8, <2>1 DEF LastUse
  <2>3. s # ip[p] /\ s # fd[p]
    BY <2>2, SoleUser
  <2>4. ref[s] > 0 /\ ref[s] # 0
    BY <2>2, SMT
  <2>5. dinode[inum[s]].nlink = 0
    BY <2>2, <2>4 DEF IInv, Entries
  <2>6. valid'[s] = valid[s] /\ inode'[s] = inode[s] /\ ref'[s] = ref[s]
    BY <2>2, <2>3, <2>4, <2>5 DEF Gentle
  <2> QED BY <1>4, <2>2, <2>6 DEF LastUse
<1>9. KnowsOf(q)'
  <2>1. (pc[q] \in InCreate => dir[name[q]] = NoInum)'
    BY <1>3, <1>4, <1>5 DEF KnowsOf
  <2>2. (pc[q] = "unlink" => dir[name[q]] = inum[ip[q]])'
    BY <1>3, <1>4, <1>5, <1>6 DEF KnowsOf, HasInode
  <2>3. (pc[q] = "iget" => New(fresh[q]))'
    BY <1>3, <1>4, <1>5, <1>7 DEF KnowsOf, LocalsOf, InCreate
  <2>4. (pc[q] = "create" => New(inum[ip[q]]))'
    BY <1>3, <1>4, <1>5, <1>6, <1>7 DEF KnowsOf, InCreate, HasInode
  <2>5. (pc[q] = "ifree" => LastUse(ip[q]))'
    BY <1>3, <1>4, <1>8 DEF KnowsOf
  <2>6. (pc[q] \in {"erased", "unlinked"} => valid[ip[q]])'
    <3> SUFFICES ASSUME pc[q] \in {"erased", "unlinked"} PROVE valid'[ip[q]]
      BY <1>4
    <3>1. pc[q] \in Holding /\ pc[q] \in HasInode
      BY DEF HasInode, Holding
    <3>2. ip[q] \in Slot /\ ref[ip[q]] \in Nat /\ ref[ip[q]] > 0
      BY <3>1, <1>6, HasRef
    <3>3. ref[ip[q]] # 0
      BY <3>2, SMT
    <3>4. lock[ip[q]] = q /\ valid[ip[q]]
      BY <1>3, <3>1, <3>2 DEF LocksOf, KnowsOf
    <3> QED BY <3>2, <3>3, <3>4 DEF Gentle
  <2> QED BY <2>1, <2>2, <2>3, <2>4, <2>5, <2>6 DEF KnowsOf
<1> QED BY <1>1, <1>2, <1>9

-----------------------------------------------------------------------------
(* The conjuncts of the invariant after a step of p *)

\* ref changes by the pointers that p takes and gives up.
Repointed(p) ==
  \A s \in Slot : ref'[s] = ref[s] + Is(ip'[p], s) - Is(ip[p], s)
                            + Is(old'[p], s) - Is(old[p], s) + Is(fd'[p], s) - Is(fd[p], s)

\* ip->ref follows the pointers of p.
LEMMA RefsStep ==
  ASSUME IInv, NEW p \in Proc, Frame(p), Repointed(p)
  PROVE  RefsCounted'
<1> SUFFICES ASSUME NEW s \in Slot
             PROVE  ref'[s] = Cardinality({q \in Proc : ip'[q] = s})
                              + Cardinality({q \in Proc : old'[q] = s})
                              + Cardinality({q \in Proc : fd'[q] = s})
  BY DEF RefsCounted
<1> DEFINE A == {q \in Proc : ip[q] = s}
           B == {q \in Proc : old[q] = s}
           C == {q \in Proc : fd[q] = s}
           AA == {q \in Proc : ip'[q] = s}
           BB == {q \in Proc : old'[q] = s}
           CC == {q \in Proc : fd'[q] = s}
<1>1. \A q \in Proc \ {p} : ip'[q] = ip[q] /\ old'[q] = old[q] /\ fd'[q] = fd[q]
  BY DEF Frame
<1>2. /\ A \in SUBSET Proc /\ AA \in SUBSET Proc /\ (p \in A <=> ip[p] = s) /\ (p \in AA <=> ip'[p] = s)
      /\ \A q \in Proc : q # p => (q \in A <=> q \in AA)
  BY <1>1
<1>3. /\ B \in SUBSET Proc /\ BB \in SUBSET Proc /\ (p \in B <=> old[p] = s) /\ (p \in BB <=> old'[p] = s)
      /\ \A q \in Proc : q # p => (q \in B <=> q \in BB)
  BY <1>1
<1>4. /\ C \in SUBSET Proc /\ CC \in SUBSET Proc /\ (p \in C <=> fd[p] = s) /\ (p \in CC <=> fd'[p] = s)
      /\ \A q \in Proc : q # p => (q \in C <=> q \in CC)
  BY <1>1
<1>5. ref[s] = Cardinality(A) + Cardinality(B) + Cardinality(C)
  BY DEF IInv, RefsCounted
<1>6. \A x, y : Is(x, y) \in Int
  BY SMT DEF Is
<1> HIDE DEF A, B, C, AA, BB, CC
<1>7. /\ Cardinality(A) \in Nat /\ Cardinality(AA) \in Nat
      /\ Cardinality(AA) = Cardinality(A) + Is(ip'[p], s) - Is(ip[p], s)
  <2>1. Near(Proc, A, AA, p)
    BY <1>2, InodeAssumption DEF Near
  <2>2. /\ Cardinality(A) \in Nat /\ Cardinality(AA) \in Nat
        /\ Cardinality(AA) = Cardinality(A) + Has(AA, p) - Has(A, p)
    BY <2>1, Toggle, SMT
  <2>3. Has(A, p) = Is(ip[p], s) /\ Has(AA, p) = Is(ip'[p], s)
    BY <1>2, SMT DEF Has, Is
  <2> QED BY <2>2, <2>3
<1>8. /\ Cardinality(B) \in Nat /\ Cardinality(BB) \in Nat
      /\ Cardinality(BB) = Cardinality(B) + Is(old'[p], s) - Is(old[p], s)
  <2>1. Near(Proc, B, BB, p)
    BY <1>3, InodeAssumption DEF Near
  <2>2. /\ Cardinality(B) \in Nat /\ Cardinality(BB) \in Nat
        /\ Cardinality(BB) = Cardinality(B) + Has(BB, p) - Has(B, p)
    BY <2>1, Toggle, SMT
  <2>3. Has(B, p) = Is(old[p], s) /\ Has(BB, p) = Is(old'[p], s)
    BY <1>3, SMT DEF Has, Is
  <2> QED BY <2>2, <2>3
<1>9. /\ Cardinality(C) \in Nat /\ Cardinality(CC) \in Nat
      /\ Cardinality(CC) = Cardinality(C) + Is(fd'[p], s) - Is(fd[p], s)
  <2>1. Near(Proc, C, CC, p)
    BY <1>4, InodeAssumption DEF Near
  <2>2. /\ Cardinality(C) \in Nat /\ Cardinality(CC) \in Nat
        /\ Cardinality(CC) = Cardinality(C) + Has(CC, p) - Has(C, p)
    BY <2>1, Toggle, SMT
  <2>3. Has(C, p) = Is(fd[p], s) /\ Has(CC, p) = Is(fd'[p], s)
    BY <1>4, SMT DEF Has, Is
  <2> QED BY <2>2, <2>3
<1>10. ref'[s] = Cardinality(AA) + Cardinality(BB) + Cardinality(CC)
  <2>1. ref'[s] = ref[s] + Is(ip'[p], s) - Is(ip[p], s)
                  + Is(old'[p], s) - Is(old[p], s) + Is(fd'[p], s) - Is(fd[p], s)
    BY DEF Repointed
  <2> QED BY <1>5, <1>6, <1>7, <1>8, <1>9, <2>1, SMT
<1> QED BY <1>10 DEF AA, BB, CC

\* The names of an inode, the calls that keep it while dirlink() fails, and what p
\* adds to the count of its links.
NamesOf(i) == {n \in Name : dir[n] = i}
Kept(i) == {p \in Proc : old[p] # NoSlot /\ inum[old[p]] = i}
Owes(p, i) == Has(Working(i, HalfDone), p) + Has(Kept(i), p)

\* The calls of the others owe what they owed.
LEMMA OwesFrame ==
  ASSUME IInv, Types', NEW p \in Proc, Frame(p), NEW i \in Inum
  PROVE  \A q \in Proc : q # p => /\ q \in Working(i, HalfDone) <=> q \in Working(i, HalfDone)'
                                  /\ q \in Kept(i) <=> q \in Kept(i)'
<1> SUFFICES ASSUME NEW q \in Proc, q # p
             PROVE  /\ q \in Working(i, HalfDone) <=> q \in Working(i, HalfDone)'
                    /\ q \in Kept(i) <=> q \in Kept(i)'
  OBVIOUS
<1>1. pc'[q] = pc[q] /\ ip'[q] = ip[q] /\ old'[q] = old[q]
  BY DEF Frame
<1>2. pc[q] \in HalfDone => inum'[ip[q]] = inum[ip[q]]
  <2>1. pc[q] \in HalfDone => ip[q] \in Slot
    BY DEF IInv, Calls, LocalsOf, HalfDone, HasInode, Holding
  <2> QED BY <2>1, PointersStay
<1>3. old[q] # NoSlot => inum'[old[q]] = inum[old[q]]
  <2>1. old[q] # NoSlot => old[q] \in Slot
    BY DEF IInv, Types
  <2> QED BY <2>1, PointersStay
<1> QED BY <1>1, <1>2, <1>3 DEF Working, Kept

\* A step of p that touches at most the name m, and changes nlink by the names and
\* debts it makes.
Relinked(p, m) ==
  /\ \A n \in Name \ {m} : dir'[n] = dir[n]
  /\ \A i \in Inum : dinode'[i].nlink = dinode[i].nlink + Has(NamesOf(i)', m) - Has(NamesOf(i), m)
                                        + Owes(p, i)' - Owes(p, i)
  /\ \A n \in Name : dir'[n] # NoInum => dinode'[dir'[n]].type # FreeType

\* nlink follows the directory and what p owes.
LEMMA LinksStep ==
  ASSUME IInv, Types', NEW p \in Proc, Frame(p), NEW m, Relinked(p, m)
  PROVE  LinksCounted'
<1>1. ASSUME NEW i \in Inum
      PROVE  dinode'[i].nlink = Cardinality(NamesOf(i)') + Cardinality(Working(i, HalfDone)')
                                + Cardinality(Kept(i)')
  <2> DEFINE A == NamesOf(i)
             B == Working(i, HalfDone)
             C == Kept(i)
             AA == NamesOf(i)'
             BB == Working(i, HalfDone)'
             CC == Kept(i)'
  <2>1. dinode[i].nlink = Cardinality(A) + Cardinality(B) + Cardinality(C)
    BY DEF IInv, LinksCounted, NamesOf, Kept, HalfDone
  <2>2. /\ A \in SUBSET Name /\ AA \in SUBSET Name
        /\ \A n \in Name : n # m => (n \in A <=> n \in AA)
    BY DEF NamesOf, Relinked
  <2>3. /\ B \in SUBSET Proc /\ BB \in SUBSET Proc /\ C \in SUBSET Proc /\ CC \in SUBSET Proc
    BY DEF Working, Kept
  <2>4. /\ \A q \in Proc : q # p => (q \in B <=> q \in BB)
        /\ \A q \in Proc : q # p => (q \in C <=> q \in CC)
    BY OwesFrame
  <2>5. dinode'[i].nlink = dinode[i].nlink + Has(AA, m) - Has(A, m) + (Has(BB, p) + Has(CC, p))
                           - (Has(B, p) + Has(C, p))
    <3>1. dinode'[i].nlink = dinode[i].nlink + Has(NamesOf(i)', m) - Has(NamesOf(i), m)
                             + Owes(p, i)' - Owes(p, i)
      BY DEF Relinked
    <3> QED BY <3>1 DEF Owes, Has
  <2> HIDE DEF A, B, C, AA, BB, CC
  <2>6. /\ Cardinality(A) \in Nat /\ Cardinality(AA) \in Nat
        /\ Cardinality(AA) = Cardinality(A) + Has(AA, m) - Has(A, m)
    <3>1. Near(Name, A, AA, m)
      BY <2>2, InodeAssumption DEF Near
    <3> QED BY <3>1, Toggle, SMT
  <2>7. /\ Cardinality(B) \in Nat /\ Cardinality(BB) \in Nat
        /\ Cardinality(BB) = Cardinality(B) + Has(BB, p) - Has(B, p)
    <3>1. Near(Proc, B, BB, p)
      BY <2>3, <2>4, InodeAssumption DEF Near
    <3> QED BY <3>1, Toggle, SMT
  <2>8. /\ Cardinality(C) \in Nat /\ Cardinality(CC) \in Nat
        /\ Cardinality(CC) = Cardinality(C) + Has(CC, p) - Has(C, p)
    <3>1. Near(Proc, C, CC, p)
      BY <2>3, <2>4, InodeAssumption DEF Near
    <3> QED BY <3>1, Toggle, SMT
  <2>9. \A S, x : Has(S, x) \in Int
    BY SMT DEF Has
  <2>10. dinode'[i].nlink = Cardinality(AA) + Cardinality(BB) + Cardinality(CC)
    BY <2>1, <2>5, <2>6, <2>7, <2>8, <2>9, SMT
  <2> QED BY <2>10 DEF AA, BB, CC
<1>2. \A q \in Proc : pc'[q] # "panic"
  BY DEF Types, Label
<1>3. \A n \in Name : dir'[n] # NoInum => dinode'[dir'[n]].type # FreeType
  BY DEF Relinked
<1> QED BY <1>1, <1>2, <1>3 DEF LinksCounted, NamesOf, Kept, HalfDone

\* Inodes in use stay allocated.
LEMMA AllocStep ==
  ASSUME IInv, Types', NEW p \in Proc, Frame(p),
         \A i \in Inum : dinode[i].type = T_FILE => dinode'[i].type = T_FILE,
         \A i \in Inum : dinode'[i].type = FreeType => dinode'[i].nlink = 0,
         \A i \in Uses(p)' : dinode'[i].type = T_FILE
  PROVE  Alloc'
<1>1. ASSUME NEW q \in Proc, q # p, NEW i \in Uses(q)' PROVE dinode'[i].type = T_FILE
  <2>1. i \in Uses(q)
    BY <1>1, UsesFrame
  <2>2. i \in Inum
    BY <2>1 DEF Uses
  <2> QED BY <2>1, <2>2 DEF IInv, Alloc
<1> QED BY <1>1 DEF Alloc

\* The parts of the invariant after a step of p.
LEMMA Together ==
  ASSUME IInv, Types', NEW p \in Proc, Frame(p), Gentle(p),
         LocalsOf(p)', LocksOf(p)', KnowsOf(p)',
         RefsCounted', Entries', Alloc', LinksCounted'
  PROVE  IInv'
<1>1. Calls'
  BY KnowsFrame DEF Calls
<1> QED BY <1>1 DEF IInv

-----------------------------------------------------------------------------
(* The steps *)

\* The inode that a call works on.
LEMMA Here ==
  ASSUME IInv, NEW p \in Proc, pc[p] \in HasInode
  PROVE  /\ ip[p] \in Slot /\ ref[ip[p]] \in Nat /\ ref[ip[p]] > 0
         /\ inum[ip[p]] \in Inum /\ dinode[inum[ip[p]]] \in Dinode
         /\ Loaded(ip[p]) = dinode[inum[ip[p]]]
         /\ pc[p] \in Using => /\ inum[ip[p]] \in Uses(p) /\ ~NoType(ip[p])
                               /\ dinode[inum[ip[p]]].type = T_FILE
         /\ pc[p] = "create" => /\ dinode[inum[ip[p]]] = [Empty EXCEPT !.type = T_FILE]
                                /\ ~NoType(ip[p])
<1>1. ip[p] \in Slot
  BY DEF IInv, Calls, LocalsOf
<1>2. /\ ref[ip[p]] \in Nat /\ ref[ip[p]] > 0
      /\ inum[ip[p]] \in Inum /\ dinode[inum[ip[p]]] \in Dinode
      /\ Loaded(ip[p]) = dinode[inum[ip[p]]]
  BY <1>1, HasRef
<1>3. T_FILE # FreeType
  BY SMT DEF T_FILE, FreeType
<1>4. ASSUME pc[p] \in Using
      PROVE  inum[ip[p]] \in Uses(p) /\ ~NoType(ip[p]) /\ dinode[inum[ip[p]]].type = T_FILE
  <2>1. inum[ip[p]] \in Uses(p)
    BY <1>2, <1>4 DEF Uses, Working, Using
  <2>2. dinode[inum[ip[p]]].type = T_FILE
    BY <2>1 DEF IInv, Alloc
  <2> QED BY <1>3, <2>1, <2>2 DEF NoType
<1>5. ASSUME pc[p] = "create"
      PROVE  dinode[inum[ip[p]]] = [Empty EXCEPT !.type = T_FILE] /\ ~NoType(ip[p])
  <2>1. dinode[inum[ip[p]]] = [Empty EXCEPT !.type = T_FILE]
    BY <1>5 DEF IInv, Calls, KnowsOf, New
  <2>2. dinode[inum[ip[p]]].type = T_FILE
    BY <2>1, SMT DEF Empty
  <2> QED BY <1>3, <2>1, <2>2 DEF NoType
<1> QED BY <1>1, <1>2, <1>4, <1>5

\* p owes the same links.
LEMMA OwesSame ==
  ASSUME IInv, NEW p \in Proc, Frame(p), old'[p] = old[p],
         pc'[p] \in HalfDone <=> pc[p] \in HalfDone,
         pc[p] \in HalfDone => ip'[p] = ip[p],
         NEW i \in Inum
  PROVE  Owes(p, i)' = Owes(p, i)
<1>1. pc[p] \in HalfDone => inum'[ip[p]] = inum[ip[p]]
  <2>1. pc[p] \in HalfDone => ip[p] \in Slot
    BY DEF IInv, Calls, LocalsOf, HalfDone, HasInode, Holding
  <2> QED BY <2>1, PointersStay
<1>2. old[p] # NoSlot => inum'[old[p]] = inum[old[p]]
  <2>1. old[p] # NoSlot => old[p] \in Slot
    BY DEF IInv, Types
  <2> QED BY <2>1, PointersStay
<1>3. p \in Working(i, HalfDone)' <=> p \in Working(i, HalfDone)
  BY <1>1 DEF Working
<1>4. p \in Kept(i)' <=> p \in Kept(i)
  BY <1>2 DEF Kept
<1> QED BY <1>3, <1>4, SMT DEF Owes, Has

\* acquiresleep() and releasesleep() by p.
LEMMA LockTaken ==
  ASSUME IInv, NEW p \in Proc, NEW s \in Slot, lock[s] = Nobody,
         lock' = [lock EXCEPT ![s] = p]
  PROVE  /\ \A q \in Proc \ {p} : \A t \in Slot : lock'[t] = q <=> lock[t] = q
         /\ \A t \in Slot : lock'[t] = p <=> t = s \/ lock[t] = p
         /\ lock' \in [Slot -> Proc \cup {Nobody}]
<1>1. lock \in [Slot -> Proc \cup {Nobody}]
  BY DEF IInv, Types
<1>2. lock'[s] = p /\ \A t \in Slot \ {s} : lock'[t] = lock[t]
  BY <1>1
<1>3. lock' \in [Slot -> Proc \cup {Nobody}]
  BY <1>1
<1> QED BY <1>2, <1>3, InodeAssumption

\* releasesleep().
LEMMA LockGiven ==
  ASSUME IInv, NEW p \in Proc, NEW s \in Slot, lock[s] = p,
         lock' = [lock EXCEPT ![s] = Nobody]
  PROVE  /\ \A q \in Proc \ {p} : \A t \in Slot : lock'[t] = q <=> lock[t] = q
         /\ \A t \in Slot : lock'[t] = p <=> t # s /\ lock[t] = p
         /\ lock' \in [Slot -> Proc \cup {Nobody}]
<1>1. lock \in [Slot -> Proc \cup {Nobody}]
  BY DEF IInv, Types
<1>2. lock'[s] = Nobody /\ \A t \in Slot \ {s} : lock'[t] = lock[t]
  BY <1>1
<1>3. lock' \in [Slot -> Proc \cup {Nobody}]
  BY <1>1
<1> QED BY <1>2, <1>3, InodeAssumption

\* A step that leaves the cache, the disk and the pointers as they are.
LEMMA QuietKeeps ==
  ASSUME IInv, Types', NEW p \in Proc, Frame(p), LocalsOf(p)', LocksOf(p)', KnowsOf(p)',
         UNCHANGED <<dinode, dir, inum, ref, valid, inode>>,
         Pointers(p)' \subseteq Pointers(p),
         \A s \in Slot : Is(ip'[p], s) + Is(old'[p], s) + Is(fd'[p], s)
                         = Is(ip[p], s) + Is(old[p], s) + Is(fd[p], s),
         \A i \in Inum : Owes(p, i)' = Owes(p, i)
  PROVE  IInv'
<1>1. Uses(p)' \subseteq Uses(p)
  BY UsesShrink
<1>2. Gentle(p)
  BY <1>1 DEF Gentle
<1>3. RefsCounted'
  <2>1. \A x, y : Is(x, y) \in Int
    BY SMT DEF Is
  <2>2. \A s \in Slot : ref[s] \in Int
    BY SMT DEF IInv, Types
  <2>3. ASSUME NEW s \in Slot
        PROVE  ref'[s] = ref[s] + Is(ip'[p], s) - Is(ip[p], s)
                         + Is(old'[p], s) - Is(old[p], s) + Is(fd'[p], s) - Is(fd[p], s)
    BY <2>1, <2>2, SMT
  <2>4. Repointed(p)
    BY <2>3 DEF Repointed
  <2> QED BY <2>4, RefsStep
<1>4. Entries'
  BY DEF IInv, Entries, Cached
<1>5. Alloc'
  <2>1. \A i \in Uses(p)' : dinode[i].type = T_FILE
    BY <1>1 DEF IInv, Alloc
  <2> QED BY <2>1, AllocStep DEF IInv, Alloc
<1>6. LinksCounted'
  <2>1. ASSUME NEW i \in Inum
        PROVE  dinode'[i].nlink = dinode[i].nlink + Has(NamesOf(i)', p) - Has(NamesOf(i), p)
                                  + Owes(p, i)' - Owes(p, i)
    <3>1. NamesOf(i)' = NamesOf(i)
      BY DEF NamesOf
    <3>2. dinode[i].nlink \in Int
      BY SMT DEF IInv, Types, Dinode
    <3>3. Has(NamesOf(i), p) \in Int /\ Owes(p, i) \in Int
      BY SMT DEF Has, Owes
    <3> QED BY <3>1, <3>2, <3>3, SMT
  <2>2. \A n \in Name : dir'[n] # NoInum => dinode'[dir'[n]].type # FreeType
    BY DEF IInv, LinksCounted
  <2>3. Relinked(p, p)
    BY <2>1, <2>2 DEF Relinked
  <2> QED BY <2>3, LinksStep
<1> QED BY <1>2, <1>3, <1>4, <1>5, <1>6, Together

\* create() up to ialloc(): dirlookup() has not found the name.
LEMMA CreateKeeps ==
  ASSUME IInv, NEW p \in Proc, NEW n \in Name, Create(p, n)
  PROVE  IInv' /\ Frame(p)
<1> USE DEF diskVars, cacheVars
<1>1. /\ pc[p] = "idle" /\ pc' = [pc EXCEPT ![p] = "ialloc"] /\ fd[p] = NoSlot /\ dir[n] = NoInum
      /\ dlock = Nobody /\ dlock' = p /\ name' = [name EXCEPT ![p] = n]
      /\ UNCHANGED <<dinode, dir, inum, ref, valid, inode, lock, ip, fd, old, fresh>>
  BY DEF Create, At, Goto, Dirlookup
<1>2. Types /\ LocalsOf(p) /\ LocksOf(p)
  BY DEF IInv, Calls
<1>3. Types'
  BY <1>1, <1>2 DEF Types, Label
<1>4. pc'[p] = "ialloc" /\ name'[p] = n
  BY <1>1, <1>2 DEF Types
<1>5. Frame(p)
  BY <1>1, <1>2, InodeAssumption DEF Frame, Types
<1>6. LocalsOf(p)'
  BY <1>1, <1>2, <1>4 DEF LocalsOf, HasInode, Holding, InCreate
<1>7. LocksOf(p)'
  BY <1>1, <1>2, <1>4 DEF LocksOf, Holding, InCreate
<1>8. KnowsOf(p)'
  BY <1>1, <1>4 DEF KnowsOf, InCreate
<1>9. Pointers(p)' \subseteq Pointers(p)
  BY <1>1, <1>4 DEF Pointers, Using
<1>10. \A i \in Inum : Owes(p, i)' = Owes(p, i)
  BY <1>1, <1>4, <1>5, OwesSame DEF HalfDone
<1> QED BY <1>1, <1>3, <1>5, <1>6, <1>7, <1>8, <1>9, <1>10, QuietKeeps

\* CreatePut and UnlinkPut.
LEMMA DirPutKeeps ==
  ASSUME IInv, NEW p \in Proc, CreatePut(p) \/ UnlinkPut(p)
  PROVE  IInv' /\ Frame(p)
<1> USE DEF diskVars, cacheVars
<1>1. /\ \/ pc[p] = "created" /\ pc' = [pc EXCEPT ![p] = "opened"]
         \/ pc[p] = "erased" /\ pc' = [pc EXCEPT ![p] = "unlinked"]
      /\ UNCHANGED <<dinode, dir, dlock, inum, ref, valid, inode, lock, ip, fd, old, name, fresh>>
  BY DEF CreatePut, UnlinkPut, At, Goto
<1>2. Types /\ LocalsOf(p) /\ LocksOf(p) /\ KnowsOf(p)
  BY DEF IInv, Calls
<1>3. Types'
  BY <1>1, <1>2 DEF Types, Label
<1>4. \/ pc[p] = "created" /\ pc'[p] = "opened"
      \/ pc[p] = "erased" /\ pc'[p] = "unlinked"
  BY <1>1, <1>2 DEF Types
<1>5. Frame(p)
  BY <1>1, <1>2 DEF Frame, Types
<1>6. LocalsOf(p)'
  BY <1>1, <1>2, <1>4 DEF LocalsOf, HasInode, Holding, InCreate
<1>7. LocksOf(p)'
  BY <1>1, <1>2, <1>4 DEF LocksOf, Holding, InCreate
<1>8. KnowsOf(p)'
  BY <1>1, <1>2, <1>4 DEF KnowsOf, InCreate
<1>9. Pointers(p)' \subseteq Pointers(p)
  BY <1>1, <1>4 DEF Pointers, Using
<1>10. \A i \in Inum : Owes(p, i)' = Owes(p, i)
  BY <1>1, <1>4, <1>5, OwesSame DEF HalfDone
<1> QED BY <1>1, <1>3, <1>5, <1>6, <1>7, <1>8, <1>9, <1>10, QuietKeeps

\* sys_close() of the file: iput() follows.
LEMMA CloseKeeps ==
  ASSUME IInv, NEW p \in Proc, Close(p)
  PROVE  IInv' /\ Frame(p)
<1> USE DEF diskVars, cacheVars
<1>1. /\ pc[p] = "idle" /\ pc' = [pc EXCEPT ![p] = "iput"] /\ fd[p] # NoSlot
      /\ ip' = [ip EXCEPT ![p] = fd[p]] /\ fd' = [fd EXCEPT ![p] = NoSlot]
      /\ UNCHANGED <<dinode, dir, dlock, inum, ref, valid, inode, lock, old, name, fresh>>
  BY DEF Close, At, Goto
<1>2. Types /\ LocalsOf(p) /\ LocksOf(p)
  BY DEF IInv, Calls
<1>3. Types'
  BY <1>1, <1>2 DEF Types, Label
<1>4. pc'[p] = "iput" /\ ip'[p] = fd[p] /\ fd'[p] = NoSlot /\ fd[p] \in Slot /\ ip[p] = NoSlot
      /\ old[p] = NoSlot
  BY <1>1, <1>2 DEF Types, LocalsOf, HasInode, Holding
<1>5. Frame(p)
  BY <1>1, <1>2 DEF Frame, Types
<1>6. LocalsOf(p)'
  BY <1>1, <1>2, <1>4 DEF LocalsOf, HasInode, Holding, InCreate
<1>7. LocksOf(p)'
  BY <1>1, <1>2, <1>4 DEF LocksOf, Holding, InCreate
<1>8. KnowsOf(p)'
  BY <1>1, <1>4 DEF KnowsOf, InCreate
<1>9. Pointers(p)' \subseteq Pointers(p)
  BY <1>1, <1>4, InodeAssumption DEF Pointers
<1>10. \A i \in Inum : Owes(p, i)' = Owes(p, i)
  BY <1>1, <1>4, <1>5, OwesSame DEF HalfDone
<1>11. \A s \in Slot : Is(ip'[p], s) + Is(old'[p], s) + Is(fd'[p], s)
                       = Is(ip[p], s) + Is(old[p], s) + Is(fd[p], s)
  BY <1>1, <1>4, InodeAssumption, SMT DEF Is
<1> QED BY <1>1, <1>3, <1>5, <1>6, <1>7, <1>8, <1>9, <1>10, <1>11, QuietKeeps

\* sys_open() has its descriptor.
LEMMA OpenDoneKeeps ==
  ASSUME IInv, NEW p \in Proc, OpenDone(p)
  PROVE  IInv' /\ Frame(p)
<1> USE DEF diskVars, cacheVars
<1>1. /\ pc[p] = "opened" /\ lock' = [lock EXCEPT ![ip[p]] = Nobody]
      /\ \/ fd' = [fd EXCEPT ![p] = ip[p]] /\ ip' = [ip EXCEPT ![p] = NoSlot]
            /\ pc' = [pc EXCEPT ![p] = "idle"]
         \/ fd' = fd /\ ip' = ip /\ pc' = [pc EXCEPT ![p] = "iput"]
      /\ UNCHANGED <<dinode, dir, dlock, inum, ref, valid, inode, old, name, fresh>>
  BY DEF OpenDone, At, Goto
<1>2. Types /\ LocalsOf(p) /\ LocksOf(p)
  BY DEF IInv, Calls
<1>3. ip[p] \in Slot /\ fd[p] = NoSlot /\ lock[ip[p]] = p /\ old[p] = NoSlot
  BY <1>1, <1>2 DEF LocalsOf, LocksOf, HasInode, Holding
<1>l. /\ \A q \in Proc \ {p} : \A s \in Slot : lock'[s] = q <=> lock[s] = q
      /\ \A s \in Slot : lock'[s] = p <=> s # ip[p] /\ lock[s] = p
      /\ lock' \in [Slot -> Proc \cup {Nobody}]
  BY <1>1, <1>3, LockGiven
<1>4. Types'
  <2>1. ip' \in [Proc -> Slot \cup {NoSlot}] /\ fd' \in [Proc -> Slot \cup {NoSlot}]
        /\ pc' \in [Proc -> Label]
    BY <1>1, <1>2, <1>3 DEF Types, Label
  <2> QED BY <1>1, <1>2, <1>l, <2>1 DEF Types
<1>5. \/ pc'[p] = "idle" /\ fd'[p] = ip[p] /\ ip'[p] = NoSlot
      \/ pc'[p] = "iput" /\ fd'[p] = NoSlot /\ ip'[p] = ip[p]
  BY <1>1, <1>2, <1>3 DEF Types
<1>6. Frame(p)
  <2>1. \A q \in Proc \ {p} : pc'[q] = pc[q] /\ ip'[q] = ip[q] /\ fd'[q] = fd[q]
    BY <1>1, <1>2 DEF Types
  <2> QED BY <1>1, <1>l, <2>1 DEF Frame
<1>7. LocalsOf(p)'
  BY <1>1, <1>2, <1>3, <1>5 DEF LocalsOf, HasInode, Holding, InCreate
<1>8. LocksOf(p)'
  <2>1. \A s \in Slot : lock'[s] # p
    BY <1>2, <1>l DEF LocksOf
  <2> QED BY <1>1, <1>2, <1>3, <1>5, <2>1 DEF LocksOf, Holding, InCreate
<1>9. KnowsOf(p)'
  BY <1>5 DEF KnowsOf, InCreate
<1>10. Pointers(p)' \subseteq Pointers(p)
  BY <1>1, <1>3, <1>5, InodeAssumption DEF Pointers, Using
<1>11. \A i \in Inum : Owes(p, i)' = Owes(p, i)
  BY <1>1, <1>5, <1>6, OwesSame DEF HalfDone
<1>12. \A s \in Slot : Is(ip'[p], s) + Is(old'[p], s) + Is(fd'[p], s)
                       = Is(ip[p], s) + Is(old[p], s) + Is(fd[p], s)
  BY <1>1, <1>3, <1>5, InodeAssumption, SMT DEF Is
<1> QED BY <1>1, <1>4, <1>6, <1>7, <1>8, <1>9, <1>10, <1>11, <1>12, QuietKeeps

\* The test of iput(), with the lock of the inode: it is freed, or only dropped.
LEMMA IputCheckKeeps ==
  ASSUME IInv, NEW p \in Proc, IputCheck(p)
  PROVE  IInv' /\ Frame(p)
<1> USE DEF diskVars, cacheVars
<1>1. /\ pc[p] = "iput" /\ lock[ip[p]] = Nobody
      /\ \/ LastUse(ip[p]) /\ lock' = [lock EXCEPT ![ip[p]] = p] /\ pc' = [pc EXCEPT ![p] = "ifree"]
         \/ lock' = lock /\ pc' = [pc EXCEPT ![p] = "drop"]
      /\ UNCHANGED <<dinode, dir, dlock, inum, ref, valid, inode, ip, fd, old, name, fresh>>
  BY DEF IputCheck, At, Goto
<1>2. Types /\ LocalsOf(p) /\ LocksOf(p)
  BY DEF IInv, Calls
<1>3. ip[p] \in Slot
  BY <1>1, <1>2 DEF LocalsOf, HasInode, Holding
<1>l. /\ \A q \in Proc \ {p} : \A s \in Slot : lock'[s] = q <=> lock[s] = q
      /\ lock' \in [Slot -> Proc \cup {Nobody}]
  BY <1>1, <1>2, <1>3, LockTaken DEF Types
<1>4. Types'
  <2>1. "ifree" \in Label /\ "drop" \in Label
    BY DEF Label
  <2>2. pc' \in [Proc -> Label]
    BY <1>1, <1>2, <2>1 DEF Types
  <2> QED BY <1>1, <1>2, <1>l, <2>2 DEF Types
<1>5. \/ pc'[p] = "ifree" /\ LastUse(ip[p]) /\ lock' = [lock EXCEPT ![ip[p]] = p]
      \/ pc'[p] = "drop" /\ lock' = lock
  BY <1>1, <1>2 DEF Types
<1>6. Frame(p)
  <2>1. \A q \in Proc \ {p} : pc'[q] = pc[q]
    BY <1>1, <1>2 DEF Types
  <2> QED BY <1>1, <1>l, <2>1 DEF Frame
<1>7. LocalsOf(p)'
  BY <1>1, <1>2, <1>3, <1>5 DEF LocalsOf, HasInode, Holding, InCreate
<1>8. LocksOf(p)'
  <2>1. \A s \in Slot : lock'[s] = p <=> ip[p] = s /\ pc'[p] \in Holding
    <3>1. CASE pc'[p] = "ifree" /\ lock' = [lock EXCEPT ![ip[p]] = p]
      <4>1. \A s \in Slot : lock'[s] = p <=> s = ip[p] \/ lock[s] = p
        BY <1>2, <1>3, <3>1 DEF Types
      <4>2. \A s \in Slot : lock[s] # p
        BY <1>1, <1>2 DEF LocksOf, Holding
      <4> QED BY <3>1, <4>1, <4>2 DEF Holding
    <3>2. CASE pc'[p] = "drop" /\ lock' = lock
      BY <1>1, <1>2, <3>2 DEF LocksOf, Holding
    <3> QED BY <1>5, <3>1, <3>2
  <2> QED BY <1>1, <1>2, <1>5, <2>1 DEF LocksOf, InCreate
<1>9. KnowsOf(p)'
  BY <1>1, <1>5 DEF KnowsOf, InCreate, LastUse
<1>10. Pointers(p)' \subseteq Pointers(p)
  BY <1>1, <1>5 DEF Pointers, Using
<1>11. \A i \in Inum : Owes(p, i)' = Owes(p, i)
  BY <1>1, <1>5, <1>6, OwesSame DEF HalfDone
<1> QED BY <1>1, <1>4, <1>6, <1>7, <1>8, <1>9, <1>10, <1>11, QuietKeeps

-----------------------------------------------------------------------------
(* Steps that write an inode *)

\* The fields of a disk inode after an assignment to one of them.
LEMMA Fields ==
  ASSUME NEW d \in Dinode
  PROVE  /\ d.type \in {FreeType, T_FILE} /\ d.nlink \in Int /\ d.data \in Val
         /\ \A k \in Int : LET e == [d EXCEPT !.nlink = k]
                           IN  e \in Dinode /\ e.type = d.type /\ e.nlink = k /\ e.data = d.data
         /\ \A v \in Val : LET e == [d EXCEPT !.data = v]
                           IN  e \in Dinode /\ e.type = d.type /\ e.nlink = d.nlink /\ e.data = v
         /\ LET e == [[d EXCEPT !.data = Zero] EXCEPT !.type = FreeType]
            IN  e \in Dinode /\ e.type = FreeType /\ e.nlink = d.nlink
BY InodeAssumption DEF Dinode

\* nlink assigned, and the inode that iput() frees.
LEMMA SetNlink ==
  ASSUME NEW d \in Dinode, NEW k \in Int
  PROVE  LET e == [d EXCEPT !.nlink = k]
         IN  e \in Dinode /\ e.type = d.type /\ e.nlink = k /\ e.data = d.data
BY Fields

\* itrunc() and ip->type = 0 in iput().
LEMMA FreeFields ==
  ASSUME NEW d \in Dinode
  PROVE  LET e == [[d EXCEPT !.data = Zero] EXCEPT !.type = FreeType]
         IN  e \in Dinode /\ e.type = FreeType /\ e.nlink = d.nlink
BY Fields

\* nlink and what a call owes it are numbers.
LEMMA Numbers ==
  ASSUME Types, NEW p, NEW i \in Inum
  PROVE  dinode[i].nlink \in Int /\ Owes(p, i) \in Int /\ Owes(p, i)' \in Int
<1>1. dinode[i] \in Dinode
  BY DEF Types
<1>2. dinode[i].nlink \in Int
  BY <1>1, Fields
<1>3. Owes(p, i) \in Int /\ Owes(p, i)' \in Int
  BY SMT DEF Owes, Has
<1> QED BY <1>2, <1>3

\* What ialloc() writes.
LEMMA NewFields ==
  LET e == [Empty EXCEPT !.type = T_FILE]
  IN  e \in Dinode /\ e.type = T_FILE /\ e.nlink = 0 /\ e.data = Zero
BY InodeAssumption, SMT DEF Dinode, Empty

\* A name leads to an allocated inode with links.
LEMMA Named ==
  ASSUME IInv, NEW n \in Name, dir[n] # NoInum
  PROVE  /\ dir[n] \in Inum /\ dinode[dir[n]].nlink \in Int /\ dinode[dir[n]].nlink > 0
         /\ dinode[dir[n]].type = T_FILE
<1> DEFINE i == dir[n]
           A == NamesOf(i)
           B == Working(i, HalfDone)
           C == Kept(i)
<1>1. i \in Inum
  BY DEF IInv, Types
<1>2. dinode[i] \in Dinode
  BY <1>1 DEF IInv, Types
<1>3. dinode[i].type = T_FILE /\ dinode[i].nlink \in Int
  BY <1>2, Fields DEF IInv, LinksCounted
<1>4. dinode[i].nlink = Cardinality(A) + Cardinality(B) + Cardinality(C)
  BY <1>1 DEF IInv, LinksCounted, NamesOf, Kept, HalfDone
<1>5. n \in A /\ A \in SUBSET Name /\ B \in SUBSET Proc /\ C \in SUBSET Proc
  BY DEF NamesOf, Working, Kept
<1> HIDE DEF A, B, C
<1>6. IsFiniteSet(A) /\ IsFiniteSet(B) /\ IsFiniteSet(C)
  BY <1>5, FS_Subset, InodeAssumption
<1>7. Cardinality(A) \in Nat /\ Cardinality(B) \in Nat /\ Cardinality(C) \in Nat
  BY <1>6, FS_CardinalityType
<1>8. Cardinality(A) # 0
  BY <1>5, <1>6, FS_EmptySet
<1>9. dinode[i].nlink > 0
  BY <1>4, <1>7, <1>8, SMT
<1> QED BY <1>1, <1>3, <1>9

\* One more pointer is one more use.
LEMMA UsesGrow ==
  ASSUME IInv, Types', NEW p \in Proc, Frame(p), LocalsOf(p)', NEW s \in Slot, inum'[s] \in Inum
  PROVE  /\ Pointers(p)' \subseteq Pointers(p) \cup {s} => Uses(p)' \subseteq Uses(p) \cup {inum'[s]}
         /\ Pointers(p)' = Pointers(p) \cup {s} => Uses(p)' = Uses(p) \cup {inum'[s]}
<1>1. Types /\ LocalsOf(p)
  BY DEF IInv, Calls
<1>2. \A t \in Pointers(p) : inum'[t] = inum[t]
  BY PointersStay DEF Pointers
<1>3. ASSUME Pointers(p)' \subseteq Pointers(p) \cup {s}, NEW i \in Uses(p)', i # inum'[s]
      PROVE  i \in Uses(p)
  BY <1>1, <1>2, <1>3, UsesAre, UsesAreNext, SMT
<1>4. ASSUME Pointers(p)' = Pointers(p) \cup {s}, NEW i \in Uses(p) \cup {inum'[s]}
      PROVE  i \in Uses(p)'
  BY <1>1, <1>2, <1>4, UsesAre, UsesAreNext, SMT
<1>5. Pointers(p)' = Pointers(p) \cup {s} => Pointers(p)' \subseteq Pointers(p) \cup {s}
  OBVIOUS
<1> QED BY <1>3, <1>4, <1>5, SMT

\* What p owes when dirlink() has not been called.
LEMMA OwesNow ==
  ASSUME NEW p \in Proc, old[p] = NoSlot, NEW i
  PROVE  Owes(p, i) = IF pc[p] \in HalfDone THEN Is(inum[ip[p]], i) ELSE 0
<1>1. p \in Working(i, HalfDone) <=> pc[p] \in HalfDone /\ inum[ip[p]] = i
  BY DEF Working
<1>2. p \notin Kept(i)
  BY DEF Kept
<1> QED BY <1>1, <1>2, SMT DEF Owes, Has, Is

\* The same in the next state.
LEMMA OwesNext ==
  ASSUME NEW p \in Proc, old'[p] = NoSlot, NEW i
  PROVE  Owes(p, i)' = IF pc'[p] \in HalfDone THEN Is(inum'[ip'[p]], i) ELSE 0
<1>1. p \in Working(i, HalfDone)' <=> pc'[p] \in HalfDone /\ inum'[ip'[p]] = i
  BY DEF Working
<1>2. p \notin Kept(i)'
  BY DEF Kept
<1> QED BY <1>1, <1>2, SMT DEF Owes, Has, Is

\* The links of a step that leaves the directory alone.
LEMMA LinksSame ==
  ASSUME IInv, Types', NEW p \in Proc, Frame(p), dir' = dir,
         \A i \in Inum : dinode'[i].nlink = dinode[i].nlink + Owes(p, i)' - Owes(p, i),
         \A n \in Name : dir[n] # NoInum => dinode'[dir[n]].type = T_FILE
  PROVE  LinksCounted'
<1>1. ASSUME NEW i \in Inum
      PROVE  dinode'[i].nlink = dinode[i].nlink + Has(NamesOf(i)', p) - Has(NamesOf(i), p)
                                + Owes(p, i)' - Owes(p, i)
  <2>1. NamesOf(i)' = NamesOf(i)
    BY DEF NamesOf
  <2>2. dinode[i].nlink \in Int
    <3>1. dinode[i] \in Dinode
      BY DEF IInv, Types
    <3> QED BY <3>1, Fields
  <2>3. Has(NamesOf(i), p) \in Int /\ Owes(p, i) \in Int /\ Owes(p, i)' \in Int
    BY SMT DEF Has, Owes
  <2> QED BY <2>1, <2>2, <2>3, SMT
<1>2. T_FILE # FreeType
  BY SMT DEF T_FILE, FreeType
<1>3. Relinked(p, p)
  BY <1>1, <1>2 DEF Relinked
<1> QED BY <1>3, LinksStep

\* iupdate() of the inode in entry s keeps the types.
LEMMA UpdateTypes ==
  ASSUME IInv, NEW s \in Slot, NEW d \in Dinode, inum[s] \in Inum, Iupdate(s, d)
  PROVE  /\ dinode' \in [Inum -> Dinode] /\ inode' \in [Slot -> Dinode]
         /\ valid' \in [Slot -> BOOLEAN]
         /\ dinode'[inum[s]] = d /\ \A i \in Inum \ {inum[s]} : dinode'[i] = dinode[i]
         /\ inode'[s] = d /\ \A t \in Slot \ {s} : inode'[t] = inode[t]
         /\ valid'[s] = TRUE /\ \A t \in Slot \ {s} : valid'[t] = valid[t]
<1>1. /\ dinode \in [Inum -> Dinode] /\ inode \in [Slot -> Dinode] /\ valid \in [Slot -> BOOLEAN]
      /\ dinode' = [dinode EXCEPT ![inum[s]] = d] /\ inode' = [inode EXCEPT ![s] = d]
      /\ valid' = [valid EXCEPT ![s] = TRUE]
  BY DEF IInv, Types, Iupdate
<1> QED BY <1>1

\* A step that loads or updates an allocated inode that p uses or creates.
LEMMA UpdateKeeps ==
  ASSUME IInv, Types', NEW p \in Proc, Frame(p), LocalsOf(p)', LocksOf(p)', KnowsOf(p)',
         NEW s \in Slot, s = ip[p] \/ s = fd[p],
         NEW d \in Dinode, d.type = T_FILE, Iupdate(s, d),
         UNCHANGED <<inum, ref, ip, old, fd>>,
         inum[s] \in Uses(p) \/ dlock = p,
         Pointers(p)' \subseteq Pointers(p) \cup {s},
         dir' = dir \/ dlock \in {p, Nobody},
         LinksCounted'
  PROVE  IInv'
<1>1. ref[s] > 0 /\ inum[s] \in Inum
  BY HasRef
<1>2. /\ dinode'[inum[s]] = d /\ \A i \in Inum \ {inum[s]} : dinode'[i] = dinode[i]
      /\ inode'[s] = d /\ \A t \in Slot \ {s} : inode'[t] = inode[t]
      /\ valid'[s] = TRUE /\ \A t \in Slot \ {s} : valid'[t] = valid[t]
  BY <1>1, UpdateTypes
<1>3. Uses(p)' \subseteq Uses(p) \cup {inum[s]}
  BY <1>1, UsesGrow
<1>4. RefsCounted'
  BY DEF IInv, RefsCounted
<1>5. Entries'
  <2> SUFFICES ASSUME NEW t \in Slot, ref[t] > 0
               PROVE  /\ inum[t] \in Inum
                      /\ \A u \in Slot : ref[u] > 0 /\ inum[u] = inum[t] => t = u
                      /\ valid'[t] => inode'[t] = dinode'[inum[t]] /\ inode'[t].type = T_FILE
    BY DEF Entries, Cached
  <2>1. /\ inum[t] \in Inum
        /\ \A u \in Slot : ref[u] > 0 /\ inum[u] = inum[t] => t = u
        /\ valid[t] => inode[t] = dinode[inum[t]] /\ inode[t].type = T_FILE
    BY DEF IInv, Entries, Cached
  <2>2. CASE t = s
    BY <1>2, <2>1, <2>2
  <2>3. CASE t # s
    BY <1>1, <1>2, <2>1, <2>3
  <2> QED BY <2>2, <2>3
<1>6. Gentle(p)
  <2>1. \A i \in Inum : dinode'[i] = dinode[i] \/ i \in Uses(p) \/ dlock = p
    BY <1>2
  <2>2. \A t \in Slot : ref'[t] > 0 /\ valid'[t] =>
          ref[t] > 0 /\ (valid[t] \/ inum[t] \in Uses(p) \/ dlock = p)
    BY <1>2
  <2>3. \A i \in Uses(p)' : i \in Uses(p) \/ dlock = p
    BY <1>3
  <2>4. \A t \in Slot : \/ valid'[t] = valid[t] /\ inode'[t] = inode[t] /\ ref'[t] = ref[t]
                        \/ t = ip[p] \/ t = fd[p]
    BY <1>2
  <2>5. \A t \in Slot : valid[t] => valid'[t]
    BY <1>2
  <2> QED BY <2>1, <2>2, <2>3, <2>4, <2>5 DEF Gentle
<1>7. Alloc'
  <2>1. T_FILE # FreeType
    BY SMT DEF T_FILE, FreeType
  <2>2. /\ \A i \in Inum : dinode[i].type = FreeType => dinode[i].nlink = 0
        /\ \A i \in Uses(p) : i \in Inum /\ dinode[i].type = T_FILE
    BY DEF IInv, Alloc, Uses
  <2>3. \A i \in Inum : dinode[i].type = T_FILE => dinode'[i].type = T_FILE
    BY <1>2
  <2>4. \A i \in Inum : dinode'[i].type = FreeType => dinode'[i].nlink = 0
    BY <1>2, <2>1, <2>2
  <2>5. \A i \in Uses(p)' : dinode'[i].type = T_FILE
    BY <1>2, <1>3, <2>2
  <2> QED BY <2>3, <2>4, <2>5, AllocStep
<1> QED BY <1>4, <1>5, <1>6, <1>7, Together

\* nlink changes by what p then owes.
LEMMA UpdateLinks ==
  ASSUME IInv, Types', NEW p \in Proc, Frame(p), dir' = dir,
         NEW s \in Slot, inum[s] \in Inum, NEW d \in Dinode, d.type = T_FILE, Iupdate(s, d),
         \A i \in Inum : IF i = inum[s] THEN d.nlink = dinode[i].nlink + Owes(p, i)' - Owes(p, i)
                                        ELSE Owes(p, i)' = Owes(p, i)
  PROVE  LinksCounted'
<1>1. dinode'[inum[s]] = d /\ \A i \in Inum \ {inum[s]} : dinode'[i] = dinode[i]
  BY UpdateTypes
<1>2. \A n \in Name : dir[n] # NoInum => dinode'[dir[n]].type = T_FILE
  BY <1>1, Named
<1>3. ASSUME NEW i \in Inum PROVE dinode'[i].nlink = dinode[i].nlink + Owes(p, i)' - Owes(p, i)
  <2>1. CASE i = inum[s]
    BY <1>1, <2>1
  <2>2. CASE i # inum[s]
    <3>1. dinode[i].nlink \in Int
      BY Fields DEF IInv, Types
    <3>2. Owes(p, i) \in Int /\ Owes(p, i)' = Owes(p, i)
      BY <2>2, SMT DEF Owes, Has
    <3>3. dinode'[i] = dinode[i]
      BY <1>1, <2>2
    <3> QED BY <3>1, <3>2, <3>3, SMT
  <2> QED BY <2>1, <2>2
<1> QED BY <1>2, <1>3, LinksSame

\* ilock() in sys_open() reads the inode.
LEMMA OpenLockKeeps ==
  ASSUME IInv, NEW p \in Proc, OpenLock(p)
  PROVE  IInv' /\ Frame(p)
<1> DEFINE s == ip[p]
           d == dinode[inum[s]]
<1>1. pc[p] = "open" /\ lock[s] = Nobody
  BY DEF OpenLock, At
<1>2. /\ s \in Slot /\ inum[s] \in Inum /\ d \in Dinode /\ Loaded(s) = d
      /\ inum[s] \in Uses(p) /\ ~NoType(s) /\ d.type = T_FILE
  BY <1>1, Here DEF HasInode, Using
<1>3. /\ pc' = [pc EXCEPT ![p] = "opened"] /\ lock' = [lock EXCEPT ![s] = p]
      /\ inode' = [inode EXCEPT ![s] = d] /\ valid' = [valid EXCEPT ![s] = TRUE]
      /\ UNCHANGED <<dinode, dir, dlock, inum, ref, ip, fd, old, name, fresh>>
  BY <1>2 DEF OpenLock, Goto, diskVars, cacheVars
<1>4. Types /\ LocalsOf(p) /\ LocksOf(p)
  BY DEF IInv, Calls
<1>5. Iupdate(s, d)
  <2>1. dinode = [dinode EXCEPT ![inum[s]] = d]
    BY <1>4 DEF Types
  <2> QED BY <1>3, <2>1 DEF Iupdate
<1>l. /\ \A q \in Proc \ {p} : \A t \in Slot : lock'[t] = q <=> lock[t] = q
      /\ \A t \in Slot : lock'[t] = p <=> t = s \/ lock[t] = p
      /\ lock' \in [Slot -> Proc \cup {Nobody}]
  BY <1>1, <1>2, <1>3, LockTaken
<1>6. pc'[p] = "opened" /\ (\A q \in Proc \ {p} : pc'[q] = pc[q]) /\ pc' \in [Proc -> Label]
  BY <1>3, <1>4 DEF Types, Label
<1>7. Types'
  BY <1>2, <1>3, <1>4, <1>5, <1>6, <1>l, UpdateTypes DEF Types
<1>8. Frame(p)
  BY <1>3, <1>6, <1>l DEF Frame
<1>9. LocalsOf(p)'
  BY <1>1, <1>3, <1>4, <1>6 DEF LocalsOf, HasInode, Holding, InCreate
<1>10. LocksOf(p)'
  BY <1>1, <1>3, <1>4, <1>6, <1>l DEF LocksOf, Holding, InCreate
<1>11. KnowsOf(p)'
  BY <1>6 DEF KnowsOf, InCreate
<1>12. Pointers(p)' \subseteq Pointers(p) \cup {s}
  BY <1>3 DEF Pointers
<1>13. LinksCounted'
  <2>1. \A i \in Inum : Owes(p, i)' = Owes(p, i)
    BY <1>1, <1>3, <1>6, <1>8, OwesSame DEF HalfDone
  <2>2. ASSUME NEW i \in Inum PROVE Owes(p, i) \in Int /\ dinode[i].nlink \in Int
    BY <1>4, Numbers
  <2>3. \A i \in Inum : IF i = inum[s] THEN d.nlink = dinode[i].nlink + Owes(p, i)' - Owes(p, i)
                                       ELSE Owes(p, i)' = Owes(p, i)
    BY <2>1, <2>2, SMT
  <2> QED BY <1>2, <1>3, <1>5, <1>7, <1>8, <2>3, UpdateLinks
<1> QED BY <1>2, <1>3, <1>5, <1>7, <1>8, <1>9, <1>10, <1>11, <1>12, <1>13, UpdateKeeps

\* filewrite(): writei() and its iupdate().
LEMMA WriteKeeps ==
  ASSUME IInv, NEW p \in Proc, Write(p)
  PROVE  IInv' /\ Frame(p)
<1> DEFINE s == fd[p]
           c == dinode[inum[s]]
<1>1. pc[p] = "idle" /\ s # NoSlot
  BY DEF Write, At
<1>2. Types /\ LocalsOf(p) /\ LocksOf(p)
  BY DEF IInv, Calls
<1>3. s \in Slot /\ inum[s] \in Inum /\ c \in Dinode /\ Loaded(s) = c
  BY <1>1, <1>2, HasRef DEF Types
<1>4. inum[s] \in Uses(p)
  BY <1>1, <1>3 DEF Uses
<1>5. c.type = T_FILE /\ ~NoType(s)
  <2>1. c.type = T_FILE
    BY <1>4 DEF IInv, Alloc
  <2>2. T_FILE # FreeType
    BY SMT DEF T_FILE, FreeType
  <2> QED BY <2>1, <2>2 DEF NoType
<1>6. PICK v \in Val : Iupdate(s, [c EXCEPT !.data = v])
  BY <1>3 DEF Write, Writei
<1> DEFINE d == [c EXCEPT !.data = v]
<1>7. d \in Dinode /\ d.type = T_FILE /\ d.nlink = c.nlink
  BY <1>3, <1>5, Fields
<1> HIDE DEF d
<1>8. Iupdate(s, d)
  BY <1>6 DEF d
<1>9. /\ pc' = [pc EXCEPT ![p] = "idle"]
      /\ UNCHANGED <<dir, dlock, inum, ref, lock, ip, fd, old, name, fresh>>
  BY <1>5 DEF Write, Goto, cacheVars
<1>10. pc' = pc
  BY <1>1, <1>2, <1>9 DEF Types
<1>11. Types'
  BY <1>2, <1>3, <1>7, <1>8, <1>9, <1>10, UpdateTypes DEF Types
<1>12. Frame(p)
  BY <1>9, <1>10 DEF Frame
<1>13. LocalsOf(p)' /\ LocksOf(p)'
  BY <1>2, <1>9, <1>10 DEF LocalsOf, LocksOf
<1>14. KnowsOf(p)'
  BY <1>1, <1>10 DEF KnowsOf, InCreate
<1>15. Pointers(p)' \subseteq Pointers(p) \cup {s}
  BY <1>9, <1>10 DEF Pointers
<1>16. LinksCounted'
  <2>1. \A i \in Inum : Owes(p, i)' = Owes(p, i)
    BY <1>9, <1>10, <1>12, OwesSame
  <2>2. ASSUME NEW i \in Inum PROVE Owes(p, i) \in Int /\ dinode[i].nlink \in Int
    BY <1>2, Numbers
  <2>3. \A i \in Inum : IF i = inum[s] THEN d.nlink = dinode[i].nlink + Owes(p, i)' - Owes(p, i)
                                       ELSE Owes(p, i)' = Owes(p, i)
    BY <1>7, <2>1, <2>2, SMT
  <2> QED BY <1>3, <1>7, <1>8, <1>9, <1>11, <1>12, <2>3, UpdateLinks
<1> QED BY <1>3, <1>4, <1>7, <1>8, <1>9, <1>11, <1>12, <1>13, <1>14, <1>15, <1>16, UpdateKeeps

\* LinkCount and LinkBad: the lock is taken and given back in the step.
LEMMA LinkCountKeeps ==
  ASSUME IInv, NEW p \in Proc, LinkCount(p) \/ LinkBad(p)
  PROVE  IInv' /\ Frame(p)
<1> DEFINE s == ip[p]
           c == dinode[inum[s]]
           up == [c EXCEPT !.nlink = c.nlink + 1]
           down == [c EXCEPT !.nlink = c.nlink - 1]
<1>1. pc[p] \in {"link", "bad"}
  BY DEF LinkCount, LinkBad, At
<1>2. /\ s \in Slot /\ inum[s] \in Inum /\ c \in Dinode /\ Loaded(s) = c
      /\ inum[s] \in Uses(p) /\ ~NoType(s) /\ c.type = T_FILE
  BY <1>1, Here DEF HasInode, Using
<1>3. Types /\ LocalsOf(p) /\ LocksOf(p)
  BY DEF IInv, Calls
<1>4. /\ up \in Dinode /\ up.type = T_FILE /\ up.nlink = c.nlink + 1
      /\ down \in Dinode /\ down.type = T_FILE /\ down.nlink = c.nlink - 1
  <2>1. c.nlink \in Int
    BY <1>2, Fields
  <2>2. c.nlink + 1 \in Int /\ c.nlink - 1 \in Int
    BY <2>1, SMT
  <2> QED BY <1>2, <2>2, SetNlink
<1> HIDE DEF up, down
<1>5. /\ \/ pc[p] = "link" /\ pc' = [pc EXCEPT ![p] = "linkdir"] /\ Iupdate(s, up)
         \/ pc[p] = "bad" /\ pc' = [pc EXCEPT ![p] = "iput"] /\ Iupdate(s, down)
      /\ UNCHANGED <<dir, dlock, inum, ref, lock, ip, fd, old, name, fresh>>
  BY <1>2 DEF LinkCount, LinkBad, At, Goto, cacheVars, up, down
<1>6. PICK d \in {up, down} : Iupdate(s, d)
  BY <1>5
<1>7. d \in Dinode /\ d.type = T_FILE
  BY <1>4, <1>6
<1>8. /\ \/ pc[p] = "link" /\ pc'[p] = "linkdir" /\ Iupdate(s, up)
         \/ pc[p] = "bad" /\ pc'[p] = "iput" /\ Iupdate(s, down)
      /\ pc' \in [Proc -> Label]
      /\ \A q \in Proc \ {p} : pc'[q] = pc[q]
  BY <1>3, <1>5 DEF Types, Label
<1>9. Types'
  BY <1>2, <1>3, <1>5, <1>6, <1>7, <1>8, UpdateTypes DEF Types
<1>10. Frame(p)
  BY <1>5, <1>8 DEF Frame
<1>11. LocalsOf(p)'
  BY <1>3, <1>5, <1>8 DEF LocalsOf, HasInode, Holding, InCreate
<1>12. LocksOf(p)'
  BY <1>3, <1>5, <1>8 DEF LocksOf, Holding, InCreate
<1>13. KnowsOf(p)'
  BY <1>8 DEF KnowsOf, InCreate
<1>14. Pointers(p)' \subseteq Pointers(p) \cup {s}
  BY <1>5 DEF Pointers
<1>15. old[p] = NoSlot /\ old'[p] = NoSlot
  BY <1>1, <1>3, <1>5 DEF LocalsOf
<1>16. /\ "linkdir" \in HalfDone /\ "bad" \in HalfDone /\ "link" \notin HalfDone
       /\ "iput" \notin HalfDone
  BY DEF HalfDone
<1>17. \A i \in Inum : dinode[i].nlink \in Int
  BY <1>3, Fields DEF Types
<1>18. LinksCounted'
  <2>1. CASE pc[p] = "link" /\ pc'[p] = "linkdir" /\ Iupdate(s, up)
    <3>1. \A i \in Inum : Owes(p, i) = 0 /\ Owes(p, i)' = Is(inum[s], i)
      BY <1>5, <1>15, <1>16, <2>1, OwesNow, OwesNext
    <3>2. \A i \in Inum : IF i = inum[s] THEN up.nlink = dinode[i].nlink + Owes(p, i)' - Owes(p, i)
                                         ELSE Owes(p, i)' = Owes(p, i)
      BY <1>4, <1>17, <3>1, SMT DEF Is
    <3> QED BY <1>2, <1>4, <1>5, <1>9, <1>10, <2>1, <3>2, UpdateLinks
  <2>2. CASE pc[p] = "bad" /\ pc'[p] = "iput" /\ Iupdate(s, down)
    <3>1. \A i \in Inum : Owes(p, i)' = 0 /\ Owes(p, i) = Is(inum[s], i)
      BY <1>5, <1>15, <1>16, <2>2, OwesNow, OwesNext
    <3>2. \A i \in Inum : IF i = inum[s] THEN down.nlink = dinode[i].nlink + Owes(p, i)' - Owes(p, i)
                                         ELSE Owes(p, i)' = Owes(p, i)
      BY <1>4, <1>17, <3>1, SMT DEF Is
    <3> QED BY <1>2, <1>4, <1>5, <1>9, <1>10, <2>2, <3>2, UpdateLinks
  <2> QED BY <1>8, <2>1, <2>2
<1> QED BY <1>2, <1>5, <1>6, <1>7, <1>9, <1>10, <1>11, <1>12, <1>13, <1>14, <1>18, UpdateKeeps

\* sys_unlink() counts down nlink after the entry is gone.
LEMMA UnlinkCountKeeps ==
  ASSUME IInv, NEW p \in Proc, UnlinkCount(p)
  PROVE  IInv' /\ Frame(p)
<1> DEFINE s == ip[p]
           c == dinode[inum[s]]
           d == [c EXCEPT !.nlink = c.nlink - 1]
<1>1. pc[p] = "unlinked"
  BY DEF UnlinkCount, At
<1>2. /\ s \in Slot /\ inum[s] \in Inum /\ c \in Dinode
      /\ inum[s] \in Uses(p) /\ c.type = T_FILE /\ Loaded(s) = c
  BY <1>1, Here DEF HasInode, Holding, Using
<1>3. Types /\ LocalsOf(p) /\ LocksOf(p) /\ KnowsOf(p)
  BY DEF IInv, Calls
<1>4. inode[s] = c
  <2>1. valid[s]
    BY <1>1, <1>3 DEF KnowsOf
  <2> QED BY <1>2, <2>1 DEF Loaded
<1>5. d \in Dinode /\ d.type = T_FILE /\ d.nlink = c.nlink - 1
  <2>1. c.nlink \in Int
    BY <1>2, Fields
  <2>2. c.nlink - 1 \in Int
    BY <2>1, SMT
  <2> QED BY <1>2, <2>2, SetNlink
<1> HIDE DEF d
<1>6. /\ pc' = [pc EXCEPT ![p] = "iput"] /\ lock' = [lock EXCEPT ![s] = Nobody]
      /\ Iupdate(s, d)
      /\ UNCHANGED <<dir, dlock, inum, ref, ip, fd, old, name, fresh>>
  BY <1>4 DEF UnlinkCount, Goto, cacheVars, d
<1>7. lock[s] = p
  BY <1>1, <1>2, <1>3 DEF LocksOf, Holding
<1>l. /\ \A q \in Proc \ {p} : \A t \in Slot : lock'[t] = q <=> lock[t] = q
      /\ \A t \in Slot : lock'[t] = p <=> t # s /\ lock[t] = p
      /\ lock' \in [Slot -> Proc \cup {Nobody}]
  BY <1>2, <1>6, <1>7, LockGiven
<1>8. pc'[p] = "iput" /\ (\A q \in Proc \ {p} : pc'[q] = pc[q]) /\ pc' \in [Proc -> Label]
  BY <1>3, <1>6 DEF Types, Label
<1>9. Types'
  BY <1>2, <1>3, <1>5, <1>6, <1>8, <1>l, UpdateTypes DEF Types
<1>10. Frame(p)
  BY <1>6, <1>8, <1>l DEF Frame
<1>11. LocalsOf(p)'
  BY <1>1, <1>3, <1>6, <1>8 DEF LocalsOf, HasInode, Holding, InCreate
<1>12. LocksOf(p)'
  BY <1>1, <1>3, <1>6, <1>8, <1>l DEF LocksOf, Holding, InCreate
<1>13. KnowsOf(p)'
  BY <1>8 DEF KnowsOf, InCreate
<1>14. Pointers(p)' \subseteq Pointers(p) \cup {s}
  BY <1>6 DEF Pointers
<1>15. old[p] = NoSlot /\ old'[p] = NoSlot
  BY <1>1, <1>3, <1>6 DEF LocalsOf
<1>16. LinksCounted'
  <2>1. "unlinked" \in HalfDone /\ "iput" \notin HalfDone
    BY DEF HalfDone
  <2>2. \A i \in Inum : Owes(p, i)' = 0 /\ Owes(p, i) = Is(inum[s], i)
    BY <1>1, <1>8, <1>15, <2>1, OwesNow, OwesNext
  <2>3. \A i \in Inum : dinode[i].nlink \in Int
    BY <1>3, Fields DEF Types
  <2>4. \A i \in Inum : IF i = inum[s] THEN d.nlink = dinode[i].nlink + Owes(p, i)' - Owes(p, i)
                                       ELSE Owes(p, i)' = Owes(p, i)
    BY <1>5, <2>2, <2>3, SMT DEF Is
  <2> QED BY <1>2, <1>5, <1>6, <1>9, <1>10, <2>4, UpdateLinks
<1> QED BY <1>2, <1>5, <1>6, <1>9, <1>10, <1>11, <1>12, <1>13, <1>14, <1>16, UpdateKeeps

\* dirlink() of create(), with the directory locked since the name was not found.
LEMMA CreateLinkKeeps ==
  ASSUME IInv, NEW p \in Proc, CreateLink(p)
  PROVE  IInv' /\ Frame(p)
<1> DEFINE s == ip[p]
           c == dinode[inum[s]]
           d == [c EXCEPT !.nlink = 1]
           m == name[p]
<1>1. pc[p] = "create" /\ lock[s] = Nobody
  BY DEF CreateLink, At
<1>2. /\ s \in Slot /\ inum[s] \in Inum /\ c \in Dinode /\ Loaded(s) = c /\ ~NoType(s)
      /\ c = [Empty EXCEPT !.type = T_FILE]
  BY <1>1, Here DEF HasInode
<1>3. Types /\ LocalsOf(p) /\ LocksOf(p) /\ KnowsOf(p)
  BY DEF IInv, Calls
<1>4. d \in Dinode /\ d.type = T_FILE /\ d.nlink = 1 /\ c.nlink = 0
  <2>1. c.type = T_FILE /\ c.nlink = 0
    BY <1>2, NewFields
  <2>2. 1 \in Int
    BY SMT
  <2> QED BY <1>2, <2>1, <2>2, SetNlink
<1> HIDE DEF d
<1>5. /\ pc' = [pc EXCEPT ![p] = "created"] /\ lock' = [lock EXCEPT ![s] = p]
      /\ Iupdate(s, d) /\ dir' = [dir EXCEPT ![m] = inum[s]]
      /\ dlock' = Nobody /\ name' = [name EXCEPT ![p] = NoName]
      /\ UNCHANGED <<inum, ref, ip, fd, old, fresh>>
  BY <1>2 DEF CreateLink, Goto, cacheVars, Dirlink, d
<1>6. m \in Name /\ dir[m] = NoInum /\ dlock = p /\ old[p] = NoSlot /\ fd[p] = NoSlot
  BY <1>1, <1>3 DEF LocalsOf, LocksOf, KnowsOf, InCreate
<1>l. /\ \A q \in Proc \ {p} : \A t \in Slot : lock'[t] = q <=> lock[t] = q
      /\ \A t \in Slot : lock'[t] = p <=> t = s \/ lock[t] = p
      /\ lock' \in [Slot -> Proc \cup {Nobody}]
  BY <1>1, <1>2, <1>5, LockTaken
<1>7. /\ pc'[p] = "created" /\ (\A q \in Proc \ {p} : pc'[q] = pc[q] /\ name'[q] = name[q])
      /\ pc' \in [Proc -> Label] /\ name' \in [Proc -> Name \cup {NoName}]
      /\ dir' \in [Name -> Inum \cup {NoInum}]
      /\ dir'[m] = inum[s] /\ \A n \in Name \ {m} : dir'[n] = dir[n]
  BY <1>2, <1>3, <1>5, <1>6 DEF Types, Label
<1>8. Types'
  BY <1>2, <1>3, <1>4, <1>5, <1>7, <1>l, UpdateTypes DEF Types
<1>9. Frame(p)
  BY <1>5, <1>6, <1>7, <1>l, InodeAssumption DEF Frame
<1>10. LocalsOf(p)'
  BY <1>1, <1>3, <1>5, <1>6, <1>7 DEF LocalsOf, HasInode, Holding, InCreate
<1>11. LocksOf(p)'
  <2>1. \A t \in Slot : lock[t] # p
    BY <1>1, <1>3 DEF LocksOf, Holding
  <2>2. pc'[p] \in Holding /\ pc'[p] \notin InCreate \cup {"unlink"} /\ dlock' # p
    BY <1>5, <1>7, InodeAssumption DEF Holding, InCreate
  <2> QED BY <1>5, <1>6, <1>l, <2>1, <2>2 DEF LocksOf
<1>12. KnowsOf(p)'
  BY <1>7 DEF KnowsOf, InCreate
<1>13. Pointers(p)' \subseteq Pointers(p) \cup {s}
  BY <1>5 DEF Pointers
<1>14. LinksCounted'
  <2>1. dinode'[inum[s]] = d /\ \A i \in Inum \ {inum[s]} : dinode'[i] = dinode[i]
    BY <1>2, <1>4, <1>5, UpdateTypes
  <2>2. \A i \in Inum : Owes(p, i) = 0 /\ Owes(p, i)' = 0
    BY <1>1, <1>5, <1>6, <1>7, OwesNow, OwesNext DEF HalfDone
  <2>3. \A i \in Inum : m \notin NamesOf(i) /\ (m \in NamesOf(i)' <=> i = inum[s])
    BY <1>6, <1>7, InodeAssumption DEF NamesOf
  <2>4. ASSUME NEW i \in Inum
        PROVE  dinode'[i].nlink = dinode[i].nlink + Has(NamesOf(i)', m) - Has(NamesOf(i), m)
                                  + Owes(p, i)' - Owes(p, i)
    <3>1. dinode[i].nlink \in Int
      BY <1>3, Numbers
    <3>2. Has(NamesOf(i), m) = 0 /\ Has(NamesOf(i)', m) = Is(i, inum[s])
      BY <2>3, SMT DEF Has, Is
    <3>3. dinode'[i].nlink = IF i = inum[s] THEN 1 ELSE dinode[i].nlink
      BY <1>4, <2>1
    <3>4. i = inum[s] => dinode[i].nlink = 0
      BY <1>4
    <3> QED BY <2>2, <3>1, <3>2, <3>3, <3>4, SMT DEF Is
  <2>5. \A n \in Name : dir'[n] # NoInum => dinode'[dir'[n]].type # FreeType
    <3>1. T_FILE # FreeType
      BY SMT DEF T_FILE, FreeType
    <3>2. \A n \in Name : dir[n] # NoInum => dir[n] \in Inum /\ dinode[dir[n]].type = T_FILE
      BY Named
    <3>3. \A i \in Inum : dinode[i].type = T_FILE => dinode'[i].type = T_FILE
      BY <1>4, <2>1
    <3>4. dinode'[dir'[m]].type = T_FILE
      BY <1>4, <1>7, <2>1
    <3>5. ASSUME NEW n \in Name \ {m}, dir'[n] # NoInum PROVE dinode'[dir'[n]].type = T_FILE
      BY <1>7, <3>2, <3>3, <3>5
    <3> QED BY <3>1, <3>4, <3>5
  <2>6. Relinked(p, m)
    BY <1>7, <2>4, <2>5 DEF Relinked
  <2> QED BY <1>8, <1>9, <2>6, LinksStep
<1> QED
  BY <1>2, <1>4, <1>5, <1>6, <1>8, <1>9, <1>10, <1>11, <1>12, <1>13, <1>14, UpdateKeeps

\* The entry of sys_unlink() is erased: nlink was at least 1.
LEMMA UnlinkEntryKeeps ==
  ASSUME IInv, NEW p \in Proc, UnlinkEntry(p)
  PROVE  IInv' /\ Frame(p)
<1> DEFINE s == ip[p]
           d == dinode[inum[s]]
           m == name[p]
<1>1. pc[p] = "unlink" /\ lock[s] = Nobody
  BY DEF UnlinkEntry, At
<1>2. /\ s \in Slot /\ inum[s] \in Inum /\ d \in Dinode /\ Loaded(s) = d
      /\ inum[s] \in Uses(p) /\ ~NoType(s) /\ d.type = T_FILE
  BY <1>1, Here DEF HasInode, Using
<1>3. Types /\ LocalsOf(p) /\ LocksOf(p) /\ KnowsOf(p)
  BY DEF IInv, Calls
<1>4. m \in Name /\ dir[m] = inum[s] /\ dlock = p /\ old[p] = NoSlot
  BY <1>1, <1>3 DEF LocalsOf, LocksOf, KnowsOf
<1>5. ~(Loaded(s).nlink < 1)
  <2>1. dir[m] # NoInum
    BY <1>2, <1>4, InodeAssumption
  <2>2. d.nlink \in Int /\ d.nlink > 0
    BY <1>4, <2>1, Named
  <2> QED BY <1>2, <2>2, SMT
<1>6. /\ pc' = [pc EXCEPT ![p] = "erased"] /\ lock' = [lock EXCEPT ![s] = p]
      /\ inode' = [inode EXCEPT ![s] = d] /\ valid' = [valid EXCEPT ![s] = TRUE]
      /\ dir' = [dir EXCEPT ![m] = NoInum]
      /\ dlock' = Nobody /\ name' = [name EXCEPT ![p] = NoName]
      /\ UNCHANGED <<dinode, inum, ref, ip, fd, old, fresh>>
  BY <1>2, <1>5 DEF UnlinkEntry, Goto, cacheVars
<1>7. Iupdate(s, d)
  <2>1. dinode = [dinode EXCEPT ![inum[s]] = d]
    BY <1>3 DEF Types
  <2> QED BY <1>6, <2>1 DEF Iupdate
<1>l. /\ \A q \in Proc \ {p} : \A t \in Slot : lock'[t] = q <=> lock[t] = q
      /\ \A t \in Slot : lock'[t] = p <=> t = s \/ lock[t] = p
      /\ lock' \in [Slot -> Proc \cup {Nobody}]
  BY <1>1, <1>2, <1>6, LockTaken
<1>8. /\ pc'[p] = "erased" /\ (\A q \in Proc \ {p} : pc'[q] = pc[q] /\ name'[q] = name[q])
      /\ pc' \in [Proc -> Label] /\ name' \in [Proc -> Name \cup {NoName}]
      /\ dir' \in [Name -> Inum \cup {NoInum}]
      /\ dir'[m] = NoInum /\ \A n \in Name \ {m} : dir'[n] = dir[n]
  BY <1>3, <1>4, <1>6 DEF Types, Label
<1>9. Types' /\ valid'[s]
  BY <1>2, <1>3, <1>6, <1>7, <1>8, <1>l, UpdateTypes DEF Types
<1>10. Frame(p)
  BY <1>4, <1>6, <1>8, <1>l, InodeAssumption DEF Frame
<1>11. LocalsOf(p)'
  BY <1>1, <1>3, <1>4, <1>6, <1>8 DEF LocalsOf, HasInode, Holding, InCreate
<1>12. LocksOf(p)'
  <2>1. \A t \in Slot : lock[t] # p
    BY <1>1, <1>3 DEF LocksOf, Holding
  <2>2. \A t \in Slot : lock'[t] = p <=> t = s
    BY <1>l, <2>1
  <2>3. pc'[p] \in Holding /\ pc'[p] \notin InCreate \cup {"unlink"}
    BY <1>8 DEF Holding, InCreate
  <2>4. dlock' # p /\ ip'[p] = s /\ old'[p] = NoSlot
    BY <1>4, <1>6, InodeAssumption
  <2> QED BY <2>2, <2>3, <2>4 DEF LocksOf
<1>13. KnowsOf(p)'
  BY <1>6, <1>8, <1>9 DEF KnowsOf, InCreate
<1>14. Pointers(p)' \subseteq Pointers(p) \cup {s}
  BY <1>6 DEF Pointers
<1>15. LinksCounted'
  <2>1. "unlink" \notin HalfDone /\ "erased" \in HalfDone
    BY DEF HalfDone
  <2>2. \A i \in Inum : Owes(p, i) = 0 /\ Owes(p, i)' = Is(inum[s], i)
    <3>1. \A i \in Inum : Owes(p, i) = 0
      BY <1>1, <1>4, <2>1, OwesNow
    <3>2. pc'[p] \in HalfDone /\ old'[p] = NoSlot /\ inum'[ip'[p]] = inum[s]
      BY <1>4, <1>6, <1>8, <2>1
    <3>3. \A i \in Inum : Owes(p, i)' = Is(inum[s], i)
      BY <3>2, OwesNext
    <3> QED BY <3>1, <3>3
  <2>3. \A i \in Inum : m \notin NamesOf(i)' /\ (m \in NamesOf(i) <=> inum[s] = i)
    BY <1>4, <1>8, InodeAssumption DEF NamesOf
  <2>4. ASSUME NEW i \in Inum
        PROVE  dinode'[i].nlink = dinode[i].nlink + Has(NamesOf(i)', m) - Has(NamesOf(i), m)
                                  + Owes(p, i)' - Owes(p, i)
    <3>1. dinode[i].nlink \in Int
      BY <1>3, Fields DEF Types
    <3>2. Has(NamesOf(i)', m) = 0 /\ Has(NamesOf(i), m) = Is(inum[s], i)
      BY <2>3, SMT DEF Has, Is
    <3> QED BY <1>6, <2>2, <3>1, <3>2, SMT DEF Is
  <2>5. \A n \in Name : dir'[n] # NoInum => dinode'[dir'[n]].type # FreeType
    BY <1>6, <1>8 DEF IInv, LinksCounted
  <2>6. Relinked(p, m)
    BY <1>8, <2>4, <2>5 DEF Relinked
  <2> QED BY <1>9, <1>10, <2>6, LinksStep
<1> QED
  BY <1>2, <1>4, <1>6, <1>7, <1>9, <1>10, <1>11, <1>12, <1>13, <1>14, <1>15, UpdateKeeps

-----------------------------------------------------------------------------
(* Allocating and freeing inodes *)

\* The inode freed by iput() is in no use: the entry is the only one for it, and
\* the reference is the only one to the entry.
LEMMA IputFreeKeeps ==
  ASSUME IInv, NEW p \in Proc, IputFree(p)
  PROVE  IInv' /\ Frame(p)
<1> DEFINE s == ip[p]
           i == inum[s]
           d == [[inode[s] EXCEPT !.data = Zero] EXCEPT !.type = FreeType]
<1>1. pc[p] = "ifree"
  BY DEF IputFree, At
<1>2. s \in Slot /\ ref[s] \in Nat /\ ref[s] > 0 /\ i \in Inum /\ Loaded(s) = dinode[i]
  BY <1>1, Here DEF HasInode, Holding
<1>3. Types /\ LocalsOf(p) /\ LocksOf(p) /\ KnowsOf(p)
  BY DEF IInv, Calls
<1>4. valid[s] /\ inode[s].nlink = 0 /\ ref[s] = 1 /\ inode[s] = dinode[i] /\ lock[s] = p
  BY <1>1, <1>2, <1>3 DEF KnowsOf, LastUse, Loaded, LocksOf, Holding
<1>5. d \in Dinode /\ d.type = FreeType /\ d.nlink = 0
  <2>1. inode[s] \in Dinode
    BY <1>2, <1>3 DEF Types
  <2> QED BY <1>4, <2>1, FreeFields
<1>6. /\ inode' = [inode EXCEPT ![s] = d] /\ dinode' = [dinode EXCEPT ![i] = inode'[s]]
      /\ valid' = [valid EXCEPT ![s] = FALSE]
      /\ lock' = [lock EXCEPT ![s] = Nobody] /\ pc' = [pc EXCEPT ![p] = "drop"]
      /\ UNCHANGED <<dir, dlock, inum, ref, ip, fd, old, name, fresh>>
  BY DEF IputFree, Itrunc, Goto, cacheVars
<1> HIDE DEF d
<1>7. /\ dinode' \in [Inum -> Dinode] /\ inode' \in [Slot -> Dinode] /\ valid' \in [Slot -> BOOLEAN]
      /\ dinode'[i] = d /\ \A j \in Inum \ {i} : dinode'[j] = dinode[j]
      /\ \A t \in Slot \ {s} : inode'[t] = inode[t]
      /\ ~valid'[s] /\ \A t \in Slot \ {s} : valid'[t] = valid[t]
  <2>1. inode' \in [Slot -> Dinode] /\ inode'[s] = d /\ \A t \in Slot \ {s} : inode'[t] = inode[t]
    BY <1>2, <1>3, <1>5, <1>6 DEF Types
  <2>2. valid' \in [Slot -> BOOLEAN] /\ ~valid'[s] /\ \A t \in Slot \ {s} : valid'[t] = valid[t]
    BY <1>2, <1>3, <1>6 DEF Types
  <2>3. dinode' = [dinode EXCEPT ![i] = d]
    BY <1>6, <2>1
  <2>4. /\ dinode' \in [Inum -> Dinode]
        /\ dinode'[i] = d /\ \A j \in Inum \ {i} : dinode'[j] = dinode[j]
    BY <1>2, <1>3, <1>5, <2>3 DEF Types
  <2> QED BY <2>1, <2>2, <2>4
<1>l. /\ \A q \in Proc \ {p} : \A t \in Slot : lock'[t] = q <=> lock[t] = q
      /\ \A t \in Slot : lock'[t] = p <=> t # s /\ lock[t] = p
      /\ lock' \in [Slot -> Proc \cup {Nobody}]
  BY <1>2, <1>4, <1>6, LockGiven
<1>8. pc'[p] = "drop" /\ (\A q \in Proc \ {p} : pc'[q] = pc[q]) /\ pc' \in [Proc -> Label]
  BY <1>3, <1>6 DEF Types, Label
<1>9. Types'
  BY <1>3, <1>6, <1>7, <1>8, <1>l DEF Types
<1>10. Frame(p)
  BY <1>6, <1>8, <1>l DEF Frame
<1>11. LocalsOf(p)'
  BY <1>1, <1>3, <1>6, <1>8 DEF LocalsOf, HasInode, Holding, InCreate
<1>12. LocksOf(p)'
  BY <1>1, <1>3, <1>6, <1>8, <1>l DEF LocksOf, Holding, InCreate
<1>13. KnowsOf(p)'
  BY <1>8 DEF KnowsOf, InCreate
<1>14. Uses(p)' \subseteq Uses(p)
  <2>1. Pointers(p)' \subseteq Pointers(p)
    BY <1>6, <1>8 DEF Pointers, Using
  <2> QED BY <1>9, <1>10, <1>11, <2>1, UsesShrink
<1>15. \A t \in Slot : ref[t] > 0 /\ inum[t] = i => t = s
  BY <1>2 DEF IInv, Entries, Cached
<1>16. ASSUME NEW q \in Proc PROVE i \notin Uses(q)
  <2>1. ASSUME i \in Uses(q) PROVE FALSE
    <3>1. PICK t \in Pointers(q) : inum[t] = i
      BY <2>1, UsesAre DEF IInv, Calls
    <3>2. t \in Slot /\ (t = fd[q] \/ t = old[q] \/ (t = ip[q] /\ pc[q] \in Using))
      BY DEF Pointers
    <3>3. ref[t] > 0
      BY <3>2, HasRef
    <3>4. t = s
      BY <1>15, <3>1, <3>2, <3>3
    <3>5. q = p /\ pc[q] \in Using
      <4>1. \A x \in Proc : (ip[x] = s => x = p) /\ old[x] # s /\ fd[x] # s
        BY <1>2, <1>4, SoleUser
      <4> QED BY <3>2, <3>4, <4>1
    <3> QED BY <1>1, <3>5 DEF Using
  <2> QED BY <2>1
<1>17. RefsCounted'
  BY <1>6 DEF IInv, RefsCounted
<1>18. Entries'
  <2> SUFFICES ASSUME NEW t \in Slot, ref[t] > 0
               PROVE  /\ inum[t] \in Inum
                      /\ \A u \in Slot : ref[u] > 0 /\ inum[u] = inum[t] => t = u
                      /\ valid'[t] => inode'[t] = dinode'[inum[t]] /\ inode'[t].type = T_FILE
    BY <1>6 DEF Entries, Cached
  <2>1. /\ inum[t] \in Inum
        /\ \A u \in Slot : ref[u] > 0 /\ inum[u] = inum[t] => t = u
        /\ valid[t] => inode[t] = dinode[inum[t]] /\ inode[t].type = T_FILE
    BY DEF IInv, Entries, Cached
  <2> QED BY <1>7, <1>15, <2>1
<1>19. Gentle(p)
  <2>1. \A j \in Inum : dinode'[j] = dinode[j] \/ \E t \in Slot : Cached(t, j) /\ valid[t]
    BY <1>2, <1>4, <1>7 DEF Cached
  <2>2. \A t \in Slot : ref'[t] > 0 /\ valid'[t] => ref[t] > 0 /\ valid[t]
    BY <1>6, <1>7
  <2>3. \A t \in Slot : \/ valid'[t] = valid[t] /\ inode'[t] = inode[t] /\ ref'[t] = ref[t]
                        \/ t = ip[p]
    BY <1>6, <1>7
  <2>4. \A t \in Slot : valid[t] => valid'[t] \/ lock[t] = p
    BY <1>4, <1>7
  <2> QED BY <1>6, <1>14, <2>1, <2>2, <2>3, <2>4 DEF Gentle
<1>20. Alloc'
  <2>1. \A j \in Inum : dinode'[j].type = FreeType => dinode'[j].nlink = 0
    BY <1>5, <1>7 DEF IInv, Alloc
  <2>2. \A q \in Proc : Uses(q)' \subseteq Uses(q)
    BY <1>9, <1>10, <1>14, UsesFrame
  <2>3. ASSUME NEW q \in Proc, NEW j \in Uses(q)' PROVE dinode'[j].type = T_FILE
    <3>1. j \in Uses(q) /\ j # i
      BY <1>16, <2>2, <2>3
    <3>2. j \in Inum /\ dinode[j].type = T_FILE
      BY <3>1 DEF IInv, Alloc, Uses
    <3> QED BY <1>7, <3>1, <3>2
  <2> QED BY <2>1, <2>3 DEF Alloc
<1>21. LinksCounted'
  <2>1. \A j \in Inum : Owes(p, j)' = Owes(p, j)
    BY <1>1, <1>6, <1>8, <1>10, OwesSame DEF HalfDone
  <2>2. ASSUME NEW j \in Inum PROVE dinode'[j].nlink = dinode[j].nlink + Owes(p, j)' - Owes(p, j)
    <3>1. dinode[j].nlink \in Int
      BY <1>3, Fields DEF Types
    <3>2. dinode'[j].nlink = dinode[j].nlink
      BY <1>4, <1>5, <1>7
    <3>3. Owes(p, j) \in Int
      BY SMT DEF Owes, Has
    <3> QED BY <2>1, <3>1, <3>2, <3>3, SMT
  <2>3. ASSUME NEW n \in Name, dir[n] # NoInum PROVE dinode'[dir[n]].type = T_FILE
    <3>1. /\ dir[n] \in Inum /\ dinode[dir[n]].nlink > 0 /\ dinode[dir[n]].type = T_FILE
      BY <2>3, Named
    <3>2. dinode[i].nlink = 0
      BY <1>4
    <3>3. ~(dinode[i].nlink > 0)
      BY <3>2, SMT
    <3>4. dir[n] # i
      BY <3>1, <3>3
    <3> QED BY <1>7, <3>1, <3>4
  <2> QED BY <1>6, <1>9, <1>10, <2>2, <2>3, LinksSame
<1> QED
  BY <1>9, <1>10, <1>11, <1>12, <1>13, <1>17, <1>18, <1>19, <1>20, <1>21, Together

\* The end of iput(): the reference goes with the pointer.
LEMMA IputDropKeeps ==
  ASSUME IInv, NEW p \in Proc, IputDrop(p)
  PROVE  IInv' /\ Frame(p)
<1> DEFINE s == ip[p]
<1>1. /\ pc[p] = "drop" /\ ref' = [ref EXCEPT ![s] = ref[s] - 1] /\ ip' = [ip EXCEPT ![p] = old[p]]
      /\ \/ /\ old[p] = NoSlot /\ pc' = [pc EXCEPT ![p] = "idle"] /\ dlock' = dlock /\ old' = old
         \/ /\ old[p] # NoSlot /\ dlock' = Nobody /\ old' = [old EXCEPT ![p] = NoSlot]
            /\ pc' = [pc EXCEPT ![p] = "bad"]
      /\ UNCHANGED <<dinode, dir, inum, valid, inode, lock, fd, name, fresh>>
  BY DEF IputDrop, At, Goto, diskVars
<1>2. s \in Slot /\ ref[s] \in Nat /\ ref[s] > 0
  BY <1>1, Here DEF HasInode, Holding
<1>3. Types /\ LocalsOf(p) /\ LocksOf(p)
  BY DEF IInv, Calls
<1>4. ref[s] - 1 \in Nat /\ ref[s] - 1 \in Int
  BY <1>2, SMT
<1>5. /\ ref' \in [Slot -> Nat] /\ ref'[s] = ref[s] - 1 /\ \A t \in Slot \ {s} : ref'[t] = ref[t]
  BY <1>1, <1>2, <1>3, <1>4 DEF Types
<1>6. /\ pc' \in [Proc -> Label] /\ ip' \in [Proc -> Slot \cup {NoSlot}]
      /\ old' \in [Proc -> Slot \cup {NoSlot}]
      /\ ip'[p] = old[p] /\ old'[p] = NoSlot
      /\ \/ old[p] = NoSlot /\ pc'[p] = "idle" /\ dlock' = dlock
         \/ old[p] # NoSlot /\ pc'[p] = "bad" /\ dlock' = Nobody
      /\ \A q \in Proc \ {p} : pc'[q] = pc[q] /\ ip'[q] = ip[q] /\ old'[q] = old[q]
  BY <1>1, <1>3 DEF Types, Label
<1>7. Types'
  BY <1>1, <1>3, <1>5, <1>6 DEF Types
<1>8. old[p] # NoSlot => dlock = p /\ old[p] \in Slot
  BY <1>1, <1>3 DEF LocksOf, Types
<1>9. Frame(p)
  <2>1. \A q \in Proc \ {p} : dlock' = q <=> dlock = q
    BY <1>6, <1>8, InodeAssumption
  <2>2. UNCHANGED <<inum, lock, fd, name, fresh>>
    BY <1>1
  <2> QED BY <1>6, <2>1, <2>2 DEF Frame
<1>10. LocalsOf(p)'
  BY <1>1, <1>3, <1>6, <1>8 DEF LocalsOf, HasInode, Holding, InCreate
<1>11. LocksOf(p)'
  <2>1. \A t \in Slot : lock'[t] # p
    BY <1>1, <1>3 DEF LocksOf, Holding
  <2> QED BY <1>1, <1>3, <1>6, <1>8, <2>1, InodeAssumption DEF LocksOf, Holding, InCreate
<1>12. KnowsOf(p)'
  BY <1>6 DEF KnowsOf, InCreate
<1>13. Uses(p)' \subseteq Uses(p)
  <2>1. Pointers(p)' \subseteq Pointers(p)
    BY <1>1, <1>6, InodeAssumption DEF Pointers
  <2> QED BY <1>7, <1>9, <1>10, <2>1, UsesShrink
<1>14. RefsCounted'
  <2>1. ASSUME NEW t \in Slot
        PROVE  ref'[t] = ref[t] + Is(ip'[p], t) - Is(ip[p], t)
                         + Is(old'[p], t) - Is(old[p], t) + Is(fd'[p], t) - Is(fd[p], t)
    <3>1. ref[t] \in Int /\ ref'[t] = IF t = s THEN ref[t] - 1 ELSE ref[t]
      BY <1>3, <1>5, SMT DEF Types
    <3>2. Is(ip'[p], t) = Is(old[p], t) /\ Is(fd'[p], t) = Is(fd[p], t)
      BY <1>1, <1>6
    <3>3. Is(old'[p], t) = 0
      BY <1>6, InodeAssumption DEF Is
    <3>4. \A x, y : Is(x, y) \in Int
      BY SMT DEF Is
    <3>5. Is(ip[p], t) = IF t = s THEN 1 ELSE 0
      BY SMT DEF Is
    <3> QED BY <3>1, <3>2, <3>3, <3>4, <3>5, SMT
  <2>2. Repointed(p)
    BY <2>1 DEF Repointed
  <2> QED BY <1>9, <2>2, RefsStep
<1>15. \A t \in Slot : ref'[t] > 0 => ref[t] > 0
  BY <1>2, <1>5
<1>16. Entries'
  <2> SUFFICES ASSUME NEW t \in Slot, ref'[t] > 0
               PROVE  /\ inum[t] \in Inum
                      /\ \A u \in Slot : ref'[u] > 0 /\ inum[u] = inum[t] => t = u
                      /\ valid[t] => inode[t] = dinode[inum[t]] /\ inode[t].type = T_FILE
    BY <1>1 DEF Entries, Cached
  <2> QED BY <1>15 DEF IInv, Entries, Cached
<1>17. Gentle(p)
  BY <1>1, <1>5, <1>13, <1>15 DEF Gentle
<1>18. Alloc'
  <2>1. \A i \in Uses(p)' : dinode'[i].type = T_FILE
    BY <1>1, <1>13 DEF IInv, Alloc
  <2> QED BY <1>1, <1>7, <1>9, <2>1, AllocStep DEF IInv, Alloc
<1>19. ASSUME NEW i \in Inum PROVE Owes(p, i)' = Owes(p, i)
  <2>1. p \notin Working(i, HalfDone) /\ p \notin Kept(i)'
    BY <1>1, <1>6 DEF Working, Kept, HalfDone
  <2>2. p \in Working(i, HalfDone)' <=> p \in Kept(i)
    BY <1>1, <1>6 DEF Working, Kept, HalfDone
  <2> QED BY <2>1, <2>2, SMT DEF Owes, Has
<1>20. LinksCounted'
  <2>1. ASSUME NEW i \in Inum PROVE dinode'[i].nlink = dinode[i].nlink + Owes(p, i)' - Owes(p, i)
    <3>1. dinode[i].nlink \in Int
      BY <1>3, Fields DEF Types
    <3>2. Owes(p, i) \in Int
      BY SMT DEF Owes, Has
    <3> QED BY <1>1, <1>19, <3>1, <3>2, SMT
  <2>2. \A n \in Name : dir[n] # NoInum => dinode'[dir[n]].type = T_FILE
    BY <1>1, Named
  <2> QED BY <1>1, <1>7, <1>9, <2>1, <2>2, LinksSame
<1> QED
  BY <1>7, <1>9, <1>10, <1>11, <1>12, <1>14, <1>16, <1>17, <1>18, <1>20, Together

\* ialloc(): a free inode is in no use and has no valid copy in the cache, even if
\* an entry for it still has references.
LEMMA IallocKeeps ==
  ASSUME IInv, NEW p \in Proc, Ialloc(p)
  PROVE  IInv' /\ Frame(p)
<1>1. /\ pc[p] = "ialloc"
      /\ UNCHANGED <<dir, dlock, inum, ref, valid, inode, lock, ip, fd, old, name>>
  BY DEF Ialloc, At, cacheVars
<1>2. Types /\ LocalsOf(p) /\ LocksOf(p) /\ KnowsOf(p)
  BY DEF IInv, Calls
<1>3. /\ dlock = p /\ name[p] \in Name /\ dir[name[p]] = NoInum /\ old[p] = NoSlot
      /\ ip[p] = NoSlot /\ fd[p] = NoSlot /\ fresh[p] = NoInum
  BY <1>1, <1>2 DEF LocalsOf, LocksOf, KnowsOf, InCreate, HasInode, Holding
<1>4. ASSUME dinode' = dinode, fresh' = fresh, pc' = [pc EXCEPT ![p] = "no inodes"] PROVE IInv' /\ Frame(p)
  <2>1. pc'[p] = "no inodes" /\ pc' \in [Proc -> Label] /\ \A q \in Proc \ {p} : pc'[q] = pc[q]
    BY <1>2, <1>4 DEF Types, Label
  <2>2. Types'
    BY <1>1, <1>2, <1>4, <2>1 DEF Types
  <2>3. Frame(p)
    BY <1>1, <1>4, <2>1 DEF Frame
  <2>4. LocalsOf(p)'
    BY <1>1, <1>3, <1>4, <2>1 DEF LocalsOf, HasInode, Holding, InCreate
  <2>5. LocksOf(p)'
    BY <1>1, <1>2, <1>3, <2>1 DEF LocksOf, Holding
  <2>6. KnowsOf(p)'
    BY <2>1 DEF KnowsOf, InCreate
  <2>7. Pointers(p)' \subseteq Pointers(p)
    BY <1>1, <2>1 DEF Pointers, Using
  <2>8. \A i \in Inum : Owes(p, i)' = Owes(p, i)
    BY <1>1, <2>1, <2>3, OwesSame DEF HalfDone
  <2> QED BY <1>1, <1>4, <2>2, <2>3, <2>4, <2>5, <2>6, <2>7, <2>8, QuietKeeps
<1>5. ASSUME NEW i \in Inum, dinode[i].type = FreeType,
             dinode' = [dinode EXCEPT ![i] = [Empty EXCEPT !.type = T_FILE]],
             fresh' = [fresh EXCEPT ![p] = i], pc' = [pc EXCEPT ![p] = "iget"]
      PROVE  IInv' /\ Frame(p)
  <2> DEFINE e == [Empty EXCEPT !.type = T_FILE]
  <2>a. e \in Dinode /\ e.type = T_FILE /\ e.nlink = 0
    BY NewFields
  <2>b. T_FILE # FreeType
    BY SMT DEF T_FILE, FreeType
  <2> HIDE DEF e
  <2>1. /\ pc'[p] = "iget" /\ pc' \in [Proc -> Label] /\ \A q \in Proc \ {p} : pc'[q] = pc[q]
        /\ fresh'[p] = i /\ fresh' \in [Proc -> Inum \cup {NoInum}]
        /\ \A q \in Proc \ {p} : fresh'[q] = fresh[q]
    BY <1>2, <1>5 DEF Types, Label
  <2>c. dinode' \in [Inum -> Dinode] /\ dinode'[i] = e /\ \A j \in Inum \ {i} : dinode'[j] = dinode[j]
    BY <1>2, <1>5, <2>a DEF Types, e
  <2>2. Types'
    BY <1>1, <1>2, <2>1, <2>c DEF Types
  <2>3. Frame(p)
    BY <1>1, <2>1 DEF Frame
  <2>4. LocalsOf(p)'
    BY <1>1, <1>3, <2>1, InodeAssumption DEF LocalsOf, HasInode, Holding, InCreate
  <2>5. LocksOf(p)'
    BY <1>1, <1>2, <1>3, <2>1 DEF LocksOf, Holding, InCreate
  <2>6. Uses(p)' \subseteq Uses(p)
    <3>1. Pointers(p)' \subseteq Pointers(p)
      BY <1>1, <2>1 DEF Pointers, Using
    <3> QED BY <2>2, <2>3, <2>4, <3>1, UsesShrink
  <2>7. \A q \in Proc : i \notin Uses(q)
    BY <1>5, <2>b DEF IInv, Alloc
  <2>8. \A s \in Slot : Cached(s, i) => ~valid[s]
    <3> SUFFICES ASSUME NEW s \in Slot, ref[s] > 0, inum[s] = i, valid[s] PROVE FALSE
      BY DEF Cached
    <3>1. inode[s] = dinode[inum[s]] /\ inode[s].type = T_FILE
      BY DEF IInv, Entries
    <3> QED BY <1>5, <2>b, <3>1
  <2>9. New(i)'
    <3>1. \A q \in Proc : i \notin Uses(q)'
      BY <2>2, <2>3, <2>6, <2>7, UsesFrame
    <3>2. \A s \in Slot : Cached(s, i)' => ~valid'[s]
      BY <1>1, <2>8 DEF Cached
    <3> QED BY <2>c, <3>1, <3>2 DEF New, e
  <2>10. KnowsOf(p)'
    BY <1>1, <1>3, <2>1, <2>9 DEF KnowsOf, InCreate
  <2>11. RefsCounted'
    BY <1>1 DEF IInv, RefsCounted
  <2>12. Entries'
    <3> SUFFICES ASSUME NEW t \in Slot, ref[t] > 0
                 PROVE  /\ inum[t] \in Inum
                        /\ \A u \in Slot : ref[u] > 0 /\ inum[u] = inum[t] => t = u
                        /\ valid[t] => inode[t] = dinode'[inum[t]] /\ inode[t].type = T_FILE
      BY <1>1 DEF Entries, Cached
    <3>1. /\ inum[t] \in Inum
          /\ \A u \in Slot : ref[u] > 0 /\ inum[u] = inum[t] => t = u
          /\ valid[t] => inode[t] = dinode[inum[t]] /\ inode[t].type = T_FILE
      BY DEF IInv, Entries, Cached
    <3> QED BY <2>8, <2>c, <3>1 DEF Cached
  <2>13. Gentle(p)
    BY <1>1, <1>3, <2>6 DEF Gentle
  <2>14. Alloc'
    <3>1. \A j \in Inum : dinode[j].type = T_FILE => dinode'[j].type = T_FILE
      BY <2>a, <2>c
    <3>2. \A j \in Inum : dinode'[j].type = FreeType => dinode'[j].nlink = 0
      BY <2>a, <2>c DEF IInv, Alloc
    <3>3. \A j \in Uses(p)' : dinode'[j].type = T_FILE
      BY <2>6, <3>1 DEF IInv, Alloc, Uses
    <3> QED BY <2>2, <2>3, <3>1, <3>2, <3>3, AllocStep
  <2>15. LinksCounted'
    <3>1. \A j \in Inum : Owes(p, j)' = Owes(p, j)
      BY <1>1, <2>1, <2>3, OwesSame DEF HalfDone
    <3>2. ASSUME NEW j \in Inum PROVE dinode'[j].nlink = dinode[j].nlink + Owes(p, j)' - Owes(p, j)
      <4>1. dinode[j].nlink \in Int
        BY <1>2, Fields DEF Types
      <4>2. dinode'[j].nlink = dinode[j].nlink
        BY <1>5, <2>a, <2>c DEF IInv, Alloc
      <4>3. Owes(p, j) \in Int
        BY SMT DEF Owes, Has
      <4> QED BY <3>1, <4>1, <4>2, <4>3, SMT
    <3>3. \A n \in Name : dir[n] # NoInum => dinode'[dir[n]].type = T_FILE
      BY <2>a, <2>c, Named
    <3> QED BY <1>1, <2>2, <2>3, <3>2, <3>3, LinksSame
  <2> QED
    BY <2>2, <2>3, <2>4, <2>5, <2>10, <2>11, <2>12, <2>13, <2>14, <2>15, Together
<1> QED BY <1>4, <1>5 DEF Ialloc, Goto

-----------------------------------------------------------------------------
(* Steps that look an inode up *)

\* iget() of inode i by p gives entry s, or NoSlot when the cache is full.
Gets(p, i, s) ==
  /\ ip'[p] = s
  /\ s \in Slot =>
       /\ inum'[s] = i /\ ref'[s] = ref[s] + 1
       /\ valid'[s] <=> valid[s] /\ ref[s] > 0
       /\ ref[s] > 0 => inum[s] = i
       /\ ref[s] = 0 => \A t \in Slot : ~Cached(t, i)
  /\ \A t \in Slot \ {s} : inum'[t] = inum[t] /\ ref'[t] = ref[t] /\ valid'[t] = valid[t]

\* iget() does as Gets says.
LEMMA IgetGets ==
  ASSUME IInv, NEW p \in Proc, NEW i \in Inum, NEW l \in Label, Iget(p, i, l)
  PROVE  /\ inum' \in [Slot -> Inum \cup {NoInum}] /\ ref' \in [Slot -> Nat]
         /\ valid' \in [Slot -> BOOLEAN] /\ pc' \in [Proc -> Label]
         /\ ip' \in [Proc -> Slot \cup {NoSlot}]
         /\ \A q \in Proc \ {p} : pc'[q] = pc[q] /\ ip'[q] = ip[q]
         /\ Gets(p, i, ip'[p])
         /\ pc'[p] = IF ip'[p] \in Slot THEN l ELSE "no inodes"
<1>1. Types
  BY DEF IInv
<1>2. CASE IgetHit(p, i) /\ Goto(p, l)
  <2>1. PICK s \in Slot : /\ Cached(s, i) /\ ref' = [ref EXCEPT ![s] = ref[s] + 1]
                          /\ ip' = [ip EXCEPT ![p] = s]
                          /\ UNCHANGED <<inum, valid>> /\ pc' = [pc EXCEPT ![p] = l]
    BY <1>2 DEF IgetHit, Goto
  <2>2. ref[s] \in Nat /\ ref[s] + 1 \in Nat /\ ref[s] > 0 /\ ref[s] # 0 /\ inum[s] = i
    BY <1>1, <2>1, SMT DEF Cached, Types
  <2>3. /\ ref' \in [Slot -> Nat] /\ ref'[s] = ref[s] + 1 /\ \A t \in Slot \ {s} : ref'[t] = ref[t]
    BY <1>1, <2>1, <2>2 DEF Types
  <2>4. /\ pc' \in [Proc -> Label] /\ ip' \in [Proc -> Slot \cup {NoSlot}] /\ ip'[p] = s
        /\ pc'[p] = l /\ \A q \in Proc \ {p} : pc'[q] = pc[q] /\ ip'[q] = ip[q]
    BY <1>1, <2>1 DEF Types
  <2> QED BY <1>1, <2>1, <2>2, <2>3, <2>4 DEF Gets, Types
<1>3. CASE /\ \A s \in Slot : ~Cached(s, i)
           /\ Recycle(p, i)
           /\ Goto(p, IF \E s \in Slot : FirstEmpty(s) THEN l ELSE "no inodes")
  <2>1. /\ inum' = [s \in Slot |-> IF FirstEmpty(s) THEN i ELSE inum[s]]
        /\ ref' = [s \in Slot |-> IF FirstEmpty(s) THEN 1 ELSE ref[s]]
        /\ valid' = [s \in Slot |-> ~FirstEmpty(s) /\ valid[s]]
    BY <1>3 DEF Recycle
  <2>2. \A s \in Slot : FirstEmpty(s) \in BOOLEAN
    BY DEF FirstEmpty
  <2>3. /\ inum' \in [Slot -> Inum \cup {NoInum}] /\ ref' \in [Slot -> Nat]
        /\ valid' \in [Slot -> BOOLEAN]
    <3>1. 1 \in Nat
      OBVIOUS
    <3> QED BY <1>1, <2>1, <2>2, <3>1 DEF Types
  <2>4. CASE \E s \in Slot : FirstEmpty(s)
    <3> DEFINE s == CHOOSE t \in Slot : FirstEmpty(t)
    <3>1. s \in Slot /\ FirstEmpty(s)
      BY <2>4
    <3>2. ip' = [ip EXCEPT ![p] = s] /\ pc' = [pc EXCEPT ![p] = l]
      BY <1>3, <2>4 DEF Recycle, Goto
    <3> HIDE DEF s
    <3>3. /\ pc' \in [Proc -> Label] /\ ip' \in [Proc -> Slot \cup {NoSlot}] /\ ip'[p] = s
          /\ pc'[p] = l /\ \A q \in Proc \ {p} : pc'[q] = pc[q] /\ ip'[q] = ip[q]
      BY <1>1, <3>1, <3>2 DEF Types
    <3>4. ref[s] = 0 /\ ~(ref[s] > 0) /\ ref[s] + 1 = 1
      BY <3>1, SMT DEF FirstEmpty
    <3>5. ASSUME NEW t \in Slot, t # s, FirstEmpty(t) PROVE FALSE
      <4>1. s \in Int /\ t \in Int /\ ref[t] = 0 /\ ref[s] = 0
            /\ (\A u \in 1..(s - 1) : ref[u] > 0) /\ (\A u \in 1..(t - 1) : ref[u] > 0)
        BY <3>1, <3>5, SMT DEF FirstEmpty, Slot
      <4>2. s \in 1..(t - 1) \/ t \in 1..(s - 1)
        BY <3>1, <3>5, SMT DEF Slot
      <4> QED BY <4>1, <4>2, SMT
    <3>6. /\ inum'[s] = i /\ ref'[s] = 1 /\ ~valid'[s]
          /\ \A t \in Slot \ {s} : inum'[t] = inum[t] /\ ref'[t] = ref[t]
      BY <2>1, <3>1, <3>5
    <3>7. \A t \in Slot \ {s} : valid'[t] = valid[t]
      BY <1>1, <2>1, <3>5 DEF Types
    <3> QED BY <1>3, <2>3, <3>1, <3>3, <3>4, <3>6, <3>7 DEF Gets
  <2>5. CASE ~ \E s \in Slot : FirstEmpty(s)
    <3>1. ip' = [ip EXCEPT ![p] = NoSlot] /\ pc' = [pc EXCEPT ![p] = "no inodes"]
      BY <1>3, <2>5 DEF Recycle, Goto
    <3>2. /\ pc' \in [Proc -> Label] /\ ip' \in [Proc -> Slot \cup {NoSlot}] /\ ip'[p] = NoSlot
          /\ pc'[p] = "no inodes" /\ \A q \in Proc \ {p} : pc'[q] = pc[q] /\ ip'[q] = ip[q]
      BY <1>1, <3>1 DEF Types, Label
    <3>3. \A t \in Slot : inum'[t] = inum[t] /\ ref'[t] = ref[t]
      BY <2>1, <2>5
    <3>4. \A t \in Slot : valid'[t] = valid[t]
      BY <1>1, <2>1, <2>5 DEF Types
    <3> QED BY <2>3, <3>2, <3>3, <3>4, InodeAssumption DEF Gets
  <2> QED BY <2>4, <2>5
<1> QED BY <1>2, <1>3 DEF Iget

\* NoSlot points to no entry.
LEMMA NoPointer ==
  ASSUME NEW t \in Slot, NEW x
  PROVE  Is(x, t) = Is(x, t) + Is(NoSlot, t)
<1>1. t # NoSlot
  BY InodeAssumption
<1> QED BY <1>1, SMT DEF Is

\* A step that calls iget().
LEMMA GetKeeps ==
  ASSUME IInv, Types', NEW p \in Proc, Frame(p), LocalsOf(p)', LocksOf(p)', KnowsOf(p)',
         NEW i \in Inum, Gets(p, i, ip'[p]),
         UNCHANGED <<dinode, dir, inode, fd>>,
         \A t \in Slot : Is(old'[p], t) = Is(old[p], t) + Is(ip[p], t),
         Pointers(p)' \subseteq Pointers(p) \cup {ip'[p]},
         dinode[i].type = T_FILE, dinode[i].nlink # 0 \/ (New(i) /\ dlock = p),
         \A j \in Inum : Owes(p, j)' = Owes(p, j)
  PROVE  IInv'
<1> DEFINE s == ip'[p]
<1>g. \A t \in Slot \ {s} : inum'[t] = inum[t] /\ ref'[t] = ref[t] /\ valid'[t] = valid[t]
  BY DEF Gets
<1>h. s \in Slot =>
        /\ inum'[s] = i /\ ref'[s] = ref[s] + 1
        /\ valid'[s] <=> valid[s] /\ ref[s] > 0
        /\ ref[s] > 0 => inum[s] = i
        /\ ref[s] = 0 => \A t \in Slot : ~Cached(t, i)
  BY DEF Gets
<1>1. Uses(p)' \subseteq Uses(p) \cup {i}
  <2>1. CASE s \in Slot
    <3>1. inum'[s] = i
      BY <1>h, <2>1
    <3> QED BY <2>1, <3>1, UsesGrow
  <2>2. CASE s \notin Slot
    <3>1. Pointers(p)' \subseteq Pointers(p)
      BY <2>2 DEF Pointers
    <3> QED BY <3>1, UsesShrink
  <2> QED BY <2>1, <2>2
<1>2. \A t \in Slot : ref[t] \in Nat
  BY DEF IInv, Types
<1>3. RefsCounted'
  <2>1. ASSUME NEW t \in Slot
        PROVE  ref'[t] = ref[t] + Is(ip'[p], t) - Is(ip[p], t)
                         + Is(old'[p], t) - Is(old[p], t) + Is(fd'[p], t) - Is(fd[p], t)
    <3>1. ref'[t] = IF t = s THEN ref[t] + 1 ELSE ref[t]
      BY DEF Gets
    <3>2. \A x, y : Is(x, y) \in Int
      BY SMT DEF Is
    <3>3. Is(ip'[p], t) = IF t = s THEN 1 ELSE 0
      BY SMT DEF Is
    <3>4. Is(old'[p], t) = Is(old[p], t) + Is(ip[p], t) /\ Is(fd'[p], t) = Is(fd[p], t)
      OBVIOUS
    <3> QED BY <1>2, <3>1, <3>2, <3>3, <3>4, SMT
  <2>2. Repointed(p)
    BY <2>1 DEF Repointed
  <2> QED BY <2>2, RefsStep
<1>4. \A t \in Slot : t # s => (ref'[t] > 0 <=> ref[t] > 0)
  BY DEF Gets
<1>5. \A t \in Slot : ref[t] = 0 \/ ref[t] > 0
  BY <1>2, SMT
<1>6. Entries'
  <2> SUFFICES ASSUME NEW t \in Slot, ref'[t] > 0
               PROVE  /\ inum'[t] \in Inum
                      /\ \A u \in Slot : ref'[u] > 0 /\ inum'[u] = inum'[t] => t = u
                      /\ valid'[t] => inode[t] = dinode[inum'[t]] /\ inode[t].type = T_FILE
    BY DEF Entries, Cached
  <2>1. \A v \in Slot : ref[v] > 0 =>
          /\ inum[v] \in Inum
          /\ \A u \in Slot : ref[u] > 0 /\ inum[u] = inum[v] => v = u
          /\ valid[v] => inode[v] = dinode[inum[v]] /\ inode[v].type = T_FILE
    BY DEF IInv, Entries, Cached
  <2>2. inum'[t] \in Inum
    <3>1. CASE t = s
      BY <1>h, <3>1
    <3>2. CASE t # s
      BY <1>4, <1>g, <2>1, <3>2
    <3> QED BY <3>1, <3>2
  <2>3. ASSUME NEW u \in Slot, u # s, ref'[u] > 0, s \in Slot PROVE inum'[u] # i
    <3>1. ref[u] > 0 /\ inum'[u] = inum[u]
      BY <1>4, <1>g, <2>3
    <3>2. CASE ref[s] > 0
      <4>1. inum[s] = i
        BY <1>h, <2>3, <3>2
      <4> QED BY <2>1, <2>3, <3>1, <3>2, <4>1
    <3>3. CASE ref[s] = 0
      <4>1. ~Cached(u, i)
        BY <1>h, <2>3, <3>3
      <4> QED BY <3>1, <4>1 DEF Cached
    <3> QED BY <1>5, <2>3, <3>2, <3>3
  <2>4. ASSUME NEW u \in Slot, ref'[u] > 0, inum'[u] = inum'[t] PROVE t = u
    <3>1. CASE t = s
      BY <1>h, <2>3, <2>4, <3>1
    <3>2. CASE u = s
      BY <1>h, <2>3, <2>4, <3>2
    <3>3. CASE t # s /\ u # s
      <4>1. ref[t] > 0 /\ ref[u] > 0 /\ inum[u] = inum[t]
        BY <1>4, <1>g, <2>4, <3>3
      <4> QED BY <2>1, <4>1
    <3> QED BY <3>1, <3>2, <3>3
  <2>5. valid'[t] => inode[t] = dinode[inum'[t]] /\ inode[t].type = T_FILE
    <3> SUFFICES ASSUME valid'[t] PROVE inode[t] = dinode[inum'[t]] /\ inode[t].type = T_FILE
      OBVIOUS
    <3>1. ref[t] > 0 /\ valid[t] /\ inum'[t] = inum[t]
      <4>1. CASE t = s
        BY <1>h, <4>1
      <4>2. CASE t # s
        BY <1>4, <1>g, <4>2
      <4> QED BY <4>1, <4>2
    <3> QED BY <2>1, <3>1
  <2> QED BY <2>2, <2>4, <2>5
<1>7. Gentle(p)
  <2>1. \A t \in Slot : ref'[t] > 0 /\ valid'[t] => ref[t] > 0 /\ valid[t]
    BY <1>4 DEF Gets
  <2>2. \A j \in Uses(p)' : j \in Uses(p) \/ dinode[j].nlink # 0 \/ dlock = p
    BY <1>1
  <2>3. \A t \in Slot : \/ valid'[t] = valid[t] /\ inode'[t] = inode[t] /\ ref'[t] = ref[t]
                        \/ ref[t] = 0 \/ ~valid[t] \/ dinode[inum[t]].nlink # 0
    <3>1. ASSUME s \in Slot, ref[s] > 0, valid[s] PROVE dinode[inum[s]].nlink # 0
      BY <3>1 DEF Gets, New, Cached
    <3> QED BY <1>5, <3>1 DEF Gets
  <2>4. \A t \in Slot : valid[t] => valid'[t] \/ ref[t] = 0
    BY <1>5 DEF Gets
  <2> QED BY <2>1, <2>2, <2>3, <2>4 DEF Gentle
<1>8. Alloc'
  <2>1. \A j \in Uses(p)' : dinode[j].type = T_FILE
    BY <1>1 DEF IInv, Alloc
  <2> QED BY <2>1, AllocStep DEF IInv, Alloc
<1>9. LinksCounted'
  <2>1. ASSUME NEW j \in Inum PROVE dinode'[j].nlink = dinode[j].nlink + Owes(p, j)' - Owes(p, j)
    <3>1. dinode[j].nlink \in Int
      BY Fields DEF IInv, Types
    <3>2. Owes(p, j) \in Int
      BY SMT DEF Owes, Has
    <3> QED BY <3>1, <3>2, SMT
  <2>2. \A n \in Name : dir[n] # NoInum => dinode'[dir[n]].type = T_FILE
    BY Named
  <2> QED BY <2>1, <2>2, LinksSame
<1> QED BY <1>3, <1>6, <1>7, <1>8, <1>9, Together

\* namei() for sys_open() and sys_link().
LEMMA NameiKeeps ==
  ASSUME IInv, NEW p \in Proc, NEW n \in Name, NEW l \in {"open", "link"}, Namei(p, n, l),
         l = "open" => fd[p] = NoSlot
  PROVE  IInv' /\ Frame(p)
<1> DEFINE i == dir[n]
<1>1. /\ pc[p] = "idle" /\ dlock = Nobody /\ i # NoInum /\ Iget(p, i, l)
      /\ UNCHANGED <<dinode, dir, dlock, inode, lock, fd, old, name, fresh>>
  BY DEF Namei, At, Dirlookup, diskVars
<1>2. i \in Inum /\ dinode[i].nlink # 0 /\ dinode[i].type = T_FILE
  <2>1. i \in Inum /\ dinode[i].nlink \in Int /\ dinode[i].nlink > 0 /\ dinode[i].type = T_FILE
    BY <1>1, Named
  <2>2. dinode[i].nlink # 0
    BY <2>1, SMT
  <2> QED BY <2>1, <2>2
<1>3. Types /\ LocalsOf(p) /\ LocksOf(p)
  BY DEF IInv, Calls
<1>4. l \in Label
  BY DEF Label
<1>5. /\ inum' \in [Slot -> Inum \cup {NoInum}] /\ ref' \in [Slot -> Nat]
      /\ valid' \in [Slot -> BOOLEAN] /\ pc' \in [Proc -> Label]
      /\ ip' \in [Proc -> Slot \cup {NoSlot}]
      /\ \A q \in Proc \ {p} : pc'[q] = pc[q] /\ ip'[q] = ip[q]
      /\ Gets(p, i, ip'[p])
      /\ pc'[p] = IF ip'[p] \in Slot THEN l ELSE "no inodes"
  BY <1>1, <1>2, <1>4, IgetGets
<1>6. Types'
  BY <1>1, <1>3, <1>5 DEF Types
<1>7. Frame(p)
  <2>1. \A t \in Slot : ref[t] > 0 => inum'[t] = inum[t]
    BY <1>5 DEF Gets
  <2> QED BY <1>1, <1>5, <2>1 DEF Frame
<1>8. /\ ip'[p] \in Slot \cup {NoSlot} /\ ip[p] = NoSlot /\ old[p] = NoSlot /\ fresh[p] = NoInum
      /\ pc'[p] \in {"open", "link", "no inodes"}
      /\ ip'[p] \in Slot <=> pc'[p] # "no inodes"
      /\ pc'[p] = "open" => fd[p] = NoSlot
  BY <1>1, <1>3, <1>5 DEF LocalsOf, HasInode, Holding
<1>9. LocalsOf(p)'
  BY <1>1, <1>8 DEF LocalsOf, HasInode, Holding, InCreate
<1>10. LocksOf(p)'
  BY <1>1, <1>3, <1>8, InodeAssumption DEF LocksOf, Holding, InCreate
<1>11. KnowsOf(p)'
  BY <1>8 DEF KnowsOf, InCreate
<1>12. Pointers(p)' \subseteq Pointers(p) \cup {ip'[p]}
  BY <1>1 DEF Pointers
<1>13. \A t \in Slot : Is(old'[p], t) = Is(old[p], t) + Is(ip[p], t)
  BY <1>1, <1>8, NoPointer
<1>14. \A j \in Inum : Owes(p, j)' = Owes(p, j)
  BY <1>1, <1>7, <1>8, OwesSame DEF HalfDone
<1> QED
  BY <1>1, <1>2, <1>5, <1>6, <1>7, <1>9, <1>10, <1>11, <1>12, <1>13, <1>14, GetKeeps

\* sys_unlink() finds the name, with the directory locked.
LEMMA UnlinkKeeps ==
  ASSUME IInv, NEW p \in Proc, NEW n \in Name, Unlink(p, n)
  PROVE  IInv' /\ Frame(p)
<1> DEFINE i == dir[n]
<1>1. /\ pc[p] = "idle" /\ dlock = Nobody /\ i # NoInum /\ Iget(p, i, "unlink")
      /\ dlock' = p /\ name' = [name EXCEPT ![p] = n]
      /\ UNCHANGED <<dinode, dir, inode, lock, fd, old, fresh>>
  BY DEF Unlink, At, Dirlookup, diskVars
<1>2. i \in Inum /\ dinode[i].nlink # 0 /\ dinode[i].type = T_FILE
  <2>1. i \in Inum /\ dinode[i].nlink \in Int /\ dinode[i].nlink > 0 /\ dinode[i].type = T_FILE
    BY <1>1, Named
  <2>2. dinode[i].nlink # 0
    BY <2>1, SMT
  <2> QED BY <2>1, <2>2
<1>3. Types /\ LocalsOf(p) /\ LocksOf(p)
  BY DEF IInv, Calls
<1>4. "unlink" \in Label
  BY DEF Label
<1>5. /\ inum' \in [Slot -> Inum \cup {NoInum}] /\ ref' \in [Slot -> Nat]
      /\ valid' \in [Slot -> BOOLEAN] /\ pc' \in [Proc -> Label]
      /\ ip' \in [Proc -> Slot \cup {NoSlot}]
      /\ \A q \in Proc \ {p} : pc'[q] = pc[q] /\ ip'[q] = ip[q]
      /\ Gets(p, i, ip'[p])
      /\ pc'[p] = IF ip'[p] \in Slot THEN "unlink" ELSE "no inodes"
  BY <1>1, <1>2, <1>4, IgetGets
<1>n. name' \in [Proc -> Name \cup {NoName}] /\ name'[p] = n /\ \A q \in Proc \ {p} : name'[q] = name[q]
  BY <1>1, <1>3 DEF Types
<1>6. Types'
  BY <1>1, <1>3, <1>5, <1>n DEF Types
<1>7. Frame(p)
  <2>1. \A t \in Slot : ref[t] > 0 => inum'[t] = inum[t]
    BY <1>5 DEF Gets
  <2> QED BY <1>1, <1>5, <1>n, <2>1, InodeAssumption DEF Frame
<1>8. /\ ip'[p] \in Slot \cup {NoSlot} /\ ip[p] = NoSlot /\ old[p] = NoSlot /\ fresh[p] = NoInum
      /\ pc'[p] \in {"unlink", "no inodes"}
      /\ ip'[p] \in Slot <=> pc'[p] # "no inodes"
  BY <1>1, <1>3, <1>5 DEF LocalsOf, HasInode, Holding
<1>9. LocalsOf(p)'
  BY <1>1, <1>8, <1>n DEF LocalsOf, HasInode, Holding, InCreate
<1>10. LocksOf(p)'
  BY <1>1, <1>3, <1>8, InodeAssumption DEF LocksOf, Holding, InCreate
<1>11. KnowsOf(p)'
  BY <1>1, <1>5, <1>8, <1>n DEF KnowsOf, InCreate, Gets
<1>12. Pointers(p)' \subseteq Pointers(p) \cup {ip'[p]}
  BY <1>1 DEF Pointers
<1>13. \A t \in Slot : Is(old'[p], t) = Is(old[p], t) + Is(ip[p], t)
  BY <1>1, <1>8, NoPointer
<1>14. \A j \in Inum : Owes(p, j)' = Owes(p, j)
  BY <1>1, <1>7, <1>8, OwesSame DEF HalfDone
<1> QED
  BY <1>1, <1>2, <1>5, <1>6, <1>7, <1>9, <1>10, <1>11, <1>12, <1>13, <1>14, GetKeeps

\* iget() at the end of ialloc().
LEMMA IallocGetKeeps ==
  ASSUME IInv, NEW p \in Proc, IallocGet(p)
  PROVE  IInv' /\ Frame(p)
<1>i. PICK i : i = fresh[p]
  OBVIOUS
<1>1. /\ pc[p] = "iget" /\ Iget(p, i, "create") /\ fresh' = [fresh EXCEPT ![p] = NoInum]
      /\ UNCHANGED <<dinode, dir, dlock, inode, lock, fd, old, name>>
  BY <1>i DEF IallocGet, At, diskVars
<1>2. Types /\ LocalsOf(p) /\ LocksOf(p) /\ KnowsOf(p)
  BY DEF IInv, Calls
<1>3. /\ i \in Inum /\ New(i) /\ dlock = p /\ name[p] \in Name /\ dir[name[p]] = NoInum
      /\ ip[p] = NoSlot /\ old[p] = NoSlot /\ fd[p] = NoSlot
  BY <1>1, <1>2, <1>i DEF LocalsOf, LocksOf, KnowsOf, InCreate, HasInode, Holding
<1>4. dinode[i].type = T_FILE
  BY <1>3, NewFields DEF New
<1>5. "create" \in Label
  BY DEF Label
<1>6. /\ inum' \in [Slot -> Inum \cup {NoInum}] /\ ref' \in [Slot -> Nat]
      /\ valid' \in [Slot -> BOOLEAN] /\ pc' \in [Proc -> Label]
      /\ ip' \in [Proc -> Slot \cup {NoSlot}]
      /\ \A q \in Proc \ {p} : pc'[q] = pc[q] /\ ip'[q] = ip[q]
      /\ Gets(p, i, ip'[p])
      /\ pc'[p] = IF ip'[p] \in Slot THEN "create" ELSE "no inodes"
  BY <1>1, <1>3, <1>5, IgetGets
<1>n. /\ fresh' \in [Proc -> Inum \cup {NoInum}] /\ fresh'[p] = NoInum
      /\ \A q \in Proc \ {p} : fresh'[q] = fresh[q]
  BY <1>1, <1>2 DEF Types
<1>7. Types'
  BY <1>1, <1>2, <1>6, <1>n DEF Types
<1>8. Frame(p)
  <2>1. \A t \in Slot : ref[t] > 0 => inum'[t] = inum[t]
    BY <1>6 DEF Gets
  <2> QED BY <1>1, <1>6, <1>n, <2>1 DEF Frame
<1>9. /\ ip'[p] \in Slot \cup {NoSlot} /\ pc'[p] \in {"create", "no inodes"}
      /\ ip'[p] \in Slot <=> pc'[p] # "no inodes"
  BY <1>6
<1>10. LocalsOf(p)'
  BY <1>1, <1>3, <1>9, <1>n DEF LocalsOf, HasInode, Holding, InCreate
<1>11. LocksOf(p)'
  BY <1>1, <1>2, <1>3, <1>9, InodeAssumption DEF LocksOf, Holding, InCreate
<1>12. Pointers(p)' \subseteq Pointers(p)
  BY <1>1, <1>9 DEF Pointers, Using
<1>13. New(i)'
  <2>1. Uses(p)' \subseteq Uses(p)
    BY <1>7, <1>8, <1>10, <1>12, UsesShrink
  <2>2. \A q \in Proc : i \notin Uses(q)'
    BY <1>3, <1>7, <1>8, <2>1, UsesFrame DEF New
  <2>3. ASSUME NEW t \in Slot, Cached(t, i)', valid'[t] PROVE FALSE
    <3>1. ref'[t] > 0 /\ inum'[t] = i
      BY <2>3 DEF Cached
    <3>2. ref[t] > 0 /\ inum[t] = i /\ valid[t]
      BY <1>6, <2>3, <3>1 DEF Gets
    <3> QED BY <1>3, <3>2 DEF New, Cached
  <2> QED BY <1>1, <1>3, <2>2, <2>3 DEF New
<1>14. KnowsOf(p)'
  <2>1. pc'[p] = "create" => inum'[ip'[p]] = i
    BY <1>6, <1>9 DEF Gets
  <2>2. pc'[p] = "create" => New(inum[ip[p]])'
    BY <1>13, <2>1
  <2> QED BY <1>1, <1>3, <1>9, <2>2 DEF KnowsOf, InCreate
<1>15. \A t \in Slot : Is(old'[p], t) = Is(old[p], t) + Is(ip[p], t)
  BY <1>1, <1>3, NoPointer
<1>16. \A j \in Inum : Owes(p, j)' = Owes(p, j)
  BY <1>1, <1>8, <1>9, OwesSame DEF HalfDone
<1> QED
  BY <1>1, <1>3, <1>4, <1>6, <1>7, <1>8, <1>10, <1>11, <1>12, <1>14, <1>15, <1>16, GetKeeps

\* dirlink() of sys_link(): the name is entered, or found.
LEMMA LinkDirKeeps ==
  ASSUME IInv, NEW p \in Proc, NEW n \in Name, LinkDir(p, n)
  PROVE  IInv' /\ Frame(p)
<1> DEFINE s == ip[p]
<1>1. pc[p] = "linkdir" /\ dlock = Nobody /\ UNCHANGED <<dinode, inode, lock, fd, name, fresh>>
  BY DEF LinkDir, At
<1>2. /\ s \in Slot /\ inum[s] \in Inum /\ inum[s] \in Uses(p) /\ dinode[inum[s]].type = T_FILE
  BY <1>1, Here DEF HasInode, Using
<1>3. Types /\ LocalsOf(p) /\ LocksOf(p)
  BY DEF IInv, Calls
<1>4. old[p] = NoSlot /\ fresh[p] = NoInum
  BY <1>1, <1>3 DEF LocalsOf
<1>5. "linkdir" \in HalfDone /\ "iput" \notin HalfDone /\ "no inodes" \notin HalfDone
  BY DEF HalfDone
<1>6. ASSUME dir[n] = NoInum, dir' = [dir EXCEPT ![n] = inum[s]], pc' = [pc EXCEPT ![p] = "iput"],
             UNCHANGED <<dlock, inum, ref, valid, ip, old>>
      PROVE  IInv' /\ Frame(p)
  <2>1. /\ pc'[p] = "iput" /\ pc' \in [Proc -> Label] /\ \A q \in Proc \ {p} : pc'[q] = pc[q]
        /\ dir' \in [Name -> Inum \cup {NoInum}] /\ dir'[n] = inum[s]
        /\ \A m \in Name \ {n} : dir'[m] = dir[m]
    BY <1>2, <1>3, <1>6 DEF Types, Label
  <2>2. Types'
    BY <1>1, <1>3, <1>6, <2>1 DEF Types
  <2>3. Frame(p)
    BY <1>1, <1>6, <2>1 DEF Frame
  <2>4. LocalsOf(p)'
    BY <1>1, <1>3, <1>6, <2>1 DEF LocalsOf, HasInode, Holding, InCreate
  <2>5. LocksOf(p)'
    BY <1>1, <1>3, <1>6, <2>1 DEF LocksOf, Holding, InCreate
  <2>6. KnowsOf(p)'
    BY <2>1 DEF KnowsOf, InCreate
  <2>7. Uses(p)' \subseteq Uses(p)
    <3>1. Pointers(p)' \subseteq Pointers(p)
      BY <1>1, <1>6 DEF Pointers, Using
    <3> QED BY <2>2, <2>3, <2>4, <3>1, UsesShrink
  <2>8. RefsCounted'
    BY <1>1, <1>6 DEF IInv, RefsCounted
  <2>9. Entries'
    BY <1>1, <1>6 DEF IInv, Entries, Cached
  <2>10. Gentle(p)
    BY <1>1, <1>6, <2>7 DEF Gentle
  <2>11. Alloc'
    <3>1. \A i \in Uses(p)' : dinode'[i].type = T_FILE
      BY <1>1, <2>7 DEF IInv, Alloc
    <3> QED BY <1>1, <2>2, <2>3, <3>1, AllocStep DEF IInv, Alloc
  <2>12. LinksCounted'
    <3>1. \A i \in Inum : Owes(p, i) = Is(inum[s], i) /\ Owes(p, i)' = 0
      BY <1>1, <1>4, <1>5, <1>6, <2>1, OwesNow, OwesNext
    <3>2. \A i \in Inum : n \notin NamesOf(i) /\ (n \in NamesOf(i)' <=> inum[s] = i)
      BY <1>6, <2>1, InodeAssumption DEF NamesOf
    <3>3. ASSUME NEW i \in Inum
          PROVE  dinode'[i].nlink = dinode[i].nlink + Has(NamesOf(i)', n) - Has(NamesOf(i), n)
                                    + Owes(p, i)' - Owes(p, i)
      <4>1. dinode[i].nlink \in Int
        BY <1>3, Fields DEF Types
      <4>2. Has(NamesOf(i), n) = 0 /\ Has(NamesOf(i)', n) = Is(inum[s], i)
        BY <3>2, SMT DEF Has, Is
      <4> QED BY <1>1, <3>1, <4>1, <4>2, SMT DEF Is
    <3>4. \A m \in Name : dir'[m] # NoInum => dinode'[dir'[m]].type # FreeType
      <4>1. T_FILE # FreeType
        BY SMT DEF T_FILE, FreeType
      <4> QED BY <1>1, <1>2, <2>1, <4>1 DEF IInv, LinksCounted
    <3>5. Relinked(p, n)
      BY <2>1, <3>3, <3>4 DEF Relinked
    <3> QED BY <2>2, <2>3, <3>5, LinksStep
  <2> QED
    BY <2>2, <2>3, <2>4, <2>5, <2>6, <2>8, <2>9, <2>10, <2>11, <2>12, Together
<1>7. ASSUME dir[n] # NoInum, dlock' = p, old' = [old EXCEPT ![p] = s], Iget(p, dir[n], "iput"),
             dir' = dir
      PROVE  IInv' /\ Frame(p)
  <2> DEFINE i == dir[n]
  <2>1. i \in Inum /\ dinode[i].nlink # 0 /\ dinode[i].type = T_FILE
    <3>1. i \in Inum /\ dinode[i].nlink \in Int /\ dinode[i].nlink > 0 /\ dinode[i].type = T_FILE
      BY <1>7, Named
    <3>2. dinode[i].nlink # 0
      BY <3>1, SMT
    <3> QED BY <3>1, <3>2
  <2>2. "iput" \in Label
    BY DEF Label
  <2>3. /\ inum' \in [Slot -> Inum \cup {NoInum}] /\ ref' \in [Slot -> Nat]
        /\ valid' \in [Slot -> BOOLEAN] /\ pc' \in [Proc -> Label]
        /\ ip' \in [Proc -> Slot \cup {NoSlot}]
        /\ \A q \in Proc \ {p} : pc'[q] = pc[q] /\ ip'[q] = ip[q]
        /\ Gets(p, i, ip'[p])
        /\ pc'[p] = IF ip'[p] \in Slot THEN "iput" ELSE "no inodes"
    BY <1>7, <2>1, <2>2, IgetGets
  <2>n. old' \in [Proc -> Slot \cup {NoSlot}] /\ old'[p] = s /\ \A q \in Proc \ {p} : old'[q] = old[q]
    BY <1>2, <1>3, <1>7 DEF Types
  <2>4. Types'
    BY <1>1, <1>3, <1>7, <2>3, <2>n DEF Types
  <2>5. Frame(p)
    <3>1. \A t \in Slot : ref[t] > 0 => inum'[t] = inum[t]
      BY <2>3 DEF Gets
    <3> QED BY <1>1, <1>7, <2>3, <2>n, <3>1, InodeAssumption DEF Frame
  <2>6. /\ ip'[p] \in Slot \cup {NoSlot} /\ pc'[p] \in {"iput", "no inodes"}
        /\ ip'[p] \in Slot <=> pc'[p] # "no inodes"
    BY <2>3
  <2>7. s # NoSlot
    BY <1>2, InodeAssumption
  <2>8. LocalsOf(p)'
    BY <1>1, <1>4, <2>6, <2>n DEF LocalsOf, HasInode, Holding, InCreate
  <2>9. LocksOf(p)'
    BY <1>1, <1>3, <1>7, <2>6, <2>7, <2>n DEF LocksOf, Holding, InCreate
  <2>10. KnowsOf(p)'
    BY <2>6 DEF KnowsOf, InCreate
  <2>11. Pointers(p)' \subseteq Pointers(p) \cup {ip'[p]}
    BY <1>1, <2>n DEF Pointers, Using
  <2>12. \A t \in Slot : Is(old'[p], t) = Is(old[p], t) + Is(ip[p], t)
    BY <1>4, <2>n, InodeAssumption, SMT DEF Is
  <2>13. ASSUME NEW j \in Inum PROVE Owes(p, j)' = Owes(p, j)
    <3>1. inum'[s] = inum[s]
      BY <1>2, <2>5, PointersStay
    <3>2. p \notin Kept(j) /\ p \notin Working(j, HalfDone)'
      BY <1>4, <1>5, <2>6 DEF Kept, Working
    <3>3. p \in Kept(j)' <=> p \in Working(j, HalfDone)
      BY <1>1, <1>5, <2>7, <2>n, <3>1 DEF Kept, Working
    <3> QED BY <3>2, <3>3, SMT DEF Owes, Has
  <2> QED
    BY <1>1, <1>7, <2>1, <2>3, <2>4, <2>5, <2>8, <2>9, <2>10, <2>11, <2>12, <2>13, GetKeeps
<1> QED BY <1>6, <1>7 DEF LinkDir, Dirlookup, Dirlink, Goto, cacheVars

-----------------------------------------------------------------------------
(* The theorems *)

\* The empty file system.
LEMMA InitIInv ==
  ASSUME Init PROVE IInv
<1>1. 0 \in Nat /\ 0 \in Int /\ ~(0 > 0)
  BY SMT
<1>2. Empty \in Dinode /\ Empty.type = FreeType /\ Empty.nlink = 0
  BY InodeAssumption, SMT DEF Empty, Dinode
<1>3. Types
  BY <1>1, <1>2 DEF Init, Types, Label
<1>4. /\ \A p \in Proc : /\ pc[p] = "idle" /\ ip[p] = NoSlot /\ old[p] = NoSlot /\ fd[p] = NoSlot
                         /\ fresh[p] = NoInum
      /\ \A s \in Slot : ref[s] = 0 /\ lock[s] = Nobody /\ s # NoSlot
      /\ \A i \in Inum : dinode[i].type = FreeType /\ dinode[i].nlink = 0 /\ i # NoInum
      /\ \A n \in Name : dir[n] = NoInum
  BY <1>2, InodeAssumption DEF Init
<1>5. Calls
  <2> SUFFICES ASSUME NEW p \in Proc PROVE LocalsOf(p) /\ LocksOf(p) /\ KnowsOf(p)
    BY DEF Calls
  <2>1. LocalsOf(p)
    BY <1>4 DEF LocalsOf, HasInode, Holding, InCreate
  <2>2. LocksOf(p)
    <3>1. dlock = Nobody
      BY DEF Init
    <3> QED BY <1>4, <3>1, InodeAssumption DEF LocksOf, Holding, InCreate
  <2>3. KnowsOf(p)
    BY <1>4 DEF KnowsOf, InCreate
  <2> QED BY <2>1, <2>2, <2>3
<1>c. Cardinality({}) = 0
  BY FS_EmptySet
<1>6. RefsCounted
  <2> SUFFICES ASSUME NEW s \in Slot
               PROVE  ref[s] = Cardinality({p \in Proc : ip[p] = s})
                               + Cardinality({p \in Proc : old[p] = s})
                               + Cardinality({p \in Proc : fd[p] = s})
    BY DEF RefsCounted
  <2>1. /\ {p \in Proc : ip[p] = s} = {} /\ {p \in Proc : old[p] = s} = {}
        /\ {p \in Proc : fd[p] = s} = {}
    BY <1>4
  <2>2. ref[s] = 0 /\ 0 = 0 + 0 + 0
    BY <1>4, SMT
  <2> QED BY <1>c, <2>1, <2>2
<1>7. Entries
  BY <1>1, <1>4 DEF Entries
<1>8. Alloc
  <2>1. \A p \in Proc : Uses(p) = {}
    <3> SUFFICES ASSUME NEW p \in Proc, NEW i \in Uses(p) PROVE FALSE
      OBVIOUS
    <3>1. \E s \in Pointers(p) : inum[s] = i
      BY <1>3, <1>5, UsesAre DEF Calls
    <3> QED BY <1>4, <3>1 DEF Pointers
  <2> QED BY <1>4, <2>1 DEF Alloc
<1>9. LinksCounted
  <2>1. ASSUME NEW i \in Inum
        PROVE  dinode[i].nlink = Cardinality(NamesOf(i)) + Cardinality(Working(i, HalfDone))
                                 + Cardinality(Kept(i))
    <3>1. NamesOf(i) = {} /\ Working(i, HalfDone) = {} /\ Kept(i) = {}
      BY <1>4 DEF NamesOf, Working, Kept, HalfDone
    <3>2. dinode[i].nlink = 0 /\ 0 = 0 + 0 + 0
      BY <1>4, SMT
    <3> QED BY <1>c, <3>1, <3>2
  <2>2. \A p \in Proc : pc[p] # "panic"
    BY <1>4
  <2> QED BY <1>4, <2>1, <2>2 DEF LinksCounted, NamesOf, Kept, HalfDone
<1> QED BY <1>3, <1>5, <1>6, <1>7, <1>8, <1>9 DEF IInv

\* A step that changes nothing.
LEMMA StutterKeeps ==
  ASSUME IInv, UNCHANGED vars PROVE IInv'
<1> USE DEF vars
<1>1. Types'
  BY DEF IInv, Types
<1>2. \A p \in Proc : Uses(p)' = Uses(p)
  BY DEF Uses, Working
<1>3. \A i : New(i)' <=> New(i)
  BY <1>2 DEF New, Cached
<1>4. Calls'
  <2> SUFFICES ASSUME NEW p \in Proc PROVE LocalsOf(p)' /\ LocksOf(p)' /\ KnowsOf(p)'
    BY DEF Calls
  <2>1. LocalsOf(p) /\ LocksOf(p) /\ KnowsOf(p)
    BY DEF IInv, Calls
  <2>2. LocalsOf(p)'
    BY <2>1 DEF LocalsOf
  <2>3. LocksOf(p)'
    BY <2>1 DEF LocksOf
  <2>4. KnowsOf(p)'
    BY <1>3, <2>1 DEF KnowsOf, LastUse
  <2> QED BY <2>2, <2>3, <2>4
<1>5. RefsCounted'
  BY DEF IInv, RefsCounted
<1>6. Entries'
  BY DEF IInv, Entries, Cached
<1>7. Alloc'
  BY <1>2 DEF IInv, Alloc
<1>8. LinksCounted'
  BY DEF IInv, LinksCounted, Working
<1> QED BY <1>1, <1>4, <1>5, <1>6, <1>7, <1>8 DEF IInv

\* Every step of a process.
LEMMA StepKeeps ==
  ASSUME IInv, NEW p \in Proc, Call(p) \/ Step(p)
  PROVE  IInv' /\ Frame(p)
<1>1. ASSUME Call(p) PROVE IInv' /\ Frame(p)
  <2>1. CASE Write(p)
    BY <2>1, WriteKeeps
  <2>2. CASE Close(p)
    BY <2>2, CloseKeeps
  <2>3. ASSUME NEW n \in Name, Open(p, n) PROVE IInv' /\ Frame(p)
    BY <2>3, NameiKeeps DEF Open
  <2>4. ASSUME NEW n \in Name, Create(p, n) PROVE IInv' /\ Frame(p)
    BY <2>4, CreateKeeps
  <2>5. ASSUME NEW n \in Name, Link(p, n) PROVE IInv' /\ Frame(p)
    <3>1. "link" # "open"
      OBVIOUS
    <3> QED BY <2>5, <3>1, NameiKeeps DEF Link
  <2>6. ASSUME NEW n \in Name, Unlink(p, n) PROVE IInv' /\ Frame(p)
    BY <2>6, UnlinkKeeps
  <2> QED BY <1>1, <2>1, <2>2, <2>3, <2>4, <2>5, <2>6 DEF Call
<1>2. ASSUME Step(p) PROVE IInv' /\ Frame(p)
  <2>1. CASE IputCheck(p) \/ IputFree(p) \/ IputDrop(p)
    BY <2>1, IputCheckKeeps, IputFreeKeeps, IputDropKeeps
  <2>2. CASE OpenLock(p) \/ OpenDone(p)
    BY <2>2, OpenLockKeeps, OpenDoneKeeps
  <2>3. CASE Ialloc(p) \/ IallocGet(p) \/ CreateLink(p) \/ CreatePut(p)
    BY <2>3, IallocKeeps, IallocGetKeeps, CreateLinkKeeps, DirPutKeeps
  <2>4. CASE LinkCount(p) \/ LinkBad(p)
    BY <2>4, LinkCountKeeps
  <2>5. ASSUME NEW n \in Name, LinkDir(p, n) PROVE IInv' /\ Frame(p)
    BY <2>5, LinkDirKeeps
  <2>6. CASE UnlinkEntry(p) \/ UnlinkPut(p) \/ UnlinkCount(p)
    BY <2>6, UnlinkEntryKeeps, DirPutKeeps, UnlinkCountKeeps
  <2> QED BY <1>2, <2>1, <2>2, <2>3, <2>4, <2>5, <2>6 DEF Step
<1> QED BY <1>1, <1>2

\* The invariant holds: whatever open, create, link, unlink, write and close do at the
\* same time, entries, locks, counts and the disk stay as IInv says.
THEOREM Invariance == Spec => []IInv
<1>1. Init => IInv
  BY InitIInv
<1>2. IInv /\ [Next]_vars => IInv'
  BY StepKeeps, StutterKeeps DEF Next
<1> QED BY <1>1, <1>2, PTL DEF Spec

\* ip->ref counts the pointers to an entry of icache, whatever calls fail half way and
\* however iput() and iget() interleave.
THEOREM RefsAreCounted == Spec => []RefsCounted
<1>1. IInv => RefsCounted
  BY DEF IInv
<1> QED BY <1>1, Invariance, PTL

\* An inode has one entry of icache, which is what the disk holds when it is valid, also
\* after the inode was freed and allocated again.
THEOREM CacheIsCoherent == Spec => []CacheCoherent
<1>1. IInv => CacheCoherent
  BY DEF IInv, Entries, CacheCoherent
<1> QED BY <1>1, Invariance, PTL

\* nlink is the number of names and of the changes under way, so that no name leads to a
\* free inode and neither ilock() nor sys_unlink() panics.
THEOREM LinksAreCounted == Spec => []LinksCounted
<1>1. IInv => LinksCounted
  BY DEF IInv
<1> QED BY <1>1, Invariance, PTL

-----------------------------------------------------------------------------
(* The cache implements Files *)

\* The contents of file i for its users.
Contents(i) == IF Live(i) THEN dinode[i].data ELSE Zero

\* The files that live are the same in both specifications.
LEMMA AbstractLive ==
  ASSUME NEW i PROVE (Abstract!Live(i) <=> Live(i)) /\ (Abstract!Live(i)' <=> Live(i)')
<1>1. \A q \in Proc : /\ [p \in Proc |-> Uses(p)][q] = Uses(q)
                      /\ [p \in Proc |-> Uses(p)'][q] = Uses(q)'
  OBVIOUS
<1>2. Abstract!Live(i) <=> Live(i)
  BY <1>1 DEF Abstract!Live, Live
<1>3. Abstract!Live(i)' <=> Live(i)'
  BY <1>1 DEF Abstract!Live, Live
<1> QED BY <1>2, <1>3

\* A step that users do not see.
LEMMA UnseenRefines ==
  ASSUME dir' = dir, \A q \in Proc : Uses(q)' = Uses(q),
         \A i \in Inum : Live(i) => dinode'[i].data = dinode[i].data
  PROVE  UNCHANGED Abstract!vars
<1>1. \A i \in Inum : Live(i)' <=> Live(i)
  BY DEF Live
<1>2. \A i \in Inum : Contents(i)' = Contents(i)
  BY <1>1 DEF Contents
<1>3. [p \in Proc |-> Uses(p)'] = [p \in Proc |-> Uses(p)]
  OBVIOUS
<1>4. [i \in Inum |-> Contents(i)'] = [i \in Inum |-> Contents(i)]
  BY <1>2
<1> QED BY <1>3, <1>4 DEF Abstract!vars, Contents

\* p uses one more file, which has a name.
LEMMA LookupRefines ==
  ASSUME NEW p \in Proc, NEW n \in Name, dir[n] # NoInum, UNCHANGED <<dir, dinode>>,
         \A q \in Proc \ {p} : Uses(q)' = Uses(q), Uses(p)' = Uses(p) \cup {dir[n]}
  PROVE  Abstract!Lookup(p, n)
<1>1. \A i \in Inum : Live(i)' <=> Live(i)
  BY DEF Live
<1>2. \A i \in Inum : Contents(i)' = Contents(i)
  BY <1>1 DEF Contents
<1>3. [q \in Proc |-> Uses(q)'] = [[q \in Proc |-> Uses(q)] EXCEPT ![p] = @ \cup {dir[n]}]
  OBVIOUS
<1>4. [i \in Inum |-> Contents(i)'] = [i \in Inum |-> Contents(i)]
  BY <1>2
<1> QED BY <1>3, <1>4 DEF Abstract!Lookup, Contents

\* dirlink() of create(): the file had no name and no user.
LEMMA CreateRefines ==
  ASSUME NEW p \in Proc, NEW n \in Name, dir[n] = NoInum, NEW i \in Inum, ~Live(i),
         dir' = [dir EXCEPT ![n] = i], dir \in [Name -> Inum \cup {NoInum}],
         \A q \in Proc \ {p} : Uses(q)' = Uses(q), Uses(p)' = Uses(p) \cup {i},
         dinode'[i].data = Zero, \A j \in Inum \ {i} : dinode'[j] = dinode[j]
  PROVE  Abstract!Create(p, n)
<1>1. dir'[n] = i /\ \A m \in Name \ {n} : dir'[m] = dir[m]
  OBVIOUS
<1>2. \A j \in Inum \ {i} : Live(j)' <=> Live(j)
  BY <1>1, InodeAssumption DEF Live
<1>3. \A j \in Inum : Contents(j)' = Contents(j)
  BY <1>2 DEF Contents
<1>4. [q \in Proc |-> Uses(q)'] = [[q \in Proc |-> Uses(q)] EXCEPT ![p] = @ \cup {i}]
  OBVIOUS
<1>5. [j \in Inum |-> Contents(j)'] = [j \in Inum |-> Contents(j)]
  BY <1>3
<1>6. ~Abstract!Live(i)
  BY AbstractLive
<1> QED BY <1>4, <1>5, <1>6 DEF Abstract!Create, Contents

\* dirlink() of sys_link(): the file is in use.
LEMMA LinkRefines ==
  ASSUME NEW p \in Proc, NEW n \in Name, dir[n] = NoInum, NEW i \in Inum, i \in Uses(p),
         dir' = [dir EXCEPT ![n] = i], dir \in [Name -> Inum \cup {NoInum}],
         \A q \in Proc : Uses(q)' = Uses(q), dinode' = dinode
  PROVE  Abstract!Link(p, n)
<1>1. dir'[n] = i /\ \A m \in Name \ {n} : dir'[m] = dir[m]
  OBVIOUS
<1>2. \A j \in Inum : Live(j)' <=> Live(j)
  BY <1>1, InodeAssumption DEF Live
<1>3. \A j \in Inum : Contents(j)' = Contents(j)
  BY <1>2 DEF Contents
<1>4. [q \in Proc |-> Uses(q)'] = [q \in Proc |-> Uses(q)] /\ i \in [q \in Proc |-> Uses(q)][p]
  OBVIOUS
<1>5. [j \in Inum |-> Contents(j)'] = [j \in Inum |-> Contents(j)]
  BY <1>3
<1> QED BY <1>4, <1>5 DEF Abstract!Link, Contents

\* sys_unlink() erases a name.
LEMMA UnlinkRefines ==
  ASSUME NEW p \in Proc, NEW n \in Name, dir[n] # NoInum,
         dir' = [dir EXCEPT ![n] = NoInum], dir \in [Name -> Inum \cup {NoInum}],
         \A q \in Proc : Uses(q)' = Uses(q), dinode' = dinode
  PROVE  Abstract!Unlink(p, n)
<1>1. dir'[n] = NoInum /\ \A m \in Name \ {n} : dir'[m] = dir[m]
  OBVIOUS
<1>2. \A j \in Inum : Live(j)' => Live(j)
  BY <1>1, InodeAssumption DEF Live
<1>3. \A j \in Inum : Contents(j)' = IF Abstract!Live(j)' THEN [k \in Inum |-> Contents(k)][j] ELSE Zero
  BY <1>2, AbstractLive DEF Contents
<1>4. [q \in Proc |-> Uses(q)'] = [q \in Proc |-> Uses(q)]
  OBVIOUS
<1>5. [j \in Inum |-> Contents(j)']
      = [j \in Inum |-> IF Abstract!Live(j)' THEN [k \in Inum |-> Contents(k)][j] ELSE Zero]
  BY <1>3
<1> QED BY <1>4, <1>5 DEF Abstract!Unlink, Abstract!Reclaim, Contents

\* iput() ends a use: of a file that is still in use by p, or of the last one.
LEMMA DropRefines ==
  ASSUME NEW p \in Proc, NEW i \in Uses(p), UNCHANGED <<dir, dinode>>,
         \A q \in Proc \ {p} : Uses(q)' = Uses(q), Uses(p)' = Uses(p) \ {i}
  PROVE  Abstract!Drop(p)
<1>1. \A j \in Inum : Live(j)' => Live(j)
  BY DEF Live
<1>2. \A j \in Inum : Contents(j)' = IF Abstract!Live(j)' THEN [k \in Inum |-> Contents(k)][j] ELSE Zero
  BY <1>1, AbstractLive DEF Contents
<1>3. [q \in Proc |-> Uses(q)'] = [[q \in Proc |-> Uses(q)] EXCEPT ![p] = @ \ {i}]
      /\ i \in [q \in Proc |-> Uses(q)][p]
  OBVIOUS
<1>4. [j \in Inum |-> Contents(j)']
      = [j \in Inum |-> IF Abstract!Live(j)' THEN [k \in Inum |-> Contents(k)][j] ELSE Zero]
  BY <1>2
<1> QED BY <1>3, <1>4 DEF Abstract!Drop, Abstract!Reclaim, Contents

\* A user writes its file.
LEMMA WriteRefines ==
  ASSUME NEW p \in Proc, NEW i \in Uses(p), dir' = dir, \A q \in Proc : Uses(q)' = Uses(q),
         NEW v \in Val, dinode'[i].data = v, \A j \in Inum \ {i} : dinode'[j] = dinode[j]
  PROVE  Abstract!Write(p)
<1>1. i \in Inum /\ Live(i)' /\ \A j \in Inum : Live(j)' <=> Live(j)
  BY DEF Live, Uses
<1>2. [j \in Inum |-> Contents(j)'] = [[j \in Inum |-> Contents(j)] EXCEPT ![i] = v]
  BY <1>1 DEF Contents
<1>3. [q \in Proc |-> Uses(q)'] = [q \in Proc |-> Uses(q)] /\ i \in [q \in Proc |-> Uses(q)][p]
  OBVIOUS
<1> QED BY <1>2, <1>3 DEF Abstract!Write, Contents

\* The uses after a step.
LEMMA UsesAfter ==
  ASSUME IInv, IInv', NEW p \in Proc, Frame(p)
  PROVE  /\ \A q \in Proc \ {p} : Uses(q)' = Uses(q)
         /\ Pointers(p)' = Pointers(p) => \A q \in Proc : Uses(q)' = Uses(q)
         /\ \A s \in Slot : inum'[s] \in Inum /\ Pointers(p)' = Pointers(p) \cup {s} =>
              Uses(p)' = Uses(p) \cup {inum'[s]}
<1>1. Types' /\ LocalsOf(p)'
  BY DEF IInv, Calls
<1>2. \A q \in Proc \ {p} : Uses(q)' = Uses(q)
  BY <1>1, UsesFrame
<1>3. Pointers(p)' = Pointers(p) => Uses(p)' = Uses(p)
  BY <1>1, UsesShrink
<1>4. \A s \in Slot : inum'[s] \in Inum /\ Pointers(p)' = Pointers(p) \cup {s} =>
        Uses(p)' = Uses(p) \cup {inum'[s]}
  BY <1>1, UsesGrow
<1> QED BY <1>2, <1>3, <1>4

\* A step that keeps the pointers of p, the directory and the contents.
LEMMA UnseenStep ==
  ASSUME IInv, IInv', NEW p \in Proc, Frame(p), dir' = dir, Pointers(p)' = Pointers(p),
         \A i \in Inum : Live(i) => dinode'[i].data = dinode[i].data
  PROVE  UNCHANGED Abstract!vars
<1>1. \A q \in Proc : Uses(q)' = Uses(q)
  BY UsesAfter
<1> QED BY <1>1, UnseenRefines

\* Steps of a call before it has found its inode or after it is done with it, and
\* waits for locks.
LEMMA LocalSteps ==
  ASSUME IInv, IInv', NEW p \in Proc, Frame(p),
         \/ \E n \in Name : Create(p, n)
         \/ CreatePut(p) \/ UnlinkPut(p) \/ OpenLock(p) \/ OpenDone(p) \/ Close(p)
         \/ IputDrop(p)
  PROVE  UNCHANGED Abstract!vars
<1> USE DEF At, Goto, diskVars
<1>1. pc \in [Proc -> Label] /\ ip \in [Proc -> Slot \cup {NoSlot}]
      /\ fd \in [Proc -> Slot \cup {NoSlot}] /\ old \in [Proc -> Slot \cup {NoSlot}]
      /\ LocalsOf(p) /\ \A s \in Slot : s # NoSlot
  BY InodeAssumption DEF IInv, Types, Calls
<1>2. SUFFICES dir' = dir /\ dinode' = dinode /\ Pointers(p)' = Pointers(p)
  BY <1>2, UnseenStep
<1>3. CASE \E n \in Name : Create(p, n)
  <2>1. /\ pc[p] = "idle" /\ pc'[p] = "ialloc"
        /\ UNCHANGED <<dir, dinode, ip, old, fd>>
    BY <1>1, <1>3 DEF Create
  <2> QED BY <2>1 DEF Pointers, Using
<1>4. CASE CreatePut(p)
  <2>1. pc[p] = "created" /\ pc'[p] = "opened" /\ UNCHANGED <<dir, dinode, ip, old, fd>>
    BY <1>1, <1>4 DEF CreatePut
  <2> QED BY <2>1 DEF Pointers, Using
<1>5. CASE UnlinkPut(p)
  <2>1. pc[p] = "erased" /\ pc'[p] = "unlinked" /\ UNCHANGED <<dir, dinode, ip, old, fd>>
    BY <1>1, <1>5 DEF UnlinkPut
  <2> QED BY <2>1 DEF Pointers, Using
<1>6. CASE OpenLock(p)
  <2>1. pc[p] = "open" /\ UNCHANGED <<dir, dinode, ip, old, fd>>
    BY <1>6 DEF OpenLock
  <2>2. ~NoType(ip[p])
    BY <2>1, Here DEF HasInode, Using
  <2>3. pc'[p] = "opened"
    BY <1>1, <1>6, <2>2 DEF OpenLock
  <2> QED BY <2>1, <2>3 DEF Pointers, Using
<1>7. CASE OpenDone(p)
  <2>1. /\ pc[p] = "opened" /\ UNCHANGED <<dir, dinode, old>>
        /\ \/ pc'[p] = "idle" /\ fd'[p] = ip[p] /\ ip'[p] = NoSlot
           \/ pc'[p] = "iput" /\ fd'[p] = fd[p] /\ ip'[p] = ip[p]
    BY <1>1, <1>7 DEF OpenDone
  <2>2. fd[p] = NoSlot
    BY <1>1, <2>1 DEF LocalsOf
  <2> QED BY <1>1, <2>1, <2>2 DEF Pointers, Using
<1>8. CASE Close(p)
  <2>1. /\ pc[p] = "idle" /\ pc'[p] = "iput" /\ ip'[p] = fd[p] /\ fd'[p] = NoSlot
        /\ UNCHANGED <<dir, dinode, old>>
    BY <1>1, <1>8 DEF Close
  <2> QED BY <1>1, <2>1 DEF Pointers, Using
<1>9. CASE IputDrop(p)
  <2>1. /\ pc[p] = "drop" /\ ip'[p] = old[p] /\ fd'[p] = fd[p] /\ UNCHANGED <<dir, dinode>>
        /\ \/ old[p] = NoSlot /\ pc'[p] = "idle" /\ old'[p] = NoSlot
           \/ old[p] # NoSlot /\ pc'[p] = "bad" /\ old'[p] = NoSlot
    BY <1>1, <1>9 DEF IputDrop
  <2> QED BY <1>1, <2>1 DEF Pointers, Using
<1> QED BY <1>3, <1>4, <1>5, <1>6, <1>7, <1>8, <1>9

\* Steps that change nlink.
LEMMA CountSteps ==
  ASSUME IInv, IInv', NEW p \in Proc, Frame(p), LinkCount(p) \/ LinkBad(p) \/ UnlinkCount(p)
  PROVE  UNCHANGED Abstract!vars
<1> DEFINE s == ip[p]
           c == dinode[inum[s]]
<1>1. pc[p] \in {"link", "bad", "unlinked"}
  BY DEF LinkCount, LinkBad, UnlinkCount, At
<1>2. /\ s \in Slot /\ inum[s] \in Inum /\ c \in Dinode /\ Loaded(s) = c /\ ~NoType(s)
  BY <1>1, Here DEF HasInode, Holding, Using
<1>3. pc[p] = "unlinked" => inode[s] = c
  BY <1>2 DEF IInv, Calls, KnowsOf, Loaded
<1>4. c.nlink + 1 \in Int /\ c.nlink - 1 \in Int
  <2>1. c.nlink \in Int
    BY <1>2, Fields
  <2> QED BY <2>1, SMT
<1>5. /\ \E k \in Int : Iupdate(s, [c EXCEPT !.nlink = k])
      /\ \E l \in {"linkdir", "iput"} : pc' = [pc EXCEPT ![p] = l]
      /\ UNCHANGED <<dir, inum, ip, fd, old>>
  <2>1. CASE LinkCount(p)
    BY <1>2, <1>4, <2>1 DEF LinkCount, Goto, cacheVars
  <2>2. CASE LinkBad(p)
    BY <1>2, <1>4, <2>2 DEF LinkBad, Goto, cacheVars
  <2>3. CASE UnlinkCount(p)
    BY <1>2, <1>3, <1>4, <2>3 DEF UnlinkCount, At, Goto, cacheVars
  <2> QED BY <2>1, <2>2, <2>3
<1>6. PICK k \in Int : Iupdate(s, [c EXCEPT !.nlink = k])
  BY <1>5
<1> DEFINE d == [c EXCEPT !.nlink = k]
<1>7. d \in Dinode /\ d.data = c.data
  BY <1>2, SetNlink
<1> HIDE DEF d
<1>8. Iupdate(s, d)
  BY <1>6 DEF d
<1>9. \A i \in Inum : dinode'[i].data = dinode[i].data
  <2>1. dinode'[inum[s]] = d /\ \A i \in Inum \ {inum[s]} : dinode'[i] = dinode[i]
    BY <1>2, <1>7, <1>8, UpdateTypes
  <2> QED BY <1>7, <2>1
<1>10. pc'[p] \in {"linkdir", "iput"}
  BY <1>5 DEF IInv, Types
<1>11. Pointers(p)' = Pointers(p)
  BY <1>1, <1>5, <1>10 DEF Pointers, Using
<1> QED BY <1>5, <1>9, <1>11, UnseenStep

\* A free inode, and one that iput() frees, is no file of anybody.
LEMMA FreeSteps ==
  ASSUME IInv, IInv', NEW p \in Proc, Frame(p), Ialloc(p) \/ IputFree(p)
  PROVE  UNCHANGED Abstract!vars
<1>1. Types /\ Types' /\ KnowsOf(p) /\ T_FILE # FreeType
  <2>1. T_FILE # FreeType
    BY SMT DEF T_FILE, FreeType
  <2> QED BY <2>1 DEF IInv, Calls
<1>2. CASE Ialloc(p)
  <2>1. pc[p] = "ialloc" /\ UNCHANGED <<dir, ip, fd, old>>
    BY <1>2 DEF Ialloc, At
  <2>2. \E l \in {"iget", "no inodes"} : pc' = [pc EXCEPT ![p] = l]
    BY <1>2 DEF Ialloc, Goto
  <2>3. pc'[p] \in {"iget", "no inodes"}
    BY <1>1, <2>2 DEF Types
  <2>4. Pointers(p)' = Pointers(p)
    BY <2>1, <2>3 DEF Pointers, Using
  <2>5. \A i \in Inum : dinode[i].type = T_FILE => dinode'[i] = dinode[i]
    <3>1. \/ dinode' = dinode
          \/ \E i \in Inum : /\ dinode[i].type = FreeType
                             /\ dinode' = [dinode EXCEPT ![i] = [Empty EXCEPT !.type = T_FILE]]
      BY <1>2 DEF Ialloc
    <3> QED BY <1>1, <3>1 DEF Types
  <2>6. \A i \in Inum : Live(i) => dinode[i].type = T_FILE
    BY Named, InodeAssumption DEF Live, IInv, Alloc
  <2> QED BY <2>1, <2>4, <2>5, <2>6, UnseenStep
<1>3. CASE IputFree(p)
  <2> DEFINE i == inum[ip[p]]
  <2>1. /\ pc[p] = "ifree" /\ UNCHANGED <<dir, ip, fd, old>>
        /\ dinode' = [dinode EXCEPT ![i] = inode'[ip[p]]] /\ pc' = [pc EXCEPT ![p] = "drop"]
    BY <1>3 DEF IputFree, At, Goto
  <2>2. pc'[p] = "drop"
    BY <1>1, <2>1 DEF Types
  <2>3. Pointers(p)' = Pointers(p)
    BY <2>1, <2>2 DEF Pointers, Using
  <2>4. ip[p] \in Slot /\ i \in Inum /\ Loaded(ip[p]) = dinode[i]
    BY <2>1, Here DEF HasInode, Holding
  <2>5. dinode[i].nlink = 0 /\ dinode'[i].type = FreeType
    <3>1. valid[ip[p]] /\ inode[ip[p]].nlink = 0 /\ inode[ip[p]] \in Dinode
      BY <1>1, <2>1, <2>4 DEF KnowsOf, LastUse, Types
    <3>2. inode'[ip[p]] = [[inode[ip[p]] EXCEPT !.data = Zero] EXCEPT !.type = FreeType]
      BY <1>1, <1>3, <2>4 DEF IputFree, Itrunc, Types
    <3>3. inode'[ip[p]].type = FreeType
      BY <3>1, <3>2, FreeFields
    <3>4. dinode'[i] = inode'[ip[p]]
      BY <1>1, <2>1, <2>4 DEF Types
    <3> QED BY <2>4, <3>1, <3>3, <3>4 DEF Loaded
  <2>6. ~Live(i)
    <3>1. \A q \in Proc : i \notin Uses(q)
      <4>1. \A q \in Proc : i \notin Uses(q)'
        BY <1>1, <2>5 DEF IInv, Alloc
      <4>2. \A q \in Proc : Uses(q)' = Uses(q)
        BY <2>3, UsesAfter
      <4> QED BY <4>1, <4>2
    <3>2. \A n \in Name : dir[n] # i
      <4>1. ~(0 > 0)
        BY SMT
      <4> QED BY <2>4, <2>5, <4>1, Named, InodeAssumption
    <3> QED BY <3>1, <3>2 DEF Live
  <2>7. \A j \in Inum \ {i} : dinode'[j] = dinode[j]
    BY <1>1, <2>1 DEF Types
  <2>8. \A j \in Inum : Live(j) => dinode'[j].data = dinode[j].data
    BY <2>6, <2>7
  <2> QED BY <2>1, <2>3, <2>8, UnseenStep
<1> QED BY <1>2, <1>3

\* A step that finds a file by name.
LEMMA FindSteps ==
  ASSUME IInv, IInv', NEW p \in Proc, Frame(p), NEW n \in Name,
         \/ \E l \in {"open", "link"} : Namei(p, n, l)
         \/ Unlink(p, n)
         \/ LinkDir(p, n) /\ dir[n] # NoInum
  PROVE  Abstract!Lookup(p, n) \/ UNCHANGED Abstract!vars
<1> DEFINE s == ip'[p]
<1>1. /\ dir[n] # NoInum /\ UNCHANGED <<dir, dinode, fd>>
      /\ \/ pc[p] = "idle" /\ old' = old
         \/ pc[p] = "linkdir" /\ old' = [old EXCEPT ![p] = ip[p]]
      /\ \E l \in {"open", "link", "unlink", "iput"} : Iget(p, dir[n], l)
  BY DEF Namei, Unlink, LinkDir, At, Dirlookup, diskVars
<1>2. PICK l \in {"open", "link", "unlink", "iput"} : Iget(p, dir[n], l)
  BY <1>1
<1>3. dir[n] \in Inum /\ l \in Label /\ l \in Using
  BY <1>1, Named DEF Label, Using
<1>4. /\ Gets(p, dir[n], s) /\ s \in Slot \cup {NoSlot}
      /\ pc'[p] = IF s \in Slot THEN l ELSE "no inodes"
  BY <1>2, <1>3, IgetGets
<1>5. LocalsOf(p) /\ old \in [Proc -> Slot \cup {NoSlot}] /\ \A t \in Slot : t # NoSlot
  BY InodeAssumption DEF IInv, Calls, Types
<1>6. old[p] = NoSlot /\ (pc[p] = "idle" => ip[p] = NoSlot)
      /\ ((pc[p] = "idle" /\ old'[p] = NoSlot) \/ (pc[p] = "linkdir" /\ old'[p] = ip[p]))
  BY <1>1, <1>5 DEF LocalsOf, HasInode, Holding
<1>7. CASE s \in Slot
  <2>1. Pointers(p)' = Pointers(p) \cup {s}
    BY <1>1, <1>3, <1>4, <1>5, <1>6, <1>7 DEF Pointers, Using
  <2>2. inum'[s] = dir[n]
    BY <1>4, <1>7 DEF Gets
  <2>3. Uses(p)' = Uses(p) \cup {dir[n]} /\ \A q \in Proc \ {p} : Uses(q)' = Uses(q)
    BY <1>3, <1>7, <2>1, <2>2, UsesAfter
  <2> QED BY <1>1, <2>3, LookupRefines
<1>8. CASE s = NoSlot
  <2>1. pc'[p] = "no inodes"
    BY <1>4, <1>5, <1>8
  <2>2. Pointers(p)' = Pointers(p)
    BY <1>1, <1>5, <1>6, <1>8, <2>1 DEF Pointers, Using
  <2> QED BY <1>1, <2>2, UnseenStep
<1> QED BY <1>4, <1>7, <1>8

\* The new inode is nobody's file yet.
LEMMA IallocGetStep ==
  ASSUME IInv, IInv', NEW p \in Proc, Frame(p), IallocGet(p)
  PROVE  UNCHANGED Abstract!vars
<1>1. /\ pc[p] = "iget" /\ UNCHANGED <<dinode, dir, fd, old>> /\ Iget(p, fresh[p], "create")
  BY DEF IallocGet, At, diskVars
<1>2. fresh[p] \in Inum /\ "create" \in Label
  BY <1>1 DEF IInv, Calls, LocalsOf, Label
<1>3. pc'[p] \in {"create", "no inodes"}
  BY <1>1, <1>2, IgetGets
<1>4. Pointers(p)' = Pointers(p)
  BY <1>1, <1>3 DEF Pointers, Using
<1> QED BY <1>1, <1>4, UnseenStep

\* dirlink() of create() makes the file.
LEMMA CreateLinkStep ==
  ASSUME IInv, IInv', NEW p \in Proc, Frame(p), CreateLink(p)
  PROVE  \E n \in Name : Abstract!Create(p, n)
<1> DEFINE s == ip[p]
           i == inum[s]
           d == [dinode[i] EXCEPT !.nlink = 1]
<1>1. pc[p] = "create"
  BY DEF CreateLink, At
<1>2. /\ s \in Slot /\ i \in Inum /\ dinode[i] \in Dinode /\ Loaded(s) = dinode[i] /\ ~NoType(s)
      /\ dinode[i] = [Empty EXCEPT !.type = T_FILE]
  BY <1>1, Here DEF HasInode
<1>3. Types /\ LocalsOf(p) /\ KnowsOf(p)
  BY DEF IInv, Calls
<1>4. name[p] \in Name /\ dir[name[p]] = NoInum /\ New(i)
  BY <1>1, <1>3 DEF LocalsOf, KnowsOf, InCreate
<1>5. dinode[i].nlink = 0 /\ dinode[i].data = Zero /\ 1 \in Int
  <2>1. 1 \in Int
    BY SMT
  <2> QED BY <1>2, <2>1, NewFields
<1>6. d \in Dinode /\ d.data = Zero
  BY <1>2, <1>5, SetNlink
<1> HIDE DEF d
<1>7. /\ Iupdate(s, d) /\ dir' = [dir EXCEPT ![name[p]] = i] /\ pc' = [pc EXCEPT ![p] = "created"]
      /\ UNCHANGED <<inum, ip, fd, old>>
  BY <1>2 DEF CreateLink, Goto, cacheVars, Dirlink, d
<1>8. dinode'[i] = d /\ \A j \in Inum \ {i} : dinode'[j] = dinode[j]
  BY <1>2, <1>6, <1>7, UpdateTypes
<1>9. pc'[p] = "created"
  BY <1>3, <1>7 DEF Types
<1>10. Pointers(p)' = Pointers(p) \cup {s}
  BY <1>1, <1>2, <1>7, <1>9 DEF Pointers, Using
<1>11. Uses(p)' = Uses(p) \cup {i} /\ \A q \in Proc \ {p} : Uses(q)' = Uses(q)
  BY <1>2, <1>7, <1>10, UsesAfter
<1>12. ~Live(i)
  <2>1. ~(0 > 0)
    BY SMT
  <2>2. \A n \in Name : dir[n] # i
    BY <1>2, <1>5, <2>1, Named, InodeAssumption
  <2> QED BY <1>4, <2>2 DEF Live, New
<1>13. dir \in [Name -> Inum \cup {NoInum}] /\ dinode'[i].data = Zero
  BY <1>3, <1>6, <1>8 DEF Types
<1>14. Abstract!Create(p, name[p])
  BY <1>2, <1>4, <1>7, <1>8, <1>11, <1>12, <1>13, CreateRefines
<1> QED BY <1>4, <1>14

\* dirlink() of sys_link() gives it a name, or fails and keeps what it has found.
LEMMA LinkDirStep ==
  ASSUME IInv, IInv', NEW p \in Proc, Frame(p), NEW n \in Name, LinkDir(p, n), dir[n] = NoInum
  PROVE  Abstract!Link(p, n)
<1>1. /\ pc[p] = "linkdir" /\ dir' = [dir EXCEPT ![n] = inum[ip[p]]]
      /\ pc' = [pc EXCEPT ![p] = "iput"] /\ UNCHANGED <<dinode, inum, ip, fd, old>>
  BY DEF LinkDir, At, Dirlookup, Dirlink, Goto, cacheVars
<1>2. inum[ip[p]] \in Inum /\ inum[ip[p]] \in Uses(p)
  BY <1>1, Here DEF HasInode, Using
<1>3. pc'[p] = "iput" /\ dir \in [Name -> Inum \cup {NoInum}]
  BY <1>1 DEF IInv, Types
<1>4. Pointers(p)' = Pointers(p)
  BY <1>1, <1>3 DEF Pointers, Using
<1>5. \A q \in Proc : Uses(q)' = Uses(q)
  BY <1>4, UsesAfter
<1> QED BY <1>1, <1>2, <1>3, <1>5, LinkRefines

\* sys_unlink() erases the entry.
LEMMA UnlinkEntryStep ==
  ASSUME IInv, IInv', NEW p \in Proc, Frame(p), UnlinkEntry(p)
  PROVE  \E n \in Name : Abstract!Unlink(p, n)
<1>1. /\ pc[p] = "unlink" /\ dir' = [dir EXCEPT ![name[p]] = NoInum]
      /\ \E l \in {"erased", "panic"} : pc' = [pc EXCEPT ![p] = l]
      /\ UNCHANGED <<dinode, inum, ip, fd, old>>
  BY DEF UnlinkEntry, At, Goto, cacheVars
<1>2. inum[ip[p]] \in Inum /\ name[p] \in Name /\ dir[name[p]] = inum[ip[p]]
  BY <1>1, Here DEF HasInode, IInv, Calls, LocalsOf, KnowsOf
<1>3. dir[name[p]] # NoInum
  BY <1>2, InodeAssumption
<1>4. pc'[p] = "erased" /\ dir \in [Name -> Inum \cup {NoInum}]
  BY <1>1 DEF IInv, Types, LinksCounted
<1>5. Pointers(p)' = Pointers(p)
  BY <1>1, <1>4 DEF Pointers, Using
<1>6. \A q \in Proc : Uses(q)' = Uses(q)
  BY <1>5, UsesAfter
<1>7. Abstract!Unlink(p, name[p])
  BY <1>1, <1>2, <1>3, <1>4, <1>6, UnlinkRefines
<1> QED BY <1>2, <1>7

\* filewrite() writes a file that its process has open.
LEMMA WriteStep ==
  ASSUME IInv, IInv', NEW p \in Proc, Frame(p), Write(p)
  PROVE  Abstract!Write(p)
<1> DEFINE s == fd[p]
           c == dinode[inum[s]]
<1>1. /\ pc[p] = "idle" /\ s # NoSlot /\ UNCHANGED <<dir, inum, ip, fd, old>>
      /\ \E l \in {"idle", "panic"} : pc' = [pc EXCEPT ![p] = l]
  BY DEF Write, At, Goto, cacheVars
<1>2. s \in Slot /\ inum[s] \in Inum /\ c \in Dinode /\ Loaded(s) = c
  BY <1>1, HasRef DEF IInv, Types
<1>3. inum[s] \in Uses(p)
  BY <1>1, <1>2 DEF Uses
<1>4. PICK v \in Val : Iupdate(s, [c EXCEPT !.data = v])
  BY <1>2 DEF Write, Writei
<1> DEFINE d == [c EXCEPT !.data = v]
<1>5. d \in Dinode /\ d.data = v
  BY <1>2, Fields
<1> HIDE DEF d
<1>6. Iupdate(s, d)
  BY <1>4 DEF d
<1>7. dinode'[inum[s]] = d /\ \A i \in Inum \ {inum[s]} : dinode'[i] = dinode[i]
  BY <1>2, <1>5, <1>6, UpdateTypes
<1>8. pc'[p] = "idle"
  BY <1>1 DEF IInv, Types, LinksCounted
<1>9. Pointers(p)' = Pointers(p)
  BY <1>1, <1>8 DEF Pointers
<1>10. \A q \in Proc : Uses(q)' = Uses(q)
  BY <1>9, UsesAfter
<1> QED BY <1>1, <1>3, <1>5, <1>7, <1>10, WriteRefines

\* iput() past its test no longer uses the inode.
LEMMA IputCheckStep ==
  ASSUME IInv, IInv', NEW p \in Proc, Frame(p), IputCheck(p)
  PROVE  Abstract!Drop(p) \/ UNCHANGED Abstract!vars
<1> DEFINE i == inum[ip[p]]
<1>1. /\ pc[p] = "iput" /\ UNCHANGED <<dinode, dir, inum, ip, fd, old>>
      /\ \E l \in {"ifree", "drop"} : pc' = [pc EXCEPT ![p] = l]
  BY DEF IputCheck, At, Goto, diskVars, cacheVars
<1>2. i \in Uses(p)
  BY <1>1, Here DEF HasInode, Using
<1>3. Types /\ Types' /\ LocalsOf(p) /\ LocalsOf(p)'
  BY DEF IInv, Calls
<1>4. pc'[p] \in {"ifree", "drop"}
  BY <1>1, <1>3 DEF Types
<1>5. Pointers(p)' \subseteq Pointers(p) /\ Pointers(p) \subseteq Pointers(p)' \cup {ip[p]}
  BY <1>1, <1>4 DEF Pointers, Using
<1>6. Uses(p)' \subseteq Uses(p) /\ \A q \in Proc \ {p} : Uses(q)' = Uses(q)
  BY <1>3, <1>5, UsesShrink, UsesAfter
<1>7. ASSUME NEW j \in Uses(p), j # i PROVE j \in Uses(p)'
  <2>1. PICK t \in Pointers(p) : inum[t] = j
    BY <1>3, <1>7, UsesAre
  <2>2. t \in Pointers(p)' /\ inum'[t] = j /\ j \in Inum
    BY <1>1, <1>5, <1>7, <2>1 DEF Uses
  <2> QED BY <1>3, <2>2, UsesAreNext
<1>8. CASE i \in Uses(p)'
  <2>1. \A q \in Proc : Uses(q)' = Uses(q)
    <3>1. Uses(p) \subseteq Uses(p)'
      BY <1>7, <1>8
    <3>2. Uses(p)' = Uses(p)
      BY <1>6, <3>1
    <3> QED BY <1>6, <3>2
  <2> QED BY <1>1, <2>1, UnseenRefines
<1>9. CASE i \notin Uses(p)'
  <2>1. Uses(p)' = Uses(p) \ {i}
    BY <1>6, <1>7, <1>9
  <2> QED BY <1>1, <1>2, <1>6, <2>1, DropRefines
<1> QED BY <1>8, <1>9

\* Every step of a process is a step of Files, or none.
LEMMA NextRefines ==
  ASSUME IInv, IInv', [Next]_vars
  PROVE  [Abstract!Next]_(Abstract!vars)
<1>1. ASSUME NEW p \in Proc, Call(p) \/ Step(p) PROVE [Abstract!Next]_(Abstract!vars)
  <2>f. Frame(p)
    BY <1>1, StepKeeps
  <2>1. ASSUME NEW n \in Name, Abstract!Lookup(p, n) \/ Abstract!Create(p, n) \/ Abstract!Link(p, n)
                               \/ Abstract!Unlink(p, n)
        PROVE  Abstract!Next
    BY <2>1 DEF Abstract!Next
  <2>2. Abstract!Write(p) \/ Abstract!Drop(p) => Abstract!Next
    BY DEF Abstract!Next
  <2>3. CASE Write(p)
    BY <2>f, <2>2, <2>3, WriteStep
  <2>4. CASE Close(p) \/ OpenLock(p) \/ OpenDone(p) \/ CreatePut(p) \/ UnlinkPut(p) \/ IputDrop(p)
    BY <2>f, <2>4, LocalSteps
  <2>5. ASSUME NEW n \in Name, Open(p, n) \/ Link(p, n) \/ Unlink(p, n)
        PROVE  [Abstract!Next]_(Abstract!vars)
    BY <2>f, <2>1, <2>5, FindSteps DEF Open, Link
  <2>6. ASSUME NEW n \in Name, Create(p, n) PROVE [Abstract!Next]_(Abstract!vars)
    BY <2>f, <2>6, LocalSteps
  <2>7. CASE IputCheck(p)
    BY <2>f, <2>2, <2>7, IputCheckStep
  <2>8. CASE IputFree(p) \/ Ialloc(p)
    BY <2>f, <2>8, FreeSteps
  <2>9. CASE IallocGet(p)
    BY <2>f, <2>9, IallocGetStep
  <2>10. CASE CreateLink(p)
    BY <2>f, <2>1, <2>10, CreateLinkStep
  <2>11. CASE LinkCount(p) \/ LinkBad(p) \/ UnlinkCount(p)
    BY <2>f, <2>11, CountSteps
  <2>12. ASSUME NEW n \in Name, LinkDir(p, n) PROVE [Abstract!Next]_(Abstract!vars)
    BY <2>f, <2>1, <2>12, LinkDirStep, FindSteps
  <2>13. CASE UnlinkEntry(p)
    BY <2>f, <2>1, <2>13, UnlinkEntryStep
  <2> QED
    BY <1>1, <2>3, <2>4, <2>5, <2>6, <2>7, <2>8, <2>9, <2>10, <2>11, <2>12, <2>13
    DEF Call, Step
<1>2. CASE UNCHANGED vars
  <2>1. \A q \in Proc : Uses(q)' = Uses(q)
    BY <1>2 DEF vars, Uses, Working
  <2> QED BY <1>2, <2>1, UnseenRefines DEF vars
<1> QED BY <1>1, <1>2 DEF Next

\* To its users the inode cache is a set of files.
THEOREM CacheIsFiles == Spec => ImplementsFiles
<1>1. Init => Abstract!Init
  <2> SUFFICES ASSUME Init PROVE Abstract!Init
    OBVIOUS
  <2>1. \A p \in Proc : Uses(p) = {}
    <3> SUFFICES ASSUME NEW p \in Proc, NEW i \in Uses(p) PROVE FALSE
      OBVIOUS
    <3>1. \E s \in Pointers(p) : inum[s] = i
      BY InitIInv, UsesAre DEF IInv, Calls
    <3>2. \A s \in Slot : s # NoSlot
      BY InodeAssumption
    <3>3. pc[p] = "idle" /\ fd[p] = NoSlot /\ old[p] = NoSlot
      BY DEF Init
    <3> QED BY <3>1, <3>2, <3>3 DEF Pointers, Using
  <2>2. \A i \in Inum : ~Live(i)
    BY <2>1, InodeAssumption DEF Live, Init
  <2>3. [p \in Proc |-> Uses(p)] = [p \in Proc |-> {}]
    BY <2>1
  <2>4. [i \in Inum |-> Contents(i)] = [i \in Inum |-> Zero]
    BY <2>2 DEF Contents
  <2>5. dir = [n \in Name |-> NoInum]
    BY DEF Init
  <2> QED BY <2>3, <2>4, <2>5 DEF Abstract!Init, Contents
<1>2. IInv /\ IInv' /\ [Next]_vars => [Abstract!Next]_(Abstract!vars)
  BY NextRefines
<1> QED BY <1>1, <1>2, Invariance, PTL DEF Spec, ImplementsFiles, Abstract!Spec
=============================================================================
