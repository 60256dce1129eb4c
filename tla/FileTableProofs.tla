--------------------------- MODULE FileTableProofs ---------------------------
(***************************************************************************)
(* The reference counts of open files, and of the inodes and pipes they    *)
(* refer to, are right for any number of processes, files, descriptors     *)
(* and objects, on every path of the calls that fails half way.            *)
(***************************************************************************)
EXTENDS FileTable, FiniteSetTheorems, TLAPS

\* The tables are finite, a pipe has two ends, and a free file refers to no object.
Sizes ==
  /\ IsFiniteSet(Proc) /\ initproc \in Proc
  /\ NFILE \in Nat /\ NOFILE \in Nat
  /\ FD_NONE \notin Object
  /\ \A x \in Pipe : <<x, "r">> \in Object /\ <<x, "w">> \in Object

Label == {"idle", "exit", "closed", "exitclosed", "open", "pipe", "pipemem", "pipefd", "pipebad"}
Call == [pc : Label, f : File \cup {None}, g : File \cup {None}, o : Object \cup {FD_NONE}]

Types ==
  /\ ref \in [File -> Nat]
  /\ obj \in [File -> Object \cup {FD_NONE}]
  /\ ofile \in [Proc -> [Fd -> File \cup {None}]]
  /\ active \in SUBSET Proc
  /\ st \in [Proc -> Call]
  /\ use \in [Object -> Int]

\* What a call holds: files that no descriptor refers to yet, and the object that it is
\* about to put into a file or to close.
CallOK(c) ==
  /\ c.pc \in {"idle", "exit", "closed", "exitclosed"} => c.f = None
  /\ c.pc \in {"open", "pipe", "pipemem", "pipefd", "pipebad"} => c.f \in File
  /\ c.pc \in {"pipemem", "pipefd"} => c.g \in File
  /\ c.pc \notin {"pipemem", "pipefd", "pipebad"} => c.g = None
  /\ c.pc = "open" => c.o \in Object
  /\ c.pc \notin {"open", "closed", "exitclosed"} => c.o = FD_NONE

\* A process that does not exist has nothing open.
Gone(p) == p \notin active => st[p] = Idle /\ \A d \in Fd : ofile[p][d] = None

\* The files that filealloc() has given to a call and that have no type yet.
Blank(c) == {f \in File : \/ f = c.f /\ c.pc \in {"open", "pipe", "pipemem"}
                          \/ f = c.g /\ c.pc = "pipemem"}

\* They are the call's alone.
Private(p) ==
  /\ st[p].pc = "pipemem" => st[p].f # st[p].g
  /\ \A f \in Blank(st[p]) :
       /\ obj[f] = FD_NONE
       /\ \A q \in Proc : \A d \in Fd : ofile[q][d] # f
       /\ \A q \in Proc \ {p} : st[q].f # f /\ st[q].g # f

\* A file without references has no type: fileclose() has reset it.
Reset == \A f \in File : ref[f] = 0 => obj[f] = FD_NONE

IInv ==
  /\ Types /\ Reset /\ FilesCounted
  /\ \A p \in Proc : CallOK(st[p]) /\ Gone(p) /\ Private(p)

-----------------------------------------------------------------------------
(* Counting *)

\* Steps are for Zenon unless they name another prover.
USE Zenon

\* 1 or 0, as x is in A, as x is y.
Has(A, x) == IF x \in A THEN 1 ELSE 0
Is(x, y) == IF x = y THEN 1 ELSE 0

\* Two subsets of a finite set that differ at most in d.
Near(D, A, B, d) ==
  /\ IsFiniteSet(D) /\ A \in SUBSET D /\ B \in SUBSET D
  /\ \A x \in D : x # d => (x \in A <=> x \in B)

\* They differ in size by d alone.
LEMMA Toggle ==
  ASSUME NEW D, NEW A, NEW B, NEW d, Near(D, A, B, d)
  PROVE  /\ Cardinality(A) \in Nat /\ Cardinality(B) \in Nat
         /\ Cardinality(B) = Cardinality(A) + Has(B, d) - Has(A, d)
<1> USE DEF Near
<1>1. /\ IsFiniteSet(A) /\ IsFiniteSet(B)
      /\ Cardinality(A) \in Nat /\ Cardinality(B) \in Nat
  BY FS_Subset, FS_CardinalityType
<1>2. CASE d \in A /\ d \notin B
  <2>1. A = B \cup {d}
    BY <1>2
  <2>2. Cardinality(A) = Cardinality(B) + 1
    BY <1>1, <1>2, <2>1, FS_AddElement
  <2> QED BY <1>1, <1>2, <2>2, SMT DEF Has
<1>3. CASE d \notin A /\ d \in B
  <2>1. B = A \cup {d}
    BY <1>3
  <2>2. Cardinality(B) = Cardinality(A) + 1
    BY <1>1, <1>3, <2>1, FS_AddElement
  <2> QED BY <1>1, <1>3, <2>2, SMT DEF Has
<1>4. CASE d \in A <=> d \in B
  <2>1. A = B
    BY <1>4, SMT
  <2> QED BY <1>1, <2>1, SMT DEF Has
<1> QED BY <1>2, <1>3, <1>4

\* The descriptors that refer to file f in the tables O.
DescsOf(O, f) == {x \in Proc \X Fd : O[x[1]][x[2]] = f}

\* The calls that hold file f, or that hold object o.
Fs(f) == {p \in Proc : st[p].f = f}
Gs(f) == {p \in Proc : st[p].g = f}
Os(o) == {p \in Proc : st[p].o = o}

\* The files that refer to object o, when R and B are ref and obj.
RefsOf(R, B, o) == {f \in File : R[f] > 0 /\ B[f] = o}

\* 1 or 0, as a file with r references and type b refers to object o.
Refers(r, b, o) == IF r > 0 /\ b = o THEN 1 ELSE 0

\* The conjuncts of FilesCounted
FileOK(f) == ref[f] = Cardinality(DescsOf(ofile, f)) + Cardinality(Fs(f)) + Cardinality(Gs(f))
ObjectOK(o) == use[o] = Cardinality(RefsOf(ref, obj, o)) + Cardinality(Os(o))

\* The tables are finite.
LEMMA Finite ==
  ASSUME Sizes
  PROVE  /\ IsFiniteSet(Proc) /\ IsFiniteSet(File) /\ IsFiniteSet(Fd) /\ IsFiniteSet(Proc \X Fd)
         /\ File \subseteq Nat /\ Fd \subseteq Nat /\ None \notin File
<1>1. NFILE \in Int /\ NOFILE - 1 \in Int /\ 0 \in Int /\ 1 \in Int
  BY SMT DEF Sizes
<1>2. IsFiniteSet(File) /\ IsFiniteSet(Fd)
  BY <1>1, FS_Interval DEF File, Fd
<1>3. IsFiniteSet(Proc)
  BY DEF Sizes
<1>4. IsFiniteSet(Proc \X Fd)
  BY <1>2, <1>3, FS_Product
<1>5. File \subseteq Nat /\ Fd \subseteq Nat /\ None \notin File
  BY SMT DEF Sizes, File, Fd, None
<1> QED BY <1>2, <1>3, <1>4, <1>5

\* filealloc() and fdalloc() return an element of what is free.
LEMMA FirstIn ==
  ASSUME NEW S \in SUBSET Nat, S # {}
  PROVE  First(S) \in S
<1> DEFINE R == OpToRel(<, Nat)
<1>1. IsWellFoundedOn(R, Nat)
  BY NatLessThanWellFounded
<1>2. \A x, y \in Nat : y < x => <<y, x>> \in R
  BY SMT DEF OpToRel
<1> HIDE DEF R
<1>3. PICK x \in S : \A y \in S : ~(<<y, x>> \in R)
  BY <1>1, WFMin
<1>4. \A y \in S : ~(y < x)
  BY <1>2, <1>3
<1>5. \A y \in S : x <= y
  BY <1>4, SMT
<1> QED BY <1>5 DEF First

\* The tables of descriptors
Tables == [Proc -> [Fd -> File \cup {None}]]

\* Table O with descriptor d of process p referring to b.
Put(O, p, d, b) == [O EXCEPT ![p][d] = b]

\* The count of the descriptors that refer to a file, after a change of one.
LEMMA Redescribed ==
  ASSUME Sizes, NEW O \in Tables,
         NEW p \in Proc, NEW d \in Fd, NEW b, NEW f
  PROVE  /\ Cardinality(DescsOf(O, f)) \in Nat
         /\ Cardinality(DescsOf(Put(O, p, d, b), f))
              = Cardinality(DescsOf(O, f)) + Is(b, f) - Is(O[p][d], f)
<1> DEFINE O2 == [O EXCEPT ![p][d] = b]
<1>1. O \in [Proc -> [Fd -> File \cup {None}]]
  BY DEF Tables
<1>2. /\ \A q \in Proc \ {p} : O2[q] = O[q]
      /\ O2[p][d] = b /\ \A e \in Fd \ {d} : O2[p][e] = O[p][e]
  <2>1. O2[p] = [O[p] EXCEPT ![d] = b] /\ \A q \in Proc \ {p} : O2[q] = O[q]
    BY <1>1
  <2>2. O[p] \in [Fd -> File \cup {None}]
    BY <1>1
  <2> HIDE DEF O2
  <2> QED BY <2>1, <2>2
<1> HIDE DEF O2
<1> DEFINE A == DescsOf(O, f)
           B == DescsOf(O2, f)
<1>3. PICK y \in Proc \X Fd : y = <<p, d>>
  <2>1. <<p, d>> \in Proc \X Fd
    BY SMT
  <2> QED BY <2>1
<1>4. (y \in A <=> O[p][d] = f) /\ (y \in B <=> b = f)
  BY <1>2, <1>3, SMT DEF DescsOf
<1>5. \A x \in Proc \X Fd : x # y => (x \in A <=> x \in B)
  BY <1>2, <1>3, SMT DEF DescsOf
<1>6. A \in SUBSET (Proc \X Fd) /\ B \in SUBSET (Proc \X Fd)
  BY DEF DescsOf
<1> HIDE DEF A, B
<1>7. Near(Proc \X Fd, A, B, y)
  BY <1>5, <1>6, Finite DEF Near
<1>8. Has(A, y) = Is(O[p][d], f) /\ Has(B, y) = Is(b, f)
  BY <1>4 DEF Has, Is
<1>9. /\ Cardinality(A) \in Nat /\ Cardinality(B) \in Nat
      /\ Cardinality(B) = Cardinality(A) + Has(B, y) - Has(A, y)
  BY <1>7, Toggle, SMT
<1> QED BY <1>8, <1>9 DEF A, B, O2, Put

\* The count of the calls that hold a file, after a change of one call.
LEMMA Refiled ==
  ASSUME Sizes, Types, NEW p \in Proc, NEW c, st' = [st EXCEPT ![p] = c], NEW v
  PROVE  /\ Cardinality(Fs(v)) \in Nat /\ Cardinality(Fs(v)') \in Nat
         /\ Cardinality(Fs(v)') = Cardinality(Fs(v)) + Is(c.f, v) - Is(st[p].f, v)
<1> DEFINE A == Fs(v)
           B == Fs(v)'
<1>1. st'[p] = c /\ \A q \in Proc \ {p} : st'[q] = st[q]
  BY DEF Types
<1>2. Near(Proc, A, B, p)
  BY <1>1, Finite DEF Fs, Near
<1>3. Has(A, p) = Is(st[p].f, v) /\ Has(B, p) = Is(c.f, v)
  BY <1>1 DEF Fs, Has, Is
<1> HIDE DEF A, B
<1>4. /\ Cardinality(A) \in Nat /\ Cardinality(B) \in Nat
      /\ Cardinality(B) = Cardinality(A) + Has(B, p) - Has(A, p)
  BY <1>2, Toggle, SMT
<1> QED BY <1>3, <1>4 DEF A, B

\* The count of the calls that hold a file as the second one of a pipe.
LEMMA Regiven ==
  ASSUME Sizes, Types, NEW p \in Proc, NEW c, st' = [st EXCEPT ![p] = c], NEW v
  PROVE  /\ Cardinality(Gs(v)) \in Nat /\ Cardinality(Gs(v)') \in Nat
         /\ Cardinality(Gs(v)') = Cardinality(Gs(v)) + Is(c.g, v) - Is(st[p].g, v)
<1> DEFINE A == Gs(v)
           B == Gs(v)'
<1>1. st'[p] = c /\ \A q \in Proc \ {p} : st'[q] = st[q]
  BY DEF Types
<1>2. Near(Proc, A, B, p)
  BY <1>1, Finite DEF Gs, Near
<1>3. Has(A, p) = Is(st[p].g, v) /\ Has(B, p) = Is(c.g, v)
  BY <1>1 DEF Gs, Has, Is
<1> HIDE DEF A, B
<1>4. /\ Cardinality(A) \in Nat /\ Cardinality(B) \in Nat
      /\ Cardinality(B) = Cardinality(A) + Has(B, p) - Has(A, p)
  BY <1>2, Toggle, SMT
<1> QED BY <1>3, <1>4 DEF A, B

\* The count of the calls that hold an object.
LEMMA Reheld ==
  ASSUME Sizes, Types, NEW p \in Proc, NEW c, st' = [st EXCEPT ![p] = c], NEW v
  PROVE  /\ Cardinality(Os(v)) \in Nat /\ Cardinality(Os(v)') \in Nat
         /\ Cardinality(Os(v)') = Cardinality(Os(v)) + Is(c.o, v) - Is(st[p].o, v)
<1> DEFINE A == Os(v)
           B == Os(v)'
<1>1. st'[p] = c /\ \A q \in Proc \ {p} : st'[q] = st[q]
  BY DEF Types
<1>2. Near(Proc, A, B, p)
  BY <1>1, Finite DEF Os, Near
<1>3. Has(A, p) = Is(st[p].o, v) /\ Has(B, p) = Is(c.o, v)
  BY <1>1 DEF Os, Has, Is
<1> HIDE DEF A, B
<1>4. /\ Cardinality(A) \in Nat /\ Cardinality(B) \in Nat
      /\ Cardinality(B) = Cardinality(A) + Has(B, p) - Has(A, p)
  BY <1>2, Toggle, SMT
<1> QED BY <1>3, <1>4 DEF A, B

\* Files other than f refer to the same objects.
Alike(R, B, R2, B2, f) == \A g \in File \ {f} : (R2[g] > 0 <=> R[g] > 0) /\ B2[g] = B[g]

\* The files that refer to an object, after a change of one file.
LEMMA Rereferred ==
  ASSUME Sizes, NEW R, NEW B, NEW R2, NEW B2, NEW f \in File, NEW o,
         Alike(R, B, R2, B2, f)
  PROVE  /\ Cardinality(RefsOf(R, B, o)) \in Nat /\ Cardinality(RefsOf(R2, B2, o)) \in Nat
         /\ Cardinality(RefsOf(R2, B2, o))
              = Cardinality(RefsOf(R, B, o)) + Refers(R2[f], B2[f], o) - Refers(R[f], B[f], o)
<1> DEFINE S == RefsOf(R, B, o)
           T == RefsOf(R2, B2, o)
<1>1. Near(File, S, T, f)
  BY Finite DEF RefsOf, Near, Alike
<1>2. Has(S, f) = Refers(R[f], B[f], o) /\ Has(T, f) = Refers(R2[f], B2[f], o)
  BY DEF RefsOf, Has, Refers
<1> HIDE DEF S, T
<1>3. /\ Cardinality(S) \in Nat /\ Cardinality(T) \in Nat
      /\ Cardinality(T) = Cardinality(S) + Has(T, f) - Has(S, f)
  BY <1>1, Toggle, SMT
<1> QED BY <1>2, <1>3 DEF S, T

\* FilesCounted says that every file and every object is counted.
LEMMA Counted == FilesCounted <=> (\A f \in File : FileOK(f)) /\ (\A o \in Object : ObjectOK(o))
  BY DEF FilesCounted, FileOK, ObjectOK, Descs, DescsOf, Fs, Gs, Os, RefsOf

\* The sets that are counted are finite.
LEMMA FiniteCounts ==
  ASSUME Sizes, NEW v
  PROVE  /\ IsFiniteSet(DescsOf(ofile, v)) /\ Cardinality(DescsOf(ofile, v)) \in Nat
         /\ IsFiniteSet(Fs(v)) /\ Cardinality(Fs(v)) \in Nat
         /\ IsFiniteSet(Gs(v)) /\ Cardinality(Gs(v)) \in Nat
         /\ IsFiniteSet(RefsOf(ref, obj, v)) /\ Cardinality(RefsOf(ref, obj, v)) \in Nat
         /\ IsFiniteSet(Os(v)) /\ Cardinality(Os(v)) \in Nat
<1>1. /\ DescsOf(ofile, v) \subseteq Proc \X Fd /\ RefsOf(ref, obj, v) \subseteq File
      /\ Fs(v) \subseteq Proc /\ Gs(v) \subseteq Proc /\ Os(v) \subseteq Proc
  BY DEF DescsOf, RefsOf, Fs, Gs, Os
<1>2. /\ IsFiniteSet(DescsOf(ofile, v)) /\ IsFiniteSet(RefsOf(ref, obj, v))
      /\ IsFiniteSet(Fs(v)) /\ IsFiniteSet(Gs(v)) /\ IsFiniteSet(Os(v))
  BY <1>1, Finite, FS_Subset
<1> QED BY <1>2, FS_CardinalityType

\* Nobody has a file without references.
LEMMA NobodyHas ==
  ASSUME Sizes, Types, NEW f \in File, FileOK(f), ref[f] = 0
  PROVE  /\ \A q \in Proc : st[q].f # f /\ st[q].g # f
         /\ \A q \in Proc : \A d \in Fd : ofile[q][d] # f
<1> DEFINE A == DescsOf(ofile, f)
           B == Fs(f)
           C == Gs(f)
<1>1. /\ IsFiniteSet(A) /\ IsFiniteSet(B) /\ IsFiniteSet(C)
      /\ Cardinality(A) \in Nat /\ Cardinality(B) \in Nat /\ Cardinality(C) \in Nat
  BY FiniteCounts
<1>2. 0 = Cardinality(A) + Cardinality(B) + Cardinality(C)
  BY DEF FileOK
<1>3. \A q \in Proc : (st[q].f = f => q \in B) /\ (st[q].g = f => q \in C)
  BY DEF Fs, Gs
<1>4. \A q \in Proc : \A d \in Fd : ofile[q][d] = f => <<q, d>> \in A
  BY SMT DEF DescsOf
<1> HIDE DEF A, B, C
<1>5. Cardinality(A) = 0 /\ Cardinality(B) = 0 /\ Cardinality(C) = 0
  BY <1>1, <1>2, SMT
<1>6. A = {} /\ B = {} /\ C = {}
  BY <1>1, <1>5, FS_EmptySet
<1> QED BY <1>3, <1>4, <1>6

\* A file that a descriptor or a call has is referred to.
LEMMA Held ==
  ASSUME Sizes, Types, NEW f \in File, FileOK(f), NEW q \in Proc,
         st[q].f = f \/ st[q].g = f \/ \E d \in Fd : ofile[q][d] = f
  PROVE  ref[f] > 0
<1>1. ref[f] # 0
  BY NobodyHas
<1> QED BY <1>1, SMT DEF Types

-----------------------------------------------------------------------------
(* The counts after a step *)

\* How much the call c of process p counts more for file f than the call it replaces.
Shift(p, c, f) == Is(c.f, f) - Is(st[p].f, f) + Is(c.g, f) - Is(st[p].g, f)

\* A step changes the count of a file by what its descriptors and its call do.
LEMMA FileCount ==
  ASSUME Sizes, Types, NEW p \in Proc, NEW c, st' = [st EXCEPT ![p] = c],
         NEW f \in File, FileOK(f), NEW k \in Int,
         Cardinality(DescsOf(ofile', f)) = Cardinality(DescsOf(ofile, f)) + k,
         ref'[f] = ref[f] + k + Shift(p, c, f)
  PROVE  FileOK(f)'
<1> DEFINE A == Cardinality(DescsOf(ofile, f))
           A2 == Cardinality(DescsOf(ofile', f))
           B == Cardinality(Fs(f))
           B2 == Cardinality(Fs(f)')
           C == Cardinality(Gs(f))
           C2 == Cardinality(Gs(f)')
<1>1. A \in Nat
  BY FiniteCounts
<1>2. B \in Nat /\ B2 \in Nat /\ B2 = B + Is(c.f, f) - Is(st[p].f, f)
  BY Refiled
<1>3. C \in Nat /\ C2 \in Nat /\ C2 = C + Is(c.g, f) - Is(st[p].g, f)
  BY Regiven
<1>4. A2 = A + k
  OBVIOUS
<1>5. ref[f] = A + B + C
  BY DEF FileOK
<1>6. /\ Is(c.f, f) \in Int /\ Is(st[p].f, f) \in Int
      /\ Is(c.g, f) \in Int /\ Is(st[p].g, f) \in Int
  BY SMT DEF Is
<1> HIDE DEF A, A2, B, B2, C, C2
<1>7. ref'[f] = A2 + B2 + C2
  BY <1>1, <1>2, <1>3, <1>4, <1>5, <1>6, SMT DEF Shift
<1> QED BY <1>7 DEF FileOK, A2, B2, C2

\* No descriptor changes.
LEMMA FileSame ==
  ASSUME Sizes, Types, NEW p \in Proc, NEW c, st' = [st EXCEPT ![p] = c],
         NEW f \in File, FileOK(f), ofile' = ofile, ref'[f] = ref[f] + Shift(p, c, f)
  PROVE  FileOK(f)'
<1>1. Cardinality(DescsOf(ofile', f)) = Cardinality(DescsOf(ofile, f)) + 0
  BY FiniteCounts, SMT
<1>2. ref'[f] = ref[f] + 0 + Shift(p, c, f)
  BY SMT DEF Types
<1>3. 0 \in Int
  BY SMT
<1> QED BY <1>1, <1>2, <1>3, FileCount

\* One descriptor changes.
LEMMA FileMoved ==
  ASSUME Sizes, Types, NEW p \in Proc, NEW c, st' = [st EXCEPT ![p] = c],
         NEW d \in Fd, NEW b, ofile' = [ofile EXCEPT ![p][d] = b],
         NEW f \in File, FileOK(f),
         ref'[f] = ref[f] + (Is(b, f) - Is(ofile[p][d], f)) + Shift(p, c, f)
  PROVE  FileOK(f)'
<1> DEFINE k == Is(b, f) - Is(ofile[p][d], f)
<1>1. k \in Int
  BY SMT DEF Is
<1>2. /\ Cardinality(DescsOf(ofile, f)) \in Nat
      /\ Cardinality(DescsOf(ofile', f))
           = Cardinality(DescsOf(ofile, f)) + Is(b, f) - Is(ofile[p][d], f)
  <2>1. ofile' = Put(ofile, p, d, b)
    BY DEF Put
  <2>2. ofile \in Tables
    BY DEF Types, Tables
  <2>3. /\ Cardinality(DescsOf(ofile, f)) \in Nat
        /\ Cardinality(DescsOf(Put(ofile, p, d, b), f))
             = Cardinality(DescsOf(ofile, f)) + Is(b, f) - Is(ofile[p][d], f)
    BY <2>2, Redescribed, SMT
  <2> QED BY <2>1, <2>3
<1>3. Cardinality(DescsOf(ofile', f)) = Cardinality(DescsOf(ofile, f)) + k
  <2>1. Is(b, f) \in Int /\ Is(ofile[p][d], f) \in Int
    BY SMT DEF Is
  <2> QED BY <1>2, <2>1, SMT
<1>4. ref'[f] = ref[f] + k + Shift(p, c, f)
  OBVIOUS
<1> HIDE DEF k
<1> QED BY <1>1, <1>3, <1>4, FileCount

\* A step changes the count of an object by what the files and its call do.
LEMMA ObjectCount ==
  ASSUME Sizes, Types, NEW p \in Proc, NEW c, st' = [st EXCEPT ![p] = c],
         NEW o \in Object, ObjectOK(o), NEW k \in Int,
         Cardinality(RefsOf(ref', obj', o)) = Cardinality(RefsOf(ref, obj, o)) + k,
         use'[o] = use[o] + k + Is(c.o, o) - Is(st[p].o, o)
  PROVE  ObjectOK(o)'
<1> DEFINE A == Cardinality(RefsOf(ref, obj, o))
           A2 == Cardinality(RefsOf(ref', obj', o))
           B == Cardinality(Os(o))
           B2 == Cardinality(Os(o)')
<1>1. A \in Nat
  BY FiniteCounts
<1>2. B \in Nat /\ B2 \in Nat /\ B2 = B + Is(c.o, o) - Is(st[p].o, o)
  BY Reheld
<1>3. A2 = A + k /\ use[o] = A + B
  BY DEF ObjectOK
<1>4. Is(c.o, o) \in Int /\ Is(st[p].o, o) \in Int
  BY SMT DEF Is
<1> HIDE DEF A, A2, B, B2
<1>5. use'[o] = A2 + B2
  BY <1>1, <1>2, <1>3, <1>4, SMT
<1> QED BY <1>5 DEF ObjectOK, A2, B2

\* No file comes to refer to the object, none ceases to.
LEMMA ObjectSame ==
  ASSUME Sizes, Types, NEW p \in Proc, NEW c, st' = [st EXCEPT ![p] = c],
         NEW o \in Object, ObjectOK(o),
         \A f \in File : (ref'[f] > 0 /\ obj'[f] = o) <=> (ref[f] > 0 /\ obj[f] = o),
         use'[o] = use[o] + Is(c.o, o) - Is(st[p].o, o)
  PROVE  ObjectOK(o)'
<1>1. RefsOf(ref', obj', o) = RefsOf(ref, obj, o)
  BY DEF RefsOf
<1>2. Cardinality(RefsOf(ref', obj', o)) = Cardinality(RefsOf(ref, obj, o)) + 0
  BY <1>1, FiniteCounts, SMT
<1>3. 0 \in Int /\ use'[o] = use[o] + 0 + Is(c.o, o) - Is(st[p].o, o)
  BY SMT DEF Types
<1> QED BY <1>2, <1>3, ObjectCount

\* One file changes.
LEMMA ObjectMoved ==
  ASSUME Sizes, Types, NEW p \in Proc, NEW c, st' = [st EXCEPT ![p] = c],
         NEW f \in File, Alike(ref, obj, ref', obj', f),
         NEW o \in Object, ObjectOK(o),
         use'[o] = use[o] + (Refers(ref'[f], obj'[f], o) - Refers(ref[f], obj[f], o))
                   + Is(c.o, o) - Is(st[p].o, o)
  PROVE  ObjectOK(o)'
<1> DEFINE k == Refers(ref'[f], obj'[f], o) - Refers(ref[f], obj[f], o)
<1>1. /\ Refers(ref'[f], obj'[f], o) \in Int /\ Refers(ref[f], obj[f], o) \in Int
      /\ k \in Int
  BY SMT DEF Refers
<1>2. /\ Cardinality(RefsOf(ref, obj, o)) \in Nat
      /\ Cardinality(RefsOf(ref', obj', o))
           = Cardinality(RefsOf(ref, obj, o)) + Refers(ref'[f], obj'[f], o)
             - Refers(ref[f], obj[f], o)
  BY Rereferred, SMT
<1>3. Cardinality(RefsOf(ref', obj', o)) = Cardinality(RefsOf(ref, obj, o)) + k
  BY <1>1, <1>2, SMT
<1>4. use'[o] = use[o] + k + Is(c.o, o) - Is(st[p].o, o)
  OBVIOUS
<1> HIDE DEF k
<1> QED BY <1>1, <1>3, <1>4, ObjectCount

-----------------------------------------------------------------------------
(* What holds after a step *)

\* The files that a step of process p may take, give away or close.
Touch(p) == {f \in File : \/ ref[f] = 0 \/ f = st[p].f \/ f = st[p].g
                          \/ \E d \in Fd : ofile[p][d] = f}

\* They are not the blank files of another process.
LEMMA NotBlank ==
  ASSUME Sizes, IInv, NEW p \in Proc, NEW q \in Proc \ {p}, NEW f \in Blank(st[q])
  PROVE  f \in File \ Touch(p)
<1>1. f \in File /\ (f = st[q].f \/ f = st[q].g)
  BY DEF Blank
<1>2. FileOK(f) /\ Types
  BY <1>1, Counted DEF IInv
<1>3. ref[f] # 0
  BY <1>1, <1>2, NobodyHas
<1>4. st[p].f # f /\ st[p].g # f /\ \A d \in Fd : ofile[p][d] # f
  BY DEF IInv, Private
<1> QED BY <1>1, <1>3, <1>4 DEF Touch

\* So those stay private.
LEMMA Others ==
  ASSUME Sizes, IInv, NEW p \in Proc, NEW c, st' = [st EXCEPT ![p] = c],
         c.f \in Touch(p) \cup {None}, c.g \in Touch(p) \cup {None},
         \A r \in Proc : \A d \in Fd :
           ofile'[r][d] = ofile[r][d] \/ ofile'[r][d] \in Touch(p) \cup {None},
         \A f \in File \ Touch(p) : obj'[f] = obj[f],
         NEW q \in Proc \ {p}
  PROVE  Private(q)'
<1>1. st'[p] = c /\ \A r \in Proc \ {p} : st'[r] = st[r]
  BY DEF IInv, Types
<1>2. Private(q)
  BY DEF IInv
<1>3. ASSUME NEW f \in Blank(st[q])
      PROVE  /\ obj'[f] = FD_NONE
             /\ \A r \in Proc : \A d \in Fd : ofile'[r][d] # f
             /\ \A r \in Proc \ {q} : st'[r].f # f /\ st'[r].g # f
  <2>1. f \in File \ Touch(p) /\ f # None
    BY NotBlank, Finite
  <2>2. /\ obj[f] = FD_NONE
        /\ \A r \in Proc : \A d \in Fd : ofile[r][d] # f
        /\ \A r \in Proc \ {q} : st[r].f # f /\ st[r].g # f
    BY <1>2 DEF Private
  <2>3. obj'[f] = FD_NONE
    BY <2>1, <2>2
  <2>4. \A r \in Proc : \A d \in Fd : ofile'[r][d] # f
    BY <2>1, <2>2
  <2>5. st'[p].f # f /\ st'[p].g # f
    BY <1>1, <2>1
  <2>6. \A r \in Proc \ {p, q} : st'[r].f # f /\ st'[r].g # f
    BY <1>1, <2>2
  <2> QED BY <2>3, <2>4, <2>5, <2>6
<1>4. st'[q] = st[q]
  BY <1>1
<1>5. Blank(st'[q]) = Blank(st[q])
  BY <1>4
<1>6. st'[q].pc = "pipemem" => st'[q].f # st'[q].g
  BY <1>2, <1>4 DEF Private
<1> QED BY <1>3, <1>5, <1>6 DEF Private

\* A process whose call has no blank file
LEMMA NoBlank ==
  ASSUME NEW p \in Proc, st'[p].pc \notin {"open", "pipe", "pipemem"}
  PROVE  Private(p)'
<1>1. Blank(st'[p]) = {}
  BY DEF Blank
<1> QED BY <1>1 DEF Private

\* A step of p with call c afterwards keeps the invariant if it keeps the counts.
LEMMA Keeps ==
  ASSUME Sizes, IInv, NEW p \in Proc, NEW c, st' = [st EXCEPT ![p] = c],
         CallOK(c), c.f \in Touch(p) \cup {None}, c.g \in Touch(p) \cup {None},
         Types', Reset', Gone(p)', Private(p)',
         \A q \in Proc \ {p} : ofile'[q] = ofile[q] /\ (q \in active <=> q \in active'),
         \A d \in Fd : ofile'[p][d] = ofile[p][d] \/ ofile'[p][d] \in Touch(p) \cup {None},
         \A f \in File \ Touch(p) : obj'[f] = obj[f],
         \A f \in File : FileOK(f)', \A o \in Object : ObjectOK(o)'
  PROVE  IInv'
<1>1. st'[p] = c /\ \A q \in Proc \ {p} : st'[q] = st[q]
  BY DEF IInv, Types
<1>2. \A q \in Proc : CallOK(st'[q])
  BY <1>1 DEF IInv
<1>3. ASSUME NEW q \in Proc \ {p} PROVE Gone(q)'
  <2>1. Gone(q) /\ st'[q] = st[q] /\ ofile'[q] = ofile[q] /\ (q \in active <=> q \in active')
    BY <1>1 DEF IInv
  <2> QED BY <2>1 DEF Gone, Idle
<1>4. \A r \in Proc : \A d \in Fd :
        ofile'[r][d] = ofile[r][d] \/ ofile'[r][d] \in Touch(p) \cup {None}
  OBVIOUS
<1>5. ASSUME NEW q \in Proc \ {p} PROVE Private(q)'
  BY <1>4, Others
<1>6. FilesCounted'
  <2>1. (FilesCounted <=> (\A f \in File : FileOK(f)) /\ (\A o \in Object : ObjectOK(o)))'
    BY Counted, PTL
  <2> QED BY <2>1
<1>7. \A q \in Proc : CallOK(st[q])'
  BY <1>2 DEF CallOK
<1>8. \A q \in Proc : Gone(q)' /\ Private(q)'
  BY <1>3, <1>5
<1> QED BY <1>6, <1>7, <1>8 DEF IInv

\* What the invariant says of a process that runs call c
LEMMA Facts ==
  ASSUME Sizes, IInv, NEW p \in Proc
  PROVE  /\ Types /\ Reset /\ st[p] \in Call /\ CallOK(st[p])
         /\ \A f \in File : FileOK(f)
         /\ \A o \in Object : ObjectOK(o)
         /\ \A f \in File : Is(None, f) = 0
         /\ \A o \in Object : Is(FD_NONE, o) = 0
<1>1. Types /\ Reset /\ CallOK(st[p])
  BY DEF IInv
<1>2. st[p] \in Call
  BY <1>1 DEF Types
<1>3. (\A f \in File : FileOK(f)) /\ (\A o \in Object : ObjectOK(o))
  BY Counted DEF IInv
<1>4. \A f \in File : Is(None, f) = 0
  BY Finite DEF Is
<1>5. \A o \in Object : Is(FD_NONE, o) = 0
  BY DEF Is, Sizes
<1> QED BY <1>1, <1>2, <1>3, <1>4, <1>5

-----------------------------------------------------------------------------
(* The steps *)

\* The record of a call
LEMMA MakeCall ==
  ASSUME NEW l \in Label, NEW f \in File \cup {None}, NEW g \in File \cup {None},
         NEW o \in Object \cup {FD_NONE}
  PROVE  [pc |-> l, f |-> f, g |-> g, o |-> o] \in Call
  BY DEF Call

\* A call that holds nothing
LEMMA Empty ==
  ASSUME NEW l \in {"idle", "exit"}, NEW c, c = [Idle EXCEPT !.pc = l]
  PROVE  /\ c \in Call /\ CallOK(c)
         /\ c.pc = l /\ c.f = None /\ c.g = None /\ c.o = FD_NONE
<1>1. c.pc = l /\ c.f = None /\ c.g = None /\ c.o = FD_NONE
  BY SMT DEF Idle
<1>2. c = [pc |-> l, f |-> None, g |-> None, o |-> FD_NONE]
  BY SMT DEF Idle
<1>3. c \in Call
  <2>1. l \in Label
    BY DEF Label
  <2>2. None \in File \cup {None} /\ FD_NONE \in Object \cup {FD_NONE}
    OBVIOUS
  <2>3. [pc |-> l, f |-> None, g |-> None, o |-> FD_NONE] \in Call
    BY <2>1, <2>2, MakeCall
  <2> QED BY <1>2, <2>3
<1>4. CallOK(c)
  BY <1>1 DEF CallOK
<1> QED BY <1>1, <1>3, <1>4

\* A step that changes nothing but the call of p, from one that holds no file, and use.
LEMMA CallEnds ==
  ASSUME Sizes, IInv, NEW p \in Proc, NEW l \in {"idle", "exit"},
         st' = [st EXCEPT ![p] = [Idle EXCEPT !.pc = l]],
         st[p].f = None, st[p].g = None,
         ref' = ref, obj' = obj, ofile' = ofile, Gone(p)', active' \in SUBSET Proc,
         \A q \in Proc \ {p} : q \in active <=> q \in active',
         use' = Released(st[p].o)
  PROVE  IInv'
<1> DEFINE c == [Idle EXCEPT !.pc = l]
<1>1. /\ c \in Call /\ CallOK(c)
      /\ c.pc = l /\ c.f = None /\ c.g = None /\ c.o = FD_NONE
  BY Empty
<1>2. st' = [st EXCEPT ![p] = c]
  OBVIOUS
<1> HIDE DEF c
<1>3. /\ Types /\ Reset
      /\ \A f \in File : FileOK(f) /\ Is(None, f) = 0
      /\ \A o \in Object : ObjectOK(o) /\ Is(FD_NONE, o) = 0
  BY Facts
<1>4. use' \in [Object -> Int] /\ \A o \in Object : use'[o] = use[o] - Is(st[p].o, o)
  BY <1>3, SMT DEF Types, Released, Is
<1>5. Types'
  BY <1>1, <1>2, <1>3, <1>4 DEF Types
<1>6. Reset'
  BY <1>3 DEF Reset
<1>7. Private(p)'
  <2>1. st'[p].pc = l
    BY <1>1, <1>2, <1>3 DEF Types
  <2> QED BY <2>1, NoBlank
<1>8. ASSUME NEW f \in File PROVE FileOK(f)'
  <2>1. Shift(p, c, f) = 0
    BY <1>1, <1>3, SMT DEF Shift
  <2>2. ref'[f] = ref[f] + Shift(p, c, f)
    BY <1>3, <2>1, SMT DEF Types
  <2> QED BY <1>2, <1>3, <2>2, FileSame
<1>9. ASSUME NEW o \in Object PROVE ObjectOK(o)'
  <2>1. use'[o] = use[o] + Is(c.o, o) - Is(st[p].o, o)
    BY <1>1, <1>3, <1>4, SMT DEF Types, Is
  <2> QED BY <1>2, <1>3, <2>1, ObjectSame
<1> QED BY <1>1, <1>2, <1>5, <1>6, <1>7, <1>8, <1>9, Keeps

\* fileclose() after the lock
LEMMA FilecloseKeeps ==
  ASSUME Sizes, IInv, NEW p \in Proc, Fileclose(p)
  PROVE  IInv'
<1>1. PICK l \in {"idle", "exit"} : st' = [st EXCEPT ![p] = [Idle EXCEPT !.pc = l]]
  <2>1. Idle = [Idle EXCEPT !.pc = "idle"]
    BY SMT DEF Idle
  <2> QED BY <2>1 DEF Fileclose, Goto
<1>2. p \in active /\ st[p].pc \in {"closed", "exitclosed"}
  BY DEF Fileclose, At
<1>3. st[p].f = None /\ st[p].g = None
  BY <1>2, Facts DEF CallOK
<1>4. Gone(p)' /\ active' \in SUBSET Proc
  BY <1>2, Facts DEF Gone, Fileclose, Types
<1> QED BY <1>1, <1>3, <1>4, CallEnds DEF Fileclose

\* exit() before its loop, and after it
LEMMA ExitKeeps ==
  ASSUME Sizes, IInv, NEW p \in Proc, Exit(p) \/ Exited(p)
  PROVE  IInv'
<1>1. PICK l \in {"idle", "exit"} : st' = [st EXCEPT ![p] = [Idle EXCEPT !.pc = l]]
  <2>1. Idle = [Idle EXCEPT !.pc = "idle"]
    BY SMT DEF Idle
  <2> QED BY <2>1 DEF Exit, Exited, Goto
<1>2. p \in active /\ st[p].pc \in {"idle", "exit"}
  BY DEF Exit, Exited, At
<1>3. st[p].f = None /\ st[p].g = None /\ st[p].o = FD_NONE
  BY <1>2, Facts DEF CallOK
<1>4. use' = Released(st[p].o)
  <2>1. use \in [Object -> Int] /\ FD_NONE \notin Object
    BY Facts DEF Types, Sizes
  <2>2. use' = use
    BY DEF Exit, Exited
  <2> QED BY <1>3, <2>1, <2>2 DEF Released
<1>5. Gone(p)'
  <2>1. CASE Exit(p)
    BY <1>2, <2>1 DEF Gone, Exit
  <2>2. CASE Exited(p)
    <3>1. st'[p] = Idle
      BY <2>2, Facts DEF Exited, Goto, Types
    <3>2. \A d \in Fd : ofile'[p][d] = None
      BY <2>2 DEF Exited, FreeFds
    <3> QED BY <3>1, <3>2 DEF Gone, Idle
  <2> QED BY <2>1, <2>2
<1>6. active' \in SUBSET Proc /\ \A q \in Proc \ {p} : q \in active <=> q \in active'
  BY Facts DEF Exit, Exited, Types
<1>7. ref' = ref /\ obj' = obj /\ ofile' = ofile
  BY DEF Exit, Exited
<1> QED BY <1>1, <1>3, <1>4, <1>5, <1>6, <1>7, CallEnds

\* fdalloc() finds a free descriptor.
LEMMA FreeFd ==
  ASSUME Sizes, NEW p \in Proc, FreeFds(p) # {}
  PROVE  First(FreeFds(p)) \in Fd /\ ofile[p][First(FreeFds(p))] = None
<1>1. FreeFds(p) \in SUBSET Nat
  BY Finite DEF FreeFds
<1>2. First(FreeFds(p)) \in FreeFds(p)
  BY <1>1, FirstIn
<1> QED BY <1>2 DEF FreeFds

\* filealloc() finds a file that nobody has.
LEMMA FreeFile ==
  ASSUME Sizes, IInv, Unused # {}, NEW p \in Proc
  PROVE  /\ First(Unused) \in File /\ ref[First(Unused)] = 0
         /\ obj[First(Unused)] = FD_NONE /\ First(Unused) \in Touch(p)
         /\ \A q \in Proc : st[q].f # First(Unused) /\ st[q].g # First(Unused)
         /\ \A q \in Proc : \A d \in Fd : ofile[q][d] # First(Unused)
<1>1. Unused \in SUBSET Nat
  BY Finite DEF Unused
<1>2. First(Unused) \in Unused
  BY <1>1, FirstIn
<1>3. First(Unused) \in File /\ ref[First(Unused)] = 0
  BY <1>2 DEF Unused
<1>4. obj[First(Unused)] = FD_NONE /\ First(Unused) \in Touch(p)
  BY <1>3 DEF IInv, Reset, Touch
<1> QED BY <1>3, <1>4, Facts, NobodyHas

\* A descriptor refers to a file or to none.
LEMMA FdType ==
  ASSUME Types, NEW p \in Proc, NEW d \in Fd
  PROVE  ofile[p][d] \in File \cup {None}
<1>1. ofile[p] \in [Fd -> File \cup {None}]
  BY DEF Types
<1> QED BY <1>1

\* sys_dup()
LEMMA DupKeeps ==
  ASSUME Sizes, IInv, NEW p \in Proc, NEW d \in Fd, Dup(p, d)
  PROVE  IInv'
<1> DEFINE e == First(FreeFds(p))
           b == ofile[p][d]
           c == st[p]
<1>1. p \in active /\ c.pc = "idle" /\ b # None /\ e \in Fd /\ ofile[p][e] = None
  BY FreeFd DEF Dup, At
<1>2. /\ Types /\ Reset /\ c \in Call /\ CallOK(c)
      /\ \A f \in File : FileOK(f) /\ Is(None, f) = 0
      /\ \A o \in Object : ObjectOK(o)
  BY Facts
<1>3. b \in File
  <2>1. b \in File \cup {None}
    BY <1>2, FdType
  <2> QED BY <1>1, <2>1
<1>4. /\ ofile' = [ofile EXCEPT ![p][e] = b] /\ ref' = [ref EXCEPT ![b] = @ + 1]
      /\ obj' = obj /\ active' = active /\ use' = use
  BY DEF Dup, Fdalloc
<1>5. st' = [st EXCEPT ![p] = c]
  BY <1>2 DEF Dup, Types
<1>6. c.f = None /\ c.g = None
  BY <1>1, <1>2 DEF CallOK
<1>7. b \in Touch(p)
  BY <1>3 DEF Touch
<1> HIDE DEF e, b, c
<1>8. ref[b] > 0
  BY <1>2, <1>3, Held DEF b
<1>9. /\ ref' \in [File -> Nat]
      /\ \A f \in File : ref'[f] = ref[f] + Is(b, f) /\ (ref'[f] > 0 <=> ref[f] > 0)
  BY <1>2, <1>3, <1>4, <1>8, SMT DEF Types, Is
<1>10. Types'
  <2>1. ofile' \in [Proc -> [Fd -> File \cup {None}]]
    BY <1>1, <1>2, <1>3, <1>4, SMT DEF Types
  <2>2. st' \in [Proc -> Call]
    BY <1>2, <1>5 DEF Types
  <2> QED BY <1>2, <1>4, <1>9, <2>1, <2>2 DEF Types
<1>11. Reset'
  BY <1>2, <1>4, <1>9, SMT DEF Reset, Types
<1>12. Gone(p)' /\ Private(p)'
  <2>1. st'[p].pc = "idle"
    BY <1>1, <1>2, <1>5 DEF Types
  <2> QED BY <1>1, <1>4, <2>1, NoBlank DEF Gone
<1>13. /\ \A q \in Proc \ {p} : ofile'[q] = ofile[q]
       /\ \A x \in Fd : ofile'[p][x] = ofile[p][x] \/ ofile'[p][x] \in Touch(p) \cup {None}
  BY <1>1, <1>2, <1>4, <1>7, SMT DEF Types
<1>14. ASSUME NEW f \in File PROVE FileOK(f)'
  <2>1. ref'[f] = ref[f] + (Is(b, f) - Is(ofile[p][e], f)) + Shift(p, c, f)
    <3>1. Is(None, f) = 0 /\ ref[f] \in Nat
      BY <1>2 DEF Types
    <3>2. Is(b, f) \in Int
      BY SMT DEF Is
    <3>3. Shift(p, c, f) = 0 /\ Is(ofile[p][e], f) = 0
      BY <1>1, <1>6, <3>1, SMT DEF Shift, c
    <3> QED BY <1>9, <3>1, <3>2, <3>3, SMT
  <2> QED BY <1>1, <1>2, <1>4, <1>5, <2>1, FileMoved
<1>15. ASSUME NEW o \in Object PROVE ObjectOK(o)'
  <2>1. use'[o] = use[o] + Is(c.o, o) - Is(st[p].o, o)
    BY <1>2, <1>4, SMT DEF Types, Is, c
  <2> QED BY <1>2, <1>4, <1>5, <1>9, <2>1, ObjectSame
<1>16. c.f \in Touch(p) \cup {None} /\ c.g \in Touch(p) \cup {None} /\ CallOK(c)
  BY <1>2, <1>6
<1> QED BY <1>4, <1>5, <1>10, <1>11, <1>12, <1>13, <1>14, <1>15, <1>16, Keeps

\* fileclose() under the lock
LEMMA Dropped ==
  ASSUME Sizes, Types, Reset, NEW f \in File, ref[f] > 0, Drop(f)
  PROVE  /\ ref' \in [File -> Nat] /\ obj' \in [File -> Object \cup {FD_NONE}] /\ Reset'
         /\ Copy(f) \in Object \cup {FD_NONE}
         /\ \A g \in File : ref'[g] = ref[g] - Is(f, g)
         /\ \A g \in File \ {f} : obj'[g] = obj[g]
         /\ Alike(ref, obj, ref', obj', f)
         /\ \A o \in Object :
              Is(Copy(f), o) = Refers(ref[f], obj[f], o) - Refers(ref'[f], obj'[f], o)
<1>1. ref \in [File -> Nat] /\ obj \in [File -> Object \cup {FD_NONE}] /\ FD_NONE \notin Object
  BY DEF Types, Sizes
<1>2. ref' \in [File -> Nat] /\ \A g \in File : ref'[g] = ref[g] - Is(f, g)
  BY <1>1, SMT DEF Drop, Is
<1>3. /\ obj' \in [File -> Object \cup {FD_NONE}]
      /\ \A g \in File \ {f} : obj'[g] = obj[g]
      /\ obj'[f] = IF ref[f] = 1 THEN FD_NONE ELSE obj[f]
  BY <1>1 DEF Drop, Closed
<1>4. \A g \in File \ {f} : ref'[g] = ref[g]
  BY <1>1 DEF Drop
<1>5. Alike(ref, obj, ref', obj', f)
  BY <1>3, <1>4 DEF Alike
<1>6. ref'[f] = ref[f] - 1 /\ ref[f] \in Nat /\ ref[f] # 0
  BY <1>1, SMT DEF Drop
<1>7. Reset'
  <2>1. ref'[f] = 0 => ref[f] = 1
    BY <1>6, SMT
  <2> QED BY <1>3, <1>4, <2>1 DEF Reset
<1>8. Copy(f) \in Object \cup {FD_NONE}
  BY <1>1 DEF Copy
<1>9. ASSUME NEW o \in Object
      PROVE  Is(Copy(f), o) = Refers(ref[f], obj[f], o) - Refers(ref'[f], obj'[f], o)
  <2>1. CASE ref[f] = 1
    <3>1. Copy(f) = obj[f] /\ ref'[f] = 0
      BY <1>6, <2>1, SMT DEF Copy
    <3> QED BY <2>1, <3>1, SMT DEF Is, Refers
  <2>2. CASE ref[f] # 1
    <3>1. Copy(f) = FD_NONE /\ obj'[f] = obj[f] /\ ref'[f] > 0
      BY <1>3, <1>6, <2>2, SMT DEF Copy
    <3>2. Is(Copy(f), o) = 0
      BY <1>1, <3>1 DEF Is
    <3> QED BY <3>1, <3>2, SMT DEF Refers
  <2> QED BY <2>1, <2>2
<1> QED BY <1>2, <1>3, <1>5, <1>7, <1>8, <1>9

\* The call that is about to close object o
Closing(l, o) == [Idle EXCEPT !.pc = l, !.o = o]

\* It holds no file.
LEMMA ClosedCall ==
  ASSUME NEW l \in Label, NEW o \in Object \cup {FD_NONE}
  PROVE  /\ Closing(l, o) \in Call /\ Closing(l, o).pc = l
         /\ Closing(l, o).f = None /\ Closing(l, o).g = None /\ Closing(l, o).o = o
<1> DEFINE c == Closing(l, o)
<1>1. "idle" \in Label /\ None \in File \cup {None} /\ FD_NONE \in Object \cup {FD_NONE}
  BY DEF Label
<1>2. Idle \in Call /\ Idle.f = None /\ Idle.g = None
  BY <1>1, MakeCall DEF Idle
<1>3. c \in Call
  BY <1>2 DEF Call, Closing
<1>4. c.pc = l /\ c.f = Idle.f /\ c.g = Idle.g /\ c.o = o
  BY <1>2 DEF Call, Closing
<1> QED BY <1>2, <1>3, <1>4

\* sys_close(), and one turn of the loop of exit()
LEMMA CloseKeeps ==
  ASSUME Sizes, IInv, NEW p \in Proc, NEW d \in Fd, Close(p, d)
  PROVE  IInv'
<1> DEFINE b == ofile[p][d]
<1>1. PICK l \in {"closed", "exitclosed"} :
        st' = [st EXCEPT ![p] = Closing(l, Copy(b))]
  BY DEF Close, Goto, Closing
<1>2. p \in active /\ st[p].pc \in {"idle", "exit"} /\ b # None
  BY DEF Close, At
<1>3. /\ Types /\ Reset /\ CallOK(st[p])
      /\ \A f \in File : FileOK(f) /\ Is(None, f) = 0
      /\ \A o \in Object : ObjectOK(o) /\ Is(FD_NONE, o) = 0
  BY Facts
<1>4. st[p].f = None /\ st[p].g = None /\ st[p].o = FD_NONE
  BY <1>2, <1>3 DEF CallOK
<1>5. b \in File
  <2>1. b \in File \cup {None}
    BY <1>3, FdType
  <2> QED BY <1>2, <2>1
<1>6. /\ ofile' = [ofile EXCEPT ![p][d] = None] /\ Drop(b)
      /\ active' = active /\ use' = use
  BY DEF Close
<1>7. b \in Touch(p)
  BY <1>5 DEF Touch
<1>8. ref[b] > 0
  BY <1>3, <1>5, Held
<1> DEFINE c == Closing(l, Copy(b))
<1>9. st' = [st EXCEPT ![p] = c]
  BY <1>1
<1> HIDE DEF b, c
<1>10. /\ ref' \in [File -> Nat] /\ obj' \in [File -> Object \cup {FD_NONE}] /\ Reset'
       /\ Copy(b) \in Object \cup {FD_NONE}
       /\ \A f \in File : ref'[f] = ref[f] - Is(b, f)
       /\ \A f \in File \ {b} : obj'[f] = obj[f]
       /\ Alike(ref, obj, ref', obj', b)
       /\ \A o \in Object :
            Is(Copy(b), o) = Refers(ref[b], obj[b], o) - Refers(ref'[b], obj'[b], o)
  BY <1>3, <1>5, <1>6, <1>8, Dropped
<1>11. c \in Call /\ c.pc = l /\ c.f = None /\ c.g = None /\ c.o = Copy(b)
  <2>1. l \in Label
    BY DEF Label
  <2>2. Copy(b) \in Object \cup {FD_NONE}
    BY <1>10
  <2> QED BY <2>1, <2>2, ClosedCall DEF c
<1>12. c \in Call /\ CallOK(c)
  BY <1>11 DEF CallOK
<1>13. Types'
  <2>1. ofile' \in [Proc -> [Fd -> File \cup {None}]]
    BY <1>3, <1>6, SMT DEF Types
  <2>2. st' \in [Proc -> Call]
    BY <1>3, <1>9, <1>12 DEF Types
  <2> QED BY <1>3, <1>6, <1>10, <2>1, <2>2 DEF Types
<1>14. Gone(p)' /\ Private(p)'
  <2>1. st'[p].pc = l
    BY <1>3, <1>11, <1>9 DEF Types
  <2>2. l \notin {"open", "pipe", "pipemem"}
    OBVIOUS
  <2> QED BY <1>2, <1>6, <2>1, <2>2, NoBlank DEF Gone
<1>15. /\ \A q \in Proc \ {p} : ofile'[q] = ofile[q]
       /\ \A x \in Fd : ofile'[p][x] = ofile[p][x] \/ ofile'[p][x] \in Touch(p) \cup {None}
  BY <1>3, <1>6, SMT DEF Types
<1>16. ASSUME NEW f \in File PROVE FileOK(f)'
  <2>1. ref'[f] = ref[f] + (Is(None, f) - Is(ofile[p][d], f)) + Shift(p, c, f)
    <3>1. Is(None, f) = 0 /\ ref[f] \in Nat
      BY <1>3 DEF Types
    <3>2. Is(b, f) \in Int /\ ofile[p][d] = b
      BY SMT DEF Is, b
    <3>3. Shift(p, c, f) = 0
      BY <1>4, <1>11, <3>1, SMT DEF Shift
    <3> QED BY <1>10, <3>1, <3>2, <3>3, SMT
  <2> QED BY <1>3, <1>6, <1>9, <2>1, FileMoved
<1>17. ASSUME NEW o \in Object PROVE ObjectOK(o)'
  <2>1. use'[o] = use[o] + (Refers(ref'[b], obj'[b], o) - Refers(ref[b], obj[b], o))
                  + Is(c.o, o) - Is(st[p].o, o)
    <3>1. Is(FD_NONE, o) = 0 /\ use[o] \in Int /\ use'[o] = use[o]
      BY <1>3, <1>6 DEF Types
    <3>2. Refers(ref'[b], obj'[b], o) \in Int /\ Refers(ref[b], obj[b], o) \in Int
      BY SMT DEF Refers
    <3>3. /\ Is(c.o, o) = Refers(ref[b], obj[b], o) - Refers(ref'[b], obj'[b], o)
          /\ Is(st[p].o, o) = 0
      BY <1>4, <1>11, <1>10, <3>1
    <3> QED BY <3>1, <3>2, <3>3, SMT
  <2> QED BY <1>3, <1>5, <1>9, <1>10, <2>1, ObjectMoved
<1>18. /\ c.f \in Touch(p) \cup {None} /\ c.g \in Touch(p) \cup {None}
       /\ \A f \in File \ Touch(p) : obj'[f] = obj[f]
       /\ \A q \in Proc \ {p} : q \in active <=> q \in active'
  BY <1>6, <1>7, <1>11, <1>10
<1> QED BY <1>9, <1>10, <1>12, <1>13, <1>14, <1>15, <1>16, <1>17, <1>18, Keeps

\* filealloc(): call c takes a file that nobody has.
LEMMA Taken ==
  ASSUME Sizes, IInv, NEW p \in Proc, p \in active, Unused # {},
         NEW c \in Call, CallOK(c), st' = [st EXCEPT ![p] = c],
         c.f \in Touch(p) \cup {None}, c.g \in Touch(p) \cup {None},
         ref' = [ref EXCEPT ![First(Unused)] = 1], obj' = obj, ofile' = ofile, active' = active,
         \A f \in File : Shift(p, c, f) = Is(First(Unused), f),
         use' \in [Object -> Int],
         \A o \in Object : use'[o] = use[o] + Is(c.o, o) - Is(st[p].o, o),
         Private(p)'
  PROVE  IInv'
<1> DEFINE b == First(Unused)
<1>1. b \in File /\ ref[b] = 0 /\ obj[b] = FD_NONE
  BY FreeFile
<1>2. /\ Types /\ Reset
      /\ \A f \in File : FileOK(f)
      /\ \A o \in Object : ObjectOK(o)
  BY Facts
<1>3. ref' = [ref EXCEPT ![b] = 1] /\ \A f \in File : Shift(p, c, f) = Is(b, f)
  OBVIOUS
<1> HIDE DEF b
<1>4. /\ ref' \in [File -> Nat] /\ \A f \in File : ref'[f] = ref[f] + Is(b, f)
      /\ \A f \in File \ {b} : ref'[f] = ref[f]
  BY <1>1, <1>2, <1>3, SMT DEF Types, Is
<1>5. Types'
  <2>1. st' \in [Proc -> Call]
    BY <1>2 DEF Types
  <2> QED BY <1>2, <1>4, <2>1 DEF Types
<1>6. Reset'
  BY <1>1, <1>2, <1>4 DEF Reset
<1>7. Gone(p)'
  BY DEF Gone
<1>8. ASSUME NEW f \in File PROVE FileOK(f)'
  <2>1. ref'[f] = ref[f] + Shift(p, c, f)
    BY <1>3, <1>4
  <2> QED BY <1>2, <2>1, FileSame
<1>9. ASSUME NEW o \in Object PROVE ObjectOK(o)'
  <2>1. \A f \in File : (ref'[f] > 0 /\ obj'[f] = o) <=> (ref[f] > 0 /\ obj[f] = o)
    <3>1. obj[b] # o /\ obj'[b] # o
      BY <1>1 DEF Sizes
    <3> QED BY <1>4, <3>1
  <2> QED BY <1>2, <2>1, ObjectSame
<1> QED BY <1>5, <1>6, <1>7, <1>8, <1>9, Keeps

\* sys_open() up to filealloc()
LEMMA OpenKeeps ==
  ASSUME Sizes, IInv, NEW p \in Proc, NEW o \in Inode, Open(p, o)
  PROVE  IInv' \/ vars' = vars
<1>1. CASE Unused = {}
  BY <1>1 DEF Open, vars
<1>2. CASE Unused # {}
  <2> DEFINE b == First(Unused)
             c == [pc |-> "open", f |-> b, g |-> None, o |-> o]
  <2>1. /\ p \in active /\ st[p].pc = "idle" /\ obj' = obj /\ ofile' = ofile /\ active' = active
        /\ ref' = [ref EXCEPT ![First(Unused)] = 1] /\ st' = [st EXCEPT ![p] = c]
        /\ use' = [use EXCEPT ![o] = @ + 1]
    BY <1>2 DEF Open, Goto, At
  <2>2. /\ b \in File /\ obj[b] = FD_NONE /\ b \in Touch(p)
        /\ \A q \in Proc : st[q].f # b /\ st[q].g # b
        /\ \A q \in Proc : \A d \in Fd : ofile[q][d] # b
    BY <1>2, FreeFile
  <2>3. /\ Types /\ CallOK(st[p])
        /\ \A f \in File : Is(None, f) = 0
        /\ \A x \in Object : Is(FD_NONE, x) = 0
    BY Facts
  <2>4. st[p].f = None /\ st[p].g = None /\ st[p].o = FD_NONE
    BY <2>1, <2>3 DEF CallOK
  <2>5. c.pc = "open" /\ c.f = b /\ c.g = None /\ c.o = o
    OBVIOUS
  <2>6. o \in Object
    BY DEF Inode
  <2>7. c \in Call
    <3>1. "open" \in Label /\ None \in File \cup {None} /\ b \in File \cup {None}
          /\ o \in Object \cup {FD_NONE}
      BY <2>2, <2>6 DEF Label
    <3> QED BY <3>1, MakeCall
  <2> HIDE DEF c
  <2>8. CallOK(c)
    BY <2>2, <2>5, <2>6 DEF CallOK
  <2>9. \A f \in File : Shift(p, c, f) = Is(b, f)
    <3>1. \A f \in File : Is(b, f) \in Int
      BY SMT DEF Is
    <3> HIDE DEF b
    <3> QED BY <2>3, <2>4, <2>5, <3>1, SMT DEF Shift
  <2>10. /\ use' \in [Object -> Int]
         /\ \A x \in Object : use'[x] = use[x] + Is(c.o, x) - Is(st[p].o, x)
    <3>1. use' \in [Object -> Int] /\ \A x \in Object : use'[x] = use[x] + Is(o, x)
      BY <2>1, <2>3, <2>6, SMT DEF Types, Is
    <3>2. \A x \in Object : Is(o, x) \in Int /\ use[x] \in Int /\ Is(st[p].o, x) = 0
      BY <2>3, <2>4, SMT DEF Types, Is
    <3> QED BY <2>5, <3>1, <3>2, SMT
  <2>11. Private(p)'
    <3>1. st'[p] = c /\ \A q \in Proc \ {p} : st'[q] = st[q]
      BY <2>1, <2>3 DEF Types
    <3>2. \A f \in Blank(st'[p]) : f = b
      BY <2>5, <3>1 DEF Blank
    <3>3. st'[p].pc # "pipemem"
      BY <2>5, <3>1
    <3>4. \A q \in Proc \ {p} : st'[q].f # b /\ st'[q].g # b
      BY <2>2, <3>1
    <3> QED BY <2>1, <2>2, <3>2, <3>3, <3>4 DEF Private
  <2> QED BY <1>2, <2>1, <2>2, <2>5, <2>7, <2>8, <2>9, <2>10, <2>11, Taken
<1> QED BY <1>1, <1>2

\* The first filealloc() of pipealloc()
LEMMA PipeallocKeeps ==
  ASSUME Sizes, IInv, NEW p \in Proc, Pipealloc(p)
  PROVE  IInv'
<1> DEFINE b == First(Unused)
           c == [pc |-> "pipe", f |-> b, g |-> None, o |-> FD_NONE]
<1>1. /\ p \in active /\ st[p].pc = "idle" /\ obj' = obj /\ ofile' = ofile /\ active' = active
      /\ ref' = [ref EXCEPT ![First(Unused)] = 1] /\ st' = [st EXCEPT ![p] = c]
      /\ use' = use /\ Unused # {}
  BY DEF Pipealloc, Goto, At
<1>2. /\ b \in File /\ obj[b] = FD_NONE /\ b \in Touch(p)
      /\ \A q \in Proc : st[q].f # b /\ st[q].g # b
      /\ \A q \in Proc : \A d \in Fd : ofile[q][d] # b
  BY <1>1, FreeFile
<1>3. /\ Types /\ CallOK(st[p])
      /\ \A f \in File : Is(None, f) = 0
      /\ \A x \in Object : Is(FD_NONE, x) = 0
  BY Facts
<1>4. st[p].f = None /\ st[p].g = None /\ st[p].o = FD_NONE
  BY <1>1, <1>3 DEF CallOK
<1>5. c.pc = "pipe" /\ c.f = b /\ c.g = None /\ c.o = FD_NONE
  OBVIOUS
<1>6. c \in Call
  <2>1. /\ "pipe" \in Label /\ None \in File \cup {None} /\ b \in File \cup {None}
        /\ FD_NONE \in Object \cup {FD_NONE}
    BY <1>2 DEF Label
  <2> QED BY <2>1, MakeCall
<1> HIDE DEF c
<1>7. CallOK(c)
  BY <1>2, <1>5 DEF CallOK
<1>8. \A f \in File : Shift(p, c, f) = Is(b, f)
  <2>1. \A f \in File : Is(b, f) \in Int
    BY SMT DEF Is
  <2> HIDE DEF b
  <2> QED BY <1>3, <1>4, <1>5, <2>1, SMT DEF Shift
<1>9. /\ use' \in [Object -> Int]
      /\ \A x \in Object : use'[x] = use[x] + Is(c.o, x) - Is(st[p].o, x)
  BY <1>1, <1>3, <1>4, <1>5, SMT DEF Types
<1>10. Private(p)'
  <2>1. st'[p] = c /\ \A q \in Proc \ {p} : st'[q] = st[q]
    BY <1>1, <1>3 DEF Types
  <2>2. \A f \in Blank(st'[p]) : f = b
    BY <1>5, <2>1 DEF Blank
  <2>3. st'[p].pc # "pipemem"
    BY <1>5, <2>1
  <2>4. \A q \in Proc \ {p} : st'[q].f # b /\ st'[q].g # b
    BY <1>2, <2>1
  <2> QED BY <1>1, <1>2, <2>2, <2>3, <2>4 DEF Private
<1> QED BY <1>1, <1>2, <1>5, <1>6, <1>7, <1>8, <1>9, <1>10, Taken

\* pipealloc() or sys_pipe() goes on at label bad.
LEMMA BadKeeps ==
  ASSUME Sizes, IInv, NEW p \in Proc, p \in active, st[p].pc \in {"pipe", "pipemem", "pipefd"},
         st' = [st EXCEPT ![p] = [st[p] EXCEPT !.pc = "pipebad"]],
         UNCHANGED <<ref, obj, ofile, active, use>>
  PROVE  IInv'
<1> DEFINE c == [st[p] EXCEPT !.pc = "pipebad"]
<1>1. /\ Types /\ Reset /\ st[p] \in Call /\ CallOK(st[p])
      /\ \A f \in File : FileOK(f)
      /\ \A o \in Object : ObjectOK(o)
  BY Facts
<1>2. "pipebad" \in Label
  BY DEF Label
<1>3. c \in Call /\ c.pc = "pipebad" /\ c.f = st[p].f /\ c.g = st[p].g /\ c.o = st[p].o
  BY <1>1, <1>2 DEF Call
<1>4. st' = [st EXCEPT ![p] = c]
  OBVIOUS
<1> HIDE DEF c
<1>5. c.f \in File /\ c.o = FD_NONE /\ c.g \in File \cup {None}
  BY <1>1, <1>3 DEF CallOK, Call
<1>6. CallOK(c)
  BY <1>3, <1>5 DEF CallOK
<1>7. c.f \in Touch(p) \cup {None} /\ c.g \in Touch(p) \cup {None}
  BY <1>3, <1>5 DEF Touch
<1>8. Types' /\ Reset'
  <2>1. st' \in [Proc -> Call]
    BY <1>1, <1>3, <1>4 DEF Types
  <2> QED BY <1>1, <2>1 DEF Types, Reset
<1>9. Gone(p)' /\ Private(p)'
  <2>1. st'[p].pc = "pipebad"
    BY <1>1, <1>3, <1>4 DEF Types
  <2> QED BY <2>1, NoBlank DEF Gone
<1>10. ASSUME NEW f \in File PROVE FileOK(f)'
  <2>1. Is(st[p].f, f) \in Int /\ Is(st[p].g, f) \in Int /\ ref[f] \in Nat
    BY <1>1, SMT DEF Types, Is
  <2>2. ref'[f] = ref[f] + Shift(p, c, f)
    BY <1>3, <2>1, SMT DEF Shift
  <2> QED BY <1>1, <1>4, <2>2, FileSame
<1>11. ASSUME NEW o \in Object PROVE ObjectOK(o)'
  <2>1. Is(st[p].o, o) \in Int /\ use[o] \in Int
    BY <1>1, SMT DEF Types, Is
  <2>2. use'[o] = use[o] + Is(c.o, o) - Is(st[p].o, o)
    BY <1>3, <2>1, SMT
  <2> QED BY <1>1, <1>4, <2>2, ObjectSame
<1> QED BY <1>4, <1>6, <1>7, <1>8, <1>9, <1>10, <1>11, Keeps

\* The second filealloc() of pipealloc()
LEMMA Pipealloc2Keeps ==
  ASSUME Sizes, IInv, NEW p \in Proc, Pipealloc2(p)
  PROVE  IInv'
<1>1. CASE Unused = {}
  BY <1>1, BadKeeps DEF Pipealloc2, At, Goto
<1>2. CASE Unused # {}
  <2> DEFINE b == First(Unused)
             c == [st[p] EXCEPT !.pc = "pipemem", !.g = b]
  <2>1. /\ p \in active /\ st[p].pc = "pipe" /\ obj' = obj /\ ofile' = ofile /\ active' = active
        /\ ref' = [ref EXCEPT ![First(Unused)] = 1] /\ st' = [st EXCEPT ![p] = c]
        /\ use' = use
    BY <1>2 DEF Pipealloc2, Goto, At
  <2>2. /\ b \in File /\ obj[b] = FD_NONE /\ b \in Touch(p)
        /\ \A q \in Proc : st[q].f # b /\ st[q].g # b
        /\ \A q \in Proc : \A d \in Fd : ofile[q][d] # b
    BY <1>2, FreeFile
  <2>3. /\ Types /\ st[p] \in Call /\ CallOK(st[p]) /\ Private(p)
        /\ \A f \in File : Is(None, f) = 0
    BY Facts DEF IInv
  <2>4. st[p].f \in File /\ st[p].g = None /\ st[p].o = FD_NONE
    BY <2>1, <2>3 DEF CallOK
  <2>5. "pipemem" \in Label /\ b \in File \cup {None}
    BY <2>2 DEF Label
  <2> HIDE DEF b
  <2>6. c \in Call /\ c.pc = "pipemem" /\ c.f = st[p].f /\ c.g = b /\ c.o = st[p].o
    BY <2>3, <2>5 DEF Call
  <2> HIDE DEF c
  <2>7. CallOK(c)
    BY <2>2, <2>4, <2>6 DEF CallOK
  <2>8. \A f \in File : Shift(p, c, f) = Is(b, f)
    <3>1. \A f \in File : Is(b, f) \in Int /\ Is(st[p].f, f) \in Int
      BY SMT DEF Is
    <3> QED BY <2>3, <2>4, <2>6, <3>1, SMT DEF Shift
  <2>9. \A f \in File : Shift(p, c, f) = Is(First(Unused), f)
    BY <2>8 DEF b
  <2>10. /\ use' \in [Object -> Int]
         /\ \A x \in Object : use'[x] = use[x] + Is(c.o, x) - Is(st[p].o, x)
    <3>1. \A x \in Object : Is(st[p].o, x) \in Int
      BY SMT DEF Is
    <3> QED BY <2>1, <2>3, <2>6, <3>1, SMT DEF Types
  <2>11. Private(p)'
    <3>1. st'[p] = c /\ \A q \in Proc \ {p} : st'[q] = st[q]
      BY <2>1, <2>3 DEF Types
    <3>2. st'[p].f # st'[p].g
      BY <2>2, <2>6, <3>1
    <3>3. ASSUME NEW f \in Blank(st'[p])
          PROVE  /\ obj[f] = FD_NONE
                 /\ \A q \in Proc : \A d \in Fd : ofile[q][d] # f
                 /\ \A q \in Proc \ {p} : st[q].f # f /\ st[q].g # f
      <4>1. f \in File /\ (f = st[p].f \/ f = b)
        BY <2>6, <3>1 DEF Blank
      <4>2. CASE f = b
        BY <2>2, <4>2
      <4>3. CASE f = st[p].f
        <5>1. f \in Blank(st[p])
          BY <2>1, <4>1, <4>3 DEF Blank
        <5> QED BY <2>3, <5>1 DEF Private
      <4> QED BY <4>1, <4>2, <4>3
    <3>4. ASSUME NEW f \in Blank(st'[p])
          PROVE  /\ obj'[f] = FD_NONE
                 /\ \A q \in Proc : \A d \in Fd : ofile'[q][d] # f
                 /\ \A q \in Proc \ {p} : st'[q].f # f /\ st'[q].g # f
      <4>1. \A q \in Proc \ {p} : st'[q].f # f /\ st'[q].g # f
        BY <3>1, <3>3
      <4> QED BY <2>1, <3>3, <4>1
    <3> QED BY <3>2, <3>4 DEF Private
  <2>12. c.f \in Touch(p) \cup {None} /\ c.g \in Touch(p) \cup {None}
    BY <2>2, <2>4, <2>6 DEF Touch
  <2> QED BY <1>2, <2>1, <2>6, <2>7, <2>9, <2>10, <2>11, <2>12, Taken
<1> QED BY <1>1, <1>2

\* kalloc() of a pipe, which makes the two files its ends
LEMMA PipeMemKeeps ==
  ASSUME Sizes, IInv, NEW p \in Proc, PipeMem(p)
  PROVE  IInv'
<1>1. p \in active /\ st[p].pc = "pipemem" /\ ref' = ref /\ ofile' = ofile /\ active' = active
  BY DEF PipeMem, At
<1>2. CASE st' = [st EXCEPT ![p] = [st[p] EXCEPT !.pc = "pipebad"]] /\ UNCHANGED <<obj, use>>
  BY <1>1, <1>2, BadKeeps
<1>3. ASSUME NEW x \in Pipe,
             use[<<x, "r">>] = 0, use[<<x, "w">>] = 0,
             obj' = [obj EXCEPT ![st[p].f] = <<x, "r">>, ![st[p].g] = <<x, "w">>],
             use' = [use EXCEPT ![<<x, "r">>] = 1, ![<<x, "w">>] = 1],
             st' = [st EXCEPT ![p] = [st[p] EXCEPT !.pc = "pipefd"]]
      PROVE  IInv'
  <2> DEFINE c == [st[p] EXCEPT !.pc = "pipefd"]
             r == <<x, "r">>
             w == <<x, "w">>
             f == st[p].f
             g == st[p].g
             B == [obj EXCEPT ![f] = r]
  <2>1. /\ Types /\ Reset /\ st[p] \in Call /\ CallOK(st[p]) /\ Private(p)
        /\ \A h \in File : FileOK(h)
        /\ \A o \in Object : ObjectOK(o)
    BY Facts DEF IInv
  <2>2. r \in Object /\ w \in Object /\ r # w
    BY DEF Sizes
  <2>3. f \in File /\ g \in File /\ st[p].o = FD_NONE
    BY <1>1, <2>1 DEF CallOK
  <2>4. f # g /\ obj[f] = FD_NONE /\ obj[g] = FD_NONE
    <3>1. f \in Blank(st[p]) /\ g \in Blank(st[p])
      BY <1>1, <2>3 DEF Blank
    <3> QED BY <1>1, <2>1, <3>1 DEF Private
  <2>5. ref[f] > 0 /\ ref[g] > 0
    BY <2>1, <2>3, Held
  <2>6. "pipefd" \in Label
    BY DEF Label
  <2>7. c \in Call /\ c.pc = "pipefd" /\ c.f = f /\ c.g = g /\ c.o = st[p].o
    BY <2>1, <2>6 DEF Call
  <2>8. st' = [st EXCEPT ![p] = c]
    BY <1>3
  <2>9. obj' = [obj EXCEPT ![f] = r, ![g] = w] /\ use' = [use EXCEPT ![r] = 1, ![w] = 1]
        /\ use[r] = 0 /\ use[w] = 0
    BY <1>3
  <2>10. f \in Touch(p) /\ g \in Touch(p)
    BY <2>3 DEF Touch
  <2> HIDE DEF c, r, w, f, g
  <2>11. CallOK(c)
    BY <2>3, <2>7 DEF CallOK
  <2>12. /\ B \in [File -> Object \cup {FD_NONE}]
         /\ B[f] = r /\ \A h \in File \ {f} : B[h] = obj[h]
    BY <2>1, <2>2, <2>3 DEF Types
  <2>13. /\ obj' \in [File -> Object \cup {FD_NONE}] /\ obj'[f] = r /\ obj'[g] = w
         /\ \A h \in File \ {f, g} : obj'[h] = obj[h]
    BY <2>1, <2>2, <2>3, <2>4, <2>9, SMT DEF Types
  <2> HIDE DEF B
  <2>14. /\ use' \in [Object -> Int]
         /\ \A o \in Object : use'[o] = use[o] + Is(r, o) + Is(w, o)
    BY <2>1, <2>2, <2>9, SMT DEF Types, Is
  <2>15. Types'
    <3>1. st' \in [Proc -> Call]
      BY <2>1, <2>7, <2>8 DEF Types
    <3> QED BY <1>1, <2>1, <2>13, <2>14, <3>1 DEF Types
  <2>16. Reset'
    <3>1. ref[f] # 0 /\ ref[g] # 0
      BY <2>5, SMT
    <3> QED BY <1>1, <2>1, <2>13, <3>1 DEF Reset
  <2>17. Gone(p)' /\ Private(p)'
    <3>1. st'[p].pc = "pipefd"
      BY <2>1, <2>7, <2>8 DEF Types
    <3> QED BY <1>1, <3>1, NoBlank DEF Gone
  <2>18. ASSUME NEW h \in File PROVE FileOK(h)'
    <3>1. Is(f, h) \in Int /\ Is(g, h) \in Int /\ ref[h] \in Nat
      BY <2>1, SMT DEF Types, Is
    <3>2. ref'[h] = ref[h] + Shift(p, c, h)
      BY <1>1, <2>7, <3>1, SMT DEF Shift, f, g
    <3> QED BY <1>1, <2>1, <2>8, <3>2, FileSame
  <2>19. ASSUME NEW o \in Object PROVE ObjectOK(o)'
    <3> DEFINE k == Is(r, o) + Is(w, o)
               n == Cardinality(RefsOf(ref, obj, o))
               m == Cardinality(RefsOf(ref, B, o))
               l == Cardinality(RefsOf(ref', obj', o))
    <3>1. Is(r, o) \in Int /\ Is(w, o) \in Int /\ use[o] \in Int /\ k \in Int
      BY <2>1, SMT DEF Types, Is
    <3>2. Alike(ref, obj, ref, B, f) /\ Alike(ref, B, ref', obj', g)
      <4>1. \A h \in File \ {g} : obj'[h] = B[h]
        BY <2>12, <2>13
      <4> QED BY <1>1, <2>12, <4>1 DEF Alike
    <3>3. /\ n \in Nat /\ m \in Nat
          /\ m = n + Refers(ref[f], B[f], o) - Refers(ref[f], obj[f], o)
      BY <2>3, <3>2, Rereferred, SMT
    <3>4. /\ l \in Nat
          /\ l = m + Refers(ref'[g], obj'[g], o) - Refers(ref[g], B[g], o)
      BY <2>3, <3>2, Rereferred, SMT
    <3>5. B[g] = FD_NONE /\ FD_NONE # o /\ ref'[g] = ref[g]
      BY <1>1, <2>3, <2>4, <2>12 DEF Sizes
    <3>6. /\ Refers(ref[f], B[f], o) = Is(r, o) /\ Refers(ref[f], obj[f], o) = 0
          /\ Refers(ref'[g], obj'[g], o) = Is(w, o) /\ Refers(ref[g], B[g], o) = 0
      BY <2>4, <2>5, <2>12, <2>13, <3>5 DEF Refers, Is
    <3> HIDE DEF n, m, l
    <3>7. l = n + k
      BY <3>1, <3>3, <3>4, <3>6, SMT
    <3>8. use'[o] = use[o] + k + Is(c.o, o) - Is(st[p].o, o)
      <4>1. Is(c.o, o) = 0 /\ Is(st[p].o, o) = 0
        BY <2>3, <2>7, <3>5 DEF Is
      <4> QED BY <2>14, <3>1, <4>1, SMT
    <3> HIDE DEF k
    <3> QED BY <2>1, <2>8, <3>1, <3>7, <3>8, ObjectCount DEF n, l
  <2>20. /\ c.f \in Touch(p) \cup {None} /\ c.g \in Touch(p) \cup {None}
         /\ \A h \in File \ Touch(p) : obj'[h] = obj[h]
    BY <2>7, <2>10, <2>13
  <2> QED BY <1>1, <2>8, <2>11, <2>15, <2>16, <2>17, <2>18, <2>19, <2>20, Keeps
<1> QED BY <1>2, <1>3 DEF PipeMem, Goto

\* sys_pipe() puts the two files into descriptors.
LEMMA PipeFdKeeps ==
  ASSUME Sizes, IInv, NEW p \in Proc, PipeFd(p)
  PROVE  IInv'
<1>1. /\ p \in active /\ st[p].pc = "pipefd"
      /\ ref' = ref /\ obj' = obj /\ active' = active /\ use' = use
  BY DEF PipeFd, At
<1>2. CASE ~(Cardinality(FreeFds(p)) >= 2)
  BY <1>1, <1>2, BadKeeps DEF PipeFd, Goto, Unassigned
<1>3. CASE Cardinality(FreeFds(p)) >= 2
  <2> DEFINE S == FreeFds(p)
             d == First(S)
             e == First(S \ {d})
             f == st[p].f
             g == st[p].g
  <2>1. /\ Types /\ Reset /\ st[p] \in Call /\ CallOK(st[p])
        /\ \A h \in File : FileOK(h) /\ Is(None, h) = 0
        /\ \A o \in Object : ObjectOK(o) /\ Is(FD_NONE, o) = 0
    BY Facts
  <2>2. d \in Fd /\ e \in Fd /\ d # e /\ ofile[p][d] = None /\ ofile[p][e] = None
    <3>1. S \in SUBSET Nat /\ IsFiniteSet(S) /\ S \subseteq Fd /\ \A x \in S : ofile[p][x] = None
      <4>1. S \subseteq Fd /\ \A x \in S : ofile[p][x] = None
        BY DEF FreeFds
      <4> HIDE DEF S
      <4>2. IsFiniteSet(S)
        BY <4>1, Finite, FS_Subset
      <4> QED BY <4>1, <4>2, Finite
    <3>2. Cardinality(S) >= 2
      BY <1>3
    <3> HIDE DEF S
    <3>3. Cardinality(S) \in Nat
      BY <3>1, FS_CardinalityType
    <3>4. S # {}
      <4>1. Cardinality({}) = 0
        BY FS_EmptySet
      <4> QED BY <3>2, <4>1, SMT
    <3>5. d \in S
      BY <3>1, <3>4, FirstIn
    <3> HIDE DEF d
    <3>6. IsFiniteSet(S \ {d}) /\ Cardinality(S \ {d}) = Cardinality(S) - 1
      BY <3>1, <3>5, FS_RemoveElement
    <3>7. S \ {d} # {}
      <4>1. Cardinality({}) = 0
        BY FS_EmptySet
      <4> QED BY <3>2, <3>3, <3>6, <4>1, SMT
    <3>8. S \ {d} \in SUBSET Nat
      BY <3>1
    <3>9. e \in S \ {d}
      BY <3>7, <3>8, FirstIn
    <3> QED BY <3>1, <3>5, <3>9
  <2>3. /\ ofile' = [ofile EXCEPT ![p][d] = f, ![p][e] = g] /\ st' = [st EXCEPT ![p] = Idle]
    BY <1>3 DEF PipeFd, Goto
  <2>4. f \in File /\ g \in File /\ st[p].o = FD_NONE
    BY <1>1, <2>1 DEF CallOK
  <2>5. f \in Touch(p) /\ g \in Touch(p)
    BY <2>4 DEF Touch
  <2> HIDE DEF S, d, e, f, g
  <2>6. Idle \in Call /\ CallOK(Idle)
        /\ Idle.pc = "idle" /\ Idle.f = None /\ Idle.g = None /\ Idle.o = FD_NONE
    <3>1. Idle = [Idle EXCEPT !.pc = "idle"]
      BY SMT DEF Idle
    <3> QED BY <3>1, Empty
  <2> DEFINE O == Put(ofile, p, d, f)
  <2>7. O \in Tables /\ O[p][e] = ofile[p][e] /\ ofile \in Tables
    BY <2>1, <2>2, <2>4, SMT DEF Types, Tables, Put
  <2>8. ofile' = Put(O, p, e, g)
    BY <2>1, <2>2, <2>3 DEF Put, Types
  <2>9. /\ ofile' \in [Proc -> [Fd -> File \cup {None}]]
        /\ \A q \in Proc \ {p} : ofile'[q] = ofile[q]
        /\ \A x \in Fd : ofile'[p][x] = ofile[p][x] \/ ofile'[p][x] \in Touch(p) \cup {None}
    BY <2>1, <2>2, <2>3, <2>4, <2>5, SMT DEF Types
  <2> HIDE DEF O
  <2>10. Types' /\ Reset'
    <3>1. st' \in [Proc -> Call]
      BY <2>1, <2>3, <2>6 DEF Types
    <3> QED BY <1>1, <2>1, <2>9, <3>1 DEF Types, Reset
  <2>11. Gone(p)' /\ Private(p)'
    <3>1. st'[p].pc = "idle"
      BY <2>1, <2>3, <2>6 DEF Types
    <3> QED BY <1>1, <3>1, NoBlank DEF Gone
  <2>12. ASSUME NEW h \in File PROVE FileOK(h)'
    <3> DEFINE n == Cardinality(DescsOf(ofile, h))
               m == Cardinality(DescsOf(O, h))
               l == Cardinality(DescsOf(ofile', h))
               k == Is(f, h) + Is(g, h)
    <3>1. Is(f, h) \in Int /\ Is(g, h) \in Int /\ ref[h] \in Nat /\ k \in Int
      BY <2>1, SMT DEF Types, Is
    <3>2. n \in Nat /\ m = n + Is(f, h) - Is(ofile[p][d], h)
      BY <2>2, <2>7, Redescribed, SMT DEF O
    <3>3. m \in Nat /\ l = m + Is(g, h) - Is(O[p][e], h)
      BY <2>2, <2>7, <2>8, Redescribed, SMT
    <3>4. Is(ofile[p][d], h) = 0 /\ Is(O[p][e], h) = 0
      BY <2>1, <2>2, <2>7
    <3> HIDE DEF n, m, l
    <3>5. l = n + k
      BY <3>1, <3>2, <3>3, <3>4, SMT
    <3>6. ref'[h] = ref[h] + k + Shift(p, Idle, h)
      <4>1. Is(None, h) = 0
        BY <2>1
      <4>2. Shift(p, Idle, h) = 0 - Is(f, h) - Is(g, h)
        BY <2>6, <3>1, <4>1, SMT DEF Shift, f, g
      <4> QED BY <1>1, <3>1, <4>2, SMT
    <3> HIDE DEF k
    <3> QED BY <2>1, <2>3, <3>1, <3>5, <3>6, FileCount DEF n, l
  <2>13. ASSUME NEW o \in Object PROVE ObjectOK(o)'
    <3>1. Is(Idle.o, o) = 0 /\ Is(st[p].o, o) = 0 /\ use[o] \in Int
      BY <2>1, <2>4, <2>6 DEF Types
    <3>2. use'[o] = use[o] + Is(Idle.o, o) - Is(st[p].o, o)
      BY <1>1, <3>1, SMT
    <3> QED BY <1>1, <2>1, <2>3, <3>2, ObjectSame
  <2> QED BY <1>1, <2>3, <2>6, <2>9, <2>10, <2>11, <2>12, <2>13, Keeps
<1> QED BY <1>2, <1>3

\* fileclose() of one of the files of a pipe that fails
LEMMA PipeBadKeeps ==
  ASSUME Sizes, IInv, NEW p \in Proc, PipeBad(p)
  PROVE  IInv'
<1> DEFINE b == st[p].f
           g == st[p].g
           c == IF g = None THEN Idle ELSE [st[p] EXCEPT !.f = g, !.g = None]
<1>1. /\ p \in active /\ st[p].pc = "pipebad" /\ ofile' = ofile /\ active' = active
      /\ Drop(b) /\ use' = Released(Copy(b)) /\ st' = [st EXCEPT ![p] = c]
  BY DEF PipeBad, At, Goto
<1>2. /\ Types /\ Reset /\ st[p] \in Call /\ CallOK(st[p])
      /\ \A f \in File : FileOK(f) /\ Is(None, f) = 0
      /\ \A o \in Object : ObjectOK(o) /\ Is(FD_NONE, o) = 0
  BY Facts
<1>3. b \in File /\ g \in File \cup {None} /\ st[p].o = FD_NONE
  BY <1>1, <1>2 DEF CallOK, Call
<1>4. ref[b] > 0
  BY <1>2, <1>3, Held
<1>5. b \in Touch(p) /\ (g # None => g \in Touch(p))
  BY <1>3 DEF Touch
<1>6. /\ c \in Call /\ c.pc \in {"idle", "pipebad"} /\ c.f = g /\ c.g = None /\ c.o = FD_NONE
      /\ (c.pc = "idle" <=> g = None)
  <2>1. Idle \in Call
        /\ Idle.pc = "idle" /\ Idle.f = None /\ Idle.g = None /\ Idle.o = FD_NONE
    <3>1. Idle = [Idle EXCEPT !.pc = "idle"]
      BY SMT DEF Idle
    <3> QED BY <3>1, Empty
  <2>2. CASE g = None
    BY <2>1, <2>2
  <2>3. CASE g # None
    <3> DEFINE v == [st[p] EXCEPT !.f = g, !.g = None]
    <3>1. v \in Call /\ v.pc = st[p].pc /\ v.f = g /\ v.g = None /\ v.o = st[p].o
      BY <1>2, <1>3 DEF Call
    <3>2. c = v
      BY <2>3
    <3> HIDE DEF c, v
    <3> QED BY <1>1, <1>3, <2>3, <3>1, <3>2
  <2> QED BY <2>2, <2>3
<1> HIDE DEF b, g, c
<1>7. CallOK(c)
  BY <1>3, <1>6 DEF CallOK
<1>8. /\ ref' \in [File -> Nat] /\ obj' \in [File -> Object \cup {FD_NONE}] /\ Reset'
      /\ \A f \in File : ref'[f] = ref[f] - Is(b, f)
      /\ \A f \in File \ {b} : obj'[f] = obj[f]
      /\ Alike(ref, obj, ref', obj', b)
      /\ \A o \in Object :
           Is(Copy(b), o) = Refers(ref[b], obj[b], o) - Refers(ref'[b], obj'[b], o)
  BY <1>1, <1>2, <1>3, <1>4, Dropped
<1>9. use' \in [Object -> Int] /\ \A o \in Object : use'[o] = use[o] - Is(Copy(b), o)
  BY <1>1, <1>2, SMT DEF Types, Released, Is
<1>10. Types'
  <2>1. st' \in [Proc -> Call]
    BY <1>1, <1>2, <1>6 DEF Types
  <2> QED BY <1>1, <1>2, <1>8, <1>9, <2>1 DEF Types
<1>11. Gone(p)' /\ Private(p)'
  <2>1. st'[p].pc \in {"idle", "pipebad"}
    BY <1>1, <1>2, <1>6 DEF Types
  <2>2. st'[p].pc \notin {"open", "pipe", "pipemem"}
    BY <2>1
  <2> QED BY <1>1, <2>2, NoBlank DEF Gone
<1>12. ASSUME NEW f \in File PROVE FileOK(f)'
  <2>1. Is(b, f) \in Int /\ Is(g, f) \in Int /\ ref[f] \in Nat /\ Is(None, f) = 0
    BY <1>2, SMT DEF Types, Is
  <2>2. Shift(p, c, f) = 0 - Is(b, f)
    BY <1>6, <2>1, SMT DEF Shift, b, g
  <2>3. ref'[f] = ref[f] + Shift(p, c, f)
    BY <1>8, <2>1, <2>2, SMT
  <2> QED BY <1>1, <1>2, <2>3, FileSame
<1>13. ASSUME NEW o \in Object PROVE ObjectOK(o)'
  <2>1. Is(c.o, o) = 0 /\ Is(st[p].o, o) = 0 /\ use[o] \in Int
    BY <1>2, <1>3, <1>6 DEF Types
  <2>2. Refers(ref'[b], obj'[b], o) \in Int /\ Refers(ref[b], obj[b], o) \in Int
    BY SMT DEF Refers
  <2>3. use'[o] = use[o] + (Refers(ref'[b], obj'[b], o) - Refers(ref[b], obj[b], o))
                  + Is(c.o, o) - Is(st[p].o, o)
    BY <1>8, <1>9, <2>1, <2>2, SMT
  <2> QED BY <1>1, <1>2, <1>3, <1>8, <2>3, ObjectMoved
<1>14. /\ c.f \in Touch(p) \cup {None} /\ c.g \in Touch(p) \cup {None}
       /\ \A f \in File \ Touch(p) : obj'[f] = obj[f]
  BY <1>5, <1>6, <1>8
<1> QED BY <1>1, <1>7, <1>8, <1>10, <1>11, <1>12, <1>13, <1>14, Keeps

\* sys_open() after filealloc()
LEMMA OpenFdKeeps ==
  ASSUME Sizes, IInv, NEW p \in Proc, OpenFd(p)
  PROVE  IInv'
<1> DEFINE b == st[p].f
           v == st[p].o
<1>1. /\ p \in active /\ st[p].pc = "open" /\ active' = active /\ st' = [st EXCEPT ![p] = Idle]
  BY DEF OpenFd, At, Goto
<1>2. /\ Types /\ Reset /\ CallOK(st[p]) /\ Private(p)
      /\ \A f \in File : FileOK(f) /\ Is(None, f) = 0
      /\ \A o \in Object : ObjectOK(o) /\ Is(FD_NONE, o) = 0
  BY Facts DEF IInv
<1>3. b \in File /\ st[p].g = None /\ v \in Object
  BY <1>1, <1>2 DEF CallOK
<1>4. ref[b] > 0 /\ b \in Touch(p)
  BY <1>2, <1>3, Held DEF Touch
<1>5. obj[b] = FD_NONE
  <2>1. b \in Blank(st[p])
    BY <1>1, <1>3 DEF Blank
  <2> QED BY <1>2, <2>1 DEF Private
<1>6. Idle \in Call /\ CallOK(Idle)
      /\ Idle.pc = "idle" /\ Idle.f = None /\ Idle.g = None /\ Idle.o = FD_NONE
  <2>1. Idle = [Idle EXCEPT !.pc = "idle"]
    BY SMT DEF Idle
  <2> QED BY <2>1, Empty
<1>7. st' \in [Proc -> Call] /\ Gone(p)' /\ Private(p)'
  <2>1. st' \in [Proc -> Call] /\ st'[p].pc = "idle"
    BY <1>1, <1>2, <1>6 DEF Types
  <2> QED BY <1>1, <2>1, NoBlank DEF Gone
<1>8. \A f \in File : Shift(p, Idle, f) = 0 - Is(b, f)
  <2>1. \A f \in File : Is(b, f) \in Int /\ Is(None, f) = 0
    BY <1>2, SMT DEF Is
  <2> QED BY <1>3, <1>6, <2>1, SMT DEF Shift
<1>9. Idle.f \in Touch(p) \cup {None} /\ Idle.g \in Touch(p) \cup {None}
  BY <1>6
<1>10. CASE FreeFds(p) # {}
  <2> DEFINE d == First(FreeFds(p))
  <2>1. d \in Fd /\ ofile[p][d] = None
    BY <1>10, FreeFd
  <2>2. /\ ofile' = [ofile EXCEPT ![p][d] = b] /\ obj' = [obj EXCEPT ![b] = v]
        /\ ref' = ref /\ use' = use
    BY <1>10 DEF OpenFd, Fdalloc
  <2> HIDE DEF d, b, v
  <2>3. /\ ofile' \in [Proc -> [Fd -> File \cup {None}]]
        /\ \A q \in Proc \ {p} : ofile'[q] = ofile[q]
        /\ \A x \in Fd : ofile'[p][x] = ofile[p][x] \/ ofile'[p][x] \in Touch(p) \cup {None}
    BY <1>2, <1>3, <1>4, <2>1, <2>2, SMT DEF Types
  <2>4. /\ obj' \in [File -> Object \cup {FD_NONE}] /\ obj'[b] = v
        /\ \A f \in File \ {b} : obj'[f] = obj[f]
    BY <1>2, <1>3, <2>2 DEF Types
  <2>5. Types' /\ Reset'
    <3>1. ref[b] # 0
      BY <1>4, SMT
    <3> QED BY <1>1, <1>2, <1>7, <2>2, <2>3, <2>4, <3>1 DEF Types, Reset
  <2>6. ASSUME NEW f \in File PROVE FileOK(f)'
    <3>1. Is(b, f) \in Int /\ ref[f] \in Nat /\ Is(ofile[p][d], f) = 0
      BY <1>2, <2>1, SMT DEF Types, Is
    <3>2. ref'[f] = ref[f] + (Is(b, f) - Is(ofile[p][d], f)) + Shift(p, Idle, f)
      BY <1>8, <2>2, <3>1, SMT
    <3> QED BY <1>1, <1>2, <2>1, <2>2, <3>2, FileMoved
  <2>7. ASSUME NEW o \in Object PROVE ObjectOK(o)'
    <3>1. Is(Idle.o, o) = 0 /\ use[o] \in Int /\ Is(v, o) \in Int
      BY <1>2, <1>6, SMT DEF Types, Is
    <3>2. Refers(ref'[b], obj'[b], o) = Is(v, o)
      BY <1>4, <2>2, <2>4 DEF Refers, Is
    <3>3. Refers(ref[b], obj[b], o) = 0
      BY <1>5 DEF Refers, Sizes
    <3>4. use'[o] = use[o] + (Refers(ref'[b], obj'[b], o) - Refers(ref[b], obj[b], o))
                    + Is(Idle.o, o) - Is(st[p].o, o)
      BY <2>2, <3>1, <3>2, <3>3, SMT DEF v
    <3>5. Alike(ref, obj, ref', obj', b)
      BY <2>2, <2>4 DEF Alike
    <3> QED BY <1>1, <1>2, <1>3, <3>4, <3>5, ObjectMoved
  <2>8. \A f \in File \ Touch(p) : obj'[f] = obj[f]
    BY <1>4, <2>4
  <2> QED BY <1>1, <1>6, <1>7, <1>9, <2>3, <2>5, <2>6, <2>7, <2>8, Keeps
<1>11. CASE FreeFds(p) = {}
  <2>1. /\ Drop(b) /\ ofile' = ofile
        /\ use' = [x \in Object |-> Released(Copy(b))[x] - (IF x = v THEN 1 ELSE 0)]
    BY <1>11 DEF OpenFd
  <2> HIDE DEF b, v
  <2>2. /\ ref' \in [File -> Nat] /\ obj' \in [File -> Object \cup {FD_NONE}] /\ Reset'
        /\ \A f \in File : ref'[f] = ref[f] - Is(b, f)
        /\ \A f \in File \ {b} : obj'[f] = obj[f]
        /\ Alike(ref, obj, ref', obj', b)
    BY <1>2, <1>3, <1>4, <2>1, Dropped
  <2>3. Copy(b) = FD_NONE /\ obj'[b] = FD_NONE
    BY <1>2, <1>3, <1>5, <2>1 DEF Copy, Drop, Closed, Types
  <2>4. use' \in [Object -> Int] /\ \A o \in Object : use'[o] = use[o] - Is(v, o)
    BY <1>2, <2>1, <2>3, SMT DEF Types, Sizes, Released, Is
  <2>5. Types'
    BY <1>1, <1>2, <1>7, <2>1, <2>2, <2>4 DEF Types
  <2>6. ASSUME NEW f \in File PROVE FileOK(f)'
    <3>1. Is(b, f) \in Int /\ ref[f] \in Nat
      BY <1>2, SMT DEF Types, Is
    <3>2. ref'[f] = ref[f] + Shift(p, Idle, f)
      BY <1>8, <2>2, <3>1, SMT
    <3> QED BY <1>1, <1>2, <2>1, <3>2, FileSame
  <2>7. ASSUME NEW o \in Object PROVE ObjectOK(o)'
    <3>1. Is(Idle.o, o) = 0 /\ use[o] \in Int /\ Is(v, o) \in Int
      BY <1>2, <1>6, SMT DEF Types, Is
    <3>2. use'[o] = use[o] + Is(Idle.o, o) - Is(st[p].o, o)
      BY <2>4, <3>1, SMT DEF v
    <3>3. obj'[b] # o /\ obj[b] # o
      BY <1>5, <2>3 DEF Sizes
    <3>4. \A f \in File : (ref'[f] > 0 /\ obj'[f] = o) <=> (ref[f] > 0 /\ obj[f] = o)
      BY <2>2, <3>3 DEF Alike
    <3> QED BY <1>1, <1>2, <3>2, <3>4, ObjectSame
  <2>8. \A f \in File \ Touch(p) : obj'[f] = obj[f]
    BY <1>4, <2>2
  <2> QED BY <1>1, <1>6, <1>7, <1>9, <2>1, <2>2, <2>5, <2>6, <2>7, <2>8, Keeps
<1> QED BY <1>10, <1>11

\* fork() adds the descriptors of the child to those of the file.
LEMMA Inherited ==
  ASSUME Sizes, Types, NEW p \in Proc, NEW q \in Proc, NEW f \in File,
         \A d \in Fd : ofile[q][d] = None, ofile' = [ofile EXCEPT ![q] = ofile[p]]
  PROVE  LET D == {d \in Fd : ofile[p][d] = f} IN
         /\ Cardinality(D) \in Nat
         /\ Cardinality(DescsOf(ofile', f)) = Cardinality(DescsOf(ofile, f)) + Cardinality(D)
<1> DEFINE D == {d \in Fd : ofile[p][d] = f}
           A == DescsOf(ofile, f)
           B == {q} \X D
           C == DescsOf(ofile', f)
<1>1. ofile'[q] = ofile[p] /\ \A r \in Proc \ {q} : ofile'[r] = ofile[r]
  BY DEF Types
<1>2. f # None
  BY Finite
<1>3. \A x \in Proc \X Fd : x \in A => x[1] # q
  BY <1>2, SMT DEF DescsOf
<1>4. \A x \in Proc \X Fd : x \in B <=> x[1] = q /\ ofile[p][x[2]] = f
  BY SMT
<1>5. \A x \in Proc \X Fd : x \in C <=> x \in A \/ x \in B
  <2>1. \A x \in Proc \X Fd : x \in C <=> ofile'[x[1]][x[2]] = f
    BY DEF DescsOf
  <2>2. \A x \in Proc \X Fd : x \in A <=> ofile[x[1]][x[2]] = f
    BY DEF DescsOf
  <2> HIDE DEF A, B, C
  <2>3. ASSUME NEW x \in Proc \X Fd PROVE x \in C <=> x \in A \/ x \in B
    <3>1. x[1] \in Proc
      BY SMT
    <3>2. CASE x[1] = q
      <4>1. ofile'[x[1]] = ofile[p] /\ x \notin A
        BY <1>1, <1>3, <3>2
      <4>2. x \in C <=> ofile[p][x[2]] = f
        BY <2>1, <4>1
      <4>3. x \in B <=> ofile[p][x[2]] = f
        BY <1>4, <3>2
      <4> QED BY <4>1, <4>2, <4>3
    <3>3. CASE x[1] # q
      <4>1. ofile'[x[1]] = ofile[x[1]] /\ x \notin B
        BY <1>1, <1>4, <3>1, <3>3
      <4>2. x \in C <=> ofile[x[1]][x[2]] = f
        BY <2>1, <4>1
      <4> QED BY <2>2, <4>1, <4>2
    <3> QED BY <3>2, <3>3
  <2> QED BY <2>3
<1>6. A \subseteq Proc \X Fd /\ C \subseteq Proc \X Fd /\ D \subseteq Fd
  BY DEF DescsOf
<1>7. B \subseteq Proc \X Fd
  BY SMT
<1>8. IsFiniteSet(D) /\ Cardinality(D) \in Nat
  BY <1>6, Finite, FS_Subset, FS_CardinalityType
<1> HIDE DEF D
<1>9. IsFiniteSet({q}) /\ Cardinality({q}) = 1
  BY FS_Singleton
<1>10. IsFiniteSet(B) /\ Cardinality(B) = Cardinality({q}) * Cardinality(D)
  BY <1>8, <1>9, FS_Product
<1>11. Cardinality(B) = Cardinality(D)
  BY <1>8, <1>9, <1>10, SMT
<1>12. IsFiniteSet(A) /\ Cardinality(A) \in Nat
  BY FiniteCounts
<1> HIDE DEF A, B, C
<1>13. C = A \cup B /\ A \cap B = {}
  <2>1. C = A \cup B
    BY <1>5, <1>6, <1>7
  <2>2. \A x \in Proc \X Fd : ~(x \in A /\ x \in B)
    BY <1>3, <1>4
  <2>3. A \cap B = {}
    BY <1>6, <2>2
  <2> QED BY <2>1, <2>3
<1>14. Cardinality(A \cup B) = Cardinality(A) + Cardinality(B) - Cardinality(A \cap B)
  BY <1>10, <1>12, FS_Union
<1>15. Cardinality({}) = 0
  BY FS_EmptySet
<1>16. Cardinality(C) = Cardinality(A) + Cardinality(D)
  <2>1. Cardinality(C) = Cardinality(A) + Cardinality(D) - 0
    BY <1>11, <1>13, <1>14, <1>15
  <2> QED BY <1>8, <1>12, <2>1, SMT
<1> QED BY <1>8, <1>16 DEF A, C, D

\* fork(): the child duplicates every open file.
LEMMA ForkKeeps ==
  ASSUME Sizes, IInv, NEW p \in Proc, NEW q \in Proc, Fork(p, q)
  PROVE  IInv'
<1> DEFINE c == st[p]
           D(f) == {d \in Fd : ofile[p][d] = f}
<1>1. /\ p \in active /\ c.pc = "idle" /\ q \notin active /\ active' = active \cup {q}
      /\ ofile' = [ofile EXCEPT ![q] = ofile[p]]
      /\ ref' = [f \in File |-> ref[f] + Cardinality(D(f))]
      /\ obj' = obj /\ st' = st /\ use' = use
  BY DEF Fork, At
<1>2. /\ Types /\ Reset /\ CallOK(c)
      /\ \A f \in File : FileOK(f)
      /\ \A o \in Object : ObjectOK(o)
  BY Facts
<1>3. st[q] = Idle /\ \A d \in Fd : ofile[q][d] = None
  BY <1>1 DEF IInv, Gone
<1>4. c.f = None /\ c.g = None /\ st' = [st EXCEPT ![p] = c]
  BY <1>1, <1>2 DEF CallOK, Types
<1>5. \A f \in File : /\ Cardinality(D(f)) \in Nat
                      /\ Cardinality(DescsOf(ofile', f))
                           = Cardinality(DescsOf(ofile, f)) + Cardinality(D(f))
  BY <1>1, <1>2, <1>3, Inherited
<1>6. ASSUME NEW f \in File, ref[f] = 0 PROVE Cardinality(D(f)) = 0
  <2>1. D(f) = {}
    BY <1>2, <1>6, NobodyHas
  <2> QED BY <2>1, FS_EmptySet
<1>7. \A f \in File : ref'[f] = ref[f] + Cardinality(D(f))
  BY <1>1
<1>8. ref' \in [File -> Nat]
  <2>1. \A f \in File : ref[f] + Cardinality(D(f)) \in Nat
    <3>1. \A f \in File : ref[f] \in Nat /\ Cardinality(D(f)) \in Nat
      BY <1>2, <1>5 DEF Types
    <3> HIDE DEF D
    <3> QED BY <3>1, SMT
  <2> QED BY <1>1, <2>1
<1>9. ofile' \in [Proc -> [Fd -> File \cup {None}]]
  <2>1. ofile \in [Proc -> [Fd -> File \cup {None}]]
    BY <1>2 DEF Types
  <2>2. ofile[p] \in [Fd -> File \cup {None}]
    BY <2>1
  <2> QED BY <1>1, <2>1, <2>2
<1> HIDE DEF D
<1>10. \A f \in File : ref'[f] > 0 <=> ref[f] > 0
  <2>1. ASSUME NEW f \in File PROVE ref'[f] > 0 <=> ref[f] > 0
    <3>1. ref[f] \in Nat /\ Cardinality(D(f)) \in Nat /\ ref'[f] = ref[f] + Cardinality(D(f))
      BY <1>2, <1>5, <1>7 DEF Types
    <3>2. ref[f] = 0 => Cardinality(D(f)) = 0
      BY <1>6
    <3> QED BY <3>1, <3>2, SMT
  <2> QED BY <2>1
<1>11. Types'
  BY <1>1, <1>2, <1>8, <1>9 DEF Types
<1>12. Reset'
  <2>1. ASSUME NEW f \in File, ref'[f] = 0 PROVE ref[f] = 0
    <3>1. ref[f] \in Nat /\ ~(ref'[f] > 0)
      BY <1>2, <2>1, SMT DEF Types
    <3> QED BY <1>10, <3>1, SMT
  <2> QED BY <1>1, <1>2, <2>1 DEF Reset
<1>13. ASSUME NEW f \in File PROVE FileOK(f)'
  <2> DEFINE k == Cardinality(D(f))
  <2>1. k \in Int /\ ref[f] \in Nat
    <3>1. k \in Nat /\ ref[f] \in Nat
      BY <1>2, <1>5 DEF Types
    <3> QED BY <3>1, SMT
  <2>2. Cardinality(DescsOf(ofile', f)) = Cardinality(DescsOf(ofile, f)) + k
    BY <1>5
  <2>3. Shift(p, c, f) = 0
    BY SMT DEF Shift, Is
  <2>4. ref'[f] = ref[f] + k
    BY <1>7
  <2> HIDE DEF k, c
  <2>5. ref'[f] = ref[f] + k + Shift(p, c, f)
    BY <2>1, <2>3, <2>4, SMT
  <2> QED BY <1>2, <1>4, <2>1, <2>2, <2>5, FileCount
<1>14. ASSUME NEW o \in Object PROVE ObjectOK(o)'
  <2>1. use'[o] = use[o] + Is(c.o, o) - Is(st[p].o, o)
    BY <1>1, <1>2, SMT DEF Types, Is
  <2>2. \A f \in File : (ref'[f] > 0 /\ obj'[f] = o) <=> (ref[f] > 0 /\ obj[f] = o)
    BY <1>1, <1>10
  <2> HIDE DEF c
  <2> QED BY <1>2, <1>4, <2>1, <2>2, ObjectSame
<1>15. FilesCounted'
  <2>1. (FilesCounted <=> (\A f \in File : FileOK(f)) /\ (\A o \in Object : ObjectOK(o)))'
    BY Counted, PTL
  <2> QED BY <1>13, <1>14, <2>1
<1>16. \A r \in Proc : \A d \in Fd :
         ofile'[r][d] = ofile[r][d] \/ ofile'[r][d] \in Touch(p) \cup {None}
  <2>1. ofile'[q] = ofile[p] /\ \A r \in Proc \ {q} : ofile'[r] = ofile[r]
    BY <1>1, <1>2 DEF Types
  <2>2. \A d \in Fd : ofile[p][d] \in Touch(p) \cup {None}
    BY <1>2, FdType DEF Touch
  <2> QED BY <2>1, <2>2
<1>17. ASSUME NEW r \in Proc PROVE Private(r)'
  <2>1. CASE r = p
    <3>1. st'[p].pc = "idle"
      BY <1>1
    <3> QED BY <2>1, <3>1, NoBlank
  <2>2. CASE r # p
    <3>1. c.f \in Touch(p) \cup {None} /\ c.g \in Touch(p) \cup {None}
      BY <1>4
    <3>2. \A f \in File \ Touch(p) : obj'[f] = obj[f]
      BY <1>1
    <3> HIDE DEF c
    <3> QED BY <1>4, <1>16, <2>2, <3>1, <3>2, Others
  <2> QED BY <2>1, <2>2
<1>18. ASSUME NEW r \in Proc PROVE Gone(r)' /\ CallOK(st[r])'
  <2>1. CallOK(st[r]) /\ Gone(r)
    BY DEF IInv
  <2>2. CallOK(st[r])'
    BY <1>1, <2>1 DEF CallOK
  <2>3. Gone(r)'
    <3>1. CASE r = q
      BY <1>1, <3>1 DEF Gone
    <3>2. CASE r # q
      <4>1. ofile'[r] = ofile[r] /\ (r \in active' <=> r \in active)
        BY <1>1, <1>2, <3>2 DEF Types
      <4> QED BY <1>1, <2>1, <4>1 DEF Gone, Idle
    <3> QED BY <3>1, <3>2
  <2> QED BY <2>2, <2>3
<1> QED BY <1>11, <1>12, <1>15, <1>17, <1>18 DEF IInv

-----------------------------------------------------------------------------
(* The invariant *)

\* No process has an open file at first.
LEMMA InitIInv ==
  ASSUME Sizes, Init
  PROVE  IInv
<1>1. Idle \in Call /\ CallOK(Idle)
      /\ Idle.pc = "idle" /\ Idle.f = None /\ Idle.g = None /\ Idle.o = FD_NONE
  <2>1. Idle = [Idle EXCEPT !.pc = "idle"]
    BY SMT DEF Idle
  <2> QED BY <2>1, Empty
<1>2. Types
  <2>1. 0 \in Nat /\ 0 \in Int
    BY SMT
  <2> QED BY <1>1, <2>1 DEF Init, Types, Sizes
<1>3. Reset
  BY DEF Reset, Init
<1>4. \A p \in Proc : st[p] = Idle /\ \A d \in Fd : ofile[p][d] = None
  BY DEF Init
<1>5. \A p \in Proc : CallOK(st[p]) /\ Gone(p)
  BY <1>1, <1>4 DEF Gone
<1>6. \A p \in Proc : Private(p)
  BY <1>1, <1>4 DEF Private, Blank
<1>7. FilesCounted
  <2>1. Cardinality({}) = 0
    BY FS_EmptySet
  <2>2. ASSUME NEW f \in File PROVE FileOK(f)
    <3>1. f # None
      BY Finite
    <3>2. Fs(f) = {} /\ Gs(f) = {}
      BY <1>1, <1>4, <3>1 DEF Fs, Gs
    <3>3. DescsOf(ofile, f) = {}
      BY <1>4, <3>1, SMT DEF DescsOf
    <3>4. ref[f] = 0
      BY DEF Init
    <3> QED BY <2>1, <3>2, <3>3, <3>4, SMT DEF FileOK
  <2>3. ASSUME NEW o \in Object PROVE ObjectOK(o)
    <3>1. Os(o) = {}
      BY <1>1, <1>4 DEF Os, Sizes
    <3>2. RefsOf(ref, obj, o) = {}
      BY DEF Init, RefsOf, Sizes
    <3>3. use[o] = 0
      BY DEF Init
    <3> QED BY <2>1, <3>1, <3>2, <3>3, SMT DEF ObjectOK
  <2> QED BY <2>2, <2>3, Counted
<1> QED BY <1>2, <1>3, <1>5, <1>6, <1>7 DEF IInv

\* A step that changes nothing
LEMMA Stutter ==
  ASSUME IInv, UNCHANGED vars
  PROVE  IInv'
<1> USE DEF vars
<1>1. Types' /\ Reset'
  BY DEF IInv, Types, Reset
<1>2. FilesCounted'
  BY DEF IInv, FilesCounted, Descs
<1>3. \A p \in Proc : CallOK(st[p])' /\ Gone(p)' /\ Private(p)'
  <2>1. ASSUME NEW p \in Proc PROVE CallOK(st[p])' /\ Gone(p)' /\ Private(p)'
    <3>1. CallOK(st[p]) /\ Gone(p) /\ Private(p)
      BY DEF IInv
    <3>2. CallOK(st[p])'
      BY <3>1 DEF CallOK
    <3>3. Gone(p)'
      BY <3>1 DEF Gone, Idle
    <3>4. Private(p)'
      BY <3>1 DEF Private, Blank
    <3> QED BY <3>2, <3>3, <3>4
  <2> QED BY <2>1
<1> QED BY <1>1, <1>2, <1>3 DEF IInv

\* Every step keeps the invariant.
LEMMA NextIInv ==
  ASSUME Sizes, IInv, [Next]_vars
  PROVE  IInv'
<1>1. CASE Next
  <2>1. PICK p \in Proc :
          \/ Exit(p) \/ Exited(p) \/ Fileclose(p) \/ OpenFd(p)
          \/ Pipealloc(p) \/ Pipealloc2(p) \/ PipeMem(p) \/ PipeFd(p) \/ PipeBad(p)
          \/ (\E d \in Fd : Dup(p, d) \/ Close(p, d))
          \/ (\E o \in Inode : Open(p, o))
          \/ (\E q \in Proc : Fork(p, q))
    BY <1>1 DEF Next
  <2>2. CASE Exit(p) \/ Exited(p)
    BY <2>2, ExitKeeps
  <2>3. CASE Fileclose(p)
    BY <2>3, FilecloseKeeps
  <2>4. CASE OpenFd(p)
    BY <2>4, OpenFdKeeps
  <2>5. CASE Pipealloc(p)
    BY <2>5, PipeallocKeeps
  <2>6. CASE Pipealloc2(p)
    BY <2>6, Pipealloc2Keeps
  <2>7. CASE PipeMem(p)
    BY <2>7, PipeMemKeeps
  <2>8. CASE PipeFd(p)
    BY <2>8, PipeFdKeeps
  <2>9. CASE PipeBad(p)
    BY <2>9, PipeBadKeeps
  <2>10. CASE \E d \in Fd : Dup(p, d) \/ Close(p, d)
    BY <2>10, DupKeeps, CloseKeeps
  <2>11. CASE \E o \in Inode : Open(p, o)
    BY <2>11, OpenKeeps, Stutter
  <2>12. CASE \E q \in Proc : Fork(p, q)
    BY <2>12, ForkKeeps
  <2> QED BY <2>1, <2>2, <2>3, <2>4, <2>5, <2>6, <2>7, <2>8, <2>9, <2>10, <2>11, <2>12
<1>2. CASE UNCHANGED vars
  BY <1>2, Stutter
<1> QED BY <1>1, <1>2

\* The invariant holds in every state that the calls of sysfile.c, fork() and exit()
\* reach.
THEOREM Invariance ==
  ASSUME Sizes
  PROVE  Spec => []IInv
<1>1. Init => IInv
  BY InitIInv
<1>2. IInv /\ [Next]_vars => IInv'
  BY NextIInv
<1> QED BY <1>1, <1>2, PTL DEF Spec

\* Every f->ref is the number of descriptors and calls that have the file, and every
\* inode and pipe end has one reference for each file and each call: sys_open(),
\* sys_pipe(), dup(), close(), fork() and exit() lose no file on any path that fails,
\* and close what a file refers to once.
THEOREM FilesAreCounted ==
  ASSUME Sizes
  PROVE  Spec => []FilesCounted
<1>1. IInv => FilesCounted
  BY DEF IInv
<1> QED BY <1>1, Invariance, PTL
====
