-------------------------------- MODULE Path ---------------------------------
(***************************************************************************)
(* Path names as bytes: skipelem() and namecmp() of fs.c, with strncmp()   *)
(* and strncpy() of string.c, against a reference that splits the path.    *)
(* The buffer for a name has DIRSIZ bytes and no room for a final 0; what  *)
(* an earlier element left in it is still there.                           *)
(***************************************************************************)
EXTENDS Integers, Sequences

LOCAL INSTANCE SequencesExt

CONSTANTS MAXPATH, DIRSIZ

VARIABLE path      \* the path, typed one character at a time

Char == {"/", "a", "b"}
NUL == "nul"

Init == path = << >>
Append1(c) == Len(path) < MAXPATH /\ path' = Append(path, c)
Next == \E c \in Char : Append1(c)
Spec == Init /\ [][Next]_path

\* *(path + i), for i from 1
At(s, i) == IF i > Len(s) THEN NUL ELSE s[i]

-----------------------------------------------------------------------------
\* The first position from i on that is not a slash, and the end of a name.
RECURSIVE SkipSlashes(_)
SkipSlashes(i) == IF At(path, i) = "/" THEN SkipSlashes(i + 1) ELSE i
RECURSIVE NameEnd(_)
NameEnd(i) == IF At(path, i) \in {"/", NUL} THEN i ELSE NameEnd(i + 1)

\* memmove() into name, and the 0 after a short name
Copied(name, s, len) ==
  [k \in 1..DIRSIZ |-> IF k <= len THEN path[s + k - 1]
                       ELSE IF k = len + 1 THEN NUL ELSE name[k]]

\* skipelem() from position i: the next position and the name, or 0.
Skipelem(i, name) ==
  LET s == SkipSlashes(i)
      e == NameEnd(s)
  IN IF At(path, s) = NUL THEN [next |-> 0, name |-> name]
     ELSE [next |-> SkipSlashes(e), name |-> Copied(name, s, e - s)]

\* The names namex() looks up, each with whether the path ends after it.
RECURSIVE Walk(_, _)
Walk(i, name) ==
  LET r == Skipelem(i, name)
  IN IF r.next = 0 THEN << >>
     ELSE <<[name |-> r.name, last |-> At(path, r.next) = NUL]>> \o Walk(r.next, r.name)

\* strncmp(s, t, DIRSIZ) = 0: equal up to a 0 in both, or to the end.
RECURSIVE Same(_, _, _)
Same(s, t, k) == k > DIRSIZ \/ (s[k] = t[k] /\ (s[k] = NUL \/ Same(s, t, k + 1)))

\* Faulty variant of Namecmp: all the bytes of the buffers are compared.
NamecmpBytes(s, t) == s = t

Namecmp(s, t) == Same(s, t, 1)

\* strncpy(de.name, name, DIRSIZ): the rest is filled with 0.
Strncpy(s) ==
  [k \in 1..DIRSIZ |-> IF \E j \in 1..(k - 1) : s[j] = NUL THEN NUL ELSE s[k]]

-----------------------------------------------------------------------------
(* Properties *)

\* The reference: the elements between slashes that are not empty, the first
\* DIRSIZ characters of each.
Bounds == {b \in (1..Len(path)) \X (1..Len(path)) :
             /\ b[1] <= b[2]
             /\ \A k \in b[1]..b[2] : path[k] # "/"
             /\ At(<<"/">> \o path, b[1]) = "/" /\ At(path, b[2] + 1) \in {"/", NUL}}
Order == SetToSortSeq(Bounds, LAMBDA b, c : b[1] < c[1])
Elements ==
  [k \in 1..Len(Order) |->
     LET e == SubSeq(path, Order[k][1], Order[k][2])
     IN SubSeq(e, 1, IF Len(e) > DIRSIZ THEN DIRSIZ ELSE Len(e))]

\* A C string of at most DIRSIZ characters, and a buffer that holds just it.
Text(s) == SelectSeq(s, LAMBDA c : c # NUL)
Buffer(t) == [k \in 1..DIRSIZ |-> IF k <= Len(t) THEN t[k] ELSE NUL]
Garbage == [k \in 1..DIRSIZ |-> "b"]
Names == Walk(1, Garbage)

\* namex() sees the elements of the path in their order and knows the last one,
\* whatever the buffer held before, with any number of slashes anywhere.  An entry
\* that dirlink() writes for one name is found by dirlookup() for another exactly
\* if their first DIRSIZ characters agree.
NamesRight ==
  /\ Len(Names) = Len(Elements)
  /\ \A k \in 1..Len(Names) :
       Text(Strncpy(Names[k].name)) = Elements[k] /\ (Names[k].last <=> k = Len(Names))
  /\ \A j, k \in 1..Len(Names) :
       Namecmp(Names[j].name, Strncpy(Names[k].name)) <=> Elements[j] = Elements[k]
=============================================================================
