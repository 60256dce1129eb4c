------------------------------ MODULE ByteFiles ------------------------------
(***************************************************************************)
(* What files are to the processes that write them: sequences of bytes,    *)
(* and open files that each have a position.  A process puts its bytes at  *)
(* the position and moves it past them; nothing else changes.              *)
(***************************************************************************)
EXTENDS Naturals, Sequences

CONSTANTS Writer, Handle, FileOf, File, Data(_, _, _)

VARIABLES bytes, pos

vars == <<bytes, pos>>

\* m bytes of process p replace those from offset o on, or extend the file.
Overwrite(s, p, f, o, m) ==
  [k \in 1..(IF o + m > Len(s) THEN o + m ELSE Len(s)) |->
     IF k > o /\ k <= o + m THEN Data(p, f, k - 1) ELSE s[k]]

Put(p, h) ==
  LET f == FileOf[h]
  IN /\ pos'[h] > pos[h] /\ pos[h] <= Len(bytes[f])
     /\ pos' = [pos EXCEPT ![h] = pos'[h]]
     /\ bytes' = [bytes EXCEPT ![f] = Overwrite(@, p, f, pos[h], pos'[h] - pos[h])]

\* A file is forgotten; a new one is opened in its place.
Truncate(f) ==
  /\ bytes' = [bytes EXCEPT ![f] = << >>]
  /\ pos' = [h \in Handle |-> IF FileOf[h] = f THEN 0 ELSE pos[h]]

Init ==
  /\ pos = [h \in Handle |-> 0]
  /\ \A f \in File : \A k \in DOMAIN bytes[f] : bytes[f][k] = Data(0, f, k - 1)

Next == (\E p \in Writer, h \in Handle : Put(p, h)) \/ \E f \in File : Truncate(f)

Spec == Init /\ [][Next]_vars
=============================================================================
