------------------------------- MODULE Files --------------------------------
(***************************************************************************)
(* What the file system calls promise about the files of one directory: a  *)
(* file keeps its contents as long as it has a name or a process uses it,  *)
(* and a new file is one that nobody names or uses.                        *)
(***************************************************************************)
CONSTANTS Proc, Name, Inum, Val, Zero, NoInum

VARIABLES
  dir,    \* the file of each name, or NoInum
  uses,   \* the files each process has looked up or opened
  val     \* contents of the files

vars == <<dir, uses, val>>

Init ==
  /\ dir = [n \in Name |-> NoInum]
  /\ uses = [p \in Proc |-> {}]
  /\ val = [i \in Inum |-> Zero]

Live(i) == (\E n \in Name : dir[n] = i) \/ (\E p \in Proc : i \in uses[p])

\* A file without names and users loses its contents.
Reclaim == val' = [i \in Inum |-> IF Live(i)' THEN val[i] ELSE Zero]

Lookup(p, n) ==
  /\ dir[n] # NoInum
  /\ uses' = [uses EXCEPT ![p] = @ \cup {dir[n]}]
  /\ UNCHANGED <<dir, val>>

Create(p, n) ==
  /\ dir[n] = NoInum
  /\ \E i \in Inum :
       /\ ~Live(i)
       /\ dir' = [dir EXCEPT ![n] = i]
       /\ uses' = [uses EXCEPT ![p] = @ \cup {i}]
  /\ UNCHANGED val

Link(p, n) ==
  /\ dir[n] = NoInum
  /\ \E i \in uses[p] : dir' = [dir EXCEPT ![n] = i]
  /\ UNCHANGED <<uses, val>>

Unlink(p, n) ==
  /\ dir[n] # NoInum
  /\ dir' = [dir EXCEPT ![n] = NoInum]
  /\ Reclaim
  /\ UNCHANGED uses

Write(p) ==
  /\ \E i \in uses[p], v \in Val : val' = [val EXCEPT ![i] = v]
  /\ UNCHANGED <<dir, uses>>

Drop(p) ==
  /\ \E i \in uses[p] : uses' = [uses EXCEPT ![p] = @ \ {i}]
  /\ Reclaim
  /\ UNCHANGED dir

Next ==
  \E p \in Proc :
    \/ Write(p) \/ Drop(p)
    \/ \E n \in Name : Lookup(p, n) \/ Create(p, n) \/ Link(p, n) \/ Unlink(p, n)

Spec == Init /\ [][Next]_vars
=============================================================================
