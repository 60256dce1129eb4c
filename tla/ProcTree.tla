------------------------------ MODULE ProcTree ------------------------------
(***************************************************************************)
(* What fork(), exit() and wait() promise to user programs: a tree of      *)
(* processes rooted at init.  Nothing about CPUs, locks, scheduling or the *)
(* layout of the process table.                                            *)
(***************************************************************************)
CONSTANTS Slot, Root, None

VARIABLES live, zombie, par

vars == <<live, zombie, par>>

Init ==
  /\ live = {Root}
  /\ zombie = {}
  /\ par = [q \in Slot |-> None]

\* p creates the child q.
Fork(p, q) ==
  /\ p \in live /\ q \notin live \cup zombie
  /\ live' = live \cup {q}
  /\ par' = [par EXCEPT ![q] = p]
  /\ UNCHANGED zombie

\* p exits; its children, running or not, become children of the root.
Exit(p) ==
  /\ p \in live /\ p # Root
  /\ live' = live \ {p}
  /\ zombie' = zombie \cup {p}
  /\ par' = [q \in Slot |-> IF par[q] = p THEN Root ELSE par[q]]

\* p collects its exited child q.
Reap(p, q) ==
  /\ p \in live /\ q \in zombie /\ par[q] = p
  /\ zombie' = zombie \ {q}
  /\ par' = [par EXCEPT ![q] = None]
  /\ UNCHANGED live

Next ==
  \/ \E p, q \in Slot : Fork(p, q) \/ Reap(p, q)
  \/ \E p \in Slot : Exit(p)

Spec == Init /\ [][Next]_vars
=============================================================================
