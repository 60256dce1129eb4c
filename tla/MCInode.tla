------------------------------ MODULE MCInode -------------------------------
(* A small instance of Inode for TLC. *)
EXTENDS Inode, TLC

CONSTANTS p1, p2, n1, n2

MCProc == {p1, p2}
MCName == {n1, n2}

\* Processes and names are interchangeable; used for safety only.
MCSymmetry == Permutations(MCProc) \cup Permutations(MCName)
=============================================================================
