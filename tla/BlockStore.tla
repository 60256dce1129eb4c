----------------------------- MODULE BlockStore -----------------------------
(***************************************************************************)
(* What the buffer cache promises: one value per disk block, which one     *)
(* process at a time, the owner of the block, reads and changes.           *)
(***************************************************************************)
CONSTANTS Proc, Block, Val, Zero, Nobody

VARIABLES val, owner

vars == <<val, owner>>

Init ==
  /\ val = [k \in Block |-> Zero]
  /\ owner = [k \in Block |-> Nobody]

Get(p, k) ==
  /\ owner[k] = Nobody
  /\ owner' = [owner EXCEPT ![k] = p]
  /\ UNCHANGED val

Put(p, k) ==
  /\ owner[k] = p
  /\ owner' = [owner EXCEPT ![k] = Nobody]
  /\ UNCHANGED val

Write(p, k) ==
  /\ owner[k] = p
  /\ \E v \in Val : val' = [val EXCEPT ![k] = v]
  /\ UNCHANGED owner

Next == \E p \in Proc, k \in Block : Get(p, k) \/ Put(p, k) \/ Write(p, k)

Spec == Init /\ [][Next]_vars
=============================================================================
