----------------------------- MODULE AtomicDisk -----------------------------
(***************************************************************************)
(* What the log promises its callers: writes are seen at once, become      *)
(* durable all together and only when no operation is under way, and a     *)
(* crash takes the file system back to the last durable state.             *)
(***************************************************************************)
CONSTANTS Proc, Block, Val, Zero

VARIABLES
  volatile,   \* what reads of the running system return
  durable,    \* what is found after a crash
  active      \* operations between begin_op() and end_op()

vars == <<volatile, durable, active>>

Init ==
  /\ volatile = [b \in Block |-> Zero]
  /\ durable = volatile
  /\ active = {}

Begin(p) == p \notin active /\ active' = active \cup {p} /\ UNCHANGED <<volatile, durable>>

End(p) == p \in active /\ active' = active \ {p} /\ UNCHANGED <<volatile, durable>>

Write(p) ==
  /\ p \in active
  /\ \E b \in Block, v \in Val : volatile' = [volatile EXCEPT ![b] = v]
  /\ UNCHANGED <<durable, active>>

Commit == active = {} /\ durable' = volatile /\ UNCHANGED <<volatile, active>>

Crash == volatile' = durable /\ active' = {} /\ UNCHANGED durable

Next == Commit \/ Crash \/ \E p \in Proc : Begin(p) \/ End(p) \/ Write(p)

Spec == Init /\ [][Next]_vars
=============================================================================
