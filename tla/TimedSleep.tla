----------------------------- MODULE TimedSleep -----------------------------
(***************************************************************************)
(* What the sleep(n) system call promises: a caller is blocked until n     *)
(* ticks have passed or it is killed.  A tick counts down every caller and *)
(* wakes all that are blocked, in one step; checking the remaining time    *)
(* and blocking is one step too.                                           *)
(***************************************************************************)
EXTENDS Naturals

CONSTANTS Thread, Wants

VARIABLES
  phase,   \* "out" of the call, "in" it and awake, or "blocked"
  left,    \* ticks the caller still has to wait
  killed

vars == <<phase, left, killed>>

Init ==
  /\ phase = [t \in Thread |-> "out"]
  /\ left = [t \in Thread |-> 0]
  /\ killed = [t \in Thread |-> FALSE]

Call(t) ==
  /\ phase[t] = "out"
  /\ phase' = [phase EXCEPT ![t] = "in"]
  /\ \E n \in Wants : left' = [left EXCEPT ![t] = n]
  /\ UNCHANGED killed

Block(t) ==
  /\ phase[t] = "in" /\ left[t] > 0
  /\ phase' = [phase EXCEPT ![t] = "blocked"]
  /\ UNCHANGED <<left, killed>>

Return(t) ==
  /\ phase[t] = "in" /\ (left[t] = 0 \/ killed[t])
  /\ phase' = [phase EXCEPT ![t] = "out"]
  /\ left' = [left EXCEPT ![t] = 0]
  /\ UNCHANGED killed

Tick ==
  /\ phase' = [t \in Thread |-> IF phase[t] = "blocked" THEN "in" ELSE phase[t]]
  /\ left' = [t \in Thread |-> IF left[t] > 0 THEN left[t] - 1 ELSE 0]
  /\ UNCHANGED killed

Kill(t) ==
  /\ killed' = [killed EXCEPT ![t] = TRUE]
  /\ phase' = [phase EXCEPT ![t] = IF @ = "blocked" THEN "in" ELSE @]
  /\ UNCHANGED left

Next == Tick \/ \E t \in Thread : Call(t) \/ Block(t) \/ Return(t) \/ Kill(t)

Spec == Init /\ [][Next]_vars
=============================================================================
