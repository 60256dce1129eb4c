--------------------------------- MODULE Tty ---------------------------------
(***************************************************************************)
(* What the console promises about input: the line being typed can be      *)
(* edited, a finished line is queued, and readers take the queue from its  *)
(* front, one character after the other, up to a newline or an end-of-file *)
(* mark.  A mark that is not at the start of a read is left for the next.  *)
(***************************************************************************)
EXTENDS Naturals, Sequences

CONSTANTS Reader, Counts, Char, NL, EOF, ROOM

VARIABLES line, cooked, got, need

Init ==
  /\ line = << >> /\ cooked = << >>
  /\ got = [p \in Reader |-> << >>] /\ need = [p \in Reader |-> 0]

Typed(c) ==
  LET full == Len(cooked) + Len(line) + 1 = ROOM
  IN /\ Len(cooked) + Len(line) < ROOM
     /\ IF c \in {NL, EOF} \/ full
          THEN cooked' = cooked \o Append(line, c) /\ line' = << >>
          ELSE line' = Append(line, c) /\ UNCHANGED cooked
     /\ UNCHANGED <<got, need>>

Erased ==
  /\ \E k \in {0, Len(line) - 1} : k < Len(line) /\ line' = SubSeq(line, 1, k)
  /\ UNCHANGED <<cooked, got, need>>

Called(p) ==
  /\ need[p] = 0 /\ \E n \in Counts : need' = [need EXCEPT ![p] = n]
  /\ UNCHANGED <<line, cooked, got>>

Reading(p) == Len(got[p]) < need[p]

\* A newline ends the read.
Took(p) ==
  /\ Reading(p) /\ cooked # << >> /\ Head(cooked) # EOF
  /\ got' = [got EXCEPT ![p] = Append(@, Head(cooked))]
  /\ need' = [need EXCEPT ![p] = IF Head(cooked) = NL THEN Len(got[p]) + 1 ELSE @]
  /\ cooked' = Tail(cooked)
  /\ UNCHANGED line

\* The mark ends the read, and is taken if the read has nothing else.
Ended(p) ==
  /\ Reading(p) /\ cooked # << >> /\ Head(cooked) = EOF
  /\ cooked' = IF got[p] = << >> THEN Tail(cooked) ELSE cooked
  /\ need' = [need EXCEPT ![p] = Len(got[p])]
  /\ UNCHANGED <<line, got>>

\* A reader that is killed stops waiting.
GaveUp(p) ==
  /\ Reading(p) /\ cooked = << >>
  /\ need' = [need EXCEPT ![p] = Len(got[p])]
  /\ UNCHANGED <<line, cooked, got>>

Returned(p) ==
  /\ ~Reading(p)
  /\ need' = [need EXCEPT ![p] = 0] /\ got' = [got EXCEPT ![p] = << >>]
  /\ UNCHANGED <<line, cooked>>

Next ==
  \/ \E c \in Char : Typed(c)
  \/ Erased
  \/ \E p \in Reader : Called(p) \/ Took(p) \/ Ended(p) \/ GaveUp(p) \/ Returned(p)

Spec == Init /\ [][Next]_<<line, cooked, got, need>>
=============================================================================
