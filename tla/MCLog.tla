-------------------------------- MODULE MCLog --------------------------------
(* Small instances of Log for TLC. *)
EXTENDS Log, TLC

CONSTANTS p1, p2, p3, b1, b2, b3, b4

MCProc == {p1, p2}
MCProc3 == {p1, p2, p3}
MCBlock == {b1, b2}
MCBlock4 == {b1, b2, b3, b4}
MCBlock3 == {b1, b2, b3}

\* The block after the log, if the header can name one more than the log holds.
MCAfter == [i \in SIZE..LOGSIZE |-> b1]
=============================================================================
