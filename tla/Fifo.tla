-------------------------------- MODULE Fifo --------------------------------
(***************************************************************************)
(* What a pipe promises: a bounded queue of bytes, read in the order in    *)
(* which they were written; a reader is told end-of-file only when all     *)
(* bytes were read and no writer is left.                                  *)
(***************************************************************************)
EXTENDS Naturals, Sequences

CONSTANTS Reader, Byte, Capacity, Nothing

VARIABLES
  queue,
  got,       \* the last byte each read under way received
  eof,       \* the readers whose last read returned 0
  writable   \* the write end is open

vars == <<queue, got, eof, writable>>

Init ==
  /\ queue = <<>>
  /\ got = [r \in Reader |-> Nothing]
  /\ eof = {}
  /\ writable = TRUE

Put ==
  /\ writable /\ Len(queue) < Capacity
  /\ \E v \in Byte : queue' = Append(queue, v)
  /\ UNCHANGED <<got, eof, writable>>

Get(r) ==
  /\ queue # <<>>
  /\ got' = [got EXCEPT ![r] = Head(queue)]
  /\ queue' = Tail(queue)
  /\ UNCHANGED <<eof, writable>>

\* The end of a read, which returns 0 if e.
Done(r, e) ==
  /\ e => queue = <<>> /\ ~writable
  /\ eof' = IF e THEN eof \cup {r} ELSE eof \ {r}
  /\ got' = [got EXCEPT ![r] = Nothing]
  /\ UNCHANGED <<queue, writable>>

CloseWrite == writable' = FALSE /\ UNCHANGED <<queue, got, eof>>

Next == Put \/ CloseWrite \/ \E r \in Reader : Get(r) \/ \E e \in BOOLEAN : Done(r, e)

Spec == Init /\ [][Next]_vars
=============================================================================
