------------------------------- MODULE MCProc -------------------------------
(* Small instances of Proc for TLC. *)
EXTENDS Proc

MCChan == {99}
MCNoChan == {}
=============================================================================
