------------------------------- MODULE MCPipe -------------------------------
(* Small instances of Pipe for TLC. *)
EXTENDS Pipe

CONSTANTS r1, r2, w1, w2

OneReader == {r1}
TwoReaders == {r1, r2}
OneWriter == {w1}
TwoWriters == {w1, w2}
Everyone == {r1, r2, w1}
=============================================================================
