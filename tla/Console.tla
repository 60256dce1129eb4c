------------------------------- MODULE Console -------------------------------
(***************************************************************************)
(* The console (console.c): the interrupt handler edits a line in a ring   *)
(* with three indices that wrap around, and readers sleep until a line is  *)
(* committed.                                                              *)
(*                                                                         *)
(* Everything runs under cons.lock: a step of the handler (one character)  *)
(* needs the lock to be free, a reader holds it from one sleep to the      *)
(* next.  A reader's labels: "idle", "acq" (waits for the lock), "loop"    *)
(* (holds it), "tosleep" (has seen no input), "asleep", "ret".             *)
(***************************************************************************)
EXTENDS Integers, Sequences, FiniteSets

CONSTANTS
  Reader,      \* processes that read the console
  Counts,      \* numbers of bytes they ask for
  Key,         \* ordinary characters
  NL, EOF,     \* newline and control-D
  INPUT_BUF, WORD    \* size of the ring; the indices count modulo WORD

VARIABLES
  buf, r, w, e,      \* struct input
  lock,              \* reader that holds cons.lock, or Free
  pc, n, target, dst,
  killed

input == <<buf, r, w, e>>
reader == <<lock, pc, n, target, dst, killed>>
vars == <<input, reader>>

Free == "free"
Char == Key \cup {NL, EOF}
Add(a, k) == (a + k) % WORD

Init ==
  /\ buf = [i \in 0..(INPUT_BUF - 1) |-> NL] /\ r = 0 /\ w = 0 /\ e = 0
  /\ lock = Free
  /\ pc = [p \in Reader |-> "idle"]
  /\ n = [p \in Reader |-> 0] /\ target = [p \in Reader |-> 0]
  /\ dst = [p \in Reader |-> << >>]
  /\ killed = [p \in Reader |-> FALSE]

-----------------------------------------------------------------------------
(* consoleintr(), one character *)

HasRoom == (e - r) % WORD < INPUT_BUF

\* The character ends a line, or fills the ring.
Commits(c, e1) == c = NL \/ c = EOF \/ e1 = Add(r, INPUT_BUF)

\* Faulty variant of Wakeup: nobody is woken.
WakeupNobody(f) == f

\* wakeup(&input.r)
Wakeup(f) == [p \in Reader |-> IF f[p] = "asleep" THEN "acq" ELSE f[p]]

Type(c) ==
  /\ lock = Free /\ HasRoom
  /\ LET e1 == Add(e, 1)
     IN /\ buf' = [buf EXCEPT ![e % INPUT_BUF] = c]
        /\ e' = e1
        /\ IF Commits(c, e1) THEN w' = e1 /\ pc' = Wakeup(pc) ELSE UNCHANGED <<w, pc>>
  /\ UNCHANGED <<r, lock, n, target, dst, killed>>

Backspace ==
  /\ lock = Free /\ e # w
  /\ e' = Add(e, -1)
  /\ UNCHANGED <<buf, r, w, reader>>

\* Control-U: back to the start of the line.
RECURSIVE Erase(_)
Erase(e0) ==
  IF e0 = w \/ buf[Add(e0, -1) % INPUT_BUF] = NL THEN e0 ELSE Erase(Add(e0, -1))

KillLine ==
  /\ lock = Free /\ e # w
  /\ e' = Erase(e)
  /\ UNCHANGED <<buf, r, w, reader>>

-----------------------------------------------------------------------------
(* consoleread() *)

Goto(p, label) == pc' = [pc EXCEPT ![p] = label]

Call(p, k) ==
  /\ pc[p] = "idle" /\ Goto(p, "acq")
  /\ n' = [n EXCEPT ![p] = k] /\ target' = [target EXCEPT ![p] = k]
  /\ UNCHANGED <<input, lock, dst, killed>>

Acquire(p) ==
  /\ pc[p] = "acq" /\ lock = Free /\ lock' = p /\ Goto(p, "loop")
  /\ UNCHANGED <<input, n, target, dst, killed>>

\* No input: give up if killed, or go to sleep.
Wait(p) ==
  /\ pc[p] = "loop" /\ n[p] > 0 /\ r = w
  /\ IF killed[p] THEN Goto(p, "ret") /\ lock' = Free ELSE Goto(p, "tosleep") /\ UNCHANGED lock
  /\ UNCHANGED <<input, n, target, dst, killed>>

\* sleep() gives up cons.lock as it goes to sleep.
Sleep(p) ==
  /\ pc[p] = "tosleep" /\ Goto(p, "asleep") /\ lock' = Free
  /\ UNCHANGED <<input, n, target, dst, killed>>

\* Faulty variant of AfterEof: the mark is always used up.
AfterEofUsed(p) == Add(r, 1)

\* The read index after control-D: put back unless the read is empty.
AfterEof(p) == IF n[p] < target[p] THEN r ELSE Add(r, 1)

GetChar(p) ==
  /\ pc[p] = "loop" /\ n[p] > 0 /\ r # w
  /\ LET c == buf[r % INPUT_BUF]
     IN IF c = EOF
          THEN /\ r' = AfterEof(p)
               /\ Goto(p, "ret") /\ lock' = Free
               /\ UNCHANGED <<n, dst>>
          ELSE /\ r' = Add(r, 1)
               /\ dst' = [dst EXCEPT ![p] = Append(@, c)]
               /\ n' = [n EXCEPT ![p] = @ - 1]
               /\ IF c = NL THEN Goto(p, "ret") /\ lock' = Free ELSE UNCHANGED <<pc, lock>>
  /\ UNCHANGED <<buf, w, e, target, killed>>

Full(p) ==
  /\ pc[p] = "loop" /\ n[p] = 0 /\ Goto(p, "ret") /\ lock' = Free
  /\ UNCHANGED <<input, n, target, dst, killed>>

\* Back in the process; one that was killed exits, and the slot is used again.
Return(p) ==
  /\ pc[p] = "ret" /\ Goto(p, "idle")
  /\ n' = [n EXCEPT ![p] = 0] /\ target' = [target EXCEPT ![p] = 0]
  /\ dst' = [dst EXCEPT ![p] = << >>]
  /\ killed' = [killed EXCEPT ![p] = FALSE]
  /\ UNCHANGED <<input, lock>>

\* kill() wakes a sleeping process.
Kill(p) ==
  /\ ~killed[p] /\ pc[p] # "idle"
  /\ killed' = [killed EXCEPT ![p] = TRUE]
  /\ pc' = [pc EXCEPT ![p] = IF @ = "asleep" THEN "acq" ELSE @]
  /\ UNCHANGED <<input, lock, n, target, dst>>

ReadStep(p) == Acquire(p) \/ Wait(p) \/ Sleep(p) \/ GetChar(p) \/ Full(p) \/ Return(p)

Next ==
  \/ \E c \in Char : Type(c)
  \/ Backspace \/ KillLine
  \/ \E p \in Reader : (\E k \in Counts : Call(p, k)) \/ ReadStep(p) \/ Kill(p)

Spec == Init /\ [][Next]_vars

-----------------------------------------------------------------------------
(* Properties *)

Used == (e - r) % WORD
Ready == (w - r) % WORD

\* consoleread() does not sleep while there is input for it: the handler wakes the
\* readers of every line it commits, and no wakeup falls between test and sleep.
NoSleepOnInput == \A p \in Reader : pc[p] = "asleep" /\ lock = Free => r = w

\* The ring and its indices behave as a line and a queue.
Slice(a, k) == [i \in 1..k |-> buf[Add(a, i - 1) % INPUT_BUF]]
Abstract == INSTANCE Tty WITH
  line <- Slice(w, Used - Ready), cooked <- Slice(r, Ready), got <- dst, ROOM <- INPUT_BUF,
  need <- [p \in Reader |-> IF pc[p] = "ret" THEN Len(dst[p]) ELSE target[p]]
ImplementsTty == Abstract!Spec
=============================================================================
