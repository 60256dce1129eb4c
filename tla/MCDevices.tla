------------------------------ MODULE MCDevices ------------------------------
(* Small instances of the modules about devices, for TLC: the buffer cache    *)
(* with the disk (BufCache), the keyboard and the console.  They share no     *)
(* state.  A behaviour is one of a single module, the one that part names;    *)
(* the others stay in their initial states.                                   *)
EXTENDS BufCache

CONSTANTS p1, p2, k1, k2, k3, b1, b2

MCProc == {p1, p2}
MCBlock == {k1, k2, k3}
MCBuf == {b1, b2}

VARIABLES
  part,
  held, queue, shift,
  buf, r, w, e, lock, cpc, n, target, dst, killed

\* The two shift keys, right control, the fake shift that newer keys send, and
\* caps lock.
KbdKeys == {<<42, FALSE>>, <<54, FALSE>>, <<29, TRUE>>, <<42, TRUE>>, <<58, FALSE>>}
Keyboard == INSTANCE Kbd WITH Keys <- KbdKeys, PENDING <- 4

ConsReader == {"sh", "cat"}
ConsCounts == {2}
ConsKeys == {"a"}
Cons == INSTANCE Console WITH
  Reader <- ConsReader, Counts <- ConsCounts, Key <- ConsKeys, NL <- "nl", EOF <- "eof",
  INPUT_BUF <- 2, WORD <- 4, pc <- cpc

kbdVars == <<held, queue, shift>>
consVars == <<buf, r, w, e, lock, cpc, n, target, dst, killed>>
allVars == <<part, vars, kbdVars, consVars>>

DevicesInit ==
  /\ part \in {"disk", "keyboard", "console"}
  /\ Init /\ Keyboard!Init /\ Cons!Init

\* bget() may panic; the keyboard and the console never stop.
DevicesNext ==
  \/ part = "disk" /\ Next /\ UNCHANGED <<part, kbdVars, consVars>>
  \/ part = "disk" /\ UNCHANGED allVars
  \/ part = "keyboard" /\ Keyboard!Next /\ UNCHANGED <<part, vars, consVars>>
  \/ part = "console" /\ Cons!Next /\ UNCHANGED <<part, vars, kbdVars>>

\* The fairness of BufCache, when it is the part that runs.
DevicesSpec ==
  /\ DevicesInit /\ [][DevicesNext]_allVars
  /\ WF_vars(part = "disk" /\ IdeIntr) /\ \A p \in Proc : WF_vars(part = "disk" /\ Kernel(p))

-----------------------------------------------------------------------------
(* The properties of Kbd and Console, as they state them *)

\* kbdgetc() forgets no key: SHIFT, CTL and ALT are on only while a key is down.
NoStuckModifier == part = "keyboard" => Keyboard!NoStuckModifier

\* consoleread() does not sleep while there is input.
NoSleepOnInput == part = "console" => Cons!NoSleepOnInput

\* The console is a line being edited and a queue of finished lines (Tty), also
\* when the indices of the ring wrap around and when it is full.
ImplementsTty == Cons!ImplementsTty
=============================================================================
