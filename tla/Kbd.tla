--------------------------------- MODULE Kbd ---------------------------------
(***************************************************************************)
(* The keyboard driver (kbdgetc() of kbd.c): it follows the modifier keys  *)
(* from the scan codes that the controller delivers one byte at a time.    *)
(* A key sends its code when it is pressed and the code + 128 when it is   *)
(* released, both after the byte 224 (0xE0) if it is one of the newer keys.*)
(***************************************************************************)
EXTENDS Integers, Sequences

CONSTANTS
  Keys,     \* the keys that are used, <<code, newer>>
  PENDING   \* bytes the controller can hold

VARIABLES
  held,     \* keys that are down
  queue,    \* bytes not read yet
  shift     \* the flags of kbdgetc(); they select the table of characters

vars == <<held, queue, shift>>

E0 == 224

Init == held = {} /\ queue = << >> /\ shift = {}

\* The bytes of a key, and the flags of the code tables.
Bytes(k, release) == (IF k[2] THEN <<E0>> ELSE << >>) \o <<k[1] + (IF release THEN 128 ELSE 0)>>

shiftcode(d) ==
  CASE d \in {29, 157} -> {"CTL"} [] d \in {42, 54} -> {"SHIFT"} [] d \in {56, 184} -> {"ALT"}
    [] OTHER -> {}
togglecode(d) ==
  CASE d = 58 -> {"CAPSLOCK"} [] d = 69 -> {"NUMLOCK"} [] d = 70 -> {"SCROLLLOCK"}
    [] OTHER -> {}

Toggled(s, t) == (s \ t) \cup (t \ s)

-----------------------------------------------------------------------------
Press(k) ==
  /\ k \notin held
  /\ Len(queue) + 2 <= PENDING
  /\ held' = held \cup {k} /\ queue' = queue \o Bytes(k, FALSE)
  /\ UNCHANGED shift

Release(k) ==
  /\ k \in held
  /\ Len(queue) + 2 <= PENDING
  /\ held' = held \ {k} /\ queue' = queue \o Bytes(k, TRUE)
  /\ UNCHANGED shift

\* Faulty variant of Code: newer keys are not told apart.
CodeMasked(d) == d % 128

\* The index into the tables: newer keys use the upper half.
Code(d) == IF "E0ESC" \in shift THEN 128 + (d % 128) ELSE d % 128

\* The flags after a key was pressed or released
Pressed(d) == Toggled((shift \ {"E0ESC"}) \cup shiftcode(Code(d)), togglecode(Code(d)))
Released(d) == shift \ (shiftcode(Code(d)) \cup {"E0ESC"})

\* kbdgetc() in the interrupt handler, one byte
Kbdgetc ==
  /\ queue # << >>
  /\ LET d == Head(queue) IN
     \/ d = E0 /\ shift' = shift \cup {"E0ESC"}
     \/ d # E0 /\ d >= 128 /\ shift' = Released(d)
     \/ d < 128 /\ shift' = Pressed(d)
  /\ queue' = Tail(queue)
  /\ UNCHANGED held

Next == (\E k \in Keys : Press(k) \/ Release(k)) \/ Kbdgetc

Spec == Init /\ [][Next]_vars

-----------------------------------------------------------------------------
(* Properties *)

Modifier(k) == shiftcode(k[1] + (IF k[2] THEN 128 ELSE 0))

\* No modifier sticks: once every byte is read, SHIFT, CTL or ALT is on only
\* while a key that means it is down, and no escape is pending.
NoStuckModifier ==
  queue = << >> =>
    shift \cap {"SHIFT", "CTL", "ALT", "E0ESC"} \subseteq UNION {Modifier(k) : k \in held}
=============================================================================
