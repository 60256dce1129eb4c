-------------------------------- MODULE Grep ---------------------------------
(***************************************************************************)
(* The grep program: the backtracking matcher of grep.c against the set of *)
(* positions an automaton would reach, and the loop that cuts what read()  *)
(* returns, in pieces of any length, into lines.                           *)
(***************************************************************************)
EXTENDS Integers, Sequences, FiniteSets

CONSTANTS
  MAXRE,      \* length of patterns
  Texts,      \* lines the matcher is tried on
  Inputs,     \* what grep() reads
  BUF         \* sizeof(buf)

VARIABLES
  re,         \* the pattern
  input, got, \* the input, and how much of it is read
  buf,        \* the m bytes in buf
  out,        \* lines written
  whole       \* every read() so far has returned the end of a line

vars == <<re, input, got, buf, out, whole>>

NUL == "nul"
NL == "nl"
Op == {"a", "b", ".", "*", "^", "$"}
At(s, i) == IF i > Len(s) THEN NUL ELSE s[i]

Init == re = << >> /\ input = << >> /\ got = 0 /\ buf = << >> /\ out = << >> /\ whole = TRUE

-----------------------------------------------------------------------------
(* The matcher *)

\* matchhere() from position i of the pattern r and position j of the text t
RECURSIVE Matchhere(_, _, _, _), Matchstar(_, _, _, _, _)
Matchhere(r, t, i, j) ==
  CASE At(r, i) = NUL -> TRUE
    [] At(r, i) # NUL /\ At(r, i + 1) = "*" -> Matchstar(r, t, At(r, i), i + 2, j)
    [] At(r, i) = "$" /\ At(r, i + 1) = NUL -> At(t, j) = NUL
    [] OTHER -> At(t, j) # NUL /\ At(r, i) \in {".", At(t, j)} /\ Matchhere(r, t, i + 1, j + 1)

Matchstar(r, t, c, i, j) ==
  \/ Matchhere(r, t, i, j)
  \/ At(t, j) # NUL /\ c \in {".", At(t, j)} /\ Matchstar(r, t, c, i, j + 1)

\* Faulty variant of Starts: the empty string at the end is not looked at.
StartsNotEnd(t) == 1..Len(t)

\* Where match() tries
Starts(t) == 1..(Len(t) + 1)

Match(r, t) ==
  IF At(r, 1) = "^" THEN Matchhere(r, t, 2, 1) ELSE \E j \in Starts(t) : Matchhere(r, t, 1, j)

-----------------------------------------------------------------------------
(* grep() *)

\* The pattern is typed, then the command runs on some input.
TypeRe(c) ==
  /\ input = << >> /\ Len(re) < MAXRE
  /\ re' = Append(re, c)
  /\ UNCHANGED <<input, got, buf, out, whole>>

Run(s) ==
  /\ input = << >>
  /\ input' = s
  /\ UNCHANGED <<re, got, buf, out, whole>>

\* The complete lines at the front of b, and what follows them
Ends(b) == {k \in 1..Len(b) : b[k] = NL}
LastEnd(b) == IF Ends(b) = {} THEN 0 ELSE CHOOSE k \in Ends(b) : \A j \in Ends(b) : j <= k
RECURSIVE Lines(_)
Lines(b) ==
  IF Ends(b) = {} THEN << >>
  ELSE LET k == CHOOSE i \in Ends(b) : \A j \in Ends(b) : i <= j
       IN <<SubSeq(b, 1, k - 1)>> \o Lines(SubSeq(b, k + 1, Len(b)))

\* What stays in the buffer: nothing if no line ended in it.
Kept(b) == IF LastEnd(b) = 0 THEN << >> ELSE SubSeq(b, LastEnd(b) + 1, Len(b))

\* One read() of k bytes, at most what the buffer has room for
Read(k) ==
  /\ k <= BUF - Len(buf) - 1 /\ got + k <= Len(input)
  /\ LET b == buf \o SubSeq(input, got + 1, got + k) IN
       /\ out' = out \o SelectSeq(Lines(b), LAMBDA l : Match(re, l))
       /\ buf' = Kept(b)
       /\ whole' = (whole /\ LastEnd(b) > 0)
  /\ got' = got + k
  /\ UNCHANGED <<re, input>>

Next == (\E c \in Op : TypeRe(c)) \/ (\E s \in Inputs : Run(s)) \/ \E k \in 1..BUF : Read(k)

Spec == Init /\ [][Next]_vars

-----------------------------------------------------------------------------
(* Properties *)

\* The reference: the positions of t that the pattern from i on can lead to from
\* the positions S.
Moves(c, t, S) == {j + 1 : j \in {k \in S : At(t, k) # NUL /\ c \in {".", At(t, k)}}}
RECURSIVE Closure(_, _, _)
Closure(c, t, S) == IF Moves(c, t, S) \subseteq S THEN S ELSE Closure(c, t, S \cup Moves(c, t, S))
RECURSIVE Leads(_, _, _, _)
Leads(r, t, i, S) ==
  IF i > Len(r) THEN S
  ELSE IF At(r, i + 1) = "*" THEN Leads(r, t, i + 2, Closure(r[i], t, S))
  ELSE IF r[i] = "$" /\ i = Len(r) THEN S \cap {Len(t) + 1}
  ELSE Leads(r, t, i + 1, Moves(r[i], t, S))

RefMatch(t) ==
  IF At(re, 1) = "^" THEN Leads(re, t, 2, {1}) # {} ELSE Leads(re, t, 1, 1..(Len(t) + 1)) # {}

\* Backtracking in match() finds a match exactly if there is one, for every pattern
\* of the operators ^ . * $ and every text.  While every read() returns the end of
\* a line, grep() has written the lines that match and only those, in order and
\* each as a whole, however the input is cut.  (A read() without one empties the
\* buffer, and its line loses its start.)
GrepsRight ==
  /\ input = << >> => \A t \in Texts : Match(re, t) <=> RefMatch(t)
  /\ whole => out = SelectSeq(Lines(SubSeq(input, 1, got)), RefMatch)
=============================================================================
