-------------------------------- MODULE Shell --------------------------------
(***************************************************************************)
(* The shell's parser (sh.c): a recursive descent over a command line,     *)
(* whose words are kept as pairs of pointers into the line until           *)
(* nulterminate() ends them in place.  The state is the line being typed;  *)
(* every prefix of it is parsed, and compared with a reference definition  *)
(* that cuts a sequence of tokens at its operators.                        *)
(*                                                                         *)
(* "a" stands for the characters of words; a line also holds blanks and    *)
(* the symbols.  A parser returns [ok, cmd, i]: the command and the place  *)
(* after it; ok is FALSE where the code panics.                            *)
(***************************************************************************)
EXTENDS Integers, Sequences, SequencesExt, FiniteSetsExt

CONSTANTS
  MAXLINE,   \* longest line considered
  MAXARGS

VARIABLE line

Symbol == {"<", "|", ">", "&", ";", "(", ")"}
Char == Symbol \cup {"a", " "}

Init == line = << >>
Type == Len(line) < MAXLINE /\ \E c \in Char : line' = Append(line, c)
Spec == Init /\ [][Type]_line

-----------------------------------------------------------------------------
(* Constructors; q and eq delimit a word *)

execcmd(argv) == [type |-> "EXEC", argv |-> argv]
redircmd(cmd, q, eq, mode, fd) == [type |-> "REDIR", cmd |-> cmd, q |-> q, eq |-> eq, mode |-> mode, fd |-> fd]
pipecmd(left, right) == [type |-> "PIPE", left |-> left, right |-> right]
listcmd(left, right) == [type |-> "LIST", left |-> left, right |-> right]
backcmd(cmd) == [type |-> "BACK", cmd |-> cmd]

Good(cmd, i) == [ok |-> TRUE, cmd |-> cmd, i |-> i]
Panic == [ok |-> FALSE, cmd |-> backcmd("none"), i |-> 0]

-----------------------------------------------------------------------------
(* Tokens *)

At(i) == IF i > Len(line) THEN "end" ELSE line[i]

RECURSIVE SkipSpace(_)
SkipSpace(i) == IF At(i) = " " THEN SkipSpace(i + 1) ELSE i

RECURSIVE WordEnd(_)
WordEnd(i) == IF At(i) = "a" THEN WordEnd(i + 1) ELSE i

\* *eq of the token at q
TokenEnd(q) ==
  CASE At(q) = "end" -> q
    [] At(q) = "a" -> WordEnd(q)
    [] At(q) = ">" /\ At(q + 1) = ">" -> q + 2
    [] OTHER -> q + 1

\* "+" is >>.
Gettoken(i) ==
  LET q == SkipSpace(i)
      eq == TokenEnd(q)
  IN [tok |-> IF At(q) = ">" /\ eq = q + 2 THEN "+" ELSE At(q), q |-> q, eq |-> eq, next |-> SkipSpace(eq)]

Peek(i, toks) == At(SkipSpace(i)) \in toks

-----------------------------------------------------------------------------
(* The parser *)

\* >> opens its file like >.
Mode(tok) == IF tok = "<" THEN "O_RDONLY" ELSE "O_WRONLY|O_CREATE"
Fd(tok) == IF tok = "<" THEN 0 ELSE 1

\* The place after the token at i
Skip(i) == Gettoken(i).next

RECURSIVE ParseRedirs(_, _)
Redir(cmd, tok, f) ==
  IF f.tok # "a" THEN Panic
  ELSE ParseRedirs(redircmd(cmd, f.q, f.eq, Mode(tok), Fd(tok)), f.next)
ParseRedirs(cmd, i) ==
  IF Peek(i, {"<", ">"}) THEN Redir(cmd, Gettoken(i).tok, Gettoken(Skip(i))) ELSE Good(cmd, i)

\* The command inside the redirections is the execcmd that words are added to.
RECURSIVE AddWord(_, _)
AddWord(cmd, t) ==
  IF cmd.type = "EXEC" THEN execcmd(Append(cmd.argv, <<t.q, t.eq>>))
  ELSE [cmd EXCEPT !.cmd = AddWord(@, t)]

RECURSIVE ParseWords(_, _)
ParseWord(r, argc, t) ==
  IF Peek(r.i, {"|", ")", "&", ";"}) \/ t.tok = "end" THEN Good(r.cmd, t.q)
  ELSE IF t.tok # "a" \/ argc + 1 >= MAXARGS THEN Panic
  ELSE ParseWords(ParseRedirs(AddWord(r.cmd, t), t.next), argc + 1)
ParseWords(r, argc) == IF r.ok THEN ParseWord(r, argc, Gettoken(r.i)) ELSE Panic

RECURSIVE ParseLine(_)

BlockEnd(body) ==
  IF body.ok /\ Peek(body.i, {")"}) THEN ParseRedirs(body.cmd, Skip(body.i)) ELSE Panic
ParseBlock(i) == BlockEnd(ParseLine(Skip(i)))

ParseExec(i) ==
  IF Peek(i, {"("}) THEN ParseBlock(i) ELSE ParseWords(ParseRedirs(execcmd(<< >>), i), 0)

Joined(left, right, cmd(_, _)) ==
  IF right.ok THEN Good(cmd(left.cmd, right.cmd), right.i) ELSE Panic

RECURSIVE ParsePipe(_)
PipeRest(left) ==
  IF left.ok /\ Peek(left.i, {"|"}) THEN Joined(left, ParsePipe(Skip(left.i)), pipecmd) ELSE left
ParsePipe(i) == PipeRest(ParseExec(i))

RECURSIVE ParseBack(_)
ParseBack(r) ==
  IF r.ok /\ Peek(r.i, {"&"}) THEN ParseBack(Good(backcmd(r.cmd), Skip(r.i))) ELSE r

\* Faulty variant of Command: & binds tighter than |.
CommandTight(i) == PipeRest(ParseBack(ParseExec(i)))

\* A pipeline and the & after it
Command(i) == ParseBack(ParsePipe(i))

ListRest(left) ==
  IF left.ok /\ Peek(left.i, {";"}) THEN Joined(left, ParseLine(Skip(left.i)), listcmd) ELSE left
ParseLine(i) == ListRest(Command(i))

CmdEnd(r) == IF r.ok /\ SkipSpace(r.i) = Len(line) + 1 THEN Good(r.cmd, Len(line) + 1) ELSE Panic
ParseCmd == CmdEnd(ParseLine(1))

\* Where nulterminate() writes a zero
RECURSIVE Nul(_)
Nul(cmd) ==
  CASE cmd.type = "EXEC" -> {cmd.argv[k][2] : k \in DOMAIN cmd.argv}
    [] cmd.type = "REDIR" -> Nul(cmd.cmd) \cup {cmd.eq}
    [] cmd.type = "BACK" -> Nul(cmd.cmd)
    [] OTHER -> Nul(cmd.left) \cup Nul(cmd.right)

-----------------------------------------------------------------------------
(* The reference *)

\* A token starts at every symbol (every second > of a row of them) and at
\* every first character of a word.
RunStart(i) == Max({0} \cup {k \in 1..(i - 1) : line[k] # ">"}) + 1
Starts ==
  {i \in 1..Len(line) :
     \/ line[i] = ">" /\ (i - RunStart(i)) % 2 = 0
     \/ line[i] \in Symbol \ {">"}
     \/ line[i] = "a" /\ (i = 1 \/ line[i - 1] # "a")}
Token(i) ==
  LET end == Min({k \in (i + 1)..(Len(line) + 1) : k = Len(line) + 1 \/ line[k] # "a"})
  IN IF line[i] = "a" THEN [tok |-> "a", q |-> i, eq |-> end]
     ELSE IF line[i] = ">" /\ At(i + 1) = ">" THEN [tok |-> "+", q |-> i, eq |-> i + 2]
     ELSE [tok |-> line[i], q |-> i, eq |-> i + 1]
Tokens == [k \in 1..Cardinality(Starts) |->
             Token(CHOOSE i \in Starts : Cardinality({j \in Starts : j < i}) = k - 1)]

Count(t, k, c) == Cardinality({j \in 1..k : t[j].tok = c})
\* The operators c of t outside parentheses
Top(t, c) == {k \in DOMAIN t : t[k].tok = c /\ Count(t, k, "(") = Count(t, k, ")")}
Closing(t) == {k \in DOMAIN t : Count(t, k, "(") = Count(t, k, ")")}
Upto(t, k) == SubSeq(t, 1, k - 1)
After(t, k) == SubSeq(t, k + 1, Len(t))
IsRedir(t, k) == k \in DOMAIN t /\ t[k].tok \in {"<", ">", "+"}

\* t is words and redirections only.
Simple(t) ==
  \A k \in DOMAIN t : /\ t[k].tok \in {"a", "<", ">", "+"}
                      /\ IsRedir(t, k) => k < Len(t) /\ t[k + 1].tok = "a"
Redirected(cmd, t) ==
  FoldLeft(LAMBDA c, k : IF IsRedir(t, k) THEN redircmd(c, t[k + 1].q, t[k + 1].eq, Mode(t[k].tok), Fd(t[k].tok)) ELSE c,
           cmd, [k \in 1..Len(t) |-> k])
Words(t) == LET ks == SelectSeq([k \in 1..Len(t) |-> k], LAMBDA k : t[k].tok = "a" /\ ~IsRedir(t, k - 1))
            IN [n \in 1..Len(ks) |-> <<t[ks[n]].q, t[ks[n]].eq>>]

Both(l, r, cmd(_, _)) == IF l.ok /\ r.ok THEN Good(cmd(l.cmd, r.cmd), 0) ELSE Panic

RECURSIVE RefLine(_)
RefExec(t) ==
  IF t # << >> /\ t[1].tok = "("
    THEN IF Closing(t) = {} THEN Panic
         ELSE LET k == Min(Closing(t))
                  body == RefLine(SubSeq(t, 2, k - 1))
                  rest == After(t, k)
              IN IF body.ok /\ Simple(rest) /\ Words(rest) = << >> THEN Good(Redirected(body.cmd, rest), 0)
                 ELSE Panic
    ELSE IF Simple(t) /\ Len(Words(t)) < MAXARGS THEN Good(Redirected(execcmd(Words(t)), t), 0) ELSE Panic
RECURSIVE RefPipe(_)
RefPipe(t) ==
  IF Top(t, "|") = {} THEN RefExec(t)
  ELSE LET k == Min(Top(t, "|")) IN Both(RefExec(Upto(t, k)), RefPipe(After(t, k)), pipecmd)
RECURSIVE RefBack(_)
RefBack(t) ==
  IF t # << >> /\ t[Len(t)].tok = "&"
    THEN LET c == RefBack(Upto(t, Len(t))) IN IF c.ok THEN Good(backcmd(c.cmd), 0) ELSE Panic
    ELSE RefPipe(t)
RefLine(t) ==
  IF Top(t, ";") = {} THEN RefBack(t)
  ELSE LET k == Min(Top(t, ";")) IN Both(RefBack(Upto(t, k)), RefLine(After(t, k)), listcmd)

-----------------------------------------------------------------------------
(* Properties *)

RECURSIVE AllWords(_)
AllWords(cmd) ==
  CASE cmd.type = "EXEC" -> Range(cmd.argv)
    [] cmd.type = "REDIR" -> AllWords(cmd.cmd) \cup {<<cmd.q, cmd.eq>>}
    [] cmd.type = "BACK" -> AllWords(cmd.cmd)
    [] OTHER -> AllWords(cmd.left) \cup AllWords(cmd.right)

\* The parser's result p and the reference's r agree, and nulterminate() ends the
\* words of p.
Agree(p, r) ==
  /\ p.ok = r.ok
  /\ p.ok =>
       /\ p.cmd = r.cmd
       /\ \A x \in AllWords(p.cmd) :
            /\ x[2] \in Nul(p.cmd) \cup {Len(line) + 1}
            /\ \A k \in x[1]..(x[2] - 1) : line[k] = "a" /\ k \notin Nul(p.cmd)

\* parsecmd() accepts a line when the reference does, and builds the same command:
\* ; before &, & before |, redirections in their order.  Its words end where they
\* ended in the line, though words and symbols may touch: nulterminate() writes a
\* zero after each and none inside one.
ParsesRight == Agree(ParseCmd, RefLine(Tokens))
=============================================================================
