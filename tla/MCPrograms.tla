----------------------------- MODULE MCPrograms -----------------------------
(* Small instances of the modules about processes and programs, for TLC: the *)
(* process table (Proc), the table of open files, the directory tree, and    *)
(* three pieces of code that take text apart: path names, the shell's parser *)
(* and grep.  They share no state.  A behaviour is one of a single module,   *)
(* the one that part names; the others stay in their initial states.         *)
EXTENDS MCProc, Sequences, TLC

CONSTANTS q1, q2   \* the processes of Tree

VARIABLES
  part,
  ref, obj, ofile, active, st, use,
  ino, tlock, cwd, walk,
  path,
  line,
  re, input, got, buf, out, whole

FileProc == {"init", "sh"}
Objects == {<<"a", "i">>, <<"x", "r">>, <<"x", "w">>}
Ftable == INSTANCE FileTable WITH
  Proc <- FileProc, initproc <- "init", NFILE <- 3, NOFILE <- 2, Object <- Objects

A(op, names) == [op |-> op, path |-> names, abs |-> TRUE, new |-> << >>]
MCCalls ==
  {A("mkdir", <<"a">>), A("mkdir", <<"a", "b">>), A("unlink", <<"a", "b">>), A("unlink", <<"a">>),
   A("unlink", <<"b">>), A("mknod", <<"a">>), A("chdir", <<"a">>), A("chdir", <<"a", "b">>),
   [A("create", <<"..", "b">>) EXCEPT !.abs = FALSE], [A("open", <<"..">>) EXCEPT !.abs = FALSE],
   [A("link", <<"a">>) EXCEPT !.new = <<"b">>]}
TreeProc == {q1, q2}
TreeNames == {"a", "b"}

Dirs == INSTANCE Tree WITH
  Proc <- TreeProc, Name <- TreeNames, NINODES <- 3, Calls <- MCCalls, lock <- tlock, st <- walk

Path == INSTANCE Path WITH MAXPATH <- 6, DIRSIZ <- 3

Parser == INSTANCE Shell WITH MAXLINE <- 5, MAXARGS <- 3

GrepTexts == UNION {[1..k -> {"a", "b"}] : k \in 0..4}
GrepInputs == {<<"a", "nl", "b", "a", "nl">>, <<"a", "b", "a", "nl", "b", "nl", "nl">>}
Grep == INSTANCE Grep WITH MAXRE <- 3, BUF <- 6, Texts <- GrepTexts, Inputs <- GrepInputs

ftableVars == <<ref, obj, ofile, active, st, use>>
treeVars == <<ino, tlock, cwd, walk>>
grepVars == <<re, input, got, buf, out, whole>>
allVars == <<part, vars, ftableVars, treeVars, path, line, grepVars>>

ProgramsInit ==
  /\ part \in {"proc", "ftable", "tree", "path", "parser", "grep"}
  /\ Init /\ Ftable!Init /\ Dirs!Init /\ Path!Init /\ Parser!Init /\ Grep!Init

\* Texts end, and a panic stops the machine; the other parts never stop.
Stop ==
  /\ part \in {"path", "parser", "grep"} \/ (part = "tree" /\ Dirs!Halted)
  /\ UNCHANGED allVars

ProgramsNext ==
  \/ /\ part = "proc" /\ Next
     /\ UNCHANGED <<part, ftableVars, treeVars, path, line, grepVars>>
  \/ /\ part = "ftable" /\ Ftable!Next
     /\ UNCHANGED <<part, vars, treeVars, path, line, grepVars>>
  \/ /\ part = "tree" /\ Dirs!Next
     /\ UNCHANGED <<part, vars, ftableVars, path, line, grepVars>>
  \/ /\ part = "path" /\ Path!Next
     /\ UNCHANGED <<part, vars, ftableVars, treeVars, line, grepVars>>
  \/ /\ part = "parser" /\ Parser!Type
     /\ UNCHANGED <<part, vars, ftableVars, treeVars, path, grepVars>>
  \/ /\ part = "grep" /\ Grep!Next
     /\ UNCHANGED <<part, vars, ftableVars, treeVars, path, line>>
  \/ Stop

\* The processes of Tree are alike.
Symmetry == Permutations(TreeProc)

ProgramsSpec == ProgramsInit /\ [][ProgramsNext]_allVars

-----------------------------------------------------------------------------
(* The properties of the modules besides Proc, as they state them *)

\* f->ref counts the descriptors that lead to f, also in the middle of fork(),
\* dup(), close() and exit(), and what f refers to is given up once.
FilesCounted == part = "ftable" => Ftable!FilesCounted

\* What a path from the root leads to is a tree of allocated directories and files
\* with enough links (create(), sys_link(), sys_unlink(), namex()).
TreeShape == part = "tree" => Dirs!TreeShape

\* sys_unlink() takes nothing out of the tree but the file or directory it names.
OneLost == Dirs!OneLost

\* skipelem() takes every path apart into its names, and a name that dirlink()
\* stores is found by dirlookup(), also when it is cut.
NamesRight == part = "path" => Path!NamesRight

\* The recursive-descent parser builds the tree that the grammar gives the line,
\* or reports an error exactly if there is none, and ends its words (parsecmd()).
ParsesRight == part = "parser" => Parser!ParsesRight

\* match() finds a match exactly if there is one, and grep() writes the matching
\* lines, however read() cuts the input at line ends.
GrepsRight == part = "grep" => Grep!GrepsRight
=============================================================================
