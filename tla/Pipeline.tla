------------------------------ MODULE Pipeline -------------------------------
(***************************************************************************)
(* How the shell runs a command (runcmd() and main() of sh.c): it forks a  *)
(* process for each part, connects them with pipes by closing and          *)
(* duplicating descriptors, and waits.                                     *)
(*                                                                         *)
(* A process is a shell that runs a command, or a program.  A program      *)
(* reads its standard input to the end and writes its standard output      *)
(* before it exits; it can do that when nobody else keeps the pipe it      *)
(* reads open for writing, and somebody reads the pipe it writes.          *)
(***************************************************************************)
EXTENDS Integers, FiniteSets, FiniteSetsExt

CONSTANTS
  NPROC,     \* processes 1..NPROC; 1 is the shell that reads commands
  BUSY,      \* processes left in the background when a command is typed
  Commands   \* commands that are typed

VARIABLES
  cmd,       \* what each process runs
  pc,        \* "unused", "prompt", "run", ..., "program", "zombie"
  parent,    \* 0 is init
  fd         \* descriptors of each process

vars == <<cmd, pc, parent, fd>>

Proc == 1..NPROC
Sh == 1
Init_ == 0
NOFILE == 0..5
Closed == "closed"
Nil == [type |-> "NIL"]
Terminal == [d \in NOFILE |-> IF d <= 2 THEN <<"console", 0>> ELSE <<Closed, 0>>]
NoFiles == [d \in NOFILE |-> <<Closed, 0>>]

Init ==
  /\ cmd = [x \in Proc |-> Nil]
  /\ pc = [x \in Proc |-> IF x = Sh THEN "prompt" ELSE "unused"]
  /\ parent = [x \in Proc |-> Init_]
  /\ fd = [x \in Proc |-> IF x = Sh THEN Terminal ELSE NoFiles]

Open(x, f) == \E d \in NOFILE : fd[x][d] = f
Somebody(f) == \E x \in Proc : Open(x, f)
Children(x) == {y \in Proc : parent[y] = x /\ pc[y] # "unused"}

-----------------------------------------------------------------------------
(* System calls *)

Lowest(f) == Min({d \in NOFILE : f[d][1] = Closed})
Close(f, d) == [f EXCEPT ![d] = <<Closed, 0>>]
Dup(f, d) == [f EXCEPT ![Lowest(f)] = f[d]]

\* exit() closes the files and leaves the children to init.
Exited(x) ==
  /\ pc' = [y \in Proc |-> IF y = x THEN "zombie"
                           ELSE IF parent[y] = x /\ pc[y] = "zombie" THEN "unused" ELSE pc[y]]
  /\ parent' = [y \in Proc |-> IF parent[y] = x THEN Init_ ELSE parent[y]]
  /\ fd' = [fd EXCEPT ![x] = NoFiles]
  /\ cmd' = [cmd EXCEPT ![x] = Nil]

\* fork1(): the child runs c from label start, the parent goes on at label.
\* Without a free process it panics, that is exits.
Fork(x, c, start, label) ==
  LET free == {y \in Proc : pc[y] = "unused"}
      y == Min(free)
  IN IF free = {} THEN Exited(x)
     ELSE /\ cmd' = [cmd EXCEPT ![y] = c]
          /\ pc' = [pc EXCEPT ![y] = start, ![x] = label]
          /\ parent' = [parent EXCEPT ![y] = x]
          /\ fd' = [fd EXCEPT ![y] = fd[x]]

\* wait(): a child that has exited is removed; without children it returns.
Wait(x, from, label) ==
  /\ pc[x] = from
  /\ \/ /\ Children(x) = {} /\ pc' = [pc EXCEPT ![x] = label] /\ UNCHANGED parent
     \/ \E y \in Children(x) :
          /\ pc[y] = "zombie" /\ pc' = [pc EXCEPT ![y] = "unused", ![x] = label]
          /\ parent' = [parent EXCEPT ![y] = Init_]
  /\ UNCHANGED <<cmd, fd>>

\* init reaps what was left to it.
Reap(x) ==
  /\ pc[x] = "zombie" /\ parent[x] = Init_
  /\ IF x = Sh   \* init starts another shell
       THEN pc' = [pc EXCEPT ![x] = "prompt"] /\ fd' = [fd EXCEPT ![x] = Terminal]
       ELSE pc' = [pc EXCEPT ![x] = "unused"] /\ UNCHANGED fd
  /\ UNCHANGED <<cmd, parent>>

-----------------------------------------------------------------------------
(* main() and runcmd() *)

\* A command is typed and started, while at most BUSY others still run.
Prompt ==
  /\ pc[Sh] = "prompt"
  /\ Cardinality({x \in Proc : pc[x] # "unused"}) <= BUSY + 1
  /\ \E c \in Commands : Fork(Sh, c, "run", "waitcmd")

MainWait == Wait(Sh, "waitcmd", "prompt")

Running(x, type) == pc[x] = "run" /\ cmd[x].type = type

\* exec() may fail; the process then exits.
Exec(x) ==
  /\ Running(x, "EXEC")
  /\ \/ Exited(x)
     \/ pc' = [pc EXCEPT ![x] = "program"] /\ UNCHANGED <<cmd, parent, fd>>

\* close(fd) and open(file), which may fail
Redir(x) ==
  /\ Running(x, "REDIR")
  /\ \/ Exited(x)
     \/ /\ LET f == Close(fd[x], cmd[x].fd)
           IN fd' = [fd EXCEPT ![x] = [f EXCEPT ![Lowest(f)] = <<"file", 0>>]]
        /\ cmd' = [cmd EXCEPT ![x] = @.cmd]
        /\ UNCHANGED <<pc, parent>>

\* What runcmd() goes on with after the first command of a list
Rest(c) == c.right

List(x) ==
  \/ Running(x, "LIST") /\ Fork(x, cmd[x].left, "run", "waitleft")
  \/ Wait(x, "waitleft", "runright")
  \/ /\ pc[x] = "runright"
     /\ pc' = [pc EXCEPT ![x] = "run"] /\ cmd' = [cmd EXCEPT ![x] = Rest(@)]
     /\ UNCHANGED <<parent, fd>>

Back(x) ==
  \/ Running(x, "BACK") /\ Fork(x, cmd[x].cmd, "run", "backdone")
  \/ pc[x] = "backdone" /\ Exited(x)

\* A pipe with a number of its own, at the two lowest free descriptors.
NewPipe(x) ==
  LET k == Min({i \in 1..2 * NPROC : ~Somebody(<<"read", i>>) /\ ~Somebody(<<"write", i>>)})
      r == [fd[x] EXCEPT ![Lowest(fd[x])] = <<"read", k>>]
  IN [r EXCEPT ![Lowest(r)] = <<"write", k>>]

\* The descriptors p[0] and p[1] of a process inside runcmd()
P0(f) == CHOOSE d \in NOFILE : d > 2 /\ f[d][1] = "read"
P1(f) == CHOOSE d \in NOFILE : d > 2 /\ f[d][1] = "write"

\* Faulty variant of RightFiles: the child keeps the end it does not use.
RightKeepsWrite(f) == Close(Dup(Close(f, 0), P0(f)), P0(f))

\* The child on the left writes the pipe, the one on the right reads it.
LeftFiles(f) == Close(Close(Dup(Close(f, 1), P1(f)), P0(f)), P1(f))
RightFiles(f) == Close(Close(Dup(Close(f, 0), P0(f)), P0(f)), P1(f))

\* The shell itself uses neither end.
ParentFiles(f) == Close(Close(f, P0(f)), P1(f))

Pipe(x) ==
  \/ /\ Running(x, "PIPE")
     /\ fd' = [fd EXCEPT ![x] = NewPipe(x)] /\ pc' = [pc EXCEPT ![x] = "forkleft"]
     /\ UNCHANGED <<cmd, parent>>
  \/ pc[x] = "forkleft" /\ Fork(x, cmd[x].left, "left", "forkright")
  \/ pc[x] = "forkright" /\ Fork(x, cmd[x].right, "right", "closeboth")
  \/ /\ pc[x] \in {"left", "right", "closeboth"}
     /\ fd' = [fd EXCEPT ![x] = CASE pc[x] = "left" -> LeftFiles(@)
                                  [] pc[x] = "right" -> RightFiles(@)
                                  [] OTHER -> ParentFiles(@)]
     /\ pc' = [pc EXCEPT ![x] = IF @ = "closeboth" THEN "wait1" ELSE "run"]
     /\ UNCHANGED <<cmd, parent>>
  \/ Wait(x, "wait1", "wait2")
  \/ Wait(x, "wait2", "pipedone")
  \/ pc[x] = "pipedone" /\ Exited(x)

-----------------------------------------------------------------------------
(* Programs *)

AtEof(x) == fd[x][0][1] = "read" => ~Somebody(<<"write", fd[x][0][2]>>)
Drained(x) ==
  fd[x][1][1] = "write" =>
    LET r == <<"read", fd[x][1][2]>>
    IN ~Somebody(r) \/ \E y \in Proc : pc[y] = "program" /\ fd[y][0] = r

\* A program that has read everything and got rid of its output exits.  (One
\* that exits earlier leaves what one that exec() could not start leaves.)
Finish(x) == pc[x] = "program" /\ AtEof(x) /\ Drained(x) /\ Exited(x)

Step(x) == Reap(x) \/ Exec(x) \/ Redir(x) \/ List(x) \/ Back(x) \/ Pipe(x) \/ Finish(x)

Next == Prompt \/ MainWait \/ \E x \in Proc : Step(x)

Spec == Init /\ [][Next]_vars

\* While anybody can take a step, somebody does.  (Programs finish when they can;
\* a command makes finitely many steps, so no fairness to each process is needed.)
Fairness == WF_vars(MainWait \/ \E x \in Proc : Step(x))
FairSpec == Spec /\ Fairness

-----------------------------------------------------------------------------
(* Properties *)

\* The prompt comes back: nobody waits for an end of file that cannot come, for
\* a reader that does not read, or for a child that is not there.
PromptReturns == (pc[Sh] # "prompt") ~> (pc[Sh] = "prompt")
=============================================================================
