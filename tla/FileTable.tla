------------------------------ MODULE FileTable ------------------------------
(***************************************************************************)
(* Open files (file.c) and descriptors (sysfile.c): struct file is shared  *)
(* by reference counts, and every path of sys_open() and sys_pipe() that   *)
(* fails half way must give back what it has taken.                        *)
(*                                                                         *)
(* A step is a section under ftable.lock with what follows it up to the    *)
(* next one.  Inodes and pipes are tokens: use[o] counts the references    *)
(* that files hold to object o, which Inode and Pipe model.                *)
(***************************************************************************)
EXTENDS Integers, FiniteSets

CONSTANTS
  Proc, initproc,        \* processes; the first one, which does not exit
  NFILE, NOFILE,         \* open files of the system, of a process
  Object                 \* inodes and pipes; a pipe end is <<pipe, "r">> or <<pipe, "w">>

VARIABLES
  ref, obj,     \* struct file: f->ref and what it is (type with ip or pipe)
  ofile,        \* descriptors of each process
  active,       \* processes that exist
  st,           \* the call of each process
  use           \* references to inodes and pipe ends

vars == <<ref, obj, ofile, active, st, use>>

File == 1..NFILE
Fd == 0..(NOFILE - 1)
None == 0
FD_NONE == <<"none", "none">>
Inode == {o \in Object : o[2] = "i"}
Pipe == {o[1] : o \in Object \ Inode}
Idle == [pc |-> "idle", f |-> None, g |-> None, o |-> FD_NONE]

Init ==
  /\ ref = [f \in File |-> 0] /\ obj = [f \in File |-> FD_NONE]
  /\ active = {initproc}
  /\ ofile = [p \in Proc |-> [d \in Fd |-> None]]
  /\ st = [p \in Proc |-> Idle]
  /\ use = [o \in Object |-> 0]

At(p, l) == p \in active /\ st[p].pc = l
Goto(p, s) == st' = [st EXCEPT ![p] = s]

-----------------------------------------------------------------------------
(* file.c *)

\* filealloc(): the first file without references, if any.
Unused == {f \in File : ref[f] = 0}
First(S) == CHOOSE f \in S : \A g \in S : f <= g

\* Faulty variant of Closed: f->type stays.
ClosedTyped(f) == obj[f]

\* f->type of a file whose last reference goes
Closed(f) == FD_NONE

\* fileclose() under the lock: the last reference empties the file, and the caller
\* goes on with its copy.
Drop(f) ==
  /\ ref' = [ref EXCEPT ![f] = @ - 1]
  /\ obj' = [obj EXCEPT ![f] = IF ref[f] = 1 THEN Closed(f) ELSE @]
Copy(f) == IF ref[f] = 1 THEN obj[f] ELSE FD_NONE

\* The rest of fileclose(): pipeclose() or iput().
Released(o) == [x \in Object |-> IF x = o THEN use[x] - 1 ELSE use[x]]

-----------------------------------------------------------------------------
(* Descriptors *)

FreeFds(p) == {d \in Fd : ofile[p][d] = None}
Fdalloc(p, f) == ofile' = [ofile EXCEPT ![p][First(FreeFds(p))] = f]

\* sys_dup(): fdalloc(), then filedup().
Dup(p, d) ==
  /\ At(p, "idle") /\ ofile[p][d] # None /\ FreeFds(p) # {}
  /\ Fdalloc(p, ofile[p][d])
  /\ ref' = [ref EXCEPT ![ofile[p][d]] = @ + 1]
  /\ UNCHANGED <<obj, active, st, use>>

\* sys_close(), and one turn of the loop of exit()
Close(p, d) ==
  /\ ofile[p][d] # None
  /\ \/ At(p, "idle") /\ Goto(p, [Idle EXCEPT !.pc = "closed", !.o = Copy(ofile[p][d])])
     \/ At(p, "exit") /\ Goto(p, [Idle EXCEPT !.pc = "exitclosed", !.o = Copy(ofile[p][d])])
  /\ ofile' = [ofile EXCEPT ![p][d] = None]
  /\ Drop(ofile[p][d])
  /\ UNCHANGED <<active, use>>

\* fileclose() after the lock: the copy is used, the file may be in use again.
Fileclose(p) ==
  /\ \/ At(p, "closed") /\ Goto(p, Idle)
     \/ At(p, "exitclosed") /\ Goto(p, [Idle EXCEPT !.pc = "exit"])
  /\ use' = Released(st[p].o)
  /\ UNCHANGED <<ref, obj, ofile, active>>

\* fork(): the child duplicates every open file.
Fork(p, q) ==
  /\ At(p, "idle") /\ q \notin active
  /\ active' = active \cup {q}
  /\ ofile' = [ofile EXCEPT ![q] = ofile[p]]
  /\ ref' = [f \in File |-> ref[f] + Cardinality({d \in Fd : ofile[p][d] = f})]
  /\ UNCHANGED <<obj, st, use>>

Exit(p) ==
  /\ At(p, "idle") /\ p # initproc
  /\ Goto(p, [Idle EXCEPT !.pc = "exit"])
  /\ UNCHANGED <<ref, obj, ofile, active, use>>

Exited(p) ==
  /\ At(p, "exit") /\ FreeFds(p) = Fd
  /\ active' = active \ {p} /\ Goto(p, Idle)
  /\ UNCHANGED <<ref, obj, ofile, use>>

-----------------------------------------------------------------------------
(* sys_open() *)

\* namei() or create() has found an inode; then filealloc(), or iput().
Open(p, o) ==
  /\ At(p, "idle")
  /\ IF Unused = {} THEN UNCHANGED <<ref, st, use>>
     ELSE /\ ref' = [ref EXCEPT ![First(Unused)] = 1]
          /\ Goto(p, [pc |-> "open", f |-> First(Unused), g |-> None, o |-> o])
          /\ use' = [use EXCEPT ![o] = @ + 1]
  /\ UNCHANGED <<obj, ofile, active>>

\* fdalloc(); the file is filled in, or closed again and the inode put.
OpenFd(p) ==
  /\ At(p, "open")
  /\ LET f == st[p].f IN
     IF FreeFds(p) # {}
       THEN /\ Fdalloc(p, f) /\ obj' = [obj EXCEPT ![f] = st[p].o] /\ Goto(p, Idle)
            /\ UNCHANGED <<ref, use>>
       ELSE /\ Drop(f) /\ Goto(p, Idle) /\ UNCHANGED ofile
            /\ use' = [x \in Object |-> Released(Copy(f))[x] - (IF x = st[p].o THEN 1 ELSE 0)]
  /\ UNCHANGED active

-----------------------------------------------------------------------------
(* sys_pipe() and pipealloc() *)

\* The first filealloc()
Pipealloc(p) ==
  /\ At(p, "idle") /\ Unused # {}
  /\ ref' = [ref EXCEPT ![First(Unused)] = 1]
  /\ Goto(p, [pc |-> "pipe", f |-> First(Unused), g |-> None, o |-> FD_NONE])
  /\ UNCHANGED <<obj, ofile, active, use>>

\* The second one
Pipealloc2(p) ==
  /\ At(p, "pipe")
  /\ IF Unused = {} THEN Goto(p, [st[p] EXCEPT !.pc = "pipebad"]) /\ UNCHANGED ref
     ELSE /\ ref' = [ref EXCEPT ![First(Unused)] = 1]
          /\ Goto(p, [st[p] EXCEPT !.pc = "pipemem", !.g = First(Unused)])
  /\ UNCHANGED <<obj, ofile, active, use>>

\* kalloc() of a pipe that is not in use; the two files become its ends.
PipeMem(p) ==
  /\ At(p, "pipemem")
  /\ \/ Goto(p, [st[p] EXCEPT !.pc = "pipebad"]) /\ UNCHANGED <<obj, use>>
     \/ \E x \in Pipe :
          /\ use[<<x, "r">>] = 0 /\ use[<<x, "w">>] = 0
          /\ obj' = [obj EXCEPT ![st[p].f] = <<x, "r">>, ![st[p].g] = <<x, "w">>]
          /\ use' = [use EXCEPT ![<<x, "r">>] = 1, ![<<x, "w">>] = 1]
          /\ Goto(p, [st[p] EXCEPT !.pc = "pipefd"])
  /\ UNCHANGED <<ref, ofile, active>>

\* The descriptors after fdalloc() has failed: fd[0] is taken back.
Unassigned(p, files) == files

\* Two descriptors, or none and both files are closed.
PipeFd(p) ==
  /\ At(p, "pipefd")
  /\ IF Cardinality(FreeFds(p)) >= 2
       THEN /\ ofile' = [ofile EXCEPT ![p][First(FreeFds(p))] = st[p].f,
                                      ![p][First(FreeFds(p) \ {First(FreeFds(p))})] = st[p].g]
            /\ Goto(p, Idle)
       ELSE ofile' = Unassigned(p, ofile) /\ Goto(p, [st[p] EXCEPT !.pc = "pipebad"])
  /\ UNCHANGED <<ref, obj, active, use>>

\* fileclose() of both files, one after the other
PipeBad(p) ==
  /\ At(p, "pipebad")
  /\ LET f == st[p].f IN
       /\ Drop(f) /\ use' = Released(Copy(f))
       /\ Goto(p, IF st[p].g = None THEN Idle ELSE [st[p] EXCEPT !.f = st[p].g, !.g = None])
  /\ UNCHANGED <<ofile, active>>

-----------------------------------------------------------------------------
Next ==
  \E p \in Proc :
    \/ Exit(p) \/ Exited(p) \/ Fileclose(p) \/ OpenFd(p)
    \/ Pipealloc(p) \/ Pipealloc2(p) \/ PipeMem(p) \/ PipeFd(p) \/ PipeBad(p)
    \/ (\E d \in Fd : Dup(p, d) \/ Close(p, d))
    \/ (\E o \in Inode : Open(p, o))
    \/ (\E q \in Proc : Fork(p, q))

Spec == Init /\ [][Next]_vars

-----------------------------------------------------------------------------
(* Properties *)

\* The descriptors, as pairs of a process and a number, that refer to file f
Descs(f) == {x \in Proc \X Fd : ofile[x[1]][x[2]] = f}

\* f->ref counts the descriptors of all processes and the calls that hold the
\* file: no path that fails leaves a file taken, and none that is still in use is
\* given to somebody else.  What is open has one reference for each such file and
\* each call that is about to open or to close it: it is closed once, by whoever
\* drops the last reference, even if the file is taken again meanwhile.
FilesCounted ==
  /\ \A f \in File :
       ref[f] = Cardinality(Descs(f))
                + Cardinality({p \in Proc : st[p].f = f}) + Cardinality({p \in Proc : st[p].g = f})
  /\ \A o \in Object :
       use[o] = Cardinality({f \in File : ref[f] > 0 /\ obj[f] = o})
                + Cardinality({p \in Proc : st[p].o = o})
=============================================================================
