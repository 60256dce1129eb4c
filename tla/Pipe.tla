-------------------------------- MODULE Pipe --------------------------------
(***************************************************************************)
(* A pipe (pipe.c) and the two open files that refer to it (file.c), used  *)
(* by several processes on each end: read, write, close, fork, and kill.   *)
(*                                                                         *)
(* Every process holds one descriptor, for the end its set says.  A step   *)
(* is what happens between two points at which another process, or a       *)
(* kill(), which does not take p->lock, can be noticed.  sleep(chan,       *)
(* &p->lock) releases the lock and blocks in one step and wakeup() wakes   *)
(* all sleepers of the channel, as Ticks shows.                            *)
(***************************************************************************)
EXTENDS Integers, FiniteSets

CONSTANTS
  Writer, Reader,   \* processes with the write, the read end open
  Free,             \* p->lock is not held
  Byte, Nothing,    \* contents of a buffer cell
  Killable,         \* processes that kill() is called for
  Sizes,            \* numbers of bytes asked for
  PIPESIZE,
  WORD              \* size of the unsigned counters: 2^32 in the code

Process == Writer \cup Reader

ASSUME PipeAssumption ==
  /\ PIPESIZE \in Nat \ {0} /\ WORD \in Nat
  /\ WORD % PIPESIZE = 0 /\ WORD > PIPESIZE
  /\ Writer \cap Reader = {} /\ Free \notin Process
  /\ Killable \subseteq Process /\ IsFiniteSet(Process)
  /\ Sizes \subseteq Nat \ {0}

VARIABLES
  data, nread, nwrite, readopen, writeopen,   \* struct pipe
  lock,      \* the holder of p->lock
  freed,     \* kfree(p) was called
  ref,       \* reference counts of the two struct files
  pc,        \* where each process is
  n, i,      \* argument and loop index of piperead() and pipewrite()
  killed,    \* p->killed
  eof,       \* the readers whose last call returned 0
  got        \* the byte last copied by a read under way

pipeVars == <<data, nread, nwrite, readopen, writeopen, freed, ref>>
vars == <<data, nread, nwrite, readopen, writeopen, lock, freed, ref,
          pc, n, i, killed, eof, got>>

Init ==
  /\ data = [c \in 0..(PIPESIZE - 1) |-> Nothing]
  /\ nread = 0 /\ nwrite = 0
  /\ readopen = TRUE /\ writeopen = TRUE
  /\ lock = Free
  /\ freed = FALSE
  /\ ref = [e \in {"r", "w"} |-> Cardinality(IF e = "r" THEN Reader ELSE Writer)]
  /\ pc = [p \in Process |-> "user"]
  /\ n = [p \in Process |-> 0] /\ i = [p \in Process |-> 0]
  /\ killed = [p \in Process |-> FALSE]
  /\ eof = {}
  /\ got = [p \in Reader |-> Nothing]

\* Faulty variant of Full: one byte too many is let in.
FullLate == nwrite = (nread + PIPESIZE + 1) % WORD

Full == nwrite = (nread + PIPESIZE) % WORD
Empty == nread = nwrite

Goto(p, l) == pc' = [pc EXCEPT ![p] = l]

\* wakeup() of the sleepers in S, by p, which goes on to l.
Wakeup(S, p, l) ==
  pc' = [q \in Process |->
           IF q = p THEN l ELSE IF q \in S /\ pc[q] = "sleep" THEN "woken" ELSE pc[q]]

\* release(&p->lock) and return v; the loop variables die.
Return(p, v) ==
  /\ lock' = Free
  /\ eof' = IF p \in Reader /\ v = 0 THEN eof \cup {p} ELSE eof \ {p}
  /\ got' = [r \in Reader |-> IF r = p THEN Nothing ELSE got[r]]
  /\ n' = [n EXCEPT ![p] = 0]
  /\ i' = [i EXCEPT ![p] = 0]

-----------------------------------------------------------------------------
(* System calls, sleep() *)

\* read() or write(); trap() lets a killed process make no call.
Call(p) ==
  /\ pc[p] = "user" /\ ~killed[p]
  /\ \E k \in Sizes : n' = [n EXCEPT ![p] = k]
  /\ Goto(p, "acquire")
  /\ UNCHANGED <<pipeVars, lock, i, killed, eof, got>>

\* acquire(&p->lock), at the start of the call or in sleep() after a wakeup.
Acquire(p) ==
  /\ pc[p] \in {"acquire", "woken"} /\ lock = Free
  /\ lock' = p
  /\ Goto(p, "loop")
  /\ UNCHANGED <<pipeVars, n, i, killed, eof, got>>

\* The process checked that it is not killed and goes to sleep only now.
Sleep(p) ==
  /\ pc[p] = "tosleep"
  /\ lock' = Free
  /\ Goto(p, "sleep")
  /\ UNCHANGED <<pipeVars, n, i, killed, eof, got>>

-----------------------------------------------------------------------------
(* pipewrite() *)

WriteByte(p) ==
  /\ pc[p] = "loop" /\ i[p] < n[p] /\ ~Full
  /\ \E v \in Byte : data' = [data EXCEPT ![nwrite % PIPESIZE] = v]
  /\ nwrite' = (nwrite + 1) % WORD
  /\ i' = [i EXCEPT ![p] = @ + 1]
  /\ UNCHANGED <<nread, readopen, writeopen, lock, freed, ref, pc, n, killed, eof, got>>

\* The buffer is full, and nobody reads or the writer was killed: return -1.
WriteFail(p) ==
  /\ pc[p] = "loop" /\ i[p] < n[p] /\ Full /\ (~readopen \/ killed[p])
  /\ Return(p, -1)
  /\ Goto(p, "user")
  /\ UNCHANGED <<pipeVars, killed>>

\* The buffer is full: wakeup(&p->nread), then sleep.
WriteWait(p) ==
  /\ pc[p] = "loop" /\ i[p] < n[p] /\ Full /\ readopen /\ ~killed[p]
  /\ Wakeup(Reader, p, "tosleep")
  /\ UNCHANGED <<pipeVars, lock, n, i, killed, eof, got>>

\* All written: wakeup(&p->nread) and return n.
WriteDone(p) ==
  /\ pc[p] = "loop" /\ i[p] = n[p]
  /\ Wakeup(Reader, p, "user")
  /\ Return(p, n[p])
  /\ UNCHANGED <<pipeVars, killed>>

Write(p) == WriteByte(p) \/ WriteFail(p) \/ WriteWait(p) \/ WriteDone(p)

-----------------------------------------------------------------------------
(* piperead() *)

ReadFail(p) ==
  /\ pc[p] = "loop" /\ Empty /\ writeopen /\ killed[p]
  /\ Return(p, -1)
  /\ Goto(p, "user")
  /\ UNCHANGED <<pipeVars, killed>>

ReadWait(p) ==
  /\ pc[p] = "loop" /\ Empty /\ writeopen /\ ~killed[p]
  /\ Goto(p, "tosleep")
  /\ UNCHANGED <<pipeVars, lock, n, i, killed, eof, got>>

ReadStart(p) ==
  /\ pc[p] = "loop" /\ ~(Empty /\ writeopen)
  /\ Goto(p, "copy")
  /\ UNCHANGED <<pipeVars, lock, n, i, killed, eof, got>>

ReadByte(p) ==
  /\ pc[p] = "copy" /\ i[p] < n[p] /\ ~Empty
  /\ got' = [got EXCEPT ![p] = data[nread % PIPESIZE]]
  /\ nread' = (nread + 1) % WORD
  /\ i' = [i EXCEPT ![p] = @ + 1]
  /\ UNCHANGED <<data, nwrite, readopen, writeopen, lock, freed, ref, pc, n, killed, eof>>

\* Faulty variant of ReadDone: writers are not woken.
ReadDoneQuietly(p) ==
  /\ pc[p] = "copy" /\ (i[p] = n[p] \/ Empty)
  /\ Goto(p, "user")
  /\ Return(p, i[p])
  /\ UNCHANGED <<pipeVars, killed>>

\* wakeup(&p->nwrite) and return the number of bytes copied.
ReadDone(p) ==
  /\ pc[p] = "copy" /\ (i[p] = n[p] \/ Empty)
  /\ Wakeup(Writer, p, "user")
  /\ Return(p, i[p])
  /\ UNCHANGED <<pipeVars, killed>>

Read(p) == ReadFail(p) \/ ReadWait(p) \/ ReadStart(p) \/ ReadByte(p) \/ ReadDone(p)

-----------------------------------------------------------------------------
(* fileclose(), pipeclose(), filedup(), kill() *)

End(p) == IF p \in Writer THEN "w" ELSE "r"

\* close(), or exit(): fileclose() under ftable.lock.
FileClose(p) ==
  /\ pc[p] = "user"
  /\ ref' = [ref EXCEPT ![End(p)] = @ - 1]
  /\ Goto(p, IF ref[End(p)] = 1 THEN "pipeclose" ELSE "closed")
  /\ UNCHANGED <<data, nread, nwrite, readopen, writeopen, lock, freed, n, i, killed, eof, got>>

\* Faulty variants of PipeClose: the pipe is freed with its first end; the
\* other end is not woken.
PipeCloseFreesEarly(p) ==
  /\ pc[p] = "pipeclose" /\ lock = Free
  /\ IF p \in Writer
       THEN writeopen' = FALSE /\ UNCHANGED readopen /\ Wakeup(Reader, p, "closed")
       ELSE readopen' = FALSE /\ UNCHANGED writeopen /\ Wakeup(Writer, p, "closed")
  /\ freed' = TRUE
  /\ UNCHANGED <<data, nread, nwrite, lock, ref, n, i, killed, eof, got>>

PipeCloseQuietly(p) ==
  /\ pc[p] = "pipeclose" /\ lock = Free
  /\ IF p \in Writer
       THEN writeopen' = FALSE /\ UNCHANGED readopen
       ELSE readopen' = FALSE /\ UNCHANGED writeopen
  /\ Goto(p, "closed")
  /\ freed' = (~readopen' /\ ~writeopen')
  /\ UNCHANGED <<data, nread, nwrite, lock, ref, n, i, killed, eof, got>>

\* pipeclose(), all of it under p->lock but the kfree() at its end.
PipeClose(p) ==
  /\ pc[p] = "pipeclose" /\ lock = Free
  /\ IF p \in Writer
       THEN writeopen' = FALSE /\ UNCHANGED readopen /\ Wakeup(Reader, p, "closed")
       ELSE readopen' = FALSE /\ UNCHANGED writeopen /\ Wakeup(Writer, p, "closed")
  /\ freed' = (~readopen' /\ ~writeopen')
  /\ UNCHANGED <<data, nread, nwrite, lock, ref, n, i, killed, eof, got>>

\* fork() by p gives a new process, q, the same end: filedup().
FileDup(p, q) ==
  /\ pc[p] = "user" /\ ~killed[p] /\ pc[q] = "closed" /\ End(p) = End(q)
  /\ ref' = [ref EXCEPT ![End(p)] = @ + 1]
  /\ killed' = [killed EXCEPT ![q] = FALSE]
  /\ eof' = eof \ {q}
  /\ Goto(q, "user")
  /\ UNCHANGED <<data, nread, nwrite, readopen, writeopen, lock, freed, n, i, got>>

\* kill() sets p->killed and wakes the process if it is SLEEPING.
Kill(p) ==
  /\ p \in Killable /\ ~killed[p] /\ pc[p] # "closed"
  /\ killed' = [killed EXCEPT ![p] = TRUE]
  /\ pc' = [pc EXCEPT ![p] = IF @ = "sleep" THEN "woken" ELSE @]
  /\ UNCHANGED <<pipeVars, lock, n, i, eof, got>>

-----------------------------------------------------------------------------
InCall(p) ==
  Acquire(p) \/ Sleep(p) \/ (p \in Writer /\ Write(p)) \/ (p \in Reader /\ Read(p))

Next ==
  \E p \in Process :
    \/ Call(p) \/ InCall(p) \/ FileClose(p) \/ PipeClose(p) \/ Kill(p)
    \/ \E q \in Process : FileDup(p, q)

Spec == Init /\ [][Next]_vars

\* A process inside the kernel goes on; one that spins for p->lock gets it at
\* last.  Nothing makes a process start a call.
FairSpec == Spec /\ \A p \in Process : SF_vars(InCall(p)) /\ SF_vars(PipeClose(p))

-----------------------------------------------------------------------------
(* Properties *)

\* kfree(p) in pipeclose() comes after every use of the pipe: the reference
\* counts of the two files keep it while a process has it open, sleeps in it
\* or is about to close it.
NoUseAfterFree == freed => \A p \in Process : pc[p] = "closed"

\* A process sleeps on the pipe only while it has to: when nobody is in a
\* critical section, sleeping readers face an empty pipe with a writer left,
\* sleeping writers a full pipe with a reader left.
NoLostWakeup ==
  lock = Free =>
    /\ \A p \in Reader : pc[p] = "sleep" => Empty /\ writeopen
    /\ \A p \in Writer : pc[p] = "sleep" => Full /\ readopen

Queue == [k \in 1..((nwrite - nread) % WORD) |-> data[(nread + k - 1) % PIPESIZE]]

Bytes == INSTANCE Fifo WITH
           Capacity <- PIPESIZE,
           queue <- Queue,
           writable <- writeopen

\* The ring buffer with its free-running counters is a bounded FIFO queue, also
\* when they wrap around, for any number of readers and writers; read() returns
\* 0 only at the end of the file.
ImplementsFifo == Bytes!Spec

\* Once the last process closes one end, every call on the other end returns:
\* pipeclose() wakes them up.
ClosedReleases ==
  /\ \A p \in Reader : ~writeopen /\ pc[p] \in {"sleep", "woken"} ~> pc[p] = "user"
  /\ \A p \in Writer : ~readopen /\ pc[p] \in {"sleep", "woken"} ~> pc[p] = "user"
=============================================================================
