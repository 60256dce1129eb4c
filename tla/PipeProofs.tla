----------------------------- MODULE PipeProofs -----------------------------
(***************************************************************************)
(* An inductive invariant of Pipe, for any number of readers and writers,  *)
(* any size of the buffer and any size of the counters that the buffer's   *)
(* size divides; and what follows from it: the pipe is not used after it   *)
(* is freed, nobody sleeps in it without reason, and it is a bounded FIFO  *)
(* queue.                                                                  *)
(***************************************************************************)
EXTENDS Pipe, FiniteSetTheorems, TLAPS, Sequences

Label == {"user", "acquire", "loop", "copy", "tosleep", "sleep", "woken", "pipeclose", "closed"}

Types ==
  /\ data \in [0..(PIPESIZE - 1) -> Byte \cup {Nothing}]
  /\ nread \in 0..(WORD - 1) /\ nwrite \in 0..(WORD - 1)
  /\ readopen \in BOOLEAN /\ writeopen \in BOOLEAN /\ freed \in BOOLEAN
  /\ lock \in Process \cup {Free}
  /\ ref \in [{"r", "w"} -> Nat]
  /\ pc \in [Process -> Label]
  /\ n \in [Process -> Nat] /\ i \in [Process -> Nat]
  /\ killed \in [Process -> BOOLEAN]
  /\ eof \subseteq Reader
  /\ got \in [Reader -> Byte \cup {Nothing}]

\* The holder of p->lock is where the code holds it.
Locking ==
  \A p \in Process : /\ pc[p] \in {"loop", "copy", "tosleep"} <=> lock = p
                     /\ pc[p] = "copy" => p \in Reader

\* The processes of S that still have their descriptor.
Users(S) == {p \in S : pc[p] \notin {"pipeclose", "closed"}}

\* The reference count of the file of each end.
Counted == ref["r"] = Cardinality(Users(Reader)) /\ ref["w"] = Cardinality(Users(Writer))

\* An end is open while a process of S has it open; the last one to close its
\* descriptor, and no other, goes on to pipeclose().
EndOpen(S, open) ==
  /\ Users(S) # {} => open /\ \A p \in S : pc[p] # "pipeclose"
  /\ \A p \in S : pc[p] = "pipeclose" => open /\ \A q \in S \ {p} : pc[q] = "closed"

Ends ==
  /\ EndOpen(Reader, readopen) /\ EndOpen(Writer, writeopen)
  /\ freed = (~readopen /\ ~writeopen)

\* What the loops know of their arguments, and a reader of the pipe.
InLoop == {"acquire", "loop", "copy", "tosleep", "sleep", "woken"}
Loops ==
  /\ \A p \in Process : IF pc[p] \in InLoop THEN n[p] \in Sizes /\ i[p] <= n[p] ELSE i[p] = 0
  /\ \A p \in Process : killed[p] => p \in Killable
  /\ \A p \in Reader : /\ pc[p] = "copy" /\ i[p] = 0 => ~(Empty /\ writeopen)
                       /\ pc[p] # "copy" => got[p] = Nothing

\* The number of bytes in the buffer.
Count == (nwrite - nread) % WORD
Ring == Count <= PIPESIZE

\* A writer sleeps, or is about to, while the buffer is full and has a reader, or
\* while a reader is on its way to the wakeup() at the end of piperead().
WritersWait ==
  \A p \in Writer :
    /\ pc[p] = "tosleep" => Full /\ readopen
    /\ pc[p] = "sleep" => (Full /\ readopen) \/ \E q \in Reader : lock = q /\ pc[q] = "copy"

IInv == Types /\ Locking /\ Counted /\ Ends /\ Loops /\ Ring /\ WritersWait

\* The same of a reader: the buffer is empty and has a writer, or a writer is on
\* its way to one of the wakeups of pipewrite().
ReadersWait ==
  \A p \in Reader :
    /\ pc[p] = "tosleep" => Empty /\ writeopen
    /\ pc[p] = "sleep" => (Empty /\ writeopen) \/ \E q \in Writer : lock = q /\ pc[q] = "loop"

-----------------------------------------------------------------------------
\* The processes that have an end open are finitely many.
LEMMA UsersFinite ==
  ASSUME NEW S \in SUBSET Process
  PROVE  IsFiniteSet(Users(S)) /\ Cardinality(Users(S)) \in Nat
<1>1. Users(S) \in SUBSET Process
  BY Zenon DEF Users
<1> QED
  BY <1>1, PipeAssumption, FS_Subset, FS_CardinalityType, Zenon

\* A process that has its descriptor is counted.
LEMMA UserIsCounted ==
  ASSUME IInv, NEW p \in Process, pc[p] \notin {"pipeclose", "closed"}
  PROVE  /\ ref[End(p)] \in Nat \ {0}
         /\ p \in Reader => readopen
         /\ p \in Writer => writeopen
<1> USE PipeAssumption DEF Process
<1>1. CASE p \in Writer
  <2>1. p \in Users(Writer)
    BY <1>1, Zenon DEF Users
  <2>2. Cardinality(Users(Writer)) \in Nat \ {0}
    BY <2>1, UsersFinite, FS_EmptySet, Zenon
  <2> QED
    BY <1>1, <2>1, <2>2, Zenon DEF IInv, Counted, Ends, EndOpen, End
<1>2. CASE p \in Reader
  <2>1. p \in Users(Reader)
    BY <1>2, Zenon DEF Users
  <2>2. Cardinality(Users(Reader)) \in Nat \ {0}
    BY <2>1, UsersFinite, FS_EmptySet, Zenon
  <2> QED
    BY <1>2, <2>1, <2>2, Zenon DEF IInv, Counted, Ends, EndOpen, End
<1> QED
  BY <1>1, <1>2, Zenon

\* Types are kept.
LEMMA TypesKept ==
  ASSUME IInv, [Next]_vars
  PROVE  Types'
<1> USE PipeAssumption DEF Process, pipeVars
<1>1. ASSUME NEW p \in Process, Call(p) PROVE Types'
  BY <1>1, Zenon DEF IInv, Types, Label, Ring, Call, Goto
<1>2. ASSUME NEW p \in Process, Acquire(p) PROVE Types'
  BY <1>2, Zenon DEF IInv, Types, Label, Ring, Acquire, Goto
<1>3. ASSUME NEW p \in Process, Sleep(p) PROVE Types'
  BY <1>3, Zenon DEF IInv, Types, Label, Ring, Sleep, Goto
<1>4. ASSUME NEW p \in Process, p \in Writer /\ WriteByte(p) PROVE Types'
  BY <1>4 DEF IInv, Types, Label, Ring, WriteByte
<1>5. ASSUME NEW p \in Process, p \in Writer /\ WriteFail(p) PROVE Types'
  BY <1>5, Zenon DEF IInv, Types, Label, Ring, WriteFail, Return, Goto
<1>6. ASSUME NEW p \in Process, p \in Writer /\ WriteWait(p) PROVE Types'
  BY <1>6, Zenon DEF IInv, Types, Label, Ring, WriteWait, Wakeup
<1>7. ASSUME NEW p \in Process, p \in Writer /\ WriteDone(p) PROVE Types'
  BY <1>7, Zenon DEF IInv, Types, Label, Ring, WriteDone, Wakeup, Return
<1>8. ASSUME NEW p \in Process, p \in Reader /\ ReadFail(p) PROVE Types'
  BY <1>8, Zenon DEF IInv, Types, Label, Ring, ReadFail, Return, Goto
<1>9. ASSUME NEW p \in Process, p \in Reader /\ ReadWait(p) PROVE Types'
  BY <1>9, Zenon DEF IInv, Types, Label, Ring, ReadWait, Goto
<1>10. ASSUME NEW p \in Process, p \in Reader /\ ReadStart(p) PROVE Types'
  BY <1>10, Zenon DEF IInv, Types, Label, Ring, ReadStart, Goto
<1>11. ASSUME NEW p \in Process, p \in Reader /\ ReadByte(p) PROVE Types'
  BY <1>11 DEF IInv, Types, Label, Ring, ReadByte
<1>12. ASSUME NEW p \in Process, p \in Reader /\ ReadDone(p) PROVE Types'
  BY <1>12, Zenon DEF IInv, Types, Label, Ring, ReadDone, Wakeup, Return
<1>13. ASSUME NEW p \in Process, FileClose(p) PROVE Types'
  <2>1. ref[End(p)] \in Nat \ {0} /\ End(p) \in {"r", "w"}
    BY <1>13, UserIsCounted, Zenon DEF FileClose, End
  <2>2. ref' \in [{"r", "w"} -> Nat]
    BY <1>13, <2>1 DEF IInv, Types, FileClose
  <2> QED
    BY <1>13, <2>2, Zenon DEF IInv, Types, Label, FileClose, Goto
<1>14. ASSUME NEW p \in Process, PipeClose(p) PROVE Types'
  <2>1. (~readopen' /\ ~writeopen') \in BOOLEAN
    BY Zenon
  <2>2. freed' \in BOOLEAN
    BY <1>14, <2>1, Zenon DEF PipeClose
  <2>3. readopen' \in BOOLEAN /\ writeopen' \in BOOLEAN
    BY <1>14, Zenon DEF IInv, Types, PipeClose
  <2>4. pc' \in [Process -> Label]
    BY <1>14 DEF IInv, Types, Label, PipeClose, Wakeup
  <2> QED
    BY <1>14, <2>2, <2>3, <2>4, Zenon DEF IInv, Types, PipeClose
<1>15. ASSUME NEW p \in Process, Kill(p) PROVE Types'
  BY <1>15, Zenon DEF IInv, Types, Label, Ring, Kill
<1>16. ASSUME NEW p \in Process, \E q \in Process : FileDup(p, q) PROVE Types'
  <2> PICK q \in Process : FileDup(p, q)
    BY <1>16, Zenon
  <2>1. ref' \in [{"r", "w"} -> Nat]
    BY DEF IInv, Types, FileDup, End
  <2> QED
    BY <2>1, Zenon DEF IInv, Types, Label, FileDup, Goto
<1>17. CASE UNCHANGED vars
  BY <1>17, Zenon DEF IInv, Types, Label, Ring, vars
<1> QED
  BY <1>1, <1>2, <1>3, <1>4, <1>5, <1>6, <1>7, <1>8, <1>9, <1>10, <1>11, <1>12, <1>13,
     <1>14, <1>15, <1>16, <1>17, Zenon DEF Next, InCall, Write, Read

\* The holder of p->lock stays in step with the program counters.
LEMMA LockingKept ==
  ASSUME IInv, [Next]_vars
  PROVE  Locking'
<1> USE PipeAssumption DEF Process, pipeVars
<1>1. ASSUME NEW p \in Process, Call(p) PROVE Locking'
  BY <1>1, Zenon DEF IInv, Types, Locking, Label, Call, Goto
<1>2. ASSUME NEW p \in Process, Acquire(p) PROVE Locking'
  BY <1>2, Zenon DEF IInv, Types, Locking, Label, Acquire, Goto
<1>3. ASSUME NEW p \in Process, Sleep(p) PROVE Locking'
  BY <1>3, Zenon DEF IInv, Types, Locking, Label, Sleep, Goto
<1>4. ASSUME NEW p \in Process, p \in Writer /\ WriteByte(p) PROVE Locking'
  BY <1>4, Zenon DEF IInv, Types, Locking, Label, WriteByte
<1>5. ASSUME NEW p \in Process, p \in Writer /\ WriteFail(p) PROVE Locking'
  BY <1>5, Zenon DEF IInv, Types, Locking, Label, WriteFail, Return, Goto
<1>6. ASSUME NEW p \in Process, p \in Writer /\ WriteWait(p) PROVE Locking'
  BY <1>6, Zenon DEF IInv, Types, Locking, Label, WriteWait, Wakeup
<1>7. ASSUME NEW p \in Process, p \in Writer /\ WriteDone(p) PROVE Locking'
  BY <1>7, Zenon DEF IInv, Types, Locking, Label, WriteDone, Wakeup, Return
<1>8. ASSUME NEW p \in Process, p \in Reader /\ ReadFail(p) PROVE Locking'
  BY <1>8, Zenon DEF IInv, Types, Locking, Label, ReadFail, Return, Goto
<1>9. ASSUME NEW p \in Process, p \in Reader /\ ReadWait(p) PROVE Locking'
  BY <1>9, Zenon DEF IInv, Types, Locking, Label, ReadWait, Goto
<1>10. ASSUME NEW p \in Process, p \in Reader /\ ReadStart(p) PROVE Locking'
  BY <1>10, Zenon DEF IInv, Types, Locking, Label, ReadStart, Goto
<1>11. ASSUME NEW p \in Process, p \in Reader /\ ReadByte(p) PROVE Locking'
  BY <1>11, Zenon DEF IInv, Types, Locking, Label, ReadByte
<1>12. ASSUME NEW p \in Process, p \in Reader /\ ReadDone(p) PROVE Locking'
  BY <1>12, Zenon DEF IInv, Types, Locking, Label, ReadDone, Wakeup, Return
<1>13. ASSUME NEW p \in Process, FileClose(p) PROVE Locking'
  BY <1>13, Zenon DEF IInv, Types, Locking, Label, FileClose, Goto, End
<1>14. ASSUME NEW p \in Process, PipeClose(p) PROVE Locking'
  <2>1. /\ lock' = lock /\ pc'[p] = "closed"
        /\ \A q \in Process \ {p} : pc'[q] = pc[q] \/ (pc[q] = "sleep" /\ pc'[q] = "woken")
    BY <1>14, Zenon DEF PipeClose, Wakeup
  <2>2. pc[p] = "pipeclose"
    BY <1>14, Zenon DEF PipeClose
  <2> QED
    BY <2>1, <2>2, Zenon DEF IInv, Locking
<1>15. ASSUME NEW p \in Process, Kill(p) PROVE Locking'
  BY <1>15, Zenon DEF IInv, Types, Locking, Label, Kill
<1>16. ASSUME NEW p \in Process, \E q \in Process : FileDup(p, q) PROVE Locking'
  BY <1>16 DEF IInv, Types, Locking, Label, FileDup, Goto, End
<1>17. CASE UNCHANGED vars
  BY <1>17, Zenon DEF IInv, Types, Locking, Label, vars
<1> QED
  BY <1>1, <1>2, <1>3, <1>4, <1>5, <1>6, <1>7, <1>8, <1>9, <1>10, <1>11, <1>12, <1>13,
     <1>14, <1>15, <1>16, <1>17, Zenon DEF Next, InCall, Write, Read

\* What the loops know stays true: nobody else changes the pipe.
LEMMA LoopsKept ==
  ASSUME IInv, [Next]_vars
  PROVE  Loops'
<1> USE PipeAssumption DEF Process, pipeVars
<1>1. ASSUME NEW p \in Process, Call(p) PROVE Loops'
  <2> PICK k \in Sizes : n' = [n EXCEPT ![p] = k]
    BY <1>1, Zenon DEF Call
  <2>1. k \in Nat /\ 0 <= k /\ i[p] = 0
    BY <1>1 DEF IInv, Loops, InLoop, Call
  <2>2. pc' = [pc EXCEPT ![p] = "acquire"] /\ UNCHANGED <<nread, nwrite, writeopen, i, killed, got>>
    BY <1>1, Zenon DEF Call, Goto
  <2>3. pc[p] = "user"
    BY <1>1, Zenon DEF Call
  <2> QED
    BY <2>1, <2>2, <2>3, Zenon DEF IInv, Types, Loops, InLoop, Empty
<1>2. ASSUME NEW p \in Process, Acquire(p) PROVE Loops'
  BY <1>2, Zenon DEF IInv, Types, Label, Locking, Loops, InLoop, Empty, Ends, EndOpen, Users,
     Acquire, Goto
<1>3. ASSUME NEW p \in Process, Sleep(p) PROVE Loops'
  BY <1>3, Zenon DEF IInv, Types, Label, Locking, Loops, InLoop, Empty, Ends, EndOpen, Users, Sleep, Goto
<1>4. ASSUME NEW p \in Process, p \in Writer /\ WriteByte(p) PROVE Loops'
  BY <1>4 DEF IInv, Types, Label, Locking, Loops, InLoop, Empty, Ends, EndOpen, Users, WriteByte
<1>5. ASSUME NEW p \in Process, p \in Writer /\ WriteFail(p) PROVE Loops'
  BY <1>5, Zenon DEF IInv, Types, Label, Locking, Loops, InLoop, Empty, Ends, EndOpen, Users,
     WriteFail, Return, Goto
<1>6. ASSUME NEW p \in Process, p \in Writer /\ WriteWait(p) PROVE Loops'
  BY <1>6, Zenon DEF IInv, Types, Label, Locking, Loops, InLoop, Empty, Ends, EndOpen, Users,
     WriteWait, Wakeup
<1>7. ASSUME NEW p \in Process, p \in Writer /\ WriteDone(p) PROVE Loops'
  BY <1>7, Zenon DEF IInv, Types, Label, Locking, Loops, InLoop, Empty, Ends, EndOpen, Users,
     WriteDone, Wakeup, Return
<1>8. ASSUME NEW p \in Process, p \in Reader /\ ReadFail(p) PROVE Loops'
  BY <1>8, Zenon DEF IInv, Types, Label, Locking, Loops, InLoop, Empty, Ends, EndOpen, Users,
     ReadFail, Return, Goto
<1>9. ASSUME NEW p \in Process, p \in Reader /\ ReadWait(p) PROVE Loops'
  BY <1>9, Zenon DEF IInv, Types, Label, Locking, Loops, InLoop, Empty, Ends, EndOpen, Users,
     ReadWait, Goto
<1>10. ASSUME NEW p \in Process, p \in Reader /\ ReadStart(p) PROVE Loops'
  BY <1>10, Zenon DEF IInv, Types, Label, Locking, Loops, InLoop, Empty, Ends, EndOpen, Users,
     ReadStart, Goto
<1>11. ASSUME NEW p \in Process, p \in Reader /\ ReadByte(p) PROVE Loops'
  BY <1>11 DEF IInv, Types, Label, Locking, Loops, InLoop, Empty, Ends, EndOpen, Users, ReadByte
<1>12. ASSUME NEW p \in Process, p \in Reader /\ ReadDone(p) PROVE Loops'
  BY <1>12, Zenon DEF IInv, Types, Label, Locking, Loops, InLoop, Empty, Ends, EndOpen, Users,
     ReadDone, Wakeup, Return
<1>13. ASSUME NEW p \in Process, FileClose(p) PROVE Loops'
  BY <1>13, Zenon DEF IInv, Types, Label, Locking, Loops, InLoop, Empty, Ends, EndOpen, Users,
     FileClose, Goto, End
<1>14. ASSUME NEW p \in Process, PipeClose(p) PROVE Loops'
  <2>1. /\ lock = Free /\ pc[p] = "pipeclose" /\ pc'[p] = "closed"
        /\ UNCHANGED <<nread, nwrite, n, i, killed, got>>
        /\ \A q \in Process \ {p} : pc'[q] = pc[q] \/ (pc[q] = "sleep" /\ pc'[q] = "woken")
    BY <1>14, Zenon DEF PipeClose, Wakeup
  <2>2. \A q \in Process : pc[q] # "copy" /\ pc'[q] # "copy"
    BY <2>1, Zenon DEF IInv, Locking
  <2> QED
    BY <2>1, <2>2, Zenon DEF IInv, Loops, InLoop
<1>15. ASSUME NEW p \in Process, Kill(p) PROVE Loops'
  BY <1>15 DEF IInv, Types, Label, Locking, Loops, InLoop, Empty, Ends, EndOpen, Users, Kill
<1>16. ASSUME NEW p \in Process, \E q \in Process : FileDup(p, q) PROVE Loops'
  <2> PICK q \in Process : FileDup(p, q)
    BY <1>16, Zenon
  <2> QED
    BY Zenon DEF IInv, Types, Label, Locking, Loops, InLoop, Empty, Ends, EndOpen, Users,
       FileDup, Goto, End
<1>17. CASE UNCHANGED vars
  BY <1>17, Zenon DEF IInv, Types, Label, Locking, Loops, InLoop, Empty, Ends, EndOpen, Users, vars
<1> QED
  BY <1>1, <1>2, <1>3, <1>4, <1>5, <1>6, <1>7, <1>8, <1>9, <1>10, <1>11, <1>12, <1>13,
     <1>14, <1>15, <1>16, <1>17, Zenon DEF Next, InCall, Write, Read

-----------------------------------------------------------------------------
(* The two files and the two ends *)

\* What happens inside read(), write() and kill() leaves the ends alone.
Inner(p) == Call(p) \/ InCall(p) \/ Kill(p)

Gone == {"pipeclose", "closed"}

\* A step of a call leaves the ends and the descriptors alone.
LEMMA InnerLeavesEnds ==
  ASSUME IInv, NEW p \in Process, Inner(p)
  PROVE  /\ UNCHANGED <<ref, readopen, writeopen, freed>>
         /\ \A q \in Process : pc[q] \in Gone \/ pc'[q] \in Gone => pc'[q] = pc[q]
<1> USE DEF Process, pipeVars, Gone
<1>1. CASE Call(p)
  BY <1>1, Zenon DEF IInv, Types, Call, Goto
<1>2. CASE Acquire(p)
  BY <1>2, Zenon DEF IInv, Types, Acquire, Goto
<1>3. CASE Sleep(p)
  BY <1>3, Zenon DEF IInv, Types, Sleep, Goto
<1>4. CASE p \in Writer /\ WriteByte(p)
  BY <1>4, Zenon DEF IInv, Types, WriteByte
<1>5. CASE p \in Writer /\ WriteFail(p)
  BY <1>5, Zenon DEF IInv, Types, WriteFail, Return, Goto
<1>6. CASE p \in Writer /\ WriteWait(p)
  BY <1>6, Zenon DEF IInv, Types, WriteWait, Wakeup
<1>7. CASE p \in Writer /\ WriteDone(p)
  BY <1>7, Zenon DEF IInv, Types, WriteDone, Wakeup, Return
<1>8. CASE p \in Reader /\ ReadFail(p)
  BY <1>8, Zenon DEF IInv, Types, ReadFail, Return, Goto
<1>9. CASE p \in Reader /\ ReadWait(p)
  BY <1>9, Zenon DEF IInv, Types, ReadWait, Goto
<1>10. CASE p \in Reader /\ ReadStart(p)
  BY <1>10, Zenon DEF IInv, Types, ReadStart, Goto
<1>11. CASE p \in Reader /\ ReadByte(p)
  BY <1>11, Zenon DEF IInv, Types, ReadByte
<1>12. CASE p \in Reader /\ ReadDone(p)
  BY <1>12, Zenon DEF IInv, Types, ReadDone, Wakeup, Return
<1>13. CASE Kill(p)
  BY <1>13, Zenon DEF IInv, Types, Kill
<1> QED
  BY <1>1, <1>2, <1>3, <1>4, <1>5, <1>6, <1>7, <1>8, <1>9, <1>10, <1>11, <1>12, <1>13, Zenon DEF      Inner, InCall, Write, Read

\* The users of an end change only when somebody opens or closes a descriptor.
LEMMA SameUsers ==
  ASSUME NEW S \in SUBSET Process,
         \A q \in Process : pc[q] \in Gone <=> pc'[q] \in Gone
  PROVE  Users(S)' = Users(S)
BY DEF Users, Gone

\* The reference counts of the two files are kept.
LEMMA CountedKept ==
  ASSUME IInv, [Next]_vars
  PROVE  Counted'
<1> USE PipeAssumption DEF Process
<1>1. ASSUME NEW p \in Process, Inner(p) PROVE Counted'
  <2>1. Users(Reader)' = Users(Reader) /\ Users(Writer)' = Users(Writer)
    BY <1>1, InnerLeavesEnds, SameUsers
  <2> QED
    BY <1>1, <2>1, InnerLeavesEnds DEF IInv, Counted
<1>2. ASSUME NEW p \in Process, FileClose(p) PROVE Counted'
  <2>1. pc[p] = "user" /\ pc' = [pc EXCEPT ![p] = pc'[p]] /\ pc'[p] \in Gone
    BY <1>2, Zenon DEF IInv, Types, FileClose, Goto, Gone
  <2>2. CASE p \in Writer
    <3>1. Users(Writer)' = Users(Writer) \ {p} /\ Users(Reader)' = Users(Reader) /\ p \in Users(Writer)
      BY <2>1, <2>2 DEF IInv, Types, Users, Gone
    <3>2. Cardinality(Users(Writer)') = Cardinality(Users(Writer)) - 1
      BY <3>1, UsersFinite, FS_RemoveElement, ZenonT(60)
    <3> QED
      BY <1>2, <2>2, <3>1, <3>2 DEF IInv, Types, Counted, FileClose, End
  <2>3. CASE p \in Reader
    <3>1. Users(Reader)' = Users(Reader) \ {p} /\ Users(Writer)' = Users(Writer) /\ p \in Users(Reader)
      BY <2>1, <2>3 DEF IInv, Types, Users, Gone
    <3>2. Cardinality(Users(Reader)') = Cardinality(Users(Reader)) - 1
      BY <3>1, UsersFinite, FS_RemoveElement, ZenonT(60)
    <3> QED
      BY <1>2, <2>3, <3>1, <3>2 DEF IInv, Types, Counted, FileClose, End
  <2> QED
    BY <2>2, <2>3
<1>3. ASSUME NEW p \in Process, PipeClose(p) PROVE Counted'
  <2>1. \A q \in Process : pc[q] \in Gone <=> pc'[q] \in Gone
    BY <1>3 DEF PipeClose, Wakeup, Gone
  <2>2. Users(Reader)' = Users(Reader) /\ Users(Writer)' = Users(Writer)
    BY <2>1, SameUsers
  <2> QED
    BY <1>3, <2>2 DEF IInv, Counted, PipeClose
<1>4. ASSUME NEW p \in Process, NEW q \in Process, FileDup(p, q) PROVE Counted'
  <2>1. pc[q] = "closed" /\ pc' = [pc EXCEPT ![q] = "user"] /\ End(p) = End(q)
    BY <1>4 DEF FileDup, Goto
  <2>2. CASE q \in Writer
    <3>1. Users(Writer)' = Users(Writer) \cup {q} /\ Users(Reader)' = Users(Reader) /\ q \notin Users(Writer)
      BY <2>1, <2>2 DEF IInv, Types, Users
    <3>2. Cardinality(Users(Writer)') = Cardinality(Users(Writer)) + 1
      BY <3>1, UsersFinite, FS_AddElement, Zenon
    <3> QED
      BY <1>4, <2>1, <2>2, <3>1, <3>2 DEF IInv, Types, Counted, FileDup, End
  <2>3. CASE q \in Reader
    <3>1. Users(Reader)' = Users(Reader) \cup {q} /\ Users(Writer)' = Users(Writer) /\ q \notin Users(Reader)
      BY <2>1, <2>3 DEF IInv, Types, Users
    <3>2. Cardinality(Users(Reader)') = Cardinality(Users(Reader)) + 1
      BY <3>1, UsersFinite, FS_AddElement, Zenon
    <3> QED
      BY <1>4, <2>1, <2>3, <3>1, <3>2 DEF IInv, Types, Counted, FileDup, End
  <2> QED
    BY <2>2, <2>3
<1>5. CASE UNCHANGED vars
  BY <1>5 DEF IInv, Counted, Users, vars
<1> QED
  BY <1>1, <1>2, <1>3, <1>4, <1>5 DEF Next, Inner

\* An end stays open until the last of its processes runs pipeclose().
LEMMA EndsKept ==
  ASSUME IInv, [Next]_vars
  PROVE  Ends'
<1> USE PipeAssumption DEF Process
<1>1. ASSUME NEW p \in Process, Inner(p) PROVE Ends'
  <2>1. Users(Reader)' = Users(Reader) /\ Users(Writer)' = Users(Writer)
    BY <1>1, InnerLeavesEnds, SameUsers
  <2> QED
    BY <1>1, <2>1, InnerLeavesEnds DEF IInv, Ends, EndOpen, Gone
<1>2. ASSUME NEW p \in Process, FileClose(p) PROVE Ends'
  <2>1. pc[p] = "user" /\ pc' = [pc EXCEPT ![p] = IF ref[End(p)] = 1 THEN "pipeclose" ELSE "closed"]
    BY <1>2 DEF FileClose, Goto
  <2>2. UNCHANGED <<readopen, writeopen, freed>>
    BY <1>2 DEF FileClose
  <2>3. ASSUME NEW S \in {Reader, Writer}, NEW open, EndOpen(S, open), p \notin S
        PROVE  EndOpen(S, open)'
    BY <2>1, <2>3 DEF IInv, Types, EndOpen, Users
  <2>4. ASSUME NEW S \in {Reader, Writer}, NEW open, EndOpen(S, open), p \in S,
               ref[End(p)] = Cardinality(Users(S))
        PROVE  EndOpen(S, open)'
    <3>1. p \in Users(S) /\ open
      BY <2>1, <2>4 DEF Users, EndOpen
    <3>2. CASE ref[End(p)] = 1
      <4>1. Users(S) = {p}
        <5>1. PICK x : Users(S) = {x}
          BY <2>4, <3>2, UsersFinite, FS_Singleton, Zenon
        <5> QED
          BY <3>1, <5>1
      <4>2. \A q \in S \ {p} : pc[q] = "closed"
        BY <2>4, <4>1 DEF Users, EndOpen
      <4> QED
        BY <2>1, <2>4, <3>1, <3>2, <4>2 DEF IInv, Types, EndOpen, Users
    <3>3. CASE ref[End(p)] # 1
      BY <2>1, <2>4, <3>1, <3>3 DEF IInv, Types, EndOpen, Users
    <3> QED
      BY <3>2, <3>3
  <2>5. CASE p \in Writer
    <3>1. p \notin Reader /\ ref[End(p)] = Cardinality(Users(Writer))
      BY <2>5 DEF IInv, Counted, End
    <3> QED
      BY <2>2, <2>3, <2>4, <2>5, <3>1 DEF IInv, Ends
  <2>6. CASE p \in Reader
    <3>1. p \notin Writer /\ ref[End(p)] = Cardinality(Users(Reader))
      BY <2>6 DEF IInv, Counted, End
    <3> QED
      BY <2>2, <2>3, <2>4, <2>6, <3>1 DEF IInv, Ends
  <2> QED
    BY <2>5, <2>6
<1>3. ASSUME NEW p \in Process, PipeClose(p) PROVE Ends'
  <2>1. pc[p] = "pipeclose" /\ pc'[p] = "closed"
    BY <1>3 DEF PipeClose, Wakeup
  <2>2. \A q \in Process \ {p} : pc'[q] = pc[q] \/ (pc[q] = "sleep" /\ pc'[q] = "woken")
    BY <1>3 DEF PipeClose, Wakeup
  <2>3. freed' = (~readopen' /\ ~writeopen')
    BY <1>3, Zenon DEF PipeClose
  <2>4. ASSUME NEW S \in {Reader, Writer}, NEW open, EndOpen(S, open), p \notin S
        PROVE  EndOpen(S, open)'
    BY <2>1, <2>2, <2>4 DEF EndOpen, Users
  <2>5. ASSUME NEW S \in {Reader, Writer}, NEW open, EndOpen(S, open), p \in S
        PROVE  EndOpen(S, FALSE)'
    <3>1. \A q \in S : pc'[q] = "closed"
      BY <2>1, <2>2, <2>5 DEF EndOpen
    <3> QED
      BY <3>1 DEF EndOpen, Users
  <2>6. CASE p \in Writer
    <3>1. writeopen' = FALSE /\ readopen' = readopen /\ p \notin Reader
      BY <1>3, <2>6 DEF PipeClose
    <3> QED
      BY <2>3, <2>4, <2>5, <2>6, <3>1, Zenon DEF IInv, Ends
  <2>7. CASE p \in Reader
    <3>1. readopen' = FALSE /\ writeopen' = writeopen /\ p \notin Writer
      BY <1>3, <2>7 DEF PipeClose
    <3> QED
      BY <2>3, <2>4, <2>5, <2>7, <3>1, Zenon DEF IInv, Ends
  <2> QED
    BY <2>6, <2>7
<1>4. ASSUME NEW p \in Process, NEW q \in Process, FileDup(p, q) PROVE Ends'
  <2>1. pc[p] = "user" /\ pc[q] = "closed" /\ pc' = [pc EXCEPT ![q] = "user"]
    BY <1>4 DEF FileDup, Goto
  <2>2. p \in Writer <=> q \in Writer
    BY <1>4 DEF FileDup, End
  <2>3. UNCHANGED <<readopen, writeopen, freed>>
    BY <1>4 DEF FileDup
  <2>4. ASSUME NEW S \in {Reader, Writer}, NEW open, EndOpen(S, open), p \in S <=> q \in S
        PROVE  EndOpen(S, open)'
    <3>1. CASE p \in S
      <4>1. open /\ \A x \in S : pc[x] # "pipeclose"
        BY <2>1, <2>4, <3>1 DEF EndOpen, Users
      <4> QED
        BY <2>1, <4>1 DEF IInv, Types, EndOpen, Users
    <3>2. CASE p \notin S
      BY <2>1, <2>4, <3>2 DEF IInv, Types, EndOpen, Users
    <3> QED
      BY <3>1, <3>2
  <2> QED
    BY <2>2, <2>3, <2>4 DEF IInv, Ends
<1>5. CASE UNCHANGED vars
  BY <1>5 DEF IInv, Ends, EndOpen, Users, vars
<1> QED
  BY <1>1, <1>2, <1>3, <1>4, <1>5 DEF Next, Inner

-----------------------------------------------------------------------------
(* The ring buffer *)

\* The sizes, without the divisibility, which slows the provers down.
LEMMA WordSize == WORD \in Nat /\ PIPESIZE \in Nat /\ 0 < PIPESIZE /\ PIPESIZE < WORD
BY PipeAssumption

\* Unsigned arithmetic on the counters.
LEMMA Wrap ==
  ASSUME NEW x \in Int, -WORD <= x, x < WORD + WORD
  PROVE  x % WORD = IF x < 0 THEN x + WORD ELSE IF x < WORD THEN x ELSE x - WORD
<1>1. CASE x < 0
  BY <1>1, WordSize
<1>2. CASE 0 <= x /\ x < WORD
  BY <1>2, WordSize
<1>3. CASE WORD <= x
  BY <1>3, WordSize
<1> QED
  BY <1>1, <1>2, <1>3, WordSize

\* The difference of two counters.
LEMMA Difference ==
  ASSUME NEW a \in 0..(WORD - 1), NEW b \in 0..(WORD - 1)
  PROVE  (a - b) % WORD = IF a < b THEN a - b + WORD ELSE a - b
<1>1. a - b \in Int /\ -WORD <= a - b /\ a - b < WORD + WORD
  BY WordSize
<1> QED
  BY <1>1, Wrap, WordSize

\* The difference of the counters tells a full buffer from an empty one.
LEMMA RingFacts ==
  ASSUME Types, Ring
  PROVE  /\ Count \in 0..PIPESIZE
         /\ nwrite = nread + Count \/ nwrite = nread + Count - WORD
         /\ Full <=> Count = PIPESIZE
         /\ Empty <=> Count = 0
<1>1. nread \in 0..(WORD - 1) /\ nwrite \in 0..(WORD - 1)
  BY DEF Types
<1>2. Count = IF nwrite < nread THEN nwrite - nread + WORD ELSE nwrite - nread
  BY <1>1, Difference DEF Count
<1>3. (nread + PIPESIZE) % WORD = IF nread + PIPESIZE < WORD THEN nread + PIPESIZE ELSE nread + PIPESIZE - WORD
  <2>1. nread + PIPESIZE \in Int /\ -WORD <= nread + PIPESIZE /\ nread + PIPESIZE < WORD + WORD
    BY <1>1, WordSize
  <2> QED
    BY <1>1, <2>1, Wrap, WordSize
<1> QED
  BY <1>1, <1>2, <1>3, WordSize DEF Ring, Full, Empty

\* pipewrite() adds a byte, also when nwrite wraps around.
LEMMA PutCounts ==
  ASSUME Types, Ring, ~Full, nwrite' = (nwrite + 1) % WORD, nread' = nread
  PROVE  Count' = Count + 1
<1>1. nread \in 0..(WORD - 1) /\ nwrite \in 0..(WORD - 1)
  BY WordSize DEF Types
<1>2. nwrite' = IF nwrite + 1 < WORD THEN nwrite + 1 ELSE 0
  <2>1. nwrite + 1 \in Int /\ -WORD <= nwrite + 1 /\ nwrite + 1 < WORD + WORD
    BY <1>1, WordSize
  <2> QED
    BY <1>1, <2>1, Wrap, WordSize
<1>3. nwrite' \in 0..(WORD - 1)
  BY <1>1, <1>2, WordSize
<1>4. Count' = IF nwrite' < nread THEN nwrite' - nread + WORD ELSE nwrite' - nread
  BY <1>1, <1>3, Difference DEF Count
<1>5. Count < PIPESIZE
  BY RingFacts, WordSize
<1> QED
  BY <1>1, <1>2, <1>4, <1>5, RingFacts, WordSize

\* piperead() takes a byte, also when nread wraps around.
LEMMA GetCounts ==
  ASSUME Types, Ring, ~Empty, nread' = (nread + 1) % WORD, nwrite' = nwrite
  PROVE  Count' = Count - 1
<1>1. nread \in 0..(WORD - 1) /\ nwrite \in 0..(WORD - 1)
  BY WordSize DEF Types
<1>2. nread' = IF nread + 1 < WORD THEN nread + 1 ELSE 0
  <2>1. nread + 1 \in Int /\ -WORD <= nread + 1 /\ nread + 1 < WORD + WORD
    BY <1>1, WordSize
  <2> QED
    BY <1>1, <2>1, Wrap, WordSize
<1>3. nread' \in 0..(WORD - 1)
  BY <1>1, <1>2, WordSize
<1>4. Count' = IF nwrite < nread' THEN nwrite - nread' + WORD ELSE nwrite - nread'
  BY <1>1, <1>3, Difference DEF Count
<1>5. Count > 0
  BY RingFacts
<1> QED
  BY <1>1, <1>2, <1>4, <1>5, RingFacts, WordSize

\* The buffer never holds more than PIPESIZE bytes.
LEMMA RingKept ==
  ASSUME IInv, [Next]_vars
  PROVE  Ring'
<1> USE PipeAssumption DEF Process, pipeVars
<1>1. ASSUME NEW p \in Process, Call(p) PROVE Ring'
  BY <1>1 DEF IInv, Ring, Count, Call
<1>2. ASSUME NEW p \in Process, Acquire(p) PROVE Ring'
  BY <1>2 DEF IInv, Ring, Count, Acquire
<1>3. ASSUME NEW p \in Process, Sleep(p) PROVE Ring'
  BY <1>3 DEF IInv, Ring, Count, Sleep
<1>4. ASSUME NEW p \in Process, p \in Writer /\ WriteByte(p) PROVE Ring'
  <2>1. Count' = Count + 1 /\ Count < PIPESIZE
    BY <1>4, PutCounts, RingFacts DEF IInv, WriteByte
  <2> QED
    BY <2>1, RingFacts DEF IInv, Ring
<1>5. ASSUME NEW p \in Process, p \in Writer /\ WriteFail(p) PROVE Ring'
  BY <1>5 DEF IInv, Ring, Count, WriteFail
<1>6. ASSUME NEW p \in Process, p \in Writer /\ WriteWait(p) PROVE Ring'
  BY <1>6 DEF IInv, Ring, Count, WriteWait
<1>7. ASSUME NEW p \in Process, p \in Writer /\ WriteDone(p) PROVE Ring'
  BY <1>7 DEF IInv, Ring, Count, WriteDone
<1>8. ASSUME NEW p \in Process, p \in Reader /\ ReadFail(p) PROVE Ring'
  BY <1>8 DEF IInv, Ring, Count, ReadFail
<1>9. ASSUME NEW p \in Process, p \in Reader /\ ReadWait(p) PROVE Ring'
  BY <1>9 DEF IInv, Ring, Count, ReadWait
<1>10. ASSUME NEW p \in Process, p \in Reader /\ ReadStart(p) PROVE Ring'
  BY <1>10 DEF IInv, Ring, Count, ReadStart
<1>11. ASSUME NEW p \in Process, p \in Reader /\ ReadByte(p) PROVE Ring'
  <2>1. Count' = Count - 1
    BY <1>11, GetCounts DEF IInv, ReadByte
  <2> QED
    BY <2>1, RingFacts DEF IInv, Ring
<1>12. ASSUME NEW p \in Process, p \in Reader /\ ReadDone(p) PROVE Ring'
  BY <1>12 DEF IInv, Ring, Count, ReadDone
<1>13. ASSUME NEW p \in Process, FileClose(p) PROVE Ring'
  BY <1>13 DEF IInv, Ring, Count, FileClose
<1>14. ASSUME NEW p \in Process, PipeClose(p) PROVE Ring'
  BY <1>14 DEF IInv, Ring, Count, PipeClose
<1>15. ASSUME NEW p \in Process, Kill(p) PROVE Ring'
  BY <1>15 DEF IInv, Ring, Count, Kill
<1>16. ASSUME NEW p \in Process, \E q \in Process : FileDup(p, q) PROVE Ring'
  BY <1>16 DEF IInv, Ring, Count, FileDup
<1>17. CASE UNCHANGED vars
  BY <1>17 DEF IInv, Ring, Count, vars
<1> QED
  BY <1>1, <1>2, <1>3, <1>4, <1>5, <1>6, <1>7, <1>8, <1>9, <1>10, <1>11, <1>12, <1>13,
     <1>14, <1>15, <1>16, <1>17 DEF Next, InCall, Write, Read

\* Sleeping writers have a reason to sleep, or a reader will wake them.
LEMMA WritersWaitKept ==
  ASSUME IInv, [Next]_vars
  PROVE  WritersWait'
<1> USE PipeAssumption DEF Process, pipeVars
<1>1. ASSUME NEW p \in Process, Call(p) PROVE WritersWait'
  BY <1>1 DEF IInv, Types, Label, Locking, WritersWait, Full, Call, Goto
<1>2. ASSUME NEW p \in Process, Acquire(p) PROVE WritersWait'
  BY <1>2 DEF IInv, Types, Label, Locking, WritersWait, Full, Acquire, Goto
<1>3. ASSUME NEW p \in Process, Sleep(p) PROVE WritersWait'
  BY <1>3 DEF IInv, Types, Label, Locking, WritersWait, Full, Sleep, Goto
<1>4. ASSUME NEW p \in Process, p \in Writer /\ WriteByte(p) PROVE WritersWait'
  BY <1>4 DEF IInv, Types, Label, Locking, WritersWait, Full, WriteByte
<1>5. ASSUME NEW p \in Process, p \in Writer /\ WriteFail(p) PROVE WritersWait'
  BY <1>5 DEF IInv, Types, Label, Locking, WritersWait, Full, WriteFail, Return, Goto
<1>6. ASSUME NEW p \in Process, p \in Writer /\ WriteWait(p) PROVE WritersWait'
  BY <1>6 DEF IInv, Types, Label, Locking, WritersWait, Full, WriteWait, Wakeup
<1>7. ASSUME NEW p \in Process, p \in Writer /\ WriteDone(p) PROVE WritersWait'
  BY <1>7 DEF IInv, Types, Label, Locking, WritersWait, Full, WriteDone, Wakeup, Return
<1>8. ASSUME NEW p \in Process, p \in Reader /\ ReadFail(p) PROVE WritersWait'
  BY <1>8 DEF IInv, Types, Label, Locking, WritersWait, Full, ReadFail, Return, Goto
<1>9. ASSUME NEW p \in Process, p \in Reader /\ ReadWait(p) PROVE WritersWait'
  BY <1>9 DEF IInv, Types, Label, Locking, WritersWait, Full, ReadWait, Goto
<1>10. ASSUME NEW p \in Process, p \in Reader /\ ReadStart(p) PROVE WritersWait'
  BY <1>10 DEF IInv, Types, Label, Locking, WritersWait, Full, ReadStart, Goto
<1>11. ASSUME NEW p \in Process, p \in Reader /\ ReadByte(p) PROVE WritersWait'
  BY <1>11 DEF IInv, Types, Label, Locking, WritersWait, Full, ReadByte
<1>12. ASSUME NEW p \in Process, p \in Reader /\ ReadDone(p) PROVE WritersWait'
  BY <1>12 DEF IInv, Types, Label, Locking, WritersWait, Full, ReadDone, Wakeup, Return
<1>13. ASSUME NEW p \in Process, FileClose(p) PROVE WritersWait'
  BY <1>13 DEF IInv, Types, Label, Locking, WritersWait, Full, FileClose, Goto, End
<1>14. ASSUME NEW p \in Process, PipeClose(p) PROVE WritersWait'
  <2>1. CASE p \in Writer
    BY <1>14, <2>1 DEF IInv, Types, Label, Locking, WritersWait, Full, PipeClose, Wakeup
  <2>2. CASE p \in Reader
    BY <1>14, <2>2 DEF IInv, Types, Label, Locking, WritersWait, Full, PipeClose, Wakeup
  <2> QED
    BY <2>1, <2>2
<1>15. ASSUME NEW p \in Process, Kill(p) PROVE WritersWait'
  BY <1>15 DEF IInv, Types, Label, Locking, WritersWait, Full, Kill
<1>16. ASSUME NEW p \in Process, \E q \in Process : FileDup(p, q) PROVE WritersWait'
  <2> PICK q \in Process : FileDup(p, q)
    BY <1>16
  <2> QED
    BY DEF IInv, Types, Label, Locking, WritersWait, Full, FileDup, Goto, End
<1>17. CASE UNCHANGED vars
  BY <1>17 DEF IInv, Types, Label, Locking, WritersWait, Full, vars
<1> QED
  BY <1>1, <1>2, <1>3, <1>4, <1>5, <1>6, <1>7, <1>8, <1>9, <1>10, <1>11, <1>12, <1>13,
     <1>14, <1>15, <1>16, <1>17 DEF Next, InCall, Write, Read

\* Sleeping readers have a reason to sleep, or a writer will wake them.
LEMMA ReadersWaitKept ==
  ASSUME IInv, ReadersWait, Killable \cap Writer = {}, [Next]_vars
  PROVE  ReadersWait'
<1> USE PipeAssumption DEF Process, pipeVars
<1>1. ASSUME NEW p \in Process, Call(p) PROVE ReadersWait'
  BY <1>1 DEF IInv, Types, Label, Locking, ReadersWait, Empty, Call, Goto
<1>2. ASSUME NEW p \in Process, Acquire(p) PROVE ReadersWait'
  BY <1>2 DEF IInv, Types, Label, Locking, ReadersWait, Empty, Acquire, Goto
<1>3. ASSUME NEW p \in Process, Sleep(p) PROVE ReadersWait'
  BY <1>3 DEF IInv, Types, Label, Locking, ReadersWait, Empty, Sleep, Goto
<1>4. ASSUME NEW p \in Process, p \in Writer /\ WriteByte(p) PROVE ReadersWait'
  BY <1>4 DEF IInv, Types, Label, Locking, ReadersWait, Empty, WriteByte
<1>5. ASSUME NEW p \in Process, p \in Writer /\ WriteFail(p) PROVE ReadersWait'
  <2>1. ~killed[p]
    BY <1>5 DEF IInv, Loops
  <2>2. ~readopen
    BY <1>5, <2>1 DEF WriteFail
  <2>3. \A q \in Reader : pc[q] \in {"pipeclose", "closed"}
    BY <2>2, UserIsCounted
  <2>4. \A q \in Reader : pc'[q] = pc[q]
    BY <1>5 DEF IInv, Types, WriteFail, Goto
  <2> QED
    BY <2>3, <2>4 DEF ReadersWait
<1>6. ASSUME NEW p \in Process, p \in Writer /\ WriteWait(p) PROVE ReadersWait'
  BY <1>6 DEF IInv, Types, Label, Locking, ReadersWait, Empty, WriteWait, Wakeup
<1>7. ASSUME NEW p \in Process, p \in Writer /\ WriteDone(p) PROVE ReadersWait'
  BY <1>7 DEF IInv, Types, Label, Locking, ReadersWait, Empty, WriteDone, Wakeup, Return
<1>8. ASSUME NEW p \in Process, p \in Reader /\ ReadFail(p) PROVE ReadersWait'
  BY <1>8 DEF IInv, Types, Label, Locking, ReadersWait, Empty, ReadFail, Return, Goto
<1>9. ASSUME NEW p \in Process, p \in Reader /\ ReadWait(p) PROVE ReadersWait'
  BY <1>9 DEF IInv, Types, Label, Locking, ReadersWait, Empty, ReadWait, Goto
<1>10. ASSUME NEW p \in Process, p \in Reader /\ ReadStart(p) PROVE ReadersWait'
  BY <1>10 DEF IInv, Types, Label, Locking, ReadersWait, Empty, ReadStart, Goto
<1>11. ASSUME NEW p \in Process, p \in Reader /\ ReadByte(p) PROVE ReadersWait'
  BY <1>11 DEF IInv, Types, Label, Locking, ReadersWait, Empty, ReadByte
<1>12. ASSUME NEW p \in Process, p \in Reader /\ ReadDone(p) PROVE ReadersWait'
  BY <1>12 DEF IInv, Types, Label, Locking, ReadersWait, Empty, ReadDone, Wakeup, Return
<1>13. ASSUME NEW p \in Process, FileClose(p) PROVE ReadersWait'
  BY <1>13 DEF IInv, Types, Label, Locking, ReadersWait, Empty, FileClose, Goto, End
<1>14. ASSUME NEW p \in Process, PipeClose(p) PROVE ReadersWait'
  <2>1. /\ lock = Free /\ lock' = lock /\ pc'[p] = "closed" /\ UNCHANGED <<nread, nwrite>>
        /\ \A q \in Process \ {p} : pc'[q] = pc[q] \/ (pc[q] = "sleep" /\ pc'[q] = "woken")
    BY <1>14 DEF PipeClose, Wakeup
  <2>2. \A q \in Process : pc'[q] # "tosleep" /\ pc'[q] # "loop"
    BY <2>1 DEF IInv, Locking
  <2>3. CASE p \in Writer
    <3>1. \A q \in Reader : pc'[q] # "sleep"
      BY <1>14, <2>3 DEF PipeClose, Wakeup
    <3> QED
      BY <2>2, <3>1 DEF ReadersWait
  <2>4. CASE p \in Reader
    <3>1. writeopen' = writeopen
      BY <1>14, <2>4 DEF PipeClose
    <3> QED
      BY <2>1, <2>2, <2>4, <3>1 DEF ReadersWait, Empty
  <2> QED
    BY <2>3, <2>4
<1>15. ASSUME NEW p \in Process, Kill(p) PROVE ReadersWait'
  BY <1>15 DEF IInv, Types, Label, Locking, ReadersWait, Empty, Kill
<1>16. ASSUME NEW p \in Process, \E q \in Process : FileDup(p, q) PROVE ReadersWait'
  <2> PICK q \in Process : FileDup(p, q)
    BY <1>16
  <2> QED
    BY DEF IInv, Types, Label, Locking, ReadersWait, Empty, FileDup, Goto, End
<1>17. CASE UNCHANGED vars
  BY <1>17 DEF IInv, Types, Label, Locking, ReadersWait, Empty, vars
<1> QED
  BY <1>1, <1>2, <1>3, <1>4, <1>5, <1>6, <1>7, <1>8, <1>9, <1>10, <1>11, <1>12, <1>13,
     <1>14, <1>15, <1>16, <1>17 DEF Next, InCall, Write, Read

-----------------------------------------------------------------------------
\* The initial states satisfy the invariant.
LEMMA InitHolds == Init => IInv /\ ReadersWait
<1> SUFFICES ASSUME Init PROVE IInv /\ ReadersWait
  OBVIOUS
<1> USE PipeAssumption DEF Process
<1>1. Users(Reader) = Reader /\ Users(Writer) = Writer
  BY DEF Init, Users
<1>2. /\ IsFiniteSet(Reader) /\ Cardinality(Reader) \in Nat
      /\ IsFiniteSet(Writer) /\ Cardinality(Writer) \in Nat
  BY <1>1, UsersFinite
<1>3. Types
  <2>1. nread \in 0..(WORD - 1) /\ nwrite \in 0..(WORD - 1)
    BY WordSize DEF Init
  <2>2. ref \in [{"r", "w"} -> Nat]
    BY <1>2 DEF Init
  <2>3. data \in [0..(PIPESIZE - 1) -> Byte \cup {Nothing}]
    BY DEF Init
  <2> QED
    BY <2>1, <2>2, <2>3, Zenon DEF Init, Types, Label
<1>4. Locking
  BY DEF Init, Locking
<1>5. Counted
  BY <1>1 DEF Init, Counted
<1>6. Ends
  BY Zenon DEF Init, Ends, EndOpen
<1>7. Loops
  BY DEF Init, Loops, InLoop
<1>8. Ring
  <2>1. Count = 0
    BY Difference, WordSize DEF Init, Count
  <2> QED
    BY <2>1, WordSize DEF Ring
<1>9. WritersWait /\ ReadersWait
  BY DEF Init, WritersWait, ReadersWait
<1> QED
  BY <1>3, <1>4, <1>5, <1>6, <1>7, <1>8, <1>9 DEF IInv

\* Every step keeps the invariant.
LEMMA StepKeeps == IInv /\ [Next]_vars => IInv'
BY TypesKept, LockingKept, CountedKept, EndsKept, LoopsKept, RingKept, WritersWaitKept DEF IInv

\* The inductive invariant of the pipe holds in every reachable state: the
\* descriptors are counted, a file's last descriptor closes its end, the
\* free-running counters differ by at most PIPESIZE, and a sleeping writer has a
\* reason to sleep or a reader on its way to wake it up.
THEOREM Invariance == Spec => []IInv
<1>1. Init => IInv
  BY InitHolds
<1> QED
  BY <1>1, StepKeeps, PTL DEF Spec

-----------------------------------------------------------------------------
\* kfree(p) in pipeclose() comes after every use of the pipe, however the closes
\* of the two ends, fork(), kill() and the calls under way interleave.
THEOREM FreedLast == Spec => []NoUseAfterFree
<1>1. IInv => NoUseAfterFree
  <2> SUFFICES ASSUME IInv, freed, NEW p \in Process PROVE pc[p] = "closed"
    BY Zenon DEF NoUseAfterFree
  <2>1. ~readopen /\ ~writeopen
    BY Zenon DEF IInv, Ends
  <2>2. pc[p] \in {"pipeclose", "closed"}
    BY <2>1, UserIsCounted, Zenon DEF Process
  <2> QED
    BY <2>1, <2>2, Zenon DEF IInv, Ends, EndOpen, Process
<1> QED
  BY <1>1, Invariance, PTL

\* When nobody is in a critical section, a sleeping writer faces a full pipe with a
\* reader left.
WritersWoken == lock = Free => \A p \in Writer : pc[p] = "sleep" => Full /\ readopen

\* The writers' half of NoLostWakeup needs no assumption on kill(): a reader that has
\* taken a byte leaves piperead() through its wakeup(&p->nwrite), killed or not.
THEOREM WritersNotLost == Spec => []WritersWoken
<1>1. IInv => WritersWoken
  BY PipeAssumption, Zenon DEF IInv, WritersWait, WritersWoken, Process
<1> QED
  BY <1>1, Invariance, PTL

\* If no writer is killed, nobody sleeps in the pipe without reason: pipewrite()
\* wakes the readers on every path by which a writer that is not killed gives up
\* the lock.  The hypothesis is needed, since a killed writer returns without the
\* wakeup() (run pipe_kill).
THEOREM NoneLost ==
  ASSUME Killable \cap Writer = {}
  PROVE  Spec => []NoLostWakeup
<1>1. Init => IInv /\ ReadersWait
  BY InitHolds, Zenon
<1>2. IInv /\ ReadersWait /\ [Next]_vars => (IInv /\ ReadersWait)'
  BY StepKeeps, ReadersWaitKept, Zenon
<1>3. IInv /\ ReadersWait => NoLostWakeup
  BY PipeAssumption, Zenon DEF IInv, WritersWait, ReadersWait, NoLostWakeup, Process
<1> QED
  BY <1>1, <1>2, <1>3, PTL DEF Spec

-----------------------------------------------------------------------------
(* The pipe implements Fifo *)

\* Division with remainder.
LEMMA DivMod ==
  ASSUME NEW P \in Nat \ {0}, NEW a \in Int
  PROVE  /\ a \div P \in Int /\ a % P \in 0..(P - 1)
         /\ a = P * (a \div P) + (a % P)
OBVIOUS

\* A multiple of P is at least P away from 0, or is 0.
LEMMA Times ==
  ASSUME NEW P \in Nat \ {0}, NEW e \in Int
  PROVE  /\ e >= 1 => P * e >= P
         /\ e <= -1 => P * e <= -P
         /\ e = 0 => P * e = 0
OBVIOUS

\* The remainder is unique.
LEMMA Unique ==
  ASSUME NEW P \in Nat \ {0}, NEW d \in Int, NEW e \in Int, NEW r \in 0..(P - 1), NEW s \in 0..(P - 1),
         P * d + r = P * e + s
  PROVE  r = s
<1>1. P * (d - e) = s - r
  OBVIOUS
<1>2. d - e \in Int
  OBVIOUS
<1> QED
  BY <1>1, <1>2, Times

\* Adding a multiple of P does not change the remainder.
LEMMA Shift ==
  ASSUME NEW P \in Nat \ {0}, NEW a \in Int, NEW w \in Int, w % P = 0
  PROVE  (a + w) % P = a % P
<1>1. PICK q \in Int : w = P * q
  <2>1. w \div P \in Int /\ w = P * (w \div P) + 0
    BY DivMod, Zenon
  <2>2. w = P * (w \div P)
    BY <2>1
  <2> QED
    BY <2>1, <2>2, Zenon
<1>2. PICK d \in Int, r \in 0..(P - 1) : a = P * d + r /\ r = a % P
  BY DivMod, Zenon
<1>3. PICK e \in Int, s \in 0..(P - 1) : a + w = P * e + s /\ s = (a + w) % P
  <2>1. a + w \in Int
    OBVIOUS
  <2> HIDE <1>1, <1>2
  <2> QED
    BY <2>1, DivMod, Zenon
<1>4. P * (d + q) + r = P * e + s
  <2>1. P * (d + q) = P * d + P * q
    <3> HIDE <1>1, <1>2, <1>3
    <3> QED
      BY SMT
  <2>2. PICK x \in Int, y \in Int, z \in Int : x = P * d /\ y = P * q /\ z = P * e
    OBVIOUS
  <2>3. w = y /\ a = x + r /\ a + w = z + s
    BY <1>1, <1>2, <1>3, <2>2, Zenon
  <2>4. (x + y) + r = z + s
    BY <2>3
  <2> QED
    BY <2>1, <2>2, <2>4, Zenon
<1>5. d + q \in Int
  OBVIOUS
<1>6. r = s
  BY <1>4, <1>5, Unique, Zenon
<1> QED
  BY <1>2, <1>3, <1>6, Zenon

\* Numbers less than P apart have different remainders.
LEMMA Apart ==
  ASSUME NEW P \in Nat \ {0}, NEW a \in Int, NEW b \in Int, a < b, b < a + P
  PROVE  a % P # b % P
<1> SUFFICES ASSUME a % P = b % P PROVE FALSE
  BY Zenon
<1>1. PICK d \in Int, r \in 0..(P - 1) : a = P * d + r /\ r = a % P
  BY DivMod, Zenon
<1>2. PICK e \in Int, s \in 0..(P - 1) : b = P * e + s /\ s = b % P
  BY DivMod, Zenon
<1>3. r = s
  BY <1>1, <1>2, Zenon
<1>4. P * (e - d) = b - a
  BY <1>1, <1>2, <1>3
<1>5. PICK f \in Int : f = e - d
  OBVIOUS
<1>6. 0 < P * f /\ P * f < P
  BY <1>4, <1>5
<1> QED
  BY <1>6, Times

\* A cell that the buffer's indices name.
LEMMA CellType ==
  ASSUME NEW a \in Int
  PROVE  a % PIPESIZE \in 0..(PIPESIZE - 1)
BY WordSize, DivMod

\* Counters that differ by the size of a word name the same cell.
LEMMA SameCell ==
  ASSUME NEW a \in Int
  PROVE  (a + WORD) % PIPESIZE = a % PIPESIZE /\ (a - WORD) % PIPESIZE = a % PIPESIZE
<1>1. PIPESIZE \in Nat \ {0} /\ WORD \in Int /\ WORD % PIPESIZE = 0
  BY PipeAssumption
<1>2. (a + WORD) % PIPESIZE = a % PIPESIZE
  BY <1>1, Shift, Zenon
<1>3. PICK b \in Int : b = a - WORD
  BY <1>1
<1>4. (b + WORD) % PIPESIZE = b % PIPESIZE
  BY <1>1, Shift, Zenon
<1>5. b + WORD = a
  BY <1>1, <1>3
<1> QED
  BY <1>2, <1>3, <1>4, <1>5, Zenon

\* A function that extends a sequence by one element appends it.
LEMMA Appended ==
  ASSUME NEW S, NEW m \in Nat, NEW f \in [1..m -> S], NEW g \in [1..(m + 1) -> S],
         \A k \in 1..m : g[k] = f[k]
  PROVE  f \in Seq(S) /\ Len(f) = m /\ g = Append(f, g[m + 1])
OBVIOUS

\* A function shifted by one drops the first element.
LEMMA Shifted ==
  ASSUME NEW S, NEW m \in Nat, NEW f \in [1..(m + 1) -> S], NEW g \in [1..m -> S],
         \A k \in 1..m : g[k] = f[k + 1]
  PROVE  f # <<>> /\ Head(f) = f[1] /\ g = Tail(f)
OBVIOUS

\* The bytes in the buffer, as a function of their position.
LEMMA Cells ==
  ASSUME NEW S, NEW d \in [0..(PIPESIZE - 1) -> S], NEW r \in Int, NEW m \in Nat,
         NEW f, f = [k \in 1..m |-> d[(r + k - 1) % PIPESIZE]]
  PROVE  f \in [1..m -> S]
<1> SUFFICES ASSUME NEW k \in 1..m PROVE (r + k - 1) % PIPESIZE \in 0..(PIPESIZE - 1)
  BY Zenon
<1>1. r + k - 1 \in Int
  OBVIOUS
<1> QED
  BY <1>1, CellType, Zenon

\* A counter counts on, or wraps around.
LEMMA Advance ==
  ASSUME NEW x \in 0..(WORD - 1)
  PROVE  (x + 1) % WORD = x + 1 \/ (x + 1) % WORD = x + 1 - WORD
<1>1. PICK y \in Int : y = x + 1
  BY WordSize
<1>2. -WORD <= y /\ y < WORD + WORD /\ ~(y < 0)
  BY <1>1, WordSize
<1>3. y % WORD = y \/ y % WORD = y - WORD
  BY <1>2, Wrap, Zenon
<1> QED
  BY <1>1, <1>3, WordSize

\* Storing a byte at nwrite appends it to the queue: the cell is none of those
\* that hold the unread bytes, also when a counter has wrapped around.
LEMMA PutAppends ==
  ASSUME Types, Ring, Count < PIPESIZE, data' \in [0..(PIPESIZE - 1) -> Byte \cup {Nothing}],
         Count' = Count + 1, nread' = nread,
         NEW v, data' = [data EXCEPT ![nwrite % PIPESIZE] = v]
  PROVE  Len(Queue) < PIPESIZE /\ Queue' = Append(Queue, v)
<1>1. Count \in Nat
  BY RingFacts, WordSize
<1>2. nread \in Int /\ nwrite \in Int /\ WORD \in Int /\ PIPESIZE \in Nat \ {0}
  BY WordSize DEF Types
<1>3. nwrite % PIPESIZE = (nread + Count) % PIPESIZE
  <2>1. PICK a \in Int : a = nread + Count
    BY <1>1, <1>2
  <2>2. nwrite = a \/ nwrite = a - WORD
    <3>1. nwrite = nread + Count \/ nwrite = nread + Count - WORD
      BY RingFacts, Zenon
    <3> QED
      BY <1>1, <1>2, <2>1, <3>1
  <2>3. nwrite % PIPESIZE = a % PIPESIZE
    BY <2>2, SameCell, Zenon
  <2> QED
    BY <2>1, <2>3, Zenon
<1>4. nwrite % PIPESIZE \in DOMAIN data
  BY <1>2, CellType, Zenon DEF Types
<1>5. \A k \in 1..Count : Queue'[k] = Queue[k]
  <2> SUFFICES ASSUME NEW k \in 1..Count PROVE Queue'[k] = Queue[k]
    BY Zenon
  <2>1. PICK a \in Int, b \in Int : a = nread + k - 1 /\ b = nread + Count
    BY <1>1, <1>2
  <2>2. a < b /\ b < a + PIPESIZE
    BY <1>1, <1>2, <2>1
  <2>3. a % PIPESIZE # b % PIPESIZE
    BY <1>2, <2>2, Apart, Zenon
  <2>4. data'[a % PIPESIZE] = data[a % PIPESIZE]
    BY <1>2, <1>3, <2>1, <2>3, CellType, Zenon DEF Types
  <2>5. k \in 1..(Count + 1)
    BY <1>1
  <2>6. Queue[k] = data[a % PIPESIZE]
    BY <2>1, Zenon DEF Queue, Count
  <2>7. Queue'[k] = data'[a % PIPESIZE]
    BY <1>1, <2>1, <2>5, Zenon DEF Queue, Count
  <2> QED
    BY <2>4, <2>6, <2>7, Zenon
<1>6. Queue'[Count + 1] = v
  <2>1. PICK j \in 1..(Count + 1) : j = Count + 1
    BY <1>1
  <2>2. nread + j - 1 = nread + Count
    BY <1>1, <1>2, <2>1
  <2>3. Queue'[j] = data'[(nread + j - 1) % PIPESIZE]
    BY <1>1, Zenon DEF Queue, Count
  <2> QED
    BY <1>3, <1>4, <2>1, <2>2, <2>3, Zenon
<1>7. Queue \in [1..Count -> Byte \cup {Nothing}] /\ Queue' \in [1..(Count + 1) -> Byte \cup {Nothing}]
  <2>1. Count + 1 \in Nat /\ data \in [0..(PIPESIZE - 1) -> Byte \cup {Nothing}]
    BY <1>1 DEF Types
  <2>2. Queue = [k \in 1..Count |-> data[(nread + k - 1) % PIPESIZE]]
    BY Zenon DEF Queue, Count
  <2>3. Queue' = [k \in 1..(Count + 1) |-> data'[(nread + k - 1) % PIPESIZE]]
    BY DEF Queue, Count
  <2>4. Queue \in [1..Count -> Byte \cup {Nothing}]
    BY <1>1, <1>2, <2>1, <2>2, Cells
  <2>5. Queue' \in [1..(Count + 1) -> Byte \cup {Nothing}]
    BY <1>1, <1>2, <2>1, <2>3, Cells
  <2> QED
    BY <2>4, <2>5, Zenon
<1>8. Len(Queue) = Count /\ Queue' = Append(Queue, Queue'[Count + 1])
  BY <1>1, <1>5, <1>7, Appended
<1> QED
  BY <1>1, <1>6, <1>8, Zenon

\* Taking the byte at nread takes the first of the queue.
LEMMA GetTakes ==
  ASSUME Types, Ring, Count # 0, Count' = Count - 1, data' = data,
         nread' = nread + 1 \/ nread' = nread + 1 - WORD
  PROVE  Queue # <<>> /\ Head(Queue) = data[nread % PIPESIZE] /\ Queue' = Tail(Queue)
<1>1. PICK m \in Nat : Count = m + 1 /\ Count' = m
  <2>1. Count \in Nat \ {0}
    BY RingFacts, WordSize
  <2> QED
    BY <2>1
<1>2. nread \in Int /\ nread' \in Int /\ WORD \in Int /\ PIPESIZE \in Nat \ {0}
  BY WordSize DEF Types
<1>3. Queue = [k \in 1..(m + 1) |-> data[(nread + k - 1) % PIPESIZE]]
  BY <1>1, Zenon DEF Queue, Count
<1>4. Queue' = [k \in 1..m |-> data[(nread' + k - 1) % PIPESIZE]]
  BY <1>1, Zenon DEF Queue, Count
<1>5. \A k \in 1..m : Queue'[k] = Queue[k + 1]
  <2> SUFFICES ASSUME NEW k \in 1..m PROVE Queue'[k] = Queue[k + 1]
    BY Zenon
  <2>1. PICK a \in Int : a = nread + k
    BY <1>2
  <2>2. nread' + k - 1 = a \/ nread' + k - 1 = a - WORD
    <3>1. CASE nread' = nread + 1
      BY <1>2, <2>1, <3>1
    <3>2. CASE nread' = nread + 1 - WORD
      BY <1>2, <2>1, <3>2
    <3> QED
      BY <3>1, <3>2, Zenon
  <2>3. (nread' + k - 1) % PIPESIZE = a % PIPESIZE
    BY <2>2, SameCell, Zenon
  <2>4. PICK j \in 1..(m + 1) : j = k + 1
    OBVIOUS
  <2>5. nread + j - 1 = a
    BY <1>2, <2>1, <2>4
  <2>6. Queue[j] = data[a % PIPESIZE]
    BY <1>3, <2>5, Zenon
  <2>7. Queue'[k] = data[(nread' + k - 1) % PIPESIZE]
    BY <1>4, Zenon
  <2> QED
    BY <2>3, <2>4, <2>6, <2>7, Zenon
<1>6. Queue[1] = data[nread % PIPESIZE]
  <2>1. PICK j \in 1..(m + 1) : j = 1
    OBVIOUS
  <2>2. nread + j - 1 = nread
    BY <1>2, <2>1
  <2> QED
    BY <1>3, <2>1, <2>2, Zenon
<1>7. Queue \in [1..(m + 1) -> Byte \cup {Nothing}] /\ Queue' \in [1..m -> Byte \cup {Nothing}]
  <2>1. m + 1 \in Nat /\ data \in [0..(PIPESIZE - 1) -> Byte \cup {Nothing}]
    BY DEF Types
  <2>2. Queue \in [1..(m + 1) -> Byte \cup {Nothing}]
    BY <1>2, <1>3, <2>1, Cells
  <2>3. Queue' \in [1..m -> Byte \cup {Nothing}]
    <3>1. PICK r \in Int : r = nread'
      BY <1>2, Zenon
    <3>2. Queue' = [k \in 1..m |-> data[(r + k - 1) % PIPESIZE]]
      BY <1>4, <3>1, Zenon
    <3>3. ASSUME NEW k \in 1..m PROVE data[(r + k - 1) % PIPESIZE] \in Byte \cup {Nothing}
      <4>1. PICK c \in Int : c = r + k - 1
        OBVIOUS
      <4>2. c % PIPESIZE \in 0..(PIPESIZE - 1)
        BY CellType, Zenon
      <4> QED
        BY <2>1, <4>1, <4>2, Zenon
    <3> QED
      BY <3>2, <3>3, Zenon
  <2> QED
    BY <2>2, <2>3, Zenon
<1> QED
  BY <1>5, <1>6, <1>7, Shifted

\* The queue is empty when the counters are equal.
LEMMA EmptyQueue ==
  ASSUME Types, Ring, Empty
  PROVE  Queue = <<>>
<1>1. Count = 0
  BY RingFacts, Zenon
<1>2. Queue = [k \in 1..0 |-> data[(nread + k - 1) % PIPESIZE]]
  BY <1>1, Zenon DEF Queue, Count
<1> QED
  BY <1>2

\* Steps that leave the buffer alone.
LEMMA SameQueue ==
  ASSUME UNCHANGED <<data, nread, nwrite>>
  PROVE  Queue' = Queue
BY Zenon DEF Queue

\* Every step of the pipe is a step of the queue, or leaves it unchanged.
LEMMA StepRefines ==
  ASSUME IInv, IInv', [Next]_vars
  PROVE  [Bytes!Next]_(Bytes!vars)
<1>1. ASSUME NEW p \in Process, Call(p) PROVE [Bytes!Next]_(Bytes!vars)
  BY <1>1, SameQueue, Zenon DEF Call, pipeVars, Bytes!vars
<1>2. ASSUME NEW p \in Process, Acquire(p) PROVE [Bytes!Next]_(Bytes!vars)
  BY <1>2, SameQueue, Zenon DEF Acquire, pipeVars, Bytes!vars
<1>3. ASSUME NEW p \in Process, Sleep(p) PROVE [Bytes!Next]_(Bytes!vars)
  BY <1>3, SameQueue, Zenon DEF Sleep, pipeVars, Bytes!vars
<1>4. ASSUME NEW p \in Process, p \in Writer /\ WriteByte(p) PROVE [Bytes!Next]_(Bytes!vars)
  <2>1. PICK v \in Byte : data' = [data EXCEPT ![nwrite % PIPESIZE] = v]
    BY <1>4, Zenon DEF WriteByte
  <2>2. Count' = Count + 1 /\ Count < PIPESIZE
    <3>1. Types /\ Ring /\ ~Full /\ nwrite' = (nwrite + 1) % WORD /\ nread' = nread
      BY <1>4, Zenon DEF IInv, WriteByte
    <3> QED
      BY <3>1, PutCounts, RingFacts, WordSize
  <2>4. Len(Queue) < PIPESIZE /\ Queue' = Append(Queue, v)
    <3>1. Types /\ Ring /\ nread' = nread /\ data' \in [0..(PIPESIZE - 1) -> Byte \cup {Nothing}]
      BY <1>4, Zenon DEF WriteByte, IInv, Types
    <3> QED
      BY <2>1, <2>2, <3>1, PutAppends, Zenon
  <2>3. writeopen
    BY <1>4, UserIsCounted, Zenon DEF WriteByte
  <2> QED
    BY <1>4, <2>3, <2>4, Zenon DEF WriteByte, Bytes!Put, Bytes!Next
<1>5. ASSUME NEW p \in Process, p \in Writer /\ WriteFail(p) PROVE [Bytes!Next]_(Bytes!vars)
  <2>1. p \notin Reader
    BY <1>5, PipeAssumption, Zenon
  <2>2. eof' = eof
    BY <1>5, <2>1 DEF WriteFail, Return, IInv, Types
  <2>3. got' = got
    BY <1>5, <2>1 DEF WriteFail, Return, IInv, Types
  <2> QED
    BY <1>5, <2>2, <2>3, SameQueue, Zenon DEF WriteFail, pipeVars, Bytes!vars
<1>6. ASSUME NEW p \in Process, p \in Writer /\ WriteWait(p) PROVE [Bytes!Next]_(Bytes!vars)
  BY <1>6, SameQueue, Zenon DEF WriteWait, pipeVars, Bytes!vars
<1>7. ASSUME NEW p \in Process, p \in Writer /\ WriteDone(p) PROVE [Bytes!Next]_(Bytes!vars)
  <2>1. p \notin Reader
    BY <1>7, PipeAssumption, Zenon
  <2>2. eof' = eof
    BY <1>7, <2>1 DEF WriteDone, Return, IInv, Types
  <2>3. got' = got
    BY <1>7, <2>1 DEF WriteDone, Return, IInv, Types
  <2> QED
    BY <1>7, <2>2, <2>3, SameQueue, Zenon DEF WriteDone, pipeVars, Bytes!vars
<1>8. ASSUME NEW p \in Process, p \in Reader /\ ReadFail(p) PROVE [Bytes!Next]_(Bytes!vars)
  <2>1. eof' = eof \ {p}
    BY <1>8 DEF ReadFail, Return
  <2>2. got' = [got EXCEPT ![p] = Nothing]
    BY <1>8, Zenon DEF ReadFail, Return, IInv, Types
  <2>3. Bytes!Done(p, FALSE)
    BY <1>8, <2>1, <2>2, SameQueue, Zenon DEF ReadFail, pipeVars, Bytes!Done
  <2> QED
    BY <1>8, <2>3, Zenon DEF Bytes!Next
<1>9. ASSUME NEW p \in Process, p \in Reader /\ ReadWait(p) PROVE [Bytes!Next]_(Bytes!vars)
  BY <1>9, SameQueue, Zenon DEF ReadWait, pipeVars, Bytes!vars
<1>10. ASSUME NEW p \in Process, p \in Reader /\ ReadStart(p) PROVE [Bytes!Next]_(Bytes!vars)
  BY <1>10, SameQueue, Zenon DEF ReadStart, pipeVars, Bytes!vars
<1>11. ASSUME NEW p \in Process, p \in Reader /\ ReadByte(p) PROVE [Bytes!Next]_(Bytes!vars)
  <2>1. Queue # <<>> /\ Head(Queue) = data[nread % PIPESIZE] /\ Queue' = Tail(Queue)
    <3>1. Types /\ Ring /\ data' = data /\ nread \in 0..(WORD - 1)
      BY <1>11, Zenon DEF ReadByte, IInv, Types
    <3>2. Count' = Count - 1 /\ Count # 0
      <4>1. Types /\ Ring /\ ~Empty /\ nread' = (nread + 1) % WORD /\ nwrite' = nwrite
        BY <1>11, Zenon DEF IInv, ReadByte
      <4> QED
        BY <4>1, GetCounts, RingFacts, Zenon
    <3>3. nread' = nread + 1 \/ nread' = nread + 1 - WORD
      BY <1>11, <3>1, Advance, Zenon DEF ReadByte
    <3> QED
      BY <3>1, <3>2, <3>3, GetTakes, Zenon
  <2>2. Bytes!Get(p)
    BY <1>11, <2>1, Zenon DEF ReadByte, Bytes!Get
  <2> QED
    BY <1>11, <2>2, Zenon DEF Bytes!Next
<1>12. ASSUME NEW p \in Process, p \in Reader /\ ReadDone(p) PROVE [Bytes!Next]_(Bytes!vars)
  <2>1. i[p] = 0 => Empty /\ ~writeopen
    <3>1. n[p] \in Sizes
      BY <1>12, Zenon DEF ReadDone, IInv, Loops, InLoop
    <3>2. n[p] # 0
      BY <3>1, PipeAssumption, Zenon
    <3> QED
      BY <1>12, <3>2, Zenon DEF ReadDone, IInv, Loops
  <2>2. i[p] = 0 => Queue = <<>> /\ ~writeopen
    BY <2>1, EmptyQueue, Zenon DEF IInv
  <2>3. eof' = IF i[p] = 0 THEN eof \cup {p} ELSE eof \ {p}
    BY <1>12, Zenon DEF ReadDone, Return
  <2>4. got' = [got EXCEPT ![p] = Nothing]
    BY <1>12, Zenon DEF ReadDone, Return, IInv, Types
  <2>5. Queue' = Queue /\ writeopen' = writeopen
    BY <1>12, SameQueue, Zenon DEF ReadDone, pipeVars
  <2>6. CASE i[p] = 0
    <3>1. Bytes!Done(p, TRUE)
      BY <2>2, <2>3, <2>4, <2>5, <2>6, Zenon DEF Bytes!Done
    <3> QED
      BY <1>12, <3>1, Zenon DEF Bytes!Next
  <2>7. CASE i[p] # 0
    <3>1. Bytes!Done(p, FALSE)
      BY <2>3, <2>4, <2>5, <2>7, Zenon DEF Bytes!Done
    <3> QED
      BY <1>12, <3>1, Zenon DEF Bytes!Next
  <2> QED
    BY <2>6, <2>7, Zenon
<1>13. ASSUME NEW p \in Process, FileClose(p) PROVE [Bytes!Next]_(Bytes!vars)
  BY <1>13, SameQueue, Zenon DEF FileClose, pipeVars, Bytes!vars
<1>14. ASSUME NEW p \in Process, PipeClose(p) PROVE [Bytes!Next]_(Bytes!vars)
  <2>1. Queue' = Queue /\ UNCHANGED <<got, eof>>
    BY <1>14, SameQueue, Zenon DEF PipeClose
  <2>2. CASE p \in Writer
    BY <1>14, <2>1, <2>2, Zenon DEF PipeClose, Bytes!CloseWrite, Bytes!Next
  <2>3. CASE p \notin Writer
    BY <1>14, <2>1, <2>3, Zenon DEF PipeClose, Bytes!vars
  <2> QED
    BY <2>2, <2>3, Zenon
<1>15. ASSUME NEW p \in Process, Kill(p) PROVE [Bytes!Next]_(Bytes!vars)
  BY <1>15, SameQueue, Zenon DEF Kill, pipeVars, Bytes!vars
<1>16. ASSUME NEW p \in Process, \E q \in Process : FileDup(p, q) PROVE [Bytes!Next]_(Bytes!vars)
  <2> PICK q \in Process : FileDup(p, q)
    BY <1>16, Zenon
  <2>1. Queue' = Queue /\ UNCHANGED <<got, writeopen>> /\ eof' = eof \ {q} /\ pc[q] = "closed"
    BY SameQueue, Zenon DEF FileDup
  <2>2. CASE q \in Reader
    <3>1. got[q] = Nothing
      BY <2>1, <2>2, Zenon DEF IInv, Loops
    <3>2. got' = [got EXCEPT ![q] = Nothing]
      BY <2>1, <2>2, <3>1, Zenon DEF IInv, Types
    <3>3. Bytes!Done(q, FALSE)
      BY <2>1, <3>2, Zenon DEF Bytes!Done
    <3> QED
      BY <2>2, <3>3, Zenon DEF Bytes!Next
  <2>3. CASE q \notin Reader
    <3>1. eof \subseteq Reader
      BY Zenon DEF IInv, Types
    <3>2. eof' = eof
      BY <2>1, <2>3, <3>1, Zenon
    <3> QED
      BY <2>1, <3>2, Zenon DEF Bytes!vars
  <2> QED
    BY <2>2, <2>3, Zenon
<1>17. CASE UNCHANGED vars
  BY <1>17, SameQueue, Zenon DEF vars, Bytes!vars
<1> QED
  BY <1>1, <1>2, <1>3, <1>4, <1>5, <1>6, <1>7, <1>8, <1>9, <1>10, <1>11, <1>12, <1>13,
     <1>14, <1>15, <1>16, <1>17, Zenon DEF Next, InCall, Write, Read

\* The ring buffer of pipe.c, with its free-running counters that wrap around, is a
\* bounded FIFO queue for any number of readers and writers; a read returns 0 only
\* when all bytes were read and no writer is left.
THEOREM PipeIsFifo == Spec => ImplementsFifo
<1>1. Init => Bytes!Init
  <2> SUFFICES ASSUME Init PROVE Bytes!Init
    BY Zenon
  <2>1. Queue = <<>>
    BY InitHolds, EmptyQueue, Zenon DEF Init, Empty, IInv
  <2> QED
    BY <2>1, Zenon DEF Init, Bytes!Init
<1>2. IInv /\ IInv' /\ [Next]_vars => [Bytes!Next]_(Bytes!vars)
  BY StepRefines, Zenon
<1> QED
  BY <1>1, <1>2, Invariance, PTL DEF Spec, ImplementsFifo, Bytes!Spec
=============================================================================
