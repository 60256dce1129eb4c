----------------------------- MODULE LogProofs ------------------------------
(***************************************************************************)
(* Proofs about Log, for every number of processes and blocks, every       *)
(* MAXOPBLOCKS, LOGSIZE and SIZE: its inductive invariant, so that the     *)
(* header of the log is never overrun and nobody waits in begin_op()       *)
(* without somebody to wake it up; and as long as write_log() stays inside *)
(* the log, transactions are atomic across crashes, of the running system  *)
(* and of the recovery.                                                    *)
(***************************************************************************)
EXTENDS Log, FiniteSetTheorems, TLAPS

\* initlog() is over; panic() leaves everything as it was.
Live == sys \in {"up", "halted"}

Label == {"idle", "begin", "sleep", "op", "check", "append", "write_log", "install", "done"}

\* The processes in commit(), or in end_op() after it.
Committer == {p \in Proc : pc[p] \in {"write_log", "install", "done"}}

\* Who is where in begin_op(), log_write(), end_op() and commit().
Control ==
  /\ ~Live => outstanding = 0 /\ ~committing /\ \A p \in Proc : pc[p] = "idle"
  /\ \A p \in Proc : IF pc[p] \in {"check", "append"}
                       THEN buf[p] \in Block /\ buf[p] \in wrote[p]
                       ELSE buf[p] = NoBlock
  /\ committing <=> Committer # {}
  /\ \A p, q \in Committer : p = q
  /\ committing => Operations = {}
  /\ Live /\ ~committing /\ Operations = {} => lh = <<>>
  /\ \A p \in Proc : pc[p] = "done" => lh = <<>>

\* The blocks of p's operation that have a place in the header.
Placed(p) == {b \in wrote[p] : Logged(b)}

\* The places that the operations under way may still need.
Owed == {t \in Operations \X (1..MAXOPBLOCKS) : t[2] + Cardinality(Placed(t[1])) <= MAXOPBLOCKS}

\* The header has room for them, and so has its copy on the disk.
Counted ==
  /\ IsFiniteSet(Operations) /\ outstanding = Cardinality(Operations)
  /\ \A p \in Proc : IsFiniteSet(wrote[p]) /\ Cardinality(wrote[p]) <= MAXOPBLOCKS
  /\ Len(lh) + Cardinality(Owed) <= LOGSIZE /\ Len(dhead) <= LOGSIZE

Distinct(s) == \A i, j \in 1..Len(s) : s[i] = s[j] => i = j

\* A block is at home up to tail.
Installed == \A i \in 1..Len(lh) : i < tail => home[lh[i]] = dlog[i]

\* What the copies of a block have to do with each other, while the log fits.
Copies ==
  /\ Distinct(lh) /\ Distinct(dhead) /\ Len(dhead) < SIZE
  /\ Live => \A b \in Block : cache[b] = home[b] \/ Logged(b) \/ \E p \in Proc : buf[p] = b
  /\ Live /\ (\A p \in Proc : pc[p] # "install") => dhead = <<>>
  /\ \A p \in Proc : pc[p] = "write_log" => \A i \in 1..Len(lh) : i < tail => dlog[i] = cache[lh[i]]
  /\ \A p \in Proc : pc[p] = "install" =>
       dhead = lh /\ Installed /\ \A i \in 1..Len(lh) : dlog[i] = cache[lh[i]]
  /\ ~Live => cache = home
  /\ sys = "read_head" => lh = <<>> /\ tail = 1
  /\ sys = "install" => lh = dhead /\ Installed

\* What holds of every log,
Base == TypeOK /\ Control /\ Counted /\ NoStrandedSleeper

\* and of one that write_log() does not leave.
IInv == Base /\ Copies

\* A step preserves both.
Kept == Base' /\ (Copies /\ OnDiskFits => Copies')

-----------------------------------------------------------------------------
(* What the actions have in common *)

\* A block of the log that is inside it.
LEMMA Inside ==
  ASSUME NEW i \in Nat, i < SIZE, NEW f, NEW v
  PROVE  LogBlock(i, f) = dlog[i] /\ PastEnd(f, i, v) = f
BY Zenon DEF LogBlock, PastEnd

\* Where a step of p, with or without wakeup(&log), leaves the processes.
LEMMA Moves ==
  ASSUME TypeOK, NEW p \in Proc, NEW l \in Label, Goto(p, l) \/ Wakeup(p, l)
  PROVE  /\ pc' \in [Proc -> Label] /\ pc'[p] = l
         /\ \A q \in Proc \ {p} : pc'[q] = pc[q] \/ (pc[q] = "sleep" /\ pc'[q] = "begin")
         /\ l \in {"op", "check", "append"} => Operations' = Operations \cup {p}
         /\ l \notin {"op", "check", "append"} => Operations' = Operations \ {p}
         /\ l \in {"write_log", "install", "done"} => Committer' = Committer \cup {p}
         /\ l \notin {"write_log", "install", "done"} => Committer' = Committer \ {p}
<1>1. pc \in [Proc -> Label]
  BY Zenon DEF TypeOK, Label
<1>2. pc' \in [Proc -> Label] /\ pc'[p] = l
  BY <1>1, Zenon DEF Goto, Wakeup, Label
<1>3. \A q \in Proc \ {p} : pc'[q] = pc[q] \/ (pc[q] = "sleep" /\ pc'[q] = "begin")
  BY <1>1, Zenon DEF Goto, Wakeup
<1>4. \A q \in Proc \ {p} : /\ q \in Operations' <=> q \in Operations
                            /\ q \in Committer' <=> q \in Committer
  BY <1>3, Zenon DEF Operations, Committer
<1>5. /\ p \in Operations' <=> l \in {"op", "check", "append"}
      /\ p \in Committer' <=> l \in {"write_log", "install", "done"}
  BY <1>2, Zenon DEF Operations, Committer
<1>6. Operations \subseteq Proc /\ Operations' \subseteq Proc
  BY Zenon DEF Operations
<1>7. Committer \subseteq Proc /\ Committer' \subseteq Proc
  BY Zenon DEF Committer
<1>8. /\ l \in {"op", "check", "append"} => Operations' = Operations \cup {p}
      /\ l \notin {"op", "check", "append"} => Operations' = Operations \ {p}
  BY <1>4, <1>5, <1>6, Zenon
<1>9. /\ l \in {"write_log", "install", "done"} => Committer' = Committer \cup {p}
      /\ l \notin {"write_log", "install", "done"} => Committer' = Committer \ {p}
  BY <1>4, <1>5, <1>7, Zenon
<1> QED
  BY <1>2, <1>3, <1>8, <1>9, Zenon

\* Nobody is in two places.
LEMMA Apart ==
  ASSUME NEW p \in Proc
  PROVE  /\ p \in Operations <=> pc[p] \in {"op", "check", "append"}
         /\ p \in Committer <=> pc[p] \in {"write_log", "install", "done"}
BY Zenon DEF Operations, Committer

\* The count of the header does not depend on anything else.
LEMMA CountedSame ==
  ASSUME Counted, Operations' = Operations, lh' = lh, wrote' = wrote, outstanding' = outstanding,
         Len(dhead') <= LOGSIZE
  PROVE  Counted'
<1>1. Owed' = Owed
  BY Zenon DEF Owed, Placed, Logged
<1> QED
  BY <1>1, Zenon DEF Counted

\* Nor do the copies.
LEMMA CopiesSame ==
  ASSUME Copies, UNCHANGED <<home, dlog, dhead, cache, lh, tail, buf>>, Live, Live',
         \A p \in Proc : /\ pc'[p] = "write_log" <=> pc[p] = "write_log"
                         /\ pc'[p] = "install" <=> pc[p] = "install"
  PROVE  Copies'
<1>1. Installed' <=> Installed
  BY Zenon DEF Installed
<1>2. Distinct(lh)' /\ Distinct(dhead)' /\ Len(dhead') < SIZE
  BY DEF Copies, Distinct
<1>3. \A b \in Block : Logged(b)' <=> Logged(b)
  BY Zenon DEF Logged
<1>4. sys \in {"up", "halted"} /\ sys' \in {"up", "halted"}
  BY Zenon DEF Live
<1>5. \A b \in Block : cache'[b] = home'[b] \/ Logged(b)' \/ \E p \in Proc : buf'[p] = b
  BY <1>3, Zenon DEF Copies
<1>6. (\A p \in Proc : pc'[p] # "install") => dhead' = <<>>
  BY Zenon DEF Copies
<1>7. /\ \A p \in Proc : pc'[p] = "write_log" => \A i \in 1..Len(lh') : i < tail' => dlog'[i] = cache'[lh'[i]]
      /\ \A p \in Proc : pc'[p] = "install" =>
           dhead' = lh' /\ Installed' /\ \A i \in 1..Len(lh') : dlog'[i] = cache'[lh'[i]]
  BY <1>1, Zenon DEF Copies
<1> QED
  BY <1>2, <1>4, <1>5, <1>6, <1>7, Zenon DEF Copies

\* A process that moves on among the calls and operations strands nobody.
LEMMA Sleepers ==
  ASSUME NEW q \in Proc, pc'[q] \in {"op", "check", "append", "write_log", "install", "done"}
  PROVE  NoStrandedSleeper'
BY Zenon DEF NoStrandedSleeper

\* The places that operations need are finitely many.
LEMMA OwedFinite ==
  ASSUME Counted
  PROVE  /\ IsFiniteSet(Operations \X (1..MAXOPBLOCKS)) /\ IsFiniteSet(Owed)
         /\ Cardinality(Owed) \in Nat
         /\ Cardinality(Owed) <= Cardinality(Operations) * MAXOPBLOCKS
<1>1. MAXOPBLOCKS \in Nat \ {0}
  BY LogAssumption, Zenon
<1>2. IsFiniteSet(1..MAXOPBLOCKS) /\ Cardinality(1..MAXOPBLOCKS) = MAXOPBLOCKS
  BY <1>1, FS_Interval
<1>3. /\ IsFiniteSet(Operations \X (1..MAXOPBLOCKS))
      /\ Cardinality(Operations \X (1..MAXOPBLOCKS)) = Cardinality(Operations) * MAXOPBLOCKS
  BY <1>2, FS_Product, Zenon DEF Counted
<1>4. Owed \in SUBSET (Operations \X (1..MAXOPBLOCKS))
  BY Zenon DEF Owed
<1>5. IsFiniteSet(Owed) /\ Cardinality(Owed) <= Cardinality(Operations \X (1..MAXOPBLOCKS))
  BY <1>3, <1>4, FS_Subset, Zenon
<1> QED
  BY <1>3, <1>5, FS_CardinalityType, Zenon

\* The header has room for what is in it.
LEMMA Fits ==
  ASSUME TypeOK, Counted
  PROVE  Len(lh) \in Nat /\ Len(lh) <= LOGSIZE
<1>1. Len(lh) \in Nat /\ Len(lh) + Cardinality(Owed) <= LOGSIZE /\ LOGSIZE \in Nat
  BY LogAssumption DEF TypeOK, Counted
<1> QED
  BY <1>1, OwedFinite

-----------------------------------------------------------------------------
(* begin_op() and log_write() *)

\* A step among the labels outside operations and commits changes neither.
LEMMA CallStep ==
  ASSUME Base, NEW p \in Proc, Call(p)
  PROVE  Kept
<1>1. /\ TypeOK /\ sys = "up" /\ pc[p] = "idle" /\ Goto(p, "begin") /\ "begin" \in Label
      /\ UNCHANGED <<home, dlog, dhead, cache, lh, outstanding, committing, buf, wrote, tail, sys>>
  BY Zenon DEF Base, Call, At, diskVars, opVars, Label
<1>2. /\ pc' \in [Proc -> Label] /\ pc'[p] = "begin"
      /\ \A q \in Proc \ {p} : pc'[q] = pc[q] \/ (pc[q] = "sleep" /\ pc'[q] = "begin")
      /\ Operations' = Operations \ {p} /\ Committer' = Committer \ {p}
  BY <1>1, Moves, Zenon
<1>3. Operations' = Operations /\ Committer' = Committer
  BY <1>1, <1>2, Apart, Zenon
<1>4. TypeOK'
  BY <1>1, <1>2, Zenon DEF TypeOK, Label
<1>5. Control'
  BY <1>1, <1>2, <1>3, Zenon DEF Base, Control, Live
<1>6. Counted'
  BY <1>1, <1>3, CountedSame, Zenon DEF Base, Counted
<1>7. Copies /\ OnDiskFits => Copies'
  BY <1>1, <1>2, CopiesSame, Zenon DEF Base, Live
<1>8. NoStrandedSleeper'
  BY <1>1, <1>2, Zenon DEF Base, NoStrandedSleeper
<1> QED
  BY <1>4, <1>5, <1>6, <1>7, <1>8, Zenon DEF Base, Kept

\* begin_op() has to wait only while an operation or a commit is under way.
LEMMA WaitsForSomebody ==
  ASSUME Base, sys = "up", MustWait
  PROVE  Operations # {} \/ Committer # {}
<1> SUFFICES ASSUME Operations = {}, Committer = {}
             PROVE  FALSE
  BY Zenon
<1>1. ~committing /\ lh = <<>>
  BY Zenon DEF Base, Control, Live
<1>2. outstanding = 0
  BY FS_EmptySet, Zenon DEF Base, Counted
<1>3. Len(lh) = 0 /\ (outstanding + 1) * MAXOPBLOCKS = MAXOPBLOCKS
  BY <1>1, <1>2, LogAssumption
<1> QED
  BY <1>1, <1>3, LogAssumption DEF MustWait

\* begin_op() goes to sleep.
LEMMA BeginSleepStep ==
  ASSUME Base, NEW p \in Proc, BeginSleep(p)
  PROVE  Kept
<1>1. /\ TypeOK /\ sys = "up" /\ pc[p] = "begin" /\ Goto(p, "sleep") /\ "sleep" \in Label /\ MustWait
      /\ UNCHANGED <<home, dlog, dhead, cache, lh, outstanding, committing, buf, wrote, tail, sys>>
  BY Zenon DEF Base, BeginSleep, At, diskVars, opVars, Label
<1>2. /\ pc' \in [Proc -> Label] /\ pc'[p] = "sleep"
      /\ \A q \in Proc \ {p} : pc'[q] = pc[q] \/ (pc[q] = "sleep" /\ pc'[q] = "begin")
      /\ Operations' = Operations \ {p} /\ Committer' = Committer \ {p}
  BY <1>1, Moves, Zenon
<1>3. Operations' = Operations /\ Committer' = Committer
  BY <1>1, <1>2, Apart, Zenon
<1>4. TypeOK'
  BY <1>1, <1>2, Zenon DEF TypeOK, Label
<1>5. Control'
  BY <1>1, <1>2, <1>3, Zenon DEF Base, Control, Live
<1>6. Counted'
  BY <1>1, <1>3, CountedSame, Zenon DEF Base, Counted
<1>7. Copies /\ OnDiskFits => Copies'
  BY <1>1, <1>2, CopiesSame, Zenon DEF Base, Live
<1>8. NoStrandedSleeper'
  <2>1. PICK q : q \in Operations' \/ q \in Committer'
    BY <1>1, <1>3, WaitsForSomebody, Zenon
  <2>2. q \in Proc /\ pc'[q] \in {"op", "check", "append", "write_log", "install", "done"}
    BY <2>1, Zenon DEF Operations, Committer
  <2> QED
    BY <2>2, Sleepers, Zenon
<1> QED
  BY <1>4, <1>5, <1>6, <1>7, <1>8, Zenon DEF Base, Kept

\* begin_op() admits an operation: the header has room for all that the
\* operations under way may write.
LEMMA BeginOpStep ==
  ASSUME Base, NEW p \in Proc, BeginOp(p)
  PROVE  Kept
<1>1. /\ TypeOK /\ sys = "up" /\ pc[p] = "begin" /\ Goto(p, "op") /\ "op" \in Label /\ ~MustWait
      /\ outstanding' = outstanding + 1
      /\ UNCHANGED <<home, dlog, dhead, cache, lh, committing, buf, wrote, tail, sys>>
  BY Zenon DEF Base, BeginOp, At, diskVars, opVars, Label
<1>2. /\ pc' \in [Proc -> Label] /\ pc'[p] = "op"
      /\ \A q \in Proc \ {p} : pc'[q] = pc[q] \/ (pc[q] = "sleep" /\ pc'[q] = "begin")
      /\ Operations' = Operations \cup {p} /\ Committer' = Committer \ {p}
  BY <1>1, Moves, Zenon
<1>3. Committer' = Committer /\ p \notin Operations
  BY <1>1, <1>2, Apart, Zenon
<1>4. TypeOK'
  BY <1>1, <1>2 DEF TypeOK, Label
<1>5. Control'
  BY <1>1, <1>2, <1>3, Zenon DEF Base, Control, Live, MustWait
<1>6. Counted'
  <2>1. /\ IsFiniteSet(Operations') /\ Cardinality(Operations') = outstanding' /\ outstanding' \in Nat
    BY <1>1, <1>2, <1>3, <1>4, FS_AddElement, Zenon DEF Base, Counted, TypeOK
  <2>2. /\ IsFiniteSet(1..MAXOPBLOCKS) /\ Cardinality(1..MAXOPBLOCKS) = MAXOPBLOCKS
    BY LogAssumption, FS_Interval
  <2>3. /\ IsFiniteSet(Operations' \X (1..MAXOPBLOCKS))
        /\ Cardinality(Operations' \X (1..MAXOPBLOCKS)) = outstanding' * MAXOPBLOCKS
    BY <2>1, <2>2, FS_Product, Zenon
  <2>4. Owed' \in SUBSET (Operations' \X (1..MAXOPBLOCKS))
    BY Zenon DEF Owed
  <2>5. Cardinality(Owed') <= outstanding' * MAXOPBLOCKS /\ Cardinality(Owed') \in Nat
    BY <2>3, <2>4, FS_Subset, FS_CardinalityType, Zenon
  <2>6. Len(lh) + outstanding' * MAXOPBLOCKS <= LOGSIZE
    <3>1. outstanding' * MAXOPBLOCKS \in Nat /\ Len(lh) \in Nat
      BY <1>1, <2>1, LogAssumption DEF TypeOK
    <3>2. ~(Len(lh) + outstanding' * MAXOPBLOCKS > LOGSIZE)
      BY <1>1, Zenon DEF MustWait
    <3> QED
      BY <3>1, <3>2, LogAssumption
  <2>7. Len(lh') + Cardinality(Owed') <= LOGSIZE
    <3>1. outstanding' * MAXOPBLOCKS \in Nat /\ Len(lh) \in Nat /\ lh' = lh
      BY <1>1, <2>1, LogAssumption DEF TypeOK
    <3> QED
      BY <2>5, <2>6, <3>1, LogAssumption
  <2>8. \A q \in Proc : IsFiniteSet(wrote'[q]) /\ Cardinality(wrote'[q]) <= MAXOPBLOCKS
    BY <1>1, Zenon DEF Base, Counted
  <2> QED
    BY <1>1, <2>1, <2>7, <2>8, Zenon DEF Base, Counted
<1>7. Copies /\ OnDiskFits => Copies'
  BY <1>1, <1>2, CopiesSame, Zenon DEF Base, Live
<1>8. NoStrandedSleeper'
  BY <1>2, Sleepers, Zenon
<1> QED
  BY <1>4, <1>5, <1>6, <1>7, <1>8, Zenon DEF Base, Kept

\* As operations end and blocks find their place, less is owed.
LEMMA OwedShrinks ==
  ASSUME Counted, Operations' \subseteq Operations,
         \A q \in Operations' : Placed(q) \subseteq Placed(q)' /\ IsFiniteSet(wrote'[q])
  PROVE  /\ Owed' \subseteq Owed /\ IsFiniteSet(Owed')
         /\ Cardinality(Owed') \in Nat /\ Cardinality(Owed') <= Cardinality(Owed)
<1>1. ASSUME NEW t \in Owed'
      PROVE  t \in Owed
  <2>1. /\ t \in Operations' \X (1..MAXOPBLOCKS) /\ t[1] \in Operations' /\ t[2] \in 1..MAXOPBLOCKS
        /\ t[2] + Cardinality(Placed(t[1])') <= MAXOPBLOCKS
    BY <1>1, Zenon DEF Owed
  <2>2. Placed(t[1])' \in SUBSET wrote'[t[1]]
    BY Zenon DEF Placed
  <2>3. IsFiniteSet(Placed(t[1])')
    BY <2>1, <2>2, FS_Subset, Zenon
  <2>4. Placed(t[1]) \in SUBSET Placed(t[1])'
    BY <2>1, Zenon
  <2>5. /\ IsFiniteSet(Placed(t[1])) /\ Cardinality(Placed(t[1])) <= Cardinality(Placed(t[1])')
    BY <2>3, <2>4, FS_Subset, Zenon
  <2>6. Cardinality(Placed(t[1])) \in Nat /\ Cardinality(Placed(t[1])') \in Nat
    BY <2>3, <2>5, FS_CardinalityType, Zenon
  <2>7. t[2] + Cardinality(Placed(t[1])) <= MAXOPBLOCKS
    BY <2>1, <2>5, <2>6, LogAssumption
  <2> QED
    BY <2>1, <2>7, Zenon DEF Owed
<1>2. Owed' \in SUBSET Owed
  BY <1>1, Zenon
<1> QED
  BY <1>2, OwedFinite, FS_Subset, FS_CardinalityType, Zenon

\* A caller of log_write() modifies a buffer.
LEMMA ModifyStep ==
  ASSUME Base, NEW p \in Proc, NEW b \in Block, NEW v \in Val, Modify(p, b, v)
  PROVE  Kept
<1>1. /\ TypeOK /\ sys = "up" /\ pc[p] = "op" /\ Goto(p, "check") /\ "check" \in Label
      /\ cache' = [cache EXCEPT ![b] = v] /\ buf' = [buf EXCEPT ![p] = b]
      /\ wrote' = [wrote EXCEPT ![p] = @ \cup {b}] /\ Cardinality(wrote[p] \cup {b}) <= MAXOPBLOCKS
      /\ UNCHANGED <<home, dlog, dhead, lh, outstanding, committing, tail, sys>>
  BY Zenon DEF Base, Modify, At, diskVars, opVars, Label
<1>2. /\ pc' \in [Proc -> Label] /\ pc'[p] = "check"
      /\ \A q \in Proc \ {p} : pc'[q] = pc[q] \/ (pc[q] = "sleep" /\ pc'[q] = "begin")
      /\ Operations' = Operations \cup {p} /\ Committer' = Committer \ {p}
  BY <1>1, Moves, Zenon
<1>3. /\ Operations' = Operations /\ Committer' = Committer /\ p \in Operations
      /\ Committer = {} /\ ~committing
  BY <1>1, <1>2, Apart, Zenon DEF Base, Control
<1>4. /\ wrote'[p] = wrote[p] \cup {b} /\ buf'[p] = b
      /\ \A q \in Proc \ {p} : wrote'[q] = wrote[q] /\ buf'[q] = buf[q]
  BY <1>1, Zenon DEF TypeOK
<1>5. TypeOK'
  BY <1>1, <1>2, Zenon DEF TypeOK, Label
<1>6. Control'
  <2>1. \A q \in Proc : IF pc'[q] \in {"check", "append"}
                          THEN buf'[q] \in Block /\ buf'[q] \in wrote'[q]
                          ELSE buf'[q] = NoBlock
    BY <1>2, <1>4, Zenon DEF Base, Control
  <2>2. Live /\ Live' /\ committing' = committing /\ \A q \in Proc : pc'[q] # "done"
    BY <1>1, <1>3, Apart, Zenon DEF Live, Committer
  <2>3. Operations' # {} /\ Committer' = {} /\ ~committing'
    BY <1>3, <2>2, Zenon
  <2> QED
    BY <2>1, <2>2, <2>3, Zenon DEF Control
<1>7. Counted'
  <2>1. \A q \in Proc : IsFiniteSet(wrote'[q]) /\ Cardinality(wrote'[q]) <= MAXOPBLOCKS
    <3>1. \A q \in Proc : IsFiniteSet(wrote[q]) /\ Cardinality(wrote[q]) <= MAXOPBLOCKS
      BY Zenon DEF Base, Counted
    <3>2. IsFiniteSet(wrote[p] \cup {b})
      BY <3>1, FS_AddElement, Zenon
    <3> QED
      BY <1>1, <1>4, <3>1, <3>2, Zenon
  <2>2. \A q \in Proc : Placed(q) \subseteq Placed(q)'
    BY <1>1, <1>4, Zenon DEF Placed, Logged
  <2>3. Operations' \subseteq Operations /\ Operations' \subseteq Proc
    BY <1>3, Zenon DEF Operations
  <2>4. Cardinality(Owed') \in Nat /\ Cardinality(Owed') <= Cardinality(Owed)
    BY <2>1, <2>2, <2>3, OwedShrinks, Zenon DEF Base
  <2>5. Len(lh') + Cardinality(Owed') <= LOGSIZE
    <3>1. /\ lh' = lh /\ Len(lh) \in Nat /\ Cardinality(Owed) \in Nat
          /\ Len(lh) + Cardinality(Owed) <= LOGSIZE
      BY <1>1, OwedFinite DEF Base, TypeOK, Counted
    <3> QED
      BY <2>4, <3>1, LogAssumption
  <2> QED
    BY <1>1, <1>3, <2>1, <2>5, Zenon DEF Base, Counted
<1>8. ASSUME Copies, OnDiskFits
      PROVE  Copies'
  <2>1. \A q \in Proc : pc[q] \notin {"write_log", "install"} /\ pc'[q] \notin {"write_log", "install"}
    BY <1>3, Apart, Zenon DEF Committer
  <2>2. Distinct(lh)' /\ Distinct(dhead)' /\ Len(dhead') < SIZE /\ dhead' = <<>>
    BY <1>8, <1>1, <2>1 DEF Copies, Distinct, Live
  <2>3. \A c \in Block : cache'[c] = home'[c] \/ Logged(c)' \/ \E q \in Proc : buf'[q] = c
    <3> SUFFICES ASSUME NEW c \in Block, c # b
                 PROVE  cache'[c] = home'[c] \/ Logged(c)' \/ \E q \in Proc : buf'[q] = c
      BY <1>4, Zenon
    <3>1. cache'[c] = cache[c] /\ home'[c] = home[c] /\ (Logged(c)' <=> Logged(c))
      BY <1>1, Zenon DEF TypeOK, Logged
    <3>2. cache[c] = home[c] \/ Logged(c) \/ \E q \in Proc : buf[q] = c
      BY <1>8, <1>1, Zenon DEF Copies, Live
    <3>3. buf[p] = NoBlock /\ c # NoBlock
      BY <1>1, LogAssumption, Zenon DEF Base, Control
    <3> QED
      BY <1>4, <3>1, <3>2, <3>3, Zenon
  <2> QED
    BY <1>1, <2>1, <2>2, <2>3, Zenon DEF Copies, Live
<1>9. NoStrandedSleeper'
  BY <1>2, Sleepers, Zenon
<1> QED
  BY <1>5, <1>6, <1>7, <1>8, <1>9, Zenon DEF Base, Kept

\* log_write() passes its tests.
LEMMA LogCheckStep ==
  ASSUME Base, NEW p \in Proc, LogCheck(p)
  PROVE  Kept
<1>1. /\ TypeOK /\ sys = "up" /\ pc[p] = "check" /\ Goto(p, "append") /\ "append" \in Label
      /\ UNCHANGED <<home, dlog, dhead, cache, lh, outstanding, committing, buf, wrote, tail, sys>>
  BY Zenon DEF Base, LogCheck, At, diskVars, opVars, Label
<1>2. /\ pc' \in [Proc -> Label] /\ pc'[p] = "append"
      /\ \A q \in Proc \ {p} : pc'[q] = pc[q] \/ (pc[q] = "sleep" /\ pc'[q] = "begin")
      /\ Operations' = Operations \cup {p} /\ Committer' = Committer \ {p}
  BY <1>1, Moves, Zenon
<1>3. Operations' = Operations /\ Committer' = Committer
  BY <1>1, <1>2, Apart, Zenon
<1>4. TypeOK'
  BY <1>1, <1>2, Zenon DEF TypeOK, Label
<1>5. Control'
  BY <1>1, <1>2, <1>3, Zenon DEF Base, Control, Live
<1>6. Counted'
  BY <1>1, <1>3, CountedSame, Zenon DEF Base, Counted
<1>7. Copies /\ OnDiskFits => Copies'
  BY <1>1, <1>2, CopiesSame, Zenon DEF Base, Live
<1>8. NoStrandedSleeper'
  BY <1>2, Sleepers, Zenon
<1> QED
  BY <1>4, <1>5, <1>6, <1>7, <1>8, Zenon DEF Base, Kept

\* log_write() panics.
LEMMA LogPanicStep ==
  ASSUME Base, NEW p \in Proc, LogPanic(p)
  PROVE  Kept
<1>1. /\ sys = "up" /\ sys' = "halted"
      /\ UNCHANGED <<home, dlog, dhead, cache, lh, outstanding, committing, pc, buf, wrote, tail>>
  BY Zenon DEF LogPanic, At, diskVars, opVars
<1>2. Operations' = Operations /\ Committer' = Committer
  BY <1>1, Zenon DEF Operations, Committer
<1>3. TypeOK'
  BY <1>1, Zenon DEF Base, TypeOK
<1>4. Control'
  BY <1>1, <1>2, Zenon DEF Base, Control, Live
<1>5. Counted'
  BY <1>1, <1>2, CountedSame, Zenon DEF Base, Counted
<1>6. Copies /\ OnDiskFits => Copies'
  BY <1>1, CopiesSame, Zenon DEF Base, Live
<1>7. NoStrandedSleeper'
  BY <1>1, Zenon DEF Base, NoStrandedSleeper
<1> QED
  BY <1>3, <1>4, <1>5, <1>6, <1>7, Zenon DEF Base, Kept

\* Appending a block to the header.
LEMMA AppendFacts ==
  ASSUME NEW s \in Seq(Block), NEW b \in Block
  PROVE  /\ Append(s, b) \in Seq(Block) /\ Len(Append(s, b)) = Len(s) + 1 /\ Len(s) \in Nat
         /\ Append(s, b)[Len(s) + 1] = b
         /\ \A i \in 1..Len(s) : Append(s, b)[i] = s[i]
OBVIOUS

\* log_write() gives the block a place in the header, which was owed to it, or
\* finds that it has one.
LEMMA LogAppendStep ==
  ASSUME Base, NEW p \in Proc, LogAppend(p)
  PROVE  Kept
<1> DEFINE b == buf[p]
<1>1. /\ TypeOK /\ sys = "up" /\ pc[p] = "append" /\ Goto(p, "op") /\ "op" \in Label
      /\ lh' = (IF Logged(b) THEN lh ELSE Append(lh, b)) /\ buf' = [buf EXCEPT ![p] = NoBlock]
      /\ UNCHANGED <<home, dlog, dhead, cache, outstanding, committing, wrote, tail, sys>>
  BY Zenon DEF Base, LogAppend, At, diskVars, opVars, Label
<1>2. /\ pc' \in [Proc -> Label] /\ pc'[p] = "op"
      /\ \A q \in Proc \ {p} : pc'[q] = pc[q] \/ (pc[q] = "sleep" /\ pc'[q] = "begin")
      /\ Operations' = Operations \cup {p} /\ Committer' = Committer \ {p}
  BY <1>1, Moves, Zenon
<1>3. /\ Operations' = Operations /\ Committer' = Committer /\ p \in Operations
      /\ Committer = {} /\ ~committing
  BY <1>1, <1>2, Apart, Zenon DEF Base, Control
<1>4. /\ b \in Block /\ b \in wrote[p] /\ buf'[p] = NoBlock
      /\ \A q \in Proc \ {p} : buf'[q] = buf[q]
  BY <1>1, Zenon DEF Base, Control, TypeOK
<1>5. lh \in Seq(Block) /\ lh' \in Seq(Block) /\ Len(lh) \in Nat
  BY <1>1, <1>4, AppendFacts, Zenon DEF TypeOK
<1>6. \A c \in Block : Logged(c)' <=> Logged(c) \/ c = b
  <2>1. CASE Logged(b)
    BY <1>1, <2>1, Zenon DEF Logged
  <2>2. CASE ~Logged(b)
    <3>1. /\ Len(lh') = Len(lh) + 1 /\ lh'[Len(lh) + 1] = b /\ \A i \in 1..Len(lh) : lh'[i] = lh[i]
      BY <1>1, <1>4, <1>5, <2>2, AppendFacts
    <3>2. \A i \in 1..(Len(lh) + 1) : i \in 1..Len(lh) \/ i = Len(lh) + 1
      BY <1>5
    <3>3. 1..Len(lh) \subseteq 1..(Len(lh) + 1) /\ Len(lh) + 1 \in 1..(Len(lh) + 1)
      BY <1>5
    <3> QED
      BY <3>1, <3>2, <3>3, Zenon DEF Logged
  <2> QED
    BY <2>1, <2>2, Zenon
<1>7. TypeOK'
  BY <1>1, <1>2, <1>5, Zenon DEF TypeOK, Label
<1>8. Control'
  <2>1. \A q \in Proc : pc'[q] # "done"
    BY <1>3, Apart, Zenon DEF Committer
  <2> QED
    BY <1>1, <1>2, <1>3, <1>4, <2>1, Zenon DEF Base, Control, Live
<1>9. Counted'
  <2>1. \A q \in Proc : /\ IsFiniteSet(wrote'[q]) /\ Cardinality(wrote'[q]) <= MAXOPBLOCKS
                        /\ wrote[q] \subseteq Block
    BY <1>1, Zenon DEF Base, Counted, TypeOK
  <2>2. \A q \in Proc : Placed(q) \subseteq Placed(q)'
    BY <1>1, <1>6, <2>1, Zenon DEF Placed
  <2>3. Operations' \subseteq Operations /\ Operations' \subseteq Proc
    BY <1>3, Zenon DEF Operations
  <2>4. /\ Owed' \subseteq Owed /\ IsFiniteSet(Owed')
        /\ Cardinality(Owed') \in Nat /\ Cardinality(Owed') <= Cardinality(Owed)
    BY <2>1, <2>2, <2>3, OwedShrinks, Zenon DEF Base
  <2>5. /\ Len(lh) \in Nat /\ Cardinality(Owed) \in Nat /\ IsFiniteSet(Owed)
        /\ Len(lh) + Cardinality(Owed) <= LOGSIZE
    BY <1>5, OwedFinite, Zenon DEF Base, Counted
  <2>6. Len(lh') + Cardinality(Owed') <= LOGSIZE
    <3>1. CASE Logged(b)
      BY <1>1, <2>4, <2>5, <3>1, LogAssumption
    <3>2. CASE ~Logged(b)
      <4> DEFINE k == Cardinality(Placed(p))
                 t == <<p, MAXOPBLOCKS - k>>
      <4>1. /\ Placed(p) \in SUBSET wrote[p] /\ Placed(p) # wrote[p] /\ b \notin Placed(p)
        BY <1>4, <3>2, Zenon DEF Placed
      <4>2. /\ IsFiniteSet(Placed(p)) /\ k <= Cardinality(wrote[p]) /\ k # Cardinality(wrote[p])
            /\ Cardinality(wrote[p]) <= MAXOPBLOCKS
        BY <4>1, FS_Subset, Zenon DEF Base, Counted
      <4>3. k \in Nat /\ Cardinality(wrote[p]) \in Nat
        BY <4>2, FS_CardinalityType, Zenon DEF Base, Counted
      <4>4. MAXOPBLOCKS - k \in 1..MAXOPBLOCKS
        BY <4>2, <4>3, LogAssumption
      <4>5. t \in Owed
        BY <1>3, <4>3, <4>4, LogAssumption DEF Owed
      <4>6. Placed(p)' = Placed(p) \cup {b}
        BY <1>1, <1>4, <1>6, <2>1, Zenon DEF Placed
      <4>7. Cardinality(Placed(p)') = k + 1
        BY <4>1, <4>2, <4>6, FS_AddElement, Zenon
      <4>8. t \notin Owed'
        BY <4>3, <4>7, LogAssumption DEF Owed
      <4>9. Owed' # Owed
        BY <4>5, <4>8, Zenon
      <4>10. Cardinality(Owed') # Cardinality(Owed)
        BY <2>4, <2>5, <4>9, FS_Subset, Zenon
      <4>11. Len(lh') = Len(lh) + 1
        BY <1>1, <1>4, <1>5, <3>2, AppendFacts, Zenon
      <4> QED
        BY <2>4, <2>5, <4>10, <4>11, LogAssumption
    <3> QED
      BY <3>1, <3>2, Zenon
  <2> QED
    BY <1>1, <1>3, <2>1, <2>6, Zenon DEF Base, Counted
<1>10. ASSUME Copies, OnDiskFits
      PROVE  Copies'
  <2>1. \A q \in Proc : pc[q] \notin {"write_log", "install"} /\ pc'[q] \notin {"write_log", "install"}
    BY <1>3, Apart, Zenon DEF Committer
  <2>2. Distinct(dhead)' /\ Len(dhead') < SIZE /\ dhead' = <<>>
    BY <1>10, <1>1, <2>1 DEF Copies, Distinct, Live
  <2>3. Distinct(lh)'
    <3>1. Distinct(lh)
      BY <1>10, Zenon DEF Copies
    <3>2. CASE Logged(b)
      BY <1>1, <3>1, <3>2, Zenon DEF Distinct
    <3>3. CASE ~Logged(b)
      <4>1. /\ Len(lh') = Len(lh) + 1 /\ lh'[Len(lh) + 1] = b /\ \A i \in 1..Len(lh) : lh'[i] = lh[i]
        BY <1>1, <1>4, <1>5, <3>3, AppendFacts
      <4>2. \A i \in 1..(Len(lh) + 1) : i \in 1..Len(lh) \/ i = Len(lh) + 1
        BY <1>5
      <4>3. \A i \in 1..Len(lh) : lh[i] # b
        BY <3>3, Zenon DEF Logged
      <4>4. ASSUME NEW i \in 1..Len(lh'), NEW j \in 1..Len(lh'), lh'[i] = lh'[j]
            PROVE  i = j
        <5>1. /\ i \in 1..Len(lh) \/ i = Len(lh) + 1
              /\ j \in 1..Len(lh) \/ j = Len(lh) + 1
          BY <4>1, <4>2, Zenon
        <5>2. CASE i \in 1..Len(lh) /\ j \in 1..Len(lh)
          BY <3>1, <4>1, <4>4, <5>2, Zenon DEF Distinct
        <5>3. CASE i = Len(lh) + 1 \/ j = Len(lh) + 1
          BY <4>1, <4>3, <4>4, <5>1, <5>3, Zenon
        <5> QED
          BY <5>1, <5>2, <5>3, Zenon
      <4> QED
        BY <4>4, Zenon DEF Distinct
    <3> QED
      BY <3>2, <3>3, Zenon
  <2>4. \A c \in Block : cache'[c] = home'[c] \/ Logged(c)' \/ \E q \in Proc : buf'[q] = c
    <3>1. \A c \in Block : cache[c] = home[c] \/ Logged(c) \/ \E q \in Proc : buf[q] = c
      BY <1>10, <1>1, Zenon DEF Copies, Live
    <3>2. ASSUME NEW c \in Block
          PROVE  cache'[c] = home'[c] \/ Logged(c)' \/ \E q \in Proc : buf'[q] = c
      <4>1. CASE Logged(c) \/ c = b
        BY <1>6, <4>1, Zenon
      <4>2. CASE cache[c] = home[c]
        BY <1>1, <4>2, Zenon
      <4>3. CASE c # b /\ \E q \in Proc : buf[q] = c
        BY <1>4, <4>3, Zenon
      <4> QED
        BY <3>1, <4>1, <4>2, <4>3, Zenon
    <3> QED
      BY <3>2, Zenon
  <2> QED
    BY <1>1, <2>1, <2>2, <2>3, <2>4, Zenon DEF Copies, Live
<1>11. NoStrandedSleeper'
  BY <1>2, Sleepers, Zenon
<1> QED
  BY <1>7, <1>8, <1>9, <1>10, <1>11, Zenon DEF Base, Kept

-----------------------------------------------------------------------------
-----------------------------------------------------------------------------
(* end_op() and commit() *)

\* An operation ends and leaves the others running.
LEMMA EndOpStep ==
  ASSUME Base, NEW p \in Proc, EndOp(p)
  PROVE  Kept
<1>1. /\ TypeOK /\ sys = "up" /\ pc[p] = "op" /\ Wakeup(p, "idle") /\ "idle" \in Label
      /\ outstanding # 1 /\ outstanding' = outstanding - 1 /\ wrote' = [wrote EXCEPT ![p] = {}]
      /\ UNCHANGED <<home, dlog, dhead, cache, lh, committing, buf, tail>> /\ CommitPanic
  BY Zenon DEF Base, EndOp, At, diskVars, Label
<1>2. /\ pc' \in [Proc -> Label] /\ pc'[p] = "idle"
      /\ \A q \in Proc \ {p} : pc'[q] = pc[q] \/ (pc[q] = "sleep" /\ pc'[q] = "begin")
      /\ Operations' = Operations \ {p} /\ Committer' = Committer \ {p}
  BY <1>1, Moves
<1>3. /\ Committer' = Committer /\ p \in Operations /\ Committer = {} /\ ~committing /\ sys' = "up"
  BY <1>1, <1>2, Apart, Zenon DEF Base, Control, CommitPanic
<1>4. /\ wrote'[p] = {} /\ \A q \in Proc \ {p} : wrote'[q] = wrote[q]
  BY <1>1, Zenon DEF TypeOK
<1>5. /\ IsFiniteSet(Operations') /\ outstanding' = Cardinality(Operations')
      /\ outstanding' \in Nat /\ Operations' # {}
  <2>1. IsFiniteSet(Operations) /\ outstanding = Cardinality(Operations)
    BY Zenon DEF Base, Counted
  <2>2. IsFiniteSet(Operations') /\ Cardinality(Operations') = Cardinality(Operations) - 1
    BY <1>2, <1>3, <2>1, FS_RemoveElement, Zenon
  <2>3. Cardinality(Operations') \in Nat /\ Cardinality(Operations) \in Nat
    BY <2>1, <2>2, FS_CardinalityType, Zenon
  <2>4. Cardinality(Operations') # 0
    BY <1>1, <2>1, <2>2, <2>3
  <2> QED
    BY <1>1, <2>1, <2>2, <2>3, <2>4, FS_EmptySet, Zenon
<1>6. TypeOK'
  BY <1>1, <1>2, <1>3, <1>5, Zenon DEF TypeOK, Label
<1>7. Control'
  <2>1. \A q \in Proc : pc'[q] # "done"
    BY <1>3, Apart, Zenon DEF Committer
  <2> QED
    BY <1>1, <1>2, <1>3, <1>4, <1>5, <2>1, Zenon DEF Base, Control, Live
<1>8. Counted'
  <2>1. \A q \in Proc : IsFiniteSet(wrote'[q]) /\ Cardinality(wrote'[q]) <= MAXOPBLOCKS
    <3>1. IsFiniteSet({}) /\ Cardinality({}) = 0 /\ 0 <= MAXOPBLOCKS
      BY LogAssumption, FS_EmptySet
    <3> QED
      BY <1>4, <3>1, Zenon DEF Base, Counted
  <2>2. \A q \in Operations' : q \in Proc \ {p}
    BY <1>2, Zenon DEF Operations
  <2>3. \A q \in Operations' : Placed(q) \subseteq Placed(q)' /\ IsFiniteSet(wrote'[q])
    BY <1>1, <1>4, <2>1, <2>2, Zenon DEF Placed, Logged
  <2>4. Operations' \subseteq Operations
    BY <1>2, Zenon
  <2>5. Cardinality(Owed') \in Nat /\ Cardinality(Owed') <= Cardinality(Owed)
    BY <2>3, <2>4, OwedShrinks, Zenon DEF Base
  <2>6. lh' = lh /\ Len(lh) \in Nat
    BY <1>1 DEF TypeOK
  <2>7. Cardinality(Owed) \in Nat /\ Len(lh) + Cardinality(Owed) <= LOGSIZE
    BY OwedFinite, Zenon DEF Base, Counted
  <2>8. Len(lh') + Cardinality(Owed') <= LOGSIZE
    BY <2>5, <2>6, <2>7, LogAssumption
  <2> QED
    BY <1>1, <1>5, <2>1, <2>8, Zenon DEF Base, Counted
<1>9. Copies /\ OnDiskFits => Copies'
  BY <1>1, <1>2, <1>3, CopiesSame, Zenon DEF Base, Live
<1>10. NoStrandedSleeper'
  <2>1. PICK q \in Proc : pc'[q] \in {"op", "check", "append"}
    BY <1>5, Zenon DEF Operations
  <2> QED
    BY <2>1, Sleepers, Zenon
<1> QED
  BY <1>6, <1>7, <1>8, <1>9, <1>10, Zenon DEF Base, Kept

\* The last operation ends: its process commits alone.
LEMMA EndOpLastStep ==
  ASSUME Base, NEW p \in Proc, EndOpLast(p)
  PROVE  Kept
<1> DEFINE l == IF lh = <<>> THEN "done" ELSE "write_log"
<1>1. /\ TypeOK /\ sys = "up" /\ pc[p] = "op" /\ Goto(p, l) /\ l \in Label
      /\ outstanding = 1 /\ outstanding' = 0 /\ committing' = TRUE /\ tail' = 1
      /\ wrote' = [wrote EXCEPT ![p] = {}]
      /\ UNCHANGED <<home, dlog, dhead, cache, lh, buf>> /\ CommitPanic
  BY Zenon DEF Base, EndOpLast, At, diskVars, Label
<1>2. /\ pc' \in [Proc -> Label] /\ pc'[p] = l
      /\ \A q \in Proc \ {p} : pc'[q] = pc[q] \/ (pc[q] = "sleep" /\ pc'[q] = "begin")
      /\ Operations' = Operations \ {p} /\ Committer' = Committer \cup {p}
  BY <1>1, Moves
<1>3. /\ p \in Operations /\ Committer = {} /\ Committer' = {p} /\ ~committing /\ sys' = "up"
  BY <1>1, <1>2, Apart, Zenon DEF Base, Control, CommitPanic
<1>4. Operations = {p} /\ Operations' = {}
  <2>1. IsFiniteSet(Operations) /\ Cardinality(Operations) = 1
    BY <1>1, Zenon DEF Base, Counted
  <2>2. PICK x : Operations = {x}
    BY <2>1, FS_Singleton, Zenon
  <2> QED
    BY <1>2, <1>3, <2>2, Zenon
<1>5. /\ wrote'[p] = {} /\ \A q \in Proc \ {p} : wrote'[q] = wrote[q]
  BY <1>1, Zenon DEF TypeOK
<1>6. TypeOK'
  <2>1. committing' \in BOOLEAN /\ tail' \in Nat \ {0} /\ outstanding' \in Nat /\ sys' = "up"
    BY <1>1, <1>3
  <2>2. wrote' \in [Proc -> SUBSET Block]
    BY <1>1, Zenon DEF TypeOK
  <2>3. UNCHANGED <<home, dlog, dhead, cache, lh, buf>> /\ TypeOK
    BY <1>1, Zenon
  <2> HIDE DEF l
  <2> QED
    BY <1>2, <2>1, <2>2, <2>3, Zenon DEF TypeOK, Label
<1>7. Control'
  <2>1. \A q \in Proc \ {p} : pc'[q] \notin {"write_log", "install", "done", "check", "append", "op"}
    BY <1>3, <1>4, Zenon DEF Committer, Operations
  <2>2. \A q \in Proc : buf'[q] = NoBlock
    BY <1>1, <1>2, <2>1, Zenon DEF Base, Control
  <2>3. \A q \in Proc : pc'[q] = "done" => lh' = <<>>
    BY <1>1, <1>2, <2>1, Zenon
  <2> QED
    BY <1>1, <1>2, <1>3, <1>4, <2>1, <2>2, <2>3, Zenon DEF Control, Live
<1>8. Counted'
  <2>1. \A q \in Proc : IsFiniteSet(wrote'[q]) /\ Cardinality(wrote'[q]) <= MAXOPBLOCKS
    <3>1. IsFiniteSet({}) /\ Cardinality({}) = 0 /\ 0 <= MAXOPBLOCKS
      BY LogAssumption, FS_EmptySet
    <3> QED
      BY <1>5, <3>1, Zenon DEF Base, Counted
  <2>2. Owed' = {}
    BY <1>4, Zenon DEF Owed
  <2>3. Len(lh') + Cardinality(Owed') <= LOGSIZE
    BY <1>1, <2>2, Fits, FS_EmptySet, LogAssumption DEF Base
  <2> QED
    BY <1>1, <1>4, <2>1, <2>3, FS_EmptySet, Zenon DEF Base, Counted
<1>9. ASSUME Copies, OnDiskFits
      PROVE  Copies'
  <2>1. \A q \in Proc : pc[q] \notin {"write_log", "install"} /\ pc'[q] # "install"
    BY <1>1, <1>2, <1>3, Apart, Zenon DEF Committer
  <2>2. /\ Distinct(lh)' /\ Distinct(dhead)' /\ Len(dhead') < SIZE /\ dhead' = <<>>
    BY <1>9, <1>1, <2>1 DEF Copies, Distinct, Live
  <2>3. \A c \in Block : cache'[c] = home'[c] \/ Logged(c)' \/ \E q \in Proc : buf'[q] = c
    BY <1>9, <1>1, Zenon DEF Copies, Live, Logged
  <2>4. \A i \in 1..Len(lh') : i < tail' => dlog'[i] = cache'[lh'[i]]
    BY <1>1
  <2> QED
    BY <1>3, <2>1, <2>2, <2>3, <2>4, Zenon DEF Copies, Live
<1>10. NoStrandedSleeper'
  BY <1>2, Sleepers, Zenon
<1> QED
  BY <1>6, <1>7, <1>8, <1>9, <1>10, Zenon DEF Base, Kept

\* What holds while p commits.
LEMMA Committing ==
  ASSUME Base, NEW p \in Proc, pc[p] \in {"write_log", "install", "done"}
  PROVE  /\ Committer = {p} /\ Operations = {} /\ committing /\ Live
         /\ \A q \in Proc \ {p} : pc[q] \in {"idle", "begin", "sleep"}
         /\ \A q \in Proc : buf[q] = NoBlock
         /\ Len(lh) \in Nat /\ Len(lh) <= LOGSIZE /\ lh \in Seq(Block)
         /\ \A i \in 1..Len(lh) : lh[i] \in Block /\ i \in 1..LOGSIZE
         /\ Copies => \A c \in Block : cache[c] = home[c] \/ Logged(c)
<1>1. p \in Committer
  BY Zenon DEF Committer
<1>2. Committer = {p} /\ committing /\ Operations = {}
  BY <1>1, Zenon DEF Base, Control
<1>3. \A q \in Proc \ {p} : pc[q] \in {"idle", "begin", "sleep"}
  BY <1>2, Zenon DEF Committer, Operations, Base, TypeOK
<1>4. \A q \in Proc : buf[q] = NoBlock
  BY <1>3, Zenon DEF Base, Control
<1>5. Len(lh) \in Nat /\ Len(lh) <= LOGSIZE /\ lh \in Seq(Block)
  BY Fits, Zenon DEF Base, TypeOK
<1>6. \A i \in 1..Len(lh) : lh[i] \in Block /\ i \in 1..LOGSIZE
  BY <1>5, LogAssumption
<1>7. Live
  BY <1>1, Zenon DEF Committer, Base, Control
<1>8. ASSUME Copies, NEW c \in Block
      PROVE  cache[c] = home[c] \/ Logged(c)
  <2>1. Live => \A b \in Block : cache[b] = home[b] \/ Logged(b) \/ \E q \in Proc : buf[q] = b
    BY <1>8, Zenon DEF Copies
  <2>2. cache[c] = home[c] \/ Logged(c) \/ \E q \in Proc : buf[q] = c
    BY <1>7, <2>1, Zenon
  <2>3. \A q \in Proc : buf[q] # c
    BY <1>4, LogAssumption, Zenon
  <2> QED
    BY <2>2, <2>3, Zenon
<1> QED
  BY <1>2, <1>3, <1>4, <1>5, <1>6, <1>7, <1>8, Zenon

\* write_log() copies a block to the log.
LEMMA WriteLogStep ==
  ASSUME Base, NEW p \in Proc, WriteLog(p)
  PROVE  Kept
<1> DEFINE v == cache[lh[tail]]
<1>1. /\ TypeOK /\ sys = "up" /\ pc[p] = "write_log" /\ tail <= Len(lh) /\ tail' = tail + 1
      /\ dlog' = (IF tail < SIZE THEN [dlog EXCEPT ![tail] = v] ELSE dlog)
      /\ home' = PastEnd(home, tail, v) /\ cache' = PastEnd(cache, tail, v)
      /\ UNCHANGED <<dhead, lh, outstanding, committing, pc, buf, wrote, sys>>
  BY Zenon DEF Base, WriteLog, At, opVars
<1>2. /\ Committer = {p} /\ Operations = {} /\ Live /\ Len(lh) \in Nat
      /\ \A q \in Proc \ {p} : pc[q] \in {"idle", "begin", "sleep"}
      /\ \A i \in 1..Len(lh) : lh[i] \in Block /\ i \in 1..LOGSIZE
  BY <1>1, Committing, Zenon
<1>3. tail \in Nat \ {0} /\ tail \in 1..Len(lh) /\ tail \in 1..LOGSIZE /\ v \in Val
  BY <1>1, <1>2 DEF TypeOK
<1>4. Operations' = Operations /\ Committer' = Committer
  BY <1>1, Zenon DEF Operations, Committer
<1>5. TypeOK'
  <2>1. tail' \in Nat \ {0}
    BY <1>1, <1>3
  <2>2. dlog' \in [1..(SIZE - 1) -> Val] /\ home' \in [Block -> Val] /\ cache' \in [Block -> Val]
    BY <1>1, <1>3, Zenon DEF TypeOK, PastEnd
  <2> QED
    BY <1>1, <2>1, <2>2, Zenon DEF TypeOK
<1>6. Control'
  BY <1>1, <1>4, Zenon DEF Base, Control, Live
<1>7. Counted'
  BY <1>1, <1>4, CountedSame, Zenon DEF Base, Counted
<1>8. ASSUME Copies, OnDiskFits
      PROVE  Copies'
  <2>0. Len(lh) < SIZE /\ tail < SIZE /\ tail \in 1..(SIZE - 1)
    BY <1>1, <1>2, <1>3, <1>8, LogAssumption DEF OnDiskFits
  <2>1. home' = home /\ cache' = cache /\ dlog' = [dlog EXCEPT ![tail] = v]
    BY <1>1, <1>3, <2>0, Inside, Zenon
  <2>2. \A q \in Proc : pc[q] # "install" /\ pc'[q] # "install"
    BY <1>1, <1>2, Zenon
  <2>3. /\ Distinct(lh)' /\ Distinct(dhead)' /\ Len(dhead') < SIZE /\ dhead' = <<>>
    BY <1>1, <1>2, <1>8, <2>2 DEF Copies, Distinct
  <2>4. \A c \in Block : cache'[c] = home'[c] \/ Logged(c)' \/ \E q \in Proc : buf'[q] = c
    BY <1>1, <1>2, <1>8, <2>1, Zenon DEF Copies, Logged
  <2>5. ASSUME NEW i \in 1..Len(lh), i < tail + 1
        PROVE  dlog'[i] = cache[lh[i]]
    <3>1. CASE i = tail
      BY <1>1, <2>0, <2>1, <3>1, Zenon DEF TypeOK
    <3>2. CASE i # tail
      <4>1. i < tail /\ i \in 1..(SIZE - 1)
        BY <1>2, <1>3, <2>0, <2>5, <3>2, LogAssumption
      <4>2. dlog[i] = cache[lh[i]]
        BY <1>1, <1>8, <4>1, Zenon DEF Copies
      <4> QED
        BY <1>1, <2>1, <3>2, <4>1, <4>2, Zenon DEF TypeOK
    <3> QED
      BY <3>1, <3>2, Zenon
  <2> QED
    BY <1>1, <2>1, <2>2, <2>3, <2>4, <2>5, Zenon DEF Copies, Live
<1>9. NoStrandedSleeper'
  BY <1>1, Sleepers, Zenon
<1> QED
  BY <1>5, <1>6, <1>7, <1>8, <1>9, Zenon DEF Base, Kept

\* write_head() commits.
LEMMA WriteHeadStep ==
  ASSUME Base, NEW p \in Proc, WriteHead(p)
  PROVE  Kept
<1>1. /\ TypeOK /\ sys = "up" /\ pc[p] = "write_log" /\ tail > Len(lh) /\ tail' = 1 /\ dhead' = lh
      /\ Goto(p, "install") /\ "install" \in Label
      /\ UNCHANGED <<home, dlog, cache, lh, outstanding, committing, buf, wrote, sys>>
  BY Zenon DEF Base, WriteHead, At, opVars, Label
<1>2. /\ Committer = {p} /\ Operations = {} /\ committing /\ Live
      /\ Len(lh) \in Nat /\ Len(lh) <= LOGSIZE
      /\ \A q \in Proc \ {p} : pc[q] \in {"idle", "begin", "sleep"}
      /\ Copies => \A c \in Block : cache[c] = home[c] \/ Logged(c)
  BY <1>1, Committing, Zenon
<1>3. /\ pc' \in [Proc -> Label] /\ pc'[p] = "install" /\ Operations' = {} /\ Committer' = {p}
      /\ \A q \in Proc \ {p} : pc'[q] \in {"idle", "begin", "sleep"}
  BY <1>1, <1>2, Moves, Zenon
<1>4. TypeOK'
  BY <1>1, <1>3 DEF TypeOK, Label
<1>5. Control'
  BY <1>1, <1>2, <1>3, Zenon DEF Base, Control, Live
<1>6. Counted'
  BY <1>1, <1>2, <1>3, CountedSame, Zenon DEF Base, Counted
<1>7. ASSUME Copies, OnDiskFits
      PROVE  Copies'
  <2>0. Len(lh) < SIZE
    BY <1>1, <1>7, Zenon DEF OnDiskFits
  <2>1. /\ Distinct(lh)' /\ Distinct(dhead)' /\ Len(dhead') < SIZE
    BY <1>1, <1>2, <1>7, <2>0 DEF Copies, Distinct
  <2>2. \A c \in Block : cache'[c] = home'[c] \/ Logged(c)' \/ \E q \in Proc : buf'[q] = c
    BY <1>1, <1>2, <1>7, Zenon DEF Logged
  <2>3. Installed'
    BY <1>1 DEF Installed
  <2>4. tail \in Nat /\ \A i \in 1..Len(lh) : i < tail
    BY <1>1, <1>2 DEF TypeOK
  <2>5. \A i \in 1..Len(lh') : dlog'[i] = cache'[lh'[i]]
    <3>1. \A i \in 1..Len(lh) : i < tail => dlog[i] = cache[lh[i]]
      BY <1>1, <1>7, Zenon DEF Copies
    <3> QED
      BY <1>1, <2>4, <3>1, Zenon
  <2>6. sys' = "up" /\ Live' /\ dhead' = lh' /\ \A q \in Proc : pc'[q] # "write_log"
    BY <1>1, <1>3, Zenon DEF Live
  <2> QED
    BY <1>3, <2>1, <2>2, <2>3, <2>5, <2>6, Zenon DEF Copies
<1>8. NoStrandedSleeper'
  BY <1>3, Sleepers, Zenon
<1> QED
  BY <1>4, <1>5, <1>6, <1>7, <1>8, Zenon DEF Base, Kept

\* install_trans() of a block, wherever it reads it, leaves contents of blocks.
LEMMA InstallTypes ==
  ASSUME TypeOK, InstallBlock, Len(lh) <= LOGSIZE
  PROVE  /\ tail \in 1..Len(lh) /\ lh[tail] \in Block
         /\ home' \in [Block -> Val] /\ cache' \in [Block -> Val] /\ tail' \in Nat \ {0}
<1>1. /\ tail \in Nat \ {0} /\ Len(lh) \in Nat /\ lh \in Seq(Block)
      /\ dlog \in [1..(SIZE - 1) -> Val] /\ home \in [Block -> Val] /\ cache \in [Block -> Val]
  BY DEF TypeOK
<1>2. tail \in 1..Len(lh) /\ lh[tail] \in Block
  BY <1>1 DEF InstallBlock
<1>3. LogBlock(tail, cache) \in Val
  <2>1. CASE tail < SIZE
    <3>1. tail \in 1..(SIZE - 1)
      BY <1>1, <2>1, LogAssumption
    <3> QED
      BY <1>1, <2>1, <3>1, Zenon DEF LogBlock
  <2>2. CASE ~(tail < SIZE)
    <3>1. tail \in SIZE..LOGSIZE
      BY <1>1, <1>2, <2>2, LogAssumption
    <3> QED
      BY <1>1, <2>2, <3>1, LogAssumption, Zenon DEF LogBlock
  <2> QED
    BY <2>1, <2>2, Zenon
<1>4. home' \in [Block -> Val] /\ cache' \in [Block -> Val]
  BY <1>1, <1>2, <1>3, Zenon DEF InstallBlock
<1>5. tail' \in Nat \ {0}
  BY <1>1 DEF InstallBlock
<1> QED
  BY <1>2, <1>4, <1>5, Zenon

\* Inside the log, the home of the block gets what the log has.
LEMMA InstallsBlock ==
  ASSUME TypeOK, InstallBlock, Len(lh) <= LOGSIZE, Len(lh) < SIZE, Distinct(lh), Installed,
         lh' = lh, dlog' = dlog
  PROVE  /\ Installed' /\ home'[lh[tail]] = dlog[tail] /\ cache'[lh[tail]] = dlog[tail]
         /\ \A c \in Block : c # lh[tail] => home'[c] = home[c] /\ cache'[c] = cache[c]
<1>1. /\ tail \in Nat \ {0} /\ Len(lh) \in Nat /\ lh \in Seq(Block) /\ tail' = tail + 1
      /\ home \in [Block -> Val] /\ cache \in [Block -> Val]
  BY DEF TypeOK, InstallBlock
<1>2. tail \in 1..Len(lh) /\ lh[tail] \in Block
  BY InstallTypes, Zenon
<1>3. LogBlock(tail, cache) = dlog[tail]
  <2>1. tail \in Nat /\ tail < SIZE
    BY <1>1, <1>2, LogAssumption
  <2> QED
    BY <2>1, Inside, Zenon
<1>4. /\ home'[lh[tail]] = dlog[tail] /\ cache'[lh[tail]] = dlog[tail]
      /\ \A c \in Block : c # lh[tail] => home'[c] = home[c] /\ cache'[c] = cache[c]
  BY <1>1, <1>2, <1>3, Zenon DEF InstallBlock
<1>5. ASSUME NEW i \in 1..Len(lh), i < tail + 1
      PROVE  home'[lh[i]] = dlog[i]
  <2>1. CASE i = tail
    BY <1>4, <2>1, Zenon
  <2>2. CASE i # tail
    <3>1. i < tail /\ lh[i] # lh[tail] /\ lh[i] \in Block
      BY <1>1, <1>2, <1>5, <2>2 DEF Distinct
    <3>2. home[lh[i]] = dlog[i]
      BY <3>1, Zenon DEF Installed
    <3> QED
      BY <1>4, <3>1, <3>2, Zenon
  <2> QED
    BY <2>1, <2>2, Zenon
<1>6. Installed'
  BY <1>1, <1>5, Zenon DEF Installed
<1> QED
  BY <1>4, <1>6, Zenon

\* commit() installs a block; the cache has it already.
LEMMA InstallStep ==
  ASSUME Base, NEW p \in Proc, Install(p)
  PROVE  Kept /\ (Copies => cache' = cache)
<1>1. /\ TypeOK /\ sys = "up" /\ pc[p] = "install" /\ InstallBlock
      /\ UNCHANGED <<dlog, dhead, lh, outstanding, committing, pc, buf, wrote, sys>>
  BY Zenon DEF Base, Install, At, opVars
<1>2. /\ Committer = {p} /\ Operations = {} /\ Live /\ Len(lh) \in Nat /\ Len(lh) <= LOGSIZE
      /\ \A q \in Proc \ {p} : pc[q] \in {"idle", "begin", "sleep"}
      /\ Copies => \A c \in Block : cache[c] = home[c] \/ Logged(c)
  BY <1>1, Committing, Zenon
<1>3. /\ tail \in 1..Len(lh) /\ lh[tail] \in Block
      /\ home' \in [Block -> Val] /\ cache' \in [Block -> Val] /\ tail' \in Nat \ {0}
  BY <1>1, <1>2, InstallTypes, Zenon
<1>4. Operations' = Operations /\ Committer' = Committer
  BY <1>1, Zenon DEF Operations, Committer
<1>5. TypeOK'
  BY <1>1, <1>3, Zenon DEF TypeOK
<1>6. Control'
  BY <1>1, <1>4, Zenon DEF Base, Control, Live
<1>7. Counted'
  BY <1>1, <1>4, CountedSame, Zenon DEF Base, Counted
<1>8. NoStrandedSleeper'
  BY <1>1, Sleepers, Zenon
<1>9. ASSUME Copies
      PROVE  Copies' /\ cache' = cache
  <2>1. /\ dhead = lh /\ Len(lh) < SIZE /\ Installed /\ Distinct(lh)
        /\ \A i \in 1..Len(lh) : dlog[i] = cache[lh[i]]
    BY <1>1, <1>9, Zenon DEF Copies
  <2>2. /\ Installed' /\ home'[lh[tail]] = dlog[tail] /\ cache'[lh[tail]] = dlog[tail]
        /\ \A c \in Block : c # lh[tail] => home'[c] = home[c] /\ cache'[c] = cache[c]
    BY <1>1, <1>2, <2>1, InstallsBlock, Zenon
  <2>3. \A c \in Block : cache'[c] = cache[c]
    BY <1>3, <2>1, <2>2, Zenon
  <2>4. cache' = cache
    BY <1>1, <1>3, <2>3 DEF TypeOK
  <2>5. /\ Distinct(lh)' /\ Distinct(dhead)' /\ Len(dhead') < SIZE
    BY <1>1, <2>1 DEF Distinct
  <2>6. \A c \in Block : cache'[c] = home'[c] \/ Logged(c)' \/ \E q \in Proc : buf'[q] = c
    BY <1>1, <1>2, <1>9, <2>2, Zenon DEF Logged
  <2>7. dhead' = lh' /\ Installed' /\ \A i \in 1..Len(lh') : dlog'[i] = cache'[lh'[i]]
    BY <1>1, <2>1, <2>2, <2>4, Zenon
  <2>8. /\ sys' = "up" /\ Live' /\ pc'[p] = "install" /\ \A q \in Proc : pc'[q] # "write_log"
    BY <1>1, <1>2, Zenon DEF Live
  <2>9. Copies'
    BY <2>5, <2>6, <2>7, <2>8, Zenon DEF Copies
  <2> QED
    BY <2>4, <2>9, Zenon
<1> QED
  BY <1>5, <1>6, <1>7, <1>8, <1>9, Zenon DEF Base, Kept

\* When every block is installed, the home blocks are what recovery would make
\* of the disk.
LEMMA AllInstalled ==
  ASSUME TypeOK, Installed, dhead = lh, tail > Len(lh), Len(lh) < SIZE
  PROVE  Recovered = home
<1>1. /\ Len(lh) \in Nat /\ tail \in Nat /\ home \in [Block -> Val]
  BY DEF TypeOK
<1>2. ASSUME NEW b \in Block
      PROVE  Recovered[b] = home[b]
  <2>1. CASE \E i \in 1..Len(dhead) : dhead[i] = b
    <3> DEFINE k == CHOOSE i \in 1..Len(dhead) : dhead[i] = b
    <3>1. k \in 1..Len(dhead) /\ dhead[k] = b /\ Recovered[b] = LogBlock(k, home)
      BY <2>1, Zenon DEF Recovered
    <3>2. k < tail /\ k \in Nat /\ k < SIZE
      BY <1>1, <3>1, LogAssumption
    <3>3. Recovered[b] = dlog[k]
      BY <3>1, <3>2, Inside, Zenon
    <3> QED
      BY <3>1, <3>2, <3>3, Zenon DEF Installed
  <2>2. CASE ~ \E i \in 1..Len(dhead) : dhead[i] = b
    BY <2>2, Zenon DEF Recovered
  <2> QED
    BY <2>1, <2>2, Zenon
<1>3. Recovered = [b \in Block |-> Recovered[b]]
  BY Zenon DEF Recovered
<1> QED
  BY <1>1, <1>2, <1>3, Zenon

\* commit() clears the log.
LEMMA ClearStep ==
  ASSUME Base, NEW p \in Proc, Clear(p)
  PROVE  Kept /\ (Copies => Recovered' = Recovered)
<1>1. /\ TypeOK /\ sys = "up" /\ pc[p] = "install" /\ tail > Len(lh)
      /\ lh' = <<>> /\ dhead' = <<>> /\ tail' = 1 /\ Goto(p, "done") /\ "done" \in Label
      /\ UNCHANGED <<home, dlog, cache, outstanding, committing, buf, wrote, sys>>
  BY Zenon DEF Base, Clear, ClearLog, At, opVars, Label
<1>2. /\ Committer = {p} /\ Operations = {} /\ committing /\ Live
      /\ Len(lh) \in Nat /\ Len(lh) <= LOGSIZE
      /\ \A q \in Proc \ {p} : pc[q] \in {"idle", "begin", "sleep"}
      /\ Copies => \A c \in Block : cache[c] = home[c] \/ Logged(c)
  BY <1>1, Committing, Zenon
<1>3. /\ pc' \in [Proc -> Label] /\ pc'[p] = "done" /\ Operations' = {} /\ Committer' = {p}
      /\ \A q \in Proc \ {p} : pc'[q] \in {"idle", "begin", "sleep"}
  BY <1>1, <1>2, Moves, Zenon
<1>4. ASSUME Copies
      PROVE  /\ dhead = lh /\ Installed /\ Len(lh) < SIZE
             /\ \A i \in 1..Len(lh) : dlog[i] = cache[lh[i]]
  BY <1>1, <1>4, Zenon DEF Copies
<1>5. ASSUME Copies
      PROVE  Recovered' = Recovered
  <2>1. Recovered = home
    BY <1>1, <1>4, <1>5, AllInstalled, Zenon
  <2>2. Recovered' = home'
    BY <1>1 DEF Recovered, TypeOK
  <2> QED
    BY <1>1, <1>5, <2>1, <2>2, Zenon
<1>6. TypeOK'
  BY <1>1, <1>3 DEF TypeOK, Label
<1>7. Control'
  BY <1>1, <1>2, <1>3, Zenon DEF Base, Control, Live
<1>8. Counted'
  <2>1. Owed' = {}
    BY <1>3, Zenon DEF Owed
  <2>2. Len(lh') + Cardinality(Owed') <= LOGSIZE /\ Len(dhead') <= LOGSIZE
    BY <1>1, <2>1, FS_EmptySet, LogAssumption
  <2> QED
    BY <1>1, <1>2, <1>3, <2>2, Zenon DEF Base, Counted
<1>9. ASSUME Copies, OnDiskFits
      PROVE  Copies'
  <2>1. /\ Distinct(lh)' /\ Distinct(dhead)' /\ Len(dhead') < SIZE
    BY <1>1, LogAssumption DEF Distinct
  <2>2. ASSUME NEW c \in Block
        PROVE  cache[c] = home[c]
    <3>1. CASE Logged(c)
      <4>1. PICK i \in 1..Len(lh) : lh[i] = c
        BY <3>1, Zenon DEF Logged
      <4>2. i < tail
        BY <1>1, <1>2 DEF TypeOK
      <4> QED
        BY <1>4, <1>9, <4>1, <4>2, Zenon DEF Installed
    <3>2. CASE ~Logged(c)
      BY <1>2, <1>9, <3>2, Zenon
    <3> QED
      BY <3>1, <3>2, Zenon
  <2> QED
    BY <1>1, <1>3, <2>1, <2>2, Zenon DEF Copies, Live
<1>10. NoStrandedSleeper'
  BY <1>3, Sleepers, Zenon
<1> QED
  BY <1>5, <1>6, <1>7, <1>8, <1>9, <1>10, Zenon DEF Base, Kept

\* The end of end_op(): everybody who waits is woken.
LEMMA DoneStep ==
  ASSUME Base, NEW p \in Proc, Done(p)
  PROVE  Kept
<1>1. /\ TypeOK /\ sys = "up" /\ pc[p] = "done" /\ Wakeup(p, "idle") /\ "idle" \in Label
      /\ committing' = FALSE
      /\ UNCHANGED <<home, dlog, dhead, cache, lh, outstanding, buf, wrote, tail, sys>>
  BY Zenon DEF Base, Done, At, diskVars, opVars, Label
<1>2. /\ Committer = {p} /\ Operations = {} /\ Live
      /\ \A q \in Proc \ {p} : pc[q] \in {"idle", "begin", "sleep"}
      /\ \A q \in Proc : buf[q] = NoBlock
  BY <1>1, Committing, Zenon
<1>3. /\ pc' \in [Proc -> Label] /\ pc'[p] = "idle" /\ Operations' = {} /\ Committer' = {}
  BY <1>1, <1>2, Moves
<1>4. \A q \in Proc : pc'[q] \in {"idle", "begin"}
  BY <1>1, <1>2, Zenon DEF Wakeup
<1>5. TypeOK'
  <2>1. committing' \in BOOLEAN
    BY <1>1, ZenonT(60)
  <2>2. /\ UNCHANGED <<home, dlog, dhead, cache, lh, outstanding, buf, wrote, tail, sys>> /\ TypeOK
    BY <1>1, Zenon
  <2> QED
    BY <1>3, <2>1, <2>2, Zenon DEF TypeOK, Label
<1>6. Control'
  <2>1. lh' = <<>> /\ ~committing' /\ sys' = "up"
    BY <1>1, Zenon DEF Base, Control
  <2> QED
    BY <1>1, <1>2, <1>3, <1>4, <2>1, Zenon DEF Control, Live
<1>7. Counted'
  BY <1>1, <1>2, <1>3, CountedSame, Zenon DEF Base, Counted
<1>8. Copies /\ OnDiskFits => Copies'
  BY <1>1, <1>2, <1>4, CopiesSame, Zenon DEF Base, Live
<1>9. NoStrandedSleeper'
  BY <1>4, Zenon DEF NoStrandedSleeper
<1> QED
  BY <1>5, <1>6, <1>7, <1>8, <1>9, Zenon DEF Base, Kept

-----------------------------------------------------------------------------
(* Crash and recovery *)

\* What a state with no process in the kernel satisfies.
LEMMA AllIdle ==
  ASSUME \A p \in Proc : pc[p] = "idle" /\ buf[p] = NoBlock
  PROVE  Operations = {} /\ Committer = {} /\ Owed = {} /\ NoStrandedSleeper
BY Zenon DEF Operations, Committer, Owed, NoStrandedSleeper

\* The machine stops.
LEMMA CrashStep ==
  ASSUME Base, Crash
  PROVE  Kept
<1>1. /\ TypeOK /\ sys' = "read_head" /\ cache' = home /\ lh' = <<>> /\ outstanding' = 0
      /\ committing' = FALSE /\ tail' = 1 /\ UNCHANGED <<home, dlog, dhead>>
      /\ pc' = [p \in Proc |-> "idle"] /\ wrote' = [p \in Proc |-> {}]
      /\ buf' = [p \in Proc |-> NoBlock]
  BY Zenon DEF Base, Crash, diskVars
<1>2. Operations' = {} /\ Committer' = {} /\ Owed' = {} /\ NoStrandedSleeper'
  BY <1>1, Zenon DEF Operations, Committer, Owed, NoStrandedSleeper
<1>3. TypeOK'
  <2>1. committing' \in BOOLEAN /\ pc' \in [Proc -> Label]
    BY <1>1, Zenon DEF Label
  <2>2. wrote' \in [Proc -> SUBSET Block] /\ buf' \in [Proc -> Block \cup {NoBlock}]
    BY <1>1, Zenon
  <2>3. tail' \in Nat \ {0} /\ outstanding' \in Nat /\ lh' \in Seq(Block)
    BY <1>1
  <2> QED
    BY <1>1, <2>1, <2>2, <2>3, Zenon DEF TypeOK, Label
<1>4. Control'
  BY <1>1, <1>2, Zenon DEF Control, Live
<1>5. Counted'
  <2>1. \A p \in Proc : IsFiniteSet(wrote'[p]) /\ Cardinality(wrote'[p]) <= MAXOPBLOCKS
    BY <1>1, FS_EmptySet, LogAssumption
  <2>2. Len(lh') + Cardinality(Owed') <= LOGSIZE
    BY <1>1, <1>2, FS_EmptySet, LogAssumption
  <2> QED
    BY <1>1, <1>2, <2>1, <2>2, FS_EmptySet, Zenon DEF Base, Counted
<1>6. ASSUME Copies, OnDiskFits
      PROVE  Copies'
  <2>1. Distinct(dhead) /\ Len(dhead) < SIZE
    BY <1>6, Zenon DEF Copies
  <2>2. Distinct(dhead)' /\ Len(dhead') < SIZE
    BY <1>1, <2>1, Zenon DEF Distinct
  <2>3. Distinct(lh)'
    BY <1>1 DEF Distinct
  <2>4. ~Live' /\ sys' = "read_head" /\ \A p \in Proc : pc'[p] = "idle"
    BY <1>1, Zenon DEF Live
  <2> QED
    BY <1>1, <2>2, <2>3, <2>4, Zenon DEF Copies
<1> QED
  BY <1>2, <1>3, <1>4, <1>5, <1>6, Zenon DEF Base, Kept

\* What holds during the recovery.
LEMMA Recovering ==
  ASSUME Base, ~Live
  PROVE  /\ \A p \in Proc : pc[p] = "idle" /\ buf[p] = NoBlock
         /\ Operations = {} /\ Committer = {} /\ Owed = {}
         /\ outstanding = 0 /\ ~committing /\ (Copies => cache = home)
<1>1. \A p \in Proc : pc[p] = "idle" /\ buf[p] = NoBlock
  BY Zenon DEF Base, Control
<1> QED
  BY <1>1, AllIdle, Zenon DEF Base, Control, Copies

\* initlog() reads the header.
LEMMA ReadHeadStep ==
  ASSUME Base, ReadHead
  PROVE  Kept
<1>1. /\ TypeOK /\ sys = "read_head" /\ ~Live /\ lh' = dhead /\ sys' = "install"
      /\ UNCHANGED <<home, dlog, dhead, cache, outstanding, committing, pc, buf, wrote, tail>>
  BY Zenon DEF Base, ReadHead, Live, diskVars, opVars
<1>2. /\ \A p \in Proc : pc[p] = "idle" /\ buf[p] = NoBlock
      /\ outstanding = 0 /\ ~committing /\ (Copies => cache = home)
  BY <1>1, Recovering, Zenon
<1>3. Operations' = {} /\ Committer' = {} /\ Owed' = {} /\ NoStrandedSleeper'
  BY <1>1, <1>2, Zenon DEF Operations, Committer, Owed, NoStrandedSleeper
<1>4. TypeOK'
  BY <1>1, Zenon DEF TypeOK
<1>5. Control'
  BY <1>1, <1>2, <1>3, Zenon DEF Control, Live
<1>6. Counted'
  <2>1. Len(dhead) \in Nat /\ Len(dhead) <= LOGSIZE
    BY <1>1 DEF TypeOK, Base, Counted
  <2>2. Len(lh') + Cardinality(Owed') <= LOGSIZE
    BY <1>1, <1>3, <2>1, FS_EmptySet, LogAssumption
  <2> QED
    BY <1>1, <1>2, <1>3, <2>2, FS_EmptySet, Zenon DEF Base, Counted
<1>7. ASSUME Copies, OnDiskFits
      PROVE  Copies'
  <2>1. Distinct(dhead) /\ Len(dhead) < SIZE /\ tail = 1
    BY <1>7, <1>1, Zenon DEF Copies
  <2>2. Distinct(lh)' /\ Distinct(dhead)' /\ Len(dhead') < SIZE
    BY <1>1, <2>1, Zenon DEF Distinct
  <2>3. Installed'
    BY <1>1, <2>1 DEF Installed
  <2>4. ~Live' /\ sys' = "install" /\ lh' = dhead' /\ cache' = home'
    BY <1>1, <1>2, <1>7, Zenon DEF Live
  <2>5. \A p \in Proc : pc'[p] = "idle"
    BY <1>1, <1>2, Zenon
  <2> QED
    BY <2>2, <2>3, <2>4, <2>5, Zenon DEF Copies
<1> QED
  BY <1>3, <1>4, <1>5, <1>6, <1>7, Zenon DEF Base, Kept

\* The recovery installs a block, again if need be.
LEMMA RecoverInstallStep ==
  ASSUME Base, RecoverInstall
  PROVE  Kept
<1>1. /\ TypeOK /\ sys = "install" /\ ~Live /\ InstallBlock
      /\ UNCHANGED <<dlog, dhead, lh, outstanding, committing, pc, buf, wrote, sys>>
  BY Zenon DEF Base, RecoverInstall, Live, opVars
<1>2. /\ \A p \in Proc : pc[p] = "idle" /\ buf[p] = NoBlock
      /\ outstanding = 0 /\ ~committing /\ (Copies => cache = home) /\ Operations = {} /\ Committer = {}
  BY <1>1, Recovering, Zenon
<1>3. Len(lh) <= LOGSIZE
  BY Fits, Zenon DEF Base
<1>4. /\ home' \in [Block -> Val] /\ cache' \in [Block -> Val] /\ tail' \in Nat \ {0}
  BY <1>1, <1>3, InstallTypes, Zenon
<1>5. Operations' = Operations /\ Committer' = Committer
  BY <1>1, Zenon DEF Operations, Committer
<1>6. TypeOK'
  BY <1>1, <1>4, Zenon DEF TypeOK
<1>7. Control'
  BY <1>1, <1>5, Zenon DEF Base, Control, Live
<1>8. Counted'
  BY <1>1, <1>5, CountedSame, Zenon DEF Base, Counted
<1>9. ASSUME Copies, OnDiskFits
      PROVE  Copies'
  <2>1. lh = dhead /\ Installed /\ Distinct(lh) /\ Len(lh) < SIZE
    BY <1>1, <1>9, Zenon DEF Copies
  <2>2. /\ Installed' /\ home'[lh[tail]] = dlog[tail] /\ cache'[lh[tail]] = dlog[tail]
        /\ \A c \in Block : c # lh[tail] => home'[c] = home[c] /\ cache'[c] = cache[c]
    BY <1>1, <1>3, <2>1, InstallsBlock, Zenon
  <2>3. cache' = home'
    <3>1. \A c \in Block : cache'[c] = home'[c]
      BY <1>2, <1>9, <2>2, Zenon
    <3> QED
      BY <1>4, <3>1
  <2>4. Distinct(lh)' /\ Distinct(dhead)' /\ Len(dhead') < SIZE
    BY <1>1, <2>1 DEF Distinct
  <2> QED
    BY <1>1, <1>2, <2>1, <2>2, <2>3, <2>4, Zenon DEF Copies, Live
<1>10. NoStrandedSleeper'
  BY <1>1, <1>2, Zenon DEF NoStrandedSleeper
<1> QED
  BY <1>6, <1>7, <1>8, <1>9, <1>10, Zenon DEF Base, Kept

\* The recovery clears the log, and the system is up.
LEMMA RecoverClearStep ==
  ASSUME Base, RecoverClear
  PROVE  Kept /\ (Copies => Recovered' = Recovered /\ cache' = Recovered)
<1>1. /\ TypeOK /\ sys = "install" /\ ~Live /\ sys' = "up" /\ tail > Len(lh)
      /\ lh' = <<>> /\ dhead' = <<>> /\ tail' = 1
      /\ UNCHANGED <<home, dlog, cache, outstanding, committing, pc, buf, wrote>>
  BY Zenon DEF Base, RecoverClear, ClearLog, Live, opVars
<1>2. /\ \A p \in Proc : pc[p] = "idle" /\ buf[p] = NoBlock
      /\ outstanding = 0 /\ ~committing /\ (Copies => cache = home) /\ Operations = {} /\ Committer = {}
  BY <1>1, Recovering, Zenon
<1>3. Operations' = {} /\ Committer' = {} /\ Owed' = {} /\ NoStrandedSleeper'
  BY <1>1, <1>2, Zenon DEF Operations, Committer, Owed, NoStrandedSleeper
<1>4. ASSUME Copies
      PROVE  Recovered = home
  <2>1. lh = dhead /\ Installed /\ Len(lh) < SIZE
    BY <1>1, <1>4, Zenon DEF Copies
  <2> QED
    BY <1>1, <2>1, AllInstalled, Zenon
<1>5. Recovered' = home'
  BY <1>1 DEF Recovered, TypeOK
<1>6. TypeOK'
  BY <1>1 DEF TypeOK
<1>7. Control'
  BY <1>1, <1>2, <1>3, Zenon DEF Control, Live
<1>8. Counted'
  <2>1. Len(lh') + Cardinality(Owed') <= LOGSIZE /\ Len(dhead') <= LOGSIZE
    BY <1>1, <1>3, FS_EmptySet, LogAssumption
  <2> QED
    BY <1>1, <1>2, <1>3, <2>1, FS_EmptySet, Zenon DEF Base, Counted
<1>9. ASSUME Copies, OnDiskFits
      PROVE  Copies'
  <2>1. Distinct(lh)' /\ Distinct(dhead)' /\ Len(dhead') < SIZE
    BY <1>1, LogAssumption DEF Distinct
  <2> QED
    BY <1>1, <1>2, <1>9, <2>1, Zenon DEF Copies, Live
<1> QED
  BY <1>1, <1>2, <1>3, <1>4, <1>5, <1>6, <1>7, <1>8, <1>9, Zenon DEF Base, Kept

-----------------------------------------------------------------------------
(* The theorems *)

LEMMA InitIInv ==
  ASSUME Init
  PROVE  IInv
<1>1. /\ home = [b \in Block |-> Zero] /\ dlog = [i \in 1..(SIZE - 1) |-> Zero] /\ dhead = <<>>
      /\ cache = home /\ lh = <<>> /\ outstanding = 0 /\ committing = FALSE /\ tail = 1 /\ sys = "up"
      /\ pc = [p \in Proc |-> "idle"] /\ buf = [p \in Proc |-> NoBlock] /\ wrote = [p \in Proc |-> {}]
  BY Zenon DEF Init
<1>2. Operations = {} /\ Committer = {} /\ Owed = {} /\ NoStrandedSleeper
  BY <1>1, AllIdle, Zenon
<1>3. TypeOK
  <2>1. committing \in BOOLEAN /\ pc \in [Proc -> Label]
    BY <1>1, Zenon DEF Label
  <2>2. wrote \in [Proc -> SUBSET Block] /\ buf \in [Proc -> Block \cup {NoBlock}]
    BY <1>1, Zenon
  <2>3. /\ tail \in Nat \ {0} /\ outstanding \in Nat /\ lh \in Seq(Block) /\ dhead \in Seq(Block)
        /\ sys \in {"up", "halted", "read_head", "install"}
    BY <1>1
  <2>4. home \in [Block -> Val] /\ cache \in [Block -> Val] /\ dlog \in [1..(SIZE - 1) -> Val]
    BY <1>1, LogAssumption, Zenon
  <2> QED
    BY <2>1, <2>2, <2>3, <2>4, Zenon DEF TypeOK, Label
<1>4. Control
  BY <1>1, <1>2, Zenon DEF Control, Live
<1>5. Counted
  <2>1. \A p \in Proc : IsFiniteSet(wrote[p]) /\ Cardinality(wrote[p]) <= MAXOPBLOCKS
    BY <1>1, FS_EmptySet, LogAssumption
  <2>2. Len(lh) + Cardinality(Owed) <= LOGSIZE /\ Len(dhead) <= LOGSIZE
    BY <1>1, <1>2, FS_EmptySet, LogAssumption
  <2> QED
    BY <1>1, <1>2, <2>1, <2>2, FS_EmptySet, Zenon DEF Counted
<1>6. Copies
  <2>1. Distinct(lh) /\ Distinct(dhead) /\ Len(dhead) < SIZE
    BY <1>1, LogAssumption DEF Distinct
  <2>2. Live /\ \A p \in Proc : pc[p] = "idle"
    BY <1>1, Zenon DEF Live
  <2> QED
    BY <1>1, <2>1, <2>2, Zenon DEF Copies
<1> QED
  BY <1>2, <1>3, <1>4, <1>5, <1>6, Zenon DEF IInv, Base

LEMMA Inductive ==
  ASSUME Base, [Next]_vars
  PROVE  Kept
<1>1. CASE UNCHANGED vars
  <2>1. UNCHANGED <<home, dlog, dhead, cache, lh, outstanding, committing, pc, buf, wrote, tail, sys>>
    BY <1>1, Zenon DEF vars
  <2>2. Operations' = Operations /\ Committer' = Committer /\ (Installed' <=> Installed)
    BY <2>1, Zenon DEF Operations, Committer, Installed
  <2>3. TypeOK' /\ Control' /\ NoStrandedSleeper'
    BY <2>1, <2>2, Zenon DEF Base, TypeOK, Control, Live, NoStrandedSleeper
  <2>4. Counted'
    BY <2>1, <2>2, CountedSame, Zenon DEF Base, Counted
  <2>5. \A b \in Block : Logged(b)' <=> Logged(b)
    BY <2>1, Zenon DEF Logged
  <2>6. (Distinct(lh)' <=> Distinct(lh)) /\ (Distinct(dhead)' <=> Distinct(dhead))
    BY <2>1, Zenon DEF Distinct
  <2>7. Copies => Copies'
    BY <2>1, <2>2, <2>5, <2>6, Zenon DEF Copies, Live
  <2> QED
    BY <2>3, <2>4, <2>7, Zenon DEF Base, Kept
<1>2. CASE Crash \/ Recover
  BY <1>2, CrashStep, ReadHeadStep, RecoverInstallStep, RecoverClearStep, Zenon DEF Recover
<1>3. ASSUME NEW p \in Proc, Call(p) \/ BeginSleep(p) \/ BeginOp(p) \/ Write(p) \/ End(p)
      PROVE  Kept
  BY <1>3, CallStep, BeginSleepStep, BeginOpStep, LogCheckStep, LogPanicStep, LogAppendStep,
     EndOpStep, EndOpLastStep, Zenon DEF Write, End
<1>4. ASSUME NEW p \in Proc, Commit(p)
      PROVE  Kept
  BY <1>4, WriteLogStep, WriteHeadStep, InstallStep, ClearStep, DoneStep, Zenon DEF Commit
<1>5. ASSUME NEW p \in Proc, NEW b \in Block, NEW v \in Val, Modify(p, b, v)
      PROVE  Kept
  BY <1>5, ModifyStep, Zenon
<1> QED
  BY <1>1, <1>2, <1>3, <1>4, <1>5, Zenon DEF Next

LEMMA Invariance == Spec => []Base
<1>1. Init => Base
  BY InitIInv, Zenon DEF IInv
<1>2. Base /\ [Next]_vars => Base'
  BY Inductive, Zenon DEF Kept
<1> QED
  BY <1>1, <1>2, PTL DEF Spec

LEMMA InvarianceInside == Spec /\ []OnDiskFits => []IInv
<1>1. Init => IInv
  BY InitIInv, Zenon
<1>2. IInv /\ OnDiskFits /\ [Next]_vars => IInv'
  BY Inductive, Zenon DEF IInv, Kept
<1> QED
  BY <1>1, <1>2, PTL DEF Spec

\* Type correctness of the log.
THEOREM TypeCorrect == Spec => []TypeOK
<1>1. Base => TypeOK
  BY Zenon DEF Base
<1> QED
  BY <1>1, Invariance, PTL

\* The reservation of begin_op() is enough, for any number of operations:
\* log_write() never runs past the end of log.lh.block.
THEOREM HeaderIsNeverOverrun == Spec => []HeaderFits
<1>1. Base => HeaderFits
  BY Fits, Zenon DEF Base, HeaderFits
<1> QED
  BY <1>1, Invariance, PTL

\* Whoever waits in begin_op() waits for somebody who will call wakeup(&log).
THEOREM NobodyIsStranded == Spec => []NoStrandedSleeper
<1>1. Base => NoStrandedSleeper
  BY Zenon DEF Base
<1> QED
  BY <1>1, Invariance, PTL

-----------------------------------------------------------------------------
(* The refinement of AtomicDisk *)

\* What reads return.
Volatile == IF sys \in {"up", "halted"} THEN cache ELSE Recovered

\* A step that changes neither what is read, nor what is durable, nor who is
\* in an operation, is a stutter.
LEMMA Stutters ==
  ASSUME Volatile' = Volatile, Recovered' = Recovered, Operations' = Operations
  PROVE  UNCHANGED Disk!vars
BY Zenon DEF Disk!vars, Volatile

\* An empty header on the disk leaves the home blocks as they are.
LEMMA NothingToInstall ==
  ASSUME TypeOK, dhead = <<>>
  PROVE  Recovered = home
BY DEF Recovered, TypeOK

\* Recovery undoes whatever the home of a block in the header holds.
LEMMA InstallIsInvisible ==
  ASSUME TypeOK, InstallBlock, Len(dhead) < SIZE, dhead = lh, lh' = lh, dhead' = dhead, dlog' = dlog
  PROVE  Recovered' = Recovered
<1>1. tail \in 1..Len(dhead)
  BY DEF TypeOK, InstallBlock
<1>2. ASSUME NEW b \in Block
      PROVE  Recovered'[b] = Recovered[b]
  <2>1. CASE \E i \in 1..Len(dhead) : dhead[i] = b
    <3> DEFINE k == CHOOSE i \in 1..Len(dhead) : dhead[i] = b
    <3>1. /\ k \in 1..Len(dhead) /\ Recovered[b] = LogBlock(k, home)
          /\ Recovered'[b] = LogBlock(k, home)'
      BY <2>1, Zenon DEF Recovered
    <3>2. k \in Nat /\ k < SIZE
      BY <1>1, <3>1, LogAssumption DEF TypeOK
    <3> QED
      BY <3>1, <3>2, Zenon DEF LogBlock
  <2>2. CASE ~ \E i \in 1..Len(dhead) : dhead[i] = b
    <3>1. b # lh[tail]
      BY <1>1, <2>2, Zenon
    <3>2. home'[b] = home[b]
      BY <3>1, Zenon DEF InstallBlock, TypeOK
    <3> QED
      BY <2>2, <3>2, Zenon DEF Recovered
  <2> QED
    BY <2>1, <2>2, Zenon
<1> QED
  BY <1>2, Zenon DEF Recovered

\* write_head() makes durable what the cache holds.
LEMMA HeadCommits ==
  ASSUME IInv, OnDiskFits, NEW p \in Proc, WriteHead(p)
  PROVE  Recovered' = cache /\ Operations = {} /\ Operations' = {}
<1>1. /\ TypeOK /\ pc[p] = "write_log" /\ tail > Len(lh) /\ dhead' = lh /\ home' = home /\ dlog' = dlog
      /\ Goto(p, "install") /\ "install" \in Label
  BY Zenon DEF IInv, Base, WriteHead, At, Label
<1>2. /\ Operations = {} /\ Len(lh) \in Nat /\ Len(lh) < SIZE
      /\ \A c \in Block : cache[c] = home[c] \/ Logged(c)
  BY <1>1, Committing, Zenon DEF IInv, OnDiskFits
<1>3. Operations' = {}
  BY <1>1, <1>2, Moves, Zenon
<1>4. tail \in Nat /\ \A i \in 1..Len(lh) : i < tail
  BY <1>1, <1>2 DEF TypeOK
<1>5. \A i \in 1..Len(lh) : dlog[i] = cache[lh[i]]
  BY <1>1, <1>4, Zenon DEF IInv, Copies
<1>6. ASSUME NEW b \in Block
      PROVE  Recovered'[b] = cache[b]
  <2>1. CASE \E i \in 1..Len(lh) : lh[i] = b
    <3> DEFINE k == CHOOSE i \in 1..Len(lh) : lh[i] = b
    <3>1. k \in 1..Len(lh) /\ lh[k] = b
      BY <2>1, Zenon
    <3>2. k \in Nat /\ k < SIZE
      BY <1>2, <3>1, LogAssumption
    <3>3. Recovered'[b] = LogBlock(k, home)
      BY <1>1, <2>1, Zenon DEF Recovered, LogBlock
    <3>4. Recovered'[b] = dlog[k]
      BY <3>2, <3>3, Inside, Zenon
    <3> QED
      BY <1>5, <3>1, <3>4, Zenon
  <2>2. CASE ~ \E i \in 1..Len(lh) : lh[i] = b
    BY <1>1, <1>2, <2>2, Zenon DEF Recovered, Logged
  <2> QED
    BY <2>1, <2>2, Zenon
<1>7. Recovered' = [b \in Block |-> Recovered'[b]] /\ cache = [b \in Block |-> cache[b]]
  BY <1>1, Zenon DEF Recovered, TypeOK
<1> QED
  BY <1>2, <1>3, <1>6, <1>7, Zenon

\* A step that leaves the disk alone.
LEMMA SameDisk ==
  ASSUME home' = home, dlog' = dlog, dhead' = dhead
  PROVE  Recovered' = Recovered
BY Zenon DEF Recovered, LogBlock

\* begin_op(), log_write() and end_op() are steps of AtomicDisk.
LEMMA OperationRefines ==
  ASSUME IInv, NEW p \in Proc,
         Call(p) \/ BeginSleep(p) \/ BeginOp(p) \/ Write(p) \/ End(p)
  PROVE  [Disk!Next]_Disk!vars
<1>1. TypeOK /\ {"begin", "sleep", "op", "append", "idle", "done", "write_log"} \subseteq Label
  BY Zenon DEF IInv, Base, Label
<1>2. Recovered' = Recovered /\ cache' = cache
  BY SameDisk, Zenon DEF Call, BeginSleep, BeginOp, Write, End, LogCheck, LogPanic, LogAppend, EndOp, EndOpLast,
                  diskVars
<1>3. sys = "up" /\ sys' \in {"up", "halted"}
  BY Zenon DEF Call, BeginSleep, BeginOp, Write, End, LogCheck, LogPanic, LogAppend, EndOp, EndOpLast,
         CommitPanic, At
<1>4. Volatile' = Volatile
  BY <1>2, <1>3, Zenon DEF Volatile
<1>5. CASE Call(p) \/ BeginSleep(p)
  <2>1. Operations' = Operations \ {p}
    BY <1>1, <1>5, Moves, Zenon DEF Call, BeginSleep
  <2>2. p \notin Operations
    BY <1>5, Zenon DEF Operations, Call, BeginSleep, At
  <2> QED
    BY <1>2, <1>4, <2>1, <2>2, Stutters, Zenon
<1>6. CASE BeginOp(p)
  <2>1. Operations' = Operations \cup {p}
    BY <1>1, <1>6, Moves, Zenon DEF BeginOp
  <2>2. p \notin Operations
    BY <1>6, Zenon DEF Operations, BeginOp, At
  <2>3. Disk!Begin(p)
    BY <1>2, <1>4, <2>1, <2>2, Zenon DEF Disk!Begin, Volatile
  <2> QED
    BY <2>3, Zenon DEF Disk!Next
<1>7. CASE Write(p)
  <2>1. Operations' = Operations
    <3>1. CASE LogCheck(p)
      <4>1. Operations' = Operations \cup {p}
        BY <1>1, <3>1, Moves, Zenon DEF LogCheck
      <4>2. p \in Operations
        BY <3>1, Zenon DEF Operations, LogCheck, At
      <4> QED
        BY <4>1, <4>2, Zenon
    <3>2. CASE LogPanic(p)
      BY <3>2, Zenon DEF LogPanic, Operations
    <3>3. CASE LogAppend(p)
      <4>1. Operations' = Operations \cup {p}
        BY <1>1, <3>3, Moves, Zenon DEF LogAppend
      <4>2. p \in Operations
        BY <3>3, Zenon DEF Operations, LogAppend, At
      <4> QED
        BY <4>1, <4>2, Zenon
    <3> QED
      BY <1>7, <3>1, <3>2, <3>3, Zenon DEF Write
  <2> QED
    BY <1>2, <1>4, <2>1, Stutters, Zenon
<1>8. CASE End(p)
  <2>1. Operations' = Operations \ {p}
    <3>1. CASE EndOp(p)
      BY <1>1, <3>1, Moves DEF EndOp
    <3>2. CASE EndOpLast(p)
      <4>1. Goto(p, "done") \/ Goto(p, "write_log")
        BY <3>2, Zenon DEF EndOpLast
      <4> QED
        BY <1>1, <4>1, Moves, Zenon
    <3> QED
      BY <1>8, <3>1, <3>2, Zenon DEF End
  <2>2. p \in Operations
    BY <1>8, Zenon DEF Operations, End, EndOp, EndOpLast, At
  <2>3. Disk!End(p)
    BY <1>2, <1>4, <2>1, <2>2, Zenon DEF Disk!End, Volatile
  <2> QED
    BY <2>3, Zenon DEF Disk!Next
<1> QED
  BY <1>5, <1>6, <1>7, <1>8, Zenon

\* Modifying a buffer is the write that the others see.
LEMMA ModifyRefines ==
  ASSUME IInv, NEW p \in Proc, NEW b \in Block, NEW v \in Val, Modify(p, b, v)
  PROVE  Disk!Next
<1>1. /\ TypeOK /\ sys = "up" /\ sys' = sys /\ pc[p] = "op" /\ Goto(p, "check") /\ "check" \in Label
      /\ cache' = [cache EXCEPT ![b] = v] /\ home' = home /\ dlog' = dlog /\ dhead' = dhead
  BY Zenon DEF IInv, Base, Modify, At, diskVars, Label
<1>2. Operations' = Operations \cup {p} /\ p \in Operations
  BY <1>1, Moves, Zenon DEF Operations
<1>3. Recovered' = Recovered
  BY <1>1, SameDisk, Zenon
<1>4. Disk!Write(p)
  BY <1>1, <1>2, <1>3, Zenon DEF Disk!Write
<1> QED
  BY <1>4, Zenon DEF Disk!Next

\* Of the steps of commit() only write_head() shows.
LEMMA CommitRefines ==
  ASSUME IInv, OnDiskFits, NEW p \in Proc, Commit(p)
  PROVE  [Disk!Next]_Disk!vars
<1>0. Base /\ Copies /\ TypeOK
  BY Zenon DEF IInv, Base
<1>1. CASE WriteLog(p)
  <2>1. /\ pc[p] = "write_log" /\ sys = "up" /\ sys' = sys /\ pc' = pc /\ dhead' = dhead
        /\ tail <= Len(lh) /\ Len(lh) < SIZE
    BY <1>1, Zenon DEF WriteLog, At, OnDiskFits
  <2>2. tail \in Nat /\ tail < SIZE
    BY <1>0, <2>1, LogAssumption DEF TypeOK
  <2>3. home' = home /\ cache' = cache
    BY <1>1, <2>2, Inside, Zenon DEF WriteLog
  <2>4. \A q \in Proc : pc[q] # "install"
    BY <1>0, <2>1, Committing, ZenonT(60)
  <2>5. dhead = <<>>
    BY <1>0, <2>1, <2>4, Zenon DEF Copies, Live
  <2>6. Recovered' = Recovered
    BY <2>1, <2>3, <2>5 DEF Recovered
  <2>7. Operations' = Operations /\ Volatile' = Volatile
    BY <2>1, <2>3, Zenon DEF Operations, Volatile
  <2> QED
    BY <2>6, <2>7, Stutters, Zenon
<1>2. CASE WriteHead(p)
  <2>1. sys = "up" /\ sys' = sys /\ cache' = cache
    BY <1>2, Zenon DEF WriteHead, At
  <2>2. Recovered' = cache /\ Operations = {} /\ Operations' = {}
    BY <1>2, HeadCommits, Zenon
  <2>3. Disk!Commit
    BY <2>1, <2>2, Zenon DEF Disk!Commit
  <2> QED
    BY <2>3, Zenon DEF Disk!Next
<1>3. CASE Install(p)
  <2>1. /\ pc[p] = "install" /\ sys = "up" /\ sys' = sys /\ InstallBlock /\ lh' = lh /\ dhead' = dhead
        /\ dlog' = dlog /\ pc' = pc
    BY <1>3, Zenon DEF Install, At
  <2>2. dhead = lh /\ Len(dhead) < SIZE
    BY <1>0, <2>1, Zenon DEF Copies
  <2>3. Recovered' = Recovered
    BY <1>0, <2>1, <2>2, InstallIsInvisible, Zenon
  <2>4. cache' = cache
    BY <1>0, <1>3, InstallStep, Zenon
  <2>5. Operations' = Operations /\ Volatile' = Volatile
    BY <2>1, <2>4, Zenon DEF Operations, Volatile
  <2> QED
    BY <2>3, <2>5, Stutters, Zenon
<1>4. CASE Clear(p)
  <2>1. /\ pc[p] = "install" /\ sys = "up" /\ sys' = sys /\ cache' = cache
        /\ Goto(p, "done") /\ "done" \in Label
    BY <1>4, Zenon DEF Clear, At, Label
  <2>2. Recovered' = Recovered
    BY <1>0, <1>4, ClearStep, Zenon
  <2>3. Operations' = Operations \ {p} /\ p \notin Operations
    BY <1>0, <2>1, Moves, Zenon DEF Operations
  <2>4. Volatile' = Volatile
    BY <2>1, Zenon DEF Volatile
  <2> QED
    BY <2>2, <2>3, <2>4, Stutters, Zenon
<1>5. CASE Done(p)
  <2>1. /\ pc[p] = "done" /\ sys = "up" /\ sys' = sys /\ cache' = cache /\ home' = home /\ dlog' = dlog
        /\ dhead' = dhead /\ Wakeup(p, "idle") /\ "idle" \in Label
    BY <1>5, Zenon DEF Done, At, Label, diskVars
  <2>2. Recovered' = Recovered
    BY <2>1, SameDisk, Zenon
  <2>3. Operations' = Operations \ {p} /\ p \notin Operations
    BY <1>0, <2>1, Moves DEF Operations
  <2>4. Volatile' = Volatile
    BY <2>1, Zenon DEF Volatile
  <2> QED
    BY <2>2, <2>3, <2>4, Stutters, Zenon
<1> QED
  BY <1>1, <1>2, <1>3, <1>4, <1>5, Zenon DEF Commit

\* A crash falls back to what is durable, at any time, and the recovery, as
\* often as it is begun, does not show.
LEMMA CrashRefines ==
  ASSUME IInv, Crash \/ Recover
  PROVE  [Disk!Next]_Disk!vars
<1>0. Base /\ Copies /\ TypeOK
  BY Zenon DEF IInv, Base
<1>1. CASE Crash
  <2>1. sys' = "read_head" /\ home' = home /\ dlog' = dlog /\ dhead' = dhead
    BY <1>1, Zenon DEF Crash, diskVars
  <2>2. Operations' = {}
    BY <1>1, Zenon DEF Crash, Operations
  <2>3. Recovered' = Recovered
    BY <2>1, SameDisk, Zenon
  <2>4. Disk!Crash
    BY <2>1, <2>2, <2>3, Zenon DEF Disk!Crash
  <2> QED
    BY <2>4, Zenon DEF Disk!Next
<1>2. CASE ReadHead
  <2>1. /\ sys = "read_head" /\ sys' = "install" /\ home' = home /\ dlog' = dlog /\ dhead' = dhead
        /\ pc' = pc
    BY <1>2, Zenon DEF ReadHead, diskVars
  <2>2. Recovered' = Recovered
    BY <2>1, SameDisk, Zenon
  <2>3. Operations' = Operations /\ Volatile' = Volatile
    BY <2>1, <2>2, Zenon DEF Operations, Volatile
  <2> QED
    BY <2>2, <2>3, Stutters, Zenon
<1>3. CASE RecoverInstall
  <2>1. /\ sys = "install" /\ sys' = sys /\ InstallBlock /\ lh' = lh /\ dhead' = dhead /\ dlog' = dlog
        /\ pc' = pc
    BY <1>3, Zenon DEF RecoverInstall
  <2>2. dhead = lh /\ Len(dhead) < SIZE
    BY <1>0, <2>1, Zenon DEF Copies
  <2>3. Recovered' = Recovered
    BY <1>0, <2>1, <2>2, InstallIsInvisible, Zenon
  <2>4. Operations' = Operations /\ Volatile' = Volatile
    BY <2>1, <2>3, Zenon DEF Operations, Volatile
  <2> QED
    BY <2>3, <2>4, Stutters, Zenon
<1>4. CASE RecoverClear
  <2>1. sys = "install" /\ sys' = "up" /\ pc' = pc
    BY <1>4, Zenon DEF RecoverClear
  <2>2. Recovered' = Recovered /\ cache' = Recovered
    BY <1>0, <1>4, RecoverClearStep, Zenon
  <2>3. Operations' = Operations /\ Volatile' = Volatile
    BY <2>1, <2>2, Zenon DEF Operations, Volatile
  <2> QED
    BY <2>2, <2>3, Stutters, Zenon
<1> QED
  BY <1>1, <1>2, <1>3, <1>4, Zenon DEF Recover

\* log.c implements AtomicDisk: the updates of the operations between two
\* commits become durable together, and only when no operation is under way;
\* a crash between any two block writes, of commit() or of the recovery, leaves
\* the last committed state.  That is so as long as write_log() does not run past
\* the end of the log, as it may when fs.h and mkfs.c give it LOGSIZE blocks.
THEOREM TransactionsAreAtomic == Spec /\ []OnDiskFits => ImplementsAtomicDisk
<1>1. Init => Disk!Init
  <2> SUFFICES ASSUME Init
               PROVE  Disk!Init
    BY Zenon
  <2>1. /\ home = [b \in Block |-> Zero] /\ cache = home /\ dhead = <<>> /\ sys = "up"
        /\ pc = [p \in Proc |-> "idle"]
    BY Zenon DEF Init
  <2>2. Recovered = home
    BY InitIInv, <2>1, NothingToInstall, Zenon DEF IInv, Base
  <2>3. Operations = {}
    BY <2>1, Zenon DEF Operations
  <2> QED
    BY <2>1, <2>2, <2>3, Zenon DEF Disk!Init
<1>2. IInv /\ OnDiskFits /\ [Next]_vars => [Disk!Next]_Disk!vars
  <2> SUFFICES ASSUME IInv, OnDiskFits, [Next]_vars
               PROVE  [Disk!Next]_Disk!vars
    BY Zenon
  <2>1. CASE UNCHANGED vars
    <3>1. UNCHANGED <<home, dlog, dhead, cache, pc, sys>>
      BY <2>1, Zenon DEF vars
    <3>2. Recovered' = Recovered
      BY <3>1, SameDisk, Zenon
    <3>3. Operations' = Operations /\ Volatile' = Volatile
      BY <3>1, <3>2, Zenon DEF Operations, Volatile
    <3> QED
      BY <3>2, <3>3, Stutters, Zenon
  <2>2. CASE Next
    BY <2>2, OperationRefines, ModifyRefines, CommitRefines, CrashRefines, Zenon DEF Next
  <2> QED
    BY <2>1, <2>2, Zenon
<1> QED
  BY <1>1, <1>2, InvarianceInside, PTL DEF Spec, ImplementsAtomicDisk, Disk!Spec

\* With a block more for the log, one for the header besides the LOGSIZE that
\* begin_op() reserves, log.c implements AtomicDisk whatever the operations do.
THEOREM LargeLogIsAtomic ==
  ASSUME SIZE > LOGSIZE
  PROVE  Spec => ImplementsAtomicDisk
<1>1. Base => OnDiskFits
  <2> SUFFICES ASSUME Base
               PROVE  Len(lh) < SIZE
    BY Zenon DEF OnDiskFits
  <2>1. Len(lh) <= LOGSIZE /\ Len(lh) \in Nat
    BY Fits DEF Base, TypeOK
  <2> QED
    BY <2>1, LogAssumption
<1> QED
  BY <1>1, Invariance, TransactionsAreAtomic, PTL
=============================================================================
