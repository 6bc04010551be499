----------------------------- MODULE LogProofs ------------------------------
(***************************************************************************)
(* The redo log for any number of processes, blocks and log blocks:        *)
(* begin_op() reserves enough space, a commit is durable, and the log      *)
(* implements AtomicDisk, a disk on which the writes of a group of calls   *)
(* happen at once.                                                         *)
(***************************************************************************)
EXTENDS LogInvariant, FiniteSetTheorems

\* The calls in progress are finitely many.
LEMMA ActiveFinite ==
  /\ IsFiniteSet(Active) /\ Cardinality(Active) \in Nat
  /\ Cardinality(Active) <= Cardinality(Procs)
<1>1. Active \in SUBSET Procs
  BY DEF Active
<1> QED
  BY <1>1, LogAssumption, FS_Subset, FS_CardinalityType

\* The same of the calls in progress after a step, for the count of them.
LEMMA CountedNext ==
  ASSUME outstanding' = Cardinality(Active')
  PROVE  outstanding' \in Nat /\ (outstanding' = 0 <=> Active' = {})
<1>1. Active' \in SUBSET Procs
  BY DEF Active
<1>2. IsFiniteSet(Active')
  BY <1>1, LogAssumption, FS_Subset
<1>3. Cardinality(Active') \in Nat /\ (Cardinality(Active') = 0 <=> Active' = {})
  BY <1>2, FS_EmptySet, FS_CardinalityType
<1> QED
  BY <1>3

\* CallInv holds when the machine starts,
LEMMA InitCalls == Init => CallInv
<1> SUFFICES ASSUME Init PROVE CallInv
  OBVIOUS
<1>1. Active = {}
  BY DEF Init, Active
<1>2. Cardinality(Active) = 0 /\ Cardinality({}) = 0 /\ Active = {}
  BY <1>1, FS_EmptySet
<1> QED
  BY <1>2, Numbers DEF Init, CallInv, Booting, Commits

\* ... and after begin_op() has counted its call, or gone to sleep,
LEMMA BeginCalls ==
  ASSUME TypeOK, CallInv, NEW p \in Procs, pc[p] \in {"user", "begin"}, BeginRound(p)
  PROVE  CallInv'
<1>1. CASE committing \/ ~ Room(Len(lh), outstanding)
  <2>1. pc' = [pc EXCEPT ![p] = "sleep"] /\ outstanding' = outstanding
    BY <1>1 DEF BeginRound, Goto
  <2>2. Active' = Active
    BY <2>1 DEF TypeOK, Active
  <2> QED
    BY <2>1, <2>2 DEF TypeOK, CallInv, BeginRound, Booting, Commits
<1>2. CASE ~ (committing \/ ~ Room(Len(lh), outstanding))
  <2>1. pc' = [pc EXCEPT ![p] = "op"] /\ outstanding' = outstanding + 1 /\ ~ committing
    BY <1>2 DEF BeginRound, Goto
  <2>2. Active' = Active \cup {p} /\ p \notin Active
    BY <2>1 DEF TypeOK, Active
  <2>3. Cardinality(Active') = Cardinality(Active) + 1
    BY <2>2, ActiveFinite, FS_AddElement
  <2>4. outstanding' = Cardinality(Active')
    BY <2>1, <2>3 DEF CallInv
  <2>5. outstanding' \in Nat /\ (outstanding' = 0 <=> Active' = {})
    BY <2>4, CountedNext
  <2> QED
    BY <2>1, <2>2, <2>4, <2>5, Zenon DEF TypeOK, CallInv, BeginRound, Booting, Commits
<1> QED
  BY <1>1, <1>2

\* ... after a call has locked and changed a buffer,
LEMMA ModifyCalls ==
  ASSUME TypeOK, CallInv, NEW p \in Procs, NEW b \in Home, NEW v \in Vals, Modify(p, b, v)
  PROVE  CallInv'
<1>1. PICK l \in {"panic", "append"} : pc' = [pc EXCEPT ![p] = l]
  BY Zenon DEF Modify, Goto
<1>2. Active' = Active
  BY <1>1 DEF Modify, TypeOK, Active
<1>3. \A q \in Procs : Cardinality(wrote'[q]) <= OpWrites
  BY DEF Modify, TypeOK, CallInv
<1>4. b # NoBlock
  BY Numbers
<1> QED
  BY <1>1, <1>2, <1>3, <1>4, ZenonT(60) DEF Modify, TypeOK, CallInv, Booting, Commits

\* ... after log_write() has unlocked it,
LEMMA LogWriteCalls ==
  ASSUME TypeOK, CallInv, NEW p \in Procs, LogWrite(p)
  PROVE  CallInv'
<1>1. Active' = Active
  BY DEF LogWrite, Goto, TypeOK, Active
<1> QED
  BY <1>1 DEF LogWrite, Goto, TypeOK, CallInv, Booting, Commits

\* ... after end_op(), whether or not its call is the last of the group,
LEMMA EndCalls ==
  ASSUME TypeOK, CallInv, NEW p \in Procs, EndOp(p)
  PROVE  CallInv'
<1> USE DEF Commits
<1>1. ~ committing
  BY EndMoves, Zenon
<1>2. \A q \in Procs : pc[q] \notin Commits /\ pc[q] # "boot"
  BY <1>1 DEF CallInv, EndOp, Booting
<1>3. \A q \in Procs : Cardinality(wrote'[q]) <= OpWrites
  BY FS_EmptySet, Numbers DEF EndOp, TypeOK, CallInv
<1>4. \A q \in Procs : pc'[q] \in {"append", "panic"} <=> pc[q] \in {"append", "panic"}
  BY EndMoves, Zenon DEF EndOp
<1>5. held[p] = NoBlock /\ held' = held /\ outstanding' = outstanding - 1
  BY DEF CallInv, EndOp
<1>6. \A q \in Procs : pc'[q] # "boot" /\ (pc'[q] \in Commits => q = p)
  BY <1>2, EndMoves, Zenon
<1>7. ~ Booting'
  BY <1>6 DEF Booting
<1>8. \A q \in Procs : held'[q] # NoBlock => held'[q] \in wrote'[q]
  BY <1>5 DEF CallInv, EndOp, TypeOK
<1>9. outstanding' = Cardinality(Active')
  <2>1. Cardinality(Active \ {p}) = Cardinality(Active) - 1
    BY EndMoves, ActiveFinite, FS_RemoveElement, Zenon
  <2>2. Active' = Active \ {p} /\ outstanding = Cardinality(Active)
    BY EndMoves, Zenon DEF CallInv
  <2> QED
    BY <1>5, <2>1, <2>2, Zenon
<1>11. outstanding' \in Nat /\ (outstanding' = 0 <=> Active' = {})
  BY <1>9, CountedNext
<1>10. (committing' => outstanding' = 0) /\ (pc'[p] \in Commits => committing')
  <2>1. CASE outstanding = 1
    <3>1. outstanding' = 0
      BY <1>5, <2>1
    <3>2. committing' = TRUE
      BY <2>1 DEF EndOp
    <3> QED
      BY <3>1, <3>2
  <2>2. CASE outstanding # 1
    <3>1. committing' = committing /\ pc'[p] = "user"
      BY <2>2, EndMoves
    <3> QED
      BY <1>1, <3>1
  <2> QED
    BY <2>1, <2>2
<1> QED
  BY <1>3, <1>4, <1>5, <1>6, <1>7, <1>8, <1>9, <1>10, <1>11 DEF CallInv

\* ... after each step of a commit,
LEMMA CommitCalls ==
  ASSUME TypeOK, CallInv, NEW p \in Procs, CommitStep(p)
  PROVE  CallInv'
<1>1. \A q \in Procs : pc'[q] # "boot" /\ pc[q] # "boot"
  BY CommitMoves, ZenonT(60) DEF CallInv, Booting, Commits
<1>2. \A q \in Procs : pc'[q] \in Commits => q = p
  BY CommitMoves, Zenon DEF CallInv, Commits
<1>3. \A q \in Procs : pc'[q] \in {"append", "panic"} <=> pc[q] \in {"append", "panic"}
  BY CommitMoves, Zenon DEF Commits
<1>4. ~ Booting'
  BY <1>1 DEF Booting
<1>5. outstanding' = Cardinality(Active') /\ outstanding' = 0 /\ Active' = {}
  BY CommitMoves, Counted, Zenon DEF CallInv
<1>6. pc'[p] \in Commits => committing'
  BY CommitMoves, Zenon DEF Commits
<1>7. held' = held /\ wrote' = wrote
  BY CommitMoves, Zenon
<1> QED
  BY <1>1, <1>2, <1>3, <1>4, <1>5, <1>6, <1>7 DEF CallInv

\* ... after a crash and through recovery,
LEMMA BootCalls ==
  ASSUME TypeOK, CallInv, Crash \/ Recover \/ RecoverEnd
  PROVE  CallInv'
<1>1. /\ outstanding' = 0 /\ committing' = FALSE
      /\ \A p \in Procs : held'[p] = NoBlock /\ Cardinality(wrote'[p]) <= OpWrites
  <2>1. CASE Crash
    BY <2>1, FS_EmptySet, Numbers DEF Crash
  <2>2. CASE Recover \/ RecoverEnd
    <3>1. Active = {}
      BY <2>2 DEF Recover, RecoverEnd, Booting, Active
    <3>2. outstanding = 0
      BY <3>1, Counted
    <3> QED
      BY <2>2, <3>2, Zenon DEF Recover, RecoverEnd, Install, CallInv, Booting, TypeOK
  <2> QED
    BY <2>1, <2>2, Zenon
<1>2. (\A p \in Procs : pc'[p] = "boot") \/ (\A p \in Procs : pc'[p] = "user")
  BY DEF Crash, Recover, RecoverEnd, Booting, Install
<1>3. Active' = {}
  BY <1>2 DEF Active
<1>4. Cardinality(Active') = 0 /\ Active' = {}
  BY <1>3, FS_EmptySet
<1> QED
  BY <1>1, <1>2, <1>4, LogAssumption DEF CallInv, Booting, Commits

\* ... and it does not depend on the rest of the state.
LEMMA RecycleCalls ==
  ASSUME CallInv, UNCHANGED <<outstanding, committing, pc, held, wrote>>
  PROVE  CallInv'
BY DEF CallInv, Active, Booting, Commits

\* CallInv is kept by every step.
LEMMA CallStep ==
  ASSUME TypeOK, CallInv, [Next]_vars
  PROVE  CallInv'
BY BeginCalls, ModifyCalls, LogWriteCalls, EndCalls, CommitCalls, BootCalls, RecycleCalls
   DEF Next, ProcStep, KernelStep, CommitStep, BeginOp, BeginAgain, Recycle, vars, memory
-----------------------------------------------------------------------------
\* The blocks that a call has logged are some of those it has written.
LEMMA LoggedCount ==
  ASSUME wrote \in [Procs -> SUBSET Home], NEW p \in Procs
  PROVE  /\ IsFiniteSet(LoggedBy(p)) /\ Cardinality(LoggedBy(p)) \in Nat
         /\ Cardinality(LoggedBy(p)) <= Cardinality(wrote[p])
         /\ IsFiniteSet(wrote[p]) /\ Cardinality(wrote[p]) \in Nat
<1>1. IsFiniteSet(Home)
  BY Numbers, FS_Interval DEF Home
<1>2. IsFiniteSet(wrote[p])
  BY <1>1, FS_Subset
<1>3. LoggedBy(p) \in SUBSET wrote[p]
  BY DEF LoggedBy
<1> QED
  BY <1>2, <1>3, FS_Subset, FS_CardinalityType

\* At most MAXOPBLOCKS blocks are reserved for each call in progress.
LEMMA ReservedFinite ==
  /\ IsFiniteSet(Reserved) /\ Cardinality(Reserved) \in Nat
  /\ Cardinality(Reserved) <= Cardinality(Active) * MAXOPBLOCKS
<1>1. IsFiniteSet(1..MAXOPBLOCKS) /\ Cardinality(1..MAXOPBLOCKS) = MAXOPBLOCKS
  BY Numbers, FS_Interval
<1>2. /\ IsFiniteSet(Active \X (1..MAXOPBLOCKS))
      /\ Cardinality(Active \X (1..MAXOPBLOCKS)) = Cardinality(Active) * MAXOPBLOCKS
  BY <1>1, ActiveFinite, FS_Product, Zenon
<1>3. Reserved \in SUBSET (Active \X (1..MAXOPBLOCKS))
  BY DEF Reserved
<1> QED
  BY <1>2, <1>3, FS_Subset, FS_CardinalityType

\* What is reserved for one call that has logged at most n blocks.
LEMMA CallSpace ==
  ASSUME wrote \in [Procs -> SUBSET Home], NEW p \in Active, NEW n \in 0..MAXOPBLOCKS,
         Cardinality(LoggedBy(p)) <= n
  PROVE  Cardinality(Reserved) >= MAXOPBLOCKS - n
<1> DEFINE rest == {p} \X ((n + 1)..MAXOPBLOCKS)
<1>1. /\ IsFiniteSet((n + 1)..MAXOPBLOCKS)
      /\ Cardinality((n + 1)..MAXOPBLOCKS) = MAXOPBLOCKS - n
  BY Numbers, FS_Interval
<1>2. IsFiniteSet({p}) /\ Cardinality({p}) = 1
  BY FS_Singleton, Zenon
<1>3. Cardinality(rest) = MAXOPBLOCKS - n
  <2>1. Cardinality(rest) = Cardinality({p}) * Cardinality((n + 1)..MAXOPBLOCKS)
    BY <1>1, <1>2, FS_Product, Zenon
  <2>2. Cardinality(rest) = 1 * (MAXOPBLOCKS - n)
    BY <1>1, <1>2, <2>1, Zenon
  <2> QED
    BY <2>2, Numbers
<1>4. Cardinality(LoggedBy(p)) \in Nat
  <2>1. p \in Procs
    BY DEF Active
  <2> QED
    BY <2>1, LoggedCount
<1>5. rest \in SUBSET Reserved
  <2> SUFFICES ASSUME NEW k \in (n + 1)..MAXOPBLOCKS
               PROVE  <<p, k>> \in Reserved
    OBVIOUS
  <2> QED
    BY <1>4, Numbers DEF Reserved
<1>6. Cardinality(rest) <= Cardinality(Reserved)
  BY <1>5, ReservedFinite, FS_Subset
<1> QED
  BY <1>3, <1>6, ReservedFinite, Numbers

\* Reserved space shrinks as calls end and blocks are logged.
LEMMA Shrinks ==
  ASSUME wrote \in [Procs -> SUBSET Home], wrote' \in [Procs -> SUBSET Home],
         \A q \in Active' : q \in Active /\ wrote[q] \subseteq wrote'[q],
         \A b \in Home : InLog(lh, b) => InLog(lh', b)
  PROVE  Reserved' \subseteq Reserved /\ Cardinality(Reserved') <= Cardinality(Reserved)
<1>1. ASSUME NEW q \in Active'
      PROVE  /\ q \in Active /\ Cardinality(LoggedBy(q)) \in Nat
             /\ Cardinality(LoggedBy(q)') \in Nat
             /\ Cardinality(LoggedBy(q)) <= Cardinality(LoggedBy(q)')
  <2>1. q \in Procs /\ q \in Active
    BY DEF Active
  <2>2. LoggedBy(q) \in SUBSET (LoggedBy(q)')
    BY <2>1 DEF LoggedBy
  <2>3. IsFiniteSet(LoggedBy(q)') /\ Cardinality(LoggedBy(q)') \in Nat
    <3>1. IsFiniteSet(Home)
      BY Numbers, FS_Interval DEF Home
    <3>2. LoggedBy(q)' \in SUBSET Home
      BY <2>1 DEF LoggedBy
    <3> QED
      BY <3>1, <3>2, FS_Subset, FS_CardinalityType
  <2> QED
    BY <2>1, <2>2, <2>3, LoggedCount, FS_Subset
<1>2. ASSUME NEW r \in Reserved' PROVE r \in Reserved
  <2>1. r \in Active' \X (1..MAXOPBLOCKS) /\ r[2] > Cardinality(LoggedBy(r[1])')
    BY DEF Reserved
  <2>2. r[1] \in Active' /\ r[2] \in 1..MAXOPBLOCKS
    BY <2>1
  <2> QED
    BY <1>1, <2>1, <2>2 DEF Reserved
<1>3. Reserved' \in SUBSET Reserved
  BY <1>2
<1> QED
  BY <1>3, ReservedFinite, FS_Subset

\* log_write() either absorbs its block or takes one of the blocks reserved for its
\* call: the list stays inside its area and the space of the other calls is kept.
LEMMA AppendSpace ==
  ASSUME Fits, TypeOK, CallInv, ListInv, SpaceReserved, NEW p \in Procs, LogWrite(p)
  PROVE  /\ lh' \in Seq(Home) /\ Len(lh') <= size - 1 /\ Len(lh') <= LOGSIZE
         /\ SpaceReserved'
<1> DEFINE b == held[p]
<1>1. b \in Home /\ b \in wrote[p]
  BY DEF LogWrite, CallInv, TypeOK
<1>2. Active' = Active /\ p \in Active /\ wrote' = wrote
  BY DEF LogWrite, Goto, TypeOK, Active
<1>3. CASE InLog(lh, b)
  <2>1. lh' = lh
    BY <1>3 DEF LogWrite, Logged
  <2>2. Reserved' = Reserved
    BY <1>2, <2>1 DEF Reserved, LoggedBy
  <2> QED
    BY <2>1, <2>2 DEF TypeOK, ListInv, SpaceReserved
<1>4. CASE ~ InLog(lh, b)
  <2> DEFINE n == Cardinality(LoggedBy(p))
             x == <<p, n + 1>>
  <2>1. lh' = Append(lh, b)
    BY <1>4 DEF LogWrite, Logged
  <2>2. /\ lh' \in Seq(Home) /\ Len(lh') = Len(lh) + 1 /\ Len(lh) \in Nat
        /\ \A c \in Home : InLog(lh', c) <=> InLog(lh, c) \/ c = b
    BY <1>1, <2>1, InLogAppend DEF TypeOK
  <2>3. LoggedBy(p)' = LoggedBy(p) \cup {b} /\ b \notin LoggedBy(p)
    BY <1>1, <1>2, <1>4, <2>2 DEF LoggedBy, TypeOK
  <2>4. n \in Nat /\ IsFiniteSet(LoggedBy(p))
    BY LoggedCount DEF TypeOK
  <2>5. Cardinality(LoggedBy(p)') = n + 1
    BY <2>3, <2>4, FS_AddElement, Zenon
  <2>6. n + 1 <= OpWrites
    <3>1. LoggedBy(p) \cup {b} \in SUBSET wrote[p]
      BY <1>1 DEF LoggedBy
    <3>2. Cardinality(LoggedBy(p) \cup {b}) <= Cardinality(wrote[p])
      BY <3>1, LoggedCount, FS_Subset DEF TypeOK
    <3> QED
      BY <2>3, <2>5, <3>2, <2>4, LoggedCount, Numbers DEF CallInv, TypeOK
  <2>7. Reserved' \subseteq Reserved
    BY <1>2, <2>2, Shrinks DEF TypeOK
  <2>8. x \in Reserved
    BY <1>2, <2>4, <2>6, Numbers DEF Reserved
  <2>9. x \notin Reserved'
    BY <2>4, <2>5 DEF Reserved
  <2>10. Reserved' \in SUBSET (Reserved \ {x})
    BY <2>7, <2>9
  <2>11. /\ IsFiniteSet(Reserved \ {x})
         /\ Cardinality(Reserved \ {x}) = Cardinality(Reserved) - 1
    BY <2>8, ReservedFinite, FS_RemoveElement
  <2>12. Cardinality(Reserved') <= Cardinality(Reserved) - 1 /\ Cardinality(Reserved') \in Nat
    BY <2>10, <2>11, FS_Subset, FS_CardinalityType
  <2>13. Cardinality(Reserved) >= MAXOPBLOCKS - (OpWrites - 1)
    <3>1. OpWrites - 1 \in 0..MAXOPBLOCKS /\ n <= OpWrites - 1
      BY <2>4, <2>6, Numbers
    <3> QED
      BY <3>1, <1>2, CallSpace DEF TypeOK
  <2> QED
    BY <2>2, <2>12, <2>13, ReservedFinite, Numbers DEF SpaceReserved, Fits
<1> QED
  BY <1>3, <1>4

\* begin_op() lets a call in only when all it may write fits.
LEMMA BeginSpace ==
  ASSUME TypeOK, CallInv, SpaceReserved, NEW p \in Procs, pc[p] \in {"user", "begin"},
         BeginRound(p)
  PROVE  SpaceReserved'
<1>1. CASE committing \/ ~ Room(Len(lh), outstanding)
  <2>1. pc' = [pc EXCEPT ![p] = "sleep"] /\ lh' = lh /\ wrote' = wrote
    BY <1>1 DEF BeginRound, Goto
  <2>2. Active' = Active
    BY <2>1 DEF TypeOK, Active
  <2> QED
    BY <2>1, <2>2 DEF SpaceReserved, Reserved, LoggedBy
<1>2. CASE ~ (committing \/ ~ Room(Len(lh), outstanding))
  <2>1. pc' = [pc EXCEPT ![p] = "op"] /\ lh' = lh
    BY <1>2 DEF BeginRound, Goto
  <2>2. Active' = Active \cup {p} /\ p \notin Active
    BY <2>1 DEF TypeOK, Active
  <2>3. IsFiniteSet(Active') /\ Cardinality(Active') = outstanding + 1 /\ outstanding + 1 \in Nat
    BY <2>2, ActiveFinite, FS_AddElement DEF CallInv
  <2>4. IsFiniteSet(1..MAXOPBLOCKS) /\ Cardinality(1..MAXOPBLOCKS) = MAXOPBLOCKS
    BY Numbers, FS_Interval
  <2>5. /\ IsFiniteSet(Active' \X (1..MAXOPBLOCKS))
        /\ Cardinality(Active' \X (1..MAXOPBLOCKS)) = (outstanding + 1) * MAXOPBLOCKS
    BY <2>3, <2>4, FS_Product, ZenonT(60)
  <2>6. Reserved' \in SUBSET (Active' \X (1..MAXOPBLOCKS))
    BY DEF Reserved
  <2>7. Cardinality(Reserved') <= (outstanding + 1) * MAXOPBLOCKS /\ Cardinality(Reserved') \in Nat
    BY <2>5, <2>6, FS_Subset, FS_CardinalityType
  <2>8. Len(lh) + (outstanding + 1) * MAXOPBLOCKS <= LOGSIZE
    BY <1>2 DEF Room
  <2>9. (outstanding + 1) * MAXOPBLOCKS \in Nat
    BY <2>3, Numbers
  <2> QED
    BY <2>1, <2>7, <2>8, <2>9, Numbers DEF SpaceReserved, TypeOK
<1> QED
  BY <1>1, <1>2

\* With no call in progress nothing is reserved.
LEMMA IdleSpace ==
  ASSUME Active' = {}, Len(lh') <= LOGSIZE, Len(lh') \in Nat
  PROVE  SpaceReserved'
<1>1. Reserved' = {}
  BY DEF Reserved
<1>2. Cardinality(Reserved') = 0
  BY <1>1, FS_EmptySet
<1> QED
  BY <1>2 DEF SpaceReserved

\* Space stays reserved while log.lh does not grow.
LEMMA ShrunkSpace ==
  ASSUME TypeOK, SpaceReserved, wrote' \in [Procs -> SUBSET Home], lh' = lh,
         \A q \in Active' : q \in Active /\ wrote[q] \subseteq wrote'[q]
  PROVE  SpaceReserved'
<1>1. Reserved' \in SUBSET Reserved /\ Cardinality(Reserved') <= Cardinality(Reserved)
  BY Shrinks DEF TypeOK
<1>2. Cardinality(Reserved') \in Nat
  BY <1>1, ReservedFinite, FS_Subset, FS_CardinalityType
<1> QED
  BY <1>1, <1>2, ReservedFinite, Numbers DEF SpaceReserved, TypeOK

\* SpaceReserved is kept by every step.
LEMMA SpaceStep ==
  ASSUME Fits, TypeOK, CallInv, ListInv, SpaceReserved, [Next]_vars
  PROVE  SpaceReserved'
<1>1. ASSUME NEW p \in Procs, BeginOp(p) \/ BeginAgain(p) PROVE SpaceReserved'
  BY <1>1, BeginSpace DEF BeginOp, BeginAgain
<1>2. ASSUME NEW p \in Procs, NEW b \in Home, NEW v \in Vals, Modify(p, b, v)
      PROVE  SpaceReserved'
  <2>1. PICK l \in {"panic", "append"} : pc' = [pc EXCEPT ![p] = l]
    BY <1>2, Zenon DEF Modify, Goto
  <2>2. Active' = Active
    BY <1>2, <2>1 DEF Modify, TypeOK, Active
  <2>3. /\ lh' = lh /\ wrote' \in [Procs -> SUBSET Home]
        /\ \A q \in Procs : wrote[q] \subseteq wrote'[q]
    BY <1>2 DEF Modify, TypeOK
  <2> QED
    BY <2>2, <2>3, ShrunkSpace DEF Active
<1>3. ASSUME NEW p \in Procs, LogWrite(p) PROVE SpaceReserved'
  BY <1>3, AppendSpace
<1>4. ASSUME NEW p \in Procs, EndOp(p) PROVE SpaceReserved'
  <2>1. Active' = Active \ {p} /\ Active \subseteq Procs
    BY <1>4, EndMoves, Zenon DEF Active
  <2>2. /\ lh' = lh /\ wrote' \in [Procs -> SUBSET Home]
        /\ \A q \in Procs : q # p => wrote'[q] = wrote[q]
    BY <1>4 DEF EndOp, TypeOK
  <2> QED
    BY <2>1, <2>2, ShrunkSpace
<1>5. ASSUME NEW p \in Procs, CommitStep(p) PROVE SpaceReserved'
  <2>1. Active' = {}
    BY <1>5, CommitMoves, Zenon
  <2>2. lh' = lh \/ lh' = <<>>
    BY <1>5 DEF CommitStep, WriteLog, WriteHead, InstallTrans, Install, Clear, Erase, Committed
  <2> QED
    BY <2>1, <2>2, IdleSpace, Numbers DEF TypeOK
<1>6. CASE Crash \/ Recover \/ RecoverEnd
  <2>1. (\A p \in Procs : pc'[p] = "boot") \/ (\A p \in Procs : pc'[p] = "user")
    BY <1>6 DEF Crash, Recover, RecoverEnd, Booting, Install
  <2>2. Active' = {}
    BY <2>1 DEF Active
  <2>3. lh' = lh \/ lh' = <<>> \/ lh' = header
    BY <1>6 DEF Crash, Recover, RecoverEnd, Install, Erase
  <2> QED
    BY <2>2, <2>3, IdleSpace, Numbers DEF TypeOK, ListInv
<1>7. CASE UNCHANGED <<lh, pc, wrote>>
  BY <1>7 DEF SpaceReserved, Reserved, LoggedBy, Active
<1> QED
  BY <1>1, <1>2, <1>3, <1>4, <1>5, <1>6, <1>7
     DEF Next, ProcStep, KernelStep, CommitStep, Recycle, vars, memory

\* SleepsForReason is kept by every step: end_op() wakes the sleepers whenever it
\* gives space back or a commit ends.
LEMMA SleepStep ==
  ASSUME Fits, TypeOK, CallInv, ListInv, SpaceReserved, SleepsForReason, [Next]_vars
  PROVE  SleepsForReason'
<1>1. (outstanding + 1) * MAXOPBLOCKS \in Nat /\ outstanding \in Nat
  <2>1. outstanding \in Nat
    BY ActiveFinite DEF CallInv
  <2> QED
    BY <2>1, Numbers
<1>2. ASSUME NEW p \in Procs, pc[p] \in {"user", "begin"}, BeginRound(p) PROVE SleepsForReason'
  <2>1. CASE committing \/ ~ Room(Len(lh), outstanding)
    <3>1. committing' = committing /\ lh' = lh /\ outstanding' = outstanding
      BY <1>2, <2>1 DEF BeginRound
    <3> QED
      BY <2>1, <3>1 DEF SleepsForReason, Room
  <2>2. CASE ~ (committing \/ ~ Room(Len(lh), outstanding))
    <3>1. \A q \in Procs : pc[q] # "sleep"
      BY <2>2 DEF SleepsForReason
    <3>2. pc' = [pc EXCEPT ![p] = "op"]
      BY <1>2, <2>2 DEF BeginRound, Goto
    <3>3. \A q \in Procs : pc'[q] # "sleep"
      BY <3>1, <3>2 DEF TypeOK
    <3> QED
      BY <3>3 DEF SleepsForReason
  <2> QED
    BY <2>1, <2>2
<1>3. ASSUME NEW p \in Procs, NEW b \in Home, NEW v \in Vals, Modify(p, b, v)
      PROVE  SleepsForReason'
  <2>1. committing' = committing /\ lh' = lh /\ outstanding' = outstanding
    BY <1>3 DEF Modify
  <2>2. PICK l \in {"panic", "append"} : pc' = [pc EXCEPT ![p] = l]
    BY <1>3, Zenon DEF Modify, Goto
  <2>3. \A q \in Procs : pc'[q] = "sleep" => pc[q] = "sleep"
    BY <2>2 DEF TypeOK
  <2> QED
    BY <2>1, <2>3 DEF SleepsForReason, Room
<1>4. ASSUME NEW p \in Procs, LogWrite(p) PROVE SleepsForReason'
  <2>1. committing' = committing /\ outstanding' = outstanding
    BY <1>4 DEF LogWrite
  <2>2. \A q \in Procs : pc'[q] = "sleep" => pc[q] = "sleep"
    BY <1>4 DEF LogWrite, Goto, TypeOK
  <2>3. held[p] \in Home
    BY <1>4 DEF LogWrite, CallInv, TypeOK
  <2>4. Len(lh) \in Nat /\ Len(lh') \in Nat /\ Len(lh) <= Len(lh')
    BY <1>4, <2>3, InLogAppend DEF LogWrite, Logged, TypeOK
  <2>5. Room(Len(lh'), outstanding) => Room(Len(lh), outstanding)
    BY <1>1, <2>4, Numbers DEF Room
  <2> QED
    BY <2>1, <2>2, <2>5 DEF SleepsForReason, Room
<1>5. ASSUME NEW p \in Procs, EndOp(p) PROVE SleepsForReason'
  <2>1. CASE outstanding = 1
    <3>1. committing' = TRUE
      BY <1>5, <2>1 DEF EndOp
    <3> QED
      BY <3>1 DEF SleepsForReason
  <2>2. CASE outstanding # 1
    <3>1. \A q \in Procs : pc'[q] # "sleep"
      BY <1>5, <2>2, EndMoves
    <3> QED
      BY <3>1 DEF SleepsForReason
  <2> QED
    BY <2>1, <2>2
<1>6. ASSUME NEW p \in Procs, CommitStep(p) PROVE SleepsForReason'
  BY <1>6, CommitMoves, Zenon DEF SleepsForReason
<1>7. CASE Crash \/ Recover \/ RecoverEnd
  <2>1. (\A p \in Procs : pc'[p] = "boot") \/ (\A p \in Procs : pc'[p] = "user")
    BY <1>7 DEF Crash, Recover, RecoverEnd, Booting, Install
  <2> QED
    BY <2>1 DEF SleepsForReason
<1>8. CASE UNCHANGED <<lh, pc, outstanding, committing>>
  BY <1>8 DEF SleepsForReason, Room
<1> QED
  BY <1>2, <1>3, <1>4, <1>5, <1>6, <1>7, <1>8
     DEF Next, ProcStep, KernelStep, CommitStep, BeginOp, BeginAgain, Recycle, vars, memory

\* TypeOK is kept by every step; the log's list stays inside its area on disk, so
\* that write_log() writes data blocks of the log only.
LEMMA TypeStep ==
  ASSUME Fits, TypeOK, CallInv, ListInv, SpaceReserved, [Next]_vars
  PROVE  TypeOK'
<1>0. Cardinality(Procs) \in Nat
  BY LogAssumption, FS_CardinalityType
<1>1. ASSUME NEW p \in Procs, pc[p] \in {"user", "begin"}, BeginRound(p) PROVE TypeOK'
  <2>1. CASE committing \/ ~ Room(Len(lh), outstanding)
    BY <1>1, <2>1 DEF BeginRound, Goto, TypeOK, Places
  <2>2. CASE ~ (committing \/ ~ Room(Len(lh), outstanding))
    <3>1. pc' = [pc EXCEPT ![p] = "op"] /\ outstanding' = outstanding + 1
      BY <1>1, <2>2 DEF BeginRound, Goto
    <3>2. Active \cup {p} \in SUBSET Procs /\ p \notin Active
      BY <1>1 DEF Active
    <3>3. Cardinality(Active \cup {p}) = outstanding + 1
      BY <3>2, ActiveFinite, FS_AddElement, Zenon DEF CallInv
    <3>4. outstanding + 1 <= Cardinality(Procs) /\ Cardinality(Procs) \in Nat
      BY <3>2, <3>3, LogAssumption, FS_Subset, FS_CardinalityType
    <3> QED
      BY <1>1, <3>1, <3>4 DEF BeginRound, TypeOK, Places
  <2> QED
    BY <2>1, <2>2
<1>2. ASSUME NEW p \in Procs, NEW b \in Home, NEW v \in Vals, Modify(p, b, v)
      PROVE  TypeOK'
  <2>1. PICK l \in {"panic", "append"} : pc' = [pc EXCEPT ![p] = l]
    BY <1>2, Zenon DEF Modify, Goto
  <2> QED
    BY <1>2, <2>1 DEF Modify, TypeOK, Places
<1>3. ASSUME NEW p \in Procs, LogWrite(p) PROVE TypeOK'
  <2>1. lh' \in Seq(Home) /\ Len(lh') <= LOGSIZE
    BY <1>3, AppendSpace
  <2>2. held[p] \in Home
    BY <1>3 DEF LogWrite, CallInv, TypeOK
  <2> QED
    BY <1>3, <2>1, <2>2 DEF LogWrite, Goto, Pin, TypeOK, Places
<1>4. ASSUME NEW p \in Procs, EndOp(p) PROVE TypeOK'
  <2>1. pc' \in [Procs -> Places] /\ committing' \in BOOLEAN
    <3>1. CASE outstanding = 1
      <4>1. PICK l \in {"end", "write_log"} : pc' = [pc EXCEPT ![p] = l]
        BY <1>4, <3>1 DEF EndOp, Goto
      <4> QED
        BY <1>4, <3>1, <4>1 DEF EndOp, TypeOK, Places
    <3>2. CASE outstanding # 1
      BY <1>4, <3>2 DEF EndOp, EndNotLast, WakeupLog, TypeOK, Places
    <3> QED
      BY <3>1, <3>2
  <2>2. outstanding - 1 \in 0..Cardinality(Procs)
    <3>1. outstanding # 0
      BY <1>4, EndMoves, Zenon
    <3> QED
      BY <1>0, <3>1 DEF CallInv, TypeOK
  <2>3. wrote' \in [Procs -> SUBSET Home] /\ outstanding' = outstanding - 1 /\ tail' = 1
    BY <1>4 DEF EndOp, TypeOK
  <2>4. UNCHANGED <<disk, header, cache, dirty, lh, held>>
    BY <1>4 DEF EndOp
  <2>5. 1 \in 1..LOGSIZE + 1
    BY Numbers
  <2> QED
    BY <2>1, <2>2, <2>3, <2>4, <2>5 DEF TypeOK
<1>5. ASSUME tail <= Len(lh)
      PROVE  /\ lh[tail] \in Home /\ tail \in 1..size + NBlocks - 1
             /\ disk[tail] \in Vals /\ Bread(lh[tail]) \in Vals /\ tail + 1 \in 1..LOGSIZE + 1
  <2>1. lh[tail] \in Home /\ tail \in 1..size + NBlocks - 1 /\ tail + 1 \in 1..LOGSIZE + 1
    BY <1>5, Numbers DEF TypeOK, ListInv
  <2> QED
    BY <2>1, BreadType DEF TypeOK
<1>6. ASSUME NEW p \in Procs, WriteLog(p) PROVE TypeOK'
  BY <1>5, <1>6 DEF WriteLog, TypeOK
<1>7. ASSUME NEW p \in Procs, WriteHead(p) PROVE TypeOK'
  BY <1>7, Numbers DEF WriteHead, Goto, TypeOK, ListInv, Places
<1>8. CASE Install
  BY <1>5, <1>8, Zenon DEF Install, TypeOK
<1>9. ASSUME Erase, UNCHANGED <<disk, cache, dirty, outstanding, committing, held, wrote>>,
             pc' \in [Procs -> Places]
      PROVE  TypeOK'
  <2>1. <<>> \in Seq(Home) /\ Len(<<>>) = 0
    OBVIOUS
  <2> QED
    BY <1>9, <2>1, LogAssumption DEF Erase, TypeOK
<1>10. ASSUME NEW p \in Procs, Clear(p) PROVE TypeOK'
  BY <1>9, <1>10 DEF Clear, Goto, TypeOK, Places
<1>11. ASSUME NEW p \in Procs, Committed(p) PROVE TypeOK'
  BY <1>11, Zenon DEF Committed, WakeupLog, TypeOK, Places
<1>12. CASE Crash
  <2>1. /\ cache' \in [Home -> Vals \cup {NotCached}] /\ dirty' \subseteq Home
        /\ held' \in [Procs -> Home \cup {NoBlock}] /\ wrote' \in [Procs -> SUBSET Home]
    BY <1>12 DEF Crash
  <2>2. pc' \in [Procs -> Places] /\ committing' \in BOOLEAN
    BY <1>12, Zenon DEF Crash, Places
  <2>3. outstanding' \in 0..Cardinality(Procs) /\ tail' \in 1..LOGSIZE + 1
    BY <1>0, <1>12, Numbers DEF Crash
  <2>4. lh' = header /\ header' = header /\ disk' = disk
    BY <1>12 DEF Crash
  <2> QED
    BY <2>1, <2>2, <2>3, <2>4 DEF TypeOK, ListInv
<1>13. CASE RecoverEnd
  BY <1>9, <1>13 DEF RecoverEnd, Places
<1>14. ASSUME NEW b \in Home, Recycle(b) PROVE TypeOK'
  BY <1>14 DEF Recycle, TypeOK
<1>15. CASE UNCHANGED vars
  BY <1>15 DEF vars, memory, TypeOK
<1> QED
  BY <1>1, <1>2, <1>3, <1>4, <1>6, <1>7, <1>8, <1>10, <1>11, <1>12, <1>13, <1>14, <1>15
     DEF Next, ProcStep, KernelStep, BeginOp, BeginAgain, InstallTrans, Recover
-----------------------------------------------------------------------------
\* The space when the machine starts, and the ranges of the variables.
LEMMA InitFits == Init => TypeOK /\ SpaceReserved /\ SleepsForReason
<1> SUFFICES ASSUME Init PROVE TypeOK /\ SpaceReserved /\ SleepsForReason
  OBVIOUS
<1>1. PICK v \in Vals : disk = [b \in 1..size + NBlocks - 1 |-> v]
  BY DEF Init
<1>2. /\ lh = <<>> /\ header = <<>> /\ Len(lh) = 0 /\ lh \in Seq(Home) /\ tail = 1
      /\ dirty = {} /\ outstanding = 0 /\ committing = FALSE
      /\ cache = [b \in Home |-> NotCached] /\ held = [p \in Procs |-> NoBlock]
      /\ pc = [p \in Procs |-> "boot"] /\ wrote = [p \in Procs |-> {}]
  BY DEF Init
<1>3. Cardinality(Procs) \in Nat
  BY LogAssumption, FS_CardinalityType
<1>4. TypeOK
  <2>1. disk \in [1..size + NBlocks - 1 -> Vals] /\ cache \in [Home -> Vals \cup {NotCached}]
    BY <1>1, <1>2
  <2>2. pc \in [Procs -> Places] /\ held \in [Procs -> Home \cup {NoBlock}]
    BY <1>2 DEF Places
  <2>3. wrote \in [Procs -> SUBSET Home] /\ dirty \subseteq Home /\ committing \in BOOLEAN
    BY <1>2, Zenon
  <2>4. outstanding \in 0..Cardinality(Procs) /\ tail \in 1..LOGSIZE + 1
    BY <1>2, <1>3, Numbers
  <2> QED
    BY <1>2, <2>1, <2>2, <2>3, <2>4, LogAssumption DEF TypeOK
<1>5. SpaceReserved
  <2>1. Active = {}
    BY <1>2 DEF Active
  <2>2. Reserved = {}
    BY <2>1 DEF Reserved
  <2>3. Cardinality(Reserved) = 0
    BY <2>2, FS_EmptySet
  <2> QED
    BY <1>2, <2>3, Numbers DEF SpaceReserved
<1>6. SleepsForReason
  BY <1>2 DEF SleepsForReason
<1> QED
  BY <1>4, <1>5, <1>6

\* The inductive invariant holds when the machine starts.
LEMMA InitLog == Init => LogInv
<1> SUFFICES ASSUME Init PROVE LogInv
  OBVIOUS
<1>1. /\ lh = <<>> /\ header = <<>> /\ Len(lh) = 0 /\ tail = 1 /\ dirty = {}
      /\ \A b \in Home : cache[b] = NotCached
      /\ \A p \in Procs : pc[p] = "boot" /\ held[p] = NoBlock
  BY DEF Init
<1>2. Booting /\ \A l \in Commits : ~ At(l)
  BY <1>1 DEF Booting, At, Commits
<1>3. ListInv
  BY <1>1, <1>2, LogAssumption, SMTT(30) DEF ListInv, Installing, Once, Commits
<1>4. PinInv /\ CleanInv /\ CopyInv
  BY <1>1, <1>2 DEF PinInv, CleanInv, CopyInv, Installing
<1> QED
  BY <1>3, <1>4, InitCalls, InitFits DEF LogInv

\* The list stays inside its area on disk.
LEMMA LengthStep ==
  ASSUME Fits, LogInv, [Next]_vars
  PROVE  Len(lh') <= size - 1
<1> USE DEF LogInv
<1>1. ASSUME NEW p \in Procs, LogWrite(p) PROVE Len(lh') <= size - 1
  BY <1>1, AppendSpace
<1>2. CASE lh' \in {lh, header, <<>>}
  BY <1>2, LogAssumption DEF TypeOK, ListInv
<1> QED
  BY <1>1, <1>2, Zenon
     DEF Next, ProcStep, KernelStep, BeginOp, BeginAgain, BeginRound, Modify, EndOp, WriteLog,
         WriteHead, InstallTrans, Install, Clear, Erase, Committed, Recycle, Crash, Recover,
         RecoverEnd, vars, memory

\* The inductive invariant is kept by every step.
LEMMA LogStep ==
  ASSUME Fits, LogInv, [Next]_vars
  PROVE  LogInv'
<1> USE DEF LogInv
<1>1. TypeOK' /\ CallInv' /\ SpaceReserved' /\ SleepsForReason'
  BY TypeStep, CallStep, SpaceStep, SleepStep
<1>2. Len(lh') <= size - 1
  BY LengthStep
<1> QED
  BY <1>1, <1>2, ListStep, PinStep, CleanStep, CopyStep

\* The inductive invariant holds of every behaviour, crashes included.
THEOREM LogInvariance == ASSUME Fits PROVE Spec => []LogInv
<1>1. Init => LogInv
  BY InitLog
<1>2. LogInv /\ [Next]_vars => LogInv'
  BY LogStep
<1> QED
  BY <1>1, <1>2, PTL DEF Spec

\* LogFits for every number of processes, blocks and log blocks: begin_op() reserves
\* enough, the log never grows past its area on disk, and no process sleeps in
\* begin_op() after the space it waits for came free.
THEOREM LogNeverOverrun == ASSUME Fits PROVE Spec => []LogFits
<1>1. LogInv => LogFits
  BY DEF LogInv, LogFits
<1> QED
  BY <1>1, LogInvariance, PTL

\* Durable for every number of processes and blocks: when the last call of a group
\* leaves commit(), all its writes are in place on disk and the header is erased.
THEOREM CommitsDurable == ASSUME Fits PROVE Spec => []Durable
<1>1. LogInv => Durable
  BY EndDurable
<1> QED
  BY <1>1, LogInvariance, PTL

\* Log implements AtomicDisk for every number of processes, blocks and log blocks:
\* wherever the machine crashes, in recovery too, the writes of a group of calls
\* are on disk all together or not at all.
THEOREM LogIsAtomic == ASSUME Fits PROVE Spec => AllOrNothing
<1>1. Init => Atomic!AInit
  <2> SUFFICES ASSUME Init PROVE Atomic!AInit
    OBVIOUS
  <2>1. LogInv /\ Booting /\ header = <<>> /\ outstanding = 0
    BY InitLog DEF Init, Booting
  <2>2. \A b \in Home : ~ InLog(header, b)
    BY <2>1, SMTT(30) DEF InLog
  <2>3. AfterRecovery \in [Home -> Vals]
    BY <2>1, <2>2, Recovered, Numbers DEF LogInv, TypeOK
  <2> QED
    BY <2>1, <2>3 DEF Atomic!AInit, Contents
<1>2. LogInv /\ [Next]_vars => [Atomic!ANext]_(Atomic!avars)
  BY StepRefines
<1> QED
  BY <1>1, <1>2, LogInvariance, PTL DEF Spec, AllOrNothing, Atomic!ASpec
-----------------------------------------------------------------------------
\* A call writes fewer blocks than it reserves, and the list is shorter than the area
\* on disk even when one more block is to come.
Roomy == OpWrites < MAXOPBLOCKS /\ LOGSIZE + OpWrites + 1 < size + MAXOPBLOCKS

\* log_write() finds room when its call has not used up what it reserved.
LEMMA NoPanic ==
  ASSUME Roomy, LogInv, NotExhausted, [Next]_vars, LogInv'
  PROVE  NotExhausted'
<1>1. Len(lh') <= size - 1
  BY DEF LogInv, ListInv
<1>2. ASSUME NEW p \in Procs, NEW b \in Home, NEW v \in Vals, Modify(p, b, v)
      PROVE  ~ Full(Len(lh))
  <2>1. p \in Active
    BY <1>2, SMTT(30) DEF Modify, Active
  <2>2. Cardinality(LoggedBy(p)) <= OpWrites
    <3>1. Cardinality(wrote[p]) <= OpWrites /\ wrote \in [Procs -> SUBSET Home]
      BY DEF LogInv, TypeOK, CallInv
    <3> QED
      BY <3>1, LoggedCount, Numbers
  <2>3. Cardinality(Reserved) >= MAXOPBLOCKS - OpWrites
    BY <2>1, <2>2, CallSpace, LogAssumption DEF LogInv, TypeOK
  <2>4. Len(lh) \in Nat /\ Len(lh) + Cardinality(Reserved) <= LOGSIZE
    BY SMTT(30) DEF LogInv, TypeOK, SpaceReserved
  <2> QED
    BY <2>3, <2>4, ReservedFinite, Numbers DEF Roomy, Full
<1>3. \A q \in Procs : pc'[q] # "panic"
  <2>1. \A q \in Procs : pc[q] # "panic"
    BY SMTT(30) DEF NotExhausted, Panicked
  <2>2. ASSUME NEW p \in Procs, NEW b \in Home, NEW v \in Vals, Modify(p, b, v)
        PROVE  \A q \in Procs : pc'[q] # "panic"
    BY <1>2, <2>1, <2>2, ZenonT(60) DEF Modify, Goto, LogInv, TypeOK
  <2>3. ASSUME NEW p \in Procs, pc[p] \in {"user", "begin"}, BeginRound(p)
        PROVE  \A q \in Procs : pc'[q] # "panic"
    BY <2>1, <2>3, SMTT(30) DEF BeginRound, Goto, LogInv, TypeOK
  <2>4. ASSUME NEW p \in Procs, LogWrite(p)
        PROVE  \A q \in Procs : pc'[q] # "panic"
    BY <2>1, <2>4, ZenonT(60) DEF LogWrite, Goto, LogInv, TypeOK
  <2>5. ASSUME NEW p \in Procs, EndOp(p)
        PROVE  \A q \in Procs : pc'[q] # "panic"
    BY <2>1, <2>5, EndMoves, ZenonT(60) DEF LogInv
  <2>6. ASSUME NEW p \in Procs, CommitStep(p)
        PROVE  \A q \in Procs : pc'[q] # "panic"
    BY <2>1, <2>6, CommitMoves, Zenon DEF LogInv, Commits
  <2>7. CASE Crash \/ Recover \/ RecoverEnd
    BY <2>1, <2>7 DEF Crash, Recover, Install, RecoverEnd
  <2>8. CASE UNCHANGED pc
    BY <2>1, <2>8
  <2> QED
    BY <2>2, <2>3, <2>4, <2>5, <2>6, <2>7, <2>8, ZenonT(60)
       DEF Next, ProcStep, KernelStep, CommitStep, BeginOp, BeginAgain, Recycle, vars, memory
<1> QED
  BY <1>1, <1>3 DEF NotExhausted, Panicked

\* With one block to spare log_write() never reaches panic("too big a transaction"):
\* for LOGSIZE = size = 30 and MAXOPBLOCKS = 10 that is a call of at most 8 blocks.
THEOREM NeverTooBig == ASSUME Roomy PROVE Spec => []NotExhausted
<1>1. Fits
  BY Numbers DEF Roomy, Fits
<1>2. Init => NotExhausted
  <2> SUFFICES ASSUME Init PROVE NotExhausted
    OBVIOUS
  <2>1. LogInv
    BY InitLog
  <2> QED
    BY <2>1 DEF Init, LogInv, ListInv, NotExhausted, Panicked
<1>3. LogInv /\ NotExhausted /\ [Next]_vars /\ LogInv' => NotExhausted'
  BY NoPanic
<1>4. Spec => []LogInv
  BY <1>1, LogInvariance
<1> QED
  BY <1>2, <1>3, <1>4, PTL DEF Spec
=============================================================================
