---------------------------- MODULE LogInvariant ----------------------------
(***************************************************************************)
(* The inductive invariant of the redo log; that log.lh, the cache and the *)
(* disk agree as it says through every step; and that a step it holds of is *)
(* a step of AtomicDisk.                                                   *)
(***************************************************************************)
EXTENDS Log, TLAPS

\* A log that begin_op() fills is not larger than its area on disk.  LOGSIZE counts
\* data blocks, size counts the header too, so that with size = LOGSIZE, as mkfs
\* makes it, a call may write all but one of the MAXOPBLOCKS blocks it reserves.
Fits == LOGSIZE + OpWrites < size + MAXOPBLOCKS

\* Some process is at place l.
At(l) == \E p \in Procs : pc[p] = l

\* The places of commit().
Commits == {"write_log", "install", "end"}

\* No block is listed twice.
Once(s) == \A i, j \in 1..Len(s) : s[i] = s[j] => i = j

\* install_trans() is running, in recovery or in a commit: the header is on disk.
Installing == Booting \/ At("install")

\* The calls in progress are counted by outstanding; one process commits at a time,
\* and while it does no call is in progress; a buffer is locked by one call, which
\* has written it; recovery comes before every call.
CallInv ==
  /\ outstanding = Cardinality(Active)
  /\ outstanding \in Nat /\ (outstanding = 0 <=> Active = {})
  /\ \A p \in Procs : pc[p] = "boot" => Booting
  /\ Booting => ~ committing
  /\ \A p \in Procs : pc[p] \in Commits => committing
  /\ committing => outstanding = 0
  /\ \A p, q \in Procs : pc[p] \in Commits /\ pc[q] \in Commits => p = q
  /\ \A p \in Procs : held[p] # NoBlock <=> pc[p] \in {"append", "panic"}
  /\ \A p \in Procs : held[p] # NoBlock => held[p] \in wrote[p]
  /\ \A p, q \in Procs : held[p] = held[q] /\ held[p] # NoBlock => p = q
  /\ \A p \in Procs : Cardinality(wrote[p]) <= OpWrites

\* log.lh and the header on disk agree while the header is on disk, and the header
\* is empty the rest of the time; both fit the area on disk, and log absorption
\* keeps every block to one place in them.
ListInv ==
  /\ Once(lh)
  /\ Len(lh) <= size - 1 /\ Len(header) <= LOGSIZE
  /\ header = IF Installing THEN lh ELSE <<>>
  /\ Installing \/ At("write_log") => tail <= Len(lh) + 1
  /\ At("end") => lh = <<>>

\* B_DIRTY pins the blocks of log.lh, and only those, until they are installed; a
\* pinned or locked buffer is in the cache.
PinInv ==
  /\ \A b \in dirty : InLog(lh, b) /\ cache[b] # NotCached
  /\ \A p \in Procs : held[p] # NoBlock => cache[held[p]] # NotCached
  /\ \A i \in 1..Len(lh) : ~ Installing => lh[i] \in dirty
  /\ \A i \in 1..Len(lh) : Installing /\ i < tail => lh[i] \notin dirty
  /\ Booting => dirty = {}

\* A buffer that is neither pinned nor locked has the contents of its block on disk.
CleanInv ==
  \A b \in Home : cache[b] # NotCached /\ b \notin dirty /\ (\A q \in Procs : held[q] # b)
    => cache[b] = disk[b]

\* The log's data blocks are copies of the buffers: as far as write_log() has come,
\* and, once the header is written, all of them; the blocks that install_trans() has
\* passed are in place.
CopyInv ==
  /\ \A i \in 1..Len(lh) : At("write_log") /\ i < tail => disk[i] = Bread(lh[i])
  /\ \A i \in 1..Len(lh) : At("install") => disk[i] = Bread(lh[i])
  /\ \A i \in 1..Len(lh) : Installing /\ i < tail => disk[lh[i]] = disk[i]

\* The inductive invariant.
LogInv == TypeOK /\ CallInv /\ ListInv /\ PinInv /\ CleanInv /\ CopyInv
          /\ SpaceReserved /\ SleepsForReason
-----------------------------------------------------------------------------
\* What the constants are, and that block numbers of the file system are not 0.
LEMMA Numbers ==
  /\ size \in Nat /\ NBlocks \in Nat /\ LOGSIZE \in Nat
  /\ MAXOPBLOCKS \in Nat /\ MAXOPBLOCKS > 0 /\ OpWrites \in Nat /\ OpWrites <= MAXOPBLOCKS
  /\ NoBlock \notin Home
  /\ \A b \in Home : b \in 1..size + NBlocks - 1 /\ b >= size /\ b \in Nat
BY LogAssumption DEF Home, NoBlock

\* bread() returns contents.
LEMMA BreadType ==
  ASSUME TypeOK, NEW b \in Home
  PROVE  Bread(b) \in Vals
BY Numbers DEF Bread, TypeOK

\* What a block appended to log.lh changes.
LEMMA InLogAppend ==
  ASSUME NEW s \in Seq(Home), NEW b \in Home
  PROVE  /\ Append(s, b) \in Seq(Home) /\ Len(Append(s, b)) = Len(s) + 1
         /\ \A c \in Home : InLog(Append(s, b), c) <=> InLog(s, c) \/ c = b
<1>1. /\ Append(s, b) \in Seq(Home) /\ Len(Append(s, b)) = Len(s) + 1 /\ Len(s) \in Nat
      /\ \A i \in 1..Len(s) + 1 : Append(s, b)[i] = IF i = Len(s) + 1 THEN b ELSE s[i]
  OBVIOUS
<1> QED
  BY <1>1 DEF InLog

\* A block that was not listed may be appended.
LEMMA OnceAppend ==
  ASSUME NEW s \in Seq(Home), NEW b \in Home, Once(s), ~ InLog(s, b)
  PROVE  Once(Append(s, b))
<1>1. /\ Len(Append(s, b)) = Len(s) + 1 /\ Len(s) \in Nat
      /\ \A i \in 1..Len(s) + 1 : Append(s, b)[i] = IF i = Len(s) + 1 THEN b ELSE s[i]
  OBVIOUS
<1> QED
  BY <1>1 DEF Once, InLog

\* A call in progress is counted.
LEMMA Counted ==
  ASSUME CallInv
  PROVE  outstanding \in Nat /\ (outstanding = 0 <=> Active = {})
BY DEF CallInv

\* Who moves when a call ends; the call was counted, so that nobody was committing.
LEMMA EndMoves ==
  ASSUME TypeOK, CallInv, NEW p \in Procs, EndOp(p)
  PROVE  /\ \A q \in Procs \ {p} : pc'[q] = pc[q] \/ (pc[q] = "sleep" /\ pc'[q] = "begin")
         /\ pc'[p] \in {"user", "end", "write_log"}
         /\ outstanding = 1 <=> pc'[p] # "user"
         /\ outstanding # 1 => \A q \in Procs : pc'[q] # "sleep"
         /\ committing' = IF outstanding = 1 THEN TRUE ELSE committing
         /\ Active' = Active \ {p} /\ p \in Active
         /\ outstanding # 0 /\ ~ committing
<1>1. /\ \A q \in Procs \ {p} : pc'[q] = pc[q] \/ (pc[q] = "sleep" /\ pc'[q] = "begin")
      /\ pc'[p] \in {"user", "end", "write_log"}
      /\ outstanding = 1 <=> pc'[p] # "user"
      /\ outstanding # 1 => \A q \in Procs : pc'[q] # "sleep"
  <2>1. CASE outstanding = 1
    <3>1. PICK l \in {"end", "write_log"} : pc' = [pc EXCEPT ![p] = l]
      BY <2>1 DEF EndOp, Goto
    <3> QED
      BY <2>1, <3>1 DEF EndOp, TypeOK
  <2>2. CASE outstanding # 1
    <3>1. pc' = [q \in Procs |-> IF q = p THEN "user"
                                 ELSE IF pc[q] = "sleep" THEN "begin" ELSE pc[q]]
      BY <2>2 DEF EndOp, EndNotLast, WakeupLog
    <3> QED
      BY <2>2, <3>1
  <2> QED
    BY <2>1, <2>2
<1>2. committing' = IF outstanding = 1 THEN TRUE ELSE committing
  BY Zenon DEF EndOp
<1>3. Active' = Active \ {p} /\ p \in Active
  BY <1>1 DEF EndOp, Active, TypeOK
<1>4. outstanding # 0
  BY <1>3, Counted
<1>5. ~ committing
  BY <1>4 DEF CallInv
<1> QED
  BY <1>1, <1>2, <1>3, <1>4, <1>5

\* The steps of commit() and of the end of end_op().
CommitStep(p) ==
  WriteLog(p) \/ WriteHead(p) \/ InstallTrans(p) \/ Clear(p) \/ Committed(p)

\* Who moves in a step of a commit, during which no call is in progress.
LEMMA CommitMoves ==
  ASSUME TypeOK, CallInv, NEW p \in Procs, CommitStep(p)
  PROVE  /\ \A q \in Procs \ {p} : pc'[q] = pc[q] \/ (pc[q] = "sleep" /\ pc'[q] = "begin")
         /\ pc[p] \in Commits /\ pc'[p] \in Commits \cup {"user"}
         /\ committing' = IF pc'[p] = "user" THEN FALSE ELSE committing
         /\ pc'[p] = "user" => \A q \in Procs : pc'[q] # "sleep"
         /\ outstanding' = outstanding /\ held' = held /\ wrote' = wrote
         /\ Active' = {} /\ Active = {} /\ committing
<1>1. /\ \A q \in Procs \ {p} : pc'[q] = pc[q] \/ (pc[q] = "sleep" /\ pc'[q] = "begin")
      /\ pc[p] \in Commits /\ pc'[p] \in Commits \cup {"user"}
      /\ committing' = IF pc'[p] = "user" THEN FALSE ELSE committing
      /\ pc'[p] = "user" => \A q \in Procs : pc'[q] # "sleep"
  <2>1. CASE WriteLog(p) \/ InstallTrans(p)
    BY <2>1, Zenon DEF WriteLog, InstallTrans, Install, Commits
  <2>2. CASE WriteHead(p) \/ Clear(p)
    BY <2>2, Zenon DEF WriteHead, Clear, Goto, TypeOK, Commits
  <2>3. CASE Committed(p)
    BY <2>3, Zenon DEF Committed, WakeupLog, TypeOK, Commits
  <2> QED
    BY <2>1, <2>2, <2>3, Zenon DEF CommitStep
<1>2. outstanding' = outstanding /\ held' = held /\ wrote' = wrote
  BY DEF CommitStep, WriteLog, WriteHead, InstallTrans, Install, Clear, Committed
<1>3. Active' = Active
  BY <1>1 DEF Active, Commits
<1>4. committing /\ outstanding = 0
  BY <1>1 DEF CallInv
<1>5. Active = {}
  BY <1>4, Counted
<1> QED
  BY <1>1, <1>2, <1>3, <1>4, <1>5

\* While a call is in progress nobody commits or recovers.
LEMMA ActivePhases ==
  ASSUME CallInv, NEW p \in Active
  PROVE  ~ committing /\ \A q \in Procs : pc[q] \notin Commits /\ pc[q] # "boot"
<1>1. outstanding # 0
  BY Counted
<1> QED
  BY <1>1 DEF CallInv, Active, Booting

\* While a call is in progress the log is in no phase.
LEMMA NoPhase ==
  ASSUME CallInv, NEW p \in Active
  PROVE  ~ Booting /\ \A l \in Commits : ~ At(l)
BY ActivePhases, LogAssumption DEF At, Booting, Active

\* The process that commits decides alone in which phase the log is.
LEMMA CommitPhases ==
  ASSUME TypeOK, CallInv, NEW p \in Procs, CommitStep(p)
  PROVE  /\ ~ Booting /\ ~ Booting'
         /\ \A l \in Commits : (At(l) <=> pc[p] = l) /\ (At(l)' <=> pc'[p] = l)
<1>1. \A q \in Procs \ {p} : pc[q] \notin Commits /\ pc'[q] \notin Commits
  BY CommitMoves, Zenon DEF CallInv, Commits
<1>2. pc[p] # "boot" /\ pc'[p] # "boot"
  BY CommitMoves, Zenon DEF Commits
<1> QED
  BY <1>1, <1>2 DEF At, Booting

\* The phase of the log stays the same when no process enters or leaves commit().
LEMMA QuietPhases ==
  ASSUME \A q \in Procs : \/ pc'[q] = pc[q]
                          \/ /\ pc[q] \notin Commits \cup {"boot"}
                             /\ pc'[q] \notin Commits \cup {"boot"}
  PROVE  Booting' = Booting /\ \A l \in Commits : At(l)' = At(l)
BY DEF Booting, At, Commits

\* begin_op() and log_write() leave the phase of the log.
LEMMA PlainPhases ==
  ASSUME TypeOK, CallInv, NEW p \in Procs,
         \/ pc[p] \in {"user", "begin"} /\ BeginRound(p)
         \/ \E b \in Home, v \in Vals : Modify(p, b, v)
         \/ LogWrite(p)
  PROVE  Booting' = Booting /\ \A l \in Commits : At(l)' = At(l)
<1>1. PICK l \in Places : pc' = [pc EXCEPT ![p] = l] /\ l \notin Commits \cup {"boot"}
  BY Zenon DEF BeginRound, Modify, LogWrite, Goto, Places, Commits
<1>2. pc[p] \notin Commits \cup {"boot"}
  BY Zenon DEF Modify, LogWrite, Commits
<1>3. \A q \in Procs : \/ pc'[q] = pc[q]
                       \/ /\ pc[q] \notin Commits \cup {"boot"}
                          /\ pc'[q] \notin Commits \cup {"boot"}
  BY <1>1, <1>2 DEF TypeOK
<1> QED
  BY <1>3, QuietPhases

\* end_op() finds the log in no phase, and its last call begins the commit.
LEMMA EndPhases ==
  ASSUME TypeOK, CallInv, NEW p \in Procs, EndOp(p)
  PROVE  /\ ~ Booting /\ ~ Booting'
         /\ \A l \in Commits : ~ At(l) /\ (At(l)' <=> pc'[p] = l)
<1>1. \A q \in Procs : pc[q] \notin Commits /\ pc[q] # "boot"
  BY EndMoves, ActivePhases, Zenon
<1>2. \A q \in Procs \ {p} : pc'[q] \notin Commits
  BY <1>1, EndMoves, Zenon DEF Commits
<1>3. pc'[p] # "boot"
  BY EndMoves, Zenon
<1> QED
  BY <1>1, <1>2, <1>3 DEF At, Booting

\* The i-th block logged is of the file system, and its copy a data block of the log.
LEMMA LoggedBlocks ==
  ASSUME TypeOK, ListInv, NEW i \in 1..Len(lh)
  PROVE  lh[i] \in Home /\ i \in 1..size - 1 /\ i \in 1..size + NBlocks - 1 /\ i \notin Home
<1>1. Len(lh) \in Nat /\ lh[i] \in Home
  BY DEF TypeOK
<1>2. i \in 1..size - 1
  BY <1>1, Numbers DEF ListInv
<1> QED
  BY <1>1, <1>2, Numbers

\* The same for the block at which the loops of write_log() and install_trans() are.
LEMMA TailBlock ==
  ASSUME TypeOK, ListInv, tail <= Len(lh)
  PROVE  /\ tail \in 1..Len(lh) /\ tail \in 1..size - 1 /\ tail \in 1..size + NBlocks - 1
         /\ lh[tail] \in Home /\ tail \notin Home
<1>1. tail \in 1..Len(lh)
  BY DEF TypeOK
<1> QED
  BY <1>1, LoggedBlocks
-----------------------------------------------------------------------------
\* ListInv is kept by every step that leaves room in the area on disk.
LEMMA ListStep ==
  ASSUME TypeOK, CallInv, ListInv, [Next]_vars, Len(lh') <= size - 1
  PROVE  ListInv'
<1> USE DEF Installing
<1>0. "write_log" \in Commits /\ "install" \in Commits /\ "end" \in Commits
  BY DEF Commits
<1>1. ASSUME NEW p \in Procs,
             \/ pc[p] \in {"user", "begin"} /\ BeginRound(p)
             \/ \E b \in Home, v \in Vals : Modify(p, b, v)
      PROVE  ListInv'
  <2>1. lh' = lh /\ header' = header /\ tail' = tail
    BY <1>1, Zenon DEF BeginRound, Modify
  <2>2. Booting' = Booting /\ \A l \in Commits : At(l)' = At(l)
    BY <1>1, PlainPhases
  <2> QED
    BY <1>0, <2>1, <2>2 DEF ListInv, Once
<1>2. ASSUME NEW p \in Procs, LogWrite(p) PROVE ListInv'
  <2>1. Booting' = Booting /\ \A l \in Commits : At(l)' = At(l)
    BY <1>2, PlainPhases
  <2>2. p \in Active
    BY <1>2 DEF LogWrite, Active
  <2>3. \A q \in Procs : pc[q] \notin Commits /\ pc[q] # "boot"
    BY <2>2, ActivePhases
  <2>4. ~ Booting /\ \A l \in Commits : ~ At(l)
    BY <2>3, LogAssumption DEF At, Booting
  <2>5. header' = header /\ header = <<>>
    BY <1>0, <1>2, <2>4 DEF LogWrite, ListInv
  <2>6. Once(lh')
    <3>1. held[p] \in Home
      BY <1>2 DEF LogWrite, CallInv, TypeOK
    <3> QED
      BY <1>2, <3>1, OnceAppend DEF LogWrite, Logged, TypeOK, ListInv
  <2>7. Len(lh') <= size - 1
    OBVIOUS
  <2> QED
    BY <1>0, <2>1, <2>4, <2>5, <2>6, <2>7 DEF ListInv
<1>3. ASSUME NEW p \in Procs, EndOp(p) PROVE ListInv'
  <2>1. lh' = lh /\ header' = header /\ tail' = 1
    BY <1>3 DEF EndOp
  <2>2. pc'[p] = "end" => lh = <<>>
    <3>1. CASE outstanding = 1
      BY <1>3, <3>1 DEF EndOp, Goto, TypeOK
    <3>2. CASE outstanding # 1
      BY <1>3, <3>2, EndMoves
    <3> QED
      BY <3>1, <3>2
  <2>3. pc'[p] # "install"
    BY <1>3, EndMoves, Zenon
  <2> QED
    BY <1>0, <1>3, <2>1, <2>2, <2>3, EndPhases DEF ListInv, Once, TypeOK
<1>4. ASSUME NEW p \in Procs, CommitStep(p) PROVE ListInv'
  <2>1. /\ ~ Booting /\ ~ Booting'
        /\ \A l \in Commits : (At(l) <=> pc[p] = l) /\ (At(l)' <=> pc'[p] = l)
    BY <1>4, CommitPhases
  <2>2. CASE WriteLog(p)
    <3>1. /\ lh' = lh /\ header' = header /\ tail' = tail + 1 /\ tail <= Len(lh)
          /\ pc[p] = "write_log" /\ pc'[p] = "write_log"
      BY <2>2 DEF WriteLog
    <3> QED
      BY <1>0, <2>1, <3>1 DEF ListInv, Once, TypeOK
  <2>3. CASE WriteHead(p)
    <3>1. lh' = lh /\ header' = lh /\ tail' = 1 /\ pc[p] = "write_log" /\ pc'[p] = "install"
      BY <2>3 DEF WriteHead, Goto, TypeOK
    <3> QED
      BY <1>0, <2>1, <3>1 DEF ListInv, Once, TypeOK
  <2>4. CASE InstallTrans(p)
    <3>1. /\ lh' = lh /\ header' = header /\ tail' = tail + 1 /\ tail <= Len(lh)
          /\ pc[p] = "install" /\ pc'[p] = "install"
      BY <2>4 DEF InstallTrans, Install
    <3> QED
      BY <1>0, <2>1, <3>1 DEF ListInv, Once, TypeOK
  <2>5. CASE Clear(p)
    <3>1. lh' = <<>> /\ header' = <<>> /\ tail' = 1 /\ pc[p] = "install" /\ pc'[p] = "end"
      BY <2>5 DEF Clear, Erase, Goto, TypeOK
    <3> QED
      BY <1>0, <2>1, <3>1, LogAssumption DEF ListInv, Once, TypeOK
  <2>6. CASE Committed(p)
    <3>1. lh' = lh /\ header' = header /\ pc[p] = "end" /\ pc'[p] = "user"
      BY <2>6 DEF Committed, WakeupLog, TypeOK
    <3> QED
      BY <1>0, <2>1, <3>1 DEF ListInv, Once, TypeOK
  <2> QED
    BY <1>4, <2>2, <2>3, <2>4, <2>5, <2>6 DEF CommitStep
<1>5. ASSUME Crash \/ Recover \/ RecoverEnd PROVE ListInv'
  <2>1. \A l \in Commits : ~ At(l)'
    BY <1>5 DEF Crash, Recover, Install, RecoverEnd, Booting, At, Commits
  <2>2. CASE Crash
    <3>1. Booting' /\ lh' = header /\ header' = header /\ tail' = 1
      BY <2>2 DEF Crash, Booting
    <3>2. Once(header)
      BY DEF ListInv, Once
    <3> QED
      BY <1>0, <2>1, <3>1, <3>2 DEF ListInv, Once, TypeOK
  <2>3. CASE Recover
    <3>1. /\ lh' = lh /\ header' = header /\ tail' = tail + 1 /\ tail <= Len(lh)
          /\ Booting /\ Booting'
      BY <2>3 DEF Recover, Install, Booting
    <3> QED
      BY <1>0, <2>1, <3>1 DEF ListInv, Once, TypeOK
  <2>4. CASE RecoverEnd
    <3>1. lh' = <<>> /\ header' = <<>> /\ ~ Booting'
      BY <2>4, LogAssumption DEF RecoverEnd, Erase, Booting
    <3> QED
      BY <1>0, <2>1, <3>1, LogAssumption DEF ListInv, Once, TypeOK
  <2> QED
    BY <1>5, <2>2, <2>3, <2>4
<1>6. CASE UNCHANGED <<lh, header, tail, pc>>
  BY <1>6 DEF ListInv, Once, At, Booting
<1> QED
  BY <1>1, <1>2, <1>3, <1>4, <1>5, <1>6
     DEF Next, ProcStep, KernelStep, CommitStep, BeginOp, BeginAgain, Recycle, vars, memory

\* PinInv is kept by every step.
LEMMA PinStep ==
  ASSUME TypeOK, CallInv, ListInv, PinInv, [Next]_vars
  PROVE  PinInv'
<1> USE DEF Installing
<1>0. /\ "write_log" \in Commits /\ "install" \in Commits /\ "end" \in Commits
      /\ NoBlock \notin Home /\ NotCached \notin Vals
  BY Numbers, LogAssumption, SMTT(30) DEF Commits
<1>1. ASSUME NEW p \in Procs, pc[p] \in {"user", "begin"}, BeginRound(p) PROVE PinInv'
  <2>1. UNCHANGED <<lh, dirty, cache, tail, held>>
    BY <1>1 DEF BeginRound
  <2>2. Booting' = Booting /\ At("install")' = At("install")
    BY <1>0, <1>1, PlainPhases
  <2> QED
    BY <2>1, <2>2, Zenon DEF PinInv, InLog
<1>2. ASSUME NEW p \in Procs, NEW b \in Home, NEW v \in Vals, Modify(p, b, v)
      PROVE  PinInv'
  <2>1. /\ UNCHANGED <<lh, dirty, tail>> /\ cache' = [cache EXCEPT ![b] = v]
        /\ held' = [held EXCEPT ![p] = b]
    BY <1>2, Zenon DEF Modify
  <2>2. Booting' = Booting /\ At("install")' = At("install")
    BY <1>0, <1>2, PlainPhases
  <2>3. \A c \in Home : cache[c] # NotCached => cache'[c] # NotCached
    BY <1>0, <2>1, SMTT(30) DEF TypeOK
  <2>4. \A q \in Procs : held'[q] # NoBlock => cache'[held'[q]] # NotCached
    BY <1>0, <2>1, <2>3, SMTT(30) DEF TypeOK, PinInv
  <2> QED
    BY <2>1, <2>2, <2>3, <2>4, SMTT(30) DEF PinInv, InLog, TypeOK
<1>3. ASSUME NEW p \in Procs, LogWrite(p) PROVE PinInv'
  <2> DEFINE b == held[p]
  <2>1. /\ UNCHANGED <<tail, cache>> /\ lh' = Logged(b) /\ dirty' = dirty \cup {b}
        /\ held' = [held EXCEPT ![p] = NoBlock]
    BY <1>3 DEF LogWrite, Pin
  <2>2. Booting' = Booting /\ At("install")' = At("install")
    BY <1>0, <1>3, PlainPhases
  <2>3. ~ Booting /\ ~ At("install")
    BY <1>0, <1>3, NoPhase, SMTT(30) DEF LogWrite, Active
  <2>4. b \in Home /\ cache[b] # NotCached
    BY <1>0, <1>3, ZenonT(30) DEF LogWrite, CallInv, TypeOK, PinInv
  <2>5. \A c \in Home : InLog(lh', c) <=> InLog(lh, c) \/ c = b
    BY <2>1, <2>4, InLogAppend DEF Logged, TypeOK
  <2>6. \A i \in 1..Len(lh') : lh'[i] \in dirty'
    <3>1. CASE InLog(lh, b)
      BY <2>1, <2>3, <3>1, ZenonT(30) DEF Logged, PinInv
    <3>2. CASE ~ InLog(lh, b)
      <4>1. lh' = Append(lh, b)
        BY <2>1, <3>2 DEF Logged
      <4>2. /\ Len(lh') = Len(lh) + 1 /\ Len(lh) \in Nat
            /\ \A i \in 1..Len(lh) + 1 : lh'[i] = IF i = Len(lh) + 1 THEN b ELSE lh[i]
        BY <2>4, <4>1, SMTT(30) DEF TypeOK
      <4> QED
        BY <2>1, <2>3, <4>2 DEF PinInv
    <3> QED
      BY <3>1, <3>2, SMTT(30)
  <2>7. \A q \in Procs : held'[q] # NoBlock => cache'[held'[q]] # NotCached
    BY <2>1, Zenon DEF TypeOK, PinInv
  <2> QED
    BY <2>1, <2>2, <2>3, <2>4, <2>5, <2>6, <2>7, ZenonT(30) DEF PinInv, TypeOK
<1>4. ASSUME NEW p \in Procs, EndOp(p) PROVE PinInv'
  <2>1. UNCHANGED <<lh, dirty, cache, held>>
    BY <1>4 DEF EndOp
  <2>2. ~ Booting /\ ~ At("install") /\ ~ Booting' /\ ~ At("install")'
    BY <1>0, <1>4, EndPhases, EndMoves, Zenon
  <2> QED
    BY <2>1, <2>2 DEF PinInv, InLog
<1>5. ASSUME Install, Installing, Booting' <=> Booting, At("install")' <=> At("install")
      PROVE  PinInv'
  <2>1. /\ UNCHANGED <<lh, held>> /\ tail' = tail + 1 /\ dirty' = dirty \ {lh[tail]}
        /\ cache' = [cache EXCEPT ![lh[tail]] = disk[tail]] /\ tail <= Len(lh)
    BY <1>5 DEF Install
  <2>2. tail \in 1..Len(lh) /\ lh[tail] \in Home /\ disk[tail] \in Vals
    BY <2>1, TailBlock, ZenonT(30) DEF TypeOK
  <2>3. \A c \in Home : cache[c] # NotCached => cache'[c] # NotCached
    BY <1>0, <2>1, <2>2 DEF TypeOK
  <2>4. \A i \in 1..Len(lh) : i < tail' => lh[i] \notin dirty'
    BY <1>5, <2>1, <2>2 DEF PinInv, TypeOK
  <2>5. \A q \in Procs : held'[q] # NoBlock => cache'[held'[q]] # NotCached
    BY <2>1, <2>3 DEF PinInv, TypeOK
  <2>6. \A c \in dirty' : InLog(lh', c) /\ cache'[c] # NotCached
    BY <2>1, <2>3 DEF PinInv, TypeOK
  <2> QED
    BY <1>5, <2>1, <2>4, <2>5, <2>6 DEF PinInv
<1>6. ASSUME Erase, Installing, UNCHANGED <<dirty, cache, held>>, ~ Booting', ~ At("install")'
      PROVE  PinInv'
  <2>1. lh' = <<>> /\ tail > Len(lh)
    BY <1>6 DEF Erase, LoopEnds
  <2>2. dirty = {}
    BY <1>6, <2>1 DEF PinInv, InLog, TypeOK
  <2> QED
    BY <1>6, <2>1, <2>2 DEF PinInv
<1>7. ASSUME NEW p \in Procs, CommitStep(p) PROVE PinInv'
  <2>1. /\ ~ Booting /\ ~ Booting'
        /\ \A l \in Commits : (At(l) <=> pc[p] = l) /\ (At(l)' <=> pc'[p] = l)
    BY <1>7, CommitPhases
  <2>2. CASE WriteLog(p)
    <3>1. /\ UNCHANGED <<lh, dirty, held>> /\ pc[p] = "write_log" /\ pc'[p] = "write_log"
          /\ cache' = [cache EXCEPT ![lh[tail]] = Bread(lh[tail])] /\ tail <= Len(lh)
      BY <2>2 DEF WriteLog
    <3>2. lh[tail] \in Home /\ Bread(lh[tail]) \in Vals
      BY <3>1, TailBlock, BreadType
    <3>3. \A c \in Home : cache[c] # NotCached => cache'[c] # NotCached
      BY <1>0, <3>1, <3>2, SMTT(30) DEF TypeOK
    <3>4. ~ At("install") /\ ~ At("install")'
      BY <1>0, <2>1, <3>1
    <3> QED
      BY <2>1, <3>1, <3>3, <3>4 DEF PinInv, InLog, TypeOK
  <2>3. CASE WriteHead(p)
    <3>1. UNCHANGED <<lh, dirty, cache, held>> /\ tail' = 1 /\ pc'[p] = "install"
      BY <2>3 DEF WriteHead, Goto, TypeOK
    <3>2. At("install")'
      BY <1>0, <2>1, <3>1
    <3> QED
      BY <2>1, <3>1, <3>2 DEF PinInv, InLog
  <2>4. CASE InstallTrans(p)
    <3>1. Install /\ pc[p] = "install" /\ pc'[p] = "install"
      BY <2>4, SMTT(30) DEF InstallTrans, Install
    <3> QED
      BY <1>0, <1>5, <2>1, <3>1
  <2>5. CASE Clear(p)
    <3>1. Erase /\ UNCHANGED <<dirty, cache, held>> /\ pc[p] = "install" /\ pc'[p] = "end"
      BY <2>5, SMTT(30) DEF Clear, Goto, TypeOK
    <3> QED
      BY <1>0, <1>6, <2>1, <3>1, Zenon
  <2>6. CASE Committed(p)
    <3>1. UNCHANGED <<lh, dirty, cache, held>> /\ pc[p] = "end" /\ pc'[p] = "user"
      BY <2>6 DEF Committed, WakeupLog, TypeOK
    <3>2. ~ At("install") /\ ~ At("install")'
      BY <1>0, <2>1, <3>1, SMTT(30)
    <3> QED
      BY <2>1, <3>1, <3>2, Zenon DEF PinInv, InLog
  <2> QED
    BY <1>7, <2>2, <2>3, <2>4, <2>5, <2>6 DEF CommitStep
<1>8. CASE Crash
  <2>1. Booting' /\ dirty' = {} /\ tail' = 1 /\ \A q \in Procs : held'[q] = NoBlock
    BY <1>8 DEF Crash, Booting
  <2> QED
    BY <2>1, Zenon DEF PinInv
<1>9. CASE Recover
  <2>1. Install /\ Booting /\ (Booting' <=> Booting) /\ (At("install")' <=> At("install"))
    BY <1>9 DEF Recover, Install, Booting, At
  <2> QED
    BY <1>5, <2>1
<1>10. CASE RecoverEnd
  <2>1. Erase /\ Booting /\ UNCHANGED <<dirty, cache, held>> /\ ~ Booting' /\ ~ At("install")'
    BY <1>10, LogAssumption DEF RecoverEnd, Booting, At
  <2> QED
    BY <1>6, <2>1
<1>11. ASSUME NEW b \in Home, Recycle(b) PROVE PinInv'
  <2>1. /\ UNCHANGED <<lh, dirty, held, tail, pc>> /\ b \notin dirty
        /\ cache' = [cache EXCEPT ![b] = NotCached]
        /\ \A q \in Procs : held[q] # b
    BY <1>11 DEF Recycle
  <2> QED
    BY <2>1 DEF PinInv, InLog, TypeOK, At, Booting
<1>12. CASE UNCHANGED vars
  BY <1>12, SMTT(30) DEF vars, memory, PinInv, InLog, At, Booting
<1> QED
  BY <1>1, <1>2, <1>3, <1>4, <1>7, <1>8, <1>9, <1>10, <1>11, <1>12
     DEF Next, ProcStep, KernelStep, CommitStep, BeginOp, BeginAgain

\* CleanInv is kept by every step: only log_write() parts a buffer from its block.
LEMMA CleanStep ==
  ASSUME TypeOK, CallInv, ListInv, CleanInv, [Next]_vars
  PROVE  CleanInv'
<1>0. NoBlock \notin Home
  BY Numbers
<1>1. ASSUME UNCHANGED <<disk, cache, dirty, held>> PROVE CleanInv'
  BY <1>1 DEF CleanInv
<1>2. ASSUME NEW p \in Procs, NEW b \in Home, NEW v \in Vals, Modify(p, b, v)
      PROVE  CleanInv'
  <2>1. /\ UNCHANGED <<disk, dirty>> /\ cache' = [cache EXCEPT ![b] = v]
        /\ held' = [held EXCEPT ![p] = b] /\ held[p] = NoBlock
    BY <1>2, Zenon DEF Modify, CallInv
  <2>2. held'[p] = b /\ \A q \in Procs : held[q] \in Home => held'[q] = held[q]
    BY <1>0, <2>1 DEF TypeOK
  <2> QED
    BY <2>1, <2>2, SMTT(30) DEF CleanInv, TypeOK
<1>3. ASSUME NEW p \in Procs, LogWrite(p) PROVE CleanInv'
  <2>1. /\ UNCHANGED <<disk, cache>> /\ dirty' = dirty \cup {held[p]}
        /\ held' = [held EXCEPT ![p] = NoBlock]
    BY <1>3 DEF LogWrite, Pin
  <2> QED
    BY <2>1 DEF CleanInv, TypeOK
<1>4. ASSUME NEW p \in Procs, WriteLog(p) PROVE CleanInv'
  <2>1. /\ UNCHANGED <<dirty, held>> /\ tail <= Len(lh)
        /\ disk' = [disk EXCEPT ![tail] = Bread(lh[tail])]
        /\ cache' = [cache EXCEPT ![lh[tail]] = Bread(lh[tail])]
    BY <1>4, SMTT(30) DEF WriteLog
  <2>2. \A b \in Home : disk'[b] = disk[b]
    BY <2>1, TailBlock, Numbers, SMTT(30) DEF TypeOK
  <2> QED
    BY <2>1, <2>2, TailBlock DEF CleanInv, TypeOK, Bread
<1>5. CASE Install
  <2>1. /\ UNCHANGED held /\ tail <= Len(lh) /\ dirty' = dirty \ {lh[tail]}
        /\ disk' = [disk EXCEPT ![lh[tail]] = disk[tail]]
        /\ cache' = [cache EXCEPT ![lh[tail]] = disk[tail]]
    BY <1>5 DEF Install
  <2>2. lh[tail] \in Home
    BY <2>1, TailBlock
  <2> QED
    BY <2>1, <2>2, Numbers, SMTT(30) DEF CleanInv, TypeOK
<1>6. CASE Crash
  BY <1>6 DEF Crash, CleanInv
<1>7. ASSUME NEW b \in Home, Recycle(b) PROVE CleanInv'
  BY <1>7 DEF Recycle, CleanInv, TypeOK
<1> QED
  BY <1>1, <1>2, <1>3, <1>4, <1>5, <1>6, <1>7
     DEF Next, ProcStep, KernelStep, BeginOp, BeginAgain, BeginRound, EndOp, WriteHead,
         InstallTrans, Clear, Committed, Recover, RecoverEnd, vars, memory

\* bread() returns the same contents after a buffer is recycled,
LEMMA RecycleBread ==
  ASSUME TypeOK, CleanInv, NEW b \in Home, Recycle(b), NEW c \in Home
  PROVE  Bread(c)' = Bread(c)
<1>1. cache' = [cache EXCEPT ![b] = NotCached] /\ disk' = disk /\ cache[b] = disk[b]
  BY DEF Recycle, CleanInv
<1> QED
  BY <1>1 DEF Bread, TypeOK

\* ... after write_log() has copied a block, which changes no block of the file system,
LEMMA WriteLogBread ==
  ASSUME TypeOK, ListInv, NEW p \in Procs, WriteLog(p), NEW c \in Home
  PROVE  Bread(c)' = Bread(c) /\ disk'[c] = disk[c]
<1>1. /\ tail <= Len(lh)
      /\ disk' = [disk EXCEPT ![tail] = Bread(lh[tail])]
      /\ cache' = [cache EXCEPT ![lh[tail]] = Bread(lh[tail])]
  BY SMTT(30) DEF WriteLog
<1>2. disk'[c] = disk[c]
  BY <1>1, TailBlock, Numbers, Zenon DEF TypeOK
<1>3. lh[tail] \in Home /\ Bread(lh[tail]) # NotCached
  BY <1>1, TailBlock, BreadType, LogAssumption
<1> QED
  BY <1>1, <1>2, <1>3 DEF Bread, TypeOK

\* What install_trans() changes on disk.
LEMMA InstallDisk ==
  ASSUME TypeOK, ListInv, Install, NEW c \in 1..size + NBlocks - 1
  PROVE  disk'[c] = IF c = lh[tail] THEN disk[tail] ELSE disk[c]
BY DEF Install, TypeOK

\* ... and after a commit has installed a block.
LEMMA InstallBread ==
  ASSUME TypeOK, ListInv, CopyInv, At("install"), Install, NEW c \in Home
  PROVE  Bread(c)' = Bread(c)
<1>1. /\ tail <= Len(lh)
      /\ cache' = [cache EXCEPT ![lh[tail]] = disk[tail]]
  BY DEF Install
<1>2. disk[tail] = Bread(lh[tail]) /\ disk[tail] # NotCached /\ lh[tail] \in Home
  BY <1>1, TailBlock, BreadType, LogAssumption DEF CopyInv
<1>3. c # lh[tail] => disk'[c] = disk[c]
  BY InstallDisk, Numbers
<1> QED
  BY <1>1, <1>2, <1>3 DEF Bread, TypeOK

\* CopyInv is kept by every step.
LEMMA CopyStep ==
  ASSUME TypeOK, CallInv, ListInv, CleanInv, CopyInv, [Next]_vars
  PROVE  CopyInv'
<1> USE DEF Installing
<1>0. /\ "write_log" \in Commits /\ "install" \in Commits /\ "end" \in Commits
  BY DEF Commits
<1>1. ASSUME ~ At("write_log")', ~ At("install")', ~ Booting' PROVE CopyInv'
  BY <1>1 DEF CopyInv
<1>2. ASSUME NEW p \in Procs, pc[p] \in {"user", "begin"}, BeginRound(p) PROVE CopyInv'
  <2>1. UNCHANGED <<lh, disk, cache, tail>>
    BY <1>2 DEF BeginRound
  <2>2. Booting' = Booting /\ At("install")' = At("install") /\ At("write_log")' = At("write_log")
    BY <1>0, <1>2, PlainPhases
  <2> QED
    BY <2>1, <2>2 DEF CopyInv, Bread
<1>3. ASSUME NEW p \in Procs, (\E b \in Home, v \in Vals : Modify(p, b, v)) \/ LogWrite(p)
      PROVE  CopyInv'
  <2>1. p \in Active
    BY <1>3, Zenon DEF Modify, LogWrite, Active
  <2>2. ~ Booting /\ ~ At("install") /\ ~ At("write_log")
    BY <1>0, <2>1, NoPhase
  <2>3. Booting' = Booting /\ At("install")' = At("install") /\ At("write_log")' = At("write_log")
    BY <1>0, <1>3, PlainPhases
  <2> QED
    BY <1>1, <2>2, <2>3
<1>4. ASSUME NEW p \in Procs, EndOp(p) PROVE CopyInv'
  <2>1. tail' = 1 /\ ~ Booting' /\ ~ At("install")'
    BY <1>0, <1>4, EndPhases, EndMoves, ZenonT(30) DEF EndOp
  <2> QED
    BY <2>1 DEF CopyInv
<1>5. ASSUME Install, \A c \in Home : At("install") => Bread(c)' = Bread(c), Installing,
             Booting' <=> Booting, At("install")' <=> At("install"), ~ At("write_log")'
      PROVE  CopyInv'
  <2>1. tail \in 1..Len(lh) /\ lh' = lh /\ tail' = tail + 1 /\ Len(lh) \in Nat
    BY <1>5, TailBlock, SMTT(30) DEF Install, TypeOK
  <2>2. \A i \in 1..Len(lh) : disk'[i] = disk[i]
    BY <2>1, InstallDisk, LoggedBlocks, <1>5
  <2>3. ASSUME NEW i \in 1..Len(lh), i < tail' PROVE disk'[lh[i]] = disk'[i]
    <3>1. lh[i] \in Home /\ lh[i] \in 1..size + NBlocks - 1
      BY LoggedBlocks, Numbers
    <3>2. CASE i = tail
      BY <1>5, <2>2, <3>1, <3>2, InstallDisk
    <3>3. CASE i < tail
      <4>1. lh[i] # lh[tail]
        BY <2>1, <3>3 DEF ListInv, Once
      <4> QED
        BY <1>5, <2>2, <3>1, <3>3, <4>1, InstallDisk DEF CopyInv
    <3> QED
      BY <2>1, <2>3, <3>2, <3>3
  <2>4. \A i \in 1..Len(lh) : At("install") => disk'[i] = Bread(lh[i])'
    <3> SUFFICES ASSUME NEW i \in 1..Len(lh), At("install") PROVE disk'[i] = Bread(lh[i])'
      OBVIOUS
    <3>1. PICK c \in Home : c = lh[i]
      BY LoggedBlocks
    <3>2. Bread(c)' = Bread(lh[i])'
      BY <2>1, <3>1 DEF Bread
    <3>3. disk[i] = Bread(c)
      BY <3>1 DEF CopyInv
    <3> QED
      BY <1>5, <2>2, <3>2, <3>3
  <2> QED
    BY <1>5, <2>1, <2>3, <2>4, Zenon DEF CopyInv
<1>6. ASSUME NEW p \in Procs, CommitStep(p) PROVE CopyInv'
  <2>1. /\ ~ Booting /\ ~ Booting'
        /\ \A l \in Commits : (At(l) <=> pc[p] = l) /\ (At(l)' <=> pc'[p] = l)
    BY <1>6, CommitPhases
  <2>2. CASE WriteLog(p)
    <3>1. /\ lh' = lh /\ tail' = tail + 1 /\ pc[p] = "write_log" /\ pc'[p] = "write_log"
          /\ disk' = [disk EXCEPT ![tail] = Bread(lh[tail])] /\ tail <= Len(lh)
      BY <2>2 DEF WriteLog
    <3>2. ~ At("install")' /\ At("write_log")
      BY <1>0, <2>1, <3>1
    <3>3. ASSUME NEW i \in 1..Len(lh), i < tail' PROVE disk'[i] = Bread(lh[i])'
      <4>1. Bread(lh[i])' = Bread(lh[i])
        <5>1. PICK c \in Home : c = lh[i]
          BY LoggedBlocks
        <5>2. Bread(c)' = Bread(lh[i])'
          BY <3>1, <5>1 DEF Bread
        <5> QED
          BY <2>2, <5>1, <5>2, WriteLogBread
      <4>2. disk'[i] = IF i = tail THEN Bread(lh[tail]) ELSE disk[i]
        BY <3>1, LoggedBlocks, TailBlock DEF TypeOK
      <4>3. i # tail => disk[i] = Bread(lh[i])
        BY <3>1, <3>2, <3>3, SMTT(30) DEF CopyInv, TypeOK
      <4> QED
        BY <4>1, <4>2, <4>3
    <3> QED
      BY <2>1, <3>1, <3>2, <3>3 DEF CopyInv
  <2>3. CASE WriteHead(p)
    <3>1. /\ UNCHANGED <<lh, disk, cache>> /\ tail' = 1 /\ tail > Len(lh)
          /\ pc[p] = "write_log" /\ pc'[p] = "install"
      BY <2>3 DEF WriteHead, Goto, LoopEnds, TypeOK
    <3>2. At("write_log") /\ ~ At("write_log")'
      BY <1>0, <2>1, <3>1
    <3>3. \A i \in 1..Len(lh) : disk[i] = Bread(lh[i])
      BY <3>1, <3>2 DEF CopyInv, TypeOK
    <3>4. \A i \in 1..Len(lh) : Bread(lh[i])' = Bread(lh[i])
      BY <3>1 DEF Bread
    <3>5. \A i \in 1..Len(lh') : ~ (i < tail')
      BY <3>1
    <3> QED
      BY <3>1, <3>2, <3>3, <3>4, <3>5, Zenon DEF CopyInv
  <2>4. CASE InstallTrans(p)
    <3>1. Install /\ pc[p] = "install" /\ pc'[p] = "install"
      BY <2>4 DEF InstallTrans, Install
    <3>2. At("install") /\ At("install")' /\ ~ At("write_log")'
      BY <1>0, <2>1, <3>1
    <3> QED
      BY <1>5, <2>1, <3>1, <3>2, InstallBread, Zenon
  <2>5. CASE Clear(p) \/ Committed(p)
    <3>1. pc'[p] \in {"end", "user"}
      BY <2>5 DEF Clear, Committed, WakeupLog, Goto, TypeOK
    <3> QED
      BY <1>0, <1>1, <2>1, <3>1
  <2> QED
    BY <1>6, <2>2, <2>3, <2>4, <2>5 DEF CommitStep
<1>7. CASE Crash
  <2>1. tail' = 1 /\ ~ At("install")'
    BY <1>7 DEF Crash, At
  <2> QED
    BY <2>1 DEF CopyInv
<1>8. CASE Recover
  <2>1. /\ Install /\ Booting /\ (Booting' <=> Booting) /\ ~ At("install") /\ ~ At("install")'
        /\ ~ At("write_log")'
    BY <1>8 DEF Recover, Install, Booting, At
  <2> QED
    BY <1>5, <2>1
<1>9. CASE RecoverEnd
  <2>1. ~ At("write_log")' /\ ~ At("install")' /\ ~ Booting'
    BY <1>9, LogAssumption DEF RecoverEnd, Booting, At
  <2> QED
    BY <1>1, <2>1
<1>10. ASSUME NEW b \in Home, Recycle(b) PROVE CopyInv'
  <2>1. UNCHANGED <<lh, disk, tail, pc>>
    BY <1>10 DEF Recycle
  <2>2. \A i \in 1..Len(lh) : Bread(lh[i])' = Bread(lh[i])
    <3> SUFFICES ASSUME NEW i \in 1..Len(lh) PROVE Bread(lh[i])' = Bread(lh[i])
      OBVIOUS
    <3>1. PICK c \in Home : c = lh[i]
      BY LoggedBlocks
    <3> QED
      BY <1>10, <2>1, <3>1, RecycleBread DEF Bread
  <2> QED
    BY <2>1, <2>2 DEF CopyInv, At, Booting
<1>11. CASE UNCHANGED vars
  BY <1>11 DEF vars, memory, CopyInv, At, Booting, Bread
<1> QED
  BY <1>2, <1>3, <1>4, <1>6, <1>7, <1>8, <1>9, <1>10, <1>11
     DEF Next, ProcStep, KernelStep, CommitStep, BeginOp, BeginAgain
-----------------------------------------------------------------------------
\* The invariant puts every block in place by the time commit() is done.
LEMMA EndDurable ==
  ASSUME LogInv
  PROVE  Durable
<1> USE DEF LogInv
<1> SUFFICES ASSUME NEW p \in Procs, pc[p] = "end"
             PROVE  header = <<>> /\ dirty = {} /\ \A b \in Home : disk[b] = Bread(b)
  BY DEF Durable
<1>1. /\ At("end") /\ ~ At("install") /\ ~ Booting
  BY DEF CallInv, At, Booting, Commits
<1>2. lh = <<>> /\ header = <<>>
  BY <1>1 DEF ListInv, Installing
<1>3. dirty = {}
  BY <1>2, SMTT(30) DEF PinInv, InLog
<1>4. Active = {}
  <2>1. outstanding = 0
    BY DEF CallInv, Commits
  <2> QED
    BY <2>1, Counted
<1>5. \A q \in Procs : held[q] = NoBlock
  BY <1>4 DEF CallInv, Active
<1>6. \A b \in Home : \A q \in Procs : held[q] # b
  BY <1>5, Numbers
<1>7. \A b \in Home : disk[b] = Bread(b)
  BY <1>3, <1>6 DEF CleanInv, Bread
<1> QED
  BY <1>2, <1>3, <1>7
-----------------------------------------------------------------------------
\* The place of block b in list h.
Slot(h, b) == CHOOSE i \in 1..Len(h) : h[i] = b

\* A listed block has its place.
LEMMA SlotOf ==
  ASSUME NEW h, NEW b, InLog(h, b)
  PROVE  Slot(h, b) \in 1..Len(h) /\ h[Slot(h, b)] = b
BY DEF Slot, InLog

\* What recovery makes of the disk, by places.
LEMMA Recovered ==
  /\ AfterRecovery =
       [b \in Home |-> IF InLog(header, b) THEN disk[Slot(header, b)] ELSE disk[b]]
  /\ AfterRecovery' =
       [b \in Home |-> IF InLog(header', b) THEN disk'[Slot(header', b)] ELSE disk'[b]]
BY DEF AfterRecovery, Slot

\* What recovery would make of the disk depends on the disk and the header only,
LEMMA StableSame ==
  ASSUME UNCHANGED <<disk, header>>
  PROVE  AfterRecovery' = AfterRecovery
BY DEF AfterRecovery, InLog

\* ... does not change while write_log() copies, as the header is empty,
LEMMA StableWriteLog ==
  ASSUME LogInv, NEW p \in Procs, WriteLog(p)
  PROVE  AfterRecovery' = AfterRecovery
<1>1. header' = header /\ header = <<>>
  <2>1. ~ Booting /\ ~ At("install")
    BY CommitPhases DEF LogInv, CommitStep, Commits, WriteLog
  <2> QED
    BY <2>1 DEF WriteLog, LogInv, ListInv, Installing
<1>2. \A b \in Home : ~ InLog(header, b)
  BY <1>1 DEF InLog
<1>3. \A b \in Home : disk'[b] = disk[b]
  BY WriteLogBread, SMTT(30) DEF LogInv
<1> QED
  BY <1>1, <1>2, <1>3, Recovered

\* ... nor as install_trans() puts blocks in place,
LEMMA StableInstall ==
  ASSUME LogInv, Installing, Install
  PROVE  AfterRecovery' = AfterRecovery
<1>1. header' = header /\ header = lh /\ tail <= Len(lh)
  BY DEF Install, LogInv, ListInv
<1>2. lh[tail] \in Home /\ tail \in 1..Len(lh)
  BY <1>1, TailBlock DEF LogInv
<1>3. ASSUME NEW b \in Home, InLog(header, b) PROVE disk'[Slot(header, b)] = disk[Slot(header, b)]
  <2>1. Slot(header, b) \in 1..Len(lh)
    BY <1>1, <1>3, SlotOf
  <2>2. Slot(header, b) # lh[tail] /\ Slot(header, b) \in 1..size + NBlocks - 1
    BY <1>2, <2>1, LoggedBlocks DEF LogInv
  <2> QED
    BY <2>2, InstallDisk DEF LogInv
<1>4. ASSUME NEW b \in Home, ~ InLog(header, b) PROVE disk'[b] = disk[b]
  <2>1. b # lh[tail]
    BY <1>1, <1>2, <1>4 DEF InLog
  <2> QED
    BY <2>1, InstallDisk, Numbers DEF LogInv
<1> QED
  BY <1>1, <1>3, <1>4, Recovered

\* ... nor when the header is erased, as every block is in place by then;
LEMMA StableErase ==
  ASSUME LogInv, Installing, Erase, disk' = disk
  PROVE  AfterRecovery' = AfterRecovery /\ \A b \in Home : AfterRecovery[b] = disk[b]
<1>1. header' = <<>> /\ header = lh /\ tail > Len(lh)
  BY DEF Erase, LoopEnds, LogInv, ListInv
<1>2. \A b \in Home : ~ InLog(header', b)
  BY <1>1 DEF InLog
<1>3. ASSUME NEW b \in Home, InLog(header, b) PROVE disk[Slot(header, b)] = disk[b]
  <2>1. Slot(header, b) \in 1..Len(lh) /\ lh[Slot(header, b)] = b
    BY <1>1, <1>3, SlotOf
  <2>2. Slot(header, b) < tail
    BY <1>1, <2>1 DEF LogInv, TypeOK
  <2> QED
    BY <2>1, <2>2 DEF LogInv, CopyInv
<1> QED
  BY <1>2, <1>3, Recovered

\* ... and the write of the header changes it to what the calls see.
LEMMA HeadCommits ==
  ASSUME LogInv, NEW p \in Procs, WriteHead(p)
  PROVE  AfterRecovery' = [b \in Home |-> Bread(b)]
<1>1. header' = lh /\ disk' = disk /\ tail > Len(lh) /\ pc[p] = "write_log" /\ CommitStep(p)
  BY SMTT(30) DEF WriteHead, LoopEnds, CommitStep
<1>2. ~ Booting /\ ~ At("install") /\ At("write_log")
  BY <1>1, CommitPhases, Zenon DEF LogInv, Commits
<1>3. ASSUME NEW b \in Home, InLog(lh, b) PROVE disk[Slot(lh, b)] = Bread(b)
  <2>1. Slot(lh, b) \in 1..Len(lh) /\ lh[Slot(lh, b)] = b
    BY <1>3, SlotOf
  <2>2. Slot(lh, b) < tail
    BY <1>1, <2>1 DEF LogInv, TypeOK
  <2> QED
    BY <1>2, <2>1, <2>2 DEF LogInv, CopyInv
<1>4. ASSUME NEW b \in Home, ~ InLog(lh, b) PROVE disk[b] = Bread(b)
  <2>1. b \notin dirty
    BY <1>4, Zenon DEF LogInv, PinInv
  <2>2. Active = {}
    BY <1>1, CommitMoves, Zenon DEF LogInv
  <2>3. \A q \in Procs : held[q] # b
    BY <2>2, Numbers DEF LogInv, CallInv, Active
  <2> QED
    BY <2>1, <2>3, SMTT(30) DEF LogInv, CleanInv, Bread
<1> QED
  BY <1>1, <1>3, <1>4, Recovered

\* What the calls see stays the same when bread() returns the same.
LEMMA MemSame ==
  ASSUME Booting' = Booting, AfterRecovery' = AfterRecovery,
         \A b \in Home : Booting \/ Bread(b)' = Bread(b)
  PROVE  Contents' = Contents
<1>1. CASE Booting
  BY <1>1 DEF Contents
<1>2. CASE ~ Booting
  BY <1>2 DEF Contents
<1> QED
  BY <1>1, <1>2

\* What bread() returns depends on the disk and the cache only.
LEMMA BreadSame ==
  ASSUME UNCHANGED <<disk, cache>>
  PROVE  \A b \in Home : Bread(b)' = Bread(b)
BY DEF Bread

\* The steps of calls begin, write or end an atomic group, or are not seen.
LEMMA CallRefines ==
  ASSUME LogInv, NEW p \in Procs,
         \/ pc[p] \in {"user", "begin"} /\ BeginRound(p)
         \/ \E b \in Home, v \in Vals : Modify(p, b, v)
         \/ LogWrite(p)
         \/ EndOp(p)
  PROVE  [Atomic!ANext]_(Atomic!avars)
<1> USE DEF LogInv
<1>0. UNCHANGED <<disk, header>> /\ AfterRecovery' = AfterRecovery
  <2>1. UNCHANGED <<disk, header>>
    BY ZenonT(30) DEF BeginRound, Modify, LogWrite, EndOp
  <2> QED
    BY <2>1, StableSame, SMTT(30)
<1>1. CASE pc[p] \in {"user", "begin"} /\ BeginRound(p)
  <2>1. Booting' = Booting
    BY <1>1, PlainPhases
  <2>2. Contents' = Contents
    BY <1>0, <1>1, <2>1, BreadSame, MemSame DEF BeginRound
  <2>3. outstanding' = outstanding \/ outstanding' = outstanding + 1
    BY <1>1 DEF BeginRound
  <2> QED
    BY <1>0, <2>2, <2>3 DEF Atomic!ANext, Atomic!Begin, Atomic!avars
<1>2. ASSUME NEW b \in Home, NEW v \in Vals, Modify(p, b, v)
      PROVE  Atomic!ANext
  <2>1. p \in Active
    BY <1>2 DEF Modify, Active
  <2>2. outstanding > 0
    BY <2>1, Counted
  <2>3. ~ Booting /\ ~ Booting'
    BY <1>2, <2>1, NoPhase, PlainPhases
  <2>4. \A c \in Home : Bread(c)' = IF c = b THEN v ELSE Bread(c)
    BY <1>2, LogAssumption, Zenon DEF Modify, Bread, TypeOK
  <2>5. Contents' = [Contents EXCEPT ![b] = v]
    BY <2>3, <2>4, Zenon DEF Contents
  <2>6. outstanding' = outstanding
    BY <1>2 DEF Modify
  <2> QED
    BY <1>0, <2>2, <2>5, <2>6, ZenonT(30) DEF Atomic!ANext, Atomic!Write
<1>3. CASE LogWrite(p)
  <2>1. Booting' = Booting
    BY <1>3, PlainPhases
  <2>2. Contents' = Contents
    BY <1>0, <1>3, <2>1, BreadSame, MemSame DEF LogWrite
  <2>3. outstanding' = outstanding
    BY <1>3 DEF LogWrite
  <2> QED
    BY <1>0, <2>2, <2>3 DEF Atomic!avars
<1>4. CASE EndOp(p)
  <2>1. ~ Booting /\ ~ Booting'
    BY <1>4, EndPhases, ZenonT(30)
  <2>2. Contents' = Contents
    BY <1>0, <1>4, <2>1, BreadSame DEF EndOp, Contents
  <2>3. outstanding' = outstanding - 1 /\ outstanding > 0
    <3>1. outstanding # 0
      BY <1>4, EndMoves, Zenon
    <3>2. outstanding' = outstanding - 1
      BY <1>4 DEF EndOp
    <3> QED
      BY <3>1, <3>2, Counted
  <2> QED
    BY <1>0, <2>2, <2>3, SMTT(30) DEF Atomic!ANext, Atomic!End
<1> QED
  BY <1>1, <1>2, <1>3, <1>4

\* Of the steps of a commit the write of the header is seen, as the commit.
LEMMA CommitRefines ==
  ASSUME LogInv, NEW p \in Procs, CommitStep(p)
  PROVE  [Atomic!ANext]_(Atomic!avars)
<1> USE DEF LogInv
<1>1. ~ Booting /\ ~ Booting' /\ outstanding' = outstanding
  BY CommitPhases, CommitMoves, Zenon
<1>2. ASSUME AfterRecovery' = AfterRecovery, \A b \in Home : Bread(b)' = Bread(b)
      PROVE  UNCHANGED Atomic!avars
  BY <1>1, <1>2 DEF Contents, Atomic!avars
<1>3. CASE WriteLog(p)
  BY <1>2, <1>3, StableWriteLog, WriteLogBread
<1>4. CASE WriteHead(p)
  <2>1. Contents = [b \in Home |-> Bread(b)]
    BY <1>1 DEF Contents
  <2>2. Contents' = Contents
    BY <1>1, <1>4, BreadSame, SMTT(30) DEF WriteHead, Contents
  <2>3. outstanding = 0
    BY CommitMoves, Zenon DEF CallInv
  <2>4. AfterRecovery' = Contents
    BY <1>4, <2>1, HeadCommits
  <2> QED
    BY <1>1, <2>2, <2>3, <2>4 DEF Atomic!ANext, Atomic!Commit
<1>5. ASSUME pc[p] = "install" PROVE At("install") /\ Installing
  BY <1>5 DEF At, Installing
<1>6. CASE InstallTrans(p)
  BY <1>2, <1>5, <1>6, StableInstall, InstallBread, SMTT(30) DEF InstallTrans
<1>7. CASE Clear(p)
  BY <1>2, <1>5, <1>7, StableErase, BreadSame, ZenonT(30) DEF Clear
<1>8. CASE Committed(p)
  BY <1>2, <1>8, StableSame, BreadSame DEF Committed
<1> QED
  BY <1>3, <1>4, <1>6, <1>7, <1>8, SMTT(30) DEF CommitStep

\* A crash is seen as a crash; recovery is not seen.
LEMMA BootRefines ==
  ASSUME LogInv, Crash \/ Recover \/ RecoverEnd
  PROVE  [Atomic!ANext]_(Atomic!avars)
<1> USE DEF LogInv
<1>1. CASE Crash
  <2>1. AfterRecovery' = AfterRecovery /\ Booting' /\ outstanding' = 0
    BY <1>1, StableSame DEF Crash, Booting
  <2> QED
    BY <2>1 DEF Contents, Atomic!ANext, Atomic!Crash
<1>2. CASE Recover
  <2>1. Installing /\ Install /\ Booting /\ Booting' /\ outstanding' = outstanding
    BY <1>2 DEF Recover, Install, Booting, Installing
  <2>2. AfterRecovery' = AfterRecovery
    BY <2>1, StableInstall
  <2> QED
    BY <2>1, <2>2 DEF Contents, Atomic!avars
<1>3. CASE RecoverEnd
  <2>1. /\ Installing /\ Erase /\ Booting /\ ~ Booting'
        /\ UNCHANGED <<outstanding, disk, cache>>
    BY <1>3, LogAssumption, SMTT(30) DEF RecoverEnd, Booting, Installing
  <2>2. AfterRecovery' = AfterRecovery /\ \A b \in Home : AfterRecovery[b] = disk[b]
    BY <2>1, StableErase, ZenonT(30)
  <2>3. \A b \in Home : Bread(b)' = disk[b]
    <3>1. dirty = {}
      BY <2>1 DEF PinInv
    <3>2. \A b \in Home : \A q \in Procs : held[q] # b
      BY <2>1, Numbers DEF CallInv, Booting
    <3> QED
      BY <2>1, <3>1, <3>2, ZenonT(30) DEF CleanInv, Bread
  <2>4. Contents' = AfterRecovery
    <3>1. AfterRecovery = [b \in Home |-> AfterRecovery[b]]
      BY DEF AfterRecovery
    <3> QED
      BY <2>1, <2>2, <2>3, <3>1 DEF Contents
  <2> QED
    BY <2>1, <2>2, <2>4 DEF Contents, Atomic!avars
<1> QED
  BY <1>1, <1>2, <1>3

\* Every step of the log is a step of AtomicDisk, or is not seen.
LEMMA StepRefines ==
  ASSUME LogInv, [Next]_vars
  PROVE  [Atomic!ANext]_(Atomic!avars)
<1>1. ASSUME NEW b \in Home, Recycle(b) PROVE UNCHANGED Atomic!avars
  <2>1. /\ UNCHANGED <<disk, header, pc, outstanding>> /\ Booting' = Booting
    BY <1>1 DEF Recycle, Booting
  <2>2. AfterRecovery' = AfterRecovery
    BY <2>1, StableSame
  <2>3. \A c \in Home : Bread(c)' = Bread(c)
    BY <1>1, RecycleBread DEF LogInv
  <2> QED
    BY <2>1, <2>2, <2>3, MemSame DEF Atomic!avars
<1>2. CASE UNCHANGED vars
  <2>1. UNCHANGED <<disk, header, cache, pc, outstanding>> /\ Booting' = Booting
    BY <1>2 DEF vars, memory, Booting
  <2> QED
    BY <2>1, StableSame, BreadSame, MemSame DEF Atomic!avars
<1> QED
  BY <1>1, <1>2, CallRefines, CommitRefines, BootRefines
     DEF Next, ProcStep, KernelStep, CommitStep, BeginOp, BeginAgain
=============================================================================
