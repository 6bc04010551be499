---------------------------- MODULE BCacheInvariant ---------------------------
(***************************************************************************)
(* The buffer cache for any number of processes, buffers and blocks: a     *)
(* block is in one buffer, the disk's queue and the locks agree, and what  *)
(* a holder sees is what the last one left, also when bget() has run out   *)
(* of buffers for another process.                                         *)
(***************************************************************************)
EXTENDS BCache, TLAPS

\* From the end of bget() to the end of brelse(), and with b->lock held.
HasBuf == {"lock", "locksleep", "bread", "iderw", "use", "brelse"}
HasLock == {"bread", "iderw", "use"}

\* What each place says of the process's buffer and of its lock.
PlaceInv ==
  \A p \in Procs :
    /\ pc[p] \in HasBuf <=> mine[p] # NoBuf
    /\ pc[p] \in HasBuf => want[p] \in Blocks /\ buf[mine[p]].blockno = want[p]
    /\ pc[p] \in HasLock => lock[mine[p]] = p
    /\ pc[p] = "locksleep" => lock[mine[p]] # NoProc

\* A lock that is taken has a process that is where a holder is.
LockInv ==
  \A b \in Bufs : lock[b] # NoProc => pc[lock[b]] \in HasLock /\ mine[lock[b]] = b

\* b's holder sleeps in iderw().
Queued(b) == lock[b] # NoProc /\ pc[lock[b]] = "iderw"

\* The queue has the buffers that wait, each once; the drive works on the first.
QueueInv ==
  /\ \A b \in Bufs : Queued(b) <=> \E i \in DOMAIN idequeue : idequeue[i] = b
  /\ \A i, j \in DOMAIN idequeue : idequeue[i] = idequeue[j] => i = j
  /\ cmd = IF idequeue = <<>> THEN NoCmd ELSE Idestart(idequeue[1], buf)

\* A buffer that is valid and clean has what the disk has.
DataInv ==
  \A b \in Bufs :
    /\ buf[b].dirty => buf[b].valid
    /\ buf[b].valid => buf[b].blockno \in Blocks
    /\ buf[b].valid /\ ~ buf[b].dirty /\ buf[b].blockno \notin BadBlocks
         => buf[b].data = disk[buf[b].blockno]
    /\ lock[b] # NoProc /\ pc[lock[b]] = "use" => buf[b].valid
    /\ Queued(b) => (buf[b].valid <=> buf[b].dirty)

\* TypeOK in parts: the buffers, the list, the disk and the processes.
Struct == [blockno : Nulled(Blocks, NoBlock), valid : BOOLEAN, dirty : BOOLEAN,
           refcnt : Nat, data : Vals]

BufType == buf \in [Bufs -> Struct]

DiskType ==
  /\ idequeue \in Seq(Bufs)
  /\ cmd \in [busy : BOOLEAN, blockno : Nulled(Blocks, NoBlock), write : BOOLEAN, data : Vals]
  /\ disk \in [Blocks -> Vals]

ProcType ==
  /\ lock \in [Bufs -> Nulled(Procs, NoProc)]
  /\ pc \in [Procs -> Places]
  /\ mine \in [Procs -> Nulled(Bufs, NoBuf)]
  /\ want \in [Procs -> Nulled(Blocks, NoBlock)]

Core ==
  /\ BufType /\ DiskType /\ ProcType
  /\ PlaceInv /\ LockInv /\ QueueInv /\ DataInv /\ OneBufferPerBlock

\* What the counts of references must give: a buffer that a process has is in use.
Counted == \A b \in Bufs, p \in Procs : mine[p] = b => buf[b].refcnt # 0

\* A step that pins no buffer, ...
PinStep ==
  \A b \in Bufs : buf'[b].dirty /\ ~ Queued(b)' => buf[b].dirty /\ ~ Queued(b)

\* ... and one that neither takes nor drops a reference.
RefStep == mine' = mine /\ lru' = lru /\ \A b \in Bufs : buf'[b].refcnt = buf[b].refcnt

-----------------------------------------------------------------------------
\* One round of acquiresleep().
LEMMA AcquiresleepKeeps ==
  ASSUME Core, NEW p \in Procs, Acquiresleep(p)
  PROVE  Core' /\ PinStep /\ RefStep
  <1>0. /\ ProcType /\ mine[p] \in Bufs
        /\ UNCHANGED <<buf, lru, idequeue, cmd, disk, mine, want>>
        /\ pc[p] = "lock" /\ NoProc \notin Procs
        /\ \/ pc' = [pc EXCEPT ![p] = "locksleep"] /\ lock' = lock /\ lock[mine[p]] # NoProc
           \/ pc' = [pc EXCEPT ![p] = "bread"] /\ lock[mine[p]] = NoProc
              /\ lock' = [lock EXCEPT ![mine[p]] = p]
    BY BCacheAssumption DEF Core, ProcType, Acquiresleep, Goto, PlaceInv, HasBuf, Nulled
  <1>1. ProcType'
    BY <1>0 DEF ProcType, Places, Nulled
  <1>2. BufType' /\ DiskType' /\ OneBufferPerBlock'
    BY <1>0 DEF Core, BufType, DiskType, OneBufferPerBlock
  <1>3. PlaceInv' /\ LockInv'
    BY <1>0 DEF Core, ProcType, PlaceInv, LockInv, HasBuf, HasLock, Nulled
  <1>4. \A b \in Bufs : Queued(b)' <=> Queued(b)
    BY <1>0 DEF Core, ProcType, LockInv, Queued, HasLock, Nulled
  <1>5. PinStep /\ RefStep
    BY <1>0, <1>4, Zenon DEF PinStep, RefStep
  <1>6. QueueInv'
    BY <1>0, <1>4 DEF Core, QueueInv
  <1>7. DataInv'
    BY <1>0, <1>4 DEF Core, ProcType, DataInv, LockInv, HasLock, Nulled
  <1> QED BY <1>1, <1>2, <1>3, <1>5, <1>6, <1>7 DEF Core

\* releasesleep(): the sleepers of the lock go back to its test.
LEMMA ReleasesleepKeeps ==
  ASSUME Core, NEW p \in Procs, Releasesleep(p)
  PROVE  Core' /\ PinStep /\ RefStep
  <1>0. /\ ProcType /\ mine[p] \in Bufs /\ lock[mine[p]] = p
        /\ UNCHANGED <<buf, lru, idequeue, cmd, disk, mine, want>>
        /\ pc[p] = "use" /\ NoProc \notin Procs
        /\ lock' = [lock EXCEPT ![mine[p]] = NoProc]
        /\ pc' = [q \in Procs |-> IF q = p THEN "brelse"
                    ELSE IF pc[q] = "locksleep" /\ mine[q] = mine[p] THEN "lock" ELSE pc[q]]
    BY BCacheAssumption DEF Core, ProcType, Releasesleep, WakeupLock, PlaceInv, HasBuf, HasLock, Nulled
  <1>1. ProcType'
    BY <1>0 DEF ProcType, Places, Nulled
  <1>2. BufType' /\ DiskType' /\ OneBufferPerBlock'
    BY <1>0 DEF Core, BufType, DiskType, OneBufferPerBlock
  <1>3. PlaceInv'
    BY <1>0 DEF Core, ProcType, PlaceInv, HasBuf, HasLock, Nulled
  <1>4. LockInv'
    BY <1>0 DEF Core, ProcType, LockInv, HasLock, Nulled
  <1>5. \A b \in Bufs : Queued(b)' <=> Queued(b)
    BY <1>0 DEF Core, ProcType, LockInv, Queued, HasLock, Nulled
  <1>6. PinStep /\ RefStep
    BY <1>0, <1>5, Zenon DEF PinStep, RefStep
  <1>7. QueueInv'
    BY <1>0, <1>5 DEF Core, QueueInv
  <1>8. DataInv'
    BY <1>0, <1>5 DEF Core, ProcType, DataInv, LockInv, HasLock, Nulled
  <1> QED BY <1>1, <1>2, <1>3, <1>4, <1>6, <1>7, <1>8 DEF Core

\* iderw() appends the buffer of its caller, and starts the drive if it is idle.
LEMMA IderwKeeps ==
  ASSUME Core, NEW p \in Procs, pc[p] \in {"bread", "use"}, Iderw(p, buf'), BufType',
         UNCHANGED <<lru, lock, disk, mine, want>>,
         \A c \in Bufs : c # mine[p] => buf'[c] = buf[c],
         buf'[mine[p]].blockno = buf[mine[p]].blockno,
         buf'[mine[p]].refcnt = buf[mine[p]].refcnt,
         buf'[mine[p]].valid <=> buf'[mine[p]].dirty
  PROVE  Core' /\ PinStep /\ RefStep
  <1>b. PICK b \in Bufs : b = mine[p]
    BY DEF Core, ProcType, PlaceInv, HasBuf, Nulled
  <1>0. /\ ProcType /\ b \in Bufs /\ lock[b] = p /\ NoProc \notin Procs /\ NoBlock \notin Blocks
        /\ idequeue \in Seq(Bufs) /\ buf[b].blockno \in Blocks
        /\ idequeue' = Append(idequeue, b)
        /\ cmd' = (IF idequeue = <<>> THEN Idestart(b, buf') ELSE cmd)
        /\ pc' = [pc EXCEPT ![p] = "iderw"]
        /\ \A c \in Bufs : buf'[c].blockno = buf[c].blockno /\ buf'[c].refcnt = buf[c].refcnt
    BY <1>b, BCacheAssumption DEF Core, ProcType, DiskType, Iderw, Goto, PlaceInv, HasBuf, HasLock, Nulled
  <1>1. ProcType'
    BY <1>0 DEF ProcType, Places, Nulled
  <1>2. OneBufferPerBlock'
    BY <1>0 DEF Core, OneBufferPerBlock
  <1>3. PlaceInv'
    BY <1>b, <1>0 DEF Core, ProcType, PlaceInv, HasBuf, HasLock, Nulled
  <1>4. LockInv'
    BY <1>b, <1>0 DEF Core, ProcType, LockInv, HasLock, Nulled
  <1>5. /\ \A c \in Bufs : c # b => (Queued(c)' <=> Queued(c))
        /\ ~ Queued(b) /\ Queued(b)'
    BY <1>b, <1>0 DEF Core, ProcType, LockInv, Queued, HasLock, Nulled
  <1>6. RefStep
    BY <1>0, Zenon DEF RefStep
  <1>7. PinStep
    BY <1>b, <1>5 DEF PinStep
  <1>8. DiskType'
    <2>1. b \in Bufs => Idestart(b, buf') \in [busy : BOOLEAN, blockno : Nulled(Blocks, NoBlock),
                                   write : BOOLEAN, data : Vals]
      BY BCacheAssumption DEF BufType, Struct, Idestart, Zero
    <2> QED BY <1>0, <2>1 DEF Core, DiskType
  <1>9. QueueInv'
    <2>1. /\ DOMAIN idequeue' = 1..Len(idequeue) + 1 /\ Len(idequeue) \in Nat
          /\ DOMAIN idequeue = 1..Len(idequeue)
          /\ idequeue'[Len(idequeue) + 1] = b
          /\ \A i \in 1..Len(idequeue) : idequeue'[i] = idequeue[i] /\ idequeue[i] \in Bufs
      BY <1>0
    <2>2. \A i \in 1..Len(idequeue) : idequeue[i] # b
      BY <1>0, <1>5, <2>1 DEF Core, QueueInv
    <2>3. \A c \in Bufs : Queued(c)' <=> \E i \in DOMAIN idequeue' : idequeue'[i] = c
      <3>1. \A c \in Bufs : Queued(c) <=> \E i \in 1..Len(idequeue) : idequeue[i] = c
        BY <2>1 DEF Core, QueueInv
      <3>2. \A c : (\E i \in DOMAIN idequeue' : idequeue'[i] = c)
                    <=> c = b \/ \E i \in 1..Len(idequeue) : idequeue[i] = c
        BY <2>1
      <3>3. ASSUME NEW c \in Bufs
            PROVE  Queued(c)' <=> \E i \in DOMAIN idequeue' : idequeue'[i] = c
        <4>1. CASE c = b
          BY <1>5, <3>2, <4>1
        <4>2. CASE c # b
          BY <1>5, <3>1, <3>2, <4>2, Zenon
        <4> QED BY <4>1, <4>2
      <3> QED BY <3>3
    <2>4. \A i, j \in DOMAIN idequeue' : idequeue'[i] = idequeue'[j] => i = j
      BY <2>1, <2>2 DEF Core, QueueInv
    <2>5. idequeue' # <<>>
      BY <1>0
    <2>6. cmd' = Idestart(idequeue'[1], buf')
      <3>1. CASE idequeue = <<>>
        BY <1>0, <3>1
      <3>2. CASE idequeue # <<>>
        <4>1. 1 \in 1..Len(idequeue)
          BY <1>0, <3>2
        <4>2. idequeue'[1] = idequeue[1] /\ idequeue[1] \in Bufs /\ idequeue[1] # b
          BY <2>1, <2>2, <4>1
        <4>3. buf'[idequeue[1]] = buf[idequeue[1]]
          BY <1>b, <4>2
        <4> QED BY <1>0, <3>2, <4>2, <4>3 DEF Core, QueueInv, Idestart
      <3> QED BY <3>1, <3>2
    <2> QED BY <2>3, <2>4, <2>5, <2>6 DEF QueueInv
  <1>10. DataInv'
    <2>1. \A c \in Bufs : c # b => buf'[c] = buf[c]
      BY <1>b
    <2>2. buf'[b].valid <=> buf'[b].dirty
      BY <1>b
    <2>3. \A c \in Bufs : c # b /\ lock'[c] # NoProc /\ pc'[lock'[c]] = "use" => buf[c].valid
      BY <1>0 DEF Core, DataInv, LockInv, ProcType, Nulled, HasLock
    <2>4. ASSUME NEW c \in Bufs, c # b
          PROVE  /\ buf'[c].dirty => buf'[c].valid
                 /\ buf'[c].valid => buf'[c].blockno \in Blocks
                 /\ buf'[c].valid /\ ~ buf'[c].dirty /\ buf'[c].blockno \notin BadBlocks
                      => buf'[c].data = disk'[buf'[c].blockno]
                 /\ lock'[c] # NoProc /\ pc'[lock'[c]] = "use" => buf'[c].valid
                 /\ Queued(c)' => (buf'[c].valid <=> buf'[c].dirty)
      BY <1>5, <2>1, <2>3, <2>4 DEF Core, DataInv
    <2>5. lock'[b] # NoProc /\ pc'[lock'[b]] = "iderw" /\ buf'[b].blockno \in Blocks
      BY <1>0, <1>5 DEF Queued
    <2> QED BY <2>2, <2>4, <2>5 DEF DataInv
  <1> QED BY <1>1, <1>2, <1>3, <1>4, <1>6, <1>7, <1>8, <1>9, <1>10 DEF Core

\* bread() returns a valid buffer, or asks the disk for it.
LEMMA BreadKeeps ==
  ASSUME Core, NEW p \in Procs, Bread(p)
  PROVE  Core' /\ PinStep /\ RefStep
  <1>0. /\ ProcType /\ mine[p] \in Bufs /\ lock[mine[p]] = p
        /\ UNCHANGED <<buf, lru, lock, disk, mine, want>>
        /\ pc[p] = "bread" /\ NoProc \notin Procs
    BY BCacheAssumption DEF Core, ProcType, Bread, PlaceInv, HasBuf, HasLock, Nulled
  <1>1. CASE buf[mine[p]].valid
    <2>0. pc' = [pc EXCEPT ![p] = "use"] /\ UNCHANGED <<idequeue, cmd>>
      BY <1>1 DEF Bread, Goto
    <2>1. ProcType'
      BY <1>0, <2>0 DEF ProcType, Places, Nulled
    <2>2. BufType' /\ DiskType' /\ OneBufferPerBlock'
      BY <1>0, <2>0 DEF Core, BufType, DiskType, OneBufferPerBlock
    <2>3. PlaceInv' /\ LockInv'
      BY <1>0, <2>0 DEF Core, ProcType, PlaceInv, LockInv, HasBuf, HasLock, Nulled
    <2>4. \A b \in Bufs : Queued(b)' <=> Queued(b)
      BY <1>0, <2>0 DEF Core, ProcType, LockInv, Queued, HasLock, Nulled
    <2>5. PinStep /\ RefStep
      BY <1>0, <2>4, Zenon DEF PinStep, RefStep
    <2>6. QueueInv'
      BY <1>0, <2>0, <2>4 DEF Core, QueueInv
    <2>7. DataInv'
      BY <1>0, <1>1, <2>0, <2>4 DEF Core, ProcType, DataInv, LockInv, HasLock, Nulled
    <2> QED BY <2>1, <2>2, <2>3, <2>5, <2>6, <2>7 DEF Core
  <1>2. CASE ~ buf[mine[p]].valid
    <2>1. Iderw(p, buf')
      BY <1>0, <1>2 DEF Bread
    <2>2. buf[mine[p]].valid <=> buf[mine[p]].dirty
      BY <1>0, <1>2 DEF Core, DataInv
    <2>3. BufType'
      BY <1>0 DEF Core, BufType
    <2> QED BY <1>0, <2>1, <2>2, <2>3, IderwKeeps
  <1> QED BY <1>1, <1>2

\* The caller of bread() changes the data and marks the buffer.
LEMMA DirtyFacts ==
  ASSUME BufType, NEW b \in Bufs, NEW v \in Vals,
         buf' = [buf EXCEPT ![b] = [@ EXCEPT !.data = v, !.dirty = TRUE]]
  PROVE  /\ BufType'
         /\ \A c \in Bufs : c # b => buf'[c] = buf[c]
         /\ buf'[b].blockno = buf[b].blockno /\ buf'[b].valid = buf[b].valid
         /\ buf'[b].refcnt = buf[b].refcnt /\ buf'[b].dirty = TRUE /\ buf'[b].data = v
  BY Zenon DEF BufType, Struct

\* bwrite() of a buffer that its caller has locked.
LEMMA BwriteKeeps ==
  ASSUME Core, NEW p \in Procs, NEW v \in Vals, Bwrite(p, v)
  PROVE  Core' /\ PinStep /\ RefStep
  <1>b. PICK b \in Bufs : b = mine[p]
    BY DEF Core, ProcType, PlaceInv, HasBuf, Nulled, Bwrite
  <1>1. buf[b].valid
    BY <1>b, BCacheAssumption, SMTT(30) DEF Core, DataInv, PlaceInv, HasLock, Bwrite
  <1>2. /\ BufType' /\ \A c \in Bufs : c # b => buf'[c] = buf[c]
        /\ buf'[b].blockno = buf[b].blockno /\ buf'[b].valid = buf[b].valid
        /\ buf'[b].refcnt = buf[b].refcnt /\ buf'[b].dirty = TRUE
    BY <1>b, DirtyFacts, Zenon DEF Core, Bwrite
  <1>3. pc[p] = "use" /\ Iderw(p, buf') /\ UNCHANGED <<lru, lock, disk, mine, want>>
    BY DEF Bwrite
  <1> QED BY <1>b, <1>1, <1>2, <1>3, IderwKeeps, Zenon

\* log_write() pins the buffer.
LEMMA LogWriteKeeps ==
  ASSUME Core, NEW p \in Procs, NEW v \in Vals, LogWrite(p, v)
  PROVE  Core' /\ RefStep
  <1>b. PICK b \in Bufs : b = mine[p]
    BY DEF Core, ProcType, PlaceInv, HasBuf, Nulled, LogWrite
  <1>0. /\ ProcType /\ pc[p] = "use" /\ lock[b] = p /\ NoProc \notin Procs
        /\ UNCHANGED <<lru, lock, idequeue, cmd, disk, pc, mine, want>>
    BY <1>b, BCacheAssumption DEF Core, PlaceInv, HasLock, LogWrite
  <1>1. buf[b].valid /\ ~ Queued(b) /\ buf[b].blockno \in Blocks
    BY <1>b, <1>0, SMTT(30) DEF Core, DataInv, Queued
  <1>2. /\ BufType' /\ \A c \in Bufs : c # b => buf'[c] = buf[c]
        /\ buf'[b].blockno = buf[b].blockno /\ buf'[b].valid = buf[b].valid
        /\ buf'[b].refcnt = buf[b].refcnt /\ buf'[b].dirty = TRUE
    BY <1>b, DirtyFacts, Zenon DEF Core, LogWrite
  <1>3. ProcType' /\ DiskType' /\ LockInv'
    BY <1>0 DEF Core, ProcType, DiskType, LockInv
  <1>4. \A c \in Bufs : buf'[c].blockno = buf[c].blockno /\ buf'[c].refcnt = buf[c].refcnt
    BY <1>2
  <1>5. OneBufferPerBlock' /\ PlaceInv'
    BY <1>0, <1>4, BCacheAssumption DEF Core, OneBufferPerBlock, PlaceInv, ProcType, Nulled, HasBuf
  <1>6. RefStep
    BY <1>0, <1>4, Zenon DEF RefStep
  <1>7. \A c \in Bufs : Queued(c)' <=> Queued(c)
    BY <1>0 DEF Queued
  <1>9. QueueInv'
    <2>1. CASE idequeue = <<>>
      BY <1>0, <1>7, <2>1 DEF Core, QueueInv
    <2>2. CASE idequeue # <<>>
      <3>1. 1 \in DOMAIN idequeue /\ idequeue[1] \in Bufs
        BY <2>2 DEF Core, DiskType
      <3>2. idequeue[1] # b
        BY <1>1, <3>1 DEF Core, QueueInv
      <3>3. Idestart(idequeue[1], buf') = Idestart(idequeue[1], buf)
        BY <1>2, <3>1, <3>2, Zenon DEF Idestart
      <3> QED BY <1>0, <1>7, <2>2, <3>3 DEF Core, QueueInv
    <2> QED BY <2>1, <2>2
  <1>10. DataInv'
    <2>1. ASSUME NEW c \in Bufs, c # b
          PROVE  /\ buf'[c].dirty => buf'[c].valid
                 /\ buf'[c].valid => buf'[c].blockno \in Blocks
                 /\ buf'[c].valid /\ ~ buf'[c].dirty /\ buf'[c].blockno \notin BadBlocks
                      => buf'[c].data = disk'[buf'[c].blockno]
                 /\ lock'[c] # NoProc /\ pc'[lock'[c]] = "use" => buf'[c].valid
                 /\ Queued(c)' => (buf'[c].valid <=> buf'[c].dirty)
      BY <1>0, <1>2, <1>7, <2>1 DEF Core, DataInv
    <2> QED BY <1>1, <1>2, <1>7, <2>1, Zenon DEF DataInv
  <1> QED BY <1>2, <1>3, <1>5, <1>6, <1>9, <1>10 DEF Core

\* What b has once its command has ended.
Brought(b) ==
  IF buf[b].dirty \/ buf[b].blockno \in BadBlocks THEN buf[b].data ELSE disk[buf[b].blockno]

\* The interrupt that ends b's command: its process p is woken, b has the data d.
Finished(b, p, d) ==
  /\ b = idequeue[1] /\ p = lock[b] /\ pc[p] = "iderw" /\ mine[p] = b
  /\ want[p] = buf[b].blockno /\ buf[b].blockno \in Blocks
  /\ buf[b].valid <=> buf[b].dirty
  /\ d = Brought(b)
  /\ BufType' /\ \A c \in Bufs : c # b => buf'[c] = buf[c]
  /\ buf'[b].blockno = buf[b].blockno /\ buf'[b].refcnt = buf[b].refcnt
  /\ buf'[b].valid = TRUE /\ buf'[b].dirty = FALSE /\ buf'[b].data = d
  /\ disk' \in [Blocks -> Vals]
  /\ \A n \in Blocks : n # buf[b].blockno => disk'[n] = disk[n]
  /\ buf[b].blockno \notin BadBlocks => disk'[buf[b].blockno] = d
  /\ pc' = [q \in Procs |-> IF q = p THEN "use" ELSE pc[q]]

LEMMA IdeintrFacts ==
  ASSUME Core, Ideintr
  PROVE  \E b \in Bufs, p \in Procs, d \in Vals : Finished(b, p, d)
  <1>0. /\ idequeue # <<>> /\ idequeue \in Seq(Bufs) /\ cmd = Idestart(idequeue[1], buf)
        /\ ProcType /\ NoProc \notin Procs /\ UNCHANGED <<lru, lock, mine, want>>
    BY BCacheAssumption DEF Core, QueueInv, NoCmd, Ideintr, DiskType
  <1>b. PICK b \in Bufs : b = Head(idequeue) /\ b = idequeue[1]
    BY <1>0
  <1>p. PICK p \in Procs : p = lock[b] /\ pc[p] = "iderw" /\ mine[p] = b
    <2>1. 1 \in DOMAIN idequeue
      BY <1>0
    <2>2. Queued(b)
      BY <1>b, <2>1 DEF Core, QueueInv
    <2> QED BY <1>0, <2>2 DEF Core, LockInv, Queued, ProcType, Nulled
  <1>1. /\ buf[b].blockno \in Blocks /\ (buf[b].valid <=> buf[b].dirty)
        /\ want[p] = buf[b].blockno
        /\ buf \in [Bufs -> Struct] /\ buf[b].data \in Vals /\ disk \in [Blocks -> Vals]
    <2>1. buf[b].blockno \in Blocks /\ want[p] = buf[b].blockno
      BY <1>p DEF Core, PlaceInv, HasBuf
    <2>2. buf[b].valid <=> buf[b].dirty
      BY <1>0, <1>p DEF Core, DataInv, Queued
    <2> QED BY <2>1, <2>2 DEF Core, BufType, Struct, DiskType
  <1>2. /\ cmd.blockno = buf[b].blockno /\ cmd.write = buf[b].dirty
        /\ buf[b].dirty => cmd.data = buf[b].data
    BY <1>0, <1>b DEF Idestart
  <1>d. PICK d \in Vals : d = Arrived(b)
    BY <1>1, <1>2 DEF Arrived
  <1>3. buf' = [buf EXCEPT ![b] = [@ EXCEPT !.data = d, !.valid = TRUE, !.dirty = FALSE]]
    BY <1>b, <1>d DEF Ideintr
  <1>4. /\ BufType' /\ \A c \in Bufs : c # b => buf'[c] = buf[c]
        /\ buf'[b].blockno = buf[b].blockno /\ buf'[b].refcnt = buf[b].refcnt
        /\ buf'[b].valid = TRUE /\ buf'[b].dirty = FALSE /\ buf'[b].data = d
    BY <1>1, <1>3, Zenon DEF BufType, Struct
  <1>5. /\ idequeue' = Tail(idequeue) /\ cmd' = StartNext(idequeue', buf')
        /\ disk' = Written
        /\ pc' = [q \in Procs |-> IF q = p THEN "use" ELSE pc[q]]
    <2>1. \A q \in Procs : pc[q] = "iderw" /\ mine[q] = b => q = p
      BY <1>p DEF Core, PlaceInv, HasLock
    <2>2. /\ idequeue' = Tail(idequeue) /\ cmd' = StartNext(idequeue', buf') /\ disk' = Written
          /\ pc' = [q \in Procs |-> IF pc[q] = "iderw" /\ mine[q] = b THEN "use" ELSE pc[q]]
      BY <1>b DEF Ideintr, Dequeued, WakeupBuf
    <2> QED BY <1>p, <2>1, <2>2
  <1>6. /\ disk' \in [Blocks -> Vals]
        /\ \A n \in Blocks : n # buf[b].blockno => disk'[n] = disk[n]
        /\ buf[b].blockno \notin BadBlocks => disk'[buf[b].blockno] = d
    <2>1. CASE buf[b].dirty
      BY <1>1, <1>2, <1>5, <1>d, <2>1 DEF Written, Arrived
    <2>2. CASE ~ buf[b].dirty
      BY <1>1, <1>2, <1>5, <1>d, <2>2 DEF Written, Arrived
    <2> QED BY <2>1, <2>2
  <1>7. d = Brought(b)
    BY <1>2, <1>d DEF Arrived, Brought
  <1>8. /\ b = idequeue[1] /\ p = lock[b] /\ pc[p] = "iderw" /\ mine[p] = b
        /\ want[p] = buf[b].blockno /\ buf[b].blockno \in Blocks
        /\ buf[b].valid <=> buf[b].dirty
        /\ pc' = [q \in Procs |-> IF q = p THEN "use" ELSE pc[q]]
    BY <1>b, <1>p, <1>1, <1>5
  <1>9. Finished(b, p, d)
    BY <1>4, <1>6, <1>7, <1>8, Zenon DEF Finished
  <1> QED BY <1>9

\* The drive has finished: the first buffer leaves the queue, valid and clean, and
\* its process goes on.
LEMMA IdeintrKeeps ==
  ASSUME Core, Ideintr
  PROVE  Core' /\ PinStep /\ RefStep
  <1>0. /\ idequeue # <<>> /\ idequeue \in Seq(Bufs)
        /\ ProcType /\ NoProc \notin Procs /\ UNCHANGED <<lru, lock, mine, want>>
        /\ idequeue' = Tail(idequeue) /\ cmd' = StartNext(idequeue', buf')
    BY BCacheAssumption DEF Core, QueueInv, NoCmd, Ideintr, DiskType, Dequeued
  <1>f. PICK b \in Bufs, p \in Procs, d \in Vals : Finished(b, p, d)
    BY IdeintrFacts
  <1>b. /\ b = idequeue[1] /\ p = lock[b] /\ pc[p] = "iderw" /\ mine[p] = b
        /\ want[p] = buf[b].blockno /\ buf[b].blockno \in Blocks
        /\ buf[b].valid <=> buf[b].dirty
        /\ d = IF buf[b].dirty \/ buf[b].blockno \in BadBlocks THEN buf[b].data
               ELSE disk[buf[b].blockno]
        /\ BufType' /\ \A c \in Bufs : c # b => buf'[c] = buf[c]
        /\ buf'[b].blockno = buf[b].blockno /\ buf'[b].refcnt = buf[b].refcnt
        /\ buf'[b].valid = TRUE /\ buf'[b].dirty = FALSE /\ buf'[b].data = d
        /\ disk' \in [Blocks -> Vals]
        /\ \A n \in Blocks : n # buf[b].blockno => disk'[n] = disk[n]
        /\ buf[b].blockno \notin BadBlocks => disk'[buf[b].blockno] = d
        /\ pc' = [q \in Procs |-> IF q = p THEN "use" ELSE pc[q]]
    BY <1>f, Zenon DEF Finished, Brought
  <1>6. \A c \in Bufs : buf'[c].blockno = buf[c].blockno /\ buf'[c].refcnt = buf[c].refcnt
    BY <1>b
  <1>7. ProcType'
    BY <1>0, <1>b DEF ProcType, Places
  <1>8. OneBufferPerBlock'
    BY <1>0, <1>6 DEF Core, OneBufferPerBlock
  <1>9. LockInv'
    BY <1>0, <1>b DEF Core, LockInv, HasLock, ProcType, Nulled
  <1>10. PlaceInv'
    BY <1>0, <1>b, <1>6 DEF Core, PlaceInv, HasLock, HasBuf, ProcType, Nulled
  <1>11. RefStep
    BY <1>0, <1>6, Zenon DEF RefStep
  <1>12. /\ \A c \in Bufs : c # b => (Queued(c)' <=> Queued(c))
         /\ ~ Queued(b)'
    BY <1>0, <1>b, SMTT(30) DEF Core, LockInv, Queued, ProcType, Nulled
  <1>13. PinStep
    BY <1>b, <1>12 DEF PinStep
  <1>15. /\ Len(idequeue) \in Nat \ {0} /\ DOMAIN idequeue = 1..Len(idequeue)
         /\ DOMAIN idequeue' = 1..Len(idequeue) - 1 /\ idequeue' \in Seq(Bufs)
         /\ \A i \in DOMAIN idequeue' : idequeue'[i] = idequeue[i + 1] /\ idequeue'[i] \in Bufs
    BY <1>0
  <1>16. \A i \in DOMAIN idequeue' : idequeue'[i] # b
    BY <1>b, <1>15 DEF Core, QueueInv
  <1>17. cmd' = IF idequeue' = <<>> THEN NoCmd ELSE Idestart(idequeue'[1], buf')
    BY <1>0, <1>15 DEF StartNext
  <1>18. QueueInv'
    <2>1. \A i, j \in DOMAIN idequeue' : idequeue'[i] = idequeue'[j] => i = j
      BY <1>15 DEF Core, QueueInv
    <2>2. ASSUME NEW c \in Bufs, c # b
          PROVE  (\E i \in DOMAIN idequeue' : idequeue'[i] = c)
                   <=> \E i \in DOMAIN idequeue : idequeue[i] = c
      <3>1. ASSUME NEW i \in DOMAIN idequeue, idequeue[i] = c
            PROVE  i - 1 \in DOMAIN idequeue' /\ idequeue'[i - 1] = c
        BY <1>b, <1>15, <2>2, <3>1
      <3>2. ASSUME NEW i \in DOMAIN idequeue', idequeue'[i] = c
            PROVE  i + 1 \in DOMAIN idequeue /\ idequeue[i + 1] = c
        BY <1>15, <3>2
      <3> QED BY <3>1, <3>2
    <2>3. ASSUME NEW c \in Bufs
          PROVE  Queued(c)' <=> \E i \in DOMAIN idequeue' : idequeue'[i] = c
      <3>1. CASE c = b
        BY <1>12, <1>16, <3>1
      <3>2. CASE c # b
        BY <1>12, <2>2, <3>2 DEF Core, QueueInv
      <3> QED BY <3>1, <3>2
    <2> QED BY <1>17, <2>1, <2>3 DEF QueueInv
  <1>19. DiskType'
    <2>1. NoCmd \in [busy : BOOLEAN, blockno : Nulled(Blocks, NoBlock), write : BOOLEAN, data : Vals]
      BY BCacheAssumption DEF NoCmd, Nulled, Zero
    <2>2. ASSUME NEW c \in Bufs
          PROVE  Idestart(c, buf') \in [busy : BOOLEAN, blockno : Nulled(Blocks, NoBlock),
                                        write : BOOLEAN, data : Vals]
      BY <1>b, BCacheAssumption DEF BufType, Struct, Idestart, Zero
    <2>3. idequeue' # <<>> => idequeue'[1] \in Bufs
      BY <1>15
    <2> QED BY <1>b, <1>15, <1>17, <2>1, <2>2, <2>3 DEF DiskType
  <1>20. DataInv'
    <2>1. ASSUME NEW c \in Bufs, c # b
          PROVE  /\ buf'[c].dirty => buf'[c].valid
                 /\ buf'[c].valid => buf'[c].blockno \in Blocks
                 /\ buf'[c].valid /\ ~ buf'[c].dirty /\ buf'[c].blockno \notin BadBlocks
                      => buf'[c].data = disk'[buf'[c].blockno]
                 /\ lock'[c] # NoProc /\ pc'[lock'[c]] = "use" => buf'[c].valid
                 /\ Queued(c)' => (buf'[c].valid <=> buf'[c].dirty)
      <3>1. buf'[c] = buf[c]
        BY <1>b, <2>1
      <3>2. buf[c].valid => buf[c].blockno \in Blocks /\ buf[c].blockno # buf[b].blockno
        BY <1>b, <2>1, BCacheAssumption DEF Core, DataInv, OneBufferPerBlock
      <3>3. lock'[c] # NoProc /\ pc'[lock'[c]] = "use" => lock[c] # NoProc /\ pc[lock[c]] = "use"
        BY <1>0, <1>b, <2>1 DEF Core, LockInv, ProcType, Nulled
      <3> QED BY <1>12, <1>b, <2>1, <3>1, <3>2, <3>3 DEF Core, DataInv
    <2> QED BY <1>b, <1>12, <2>1 DEF DataInv
  <1> QED
    BY <1>b, <1>7, <1>8, <1>9, <1>10, <1>11, <1>13, <1>18, <1>19, <1>20 DEF Core

\* brelse() gives the reference back.
LEMMA BrelseKeeps ==
  ASSUME Core, Counted, NEW p \in Procs, Brelse(p)
  PROVE  Core' /\ PinStep
  <1>b. PICK b \in Bufs : b = mine[p]
    BY DEF Core, ProcType, PlaceInv, HasBuf, Nulled, Brelse
  <1>0. /\ ProcType /\ pc[p] = "brelse" /\ NoProc \notin Procs /\ NoBuf \notin Bufs
        /\ pc' = [pc EXCEPT ![p] = "out"]
        /\ mine' = [mine EXCEPT ![p] = NoBuf] /\ want' = [want EXCEPT ![p] = NoBlock]
        /\ UNCHANGED <<lock, idequeue, cmd, disk>>
        /\ buf' = [buf EXCEPT ![b].refcnt = @ - 1]
        /\ lru' = IF buf[b].refcnt = 1 THEN ToHead(b) ELSE lru
    BY <1>b, BCacheAssumption DEF Core, Brelse, Goto, DropRef
  <1>2. buf[b].refcnt - 1 \in Nat
    BY <1>b DEF Counted, Core, BufType, Struct
  <1>3. /\ BufType' /\ \A c \in Bufs : c # b => buf'[c] = buf[c]
        /\ buf'[b].blockno = buf[b].blockno /\ buf'[b].valid = buf[b].valid
        /\ buf'[b].dirty = buf[b].dirty /\ buf'[b].data = buf[b].data
        /\ buf'[b].refcnt = buf[b].refcnt - 1
    BY <1>0, <1>2 DEF Core, BufType, Struct
  <1>4. \A c \in Bufs : /\ buf'[c].blockno = buf[c].blockno /\ buf'[c].valid = buf[c].valid
                        /\ buf'[c].dirty = buf[c].dirty /\ buf'[c].data = buf[c].data
    BY <1>3
  <1>6. DiskType' /\ OneBufferPerBlock'
    BY <1>0, <1>4 DEF Core, DiskType, OneBufferPerBlock
  <1>7. ProcType'
    BY <1>0 DEF ProcType, Places, Nulled
  <1>8. PlaceInv'
    BY <1>0, <1>4, <1>7 DEF Core, PlaceInv, ProcType, HasBuf, HasLock, Nulled
  <1>9. LockInv'
    BY <1>0 DEF Core, LockInv, ProcType, HasLock, Nulled
  <1>11. \A c \in Bufs : Queued(c)' <=> Queued(c)
    BY <1>0 DEF Core, LockInv, ProcType, Queued, HasLock, Nulled
  <1>12. PinStep
    BY <1>4, <1>11, Zenon DEF PinStep
  <1>13. QueueInv'
    <2>1. idequeue # <<>> => Idestart(idequeue[1], buf') = Idestart(idequeue[1], buf)
      <3>1. idequeue # <<>> => idequeue[1] \in Bufs
        BY DEF Core, DiskType
      <3> QED BY <1>4, <3>1, Zenon DEF Idestart
    <2> QED BY <1>0, <1>11, <2>1 DEF Core, QueueInv
  <1>14. DataInv'
    <2>1. \A c \in Bufs : lock'[c] # NoProc /\ pc'[lock'[c]] = "use"
                            => lock[c] # NoProc /\ pc[lock[c]] = "use"
      BY <1>0 DEF ProcType, Nulled
    <2> QED BY <1>0, <1>4, <1>11, <2>1 DEF Core, DataInv
  <1> QED
    BY <1>3, <1>6, <1>7, <1>8, <1>9, <1>12, <1>13, <1>14 DEF Core

\* A buffer that nobody has is neither locked nor in the queue.
LEMMA FreeIsUnlocked ==
  ASSUME Core, Counted, NEW b \in Bufs, buf[b].refcnt = 0
  PROVE  lock[b] = NoProc /\ ~ Queued(b)
  BY DEF Counted, Core, LockInv, ProcType, Nulled, Queued

\* bget() gives p the buffer b: the one of block n, or one that was clean and free.
Given(p, n, b) ==
  /\ mine' = [mine EXCEPT ![p] = b] /\ pc' = [pc EXCEPT ![p] = "lock"]
  /\ buf' = [buf EXCEPT ![b] = Taken(b, n)]
  /\ \A c \in Bufs : c # b => buf'[c] = buf[c]
  /\ buf'[b].blockno = n
  /\ buf'[b].refcnt = buf[b].refcnt + 1 /\ buf[b].refcnt \in Nat
  /\ \/ /\ buf[b].blockno = n
        /\ buf'[b].valid = buf[b].valid /\ buf'[b].dirty = buf[b].dirty
        /\ buf'[b].data = buf[b].data
     \/ /\ buf[b].refcnt = 0 /\ ~ buf[b].dirty /\ \A c \in Bufs : buf[c].blockno # n
        /\ buf'[b].valid = FALSE /\ buf'[b].dirty = FALSE

LEMMA BgetFacts ==
  ASSUME Core, Counted, NEW p \in Procs, NEW n \in Blocks, Bget(p, n), Cached(n) \cup Unused # {}
  PROVE  \E b \in Bufs : Given(p, n, b)
  <1>b. PICK b \in Bufs :
          /\ b \in IF Cached(n) # {} THEN Cached(n) ELSE Unused
          /\ buf' = [buf EXCEPT ![b] = Taken(b, n)]
          /\ mine' = [mine EXCEPT ![p] = b] /\ pc' = [pc EXCEPT ![p] = "lock"]
    <2>2. Oldest(Unused) \subseteq Unused /\ Unused \subseteq Bufs /\ Cached(n) \subseteq Bufs
      BY DEF Oldest, Unused, Cached
    <2>3. PICK b \in IF Cached(n) # {} THEN Cached(n) ELSE Oldest(Unused) :
            /\ buf' = [buf EXCEPT ![b] = Taken(b, n)]
            /\ mine' = [mine EXCEPT ![p] = b] /\ Goto(p, "lock")
      BY Zenon DEF Bget
    <2>4. b \in IF Cached(n) # {} THEN Cached(n) ELSE Unused
      BY <2>2, <2>3
    <2>5. b \in Bufs
      BY <2>2, <2>4
    <2> QED BY <2>3, <2>4, <2>5, Zenon DEF Goto
  <1>1. /\ \A c \in Bufs : c # b => buf'[c] = buf[c]
        /\ buf'[b].blockno = n
        /\ buf'[b].refcnt = buf[b].refcnt + 1 /\ buf[b].refcnt \in Nat
        /\ \/ /\ buf[b].blockno = n
              /\ buf'[b].valid = buf[b].valid /\ buf'[b].dirty = buf[b].dirty
              /\ buf'[b].data = buf[b].data
           \/ /\ buf[b].refcnt = 0 /\ ~ buf[b].dirty /\ \A c \in Bufs : buf[c].blockno # n
              /\ buf'[b].valid = FALSE /\ buf'[b].dirty = FALSE
    <2>1. /\ buf' = [buf EXCEPT ![b] = Taken(b, n)] /\ buf \in [Bufs -> Struct]
          /\ buf'[b] = Taken(b, n) /\ \A c \in Bufs : c # b => buf'[c] = buf[c]
      BY <1>b DEF Core, BufType
    <2>2. CASE b \in Cached(n)
      <3>1. Taken(b, n) = [buf[b] EXCEPT !.refcnt = @ + 1] /\ buf[b].blockno = n
        BY <2>2 DEF Taken, Cached
      <3> QED BY <2>1, <3>1 DEF Struct
    <2>3. CASE b \notin Cached(n)
      <3>1. Cached(n) = {} /\ b \in Unused
        BY <1>b, <2>3
      <3>2. buf[b].refcnt = 0 /\ ~ buf[b].dirty /\ \A c \in Bufs : buf[c].blockno # n
        BY <3>1 DEF Cached, Unused
      <3>3. Taken(b, n) = [buf[b] EXCEPT !.blockno = n, !.valid = FALSE, !.dirty = FALSE, !.refcnt = 1]
        BY <2>3 DEF Taken
      <3>4. /\ buf'[b].blockno = n /\ buf'[b].valid = FALSE /\ buf'[b].dirty = FALSE
            /\ buf'[b].refcnt = 1
        BY <2>1, <3>3 DEF Struct
      <3> QED BY <2>1, <3>2, <3>4
    <2> QED BY <2>2, <2>3, Zenon
  <1>2. Given(p, n, b)
    BY <1>b, <1>1, Zenon DEF Given
  <1> QED BY <1>2

\* bget() without a buffer for p stops it, and nothing else.
LEMMA BgetPanics ==
  ASSUME Core, NEW p \in Procs, NEW n \in Blocks, Bget(p, n), Cached(n) \cup Unused = {}
  PROVE  Core' /\ PinStep /\ RefStep
  <1>0. /\ ProcType /\ pc[p] = "out" /\ mine[p] = NoBuf /\ NoProc \notin Procs
        /\ want' = [want EXCEPT ![p] = n] /\ pc' = [pc EXCEPT ![p] = "panic"]
        /\ UNCHANGED <<buf, lru, lock, idequeue, cmd, disk, mine>>
    BY BCacheAssumption DEF Core, Bget, Goto, PlaceInv, HasBuf
  <1>1. ProcType'
    BY <1>0 DEF ProcType, Places, Nulled
  <1>2. BufType' /\ DiskType' /\ OneBufferPerBlock'
    BY <1>0 DEF Core, BufType, DiskType, OneBufferPerBlock
  <1>3. PlaceInv' /\ LockInv'
    BY <1>0 DEF Core, ProcType, PlaceInv, LockInv, HasBuf, HasLock, Nulled
  <1>4. \A b \in Bufs : Queued(b)' <=> Queued(b)
    BY <1>0 DEF Core, ProcType, LockInv, Queued, HasLock, Nulled
  <1>5. PinStep /\ RefStep
    BY <1>0, <1>4, Zenon DEF PinStep, RefStep
  <1>6. QueueInv'
    BY <1>0, <1>4 DEF Core, QueueInv
  <1>7. DataInv'
    BY <1>0, <1>4 DEF Core, ProcType, DataInv, LockInv, HasLock, Nulled
  <1> QED BY <1>1, <1>2, <1>3, <1>5, <1>6, <1>7 DEF Core

\* bget() finds the block's buffer, or takes one over.
LEMMA BgetKeeps ==
  ASSUME Core, Counted, NEW p \in Procs, NEW n \in Blocks, Bget(p, n), Cached(n) \cup Unused # {}
  PROVE  Core' /\ PinStep
  <1>0. /\ ProcType /\ pc[p] = "out" /\ mine[p] = NoBuf
        /\ NoProc \notin Procs /\ NoBuf \notin Bufs /\ NoBlock \notin Blocks
        /\ want' = [want EXCEPT ![p] = n] /\ UNCHANGED <<lru, lock, idequeue, cmd, disk>>
    BY BCacheAssumption DEF Core, Bget, PlaceInv, HasBuf
  <1>g. PICK b \in Bufs : Given(p, n, b)
    BY BgetFacts
  <1>b. /\ mine' = [mine EXCEPT ![p] = b] /\ pc' = [pc EXCEPT ![p] = "lock"]
        /\ buf' = [buf EXCEPT ![b] = Taken(b, n)]
        /\ \A c \in Bufs : c # b => buf'[c] = buf[c]
        /\ buf'[b].blockno = n
        /\ buf'[b].refcnt = buf[b].refcnt + 1 /\ buf[b].refcnt \in Nat
        /\ \/ /\ buf[b].blockno = n
              /\ buf'[b].valid = buf[b].valid /\ buf'[b].dirty = buf[b].dirty
              /\ buf'[b].data = buf[b].data
           \/ /\ buf[b].refcnt = 0 /\ ~ buf[b].dirty /\ \A c \in Bufs : buf[c].blockno # n
              /\ buf'[b].valid = FALSE /\ buf'[b].dirty = FALSE
    BY <1>g, Zenon DEF Given
  <1>3. BufType'
    <2>1. buf'[b] \in Struct
      <3>1. buf'[b] = Taken(b, n) /\ buf[b] \in Struct
        BY <1>b DEF Core, BufType
      <3>2. CASE b \in Cached(n)
        BY <3>1, <3>2 DEF Taken, Struct
      <3>3. CASE b \notin Cached(n)
        <4>1. Taken(b, n) = [buf[b] EXCEPT !.blockno = n, !.valid = FALSE, !.dirty = FALSE, !.refcnt = 1]
          BY <3>3 DEF Taken
        <4>2. Taken(b, n) = [blockno |-> n, valid |-> FALSE, dirty |-> FALSE, refcnt |-> 1,
                             data |-> buf[b].data] /\ buf[b].data \in Vals
          BY <3>1, <4>1, Zenon DEF Struct
        <4> QED BY <3>1, <4>2 DEF Struct, Nulled
      <3> QED BY <3>2, <3>3
    <2>2. buf' = [buf EXCEPT ![b] = buf'[b]]
      BY <1>b DEF Core, BufType
    <2> QED BY <2>1, <2>2 DEF Core, BufType
  <1>4. DiskType'
    BY <1>0 DEF Core, DiskType
  <1>5. ProcType'
    BY <1>0, <1>b DEF ProcType, Places, Nulled
  <1>6. OneBufferPerBlock'
    BY <1>0, <1>b DEF Core, OneBufferPerBlock
  <1>7. \A q \in Procs : pc[q] \in HasBuf => mine[q] \in Bufs /\ buf'[mine[q]].blockno = want[q]
    <2>1. \A q \in Procs : pc[q] \in HasBuf
            => mine[q] \in Bufs /\ buf[mine[q]].blockno = want[q] /\ buf[mine[q]].refcnt # 0
      BY DEF Counted, Core, PlaceInv, ProcType, Nulled
    <2> QED BY <1>b, <2>1
  <1>8. PlaceInv'
    BY <1>0, <1>b, <1>7 DEF Core, PlaceInv, ProcType, HasBuf, HasLock
  <1>9. LockInv'
    BY <1>0, <1>b DEF Core, LockInv, ProcType, HasLock, Nulled
  <1>11. \A c \in Bufs : Queued(c)' <=> Queued(c)
    BY <1>0, <1>b DEF Core, LockInv, ProcType, Queued, HasLock, Nulled
  <1>12. PinStep
    BY <1>b, <1>11 DEF PinStep
  <1>13. QueueInv'
    <2>1. idequeue # <<>> => Idestart(idequeue[1], buf') = Idestart(idequeue[1], buf)
      <3>1. idequeue # <<>> => idequeue[1] \in Bufs /\ Queued(idequeue[1])
        <4>1. idequeue # <<>> => 1 \in DOMAIN idequeue /\ idequeue[1] \in Bufs
          BY DEF Core, DiskType
        <4> QED BY <4>1 DEF Core, QueueInv
      <3>2. idequeue # <<>> /\ idequeue[1] = b => buf[b].refcnt # 0
        BY <3>1, FreeIsUnlocked
      <3>3. ASSUME NEW c \in Bufs, c = b => buf[b].refcnt # 0
            PROVE  /\ buf'[c].blockno = buf[c].blockno /\ buf'[c].dirty = buf[c].dirty
                   /\ buf'[c].data = buf[c].data
        BY <1>b, <3>3
      <3> QED BY <3>1, <3>2, <3>3, Zenon DEF Idestart
    <2> QED BY <1>0, <1>11, <2>1 DEF Core, QueueInv
  <1>14. DataInv'
    <2>1. \A c \in Bufs : lock'[c] # NoProc /\ pc'[lock'[c]] = "use"
                            => lock[c] # NoProc /\ pc[lock[c]] = "use"
      BY <1>0, <1>b DEF ProcType, Nulled
    <2>2. buf[b].refcnt = 0 => lock[b] = NoProc /\ ~ Queued(b)
      BY FreeIsUnlocked
    <2>3. ASSUME NEW c \in Bufs
          PROVE  /\ buf'[c].dirty => buf'[c].valid
                 /\ buf'[c].valid => buf'[c].blockno \in Blocks
                 /\ buf'[c].valid /\ ~ buf'[c].dirty /\ buf'[c].blockno \notin BadBlocks
                      => buf'[c].data = disk'[buf'[c].blockno]
                 /\ lock'[c] # NoProc /\ pc'[lock'[c]] = "use" => buf'[c].valid
                 /\ Queued(c)' => (buf'[c].valid <=> buf'[c].dirty)
      <3>1. CASE c = b
        BY <1>0, <1>b, <1>11, <2>1, <2>2, <3>1, ZenonT(30) DEF Core, DataInv
      <3>2. CASE c # b
        BY <1>0, <1>b, <1>11, <2>1, <3>2 DEF Core, DataInv
      <3> QED BY <3>1, <3>2, SMTT(30)
    <2> QED BY <2>3 DEF DataInv
  <1> QED
    BY <1>3, <1>4, <1>5, <1>6, <1>8, <1>9, <1>12, <1>13, <1>14 DEF Core
-----------------------------------------------------------------------------
\* p has block n locked and has seen its contents.
Holds(p, n) == pc[p] \in {"use", "iderw"} /\ want[p] = n /\ buf[mine[p]].valid

\* What the refinement mapping is, without CHOOSE.
Mapped ==
  \A n \in Good :
    /\ \A b \in Bufs : buf[b].blockno = n
         => Contents(n) = IF buf[b].valid THEN buf[b].data ELSE disk[n]
    /\ (\A b \in Bufs : buf[b].blockno # n) => Contents(n) = disk[n]
    /\ \A p \in Procs : Holder(n) = p <=> Holds(p, n)
    /\ Holder(n) \in Nulled(Procs, NoProc)

\* A block has one holder: its buffer is the only one, and its lock has one owner.
LEMMA OneHolder ==
  ASSUME Core, NEW n \in Blocks, NEW p \in Procs, NEW q \in Procs,
         pc[p] \in HasLock, want[p] = n, pc[q] \in HasLock, want[q] = n
  PROVE  p = q
  <1>1. mine[p] \in Bufs /\ mine[q] \in Bufs /\ lock[mine[p]] = p /\ lock[mine[q]] = q
    BY DEF Core, PlaceInv, ProcType, HasBuf, HasLock, Nulled
  <1>2. buf[mine[p]].blockno = n /\ buf[mine[q]].blockno = n
    BY DEF Core, PlaceInv, HasBuf, HasLock
  <1>3. mine[p] = mine[q]
    BY <1>1, <1>2, BCacheAssumption DEF Core, OneBufferPerBlock
  <1> QED BY <1>1, <1>3

\* The mapping in every state of the invariant.
LEMMA MappedHolds == Core => Mapped
  <1> SUFFICES ASSUME Core, NEW n \in Good
      PROVE  /\ \A b \in Bufs : buf[b].blockno = n
                  => Contents(n) = IF buf[b].valid THEN buf[b].data ELSE disk[n]
             /\ (\A b \in Bufs : buf[b].blockno # n) => Contents(n) = disk[n]
             /\ \A p \in Procs : Holder(n) = p <=> Holds(p, n)
             /\ Holder(n) \in Nulled(Procs, NoProc)
    BY DEF Mapped
  <1>0. n \in Blocks /\ n # NoBlock /\ NoProc \notin Procs
    BY BCacheAssumption DEF Good
  <1>1. \A b, c \in Bufs : buf[b].blockno = n /\ buf[c].blockno = n => b = c
    BY <1>0 DEF Core, OneBufferPerBlock
  <1>2. ASSUME NEW b \in Bufs, buf[b].blockno = n
        PROVE  Contents(n) = IF buf[b].valid THEN buf[b].data ELSE disk[n]
    <2>1. CASE buf[b].valid
      <3>1. (CHOOSE c \in Bufs : buf[c].blockno = n /\ buf[c].valid) = b
        BY <1>1, <1>2, <2>1
      <3> QED BY <1>2, <2>1, <3>1, Zenon DEF Contents
    <2>2. CASE ~ buf[b].valid
      BY <1>1, <1>2, <2>2 DEF Contents
    <2> QED BY <2>1, <2>2
  <1>3. (\A b \in Bufs : buf[b].blockno # n) => Contents(n) = disk[n]
    BY DEF Contents
  <1> DEFINE ps == {p \in Procs : pc[p] \in {"use", "iderw"} /\ want[p] = n /\ buf[mine[p]].valid}
  <1>4. Holder(n) = IF ps = {} THEN NoProc ELSE CHOOSE p \in ps : TRUE
    BY DEF Holder
  <1>5. \A p \in Procs : p \in ps <=> Holds(p, n)
    BY DEF Holds
  <1>6. \A p, q \in ps : p = q
    BY <1>0, OneHolder DEF HasLock
  <1>7. ps \subseteq Procs
    OBVIOUS
  <1> HIDE DEF ps
  <1>8. CASE ps = {}
    BY <1>0, <1>2, <1>3, <1>4, <1>5, <1>8 DEF Nulled
  <1>9. CASE ps # {}
    <2>1. PICK p \in ps : Holder(n) = p
      BY <1>4, <1>9
    <2> QED BY <1>2, <1>3, <1>5, <1>6, <1>7, <2>1 DEF Nulled
  <1> QED BY <1>8, <1>9

\* What is seen of the blocks stays.
Same == \A n \in Good : Contents(n)' = Contents(n) /\ Holder(n)' = Holder(n)

\* A step that changes no contents and no holder is a stutter of the store, ...
LEMMA StoreStutters ==
  ASSUME Mapped, Mapped', \A n \in Good : Contents(n)' = Contents(n),
         \A n \in Good : \A q \in Procs : Holds(q, n)' <=> Holds(q, n)
  PROVE  Same
  <1>1. ASSUME NEW n \in Good PROVE Holder(n)' = Holder(n)
    BY BCacheAssumption DEF Mapped, Nulled
  <1> QED BY <1>1 DEF Same

\* ... one with a new holder of a block that had none is Get, ...
LEMMA StoreGets ==
  ASSUME Mapped, Mapped', \A n \in Good : Contents(n)' = Contents(n),
         NEW p \in Procs, NEW m \in Good, \A q \in Procs : ~ Holds(q, m), Holds(p, m)',
         \A n \in Good : \A q \in Procs : n # m => (Holds(q, n)' <=> Holds(q, n))
  PROVE  Store!Get(p, m)
  <1>1. ASSUME NEW n \in Good, n # m PROVE Holder(n)' = Holder(n)
    BY <1>1, BCacheAssumption DEF Mapped, Nulled
  <1>2. Holder(m) = NoProc /\ Holder(m)' = p
    BY BCacheAssumption DEF Mapped, Nulled
  <1> QED BY <1>1, <1>2, Zenon DEF Store!Get

\* ... one that a holder leaves is Drop, ...
LEMMA StoreDrops ==
  ASSUME Mapped, Mapped', \A n \in Good : Contents(n)' = Contents(n),
         NEW p \in Procs, NEW m \in Good, Holds(p, m), \A q \in Procs : ~ Holds(q, m)',
         \A n \in Good : \A q \in Procs : n # m => (Holds(q, n)' <=> Holds(q, n))
  PROVE  Store!Drop(p, m)
  <1>1. ASSUME NEW n \in Good, n # m PROVE Holder(n)' = Holder(n)
    BY <1>1, BCacheAssumption DEF Mapped, Nulled
  <1>2. Holder(m) = p /\ Holder(m)' = NoProc
    BY BCacheAssumption DEF Mapped, Nulled
  <1> QED BY <1>1, <1>2, Zenon DEF Store!Drop

\* ... and one that changes the contents of a block that is held is Put.
LEMMA StorePuts ==
  ASSUME Mapped, Mapped', NEW p \in Procs, NEW m \in Good, NEW v \in Vals, Holds(p, m),
         \A n \in Good : n # m => Contents(n)' = Contents(n), Contents(m)' = v,
         \A n \in Good : \A q \in Procs : Holds(q, n)' <=> Holds(q, n)
  PROVE  Store!Put(p, m, v)
  <1>1. ASSUME NEW n \in Good PROVE Holder(n)' = Holder(n)
    BY BCacheAssumption DEF Mapped, Nulled
  <1>2. Holder(m) = p
    BY DEF Mapped
  <1> QED BY <1>1, <1>2, Zenon DEF Store!Put

\* A block whose buffer keeps its contents keeps them.
LEMMA ContentsSame ==
  ASSUME Mapped, Mapped', NEW n \in Good, disk'[n] = disk[n],
         \A b \in Bufs : /\ buf'[b].blockno = n <=> buf[b].blockno = n
                         /\ buf[b].blockno = n => buf'[b].valid = buf[b].valid /\ buf'[b].data = buf[b].data
  PROVE  Contents(n)' = Contents(n)
  <1>1. CASE \E b \in Bufs : buf[b].blockno = n
    <2>1. PICK b \in Bufs : buf[b].blockno = n
      BY <1>1
    <2>2. Contents(n) = IF buf[b].valid THEN buf[b].data ELSE disk[n]
      BY <2>1 DEF Mapped
    <2>3. Contents(n)' = IF buf'[b].valid THEN buf'[b].data ELSE disk'[n]
      BY <2>1 DEF Mapped
    <2> QED BY <2>1, <2>2, <2>3
  <1>2. CASE \A b \in Bufs : buf[b].blockno # n
    <2>1. Contents(n) = disk[n]
      BY <1>2 DEF Mapped
    <2>2. Contents(n)' = disk'[n]
      BY <1>2 DEF Mapped
    <2> QED BY <2>1, <2>2
  <1> QED BY <1>1, <1>2

\* The process that has a block locked has it in its buffer.
LEMMA HolderFacts ==
  ASSUME Core, NEW p \in Procs, pc[p] \in HasLock
  PROVE  /\ mine[p] \in Bufs /\ want[p] \in Blocks /\ buf[mine[p]].blockno = want[p]
         /\ lock[mine[p]] = p
         /\ pc[p] = "use" => buf[mine[p]].valid /\ Holds(p, want[p])
         /\ \A q \in Procs : q # p => ~ Holds(q, want[p])
         /\ pc[p] = "bread" => ~ Holds(p, want[p])
  <1>1. /\ mine[p] \in Bufs /\ want[p] \in Blocks /\ buf[mine[p]].blockno = want[p]
        /\ lock[mine[p]] = p
    BY DEF Core, PlaceInv, ProcType, HasBuf, HasLock, Nulled
  <1>2. pc[p] = "use" => buf[mine[p]].valid
    BY <1>1, BCacheAssumption DEF Core, DataInv
  <1>3. \A q \in Procs : q # p => ~ Holds(q, want[p])
    BY <1>1, OneHolder DEF Holds, HasLock
  <1> QED BY <1>1, <1>2, <1>3 DEF Holds

\* acquiresleep(), brelse() and a bget() show nothing of the store.
LEMMA QuietStep ==
  ASSUME Core, Mapped, Mapped', NEW p \in Procs, Acquiresleep(p) \/ Brelse(p)
  PROVE  Same
  <1>1. /\ UNCHANGED disk /\ pc[p] \in {"lock", "brelse"} /\ pc'[p] \in {"bread", "locksleep", "out"}
        /\ \A q \in Procs : q # p => pc'[q] = pc[q] /\ mine'[q] = mine[q] /\ want'[q] = want[q]
    BY DEF Acquiresleep, Brelse, Goto, Core, ProcType
  <1>2. \A b \in Bufs : /\ buf'[b].blockno = buf[b].blockno /\ buf'[b].valid = buf[b].valid
                        /\ buf'[b].data = buf[b].data
    BY DEF Acquiresleep, Brelse, DropRef, Core, BufType, Struct
  <1>3. \A n \in Good : Contents(n)' = Contents(n)
    BY <1>1, <1>2, ContentsSame
  <1>4. \A q \in Procs : pc[q] \in {"use", "iderw"} => mine[q] \in Bufs
    BY DEF Core, PlaceInv, ProcType, HasBuf, Nulled
  <1>5. \A n \in Good : \A q \in Procs : Holds(q, n)' <=> Holds(q, n)
    BY <1>1, <1>2, <1>4 DEF Holds
  <1> QED BY <1>3, <1>5, StoreStutters

\* bget() without a buffer shows nothing of the store.
LEMMA PanicStep ==
  ASSUME Core, Mapped, Mapped', NEW p \in Procs, NEW n \in Blocks, Bget(p, n),
         Cached(n) \cup Unused = {}
  PROVE  Same
  <1>1. /\ pc[p] = "out" /\ pc'[p] = "panic" /\ UNCHANGED <<buf, disk, mine>>
        /\ \A q \in Procs : q # p => pc'[q] = pc[q] /\ want'[q] = want[q]
    BY DEF Bget, Goto, Core, ProcType
  <1>2. \A m \in Good : Contents(m)' = Contents(m)
    BY <1>1, ContentsSame
  <1>3. \A m \in Good : \A q \in Procs : Holds(q, m)' <=> Holds(q, m)
    BY <1>1 DEF Holds
  <1> QED BY <1>2, <1>3, StoreStutters

\* It recycles a buffer only when the disk has its contents.
LEMMA BgetStep ==
  ASSUME Core, Counted, Mapped, Mapped', NEW p \in Procs, NEW n \in Blocks, Bget(p, n),
         Cached(n) \cup Unused # {}
  PROVE  Same
  <1>g. PICK b \in Bufs : Given(p, n, b)
    BY BgetFacts
  <1>b. /\ mine' = [mine EXCEPT ![p] = b] /\ pc' = [pc EXCEPT ![p] = "lock"]
        /\ \A c \in Bufs : c # b => buf'[c] = buf[c]
        /\ buf'[b].blockno = n
        /\ \/ /\ buf[b].blockno = n
              /\ buf'[b].valid = buf[b].valid /\ buf'[b].data = buf[b].data
           \/ /\ buf[b].refcnt = 0 /\ ~ buf[b].dirty /\ \A c \in Bufs : buf[c].blockno # n
              /\ buf'[b].valid = FALSE
    BY <1>g, Zenon DEF Given
  <1>0. /\ pc[p] = "out" /\ UNCHANGED disk
        /\ \A q \in Procs : q # p => pc'[q] = pc[q] /\ mine'[q] = mine[q] /\ want'[q] = want[q]
        /\ pc'[p] = "lock"
    BY <1>b DEF Bget, Core, ProcType
  <1>1. CASE buf[b].blockno = n /\ buf'[b].valid = buf[b].valid /\ buf'[b].data = buf[b].data
    <2>1. \A c \in Bufs : /\ buf'[c].blockno = buf[c].blockno /\ buf'[c].valid = buf[c].valid
                          /\ buf'[c].data = buf[c].data
      BY <1>b, <1>1, SMTT(30)
    <2>2. \A m \in Good : Contents(m)' = Contents(m)
      BY <1>0, <2>1, ContentsSame
    <2>3. \A q \in Procs : pc[q] \in {"use", "iderw"} => mine[q] \in Bufs
      BY SMTT(30) DEF Core, PlaceInv, ProcType, HasBuf, Nulled
    <2>4. \A m \in Good : \A q \in Procs : Holds(q, m)' <=> Holds(q, m)
      BY <1>0, <2>1, <2>3 DEF Holds
    <2> QED BY <2>2, <2>4, StoreStutters
  <1>2. CASE /\ buf[b].refcnt = 0 /\ ~ buf[b].dirty /\ \A c \in Bufs : buf[c].blockno # n
             /\ buf'[b].valid = FALSE
    <2>1. ASSUME NEW m \in Good PROVE Contents(m)' = Contents(m)
      <3>1. CASE m = n
        <4>1. Contents(m) = disk[m]
          BY <1>2, <3>1, SMTT(30) DEF Mapped
        <4>2. Contents(m)' = disk'[m]
          BY <1>b, <1>2, <3>1 DEF Mapped
        <4> QED BY <1>0, <4>1, <4>2, SMTT(30)
      <3>2. CASE m = buf[b].blockno
        <4>1. Contents(m) = disk[m]
          <5>1. Contents(m) = IF buf[b].valid THEN buf[b].data ELSE disk[m]
            BY <3>2, Zenon DEF Mapped
          <5>2. buf[b].valid => buf[b].data = disk[m]
            BY <1>2, <3>2 DEF Core, DataInv, Good
          <5> QED BY <5>1, <5>2, SMTT(30)
        <4>2. \A c \in Bufs : buf'[c].blockno # m
          <5>1. \A c \in Bufs : c # b => buf[c].blockno # m
            BY <3>2, BCacheAssumption DEF Core, OneBufferPerBlock, Good
          <5> QED BY <1>b, <1>2, <3>2, <5>1
        <4>3. Contents(m)' = disk'[m]
          BY <4>2 DEF Mapped
        <4> QED BY <1>0, <4>1, <4>3
      <3>3. CASE m # n /\ m # buf[b].blockno
        <4>1. \A c \in Bufs : /\ buf'[c].blockno = m <=> buf[c].blockno = m
                              /\ buf[c].blockno = m => buf'[c].valid = buf[c].valid /\ buf'[c].data = buf[c].data
          BY <1>b, <3>3
        <4> QED BY <1>0, <4>1, ContentsSame
      <3> QED BY <3>1, <3>2, <3>3
    <2>2. \A q \in Procs : pc[q] \in {"use", "iderw"} => mine[q] \in Bufs /\ mine[q] # b
      <3>1. \A q \in Procs : mine[q] # b
        BY <1>2, SMTT(30) DEF Counted
      <3> QED BY <3>1 DEF Core, PlaceInv, ProcType, HasBuf, Nulled
    <2>3. \A m \in Good : \A q \in Procs : Holds(q, m)' <=> Holds(q, m)
      BY <1>0, <1>b, <2>2 DEF Holds
    <2> QED BY <2>1, <2>3, StoreStutters
  <1> QED BY <1>b, <1>1, <1>2, Zenon

\* bread() returns a buffer that was valid.
LEMMA BreadStep ==
  ASSUME Core, Mapped, Mapped', NEW p \in Procs, Bread(p)
  PROVE  Same \/ (want[p] \in Good /\ Store!Get(p, want[p]))
  <1>0. /\ pc[p] = "bread" /\ UNCHANGED <<buf, lru, lock, disk, mine, want>>
        /\ pc'[p] = (IF buf[mine[p]].valid THEN "use" ELSE "iderw")
        /\ \A q \in Procs : q # p => pc'[q] = pc[q]
    BY DEF Bread, Iderw, Goto, Core, ProcType
  <1>1. \A n \in Good : Contents(n)' = Contents(n)
    BY <1>0, ContentsSame
  <1>2. \A q \in Procs : q # p => \A n \in Good : Holds(q, n)' <=> Holds(q, n)
    BY <1>0 DEF Holds
  <1>3. \A n \in Good : ~ Holds(p, n)
    BY <1>0 DEF Holds
  <1>4. CASE buf[mine[p]].valid /\ want[p] \in Good
    <2>m. PICK m \in Good : m = want[p]
      BY <1>4
    <2>1. \A q \in Procs : ~ Holds(q, m)
      BY <1>0, <1>3, <2>m, HolderFacts DEF HasLock
    <2>2. Holds(p, m)'
      BY <1>0, <1>4, <2>m DEF Holds
    <2>3. \A n \in Good : \A q \in Procs : n # m => (Holds(q, n)' <=> Holds(q, n))
      BY <1>0, <1>2, <2>m DEF Holds
    <2>4. Store!Get(p, m)
      BY <1>1, <2>1, <2>2, <2>3, StoreGets
    <2> QED BY <2>m, <2>4
  <1>5. CASE ~ (buf[mine[p]].valid /\ want[p] \in Good)
    <2>1. \A n \in Good : ~ Holds(p, n)'
      BY <1>0, <1>5 DEF Holds
    <2>2. \A n \in Good : \A q \in Procs : Holds(q, n)' <=> Holds(q, n)
      BY <1>2, <1>3, <2>1
    <2>3. Same
      BY <1>1, <2>2, StoreStutters
    <2> QED BY <2>3
  <1> QED BY <1>4, <1>5

\* brelse() unlocks the buffer.
LEMMA ReleaseStep ==
  ASSUME Core, Mapped, Mapped', NEW p \in Procs, Releasesleep(p)
  PROVE  Same \/ (want[p] \in Good /\ Store!Drop(p, want[p]))
  <1>0. /\ pc[p] = "use" /\ UNCHANGED <<buf, lru, disk, mine, want>> /\ pc'[p] = "brelse"
        /\ \A q \in Procs : q # p => (pc'[q] \in {"use", "iderw"} <=> pc[q] \in {"use", "iderw"})
    BY DEF Releasesleep, WakeupLock, Core, ProcType
  <1>1. \A n \in Good : Contents(n)' = Contents(n)
    BY <1>0, ContentsSame
  <1>2. \A q \in Procs : q # p => \A n \in Good : Holds(q, n)' <=> Holds(q, n)
    BY <1>0 DEF Holds
  <1>3. \A n \in Good : ~ Holds(p, n)'
    BY <1>0 DEF Holds
  <1>4. CASE want[p] \in Good
    <2>m. PICK m \in Good : m = want[p]
      BY <1>4
    <2>1. Holds(p, m) /\ \A q \in Procs : q # p => ~ Holds(q, m)
      BY <1>0, <2>m, HolderFacts DEF HasLock
    <2>2. \A q \in Procs : ~ Holds(q, m)'
      BY <1>2, <1>3, <2>1
    <2>3. \A n \in Good : \A q \in Procs : n # m => (Holds(q, n)' <=> Holds(q, n))
      BY <1>0, <1>2, <2>m DEF Holds
    <2>4. Store!Drop(p, m)
      BY <1>1, <2>1, <2>2, <2>3, StoreDrops
    <2> QED BY <2>m, <2>4
  <1>5. CASE want[p] \notin Good
    <2>2. \A n \in Good : \A q \in Procs : Holds(q, n)' <=> Holds(q, n)
      BY <1>0, <1>2, <1>3, <1>5 DEF Holds
    <2>3. Same
      BY <1>1, <2>2, StoreStutters
    <2> QED BY <2>3
  <1> QED BY <1>4, <1>5

\* The holder changes the contents, whether it writes the buffer or hands it to
\* the log.
LEMMA WriteStep ==
  ASSUME Core, Mapped, Mapped', NEW p \in Procs, NEW v \in Vals,
         Bwrite(p, v) \/ LogWrite(p, v)
  PROVE  Same \/ (want[p] \in Good /\ Store!Put(p, want[p], v))
  <1>0. /\ pc[p] = "use" /\ UNCHANGED <<disk, mine, want>> /\ pc'[p] \in {"use", "iderw"}
        /\ \A q \in Procs : q # p => pc'[q] = pc[q]
        /\ buf' = [buf EXCEPT ![mine[p]] = [@ EXCEPT !.data = v, !.dirty = TRUE]]
    BY DEF Bwrite, LogWrite, Iderw, Goto, Core, ProcType
  <1>b. PICK b \in Bufs : b = mine[p] /\ buf[b].blockno = want[p] /\ buf[b].valid /\ Holds(p, want[p])
    BY <1>0, HolderFacts, SMTT(30) DEF HasLock
  <1>1. /\ \A c \in Bufs : c # b => buf'[c] = buf[c]
        /\ buf'[b].blockno = buf[b].blockno /\ buf'[b].valid = buf[b].valid /\ buf'[b].data = v
    BY <1>0, <1>b, DirtyFacts, Zenon DEF Core
  <1>2. \A n \in Good : n # want[p] => Contents(n)' = Contents(n)
    BY <1>0, <1>b, <1>1, ContentsSame
  <1>3. \A q \in Procs : pc[q] \in {"use", "iderw"} => mine[q] \in Bufs
    BY DEF Core, PlaceInv, ProcType, HasBuf, Nulled
  <1>4. \A n \in Good : \A q \in Procs : Holds(q, n)' <=> Holds(q, n)
    BY <1>0, <1>b, <1>1, <1>3 DEF Holds
  <1>5. CASE want[p] \in Good
    <2>m. PICK m \in Good : m = want[p]
      BY <1>5
    <2>1. Contents(m)' = v
      <3>1. Contents(m)' = IF buf'[b].valid THEN buf'[b].data ELSE disk'[m]
        <4>1. buf'[b].blockno = m
          BY <1>b, <1>1, <2>m, SMTT(30)
        <4> QED BY <4>1 DEF Mapped
      <3> QED BY <1>b, <1>1, <3>1, SMTT(30)
    <2>2. Store!Put(p, m, v)
      BY <1>b, <1>2, <1>4, <2>m, <2>1, StorePuts
    <2> QED BY <2>m, <2>2
  <1>6. CASE want[p] \notin Good
    <2>1. Same
      BY <1>2, <1>4, <1>6, StoreStutters
    <2> QED BY <2>1
  <1> QED BY <1>5, <1>6

\* The interrupt: what was written is what the buffer has; what was read is handed
\* to the process that sleeps in iderw().
LEMMA IdeintrStep ==
  ASSUME Core, Mapped, Mapped', Ideintr
  PROVE  Same \/ \E p \in Procs, m \in Good : Store!Get(p, m)
  <1>f. PICK b \in Bufs, p \in Procs, d \in Vals : Finished(b, p, d)
    BY IdeintrFacts
  <1>1. /\ pc[p] = "iderw" /\ mine[p] = b /\ want[p] = buf[b].blockno /\ buf[b].blockno \in Blocks
        /\ buf[b].valid <=> buf[b].dirty
        /\ d = IF buf[b].dirty \/ buf[b].blockno \in BadBlocks THEN buf[b].data
               ELSE disk[buf[b].blockno]
        /\ \A c \in Bufs : c # b => buf'[c] = buf[c]
        /\ buf'[b].blockno = buf[b].blockno /\ buf'[b].valid = TRUE /\ buf'[b].data = d
        /\ \A n \in Blocks : n # buf[b].blockno => disk'[n] = disk[n]
        /\ pc' = [q \in Procs |-> IF q = p THEN "use" ELSE pc[q]]
    BY <1>f, Zenon DEF Finished, Brought
  <1>u. UNCHANGED <<mine, want>>
    BY DEF Ideintr
  <1>2. ASSUME NEW n \in Good PROVE Contents(n)' = Contents(n)
    <2>1. CASE n = buf[b].blockno
      <3>1. Contents(n) = IF buf[b].valid THEN buf[b].data ELSE disk[n]
        BY <2>1, SMTT(30) DEF Mapped
      <3>2. Contents(n)' = IF buf'[b].valid THEN buf'[b].data ELSE disk'[n]
        BY <1>1, <2>1, ZenonT(30) DEF Mapped
      <3> QED BY <1>1, <2>1, <3>1, <3>2 DEF Good
    <2>2. CASE n # buf[b].blockno
      <3>1. \A c \in Bufs : /\ buf'[c].blockno = n <=> buf[c].blockno = n
                            /\ buf[c].blockno = n => buf'[c].valid = buf[c].valid /\ buf'[c].data = buf[c].data
        BY <1>1, <2>2
      <3>2. disk'[n] = disk[n]
        BY <1>1, <2>2, SMTT(30) DEF Good
      <3> QED BY <3>1, <3>2, ContentsSame
    <2> QED BY <2>1, <2>2
  <1>3. \A q \in Procs : pc[q] \in {"use", "iderw"} => mine[q] \in Bufs /\ (mine[q] = b => q = p)
    BY <1>1 DEF Core, PlaceInv, ProcType, HasBuf, HasLock, Nulled
  <1>4. \A n \in Good : \A q \in Procs : q # p => (Holds(q, n)' <=> Holds(q, n))
    BY <1>1, <1>u, <1>3 DEF Holds
  <1>5. CASE buf[b].valid \/ want[p] \notin Good
    <2>1. \A n \in Good : Holds(p, n)' <=> Holds(p, n)
      BY <1>1, <1>u, <1>5 DEF Holds
    <2>2. Same
      BY <1>2, <1>4, <2>1, StoreStutters
    <2> QED BY <2>2
  <1>6. CASE ~ buf[b].valid /\ want[p] \in Good
    <2>m. PICK m \in Good : m = want[p]
      BY <1>6
    <2>1. \A q \in Procs : ~ Holds(q, m)
      <3>1. \A q \in Procs : q # p => ~ Holds(q, m)
        BY <1>1, <2>m, HolderFacts, SMTT(30) DEF HasLock
      <3> QED BY <1>1, <1>6, <3>1 DEF Holds
    <2>2. Holds(p, m)'
      BY <1>1, <1>u, <2>m DEF Holds
    <2>3. \A n \in Good : \A q \in Procs : n # m => (Holds(q, n)' <=> Holds(q, n))
      BY <1>1, <1>u, <1>4, <2>m DEF Holds
    <2>4. Store!Get(p, m)
      BY <1>2, <2>1, <2>2, <2>3, StoreGets
    <2> QED BY <2>4
  <1> QED BY <1>5, <1>6

\* Every step of the cache is one of the store, or shows nothing of it.
LEMMA CoherentStep ==
  ASSUME Core, Counted, Mapped, Mapped', [Next]_vars
  PROVE  [Store!BNext]_(Store!bvars)
  <1>1. Same => UNCHANGED Store!bvars
    BY DEF Same, Store!bvars
  <1>2. ASSUME NEW p \in Procs, KernelStep(p) PROVE Same \/ Store!BNext
    <2>1. CASE Acquiresleep(p) \/ Brelse(p)
      BY <2>1, QuietStep
    <2>2. CASE Bread(p)
      BY <2>2, BreadStep DEF Store!BNext
    <2> QED BY <1>2, <2>1, <2>2 DEF KernelStep
  <1>3. ASSUME NEW p \in Procs, NEW n \in Blocks, Bget(p, n) PROVE Same
    BY <1>3, BgetStep, PanicStep
  <1>4. ASSUME NEW p \in Procs, NEW v \in Vals, Bwrite(p, v) \/ LogWrite(p, v)
        PROVE  Same \/ Store!BNext
    BY <1>4, WriteStep DEF Store!BNext
  <1>5. ASSUME NEW p \in Procs, Releasesleep(p) PROVE Same \/ Store!BNext
    BY <1>5, ReleaseStep DEF Store!BNext
  <1>6. CASE Ideintr
    BY <1>1, <1>6, IdeintrStep DEF Store!BNext
  <1>7. CASE UNCHANGED vars
    <2>1. Same
      BY <1>7 DEF vars, Same, Contents, Holder
    <2> QED BY <1>1, <2>1
  <1> QED BY <1>1, <1>2, <1>3, <1>4, <1>5, <1>6, <1>7 DEF Next

=============================================================================
