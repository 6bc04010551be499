-------------------------------- MODULE Log ---------------------------------
(***************************************************************************)
(* The redo log: begin_op(), log_write() and end_op() of concurrent file   *)
(* system calls, the group commit, and recovery after a crash, which may   *)
(* come between any two writes of a block, in recovery too.                *)
(*                                                                         *)
(* Block 0 is the log's header, blocks 1 to size - 1 are its data blocks,  *)
(* the file system's blocks follow.  Of the buffer cache there is what the *)
(* log relies on: a buffer keeps its contents until it is recycled, which  *)
(* B_DIRTY prevents.                                                       *)
(***************************************************************************)
EXTENDS Naturals, Sequences, FiniteSets

CONSTANTS Procs,        \* processes that make file system calls
          NBlocks,      \* blocks of the file system
          Vals,         \* contents of a block
          NotCached,    \* no contents: the block has no buffer
          LOGSIZE, MAXOPBLOCKS,
          size,         \* sb.nlog, blocks of the log with its header
          Writers,      \* processes whose calls write; the others' only read
          OpWrites      \* blocks that a call really writes at most

Home == size..size + NBlocks - 1

ASSUME LogAssumption ==
  /\ Procs # {} /\ IsFiniteSet(Procs)
  /\ NBlocks \in Nat \ {0} /\ LOGSIZE \in Nat /\ MAXOPBLOCKS \in Nat \ {0}
  /\ size \in Nat \ {0}
  /\ Writers \subseteq Procs /\ OpWrites \in 0..MAXOPBLOCKS
  /\ NotCached \notin Vals

NoBlock == 0

VARIABLES
  disk,        \* data blocks of the log, and the file system's blocks
  header,      \* the block numbers in the header block, on disk
  cache,       \* cache[b]: contents of b's buffer, or NotCached
  dirty,       \* the buffers with B_DIRTY
  lh,          \* log.lh, the block numbers logged
  outstanding, committing,
  pc,          \* pc[p]: where p is; "boot" is recovery, with no process
  held,        \* held[p]: block whose buffer p has locked, in log_write
  wrote,       \* wrote[p]: blocks that p's call has logged (not in the code)
  tail         \* loop variable of write_log and install_trans

memory == <<cache, dirty, lh, outstanding, committing, pc, held, wrote, tail>>
vars == <<disk, header, memory>>

Places == {"boot", "user", "begin", "sleep", "op", "append", "write_log",
           "install", "end", "panic"}

\* A fresh file system; all processes wait for the first, which recovers the
\* log in forkret().
Init ==
  /\ \E v \in Vals : disk = [b \in 1..size + NBlocks - 1 |-> v]
  /\ header = <<>>
  /\ cache = [b \in Home |-> NotCached]
  /\ dirty = {}
  /\ lh = <<>>
  /\ outstanding = 0 /\ committing = FALSE
  /\ pc = [p \in Procs |-> "boot"]
  /\ held = [p \in Procs |-> NoBlock]
  /\ wrote = [p \in Procs |-> {}]
  /\ tail = 1
-----------------------------------------------------------------------------
\* Helpers

\* What bread() returns for block b.
Bread(b) == IF cache[b] = NotCached THEN disk[b] ELSE cache[b]

\* InLog(s, b): block b is listed in s, log.lh or the header on disk.
InLog(s, b) == \E i \in 1..Len(s) : s[i] = b

Goto(p, l) == pc' = [pc EXCEPT ![p] = l]

\* wakeup(&log), with process p going on to l.
WakeupLog(p, l) ==
  pc' = [q \in Procs |-> IF q = p THEN l
                         ELSE IF pc[q] = "sleep" THEN "begin" ELSE pc[q]]

\* Mutant: the check leaves out the call that begins.
RoomBefore(n, k) == n + k * MAXOPBLOCKS <= LOGSIZE

\* The log has room for k calls, n blocks being logged.
Room(n, k) == n + (k + 1) * MAXOPBLOCKS <= LOGSIZE

Full(n) == n >= LOGSIZE \/ n >= size - 1
-----------------------------------------------------------------------------
\* begin_op()

\* One round of the loop, with log.lock held.
BeginRound(p) ==
  /\ IF committing \/ ~ Room(Len(lh), outstanding)
     THEN Goto(p, "sleep") /\ UNCHANGED outstanding
     ELSE Goto(p, "op") /\ outstanding' = outstanding + 1
  /\ UNCHANGED <<disk, header, cache, dirty, lh, committing, held, wrote, tail>>

\* The first round, and one after a sleep.
BeginOp(p) == pc[p] = "user" /\ BeginRound(p)
BeginAgain(p) == pc[p] = "begin" /\ BeginRound(p)
-----------------------------------------------------------------------------
\* log_write(), with the change of the buffer that comes before it

\* The tests are made without log.lock.
Modify(p, b, v) ==
  /\ pc[p] = "op"
  /\ \A q \in Procs : held[q] # b
  /\ Cardinality(wrote[p] \cup {b}) <= OpWrites
  /\ cache' = [cache EXCEPT ![b] = v]
  /\ held' = [held EXCEPT ![p] = b]
  /\ wrote' = [wrote EXCEPT ![p] = @ \cup {b}]
  /\ Goto(p, IF Full(Len(lh)) THEN "panic" ELSE "append")
  /\ UNCHANGED <<disk, header, dirty, lh, outstanding, committing, tail>>

\* Log absorption: a block that is logged already is not logged again.
Logged(b) == IF InLog(lh, b) THEN lh ELSE Append(lh, b)

\* Mutant: the buffer may be recycled.
PinNot(b) == dirty

\* b->flags |= B_DIRTY
Pin(b) == dirty \cup {b}

LogWrite(p) ==
  /\ pc[p] = "append"
  /\ lh' = Logged(held[p])
  /\ dirty' = Pin(held[p])
  /\ held' = [held EXCEPT ![p] = NoBlock]
  /\ Goto(p, "op")
  /\ UNCHANGED <<disk, header, cache, outstanding, committing, wrote, tail>>

\* bget() recycles the buffer of b.
Recycle(b) ==
  /\ cache[b] # NotCached /\ b \notin dirty
  /\ \A q \in Procs : held[q] # b
  /\ cache' = [cache EXCEPT ![b] = NotCached]
  /\ UNCHANGED <<disk, header, dirty, lh, outstanding, committing, pc, held, wrote, tail>>
-----------------------------------------------------------------------------
\* end_op(), commit()

\* Mutant: only the commit wakes the calls that wait.
EndQuiet(p) == Goto(p, "user")

\* A call that is not the last gives its reserved space back.
EndNotLast(p) == WakeupLog(p, "user")

EndOp(p) ==
  /\ pc[p] = "op"
  /\ outstanding' = outstanding - 1
  /\ wrote' = [wrote EXCEPT ![p] = {}]
  /\ tail' = 1
  /\ IF outstanding = 1
     THEN /\ committing' = TRUE
          /\ Goto(p, IF lh = <<>> THEN "end" ELSE "write_log")
     ELSE EndNotLast(p) /\ UNCHANGED committing
  /\ UNCHANGED <<disk, header, cache, dirty, lh, held>>

\* One block of write_log().
WriteLog(p) ==
  /\ pc[p] = "write_log"
  /\ tail <= Len(lh)
  /\ disk' = [disk EXCEPT ![tail] = Bread(lh[tail])]
  /\ cache' = [cache EXCEPT ![lh[tail]] = Bread(lh[tail])]
  /\ tail' = tail + 1
  /\ UNCHANGED <<header, dirty, lh, outstanding, committing, pc, held, wrote>>

\* Mutant: the header is written before the blocks.
LoopEndsEarly == TRUE

\* tail has passed log.lh.n.
LoopEnds == tail > Len(lh)

\* write_head(): the commit.
WriteHead(p) ==
  /\ pc[p] = "write_log"
  /\ LoopEnds
  /\ header' = lh
  /\ tail' = 1
  /\ Goto(p, "install")
  /\ UNCHANGED <<disk, cache, dirty, lh, outstanding, committing, held, wrote>>

\* One block of install_trans(): bwrite() clears B_DIRTY once it is on disk.
Install ==
  /\ tail <= Len(lh)
  /\ disk' = [disk EXCEPT ![lh[tail]] = disk[tail]]
  /\ cache' = [cache EXCEPT ![lh[tail]] = disk[tail]]
  /\ dirty' = dirty \ {lh[tail]}
  /\ tail' = tail + 1
  /\ UNCHANGED <<header, lh, outstanding, committing, pc, held, wrote>>

InstallTrans(p) == pc[p] = "install" /\ Install

\* log.lh.n = 0; write_head()
Erase ==
  /\ LoopEnds
  /\ lh' = <<>>
  /\ header' = <<>>
  /\ tail' = 1

Clear(p) ==
  /\ pc[p] = "install"
  /\ Erase
  /\ Goto(p, "end")
  /\ UNCHANGED <<disk, cache, dirty, outstanding, committing, held, wrote>>

Committed(p) ==
  /\ pc[p] = "end"
  /\ committing' = FALSE
  /\ WakeupLog(p, "user")
  /\ UNCHANGED <<disk, header, cache, dirty, lh, outstanding, held, wrote, tail>>
-----------------------------------------------------------------------------
\* Crash and recovery

Booting == \A p \in Procs : pc[p] = "boot"
Panicked == \E p \in Procs : pc[p] = "panic"

\* The machine may be reset at any moment; read_head() comes first.
Crash ==
  /\ cache' = [b \in Home |-> NotCached]
  /\ dirty' = {}
  /\ lh' = header
  /\ outstanding' = 0 /\ committing' = FALSE
  /\ pc' = [p \in Procs |-> "boot"]
  /\ held' = [p \in Procs |-> NoBlock]
  /\ wrote' = [p \in Procs |-> {}]
  /\ tail' = 1
  /\ UNCHANGED <<disk, header>>

\* recover_from_log(), one block at a time.
Recover == Booting /\ Install

\* The log is clear, and the processes go on to user mode.
RecoverEnd ==
  /\ Booting
  /\ Erase
  /\ pc' = [p \in Procs |-> "user"]
  /\ UNCHANGED <<disk, cache, dirty, outstanding, committing, held, wrote>>
-----------------------------------------------------------------------------
\* A step of a call that has begun, or of begin_op() after a sleep.
KernelStep(p) ==
  \/ BeginAgain(p) \/ LogWrite(p) \/ EndOp(p)
  \/ WriteLog(p) \/ WriteHead(p) \/ InstallTrans(p) \/ Clear(p) \/ Committed(p)

ProcStep(p) ==
  \/ KernelStep(p) \/ BeginOp(p)
  \/ p \in Writers /\ \E b \in Home, v \in Vals : Modify(p, b, v)

Next ==
  \/ ~ Panicked /\ \E p \in Procs : ProcStep(p)
  \/ ~ Panicked /\ \E b \in Home : Recycle(b)
  \/ Crash \/ Recover \/ RecoverEnd

Spec == Init /\ [][Next]_vars

\* Kernel code goes on, and a call comes to its end_op(): a call makes finitely
\* many writes.
FairSpec ==
  /\ Spec
  /\ \A p \in Procs : WF_vars(~ Panicked /\ KernelStep(p)) /\ SF_vars(~ Panicked /\ EndOp(p))
  /\ WF_vars(Recover \/ RecoverEnd)
-----------------------------------------------------------------------------
\* Properties

\* Every variable stays in its range; the log never holds more blocks than its
\* area on disk, past which write_log() would write over the file system.
TypeOK ==
  /\ disk \in [1..size + NBlocks - 1 -> Vals]
  /\ lh \in Seq(Home) /\ Len(lh) <= LOGSIZE
  /\ header \in Seq(Home) /\ Len(header) <= size - 1
  /\ cache \in [Home -> Vals \cup {NotCached}]
  /\ dirty \subseteq Home
  /\ outstanding \in 0..Cardinality(Procs)
  /\ committing \in BOOLEAN
  /\ pc \in [Procs -> Places]
  /\ held \in [Procs -> Home \cup {NoBlock}]
  /\ wrote \in [Procs -> SUBSET Home]
  /\ tail \in 1..LOGSIZE + 1

\* Contents of the file system after a crash now and a complete recovery.
AfterRecovery ==
  [b \in Home |->
     IF InLog(header, b)
     THEN disk[CHOOSE i \in 1..Len(header) : header[i] = b] ELSE disk[b]]

\* Contents as file system calls see them.
Contents == IF Booting THEN AfterRecovery ELSE [b \in Home |-> Bread(b)]

Atomic == INSTANCE AtomicDisk
  WITH mem <- Contents, stable <- AfterRecovery, open <- outstanding

\* Whatever crashes, also in recovery, the calls see a disk on which the writes
\* of a group of calls happen all at once, at the write of the header, when no
\* call of the group is in progress; recycling buffers is not seen at all.
AllOrNothing == Atomic!ASpec

\* What end_op() has committed is in place: when the last call of a group
\* returns, the file system's blocks on disk hold every write, and a crash
\* has nothing to repair.
Durable ==
  \A p \in Procs : pc[p] = "end" =>
    header = <<>> /\ dirty = {} /\ \A b \in Home : disk[b] = Bread(b)

\* Calls in progress.
Active == {p \in Procs : pc[p] \in {"op", "append", "panic"}}

\* Blocks that p's call has logged, and the blocks that the calls in progress may
\* still log, up to MAXOPBLOCKS each: the k-th block of p is <<p, k>>.
LoggedBy(p) == {b \in wrote[p] : InLog(lh, b)}
Reserved == {r \in Active \X (1..MAXOPBLOCKS) : r[2] > Cardinality(LoggedBy(r[1]))}

\* What the calls in progress may still write was set aside for them by begin_op().
SpaceReserved == Len(lh) + Cardinality(Reserved) <= LOGSIZE

\* A process sleeps in begin_op() only while the log is being committed, or has
\* no room for its call: no wakeup is lost.
SleepsForReason ==
  (\E p \in Procs : pc[p] = "sleep") => committing \/ ~ Room(Len(lh), outstanding)

\* The processes that sleep in begin_op() are woken, all at once by wakeup(&log),
\* if only by a crash.
SleeperWoken == (\E p \in Procs : pc[p] = "sleep") ~> (\A p \in Procs : pc[p] # "sleep")

\* The log's area is never overrun: the variables stay in their ranges, the space
\* that calls in progress may still need is there, and a call waits only while it
\* is not.
LogFits == TypeOK /\ SpaceReserved /\ SleepsForReason

\* "this op might exhaust log space; wait for commit." (begin_op): a call that
\* begin_op() lets in, and that writes no more than MAXOPBLOCKS blocks, does not
\* exhaust the log.
NotExhausted == ~ Panicked /\ Len(lh) <= size - 1
=============================================================================
