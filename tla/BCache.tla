------------------------------- MODULE BCache -------------------------------
(***************************************************************************)
(* The buffer cache (bio.c) with the sleep-locks of its buffers            *)
(* (sleeplock.c) and the disk driver below it (ide.c).                     *)
(*                                                                         *)
(* A step is what runs with one spin-lock held (bcache.lock, a sleep-      *)
(* lock's lk, idelock): processes and the disk's interrupt interleave      *)
(* everywhere else.  Each process uses one buffer at a time.               *)
(***************************************************************************)
EXTENDS Naturals, Sequences, FiniteSets, Functions

CONSTANTS Procs, Bufs, Blocks, Vals,
          NoProc, NoBuf, NoBlock,   \* null
          BadBlocks,   \* blocks that the drive fails to read (IDE_DF, IDE_ERR)
          Writable,    \* blocks that callers change
          MaxPinned    \* buffers that the log keeps B_DIRTY, at most

ASSUME BCacheAssumption ==
  /\ IsFiniteSet(Procs) /\ IsFiniteSet(Bufs)
  /\ BadBlocks \subseteq Blocks /\ Writable \subseteq Blocks
  /\ NoProc \notin Procs /\ NoBuf \notin Bufs /\ NoBlock \notin Blocks /\ Vals # {}
  /\ MaxPinned \in Nat

VARIABLES
  buf,        \* buf[b]: struct buf; valid and dirty are B_VALID and B_DIRTY
  lru,        \* bcache's list, head.next first
  lock,       \* lock[b]: the process that has b->lock, or NoProc
  idequeue,   \* the buffers that wait for the disk; the first is in progress
  cmd,        \* what idestart() told the drive to do last
  disk,
  pc,
  mine,       \* mine[p]: the buffer p has got from bget()
  want        \* want[p]: the block p asked for

vars == <<buf, lru, lock, idequeue, cmd, disk, pc, mine, want>>

Places == {"out", "lock", "locksleep", "bread", "iderw", "use", "brelse", "panic"}

\* What blocks and buffers hold at first.
Zero == CHOOSE v \in Vals : TRUE

NoCmd == [busy |-> FALSE, blockno |-> NoBlock, write |-> FALSE, data |-> Zero]

\* binit()
Init ==
  /\ buf = [b \in Bufs |-> [blockno |-> NoBlock, valid |-> FALSE,
                            dirty |-> FALSE, refcnt |-> 0, data |-> Zero]]
  /\ disk = [n \in Blocks |-> Zero]
  /\ cmd = NoCmd
  /\ lru = CHOOSE s \in Bijection(1..Cardinality(Bufs), Bufs) : TRUE
  /\ lock = [b \in Bufs |-> NoProc]
  /\ idequeue = <<>>
  /\ pc = [p \in Procs |-> "out"]
  /\ mine = [p \in Procs |-> NoBuf]
  /\ want = [p \in Procs |-> NoBlock]

Goto(p, l) == pc' = [pc EXCEPT ![p] = l]
-----------------------------------------------------------------------------
\* bget(): the part with bcache.lock held

Cached(n) == {b \in Bufs : buf[b].blockno = n}

\* Mutant: B_DIRTY is not looked at.
UnusedDirty == {b \in Bufs : buf[b].refcnt = 0}

\* Mutant: refcnt is not looked at; only a locked buffer counts as used.
UnusedUnlocked == {b \in Bufs : lock[b] = NoProc /\ ~ buf[b].dirty}

Unused == {b \in Bufs : buf[b].refcnt = 0 /\ ~ buf[b].dirty}

\* The buffer of bs that was used least recently: the first one from the tail.
Oldest(bs) == {lru[i] : i \in {j \in DOMAIN lru :
                 lru[j] \in bs /\ \A k \in j + 1..Len(lru) : lru[k] \notin bs}}

\* b with one more reference, or taken over for block n.
Taken(b, n) ==
  IF b \in Cached(n) THEN [buf[b] EXCEPT !.refcnt = @ + 1]
  ELSE [buf[b] EXCEPT !.blockno = n, !.valid = FALSE, !.dirty = FALSE, !.refcnt = 1]

Bget(p, n) ==
  /\ pc[p] = "out"
  /\ want' = [want EXCEPT ![p] = n]
  /\ IF Cached(n) \cup Unused = {}
     THEN Goto(p, "panic") /\ UNCHANGED <<buf, mine>>
     ELSE \E b \in IF Cached(n) # {} THEN Cached(n) ELSE Oldest(Unused) :
            /\ buf' = [buf EXCEPT ![b] = Taken(b, n)]
            /\ mine' = [mine EXCEPT ![p] = b]
            /\ Goto(p, "lock")
  /\ UNCHANGED <<lru, lock, idequeue, cmd, disk>>
-----------------------------------------------------------------------------
\* acquiresleep(), releasesleep()

\* One round of the loop.
Acquiresleep(p) ==
  /\ pc[p] = "lock"
  /\ IF lock[mine[p]] # NoProc
     THEN Goto(p, "locksleep") /\ UNCHANGED lock
     ELSE Goto(p, "bread") /\ lock' = [lock EXCEPT ![mine[p]] = p]
  /\ UNCHANGED <<buf, lru, idequeue, cmd, disk, mine, want>>

\* wakeup(lk), with p going on to l.
WakeupLock(b, p, l) ==
  pc' = [q \in Procs |-> IF q = p THEN l
                         ELSE IF pc[q] = "locksleep" /\ mine[q] = b THEN "lock" ELSE pc[q]]

\* brelse(), first half: releasesleep().
Releasesleep(p) ==
  /\ pc[p] = "use"
  /\ lock' = [lock EXCEPT ![mine[p]] = NoProc]
  /\ WakeupLock(mine[p], p, "brelse")
  /\ UNCHANGED <<buf, lru, idequeue, cmd, disk, mine, want>>

\* Mutant: the count stays.
DropNone(b) == buf

\* b->refcnt--
DropRef(b) == [buf EXCEPT ![b].refcnt = @ - 1]

\* Move to the head of the MRU list.
ToHead(b) ==
  LET i == CHOOSE j \in DOMAIN lru : lru[j] = b
  IN  [j \in DOMAIN lru |-> IF j = 1 THEN b ELSE IF j <= i THEN lru[j - 1] ELSE lru[j]]

\* Second half: the reference is dropped with bcache.lock held.
Brelse(p) ==
  LET b == mine[p]
  IN  /\ pc[p] = "brelse"
      /\ buf' = DropRef(b)
      /\ lru' = IF buf[b].refcnt = 1 THEN ToHead(b) ELSE lru
      /\ mine' = [mine EXCEPT ![p] = NoBuf]
      /\ want' = [want EXCEPT ![p] = NoBlock]
      /\ Goto(p, "out")
      /\ UNCHANGED <<lock, idequeue, cmd, disk>>
-----------------------------------------------------------------------------
\* bread(), bwrite() and iderw()

\* idestart(): the drive gets its command, and the data of a write.
Idestart(b, bs) ==
  [busy |-> TRUE, blockno |-> bs[b].blockno, write |-> bs[b].dirty,
   data |-> IF bs[b].dirty THEN bs[b].data ELSE Zero]

\* iderw() until its sleep().
Iderw(p, bs) ==
  LET b == mine[p]
  IN  /\ idequeue' = Append(idequeue, b)
      /\ cmd' = IF idequeue = <<>> THEN Idestart(b, bs) ELSE cmd
      /\ Goto(p, "iderw")

\* bread(), after bget().
Bread(p) ==
  /\ pc[p] = "bread"
  /\ IF buf[mine[p]].valid THEN Goto(p, "use") /\ UNCHANGED <<idequeue, cmd>> ELSE Iderw(p, buf)
  /\ UNCHANGED <<buf, lru, lock, disk, mine, want>>

\* The caller changes the data and writes it, ...
Bwrite(p, v) ==
  /\ pc[p] = "use" /\ want[p] \in Writable
  /\ buf' = [buf EXCEPT ![mine[p]] = [@ EXCEPT !.data = v, !.dirty = TRUE]]
  /\ Iderw(p, buf')
  /\ UNCHANGED <<lru, lock, disk, mine, want>>

\* ... or hands it to log_write(): the buffer is dirty until the log has written it.
LogWrite(p, v) ==
  /\ pc[p] = "use" /\ want[p] \in Writable
  /\ buf[mine[p]].dirty \/ Cardinality({b \in Bufs : buf[b].dirty}) < MaxPinned
  /\ buf' = [buf EXCEPT ![mine[p]] = [@ EXCEPT !.data = v, !.dirty = TRUE]]
  /\ UNCHANGED <<lru, lock, idequeue, cmd, disk, pc, mine, want>>

\* The drive carries out the command that it has.
Written == IF cmd.write THEN [disk EXCEPT ![cmd.blockno] = cmd.data] ELSE disk

\* insl(), unless idewait(1) reports an error.
Arrived(b) == IF buf[b].dirty \/ cmd.blockno \in BadBlocks THEN buf[b].data ELSE disk[cmd.blockno]

\* Mutant: the request stays in the queue.
DequeuedNot == idequeue

\* idequeue = b->qnext
Dequeued == Tail(idequeue)

\* Mutant: the next request is not started.
StartNone(q, bs) == NoCmd

\* Start disk on next buf in queue.
StartNext(q, bs) == IF q = <<>> THEN NoCmd ELSE Idestart(Head(q), bs)

\* wakeup(b)
WakeupBuf(b) == [q \in Procs |-> IF pc[q] = "iderw" /\ mine[q] = b THEN "use" ELSE pc[q]]

\* The interrupt at the end of a command.  The process it wakes finds B_VALID set
\* and B_DIRTY clear, and leaves the loop of iderw().
Ideintr ==
  /\ cmd.busy
  /\ LET b == Head(idequeue)
     IN  /\ buf' = [buf EXCEPT ![b] = [@ EXCEPT !.data = Arrived(b), !.valid = TRUE, !.dirty = FALSE]]
         /\ idequeue' = Dequeued
         /\ cmd' = StartNext(idequeue', buf')
         /\ disk' = Written
         /\ pc' = WakeupBuf(b)
  /\ UNCHANGED <<lru, lock, mine, want>>
-----------------------------------------------------------------------------
KernelStep(p) == Acquiresleep(p) \/ Bread(p) \/ Brelse(p)

Next ==
  \/ \E p \in Procs :
       \/ KernelStep(p)
       \/ \E n \in Blocks : Bget(p, n)
       \/ \E v \in Vals : Bwrite(p, v) \/ LogWrite(p, v)
       \/ Releasesleep(p)
  \/ Ideintr

Spec == Init /\ [][Next]_vars

\* The drive answers; nothing is assumed of the processes.
FairSpec == Spec /\ WF_vars(Ideintr)
-----------------------------------------------------------------------------
\* Properties

Nulled(S, null) == S \cup {null}

\* Every variable stays in its range, and the list has every buffer once.
TypeOK ==
  /\ buf \in [Bufs -> [blockno : Nulled(Blocks, NoBlock), valid : BOOLEAN, dirty : BOOLEAN,
                       refcnt : 0..Cardinality(Procs), data : Vals]]
  /\ lru \in Bijection(1..Cardinality(Bufs), Bufs)
  /\ lock \in [Bufs -> Nulled(Procs, NoProc)]
  /\ idequeue \in Seq(Bufs)
  /\ cmd \in [busy : BOOLEAN, blockno : Nulled(Blocks, NoBlock), write : BOOLEAN, data : Vals]
  /\ disk \in [Blocks -> Vals]
  /\ pc \in [Procs -> Places]
  /\ mine \in [Procs -> Nulled(Bufs, NoBuf)]
  /\ want \in [Procs -> Nulled(Blocks, NoBlock)]

\* No two buffers ever hold the same block: bget() looks for the block and takes
\* a buffer for it without letting go of bcache.lock.
OneBufferPerBlock ==
  \A b, c \in Bufs : b # c /\ buf[b].blockno = buf[c].blockno => buf[b].blockno = NoBlock

\* A process that has come back from bget(), however long it slept for the lock,
\* has a buffer that still holds the block it asked for.
HoldsWhatItAsked == \A p \in Procs : mine[p] # NoBuf => buf[mine[p]].blockno = want[p]

\* The disk's queue has the buffers of the processes that sleep in iderw(), each
\* once, locked by that process; the drive works on the first one, with the
\* block number that the buffer has now.
QueueOwned ==
  /\ IsInjective(idequeue)
  /\ Range(idequeue) = {mine[p] : p \in {q \in Procs : pc[q] = "iderw"}}
  /\ \A p \in Procs : pc[p] \in {"bread", "iderw", "use"} => lock[mine[p]] = p
  /\ cmd.busy <=> idequeue # <<>>
  /\ cmd.busy => cmd.blockno = buf[Head(idequeue)].blockno

\* A process sleeps in acquiresleep() only while the lock is taken: the wakeup of
\* releasesleep() reaches every sleeper of the lock.
LockSleepsForReason == \A p \in Procs : pc[p] = "locksleep" => lock[mine[p]] # NoProc

\* b->refcnt counts the processes that have b: bget() and brelse() neither lose a
\* reference nor count one twice.
RefsCounted == \A b \in Bufs : buf[b].refcnt = Cardinality({p \in Procs : mine[p] = b})

\* There is no buffer left for bget() only when the processes that have one and the
\* blocks that the log pins make up all of them: nothing else takes a buffer away.
RunsOutForReason ==
  Unused = {} => Cardinality(Bufs) <= Cardinality({p \in Procs : mine[p] # NoBuf}) + MaxPinned

\* What the next holder of block n will see.
Contents(n) ==
  IF \E b \in Bufs : buf[b].blockno = n /\ buf[b].valid
  THEN buf[CHOOSE b \in Bufs : buf[b].blockno = n /\ buf[b].valid].data ELSE disk[n]

Holder(n) == LET ps == {p \in Procs : pc[p] \in {"use", "iderw"} /\ want[p] = n
                                      /\ buf[mine[p]].valid}
             IN  IF ps = {} THEN NoProc ELSE CHOOSE p \in ps : TRUE

Good == Blocks \ BadBlocks

Store == INSTANCE BlockStore
  WITH Blocks <- Good, content <- [n \in Good |-> Contents(n)], holder <- [n \in Good |-> Holder(n)]

\* The cache implements blocks with locks: a process sees what the last holder
\* left, whether the buffer stayed, was written and recycled, or was pinned by the
\* log; failed reads of other blocks make no difference.
Coherent == Store!BSpec

\* A request that is queued is answered, and its process goes on.
RequestAnswered == \A p \in Procs : pc[p] = "iderw" ~> pc[p] = "use"

\* The buffer bget() gives a process is the block's only one, and stays that while
\* the process sleeps for its lock, uses it or waits for the disk.
BufferIsBlock == OneBufferPerBlock /\ HoldsWhatItAsked

\* The list keeps every buffer, every reference is counted and given back, bget()
\* runs out of buffers only when all are really in use or pinned, and nobody sleeps
\* for a buffer whose lock is free.
CacheKept == TypeOK /\ RefsCounted /\ RunsOutForReason /\ LockSleepsForReason
=============================================================================
