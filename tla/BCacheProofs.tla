---------------------------- MODULE BCacheProofs ----------------------------
(***************************************************************************)
(* The buffer cache's counts, and its theorems: every reference is counted *)
(* once, so bget() runs out of buffers only when all are in use or pinned; *)
(* and the cache implements BlockStore.                                    *)
(***************************************************************************)
EXTENDS BCacheInvariant, FiniteSetTheorems

Refs(b) == {p \in Procs : mine[p] = b}

\* b->refcnt counts the processes that have b.
RefInv == \A b \in Bufs : buf[b].refcnt = Cardinality(Refs(b))

\* The buffers that only the log keeps from being written.
Pinned == {b \in Bufs : buf[b].dirty /\ ~ Queued(b)}

PinInv == Cardinality(Pinned) <= MaxPinned

LruType == lru \in Bijection(1..Cardinality(Bufs), Bufs)

\* The inductive invariant.
IInv == Core /\ LruType /\ RefInv /\ PinInv

\* The sizes are numbers.
LEMMA Sizes ==
  /\ Cardinality(Procs) \in Nat /\ Cardinality(Bufs) \in Nat
  /\ \A S \in SUBSET Procs : IsFiniteSet(S) /\ Cardinality(S) \in 0..Cardinality(Procs)
  /\ \A S \in SUBSET Bufs : IsFiniteSet(S) /\ Cardinality(S) \in 0..Cardinality(Bufs)
  <1>1. IsFiniteSet(Procs) /\ IsFiniteSet(Bufs)
    BY BCacheAssumption
  <1>2. Cardinality(Procs) \in Nat /\ Cardinality(Bufs) \in Nat
    BY <1>1, FS_CardinalityType
  <1>3. ASSUME NEW S \in SUBSET Procs
        PROVE  IsFiniteSet(S) /\ Cardinality(S) \in 0..Cardinality(Procs)
    <2>1. IsFiniteSet(S) /\ Cardinality(S) <= Cardinality(Procs)
      BY <1>1, FS_Subset
    <2>2. Cardinality(S) \in Nat
      BY <2>1, FS_CardinalityType
    <2> QED BY <1>2, <2>1, <2>2
  <1>4. ASSUME NEW S \in SUBSET Bufs
        PROVE  IsFiniteSet(S) /\ Cardinality(S) \in 0..Cardinality(Bufs)
    <2>1. IsFiniteSet(S) /\ Cardinality(S) <= Cardinality(Bufs)
      BY <1>1, FS_Subset
    <2>2. Cardinality(S) \in Nat
      BY <2>1, FS_CardinalityType
    <2> QED BY <1>2, <2>1, <2>2
  <1> QED BY <1>2, <1>3, <1>4

\* One element more.
LEMMA AddOne ==
  ASSUME NEW S, IsFiniteSet(S), NEW x, NEW T \in SUBSET (S \cup {x})
  PROVE  Cardinality(T) \in Nat /\ Cardinality(S) \in Nat /\ Cardinality(T) <= Cardinality(S) + 1
  <1>1. /\ IsFiniteSet(S \cup {x})
        /\ Cardinality(S \cup {x}) = IF x \in S THEN Cardinality(S) ELSE Cardinality(S) + 1
    BY FS_AddElement
  <1>2. IsFiniteSet(T) /\ Cardinality(T) <= Cardinality(S \cup {x})
    BY <1>1, FS_Subset
  <1>3. Cardinality(T) \in Nat /\ Cardinality(S) \in Nat
    BY <1>2, FS_CardinalityType
  <1> QED BY <1>1, <1>2, <1>3

\* Fewer pinned buffers are no more than MaxPinned.
LEMMA PinnedShrinks ==
  ASSUME PinInv, NEW S \in SUBSET Pinned
  PROVE  Cardinality(S) <= MaxPinned
  <1>1. Pinned \subseteq Bufs
    BY DEF Pinned
  <1>2. IsFiniteSet(Pinned) /\ Cardinality(Pinned) \in Nat /\ Cardinality(S) \in Nat
    BY <1>1, Sizes
  <1>3. Cardinality(S) <= Cardinality(Pinned)
    BY <1>2, FS_Subset
  <1> QED BY <1>2, <1>3, BCacheAssumption DEF PinInv

\* A step that keeps the references, or that pins nothing, keeps the counts.
LEMMA CountsKept ==
  ASSUME RefInv, PinInv
  PROVE  (RefStep => RefInv') /\ (PinStep => PinInv')
  <1>1. ASSUME RefStep PROVE RefInv'
    BY <1>1, Zenon DEF RefStep, RefInv, Refs
  <1>2. ASSUME PinStep PROVE PinInv'
    <2>1. Pinned' \subseteq Pinned
      BY <1>2, Zenon DEF PinStep, Pinned
    <2> QED BY <2>1, PinnedShrinks DEF PinInv
  <1> QED BY <1>1, <1>2

\* The move to the head keeps every buffer in the list, once.
LEMMA ToHeadKeeps ==
  ASSUME LruType, NEW b \in Bufs
  PROVE  ToHead(b) \in Bijection(1..Cardinality(Bufs), Bufs)
  <1>n. PICK n \in Nat : n = Cardinality(Bufs)
    BY Sizes
  <1>1. /\ lru \in [1..n -> Bufs] /\ DOMAIN lru = 1..n
        /\ \A i, j \in 1..n : lru[i] = lru[j] => i = j
        /\ \A c \in Bufs : \E i \in 1..n : lru[i] = c
    BY <1>n DEF LruType, Bijection, Injection, Surjection, IsInjective
  <1>i. PICK i \in 1..n : i = (CHOOSE j \in DOMAIN lru : lru[j] = b) /\ lru[i] = b
    BY <1>1
  <1>h. PICK h : h = [j \in 1..n |-> IF j = 1 THEN b ELSE IF j <= i THEN lru[j - 1] ELSE lru[j]]
    BY Zenon
  <1>2. ToHead(b) = h
    BY <1>1, <1>i, <1>h DEF ToHead
  <1>3. h \in [1..n -> Bufs]
    BY <1>1, <1>h
  <1>4. \A j, k \in 1..n : h[j] = h[k] => j = k
    BY <1>1, <1>h, <1>i
  <1>5. ASSUME NEW c \in Bufs
        PROVE  \E j \in 1..n : h[j] = c
    <2>1. PICK k \in 1..n : lru[k] = c
      BY <1>1
    <2>2. CASE k = i
      <3>1. 1 \in 1..n /\ h[1] = b
        BY <1>h
      <3> QED BY <1>i, <2>1, <2>2, <3>1
    <2>3. CASE k < i
      <3>1. k + 1 \in 1..n /\ h[k + 1] = lru[k]
        BY <1>h, <1>i, <2>3
      <3> QED BY <2>1, <3>1
    <2>4. CASE k > i
      <3>1. h[k] = lru[k]
        BY <1>h, <1>i, <2>4
      <3> QED BY <2>1, <3>1
    <2> QED BY <2>2, <2>3, <2>4
  <1> QED BY <1>n, <1>2, <1>3, <1>4, <1>5 DEF Bijection, Injection, Surjection, IsInjective

\* A process that has a buffer is counted.
LEMMA RefsCount ==
  ASSUME RefInv, NEW b \in Bufs
  PROVE  /\ IsFiniteSet(Refs(b)) /\ buf[b].refcnt = Cardinality(Refs(b))
         /\ buf[b].refcnt \in 0..Cardinality(Procs)
         /\ \A p \in Procs : buf[b].refcnt = 0 => mine[p] # b
         /\ \A p \in Procs : mine[p] = b => Cardinality(Refs(b) \ {p}) = buf[b].refcnt - 1
         /\ \A p \in Procs : mine[p] # b => Cardinality(Refs(b) \cup {p}) = buf[b].refcnt + 1
  <1>1. IsFiniteSet(Refs(b)) /\ Cardinality(Refs(b)) \in 0..Cardinality(Procs)
    BY Sizes DEF Refs
  <1>2. buf[b].refcnt = Cardinality(Refs(b))
    BY DEF RefInv
  <1>3. ASSUME NEW p \in Procs, buf[b].refcnt = 0
        PROVE  mine[p] # b
    <2>1. Refs(b) = {}
      BY <1>1, <1>2, <1>3, FS_EmptySet, Zenon
    <2> QED BY <2>1 DEF Refs
  <1>4. ASSUME NEW p \in Procs, mine[p] = b
        PROVE  Cardinality(Refs(b) \ {p}) = buf[b].refcnt - 1
    <2>1. p \in Refs(b)
      BY <1>4 DEF Refs
    <2> QED BY <1>1, <1>2, <2>1, FS_RemoveElement, Zenon
  <1>5. ASSUME NEW p \in Procs, mine[p] # b
        PROVE  Cardinality(Refs(b) \cup {p}) = buf[b].refcnt + 1
    <2>1. p \notin Refs(b)
      BY <1>5 DEF Refs
    <2> QED BY <1>1, <1>2, <2>1, FS_AddElement, Zenon
  <1> QED BY <1>1, <1>2, <1>3, <1>4, <1>5

LEMMA RefsAreCounted == RefInv => Counted
  BY RefsCount DEF Counted

\* When no buffer is left, every one is some process's or pinned: the processes have
\* one each, and the log pins at most MaxPinned.
LEMMA RunsOut ==
  ASSUME IInv
  PROVE  RunsOutForReason
  <1> DEFINE Used == {b \in Bufs : buf[b].refcnt # 0}
             Have == {p \in Procs : mine[p] # NoBuf}
             f == [b \in Used |-> CHOOSE q \in Procs : mine[q] = b]
  <1>1. ASSUME NEW b \in Used
        PROVE  f[b] \in Have /\ mine[f[b]] = b
    <2>1. \E q \in Procs : mine[q] = b
      <3>1. Refs(b) # {}
        BY FS_EmptySet DEF IInv, RefInv
      <3> QED BY <3>1 DEF Refs
    <2>2. f[b] \in Procs /\ mine[f[b]] = b
      BY <2>1
    <2> QED BY <2>2, BCacheAssumption
  <1>2. f \in Injection(Used, Have)
    <2>1. f = [b \in Used |-> f[b]] /\ DOMAIN f = Used
      OBVIOUS
    <2> HIDE DEF f, Used, Have
    <2>2. f \in [Used -> Have]
      BY <1>1, <2>1
    <2>3. \A b, c \in Used : f[b] = f[c] => b = c
      BY <1>1
    <2> QED BY <2>1, <2>2, <2>3 DEF Injection, IsInjective
  <1>3. IsFiniteSet(Have) /\ Cardinality(Have) \in Nat
    BY Sizes
  <1> HIDE DEF f
  <1>4. IsFiniteSet(Used) /\ Cardinality(Used) <= Cardinality(Have)
    BY <1>2, <1>3, FS_Injection
  <1>5. Pinned \subseteq Bufs /\ IsFiniteSet(Pinned) /\ Cardinality(Pinned) \in Nat
    BY Sizes DEF Pinned
  <1>6. /\ IsFiniteSet(Used \cup Pinned)
        /\ Cardinality(Used \cup Pinned)
             = Cardinality(Used) + Cardinality(Pinned) - Cardinality(Used \cap Pinned)
    BY <1>4, <1>5, FS_Union
  <1>7. Cardinality(Used) \in Nat /\ Cardinality(Used \cap Pinned) \in Nat
    BY Sizes DEF Pinned
  <1>8. Cardinality(Used \cup Pinned) <= Cardinality(Have) + MaxPinned
    BY <1>3, <1>4, <1>5, <1>6, <1>7, BCacheAssumption DEF IInv, PinInv
  <1>9. ASSUME Unused = {}
        PROVE  Used \cup Pinned = Bufs
    <2>1. ASSUME NEW b \in Bufs, b \notin Used
          PROVE  b \in Pinned
      <3>1. buf[b].refcnt = 0
        BY <2>1
      <3>2. buf[b].dirty
        BY <1>9, <3>1 DEF Unused
      <3> QED BY <3>1, <3>2, RefsAreCounted, FreeIsUnlocked DEF IInv, Pinned
    <2> QED BY <1>5, <2>1
  <1> HIDE DEF Used
  <1> QED BY <1>8, <1>9, Zenon DEF RunsOutForReason

\* bget() takes a reference, ...
LEMMA BgetCounts ==
  ASSUME IInv, Counted, NEW p \in Procs, NEW n \in Blocks, Bget(p, n), Cached(n) \cup Unused # {}
  PROVE  RefInv'
  <1>0. mine \in [Procs -> Nulled(Bufs, NoBuf)] /\ mine[p] = NoBuf /\ NoBuf \notin Bufs
    BY BCacheAssumption DEF IInv, Core, ProcType, Bget, PlaceInv, HasBuf
  <1>1. PICK b \in Bufs : Given(p, n, b)
    BY BgetFacts DEF IInv
  <1>b. /\ mine' = [mine EXCEPT ![p] = b] /\ buf'[b].refcnt = buf[b].refcnt + 1
        /\ \A c \in Bufs : c # b => buf'[c] = buf[c]
    BY <1>1, Zenon DEF Given
  <1>2. ASSUME NEW c \in Bufs
        PROVE  buf'[c].refcnt = Cardinality(Refs(c)')
    <2>1. CASE c = b
      <3>1. Refs(c)' = Refs(b) \cup {p}
        BY <1>0, <1>b, <2>1 DEF Refs
      <3>2. Cardinality(Refs(b) \cup {p}) = buf[b].refcnt + 1
        BY <1>0, RefsCount DEF IInv
      <3> QED BY <1>b, <2>1, <3>1, <3>2
    <2>2. CASE c # b
      <3>1. Refs(c)' = Refs(c)
        BY <1>0, <1>b, <2>2 DEF Refs
      <3> QED BY <1>b, <2>2, <3>1 DEF IInv, RefInv
    <2> QED BY <2>1, <2>2
  <1> QED BY <1>2 DEF RefInv, Refs

\* ... and brelse() gives one back; a buffer without any goes to the head.
LEMMA BrelseCounts ==
  ASSUME IInv, NEW p \in Procs, Brelse(p)
  PROVE  RefInv' /\ LruType'
  <1>b. PICK b \in Bufs : b = mine[p]
    BY DEF IInv, Core, ProcType, PlaceInv, HasBuf, Nulled, Brelse
  <1>0. /\ mine \in [Procs -> Nulled(Bufs, NoBuf)] /\ NoBuf \notin Bufs
        /\ mine' = [mine EXCEPT ![p] = NoBuf]
        /\ buf' = [buf EXCEPT ![b].refcnt = @ - 1]
        /\ lru' = IF buf[b].refcnt = 1 THEN ToHead(b) ELSE lru
    BY <1>b, BCacheAssumption DEF IInv, Core, ProcType, Brelse, DropRef
  <1>1. buf'[b].refcnt = buf[b].refcnt - 1 /\ \A c \in Bufs : c # b => buf'[c] = buf[c]
    BY <1>0 DEF IInv, Core, BufType, Struct
  <1>2. LruType'
    BY <1>0, ToHeadKeeps DEF IInv, LruType
  <1>3. ASSUME NEW c \in Bufs
        PROVE  buf'[c].refcnt = Cardinality(Refs(c)')
    <2>1. CASE c = b
      <3>1. Refs(c)' = Refs(b) \ {p}
        BY <1>b, <1>0, <2>1 DEF Refs
      <3>2. Cardinality(Refs(b) \ {p}) = buf[b].refcnt - 1
        BY <1>b, RefsCount DEF IInv
      <3> QED BY <1>1, <2>1, <3>1, <3>2
    <2>2. CASE c # b
      <3>1. Refs(c)' = Refs(c)
        BY <1>b, <1>0, <2>2 DEF Refs
      <3> QED BY <1>1, <2>2, <3>1 DEF IInv, RefInv
    <2> QED BY <2>1, <2>2
  <1>4. RefInv'
    BY <1>3 DEF RefInv, Refs
  <1> QED BY <1>2, <1>4

\* log_write() pins one buffer more, and only when there is room for it.
LEMMA LogWriteCounts ==
  ASSUME IInv, NEW p \in Procs, NEW v \in Vals, LogWrite(p, v)
  PROVE  PinInv'
  <1>b. PICK b \in Bufs : b = mine[p]
    BY DEF IInv, Core, ProcType, PlaceInv, HasBuf, Nulled, LogWrite
  <1>0. pc[p] = "use" /\ lock[b] = p /\ UNCHANGED <<lock, pc>>
    BY <1>b, SMTT(30) DEF IInv, Core, PlaceInv, HasLock, LogWrite
  <1>1. \A c \in Bufs : c # b => buf'[c] = buf[c]
    BY <1>b, DirtyFacts, Zenon DEF IInv, Core, LogWrite
  <1>2. CASE buf[b].dirty
    <2>1. ~ Queued(b) /\ \A c \in Bufs : Queued(c)' <=> Queued(c)
      BY <1>0 DEF Queued
    <2>2. PinStep
      BY <1>1, <1>2, <2>1 DEF PinStep
    <2> QED BY <2>2, CountsKept DEF IInv
  <1>3. CASE ~ buf[b].dirty
    <2> DEFINE D == {c \in Bufs : buf[c].dirty}
    <2>1. Cardinality(D) < MaxPinned
      BY <1>b, <1>3 DEF LogWrite
    <2>2. IsFiniteSet(D) /\ Cardinality(D) \in Nat
      BY Sizes
    <2>3. Pinned' \subseteq D \cup {b}
      BY <1>1 DEF Pinned
    <2> HIDE DEF D
    <2>4. Cardinality(Pinned') \in Nat /\ Cardinality(Pinned') <= Cardinality(D) + 1
      BY <2>2, <2>3, AddOne, Zenon
    <2> QED BY <2>1, <2>2, <2>4, BCacheAssumption DEF PinInv
  <1> QED BY <1>2, <1>3
-----------------------------------------------------------------------------
\* Every step keeps the invariant.
LEMMA CacheNext == IInv /\ [Next]_vars => IInv'
  <1> SUFFICES ASSUME IInv, [Next]_vars PROVE IInv'
    OBVIOUS
  <1>0. Core /\ Counted
    BY RefsAreCounted DEF IInv
  <1>c. Core' /\ PinStep /\ RefStep => IInv'
    <2>1. RefStep => LruType'
      BY DEF IInv, LruType, RefStep
    <2> QED BY <2>1, CountsKept DEF IInv
  <1>1. ASSUME NEW p \in Procs, KernelStep(p) PROVE IInv'
    <2>1. CASE Acquiresleep(p) \/ Bread(p)
      BY <1>0, <1>c, <2>1, AcquiresleepKeeps, BreadKeeps
    <2>2. CASE Brelse(p)
      BY <1>0, <2>2, BrelseKeeps, BrelseCounts, CountsKept DEF IInv
    <2> QED BY <1>1, <2>1, <2>2 DEF KernelStep
  <1>2. ASSUME NEW p \in Procs, NEW n \in Blocks, Bget(p, n) PROVE IInv'
    <2>1. LruType'
      BY <1>2 DEF Bget, IInv, LruType
    <2>2. CASE Cached(n) \cup Unused = {}
      BY <1>0, <1>c, <1>2, <2>2, BgetPanics
    <2>3. CASE Cached(n) \cup Unused # {}
      BY <1>0, <1>2, <2>1, <2>3, BgetKeeps, BgetCounts, CountsKept DEF IInv
    <2> QED BY <2>2, <2>3
  <1>3. ASSUME NEW p \in Procs, NEW v \in Vals, Bwrite(p, v) PROVE IInv'
    BY <1>0, <1>c, <1>3, BwriteKeeps
  <1>4. ASSUME NEW p \in Procs, NEW v \in Vals, LogWrite(p, v) PROVE IInv'
    <2>1. RefStep => LruType'
      BY DEF IInv, LruType, RefStep
    <2> QED BY <1>0, <1>4, <2>1, LogWriteKeeps, LogWriteCounts, CountsKept DEF IInv
  <1>5. ASSUME NEW p \in Procs, Releasesleep(p) PROVE IInv'
    BY <1>0, <1>c, <1>5, ReleasesleepKeeps
  <1>6. CASE Ideintr
    BY <1>0, <1>c, <1>6, IdeintrKeeps
  <1>7. CASE UNCHANGED vars
    <2>1. UNCHANGED <<buf, lru, lock, idequeue, cmd, disk, pc, mine, want>>
      BY <1>7 DEF vars
    <2>2. BufType' /\ DiskType' /\ ProcType' /\ OneBufferPerBlock'
      BY <1>0, <2>1 DEF Core, BufType, DiskType, ProcType, OneBufferPerBlock
    <2>3. \A b \in Bufs : Queued(b)' <=> Queued(b)
      BY <2>1 DEF Queued
    <2>4. PinStep /\ RefStep
      BY <2>1, <2>3 DEF PinStep, RefStep
    <2>5. PlaceInv' /\ LockInv' /\ QueueInv' /\ DataInv'
      BY <1>0, <2>1, <2>3 DEF Core, PlaceInv, LockInv, QueueInv, DataInv
    <2> QED BY <1>c, <2>2, <2>4, <2>5 DEF Core
  <1> QED BY <1>1, <1>2, <1>3, <1>4, <1>5, <1>6, <1>7 DEF Next

\* binit() establishes it.
LEMMA CacheInit == Init => IInv
  <1> SUFFICES ASSUME Init PROVE IInv
    OBVIOUS
  <1>1. Zero \in Vals
    BY BCacheAssumption DEF Zero
  <1>2. BufType
    BY <1>1 DEF Init, BufType, Struct, Nulled
  <1>3. LruType
    <2>1. Bijection(1..Cardinality(Bufs), Bufs) # {}
      BY FS_CardinalityType, BCacheAssumption DEF ExistsBijection
    <2> QED BY <2>1 DEF Init, LruType
  <1>4. DiskType
    BY <1>1 DEF Init, DiskType, NoCmd, Nulled
  <1>5. ProcType
    BY DEF Init, ProcType, Places, Nulled
  <1>6. PlaceInv /\ LockInv /\ DataInv /\ OneBufferPerBlock
    BY BCacheAssumption DEF Init, PlaceInv, LockInv, DataInv, OneBufferPerBlock, HasBuf, HasLock, Queued
  <1>7. RefInv
    <2>1. \A b \in Bufs : Refs(b) = {}
      BY BCacheAssumption DEF Init, Refs
    <2> QED BY <2>1, FS_EmptySet, Zenon DEF Init, RefInv
  <1>8. PinInv
    <2>1. Pinned = {}
      BY DEF Init, Pinned
    <2> QED BY <2>1, FS_EmptySet, BCacheAssumption DEF PinInv
  <1>9. QueueInv
    BY DEF Init, QueueInv, Queued
  <1> QED BY <1>2, <1>3, <1>4, <1>5, <1>6, <1>7, <1>8, <1>9 DEF IInv, Core

\* The invariant says what the model checker checks.
LEMMA CacheInvImplies == IInv => BufferIsBlock /\ QueueOwned /\ CacheKept
  <1> SUFFICES ASSUME IInv PROVE BufferIsBlock /\ QueueOwned /\ CacheKept
    OBVIOUS
  <1>1. BufferIsBlock
    BY DEF IInv, Core, BufferIsBlock, HoldsWhatItAsked, PlaceInv
  <1>2. CacheKept
    <2>1. TypeOK
      <3>1. \A b \in Bufs : buf[b].refcnt \in 0..Cardinality(Procs)
        BY RefsCount DEF IInv
      <3>2. BufType /\ LruType /\ DiskType /\ ProcType
        BY DEF IInv, Core
      <3>3. buf \in [Bufs -> [blockno : Nulled(Blocks, NoBlock), valid : BOOLEAN, dirty : BOOLEAN,
                              refcnt : 0..Cardinality(Procs), data : Vals]]
        BY <3>1, <3>2 DEF BufType, Struct
      <3> QED BY <3>2, <3>3, Zenon DEF TypeOK, LruType, DiskType, ProcType
    <2>2. RefsCounted
      BY Zenon DEF IInv, RefInv, Refs, RefsCounted
    <2>3. LockSleepsForReason
      BY DEF IInv, Core, LockSleepsForReason, PlaceInv
    <2> QED BY <2>1, <2>2, <2>3, RunsOut DEF CacheKept
  <1>3. QueueOwned
    <2>1. Range(idequeue) = {mine[p] : p \in {q \in Procs : pc[q] = "iderw"}}
      <3>1. \A b \in Bufs : Queued(b) <=> \E p \in Procs : pc[p] = "iderw" /\ mine[p] = b
        BY BCacheAssumption DEF IInv, Core, PlaceInv, LockInv, ProcType, Nulled, Queued, HasLock
      <3>2. \A p \in Procs : pc[p] = "iderw" => mine[p] \in Bufs
        BY DEF IInv, Core, PlaceInv, ProcType, HasBuf, Nulled
      <3>3. \A i \in DOMAIN idequeue : idequeue[i] \in Bufs
        BY DEF IInv, Core, DiskType
      <3> QED BY <3>1, <3>2, <3>3 DEF IInv, Core, QueueInv, Range
    <2>2. IsInjective(idequeue)
      BY DEF IInv, Core, QueueInv, IsInjective
    <2>3. (cmd.busy <=> idequeue # <<>>) /\ (cmd.busy => cmd.blockno = buf[Head(idequeue)].blockno)
      BY DEF IInv, Core, QueueInv, DiskType, NoCmd, Idestart
    <2>4. \A p \in Procs : pc[p] \in {"bread", "iderw", "use"} => lock[mine[p]] = p
      BY DEF IInv, Core, PlaceInv, HasLock
    <2> QED BY <2>1, <2>2, <2>3, <2>4 DEF QueueOwned
  <1> QED BY <1>1, <1>2, <1>3

\* The invariant of the buffer cache.
LEMMA CacheInvariance == Spec => []IInv
  BY CacheInit, CacheNext, PTL DEF Spec

\* A process that has come back from bget() has the block's only buffer, however
\* long it slept for the lock or for the disk.
THEOREM BufferIsItsBlock == Spec => []BufferIsBlock
  BY CacheInvariance, CacheInvImplies, PTL

\* The disk's queue holds the buffers of the processes that sleep in iderw(), each
\* once and locked by it, and the drive works on the first.
THEOREM QueueIsOwned == Spec => []QueueOwned
  BY CacheInvariance, CacheInvImplies, PTL

\* The list keeps every buffer, bget() and brelse() count every reference, nobody
\* sleeps for a lock that is free, and bget() runs out of buffers only when the
\* processes and the log have them all, whatever the sizes are.
THEOREM CacheIsKept == Spec => []CacheKept
  BY CacheInvariance, CacheInvImplies, PTL

\* The cache implements blocks with locks: a process that has a block sees what the
\* last one left, whether the buffer stayed, was written and recycled, or is
\* pinned by the log.
THEOREM CacheCoherent == Spec => Coherent
  <1>1. Init => Store!BInit
    <2> SUFFICES ASSUME Init PROVE Store!BInit
      OBVIOUS
    <2>1. \A n \in Good : Contents(n) = Zero /\ Holder(n) = NoProc
      BY DEF Init, Contents, Holder, Good
    <2>2. Zero \in Vals
      BY BCacheAssumption DEF Zero
    <2> QED BY <2>1, <2>2 DEF Store!BInit
  <1>2. IInv /\ IInv' /\ [Next]_vars => [Store!BNext]_(Store!bvars)
    <2>1. (IInv => Mapped)'
      <3>1. IInv => Mapped
        BY MappedHolds DEF IInv
      <3> QED BY <3>1, PTL
    <2> QED BY <2>1, MappedHolds, RefsAreCounted, CoherentStep DEF IInv
  <1> QED BY <1>1, <1>2, CacheInvariance, PTL DEF Spec, Coherent, Store!BSpec
=============================================================================
