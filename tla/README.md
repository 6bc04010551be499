# A verification of the xv6 kernel with priority scheduling

This directory holds TLA+ specifications of the kernel in `src/xv6-public`: xv6
for the PC with a scheduler of three priority levels, aging, time slices of
several ticks and the system calls `change_prio`, `set_prio`, `wait2`, `wait3`
and `yield2`. The modules are written from the C code; TLC checks them on small
instances, and TLAPS proves the central properties of processes, scheduling,
the buffer cache and the log for every number of slots, CPUs, priorities, buffers
and blocks.

## The system

| part | state | operations | talks to |
|---|---|---|---|
| processes (`proc.c`, `sysproc.c`) | `ptable`, `nextpid`, one kernel thread per slot | fork, exit, wait, kill, sleep, wakeup, yield | scheduler by `swtch`, timer |
| scheduler (`proc.c`, `trap.c`) | priority, `queue_time`, `time_slice`, `cpu->proc`, the scan | dispatch, end of turn, tick, `change_prio`, `set_prio` | all processes |
| accounting (`proc.c`) | `ctime`, `retime`, `rutime`, `stime` | dispatch, end of turn, `wait2`, `wait3`, allocation | scheduler |
| traps (`trap.c`, `syscall.c`) | `ticks`, `tickslock` | system call, fault, timer and device interrupts | everything |
| spinlocks (`spinlock.c`) | owner, `ncli`, `intena` | acquire, release, pushcli, popcli | everything |
| sleep-locks (`sleeplock.c`) | `locked`, `pid` | acquiresleep, releasesleep | sleep/wakeup |
| buffer cache (`bio.c`) | LRU list, `refcnt`, flags | bread, bwrite, brelse | IDE, log |
| disk driver (`ide.c`) | `idequeue` | iderw, ideintr | buffer cache, interrupts |
| log (`log.c`) | header, `outstanding`, `committing`, disk | begin_op, log_write, end_op, commit, recovery | buffer cache |
| file system (`fs.c`) | bitmap, inodes, inode cache, directories | ialloc, iget, ilock, iput, readi, writei, dirlink, namex | log, buffer cache |
| files (`file.c`, `sysfile.c`) | `ftable`, `ofile` | open, dup, close, link, unlink, create, pipe | file system, pipes |
| pipes (`pipe.c`) | ring, `nread`, `nwrite`, open flags | read, write, close | sleep/wakeup |
| memory (`kalloc.c`, `vm.c`, `exec.c`) | free list, page tables | kalloc, kfree, copyuvm, allocuvm, exec | fork, exit |
| console (`console.c`, `kbd.c`, `uart.c`) | input ring | consoleintr, consoleread | interrupts |
| user side (`umalloc.c`, `init.c`, `sh.c`, tests) | heap free list | malloc, free | system calls |

What is hard here, and hardly reached by a test: `ptable.lock` is handed from
one thread to another across `swtch`; a wakeup may fall between a test and the
sleep; a process is marked free to run, or dead, while its CPU is still on its
kernel stack; parents die before children; the scheduler's two nested loops
share one loop variable; `fork` and the timer write to the table without its
lock. Below the processes: a buffer is looked up, then slept for, then used; a
disk request outlives the call that made it; a crash may fall between any two
block writes; a pipe's end is closed while the other side sleeps; a name is
removed while its file is open; memory runs out in the middle of an operation
that must then undo itself. `PROJECT.json` lists these hazards, each with its
line and the properties that would catch it.

## The modules

| module | models | how |
|---|---|---|
| `Proc` | `proc.c`, `trap.c`, `sysproc.c` | state machine |
| `SchedRule`, `SchedLoop` | the choice in `scheduler()`: the rule, and the loops | state machine against a definition |
| `Sched`, `SchedTimes` | slices, aging, priorities; the times of `wait2` and `wait3` | state machine |
| `Log`, `AtomicDisk` | `log.c`; what it promises | state machine, refinement |
| `BCache`, `BlockStore` | `bio.c`, `sleeplock.c`, `ide.c`; what they promise | state machine, refinement |
| `Inodes` | `fs.c` from `ialloc` to `namex`, the calls of `sysfile.c` on names | state machine |
| `Blocks` | `balloc` to `writei` of `fs.c`, `fileread`, `filewrite`, `mkfs.c` | functions on disks, all sequences of calls |
| `Parse` | the parser of `sh.c` | functions, all short lines |
| `Shell` | `runcmd` and `main` of `sh.c`, `init.c`, `file.c`, `pipe.c`, descriptors, `echo`, `cat`, `wc` | state machine |
| `ConsoleInput` | `consoleintr`, `consoleread` of `console.c` | functions on terminals, all sequences of keys |
| `Memory` | `kalloc.c`, `vm.c`, `exec.c`, `growproc`, `fork` and `wait` as far as memory goes | state machine |
| `Umalloc` | `umalloc.c` | functions on heaps, all sequences of calls |
| `MCProc`, `MCShell`, `MCInodes`, `MCFiles`, `MCMemory` | | workloads and constants of the runs |
| `ProcInvariant`, `ProcProofs`, `LifeProofs` | | proofs about `Proc` |
| `SchedProofs` | | proofs about `SchedLoop`, `Sched` and `SchedTimes` |
| `LogInvariant`, `LogProofs` | | proofs about `Log`, and that it implements `AtomicDisk` |
| `BCacheInvariant`, `BCacheProofs` | | proofs about `BCache`, and that it implements `BlockStore` |

In every state machine an action is what runs under one lock, or between two
points at which another thread can see the difference, and carries the name of
the function; where a function has several such sections the actions are named
for its parts. A definition whose comment begins with "Mutant" is a plausible
mistake in the definition after it; with the mistake in place the property named
in `PROJECT.json` fails, which shows that the property does depend on that code.

**`Proc`** is the process table with its concurrency. Each CPU is at a place
`where[c]` of `scheduler()` or runs the kernel thread of slot `proc[c]`, whose
program counter is `pc[p]`; a label stands for the code up to the next point at
which another CPU can see the difference (an acquire, a release, a switch, an
unlocked write). `lock` and `tickslock` hold the owning CPU. Interrupts come
wherever the code has them on: a system call runs behind a trap gate and can be
interrupted, a fault or an interrupt runs with interrupts off (`InterruptsOn`);
`resume[p]` is the label the interrupted thread goes on from. `ForkAlloc`,
`ForkFail`, `ForkCopy` and `ForkReady` are `fork()` cut at its lock operations,
`Wait`/`WaitResume` one round of the loop of `wait()` before and after its
`sleep`, and so on. What each program may call is the constant `Program`.
`SchedPick` leaves open which RUNNABLE slot is taken; that choice is the subject
of `Sched`.

**`SchedRule`** states whom `scheduler()` dispatches, without loops: the first
RUNNABLE slot from where the scan stands unless another has a higher priority,
and then the first of the highest. **`SchedLoop`** is the code itself, the outer
and inner loop over one variable `p`, one iteration per step, from any table,
any starting point and any value left in `highest_priority_p`. **`Sched`** is the
scheduler: dispatch by `SchedRule`, the slice counted down by `trap()`, the pass
over the table at the end of a turn that promotes, and every call that changes a
priority or a state. `used[c]`, the ticks since the dispatch, is not in the
code; properties need it. **`SchedTimes`** extends it with the four times of a
process and every place that sets them.

**`BCache`** is `bget`, `bread`, `bwrite` and `brelse` over the list of buffers,
with `acquiresleep`, `releasesleep`, `iderw`, the queue of the driver and
`ideintr`. One process uses one buffer at a time. A buffer that `log_write`
marked dirty is pinned. Some blocks (`BadBlocks`) give a read error, which the
driver ignores. **`BlockStore`** has blocks with contents and a holder each;
`BCache` implements it, with `Contents` and `Holder` as the mapping.

**`Log`** is `log.c`: calls that begin, write and end concurrently, the group
commit one block at a time, crashes at any moment, and recovery, which may
itself crash. The disk is one row of blocks, the log's first, so that a log
block past the end of the log would be a block of the file system. `log_write`
is two steps, because it tests for a full log without `log.lock`. Of the buffer
cache the module has what the log relies on: contents stay until the buffer is
recycled, which `B_DIRTY` prevents. `OpWrites` is what a call really writes, at
most `MAXOPBLOCKS`. **`AtomicDisk`** is what the log promises, and `Log`
implements it: what calls see is `Contents`, and what is stable is what a crash
now and a complete recovery would leave (`AfterRecovery`).

**`Inodes`** has inodes on disk (type, link count, entries), the inode cache,
and processes that make system calls on path names. `code[p]` is what a process
has still to do, each step with the cache entries it holds references to; a
call's steps are put in place by `Start`, `Create`, `Link` and so on, and end with
the `iput`s that the C code has on that path. `iput` is three steps, since it
gives `icache.lock` up around the freeing. The transactions of `begin_op` and
`end_op` are left out: they do not exclude each other. So are the modes of `open`
and the table of files: `sys_open()` may find no file structure or descriptor, or a
directory that is to be written, and puts the inode again (`Opened`). `adrift` marks inodes whose
parent directory was removed while they were being entered (see below).

**`Blocks`** has what is inside the inodes. Each call runs under the inode's
sleep-lock, and each change of the free map under its buffer's, so a call is a
function from a disk to a disk, and `Reached(k)` are the disks after all
sequences of `k` calls from the image `Mkfs`. A block is a few bytes, and a file
may reach into the indirect block.

**`Parse`** takes a line as a sequence of characters, with the positions `q` and
`eq` of the code, and `nulterminate`. **`Shell`** runs the parsed command as
`runcmd` does: each process has the sequence of calls it has still to make, with
`fork` copying descriptors, `exec` replacing the code by a program's, pipes with
wrapping counters, kills, and allocations that fail. `echo`, `cat` and `wc` are
the programs; a file read by name is empty. **`ConsoleInput`** is the ring that a
line is typed into.

**`Memory`** gives every `kalloc()` a step of its own, so that memory can run out
in the middle of `copyuvm`, `allocuvm` or `exec`, with other processes in between,
and has page tables, the guard page below the stack and the layout of `exec`'s
arguments. `took[p]`, the pages that the call of `p` has got from `kalloc()`, is not in
the code; `FailureHarmless` needs it to say that a failing call gives back what it
took and nothing else. **`Umalloc`** is the allocator of the user programs, with
requests in bytes and blocks in headers.

## The runs

| run | instance | shows |
|---|---|---|
| `proc_safe` | 2 slots, 3 processes, 2 CPUs, ticks modulo 3 | hand-over of the locks, one CPU per kernel stack, no tick lost between test and sleep, also when `ticks` wraps |
| `proc_tree` | 4 slots, 1 CPU; four generations, faults | every process has a living, older parent; only it reaps; nobody sleeps in `wait()` through an exit, an inheritance or a kill |
| `proc_live` | 2 slots, 1 CPU, fair | `ptable.lock` is released, sleepers wake |
| `sched_safe` | 2 slots, 3 processes, 2 CPUs, 4 turns, thresholds 2 and 1 | slices, promotions, who may lower a priority; the times of each process add up |
| `sched_turns` | 3 slots, 1 CPU, fair | processes of equal priority take turns |
| `sched_loop` | every table of 4 slots, 3 priorities | the loops end and choose by the rule |
| `log` | 3 processes, one of which only reads, 2 calls at a time, 2 blocks, calls of up to 2 writes, fair | groups of calls are atomic and durable, space is set aside, waiters are woken |
| `bcache` | 2 processes, 3 buffers, 4 blocks, one with read errors, one pinned, fair | one buffer per block, kept while it is slept for; the queue and the drive agree; the cache implements `BlockStore`; requests are answered |
| `inodes` | 2 processes, 2 calls each of 8 kinds, 5 inodes; beside it 20 blocks of 3 bytes, 5 calls | references, link counts and names agree, files in use are not freed; bytes and blocks of files are exact, transactions fit their reservation |
| `inode_wait` | the same calls | a disagreement, see below |
| `shell` | 8 typed inputs, 7 processes, 5 files, 2 pipe pages of 2 bytes, fair; beside it all lines of up to 4 characters, commands of 2 operators, 8 keys | files and pipe ends are counted exactly, output is what the line means, lines end; the parser and the console's ring are right |
| `memory` | 2 processes, 17 pages, 4 calls; beside it 6 calls of `malloc` and `free` | every page is owned once, on every failure path; a call that fails, except `sbrk` down to 0, leaves its caller as it was, gives back what it took, and `fork` its slot; sizes and guard pages; `exec` accepts the arguments that fit the stack page, and lays them out in it; the heap's blocks never overlap and have room for what was asked |

What the modules of functions compute does not depend on the state of the run
they are checked in, so `MCShell`, `MCFiles` and `MCMemory` have their properties
evaluated in the initial states.

Bounds. Two CPUs are enough for every interleaving of two kernel threads, and
the Makefile starts two; four slots give four generations; ticks modulo 3 lets
the counter wrap while a process sleeps for up to 2 ticks. `MaxPid` ends the
forks: slots are still used again, up to that number of processes. `QueueMax`
stops `queue_time` where it is past both thresholds, so no comparison changes.
In `log`, `LOGSIZE` is `size` as `mkfs` has it and twice `MAXOPBLOCKS`, so that a
third call waits; calls write fewer than `MAXOPBLOCKS` blocks, as `filewrite()`
does, whose limit on the bytes of one call amounts to at most seven. In
`bcache` there are as many buffers as the processes use and the log pins, and
more blocks than buffers, so that recycling is forced. In `shell`, a pipe of
2 bytes fills up and its counters (modulo 4) wrap; the page and file limits
make `pipe()` fail after its first allocation; programs write at most `PIPESIZE`
bytes at a time. In `inodes`, five inodes with two names let a number be freed and
used again while another call still holds it. In `memory`, 17 pages are enough
for two processes but not for every `fork` or `exec`, so each allocation of each
call fails in some behaviour. The stack page of the argument lists has twelve words:
lists of one, two and three arguments fit it exactly, or miss it by a byte, and longer
ones end in the guard page, in the program, or wrap around to the device mappings.
The requests of `malloc` are of 0 bytes, one byte more than a header, and an exact
multiple of it.
`MaxTurns`, `MaxCalls` and the end of the typed input end the behaviours of
`sched_safe`, `inodes`, `memory` and `shell`: these runs do not check for deadlock.
In `inodes` a deadlock is real besides, see `inode_wait`.

Fairness. `Proc` assumes that a CPU goes on executing kernel code (weak fairness
of its scheduler and kernel steps) and that a timer interrupt is delivered if
interrupts are on again and again (strong fairness: the local APIC keeps an
interrupt pending). `Sched` assumes the same of `scheduler()` and the timer.
`Log` assumes that kernel code goes on and that a call comes to its `end_op()`,
since it makes finitely many writes (strong fairness of `EndOp`, which is not
enabled within a `log_write`); a crash is never forced to happen. `BCache` assumes
only that the drive answers, and nothing of the processes. `Shell` assumes that every process that
can go on does: the programs are finite, and `TurnsAmongEquals` and
`KernelGoesOn` are what the kernel does for it.
None assumes anything of other user programs, or of who wins a contended
spinlock: `acquire` spins on `xchg`, which is not fair. For that reason
`proc_live` has one CPU.

## Where the code and its documents disagree

The run `inode_wait` finds a deadlock. `create()` holds the new inode, which it
returns locked, when it calls `iunlockput(dp)` (`sysfile.c:280`); the `iput()` in it
takes the sleep-lock of `dp` once more (`fs.c:334`). `unlink()` of the new name,
which the entry already lets it find, holds `dp` and waits for the inode
(`sysfile.c:209`): the two wait for each other for ever. A test is meant "to look
for deadlocks" of just these calls (`usertests.c:855-856`), and `fs.c:149-150` says
that the separation of `iget()` and `ilock()` "also helps avoid deadlock".

The following configurations are kept to be run by hand (`tlc -config X.cfg M`);
TLC finds each statement violated.

| configuration, module | the document says | the code does |
|---|---|---|
| `ProcKill`, `MCProc` | "Kill the process with the given pid." (`proc.c:538`) | `kill(0)` marks a free slot, and the next process there is born killed |
| `SchedAging`, `Sched` | the priority rises of a process that has not run for long (`report.tex:490-495`) | `queue_time` counts dispatches: a process that waits is never promoted |
| `SchedTop`, `Sched` | starvation is avoided (`report.tex:490-495`) | with priorities 3, 1, 3 in three slots the third is never dispatched |
| `SchedReady`, `SchedTimes` | "Caso READY/RUNNABLE" (`proc.c:374`) | processes being created, dead, or running on the other CPU are charged as ready |
| `LogFull`, `Log` | "this op might exhaust log space; wait for commit." (`log.c:133`); `LOGSIZE` is the "max data blocks in on-disk log" (`param.h:11`) | `mkfs` makes a log of `LOGSIZE` blocks with its header: calls of `MAXOPBLOCKS` writes each run into `panic("too big a transaction")` |
| `InodesLeak`, `MCInodes` | "If that was the last reference and the inode has no links to it, free the inode" (`fs.c:327-328`) | two `iput()`s of an inode without names that overlap both see a second reference, and nobody frees it |

Smaller ones, read off the definitions: a process runs until tick `INTERV` + 1,
since `trap()` tests `time_slice` before it counts it down, and no longer
(`SliceCharged`);
`change_prio` keeps the `queue_time` of the old queue; a name made in a directory
that another process is removing stays in a directory nobody can reach, and the
link counts below it stay too high (`adrift`); `link(old, "d/.")` waits for a lock
its own process holds; `sbrk` down to exactly 0 frees the page the process runs on;
a killed writer that still has bytes to write returns without waking the readers
(`pipe.c:86-89`); `NBUF` is `LOGSIZE`, so that with a full log pinned there is no
buffer left for another process.

## What is proved

The assumptions are those of the constants: at least one slot and one CPU
(`ProcAssumption`, `SchedAssumption`, which also has thresholds between 1 and
`QueueMax`), priorities that are integers (`LoopAssumption`), a finite, nonempty
set of processes that use the log (`LogAssumption`), and finite sets of processes and
buffers (`BCacheAssumption`). The theorems about the log have one hypothesis more,
`Fits`, which is discussed with them.

*Locks and stacks* (`ProcProofs`: `TypeCorrect`, `LockSafety`, `StackSafety`).
`LockHandover` is not inductive: that the thread a CPU resumes is one that
releases the lock depends on where every process that is *not* running has
stopped. The inductive invariant `IInv` of `ProcInvariant` adds `ResumeInv`
(a RUNNABLE or SLEEPING process stopped at a label that expects the lock),
`CpuInv` (what each place of a CPU says of its `proc`), `ThreadInv` (which
labels an interrupt may return to), and `ChildInv` and `ForkInv` (the slot a
`fork()` is filling belongs to one parent, is EMBRYO, and is nobody else's). The
steps fall into four shapes, each with a lemma: a thread stays on its CPU,
takes a step that touches no lock, lets go of the lock, or switches out. Every
action is shown to have one of the shapes.

*The process tree* (`LifeProofs`: `TreeKept`, `ExitsSeen`, `ParentReaps`).
`ProcessTree` and `NoLostExit` need each other, and both need to know of the child
that a `fork()` is still making: it has no parent yet, or has one and is not
RUNNABLE. `TreeInv` therefore adds `FamilyInv` (init is alive and
is process 1, pids are given in increasing order, a free slot has no parent) and
`BirthInv` (the child in a `fork()`, interrupted or not, is younger than its parent
and gets it before it is made RUNNABLE). `fork()`, `exit()` and `wait()` are
treated one by one; every other action is a `PlainStep`, which starts, ends and
adopts no process and puts none to sleep in `wait()`. That only the parent frees a
zombie, and only when no CPU is on its stack, is read off the same case analysis,
together with `IInv`: the CPU that still executes a zombie holds `ptable.lock`.

*Ticks* (`ProcProofs`: `TicksSeen`). `NoLostTick` is made inductive by one
conjunct: a process that has made the test of `sys_sleep`'s loop and not yet slept
still has time to wait (`TickInv`). It holds because such a process has
`tickslock`, so that nobody counts a tick, which follows from `IInv`. Nothing is
assumed of the width of `ticks`, so the wrap of the counter is covered.

*The choice of a process* (`SchedProofs`: `LoopsMeetRule`,
`LoopsReleaseRightly`). The inner loop's invariant `BestSoFar` says that
`highest_priority_p` is what the rule would choose in the part of the table
passed so far. This links `Sched`, which uses the rule, to the loops in the
code, for a table of any size.

*Turns and priorities* (`SchedProofs`: `SlicesCharged`, `PromotionsMade`,
`OnlyOwnDemotion`, `HighestFirst`, `TurnsAccounted`). None of these is inductive
by itself: that a tick is charged to the right slice needs that a process is on
one CPU only (`OneCpu`, `CpuInv`), and that `change_prio` and the pass over the
table, which compare pids, meet the right slot needs that pids are given once
(`PidInv`). `EmbryoInv` says that a new process has no turns. The invariant
`SInv` is their conjunction, with one lemma per action. `TurnsAccounted` adds the
times: a dispatch opens a turn and charges it in advance, the pass at the end
closes it for the process that ran and charges it to all the others.

*The log* (`LogProofs`: `LogNeverOverrun`, `CommitsDurable`, `LogIsAtomic`,
`NeverTooBig`), for any number of processes and blocks, any sizes and any crashes,
those during recovery included. `LogInv` of `LogInvariant` says how the list,
the header, the buffers, the log's area and the blocks in place agree: `CallInv` (`outstanding` counts the calls in progress, none
is in progress during a commit, one call holds a buffer), `ListInv` (`log.lh` lists a
block once, and equals the header on disk from the write of the header until it is
erased), `PinInv` (`B_DIRTY` is set on the listed blocks until they are installed),
`CleanInv` (a buffer that is neither pinned nor locked equals its block on disk, so
that recycling it loses nothing) and `CopyInv` (the log's blocks are copies of the
buffers as far as `write_log()` has come, and the blocks in place as far as
`install_trans()` has). `LogFits` is part of it; the space set aside is counted by
a set of slots, `Reserved`, that `begin_op()` enlarges by `MAXOPBLOCKS` and
`log_write()` diminishes by one. The refinement maps every action to a step of
`AtomicDisk` or to none; the write of the header is the one that commits.

The hypothesis `Fits` is `LOGSIZE + OpWrites < size + MAXOPBLOCKS`, where `OpWrites`
bounds the blocks one call writes. `LOGSIZE` counts data blocks and `size`, which
`mkfs` sets to `LOGSIZE`, counts the header too; with the code's 30, 30 and 10 it
says that a call writes at most 9 of the 10 blocks it reserves. `Roomy`, under
which `log_write()` does not panic, says at most 8. `filewrite()` keeps within both,
with at most 7. Without such a bound the theorems fail: with calls that write all of
`MAXOPBLOCKS` blocks the log is exhausted (`NotExhausted`, with the constants of
`LogFull.cfg`).

*The buffer cache* (`BCacheProofs`: `BufferIsItsBlock`, `QueueIsOwned`,
`CacheIsKept`, `CacheCoherent`), for any number of processes, buffers and blocks. That
a buffer is not recycled under a process that sleeps for its lock needs that `refcnt`
is exact, that a lock's holder is where holders are, and that what the drive is doing
belongs to a process that still waits for it. The inductive invariant `IInv` has
`PlaceInv` and `LockInv` (each place in `bget()`, `bread()`, `brelse()` against the
process's buffer and the lock), `QueueInv` (the queue has exactly the buffers whose
holders are in `iderw()`, and `cmd` is what `idestart()` made of the first), `DataInv`
(a valid, clean buffer equals its block on disk, except for blocks that cannot be read)
and `RefInv` (`refcnt` is the number of processes that have the buffer). The refinement
follows from it: recycling a clean buffer does not change what the next holder will
see, and the data an interrupt brings in are those of the block on disk.

`CacheIsKept` does not say that `panic("bget: no buffers")` never happens, which the
constants of `param.h` (30 buffers, up to 64 processes, and a log of 30 blocks) do not
guarantee: the panic can happen in the code. It says when: if no buffer is left, the
processes that have one (`RefInv`: one each, every one counted) and the blocks that the
log pins (`PinInv`: at most `MaxPinned`) make up all of them (`RunsOutForReason`), so
that no buffer is lost to a reference that nobody has.

Only model-checked: the invariants of `Inodes`, `Memory` and `Shell`, for which no
inductive invariant has been worked out;
what the recursive functions of `Blocks`, `Parse`, `ConsoleInput`, `Memory` and
`Umalloc` compute (the prover has no induction for them, and loses its arithmetic in
a module with a recursive operator, so that `Shell` is out of its reach as it
stands); and all liveness properties, since the prover does not treat fairness.

## Not modelled

- The implementation of `acquire` and `release` by an atomic exchange, and the
  nesting of `pushcli`: locks are atomic in all modules. `InterruptsOn` in
  `Proc` has the effect of the nesting.
- Boot, the start of the other CPUs, segment and interrupt tables, the interrupt
  controllers: straight-line set-up before anything runs concurrently.
- Device registers, the serial port, scan codes, the screen, `printf`, and
  `memide.c`, which stands in for the disk: pure I/O.
- String functions, fetching of system call arguments from user memory, the ELF
  headers that `exec` reads, byte order and names in `mkfs`.
- Arguments of `exec` so long (32 MB and more) that the stack pointer wraps to
  addresses without a page table: `uva2ka()` does not test what `walkpgdir()` returns
  there (`vm.c:354-355`), and what happens is undefined. `Tabled` says where that is,
  and `ArgsInStack` leaves such lists out.
- Requests to `malloc` of about 2^31 bytes and more: `morecore()` passes their size to
  `sbrk()` as a negative number, and the rounding of the largest wraps
  (`umalloc.c:54`, `umalloc.c:69`).
- `mknod` and `fstat`, which change nothing that others see but one inode.
- The other user programs (`usertests.c`, `forktest.c`, `ls.c`, `grep.c`, the tests
  of the scheduler): they are sequences of system calls, and were read for what
  they expect.
