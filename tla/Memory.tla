------------------------------- MODULE Memory -------------------------------
(***************************************************************************)
(* Physical pages and address spaces: kalloc.c, vm.c, and the calls that   *)
(* build, copy, grow and drop an address space: fork(), exec(), sbrk(),    *)
(* exit() and wait().  The free list is all that processes share here, so  *)
(* every kalloc() is a step of its own and memory can run out between any  *)
(* two of them, while a run of kfree()s is one step.                       *)
(*                                                                         *)
(* Page 0 stands for no page.  Sizes are in bytes, virtual pages are       *)
(* numbered from 0; a page table maps PTN pages and the table with index   *)
(* NTAB is the one setupkvm() makes for the kernel's mappings.             *)
(***************************************************************************)
EXTENDS Integers, Sequences, FiniteSets, FiniteSetsExt, SequencesExt

CONSTANTS
  NPROC, NPAGES,
  PGSIZE, PTN, NTAB,   \* bytes in a page, pages per table, user page tables
  AddrMod,             \* addresses wrap here
  Images, Sbrks,       \* the program sizes and the arguments of sbrk() to try
  ArgLens,             \* and the lengths of exec()'s arguments
  MaxCalls             \* bound on the calls of a behaviour that change memory

VARIABLES free, vm, sz, st, parent, kstack, guard, job,
  took,   \* took[p]: what the call p is in has got from kalloc(); it guides no step
  calls   \* the calls still to be made
vars == <<free, vm, sz, st, parent, kstack, guard, job, took, calls>>

Procs == 1..NPROC
Pages == 1..NPAGES
VPages == 0..PTN * NTAB - 1
KERNBASE == PTN * NTAB * PGSIZE
PDX(v) == v \div PTN

\* The first page that starts at or after address a: PGROUNDUP
PGROUNDUP(a) == (a + PGSIZE - 1) \div PGSIZE

NoPte == [pa |-> 0, user |-> FALSE]
NoVm == [dir |-> 0, tab |-> [i \in 0..NTAB |-> 0], pte |-> [v \in VPages |-> NoPte]]
NoJob == [op |-> "none", as |-> NoVm, todo |-> <<>>, mem |-> 0, size |-> 0, child |-> 0]

\* What setupkvm() allocates, and the pages from..to-1 of an address space
Kvm == <<<<"dir", 0>>, <<"tab", NTAB>>>>
UserPages(from, to) == [i \in 1..to - from |-> <<"va", from + i - 1>>]

\* Mutant: the page tables are left behind.
freevmNoTables(as) == ({as.dir} \cup {as.pte[v].pa : v \in VPages}) \ {0}

\* The pages freevm() frees: user pages, page tables and the directory
freevm(as) ==
  ({as.dir} \cup {as.tab[i] : i \in 0..NTAB} \cup {as.pte[v].pa : v \in VPages}) \ {0}

\* The first process, as userinit() leaves it, with one page
Init ==
  /\ vm = [p \in Procs |->
       IF p = 1 THEN [dir |-> 1, tab |-> [i \in 0..NTAB |-> CASE i = 0 -> 2 [] i = NTAB -> 3 [] OTHER -> 0],
                      pte |-> [v \in VPages |-> IF v = 0 THEN [pa |-> 4, user |-> TRUE] ELSE NoPte]]
       ELSE NoVm]
  /\ kstack = [p \in Procs |-> IF p = 1 THEN 5 ELSE 0]
  /\ free = Pages \ (1..5)
  /\ sz = [p \in Procs |-> IF p = 1 THEN PGSIZE ELSE 0]
  /\ st = [p \in Procs |-> IF p = 1 THEN "user" ELSE "unused"]
  /\ parent = [p \in Procs |-> 1]
  /\ guard = [p \in Procs |-> -1]
  /\ job = [p \in Procs |-> NoJob]
  /\ took = [p \in Procs |-> {}]
  /\ calls = MaxCalls
-----------------------------------------------------------------------------
Ready(p) == st[p] = "user" /\ job[p] = NoJob
Call(p) == Ready(p) /\ calls > 0 /\ calls' = calls - 1
Unused == {q \in Procs : st[q] = "unused"}
kfree(pages) == free' = free \cup (pages \ {0})

\* The call p is in is over.
Return(p) == job' = [job EXCEPT ![p] = NoJob] /\ took' = [took EXCEPT ![p] = {}]

\* fork(): allocproc() takes a slot and a kernel stack, copyuvm() the rest.
Fork(p) ==
  LET np == Min(Unused) IN
  /\ Call(p) /\ Unused # {}
  /\ st' = [st EXCEPT ![np] = "embryo"]
  /\ job' = [job EXCEPT ![p] =
       [NoJob EXCEPT !.op = "fork", !.child = np, !.size = sz[p],
                     !.todo = <<<<"kstack", 0>>>> \o Kvm \o UserPages(0, PGROUNDUP(sz[p]))]]
  /\ UNCHANGED <<free, vm, sz, parent, kstack, guard, took>>

\* exec(): a program of n bytes, then two pages from the next page boundary,
\* which allocuvm() refuses to allocate where they would reach the kernel.
Exec(p) ==
  /\ Call(p)
  /\ \E n \in Images :
       LET size == (PGROUNDUP(n) + 2) * PGSIZE
           pages == IF size < KERNBASE THEN PGROUNDUP(n) + 2 ELSE PGROUNDUP(n)
       IN  job' = [job EXCEPT ![p] = [NoJob EXCEPT !.op = "exec", !.size = size,
                                                   !.todo = Kvm \o UserPages(0, pages)]]
  /\ UNCHANGED <<free, vm, sz, st, parent, kstack, guard, took>>

Room(p, n) == sz[p] + n < KERNBASE

\* growproc(n), n > 0: allocuvm() fails at once where the kernel begins.
Grow(p) ==
  /\ Call(p)
  /\ \E n \in Sbrks : /\ n > 0 /\ Room(p, n)
                      /\ job' = [job EXCEPT ![p] =
                           [NoJob EXCEPT !.op = "sbrk", !.size = sz[p] + n, !.as = vm[p],
                                         !.todo = UserPages(PGROUNDUP(sz[p]), PGROUNDUP(sz[p] + n))]]
  /\ UNCHANGED <<free, vm, sz, st, parent, kstack, guard, took>>

\* The pages deallocuvm() drops to go down from size to to size from
Dropped(from, to) == PGROUNDUP(from)..(PGROUNDUP(to) - 1)
Without(as, vs) == [as EXCEPT !.pte = [v \in VPages |-> IF v \in vs THEN NoPte ELSE @[v]]]
Mapped(as, vs) == {as.pte[v].pa : v \in vs} \ {0}

\* growproc(n), n < 0: sizes are unsigned, and a size of 0 is taken for an error
\* after the pages are gone, so that the process can only fault and exit.
Shrink(p) ==
  /\ Call(p)
  /\ \E n \in Sbrks :
       LET new == (sz[p] + n) % AddrMod IN
       /\ n < 0 /\ new < sz[p]
       /\ kfree(Mapped(vm[p], Dropped(new, sz[p])))
       /\ vm' = [vm EXCEPT ![p] = Without(@, Dropped(new, sz[p]))]
       /\ IF new = 0 THEN st' = [st EXCEPT ![p] = "doomed"] /\ UNCHANGED sz
          ELSE sz' = [sz EXCEPT ![p] = new] /\ UNCHANGED st
       /\ guard' = [guard EXCEPT ![p] = IF @ \in Dropped(new, sz[p]) THEN -1 ELSE @]
  /\ UNCHANGED <<parent, kstack, job, took>>
-----------------------------------------------------------------------------
\* Mutant: a copied page is always accessible to the user.
FlagsUser(p, v) == TRUE

\* The permission of page v in a copy and in a new image
Flags(p, v) == IF job[p].op = "fork" THEN vm[p].pte[v].user ELSE TRUE

Pte(as, v, page, u) == [as EXCEPT !.pte[v] = [pa |-> page, user |-> u]]

\* kalloc() for the next thing the job needs: for a page, mappages() may have to
\* allocate its page table after the page itself.
Kalloc(p) ==
  LET j == job[p]
      t == Head(j.todo)
      page == Min(free)
      u == Flags(p, t[2])
      done == [j EXCEPT !.todo = Tail(@)]
  IN  /\ j.todo # <<>> /\ free # {}
      /\ free' = free \ {page}
      /\ took' = [took EXCEPT ![p] = @ \cup {page}]
      /\ kstack' = IF t[1] = "kstack" THEN [kstack EXCEPT ![j.child] = page] ELSE kstack
      /\ job' = [job EXCEPT ![p] =
           CASE t[1] = "kstack" -> done
             [] t[1] = "dir" -> [done EXCEPT !.as.dir = page]
             [] t[1] = "tab" -> [done EXCEPT !.as.tab[t[2]] = page]
             [] t[1] = "va" /\ j.mem = 0 /\ j.as.tab[PDX(t[2])] # 0 ->
                  [done EXCEPT !.as = Pte(@, t[2], page, u)]
             [] t[1] = "va" /\ j.mem = 0 /\ j.as.tab[PDX(t[2])] = 0 -> [j EXCEPT !.mem = page]
             [] OTHER -> [done EXCEPT !.as = Pte([@ EXCEPT !.tab[PDX(t[2])] = page], t[2], j.mem, u),
                                      !.mem = 0]]
      /\ UNCHANGED <<vm, sz, st, parent, guard, calls>>

\* What deallocuvm() gives back when allocuvm() fails on the way to the new size
\* of sbrk(); the page tables stay.
Grown(p) == Dropped(sz[p], job[p].size)

\* Mutant: a failed fork() keeps the new kernel stack.
UndonePagesNoStack(p) ==
  {job[p].mem} \cup IF job[p].op = "sbrk" THEN Mapped(job[p].as, Grown(p)) ELSE freevm(job[p].as)

\* The pages freed by the error path of each call: the page not yet mapped, the
\* new address space, and fork()'s kernel stack
UndonePages(p) ==
  {job[p].mem} \cup
  IF job[p].op = "sbrk" THEN Mapped(job[p].as, Grown(p))
  ELSE freevm(job[p].as) \cup {kstack[q] : q \in {job[p].child} \ {0}}

Undo(p) ==
  /\ kfree(UndonePages(p))
  /\ vm' = IF job[p].op = "sbrk" THEN [vm EXCEPT ![p] = Without(job[p].as, Grown(p))] ELSE vm
  /\ st' = [q \in Procs |-> IF q = job[p].child THEN "unused" ELSE st[q]]
  /\ kstack' = [q \in Procs |-> IF q = job[p].child THEN 0 ELSE kstack[q]]
  /\ Return(p)
  /\ UNCHANGED <<sz, parent, guard, calls>>

NoMemory(p) == job[p].todo # <<>> /\ free = {} /\ Undo(p)

\* exec() gives up: no such file, not a program, a short read, a bad segment, an
\* image that reaches the kernel, or arguments that do not fit the stack
ExecBad(p) == job[p].op = "exec" /\ job[p].mem = 0 /\ Undo(p)

Done(p, op) == job[p].op = op /\ job[p].todo = <<>>

\* The child gets the copy, the size, and with the copied page its guard.
ForkDone(p) ==
  LET np == job[p].child IN
  /\ Done(p, "fork")
  /\ vm' = [vm EXCEPT ![np] = job[p].as]
  /\ sz' = [sz EXCEPT ![np] = sz[p]]
  /\ guard' = [guard EXCEPT ![np] = guard[p]]
  /\ parent' = [parent EXCEPT ![np] = p]
  /\ st' = [st EXCEPT ![np] = "user"]
  /\ Return(p)
  /\ UNCHANGED <<free, kstack, calls>>

\* clearpteu() on the page below the stack, then the commit to the new image
ExecDone(p) ==
  LET g == job[p].size \div PGSIZE - 2 IN
  /\ Done(p, "exec") /\ job[p].size < KERNBASE
  /\ vm' = [vm EXCEPT ![p] = [job[p].as EXCEPT !.pte[g].user = FALSE]]
  /\ kfree(freevm(vm[p]))
  /\ sz' = [sz EXCEPT ![p] = job[p].size]
  /\ guard' = [guard EXCEPT ![p] = g]
  /\ Return(p)
  /\ UNCHANGED <<st, parent, kstack, calls>>

GrowDone(p) ==
  /\ Done(p, "sbrk")
  /\ vm' = [vm EXCEPT ![p] = job[p].as]
  /\ sz' = [sz EXCEPT ![p] = job[p].size]
  /\ Return(p)
  /\ UNCHANGED <<free, st, parent, kstack, guard, calls>>
-----------------------------------------------------------------------------
\* exit(): the children go to the first process, the memory stays until wait().
Exit(p) ==
  /\ p # 1 /\ job[p] = NoJob /\ st[p] \in {"user", "doomed"}
  /\ st' = [st EXCEPT ![p] = "zombie"]
  /\ parent' = [q \in Procs |-> IF parent[q] = p THEN 1 ELSE parent[q]]
  /\ UNCHANGED <<free, vm, sz, kstack, guard, job, took, calls>>

\* wait() finds a zombie child and frees its kernel stack and its memory; nothing
\* reads the slot's old size and directory again.
Wait(p) ==
  /\ Ready(p)
  /\ \E q \in Procs :
       /\ st[q] = "zombie" /\ parent[q] = p
       /\ kfree(freevm(vm[q]) \cup {kstack[q]})
       /\ vm' = [vm EXCEPT ![q] = NoVm]
       /\ kstack' = [kstack EXCEPT ![q] = 0]
       /\ st' = [st EXCEPT ![q] = "unused"]
       /\ sz' = [sz EXCEPT ![q] = 0]
       /\ guard' = [guard EXCEPT ![q] = -1]
       /\ parent' = [parent EXCEPT ![q] = 1]
  /\ UNCHANGED <<job, took, calls>>

Next ==
  \E p \in Procs :
    \/ Fork(p) \/ Exec(p) \/ Grow(p) \/ Shrink(p) \/ Kalloc(p) \/ NoMemory(p) \/ ExecBad(p)
    \/ ForkDone(p) \/ ExecDone(p) \/ GrowDone(p) \/ Exit(p) \/ Wait(p)

Spec == Init /\ [][Next]_vars
-----------------------------------------------------------------------------
(***************************************************************************)
(* The argument area that exec() builds, byte by byte, for a program of    *)
(* one page: its page, the guard page and the stack page.  Addresses wrap  *)
(* at ArgMod; below it are the devices, mapped for the kernel alone.       *)
(***************************************************************************)
Word == 4
ArgPage == 12 * Word
StackTop == 3 * ArgPage
ArgMod == 8 * ArgPage
DEVSPACE == 6 * ArgPage
MAXARG == 3

\* There is a page table for the address: the program's first, or the devices'.
\* uva2ka() relies on it and does not test what walkpgdir() returns.
Tabled(a) == a < 4 * ArgPage \/ a >= DEVSPACE

\* Mutant: the guard page is left accessible.
UserByteAll(a) == a < StackTop

\* uva2ka() finds a page the user may access, where there is a page table
UserByte(a) == a < StackTop /\ a \div ArgPage # 1

copyout(va, len) == \A i \in 0..len - 1 : UserByte((va + i) % ArgMod)

\* exec() stops at the first copy that fails.
Pushed(s, n, align) ==
  LET raw == (s.sp + ArgMod - n) % ArgMod
      sp == raw - (raw % align)
  IN  [sp |-> sp, ok |-> s.ok /\ copyout(sp, n), tabled |-> s.tabled /\ (s.ok => Tabled(sp)),
       areas |-> Append(s.areas, <<sp, n>>)]

\* The strings, then the fake return address, argc, argv and the pointers
Arguments(lens) ==
  LET strings == FoldLeft(LAMBDA s, n : Pushed(s, n + 1, Word),
                          [sp |-> StackTop, ok |-> Len(lens) <= MAXARG, tabled |-> TRUE, areas |-> <<>>],
                          lens)
  IN  [stack |-> Pushed(strings, (3 + Len(lens) + 1) * Word, 1),
       argv |-> (strings.sp + ArgMod - (Len(lens) + 1) * Word) % ArgMod]
-----------------------------------------------------------------------------
Owned(as) ==
  {<<"dir", 0, as.dir>>} \cup {<<"tab", i, as.tab[i]>> : i \in 0..NTAB}
    \cup {<<"va", v, as.pte[v].pa>> : v \in VPages}

Holders(p) ==
  (IF job[p].op = "sbrk" THEN {} ELSE {<<p, "vm", t>> : t \in Owned(vm[p])})
    \cup {<<p, "job", t>> : t \in Owned(job[p].as)}
    \cup {<<p, "kstack", <<"", 0, kstack[p]>>>>, <<p, "mem", <<"", 0, job[p].mem>>>>}

\* The kinds of values the state holds.
TypeOK ==
  /\ free \subseteq Pages
  /\ \A p \in Procs :
       /\ st[p] \in {"unused", "embryo", "user", "doomed", "zombie"}
       /\ sz[p] \in 0..KERNBASE - 1 /\ parent[p] \in Procs
       /\ kstack[p] \in 0..NPAGES /\ guard[p] \in {-1} \cup VPages
       /\ job[p].op \in {"none", "fork", "exec", "sbrk"} /\ job[p].mem \in 0..NPAGES

\* Every page is on the free list or is one thing of one process: a kernel stack,
\* a directory, a page table, a user page, or the page a call is about to map.
\* kfree() never gets a page twice and no failed fork(), exec() or sbrk(), and no
\* exit() and wait(), loses one.
PagesOnce ==
  LET held == {h \in UNION {Holders(p) : p \in Procs} : h[3][3] # 0}
      pages == {h[3][3] : h \in held}
  IN  pages = Pages \ free /\ Cardinality(pages) = Cardinality(held)

\* Outside of a growproc() a process has exactly the pages below its size, each
\* under a page table: copyuvm() finds every page it copies ("page not present"),
\* mappages() no page in its place ("remap").
MappedBelowSz ==
  \A p \in Procs : st[p] = "user" =>
    LET as == IF job[p].op = "sbrk" THEN job[p].as ELSE vm[p] IN
    \A v \in VPages :
      /\ as.pte[v].pa # 0 => as.tab[PDX(v)] # 0
      /\ v < PGROUNDUP(sz[p]) => as.pte[v].pa # 0
      /\ v >= PGROUNDUP(sz[p]) /\ as.pte[v].pa # 0 => <<"va", v>> \notin Range(job[p].todo)
      /\ v >= PGROUNDUP(sz[p]) /\ job[p].op # "sbrk" => as.pte[v].pa = 0

\* Of the pages of a process the user can touch all but the one below its stack,
\* and that one stays out of reach when it is copied by fork() and when the
\* memory above it grows and shrinks.
GuardHolds ==
  \A p \in Procs : st[p] = "user" =>
    \A v \in VPages : vm[p].pte[v].pa # 0 => (vm[p].pte[v].user <=> v # guard[p])

\* An address space maps what its size says and lets the user touch all of it but
\* the guard page; it ends below KERNBASE.
SpacesExact == TypeOK /\ MappedBelowSz /\ GuardHolds

\* The call of p returns -1; after sbrk() down to 0 nothing is mapped any more.
Fails(p) == NoMemory(p) \/ ExecBad(p)
ShrinksToZero(p) == Shrink(p) /\ st'[p] = "doomed"

\* What other processes have, but for the slot that a fork() of p had taken
OthersKept(p) ==
  \A q \in Procs \ {p} :
    /\ vm'[q] = vm[q] /\ sz'[q] = sz[q] /\ guard'[q] = guard[q] /\ job'[q] = job[q]
    /\ q # job[p].child => st'[q] = st[q] /\ kstack'[q] = kstack[q]

\* A call that fails, after however many allocations and with others running in
\* between, leaves its caller as it was: the same pages at the same addresses and
\* the same size.  All it took is free again, except for page tables that sbrk()
\* leaves in the caller's directory, and nothing else is freed; fork()'s slot is
\* unused, without a stack.  The exception is sbrk() down to exactly 0, which
\* frees the caller's pages, and only those, before it fails.
FailureHarmless ==
  [][\A p \in Procs :
       /\ Fails(p) =>
            /\ vm'[p].pte = vm[p].pte /\ sz'[p] = sz[p] /\ guard'[p] = guard[p]
            /\ st'[p] = "user" /\ kstack'[p] = kstack[p]
            /\ OthersKept(p)
            /\ free' = free \cup (took[p] \ Range(vm'[p].tab))
            /\ job[p].op = "fork" =>
                 LET np == job[p].child
                 IN  st'[np] = "unused" /\ kstack'[np] = 0 /\ vm'[np] = NoVm
       /\ ShrinksToZero(p) =>
            /\ OthersKept(p) /\ vm'[p].tab = vm[p].tab
            /\ vm'[p].pte = NoVm.pte /\ free' = free \cup Mapped(vm[p], VPages)]_vars

\* The bytes that the strings, each rounded up to a word, and the array take
ArgBytes(lens) ==
  FoldLeft(LAMBDA n, len : n + Word * ((len + Word) \div Word), (3 + Len(lens) + 1) * Word, lens)

\* exec() accepts a list of arguments exactly when it has no more than MAXARG and
\* they fit the stack page: a longer one always meets the guard page, or wraps
\* around to the devices.  Then the strings and the array that points to them lie
\* in the stack page, apart from each other, the stack pointer is aligned, and argv
\* is the address of the first pointer.  Lists whose copy would begin where there
\* is no page table are left out: what uva2ka() finds there is undefined.
ArgsInStack ==
  \A argc \in 0..MAXARG + 1 : \A lens \in [1..argc -> ArgLens] :
    LET args == Arguments(lens)
        r == args.stack
    IN  r.tabled =>
          /\ r.ok <=> argc <= MAXARG /\ ArgBytes(lens) <= ArgPage
          /\ r.ok =>
               /\ r.sp % Word = 0 /\ args.argv = r.sp + 3 * Word
               /\ \A i \in 1..argc + 1 :
                    /\ r.areas[i][1] >= StackTop - ArgPage
                    /\ r.areas[i][1] + r.areas[i][2] <= (IF i = 1 THEN StackTop ELSE r.areas[i - 1][1])
=============================================================================
