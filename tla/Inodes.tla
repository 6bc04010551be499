------------------------------- MODULE Inodes -------------------------------
(***************************************************************************)
(* The inode cache, directories and path names (fs.c) under the system     *)
(* calls that make, find and remove names (sysfile.c), by several          *)
(* processes.  Contents are left out except for directories, whose         *)
(* entries map names to inode numbers, 0 being no entry.                   *)
(*                                                                         *)
(* code[p] is what process p has still to do: a sequence of steps, each    *)
(* with the cache slots it holds a reference to (own).  A step that locks  *)
(* an inode locks the last of them.  A section from acquiresleep() to      *)
(* releasesleep() that waits for nothing inside is one step; lock[c] is    *)
(* set where a process keeps the sleep-lock from one step to the next.     *)
(***************************************************************************)
EXTENDS Naturals, Sequences, FiniteSets, FiniteSetsExt, SequencesExt, Functions

CONSTANTS Procs, NoProc, NINODE, NInums, Names, Calls, MaxCalls

VARIABLES dinode, icache, lock, cwd, open, code, left, adrift
vars == <<dinode, icache, lock, cwd, open, code, left, adrift>>

Slots == 1..NINODE
Inums == 1..NInums
ROOTINO == 1
Dots == {".", ".."}

NoEnts == [n \in Names \cup Dots |-> 0]
FreeInode == [type |-> "free", nlink |-> 0, ents |-> NoEnts]
Dir(self, up) == [NoEnts EXCEPT !["."] = self, ![".."] = up]

\* A root with a directory d and a file x in it; every process works in the root.
Init ==
  /\ dinode = [i \in Inums |->
       CASE i = 1 -> [type |-> "dir", nlink |-> 2, ents |-> [Dir(1, 1) EXCEPT !["d"] = 2]]
         [] i = 2 -> [type |-> "dir", nlink |-> 1, ents |-> [Dir(2, 1) EXCEPT !["x"] = 3]]
         [] i = 3 -> [type |-> "file", nlink |-> 1, ents |-> NoEnts]
         [] OTHER -> FreeInode]
  /\ icache = [c \in Slots |-> [inum |-> IF c = 1 THEN ROOTINO ELSE 0,
                                ref |-> IF c = 1 THEN Cardinality(Procs) ELSE 0,
                                valid |-> FALSE, type |-> "free", nlink |-> 0]]
  /\ lock = [c \in Slots |-> NoProc]
  /\ cwd = [p \in Procs |-> 1]
  /\ open = [p \in Procs |-> 0]
  /\ code = [p \in Procs |-> <<>>]
  /\ left = [p \in Procs |-> MaxCalls]
  /\ adrift = {}
-----------------------------------------------------------------------------
Step(op, own) == [op |-> op, own |-> own, path |-> <<>>, parent |-> FALSE, name |-> "", kind |-> ""]
Walk(own, path, parent) == [Step("walk", own) EXCEPT !.path = path, !.parent = parent]
op(p) == Head(code[p])
c(p) == Last(op(p).own)
rest(p) == Tail(code[p])
Goto(p, steps) == code' = [code EXCEPT ![p] = steps]

\* The name lookup before steps has found slot s; n is the last path element.
Found(steps, s, n) ==
  <<[Head(steps) EXCEPT !.own = Append(@, s), !.name = n]>> \o Tail(steps)

\* It has found nothing: a step that needs its inode is not taken.
NotFound(steps) == IF Head(steps).own = <<>> THEN Tail(steps) ELSE steps

Cached(ic, i) == {s \in Slots : ic[s].ref > 0 /\ ic[s].inum = i}

\* iget(): the slot it returns, and the cache after it; a full cache is a panic.
Slot(ic, i) == IF Cached(ic, i) # {} THEN Min(Cached(ic, i)) ELSE Min({s \in Slots : ic[s].ref = 0})

\* Mutant: a recycled entry stays valid.
RecycledValid(old, i) == [old EXCEPT !.inum = i, !.ref = 1]

Recycled(old, i) == [inum |-> i, ref |-> 1, valid |-> FALSE, type |-> "free", nlink |-> 0]

\* Mutant: a hit does not count.
igetUncounted(ic, i) == [ic EXCEPT ![Slot(ic, i)] = IF @.ref > 0 THEN @ ELSE Recycled(@, i)]

iget(ic, i) ==
  [ic EXCEPT ![Slot(ic, i)] = IF @.ref > 0 THEN [@ EXCEPT !.ref = @ + 1] ELSE Recycled(@, i)]

\* ilock(), once it has the sleep-lock: reads the inode if the cache has no copy.
Loaded(s) ==
  IF icache[s].valid THEN icache
  ELSE LET d == dinode[icache[s].inum]
       IN  [icache EXCEPT ![s] = [@ EXCEPT !.valid = TRUE, !.type = d.type, !.nlink = d.nlink]]

\* Step o of p gets the sleep-lock of its inode.
Locks(p, o) == code[p] # <<>> /\ op(p).op = o /\ lock[c(p)] = NoProc

\* What a directory has under a name, and a directory with one more entry.
dirlookup(d, n) == dinode[d].ents[n]
dirlink(d, di, n, i) == [d EXCEPT ![di].ents[n] = i]

\* iupdate(): the cached copy goes to disk.
Updated(d, ic, s) == [d EXCEPT ![ic[s].inum].type = ic[s].type, ![ic[s].inum].nlink = ic[s].nlink]
-----------------------------------------------------------------------------
\* namex() begins at the root or at the current directory.
Start(p, path, parent, steps) ==
  LET ic == IF path.abs THEN iget(icache, ROOTINO) ELSE [icache EXCEPT ![cwd[p]].ref = @ + 1]
      s == IF path.abs THEN Slot(icache, ROOTINO) ELSE cwd[p]
  IN  /\ icache' = ic
      /\ Goto(p, IF path.elems # <<>> THEN <<Walk(<<s>>, path.elems, parent)>> \o steps
                 ELSE IF parent THEN <<Step("iput", <<s>>)>> \o NotFound(steps)
                 ELSE Found(steps, s, ""))

\* One round of the loop in namex(): it holds one lock at a time, and gets the
\* next inode before it lets go of this one.
NamexStep(p) ==
  LET ic == Loaded(c(p))
      path == op(p).path
      i == dirlookup(ic[c(p)].inum, Head(path))
      put == <<Step("iput", <<c(p)>>)>>
  IN  /\ Locks(p, "walk")
      /\ CASE ic[c(p)].type # "dir" ->
                 icache' = ic /\ Goto(p, put \o NotFound(rest(p)))
           [] ic[c(p)].type = "dir" /\ op(p).parent /\ Len(path) = 1 ->
                 icache' = ic /\ Goto(p, Found(rest(p), c(p), Head(path)))
           [] ic[c(p)].type = "dir" /\ ~ (op(p).parent /\ Len(path) = 1) /\ i = 0 ->
                 icache' = ic /\ Goto(p, put \o NotFound(rest(p)))
           [] OTHER ->
                 /\ icache' = iget(ic, i)
                 /\ Goto(p, put \o (IF Len(path) = 1 THEN Found(rest(p), Slot(ic, i), "")
                                    ELSE <<Walk(<<Slot(ic, i)>>, Tail(path), op(p).parent)>> \o rest(p)))
      /\ UNCHANGED <<dinode, lock, cwd, open, left, adrift>>

\* Mutant: other references are not looked at.
LastPutAny(s) == icache[s].valid /\ icache[s].nlink = 0

LastPut(s) == icache[s].valid /\ icache[s].nlink = 0 /\ icache[s].ref = 1

\* iput(): under the sleep-lock, whether the inode goes; then the reference.
Iput(p) ==
  /\ Locks(p, "iput")
  /\ IF LastPut(c(p))
     THEN /\ lock' = [lock EXCEPT ![c(p)] = p]
          /\ Goto(p, <<Step("ifree", <<c(p)>>)>> \o rest(p))
     ELSE /\ Goto(p, <<Step("ideref", <<c(p)>>)>> \o rest(p))
          /\ UNCHANGED lock
  /\ UNCHANGED <<dinode, icache, cwd, open, left, adrift>>

Freed(old) == [old EXCEPT !.type = "free", !.valid = FALSE]

\* itrunc(), which empties a directory, and the update that makes the inode free
Ifree(p) ==
  /\ code[p] # <<>> /\ op(p).op = "ifree"
  /\ dinode' = [dinode EXCEPT ![icache[c(p)].inum] = FreeInode]
  /\ icache' = [icache EXCEPT ![c(p)] = Freed(@)]
  /\ lock' = [lock EXCEPT ![c(p)] = NoProc]
  /\ Goto(p, <<Step("ideref", <<c(p)>>)>> \o rest(p))
  /\ UNCHANGED <<cwd, open, left, adrift>>

Ideref(p) ==
  /\ code[p] # <<>> /\ op(p).op = "ideref"
  /\ icache' = [icache EXCEPT ![c(p)].ref = @ - 1]
  /\ Goto(p, rest(p))
  /\ UNCHANGED <<dinode, lock, cwd, open, left, adrift>>

\* iunlockput() of an inode locked in an earlier step
Iunlockput(p) ==
  /\ code[p] # <<>> /\ op(p).op = "iunlockput"
  /\ lock' = [lock EXCEPT ![c(p)] = NoProc]
  /\ Goto(p, <<Step("iput", <<c(p)>>)>> \o rest(p))
  /\ UNCHANGED <<dinode, icache, cwd, open, left, adrift>>
-----------------------------------------------------------------------------
\* A process makes a call.  open and chdir look up the whole path; the others all
\* but its last element, except link, which looks up the old name first.
Call(p) ==
  /\ code[p] = <<>> /\ left[p] > 0
  /\ left' = [left EXCEPT ![p] = @ - 1]
  /\ \E k \in Calls :
       /\ k.call \in {"open", "create"} => open[p] = 0
       /\ Start(p, k.path, k.call \in {"create", "mkdir", "unlink"},
                <<[Step(k.call, <<>>) EXCEPT !.path = k.new.elems,
                                             !.kind = IF k.call = "create" THEN "file" ELSE "dir"]>>)
  /\ UNCHANGED <<dinode, lock, cwd, open, adrift>>

\* sys_close(): fileclose() of the last reference
Close(p) ==
  /\ code[p] = <<>> /\ open[p] # 0
  /\ open' = [open EXCEPT ![p] = 0]
  /\ Goto(p, <<Step("iput", <<open[p]>>)>>)
  /\ UNCHANGED <<dinode, icache, lock, cwd, left, adrift>>

\* The end of sys_open() with the inode locked: the process has the file, or there
\* is no file structure or descriptor left for it and the inode is put.
Opened(p) ==
  \/ open' = [open EXCEPT ![p] = c(p)] /\ Goto(p, rest(p))
  \/ UNCHANGED open /\ Goto(p, <<Step("iput", <<c(p)>>)>> \o rest(p))

\* sys_open() without O_CREATE; a directory opened for writing is put as well.
Open(p) ==
  /\ Locks(p, "open")
  /\ icache' = Loaded(c(p))
  /\ Opened(p)
  /\ UNCHANGED <<dinode, lock, cwd, left, adrift>>

\* sys_chdir()
Chdir(p) ==
  LET ic == Loaded(c(p)) IN
  /\ Locks(p, "chdir")
  /\ icache' = ic
  /\ IF ic[c(p)].type = "dir"
     THEN cwd' = [cwd EXCEPT ![p] = c(p)] /\ Goto(p, <<Step("iput", <<cwd[p]>>)>>)
     ELSE Goto(p, <<Step("iput", <<c(p)>>)>>) /\ UNCHANGED cwd
  /\ UNCHANGED <<dinode, lock, open, left, adrift>>
-----------------------------------------------------------------------------
\* ialloc(): the first free inode; there is always one in the instances.
ialloc == Min({n \in Inums : dinode[n].type = "free"})

\* create(), first part, with the directory locked: the name is there, or a free
\* inode is taken and the directory stays locked.
Create(p) ==
  LET ic == Loaded(c(p))
      dp == c(p)
      i == dirlookup(ic[dp].inum, op(p).name)
      new == ialloc
  IN  /\ \/ Locks(p, "create") \/ Locks(p, "mkdir")
      /\ IF i # 0
         THEN /\ icache' = iget(ic, i)
              /\ Goto(p, <<Step("iput", <<dp>>), [op(p) EXCEPT !.op = "exists", !.own = <<Slot(ic, i)>>]>>)
              /\ UNCHANGED <<dinode, lock>>
         ELSE /\ dinode' = [dinode EXCEPT ![new] = [FreeInode EXCEPT !.type = op(p).kind]]
              /\ icache' = iget(ic, new)
              /\ lock' = [lock EXCEPT ![dp] = p]
              /\ Goto(p, <<[op(p) EXCEPT !.op = "fill", !.own = <<dp, Slot(ic, new)>>]>>)
      /\ UNCHANGED <<cwd, open, left, adrift>>

\* create() of a name that is there: only an ordinary file will do.
Exists(p) ==
  LET ic == Loaded(c(p)) IN
  /\ Locks(p, "exists")
  /\ icache' = ic
  /\ IF op(p).kind = "file" /\ ic[c(p)].type = "file"
     THEN Opened(p)
     ELSE Goto(p, <<Step("iput", <<c(p)>>)>>) /\ UNCHANGED open
  /\ UNCHANGED <<dinode, lock, cwd, left, adrift>>

\* What a new entry of this kind adds to the directory's own count, for ".."
UpLinks(kind) == IF kind = "dir" THEN 1 ELSE 0

\* create(), second part: the new inode is filled in and entered; the directory is
\* unlocked and put while the new inode stays locked.
Fill(p) ==
  LET dp == op(p).own[1]
      kind == op(p).kind
      ic == [Loaded(c(p)) EXCEPT ![c(p)].nlink = 1, ![dp].nlink = @ + UpLinks(kind)]
      i == ic[c(p)].inum
      di == ic[dp].inum
  IN  /\ Locks(p, "fill")
      /\ icache' = ic
      /\ dinode' = dirlink([Updated(Updated(dinode, ic, c(p)), ic, dp)
                              EXCEPT ![i].ents = IF kind = "dir" THEN Dir(i, di) ELSE NoEnts],
                           di, op(p).name, i)
      /\ adrift' = IF ic[dp].nlink = UpLinks(kind) THEN adrift \cup {i} ELSE adrift
      /\ lock' = [lock EXCEPT ![dp] = NoProc, ![c(p)] = p]
      /\ Goto(p, <<Step("iput", <<dp>>), [op(p) EXCEPT !.op = "made", !.own = <<c(p)>>]>>)
      /\ UNCHANGED <<cwd, open, left>>

\* The end of sys_open() with O_CREATE, and of sys_mkdir()
Made(p) ==
  /\ code[p] # <<>> /\ op(p).op = "made"
  /\ lock' = [lock EXCEPT ![c(p)] = NoProc]
  /\ IF op(p).kind = "file"
     THEN Opened(p)
     ELSE Goto(p, <<Step("iput", <<c(p)>>)>>) /\ UNCHANGED open
  /\ UNCHANGED <<dinode, icache, cwd, left, adrift>>
-----------------------------------------------------------------------------
\* sys_unlink(), with the directory locked
Unlink(p) ==
  LET ic == Loaded(c(p))
      dp == c(p)
      i == dirlookup(ic[dp].inum, op(p).name)
  IN  /\ Locks(p, "unlink")
      /\ IF op(p).name \in Dots \/ i = 0
         THEN icache' = ic /\ Goto(p, <<Step("iput", <<dp>>)>>) /\ UNCHANGED lock
         ELSE /\ icache' = iget(ic, i)
              /\ lock' = [lock EXCEPT ![dp] = p]
              /\ Goto(p, <<[op(p) EXCEPT !.op = "remove", !.own = <<dp, Slot(ic, i)>>]>>)
      /\ UNCHANGED <<dinode, cwd, open, left, adrift>>

isdirempty(i) == \A n \in Names : dinode[i].ents[n] = 0

\* sys_unlink(), with both locked; the directory is unlocked and put first.
UnlinkBoth(p) ==
  LET dp == op(p).own[1]
      ip == c(p)
      ic == Loaded(ip)
      up == [ic EXCEPT ![dp].nlink = @ - UpLinks(ic[ip].type)]
  IN  /\ Locks(p, "remove")
      /\ IF ic[ip].type = "dir" /\ ~ isdirempty(ic[ip].inum)
         THEN /\ icache' = ic
              /\ Goto(p, <<Step("iput", <<ip>>), Step("iunlockput", <<dp>>)>>)
              /\ UNCHANGED <<dinode, lock>>
         ELSE /\ icache' = up
              /\ dinode' = [Updated(dinode, up, dp) EXCEPT ![up[dp].inum].ents[op(p).name] = 0]
              /\ lock' = [lock EXCEPT ![dp] = NoProc, ![ip] = p]
              /\ Goto(p, <<Step("iput", <<dp>>), Step("removed", <<ip>>)>>)
      /\ UNCHANGED <<cwd, open, left, adrift>>

UnlinkDone(p) ==
  LET ic == [icache EXCEPT ![c(p)].nlink = @ - 1] IN
  /\ code[p] # <<>> /\ op(p).op = "removed"
  /\ icache' = ic
  /\ dinode' = Updated(dinode, ic, c(p))
  /\ lock' = [lock EXCEPT ![c(p)] = NoProc]
  /\ Goto(p, <<Step("iput", <<c(p)>>)>>)
  /\ UNCHANGED <<cwd, open, left, adrift>>
-----------------------------------------------------------------------------
Linked(s) == [Loaded(s) EXCEPT ![s].nlink = @ + 1]

\* sys_link(): the count goes up before the new name is looked up.
Link(p) ==
  LET ic == Linked(c(p)) IN
  /\ Locks(p, "link")
  /\ IF ic[c(p)].type = "dir"
     THEN icache' = Loaded(c(p)) /\ Goto(p, <<Step("iput", <<c(p)>>)>>) /\ UNCHANGED dinode
     ELSE /\ icache' = ic
          /\ dinode' = Updated(dinode, ic, c(p))
          /\ Goto(p, <<[op(p) EXCEPT !.op = "newname"]>>)
  /\ UNCHANGED <<lock, cwd, open, left, adrift>>

LinkName(p) ==
  /\ code[p] # <<>> /\ op(p).op = "newname"
  /\ Start(p, [abs |-> TRUE, elems |-> op(p).path], TRUE, <<[op(p) EXCEPT !.op = "enter"]>>)
  /\ UNCHANGED <<dinode, lock, cwd, open, left, adrift>>

\* dirlink() into the directory, if it was found and does not have the name; the
\* inode of a name in the way is put while the directory is locked.
LinkEnter(p) ==
  LET ip == op(p).own[1]
      dp == c(p)
      ic == Loaded(dp)
      i == dirlookup(ic[dp].inum, op(p).name)
  IN  /\ Locks(p, "enter") /\ Len(op(p).own) = 2
      /\ IF i # 0
         THEN /\ icache' = iget(ic, i)
              /\ lock' = [lock EXCEPT ![dp] = p]
              /\ Goto(p, <<Step("iput", <<Slot(ic, i)>>), Step("iunlockput", <<dp>>), Step("enter", <<ip>>)>>)
              /\ UNCHANGED <<dinode, adrift>>
         ELSE /\ icache' = ic
              /\ dinode' = dirlink(dinode, ic[dp].inum, op(p).name, ic[ip].inum)
              /\ adrift' = IF ic[dp].nlink = 0 THEN adrift \cup {ic[ip].inum} ELSE adrift
              /\ Goto(p, <<Step("iput", <<dp>>), Step("iput", <<ip>>)>>)
              /\ UNCHANGED lock
      /\ UNCHANGED <<cwd, open, left>>

\* Mutant: the count is not taken back.
LinkUndoneNot(s) == Loaded(s)

LinkUndone(s) == [Loaded(s) EXCEPT ![s].nlink = @ - 1]

\* The code after "bad:" in sys_link()
LinkUndo(p) ==
  LET ic == LinkUndone(c(p)) IN
  /\ Locks(p, "enter") /\ Len(op(p).own) = 1
  /\ icache' = ic
  /\ dinode' = Updated(dinode, ic, c(p))
  /\ Goto(p, <<Step("iput", <<c(p)>>)>>)
  /\ UNCHANGED <<lock, cwd, open, left, adrift>>

KernelStep(p) ==
  \/ NamexStep(p) \/ Iput(p) \/ Ifree(p) \/ Ideref(p) \/ Iunlockput(p)
  \/ Open(p) \/ Chdir(p) \/ Create(p) \/ Exists(p) \/ Fill(p) \/ Made(p)
  \/ Unlink(p) \/ UnlinkBoth(p) \/ UnlinkDone(p)
  \/ Link(p) \/ LinkName(p) \/ LinkEnter(p) \/ LinkUndo(p)

Next == \E p \in Procs : KernelStep(p) \/ Call(p) \/ Close(p)

Spec == Init /\ [][Next]_vars
-----------------------------------------------------------------------------
\* Properties

\* The variables have the shapes of the C structures.
TypeOK ==
  /\ \A s \in Slots : icache[s].ref \in Nat /\ icache[s].nlink \in Nat /\ lock[s] \in Procs \cup {NoProc}
  /\ \A i \in Inums : dinode[i].nlink \in Nat /\ Range(dinode[i].ents) \subseteq 0..NInums
  /\ \A p \in Procs : cwd[p] \in Slots /\ open[p] \in 0..NINODE

\* How often process p refers to cache slot s
Refs(p, s) ==
  Cardinality({x \in {<<"cwd", cwd[p]>>, <<"open", open[p]>>} : x[2] = s})
    + Cardinality({x \in (DOMAIN code[p]) \X {1, 2} :
                     x[2] \in DOMAIN code[p][x[1]].own /\ code[p][x[1]].own[x[2]] = s})

\* ip->ref counts exactly the pointers to the entry: current directories, open
\* files, and those of calls under way, failing ones included.
RefsExact == \A s \in Slots : icache[s].ref = MapThenSumSet(LAMBDA p : Refs(p, s), Procs)

\* An inode has one cache entry at a time, and what an entry says is what the disk
\* says: the cache is write-through, and no entry outlives the inode it was read
\* from, although numbers are used again.
CacheCoherent ==
  \A s \in Slots : icache[s].ref > 0 =>
    LET d == dinode[icache[s].inum]
    IN  /\ \A t \in Slots \ {s} : icache[t].ref > 0 => icache[t].inum # icache[s].inum
        /\ icache[s].valid => icache[s].type = d.type /\ icache[s].nlink = d.nlink /\ d.type # "free"

\* An open file and a current directory are never freed, however often their names
\* are removed meanwhile.
InUseNotFreed ==
  \A p \in Procs : \A s \in {cwd[p], open[p]} \ {0} : dinode[icache[s].inum].type # "free"

\* The directories that have an entry for inode i, and the subdirectories of i
Named(i) ==
  {<<d, n>> \in Inums \X Names : dinode[d].type = "dir" /\ dinode[d].ents[n] = i}
Subdirs(i) ==
  {d \in Inums : dinode[d].type = "dir" /\ dinode[d].ents[".."] = i /\ Named(d) # {}}

\* The calls that have counted a link to inode i and not entered it, or removed an
\* entry and not counted it
Pending(i) ==
  {x \in Procs \X (1..5) :
     /\ x[2] \in DOMAIN code[x[1]] /\ code[x[1]][x[2]].op \in {"newname", "enter", "removed"}
     /\ icache[Head(code[x[1]][x[2]].own)].inum = i}
BeingMade(i) == \E p \in Procs : code[p] # <<>> /\ op(p).op = "fill" /\ icache[c(p)].inum = i

\* nlink is the number of entries for the inode, a directory's ".." included and
\* the root counted once, except for what was entered into a directory that was
\* being removed.
LinksCounted ==
  \A i \in Inums \ adrift : dinode[i].type # "free" /\ ~ BeingMade(i) =>
    dinode[i].nlink = Cardinality(Named(i)) + Cardinality(Subdirs(i)) + Cardinality(Pending(i))
                        + (IF i = ROOTINO THEN 1 ELSE 0)

Idle == \A p \in Procs : code[p] = <<>>
InUse(i) == \E p \in Procs : \E s \in {cwd[p], open[p]} \ {0} : icache[s].inum = i

\* When no call is under way, what has no name and is not in use is free.
NamelessIsFree ==
  Idle => \A i \in Inums \ (adrift \cup {ROOTINO}) :
            dinode[i].type # "free" /\ Named(i) = {} => InUse(i)

\* Every entry leads to an inode that is in use.
NoDangling ==
  \A d \in Inums : dinode[d].type = "dir" =>
    \A n \in Names \cup Dots : dinode[d].ents[n] # 0 => dinode[dinode[d].ents[n]].type # "free"

\* Names and link counts agree: every entry leads to an inode in use, which counts
\* it, whatever calls are under way.
NamesExact == TypeOK /\ LinksCounted /\ NoDangling

Waits(p, q) ==
  /\ code[p] # <<>> /\ op(p).op \notin {"ifree", "ideref", "iunlockput", "made", "removed", "newname"}
  /\ lock[c(p)] = q

\* No two calls hold the sleep-lock the other one waits for.
NoCircularWait == ~ \E p, q \in Procs : Waits(p, q) /\ Waits(q, p)
=============================================================================
