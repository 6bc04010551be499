----------------------------- MODULE LifeProofs -----------------------------
(***************************************************************************)
(* The process tree of Proc, for any number of slots and CPUs and any      *)
(* workload: every process has a living, older parent, which alone reaps   *)
(* it, and nobody sleeps in wait() through an exit, an inherited zombie or *)
(* a kill.                                                                 *)
(***************************************************************************)
EXTENDS ProcProofs

USE DEF attrs, table, cpus, frame, threads, clock, At, Goto

\* States of a process that can still call wait().
Live == {"SLEEPING", "RUNNABLE", "RUNNING"}

\* q is at label l of fork(), perhaps interrupted there.
Is(q, l) == pc[q] = l \/ resume[q] = l

\* init is process 1 and never ends; pids are handed out in increasing order;
\* a slot that is not in use has no parent.
FamilyInv ==
  /\ pid[initproc] = 1 /\ state[initproc] \in Live /\ nextpid > 1
  /\ \A q \in Slots : state[q] # "UNUSED" => pid[q] < nextpid
  /\ \A q \in Slots : state[q] # "UNUSED" /\ q # initproc => pid[q] > 1
  /\ \A q \in Slots : state[q] = "UNUSED" => parent[q] = NoProc

\* A child still in fork() is younger than its parent, and gets that parent in
\* fork(), before it is made RUNNABLE.
BirthInv ==
  \A p \in Slots : child[p] # NoProc =>
    /\ Is(p, "fork.copy") \/ Is(p, "fork.ready")
    /\ pid[p] < pid[child[p]]
    /\ Is(p, "fork.copy") => parent[child[p]] = NoProc
    /\ Is(p, "fork.ready") => parent[child[p]] = p

TreeInv == FamilyInv /\ BirthInv /\ ProcessTree /\ NoLostExit
-----------------------------------------------------------------------------
\* A process with a child in fork() is alive, and is not in exit() or wait().
LEMMA Breeding ==
  ASSUME IInv, TreeInv, NEW p \in Slots, child[p] # NoProc
  PROVE  /\ state[p] \in Live /\ child[p] \in Slots /\ child[p] # p
         /\ state[child[p]] = "EMBRYO" /\ child[p] # initproc
         /\ pc[p] \notin {"exit", "wait", "wait.resume"}
  <1>1. Is(p, "fork.copy") \/ Is(p, "fork.ready")
    BY DEF TreeInv, BirthInv
  <1>2. state[p] \in Live
    BY <1>1 DEF Is, IInv, ThreadInv, TypeOK, ProcState, Live
  <1>3. child[p] \in Slots /\ state[child[p]] = "EMBRYO"
    BY DEF IInv, TypeOK, ChildInv
  <1>4. pc[p] \notin {"exit", "wait", "wait.resume"}
    BY <1>1 DEF Is, IInv, ResumeInv, ResumeOK, Handler
  <1> QED BY <1>2, <1>3, <1>4 DEF Live, TreeInv, FamilyInv

\* A step that starts, ends and adopts no process, puts none to sleep in wait()
\* and leaves every fork() where it was.
PlainStep ==
  /\ UNCHANGED <<pid, parent, nextpid, child>>
  /\ \A q \in Slots : state'[q] = state[q] \/ (state[q] \in Live /\ state'[q] \in Live)
  /\ \A q \in Slots : \A l \in {"fork.copy", "fork.ready"} : Is(q, l)' <=> Is(q, l)
  /\ \A q \in Slots : state'[q] = "SLEEPING" /\ chan'[q] = q =>
       state[q] = "SLEEPING" /\ chan[q] = q /\ killed'[q] = killed[q]

\* Such a step preserves the tree.
LEMMA PlainTree ==
  ASSUME IInv, TreeInv, PlainStep
  PROVE  TreeInv'
  <1>1. FamilyInv'
    BY Consts DEF TreeInv, FamilyInv, PlainStep, Live
  <1>2. BirthInv'
    <2> SUFFICES ASSUME NEW p \in Slots, child[p] # NoProc
                 PROVE  /\ Is(p, "fork.copy")' \/ Is(p, "fork.ready")'
                        /\ pid[p] < pid[child[p]]
                        /\ Is(p, "fork.copy")' => parent[child[p]] = NoProc
                        /\ Is(p, "fork.ready")' => parent[child[p]] = p
      BY DEF BirthInv, PlainStep
    <2>1. /\ Is(p, "fork.copy")' <=> Is(p, "fork.copy")
          /\ Is(p, "fork.ready")' <=> Is(p, "fork.ready")
      BY DEF PlainStep
    <2> QED BY <2>1 DEF TreeInv, BirthInv
  <1>3. ProcessTree'
    BY DEF TreeInv, ProcessTree, PlainStep, Live
  <1>4. NoLostExit'
    BY DEF TreeInv, NoLostExit, PlainStep, Children, ZombieChildren, Live
  <1> QED BY <1>1, <1>2, <1>3, <1>4 DEF TreeInv

\* Such a step ends no process and frees no zombie.
LEMMA PlainZombie ==
  ASSUME PlainStep, NEW q \in Slots, state[q] = "ZOMBIE"
  PROVE  state'[q] = "ZOMBIE"
  BY DEF PlainStep, Live

\* The tree after boot: init alone.
LEMMA InitTree == Init => TreeInv
  BY Consts, ProcAssumption DEF Init, TreeInv, FamilyInv, BirthInv, ProcessTree, NoLostExit, Live,
     Children, ZombieChildren
-----------------------------------------------------------------------------
\* fork()

\* What holds of p in a step of its own.
LEMMA Running ==
  ASSUME IInv, NEW c \in CPU, NEW p \in Slots, where[c] = "run", proc[c] = p
  PROVE  state[p] = "RUNNING"
  BY OnCpu

\* The tree is preserved: allocproc() claims a slot without a parent.
LEMMA ForkAllocTree ==
  ASSUME IInv, TreeInv, NEW c \in CPU, NEW p \in Slots, ForkAlloc(c, p)
  PROVE  TreeInv' /\ \A r \in Slots : state[r] = "ZOMBIE" => state'[r] = "ZOMBIE"
  <1>0. state[p] = "RUNNING" /\ pc[p] = "fork" /\ resume[p] = "none"
    BY Running DEF ForkAlloc, IInv, ResumeInv, ResumeOK, Handler
  <1>1. CASE pc' = [pc EXCEPT ![p] = "return"] /\ UNCHANGED <<state, pid, nextpid, child>>
    <2>1. PlainStep
      BY <1>0, <1>1 DEF ForkAlloc, PlainStep, Is, IInv, TypeOK
    <2> QED BY <2>1, PlainTree, PlainZombie
  <1>2. ASSUME NEW q \in Slots, IsFirst(q, UnusedSlots),
               state' = [state EXCEPT ![q] = "EMBRYO"],
               pid' = [pid EXCEPT ![q] = nextpid],
               nextpid' = nextpid + 1,
               child' = [child EXCEPT ![p] = q],
               pc' = [pc EXCEPT ![p] = "fork.copy"]
        PROVE  TreeInv' /\ \A r \in Slots : state[r] = "ZOMBIE" => state'[r] = "ZOMBIE"
    <2>0. state[q] = "UNUSED" /\ q # p
      BY <1>0, <1>2 DEF IsFirst, UnusedSlots
    <2>a. UNCHANGED <<parent, chan, killed, resume>>
      BY DEF ForkAlloc
    <2>b. state'[q] = "EMBRYO" /\ \A r \in Slots \ {q} : state'[r] = state[r]
      BY <1>2 DEF IInv, TypeOK
    <2>c. pid'[q] = nextpid /\ \A r \in Slots \ {q} : pid'[r] = pid[r]
      BY <1>2 DEF IInv, TypeOK
    <2>d. child'[p] = q /\ \A r \in Slots \ {p} : child'[r] = child[r]
      BY <1>2 DEF IInv, TypeOK
    <2>e. pc'[p] = "fork.copy" /\ \A r \in Slots \ {p} : pc'[r] = pc[r]
      BY <1>2 DEF IInv, TypeOK
    <2>t. nextpid \in Nat /\ pid \in [Slots -> Nat]
      BY DEF IInv, TypeOK
    <2>1. FamilyInv'
      BY <1>2, <2>0, <2>a, <2>b, <2>c, <2>t, Consts DEF TreeInv, FamilyInv, Live
    <2>2. BirthInv'
      <3> SUFFICES ASSUME NEW r \in Slots, child'[r] # NoProc
                   PROVE  /\ Is(r, "fork.copy")' \/ Is(r, "fork.ready")'
                          /\ pid'[r] < pid'[child'[r]]
                          /\ Is(r, "fork.copy")' => parent'[child'[r]] = NoProc
                          /\ Is(r, "fork.ready")' => parent'[child'[r]] = r
        BY DEF BirthInv
      <3>1. CASE r = p
        <4>1. pid[p] < nextpid /\ parent[q] = NoProc
          BY <1>0, <2>0 DEF TreeInv, FamilyInv
        <4>2. Is(p, "fork.copy")' /\ ~ Is(p, "fork.ready")'
          BY <1>0, <2>a, <2>e DEF Is
        <4> QED BY <3>1, <4>1, <4>2, <2>0, <2>a, <2>c, <2>d
      <3>2. CASE r # p
        <4>1. child'[r] = child[r] /\ child[r] \in Slots \ {q} /\ r # q
          BY <3>2, <2>0, <2>d, Breeding DEF Live
        <4>2. \A l \in {"fork.copy", "fork.ready"} : Is(r, l)' <=> Is(r, l)
          BY <3>2, <2>a, <2>e DEF Is
        <4> QED BY <4>1, <4>2, <2>a, <2>c DEF TreeInv, BirthInv
      <3> QED BY <3>1, <3>2
    <2>3. ProcessTree'
      BY <2>0, <2>a, <2>b, <2>c DEF TreeInv, ProcessTree
    <2>4. NoLostExit'
      BY <2>0, <2>a, <2>b DEF TreeInv, NoLostExit, Children, ZombieChildren
    <2> QED BY <2>0, <2>1, <2>2, <2>3, <2>4, <2>b DEF TreeInv
  <1> QED BY <1>1, <1>2 DEF ForkAlloc

\* The tree is preserved: a failed fork gives back a slot that has no parent yet.
LEMMA ForkFailTree ==
  ASSUME IInv, TreeInv, NEW c \in CPU, NEW p \in Slots, ForkFail(c, p)
  PROVE  TreeInv' /\ \A r \in Slots : state[r] = "ZOMBIE" => state'[r] = "ZOMBIE"
  <1> DEFINE np == child[p]
  <1>0. /\ state' = [state EXCEPT ![np] = "UNUSED"]
        /\ child' = [child EXCEPT ![p] = NoProc]
        /\ pc' = [pc EXCEPT ![p] = "return"]
        /\ UNCHANGED <<pid, parent, chan, killed, nextpid, resume>>
    BY DEF ForkFail
  <1>a. np \in Slots \ {p} /\ state[np] = "EMBRYO"
    BY InFork DEF ForkFail
  <1>b. parent[np] = NoProc
    BY <1>a, Consts DEF TreeInv, BirthInv, Is, ForkFail
  <1> HIDE DEF np
  <1>c. state'[np] = "UNUSED" /\ \A r \in Slots \ {np} : state'[r] = state[r]
    BY <1>0, <1>a DEF IInv, TypeOK
  <1>d. child'[p] = NoProc /\ \A r \in Slots \ {p} : child'[r] = child[r] /\ pc'[r] = pc[r]
    BY <1>0 DEF IInv, TypeOK
  <1>1. FamilyInv'
    BY <1>0, <1>a, <1>b, <1>c, Consts DEF TreeInv, FamilyInv, Live
  <1>2. BirthInv'
    BY <1>0, <1>d, Consts DEF TreeInv, BirthInv, Is
  <1>3. ProcessTree'
    BY <1>0, <1>a, <1>c DEF TreeInv, ProcessTree
  <1>4. NoLostExit'
    BY <1>0, <1>a, <1>c DEF TreeInv, NoLostExit, Children, ZombieChildren
  <1> QED BY <1>1, <1>2, <1>3, <1>4, <1>a, <1>c DEF TreeInv

\* The tree is preserved: the child gets its parent.
LEMMA ForkCopyTree ==
  ASSUME IInv, TreeInv, NEW c \in CPU, NEW p \in Slots, ForkCopy(c, p)
  PROVE  TreeInv' /\ \A r \in Slots : state[r] = "ZOMBIE" => state'[r] = "ZOMBIE"
  <1> DEFINE np == child[p]
  <1>0. /\ parent' = [parent EXCEPT ![np] = p]
        /\ pc' = [pc EXCEPT ![p] = "fork.ready", ![np] = "forkret"]
        /\ UNCHANGED <<state, pid, chan, killed, nextpid, resume, child>>
    BY DEF ForkCopy
  <1>a. /\ np \in Slots \ {p} /\ state[np] = "EMBRYO" /\ state[p] = "RUNNING"
        /\ resume[p] = "none" /\ resume[np] = "none"
        /\ \A q \in Slots : q # p => child[q] # np
    BY InFork DEF ForkCopy
  <1>b. parent[np] = NoProc /\ pid[p] < pid[np]
    BY <1>a, Consts DEF TreeInv, BirthInv, Is, ForkCopy
  <1>e. np = child[p] /\ child[np] = NoProc
    BY <1>a, Breeding DEF Live
  <1> HIDE DEF np
  <1>c. parent'[np] = p /\ \A r \in Slots \ {np} : parent'[r] = parent[r]
    BY <1>0, <1>a DEF IInv, TypeOK
  <1>d. pc'[p] = "fork.ready" /\ \A r \in Slots \ {p, np} : pc'[r] = pc[r]
    BY <1>0, <1>a DEF IInv, TypeOK
  <1>1. FamilyInv'
    BY <1>0, <1>a, <1>c, Consts DEF TreeInv, FamilyInv, Live
  <1>2. BirthInv'
    <2> SUFFICES ASSUME NEW r \in Slots, child[r] # NoProc
                 PROVE  /\ Is(r, "fork.copy")' \/ Is(r, "fork.ready")'
                        /\ pid[r] < pid[child[r]]
                        /\ Is(r, "fork.copy")' => parent'[child[r]] = NoProc
                        /\ Is(r, "fork.ready")' => parent'[child[r]] = r
      BY <1>0 DEF BirthInv
    <2>1. CASE r = p
      BY <2>1, <1>0, <1>a, <1>b, <1>c, <1>d, <1>e DEF Is
    <2>2. CASE r # p
      <3>1. r # np /\ child[r] \in Slots \ {np}
        BY <2>2, <1>a, <1>e, Breeding
      <3>2. \A l \in {"fork.copy", "fork.ready"} : Is(r, l)' <=> Is(r, l)
        BY <2>2, <3>1, <1>0, <1>d, Zenon DEF Is
      <3> QED BY <3>1, <3>2, <1>c DEF TreeInv, BirthInv
    <2> QED BY <2>1, <2>2
  <1>3. ProcessTree'
    BY <1>0, <1>a, <1>c DEF TreeInv, ProcessTree
  <1>4. NoLostExit'
    <2> SUFFICES ASSUME NEW r \in Slots, state[r] = "SLEEPING", chan[r] = r
                 PROVE  Children(r)' # {} /\ ZombieChildren(r)' = {} /\ ~ killed[r]
      BY <1>0 DEF NoLostExit
    <2>1. Children(r) # {} /\ ZombieChildren(r) = {} /\ ~ killed[r]
      BY DEF TreeInv, NoLostExit
    <2>2. Children(r)' = Children(r)
      BY <1>a, <1>b, <1>c, Consts DEF Children
    <2> QED BY <2>1, <2>2, <1>0 DEF ZombieChildren
  <1> QED BY <1>1, <1>2, <1>3, <1>4, <1>0 DEF TreeInv

\* The tree is preserved: the child becomes RUNNABLE with a living, older parent.
LEMMA ForkReadyTree ==
  ASSUME IInv, TreeInv, NEW c \in CPU, NEW p \in Slots, ForkReady(c, p)
  PROVE  TreeInv' /\ \A r \in Slots : state[r] = "ZOMBIE" => state'[r] = "ZOMBIE"
  <1> DEFINE np == child[p]
  <1>0. /\ state' = [state EXCEPT ![np] = "RUNNABLE"]
        /\ child' = [child EXCEPT ![p] = NoProc]
        /\ pc' = [pc EXCEPT ![p] = "return"]
        /\ UNCHANGED <<pid, parent, chan, killed, nextpid, resume>>
    BY DEF ForkReady
  <1>a. np \in Slots \ {p} /\ state[np] = "EMBRYO" /\ state[p] = "RUNNING"
    BY InFork DEF ForkReady
  <1>b. parent[np] = p /\ pid[p] < pid[np]
    BY <1>a, Consts DEF TreeInv, BirthInv, Is, ForkReady
  <1> HIDE DEF np
  <1>c. state'[np] = "RUNNABLE" /\ \A r \in Slots \ {np} : state'[r] = state[r]
    BY <1>0, <1>a DEF IInv, TypeOK
  <1>d. child'[p] = NoProc /\ \A r \in Slots \ {p} : child'[r] = child[r] /\ pc'[r] = pc[r]
    BY <1>0 DEF IInv, TypeOK
  <1>1. FamilyInv'
    BY <1>0, <1>a, <1>c, Consts DEF TreeInv, FamilyInv, Live
  <1>2. BirthInv'
    BY <1>0, <1>d, Consts DEF TreeInv, BirthInv, Is
  <1>3. ProcessTree'
    BY <1>0, <1>a, <1>b, <1>c DEF TreeInv, ProcessTree
  <1>4. NoLostExit'
    BY <1>0, <1>a, <1>c DEF TreeInv, NoLostExit, Children, ZombieChildren
  <1> QED BY <1>1, <1>2, <1>3, <1>4, <1>a, <1>c DEF TreeInv
-----------------------------------------------------------------------------
\* exit(), wait()

\* The tree is preserved: exit() hands the children on to init, wakes the parent,
\* and wakes init when it hands it a zombie.
LEMMA ExitTree ==
  ASSUME IInv, TreeInv, NEW c \in CPU, NEW p \in Slots, Exit(c, p)
  PROVE  TreeInv' /\ \A r \in Slots : state[r] = "ZOMBIE" => state'[r] = "ZOMBIE"
  <1>0. /\ state' = ExitStates(p) /\ parent' = Reparent(p)
        /\ p # initproc /\ pc[p] = "exit"
        /\ UNCHANGED <<pid, chan, killed, nextpid, child>>
    BY DEF Exit
  <1>a. state[p] = "RUNNING" /\ resume[p] \in {"none", "user"}
    BY Running DEF Exit, IInv, ResumeInv, ResumeOK, Handler
  <1>b. child[p] = NoProc
    BY <1>0, Breeding
  <1>c. /\ state'[p] = "ZOMBIE"
        /\ \A r \in Slots \ {p} :
             state'[r] = IF /\ state[r] = "SLEEPING"
                            /\ chan[r] = parent[p] \/ (ZombieChildren(p) # {} /\ chan[r] = initproc)
                         THEN "RUNNABLE" ELSE state[r]
    BY <1>0 DEF ExitStates
  <1>d. \A r \in Slots : parent'[r] = IF parent[r] = p THEN initproc ELSE parent[r]
    BY <1>0 DEF Reparent
  <1>e. \A r \in Slots \ {p} : pc'[r] = pc[r] /\ resume'[r] = resume[r]
    BY DEF Exit, Sched, IInv, TypeOK
  <1>f. parent[p] \in Slots \ {p} /\ state[parent[p]] \in Live
    BY <1>0, <1>a, SMTT(30) DEF IInv, TypeOK, TreeInv, ProcessTree, Live
  <1>1. FamilyInv'
    BY <1>0, <1>a, <1>c, <1>d, Consts DEF TreeInv, FamilyInv, Live
  <1>2. BirthInv'
    <2> SUFFICES ASSUME NEW r \in Slots, child[r] # NoProc
                 PROVE  /\ Is(r, "fork.copy")' \/ Is(r, "fork.ready")'
                        /\ pid[r] < pid[child[r]]
                        /\ Is(r, "fork.copy")' => parent'[child[r]] = NoProc
                        /\ Is(r, "fork.ready")' => parent'[child[r]] = r
      BY <1>0 DEF BirthInv
    <2>1. r # p /\ child[r] \in Slots
      BY <1>b, Breeding
    <2>2. \A l \in {"fork.copy", "fork.ready"} : Is(r, l)' <=> Is(r, l)
      BY <2>1, <1>e DEF Is
    <2>3. Is(r, "fork.copy") => parent'[child[r]] = NoProc
      BY <2>1, <1>d, Consts DEF TreeInv, BirthInv
    <2>4. Is(r, "fork.ready") => parent'[child[r]] = r
      BY <2>1, <1>d DEF TreeInv, BirthInv
    <2> QED BY <2>2, <2>3, <2>4, SMTT(30) DEF TreeInv, BirthInv
  <1>3. ProcessTree'
    <2> SUFFICES ASSUME NEW q \in Slots \ {initproc}, state'[q] \notin {"UNUSED", "EMBRYO"}
                 PROVE  /\ parent'[q] \in Slots /\ state'[parent'[q]] \in Live
                        /\ pid[parent'[q]] < pid[q]
      BY <1>0 DEF ProcessTree, Live
    <2>1. state[q] \notin {"UNUSED", "EMBRYO"}
      BY <1>a, <1>c
    <2>2. CASE parent[q] = p
      <3>1. pid[initproc] < pid[q] /\ state[initproc] \in Live
        BY <2>1 DEF TreeInv, FamilyInv
      <3>2. parent'[q] = initproc /\ state'[initproc] \in Live
        BY <2>2, <3>1, <1>0, <1>c, <1>d, Consts DEF Live
      <3> QED BY <3>1, <3>2, Consts
    <2>3. CASE parent[q] # p
      <3>1. parent[q] \in Slots /\ state[parent[q]] \in Live /\ pid[parent[q]] < pid[q]
        BY <2>1 DEF TreeInv, ProcessTree, Live
      <3> QED BY <2>3, <3>1, <1>c, <1>d DEF Live
    <2> QED BY <2>2, <2>3
  <1>4. NoLostExit'
    <2> SUFFICES ASSUME NEW r \in Slots, state'[r] = "SLEEPING", chan[r] = r
                 PROVE  Children(r)' # {} /\ ZombieChildren(r)' = {} /\ ~ killed[r]
      BY <1>0 DEF NoLostExit
    <2>1. /\ r # p /\ state[r] = "SLEEPING" /\ r # parent[p]
          /\ r = initproc => ZombieChildren(p) = {}
      BY <1>c
    <2>2. Children(r) # {} /\ ZombieChildren(r) = {} /\ ~ killed[r]
      BY <2>1 DEF TreeInv, NoLostExit
    <2>3. Children(r)' # {}
      BY <2>1, <2>2, <1>d DEF Children
    <2>4. ASSUME NEW q \in Slots, parent'[q] = r, state'[q] = "ZOMBIE" PROVE FALSE
      <3>1. q # p
        BY <2>1, <2>4, <1>d, <1>f
      <3>2. state[q] = "ZOMBIE"
        BY <2>4, <3>1, <1>c
      <3>3. CASE parent[q] = p
        BY <2>1, <2>4, <3>2, <3>3, <1>d DEF ZombieChildren, Children
      <3>4. CASE parent[q] # p
        BY <2>2, <2>4, <3>2, <3>4, <1>d DEF ZombieChildren, Children
      <3> QED BY <3>3, <3>4
    <2> QED BY <2>2, <2>3, <2>4 DEF ZombieChildren, Children
  <1> QED BY <1>1, <1>2, <1>3, <1>4, <1>c DEF TreeInv
-----------------------------------------------------------------------------
\* wait()

\* Process p, on CPU c, frees zombie q, its child, which no CPU is executing.
FreedBy(c, p, q) ==
  /\ state'[q] = "UNUSED"
  /\ where[c] = "run" /\ proc[c] = p /\ parent[q] = p
  /\ \A d \in CPU : proc[d] # q

\* The tree is preserved when wait() sleeps: it has seen a child, no zombie among
\* its children, and that it has not been killed.
LEMMA WaitSleepTree ==
  ASSUME IInv, TreeInv, NEW p \in Slots,
         state[p] = "RUNNING", child[p] = NoProc,
         ZombieChildren(p) = {}, Children(p) # {}, ~ killed[p],
         chan' = [chan EXCEPT ![p] = p],
         state' = [state EXCEPT ![p] = "SLEEPING"],
         pc' = [pc EXCEPT ![p] = "wait.resume"],
         UNCHANGED <<pid, parent, killed, nextpid, child, resume>>
  PROVE  TreeInv'
  <1>1. /\ state'[p] = "SLEEPING"
        /\ \A r \in Slots \ {p} : state'[r] = state[r] /\ pc'[r] = pc[r] /\ chan'[r] = chan[r]
    BY DEF IInv, TypeOK
  <1>2. FamilyInv'
    BY <1>1, Consts DEF TreeInv, FamilyInv, Live
  <1>3. BirthInv'
    BY <1>1 DEF TreeInv, BirthInv, Is
  <1>4. ProcessTree'
    BY <1>1 DEF TreeInv, ProcessTree
  <1>5. NoLostExit'
    <2> SUFFICES ASSUME NEW r \in Slots, state'[r] = "SLEEPING", chan'[r] = r
                 PROVE  Children(r)' # {} /\ ZombieChildren(r)' = {} /\ ~ killed[r]
      BY DEF NoLostExit
    <2>1. Children(r) # {} /\ ZombieChildren(r) = {} /\ ~ killed[r]
      BY <1>1 DEF TreeInv, NoLostExit
    <2>2. Children(r)' = Children(r)
      BY DEF Children
    <2>3. ZombieChildren(r)' = {}
      BY <2>1, <2>2, <1>1, SMTT(30) DEF ZombieChildren, Children
    <2> QED BY <2>1, <2>2, <2>3
  <1> QED BY <1>2, <1>3, <1>4, <1>5 DEF TreeInv

\* The tree is preserved by one round of wait()'s loop; the zombie it may free is
\* a child whose CPU has left its stack.
LEMMA WaitRoundTree ==
  ASSUME IInv, TreeInv, NEW c \in CPU, NEW p \in Slots,
         where[c] = "run", proc[c] = p,
         \/ pc[p] = "wait" /\ lock = NoCpu
         \/ pc[p] = "wait.resume" /\ lock = c,
         WaitRound(c, p),
         UNCHANGED <<nextpid, clock, proc, pos, resume, child, until>>
  PROVE  /\ TreeInv'
         /\ \A r \in Slots : state[r] = "ZOMBIE" /\ state'[r] # "ZOMBIE" => FreedBy(c, p, r)
  <1>0. state[p] = "RUNNING" /\ resume[p] = "none" /\ child[p] = NoProc
    BY Running, Breeding DEF IInv, ResumeInv, ResumeOK, Handler
  <1>a. ASSUME NEW q \in Slots, Reap(p, q),
               chan' = [chan EXCEPT ![p] = 0],
               pc' = [pc EXCEPT ![p] = "return"],
               lock' = NoCpu, UNCHANGED where
        PROVE  /\ TreeInv'
               /\ \A r \in Slots : state[r] = "ZOMBIE" /\ state'[r] # "ZOMBIE" => FreedBy(c, p, r)
    <2>0. state[q] = "ZOMBIE" /\ parent[q] = p
      BY <1>a DEF Reap, IsFirst, ZombieChildren, Children
    <2>1. /\ state'[q] = "UNUSED" /\ pid'[q] = 0 /\ parent'[q] = NoProc
          /\ \A r \in Slots \ {q} : /\ state'[r] = state[r] /\ pid'[r] = pid[r]
                                    /\ parent'[r] = parent[r] /\ killed'[r] = killed[r]
      BY <1>a DEF Reap, IInv, TypeOK
    <2>2. \A r \in Slots \ {p} : pc'[r] = pc[r] /\ chan'[r] = chan[r]
      BY <1>a, ZenonT(30) DEF IInv, TypeOK
    <2>3. FamilyInv'
      BY <2>0, <2>1, Consts, Zenon DEF TreeInv, FamilyInv, Live
    <2>4. BirthInv'
      <3> SUFFICES ASSUME NEW r \in Slots, child[r] # NoProc
                   PROVE  /\ Is(r, "fork.copy")' \/ Is(r, "fork.ready")'
                          /\ pid'[r] < pid'[child[r]]
                          /\ Is(r, "fork.copy")' => parent'[child[r]] = NoProc
                          /\ Is(r, "fork.ready")' => parent'[child[r]] = r
        BY DEF BirthInv
      <3>1. r \notin {p, q} /\ child[r] \in Slots \ {q}
        BY <1>0, <2>0, Breeding DEF Live
      <3>2. \A l \in {"fork.copy", "fork.ready"} : Is(r, l)' <=> Is(r, l)
        BY <3>1, <2>2 DEF Is
      <3> QED BY <3>1, <3>2, <2>1 DEF TreeInv, BirthInv
    <2>5. ProcessTree'
      BY <2>0, <2>1 DEF TreeInv, ProcessTree
    <2>6. NoLostExit'
      <3> SUFFICES ASSUME NEW r \in Slots, state'[r] = "SLEEPING", chan'[r] = r
                   PROVE  Children(r)' # {} /\ ZombieChildren(r)' = {} /\ ~ killed'[r]
        BY DEF NoLostExit
      <3>1. r \notin {p, q} /\ state[r] = "SLEEPING"
        BY <1>0, <2>0, <2>1
      <3>2. Children(r) # {} /\ ZombieChildren(r) = {} /\ ~ killed[r] /\ killed'[r] = killed[r]
        BY <3>1, <2>1, <2>2 DEF TreeInv, NoLostExit
      <3>3. Children(r)' = Children(r)
        BY <3>1, <2>0, <2>1, Consts, SMTT(30) DEF Children
      <3>4. ZombieChildren(r)' = {}
        BY <3>2, <3>3, <2>0, <2>1 DEF ZombieChildren, Children
      <3> QED BY <3>2, <3>3, <3>4
    <2>7. \A d \in CPU : proc[d] # q
      <3> SUFFICES ASSUME NEW d \in CPU, proc[d] = q PROVE FALSE
        OBVIOUS
      <3>1. where[d] \in {"run", "back"}
        BY Consts DEF IInv, CpuInv
      <3>2. where[d] # "run"
        BY <2>0 DEF IInv, RunsOnOneCpu
      <3>3. lock = d
        BY <3>1, <3>2 DEF IInv, LockHandover, HoldsPtable
      <3> QED BY <3>1, <3>2, <3>3, Consts
    <2>8. \A r \in Slots : state[r] = "ZOMBIE" /\ state'[r] # "ZOMBIE" => FreedBy(c, p, r)
      BY <2>0, <2>1, <2>7 DEF FreedBy
    <2> QED BY <2>3, <2>4, <2>5, <2>6, <2>8 DEF TreeInv
  <1>b. CASE /\ chan' = [chan EXCEPT ![p] = 0]
             /\ pc' = [pc EXCEPT ![p] = "return"]
             /\ UNCHANGED <<state, pid, parent, killed, where>>
    <2>1. PlainStep
      BY <1>0, <1>b DEF PlainStep, Is, IInv, TypeOK
    <2> QED BY <2>1, PlainTree, PlainZombie
  <1>c. CASE /\ ZombieChildren(p) = {} /\ Children(p) # {} /\ ~ killed[p]
             /\ chan' = [chan EXCEPT ![p] = p]
             /\ state' = [state EXCEPT ![p] = "SLEEPING"]
             /\ Sched(c, p, "wait.resume")
             /\ UNCHANGED <<pid, parent, killed>>
    <2>1. pc' = [pc EXCEPT ![p] = "wait.resume"]
      BY <1>c DEF Sched
    <2>2. \A r \in Slots : state[r] = "ZOMBIE" => state'[r] = "ZOMBIE"
      BY <1>0, <1>c, ZenonT(30) DEF IInv, TypeOK
    <2> QED BY <1>0, <1>c, <2>1, <2>2, WaitSleepTree, Zenon
  <1> QED BY <1>a, <1>b, <1>c, Zenon DEF WaitRound

\* The tree is preserved by wait(), entered or resumed.
LEMMA WaitTree ==
  ASSUME IInv, TreeInv, NEW c \in CPU, NEW p \in Slots, Wait(c, p) \/ WaitResume(c, p)
  PROVE  /\ TreeInv'
         /\ \A r \in Slots : state[r] = "ZOMBIE" /\ state'[r] # "ZOMBIE" => FreedBy(c, p, r)
  <1>1. WaitResume(c, p) => lock = c
    BY OnCpu, Zenon DEF WaitResume, Handover
  <1> QED BY <1>1, WaitRoundTree, ZenonT(30) DEF Wait, WaitResume
-----------------------------------------------------------------------------
\* Every other step

\* The steps of the scheduler thread and of the idle interrupt handler leave the
\* tree alone.
LEMMA SchedulerPlain ==
  ASSUME IInv, NEW c \in CPU, SchedulerStep(c) \/ TimerIdle(c)
  PROVE  PlainStep
  <1>1. CASE SchedAcquire(c) \/ SchedRelease(c) \/ SchedBack(c) \/ IdleTick(c) \/ TimerIdle(c)
    BY <1>1 DEF SchedAcquire, SchedRelease, SchedBack, IdleTick, TimerIdle, PlainStep, Is
  <1>2. ASSUME NEW p \in Slots, SchedPick(c, p) PROVE PlainStep
    BY <1>2, SMTT(30) DEF SchedPick, PlainStep, Is, Live, IInv, TypeOK
  <1>3. CASE IdleWakeup(c)
    BY <1>3, Zenon DEF IdleWakeup, TickWakeup, Wakeup1, PlainStep, Is, Live
  <1> QED BY <1>1, <1>2, <1>3 DEF SchedulerStep

\* kill() makes a sleeper RUNNABLE, so that it does not sleep on, killed.
LEMMA KillPlain ==
  ASSUME IInv, NEW c \in CPU, NEW p \in Slots, Kill(c, p)
  PROVE  PlainStep
  <1>1. PICK q \in Slots :
          \/ UNCHANGED <<state, killed>>
          \/ /\ killed' = [killed EXCEPT ![q] = TRUE]
             /\ state' = [state EXCEPT ![q] =
                            IF state[q] = "SLEEPING" THEN "RUNNABLE" ELSE state[q]]
    BY Zenon DEF Kill
  <1>2. /\ \A r \in Slots : state'[r] = state[r] \/ (state[r] \in Live /\ state'[r] \in Live)
        /\ \A r \in Slots : state'[r] = "SLEEPING" =>
             state[r] = "SLEEPING" /\ killed'[r] = killed[r]
    <2>1. CASE UNCHANGED <<state, killed>> BY <2>1
    <2>2. CASE /\ killed' = [killed EXCEPT ![q] = TRUE]
               /\ state' = [state EXCEPT ![q] =
                              IF state[q] = "SLEEPING" THEN "RUNNABLE" ELSE state[q]]
      BY <2>2, ZenonT(30) DEF Live, IInv, TypeOK
    <2> QED BY <1>1, <2>1, <2>2
  <1>3. pc[p] = "kill" /\ resume[p] = "none" /\ pc' = [pc EXCEPT ![p] = "return"]
    BY DEF Kill, IInv, ResumeInv, ResumeOK, Handler
  <1> QED BY <1>2, <1>3 DEF Kill, PlainStep, Is, IInv, TypeOK

\* A running process that goes elsewhere, is interrupted, or returns from an
\* interrupt leaves the tree alone, unless it enters or leaves fork().
LEMMA LocalPlain ==
  ASSUME IInv, NEW p \in Slots, NEW l, NEW r,
         pc' = [pc EXCEPT ![p] = l], resume' = [resume EXCEPT ![p] = r],
         \A k \in {"fork.copy", "fork.ready"} : Is(p, k) <=> l = k \/ r = k,
         UNCHANGED <<state, chan, pid, parent, nextpid, child>>,
         \A q \in Slots : state[q] = "SLEEPING" => killed'[q] = killed[q]
  PROVE  PlainStep
  <1>1. /\ pc'[p] = l /\ resume'[p] = r
        /\ \A q \in Slots \ {p} : pc'[q] = pc[q] /\ resume'[q] = resume[q]
    BY DEF IInv, TypeOK
  <1>2. \A q \in Slots : \A k \in {"fork.copy", "fork.ready"} : Is(q, k)' <=> Is(q, k)
    BY <1>1, Zenon DEF Is
  <1> QED BY <1>2, Zenon DEF PlainStep

\* The other steps of a process leave the tree alone.
LEMMA OtherPlain ==
  ASSUME IInv, NEW c \in CPU, NEW p \in Slots,
         \/ Syscall(c, p) \/ Fault(c, p) \/ SyscallReturn(c, p) \/ Forkret(c, p)
         \/ ExitInit(c, p) \/ Yield(c, p) \/ YieldResume(c, p)
         \/ SysSleep(c, p) \/ Sleep(c, p) \/ SleepResume(c, p) \/ SleepRelock(c, p)
         \/ Timer(c, p) \/ Tick(c, p) \/ Wakeup(c, p) \/ Tail(c, p) \/ Iret(c, p)
  PROVE  PlainStep
  <1>0. where[c] = "run" /\ proc[c] = p
    BY ZenonT(30) DEF Syscall, Fault, SyscallReturn, Forkret, ExitInit, Yield, YieldResume, SysSleep, Sleep,
       SleepResume, SleepRelock, Timer, Tick, Wakeup, Tail, Iret
  <1>1. state[p] = "RUNNING" /\ ResumeOK(pc[p], resume[p])
    BY <1>0, Running, ZenonT(30) DEF IInv, ResumeInv
  <1>a. /\ state \in [Slots -> ProcState] /\ chan \in [Slots -> Slots \cup {0, tickschan}]
        /\ pc \in [Slots -> Labels] /\ resume \in [Slots -> Labels \cup {"none"}]
        /\ killed \in [Slots -> BOOLEAN]
    BY DEF IInv, TypeOK
  <1> USE <1>1, <1>a DEF PlainStep, Is, ResumeOK, Handler
  <1>2. CASE Syscall(c, p)
    <2>1. PICK s \in Program[p] \ {"fault"} : pc' = [pc EXCEPT ![p] = IF killed[p] THEN "exit" ELSE s]
      BY <1>2, Zenon DEF Syscall
    <2>2. s \in {"fork", "exit", "wait", "kill", "sleep", "yield"}
      BY ProcAssumption DEF Calls
    <2> QED BY <1>2, <2>1, <2>2, ZenonT(60) DEF Syscall
  <1>3. CASE Fault(c, p)
    <2>1. /\ pc[p] = "user" /\ resume[p] = "none"
          /\ pc' = [pc EXCEPT ![p] = "exit"] /\ resume' = [resume EXCEPT ![p] = "user"]
      BY <1>3, ZenonT(30) DEF Fault
    <2>2. UNCHANGED <<state, chan, pid, parent, nextpid, child>>
      BY <1>3, Zenon DEF Fault
    <2>3. \A q \in Slots : state[q] = "SLEEPING" => killed'[q] = killed[q]
      BY <1>3, Zenon DEF Fault
    <2> QED BY <2>1, <2>2, <2>3, LocalPlain, ZenonT(30) DEF Is
  <1>4. CASE SyscallReturn(c, p) \/ Forkret(c, p) \/ ExitInit(c, p)
    BY <1>4, Zenon DEF SyscallReturn, Forkret, ExitInit
  <1>5. CASE Yield(c, p)
    BY <1>5 DEF Yield, Sched, Live
  <1>6. CASE YieldResume(c, p)
    BY <1>6, Zenon DEF YieldResume
  <1>7. CASE SysSleep(c, p)
    <2>1. PICK l \in {"sleep.lock", "return"} : pc' = [pc EXCEPT ![p] = l]
      BY <1>7, Zenon DEF SysSleep, SleepTest
    <2> QED BY <1>7, <2>1, Zenon DEF SysSleep
  <1>8. CASE Sleep(c, p)
    BY <1>8, Consts, ZenonT(60) DEF Sleep, Sched, Live
  <1>9. CASE SleepResume(c, p)
    BY <1>9, Zenon DEF SleepResume
  <1>10. CASE SleepRelock(c, p)
    <2>1. PICK l \in {"sleep.lock", "return"} : pc' = [pc EXCEPT ![p] = l]
      BY <1>10 DEF SleepRelock, SleepTest
    <2> QED BY <1>10, <2>1, Zenon DEF SleepRelock
  <1>11. CASE Timer(c, p)
    BY <1>11 DEF Timer, InterruptsOn
  <1>12. CASE Tick(c, p)
    BY <1>12, Zenon DEF Tick
  <1>13. CASE Wakeup(c, p)
    BY <1>13, Zenon DEF Wakeup, TickWakeup, Wakeup1, Live
  <1>14. CASE Tail(c, p)
    BY <1>14, ZenonT(30) DEF Tail
  <1>15. CASE Iret(c, p)
    <2>1. pc[p] = "iret" /\ UNCHANGED <<table, nextpid, child>>
      BY <1>15, Zenon DEF Iret
    <2>2. PICK l \in Labels, r \in {"none", "user"} :
            /\ pc' = [pc EXCEPT ![p] = l] /\ resume' = [resume EXCEPT ![p] = r]
            /\ \/ l = "exit" /\ r = "user" /\ resume[p] = "user"
               \/ l = resume[p] /\ r = "none"
      <3>1. CASE killed[p] /\ resume[p] = "user"
        <4>1. pc' = [pc EXCEPT ![p] = "exit"] /\ resume' = resume
          BY <1>15, <3>1, Zenon DEF Iret
        <4>2. resume' = [resume EXCEPT ![p] = "user"]
          BY <3>1, <4>1
        <4> QED BY <3>1, <4>1, <4>2 DEF Labels
      <3>2. CASE ~ (killed[p] /\ resume[p] = "user")
        <4>1. pc' = [pc EXCEPT ![p] = resume[p]] /\ resume' = [resume EXCEPT ![p] = "none"]
          BY <1>15, <3>2, Zenon DEF Iret
        <4>2. resume[p] \in Labels
          BY <2>1
        <4> QED BY <4>1, <4>2, ZenonT(30)
      <3> QED BY <3>1, <3>2
    <2>3. \A k \in {"fork.copy", "fork.ready"} : Is(p, k) <=> l = k \/ r = k
      BY <2>1, <2>2, SMTT(30)
    <2> QED BY <2>1, <2>2, <2>3, LocalPlain
  <1> QED BY <1>2, <1>3, <1>4, <1>5, <1>6, <1>7, <1>8, <1>9, <1>10, <1>11, <1>12, <1>13, <1>14, <1>15, Zenon

\* Every step of the kernel preserves the tree, and frees a zombie only in its
\* parent's wait().
LEMMA TreeStep ==
  ASSUME IInv, TreeInv, [Next]_vars
  PROVE  /\ TreeInv'
         /\ \A q \in Slots : state[q] = "ZOMBIE" /\ state'[q] # "ZOMBIE" =>
              \E c \in CPU : FreedBy(c, parent[q], q)
  <1>1. CASE UNCHANGED vars
    <2>1. PlainStep
      BY <1>1, ZenonT(30) DEF vars, PlainStep, Is
    <2> QED BY <2>1, PlainTree, PlainZombie, Zenon
  <1>2. ASSUME NEW c \in CPU, CpuStep(c)
        PROVE  /\ TreeInv'
               /\ \A q \in Slots : state[q] = "ZOMBIE" /\ state'[q] # "ZOMBIE" =>
                    FreedBy(c, parent[q], q)
    <2>1. CASE SchedulerStep(c) \/ TimerIdle(c)
      BY <2>1, SchedulerPlain, PlainTree, PlainZombie, Zenon
    <2>2. ASSUME NEW p \in Slots, Timer(c, p) \/ KernelStep(c, p) \/ UserStep(c, p)
          PROVE  /\ TreeInv'
                 /\ \A q \in Slots : state[q] = "ZOMBIE" /\ state'[q] # "ZOMBIE" =>
                      FreedBy(c, parent[q], q)
      <3>1. CASE Wait(c, p) \/ WaitResume(c, p)
        BY <3>1, WaitTree DEF FreedBy
      <3>2. CASE \/ ForkAlloc(c, p) \/ ForkFail(c, p) \/ ForkCopy(c, p) \/ ForkReady(c, p)
                 \/ Exit(c, p)
        BY <3>2, ForkAllocTree, ForkFailTree, ForkCopyTree, ForkReadyTree, ExitTree
      <3>3. CASE Kill(c, p)
        BY <3>3, KillPlain, PlainTree, PlainZombie, Zenon
      <3>4. CASE \/ Syscall(c, p) \/ Fault(c, p) \/ SyscallReturn(c, p) \/ Forkret(c, p)
                 \/ ExitInit(c, p) \/ Yield(c, p) \/ YieldResume(c, p)
                 \/ SysSleep(c, p) \/ Sleep(c, p) \/ SleepResume(c, p) \/ SleepRelock(c, p)
                 \/ Timer(c, p) \/ Tick(c, p) \/ Wakeup(c, p) \/ Tail(c, p) \/ Iret(c, p)
        BY <3>4, OtherPlain, PlainTree, PlainZombie, Zenon
      <3> QED BY <2>2, <3>1, <3>2, <3>3, <3>4, Zenon DEF KernelStep, UserStep
    <2> QED BY <1>2, <2>1, <2>2, Zenon DEF CpuStep, Interrupt
  <1> QED BY <1>1, <1>2, Zenon DEF Next, Halted

\* The tree invariant holds in every reachable state.
THEOREM TreeInvariance == Spec => []TreeInv
  <1>1. IInv /\ TreeInv /\ [Next]_vars => TreeInv'
    BY TreeStep
  <1> QED BY <1>1, InitTree, Invariance, PTL DEF Spec

\* Every process but init has a parent in use that is older than it and not a
\* zombie: exit() hands its children on before it becomes one.
THEOREM TreeKept == Spec => []ProcessTree
  <1>1. TreeInv => ProcessTree BY DEF TreeInv
  <1> QED BY <1>1, TreeInvariance, PTL

\* A process sleeps in wait() only while it has children, none of them a zombie,
\* and has not been killed: no exit, inherited zombie or kill is missed.
THEOREM ExitsSeen == Spec => []NoLostExit
  <1>1. TreeInv => NoLostExit BY DEF TreeInv
  <1> QED BY <1>1, TreeInvariance, PTL

\* A zombie's slot is freed only by its parent, in wait(), once every CPU has
\* left the zombie's kernel stack.
THEOREM ParentReaps == Spec => ReapedByParent
  <1>1. ASSUME IInv, TreeInv, [Next]_vars
        PROVE  [\A q \in Slots :
                  state[q] = "ZOMBIE" /\ state'[q] # "ZOMBIE" =>
                    /\ state'[q] = "UNUSED"
                    /\ \E c \in CPU : where[c] = "run" /\ proc[c] = parent[q]
                    /\ \A c \in CPU : proc[c] # q]_vars
    BY <1>1, TreeStep DEF FreedBy
  <1> QED BY <1>1, TreeInvariance, Invariance, PTL DEF Spec, ReapedByParent
=============================================================================
