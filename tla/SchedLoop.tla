----------------------------- MODULE SchedLoop ------------------------------
(***************************************************************************)
(* The two nested loops of scheduler() that choose a process, one          *)
(* iteration per step, over a table that ptable.lock keeps from changing.  *)
(* Both loops use the variable p; highest_priority_p outlives a turn.      *)
(***************************************************************************)
EXTENDS SchedRule

CONSTANTS NPROC,
          Priorities  \* priorities in the table

ASSUME LoopAssumption == NPROC \in Nat \ {0} /\ Priorities \subseteq Int

Slots == 1..NPROC

VARIABLES
  runnable, priority, \* the RUNNABLE slots, and the priorities
  start,              \* slot the outer loop goes on from
  p,                  \* the loop variable; NPROC + 1 is the end of the table
  highest,            \* highest_priority_p; 0 is the null pointer
  pc

table == <<runnable, priority, start>>
vars == <<table, p, highest, pc>>

Init ==
  /\ runnable \in SUBSET Slots
  /\ priority \in [Slots -> Priorities]
  /\ start \in 1..NPROC + 1
  /\ p = start
  /\ highest \in Slots \cup {0}
  /\ pc = "outer"
-----------------------------------------------------------------------------
\* p < &ptable.proc[NPROC]
InTable(i) == i <= NPROC

\* Mutant: continue without p++.
OuterStuck ==
  /\ pc = "outer" /\ InTable(p) /\ p \notin runnable
  /\ UNCHANGED vars

\* The outer loop passes a slot that is not RUNNABLE.
OuterSkip ==
  /\ pc = "outer" /\ InTable(p) /\ p \notin runnable
  /\ p' = p + 1
  /\ UNCHANGED <<table, highest, pc>>

\* It has found one, and the inner loop starts at the first slot.
OuterFound ==
  /\ pc = "outer" /\ InTable(p) /\ p \in runnable
  /\ highest' = p
  /\ p' = 1
  /\ pc' = "inner"
  /\ UNCHANGED table

\* It has found none: scheduler() gives the lock up.
OuterEnd ==
  /\ pc = "outer" /\ ~ InTable(p)
  /\ pc' = "release"
  /\ UNCHANGED <<table, p, highest>>

\* Mutant: the test is not strict.
PrefersLast(q, h) == priority[q] >= priority[h]

Prefers(q, h) == priority[q] > priority[h]

InnerStep ==
  /\ pc = "inner" /\ InTable(p)
  /\ highest' = IF p \in runnable /\ Prefers(p, highest) THEN p ELSE highest
  /\ p' = p + 1
  /\ UNCHANGED <<table, pc>>

\* The null test after the inner loop, and p = highest_priority_p.
InnerEnd ==
  /\ pc = "inner" /\ ~ InTable(p)
  /\ IF highest = 0 THEN pc' = "release" /\ UNCHANGED p
     ELSE pc' = "dispatch" /\ p' = highest
  /\ UNCHANGED <<table, highest>>

Done == pc \in {"dispatch", "release"} /\ UNCHANGED vars

Next == OuterSkip \/ OuterFound \/ OuterEnd \/ InnerStep \/ InnerEnd \/ Done

Spec == Init /\ [][Next]_vars

FairSpec == Spec /\ WF_vars(Next)
-----------------------------------------------------------------------------
\* Properties

\* p and highest_priority_p stay in the table, or one past its end.
TypeOK ==
  /\ runnable \subseteq Slots
  /\ priority \in [Slots -> Priorities]
  /\ start \in 1..NPROC + 1
  /\ p \in 1..NPROC + 1
  /\ highest \in Slots \cup {0}
  /\ pc \in {"outer", "inner", "dispatch", "release"}

\* The process the loops dispatch is the one the rule names: the first RUNNABLE
\* one from where the scan stands if none has higher priority, else the first
\* of the highest priority.
LoopsChoose == pc = "dispatch" => Chosen(runnable, priority, start, p)

\* The lock is given up only when no slot from where the scan stood is
\* RUNNABLE; the null test after the inner loop never succeeds, in spite of
\* the value highest_priority_p has from an earlier turn.
ReleasedWhenNone == pc = "release" => \A q \in runnable : q < start

\* The two loops, which share p, come to an end.
LoopsEnd == <>(pc \in {"dispatch", "release"})
=============================================================================
