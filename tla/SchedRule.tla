----------------------------- MODULE SchedRule ------------------------------
(***************************************************************************)
(* Which process scheduler() dispatches: what the two nested loops over    *)
(* ptable.proc compute, stated without the loops.  SchedLoop runs the      *)
(* loops themselves and is shown to meet this rule.                        *)
(***************************************************************************)
EXTENDS Integers

\* The first slot of S from slot i on.
FirstFrom(S, i, s) == s \in S /\ s >= i /\ \A r \in S : r >= i => s <= r

\* The slots of S no other slot of S has priority over.
Best(S, priority) == {q \in S : \A r \in S : priority[r] <= priority[q]}

\* The outer loop finds s, the first RUNNABLE slot from i on, and dispatches
\* it unless the inner loop, from the first slot, meets one of higher priority.
Chosen(S, priority, i, q) ==
  \E s \in S :
    /\ FirstFrom(S, i, s)
    /\ IF s \in Best(S, priority) THEN q = s
       ELSE FirstFrom(Best(S, priority), 1, q)
=============================================================================
