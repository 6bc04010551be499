----------------------------- MODULE BlockStore -----------------------------
(***************************************************************************)
(* What the buffer cache promises: blocks with contents, each one locked   *)
(* by at most one process, which sees the contents the last one left.      *)
(***************************************************************************)
CONSTANTS Procs, Blocks, Vals, NoProc

VARIABLES content,   \* content[b]: what b's holder sees, or the next one will
          holder     \* holder[b]: the process that has b locked, or NoProc

bvars == <<content, holder>>

BInit ==
  /\ content \in [Blocks -> Vals]
  /\ holder = [b \in Blocks |-> NoProc]

\* bread() returns.
Get(p, b) ==
  /\ holder[b] = NoProc
  /\ holder' = [holder EXCEPT ![b] = p]
  /\ UNCHANGED content

\* The caller changes the buffer.
Put(p, b, v) ==
  /\ holder[b] = p
  /\ content' = [content EXCEPT ![b] = v]
  /\ UNCHANGED holder

\* brelse()
Drop(p, b) ==
  /\ holder[b] = p
  /\ holder' = [holder EXCEPT ![b] = NoProc]
  /\ UNCHANGED content

BNext ==
  \E p \in Procs, b \in Blocks :
    Get(p, b) \/ Drop(p, b) \/ \E v \in Vals : Put(p, b, v)

BSpec == BInit /\ [][BNext]_bvars
=============================================================================
