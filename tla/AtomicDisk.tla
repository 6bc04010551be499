----------------------------- MODULE AtomicDisk -----------------------------
(***************************************************************************)
(* What the log promises to file system calls: their writes reach stable   *)
(* storage all at once, when no call is in progress, and a crash takes the *)
(* contents back to the last such moment.                                  *)
(***************************************************************************)
EXTENDS Naturals

CONSTANTS Home,   \* the blocks of the file system
          Vals    \* their contents

VARIABLES mem,    \* contents as the calls see them
          stable, \* contents a crash leaves
          open    \* calls in progress

avars == <<mem, stable, open>>

AInit ==
  /\ stable \in [Home -> Vals]
  /\ mem = stable
  /\ open = 0

Begin == open' = open + 1 /\ UNCHANGED <<mem, stable>>

End == open > 0 /\ open' = open - 1 /\ UNCHANGED <<mem, stable>>

Write ==
  /\ open > 0
  /\ \E b \in Home, v \in Vals : mem' = [mem EXCEPT ![b] = v]
  /\ UNCHANGED <<stable, open>>

Commit == open = 0 /\ stable' = mem /\ UNCHANGED <<mem, open>>

Crash == mem' = stable /\ open' = 0 /\ UNCHANGED stable

ANext == Begin \/ End \/ Write \/ Commit \/ Crash

ASpec == AInit /\ [][ANext]_avars
=============================================================================
