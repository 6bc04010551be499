------------------------------- MODULE MCFiles -------------------------------
(***************************************************************************)
(* The instance of Inodes together with the one of Blocks.                 *)
(***************************************************************************)
EXTENDS MCInodes, Blocks

Op(what, h, n) == [op |-> what, h |-> h, n |-> n]

\* Writes within a block, across blocks and into the indirect block, and longer
\* than the longest file
MCFileOps ==
  {Op("write", 1, 2), Op("write", 1, 13), Op("write", 2, 4), Op("write", 3, 1), Op("write", 3, 14),
   Op("read", 2, 5), Op("reopen", 1, 0), Op("discard", 1, 0), Op("discard", 3, 0)}

MCImageFiles == <<4, 0>>

\* Blocks is about operators, not about this state: its properties are evaluated
\* once, in the initial state.

\* What is on the disk are the files: their bytes, and as blocks in use just theirs,
\* through every sequence of calls of readi(), writei() and itrunc() tried.
DiskExact == Init => FilesKept /\ BlocksExact

\* WritesFitLog: no transaction logs more blocks than begin_op() reserved for it.
OpsFitLog == Init => WritesFitLog
==============================================================================
