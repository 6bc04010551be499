------------------------------ MODULE MCInodes ------------------------------
(***************************************************************************)
(* Instances of Inodes: the calls the processes choose from.  Directories  *)
(* are made in the root only, and the new name of a link is not a dot.     *)
(***************************************************************************)
EXTENDS Inodes, TLC

Abs(elems) == [abs |-> TRUE, elems |-> elems]
Rel(elems) == [abs |-> FALSE, elems |-> elems]
K(call, path, new) == [call |-> call, path |-> path, new |-> new]
NoPath == Abs(<<>>)

MCNames == {"d", "x"}

\* The processes differ in nothing but their names.
Symmetry == Permutations(Procs)

AllCalls ==
  {K("open", Abs(<<"d", "x">>), NoPath), K("create", Rel(<<"x">>), NoPath),
   K("mkdir", Abs(<<"d">>), NoPath), K("unlink", Abs(<<"d", "x">>), NoPath),
   K("unlink", Abs(<<"d">>), NoPath), K("unlink", Rel(<<"..", "x">>), NoPath),
   K("chdir", Abs(<<"d">>), NoPath), K("link", Abs(<<"d", "x">>), Abs(<<"x">>))}
=============================================================================
