------------------------------ MODULE MCTreeLocks ------------------------------
(***************************************************************************)
(* An instance of TreeLocks for TLC: a directory with a file in it, which  *)
(* a thread dumps while the handlers use both.                             *)
(***************************************************************************)
EXTENDS TreeLocks

MCName == {"d", "D", "f"}
MCLower == [n \in MCName |-> IF n = "D" THEN "d" ELSE n]
MCPaths == {<<"D">>, <<"d", "f">>}
MCInitTree == Added(Added(Root("r"), <<"d">>, "r", "dir"), <<"d", "f">>, "r", "file")
=============================================================================
