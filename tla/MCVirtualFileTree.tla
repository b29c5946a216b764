---------------------------- MODULE MCVirtualFileTree ----------------------------
(* Three levels of items, the top one spelled in two ways, and two real      *)
(* paths.                                                                    *)
EXTENDS VirtualFileTree

MCName == {"a", "A", "b"}
MCLower == [n \in MCName |-> IF n = "A" THEN "a" ELSE n]
MCPaths == {<<>>, <<"a">>, <<"A">>, <<"A", "b">>, <<"a", "b", "a">>}

\* The last call is looked at by steps only; what it leaves behind is these.
Trees == <<tree, source>>
=============================================================================
