------------------------------- MODULE MCLinking -------------------------------
(* Instances of Linking: to link to, two directories (one has a directory     *)
(* where the other has a file), one with two names that differ in case,       *)
(* one with a symbolic link to a file elsewhere, and one that is missing; a   *)
(* directory and a file to link, an upper directory.                          *)
EXTENDS Linking, FiniteSets

MCName == {"d", "D", "f", "F", "g"}
MCLower == [n \in MCName |-> CASE n = "F" -> "f" [] n = "D" -> "d" [] OTHER -> n]
MCEndsOf == [n \in MCName |-> {m \in MCName : MCLower[m] = MCLower[n]}]

MCDirs == {<<"m">>, <<"m", "d">>, <<"n">>, <<"w">>, <<"s">>, <<"s", "d">>,
           <<"v">>, <<"u">>}
MCDiskFiles ==
  {<<"m", "d", "f">>, <<"n", "d">>, <<"w", "f">>, <<"w", "F">>, <<"s", "d", "g">>,
   <<"v", "f">>}
MCLeadsTo == [l \in {<<"v", "f">>} |-> <<"s", "d", "g">>]
MCDisk == [r \in MCDirs \cup MCDiskFiles |-> IF r \in MCDirs THEN "dir" ELSE "file"]

MCMountPoints == {<<"m">>, <<"n">>, <<"w">>, <<"v">>, <<"x">>}
MCSources == {<<"s">>}
MCFiles == {<<"s", "d", "g">>}
MCUpperDirs == {NoUpper, <<"u">>}

\* Bound: descriptors that are open and that no mount holds.
MaxLeaked == 1
Leaked == {fd \in DOMAIN open : open[fd] # Closed} \ Held(pending \o mounts)
FewLeaked == Cardinality(Leaked) =< MaxLeaked

\* ret is looked at by steps only.
System == <<pending, mounts, open, config, dead>>
=============================================================================
