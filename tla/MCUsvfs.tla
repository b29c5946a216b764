--------------------------------- MODULE MCUsvfs ---------------------------------
(* Instances of Usvfs: a directory, a file that can be spelled in two ways,   *)
(* a second file, on a mount point, a linked directory and an upper one.      *)
EXTENDS Usvfs

MCName == {"d", "D", "f", "F", "g"}
MCLower == [n \in MCName |-> CASE n = "F" -> "f" [] n = "D" -> "d" [] OTHER -> n]
MCHostDirs == [mnt |-> 1, src |-> 2, upper |-> 3]
MCLayers == <<"mnt", "src">>
WithUpper == <<"mnt", "src", "upper">>
OneLayer == <<"mnt">>
MCPaths == {<<>>, <<"d">>, <<"f">>, <<"F">>, <<"g">>, <<"d", "f">>, <<"d", "g">>}
FewPaths == {<<>>, <<"d">>, <<"D">>, <<"f">>, <<"d", "f">>}
DotPaths == FewPaths \cup {<<"d", ".directory">>}

\* With the name getattr treats on its own, and without the second spelling of f.
DotName == (MCName \ {"F"}) \cup {".directory"}
DotLower == [n \in DotName |-> IF n = ".directory" THEN n ELSE MCLower[n]]

NoNames == <<>>
Dir(names) == [kind |-> "dir", names |-> names]
File == [kind |-> "file", names |-> <<>>]
Symlink == [kind |-> "link", names |-> <<>>]

\* mnt/d/f, mnt/f, src/g; g is a symbolic link
FlatDisk ==
  <<Dir([d |-> 4, f |-> 5]), Dir([g |-> 6]), Dir(NoNames), Dir([f |-> 7]),
    File, Symlink, File>>

\* mnt/d/f, src/d: the directory d is linked over d
LayeredDisk ==
  <<Dir([d |-> 4]), Dir([d |-> 5]), Dir(NoNames), Dir([f |-> 6]), Dir(NoNames), File>>

\* mnt/d/f, src/d, other/g: the directory d is linked over d, the file g as f
LinkedDisk == [LayeredDisk EXCEPT ![3] = Dir([g |-> 7])] \o <<File>>
NoLink == {}
LinkAsF == {[name |-> "f", real |-> <<"upper", "g">>]}

\* ret is looked at by steps only; what a call leaves behind is these.
System == <<tree, fdMap, disk>>
=============================================================================
