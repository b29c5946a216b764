----------------------------- MODULE MCUsvfsManager -----------------------------
(***************************************************************************)
(* An instance of UsvfsManager for TLC: a directory and a file linked over *)
(* one mount point, a directory over another, and one executable.          *)
(***************************************************************************)
EXTENDS UsvfsManager

MCLinks == {"dirA", "fileA", "dirB"}
MCFiles == {"fileA"}
MCTo == [l \in MCLinks |-> IF l = "dirB" THEN "B" ELSE "A"]

\* No guard reads ret, and no temporal property speaks of it.
System == <<pending, mounts, nsPidFd, config, fuseInstance, state, call, procs>>
=============================================================================
