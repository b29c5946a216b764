----------------------------------- MODULE Vfs -----------------------------------
(***************************************************************************)
(* What a mount promises the processes that use it: one case-insensitive   *)
(* file system.  Layers, real paths, descriptors, deleted marks and the    *)
(* upper directory are invisible; there is a tree of files, and a call     *)
(* either does what POSIX says or changes nothing.                         *)
(***************************************************************************)
EXTENDS Integers, Sequences

CONSTANTS
  Keys,    \* folded paths
  Ids,     \* file identities
  Errors   \* error codes

VARIABLES
  view,    \* key -> the file or directory it names
  ret      \* the last call and its answer

vars == <<view, ret>>

Up(k) == SubSeq(k, 1, Len(k) - 1)
Dir(k) == k \in DOMAIN view /\ view[k].kind = "dir"
Listed(k) == {q \in DOMAIN view : q # <<>> /\ Up(q) = k}
New(i) == \A q \in DOMAIN view : view[q].id # i

Answer(call, from, to, err) ==
  /\ ret'.call = call
  /\ ret'.from = from
  /\ ret'.to = to
  /\ ret'.err = err

Init == <<>> \in DOMAIN view /\ view[<<>>].kind = "dir"

\* The process that creates a file holds that file open.
Make(call, kind, k, i) ==
  /\ Answer(call, k, k, "ok")
  /\ k \notin DOMAIN view /\ Dir(Up(k)) /\ New(i)
  /\ kind = "file" => ret'.id = i
  /\ view' = [q \in DOMAIN view \cup {k} |->
                IF q = k THEN [kind |-> kind, id |-> i] ELSE view[q]]

Remove(call, k) ==
  /\ Answer(call, k, k, "ok")
  /\ k \in DOMAIN view /\ Listed(k) = {}
  /\ view[k].kind = "dir" <=> call = "rmdir"
  /\ view' = [q \in DOMAIN view \ {k} |-> view[q]]

Rename(f, t) ==
  /\ Answer("rename", f, t, "ok")
  /\ f \in DOMAIN view /\ view[f].kind # "dir"
  /\ t \notin DOMAIN view /\ Dir(Up(t))
  /\ view' = [q \in (DOMAIN view \ {f}) \cup {t} |-> IF q = t THEN view[f] ELSE view[q]]

\* Calls that reach a file find the one its name stands for.
Reach(call, k) ==
  /\ Answer(call, k, k, "ok")
  /\ k \in DOMAIN view
  /\ ret'.id = view[k].id
  /\ UNCHANGED view

List(k) ==
  /\ Answer("readdir", k, k, "ok")
  /\ Dir(k)
  /\ ret'.names = Listed(k)
  /\ UNCHANGED view

Statfs == Answer("statfs", <<>>, <<>>, "ok") /\ UNCHANGED view

\* A mount that is made again shows every file there was; what was removed may
\* come back where another layer has it.
Remount ==
  /\ Answer("remount", <<>>, <<>>, "ok")
  /\ \A k \in DOMAIN view :
       /\ k \in DOMAIN view' /\ view'[k].kind = view[k].kind
       /\ view[k].kind # "dir" => view'[k].id = view[k].id

Refuse(call, f, t, err) ==
  /\ err # "ok"
  /\ Answer(call, f, t, err)
  /\ UNCHANGED view

Next ==
  \/ \E k \in Keys, i \in Ids : Make("mkdir", "dir", k, i) \/ Make("create", "file", k, i)
  \/ \E k \in Keys : Remove("unlink", k) \/ Remove("rmdir", k)
  \/ \E f, t \in Keys : Rename(f, t)
  \/ \E k \in Keys, call \in {"open", "truncate", "chmod", "readlink"} : Reach(call, k)
  \/ \E k \in Keys : List(k)
  \/ Statfs
  \/ Remount
  \/ \E call \in {"readlink", "mkdir", "unlink", "rmdir", "rename", "chmod", "truncate",
                 "create", "open", "readdir", "statfs"},
        f, t \in Keys, err \in Errors : Refuse(call, f, t, err)

Spec == Init /\ [][Next]_vars
=============================================================================
