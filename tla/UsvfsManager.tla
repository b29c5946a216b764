------------------------------ MODULE UsvfsManager ------------------------------
(***************************************************************************)
(* The manager (src/usvfsmanager.cpp): links make pending mounts, mount()  *)
(* and process creation hand each of them to a detached thread or to a     *)
(* child in a namespace of its own, unmount() takes them down.             *)
(*                                                                         *)
(* Every function of the interface holds m_mtx, so one call at a time is   *)
(* under way; mounting and unmounting take several steps, between which    *)
(* the threads and children take theirs.  A mount is the number of its     *)
(* MountState, which also names the thread or child that runs it.          *)
(***************************************************************************)
EXTENDS Naturals, SequencesExt

CONSTANTS
  Links,      \* what the program links
  Files,      \* the links made by usvfsVirtualLinkFile()
  To,         \* link -> mount point
  Execs,      \* executables the program starts
  MaxStates,  \* bound: MountStates ever made
  MaxProcs,   \* bound: processes that run at a time
  Faults,     \* what may fail, see the actions
  Freed       \* what reading the status of a freed MountState may give

FaultKinds == {"open", "upper", "clone", "poll", "mount", "die", "wait", "fork"}

ASSUME ManagerAssumption ==
  /\ Files \subseteq Links
  /\ DOMAIN To = Links
  /\ "none" \notin Execs
  /\ MaxStates \in Nat /\ MaxProcs \in Nat
  /\ Faults \subseteq FaultKinds
  /\ Freed \subseteq {"success", "failure", "hang"}

VARIABLES
  pending,    \* m_pendingMounts
  mounts,     \* m_mounts
  nsPidFd,    \* m_nsPidFd: the mount whose child it names, or NoPid
  useNs,      \* m_useMountNamespace
  blacklist,  \* m_executableBlacklist
  fuseInstance, \* libfuse's fuse_instance: whose session its handlers end
  state,      \* every MountState ever made, with the thread or child that runs it
  call,       \* the call that holds m_mtx
  procs,      \* processes started: was it on the blacklist, whose namespace is it in
  ret         \* the last answer

config == <<useNs, blacklist>>
vars == <<pending, mounts, nsPidFd, config, fuseInstance, state, call, procs, ret>>

NoPid == 0
NoMount == 0

\* Where the thread of a mount is in run_fuse(): it has not taken the lock of
\* its state; it has answered; it is in fuse_loop(); it has returned.
ThreadRuns == {"started", "mounted", "failed", "looping", "returned"}

\* Where the child of a mount is in childFunc(), "told" in fuse_loop() with its
\* session told to exit; exited but not waited for; gone.
Running == {"cloned", "serving", "told", "interrupted"}
ChildRuns == Running \cup {"exited", "reaped"}

\* nsFd is the child whose namespace the mount's own child enters, if any;
\* handle says that the FUSE handle exists and is mounted.
NewState(l) ==
  [mp |-> To[l], links |-> {l}, nsFd |-> NoPid, run |-> "none",
   handle |-> FALSE, alive |-> TRUE]

Idle ==
  [op |-> "none", at |-> "none", todo |-> <<>>, cur |-> NoMount,
   taken |-> <<>>, base |-> 0, exec |-> "none"]

Answer(op, ok) == ret' = [op |-> op, ok |-> ok]

Init ==
  /\ pending = <<>> /\ mounts = <<>> /\ nsPidFd = NoPid
  /\ useNs \in BOOLEAN /\ blacklist = {} /\ fuseInstance = NoMount
  /\ state = <<>> /\ call = Idle /\ procs = {}
  /\ ret = [op |-> "none", ok |-> TRUE]

Destroyed(st, S) ==
  [s \in DOMAIN st |-> IF s \in S THEN [st[s] EXCEPT !.alive = FALSE] ELSE st[s]]

-----------------------------------------------------------------------------
(***************************************************************************)
(* Linking, and the settings.                                              *)
(***************************************************************************)
PendingAt(mp) == {s \in ToSet(pending) : state[s].mp = mp}

Joined(l) ==
  /\ \E s \in PendingAt(To[l]) : state' = [state EXCEPT ![s].links = @ \cup {l}]
  /\ UNCHANGED pending

EnqueuedUnmade(l) ==
  /\ PendingAt(To[l]) = {}
  /\ Len(state) < MaxStates
  /\ pending' = Append(pending, Len(state) + 1)
  /\ UNCHANGED state

Enqueued(l) ==
  /\ PendingAt(To[l]) = {}
  /\ Len(state) < MaxStates
  /\ state' = Append(state, NewState(l))
  /\ pending' = Append(pending, Len(state) + 1)

LinkedAlready(l) == \E s \in PendingAt(To[l]) : l \in state[s].links

LinkDirectory(l) ==
  /\ call = Idle
  /\ l \notin Files
  /\ Joined(l) \/ Enqueued(l)
  /\ Answer("link", TRUE)
  /\ UNCHANGED <<mounts, nsPidFd, config, fuseInstance, call, procs>>

\* A file is in the tree of a pending mount before its directory is opened, and
\* stays there when that fails.  A file that is there already is refused.
LinkFile(l) ==
  /\ call = Idle
  /\ l \in Files
  /\ ~LinkedAlready(l)
  /\ \/ (Joined(l) \/ Enqueued(l)) /\ Answer("link", TRUE)
     \/ "open" \in Faults /\ Joined(l) /\ Answer("link", FALSE)
  /\ UNCHANGED <<mounts, nsPidFd, config, fuseInstance, call, procs>>

\* Everything else that can fail does so before the pending mounts change.
LinkRefused(l) ==
  /\ call = Idle
  /\ "open" \in Faults \/ (l \in Files /\ LinkedAlready(l))
  /\ Answer("link", FALSE)
  /\ UNCHANGED <<pending, mounts, nsPidFd, config, fuseInstance, state, call, procs>>

ClearVirtualMappings ==
  /\ call = Idle
  /\ pending' = <<>>
  /\ state' = Destroyed(state, ToSet(pending))
  /\ UNCHANGED <<mounts, nsPidFd, config, fuseInstance, call, procs, ret>>

SetUseMountNamespace(value) ==
  /\ call = Idle
  /\ useNs' = value
  /\ UNCHANGED <<pending, mounts, nsPidFd, blacklist, fuseInstance, state, call, procs, ret>>

BlacklistExecutable(e) ==
  /\ call = Idle
  /\ blacklist' = blacklist \cup {e}
  /\ UNCHANGED <<pending, mounts, nsPidFd, useNs, fuseInstance, state, call, procs, ret>>

ClearExecutableBlacklist ==
  /\ call = Idle
  /\ blacklist' = {}
  /\ UNCHANGED <<pending, mounts, nsPidFd, useNs, fuseInstance, state, call, procs, ret>>

-----------------------------------------------------------------------------
(***************************************************************************)
(* mountInternal(), as mount() and usvfsCreateProcessHooked() call it.     *)
(***************************************************************************)
At(where) == call.op \in {"mount", "create"} /\ call.at = where

StartMountingKeeping(op, e) ==
  /\ pending # <<>>
  /\ call' = [Idle EXCEPT !.op = op, !.at = "next", !.todo = pending,
                          !.taken = pending, !.base = Len(mounts), !.exec = e]
  /\ UNCHANGED <<pending, mounts, nsPidFd, config, fuseInstance, state, procs, ret>>

\* toMount takes the pending mounts; opening the upper directory may fail.
StartMounting(op, e) ==
  /\ pending # <<>>
  /\ pending' = <<>>
  /\ \/ /\ call' = [Idle EXCEPT !.op = op, !.at = "next", !.todo = pending,
                                !.taken = pending, !.base = Len(mounts), !.exec = e]
        /\ UNCHANGED <<state, ret>>
     \/ /\ "upper" \in Faults
        /\ state' = Destroyed(state, ToSet(pending))
        /\ Answer(op, FALSE)
        /\ UNCHANGED call
  /\ UNCHANGED <<mounts, nsPidFd, config, fuseInstance, procs>>

Mount ==
  /\ call = Idle
  /\ \/ StartMounting("mount", "none")
     \/ /\ pending = <<>>
        /\ Answer("mount", TRUE)
        /\ UNCHANGED <<pending, mounts, nsPidFd, config, fuseInstance, state, call, procs>>

GiveUpLeaking(st, owned) ==
  /\ state' = st
  /\ call' = Idle
  /\ Answer(call.op, FALSE)
  /\ UNCHANGED <<pending, mounts, nsPidFd, config, fuseInstance, procs>>

\* return false: toMount goes, with every mount it still owns.
GiveUp(st, owned) ==
  /\ state' = Destroyed(st, owned)
  /\ call' = Idle
  /\ Answer(call.op, FALSE)
  /\ UNCHANGED <<pending, mounts, nsPidFd, config, fuseInstance, procs>>

\* The next mount goes to a thread, which owns its state from now on.
StartThread ==
  /\ At("next") /\ call.todo # <<>> /\ ~useNs
  /\ LET s == Head(call.todo)
     IN  /\ state' = [state EXCEPT ![s].run = "started"]
         /\ call' = [call EXCEPT !.at = "wait", !.todo = Tail(@), !.cur = s]
  /\ UNCHANGED <<pending, mounts, nsPidFd, config, fuseInstance, procs, ret>>

\* ... or to a child; the first child ever makes the namespace, the others are
\* to enter it.
StartChild ==
  /\ At("next") /\ call.todo # <<>> /\ useNs
  /\ LET s == Head(call.todo)
     IN  /\ state' = [state EXCEPT ![s].run = "cloned", ![s].nsFd = nsPidFd]
         /\ call' = [call EXCEPT !.at = "poll", !.todo = Tail(@), !.cur = s]
  /\ UNCHANGED <<pending, mounts, nsPidFd, config, fuseInstance, procs, ret>>

CloneFails ==
  /\ At("next") /\ call.todo # <<>> /\ useNs
  /\ "clone" \in Faults
  /\ GiveUp(state, ToSet(call.todo))

Continue == call' = [call EXCEPT !.at = "next", !.cur = NoMount]

StatusAssumed(s) == IF state[s].run = "failed" THEN "failure" ELSE "success"

\* cv.wait(): the thread sets the status under the lock of the state.
Status(s) ==
  CASE state[s].run = "failed" -> "failure"
    [] state[s].run \in {"mounted", "looping"} -> "success"
    [] OTHER -> "unknown"

Await ==
  /\ At("wait") /\ state[call.cur].alive
  /\ \/ /\ Status(call.cur) = "success"
        /\ Continue
        /\ UNCHANGED <<pending, mounts, nsPidFd, config, fuseInstance, state, procs, ret>>
     \/ /\ Status(call.cur) = "failure"
        /\ GiveUp(state, ToSet(call.todo))

\* The thread that failed may have destroyed the state, with its lock, condition
\* variable and status, before the caller reads them.
AwaitFreed ==
  /\ At("wait") /\ ~state[call.cur].alive
  /\ \/ /\ "success" \in Freed
        /\ Continue
        /\ UNCHANGED <<pending, mounts, nsPidFd, config, fuseInstance, state, procs, ret>>
     \/ /\ "failure" \in Freed
        /\ GiveUp(state, ToSet(call.todo))
     \/ /\ "hang" \in Freed
        /\ call' = [call EXCEPT !.at = "hang"]
        /\ UNCHANGED <<pending, mounts, nsPidFd, config, fuseInstance, state, procs, ret>>

\* poll() on the child: 10 ms without an exit count as success.
PollTimesOut ==
  /\ At("poll") /\ state[call.cur].run # "exited"
  /\ nsPidFd' = IF nsPidFd = NoPid THEN call.cur ELSE nsPidFd
  /\ mounts' = Append(mounts, call.cur)
  /\ Continue
  /\ UNCHANGED <<pending, config, fuseInstance, state, procs, ret>>

PollSeesExit ==
  /\ At("poll") /\ state[call.cur].run = "exited"
  /\ GiveUp([state EXCEPT ![call.cur].run = "reaped"], ToSet(call.todo) \cup {call.cur})

\* poll() interrupted by a signal: the child goes on without its state.
PollInterrupted ==
  /\ At("poll")
  /\ "poll" \in Faults
  /\ GiveUp(state, ToSet(call.todo) \cup {call.cur})

AllStarted ==
  /\ At("next") /\ call.todo = <<>>
  /\ IF call.op = "mount"
     THEN call' = Idle /\ Answer("mount", TRUE)
     ELSE call' = [call EXCEPT !.at = "fork"] /\ UNCHANGED ret
  /\ UNCHANGED <<pending, mounts, nsPidFd, config, fuseInstance, state, procs>>

-----------------------------------------------------------------------------
(***************************************************************************)
(* run_fuse(), the thread of mount s.  It holds the lock of its state from *)
(* the start until it has answered, which is one step: nobody else reads   *)
(* the state or m_mounts without that lock or m_mtx.                       *)
(***************************************************************************)
ThreadMountsUnlisted(s) ==
  /\ state[s].run = "started"
  /\ state' = [state EXCEPT ![s].run = "mounted", ![s].handle = TRUE]
  /\ UNCHANGED <<pending, mounts, nsPidFd, config, fuseInstance, call, procs, ret>>

ThreadMounts(s) ==
  /\ state[s].run = "started"
  /\ state' = [state EXCEPT ![s].run = "mounted", ![s].handle = TRUE]
  /\ mounts' = Append(mounts, s)
  /\ UNCHANGED <<pending, nsPidFd, config, fuseInstance, call, procs, ret>>

ThreadFails(s) ==
  /\ state[s].run = "started"
  /\ "mount" \in Faults
  /\ state' = [state EXCEPT ![s].run = "failed"]
  /\ UNCHANGED <<pending, mounts, nsPidFd, config, fuseInstance, call, procs, ret>>

\* A failed thread returns, which destroys the state it owns.
ThreadFrees(s) ==
  /\ state[s].run = "failed"
  /\ state' = [state EXCEPT ![s].run = "returned", ![s].alive = FALSE]
  /\ UNCHANGED <<pending, mounts, nsPidFd, config, fuseInstance, call, procs, ret>>

\* The thread enters fuse_loop() by the pointer in its state, whoever has
\* unmounted it or destroyed the state since it answered.
ThreadLoops(s) ==
  /\ state[s].run = "mounted"
  /\ state' = [state EXCEPT ![s].run = "looping"]
  /\ UNCHANGED <<pending, mounts, nsPidFd, config, fuseInstance, call, procs, ret>>

ThreadReturns(s) ==
  /\ state[s].run = "looping"
  /\ ~state[s].handle
  /\ state' = [state EXCEPT ![s].run = "returned"]
  /\ UNCHANGED <<pending, mounts, nsPidFd, config, fuseInstance, call, procs, ret>>

-----------------------------------------------------------------------------
(***************************************************************************)
(* childFunc(), the child of mount s.                                      *)
(***************************************************************************)
\* A namespace can be entered while the process that is named for it lives.
Enterable(p) == p # NoPid /\ state[p].run \in Running

\* The child puts its session into fuse_instance, of which there is one for all
\* children: they share the program's memory.
ChildMounts(s) ==
  /\ state[s].run = "cloned"
  /\ state[s].nsFd # NoPid => Enterable(state[s].nsFd)
  /\ state' = [state EXCEPT ![s].run = "serving", ![s].handle = TRUE]
  /\ fuseInstance' = s
  /\ UNCHANGED <<pending, mounts, nsPidFd, config, call, procs, ret>>

ChildFails(s) ==
  /\ state[s].run = "cloned"
  /\ "mount" \in Faults \/ (state[s].nsFd # NoPid /\ ~Enterable(state[s].nsFd))
  /\ state' = [state EXCEPT ![s].run = "exited"]
  /\ UNCHANGED <<pending, mounts, nsPidFd, config, fuseInstance, call, procs, ret>>

ChildExits(s) ==
  /\ state' = [state EXCEPT ![s].run = "exited", ![s].handle = FALSE]
  /\ UNCHANGED <<pending, mounts, nsPidFd, config, fuseInstance, call, procs, ret>>

\* The loop of a child ends after a signal that has told its own session to exit,
\* or when the program destroys the handle, which both share.
ChildEnds(s) ==
  /\ \/ state[s].run = "interrupted"
     \/ state[s].run \in {"serving", "told"} /\ ~state[s].handle
  /\ ChildExits(s)

\* A session told to exit by another child's handler is still in read(), and sees
\* it with the next request there is.
ChildNotices(s) ==
  /\ state[s].run = "told"
  /\ ChildExits(s)

\* The mount is taken away, or the child killed, from outside.
ChildDies(s) ==
  /\ "die" \in Faults
  /\ state[s].run \in {"cloned", "serving", "told"}
  /\ ChildExits(s)

-----------------------------------------------------------------------------
(***************************************************************************)
(* usvfsCreateProcessHooked()                                              *)
(***************************************************************************)
CreateProcess(e) ==
  /\ call = Idle
  /\ Cardinality(procs) < MaxProcs
  /\ mounts # <<>> => nsPidFd # NoPid
  /\ \/ e \notin blacklist /\ StartMounting("create", e)
     \/ /\ e \in blacklist \/ pending = <<>>
        /\ call' = [Idle EXCEPT !.op = "create", !.at = "fork",
                                !.base = Len(mounts), !.exec = e]
        /\ UNCHANGED <<pending, mounts, nsPidFd, config, fuseInstance, state, procs, ret>>

CreateRefused ==
  /\ call = Idle
  /\ mounts # <<>> /\ nsPidFd = NoPid
  /\ Answer("create", FALSE)
  /\ UNCHANGED <<pending, mounts, nsPidFd, config, fuseInstance, state, call, procs>>

\* A child that cannot enter the namespace exits before exec(), and nothing is
\* written to the pipe: its pid is answered all the same.
Fork ==
  /\ At("fork")
  /\ call' = Idle
  /\ \/ /\ ~useNs \/ Enterable(nsPidFd)
        /\ procs' = procs \cup {[black |-> call.exec \in blacklist, in |-> IF useNs THEN nsPidFd ELSE NoPid]}
        /\ Answer("create", TRUE)
     \/ /\ useNs /\ ~Enterable(nsPidFd)
        /\ Answer("create", TRUE)
        /\ UNCHANGED procs
     \/ /\ "fork" \in Faults
        /\ Answer("create", FALSE)
        /\ UNCHANGED procs
  /\ UNCHANGED <<pending, mounts, nsPidFd, config, fuseInstance, state>>

ProcessExits(p) ==
  /\ procs' = procs \ {p}
  /\ UNCHANGED <<pending, mounts, nsPidFd, config, fuseInstance, state, call, ret>>

-----------------------------------------------------------------------------
(***************************************************************************)
(* unmount().  anyProcessRunning() looks at m_spawnedProcesses, which      *)
(* nothing is ever put into.                                               *)
(***************************************************************************)
Unmount ==
  /\ call = Idle
  /\ IF mounts = <<>>
     THEN Answer("unmount", TRUE) /\ UNCHANGED call
     ELSE /\ call' = [Idle EXCEPT !.op = "unmount", !.at = "next", !.todo = mounts,
                                  !.base = Len(mounts)]
          /\ UNCHANGED ret
  /\ UNCHANGED <<pending, mounts, nsPidFd, config, fuseInstance, state, procs>>

Unmounting(where) == call.op = "unmount" /\ call.at = where

UnmountRefused ==
  /\ call' = Idle
  /\ Answer("unmount", FALSE)
  /\ UNCHANGED <<pending, mounts, nsPidFd, config, fuseInstance, state, procs>>

UnmountThread ==
  /\ Unmounting("next") /\ call.todo # <<>> /\ ~useNs
  /\ state' = [state EXCEPT ![Head(call.todo)].handle = FALSE]
  /\ call' = [call EXCEPT !.todo = Tail(@)]
  /\ UNCHANGED <<pending, mounts, nsPidFd, config, fuseInstance, procs, ret>>

WaitUnsignalled ==
  /\ Unmounting("next") /\ call.todo # <<>> /\ useNs
  /\ IF state[Head(call.todo)].run \in Running \cup {"exited"}
     THEN /\ call' = [call EXCEPT !.at = "waitid"]
          /\ UNCHANGED <<pending, mounts, nsPidFd, config, fuseInstance, state, procs, ret>>
     ELSE UnmountRefused

\* SIGINT kills a child that has no handlers yet.  In any other the handler tells
\* the session in fuse_instance to exit, and read() ends: the loop of the child is
\* over if that session, now or before, was its own, and goes on otherwise.
Signalled(s) ==
  LET handles == state[s].run \in {"serving", "told", "interrupted"}
      ends == handles /\ (fuseInstance = s \/ state[s].run = "told")
      next(t) ==
        IF t = s /\ state[s].run = "cloned" THEN "exited"
        ELSE IF t = s /\ ends THEN "interrupted"
        ELSE IF t = fuseInstance /\ handles /\ state[t].run = "serving" THEN "told"
        ELSE state[t].run
  IN  [t \in DOMAIN state |-> [state[t] EXCEPT !.run = next(t)]]

\* A session that has been destroyed stays in fuse_instance: the handler writes
\* to freed memory, and the child may not survive it.
Dangling(s) ==
  /\ state[s].run \in {"serving", "told"}
  /\ fuseInstance # NoMount /\ ~state[fuseInstance].handle

\* The child is sent SIGINT, and waited for; one that is gone, or never was (the
\* mount has a thread), ends the call.
SignalChild ==
  /\ Unmounting("next") /\ call.todo # <<>> /\ useNs
  /\ LET s == Head(call.todo)
     IN  \/ /\ state[s].run \in Running \cup {"exited"}
            /\ \/ state' = Signalled(s)
               \/ Dangling(s) /\ state' = [state EXCEPT ![s].run = "interrupted"]
            /\ call' = [call EXCEPT !.at = "waitid"]
            /\ UNCHANGED <<pending, mounts, nsPidFd, config, fuseInstance, procs, ret>>
         \/ /\ state[s].run \notin Running \cup {"exited"}
            /\ UnmountRefused

WaitForChild ==
  /\ Unmounting("waitid")
  /\ state[Head(call.todo)].run = "exited"
  /\ state' = [state EXCEPT ![Head(call.todo)].run = "reaped"]
  /\ call' = [call EXCEPT !.at = "next", !.todo = Tail(@)]
  /\ UNCHANGED <<pending, mounts, nsPidFd, config, fuseInstance, procs, ret>>

\* waitid() interrupted by a signal.
WaitInterrupted ==
  /\ Unmounting("waitid")
  /\ "wait" \in Faults
  /\ UnmountRefused

\* m_mounts.clear()
AllUnmounted ==
  /\ Unmounting("next") /\ call.todo = <<>>
  /\ mounts' = <<>>
  /\ state' = Destroyed(state, ToSet(mounts))
  /\ call' = Idle
  /\ Answer("unmount", TRUE)
  /\ UNCHANGED <<pending, nsPidFd, config, fuseInstance, procs>>

-----------------------------------------------------------------------------
Settings ==
  \/ \E l \in Links : LinkDirectory(l) \/ LinkFile(l) \/ LinkRefused(l)
  \/ ClearVirtualMappings \/ ClearExecutableBlacklist
  \/ \E value \in BOOLEAN : SetUseMountNamespace(value)
  \/ \E e \in Execs : BlacklistExecutable(e)

\* The steps of a call that is under way.
Proceed ==
  \/ StartThread \/ StartChild \/ Await \/ AwaitFreed
  \/ PollTimesOut \/ PollSeesExit \/ AllStarted \/ Fork
  \/ UnmountThread \/ SignalChild \/ WaitForChild \/ AllUnmounted

Interrupted == CloneFails \/ PollInterrupted \/ WaitInterrupted

Calls == Mount \/ Unmount \/ CreateRefused \/ (\E e \in Execs : CreateProcess(e))

Thread(s) ==
  ThreadMounts(s) \/ ThreadFails(s) \/ ThreadFrees(s) \/ ThreadLoops(s) \/ ThreadReturns(s)

Child(s) == ChildMounts(s) \/ ChildFails(s) \/ ChildEnds(s)

Next ==
  \/ Settings \/ Calls \/ Proceed \/ Interrupted
  \/ \E s \in DOMAIN state : Thread(s) \/ Child(s) \/ ChildNotices(s) \/ ChildDies(s)
  \/ \E p \in procs : ProcessExits(p)

\* The operating system schedules the caller, the threads and the children.
\* Nobody need call anything or use a mount, no process need exit, nothing need be
\* interrupted or taken away.
Fairness ==
  /\ WF_vars(Proceed)
  /\ \A s \in 1..MaxStates :
       WF_vars(s \in DOMAIN state /\ Thread(s)) /\ WF_vars(s \in DOMAIN state /\ Child(s))

Spec == Init /\ [][Next]_vars /\ Fairness

-----------------------------------------------------------------------------
(***************************************************************************)
(* Properties.                                                             *)
(***************************************************************************)
TypeOK ==
  /\ ToSet(pending) \cup ToSet(mounts) \cup ToSet(call.todo) \cup ToSet(call.taken)
       \subseteq DOMAIN state
  /\ nsPidFd \in {NoPid} \cup DOMAIN state
  /\ useNs \in BOOLEAN /\ blacklist \subseteq Execs
  /\ fuseInstance \in {NoMount} \cup DOMAIN state
  /\ Len(state) =< MaxStates
  /\ state \in Seq([mp : {To[l] : l \in Links}, links : SUBSET Links,
                    nsFd : 0..Len(state), run : {"none"} \cup ThreadRuns \cup ChildRuns,
                    handle : BOOLEAN, alive : BOOLEAN])
  /\ call.op \in {"none", "mount", "create", "unmount"}
  /\ call.at \in {"none", "next", "wait", "hang", "poll", "fork", "waitid"}
  /\ call.cur \in {NoMount} \cup DOMAIN state
  /\ call.base \in 0..Len(mounts)
  /\ call.exec \in {"none"} \cup Execs
  /\ procs \subseteq [black : BOOLEAN, in : {NoPid} \cup DOMAIN state]
  /\ ret.op \in {"none", "link", "mount", "create", "unmount"} /\ ret.ok \in BOOLEAN

\* Who owns a MountState: the lists of the manager, the vector toMount of the
\* call under way, or a thread that has not yet answered.
OfCall ==
  IF call.op \in {"mount", "create"}
  THEN ToSet(call.todo) \cup {s \in {call.cur} : call.at = "poll"}
  ELSE {}
OfThreads == {s \in DOMAIN state : state[s].run \in {"started", "failed"}}

\* A MountState is moved from list to thread to list while other threads run:
\* as long as it exists exactly one of them owns it, and none owns it once it
\* is destroyed.
OneOwner ==
  LET owners == <<ToSet(pending), OfCall, OfThreads, ToSet(mounts)>>
  IN  /\ \A s \in DOMAIN state :
           Cardinality({i \in 1..4 : s \in owners[i]}) = IF state[s].alive THEN 1 ELSE 0
      /\ IsInjective(pending) /\ IsInjective(mounts)

\* unmount() can reach every mount that is in place: it is in m_mounts or about
\* to be put there.  The exception is a child whose state has been destroyed
\* under it.
MountsReachable ==
  \A s \in DOMAIN state :
    state[s].handle =>
      \/ s \in ToSet(mounts) \cup OfCall
      \/ state[s].run \in {"serving", "told", "interrupted"} /\ ~state[s].alive

\* m_mounts is shared by the callers and the threads of all mounts, and the
\* threads do not take its lock: it changes only while a call holds the lock
\* and, if a thread changes it, waits for that very thread.
MountsChangeLocked ==
  [][mounts' # mounts =>
       /\ call # Idle
       /\ ~useNs /\ call.op # "unmount" =>
            call.at = "wait" /\ mounts' = Append(mounts, call.cur)]_vars

\* The steps of mounting and unmounting show to callers as one step each.
Rec(s) == [mp |-> state[s].mp, links |-> state[s].links]
Recs(q) == [i \in DOMAIN q |-> Rec(q[i])]
Waiting == IF call.taken # <<>> THEN call.taken ELSE pending
Mounted == IF call.op = "none" THEN mounts ELSE SubSeq(mounts, 1, call.base)

Abstract == INSTANCE Mounting WITH waiting <- Recs(Waiting), mounted <- Recs(Mounted)

ImplementsMounting == Abstract!Init /\ [][Abstract!Next]_Abstract!vars

\* unmount() waits for a child whose signal has gone to another child's session.
SignalLost ==
  /\ Unmounting("waitid")
  /\ state[Head(call.todo)].run = "serving" /\ fuseInstance # Head(call.todo)

\* Every call returns: the thread or child it waits for answers or exits.  The
\* exception is unmount() of a child that was not the last to set its handlers.
CallsReturn == (call # Idle) ~> (call = Idle \/ SignalLost)

-----------------------------------------------------------------------------
(***************************************************************************)
(* What the comments and the documentation say, and the code does not do.  *)
(***************************************************************************)
\* "wait until mount state is no longer unknown": the wait of mount() ends by
\* what the thread has said in a MountState that exists.
WaitsForAnswer ==
  [][At("wait") /\ call'.at # "wait" =>
       state[call.cur].alive /\ Status(call.cur) # "unknown"]_vars

\* An executable on the blacklist does not get exposed to the virtual file
\* system: its process does not start in the namespace of a mount.
Namespace(s) ==
  IF state[s].run \in ThreadRuns THEN NoPid
  ELSE IF state[s].nsFd = NoPid THEN s ELSE state[s].nsFd

BlacklistedNotExposed ==
  [][\A p \in procs' \ procs, s \in ToSet(mounts) :
       p.black /\ state[s].handle => p.in # Namespace(s)]_vars

\* "there is still at least one process running, not unmounting".
UnmountSparesProcesses ==
  [][call.op = "unmount" /\ mounts' = <<>> => procs = {}]_vars
=============================================================================
