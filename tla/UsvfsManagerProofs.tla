--------------------------- MODULE UsvfsManagerProofs ---------------------------
(***************************************************************************)
(* Proofs about UsvfsManager, for every set of links, mount points and     *)
(* executables, for any number of mounts and whatever may fail.            *)
(*                                                                         *)
(* The invariant says of every MountState where it is: in which list, in   *)
(* the vector of the call under way, or with a thread that has not         *)
(* answered; and what the threads and children may have done to it there.  *)
(***************************************************************************)
EXTENDS UsvfsManager, ListFacts, FiniteSetTheorems

-----------------------------------------------------------------------------
(***************************************************************************)
(* The inductive invariant, in parts.                                      *)
(***************************************************************************)
Runs == {"none"} \cup ThreadRuns \cup ChildRuns

States(n) ==
  [mp : {To[l] : l \in Links}, links : SUBSET Links, nsFd : 0..n, run : Runs,
   handle : BOOLEAN, alive : BOOLEAN]

Callers == {"none", "mount", "create", "unmount"}

CallRecords(D, n) ==
  [op : Callers, at : {"none", "next", "wait", "hang", "poll", "fork", "waitid"},
   todo : Seq(D), cur : {NoMount} \cup D, taken : Seq(D), base : 0..n,
   exec : {"none"} \cup Execs]

Typed ==
  /\ state \in Seq(States(Len(state))) /\ Len(state) =< MaxStates
  /\ pending \in Seq(DOMAIN state) /\ mounts \in Seq(DOMAIN state)
  /\ nsPidFd \in {NoPid} \cup DOMAIN state
  /\ useNs \in BOOLEAN /\ blacklist \subseteq Execs
  /\ call \in CallRecords(DOMAIN state, Len(mounts))
  /\ procs \subseteq [black : BOOLEAN, in : {NoPid} \cup DOMAIN state]
  /\ ret \in [op : Callers \cup {"link"}, ok : BOOLEAN]

\* Which steps a call can be at, and what it has in hand there.
CallShape ==
  /\ call.op = "none" => call = Idle
  /\ call.op \in {"mount", "create"} => call.at \in {"next", "wait", "hang", "poll", "fork"}
  /\ call.op = "unmount" => call.at \in {"next", "waitid"}
  /\ call.at = "waitid" => call.todo # <<>>
  /\ call.at = "fork" => call.todo = <<>>
  /\ call.at \in {"wait", "hang", "poll"} => call.cur # NoMount
  /\ call.at = "poll" => useNs

\* Every MountState has at most one owner, and exists as long as it has one.
Owned ==
  /\ ToSet(pending) \cap OfCall = {} /\ ToSet(pending) \cap OfThreads = {}
  /\ ToSet(pending) \cap ToSet(mounts) = {} /\ OfCall \cap OfThreads = {}
  /\ OfCall \cap ToSet(mounts) = {} /\ OfThreads \cap ToSet(mounts) = {}
  /\ \A s \in DOMAIN state :
       state[s].alive <=> s \in ToSet(pending) \cup OfCall \cup OfThreads \cup ToSet(mounts)
  /\ IsInjective(pending) /\ IsInjective(mounts)
  /\ call.op \in {"mount", "create"} => IsInjective(call.todo)
  /\ At("poll") => call.cur \notin ToSet(call.todo)

\* What has run: nothing of a mount that is still to be started; and only the
\* thread the call waits for has not answered.
Progress ==
  /\ \A s \in ToSet(pending) : state[s].run = "none"
  /\ call.op \in {"mount", "create"} => \A s \in ToSet(call.todo) : state[s].run = "none"
  /\ At("poll") => state[call.cur].run \in ChildRuns
  /\ \A s \in DOMAIN state : state[s].run = "started" => At("wait") /\ call.cur = s
  /\ \A s \in DOMAIN state :
       state[s].handle => state[s].run \in {"mounted", "looping", "serving", "told", "interrupted"}

\* unmount() has taken the handle of every mount it is done with, unless its
\* child has made a new one since.
Undone ==
  call.op = "unmount" =>
    /\ ToSet(call.todo) \subseteq ToSet(mounts)
    /\ \A s \in ToSet(mounts) \ ToSet(call.todo) :
         state[s].handle => state[s].run \in {"serving", "told", "interrupted"}

IInv == Typed /\ CallShape /\ Owned /\ Progress /\ Undone /\ MountsReachable

-----------------------------------------------------------------------------
(***************************************************************************)
(* Changes to one MountState, and to a set of them.                        *)
(***************************************************************************)
\* Replacing one state by another of the type leaves the others alone.
LEMMA OneChanged ==
  ASSUME NEW n \in Nat, NEW st \in Seq(States(n)), NEW s \in DOMAIN st,
         NEW r \in States(n)
  PROVE  /\ [st EXCEPT ![s] = r] \in Seq(States(n))
         /\ Len([st EXCEPT ![s] = r]) = Len(st)
         /\ DOMAIN [st EXCEPT ![s] = r] = DOMAIN st
         /\ [st EXCEPT ![s] = r][s] = r
         /\ \A q \in DOMAIN st : q # s => [st EXCEPT ![s] = r][q] = st[q]
<1>1. DOMAIN st = 1..Len(st)
  BY LenProperties
<1>. QED  BY <1>1, ExceptSeq

\* The fields of a state can be assigned to.
LEMMA FieldTypes ==
  ASSUME NEW n \in Nat, NEW r \in States(n)
  PROVE  /\ r.run \in Runs /\ r.handle \in BOOLEAN /\ r.alive \in BOOLEAN
         /\ r.links \subseteq Links
         /\ \A x \in Runs : [r EXCEPT !.run = x] \in States(n)
         /\ \A x \in BOOLEAN : /\ [r EXCEPT !.handle = x] \in States(n)
                               /\ [r EXCEPT !.alive = x] \in States(n)
         /\ \A x \in 0..n : [r EXCEPT !.nsFd = x] \in States(n)
         /\ \A x \in SUBSET Links : [r EXCEPT !.links = x] \in States(n)
BY DEF States

\* Destroying states changes nothing of them but that they are alive.
LEMMA DestroyedOnly ==
  ASSUME NEW n \in Nat, NEW st \in Seq(States(n)), NEW S
  PROVE  /\ Destroyed(st, S) \in Seq(States(n))
         /\ Len(Destroyed(st, S)) = Len(st)
         /\ DOMAIN Destroyed(st, S) = DOMAIN st
         /\ \A q \in DOMAIN st :
              /\ q \notin S => Destroyed(st, S)[q] = st[q]
              /\ q \in S => Destroyed(st, S)[q] = [st[q] EXCEPT !.alive = FALSE]
<1>. DEFINE u == Destroyed(st, S)
<1>1. Len(st) \in Nat /\ DOMAIN st = 1..Len(st) /\ st \in [1..Len(st) -> States(n)]
  BY LenProperties
<1>2. DOMAIN u = 1..Len(st) /\ u = [q \in 1..Len(st) |-> u[q]]
  BY <1>1 DEF Destroyed
<1>3. \A q \in DOMAIN st : u[q] = IF q \in S THEN [st[q] EXCEPT !.alive = FALSE] ELSE st[q]
  BY DEF Destroyed
<1>4. \A q \in 1..Len(st) : u[q] \in States(n)
  BY <1>1, <1>3, FieldTypes
<1>. HIDE DEF u
<1>5. u \in [1..Len(st) -> States(n)]
  BY <1>2, <1>4
<1>6. u \in Seq(States(n))
  BY <1>1, <1>5, SeqDef
<1>7. Len(u) = Len(st)
  BY <1>1, <1>2, <1>6, LenProperties
<1>. QED  BY <1>1, <1>2, <1>3, <1>6, <1>7 DEF u

\* A step that changes one state and none of its type keeps Typed, as far as
\* the states are concerned.
LEMMA StateStep ==
  ASSUME Typed, NEW s \in DOMAIN state, NEW r \in States(Len(state)),
         state' = [state EXCEPT ![s] = r]
  PROVE  /\ state' \in Seq(States(Len(state'))) /\ Len(state') = Len(state)
         /\ Len(state) \in Nat /\ DOMAIN state' = DOMAIN state
         /\ state'[s] = r
         /\ \A q \in DOMAIN state : q # s => state'[q] = state[q]
<1>1. Len(state) \in Nat /\ state \in Seq(States(Len(state)))
  BY LenProperties DEF Typed
<1>. QED  BY <1>1, OneChanged

\* What the invariant says of a state, in the form the steps need it.
LEMMA StateTypes ==
  ASSUME Typed, NEW s \in DOMAIN state
  PROVE  /\ Len(state) \in Nat /\ DOMAIN state = 1..Len(state)
         /\ state[s] \in States(Len(state))
<1>. QED  BY LenProperties, ElementOfSeq DEF Typed

\* What the lists and the call hold are states that have been made.
LEMMA HeldAreMade ==
  ASSUME Typed
  PROVE  /\ ToSet(pending) \subseteq DOMAIN state /\ ToSet(mounts) \subseteq DOMAIN state
         /\ ToSet(call.todo) \subseteq DOMAIN state /\ ToSet(call.taken) \subseteq DOMAIN state
         /\ call.todo \in Seq(DOMAIN state) /\ call.taken \in Seq(DOMAIN state)
         /\ call.cur # NoMount => call.cur \in DOMAIN state
         /\ NoMount \notin DOMAIN state
<1>1. call.todo \in Seq(DOMAIN state) /\ call.taken \in Seq(DOMAIN state)
  BY DEF Typed, CallRecords
<1>2. NoMount \notin DOMAIN state
  BY LenProperties DEF Typed, NoMount
<1>. QED  BY <1>1, <1>2, ListOf DEF Typed, CallRecords

-----------------------------------------------------------------------------
(***************************************************************************)
(* Every step preserves the invariant.                                     *)
(***************************************************************************)
\* What a thread that has answered or a child may do to the state it runs:
\* nothing that only the call may, and no handle but a child's.
LEMMA RunStep ==
  ASSUME IInv, NEW s \in DOMAIN state, NEW r \in States(Len(state)),
         state' = [state EXCEPT ![s] = r],
         UNCHANGED <<pending, mounts, nsPidFd, config, call, procs, ret>>,
         state[s].run # "none", r.run \notin {"none", "started"},
         state[s].run \in ChildRuns => r.run \in ChildRuns,
         \/ r.alive = state[s].alive /\ (s \in OfThreads <=> r.run = "failed")
         \/ ~r.alive /\ s \in OfThreads /\ r.run = "returned",
         r.handle => \/ r.run = "serving"
                     \/ state[s].handle /\ r.run = "looping" /\ state[s].run = "mounted"
  PROVE  IInv'
<1>. USE DEF IInv
<1>1. /\ state' \in Seq(States(Len(state'))) /\ Len(state') = Len(state)
      /\ DOMAIN state' = DOMAIN state /\ state'[s] = r
      /\ \A q \in DOMAIN state : q # s => state'[q] = state[q]
  BY StateStep
<1>2. /\ pending' = pending /\ mounts' = mounts /\ call' = call
      /\ UNCHANGED <<nsPidFd, config, procs, ret>>
  OBVIOUS
<1>3. r.run \in Runs /\ r.handle \in BOOLEAN /\ r.alive \in BOOLEAN
  BY DEF States
<1>4. OfCall' = OfCall
  BY <1>2 DEF OfCall
<1>5. OfThreads' = IF r.run = "failed" THEN OfThreads ELSE OfThreads \ {s}
  BY <1>1 DEF OfThreads
<1>6. s \notin ToSet(pending)
  BY DEF Progress
<1>7. call.op \in {"mount", "create"} => s \notin ToSet(call.todo)
  BY DEF Progress
<1>8. Typed'
  BY <1>1, <1>2 DEF Typed, config, CallRecords
<1>9. CallShape'
  BY <1>2 DEF CallShape, config, Idle
<1>10. Owned'
  <2>1. \A q \in DOMAIN state' :
          state'[q].alive <=> q \in ToSet(pending) \cup OfCall \cup OfThreads' \cup ToSet(mounts)
    BY <1>1, <1>5 DEF Owned
  <2>. QED  BY <1>2, <1>4, <1>5, <2>1 DEF Owned, At
<1>11. Progress'
  <2>1. \A q \in ToSet(pending') : state'[q].run = "none"
    BY <1>1, <1>2, <1>6, HeldAreMade DEF Progress
  <2>2. (call.op \in {"mount", "create"})' => \A q \in ToSet(call'.todo) : state'[q].run = "none"
    BY <1>1, <1>2, <1>7, HeldAreMade DEF Progress
  <2>3. At("poll")' => state'[call'.cur].run \in ChildRuns
    BY <1>1, <1>2, HeldAreMade DEF Progress, CallShape, At
  <2>4. \A q \in DOMAIN state' : state'[q].run = "started" => At("wait")' /\ call'.cur = q
    BY <1>1, <1>2 DEF Progress, At
  <2>5. \A q \in DOMAIN state' :
          state'[q].handle => state'[q].run \in {"mounted", "looping", "serving", "told", "interrupted"}
    BY <1>1 DEF Progress
  <2>. QED  BY <2>1, <2>2, <2>3, <2>4, <2>5 DEF Progress
<1>12. Undone'
  BY <1>1, <1>2, HeldAreMade DEF Undone
<1>13. MountsReachable'
  <2>1. ASSUME NEW q \in DOMAIN state, state'[q].handle
        PROVE  \/ q \in ToSet(mounts) \cup OfCall
               \/ state'[q].run \in {"serving", "told", "interrupted"} /\ ~state'[q].alive
    <3>1. CASE q # s
      BY <1>1, <2>1, <3>1 DEF MountsReachable
    <3>2. CASE q = s /\ r.run = "serving"
      BY <1>1, <1>6, <2>1, <3>2 DEF Owned
    <3>3. CASE q = s /\ r.run # "serving"
      BY <1>1, <2>1, <3>3 DEF MountsReachable
    <3>. QED  BY <3>1, <3>2, <3>3
  <2>. QED  BY <1>1, <1>2, <1>4, <2>1 DEF MountsReachable
<1>. QED  BY <1>8, <1>9, <1>10, <1>11, <1>12, <1>13

\* The thread of a mount: it answers, enters its loop and leaves it.
LEMMA ThreadStep ==
  ASSUME IInv, NEW s \in DOMAIN state, Thread(s)
  PROVE  IInv'
<1>. USE DEF IInv
<1>1. state[s] \in States(Len(state)) /\ s # NoMount
  BY StateTypes DEF NoMount
<1>2. CASE ThreadMounts(s)
  <2>. DEFINE r == [state[s] EXCEPT !.run = "mounted", !.handle = TRUE]
  <2>1. r \in States(Len(state)) /\ state' = [state EXCEPT ![s] = r]
    BY <1>1, <1>2 DEF ThreadMounts, States, Runs, ThreadRuns
  <2>2. r.run = "mounted" /\ r.handle /\ r.alive = state[s].alive
    BY <1>1 DEF States
  <2>. HIDE DEF r
  <2>3. /\ state' \in Seq(States(Len(state'))) /\ Len(state') = Len(state)
        /\ DOMAIN state' = DOMAIN state /\ state'[s] = r
        /\ \A q \in DOMAIN state : q # s => state'[q] = state[q]
    BY <2>1, StateStep
  <2>4. /\ mounts' \in Seq(DOMAIN state) /\ ToSet(mounts') = ToSet(mounts) \cup {s}
        /\ Len(mounts') = Len(mounts) + 1 /\ Len(mounts) \in Nat
        /\ IsInjective(mounts) /\ s \notin ToSet(mounts) => IsInjective(mounts')
    BY <1>2, AppendList, AppendProperties, LenProperties DEF ThreadMounts, Typed
  <2>5. UNCHANGED <<pending, nsPidFd, config, call, procs, ret>> /\ state[s].run = "started"
    BY <1>2 DEF ThreadMounts
  <2>6. At("wait") /\ call.cur = s /\ s \in OfThreads
    BY <2>5 DEF Progress, OfThreads
  <2>7. OfThreads' = OfThreads \ {s} /\ OfCall' = OfCall
    BY <2>2, <2>3, <2>5, <2>6 DEF OfThreads, OfCall
  <2>8. Typed'
    BY <2>3, <2>4, <2>5 DEF Typed, config, CallRecords
  <2>9. CallShape'
    BY <2>5 DEF CallShape, config, Idle
  <2>10. Owned'
    BY <2>2, <2>3, <2>4, <2>5, <2>6, <2>7 DEF Owned, At
  <2>11. Progress'
    <3>1. s \notin ToSet(pending) /\ s \notin ToSet(call.todo)
      BY <2>6 DEF Owned, OfCall, At
    <3>2. \A q \in ToSet(pending') : state'[q].run = "none"
      BY <2>3, <2>5, <3>1, HeldAreMade DEF Progress
    <3>3. (call.op \in {"mount", "create"})' => \A q \in ToSet(call'.todo) : state'[q].run = "none"
      BY <2>3, <2>5, <3>1, HeldAreMade DEF Progress
    <3>4. At("poll")' => state'[call'.cur].run \in ChildRuns
      BY <2>5, <2>6 DEF At
    <3>5. \A q \in DOMAIN state' : state'[q].run = "started" => At("wait")' /\ call'.cur = q
      BY <2>2, <2>3, <2>5, <2>6 DEF Progress, At
    <3>6. \A q \in DOMAIN state' :
            state'[q].handle => state'[q].run \in {"mounted", "looping", "serving", "told", "interrupted"}
      BY <2>2, <2>3 DEF Progress
    <3>. QED  BY <3>2, <3>3, <3>4, <3>5, <3>6 DEF Progress
  <2>12. Undone'
    BY <2>5, <2>6 DEF Undone, At
  <2>13. MountsReachable'
    BY <2>3, <2>4, <2>7 DEF MountsReachable
  <2>. QED  BY <2>8, <2>9, <2>10, <2>11, <2>12, <2>13
<1>3. CASE ThreadFails(s)
  <2>. DEFINE r == [state[s] EXCEPT !.run = "failed"]
  <2>1. r \in States(Len(state)) /\ state' = [state EXCEPT ![s] = r]
    BY <1>1, <1>3 DEF ThreadFails, States, Runs, ThreadRuns
  <2>2. r.run = "failed" /\ r.handle = state[s].handle /\ r.alive = state[s].alive
    BY <1>1 DEF States
  <2>3. ~r.handle
    BY <1>3, <2>2 DEF ThreadFails, Progress
  <2>. HIDE DEF r
  <2>. QED  BY <1>3, <2>1, <2>2, <2>3, RunStep DEF ThreadFails, OfThreads, ChildRuns, Running
<1>4. CASE ThreadFrees(s)
  <2>. DEFINE r == [state[s] EXCEPT !.run = "returned", !.alive = FALSE]
  <2>1. r \in States(Len(state)) /\ state' = [state EXCEPT ![s] = r]
    BY <1>1, <1>4 DEF ThreadFrees, States, Runs, ThreadRuns
  <2>2. r.run = "returned" /\ r.handle = state[s].handle /\ ~r.alive
    BY <1>1 DEF States
  <2>3. ~r.handle
    BY <1>4, <2>2 DEF ThreadFrees, Progress
  <2>. HIDE DEF r
  <2>. QED  BY <1>4, <2>1, <2>2, <2>3, RunStep DEF ThreadFrees, OfThreads, ChildRuns, Running
<1>5. CASE ThreadLoops(s)
  <2>. DEFINE r == [state[s] EXCEPT !.run = "looping"]
  <2>1. r \in States(Len(state)) /\ state' = [state EXCEPT ![s] = r]
    BY <1>1, <1>5 DEF ThreadLoops, States, Runs, ThreadRuns
  <2>2. r.run = "looping" /\ r.handle = state[s].handle /\ r.alive = state[s].alive
    BY <1>1 DEF States
  <2>. HIDE DEF r
  <2>. QED  BY <1>5, <2>1, <2>2, RunStep DEF ThreadLoops, OfThreads, ChildRuns, Running
<1>6. CASE ThreadReturns(s)
  <2>. DEFINE r == [state[s] EXCEPT !.run = "returned"]
  <2>1. r \in States(Len(state)) /\ state' = [state EXCEPT ![s] = r]
    BY <1>1, <1>6 DEF ThreadReturns, States, Runs, ThreadRuns
  <2>2. r.run = "returned" /\ r.handle = state[s].handle /\ r.alive = state[s].alive
    BY <1>1 DEF States
  <2>. HIDE DEF r
  <2>. QED  BY <1>6, <2>1, <2>2, RunStep DEF ThreadReturns, OfThreads, ChildRuns, Running
<1>. QED  BY <1>2, <1>3, <1>4, <1>5, <1>6 DEF Thread

\* The child of a mount: it mounts or fails, ends, sees that it has been told to,
\* or dies.
LEMMA ChildStep ==
  ASSUME IInv, NEW s \in DOMAIN state, Child(s) \/ ChildNotices(s) \/ ChildDies(s)
  PROVE  IInv'
<1>. USE DEF IInv
<1>1. state[s] \in States(Len(state)) /\ s # NoMount
  BY StateTypes DEF NoMount
<1>2. CASE ChildMounts(s)
  <2>. DEFINE r == [state[s] EXCEPT !.run = "serving", !.handle = TRUE]
  <2>1. r \in States(Len(state)) /\ state' = [state EXCEPT ![s] = r]
    BY <1>1, <1>2 DEF ChildMounts, States, Runs, ChildRuns, Running
  <2>2. r.run = "serving" /\ r.alive = state[s].alive
    BY <1>1 DEF States
  <2>. HIDE DEF r
  <2>. QED  BY <1>2, <2>1, <2>2, RunStep DEF ChildMounts, OfThreads, ChildRuns, Running
<1>3. CASE ChildFails(s)
  <2>. DEFINE r == [state[s] EXCEPT !.run = "exited"]
  <2>1. r \in States(Len(state)) /\ state' = [state EXCEPT ![s] = r]
    BY <1>1, <1>3 DEF ChildFails, States, Runs, ChildRuns
  <2>2. r.run = "exited" /\ r.handle = state[s].handle /\ r.alive = state[s].alive
    BY <1>1 DEF States
  <2>3. ~r.handle
    BY <1>3, <2>2 DEF ChildFails, Progress
  <2>. HIDE DEF r
  <2>. QED  BY <1>3, <2>1, <2>2, <2>3, RunStep DEF ChildFails, OfThreads, ChildRuns, Running
<1>4. CASE ChildEnds(s) \/ ChildNotices(s) \/ ChildDies(s)
  <2>. DEFINE r == [state[s] EXCEPT !.run = "exited", !.handle = FALSE]
  <2>1. r \in States(Len(state)) /\ state' = [state EXCEPT ![s] = r]
    BY <1>1, <1>4 DEF ChildEnds, ChildNotices, ChildDies, ChildExits, States, Runs, ChildRuns
  <2>2. r.run = "exited" /\ ~r.handle /\ r.alive = state[s].alive
    BY <1>1 DEF States
  <2>3. state[s].run \in Running
    BY <1>4 DEF ChildEnds, ChildNotices, ChildDies, Running
  <2>. HIDE DEF r
  <2>. QED  BY <1>4, <2>1, <2>2, <2>3, RunStep
            DEF ChildEnds, ChildNotices, ChildDies, ChildExits, OfThreads, ChildRuns, Running
<1>. QED  BY <1>2, <1>3, <1>4 DEF Child

\* A link that joins a pending mount.
LEMMA JoinStep ==
  ASSUME IInv, NEW l \in Links, Joined(l), call = Idle, ret' \in [op : {"link"}, ok : BOOLEAN],
         UNCHANGED <<mounts, nsPidFd, config, call, procs>>
  PROVE  IInv'
<1>. USE DEF IInv
<1>1. PICK s \in ToSet(pending) : state' = [state EXCEPT ![s].links = @ \cup {l}]
  BY DEF Joined, PendingAt
<1>. DEFINE r == [state[s] EXCEPT !.links = @ \cup {l}]
<1>2. s \in DOMAIN state /\ state[s] \in States(Len(state))
  BY HeldAreMade, StateTypes
<1>3. r \in States(Len(state)) /\ state' = [state EXCEPT ![s] = r]
  BY <1>1, <1>2 DEF States
<1>4. r.run = state[s].run /\ r.handle = state[s].handle /\ r.alive = state[s].alive
  BY <1>2 DEF States
<1>. HIDE DEF r
<1>5. /\ state' \in Seq(States(Len(state'))) /\ Len(state') = Len(state)
      /\ DOMAIN state' = DOMAIN state /\ state'[s] = r
      /\ \A q \in DOMAIN state : q # s => state'[q] = state[q]
  BY <1>2, <1>3, StateStep
<1>6. \A q \in DOMAIN state : /\ state'[q].run = state[q].run
                              /\ state'[q].handle = state[q].handle
                              /\ state'[q].alive = state[q].alive
  BY <1>4, <1>5
<1>7. /\ pending' = pending /\ mounts' = mounts /\ call' = call
      /\ UNCHANGED <<nsPidFd, config, procs>>
  BY DEF Joined
<1>8. OfCall' = OfCall /\ OfThreads' = OfThreads
  BY <1>5, <1>6, <1>7 DEF OfCall, OfThreads
<1>9. Typed'
  BY <1>5, <1>7 DEF Typed, config, CallRecords, Callers
<1>10. CallShape' /\ Undone'
  BY <1>7 DEF CallShape, Undone, config, Idle
<1>11. Owned'
  BY <1>5, <1>6, <1>7, <1>8 DEF Owned, At
<1>12. Progress'
  BY <1>5, <1>6, <1>7, HeldAreMade DEF Progress, At, Idle
<1>13. MountsReachable'
  BY <1>5, <1>6, <1>7, <1>8 DEF MountsReachable
<1>. QED  BY <1>9, <1>10, <1>11, <1>12, <1>13

\* A link that makes a pending mount of its own.
LEMMA EnqueueStep ==
  ASSUME IInv, NEW l \in Links, Enqueued(l), call = Idle, ret' \in [op : {"link"}, ok : BOOLEAN],
         UNCHANGED <<mounts, nsPidFd, config, call, procs>>
  PROVE  IInv'
<1>. USE DEF IInv
<1>. DEFINE n == Len(state) + 1
            r == NewState(l)
<1>1. /\ Len(state) < MaxStates /\ state' = Append(state, r) /\ pending' = Append(pending, n)
      /\ mounts' = mounts /\ call' = call /\ UNCHANGED <<nsPidFd, config, procs>>
  BY DEF Enqueued
<1>2. Len(state) \in Nat /\ DOMAIN state = 1..Len(state) /\ state \in Seq(States(Len(state)))
  BY LenProperties DEF Typed
<1>3. States(Len(state)) \subseteq States(n) /\ r \in States(n)
  BY <1>2 DEF States, NewState, Runs, NoPid
<1>4. r.run = "none" /\ ~r.handle /\ r.alive
  BY DEF NewState
<1>5. state \in Seq(States(n))
  BY <1>2, <1>3, SeqMonotonic
<1>. HIDE DEF r
<1>6. /\ state' \in Seq(States(n)) /\ Len(state') = n
      /\ \A q \in 1..Len(state) : state'[q] = state[q]
      /\ state'[n] = r
  BY <1>1, <1>3, <1>5, AppendProperties
<1>7. DOMAIN state' = DOMAIN state \cup {n} /\ n \notin DOMAIN state
  BY <1>2, <1>6, LenProperties
<1>8. \A q \in Seq(DOMAIN state) : q \in Seq(DOMAIN state')
  BY <1>7, SeqMonotonic
<1>9. n \notin ToSet(pending) /\ n \notin ToSet(mounts)
  BY <1>7, HeldAreMade
<1>10. /\ pending' \in Seq(DOMAIN state') /\ ToSet(pending') = ToSet(pending) \cup {n}
       /\ IsInjective(pending) => IsInjective(pending')
  BY <1>1, <1>7, <1>8, <1>9, AppendList DEF Typed
<1>11. OfCall' = {} /\ OfCall = {}
  BY <1>1 DEF OfCall, Idle
<1>12. OfThreads' = OfThreads
  BY <1>2, <1>4, <1>6, <1>7 DEF OfThreads
<1>13. OfThreads \subseteq DOMAIN state
  BY DEF OfThreads
<1>14. Typed'
  <2>1. call' \in CallRecords(DOMAIN state', Len(mounts'))
    BY <1>1, <1>7, <1>8 DEF Typed, CallRecords
  <2>2. Len(state') =< MaxStates
    BY <1>1, <1>2, <1>6, ManagerAssumption
  <2>. QED  BY <1>1, <1>6, <1>7, <1>8, <1>10, <2>1, <2>2 DEF Typed, config, Callers
<1>15. CallShape' /\ Undone'
  BY <1>1 DEF CallShape, Undone, config, Idle
<1>16. Owned'
  <2>1. \A q \in DOMAIN state' :
          state'[q].alive <=> q \in ToSet(pending') \cup OfCall \cup OfThreads \cup ToSet(mounts)
    BY <1>2, <1>4, <1>6, <1>7, <1>10 DEF Owned
  <2>. QED  BY <1>1, <1>7, <1>9, <1>10, <1>11, <1>12, <1>13, <2>1 DEF Owned, At, Idle
<1>17. Progress'
  <2>1. \A q \in ToSet(pending') : state'[q].run = "none"
    BY <1>2, <1>4, <1>6, <1>10, HeldAreMade DEF Progress
  <2>2. \A q \in DOMAIN state' : state'[q].run # "started"
    BY <1>2, <1>4, <1>6, <1>7 DEF Progress, At, Idle
  <2>3. \A q \in DOMAIN state' :
          state'[q].handle => state'[q].run \in {"mounted", "looping", "serving", "told", "interrupted"}
    BY <1>2, <1>4, <1>6, <1>7 DEF Progress
  <2>4. call'.op = "none"
    BY <1>1 DEF Idle
  <2>. QED  BY <2>1, <2>2, <2>3, <2>4 DEF Progress, At
<1>18. MountsReachable'
  BY <1>1, <1>2, <1>4, <1>6, <1>7, <1>11 DEF MountsReachable
<1>. QED  BY <1>14, <1>15, <1>16, <1>17, <1>18

\* Pending mounts that go, all of them, with what they are.
LEMMA PendingDestroyed ==
  ASSUME IInv, pending' = <<>>, state' = Destroyed(state, ToSet(pending)),
         call = Idle, ret' \in [op : Callers \cup {"link"}, ok : BOOLEAN],
         UNCHANGED <<mounts, nsPidFd, config, call, procs>>
  PROVE  IInv'
<1>. USE DEF IInv
<1>1. Len(state) \in Nat /\ state \in Seq(States(Len(state)))
  BY LenProperties DEF Typed
<1>2. /\ state' \in Seq(States(Len(state'))) /\ Len(state') = Len(state)
      /\ DOMAIN state' = DOMAIN state
  BY <1>1, DestroyedOnly
<1>3. \A q \in DOMAIN state :
        /\ state'[q].run = state[q].run /\ state'[q].handle = state[q].handle
        /\ state'[q].alive <=> state[q].alive /\ q \notin ToSet(pending)
  <2>. SUFFICES ASSUME NEW q \in DOMAIN state
                PROVE  /\ state'[q].run = state[q].run /\ state'[q].handle = state[q].handle
                       /\ state'[q].alive <=> state[q].alive /\ q \notin ToSet(pending)
    OBVIOUS
  <2>1. state[q] \in States(Len(state))
    BY StateTypes
  <2>2. /\ q \notin ToSet(pending) => state'[q] = state[q]
        /\ q \in ToSet(pending) => state'[q] = [state[q] EXCEPT !.alive = FALSE]
    BY <1>1, DestroyedOnly
  <2>. QED  BY <2>1, <2>2 DEF States
<1>4. /\ pending' = <<>> /\ mounts' = mounts /\ call' = call /\ UNCHANGED <<nsPidFd, config, procs>>
  OBVIOUS
<1>5. /\ ToSet(pending') = {} /\ IsInjective(pending') /\ pending' \in Seq(DOMAIN state')
      /\ OfCall' = {} /\ OfCall = {} /\ OfThreads' = OfThreads
  BY <1>2, <1>3, <1>4, EmptyList DEF OfCall, OfThreads, Idle
<1>6. Typed'
  BY <1>2, <1>4, <1>5 DEF Typed, config, CallRecords
<1>7. CallShape' /\ Undone'
  BY <1>4 DEF CallShape, Undone, config, Idle
<1>8. Owned'
  BY <1>2, <1>3, <1>4, <1>5 DEF Owned, At, Idle
<1>9. Progress'
  <2>1. \A q \in DOMAIN state' : state'[q].run # "started"
    BY <1>2, <1>3 DEF Progress, At, Idle
  <2>2. \A q \in DOMAIN state' :
          state'[q].handle => state'[q].run \in {"mounted", "looping", "serving", "told", "interrupted"}
    BY <1>2, <1>3 DEF Progress
  <2>. QED  BY <1>4, <1>5, <2>1, <2>2 DEF Progress, At, Idle
<1>10. MountsReachable'
  BY <1>2, <1>3, <1>4, <1>5 DEF MountsReachable
<1>. QED  BY <1>6, <1>7, <1>8, <1>9, <1>10

\* A step that leaves the states, the lists and the call alone.
LEMMA SettingStep ==
  ASSUME IInv, UNCHANGED <<pending, mounts, nsPidFd, state, call>>,
         useNs' \in BOOLEAN, call # Idle => useNs' = useNs, blacklist' \subseteq Execs,
         procs' \subseteq [black : BOOLEAN, in : {NoPid} \cup DOMAIN state],
         ret' \in [op : Callers \cup {"link"}, ok : BOOLEAN]
  PROVE  IInv'
<1>. USE DEF IInv
<1>1. /\ pending' = pending /\ mounts' = mounts /\ nsPidFd' = nsPidFd /\ state' = state
      /\ call' = call
  OBVIOUS
<1>2. OfCall' = OfCall /\ OfThreads' = OfThreads
  BY <1>1 DEF OfCall, OfThreads
<1>3. CallShape'
  BY <1>1 DEF CallShape, Idle
<1>4. Typed'
  BY <1>1 DEF Typed
<1>5. Owned' /\ Progress'
  BY <1>1, <1>2 DEF Owned, Progress, At
<1>6. Undone' /\ MountsReachable'
  BY <1>1, <1>2 DEF Undone, MountsReachable
<1>. QED  BY <1>3, <1>4, <1>5, <1>6

\* Links, settings, and processes that exit.
LEMMA SettingsStep ==
  ASSUME IInv, Settings \/ \E p \in procs : ProcessExits(p)
  PROVE  IInv'
<1>. USE DEF IInv
<1>1. ASSUME NEW l \in Links, LinkDirectory(l)  PROVE IInv'
  BY <1>1, JoinStep, EnqueueStep DEF LinkDirectory, Answer
<1>2. ASSUME NEW l \in Links, LinkFile(l)  PROVE IInv'
  <2>1. PICK ok \in BOOLEAN : Answer("link", ok)
    BY <1>2, Zenon DEF LinkFile
  <2>2. ret' \in [op : {"link"}, ok : BOOLEAN]
    BY <2>1 DEF Answer
  <2>3. Joined(l) \/ Enqueued(l)
    BY <1>2 DEF LinkFile
  <2>. QED  BY <1>2, <2>2, <2>3, JoinStep, EnqueueStep DEF LinkFile
<1>3. ASSUME NEW l \in Links, LinkRefused(l)  PROVE IInv'
  <2>1. ret' \in [op : Callers \cup {"link"}, ok : BOOLEAN]
    BY <1>3 DEF LinkRefused, Answer
  <2>. QED  BY <1>3, <2>1, SettingStep DEF LinkRefused, config, Typed
<1>4. CASE ClearVirtualMappings
  BY <1>4, PendingDestroyed DEF ClearVirtualMappings, Typed
<1>5. CASE ClearExecutableBlacklist
  BY <1>5, SettingStep DEF ClearExecutableBlacklist, Typed
<1>6. ASSUME NEW value \in BOOLEAN, SetUseMountNamespace(value)  PROVE IInv'
  BY <1>6, SettingStep DEF SetUseMountNamespace, Typed
<1>7. ASSUME NEW e \in Execs, BlacklistExecutable(e)  PROVE IInv'
  BY <1>7, SettingStep DEF BlacklistExecutable, Typed
<1>8. ASSUME NEW p \in procs, ProcessExits(p)  PROVE IInv'
  BY <1>8, SettingStep DEF ProcessExits, config, Typed
<1>. QED  BY <1>1, <1>2, <1>3, <1>4, <1>5, <1>6, <1>7, <1>8 DEF Settings

-----------------------------------------------------------------------------
\* A call that starts to mount takes every pending mount.
LEMMA StartMountingStep ==
  ASSUME IInv, call = Idle, NEW op \in {"mount", "create"}, NEW e \in {"none"} \cup Execs,
         StartMounting(op, e), UNCHANGED procs
  PROVE  IInv'
<1>. USE DEF IInv
<1>1. CASE state' = Destroyed(state, ToSet(pending)) /\ Answer(op, FALSE) /\ UNCHANGED call
  <2>1. ret' \in [op : Callers \cup {"link"}, ok : BOOLEAN]
    BY <1>1 DEF Answer, Callers
  <2>. QED  BY <1>1, <2>1, PendingDestroyed DEF StartMounting
<1>2. CASE /\ call' = [Idle EXCEPT !.op = op, !.at = "next", !.todo = pending,
                                   !.taken = pending, !.base = Len(mounts), !.exec = e]
           /\ UNCHANGED <<state, ret>>
  <2>1. /\ pending' = <<>> /\ mounts' = mounts /\ state' = state
        /\ UNCHANGED <<nsPidFd, config, procs, ret>>
    BY <1>2 DEF StartMounting
  <2>2. /\ call'.op = op /\ call'.at = "next" /\ call'.todo = pending /\ call'.taken = pending
        /\ call'.cur = NoMount /\ call'.base = Len(mounts) /\ call'.exec = e
    BY <1>2 DEF Idle
  <2>3. ToSet(pending') = {} /\ IsInjective(pending') /\ pending' \in Seq(DOMAIN state)
    BY <2>1, EmptyList
  <2>4. OfCall = {} /\ OfCall' = ToSet(pending) /\ OfThreads' = OfThreads
    BY <2>1, <2>2 DEF OfCall, OfThreads, Idle
  <2>5. Typed'
    <3>1. Len(mounts) \in Nat
      BY LenProperties DEF Typed
    <3>2. call' \in CallRecords(DOMAIN state', Len(mounts'))
      <4>1. call' = [op |-> op, at |-> "next", todo |-> pending, cur |-> NoMount,
                     taken |-> pending, base |-> Len(mounts), exec |-> e]
        BY <1>2 DEF Idle
      <4>2. Len(mounts) \in 0..Len(mounts) /\ pending \in Seq(DOMAIN state)
        BY <3>1 DEF Typed
      <4>. QED  BY <2>1, <4>1, <4>2 DEF CallRecords, Callers
    <3>. QED  BY <2>1, <2>3, <3>2 DEF Typed, config
  <2>6. CallShape' /\ Undone'
    BY <2>2 DEF CallShape, Undone
  <2>7. Owned'
    BY <2>1, <2>2, <2>3, <2>4 DEF Owned, At
  <2>8. \A s \in DOMAIN state : state[s].run # "started"
    BY DEF Progress, At, Idle
  <2>9. Progress'
    BY <2>1, <2>2, <2>3, <2>8 DEF Progress, At
  <2>10. MountsReachable'
    BY <2>1, <2>4 DEF MountsReachable
  <2>. QED  BY <2>5, <2>6, <2>7, <2>9, <2>10
<1>. QED  BY <1>1, <1>2 DEF StartMounting

\* A step of the call that moves no mount and leaves no thread unanswered.
LEMMA CallMovesStep ==
  ASSUME IInv, UNCHANGED <<pending, mounts, nsPidFd, config, state>>,
         call' \in CallRecords(DOMAIN state, Len(mounts)), CallShape',
         procs' \subseteq [black : BOOLEAN, in : {NoPid} \cup DOMAIN state],
         ret' \in [op : Callers \cup {"link"}, ok : BOOLEAN],
         OfCall' = OfCall, ~At("poll")',
         call'.op \in {"mount", "create"} =>
           call'.todo = <<>> \/ (call'.todo = call.todo /\ call.op \in {"mount", "create"}),
         \A s \in DOMAIN state : state[s].run # "started",
         call'.op = "unmount" => \/ call'.todo = mounts
                                 \/ call.op = "unmount" /\ call'.todo = call.todo
  PROVE  IInv'
<1>. USE DEF IInv
<1>1. /\ pending' = pending /\ mounts' = mounts /\ nsPidFd' = nsPidFd /\ state' = state
      /\ UNCHANGED config
  OBVIOUS
<1>2. OfThreads' = OfThreads
  BY <1>1 DEF OfThreads
<1>3. Typed'
  BY <1>1 DEF Typed, config
<1>4. Owned'
  <2>1. call'.op \in {"mount", "create"} => IsInjective(call'.todo)
    BY EmptyList DEF Owned
  <2>. QED  BY <1>1, <1>2, <2>1 DEF Owned
<1>5. Progress'
  <2>1. call'.op \in {"mount", "create"} => \A s \in ToSet(call'.todo) : state[s].run = "none"
    BY EmptyList DEF Progress
  <2>. QED  BY <1>1, <2>1 DEF Progress
<1>6. Undone' /\ MountsReachable'
  BY <1>1 DEF Undone, MountsReachable
<1>. QED  BY <1>3, <1>4, <1>5, <1>6

\* A call that returns having nothing in hand.
LEMMA ReturnStep ==
  ASSUME IInv, UNCHANGED <<pending, mounts, nsPidFd, config, state>>, call' = Idle,
         procs' \subseteq [black : BOOLEAN, in : {NoPid} \cup DOMAIN state],
         ret' \in [op : Callers \cup {"link"}, ok : BOOLEAN],
         OfCall = {}, ~At("wait")
  PROVE  IInv'
<1>. USE DEF IInv
<1>1. call'.op = "none" /\ OfCall' = {} /\ ~At("poll")' /\ CallShape'
  BY DEF OfCall, Idle, At, CallShape
<1>2. call' \in CallRecords(DOMAIN state, Len(mounts))
  <2>1. Len(mounts) \in Nat
    BY LenProperties DEF Typed
  <2>. QED  BY <2>1, EmptyList DEF CallRecords, Idle, Callers
<1>3. \A s \in DOMAIN state : state[s].run # "started"
  BY DEF Progress
<1>. QED  BY <1>1, <1>2, <1>3, CallMovesStep

\* A call that gives up destroys what it still has in hand, none of which a
\* thread runs.
LEMMA GiveUpStep ==
  ASSUME IInv, call.op \in {"mount", "create"}, NEW st \in Seq(States(Len(state))),
         Len(st) = Len(state), GiveUp(st, OfCall),
         \A s \in DOMAIN state : state[s].run # "started",
         \A s \in DOMAIN state :
           /\ st[s].handle = state[s].handle /\ st[s].alive = state[s].alive
           /\ \/ st[s].run = state[s].run
              \/ At("poll") /\ s = call.cur /\ ~state[s].handle /\ st[s].run = "reaped"
  PROVE  IInv'
<1>. USE DEF IInv
<1>1. /\ pending' = pending /\ mounts' = mounts /\ nsPidFd' = nsPidFd /\ procs' = procs
      /\ UNCHANGED config /\ state' = Destroyed(st, OfCall) /\ call' = Idle
      /\ ret' = [op |-> call.op, ok |-> FALSE]
  BY DEF GiveUp, Answer
<1>2. Len(state) \in Nat /\ DOMAIN state = 1..Len(state) /\ DOMAIN st = DOMAIN state
  BY LenProperties DEF Typed
<1>3. /\ state' \in Seq(States(Len(state'))) /\ Len(state') = Len(state)
      /\ DOMAIN state' = DOMAIN state
  BY <1>1, <1>2, DestroyedOnly
<1>4. \A q \in DOMAIN state :
        /\ state'[q].run = st[q].run /\ state'[q].handle = state[q].handle
        /\ state'[q].alive <=> state[q].alive /\ q \notin OfCall
  <2>. SUFFICES ASSUME NEW q \in DOMAIN state
                PROVE  /\ state'[q].run = st[q].run /\ state'[q].handle = state[q].handle
                       /\ state'[q].alive <=> state[q].alive /\ q \notin OfCall
    OBVIOUS
  <2>1. st[q] \in States(Len(state))
    BY <1>2, ElementOfSeq
  <2>2. /\ q \notin OfCall => state'[q] = st[q]
        /\ q \in OfCall => state'[q] = [st[q] EXCEPT !.alive = FALSE]
    BY <1>1, <1>2, DestroyedOnly
  <2>. QED  BY <2>1, <2>2 DEF States
<1>5. OfCall' = {} /\ call'.op = "none" /\ ~At("poll")' /\ CallShape'
  BY <1>1 DEF OfCall, Idle, At, CallShape
<1>6. call.cur \in OfCall \/ ~At("poll")
  BY DEF OfCall, At
<1>7. OfThreads' = OfThreads
  BY <1>3, <1>4, <1>6 DEF OfThreads, Owned, Progress, ChildRuns, Running
<1>8. Typed'
  <2>1. call' \in CallRecords(DOMAIN state', Len(mounts'))
    <3>1. Len(mounts) \in Nat
      BY LenProperties DEF Typed
    <3>. QED  BY <1>1, <3>1, EmptyList DEF CallRecords, Idle, Callers
  <2>2. ret' \in [op : Callers \cup {"link"}, ok : BOOLEAN]
    BY <1>1 DEF Callers
  <2>. QED  BY <1>1, <1>3, <2>1, <2>2 DEF Typed, config
<1>9. Undone'
  BY <1>5 DEF Undone
<1>10. Owned'
  BY <1>1, <1>3, <1>4, <1>5, <1>7 DEF Owned
<1>11. Progress'
  <2>1. \A q \in ToSet(pending) : state'[q].run = "none"
    <3>1. At("poll") => call.cur \notin ToSet(pending)
      BY <1>6 DEF Owned
    <3>2. \A q \in ToSet(pending) : st[q].run = state[q].run
      BY <3>1, HeldAreMade
    <3>. QED  BY <1>4, <3>2, HeldAreMade DEF Progress
  <2>2. \A q \in DOMAIN state' : state'[q].run # "started"
    BY <1>3, <1>4
  <2>3. \A q \in DOMAIN state' :
          state'[q].handle => state'[q].run \in {"mounted", "looping", "serving", "told", "interrupted"}
    BY <1>3, <1>4 DEF Progress
  <2>. QED  BY <1>1, <1>5, <2>1, <2>2, <2>3 DEF Progress
<1>12. MountsReachable'
  <2>1. ASSUME NEW q \in DOMAIN state, state'[q].handle
        PROVE  \/ q \in ToSet(mounts)
               \/ state'[q].run \in {"serving", "told", "interrupted"} /\ ~state'[q].alive
    <3>1. state[q].handle /\ state'[q].run = state[q].run
      BY <1>4, <2>1
    <3>2. CASE q \in OfCall
      <4>1. state[q].run # "none"
        BY <3>1 DEF Progress
      <4>2. At("poll") /\ q = call.cur
        BY <3>2, <4>1 DEF Progress, OfCall, At
      <4>. QED  BY <1>4, <3>1, <3>2, <4>2 DEF Progress, ChildRuns, Running
    <3>3. CASE q \notin OfCall
      BY <1>4, <3>1, <3>3 DEF MountsReachable
    <3>. QED  BY <3>2, <3>3
  <2>. QED  BY <1>1, <1>3, <1>5, <2>1 DEF MountsReachable
<1>. QED  BY <1>5, <1>8, <1>9, <1>10, <1>11, <1>12

-----------------------------------------------------------------------------
\* The next mount goes to a thread or to a child.
LEMMA StartStep ==
  ASSUME IInv, StartThread \/ StartChild
  PROVE  IInv'
<1>. USE DEF IInv
<1>. DEFINE s == Head(call.todo)
<1>1. /\ At("next") /\ call.todo # <<>> /\ pending' = pending /\ mounts' = mounts
      /\ UNCHANGED <<nsPidFd, config, procs, ret>>
  BY DEF StartThread, StartChild
<1>2. /\ s \in DOMAIN state /\ Tail(call.todo) \in Seq(DOMAIN state)
      /\ ToSet(call.todo) = {s} \cup ToSet(Tail(call.todo))
      /\ s \notin ToSet(Tail(call.todo)) /\ IsInjective(Tail(call.todo))
  BY <1>1, HeldAreMade, HeadAndTail DEF Owned, At
<1>3. Len(state) \in Nat /\ state[s] \in States(Len(state)) /\ s # NoMount
  BY <1>2, StateTypes, HeldAreMade
<1>4. /\ s \in OfCall /\ s \notin ToSet(pending) /\ s \notin ToSet(mounts) /\ s \notin OfThreads
      /\ state[s].alive /\ state[s].run = "none" /\ ~state[s].handle
  <2>1. s \in OfCall
    BY <1>1, <1>2 DEF OfCall, At
  <2>. QED  BY <1>1, <1>2, <1>3, <2>1 DEF Owned, Progress, At
<1>5. \A q \in DOMAIN state : state[q].run # "started"
  BY <1>1 DEF Progress, At
<1>6. PICK r \in States(Len(state)) :
        /\ state' = [state EXCEPT ![s] = r]
        /\ r.handle = state[s].handle /\ r.alive = state[s].alive
        /\ \/ ~useNs /\ r.run = "started" /\ call' = [call EXCEPT !.at = "wait", !.todo = Tail(@), !.cur = s]
           \/ useNs /\ r.run = "cloned" /\ call' = [call EXCEPT !.at = "poll", !.todo = Tail(@), !.cur = s]
  <2>1. CASE StartThread
    <3>. DEFINE r == [state[s] EXCEPT !.run = "started"]
    <3>1. r \in States(Len(state)) /\ state' = [state EXCEPT ![s] = r]
      BY <1>3, <2>1 DEF StartThread, States, Runs, ThreadRuns
    <3>2. r.run = "started" /\ r.handle = state[s].handle /\ r.alive = state[s].alive
      BY <1>3 DEF States
    <3>. HIDE DEF r
    <3>. QED  BY <2>1, <3>1, <3>2 DEF StartThread
  <2>2. CASE StartChild
    <3>. DEFINE r == [state[s] EXCEPT !.run = "cloned", !.nsFd = nsPidFd]
    <3>1. nsPidFd \in 0..Len(state)
      BY <1>2, <1>3, StateTypes DEF Typed, NoPid
    <3>2. r \in States(Len(state)) /\ state' = [state EXCEPT ![s] = r]
      BY <1>3, <2>2, <3>1 DEF StartChild, States, Runs, ChildRuns, Running
    <3>3. r.run = "cloned" /\ r.handle = state[s].handle /\ r.alive = state[s].alive
      BY <1>3 DEF States
    <3>. HIDE DEF r
    <3>. QED  BY <2>2, <3>2, <3>3 DEF StartChild
  <2>. QED  BY <2>1, <2>2
<1>7. /\ state' \in Seq(States(Len(state'))) /\ Len(state') = Len(state)
      /\ DOMAIN state' = DOMAIN state /\ state'[s] = r
      /\ \A q \in DOMAIN state : q # s => state'[q] = state[q]
  BY <1>2, <1>6, StateStep
<1>8. /\ call'.op = call.op /\ call'.todo = Tail(call.todo) /\ call'.cur = s
      /\ call'.taken = call.taken /\ call'.base = call.base /\ call'.exec = call.exec
      /\ \/ ~useNs /\ r.run = "started" /\ call'.at = "wait"
         \/ useNs /\ r.run = "cloned" /\ call'.at = "poll"
  BY <1>6 DEF Typed, CallRecords
<1>9. Typed'
  <2>1. call' \in CallRecords(DOMAIN state', Len(mounts'))
    BY <1>1, <1>2, <1>6, <1>7 DEF Typed, CallRecords
  <2>. QED  BY <1>1, <1>7, <2>1 DEF Typed, config
<1>10. CallShape' /\ Undone'
  BY <1>1, <1>3, <1>8 DEF CallShape, Undone, At, config
<1>11. /\ OfCall' = IF r.run = "cloned" THEN OfCall ELSE OfCall \ {s}
       /\ OfThreads' = IF r.run = "cloned" THEN OfThreads ELSE OfThreads \cup {s}
  <2>1. OfCall = ToSet(call.todo)
    BY <1>1 DEF OfCall, At
  <2>2. OfCall' = ToSet(Tail(call.todo)) \cup {q \in {s} : r.run = "cloned"}
    BY <1>1, <1>8 DEF OfCall, At
  <2>. QED  BY <1>2, <1>4, <1>7, <1>8, <2>1, <2>2 DEF OfThreads
<1>12. Owned'
  <2>1. \A q \in DOMAIN state : state'[q].alive = state[q].alive
    BY <1>6, <1>7
  <2>. QED  BY <1>1, <1>2, <1>4, <1>7, <1>8, <1>11, <2>1 DEF Owned
<1>13. Progress'
  <2>1. \A q \in ToSet(pending') : state'[q].run = "none"
    BY <1>1, <1>4, <1>7, HeldAreMade DEF Progress
  <2>2. \A q \in ToSet(call'.todo) : state'[q].run = "none"
    BY <1>1, <1>2, <1>7, <1>8, HeldAreMade DEF Progress, At
  <2>3. At("poll")' => state'[call'.cur].run \in ChildRuns
    BY <1>7, <1>8 DEF At, ChildRuns, Running
  <2>4. \A q \in DOMAIN state' : state'[q].run = "started" => At("wait")' /\ call'.cur = q
    BY <1>1, <1>5, <1>7, <1>8 DEF At
  <2>5. \A q \in DOMAIN state' :
          state'[q].handle => state'[q].run \in {"mounted", "looping", "serving", "told", "interrupted"}
    BY <1>4, <1>6, <1>7 DEF Progress
  <2>. QED  BY <2>1, <2>2, <2>3, <2>4, <2>5 DEF Progress
<1>14. MountsReachable'
  BY <1>1, <1>4, <1>6, <1>7, <1>11 DEF MountsReachable
<1>. QED  BY <1>9, <1>10, <1>12, <1>13, <1>14

\* mount() hears from its thread, or from what was its state.
LEMMA AwaitStep ==
  ASSUME IInv, Await \/ AwaitFreed
  PROVE  IInv'
<1>. USE DEF IInv
<1>1. At("wait") /\ call.cur \in DOMAIN state
  BY HeldAreMade DEF Await, AwaitFreed, CallShape, At
<1>2. OfCall = ToSet(call.todo)
  BY <1>1 DEF OfCall, At
<1>3. \A s \in DOMAIN state : state[s].run # "started"
  <2>1. CASE Await
    <3>1. Status(call.cur) \in {"success", "failure"}
      BY <2>1 DEF Await
    <3>2. state[call.cur].run # "started"
      BY <3>1 DEF Status
    <3>. QED  BY <3>2 DEF Progress
  <2>2. CASE AwaitFreed
    <3>1. call.cur \notin OfThreads
      BY <1>1, <2>2 DEF AwaitFreed, Owned
    <3>. QED  BY <1>1, <3>1 DEF Progress, OfThreads
  <2>. QED  BY <2>1, <2>2
<1>4. CASE GiveUp(state, ToSet(call.todo))
  BY <1>1, <1>2, <1>3, <1>4, GiveUpStep DEF Typed, At
<1>5. CASE /\ Continue \/ call' = [call EXCEPT !.at = "hang"]
           /\ UNCHANGED <<pending, mounts, nsPidFd, config, state, procs, ret>>
  <2>1. /\ call'.op = call.op /\ call'.todo = call.todo /\ call'.at \in {"next", "hang"}
        /\ call'.at = "hang" => call'.cur = call.cur
        /\ call' \in CallRecords(DOMAIN state, Len(mounts))
    BY <1>5 DEF Continue, Typed, CallRecords
  <2>2. OfCall' = OfCall /\ ~At("poll")' /\ CallShape'
    BY <1>1, <1>2, <2>1 DEF OfCall, At, CallShape
  <2>. QED  BY <1>1, <1>3, <1>5, <2>1, <2>2, CallMovesStep DEF At, Typed
<1>. QED  BY <1>4, <1>5 DEF Await, AwaitFreed

\* poll() times out: the child's mount goes to m_mounts.
LEMMA PollTimesOutStep ==
  ASSUME IInv, PollTimesOut
  PROVE  IInv'
<1>. USE DEF IInv
<1>. DEFINE s == call.cur
<1>1. /\ At("poll") /\ pending' = pending /\ state' = state /\ mounts' = Append(mounts, s)
      /\ nsPidFd' \in {nsPidFd, s} /\ Continue /\ UNCHANGED <<config, procs, ret>>
  BY DEF PollTimesOut
<1>2. s \in DOMAIN state /\ s # NoMount
  BY <1>1, HeldAreMade DEF CallShape, At
<1>3. /\ mounts' \in Seq(DOMAIN state) /\ ToSet(mounts') = ToSet(mounts) \cup {s}
      /\ Len(mounts') = Len(mounts) + 1 /\ Len(mounts) \in Nat
      /\ IsInjective(mounts) /\ s \notin ToSet(mounts) => IsInjective(mounts')
  BY <1>1, <1>2, AppendList, AppendProperties, LenProperties DEF Typed
<1>4. /\ call'.op = call.op /\ call'.todo = call.todo /\ call'.at = "next"
      /\ call' \in CallRecords(DOMAIN state, Len(mounts'))
  <2>1. call \in CallRecords(DOMAIN state, Len(mounts')) /\ call' = [call EXCEPT !.at = "next", !.cur = NoMount]
    BY <1>1, <1>3 DEF Continue, Typed, CallRecords
  <2>. QED  BY <2>1 DEF CallRecords
<1>5. OfCall' = OfCall \ {s} /\ s \in OfCall /\ OfThreads' = OfThreads
  <2>1. OfCall = ToSet(call.todo) \cup {s}
    BY <1>1 DEF OfCall, At
  <2>2. OfCall' = ToSet(call.todo)
    BY <1>1, <1>4 DEF OfCall, At
  <2>3. s \notin ToSet(call.todo)
    BY <1>1 DEF Owned
  <2>. QED  BY <1>1, <2>1, <2>2, <2>3 DEF OfThreads
<1>6. Typed'
  BY <1>1, <1>2, <1>3, <1>4 DEF Typed, config
<1>7. CallShape' /\ Undone'
  BY <1>1, <1>4 DEF CallShape, Undone, At
<1>8. Owned'
  BY <1>1, <1>3, <1>4, <1>5 DEF Owned, At
<1>9. Progress'
  BY <1>1, <1>4 DEF Progress, At
<1>10. MountsReachable'
  BY <1>1, <1>3, <1>5 DEF MountsReachable
<1>. QED  BY <1>6, <1>7, <1>8, <1>9, <1>10

\* Mounting fails: clone() does, or poll() says that the child has exited or
\* is interrupted.
LEMMA MountingFailsStep ==
  ASSUME IInv, CloneFails \/ PollSeesExit \/ PollInterrupted
  PROVE  IInv'
<1>. USE DEF IInv
<1>1. call.op \in {"mount", "create"} /\ ~At("wait")
  BY DEF CloneFails, PollSeesExit, PollInterrupted, At
<1>2. \A s \in DOMAIN state : state[s].run # "started"
  BY <1>1 DEF Progress
<1>3. At("poll") => OfCall = ToSet(call.todo) \cup {call.cur} /\ call.cur \in DOMAIN state
  BY HeldAreMade DEF OfCall, At, CallShape
<1>4. state \in Seq(States(Len(state)))
  BY DEF Typed
<1>5. CASE CloneFails
  <2>1. OfCall = ToSet(call.todo) /\ GiveUp(state, ToSet(call.todo))
    BY <1>5 DEF CloneFails, OfCall, At
  <2>. QED  BY <1>1, <1>2, <1>4, <2>1, GiveUpStep
<1>6. CASE PollInterrupted
  <2>1. GiveUp(state, OfCall)
    BY <1>3, <1>6 DEF PollInterrupted
  <2>. QED  BY <1>1, <1>2, <1>4, <2>1, GiveUpStep
<1>7. CASE PollSeesExit
  <2>. DEFINE s == call.cur
              r == [state[s] EXCEPT !.run = "reaped"]
              st == [state EXCEPT ![s] = r]
  <2>1. At("poll") /\ s \in DOMAIN state /\ state[s].run = "exited"
    BY <1>3, <1>7 DEF PollSeesExit
  <2>2. state[s] \in States(Len(state)) /\ Len(state) \in Nat
    BY <2>1, StateTypes
  <2>3. st = [state EXCEPT ![s].run = "reaped"] /\ r \in States(Len(state))
    BY <2>1, <2>2 DEF States, Runs, ChildRuns
  <2>4. r.run = "reaped" /\ r.handle = state[s].handle /\ r.alive = state[s].alive
    BY <2>2 DEF States
  <2>5. ~state[s].handle
    BY <2>1 DEF Progress
  <2>. HIDE DEF r
  <2>6. /\ st \in Seq(States(Len(state))) /\ Len(st) = Len(state)
        /\ st[s] = r /\ \A q \in DOMAIN state : q # s => st[q] = state[q]
    BY <1>4, <2>1, <2>2, <2>3, OneChanged
  <2>7. GiveUp(st, OfCall)
    BY <1>3, <1>7, <2>1, <2>3 DEF PollSeesExit
  <2>. HIDE DEF st
  <2>. QED  BY <1>1, <1>2, <2>1, <2>4, <2>5, <2>6, <2>7, GiveUpStep
<1>. QED  BY <1>5, <1>6, <1>7

\* mount() returns, process creation goes on to fork(), and forks.
LEMMA ForkStep ==
  ASSUME IInv, AllStarted \/ Fork
  PROVE  IInv'
<1>. USE DEF IInv
<1>1. CASE AllStarted
  <2>1. /\ At("next") /\ OfCall = {} /\ \A s \in DOMAIN state : state[s].run # "started"
        /\ UNCHANGED <<pending, mounts, nsPidFd, config, state, procs>>
    BY <1>1, EmptyList DEF AllStarted, OfCall, Progress, At
  <2>2. CASE call' = Idle /\ Answer("mount", TRUE)
    <3>1. ret' \in [op : Callers \cup {"link"}, ok : BOOLEAN]
      BY <2>2 DEF Answer, Callers
    <3>. QED  BY <2>1, <2>2, <3>1, ReturnStep DEF At, Typed
  <2>3. CASE call' = [call EXCEPT !.at = "fork"] /\ UNCHANGED ret
    <3>1. /\ call'.op = call.op /\ call'.todo = <<>> /\ call'.at = "fork"
          /\ call' \in CallRecords(DOMAIN state, Len(mounts))
      BY <1>1, <2>3 DEF AllStarted, Typed, CallRecords
    <3>2. OfCall' = OfCall /\ ~At("poll")' /\ CallShape'
      BY <2>1, <3>1, EmptyList DEF OfCall, At, CallShape
    <3>. QED  BY <2>1, <2>3, <3>1, <3>2, CallMovesStep DEF At, Typed
  <2>. QED  BY <1>1, <2>2, <2>3 DEF AllStarted
<1>2. CASE Fork
  <2>1. OfCall = {} /\ ~At("wait") /\ UNCHANGED <<pending, mounts, nsPidFd, config, state>> /\ call' = Idle
    BY <1>2, EmptyList DEF Fork, OfCall, At, CallShape
  <2>2. PICK ok \in BOOLEAN : Answer("create", ok)
    BY <1>2, Zenon DEF Fork
  <2>3. ret' \in [op : Callers \cup {"link"}, ok : BOOLEAN]
    BY <2>2 DEF Answer, Callers
  <2>4. procs' \subseteq [black : BOOLEAN, in : {NoPid} \cup DOMAIN state]
    <3>. DEFINE b == call.exec \in blacklist
                where == IF useNs THEN nsPidFd ELSE NoPid
    <3>1. b \in BOOLEAN
      OBVIOUS
    <3>2. where \in {NoPid} \cup DOMAIN state
      BY DEF Typed
    <3>3. procs' \in {procs, procs \cup {[black |-> b, in |-> where]}}
      BY <1>2, Zenon DEF Fork
    <3>. HIDE DEF b, where
    <3>4. [black |-> b, in |-> where] \in [black : BOOLEAN, in : {NoPid} \cup DOMAIN state]
      BY <3>1, <3>2
    <3>. QED  BY <3>3, <3>4 DEF Typed
  <2>. QED  BY <2>1, <2>3, <2>4, ReturnStep
<1>. QED  BY <1>1, <1>2

-----------------------------------------------------------------------------
\* A call that the program makes while no other is under way.
LEMMA CallsStep ==
  ASSUME IInv, Calls
  PROVE  IInv'
<1>. USE DEF IInv
<1>1. /\ call = Idle /\ OfCall = {} /\ ~At("wait") /\ ~At("poll")
      /\ \A s \in DOMAIN state : state[s].run # "started"
  <2>1. call = Idle
    BY Zenon DEF Calls, Mount, Unmount, CreateRefused, CreateProcess
  <2>2. call.op = "none"
    BY <2>1 DEF Idle
  <2>. QED  BY <2>1, <2>2 DEF OfCall, At, Progress
<1>2. Len(mounts) \in Nat
  BY LenProperties DEF Typed
<1>3. ASSUME NEW op \in Callers \cup {"link"}, NEW ok \in BOOLEAN, Answer(op, ok),
             UNCHANGED <<pending, mounts, nsPidFd, config, state, call, procs>>
      PROVE  IInv'
  <2>1. ret' \in [op : Callers \cup {"link"}, ok : BOOLEAN]
    BY <1>3 DEF Answer
  <2>. QED  BY <1>1, <1>3, <2>1, ReturnStep DEF Typed
<1>4. ASSUME NEW c, call' = c, UNCHANGED <<pending, mounts, nsPidFd, config, state, procs, ret>>,
             c \in CallRecords(DOMAIN state, Len(mounts)),
             \/ c.op = "create" /\ c.at = "fork" /\ c.todo = <<>>
             \/ c.op = "unmount" /\ c.at = "next" /\ c.todo = mounts
      PROVE  IInv'
  <2>1. OfCall' = OfCall /\ ~At("poll")' /\ CallShape'
    BY <1>1, <1>4, EmptyList DEF OfCall, At, CallShape
  <2>. QED  BY <1>1, <1>4, <2>1, CallMovesStep DEF Typed
<1>5. CASE Mount
  <2>1. CASE StartMounting("mount", "none") /\ call = Idle
    <3>1. UNCHANGED procs
      BY <2>1 DEF StartMounting
    <3>. QED  BY <2>1, <3>1, StartMountingStep
  <2>2. CASE Answer("mount", TRUE) /\ UNCHANGED <<pending, mounts, nsPidFd, config, state, call, procs>>
    BY <1>3, <2>2 DEF Callers
  <2>. QED  BY <1>5, <2>1, <2>2 DEF Mount
<1>6. CASE CreateRefused
  BY <1>3, <1>6 DEF CreateRefused, Callers
<1>7. ASSUME NEW e \in Execs, CreateProcess(e)  PROVE IInv'
  <2>1. CASE StartMounting("create", e) /\ call = Idle
    <3>1. UNCHANGED procs
      BY <2>1 DEF StartMounting
    <3>. QED  BY <2>1, <3>1, StartMountingStep
  <2>2. CASE /\ call' = [Idle EXCEPT !.op = "create", !.at = "fork",
                                     !.base = Len(mounts), !.exec = e]
             /\ UNCHANGED <<pending, mounts, nsPidFd, config, state, procs, ret>>
    <3>1. call' = [op |-> "create", at |-> "fork", todo |-> <<>>, cur |-> NoMount,
                   taken |-> <<>>, base |-> Len(mounts), exec |-> e]
      BY <2>2 DEF Idle
    <3>2. call' \in CallRecords(DOMAIN state, Len(mounts))
      BY <1>2, <3>1, EmptyList DEF CallRecords, Callers
    <3>. QED  BY <1>4, <2>2, <3>1, <3>2
  <2>. QED  BY <1>7, <2>1, <2>2 DEF CreateProcess
<1>8. CASE Unmount
  <2>1. CASE Answer("unmount", TRUE) /\ UNCHANGED <<pending, mounts, nsPidFd, config, state, call, procs>>
    BY <1>3, <2>1 DEF Callers
  <2>2. CASE /\ call' = [Idle EXCEPT !.op = "unmount", !.at = "next", !.todo = mounts,
                                     !.base = Len(mounts)]
             /\ UNCHANGED <<pending, mounts, nsPidFd, config, state, procs, ret>>
    <3>1. call' = [op |-> "unmount", at |-> "next", todo |-> mounts, cur |-> NoMount,
                   taken |-> <<>>, base |-> Len(mounts), exec |-> "none"]
      BY <2>2 DEF Idle
    <3>2. call' \in CallRecords(DOMAIN state, Len(mounts))
      BY <1>2, <3>1, EmptyList DEF CallRecords, Callers, Typed
    <3>. QED  BY <1>4, <2>2, <3>1, <3>2
  <2>. QED  BY <1>8, <2>1, <2>2 DEF Unmount
<1>. QED  BY <1>5, <1>6, <1>7, <1>8 DEF Calls

-----------------------------------------------------------------------------
\* unmount() takes the next mount: it destroys the handle, or signals the
\* child, or has waited for it.
LEMMA UnmountOneStep ==
  ASSUME IInv, NEW s \in DOMAIN state, NEW r \in States(Len(state)),
         state' = [state EXCEPT ![s] = r], UNCHANGED <<pending, mounts, nsPidFd, config, procs, ret>>,
         call.op = "unmount", call.todo # <<>>, s = Head(call.todo),
         \/ call' = [call EXCEPT !.todo = Tail(@)]
         \/ call' = [call EXCEPT !.at = "next", !.todo = Tail(@)]
         \/ call' = [call EXCEPT !.at = "waitid"],
         call'.at = "waitid" => call'.todo # <<>>,
         r.alive = state[s].alive,
         \/ r.run = state[s].run
         \/ state[s].run \in ChildRuns /\ r.run \in ChildRuns,
         r.handle => state[s].handle /\ r.run = "interrupted",
         call'.todo # call.todo => ~r.handle
  PROVE  IInv'
<1>. USE DEF IInv
<1>1. /\ state' \in Seq(States(Len(state'))) /\ Len(state') = Len(state)
      /\ DOMAIN state' = DOMAIN state /\ state'[s] = r
      /\ \A q \in DOMAIN state : q # s => state'[q] = state[q]
  BY StateStep
<1>2. /\ pending' = pending /\ mounts' = mounts /\ UNCHANGED <<nsPidFd, config, procs, ret>>
  OBVIOUS
<1>3. /\ Tail(call.todo) \in Seq(DOMAIN state)
      /\ ToSet(call.todo) = {s} \cup ToSet(Tail(call.todo))
  BY HeldAreMade, HeadAndTail
<1>4. /\ call'.op = "unmount" /\ call'.at \in {"next", "waitid"}
      /\ call'.todo \in {call.todo, Tail(call.todo)}
      /\ call' \in CallRecords(DOMAIN state, Len(mounts))
  BY <1>3 DEF Typed, CallRecords, CallShape
<1>5. s \in ToSet(mounts) /\ s \notin ToSet(pending) /\ s \notin OfThreads
  BY <1>3 DEF Undone, Owned
<1>6. OfCall' = {} /\ OfCall = {} /\ OfThreads' = OfThreads
  BY <1>1, <1>4, <1>5 DEF OfCall, OfThreads, ChildRuns, Running
<1>7. Typed'
  BY <1>1, <1>2, <1>4 DEF Typed, config
<1>8. CallShape'
  BY <1>4 DEF CallShape
<1>9. Owned'
  <2>1. \A q \in DOMAIN state : state'[q].alive = state[q].alive
    BY <1>1
  <2>. QED  BY <1>1, <1>2, <1>4, <1>6, <2>1 DEF Owned, At
<1>10. Progress'
  <2>1. \A q \in ToSet(pending') : state'[q].run = "none"
    BY <1>1, <1>2, <1>5, HeldAreMade DEF Progress
  <2>2. \A q \in DOMAIN state' : state'[q].run # "started"
    BY <1>1, <1>5 DEF Progress, At, ChildRuns, Running
  <2>3. \A q \in DOMAIN state' :
          state'[q].handle => state'[q].run \in {"mounted", "looping", "serving", "told", "interrupted"}
    BY <1>1 DEF Progress
  <2>. QED  BY <1>4, <2>1, <2>2, <2>3 DEF Progress, At
<1>11. Undone'
  <2>1. ToSet(call'.todo) \subseteq ToSet(mounts)
    BY <1>3, <1>4 DEF Undone
  <2>2. ASSUME NEW q \in ToSet(mounts) \ ToSet(call'.todo), state'[q].handle
        PROVE  state'[q].run \in {"serving", "told", "interrupted"}
    <3>1. CASE q = s
      BY <1>1, <1>5, <2>2, <3>1
    <3>2. CASE q # s
      BY <1>1, <1>3, <1>4, <2>2, <3>2, HeldAreMade DEF Undone
    <3>. QED  BY <3>1, <3>2
  <2>. QED  BY <1>2, <2>1, <2>2 DEF Undone
<1>12. MountsReachable'
  BY <1>1, <1>2, <1>5, <1>6 DEF MountsReachable
<1>. QED  BY <1>7, <1>8, <1>9, <1>10, <1>11, <1>12

\* unmount() signals a child: its handler changes where that child is in its loop,
\* and perhaps where another is, and nothing else.
LEMMA SignalStep ==
  ASSUME IInv, UNCHANGED <<pending, mounts, nsPidFd, config, procs, ret>>,
         call.op = "unmount", call.todo # <<>>, call' = [call EXCEPT !.at = "waitid"],
         DOMAIN state' = DOMAIN state, state' \in Seq(States(Len(state))),
         Len(state') = Len(state),
         \A q \in DOMAIN state :
           /\ state'[q].alive = state[q].alive /\ state'[q].handle = state[q].handle
           /\ \/ state'[q].run = state[q].run
              \/ /\ state[q].run \in Running
                 /\ \/ state'[q].run \in {"told", "interrupted"}
                    \/ state[q].run = "cloned" /\ state'[q].run = "exited"
  PROVE  IInv'
<1>. USE DEF IInv
<1>1. /\ pending' = pending /\ mounts' = mounts /\ UNCHANGED <<nsPidFd, config, procs, ret>>
  OBVIOUS
<1>2. /\ call'.op = "unmount" /\ call'.at = "waitid" /\ call'.todo = call.todo
      /\ call' \in CallRecords(DOMAIN state, Len(mounts))
  BY DEF Typed, CallRecords, CallShape
<1>3. OfCall' = {} /\ OfCall = {} /\ OfThreads' = OfThreads
  BY <1>2 DEF OfCall, OfThreads, Running
<1>4. Typed'
  BY <1>1, <1>2 DEF Typed, config
<1>5. CallShape'
  BY <1>2 DEF CallShape
<1>6. Owned'
  BY <1>1, <1>2, <1>3 DEF Owned, At
<1>7. Progress'
  <2>1. \A q \in ToSet(pending') : state'[q].run = "none"
    BY <1>1, HeldAreMade DEF Progress, Running
  <2>2. \A q \in DOMAIN state' : state'[q].run # "started"
    BY DEF Progress, At
  <2>3. \A q \in DOMAIN state' :
          state'[q].handle => state'[q].run \in {"mounted", "looping", "serving", "told", "interrupted"}
    BY DEF Progress
  <2>. QED  BY <1>2, <2>1, <2>2, <2>3 DEF Progress, At
<1>8. Undone'
  BY <1>1, <1>2, HeldAreMade DEF Undone, Running
<1>9. MountsReachable'
  BY <1>1, <1>3 DEF MountsReachable, Running
<1>. QED  BY <1>4, <1>5, <1>6, <1>7, <1>8, <1>9

\* Where SIGINT to the child of s leaves the children.
LEMMA SignalledRuns ==
  ASSUME Typed, NEW s \in DOMAIN state, NEW q \in DOMAIN state
  PROVE  /\ Signalled(s) \in Seq(States(Len(state))) /\ Len(Signalled(s)) = Len(state)
         /\ DOMAIN Signalled(s) = DOMAIN state
         /\ \E x \in Runs :
              /\ Signalled(s)[q] = [state[q] EXCEPT !.run = x]
              /\ \/ x = state[q].run
                 \/ /\ state[q].run \in Running
                    /\ x \in {"told", "interrupted"} \/ (state[q].run = "cloned" /\ x = "exited")
<1>. DEFINE u == Signalled(s)
<1>1. Len(state) \in Nat /\ DOMAIN state = 1..Len(state)
  BY StateTypes
<1>2. ASSUME NEW t \in DOMAIN state
      PROVE  \E x \in Runs :
               /\ u[t] = [state[t] EXCEPT !.run = x]
               /\ \/ x = state[t].run
                  \/ /\ state[t].run \in Running
                     /\ x \in {"told", "interrupted"} \/ (state[t].run = "cloned" /\ x = "exited")
  <2>1. state[t].run \in Runs
    BY StateTypes DEF States
  <2>. QED  BY <2>1 DEF Signalled, Runs, ChildRuns, Running
<1>3. DOMAIN u = 1..Len(state) /\ u = [t \in 1..Len(state) |-> u[t]]
  BY <1>1 DEF Signalled
<1>4. \A t \in 1..Len(state) : u[t] \in States(Len(state))
  <2>. SUFFICES ASSUME NEW t \in DOMAIN state  PROVE u[t] \in States(Len(state))
    BY <1>1
  <2>1. PICK x \in Runs : u[t] = [state[t] EXCEPT !.run = x]
    BY <1>2
  <2>2. state[t] \in States(Len(state))
    BY StateTypes
  <2>. HIDE DEF u
  <2>. QED  BY <1>1, <2>1, <2>2, FieldTypes
<1>5. Signalled(s) = u
  OBVIOUS
<1>. HIDE DEF u
<1>6. u \in [1..Len(state) -> States(Len(state))]
  BY <1>3, <1>4
<1>7. u \in Seq(States(Len(state)))
  BY <1>1, <1>6, SeqDef
<1>8. Len(u) = Len(state)
  BY <1>1, <1>3, <1>7, LenProperties
<1>. QED  BY <1>1, <1>2, <1>3, <1>5, <1>7, <1>8

\* unmount() gives up: the handles it has destroyed stay destroyed, the mounts
\* stay listed.
LEMMA RefusedStep ==
  ASSUME IInv, call.op = "unmount", UnmountRefused
  PROVE  IInv'
<1>1. ret' \in [op : Callers \cup {"link"}, ok : BOOLEAN]
  BY DEF UnmountRefused, Answer, Callers
<1>2. OfCall = {} /\ ~At("wait")
  BY DEF OfCall, At
<1>. QED  BY <1>1, <1>2, ReturnStep DEF UnmountRefused, IInv, Typed

\* unmount() takes one mount down, waits for its child, or gives up.
LEMMA UnmountStep ==
  ASSUME IInv, UnmountThread \/ SignalChild \/ WaitForChild
  PROVE  IInv'
<1>. USE DEF IInv
<1>. DEFINE s == Head(call.todo)
<1>1. call.op = "unmount" /\ call.todo # <<>>
  BY DEF UnmountThread, SignalChild, WaitForChild, Unmounting, CallShape
<1>2. /\ s \in DOMAIN state /\ state[s] \in States(Len(state))
      /\ Len(Tail(call.todo)) = Len(call.todo) - 1 /\ Len(call.todo) \in Nat
  BY <1>1, HeldAreMade, HeadAndTail, StateTypes, LenProperties
<1>3. Tail(call.todo) # call.todo
  <2>1. Len(Tail(call.todo)) # Len(call.todo)
    BY <1>2
  <2>. QED  BY <2>1, Zenon
<1>. HIDE DEF s
<1>4. CASE UnmountThread
  <2>. DEFINE r == [state[s] EXCEPT !.handle = FALSE]
  <2>1. r \in States(Len(state)) /\ state' = [state EXCEPT ![s] = r]
    BY <1>2, <1>4 DEF UnmountThread, States, s
  <2>2. r.run = state[s].run /\ ~r.handle /\ r.alive = state[s].alive
    BY <1>2 DEF States
  <2>. HIDE DEF r
  <2>3. call' = [call EXCEPT !.todo = Tail(@)] /\ call'.at = "next"
    BY <1>4 DEF UnmountThread, Unmounting, Typed, CallRecords
  <2>. QED  BY <1>1, <1>2, <1>4, <2>1, <2>2, <2>3, UnmountOneStep DEF UnmountThread, s
<1>5. CASE SignalChild /\ ~UnmountRefused
  <2>1. /\ call' = [call EXCEPT !.at = "waitid"]
        /\ UNCHANGED <<pending, mounts, nsPidFd, config, procs, ret>>
        /\ \/ state' = Signalled(s)
           \/ /\ state[s].run \in {"serving", "told"}
              /\ state' = [state EXCEPT ![s].run = "interrupted"]
    BY <1>5 DEF SignalChild, Dangling, s
  <2>2. CASE state' = Signalled(s)
    <3>1. /\ state' \in Seq(States(Len(state))) /\ Len(state') = Len(state)
          /\ DOMAIN state' = DOMAIN state
      BY <1>2, <2>2, SignalledRuns
    <3>2. ASSUME NEW q \in DOMAIN state
          PROVE  /\ state'[q].alive = state[q].alive /\ state'[q].handle = state[q].handle
                 /\ \/ state'[q].run = state[q].run
                    \/ /\ state[q].run \in Running
                       /\ \/ state'[q].run \in {"told", "interrupted"}
                          \/ state[q].run = "cloned" /\ state'[q].run = "exited"
      <4>1. PICK x \in Runs :
              /\ Signalled(s)[q] = [state[q] EXCEPT !.run = x]
              /\ \/ x = state[q].run
                 \/ /\ state[q].run \in Running
                    /\ x \in {"told", "interrupted"} \/ (state[q].run = "cloned" /\ x = "exited")
        BY <1>2, SignalledRuns
      <4>2. state[q] \in States(Len(state))
        BY StateTypes
      <4>. QED  BY <2>2, <4>1, <4>2 DEF States
    <3>. QED  BY <1>1, <2>1, <3>1, <3>2, SignalStep
  <2>3. CASE /\ state[s].run \in {"serving", "told"}
             /\ state' = [state EXCEPT ![s].run = "interrupted"]
    <3>. DEFINE r == [state[s] EXCEPT !.run = "interrupted"]
    <3>1. r \in States(Len(state)) /\ state' = [state EXCEPT ![s] = r]
      BY <1>2, <2>3 DEF States, Runs, ChildRuns, Running
    <3>2. r.run = "interrupted" /\ r.handle = state[s].handle /\ r.alive = state[s].alive
      BY <1>2 DEF States
    <3>. HIDE DEF r
    <3>3. call'.todo = call.todo
      BY <2>1 DEF Typed, CallRecords
    <3>. QED  BY <1>1, <1>2, <2>1, <2>3, <3>1, <3>2, <3>3, UnmountOneStep DEF s, ChildRuns, Running
  <2>. QED  BY <2>1, <2>2, <2>3
<1>6. CASE WaitForChild
  <2>. DEFINE r == [state[s] EXCEPT !.run = "reaped"]
  <2>1. r \in States(Len(state)) /\ state' = [state EXCEPT ![s] = r] /\ state[s].run = "exited"
    BY <1>2, <1>6 DEF WaitForChild, States, Runs, ChildRuns, s
  <2>2. r.run = "reaped" /\ r.handle = state[s].handle /\ r.alive = state[s].alive
    BY <1>2 DEF States
  <2>3. ~r.handle
    BY <1>2, <2>1, <2>2 DEF Progress
  <2>. HIDE DEF r
  <2>4. call' = [call EXCEPT !.at = "next", !.todo = Tail(@)] /\ call'.at = "next"
    BY <1>6 DEF WaitForChild, Typed, CallRecords
  <2>. QED  BY <1>1, <1>2, <1>6, <2>1, <2>2, <2>3, <2>4, UnmountOneStep
            DEF WaitForChild, s, ChildRuns, Running
<1>7. CASE UnmountRefused
  BY <1>1, <1>7, RefusedStep
<1>. QED  BY <1>4, <1>5, <1>6, <1>7

\* m_mounts.clear(): every mount is destroyed, with its handle or without.
LEMMA AllUnmountedStep ==
  ASSUME IInv, AllUnmounted
  PROVE  IInv'
<1>. USE DEF IInv
<1>1. /\ call.op = "unmount" /\ call.todo = <<>> /\ pending' = pending /\ mounts' = <<>>
      /\ state' = Destroyed(state, ToSet(mounts)) /\ call' = Idle
      /\ ret' = [op |-> "unmount", ok |-> TRUE] /\ UNCHANGED <<nsPidFd, config, procs>>
  BY DEF AllUnmounted, Unmounting, Answer
<1>2. Len(state) \in Nat /\ state \in Seq(States(Len(state)))
  BY LenProperties DEF Typed
<1>3. /\ state' \in Seq(States(Len(state'))) /\ Len(state') = Len(state)
      /\ DOMAIN state' = DOMAIN state
  BY <1>1, <1>2, DestroyedOnly
<1>4. \A q \in DOMAIN state :
        /\ state'[q].run = state[q].run /\ state'[q].handle = state[q].handle
        /\ state'[q].alive <=> state[q].alive /\ q \notin ToSet(mounts)
  <2>. SUFFICES ASSUME NEW q \in DOMAIN state
                PROVE  /\ state'[q].run = state[q].run /\ state'[q].handle = state[q].handle
                       /\ state'[q].alive <=> state[q].alive /\ q \notin ToSet(mounts)
    OBVIOUS
  <2>1. state[q] \in States(Len(state))
    BY StateTypes
  <2>2. /\ q \notin ToSet(mounts) => state'[q] = state[q]
        /\ q \in ToSet(mounts) => state'[q] = [state[q] EXCEPT !.alive = FALSE]
    BY <1>1, <1>2, DestroyedOnly
  <2>. QED  BY <2>1, <2>2 DEF States
<1>5. /\ ToSet(mounts') = {} /\ IsInjective(mounts') /\ mounts' \in Seq(DOMAIN state')
      /\ Len(mounts') = 0
  BY <1>1, EmptyList
<1>6. OfCall' = {} /\ OfCall = {} /\ call'.op = "none" /\ ~At("poll")' /\ CallShape'
  BY <1>1 DEF OfCall, Idle, At, CallShape
<1>7. OfThreads' = OfThreads
  BY <1>3, <1>4 DEF OfThreads
<1>8. Typed'
  <2>1. call' \in CallRecords(DOMAIN state', Len(mounts'))
    BY <1>1, <1>5, EmptyList DEF CallRecords, Idle, Callers
  <2>. QED  BY <1>1, <1>3, <1>5, <2>1 DEF Typed, config, Callers
<1>9. Undone'
  BY <1>6 DEF Undone
<1>10. Owned'
  BY <1>1, <1>3, <1>4, <1>5, <1>6, <1>7 DEF Owned
<1>11. Progress'
  <2>1. \A q \in ToSet(pending) : state'[q].run = "none"
    BY <1>4, HeldAreMade DEF Progress
  <2>2. \A q \in DOMAIN state' : state'[q].run # "started"
    BY <1>1, <1>3, <1>4 DEF Progress, At
  <2>3. \A q \in DOMAIN state' :
          state'[q].handle => state'[q].run \in {"mounted", "looping", "serving", "told", "interrupted"}
    BY <1>3, <1>4 DEF Progress
  <2>. QED  BY <1>1, <1>6, <2>1, <2>2, <2>3 DEF Progress
<1>12. MountsReachable'
  <2>1. ASSUME NEW q \in DOMAIN state, state'[q].handle
        PROVE  state'[q].run \in {"serving", "told", "interrupted"} /\ ~state'[q].alive
    <3>1. CASE q \in ToSet(mounts)
      BY <1>1, <1>4, <2>1, <3>1, EmptyList DEF Undone
    <3>2. CASE q \notin ToSet(mounts)
      BY <1>4, <1>6, <2>1, <3>2 DEF MountsReachable
    <3>. QED  BY <3>1, <3>2
  <2>. QED  BY <1>3, <2>1 DEF MountsReachable
<1>. QED  BY <1>6, <1>8, <1>9, <1>10, <1>11, <1>12

-----------------------------------------------------------------------------
\* The invariant holds before anything is linked.
LEMMA InitIInv == Init => IInv
<1>. SUFFICES ASSUME Init  PROVE IInv
  OBVIOUS
<1>1. /\ pending = <<>> /\ mounts = <<>> /\ nsPidFd = NoPid /\ useNs \in BOOLEAN
      /\ blacklist = {} /\ state = <<>> /\ call = Idle /\ procs = {}
      /\ ret = [op |-> "none", ok |-> TRUE]
  BY DEF Init
<1>2. DOMAIN state = {} /\ Len(state) = 0 /\ Len(mounts) = 0
  BY <1>1
<1>3. Typed
  <2>1. call \in CallRecords(DOMAIN state, Len(mounts))
    BY <1>1, <1>2, EmptyList DEF CallRecords, Idle, Callers
  <2>. QED  BY <1>1, <1>2, <2>1, EmptyList, ManagerAssumption DEF Typed, Callers
<1>4. CallShape /\ call.op = "none"
  BY <1>1 DEF CallShape, Idle
<1>5. Owned /\ Progress /\ Undone /\ MountsReachable
  BY <1>1, <1>2, <1>4, EmptyList
     DEF Owned, Progress, Undone, MountsReachable, OfCall, OfThreads, At
<1>. QED  BY <1>3, <1>4, <1>5 DEF IInv

\* Every step of the manager, of a thread, of a child, and of a process
\* preserves the invariant.
LEMMA StepIInv == IInv /\ [Next]_vars => IInv'
<1>. SUFFICES ASSUME IInv, [Next]_vars  PROVE IInv'
  OBVIOUS
<1>1. CASE Settings \/ \E p \in procs : ProcessExits(p)
  BY <1>1, SettingsStep
<1>2. CASE Calls
  BY <1>2, CallsStep
<1>3. CASE Proceed
  BY <1>3, StartStep, AwaitStep, PollTimesOutStep, MountingFailsStep, ForkStep, UnmountStep,
     AllUnmountedStep DEF Proceed
<1>4. CASE Interrupted
  <2>1. CASE WaitInterrupted
    BY <2>1, RefusedStep DEF WaitInterrupted, Unmounting
  <2>. QED  BY <1>4, <2>1, MountingFailsStep DEF Interrupted
<1>5. ASSUME NEW s \in DOMAIN state, Thread(s) \/ Child(s) \/ ChildNotices(s) \/ ChildDies(s)
      PROVE  IInv'
  BY <1>5, ThreadStep, ChildStep
<1>6. CASE UNCHANGED vars
  <2>1. UNCHANGED <<pending, mounts, nsPidFd, state, call, useNs, blacklist, procs, ret>>
    BY <1>6 DEF vars, config
  <2>. QED  BY <2>1, SettingStep DEF IInv, Typed
<1>. QED  BY <1>1, <1>2, <1>3, <1>4, <1>5, <1>6 DEF Next

\* A MountState keeps its number for good, and fuse_instance changes only to the
\* session of a child.
LEMMA StatesKept ==
  ASSUME IInv, [Next]_vars
  PROVE  /\ DOMAIN state \subseteq DOMAIN state'
         /\ fuseInstance' \in {fuseInstance} \cup DOMAIN state
<1>1. Len(state) \in Nat /\ DOMAIN state = 1..Len(state) /\ state \in Seq(States(Len(state)))
  BY LenProperties DEF IInv, Typed
<1>2. ASSUME NEW l \in Links, Joined(l) \/ Enqueued(l)
      PROVE  DOMAIN state \subseteq DOMAIN state'
  <2>1. CASE Joined(l)
    BY <2>1 DEF Joined
  <2>2. CASE Enqueued(l)
    BY <1>1, <2>2 DEF Enqueued
  <2>. QED  BY <1>2, <2>1, <2>2
<1>3. CASE Settings \/ \E p \in procs : ProcessExits(p)
  BY <1>2, <1>3
     DEF Settings, LinkDirectory, LinkFile, LinkRefused, ClearVirtualMappings, Destroyed,
         ClearExecutableBlacklist, SetUseMountNamespace, BlacklistExecutable, ProcessExits, Joined
<1>4. CASE Calls \/ Interrupted
  BY <1>4
     DEF Calls, Interrupted, Mount, StartMounting, Unmount, CreateRefused, CreateProcess, CloneFails,
         PollInterrupted, WaitInterrupted, GiveUp, UnmountRefused, Destroyed
<1>5. CASE Proceed
  <2>1. fuseInstance' = fuseInstance
    BY <1>5
       DEF Proceed, StartThread, StartChild, Await, AwaitFreed, PollTimesOut, PollSeesExit, AllStarted,
           Fork, UnmountThread, SignalChild, WaitForChild, AllUnmounted, GiveUp, UnmountRefused
  <2>2. DOMAIN state' = DOMAIN state
    BY <1>5
       DEF Proceed, StartThread, StartChild, Await, AwaitFreed, PollTimesOut, PollSeesExit, AllStarted,
           Fork, UnmountThread, SignalChild, WaitForChild, AllUnmounted, GiveUp, UnmountRefused,
           Destroyed, Signalled
  <2>. QED  BY <2>1, <2>2
<1>6. ASSUME NEW s \in DOMAIN state, Thread(s) \/ Child(s) \/ ChildNotices(s) \/ ChildDies(s)
      PROVE  DOMAIN state' = DOMAIN state /\ fuseInstance' \in {fuseInstance, s}
  BY <1>6
     DEF Thread, Child, ThreadMounts, ThreadFails, ThreadFrees, ThreadLoops, ThreadReturns, ChildMounts,
         ChildFails, ChildEnds, ChildNotices, ChildDies, ChildExits
<1>7. CASE UNCHANGED vars
  BY <1>7 DEF vars
<1>. QED  BY <1>3, <1>4, <1>5, <1>6, <1>7 DEF Next

-----------------------------------------------------------------------------
(***************************************************************************)
(* The theorems.                                                           *)
(***************************************************************************)
\* Whatever is called, fails or dies, the manager's variables keep their types:
\* the lists, the call and the namespace name mounts that have been made.
THEOREM TypeCorrect == Spec => []TypeOK
<1>. DEFINE Session == fuseInstance \in {NoMount} \cup DOMAIN state
<1>1. IInv /\ Session => TypeOK
  <2>. SUFFICES ASSUME IInv, Session  PROVE TypeOK
    OBVIOUS
  <2>1. call \in CallRecords(DOMAIN state, Len(mounts)) /\ ret \in [op : Callers \cup {"link"}, ok : BOOLEAN]
    BY DEF IInv, Typed
  <2>2. /\ call.op \in {"none", "mount", "create", "unmount"}
        /\ call.at \in {"none", "next", "wait", "hang", "poll", "fork", "waitid"}
        /\ call.cur \in {NoMount} \cup DOMAIN state /\ call.base \in 0..Len(mounts)
        /\ call.exec \in {"none"} \cup Execs
        /\ ret.op \in {"none", "link", "mount", "create", "unmount"} /\ ret.ok \in BOOLEAN
    BY <2>1 DEF CallRecords, Callers
  <2>. QED  BY <2>2, HeldAreMade DEF IInv, Typed, TypeOK, States, Runs
<1>2. Init => Session
  BY DEF Init
<1>3. IInv /\ Session /\ [Next]_vars => Session'
  BY StatesKept
<1>. HIDE DEF Session
<1>. QED  BY <1>1, <1>2, <1>3, InitIInv, StepIInv, PTL DEF Spec

\* A MountState that exists has exactly one owner - the pending list, the call,
\* a thread that has not answered, or m_mounts - and a destroyed one has none.
THEOREM OneOwnerAlways == Spec => []OneOwner
<1>1. IInv => OneOwner
  <2>. SUFFICES ASSUME IInv  PROVE OneOwner
    OBVIOUS
  <2>. DEFINE owners == <<ToSet(pending), OfCall, OfThreads, ToSet(mounts)>>
              Of(s) == {i \in 1..4 : s \in owners[i]}
  <2>1. IsInjective(pending) /\ IsInjective(mounts)
    BY DEF IInv, Owned
  <2>2. ASSUME NEW s \in DOMAIN state
        PROVE  Cardinality(Of(s)) = IF state[s].alive THEN 1 ELSE 0
    <3>1. \A i \in 1..4 : i \in {1, 2, 3, 4}
      OBVIOUS
    <3>2. /\ 1 \in Of(s) <=> s \in ToSet(pending)
          /\ 2 \in Of(s) <=> s \in OfCall
          /\ 3 \in Of(s) <=> s \in OfThreads
          /\ 4 \in Of(s) <=> s \in ToSet(mounts)
      OBVIOUS
    <3>. HIDE DEF owners
    <3>3. CASE state[s].alive
      <4>1. \E i \in {1, 2, 3, 4} : Of(s) = {i}
        BY <3>1, <3>2, <3>3 DEF IInv, Owned
      <4>. HIDE DEF Of
      <4>. QED  BY <3>3, <4>1, FS_Singleton
    <3>4. CASE ~state[s].alive
      <4>1. Of(s) = {}
        BY <3>1, <3>2, <3>4 DEF IInv, Owned
      <4>. HIDE DEF Of
      <4>. QED  BY <3>4, <4>1, FS_EmptySet
    <3>. QED  BY <3>3, <3>4
  <2>. QED  BY <2>1, <2>2 DEF OneOwner
<1>. QED  BY <1>1, InitIInv, StepIInv, PTL DEF Spec

\* unmount() can reach every mount that is in place, but one whose state has
\* been destroyed under its child.
THEOREM MountsReachableAlways == Spec => []MountsReachable
<1>1. IInv => MountsReachable
  BY DEF IInv
<1>. QED  BY <1>1, InitIInv, StepIInv, PTL DEF Spec

\* m_mounts changes only while a call holds m_mtx; if a thread changes it, the
\* call waits for that thread, and finds its mount added.
THEOREM MountsChangeLockedAlways == Spec => MountsChangeLocked
<1>. DEFINE A == mounts' # mounts =>
                   /\ call # Idle
                   /\ ~useNs /\ call.op # "unmount" =>
                        call.at = "wait" /\ mounts' = Append(mounts, call.cur)
<1>1. ASSUME IInv, [Next]_vars
      PROVE  [A]_vars
  <2>. SUFFICES ASSUME Next, mounts' # mounts  PROVE A
    BY <1>1
  <2>1. \/ PollTimesOut \/ AllUnmounted
        \/ \E s \in DOMAIN state : ThreadMounts(s)
    BY Zenon DEF Next, Settings, Calls, Proceed, Interrupted, Thread, Child, LinkDirectory, LinkFile,
         LinkRefused, ClearVirtualMappings, ClearExecutableBlacklist, SetUseMountNamespace,
         BlacklistExecutable, Mount, StartMounting, Unmount, CreateRefused, CreateProcess, StartThread,
         StartChild, Await, AwaitFreed, GiveUp, PollSeesExit, AllStarted, Fork,
         UnmountThread, SignalChild, UnmountRefused, WaitForChild, CloneFails, PollInterrupted,
         WaitInterrupted, ThreadFails, ThreadFrees, ThreadLoops, ThreadReturns, ChildMounts,
         ChildFails, ChildEnds, ChildNotices, ChildDies, ChildExits, ProcessExits
  <2>2. CASE PollTimesOut
    BY <1>1, <2>2 DEF PollTimesOut, IInv, CallShape, At, Idle
  <2>3. CASE AllUnmounted
    BY <2>3 DEF AllUnmounted, Unmounting, Idle
  <2>4. ASSUME NEW s \in DOMAIN state, ThreadMounts(s)  PROVE A
    BY <1>1, <2>4 DEF ThreadMounts, IInv, Progress, At, Idle
  <2>. QED  BY <2>1, <2>2, <2>3, <2>4
<1>. QED  BY <1>1, InitIInv, StepIInv, PTL DEF Spec, MountsChangeLocked

-----------------------------------------------------------------------------
(***************************************************************************)
(* The proof that UsvfsManager implements Mounting: mounting and           *)
(* unmounting show to callers as one step each, whatever the threads and   *)
(* children do in between, and what is in place are the mounts that        *)
(* waited, in order and as far as mounting got.                            *)
(*                                                                         *)
(* One assumption: reading the status of a MountState that is gone does    *)
(* not give success.  With it mount() would answer TRUE for a mount that   *)
(* was never made.                                                         *)
(***************************************************************************)

-----------------------------------------------------------------------------
(***************************************************************************)
(* What the refinement needs of the state beyond IInv.                     *)
(***************************************************************************)
OnePerMountPoint ==
  \A i, j \in DOMAIN pending : state[pending[i]].mp = state[pending[j]].mp => i = j

\* How many of the mounts the call took it has handed to a thread or child.
Started == Len(call.taken) - Len(call.todo)

\* The last of them is not in m_mounts yet.
OneInHand == call.at \in {"wait", "poll", "hang"} /\ call.cur \notin ToSet(mounts)

\* The mounts the call took are, in order: in m_mounts behind those that were
\* there, in hand, and still to be started.
Taken ==
  /\ Len(call.todo) =< Len(call.taken)
  /\ \A i \in 1..Len(call.todo) : call.todo[i] = call.taken[Started + i]
  /\ call.at \in {"wait", "poll", "hang"} => Started > 0 /\ call.cur = call.taken[Started]
  /\ Len(mounts) - call.base = IF OneInHand THEN Started - 1 ELSE Started
  /\ \A i \in 1..Len(mounts) - call.base : mounts[call.base + i] = call.taken[i]

InOrder ==
  /\ call.taken # <<>> => pending = <<>> /\ call.op \in {"mount", "create"} /\ Taken
  /\ call.op # "none" /\ call.taken = <<>> => call.base = Len(mounts)
  /\ call.op \in {"mount", "create"} /\ call.taken = <<>> => call.at = "fork"
  /\ call.at = "fork" => call.op # "mount"

RInv == IInv /\ OnePerMountPoint /\ InOrder

-----------------------------------------------------------------------------
(***************************************************************************)
(* What callers see of lists of states.                                    *)
(***************************************************************************)
Seen(st, s) == [mp |-> st[s].mp, links |-> st[s].links]
ListSeen(st, q) == [i \in DOMAIN q |-> Seen(st, q[i])]
AllSeen(st, D) == {Seen(st, s) : s \in D}

waiting == ListSeen(state, Waiting)
mounted == ListSeen(state, Mounted)

\* A list of states is seen as a list of the same length.
LEMMA ListSeenType ==
  ASSUME NEW st, NEW D, NEW q \in Seq(D)
  PROVE  /\ ListSeen(st, q) \in Seq(AllSeen(st, D)) /\ Len(ListSeen(st, q)) = Len(q)
         /\ Len(q) \in Nat /\ DOMAIN ListSeen(st, q) = 1..Len(q) /\ DOMAIN q = 1..Len(q)
         /\ \A i \in 1..Len(q) : q[i] \in D /\ ListSeen(st, q)[i] = Seen(st, q[i])
<1>. DEFINE V == AllSeen(st, D)
<1>1. Len(q) \in Nat /\ DOMAIN q = 1..Len(q) /\ \A i \in 1..Len(q) : q[i] \in D
  BY ListOf
<1>2. ListSeen(st, q) \in [1..Len(q) -> V]
  BY <1>1 DEF ListSeen, AllSeen
<1>3. ListSeen(st, q) \in Seq(V)
  BY <1>1, <1>2, SeqDef
<1>4. DOMAIN ListSeen(st, q) = 1..Len(q) /\ Len(ListSeen(st, q)) = Len(q)
  BY <1>1, <1>2, <1>3, LenProperties
<1>. QED  BY <1>1, <1>3, <1>4 DEF ListSeen

\* No state there is changes what is linked where.
SameLinks ==
  \A s \in DOMAIN state :
    s \in DOMAIN state' /\ state'[s].mp = state[s].mp /\ state'[s].links = state[s].links

\* The same list is then seen the same.
LEMMA ListSeenKept ==
  ASSUME SameLinks, NEW q \in Seq(DOMAIN state)
  PROVE  ListSeen(state', q) = ListSeen(state, q)
<1>1. \A i \in DOMAIN q : q[i] \in DOMAIN state
  BY ListOf
<1>2. \A i \in DOMAIN q : Seen(state', q[i]) = Seen(state, q[i])
  BY <1>1 DEF Seen, SameLinks
<1>. QED  BY <1>2 DEF ListSeen

\* The variables of Mounting, in these terms.
LEMMA AbstractState ==
  /\ Recs(Waiting) = waiting /\ Recs(Mounted) = mounted
  /\ Recs(Waiting)' = ListSeen(state', Waiting') /\ Recs(Mounted)' = ListSeen(state', Mounted')
BY DEF Recs, Rec, waiting, mounted, ListSeen, Seen

\* The lists that callers see are lists of states.
LEMMA ListsTyped ==
  ASSUME Typed
  PROVE  /\ pending \in Seq(DOMAIN state) /\ mounts \in Seq(DOMAIN state)
         /\ call.taken \in Seq(DOMAIN state) /\ call.todo \in Seq(DOMAIN state)
         /\ Waiting \in Seq(DOMAIN state) /\ Mounted \in Seq(DOMAIN state)
         /\ Len(mounts) \in Nat /\ call.base \in 0..Len(mounts)
<1>1. Len(mounts) \in Nat /\ call.base \in 0..Len(mounts) /\ mounts \in Seq(DOMAIN state)
  BY LenProperties DEF Typed, CallRecords
<1>2. SubSeq(mounts, 1, call.base) \in Seq(DOMAIN state)
  <2>1. \A i \in 1..call.base : mounts[i] \in DOMAIN state
    BY <1>1, ElementOfSeq
  <2>. QED  BY <1>1, <2>1, SubSeqProperties
<1>. QED  BY <1>1, <1>2, HeldAreMade DEF Typed, Waiting, Mounted

\* Nothing is seen of a step that changes none of the lists callers see.
LEMMA Unseen ==
  ASSUME Typed, SameLinks, Waiting' = Waiting, Mounted' = Mounted, ret' = ret
  PROVE  UNCHANGED Abstract!vars
BY AbstractState, ListsTyped, ListSeenKept DEF Abstract!vars, waiting, mounted

-----------------------------------------------------------------------------
(***************************************************************************)
(* What a state keeps when one of its fields is assigned to, or when it is *)
(* destroyed.                                                              *)
(***************************************************************************)
\* Replacing a state by one that is linked the same.
LEMMA OneSameLinks ==
  ASSUME Typed, NEW s \in DOMAIN state, NEW r \in States(Len(state)),
         state' = [state EXCEPT ![s] = r], r.mp = state[s].mp, r.links = state[s].links
  PROVE  SameLinks
BY StateStep DEF SameLinks

\* Destroying states leaves what is linked where.
LEMMA DestroyedSameLinks ==
  ASSUME Typed, NEW S, state' = Destroyed(state, S)
  PROVE  SameLinks
<1>1. Len(state) \in Nat /\ state \in Seq(States(Len(state)))
  BY LenProperties DEF Typed
<1>. SUFFICES ASSUME NEW q \in DOMAIN state
              PROVE  /\ q \in DOMAIN state' /\ state'[q].mp = state[q].mp
                     /\ state'[q].links = state[q].links
  BY DEF SameLinks
<1>2. state[q] \in States(Len(state)) /\ DOMAIN state' = DOMAIN state
  BY <1>1, StateTypes, DestroyedOnly
<1>3. state'[q] = state[q] \/ state'[q] = [state[q] EXCEPT !.alive = FALSE]
  BY <1>1, DestroyedOnly
<1>. QED  BY <1>2, <1>3 DEF States

-----------------------------------------------------------------------------
(***************************************************************************)
(* Every step is a step of Mounting, or shows nothing.                     *)
(***************************************************************************)
\* While no call is under way the lists of the manager are what is seen.
LEMMA IdleSeen ==
  ASSUME call = Idle
  PROVE  Waiting = pending /\ Mounted = mounts /\ waiting = ListSeen(state, pending)
         /\ mounted = ListSeen(state, mounts)
<1>1. call.op = "none" /\ call.taken = <<>>
  BY DEF Idle
<1>. QED  BY <1>1 DEF Waiting, Mounted, waiting, mounted

\* A link that joins a pending mount is seen in the one that waits.
LEMMA JoinSeen ==
  ASSUME RInv, NEW l \in Links, Joined(l), call = Idle, UNCHANGED <<mounts, call>>
  PROVE  /\ Recs(Waiting)' = Abstract!With(l) /\ Recs(Mounted)' = Recs(Mounted)
         /\ OnePerMountPoint'
<1>. USE DEF RInv, IInv
<1>1. PICK s \in ToSet(pending) : state[s].mp = To[l] /\ state' = [state EXCEPT ![s].links = @ \cup {l}]
  BY DEF Joined, PendingAt
<1>. DEFINE r == [state[s] EXCEPT !.links = @ \cup {l}]
<1>2. s \in DOMAIN state /\ state[s] \in States(Len(state))
  BY HeldAreMade, StateTypes
<1>3. r \in States(Len(state)) /\ state' = [state EXCEPT ![s] = r]
  BY <1>1, <1>2 DEF States
<1>4. r.mp = state[s].mp /\ r.links = state[s].links \cup {l}
  BY <1>2 DEF States
<1>. HIDE DEF r
<1>5. /\ DOMAIN state' = DOMAIN state /\ state'[s] = r
      /\ \A q \in DOMAIN state : q # s => state'[q] = state[q]
  BY <1>2, <1>3, StateStep
<1>6. pending' = pending /\ mounts' = mounts /\ call' = Idle
  BY DEF Joined
<1>7. /\ Waiting' = pending /\ Mounted' = mounts
      /\ Recs(Waiting) = ListSeen(state, pending) /\ Recs(Mounted) = ListSeen(state, mounts)
  BY <1>6, IdleSeen, AbstractState DEF Waiting, Mounted, Idle
<1>8. Recs(Mounted)' = Recs(Mounted)
  <2>1. \A i \in DOMAIN mounts : mounts[i] \in DOMAIN state /\ mounts[i] # s
    <3>1. s \notin ToSet(mounts)
      BY DEF Owned
    <3>2. \A i \in DOMAIN mounts : mounts[i] \in ToSet(mounts)
      BY DEF ToSet
    <3>. QED  BY <3>1, <3>2, HeldAreMade
  <2>2. ListSeen(state', mounts) = ListSeen(state, mounts)
    BY <1>5, <2>1 DEF ListSeen, Seen
  <2>. QED  BY <1>7, <2>2, AbstractState
<1>9. PICK j \in DOMAIN pending : pending[j] = s
  BY DEF ToSet
<1>10. \A i \in DOMAIN pending : pending[i] \in DOMAIN state
  BY ListsTyped, ListOf
<1>11. \A i \in DOMAIN pending : i # j => state[pending[i]].mp # To[l] /\ state'[pending[i]] = state[pending[i]]
  BY <1>1, <1>5, <1>9, <1>10 DEF OnePerMountPoint
<1>12. \A i \in DOMAIN pending : state'[pending[i]].mp = state[pending[i]].mp
  BY <1>4, <1>5, <1>9, <1>10, <1>11
<1>13. OnePerMountPoint'
  BY <1>6, <1>12 DEF OnePerMountPoint
<1>14. Recs(Waiting)' = Abstract!With(l)
  <2>. DEFINE W == ListSeen(state, pending)
  <2>1. DOMAIN W = DOMAIN pending /\ \A i \in DOMAIN pending : W[i] = Seen(state, pending[i])
    BY DEF ListSeen
  <2>2. \A i \in DOMAIN pending : W[i].mp = state[pending[i]].mp /\ W[i].links = state[pending[i]].links
    BY <2>1 DEF Seen
  <2>3. W[j].mp = To[l]
    BY <1>1, <1>9, <2>2
  <2>4. Abstract!With(l) =
          [i \in DOMAIN W |-> IF W[i].mp = To[l] THEN [W[i] EXCEPT !.links = @ \cup {l}] ELSE W[i]]
    BY <1>7, <2>1, <2>3 DEF Abstract!With
  <2>5. ASSUME NEW i \in DOMAIN pending
        PROVE  Seen(state', pending[i]) =
                 IF W[i].mp = To[l] THEN [W[i] EXCEPT !.links = @ \cup {l}] ELSE W[i]
    <3>1. CASE i = j
      <4>1. Seen(state', s) = [mp |-> state[s].mp, links |-> state[s].links \cup {l}]
        BY <1>4, <1>5 DEF Seen
      <4>2. W[i] = [mp |-> state[s].mp, links |-> state[s].links] /\ W[i].mp = To[l]
        BY <1>9, <2>1, <2>3, <3>1 DEF Seen
      <4>. HIDE DEF W
      <4>. QED  BY <1>9, <3>1, <4>1, <4>2
    <3>2. CASE i # j
      BY <1>11, <2>1, <2>2, <3>2 DEF Seen
    <3>. QED  BY <3>1, <3>2
  <2>6. ListSeen(state', pending) = [i \in DOMAIN pending |-> Seen(state', pending[i])]
    BY DEF ListSeen
  <2>. HIDE DEF W
  <2>. QED  BY <1>7, <2>1, <2>4, <2>5, <2>6, AbstractState
<1>. QED  BY <1>8, <1>13, <1>14

\* A link that makes a pending mount is seen as another that waits.
LEMMA EnqueueSeen ==
  ASSUME RInv, NEW l \in Links, Enqueued(l), call = Idle, UNCHANGED <<mounts, call>>
  PROVE  /\ Recs(Waiting)' = Abstract!With(l) /\ Recs(Mounted)' = Recs(Mounted)
         /\ OnePerMountPoint'
<1>. USE DEF RInv, IInv
<1>. DEFINE n == Len(state) + 1
            r == NewState(l)
            W == ListSeen(state, pending)
<1>1. /\ PendingAt(To[l]) = {} /\ state' = Append(state, r) /\ pending' = Append(pending, n)
      /\ mounts' = mounts /\ call' = Idle
  BY DEF Enqueued
<1>2. Len(state) \in Nat /\ DOMAIN state = 1..Len(state) /\ state \in Seq(States(Len(state)) \cup {r})
  <2>1. state \in Seq(States(Len(state)) \cup {r})
    BY SeqMonotonic DEF Typed
  <2>. QED  BY <2>1, LenProperties DEF Typed
<1>3. r.mp = To[l] /\ r.links = {l}
  BY DEF NewState
<1>. HIDE DEF r
<1>4. /\ \A q \in DOMAIN state : state'[q] = state[q]
      /\ state'[n] = r /\ DOMAIN state' = DOMAIN state \cup {n}
  BY <1>1, <1>2, AppendProperties, LenProperties
<1>5. SameLinks
  BY <1>4 DEF SameLinks
<1>6. /\ Waiting' = pending' /\ Mounted' = mounts
      /\ Recs(Waiting) = W /\ Recs(Mounted) = ListSeen(state, mounts)
  BY <1>1, IdleSeen, AbstractState DEF Waiting, Mounted, Idle
<1>7. Recs(Mounted)' = Recs(Mounted)
  BY <1>5, <1>6, AbstractState, ListSeenKept, ListsTyped
<1>8. \A i \in DOMAIN pending : pending[i] \in DOMAIN state /\ state[pending[i]].mp # To[l]
  BY <1>1, ListsTyped, ListOf DEF PendingAt, ToSet
<1>9. /\ Len(pending) \in Nat /\ DOMAIN pending = 1..Len(pending)
      /\ pending' \in Seq(Nat) /\ Len(pending') = Len(pending) + 1
      /\ \A i \in 1..Len(pending) : pending'[i] = pending[i]
      /\ pending'[Len(pending) + 1] = n /\ DOMAIN pending' = 1..Len(pending) + 1
  <2>1. pending \in Seq(Nat) /\ n \in Nat
    BY <1>2, ListsTyped, SeqMonotonic
  <2>. QED  BY <1>1, <2>1, AppendProperties, LenProperties
<1>10. OnePerMountPoint'
  <2>1. \A i \in DOMAIN pending' :
          \/ i \in DOMAIN pending /\ state'[pending'[i]].mp = state[pending[i]].mp /\ state[pending[i]].mp # To[l]
          \/ i = Len(pending) + 1 /\ state'[pending'[i]].mp = To[l]
    BY <1>3, <1>4, <1>8, <1>9
  <2>. QED  BY <2>1 DEF OnePerMountPoint
<1>11. Recs(Waiting)' = Abstract!With(l)
  <2>1. \A i \in DOMAIN pending : W[i] = Seen(state, pending[i]) /\ W[i].mp # To[l]
    BY <1>8 DEF ListSeen, Seen
  <2>2. DOMAIN W = DOMAIN pending
    BY DEF ListSeen
  <2>3. Abstract!With(l) = Append(W, [mp |-> To[l], links |-> {l}])
    BY <1>6, <2>1, <2>2 DEF Abstract!With
  <2>. DEFINE e == [mp |-> To[l], links |-> {l}]
              V == AllSeen(state, DOMAIN state) \cup {e}
  <2>4. W \in Seq(V) /\ Len(W) = Len(pending)
    <3>1. W \in Seq(AllSeen(state, DOMAIN state)) /\ Len(W) = Len(pending)
      BY ListSeenType, ListsTyped
    <3>. QED  BY <3>1, SeqMonotonic
  <2>5. /\ Append(W, e) \in Seq(V) /\ Len(Append(W, e)) = Len(pending) + 1
        /\ \A i \in 1..Len(pending) : Append(W, e)[i] = W[i]
        /\ Append(W, e)[Len(pending) + 1] = e
    BY <2>4, AppendProperties
  <2>6. ListSeen(state', pending') = [i \in 1..Len(pending) + 1 |-> Seen(state', pending'[i])]
    BY <1>9 DEF ListSeen
  <2>7. \A i \in 1..Len(pending) + 1 : Seen(state', pending'[i]) = Append(W, e)[i]
    <3>1. ASSUME NEW i \in 1..Len(pending)  PROVE Seen(state', pending'[i]) = Append(W, e)[i]
      <4>1. Seen(state', pending'[i]) = Seen(state, pending[i])
        BY <1>4, <1>8, <1>9 DEF Seen
      <4>. HIDE DEF W, e
      <4>. QED  BY <1>9, <2>1, <2>5, <4>1
    <3>2. Seen(state', pending'[Len(pending) + 1]) = e
      BY <1>3, <1>4, <1>9 DEF Seen
    <3>. QED  BY <1>9, <2>5, <3>1, <3>2
  <2>8. DOMAIN Append(W, e) = 1..Len(pending) + 1 /\ Append(W, e) = [i \in 1..Len(pending) + 1 |-> Append(W, e)[i]]
    BY <2>5, LenProperties
  <2>. HIDE DEF W, e
  <2>. QED  BY <1>6, <2>3, <2>6, <2>7, <2>8, AbstractState DEF e
<1>. QED  BY <1>7, <1>10, <1>11

\* A call that is over has nothing to be in order.
LEMMA IdleInOrder ==
  ASSUME call' = Idle
  PROVE  InOrder'
<1>1. call'.op = "none" /\ call'.at = "none" /\ call'.taken = <<>>
  BY DEF Idle
<1>. QED  BY <1>1 DEF InOrder

\* Where the same mounts are pending and linked the same, there is still one
\* for each mount point; and none is one for each.
LEMMA SamePending ==
  ASSUME Typed, OnePerMountPoint, SameLinks, pending' = pending \/ pending' = <<>>
  PROVE  OnePerMountPoint'
<1>1. \A i \in DOMAIN pending : pending[i] \in DOMAIN state
  BY ListsTyped, ListOf
<1>. QED  BY <1>1, EmptyList DEF OnePerMountPoint, SameLinks

\* Links, settings, and processes that exit.
LEMMA SettingsSeen ==
  ASSUME RInv, Settings \/ \E p \in procs : ProcessExits(p)
  PROVE  OnePerMountPoint' /\ InOrder' /\ [Abstract!Next]_(Abstract!vars)
<1>. USE DEF RInv, IInv
<1>1. ASSUME NEW l \in Links, NEW ok \in BOOLEAN, Joined(l) \/ Enqueued(l), call = Idle,
             UNCHANGED <<mounts, call>>, Answer("link", ok)
      PROVE  OnePerMountPoint' /\ InOrder' /\ Abstract!Next
  <2>1. Recs(Waiting)' = Abstract!With(l) /\ Recs(Mounted)' = Recs(Mounted) /\ OnePerMountPoint'
    BY <1>1, JoinSeen, EnqueueSeen
  <2>2. Abstract!Link(l, ok)
    BY <1>1, <2>1 DEF Abstract!Link, Abstract!Answer, Answer
  <2>. QED  BY <1>1, <2>1, <2>2, IdleInOrder DEF Abstract!Next
<1>2. ASSUME UNCHANGED <<pending, mounts, state, call>>
      PROVE  /\ OnePerMountPoint' /\ InOrder' /\ Recs(Waiting)' = Recs(Waiting)
             /\ Recs(Mounted)' = Recs(Mounted)
  <2>1. SameLinks /\ Waiting' = Waiting /\ Mounted' = Mounted
    BY <1>2 DEF SameLinks, Waiting, Mounted
  <2>2. InOrder'
    BY <1>2 DEF InOrder, Taken, Started, OneInHand
  <2>. QED  BY <1>2, <2>1, <2>2, SamePending, AbstractState, ListsTyped, ListSeenKept DEF waiting, mounted
<1>3. ASSUME NEW l \in Links, LinkDirectory(l)
      PROVE  OnePerMountPoint' /\ InOrder' /\ Abstract!Next
  BY <1>1, <1>3 DEF LinkDirectory
<1>4. ASSUME NEW l \in Links, LinkFile(l)
      PROVE  OnePerMountPoint' /\ InOrder' /\ Abstract!Next
  <2>1. PICK ok \in BOOLEAN : Answer("link", ok)
    BY <1>4, Zenon DEF LinkFile
  <2>2. (Joined(l) \/ Enqueued(l)) /\ call = Idle /\ UNCHANGED <<mounts, call>>
    BY <1>4 DEF LinkFile
  <2>. QED  BY <1>1, <2>1, <2>2
<1>5. ASSUME NEW l \in Links, LinkRefused(l)
      PROVE  OnePerMountPoint' /\ InOrder' /\ Abstract!Next
  <2>1. Abstract!Link(l, FALSE)
    BY <1>2, <1>5 DEF LinkRefused, Abstract!Link, Abstract!Answer, Answer
  <2>. QED  BY <1>2, <1>5, <2>1 DEF LinkRefused, Abstract!Next
<1>6. CASE ClearVirtualMappings
  <2>1. /\ call = Idle /\ call' = Idle /\ pending' = <<>> /\ mounts' = mounts /\ ret' = ret
        /\ state' = Destroyed(state, ToSet(pending))
    BY <1>6 DEF ClearVirtualMappings
  <2>2. SameLinks
    BY <2>1, DestroyedSameLinks
  <2>3. Waiting' = <<>> /\ Mounted' = mounts /\ Mounted = mounts
    BY <2>1 DEF Waiting, Mounted, Idle
  <2>4. Recs(Waiting)' = <<>> /\ Recs(Mounted)' = Recs(Mounted)
    <3>1. ListSeen(state', <<>>) = <<>>
      BY DEF ListSeen
    <3>. QED  BY <2>2, <2>3, <3>1, AbstractState, ListsTyped, ListSeenKept DEF mounted
  <2>5. Abstract!Clear
    BY <2>1, <2>4 DEF Abstract!Clear
  <2>. QED  BY <2>1, <2>2, <2>5, IdleInOrder, SamePending DEF Abstract!Next
<1>7. CASE \/ ClearExecutableBlacklist \/ \E value \in BOOLEAN : SetUseMountNamespace(value)
           \/ (\E e \in Execs : BlacklistExecutable(e)) \/ \E p \in procs : ProcessExits(p)
  <2>1. UNCHANGED <<pending, mounts, state, call, ret>>
    BY <1>7 DEF ClearExecutableBlacklist, SetUseMountNamespace, BlacklistExecutable, ProcessExits
  <2>. QED  BY <1>2, <2>1 DEF Abstract!vars
<1>. QED  BY <1>3, <1>4, <1>5, <1>6, <1>7 DEF Settings

\* A step that changes the states alone, and none of what is linked where.
LEMMA RunsUnseen ==
  ASSUME RInv, SameLinks, UNCHANGED <<pending, mounts, call, ret>>
  PROVE  OnePerMountPoint' /\ InOrder' /\ UNCHANGED Abstract!vars
<1>1. Waiting' = Waiting /\ Mounted' = Mounted
  BY DEF Waiting, Mounted
<1>2. InOrder'
  BY DEF RInv, InOrder, Taken, Started, OneInHand
<1>. QED  BY <1>1, <1>2, Unseen, SamePending DEF RInv, IInv

\* What was in m_mounts when the call began stays there, in front.
LEMMA FrontKept ==
  ASSUME Typed, NEW s \in DOMAIN state, mounts' = Append(mounts, s), call'.base = call.base,
         call.op # "none", call'.op # "none", call'.taken = call.taken, pending' = pending
  PROVE  /\ Waiting' = Waiting /\ Mounted' = Mounted
         /\ Len(mounts') = Len(mounts) + 1 /\ Len(mounts) \in Nat
         /\ \A i \in 1..Len(mounts) : mounts'[i] = mounts[i]
         /\ mounts'[Len(mounts) + 1] = s /\ ToSet(mounts') = ToSet(mounts) \cup {s}
<1>1. /\ Len(mounts') = Len(mounts) + 1 /\ \A i \in 1..Len(mounts) : mounts'[i] = mounts[i]
      /\ mounts'[Len(mounts) + 1] = s /\ mounts' \in Seq(DOMAIN state)
      /\ ToSet(mounts') = ToSet(mounts) \cup {s}
  BY ListsTyped, AppendProperties, AppendList
<1>2. call.base \in Nat /\ call.base =< Len(mounts) /\ Len(mounts) \in Nat
  BY ListsTyped
<1>3. SubSeq(mounts', 1, call.base) = SubSeq(mounts, 1, call.base)
  <2>1. \A i \in 1..call.base : mounts[i] \in DOMAIN state /\ mounts'[i] = mounts[i]
    BY <1>1, <1>2, ListsTyped, ElementOfSeq
  <2>. DEFINE a == SubSeq(mounts, 1, call.base)
              b == SubSeq(mounts', 1, call.base)
  <2>2. /\ a \in Seq(DOMAIN state) /\ Len(a) = call.base /\ \A i \in 1..call.base : a[i] = mounts[i]
        /\ b \in Seq(DOMAIN state) /\ Len(b) = call.base /\ \A i \in 1..call.base : b[i] = mounts'[i]
    BY <1>2, <2>1, SubSeqProperties
  <2>. HIDE DEF a, b
  <2>3. Len(a) = Len(b) /\ \A i \in 1..Len(a) : a[i] = b[i]
    BY <2>1, <2>2
  <2>4. a = b
    BY <2>2, <2>3, SeqEqual
  <2>. QED  BY <2>4 DEF a, b
<1>. QED  BY <1>1, <1>2, <1>3 DEF Waiting, Mounted

\* Nothing is seen of a thread or child.
LEMMA ThreadUnseen ==
  ASSUME RInv, NEW s \in DOMAIN state, Thread(s) \/ Child(s) \/ ChildNotices(s) \/ ChildDies(s)
  PROVE  OnePerMountPoint' /\ InOrder' /\ UNCHANGED Abstract!vars
<1>. USE DEF RInv, IInv
<1>1. state[s] \in States(Len(state))
  BY StateTypes
<1>2. SameLinks
  <2>1. DOMAIN state' = DOMAIN state /\ \A q \in DOMAIN state : q # s => state'[q] = state[q]
    BY StateTypes DEF Thread, Child, ThreadMounts, ThreadFails, ThreadFrees, ThreadLoops, ThreadReturns,
         ChildMounts, ChildFails, ChildEnds, ChildNotices, ChildDies, ChildExits
  <2>2. state'[s].mp = state[s].mp /\ state'[s].links = state[s].links
    BY <1>1 DEF States, Thread, Child, ThreadMounts, ThreadFails, ThreadFrees, ThreadLoops, ThreadReturns,
         ChildMounts, ChildFails, ChildEnds, ChildNotices, ChildDies, ChildExits
  <2>. QED  BY <2>1, <2>2 DEF SameLinks
<1>3. CASE ThreadMounts(s)
  <2>1. At("wait") /\ call.cur = s /\ s \in OfThreads
    BY <1>3 DEF ThreadMounts, Progress, OfThreads
  <2>2. /\ pending' = pending /\ call' = call /\ ret' = ret /\ mounts' = Append(mounts, s)
        /\ call.op # "none"
    BY <1>3, <2>1 DEF ThreadMounts, At
  <2>3. /\ Waiting' = Waiting /\ Mounted' = Mounted
        /\ Len(mounts') = Len(mounts) + 1 /\ Len(mounts) \in Nat
        /\ \A i \in 1..Len(mounts) : mounts'[i] = mounts[i]
        /\ mounts'[Len(mounts) + 1] = s /\ ToSet(mounts') = ToSet(mounts) \cup {s}
    BY <2>2, FrontKept
  <2>4. call.taken # <<>> /\ OneInHand /\ ~OneInHand'
    BY <2>1, <2>2, <2>3 DEF InOrder, At, OneInHand, Owned
  <2>5. Started \in Int /\ call.base \in Nat /\ call.base =< Len(mounts)
    BY ListsTyped, LenProperties DEF Started
  <2>6. Taken'
    <3>1. Started' = Started /\ Started > 0 /\ s = call.taken[Started] /\ Len(mounts) - call.base = Started - 1
      BY <2>1, <2>2, <2>4 DEF Started, InOrder, Taken, At
    <3>2. Len(mounts') - call.base = Started
      BY <2>3, <2>5, <3>1
    <3>3. ASSUME NEW i \in 1..Len(mounts') - call.base  PROVE mounts'[call.base + i] = call.taken[i]
      <4>1. CASE i = Started
        BY <2>3, <2>5, <3>1, <4>1
      <4>2. CASE i # Started
        <5>1. i \in 1..Len(mounts) - call.base /\ call.base + i \in 1..Len(mounts)
          BY <2>3, <2>5, <3>1, <3>2, <4>2
        <5>2. mounts[call.base + i] = call.taken[i]
          BY <2>4, <5>1 DEF InOrder, Taken
        <5>. QED  BY <2>3, <5>1, <5>2
      <4>. QED  BY <4>1, <4>2
    <3>. QED  BY <2>2, <2>4, <3>1, <3>2, <3>3 DEF InOrder, Taken
  <2>7. InOrder'
    BY <2>2, <2>4, <2>6 DEF InOrder
  <2>. QED  BY <1>2, <2>2, <2>3, <2>7, Unseen, SamePending
<1>4. CASE ~ThreadMounts(s)
  <2>1. UNCHANGED <<pending, mounts, call, ret>>
    BY <1>4 DEF Thread, Child, ThreadFails, ThreadFrees, ThreadLoops, ThreadReturns, ChildMounts,
         ChildFails, ChildEnds, ChildNotices, ChildDies, ChildExits
  <2>. QED  BY <1>2, <2>1, RunsUnseen
<1>. QED  BY <1>3, <1>4

-----------------------------------------------------------------------------
(***************************************************************************)
(* The steps of a call that is under way.                                  *)
(***************************************************************************)
\* A call that has taken no mounts shows all that is in m_mounts.
LEMMA AllMounted ==
  ASSUME Typed, call.op = "none" \/ call.base = Len(mounts)
  PROVE  Mounted = mounts /\ mounted = ListSeen(state, mounts)
BY ListsTyped, SubSeqFull DEF Mounted, mounted

\* The next mount of a call is handed to its thread or child.
LEMMA StartUnseen ==
  ASSUME RInv, StartThread \/ StartChild
  PROVE  OnePerMountPoint' /\ InOrder' /\ UNCHANGED Abstract!vars
<1>. USE DEF RInv, IInv
<1>. DEFINE s == Head(call.todo)
<1>1. At("next") /\ call.todo # <<>>
  BY DEF StartThread, StartChild
<1>2. /\ s \in DOMAIN state /\ Len(Tail(call.todo)) = Len(call.todo) - 1 /\ s = call.todo[1]
      /\ \A i \in 1..Len(call.todo) - 1 : Tail(call.todo)[i] = call.todo[i + 1]
      /\ s \in ToSet(call.todo) /\ state[s] \in States(Len(state))
      /\ Len(call.todo) \in Nat \ {0} /\ Len(call.taken) \in Nat
  <2>1. call.todo \in Seq(DOMAIN state) /\ call.taken \in Seq(DOMAIN state)
    BY ListsTyped
  <2>2. /\ s \in DOMAIN state /\ s = call.todo[1] /\ s \in ToSet(call.todo)
        /\ Tail(call.todo) \in Seq(DOMAIN state) /\ Len(Tail(call.todo)) = Len(call.todo) - 1
        /\ \A i \in DOMAIN Tail(call.todo) : Tail(call.todo)[i] = call.todo[i + 1]
    BY <1>1, <2>1, HeadAndTail
  <2>3. DOMAIN Tail(call.todo) = 1..Len(Tail(call.todo))
    BY <2>2, LenProperties
  <2>4. Len(call.todo) \in Nat \ {0} /\ Len(call.taken) \in Nat
    BY <1>1, <2>1, EmptySeq, LenProperties
  <2>. HIDE DEF s
  <2>. QED  BY <2>2, <2>3, <2>4, StateTypes
<1>3. /\ pending' = pending /\ mounts' = mounts /\ ret' = ret
      /\ call'.op = call.op /\ call'.at \in {"wait", "poll"} /\ call'.todo = Tail(call.todo)
      /\ call'.cur = s /\ call'.taken = call.taken /\ call'.base = call.base
  BY DEF StartThread, StartChild, Typed, CallRecords
<1>4. SameLinks
  <2>1. /\ DOMAIN state' = DOMAIN state /\ \A q \in DOMAIN state : q # s => state'[q] = state[q]
        /\ state'[s].mp = state[s].mp /\ state'[s].links = state[s].links
    BY <1>2, StateTypes DEF StartThread, StartChild, States
  <2>. QED  BY <2>1 DEF SameLinks
<1>5. call.taken # <<>> /\ Taken /\ ~OneInHand
  BY <1>1 DEF InOrder, At, OneInHand
<1>6. OneInHand'
  <2>1. s \in OfCall
    BY <1>1, <1>2 DEF OfCall, At
  <2>. QED  BY <1>3, <2>1 DEF OneInHand, Owned
<1>. HIDE DEF s
<1>7. Taken'
  <2>1. Started \in Nat /\ Started' = Started + 1 /\ Len(call'.todo) = Len(call.todo) - 1
        /\ Len(call.todo) > 0
    <3>1. Len(call.todo) =< Len(call.taken)
      BY <1>5 DEF Taken
    <3>2. Len(call'.todo) = Len(call.todo) - 1 /\ Len(call'.taken) = Len(call.taken)
      BY <1>2, <1>3
    <3>. QED  BY <1>2, <3>1, <3>2 DEF Started
  <2>2. ASSUME NEW i \in 1..Len(call'.todo)  PROVE call'.todo[i] = call'.taken[Started' + i]
    <3>1. i + 1 \in 1..Len(call.todo) /\ Started + (i + 1) = Started' + i
      BY <1>2, <2>1
    <3>2. call.todo[i + 1] = call.taken[Started + (i + 1)]
      BY <1>5, <3>1 DEF Taken
    <3>. QED  BY <1>2, <1>3, <2>1, <3>1, <3>2
  <2>3. call'.cur = call'.taken[Started']
    <3>1. call.todo[1] = call.taken[Started + 1]
      BY <1>2, <1>5, <2>1 DEF Taken
    <3>. QED  BY <1>2, <1>3, <2>1, <3>1
  <2>. QED  BY <1>2, <1>3, <1>5, <1>6, <2>1, <2>2, <2>3 DEF Taken
<1>8. InOrder'
  BY <1>1, <1>3, <1>5, <1>7 DEF InOrder, At
<1>9. Waiting' = Waiting /\ Mounted' = Mounted
  BY <1>3 DEF Waiting, Mounted
<1>. QED  BY <1>3, <1>4, <1>8, <1>9, Unseen, SamePending

\* A call that took mounts goes on, with no list and no state changed.
LEMMA ContinueUnseen ==
  ASSUME RInv, At("wait") \/ At("next"), UNCHANGED <<pending, mounts, state, ret>>,
         call'.op = call.op, call'.todo = call.todo, call'.taken = call.taken,
         call'.base = call.base,
         \/ call'.at = "next" /\ ~OneInHand
         \/ call'.at = "fork" /\ call.op # "mount" /\ ~OneInHand
         \/ call'.at = "hang" /\ At("wait") /\ call'.cur = call.cur
  PROVE  OnePerMountPoint' /\ InOrder' /\ UNCHANGED Abstract!vars
<1>. USE DEF RInv, IInv
<1>1. SameLinks /\ Waiting' = Waiting /\ Mounted' = Mounted
  BY DEF SameLinks, Waiting, Mounted
<1>2. call.taken # <<>> /\ Taken
  BY DEF InOrder, At
<1>3. Started' = Started /\ OneInHand' = OneInHand
  BY DEF Started, OneInHand, At
<1>4. Taken'
  BY <1>2, <1>3 DEF Taken, At
<1>5. InOrder'
  BY <1>2, <1>4 DEF InOrder
<1>. QED  BY <1>1, <1>5, Unseen, SamePending

\* The thread has mounted, or nobody will say so.
LEMMA AwaitUnseen ==
  ASSUME RInv, Await \/ AwaitFreed, call' # Idle, "success" \notin Freed
  PROVE  OnePerMountPoint' /\ InOrder' /\ UNCHANGED Abstract!vars
<1>. USE DEF RInv, IInv
<1>1. At("wait") /\ UNCHANGED <<pending, mounts, state, ret>>
  BY DEF Await, AwaitFreed, GiveUp
<1>2. CASE Await
  <2>1. Status(call.cur) = "success" /\ Continue /\ state[call.cur].alive
    BY <1>2 DEF Await, GiveUp
  <2>2. call.cur \in DOMAIN state
    BY <1>1, HeldAreMade DEF CallShape, At
  <2>3. state[call.cur].run \in {"mounted", "looping"}
    BY <2>1 DEF Status
  <2>4. call.cur \in ToSet(mounts)
    BY <1>1, <2>1, <2>2, <2>3 DEF Owned, OfCall, OfThreads, Progress, At
  <2>5. /\ call'.op = call.op /\ call'.todo = call.todo /\ call'.taken = call.taken
        /\ call'.base = call.base /\ call'.at = "next"
    BY <2>1 DEF Continue, Typed, CallRecords
  <2>. QED  BY <1>1, <2>4, <2>5, ContinueUnseen DEF OneInHand
<1>3. CASE AwaitFreed
  <2>1. call' = [call EXCEPT !.at = "hang"]
    BY <1>3 DEF AwaitFreed, GiveUp
  <2>2. /\ call'.op = call.op /\ call'.todo = call.todo /\ call'.taken = call.taken
        /\ call'.base = call.base /\ call'.at = "hang" /\ call'.cur = call.cur
    BY <2>1 DEF Typed, CallRecords
  <2>. QED  BY <1>1, <2>2, ContinueUnseen
<1>. QED  BY <1>2, <1>3

\* The child has lasted: its mount joins m_mounts.
LEMMA PollUnseen ==
  ASSUME RInv, PollTimesOut
  PROVE  OnePerMountPoint' /\ InOrder' /\ UNCHANGED Abstract!vars
<1>. USE DEF RInv, IInv
<1>. DEFINE s == call.cur
<1>1. /\ At("poll") /\ mounts' = Append(mounts, s) /\ pending' = pending /\ state' = state
      /\ ret' = ret /\ call.op # "none"
  BY DEF PollTimesOut, At
<1>2. /\ call'.op = call.op /\ call'.todo = call.todo /\ call'.taken = call.taken
      /\ call'.base = call.base /\ call'.at = "next"
  BY DEF PollTimesOut, Continue, Typed, CallRecords
<1>3. s \in DOMAIN state /\ s \notin ToSet(mounts)
  BY <1>1, HeldAreMade DEF CallShape, At, Owned, OfCall
<1>4. SameLinks
  BY <1>1 DEF SameLinks
<1>5. /\ Waiting' = Waiting /\ Mounted' = Mounted
      /\ Len(mounts') = Len(mounts) + 1 /\ Len(mounts) \in Nat
      /\ \A i \in 1..Len(mounts) : mounts'[i] = mounts[i]
      /\ mounts'[Len(mounts) + 1] = s
  BY <1>1, <1>2, <1>3, FrontKept
<1>6. call.taken # <<>> /\ OneInHand /\ ~OneInHand' /\ Taken
  BY <1>1, <1>2, <1>3 DEF InOrder, At, OneInHand
<1>7. Started \in Int /\ call.base \in Nat /\ call.base =< Len(mounts)
  BY ListsTyped, LenProperties DEF Started
<1>8. /\ Started' = Started /\ Started > 0 /\ s = call.taken[Started]
      /\ Len(mounts) - call.base = Started - 1
  BY <1>1, <1>2, <1>6 DEF Started, Taken, At
<1>9. Len(mounts') - call.base = Started
  BY <1>5, <1>7, <1>8
<1>10. ASSUME NEW i \in 1..Len(mounts') - call.base  PROVE mounts'[call.base + i] = call.taken[i]
  <2>1. CASE i = Started
    BY <1>5, <1>7, <1>8, <2>1
  <2>2. CASE i # Started
    <3>1. i \in 1..Len(mounts) - call.base /\ call.base + i \in 1..Len(mounts)
      BY <1>5, <1>7, <1>8, <1>9, <2>2
    <3>2. mounts[call.base + i] = call.taken[i]
      BY <1>6, <3>1 DEF Taken
    <3>. QED  BY <1>5, <3>1, <3>2
  <2>. QED  BY <2>1, <2>2
<1>11. Taken'
  BY <1>2, <1>6, <1>8, <1>9, <1>10 DEF Taken
<1>12. InOrder'
  BY <1>1, <1>2, <1>6, <1>11 DEF InOrder, At
<1>. QED  BY <1>1, <1>4, <1>5, <1>12, Unseen, SamePending

\* A list that goes on as another does is seen as what is in front, and the
\* part of the other.
LEMMA ListSplit ==
  ASSUME NEW st, NEW D, NEW q \in Seq(D), NEW t \in Seq(D), NEW b \in 0..Len(q),
         Len(q) - b =< Len(t), \A i \in 1..Len(q) - b : q[b + i] = t[i]
  PROVE  ListSeen(st, q) = ListSeen(st, SubSeq(q, 1, b)) \o SubSeq(ListSeen(st, t), 1, Len(q) - b)
<1>. DEFINE n == Len(q) - b
            V == AllSeen(st, D)
            f == SubSeq(q, 1, b)
            w == SubSeq(ListSeen(st, t), 1, n)
<1>1. Len(q) \in Nat /\ Len(t) \in Nat /\ b \in Nat /\ b =< Len(q)
  BY LenProperties
<1>2. /\ ListSeen(st, q) \in Seq(V) /\ Len(ListSeen(st, q)) = Len(q)
      /\ \A i \in 1..Len(q) : q[i] \in D /\ ListSeen(st, q)[i] = Seen(st, q[i])
  BY ListSeenType
<1>3. /\ ListSeen(st, t) \in Seq(V) /\ Len(ListSeen(st, t)) = Len(t)
      /\ \A i \in 1..Len(t) : ListSeen(st, t)[i] = Seen(st, t[i])
  BY ListSeenType
<1>4. f \in Seq(D) /\ Len(f) = b /\ \A i \in 1..b : f[i] = q[i]
  <2>1. \A i \in 1..b : q[i] \in D
    BY <1>1, <1>2
  <2>. QED  BY <1>1, <2>1, SubSeqProperties
<1>5. w \in Seq(V) /\ Len(w) = n /\ \A i \in 1..n : w[i] = ListSeen(st, t)[i]
  <2>1. \A i \in 1..n : ListSeen(st, t)[i] \in V
    BY <1>1, <1>3, ElementOfSeq
  <2>. QED  BY <1>1, <2>1, SubSeqProperties
<1>. HIDE DEF f, w
<1>6. /\ ListSeen(st, f) \in Seq(V) /\ Len(ListSeen(st, f)) = b
      /\ \A i \in 1..b : ListSeen(st, f)[i] = Seen(st, f[i])
  <2>1. f \in Seq(D) /\ Len(f) = b
    BY <1>4
  <2>2. /\ ListSeen(st, f) \in Seq(V) /\ Len(ListSeen(st, f)) = Len(f)
        /\ \A i \in 1..Len(f) : ListSeen(st, f)[i] = Seen(st, f[i])
    BY <2>1, ListSeenType
  <2>. QED  BY <2>1, <2>2
<1>. HIDE DEF V
<1>. DEFINE z == ListSeen(st, f) \o w
<1>7. /\ z \in Seq(V) /\ Len(z) = Len(q)
      /\ \A i \in 1..Len(q) : z[i] = IF i =< b THEN ListSeen(st, f)[i] ELSE w[i - b]
  <2>1. b + Len(w) = Len(q)
    BY <1>1, <1>5
  <2>. QED  BY <1>5, <1>6, <2>1, ConcatProperties
<1>. HIDE DEF z
<1>8. ASSUME NEW i \in 1..Len(q)  PROVE ListSeen(st, q)[i] = z[i]
  <2>1. CASE i =< b
    BY <1>1, <1>2, <1>4, <1>6, <1>7, <2>1
  <2>2. CASE ~(i =< b)
    <3>1. i - b \in 1..n /\ i - b \in 1..Len(t) /\ b + (i - b) = i
      BY <1>1, <2>2
    <3>2. q[i] = t[i - b]
      BY <3>1
    <3>. QED  BY <1>2, <1>3, <1>5, <1>7, <2>2, <3>1, <3>2
  <2>. QED  BY <2>1, <2>2
<1>9. ListSeen(st, q) = z
  BY <1>2, <1>7, <1>8, SeqEqual
<1>. QED  BY <1>9 DEF z, f, w

\* How far a call that took mounts has come.
LEMMA HowFar ==
  ASSUME RInv, call.taken # <<>>
  PROVE  /\ Len(mounts) - call.base \in 0..Len(call.taken)
         /\ call.todo = <<>> /\ ~OneInHand <=> Len(mounts) - call.base = Len(call.taken)
<1>. USE DEF RInv, IInv
<1>1. /\ Len(call.taken) \in Nat /\ Len(call.todo) \in Nat /\ Len(mounts) \in Nat
      /\ call.base \in Nat /\ call.base =< Len(mounts)
      /\ call.todo = <<>> <=> Len(call.todo) = 0
  BY ListsTyped, LenProperties, EmptySeq
<1>2. /\ Len(call.todo) =< Len(call.taken)
      /\ OneInHand => Len(call.taken) - Len(call.todo) > 0
      /\ Len(mounts) - call.base =
           IF OneInHand THEN Len(call.taken) - Len(call.todo) - 1 ELSE Len(call.taken) - Len(call.todo)
  BY DEF InOrder, Taken, Started, OneInHand
<1>. DEFINE a == Len(call.taken)
            b == Len(call.todo)
            m == Len(mounts) - call.base
<1>3. a \in Nat /\ b \in Nat /\ m \in Int /\ (call.todo = <<>> <=> b = 0) /\ b =< a
  BY <1>1, <1>2
<1>4. (OneInHand => a - b > 0 /\ m = a - b - 1) /\ (~OneInHand => m = a - b)
  BY <1>2
<1>. HIDE DEF a, b, m
<1>5. m \in 0..a /\ (OneInHand => m # a) /\ (~OneInHand => (b = 0 <=> m = a))
  BY <1>3, <1>4
<1>. QED  BY <1>3, <1>5 DEF a, m

\* A call that took mounts ends: those it got to are seen in place, in order,
\* and none waits.
LEMMA MountSeen ==
  ASSUME RInv, call.taken # <<>>, call' = Idle, pending' = pending, mounts' = mounts, SameLinks,
         NEW ok \in BOOLEAN, Answer(call.op, ok),
         ok \/ call.op = "mount" => (ok <=> call.todo = <<>> /\ ~OneInHand)
  PROVE  OnePerMountPoint' /\ InOrder' /\ Abstract!Next
<1>. USE DEF RInv, IInv
<1>. DEFINE n == Len(mounts) - call.base
<1>1. /\ n \in 0..Len(call.taken)
      /\ call.todo = <<>> /\ ~OneInHand <=> n = Len(call.taken)
  BY HowFar
<1>2. Taken /\ call.op \in {"mount", "create"} /\ pending = <<>>
  BY DEF InOrder
<1>3. /\ waiting = ListSeen(state, call.taken)
      /\ mounted = ListSeen(state, SubSeq(mounts, 1, call.base))
  BY <1>2 DEF Waiting, Mounted, waiting, mounted
<1>4. Len(waiting) = Len(call.taken)
  BY <1>3, ListsTyped, ListSeenType
<1>5. Waiting' = <<>> /\ Mounted' = mounts
  BY <1>2 DEF Waiting, Mounted, Idle
<1>6. Recs(Waiting)' = <<>> /\ Recs(Mounted)' = ListSeen(state, mounts)
  <2>1. ListSeen(state', <<>>) = <<>>
    BY DEF ListSeen
  <2>. QED  BY <1>5, <2>1, AbstractState, ListsTyped, ListSeenKept
<1>7. ListSeen(state, mounts) = mounted \o SubSeq(waiting, 1, n)
  <2>1. \A i \in 1..Len(mounts) - call.base : mounts[call.base + i] = call.taken[i]
    BY <1>2 DEF Taken
  <2>2. Len(mounts) - call.base =< Len(call.taken) /\ call.base \in 0..Len(mounts)
    BY <1>1, ListsTyped, LenProperties
  <2>. QED  BY <1>3, <2>1, <2>2, ListsTyped, ListSplit
<1>8. /\ ok => n = Len(waiting)
      /\ call.op = "mount" /\ n = Len(waiting) => ok
  BY <1>1, <1>4
<1>9. Abstract!Mount(call.op, n, ok)
  BY <1>6, <1>7, <1>8, AbstractState DEF Abstract!Mount, Abstract!Answer, Answer
<1>10. n \in 0..Len(Recs(Waiting))
  BY <1>1, <1>4, AbstractState
<1>11. Abstract!Next
  BY <1>2, <1>9, <1>10 DEF Abstract!Next
<1>. QED  BY <1>11, IdleInOrder, SamePending

\* mountInternal() gives up: what it has mounted stays.
LEMMA GiveUpSeen ==
  ASSUME RInv, CloneFails \/ PollSeesExit \/ PollInterrupted
                 \/ ((Await \/ AwaitFreed) /\ call' = Idle)
  PROVE  OnePerMountPoint' /\ InOrder' /\ Abstract!Next
<1>. USE DEF RInv, IInv
<1>1. At("next") \/ At("wait") \/ At("poll")
  BY DEF CloneFails, PollSeesExit, PollInterrupted, Await, AwaitFreed
<1>2. call' = Idle /\ pending' = pending /\ mounts' = mounts
  BY DEF CloneFails, PollSeesExit, PollInterrupted, Await, AwaitFreed, GiveUp
<1>3. call.taken # <<>> /\ call.op # "none"
  BY <1>1 DEF InOrder, At
<1>4. Answer(call.op, FALSE) /\ \E st, S : state' = Destroyed(st, S) /\ (st = state \/ PollSeesExit)
  <2>1. CASE Await \/ AwaitFreed
    <3>1. ~Continue /\ call' # [call EXCEPT !.at = "hang"]
      <4>1. [call EXCEPT !.at = "next", !.cur = NoMount].op = call.op
            /\ [call EXCEPT !.at = "hang"].op = call.op
        BY DEF Typed, CallRecords
      <4>2. call'.op # call.op
        BY <1>2, <1>3 DEF Idle
      <4>. QED  BY <4>1, <4>2 DEF Continue
    <3>2. GiveUp(state, ToSet(call.todo))
      BY <2>1, <3>1 DEF Await, AwaitFreed
    <3>. QED  BY <3>2 DEF GiveUp
  <2>2. CASE CloneFails \/ PollSeesExit \/ PollInterrupted
    BY <2>2 DEF CloneFails, PollSeesExit, PollInterrupted, GiveUp
  <2>. QED  BY <2>1, <2>2
<1>5. SameLinks
  <2>1. CASE PollSeesExit
    <3>. DEFINE s == call.cur
                r == [state[s] EXCEPT !.run = "reaped"]
                st == [state EXCEPT ![s] = r]
    <3>1. s \in DOMAIN state /\ state[s] \in States(Len(state))
      BY <2>1, HeldAreMade, StateTypes DEF PollSeesExit, CallShape, At
    <3>2. r \in States(Len(state)) /\ r.mp = state[s].mp /\ r.links = state[s].links
      BY <3>1 DEF States, Runs, ChildRuns
    <3>3. Len(state) \in Nat /\ state \in Seq(States(Len(state)))
      BY LenProperties DEF Typed
    <3>4. state' = Destroyed(st, ToSet(call.todo) \cup {s})
      BY <2>1, Zenon DEF PollSeesExit, GiveUp
    <3>. HIDE DEF r, s
    <3>5. /\ st \in Seq(States(Len(state))) /\ DOMAIN st = DOMAIN state /\ st[s] = r
          /\ \A q \in DOMAIN state : q # s => st[q] = state[q]
      BY <3>1, <3>2, <3>3, OneChanged
    <3>. HIDE DEF st
    <3>. SUFFICES ASSUME NEW q \in DOMAIN state
                  PROVE  q \in DOMAIN state' /\ state'[q].mp = state[q].mp /\ state'[q].links = state[q].links
      BY DEF SameLinks
    <3>6. st[q] \in States(Len(state)) /\ st[q].mp = state[q].mp /\ st[q].links = state[q].links
      BY <3>1, <3>2, <3>5, StateTypes
    <3>7. DOMAIN state' = DOMAIN st /\ (state'[q] = st[q] \/ state'[q] = [st[q] EXCEPT !.alive = FALSE])
      BY <3>3, <3>4, <3>5, DestroyedOnly
    <3>. QED  BY <3>5, <3>6, <3>7 DEF States
  <2>2. CASE ~PollSeesExit
    BY <1>4, <2>2, DestroyedSameLinks
  <2>. QED  BY <2>1, <2>2
<1>6. call.todo # <<>> \/ OneInHand
  <2>1. CASE At("wait") \/ At("poll")
    <3>1. call.cur \in DOMAIN state
      BY <2>1, HeldAreMade DEF CallShape, At
    <3>2. CASE At("poll")
      BY <3>2 DEF OneInHand, Owned, OfCall, At
    <3>3. CASE At("wait")
      <4>1. ~state[call.cur].alive \/ state[call.cur].run = "failed"
        <5>1. ASSUME Await  PROVE Status(call.cur) = "failure"
          <6>1. [call EXCEPT !.at = "next", !.cur = NoMount].op = call.op
            BY DEF Typed, CallRecords
          <6>2. call'.op # call.op
            BY <1>2, <1>3 DEF Idle
          <6>. QED  BY <5>1, <6>1, <6>2 DEF Await, Continue
        <5>. QED  BY <3>3, <5>1 DEF AwaitFreed, CloneFails, PollSeesExit, PollInterrupted, At, Status
      <4>. QED  BY <3>1, <3>3, <4>1 DEF OneInHand, Owned, OfThreads, At
    <3>. QED  BY <2>1, <3>2, <3>3
  <2>2. CASE CloneFails
    BY <2>2 DEF CloneFails
  <2>. QED  BY <2>1, <2>2 DEF CloneFails, PollSeesExit, PollInterrupted, Await, AwaitFreed
<1>. QED  BY <1>2, <1>3, <1>4, <1>5, <1>6, MountSeen

\* mount() ends when everything has started; process creation goes on to fork,
\* and ends there, whether it mounted anything or not.
LEMMA AllStartedSeen ==
  ASSUME RInv, AllStarted \/ Fork
  PROVE  OnePerMountPoint' /\ InOrder' /\ [Abstract!Next]_(Abstract!vars)
<1>. USE DEF RInv, IInv
<1>1. /\ pending' = pending /\ mounts' = mounts /\ state' = state /\ call.todo = <<>>
      /\ ~OneInHand /\ call.op \in {"mount", "create"}
  BY DEF AllStarted, Fork, CallShape, At, OneInHand
<1>2. SameLinks
  BY <1>1 DEF SameLinks
<1>3. CASE AllStarted /\ call.op = "mount"
  <2>1. call' = Idle /\ Answer(call.op, TRUE) /\ call.taken # <<>>
    BY <1>3 DEF AllStarted, InOrder, At
  <2>. QED  BY <1>1, <1>2, <2>1, MountSeen
<1>4. CASE AllStarted /\ call.op # "mount"
  <2>1. /\ At("next") /\ ret' = ret /\ call'.op = call.op /\ call'.todo = call.todo
        /\ call'.taken = call.taken /\ call'.base = call.base /\ call'.at = "fork"
    BY <1>4 DEF AllStarted, Typed, CallRecords
  <2>. QED  BY <1>1, <1>4, <2>1, ContinueUnseen
<1>5. CASE Fork
  <2>1. call' = Idle /\ call.op # "none"
    BY <1>1, <1>5 DEF Fork
  <2>2. PICK ok \in BOOLEAN : Answer("create", ok)
    BY <1>5, Zenon DEF Fork
  <2>3. CASE call.taken = <<>>
    <3>1. Waiting = pending /\ Mounted = mounts /\ Waiting' = pending /\ Mounted' = mounts
      BY <1>1, <2>1, <2>3, AllMounted DEF InOrder, Waiting, Mounted, Idle
    <3>2. Recs(Waiting)' = Recs(Waiting) /\ Recs(Mounted)' = Recs(Mounted)
      BY <1>2, <3>1, AbstractState, ListsTyped, ListSeenKept DEF waiting, mounted
    <3>3. Abstract!CreateWithoutMounting(ok)
      BY <2>2, <3>2 DEF Abstract!CreateWithoutMounting, Abstract!Answer, Answer
    <3>. QED  BY <1>1, <1>2, <2>1, <3>3, IdleInOrder, SamePending DEF Abstract!Next
  <2>4. CASE call.taken # <<>> /\ call.op = "create"
    BY <1>1, <1>2, <2>1, <2>2, <2>4, MountSeen
  <2>5. CASE call.taken # <<>> /\ call.op = "mount"
    BY <1>5, <2>5 DEF Fork, At, InOrder
  <2>. QED  BY <1>1, <2>3, <2>4, <2>5
<1>. QED  BY <1>1, <1>3, <1>4, <1>5

-----------------------------------------------------------------------------
(***************************************************************************)
(* The steps that start a call, and unmount().                             *)
(***************************************************************************)
\* The upper directory of a mount cannot be opened: everything that waited is
\* lost, and none of it mounted.
LEMMA StartLost ==
  ASSUME RInv, call = Idle, NEW op \in {"mount", "create"}, pending # <<>>, pending' = <<>>,
         mounts' = mounts, call' = call, state' = Destroyed(state, ToSet(pending)),
         Answer(op, FALSE)
  PROVE  OnePerMountPoint' /\ InOrder' /\ Abstract!Next
<1>. USE DEF RInv, IInv
<1>1. /\ waiting = ListSeen(state, pending) /\ mounted = ListSeen(state, mounts)
      /\ Waiting' = <<>> /\ Mounted' = mounts
  BY IdleSeen DEF Waiting, Mounted, Idle
<1>2. SameLinks
  BY DestroyedSameLinks
<1>3. Len(waiting) \in Nat \ {0} /\ mounted \in Seq(AllSeen(state, DOMAIN state))
  BY <1>1, ListsTyped, ListSeenType, EmptySeq
<1>4. Recs(Waiting)' = <<>> /\ Recs(Mounted)' = mounted
  <2>1. ListSeen(state', <<>>) = <<>>
    BY DEF ListSeen
  <2>. QED  BY <1>1, <1>2, <2>1, AbstractState, ListsTyped, ListSeenKept
<1>5. mounted = mounted \o SubSeq(waiting, 1, 0)
  BY <1>3, SubSeqEmpty, ConcatEmptySeq
<1>6. Abstract!Mount(op, 0, FALSE)
  BY <1>3, <1>4, <1>5, AbstractState DEF Abstract!Mount, Abstract!Answer, Answer
<1>7. 0 \in 0..Len(Recs(Waiting))
  BY <1>3, AbstractState
<1>8. Abstract!Next
  BY <1>6, <1>7 DEF Abstract!Next
<1>. QED  BY <1>2, <1>8, IdleInOrder, SamePending

\* toMount takes what waits, which does not show.
LEMMA StartMountingSeen ==
  ASSUME RInv, call = Idle, NEW op \in {"mount", "create"}, NEW e, StartMounting(op, e)
  PROVE  OnePerMountPoint' /\ InOrder' /\ [Abstract!Next]_(Abstract!vars)
<1>. USE DEF RInv, IInv
<1>1. pending # <<>> /\ pending' = <<>> /\ mounts' = mounts
  BY DEF StartMounting
<1>2. /\ pending \in Seq(DOMAIN state) /\ mounts \in Seq(DOMAIN state) /\ Len(mounts) \in Nat
      /\ Len(pending) \in Nat \ {0}
  BY <1>1, ListsTyped, EmptySeq
<1>3. /\ Waiting = pending /\ Mounted = mounts /\ waiting = ListSeen(state, pending)
      /\ mounted = ListSeen(state, mounts)
  BY IdleSeen
<1>. DEFINE c == [Idle EXCEPT !.op = op, !.at = "next", !.todo = pending,
                              !.taken = pending, !.base = Len(mounts), !.exec = e]
<1>4. CASE call' = c /\ UNCHANGED <<state, ret>>
  <2>1. /\ call'.op = op /\ call'.at = "next" /\ call'.todo = pending /\ call'.taken = pending
        /\ call'.base = Len(mounts)
    BY <1>4 DEF Idle
  <2>. HIDE DEF c
  <2>2. SameLinks
    BY <1>4 DEF SameLinks
  <2>3. SubSeq(mounts, 1, Len(mounts)) = mounts
    BY <1>2, SubSeqFull
  <2>4. Waiting' = pending /\ Mounted' = mounts
    BY <1>1, <2>1, <2>3 DEF Waiting, Mounted
  <2>5. Started' = 0 /\ ~OneInHand' /\ Len(mounts') - call'.base = 0
    BY <1>1, <1>2, <2>1 DEF Started, OneInHand
  <2>6. Taken'
    <3>1. \A i \in 1..Len(call'.todo) : call'.todo[i] = call'.taken[Started' + i]
      BY <1>2, <2>1, <2>5
    <3>2. \A i \in 1..Len(mounts') - call'.base : FALSE
      BY <2>5
    <3>. QED  BY <1>2, <2>1, <2>5, <3>1, <3>2 DEF Taken
  <2>7. InOrder'
    BY <1>1, <2>1, <2>6 DEF InOrder
  <2>. QED  BY <1>1, <1>3, <1>4, <2>2, <2>4, <2>7, Unseen, SamePending
<1>. QED  BY <1>1, <1>4, StartLost DEF StartMounting

\* Calls that start: with nothing to do they end at once, as what they promise.
LEMMA CallsSeen ==
  ASSUME RInv, Calls
  PROVE  OnePerMountPoint' /\ InOrder' /\ [Abstract!Next]_(Abstract!vars)
<1>. USE DEF RInv, IInv
<1>1. call = Idle
  BY DEF Calls, Mount, Unmount, CreateRefused, CreateProcess
<1>2. /\ Waiting = pending /\ Mounted = mounts /\ waiting = ListSeen(state, pending)
      /\ mounted = ListSeen(state, mounts)
  BY <1>1, IdleSeen
<1>3. ASSUME UNCHANGED <<pending, mounts, state, call>>
      PROVE  /\ OnePerMountPoint' /\ InOrder' /\ Recs(Waiting)' = Recs(Waiting)
             /\ Recs(Mounted)' = Recs(Mounted)
  <2>1. SameLinks /\ Waiting' = Waiting /\ Mounted' = Mounted
    BY <1>3 DEF SameLinks, Waiting, Mounted
  <2>. QED  BY <1>1, <1>3, <2>1, IdleInOrder, SamePending, AbstractState, ListsTyped, ListSeenKept
            DEF waiting, mounted
<1>4. ASSUME UNCHANGED <<pending, mounts, state, ret>>, call'.op \in {"create", "unmount"},
             call'.at = "fork" <=> call'.op = "create", call'.taken = <<>>,
             call'.base = Len(mounts)
      PROVE  OnePerMountPoint' /\ InOrder' /\ UNCHANGED Abstract!vars
  <2>1. SubSeq(mounts, 1, Len(mounts)) = mounts
    BY ListsTyped, SubSeqFull
  <2>2. Waiting' = pending /\ Mounted' = mounts /\ SameLinks
    BY <1>4, <2>1 DEF Waiting, Mounted, SameLinks
  <2>3. InOrder'
    BY <1>4 DEF InOrder
  <2>. QED  BY <1>2, <1>4, <2>2, <2>3, Unseen, SamePending
<1>5. CASE Mount
  <2>1. CASE StartMounting("mount", "none")
    BY <1>1, <2>1, StartMountingSeen
  <2>2. CASE pending = <<>> /\ Answer("mount", TRUE) /\ UNCHANGED <<pending, mounts, state, call>>
    <3>1. Recs(Waiting)' = <<>> /\ Len(Recs(Waiting)) = 0 /\ Recs(Mounted)' = mounted
      <4>1. ListSeen(state, <<>>) = <<>>
        BY DEF ListSeen
      <4>. QED  BY <1>2, <1>3, <2>2, <4>1, AbstractState
    <3>2. mounted = mounted \o SubSeq(Recs(Waiting), 1, 0)
      <4>1. mounted \in Seq(AllSeen(state, DOMAIN state))
        BY <1>2, ListsTyped, ListSeenType
      <4>. QED  BY <4>1, SubSeqEmpty, ConcatEmptySeq
    <3>3. Abstract!Mount("mount", 0, TRUE)
      BY <2>2, <3>1, <3>2, AbstractState DEF Abstract!Mount, Abstract!Answer, Answer
    <3>4. 0 \in 0..Len(Recs(Waiting))
      BY <3>1
    <3>. QED  BY <1>3, <2>2, <3>3, <3>4 DEF Abstract!Next
  <2>. QED  BY <1>5, <2>1, <2>2 DEF Mount
<1>6. CASE CreateRefused
  <2>1. UNCHANGED <<pending, mounts, state, call>> /\ Answer("create", FALSE)
    BY <1>6 DEF CreateRefused
  <2>2. Abstract!CreateWithoutMounting(FALSE)
    BY <1>3, <2>1 DEF Abstract!CreateWithoutMounting, Abstract!Answer, Answer
  <2>. QED  BY <1>3, <2>1, <2>2 DEF Abstract!Next
<1>7. ASSUME NEW e \in Execs, CreateProcess(e)
      PROVE  OnePerMountPoint' /\ InOrder' /\ [Abstract!Next]_(Abstract!vars)
  <2>1. CASE StartMounting("create", e)
    BY <1>1, <2>1, StartMountingSeen
  <2>2. CASE ~StartMounting("create", e)
    <3>1. /\ UNCHANGED <<pending, mounts, state, ret>>
          /\ call' = [Idle EXCEPT !.op = "create", !.at = "fork", !.base = Len(mounts), !.exec = e]
      BY <1>7, <2>2 DEF CreateProcess
    <3>2. /\ call'.op = "create" /\ call'.at = "fork" /\ call'.taken = <<>>
          /\ call'.base = Len(mounts)
      BY <3>1 DEF Idle
    <3>. QED  BY <1>4, <3>1, <3>2
  <2>. QED  BY <2>1, <2>2
<1>8. CASE Unmount
  <2>1. CASE mounts = <<>>
    <3>1. UNCHANGED <<pending, mounts, state, call>> /\ Answer("unmount", TRUE)
      BY <1>8, <2>1 DEF Unmount
    <3>2. Recs(Mounted)' = <<>>
      <4>1. ListSeen(state, <<>>) = <<>>
        BY DEF ListSeen
      <4>. QED  BY <1>2, <1>3, <2>1, <3>1, <4>1, AbstractState
    <3>3. Abstract!Unmount(TRUE)
      BY <1>3, <3>1, <3>2 DEF Abstract!Unmount, Abstract!Answer, Answer
    <3>. QED  BY <1>3, <3>1, <3>3 DEF Abstract!Next
  <2>2. CASE mounts # <<>>
    <3>1. /\ UNCHANGED <<pending, mounts, state, ret>>
          /\ call' = [Idle EXCEPT !.op = "unmount", !.at = "next", !.todo = mounts, !.base = Len(mounts)]
      BY <1>8, <2>2 DEF Unmount
    <3>2. /\ call'.op = "unmount" /\ call'.at = "next" /\ call'.taken = <<>>
          /\ call'.base = Len(mounts)
      BY <3>1 DEF Idle
    <3>. QED  BY <1>4, <3>1, <3>2
  <2>. QED  BY <2>1, <2>2
<1>. QED  BY <1>5, <1>6, <1>7, <1>8 DEF Calls

\* A signal leaves what is linked where.
LEMMA SignalledSameLinks ==
  ASSUME Typed, NEW s \in DOMAIN state, state' = Signalled(s)
  PROVE  SameLinks
<1>. SUFFICES ASSUME NEW q \in DOMAIN state
              PROVE  /\ q \in DOMAIN state' /\ state'[q].mp = state[q].mp
                     /\ state'[q].links = state[q].links
  BY DEF SameLinks
<1>1. DOMAIN state' = DOMAIN state /\ \E x \in Runs : state'[q] = [state[q] EXCEPT !.run = x]
  BY SignalledRuns
<1>2. state[q] \in States(Len(state))
  BY StateTypes
<1>. QED  BY <1>1, <1>2 DEF States

\* unmount() shows when it ends: all mounts are gone, or none.
LEMMA UnmountSeen ==
  ASSUME RInv, UnmountThread \/ SignalChild \/ WaitForChild \/ WaitInterrupted \/ AllUnmounted
  PROVE  OnePerMountPoint' /\ InOrder' /\ [Abstract!Next]_(Abstract!vars)
<1>. USE DEF RInv, IInv
<1>1. call.op = "unmount" /\ pending' = pending
  BY DEF UnmountThread, SignalChild, WaitForChild, WaitInterrupted, AllUnmounted, Unmounting,
         UnmountRefused
<1>2. call.taken = <<>> /\ call.base = Len(mounts)
  BY <1>1 DEF InOrder
<1>3. /\ Waiting = pending /\ Mounted = mounts /\ waiting = ListSeen(state, pending)
      /\ mounted = ListSeen(state, mounts)
  BY <1>2, AllMounted DEF Waiting, waiting
<1>4. CASE UnmountRefused
  <2>1. call' = Idle /\ mounts' = mounts /\ state' = state /\ Answer("unmount", FALSE)
    BY <1>4 DEF UnmountRefused
  <2>2. SameLinks /\ Waiting' = pending /\ Mounted' = mounts
    BY <1>1, <2>1 DEF SameLinks, Waiting, Mounted, Idle
  <2>3. Recs(Waiting)' = Recs(Waiting) /\ Recs(Mounted)' = Recs(Mounted)
    BY <1>3, <2>2, AbstractState, ListsTyped, ListSeenKept
  <2>4. Abstract!Unmount(FALSE)
    BY <2>1, <2>3 DEF Abstract!Unmount, Abstract!Answer, Answer
  <2>. QED  BY <1>1, <2>1, <2>2, <2>4, IdleInOrder, SamePending DEF Abstract!Next
<1>5. CASE AllUnmounted
  <2>1. /\ call' = Idle /\ mounts' = <<>> /\ Answer("unmount", TRUE)
        /\ state' = Destroyed(state, ToSet(mounts))
    BY <1>5 DEF AllUnmounted
  <2>2. SameLinks /\ Waiting' = pending /\ Mounted' = <<>>
    BY <1>1, <2>1, DestroyedSameLinks DEF Waiting, Mounted, Idle
  <2>3. Recs(Waiting)' = Recs(Waiting) /\ Recs(Mounted)' = <<>>
    <3>1. ListSeen(state', <<>>) = <<>>
      BY DEF ListSeen
    <3>. QED  BY <1>3, <2>2, <3>1, AbstractState, ListsTyped, ListSeenKept
  <2>4. Abstract!Unmount(TRUE)
    BY <2>1, <2>3 DEF Abstract!Unmount, Abstract!Answer, Answer
  <2>. QED  BY <1>1, <2>1, <2>2, <2>4, IdleInOrder, SamePending DEF Abstract!Next
<1>6. CASE (UnmountThread \/ SignalChild \/ WaitForChild) /\ ~UnmountRefused
  <2>1. /\ mounts' = mounts /\ ret' = ret /\ call'.op = call.op /\ call'.taken = call.taken
        /\ call'.base = call.base /\ call'.at \in {"next", "waitid"} /\ call.todo # <<>>
    BY <1>6 DEF UnmountThread, SignalChild, WaitForChild, Unmounting, Typed, CallRecords, CallShape
  <2>2. SameLinks
    <3>. DEFINE s == Head(call.todo)
    <3>1. s \in DOMAIN state /\ state[s] \in States(Len(state))
      BY <2>1, ListsTyped, HeadAndTail, StateTypes
    <3>2. CASE SignalChild /\ state' = Signalled(s)
      BY <3>1, <3>2, SignalledSameLinks
    <3>3. CASE ~(SignalChild /\ state' = Signalled(s))
      <4>1. /\ DOMAIN state' = DOMAIN state /\ \A q \in DOMAIN state : q # s => state'[q] = state[q]
            /\ state'[s].mp = state[s].mp /\ state'[s].links = state[s].links
        BY <1>6, <3>1, <3>3, StateTypes DEF UnmountThread, SignalChild, WaitForChild, States
      <4>. QED  BY <4>1 DEF SameLinks
    <3>. QED  BY <3>2, <3>3
  <2>3. Waiting' = Waiting /\ Mounted' = Mounted
    BY <1>1, <2>1 DEF Waiting, Mounted
  <2>4. InOrder'
    BY <1>1, <1>2, <2>1 DEF InOrder
  <2>. QED  BY <1>1, <2>1, <2>2, <2>3, <2>4, Unseen, SamePending
<1>. QED  BY <1>4, <1>5, <1>6 DEF WaitInterrupted, AllUnmounted

-----------------------------------------------------------------------------
\* Nothing waits and nothing is mounted at first.
LEMMA InitSeen == Init => RInv /\ Abstract!Init
<1>. SUFFICES ASSUME Init  PROVE RInv /\ Abstract!Init
  OBVIOUS
<1>1. /\ pending = <<>> /\ mounts = <<>> /\ call = Idle /\ ret = [op |-> "none", ok |-> TRUE]
      /\ call.op = "none" /\ call.taken = <<>> /\ call.at = "none"
  BY DEF Init, Idle
<1>2. OnePerMountPoint /\ InOrder
  BY <1>1, EmptyList DEF OnePerMountPoint, InOrder
<1>3. ListSeen(state, <<>>) = <<>>
  BY DEF ListSeen
<1>4. Recs(Waiting) = <<>> /\ Recs(Mounted) = <<>>
  BY <1>1, <1>3, IdleSeen, AbstractState
<1>. QED  BY <1>1, <1>2, <1>4, InitIInv DEF RInv, Abstract!Init

\* Every step preserves the invariant, and is a step of Mounting or shows
\* nothing.
LEMMA StepSeen ==
  ASSUME "success" \notin Freed, RInv, [Next]_vars
  PROVE  RInv' /\ [Abstract!Next]_(Abstract!vars)
<1>1. IInv'
  BY StepIInv DEF RInv
<1>2. CASE Settings \/ \E p \in procs : ProcessExits(p)
  BY <1>1, <1>2, SettingsSeen DEF RInv
<1>3. CASE Calls
  BY <1>1, <1>3, CallsSeen DEF RInv
<1>4. CASE Proceed
  <2>1. CASE (Await \/ AwaitFreed) /\ call' # Idle
    BY <1>1, <2>1, AwaitUnseen DEF RInv
  <2>2. CASE (Await \/ AwaitFreed) /\ call' = Idle
    BY <1>1, <2>2, GiveUpSeen DEF RInv
  <2>3. CASE StartThread \/ StartChild
    BY <1>1, <2>3, StartUnseen DEF RInv
  <2>4. CASE PollTimesOut \/ PollSeesExit
    BY <1>1, <2>4, PollUnseen, GiveUpSeen DEF RInv
  <2>5. CASE AllStarted \/ Fork
    BY <1>1, <2>5, AllStartedSeen DEF RInv
  <2>6. CASE UnmountThread \/ SignalChild \/ WaitForChild \/ AllUnmounted
    BY <1>1, <2>6, UnmountSeen DEF RInv
  <2>. QED  BY <1>4, <2>1, <2>2, <2>3, <2>4, <2>5, <2>6 DEF Proceed
<1>5. CASE Interrupted
  BY <1>1, <1>5, GiveUpSeen, UnmountSeen DEF RInv, Interrupted
<1>6. ASSUME NEW s \in DOMAIN state, Thread(s) \/ Child(s) \/ ChildNotices(s) \/ ChildDies(s)
      PROVE  RInv' /\ [Abstract!Next]_(Abstract!vars)
  BY <1>1, <1>6, ThreadUnseen DEF RInv
<1>7. CASE UNCHANGED vars
  <2>1. SameLinks /\ UNCHANGED <<pending, mounts, call, ret>>
    BY <1>7 DEF SameLinks, vars
  <2>. QED  BY <1>1, <2>1, RunsUnseen DEF RInv
<1>. QED  BY <1>2, <1>3, <1>4, <1>5, <1>6, <1>7 DEF Next

\* Whatever the threads and children do, callers see what Mounting promises:
\* mount() and process creation mount what waits as if in one step, a part of it
\* only when they answer FALSE, and unmount() removes all or nothing.
THEOREM ManagerImplementsMounting ==
  ASSUME "success" \notin Freed
  PROVE  Spec => ImplementsMounting
<1>1. Init => RInv /\ Abstract!Init
  BY InitSeen
<1>2. RInv /\ [Next]_vars => RInv' /\ [Abstract!Next]_(Abstract!vars)
  BY StepSeen
<1>. QED  BY <1>1, <1>2, PTL DEF Spec, ImplementsMounting
=============================================================================
