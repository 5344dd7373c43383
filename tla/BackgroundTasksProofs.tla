----------------------- MODULE BackgroundTasksProofs -----------------------
(***************************************************************************)
(* Proofs about BackgroundTasks for any number of steps, any max_parallel  *)
(* and either value of halt_on_error.                                      *)
(*                                                                         *)
(* IInv is the inductive invariant: what the parent knows about a child at *)
(* each place of Wait and of _KillChildren.  The properties follow from it *)
(* by looking at the places where ParallelTasks leaves.                    *)
(***************************************************************************)
EXTENDS BackgroundTasks, FiniteSetTheorems, TLAPS

KillSteps == {"kill_mark", "kill_send", "kill_wait", "kill_done"}
WaitSteps == {"startup", "alive", "get", "silent", "join", "finish"}

(* The tasks not launched yet have no process.                              *)
LaunchInv == pc = "launch" => \A t \in Tasks : t >= cur => child[t] = "unborn"

Holders == {t \in Tasks : permit[t]}

(* Every permit that is not in the semaphore is with the child that took    *)
(* it, alive or dead.                                                       *)
PermitsInv ==
  /\ sem + Cardinality(Holders) = MaxParallel
  /\ \A t \in Tasks : child[t] \in {"unborn", "acquire"} => ~permit[t]
  /\ MaxParallel # 0 =>
       \A t \in Tasks : child[t] \in {"setup", "running", "check", "put",
                                      "release"} => permit[t]

(* A child that has reported knows how its step ended, and that is what its *)
(* report says.                                                             *)
ReportInv ==
  \A t \in Tasks :
    /\ child[t] \in {"check", "put"} \/ Reported(t) => outcome[t] \in {"ok", "err"}
    /\ queue[t] # "empty" => Reported(t) /\ queue[t] = outcome[t]

(* The report of a task that Wait has not dealt with is still on the queue. *)
PendingInv ==
  \A t \in Tasks :
    \/ pc \in {"launch", "body"}
    \/ pc = "startup" /\ t >= cur
    \/ pc \in {"alive", "get", "silent", "join", "finish"} /\ t > cur
    \/ pc \in {"alive", "get", "silent"} /\ t = cur
    \/ pc \in KillSteps /\ kill.lo = cur /\ t > cur
    => (Reported(t) => queue[t] # "empty")

(* Wait is right about its task: |clean| only with the report received and  *)
(* its error recorded, |running| false only if the process is gone.         *)
CurrentInv ==
  /\ pc \in {"alive", "get", "silent"} => ~clean
  /\ pc = "get" /\ ~running => Dead(cur)
  /\ pc = "join" => IF clean
                    THEN /\ Reported(cur)
                         /\ outcome[cur] = "err" => errors[cur] # {}
                    ELSE child[cur] = "died"

(* A task that Wait has dealt with is gone, and if there is no error on     *)
(* record for it then it ended well.                                        *)
Settled(t) ==
  /\ Dead(t)
  /\ errors[t] = {} => child[t] = "exited" /\ outcome[t] = "ok"

SettledInv ==
  /\ pc \in WaitSteps \cup KillSteps =>
       \A t \in Tasks : t < cur => Settled(t)
  /\ pc = "finish" => Settled(cur)
  /\ pc = "returned" => \A t \in Tasks : Settled(t) /\ errors[t] = {}
  /\ pc = "failed" => \A t \in Tasks : Dead(t)

(* _KillChildren is called for the current task or for all those after it,  *)
(* and the tasks it has dropped from its list are gone.                     *)
KillInv ==
  pc \in KillSteps =>
    /\ kill.lo \in {cur, cur + 1}
    /\ errors[cur] # {}
    /\ kill.lo = cur + 1 => Settled(cur)
    /\ kill.hi <= IF kill.lo = cur THEN cur ELSE NumTasks
    /\ \A t \in Tasks :
         /\ kill.hi < t
         /\ t <= IF kill.lo = cur THEN cur ELSE NumTasks
         => Dead(t)
    /\ pc # "kill_done" => kill.lo <= kill.hi /\ kill.sig # "none"
    /\ pc \in {"kill_mark", "kill_send"} => kill.idx \in kill.lo .. kill.hi
    /\ pc = "kill_done" =>
         \A t \in Tasks : kill.lo <= t /\ t <= kill.hi => Dead(t)

(* With halt_on_error the tasks before the current one had no errors.       *)
HaltInv ==
  /\ \A t \in Tasks : errors[t] # {} =>
       /\ t <= cur
       /\ pc \in {"launch", "body", "startup"} => t < cur
       /\ pc \notin {"launch", "body"}
  /\ HaltOnError /\ pc # "launch" => \A t \in Tasks : t < cur => errors[t] = {}

(* A "task" error is what the task reported, an "unexpected" one is about a *)
(* child that died without a report.                                        *)
BlameInv ==
  \A t \in Tasks :
    /\ "task" \in errors[t] => Reported(t) /\ outcome[t] = "err"
    /\ "unexpected" \in errors[t] => child[t] = "died"

IInv ==
  /\ TypeOK
  /\ LaunchInv
  /\ PermitsInv
  /\ ReportInv
  /\ PendingInv
  /\ CurrentInv
  /\ SettledInv
  /\ KillInv
  /\ HaltInv
  /\ BlameInv

-----------------------------------------------------------------------------
(* What every step of a child leaves alone: the parent, and whatever the    *)
(* parent may already have learnt about a child.                            *)
ChildFrame ==
  /\ UNCHANGED parentVars
  /\ \A u \in Tasks : Dead(u) => child'[u] = child[u]
  /\ \A u \in Tasks : Reported(u) => Reported(u)' /\ outcome'[u] = outcome[u]
  /\ \A u \in Tasks : child[u] = "unborn" => child'[u] = "unborn"
  /\ \A u \in Tasks : child'[u] \in {"unborn", "acquire"} => child'[u] = child[u]

(* Every step of a child keeps to that frame. *)
LEMMA ChildFrames ==
  ASSUME TypeOK, NEW t \in Tasks, ChildStep(t)
  PROVE  ChildFrame
<1> USE DEF TypeOK, Dead, Reported, ChildFrame
<1>1. CASE ChildAcquire(t)
  BY <1>1 DEF ChildAcquire
<1>2. CASE ChildStarted(t)
  BY <1>2 DEF ChildStarted
<1>3. ASSUME NEW res \in {"ok", "err"}, ChildTaskEnds(t, res)
      PROVE  ChildFrame
  BY <1>3 DEF ChildTaskEnds
<1>4. CASE ChildChecksKilling(t)
  BY <1>4 DEF ChildChecksKilling
<1>5. CASE ChildPuts(t)
  BY <1>5 DEF ChildPuts
<1>6. CASE ChildReleases(t)
  BY <1>6 DEF ChildReleases
<1>7. CASE ChildExits(t)
  BY <1>7 DEF ChildExits
<1>8. CASE ChildKilled(t)
  BY <1>8 DEF ChildKilled, Perish
<1>9. CASE ChildCrashes(t)
  BY <1>9 DEF ChildCrashes, Perish
<1>10. QED
  BY <1>1, <1>2, <1>3, <1>4, <1>5, <1>6, <1>7, <1>8, <1>9 DEF ChildStep

(* The parts of the invariant that follow from the frame. *)
LEMMA ChildKeepsParentInv ==
  ASSUME IInv, ChildFrame
  PROVE  LaunchInv' /\ CurrentInv' /\ SettledInv' /\ KillInv' /\ HaltInv'
           /\ BlameInv'
<1> USE DEF IInv, TypeOK, ChildFrame, parentVars, Dead, Reported
<1>1. LaunchInv'
  BY DEF LaunchInv
<1>2. CurrentInv'
  BY DEF CurrentInv
<1>3. \A t \in Tasks : Settled(t) => Settled(t)'
  BY DEF Settled
<1>4. SettledInv'
  BY <1>3 DEF SettledInv
<1>5. KillInv'
  BY <1>3 DEF KillInv
<1>6. HaltInv'
  BY DEF HaltInv
<1>7. BlameInv'
  BY DEF BlameInv
<1> QED
  BY <1>1, <1>2, <1>4, <1>5, <1>6, <1>7

-----------------------------------------------------------------------------
(* Counting the permits.                                                    *)

(* Any set of tasks can be counted. *)
LEMMA TasksCount ==
  ASSUME NEW S \in SUBSET Tasks
  PROVE  IsFiniteSet(S) /\ Cardinality(S) \in Nat
<1>1. IsFiniteSet(Tasks)
  BY BackgroundTasksAssumption, FS_Interval DEF Tasks
<1> QED
  BY <1>1, FS_Subset, FS_CardinalityType

(* acquire() makes the child one more holder ... *)
LEMMA PermitTaken ==
  ASSUME TypeOK, NEW t \in Tasks, ~permit[t],
         permit' = [permit EXCEPT ![t] = TRUE]
  PROVE  Cardinality(Holders') = Cardinality(Holders) + 1
<1>1. Holders' = Holders \cup {t}
  BY DEF TypeOK, Holders
<1>2. t \notin Holders
  BY DEF Holders
<1> QED
  BY <1>1, <1>2, TasksCount, FS_AddElement DEF Holders

(* ... release() makes it one less ... *)
LEMMA PermitReturned ==
  ASSUME TypeOK, NEW t \in Tasks, permit[t],
         permit' = [permit EXCEPT ![t] = FALSE]
  PROVE  Cardinality(Holders') = Cardinality(Holders) - 1
<1>1. Holders' = Holders \ {t}
  BY DEF TypeOK, Holders
<1>2. t \in Holders
  BY DEF Holders
<1> QED
  BY <1>1, <1>2, TasksCount, FS_RemoveElement DEF Holders

(* ... and nothing else changes their number. *)
LEMMA PermitsKept ==
  ASSUME TypeOK, UNCHANGED permit
  PROVE  Cardinality(Holders') = Cardinality(Holders)
BY DEF Holders

-----------------------------------------------------------------------------
(* The steps of a child keep the rest of the invariant.                     *)

(* Taking the semaphore moves one permit from it to the child. *)
LEMMA ChildAcquireInv ==
  ASSUME IInv, NEW t \in Tasks, ChildAcquire(t)
  PROVE  TypeOK' /\ PermitsInv' /\ ReportInv' /\ PendingInv'
<1> USE DEF IInv, ChildAcquire, parentVars
<1>1. PermitsInv' /\ sem' \in 0 .. MaxParallel
  <2>1. CASE MaxParallel = 0
    BY <2>1, PermitsKept DEF TypeOK, PermitsInv
  <2>2. CASE MaxParallel # 0
    <3>1. Cardinality(Holders') = Cardinality(Holders) + 1
      BY <2>2, PermitTaken DEF PermitsInv
    <3>2. sem' = sem - 1 /\ sem > 0
      BY <2>2 DEF Available
    <3>3. sem' + Cardinality(Holders') = MaxParallel /\ sem' \in 0 .. MaxParallel
      <4> HIDE DEF IInv, ChildAcquire
      <4>1. sem \in 0 .. MaxParallel /\ sem + Cardinality(Holders) = MaxParallel
        BY DEF IInv, TypeOK, PermitsInv
      <4>2. Cardinality(Holders) \in Nat
        BY TasksCount DEF Holders
      <4> QED
        BY <3>1, <3>2, <4>1, <4>2, BackgroundTasksAssumption
    <3> QED
      BY <2>2, <3>3 DEF TypeOK, PermitsInv
  <2> QED
    BY <2>1, <2>2
<1>2. TypeOK'
  BY <1>1 DEF TypeOK, ChildStates
<1>3. ReportInv' /\ PendingInv'
  BY DEF TypeOK, ReportInv, PendingInv, Reported
<1> QED
  BY <1>1, <1>2, <1>3

(* Releasing it moves the permit back, if the child held one. *)
LEMMA ChildReleasesInv ==
  ASSUME IInv, NEW t \in Tasks, ChildReleases(t)
  PROVE  TypeOK' /\ PermitsInv' /\ ReportInv' /\ PendingInv'
<1> USE DEF IInv, ChildReleases, parentVars
<1>1. PermitsInv' /\ sem' \in 0 .. MaxParallel
  <2>1. CASE permit[t]
    <3>1. Cardinality(Holders') = Cardinality(Holders) - 1
      BY <2>1, PermitReturned
    <3>2. sem' + Cardinality(Holders') = MaxParallel /\ sem' \in 0 .. MaxParallel
      <4>1. sem' = sem + 1
        BY <2>1
      <4> HIDE DEF IInv, ChildReleases
      <4>2. sem \in 0 .. MaxParallel /\ sem + Cardinality(Holders) = MaxParallel
        BY DEF IInv, TypeOK, PermitsInv
      <4>3. Cardinality(Holders) \in Nat /\ Cardinality(Holders') \in Nat
        BY TasksCount DEF Holders
      <4> QED
        BY <3>1, <4>1, <4>2, <4>3, BackgroundTasksAssumption
    <3> QED
      BY <2>1, <3>2 DEF TypeOK, PermitsInv
  <2>2. CASE ~permit[t]
    <3>1. permit' = permit
      BY <2>2 DEF TypeOK
    <3> QED
      BY <2>2, <3>1, PermitsKept DEF TypeOK, PermitsInv
  <2> QED
    BY <2>1, <2>2
<1>2. TypeOK'
  BY <1>1 DEF TypeOK, ChildStates
<1>3. ReportInv' /\ PendingInv'
  BY DEF TypeOK, ReportInv, PendingInv, Reported
<1> QED
  BY <1>1, <1>2, <1>3

(* The other steps leave the semaphore alone, dying with a permit included. *)
LEMMA ChildMovesInv ==
  ASSUME IInv, NEW t \in Tasks,
         \/ ChildStarted(t)
         \/ ChildTaskEnds(t, "ok")
         \/ ChildTaskEnds(t, "err")
         \/ ChildChecksKilling(t)
         \/ ChildPuts(t)
         \/ ChildExits(t)
         \/ ChildKilled(t)
         \/ ChildCrashes(t)
  PROVE  TypeOK' /\ PermitsInv' /\ ReportInv' /\ PendingInv'
<1> USE DEF IInv, TypeOK, ChildStarted, ChildTaskEnds, ChildChecksKilling,
            ChildPuts, ChildExits, ChildKilled, ChildCrashes, Perish,
            parentVars, Dead, Reported
<1>1. TypeOK'
  <2>1. child' \in [Tasks -> ChildStates]
    BY DEF ChildStates
  <2>2. outcome' \in [Tasks -> {"none", "ok", "err"}]
    OBVIOUS
  <2>3. queue' \in [Tasks -> {"empty", "ok", "err"}]
    BY DEF ReportInv
  <2>4. started' \in [Tasks -> BOOLEAN]
    OBVIOUS
  <2>5. UNCHANGED <<killing, sem, permit, signal, parentVars>>
    OBVIOUS
  <2> QED
    BY <2>1, <2>2, <2>3, <2>4, <2>5
<1>2. PermitsInv'
  <2>1. UNCHANGED <<sem, permit>>
    OBVIOUS
  <2>2. child'[t] \notin {"unborn", "acquire"}
    OBVIOUS
  <2>3. child'[t] \in {"setup", "running", "check", "put", "release"} =>
          child[t] \in {"setup", "running", "check", "put", "release"}
    OBVIOUS
  <2>4. \A u \in Tasks \ {t} : child'[u] = child[u]
    OBVIOUS
  <2> QED
    BY <2>1, <2>2, <2>3, <2>4, PermitsKept DEF PermitsInv
<1>3. ReportInv'
  BY DEF ReportInv
<1>4. PendingInv'
  BY DEF PendingInv, ReportInv
<1> QED
  BY <1>1, <1>2, <1>3, <1>4

(* No step of a child breaks the invariant. *)
LEMMA ChildInv ==
  ASSUME IInv, NEW t \in Tasks, ChildStep(t)
  PROVE  IInv'
<1>1. LaunchInv' /\ CurrentInv' /\ SettledInv' /\ KillInv' /\ HaltInv'
        /\ BlameInv'
  BY ChildFrames, ChildKeepsParentInv DEF IInv
<1>2. TypeOK' /\ PermitsInv' /\ ReportInv' /\ PendingInv'
  BY ChildAcquireInv, ChildReleasesInv, ChildMovesInv DEF ChildStep
<1> QED
  BY <1>1, <1>2 DEF IInv

-----------------------------------------------------------------------------
(* The steps of the parent.                                                 *)

(* Every step but LaunchTask leaves the processes as they are. *)
LEMMA ProcessesKept ==
  ASSUME IInv, UNCHANGED <<child, outcome, sem, permit>>
  PROVE  /\ PermitsInv'
         /\ \A t \in Tasks : /\ Dead(t)' <=> Dead(t)
                            /\ Reported(t)' <=> Reported(t)
BY PermitsKept DEF IInv, PermitsInv, Dead, Reported, Holders

(* Launching the tasks, failing to, and the end of the with body. *)
LEMMA LaunchInvs ==
  ASSUME IInv,
         LaunchTask \/ LaunchFails \/ \E res \in {"ok", "raised"} : BodyEnds(res)
  PROVE  IInv'
<1> USE BackgroundTasksAssumption DEF IInv, TypeOK, Tasks, parentVars
<1>1. CASE LaunchTask
  <2> USE <1>1 DEF LaunchTask
  <2>1. TypeOK' /\ LaunchInv'
    <3>1. child' \in [Tasks -> ChildStates]
      BY DEF ChildStates
    <3>2. pc' \in ParentSteps /\ cur' \in Tasks
      BY DEF ParentSteps, Terminal
    <3>3. LaunchInv'
      BY DEF LaunchInv
    <3> QED
      BY <3>1, <3>2, <3>3
  <2>2. PermitsInv'
    BY PermitsKept DEF PermitsInv, LaunchInv
  <2>3. ReportInv' /\ PendingInv'
    BY DEF ReportInv, PendingInv, LaunchInv, Reported
  <2>4. CurrentInv' /\ SettledInv' /\ KillInv' /\ HaltInv' /\ BlameInv'
    BY DEF CurrentInv, SettledInv, KillInv, HaltInv, BlameInv, WaitSteps,
           KillSteps
  <2> QED
    BY <2>1, <2>2, <2>3, <2>4
<1>2. CASE LaunchFails
  <2> USE <1>2 DEF LaunchFails, childVars
  <2>1. TypeOK'
    BY DEF ParentSteps, Terminal
  <2>4. LaunchInv' /\ PermitsInv'
    BY ProcessesKept DEF LaunchInv
  <2>2. ReportInv' /\ PendingInv'
    BY DEF ReportInv, PendingInv, Reported, KillSteps
  <2>3. CurrentInv' /\ SettledInv' /\ KillInv' /\ HaltInv' /\ BlameInv'
    BY DEF CurrentInv, SettledInv, KillInv, HaltInv, BlameInv, WaitSteps,
           KillSteps
  <2> QED
    BY <2>1, <2>2, <2>3, <2>4
<1>3. ASSUME NEW res \in {"ok", "raised"}, BodyEnds(res)
      PROVE  IInv'
  <2> USE <1>3 DEF BodyEnds, childVars
  <2>1. TypeOK' /\ LaunchInv' /\ PermitsInv'
    BY ProcessesKept DEF ParentSteps, Terminal, LaunchInv
  <2>2. ReportInv' /\ PendingInv'
    BY DEF ReportInv, PendingInv, Reported, KillSteps
  <2>3. CurrentInv' /\ SettledInv' /\ KillInv' /\ HaltInv' /\ BlameInv'
    BY DEF CurrentInv, SettledInv, KillInv, HaltInv, BlameInv, WaitSteps,
           KillSteps
  <2> QED
    BY <2>1, <2>2, <2>3
<1> QED
  BY <1>1, <1>2, <1>3

(* No step of Wait, or of the loop over the tasks, breaks the invariant. *)
LEMMA WaitInv ==
  ASSUME IInv, WaitStep
  PROVE  IInv'
<1> USE BackgroundTasksAssumption
    DEF IInv, TypeOK, Tasks, childVars, Dead, Reported, Settled
<1>1. CASE WaitStarted
  <2> USE <1>1 DEF WaitStarted
  <2>1. TypeOK' /\ LaunchInv' /\ PermitsInv' /\ ReportInv'
    BY ProcessesKept DEF ParentSteps, Terminal, LaunchInv, ReportInv
  <2>2. PendingInv' /\ CurrentInv'
    BY DEF PendingInv, CurrentInv, KillSteps
  <2>3. SettledInv' /\ KillInv' /\ HaltInv' /\ BlameInv'
    BY DEF SettledInv, KillInv, HaltInv, BlameInv, WaitSteps, KillSteps
  <2> QED
    BY <2>1, <2>2, <2>3
<1>2. CASE WaitStartupTimeout
  <2> USE <1>2 DEF WaitStartupTimeout, StartupAssertion
  <2>1. TypeOK' /\ LaunchInv' /\ PermitsInv' /\ ReportInv'
    BY ProcessesKept DEF ParentSteps, Terminal, LaunchInv, ReportInv
  <2>2. PendingInv' /\ CurrentInv'
    BY DEF PendingInv, CurrentInv, KillSteps
  <2>3. SettledInv' /\ KillInv' /\ HaltInv' /\ BlameInv'
    BY DEF SettledInv, KillInv, HaltInv, BlameInv, WaitSteps, KillSteps
  <2> QED
    BY <2>1, <2>2, <2>3
<1>3. CASE CheckAlive
  <2> USE <1>3 DEF CheckAlive
  <2>1. TypeOK'
    BY DEF ParentSteps, Terminal
  <2>4. LaunchInv' /\ PermitsInv' /\ ReportInv'
    BY ProcessesKept DEF LaunchInv, ReportInv
  <2>2. PendingInv' /\ CurrentInv'
    BY DEF PendingInv, CurrentInv, KillSteps
  <2>3. SettledInv' /\ KillInv' /\ HaltInv' /\ BlameInv'
    BY DEF SettledInv, KillInv, HaltInv, BlameInv, WaitSteps, KillSteps
  <2> QED
    BY <2>1, <2>2, <2>3, <2>4
<1>4. CASE GetReport
  <2> USE <1>4 DEF GetReport, AddError
  <2>1. TypeOK'
    <3>1. queue' \in [Tasks -> {"empty", "ok", "err"}]
      OBVIOUS
    <3>2. errors' \in [Tasks -> SUBSET ErrorKinds]
      BY DEF ErrorKinds
    <3> QED
      BY <3>1, <3>2 DEF ParentSteps, Terminal
  <2>4. LaunchInv' /\ PermitsInv' /\ ReportInv'
    BY ProcessesKept DEF LaunchInv, ReportInv
  <2>2. PendingInv' /\ CurrentInv'
    <3>1. PendingInv'
      BY DEF PendingInv, KillSteps
    <3>2. CurrentInv'
      <4>1. Reported(cur)
        BY DEF ReportInv
      <4>2. outcome[cur] = "err" => errors'[cur] # {}
        BY DEF ReportInv
      <4>3. pc' = "join" /\ clean' /\ UNCHANGED <<child, outcome, cur>>
        OBVIOUS
      <4> QED
        BY ONLY <4>1, <4>2, <4>3 DEF CurrentInv, Reported
    <3> QED
      BY <3>1, <3>2
  <2>3. SettledInv' /\ KillInv' /\ HaltInv' /\ BlameInv'
    <3>1. SettledInv' /\ KillInv' /\ HaltInv'
      BY DEF SettledInv, KillInv, HaltInv, WaitSteps, KillSteps
    <3>2. BlameInv'
      <4>1. queue[cur] = "err" => Reported(cur) /\ outcome[cur] = "err"
        BY DEF ReportInv
      <4>2. \A t \in Tasks :
              /\ "task" \in errors'[t] =>
                   "task" \in errors[t] \/ (t = cur /\ queue[cur] = "err")
              /\ "unexpected" \in errors'[t] => "unexpected" \in errors[t]
        OBVIOUS
      <4> QED
        BY <4>1, <4>2 DEF BlameInv
    <3> QED
      BY <3>1, <3>2
  <2> QED
    BY <2>1, <2>2, <2>3, <2>4
<1>5. CASE GetTimesOut
  <2> USE <1>5 DEF GetTimesOut
  <2>1. TypeOK' /\ LaunchInv' /\ PermitsInv' /\ ReportInv'
    BY ProcessesKept DEF ParentSteps, Terminal, LaunchInv, ReportInv
  <2>2. PendingInv' /\ CurrentInv'
    BY DEF PendingInv, CurrentInv, KillSteps
  <2>3. SettledInv' /\ KillInv' /\ HaltInv' /\ BlameInv'
    BY DEF SettledInv, KillInv, HaltInv, BlameInv, WaitSteps, KillSteps
  <2> QED
    BY <2>1, <2>2, <2>3
<1>6. CASE KeepPolling
  <2> USE <1>6 DEF KeepPolling
  <2>1. TypeOK' /\ LaunchInv' /\ PermitsInv' /\ ReportInv'
    BY ProcessesKept DEF ParentSteps, Terminal, LaunchInv, ReportInv
  <2>2. PendingInv' /\ CurrentInv'
    BY DEF PendingInv, CurrentInv, KillSteps
  <2>3. SettledInv' /\ KillInv' /\ HaltInv' /\ BlameInv'
    BY DEF SettledInv, KillInv, HaltInv, BlameInv, WaitSteps, KillSteps
  <2> QED
    BY <2>1, <2>2, <2>3
<1>7. CASE SilentTimeout
  <2> USE <1>7 DEF SilentTimeout, AddError, StartKilling
  <2>1. TypeOK'
    <3>1. errors' \in [Tasks -> SUBSET ErrorKinds]
      BY DEF ErrorKinds
    <3>2. kill' \in KillRecords
      BY DEF KillRecords
    <3> QED
      BY <3>1, <3>2 DEF ParentSteps
  <2>4. LaunchInv' /\ PermitsInv' /\ ReportInv'
    BY ProcessesKept DEF LaunchInv, ReportInv
  <2>2. PendingInv' /\ CurrentInv'
    BY DEF PendingInv, CurrentInv, KillSteps
  <2>3. SettledInv' /\ KillInv' /\ HaltInv' /\ BlameInv'
    BY DEF SettledInv, KillInv, HaltInv, BlameInv, WaitSteps, KillSteps
  <2> QED
    BY <2>1, <2>2, <2>3, <2>4
<1>8. CASE JoinExited
  <2> USE <1>8 DEF JoinExited, NoteExit, AddError
  <2>1. TypeOK'
    BY DEF ParentSteps, Terminal, ErrorKinds
  <2>4. LaunchInv' /\ PermitsInv' /\ ReportInv'
    BY ProcessesKept DEF LaunchInv, ReportInv
  <2>2. PendingInv' /\ CurrentInv'
    BY DEF PendingInv, CurrentInv, KillSteps
  <2>3. SettledInv' /\ KillInv' /\ HaltInv' /\ BlameInv'
    <3>1. SettledInv'
      <4>1. Settled(cur)'
        <5>1. CASE clean
          <6>1. Reported(cur) /\ (outcome[cur] = "err" => errors[cur] # {})
            BY <5>1 DEF CurrentInv
          <6>2. outcome[cur] \in {"ok", "err"}
            BY <6>1 DEF ReportInv
          <6>3. child[cur] = "exited"
            BY <6>1
          <6> QED
            BY <5>1, <6>1, <6>2, <6>3
        <5>2. CASE ~clean
          <6>1. UNCHANGED <<child, cur>>
            OBVIOUS
          <6>2. errors' = [errors EXCEPT ![cur] = @ \cup {"unexpected"}]
            BY <5>2
          <6>3. errors'[cur] # {}
            BY <6>2
          <6> QED
            BY <6>1, <6>3
        <5> QED
          BY <5>1, <5>2
      <4>2. \A t \in Tasks : t < cur => Settled(t)'
        BY DEF SettledInv, WaitSteps
      <4> QED
        BY <4>1, <4>2 DEF SettledInv
    <3>2. KillInv'
      BY DEF KillInv, KillSteps, SettledInv
    <3>3. HaltInv'
      BY DEF HaltInv
    <3>4. BlameInv'
      BY DEF BlameInv, CurrentInv
    <3> QED
      BY <3>1, <3>2, <3>3, <3>4
  <2> QED
    BY <2>1, <2>2, <2>3, <2>4
<1>9. CASE JoinTimesOut
  <2> USE <1>9 DEF JoinTimesOut, AddError, StartKilling
  <2>1. TypeOK'
    BY DEF ParentSteps, Terminal, ErrorKinds, KillRecords
  <2>4. LaunchInv' /\ PermitsInv' /\ ReportInv'
    BY ProcessesKept DEF LaunchInv, ReportInv
  <2>2. PendingInv' /\ CurrentInv'
    BY DEF PendingInv, CurrentInv, KillSteps
  <2>3. SettledInv' /\ KillInv' /\ HaltInv' /\ BlameInv'
    BY DEF SettledInv, KillInv, HaltInv, BlameInv, WaitSteps, KillSteps
  <2> QED
    BY <2>1, <2>2, <2>3, <2>4
<1>10. CASE FinishTask
  <2> USE <1>10 DEF FinishTask, Halts, StartKilling, Verdict
  <2>1. TypeOK'
    BY DEF ParentSteps, Terminal, KillRecords
  <2>4. LaunchInv' /\ PermitsInv' /\ ReportInv'
    BY ProcessesKept DEF LaunchInv, ReportInv
  <2>2. PendingInv' /\ CurrentInv'
    BY DEF PendingInv, CurrentInv, KillSteps
  <2>3. SettledInv' /\ KillInv' /\ HaltInv' /\ BlameInv'
    <3>1. SettledInv'
      BY DEF SettledInv, WaitSteps, KillSteps
    <3>2. KillInv'
      BY DEF KillInv, KillSteps, SettledInv
    <3>3. HaltInv'
      <4>1. CASE pc' = "startup"
        <5>1. cur' = cur + 1 /\ ~(HaltOnError /\ errors[cur] # {})
          BY <4>1
        <5>2. errors' = errors /\ pc = "finish"
          OBVIOUS
        <5>3. \A t \in Tasks : errors'[t] # {} => t <= cur
          BY <5>2 DEF HaltInv
        <5>4. HaltOnError => \A t \in Tasks : t < cur => errors'[t] = {}
          BY <5>2 DEF HaltInv
        <5>5. cur \in 1 .. NumTasks
          OBVIOUS
        <5> HIDE <1>10 DEF IInv, TypeOK, FinishTask
        <5> QED
          BY <4>1, <5>1, <5>2, <5>3, <5>4, <5>5 DEF HaltInv
      <4>2. CASE pc' # "startup" /\ cur' = cur
        BY <4>2 DEF HaltInv
      <4> QED
        BY <4>1, <4>2
    <3>4. BlameInv'
      BY DEF BlameInv, CurrentInv
    <3> QED
      BY <3>1, <3>2, <3>3, <3>4
  <2> QED
    BY <2>1, <2>2, <2>3, <2>4
<1> QED
  BY <1>1, <1>2, <1>3, <1>4, <1>5, <1>6, <1>7, <1>8, <1>9, <1>10 DEF WaitStep

(* No step of _KillChildren and Kill does. *)
LEMMA KillingInv ==
  ASSUME IInv, KillStep
  PROVE  IInv'
<1> USE BackgroundTasksAssumption
    DEF IInv, TypeOK, Tasks, childVars, Dead, Reported, Settled
<1>1. CASE KillMark
  <2> USE <1>1 DEF KillMark
  <2>1. TypeOK'
    BY DEF ParentSteps
  <2>2. LaunchInv' /\ PermitsInv' /\ ReportInv'
    BY ProcessesKept DEF LaunchInv, ReportInv
  <2>3. PendingInv' /\ CurrentInv'
    BY DEF PendingInv, CurrentInv, KillSteps
  <2>4. SettledInv' /\ KillInv' /\ HaltInv' /\ BlameInv'
    BY DEF SettledInv, KillInv, HaltInv, BlameInv, WaitSteps, KillSteps
  <2> QED
    BY <2>1, <2>2, <2>3, <2>4
<1>2. CASE KillSend
  <2> USE <1>2 DEF KillSend
  <2>1. TypeOK'
    <3>1. kill' \in KillRecords
      <4>1. kill.idx < kill.hi => kill.idx + 1 \in 1 .. NumTasks
        BY DEF KillRecords
      <4> QED
        BY <4>1 DEF KillRecords
    <3>2. signal' \in [Tasks -> {"none", "INT", "TERM", "KILL"}]
      BY DEF KillInv, KillSteps, KillRecords
    <3> QED
      BY <3>1, <3>2 DEF ParentSteps
  <2>2. LaunchInv' /\ PermitsInv' /\ ReportInv'
    BY ProcessesKept DEF LaunchInv, ReportInv
  <2>3. PendingInv' /\ CurrentInv'
    BY DEF PendingInv, CurrentInv, KillSteps, KillRecords
  <2>4. SettledInv' /\ HaltInv' /\ BlameInv'
    BY DEF SettledInv, HaltInv, BlameInv, WaitSteps, KillSteps
  <2>5. KillInv'
    <3>1. kill'.lo = kill.lo /\ kill'.hi = kill.hi /\ kill'.sig = kill.sig
      BY DEF KillRecords
    <3>2. pc' = "kill_mark" => kill'.idx = kill.idx + 1 /\ kill.idx < kill.hi
      BY DEF KillRecords
    <3> QED
      BY <3>1, <3>2 DEF KillInv, KillSteps, KillRecords
  <2> QED
    BY <2>1, <2>2, <2>3, <2>4, <2>5
<1>3. CASE KillStartupTimeout
  <2> USE <1>3 DEF KillStartupTimeout, StartupAssertion
  <2>1. TypeOK'
    BY DEF ParentSteps, Terminal
  <2>2. LaunchInv' /\ PermitsInv' /\ ReportInv'
    BY ProcessesKept DEF LaunchInv, ReportInv
  <2>3. PendingInv' /\ CurrentInv'
    BY DEF PendingInv, CurrentInv, KillSteps
  <2>4. SettledInv' /\ KillInv' /\ HaltInv' /\ BlameInv'
    BY DEF SettledInv, KillInv, HaltInv, BlameInv, WaitSteps, KillSteps
  <2> QED
    BY <2>1, <2>2, <2>3, <2>4
<1>4. CASE KillPop
  <2> USE <1>4 DEF KillPop
  <2>1. TypeOK'
    <3>1. kill' \in KillRecords
      <4>1. kill.hi - 1 \in 0 .. NumTasks
        BY DEF KillInv, KillSteps, KillRecords
      <4> QED
        BY <4>1 DEF KillRecords
    <3> QED
      BY <3>1 DEF ParentSteps
  <2>2. LaunchInv' /\ PermitsInv' /\ ReportInv'
    BY ProcessesKept DEF LaunchInv, ReportInv
  <2>3. PendingInv' /\ CurrentInv'
    BY DEF PendingInv, CurrentInv, KillSteps, KillRecords
  <2>4. SettledInv' /\ HaltInv' /\ BlameInv'
    BY DEF SettledInv, HaltInv, BlameInv, WaitSteps, KillSteps
  <2>5. KillInv'
    BY DEF KillInv, KillSteps, KillRecords
  <2> QED
    BY <2>1, <2>2, <2>3, <2>4, <2>5
<1>5. CASE KillEscalates
  <2> USE <1>5 DEF KillEscalates, NextSignal
  <2>1. TypeOK'
    <3>1. kill' \in KillRecords
      <4>1. kill.lo \in 1 .. NumTasks
        BY DEF KillInv, KillSteps, KillRecords
      <4> QED
        BY <4>1 DEF KillRecords
    <3> QED
      BY <3>1 DEF ParentSteps
  <2>2. LaunchInv' /\ PermitsInv' /\ ReportInv'
    BY ProcessesKept DEF LaunchInv, ReportInv
  <2>3. PendingInv' /\ CurrentInv'
    BY DEF PendingInv, CurrentInv, KillSteps, KillRecords
  <2>4. SettledInv' /\ HaltInv' /\ BlameInv'
    BY DEF SettledInv, HaltInv, BlameInv, WaitSteps, KillSteps
  <2>5. KillInv'
    BY DEF KillInv, KillSteps, KillRecords
  <2> QED
    BY <2>1, <2>2, <2>3, <2>4, <2>5
<1>6. CASE KillJoins
  <2> USE <1>6 DEF KillJoins, AllKilled
  <2>1. TypeOK'
    BY DEF ParentSteps
  <2>2. LaunchInv' /\ PermitsInv' /\ ReportInv'
    BY ProcessesKept DEF LaunchInv, ReportInv
  <2>3. PendingInv' /\ CurrentInv'
    BY DEF PendingInv, CurrentInv, KillSteps
  <2>4. SettledInv' /\ HaltInv' /\ BlameInv'
    BY DEF SettledInv, HaltInv, BlameInv, WaitSteps, KillSteps
  <2>5. KillInv'
    BY DEF KillInv, KillSteps, KillRecords
  <2> QED
    BY <2>1, <2>2, <2>3, <2>4, <2>5
<1>7. CASE KillReturns
  <2> USE <1>7 DEF KillReturns, NoKill
  <2>1. TypeOK'
    <3>1. kill' \in KillRecords
      BY DEF KillRecords
    <3> QED
      BY <3>1 DEF ParentSteps, Terminal
  <2>2. LaunchInv' /\ PermitsInv' /\ ReportInv'
    BY ProcessesKept DEF LaunchInv, ReportInv
  <2>3. PendingInv' /\ CurrentInv'
    BY DEF PendingInv, CurrentInv, KillSteps
  <2>4. SettledInv'
    <3>1. kill.lo = cur => Settled(cur)
      BY DEF KillInv, KillSteps, KillRecords
    <3>2. kill.lo # cur => \A t \in Tasks : Dead(t)
      BY DEF KillInv, KillSteps, KillRecords, SettledInv
    <3> QED
      BY <3>1, <3>2 DEF SettledInv, WaitSteps, KillSteps
  <2>5. KillInv' /\ HaltInv' /\ BlameInv'
    BY DEF KillInv, HaltInv, BlameInv, KillSteps
  <2> QED
    BY <2>1, <2>2, <2>3, <2>4, <2>5
<1> QED
  BY <1>1, <1>2, <1>3, <1>4, <1>5, <1>6, <1>7 DEF KillStep

-----------------------------------------------------------------------------
(* The invariant holds before the first task is launched. *)
LEMMA Initially == Init => IInv
<1> SUFFICES ASSUME Init PROVE IInv
  OBVIOUS
<1> USE BackgroundTasksAssumption DEF Init, NoKill, Tasks
<1>1. TypeOK
  <2>1. kill \in KillRecords
    BY DEF KillRecords
  <2>2. child \in [Tasks -> ChildStates] /\ errors \in [Tasks -> SUBSET ErrorKinds]
    BY DEF ChildStates
  <2>3. sem \in 0 .. MaxParallel /\ cur \in Tasks
    OBVIOUS
  <2> QED
    BY <2>1, <2>2, <2>3 DEF TypeOK, ParentSteps
<1>2. PermitsInv
  <2>1. Holders = {}
    BY DEF Holders
  <2> QED
    BY <2>1, FS_EmptySet DEF PermitsInv
<1>3. LaunchInv /\ ReportInv /\ PendingInv /\ CurrentInv
  BY DEF LaunchInv, ReportInv, PendingInv, CurrentInv, Reported
<1>4. SettledInv /\ KillInv /\ HaltInv /\ BlameInv
  BY DEF SettledInv, KillInv, HaltInv, BlameInv, WaitSteps, KillSteps
<1> QED
  BY <1>1, <1>2, <1>3, <1>4 DEF IInv

(* It does not depend on anything but the variables. *)
LEMMA Stuttering == IInv /\ UNCHANGED vars => IInv'
BY PermitsKept
DEF IInv, vars, childVars, parentVars, TypeOK, LaunchInv, PermitsInv, ReportInv,
    PendingInv, CurrentInv, SettledInv, KillInv, HaltInv, BlameInv, Settled,
    Dead, Reported

(* The invariant is inductive: whatever the children and the parent do in   *)
(* whatever order, each place of Wait and of _KillChildren knows what it    *)
(* relies on.                                                               *)
THEOREM Invariance == Spec => []IInv
<1>1. IInv /\ [Next]_vars => IInv'
  <2> SUFFICES ASSUME IInv, [Next]_vars PROVE IInv'
    OBVIOUS
  <2>1. CASE \E t \in Tasks : ChildStep(t)
    BY <2>1, ChildInv
  <2>2. CASE ParentStep
    BY <2>2, LaunchInvs, WaitInv, KillingInv DEF ParentStep
  <2>3. CASE Done
    BY <2>3, Stuttering DEF Done
  <2>4. CASE UNCHANGED vars
    BY <2>4, Stuttering
  <2> QED
    BY <2>1, <2>2, <2>3, <2>4 DEF Next
<1> QED
  BY Initially, <1>1, PTL DEF Spec

(* Every variable keeps its type; in particular the semaphore never holds   *)
(* more than max_parallel permits, however children die.                    *)
THEOREM TypeCorrect == Spec => []TypeOK
BY Invariance, PTL DEF IInv

(* A normal return of ParallelTasks swallows no failure: every step ended   *)
(* without an exception and every child process is gone.                    *)
THEOREM ReturnIsHonest == Spec => []ReturnMeansSuccess
<1>1. IInv => ReturnMeansSuccess
  BY DEF IInv, SettledInv, Settled, ReturnMeansSuccess
<1> QED
  BY Invariance, <1>1, PTL

(* ParallelTasks leaves no child behind when it returns or raises           *)
(* BackgroundFailure.                                                       *)
THEOREM NothingLeftBehind == Spec => []NoOrphans
<1>1. IInv => NoOrphans
  BY DEF IInv, SettledInv, Settled, NoOrphans
<1> QED
  BY Invariance, <1>1, PTL

(* Wait never blames a child that had put its report for exiting            *)
(* unexpectedly.                                                            *)
THEOREM ReportsAreHonoured == Spec => []ReportHonoured
<1>1. IInv => ReportHonoured
  BY DEF IInv, BlameInv, ReportHonoured
<1> QED
  BY Invariance, <1>1, PTL

(* No more than max_parallel children are past semaphore.acquire() in run() *)
(* at a time: each of them holds a permit of its own.                       *)
THEOREM SemaphoreBounds == Spec => []AtMostMaxParallel
<1>1. IInv => AtMostMaxParallel
  <2> DEFINE Guarded == {t \in Tasks : child[t] \in {"setup", "running", "check",
                                                     "put", "release"}}
  <2> SUFFICES ASSUME IInv, MaxParallel # 0
               PROVE  Cardinality(Guarded) <= MaxParallel
    BY DEF AtMostMaxParallel
  <2>1. Guarded \subseteq Holders
    BY DEF IInv, PermitsInv, Holders
  <2>2. IsFiniteSet(Holders) /\ Cardinality(Holders) \in Nat
    BY TasksCount DEF Holders
  <2>3. Cardinality(Guarded) <= Cardinality(Holders) /\ Cardinality(Guarded) \in Nat
    BY <2>1, <2>2, TasksCount, FS_Subset DEF Holders
  <2>4. sem \in 0 .. MaxParallel /\ sem + Cardinality(Holders) = MaxParallel
    BY DEF IInv, PermitsInv, TypeOK
  <2> HIDE DEF Guarded
  <2> QED
    BY <2>2, <2>3, <2>4, BackgroundTasksAssumption
<1> QED
  BY Invariance, <1>1, PTL

(* With halt_on_error the first failure is the only one reported. *)
THEOREM HaltIsFinal == Spec => []HaltSquelches
<1>1. IInv => HaltSquelches
  BY DEF IInv, HaltInv, HaltSquelches, TypeOK, Tasks
<1> QED
  BY Invariance, <1>1, PTL

-----------------------------------------------------------------------------
(* ParallelTasks implements ParallelSteps.                                  *)


absStatus == [t \in Tasks |-> StatusOf(t)]
absCall   == IF pc \in Terminal THEN pc ELSE "running"

(* Before the first launch every step is pending and the call is running. *)
LEMMA PromiseInit == Init => Promise!Init
BY DEF Init, Promise!Init, Promise!Tasks, Tasks, StatusOf, Dead, Terminal

(* A step that changes the status of one task at most, and the way it may,  *)
(* is a step of ParallelSteps or a stutter.                                 *)
LEMMA OneStatusChanges ==
  ASSUME NEW t \in Tasks, UNCHANGED absCall,
         \A u \in Tasks \ {t} : StatusOf(u)' = StatusOf(u),
         \/ StatusOf(t)' = StatusOf(t)
         \/ StatusOf(t) = "pending" /\ StatusOf(t)' = "ok"
         \/ /\ StatusOf(t) = "pending" /\ StatusOf(t)' = "failed"
            /\ pc \notin {"returned", "failed"}
         \/ /\ StatusOf(t) = "ok" /\ StatusOf(t)' = "failed"
            /\ pc \notin Terminal
  PROVE  [Promise!Next]_(Promise!absVars)
<1> USE DEF Terminal, absCall
<1>0. t \in Promise!Tasks
  BY DEF Promise!Tasks, Tasks
<1>1. CASE StatusOf(t)' = StatusOf(t)
  BY <1>1 DEF Promise!absVars
<1>2. CASE StatusOf(t) = "pending" /\ StatusOf(t)' = "ok"
  <2>1. absStatus' = [absStatus EXCEPT ![t] = "ok"]
    <3>1. \A u \in Tasks : absStatus[u] = StatusOf(u) /\ absStatus'[u] = StatusOf(u)'
      BY DEF absStatus
    <3>2. \A u \in Tasks : absStatus'[u] = IF u = t THEN "ok" ELSE absStatus[u]
      BY <1>2, <3>1
    <3>3. absStatus = [u \in Tasks |-> absStatus[u]] /\ absStatus' = [u \in Tasks |-> absStatus'[u]]
      BY DEF absStatus
    <3> QED
      BY <3>2, <3>3
  <2>2. absStatus[t] = "pending"
    BY <1>2 DEF absStatus
  <2>3. Promise!Succeed(t)
    BY <2>1, <2>2 DEF absStatus, Promise!Succeed
  <2> QED
    BY <1>0, <2>3 DEF Promise!Next
<1>3. CASE /\ StatusOf(t) = "pending" /\ StatusOf(t)' = "failed"
           /\ pc \notin {"returned", "failed"}
  <2>1. Promise!Fail(t) \/ Promise!FailLate(t)
    BY <1>3 DEF Promise!Fail, Promise!FailLate, Terminal
  <2> QED
    BY <1>0, <2>1 DEF Promise!Next
<1>4. CASE /\ StatusOf(t) = "ok" /\ StatusOf(t)' = "failed"
           /\ pc \notin Terminal
  <2>1. Promise!Fail(t)
    BY <1>4 DEF Promise!Fail, Terminal
  <2> QED
    BY <1>0, <2>1 DEF Promise!Next
<1> QED
  BY <1>1, <1>2, <1>3, <1>4

(* A child's step changes the status of that child only, and never takes    *)
(* back that its step has ended.                                            *)
LEMMA ChildRefines ==
  ASSUME IInv, NEW t \in Tasks, ChildStep(t)
  PROVE  [Promise!Next]_(Promise!absVars)
<1>1. UNCHANGED parentVars /\ (Dead(t) => child'[t] = child[t])
  BY ChildFrames DEF IInv, ChildFrame
<1>2. \A u \in Tasks \ {t} : child'[u] = child[u] /\ outcome'[u] = outcome[u]
  BY DEF ChildStep, ChildAcquire, ChildStarted, ChildTaskEnds,
         ChildChecksKilling, ChildPuts, ChildReleases, ChildExits, ChildKilled,
         ChildCrashes, Perish, IInv, TypeOK
<1>3. Dead(t) => outcome'[t] = outcome[t]
  BY DEF ChildStep, ChildAcquire, ChildStarted, ChildTaskEnds,
         ChildChecksKilling, ChildPuts, ChildReleases, ChildExits, ChildKilled,
         ChildCrashes, Perish, IInv, TypeOK, Dead
<1>4. \A u \in Tasks \ {t} : StatusOf(u)' = StatusOf(u)
  BY <1>1, <1>2 DEF StatusOf, Dead, parentVars
<1>5. StatusOf(t)' = StatusOf(t) \/ (StatusOf(t) = "pending" /\ ~Dead(t))
  BY <1>1, <1>3 DEF StatusOf, Dead, parentVars
<1>6. StatusOf(t)' \in {"pending", "ok", "failed"}
  BY DEF StatusOf
<1>7. ~Dead(t) => pc \notin {"returned", "failed"}
  BY DEF IInv, SettledInv, Settled
<1> QED
  BY <1>1, <1>4, <1>5, <1>6, <1>7, OneStatusChanges
  DEF parentVars, absCall, Terminal

(* Whatever is on record for a task that is gone, it is a failure. *)
LEMMA ErrorMeansFailed ==
  ASSUME IInv, NEW t \in Tasks, Dead(t), errors[t] # {}
  PROVE  StatusOf(t) = "failed"
BY DEF IInv, TypeOK, BlameInv, StatusOf, ErrorKinds, Dead, Reported

(* The parent's steps change the status of a task only when they record a   *)
(* timeout, and when they leave they know how every task ended.             *)
LEMMA ParentRefines ==
  ASSUME IInv, IInv', ParentStep
  PROVE  [Promise!Next]_(Promise!absVars)
<1> USE DEF Terminal
<1>1. CASE LaunchTask
  <2>0. \A t \in Tasks : /\ Dead(t)' <=> Dead(t)
                         /\ Dead(t) => child'[t] = child[t]
    BY <1>1 DEF LaunchTask, IInv, TypeOK, LaunchInv, Dead, Tasks
  <2>1. \A t \in Tasks : StatusOf(t)' = StatusOf(t)
    BY <1>1, <2>0 DEF LaunchTask, StatusOf
  <2>2. absStatus' = absStatus
    BY <2>1 DEF absStatus
  <2> QED
    BY <1>1, <2>2 DEF LaunchTask, Promise!absVars, absStatus
<1>2. CASE /\ UNCHANGED <<child, outcome, errors>>
           /\ pc \notin Terminal /\ pc' \notin Terminal
  BY <1>2 DEF Promise!absVars, StatusOf, Dead
<1>3. CASE pc \notin Terminal /\ pc' = "raised" /\ UNCHANGED <<child, outcome, errors>>
  BY <1>3 DEF Promise!RaiseOther, Promise!Next, StatusOf, Dead
<1>4. CASE SilentTimeout \/ JoinTimesOut
  <2> USE <1>4 DEF SilentTimeout, JoinTimesOut, AddError, StartKilling, childVars
  <2>1. UNCHANGED absCall /\ pc \notin Terminal /\ cur \in Tasks
    BY DEF absCall, IInv, TypeOK
  <2>2. \A t \in Tasks \ {cur} : StatusOf(t)' = StatusOf(t)
    BY DEF StatusOf, Dead, IInv, TypeOK
  <2>3. StatusOf(cur)' = "failed"
    BY DEF StatusOf, IInv, TypeOK
  <2>4. StatusOf(cur) \in {"pending", "ok", "failed"}
    BY DEF StatusOf
  <2> QED
    BY <2>1, <2>2, <2>3, <2>4, OneStatusChanges
<1>5. CASE GetReport \/ JoinExited
  <2> USE <1>5 DEF GetReport, JoinExited, NoteExit, AddError, childVars
  <2>1. \A t \in Tasks : {"exit_timeout", "silent_timeout"} \cap errors'[t]
                          = {"exit_timeout", "silent_timeout"} \cap errors[t]
    BY DEF IInv, TypeOK
  <2>2. \A t \in Tasks : StatusOf(t)' = StatusOf(t)
    BY <2>1 DEF StatusOf, Dead
  <2>3. absStatus' = absStatus
    BY <2>2 DEF absStatus
  <2> QED
    BY <2>3 DEF Promise!absVars, absStatus
<1>6. CASE FinishTask \/ KillReturns
  <2> USE <1>6 DEF FinishTask, KillReturns, StartKilling, childVars
  <2>0. pc \notin Terminal /\ UNCHANGED <<child, outcome, errors>>
    OBVIOUS
  <2>1. CASE pc' \notin Terminal
    BY <2>0, <2>1, <1>2
  <2>2. CASE pc' = "returned"
    <3>1. \A t \in Tasks : StatusOf(t) = "ok"
      BY <2>0, <2>2 DEF IInv, SettledInv, Settled, StatusOf, Dead
    <3>2. Promise!Return
      BY <2>0, <2>2, <3>1
      DEF Promise!Return, Promise!Tasks, Tasks, StatusOf, Dead
    <3> QED
      BY <3>2 DEF Promise!Next
  <2>3. CASE pc' = "failed"
    <3>1. \A t \in Tasks : Dead(t)
      BY <2>0, <2>3 DEF IInv, SettledInv, Dead
    <3>2. \E t \in Tasks : errors[t] # {}
      BY <2>0, <2>3 DEF IInv, TypeOK, KillInv, KillSteps, Verdict
    <3>3. \E t \in Tasks : StatusOf(t) = "failed"
      BY <3>1, <3>2, ErrorMeansFailed
    <3>4. \A t \in Tasks : StatusOf(t) # "pending"
      BY <3>1 DEF StatusOf
    <3>5. Promise!RaiseBackgroundFailure
      BY <2>0, <2>3, <3>3, <3>4
      DEF Promise!RaiseBackgroundFailure, Promise!Tasks, Tasks, StatusOf, Dead
    <3> QED
      BY <3>5 DEF Promise!Next
  <2>4. CASE pc' = "raised"
    BY <2>0, <2>4, <1>3
  <2> QED
    BY <2>1, <2>2, <2>3, <2>4
<1> QED
  BY <1>1, <1>2, <1>3, <1>4, <1>5, <1>6
  DEF ParentStep, WaitStep, KillStep, LaunchFails, BodyEnds, WaitStarted,
      WaitStartupTimeout, StartupAssertion, CheckAlive, GetTimesOut,
      KeepPolling, KillMark, KillSend, KillStartupTimeout, KillPop,
      KillEscalates, KillJoins, childVars

(* ParallelTasks, with its processes, queue, semaphore, signals and         *)
(* timeouts, implements ParallelSteps, which has none.                      *)
THEOREM ParallelTasksKeepsPromise == Spec => KeepsPromise
<1>1. IInv /\ IInv' /\ [Next]_vars => [Promise!Next]_(Promise!absVars)
  <2> SUFFICES ASSUME IInv, IInv', [Next]_vars
               PROVE  [Promise!Next]_(Promise!absVars)
    OBVIOUS
  <2>1. CASE \E t \in Tasks : ChildStep(t)
    BY <2>1, ChildRefines
  <2>2. CASE ParentStep
    BY <2>2, ParentRefines
  <2>3. CASE UNCHANGED vars
    BY <2>3 DEF vars, childVars, parentVars, Promise!absVars, StatusOf, Dead
  <2> QED
    BY <2>1, <2>2, <2>3 DEF Next, Done
<1> QED
  BY PromiseInit, Invariance, <1>1, PTL DEF Spec, KeepsPromise, Promise!Spec
=============================================================================
