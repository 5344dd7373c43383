------------------------------ MODULE TaskPool ------------------------------
(***************************************************************************)
(* BackgroundTaskRunner, RunTasksInProcessPool and TaskRunner of           *)
(* lib/parallel.py: the body of a with statement puts inputs on a queue    *)
(* that a pool of workers reads; when the body ends, or raises, one        *)
(* sentinel per worker follows.  The workers are the steps of a call to    *)
(* ParallelTasks, of which the promise is used, ParallelSteps, and one     *)
(* thing more: what makes the machinery itself raise.                      *)
(*                                                                         *)
(* The queue is a managed FIFO that keeps what was put in the order it was *)
(* put: inputs 1 .. produced, then the sentinels.  |taken| entries have    *)
(* been read.  No queue is passed in, so that it goes when the call ends.  *)
(***************************************************************************)
EXTENDS Naturals

CONSTANTS NumInputs,    \* the most inputs the body puts on the queue
          NumWorkers,   \* processes
          MayDie,       \* workers may crash or be killed by the parent
          MayFailToFork \* start() may raise

ASSUME TaskPoolAssumption ==
  /\ NumInputs \in Nat /\ NumWorkers \in Nat \ {0}
  /\ MayDie \in BOOLEAN /\ MayFailToFork \in BOOLEAN

Inputs  == 1 .. NumInputs
Workers == 1 .. NumWorkers

VARIABLES
  body,       \* the with body: its workers started, running, how it ended
  produced,   \* inputs put on the queue
  sentinels,  \* _AllTasksComplete objects put on the queue
  taken,      \* entries read from the queue
  worker,     \* where each worker is; "lost" if it never gets to _started
  failed,     \* its local |errors| is not empty
  ran,        \* the inputs whose task each worker has begun
  status,     \* of the workers, as ParallelTasks sees them
  call        \* of the call to BackgroundTaskRunner

poolVars == <<body, produced, sentinels, taken, worker, failed, ran>>
vars == <<poolVars, status, call>>

Steps == INSTANCE ParallelSteps WITH NumTasks <- NumWorkers

Init ==
  /\ body = "launch"
  /\ produced = 0 /\ sentinels = 0 /\ taken = 0
  /\ worker = [w \in Workers |-> "unborn"]
  /\ failed = [w \in Workers |-> FALSE]
  /\ ran = [w \in Workers |-> {}]
  /\ Steps!Init

-----------------------------------------------------------------------------
(* The parent: ParallelTasks, the body of the with statement and what       *)
(* follows it.                                                              *)

(* The worker goes on to the next state, with the rest as it is. *)
Goes(w, state) == worker' = [worker EXCEPT ![w] = state]

(* task.start(), in the order of the workers; the body comes after the last.*)
Launch(w) ==
  /\ body = "launch" /\ call = "running"
  /\ worker[w] = "unborn" /\ \A v \in 1 .. w - 1 : worker[v] # "unborn"
  /\ Goes(w, "setup")
  /\ body' = IF w = NumWorkers THEN "running" ELSE body
  /\ UNCHANGED <<produced, sentinels, taken, failed, ran, status, call>>

(* start() raises, before there is a body: those started are left alone. *)
LaunchFails ==
  /\ MayFailToFork
  /\ body = "launch"
  /\ Steps!RaiseOther
  /\ UNCHANGED poolVars

(* queue.put(x) *)
Produce ==
  /\ body = "running" /\ produced < NumInputs
  /\ produced' = produced + 1
  /\ UNCHANGED <<body, sentinels, taken, worker, failed, ran, status, call>>

(* The body leaves; the finally clause is next either way. *)
BodyEnds(how) ==
  /\ body = "running"
  /\ body' = how
  /\ UNCHANGED <<produced, sentinels, taken, worker, failed, ran, status,
                 call>>

EnoughSentinels == sentinels >= NumWorkers

(* for _ in xrange(processes): queue.put(_AllTasksComplete()) *)
PutSentinel ==
  /\ body \in {"ok", "raised"} /\ ~EnoughSentinels
  /\ sentinels' = sentinels + 1
  /\ UNCHANGED <<body, produced, taken, worker, failed, ran, status, call>>

(* The exception of the body goes on only if no worker failed. *)
BodyPrevails == \A w \in Workers : status[w] = "ok"

(* Waiting for a worker that died before _started fails the assertion of    *)
(* _WaitForStartup, once those before it have ended.  It leaves with the    *)
(* errors collected so far, and without waiting for those that follow.      *)
AllStarted == \A w \in Workers : worker[w] # "lost"
StartupAssertion(w) ==
  worker[w] = "lost" /\ \A v \in 1 .. w - 1 : status[v] # "pending"

(* ParallelTasks comes back once all workers have ended, or by that.        *)
PoolReturns ==
  /\ body \in {"ok", "raised"} /\ EnoughSentinels
  /\ \/ body = "ok" /\ Steps!Return
     \/ body = "raised" /\ BodyPrevails /\ Steps!RaiseOther
     \/ AllStarted /\ Steps!RaiseBackgroundFailure
     \/ (\E w \in Workers : StartupAssertion(w)) /\ Steps!RaiseOther
  /\ UNCHANGED poolVars

-----------------------------------------------------------------------------
(* A worker: TaskRunner.                                                    *)

Size == produced + sentinels

(* The Manager of the queues, and of the workers' reports, is shut down     *)
(* when the call ends.                                                      *)
QueueOpen == call = "running"

(* _started.set() *)
StartsUp(w) ==
  /\ worker[w] = "setup"
  /\ Goes(w, "get")
  /\ UNCHANGED <<body, produced, sentinels, taken, failed, ran, status, call>>

(* The queue after an entry has been read. *)
Popped_NotPopped == taken
Popped == taken + 1

(* x = queue.get() returns an input: run the task on it, or drop it if a    *)
(* task of this worker has failed.                                          *)
GetInput(w) ==
  /\ worker[w] = "get" /\ QueueOpen
  /\ taken < produced
  /\ taken' = Popped
  /\ IF failed[w]
     THEN UNCHANGED <<worker, ran>>
     ELSE Goes(w, "task") /\ ran' = [ran EXCEPT ![w] = @ \cup {taken + 1}]
  /\ UNCHANGED <<body, produced, sentinels, failed, status, call>>

(* The task returns, or raises. *)
TaskReturns(w) ==
  /\ worker[w] = "task"
  /\ Goes(w, "get")
  /\ UNCHANGED <<body, produced, sentinels, taken, failed, ran, status, call>>

NextAfterFailure_Leaves == "onexit"
NextAfterFailure == "get"

TaskRaises(w) ==
  /\ worker[w] = "task"
  /\ failed' = [failed EXCEPT ![w] = TRUE]
  /\ Goes(w, NextAfterFailure)
  /\ UNCHANGED <<body, produced, sentinels, taken, ran, status, call>>

(* queue.get() returns an _AllTasksComplete. *)
GetSentinel(w) ==
  /\ worker[w] = "get" /\ QueueOpen
  /\ produced <= taken /\ taken < Size
  /\ taken' = Popped
  /\ Goes(w, "onexit")
  /\ UNCHANGED <<body, produced, sentinels, failed, ran, status, call>>

Unhappy_OnExitOnly(w, raises) == raises
Unhappy(w, raises) == failed[w] \/ raises

Breaks(w) == Steps!Fail(w) \/ Steps!FailLate(w)

(* onexit() returns, or raises, which hides the errors of the tasks; then   *)
(* BackgroundFailure is raised if there are errors.  The worker reports.    *)
RunsOnExit(w, raises) ==
  /\ worker[w] = "onexit"
  /\ Goes(w, "ended")
  /\ IF Unhappy(w, raises) \/ ~QueueOpen THEN Breaks(w) ELSE Steps!Succeed(w)
  /\ UNCHANGED <<body, produced, sentinels, taken, failed, ran>>

(* queue.get() of a worker that the machinery's exception left behind. *)
QueueGone(w) ==
  /\ worker[w] = "get" /\ ~QueueOpen
  /\ Goes(w, "died")
  /\ Breaks(w)
  /\ UNCHANGED <<body, produced, sentinels, taken, failed, ran>>

(* The worker dies wherever it is, or the parent gives up on it; that may   *)
(* be when it has reported and does not exit.                               *)
Dies(w) ==
  /\ MayDie
  /\ worker[w] \notin {"unborn", "died", "lost"}
  /\ Goes(w, IF worker[w] = "setup" THEN "lost" ELSE "died")
  /\ Breaks(w)
  /\ UNCHANGED <<body, produced, sentinels, taken, failed, ran>>

-----------------------------------------------------------------------------
ParentStep ==
  \/ \E w \in Workers : Launch(w)
  \/ LaunchFails
  \/ Produce \/ BodyEnds("ok") \/ BodyEnds("raised")
  \/ PutSentinel \/ PoolReturns

WorkerStep(w) ==
  \/ StartsUp(w)
  \/ GetInput(w) \/ GetSentinel(w) \/ QueueGone(w)
  \/ TaskReturns(w) \/ TaskRaises(w)
  \/ RunsOnExit(w, TRUE) \/ RunsOnExit(w, FALSE)

Done == call # "running" /\ UNCHANGED vars

Next ==
  \/ ParentStep
  \/ \E w \in Workers : WorkerStep(w) \/ Dies(w)
  \/ Done

Spec == Init /\ [][Next]_vars

(* The body ends, tasks and exit handlers end, and every process runs. *)
Fairness ==
  /\ WF_vars(\E w \in Workers : Launch(w))
  /\ WF_vars(BodyEnds("ok") \/ BodyEnds("raised"))
  /\ WF_vars(PutSentinel \/ PoolReturns)
  /\ \A w \in Workers : WF_vars(WorkerStep(w))

FairSpec == Spec /\ Fairness

-----------------------------------------------------------------------------
(* Every variable has its type. *)
TypeOK ==
  /\ body \in {"launch", "running", "ok", "raised"}
  /\ produced \in 0 .. NumInputs
  /\ sentinels \in 0 .. NumWorkers
  /\ taken \in 0 .. NumInputs + NumWorkers
  /\ worker \in [Workers -> {"unborn", "setup", "get", "task", "onexit",
                            "ended", "died", "lost"}]
  /\ failed \in [Workers -> BOOLEAN]
  /\ ran \in [Workers -> SUBSET Inputs]
  /\ status \in [Workers -> {"pending", "ok", "failed"}]
  /\ call \in {"running", "returned", "failed", "raised"}

(* No input is run twice, whatever workers die and whoever drains the queue,*)
(* and after a normal return every input has been run: dropping one, or     *)
(* losing it with a worker that died, makes the call fail.                  *)
AllRunOnce ==
  /\ \A v, w \in Workers : v # w => ran[v] \cap ran[w] = {}
  /\ call = "returned" => UNION {ran[w] : w \in Workers} = 1 .. produced

(* The failure of a task surfaces as a BackgroundFailure, which has those   *)
(* of all workers: neither a normal return nor the exception of the body    *)
(* takes its place.  One thing does: a worker that could not be launched,   *)
(* or died before it had started, whose exception is raised instead.        *)
NoneFailed == \A w \in Workers : worker[w] = "ended" /\ ~failed[w]
NotAllStarted == \E w \in Workers : worker[w] \in {"unborn", "lost"}

FailuresSurface ==
  /\ call = "returned" => NoneFailed
  /\ call = "raised" => NoneFailed \/ NotAllStarted
  /\ call = "failed" => \A w \in Workers : worker[w] \in {"ended", "died"}

(* The call ends: the workers are not left waiting on an empty queue; and    *)
(* "BackgroundTaskRunner should always empty its input queues, even if an   *)
(* exception occurs", unless workers died.                                  *)
PoolEnds ==
  <>(/\ call # "running"
     /\ taken = Size \/ \E w \in Workers : worker[w] \in {"died", "lost"})
=============================================================================
