-------------------------- MODULE BackgroundTasks --------------------------
(***************************************************************************)
(* _BackgroundTask and ParallelTasks of lib/parallel.py: a parent process  *)
(* forks one child per step, then waits for the children in launch order.  *)
(* A child takes the semaphore, announces that it started, runs its step,  *)
(* and puts a report on its queue unless the parent has begun to kill it.  *)
(* The parent polls liveness and the queue, gives up on a child that is    *)
(* silent or does not exit, and escalates SIGINT, SIGTERM, SIGKILL.        *)
(*                                                                         *)
(* Time is abstract: a timeout may expire whenever the parent waits for    *)
(* something that has not happened.  The exception is STARTUP_TIMEOUT,     *)
(* "the time we give Python to startup": it expires only for a child that  *)
(* is dead or that waits for a semaphore nobody has released.              *)
(*                                                                         *)
(* A definition X_What is a wrong version of X, never part of Spec: it is  *)
(* put in the place of X to see that a property notices.                   *)
(***************************************************************************)
EXTENDS Integers, FiniteSets

CONSTANTS NumTasks,       \* length of the list of steps
          MaxParallel,    \* max_parallel; 0 stands for None, no semaphore
          HaltOnError,    \* halt_on_error
          MayCrash,       \* children may die on their own (OOM, os._exit)
          MayFailToFork   \* task.start() may raise

ASSUME BackgroundTasksAssumption ==
  /\ NumTasks \in Nat \ {0}
  /\ MaxParallel \in Nat
  /\ HaltOnError \in BOOLEAN
  /\ MayCrash \in BOOLEAN
  /\ MayFailToFork \in BOOLEAN

Tasks == 1 .. NumTasks

VARIABLES
  child,     \* where each child process is
  outcome,   \* how its step ended: the child's local |errors|
  started,   \* the _started event
  killing,   \* the _killing event
  queue,     \* the report the parent has not read yet
  sem,       \* the value of the semaphore
  permit,    \* has the child acquired it and not released it?
  signal,    \* the strongest signal sent to the child
  pc,        \* where the parent is
  cur,       \* the task it launches or waits for
  body,      \* how the body of the with statement ended
  running,   \* Wait's local: was the child alive when last looked at?
  clean,     \* Wait's local exited_cleanly
  errors,    \* the kinds of error Wait collected for each task
  kill       \* the tasks being killed (lo..hi), the next one, the signal

childVars  == <<child, outcome, started, queue, sem, permit>>
parentVars == <<pc, cur, body, running, clean, errors, kill>>
vars == <<childVars, killing, signal, parentVars>>

ChildStates == {"unborn", "acquire", "setup", "running", "check", "put",
                "release", "exiting", "exited", "died"}
Terminal    == {"returned", "failed", "raised"}
ParentSteps == {"launch", "body", "startup", "alive", "get", "silent",
                "join", "finish", "kill_mark", "kill_send", "kill_wait",
                "kill_done"} \cup Terminal
ErrorKinds  == {"task", "unexpected", "exit_timeout", "silent_timeout"}

(* A child that exits is gone; "exited" if it had put its report, "died" if *)
(* it had not.                                                              *)
Dead(t)     == child[t] \in {"exited", "died"}
Reported(t) == child[t] \in {"release", "exiting", "exited"}

NoKill == [lo |-> 1, hi |-> 0, idx |-> 1, sig |-> "none"]

Init ==
  /\ child   = [t \in Tasks |-> "unborn"]
  /\ outcome = [t \in Tasks |-> "none"]
  /\ started = [t \in Tasks |-> FALSE]
  /\ killing = [t \in Tasks |-> FALSE]
  /\ queue   = [t \in Tasks |-> "empty"]
  /\ sem     = MaxParallel
  /\ permit  = [t \in Tasks |-> FALSE]
  /\ signal  = [t \in Tasks |-> "none"]
  /\ pc      = "launch"
  /\ cur     = 1
  /\ body    = "none"
  /\ running = TRUE
  /\ clean   = FALSE
  /\ errors  = [t \in Tasks |-> {}]
  /\ kill    = NoKill

-----------------------------------------------------------------------------
(* The child: run() and _Run().                                             *)

(* A permit is left. *)
Available == sem > 0

(* semaphore.acquire(), skipped when there is no semaphore. *)
ChildAcquire(t) ==
  /\ child[t] = "acquire"
  /\ \/ /\ MaxParallel = 0
        /\ UNCHANGED <<sem, permit>>
     \/ /\ MaxParallel # 0 /\ Available
        /\ sem' = sem - 1
        /\ permit' = [permit EXCEPT ![t] = TRUE]
  /\ child' = [child EXCEPT ![t] = "setup"]
  /\ UNCHANGED <<outcome, started, killing, queue, signal, parentVars>>

(* _Run: install the SIGINT handler, redirect the output, _started.set(). *)
ChildStarted(t) ==
  /\ child[t] = "setup"
  /\ child' = [child EXCEPT ![t] = "running"]
  /\ started' = [started EXCEPT ![t] = TRUE]
  /\ UNCHANGED <<outcome, killing, queue, sem, permit, signal, parentVars>>

(* The step returns, or raises and _Run saves the exception. *)
ChildTaskEnds(t, res) ==
  /\ child[t] = "running"
  /\ child' = [child EXCEPT ![t] = "check"]
  /\ outcome' = [outcome EXCEPT ![t] = res]
  /\ UNCHANGED <<started, killing, queue, sem, permit, signal, parentVars>>

(* run()'s finally: a child that is being killed leaves without a report    *)
(* and without releasing the semaphore.                                     *)
ChildChecksKilling(t) ==
  /\ child[t] = "check"
  /\ child' = [child EXCEPT ![t] = IF killing[t] THEN "died" ELSE "put"]
  /\ UNCHANGED <<outcome, started, killing, queue, sem, permit, signal,
                 parentVars>>

(* self._queue.put((errors, results)); the managed queue is gone once an    *)
(* exception has taken the parent out of its "with Manager()".              *)
ChildPuts(t) ==
  /\ child[t] = "put"
  /\ IF pc = "raised"
     THEN /\ child' = [child EXCEPT ![t] = "died"]
          /\ UNCHANGED queue
     ELSE /\ child' = [child EXCEPT ![t] = "release"]
          /\ queue' = [queue EXCEPT ![t] = outcome[t]]
  /\ UNCHANGED <<outcome, started, killing, sem, permit, signal, parentVars>>

ChildReleases(t) ==
  /\ child[t] = "release"
  /\ child' = [child EXCEPT ![t] = "exiting"]
  /\ sem' = IF permit[t] THEN sem + 1 ELSE sem
  /\ permit' = [permit EXCEPT ![t] = FALSE]
  /\ UNCHANGED <<outcome, started, killing, queue, signal, parentVars>>

ChildExits(t) ==
  /\ child[t] = "exiting"
  /\ child' = [child EXCEPT ![t] = "exited"]
  /\ UNCHANGED <<outcome, started, killing, queue, sem, permit, signal,
                 parentVars>>

(* The process is gone, whatever it was doing. *)
Perish(t) ==
  /\ child' = [child EXCEPT ![t] = IF Reported(t) THEN "exited" ELSE "died"]
  /\ UNCHANGED <<outcome, started, killing, queue, sem, permit, signal,
                 parentVars>>

(* A signal takes effect.  A child may ignore or survive all but SIGKILL.   *)
ChildKilled(t) ==
  /\ signal[t] # "none"
  /\ child[t] # "unborn" /\ ~Dead(t)
  /\ Perish(t)

ChildCrashes(t) ==
  /\ MayCrash
  /\ child[t] # "unborn" /\ ~Dead(t)
  /\ Perish(t)

-----------------------------------------------------------------------------
(* The parent: ParallelTasks.                                               *)

(* task = cls(step, ...); task.start(); bg_tasks.append(task)               *)
LaunchTask ==
  /\ pc = "launch"
  /\ child' = [child EXCEPT ![cur] = "acquire"]
  /\ IF cur = NumTasks
     THEN pc' = "body" /\ UNCHANGED cur
     ELSE cur' = cur + 1 /\ UNCHANGED pc
  /\ UNCHANGED <<outcome, started, killing, queue, sem, permit, signal,
                 body, running, clean, errors, kill>>

(* start() raises outside the try: the tasks already running are neither    *)
(* waited for nor killed.                                                   *)
LaunchFails ==
  /\ MayFailToFork
  /\ pc = "launch"
  /\ pc' = "raised"
  /\ UNCHANGED <<childVars, killing, signal, cur, body, running, clean,
                 errors, kill>>

(* The body of the with statement ends or raises; either way the first task *)
(* is waited for.                                                           *)
BodyEnds(res) ==
  /\ pc = "body"
  /\ body' = res
  /\ pc' = "startup"
  /\ cur' = 1
  /\ UNCHANGED <<childVars, killing, signal, running, clean, errors, kill>>

(* A child nothing but another process can move: it is dead, or it waits    *)
(* for a semaphore that somebody else holds, or held when it died.          *)
CannotStart(t) ==
  \/ Dead(t)
  \/ child[t] = "acquire" /\ MaxParallel # 0 /\ ~Available

(* Wait: self._WaitForStartup() *)
WaitStarted ==
  /\ pc = "startup"
  /\ started[cur]
  /\ pc' = "alive"
  /\ clean' = FALSE
  /\ UNCHANGED <<childVars, killing, signal, cur, body, running,
                 errors, kill>>

(* The assertion of _WaitForStartup fails, in Wait or in Kill; nobody       *)
(* catches it and the tasks still in bg_tasks are left running.             *)
StartupAssertion(t) ==
  /\ ~started[t]
  /\ CannotStart(t)
  /\ pc' = "raised"
  /\ UNCHANGED <<childVars, killing, signal, cur, body, running, clean,
                 errors, kill>>

WaitStartupTimeout == pc = "startup" /\ StartupAssertion(cur)

CheckAlive_SkipsQueue ==
  /\ pc = "alive"
  /\ running' = ~Dead(cur)
  /\ pc' = IF Dead(cur) THEN "join" ELSE "get"
  /\ UNCHANGED <<childVars, killing, signal, cur, body, clean, errors, kill>>

(* running = self.is_alive(), before the queue is read. *)
CheckAlive ==
  /\ pc = "alive"
  /\ running' = ~Dead(cur)
  /\ pc' = "get"
  /\ UNCHANGED <<childVars, killing, signal, cur, body, clean, errors,
                 kill>>

AddError(e) == errors' = [errors EXCEPT ![cur] = @ \cup {e}]

(* self._queue.get(True, PRINT_INTERVAL) returns the child's report. *)
GetReport ==
  /\ pc = "get"
  /\ queue[cur] # "empty"
  /\ queue' = [queue EXCEPT ![cur] = "empty"]
  /\ IF queue[cur] = "err" THEN AddError("task") ELSE UNCHANGED errors
  /\ running' = FALSE
  /\ clean' = TRUE
  /\ pc' = "join"
  /\ UNCHANGED <<child, outcome, started, killing, sem, permit, signal, cur,
                 body, kill>>

(* ... or raises Queue.Empty. *)
GetTimesOut ==
  /\ pc = "get"
  /\ queue[cur] = "empty"
  /\ pc' = IF running THEN "silent" ELSE "join"
  /\ UNCHANGED <<childVars, killing, signal, cur, body, running, clean,
                 errors, kill>>

(* The child is still running and has been heard of lately: loop. *)
KeepPolling ==
  /\ pc = "silent"
  /\ pc' = "alive"
  /\ UNCHANGED <<childVars, killing, signal, cur, body, running, clean,
                 errors, kill>>

StartKilling(lo, hi) ==
  /\ kill' = [lo |-> lo, hi |-> hi, idx |-> lo, sig |-> "INT"]
  /\ pc' = "kill_mark"

(* No output for SILENT_TIMEOUT: record it and self._KillChildren([self]). *)
SilentTimeout ==
  /\ pc = "silent"
  /\ AddError("silent_timeout")
  /\ running' = FALSE
  /\ StartKilling(cur, cur)
  /\ UNCHANGED <<childVars, killing, signal, cur, body, clean>>

NoteExit_Never == UNCHANGED errors

(* "exited unexpectedly", unless the report has been received. *)
NoteExit == IF clean THEN UNCHANGED errors ELSE AddError("unexpected")

(* self.join(EXIT_TIMEOUT): the process has exited ... *)
JoinExited ==
  /\ pc = "join"
  /\ Dead(cur)
  /\ NoteExit
  /\ pc' = "finish"
  /\ UNCHANGED <<childVars, killing, signal, cur, body, running, clean, kill>>

(* ... or not, and self._KillChildren([self]). *)
JoinTimesOut ==
  /\ pc = "join"
  /\ ~Dead(cur)
  /\ AddError("exit_timeout")
  /\ StartKilling(cur, cur)
  /\ UNCHANGED <<childVars, killing, signal, cur, body, running, clean>>

(* halt_on_error breaks out of the loop over the tasks. *)
Halts == HaltOnError /\ errors[cur] # {}

(* A BackgroundFailure, which hides what the body raised, or that exception, *)
(* or a normal return.                                                       *)
Verdict ==
  IF \E t \in Tasks : errors[t] # {} THEN "failed"
  ELSE IF body = "raised" THEN "raised" ELSE "returned"

(* Wait returned: go on with the next task, or break out of the loop and    *)
(* kill what is left, or raise BackgroundFailure, or return.                *)
FinishTask ==
  /\ pc = "finish"
  /\ \/ /\ cur < NumTasks
        /\ ~Halts
        /\ pc' = "startup"
        /\ cur' = cur + 1
        /\ UNCHANGED kill
     \/ /\ cur < NumTasks
        /\ Halts
        /\ StartKilling(cur + 1, NumTasks)
        /\ UNCHANGED cur
     \/ /\ cur = NumTasks
        /\ pc' = Verdict
        /\ UNCHANGED <<cur, kill>>
  /\ UNCHANGED <<childVars, killing, signal, body, running, clean, errors>>

-----------------------------------------------------------------------------
(* The parent: _KillChildren and Kill.                                      *)

(* Kill: self._killing.set() *)
KillMark ==
  /\ pc = "kill_mark"
  /\ killing' = [killing EXCEPT ![kill.idx] = TRUE]
  /\ pc' = "kill_send"
  /\ UNCHANGED <<childVars, signal, cur, body, running, clean,
                 errors, kill>>

(* Kill: self._WaitForStartup(); os.kill(self.pid, sig) *)
KillSend ==
  /\ pc = "kill_send"
  /\ started[kill.idx]
  /\ signal' = [signal EXCEPT ![kill.idx] = kill.sig]
  /\ IF kill.idx < kill.hi
     THEN /\ kill' = [kill EXCEPT !.idx = @ + 1]
          /\ pc' = "kill_mark"
     ELSE /\ pc' = "kill_wait"
          /\ UNCHANGED kill
  /\ UNCHANGED <<childVars, killing, cur, body, running, clean, errors>>

KillStartupTimeout == pc = "kill_send" /\ StartupAssertion(kill.idx)

(* task = bg_tasks[-1]; task.join(time_left); bg_tasks.pop() *)
KillPop ==
  /\ pc = "kill_wait"
  /\ kill.sig # "KILL"
  /\ Dead(kill.hi)
  /\ kill' = [kill EXCEPT !.hi = @ - 1]
  /\ pc' = IF kill.lo = kill.hi THEN "kill_done" ELSE "kill_wait"
  /\ UNCHANGED <<childVars, killing, signal, cur, body, running, clean, errors>>

(* SIGINT, then SIGTERM, then SIGKILL. *)
NextSignal_NeverKill == "TERM"
NextSignal == IF kill.sig = "INT" THEN "TERM" ELSE "KILL"

(* The timeout expires with tasks left: the next signal, to all of them. *)
KillEscalates ==
  /\ pc = "kill_wait"
  /\ kill.sig # "KILL"
  /\ kill' = [kill EXCEPT !.idx = kill.lo,
                          !.sig = NextSignal]
  /\ pc' = "kill_mark"
  /\ UNCHANGED <<childVars, killing, signal, cur, body, running, clean, errors>>

(* Every task that was to be killed is gone. *)
AllKilled_NoJoin   == TRUE
AllKilled_JoinLast == Dead(kill.hi)
AllKilled == \A t \in kill.lo .. kill.hi : Dead(t)

(* After SIGKILL: join them all, however long it takes. *)
KillJoins ==
  /\ pc = "kill_wait"
  /\ kill.sig = "KILL"
  /\ AllKilled
  /\ pc' = "kill_done"
  /\ UNCHANGED <<childVars, killing, signal, cur, body, running, clean,
                 errors, kill>>

(* Back in Wait with its one task dead, or at the end of ParallelTasks. *)
KillReturns ==
  /\ pc = "kill_done"
  /\ pc' = IF kill.lo = cur THEN "finish" ELSE "failed"
  /\ kill' = NoKill
  /\ UNCHANGED <<childVars, killing, signal, cur, body, running, clean, errors>>

-----------------------------------------------------------------------------
ChildStep(t) ==
  \/ ChildAcquire(t)
  \/ ChildStarted(t)
  \/ ChildTaskEnds(t, "ok")
  \/ ChildTaskEnds(t, "err")
  \/ ChildChecksKilling(t)
  \/ ChildPuts(t)
  \/ ChildReleases(t)
  \/ ChildExits(t)
  \/ ChildKilled(t)
  \/ ChildCrashes(t)

WaitStep ==
  \/ WaitStarted
  \/ WaitStartupTimeout
  \/ CheckAlive
  \/ GetReport
  \/ GetTimesOut
  \/ KeepPolling
  \/ SilentTimeout
  \/ JoinExited
  \/ JoinTimesOut
  \/ FinishTask

KillStep ==
  \/ KillMark
  \/ KillSend
  \/ KillStartupTimeout
  \/ KillPop
  \/ KillEscalates
  \/ KillJoins
  \/ KillReturns

ParentStep ==
  \/ LaunchTask
  \/ LaunchFails
  \/ BodyEnds("ok")
  \/ BodyEnds("raised")
  \/ WaitStep
  \/ KillStep

(* Only when the parent has left and no child is on its way may all stop. *)
Done ==
  /\ pc \in Terminal
  /\ UNCHANGED vars

Next ==
  \/ \E t \in Tasks : ChildStep(t)
  \/ ParentStep
  \/ Done

Spec == Init /\ [][Next]_vars

(* What must happen: the parent's own steps; the steps of a child outside   *)
(* its task, which are a few lines of Python; the death of a child that was *)
(* sent SIGKILL.  A task may run for ever and a child may hang at exit: no  *)
(* fairness there.  A parent that polls a hung child for ever does not also *)
(* hear from it, so that its SilentTimeout is due again and again.          *)
Fairness ==
  /\ WF_vars(ParentStep)
  /\ SF_vars(SilentTimeout)
  /\ \A t \in Tasks :
       /\ WF_vars(ChildAcquire(t) \/ ChildStarted(t))
       /\ WF_vars(ChildChecksKilling(t) \/ ChildPuts(t) \/ ChildReleases(t))
       /\ WF_vars(signal[t] = "KILL" /\ ChildKilled(t))

FairSpec == Spec /\ Fairness

-----------------------------------------------------------------------------
KillRecords == [lo : 1 .. NumTasks + 1, hi : 0 .. NumTasks,
                idx : 1 .. NumTasks,
                sig : {"none", "INT", "TERM", "KILL"}]

(* Every variable has its type. *)
TypeOK ==
  /\ child \in [Tasks -> ChildStates]
  /\ outcome \in [Tasks -> {"none", "ok", "err"}]
  /\ started \in [Tasks -> BOOLEAN]
  /\ killing \in [Tasks -> BOOLEAN]
  /\ queue \in [Tasks -> {"empty", "ok", "err"}]
  /\ sem \in 0 .. MaxParallel
  /\ permit \in [Tasks -> BOOLEAN]
  /\ signal \in [Tasks -> {"none", "INT", "TERM", "KILL"}]
  /\ pc \in ParentSteps
  /\ cur \in Tasks
  /\ body \in {"none", "ok", "raised"}
  /\ running \in BOOLEAN
  /\ clean \in BOOLEAN
  /\ errors \in [Tasks -> SUBSET ErrorKinds]
  /\ kill \in KillRecords

(* A call that returns normally has not swallowed a failure: every task ran *)
(* to its end without an exception, reported it, and its process is gone,   *)
(* whatever crashed, hung or was slow meanwhile.                            *)
ReturnMeansSuccess ==
  pc = "returned" =>
    \A t \in Tasks : child[t] = "exited" /\ outcome[t] = "ok"

(* When ParallelTasks returns or raises BackgroundFailure no child process  *)
(* is left behind, hung children and those behind them in the list included.*)
NoOrphans ==
  pc \in {"returned", "failed"} => \A t \in Tasks : Dead(t)

(* A child that put its report is never declared to have exited             *)
(* unexpectedly, even if it put it and exited while the parent was between  *)
(* its look at the process and its look at the queue.                       *)
ReportHonoured ==
  \A t \in Tasks : "unexpected" \in errors[t] => child[t] = "died"

(* With max_parallel, at most that many children are in the part of run()   *)
(* that the semaphore guards, crashes and kills notwithstanding.            *)
AtMostMaxParallel ==
  MaxParallel # 0 =>
    Cardinality({t \in Tasks : child[t] \in {"setup", "running", "check",
                                             "put", "release"}})
      <= MaxParallel

(* halt_on_error: the failure raised carries the errors of one task only.   *)
HaltSquelches ==
  HaltOnError =>
    \A t, u \in Tasks : errors[t] # {} /\ errors[u] # {} => t = u

(* The parent leaves in the end, even if every child hangs. *)
Termination == <>(pc \in Terminal)

(* "This function blocks until all steps are completed": however the call   *)
(* ends, the steps have ended too.                                          *)
BlocksUntilCompleted ==
  pc \in Terminal => \A t \in Tasks : Dead(t)

(* ParallelTasks keeps the promise of ParallelSteps.                        *)
StatusOf(t) ==
  IF {"exit_timeout", "silent_timeout"} \cap errors[t] # {} THEN "failed"
  ELSE IF ~Dead(t) THEN "pending"
  ELSE IF child[t] = "exited" /\ outcome[t] = "ok" THEN "ok" ELSE "failed"

Promise == INSTANCE ParallelSteps WITH
  status <- [t \in Tasks |-> StatusOf(t)],
  call   <- IF pc \in Terminal THEN pc ELSE "running"

KeepsPromise == Promise!Spec
=============================================================================
