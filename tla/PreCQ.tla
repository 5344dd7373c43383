------------------------------- MODULE PreCQ -------------------------------
(***************************************************************************)
(* The Pre-CQ: PreCQLauncherStage of cbuildbot/stages/sync_stages.py,      *)
(* which looks at the changes marked ready and starts a trybot for those   *)
(* that need one, the trybots (PreCQSyncStage, PreCQCompletionStage), and  *)
(* the status of each patch set, a file in Google Storage that all of them *)
(* read and then write, with nothing to keep another write from coming in  *)
(* between.                                                                *)
(*                                                                         *)
(* Trybots start late or never, hang, die and report when nobody waits for *)
(* them any more.  Developers upload patch sets and mark changes as ready. *)
(* The launcher is restarted, now and then, and forgets what it knew.      *)
(***************************************************************************)
EXTENDS Naturals, FiniteSets

CONSTANTS
  Changes,
  Needs,         \* Needs[c]: the changes c cannot be tested without
  MaxPatchSets,  \* bound: patch sets of a change
  Trybots,       \* bound: trybots that run, or still may
  Disturbances   \* bound for each change: uploads, marks as ready, failures
                 \* not blamed on it, and restarts of the launcher

ASSUME PreCQAssumption ==
  /\ IsFiniteSet(Changes)
  /\ Needs \in [Changes -> SUBSET Changes]
  /\ MaxPatchSets \in Nat \ {0}
  /\ Disturbances \in Nat

PatchSets == 1 .. MaxPatchSets

Statuses == {"none", "launching", "inflight", "passed", "failed", "waiting"}

VARIABLES
  patch,      \* the latest patch set of each change
  ready,      \* the changes marked as ready
  status,     \* GetCLStatus of each patch set
  pc,         \* where the launcher is
  pool,       \* the patch sets that its loop is about, 0 for none
  todo,       \* changes GetPreCQStatus has not looked at yet
  busy, passed,
  launching,  \* changes whose launch is being timed
  inflight,   \* changes whose trybot is being timed
  retried,
  writing,    \* the status it is about to write: a change and the status
  plans,      \* the plans it has not launched yet
  marking,    \* changes of the launched plan not marked as launching yet
  trybot,     \* the trybots
  left,       \* disturbances left for each change
  tested,     \* patch sets that were part of a successful trybot run
  launches,   \* how often each change was launched: 0, 1 or more
  excused     \* changes that may be in two trybots at once

gerritVars == <<patch, ready>>
timeVars == <<launching, inflight, retried>>
loopVars == <<pool, todo, busy, passed>>
launchVars == <<plans, marking>>
historyVars == <<tested, launches, excused>>
vars == <<gerritVars, status, pc, timeVars, loopVars, writing, launchVars,
          trybot, left, historyVars>>

Free == [pc |-> "free", at |-> [c \in {} |-> 0], todo |-> {}, late |-> {}]

Nothing == [c \in Changes |-> 0]

Init ==
  /\ patch = [c \in Changes |-> 1]
  /\ ready \in SUBSET Changes
  /\ status = [c \in Changes |-> [p \in PatchSets |-> "none"]]
  /\ pc = "query"
  /\ pool = Nothing /\ todo = {} /\ busy = {} /\ passed = {}
  /\ launching = {} /\ inflight = {} /\ retried = {}
  /\ writing = <<>>
  /\ plans = {} /\ marking = {}
  /\ trybot = [t \in Trybots |-> Free]
  /\ left \in [Changes -> 0 .. Disturbances]
  /\ tested = {} /\ launches = [c \in Changes |-> 0] /\ excused = {}

Disturb(c) ==
  /\ left[c] > 0
  /\ left' = [left EXCEPT ![c] = @ - 1]

Pool == {c \in Changes : pool[c] # 0}

StatusOf(c) == status[c][pool[c]]

(* A set of changes that has nothing to do with the others in |among|. *)
Apart(set, among) ==
  \A c, d \in among : d \in Needs[c] => (c \in set <=> d \in set)

Groups(among) ==
  {group \in (SUBSET among) \ {{}} :
     /\ Apart(group, among)
     /\ \A part \in (SUBSET group) \ {{}, group} : ~Apart(part, among)}

(* The launcher stops waiting for the trybot that c is in. *)
Excuse(c) == excused' = excused \cup {c}

-----------------------------------------------------------------------------
(* Developers.                                                              *)

(* A new patch set is not ready, has no status, and is what a trybot that   *)
(* has not started yet will test.                                           *)
Upload(c) ==
  /\ Disturb(c)
  /\ patch[c] < MaxPatchSets
  /\ patch' = [patch EXCEPT ![c] = @ + 1]
  /\ ready' = ready \ {c}
  /\ excused' = excused \cup {c}
  /\ UNCHANGED <<status, pc, timeVars, loopVars, writing, launchVars, trybot,
                 tested, launches>>

MarkReady(c) ==
  /\ Disturb(c)
  /\ c \notin ready
  /\ ready' = ready \cup {c}
  /\ UNCHANGED <<patch, status, pc, timeVars, loopVars, writing, launchVars,
                 trybot, historyVars>>

-----------------------------------------------------------------------------
(* The launcher: AcquirePool's loop and GetPreCQStatus.                     *)

Query ==
  /\ pc = "query"
  /\ pool' = [c \in Changes |-> IF c \in ready THEN patch[c] ELSE 0]
  /\ todo' = ready
  /\ busy' = {} /\ passed' = {}
  /\ pc' = "look"
  /\ UNCHANGED <<gerritVars, status, timeVars, writing, launchVars, trybot,
                 left, historyVars>>

Clocks_Restart(c, s) ==
  launching' = launching \ {c} /\ inflight' = inflight \ {c}

(* The clocks of a change that is no longer launching, or no longer         *)
(* inflight, are forgotten; the others run.                                 *)
Clocks(c, s) ==
  /\ launching' = IF s = "launching" THEN launching \cup {c} ELSE launching \ {c}
  /\ inflight' = IF s = "inflight" THEN inflight \cup {c} ELSE inflight \ {c}

Busy_NotInflight(s) == s \in {"launching", "failed"}
Busy(s) == s \in {"launching", "inflight", "failed"}

Look(c) ==
  /\ pc = "look"
  /\ c \in todo
  /\ todo' = todo \ {c}
  /\ Clocks(c, StatusOf(c))
  /\ busy' = IF Busy(StatusOf(c)) THEN busy \cup {c} ELSE busy
  /\ passed' = IF StatusOf(c) = "passed" THEN passed \cup {c} ELSE passed
  /\ UNCHANGED <<patch, status, pool, launchVars, trybot, left, tested,
                 launches>>

(* The trybot has not started or not ended in time: 30 minutes, 120 minutes.*)
GivesUp_AtOnce(c) == TRUE
GivesUp(c) == c \in retried

LaunchTimesOut(c) ==
  /\ Look(c)
  /\ StatusOf(c) = "launching" /\ c \in launching
  /\ pc' = "write"
  /\ Excuse(c)
  /\ IF GivesUp(c)
     THEN /\ writing' = <<c, "failed">>
          /\ ready' = ready \ {c}
          /\ retried' = retried \ {c}
     ELSE /\ writing' = <<c, "waiting">>
          /\ retried' = retried \cup {c}
          /\ UNCHANGED ready

InflightTimesOut(c) ==
  /\ Look(c)
  /\ StatusOf(c) = "inflight" /\ c \in inflight
  /\ writing' = <<c, "failed">>
  /\ ready' = ready \ {c}
  /\ pc' = "write"
  /\ Excuse(c)
  /\ UNCHANGED retried

(* Failed and yet ready: the bot that failed it may only be slow to say so. *)
SeesFailed(c) ==
  /\ Look(c)
  /\ StatusOf(c) = "failed"
  /\ writing' = <<c, "waiting">>
  /\ pc' = "write"
  /\ UNCHANGED <<ready, retried, excused>>

JustLooks(c) ==
  /\ Look(c)
  /\ StatusOf(c) # "failed"
  /\ UNCHANGED <<pc, ready, retried, writing, excused>>

Write ==
  /\ pc = "write"
  /\ LET c == writing[1]
     IN status' = [status EXCEPT ![c][pool[c]] = writing[2]]
  /\ writing' = <<>>
  /\ pc' = "look"
  /\ UNCHANGED <<gerritVars, timeVars, loopVars, launchVars, trybot, left,
                 historyVars>>

-----------------------------------------------------------------------------
(* The launcher: GetDisjointTransactionsToTest and LaunchTrybot.            *)

(* Changes whose dependencies are in the pool too. *)
Resolved ==
  UNION {set \in SUBSET Pool : \A c \in set : Needs[c] \subseteq set}

Plans == Groups(Resolved)

ToTest(plan) == ~(plan \subseteq passed) /\ plan \cap busy = {}

(* Changes whose dependencies are not ready lose their mark, once a period  *)
(* of grace is over.                                                        *)
PlanRefusing(refused) ==
  /\ pc = "look" /\ todo = {}
  /\ plans' = {plan \in Plans : ToTest(plan)}
  /\ ready' = ready \ refused
  /\ pc' = "launch"
  /\ UNCHANGED <<patch, status, timeVars, loopVars, writing, marking, trybot,
                 left, historyVars>>

Plan == \E refused \in SUBSET (Pool \ Resolved) : PlanRefusing(refused)

(* A trybot is asked for; or it is one that will never start.               *)
Queued(plan) ==
  [pc |-> "queued", at |-> [c \in plan |-> 0], todo |-> {}, late |-> {}]

Launch(plan) ==
  /\ pc = "launch"
  /\ plan \in plans
  /\ plans' = plans \ {plan}
  /\ marking' = plan
  /\ \/ UNCHANGED trybot
     \/ \E t \in Trybots :
          /\ trybot[t] = Free
          /\ trybot' = [trybot EXCEPT ![t] = Queued(plan)]
  /\ launches' = [c \in Changes |->
                    IF c \in plan /\ launches[c] < 2 THEN launches[c] + 1
                                                     ELSE launches[c]]
  /\ pc' = "mark"
  /\ UNCHANGED <<gerritVars, status, timeVars, loopVars, writing, left, tested,
                 excused>>

(* One by one its changes are looked at and, a little later, marked. *)
Mark(c) ==
  /\ pc = "mark" /\ writing = <<>>
  /\ c \in marking
  /\ marking' = marking \ {c}
  /\ writing' = IF StatusOf(c) = "passed" THEN writing
                                          ELSE <<c, "launching">>
  /\ UNCHANGED <<gerritVars, status, pc, timeVars, loopVars, plans, trybot,
                 left, historyVars>>

WriteMark ==
  /\ pc = "mark" /\ writing # <<>>
  /\ LET c == writing[1]
     IN status' = [status EXCEPT ![c][pool[c]] = writing[2]]
  /\ writing' = <<>>
  /\ UNCHANGED <<gerritVars, pc, timeVars, loopVars, launchVars, trybot, left,
                 historyVars>>

Marked ==
  /\ pc = "mark" /\ writing = <<>> /\ marking = {}
  /\ pc' = "launch"
  /\ UNCHANGED <<gerritVars, status, timeVars, loopVars, writing, launchVars,
                 trybot, left, historyVars>>

LoopEnds ==
  /\ pc = "launch" /\ plans = {}
  /\ pc' = "query"
  /\ pool' = Nothing /\ busy' = {} /\ passed' = {}
  /\ UNCHANGED <<gerritVars, status, timeVars, todo, writing, launchVars,
                 trybot, left, historyVars>>

(* The changes of a plan that was launched and that are not marked yet. *)
Unmarked == marking \cup {c \in Changes : writing = <<c, "launching">>}

(* The stage ends, at its timeout or by an exception, and another begins.   *)
Restart ==
  /\ \E c \in Changes : Disturb(c)
  /\ pc' = "query"
  /\ pool' = Nothing /\ todo' = {} /\ busy' = {} /\ passed' = {}
  /\ launching' = {} /\ inflight' = {} /\ retried' = {}
  /\ writing' = <<>> /\ plans' = {} /\ marking' = {}
  /\ excused' = excused \cup Unmarked
  /\ UNCHANGED <<gerritVars, status, trybot, tested, launches>>

-----------------------------------------------------------------------------
(* Trybots.                                                                 *)

Becomes(t, where, at, ahead, late) ==
  trybot' = [trybot EXCEPT ![t] =
               IF where # "applied" /\ ahead = {} /\ late = {} THEN Free
               ELSE [pc |-> where, at |-> at, todo |-> ahead, late |-> late]]

launcherVars == <<pc, timeVars, loopVars, writing, launchVars, launches>>

Members(t) == DOMAIN trybot[t].at

(* It starts with the latest patch sets, and tries to apply them: changes   *)
(* that conflict with the tree are no longer ready, those that conflict     *)
(* with one another are left for another run.                               *)
Apply(t) ==
  /\ trybot[t].pc = "queued"
  /\ \E applied \in SUBSET Members(t) :
       /\ \A c \in applied : Needs[c] \cap Members(t) \subseteq applied
       /\ \E rejected \in SUBSET (Members(t) \ applied) :
            ready' = ready \ rejected
       /\ IF applied = {}
          THEN trybot' = [trybot EXCEPT ![t] = Free]
          ELSE Becomes(t, "applied", [c \in applied |-> patch[c]], applied, {})
  /\ UNCHANGED <<patch, status, launcherVars, left, tested, excused>>

(* _HandleApplySuccess, in a process for each change. *)
SeesApplied(t, c) ==
  /\ trybot[t].pc = "applied"
  /\ c \in trybot[t].todo
  /\ LET at == trybot[t].at
         late == IF status[c][at[c]] = "launching" THEN {c} ELSE {}
     IN Becomes(t, "applied", at, trybot[t].todo \ {c}, trybot[t].late \cup late)
  /\ UNCHANGED <<gerritVars, status, launcherVars, left, tested, excused>>

WritesInflight(t, c) ==
  /\ trybot[t].pc = "applied"
  /\ c \in trybot[t].late
  /\ status' = [status EXCEPT ![c][trybot[t].at[c]] = "inflight"]
  /\ Becomes(t, "applied", trybot[t].at, trybot[t].todo, trybot[t].late \ {c})
  /\ UNCHANGED <<gerritVars, launcherVars, left, tested, excused>>

Done(t) ==
  trybot[t].pc = "applied" /\ trybot[t].todo = {} /\ trybot[t].late = {}

(* The patch sets that a successful run vouches for. *)
Verified_Reloaded(t) == [c \in Members(t) |-> patch[c]]
Verified(t) == trybot[t].at

Succeeds(t) ==
  /\ Done(t)
  /\ tested' = tested \cup {<<c, trybot[t].at[c]>> : c \in Members(t)}
  /\ Becomes(t, "passing", Verified(t), Members(t), {})
  /\ UNCHANGED <<gerritVars, status, launcherVars, left, excused>>

WritesPassed(t, c) ==
  /\ trybot[t].pc = "passing"
  /\ c \in trybot[t].todo
  /\ status' = [status EXCEPT ![c][trybot[t].at[c]] = "passed"]
  /\ Becomes(t, "passing", trybot[t].at, trybot[t].todo \ {c}, {})
  /\ UNCHANGED <<gerritVars, launcherVars, left, tested, excused>>

(* HandleValidationFailure: the latest patch sets are looked up and, unless *)
(* they have passed, turned down; the suspects are no longer ready.         *)
Fails(t) ==
  /\ Done(t)
  /\ LET candidates == {c \in Members(t) : status[c][patch[c]] # "passed"}
     IN \E suspects \in SUBSET candidates :
          /\ left' = [c \in Changes |-> IF c \in candidates \ suspects
                                       THEN left[c] - 1 ELSE left[c]]
          /\ \A c \in candidates \ suspects : left[c] > 0
          /\ ready' = ready \ suspects
          /\ Becomes(t, "failing", [c \in candidates |-> patch[c]], {},
                     candidates)
  /\ UNCHANGED <<patch, status, launcherVars, tested, excused>>

WritesFailed(t, c) ==
  /\ trybot[t].pc = "failing"
  /\ c \in trybot[t].late
  /\ status' = [status EXCEPT ![c][trybot[t].at[c]] = "failed"]
  /\ Becomes(t, "failing", trybot[t].at, {}, trybot[t].late \ {c})
  /\ UNCHANGED <<gerritVars, launcherVars, left, tested, excused>>

-----------------------------------------------------------------------------
LauncherStep ==
  \/ Query \/ Plan \/ Write \/ WriteMark \/ Marked \/ LoopEnds
  \/ \E c \in Changes :
       \/ LaunchTimesOut(c) \/ InflightTimesOut(c) \/ SeesFailed(c)
       \/ JustLooks(c) \/ Mark(c)
  \/ \E plan \in plans : Launch(plan)

TrybotStep(t) ==
  \/ Apply(t) \/ Succeeds(t) \/ Fails(t)
  \/ \E c \in Changes :
       \/ SeesApplied(t, c) \/ WritesInflight(t, c)
       \/ WritesPassed(t, c) \/ WritesFailed(t, c)

Next ==
  \/ LauncherStep
  \/ \E t \in Trybots : TrybotStep(t)
  \/ \E c \in Changes : Upload(c) \/ MarkReady(c)
  \/ Restart

(* Something that is overdue. *)
TimesUp ==
  \/ \E c \in Changes : LaunchTimesOut(c) \/ InflightTimesOut(c)
  \/ Pool # Resolved /\ PlanRefusing(Pool \ Resolved)

(* The launcher's loop runs, and time passes; nothing is asked of trybots.  *)
Fairness == WF_vars(LauncherStep) /\ SF_vars(TimesUp)

Spec == Init /\ [][Next]_vars /\ Fairness

-----------------------------------------------------------------------------
(* The patch sets that some changes were tested at, 0 before they are known.*)
Tested == UNION {[group -> 0 .. MaxPatchSets] : group \in SUBSET Changes}

TrybotRecords ==
  [pc : {"free", "queued", "applied", "passing", "failing"}, at : Tested,
   todo : SUBSET Changes, late : SUBSET Changes]

(* Every variable has its type. *)
TypeOK ==
  /\ patch \in [Changes -> PatchSets]
  /\ ready \subseteq Changes
  /\ status \in [Changes -> [PatchSets -> Statuses]]
  /\ pc \in {"query", "look", "write", "launch", "mark"}
  /\ pool \in [Changes -> 0 .. MaxPatchSets]
  /\ todo \subseteq Pool /\ busy \subseteq Pool /\ passed \subseteq Pool
  /\ launching \subseteq Changes /\ inflight \subseteq Changes
  /\ retried \subseteq Changes
  /\ writing = <<>> \/ writing \in Pool \X Statuses
  /\ plans \subseteq SUBSET Pool
  /\ marking \subseteq Pool
  /\ trybot \in [Trybots -> TrybotRecords]
  /\ left \in [Changes -> 0 .. Disturbances]
  /\ tested \subseteq Changes \X PatchSets
  /\ launches \in [Changes -> 0 .. 2]
  /\ excused \subseteq Changes

(* A patch set that is marked as passed was itself part of a trybot run     *)
(* that succeeded, whatever was uploaded during the run and whoever else    *)
(* wrote the status: HandlePreCQSuccess.                                    *)
PassedWasTested ==
  \A c \in Changes, p \in PatchSets :
    status[c][p] = "passed" => <<c, p>> \in tested

(* The changes that a trybot may still report on. *)
InTest(t) ==
  CASE trybot[t].pc = "passing" -> trybot[t].todo
    [] trybot[t].pc = "failing" -> trybot[t].late
    [] OTHER -> Members(t)

(* "If any of the CLs in the plan are currently "busy" being tested, wait   *)
(* until they're done before launching our trybot run": a change that has   *)
(* not passed is in two trybots at a time only if a newer patch set was     *)
(* uploaded, the launcher stopped waiting for one of them, or was restarted *)
(* before it had marked the change.  One that has passed is never busy, and *)
(* is tested again with every other change that needs it.                   *)
DuplicatesExcused ==
  \A t, u \in Trybots :
    t # u => \A c \in InTest(t) \cap InTest(u) :
               c \in excused \/ status[c][patch[c]] = "passed"

(* "Try the change again": a change is not turned down because no trybot    *)
(* started for it unless it has been launched twice.                        *)
LaunchedTwice ==
  [][\A c \in Pool :
       /\ writing = <<>> /\ writing' = <<c, "failed">>
       /\ StatusOf(c) = "launching"
       => launches[c] >= 2]_vars

(* In the end, when the developers have done what they do, every change has *)
(* passed or is not ready any more, although trybots do not start, hang or  *)
(* report late.                                                             *)
Settles ==
  \A c \in Changes : <>[](c \notin ready \/ status[c][patch[c]] = "passed")
=============================================================================
