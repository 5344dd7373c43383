---------------------------- MODULE EmergeQueue ----------------------------
(***************************************************************************)
(* EmergeQueue of scripts/parallel_emerge.py, and the breaking of cycles   *)
(* that precedes it (SanitizeTree): a main loop that schedules packages    *)
(* along their dependencies onto pools of fetchers, builders and, with     *)
(* --unpackonly, unpackers, retries each failed package once, and gives up *)
(* when it has nothing to wait for.                                        *)
(*                                                                         *)
(* A package is named by its place in emerge's install plan, its "idx".    *)
(* In which order packages of equal standing leave a ScoredHeap, the load  *)
(* of the machine, how long a job takes and whether it succeeds are open.  *)
(* The messages that a job has started only serve the output.              *)
(***************************************************************************)
EXTENDS Integers, FiniteSets, Sequences

CONSTANTS NumPackages,
          Jobs             \* --jobs

ASSUME EmergeAssumption ==
  /\ NumPackages \in Nat \ {0}
  /\ Jobs \in Nat \ {0}

Packages == 1 .. NumPackages

VARIABLES
  needs,       \* deps_map[p]["needs"]: what is still to come before p
  provides,    \* deps_map[p]["provides"]: what waits for p
  action,      \* "merge", or "nomerge" for what is installed already
  unpackOnly,  \* --unpackonly
  left,        \* the packages in deps_map
  fetchReady, buildReady, unpackReady,   \* the heaps
  fetchJobs, buildJobs, unpackJobs,      \* given to a worker, not handled yet
  prefetched,  \* packages that went through a fetcher
  retryQueue, failed,
  reports,     \* what workers have put on the job queue
  needed,      \* _ScheduleLoop's needed_jobs
  polling,     \* was _ScheduleLoop called while waiting for a report?
  pc

graphVars == <<needs, provides, left>>
fetchVars == <<fetchReady, fetchJobs, prefetched>>
buildVars == <<buildReady, buildJobs, retryQueue, failed>>
unpackVars == <<unpackReady, unpackJobs>>
modeVars == <<action, unpackOnly>>
vars == <<graphVars, fetchVars, buildVars, unpackVars, modeVars, reports,
          needed, polling, pc>>

Least(a, b) == IF a < b THEN a ELSE b

(* As many workers of each kind as there are packages to merge, --jobs at   *)
(* most and one at least.                                                   *)
Procs ==
  LET total == Cardinality({p \in Packages : action[p] = "merge"})
  IN IF total = 0 THEN 1 ELSE Least(total, Jobs)

Init ==
  /\ needs \in [Packages -> SUBSET Packages]
  /\ provides = [p \in Packages |-> {d \in Packages : p \in needs[d]}]
  /\ action \in [Packages -> {"merge", "nomerge"}]
  /\ unpackOnly \in BOOLEAN
  /\ left = Packages
  /\ fetchReady = Packages /\ buildReady = {} /\ unpackReady = {}
  /\ fetchJobs = {} /\ buildJobs = {} /\ unpackJobs = {}
  /\ prefetched = {} /\ failed = {} /\ retryQueue = <<>>
  /\ reports = {}
  /\ needed = 0 /\ polling = FALSE
  /\ pc = "sanitize"

-----------------------------------------------------------------------------
(* GenDependencyGraph: SanitizeTree.                                        *)

Edges == {e \in Packages \X Packages : e[2] \in needs[e[1]]}

Closed(set, edges) == \A e \in edges : e[1] \in set => e[2] \in set

Reaches(a, b, edges) ==
  \A set \in SUBSET Packages : a \in set /\ Closed(set, edges) => b \in set

(* What FindCycles may return: the edges of one or more cycles. *)
CycleSets ==
  {edges \in (SUBSET Edges) \ {{}} :
     \A e \in edges : Reaches(e[2], e[1], edges)}

(* The edges of the cycles that go against the install plan. *)
Against_NotSelf(edges) == {e \in edges : e[2] > e[1]}
Against(edges) == {e \in edges : e[2] >= e[1]}

BreakCycles ==
  /\ pc = "sanitize"
  /\ \E edges \in CycleSets :
       LET cut == Against(edges)
       IN /\ needs' = [p \in Packages |->
                         {d \in needs[p] : <<p, d>> \notin cut}]
          /\ provides' = [p \in Packages |->
                            {d \in provides[p] : <<d, p>> \notin cut}]
  /\ UNCHANGED <<left, fetchVars, buildVars, unpackVars, modeVars, reports,
                 needed, polling, pc>>

(* No cycles are left; Run starts the fetchers. *)
StartFetchers ==
  /\ pc = "sanitize"
  /\ CycleSets = {}
  /\ \E first \in SUBSET fetchReady :
       /\ Cardinality(first) = Least(Procs, Cardinality(fetchReady))
       /\ fetchJobs' = first
       /\ fetchReady' = fetchReady \ first
  /\ pc' = "check"
  /\ UNCHANGED <<graphVars, prefetched, buildVars, unpackVars, modeVars,
                 reports, needed, polling>>

-----------------------------------------------------------------------------
(* The workers.                                                             *)

WorkerReports(kind, jobs, p, ok) ==
  /\ p \in jobs
  /\ \A r \in reports : ~(r.kind = kind /\ r.target = p)
  /\ reports' = reports \cup {[kind |-> kind, target |-> p, ok |-> ok]}
  /\ UNCHANGED <<graphVars, fetchVars, buildVars, unpackVars, modeVars,
                 needed, polling, pc>>

WorkerStep(p) ==
  \E ok \in BOOLEAN :
    \/ WorkerReports("fetch", fetchJobs, p, ok)
    \/ WorkerReports("build", buildJobs, p, ok)
    \/ WorkerReports("unpack", unpackJobs, p, ok)

-----------------------------------------------------------------------------
(* _Finish: what waited for the target and has been fetched may be built.   *)

Unblocked_StillNeeding(p) == provides[p] \cap prefetched
Unblocked(p) == {d \in provides[p] : needs[d] \subseteq {p} /\ d \in prefetched}

Finish(p) ==
  /\ needs' = [d \in Packages |->
                 IF d \in provides[p] THEN needs[d] \ {p} ELSE needs[d]]
  /\ left' = left \ {p}
  /\ UNCHANGED provides

(* The workers that _ScheduleLoop may use: one if the load is too high.     *)
BeginSchedule(whilePolling) ==
  /\ needed' \in {1, Procs}
  /\ polling' = whilePolling
  /\ pc' = "schedule"

-----------------------------------------------------------------------------
(* Run: is there something to wait for?                                     *)

Idle_IgnoringFetchers ==
  buildJobs = {} /\ buildReady = {} /\ unpackJobs = {} /\ unpackReady = {}
Idle ==
  /\ fetchJobs = {} /\ fetchReady = {}
  /\ buildJobs = {} /\ buildReady = {}
  /\ unpackJobs = {} /\ unpackReady = {}

(* _Retry, which puts a package back only while nothing else is retried.    *)
Retry ==
  /\ buildJobs' = buildJobs \cup {Head(retryQueue)}
  /\ retryQueue' = Tail(retryQueue)

CheckDone ==
  /\ pc = "check"
  /\ left = {}
  /\ pc' = "done"
  /\ UNCHANGED <<graphVars, fetchVars, buildVars, unpackVars, modeVars,
                 reports, needed, polling>>

CheckBusy ==
  /\ pc = "check"
  /\ left # {} /\ ~Idle
  /\ pc' = "wait"
  /\ UNCHANGED <<graphVars, fetchVars, buildVars, unpackVars, modeVars,
                 reports, needed, polling>>

CheckRetries ==
  /\ pc = "check"
  /\ left # {} /\ Idle
  /\ retryQueue # <<>>
  /\ Retry
  /\ pc' = "wait"
  /\ UNCHANGED <<graphVars, fetchVars, buildReady, failed, unpackVars,
                 modeVars, reports, needed, polling>>

(* sys.exit(1), having told the user why. *)
CheckGivesUp ==
  /\ pc = "check"
  /\ left # {} /\ Idle
  /\ retryQueue = <<>>
  /\ pc' = IF failed # {} THEN "failed" ELSE "deadlock"
  /\ UNCHANGED <<graphVars, fetchVars, buildVars, unpackVars, modeVars,
                 reports, needed, polling>>

-----------------------------------------------------------------------------
(* Run: wait for a report, and handle it.                                   *)

WaitTimesOut ==
  /\ pc = "wait"
  /\ reports = {}
  /\ BeginSchedule(TRUE)
  /\ UNCHANGED <<graphVars, fetchVars, buildVars, unpackVars, modeVars,
                 reports>>

(* |room| of the packages that are ready. *)
SomeOf(ready, room) ==
  {some \in SUBSET ready :
     Cardinality(some) = Least(IF room < 0 THEN 0 ELSE room,
                               Cardinality(ready))}

(* A package is fetched, or could not be: "failure or not, let build work   *)
(* with it next".  With --unpackonly it is unpacked too, and the next       *)
(* package is fetched.                                                      *)
HandleFetch(r) ==
  /\ pc = "wait" /\ r.kind = "fetch"
  /\ reports' = reports \ {r}
  /\ prefetched' = prefetched \cup {r.target}
  /\ buildReady' = IF needs[r.target] = {} THEN buildReady \cup {r.target}
                                           ELSE buildReady
  /\ \E next \in SomeOf(fetchReady, 1) :
       /\ fetchReady' = fetchReady \ next
       /\ fetchJobs' = (fetchJobs \ {r.target}) \cup next
  /\ IF unpackOnly /\ r.ok
     THEN LET ready == unpackReady \cup {r.target}
          IN \E room \in {1, Procs} :
             \E some \in SomeOf(ready, room - Cardinality(unpackJobs)) :
               /\ unpackJobs' = unpackJobs \cup some
               /\ unpackReady' = ready \ some
     ELSE UNCHANGED unpackVars
  /\ IF needs[r.target] = {}
     THEN BeginSchedule(FALSE)
     ELSE pc' = "check" /\ UNCHANGED <<needed, polling>>
  /\ UNCHANGED <<graphVars, buildJobs, retryQueue, failed, modeVars>>

HandleUnpack(r) ==
  /\ pc = "wait" /\ r.kind = "unpack"
  /\ reports' = reports \ {r}
  /\ \E next \in SomeOf(unpackReady, 1) :
       /\ unpackReady' = unpackReady \ next
       /\ unpackJobs' = (unpackJobs \ {r.target}) \cup next
  /\ pc' = "check"
  /\ UNCHANGED <<graphVars, fetchVars, buildVars, modeVars, needed, polling>>

(* A package that fails for the first time is to be tried again when all    *)
(* else is done; after the second time nothing is done about it.            *)
HandleFailure(r) ==
  /\ pc = "wait" /\ r.kind = "build" /\ ~r.ok
  /\ reports' = reports \ {r}
  /\ buildJobs' = buildJobs \ {r.target}
  /\ retryQueue' = IF r.target \in failed THEN retryQueue
                   ELSE Append(retryQueue, r.target)
  /\ failed' = failed \cup {r.target}
  /\ BeginSchedule(FALSE)
  /\ UNCHANGED <<graphVars, fetchVars, buildReady, unpackVars, modeVars>>

(* Does this success start the next retry? *)
RetriesNext(p) == p \in failed /\ retryQueue # <<>>

HandleSuccess(r) ==
  /\ pc = "wait" /\ r.kind = "build" /\ r.ok
  /\ reports' = reports \ {r}
  /\ failed' = failed \ {r.target}
  /\ Finish(r.target)
  /\ buildReady' = buildReady \cup Unblocked(r.target)
  /\ IF RetriesNext(r.target)
     THEN /\ buildJobs' = (buildJobs \ {r.target}) \cup {Head(retryQueue)}
          /\ retryQueue' = Tail(retryQueue)
     ELSE /\ buildJobs' = buildJobs \ {r.target}
          /\ UNCHANGED retryQueue
  /\ BeginSchedule(FALSE)
  /\ UNCHANGED <<fetchVars, unpackVars, modeVars>>

-----------------------------------------------------------------------------
(* _ScheduleLoop and _Schedule.                                             *)

HasRoom == Cardinality(buildJobs) < needed

(* A package that is not to be merged only unblocks others. *)
ScheduleNoMerge(p) ==
  /\ pc = "schedule" /\ HasRoom
  /\ p \in buildReady \ failed
  /\ action[p] = "nomerge"
  /\ Finish(p)
  /\ buildReady' = (buildReady \ {p}) \cup Unblocked(p)
  /\ UNCHANGED <<fetchVars, buildJobs, retryQueue, failed, unpackVars,
                 modeVars, reports, needed, polling, pc>>

ScheduleBuild(p) ==
  /\ pc = "schedule" /\ HasRoom
  /\ p \in buildReady \ failed
  /\ action[p] = "merge"
  /\ buildReady' = buildReady \ {p}
  /\ buildJobs' = buildJobs \cup {p}
  /\ UNCHANGED <<graphVars, fetchVars, retryQueue, failed, unpackVars,
                 modeVars, reports, needed, polling, pc>>

(* Back to the next look at the queue, or to the top of the loop. *)
ScheduleEnds ==
  /\ pc = "schedule"
  /\ buildReady = {} \/ ~HasRoom
  /\ pc' \in IF polling THEN {"wait", "check"} ELSE {"check"}
  /\ UNCHANGED <<graphVars, fetchVars, buildVars, unpackVars, modeVars,
                 reports, needed, polling>>

-----------------------------------------------------------------------------
MainStep ==
  \/ BreakCycles
  \/ StartFetchers
  \/ CheckDone \/ CheckBusy \/ CheckRetries \/ CheckGivesUp
  \/ WaitTimesOut
  \/ \E r \in reports :
       HandleFetch(r) \/ HandleUnpack(r) \/ HandleFailure(r) \/ HandleSuccess(r)
  \/ \E p \in Packages : ScheduleNoMerge(p) \/ ScheduleBuild(p)
  \/ ScheduleEnds

Ended == pc \in {"done", "failed", "deadlock"} /\ UNCHANGED vars

Next ==
  \/ MainStep
  \/ \E p \in Packages : WorkerStep(p)
  \/ Ended

(* The main loop runs, and every job comes to an end. *)
Fairness ==
  /\ WF_vars(MainStep)
  /\ \A p \in Packages : WF_vars(WorkerStep(p))

Spec == Init /\ [][Next]_vars /\ Fairness

-----------------------------------------------------------------------------
(* Every variable has its type. *)
TypeOK ==
  /\ needs \in [Packages -> SUBSET Packages]
  /\ provides \in [Packages -> SUBSET Packages]
  /\ action \in [Packages -> {"merge", "nomerge"}]
  /\ unpackOnly \in BOOLEAN
  /\ left \subseteq Packages
  /\ fetchReady \subseteq Packages /\ fetchJobs \subseteq Packages
  /\ buildReady \subseteq Packages /\ buildJobs \subseteq Packages
  /\ unpackReady \subseteq Packages /\ unpackJobs \subseteq Packages
  /\ prefetched \subseteq Packages /\ failed \subseteq Packages
  /\ retryQueue \in Seq(Packages)
  /\ reports \subseteq [kind : {"fetch", "build", "unpack"},
                        target : Packages, ok : BOOLEAN]
  /\ needed \in Nat
  /\ polling \in BOOLEAN
  /\ pc \in {"sanitize", "check", "wait", "schedule", "done", "failed",
             "deadlock"}

(* "Deadlock! Circular dependencies!" is never the reason for giving up:    *)
(* whatever the graph was, its cycles were broken, and no package that      *)
(* could be built is forgotten.                                             *)
NoDeadlockDeclared == pc # "deadlock"

(* "We will only have one retrying package actively running at a time." *)
OneRetryAtATime == Cardinality(buildJobs \cap failed) <= 1

(* Run comes to an end although packages fail, if their jobs end. *)
Termination == <>(pc \in {"done", "failed"})

(* The scheduler keeps to the order of EmergeOrder. *)
Retrying == {retryQueue[i] : i \in DOMAIN retryQueue}

Order == INSTANCE EmergeOrder WITH
  needs <- [p \in Packages |-> {q \in Packages : p \in provides[q]}],
  merged <- Packages \ left,
  again <- failed \cap buildJobs,
  hopeless <- failed \ (Retrying \cup buildJobs),
  ending <- IF pc \in {"done", "failed", "deadlock"} THEN pc ELSE "running"

KeepsOrder == Order!Spec
=============================================================================
