----------------------------- MODULE SubmitPool -----------------------------
(***************************************************************************)
(* ValidationPool.SubmitPool of cbuildbot/validation_pool.py: the changes  *)
(* a Commit Queue run has tested are submitted to Gerrit, while developers *)
(* go on uploading patch sets and merging changes by hand, and Gerrit      *)
(* takes its time or forgets: SubmitPool, SubmitChanges,                   *)
(* _SubmitChangeWithDeps, _SubmitChange, FilterModifiedChanges.            *)
(*                                                                         *)
(* Not a dry run.  A pool and a transaction are as in Transactions.  A     *)
(* developer touches a change that is left out of the run no more.         *)
(***************************************************************************)
EXTENDS Naturals, Sequences

CONSTANTS
  NumChanges,
  Graphs,                   \* dependency graphs: records of gerrit and cq
  Resolve(_, _),            \* of a pool and a change: records raised, plan
  MayThrottle,              \* the tree may be closed
  MaxAsks                   \* how often the three minutes let it ask for one

Changes == 1 .. NumChanges

Members(s) == {s[i] : i \in DOMAIN s}

Deps(g, c) == Members(g.gerrit[c]) \cup Members(g.cq[c])

PoolOf(g, done, merged, limit) ==
  [gerrit |-> g.gerrit, cq |-> g.cq, committed |-> done, skipped |-> merged,
   allowed |-> limit, wanted |-> Changes]

(* What a transaction t of the change c promises, if there is one: it names *)
(* changes that are allowed and not in yet, each of them once; c is one of  *)
(* them, unless it is in; and so is what any of them depends on, the        *)
(* changes that it was made on before it.                                   *)
Promise(pool, c, t) ==
  LET In == pool.committed \cup pool.skipped
  IN /\ t.raised \in BOOLEAN
     /\ ~t.raised =>
          /\ t.plan \in Seq(pool.allowed \ pool.committed)
          /\ \A i, j \in DOMAIN t.plan : t.plan[i] = t.plan[j] => i = j
          /\ c \in pool.committed \cup Members(t.plan)
          /\ \A x \in Members(t.plan) :
               Deps(pool, x) \subseteq In \cup Members(t.plan)
          /\ \A i \in DOMAIN t.plan :
               \A d \in Members(pool.gerrit[t.plan[i]]) \ In :
                 \E j \in 1 .. i - 1 : t.plan[j] = d

(* The changes that a change was made on are its ancestors: a change is not *)
(* its own, and its transaction can begin with them.                        *)
ASSUME SubmitAssumption ==
  /\ NumChanges \in Nat /\ MayThrottle \in BOOLEAN /\ MaxAsks \in Nat \ {0}
  /\ \A g \in Graphs :
       /\ g.gerrit \in [Changes -> Seq(Changes)]
       /\ g.cq \in [Changes -> Seq(Changes)]
       /\ \A limit \in SUBSET Changes :
            \A done \in SUBSET limit, merged \in SUBSET (Changes \ limit),
               c \in limit :
              LET pool == PoolOf(g, done, merged, limit)
              IN Promise(pool, c, Resolve(pool, c))

VARIABLES
  graph,      \* the dependencies
  gerrit,     \* the status of each change in Gerrit
  touched,    \* changes with a patch set newer than the one tested
  pc,         \* what SubmitPool is doing
  approved,   \* filtered_changes
  todo,       \* those still to be submitted with their dependencies
  plan, pos,  \* the transaction being submitted
  stack,      \* error_stack is not empty
  submitted,  \* of this transaction
  committed,  \* _committed_cache of the patch series
  errors,     \* why changes were not submitted
  asked,      \* how often Gerrit has been asked to submit each change
  incorrect,  \* changes reported as submitted without their dependencies
  outcome     \* how SubmitPool ends

loop == <<plan, pos, stack, submitted>>
results == <<committed, errors, asked, incorrect>>
vars == <<graph, gerrit, touched, pc, approved, todo, loop, results, outcome>>

None == [c \in {} |-> ""]
Failed == DOMAIN errors
With(c, reason) ==
  [d \in Failed \cup {c} |-> IF d = c THEN reason ELSE errors[d]]

Init ==
  /\ graph \in Graphs
  /\ gerrit = [c \in Changes |-> "new"] /\ touched = {}
  /\ pc = "tree" /\ approved = {} /\ todo = {}
  /\ plan = <<>> /\ pos = 1 /\ stack = FALSE /\ submitted = {}
  /\ committed = {} /\ errors = None
  /\ asked = [c \in Changes |-> 0] /\ incorrect = {}
  /\ outcome = "none"

-----------------------------------------------------------------------------
(* Developers and Gerrit.                                                   *)

InPlay(c) == pc = "tree" \/ c \in approved

UploadPatchSet(c) ==
  /\ InPlay(c) /\ gerrit[c] = "new"
  /\ touched' = touched \cup {c}
  /\ UNCHANGED <<graph, gerrit, pc, approved, todo, loop, results, outcome>>

Chump(c) ==
  /\ InPlay(c) /\ gerrit[c] = "new"
  /\ gerrit' = [gerrit EXCEPT ![c] = "merged"]
  /\ UNCHANGED <<graph, touched, pc, approved, todo, loop, results, outcome>>

(* A submitted change is merged, or turns out not to merge. *)
Settle(c, status) ==
  /\ gerrit[c] = "submitted"
  /\ gerrit' = [gerrit EXCEPT ![c] = status]
  /\ UNCHANGED <<graph, touched, pc, approved, todo, loop, results, outcome>>

-----------------------------------------------------------------------------
(* Before submitting.                                                       *)

(* "raise TreeIsClosedException(close_or_throttled=...)": the constructor   *)
(* has no such parameter.                                                   *)
RaisedWhenClosed == "TypeError"

CheckTree(open) ==
  /\ pc = "tree"
  /\ ~open => MayThrottle
  /\ IF open THEN pc' = "filter" /\ UNCHANGED outcome
     ELSE pc' = "over" /\ outcome' = RaisedWhenClosed
  /\ UNCHANGED <<graph, gerrit, touched, approved, todo, loop, results>>

(* FilterModifiedChanges, then FilterNonMatchingChanges: merged changes are *)
(* done, modified ones and those not |ready| any more are errors.           *)
Unmerged == {c \in Changes : gerrit[c] # "merged"}
Modified == Unmerged \cap touched

TurnedDown_Modified(accepted) == Modified
TurnedDown(accepted) == Unmerged \ accepted

FilterChanges(ready) ==
  /\ pc = "filter"
  /\ approved' = (Unmerged \ Modified) \cap ready
  /\ todo' = approved'
  /\ errors' = [c \in TurnedDown(approved') |->
                  IF c \in Modified THEN "modified" ELSE "not ready"]
  /\ pc' = "next"
  /\ UNCHANGED <<graph, gerrit, touched, loop, committed, asked, incorrect,
                 outcome>>

-----------------------------------------------------------------------------
(* _SubmitChangeWithDeps                                                    *)

LimitTo == approved

Skipped == {c \in Changes \ approved : gerrit[c] = "merged"}

Pool == PoolOf(graph, committed, Skipped, LimitTo)

Start(c) ==
  /\ pc = "next" /\ c \in todo
  /\ todo' = todo \ {c}
  /\ LET t == Resolve(Pool, c)
     IN IF t.raised
        THEN /\ errors' = With(c, "rejected")
             /\ UNCHANGED <<pc, loop>>
        ELSE /\ plan' = t.plan /\ pc' = "submit"
             /\ UNCHANGED <<pos, stack, submitted, errors>>
  /\ UNCHANGED <<graph, gerrit, touched, approved, committed, asked, incorrect,
                 outcome>>

AtChange == pc = "submit" /\ pos <= Len(plan)
Current == plan[pos]

(* The change is not submitted, now or before. *)
Fails(reason) ==
  /\ errors' = With(Current, reason)
  /\ stack' = TRUE
  /\ pos' = pos + 1 /\ pc' = "submit"
  /\ UNCHANGED submitted

HoldsBack_Never == FALSE
HoldsBack == stack

PassOver ==
  /\ AtChange
  /\ Current \in Failed \/ HoldsBack
  /\ Fails(IF Current \in Failed THEN errors[Current] ELSE "dependency")
  /\ UNCHANGED <<graph, gerrit, touched, approved, todo, plan, committed, asked,
                 incorrect, outcome>>

(* Gerrit is asked to submit the patch set that was tested.  It refuses one *)
(* that is not the current one, or is merged, or conflicts; anything else   *)
(* may go wrong as well.                                                    *)
Asking ==
  /\ AtChange /\ Current \notin Failed /\ ~HoldsBack
  /\ asked' = [asked EXCEPT ![Current] = @ + 1]

Refused(reason) ==
  /\ Asking
  /\ Fails(reason)
  /\ UNCHANGED <<graph, gerrit, touched, approved, todo, plan, committed,
                 incorrect, outcome>>

Accepted ==
  /\ Asking
  /\ gerrit[Current] = "new" /\ Current \notin touched
  /\ gerrit' = [gerrit EXCEPT ![Current] = "submitted"]
  /\ pc' = "wait"
  /\ UNCHANGED <<graph, touched, approved, todo, loop, committed, errors,
                 incorrect, outcome>>

(* Polling shows the change as still submitted: Gerrit, which "sometimes    *)
(* forgets", is asked again.                                                *)
Polls ==
  /\ pc = "wait" /\ gerrit[Current] = "submitted" /\ asked[Current] < MaxAsks
  /\ pc' = "poke"
  /\ UNCHANGED <<graph, gerrit, touched, approved, todo, loop, results, outcome>>

(* By now it may have failed to merge, and is submitted anew, or be merged, *)
(* and Gerrit's "conflict" means nothing.                                   *)
Poke ==
  /\ pc = "poke" /\ pc' = "wait"
  /\ asked' = [asked EXCEPT ![Current] = @ + 1]
  /\ \/ UNCHANGED gerrit
     \/ /\ gerrit[Current] = "new" /\ Current \notin touched
        /\ gerrit' = [gerrit EXCEPT ![Current] = "submitted"]
  /\ UNCHANGED <<graph, touched, approved, todo, loop, committed, errors,
                 incorrect, outcome>>

(* Polling shows the change as merged. *)
SeesMerged ==
  /\ pc = "wait" /\ gerrit[Current] = "merged"
  /\ submitted' = submitted \cup {Current}
  /\ pos' = pos + 1 /\ pc' = "submit"
  /\ UNCHANGED <<graph, gerrit, touched, approved, todo, plan, stack, results,
                 outcome>>

(* Or not submitted any more; or a query or a poke fails; or time runs out, *)
(* of which the clock has the last word: Gerrit may have merged it.         *)
StopsWaiting ==
  /\ pc \in {"wait", "poke"}
  /\ Fails("failed")
  /\ UNCHANGED <<graph, gerrit, touched, approved, todo, plan, committed, asked,
                 incorrect, outcome>>

(* The end of the transaction: what was submitted is not submitted again,   *)
(* and is reported if a dependency of it has failed.                        *)
DependenciesOf(c) == Deps(graph, c)

Erroneous_ParentsOnly ==
  {c \in submitted : Members(graph.gerrit[c]) \cap Failed # {}}
Erroneous == {c \in submitted : DependenciesOf(c) \cap Failed # {}}

NowCommitted_Never == committed
NowCommitted == committed \cup submitted

EndTransaction ==
  /\ pc = "submit" /\ pos > Len(plan)
  /\ committed' = NowCommitted
  /\ incorrect' = incorrect \cup Erroneous
  /\ pc' = "next"
  /\ plan' = <<>> /\ pos' = 1 /\ stack' = FALSE /\ submitted' = {}
  /\ UNCHANGED <<graph, gerrit, touched, approved, todo, errors, asked,
                 outcome>>

(* SubmitPool: failures that people cause are not fatal. *)
Whitelisted == {"conflict", "modified", "not ready", "rejected", "dependency"}

Finish ==
  /\ pc = "next" /\ todo = {}
  /\ pc' = "over"
  /\ outcome' = IF Failed = {} THEN "all submitted"
                ELSE IF \A c \in Failed : errors[c] \in Whitelisted
                THEN "non-fatal" ELSE "fatal"
  /\ UNCHANGED <<graph, gerrit, touched, approved, todo, loop, results>>

-----------------------------------------------------------------------------
Submitter ==
  \/ CheckTree(TRUE) \/ CheckTree(FALSE)
  \/ \E ready \in SUBSET Changes : FilterChanges(ready)
  \/ \E c \in Changes : Start(c)
  \/ PassOver \/ Refused("conflict") \/ Refused("failed") \/ Accepted
  \/ Polls \/ Poke \/ SeesMerged \/ StopsWaiting
  \/ EndTransaction \/ Finish

Others ==
  \E c \in Changes :
    UploadPatchSet(c) \/ Chump(c) \/ Settle(c, "merged") \/ Settle(c, "new")

Next ==
  \/ Submitter
  \/ Others
  \/ pc = "over" /\ UNCHANGED vars

Spec == Init /\ [][Next]_vars

-----------------------------------------------------------------------------
Reasons == Whitelisted \cup {"failed"}

(* Every variable has its type. *)
TypeOK ==
  /\ graph \in Graphs
  /\ gerrit \in [Changes -> {"new", "submitted", "merged"}]
  /\ touched \subseteq Changes
  /\ pc \in {"tree", "filter", "next", "submit", "wait", "poke", "over"}
  /\ approved \subseteq Changes /\ todo \subseteq approved
  /\ plan \in Seq(approved) /\ pos \in 1 .. Len(plan) + 1
  /\ stack \in BOOLEAN /\ submitted \subseteq approved
  /\ committed \subseteq approved
  /\ errors \in [Failed -> Reasons] /\ Failed \subseteq Changes
  /\ asked \in [Changes -> 0 .. MaxAsks] /\ incorrect \subseteq committed
  /\ outcome \in {"none", "all submitted", "non-fatal", "fatal", "TypeError"}

(* A change is never submitted before the changes it was made on are in. *)
ParentsMergeFirst ==
  \A c \in Changes : asked[c] > 0 =>
    \A d \in Members(graph.gerrit[c]) : gerrit[d] = "merged"

(* "each CL will only be submitted once", though transactions overlap and   *)
(* some fail: who asks for a change that was asked for is the poll of its   *)
(* own three minutes, never another transaction, and never after it had     *)
(* come out as merged or failed.                                            *)
Answered == Failed \cup submitted \cup committed

AskedInOneGo ==
  [][\A c \in Changes : asked'[c] # asked[c] =>
       /\ c \notin Answered
       /\ asked[c] = 0 \/ (pc = "poke" /\ c = Current)]_vars

(* In the end every change is merged, or its author is told why not; the    *)
(* pool succeeds only if all are merged.                                    *)
EveryoneAnswered ==
  outcome \in {"all submitted", "non-fatal", "fatal"} =>
    \A c \in Changes :
      \/ gerrit[c] = "merged"
      \/ outcome # "all submitted" /\ c \in Failed

(* A change that went in without one of its dependencies is reported: what  *)
(* the loop at the end of a transaction looks for, it finds.                *)
MissingDependencyReported ==
  outcome \notin {"none", "TypeError"} =>
    \A c \in committed : \A d \in DependenciesOf(c) :
      gerrit[d] = "merged" \/ c \in incorrect
=============================================================================
