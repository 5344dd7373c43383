-------------------------- MODULE SubmitPoolProofs --------------------------
(***************************************************************************)
(* Proofs about SubmitPool, for any number of changes, any dependencies    *)
(* among them and any way of resolving them into transactions that keeps   *)
(* the promise SubmitAssumption states.                                    *)
(***************************************************************************)
EXTENDS SubmitPool, SequenceTheorems, TLAPS

(* What there is in each phase. *)
PhaseInv ==
  /\ pc \notin {"submit", "wait", "poke"} =>
       plan = <<>> /\ pos = 1 /\ submitted = {} /\ stack = FALSE
  /\ pc \in {"wait", "poke"} => pos <= Len(plan) /\ ~stack
  /\ pc \in {"tree", "filter"} =>
       /\ committed = {} /\ Failed = {}
       /\ \A c \in Changes : asked[c] = 0
  /\ pc = "over" <=> outcome # "none"
  /\ outcome \in {"all submitted", "non-fatal", "fatal"} => todo = {}
  /\ outcome = "all submitted" => Failed = {}

(* How far the transaction is, and what it rests on. *)
PlanInv ==
  /\ \A i, j \in DOMAIN plan : plan[i] = plan[j] => i = j
  /\ \A i \in DOMAIN plan : plan[i] \notin committed
  /\ \A j \in 1 .. pos - 1 : plan[j] \in submitted \cup Failed
  /\ ~stack => \A j \in 1 .. pos - 1 : plan[j] \in submitted
  /\ \A c \in submitted : \E j \in 1 .. pos - 1 : plan[j] = c

(* What a change in the plan depends on is in, or is in the plan; what it   *)
(* was made on comes before it.                                             *)
RestsOn ==
  \A i \in DOMAIN plan :
    /\ \A d \in Deps(graph, plan[i]) :
         gerrit[d] = "merged" \/ \E j \in DOMAIN plan : plan[j] = d
    /\ \A d \in Members(graph.gerrit[plan[i]]) :
         gerrit[d] = "merged" \/ \E j \in 1 .. i - 1 : plan[j] = d

MergedInv == \A c \in submitted \cup committed : gerrit[c] = "merged"

(* Whatever Gerrit was asked to submit has its answer, or is being polled,  *)
(* and what it was made on is in.  What is being polled has no answer yet.  *)
Polling == pc \in {"wait", "poke"}

AskInv ==
  \A c \in Changes : asked[c] > 0 =>
    /\ c \in Answered \/ (Polling /\ c = Current)
    /\ \A d \in Members(graph.gerrit[c]) : gerrit[d] = "merged"

PollInv ==
  /\ Polling => Current \notin Failed /\ asked[Current] > 0
  /\ pc = "poke" => asked[Current] < MaxAsks

ReportInv ==
  \A c \in committed : \A d \in Deps(graph, c) :
    gerrit[d] = "merged" \/ c \in incorrect

AnswerInv ==
  pc \notin {"tree", "filter"} /\ outcome # "TypeError" =>
    \A c \in Changes :
      \/ gerrit[c] = "merged" \/ c \in Failed \cup todo
      \/ \E i \in pos .. Len(plan) : plan[i] = c

(* What every step keeps. *)
IInv ==
  /\ TypeOK /\ PhaseInv /\ PlanInv /\ RestsOn /\ MergedInv
  /\ AskInv /\ PollInv /\ ReportInv /\ AnswerInv

-----------------------------------------------------------------------------
(* Plans, errors and what Gerrit says.                                      *)

(* The places of the plan, and the changes in it. *)
LEMMA PlanIs ==
  ASSUME TypeOK
  PROVE  /\ Len(plan) \in Nat /\ DOMAIN plan = 1 .. Len(plan)
         /\ \A i \in DOMAIN plan : plan[i] \in approved /\ plan[i] \in Changes
         /\ pos \in Nat /\ pos >= 1 /\ pos <= Len(plan) + 1
         /\ pos <= Len(plan) => pos \in DOMAIN plan
<1>1. plan \in Seq(approved) /\ pos \in 1 .. Len(plan) + 1 /\ approved \subseteq Changes
  BY DEF TypeOK
<1>2. /\ Len(plan) \in Nat /\ DOMAIN plan = 1 .. Len(plan)
      /\ plan \in [1 .. Len(plan) -> approved]
  BY <1>1, LenProperties
<1> QED
  BY <1>1, <1>2

(* The empty plan has no places. *)
LEMMA NothingPlanned ==
  ASSUME plan = <<>>, pos = 1
  PROVE  pos .. Len(plan) = {}
<1>1. Len(plan) = 0
  BY EmptySeq
<1>2. 1 .. 0 = {}
  OBVIOUS
<1> QED
  BY <1>1, <1>2

(* Dependencies are changes. *)
LEMMA DepsType ==
  ASSUME TypeOK, NEW c \in Changes
  PROVE  Members(graph.gerrit[c]) \subseteq Changes /\ Deps(graph, c) \subseteq Changes
<1>1. graph.gerrit \in [Changes -> Seq(Changes)] /\ graph.cq \in [Changes -> Seq(Changes)]
  BY SubmitAssumption DEF TypeOK
<1>2. graph.gerrit[c] \in Seq(Changes) /\ graph.cq[c] \in Seq(Changes)
  BY <1>1
<1>3. ASSUME NEW s \in Seq(Changes)
      PROVE  Members(s) \subseteq Changes
  <2>1. s \in [1 .. Len(s) -> Changes] /\ DOMAIN s = 1 .. Len(s)
    BY <1>3, LenProperties
  <2> QED
    BY <2>1 DEF Members
<1> QED
  BY <1>2, <1>3 DEF Deps

(* An error more. *)
LEMMA WithIs ==
  ASSUME TypeOK, NEW c \in Changes, NEW reason \in Reasons,
         errors' = With(c, reason)
  PROVE  /\ Failed' = Failed \cup {c}
         /\ errors' \in [Failed' -> Reasons] /\ Failed' \subseteq Changes
<1>1. errors \in [Failed -> Reasons] /\ Failed \subseteq Changes
  BY DEF TypeOK
<1>2. DOMAIN With(c, reason) = Failed \cup {c}
  BY DEF With
<1>3. Failed' = Failed \cup {c}
  BY <1>2 DEF Failed
<1>4. With(c, reason) \in [Failed \cup {c} -> Reasons]
  BY <1>1 DEF With
<1> QED
  BY <1>1, <1>3, <1>4

(* The transaction of a change: it is about approved changes that are not   *)
(* in yet, it is complete, and parents come first.                          *)
LEMMA TransactionIs ==
  ASSUME TypeOK, MergedInv, NEW c \in todo, NEW t, t = Resolve(Pool, c)
  PROVE  /\ t.raised \in BOOLEAN
         /\ ~t.raised =>
              /\ t.plan \in Seq(approved)
              /\ \A i, j \in DOMAIN t.plan : t.plan[i] = t.plan[j] => i = j
              /\ \A i \in DOMAIN t.plan : t.plan[i] \notin committed
              /\ gerrit[c] = "merged" \/ \E i \in DOMAIN t.plan : t.plan[i] = c
              /\ \A i \in DOMAIN t.plan :
                   /\ \A d \in Deps(graph, t.plan[i]) :
                        gerrit[d] = "merged" \/ \E j \in DOMAIN t.plan : t.plan[j] = d
                   /\ \A d \in Members(graph.gerrit[t.plan[i]]) :
                        gerrit[d] = "merged" \/ \E j \in 1 .. i - 1 : t.plan[j] = d
<1>1. PICK g \in Graphs, limit \in SUBSET Changes, done \in SUBSET Changes,
           merged \in SUBSET Changes :
        /\ g = graph /\ limit = approved /\ done = committed /\ merged = Skipped
        /\ done \in SUBSET limit /\ merged \in SUBSET (Changes \ limit)
  <2>1. /\ graph \in Graphs /\ approved \in SUBSET Changes
        /\ committed \in SUBSET Changes /\ committed \in SUBSET approved
    BY DEF TypeOK
  <2>2. Skipped \in SUBSET Changes /\ Skipped \in SUBSET (Changes \ approved)
    BY DEF Skipped
  <2> QED
    BY <2>1, <2>2
<1>2. PICK pool : pool = PoolOf(g, done, merged, limit)
  OBVIOUS
<1>3. Promise(pool, c, t)
  <2>1. c \in limit /\ t = Resolve(pool, c)
    BY <1>1, <1>2 DEF TypeOK, Pool, LimitTo
  <2> QED
    BY <1>1, <1>2, <2>1, SubmitAssumption
<1>4. /\ pool.committed = committed /\ pool.skipped = Skipped
      /\ pool.allowed = approved
      /\ pool.gerrit = graph.gerrit /\ pool.cq = graph.cq
  BY <1>1, <1>2 DEF PoolOf
<1>5. t.raised \in BOOLEAN
  BY <1>3 DEF Promise
<1>6. ASSUME ~t.raised
      PROVE  /\ t.plan \in Seq(approved \ committed)
             /\ \A i, j \in DOMAIN t.plan : t.plan[i] = t.plan[j] => i = j
             /\ c \in committed \cup Members(t.plan)
             /\ \A x \in Members(t.plan) :
                  Deps(graph, x) \subseteq committed \cup Skipped \cup Members(t.plan)
             /\ \A i \in DOMAIN t.plan :
                  \A d \in Members(graph.gerrit[t.plan[i]]) \ (committed \cup Skipped) :
                    \E j \in 1 .. i - 1 : t.plan[j] = d
  BY <1>3, <1>4, <1>6 DEF Promise, Deps
<1>7. ASSUME ~t.raised
      PROVE  /\ t.plan \in Seq(approved)
             /\ \A i \in DOMAIN t.plan : t.plan[i] \notin committed
  <2>1. t.plan \in Seq(approved \ committed)
    BY <1>6, <1>7
  <2>2. t.plan \in [1 .. Len(t.plan) -> approved \ committed] /\ DOMAIN t.plan = 1 .. Len(t.plan)
    BY <2>1, LenProperties
  <2>3. t.plan \in Seq(approved)
    BY <2>1, SeqMonotonic
  <2> QED
    BY <2>2, <2>3
<1>8. \A d \in committed \cup Skipped : gerrit[d] = "merged"
  BY DEF MergedInv, Skipped
<1>9. ASSUME ~t.raised
      PROVE  gerrit[c] = "merged" \/ \E i \in DOMAIN t.plan : t.plan[i] = c
  BY <1>6, <1>8, <1>9 DEF Members
<1>10. ASSUME ~t.raised, NEW i \in DOMAIN t.plan, NEW d \in Deps(graph, t.plan[i])
       PROVE  gerrit[d] = "merged" \/ \E j \in DOMAIN t.plan : t.plan[j] = d
  <2>1. t.plan[i] \in Members(t.plan)
    BY DEF Members
  <2>2. d \in committed \cup Skipped \cup Members(t.plan)
    BY <1>6, <1>10, <2>1
  <2> QED
    BY <1>8, <2>2 DEF Members
<1>11. ASSUME ~t.raised, NEW i \in DOMAIN t.plan,
              NEW d \in Members(graph.gerrit[t.plan[i]])
       PROVE  gerrit[d] = "merged" \/ \E j \in 1 .. i - 1 : t.plan[j] = d
  BY <1>6, <1>8, <1>11
<1> QED
  BY <1>5, <1>6, <1>7, <1>9, <1>10, <1>11

(* Nothing is known, and nothing has been asked, when SubmitPool begins. *)
LEMMA InitInv == Init => IInv
<1> SUFFICES ASSUME Init PROVE IInv
  OBVIOUS
<1>1. Failed = {} /\ errors \in [Failed -> Reasons]
  BY DEF Init, None, Failed
<1>2. TypeOK
  <2>1. plan \in Seq(approved) /\ Len(plan) = 0
    BY EmptySeq DEF Init
  <2>2. gerrit \in [Changes -> {"new", "submitted", "merged"}]
    BY DEF Init
  <2>3. asked \in [Changes -> 0 .. MaxAsks]
    BY SubmitAssumption DEF Init
  <2>4. pos \in 1 .. Len(plan) + 1
    BY <2>1 DEF Init
  <2>5. Failed \subseteq Changes /\ incorrect \subseteq committed
    BY <1>1 DEF Init
  <2> QED
    BY <1>1, <2>1, <2>2, <2>3, <2>4, <2>5 DEF Init, TypeOK
<1>3. PhaseInv
  BY <1>1 DEF Init, PhaseInv
<1>4. PlanInv /\ RestsOn
  BY DEF Init, PlanInv, RestsOn
<1>5. MergedInv /\ AskInv /\ PollInv /\ ReportInv /\ AnswerInv
  BY DEF Init, MergedInv, AskInv, PollInv, Polling, ReportInv, AnswerInv
<1> QED
  BY <1>2, <1>3, <1>4, <1>5 DEF IInv

-----------------------------------------------------------------------------
(* Types, phases, and what Gerrit does on its own.                          *)

(* Developers and Gerrit: a merged change stays merged. *)
LEMMA OthersStep ==
  ASSUME IInv, Others
  PROVE  IInv'
<1>1. /\ UNCHANGED <<graph, pc, approved, todo, plan, pos, stack, submitted,
                     committed, errors, asked, incorrect, outcome>>
      /\ gerrit' \in [Changes -> {"new", "submitted", "merged"}]
      /\ touched' \subseteq Changes
      /\ \A d \in Changes : gerrit[d] = "merged" => gerrit'[d] = "merged"
  <2> SUFFICES ASSUME NEW c \in Changes,
                      \/ UploadPatchSet(c) \/ Chump(c)
                      \/ Settle(c, "merged") \/ Settle(c, "new")
               PROVE  <1>1
    BY DEF Others
  <2>1. /\ gerrit \in [Changes -> {"new", "submitted", "merged"}]
        /\ touched \subseteq Changes
    BY DEF IInv, TypeOK
  <2>2. /\ touched' \in {touched, touched \cup {c}}
        /\ \/ gerrit' = gerrit
           \/ /\ gerrit[c] # "merged"
              /\ \E s \in {"new", "merged"} : gerrit' = [gerrit EXCEPT ![c] = s]
    BY DEF UploadPatchSet, Chump, Settle
  <2>3. UNCHANGED <<graph, pc, approved, todo, plan, pos, stack, submitted,
                    committed, errors, asked, incorrect, outcome>>
    BY DEF UploadPatchSet, Chump, Settle, loop, results
  <2> QED
    BY <2>1, <2>2, <2>3
<1>2. Failed' = Failed
  BY <1>1 DEF Failed
<1>3. TypeOK' /\ PhaseInv' /\ PlanInv'
  BY <1>1, <1>2 DEF IInv, TypeOK, PhaseInv, PlanInv
<1>4. RestsOn'
  <2>1. \A i \in DOMAIN plan : plan[i] \in Changes
    BY PlanIs DEF IInv
  <2>2. \A i \in DOMAIN plan :
          /\ Members(graph.gerrit[plan[i]]) \subseteq Changes
          /\ Deps(graph, plan[i]) \subseteq Changes
    BY <2>1, DepsType DEF IInv
  <2> QED
    BY <1>1, <2>2 DEF IInv, RestsOn
<1>5. MergedInv'
  BY <1>1 DEF IInv, MergedInv, TypeOK
<1>6. AskInv' /\ PollInv'
  <2>1. Current' = Current /\ Polling' = Polling /\ Answered' = Answered
    BY <1>1, <1>2 DEF Current, Polling, Answered
  <2>2. AskInv'
    BY <1>1, <2>1, DepsType DEF IInv, AskInv
  <2> QED
    BY <1>1, <1>2, <2>1, <2>2 DEF IInv, PollInv
<1>7. ReportInv'
  <2>1. \A c \in committed : Deps(graph, c) \subseteq Changes
    BY DepsType DEF IInv, TypeOK
  <2> QED
    BY <1>1, <2>1 DEF IInv, ReportInv
<1>8. AnswerInv'
  BY <1>1, <1>2 DEF IInv, AnswerInv
<1> QED
  BY <1>3, <1>4, <1>5, <1>6, <1>7, <1>8 DEF IInv

(* A step that leaves the plan, what Gerrit says and what was committed     *)
(* alone: a shorter list of what is to be shown.                            *)
LEMMA QuietStep ==
  ASSUME IInv,
         UNCHANGED <<graph, gerrit, touched, approved, todo, plan, pos, stack,
                     submitted, committed, errors, asked, incorrect>>
  PROVE  /\ Failed' = Failed /\ PlanInv' /\ RestsOn' /\ MergedInv' /\ ReportInv'
         /\ pc' \in {"tree", "filter", "next", "submit", "wait", "poke", "over"}
            /\ outcome' \in {"none", "all submitted", "non-fatal", "fatal", "TypeError"}
            => TypeOK'
<1>1. Failed' = Failed
  BY DEF Failed
<1>2. PlanInv'
  BY <1>1 DEF IInv, PlanInv
<1>3. RestsOn'
  BY DEF IInv, RestsOn
<1>4. MergedInv' /\ ReportInv'
  BY DEF IInv, MergedInv, ReportInv
<1>5. ASSUME pc' \in {"tree", "filter", "next", "submit", "wait", "poke", "over"},
             outcome' \in {"none", "all submitted", "non-fatal", "fatal", "TypeError"}
      PROVE  TypeOK'
  BY <1>1, <1>5 DEF IInv, TypeOK
<1> QED
  BY <1>1, <1>2, <1>3, <1>4, <1>5

(* The tree is open or SubmitPool ends with nothing done. *)
LEMMA CheckTreeStep ==
  ASSUME IInv, NEW open \in BOOLEAN, CheckTree(open)
  PROVE  IInv'
<1>1. /\ UNCHANGED <<graph, gerrit, touched, approved, todo, plan, pos, stack,
                     submitted, committed, errors, asked, incorrect>>
      /\ pc = "tree"
      /\ \/ pc' = "filter" /\ outcome' = outcome
         \/ pc' = "over" /\ outcome' = "TypeError"
  BY DEF CheckTree, loop, results, RaisedWhenClosed
<1>2. outcome = "none" /\ plan = <<>>
  BY <1>1 DEF IInv, PhaseInv
<1>3. Failed' = Failed /\ PlanInv' /\ RestsOn' /\ MergedInv' /\ ReportInv' /\ TypeOK'
  BY <1>1, <1>2, QuietStep
<1>4. PhaseInv'
  BY <1>1, <1>2, <1>3 DEF IInv, PhaseInv
<1>5. AskInv' /\ PollInv' /\ AnswerInv'
  BY <1>1, <1>2, <1>3 DEF IInv, PhaseInv, AskInv, PollInv, Polling, AnswerInv
<1> QED
  BY <1>3, <1>4, <1>5 DEF IInv

(* After filtering, a change is merged, turned down or to be submitted. *)
LEMMA FilterStep ==
  ASSUME IInv, NEW ready \in SUBSET Changes, FilterChanges(ready)
  PROVE  IInv'
<1>1. /\ UNCHANGED <<graph, gerrit, touched, plan, pos, stack, submitted,
                     committed, asked, incorrect, outcome>>
      /\ pc = "filter" /\ pc' = "next" /\ todo' = approved'
      /\ approved' = (Unmerged \ Modified) \cap ready
      /\ errors' = [c \in Unmerged \ approved' |->
                      IF c \in Modified THEN "modified" ELSE "not ready"]
  BY DEF FilterChanges, loop, TurnedDown
<1>2. /\ plan = <<>> /\ pos = 1 /\ submitted = {} /\ stack = FALSE
      /\ committed = {} /\ Failed = {} /\ outcome = "none"
      /\ \A c \in Changes : asked[c] = 0
  BY <1>1 DEF IInv, PhaseInv
<1>3. /\ Unmerged \subseteq Changes
      /\ \A c \in Changes : c \in Unmerged <=> gerrit[c] # "merged"
  BY DEF Unmerged
<1>4. Failed' = Unmerged \ approved' /\ errors' \in [Failed' -> Reasons]
  BY <1>1 DEF Failed, Reasons, Whitelisted
<1>5. TypeOK'
  <2>1. plan' = <<>> /\ pos' = 1
    BY <1>1, <1>2
  <2>2. plan' \in Seq(approved') /\ Len(plan') = 0
    BY <2>1, EmptySeq
  <2>3. pos' \in 1 .. Len(plan') + 1
    BY <2>1, <2>2
  <2> QED
    BY <1>1, <1>2, <1>3, <1>4, <2>2, <2>3 DEF IInv, TypeOK
<1>6. PhaseInv' /\ MergedInv'
  BY <1>1, <1>2 DEF IInv, PhaseInv, MergedInv
<1>7. PlanInv'
  <2>1. plan' = <<>> /\ pos' = 1 /\ submitted' = {}
    BY <1>1, <1>2
  <2> QED
    BY <2>1 DEF PlanInv
<1>8. RestsOn'
  <2>1. plan' = <<>>
    BY <1>1, <1>2
  <2> QED
    BY <2>1 DEF RestsOn
<1>9. AskInv' /\ PollInv' /\ ReportInv' /\ AnswerInv'
  <2>1. AskInv' /\ PollInv'
    <3>1. \A c \in Changes : ~(asked'[c] > 0)
      <4>1. \A c \in Changes : asked'[c] = 0
        BY <1>1, <1>2
      <4>2. ~(0 > 0)
        OBVIOUS
      <4> QED
        BY <4>1, <4>2
    <3> QED
      BY <1>1, <3>1 DEF AskInv, PollInv, Polling
  <2> QED
    BY <1>1, <1>2, <1>3, <1>4, <2>1 DEF IInv, ReportInv, AnswerInv
<1> QED
  BY <1>5, <1>6, <1>7, <1>8, <1>9 DEF IInv

(* The end: every change of the pool has been dealt with. *)
LEMMA FinishStep ==
  ASSUME IInv, Finish
  PROVE  IInv'
<1>1. /\ UNCHANGED <<graph, gerrit, touched, approved, todo, plan, pos, stack,
                     submitted, committed, errors, asked, incorrect>>
      /\ pc = "next" /\ todo = {} /\ pc' = "over"
      /\ outcome' \in {"all submitted", "non-fatal", "fatal"}
      /\ outcome' = "all submitted" => Failed = {}
  BY DEF Finish, loop, results
<1>2. Failed' = Failed /\ PlanInv' /\ RestsOn' /\ MergedInv' /\ ReportInv' /\ TypeOK'
  BY <1>1, QuietStep
<1>3. outcome = "none" /\ plan = <<>> /\ pos = 1 /\ submitted = {} /\ stack = FALSE
  BY <1>1 DEF IInv, PhaseInv
<1>4. PhaseInv'
  BY <1>1, <1>2, <1>3 DEF PhaseInv
<1>5. AskInv' /\ PollInv'
  BY <1>1, <1>2 DEF IInv, AskInv, PollInv, Polling, Answered
<1>6. AnswerInv'
  BY <1>1, <1>2, <1>3 DEF IInv, AnswerInv
<1> QED
  BY <1>2, <1>4, <1>5, <1>6 DEF IInv
-----------------------------------------------------------------------------
(* A transaction: from its resolution to its last change.                   *)

(* A change is rejected, or its transaction begins. *)
LEMMA StartStep ==
  ASSUME IInv, NEW c \in Changes, Start(c)
  PROVE  IInv'
<1>1. PICK t : t = Resolve(Pool, c)
  OBVIOUS
<1>2. /\ UNCHANGED <<graph, gerrit, touched, approved, committed, asked,
                     incorrect, outcome, pos, stack, submitted>>
      /\ pc = "next" /\ c \in todo /\ todo' = todo \ {c}
      /\ \/ t.raised /\ errors' = With(c, "rejected") /\ UNCHANGED <<pc, plan>>
         \/ ~t.raised /\ plan' = t.plan /\ pc' = "submit" /\ UNCHANGED errors
  BY <1>1 DEF Start, loop
<1>3. plan = <<>> /\ pos = 1 /\ submitted = {} /\ stack = FALSE /\ outcome = "none"
  BY <1>2 DEF IInv, PhaseInv
<1>4. MergedInv' /\ ReportInv'
  BY <1>2 DEF IInv, MergedInv, ReportInv
<1>5. CASE t.raised /\ errors' = With(c, "rejected") /\ UNCHANGED <<pc, plan>>
  <2>1. Failed' = Failed \cup {c} /\ errors' \in [Failed' -> Reasons] /\ Failed' \subseteq Changes
    <3>1. "rejected" \in Reasons
      BY DEF Reasons, Whitelisted
    <3> QED
      BY <1>5, <3>1, WithIs DEF IInv
  <2>2. TypeOK'
    BY <1>2, <1>5, <2>1 DEF IInv, TypeOK
  <2>3. PhaseInv'
    BY <1>2, <1>3, <1>5, <2>1 DEF PhaseInv
  <2>4. PlanInv'
    BY <1>2, <1>5, <2>1 DEF IInv, PlanInv
  <2>5. RestsOn'
    BY <1>2, <1>5 DEF IInv, RestsOn
  <2>6. AskInv' /\ PollInv'
    BY <1>2, <1>5, <2>1 DEF IInv, AskInv, PollInv, Polling, Answered
  <2>7. AnswerInv'
    BY <1>2, <1>5, <2>1 DEF IInv, AnswerInv
  <2> QED
    BY <1>4, <2>2, <2>3, <2>4, <2>5, <2>6, <2>7 DEF IInv
<1>6. CASE ~t.raised /\ plan' = t.plan /\ pc' = "submit" /\ UNCHANGED errors
  <2>1. /\ t.plan \in Seq(approved)
        /\ \A i, j \in DOMAIN t.plan : t.plan[i] = t.plan[j] => i = j
        /\ \A i \in DOMAIN t.plan : t.plan[i] \notin committed
        /\ gerrit[c] = "merged" \/ \E i \in DOMAIN t.plan : t.plan[i] = c
        /\ \A i \in DOMAIN t.plan :
             /\ \A d \in Deps(graph, t.plan[i]) :
                  gerrit[d] = "merged" \/ \E j \in DOMAIN t.plan : t.plan[j] = d
             /\ \A d \in Members(graph.gerrit[t.plan[i]]) :
                  gerrit[d] = "merged" \/ \E j \in 1 .. i - 1 : t.plan[j] = d
    BY <1>1, <1>2, <1>6, TransactionIs DEF IInv
  <2>2. Failed' = Failed
    BY <1>6 DEF Failed
  <2>3. plan' \in Seq(approved) /\ Len(plan') \in Nat /\ DOMAIN plan' = 1 .. Len(plan')
    <3>1. Len(t.plan) \in Nat /\ DOMAIN t.plan = 1 .. Len(t.plan)
      BY <2>1, LenProperties
    <3> QED
      BY <1>6, <2>1, <3>1
  <2>4. TypeOK'
    <3>1. pos' \in 1 .. Len(plan') + 1
      BY <1>2, <1>3, <2>3
    <3> QED
      BY <1>2, <1>6, <2>2, <2>3, <3>1 DEF IInv, TypeOK
  <2>5. PhaseInv'
    BY <1>2, <1>3, <1>6, <2>2 DEF PhaseInv
  <2>6. PlanInv'
    BY <1>2, <1>3, <1>6, <2>1 DEF PlanInv
  <2>7. RestsOn'
    BY <1>2, <1>6, <2>1 DEF RestsOn
  <2>8. AskInv' /\ PollInv'
    BY <1>2, <1>6, <2>2 DEF IInv, AskInv, PollInv, Polling, Answered
  <2>9. AnswerInv'
    <3>1. \A d \in Changes : gerrit[d] = "merged" \/ d \in Failed \cup todo
      BY <1>2, <1>3 DEF IInv, AnswerInv
    <3>2. gerrit[c] = "merged" \/ \E i \in pos' .. Len(plan') : plan'[i] = c
      BY <1>2, <1>3, <1>6, <2>1, <2>3
    <3> QED
      BY <1>2, <1>6, <2>2, <3>1, <3>2 DEF AnswerInv
  <2> QED
    BY <1>4, <2>4, <2>5, <2>6, <2>7, <2>8, <2>9 DEF IInv
<1> QED
  BY <1>2, <1>5, <1>6

(* When Gerrit is asked to submit a change it has not been asked before,    *)
(* and what the change was made on is in.                                   *)
LEMMA AskingIs ==
  ASSUME IInv, Asking
  PROVE  /\ asked[Current] = 0 /\ Current \in Changes /\ Current \notin Answered
         /\ \A d \in Members(graph.gerrit[Current]) : gerrit[d] = "merged"
<1>1. /\ pc = "submit" /\ pos <= Len(plan)
      /\ Current \notin Failed /\ ~stack
  BY DEF Asking, AtChange, HoldsBack
<1>2. pos \in DOMAIN plan /\ pos \in Nat /\ Current \in Changes /\ Current = plan[pos]
  BY <1>1, PlanIs DEF IInv, Current
<1>3. Current \notin submitted \cup committed
  <2>1. \A j \in 1 .. pos - 1 : j \in DOMAIN plan /\ j # pos
    BY <1>1, <1>2, PlanIs DEF IInv
  <2> QED
    BY <1>2, <2>1 DEF IInv, PlanInv
<1>4. asked[Current] = 0
  <2>1. asked[Current] \in Nat
    <3>1. asked \in [Changes -> 0 .. MaxAsks]
      BY DEF IInv, TypeOK
    <3>2. MaxAsks \in Nat
      BY SubmitAssumption
    <3> QED
      BY <1>2, <3>1, <3>2
  <2>2. ~(asked[Current] > 0)
    BY <1>1, <1>2, <1>3 DEF IInv, AskInv, Polling, Answered
  <2> QED
    BY <2>1, <2>2
<1>5. \A d \in Members(graph.gerrit[Current]) : gerrit[d] = "merged"
  BY <1>1, <1>2 DEF IInv, RestsOn, PlanInv, MergedInv
<1> QED
  BY <1>1, <1>2, <1>3, <1>4, <1>5 DEF Answered

(* A change of the transaction fails: what is left of it is held back. *)
LEMMA FailsStep ==
  ASSUME IInv, NEW reason \in Reasons, Fails(reason),
         pc \in {"submit", "wait", "poke"}, pos <= Len(plan),
         UNCHANGED <<graph, gerrit, touched, approved, todo, plan, committed,
                     incorrect, outcome>>,
         asked' = asked \/ Asking
  PROVE  IInv'
<1>1. /\ pos \in Nat /\ Len(plan) \in Nat /\ pos \in DOMAIN plan
      /\ DOMAIN plan = 1 .. Len(plan) /\ pos >= 1
      /\ Current \in Changes /\ Current = plan[pos]
  BY PlanIs DEF IInv, Current
<1>2. PICK d : d = Current
  OBVIOUS
<1>3. /\ errors' = With(d, reason) /\ stack' = TRUE
      /\ pos' = pos + 1 /\ pc' = "submit" /\ submitted' = submitted
  BY <1>2 DEF Fails
<1>4. Failed' = Failed \cup {d} /\ errors' \in [Failed' -> Reasons] /\ Failed' \subseteq Changes
  BY <1>1, <1>2, <1>3, WithIs DEF IInv
<1>5. /\ asked' \in [Changes -> 0 .. MaxAsks]
      /\ \A c \in Changes : c # d => asked'[c] = asked[c]
      /\ asked'[d] = asked[d]
         \/ /\ asked'[d] = 1
            /\ \A e \in Members(graph.gerrit[d]) : gerrit[e] = "merged"
  <2>1. asked \in [Changes -> 0 .. MaxAsks] /\ MaxAsks \in Nat \ {0}
    BY SubmitAssumption DEF IInv, TypeOK
  <2>2. CASE asked' = asked
    BY <2>1, <2>2
  <2>3. CASE Asking
    <3>1. asked' = [asked EXCEPT ![d] = @ + 1]
      BY <1>2, <2>3 DEF Asking
    <3>2. asked[d] = 0 /\ \A e \in Members(graph.gerrit[d]) : gerrit[e] = "merged"
      BY <1>2, <2>3, AskingIs
    <3> QED
      BY <1>1, <1>2, <2>1, <3>1, <3>2
  <2> QED
    BY <2>2, <2>3
<1>6. TypeOK'
  <2>1. pos' \in 1 .. Len(plan') + 1
    BY <1>1, <1>3
  <2> QED
    BY <1>3, <1>4, <1>5, <2>1 DEF IInv, TypeOK
<1>7. PhaseInv'
  BY <1>3 DEF IInv, PhaseInv
<1>8. PlanInv'
  <2>1. \A j \in 1 .. pos' - 1 : j \in 1 .. pos - 1 \/ plan'[j] = d
    BY <1>1, <1>2, <1>3
  <2>2. \A j \in 1 .. pos - 1 : j \in 1 .. pos' - 1
    BY <1>1, <1>3
  <2> QED
    BY <1>3, <1>4, <2>1, <2>2 DEF IInv, PlanInv
<1>9. RestsOn'
  BY DEF IInv, RestsOn
<1>10. MergedInv' /\ ReportInv'
  BY <1>3 DEF IInv, MergedInv, ReportInv
<1>11. AskInv'
  <2> SUFFICES ASSUME NEW c \in Changes, asked'[c] > 0
               PROVE  /\ c \in Failed' \cup submitted' \cup committed'
                      /\ \A e \in Members(graph.gerrit[c]) : gerrit[e] = "merged"
    BY DEF AskInv, Answered
  <2>1. CASE c = d
    BY <1>4, <1>5, <2>1 DEF IInv, AskInv
  <2>2. CASE c # d
    BY <1>2, <1>3, <1>4, <1>5, <2>2 DEF IInv, AskInv, Answered
  <2> QED
    BY <2>1, <2>2
<1>12. AnswerInv'
  <2>1. \A i \in pos .. Len(plan) : i \in pos' .. Len(plan') \/ plan[i] = d
    BY <1>1, <1>2, <1>3
  <2>2. outcome # "TypeError"
    BY DEF IInv, PhaseInv
  <2> QED
    BY <1>3, <1>4, <2>1, <2>2 DEF IInv, AnswerInv
<1>13. PollInv'
  BY <1>3 DEF PollInv, Polling
<1> QED
  BY <1>6, <1>7, <1>8, <1>9, <1>10, <1>11, <1>12, <1>13 DEF IInv

(* Gerrit accepts a change that it was not asked to submit before. *)
LEMMA AcceptedStep ==
  ASSUME IInv, Accepted
  PROVE  IInv'
<1>1. PICK d : d = Current
  OBVIOUS
<1>2. /\ UNCHANGED <<graph, touched, approved, todo, plan, pos, stack, submitted,
                     committed, errors, incorrect, outcome>>
      /\ pc = "submit" /\ pc' = "wait" /\ pos <= Len(plan) /\ ~stack
      /\ gerrit[d] = "new" /\ gerrit' = [gerrit EXCEPT ![d] = "submitted"]
      /\ asked' = [asked EXCEPT ![d] = @ + 1]
  BY <1>1 DEF Accepted, Asking, AtChange, HoldsBack, loop
<1>3. /\ asked[d] = 0 /\ d \in Changes /\ d \notin Answered
      /\ \A e \in Members(graph.gerrit[d]) : gerrit[e] = "merged"
  BY <1>1, AskingIs DEF Accepted
<1>4. /\ gerrit' \in [Changes -> {"new", "submitted", "merged"}]
      /\ \A e \in Changes : gerrit[e] = "merged" => gerrit'[e] = "merged"
  BY <1>2, <1>3 DEF IInv, TypeOK
<1>5. /\ asked' \in [Changes -> 0 .. MaxAsks] /\ asked'[d] = 1
      /\ \A c \in Changes : c # d => asked'[c] = asked[c]
  <2>1. /\ asked \in [Changes -> 0 .. MaxAsks] /\ MaxAsks \in Nat \ {0}
        /\ asked' = [asked EXCEPT ![d] = @ + 1]
    BY <1>2, SubmitAssumption DEF IInv, TypeOK
  <2> QED
    BY <1>3, <2>1
<1>6. Failed' = Failed
  BY <1>2 DEF Failed
<1>7. TypeOK'
  BY <1>2, <1>4, <1>5, <1>6 DEF IInv, TypeOK
<1>8. PhaseInv'
  BY <1>2 DEF IInv, PhaseInv
<1>9. PlanInv'
  BY <1>2, <1>6 DEF IInv, PlanInv
<1>10. RestsOn'
  <2>1. \A i \in DOMAIN plan :
          /\ Members(graph.gerrit[plan[i]]) \subseteq Changes
          /\ Deps(graph, plan[i]) \subseteq Changes
    BY PlanIs, DepsType DEF IInv
  <2> QED
    BY <1>2, <1>4, <2>1 DEF IInv, RestsOn
<1>11. MergedInv'
  BY <1>2, <1>4 DEF IInv, MergedInv, TypeOK
<1>12. AskInv'
  <2> SUFFICES ASSUME NEW c \in Changes, asked'[c] > 0
               PROVE  /\ c \in Failed' \cup submitted' \cup committed' \/ c = d
                      /\ \A e \in Members(graph.gerrit[c]) : gerrit'[e] = "merged"
    BY <1>1, <1>2 DEF AskInv, Current, Polling, Answered
  <2>1. /\ c \in Failed \cup submitted \cup committed \/ c = d
        /\ \A e \in Members(graph.gerrit[c]) : gerrit[e] = "merged"
    BY <1>1, <1>2, <1>3, <1>5 DEF IInv, AskInv, Polling, Answered
  <2>2. Members(graph.gerrit[c]) \subseteq Changes
    BY DepsType DEF IInv
  <2> QED
    BY <1>2, <1>4, <1>6, <2>1, <2>2
<1>13. ReportInv'
  <2>1. \A c \in committed : Deps(graph, c) \subseteq Changes
    BY DepsType DEF IInv, TypeOK
  <2> QED
    BY <1>2, <1>4, <2>1 DEF IInv, ReportInv
<1>14. AnswerInv'
  BY <1>2, <1>4, <1>6 DEF IInv, AnswerInv
<1>15. PollInv'
  <2>1. Current' = d
    BY <1>1, <1>2 DEF Current
  <2> QED
    BY <1>2, <1>3, <1>5, <1>6, <2>1 DEF PollInv, Answered
<1> QED
  BY <1>7, <1>8, <1>9, <1>10, <1>11, <1>12, <1>13, <1>14, <1>15 DEF IInv

(* Polling shows that Gerrit has not merged the change yet. *)
LEMMA PollsStep ==
  ASSUME IInv, Polls
  PROVE  IInv'
<1>1. /\ UNCHANGED <<graph, gerrit, touched, approved, todo, plan, pos, stack,
                     submitted, committed, errors, asked, incorrect, outcome>>
      /\ pc = "wait" /\ pc' = "poke" /\ asked[Current] < MaxAsks
  BY DEF Polls, loop, results
<1>2. outcome = "none"
  BY <1>1 DEF IInv, PhaseInv
<1>3. Failed' = Failed /\ PlanInv' /\ RestsOn' /\ MergedInv' /\ ReportInv' /\ TypeOK'
  BY <1>1, <1>2, QuietStep
<1>4. PhaseInv'
  BY <1>1, <1>2, <1>3 DEF IInv, PhaseInv
<1>5. Current' = Current /\ Polling' = Polling /\ Answered' = Answered
  BY <1>1, <1>3 DEF Current, Polling, Answered
<1>6. AskInv' /\ PollInv'
  BY <1>1, <1>3, <1>5 DEF IInv, AskInv, PollInv, Polling
<1>7. AnswerInv'
  BY <1>1, <1>2, <1>3 DEF IInv, AnswerInv
<1> QED
  BY <1>3, <1>4, <1>6, <1>7 DEF IInv

(* Gerrit is asked again for the change that is being polled, which may be  *)
(* merged or not by now; nothing else moves.                                *)
LEMMA PokeStep ==
  ASSUME IInv, Poke
  PROVE  IInv'
<1>1. PICK d : d = Current
  OBVIOUS
<1>2. /\ UNCHANGED <<graph, touched, approved, todo, plan, pos, stack, submitted,
                     committed, errors, incorrect, outcome>>
      /\ pc = "poke" /\ pc' = "wait"
      /\ asked' = [asked EXCEPT ![d] = @ + 1]
      /\ \/ gerrit' = gerrit
         \/ gerrit[d] = "new" /\ gerrit' = [gerrit EXCEPT ![d] = "submitted"]
  BY <1>1 DEF Poke, loop
<1>3. /\ pos <= Len(plan) /\ ~stack /\ outcome = "none"
      /\ d \notin Failed /\ asked[d] > 0 /\ asked[d] < MaxAsks
  BY <1>1, <1>2 DEF IInv, PhaseInv, PollInv, Polling
<1>4. d \in Changes
  BY <1>1, <1>3, PlanIs DEF IInv, Current
<1>5. /\ gerrit' \in [Changes -> {"new", "submitted", "merged"}]
      /\ \A e \in Changes : gerrit[e] = "merged" => gerrit'[e] = "merged"
  BY <1>2, <1>4 DEF IInv, TypeOK
<1>6. /\ asked' \in [Changes -> 0 .. MaxAsks] /\ asked'[d] > 0
      /\ \A c \in Changes : asked'[c] > 0 => asked[c] > 0
  <2>1. asked \in [Changes -> 0 .. MaxAsks] /\ MaxAsks \in Nat
    BY SubmitAssumption DEF IInv, TypeOK
  <2> QED
    BY <1>2, <1>3, <1>4, <2>1
<1>7. /\ Failed' = Failed /\ Current' = d /\ Answered' = Answered
      /\ Polling' = Polling
  BY <1>1, <1>2 DEF Failed, Current, Answered, Polling
<1>8. TypeOK'
  BY <1>2, <1>5, <1>6, <1>7 DEF IInv, TypeOK
<1>9. PhaseInv' /\ PlanInv'
  BY <1>2, <1>3, <1>7 DEF IInv, PhaseInv, PlanInv
<1>10. \A c \in Changes :
         Members(graph.gerrit[c]) \subseteq Changes /\ Deps(graph, c) \subseteq Changes
  BY DepsType DEF IInv
<1>11. RestsOn'
  BY <1>2, <1>5, <1>10, PlanIs DEF IInv, RestsOn
<1>12. MergedInv'
  BY <1>2, <1>5 DEF IInv, MergedInv, TypeOK
<1>13. AskInv'
  BY <1>1, <1>2, <1>5, <1>6, <1>7, <1>10 DEF IInv, AskInv
<1>14. PollInv'
  BY <1>2, <1>3, <1>6, <1>7 DEF PollInv
<1>15. ReportInv'
  BY <1>2, <1>5, <1>10 DEF IInv, TypeOK, ReportInv
<1>16. AnswerInv'
  BY <1>2, <1>5, <1>7 DEF IInv, AnswerInv
<1> QED
  BY <1>8, <1>9, <1>11, <1>12, <1>13, <1>14, <1>15, <1>16 DEF IInv

(* A change is seen merged. *)
LEMMA SeesMergedStep ==
  ASSUME IInv, SeesMerged
  PROVE  IInv'
<1>1. PICK d : d = Current
  OBVIOUS
<1>2. /\ UNCHANGED <<graph, gerrit, touched, approved, todo, plan, stack,
                     committed, errors, asked, incorrect, outcome>>
      /\ pc = "wait" /\ pc' = "submit" /\ gerrit[d] = "merged"
      /\ submitted' = submitted \cup {d} /\ pos' = pos + 1
  BY <1>1 DEF SeesMerged, results
<1>3. pos <= Len(plan) /\ ~stack /\ outcome = "none"
  BY <1>2 DEF IInv, PhaseInv
<1>4. /\ pos \in Nat /\ Len(plan) \in Nat /\ pos \in DOMAIN plan /\ pos >= 1
      /\ d = plan[pos] /\ d \in approved
  BY <1>1, <1>3, PlanIs DEF IInv, Current
<1>5. Failed' = Failed
  BY <1>2 DEF Failed
<1>6. TypeOK'
  <2>1. pos' \in 1 .. Len(plan') + 1
    BY <1>2, <1>3, <1>4
  <2> QED
    BY <1>2, <1>4, <1>5, <2>1 DEF IInv, TypeOK
<1>7. PhaseInv'
  BY <1>2, <1>3 DEF PhaseInv
<1>8. PlanInv'
  <2>1. \A j \in 1 .. pos' - 1 : j \in 1 .. pos - 1 \/ plan'[j] = d
    BY <1>2, <1>4
  <2>2. /\ \A j \in 1 .. pos - 1 : j \in 1 .. pos' - 1
        /\ pos \in 1 .. pos' - 1
    BY <1>2, <1>4
  <2> QED
    BY <1>2, <1>3, <1>4, <1>5, <2>1, <2>2 DEF IInv, PlanInv
<1>9. RestsOn'
  BY <1>2 DEF IInv, RestsOn
<1>10. MergedInv' /\ ReportInv'
  BY <1>2 DEF IInv, MergedInv, ReportInv
<1>11. AskInv' /\ PollInv'
  BY <1>1, <1>2, <1>5 DEF IInv, AskInv, PollInv, Polling, Answered
<1>12. AnswerInv'
  <2>1. \A i \in pos .. Len(plan) : i \in pos' .. Len(plan') \/ plan[i] = d
    BY <1>2, <1>4
  <2> QED
    BY <1>2, <1>3, <1>5, <2>1 DEF IInv, AnswerInv
<1> QED
  BY <1>6, <1>7, <1>8, <1>9, <1>10, <1>11, <1>12 DEF IInv

(* The end of a transaction: each of its changes is in or has failed, and   *)
(* what went in without a dependency is reported.                           *)
LEMMA EndTransactionStep ==
  ASSUME IInv, EndTransaction
  PROVE  IInv'
<1>1. /\ UNCHANGED <<graph, gerrit, touched, approved, todo, errors, asked, outcome>>
      /\ pc = "submit" /\ pc' = "next" /\ pos > Len(plan)
      /\ committed' = committed \cup submitted
      /\ incorrect' = incorrect \cup Erroneous
      /\ plan' = <<>> /\ pos' = 1 /\ stack' = FALSE /\ submitted' = {}
  BY DEF EndTransaction, NowCommitted
<1>2. /\ Len(plan) \in Nat /\ pos \in Nat /\ DOMAIN plan = 1 .. Len(plan)
      /\ \A i \in DOMAIN plan : i \in 1 .. pos - 1
      /\ \A i \in 1 .. pos - 1 : i \in DOMAIN plan
  BY <1>1, PlanIs DEF IInv
<1>3. Failed' = Failed
  BY <1>1 DEF Failed
<1>4. outcome = "none"
  BY <1>1 DEF IInv, PhaseInv
<1>5. plan' \in Seq(approved') /\ Len(plan') = 0
  BY <1>1, EmptySeq
<1>6. TypeOK'
  <2>1. pos' \in 1 .. Len(plan') + 1
    BY <1>1, <1>5
  <2>2. incorrect' \subseteq committed' /\ committed' \subseteq approved
    BY <1>1 DEF IInv, TypeOK, Erroneous
  <2> QED
    BY <1>1, <1>3, <1>5, <2>1, <2>2 DEF IInv, TypeOK
<1>7. PhaseInv'
  BY <1>1, <1>4 DEF PhaseInv
<1>8. PlanInv' /\ RestsOn'
  <2>1. plan' = <<>> /\ pos' = 1 /\ submitted' = {}
    BY <1>1
  <2>2. DOMAIN plan' = {} /\ 1 .. pos' - 1 = {}
    BY <2>1
  <2> QED
    BY <2>1, <2>2 DEF PlanInv, RestsOn
<1>9. MergedInv'
  BY <1>1 DEF IInv, MergedInv
<1>10. AskInv' /\ PollInv'
  BY <1>1, <1>3 DEF IInv, AskInv, PollInv, Polling, Answered
<1>11. ReportInv'
  <2> SUFFICES ASSUME NEW c \in committed \cup submitted, NEW d \in Deps(graph, c)
               PROVE  gerrit[d] = "merged" \/ c \in incorrect \cup Erroneous
    BY <1>1 DEF ReportInv
  <2>1. CASE c \in committed
    BY <2>1 DEF IInv, ReportInv
  <2>2. CASE c \in submitted
    <3>1. PICK i \in DOMAIN plan : plan[i] = c
      BY <1>2, <2>2 DEF IInv, PlanInv
    <3>2. gerrit[d] = "merged" \/ \E j \in DOMAIN plan : plan[j] = d
      BY <3>1 DEF IInv, RestsOn
    <3>3. gerrit[d] = "merged" \/ d \in Failed
      BY <1>2, <3>2 DEF IInv, PlanInv, MergedInv
    <3> QED
      BY <2>2, <3>3 DEF Erroneous, DependenciesOf
  <2> QED
    BY <2>1, <2>2
<1>12. AnswerInv'
  <2>1. \A c \in Changes : gerrit[c] = "merged" \/ c \in Failed \cup todo
    BY <1>1, <1>2, <1>4 DEF IInv, AnswerInv
  <2> QED
    BY <1>1, <1>3, <2>1 DEF AnswerInv
<1> QED
  BY <1>6, <1>7, <1>8, <1>9, <1>10, <1>11, <1>12 DEF IInv
-----------------------------------------------------------------------------
(* Every step keeps the invariant.                                          *)

(* A step of SubmitPool. *)
LEMMA SubmitterStep ==
  ASSUME IInv, Submitter
  PROVE  IInv'
<1>1. CASE CheckTree(TRUE) \/ CheckTree(FALSE)
  BY <1>1, CheckTreeStep
<1>2. CASE \E ready \in SUBSET Changes : FilterChanges(ready)
  BY <1>2, FilterStep
<1>3. CASE \E c \in Changes : Start(c)
  BY <1>3, StartStep
<1>4. CASE PassOver
  <2>1. PICK reason \in Reasons :
          reason = IF Current \in Failed THEN errors[Current] ELSE "dependency"
    <3>1. errors \in [Failed -> Reasons]
      BY DEF IInv, TypeOK
    <3>2. "dependency" \in Reasons
      BY DEF Reasons, Whitelisted
    <3> QED
      BY <3>1, <3>2
  <2>2. Fails(reason)
    BY <1>4, <2>1 DEF PassOver
  <2>3. /\ pc = "submit" /\ pos <= Len(plan) /\ asked' = asked
        /\ UNCHANGED <<graph, gerrit, touched, approved, todo, plan, committed,
                       incorrect, outcome>>
    BY <1>4 DEF PassOver, AtChange
  <2> QED
    BY <2>2, <2>3, FailsStep
<1>5. CASE Refused("conflict") \/ Refused("failed")
  <2>1. PICK reason \in {"conflict", "failed"} : Refused(reason)
    BY <1>5
  <2>2. reason \in Reasons
    BY DEF Reasons, Whitelisted
  <2>3. /\ Fails(reason) /\ Asking /\ pc = "submit" /\ pos <= Len(plan)
        /\ UNCHANGED <<graph, gerrit, touched, approved, todo, plan, committed,
                       incorrect, outcome>>
    BY <2>1 DEF Refused, Asking, AtChange
  <2> QED
    BY <2>2, <2>3, FailsStep
<1>6. CASE StopsWaiting
  <2>1. "failed" \in Reasons
    BY DEF Reasons
  <2>2. /\ Fails("failed") /\ pc \in {"wait", "poke"} /\ asked' = asked
        /\ UNCHANGED <<graph, gerrit, touched, approved, todo, plan, committed,
                       incorrect, outcome>>
    BY <1>6 DEF StopsWaiting
  <2>3. pos <= Len(plan)
    BY <2>2 DEF IInv, PhaseInv
  <2> QED
    BY <2>1, <2>2, <2>3, FailsStep
<1> QED
  BY <1>1, <1>2, <1>3, <1>4, <1>5, <1>6, AcceptedStep, PollsStep, PokeStep,
     SeesMergedStep, EndTransactionStep, FinishStep
  DEF Submitter

LEMMA Inductive == IInv /\ [Next]_vars => IInv'
<1> SUFFICES ASSUME IInv, [Next]_vars PROVE IInv'
  OBVIOUS
<1>1. CASE UNCHANGED vars
  <2>1. /\ UNCHANGED <<graph, gerrit, touched, approved, todo, plan, pos, stack,
                       submitted, committed, errors, asked, incorrect>>
        /\ UNCHANGED <<pc, outcome>>
    BY <1>1 DEF vars, loop, results
  <2>2. /\ Failed' = Failed /\ PlanInv' /\ RestsOn' /\ MergedInv' /\ ReportInv'
        /\ TypeOK'
    BY <2>1, QuietStep DEF IInv, TypeOK
  <2>3. PhaseInv'
    BY <2>1, <2>2 DEF IInv, PhaseInv
  <2>4. AskInv' /\ PollInv'
    BY <2>1, <2>2 DEF IInv, AskInv, PollInv, Polling, Answered, Current
  <2>5. AnswerInv'
    BY <2>1, <2>2 DEF IInv, AnswerInv
  <2> QED
    BY <2>2, <2>3, <2>4, <2>5 DEF IInv
<1>2. CASE Next
  BY <1>1, <1>2, SubmitterStep, OthersStep DEF Next
<1> QED
  BY <1>1, <1>2

LEMMA Invariance == Spec => []IInv
  BY InitInv, Inductive, PTL DEF Spec

-----------------------------------------------------------------------------
(* What SubmitPool promises.                                                *)

(* Every variable has its type, whatever developers and Gerrit do while the *)
(* pool is submitted.                                                       *)
THEOREM TypeCorrect == Spec => []TypeOK
<1>1. IInv => TypeOK
  BY DEF IInv
<1> QED
  BY <1>1, Invariance, PTL

(* Gerrit is asked to submit a change only when every change it was made on *)
(* is in, though any of them may be refused, be given up on or be modified  *)
(* in the meantime (_SubmitChangeWithDeps stops a transaction at its first  *)
(* error).                                                                  *)
THEOREM ParentsFirst == Spec => []ParentsMergeFirst
<1>1. IInv => ParentsMergeFirst
  BY DEF IInv, AskInv, ParentsMergeFirst
<1> QED
  BY <1>1, Invariance, PTL

(* A change for which Gerrit was asked is asked for again only by the poll  *)
(* of its own three minutes, though the transactions of the pool overlap    *)
(* and some of them fail halfway; what was merged or has failed, never.     *)
THEOREM SubmittedInOneGo == Spec => AskedInOneGo
<1>1. ASSUME IInv, [Next]_vars, NEW c \in Changes, asked'[c] # asked[c]
      PROVE  c \notin Answered /\ (asked[c] = 0 \/ (pc = "poke" /\ c = Current))
  <2>1. CASE Asking
    <3>1. c = Current
      BY <1>1, <2>1 DEF Asking, IInv, TypeOK
    <3> QED
      BY <1>1, <2>1, <3>1, AskingIs
  <2>2. CASE Poke
    <3>1. c = Current /\ pc = "poke"
      BY <1>1, <2>2 DEF Poke, IInv, TypeOK
    <3>2. pos <= Len(plan) /\ Current \notin Failed
      BY <1>1, <3>1 DEF IInv, PhaseInv, PollInv, Polling
    <3>3. pos \in DOMAIN plan /\ \A j \in 1 .. pos - 1 : j \in DOMAIN plan /\ j # pos
      BY <1>1, <3>2, PlanIs DEF IInv
    <3>4. Current \notin submitted \cup committed
      BY <1>1, <3>3 DEF IInv, PlanInv, Current
    <3> QED
      BY <3>1, <3>2, <3>4 DEF Answered
  <2>3. CASE UNCHANGED asked
    BY <1>1, <2>3
  <2>4. Asking \/ Poke \/ UNCHANGED asked
    <3>1. CASE UNCHANGED vars
      BY <3>1 DEF vars, results
    <3>2. CASE Others
      BY <3>2 DEF Others, UploadPatchSet, Chump, Settle, results
    <3>3. CASE Submitter
      BY <3>3
      DEF Submitter, CheckTree, FilterChanges, Start, PassOver, Refused, Accepted,
          Polls, SeesMerged, StopsWaiting, EndTransaction, Finish, results
    <3> QED
      BY <1>1, <3>1, <3>2, <3>3 DEF Next
  <2> QED
    BY <2>1, <2>2, <2>3, <2>4
<1>2. ASSUME IInv, [Next]_vars
      PROVE  [\A c \in Changes : asked'[c] # asked[c] =>
                /\ c \notin Answered
                /\ asked[c] = 0 \/ (pc = "poke" /\ c = Current)]_vars
  BY <1>1, <1>2
<1> QED
  BY <1>2, Invariance, PTL DEF Spec, AskedInOneGo

(* When SubmitPool ends, each change is merged or an error is recorded for  *)
(* it; it ends well only if all are merged.                                 *)
THEOREM NoneForgotten == Spec => []EveryoneAnswered
<1>1. IInv => EveryoneAnswered
  <2> SUFFICES ASSUME IInv, outcome \in {"all submitted", "non-fatal", "fatal"},
                      NEW c \in Changes
               PROVE  gerrit[c] = "merged" \/ (outcome # "all submitted" /\ c \in Failed)
    BY DEF EveryoneAnswered
  <2>1. /\ pc = "over" /\ todo = {} /\ plan = <<>> /\ pos = 1
        /\ outcome = "all submitted" => Failed = {}
    BY DEF IInv, PhaseInv
  <2>2. \A d \in Changes :
          \/ gerrit[d] = "merged" \/ d \in Failed
          \/ \E i \in pos .. Len(plan) : plan[i] = d
    BY <2>1 DEF IInv, AnswerInv
  <2>3. pos .. Len(plan) = {}
    BY <2>1, NothingPlanned
  <2> QED
    BY <2>1, <2>2, <2>3
<1> QED
  BY <1>1, Invariance, PTL

(* A change that was submitted although one of its dependencies was not is  *)
(* reported, so that somebody can look at it.                               *)
THEOREM BrokenDependenciesTold == Spec => []MissingDependencyReported
<1>1. IInv => MissingDependencyReported
  BY DEF IInv, ReportInv, MissingDependencyReported, DependenciesOf
<1> QED
  BY <1>1, Invariance, PTL
=============================================================================
