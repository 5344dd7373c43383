----------------------------- MODULE CommitQueue -----------------------------
(***************************************************************************)
(* One run of the commit queue: the master publishes a candidate manifest  *)
(* with the changes of its pool, the slaves claim it, build it, test it on *)
(* hardware and upload a status; the master polls the statuses until all   *)
(* are final or it has waited too long, and then submits the pool, submits *)
(* part of it, or decides whom to blame (stages/completion_stages.py with  *)
(* lkgm_manager.py, test_stages.py and validation_pool.py).                *)
(*                                                                         *)
(* A slave that fails aborts the hardware tests of all the others.  A run  *)
(* may be killed or raise between two steps, as it does when Google        *)
(* Storage or git fails or when the tree is closed.  When the run of a     *)
(* slave ends, buildbot starts another.  A master that dies before it      *)
(* decides is one that takes no more steps.                                *)
(***************************************************************************)
EXTENDS Integers, Sequences, FiniteSets

CONSTANTS
  Slaves,     \* GetSlavesForMaster
  SlaveList,  \* in the order in which the master asks for their status
  Internal,   \* the slaves with private overlays
  Overlays,   \* the overlays of the boards of each slave
  Changes,    \* the changes of the pool
  Stages,     \* the stages of the builders beside the hardware tests
  Scenes,     \* what the run may be: sanity_check_slaves and the changes
  Projects,   \* the projects of changes and of packages
  OverlayProjects, Chromite,
  BuildFaults,  \* the tracebacks of stages before the tests
  TestFaults, \* the tracebacks of stages beside the hardware tests
  MaxRounds   \* bound: the rounds of polling that fit in the timeout

HWTest == "HWTest"
Infra == {"lab", "infra"}
Tracebacks ==
  [stage : Stages \cup {HWTest, "none"},
   cause : Infra \cup {"bug", "unreadable"} \cup Projects]
HWFaults == {[stage |-> HWTest, cause |-> k] : k \in Infra \cup {"bug"}}

(* A status that cannot be unpickled is a failure without a message. *)
NoMessage == {[stage |-> "none", cause |-> "unreadable"]}

ChangeType ==
  [project : Projects, internal : BOOLEAN, bad : BOOLEAN,
   overlays : SUBSET UNION {Overlays[s] : s \in Slaves},
   ignored : SUBSET (Stages \cup {HWTest})]

ASSUME QueueAssumption ==
  /\ IsFiniteSet(Slaves) /\ Internal \subseteq Slaves
  /\ DOMAIN Overlays = Slaves
  /\ SlaveList \in Seq(Slaves)
  /\ \A s \in Slaves : \E i \in DOMAIN SlaveList : SlaveList[i] = s
  /\ Chromite \in Projects /\ OverlayProjects \subseteq Projects
  /\ \A f \in BuildFaults \cup TestFaults : \A t \in f : t \in Tracebacks /\ t.stage # HWTest
  /\ MaxRounds \in Nat \ {0}
  /\ \A x \in Scenes : /\ x.sanity \subseteq Slaves
                       /\ x.change \in [Changes -> ChangeType]

VARIABLES
  scene,      \* the configuration and the changes of this run
  published,  \* is the candidate in manifest-versions?
  status,     \* the status of each slave in Google Storage
  aborted,    \* the hwtests-aborted marker in Google Storage
  pc,         \* where the latest run of each slave is
  success,    \* did it succeed (so far)?
  fault,      \* the tracebacks of its stages
  skipped,    \* were its hardware tests given up?
  master,     \* where the master is
  fine,       \* did the master's own stages succeed?
  rounds,     \* its rounds of polling
  asking,     \* whom it has still to ask in this round
  seen,       \* builder_statuses: what it last read of each slave
  todo,       \* the changes left in the loop it is in
  left,       \* the changes it did not try to submit
  cl,         \* what became of each change
  marked,     \* the changes marked as failed in Google Storage
  promoted    \* is the candidate the LKGM?

slaves == <<pc, success, fault, skipped>>
polling == <<rounds, asking, seen>>
deciding == <<todo, left, cl, marked, promoted>>
vars == <<scene, published, status, aborted, slaves, master, fine, polling,
          deciding>>

Sanity == scene.sanity
Change(c) == scene.change[c]

Init ==
  /\ scene \in Scenes
  /\ published = FALSE /\ aborted = FALSE
  /\ status = [s \in Slaves |-> "missing"]
  /\ pc = [s \in Slaves |-> "wait"]
  /\ success = [s \in Slaves |-> FALSE]
  /\ fault = [s \in Slaves |-> {}]
  /\ skipped = [s \in Slaves |-> FALSE]
  /\ master = "publish" /\ fine = FALSE
  /\ rounds = 0 /\ asking = << >>
  /\ seen = [s \in Slaves |-> [state |-> "missing", message |-> {}]]
  /\ todo = {} /\ left = {}
  /\ cl = [c \in Changes |-> "ready"]
  /\ marked = {} /\ promoted = FALSE

-----------------------------------------------------------------------------
(* The slaves *)

(* GetLatestCandidate and SetInFlight, with fail_if_exists *)
Unclaimed_Unchecked(s) == TRUE
Unclaimed(s) == status[s] = "missing"

Claim(s) ==
  /\ pc[s] = "wait" /\ published
  /\ Unclaimed(s)
  /\ status' = [status EXCEPT ![s] = "inflight"]
  /\ pc' = [pc EXCEPT ![s] = "build"]
  /\ success' = [success EXCEPT ![s] = FALSE]
  /\ fault' = [fault EXCEPT ![s] = {}]
  /\ skipped' = [skipped EXCEPT ![s] = FALSE]
  /\ UNCHANGED <<scene, published, aborted, master, fine, polling, deciding>>

(* The packages: when they fail there is nothing to test, and cbuildbot may *)
(* fail outside every stage.  Then the stages beside the hardware tests.    *)
Build(s) ==
  /\ pc[s] = "build"
  /\ \/ \E f \in BuildFaults :
          /\ fault' = [fault EXCEPT ![s] = f]
          /\ pc' = [pc EXCEPT ![s] = "report"]
          /\ UNCHANGED success
     \/ \E f \in TestFaults :
          /\ fault' = [fault EXCEPT ![s] = f]
          /\ pc' = [pc EXCEPT ![s] = "hwtest"]
          /\ success' = [success EXCEPT ![s] = (f = {})]
  /\ UNCHANGED <<scene, published, status, aborted, skipped, master, fine,
                 polling, deciding>>

(* HWTestStage.PerformStage *)
StartHWTest(s) ==
  /\ pc[s] = "hwtest"
  /\ pc' = [pc EXCEPT ![s] = IF aborted THEN "report" ELSE "testing"]
  /\ skipped' = [skipped EXCEPT ![s] = aborted]
  /\ UNCHANGED <<scene, published, status, aborted, success, fault, master,
                 fine, polling, deciding>>

HWTestPasses(s) ==
  /\ pc[s] = "testing"
  /\ pc' = [pc EXCEPT ![s] = "report"]
  /\ UNCHANGED <<scene, published, status, aborted, success, fault, skipped,
                 master, fine, polling, deciding>>

(* A failure is a warning if the tests were aborted; asking may fail. *)
HWTestFails(s) ==
  /\ pc[s] = "testing"
  /\ pc' = [pc EXCEPT ![s] = "report"]
  /\ \/ /\ aborted
        /\ skipped' = [skipped EXCEPT ![s] = TRUE]
        /\ UNCHANGED <<success, fault>>
     \/ /\ \E t \in HWFaults : fault' = [fault EXCEPT ![s] = @ \cup {t}]
        /\ success' = [success EXCEPT ![s] = FALSE]
        /\ UNCHANGED skipped
  /\ UNCHANGED <<scene, published, status, aborted, master, fine, polling,
                 deciding>>

(* UploadStatus *)
Report(s) ==
  /\ pc[s] = "report"
  /\ status' = [status EXCEPT ![s] = IF success[s] THEN "pass" ELSE "fail"]
  /\ pc' = [pc EXCEPT ![s] = IF success[s] THEN "wait" ELSE "abort"]
  /\ UNCHANGED <<scene, published, aborted, success, fault, skipped, master,
                 fine, polling, deciding>>

OnlyHWTestFailed_Never(f) == FALSE
OnlyHWTestFailed(f) == Cardinality(f) = 1 /\ \A t \in f : t.stage = HWTest

(* HandleFailure *)
AbortCQHWTests(s) ==
  /\ pc[s] = "abort"
  /\ aborted' = (aborted \/ ~OnlyHWTestFailed(fault[s]))
  /\ pc' = [pc EXCEPT ![s] = "wait"]
  /\ UNCHANGED <<scene, published, status, success, fault, skipped, master,
                 fine, polling, deciding>>

(* What a run has not reported is lost with it. *)
Die(s) ==
  /\ pc[s] # "wait"
  /\ pc' = [pc EXCEPT ![s] = "wait"]
  /\ IF pc[s] = "abort"
     THEN UNCHANGED <<success, fault, skipped>>
     ELSE /\ success' = [success EXCEPT ![s] = FALSE]
          /\ fault' = [fault EXCEPT ![s] = {}]
          /\ skipped' = [skipped EXCEPT ![s] = FALSE]
  /\ UNCHANGED <<scene, published, status, aborted, master, fine, polling,
                 deciding>>

-----------------------------------------------------------------------------
(* The master publishes, builds and waits *)

CreateNewCandidate ==
  /\ master = "publish"
  /\ published' = TRUE
  /\ master' = "build"
  /\ UNCHANGED <<scene, status, aborted, slaves, fine, polling, deciding>>

(* _RunMasterPaladinBuild, then the completion stage *)
MasterBuild ==
  /\ master = "build"
  /\ fine' \in BOOLEAN
  /\ rounds' = 1 /\ asking' = SlaveList
  /\ master' = "poll"
  /\ UNCHANGED <<scene, published, status, aborted, slaves, seen, deciding>>

Final(st) == st.state \in {"pass", "fail"}
Read(s) == [state |-> status[s],
            message |-> IF status[s] = "fail" THEN fault[s] ELSE {}]

(* _CheckStatusOfBuildersArray; a final status is not asked for again. *)
GetBuildStatus(s) ==
  /\ master = "poll" /\ asking # << >> /\ s = Head(asking)
  /\ asking' = Tail(asking)
  /\ \/ Final(seen[s]) /\ UNCHANGED seen
     \/ /\ ~Final(seen[s])
        /\ \/ seen' = [seen EXCEPT ![s] = Read(s)]
           \/ /\ status[s] # "missing"
              /\ seen' = [seen EXCEPT ![s] =
                            [state |-> "fail", message |-> NoMessage]]
  /\ UNCHANGED <<scene, published, status, aborted, slaves, master, fine,
                 rounds, deciding>>

AllFinal == \A s \in Slaves : Final(seen[s])

TimeLeft == rounds < MaxRounds

AskAgain ==
  /\ master = "poll" /\ asking = << >>
  /\ ~AllFinal /\ TimeLeft
  /\ rounds' = rounds + 1
  /\ asking' = SlaveList
  /\ UNCHANGED <<scene, published, status, aborted, slaves, master, fine,
                 seen, deciding>>

-----------------------------------------------------------------------------
(* The master decides *)

In(state) == {s \in Slaves : seen[s].state = state}
NoStat == In("missing")
Failing == In("fail")
Inflight == In("inflight")

IsFailureFatal == ~(Failing \cup NoStat \cup Inflight \subseteq Sanity)

ToTSanity_Trusted == TRUE
ToTSanity == Failing \cap Sanity = {}

(* At the end of a round all are final or time is up; that it may be up     *)
(* after fewer rounds adds nothing, for slaves may be idle between rounds.  *)
Waited_ForAll == master = "poll" /\ asking = << >> /\ AllFinal
Waited ==
  /\ master = "poll" /\ asking = << >>
  /\ AllFinal \/ ~TimeLeft

HandleSuccess ==
  /\ Waited /\ ~IsFailureFatal
  /\ master' = "submit"
  /\ todo' = Changes
  /\ UNCHANGED <<scene, published, status, aborted, slaves, fine, polling,
                 left, cl, marked, promoted>>

StagesOf(f) == {t.stage : t \in f}
Message(s) == seen[s].message
FailingStages == UNION {StagesOf(Message(s)) : s \in Failing}
HasTracebacks(s) == Message(s) \notin {{}, NoMessage}

Accepts_AnyStage(c) == FailingStages \cap Change(c).ignored # {}
Accepts(c) == FailingStages \subseteq Change(c).ignored
Accepted == {c \in Changes : Accepts(c)}

LeftAfter_All(accepted) == Changes
LeftAfter(accepted) == Changes \ accepted

(* CQMasterHandleFailure *)
HandleFailure ==
  /\ Waited /\ IsFailureFatal
  /\ aborted' = (aborted \/ ~fine)
  /\ \/ /\ Failing # {} /\ Inflight = {}
        /\ \A s \in Failing : HasTracebacks(s)
        /\ todo' = Accepted /\ left' = LeftAfter(Accepted)
        /\ master' = "submitpart"
     \/ /\ \/ Failing = {} \/ Inflight # {}
           \/ \E s \in Failing : ~HasTracebacks(s)
        /\ todo' = Changes /\ left' = Changes
        /\ master' = "blame"
  /\ UNCHANGED <<scene, published, status, slaves, fine, polling, cl, marked,
                 promoted>>

(* SubmitChanges; a change that cannot be submitted loses its ready bit. *)
SubmitChange(c) ==
  /\ master \in {"submit", "submitpart"} /\ c \in todo
  /\ cl' \in {[cl EXCEPT ![c] = r] : r \in {"submitted", "unsubmittable"}}
  /\ todo' = todo \ {c}
  /\ UNCHANGED <<scene, published, status, aborted, slaves, master, fine,
                 polling, left, marked, promoted>>

(* SubmitPool raises unless every change was submitted; PromoteCandidate. *)
AllSubmitted == \A c \in Changes : cl[c] = "submitted"

PoolSubmitted ==
  /\ master = "submit" /\ todo = {}
  /\ promoted' = AllSubmitted
  /\ master' = IF AllSubmitted THEN "done" ELSE "gone"
  /\ UNCHANGED <<scene, published, status, aborted, slaves, fine, polling,
                 todo, left, cl, marked>>

PartSubmitted ==
  /\ master = "submitpart" /\ todo = {}
  /\ todo' = left
  /\ master' = "blame"
  /\ UNCHANGED <<scene, published, status, aborted, slaves, fine, polling,
                 left, cl, marked, promoted>>

-----------------------------------------------------------------------------
(* CalculateSuspects *)

Matches_Some(f, causes) == f # {} => \E t \in f : t.cause \in causes
Matches(f, causes) == \A t \in f : t.cause \in causes

OnlyLabFailures ==
  NoStat = {} /\ \A s \in Failing : Matches(Message(s), {"lab"})
OnlyInfraFailures ==
  \A s \in Failing : Matches(Message(s), Infra \cup {"unreadable"})

Responsible == UNION {Overlays[s] : s \in Failing}

InternalFailed == \E s \in Failing : s \in Internal /\ Message(s) # NoMessage

Candidates ==
  {c \in left :
     /\ InternalFailed \/ ~Change(c).internal
     /\ \/ \E s \in Failing : Message(s) = NoMessage
        \/ Change(c).overlays \subseteq Responsible}

FindPackageBuildFailureSuspects(f, changes) ==
  LET failed == {t.cause : t \in f}
      owners == {c \in changes : Change(c).project \in failed}
  IN IF owners = {} \/ ~(failed \subseteq {Change(c).project : c \in changes})
     THEN changes
     ELSE owners \cup {c \in changes : Change(c).project \in OverlayProjects}

FindSuspects ==
  LET bad == {c \in Candidates : Change(c).bad}
  IN IF OnlyLabFailures THEN {}
     ELSE IF OnlyInfraFailures
       THEN {c \in left : Change(c).project = Chromite}
     ELSE IF bad # {} THEN bad
     ELSE IF \A s \in Failing : Matches(Message(s), Projects)
       THEN UNION {FindPackageBuildFailureSuspects(Message(s), Candidates) :
                   s \in Failing}
     ELSE Candidates

(* HandleValidationTimeout or HandleValidationFailure, one change at a time *)
HandleChange(c) ==
  LET kicked == ToTSanity /\ (Inflight # {} \/ c \in FindSuspects)
  IN /\ master = "blame" /\ c \in todo
     /\ todo' = todo \ {c}
     /\ cl' = IF kicked THEN [cl EXCEPT ![c] = "rejected"] ELSE cl
     /\ marked' = IF ToTSanity /\ Inflight = {} THEN marked \cup {c} ELSE marked
     /\ UNCHANGED <<scene, published, status, aborted, slaves, master, fine,
                    polling, left, promoted>>

Blamed ==
  /\ master = "blame" /\ todo = {}
  /\ master' = "done"
  /\ UNCHANGED <<scene, published, status, aborted, slaves, fine, polling,
                 deciding>>

MasterDies ==
  /\ master \in {"submit", "submitpart", "blame"}
  /\ master' = "gone"
  /\ UNCHANGED <<scene, published, status, aborted, slaves, fine, polling,
                 deciding>>

-----------------------------------------------------------------------------
SlaveStep(s) ==
  \/ Claim(s) \/ Build(s) \/ StartHWTest(s) \/ HWTestPasses(s)
  \/ HWTestFails(s) \/ Report(s) \/ AbortCQHWTests(s) \/ Die(s)

MasterStep ==
  \/ CreateNewCandidate \/ MasterBuild
  \/ \E s \in Slaves : GetBuildStatus(s)
  \/ AskAgain \/ HandleSuccess \/ HandleFailure
  \/ \E c \in Changes : SubmitChange(c)
  \/ PoolSubmitted \/ PartSubmitted
  \/ \E c \in Changes : HandleChange(c)
  \/ Blamed

Next == MasterDies \/ MasterStep \/ \E s \in Slaves : SlaveStep(s)

(* The master is scheduled; nothing is asked of the slaves.               *)
Spec == Init /\ [][Next]_vars /\ WF_vars(MasterStep)

-----------------------------------------------------------------------------
States == {"missing", "inflight", "pass", "fail"}
Results == {"ready", "submitted", "unsubmittable", "rejected"}

(* Every run keeps to its states, every message read is the tracebacks of   *)
(* some builder, and the master never polls longer than it has time for.    *)
TypeOK ==
  /\ scene \in Scenes
  /\ published \in BOOLEAN /\ aborted \in BOOLEAN
  /\ status \in [Slaves -> States]
  /\ pc \in [Slaves -> {"wait", "build", "hwtest", "testing", "report",
                        "abort"}]
  /\ success \in [Slaves -> BOOLEAN] /\ skipped \in [Slaves -> BOOLEAN]
  /\ fault \in [Slaves -> SUBSET Tracebacks]
  /\ master \in {"publish", "build", "poll", "submit", "submitpart", "blame",
                 "done", "gone"}
  /\ fine \in BOOLEAN /\ promoted \in BOOLEAN
  /\ rounds \in 0 .. MaxRounds /\ asking \in Seq(Slaves)
  /\ seen \in [Slaves -> [state : States, message : SUBSET Tracebacks]]
  /\ todo \subseteq Changes /\ left \subseteq Changes /\ marked \subseteq Changes
  /\ cl \in [Changes -> Results]

(* A final status that the master read, however long ago, is still what the *)
(* slave reported and how its build went: no other run of the slave builds  *)
(* the candidate again.  A status that could not be unpickled says nothing. *)
SeenIsReported ==
  \A s \in Slaves :
    Final(seen[s]) /\ Message(s) # NoMessage =>
      /\ seen[s] = Read(s)
      /\ success[s] <=> seen[s].state = "pass"

(* Nothing goes further than the slaves consent, sanity checkers left aside: *)
(* a change is submitted only if each slave passed, failed nowhere but in   *)
(* stages that the change ignores, or never told the master that it had     *)
(* started; the candidate becomes the LKGM only with the whole pool         *)
(* submitted and each slave passed.                                         *)
SubmittedWithConsent ==
  /\ \A c \in Changes : cl[c] = "submitted" =>
       \A s \in Slaves \ Sanity :
         \/ success[s]
         \/ seen[s].state = "missing"
         \/ /\ seen[s].state = "fail"
            /\ StagesOf(fault[s]) \subseteq Change(c).ignored
  /\ promoted => /\ \A c \in Changes : cl[c] = "submitted"
                 /\ \A s \in Slaves \ Sanity : status[s] = "pass"

(* Nobody loses the ready bit without a cause: no sanity checker was seen   *)
(* to fail, and some slave was seen running still; or it is a chromite      *)
(* change; or a slave really failed for a reason that is not the            *)
(* infrastructure, and for an internal change some internal slave failed.   *)
RejectedForCause ==
  \A c \in Changes : cl[c] = "rejected" =>
    /\ \A s \in Sanity : seen[s].state # "fail"
    /\ \/ \E s \in Slaves : seen[s].state = "inflight"
       \/ Change(c).project = Chromite
       \/ /\ \E s \in Failing : \E t \in fault[s] : t.cause \notin Infra
          /\ Change(c).internal => \E s \in Failing : s \in Internal

(* Hardware tests are given up only if some run of the queue failed in      *)
(* something other than its hardware tests alone.                           *)
SkippedForCause ==
  (\E s \in Slaves : skipped[s]) =>
    \/ master \in {"submitpart", "blame", "done", "gone"} /\ ~fine
    \/ \E s \in Slaves : /\ status[s] = "fail"
                         /\ fault[s] = {} \/ \E t \in fault[s] : t.stage # HWTest

(* What becomes of a change is decided once: one that was submitted, or     *)
(* could not be, is not blamed or marked as failed afterwards for failures  *)
(* that it ignored.                                                         *)
DecidedOnce ==
  [][\A c \in Changes : cl[c] # "ready" =>
       /\ cl'[c] = cl[c]
       /\ c \in marked' => c \in marked]_vars

(* The master ends, whatever the slaves do or fail to do. *)
MasterEnds == <>(master \in {"done", "gone"})
=============================================================================
