------------------------- MODULE CommitQueueProofs -------------------------
(***************************************************************************)
(* Proofs about CommitQueue, for any number of slaves, changes and rounds, *)
(* and whatever the faults.                                                *)
(***************************************************************************)
EXTENDS CommitQueue, FiniteSetTheorems, SequenceTheorems, TLAPS

Running == {"build", "hwtest", "testing", "report"}
Waiting == {"publish", "build", "poll"}

(* A slave's status follows its run; there is no second run to change it. *)
SlaveInv ==
  \A s \in Slaves :
    /\ pc[s] \in Running => status[s] = "inflight"
    /\ pc[s] = "abort" => status[s] = "fail"
    /\ status[s] = "pass" => success[s]
    /\ status[s] = "fail" => ~success[s]

(* The hardware tests add at most one traceback, the last. *)
FaultInv ==
  \A s \in Slaves :
    /\ pc[s] \in {"build", "hwtest", "testing"} =>
         \A t \in fault[s] : t.stage # HWTest
    /\ \A t, u \in fault[s] : t.stage = HWTest /\ u.stage = HWTest => t = u

SeenInv == \A s \in Slaves : seen[s].state # "fail" => Message(s) = {}

Cause ==
  \/ master \in {"submitpart", "blame", "done", "gone"} /\ ~fine
  \/ \E s \in Slaves : /\ status[s] = "fail"
                       /\ fault[s] = {} \/ \E t \in fault[s] : t.stage # HWTest

AbortInv == aborted \/ (\E s \in Slaves : skipped[s]) => Cause

(* The changes still to decide on are undecided. *)
ChoiceInv ==
  /\ master \in Waiting => \A c \in Changes : cl[c] = "ready"
  /\ \A c \in todo : cl[c] = "ready"
  /\ master = "submit" => ~IsFailureFatal
  /\ master = "submitpart" =>
       /\ Inflight = {} /\ todo \subseteq Accepted
       /\ \A s \in Failing : HasTracebacks(s)
       /\ \A c \in left : cl[c] = "ready" /\ c \notin todo
  /\ promoted => master = "done" /\ AllSubmitted /\ ~IsFailureFatal

(* What the master saw when it submitted a change, or rejected one; it sees *)
(* nothing new afterwards.                                                  *)
Consented(c) ==
  \A s \in Slaves \ Sanity :
    \/ seen[s].state \in {"pass", "missing"}
    \/ /\ seen[s].state = "fail" /\ HasTracebacks(s)
       /\ StagesOf(Message(s)) \subseteq Change(c).ignored
Blamable(c) ==
  /\ ToTSanity
  /\ \/ Inflight # {}
     \/ Change(c).project = Chromite
     \/ /\ \E s \in Failing : \E t \in Message(s) :
             t.cause \notin Infra \cup {"unreadable"}
        /\ Change(c).internal => \E s \in Failing : s \in Internal
DecisionInv ==
  \A c \in Changes : /\ cl[c] = "submitted" => Consented(c)
                     /\ cl[c] = "rejected" => Blamable(c)

SlavesPart == SlaveInv /\ FaultInv
MasterPart == SeenInv /\ ChoiceInv /\ DecisionInv
IInv == TypeOK /\ SlavesPart /\ MasterPart /\ SeenIsReported /\ AbortInv

(* The invariant holds before the candidate is there. *)
LEMMA InitInv == Init => IInv
<1> SUFFICES ASSUME Init PROVE IInv
  OBVIOUS
<1>1. TypeOK
  <2>1. MaxRounds \in Nat /\ << >> \in Seq(Slaves)
    BY QueueAssumption, EmptySeq
  <2>2. seen \in [Slaves -> [state : States, message : SUBSET Tracebacks]]
    BY DEF Init, States
  <2>3. cl \in [Changes -> Results] /\ fault \in [Slaves -> SUBSET Tracebacks]
    BY DEF Init, Results
  <2> QED
    <3>1. /\ status \in [Slaves -> States]
          /\ pc \in [Slaves -> {"wait", "build", "hwtest", "testing", "report",
                                "abort"}]
      BY DEF Init, States
    <3>2. success \in [Slaves -> BOOLEAN] /\ skipped \in [Slaves -> BOOLEAN]
      BY DEF Init
    <3>3. rounds \in 0 .. MaxRounds
      BY <2>1 DEF Init
    <3> QED
      BY <2>1, <2>2, <2>3, <3>1, <3>2, <3>3 DEF Init, TypeOK
<1> QED
  BY <1>1 DEF Init, IInv, SlavesPart, SlaveInv, FaultInv, MasterPart, SeenInv,
     ChoiceInv, DecisionInv, SeenIsReported, AbortInv, Running, Message, Final

-----------------------------------------------------------------------------
(* Slaves                                                                  *)

(* The runs of the slaves do not touch what is over. *)
Settled ==
  \A s \in Slaves : status[s] \in {"pass", "fail"} =>
    status'[s] = status[s] /\ fault'[s] = fault[s] /\ success'[s] = success[s]

(* What the master knows and did outlives any step in which what is final *)
(* stays. *)
LEMMA SlaveFrame ==
  ASSUME IInv, Settled, SlaveInv', UNCHANGED <<scene, master, fine, polling, deciding>>
  PROVE  MasterPart' /\ SeenIsReported' /\ (Cause => Cause')
<1> USE DEF polling, deciding
<1>1. SeenInv'
  BY DEF IInv, MasterPart, SeenInv, Message
<1>2. ChoiceInv'
  BY DEF IInv, MasterPart, ChoiceInv, IsFailureFatal, Failing, NoStat, Inflight,
         In, Sanity, Accepted, Accepts, FailingStages, Message, Change,
         HasTracebacks, AllSubmitted
<1>3. DecisionInv'
  <2>1. \A c \in Changes : Consented(c) => Consented(c)'
    BY DEF Consented, Sanity, HasTracebacks, Message, Change
  <2>2. \A c \in Changes : Blamable(c) => Blamable(c)'
    BY DEF Blamable, ToTSanity, Failing, Inflight, In, Sanity, Message, Change
  <2> QED
    BY <2>1, <2>2 DEF IInv, MasterPart, DecisionInv
<1>4. SeenIsReported'
  <2> SUFFICES ASSUME NEW s \in Slaves, Final(seen[s]), Message(s) # NoMessage
               PROVE  seen[s] = Read(s)' /\ (success'[s] <=> seen[s].state = "pass")
    BY DEF SeenIsReported, Message
  <2>1. seen[s] = Read(s) /\ (success[s] <=> seen[s].state = "pass")
    BY DEF IInv, SeenIsReported
  <2>2. status[s] \in {"pass", "fail"}
    BY <2>1 DEF Final, Read
  <2> QED
    BY <2>1, <2>2 DEF Settled, Read
<1>5. Cause => Cause'
  BY DEF Settled, Cause
<1> QED
  BY <1>1, <1>2, <1>3, <1>4, <1>5 DEF MasterPart

(* A step of a slave keeps the invariant. *)
LEMMA SlaveStepInv ==
  ASSUME IInv, NEW s \in Slaves, SlaveStep(s)
  PROVE  IInv'
<1> USE DEF IInv, polling, deciding, Running
<1>1. CASE Claim(s)
  <2>1. TypeOK'
    BY <1>1 DEF Claim, TypeOK, States
  <2>2. SlavesPart' /\ Settled
    <3>1. /\ status[s] = "missing" /\ status'[s] = "inflight"
          /\ pc'[s] = "build" /\ fault'[s] = {}
          /\ \A r \in Slaves \ {s} :
               /\ status'[r] = status[r] /\ pc'[r] = pc[r]
               /\ fault'[r] = fault[r] /\ success'[r] = success[r]
      BY <1>1 DEF Claim, Unclaimed, TypeOK
    <3> QED
      BY <3>1 DEF SlavesPart, SlaveInv, FaultInv, Settled
  <2>3. \A r \in Slaves : skipped'[r] => skipped[r]
    BY <1>1 DEF Claim, TypeOK
  <2> QED
    BY <1>1, <2>1, <2>2, <2>3, SlaveFrame DEF Claim, SlavesPart, AbortInv
<1>2. CASE Build(s)
  <2>0. PICK f \in BuildFaults \cup TestFaults :
          /\ fault' = [fault EXCEPT ![s] = f]
          /\ \/ pc' = [pc EXCEPT ![s] = "report"] /\ UNCHANGED success
             \/ /\ pc' = [pc EXCEPT ![s] = "hwtest"]
                /\ success' = [success EXCEPT ![s] = (f = {})]
    BY <1>2 DEF Build
  <2>a. f \subseteq Tracebacks /\ \A t \in f : t.stage # HWTest
    BY QueueAssumption
  <2>1. TypeOK'
    BY <1>2, <2>0, <2>a DEF Build, TypeOK
  <2>2. SlavesPart' /\ Settled
    <3>1. /\ status[s] = "inflight" /\ fault'[s] = f
          /\ pc'[s] \in {"report", "hwtest"}
          /\ \A r \in Slaves \ {s} :
               /\ pc'[r] = pc[r]
               /\ fault'[r] = fault[r] /\ success'[r] = success[r]
      BY <1>2, <2>0 DEF Build, TypeOK, SlavesPart, SlaveInv
    <3> QED
      BY <1>2, <2>a, <3>1 DEF Build, SlavesPart, SlaveInv, FaultInv, Settled
  <2> QED
    BY <1>2, <2>1, <2>2, SlaveFrame DEF Build, SlavesPart, AbortInv
<1>3. CASE StartHWTest(s)
  <2>1. TypeOK'
    BY <1>3 DEF StartHWTest, TypeOK
  <2>2. SlavesPart' /\ Settled
    BY <1>3, <2>1 DEF StartHWTest, TypeOK, SlavesPart, SlaveInv, FaultInv,
                      Settled
  <2>3. \A r \in Slaves : skipped'[r] => skipped[r] \/ aborted
    BY <1>3 DEF StartHWTest, TypeOK
  <2> QED
    BY <1>3, <2>1, <2>2, <2>3, SlaveFrame DEF StartHWTest, SlavesPart, AbortInv
<1>4. CASE HWTestPasses(s)
  <2>1. TypeOK'
    BY <1>4 DEF HWTestPasses, TypeOK
  <2>2. SlavesPart' /\ Settled
    BY <1>4, <2>1 DEF HWTestPasses, TypeOK, SlavesPart, SlaveInv, FaultInv,
                      Settled
  <2> QED
    BY <1>4, <2>1, <2>2, SlaveFrame DEF HWTestPasses, SlavesPart, AbortInv
<1>5. CASE HWTestFails(s)
  <2>1. CASE aborted /\ UNCHANGED <<success, fault>>
                     /\ skipped' = [skipped EXCEPT ![s] = TRUE]
    <3>1. TypeOK'
      BY <1>5, <2>1 DEF HWTestFails, TypeOK
    <3>2. SlavesPart' /\ Settled
      BY <1>5, <2>1, <3>1 DEF HWTestFails, TypeOK, SlavesPart, SlaveInv,
                              FaultInv, Settled
    <3> QED
      BY <1>5, <2>1, <3>1, <3>2, SlaveFrame DEF HWTestFails, SlavesPart, AbortInv
  <2>2. ASSUME NEW t \in HWFaults, fault' = [fault EXCEPT ![s] = @ \cup {t}],
               success' = [success EXCEPT ![s] = FALSE], UNCHANGED skipped
        PROVE  IInv'
    <3>1. t \in Tracebacks /\ t.stage = HWTest
      <4>1. PICK k \in Infra \cup {"bug"} : t = [stage |-> HWTest, cause |-> k]
        BY DEF HWFaults
      <4> QED
        BY <4>1 DEF Tracebacks, Infra
    <3>2. TypeOK'
      BY <1>5, <2>2, <3>1 DEF HWTestFails, TypeOK
    <3>3. SlavesPart' /\ Settled
      <4>1. pc[s] = "testing" /\ pc' = [pc EXCEPT ![s] = "report"]
            /\ UNCHANGED status
        BY <1>5 DEF HWTestFails
      <4>2. /\ pc'[s] = "report" /\ ~success'[s]
            /\ fault'[s] = fault[s] \cup {t}
            /\ \A u \in Slaves \ {s} :
                 /\ pc'[u] = pc[u] /\ success'[u] = success[u]
                 /\ fault'[u] = fault[u]
        BY <2>2, <4>1 DEF TypeOK
      <4>3. SlaveInv /\ FaultInv
        BY DEF SlavesPart
      <4>4. status[s] = "inflight"
        BY <4>1, <4>3 DEF SlaveInv
      <4>5. SlaveInv'
        <5> SUFFICES ASSUME NEW u \in Slaves
                     PROVE  /\ pc'[u] \in Running => status'[u] = "inflight"
                            /\ pc'[u] = "abort" => status'[u] = "fail"
                            /\ status'[u] = "pass" => success'[u]
                            /\ status'[u] = "fail" => ~success'[u]
          BY DEF SlaveInv
        <5>1. CASE u = s
          BY ONLY <4>1, <4>2, <4>4, <5>1
        <5>2. CASE u \in Slaves \ {s}
          BY ONLY <4>1, <4>2, <4>3, <5>2 DEF SlaveInv
        <5> QED
          BY <5>1, <5>2
      <4>6. FaultInv'
        <5> SUFFICES ASSUME NEW u \in Slaves
                     PROVE  /\ pc'[u] \in {"build", "hwtest", "testing"} =>
                                 \A k \in fault'[u] : k.stage # HWTest
                            /\ \A k, l \in fault'[u] :
                                 k.stage = HWTest /\ l.stage = HWTest => k = l
          BY DEF FaultInv
        <5>1. CASE u = s
          <6>1. \A k \in fault[s] : k.stage # HWTest
            BY ONLY <4>1, <4>3 DEF FaultInv
          <6> QED
            BY ONLY <4>2, <5>1, <6>1
        <5>2. CASE u \in Slaves \ {s}
          BY ONLY <4>2, <4>3, <5>2 DEF FaultInv
        <5> QED
          BY <5>1, <5>2
      <4>7. Settled
        BY ONLY <4>1, <4>2, <4>4 DEF Settled
      <4> QED
        BY ONLY <4>5, <4>6, <4>7 DEF SlavesPart
    <3> QED
      BY <1>5, <2>2, <3>2, <3>3, SlaveFrame DEF HWTestFails, SlavesPart, AbortInv
  <2> QED
    BY <1>5, <2>1, <2>2 DEF HWTestFails
<1>6. CASE Report(s)
  <2>1. TypeOK'
    BY <1>6 DEF Report, TypeOK, States
  <2>2. SlavesPart' /\ Settled
    BY <1>6, <2>1 DEF Report, TypeOK, SlavesPart, SlaveInv, FaultInv, Settled
  <2> QED
    BY <1>6, <2>1, <2>2, SlaveFrame DEF Report, SlavesPart, AbortInv
<1>7. CASE AbortCQHWTests(s)
  <2>1. TypeOK'
    BY <1>7 DEF AbortCQHWTests, TypeOK
  <2>2. SlavesPart' /\ Settled
    BY <1>7, <2>1 DEF AbortCQHWTests, TypeOK, SlavesPart, SlaveInv, FaultInv,
                      Settled
  <2>3. ~OnlyHWTestFailed(fault[s]) => Cause
    <3>1. SUFFICES ASSUME fault[s] # {}, \A t \in fault[s] : t.stage = HWTest
                   PROVE  OnlyHWTestFailed(fault[s])
      BY <1>7 DEF AbortCQHWTests, Cause, SlavesPart, SlaveInv
    <3>2. PICK t \in fault[s] : TRUE
      BY <3>1
    <3>3. fault[s] = {t}
      BY <3>1, <3>2 DEF SlavesPart, FaultInv
    <3> QED
      BY <3>1, <3>3, FS_Singleton DEF OnlyHWTestFailed
  <2> QED
    BY <1>7, <2>1, <2>2, <2>3, SlaveFrame
    DEF AbortCQHWTests, SlavesPart, AbortInv
<1>8. CASE Die(s)
  <2>1. TypeOK'
    BY <1>8 DEF Die, TypeOK
  <2>2. SlavesPart' /\ Settled
    BY <1>8, <2>1 DEF Die, TypeOK, SlavesPart, SlaveInv, FaultInv, Settled
  <2>3. \A r \in Slaves : skipped'[r] => skipped[r]
    BY <1>8 DEF Die, TypeOK
  <2> QED
    BY <1>8, <2>1, <2>2, <2>3, SlaveFrame DEF Die, SlavesPart, AbortInv
<1> QED
  BY <1>1, <1>2, <1>3, <1>4, <1>5, <1>6, <1>7, <1>8 DEF SlaveStep

-----------------------------------------------------------------------------
(* The master                                                              *)

(* What is true of the slaves outlives any step of the master. *)
LEMMA MasterFrame ==
  ASSUME IInv, UNCHANGED <<scene, status, slaves, seen>>,
         aborted' => aborted \/ Cause', Cause => Cause'
  PROVE  SlavesPart' /\ SeenInv' /\ SeenIsReported' /\ AbortInv'
<1> USE DEF slaves
<1>1. SlavesPart'
  BY DEF IInv, SlavesPart, SlaveInv, FaultInv
<1>2. SeenInv' /\ SeenIsReported'
  BY DEF IInv, MasterPart, SeenInv, SeenIsReported, Message, Read
<1> QED
  BY <1>1, <1>2 DEF IInv, AbortInv

(* While nothing new is seen, a decision keeps its reasons. *)
LEMMA ReasonsKept ==
  ASSUME UNCHANGED <<scene, seen>>
  PROVE  \A c \in Changes : /\ Consented(c)' <=> Consented(c)
                            /\ Blamable(c)' <=> Blamable(c)
                            /\ Accepts(c)' <=> Accepts(c)
<1>1. Failing' = Failing /\ Inflight' = Inflight /\ Sanity' = Sanity
      /\ \A s \in Slaves : Message(s)' = Message(s)
  BY DEF Failing, Inflight, In, Sanity, Message
<1>2. \A c \in Changes : Consented(c)' <=> Consented(c)
  BY <1>1 DEF Consented, HasTracebacks, Message, Change, Sanity
<1>3. \A c \in Changes : Blamable(c)' <=> Blamable(c)
  BY <1>1 DEF Blamable, ToTSanity, Change, Message, Failing, In
<1>4. \A c \in Changes : Accepts(c)' <=> Accepts(c)
  BY <1>1 DEF Accepts, FailingStages, Change, Message, Failing, In
<1> QED
  BY <1>2, <1>3, <1>4

(* A change is submitted when nothing is fatal, or what failed is ignored.  *)
LEMMA ConsentGiven ==
  ASSUME IInv, NEW c \in todo, master \in {"submit", "submitpart"}
  PROVE  Consented(c)
<1> SUFFICES ASSUME NEW s \in Slaves \ Sanity
             PROVE  \/ seen[s].state \in {"pass", "missing"}
                    \/ /\ seen[s].state = "fail" /\ HasTracebacks(s)
                       /\ StagesOf(Message(s)) \subseteq Change(c).ignored
  BY DEF Consented
<1> USE DEF IInv, MasterPart, ChoiceInv, Failing, NoStat, Inflight, In
<1>1. seen[s].state \in States
  BY DEF TypeOK
<1>2. CASE master = "submit"
  BY <1>1, <1>2 DEF IsFailureFatal, States
<1>3. CASE master = "submitpart"
  <2>1. Accepts(c)
    BY <1>3 DEF Accepted
  <2>2. s \in Failing => StagesOf(Message(s)) \subseteq Change(c).ignored
    BY <2>1 DEF Accepts, FailingStages
  <2> QED
    BY <1>1, <1>3, <2>2 DEF States
<1> QED
  BY <1>2, <1>3

(* Whoever is kicked was found with a cause. *)
LEMMA BlameFounded ==
  ASSUME IInv, NEW c \in Changes, ToTSanity, Inflight # {} \/ c \in FindSuspects
  PROVE  Blamable(c)
<1>1. SUFFICES ASSUME Inflight = {}, Change(c).project # Chromite, c \in FindSuspects
               PROVE  Blamable(c)
  BY DEF Blamable
<1>2. ~OnlyInfraFailures /\ ~OnlyLabFailures
  BY <1>1 DEF FindSuspects
<1>3. \E s \in Failing : \E t \in Message(s) :
        t.cause \notin Infra \cup {"unreadable"}
  BY <1>2 DEF OnlyInfraFailures, Matches
<1>4. c \in Candidates
  <2>1. \A f : FindPackageBuildFailureSuspects(f, Candidates) \subseteq Candidates
    BY DEF FindPackageBuildFailureSuspects
  <2> QED
    BY <1>1, <1>2, <2>1 DEF FindSuspects
<1>5. Change(c).internal => \E s \in Failing : s \in Internal
  BY <1>4 DEF Candidates, InternalFailed
<1> QED
  BY <1>3, <1>5 DEF Blamable

(* A step of the master keeps the invariant. *)
LEMMA MasterStepInv ==
  ASSUME IInv, MasterStep \/ MasterDies
  PROVE  IInv'
<1> USE DEF IInv, polling, deciding, Waiting
<1>1. CASE CreateNewCandidate
  <2>1. TypeOK'
    BY <1>1 DEF CreateNewCandidate, TypeOK, slaves
  <2>2. Cause => Cause'
    BY <1>1 DEF CreateNewCandidate, Cause, slaves
  <2>3. ChoiceInv' /\ DecisionInv'
    BY <1>1, ReasonsKept DEF CreateNewCandidate, TypeOK, MasterPart, ChoiceInv,
         DecisionInv
  <2> QED
    BY <1>1, <2>1, <2>2, <2>3, MasterFrame DEF CreateNewCandidate, MasterPart
<1>2. CASE MasterBuild
  <2>1. TypeOK'
    BY <1>2, QueueAssumption DEF MasterBuild, TypeOK, slaves
  <2>2. Cause => Cause'
    BY <1>2 DEF MasterBuild, Cause, slaves
  <2>3. ChoiceInv' /\ DecisionInv'
    BY <1>2, ReasonsKept DEF MasterBuild, TypeOK, MasterPart, ChoiceInv,
         DecisionInv
  <2> QED
    BY <1>2, <2>1, <2>2, <2>3, MasterFrame DEF MasterBuild, MasterPart
<1>3. ASSUME NEW s \in Slaves, GetBuildStatus(s) PROVE IInv'
  <2>1. /\ master = "poll" /\ UNCHANGED <<scene, published, status, aborted,
             slaves, master, fine, rounds, deciding>>
        /\ asking' = Tail(asking) /\ asking # << >>
    BY <1>3 DEF GetBuildStatus
  <2>2. PICK got \in [state : States, message : SUBSET Tracebacks] :
          /\ seen' = [seen EXCEPT ![s] = got]
          /\ got = seen[s] \/ got = Read(s)
             \/ got = [state |-> "fail", message |-> NoMessage]
    <3>1. CASE UNCHANGED seen
      BY <3>1 DEF TypeOK
    <3>2. CASE seen' = [seen EXCEPT ![s] = Read(s)]
      <4>1. Read(s) \in [state : States, message : SUBSET Tracebacks]
        BY DEF Read, TypeOK
      <4> QED
        BY <3>2, <4>1
    <3>3. CASE seen' = [seen EXCEPT ![s] = [state |-> "fail", message |-> NoMessage]]
      <4>1. [state |-> "fail", message |-> NoMessage]
              \in [state : States, message : SUBSET Tracebacks]
        BY DEF NoMessage, States, Tracebacks
      <4> QED
        BY <3>3, <4>1
    <3> QED
      BY <1>3, <3>1, <3>2, <3>3 DEF GetBuildStatus
  <2>3. TypeOK'
    BY <2>1, <2>2, HeadTailProperties DEF TypeOK, slaves
  <2>4. \A r \in Slaves : \/ seen'[r] = seen[r]
                          \/ seen'[r] = Read(r)
                          \/ seen'[r] = [state |-> "fail", message |-> NoMessage]
    BY <2>2 DEF TypeOK
  <2>5. SlavesPart' /\ AbortInv'
    BY <2>1 DEF SlavesPart, SlaveInv, FaultInv, AbortInv, Cause, slaves
  <2>6. SeenInv' /\ SeenIsReported'
    <3>1. ASSUME NEW r \in Slaves
          PROVE  /\ seen'[r].state # "fail" => seen'[r].message = {}
                 /\ Final(seen'[r]) /\ seen'[r].message # NoMessage =>
                      /\ seen'[r] = Read(r)
                      /\ success[r] <=> seen'[r].state = "pass"
      <4>1. CASE seen'[r] = seen[r]
        BY <4>1 DEF MasterPart, SeenInv, SeenIsReported, Message
      <4>2. CASE seen'[r] = Read(r)
        BY <4>2 DEF Read, Final, SlavesPart, SlaveInv
      <4>3. CASE seen'[r] = [state |-> "fail", message |-> NoMessage]
        BY <4>3
      <4> QED
        BY <2>4, <4>1, <4>2, <4>3
    <3> QED
      BY <2>1, <3>1 DEF SeenInv, SeenIsReported, Message, Read, slaves
  <2>7. ChoiceInv' /\ DecisionInv'
    BY <2>1 DEF MasterPart, ChoiceInv, DecisionInv, TypeOK
  <2> QED
    BY <2>3, <2>5, <2>6, <2>7 DEF MasterPart
<1>4. CASE AskAgain
  <2>1. TypeOK'
    BY <1>4, QueueAssumption DEF AskAgain, TimeLeft, TypeOK, slaves
  <2>2. Cause => Cause'
    BY <1>4 DEF AskAgain, Cause, slaves
  <2>3. ChoiceInv' /\ DecisionInv'
    BY <1>4, ReasonsKept DEF AskAgain, TypeOK, MasterPart, ChoiceInv,
         DecisionInv
  <2> QED
    BY <1>4, <2>1, <2>2, <2>3, MasterFrame DEF AskAgain, MasterPart
<1>5. CASE HandleSuccess
  <2>1. TypeOK'
    BY <1>5 DEF HandleSuccess, TypeOK, slaves
  <2>2. master = "poll" /\ \A c \in Changes : cl[c] = "ready"
    BY <1>5 DEF HandleSuccess, Waited, MasterPart, ChoiceInv
  <2>3. Cause => Cause'
    BY <1>5, <2>2 DEF HandleSuccess, Cause, slaves
  <2>4. ChoiceInv' /\ DecisionInv'
    BY <1>5, <2>2 DEF HandleSuccess, MasterPart, ChoiceInv, DecisionInv,
         IsFailureFatal, Failing, NoStat, Inflight, In, Sanity
  <2> QED
    BY <1>5, <2>1, <2>3, <2>4, MasterFrame DEF HandleSuccess, MasterPart
<1>6. CASE HandleFailure
  <2>1. TypeOK'
    BY <1>6 DEF HandleFailure, Accepted, LeftAfter, TypeOK, slaves
  <2>2. master = "poll" /\ \A c \in Changes : cl[c] = "ready"
    BY <1>6 DEF HandleFailure, Waited, MasterPart, ChoiceInv
  <2>3. (Cause => Cause') /\ (aborted' => aborted \/ Cause')
    BY <1>6, <2>2 DEF HandleFailure, Cause, slaves
  <2>4. DecisionInv'
    BY <1>6, <2>2 DEF HandleFailure, DecisionInv
  <2>5. ChoiceInv'
    <3>1. Inflight' = Inflight /\ Failing' = Failing /\ Accepted' = Accepted
          /\ \A s \in Slaves : HasTracebacks(s)' <=> HasTracebacks(s)
      BY <1>6, ReasonsKept DEF HandleFailure, Inflight, Failing, In, Accepted,
           HasTracebacks, Message
    <3>2. ~promoted'
      BY <1>6, <2>2 DEF HandleFailure, MasterPart, ChoiceInv
    <3>3. \/ /\ master' = "submitpart"
             /\ todo' = Accepted /\ left' = Changes \ Accepted
             /\ Inflight = {} /\ \A s \in Failing : HasTracebacks(s)
          \/ master' = "blame" /\ todo' = Changes
      BY <1>6 DEF HandleFailure, LeftAfter
    <3>4. Accepted \subseteq Changes /\ cl' = cl /\ Failing \subseteq Slaves
      BY <1>6 DEF HandleFailure, Accepted, Failing, In
    <3> QED
      BY <2>2, <3>1, <3>2, <3>3, <3>4 DEF ChoiceInv
  <2> QED
    BY <1>6, <2>1, <2>3, <2>4, <2>5, MasterFrame DEF HandleFailure, MasterPart
<1>7. ASSUME NEW c \in Changes, SubmitChange(c) PROVE IInv'
  <2>1. TypeOK'
    BY <1>7 DEF SubmitChange, TypeOK, Results, slaves
  <2>2. (Cause => Cause')
    BY <1>7 DEF SubmitChange, Cause, slaves
  <2>3. DecisionInv'
    <3>1. Consented(c)
      BY <1>7, ConsentGiven DEF SubmitChange
    <3> QED
      BY <1>7, <3>1, ReasonsKept DEF SubmitChange, MasterPart, DecisionInv, TypeOK
  <2>4. ChoiceInv'
    <3>1. /\ Inflight' = Inflight /\ Failing' = Failing /\ Accepted' = Accepted
          /\ IsFailureFatal' = IsFailureFatal
          /\ \A s \in Slaves : HasTracebacks(s)' <=> HasTracebacks(s)
      BY <1>7, ReasonsKept DEF SubmitChange, Inflight, Failing, NoStat, In,
           Accepted, HasTracebacks, Message, IsFailureFatal, Sanity
    <3>2. /\ \A d \in Changes \ {c} : cl'[d] = cl[d]
          /\ master' = master /\ master \in {"submit", "submitpart"}
          /\ todo' = todo \ {c} /\ c \in todo
          /\ UNCHANGED <<left, promoted>>
      BY <1>7 DEF SubmitChange, TypeOK
    <3>3. todo \subseteq Changes /\ left \subseteq Changes /\ Failing \subseteq Slaves
      BY DEF TypeOK, Failing, In
    <3> QED
      BY <3>1, <3>2, <3>3 DEF MasterPart, ChoiceInv
  <2> QED
    BY <1>7, <2>1, <2>2, <2>3, <2>4, MasterFrame DEF SubmitChange, MasterPart
<1>8. CASE PoolSubmitted
  <2>1. TypeOK'
    BY <1>8 DEF PoolSubmitted, AllSubmitted, TypeOK, slaves
  <2>2. Cause => Cause'
    BY <1>8 DEF PoolSubmitted, Cause, slaves
  <2>3. ChoiceInv' /\ DecisionInv'
    BY <1>8, ReasonsKept DEF PoolSubmitted, MasterPart, ChoiceInv, DecisionInv,
         AllSubmitted, IsFailureFatal, Failing, NoStat, Inflight, In, Sanity
  <2> QED
    BY <1>8, <2>1, <2>2, <2>3, MasterFrame DEF PoolSubmitted, MasterPart
<1>9. CASE PartSubmitted
  <2>1. TypeOK'
    BY <1>9 DEF PartSubmitted, TypeOK, slaves
  <2>2. Cause => Cause'
    BY <1>9 DEF PartSubmitted, Cause, slaves
  <2>3. ChoiceInv' /\ DecisionInv'
    BY <1>9, ReasonsKept DEF PartSubmitted, MasterPart, ChoiceInv, DecisionInv
  <2> QED
    BY <1>9, <2>1, <2>2, <2>3, MasterFrame DEF PartSubmitted, MasterPart
<1>10. ASSUME NEW c \in Changes, HandleChange(c) PROVE IInv'
  <2>1. /\ master = "blame" /\ c \in todo /\ todo' = todo \ {c}
        /\ \/ cl' = cl
           \/ /\ cl' = [cl EXCEPT ![c] = "rejected"]
              /\ ToTSanity /\ (Inflight # {} \/ c \in FindSuspects)
        /\ marked' \subseteq marked \cup {c}
        /\ UNCHANGED <<scene, published, status, aborted, slaves, master, fine,
                       polling, left, promoted>>
    BY <1>10 DEF HandleChange
  <2>2. TypeOK'
    BY <2>1 DEF TypeOK, Results, slaves
  <2>3. Cause => Cause'
    BY <2>1 DEF Cause, slaves
  <2>4. DecisionInv'
    <3>1. cl' # cl => Blamable(c)
      BY <2>1, BlameFounded
    <3> QED
      BY <2>1, <3>1, ReasonsKept DEF MasterPart, DecisionInv, TypeOK
  <2>5. ChoiceInv'
    BY <2>1 DEF MasterPart, ChoiceInv, TypeOK
  <2> QED
    BY <2>1, <2>2, <2>3, <2>4, <2>5, MasterFrame DEF MasterPart
<1>11. CASE Blamed \/ MasterDies
  <2>1. TypeOK'
    BY <1>11 DEF Blamed, MasterDies, TypeOK, slaves
  <2>2. Cause => Cause'
    BY <1>11 DEF Blamed, MasterDies, Cause, slaves
  <2>3. ChoiceInv' /\ DecisionInv'
    BY <1>11, ReasonsKept DEF Blamed, MasterDies, MasterPart, ChoiceInv,
         DecisionInv
  <2> QED
    BY <1>11, <2>1, <2>2, <2>3, MasterFrame DEF Blamed, MasterDies, MasterPart
<1> QED
  BY <1>1, <1>2, <1>3, <1>4, <1>5, <1>6, <1>7, <1>8, <1>9, <1>10, <1>11
  DEF MasterStep

(* IInv is an invariant of a run of the queue. *)
LEMMA Invariance == Spec => []IInv
<1>1. IInv /\ [Next]_vars => IInv'
  <2>1. ASSUME IInv, UNCHANGED vars PROVE IInv'
    <3> USE DEF vars, slaves, polling, deciding
    <3>1. TypeOK' /\ ChoiceInv' /\ DecisionInv'
      <4>1. TypeOK'
        BY <2>1 DEF IInv, TypeOK
      <4>2. DecisionInv'
        BY <2>1, ReasonsKept DEF IInv, MasterPart, DecisionInv
      <4>3. ChoiceInv'
        BY <2>1, ReasonsKept DEF IInv, MasterPart, ChoiceInv, Inflight, Failing,
             NoStat, In, Accepted, HasTracebacks, Message, IsFailureFatal,
             Sanity, AllSubmitted
      <4> QED
        BY <4>1, <4>2, <4>3
    <3>2. Cause => Cause'
      BY <2>1 DEF Cause
    <3> QED
      BY <2>1, <3>1, <3>2, MasterFrame DEF IInv, MasterPart
  <2> QED
    BY <2>1, MasterStepInv, SlaveStepInv DEF Next
<1> QED
  BY InitInv, <1>1, PTL DEF Spec

(* What the master read of a slave, however long ago, is so still: nobody   *)
(* claims a candidate twice.                                                *)
THEOREM ReadIsReported == Spec => []SeenIsReported
  BY Invariance, PTL DEF IInv

(* Nothing is submitted or promoted against a slave that the master heard.  *)
THEOREM Consent == Spec => []SubmittedWithConsent
<1>1. IInv => SubmittedWithConsent
  <2> SUFFICES ASSUME IInv PROVE SubmittedWithConsent
    OBVIOUS
  <2> USE DEF IInv, MasterPart
  <2>1. ASSUME NEW c \in Changes, cl[c] = "submitted", NEW s \in Slaves \ Sanity
        PROVE  \/ success[s]
               \/ seen[s].state = "missing"
               \/ /\ seen[s].state = "fail"
                  /\ StagesOf(fault[s]) \subseteq Change(c).ignored
    <3>1. Consented(c)
      BY <2>1 DEF DecisionInv
    <3>2. CASE seen[s].state = "pass"
      BY <3>2 DEF SeenInv, SeenIsReported, Final, NoMessage
    <3>3. CASE seen[s].state = "fail" /\ HasTracebacks(s)
      <4>1. seen[s] = Read(s)
        BY <3>3 DEF SeenIsReported, Final, HasTracebacks
      <4>2. Message(s) = fault[s]
        BY <3>3, <4>1 DEF Read, Message
      <4> QED
        BY <3>1, <3>3, <4>2 DEF Consented
    <3> QED
      BY <3>1, <3>2, <3>3 DEF Consented
  <2>2. ASSUME promoted, NEW s \in Slaves \ Sanity PROVE status[s] = "pass"
    <3>1. seen[s].state = "pass"
      BY <2>2 DEF ChoiceInv, IsFailureFatal, Failing, NoStat, Inflight, In,
                  TypeOK, States
    <3>2. seen[s] = Read(s)
      BY <3>1 DEF SeenInv, SeenIsReported, Final, NoMessage
    <3> QED
      BY <3>1, <3>2 DEF Read
  <2> QED
    BY <2>1, <2>2 DEF SubmittedWithConsent, ChoiceInv, AllSubmitted
<1> QED
  BY Invariance, <1>1, PTL

(* Nobody is kicked out without a cause that is in the slaves' tracebacks.  *)
THEOREM CauseForRejection == Spec => []RejectedForCause
<1>1. IInv => RejectedForCause
  <2> SUFFICES ASSUME IInv, NEW c \in Changes, cl[c] = "rejected"
               PROVE  /\ \A s \in Sanity : seen[s].state # "fail"
                      /\ \/ \E s \in Slaves : seen[s].state = "inflight"
                         \/ Change(c).project = Chromite
                         \/ /\ \E s \in Failing : \E t \in fault[s] :
                                  t.cause \notin Infra
                            /\ Change(c).internal =>
                                 \E s \in Failing : s \in Internal
    BY DEF RejectedForCause
  <2>1. Blamable(c)
    BY DEF IInv, MasterPart, DecisionInv
  <2>2. Sanity \subseteq Slaves
    BY QueueAssumption DEF IInv, TypeOK, Sanity
  <2>3. ASSUME NEW s \in Failing, NEW t \in Message(s),
               t.cause \notin Infra \cup {"unreadable"}
        PROVE  t \in fault[s]
    <3>0. \A u \in NoMessage : u.cause = "unreadable"
      BY DEF NoMessage
    <3>1. Message(s) # NoMessage
      BY <2>3, <3>0
    <3>2. seen[s] = Read(s) /\ seen[s].state = "fail"
      BY <3>1 DEF IInv, SeenIsReported, Final, Failing, In
    <3> QED
      BY <2>3, <3>2 DEF Read, Message
  <2> QED
    BY <2>1, <2>2, <2>3 DEF Blamable, ToTSanity, Failing, Inflight, In
<1> QED
  BY Invariance, <1>1, PTL

(* Hardware tests are given up only for a failure of something else. *)
THEOREM CauseForSkipping == Spec => []SkippedForCause
<1>1. IInv => SkippedForCause
  BY DEF IInv, AbortInv, Cause, SkippedForCause
<1> QED
  BY Invariance, <1>1, PTL

(* The fate of a change is decided once. *)
THEOREM OneDecision == Spec => DecidedOnce
<1> DEFINE Kept ==
      \A c \in Changes : cl[c] # "ready" =>
        /\ cl'[c] = cl[c]
        /\ c \in marked' => c \in marked
<1>1. IInv /\ [Next]_vars => [Kept]_vars
  <2> SUFFICES ASSUME IInv, Next, NEW c \in Changes, cl[c] # "ready"
               PROVE  /\ cl'[c] = cl[c]
                      /\ c \in marked' => c \in marked
    OBVIOUS
  <2>1. c \notin todo
    BY DEF IInv, MasterPart, ChoiceInv
  <2>2. CASE UNCHANGED <<cl, marked>>
    BY <2>2
  <2>3. CASE \E d \in todo : SubmitChange(d) \/ HandleChange(d)
    BY <2>1, <2>3 DEF SubmitChange, HandleChange, IInv, TypeOK
  <2>4. CASE \E s \in Slaves : SlaveStep(s)
    BY <2>4 DEF SlaveStep, Claim, Build, StartHWTest, HWTestPasses, HWTestFails,
         Report, AbortCQHWTests, Die, deciding
  <2> QED
    BY <2>2, <2>3, <2>4
    DEF Next, MasterStep, MasterDies, CreateNewCandidate, MasterBuild,
        GetBuildStatus, AskAgain, HandleSuccess, HandleFailure, SubmitChange,
        PoolSubmitted, PartSubmitted, HandleChange, Blamed, deciding
<1> QED
  BY Invariance, <1>1, PTL DEF Spec, DecidedOnce
=============================================================================
