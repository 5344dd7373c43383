---------------------------- MODULE PreCQProofs ----------------------------
(***************************************************************************)
(* Proofs about PreCQ, for any changes, dependencies, patch sets, trybots  *)
(* and disturbances.                                                       *)
(***************************************************************************)
EXTENDS PreCQ, TLAPS

(* What the launcher has at hand in each phase of its loop. *)
PhaseInv ==
  /\ pc \notin {"look", "write"} => todo = {}
  /\ pc \in {"query", "look", "launch"} => writing = <<>>
  /\ pc = "write" => writing # <<>> /\ writing[2] \in {"failed", "waiting"}
  /\ pc = "mark" /\ writing # <<>> => writing[2] = "launching"
  /\ pc \notin {"launch", "mark"} => plans = {}
  /\ pc # "mark" => marking = {}
  /\ pc = "query" => pool = Nothing

(* What a trybot has still to do is about its own changes. *)
TrybotOK(bot) ==
  /\ bot.todo \subseteq DOMAIN bot.at /\ bot.late \subseteq DOMAIN bot.at
  /\ bot.pc \in {"free", "queued", "failing"} => bot.todo = {}
  /\ bot.pc \in {"free", "queued", "passing"} => bot.late = {}
  /\ bot.pc \in {"applied", "passing", "failing"} =>
       \A c \in DOMAIN bot.at : bot.at[c] \in PatchSets

TrybotInv == \A t \in Trybots : TrybotOK(trybot[t])

(* A trybot is about to write "passed" for patch sets that it tested. *)
PassInv ==
  \A t \in Trybots : trybot[t].pc = "passing" =>
    \A c \in trybot[t].todo : <<c, trybot[t].at[c]>> \in tested

(* A patch set is launching only if its change has been launched, which     *)
(* nobody did to a patch set newer than the one in the launcher's pool.     *)
LaunchInv ==
  \A c \in Changes :
    /\ pool[c] <= patch[c]
    /\ c \in Unmarked \cup retried => launches[c] >= 1
    /\ \A p \in PatchSets : status[c][p] = "launching" =>
         launches[c] >= 1 /\ p <= patch[c] /\ (pool[c] # 0 => p <= pool[c])

(* A change that is tried again and was launched once is not launching.     *)
AtHand(c) == IF pool[c] # 0 THEN pool[c] ELSE patch[c]

RetryInv ==
  \A c \in retried : launches[c] = 1 =>
    /\ c \notin Unmarked
    /\ status[c][AtHand(c)] # "launching" \/ writing = <<c, "waiting">>

(* The plans of one loop have no change in common. *)
PlansInv ==
  /\ \A plan, other \in plans : plan # other => plan \cap other = {}
  /\ \A plan \in plans : plan \cap Unmarked = {}

Has(t, c) == c \in InTest(t)
StatusNow(c) == status[c][patch[c]]

InOneAtMost(c) ==
  \A t, u \in Trybots : t # u => ~(Has(t, c) /\ Has(u, c))

(* The launcher has seen that c may be tested. *)
Eligible(c) ==
  \/ pc \in {"look", "write"} /\ pool[c] # 0 /\ c \notin todo \cup busy
  \/ \E plan \in plans : c \in plan

(* Why a change that is not excused and has not passed is not tested twice: *)
(* as long as it is in a trybot its status says so, except before the       *)
(* launcher has marked it, and nobody is about to overwrite that status.    *)
OnceInv(c) ==
  /\ pool[c] # 0 => pool[c] = patch[c]
  /\ \A t \in Trybots :
       /\ trybot[t].pc \in {"applied", "passing", "failing"} /\ c \in Members(t)
            => trybot[t].at[c] = patch[c]
       /\ Has(t, c) => \/ StatusNow(c) \in {"launching", "inflight", "passed"}
                       \/ c \in Unmarked
       /\ c \in trybot[t].late => StatusNow(c) # "passed"
  /\ StatusNow(c) # "passed" => InOneAtMost(c)
  /\ writing = <<c, "launching">> => InOneAtMost(c)
  /\ pc = "write" /\ writing[1] = c =>
       c \in busy /\ \A t \in Trybots : ~Has(t, c)
  /\ Eligible(c) => StatusNow(c) = "passed" \/ \A t \in Trybots : ~Has(t, c)

TestInv == \A c \in Changes \ excused : OnceInv(c)

IInv ==
  /\ TypeOK /\ PhaseInv /\ TrybotInv
  /\ PassedWasTested /\ PassInv
  /\ LaunchInv /\ RetryInv
  /\ PlansInv /\ TestInv

-----------------------------------------------------------------------------
(* Types and phases.                                                        *)

Trybot(where, at, ahead, late) ==
  [pc |-> where, at |-> at, todo |-> ahead, late |-> late]

TypeInv == TypeOK /\ PhaseInv /\ TrybotInv

(* A free trybot is about no change. *)
LEMMA FreeType ==
  /\ Free.pc = "free" /\ DOMAIN Free.at = {} /\ Free.todo = {} /\ Free.late = {}
  /\ Free \in TrybotRecords /\ TrybotOK(Free)
<1>1. [c \in {} |-> 0] \in [{} -> 0 .. MaxPatchSets]
  OBVIOUS
<1>2. Free.at \in Tested
  BY <1>1 DEF Free, Tested
<1>3. Free \in TrybotRecords
  BY <1>2 DEF Free, TrybotRecords
<1> QED
  BY <1>3 DEF Free, TrybotOK

(* The patch sets of a group of changes. *)
LEMMA TestedType ==
  ASSUME NEW group \in SUBSET Changes, NEW at,
         at \in [group -> 0 .. MaxPatchSets]
  PROVE  at \in Tested
  BY DEF Tested

(* What the patch sets of a trybot are. *)
LEMMA TestedDomain ==
  ASSUME NEW at \in Tested
  PROVE  /\ DOMAIN at \subseteq Changes
         /\ at \in [DOMAIN at -> 0 .. MaxPatchSets]
<1>1. PICK group \in SUBSET Changes : at \in [group -> 0 .. MaxPatchSets]
  BY DEF Tested
<1> QED
  BY <1>1

(* A trybot that starts, or has finished its builds, is in order. *)
LEMMA NewTrybot ==
  ASSUME NEW where \in {"applied", "passing", "failing"}, NEW at \in Tested,
         NEW ahead \in SUBSET DOMAIN at, NEW late \in SUBSET DOMAIN at,
         where = "failing" => ahead = {}, where = "passing" => late = {},
         \A c \in DOMAIN at : at[c] \in PatchSets
  PROVE  /\ Trybot(where, at, ahead, late) \in TrybotRecords
         /\ TrybotOK(Trybot(where, at, ahead, late))
<1>1. ahead \in SUBSET Changes /\ late \in SUBSET Changes
  BY TestedDomain
<1>2. Trybot(where, at, ahead, late) \in TrybotRecords
  BY <1>1 DEF Trybot, TrybotRecords
<1> QED
  BY <1>2 DEF Trybot, TrybotOK

(* Only one trybot changes at a time. *)
LEMMA Turns ==
  ASSUME TypeInv, NEW t \in Trybots, NEW new \in TrybotRecords, TrybotOK(new),
         trybot' = [trybot EXCEPT ![t] = new]
  PROVE  /\ trybot' \in [Trybots -> TrybotRecords] /\ TrybotInv'
         /\ trybot'[t] = new
         /\ \A u \in Trybots \ {t} : trybot'[u] = trybot[u]
<1>1. trybot \in [Trybots -> TrybotRecords] /\ TrybotInv
  BY DEF TypeInv, TypeOK
<1>2. /\ trybot' \in [Trybots -> TrybotRecords]
      /\ trybot'[t] = new
      /\ \A u \in Trybots \ {t} : trybot'[u] = trybot[u]
  BY <1>1
<1>3. TrybotInv'
  BY <1>1, <1>2 DEF TrybotInv
<1> QED
  BY <1>2, <1>3

(* What is left of a trybot: it is free when it has nothing more to do. *)
Rest(where, at, ahead, late) ==
  IF where # "applied" /\ ahead = {} /\ late = {} THEN Free
  ELSE Trybot(where, at, ahead, late)

(* The invariant holds when the launcher starts and no status is known. *)
LEMMA InitInv == Init => IInv
<1> SUFFICES ASSUME Init PROVE IInv
  OBVIOUS
<1>1. /\ patch = [c \in Changes |-> 1] /\ ready \subseteq Changes
      /\ status = [c \in Changes |-> [p \in PatchSets |-> "none"]]
      /\ pc = "query" /\ pool = Nothing
      /\ todo = {} /\ busy = {} /\ passed = {}
      /\ launching = {} /\ inflight = {} /\ retried = {}
      /\ writing = <<>> /\ plans = {} /\ marking = {}
      /\ trybot = [t \in Trybots |-> Free]
      /\ left \in [Changes -> 0 .. Disturbances]
      /\ tested = {} /\ launches = [c \in Changes |-> 0] /\ excused = {}
  BY DEF Init
<1>2. 1 \in PatchSets /\ MaxPatchSets \in Nat
  BY PreCQAssumption DEF PatchSets
<1>3. Unmarked = {}
  BY <1>1 DEF Unmarked
<1>4. TypeOK
  <2>1. patch \in [Changes -> PatchSets]
    BY <1>1, <1>2
  <2>2. status \in [Changes -> [PatchSets -> Statuses]]
    BY <1>1 DEF Statuses
  <2>3. pool \in [Changes -> 0 .. MaxPatchSets]
    BY <1>1, <1>2 DEF Nothing
  <2>4. trybot \in [Trybots -> TrybotRecords]
    BY <1>1, FreeType
  <2> QED
    BY <1>1, <2>1, <2>2, <2>3, <2>4 DEF TypeOK
<1>5. PhaseInv
  BY <1>1 DEF PhaseInv
<1>6. TrybotInv /\ PassInv
  BY <1>1, FreeType DEF TrybotInv, PassInv
<1>7. PassedWasTested
  BY <1>1 DEF PassedWasTested
<1>8. LaunchInv /\ RetryInv
  BY <1>1, <1>2, <1>3 DEF LaunchInv, RetryInv, Nothing
<1>9. PlansInv
  BY <1>1 DEF PlansInv
<1>10. TestInv
  <2>1. \A t \in Trybots : InTest(t) = {}
    BY <1>1, FreeType DEF InTest, Members
  <2> QED
    BY <1>1, <2>1, FreeType
    DEF TestInv, OnceInv, InOneAtMost, Has, Eligible, Members, Nothing
<1> QED
  BY <1>4, <1>5, <1>6, <1>7, <1>8, <1>9, <1>10 DEF IInv

(* Mark writes about a change of the plan, and about nothing else. *)
LEMMA WritingIs ==
  ASSUME TypeOK, writing # <<>>
  PROVE  /\ writing[1] \in Pool /\ writing[2] \in Statuses
         /\ writing = <<writing[1], writing[2]>>
  BY DEF TypeOK

(* The developers leave types and phases alone. *)
LEMMA DeveloperType ==
  ASSUME TypeInv, NEW c \in Changes, Upload(c) \/ MarkReady(c)
  PROVE  TypeInv'
<1>1. /\ patch' \in [Changes -> PatchSets] /\ ready' \subseteq Changes
      /\ left' \in [Changes -> 0 .. Disturbances]
      /\ excused' \subseteq Changes
  <2>1. left' = [left EXCEPT ![c] = left[c] - 1] /\ left[c] > 0
    BY DEF Upload, MarkReady, Disturb
  <2>2. left' \in [Changes -> 0 .. Disturbances]
    BY <2>1, PreCQAssumption DEF TypeInv, TypeOK
  <2>3. \/ patch' = patch
        \/ patch[c] < MaxPatchSets /\ patch' = [patch EXCEPT ![c] = patch[c] + 1]
    BY DEF Upload, MarkReady
  <2>4. patch' \in [Changes -> PatchSets]
    <3>1. patch \in [Changes -> PatchSets]
      BY DEF TypeInv, TypeOK
    <3>2. patch[c] < MaxPatchSets => patch[c] + 1 \in PatchSets
      BY <3>1, PreCQAssumption DEF PatchSets
    <3> QED
      BY <2>3, <3>1, <3>2
  <2>5. ready' \subseteq Changes /\ excused' \subseteq Changes
    BY DEF Upload, MarkReady, historyVars, TypeInv, TypeOK
  <2> QED
    BY <2>2, <2>4, <2>5
<1>2. UNCHANGED <<status, pc, timeVars, loopVars, writing, launchVars, trybot,
                  tested, launches>>
  BY DEF Upload, MarkReady, historyVars
<1>3. Pool' = Pool
  BY <1>2 DEF Pool, loopVars
<1>4. TypeOK'
  BY <1>1, <1>2, <1>3
  DEF TypeInv, TypeOK, timeVars, loopVars, launchVars
<1>5. PhaseInv' /\ TrybotInv'
  BY <1>2
  DEF TypeInv, PhaseInv, TrybotInv, Members, loopVars, launchVars, Nothing
<1> QED
  BY <1>4, <1>5 DEF TypeInv

(* What the looks have in common. *)
LEMMA LookIs ==
  ASSUME TypeInv, NEW c \in Changes,
         \/ LaunchTimesOut(c) \/ InflightTimesOut(c) \/ SeesFailed(c)
         \/ JustLooks(c)
  PROVE  /\ pc = "look" /\ writing = <<>> /\ c \in todo /\ c \in Pool
         /\ todo' = todo \ {c} /\ Pool' = Pool
         /\ busy' \subseteq busy \cup {c} /\ busy \subseteq busy'
         /\ passed' \subseteq Pool /\ ready' \subseteq ready
         /\ launching' \subseteq Changes /\ inflight' \subseteq Changes
         /\ retried' \subseteq Changes /\ excused' \subseteq excused \cup {c}
         /\ Busy(StatusOf(c)) => c \in busy'
         /\ \/ pc' = "look" /\ writing' = <<>> /\ UNCHANGED <<excused, retried>>
            \/ /\ pc' = "write" /\ StatusOf(c) = "failed"
               /\ writing' = <<c, "waiting">> /\ UNCHANGED <<excused, retried>>
            \/ /\ pc' = "write" /\ writing'[1] = c
               /\ writing' \in {<<c, "failed">>, <<c, "waiting">>}
               /\ excused' = excused \cup {c}
         /\ UNCHANGED <<patch, status, pool, launchVars, trybot, left, tested,
                        launches>>
<1>1. Look(c)
  BY DEF LaunchTimesOut, InflightTimesOut, SeesFailed, JustLooks
<1>2. /\ pc = "look" /\ c \in todo /\ todo' = todo \ {c}
      /\ UNCHANGED <<patch, status, pool, launchVars, trybot, left, tested,
                     launches>>
  BY <1>1 DEF Look
<1>3. writing = <<>> /\ c \in Pool /\ passed \subseteq Pool
  BY <1>2 DEF TypeInv, TypeOK, PhaseInv
<1>4. Pool' = Pool
  BY <1>2 DEF Pool
<1>5. /\ busy' \subseteq busy \cup {c} /\ busy \subseteq busy'
      /\ passed' \subseteq passed \cup {c}
      /\ launching' \subseteq launching \cup {c}
      /\ inflight' \subseteq inflight \cup {c}
      /\ Busy(StatusOf(c)) => c \in busy'
  BY <1>1 DEF Look, Clocks
<1>6. /\ passed' \subseteq Pool
      /\ launching' \subseteq Changes /\ inflight' \subseteq Changes
  BY <1>3, <1>5 DEF TypeInv, TypeOK
<1>7. /\ ready' \subseteq ready /\ retried' \subseteq Changes
      /\ excused' \subseteq excused \cup {c}
      /\ \/ pc' = "look" /\ writing' = <<>> /\ UNCHANGED <<excused, retried>>
         \/ /\ pc' = "write" /\ StatusOf(c) = "failed"
            /\ writing' = <<c, "waiting">> /\ UNCHANGED <<excused, retried>>
         \/ /\ pc' = "write" /\ writing'[1] = c
            /\ writing' \in {<<c, "failed">>, <<c, "waiting">>}
            /\ excused' = excused \cup {c}
  BY <1>2, <1>3
  DEF LaunchTimesOut, InflightTimesOut, SeesFailed, JustLooks, Excuse,
      TypeInv, TypeOK
<1> QED
  BY <1>2, <1>3, <1>4, <1>5, <1>6, <1>7

(* Looking at a change keeps types and phases. *)
LEMMA LookType ==
  ASSUME TypeInv, NEW c \in Changes,
         \/ LaunchTimesOut(c) \/ InflightTimesOut(c) \/ SeesFailed(c)
         \/ JustLooks(c)
  PROVE  TypeInv'
<1>1. writing' = <<>> \/ writing' \in Pool' \X Statuses
  BY LookIs DEF Statuses
<1>2. excused' \subseteq Changes
  BY LookIs DEF TypeInv, TypeOK
<1>3. busy' \subseteq Pool'
  BY LookIs DEF TypeInv, TypeOK
<1>4. TypeOK'
  BY LookIs, <1>1, <1>2, <1>3 DEF TypeInv, TypeOK, launchVars
<1>5. PhaseInv'
  BY LookIs DEF TypeInv, PhaseInv, launchVars
<1>6. TrybotInv'
  BY LookIs DEF TypeInv, TrybotInv, Members
<1> QED
  BY <1>4, <1>5, <1>6 DEF TypeInv

(* A query keeps types and phases. *)
LEMMA QueryType ==
  ASSUME TypeInv, Query
  PROVE  TypeInv'
<1>1. /\ pc = "query" /\ pc' = "look" /\ todo' = ready
      /\ busy' = {} /\ passed' = {}
      /\ pool' = [c \in Changes |-> IF c \in ready THEN patch[c] ELSE 0]
      /\ UNCHANGED <<patch, ready, status, launching, inflight, retried,
                     writing, plans, marking, trybot, left, tested, launches,
                     excused>>
  BY DEF Query, gerritVars, timeVars, launchVars, historyVars
<1>2. writing = <<>> /\ plans = {} /\ marking = {}
  BY <1>1 DEF TypeInv, PhaseInv
<1>3. \A c \in Changes : patch[c] \in 1 .. MaxPatchSets
  BY DEF TypeInv, TypeOK, PatchSets
<1>4. pool' \in [Changes -> 0 .. MaxPatchSets]
  <2>1. \A c \in Changes : patch[c] \in 0 .. MaxPatchSets /\ patch[c] # 0
    BY <1>3, PreCQAssumption
  <2> QED
    BY <1>1, <2>1, PreCQAssumption
<1>5. Pool' = ready
  <2>1. \A c \in Changes : patch[c] # 0
    BY <1>3, PreCQAssumption
  <2> QED
    BY <1>1, <2>1 DEF Pool, TypeInv, TypeOK
<1>6. TypeOK'
  BY <1>1, <1>2, <1>4, <1>5 DEF TypeInv, TypeOK
<1>7. PhaseInv' /\ TrybotInv'
  BY <1>1, <1>2 DEF TypeInv, PhaseInv, TrybotInv, Members
<1> QED
  BY <1>6, <1>7 DEF TypeInv

(* A write is of the status at hand, of a change that the loop is about. *)
LEMMA WriteType ==
  ASSUME TypeInv, Write \/ WriteMark
  PROVE  /\ TypeInv'
         /\ writing # <<>> /\ writing[1] \in Pool /\ writing' = <<>>
         /\ writing[2] \in {"failed", "waiting", "launching"}
         /\ writing = <<writing[1], writing[2]>>
         /\ status' = [status EXCEPT ![writing[1]][pool[writing[1]]] = writing[2]]
         /\ pool[writing[1]] \in PatchSets
<1>1. /\ status' = [status EXCEPT ![writing[1]][pool[writing[1]]] = writing[2]]
      /\ writing' = <<>>
      /\ \/ pc = "write" /\ pc' = "look"
         \/ pc = "mark" /\ pc' = "mark" /\ writing # <<>>
      /\ UNCHANGED <<patch, ready, launching, inflight, retried, pool, todo,
                     busy, passed, plans, marking, trybot, left, tested,
                     launches, excused>>
  BY DEF Write, WriteMark, gerritVars, timeVars, loopVars, launchVars,
         historyVars
<1>2. writing # <<>> /\ writing[2] \in {"failed", "waiting", "launching"}
  BY <1>1 DEF TypeInv, PhaseInv
<1>3. /\ writing[1] \in Pool /\ writing[1] \in Changes
      /\ writing[2] \in Statuses /\ writing = <<writing[1], writing[2]>>
  BY <1>2, WritingIs DEF TypeInv, Pool
<1>4. pool[writing[1]] \in PatchSets
  BY <1>3, PreCQAssumption DEF TypeInv, TypeOK, Pool, PatchSets
<1>5. status' \in [Changes -> [PatchSets -> Statuses]]
  <2>1. status \in [Changes -> [PatchSets -> Statuses]]
    BY DEF TypeInv, TypeOK
  <2> DEFINE c == writing[1]
             s == writing[2]
             new == [status[c] EXCEPT ![pool[c]] = s]
  <2>2. status' = [status EXCEPT ![c] = new]
    BY <1>1, <1>3
  <2>3. new \in [PatchSets -> Statuses]
    BY <1>3, <1>4, <2>1
  <2> HIDE DEF c, s, new
  <2> QED
    BY <2>1, <2>2, <2>3
<1>6. Pool' = Pool
  BY <1>1 DEF Pool
<1>7. TypeOK'
  BY <1>1, <1>5, <1>6 DEF TypeInv, TypeOK
<1>8. PhaseInv' /\ TrybotInv'
  BY <1>1 DEF TypeInv, PhaseInv, TrybotInv, Members
<1> QED
  BY <1>1, <1>2, <1>3, <1>4, <1>7, <1>8 DEF TypeInv

(* Planning keeps types and phases. *)
LEMMA PlanType ==
  ASSUME TypeInv, NEW refused, PlanRefusing(refused)
  PROVE  TypeInv'
<1>1. /\ pc = "look" /\ todo = {} /\ pc' = "launch"
      /\ plans' \subseteq Plans /\ ready' = ready \ refused
      /\ UNCHANGED <<patch, status, launching, inflight, retried, pool, todo,
                     busy, passed, writing, marking, trybot, left, tested,
                     launches, excused>>
  BY DEF PlanRefusing, timeVars, loopVars, historyVars
<1>2. Pool' = Pool
  BY <1>1 DEF Pool
<1>3. Plans \subseteq SUBSET Pool
  BY DEF Plans, Groups, Resolved
<1>4. plans' \subseteq SUBSET Pool'
  BY <1>1, <1>2, <1>3
<1>5. TypeOK'
  BY <1>1, <1>2, <1>4 DEF TypeInv, TypeOK
<1>6. PhaseInv' /\ TrybotInv'
  BY <1>1 DEF TypeInv, PhaseInv, TrybotInv, Members
<1> QED
  BY <1>5, <1>6 DEF TypeInv

(* A trybot that is asked for is about the changes of its plan. *)
LEMMA LaunchType ==
  ASSUME TypeInv, NEW plan \in plans, Launch(plan)
  PROVE  /\ TypeInv'
         /\ \/ trybot' = trybot
            \/ \E t \in Trybots :
                 /\ trybot[t] = Free /\ trybot'[t] = Queued(plan)
                 /\ \A u \in Trybots \ {t} : trybot'[u] = trybot[u]
<1>1. /\ pc = "launch" /\ pc' = "mark"
      /\ plans' = plans \ {plan} /\ marking' = plan
      /\ launches' = [c \in Changes |->
                        IF c \in plan /\ launches[c] < 2 THEN launches[c] + 1
                                                         ELSE launches[c]]
      /\ UNCHANGED <<patch, ready, status, launching, inflight, retried, pool,
                     todo, busy, passed, writing, left, tested, excused>>
  BY DEF Launch, gerritVars, timeVars, loopVars
<1>2. plan \in SUBSET Pool /\ plan \in SUBSET Changes /\ Pool' = Pool
  BY <1>1 DEF TypeInv, TypeOK, Pool
<1>3. Queued(plan) \in TrybotRecords
  <2>1. [c \in plan |-> 0] \in [plan -> 0 .. MaxPatchSets]
    BY PreCQAssumption
  <2>2. [c \in plan |-> 0] \in Tested
    BY <1>2, <2>1, TestedType
  <2> QED
    BY <2>2 DEF Queued, TrybotRecords
<1>4. launches' \in [Changes -> 0 .. 2]
  BY <1>1 DEF TypeInv, TypeOK
<1>5. /\ trybot' \in [Trybots -> TrybotRecords]
      /\ \/ trybot' = trybot
         \/ \E t \in Trybots :
              /\ trybot[t] = Free /\ trybot'[t] = Queued(plan)
              /\ \A u \in Trybots \ {t} : trybot'[u] = trybot[u]
  <2>1. trybot \in [Trybots -> TrybotRecords]
    BY DEF TypeInv, TypeOK
  <2>2. CASE trybot' = trybot
    BY <2>1, <2>2
  <2>3. ASSUME NEW t \in Trybots, trybot[t] = Free,
               trybot' = [trybot EXCEPT ![t] = Queued(plan)]
        PROVE  <1>5!1 /\ <1>5!2!2
    BY <1>3, <2>1, <2>3
  <2> QED
    BY <2>2, <2>3 DEF Launch
<1>6. plans' \subseteq SUBSET Pool' /\ marking' \subseteq Pool'
  BY <1>1, <1>2 DEF TypeInv, TypeOK
<1>7. TypeOK'
  BY <1>1, <1>2, <1>4, <1>5, <1>6 DEF TypeInv, TypeOK
<1>8. PhaseInv'
  BY <1>1 DEF TypeInv, PhaseInv
<1>9. TrybotInv'
  <2>1. TrybotOK(Queued(plan))
    BY DEF Queued, TrybotOK
  <2> QED
    BY <1>5, <2>1 DEF TypeInv, TrybotInv
<1> QED
  BY <1>5, <1>7, <1>8, <1>9 DEF TypeInv

(* Marking the changes of a plan keeps types and phases. *)
LEMMA MarkType ==
  ASSUME TypeInv, (\E c \in Changes : Mark(c)) \/ Marked
  PROVE  TypeInv'
<1>1. /\ pc = "mark" /\ writing = <<>> /\ marking' \subseteq marking
      /\ \/ pc' = "mark"
         \/ pc' = "launch" /\ writing' = <<>> /\ marking' = {}
      /\ UNCHANGED <<patch, ready, status, launching, inflight, retried, pool,
                     todo, busy, passed, plans, trybot, left, tested,
                     launches, excused>>
  BY DEF Mark, Marked, gerritVars, timeVars, loopVars, launchVars, historyVars
<1>2. Pool' = Pool
  BY <1>1 DEF Pool
<1>3. writing' = <<>> \/ \E c \in marking : writing' = <<c, "launching">>
  BY <1>1 DEF Mark, Marked
<1>4. /\ writing' = <<>> \/ writing' \in Pool' \X Statuses
      /\ writing' # <<>> => writing'[2] = "launching"
  BY <1>2, <1>3 DEF TypeInv, TypeOK, Statuses
<1>5. TypeOK'
  BY <1>1, <1>2, <1>4 DEF TypeInv, TypeOK
<1>6. PhaseInv' /\ TrybotInv'
  BY <1>1, <1>4 DEF TypeInv, PhaseInv, TrybotInv, Members
<1> QED
  BY <1>5, <1>6 DEF TypeInv

(* The end of a loop, or of the stage, keeps types and phases. *)
LEMMA LoopEndsType ==
  ASSUME TypeInv, LoopEnds \/ Restart
  PROVE  TypeInv'
<1>1. /\ pc' = "query" /\ pool' = Nothing
      /\ todo' = {} /\ busy' = {} /\ passed' = {}
      /\ writing' = <<>> /\ plans' = {} /\ marking' = {}
      /\ launching' \subseteq launching /\ inflight' \subseteq inflight
      /\ retried' \subseteq retried
      /\ excused' \subseteq excused \cup Unmarked
      /\ UNCHANGED <<patch, ready, status, trybot, tested, launches>>
  BY DEF LoopEnds, Restart, gerritVars, timeVars, launchVars, historyVars,
         TypeInv, PhaseInv
<1>2. left' \in [Changes -> 0 .. Disturbances]
  <2>1. left \in [Changes -> 0 .. Disturbances]
    BY DEF TypeInv, TypeOK
  <2>2. CASE LoopEnds
    BY <2>1, <2>2 DEF LoopEnds
  <2>3. ASSUME NEW c \in Changes, Disturb(c)
        PROVE  left' \in [Changes -> 0 .. Disturbances]
    <3>1. left[c] - 1 \in 0 .. Disturbances
      BY PreCQAssumption, <2>1, <2>3 DEF Disturb
    <3> QED
      BY <2>1, <2>3, <3>1 DEF Disturb
  <2> QED
    BY <2>2, <2>3 DEF Restart
<1>3. excused' \subseteq Changes
  BY <1>1 DEF Unmarked, TypeInv, TypeOK, Pool
<1>4. pool' \in [Changes -> 0 .. MaxPatchSets]
  BY <1>1, PreCQAssumption DEF Nothing
<1>5. TypeOK'
  BY <1>1, <1>2, <1>3, <1>4 DEF TypeInv, TypeOK
<1>6. PhaseInv' /\ TrybotInv'
  BY <1>1 DEF TypeInv, PhaseInv, TrybotInv, Members, Nothing
<1> QED
  BY <1>5, <1>6 DEF TypeInv

(* A trybot leaves alone what the launcher keeps to itself. *)
LEMMA TrybotLeaves ==
  ASSUME TypeInv, NEW t \in Trybots, TrybotStep(t),
         trybot' \in [Trybots -> TrybotRecords],
         TrybotInv', status' \in [Changes -> [PatchSets -> Statuses]],
         left' \in [Changes -> 0 .. Disturbances],
         tested' \subseteq Changes \X PatchSets
  PROVE  TypeInv'
<1>1. /\ UNCHANGED <<patch, pc, launching, inflight, retried, pool, todo,
                     busy, passed, writing, plans, marking, launches, excused>>
      /\ ready' \subseteq ready
  BY DEF TrybotStep, Apply, SeesApplied, WritesInflight, Succeeds,
         WritesPassed, Fails, WritesFailed, gerritVars, launcherVars,
         timeVars, loopVars, launchVars
<1>2. Pool' = Pool
  BY <1>1 DEF Pool
<1>3. TypeOK'
  BY <1>1, <1>2 DEF TypeInv, TypeOK
<1>4. PhaseInv'
  BY <1>1 DEF TypeInv, PhaseInv, Nothing
<1> QED
  BY <1>3, <1>4 DEF TypeInv

(* A trybot that starts is about changes it could apply. *)
LEMMA ApplyType ==
  ASSUME TypeInv, NEW t \in Trybots, Apply(t)
  PROVE  /\ TypeInv'
         /\ trybot[t].pc = "queued"
         /\ \A u \in Trybots \ {t} : trybot'[u] = trybot[u]
         /\ \/ trybot'[t] = Free
            \/ /\ trybot'[t].pc = "applied" /\ trybot'[t].late = {}
               /\ \A c \in DOMAIN trybot'[t].at :
                    c \in Members(t) /\ trybot'[t].at[c] = patch[c]
         /\ UNCHANGED <<patch, status, pc, pool, todo, busy, writing, plans,
                        marking, tested, launches, retried, excused>>
<1>1. PICK applied \in SUBSET Members(t) :
        IF applied = {}
        THEN trybot' = [trybot EXCEPT ![t] = Free]
        ELSE Becomes(t, "applied", [c \in applied |-> patch[c]], applied, {})
  BY DEF Apply
<1>2. /\ trybot[t].pc = "queued"
      /\ UNCHANGED <<patch, status, pc, pool, todo, busy, writing, plans,
                     marking, launches, retried, left, tested, excused>>
  BY DEF Apply, launcherVars, timeVars, loopVars, launchVars
<1>3. trybot \in [Trybots -> TrybotRecords]
  BY DEF TypeInv, TypeOK
<1>4. Members(t) \subseteq Changes
  BY <1>3, TestedDomain DEF Members, TrybotRecords
<1>5. \A c \in applied : patch[c] \in PatchSets /\ patch[c] \in 0 .. MaxPatchSets
  BY <1>4, PreCQAssumption DEF TypeInv, TypeOK, PatchSets
<1>6. PICK at \in Tested : at = [c \in applied |-> patch[c]]
  BY <1>4, <1>5, TestedType
<1>7. PICK new \in TrybotRecords :
        /\ trybot' = [trybot EXCEPT ![t] = new] /\ TrybotOK(new)
        /\ new = Free \/ new = Trybot("applied", at, applied, {})
  <2>1. /\ Trybot("applied", at, applied, {}) \in TrybotRecords
        /\ TrybotOK(Trybot("applied", at, applied, {}))
    BY <1>5, <1>6, NewTrybot
  <2>2. CASE applied = {}
    BY <1>1, <2>2, FreeType
  <2>3. CASE applied # {}
    BY <1>1, <1>6, <2>1, <2>3 DEF Becomes, Trybot
  <2> QED
    BY <2>2, <2>3
<1>8. /\ trybot' \in [Trybots -> TrybotRecords] /\ TrybotInv'
      /\ trybot'[t] = new
      /\ \A u \in Trybots \ {t} : trybot'[u] = trybot[u]
  BY <1>7, Turns
<1>9. TypeInv'
  BY <1>2, <1>8, TrybotLeaves DEF TypeInv, TypeOK, TrybotStep
<1>10. \/ trybot'[t] = Free
       \/ /\ trybot'[t].pc = "applied" /\ trybot'[t].late = {}
          /\ \A c \in DOMAIN trybot'[t].at :
               c \in Members(t) /\ trybot'[t].at[c] = patch[c]
  BY <1>6, <1>7, <1>8 DEF Trybot
<1> QED
  BY <1>2, <1>8, <1>9, <1>10

(* A new status keeps its type. *)
LEMMA StatusType ==
  ASSUME TypeOK, NEW c \in Changes, NEW p \in PatchSets, NEW s \in Statuses,
         status' = [status EXCEPT ![c][p] = s]
  PROVE  /\ status' \in [Changes -> [PatchSets -> Statuses]]
         /\ \A d \in Changes, q \in PatchSets :
              status'[d][q] = IF d = c /\ q = p THEN s ELSE status[d][q]
<1>1. status \in [Changes -> [PatchSets -> Statuses]]
  BY DEF TypeOK
<1> DEFINE new == [status[c] EXCEPT ![p] = s]
<1>2. new \in [PatchSets -> Statuses] /\ status' = [status EXCEPT ![c] = new]
  BY <1>1
<1>3. \A q \in PatchSets : new[q] = IF q = p THEN s ELSE status[c][q]
  BY <1>1
<1> HIDE DEF new
<1> QED
  BY <1>1, <1>2, <1>3

(* A trybot reports on one of its changes: what it does to the status, and  *)
(* what it has still to do.                                                 *)
Reports(t, c) ==
  \/ SeesApplied(t, c) \/ WritesInflight(t, c)
  \/ WritesPassed(t, c) \/ WritesFailed(t, c)

LEMMA ReportType ==
  ASSUME TypeInv, NEW t \in Trybots, NEW c \in Changes, Reports(t, c)
  PROVE  /\ TypeInv'
         /\ \A u \in Trybots \ {t} : trybot'[u] = trybot[u]
         /\ UNCHANGED <<patch, pc, pool, todo, busy, writing, plans, marking,
                        tested, launches, retried, excused>>
         /\ c \in Members(t) /\ trybot[t].at[c] \in PatchSets
         /\ \/ trybot'[t] = Free
            \/ /\ trybot'[t].pc = trybot[t].pc /\ trybot'[t].at = trybot[t].at
               /\ trybot'[t].todo \subseteq trybot[t].todo
         /\ \/ /\ trybot[t].pc = "applied" /\ UNCHANGED status
               /\ trybot'[t].late \subseteq trybot[t].late \cup
                    {d \in {c} : status[d][trybot[t].at[d]] = "launching"}
            \/ /\ trybot[t].pc = "applied" /\ c \in trybot[t].late
               /\ status' = [status EXCEPT ![c][trybot[t].at[c]] = "inflight"]
               /\ trybot'[t].late \subseteq trybot[t].late \ {c}
            \/ /\ trybot[t].pc = "passing" /\ c \in trybot[t].todo
               /\ status' = [status EXCEPT ![c][trybot[t].at[c]] = "passed"]
               /\ trybot'[t].todo \subseteq trybot[t].todo \ {c}
               /\ trybot'[t].late = {}
            \/ /\ trybot[t].pc = "failing" /\ c \in trybot[t].late
               /\ status' = [status EXCEPT ![c][trybot[t].at[c]] = "failed"]
               /\ trybot'[t].late \subseteq trybot[t].late \ {c}
<1>1. trybot[t] \in TrybotRecords /\ TrybotOK(trybot[t])
  BY DEF TypeInv, TypeOK, TrybotInv
<1>2. /\ trybot[t].at \in Tested
      /\ trybot[t].todo \subseteq Members(t) /\ trybot[t].late \subseteq Members(t)
  BY <1>1 DEF TrybotRecords, TrybotOK, Members
<1>3. PICK where \in {"applied", "passing", "failing"}, at \in Tested,
           ahead \in SUBSET trybot[t].todo,
           late \in SUBSET (trybot[t].late \cup {c}) :
        /\ where = trybot[t].pc /\ at = trybot[t].at
        /\ trybot' = [trybot EXCEPT ![t] = Rest(where, at, ahead, late)]
        /\ where = "failing" => ahead = {}
        /\ where = "passing" => late = {}
        /\ \/ /\ where = "applied" /\ UNCHANGED status /\ c \in trybot[t].todo
              /\ late = trybot[t].late \cup
                   {d \in {c} : status[d][at[d]] = "launching"}
           \/ /\ where = "applied" /\ c \in trybot[t].late
              /\ status' = [status EXCEPT ![c][at[c]] = "inflight"]
              /\ late = trybot[t].late \ {c}
           \/ /\ where = "passing" /\ c \in trybot[t].todo
              /\ status' = [status EXCEPT ![c][at[c]] = "passed"]
              /\ ahead = trybot[t].todo \ {c} /\ late = {}
           \/ /\ where = "failing" /\ c \in trybot[t].late
              /\ status' = [status EXCEPT ![c][at[c]] = "failed"]
              /\ late = trybot[t].late \ {c}
  <2>1. CASE SeesApplied(t, c)
    <3> DEFINE late == trybot[t].late \cup
                   {d \in {c} : status[d][trybot[t].at[d]] = "launching"}
    <3>1. late = trybot[t].late \cup
            (IF status[c][trybot[t].at[c]] = "launching" THEN {c} ELSE {})
      OBVIOUS
    <3>2. /\ trybot[t].pc = "applied" /\ c \in trybot[t].todo /\ UNCHANGED status
          /\ trybot' = [trybot EXCEPT ![t] =
                          Rest("applied", trybot[t].at, trybot[t].todo \ {c}, late)]
      BY <2>1, <3>1 DEF SeesApplied, Becomes, Rest, Trybot
    <3>3. late \in SUBSET (trybot[t].late \cup {c})
      OBVIOUS
    <3> QED
      BY <1>2, <3>2, <3>3
  <2>2. CASE WritesInflight(t, c)
    BY <1>2, <2>2 DEF WritesInflight, Becomes, Rest, Trybot
  <2>3. CASE WritesPassed(t, c)
    BY <1>2, <2>3 DEF WritesPassed, Becomes, Rest, Trybot
  <2>4. CASE WritesFailed(t, c)
    BY <1>2, <2>4 DEF WritesFailed, Becomes, Rest, Trybot
  <2> QED
    BY <2>1, <2>2, <2>3, <2>4 DEF Reports
<1>4. /\ UNCHANGED <<patch, pc, pool, todo, busy, writing, plans, marking,
                     launches, retried, left, tested, excused>>
      /\ TrybotStep(t)
  BY DEF Reports, TrybotStep, SeesApplied, WritesInflight, WritesPassed,
         WritesFailed, gerritVars, launcherVars, timeVars, loopVars, launchVars
<1>5. /\ c \in Members(t) /\ at[c] \in PatchSets
      /\ \A d \in DOMAIN at : at[d] \in PatchSets
  <2>1. c \in trybot[t].todo \cup trybot[t].late
    BY <1>3
  <2>2. \A d \in DOMAIN at : at[d] \in PatchSets
    BY <1>1, <1>3 DEF TrybotOK
  <2> QED
    BY <1>2, <1>3, <2>1, <2>2 DEF Members
<1>6. ahead \in SUBSET DOMAIN at /\ late \in SUBSET DOMAIN at
  BY <1>2, <1>3, <1>5 DEF Members
<1>7. PICK new \in TrybotRecords :
        /\ new = Rest(where, at, ahead, late) /\ TrybotOK(new)
        /\ trybot' = [trybot EXCEPT ![t] = new]
        /\ \/ new = Trybot(where, at, ahead, late)
           \/ new = Free /\ ahead = {} /\ late = {}
  <2>1. /\ Trybot(where, at, ahead, late) \in TrybotRecords
        /\ TrybotOK(Trybot(where, at, ahead, late))
    <3>1. /\ where = "failing" => ahead = {}
          /\ where = "passing" => late = {}
      BY <1>3
    <3> QED
      BY <3>1, <1>5, <1>6, NewTrybot
  <2>2. trybot' = [trybot EXCEPT ![t] = Rest(where, at, ahead, late)]
    BY <1>3
  <2> QED
    BY <2>1, <2>2, FreeType DEF Rest
<1>8. /\ trybot' \in [Trybots -> TrybotRecords] /\ TrybotInv'
      /\ trybot'[t] = new
      /\ \A u \in Trybots \ {t} : trybot'[u] = trybot[u]
  BY <1>7, Turns
<1>9. status' \in [Changes -> [PatchSets -> Statuses]]
  <2>1. "inflight" \in Statuses /\ "passed" \in Statuses /\ "failed" \in Statuses
    BY DEF Statuses
  <2>2. TypeOK
    BY DEF TypeInv
  <2>3. \/ UNCHANGED status
        \/ \E s \in {"inflight", "passed", "failed"} :
             status' = [status EXCEPT ![c][at[c]] = s]
    BY <1>3
  <2> QED
    BY <1>5, <2>1, <2>2, <2>3, StatusType DEF TypeOK
<1>10. TypeInv'
  BY <1>4, <1>8, <1>9, TrybotLeaves DEF TypeInv, TypeOK
<1>11. /\ \/ trybot'[t] = Free
          \/ /\ trybot'[t].pc = where /\ trybot'[t].at = at
             /\ trybot'[t].todo \subseteq trybot[t].todo
       /\ trybot'[t].late = late /\ trybot'[t].todo = ahead
  BY <1>7, <1>8, FreeType DEF Trybot
<1> QED
  BY <1>3, <1>4, <1>5, <1>8, <1>10, <1>11

(* A trybot whose builds succeeded vouches for what it tested. *)
LEMMA SucceedsType ==
  ASSUME TypeInv, NEW t \in Trybots, Succeeds(t)
  PROVE  /\ TypeInv'
         /\ trybot[t].pc = "applied"
         /\ \A u \in Trybots \ {t} : trybot'[u] = trybot[u]
         /\ UNCHANGED <<patch, status, pc, pool, todo, busy, writing, plans,
                        marking, launches, retried, excused>>
         /\ tested' = tested \cup {<<c, trybot[t].at[c]>> : c \in Members(t)}
         /\ \/ trybot'[t] = Free
            \/ trybot'[t] = Trybot("passing", trybot[t].at, Members(t), {})
<1>1. trybot[t] \in TrybotRecords /\ TrybotOK(trybot[t])
  BY DEF TypeInv, TypeOK, TrybotInv
<1>2. trybot[t].at \in Tested
  BY <1>1 DEF TrybotRecords
<1>3. /\ trybot[t].pc = "applied"
      /\ trybot' = [trybot EXCEPT ![t] =
                      Rest("passing", trybot[t].at, Members(t), {})]
      /\ tested' = tested \cup {<<c, trybot[t].at[c]>> : c \in Members(t)}
      /\ UNCHANGED <<patch, status, pc, pool, todo, busy, writing, plans,
                     marking, launches, retried, left, excused>>
  BY DEF Succeeds, Done, Verified, Becomes, Rest, Trybot, gerritVars,
         launcherVars, timeVars, loopVars, launchVars
<1>4. /\ Members(t) \subseteq Changes
      /\ \A c \in Members(t) : trybot[t].at[c] \in PatchSets
  BY <1>1, <1>2, <1>3, TestedDomain DEF Members, TrybotOK
<1>5. PICK new \in TrybotRecords :
        /\ TrybotOK(new) /\ trybot' = [trybot EXCEPT ![t] = new]
        /\ new = Free \/ new = Trybot("passing", trybot[t].at, Members(t), {})
  <2>1. /\ Trybot("passing", trybot[t].at, Members(t), {}) \in TrybotRecords
        /\ TrybotOK(Trybot("passing", trybot[t].at, Members(t), {}))
    BY <1>2, <1>4, NewTrybot DEF Members
  <2> QED
    BY <1>3, <2>1, FreeType DEF Rest
<1>6. /\ trybot' \in [Trybots -> TrybotRecords] /\ TrybotInv'
      /\ trybot'[t] = new
      /\ \A u \in Trybots \ {t} : trybot'[u] = trybot[u]
  BY <1>5, Turns
<1>7. tested' \subseteq Changes \X PatchSets
  <2>1. tested \subseteq Changes \X PatchSets
    BY DEF TypeInv, TypeOK
  <2>2. \A c \in Members(t) : <<c, trybot[t].at[c]>> \in Changes \X PatchSets
    BY <1>4
  <2> QED
    BY <1>3, <2>1, <2>2
<1>8. TypeInv'
  BY <1>3, <1>6, <1>7, TrybotLeaves DEF TypeInv, TypeOK, TrybotStep
<1> QED
  BY <1>3, <1>5, <1>6, <1>8

(* A trybot whose builds failed turns down the latest patch sets of its     *)
(* changes, except those that have passed.                                  *)
LEMMA FailsType ==
  ASSUME TypeInv, NEW t \in Trybots, Fails(t)
  PROVE  /\ TypeInv'
         /\ trybot[t].pc = "applied"
         /\ \A u \in Trybots \ {t} : trybot'[u] = trybot[u]
         /\ UNCHANGED <<patch, status, pc, pool, todo, busy, writing, plans,
                        marking, tested, launches, retried, excused>>
         /\ \/ trybot'[t] = Free
            \/ /\ trybot'[t].pc = "failing"
               /\ \A c \in DOMAIN trybot'[t].at :
                    /\ c \in Members(t) /\ trybot'[t].at[c] = patch[c]
                    /\ status[c][patch[c]] # "passed"
<1>1. trybot[t] \in TrybotRecords
  BY DEF TypeInv, TypeOK
<1> DEFINE candidates == {c \in Members(t) : status[c][patch[c]] # "passed"}
<1>a. PICK suspects \in SUBSET candidates :
        /\ left' = [c \in Changes |-> IF c \in candidates \ suspects
                                      THEN left[c] - 1 ELSE left[c]]
        /\ \A c \in candidates \ suspects : left[c] > 0
        /\ Becomes(t, "failing", [c \in candidates |-> patch[c]], {}, candidates)
  BY DEF Fails
<1>2. /\ candidates \in SUBSET Members(t)
      /\ \A c \in candidates : status[c][patch[c]] # "passed"
  OBVIOUS
<1> HIDE DEF candidates
<1>3. /\ trybot[t].pc = "applied"
      /\ UNCHANGED <<patch, status, pc, pool, todo, busy, writing, plans,
                     marking, tested, launches, retried, excused>>
  BY DEF Fails, Done, launcherVars, timeVars, loopVars, launchVars
<1>4. candidates \subseteq Members(t) /\ candidates \subseteq Changes
  BY <1>1, <1>2, TestedDomain DEF Members, TrybotRecords
<1>5. \A c \in candidates : patch[c] \in PatchSets /\ patch[c] \in 0 .. MaxPatchSets
  BY <1>4, PreCQAssumption DEF TypeInv, TypeOK, PatchSets
<1>6. PICK at \in Tested : at = [c \in candidates |-> patch[c]]
  BY <1>4, <1>5, TestedType
<1>7. PICK new \in TrybotRecords :
        /\ TrybotOK(new) /\ trybot' = [trybot EXCEPT ![t] = new]
        /\ new = Free \/ new = Trybot("failing", at, {}, candidates)
  <2>1. /\ Trybot("failing", at, {}, candidates) \in TrybotRecords
        /\ TrybotOK(Trybot("failing", at, {}, candidates))
    BY <1>5, <1>6, NewTrybot
  <2>2. trybot' = [trybot EXCEPT ![t] = Rest("failing", at, {}, candidates)]
    BY <1>a, <1>6 DEF Becomes, Rest, Trybot
  <2> QED
    BY <2>1, <2>2, FreeType DEF Rest
<1>8. /\ trybot' \in [Trybots -> TrybotRecords] /\ TrybotInv'
      /\ trybot'[t] = new
      /\ \A u \in Trybots \ {t} : trybot'[u] = trybot[u]
  BY <1>7, Turns
<1>9. left' \in [Changes -> 0 .. Disturbances]
  BY <1>a, PreCQAssumption DEF TypeInv, TypeOK
<1>10. TypeInv'
  BY <1>3, <1>8, <1>9, TrybotLeaves DEF TypeInv, TypeOK, TrybotStep
<1>11. \/ trybot'[t] = Free
       \/ /\ trybot'[t].pc = "failing"
          /\ \A c \in DOMAIN trybot'[t].at :
               /\ c \in Members(t) /\ trybot'[t].at[c] = patch[c]
               /\ status[c][patch[c]] # "passed"
  BY <1>2, <1>6, <1>7, <1>8 DEF Trybot
<1> QED
  BY <1>3, <1>8, <1>10, <1>11

(* Every step is one of those above. *)
LEMMA Steps ==
  ASSUME [Next]_vars
  PROVE  \/ UNCHANGED vars
         \/ Query \/ LoopEnds \/ Restart \/ Marked \/ Write \/ WriteMark
         \/ \E refused \in SUBSET (Pool \ Resolved) : PlanRefusing(refused)
         \/ \E plan \in plans : Launch(plan)
         \/ \E c \in Changes :
              \/ Upload(c) \/ MarkReady(c) \/ Mark(c)
              \/ \/ LaunchTimesOut(c) \/ InflightTimesOut(c) \/ SeesFailed(c)
                 \/ JustLooks(c)
         \/ \E t \in Trybots :
              \/ Apply(t) \/ Succeeds(t) \/ Fails(t)
              \/ \E c \in Changes : Reports(t, c)
  BY DEF Next, LauncherStep, TrybotStep, Plan, Reports

(* Types and phases are kept by every step. *)
LEMMA TypeStep ==
  ASSUME TypeInv, [Next]_vars
  PROVE  TypeInv'
<1>1. CASE UNCHANGED vars
  <2>1. Pool' = Pool
    BY <1>1 DEF vars, loopVars, Pool
  <2> QED
    BY <1>1, <2>1
    DEF TypeInv, TypeOK, PhaseInv, TrybotInv, vars, gerritVars, timeVars,
        loopVars, launchVars, historyVars, Nothing
<1>2. CASE Query \/ LoopEnds \/ Restart \/ Marked \/ Write \/ WriteMark
  BY <1>2, QueryType, LoopEndsType, MarkType, WriteType
<1>3. CASE \E refused \in SUBSET (Pool \ Resolved) : PlanRefusing(refused)
  BY <1>3, PlanType
<1>4. CASE \E plan \in plans : Launch(plan)
  BY <1>4, LaunchType
<1>5. ASSUME NEW c \in Changes,
             \/ Upload(c) \/ MarkReady(c) \/ Mark(c)
             \/ \/ LaunchTimesOut(c) \/ InflightTimesOut(c) \/ SeesFailed(c)
                \/ JustLooks(c)
      PROVE  TypeInv'
  BY <1>5, DeveloperType, MarkType, LookType
<1>6. ASSUME NEW t \in Trybots,
             \/ Apply(t) \/ Succeeds(t) \/ Fails(t)
             \/ \E c \in Changes : Reports(t, c)
      PROVE  TypeInv'
  BY <1>6, ApplyType, SucceedsType, FailsType, ReportType
<1> QED
  BY <1>1, <1>2, <1>3, <1>4, <1>5, <1>6, Steps

(* Every variable keeps its type, whatever the launcher, the trybots and    *)
(* the developers do.                                                       *)
THEOREM TypeCorrect == Spec => []TypeOK
<1>1. Init => TypeInv
  BY InitInv DEF IInv, TypeInv
<1>2. TypeInv /\ [Next]_vars => TypeInv'
  BY TypeStep
<1>3. TypeInv => TypeOK
  BY DEF TypeInv
<1> QED
  BY <1>1, <1>2, <1>3, PTL DEF Spec

-----------------------------------------------------------------------------
(* What has passed was tested.                                              *)

(* Steps that neither write a status nor touch a trybot. *)
Quiet ==
  \/ UNCHANGED vars \/ Query \/ LoopEnds \/ Restart \/ Marked
  \/ \E refused \in SUBSET (Pool \ Resolved) : PlanRefusing(refused)
  \/ \E c \in Changes :
       \/ Upload(c) \/ MarkReady(c) \/ Mark(c)
       \/ \/ LaunchTimesOut(c) \/ InflightTimesOut(c) \/ SeesFailed(c)
          \/ JustLooks(c)

(* A quiet step leaves the statuses, the trybots and their results alone. *)
LEMMA QuietLeaves ==
  ASSUME TypeInv, Quiet
  PROVE  UNCHANGED <<status, trybot, tested>>
<1>1. CASE \/ UNCHANGED vars \/ Query \/ LoopEnds \/ Restart \/ Marked
           \/ \E refused \in SUBSET (Pool \ Resolved) : PlanRefusing(refused)
           \/ \E c \in Changes : Upload(c) \/ MarkReady(c) \/ Mark(c)
  BY <1>1 DEF vars, Query, LoopEnds, Restart, Marked, PlanRefusing, Upload,
         MarkReady, Mark, historyVars
<1>2. CASE \E c \in Changes :
             \/ LaunchTimesOut(c) \/ InflightTimesOut(c) \/ SeesFailed(c)
             \/ JustLooks(c)
  BY <1>2, LookIs
<1> QED
  BY <1>1, <1>2 DEF Quiet

(* Writes of the launcher are about the status at hand, and never "passed". *)
LEMMA WriteIs ==
  ASSUME TypeInv, Write \/ WriteMark
  PROVE  /\ writing[1] \in Changes /\ pool[writing[1]] \in PatchSets
         /\ writing[2] \in {"failed", "waiting", "launching"}
         /\ UNCHANGED <<patch, pool, todo, busy, plans, marking, trybot, tested,
                        launches, retried, excused>>
         /\ \A c \in Changes, p \in PatchSets :
              status'[c][p] = IF c = writing[1] /\ p = pool[c] THEN writing[2]
                              ELSE status[c][p]
<1>1. /\ writing[1] \in Changes /\ pool[writing[1]] \in PatchSets
      /\ writing[2] \in {"failed", "waiting", "launching"}
      /\ status' = [status EXCEPT ![writing[1]][pool[writing[1]]] = writing[2]]
  BY WriteType DEF Pool
<1>2. writing[2] \in Statuses
  BY <1>1 DEF Statuses
<1>3. UNCHANGED <<patch, pool, todo, busy, plans, marking, trybot, tested,
                  launches, retried, excused>>
  BY DEF Write, WriteMark, gerritVars, timeVars, loopVars, launchVars,
         historyVars
<1>4. PICK c \in Changes, p \in PatchSets, s \in Statuses :
        /\ c = writing[1] /\ p = pool[c] /\ s = writing[2]
        /\ status' = [status EXCEPT ![c][p] = s]
  BY <1>1, <1>2
<1>5. \A d \in Changes, q \in PatchSets :
        status'[d][q] = IF d = c /\ q = p THEN s ELSE status[d][q]
  <2>1. TypeOK /\ status' = [status EXCEPT ![c][p] = s]
    BY <1>4 DEF TypeInv
  <2> QED
    BY <2>1, StatusType
<1> QED
  BY <1>1, <1>3, <1>4, <1>5

(* What a report does to the statuses. *)
LEMMA ReportIs ==
  ASSUME TypeInv, NEW t \in Trybots, NEW c \in Changes, Reports(t, c)
  PROVE  \/ trybot[t].pc = "applied" /\ UNCHANGED status
         \/ \E s \in {"inflight", "passed", "failed"} :
              /\ trybot[t].pc = CASE s = "inflight" -> "applied"
                                  [] s = "passed" -> "passing"
                                  [] s = "failed" -> "failing"
              /\ s = "passed" => c \in trybot[t].todo
              /\ s # "passed" => c \in trybot[t].late
              /\ \A d \in Changes, p \in PatchSets :
                   status'[d][p] = IF d = c /\ p = trybot[t].at[c] THEN s
                                   ELSE status[d][p]
<1>1. TypeOK /\ trybot[t].at[c] \in PatchSets
  BY ReportType DEF TypeInv
<1>2. CASE trybot[t].pc = "applied" /\ UNCHANGED status
  BY <1>2
<1>3. ASSUME NEW s \in {"inflight", "passed", "failed"},
             status' = [status EXCEPT ![c][trybot[t].at[c]] = s]
      PROVE  \A d \in Changes, p \in PatchSets :
               status'[d][p] = IF d = c /\ p = trybot[t].at[c] THEN s
                               ELSE status[d][p]
  <2>1. s \in Statuses
    BY DEF Statuses
  <2>2. PICK q \in PatchSets : q = trybot[t].at[c]
    BY <1>1
  <2>3. TypeOK /\ status' = [status EXCEPT ![c][q] = s]
    BY <1>1, <1>3, <2>2
  <2>4. \A d \in Changes, p \in PatchSets :
          status'[d][p] = IF d = c /\ p = q THEN s ELSE status[d][p]
    BY <2>1, <2>3, StatusType
  <2> QED
    BY <2>2, <2>4
<1> QED
  BY <1>2, <1>3, ReportType

(* Only a trybot that tested a patch set says that it has passed. *)
LEMMA PassStep ==
  ASSUME TypeInv, PassedWasTested, PassInv, [Next]_vars
  PROVE  PassedWasTested' /\ PassInv'
<1>1. CASE Quiet
  BY <1>1, QuietLeaves DEF PassedWasTested, PassInv
<1>2. CASE Write \/ WriteMark
  BY <1>2, WriteIs DEF PassedWasTested, PassInv
<1>3. ASSUME NEW plan \in plans, Launch(plan)
      PROVE  PassedWasTested' /\ PassInv'
  <2>1. UNCHANGED <<status, tested>>
    BY <1>3 DEF Launch
  <2>2. \A t \in Trybots :
          trybot'[t] = trybot[t] \/ trybot'[t] = Queued(plan)
    BY <1>3, LaunchType
  <2>3. Queued(plan).pc # "passing"
    BY DEF Queued
  <2> QED
    BY <2>1, <2>2, <2>3 DEF PassedWasTested, PassInv
<1>4. ASSUME NEW t \in Trybots, Apply(t) \/ Fails(t)
      PROVE  PassedWasTested' /\ PassInv'
  <2>1. UNCHANGED <<status, tested>>
    BY <1>4, ApplyType, FailsType
  <2>2. \A u \in Trybots \ {t} : trybot'[u] = trybot[u]
    BY <1>4, ApplyType, FailsType
  <2>3. trybot'[t].pc # "passing"
    BY <1>4, ApplyType, FailsType, FreeType
  <2> QED
    BY <2>1, <2>2, <2>3 DEF PassedWasTested, PassInv
<1>5. ASSUME NEW t \in Trybots, Succeeds(t)
      PROVE  PassedWasTested' /\ PassInv'
  <2>1. /\ UNCHANGED status
        /\ tested' = tested \cup {<<c, trybot[t].at[c]>> : c \in Members(t)}
        /\ \A u \in Trybots \ {t} : trybot'[u] = trybot[u]
        /\ \/ trybot'[t] = Free
           \/ trybot'[t] = Trybot("passing", trybot[t].at, Members(t), {})
    BY <1>5, SucceedsType
  <2>2. PassedWasTested'
    BY <2>1 DEF PassedWasTested
  <2>3. PassInv'
    BY <2>1, FreeType DEF PassInv, Trybot
  <2> QED
    BY <2>2, <2>3
<1>6. ASSUME NEW t \in Trybots, NEW c \in Changes, Reports(t, c)
      PROVE  PassedWasTested' /\ PassInv'
  <2>1. tested' = tested /\ \A u \in Trybots \ {t} : trybot'[u] = trybot[u]
    BY <1>6, ReportType
  <2>2. PassInv'
    <3>1. \/ trybot'[t] = Free
          \/ /\ trybot'[t].pc = trybot[t].pc /\ trybot'[t].at = trybot[t].at
             /\ trybot'[t].todo \subseteq trybot[t].todo
      BY <1>6, ReportType
    <3> QED
      BY <2>1, <3>1, FreeType DEF PassInv
  <2>3. PassedWasTested'
    <3>1. CASE UNCHANGED status
      BY <2>1, <3>1 DEF PassedWasTested
    <3>2. ASSUME NEW s \in {"inflight", "passed", "failed"},
                 trybot[t].pc = CASE s = "inflight" -> "applied"
                                  [] s = "passed" -> "passing"
                                  [] s = "failed" -> "failing",
                 s = "passed" => c \in trybot[t].todo,
                 \A d \in Changes, p \in PatchSets :
                   status'[d][p] = IF d = c /\ p = trybot[t].at[c] THEN s
                                   ELSE status[d][p]
          PROVE  PassedWasTested'
      <4>1. s = "passed" => <<c, trybot[t].at[c]>> \in tested
        BY <3>2 DEF PassInv
      <4> QED
        BY <2>1, <3>2, <4>1 DEF PassedWasTested
    <3> QED
      BY <1>6, <3>1, <3>2, ReportIs
  <2> QED
    BY <2>2, <2>3
<1> QED
  BY <1>1, <1>2, <1>3, <1>4, <1>5, <1>6, Steps DEF Quiet

(* A patch set is never marked as passed unless it was itself part of a run *)
(* that succeeded: what HandlePreCQSuccess writes is about the patch sets   *)
(* that were applied, whatever has been uploaded since, and nobody else     *)
(* writes "passed".                                                         *)
THEOREM PassedAreTested == Spec => []PassedWasTested
<1> DEFINE Inv == TypeInv /\ PassedWasTested /\ PassInv
<1>1. Init => Inv
  BY InitInv DEF IInv, TypeInv
<1>2. Inv /\ [Next]_vars => Inv'
  BY TypeStep, PassStep
<1>3. Inv => PassedWasTested
  OBVIOUS
<1> QED
  BY <1>1, <1>2, <1>3, PTL DEF Spec

-----------------------------------------------------------------------------
(* A change is turned down for lack of a trybot only after two launches.    *)

(* Patch sets in the launcher's pool are numbers, and so are launches. *)
LEMMA Numbers ==
  ASSUME TypeOK, NEW c \in Changes
  PROVE  /\ patch[c] \in PatchSets /\ patch[c] \in Nat /\ patch[c] # 0
         /\ pool[c] \in Nat /\ launches[c] \in {0, 1, 2}
         /\ pool[c] # 0 => pool[c] \in PatchSets
<1>1. /\ patch[c] \in 1 .. MaxPatchSets /\ pool[c] \in 0 .. MaxPatchSets
      /\ launches[c] \in 0 .. 2 /\ MaxPatchSets \in Nat
  BY PreCQAssumption DEF TypeOK, PatchSets
<1> QED
  BY <1>1 DEF PatchSets

(* Steps that launch nothing, and after which nothing more is launching. *)
LEMMA LaunchKept ==
  ASSUME TypeInv, LaunchInv, RetryInv, UNCHANGED <<patch, pool, launches>>,
         retried' \subseteq retried, Unmarked' \subseteq Unmarked,
         \A c \in Changes, p \in PatchSets :
           status'[c][p] = "launching" => status[c][p] = "launching",
         \A c \in Changes :
           writing = <<c, "waiting">> =>
             writing' = writing \/ status'[c][AtHand(c)] # "launching"
  PROVE  LaunchInv' /\ RetryInv'
<1>1. LaunchInv'
  BY DEF LaunchInv
<1>2. RetryInv'
  <2> SUFFICES ASSUME NEW c \in retried', launches'[c] = 1
               PROVE  /\ c \notin Unmarked'
                      /\ \/ status'[c][AtHand(c)'] # "launching"
                         \/ writing' = <<c, "waiting">>
    BY DEF RetryInv
  <2>1. c \in Changes /\ c \in retried /\ launches[c] = 1
    BY DEF TypeInv, TypeOK
  <2>2. AtHand(c)' = AtHand(c) /\ AtHand(c) \in PatchSets
    BY <2>1, Numbers DEF AtHand, TypeInv
  <2> QED
    BY <2>1, <2>2 DEF RetryInv
<1> QED
  BY <1>1, <1>2

(* Looking at a change whose launch timed out remembers it, or gives it up. *)
LEMMA LookLaunch ==
  ASSUME TypeInv, LaunchInv, RetryInv, NEW c \in Changes,
         \/ LaunchTimesOut(c) \/ InflightTimesOut(c) \/ SeesFailed(c)
         \/ JustLooks(c)
  PROVE  LaunchInv' /\ RetryInv'
<1>1. /\ writing = <<>> /\ Unmarked = {} /\ Unmarked' = {}
      /\ UNCHANGED <<patch, pool, launches, status>>
  <2>1. /\ writing = <<>> /\ pc = "look"
        /\ UNCHANGED <<patch, pool, launches, status, marking>>
        /\ writing' \in {<<>>, <<c, "failed">>, <<c, "waiting">>}
    BY LookIs DEF launchVars
  <2>2. marking = {}
    BY <2>1 DEF TypeInv, PhaseInv
  <2> QED
    BY <2>1, <2>2 DEF Unmarked
<1>2. CASE retried' \subseteq retried
  BY <1>1, <1>2, LaunchKept
<1>3. CASE ~(retried' \subseteq retried)
  <2>1. /\ LaunchTimesOut(c) /\ retried' = retried \cup {c}
        /\ writing' = <<c, "waiting">> /\ StatusOf(c) = "launching"
    BY <1>3 DEF LaunchTimesOut, InflightTimesOut, SeesFailed, JustLooks
  <2>2. launches[c] >= 1
    BY <2>1, LookIs, Numbers DEF LaunchInv, StatusOf, Pool, TypeInv
  <2>3. LaunchInv'
    BY <1>1, <2>1, <2>2 DEF LaunchInv
  <2>4. RetryInv'
    BY <1>1, <2>1 DEF RetryInv, AtHand
  <2> QED
    BY <2>3, <2>4
<1> QED
  BY <1>2, <1>3

(* What the launcher remembers of launches agrees with what it launched. *)
LEMMA LaunchStep ==
  ASSUME TypeInv, LaunchInv, RetryInv, [Next]_vars
  PROVE  LaunchInv' /\ RetryInv'
<1>1. CASE UNCHANGED vars \/ Marked
  BY <1>1, LaunchKept
  DEF vars, Marked, gerritVars, timeVars, loopVars, launchVars, historyVars,
      Unmarked
<1>2. CASE \E refused \in SUBSET (Pool \ Resolved) : PlanRefusing(refused)
  BY <1>2, LaunchKept
  DEF PlanRefusing, timeVars, loopVars, historyVars, Unmarked
<1>3. ASSUME NEW c \in Changes, MarkReady(c)
      PROVE  LaunchInv' /\ RetryInv'
  BY <1>3, LaunchKept
  DEF MarkReady, timeVars, loopVars, launchVars, historyVars, Unmarked
<1>4. ASSUME NEW c \in Changes, Mark(c)
      PROVE  LaunchInv' /\ RetryInv'
  <2>1. /\ UNCHANGED <<patch, pool, launches, status, retried>>
        /\ writing = <<>> /\ c \in marking /\ marking' = marking \ {c}
        /\ writing' \in {<<>>, <<c, "launching">>}
    BY <1>4 DEF Mark, gerritVars, timeVars, loopVars, historyVars
  <2>2. Unmarked' \subseteq Unmarked
    BY <2>1 DEF Unmarked
  <2> QED
    BY <2>1, <2>2, LaunchKept
<1>5. ASSUME NEW c \in Changes,
             \/ LaunchTimesOut(c) \/ InflightTimesOut(c) \/ SeesFailed(c)
             \/ JustLooks(c)
      PROVE  LaunchInv' /\ RetryInv'
  BY <1>5, LookLaunch
<1>6. CASE Write \/ WriteMark
  <2> DEFINE c == writing[1]
  <2>1. /\ UNCHANGED <<patch, pool, launches, retried, marking>>
        /\ writing = <<c, writing[2]>> /\ writing' = <<>>
        /\ c \in Changes /\ pool[c] \in PatchSets
        /\ writing[2] \in {"failed", "waiting", "launching"}
        /\ \A d \in Changes, p \in PatchSets :
             status'[d][p] = IF d = c /\ p = pool[c] THEN writing[2]
                             ELSE status[d][p]
    BY <1>6, WriteIs, WriteType
  <2>2. Unmarked' \subseteq Unmarked
    BY <2>1 DEF Unmarked
  <2>3. pool[c] # 0 /\ AtHand(c) = pool[c]
    BY <2>1, PreCQAssumption DEF PatchSets, AtHand
  <2>4. CASE writing[2] # "launching"
    <3>1. \A d \in Changes : writing = <<d, "waiting">> =>
            status'[d][AtHand(d)] # "launching"
      BY <2>1, <2>3
    <3> QED
      BY <2>1, <2>2, <2>4, <3>1, LaunchKept
  <2>5. CASE writing[2] = "launching"
    <3>1. c \in Unmarked /\ launches[c] >= 1
      BY <2>1, <2>5 DEF Unmarked, LaunchInv
    <3>2. ~(c \in retried /\ launches[c] = 1)
      BY <3>1 DEF RetryInv
    <3>3. LaunchInv'
      <4> HIDE DEF c
      <4>1. pool[c] <= patch[c] /\ pool[c] <= pool[c]
        BY <2>1, Numbers DEF LaunchInv, TypeInv
      <4>2. \A d \in Changes, p \in PatchSets : status'[d][p] = "launching" =>
              status[d][p] = "launching" \/ (d = c /\ p = pool[c])
        BY <2>1, <2>5
      <4> QED
        BY <2>1, <2>2, <3>1, <4>1, <4>2 DEF LaunchInv
    <3>4. RetryInv'
      <4> SUFFICES ASSUME NEW d \in retried', launches'[d] = 1
                   PROVE  /\ d \notin Unmarked'
                          /\ status'[d][AtHand(d)'] # "launching"
        BY DEF RetryInv
      <4>1. d \in Changes /\ d \in retried /\ launches[d] = 1 /\ d # c
        BY <2>1, <3>2 DEF TypeInv, TypeOK
      <4>2. AtHand(d)' = AtHand(d) /\ AtHand(d) \in PatchSets
        BY <2>1, <4>1, Numbers DEF AtHand, TypeInv
      <4>3. d \notin Unmarked /\ status[d][AtHand(d)] # "launching"
        BY <2>1, <2>5, <4>1 DEF RetryInv
      <4> QED
        BY <2>1, <2>2, <4>1, <4>2, <4>3
    <3> QED
      BY <3>3, <3>4
  <2> QED
    BY <2>4, <2>5
<1>7. ASSUME NEW plan \in plans, Launch(plan)
      PROVE  LaunchInv' /\ RetryInv'
  <2>1. /\ UNCHANGED <<patch, pool, status, retried>>
        /\ writing = <<>> /\ writing' = <<>> /\ marking' = plan
        /\ launches' = [c \in Changes |->
                          IF c \in plan /\ launches[c] < 2 THEN launches[c] + 1
                                                           ELSE launches[c]]
    BY <1>7 DEF Launch, gerritVars, timeVars, loopVars, TypeInv, PhaseInv
  <2>2. Unmarked' = plan
    BY <2>1 DEF Unmarked
  <2>3. \A c \in Changes : /\ launches'[c] >= launches[c]
                           /\ launches'[c] \in {0, 1, 2}
                           /\ c \in plan => launches'[c] >= 1
                           /\ c \in plan /\ launches[c] >= 1 => launches'[c] = 2
                           /\ c \notin plan => launches'[c] = launches[c]
    BY <2>1, Numbers DEF TypeInv
  <2>4. plan \subseteq Changes /\ retried \subseteq Changes
    BY DEF TypeInv, TypeOK, Pool
  <2>5. LaunchInv'
    BY <2>1, <2>2, <2>3, <2>4, Numbers DEF LaunchInv, TypeInv
  <2>6. \A c \in retried : launches'[c] = 1 => c \notin plan /\ launches[c] = 1
    BY <2>3, <2>4, Numbers DEF LaunchInv, TypeInv
  <2>7. RetryInv'
    BY <2>1, <2>2, <2>6 DEF RetryInv, AtHand
  <2> QED
    BY <2>5, <2>7
<1>8. ASSUME NEW c \in Changes, Upload(c)
      PROVE  LaunchInv' /\ RetryInv'
  <2>1. /\ UNCHANGED <<pool, status, retried, writing, marking, launches>>
        /\ patch' = [patch EXCEPT ![c] = patch[c] + 1]
    BY <1>8 DEF Upload, timeVars, loopVars, launchVars
  <2>2. \A d \in Changes : /\ patch'[d] = patch[d] \/ d = c
                           /\ patch'[c] = patch[c] + 1
    BY <2>1 DEF TypeInv, TypeOK
  <2>3. Unmarked' = Unmarked
    BY <2>1 DEF Unmarked
  <2>4. LaunchInv'
    <3>1. \A d \in Changes, p \in Nat : p <= patch[d] => p <= patch'[d]
      BY <2>2, Numbers DEF TypeInv
    <3>2. \A d \in Changes : pool[d] \in Nat
      BY Numbers DEF TypeInv
    <3>3. PatchSets \subseteq Nat
      BY PreCQAssumption DEF PatchSets
    <3> QED
      BY <2>1, <2>3, <3>1, <3>2, <3>3 DEF LaunchInv
  <2>5. RetryInv'
    <3> SUFFICES ASSUME NEW d \in retried, launches[d] = 1
                 PROVE  /\ d \notin Unmarked
                        /\ \/ status[d][AtHand(d)'] # "launching"
                           \/ writing = <<d, "waiting">>
      BY <2>1, <2>3 DEF RetryInv
    <3>1. d \in Changes
      BY DEF TypeInv, TypeOK
    <3>2. CASE d # c \/ pool[d] # 0
      <4>1. AtHand(d)' = AtHand(d)
        BY <2>1, <2>2, <3>1, <3>2 DEF AtHand
      <4> QED
        BY <4>1 DEF RetryInv
    <3>3. CASE d = c /\ pool[d] = 0
      <4>1. AtHand(d)' = patch[c] + 1 /\ patch[c] \in Nat
        BY <2>1, <2>2, <3>3, Numbers DEF AtHand, TypeInv
      <4>2. patch[c] + 1 \in PatchSets
        BY <1>8, <4>1, PreCQAssumption DEF Upload, PatchSets
      <4>3. status[c][patch[c] + 1] # "launching"
        BY <4>1, <4>2 DEF LaunchInv
      <4> QED
        BY <3>3, <4>1, <4>3 DEF RetryInv
    <3> QED
      BY <3>2, <3>3
  <2> QED
    BY <2>4, <2>5
<1>9. CASE Query
  <2>1. /\ UNCHANGED <<patch, status, retried, writing, marking, launches>>
        /\ pool' = [c \in Changes |-> IF c \in ready THEN patch[c] ELSE 0]
        /\ pool = Nothing
    BY <1>9 DEF Query, gerritVars, timeVars, launchVars, historyVars, TypeInv,
                PhaseInv
  <2>2. Unmarked' = Unmarked
    BY <2>1 DEF Unmarked
  <2>3. \A c \in Changes : /\ patch[c] \in Nat /\ patch[c] # 0
                           /\ pool'[c] \in {0, patch[c]} /\ pool[c] = 0
    BY <2>1, Numbers DEF TypeInv, Nothing
  <2>4. LaunchInv'
    BY <2>1, <2>2, <2>3 DEF LaunchInv
  <2>5. \A c \in Changes : AtHand(c)' = AtHand(c)
    BY <2>1, <2>3 DEF AtHand
  <2>6. RetryInv'
    BY <2>1, <2>2, <2>5 DEF RetryInv, TypeInv, TypeOK
  <2> QED
    BY <2>4, <2>6
<1>10. CASE LoopEnds \/ Restart
  <2>1. /\ UNCHANGED <<patch, status, launches>> /\ pool' = Nothing
        /\ writing' = <<>> /\ marking' = {}
        /\ retried' = {} \/ (retried' = retried /\ writing = <<>>)
    <3>1. CASE LoopEnds
      BY <3>1 DEF LoopEnds, gerritVars, timeVars, launchVars, historyVars,
                  TypeInv, PhaseInv
    <3>2. CASE Restart
      BY <3>2 DEF Restart, gerritVars
    <3> QED
      BY <1>10, <3>1, <3>2
  <2>2. Unmarked' = {}
    BY <2>1 DEF Unmarked
  <2>3. \A c \in Changes : pool'[c] = 0 /\ patch[c] \in Nat
    BY <2>1, Numbers DEF TypeInv, Nothing
  <2>4. LaunchInv'
    BY <2>1, <2>2, <2>3 DEF LaunchInv
  <2>5. RetryInv'
    <3> SUFFICES ASSUME NEW c \in retried', launches[c] = 1
                 PROVE  status[c][AtHand(c)'] # "launching"
      BY <2>1, <2>2 DEF RetryInv
    <3>1. c \in retried /\ c \in Changes /\ writing = <<>>
      BY <2>1 DEF TypeInv, TypeOK
    <3>2. status[c][AtHand(c)] # "launching"
      BY <3>1 DEF RetryInv
    <3>3. AtHand(c)' = patch[c]
      BY <2>1, <2>3, <3>1 DEF AtHand
    <3>4. status[c][patch[c]] = "launching" => AtHand(c) = patch[c]
      BY <3>1, Numbers DEF LaunchInv, AtHand, TypeInv
    <3> QED
      BY <3>2, <3>3, <3>4
  <2> QED
    BY <2>4, <2>5
<1>11. ASSUME NEW t \in Trybots,
              \/ Apply(t) \/ Succeeds(t) \/ Fails(t)
              \/ \E c \in Changes : Reports(t, c)
       PROVE  LaunchInv' /\ RetryInv'
  <2>1. UNCHANGED <<patch, pool, launches, retried, writing, marking>>
    BY <1>11, ApplyType, SucceedsType, FailsType, ReportType
  <2>2. Unmarked' = Unmarked
    BY <2>1 DEF Unmarked
  <2>3. \A c \in Changes, p \in PatchSets :
          status'[c][p] = "launching" => status[c][p] = "launching"
    <3>1. CASE Apply(t) \/ Succeeds(t) \/ Fails(t)
      BY <3>1, ApplyType, SucceedsType, FailsType
    <3>2. ASSUME NEW c \in Changes, Reports(t, c)
          PROVE  <2>3
      BY <3>2, ReportIs
    <3> QED
      BY <1>11, <3>1, <3>2
  <2> QED
    BY <2>1, <2>2, <2>3, LaunchKept
<1> QED
  BY <1>1, <1>2, <1>3, <1>4, <1>5, <1>6, <1>7, <1>8, <1>9, <1>10, <1>11, Steps

(* Only the launcher's looks decide that a change is turned down. *)
LEMMA TurnsDown ==
  ASSUME TypeInv, [Next]_vars, NEW c \in Pool,
         writing = <<>>, writing' = <<c, "failed">>
  PROVE  LaunchTimesOut(c) \/ InflightTimesOut(c)
<1>1. c \in Changes
  BY DEF Pool
<1>2. CASE \/ UNCHANGED vars \/ Query \/ LoopEnds \/ Restart \/ Marked
           \/ Write \/ WriteMark
           \/ \E refused \in SUBSET (Pool \ Resolved) : PlanRefusing(refused)
           \/ \E plan \in plans : Launch(plan)
           \/ \E d \in Changes : Upload(d) \/ MarkReady(d) \/ Mark(d)
  BY <1>2 DEF vars, Query, LoopEnds, Restart, Marked, Write, WriteMark,
              PlanRefusing, Launch, Upload, MarkReady, Mark
<1>3. ASSUME NEW d \in Changes,
             \/ LaunchTimesOut(d) \/ InflightTimesOut(d) \/ SeesFailed(d)
             \/ JustLooks(d)
      PROVE  LaunchTimesOut(c) \/ InflightTimesOut(c)
  BY <1>3 DEF LaunchTimesOut, InflightTimesOut, SeesFailed, JustLooks
<1>4. ASSUME NEW t \in Trybots,
             \/ Apply(t) \/ Succeeds(t) \/ Fails(t)
             \/ \E d \in Changes : Reports(t, d)
      PROVE  FALSE
  BY <1>4, ApplyType, SucceedsType, FailsType, ReportType
<1> QED
  BY <1>2, <1>3, <1>4, Steps

(* A change loses its mark for want of a trybot only after the launcher has *)
(* asked for one at least twice: however the stage is restarted, patch sets *)
(* are uploaded and slow trybots report, what the launcher remembers of a   *)
(* change it tries again stands for a launch, and a change that was         *)
(* launched once is not launching when it is looked at again.               *)
THEOREM TurnedDownAfterTwo == Spec => LaunchedTwice
<1> DEFINE Inv == TypeInv /\ LaunchInv /\ RetryInv
           Promise == \A c \in Pool :
                        /\ writing = <<>> /\ writing' = <<c, "failed">>
                        /\ StatusOf(c) = "launching"
                        => launches[c] >= 2
<1>1. Init => Inv
  BY InitInv DEF IInv, TypeInv
<1>2. Inv /\ [Next]_vars => Inv'
  BY TypeStep, LaunchStep
<1>3. Inv /\ [Next]_vars => Promise
  <2> SUFFICES ASSUME Inv, [Next]_vars, NEW c \in Pool,
                      writing = <<>>, writing' = <<c, "failed">>,
                      StatusOf(c) = "launching"
               PROVE  launches[c] >= 2
    OBVIOUS
  <2>1. LaunchTimesOut(c)
    <3>1. ~InflightTimesOut(c)
      BY DEF InflightTimesOut
    <3> QED
      BY <3>1, TurnsDown
  <2>2. c \in retried
    BY <2>1 DEF LaunchTimesOut, GivesUp
  <2>3. c \in Changes /\ AtHand(c) = pool[c]
    BY DEF Pool, AtHand
  <2>4. launches[c] >= 1 /\ launches[c] # 1
    BY <2>2, <2>3 DEF LaunchInv, RetryInv, StatusOf
  <2> QED
    BY <2>3, <2>4, Numbers DEF TypeInv
<1> QED
  BY <1>1, <1>2, <1>3, PTL DEF Spec, LaunchedTwice

-----------------------------------------------------------------------------
(* The plans of a loop.                                                     *)

(* Two groups of changes that have to do with one another are one group:    *)
(* what they have in common would be a smaller one.                         *)
LEMMA GroupsDisjoint ==
  ASSUME NEW among, NEW group \in Groups(among), NEW other \in Groups(among),
         group # other
  PROVE  group \cap other = {}
<1> SUFFICES ASSUME group \cap other # {} PROVE FALSE
  OBVIOUS
<1>1. /\ group \in SUBSET among /\ other \in SUBSET among
      /\ Apart(group, among) /\ Apart(other, among)
  BY DEF Groups
<1>7. ASSUME NEW set \in Groups(among), NEW part \in SUBSET set,
             part # {}, part # set
      PROVE  ~Apart(part, among)
  <2>1. part \in (SUBSET set) \ {{}, set}
    BY <1>7
  <2> QED
    BY <2>1 DEF Groups
<1>2. PICK part : part = group \cap other
  OBVIOUS
<1>3. Apart(part, among)
  BY <1>1, <1>2 DEF Apart
<1>4. part \in SUBSET group /\ part \in SUBSET other /\ part # {}
  BY <1>2
<1>5. part = group
  BY <1>3, <1>4, <1>7
<1>6. part = other
  BY <1>3, <1>4, <1>7
<1> QED
  BY <1>5, <1>6

(* The plans have nothing in common, and nothing with the plan that was     *)
(* launched last, of which some changes may have to be marked still.        *)
LEMMA PlansStep ==
  ASSUME TypeInv, PlansInv, [Next]_vars
  PROVE  PlansInv'
<1>1. CASE plans' \subseteq plans /\ Unmarked' \subseteq Unmarked
  BY <1>1 DEF PlansInv
<1>2. CASE \/ UNCHANGED vars \/ Query \/ LoopEnds \/ Restart \/ Marked
           \/ \E c \in Changes : Upload(c) \/ MarkReady(c)
  <2>1. CASE UNCHANGED <<plans, marking, writing>>
    BY <1>1, <2>1 DEF Unmarked
  <2>2. CASE plans' = {}
    BY <2>2 DEF PlansInv
  <2> QED
    BY <1>2, <2>1, <2>2
    DEF vars, Query, LoopEnds, Restart, Marked, Upload, MarkReady, launchVars
<1>3. CASE Write \/ WriteMark
  <2>1. UNCHANGED <<plans, marking>> /\ writing' = <<>>
    BY <1>3, WriteIs, WriteType
  <2> QED
    BY <1>1, <2>1 DEF Unmarked
<1>4. ASSUME NEW refused, PlanRefusing(refused)
      PROVE  PlansInv'
  <2>1. plans' \subseteq Groups(Resolved)
    BY <1>4 DEF PlanRefusing, Plans
  <2>2. Unmarked' = {}
    BY <1>4 DEF PlanRefusing, Unmarked, TypeInv, PhaseInv
  <2> QED
    BY <2>1, <2>2, GroupsDisjoint DEF PlansInv
<1>5. ASSUME NEW plan \in plans, Launch(plan)
      PROVE  PlansInv'
  <2>1. plans' = plans \ {plan} /\ marking' = plan /\ writing' = <<>>
    BY <1>5 DEF Launch, TypeInv, PhaseInv
  <2>2. Unmarked' = plan
    BY <2>1 DEF Unmarked
  <2> QED
    BY <2>1, <2>2 DEF PlansInv
<1>6. ASSUME NEW c \in Changes, Mark(c)
      PROVE  PlansInv'
  <2>1. /\ plans' = plans /\ c \in marking /\ marking' = marking \ {c}
        /\ writing = <<>> /\ writing' \in {<<>>, <<c, "launching">>}
    BY <1>6 DEF Mark
  <2> QED
    BY <1>1, <2>1 DEF Unmarked
<1>7. ASSUME NEW c \in Changes,
             \/ LaunchTimesOut(c) \/ InflightTimesOut(c) \/ SeesFailed(c)
             \/ JustLooks(c)
      PROVE  PlansInv'
  <2>1. plans' = {}
    BY <1>7, LookIs DEF launchVars, TypeInv, PhaseInv
  <2> QED
    BY <2>1 DEF PlansInv
<1>8. ASSUME NEW t \in Trybots,
             \/ Apply(t) \/ Succeeds(t) \/ Fails(t)
             \/ \E c \in Changes : Reports(t, c)
      PROVE  PlansInv'
  <2>1. UNCHANGED <<plans, marking, writing>>
    BY <1>8, ApplyType, SucceedsType, FailsType, ReportType
  <2> QED
    BY <1>1, <2>1 DEF Unmarked
<1> QED
  BY <1>2, <1>3, <1>4, <1>5, <1>6, <1>7, <1>8, Steps

-----------------------------------------------------------------------------
(* A change is in two trybots at a time only with an excuse.                *)

(* A trybot may still report on changes of its own only, and on all those   *)
(* that it is about to write a status for.                                  *)
LEMMA HasIs ==
  ASSUME TypeInv, NEW t \in Trybots, NEW c
  PROVE  /\ Has(t, c) => c \in Members(t)
         /\ c \in trybot[t].late => Has(t, c)
         /\ trybot[t].pc \in {"queued", "applied"} =>
              (Has(t, c) <=> c \in Members(t))
         /\ trybot[t].pc = "passing" => (Has(t, c) <=> c \in trybot[t].todo)
         /\ trybot[t].pc = "failing" => (Has(t, c) <=> c \in trybot[t].late)
<1>1. TrybotOK(trybot[t])
  BY DEF TypeInv, TrybotInv
<1>2. trybot[t] \in TrybotRecords
  BY DEF TypeInv, TypeOK
<1>3. trybot[t].pc \in {"free", "queued", "applied", "passing", "failing"}
  BY <1>2 DEF TrybotRecords
<1> QED
  BY <1>1, <1>3 DEF Has, InTest, Members, TrybotOK

(* Steps that put the change in no other trybot and leave its status alone. *)
LEMMA OnceKept ==
  ASSUME NEW c, OnceInv(c),
         patch'[c] = patch[c], pool'[c] \in {0, pool[c]},
         StatusNow(c)' = StatusNow(c),
         \A t \in Trybots : Has(t, c)' => Has(t, c),
         \A t \in Trybots :
           trybot'[t].pc \in {"applied", "passing", "failing"} /\ c \in Members(t)'
             => trybot'[t].at[c] = patch[c],
         \A t \in Trybots : c \in trybot'[t].late => StatusNow(c) # "passed",
         c \in Unmarked => c \in Unmarked' \/ StatusNow(c) = "passed",
         writing' = <<c, "launching">> =>
           writing = <<c, "launching">> \/ StatusNow(c) # "passed",
         pc' = "write" /\ writing'[1] = c =>
           c \in busy' /\ \A t \in Trybots : ~Has(t, c),
         Eligible(c)' =>
           Eligible(c) \/ StatusNow(c) = "passed" \/ \A t \in Trybots : ~Has(t, c)
  PROVE  OnceInv(c)'
<1>1. InOneAtMost(c) => InOneAtMost(c)'
  BY DEF InOneAtMost
<1>2. \A t \in Trybots :
        /\ c \in trybot'[t].late => StatusNow(c)' # "passed"
        /\ Has(t, c)' => \/ StatusNow(c)' \in {"launching", "inflight", "passed"}
                         \/ c \in Unmarked'
  BY DEF OnceInv
<1>3. pool'[c] # 0 => pool'[c] = patch'[c]
  BY DEF OnceInv
<1>4. /\ StatusNow(c)' # "passed" => InOneAtMost(c)'
      /\ writing' = <<c, "launching">> => InOneAtMost(c)'
  BY <1>1 DEF OnceInv
<1>5. Eligible(c)' =>
        StatusNow(c)' = "passed" \/ \A t \in Trybots : ~Has(t, c)'
  BY DEF OnceInv
<1>6. pc' = "write" /\ writing'[1] = c =>
        c \in busy' /\ \A t \in Trybots : ~Has(t, c)'
  OBVIOUS
<1> QED
  BY <1>2, <1>3, <1>4, <1>5, <1>6 DEF OnceInv

(* What the trybots do not touch. *)
LEMMA HasKept ==
  ASSUME NEW t \in Trybots, NEW c, trybot'[t] = trybot[t]
  PROVE  /\ Has(t, c)' <=> Has(t, c)
         /\ Members(t)' = Members(t)
  BY DEF Has, InTest, Members

(* OnceKept for the steps that touch neither trybots nor statuses. *)
LEMMA OnceQuiet ==
  ASSUME NEW c, OnceInv(c), UNCHANGED <<trybot, status>>,
         patch'[c] = patch[c], pool'[c] \in {0, pool[c]},
         c \in Unmarked => c \in Unmarked' \/ StatusNow(c) = "passed",
         writing' = <<c, "launching">> =>
           writing = <<c, "launching">> \/ StatusNow(c) # "passed",
         pc' = "write" /\ writing'[1] = c =>
           c \in busy' /\ \A t \in Trybots : ~Has(t, c),
         Eligible(c)' =>
           Eligible(c) \/ StatusNow(c) = "passed" \/ \A t \in Trybots : ~Has(t, c)
  PROVE  OnceInv(c)'
<1>1. StatusNow(c)' = StatusNow(c)
  BY DEF StatusNow
<1>2. \A t \in Trybots : (Has(t, c)' <=> Has(t, c)) /\ Members(t)' = Members(t)
  BY HasKept
<1>3. \A t \in Trybots :
        /\ c \in trybot'[t].late => StatusNow(c) # "passed"
        /\ trybot'[t].pc \in {"applied", "passing", "failing"} /\ c \in Members(t)'
             => trybot'[t].at[c] = patch[c]
  BY <1>2 DEF OnceInv
<1> QED
  BY <1>1, <1>2, <1>3, OnceKept

(* The developers, and the launcher when it does not look at the change.    *)
LEMMA TestQuiet ==
  ASSUME TypeInv, NEW c \in Changes \ excused', OnceInv(c), c \notin excused,
         \/ UNCHANGED vars \/ Query \/ LoopEnds \/ Restart \/ Marked
         \/ \E refused \in SUBSET (Pool \ Resolved) : PlanRefusing(refused)
         \/ \E d \in Changes : Upload(d) \/ MarkReady(d)
  PROVE  OnceInv(c)'
<1>1. CASE UNCHANGED vars
  BY <1>1, OnceQuiet
  DEF vars, gerritVars, loopVars, launchVars, Unmarked, Eligible, OnceInv
<1>2. CASE Query
  <2>1. /\ UNCHANGED <<trybot, status, patch, writing, marking, plans>>
        /\ pool' = [d \in Changes |-> IF d \in ready THEN patch[d] ELSE 0]
        /\ pool = Nothing /\ todo' = ready /\ pc' = "look"
    BY <1>2 DEF Query, gerritVars, launchVars, TypeInv, PhaseInv
  <2>2. Unmarked' = Unmarked
    BY <2>1 DEF Unmarked
  <2>3. pool'[c] # 0 => c \in ready /\ pool'[c] = patch[c]
    BY <2>1
  <2>4. Eligible(c)' => Eligible(c)
    BY <2>1, <2>3 DEF Eligible
  <2>5. \/ pool'[c] = 0
        \/ pool'[c] = patch[c]
    BY <2>3
  <2>7. CASE pool'[c] = 0
    BY <2>1, <2>2, <2>4, <2>7, OnceQuiet
  <2>8. CASE pool'[c] = patch[c]
    <3>1. \A t \in Trybots : (Has(t, c)' <=> Has(t, c)) /\ Members(t)' = Members(t)
      BY <2>1, HasKept
    <3>2. StatusNow(c)' = StatusNow(c)
      BY <2>1 DEF StatusNow
    <3>3. InOneAtMost(c)' <=> InOneAtMost(c)
      BY <3>1 DEF InOneAtMost
    <3> QED
      BY <2>1, <2>2, <2>4, <2>8, <3>1, <3>2, <3>3 DEF OnceInv
  <2> QED
    BY <2>5, <2>7, <2>8
<1>3. CASE LoopEnds \/ Restart
  <2>1. /\ UNCHANGED <<trybot, status, patch>>
        /\ pool' = Nothing /\ writing' = <<>> /\ plans' = {} /\ pc' = "query"
        /\ c \notin Unmarked
    <3>1. CASE LoopEnds
      BY <3>1 DEF LoopEnds, gerritVars, launchVars, TypeInv, PhaseInv, Unmarked
    <3>2. CASE Restart
      BY <3>2 DEF Restart, gerritVars
    <3> QED
      BY <1>3, <3>1, <3>2
  <2>2. ~Eligible(c)'
    BY <2>1 DEF Eligible
  <2>3. pool'[c] = 0
    BY <2>1 DEF Nothing
  <2> QED
    BY <2>1, <2>2, <2>3, OnceQuiet
<1>4. CASE Marked
  <2>1. /\ UNCHANGED <<trybot, status, patch, pool, todo, busy, writing, plans,
                       marking>>
        /\ pc = "mark" /\ pc' = "launch" /\ writing = <<>>
    BY <1>4 DEF Marked, gerritVars, loopVars, launchVars
  <2>2. Unmarked' = Unmarked
    BY <2>1 DEF Unmarked
  <2>3. Eligible(c)' => Eligible(c)
    BY <2>1 DEF Eligible
  <2> QED
    BY <2>1, <2>2, <2>3, OnceQuiet
<1>5. ASSUME NEW refused, PlanRefusing(refused)
      PROVE  OnceInv(c)'
  <2>1. /\ UNCHANGED <<trybot, status, patch, pool, todo, busy, writing,
                       marking>>
        /\ pc = "look" /\ todo = {} /\ pc' = "launch" /\ writing = <<>>
        /\ plans' = {plan \in Plans : ToTest(plan)}
    BY <1>5 DEF PlanRefusing, loopVars, TypeInv, PhaseInv
  <2>2. Unmarked' = Unmarked
    BY <2>1 DEF Unmarked
  <2>3. ASSUME NEW plan \in plans', c \in plan
        PROVE  Eligible(c)
    <3>1. plan \subseteq Pool /\ plan \cap busy = {}
      BY <2>1 DEF Plans, Groups, Resolved, ToTest
    <3>2. pool[c] # 0 /\ c \notin busy
      BY <2>3, <3>1 DEF Pool
    <3> QED
      BY <2>1, <3>2 DEF Eligible
  <2>4. Eligible(c)' => Eligible(c)
    BY <2>1, <2>3 DEF Eligible
  <2> QED
    BY <2>1, <2>2, <2>4, OnceQuiet
<1>6. ASSUME NEW d \in Changes, Upload(d) \/ MarkReady(d)
      PROVE  OnceInv(c)'
  <2>1. /\ UNCHANGED <<trybot, status, pool, todo, busy, writing, plans,
                       marking, pc>>
        /\ patch'[c] = patch[c]
    <3>1. CASE MarkReady(d)
      BY <3>1 DEF MarkReady, loopVars, launchVars
    <3>2. CASE Upload(d)
      <4>1. c # d
        BY <3>2 DEF Upload
      <4> QED
        BY <3>2, <4>1 DEF Upload, loopVars, launchVars, TypeInv, TypeOK
    <3> QED
      BY <1>6, <3>1, <3>2
  <2>2. Unmarked' = Unmarked
    BY <2>1 DEF Unmarked
  <2>3. Eligible(c)' => Eligible(c)
    BY <2>1 DEF Eligible
  <2>4. pc' = "write" /\ writing'[1] = c =>
          c \in busy' /\ \A t \in Trybots : ~Has(t, c)
    BY <2>1 DEF OnceInv
  <2> QED
    BY <2>1, <2>2, <2>3, <2>4, OnceQuiet
<1> QED
  BY <1>1, <1>2, <1>3, <1>4, <1>5, <1>6

(* A change that the launcher has looked at may be tested only if it has    *)
(* passed or is in no trybot: its status would say so otherwise, and one    *)
(* that is not excused is not given up while it is in a trybot.             *)
LEMMA TestLook ==
  ASSUME TypeInv, NEW c \in Changes \ excused', OnceInv(c), c \notin excused,
         NEW d \in Changes,
         \/ LaunchTimesOut(d) \/ InflightTimesOut(d) \/ SeesFailed(d)
         \/ JustLooks(d)
  PROVE  OnceInv(c)'
<1>1. /\ UNCHANGED <<trybot, status, patch, pool, plans, marking>>
      /\ pc = "look" /\ writing = <<>> /\ d \in todo /\ d \in Pool
      /\ todo' = todo \ {d} /\ busy \subseteq busy'
      /\ Busy(StatusOf(d)) => d \in busy'
      /\ pc' = "write" => writing'[1] = d
      /\ writing' # <<c, "launching">>
  BY LookIs DEF launchVars
<1>2. Unmarked = {} /\ plans' = {}
  BY <1>1 DEF Unmarked, TypeInv, PhaseInv
<1>3. CASE c # d
  <2>1. Eligible(c)' => Eligible(c)
    BY <1>1, <1>2, <1>3 DEF Eligible
  <2> QED
    BY <1>1, <1>2, <1>3, <2>1, OnceQuiet
<1>4. CASE c = d
  <2>1. pool[c] # 0 /\ StatusOf(c) = StatusNow(c)
    BY <1>1, <1>4 DEF OnceInv, StatusNow, StatusOf, Pool
  <2>2. \A t \in Trybots : Has(t, c) =>
          StatusNow(c) \in {"launching", "inflight", "passed"}
    BY <1>2 DEF OnceInv
  <2>3. Eligible(c)' => StatusNow(c) = "passed" \/ \A t \in Trybots : ~Has(t, c)
    <3>1. Eligible(c)' => ~Busy(StatusOf(c))
      BY <1>1, <1>2, <1>4 DEF Eligible
    <3> QED
      BY <2>1, <2>2, <3>1 DEF Busy
  <2>4. pc' = "write" => c \in busy' /\ \A t \in Trybots : ~Has(t, c)
    <3> SUFFICES ASSUME pc' = "write" PROVE <2>4!2
      OBVIOUS
    <3>1. excused' # excused \cup {c}
      OBVIOUS
    <3>2. StatusOf(c) = "failed"
      BY <1>1, <1>4, <3>1, LookIs
    <3> QED
      BY <1>1, <1>4, <2>1, <2>2, <3>2 DEF Busy
  <2> QED
    BY <1>1, <1>2, <2>3, <2>4, OnceQuiet
<1> QED
  BY <1>3, <1>4

(* Asking for a trybot: nobody is testing the changes of a plan that have   *)
(* not passed, and no other plan is about them.                             *)
LEMMA TestLaunch ==
  ASSUME TypeInv, PlansInv, NEW c \in Changes \ excused', OnceInv(c),
         NEW plan \in plans, Launch(plan)
  PROVE  OnceInv(c)'
<1>1. /\ UNCHANGED <<status, patch, pool, todo, busy>>
      /\ writing = <<>> /\ writing' = <<>> /\ marking = {} /\ marking' = plan
      /\ pc' = "mark" /\ plans' = plans \ {plan}
  BY DEF Launch, gerritVars, loopVars, TypeInv, PhaseInv
<1>2. Unmarked = {} /\ Unmarked' = plan
  BY <1>1 DEF Unmarked
<1>3. StatusNow(c)' = StatusNow(c)
  BY <1>1 DEF StatusNow
<1>4. \A other \in plans' : other \cap plan = {}
  BY <1>1 DEF PlansInv
<1>5. Eligible(c)' => Eligible(c) /\ c \notin plan
  BY <1>1, <1>4 DEF Eligible
<1>6. CASE trybot' = trybot
  <2>1. Eligible(c)' => Eligible(c)
    BY <1>5
  <2> QED
    BY <1>1, <1>2, <1>6, <2>1, OnceQuiet
<1>7. ASSUME NEW t \in Trybots,
             trybot[t] = Free, trybot'[t] = Queued(plan),
             \A u \in Trybots \ {t} : trybot'[u] = trybot[u]
      PROVE  OnceInv(c)'
  <2>1. /\ Has(t, c)' <=> c \in plan
        /\ ~Has(t, c) /\ trybot'[t].pc = "queued" /\ trybot'[t].late = {}
    BY <1>7, FreeType DEF Has, InTest, Members, Queued
  <2>2. \A u \in Trybots \ {t} :
          (Has(u, c)' <=> Has(u, c)) /\ Members(u)' = Members(u)
    BY <1>7, HasKept
  <2>3. \A u \in Trybots :
          /\ trybot'[u].pc \in {"applied", "passing", "failing"}
             /\ c \in Members(u)' => trybot'[u].at[c] = patch'[c]
          /\ c \in trybot'[u].late => StatusNow(c) # "passed"
    BY <1>1, <1>7, <2>1, <2>2 DEF OnceInv
  <2>4. CASE c \notin plan
    <3>1. \A u \in Trybots : Has(u, c)' => Has(u, c)
      BY <2>1, <2>2, <2>4
    <3>2. Eligible(c)' => Eligible(c)
      BY <1>5
    <3> QED
      BY <1>1, <1>2, <1>3, <2>3, <2>4, <3>1, <3>2, OnceKept
  <2>5. CASE c \in plan
    <3>1. StatusNow(c) = "passed" \/ \A u \in Trybots : ~Has(u, c)
      BY <2>5 DEF OnceInv, Eligible
    <3>2. StatusNow(c)' # "passed" => InOneAtMost(c)'
      BY <1>3, <2>1, <2>2, <3>1 DEF InOneAtMost
    <3>3. ~Eligible(c)' /\ c \in Unmarked' /\ writing' # <<c, "launching">>
      BY <1>1, <1>2, <1>5, <2>5
    <3>4. pool'[c] # 0 => pool'[c] = patch'[c]
      BY <1>1 DEF OnceInv
    <3> QED
      BY <1>1, <1>3, <2>3, <3>2, <3>3, <3>4 DEF OnceInv
  <2> QED
    BY <2>4, <2>5
<1> QED
  BY <1>6, <1>7, LaunchType

(* A change of the plan that is about to be marked has not passed, and one  *)
(* that has needs no mark.                                                  *)
LEMMA TestMark ==
  ASSUME TypeInv, NEW c \in Changes \ excused', OnceInv(c),
         NEW d \in Changes, Mark(d)
  PROVE  OnceInv(c)'
<1>1. /\ UNCHANGED <<trybot, status, patch, pool, todo, busy, plans>>
      /\ pc = "mark" /\ pc' = "mark" /\ writing = <<>>
      /\ d \in marking /\ marking' = marking \ {d}
      /\ writing' = IF StatusOf(d) = "passed" THEN writing ELSE <<d, "launching">>
  BY DEF Mark, gerritVars, loopVars, historyVars
<1>2. d \in Pool
  BY <1>1 DEF TypeInv, TypeOK
<1>3. Eligible(c)' => Eligible(c)
  BY <1>1 DEF Eligible
<1>4. c # d => (c \in Unmarked => c \in Unmarked')
  BY <1>1 DEF Unmarked
<1>5. CASE c # d
  BY <1>1, <1>3, <1>4, <1>5, OnceQuiet
<1>6. CASE c = d
  <2>1. StatusOf(c) = StatusNow(c)
    BY <1>2, <1>6 DEF OnceInv, Pool, StatusOf, StatusNow
  <2>2. StatusNow(c) # "passed" => c \in Unmarked'
    BY <1>1, <1>6, <2>1 DEF Unmarked
  <2>3. writing' = <<c, "launching">> => StatusNow(c) # "passed"
    BY <1>1, <1>6, <2>1
  <2> QED
    BY <1>1, <1>3, <2>2, <2>3, OnceQuiet
<1> QED
  BY <1>5, <1>6

(* The launcher overwrites the status of a change only when no trybot is at *)
(* it, and marks one only when one trybot is.                               *)
LEMMA TestWrite ==
  ASSUME TypeInv, PlansInv, NEW c \in Changes \ excused', OnceInv(c),
         Write \/ WriteMark
  PROVE  OnceInv(c)'
<1>1. /\ UNCHANGED <<patch, pool, todo, busy, plans, marking, trybot>>
      /\ writing = <<writing[1], writing[2]>> /\ writing' = <<>>
      /\ \A p \in PatchSets :
           status'[c][p] = IF c = writing[1] /\ p = pool[c] THEN writing[2]
                           ELSE status[c][p]
      /\ \/ pc = "write" /\ pc' = "look" /\ writing[2] \in {"failed", "waiting"}
         \/ pc = "mark" /\ pc' = "mark" /\ writing[2] = "launching"
  BY WriteIs, WriteType DEF Write, WriteMark, TypeInv, PhaseInv
<1>2. \A t \in Trybots : (Has(t, c)' <=> Has(t, c)) /\ Members(t)' = Members(t)
  BY <1>1, HasKept
<1>3. Eligible(c)' => Eligible(c)
  BY <1>1 DEF Eligible
<1>4. patch[c] \in PatchSets
  BY DEF TypeInv, TypeOK
<1>5. \A t \in Trybots :
        trybot'[t].pc \in {"applied", "passing", "failing"} /\ c \in Members(t)'
          => trybot'[t].at[c] = patch[c]
  BY <1>1, <1>2 DEF OnceInv
<1>6. CASE c # writing[1]
  <2>1. StatusNow(c)' = StatusNow(c)
    BY <1>1, <1>4, <1>6 DEF StatusNow
  <2>2. c \in Unmarked => c \in Unmarked'
    BY <1>1, <1>6 DEF Unmarked
  <2>3. \A t \in Trybots : c \in trybot'[t].late => StatusNow(c) # "passed"
    BY <1>1 DEF OnceInv
  <2> QED
    BY <1>1, <1>2, <1>3, <1>5, <2>1, <2>2, <2>3, OnceKept
<1>7. CASE c = writing[1]
  <2>1. pool[c] = patch[c]
    <3>1. pool[c] \in PatchSets
      BY <1>7, WriteType
    <3> QED
      BY <3>1, PreCQAssumption DEF OnceInv, PatchSets
  <2>2. StatusNow(c)' = writing[2]
    BY <1>1, <1>4, <1>7, <2>1 DEF StatusNow
  <2>3. InOneAtMost(c)' <=> InOneAtMost(c)
    BY <1>2 DEF InOneAtMost
  <2>4. pool'[c] # 0 => pool'[c] = patch'[c]
    BY <1>1, <2>1
  <2>5. CASE pc = "write"
    <3>1. c \in busy /\ plans = {} /\ \A t \in Trybots : ~Has(t, c)
      BY <1>7, <2>5 DEF OnceInv, TypeInv, PhaseInv
    <3>2. ~Eligible(c)'
      BY <1>1, <2>5, <3>1 DEF Eligible
    <3>3. \A t \in Trybots : c \notin trybot'[t].late
      BY <1>1, <3>1, HasIs
    <3>4. InOneAtMost(c)'
      BY <2>3, <3>1 DEF InOneAtMost
    <3> QED
      BY <1>1, <1>2, <1>5, <2>4, <2>5, <3>1, <3>2, <3>3, <3>4 DEF OnceInv
  <2>6. CASE pc = "mark"
    <3>1. writing = <<c, "launching">>
      BY <1>1, <1>7, <2>6
    <3>2. InOneAtMost(c)'
      BY <2>3, <3>1 DEF OnceInv
    <3>3. ~Eligible(c)'
      BY <1>1, <2>6, <3>1 DEF Eligible, PlansInv, Unmarked
    <3>4. StatusNow(c)' = "launching"
      BY <2>2, <3>1
    <3> QED
      BY <1>1, <1>2, <1>5, <2>4, <2>6, <3>2, <3>3, <3>4 DEF OnceInv
  <2> QED
    BY <1>1, <2>5, <2>6
<1> QED
  BY <1>6, <1>7

(* A trybot that starts, succeeds or fails takes on no other change, and a  *)
(* change that has passed is not turned down.                               *)
LEMMA TestTrybot ==
  ASSUME TypeInv, NEW c \in Changes \ excused', OnceInv(c),
         NEW t \in Trybots, Apply(t) \/ Succeeds(t) \/ Fails(t)
  PROVE  OnceInv(c)'
<1>1. /\ UNCHANGED <<patch, status, pc, pool, todo, busy, writing, plans,
                     marking, excused>>
      /\ \A u \in Trybots \ {t} : trybot'[u] = trybot[u]
  BY ApplyType, SucceedsType, FailsType
<1>2. StatusNow(c)' = StatusNow(c) /\ Unmarked' = Unmarked
      /\ (Eligible(c)' => Eligible(c))
  BY <1>1 DEF StatusNow, Unmarked, Eligible
<1>3. \A u \in Trybots \ {t} :
        (Has(u, c)' <=> Has(u, c)) /\ Members(u)' = Members(u)
  BY <1>1, HasKept
<1>4. TypeInv'
  BY ApplyType, SucceedsType, FailsType
<1>5. /\ trybot'[t].pc \in {"applied", "passing", "failing"} /\ c \in Members(t)'
           => trybot'[t].at[c] = patch[c]
      /\ c \in trybot'[t].late => StatusNow(c) # "passed"
      /\ Has(t, c)' => Has(t, c)
  <2>1. CASE trybot'[t] = Free
    BY <2>1, FreeType DEF Has, InTest, Members
  <2>2. CASE Apply(t) /\ trybot'[t] # Free
    <3>1. /\ trybot[t].pc = "queued"
          /\ trybot'[t].pc = "applied" /\ trybot'[t].late = {}
          /\ \A d \in DOMAIN trybot'[t].at :
               d \in Members(t) /\ trybot'[t].at[d] = patch[d]
      BY <2>2, ApplyType
    <3>2. Has(t, c)' => c \in DOMAIN trybot'[t].at
      BY <3>1 DEF Has, InTest, Members
    <3> QED
      BY <3>1, <3>2, HasIs DEF Members
  <2>3. CASE Succeeds(t) /\ trybot'[t] # Free
    <3>1. /\ trybot[t].pc = "applied"
          /\ trybot'[t].pc = "passing" /\ trybot'[t].at = trybot[t].at
          /\ trybot'[t].todo = Members(t) /\ trybot'[t].late = {}
      <4>1. /\ trybot[t].pc = "applied"
            /\ trybot'[t] = Trybot("passing", trybot[t].at, Members(t), {})
        BY <2>3, SucceedsType
      <4> QED
        BY <4>1 DEF Trybot
    <3>2. Has(t, c)' => c \in Members(t)
      BY <3>1 DEF Has, InTest
    <3> QED
      BY <3>1, <3>2, HasIs DEF Members, OnceInv
  <2>4. CASE Fails(t) /\ trybot'[t] # Free
    <3>1. /\ trybot[t].pc = "applied"
          /\ trybot'[t].pc = "failing"
          /\ \A d \in DOMAIN trybot'[t].at :
               /\ d \in Members(t) /\ trybot'[t].at[d] = patch[d]
               /\ status[d][patch[d]] # "passed"
      BY <2>4, FailsType
    <3>2. trybot'[t].late \subseteq DOMAIN trybot'[t].at
      BY <1>4 DEF TypeInv, TrybotInv, TrybotOK
    <3>3. Has(t, c)' => c \in trybot'[t].late
      BY <3>1 DEF Has, InTest
    <3> QED
      BY <3>1, <3>2, <3>3, HasIs DEF Members, StatusNow
  <2> QED
    BY <2>1, <2>2, <2>3, <2>4
<1>6. \A u \in Trybots :
        /\ trybot'[u].pc \in {"applied", "passing", "failing"} /\ c \in Members(u)'
             => trybot'[u].at[c] = patch[c]
        /\ c \in trybot'[u].late => StatusNow(c) # "passed"
        /\ Has(u, c)' => Has(u, c)
  BY <1>1, <1>3, <1>5 DEF OnceInv
<1>7. pc' = "write" /\ writing'[1] = c =>
        c \in busy' /\ \A u \in Trybots : ~Has(u, c)
  BY <1>1 DEF OnceInv
<1> QED
  BY <1>1, <1>2, <1>6, <1>7, OnceKept

(* A trybot that sees that its patch set was applied says so only if it was *)
(* launching.                                                               *)
LEMMA ReportSees ==
  ASSUME TypeInv, NEW t \in Trybots, NEW c \in Changes, Reports(t, c),
         trybot[t].pc = "applied", c \in trybot'[t].late,
         status[c][trybot[t].at[c]] # "launching"
  PROVE  c \in trybot[t].late
  BY ReportType

(* A trybot that has written its verdict on a change is done with it. *)
LEMMA ReportEnds ==
  ASSUME TypeInv, NEW t \in Trybots, NEW c \in Changes, Reports(t, c),
         trybot[t].pc \in {"passing", "failing"}
  PROVE  ~Has(t, c)' /\ (trybot[t].pc = "passing" => trybot'[t].late = {})
<1>1. CASE trybot'[t] = Free
  BY <1>1, FreeType DEF Has, InTest, Members
<1>2. CASE trybot'[t].pc = trybot[t].pc
  BY <1>2, ReportType DEF Has, InTest
<1> QED
  BY <1>1, <1>2, ReportType

(* A report leaves a change that has not passed in one trybot at most: only *)
(* the trybot it is in writes its status, and says "inflight" as long as it *)
(* tests it.                                                                *)
LEMMA TestReport ==
  ASSUME TypeInv, NEW c \in Changes \ excused', OnceInv(c),
         NEW t \in Trybots, NEW d \in Changes, Reports(t, d)
  PROVE  OnceInv(c)'
<1>1. /\ UNCHANGED <<patch, pc, pool, todo, busy, writing, plans, marking,
                     excused>>
      /\ \A u \in Trybots \ {t} : trybot'[u] = trybot[u]
      /\ d \in Members(t)
      /\ \/ trybot'[t] = Free
         \/ /\ trybot'[t].pc = trybot[t].pc /\ trybot'[t].at = trybot[t].at
            /\ trybot'[t].todo \subseteq trybot[t].todo
  BY ReportType
<1>2. Unmarked' = Unmarked /\ (Eligible(c)' => Eligible(c))
  BY <1>1 DEF Unmarked, Eligible
<1>3. \A u \in Trybots \ {t} :
        (Has(u, c)' <=> Has(u, c)) /\ Members(u)' = Members(u)
  BY <1>1, HasKept
<1>4. \A u \in Trybots :
        trybot'[u].pc \in {"applied", "passing", "failing"} /\ c \in Members(u)'
          => trybot'[u].at[c] = patch[c]
  BY <1>1, <1>3, FreeType DEF OnceInv, Members
<1>5. patch[c] \in PatchSets
  BY DEF TypeInv, TypeOK
<1>6. trybot[t].pc \in {"applied", "passing", "failing"} =>
        (c = d => trybot[t].at[d] = patch[c])
  BY <1>1 DEF OnceInv
<1>7. pc' = "write" /\ writing'[1] = c =>
        c \in busy' /\ \A u \in Trybots : ~Has(u, c)
  BY <1>1 DEF OnceInv
<1>8. Has(t, c)' => Has(t, c)
  <2>1. CASE trybot'[t] = Free
    BY <2>1, FreeType DEF Has, InTest, Members
  <2>2. CASE /\ trybot'[t].pc = trybot[t].pc /\ trybot'[t].at = trybot[t].at
             /\ trybot'[t].todo \subseteq trybot[t].todo
    <3>1. trybot[t].pc = "failing" => trybot'[t].late \subseteq trybot[t].late
      BY ReportType
    <3> QED
      BY <2>2, <3>1, ReportType DEF Has, InTest, Members
  <2> QED
    BY <1>1, <2>1, <2>2
<1>9. \A u \in Trybots : Has(u, c)' => Has(u, c)
  BY <1>3, <1>8
<1>10. CASE /\ StatusNow(c)' = StatusNow(c)
            /\ c \in trybot'[t].late => c \in trybot[t].late
  <2>1. \A u \in Trybots : c \in trybot'[u].late => StatusNow(c) # "passed"
    BY <1>1, <1>10 DEF OnceInv
  <2> QED
    BY <1>1, <1>2, <1>4, <1>7, <1>9, <1>10, <2>1, OnceKept
<1>11. CASE c # d
  <2>1. StatusNow(c)' = StatusNow(c)
    BY <1>1, <1>5, <1>11, ReportIs DEF StatusNow
  <2>2. c \in trybot'[t].late => c \in trybot[t].late
    BY <1>11, ReportType
  <2> QED
    BY <1>10, <2>1, <2>2
<1>12. CASE c = d /\ trybot[t].pc = "applied" /\ UNCHANGED status
  <2>1. StatusNow(c)' = StatusNow(c)
    BY <1>1, <1>12 DEF StatusNow
  <2>2. c \in trybot'[t].late => c \in trybot[t].late \/ StatusNow(c) = "launching"
    BY <1>6, <1>12, ReportSees DEF StatusNow
  <2>3. \A u \in Trybots : c \in trybot'[u].late => StatusNow(c) # "passed"
    BY <1>1, <2>2 DEF OnceInv
  <2> QED
    BY <1>1, <1>2, <1>4, <1>7, <1>9, <2>1, <2>3, OnceKept
<1>13. ASSUME c = d, NEW s \in {"inflight", "passed", "failed"},
              trybot[t].pc = CASE s = "inflight" -> "applied"
                               [] s = "passed" -> "passing"
                               [] s = "failed" -> "failing",
              s = "passed" => c \in trybot[t].todo,
              s # "passed" => c \in trybot[t].late,
              \A e \in Changes, p \in PatchSets :
                status'[e][p] = IF e = d /\ p = trybot[t].at[d] THEN s
                                ELSE status[e][p]
       PROVE  OnceInv(c)'
  <2>1. Has(t, c) /\ StatusNow(c)' = s
    <3>1. trybot[t].at[d] = patch[c]
      BY <1>6, <1>13
    <3>2. StatusNow(c)' = s
      BY <1>1, <1>5, <1>13, <3>1 DEF StatusNow
    <3> QED
      BY <1>13, <3>2, HasIs
  <2>2. s # "passed" => StatusNow(c) # "passed"
    BY <1>13 DEF OnceInv
  <2>3. StatusNow(c) # "passed" => \A u \in Trybots \ {t} : ~Has(u, c)
    BY <2>1 DEF OnceInv, InOneAtMost
  <2>4. s # "inflight" => ~Has(t, c)'
    BY <1>13, ReportEnds
  <2>5. \A u \in Trybots : c \in trybot'[u].late => s # "passed"
    <3> SUFFICES ASSUME s = "passed", NEW u \in Trybots, c \in trybot'[u].late
                 PROVE  FALSE
      OBVIOUS
    <3>1. u # t
      BY <1>13, ReportEnds
    <3>2. Has(u, c) /\ StatusNow(c) # "passed"
      BY <1>1, <3>1, HasIs DEF OnceInv
    <3> QED
      BY <2>3, <3>1, <3>2
  <2>6. InOneAtMost(c) => InOneAtMost(c)'
    BY <1>9 DEF InOneAtMost
  <2>7. /\ s # "passed" => InOneAtMost(c)'
        /\ writing' = <<c, "launching">> => InOneAtMost(c)'
    BY <1>1, <2>2, <2>6 DEF OnceInv
  <2>8. Eligible(c)' => s = "passed" \/ \A u \in Trybots : ~Has(u, c)'
    BY <1>2, <1>9, <2>2 DEF OnceInv
  <2>9. \A u \in Trybots : Has(u, c)' => s \in {"inflight", "passed"}
    BY <1>9, <2>2, <2>3, <2>4
  <2>10. pool'[c] # 0 => pool'[c] = patch'[c]
    BY <1>1 DEF OnceInv
  <2>11. pc' = "write" /\ writing'[1] = c =>
           c \in busy' /\ \A u \in Trybots : ~Has(u, c)'
    BY <1>7, <1>9
  <2> QED
    BY <1>1, <1>4, <2>1, <2>5, <2>7, <2>8, <2>9, <2>10, <2>11 DEF OnceInv
<1> QED
  BY <1>11, <1>12, <1>13, ReportIs

(* An excuse is for ever. *)
LEMMA ExcusedGrow ==
  ASSUME TypeInv, [Next]_vars
  PROVE  excused \subseteq excused'
<1>1. CASE \/ UNCHANGED vars \/ Query \/ LoopEnds \/ Restart \/ Marked
           \/ Write \/ WriteMark
           \/ \E refused \in SUBSET (Pool \ Resolved) : PlanRefusing(refused)
           \/ \E plan \in plans : Launch(plan)
           \/ \E c \in Changes : Upload(c) \/ MarkReady(c) \/ Mark(c)
  BY <1>1 DEF vars, Query, LoopEnds, Restart, Marked, Write, WriteMark,
              PlanRefusing, Launch, Upload, MarkReady, Mark, historyVars
<1>2. ASSUME NEW c \in Changes,
             \/ LaunchTimesOut(c) \/ InflightTimesOut(c) \/ SeesFailed(c)
             \/ JustLooks(c)
      PROVE  excused \subseteq excused'
  BY <1>2 DEF LaunchTimesOut, InflightTimesOut, SeesFailed, JustLooks, Excuse
<1>3. ASSUME NEW t \in Trybots,
             \/ Apply(t) \/ Succeeds(t) \/ Fails(t)
             \/ \E c \in Changes : Reports(t, c)
      PROVE  excused \subseteq excused'
  BY <1>3, ApplyType, SucceedsType, FailsType, ReportType
<1> QED
  BY <1>1, <1>2, <1>3, Steps

(* Every step keeps a change that is not excused in one trybot at most. *)
LEMMA TestStep ==
  ASSUME TypeInv, PlansInv, TestInv, [Next]_vars
  PROVE  TestInv'
<1> SUFFICES ASSUME NEW c \in Changes \ excused'
             PROVE  OnceInv(c)'
  BY DEF TestInv
<1>1. c \notin excused /\ OnceInv(c)
  BY ExcusedGrow DEF TestInv
<1>2. CASE \/ UNCHANGED vars \/ Query \/ LoopEnds \/ Restart \/ Marked
           \/ \E refused \in SUBSET (Pool \ Resolved) : PlanRefusing(refused)
           \/ \E d \in Changes : Upload(d) \/ MarkReady(d)
  BY <1>1, <1>2, TestQuiet
<1>3. CASE Write \/ WriteMark
  BY <1>1, <1>3, TestWrite
<1>4. CASE \E plan \in plans : Launch(plan)
  BY <1>1, <1>4, TestLaunch
<1>5. CASE \E d \in Changes : Mark(d)
  BY <1>1, <1>5, TestMark
<1>6. CASE \E d \in Changes :
             \/ LaunchTimesOut(d) \/ InflightTimesOut(d) \/ SeesFailed(d)
             \/ JustLooks(d)
  BY <1>1, <1>6, TestLook
<1>7. CASE \E t \in Trybots : Apply(t) \/ Succeeds(t) \/ Fails(t)
  BY <1>1, <1>7, TestTrybot
<1>8. CASE \E t \in Trybots : \E d \in Changes : Reports(t, d)
  BY <1>1, <1>8, TestReport
<1> QED
  BY <1>2, <1>3, <1>4, <1>5, <1>6, <1>7, <1>8, Steps

(* The whole invariant is inductive. *)
LEMMA Inductive == IInv /\ [Next]_vars => IInv'
<1> SUFFICES ASSUME IInv, [Next]_vars PROVE IInv'
  OBVIOUS
<1>1. TypeInv'
  BY TypeStep DEF IInv, TypeInv
<1>2. PassedWasTested' /\ PassInv'
  BY PassStep DEF IInv, TypeInv
<1>3. LaunchInv' /\ RetryInv'
  BY LaunchStep DEF IInv, TypeInv
<1>4. PlansInv' /\ TestInv'
  BY PlansStep, TestStep DEF IInv, TypeInv
<1> QED
  BY <1>1, <1>2, <1>3, <1>4 DEF IInv, TypeInv

(* A change is in two trybots at a time only if it has passed, or if a      *)
(* newer patch set was uploaded, the launcher stopped waiting for one of    *)
(* them, or was restarted before it had marked the change: between a query  *)
(* and the launch the launcher goes by statuses that trybots write and      *)
(* rewrite, and no such write makes a change look free that is not.         *)
THEOREM TestedOnceAtATime == Spec => []DuplicatesExcused
<1>1. Init => IInv
  BY InitInv
<1>2. IInv /\ [Next]_vars => IInv'
  BY Inductive
<1>3. IInv => DuplicatesExcused
  <2> SUFFICES ASSUME IInv, NEW t \in Trybots, NEW u \in Trybots, t # u,
                      NEW c \in InTest(t) \cap InTest(u),
                      c \notin excused, status[c][patch[c]] # "passed"
               PROVE  FALSE
    BY DEF DuplicatesExcused
  <2>1. Has(t, c) /\ Has(u, c)
    BY DEF Has
  <2>2. trybot[t] \in TrybotRecords
    BY DEF IInv, TypeOK
  <2>3. c \in Changes
    <3>1. c \in Members(t)
      BY <2>1, HasIs DEF IInv, TypeInv
    <3> QED
      BY <2>2, <3>1, TestedDomain DEF Members, TrybotRecords
  <2>4. OnceInv(c)
    BY <2>3 DEF IInv, TestInv
  <2> QED
    BY <2>1, <2>4 DEF OnceInv, InOneAtMost, StatusNow
<1> QED
  BY <1>1, <1>2, <1>3, PTL DEF Spec
=============================================================================
