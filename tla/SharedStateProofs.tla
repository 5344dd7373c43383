------------------------- MODULE SharedStateProofs -------------------------
(***************************************************************************)
(* Proofs about three small components in which processes share something: *)
(* the queue of a task pool (TaskPool), the value of a run attribute       *)
(* (RunAttributes) and an entry of a disk cache (DiskCache), for any       *)
(* number of processes, inputs and calls.                                  *)
(***************************************************************************)
EXTENDS TaskPool, RunAttributes, DiskCache, SequenceTheorems, TLAPS

-----------------------------------------------------------------------------
(* The task pool: every input is run once, or the call fails.              *)

(* No sentinel before the body has ended, no worker leaves before it read   *)
(* one, and inputs come before sentinels.                                   *)
QueueInv ==
  /\ taken <= Size
  /\ sentinels > 0 => body \in {"ok", "raised"}
  /\ \A w \in Workers : worker[w] \in {"onexit", "ended"} =>
       body \in {"ok", "raised"} /\ produced <= taken

(* An input that was read was begun by one worker, or some task failed. *)
RanInv ==
  /\ \A w \in Workers : \A i \in ran[w] : i <= taken /\ i <= produced
  /\ \A i \in 1 .. produced : i <= taken =>
       \E w \in Workers : i \in ran[w] \/ failed[w]
  /\ \A v, w \in Workers : v # w => ran[v] \cap ran[w] = {}

(* What the call knows of a worker. *)
CallInv ==
  /\ \A w \in Workers : status[w] = "ok" => worker[w] = "ended" /\ ~failed[w]
  /\ call = "returned" => \A w \in Workers : status[w] = "ok"

(* A worker that is not over has no status yet, and a call that waited for  *)
(* all of them knows all of them.                                           *)
StatusInv ==
  /\ \A w \in Workers : worker[w] \notin {"ended", "died", "lost"} =>
       status[w] = "pending"
  /\ call = "failed" => \A w \in Workers : status[w] # "pending"

(* All workers are started before there is a body; an exception that is not *)
(* a BackgroundFailure is the body's only if all workers ended well.        *)
WayOutInv ==
  /\ body = "launch" => worker[NumWorkers] = "unborn"
  /\ body # "launch" => \A w \in Workers : worker[w] # "unborn"
  /\ call = "raised" => NotAllStarted \/ \A w \in Workers : status[w] = "ok"
  /\ call = "failed" => \A w \in Workers : worker[w] \in {"ended", "died"}

IInv == TypeOK /\ QueueInv /\ RanInv /\ CallInv /\ StatusInv /\ WayOutInv

(* The invariant holds of an empty queue. *)
LEMMA InitInv == Init => IInv
<1> SUFFICES ASSUME Init PROVE IInv
  OBVIOUS
<1> USE DEF Init, Steps!Init, Steps!Tasks, Workers
<1>1. NumInputs \in Nat /\ NumWorkers \in Nat /\ NumWorkers \in 1 .. NumWorkers
  BY TaskPoolAssumption
<1>2. /\ status \in [Workers -> {"pending", "ok", "failed"}]
      /\ worker \in [Workers -> {"unborn", "setup", "get", "task", "onexit",
                                "ended", "died", "lost"}]
      /\ failed \in [Workers -> BOOLEAN] /\ ran \in [Workers -> SUBSET Inputs]
  OBVIOUS
<1>3. TypeOK
  BY <1>1, <1>2 DEF TypeOK
<1>4. QueueInv /\ RanInv /\ CallInv /\ StatusInv /\ WayOutInv
  BY <1>1
  DEF QueueInv, Size, RanInv, CallInv, StatusInv, WayOutInv
<1> QED
  BY <1>3, <1>4 DEF IInv

(* A step of the parent or of a worker that reads nothing and reports       *)
(* nothing.                                                                 *)
LEMMA QuietStep ==
  ASSUME IInv, UNCHANGED <<produced, taken, failed, ran, status, call>>,
         TypeOK', sentinels' \in Nat, sentinels' >= sentinels,
         sentinels' > sentinels => body' \in {"ok", "raised"},
         body \in {"ok", "raised"} => body' \in {"ok", "raised"},
         body' = "launch" => worker'[NumWorkers] = "unborn",
         body' # "launch" => \A w \in Workers : worker'[w] # "unborn",
         \A w \in Workers : worker'[w] # worker[w] =>
           /\ worker[w] \in {"unborn", "setup", "get", "task"}
           /\ worker'[w] \in {"setup", "get", "task"}
           /\ worker[w] = "unborn" => call = "running"
  PROVE  IInv'
<1> USE DEF IInv
<1>1. /\ produced \in Nat /\ sentinels \in Nat /\ taken \in Nat
  BY TaskPoolAssumption DEF TypeOK
<1>2. taken' <= Size' /\ (sentinels' > 0 => body' \in {"ok", "raised"})
  <2>1. /\ taken <= produced + sentinels
        /\ sentinels > 0 => body \in {"ok", "raised"}
    BY DEF QueueInv, Size
  <2>2. taken' <= Size'
    <3>1. taken' = taken /\ produced' = produced
      OBVIOUS
    <3>2. ASSUME NEW s \in Nat, s >= sentinels PROVE taken <= produced + s
      BY <1>1, <2>1, <3>2
    <3> QED
      BY <3>1, <3>2 DEF Size
  <2>3. sentinels' > 0 => sentinels > 0 \/ sentinels' > sentinels
    BY <1>1
  <2> QED
    BY <2>1, <2>2, <2>3
<1>3. \A w \in Workers : worker'[w] \in {"onexit", "ended"} =>
        worker'[w] = worker[w]
  OBVIOUS
<1>4. QueueInv'
  BY <1>2, <1>3 DEF QueueInv
<1>5. RanInv' /\ CallInv' /\ StatusInv'
  BY DEF RanInv, CallInv, StatusInv
<1>6. call = "raised" => NotAllStarted' \/ \A w \in Workers : status[w] = "ok"
  BY DEF WayOutInv, NotAllStarted
<1>7. WayOutInv'
  BY <1>6 DEF WayOutInv
<1> QED
  BY <1>4, <1>5, <1>7

(* A worker is over, and the call may come to know it. *)
LEMMA EndStep ==
  ASSUME IInv, NEW w \in Workers, NEW to \in {"ended", "died", "lost"},
         NEW how \in {"ok", "failed"},
         worker' = [worker EXCEPT ![w] = to],
         status' = [status EXCEPT ![w] = how],
         worker[w] # "lost", worker[w] # "unborn",
         to = "ended" => worker[w] = "onexit",
         to = "lost" => worker[w] = "setup",
         how = "ok" => to = "ended" /\ ~failed[w],
         status[w] = "pending" \/ call = "running",
         UNCHANGED <<body, produced, sentinels, taken, failed, ran, call>>
  PROVE  IInv'
<1> USE DEF IInv
<1>1. TypeOK'
  BY DEF TypeOK
<1>2. QueueInv' /\ RanInv'
  BY DEF TypeOK, QueueInv, Size, RanInv
<1>3. \A v \in Workers : v # w => worker'[v] = worker[v] /\ status'[v] = status[v]
  BY DEF TypeOK
<1>4. worker'[w] = to /\ status'[w] = how
  BY DEF TypeOK
<1>5. CallInv' /\ StatusInv'
  BY <1>3, <1>4 DEF CallInv, StatusInv
<1>6. body = "launch" => worker'[NumWorkers] = "unborn"
  <2>1. NumWorkers \in Workers
    BY TaskPoolAssumption DEF Workers
  <2> QED
    BY <1>3, <2>1 DEF WayOutInv
<1>7. body # "launch" => \A v \in Workers : worker'[v] # "unborn"
  BY <1>3, <1>4 DEF WayOutInv
<1>8. ASSUME call = "raised"
      PROVE  NotAllStarted' \/ \A v \in Workers : status'[v] = "ok"
  <2>1. status[w] = "pending"
    BY <1>8
  <2>2. PICK v \in Workers : worker[v] \in {"unborn", "lost"}
    BY <1>8, <2>1 DEF WayOutInv, NotAllStarted
  <2>3. worker'[v] = worker[v]
    BY <1>3, <2>2
  <2> QED
    BY <2>2, <2>3 DEF NotAllStarted
<1>9. ASSUME call = "failed" PROVE FALSE
  BY <1>9 DEF StatusInv
<1>10. WayOutInv'
  BY <1>6, <1>7, <1>8, <1>9 DEF WayOutInv
<1> QED
  BY <1>1, <1>2, <1>5, <1>10

(* No step of the parent or of a worker breaks the invariant. *)
LEMMA StepInv == IInv /\ [Next]_vars => IInv'
<1> SUFFICES ASSUME IInv, [Next]_vars PROVE IInv'
  OBVIOUS
<1> USE DEF IInv, poolVars
<1>0. /\ NumInputs \in Nat /\ NumWorkers \in Nat
      /\ produced \in Nat /\ sentinels \in Nat /\ taken \in Nat
      /\ produced <= NumInputs /\ sentinels <= NumWorkers
      /\ taken <= produced + sentinels
  BY TaskPoolAssumption DEF TypeOK, QueueInv, Size
<1>1. CASE UNCHANGED vars
  BY <1>1
  DEF vars, TypeOK, QueueInv, Size, RanInv, CallInv, StatusInv, WayOutInv,
      NotAllStarted
<1>2. CASE Produce
  <2>1. TypeOK'
    BY <1>0, <1>2 DEF Produce, TypeOK
  <2>2. QueueInv'
    BY <1>0, <1>2 DEF Produce, QueueInv, Size
  <2>3. RanInv' /\ CallInv'
    <3>1. \A w \in Workers : \A i \in ran[w] : i \in Nat /\ i <= produced + 1
      BY <1>0 DEF TypeOK, RanInv, Inputs
    <3>2. taken <= produced
      BY <1>0, <1>2 DEF Produce, QueueInv
    <3> QED
      BY <1>0, <1>2, <3>1, <3>2 DEF Produce, RanInv, CallInv
  <2>4. StatusInv' /\ WayOutInv'
    BY <1>2 DEF Produce, StatusInv, WayOutInv, NotAllStarted
  <2> QED
    BY <2>1, <2>2, <2>3, <2>4
<1>3. CASE BodyEnds("ok") \/ BodyEnds("raised")
  <2>1. TypeOK'
    BY <1>3 DEF BodyEnds, TypeOK
  <2> QED
    BY <1>0, <1>3, <2>1, QuietStep DEF BodyEnds, WayOutInv
<1>4. CASE PutSentinel
  <2>1. TypeOK'
    BY <1>0, <1>4 DEF PutSentinel, EnoughSentinels, TypeOK
  <2> QED
    BY <1>0, <1>4, <2>1, QuietStep DEF PutSentinel, WayOutInv
<1>5. ASSUME NEW w \in Workers, Launch(w) PROVE IInv'
  <2>1. /\ worker[w] = "unborn" /\ call = "running" /\ body = "launch"
        /\ worker' = [worker EXCEPT ![w] = "setup"]
        /\ \A v \in 1 .. w - 1 : worker[v] # "unborn"
        /\ body' = IF w = NumWorkers THEN "running" ELSE body
        /\ UNCHANGED <<produced, sentinels, taken, failed, ran, status, call>>
    BY <1>5 DEF Launch, Goes
  <2>2. TypeOK'
    BY <2>1 DEF TypeOK
  <2>3. body' = "launch" => worker'[NumWorkers] = "unborn"
    <3>1. NumWorkers \in Workers
      BY TaskPoolAssumption DEF Workers
    <3> QED
      BY <2>1, <3>1 DEF WayOutInv, TypeOK
  <2>4. ASSUME body' # "launch", NEW v \in Workers PROVE worker'[v] # "unborn"
    <3>1. w = NumWorkers
      BY <2>1, <2>4
    <3>2. v = w \/ v \in 1 .. w - 1
      BY <1>0, <3>1 DEF Workers
    <3> QED
      BY <2>1, <3>2 DEF TypeOK
  <2>5. \A v \in Workers : worker'[v] # worker[v] =>
          worker[v] = "unborn" /\ worker'[v] = "setup"
    BY <2>1 DEF TypeOK
  <2> QED
    BY <1>0, <2>1, <2>2, <2>3, <2>4, <2>5, QuietStep
<1>6. CASE LaunchFails \/ PoolReturns
  <2>1. /\ UNCHANGED <<body, produced, sentinels, taken, worker, failed, ran, status>>
        /\ \/ /\ call' = "returned"
              /\ \A w \in Workers : status[w] = "ok"
           \/ /\ call' = "failed" /\ body # "launch"
              /\ \A w \in Workers : status[w] # "pending" /\ worker[w] # "lost"
           \/ /\ call' = "raised"
              /\ \/ body = "launch"
                 \/ \A w \in Workers : status[w] = "ok"
                 \/ \E w \in Workers : worker[w] = "lost"
    <3>1. CASE LaunchFails
      BY <3>1 DEF LaunchFails, Steps!RaiseOther
    <3>2. CASE PoolReturns
      BY <3>2 DEF PoolReturns, BodyPrevails, AllStarted, StartupAssertion,
                  Steps!Return, Steps!RaiseOther, Steps!RaiseBackgroundFailure,
                  Steps!Tasks, Workers
    <3> QED
      BY <1>6, <3>1, <3>2
  <2>2. TypeOK'
    BY <2>1 DEF TypeOK
  <2>3. QueueInv' /\ RanInv' /\ CallInv' /\ StatusInv'
    BY <2>1 DEF QueueInv, Size, RanInv, CallInv, StatusInv
  <2>4. ASSUME body = "launch" PROVE \E w \in Workers : worker[w] = "unborn"
    <3>1. NumWorkers \in Workers
      BY TaskPoolAssumption DEF Workers
    <3> QED
      BY <2>4, <3>1 DEF WayOutInv
  <2>5. WayOutInv'
    <3>1. CASE call' = "returned"
      BY <2>1, <3>1 DEF WayOutInv
    <3>2. CASE call' = "failed"
      <4>1. \A w \in Workers : worker[w] \in {"ended", "died"}
        BY <2>1, <3>2 DEF WayOutInv, StatusInv, TypeOK
      <4> QED
        BY <2>1, <3>2, <4>1 DEF WayOutInv
    <3>3. CASE call' = "raised"
      BY <2>1, <2>4, <3>3 DEF WayOutInv, NotAllStarted
    <3> QED
      BY <2>1, <3>1, <3>2, <3>3
  <2> QED
    BY <2>2, <2>3, <2>5
<1>7. ASSUME NEW w \in Workers, GetInput(w) PROVE IInv'
  <2>1. /\ worker[w] = "get" /\ taken < produced /\ taken' = taken + 1
        /\ call = "running"
        /\ UNCHANGED <<body, produced, sentinels, failed, status, call>>
    BY <1>7 DEF GetInput, Popped, QueueOpen
  <2>2. CASE failed[w] /\ UNCHANGED <<worker, ran>>
    <3>1. TypeOK' /\ QueueInv' /\ CallInv' /\ StatusInv' /\ WayOutInv'
      BY <1>0, <2>1, <2>2
      DEF TypeOK, QueueInv, Size, CallInv, StatusInv, WayOutInv, NotAllStarted
    <3>2. RanInv'
      <4>1. \A v \in Workers : \A i \in ran[v] : i \in Nat
        BY DEF TypeOK, Inputs
      <4> QED
        BY <1>0, <2>1, <2>2, <4>1 DEF RanInv
    <3> QED
      BY <3>1, <3>2
  <2>3. CASE /\ worker' = [worker EXCEPT ![w] = "task"]
             /\ ran' = [ran EXCEPT ![w] = @ \cup {taken + 1}]
    <3>1. taken + 1 \in Inputs /\ \A v \in Workers : taken + 1 \notin ran[v]
      BY <1>0, <2>1 DEF Inputs, RanInv
    <3>2. TypeOK'
      BY <1>0, <2>1, <2>3, <3>1 DEF TypeOK
    <3>3. QueueInv' /\ CallInv' /\ StatusInv' /\ WayOutInv'
      BY <1>0, <2>1, <2>3
      DEF TypeOK, QueueInv, Size, CallInv, StatusInv, WayOutInv, NotAllStarted
    <3>4. /\ ran'[w] = ran[w] \cup {taken + 1}
          /\ \A v \in Workers \ {w} : ran'[v] = ran[v]
      BY <2>3 DEF TypeOK
    <3>5. \A v \in Workers : \A i \in ran[v] : i \in Nat
      BY DEF TypeOK, Inputs
    <3>6. \A v \in Workers : \A i \in ran'[v] : i <= taken' /\ i <= produced'
      BY <1>0, <2>1, <3>4, <3>5 DEF RanInv
    <3>7. \A i \in 1 .. produced : i <= taken + 1 => i <= taken \/ i = taken + 1
      BY <1>0
    <3>8. \A i \in 1 .. produced' : i <= taken' =>
            \E v \in Workers : i \in ran'[v] \/ failed'[v]
      BY <2>1, <3>4, <3>7 DEF RanInv
    <3>9. \A u, v \in Workers : u # v => ran'[u] \cap ran'[v] = {}
      BY <3>1, <3>4 DEF RanInv
    <3> QED
      BY <3>2, <3>3, <3>6, <3>8, <3>9 DEF RanInv
  <2> QED
    BY <1>7, <2>2, <2>3 DEF GetInput, Goes
<1>8. ASSUME NEW w \in Workers, GetSentinel(w) PROVE IInv'
  <2>1. /\ worker[w] = "get" /\ produced <= taken /\ taken < produced + sentinels
        /\ taken' = taken + 1 /\ worker' = [worker EXCEPT ![w] = "onexit"]
        /\ call = "running"
        /\ UNCHANGED <<body, produced, sentinels, failed, ran, status, call>>
    BY <1>8 DEF GetSentinel, Popped, Goes, Size, QueueOpen
  <2>2. TypeOK'
    BY <1>0, <2>1 DEF TypeOK
  <2>3. sentinels > 0
    BY <1>0, <2>1
  <2>4. QueueInv'
    BY <1>0, <2>1, <2>3 DEF TypeOK, QueueInv, Size
  <2>5. CallInv' /\ StatusInv' /\ WayOutInv'
    BY <2>1 DEF TypeOK, CallInv, StatusInv, WayOutInv, NotAllStarted
  <2>6. RanInv'
    <3>1. \A v \in Workers : \A i \in ran[v] : i \in Nat
      BY DEF TypeOK, Inputs
    <3>2. \A i \in 1 .. produced : i <= taken
      BY <1>0, <2>1
    <3> QED
      BY <1>0, <2>1, <3>1, <3>2 DEF RanInv
  <2> QED
    BY <2>2, <2>4, <2>5, <2>6
<1>9. ASSUME NEW w \in Workers, StartsUp(w) \/ TaskReturns(w) PROVE IInv'
  <2>1. /\ worker[w] \in {"setup", "task"} /\ worker' = [worker EXCEPT ![w] = "get"]
        /\ UNCHANGED <<body, produced, sentinels, taken, failed, ran, status, call>>
    BY <1>9 DEF StartsUp, TaskReturns, Goes
  <2>2. TypeOK'
    BY <2>1 DEF TypeOK
  <2>3. \A v \in Workers : worker'[v] # worker[v] =>
          worker[v] \in {"setup", "task"} /\ worker'[v] = "get"
    BY <2>1 DEF TypeOK
  <2> QED
    BY <1>0, <2>1, <2>2, <2>3, QuietStep DEF WayOutInv
<1>10. ASSUME NEW w \in Workers, TaskRaises(w) PROVE IInv'
  <2>1. /\ worker[w] = "task" /\ worker' = [worker EXCEPT ![w] = "get"]
        /\ failed' = [failed EXCEPT ![w] = TRUE]
        /\ UNCHANGED <<body, produced, sentinels, taken, ran, status, call>>
    BY <1>10 DEF TaskRaises, Goes, NextAfterFailure
  <2>2. /\ worker'[w] = "get" /\ failed'[w]
        /\ \A v \in Workers : v # w =>
             worker'[v] = worker[v] /\ failed'[v] = failed[v]
    BY <2>1 DEF TypeOK
  <2>3. TypeOK'
    BY <2>1 DEF TypeOK
  <2>4. QueueInv' /\ RanInv'
    BY <2>1, <2>2 DEF QueueInv, Size, RanInv
  <2>5. CallInv' /\ StatusInv'
    BY <2>1, <2>2 DEF CallInv, StatusInv
  <2>6. WayOutInv'
    BY <2>1, <2>2 DEF WayOutInv, NotAllStarted
  <2> QED
    BY <2>3, <2>4, <2>5, <2>6
<1>11. ASSUME NEW w \in Workers,
              RunsOnExit(w, TRUE) \/ RunsOnExit(w, FALSE) \/ QueueGone(w) \/ Dies(w)
       PROVE  IInv'
  <2>1. PICK to \in {"ended", "died", "lost"}, how \in {"ok", "failed"} :
          /\ worker' = [worker EXCEPT ![w] = to]
          /\ status' = [status EXCEPT ![w] = how]
          /\ worker[w] \notin {"lost", "unborn"}
          /\ to = "ended" => worker[w] = "onexit"
          /\ to = "lost" => worker[w] = "setup"
          /\ how = "ok" => to = "ended" /\ ~failed[w]
          /\ status[w] = "pending" \/ call = "running"
          /\ UNCHANGED <<body, produced, sentinels, taken, failed, ran, call>>
    BY <1>11 DEF RunsOnExit, QueueGone, Dies, Unhappy, Goes, Breaks, Steps!Fail,
                 Steps!FailLate, Steps!Succeed
  <2> QED
    BY <2>1, EndStep
<1> QED
  BY <1>1, <1>2, <1>3, <1>4, <1>5, <1>6, <1>7, <1>8, <1>9, <1>10, <1>11
  DEF Next, ParentStep, WorkerStep, Done

(* IInv is an invariant of the pool. *)
LEMMA Invariance == Spec => []IInv
  BY InitInv, StepInv, PTL DEF Spec

(* Every input is run once, or the call does not return. *)
THEOREM InputsRunOnce == Spec => []AllRunOnce
<1>1. IInv => AllRunOnce
  <2> SUFFICES ASSUME IInv, call = "returned"
               PROVE  UNION {ran[w] : w \in Workers} = 1 .. produced
    BY DEF IInv, RanInv, AllRunOnce
  <2>1. NumWorkers \in Nat \ {0}
    BY TaskPoolAssumption
  <2>2. 1 \in Workers
    BY <2>1 DEF Workers
  <2>3. /\ \A w \in Workers : worker[w] = "ended" /\ ~failed[w]
        /\ produced <= taken
    BY <2>2 DEF IInv, CallInv, QueueInv
  <2>4. \A i \in 1 .. produced : \E w \in Workers : i \in ran[w]
    BY <2>3 DEF IInv, TypeOK, RanInv
  <2>5. \A w \in Workers : \A i \in ran[w] : i \in 1 .. produced
    BY DEF IInv, TypeOK, RanInv, Inputs
  <2> QED
    BY <2>4, <2>5
<1> QED
  BY Invariance, <1>1, PTL

(* A task that failed is not hidden, by a return or by the body's exception: *)
(* only the exception of a worker that never started takes its place.       *)
THEOREM NoFailureHidden == Spec => []FailuresSurface
<1>1. IInv => FailuresSurface
  BY DEF IInv, CallInv, WayOutInv, FailuresSurface, NoneFailed
<1> QED
  BY Invariance, <1>1, PTL

-----------------------------------------------------------------------------
(* The attribute keeps its one value.                                      *)

(* Who is past taking the lock holds it, and nobody else does. *)
Guarded == {"update", "return", "flush", "put"}
AttrLockInv ==
  /\ \A p \in Users : at[p] \in Guarded <=> p \in attrLock
  /\ \A p, q \in attrLock : p = q

(* Who is about to put a value has emptied the queue, and only the holder   *)
(* of the lock puts one.                                                    *)
AttrPutInv == \A p \in Users : at[p] \in {"return", "put"} => queue = <<>>

(* Only a reader has a value in its hands. *)
AttrReaderInv ==
  \A p \in Users : value[p] # 0 => at[p] \in {"got", "update", "return"}

AttrIInv ==
  AttrTypeOK /\ AttrLockInv /\ AttrPutInv /\ AttrReaderInv /\ OneValue

(* Appending to an empty queue makes a queue of one. *)
LEMMA OneAppended ==
  ASSUME NEW v \in Nat \ {0}
  PROVE  /\ Append(<<>>, v) \in Seq(Nat \ {0})
         /\ Len(Append(<<>>, v)) = 1 /\ Append(<<>>, v) # <<>>
  OBVIOUS

(* What is left of a queue of at most one value is empty. *)
LEMMA OneTaken ==
  ASSUME NEW q \in Seq(Nat \ {0}), q # <<>>, Len(q) <= 1
  PROVE  /\ Head(q) \in Nat \ {0} /\ Tail(q) \in Seq(Nat \ {0})
         /\ Tail(q) = <<>> /\ Len(Tail(q)) = 0
  <1>1. Len(q) = 1
    <2>1. Len(q) \in Nat /\ Len(q) # 0
      BY EmptySeq, LenProperties
    <2>2. \A n \in Nat : n # 0 /\ n <= 1 => n = 1
      OBVIOUS
    <2> QED
      BY <2>1, <2>2
  <1>2. /\ Head(q) \in Nat \ {0} /\ Tail(q) \in Seq(Nat \ {0})
        /\ Len(Tail(q)) = 0
    BY <1>1, HeadTailProperties
  <1>3. Tail(q) = <<>>
    BY <1>2, EmptySeq
  <1> QED
    BY <1>2, <1>3

(* The invariant holds of an attribute nobody has set. *)
LEMMA AttrInitInv == AttrInit => AttrIInv
  BY DEF AttrInit, AttrIInv, AttrTypeOK, AttrLockInv, AttrPutInv,
         AttrReaderInv, OneValue, Guarded

(* No step of a call breaks the invariant. *)
LEMMA AttrStepInv == AttrIInv /\ [AttrNext]_attrVars => AttrIInv'
<1> SUFFICES ASSUME AttrIInv, [AttrNext]_attrVars PROVE AttrIInv'
  OBVIOUS
<1> USE DEF AttrIInv
<1>1. CASE UNCHANGED attrVars
  BY <1>1
  DEF attrVars, AttrTypeOK, AttrLockInv, AttrPutInv, AttrReaderInv,
      OneValue, Guarded
<1>2. CASE \E p \in Users : AttrStep(p)
  <2> PICK p \in Users : AttrStep(p)
    BY <1>2
  <2>1. CASE GetTakes(p)
    <3>1. /\ Head(queue) \in Nat \ {0} /\ Tail(queue) \in Seq(Nat \ {0})
          /\ Tail(queue) = <<>> /\ Len(Tail(queue)) = 0
      BY <2>1, OneTaken DEF GetTakes, AttrTypeOK, OneValue
    <3>2. queue' = <<>> /\ Len(queue') = 0 /\ queue' \in Seq(Nat \ {0})
      BY <2>1, <3>1 DEF GetTakes
    <3>3. AttrTypeOK' /\ AttrLockInv' /\ AttrPutInv' /\ AttrReaderInv'
      BY <2>1, <3>1, <3>2
      DEF GetTakes, AttrGoes, AttrTypeOK, AttrLockInv, AttrPutInv,
          AttrReaderInv, Guarded
    <3>4. value'[p] # 0
      BY <2>1, <3>1 DEF GetTakes, AttrTypeOK
    <3> QED
      BY <3>2, <3>3, <3>4 DEF OneValue
  <2>2. CASE GetTimesOut(p)
    BY <2>2
    DEF GetTimesOut, AttrGoes, AttrTypeOK, AttrLockInv, AttrPutInv,
        AttrReaderInv, OneValue, Guarded
  <2>3. CASE GetLocks(p)
    BY <2>3
    DEF GetLocks, AttrGoes, Locks, AttrTypeOK, AttrLockInv,
        AttrPutInv, AttrReaderInv, OneValue, Guarded
  <2>4. CASE GetUpdates(p)
    <3>1. /\ Head(queue) \in Nat \ {0} /\ Tail(queue) \in Seq(Nat \ {0})
          /\ Tail(queue) = <<>> /\ Len(Tail(queue)) = 0
      BY <2>4, OneTaken DEF GetUpdates, AttrTypeOK, OneValue
    <3> QED
      BY <2>4, <3>1
      DEF GetUpdates, AttrTypeOK, AttrLockInv, AttrPutInv,
          AttrReaderInv, OneValue, Guarded
  <2>5. CASE GetFlushed(p)
    BY <2>5
    DEF GetFlushed, AttrGoes, AttrTypeOK, AttrLockInv, AttrPutInv,
        AttrReaderInv, OneValue, Guarded
  <2>6. CASE GetReturns(p)
    <3>1. queue = <<>> /\ queue' = Append(<<>>, value[p])
      BY <2>6 DEF GetReturns, AttrGoes, AttrPutInv, Requeued
    <3>2. /\ queue' \in Seq(Nat \ {0}) /\ Len(queue') = 1 /\ queue' # <<>>
      BY <2>6, <3>1, OneAppended DEF GetReturns, AttrTypeOK
    <3>3. attrLock = {p} /\ attrLock' = {}
      BY <2>6
      DEF GetReturns, AttrGoes, Unlocks, AttrLockInv, Guarded,
          AttrTypeOK
    <3> QED
      BY <2>6, <3>2, <3>3
      DEF GetReturns, AttrGoes, AttrTypeOK, AttrLockInv, AttrPutInv,
          AttrReaderInv, OneValue, Guarded
  <2>7. CASE GetRaises(p)
    BY <2>7
    DEF GetRaises, AttrGoes, Unlocks, AttrTypeOK, AttrLockInv,
        AttrPutInv, AttrReaderInv, OneValue, Guarded
  <2>8. CASE SetLocks(p)
    BY <2>8
    DEF SetLocks, AttrGoes, CanLock, Locks, AttrTypeOK,
        AttrLockInv, AttrPutInv, AttrReaderInv, OneValue, Guarded
  <2>9. CASE SetFlushes(p)
    <3>1. /\ Tail(queue) \in Seq(Nat \ {0})
          /\ Tail(queue) = <<>> /\ Len(Tail(queue)) = 0
      BY <2>9, OneTaken DEF SetFlushes, AttrTypeOK, OneValue
    <3> QED
      BY <2>9, <3>1
      DEF SetFlushes, AttrTypeOK, AttrLockInv, AttrPutInv,
          AttrReaderInv, OneValue, Guarded
  <2>10. CASE SetFlushed(p)
    BY <2>10
    DEF SetFlushed, AttrGoes, AttrTypeOK, AttrLockInv, AttrPutInv,
        AttrReaderInv, OneValue, Guarded
  <2>11. CASE SetPuts(p)
    <3>1. queue = <<>> /\ queue' = Append(<<>>, sets + 1)
      BY <2>11 DEF SetPuts, AttrGoes, AttrPutInv
    <3>2. /\ queue' \in Seq(Nat \ {0}) /\ Len(queue') = 1 /\ queue' # <<>>
      BY <2>11, <3>1, OneAppended DEF AttrTypeOK
    <3>3. attrLock = {p} /\ attrLock' = {}
      BY <2>11
      DEF SetPuts, AttrGoes, Unlocks, AttrLockInv, Guarded,
          AttrTypeOK
    <3> QED
      BY <2>11, <3>2, <3>3
      DEF SetPuts, AttrGoes, AttrTypeOK, AttrLockInv, AttrPutInv,
          AttrReaderInv, OneValue, Guarded
  <2> QED
    BY <2>1, <2>2, <2>3, <2>4, <2>5, <2>6, <2>7, <2>8, <2>9, <2>10, <2>11
    DEF AttrStep
<1>3. CASE \E p \in Users : AttrCalls(p)
  <2> PICK p \in Users : AttrCalls(p)
    BY <1>3
  <2>1. CASE GetParallel(p)
    BY <2>1
    DEF GetParallel, AttrCall, AttrGoes, AttrTypeOK, AttrLockInv,
        AttrPutInv, AttrReaderInv, OneValue, Guarded
  <2>2. CASE SetParallel(p)
    BY <2>2
    DEF SetParallel, AttrCall, AttrGoes, AttrTypeOK, AttrLockInv,
        AttrPutInv, AttrReaderInv, OneValue, Guarded
  <2>3. CASE HasParallel(p)
    BY <2>3
    DEF HasParallel, AttrCall, AttrGoes, AttrTypeOK, AttrLockInv,
        AttrPutInv, AttrReaderInv, OneValue, Guarded
  <2>4. CASE SetParallelDefault(p)
    BY <2>4
    DEF SetParallelDefault, AttrCall, AttrGoes, AttrTypeOK,
        AttrLockInv, AttrPutInv, AttrReaderInv, OneValue, Guarded
  <2> QED
    BY <2>1, <2>2, <2>3, <2>4 DEF AttrCalls
<1> QED
  BY <1>1, <1>2, <1>3 DEF AttrNext

(* The attribute's value is neither doubled nor lost, however many          *)
(* processes take it off the queue and put it back.                         *)
THEOREM AttributeKept == AttrSpec => []OneValue
<1>1. AttrSpec => []AttrIInv
  BY AttrInitInv, AttrStepInv, PTL DEF AttrSpec
<1>2. AttrIInv => OneValue
  BY DEF AttrIInv
<1> QED
  BY <1>1, <1>2, PTL

-----------------------------------------------------------------------------
(* The entry lock keeps what a call has seen true until the call ends.     *)

InCall == {"look", "write", "insert", "move", "written", "read", "leave"}
Inserting == {"insert", "move", "written"}

(* Who is past taking a lock holds it, and holds it alone. *)
CacheLockInv ==
  /\ \A p \in Processes : pc[p] \in InCall <=> p \in entryLock
  /\ \A p, q \in entryLock : p = q
  /\ \A p \in Processes : pc[p] \in Inserting <=> p \in writers
  /\ writers # {} => readers = {}

(* A process that waits for a lock holds no read lock. *)
CacheReaderInv ==
  /\ \A p \in readers : readLocked[p] /\ pc[p] \in {"idle", "leave"}
  /\ \A p \in Processes : pc[p] \notin {"idle", "leave"} => ~readLocked[p]

(* What Look has seen is still so: SetDefault inserts where nothing is, and *)
(* a read lock is taken on something.                                       *)
LookInv ==
  \A p \in Processes :
    /\ lock[p] => op[p] \in {"Exists", "SetDefault"}
    /\ pc[p] \in {"write", "insert", "move"} =>
         op[p] # "Exists" /\ (op[p] = "SetDefault" => entry = 0)
    /\ pc[p] = "move" => entry = 0
    /\ pc[p] = "read" \/ (pc[p] = "written" /\ lock[p]) => entry # 0

CacheIInv ==
  /\ CacheTypeOK
  /\ CacheLockInv
  /\ CacheReaderInv
  /\ LookInv
  /\ StableWhileRead

(* The invariant holds of an empty cache that nobody uses. *)
LEMMA CacheInitInv == CacheInit => CacheIInv
  BY DEF CacheInit, CacheIInv, CacheTypeOK, CacheLockInv, CacheReaderInv,
         LookInv, StableWhileRead, InCall, Inserting, Operations

(* Acquire gives the reference a new read lock, or the one it had, and with *)
(* it what it takes for granted.                                            *)
LEMMA CacheAcquireInv ==
  ASSUME CacheIInv, NEW p \in Processes, Acquire(p)
  PROVE  CacheIInv'
<1>1. PICK old \in {readLocked[p], FALSE} :
        readLocked' = [readLocked EXCEPT ![p] = old]
  BY DEF Acquire
<1>2. readLocked \in [Processes -> BOOLEAN]
  BY DEF CacheIInv, CacheTypeOK
<1>3. old \in BOOLEAN
  BY <1>1, <1>2
<1>4. /\ readLocked' \in [Processes -> BOOLEAN]
      /\ readLocked'[p] = old
      /\ \A q \in Processes \ {p} : readLocked'[q] = readLocked[q]
  BY <1>1, <1>2, <1>3
<1>5. /\ readers' \subseteq readers
      /\ p \in readers' => readLocked'[p]
      /\ acquired' = [acquired EXCEPT ![p] = TRUE] /\ pc[p] = "idle"
      /\ UNCHANGED <<entry, items, entryLock, writers, pc, op, lock, seen,
                     calls>>
  BY DEF Acquire, request
<1>6. CacheTypeOK'
  BY <1>4, <1>5 DEF CacheIInv, CacheTypeOK
<1>7. CacheLockInv'
  BY <1>5 DEF CacheIInv, CacheLockInv
<1>8. CacheReaderInv'
  <2>1. readers \subseteq Processes
    BY DEF CacheIInv, CacheTypeOK
  <2>2. \A q \in readers' : readLocked'[q]
    BY <1>4, <1>5, <2>1 DEF CacheIInv, CacheReaderInv
  <2> QED
    BY <1>4, <1>5, <2>2 DEF CacheIInv, CacheReaderInv
<1>9. LookInv' /\ StableWhileRead'
  BY <1>5 DEF CacheIInv, LookInv, StableWhileRead
<1> QED
  BY <1>6, <1>7, <1>8, <1>9 DEF CacheIInv

(* No other use of a reference between calls, no beginning of a call and no *)
(* death breaks the invariant.                                              *)
LEMMA CacheBetweenCallsInv ==
  ASSUME CacheIInv, NEW p \in Processes,
         Release(p) \/ Unlock(p) \/ Call(p) \/ ProcessDies(p)
  PROVE  CacheIInv'
<1> USE DEF CacheIInv
<1>1. CacheTypeOK'
  <2>1. CASE Release(p)
    BY <2>1 DEF Release, request, CacheTypeOK
  <2>2. CASE Unlock(p)
    BY <2>2 DEF Unlock, request, ref, CacheTypeOK
  <2>3. CASE Call(p)
    BY <2>3 DEF Call, CacheGoes, locks, ref, CacheTypeOK
  <2>4. CASE ProcessDies(p)
    BY <2>4 DEF ProcessDies, Forgets, CacheTypeOK, Operations
  <2> QED
    BY <2>1, <2>2, <2>3, <2>4
<1>2. CacheLockInv'
  <2>1. /\ entryLock' \subseteq entryLock
        /\ writers' \subseteq writers /\ readers' \subseteq readers
    BY DEF Release, Unlock, Call, ProcessDies, locks,
           request, ref
  <2>2. \/ UNCHANGED <<entryLock, writers, pc>>
        \/ /\ pc' = [pc EXCEPT ![p] = "entry"] /\ pc[p] = "idle"
           /\ UNCHANGED <<entryLock, writers>>
        \/ /\ pc' = [pc EXCEPT ![p] = "idle"]
           /\ entryLock' = entryLock \ {p} /\ writers' = writers \ {p}
    BY DEF Release, Unlock, Call, ProcessDies, locks,
           request, ref, CacheGoes
  <2> QED
    BY <2>1, <2>2 DEF CacheLockInv, CacheTypeOK, InCall, Inserting
<1>3. CacheReaderInv' /\ StableWhileRead'
  <2>1. /\ readers' \subseteq readers
        /\ entry' = entry /\ seen' = seen
        /\ readLocked' \in {readLocked, [readLocked EXCEPT ![p] = FALSE]}
        /\ readLocked' # readLocked => p \notin readers'
        /\ \/ pc' = pc
           \/ pc' = [pc EXCEPT ![p] = "entry"] /\ ~readLocked[p]
           \/ pc' = [pc EXCEPT ![p] = "idle"]
    BY DEF Release, Unlock, Call, ProcessDies, locks,
           request, ref, CacheGoes, Allowed
  <2> QED
    BY <2>1 DEF CacheReaderInv, StableWhileRead, CacheTypeOK
<1>4. LookInv'
  <2>1. CASE UNCHANGED <<pc, op, lock, entry>>
    BY <2>1 DEF LookInv
  <2>2. CASE Call(p)
    BY <2>2 DEF Call, CacheGoes, LookInv, CacheTypeOK
  <2>3. CASE ProcessDies(p)
    BY <2>3 DEF ProcessDies, Forgets, LookInv, CacheTypeOK
  <2> QED
    BY <2>1, <2>2, <2>3 DEF Release, Unlock, request
<1> QED
  BY <1>1, <1>2, <1>3, <1>4

(* No step of a call breaks the invariant. *)
LEMMA CacheCallInv ==
  ASSUME CacheIInv, NEW p \in Processes, Step(p)
  PROVE  CacheIInv'
<1> USE DEF CacheIInv, CacheTypeOK, CacheLockInv, CacheReaderInv, LookInv,
            StableWhileRead, InCall, Inserting, Operations
<1>1. CASE TakesEntryLock(p)
  BY <1>1
  DEF TakesEntryLock, CacheGoes, EntryFree, ref, request
<1>2. CASE Look(p)
  BY <1>2
  DEF Look, Inserts, CacheGoes, locks, ref, request
<1>3. CASE TakesWriteLock(p)
  BY <1>3
  DEF TakesWriteLock, NobodyReads, CacheGoes, ref,
      request
<1>4. CASE InsertFails(p)
  BY <1>4 DEF InsertFails, CacheGoes, locks, ref
<1>5. CASE Removes(p)
  BY <1>5 DEF Removes, CacheGoes, locks, ref, request
<1>6. CASE Moves(p)
  BY <1>6 DEF Moves, CacheGoes, locks, ref, request
<1>7. CASE Written(p)
  BY <1>7 DEF Written, CacheGoes, ref, request
<1>8. CASE TakesReadLock(p)
  BY <1>8 DEF TakesReadLock, CacheGoes, request
<1>9. CASE Leaves(p)
  BY <1>9 DEF Leaves, Forgets, CacheGoes, ref
<1> QED
  BY <1>1, <1>2, <1>3, <1>4, <1>5, <1>6, <1>7, <1>8, <1>9 DEF Step

(* No step of the cache breaks the invariant. *)
LEMMA CacheStepInv == CacheIInv /\ [CacheNext]_cacheVars => CacheIInv'
<1> SUFFICES ASSUME CacheIInv, [CacheNext]_cacheVars PROVE CacheIInv'
  OBVIOUS
<1>1. CASE UNCHANGED cacheVars
  BY <1>1
  DEF cacheVars, locks, ref, request, CacheIInv, CacheTypeOK,
      CacheLockInv, CacheReaderInv, LookInv, StableWhileRead
<1> QED
  BY <1>1, CacheAcquireInv, CacheBetweenCallsInv, CacheCallInv DEF CacheNext

(* CacheIInv is an invariant of the cache. *)
LEMMA CacheInvariance == CacheSpec => []CacheIInv
  BY CacheInitInv, CacheStepInv, PTL DEF CacheSpec

(* A reader's entry is there and stays, whatever the others do.             *)
THEOREM EntryStable == CacheSpec => []StableWhileRead
  BY CacheInvariance, PTL DEF CacheIInv

(* SetDefault never takes the place of an entry. *)
THEOREM DefaultsAreDefaults == CacheSpec => DefaultsYield
<1> DEFINE Yields ==
      entry # 0 /\ entry' # entry =>
        \E p \in Processes : pc[p] = "insert" /\ op[p] \in {"Assign", "Remove"}
<1>1. CacheIInv /\ [CacheNext]_cacheVars => [Yields]_cacheVars
  <2> SUFFICES ASSUME CacheIInv, CacheNext, entry # 0, entry' # entry
               PROVE  Yields
    BY DEF cacheVars
  <2>1. PICK p \in Processes : Removes(p) \/ Moves(p)
    BY DEF CacheNext, Step, Acquire, Release, Unlock,
           Call, ProcessDies, TakesEntryLock, Look,
           TakesWriteLock, InsertFails, Written,
           TakesReadLock, Leaves
  <2>2. pc[p] = "insert" /\ op[p] \in {"Assign", "Remove"}
    BY <2>1 DEF Removes, Moves, CacheGoes, CacheIInv, LookInv,
                CacheTypeOK, Operations
  <2> QED
    BY <2>2
<1> QED
  BY CacheInvariance, <1>1, PTL DEF CacheSpec, DefaultsYield
=============================================================================
