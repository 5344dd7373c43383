------------------------- MODULE EmergeQueueProofs -------------------------
(***************************************************************************)
(* Proofs about EmergeQueue, for any number of packages and jobs and any   *)
(* graph: the queue never takes itself for deadlocked, retries one package *)
(* at a time, and implements EmergeOrder.                                  *)
(***************************************************************************)
EXTENDS EmergeQueue, FiniteSetTheorems, SequenceTheorems,
        WellFoundedInduction, TLAPS

-----------------------------------------------------------------------------
(* Graphs.  Without a cycle every set of packages has one that needs none   *)
(* of the others.                                                           *)

(* To be reached is transitive. *)
LEMMA ReachesTrans ==
  ASSUME NEW edges, NEW a \in Packages, NEW b \in Packages, NEW c \in Packages,
         Reaches(a, b, edges), Reaches(b, c, edges)
  PROVE  Reaches(a, c, edges)
  BY DEF Reaches

(* An edge leads from one end to the other. *)
LEMMA ReachesStep ==
  ASSUME NEW edges, NEW a \in Packages, NEW b \in Packages, <<a, b>> \in edges
  PROVE  Reaches(a, b, edges)
  BY DEF Reaches, Closed

(* Every package reaches itself. *)
LEMMA ReachesSelf == \A edges : \A a \in Packages : Reaches(a, a, edges)
  BY DEF Reaches

(* What is reached is itself closed. *)
LEMMA ReachedClosed ==
  ASSUME NEW edges \in SUBSET (Packages \X Packages), NEW a \in Packages
  PROVE  Closed({b \in Packages : Reaches(a, b, edges)}, edges)
<1> SUFFICES ASSUME NEW e \in edges, Reaches(a, e[1], edges)
             PROVE  e[2] \in Packages /\ Reaches(a, e[2], edges)
  BY DEF Closed
<1>1. e[1] \in Packages /\ e[2] \in Packages /\ e = <<e[1], e[2]>>
  OBVIOUS
<1>2. Reaches(e[1], e[2], edges)
  BY <1>1, ReachesStep
<1> QED
  BY <1>1, <1>2, ReachesTrans

(* An edge back to where it came from lies on a cycle of such edges. *)
LEMMA CycleFound ==
  ASSUME NEW edges \in SUBSET (Packages \X Packages),
         NEW e \in edges, Reaches(e[2], e[1], edges)
  PROVE  LET round == {f \in edges : Reaches(f[2], f[1], edges)}
         IN Reaches(e[2], e[1], round)
<1> DEFINE round == {f \in edges : Reaches(f[2], f[1], edges)}
           from == e[2]
           to == e[1]
<1>1. from \in Packages /\ to \in Packages /\ Reaches(to, from, edges)
  <2>1. e = <<e[1], e[2]>> /\ e[1] \in Packages /\ e[2] \in Packages
    OBVIOUS
  <2> QED
    BY <2>1, ReachesStep
<1> SUFFICES ASSUME NEW set \in SUBSET Packages, from \in set, Closed(set, round)
             PROVE  to \in set
  BY DEF Reaches
<1> DEFINE way == {x \in Packages : /\ Reaches(from, x, edges)
                                    /\ x \in set \/ ~Reaches(x, to, edges)}
<1>2. from \in way
  BY <1>1, ReachesSelf
<1>3. Closed(way, edges)
  <2> SUFFICES ASSUME NEW f \in edges, f[1] \in way PROVE f[2] \in way
    BY DEF Closed
  <2>1. f = <<f[1], f[2]>> /\ f[1] \in Packages /\ f[2] \in Packages
    OBVIOUS
  <2>2. Reaches(f[1], f[2], edges)
    BY <2>1, ReachesStep
  <2>3. Reaches(from, f[2], edges)
    BY <1>1, <2>1, <2>2, ReachesTrans
  <2>4. ASSUME Reaches(f[2], to, edges) PROVE f[2] \in set
    <3>1. Reaches(f[1], to, edges)
      BY <1>1, <2>1, <2>2, <2>4, ReachesTrans
    <3>2. f[1] \in set
      BY <3>1
    <3>3. Reaches(f[2], from, edges)
      BY <1>1, <2>1, <2>4, ReachesTrans
    <3>4. Reaches(f[2], f[1], edges)
      BY <1>1, <2>1, <3>3, ReachesTrans
    <3>5. f \in round
      BY <3>4
    <3> QED
      BY <3>2, <3>5 DEF Closed
  <2> QED
    BY <2>1, <2>3, <2>4
<1>4. to \in way
  <2> HIDE DEF way, from, to
  <2>1. way \in SUBSET Packages
    BY DEF way
  <2>2. Reaches(from, to, edges)
    BY DEF from, to
  <2> QED
    BY <1>2, <1>3, <2>1, <2>2 DEF Reaches
<1> QED
  BY <1>1, <1>4, ReachesSelf

(* p needs none of S. *)
Free(p, S) == \A q \in S : p \notin provides[q]
Ordered == \A S \in SUBSET Packages : S # {} => \E p \in S : Free(p, S)

(* Once SanitizeTree finds no more cycles, any packages have a free one. *)
LEMMA NoCyclesOrdered ==
  ASSUME CycleSets = {}, needs \in [Packages -> SUBSET Packages],
         \A p, q \in Packages : q \in needs[p] <=> p \in provides[q]
  PROVE  Ordered
<1> SUFFICES ASSUME NEW S \in SUBSET Packages, S # {},
                    \A p \in S : \E q \in S : p \in provides[q]
             PROVE  FALSE
  BY DEF Ordered, Free
<1> DEFINE reach(p) == {q \in Packages : Reaches(p, q, Edges)}
           sets == {reach(p) : p \in S}
<1>0. Edges \in SUBSET (Packages \X Packages)
  BY DEF Edges
<1>1. IsFiniteSet(Packages)
  BY FS_Interval, EmergeAssumption DEF Packages
<1>2. PICK p \in S : \A q \in S : ~(reach(q) \subseteq reach(p) /\ reach(q) # reach(p))
  <2> HIDE DEF reach
  <2>1. IsWellFoundedOn(StrictSubsetOrdering(Packages), SUBSET Packages)
    BY <1>1, FS_StrictSubsetOrderingWellFounded, FS_FiniteSubsetsOfFinite
  <2>2. sets # {} /\ sets \subseteq SUBSET Packages
    BY DEF reach
  <2>3. PICK m \in sets : \A r \in sets : ~(<<r, m>> \in StrictSubsetOrdering(Packages))
    <3> HIDE DEF sets
    <3> QED
      BY <2>1, <2>2, WFMin
  <2>4. PICK p \in S : m = reach(p)
    OBVIOUS
  <2>5. ASSUME NEW q \in S
        PROVE  ~(reach(q) \subseteq reach(p) /\ reach(q) # reach(p))
    <3>1. reach(q) \in sets /\ reach(p) \in sets
      OBVIOUS
    <3>2. ~(<<reach(q), reach(p)>> \in StrictSubsetOrdering(Packages))
      BY <2>3, <2>4, <3>1
    <3> QED
      BY <2>2, <3>1, <3>2 DEF StrictSubsetOrdering
  <2> QED
    BY <2>4, <2>5
<1>3. PICK q \in S : p \in provides[q]
  OBVIOUS
<1>4. <<p, q>> \in Edges /\ p \in Packages /\ q \in Packages
  BY <1>3 DEF Edges
<1>5. Reaches(p, q, Edges)
  BY <1>4, ReachesStep
<1>6. reach(q) \subseteq reach(p)
  BY <1>4, <1>5, ReachesTrans
<1>7. p \in reach(q)
  <2>1. p \in reach(p)
    BY <1>4, ReachesSelf
  <2> QED
    BY <1>2, <1>6, <2>1
<1>8. Reaches(q, p, Edges)
  BY <1>7
<1> DEFINE e == <<p, q>>
           round == {f \in Edges : Reaches(f[2], f[1], Edges)}
<1>9. e \in round /\ round \in SUBSET Edges
  BY <1>4, <1>8
<1>10. ASSUME NEW f \in round PROVE Reaches(f[2], f[1], round)
  BY <1>0, <1>10, CycleFound
<1>11. round \in CycleSets
  BY <1>9, <1>10 DEF CycleSets
<1> QED
  BY <1>11

-----------------------------------------------------------------------------
(* The queue of retries                                                    *)

NoDuplicates(q) == \A i, j \in DOMAIN q : q[i] = q[j] => i = j
In(q) == {q[i] : i \in DOMAIN q}

(* A package queued for its retry is there once. *)
LEMMA OneQueued ==
  ASSUME NEW q \in Seq(Packages), NoDuplicates(q), NEW p \in Packages \ In(q)
  PROVE  /\ Append(q, p) \in Seq(Packages) /\ NoDuplicates(Append(q, p))
         /\ In(Append(q, p)) = In(q) \cup {p}
<1>1. /\ Len(q) \in Nat /\ DOMAIN q = 1 .. Len(q)
      /\ DOMAIN Append(q, p) = 1 .. Len(q) + 1
      /\ \A i \in 1 .. Len(q) : Append(q, p)[i] = q[i]
      /\ Append(q, p)[Len(q) + 1] = p
      /\ Append(q, p) \in Seq(Packages)
  BY LenProperties, AppendProperties
<1>2. \A i \in 1 .. Len(q) + 1 : i \in 1 .. Len(q) \/ i = Len(q) + 1
  BY <1>1
<1>3. NoDuplicates(Append(q, p))
  BY <1>1, <1>2 DEF NoDuplicates, In
<1>4. In(Append(q, p)) = In(q) \cup {p}
  BY <1>1, <1>2 DEF In
<1> QED
  BY <1>1, <1>3, <1>4

(* A package taken off the queue is on it no more. *)
LEMMA OneTakenOff ==
  ASSUME NEW q \in Seq(Packages), NoDuplicates(q), q # << >>
  PROVE  /\ Head(q) \in Packages /\ Tail(q) \in Seq(Packages)
         /\ NoDuplicates(Tail(q))
         /\ Head(q) \notin In(Tail(q)) /\ In(q) = In(Tail(q)) \cup {Head(q)}
<1>1. Len(q) \in Nat /\ Len(q) # 0
  BY LenProperties, EmptySeq
<1>2. /\ DOMAIN q = 1 .. Len(q) /\ Head(q) = q[1] /\ Head(q) \in Packages
      /\ Tail(q) \in Seq(Packages) /\ Len(Tail(q)) = Len(q) - 1
      /\ \A i \in 1 .. Len(q) - 1 : Tail(q)[i] = q[i + 1]
  BY LenProperties, HeadTailProperties
<1>3. DOMAIN Tail(q) = 1 .. Len(q) - 1
  BY <1>2, LenProperties
<1>4. /\ \A i \in 1 .. Len(q) - 1 : i + 1 \in 1 .. Len(q) /\ i + 1 # 1
      /\ \A i \in 1 .. Len(q) : i = 1 \/ i - 1 \in 1 .. Len(q) - 1
      /\ \A i \in 1 .. Len(q) : (i - 1) + 1 = i
      /\ \A i, j \in 1 .. Len(q) - 1 : i + 1 = j + 1 => i = j
      /\ 1 \in 1 .. Len(q)
  BY <1>1
<1>5. NoDuplicates(Tail(q))
  BY <1>2, <1>3, <1>4 DEF NoDuplicates
<1>6. Head(q) \notin In(Tail(q))
  BY <1>2, <1>3, <1>4 DEF NoDuplicates, In
<1>7. In(q) = In(Tail(q)) \cup {Head(q)}
  <2>1. \A i \in 1 .. Len(q) : q[i] \in In(Tail(q)) \cup {Head(q)}
    <3> SUFFICES ASSUME NEW i \in 1 .. Len(q), i # 1 PROVE q[i] \in In(Tail(q))
      BY <1>2
    <3>1. i - 1 \in DOMAIN Tail(q) /\ Tail(q)[i - 1] = q[i]
      BY <1>2, <1>3, <1>4
    <3> QED
      BY <3>1 DEF In
  <2> QED
    BY <1>2, <1>3, <1>4, <2>1 DEF In
<1> QED
  BY <1>2, <1>5, <1>6, <1>7

-----------------------------------------------------------------------------
(* The inductive invariant                                                 *)

(* needs and provides are the two ends of the same edges, until what is     *)
(* needed is merged; cycles are gone before anything starts.                *)
GraphInv ==
  /\ \A p, q \in Packages : q \in needs[p] <=> p \in provides[q] /\ q \in left
  /\ pc # "sanitize" => Ordered
  /\ pc = "sanitize" => /\ left = Packages /\ fetchReady = Packages
                        /\ failed = {} /\ reports = {} /\ unpackJobs = {}

(* A package is at one place on its way through the fetchers, and nothing   *)
(* is reported twice.                                                       *)
FetchInv ==
  /\ Packages = fetchReady \cup fetchJobs \cup prefetched
  /\ fetchReady \cap fetchJobs = {}
  /\ (fetchReady \cup fetchJobs) \cap prefetched = {}
  /\ \A r \in reports : /\ r.kind = "fetch" => r.target \in fetchJobs
                        /\ r.kind = "build" => r.target \in buildJobs
  /\ \A r, s \in reports : r.kind = s.kind /\ r.target = s.target => r = s

(* No package that needs nothing more is forgotten, and no other is built.  *)
Underway == buildReady \cup buildJobs \cup failed

BuildInv ==
  /\ \A p \in Packages \ left : p \in prefetched /\ needs[p] = {}
  /\ \A p \in Underway : p \in left /\ p \in prefetched /\ needs[p] = {}
  /\ \A p \in left \cap prefetched : needs[p] = {} => p \in Underway
  /\ buildReady \cap (buildJobs \cup failed) = {}

RetryInv ==
  /\ NoDuplicates(retryQueue)
  /\ In(retryQueue) \subseteq failed \ buildJobs
  /\ \A p, q \in buildJobs \cap failed : p = q

IInv == /\ TypeOK /\ GraphInv /\ FetchInv /\ BuildInv /\ RetryInv
        /\ NoDeadlockDeclared

(* The number of workers is a number. *)
LEMMA ProcsType == ASSUME TypeOK PROVE Procs \in Nat
<1> DEFINE merging == {p \in Packages : action[p] = "merge"}
<1>1. IsFiniteSet(merging)
  <2>1. IsFiniteSet(Packages)
    BY FS_Interval, EmergeAssumption DEF Packages
  <2>2. merging \subseteq Packages
    OBVIOUS
  <2> QED
    BY <2>1, <2>2, FS_Subset
<1>2. Cardinality(merging) \in Nat
  BY <1>1, FS_CardinalityType
<1> QED
  BY <1>2, EmergeAssumption DEF Procs, Least

(* The invariant holds of the graph that EmergeQueue is given. *)
LEMMA InitInv == Init => IInv
<1> SUFFICES ASSUME Init PROVE IInv
  OBVIOUS
<1>1. TypeOK
  <2>1. provides \in [Packages -> SUBSET Packages]
    BY DEF Init
  <2>2. retryQueue \in Seq(Packages)
    BY EmptySeq DEF Init
  <2> QED
    BY <2>1, <2>2 DEF Init, TypeOK
<1>2. GraphInv /\ FetchInv
  BY DEF Init, GraphInv, FetchInv
<1>3. BuildInv
  BY DEF Init, BuildInv, Underway
<1>4. RetryInv
  BY EmptySeq DEF Init, RetryInv, NoDuplicates, In
<1> QED
  BY <1>1, <1>2, <1>3, <1>4 DEF IInv, NoDeadlockDeclared, Init

(* What Finish does to the graph. *)
LEMMA Finished ==
  ASSUME IInv, NEW p \in Underway, Finish(p), pc # "sanitize", pc' # "sanitize"
  PROVE  /\ needs' \in [Packages -> SUBSET Packages]
         /\ \A d \in Packages : needs'[d] = needs[d] \ {p}
         /\ GraphInv'
         /\ Unblocked(p) = {d \in prefetched : p \in needs[d] /\ needs'[d] = {}}
<1> USE DEF IInv
<1>1. p \in Packages /\ p \in left
  BY DEF BuildInv, TypeOK
<1>2. /\ needs' \in [Packages -> SUBSET Packages]
      /\ \A d \in Packages : needs'[d] = IF d \in provides[p] THEN needs[d] \ {p}
                                         ELSE needs[d]
  BY DEF Finish, TypeOK
<1>3. \A d \in Packages : p \in needs[d] <=> d \in provides[p]
  BY <1>1 DEF GraphInv
<1>4. \A d \in Packages : needs'[d] = needs[d] \ {p}
  BY <1>2, <1>3
<1>5. GraphInv'
  <2>1. Ordered'
    BY DEF GraphInv, Finish, Ordered, Free
  <2> QED
    BY <1>4, <2>1 DEF GraphInv, Finish
<1>6. Unblocked(p) = {d \in prefetched : p \in needs[d] /\ needs'[d] = {}}
  <2>1. prefetched \subseteq Packages /\ provides[p] \subseteq Packages
    BY <1>1 DEF TypeOK
  <2> QED
    BY <1>3, <1>4, <2>1 DEF Unblocked
<1> QED
  BY <1>2, <1>4, <1>5, <1>6

(* When p is done and its successors may be built, all is accounted for.   *)
LEMMA Accounted ==
  ASSUME IInv, NEW p \in Underway, Finish(p), pc # "sanitize", pc' # "sanitize",
         UNCHANGED prefetched,
         Underway' = (Underway \ {p}) \cup Unblocked(p),
         (buildReady \cap (buildJobs \cup failed) = {})'
  PROVE  BuildInv'
<1> USE DEF IInv
<1>1. /\ \A d \in Packages : needs'[d] = needs[d] \ {p}
      /\ Unblocked(p) = {d \in prefetched : p \in needs[d] /\ needs'[d] = {}}
      /\ left' = left \ {p}
  BY Finished DEF Finish
<1>2. p \in left /\ p \in prefetched /\ needs[p] = {}
  BY DEF BuildInv
<1>3. prefetched \subseteq Packages /\ left \subseteq Packages
      /\ Underway \subseteq Packages
  BY DEF TypeOK, Underway
<1>4. ASSUME NEW q \in Packages \ left'
      PROVE  q \in prefetched' /\ needs'[q] = {}
  BY <1>1, <1>2, <1>4 DEF BuildInv
<1>5. ASSUME NEW q \in Underway'
      PROVE  q \in left' /\ q \in prefetched' /\ needs'[q] = {}
  <2>1. CASE q \in Underway \ {p}
    BY <1>1, <1>3, <2>1 DEF BuildInv
  <2>2. CASE q \in Unblocked(p)
    BY <1>1, <1>2, <1>3, <2>2 DEF BuildInv
  <2> QED
    BY <1>5, <2>1, <2>2
<1>6. ASSUME NEW q \in left' \cap prefetched', needs'[q] = {}
      PROVE  q \in Underway'
  BY <1>1, <1>3, <1>6 DEF BuildInv
<1> QED
  BY <1>4, <1>5, <1>6 DEF BuildInv

-----------------------------------------------------------------------------
(* The steps                                                               *)

(* A worker that reports keeps the invariant. *)
LEMMA WorkerStepInv ==
  ASSUME IInv, NEW p \in Packages, WorkerStep(p)
  PROVE  IInv'
<1> USE DEF IInv, graphVars, fetchVars, buildVars, unpackVars, modeVars
<1>1. PICK ok \in BOOLEAN, k \in {"fetch", "build", "unpack"} :
        /\ k = "fetch" => p \in fetchJobs
        /\ k = "build" => p \in buildJobs
        /\ \A r \in reports : ~(r.kind = k /\ r.target = p)
        /\ reports' = reports \cup {[kind |-> k, target |-> p, ok |-> ok]}
        /\ k = "unpack" => p \in unpackJobs
        /\ UNCHANGED <<graphVars, fetchVars, buildVars, unpackVars, modeVars,
                       needed, polling, pc>>
  BY DEF WorkerStep, WorkerReports
<1>2. TypeOK'
  BY <1>1 DEF TypeOK
<1>3. GraphInv'
  <2>1. pc # "sanitize"
    BY <1>1 DEF GraphInv, FetchInv, BuildInv, Underway, TypeOK
  <2> QED
    BY <1>1, <2>1 DEF GraphInv, Ordered, Free
<1>4. FetchInv'
  BY <1>1 DEF FetchInv
<1>5. BuildInv' /\ RetryInv' /\ NoDeadlockDeclared'
  BY <1>1 DEF BuildInv, Underway, RetryInv, NoDuplicates, In, NoDeadlockDeclared
<1> QED
  BY <1>2, <1>3, <1>4, <1>5

(* Breaking cycles and starting the fetchers keep the invariant. *)
LEMMA StartInv ==
  ASSUME IInv, BreakCycles \/ StartFetchers
  PROVE  IInv'
<1> USE DEF IInv, graphVars, fetchVars, buildVars, unpackVars, modeVars
<1>1. CASE BreakCycles
  <2>1. PICK edges \in CycleSets :
          /\ needs' = [p \in Packages |->
                         {d \in needs[p] : <<p, d>> \notin Against(edges)}]
          /\ provides' = [p \in Packages |->
                            {d \in provides[p] : <<d, p>> \notin Against(edges)}]
    BY <1>1 DEF BreakCycles
  <2>2. TypeOK'
    BY <1>1, <2>1 DEF BreakCycles, TypeOK
  <2>3. GraphInv'
    BY <1>1, <2>1 DEF BreakCycles, GraphInv, TypeOK
  <2>4. FetchInv' /\ RetryInv' /\ NoDeadlockDeclared'
    BY <1>1 DEF BreakCycles, FetchInv, RetryInv, NoDuplicates, In,
                NoDeadlockDeclared
  <2>5. Underway = {} /\ prefetched = {} /\ left = Packages
    BY <1>1 DEF BreakCycles, GraphInv, FetchInv, BuildInv, TypeOK
  <2>6. BuildInv'
    BY <1>1, <2>5 DEF BreakCycles, BuildInv, Underway
  <2> QED
    BY <2>2, <2>3, <2>4, <2>6
<1>2. CASE StartFetchers
  <2>1. PICK first \in SUBSET fetchReady :
          fetchJobs' = first /\ fetchReady' = fetchReady \ first
    BY <1>2 DEF StartFetchers
  <2>2. TypeOK'
    BY <1>2, <2>1 DEF StartFetchers, TypeOK
  <2>3. GraphInv'
    <3>1. Ordered
      BY <1>2, NoCyclesOrdered DEF StartFetchers, GraphInv, TypeOK
    <3> QED
      BY <1>2, <3>1 DEF StartFetchers, GraphInv, Ordered, Free
  <2>4. FetchInv'
    BY <1>2, <2>1 DEF StartFetchers, GraphInv, FetchInv
  <2>5. BuildInv' /\ RetryInv' /\ NoDeadlockDeclared'
    BY <1>2 DEF StartFetchers, BuildInv, Underway, RetryInv, NoDuplicates, In,
                NoDeadlockDeclared
  <2> QED
    BY <2>2, <2>3, <2>4, <2>5
<1> QED
  BY <1>1, <1>2

(* A graph that nobody changes, once its cycles are broken. *)
LEMMA GraphKept ==
  ASSUME IInv, UNCHANGED graphVars, pc # "sanitize", pc' # "sanitize"
  PROVE  GraphInv'
  BY DEF IInv, graphVars, GraphInv, Ordered, Free

(* When there is nothing to wait for, what is left failed or needs more. *)
LEMMA NothingElse ==
  ASSUME IInv, Idle
  PROVE  \A p \in left \ failed : needs[p] # {}
  BY DEF IInv, Idle, FetchInv, BuildInv, Underway, TypeOK

(* When there is nothing to retry either, some package has failed. *)
LEMMA NeverDeadlocked ==
  ASSUME IInv, pc # "sanitize", left # {}, Idle, retryQueue = << >>
  PROVE  /\ failed # {}
         /\ \A p \in left \ failed : needs[p] # {}
<1> USE DEF IInv
<1>1. \A p \in left \ failed : needs[p] # {}
  BY NothingElse
<1>2. SUFFICES ASSUME failed = {} PROVE FALSE
  BY <1>1
<1>3. PICK p \in left : Free(p, left)
  BY DEF GraphInv, Ordered, TypeOK
<1>4. \A q \in Packages : q \notin needs[p]
  BY <1>3 DEF GraphInv, Free, TypeOK
<1>5. needs[p] = {}
  BY <1>3, <1>4 DEF TypeOK
<1> QED
  BY <1>1, <1>2, <1>5

(* What Run checks before it waits for a report keeps the invariant: here *)
(* it would declare a deadlock. *)
LEMMA CheckInv ==
  ASSUME IInv, CheckDone \/ CheckBusy \/ CheckRetries \/ CheckGivesUp \/ WaitTimesOut
  PROVE  IInv'
<1> USE DEF IInv, fetchVars, buildVars, unpackVars, modeVars
<1>1. CASE CheckDone \/ CheckBusy \/ CheckGivesUp \/ WaitTimesOut
  <2>1. /\ pc # "sanitize" /\ pc' # "sanitize"
        /\ UNCHANGED <<graphVars, fetchVars, buildVars, unpackVars, modeVars,
                       reports>>
        /\ pc' \in {"done", "wait", "failed", "deadlock", "schedule"}
        /\ UNCHANGED <<needed, polling>> \/ (needed' \in {1, Procs} /\ polling' = TRUE)
    BY <1>1 DEF CheckDone, CheckBusy, CheckGivesUp, WaitTimesOut, BeginSchedule
  <2>2. TypeOK'
    <3>1. Procs \in Nat
      BY ProcsType
    <3>2. needed' \in Nat
      BY <2>1, <3>1 DEF TypeOK
    <3>3. polling' \in BOOLEAN
      BY <2>1 DEF TypeOK
    <3> QED
      BY <2>1, <3>2, <3>3 DEF TypeOK, graphVars
  <2>3. FetchInv' /\ BuildInv' /\ RetryInv'
    BY <2>1 DEF FetchInv, BuildInv, Underway, RetryInv, NoDuplicates, In, graphVars
  <2>4. NoDeadlockDeclared'
    BY <1>1, NeverDeadlocked DEF CheckDone, CheckBusy, CheckGivesUp, WaitTimesOut,
         BeginSchedule, NoDeadlockDeclared
  <2> QED
    BY <2>1, <2>2, <2>3, <2>4, GraphKept
<1>2. CASE CheckRetries
  <2> DEFINE h == Head(retryQueue)
  <2>1. /\ h \in Packages /\ retryQueue' \in Seq(Packages)
        /\ NoDuplicates(retryQueue') /\ h \notin In(retryQueue')
        /\ In(retryQueue) = In(retryQueue') \cup {h}
    BY <1>2, OneTakenOff DEF CheckRetries, Retry, TypeOK, RetryInv
  <2> HIDE DEF h
  <2>2. /\ buildJobs' = {h} /\ buildJobs = {} /\ h \in failed
        /\ pc = "check" /\ pc' = "wait" /\ buildReady = {}
        /\ UNCHANGED <<graphVars, fetchVars, buildReady, failed, unpackVars,
                       modeVars, reports, needed, polling>>
    BY <1>2, <2>1 DEF CheckRetries, Retry, Idle, RetryInv, h
  <2>3. TypeOK'
    BY <2>1, <2>2 DEF TypeOK, graphVars
  <2>4. FetchInv'
    BY <2>2 DEF FetchInv
  <2>5. BuildInv'
    BY <2>2 DEF BuildInv, Underway, graphVars
  <2>6. RetryInv'
    BY <2>1, <2>2 DEF RetryInv
  <2> QED
    BY <2>2, <2>3, <2>4, <2>5, <2>6, GraphKept DEF NoDeadlockDeclared
<1> QED
  BY <1>1, <1>2

(* The end of a fetch, or of an unpacking, keeps the invariant. *)
LEMMA FetchStepInv ==
  ASSUME IInv, NEW r \in reports, HandleFetch(r) \/ HandleUnpack(r)
  PROVE  IInv'
<1> USE DEF IInv, fetchVars, buildVars, unpackVars, modeVars
<1> DEFINE t == r.target
<1>0. /\ t \in Packages /\ pc = "wait" /\ r.kind \in {"fetch", "build", "unpack"}
  BY DEF HandleFetch, HandleUnpack, TypeOK
<1>1. CASE HandleFetch(r)
  <2>1. PICK next \in SUBSET fetchReady :
          /\ fetchReady' = fetchReady \ next
          /\ fetchJobs' = (fetchJobs \ {t}) \cup next
    BY <1>1 DEF HandleFetch, SomeOf
  <2>2. /\ reports' = reports \ {r} /\ r.kind = "fetch" /\ t \in fetchJobs
        /\ prefetched' = prefetched \cup {t}
        /\ buildReady' = IF needs[t] = {} THEN buildReady \cup {t} ELSE buildReady
        /\ pc' \in {"schedule", "check"}
        /\ UNCHANGED <<graphVars, buildJobs, retryQueue, failed, modeVars>>
    BY <1>1 DEF HandleFetch, BeginSchedule, FetchInv
  <2>3. /\ unpackJobs' \subseteq Packages /\ unpackReady' \subseteq Packages
        /\ needed' \in Nat /\ polling' \in BOOLEAN
    <3>1. needed' \in Nat /\ polling' \in BOOLEAN
      <4>1. Procs \in Nat
        BY ProcsType
      <4>2. \/ needed' \in {1, Procs} /\ polling' = FALSE
            \/ UNCHANGED <<needed, polling>>
        BY <1>1 DEF HandleFetch, BeginSchedule
      <4>3. needed' \in Nat
        BY <4>1, <4>2 DEF TypeOK
      <4>4. polling' \in BOOLEAN
        BY <4>2 DEF TypeOK
      <4> QED
        BY <4>3, <4>4
    <3>2. unpackJobs' \subseteq Packages /\ unpackReady' \subseteq Packages
      BY <1>0, <1>1 DEF HandleFetch, SomeOf, TypeOK
    <3> QED
      BY <3>1, <3>2
  <2>4. TypeOK'
    BY <1>0, <2>1, <2>2, <2>3 DEF TypeOK, graphVars
  <2>5. FetchInv'
    BY <2>1, <2>2 DEF FetchInv
  <2>6. t \notin prefetched /\ t \notin Underway /\ t \in left
    BY <1>0, <2>2 DEF FetchInv, BuildInv
  <2>7. BuildInv'
    BY <2>2, <2>6 DEF BuildInv, Underway, graphVars
  <2>8. RetryInv'
    BY <2>2 DEF RetryInv
  <2> QED
    BY <1>0, <2>2, <2>4, <2>5, <2>7, <2>8, GraphKept DEF NoDeadlockDeclared
<1>2. CASE HandleUnpack(r)
  <2>1. /\ unpackJobs' \subseteq Packages /\ unpackReady' \subseteq Packages
        /\ reports' = reports \ {r} /\ pc' = "check"
        /\ UNCHANGED <<graphVars, fetchVars, buildVars, modeVars, needed, polling>>
    BY <1>2 DEF HandleUnpack, SomeOf, TypeOK
  <2>2. TypeOK'
    BY <2>1 DEF TypeOK, graphVars
  <2>3. FetchInv' /\ BuildInv' /\ RetryInv'
    BY <2>1 DEF FetchInv, BuildInv, Underway, RetryInv, NoDuplicates, In, graphVars
  <2> QED
    BY <1>0, <2>1, <2>2, <2>3, GraphKept DEF NoDeadlockDeclared
<1> QED
  BY <1>1, <1>2

(* A package that fails, for the first time or the second, keeps the *)
(* invariant. *)
LEMMA FailureInv ==
  ASSUME IInv, NEW r \in reports, HandleFailure(r)
  PROVE  IInv'
<1> USE DEF IInv, fetchVars, buildVars, unpackVars, modeVars
<1> DEFINE t == r.target
<1>1. /\ t \in Packages /\ t \in buildJobs /\ pc = "wait" /\ pc' = "schedule"
      /\ r.kind = "build"
      /\ reports' = reports \ {r} /\ buildJobs' = buildJobs \ {t}
      /\ retryQueue' = IF t \in failed THEN retryQueue ELSE Append(retryQueue, t)
      /\ failed' = failed \cup {t}
      /\ needed' \in {1, Procs} /\ polling' = FALSE
      /\ UNCHANGED <<graphVars, fetchVars, buildReady, unpackVars, modeVars>>
  BY DEF HandleFailure, BeginSchedule, FetchInv, TypeOK
<1> HIDE DEF t
<1>2. /\ retryQueue' \in Seq(Packages) /\ NoDuplicates(retryQueue')
      /\ In(retryQueue') \subseteq In(retryQueue) \cup {t}
  <2>1. CASE t \in failed
    BY <1>1, <2>1 DEF RetryInv, TypeOK
  <2>2. CASE t \notin failed
    <3>1. t \notin In(retryQueue)
      BY <2>2 DEF RetryInv
    <3> QED
      BY <1>1, <2>2, <3>1, OneQueued DEF RetryInv, TypeOK
  <2> QED
    BY <2>1, <2>2
<1>3. TypeOK'
  <2>1. needed' \in Nat /\ polling' \in BOOLEAN
    <3>1. needed' \in {1, Procs} /\ polling' = FALSE
      BY <1>1
    <3>2. Procs \in Nat
      BY ProcsType
    <3>3. needed' \in Nat
      BY <3>1, <3>2
    <3> QED
      BY <3>1, <3>3
  <2> QED
    BY <1>1, <1>2, <2>1 DEF TypeOK, graphVars
<1>4. FetchInv'
  BY <1>1 DEF FetchInv, TypeOK, t
<1>5. BuildInv'
  BY <1>1 DEF BuildInv, Underway, graphVars
<1>6. RetryInv'
  BY <1>1, <1>2 DEF RetryInv
<1> QED
  BY <1>1, <1>3, <1>4, <1>5, <1>6, GraphKept DEF NoDeadlockDeclared

(* A package that is merged, and unblocks others, keeps the invariant. *)
LEMMA SuccessInv ==
  ASSUME IInv, NEW r \in reports, HandleSuccess(r)
  PROVE  IInv'
<1> USE DEF IInv, fetchVars, buildVars, unpackVars, modeVars
<1> DEFINE t == r.target
           h == Head(retryQueue)
<1>1. /\ t \in Packages /\ t \in buildJobs /\ pc = "wait" /\ pc' = "schedule"
      /\ r.kind = "build"
      /\ reports' = reports \ {r} /\ failed' = failed \ {t}
      /\ Finish(t)
      /\ buildReady' = buildReady \cup Unblocked(t)
      /\ needed' \in {1, Procs} /\ polling' = FALSE
      /\ UNCHANGED <<fetchVars, unpackVars, modeVars>>
  BY DEF HandleSuccess, BeginSchedule, FetchInv, TypeOK
<1>2. \/ /\ t \in failed /\ retryQueue # << >>
         /\ buildJobs' = (buildJobs \ {t}) \cup {h}
         /\ retryQueue' = Tail(retryQueue)
      \/ buildJobs' = buildJobs \ {t} /\ UNCHANGED retryQueue
  BY DEF HandleSuccess, RetriesNext
<1>3. t \in Underway
  BY <1>1 DEF Underway
<1> HIDE DEF t, h
<1>4. /\ retryQueue' \in Seq(Packages) /\ NoDuplicates(retryQueue')
      /\ In(retryQueue') \subseteq In(retryQueue) \ buildJobs'
      /\ buildJobs' \subseteq (buildJobs \ {t}) \cup In(retryQueue)
      /\ buildJobs \ {t} \subseteq buildJobs'
      /\ \A p, q \in buildJobs' \cap failed' : p = q
  <2>1. CASE buildJobs' = buildJobs \ {t} /\ UNCHANGED retryQueue
    BY <1>1, <2>1 DEF RetryInv, TypeOK
  <2>2. CASE /\ t \in failed /\ retryQueue # << >>
             /\ buildJobs' = (buildJobs \ {t}) \cup {h}
             /\ retryQueue' = Tail(retryQueue)
    <3>1. /\ retryQueue' \in Seq(Packages) /\ NoDuplicates(retryQueue')
          /\ h \notin In(retryQueue') /\ In(retryQueue) = In(retryQueue') \cup {h}
      BY <2>2, OneTakenOff DEF RetryInv, TypeOK, h
    <3>2. buildJobs \cap failed \subseteq {t}
      BY <1>1, <2>2 DEF RetryInv
    <3>3. \A p \in buildJobs' \cap failed' : p = h
      BY <1>1, <2>2, <3>2
    <3> QED
      BY <2>2, <3>1, <3>3 DEF RetryInv
  <2> QED
    BY <1>2, <2>1, <2>2
<1>5. /\ needs' \in [Packages -> SUBSET Packages] /\ GraphInv'
      /\ Unblocked(t) = {d \in prefetched : t \in needs[d] /\ needs'[d] = {}}
  BY <1>1, <1>3, Finished
<1>6. \A d \in Unblocked(t) : d \notin Underway /\ d \in Packages
  BY <1>5 DEF BuildInv, TypeOK
<1>7. buildReady' \subseteq Packages /\ buildJobs' \subseteq Packages
  <2>1. In(retryQueue) \subseteq Packages
    BY DEF RetryInv, TypeOK
  <2> QED
    BY <1>1, <1>4, <1>6, <2>1 DEF TypeOK
<1>8. TypeOK'
  <2>1. needed' \in Nat /\ polling' \in BOOLEAN
    <3>1. needed' \in {1, Procs} /\ polling' = FALSE
      BY <1>1
    <3>2. Procs \in Nat
      BY ProcsType
    <3>3. needed' \in Nat
      BY <3>1, <3>2
    <3> QED
      BY <3>1, <3>3
  <2> QED
    BY <1>1, <1>4, <1>5, <1>7, <2>1 DEF TypeOK, Finish
<1>9. FetchInv'
  BY <1>1, <1>4 DEF FetchInv, TypeOK, t
<1>10. BuildInv'
  <2>1. t \notin buildReady /\ In(retryQueue) \subseteq failed \ {t}
    BY <1>1 DEF BuildInv, RetryInv
  <2>2. Underway' = (Underway \ {t}) \cup Unblocked(t)
    BY <1>1, <1>4, <2>1 DEF Underway
  <2>3. (buildReady \cap (buildJobs \cup failed) = {})'
    BY <1>1, <1>4, <1>6, <2>1 DEF BuildInv, Underway
  <2> QED
    BY <1>1, <1>3, <2>2, <2>3, Accounted
<1>11. RetryInv'
  BY <1>1, <1>4 DEF RetryInv
<1> QED
  BY <1>1, <1>5, <1>8, <1>9, <1>10, <1>11 DEF NoDeadlockDeclared

(* Handing packages to workers keeps the invariant. *)
LEMMA ScheduleInv ==
  ASSUME IInv,
         ScheduleEnds \/ \E p \in Packages : ScheduleNoMerge(p) \/ ScheduleBuild(p)
  PROVE  IInv'
<1> USE DEF IInv, fetchVars, buildVars, unpackVars, modeVars
<1>1. CASE ScheduleEnds
  <2>1. pc = "schedule" /\ pc' \in {"wait", "check"}
        /\ UNCHANGED <<graphVars, fetchVars, buildVars, unpackVars, modeVars,
                       reports, needed, polling>>
    BY <1>1 DEF ScheduleEnds
  <2>2. TypeOK'
    BY <2>1 DEF TypeOK, graphVars
  <2>3. FetchInv' /\ BuildInv' /\ RetryInv'
    BY <2>1 DEF FetchInv, BuildInv, Underway, RetryInv, NoDuplicates, In, graphVars
  <2> QED
    BY <2>1, <2>2, <2>3, GraphKept DEF NoDeadlockDeclared
<1>2. ASSUME NEW p \in Packages, ScheduleNoMerge(p) PROVE IInv'
  <2>1. /\ pc = "schedule" /\ p \in buildReady \ failed
        /\ Finish(p)
        /\ buildReady' = (buildReady \ {p}) \cup Unblocked(p)
        /\ UNCHANGED <<fetchVars, buildJobs, retryQueue, failed, unpackVars,
                       modeVars, reports, needed, polling, pc>>
    BY <1>2 DEF ScheduleNoMerge
  <2>2. p \in Underway
    BY <2>1 DEF Underway
  <2>3. /\ needs' \in [Packages -> SUBSET Packages] /\ GraphInv'
        /\ Unblocked(p) = {d \in prefetched : p \in needs[d] /\ needs'[d] = {}}
    BY <2>1, <2>2, Finished
  <2>4. \A d \in Unblocked(p) : d \notin Underway /\ d \in Packages
    BY <2>3 DEF BuildInv, TypeOK
  <2>5. TypeOK'
    BY <2>1, <2>3, <2>4 DEF TypeOK, Finish
  <2>6. BuildInv'
    <3>1. p \notin buildJobs
      BY <2>1 DEF BuildInv
    <3>2. Underway' = (Underway \ {p}) \cup Unblocked(p)
      BY <2>1, <3>1 DEF Underway
    <3>3. (buildReady \cap (buildJobs \cup failed) = {})'
      BY <2>1, <2>4 DEF BuildInv, Underway
    <3> QED
      BY <2>1, <2>2, <3>2, <3>3, Accounted
  <2>7. FetchInv' /\ RetryInv'
    BY <2>1 DEF FetchInv, RetryInv, NoDuplicates, In
  <2> QED
    BY <2>1, <2>3, <2>5, <2>6, <2>7 DEF NoDeadlockDeclared
<1>3. ASSUME NEW p \in Packages, ScheduleBuild(p) PROVE IInv'
  <2>1. /\ pc = "schedule" /\ p \in buildReady \ failed
        /\ buildReady' = buildReady \ {p} /\ buildJobs' = buildJobs \cup {p}
        /\ UNCHANGED <<graphVars, fetchVars, retryQueue, failed, unpackVars,
                       modeVars, reports, needed, polling, pc>>
    BY <1>3 DEF ScheduleBuild
  <2>2. TypeOK'
    BY <2>1 DEF TypeOK, graphVars
  <2>3. FetchInv'
    BY <2>1 DEF FetchInv
  <2>4. BuildInv'
    BY <2>1 DEF BuildInv, Underway, graphVars
  <2>5. RetryInv'
    <3>1. p \notin In(retryQueue)
      BY <2>1 DEF RetryInv
    <3> QED
      BY <2>1, <3>1 DEF RetryInv
  <2> QED
    BY <2>1, <2>2, <2>3, <2>4, <2>5, GraphKept DEF NoDeadlockDeclared
<1> QED
  BY <1>1, <1>2, <1>3

(* No step breaks the invariant. *)
LEMMA StepInv == IInv /\ [Next]_vars => IInv'
<1>1. ASSUME IInv, UNCHANGED vars PROVE IInv'
  <2> USE DEF vars, graphVars, fetchVars, buildVars, unpackVars, modeVars, IInv
  <2>1. TypeOK' /\ GraphInv' /\ NoDeadlockDeclared'
    BY <1>1 DEF TypeOK, GraphInv, Ordered, Free, NoDeadlockDeclared
  <2>2. FetchInv' /\ BuildInv' /\ RetryInv'
    BY <1>1 DEF FetchInv, BuildInv, Underway, RetryInv, NoDuplicates, In
  <2> QED
    BY <2>1, <2>2
<1>2. ASSUME IInv, MainStep PROVE IInv'
  BY <1>2, StartInv, CheckInv, FetchStepInv, FailureInv, SuccessInv, ScheduleInv
  DEF MainStep
<1> QED
  BY <1>1, <1>2, WorkerStepInv DEF Next, Ended

(* IInv is an invariant of EmergeQueue. *)
LEMMA Invariance == Spec => []IInv
  BY InitInv, StepInv, PTL DEF Spec

(* The queue never gives up for a deadlock of its own, whatever the graph.  *)
THEOREM NoDeadlock == Spec => []NoDeadlockDeclared
  BY Invariance, PTL DEF IInv

(* At most one package that failed is being built again. *)
THEOREM RetriesAlone == Spec => []OneRetryAtATime
<1>1. IInv => OneRetryAtATime
  <2> SUFFICES ASSUME IInv PROVE Cardinality(buildJobs \cap failed) <= 1
    BY DEF OneRetryAtATime
  <2>1. CASE buildJobs \cap failed = {}
    BY <2>1, FS_EmptySet
  <2>2. CASE buildJobs \cap failed # {}
    <3>1. PICK p \in buildJobs \cap failed : TRUE
      BY <2>2
    <3>2. buildJobs \cap failed = {p}
      BY <3>1 DEF IInv, RetryInv
    <3> QED
      BY <3>2, FS_Singleton
  <2> QED
    BY <2>1, <2>2
<1> QED
  BY Invariance, <1>1, PTL

-----------------------------------------------------------------------------
(* The order                                                               *)

Graph == [p \in Packages |-> {q \in Packages : p \in provides[q]}]
Again == failed \cap buildJobs
Hopeless == failed \ (Retrying \cup buildJobs)
Merged == Packages \ left

(* The packages to be retried are those on the queue. *)
LEMMA RetryingIsIn == Retrying = In(retryQueue)
  BY DEF Retrying, In

(* The graph that is given is one that EmergeOrder starts with. *)
LEMMA OrderInit == Init => Order!Init
<1> SUFFICES ASSUME Init PROVE Order!Init
  OBVIOUS
<1>1. Graph \in [Packages -> SUBSET Packages]
  BY DEF Graph
<1>2. Merged = {} /\ failed = {} /\ Again = {} /\ Hopeless = {}
  BY DEF Init, Merged, Again, Hopeless
<1> QED
  BY <1>1, <1>2 DEF Init, Order!Init, Graph, Merged, Again, Hopeless

(* What leaves the abstract state alone. *)
LEMMA OrderStutters ==
  ASSUME UNCHANGED <<provides, left, failed>>, UNCHANGED <<Again, Hopeless>>,
         pc \notin {"done", "failed", "deadlock"},
         pc' \notin {"done", "failed", "deadlock"}
  PROVE  UNCHANGED Order!vars
  BY DEF Order!vars, Order!tries, Again, Hopeless

(* A package that is under way needs nothing that is not merged, and if it  *)
(* failed and is built, it is the one that is tried once more.              *)
LEMMA OrderAllows ==
  ASSUME IInv, NEW p \in Underway, p \in failed => p \in buildJobs,
         pc \notin {"done", "failed", "deadlock"}
  PROVE  /\ Order!MayTry(p)
         /\ p \in left /\ p \in Packages /\ p \notin Merged
         /\ p \in failed => Again = {p}
<1>1. p \in left /\ p \in Packages /\ needs[p] = {}
  BY DEF IInv, BuildInv, TypeOK
<1>2. Graph[p] \subseteq Merged /\ p \notin Merged
  BY <1>1 DEF IInv, GraphInv, Graph, Merged
<1>3. p \in failed => Again = {p}
  BY DEF IInv, RetryInv, Again
<1> QED
  BY <1>1, <1>2, <1>3 DEF Order!MayTry, Graph, Merged, Again

(* A package is finished after all it needs. *)
LEMMA OrderMerges ==
  ASSUME IInv, NEW p \in Underway, Finish(p), p \in failed => p \in buildJobs,
         pc \notin {"sanitize", "done", "failed", "deadlock"},
         pc' \notin {"done", "failed", "deadlock"},
         failed' = failed \ {p},
         \/ Again' = Again \ {p}
         \/ /\ Again = {p}
            /\ \E q \in failed \ (Hopeless \cup {p}) : Again' = {q},
         UNCHANGED Hopeless
  PROVE  Order!Merge(p)
<1>1. Order!MayTry(p) /\ p \in left /\ p \in Packages
  BY OrderAllows
<1>2. Merged' = Merged \cup {p} /\ Graph' = Graph
  BY <1>1 DEF Finish, Merged, Graph
<1> QED
  BY <1>1, <1>2 DEF Order!Merge, Graph, Merged, Again, Hopeless

(* Each step merges a package, has one fail or tries it once more, cuts     *)
(* cycles or ends, or is none of them.                                      *)
LEMMA OrderStep == IInv /\ [Next]_vars => [Order!Next]_(Order!vars)
<1> SUFFICES ASSUME IInv, IInv', [Next]_vars PROVE [Order!Next]_(Order!vars)
  BY StepInv
<1> USE DEF IInv, graphVars, fetchVars, buildVars, unpackVars, modeVars
<1>1. CASE UNCHANGED vars
  BY <1>1 DEF vars, Order!vars, Order!tries, Retrying
<1>2. CASE BreakCycles
  <2>1. PICK edges \in CycleSets :
          provides' = [p \in Packages |->
                         {d \in provides[p] : <<d, p>> \notin Against(edges)}]
    BY <1>2 DEF BreakCycles
  <2>2. /\ Graph' \in [Packages -> SUBSET Packages]
        /\ \A p \in Packages : /\ Graph'[p] \subseteq Graph[p]
                              /\ \A d \in Graph[p] \ Graph'[p] : d >= p
    <3>1. ASSUME NEW p \in Packages
          PROVE  /\ Graph'[p] \subseteq Graph[p]
                 /\ \A d \in Graph[p] \ Graph'[p] : d >= p
      BY <2>1 DEF Graph, Against
    <3> QED
      BY <3>1 DEF Graph
  <2>3. /\ pc = "sanitize" /\ pc' = pc
        /\ UNCHANGED <<left, failed, buildJobs, retryQueue>>
    BY <1>2 DEF BreakCycles
  <2>4. /\ Merged = {} /\ failed = {}
        /\ UNCHANGED <<Merged, failed, Again, Hopeless>>
    BY <2>3 DEF GraphInv, Merged, Again, Hopeless, Retrying
  <2>5. Order!Relax
    BY <2>2, <2>3, <2>4
    DEF Order!Relax, Order!tries, Graph, Merged, Again, Hopeless
  <2> QED
    BY <2>5 DEF Order!Next
<1>3. CASE StartFetchers \/ CheckBusy \/ WaitTimesOut \/ ScheduleEnds
           \/ \E r \in reports : HandleFetch(r) \/ HandleUnpack(r)
  <2>1. /\ pc \in {"sanitize", "check", "wait", "schedule"}
        /\ pc' \in {"sanitize", "check", "wait", "schedule"}
        /\ UNCHANGED <<graphVars, failed, retryQueue, buildJobs>>
    BY <1>3 DEF StartFetchers, CheckBusy, WaitTimesOut, ScheduleEnds, HandleFetch,
         HandleUnpack, BeginSchedule
  <2> QED
    BY <2>1, OrderStutters DEF Again, Hopeless, Retrying
<1>4. CASE CheckRetries
  <2> DEFINE h == Head(retryQueue)
  <2>1. /\ pc = "check" /\ pc' = "wait" /\ UNCHANGED <<graphVars, failed>>
        /\ buildJobs' = buildJobs \cup {h}
        /\ retryQueue' = Tail(retryQueue) /\ retryQueue # << >>
        /\ left # {} /\ Idle
    BY <1>4 DEF CheckRetries, Retry
  <2>2. In(retryQueue) = In(retryQueue') \cup {h} /\ h \in Packages
    BY <2>1, OneTakenOff DEF RetryInv, TypeOK
  <2> HIDE DEF h
  <2>3. h \in failed /\ buildJobs = {}
    BY <2>1, <2>2 DEF RetryInv, Idle
  <2>4. UNCHANGED <<Graph, Merged, Hopeless>>
    BY <2>1, <2>2, RetryingIsIn DEF Graph, Merged, Hopeless, Retrying, In
  <2>5. Again = {} /\ Again' = {h} /\ h \in failed \ Hopeless
    BY <2>1, <2>2, <2>3, RetryingIsIn DEF Again, Hopeless
  <2>6. \A p \in Packages \ Merged : p \in failed \/ ~(Graph[p] \subseteq Merged)
    <3>1. \A p \in left \ failed : needs[p] # {}
      BY <2>1, NothingElse
    <3> QED
      BY <3>1 DEF Merged, Graph, GraphInv, TypeOK
  <2>7. Order!TryAgain(h)
    BY <2>1, <2>4, <2>5, <2>6
    DEF Order!TryAgain, Order!Stuck, Graph, Merged, Again, Hopeless
  <2> QED
    BY <2>2, <2>7 DEF Order!Next
<1>5. CASE CheckDone \/ CheckGivesUp
  <2>1. /\ pc = "check" /\ pc' \in {"done", "failed", "deadlock"}
        /\ UNCHANGED <<graphVars, failed, retryQueue, buildJobs>>
    BY <1>5 DEF CheckDone, CheckGivesUp
  <2>2. UNCHANGED <<Graph, Merged, failed, Again, Hopeless>>
    BY <2>1 DEF Graph, Merged, Again, Hopeless, Retrying
  <2>3. CASE CheckDone
    <3>1. Merged = Packages /\ pc' = "done"
      BY <2>3 DEF CheckDone, Merged
    <3> QED
      BY <2>1, <2>2, <3>1
      DEF Order!End, Order!tries, Order!Next, Graph, Merged, Again, Hopeless
  <2>4. CASE CheckGivesUp
    <3>1. /\ failed # {} /\ \A p \in left \ failed : needs[p] # {}
          /\ pc' = "failed" /\ Hopeless = failed /\ left # {}
      BY <2>4, NeverDeadlocked
      DEF CheckGivesUp, Idle, Hopeless, Retrying
    <3>2. Merged # Packages
      BY <3>1 DEF Merged, TypeOK
    <3>3. \A p \in Packages \ Merged : p \in Hopeless \/ ~(Graph[p] \subseteq Merged)
      BY <3>1 DEF Merged, Graph, GraphInv, TypeOK
    <3> QED
      BY <2>1, <2>2, <3>1, <3>2, <3>3
      DEF Order!End, Order!tries, Order!Stuck, Order!Next, Graph, Merged, Again,
          Hopeless
  <2> QED
    BY <1>5, <2>3, <2>4
<1>6. ASSUME NEW r \in reports, HandleFailure(r) PROVE [Order!Next]_(Order!vars)
  <2> DEFINE t == r.target
  <2>1. /\ t \in Packages /\ t \in buildJobs /\ pc = "wait" /\ pc' = "schedule"
        /\ buildJobs' = buildJobs \ {t} /\ failed' = failed \cup {t}
        /\ retryQueue' = IF t \in failed THEN retryQueue ELSE Append(retryQueue, t)
        /\ UNCHANGED graphVars
    BY <1>6 DEF HandleFailure, BeginSchedule, FetchInv, TypeOK
  <2> HIDE DEF t
  <2>2. UNCHANGED <<Graph, Merged>> /\ Again' = Again \ {t}
    BY <2>1 DEF Graph, Merged, Again
  <2>3. Order!MayTry(t)
    BY <2>1, OrderAllows DEF Underway
  <2>4. Hopeless' = IF t \in failed THEN Hopeless \cup {t} ELSE Hopeless
    <3>1. t \notin In(retryQueue)
      BY <2>1 DEF RetryInv
    <3>2. In(retryQueue') =
            IF t \in failed THEN In(retryQueue) ELSE In(retryQueue) \cup {t}
      <4>1. CASE t \in failed
        BY <2>1, <4>1
      <4>2. CASE t \notin failed
        <5>1. retryQueue' = Append(retryQueue, t)
          BY <2>1, <4>2
        <5>2. retryQueue \in Seq(Packages) /\ NoDuplicates(retryQueue)
          BY DEF RetryInv, TypeOK
        <5>3. In(Append(retryQueue, t)) = In(retryQueue) \cup {t}
          BY <2>1, <3>1, <5>2, OneQueued
        <5> QED
          BY <4>2, <5>1, <5>3
      <4> QED
        BY <4>1, <4>2
    <3> QED
      BY <2>1, <3>1, <3>2, RetryingIsIn DEF Hopeless, Retrying, In
  <2>5. Order!Fail(t)
    BY <2>1, <2>2, <2>3, <2>4
    DEF Order!Fail, Graph, Merged, Again, Hopeless
  <2> QED
    BY <2>1, <2>5 DEF Order!Next
<1>7. ASSUME NEW r \in reports, HandleSuccess(r) PROVE [Order!Next]_(Order!vars)
  <2> DEFINE t == r.target
  <2>1. /\ t \in Packages /\ t \in buildJobs /\ pc = "wait" /\ pc' = "schedule"
        /\ failed' = failed \ {t} /\ Finish(t)
    BY <1>7 DEF HandleSuccess, BeginSchedule, FetchInv, TypeOK
  <2>2. \/ /\ t \in failed /\ retryQueue # << >>
           /\ buildJobs' = (buildJobs \ {t}) \cup {Head(retryQueue)}
           /\ retryQueue' = Tail(retryQueue)
        \/ buildJobs' = buildJobs \ {t} /\ UNCHANGED retryQueue
    BY <1>7 DEF HandleSuccess, RetriesNext
  <2> HIDE DEF t
  <2>3. In(retryQueue') \cup buildJobs' = (In(retryQueue) \cup buildJobs) \ {t}
    <3>1. t \notin In(retryQueue)
      BY <2>1 DEF RetryInv
    <3>2. retryQueue # << >> =>
            In(retryQueue) = In(Tail(retryQueue)) \cup {Head(retryQueue)}
      BY OneTakenOff DEF RetryInv, TypeOK
    <3> QED
      BY <2>1, <2>2, <3>1, <3>2
  <2>4. UNCHANGED Hopeless
    BY <2>1, <2>3, RetryingIsIn DEF Hopeless, Retrying, In
  <2>5. \/ Again' = Again \ {t}
        \/ /\ Again = {t}
           /\ \E q \in failed \ (Hopeless \cup {t}) : Again' = {q}
    <3>1. CASE buildJobs' = buildJobs \ {t}
      BY <2>1, <3>1 DEF Again
    <3>2. CASE /\ t \in failed /\ retryQueue # << >>
               /\ buildJobs' = (buildJobs \ {t}) \cup {Head(retryQueue)}
      <4> DEFINE h == Head(retryQueue)
      <4>1. h \in In(retryQueue)
        BY <3>2, OneTakenOff DEF RetryInv, TypeOK
      <4> HIDE DEF h
      <4>2. h \in failed /\ h # t /\ h \notin Hopeless
        BY <2>1, <4>1, RetryingIsIn DEF RetryInv, Hopeless
      <4>3. Again = {t}
        BY <2>1, <3>2 DEF RetryInv, Again
      <4>4. Again' = {h}
        BY <2>1, <3>2, <4>2, <4>3 DEF Again, h
      <4> QED
        BY <4>2, <4>3, <4>4
    <3> QED
      BY <2>2, <3>1, <3>2
  <2>6. Order!Merge(t)
    BY <2>1, <2>4, <2>5, OrderMerges DEF Underway
  <2> QED
    BY <2>1, <2>6 DEF Order!Next
<1>8. ASSUME NEW p \in Packages, ScheduleNoMerge(p) PROVE [Order!Next]_(Order!vars)
  <2>1. /\ pc = "schedule" /\ p \in buildReady \ failed /\ Finish(p)
        /\ UNCHANGED <<buildJobs, retryQueue, failed, pc>>
    BY <1>8 DEF ScheduleNoMerge
  <2>2. /\ UNCHANGED <<Hopeless, Again>> /\ p \notin failed
        /\ failed' = failed \ {p} /\ Again' = Again \ {p}
    BY <2>1 DEF Again, Hopeless, Retrying
  <2>3. Order!Merge(p)
    BY <2>1, <2>2, OrderMerges DEF Underway
  <2> QED
    BY <2>3 DEF Order!Next
<1>9. ASSUME NEW p \in Packages, ScheduleBuild(p) PROVE [Order!Next]_(Order!vars)
  <2>1. /\ pc = "schedule" /\ pc' = pc /\ p \notin failed
        /\ buildJobs' = buildJobs \cup {p}
        /\ UNCHANGED <<graphVars, failed, retryQueue>>
    BY <1>9 DEF ScheduleBuild
  <2> QED
    BY <2>1, OrderStutters DEF Again, Hopeless, Retrying
<1>10. ASSUME NEW p \in Packages, WorkerStep(p) PROVE [Order!Next]_(Order!vars)
  <2>1. UNCHANGED <<provides, left, failed, retryQueue, buildJobs, pc>>
    BY <1>10 DEF WorkerStep, WorkerReports
  <2> QED
    BY <2>1 DEF Order!vars, Order!tries, Retrying
<1> QED
  BY <1>1, <1>2, <1>3, <1>4, <1>5, <1>6, <1>7, <1>8, <1>9, <1>10
  DEF Next, MainStep, Ended

(* EmergeQueue implements EmergeOrder: each package is merged once and      *)
(* after what it needs, each that fails is tried once more, one at a time,  *)
(* and a run fails only with nothing left to merge.                         *)
THEOREM EmergeQueueKeepsOrder == Spec => KeepsOrder
  BY OrderInit, OrderStep, Invariance, PTL DEF Spec, KeepsOrder, Order!Spec
=============================================================================
