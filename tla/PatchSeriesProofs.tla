-------------------------- MODULE PatchSeriesProofs --------------------------
(***************************************************************************)
(* Proofs about the two modules of a PatchSeries, for any changes.         *)
(*                                                                         *)
(* The first part is about PatchSeries, for any repositories and plans.    *)
(* Its invariants speak of the moments between transactions.  To be        *)
(* inductive they need to know, within a transaction, what has been        *)
(* applied so far (Progress) and what a rewind brings back (Rewindable).   *)
(*                                                                         *)
(* The second part is about DisjointTransactions, for any dependencies,    *)
(* cycles included.  RunInv says of the calls of _AddChangeToPlanWithDeps  *)
(* under way that what they have not put into the plan yet is still going  *)
(* to be put there; when none is left, the plan is complete (RunEnd).      *)
(* DTInv adds what has become of the transactions that are finished, and   *)
(* of the groups they are merged into.                                     *)
(***************************************************************************)
EXTENDS PatchSeries, DisjointTransactions, FiniteSetTheorems, SequenceTheorems, TLAPS

(* In this state of the repositories everything is where it belongs.       *)
InPlace(heads) ==
  \A r \in Repos :
    /\ Distinct(heads[r]) /\ ParentsFirst(heads[r])
    /\ \A c \in Members(heads[r]) : RepoOf[c] = r

Prefix == {plan[txn][i] : i \in 1 .. pos - 1}

Between == txn = 0 => Content(checkout) = committed

Progress ==
  /\ txn # 0 => pos <= Len(plan[txn]) + 1
  /\ txn # 0 /\ over = "no" => Content(checkout) = committed \cup Prefix

(* What a rewind that failed leaves behind.                                *)
Aborted ==
  txn # 0 /\ over # "no" =>
    /\ committed \subseteq Content(checkout)
    /\ Content(checkout) \subseteq committed \cup Prefix
    /\ failedTot \cap Prefix = {}

Rewindable ==
  txn # 0 => /\ Content(saved) = committed
             /\ \A r \in Repos \ Involved : saved[r] = checkout[r]

Heads == InPlace(checkout) /\ (txn # 0 => InPlace(saved))

Barred ==
  /\ failedTot \cap committed = {}
  /\ txn # 0 /\ over = "no" => failedTot \cap Members(plan[txn]) = {}

Answers ==
  /\ over # "raised" =>
       \A c \in given :
         \/ c \in left /\ over # "returned"
         \/ c = txn
         \/ c \in committed
         \/ c \in {f[1] : f \in failed}
  /\ over = "returned" => txn = 0
  /\ over = "returned" => committed \cap {f[1] : f \in failed} = {}

IInv ==
  /\ TypeOK /\ Between /\ Progress /\ Aborted /\ Rewindable /\ Heads /\ Barred
  /\ Answers

-----------------------------------------------------------------------------
(* Appending to a sequence adds its one member, and keeps it free of        *)
(* duplicates and in order if the member is new and its parents are there.  *)
LEMMA AppendFacts ==
  ASSUME NEW s \in Seq(Changes), NEW x \in Changes
  PROVE  /\ Append(s, x) \in Seq(Changes)
         /\ Members(Append(s, x)) = Members(s) \cup {x}
         /\ Distinct(s) /\ x \notin Members(s) => Distinct(Append(s, x))
         /\ ParentsFirst(s) /\ (\A e \in Parents : e[2] = x
                                  => e[1] \in Members(s))
              => ParentsFirst(Append(s, x))
  <1>. DEFINE t == Append(s, x)
  <1>1. /\ t \in Seq(Changes) /\ Len(t) = Len(s) + 1 /\ Len(s) \in Nat
        /\ \A i \in 1 .. Len(s) : t[i] = s[i]
        /\ t[Len(s) + 1] = x
    OBVIOUS
  <1>. HIDE DEF t
  <1>2. Members(t) = Members(s) \cup {x}
    BY <1>1 DEF Members
  <1>3. Distinct(s) /\ x \notin Members(s) => Distinct(t)
    BY <1>1 DEF Members, Distinct
  <1>4. ASSUME ParentsFirst(s),
               \A e \in Parents : e[2] = x => e[1] \in Members(s)
        PROVE  ParentsFirst(t)
    <2>. SUFFICES ASSUME NEW e \in Parents, NEW j \in 1 .. Len(t),
                         t[j] = e[2]
                  PROVE  \E i \in 1 .. j - 1 : t[i] = e[1]
      BY DEF ParentsFirst
    <2>1. CASE j \in 1 .. Len(s)
      <3>1. s[j] = e[2]
        BY <1>1, <2>1
      <3>2. PICK i \in 1 .. j - 1 : s[i] = e[1]
        BY <1>4, <2>1, <3>1 DEF ParentsFirst
      <3>. QED  BY <1>1, <2>1, <3>2
    <2>2. CASE j = Len(s) + 1
      <3>1. e[1] \in Members(s)
        BY <1>1, <1>4, <2>2
      <3>2. PICK i \in 1 .. Len(s) : s[i] = e[1]
        BY <3>1 DEF Members
      <3>. QED  BY <1>1, <2>2, <3>2
    <2>. QED  BY <1>1, <2>1, <2>2
  <1>. QED  BY <1>1, <1>2, <1>3, <1>4 DEF t

(* While a change is to be applied, it and its plan are what they seem. *)
LEMMA CurrentFacts ==
  ASSUME IInv, MustApply
  PROVE  /\ txn \in DOMAIN plan /\ over = "no"
         /\ plan[txn] \in Seq(Changes)
         /\ Current \in Changes /\ Current \in Members(plan[txn])
         /\ Current \notin Content(checkout)
         /\ Current \notin failedTot
         /\ pos \in 1 .. Len(plan[txn])
  <1>1. /\ txn \in DOMAIN plan /\ over = "no"
        /\ plan[txn] \in Seq(Changes) /\ Distinct(plan[txn])
        /\ pos \in 1 .. Len(plan[txn]) /\ Current \notin committed
    BY DEF IInv, TypeOK, MustApply, InTransaction, Orderly
  <1>2. Current \in Changes /\ Current \in Members(plan[txn])
    BY <1>1 DEF Current, Members
  <1>3. Current \notin Prefix
    BY <1>1 DEF Current, Prefix, Distinct
  <1>4. Content(checkout) = committed \cup Prefix
    BY DEF IInv, Progress, MustApply, InTransaction
  <1>. QED  BY <1>1, <1>2, <1>3, <1>4 DEF IInv, Barred, MustApply,
                                           InTransaction

(* What a transaction has behind it belongs to it. *)
LEMMA PrefixInPlan ==
  ASSUME IInv, txn # 0
  PROVE  Prefix \subseteq Members(plan[txn])
  BY DEF IInv, TypeOK, Progress, Prefix, Members, Orderly

(* After a rewind every repository is what it was before the transaction. *)
LEMMA RewindFacts ==
  ASSUME IInv, InTransaction, Rewind
  PROVE  checkout' = saved
  <1>1. checkout' \in [Repos -> Seq(Changes)]
    BY DEF IInv, TypeOK, Rewind
  <1>2. ASSUME NEW r \in Repos  PROVE checkout'[r] = saved[r]
    BY DEF IInv, TypeOK, Rewind, Rewindable, InTransaction
  <1>. QED  BY <1>1, <1>2 DEF IInv, TypeOK

-----------------------------------------------------------------------------
(* The invariant holds of a clean checkout. *)
LEMMA InitIInv == Init => IInv
  <1>. SUFFICES ASSUME Init  PROVE IInv
    OBVIOUS
  <1>1. Orderly(plan)
    BY SeriesAssumption DEF Init
  <1>2. \A r \in Repos : checkout[r] = <<>> /\ Members(checkout[r]) = {}
    BY DEF Init, Members
  <1>3. TypeOK
    <2>1. failed \subseteq given \X BOOLEAN /\ given \subseteq Changes
          /\ DOMAIN plan \subseteq given
      BY DEF Init
    <2>2. checkout \in [Repos -> Seq(Changes)] /\ saved = checkout
      BY DEF Init
    <2>3. /\ left \subseteq DOMAIN plan /\ txn = 0 /\ pos = 1
          /\ committed = {} /\ failedTot = {} /\ over = "no"
      BY DEF Init
    <2>. QED  BY <1>1, <2>1, <2>2, <2>3 DEF TypeOK
  <1>4. Between /\ Progress /\ Aborted /\ Rewindable /\ Barred
    BY <1>2 DEF Init, Between, Progress, Aborted, Rewindable, Barred, Content
  <1>5. Heads
    BY <1>2 DEF Init, Heads, InPlace, Distinct, ParentsFirst, Members
  <1>6. Answers
    <2>. SUFFICES ASSUME NEW c \in given, c \notin left
                  PROVE  c \in {f[1] : f \in failed}
      BY DEF Init, Answers
    <2>1. <<c, FALSE>> \in failed
      BY DEF Init
    <2>. QED  BY <2>1
  <1>. QED  BY <1>3, <1>4, <1>5, <1>6 DEF IInv

(* Beginning a transaction, or turning it down, keeps the invariant. *)
LEMMA BeginIInv ==
  ASSUME IInv, NEW c \in Changes, Begin(c)
  PROVE  IInv'
  <1>1. /\ c \in DOMAIN plan /\ c \in given /\ plan[c] \in Seq(Changes)
        /\ Orderly(plan) /\ plan' = plan /\ 0 \notin given
    BY DEF IInv, TypeOK, Begin, Orderly, Changes
  <1>2. CASE KnownBad(c)
    <2>1. TypeOK'
      <3>1. failed' \subseteq given' \X BOOLEAN
        <4>1. <<c, FALSE>> \in given \X BOOLEAN
          BY <1>1
        <4>2. failed' = failed \cup {<<c, FALSE>>} /\ given' = given
          BY <1>2 DEF Begin
        <4>. QED  BY <4>1, <4>2 DEF IInv, TypeOK
      <3>. QED  BY <1>1, <1>2, <3>1 DEF IInv, TypeOK, Begin
    <2>2. /\ Between' /\ Progress' /\ Aborted'
          /\ Rewindable' /\ Heads' /\ Barred'
      BY <1>2 DEF IInv, Begin, Between, Progress, Aborted, Rewindable, Heads,
                  Barred
    <2>3. c \in {f[1] : f \in failed'}
      <3>1. <<c, FALSE>> \in failed'
        BY <1>2 DEF Begin
      <3>. QED  BY <3>1
    <2>4. failed \subseteq failed'
      BY <1>2 DEF Begin
    <2>5. Answers'
      BY <1>1, <1>2, <2>3, <2>4 DEF IInv, Answers, Begin
    <2>. QED  BY <2>1, <2>2, <2>5 DEF IInv
  <1>3. CASE ~KnownBad(c)
    <2>1. TypeOK'
      BY <1>1, <1>3 DEF IInv, TypeOK, Begin, FirstPos
    <2>2. /\ txn' = c /\ c # 0 /\ pos' = 1 /\ plan' = plan
          /\ checkout' = checkout /\ saved' = checkout
          /\ committed' = committed /\ failedTot' = failedTot
          /\ Content(checkout) = committed /\ over' = "no"
      BY <1>3 DEF IInv, Begin, Between, Changes, FirstPos
    <2>3. Prefix' = {}
      BY <2>2 DEF Prefix
    <2>4. Content(checkout') = committed' \cup Prefix'
      BY <2>2, <2>3
    <2>5. Between' /\ Progress' /\ Aborted' /\ Rewindable'
      BY <1>1, <2>2, <2>4 DEF Between, Progress, Aborted, Rewindable
    <2>6. Heads' /\ Barred'
      BY <1>3, <2>2 DEF IInv, Heads, Barred, KnownBad
    <2>7. Answers'
      BY <1>1, <1>3 DEF IInv, Answers, Begin
    <2>. QED  BY <2>1, <2>5, <2>6, <2>7 DEF IInv
  <1>. QED  BY <1>2, <1>3

(* One more place of the plan is behind: the prefix gains its change. *)
LEMMA PrefixGrows ==
  ASSUME IInv, InTransaction, pos <= Len(plan[txn]), pos' = pos + 1,
         plan' = plan, txn' = txn
  PROVE  Prefix' = Prefix \cup {Current}
  BY DEF IInv, TypeOK, Prefix, Current

(* Skipping a change that is committed keeps the invariant. *)
LEMMA SkipIInv ==
  ASSUME IInv, Skip
  PROVE  IInv'
  <1>1. Prefix' = Prefix \cup {Current} /\ Current \in committed
    BY PrefixGrows DEF Skip
  <1>2. TypeOK'
    BY DEF IInv, TypeOK, Skip, Orderly
  <1>3. txn' = txn /\ txn # 0 /\ plan' = plan /\ pos' = pos + 1
        /\ pos' <= Len(plan[txn]) + 1
    BY DEF IInv, TypeOK, Skip, InTransaction, Orderly
  <1>4. Between' /\ Progress' /\ Aborted'
    BY <1>1, <1>3 DEF IInv, Skip, Between, Progress, Aborted, InTransaction
  <1>5. Rewindable'
    BY DEF IInv, Skip, Rewindable, Involved
  <1>6. Heads' /\ Barred' /\ Answers'
    BY DEF IInv, Skip, Heads, Barred, Answers
  <1>. QED  BY <1>2, <1>4, <1>5, <1>6 DEF IInv

(* A cherry-pick that succeeds keeps the invariant. *)
LEMMA ApplyIInv ==
  ASSUME IInv, ApplyOne
  PROVE  IInv'
  <1>. DEFINE x == Current
              r == RepoOf[x]
  <1>1. /\ txn \in DOMAIN plan /\ over = "no"
        /\ plan[txn] \in Seq(Changes)
        /\ x \in Changes /\ x \in Members(plan[txn])
        /\ x \notin Content(checkout) /\ x \notin failedTot
        /\ pos \in 1 .. Len(plan[txn])
    BY CurrentFacts DEF ApplyOne
  <1>2. r \in Repos /\ checkout[r] \in Seq(Changes)
    BY <1>1, SeriesAssumption DEF IInv, TypeOK
  <1>3. x \notin Members(checkout[r])
    BY <1>1, <1>2 DEF Content
  <1>4. /\ checkout' \in [Repos -> Seq(Changes)]
        /\ checkout'[r] = Append(checkout[r], x)
        /\ \A q \in Repos \ {r} : checkout'[q] = checkout[q]
    BY <1>1, <1>2, AppendFacts DEF ApplyOne, IInv, TypeOK
  <1>5. ASSUME NEW e \in Parents, e[2] = x
        PROVE  e[1] \in Members(checkout[r])
    <2>1. e[1] \in Changes /\ RepoOf[e[1]] = r
      BY <1>5, SeriesAssumption
    <2>2. ParentsFirst(plan[txn])
      BY <1>1 DEF IInv, TypeOK, Orderly
    <2>3. PICK i \in 1 .. pos - 1 : plan[txn][i] = e[1]
      BY <1>1, <1>5, <2>2 DEF ParentsFirst, Current
    <2>4. e[1] \in Content(checkout)
      BY <2>3 DEF IInv, Progress, Prefix, ApplyOne, MustApply, InTransaction
    <2>5. PICK q \in Repos : e[1] \in Members(checkout[q])
      BY <2>4 DEF Content
    <2>6. q = r
      BY <2>1, <2>5 DEF IInv, Heads, InPlace
    <2>. QED  BY <2>5, <2>6
  <1>6. /\ Members(checkout'[r]) = Members(checkout[r]) \cup {x}
        /\ Distinct(checkout'[r]) /\ ParentsFirst(checkout'[r])
    <2>1. Distinct(checkout[r]) /\ ParentsFirst(checkout[r])
      BY <1>2 DEF IInv, Heads, InPlace
    <2>2. \A e \in Parents : e[2] = x => e[1] \in Members(checkout[r])
      BY <1>5
    <2>. HIDE DEF x, r
    <2>. QED  BY <1>1, <1>2, <1>3, <1>4, <2>1, <2>2, AppendFacts
  <1>7. Content(checkout') = Content(checkout) \cup {x}
    <2>1. \A q \in Repos \ {r} : Members(checkout'[q]) = Members(checkout[q])
      BY <1>4
    <2>. HIDE DEF x, r
    <2>2. Content(checkout') \subseteq Content(checkout) \cup {x}
      BY <1>2, <1>6, <2>1 DEF Content
    <2>3. Content(checkout) \cup {x} \subseteq Content(checkout')
      BY <1>2, <1>6, <2>1 DEF Content
    <2>. QED  BY <2>2, <2>3
  <1>8. InPlace(checkout')
    <2>. SUFFICES ASSUME NEW q \in Repos
                  PROVE  /\ Distinct(checkout'[q])
                         /\ ParentsFirst(checkout'[q])
                         /\ \A c \in Members(checkout'[q]) : RepoOf[c] = q
      BY DEF InPlace
    <2>1. CASE q = r
      BY <1>6, <2>1 DEF IInv, Heads, InPlace
    <2>2. CASE q # r
      BY <1>4, <2>2 DEF IInv, Heads, InPlace
    <2>. QED  BY <2>1, <2>2
  <1>9. /\ txn' = txn /\ txn # 0 /\ plan' = plan /\ pos' = pos + 1
        /\ saved' = saved /\ committed' = committed /\ failedTot' = failedTot
        /\ over = "no" /\ over' = "no"
    BY DEF ApplyOne, MustApply, InTransaction
  <1>10. TypeOK'
    BY <1>4 DEF IInv, TypeOK, ApplyOne, Orderly
  <1>11. Prefix' = Prefix \cup {x}
    BY <1>1, <1>9, PrefixGrows DEF InTransaction
  <1>12. Between' /\ Progress' /\ Aborted'
    BY <1>1, <1>7, <1>9, <1>11 DEF IInv, Between, Progress, Aborted
  <1>13. Rewindable'
    <2>1. r \in Involved /\ Involved' = Involved
      BY <1>1, <1>9 DEF Involved
    <2>. QED  BY <1>4, <1>9, <2>1 DEF IInv, Rewindable
  <1>14. Heads' /\ Barred'
    BY <1>8, <1>9 DEF IInv, Heads, Barred
  <1>15. Answers'
    BY DEF IInv, Answers, ApplyOne
  <1>. QED  BY <1>10, <1>12, <1>13, <1>14, <1>15 DEF IInv

(* A failed transaction, whatever it makes of failedTot. *)
LEMMA RewindIInv ==
  ASSUME IInv, MustApply, Rewind,
         UNCHANGED <<given, plan, left, pos, saved>>,
         failedTot' \in {failedTot, failedTot \cup {Current}}
  PROVE  /\ txn' = 0 /\ committed' = committed
         /\ checkout' \in [Repos -> Seq(Changes)]
         /\ failedTot' \subseteq Changes
         /\ Between' /\ Progress' /\ Aborted'
        /\ Rewindable' /\ Heads' /\ Barred'
  <1>1. /\ txn' = 0 /\ checkout' = saved /\ committed' = committed
        /\ Content(saved) = committed /\ InPlace(saved) /\ txn # 0
    BY RewindFacts DEF MustApply, InTransaction, Rewind, CacheThen, IInv,
                       Rewindable, Heads
  <1>2. Between' /\ Progress' /\ Aborted' /\ Rewindable' /\ Heads'
    BY <1>1 DEF Between, Progress, Aborted, Rewindable, Heads
  <1>3. Barred' /\ failedTot' \subseteq Changes
    BY <1>1, CurrentFacts DEF IInv, TypeOK, Barred, MustApply
  <1>. QED  BY <1>1, <1>2, <1>3 DEF IInv, TypeOK

(* A conflict, with its rollback, keeps the invariant. *)
LEMMA ConflictIInv ==
  ASSUME IInv, NEW inflight \in BOOLEAN, Conflict(inflight)
  PROVE  IInv'
  <1>1. /\ txn' = 0 /\ committed' = committed
        /\ checkout' \in [Repos -> Seq(Changes)]
        /\ failedTot' \subseteq Changes
        /\ Between' /\ Progress' /\ Aborted'
        /\ Rewindable' /\ Heads' /\ Barred'
    BY RewindIInv DEF Conflict, Remembered
  <1>2. txn \in given /\ <<txn, inflight>> \in failed' /\ over = "no"
        /\ failed \subseteq failed'
    BY CurrentFacts DEF IInv, TypeOK, Conflict, Blamed
  <1>3. failed' \subseteq given' \X BOOLEAN
    BY <1>2 DEF IInv, TypeOK, Conflict, Blamed
  <1>4. TypeOK'
    BY <1>1, <1>3 DEF IInv, TypeOK, Conflict, Orderly
  <1>5. txn \in {f[1] : f \in failed'}
    BY <1>2
  <1>6. Answers'
    BY <1>1, <1>2, <1>5 DEF IInv, Answers, Conflict
  <1>. QED  BY <1>1, <1>4, <1>6 DEF IInv

(* A failure of git, with its rollback, keeps the invariant. *)
LEMMA GitFailsIInv ==
  ASSUME IInv, GitFails
  PROVE  IInv'
  <1>1. /\ txn' = 0 /\ committed' = committed
        /\ checkout' \in [Repos -> Seq(Changes)]
        /\ failedTot' \subseteq Changes
        /\ Between' /\ Progress' /\ Aborted'
        /\ Rewindable' /\ Heads' /\ Barred'
    BY RewindIInv DEF GitFails
  <1>2. TypeOK'
    BY <1>1 DEF IInv, TypeOK, GitFails, Orderly
  <1>3. Answers'
    BY <1>1 DEF Answers, GitFails
  <1>. QED  BY <1>1, <1>2, <1>3 DEF IInv

(* A rewind that fails: each repository holds either what it held or what   *)
(* it was to go back to, and both hold what was committed.                  *)
LEMMA RewindFailsIInv ==
  ASSUME IInv, RewindFails
  PROVE  IInv'
  <1>1. /\ txn \in DOMAIN plan /\ over = "no"
        /\ Current \in Changes /\ Current \notin Content(checkout)
        /\ Current \notin failedTot
    BY CurrentFacts DEF RewindFails
  <1>2. /\ txn' = txn /\ txn # 0 /\ over' = "raised"
        /\ UNCHANGED <<given, plan, left, pos, saved, committed, failed>>
        /\ failedTot' \in {failedTot, failedTot \cup {Current}}
    BY DEF RewindFails, MustApply, InTransaction, Remembered
  <1>3. /\ checkout' \in [Repos -> Seq(Changes)]
        /\ \A r \in Repos : checkout'[r] \in {saved[r], checkout[r]}
        /\ \A r \in Repos \ Involved : checkout'[r] = checkout[r]
    BY DEF IInv, TypeOK, RewindFails
  <1>4. /\ Content(checkout) = committed \cup Prefix
        /\ Content(saved) = committed /\ Prefix' = Prefix
    BY <1>1, <1>2 DEF IInv, Progress, Rewindable, Prefix
  <1>5. Content(checkout') \subseteq committed \cup Prefix
    <2>. SUFFICES ASSUME NEW r \in Repos
                  PROVE  Members(checkout'[r]) \subseteq committed \cup Prefix
      BY DEF Content
    <2>1. /\ Members(checkout[r]) \subseteq Content(checkout)
          /\ Members(saved[r]) \subseteq Content(saved)
      BY DEF Content
    <2>2. checkout'[r] = saved[r] \/ checkout'[r] = checkout[r]
      BY <1>3
    <2>. QED  BY <1>4, <2>1, <2>2
  <1>6. committed \subseteq Content(checkout')
    <2>. SUFFICES ASSUME NEW c \in committed  PROVE c \in Content(checkout')
      OBVIOUS
    <2>1. PICK r \in Repos : c \in Members(saved[r])
      BY <1>4 DEF Content
    <2>2. PICK q \in Repos : c \in Members(checkout[q])
      BY <1>4 DEF Content
    <2>3. RepoOf[c] = r /\ RepoOf[c] = q
      BY <1>2, <2>1, <2>2 DEF IInv, Heads, InPlace
    <2>4. c \in Members(checkout'[r])
      BY <1>3, <2>1, <2>2, <2>3
    <2>. QED  BY <2>4 DEF Content
  <1>7. Current \notin Prefix /\ failedTot \cap Prefix = {}
    <2>1. Prefix \subseteq Members(plan[txn])
      BY <1>2, PrefixInPlan
    <2>. QED  BY <1>1, <1>2, <1>4, <2>1 DEF IInv, Barred
  <1>8. Between' /\ Progress' /\ Aborted' /\ Rewindable'
    <2>1. Involved' = Involved
      BY <1>2 DEF Involved
    <2>. QED  BY <1>2, <1>3, <1>4, <1>5, <1>6, <1>7, <2>1
              DEF IInv, Between, Progress, Aborted, Rewindable
  <1>9. InPlace(checkout')
    <2>. SUFFICES ASSUME NEW r \in Repos
                  PROVE  /\ Distinct(checkout'[r])
                         /\ ParentsFirst(checkout'[r])
                         /\ \A c \in Members(checkout'[r]) : RepoOf[c] = r
      BY DEF InPlace
    <2>1. checkout'[r] = saved[r] \/ checkout'[r] = checkout[r]
      BY <1>3
    <2>. QED  BY <1>2, <2>1 DEF IInv, Heads, InPlace
  <1>10. Heads' /\ Barred'
    BY <1>1, <1>2, <1>4, <1>9 DEF IInv, Heads, Barred
  <1>11. TypeOK'
    BY <1>1, <1>2, <1>3 DEF IInv, TypeOK
  <1>12. Answers'
    BY <1>2 DEF Answers
  <1>. QED  BY <1>8, <1>10, <1>11, <1>12 DEF IInv

(* At the end of its plan, a transaction has applied it all. *)
LEMMA PrefixIsPlan ==
  ASSUME IInv, InTransaction, pos > Len(plan[txn])
  PROVE  /\ Prefix = Members(plan[txn]) /\ txn \in Members(plan[txn])
         /\ Members(plan[txn]) \subseteq Changes
         /\ txn \in DOMAIN plan /\ txn \in given
  <1>1. txn \in DOMAIN plan /\ plan[txn] \in Seq(Changes)
        /\ txn \in Members(plan[txn]) /\ txn \in given
    BY DEF IInv, TypeOK, InTransaction, Orderly
  <1>2. pos = Len(plan[txn]) + 1
    BY <1>1 DEF IInv, TypeOK, Progress, InTransaction
  <1>. QED  BY <1>1, <1>2 DEF Prefix, Members

(* The end of a transaction that went in keeps the invariant. *)
LEMMA CommitIInv ==
  ASSUME IInv, Commit
  PROVE  IInv'
  <1>1. /\ Prefix = Members(plan[txn]) /\ txn \in Members(plan[txn])
        /\ Members(plan[txn]) \subseteq Changes
    BY PrefixIsPlan DEF Commit
  <1>2. /\ txn # 0 /\ over = "no" /\ over' = "no" /\ txn' = 0
        /\ committed' = committed \cup Members(plan[txn])
        /\ UNCHANGED <<given, plan, left, pos, checkout, saved, failedTot,
                       failed>>
    BY DEF Commit, InTransaction, NowCommitted
  <1>3. Content(checkout') = committed'
    BY <1>1, <1>2 DEF IInv, Progress
  <1>4. TypeOK'
    BY <1>1, <1>2 DEF IInv, TypeOK, Orderly
  <1>5. Between' /\ Progress' /\ Aborted' /\ Rewindable' /\ Heads' /\ Barred'
    BY <1>2, <1>3 DEF IInv, Between, Progress, Aborted, Rewindable, Heads, Barred
  <1>6. Answers'
    BY <1>1, <1>2 DEF IInv, Answers
  <1>. QED  BY <1>4, <1>5, <1>6 DEF IInv

(* The end of Apply keeps the invariant. *)
LEMMA ReturnIInv ==
  ASSUME IInv, Return
  PROVE  IInv'
  <1>1. /\ txn = 0 /\ txn' = 0 /\ left = {} /\ left' = {}
        /\ over = "no" /\ over' = "returned" /\ failed' = failed \ Forgotten
        /\ UNCHANGED <<given, plan, pos, checkout, saved, committed, failedTot>>
    BY DEF Return
  <1>2. TypeOK'
    BY <1>1 DEF IInv, TypeOK, Orderly
  <1>3. Between' /\ Progress' /\ Aborted' /\ Rewindable' /\ Heads' /\ Barred'
    BY <1>1 DEF IInv, Between, Progress, Aborted, Rewindable, Heads, Barred
  <1>4. ASSUME NEW c \in given, c \notin committed
        PROVE  c \in {f[1] : f \in failed'}
    <2>1. c # 0
      BY DEF IInv, TypeOK, Changes
    <2>2. PICK f \in failed : c = f[1]
      BY <1>1, <1>4, <2>1 DEF IInv, Answers
    <2>3. f \in failed'
      BY <1>1, <1>4, <2>2 DEF Forgotten
    <2>. QED  BY <2>2, <2>3
  <1>5. committed \cap {f[1] : f \in failed'} = {}
    BY <1>1 DEF Forgotten
  <1>6. Answers'
    BY <1>1, <1>4, <1>5 DEF Answers
  <1>. QED  BY <1>2, <1>3, <1>6 DEF IInv

(* Standing still keeps the invariant. *)
LEMMA StutterIInv ==
  ASSUME IInv, UNCHANGED vars
  PROVE  IInv'
  BY DEF vars, IInv, TypeOK, Between, Progress, Aborted, Rewindable, Heads,
         Barred, Answers, Prefix, Involved, Orderly

(* IInv is an invariant: one lemma for each action. *)
THEOREM SeriesInvariance == Spec => []IInv
  <1>1. Init => IInv
    BY InitIInv
  <1>2. IInv /\ [Next]_vars => IInv'
    BY BeginIInv, SkipIInv, ApplyIInv, ConflictIInv, GitFailsIInv,
       RewindFailsIInv, CommitIInv, ReturnIInv, StutterIInv DEF Next
  <1>. QED  BY <1>1, <1>2, PTL DEF Spec

(* Every variable keeps its type: TypeOK of the runs. *)
THEOREM SeriesTypeCorrect == Spec => []TypeOK
  BY SeriesInvariance, PTL DEF IInv

(* Between transactions the checkouts hold exactly what _committed_cache    *)
(* says: _Transaction rolls back all of a transaction or nothing.           *)
THEOREM RollbackIsExact == Spec => []CacheMatchesCheckout
  <1>1. ASSUME IInv  PROVE CacheMatchesCheckout
    <2>1. txn # 0 => Prefix \subseteq Members(plan[txn])
      BY <1>1, PrefixInPlan
    <2>. QED  BY <1>1, <2>1 DEF IInv, Between, Progress, Aborted,
                                CacheMatchesCheckout
  <1>. QED  BY <1>1, SeriesInvariance, PTL

(* No change is cherry-picked twice into a repository, and none without the *)
(* changes it was made on.                                                  *)
THEOREM AppliedOnceInOrder == Spec => []AppliedInOrder
  <1>1. IInv => AppliedInOrder
    BY DEF IInv, Heads, InPlace, AppliedInOrder
  <1>. QED  BY <1>1, SeriesInvariance, PTL

(* What failed_tot holds is never in the build root. *)
THEOREM KnownBadIsBarred == Spec => []KnownBadStaysOut
  <1>1. ASSUME IInv  PROVE KnownBadStaysOut
    <2>1. CASE txn = 0
      BY <1>1, <2>1 DEF IInv, Between, Barred, KnownBadStaysOut
    <2>2. CASE txn # 0
      <3>1. Prefix \subseteq Members(plan[txn])
        BY <1>1, <2>2, PrefixInPlan
      <3>. QED  BY <1>1, <2>2, <3>1 DEF IInv, Progress, Aborted, Barred,
                                        KnownBadStaysOut
    <2>. QED  BY <2>1, <2>2
  <1>. QED  BY <1>1, SeriesInvariance, PTL

(* Apply answers for every change it was given, in exactly one way. *)
THEOREM AppliedOrExplained == Spec => []EveryoneAnswered
  <1>1. ASSUME IInv  PROVE EveryoneAnswered
    <2>1. 0 \notin given
      BY <1>1 DEF IInv, TypeOK, Changes
    <2>. QED  BY <1>1, <2>1 DEF IInv, Answers, EveryoneAnswered
  <1>. QED  BY <1>1, SeriesInvariance, PTL

(* Apply implements its promise: a step lands a transaction, ends the call, *)
(* or changes nothing that the promise sees.                                *)
THEOREM SeriesKeepsPromise == Spec => KeepsPromise
  <1>1. Init => Promise!Init
    BY DEF Init, Promise!Init
  <1>2. ASSUME IInv, [Next]_vars
        PROVE  [Promise!Next]_(Promise!promiseVars)
    <2>1. CASE Commit
      <3>1. /\ committed' = committed \cup Members(plan[txn])
            /\ txn \in DOMAIN plan /\ plan' = plan /\ over = "no"
            /\ over' = over
        BY <1>2, <2>1, PrefixIsPlan DEF Commit, NowCommitted, InTransaction
      <3>. QED  BY <3>1 DEF Promise!Next, Promise!Land
    <2>2. CASE GitFails \/ RewindFails \/ Return
      BY <2>2 DEF GitFails, RewindFails, Return, Rewind, CacheThen, MustApply,
                  InTransaction, Promise!Next, Promise!Finish
    <2>3. ASSUME \/ \E c \in Changes : Begin(c)
                 \/ Skip \/ ApplyOne
                 \/ \E b \in BOOLEAN : Conflict(b)
                 \/ UNCHANGED vars
          PROVE  UNCHANGED <<committed, plan, over>>
      BY <2>3 DEF Begin, Skip, ApplyOne, Conflict, Rewind, CacheThen, vars
    <2>4. UNCHANGED <<committed, plan, over>> =>
            UNCHANGED Promise!promiseVars
      BY DEF Promise!promiseVars
    <2>. QED  BY <1>2, <2>1, <2>2, <2>3, <2>4 DEF Next
  <1>. QED  BY <1>1, <1>2, SeriesInvariance, PTL
              DEF Spec, KeepsPromise, Promise!Spec

-----------------------------------------------------------------------------
(* The transactions. *)

(* at gives the places in s of the elements of t, in their order: those of  *)
(* all that is in the set.                                                  *)
Places(at, t, s, set) ==
  /\ at \in [1 .. Len(t) -> DOMAIN s]
  /\ \A k \in 1 .. Len(t) : t[k] = s[at[k]] /\ s[at[k]] \in set
  /\ \A k, l \in 1 .. Len(t) : k < l => at[k] < at[l]
  /\ \A i \in DOMAIN s : s[i] \in set => \E k \in 1 .. Len(t) : at[k] = i

(* What is left of a list is at strictly growing places of it, at all those *)
(* whose element is to be kept.                                             *)
LEMMA KeptPlaces ==
  ASSUME NEW X, NEW s \in Seq(X), NEW set
  PROVE  /\ Kept(s, set) \in Seq(X)
         /\ \E at : Places(at, Kept(s, set), s, set)
<1>. DEFINE places == {i \in DOMAIN s : s[i] \in set}
            upTo(i) == {j \in places : j <= i}
            n == Cardinality(places)
            rank == [i \in places |-> Cardinality(upTo(i))]
            at == [k \in 1 .. n |-> CHOOSE i \in places : Cardinality(upTo(i)) = k]
<1>1. places \subseteq Nat /\ DOMAIN s = 1 .. Len(s) /\ Len(s) \in Nat
  OBVIOUS
<1>2. IsFiniteSet(places) /\ n \in Nat
  <2>1. IsFiniteSet(1 .. Len(s))
    BY <1>1, FS_Interval
  <2>2. places \in SUBSET (1 .. Len(s))
    BY <1>1
  <2>3. IsFiniteSet(places)
    BY <2>1, <2>2, FS_Subset
  <2>. QED  BY <2>3, FS_CardinalityType
<1>3. ASSUME NEW i \in places
      PROVE  IsFiniteSet(upTo(i)) /\ Cardinality(upTo(i)) \in 1 .. n
  <2>1. upTo(i) \subseteq places /\ i \in upTo(i)
    BY <1>1
  <2>2. IsFiniteSet(upTo(i)) /\ Cardinality(upTo(i)) <= n
    BY <1>2, <2>1, FS_Subset
  <2>3. Cardinality(upTo(i)) \in Nat /\ Cardinality(upTo(i)) # 0
    BY <2>1, <2>2, FS_CardinalityType, FS_EmptySet
  <2>. QED  BY <1>2, <2>2, <2>3
<1>4. ASSUME NEW i \in places, NEW j \in places, i < j
      PROVE  rank[i] < rank[j]
  <2>1. upTo(i) \subseteq upTo(j) /\ j \in upTo(j) /\ j \notin upTo(i)
    BY <1>1, <1>4
  <2>2. Cardinality(upTo(i)) <= Cardinality(upTo(j))
        /\ Cardinality(upTo(i)) # Cardinality(upTo(j))
    BY <1>3, <2>1, FS_Subset
  <2>3. Cardinality(upTo(i)) \in 1 .. n /\ Cardinality(upTo(j)) \in 1 .. n
    BY <1>3
  <2>4. rank[i] = Cardinality(upTo(i)) /\ rank[j] = Cardinality(upTo(j))
    OBVIOUS
  <2>. HIDE DEF rank, upTo, places, n
  <2>. QED  BY <1>2, <2>2, <2>3, <2>4
<1>5. rank \in Injection(places, 1 .. n)
  <2>1. rank \in [places -> 1 .. n]
    BY <1>3
  <2>2. \A i, j \in places : rank[i] = rank[j] => i = j
    <3>1. \A i, j \in places : i < j => rank[i] < rank[j]
      BY <1>4
    <3>. HIDE DEF rank, places, n
    <3>. QED  BY <1>1, <1>2, <2>1, <3>1
  <2>. HIDE DEF rank, places, n
  <2>. QED  BY <2>1, <2>2 DEF Injection, IsInjective
<1>6. rank \in Surjection(places, 1 .. n)
  <2>1. IsFiniteSet(1 .. n) /\ Cardinality(1 .. n) = n
    BY <1>2, FS_Interval
  <2>. QED  BY <1>5, <2>1, FS_Injection
<1>7. \A k \in 1 .. n : at[k] \in places /\ rank[at[k]] = k
  <2>1. \A k \in 1 .. n : \E i \in places : Cardinality(upTo(i)) = k
    <3>1. \A k \in 1 .. n : \E i \in places : rank[i] = k
      BY <1>6 DEF Surjection
    <3>. QED  BY <3>1
  <2>2. \A k \in 1 .. n : at[k] \in places /\ Cardinality(upTo(at[k])) = k
    <3>. HIDE DEF upTo, places, n
    <3>. QED  BY <2>1
  <2>. QED  BY <2>2
<1>8. Kept(s, set) = [k \in 1 .. n |-> s[at[k]]]
  BY DEF Kept
<1>. DEFINE t == Kept(s, set)
<1>9. t \in Seq(X) /\ Len(t) = n
  <2>1. \A k \in 1 .. n : s[at[k]] \in X
    <3>1. \A i \in places : s[i] \in X
      OBVIOUS
    <3>. HIDE DEF at, places, n
    <3>. QED  BY <1>7, <3>1
  <2>. HIDE DEF at, n
  <2>. QED  BY <1>2, <1>8, <2>1
<1>10. \A k, l \in 1 .. n : k < l => at[k] < at[l]
  <2>1. \A i, j \in places : i \in Nat /\ j \in Nat /\ (i < j => rank[i] < rank[j])
    BY <1>1, <1>4
  <2>. HIDE DEF at, rank, places, n
  <2>. QED  BY <1>2, <1>7, <2>1
<1>11. \A i \in places : rank[i] \in 1 .. n /\ at[rank[i]] = i
  <2>1. \A i, j \in places : rank[i] = rank[j] => i = j
    BY <1>5 DEF Injection, IsInjective
  <2>2. \A i \in places : rank[i] \in 1 .. n
    BY <1>5 DEF Injection
  <2>. HIDE DEF at, rank, places, n
  <2>. QED  BY <1>7, <2>1, <2>2
<1>12. at \in [1 .. n -> DOMAIN s] /\ \A k \in 1 .. n : s[at[k]] \in set
  BY <1>7
<1>b. t = [k \in 1 .. n |-> s[at[k]]]
  BY <1>8
<1>. HIDE DEF at, rank, t
<1>13. ASSUME NEW i \in DOMAIN s, s[i] \in set
       PROVE  \E k \in 1 .. Len(t) : at[k] = i
  <2>1. i \in places
    BY <1>13
  <2>. HIDE DEF places, n
  <2>. QED  BY <1>9, <1>11, <2>1
<1>. HIDE DEF places, n
<1>c. \A k \in 1 .. n : t[k] = s[at[k]]
  BY <1>b
<1>14. Places(at, t, s, set)
  BY <1>9, <1>10, <1>12, <1>13, <1>c DEF Places
<1>. QED  BY <1>9, <1>14 DEF t

(* Keeping part of a list keeps those elements, each as often as it was. *)
LEMMA KeptFacts ==
  ASSUME NEW X, NEW s \in Seq(X), NEW set
  PROVE  /\ Kept(s, set) \in Seq(X)
         /\ Elements(Kept(s, set)) = {x \in Elements(s) : x \in set}
         /\ OnlyOnce(s) => OnlyOnce(Kept(s, set))
<1>. DEFINE t == Kept(s, set)
<1>1. /\ t \in Seq(X) /\ DOMAIN t = 1 .. Len(t) /\ Len(t) \in Nat
      /\ DOMAIN s \subseteq Nat
  BY KeptPlaces
<1>a. PICK at : Places(at, t, s, set)
  BY KeptPlaces
<1>. HIDE DEF t
<1>2. /\ at \in [1 .. Len(t) -> DOMAIN s]
      /\ \A k \in 1 .. Len(t) : t[k] = s[at[k]] /\ s[at[k]] \in set
      /\ \A k, l \in 1 .. Len(t) : k < l => at[k] < at[l]
      /\ \A i \in DOMAIN s : s[i] \in set =>
           \E k \in 1 .. Len(t) : at[k] = i
  BY <1>a DEF Places
<1>3. Elements(t) = {x \in Elements(s) : x \in set}
  <2>1. ASSUME NEW k \in 1 .. Len(t)  PROVE t[k] \in Elements(s) /\ t[k] \in set
    BY <1>2 DEF Elements
  <2>2. ASSUME NEW i \in DOMAIN s, s[i] \in set  PROVE s[i] \in Elements(t)
    <3>1. PICK k \in 1 .. Len(t) : at[k] = i
      BY <1>2, <2>2
    <3>2. t[k] = s[i]
      BY <1>2, <3>1
    <3>. QED  BY <1>1, <3>2 DEF Elements
  <2>. QED  BY <1>1, <2>1, <2>2 DEF Elements
<1>4. ASSUME OnlyOnce(s)  PROVE OnlyOnce(t)
  <2>. SUFFICES ASSUME NEW k \in 1 .. Len(t), NEW l \in 1 .. Len(t),
                       t[k] = t[l], k # l
                PROVE  FALSE
    BY <1>1 DEF OnlyOnce
  <2>1. at[k] = at[l]
    BY <1>2, <1>4 DEF OnlyOnce
  <2>2. at[k] \in Nat /\ (k < l \/ l < k)
    BY <1>1, <1>2
  <2>. QED  BY <1>2, <2>1, <2>2
<1>. QED  BY <1>1, <1>3, <1>4 DEF t

-----------------------------------------------------------------------------
(* The calls under way, and what one step does to them.                     *)

(* The types of a frame, and of the calls under way. *)
Frames ==
  [change : Patches, withCQ : BOOLEAN, oldLen : Nat,
   at : {"begin", "gerrit", "append", "cq"}, left : Seq(Patches)]
Machines ==
  [stack : Seq(Frames), plan : Seq(Patches), gerritSeen : SUBSET Patches,
   cqSeen : SUBSET Patches, raised : BOOLEAN]

(* n differs from m in its stack only. *)
SameShared(m, n) ==
  /\ n.plan = m.plan /\ n.gerritSeen = m.gerritSeen
  /\ n.cqSeen = m.cqSeen /\ n.raised = m.raised

(* They agree on the frames below the top of m. *)
SameBelow(m, n) ==
  \A k \in 1 .. Len(m.stack) - 1 : n.stack[k] = m.stack[k]

(* The call on top of m is, in n, somewhere else in its body. *)
Moved(m, n, at, rest) ==
  /\ SameBelow(m, n)
  /\ LET f == m.stack[Len(m.stack)]
         h == n.stack[Len(m.stack)]
     IN /\ h.change = f.change /\ h.withCQ = f.withCQ /\ h.oldLen = f.oldLen
        /\ h.at = at /\ h.left = rest

(* A stack that is not empty has a top. *)
LEMMA TopFacts ==
  ASSUME NEW m \in Machines, m.stack # <<>>
  PROVE  /\ Len(m.stack) \in Nat \ {0}
         /\ Top(m) = m.stack[Len(m.stack)] /\ Top(m) \in Frames
         /\ m.stack \in Seq(Frames)
<1>1. m.stack \in Seq(Frames)
  BY DEF Machines
<1>2. Len(m.stack) \in Nat \ {0}
  BY <1>1, EmptySeq
<1>3. m.stack[Len(m.stack)] \in Frames
  BY <1>1, <1>2, ElementOfSeq
<1>. QED  BY <1>1, <1>2, <1>3 DEF Top

(* Moving on in its body changes the call on top, and nothing else. *)
LEMMA GoesFacts ==
  ASSUME NEW m \in Machines, m.stack # <<>>,
         NEW at \in {"begin", "gerrit", "append", "cq"},
         NEW rest \in Seq(Patches)
  PROVE  /\ Goes(m, at, rest) \in Machines
         /\ SameShared(m, Goes(m, at, rest))
         /\ Len(Goes(m, at, rest).stack) = Len(m.stack)
         /\ Goes(m, at, rest).stack # <<>>
         /\ Moved(m, Goes(m, at, rest), at, rest)
<1>. DEFINE d == Len(m.stack)
            f == m.stack[d]
            h == [f EXCEPT !.at = at, !.left = rest]
            n == Goes(m, at, rest)
<1>1. d \in Nat \ {0} /\ d \in 1 .. d /\ m.stack \in Seq(Frames)
      /\ f \in Frames
  BY TopFacts
<1>2. /\ h \in Frames /\ h.change = f.change /\ h.withCQ = f.withCQ
      /\ h.oldLen = f.oldLen /\ h.at = at /\ h.left = rest
  BY <1>1 DEF Frames
<1>3. n.stack = [m.stack EXCEPT ![d] = h]
      /\ SameShared(m, n)
      /\ n = [m EXCEPT !.stack = n.stack]
  BY DEF Goes, Machines, SameShared
<1>. HIDE DEF h, n, d
<1>4. /\ n.stack \in Seq(Frames) /\ Len(n.stack) = d
      /\ \A k \in 1 .. d : n.stack[k] = IF k = d THEN h ELSE m.stack[k]
  <2>1. d \in 1 .. Len(m.stack) /\ d = Len(m.stack)
    BY <1>1 DEF d
  <2>2. /\ [m.stack EXCEPT ![d] = h] \in Seq(Frames)
        /\ Len([m.stack EXCEPT ![d] = h]) = Len(m.stack)
        /\ \A k \in 1 .. Len(m.stack) :
             [m.stack EXCEPT ![d] = h][k] = IF k = d THEN h ELSE m.stack[k]
    BY <1>1, <1>2, <2>1, ExceptSeq
  <2>. QED  BY <1>3, <2>1, <2>2
<1>5. n \in Machines
  BY <1>3, <1>4 DEF Machines
<1>6. n.stack # <<>>
  BY <1>1, <1>4, EmptySeq
<1>7. Moved(m, n, at, rest)
  <2>1. SameBelow(m, n)
    BY <1>1, <1>4 DEF SameBelow, d
  <2>2. n.stack[d] = h
    BY <1>1, <1>4
  <2>. QED  BY <1>2, <2>1, <2>2 DEF Moved, d
<1>. QED  BY <1>3, <1>4, <1>5, <1>6, <1>7 DEF n, d

(* A call adds a frame at the beginning of its body, and changes nothing    *)
(* else.                                                                    *)
LEMMA CallsFacts ==
  ASSUME NEW m \in Machines, NEW c \in Patches, NEW withCQ \in BOOLEAN
  PROVE  LET n == Calls(m, c, withCQ)
             h == n.stack[Len(m.stack) + 1]
         IN /\ n \in Machines /\ SameShared(m, n)
            /\ Len(n.stack) = Len(m.stack) + 1
            /\ \A k \in 1 .. Len(m.stack) : n.stack[k] = m.stack[k]
            /\ h.change = c /\ h.withCQ = withCQ /\ h.oldLen = Len(m.plan)
            /\ h.at = "begin" /\ h.left = <<>>
<1>. DEFINE n == Calls(m, c, withCQ)
            h == [change |-> c, withCQ |-> withCQ, oldLen |-> Len(m.plan),
                  at |-> "begin", left |-> <<>>]
<1>1. m.stack \in Seq(Frames) /\ m.plan \in Seq(Patches)
  BY DEF Machines
<1>2. h \in Frames
  <2>1. Len(m.plan) \in Nat /\ <<>> \in Seq(Patches)
    BY <1>1
  <2>. QED  BY <2>1 DEF Frames
<1>3. n.stack = Append(m.stack, h) /\ SameShared(m, n)
      /\ n = [m EXCEPT !.stack = n.stack]
  BY DEF Calls, Machines, SameShared
<1>4. h.change = c /\ h.withCQ = withCQ /\ h.oldLen = Len(m.plan)
      /\ h.at = "begin" /\ h.left = <<>>
  OBVIOUS
<1>. HIDE DEF h, n
<1>5. /\ n.stack \in Seq(Frames) /\ Len(n.stack) = Len(m.stack) + 1
      /\ \A k \in 1 .. Len(m.stack) : n.stack[k] = m.stack[k]
      /\ n.stack[Len(m.stack) + 1] = h
  BY <1>1, <1>2, <1>3, AppendProperties
<1>6. n \in Machines
  BY <1>3, <1>5 DEF Machines
<1>. QED  BY <1>3, <1>4, <1>5, <1>6 DEF n

(* A return takes the frame on top away, and changes nothing else. *)
LEMMA ReturnsFacts ==
  ASSUME NEW m \in Machines, m.stack # <<>>
  PROVE  LET n == Returns(m)
         IN /\ n \in Machines /\ SameShared(m, n) /\ SameBelow(m, n)
            /\ Len(n.stack) = Len(m.stack) - 1
            /\ n.stack = <<>> <=> Len(m.stack) = 1
<1>. DEFINE n == Returns(m)
            d == Len(m.stack)
<1>1. d \in Nat \ {0} /\ m.stack \in Seq(Frames)
  BY TopFacts
<1>2. n.stack = SubSeq(m.stack, 1, d - 1) /\ SameShared(m, n)
      /\ n = [m EXCEPT !.stack = n.stack]
  BY DEF Returns, Machines, SameShared
<1>. HIDE DEF n, d
<1>3. /\ n.stack \in Seq(Frames) /\ Len(n.stack) = d - 1
      /\ \A k \in 1 .. d - 1 : n.stack[k] = m.stack[k]
  <2>1. \A k \in 1 .. d - 1 : m.stack[k] \in Frames
    BY <1>1, ElementOfSeq DEF d
  <2>2. /\ SubSeq(m.stack, 1, d - 1) \in Seq(Frames)
        /\ Len(SubSeq(m.stack, 1, d - 1)) = IF 1 <= d - 1 THEN d - 1 - 1 + 1 ELSE 0
        /\ \A k \in 1 .. d - 1 - 1 + 1 :
             SubSeq(m.stack, 1, d - 1)[k] = m.stack[1 + k - 1]
    BY <1>1, <2>1, SubSeqProperties
  <2>. QED  BY <1>1, <1>2, <2>2
<1>4. n \in Machines
  BY <1>2, <1>3 DEF Machines
<1>5. n.stack = <<>> <=> d = 1
  BY <1>1, <1>3, EmptySeq
<1>. QED  BY <1>2, <1>3, <1>4, <1>5 DEF n, d, SameBelow

-----------------------------------------------------------------------------
(* The CQ-DEPENDs of a change that it must land with. *)
CQParents(g, c) == Elements(Unsatisfied(g, g.cq[c]))

(* A dependency of c is not ready to be committed. *)
Obstacle(g, c) == NotReady(g, g.gerrit[c]) \/ NotReady(g, g.cq[c])

(* A call that has not come to its CQ-DEPENDs yet. *)
Early(f) == f.withCQ /\ f.at # "cq"

(* The k-th frame fits what the calls share. A call with include_cq_deps    *)
(* off was made, directly or not, for a Gerrit dependency of a call with    *)
(* it on.                                                                   *)
Shaped(m, k) ==
  LET f == m.stack[k]
  IN /\ k < Len(m.stack) => f.at \in {"gerrit", "cq"}
     /\ f.oldLen <= Len(m.plan)
     /\ f.at = "begin" => f.oldLen = Len(m.plan)
     /\ f.at = "cq" => f.withCQ
     /\ ~f.withCQ =>
          \E j \in 1 .. Len(m.stack) :
            j < k /\ m.stack[j].at = "gerrit" /\ m.stack[j].withCQ
     /\ Early(f) => f.change \notin m.cqSeen
     /\ f.at \in {"gerrit", "append"} => f.change \in m.gerritSeen
     /\ f.at = "cq" => f.change \in m.cqSeen

Shape(m) == \A k \in 1 .. Len(m.stack) : Shaped(m, k)

(* Above a call that goes through Gerrit dependencies, every call is for    *)
(* an ancestor of its change, and none of them goes through those of a      *)
(* change a second time.                                                    *)
Branch(g, m) ==
  /\ \A k \in 1 .. Len(m.stack) :
       m.stack[k].at = "gerrit" =>
         Elements(m.stack[k].left) \subseteq GerritParents(g, m.stack[k].change)
  /\ \A j, k \in 1 .. Len(m.stack) :
       j < k /\ m.stack[j].at = "gerrit" =>
         /\ ~m.stack[k].withCQ
         /\ LeadsTo(g, m.stack[j].change, m.stack[k].change)
         /\ m.stack[k].at = "gerrit" => m.stack[j].change # m.stack[k].change

(* Everything seen, planned or called for must land with r; the plan has    *)
(* what is in cqSeen, and nothing twice.                                    *)
Origin(g, r, m) ==
  LET Fine == LandsWith(g, r) \ g.committed
  IN /\ Elements(m.plan) \subseteq m.gerritSeen
     /\ m.cqSeen \subseteq Elements(m.plan)
     /\ m.gerritSeen \subseteq Fine
     /\ \A k \in 1 .. Len(m.stack) :
          m.stack[k].change \in Fine /\ Elements(m.stack[k].left) \subseteq Fine
     /\ OnlyOnce(m.plan)

(* Looking up the dependencies of what was seen has not raised. *)
Looked(g, m) ==
  /\ \A x \in m.gerritSeen : ~NotReady(g, g.gerrit[x])
  /\ \A x \in m.cqSeen : ~NotReady(g, g.cq[x])

(* The following say that what a finished plan must have is in it           *)
(* already, or is still pending: some call under way will see to it.        *)
(* First the change of the transaction itself;                              *)
RootPending(r, m) ==
  \/ r \in Elements(m.plan)
  \/ m.stack # <<>> /\ m.stack[1].change = r /\ m.stack[1].at # "cq"

(* a change whose Gerrit dependencies were looked up; *)
SeenPending(m) ==
  \A x \in m.gerritSeen :
    \/ x \in Elements(m.plan)
    \/ \E k \in 1 .. Len(m.stack) :
         m.stack[k].at \in {"gerrit", "append"} /\ m.stack[k].change = x

(* its Gerrit dependencies; *)
GerritPending(g, m) ==
  \A x \in m.gerritSeen : \A d \in GerritParents(g, x) :
    \/ d \in Elements(m.plan)
    \/ \E k \in 1 .. Len(m.stack) :
         /\ m.stack[k].at = "gerrit" /\ m.stack[k].change = x
         /\ \/ d \in Elements(m.stack[k].left)
            \/ k < Len(m.stack) /\ m.stack[k + 1].change = d

(* the lookup of the CQ-DEPENDs of a change in the plan, which a call has   *)
(* in its list or will put there;                                           *)
CQPending(m) ==
  \A x \in Elements(m.plan) :
    \/ x \in m.cqSeen
    \/ \E k \in 1 .. Len(m.stack) :
         LET f == m.stack[k]
         IN \/ f.at = "cq" /\ x \in Elements(f.left)
            \/ Early(f) /\ f.change = x
            \/ Early(f) /\ \E i \in f.oldLen + 1 .. Len(m.plan) : m.plan[i] = x

(* and the CQ-DEPENDs that were looked up. *)
CQDepsPending(g, m) ==
  \A x \in m.cqSeen : \A d \in CQParents(g, x) :
    \/ d \in m.cqSeen
    \/ \E k \in 1 .. Len(m.stack) :
         LET f == m.stack[k]
         IN \/ f.at = "cq" /\ d \in Elements(f.left)
            \/ Early(f) /\ f.change = d

(* Parents come before their children, also once the change about to be     *)
(* appended is in the plan.                                                 *)
Ordered(g, m) ==
  /\ ParentsBeforeChildren(g, m.plan)
  /\ \A k \in 1 .. Len(m.stack) :
       m.stack[k].at = "append" /\ m.stack[k].change \notin Elements(m.plan) =>
         \/ LeadsTo(g, m.stack[k].change, m.stack[k].change)
         \/ GerritParents(g, m.stack[k].change) \subseteq Elements(m.plan)

(* The calls for r are under way, and none has raised. *)
Going(g, r, m) ==
  /\ m \in Machines /\ ~m.raised
  /\ Shape(m) /\ Branch(g, m) /\ Origin(g, r, m) /\ Looked(g, m)
  /\ RootPending(r, m) /\ SeenPending(m) /\ GerritPending(g, m)
  /\ CQPending(m) /\ CQDepsPending(g, m) /\ Ordered(g, m)

(* What holds of the calls for r at every moment. *)
RunInv(g, r, m) ==
  IF r \in g.committed THEN m \in {Start(r), Idle}
  ELSE \/ Going(g, r, m)
       \/ /\ m.raised /\ m.stack = <<>>
          /\ \E x \in LandsWith(g, r) : Obstacle(g, x)

(* Every change has its lists of dependencies. *)
GoodPool(g) ==
  /\ g.gerrit \in [Patches -> Seq(Patches)]
  /\ g.cq \in [Patches -> Seq(Patches)]

(* What a lookup returns: the dependencies that deps_filter_fn wants and    *)
(* that are not committed or skipped.                                       *)
LEMMA UnsatisfiedFacts ==
  ASSUME NEW g, GoodPool(g), NEW c \in Patches
  PROVE  /\ Unsatisfied(g, g.gerrit[c]) \in Seq(Patches)
         /\ Unsatisfied(g, g.cq[c]) \in Seq(Patches)
         /\ GerritParents(g, c) =
              {x \in Elements(g.gerrit[c]) :
                 x \in g.wanted \ (g.committed \cup g.skipped)}
         /\ CQParents(g, c) =
              {x \in Elements(g.cq[c]) :
                 x \in g.wanted \ (g.committed \cup g.skipped)}
         /\ GerritParents(g, c) \subseteq Patches \ g.committed
         /\ CQParents(g, c) \subseteq Patches \ g.committed
         /\ Needs(g, c) = GerritParents(g, c) \cup CQParents(g, c)
<1>1. g.gerrit[c] \in Seq(Patches) /\ g.cq[c] \in Seq(Patches)
  BY DEF GoodPool
<1>2. Elements(g.gerrit[c]) \subseteq Patches /\ Elements(g.cq[c]) \subseteq Patches
  BY <1>1 DEF Elements
<1>3. /\ Unsatisfied(g, g.gerrit[c]) \in Seq(Patches)
      /\ GerritParents(g, c) =
           {x \in Elements(g.gerrit[c]) :
              x \in g.wanted \ (g.committed \cup g.skipped)}
  BY <1>1, KeptFacts DEF Unsatisfied, GerritParents
<1>4. /\ Unsatisfied(g, g.cq[c]) \in Seq(Patches)
      /\ CQParents(g, c) =
           {x \in Elements(g.cq[c]) :
              x \in g.wanted \ (g.committed \cup g.skipped)}
  BY <1>1, KeptFacts DEF Unsatisfied, CQParents
<1>5. Needs(g, c) = GerritParents(g, c) \cup CQParents(g, c)
  BY DEF Needs, CQParents
<1>. QED  BY <1>2, <1>3, <1>4, <1>5

(* What must land with r is the least set with r that has what its          *)
(* changes need.                                                            *)
LEMMA LandsWithFacts ==
  ASSUME NEW g, GoodPool(g), NEW r \in Patches
  PROVE  /\ LandsWith(g, r) \subseteq Patches /\ r \in LandsWith(g, r)
         /\ \A x \in LandsWith(g, r) : Needs(g, x) \subseteq LandsWith(g, r)
         /\ \A set \in SUBSET Patches :
              r \in set /\ Closed(g, set) => LandsWith(g, r) \subseteq set
<1>1. All(g) = Patches
  BY DEF GoodPool, All
<1>2. ASSUME NEW x \in LandsWith(g, r), NEW y \in Needs(g, x)
      PROVE  y \in LandsWith(g, r)
  <2>1. x \in Patches
    BY <1>1, <1>2 DEF LandsWith
  <2>2. y \in Patches
    BY <1>2, <2>1, UnsatisfiedFacts
  <2>3. ASSUME NEW set \in SUBSET Patches, r \in set, Closed(g, set)
        PROVE  y \in set
    BY <1>1, <1>2, <2>3 DEF LandsWith, Closed
  <2>. QED  BY <1>1, <2>2, <2>3 DEF LandsWith
<1>3. LandsWith(g, r) \subseteq Patches /\ r \in LandsWith(g, r)
  BY <1>1 DEF LandsWith
<1>4. \A set \in SUBSET Patches :
        r \in set /\ Closed(g, set) => LandsWith(g, r) \subseteq set
  BY <1>1 DEF LandsWith
<1>. QED  BY <1>2, <1>3, <1>4

(* Gerrit dependencies lead to the parents, and on to theirs. *)
LEMMA LeadsToFacts ==
  ASSUME NEW g, GoodPool(g), NEW x \in Patches
  PROVE  /\ \A y \in GerritParents(g, x) : LeadsTo(g, x, y)
         /\ \A y \in Patches : \A z \in GerritParents(g, y) :
              LeadsTo(g, x, y) => LeadsTo(g, x, z)
  BY DEF LeadsTo

(* The elements of a list are its head and those of its tail. *)
LEMMA HeadTailElements ==
  ASSUME NEW X, NEW s \in Seq(X), s # <<>>
  PROVE  /\ Elements(s) = {Head(s)} \cup Elements(Tail(s))
         /\ Head(s) \in X /\ Tail(s) \in Seq(X)
<1>1. /\ Head(s) \in X /\ Tail(s) \in Seq(X) /\ Len(Tail(s)) = Len(s) - 1
      /\ Len(s) \in Nat \ {0} /\ Head(s) = s[1]
      /\ \A i \in 1 .. Len(Tail(s)) : Tail(s)[i] = s[i + 1]
  BY HeadTailProperties, EmptySeq
<1>. DEFINE t == Tail(s)
<1>2. DOMAIN s = 1 .. Len(s) /\ DOMAIN t = 1 .. Len(s) - 1
  BY <1>1, LenProperties
<1>3. \A i \in 1 .. Len(s) - 1 : t[i] = s[i + 1]
  BY <1>1
<1>. HIDE DEF t
<1>4. ASSUME NEW i \in 1 .. Len(s)  PROVE s[i] = s[1] \/ s[i] \in Elements(t)
  <2>1. CASE i # 1
    <3>1. i - 1 \in 1 .. Len(s) - 1 /\ t[i - 1] = s[i]
      BY <1>1, <1>3, <2>1
    <3>. QED  BY <1>2, <3>1 DEF Elements
  <2>. QED  BY <2>1
<1>5. ASSUME NEW i \in 1 .. Len(s) - 1  PROVE t[i] \in Elements(s)
  BY <1>1, <1>2, <1>3 DEF Elements
<1>6. s[1] \in Elements(s)
  BY <1>1, <1>2 DEF Elements
<1>7. Elements(s) \subseteq {s[1]} \cup Elements(t)
  BY <1>2, <1>4 DEF Elements
<1>8. Elements(t) \subseteq Elements(s)
  BY <1>2, <1>5 DEF Elements
<1>. QED  BY <1>1, <1>6, <1>7, <1>8 DEF t

(* The empty list has no elements. *)
LEMMA EmptyElements == Elements(<<>>) = {}
  BY DEF Elements

(* The elements of a list made of two are those of both. *)
LEMMA ConcatElements ==
  ASSUME NEW X, NEW s \in Seq(X), NEW t \in Seq(X)
  PROVE  s \o t \in Seq(X) /\ Elements(s \o t) = Elements(s) \cup Elements(t)
<1>. DEFINE u == s \o t
<1>1. /\ u \in Seq(X) /\ Len(u) = Len(s) + Len(t)
      /\ \A i \in 1 .. Len(s) + Len(t) :
           u[i] = IF i <= Len(s) THEN s[i] ELSE t[i - Len(s)]
      /\ Len(s) \in Nat /\ Len(t) \in Nat
      /\ DOMAIN s = 1 .. Len(s) /\ DOMAIN t = 1 .. Len(t) /\ DOMAIN u = 1 .. Len(u)
  BY ConcatProperties, LenProperties
<1>. HIDE DEF u
<1>2. ASSUME NEW i \in 1 .. Len(t)  PROVE t[i] \in Elements(u)
  <2>1. Len(s) + i \in 1 .. Len(u) /\ u[Len(s) + i] = t[i]
    BY <1>1
  <2>. QED  BY <1>1, <2>1 DEF Elements
<1>3. ASSUME NEW i \in 1 .. Len(s)  PROVE s[i] \in Elements(u)
  <2>1. i \in 1 .. Len(u) /\ u[i] = s[i]
    BY <1>1
  <2>. QED  BY <1>1, <2>1 DEF Elements
<1>4. ASSUME NEW i \in 1 .. Len(u)  PROVE u[i] \in Elements(s) \cup Elements(t)
  <2>1. CASE i <= Len(s)
    BY <1>1, <2>1 DEF Elements
  <2>2. CASE ~ (i <= Len(s))
    <3>1. i - Len(s) \in 1 .. Len(t) /\ u[i] = t[i - Len(s)]
      BY <1>1, <2>2
    <3>. QED  BY <1>1, <3>1 DEF Elements
  <2>. QED  BY <2>1, <2>2
<1>5. Elements(s) \subseteq Elements(u) /\ Elements(t) \subseteq Elements(u)
  BY <1>1, <1>2, <1>3 DEF Elements
<1>6. Elements(u) \subseteq Elements(s) \cup Elements(t)
  BY <1>1, <1>4 DEF Elements
<1>. QED  BY <1>1, <1>5, <1>6 DEF u

(* Appending adds one element, at the end. *)
LEMMA AppendElements ==
  ASSUME NEW X, NEW s \in Seq(X), NEW x \in X
  PROVE  /\ Append(s, x) \in Seq(X) /\ Len(Append(s, x)) = Len(s) + 1
         /\ Elements(Append(s, x)) = Elements(s) \cup {x}
         /\ \A i \in 1 .. Len(s) : Append(s, x)[i] = s[i]
         /\ Append(s, x)[Len(s) + 1] = x
         /\ OnlyOnce(s) /\ x \notin Elements(s) => OnlyOnce(Append(s, x))
<1>. DEFINE u == Append(s, x)
<1>1. /\ u \in Seq(X) /\ Len(u) = Len(s) + 1 /\ Len(s) \in Nat
      /\ \A i \in 1 .. Len(s) : u[i] = s[i]
      /\ u[Len(s) + 1] = x
      /\ DOMAIN s = 1 .. Len(s) /\ DOMAIN u = 1 .. Len(s) + 1
  BY AppendProperties, LenProperties
<1>. HIDE DEF u
<1>2. Elements(u) = Elements(s) \cup {x}
  <2>1. \A i \in 1 .. Len(s) + 1 : i \in 1 .. Len(s) \/ i = Len(s) + 1
    BY <1>1
  <2>2. Elements(s) \subseteq Elements(u) /\ x \in Elements(u)
    BY <1>1 DEF Elements
  <2>3. Elements(u) \subseteq Elements(s) \cup {x}
    BY <1>1, <2>1 DEF Elements
  <2>. QED  BY <2>2, <2>3
<1>3. OnlyOnce(s) /\ x \notin Elements(s) => OnlyOnce(u)
  BY <1>1 DEF OnlyOnce, Elements
<1>. QED  BY <1>1, <1>2, <1>3 DEF u

-----------------------------------------------------------------------------
(* A call on top that is before its CQ-DEPENDs and stays before them keeps  *)
(* all that is pending there.                                               *)
LEMMA TopStaysEarly ==
  ASSUME NEW g, NEW m, NEW n, NEW d \in Nat \ {0},
         Len(m.stack) = d, Len(n.stack) = d,
         n.plan = m.plan, n.cqSeen = m.cqSeen,
         \A k \in 1 .. d : k < d => n.stack[k] = m.stack[k],
         n.stack[d].change = m.stack[d].change,
         n.stack[d].withCQ = m.stack[d].withCQ,
         n.stack[d].oldLen = m.stack[d].oldLen,
         m.stack[d].at # "cq", n.stack[d].at # "cq",
         CQPending(m), CQDepsPending(g, m)
  PROVE  CQPending(n) /\ CQDepsPending(g, n)
<1>1. ASSUME NEW k \in 1 .. d
      PROVE  /\ Early(n.stack[k]) = Early(m.stack[k])
             /\ n.stack[k].change = m.stack[k].change
             /\ n.stack[k].oldLen = m.stack[k].oldLen
             /\ m.stack[k].at = "cq" => n.stack[k] = m.stack[k]
  <2>1. CASE k < d
    BY <2>1
  <2>2. CASE k = d
    BY <2>2 DEF Early
  <2>. QED  BY <2>1, <2>2
<1>2. CQPending(n)
  <2>. SUFFICES ASSUME NEW x \in Elements(m.plan), x \notin m.cqSeen
                PROVE  \E k \in 1 .. d :
                         \/ n.stack[k].at = "cq" /\ x \in Elements(n.stack[k].left)
                         \/ Early(n.stack[k]) /\ n.stack[k].change = x
                         \/ /\ Early(n.stack[k])
                            /\ \E i \in n.stack[k].oldLen + 1 .. Len(m.plan) :
                                 m.plan[i] = x
    BY DEF CQPending
  <2>1. PICK k \in 1 .. d :
                \/ m.stack[k].at = "cq" /\ x \in Elements(m.stack[k].left)
                \/ Early(m.stack[k]) /\ m.stack[k].change = x
                \/ /\ Early(m.stack[k])
                   /\ \E i \in m.stack[k].oldLen + 1 .. Len(m.plan) :
                        m.plan[i] = x
    BY DEF CQPending
  <2>. QED  BY <1>1, <2>1
<1>3. CQDepsPending(g, n)
  <2>. SUFFICES ASSUME NEW x \in m.cqSeen, NEW y \in CQParents(g, x),
                       y \notin m.cqSeen
                PROVE  \E k \in 1 .. d :
                         \/ n.stack[k].at = "cq" /\ y \in Elements(n.stack[k].left)
                         \/ Early(n.stack[k]) /\ n.stack[k].change = y
    BY DEF CQDepsPending
  <2>1. PICK k \in 1 .. d :
                \/ m.stack[k].at = "cq" /\ y \in Elements(m.stack[k].left)
                \/ Early(m.stack[k]) /\ m.stack[k].change = y
    BY DEF CQDepsPending
  <2>. QED  BY <1>1, <2>1
<1>. QED  BY <1>2, <1>3

(* The change was seen before: on to adding it. *)
LEMMA EnterSeen ==
  ASSUME NEW g, GoodPool(g), NEW r \in Patches, NEW m, Going(g, r, m),
         m.stack # <<>>, Top(m).at = "begin", Top(m).change \in m.gerritSeen
  PROVE  Going(g, r, Goes(m, "append", <<>>))
<1>. DEFINE n == Goes(m, "append", <<>>)
            d == Len(m.stack)
<1>0. m \in Machines /\ ~m.raised
  BY DEF Going
<1>1. /\ d \in Nat \ {0} /\ m.stack[d].at = "begin"
      /\ m.stack[d].change \in m.gerritSeen
  BY <1>0, TopFacts
<1>2. /\ n \in Machines /\ Len(n.stack) = d /\ n.stack # <<>>
      /\ n.plan = m.plan /\ n.gerritSeen = m.gerritSeen
      /\ n.cqSeen = m.cqSeen /\ n.raised = m.raised
      /\ \A k \in 1 .. d : k < d => n.stack[k] = m.stack[k]
      /\ n.stack[d].change = m.stack[d].change
      /\ n.stack[d].withCQ = m.stack[d].withCQ
      /\ n.stack[d].oldLen = m.stack[d].oldLen
      /\ n.stack[d].at = "append" /\ n.stack[d].left = <<>>
  <2>1. <<>> \in Seq(Patches)
    OBVIOUS
  <2>2. /\ n \in Machines /\ SameShared(m, n) /\ Len(n.stack) = d
        /\ n.stack # <<>> /\ Moved(m, n, "append", <<>>)
    BY <1>0, <2>1, GoesFacts
  <2>. HIDE DEF n
  <2>. QED  BY <1>1, <2>2 DEF SameShared, SameBelow, Moved
<1>. HIDE DEF n, d
<1>3. \A k \in 1 .. d : k < d \/ k = d
  BY <1>1
<1>4. Shape(m) /\ Branch(g, m) /\ Origin(g, r, m)
      /\ SeenPending(m) /\ GerritPending(g, m)
  BY DEF Going
<1>5. Shape(n)
  <2>. SUFFICES ASSUME NEW k \in 1 .. d
                PROVE  Shaped(n, k)
    BY <1>2 DEF Shape
  <2>1. ASSUME ~m.stack[k].withCQ
        PROVE  \E j \in 1 .. d :
                 j < k /\ n.stack[j].at = "gerrit" /\ n.stack[j].withCQ
    <3>1. PICK j \in 1 .. d :
            j < k /\ m.stack[j].at = "gerrit" /\ m.stack[j].withCQ
      BY <1>4, <2>1 DEF Shape, Shaped, d
    <3>2. j < d
      BY <1>1, <3>1
    <3>. QED  BY <1>2, <3>1, <3>2
  <2>2. CASE k < d
    <3>1. n.stack[k] = m.stack[k]
      BY <1>2, <2>2
    <3>2. k < d => m.stack[k].at \in {"gerrit", "cq"}
      BY <1>4 DEF Shape, Shaped, d
    <3>. QED  BY <1>2, <1>4, <2>1, <2>2, <3>1, <3>2 DEF Shape, Shaped, d
  <2>3. CASE k = d
    <3>1. /\ m.stack[k].oldLen <= Len(m.plan)
          /\ Early(m.stack[k]) => m.stack[k].change \notin m.cqSeen
          /\ ~(k < d)
      BY <1>1, <1>4, <2>3 DEF Shape, Shaped, d
    <3>. QED  BY <1>1, <1>2, <1>4, <2>1, <2>3, <3>1 DEF Early, Shape, Shaped, d
  <2>. QED  BY <1>3, <2>2, <2>3
<1>6. Branch(g, n)
  <2>1. \A k \in 1 .. d : n.stack[k].at = "gerrit" =>
          Elements(n.stack[k].left) \subseteq GerritParents(g, n.stack[k].change)
    BY <1>1, <1>2, <1>3, <1>4 DEF Branch, d
  <2>2. ASSUME NEW j \in 1 .. d, NEW k \in 1 .. d, j < k,
               n.stack[j].at = "gerrit"
        PROVE  /\ ~n.stack[k].withCQ
               /\ LeadsTo(g, n.stack[j].change, n.stack[k].change)
               /\ n.stack[k].at = "gerrit" =>
                    n.stack[j].change # n.stack[k].change
    <3>1. j < d /\ n.stack[j] = m.stack[j]
      BY <1>1, <1>2, <2>2
    <3>. QED  BY <1>1, <1>2, <1>3, <1>4, <2>2, <3>1 DEF Branch, d
  <2>. QED  BY <1>2, <2>1, <2>2 DEF Branch
<1>7. Origin(g, r, n)
  BY <1>1, <1>2, <1>3, <1>4, EmptyElements DEF Origin, d
<1>8. Looked(g, n)
  BY <1>2 DEF Going, Looked
<1>9. RootPending(r, n)
  BY <1>1, <1>2, <1>3 DEF Going, RootPending, d
<1>10. SeenPending(n)
  <2>. SUFFICES ASSUME NEW x \in n.gerritSeen, x \notin Elements(m.plan)
                PROVE  \E k \in 1 .. d :
                         n.stack[k].at \in {"gerrit", "append"}
                         /\ n.stack[k].change = x
    BY <1>2 DEF SeenPending
  <2>1. PICK k \in 1 .. d : m.stack[k].at \in {"gerrit", "append"}
                            /\ m.stack[k].change = x
    BY <1>2, <1>4 DEF SeenPending, d
  <2>2. n.stack[k].at \in {"gerrit", "append"} /\ n.stack[k].change = x
    <3>1. CASE k < d
      BY <1>2, <2>1, <3>1
    <3>2. CASE k = d
      BY <1>1, <1>2, <2>1, <3>2
    <3>. QED  BY <1>3, <3>1, <3>2
  <2>. QED  BY <2>2
<1>11. GerritPending(g, n)
  <2>. SUFFICES ASSUME NEW x \in n.gerritSeen, NEW y \in GerritParents(g, x),
                       y \notin Elements(m.plan)
                PROVE  \E k \in 1 .. d :
                         /\ n.stack[k].at = "gerrit" /\ n.stack[k].change = x
                         /\ \/ y \in Elements(n.stack[k].left)
                            \/ k < d /\ n.stack[k + 1].change = y
    BY <1>2 DEF GerritPending
  <2>1. PICK k \in 1 .. d :
          /\ m.stack[k].at = "gerrit" /\ m.stack[k].change = x
          /\ \/ y \in Elements(m.stack[k].left)
             \/ k < d /\ m.stack[k + 1].change = y
    BY <1>2, <1>4 DEF GerritPending, d
  <2>2. k < d
    BY <1>1, <1>3, <2>1
  <2>3. n.stack[k] = m.stack[k]
    BY <1>2, <2>2
  <2>4. k + 1 \in 1 .. d
    BY <1>1, <2>2
  <2>5. n.stack[k + 1].change = m.stack[k + 1].change
    BY <1>2, <1>3, <2>4
  <2>. QED  BY <2>1, <2>2, <2>3, <2>5
<1>12. CQPending(n) /\ CQDepsPending(g, n)
  BY <1>1, <1>2, <1>4, TopStaysEarly DEF Going, d
<1>14. Ordered(g, n)
  <2>1. ASSUME m.stack[d].change \notin Elements(m.plan)
        PROVE  LeadsTo(g, m.stack[d].change, m.stack[d].change)
    <3>1. PICK k \in 1 .. d : m.stack[k].at \in {"gerrit", "append"}
                              /\ m.stack[k].change = m.stack[d].change
      BY <1>1, <1>4, <2>1 DEF SeenPending, d
    <3>2. k < d
      BY <1>1, <1>3, <3>1
    <3>3. m.stack[k].at \in {"gerrit", "cq"}
      BY <1>4, <3>2 DEF Shape, Shaped, d
    <3>4. m.stack[k].at = "gerrit"
      BY <3>1, <3>3
    <3>5. d \in 1 .. d
      BY <1>1
    <3>. QED  BY <1>4, <3>1, <3>2, <3>4, <3>5 DEF Branch, d
  <2>. QED  BY <1>1, <1>2, <1>3, <2>1 DEF Going, Ordered, d
<1>. QED  BY <1>0, <1>2, <1>5, <1>6, <1>7, <1>8, <1>9, <1>10, <1>11, <1>12,
             <1>14 DEF Going, n

(* It was not: on to its Gerrit dependencies. *)
LEMMA EnterNew ==
  ASSUME NEW g, GoodPool(g), NEW r \in Patches, NEW m, Going(g, r, m),
         m.stack # <<>>, Top(m).at = "begin",
         Top(m).change \notin m.gerritSeen,
         ~NotReady(g, g.gerrit[Top(m).change])
  PROVE  Going(g, r, Goes([m EXCEPT !.gerritSeen = @ \cup {Top(m).change}],
                   "gerrit", Unsatisfied(g, g.gerrit[Top(m).change])))
<1>. DEFINE n == Goes([m EXCEPT !.gerritSeen = @ \cup {Top(m).change}],
                      "gerrit", Unsatisfied(g, g.gerrit[Top(m).change]))
            d == Len(m.stack)
<1>0. m \in Machines /\ ~m.raised
  BY DEF Going
<1>4. /\ Shape(m) /\ Branch(g, m) /\ Origin(g, r, m) /\ Looked(g, m)
      /\ RootPending(r, m) /\ SeenPending(m) /\ GerritPending(g, m)
      /\ CQPending(m) /\ CQDepsPending(g, m) /\ Ordered(g, m)
  BY DEF Going

<1>1. /\ d \in Nat \ {0} /\ m.stack[d].at = "begin"
      /\ m.stack[d].change \notin m.gerritSeen
      /\ m.stack[d].change \in Patches
      /\ ~NotReady(g, g.gerrit[m.stack[d].change])
  BY <1>0, TopFacts DEF Frames
<1>2. /\ n \in Machines /\ Len(n.stack) = d /\ n.stack # <<>>
      /\ n.plan = m.plan /\ n.cqSeen = m.cqSeen /\ n.raised = m.raised
      /\ n.gerritSeen = m.gerritSeen \cup {m.stack[d].change}
      /\ \A k \in 1 .. d : k < d => n.stack[k] = m.stack[k]
      /\ n.stack[d].change = m.stack[d].change
      /\ n.stack[d].withCQ = m.stack[d].withCQ
      /\ n.stack[d].oldLen = m.stack[d].oldLen
      /\ n.stack[d].at = "gerrit"
      /\ Elements(n.stack[d].left) = GerritParents(g, m.stack[d].change)
  <2>. DEFINE c == Top(m).change
              v == [m EXCEPT !.gerritSeen = @ \cup {c}]
              l == Unsatisfied(g, g.gerrit[c])
  <2>1. c = m.stack[d].change
    BY <1>0, TopFacts
  <2>2. /\ v \in Machines /\ v.stack = m.stack /\ v.plan = m.plan
        /\ v.gerritSeen = m.gerritSeen \cup {c} /\ v.cqSeen = m.cqSeen
        /\ v.raised = m.raised
    BY <1>0, <1>1, <2>1 DEF Machines
  <2>3. l \in Seq(Patches) /\ Elements(l) = GerritParents(g, c)
    BY <1>1, <2>1, UnsatisfiedFacts DEF GerritParents
  <2>. HIDE DEF v, l, c
  <2>4. /\ Goes(v, "gerrit", l) \in Machines
        /\ SameShared(v, Goes(v, "gerrit", l))
        /\ Len(Goes(v, "gerrit", l).stack) = Len(v.stack)
        /\ Goes(v, "gerrit", l).stack # <<>>
        /\ Moved(v, Goes(v, "gerrit", l), "gerrit", l)
    BY <2>2, <2>3, GoesFacts
  <2>5. n = Goes(v, "gerrit", l)
    BY DEF v, l, c
  <2>. HIDE DEF n
  <2>. QED  BY <1>1, <2>1, <2>2, <2>3, <2>4, <2>5
            DEF SameShared, SameBelow, Moved
<1>. HIDE DEF n, d
<1>3. \A k \in 1 .. d : k < d \/ k = d
  BY <1>1
<1>5. Shape(n)
  <2>. SUFFICES ASSUME NEW k \in 1 .. d
                PROVE  Shaped(n, k)
    BY <1>2 DEF Shape
  <2>1. ASSUME ~m.stack[k].withCQ
        PROVE  \E j \in 1 .. d :
                 j < k /\ n.stack[j].at = "gerrit" /\ n.stack[j].withCQ
    <3>1. PICK j \in 1 .. d :
            j < k /\ m.stack[j].at = "gerrit" /\ m.stack[j].withCQ
      BY <1>4, <2>1 DEF Shape, Shaped, d
    <3>2. j < d
      BY <1>1, <3>1
    <3>. QED  BY <1>2, <3>1, <3>2
  <2>2. CASE k < d
    <3>1. n.stack[k] = m.stack[k]
      BY <1>2, <2>2
    <3>2. k < d => m.stack[k].at \in {"gerrit", "cq"}
      BY <1>4 DEF Shape, Shaped, d
    <3>. QED  BY <1>2, <1>4, <2>1, <2>2, <3>1, <3>2 DEF Shape, Shaped, d
  <2>3. CASE k = d
    <3>1. /\ m.stack[k].oldLen <= Len(m.plan)
          /\ Early(m.stack[k]) => m.stack[k].change \notin m.cqSeen
          /\ ~(k < d)
      BY <1>1, <1>4, <2>3 DEF Shape, Shaped, d
    <3>. QED  BY <1>1, <1>2, <1>4, <2>1, <2>3, <3>1 DEF Early, Shape, Shaped, d
  <2>. QED  BY <1>3, <2>2, <2>3
<1>6. Branch(g, n)
  <2>1. \A k \in 1 .. d : n.stack[k].at = "gerrit" =>
          Elements(n.stack[k].left) \subseteq GerritParents(g, n.stack[k].change)
    BY <1>1, <1>2, <1>3, <1>4 DEF Branch, d
  <2>2. ASSUME NEW j \in 1 .. d, NEW k \in 1 .. d, j < k,
               n.stack[j].at = "gerrit"
        PROVE  /\ ~n.stack[k].withCQ
               /\ LeadsTo(g, n.stack[j].change, n.stack[k].change)
               /\ n.stack[k].at = "gerrit" =>
                    n.stack[j].change # n.stack[k].change
    <3>1. j < d /\ n.stack[j] = m.stack[j]
      BY <1>1, <1>2, <2>2
    <3>2. /\ ~m.stack[k].withCQ
          /\ LeadsTo(g, m.stack[j].change, m.stack[k].change)
          /\ m.stack[k].at = "gerrit" => m.stack[j].change # m.stack[k].change
      BY <1>4, <2>2, <3>1 DEF Branch, d
    <3>3. /\ n.stack[k].change = m.stack[k].change
          /\ n.stack[k].withCQ = m.stack[k].withCQ
          /\ k < d => n.stack[k] = m.stack[k]
      BY <1>2, <1>3
    <3>4. m.stack[j].change \in m.gerritSeen
      BY <1>4, <2>2, <3>1 DEF Shape, Shaped, d
    <3>5. k = d => m.stack[j].change # m.stack[k].change
      BY <1>1, <3>4
    <3>. QED  BY <1>3, <2>2, <3>1, <3>2, <3>3, <3>5
  <2>. QED  BY <1>2, <2>1, <2>2 DEF Branch
<1>7. Origin(g, r, n)
  <2>1. m.stack[d].change \in LandsWith(g, r) \ g.committed
    BY <1>1, <1>2, <1>3, <1>4 DEF Origin, d
  <2>2. GerritParents(g, m.stack[d].change) \subseteq LandsWith(g, r) \ g.committed
    BY <1>1, <2>1, LandsWithFacts, UnsatisfiedFacts
  <2>. QED  BY <1>1, <1>2, <1>3, <1>4, <2>1, <2>2 DEF Origin, d
<1>8. Looked(g, n)
  BY <1>1, <1>2, <1>3, <1>4 DEF Looked
<1>9. RootPending(r, n)
  BY <1>1, <1>2, <1>3, <1>4 DEF RootPending, d
<1>10. SeenPending(n)
  <2>. SUFFICES ASSUME NEW x \in n.gerritSeen, x \notin Elements(m.plan)
                PROVE  \E k \in 1 .. d :
                         n.stack[k].at \in {"gerrit", "append"}
                         /\ n.stack[k].change = x
    BY <1>2 DEF SeenPending
  <2>1. CASE x = m.stack[d].change
    <3>1. d \in 1 .. d
      BY <1>1
    <3>. QED  BY <1>2, <2>1, <3>1
  <2>2. CASE x \in m.gerritSeen
    <3>1. PICK k \in 1 .. d : m.stack[k].at \in {"gerrit", "append"}
                              /\ m.stack[k].change = x
      BY <1>4, <2>2 DEF SeenPending, d
    <3>2. n.stack[k] = m.stack[k]
      BY <1>1, <1>2, <1>3, <3>1
    <3>. QED  BY <3>1, <3>2
  <2>. QED  BY <1>2, <2>1, <2>2
<1>11. GerritPending(g, n)
  <2>. SUFFICES ASSUME NEW x \in n.gerritSeen, NEW y \in GerritParents(g, x),
                       y \notin Elements(m.plan)
                PROVE  \E k \in 1 .. d :
                         /\ n.stack[k].at = "gerrit" /\ n.stack[k].change = x
                         /\ \/ y \in Elements(n.stack[k].left)
                            \/ k < d /\ n.stack[k + 1].change = y
    BY <1>2 DEF GerritPending
  <2>1. CASE x = m.stack[d].change
    <3>1. d \in 1 .. d
      BY <1>1
    <3>. QED  BY <1>2, <2>1, <3>1
  <2>2. CASE x \in m.gerritSeen
    <3>1. PICK k \in 1 .. d :
            /\ m.stack[k].at = "gerrit" /\ m.stack[k].change = x
            /\ \/ y \in Elements(m.stack[k].left)
               \/ k < d /\ m.stack[k + 1].change = y
      BY <1>4, <2>2 DEF GerritPending, d
    <3>2. k < d
      BY <1>1, <1>3, <3>1
    <3>3. n.stack[k] = m.stack[k]
      BY <1>2, <3>2
    <3>4. k + 1 \in 1 .. d
      BY <1>1, <3>2
    <3>5. n.stack[k + 1].change = m.stack[k + 1].change
      BY <1>2, <1>3, <3>4
    <3>. QED  BY <3>1, <3>2, <3>3, <3>5
  <2>. QED  BY <1>2, <2>1, <2>2
<1>12. CQPending(n) /\ CQDepsPending(g, n)
  BY <1>1, <1>2, <1>4, TopStaysEarly DEF d
<1>14. Ordered(g, n)
  BY <1>1, <1>2, <1>3, <1>4 DEF Ordered, d
<1>. QED  BY <1>0, <1>2, <1>5, <1>6, <1>7, <1>8, <1>9, <1>10, <1>11, <1>12,
             <1>14 DEF Going, n

(* The Gerrit dependencies are in the plan: on to the change itself. *)
LEMMA GerritDone ==
  ASSUME NEW g, GoodPool(g), NEW r \in Patches, NEW m, Going(g, r, m),
         m.stack # <<>>, Top(m).at = "gerrit", Top(m).left = <<>>
  PROVE  Going(g, r, Goes(m, "append", <<>>))
<1>. DEFINE n == Goes(m, "append", <<>>)
            d == Len(m.stack)
<1>0. m \in Machines /\ ~m.raised
  BY DEF Going
<1>4. /\ Shape(m) /\ Branch(g, m) /\ Origin(g, r, m) /\ Looked(g, m)
      /\ RootPending(r, m) /\ SeenPending(m) /\ GerritPending(g, m)
      /\ CQPending(m) /\ CQDepsPending(g, m) /\ Ordered(g, m)
  BY DEF Going

<1>1. /\ d \in Nat \ {0} /\ m.stack[d].at = "gerrit"
      /\ Elements(m.stack[d].left) = {}
  BY <1>0, TopFacts, EmptyElements
<1>2. /\ n \in Machines /\ Len(n.stack) = d /\ n.stack # <<>>
      /\ n.plan = m.plan /\ n.gerritSeen = m.gerritSeen
      /\ n.cqSeen = m.cqSeen /\ n.raised = m.raised
      /\ \A k \in 1 .. d : k < d => n.stack[k] = m.stack[k]
      /\ n.stack[d].change = m.stack[d].change
      /\ n.stack[d].withCQ = m.stack[d].withCQ
      /\ n.stack[d].oldLen = m.stack[d].oldLen
      /\ n.stack[d].at = "append" /\ n.stack[d].left = <<>>
  <2>1. <<>> \in Seq(Patches)
    OBVIOUS
  <2>2. /\ n \in Machines /\ SameShared(m, n) /\ Len(n.stack) = d
        /\ n.stack # <<>> /\ Moved(m, n, "append", <<>>)
    BY <1>0, <2>1, GoesFacts
  <2>. HIDE DEF n
  <2>. QED  BY <1>1, <2>2 DEF SameShared, SameBelow, Moved
<1>. HIDE DEF n, d
<1>3. \A k \in 1 .. d : k < d \/ k = d
  BY <1>1
<1>5. Shape(n)
  <2>. SUFFICES ASSUME NEW k \in 1 .. d
                PROVE  Shaped(n, k)
    BY <1>2 DEF Shape
  <2>1. ASSUME ~m.stack[k].withCQ
        PROVE  \E j \in 1 .. d :
                 j < k /\ n.stack[j].at = "gerrit" /\ n.stack[j].withCQ
    <3>1. PICK j \in 1 .. d :
            j < k /\ m.stack[j].at = "gerrit" /\ m.stack[j].withCQ
      BY <1>4, <2>1 DEF Shape, Shaped, d
    <3>2. j < d
      BY <1>1, <3>1
    <3>. QED  BY <1>2, <3>1, <3>2
  <2>2. CASE k < d
    <3>1. n.stack[k] = m.stack[k]
      BY <1>2, <2>2
    <3>2. k < d => m.stack[k].at \in {"gerrit", "cq"}
      BY <1>4 DEF Shape, Shaped, d
    <3>. QED  BY <1>2, <1>4, <2>1, <2>2, <3>1, <3>2 DEF Shape, Shaped, d
  <2>3. CASE k = d
    <3>1. /\ m.stack[k].oldLen <= Len(m.plan)
          /\ Early(m.stack[k]) => m.stack[k].change \notin m.cqSeen
          /\ ~(k < d)
      BY <1>1, <1>4, <2>3 DEF Shape, Shaped, d
    <3>. QED  BY <1>1, <1>2, <1>4, <2>1, <2>3, <3>1 DEF Early, Shape, Shaped, d
  <2>. QED  BY <1>3, <2>2, <2>3
<1>6. Branch(g, n)
  <2>1. \A k \in 1 .. d : n.stack[k].at = "gerrit" =>
          Elements(n.stack[k].left) \subseteq GerritParents(g, n.stack[k].change)
    BY <1>1, <1>2, <1>3, <1>4 DEF Branch, d
  <2>2. ASSUME NEW j \in 1 .. d, NEW k \in 1 .. d, j < k,
               n.stack[j].at = "gerrit"
        PROVE  /\ ~n.stack[k].withCQ
               /\ LeadsTo(g, n.stack[j].change, n.stack[k].change)
               /\ n.stack[k].at = "gerrit" =>
                    n.stack[j].change # n.stack[k].change
    <3>1. j < d /\ n.stack[j] = m.stack[j]
      BY <1>1, <1>2, <2>2
    <3>2. /\ ~m.stack[k].withCQ
          /\ LeadsTo(g, m.stack[j].change, m.stack[k].change)
          /\ m.stack[k].at = "gerrit" => m.stack[j].change # m.stack[k].change
      BY <1>4, <2>2, <3>1 DEF Branch, d
    <3>3. /\ n.stack[k].change = m.stack[k].change
          /\ n.stack[k].withCQ = m.stack[k].withCQ
          /\ n.stack[k].at = "gerrit" => m.stack[k].at = "gerrit"
      BY <1>1, <1>2, <1>3
    <3>. QED  BY <3>1, <3>2, <3>3
  <2>. QED  BY <1>2, <2>1, <2>2 DEF Branch
<1>7. Origin(g, r, n)
  BY <1>1, <1>2, <1>3, <1>4, EmptyElements DEF Origin, d
<1>8. Looked(g, n)
  BY <1>2, <1>4 DEF Looked
<1>9. RootPending(r, n)
  BY <1>1, <1>2, <1>3, <1>4 DEF RootPending, d
<1>10. SeenPending(n)
  <2>. SUFFICES ASSUME NEW x \in n.gerritSeen, x \notin Elements(m.plan)
                PROVE  \E k \in 1 .. d :
                         n.stack[k].at \in {"gerrit", "append"}
                         /\ n.stack[k].change = x
    BY <1>2 DEF SeenPending
  <2>1. PICK k \in 1 .. d : m.stack[k].at \in {"gerrit", "append"}
                            /\ m.stack[k].change = x
    BY <1>2, <1>4 DEF SeenPending, d
  <2>2. n.stack[k].at \in {"gerrit", "append"} /\ n.stack[k].change = x
    <3>1. CASE k < d
      BY <1>2, <2>1, <3>1
    <3>2. CASE k = d
      BY <1>1, <1>2, <2>1, <3>2
    <3>. QED  BY <1>3, <3>1, <3>2
  <2>. QED  BY <2>2
<1>11. GerritPending(g, n)
  <2>. SUFFICES ASSUME NEW x \in m.gerritSeen, NEW y \in GerritParents(g, x),
                       y \notin Elements(m.plan)
                PROVE  \E k \in 1 .. d :
                         /\ n.stack[k].at = "gerrit" /\ n.stack[k].change = x
                         /\ \/ y \in Elements(n.stack[k].left)
                            \/ k < d /\ n.stack[k + 1].change = y
    BY <1>2 DEF GerritPending
  <2>1. PICK k \in 1 .. d :
          /\ m.stack[k].at = "gerrit" /\ m.stack[k].change = x
          /\ \/ y \in Elements(m.stack[k].left)
             \/ k < d /\ m.stack[k + 1].change = y
    BY <1>4 DEF GerritPending, d
  <2>2. k < d
    <3>1. CASE k = d
      BY <1>1, <2>1, <3>1
    <3>. QED  BY <1>3, <3>1
  <2>3. n.stack[k] = m.stack[k]
    BY <1>2, <2>2
  <2>4. k + 1 \in 1 .. d
    BY <1>1, <2>2
  <2>5. n.stack[k + 1].change = m.stack[k + 1].change
    BY <1>2, <1>3, <2>4
  <2>. QED  BY <2>1, <2>2, <2>3, <2>5
<1>12. CQPending(n) /\ CQDepsPending(g, n)
  BY <1>1, <1>2, <1>4, TopStaysEarly DEF d
<1>14. Ordered(g, n)
  <2>1. ASSUME NEW y \in GerritParents(g, m.stack[d].change),
               y \notin Elements(m.plan)
        PROVE  FALSE
    <3>1. m.stack[d].change \in m.gerritSeen
      BY <1>1, <1>4 DEF Shape, Shaped, d
    <3>2. PICK k \in 1 .. d :
            /\ m.stack[k].at = "gerrit"
            /\ m.stack[k].change = m.stack[d].change
            /\ y \in Elements(m.stack[k].left) \/ k < d
      BY <1>4, <2>1, <3>1 DEF GerritPending, d
    <3>3. k < d
      BY <1>1, <1>3, <3>2
    <3>. QED  BY <1>1, <1>4, <3>2, <3>3 DEF Branch, d
  <2>2. GerritParents(g, m.stack[d].change) \subseteq Elements(m.plan)
    BY <2>1
  <2>. QED  BY <1>1, <1>2, <1>3, <1>4, <2>2 DEF Ordered, d
<1>. QED  BY <1>0, <1>2, <1>5, <1>6, <1>7, <1>8, <1>9, <1>10, <1>11, <1>12,
             <1>14 DEF Going, n

-----------------------------------------------------------------------------
(* n is m without its top call, with a plan that may have grown. *)
Popped(m, n) ==
  /\ n.gerritSeen = m.gerritSeen /\ n.cqSeen = m.cqSeen
  /\ Len(n.plan) >= Len(m.plan)
  /\ \A i \in 1 .. Len(m.plan) : n.plan[i] = m.plan[i]
  /\ Len(n.stack) = Len(m.stack) - 1
  /\ \A k \in 1 .. Len(n.stack) : n.stack[k] = m.stack[k]

(* When a call returns, the shape of the others is as it was. *)
LEMMA PopShape ==
  ASSUME NEW m \in Machines, NEW n \in Machines, m.stack # <<>>, Popped(m, n),
         Shape(m)
  PROVE  Shape(n)
<1>. DEFINE d == Len(m.stack)
            e == Len(n.stack)
<1>1. d \in Nat \ {0} /\ e \in Nat /\ d = e + 1
  BY TopFacts DEF Popped
<1>2. Len(m.plan) \in Nat /\ Len(n.plan) \in Nat /\ Len(n.plan) >= Len(m.plan)
  BY DEF Popped, Machines
<1>3. n.cqSeen = m.cqSeen /\ n.gerritSeen = m.gerritSeen
  BY DEF Popped
<1>4. ASSUME NEW k \in 1 .. Len(n.stack)
      PROVE  LET f == n.stack[k]
             IN /\ k < Len(n.stack) => f.at \in {"gerrit", "cq"}
                /\ f.oldLen <= Len(n.plan)
                /\ f.at = "begin" => f.oldLen = Len(n.plan)
                /\ f.at = "cq" => f.withCQ
                /\ ~f.withCQ =>
                     \E j \in 1 .. Len(n.stack) :
                       j < k /\ n.stack[j].at = "gerrit" /\ n.stack[j].withCQ
                /\ Early(f) => f.change \notin n.cqSeen
                /\ f.at \in {"gerrit", "append"} => f.change \in n.gerritSeen
                /\ f.at = "cq" => f.change \in n.cqSeen
  <2>. DEFINE f == m.stack[k]
  <2>1. k \in 1 .. d /\ k < d /\ \A j \in 1 .. d : j < k => j \in 1 .. e
    BY <1>1
  <2>2. n.stack[k] = f /\ \A j \in 1 .. e : n.stack[j] = m.stack[j]
    BY DEF Popped
  <2>3. f \in Frames
    BY <2>1, ElementOfSeq DEF Machines
  <2>4. f.oldLen \in Nat
    BY <2>3 DEF Frames
  <2>5. /\ f.at \in {"gerrit", "cq"} /\ f.oldLen <= Len(m.plan)
        /\ f.at = "cq" => f.withCQ
        /\ Early(f) => f.change \notin m.cqSeen
        /\ f.at \in {"gerrit", "append"} => f.change \in m.gerritSeen
        /\ f.at = "cq" => f.change \in m.cqSeen
    BY <2>1 DEF Shape, Shaped
  <2>6. f.oldLen <= Len(n.plan)
    BY <1>2, <2>4, <2>5
  <2>7. ~f.withCQ =>
          \E j \in 1 .. Len(n.stack) :
            j < k /\ n.stack[j].at = "gerrit" /\ n.stack[j].withCQ
    <3>. SUFFICES ASSUME ~f.withCQ
                  PROVE  \E j \in 1 .. e :
                    j < k /\ n.stack[j].at = "gerrit" /\ n.stack[j].withCQ
      OBVIOUS
    <3>1. PICK j \in 1 .. d :
            j < k /\ m.stack[j].at = "gerrit" /\ m.stack[j].withCQ
      BY <2>1 DEF Shape, Shaped
    <3>2. j \in 1 .. e /\ n.stack[j] = m.stack[j]
      BY <2>1, <2>2, <3>1
    <3>. QED  BY <3>1, <3>2
  <2>. HIDE DEF f
  <2>. QED  BY <1>3, <2>2, <2>5, <2>6, <2>7
<1>. QED  BY <1>4 DEF Shape, Shaped

(* And so is the chain of Gerrit dependencies that they follow. *)
LEMMA PopBranch ==
  ASSUME NEW g, NEW m \in Machines, NEW n \in Machines, m.stack # <<>>,
         Popped(m, n), Branch(g, m)
  PROVE  Branch(g, n)
<1>1. Len(m.stack) \in Nat \ {0}
  BY TopFacts
<1>2. \A k \in 1 .. Len(n.stack) : k \in 1 .. Len(m.stack)
                                    /\ n.stack[k] = m.stack[k]
  BY <1>1 DEF Popped
<1>. QED  BY <1>2 DEF Branch

(* A call that is still there is still the one it was. *)
LEMMA PopKeeps ==
  ASSUME NEW m \in Machines, NEW n \in Machines, m.stack # <<>>, Popped(m, n)
  PROVE  /\ Len(m.stack) \in Nat \ {0}
         /\ Len(n.stack) = Len(m.stack) - 1
         /\ \A k \in 1 .. Len(n.stack) : k \in 1 .. Len(m.stack) /\ k < Len(m.stack)
         /\ \A k \in 1 .. Len(m.stack) :
              k = Len(m.stack) \/ k \in 1 .. Len(n.stack)
         /\ \A k \in 1 .. Len(n.stack) : n.stack[k] = m.stack[k]
<1>1. Len(m.stack) \in Nat \ {0}
  BY TopFacts
<1>. QED  BY <1>1 DEF Popped

(* A Gerrit dependency for which the top call was made is in the plan now;  *)
(* those of other calls wait as they did.                                   *)
LEMMA PopGerritPending ==
  ASSUME NEW g, NEW m \in Machines, NEW n \in Machines, m.stack # <<>>,
         Popped(m, n), GerritPending(g, m),
         m.stack[Len(m.stack)].at # "gerrit",
         m.stack[Len(m.stack)].change \in Elements(n.plan),
         Elements(m.plan) \subseteq Elements(n.plan)
  PROVE  GerritPending(g, n)
<1>. DEFINE d == Len(m.stack)
            e == Len(n.stack)
<1>1. d \in Nat \ {0} /\ e = d - 1 /\ n.gerritSeen = m.gerritSeen
  BY PopKeeps DEF Popped
<1>2. \A k \in 1 .. e : k \in 1 .. d /\ n.stack[k] = m.stack[k]
  BY PopKeeps
<1>. HIDE DEF d, e
<1>. SUFFICES ASSUME NEW x \in m.gerritSeen, NEW y \in GerritParents(g, x),
                     y \notin Elements(n.plan)
              PROVE  \E k \in 1 .. e :
                       /\ n.stack[k].at = "gerrit" /\ n.stack[k].change = x
                       /\ \/ y \in Elements(n.stack[k].left)
                          \/ k < e /\ n.stack[k + 1].change = y
  BY <1>1 DEF GerritPending, e
<1>3. PICK k \in 1 .. d :
        /\ m.stack[k].at = "gerrit" /\ m.stack[k].change = x
        /\ \/ y \in Elements(m.stack[k].left)
           \/ k < d /\ m.stack[k + 1].change = y
  BY DEF GerritPending, d
<1>4. k # d
  BY <1>3 DEF d
<1>5. k \in 1 .. e /\ k < d
  BY <1>1, <1>4
<1>6. CASE y \in Elements(m.stack[k].left)
  BY <1>2, <1>3, <1>5, <1>6
<1>7. CASE m.stack[k + 1].change = y
  <2>1. k + 1 # d
    BY <1>7 DEF d
  <2>2. k + 1 \in 1 .. e /\ k < e
    BY <1>1, <1>5, <2>1
  <2>. QED  BY <1>2, <1>3, <1>5, <1>7, <2>2
<1>. QED  BY <1>3, <1>6, <1>7

(* So do the CQ-DEPENDs that wait for another call than the one on top.     *)
LEMMA PopCQPending ==
  ASSUME NEW g, NEW m \in Machines, NEW n \in Machines, m.stack # <<>>,
         Popped(m, n), CQPending(m), CQDepsPending(g, m), Shape(m),
         ~Early(m.stack[Len(m.stack)]),
         m.stack[Len(m.stack)].at = "cq" =>
           Elements(m.stack[Len(m.stack)].left) = {}
  PROVE  /\ \A x \in Elements(m.plan) :
              \/ x \in n.cqSeen
              \/ \E k \in 1 .. Len(n.stack) :
                   LET f == n.stack[k]
                   IN \/ f.at = "cq" /\ x \in Elements(f.left)
                      \/ Early(f) /\ f.change = x
                      \/ Early(f) /\ \E i \in f.oldLen + 1 .. Len(n.plan) :
                                       n.plan[i] = x
         /\ CQDepsPending(g, n)
<1>. DEFINE d == Len(m.stack)
            e == Len(n.stack)
<1>1. d \in Nat \ {0} /\ e = d - 1 /\ n.cqSeen = m.cqSeen
  BY PopKeeps DEF Popped
<1>2. \A k \in 1 .. e : k \in 1 .. d /\ n.stack[k] = m.stack[k]
  BY PopKeeps
<1>3. \A k \in 1 .. d : k # d => k \in 1 .. e
  BY PopKeeps
<1>4. ~Early(m.stack[d]) /\ (m.stack[d].at = "cq" => Elements(m.stack[d].left) = {})
  OBVIOUS
<1>. HIDE DEF d, e
<1>5. ASSUME NEW x \in Elements(m.plan), x \notin n.cqSeen
      PROVE  \E k \in 1 .. e :
                   \/ n.stack[k].at = "cq" /\ x \in Elements(n.stack[k].left)
                   \/ Early(n.stack[k]) /\ n.stack[k].change = x
                   \/ Early(n.stack[k])
                      /\ \E i \in n.stack[k].oldLen + 1 .. Len(n.plan) : n.plan[i] = x
  <2>1. PICK k \in 1 .. d :
             \/ m.stack[k].at = "cq" /\ x \in Elements(m.stack[k].left)
             \/ Early(m.stack[k]) /\ m.stack[k].change = x
             \/ Early(m.stack[k])
                /\ \E i \in m.stack[k].oldLen + 1 .. Len(m.plan) : m.plan[i] = x
    BY <1>1, <1>5 DEF CQPending, d
  <2>2. k # d
    BY <1>4, <2>1
  <2>3. k \in 1 .. e /\ n.stack[k] = m.stack[k]
    BY <1>2, <1>3, <2>2
  <2>4. ASSUME NEW i \in m.stack[k].oldLen + 1 .. Len(m.plan), m.plan[i] = x
        PROVE  i \in m.stack[k].oldLen + 1 .. Len(n.plan) /\ n.plan[i] = x
    <3>1. m.stack[k] \in Frames /\ Len(m.plan) \in Nat /\ Len(n.plan) \in Nat
      BY ElementOfSeq DEF Machines, d
    <3>2. m.stack[k].oldLen \in Nat
      BY <3>1 DEF Frames
    <3>3. i \in 1 .. Len(m.plan)
      BY <3>1, <3>2
    <3>. QED  BY <2>4, <3>1, <3>2, <3>3 DEF Popped
  <2>. QED  BY <2>1, <2>3, <2>4
<1>6. ASSUME NEW x \in n.cqSeen, NEW y \in CQParents(g, x), y \notin n.cqSeen
      PROVE  \E k \in 1 .. e :
                   \/ n.stack[k].at = "cq" /\ y \in Elements(n.stack[k].left)
                   \/ Early(n.stack[k]) /\ n.stack[k].change = y
  <2>1. PICK k \in 1 .. d :
             \/ m.stack[k].at = "cq" /\ y \in Elements(m.stack[k].left)
             \/ Early(m.stack[k]) /\ m.stack[k].change = y
    BY <1>1, <1>6 DEF CQDepsPending, d
  <2>2. k # d
    BY <1>4, <2>1
  <2>3. k \in 1 .. e /\ n.stack[k] = m.stack[k]
    BY <1>2, <1>3, <2>2
  <2>. QED  BY <2>1, <2>3
<1>. QED  BY <1>5, <1>6 DEF CQDepsPending, e

-----------------------------------------------------------------------------
(* The call on top of m calls for h, the first of what it had left. *)
Pushed(m, n, h, withCQ) ==
  LET d == Len(m.stack)
  IN /\ n.plan = m.plan /\ n.gerritSeen = m.gerritSeen
     /\ n.cqSeen = m.cqSeen /\ n.raised = m.raised
     /\ Len(n.stack) = d + 1 /\ n.stack # <<>>
     /\ \A k \in 1 .. d :
          /\ n.stack[k].change = m.stack[k].change
          /\ n.stack[k].withCQ = m.stack[k].withCQ
          /\ n.stack[k].oldLen = m.stack[k].oldLen
          /\ n.stack[k].at = m.stack[k].at
          /\ Elements(n.stack[k].left) \subseteq Elements(m.stack[k].left)
          /\ \A x \in Elements(m.stack[k].left) :
               x \in Elements(n.stack[k].left) \/ (k = d /\ x = h)
     /\ n.stack[d + 1].change = h
     /\ withCQ => n.stack[d + 1].withCQ
     /\ ~withCQ => ~n.stack[d + 1].withCQ
     /\ n.stack[d + 1].oldLen = Len(n.plan)
     /\ n.stack[d + 1].at = "begin" /\ n.stack[d + 1].left = <<>>
     /\ h \in Elements(m.stack[d].left)

(* Going on to the next dependency in its list makes a call for it. *)
LEMMA PushFacts ==
  ASSUME NEW m \in Machines, m.stack # <<>>,
         NEW at \in {"begin", "gerrit", "append", "cq"}, Top(m).at = at,
         Top(m).left # <<>>, NEW withCQ \in BOOLEAN
  PROVE  LET n == Calls(Goes(m, at, Tail(Top(m).left)), Head(Top(m).left), withCQ)
         IN n \in Machines /\ Pushed(m, n, Head(Top(m).left), withCQ)
<1>. DEFINE d == Len(m.stack)
            h == Head(Top(m).left)
            t == Tail(Top(m).left)
            v == Goes(m, at, t)
            n == Calls(v, h, withCQ)
<1>1. /\ d \in Nat \ {0} /\ d \in 1 .. d /\ Top(m) = m.stack[d]
      /\ Top(m) \in Frames /\ m.stack[d].at = at
  BY TopFacts
<1>2. /\ Elements(m.stack[d].left) = {h} \cup Elements(t)
      /\ h \in Patches /\ t \in Seq(Patches)
  <2>1. Top(m).left \in Seq(Patches)
    BY <1>1 DEF Frames
  <2>. QED  BY <1>1, <2>1, HeadTailElements
<1>. HIDE DEF t, h
<1>3. /\ v \in Machines /\ SameShared(m, v) /\ Len(v.stack) = d
      /\ Moved(m, v, at, t)
  BY <1>1, <1>2, GoesFacts
<1>. HIDE DEF v
<1>4. v \in Machines /\ h \in Patches /\ withCQ \in BOOLEAN
  BY <1>2, <1>3
<1>7. /\ n \in Machines /\ SameShared(v, n)
      /\ Len(n.stack) = Len(v.stack) + 1
      /\ \A k \in 1 .. Len(v.stack) : n.stack[k] = v.stack[k]
      /\ n.stack[Len(v.stack) + 1].change = h
      /\ n.stack[Len(v.stack) + 1].withCQ = withCQ
      /\ n.stack[Len(v.stack) + 1].oldLen = Len(v.plan)
      /\ n.stack[Len(v.stack) + 1].at = "begin"
      /\ n.stack[Len(v.stack) + 1].left = <<>>
  BY <1>4, CallsFacts
<1>. HIDE DEF n
<1>8. /\ Len(n.stack) = d + 1 /\ \A k \in 1 .. d : n.stack[k] = v.stack[k]
      /\ n.stack[d + 1].change = h
      /\ n.stack[d + 1].oldLen = Len(n.plan)
      /\ n.stack[d + 1].at = "begin" /\ n.stack[d + 1].left = <<>>
  BY <1>3, <1>7 DEF SameShared
<1>9. n.stack[d + 1].withCQ = withCQ
  BY <1>3, <1>7
<1>5. n.stack # <<>>
  BY <1>1, <1>7, <1>8, EmptySeq DEF Machines
<1>6. ASSUME NEW k \in 1 .. d
      PROVE  /\ n.stack[k].change = m.stack[k].change
             /\ n.stack[k].withCQ = m.stack[k].withCQ
             /\ n.stack[k].oldLen = m.stack[k].oldLen
             /\ n.stack[k].at = m.stack[k].at
             /\ Elements(n.stack[k].left) \subseteq Elements(m.stack[k].left)
             /\ \A x \in Elements(m.stack[k].left) :
                  x \in Elements(n.stack[k].left) \/ (k = d /\ x = h)
  <2>1. n.stack[k] = v.stack[k]
    BY <1>8
  <2>2. CASE k = d
    <3>1. /\ v.stack[d].change = m.stack[d].change
          /\ v.stack[d].withCQ = m.stack[d].withCQ
          /\ v.stack[d].oldLen = m.stack[d].oldLen
          /\ v.stack[d].at = at /\ v.stack[d].left = t
      BY <1>3 DEF Moved
    <3>. HIDE DEF d
    <3>. QED  BY <1>1, <1>2, <2>1, <2>2, <3>1
  <2>3. CASE k # d
    <3>1. k \in 1 .. d - 1
      BY <1>1, <2>3
    <3>2. v.stack[k] = m.stack[k]
      BY <1>3, <3>1 DEF Moved, SameBelow
    <3>. QED  BY <2>1, <3>2
  <2>. QED  BY <2>2, <2>3
<1>10. SameShared(m, n)
  BY <1>3, <1>7 DEF SameShared
<1>11. Pushed(m, n, h, withCQ)
  <2>. HIDE DEF d
  <2>1. Len(m.stack) = d
    BY DEF d
  <2>. QED  BY <1>2, <1>5, <1>6, <1>8, <1>9, <1>10, <2>1 DEF Pushed, SameShared
<1>. QED  BY <1>7, <1>11 DEF n, v, h, t

(* What waits for its turn on the CQ-DEPEND side still waits: a dependency  *)
(* that is called for is followed by that call.                             *)
LEMMA PushCQPending ==
  ASSUME NEW g, NEW m \in Machines, NEW n \in Machines, NEW h,
         NEW withCQ \in BOOLEAN, m.stack # <<>>,
         Pushed(m, n, h, withCQ), CQPending(m), CQDepsPending(g, m),
         withCQ \/ m.stack[Len(m.stack)].at # "cq"
  PROVE  CQPending(n) /\ CQDepsPending(g, n)
<1>. DEFINE d == Len(m.stack)
            e == d + 1
<1>0. d \in Nat \ {0} /\ Len(n.stack) = e
  BY TopFacts DEF Pushed
<1>1. e \in 1 .. e /\ \A k \in 1 .. d : k \in 1 .. e
  BY <1>0
<1>2. \A k \in 1 .. d :
        /\ n.stack[k].change = m.stack[k].change
        /\ n.stack[k].withCQ = m.stack[k].withCQ
        /\ n.stack[k].oldLen = m.stack[k].oldLen
        /\ n.stack[k].at = m.stack[k].at
        /\ \A x \in Elements(m.stack[k].left) :
             x \in Elements(n.stack[k].left) \/ (k = d /\ x = h)
  BY DEF Pushed
<1>3. \A k \in 1 .. d : Early(m.stack[k]) => Early(n.stack[k])
  BY <1>2 DEF Early
<1>4. withCQ => Early(n.stack[e]) /\ n.stack[e].change = h
  BY DEF Pushed, Early
<1>5. withCQ \/ m.stack[d].at # "cq"
  OBVIOUS
<1>6. n.plan = m.plan /\ n.cqSeen = m.cqSeen
  BY DEF Pushed
<1>7. /\ \A x \in Elements(m.plan) :
           \/ x \in m.cqSeen
           \/ \E k \in 1 .. d :
                \/ m.stack[k].at = "cq" /\ x \in Elements(m.stack[k].left)
                \/ Early(m.stack[k]) /\ m.stack[k].change = x
                \/ Early(m.stack[k])
                   /\ \E i \in m.stack[k].oldLen + 1 .. Len(m.plan) : m.plan[i] = x
      /\ \A x \in m.cqSeen : \A y \in CQParents(g, x) :
           \/ y \in m.cqSeen
           \/ \E k \in 1 .. d :
                \/ m.stack[k].at = "cq" /\ y \in Elements(m.stack[k].left)
                \/ Early(m.stack[k]) /\ m.stack[k].change = y
  BY DEF CQPending, CQDepsPending
<1>. HIDE DEF d, e
<1>8. ASSUME NEW x \in Elements(m.plan), x \notin m.cqSeen
      PROVE  \E k \in 1 .. e :
                \/ n.stack[k].at = "cq" /\ x \in Elements(n.stack[k].left)
                \/ Early(n.stack[k]) /\ n.stack[k].change = x
                \/ Early(n.stack[k])
                   /\ \E i \in n.stack[k].oldLen + 1 .. Len(m.plan) : m.plan[i] = x
  <2>1. PICK k \in 1 .. d :
                \/ m.stack[k].at = "cq" /\ x \in Elements(m.stack[k].left)
                \/ Early(m.stack[k]) /\ m.stack[k].change = x
                \/ Early(m.stack[k])
                   /\ \E i \in m.stack[k].oldLen + 1 .. Len(m.plan) : m.plan[i] = x
    BY <1>7, <1>8
  <2>2. CASE m.stack[k].at = "cq" /\ k = d /\ x = h
    BY <1>1, <1>4, <1>5, <2>2
  <2>3. CASE ~(m.stack[k].at = "cq" /\ k = d /\ x = h)
    <3>1. /\ k \in 1 .. e /\ n.stack[k].at = m.stack[k].at
          /\ n.stack[k].change = m.stack[k].change
          /\ n.stack[k].oldLen = m.stack[k].oldLen
          /\ Early(m.stack[k]) => Early(n.stack[k])
      BY <1>1, <1>2, <1>3
    <3>2. ASSUME m.stack[k].at = "cq", x \in Elements(m.stack[k].left)
          PROVE  x \in Elements(n.stack[k].left)
      <4>1. x \in Elements(n.stack[k].left) \/ (k = d /\ x = h)
        BY <1>2, <3>2
      <4>. QED  BY <2>3, <3>2, <4>1
    <3>. QED  BY <2>1, <3>1, <3>2
  <2>. QED  BY <2>2, <2>3
<1>9. ASSUME NEW x \in m.cqSeen, NEW y \in CQParents(g, x), y \notin m.cqSeen
      PROVE  \E k \in 1 .. e :
                \/ n.stack[k].at = "cq" /\ y \in Elements(n.stack[k].left)
                \/ Early(n.stack[k]) /\ n.stack[k].change = y
  <2>1. PICK k \in 1 .. d :
                \/ m.stack[k].at = "cq" /\ y \in Elements(m.stack[k].left)
                \/ Early(m.stack[k]) /\ m.stack[k].change = y
    BY <1>7, <1>9
  <2>2. CASE m.stack[k].at = "cq" /\ k = d /\ y = h
    BY <1>1, <1>4, <1>5, <2>2
  <2>3. CASE ~(m.stack[k].at = "cq" /\ k = d /\ y = h)
    <3>1. /\ k \in 1 .. e /\ n.stack[k].at = m.stack[k].at
          /\ n.stack[k].change = m.stack[k].change
          /\ Early(m.stack[k]) => Early(n.stack[k])
      BY <1>1, <1>2, <1>3
    <3>2. ASSUME m.stack[k].at = "cq", y \in Elements(m.stack[k].left)
          PROVE  y \in Elements(n.stack[k].left)
      <4>1. y \in Elements(n.stack[k].left) \/ (k = d /\ y = h)
        BY <1>2, <3>2
      <4>. QED  BY <2>3, <3>2, <4>1
    <3>. QED  BY <2>1, <3>1, <3>2
  <2>. QED  BY <2>2, <2>3
<1>. QED  BY <1>0, <1>6, <1>8, <1>9 DEF CQPending, CQDepsPending, e

(* The next Gerrit dependency is called for. *)
LEMMA GerritNext ==
  ASSUME NEW g, GoodPool(g), NEW r \in Patches, NEW m, Going(g, r, m),
         m.stack # <<>>, Top(m).at = "gerrit", Top(m).left # <<>>
  PROVE  Going(g, r, Calls(Goes(m, "gerrit", Tail(Top(m).left)),
                    Head(Top(m).left), FALSE))
<1>. DEFINE n == Calls(Goes(m, "gerrit", Tail(Top(m).left)),
                       Head(Top(m).left), FALSE)
            h == Head(Top(m).left)
            d == Len(m.stack)
<1>0. m \in Machines /\ ~m.raised
  BY DEF Going
<1>4. /\ Shape(m) /\ Branch(g, m) /\ Origin(g, r, m) /\ Looked(g, m)
      /\ RootPending(r, m) /\ SeenPending(m) /\ GerritPending(g, m)
      /\ CQPending(m) /\ CQDepsPending(g, m) /\ Ordered(g, m)
  BY DEF Going

<1>2. n \in Machines /\ Pushed(m, n, h, FALSE)
  BY <1>0, PushFacts
<1>1. /\ d \in Nat \ {0} /\ m.stack[d].at = "gerrit"
  BY <1>0, TopFacts
<1>. HIDE DEF n, h
<1>b. /\ n.plan = m.plan /\ n.gerritSeen = m.gerritSeen
      /\ n.cqSeen = m.cqSeen /\ n.raised = m.raised
      /\ Len(n.stack) = d + 1 /\ n.stack # <<>>
      /\ \A k \in 1 .. d :
           /\ n.stack[k].change = m.stack[k].change
           /\ n.stack[k].withCQ = m.stack[k].withCQ
           /\ n.stack[k].oldLen = m.stack[k].oldLen
           /\ n.stack[k].at = m.stack[k].at
           /\ Elements(n.stack[k].left) \subseteq Elements(m.stack[k].left)
           /\ \A x \in Elements(m.stack[k].left) :
                x \in Elements(n.stack[k].left) \/ (k = d /\ x = h)
      /\ n.stack[d + 1].change = h /\ ~n.stack[d + 1].withCQ
      /\ n.stack[d + 1].oldLen = Len(n.plan)
      /\ n.stack[d + 1].at = "begin" /\ n.stack[d + 1].left = <<>>
      /\ h \in Elements(m.stack[d].left)
  BY <1>2 DEF Pushed
<1>. HIDE DEF d
<1>3. /\ \A k \in 1 .. d + 1 : k \in 1 .. d \/ k = d + 1
      /\ \A k \in 1 .. d : k \in 1 .. d + 1 /\ k < d + 1 /\ (k < d \/ k = d)
      /\ d \in 1 .. d /\ d + 1 \in 1 .. d + 1
  BY <1>1
<1>5. Shape(n)
  <2>1. \E j \in 1 .. d + 1 : j < d + 1 /\ n.stack[j].at = "gerrit" /\ n.stack[j].withCQ
    <3>1. CASE m.stack[d].withCQ
      <4>1. n.stack[d].at = "gerrit" /\ n.stack[d].withCQ
        BY <1>1, <1>3, <1>b, <3>1
      <4>. QED  BY <1>3, <4>1
    <3>2. CASE ~m.stack[d].withCQ
      <4>1. PICK j \in 1 .. d : j < d /\ m.stack[j].at = "gerrit" /\ m.stack[j].withCQ
        BY <1>1, <1>4, <3>2 DEF Shape, Shaped, d
      <4>2. j \in 1 .. d + 1 /\ j < d + 1
        BY <1>3
      <4>3. n.stack[j].at = "gerrit" /\ n.stack[j].withCQ
        BY <1>b, <4>1
      <4>. QED  BY <4>2, <4>3
    <3>. QED  BY <3>1, <3>2
  <2>2. ASSUME NEW k \in 1 .. d, ~n.stack[k].withCQ
        PROVE  \E j \in 1 .. d + 1 :
                 j < k /\ n.stack[j].at = "gerrit" /\ n.stack[j].withCQ
    <3>1. ~m.stack[k].withCQ
      BY <1>b, <2>2
    <3>2. PICK j \in 1 .. d :
            j < k /\ m.stack[j].at = "gerrit" /\ m.stack[j].withCQ
      BY <1>4, <3>1 DEF Shape, Shaped, d
    <3>3. j \in 1 .. d + 1 /\ n.stack[j].at = "gerrit" /\ n.stack[j].withCQ
      BY <1>3, <1>b, <3>2
    <3>. QED  BY <3>2, <3>3
  <2>3. ASSUME NEW k \in 1 .. d
        PROVE  /\ k < d + 1 => n.stack[k].at \in {"gerrit", "cq"}
               /\ n.stack[k].oldLen <= Len(n.plan)
               /\ n.stack[k].at = "begin" => n.stack[k].oldLen = Len(n.plan)
               /\ n.stack[k].at = "cq" => n.stack[k].withCQ
               /\ Early(n.stack[k]) => n.stack[k].change \notin n.cqSeen
               /\ n.stack[k].at \in {"gerrit", "append"} =>
                    n.stack[k].change \in n.gerritSeen
               /\ n.stack[k].at = "cq" => n.stack[k].change \in n.cqSeen
    <3>1. /\ k < d => m.stack[k].at \in {"gerrit", "cq"}
          /\ m.stack[k].oldLen <= Len(m.plan)
          /\ m.stack[k].at = "begin" => m.stack[k].oldLen = Len(m.plan)
          /\ m.stack[k].at = "cq" => m.stack[k].withCQ
          /\ Early(m.stack[k]) => m.stack[k].change \notin m.cqSeen
          /\ m.stack[k].at \in {"gerrit", "append"} =>
               m.stack[k].change \in m.gerritSeen
          /\ m.stack[k].at = "cq" => m.stack[k].change \in m.cqSeen
      BY <1>4 DEF Shape, Shaped, d
    <3>2. m.stack[k].at \in {"gerrit", "cq"}
      BY <1>1, <1>3, <3>1
    <3>3. /\ n.stack[k].change = m.stack[k].change
          /\ n.stack[k].withCQ = m.stack[k].withCQ
          /\ n.stack[k].oldLen = m.stack[k].oldLen
          /\ n.stack[k].at = m.stack[k].at
          /\ n.plan = m.plan /\ n.gerritSeen = m.gerritSeen
          /\ n.cqSeen = m.cqSeen
      BY <1>b
    <3>. QED  BY <3>1, <3>2, <3>3 DEF Early
  <2>4. Len(n.plan) <= Len(n.plan) /\ ~(d + 1 < d + 1)
    <3>1. Len(n.plan) \in Nat
      BY <1>2 DEF Machines
    <3>. QED  BY <1>1, <3>1
  <2>5. ASSUME NEW k \in 1 .. d + 1
        PROVE  /\ k < d + 1 => n.stack[k].at \in {"gerrit", "cq"}
               /\ n.stack[k].oldLen <= Len(n.plan)
               /\ n.stack[k].at = "begin" => n.stack[k].oldLen = Len(n.plan)
               /\ n.stack[k].at = "cq" => n.stack[k].withCQ
               /\ ~n.stack[k].withCQ =>
                    \E j \in 1 .. d + 1 :
                      j < k /\ n.stack[j].at = "gerrit" /\ n.stack[j].withCQ
               /\ Early(n.stack[k]) => n.stack[k].change \notin n.cqSeen
               /\ n.stack[k].at \in {"gerrit", "append"} =>
                    n.stack[k].change \in n.gerritSeen
               /\ n.stack[k].at = "cq" => n.stack[k].change \in n.cqSeen
    <3>1. CASE k \in 1 .. d
      BY <2>2, <2>3, <3>1
    <3>2. CASE k = d + 1
      BY <1>b, <2>1, <2>4, <3>2 DEF Early
    <3>. QED  BY <1>3, <3>1, <3>2
  <2>. QED  BY <1>b, <2>5 DEF Shape, Shaped
<1>6. Branch(g, n)
  <2>1. \A k \in 1 .. d + 1 : n.stack[k].at = "gerrit" =>
          Elements(n.stack[k].left) \subseteq GerritParents(g, n.stack[k].change)
    BY <1>1, <1>b, <1>3, <1>4 DEF Branch, d
  <2>2. ASSUME NEW j \in 1 .. d + 1, NEW k \in 1 .. d + 1, j < k,
               n.stack[j].at = "gerrit"
        PROVE  /\ ~n.stack[k].withCQ
               /\ LeadsTo(g, n.stack[j].change, n.stack[k].change)
               /\ n.stack[k].at = "gerrit" =>
                    n.stack[j].change # n.stack[k].change
    <3>1. CASE k \in 1 .. d
      <4>1. j \in 1 .. d
        BY <1>1, <2>2, <3>1
      <4>2. n.stack[j].at = m.stack[j].at /\ n.stack[j].change = m.stack[j].change
        BY <1>b, <4>1
      <4>3. n.stack[k].at = m.stack[k].at /\ n.stack[k].change = m.stack[k].change
            /\ n.stack[k].withCQ = m.stack[k].withCQ
        BY <1>b, <3>1
      <4>. QED  BY <1>4, <2>2, <3>1, <4>1, <4>2, <4>3 DEF Branch, d
    <3>2. CASE k = d + 1
      <4>1. h \in GerritParents(g, m.stack[d].change)
            /\ m.stack[d].change \in Patches
        BY <1>1, <1>b, <1>3, <1>4, LandsWithFacts DEF Branch, Origin, d
      <4>2. CASE j = d
        BY <1>1, <1>b, <3>2, <4>1, <4>2, LeadsToFacts
      <4>3. CASE j # d
        <5>0. j \in 1 .. d /\ j < d /\ d \in 1 .. d
          BY <1>1, <2>2, <4>3
        <5>1. /\ j \in 1 .. d /\ j < d /\ d \in 1 .. d
              /\ n.stack[j].at = m.stack[j].at
              /\ n.stack[j].change = m.stack[j].change
          BY <1>b, <5>0
        <5>2. LeadsTo(g, m.stack[j].change, m.stack[d].change)
              /\ m.stack[j].change \in Patches
          BY <1>4, <2>2, <5>1, LandsWithFacts DEF Branch, Origin, d
        <5>. QED  BY <1>b, <3>2, <4>1, <5>1, <5>2, LeadsToFacts
      <4>. QED  BY <4>2, <4>3
    <3>. QED  BY <1>3, <3>1, <3>2
  <2>3. Len(n.stack) = d + 1
    BY <1>b
  <2>. QED  BY <2>1, <2>2, <2>3 DEF Branch
<1>7. Origin(g, r, n)
  BY <1>1, <1>b, <1>3, <1>4, EmptyElements DEF Origin, d
<1>8. Looked(g, n)
  BY <1>b, <1>4 DEF Looked
<1>9. RootPending(r, n)
  BY <1>1, <1>b, <1>3, <1>4 DEF RootPending, d
<1>10. SeenPending(n)
  <2>. SUFFICES ASSUME NEW x \in m.gerritSeen, x \notin Elements(m.plan)
                PROVE  \E k \in 1 .. d + 1 :
                         n.stack[k].at \in {"gerrit", "append"}
                         /\ n.stack[k].change = x
    BY <1>b DEF SeenPending
  <2>1. PICK k \in 1 .. d : m.stack[k].at \in {"gerrit", "append"}
                            /\ m.stack[k].change = x
    BY <1>4 DEF SeenPending, d
  <2>2. k \in 1 .. d + 1 /\ n.stack[k].at = m.stack[k].at
        /\ n.stack[k].change = m.stack[k].change
    BY <1>b, <1>3
  <2>. QED  BY <2>1, <2>2
<1>11. GerritPending(g, n)
  <2>. SUFFICES ASSUME NEW x \in m.gerritSeen, NEW y \in GerritParents(g, x),
                       y \notin Elements(m.plan)
                PROVE  \E k \in 1 .. d + 1 :
                         /\ n.stack[k].at = "gerrit" /\ n.stack[k].change = x
                         /\ \/ y \in Elements(n.stack[k].left)
                            \/ k < d + 1 /\ n.stack[k + 1].change = y
    BY <1>b DEF GerritPending
  <2>1. PICK k \in 1 .. d :
          /\ m.stack[k].at = "gerrit" /\ m.stack[k].change = x
          /\ \/ y \in Elements(m.stack[k].left)
             \/ k < d /\ m.stack[k + 1].change = y
    BY <1>4 DEF GerritPending, d
  <2>2. k \in 1 .. d + 1 /\ k < d + 1 /\ (k < d => k + 1 \in 1 .. d)
    BY <1>1
  <2>3. n.stack[k].at = "gerrit" /\ n.stack[k].change = x
    BY <1>b, <2>1
  <2>4. CASE k < d /\ m.stack[k + 1].change = y
    <3>1. n.stack[k + 1].change = y
      BY <1>b, <2>2, <2>4
    <3>. QED  BY <2>2, <2>3, <3>1
  <2>5. CASE y \in Elements(m.stack[k].left)
    <3>1. y \in Elements(n.stack[k].left) \/ (k = d /\ y = h)
      BY <1>b, <2>5
    <3>2. k = d /\ y = h => n.stack[k + 1].change = y
      BY <1>b
    <3>. QED  BY <2>2, <2>3, <3>1, <3>2
  <2>. QED  BY <2>1, <2>4, <2>5
<1>12. m.stack[Len(m.stack)].at # "cq"
  BY <1>1 DEF d
<1>13. CQPending(n) /\ CQDepsPending(g, n)
  BY <1>0, <1>2, <1>4, <1>12, PushCQPending
<1>14. Ordered(g, n)
  <2>1. ASSUME NEW k \in 1 .. d + 1, n.stack[k].at = "append",
               n.stack[k].change \notin Elements(m.plan)
        PROVE  \/ LeadsTo(g, n.stack[k].change, n.stack[k].change)
               \/ GerritParents(g, n.stack[k].change) \subseteq Elements(m.plan)
    <3>1. k \in 1 .. d
      BY <1>b, <1>3, <2>1
    <3>2. n.stack[k].at = m.stack[k].at /\ n.stack[k].change = m.stack[k].change
      BY <1>b, <3>1
    <3>. QED  BY <1>4, <2>1, <3>1, <3>2 DEF Ordered, d
  <2>2. ParentsBeforeChildren(g, m.plan)
    BY <1>4 DEF Ordered
  <2>. QED  BY <1>b, <2>1, <2>2 DEF Ordered
<1>. QED  BY <1>0, <1>2, <1>b, <1>5, <1>6, <1>7, <1>8, <1>9, <1>10, <1>11,
             <1>13, <1>14 DEF Going, n

(* The next CQ-DEPEND is called for. *)
LEMMA CQNext ==
  ASSUME NEW g, GoodPool(g), NEW r \in Patches, NEW m, Going(g, r, m),
         m.stack # <<>>, Top(m).at = "cq", Top(m).left # <<>>, Head(Top(m).left) \notin m.cqSeen
  PROVE  Going(g, r, Calls(Goes(m, "cq", Tail(Top(m).left)),
                    Head(Top(m).left), TRUE))
<1>. DEFINE n == Calls(Goes(m, "cq", Tail(Top(m).left)),
                       Head(Top(m).left), TRUE)
            h == Head(Top(m).left)
            d == Len(m.stack)
<1>0. m \in Machines /\ ~m.raised
  BY DEF Going
<1>4. /\ Shape(m) /\ Branch(g, m) /\ Origin(g, r, m) /\ Looked(g, m)
      /\ RootPending(r, m) /\ SeenPending(m) /\ GerritPending(g, m)
      /\ CQPending(m) /\ CQDepsPending(g, m) /\ Ordered(g, m)
  BY DEF Going

<1>2. n \in Machines /\ Pushed(m, n, h, TRUE)
  BY <1>0, PushFacts
<1>1. /\ d \in Nat \ {0} /\ m.stack[d].at = "cq"
      /\ h \notin m.cqSeen
  BY <1>0, TopFacts
<1>. HIDE DEF n, h
<1>b. /\ n.plan = m.plan /\ n.gerritSeen = m.gerritSeen
      /\ n.cqSeen = m.cqSeen /\ n.raised = m.raised
      /\ Len(n.stack) = d + 1 /\ n.stack # <<>>
      /\ \A k \in 1 .. d :
           /\ n.stack[k].change = m.stack[k].change
           /\ n.stack[k].withCQ = m.stack[k].withCQ
           /\ n.stack[k].oldLen = m.stack[k].oldLen
           /\ n.stack[k].at = m.stack[k].at
           /\ Elements(n.stack[k].left) \subseteq Elements(m.stack[k].left)
           /\ \A x \in Elements(m.stack[k].left) :
                x \in Elements(n.stack[k].left) \/ (k = d /\ x = h)
      /\ n.stack[d + 1].change = h /\ n.stack[d + 1].withCQ
      /\ n.stack[d + 1].oldLen = Len(n.plan)
      /\ n.stack[d + 1].at = "begin" /\ n.stack[d + 1].left = <<>>
      /\ h \in Elements(m.stack[d].left)
  BY <1>2 DEF Pushed
<1>. HIDE DEF d
<1>3. /\ \A k \in 1 .. d + 1 : k \in 1 .. d \/ k = d + 1
      /\ \A k \in 1 .. d : k \in 1 .. d + 1 /\ k < d + 1 /\ (k < d \/ k = d)
      /\ d \in 1 .. d /\ d + 1 \in 1 .. d + 1
  BY <1>1
<1>a. \A j \in 1 .. d : m.stack[j].at # "gerrit"
  BY <1>1, <1>b, <1>3, <1>4 DEF Shape, Shaped, Branch, d
<1>5. Shape(n)
  <2>. SUFFICES ASSUME NEW k \in 1 .. d + 1  PROVE Shaped(n, k)
    BY <1>b DEF Shape
  <2>1. CASE k \in 1 .. d
    <3>1. Shaped(m, k) /\ k < d + 1
      BY <1>3, <1>4, <2>1 DEF Shape, d
    <3>2. m.stack[k].at \in {"gerrit", "cq"}
      <4>1. CASE k < d
        BY <3>1, <4>1 DEF Shaped, d
      <4>2. CASE k = d
        BY <1>1, <4>2
      <4>. QED  BY <1>3, <2>1, <4>1, <4>2
    <3>3. m.stack[k].withCQ
      BY <1>a, <3>1 DEF Shaped, d
    <3>4. /\ m.stack[k].oldLen <= Len(m.plan)
          /\ Early(m.stack[k]) => m.stack[k].change \notin m.cqSeen
          /\ m.stack[k].at \in {"gerrit", "append"} => m.stack[k].change \in m.gerritSeen
          /\ m.stack[k].at = "cq" => m.stack[k].change \in m.cqSeen
      BY <3>1 DEF Shaped
    <3>5. /\ n.stack[k].change = m.stack[k].change
          /\ n.stack[k].withCQ = m.stack[k].withCQ
          /\ n.stack[k].oldLen = m.stack[k].oldLen
          /\ n.stack[k].at = m.stack[k].at
      BY <1>b, <2>1
    <3>. QED  BY <1>b, <3>2, <3>3, <3>4, <3>5 DEF Shaped, Early
  <2>2. CASE k = d + 1
    <3>1. Len(n.plan) \in Nat /\ ~(d + 1 < d + 1)
      BY <1>1, <1>2 DEF Machines
    <3>. QED  BY <1>1, <1>b, <2>2, <3>1 DEF Shaped, Early
  <2>. QED  BY <1>3, <2>1, <2>2
<1>6. Branch(g, n)
  <2>1. ASSUME NEW k \in 1 .. d + 1  PROVE n.stack[k].at # "gerrit"
    <3>1. CASE k \in 1 .. d
      BY <1>a, <1>b, <3>1
    <3>2. CASE k = d + 1
      BY <1>b, <3>2
    <3>. QED  BY <1>3, <3>1, <3>2
  <2>. QED  BY <1>b, <2>1 DEF Branch
<1>7. Origin(g, r, n)
  BY <1>1, <1>b, <1>3, <1>4, EmptyElements DEF Origin, d
<1>8. Looked(g, n)
  BY <1>b, <1>4 DEF Looked
<1>9. RootPending(r, n)
  BY <1>1, <1>b, <1>3, <1>4 DEF RootPending, d
<1>10. SeenPending(n)
  <2>. SUFFICES ASSUME NEW x \in m.gerritSeen, x \notin Elements(m.plan)
                PROVE  \E k \in 1 .. d + 1 :
                         n.stack[k].at \in {"gerrit", "append"}
                         /\ n.stack[k].change = x
    BY <1>b DEF SeenPending
  <2>1. PICK k \in 1 .. d : m.stack[k].at \in {"gerrit", "append"}
                            /\ m.stack[k].change = x
    BY <1>4 DEF SeenPending, d
  <2>2. k \in 1 .. d + 1 /\ n.stack[k].at = m.stack[k].at
        /\ n.stack[k].change = m.stack[k].change
    BY <1>b, <1>3
  <2>. QED  BY <2>1, <2>2
<1>11. GerritPending(g, n)
  <2>1. ASSUME NEW x \in m.gerritSeen, NEW y \in GerritParents(g, x)
        PROVE  y \in Elements(m.plan)
    BY <1>4, <1>a DEF GerritPending, d
  <2>. QED  BY <1>b, <2>1 DEF GerritPending
<1>13. CQPending(n) /\ CQDepsPending(g, n)
  BY <1>0, <1>2, <1>4, PushCQPending
<1>14. Ordered(g, n)
  BY <1>1, <1>b, <1>3, <1>4 DEF Ordered, d
<1>. QED  BY <1>0, <1>2, <1>b, <1>5, <1>6, <1>7, <1>8, <1>9, <1>10, <1>11,
             <1>13, <1>14 DEF Going, n

-----------------------------------------------------------------------------
(* The next CQ-DEPEND was followed already. *)
LEMMA CQSkip ==
  ASSUME NEW g, GoodPool(g), NEW r \in Patches, NEW m, Going(g, r, m),
         m.stack # <<>>, Top(m).at = "cq", Top(m).left # <<>>,
         Head(Top(m).left) \in m.cqSeen
  PROVE  Going(g, r, Goes(m, "cq", Tail(Top(m).left)))
<1>. DEFINE n == Goes(m, "cq", Tail(Top(m).left))
            h == Head(Top(m).left)
            d == Len(m.stack)
<1>0. m \in Machines /\ ~m.raised
  BY DEF Going
<1>4. /\ Shape(m) /\ Branch(g, m) /\ Origin(g, r, m) /\ Looked(g, m)
      /\ RootPending(r, m) /\ SeenPending(m) /\ GerritPending(g, m)
      /\ CQPending(m) /\ CQDepsPending(g, m) /\ Ordered(g, m)
  BY DEF Going

<1>1. /\ d \in Nat \ {0} /\ m.stack[d].at = "cq" /\ h \in m.cqSeen
      /\ m.stack[d].left \in Seq(Patches)
      /\ Elements(m.stack[d].left) = {h} \cup Elements(Tail(m.stack[d].left))
      /\ h \in Patches /\ Tail(m.stack[d].left) \in Seq(Patches)
  <2>1. /\ d \in Nat \ {0} /\ Top(m) = m.stack[d] /\ Top(m) \in Frames
    BY <1>0, TopFacts
  <2>2. Top(m).left \in Seq(Patches)
    BY <2>1 DEF Frames
  <2>. QED  BY <2>1, <2>2, HeadTailElements
<1>2. /\ n \in Machines /\ Len(n.stack) = d /\ n.stack # <<>>
      /\ n.plan = m.plan /\ n.gerritSeen = m.gerritSeen
      /\ n.cqSeen = m.cqSeen /\ n.raised = m.raised
      /\ \A k \in 1 .. d : k < d => n.stack[k] = m.stack[k]
      /\ n.stack[d].change = m.stack[d].change
      /\ n.stack[d].withCQ = m.stack[d].withCQ
      /\ n.stack[d].oldLen = m.stack[d].oldLen
      /\ n.stack[d].at = "cq"
      /\ Elements(n.stack[d].left) \cup {h} = Elements(m.stack[d].left)
  <2>. DEFINE t == Tail(m.stack[d].left)
  <2>1. n = Goes(m, "cq", t)
    BY <1>0, TopFacts
  <2>. HIDE DEF n, t
  <2>3. t \in Seq(Patches)
    BY <1>1 DEF t
  <2>2. /\ Goes(m, "cq", t) \in Machines /\ SameShared(m, Goes(m, "cq", t))
        /\ Len(Goes(m, "cq", t).stack) = Len(m.stack)
        /\ Goes(m, "cq", t).stack # <<>> /\ Moved(m, Goes(m, "cq", t), "cq", t)
    BY <1>0, <2>3, GoesFacts
  <2>4. /\ n \in Machines /\ SameShared(m, n) /\ Len(n.stack) = d
        /\ n.stack # <<>> /\ Moved(m, n, "cq", t)
    BY <2>1, <2>2
  <2>5. SameBelow(m, n) /\ n.stack[d].left = t /\ n.stack[d].at = "cq"
        /\ n.stack[d].change = m.stack[d].change
        /\ n.stack[d].withCQ = m.stack[d].withCQ
        /\ n.stack[d].oldLen = m.stack[d].oldLen
    BY <2>4 DEF Moved
  <2>6. \A k \in 1 .. d : k < d => n.stack[k] = m.stack[k]
    BY <1>1, <2>5 DEF SameBelow
  <2>7. Elements(n.stack[d].left) \cup {h} = Elements(m.stack[d].left)
    BY <1>1, <2>5 DEF t
  <2>. QED  BY <2>4, <2>5, <2>6, <2>7 DEF SameShared
<1>. HIDE DEF n, d, h
<1>3. \A k \in 1 .. d : k < d \/ k = d
  BY <1>1
<1>5. Shape(n)
  <2>. SUFFICES ASSUME NEW k \in 1 .. d  PROVE Shaped(n, k)
    BY <1>2 DEF Shape
  <2>1. Shaped(m, k)
    BY <1>4 DEF Shape, d
  <2>2. \A j \in 1 .. d : /\ n.stack[j].change = m.stack[j].change
                         /\ n.stack[j].withCQ = m.stack[j].withCQ
                         /\ n.stack[j].oldLen = m.stack[j].oldLen
                         /\ n.stack[j].at = m.stack[j].at
    BY <1>1, <1>2, <1>3
  <2>. QED  BY <1>2, <2>1, <2>2 DEF Shaped, Early, d
<1>6. Branch(g, n)
  <2>1. \A k \in 1 .. d : n.stack[k].at = "gerrit" =>
          Elements(n.stack[k].left) \subseteq GerritParents(g, n.stack[k].change)
    BY <1>1, <1>2, <1>3, <1>4 DEF Branch, d
  <2>2. ASSUME NEW j \in 1 .. d, NEW k \in 1 .. d, j < k,
               n.stack[j].at = "gerrit"
        PROVE  /\ ~n.stack[k].withCQ
               /\ LeadsTo(g, n.stack[j].change, n.stack[k].change)
               /\ n.stack[k].at = "gerrit" =>
                    n.stack[j].change # n.stack[k].change
    <3>1. j < d /\ n.stack[j] = m.stack[j]
      BY <1>1, <1>2, <2>2
    <3>2. /\ ~m.stack[k].withCQ
          /\ LeadsTo(g, m.stack[j].change, m.stack[k].change)
          /\ m.stack[k].at = "gerrit" => m.stack[j].change # m.stack[k].change
      BY <1>4, <2>2, <3>1 DEF Branch, d
    <3>3. /\ n.stack[k].change = m.stack[k].change
          /\ n.stack[k].withCQ = m.stack[k].withCQ
          /\ n.stack[k].at = "gerrit" => m.stack[k].at = "gerrit"
      BY <1>1, <1>2, <1>3
    <3>. QED  BY <3>1, <3>2, <3>3
  <2>. QED  BY <1>2, <2>1, <2>2 DEF Branch
<1>7. Origin(g, r, n)
  BY <1>1, <1>2, <1>3, <1>4, EmptyElements DEF Origin, d
<1>8. Looked(g, n)
  BY <1>2, <1>4 DEF Looked
<1>9. RootPending(r, n)
  BY <1>1, <1>2, <1>3, <1>4 DEF RootPending, d
<1>10. SeenPending(n)
  BY <1>1, <1>2, <1>3, <1>4 DEF SeenPending, d
<1>11. GerritPending(g, n)
  <2>. SUFFICES ASSUME NEW x \in n.gerritSeen, NEW y \in GerritParents(g, x),
                       y \notin Elements(m.plan)
                PROVE  \E k \in 1 .. d :
                         /\ n.stack[k].at = "gerrit" /\ n.stack[k].change = x
                         /\ \/ y \in Elements(n.stack[k].left)
                            \/ k < d /\ n.stack[k + 1].change = y
    BY <1>2 DEF GerritPending
  <2>1. PICK k \in 1 .. d :
          /\ m.stack[k].at = "gerrit" /\ m.stack[k].change = x
          /\ \/ y \in Elements(m.stack[k].left)
             \/ k < d /\ m.stack[k + 1].change = y
    BY <1>2, <1>4 DEF GerritPending, d
  <2>2. k < d
    BY <1>1, <1>3, <2>1
  <2>3. n.stack[k] = m.stack[k]
    BY <1>2, <2>2
  <2>4. k + 1 \in 1 .. d
    BY <1>1, <2>2
  <2>5. n.stack[k + 1].change = m.stack[k + 1].change
    BY <1>2, <1>3, <2>4
  <2>. QED  BY <2>1, <2>2, <2>3, <2>5
<1>12. CQPending(n)
  <2>. SUFFICES ASSUME NEW x \in Elements(m.plan), x \notin m.cqSeen
                PROVE  \E k \in 1 .. d :
                         \/ n.stack[k].at = "cq" /\ x \in Elements(n.stack[k].left)
                         \/ Early(n.stack[k]) /\ n.stack[k].change = x
                         \/ /\ Early(n.stack[k])
                            /\ \E i \in n.stack[k].oldLen + 1 .. Len(m.plan) :
                                 m.plan[i] = x
    BY <1>2 DEF CQPending
  <2>1. PICK k \in 1 .. d :
                \/ m.stack[k].at = "cq" /\ x \in Elements(m.stack[k].left)
                \/ Early(m.stack[k]) /\ m.stack[k].change = x
                \/ /\ Early(m.stack[k])
                   /\ \E i \in m.stack[k].oldLen + 1 .. Len(m.plan) :
                        m.plan[i] = x
    BY <1>4 DEF CQPending, d
  <2>2. CASE k = d
    <3>1. x \in Elements(m.stack[d].left)
      BY <1>1, <2>1, <2>2 DEF Early
    <3>2. n.stack[d].at = "cq" /\ x \in Elements(n.stack[d].left)
      BY <1>1, <1>2, <3>1
    <3>. QED  BY <2>2, <3>2
  <2>3. CASE k # d
    <3>1. n.stack[k] = m.stack[k]
      BY <1>2, <1>3, <2>3
    <3>. QED  BY <2>1, <3>1
  <2>. QED  BY <2>2, <2>3
<1>13. CQDepsPending(g, n)
  <2>. SUFFICES ASSUME NEW x \in m.cqSeen, NEW y \in CQParents(g, x),
                       y \notin m.cqSeen
                PROVE  \E k \in 1 .. d :
                         \/ n.stack[k].at = "cq" /\ y \in Elements(n.stack[k].left)
                         \/ Early(n.stack[k]) /\ n.stack[k].change = y
    BY <1>2 DEF CQDepsPending
  <2>1. PICK k \in 1 .. d :
                \/ m.stack[k].at = "cq" /\ y \in Elements(m.stack[k].left)
                \/ Early(m.stack[k]) /\ m.stack[k].change = y
    BY <1>4 DEF CQDepsPending, d
  <2>2. CASE k = d
    <3>1. y \in Elements(n.stack[k].left)
      BY <1>1, <1>2, <2>1, <2>2 DEF Early
    <3>. QED  BY <1>2, <2>2, <3>1
  <2>3. CASE k # d
    <3>1. n.stack[k] = m.stack[k]
      BY <1>2, <1>3, <2>3
    <3>. QED  BY <2>1, <3>1
  <2>. QED  BY <2>2, <2>3
<1>14. Ordered(g, n)
  BY <1>1, <1>2, <1>3, <1>4 DEF Ordered, d
<1>. QED  BY <1>0, <1>2, <1>5, <1>6, <1>7, <1>8, <1>9, <1>10, <1>11, <1>12,
             <1>13, <1>14 DEF Going, n

(* There is no CQ-DEPEND left: the call returns. *)
LEMMA CQDone ==
  ASSUME NEW g, GoodPool(g), NEW r \in Patches, NEW m, Going(g, r, m),
         m.stack # <<>>, Top(m).at = "cq", Top(m).left = <<>>
  PROVE  Going(g, r, Returns(m))
<1>. DEFINE n == Returns(m)
            d == Len(m.stack)
<1>0. m \in Machines /\ ~m.raised
  BY DEF Going
<1>4. /\ Shape(m) /\ Branch(g, m) /\ Origin(g, r, m) /\ Looked(g, m)
      /\ RootPending(r, m) /\ SeenPending(m) /\ GerritPending(g, m)
      /\ CQPending(m) /\ CQDepsPending(g, m) /\ Ordered(g, m)
  BY DEF Going
<1>1. /\ d \in Nat \ {0} /\ m.stack[d].at = "cq" /\ d \in 1 .. d
      /\ Elements(m.stack[d].left) = {}
  <2>1. /\ d \in Nat \ {0} /\ Top(m) = m.stack[d]
    BY <1>0, TopFacts
  <2>. QED  BY <2>1, EmptyElements
<1>2. /\ n \in Machines /\ Len(n.stack) = d - 1 /\ (n.stack = <<>> <=> d = 1)
      /\ n.plan = m.plan /\ n.gerritSeen = m.gerritSeen
      /\ n.cqSeen = m.cqSeen /\ n.raised = m.raised
      /\ \A k \in 1 .. d - 1 : n.stack[k] = m.stack[k]
  <2>1. /\ n \in Machines /\ Len(n.stack) = d - 1 /\ (n.stack = <<>> <=> d = 1)
        /\ SameShared(m, n) /\ SameBelow(m, n)
    BY <1>0, ReturnsFacts
  <2>. HIDE DEF n
  <2>. QED  BY <1>1, <2>1 DEF SameShared, SameBelow
<1>. HIDE DEF n
<1>3. Popped(m, n)
  <2>1. Len(m.plan) >= Len(m.plan)
    BY <1>0 DEF Machines
  <2>. QED  BY <1>2, <2>1 DEF Popped
<1>5. /\ \A k \in 1 .. d : k \in 1 .. d - 1 \/ k = d
      /\ \A k \in 1 .. d - 1 : k \in 1 .. d /\ k < d
  BY <1>1
<1>6. m.stack[d].change \in Elements(m.plan)
  BY <1>1, <1>4 DEF Shape, Shaped, Origin
<1>7. Shape(n) /\ Branch(g, n)
  BY <1>0, <1>2, <1>3, <1>4, PopShape, PopBranch
<1>8. ~Early(m.stack[Len(m.stack)])
      /\ Elements(m.stack[Len(m.stack)].left) = {}
      /\ m.stack[Len(m.stack)].at # "gerrit"
      /\ m.stack[Len(m.stack)].change \in Elements(n.plan)
      /\ Elements(m.plan) \subseteq Elements(n.plan)
  BY <1>1, <1>2, <1>6 DEF Early
<1>9. GerritPending(g, n)
  BY <1>0, <1>2, <1>3, <1>4, <1>8, PopGerritPending
<1>10. CQPending(n) /\ CQDepsPending(g, n)
  <2>1. /\ \A x \in Elements(m.plan) :
              \/ x \in n.cqSeen
              \/ \E k \in 1 .. Len(n.stack) :
                   LET f == n.stack[k]
                   IN \/ f.at = "cq" /\ x \in Elements(f.left)
                      \/ Early(f) /\ f.change = x
                      \/ Early(f) /\ \E i \in f.oldLen + 1 .. Len(n.plan) :
                                       n.plan[i] = x
        /\ CQDepsPending(g, n)
    BY <1>0, <1>2, <1>3, <1>4, <1>8, PopCQPending
  <2>2. Elements(n.plan) = Elements(m.plan)
    BY <1>2
  <2>3. CQPending(n)
    BY ONLY <2>1, <2>2 DEF CQPending
  <2>. QED  BY <2>1, <2>3
<1>. HIDE DEF d
<1>11. Origin(g, r, n)
  <2>1. ASSUME NEW k \in 1 .. d - 1
        PROVE  /\ n.stack[k].change \in LandsWith(g, r) \ g.committed
               /\ Elements(n.stack[k].left) \subseteq LandsWith(g, r) \ g.committed
    <3>1. k \in 1 .. d /\ n.stack[k] = m.stack[k]
      BY <1>2, <1>5
    <3>. QED  BY <1>4, <3>1 DEF Origin, d
  <2>. QED  BY <1>2, <1>4, <2>1 DEF Origin
<1>12. Looked(g, n)
  BY <1>2, <1>4 DEF Looked
<1>13. RootPending(r, n)
  <2>1. CASE d = 1
    BY <1>1, <1>2, <1>4, <1>6, <2>1 DEF RootPending, d
  <2>2. CASE d # 1
    <3>1. 1 \in 1 .. d - 1
      BY <1>1, <2>2
    <3>2. n.stack[1] = m.stack[1] /\ n.stack # <<>>
      BY <1>2, <2>2, <3>1
    <3>. QED  BY <1>2, <1>4, <3>2 DEF RootPending
  <2>. QED  BY <2>1, <2>2
<1>14. SeenPending(n)
  <2>. SUFFICES ASSUME NEW x \in m.gerritSeen, x \notin Elements(m.plan)
                PROVE  \E k \in 1 .. d - 1 :
                         n.stack[k].at \in {"gerrit", "append"}
                         /\ n.stack[k].change = x
    BY <1>2 DEF SeenPending
  <2>1. PICK k \in 1 .. d : m.stack[k].at \in {"gerrit", "append"}
                            /\ m.stack[k].change = x
    BY <1>4 DEF SeenPending, d
  <2>2. k \in 1 .. d - 1
    BY <1>1, <1>5, <2>1
  <2>. QED  BY <1>2, <2>1, <2>2
<1>15. Ordered(g, n)
  <2>1. ASSUME NEW k \in 1 .. d - 1, n.stack[k].at = "append",
               n.stack[k].change \notin Elements(m.plan)
        PROVE  \/ LeadsTo(g, n.stack[k].change, n.stack[k].change)
               \/ GerritParents(g, n.stack[k].change) \subseteq Elements(m.plan)
    <3>1. k \in 1 .. d /\ n.stack[k] = m.stack[k]
      BY <1>2, <1>5
    <3>. QED  BY <1>4, <2>1, <3>1 DEF Ordered, d
  <2>2. ParentsBeforeChildren(g, m.plan)
    BY <1>4 DEF Ordered
  <2>. QED  BY <1>2, <2>1, <2>2 DEF Ordered
<1>. QED  BY <1>0, <1>2, <1>7, <1>9, <1>10, <1>11, <1>12, <1>13, <1>14, <1>15
          DEF Going, n

-----------------------------------------------------------------------------
(* Adding a change to a plan puts it at the end, or leaves the plan alone.  *)
LEMMA AppendedFacts ==
  ASSUME NEW X, NEW s \in Seq(X), NEW x \in X
  PROVE  LET t == Appended(s, x)
         IN /\ t \in Seq(X) /\ Elements(t) = Elements(s) \cup {x}
            /\ Len(t) >= Len(s) /\ Len(s) \in Nat /\ Len(t) \in Nat
            /\ \A i \in 1 .. Len(s) : t[i] = s[i]
            /\ OnlyOnce(s) => OnlyOnce(t)
            /\ x \notin Elements(s) => Len(t) = Len(s) + 1 /\ t[Len(s) + 1] = x
<1>1. Len(s) \in Nat
  OBVIOUS
<1>2. CASE x \in Elements(s)
  BY <1>1, <1>2 DEF Appended
<1>3. CASE x \notin Elements(s)
  <2>1. Appended(s, x) = Append(s, x)
    BY <1>3 DEF Appended
  <2>. DEFINE t == Append(s, x)
  <2>2. /\ t \in Seq(X) /\ Len(t) = Len(s) + 1
        /\ Elements(t) = Elements(s) \cup {x}
        /\ \A i \in 1 .. Len(s) : t[i] = s[i]
        /\ t[Len(s) + 1] = x
        /\ OnlyOnce(s) => OnlyOnce(t)
    BY <1>3, AppendElements
  <2>. HIDE DEF t
  <2>. QED  BY <1>1, <2>1, <2>2 DEF t
<1>. QED  BY <1>2, <1>3

(* What an addition does to the plan of the calls under way. *)
LEMMA AppendedPlan ==
  ASSUME NEW m \in Machines, NEW c \in Patches
  PROVE  LET t == Appended(m.plan, c)
         IN /\ t \in Seq(Patches) /\ Elements(t) = Elements(m.plan) \cup {c}
            /\ Len(t) >= Len(m.plan) /\ Len(m.plan) \in Nat /\ Len(t) \in Nat
            /\ \A i \in 1 .. Len(m.plan) : t[i] = m.plan[i]
            /\ OnlyOnce(m.plan) => OnlyOnce(t)
            /\ c \notin Elements(m.plan) =>
                 Len(t) = Len(m.plan) + 1 /\ t[Len(m.plan) + 1] = c
<1>1. PICK p \in Seq(Patches) : p = m.plan
  BY DEF Machines
<1>2. c \in Patches
  OBVIOUS
<1>3. /\ Appended(p, c) \in Seq(Patches)
      /\ Elements(Appended(p, c)) = Elements(p) \cup {c}
      /\ Len(Appended(p, c)) >= Len(p)
      /\ Len(p) \in Nat /\ Len(Appended(p, c)) \in Nat
  BY ONLY <1>2, AppendedFacts
<1>4. \A i \in 1 .. Len(p) : Appended(p, c)[i] = p[i]
  BY ONLY <1>2, AppendedFacts
<1>5. OnlyOnce(p) => OnlyOnce(Appended(p, c))
  BY ONLY <1>2, AppendedFacts
<1>6. c \notin Elements(p) =>
        /\ Len(Appended(p, c)) = Len(p) + 1
        /\ Appended(p, c)[Len(p) + 1] = c
  BY ONLY <1>2, AppendedFacts
<1>. QED  BY <1>1, <1>3, <1>4, <1>5, <1>6

(* The order of a plan survives an addition whose parents are there.        *)
LEMMA AppendedOrdered ==
  ASSUME NEW g, NEW X, NEW s \in Seq(X), NEW x \in X,
         ParentsBeforeChildren(g, s),
         x \notin Elements(s) =>
           LeadsTo(g, x, x) \/ GerritParents(g, x) \subseteq Elements(s)
  PROVE  ParentsBeforeChildren(g, Appended(s, x))
<1>1. CASE x \in Elements(s)
  BY <1>1 DEF Appended
<1>2. CASE x \notin Elements(s)
  <2>. DEFINE t == Append(s, x)
  <2>1. /\ Appended(s, x) = t /\ Len(t) = Len(s) + 1 /\ Len(s) \in Nat
        /\ DOMAIN t = 1 .. Len(s) + 1 /\ DOMAIN s = 1 .. Len(s)
        /\ \A i \in 1 .. Len(s) : t[i] = s[i]
        /\ t[Len(s) + 1] = x
    BY <1>2, AppendProperties, LenProperties DEF Appended
  <2>. HIDE DEF t
  <2>. SUFFICES ASSUME NEW i \in 1 .. Len(s) + 1, ~LeadsTo(g, t[i], t[i]),
                       NEW y \in GerritParents(g, t[i])
                PROVE  \E j \in 1 .. i - 1 : t[j] = y
    BY <2>1 DEF ParentsBeforeChildren
  <2>2. CASE i \in 1 .. Len(s)
    <3>1. t[i] = s[i]
      BY <2>1, <2>2
    <3>2. PICK j \in 1 .. i - 1 : s[j] = y
      BY <2>1, <2>2, <3>1 DEF ParentsBeforeChildren
    <3>3. j \in 1 .. Len(s)
      BY <2>1, <2>2
    <3>. QED  BY <2>1, <3>2, <3>3
  <2>3. CASE i = Len(s) + 1
    <3>1. y \in Elements(s)
      BY <1>2, <2>1, <2>3
    <3>2. PICK j \in 1 .. Len(s) : s[j] = y
      BY <2>1, <3>1 DEF Elements
    <3>3. j \in 1 .. i - 1
      BY <2>1, <2>3
    <3>. QED  BY <2>1, <3>2, <3>3
  <2>. QED  BY <2>1, <2>2, <2>3
<1>. QED  BY <1>1, <1>2

(* What is followed into its CQ-DEPENDs is what was added since the call    *)
(* began, and what was looked up.                                           *)
LEMMA FollowedFacts ==
  ASSUME NEW X, NEW s \in Seq(X), NEW l \in Seq(X), NEW o \in Nat,
         o <= Len(s)
  PROVE  /\ FollowedByCQ(s, o, l) \in Seq(X)
         /\ \A i \in o + 1 .. Len(s) : s[i] \in Elements(FollowedByCQ(s, o, l))
         /\ Elements(FollowedByCQ(s, o, l)) \subseteq Elements(s) \cup Elements(l)
         /\ Elements(l) \subseteq Elements(FollowedByCQ(s, o, l))
<1>. DEFINE u == SubSeq(s, o + 1, Len(s))
<1>1. Len(s) \in Nat /\ DOMAIN s = 1 .. Len(s)
  BY LenProperties
<1>2. o + 1 \in Int /\ Len(s) \in Int /\ \A i \in o + 1 .. Len(s) : s[i] \in X
  BY <1>1, ElementOfSeq
<1>3. /\ u \in Seq(X)
      /\ Len(u) = IF o + 1 <= Len(s) THEN Len(s) - (o + 1) + 1 ELSE 0
      /\ \A i \in 1 .. Len(s) - (o + 1) + 1 : u[i] = s[o + 1 + i - 1]
  BY <1>2, SubSeqProperties
<1>. HIDE DEF u
<1>4. Len(u) = Len(s) - o /\ DOMAIN u = 1 .. Len(s) - o
  <2>1. Len(u) = IF o + 1 <= Len(s) THEN Len(s) - (o + 1) + 1 ELSE 0
    BY <1>3
  <2>2. DOMAIN u = 1 .. Len(u)
    BY <1>3, LenProperties
  <2>3. Len(u) = Len(s) - o
    <3>. DEFINE L == Len(s)
    <3>1. /\ L \in Nat /\ o \in Nat /\ o <= L
          /\ Len(u) = IF o + 1 <= L THEN L - (o + 1) + 1 ELSE 0
      BY <1>1, <2>1
    <3>. HIDE DEF L
    <3>2. Len(u) = L - o
      <4>1. CASE o + 1 <= L
        BY ONLY <3>1, <4>1
      <4>2. CASE ~(o + 1 <= L)
        <5>1. L = o
          BY ONLY <3>1, <4>2
        <5>2. Len(u) = 0
          BY ONLY <3>1, <4>2
        <5>. QED  BY ONLY <3>1, <5>1, <5>2
      <4>. QED  BY <4>1, <4>2
    <3>. QED  BY <3>2 DEF L
  <2>. QED  BY <2>2, <2>3
<1>5. ASSUME NEW i \in 1 .. Len(s) - o  PROVE u[i] = s[o + i]
  <2>1. i \in 1 .. Len(s) - (o + 1) + 1 /\ o + 1 + i - 1 = o + i
    BY <1>1
  <2>2. u[i] = s[o + 1 + i - 1]
    BY <1>3, <2>1
  <2>. QED  BY <2>1, <2>2
<1>6. ASSUME NEW i \in o + 1 .. Len(s)  PROVE s[i] \in Elements(u)
  <2>1. i - o \in 1 .. Len(s) - o /\ u[i - o] = s[i]
    BY <1>1, <1>5
  <2>. QED  BY <1>4, <2>1 DEF Elements
<1>7. Elements(u) \subseteq Elements(s)
  <2>1. \A i \in 1 .. Len(s) - o : o + i \in 1 .. Len(s)
    BY <1>1
  <2>. QED  BY <1>1, <1>4, <1>5, <2>1 DEF Elements
<1>8. FollowedByCQ(s, o, l) \in Seq(X)
      /\ Elements(FollowedByCQ(s, o, l)) = Elements(u) \cup Elements(l)
  <2>1. FollowedByCQ(s, o, l) = u \o l
    BY DEF FollowedByCQ, u
  <2>2. u \o l \in Seq(X) /\ Elements(u \o l) = Elements(u) \cup Elements(l)
    BY <1>3, ConcatElements
  <2>. QED  BY <2>1, <2>2
<1>. QED  BY <1>6, <1>7, <1>8

(* A change that is added without its CQ-DEPENDs: its call returns.  Its    *)
(* CQ-DEPENDs are left to a call below, which takes in what was added since *)
(* it began.                                                                *)
LEMMA AddReturn ==
  ASSUME NEW g, GoodPool(g), NEW r \in Patches, NEW m, Going(g, r, m),
         m.stack # <<>>, Top(m).at = "append", ~Top(m).withCQ
  PROVE  Going(g, r, Returns([m EXCEPT !.plan = Appended(@, Top(m).change)]))
<1>. DEFINE c == Top(m).change
            v == [m EXCEPT !.plan = Appended(@, Top(m).change)]
            n == Returns(v)
            d == Len(m.stack)
<1>0. m \in Machines /\ ~m.raised /\ m.plan \in Seq(Patches)
  BY DEF Going, Machines
<1>4. /\ Shape(m) /\ Branch(g, m) /\ Origin(g, r, m) /\ Looked(g, m)
      /\ RootPending(r, m) /\ SeenPending(m) /\ GerritPending(g, m)
      /\ CQPending(m) /\ CQDepsPending(g, m) /\ Ordered(g, m)
  BY DEF Going
<1>1. /\ d \in Nat \ {0} /\ m.stack[d].at = "append" /\ d \in 1 .. d
      /\ m.stack[d].change = c /\ ~m.stack[d].withCQ /\ c \in Patches
  <2>1. /\ d \in Nat \ {0} /\ Top(m) = m.stack[d] /\ Top(m) \in Frames
    BY <1>0, TopFacts
  <2>. QED  BY <2>1 DEF Frames
<1>2. /\ n \in Machines /\ Len(n.stack) = d - 1 /\ (n.stack = <<>> <=> d = 1)
      /\ n.plan = Appended(m.plan, c) /\ n.gerritSeen = m.gerritSeen
      /\ n.cqSeen = m.cqSeen /\ n.raised = m.raised
      /\ \A k \in 1 .. d - 1 : n.stack[k] = m.stack[k]
  <2>0. Appended(m.plan, c) \in Seq(Patches)
    BY <1>0, <1>1, AppendedFacts
  <2>1. /\ v \in Machines /\ v.stack = m.stack /\ v.plan = Appended(m.plan, c)
        /\ v.gerritSeen = m.gerritSeen /\ v.cqSeen = m.cqSeen
        /\ v.raised = m.raised
    BY <1>0, <2>0 DEF Machines
  <2>. HIDE DEF v, c
  <2>2. /\ n \in Machines /\ Len(n.stack) = Len(v.stack) - 1
        /\ (n.stack = <<>> <=> Len(v.stack) = 1)
        /\ SameShared(v, n) /\ SameBelow(v, n)
    BY <2>1, ReturnsFacts
  <2>. HIDE DEF n
  <2>. QED  BY <1>1, <2>1, <2>2 DEF SameShared, SameBelow
<1>. HIDE DEF n, c
<1>p. /\ n.plan \in Seq(Patches) /\ Elements(n.plan) = Elements(m.plan) \cup {c}
      /\ Len(n.plan) >= Len(m.plan) /\ Len(m.plan) \in Nat /\ Len(n.plan) \in Nat
      /\ \A i \in 1 .. Len(m.plan) : n.plan[i] = m.plan[i]
      /\ OnlyOnce(m.plan) => OnlyOnce(n.plan)
      /\ c \notin Elements(m.plan) =>
           Len(n.plan) = Len(m.plan) + 1 /\ n.plan[Len(m.plan) + 1] = c
  <2>. DEFINE t == Appended(m.plan, c)
  <2>1. /\ t \in Seq(Patches) /\ Elements(t) = Elements(m.plan) \cup {c}
        /\ Len(t) >= Len(m.plan) /\ Len(m.plan) \in Nat /\ Len(t) \in Nat
        /\ \A i \in 1 .. Len(m.plan) : t[i] = m.plan[i]
        /\ OnlyOnce(m.plan) => OnlyOnce(t)
        /\ c \notin Elements(m.plan) =>
             Len(t) = Len(m.plan) + 1 /\ t[Len(m.plan) + 1] = c
    BY <1>0, <1>1, AppendedPlan
  <2>2. n.plan = t
    BY <1>2
  <2>. HIDE DEF t, d
  <2>. QED  BY <2>1, <2>2
<1>3. Popped(m, n)
  BY <1>2, <1>p DEF Popped
<1>5. /\ \A k \in 1 .. d : k \in 1 .. d - 1 \/ k = d
      /\ \A k \in 1 .. d - 1 : k \in 1 .. d /\ k < d
  BY <1>1
<1>7. Shape(n) /\ Branch(g, n)
  BY <1>0, <1>2, <1>3, <1>4, PopShape, PopBranch
<1>8. /\ ~Early(m.stack[Len(m.stack)])
      /\ m.stack[Len(m.stack)].at # "cq"
      /\ m.stack[Len(m.stack)].at # "gerrit"
      /\ m.stack[Len(m.stack)].change \in Elements(n.plan)
      /\ Elements(m.plan) \subseteq Elements(n.plan)
  BY <1>1, <1>p DEF Early
<1>9. GerritPending(g, n)
  BY <1>0, <1>2, <1>3, <1>4, <1>8, PopGerritPending
<1>10. CQPending(n) /\ CQDepsPending(g, n)
  <2>1. /\ \A x \in Elements(m.plan) :
             \/ x \in n.cqSeen
             \/ \E k \in 1 .. Len(n.stack) :
                  LET f == n.stack[k]
                  IN \/ f.at = "cq" /\ x \in Elements(f.left)
                     \/ Early(f) /\ f.change = x
                     \/ Early(f) /\ \E i \in f.oldLen + 1 .. Len(n.plan) :
                                      n.plan[i] = x
        /\ CQDepsPending(g, n)
    BY <1>0, <1>2, <1>3, <1>4, <1>8, PopCQPending
  <2>2. ASSUME c \notin Elements(m.plan)
        PROVE  \E k \in 1 .. Len(n.stack) :
                 /\ Early(n.stack[k])
                 /\ \E i \in n.stack[k].oldLen + 1 .. Len(n.plan) : n.plan[i] = c
    <3>1. PICK k \in 1 .. d :
            k < d /\ m.stack[k].at = "gerrit" /\ m.stack[k].withCQ
      BY <1>1, <1>4 DEF Shape, Shaped
    <3>2. k \in 1 .. Len(n.stack) /\ n.stack[k] = m.stack[k]
      BY <1>2, <1>5, <3>1
    <3>3. m.stack[k] \in Frames /\ m.stack[k].oldLen <= Len(m.plan)
      BY <1>0, <1>4, <3>1, ElementOfSeq DEF Machines, Shape, Shaped
    <3>4. m.stack[k].oldLen \in Nat
      BY <3>3 DEF Frames
    <3>5. Len(m.plan) + 1 \in m.stack[k].oldLen + 1 .. Len(n.plan)
          /\ n.plan[Len(m.plan) + 1] = c
      BY <1>p, <2>2, <3>3, <3>4
    <3>6. Early(n.stack[k])
      BY <3>1, <3>2 DEF Early
    <3>. QED  BY <3>2, <3>5, <3>6
  <2>3. \A x \in Elements(n.plan) : x \in Elements(m.plan) \/ (x = c /\ c \notin Elements(m.plan))
    BY <1>p
  <2>4. CQPending(n)
    BY ONLY <2>1, <2>2, <2>3 DEF CQPending
  <2>. QED  BY <2>1, <2>4
<1>6. c \in m.gerritSeen
  BY <1>1, <1>4 DEF Shape, Shaped
<1>. HIDE DEF d
<1>11. Origin(g, r, n)
  <2>1. ASSUME NEW k \in 1 .. d - 1
        PROVE  /\ n.stack[k].change \in LandsWith(g, r) \ g.committed
               /\ Elements(n.stack[k].left) \subseteq LandsWith(g, r) \ g.committed
    <3>1. k \in 1 .. d /\ n.stack[k] = m.stack[k]
      BY <1>2, <1>5
    <3>. QED  BY <1>4, <3>1 DEF Origin, d
  <2>2. /\ Elements(m.plan) \subseteq m.gerritSeen
        /\ m.cqSeen \subseteq Elements(m.plan)
        /\ m.gerritSeen \subseteq LandsWith(g, r) \ g.committed
        /\ OnlyOnce(m.plan)
    BY <1>4 DEF Origin
  <2>3. /\ Elements(n.plan) \subseteq m.gerritSeen
        /\ m.cqSeen \subseteq Elements(n.plan)
        /\ OnlyOnce(n.plan)
    BY <1>p, <1>6, <2>2
  <2>. QED  BY <1>2, <2>1, <2>2, <2>3 DEF Origin
<1>12. Looked(g, n)
  BY <1>2, <1>4 DEF Looked
<1>13. RootPending(r, n)
  <2>1. CASE d = 1
    BY <1>1, <1>p, <1>4, <2>1 DEF RootPending, d
  <2>2. CASE d # 1
    <3>1. 1 \in 1 .. d - 1
      BY <1>1, <2>2
    <3>2. n.stack[1] = m.stack[1] /\ n.stack # <<>>
      BY <1>2, <2>2, <3>1
    <3>. QED  BY <1>p, <1>4, <3>2 DEF RootPending
  <2>. QED  BY <2>1, <2>2
<1>14. SeenPending(n)
  <2>. SUFFICES ASSUME NEW x \in m.gerritSeen, x \notin Elements(n.plan)
                PROVE  \E k \in 1 .. d - 1 :
                         n.stack[k].at \in {"gerrit", "append"}
                         /\ n.stack[k].change = x
    BY <1>2 DEF SeenPending
  <2>1. PICK k \in 1 .. d : m.stack[k].at \in {"gerrit", "append"}
                            /\ m.stack[k].change = x
    BY <1>4, <1>p DEF SeenPending, d
  <2>2. k \in 1 .. d - 1
    BY <1>1, <1>p, <1>5, <2>1
  <2>. QED  BY <1>2, <2>1, <2>2
<1>15. Ordered(g, n)
  <2>1. ParentsBeforeChildren(g, m.plan)
        /\ (c \notin Elements(m.plan) =>
              LeadsTo(g, c, c) \/ GerritParents(g, c) \subseteq Elements(m.plan))
    BY <1>1, <1>4 DEF Ordered, d
  <2>2. ParentsBeforeChildren(g, n.plan)
    BY <1>0, <1>1, <1>2, <2>1, AppendedOrdered
  <2>3. \A k \in 1 .. d - 1 : n.stack[k].at # "append"
    BY <1>2, <1>4, <1>5 DEF Shape, Shaped, d
  <2>. QED  BY <1>2, <2>2, <2>3 DEF Ordered
<1>. QED  BY <1>0, <1>2, <1>7, <1>9, <1>10, <1>11, <1>12, <1>13, <1>14, <1>15
          DEF Going, n

-----------------------------------------------------------------------------
(* A change that is added, with its CQ-DEPENDs next: they, and what was     *)
(* added since the call began, are to be followed.                          *)
LEMMA AddCQ ==
  ASSUME NEW g, GoodPool(g), NEW r \in Patches, NEW m, Going(g, r, m),
         m.stack # <<>>, Top(m).at = "append", Top(m).withCQ,
         ~NotReady(g, g.cq[Top(m).change])
  PROVE  LET added == [m EXCEPT !.plan = Appended(@, Top(m).change)]
         IN Going(g, r, Goes([added EXCEPT !.cqSeen = @ \cup {Top(m).change}],
                             "cq",
                             FollowedByCQ(added.plan, Top(m).oldLen,
                               Unsatisfied(g, g.cq[Top(m).change]))))
<1>. DEFINE c == Top(m).change
            p == Appended(m.plan, c)
            l == FollowedByCQ(p, Top(m).oldLen, Unsatisfied(g, g.cq[c]))
            w == [m EXCEPT !.plan = Appended(@, Top(m).change)]
            v == [w EXCEPT !.cqSeen = @ \cup {Top(m).change}]
            n == Goes(v, "cq", FollowedByCQ(w.plan, Top(m).oldLen,
                                 Unsatisfied(g, g.cq[Top(m).change])))
            d == Len(m.stack)
<1>0. m \in Machines /\ ~m.raised /\ m.plan \in Seq(Patches)
  BY DEF Going, Machines
<1>4. /\ Shape(m) /\ Branch(g, m) /\ Origin(g, r, m) /\ Looked(g, m)
      /\ RootPending(r, m) /\ SeenPending(m) /\ GerritPending(g, m)
      /\ CQPending(m) /\ CQDepsPending(g, m) /\ Ordered(g, m)
  BY DEF Going
<1>1. /\ d \in Nat \ {0} /\ m.stack[d].at = "append" /\ d \in 1 .. d
      /\ m.stack[d].change = c /\ m.stack[d].withCQ /\ c \in Patches
      /\ m.stack[d].oldLen = Top(m).oldLen /\ Top(m).oldLen \in Nat
      /\ ~NotReady(g, g.cq[c])
  <2>1. /\ d \in Nat \ {0} /\ Top(m) = m.stack[d] /\ Top(m) \in Frames
    BY <1>0, TopFacts
  <2>. QED  BY <2>1 DEF Frames
<1>p. /\ p \in Seq(Patches) /\ Elements(p) = Elements(m.plan) \cup {c}
      /\ Len(p) >= Len(m.plan) /\ Len(m.plan) \in Nat /\ Len(p) \in Nat
      /\ \A i \in 1 .. Len(m.plan) : p[i] = m.plan[i]
      /\ OnlyOnce(m.plan) => OnlyOnce(p)
  <2>. HIDE DEF c
  <2>. QED  BY <1>0, <1>1, AppendedPlan
<1>o. Top(m).oldLen <= Len(m.plan) /\ Top(m).oldLen <= Len(p)
  <2>1. m.stack[d].oldLen <= Len(m.plan)
    BY <1>1, <1>4 DEF Shape, Shaped
  <2>. HIDE DEF p, d
  <2>. QED  BY <1>1, <1>p, <2>1
<1>l. /\ l \in Seq(Patches)
      /\ \A i \in Top(m).oldLen + 1 .. Len(p) : p[i] \in Elements(l)
      /\ Elements(l) \subseteq Elements(p) \cup CQParents(g, c)
      /\ CQParents(g, c) \subseteq Elements(l)
  <2>. DEFINE u == Unsatisfied(g, g.cq[c])
              o == Top(m).oldLen
  <2>1. u \in Seq(Patches) /\ Elements(u) = CQParents(g, c)
    BY <1>1, UnsatisfiedFacts DEF CQParents
  <2>2. PICK q \in Seq(Patches) : q = p
    BY <1>p
  <2>3. PICK s \in Seq(Patches) : s = u
    BY <2>1
  <2>4. o \in Nat /\ o <= Len(q)
    BY <1>1, <1>o, <2>2
  <2>. HIDE DEF p, u, o
  <2>5. /\ FollowedByCQ(q, o, s) \in Seq(Patches)
        /\ \A i \in o + 1 .. Len(q) : q[i] \in Elements(FollowedByCQ(q, o, s))
        /\ Elements(FollowedByCQ(q, o, s)) \subseteq Elements(q) \cup Elements(s)
        /\ Elements(s) \subseteq Elements(FollowedByCQ(q, o, s))
    BY <2>4, FollowedFacts
  <2>6. FollowedByCQ(q, o, s) = l
    BY <2>2, <2>3 DEF u, o
  <2>. QED  BY <2>1, <2>2, <2>3, <2>5, <2>6 DEF o
<1>2. /\ n \in Machines /\ Len(n.stack) = d /\ n.stack # <<>>
      /\ n.plan = p /\ n.gerritSeen = m.gerritSeen
      /\ n.cqSeen = m.cqSeen \cup {c} /\ n.raised = m.raised
      /\ \A k \in 1 .. d : k < d => n.stack[k] = m.stack[k]
      /\ n.stack[d].change = c /\ n.stack[d].withCQ
      /\ n.stack[d].oldLen = Top(m).oldLen
      /\ n.stack[d].at = "cq" /\ n.stack[d].left = l
  <2>. HIDE DEF p
  <2>1. /\ v \in Machines /\ v.stack = m.stack /\ v.plan = p
        /\ v.gerritSeen = m.gerritSeen /\ v.cqSeen = m.cqSeen \cup {c}
        /\ v.raised = m.raised /\ w.plan = p
    BY <1>0, <1>1, <1>p DEF Machines, p
  <2>2. n = Goes(v, "cq", l)
    BY <2>1
  <2>. HIDE DEF v, w, l, c, n
  <2>3. l \in Seq(Patches) /\ v.stack # <<>>
    BY <1>l, <2>1
  <2>4. /\ Goes(v, "cq", l) \in Machines
        /\ SameShared(v, Goes(v, "cq", l))
        /\ Len(Goes(v, "cq", l).stack) = Len(v.stack)
        /\ Goes(v, "cq", l).stack # <<>>
        /\ Moved(v, Goes(v, "cq", l), "cq", l)
    BY <2>1, <2>3, GoesFacts
  <2>. QED  BY <1>1, <2>1, <2>2, <2>4 DEF SameShared, SameBelow, Moved
<1>. HIDE DEF n, c, d, p, l
<1>3. \A k \in 1 .. d : k < d \/ k = d
  BY <1>1
<1>a. \A k \in 1 .. d : k < d => m.stack[k].at = "cq" /\ n.stack[k] = m.stack[k]
  <2>. SUFFICES ASSUME NEW k \in 1 .. d, k < d, m.stack[k].at # "cq"
                PROVE  FALSE
    BY <1>2
  <2>1. m.stack[k].at = "gerrit"
    BY <1>4 DEF Shape, Shaped, d
  <2>. QED  BY <1>1, <1>4, <2>1 DEF Branch, d
<1>c. c \in m.gerritSeen /\ Elements(p) \subseteq m.gerritSeen
  <2>1. c \in m.gerritSeen
    BY <1>1, <1>4 DEF Shape, Shaped, d
  <2>. QED  BY <1>p, <1>4, <2>1 DEF Origin
<1>5. Shape(n)
  <2>1. ASSUME NEW k \in 1 .. d, k < d
        PROVE  /\ n.stack[k].oldLen <= Len(p) /\ n.stack[k].at = "cq"
               /\ n.stack[k].withCQ /\ n.stack[k].change \in n.cqSeen
    <3>1. m.stack[k] \in Frames
      BY <1>0, ElementOfSeq DEF Machines, d
    <3>2. m.stack[k].oldLen \in Nat
      BY <3>1 DEF Frames
    <3>3. /\ m.stack[k].oldLen <= Len(m.plan) /\ m.stack[k].at = "cq"
          /\ m.stack[k].withCQ /\ m.stack[k].change \in m.cqSeen
      BY <1>4, <1>a, <2>1 DEF Shape, Shaped, d
    <3>4. m.stack[k].oldLen <= Len(p)
      BY <1>p, <3>2, <3>3
    <3>. QED  BY <1>2, <2>1, <3>3, <3>4
  <2>2. ASSUME NEW k \in 1 .. d
        PROVE  /\ n.stack[k].oldLen <= Len(p) /\ n.stack[k].at = "cq"
               /\ n.stack[k].withCQ /\ n.stack[k].change \in n.cqSeen
    BY <1>2, <1>3, <1>o, <2>1
  <2>3. Len(n.stack) = d /\ n.plan = p
    BY <1>2
  <2>. QED  BY <2>2, <2>3 DEF Shape, Shaped, Early
<1>6. Branch(g, n)
  <2>1. \A k \in 1 .. Len(n.stack) : n.stack[k].at # "gerrit"
    BY <1>2, <1>3, <1>a
  <2>. QED  BY <2>1 DEF Branch
<1>7. Origin(g, r, n)
  <2>. DEFINE Fine == LandsWith(g, r) \ g.committed
  <2>1. m.gerritSeen \subseteq Fine /\ c \in Fine
    BY <1>4, <1>c DEF Origin
  <2>2. CQParents(g, c) \subseteq Fine
    BY <1>1, <2>1, UnsatisfiedFacts, LandsWithFacts
  <2>3. Elements(l) \subseteq Fine
    BY <1>c, <1>l, <2>1, <2>2
  <2>4. \A k \in 1 .. d : n.stack[k].change \in Fine
                          /\ Elements(n.stack[k].left) \subseteq Fine
    BY <1>2, <1>3, <1>4, <2>1, <2>3 DEF Origin, d
  <2>5. OnlyOnce(p) /\ m.cqSeen \subseteq Elements(p)
    BY <1>4, <1>p DEF Origin
  <2>. QED  BY <1>2, <1>c, <1>p, <2>1, <2>4, <2>5 DEF Origin
<1>8. Looked(g, n)
  BY <1>1, <1>2, <1>4 DEF Looked
<1>9. RootPending(r, n)
  <2>1. r \in Elements(p)
    <3>. SUFFICES ASSUME r \notin Elements(m.plan)  PROVE r = c
      BY <1>p
    <3>1. m.stack[1].change = r /\ m.stack[1].at # "cq"
      BY <1>4 DEF RootPending
    <3>2. 1 \in 1 .. d /\ (1 < d \/ 1 = d)
      BY <1>1
    <3>3. 1 = d
      BY <1>a, <3>1, <3>2
    <3>. QED  BY <1>1, <3>1, <3>3
  <2>. QED  BY <1>2, <2>1 DEF RootPending
<1>10. m.gerritSeen \subseteq Elements(p)
  <2>. SUFFICES ASSUME NEW x \in m.gerritSeen, x \notin Elements(m.plan)
                PROVE  x = c
    BY <1>p
  <2>1. PICK k \in 1 .. d : m.stack[k].at \in {"gerrit", "append"}
                            /\ m.stack[k].change = x
    BY <1>4 DEF SeenPending, d
  <2>2. k = d
    BY <1>3, <1>a, <2>1
  <2>. QED  BY <1>1, <2>1, <2>2
<1>11. SeenPending(n)
  BY <1>2, <1>10 DEF SeenPending
<1>12. GerritPending(g, n)
  <2>. SUFFICES ASSUME NEW x \in m.gerritSeen, NEW y \in GerritParents(g, x)
                PROVE  y \in Elements(p)
    BY <1>2 DEF GerritPending
  <2>1. y \in Elements(m.plan) \/ \E k \in 1 .. d : m.stack[k].at = "gerrit"
    BY <1>4 DEF GerritPending, d
  <2>2. \A k \in 1 .. d : m.stack[k].at # "gerrit"
    BY <1>1, <1>3, <1>a
  <2>. QED  BY <1>p, <2>1, <2>2
<1>13. CQPending(n)
  <2>. SUFFICES ASSUME NEW x \in Elements(m.plan), x \notin m.cqSeen, x # c
                PROVE  \E k \in 1 .. d :
                         n.stack[k].at = "cq" /\ x \in Elements(n.stack[k].left)
    BY <1>2, <1>p DEF CQPending
  <2>1. PICK k \in 1 .. d :
             \/ m.stack[k].at = "cq" /\ x \in Elements(m.stack[k].left)
             \/ Early(m.stack[k]) /\ m.stack[k].change = x
             \/ Early(m.stack[k])
                /\ \E i \in m.stack[k].oldLen + 1 .. Len(m.plan) : m.plan[i] = x
    BY <1>4 DEF CQPending, d
  <2>2. CASE k < d
    <3>1. m.stack[k].at = "cq" /\ x \in Elements(m.stack[k].left)
      BY <1>a, <2>1, <2>2 DEF Early
    <3>. QED  BY <1>2, <2>2, <3>1
  <2>3. CASE k = d
    <3>1. PICK i \in Top(m).oldLen + 1 .. Len(m.plan) : m.plan[i] = x
      BY <1>1, <2>1, <2>3
    <3>2. i \in Top(m).oldLen + 1 .. Len(p) /\ i \in 1 .. Len(m.plan)
      BY <1>1, <1>p, <1>o
    <3>3. p[i] = x
      BY <1>p, <3>1, <3>2
    <3>4. x \in Elements(l)
      BY <1>l, <3>2, <3>3
    <3>. QED  BY <1>1, <1>2, <3>4
  <2>. QED  BY <1>3, <2>2, <2>3
<1>14. CQDepsPending(g, n)
  <2>. SUFFICES ASSUME NEW x \in m.cqSeen \cup {c}, NEW y \in CQParents(g, x),
                       y \notin m.cqSeen, y # c
                PROVE  \E k \in 1 .. d :
                         n.stack[k].at = "cq" /\ y \in Elements(n.stack[k].left)
    BY <1>2 DEF CQDepsPending
  <2>1. CASE x = c
    <3>1. y \in Elements(l)
      BY <1>l, <2>1
    <3>. QED  BY <1>1, <1>2, <3>1
  <2>2. CASE x \in m.cqSeen
    <3>1. PICK k \in 1 .. d :
             \/ m.stack[k].at = "cq" /\ y \in Elements(m.stack[k].left)
             \/ Early(m.stack[k]) /\ m.stack[k].change = y
      BY <1>4, <2>2 DEF CQDepsPending, d
    <3>2. k < d
      BY <1>1, <1>3, <3>1
    <3>3. y \in Elements(m.stack[k].left)
      BY <1>a, <3>1, <3>2 DEF Early
    <3>. QED  BY <1>a, <3>2, <3>3
  <2>. QED  BY <2>1, <2>2
<1>15. Ordered(g, n)
  <2>1. ParentsBeforeChildren(g, m.plan)
        /\ (c \notin Elements(m.plan) =>
              LeadsTo(g, c, c) \/ GerritParents(g, c) \subseteq Elements(m.plan))
    BY <1>1, <1>4 DEF Ordered, d
  <2>2. ParentsBeforeChildren(g, n.plan)
    BY <1>0, <1>1, <1>2, <2>1, AppendedOrdered DEF p
  <2>3. \A k \in 1 .. d : n.stack[k].at # "append"
    BY <1>2, <1>3, <1>a
  <2>. QED  BY <1>2, <2>2, <2>3 DEF Ordered
<1>. QED  BY <1>0, <1>2, <1>5, <1>6, <1>7, <1>8, <1>9, <1>11, <1>12, <1>13,
             <1>14, <1>15 DEF Going, n

-----------------------------------------------------------------------------
(* What the call for r has achieved when it is over. *)
Outcome(g, r, m) ==
  IF m.raised THEN \E x \in Required(g, r) : Obstacle(g, x)
  ELSE /\ m.plan \in Seq(Patches) /\ OnlyOnce(m.plan)
       /\ Elements(m.plan) = Required(g, r)
       /\ ParentsBeforeChildren(g, m.plan)
       /\ \A x \in Required(g, r) : ~Obstacle(g, x)

(* CreateTransaction begins with the invariant. *)
LEMMA RunStart ==
  ASSUME NEW g, GoodPool(g), NEW r \in Patches
  PROVE  RunInv(g, r, Start(r)) /\ Start(r).stack # <<>>
<1>. DEFINE n == Start(r)
<1>1. /\ Idle \in Machines /\ Idle.stack = <<>> /\ Idle.plan = <<>>
      /\ Idle.gerritSeen = {} /\ Idle.cqSeen = {} /\ Idle.raised = FALSE
  BY DEF Idle, Machines
<1>2. PICK i \in Machines : i = Idle
  BY <1>1
<1>3. PICK b \in BOOLEAN : b
  OBVIOUS
<1>4. n = Calls(i, r, b)
  BY <1>2, <1>3 DEF Start, Idle
<1>. HIDE DEF n
<1>9. /\ Calls(i, r, b) \in Machines /\ SameShared(i, Calls(i, r, b))
      /\ Len(Calls(i, r, b).stack) = Len(i.stack) + 1
      /\ Calls(i, r, b).stack[Len(i.stack) + 1].change = r
      /\ Calls(i, r, b).stack[Len(i.stack) + 1].withCQ = b
      /\ Calls(i, r, b).stack[Len(i.stack) + 1].oldLen = Len(i.plan)
      /\ Calls(i, r, b).stack[Len(i.stack) + 1].at = "begin"
      /\ Calls(i, r, b).stack[Len(i.stack) + 1].left = <<>>
  BY CallsFacts
<1>10. /\ Len(i.stack) = 0 /\ Len(i.plan) = 0 /\ i.plan = <<>>
       /\ i.gerritSeen = {} /\ i.cqSeen = {} /\ ~i.raised
  BY <1>1, <1>2
<1>11. /\ n \in Machines /\ Len(n.stack) = 1 /\ n.plan = <<>>
       /\ n.gerritSeen = {} /\ n.cqSeen = {} /\ ~n.raised
       /\ n.stack[1].change = r /\ n.stack[1].oldLen = 0
       /\ n.stack[1].at = "begin" /\ n.stack[1].left = <<>>
  BY <1>4, <1>9, <1>10 DEF SameShared
<1>12. n.stack[1].withCQ
  <2>1. n.stack[Len(i.stack) + 1].withCQ = b
    BY <1>4, <1>9
  <2>2. Len(i.stack) + 1 = 1
    BY <1>10
  <2>3. n.stack[1].withCQ = b
    BY ONLY <2>1, <2>2
  <2>. QED  BY ONLY <1>3, <2>3
<1>5. /\ n \in Machines /\ Len(n.stack) = 1 /\ n.plan = <<>>
      /\ n.gerritSeen = {} /\ n.cqSeen = {} /\ ~n.raised
      /\ n.stack[1].change = r /\ n.stack[1].withCQ
      /\ n.stack[1].oldLen = 0 /\ n.stack[1].at = "begin"
      /\ n.stack[1].left = <<>>
  BY <1>11, <1>12
<1>6. n.stack # <<>> /\ 1 .. Len(n.stack) = {1} /\ Len(n.plan) = 0
      /\ Elements(n.plan) = {} /\ Elements(n.stack[1].left) = {}
      /\ DOMAIN n.plan = {}
  BY <1>5, EmptyElements
<1>7. CASE r \notin g.committed
  <2>1. Shape(n)
    BY <1>5, <1>6 DEF Shape, Shaped
  <2>2. Branch(g, n)
    BY <1>5, <1>6 DEF Branch
  <2>3. Origin(g, r, n)
    <3>1. r \in LandsWith(g, r)
      BY LandsWithFacts
    <3>2. OnlyOnce(n.plan)
      BY <1>6 DEF OnlyOnce
    <3>. QED  BY <1>5, <1>6, <1>7, <3>1, <3>2 DEF Origin
  <2>4. Looked(g, n) /\ RootPending(r, n) /\ SeenPending(n)
        /\ GerritPending(g, n) /\ CQPending(n) /\ CQDepsPending(g, n)
    BY <1>5, <1>6 DEF Looked, RootPending, SeenPending, GerritPending,
                      CQPending, CQDepsPending
  <2>5. Ordered(g, n)
    BY <1>5, <1>6 DEF Ordered, ParentsBeforeChildren
  <2>. QED  BY <1>5, <1>6, <1>7, <2>1, <2>2, <2>3, <2>4, <2>5
            DEF RunInv, Going, n
<1>8. CASE r \in g.committed
  BY <1>6, <1>8 DEF RunInv, n
<1>. QED  BY <1>7, <1>8

(* The first thing that becomes of a change in _committed_cache is that it  *)
(* is left out.                                                             *)
LEMMA RunCommitted ==
  ASSUME NEW g, GoodPool(g), NEW r \in Patches, r \in g.committed
  PROVE  AddChangeToPlanWithDeps(g, Start(r)) = Idle
<1>. DEFINE n == Start(r)
            h == [change |-> r, withCQ |-> TRUE, oldLen |-> 0,
                  at |-> "begin", left |-> <<>>]
<1>1. n = [stack |-> Append(<<>>, h), plan |-> <<>>, gerritSeen |-> {},
           cqSeen |-> {}, raised |-> FALSE]
  <2>. DEFINE i == [stack |-> <<>>, plan |-> <<>>, gerritSeen |-> {},
                    cqSeen |-> {}, raised |-> FALSE]
  <2>1. i.stack = <<>> /\ Len(i.plan) = 0
    OBVIOUS
  <2>2. n = [i EXCEPT !.stack = Append(i.stack, h)]
    BY <2>1 DEF Start, Calls
  <2>. HIDE DEF h, n
  <2>. QED  BY <2>2
<1>. HIDE DEF h
<1>2. Append(<<>>, h) = <<h>> /\ Len(<<h>>) = 1 /\ <<h>>[1] = h
  OBVIOUS
<1>. HIDE DEF n
<1>3. n.stack = <<h>>
  BY <1>1, <1>2
<1>4. Top(n) = h
  BY <1>2, <1>3 DEF Top
<1>5. AddChangeToPlanWithDeps(g, n) = Returns(n)
  BY <1>4 DEF AddChangeToPlanWithDeps, Enter, h
<1>6. SubSeq(n.stack, 1, Len(n.stack) - 1) = <<>>
  <2>1. SubSeq(<<h>>, 1, 0) = <<>>
    OBVIOUS
  <2>. QED  BY <1>2, <1>3, <2>1
<1>7. Returns(n) = [n EXCEPT !.stack = <<>>]
  BY <1>6 DEF Returns
<1>8. Returns(n) = Idle
  BY <1>1, <1>7 DEF Idle
<1>. QED  BY <1>5, <1>8 DEF n

(* Each step of the calls keeps the invariant. *)
LEMMA RunStep ==
  ASSUME NEW g, GoodPool(g), NEW r \in Patches, NEW m, RunInv(g, r, m),
         ~Ended(m)
  PROVE  RunInv(g, r, AddChangeToPlanWithDeps(g, m))
<1>1. m.stack # <<>>
  BY DEF Ended
<1>2. CASE r \in g.committed
  <2>1. m = Start(r)
    BY <1>1, <1>2 DEF RunInv, Idle
  <2>. QED  BY <1>2, <2>1, RunCommitted DEF RunInv
<1>3. CASE r \notin g.committed
  <2>1. Going(g, r, m)
    BY <1>1, <1>3 DEF RunInv
  <2>. DEFINE c == Top(m).change
              d == Len(m.stack)
              n == AddChangeToPlanWithDeps(g, m)
  <2>2. /\ m \in Machines /\ Shape(m) /\ Origin(g, r, m)
    BY <2>1 DEF Going
  <2>3. /\ d \in 1 .. d /\ Top(m) = m.stack[d] /\ Top(m) \in Frames
    BY <1>1, <2>2, TopFacts
  <2>4. c \in LandsWith(g, r) /\ c \notin g.committed
    BY <2>2, <2>3 DEF Origin
  <2>5. ASSUME Obstacle(g, c), NEW v
        PROVE  RunInv(g, r, Raises([m EXCEPT !.plan = v]))
               /\ RunInv(g, r, Raises(m))
    <3>1. \A x : x = Raises([m EXCEPT !.plan = v]) \/ x = Raises(m) =>
                   x.stack = <<>> /\ x.raised
      BY <2>2 DEF Raises, Machines
    <3>. QED  BY <1>3, <2>4, <2>5, <3>1 DEF RunInv
  <2>6. CASE Top(m).at = "begin"
    <3>1. n = Enter(g, m)
      BY <2>6 DEF AddChangeToPlanWithDeps
    <3>2. CASE c \in m.gerritSeen
      <4>1. n = Goes(m, "append", <<>>)
        BY <2>4, <3>1, <3>2 DEF Enter
      <4>. QED  BY <1>1, <1>3, <2>1, <2>6, <3>2, <4>1, EnterSeen DEF RunInv
    <3>3. CASE c \notin m.gerritSeen /\ NotReady(g, g.gerrit[c])
      <4>1. n = Raises(m)
        BY <2>4, <3>1, <3>3 DEF Enter
      <4>. QED  BY <2>5, <3>3, <4>1 DEF Obstacle
    <3>4. CASE c \notin m.gerritSeen /\ ~NotReady(g, g.gerrit[c])
      <4>1. n = Goes([m EXCEPT !.gerritSeen = @ \cup {Top(m).change}],
                     "gerrit", Unsatisfied(g, g.gerrit[Top(m).change]))
        BY <2>4, <3>1, <3>4 DEF Enter
      <4>2. Going(g, r, n)
        BY <1>1, <2>1, <2>6, <3>4, <4>1, EnterNew
      <4>. QED  BY <1>3, <4>2 DEF RunInv
    <3>. QED  BY <3>2, <3>3, <3>4
  <2>7. CASE Top(m).at = "gerrit"
    <3>1. n = AddGerritDeps(m)
      BY <2>7 DEF AddChangeToPlanWithDeps
    <3>2. Going(g, r, n)
      <4>1. CASE Top(m).left = <<>>
        BY <1>1, <2>1, <2>7, <3>1, <4>1, GerritDone DEF AddGerritDeps
      <4>2. CASE Top(m).left # <<>>
        BY <1>1, <2>1, <2>7, <3>1, <4>2, GerritNext DEF AddGerritDeps
      <4>. QED  BY <4>1, <4>2
    <3>. QED  BY <1>3, <3>2 DEF RunInv
  <2>8. CASE Top(m).at = "append"
    <3>1. n = AddItself(g, m)
      BY <2>8 DEF AddChangeToPlanWithDeps
    <3>2. CASE ~Top(m).withCQ
      <4>1. n = Returns([m EXCEPT !.plan = Appended(@, Top(m).change)])
        BY <3>1, <3>2 DEF AddItself
      <4>2. Going(g, r, n)
        BY <1>1, <2>1, <2>8, <3>2, <4>1, AddReturn
      <4>. QED  BY <1>3, <4>2 DEF RunInv
    <3>3. CASE Top(m).withCQ
      <4>1. c \notin m.cqSeen
        BY <2>2, <2>3, <2>8, <3>3 DEF Shape, Shaped, Early
      <4>2. CASE NotReady(g, g.cq[c])
        <5>1. n = Raises([m EXCEPT !.plan = Appended(@, c)])
          BY <3>1, <3>3, <4>1, <4>2 DEF AddItself
        <5>. QED  BY <2>5, <4>2, <5>1 DEF Obstacle
      <4>3. CASE ~NotReady(g, g.cq[c])
        <5>. DEFINE added == [m EXCEPT !.plan = Appended(@, Top(m).change)]
                    v == Goes([added EXCEPT !.cqSeen = @ \cup {Top(m).change}],
                             "cq",
                             FollowedByCQ(added.plan, Top(m).oldLen,
                               Unsatisfied(g, g.cq[Top(m).change])))
        <5>1. n = v
          BY <3>1, <3>3, <4>1, <4>3 DEF AddItself
        <5>2. Going(g, r, v)
          BY <1>1, <2>1, <2>8, <3>3, <4>3, AddCQ
        <5>. HIDE DEF v
        <5>. QED  BY <1>3, <5>1, <5>2 DEF RunInv
      <4>. QED  BY <4>2, <4>3
    <3>. QED  BY <3>2, <3>3
  <2>9. CASE Top(m).at = "cq"
    <3>1. n = AddCQDeps(m)
      BY <2>9 DEF AddChangeToPlanWithDeps
    <3>2. Going(g, r, n)
      <4>1. CASE Top(m).left = <<>>
        BY <1>1, <2>1, <2>9, <3>1, <4>1, CQDone DEF AddCQDeps
      <4>2. CASE Top(m).left # <<>> /\ Head(Top(m).left) \in m.cqSeen
        BY <1>1, <2>1, <2>9, <3>1, <4>2, CQSkip DEF AddCQDeps
      <4>3. CASE Top(m).left # <<>> /\ Head(Top(m).left) \notin m.cqSeen
        BY <1>1, <2>1, <2>9, <3>1, <4>3, CQNext DEF AddCQDeps
      <4>. QED  BY <4>1, <4>2, <4>3
    <3>. QED  BY <1>3, <3>2 DEF RunInv
  <2>. QED  BY <2>3, <2>6, <2>7, <2>8, <2>9 DEF Frames
<1>. QED  BY <1>2, <1>3

(* When no call is left, all that was pending is in the plan. *)
LEMMA RunEnd ==
  ASSUME NEW g, GoodPool(g), NEW r \in Patches, NEW m, RunInv(g, r, m),
         Ended(m)
  PROVE  Outcome(g, r, m)
<1>1. m.stack = <<>>
  BY DEF Ended
<1>2. CASE r \in g.committed
  <2>1. m = Idle
    BY <1>1, <1>2, RunStart DEF RunInv
  <2>2. m.plan = <<>> /\ ~m.raised /\ Required(g, r) = {}
        /\ m.plan \in Seq(Patches)
    BY <1>2, <2>1 DEF Idle, Required
  <2>3. OnlyOnce(m.plan) /\ ParentsBeforeChildren(g, m.plan)
    BY <2>2 DEF OnlyOnce, ParentsBeforeChildren
  <2>. QED  BY <2>2, <2>3, EmptyElements DEF Outcome
<1>3. CASE r \notin g.committed /\ ~Going(g, r, m)
  BY <1>3 DEF RunInv, Outcome, Required
<1>4. CASE r \notin g.committed /\ Going(g, r, m)
  <2>0. /\ m \in Machines /\ ~m.raised /\ m.plan \in Seq(Patches)
    BY <1>4 DEF Going, Machines
  <2>1. 1 .. Len(m.stack) = {}
    BY <1>1
  <2>2. m.gerritSeen \subseteq Elements(m.plan)
    BY <1>4, <2>1 DEF Going, SeenPending
  <2>3. /\ Elements(m.plan) \subseteq m.gerritSeen
        /\ m.gerritSeen \subseteq LandsWith(g, r) /\ OnlyOnce(m.plan)
        /\ m.cqSeen \subseteq Elements(m.plan)
    BY <1>4 DEF Going, Origin
  <2>4. Elements(m.plan) \subseteq m.cqSeen
    BY <1>4, <2>1 DEF Going, CQPending
  <2>5. r \in Elements(m.plan)
    BY <1>1, <1>4 DEF Going, RootPending
  <2>6. \A x \in Elements(m.plan) : GerritParents(g, x) \subseteq Elements(m.plan)
    BY <1>4, <2>1, <2>3 DEF Going, GerritPending
  <2>7. \A x \in Elements(m.plan) : CQParents(g, x) \subseteq Elements(m.plan)
    BY <1>4, <2>1, <2>3, <2>4 DEF Going, CQDepsPending
  <2>8. Elements(m.plan) \subseteq Patches
    BY <2>3, LandsWithFacts
  <2>9. Closed(g, Elements(m.plan))
    <3>. SUFFICES ASSUME NEW x \in Elements(m.plan)
                  PROVE  Needs(g, x) \subseteq Elements(m.plan)
      BY DEF Closed
    <3>1. Needs(g, x) = GerritParents(g, x) \cup CQParents(g, x)
      BY <2>8, UnsatisfiedFacts
    <3>. QED  BY <2>6, <2>7, <3>1
  <2>10. LandsWith(g, r) \subseteq Elements(m.plan)
    BY <2>5, <2>8, <2>9, LandsWithFacts
  <2>11. \A x \in Elements(m.plan) : ~Obstacle(g, x)
    BY <1>4, <2>3, <2>4 DEF Going, Looked, Obstacle
  <2>12. ParentsBeforeChildren(g, m.plan)
    BY <1>4 DEF Going, Ordered
  <2>13. Elements(m.plan) = Required(g, r)
    BY <1>4, <2>3, <2>10 DEF Required
  <2>. QED  BY <2>0, <2>3, <2>11, <2>12, <2>13 DEF Outcome
<1>. QED  BY <1>2, <1>3, <1>4

-----------------------------------------------------------------------------
(* A set that whole transactions make up. *)
IsPlans(set) ==
  \A x \in set :
    \E c \in DOMAIN deps :
      x \in Elements(deps[c]) /\ Elements(deps[c]) \subseteq set

(* What is left of one set of whole groups without another is one.          *)
LEMMA ApartFacts ==
  ASSUME NEW A, NEW B, Apart(A), Apart(B)
  PROVE  Apart(A \ B) /\ Apart(A \cup B)
<1>1. Apart(A \cup B)
  BY DEF Apart
<1>2. ASSUME NEW c \in DOMAIN deps, NEW z \in Elements(deps[c]), z \in A \ B
      PROVE  Elements(deps[c]) \subseteq A \ B
  BY <1>2 DEF Apart
<1>3. Apart(A \ B)
  <2>. SUFFICES ASSUME NEW c \in DOMAIN deps,
                       Elements(deps[c]) \cap (A \ B) # {}
                PROVE  Elements(deps[c]) \subseteq A \ B
    BY DEF Apart
  <2>. QED  BY <1>2
<1>. QED  BY <1>1, <1>3

(* All the changes in transactions are whole transactions. *)
LEMMA AllApart == Apart(InSomePlan)
  BY DEF Apart, InSomePlan

(* The group of a change is the least set with it that keeps transactions   *)
(* whole.                                                                   *)
LEMMA LinkedFacts ==
  ASSUME NEW x \in InSomePlan
  PROVE  /\ x \in Linked(x) /\ Linked(x) \subseteq InSomePlan
         /\ Apart(Linked(x))
         /\ \A A : A \subseteq InSomePlan /\ x \in A /\ Apart(A) =>
              Linked(x) \subseteq A
<1>1. x \in Linked(x) /\ Linked(x) \subseteq InSomePlan
  BY DEF Linked
<1>2. ASSUME NEW A, A \subseteq InSomePlan, x \in A, Apart(A)
      PROVE  Linked(x) \subseteq A
  BY <1>2 DEF Linked
<1>3. ASSUME NEW c \in DOMAIN deps, NEW y \in Elements(deps[c]),
             y \in Linked(x), NEW z \in Elements(deps[c])
      PROVE  z \in Linked(x)
  <2>1. z \in InSomePlan
    BY DEF InSomePlan
  <2>2. ASSUME NEW A \in SUBSET InSomePlan, x \in A, Apart(A)  PROVE z \in A
    <3>1. y \in A
      BY <1>3, <2>2 DEF Linked
    <3>. QED  BY <2>2, <3>1 DEF Apart
  <2>. QED  BY <2>1, <2>2 DEF Linked
<1>4. Apart(Linked(x))
  BY <1>3 DEF Apart
<1>. QED  BY <1>1, <1>2, <1>4

(* It is the group of every change in it. *)
LEMMA LinkedSame ==
  ASSUME NEW x \in InSomePlan, NEW y \in Linked(x)
  PROVE  Linked(y) = Linked(x)
<1>1. y \in InSomePlan
  BY LinkedFacts
<1>2. Linked(y) \subseteq Linked(x)
  BY <1>1, LinkedFacts
<1>3. x \in Linked(y)
  <2>. SUFFICES ASSUME x \notin Linked(y)  PROVE FALSE
    OBVIOUS
  <2>1. Apart(Linked(x) \ Linked(y))
    BY <1>1, LinkedFacts, ApartFacts
  <2>2. Linked(x) \subseteq Linked(x) \ Linked(y)
    <3>1. x \in Linked(x) \ Linked(y) /\ Linked(x) \ Linked(y) \subseteq InSomePlan
      BY LinkedFacts
    <3>. QED  BY <2>1, <3>1, LinkedFacts
  <2>3. y \in Linked(y)
    BY <1>1, LinkedFacts
  <2>. QED  BY <2>2, <2>3
<1>4. Linked(x) \subseteq Linked(y)
  BY <1>1, <1>3, LinkedFacts
<1>. QED  BY <1>2, <1>4

(* Two lists with nothing in common, one after the other.                   *)
LEMMA ConcatOnlyOnce ==
  ASSUME NEW X, NEW s \in Seq(X), NEW t \in Seq(X), OnlyOnce(s), OnlyOnce(t),
         Elements(s) \cap Elements(t) = {}
  PROVE  OnlyOnce(s \o t)
<1>. DEFINE u == s \o t
<1>1. /\ u \in Seq(X) /\ Len(u) = Len(s) + Len(t)
      /\ \A i \in 1 .. Len(s) + Len(t) :
           u[i] = IF i <= Len(s) THEN s[i] ELSE t[i - Len(s)]
      /\ Len(s) \in Nat /\ Len(t) \in Nat
      /\ DOMAIN s = 1 .. Len(s) /\ DOMAIN t = 1 .. Len(t) /\ DOMAIN u = 1 .. Len(u)
  BY ConcatProperties, LenProperties
<1>. HIDE DEF u
<1>2. ASSUME NEW i \in 1 .. Len(u)
      PROVE  \/ i \in 1 .. Len(s) /\ u[i] = s[i] /\ s[i] \in Elements(s)
             \/ /\ i - Len(s) \in 1 .. Len(t) /\ u[i] = t[i - Len(s)]
                /\ t[i - Len(s)] \in Elements(t)
  <2>1. CASE i <= Len(s)
    <3>1. i \in 1 .. Len(s) /\ u[i] = s[i]
      BY <1>1, <2>1
    <3>. QED  BY <1>1, <3>1 DEF Elements
  <2>2. CASE ~ (i <= Len(s))
    <3>1. i - Len(s) \in 1 .. Len(t) /\ u[i] = t[i - Len(s)]
      BY <1>1, <2>2
    <3>. QED  BY <1>1, <3>1 DEF Elements
  <2>. QED  BY <2>1, <2>2
<1>3. ASSUME NEW i \in 1 .. Len(u), NEW j \in 1 .. Len(u), u[i] = u[j]
      PROVE  i = j
  <2>1. CASE i \in 1 .. Len(s) /\ u[i] = s[i] /\ j \in 1 .. Len(s) /\ u[j] = s[j]
    BY <1>1, <1>3, <2>1 DEF OnlyOnce
  <2>2. CASE /\ i - Len(s) \in 1 .. Len(t) /\ u[i] = t[i - Len(s)]
             /\ j - Len(s) \in 1 .. Len(t) /\ u[j] = t[j - Len(s)]
    <3>1. i - Len(s) = j - Len(s)
      BY <1>1, <1>3, <2>2 DEF OnlyOnce
    <3>. QED  BY <1>1, <3>1
  <2>3. CASE u[i] \in Elements(s) /\ u[j] \in Elements(t)
    BY <1>3, <2>3
  <2>4. CASE u[i] \in Elements(t) /\ u[j] \in Elements(s)
    BY <1>3, <2>4
  <2>. QED  BY <1>2, <2>1, <2>2, <2>3, <2>4
<1>. QED  BY <1>1, <1>3 DEF OnlyOnce, u

(* A transaction that joins an ordered list: what of it is not there yet is *)
(* put after it, in its own order.                                          *)
LEMMA JoinOrdered ==
  ASSUME NEW g, NEW X, NEW s \in Seq(X), NEW t \in Seq(X), NEW all,
         Elements(t) \subseteq all,
         ParentsBeforeChildren(g, s), ParentsBeforeChildren(g, t)
  PROVE  ParentsBeforeChildren(g, s \o Kept(t, all \ Elements(s)))
<1>0. PICK keep : keep = all \ Elements(s)
  OBVIOUS
<1>. DEFINE w == Kept(t, keep)
            u == s \o w
<1>1. w \in Seq(X)
  BY KeptPlaces
<1>a. PICK at : Places(at, w, t, keep)
  BY KeptPlaces
<1>. HIDE DEF w
<1>2. /\ at \in [1 .. Len(w) -> DOMAIN t]
      /\ \A k \in 1 .. Len(w) : w[k] = t[at[k]] /\ t[at[k]] \in keep
      /\ \A k, l \in 1 .. Len(w) : k < l => at[k] < at[l]
      /\ \A i \in DOMAIN t : t[i] \in keep =>
           \E k \in 1 .. Len(w) : at[k] = i
  BY <1>a DEF Places
<1>3. /\ u \in Seq(X) /\ Len(u) = Len(s) + Len(w)
      /\ \A i \in 1 .. Len(s) + Len(w) :
           u[i] = IF i <= Len(s) THEN s[i] ELSE w[i - Len(s)]
      /\ Len(s) \in Nat /\ Len(w) \in Nat
      /\ DOMAIN s = 1 .. Len(s) /\ DOMAIN u = 1 .. Len(s) + Len(w)
  BY <1>1, ConcatProperties, LenProperties
<1>4. DOMAIN t = 1 .. Len(t) /\ Len(t) \in Nat
  BY LenProperties
<1>. HIDE DEF u
<1>. SUFFICES ParentsBeforeChildren(g, u)
  BY <1>0 DEF u, w
<1>. SUFFICES ASSUME NEW i \in 1 .. Len(s) + Len(w), ~LeadsTo(g, u[i], u[i]),
                     NEW y \in GerritParents(g, u[i])
              PROVE  \E j \in 1 .. i - 1 : u[j] = y
  BY <1>3 DEF ParentsBeforeChildren
<1>5. CASE i <= Len(s)
  <2>1. i \in 1 .. Len(s) /\ u[i] = s[i]
    BY <1>3, <1>5
  <2>2. PICK j \in 1 .. i - 1 : s[j] = y
    BY <1>3, <2>1 DEF ParentsBeforeChildren
  <2>3. j <= Len(s) /\ j \in 1 .. Len(s) + Len(w)
    BY <1>3, <1>5
  <2>. QED  BY <1>3, <2>2, <2>3
<1>6. CASE ~ (i <= Len(s))
  <2>. DEFINE k == i - Len(s)
  <2>1. k \in 1 .. Len(w) /\ u[i] = w[k]
    BY <1>3, <1>6
  <2>. HIDE DEF k
  <2>2. at[k] \in 1 .. Len(t) /\ u[i] = t[at[k]]
    BY <1>2, <1>4, <2>1
  <2>3. PICK j \in 1 .. at[k] - 1 : t[j] = y
    BY <1>4, <2>2 DEF ParentsBeforeChildren
  <2>4. j \in 1 .. Len(t) /\ j < at[k]
    BY <1>4, <2>2
  <2>5. y \in all
    BY <1>4, <2>3, <2>4 DEF Elements
  <2>6. CASE y \in Elements(s)
    <3>1. PICK q \in 1 .. Len(s) : s[q] = y
      BY <1>3, <2>6 DEF Elements
    <3>2. q \in 1 .. i - 1 /\ q <= Len(s) /\ q \in 1 .. Len(s) + Len(w)
      BY <1>3, <1>6
    <3>. QED  BY <1>3, <3>1, <3>2
  <2>7. CASE y \notin Elements(s)
    <3>0. j \in DOMAIN t /\ t[j] \in keep
      BY <1>0, <1>4, <2>3, <2>4, <2>5, <2>7
    <3>1. PICK q \in 1 .. Len(w) : at[q] = j
      BY <1>2, <3>0
    <3>2. w[q] = y
      BY <1>2, <2>3, <3>1
    <3>3. q < k
      <4>. SUFFICES ASSUME ~(q < k)  PROVE FALSE
        OBVIOUS
      <4>1. k = q \/ k < q
        BY <1>3, <2>1
      <4>2. at[k] = at[q] \/ at[k] < at[q]
        BY <1>2, <2>1, <4>1
      <4>. QED  BY <2>2, <2>4, <3>1, <4>2
    <3>4. /\ Len(s) + q \in 1 .. i - 1 /\ Len(s) + q \in 1 .. Len(s) + Len(w)
          /\ ~(Len(s) + q <= Len(s)) /\ Len(s) + q - Len(s) = q
      BY <1>3, <1>6, <2>1, <3>3 DEF k
    <3>5. u[Len(s) + q] = y
      BY <1>3, <3>2, <3>4
    <3>. QED  BY <3>4, <3>5
  <2>. QED  BY <2>6, <2>7
<1>. QED  BY <1>5, <1>6

-----------------------------------------------------------------------------
(* s is the transaction of c: what must land with it, in an order that git  *)
(* can take.                                                                *)
WellMade(g, c, s) ==
  /\ s \in Seq(Patches) /\ OnlyOnce(s)
  /\ Elements(s) = Required(g, c)
  /\ ParentsBeforeChildren(g, s)
  /\ \A x \in Required(g, c) : ~Obstacle(g, x)

TurnedDown(c) == <<c, "dependency">> \in refused

(* While transactions are created. *)
Created ==
  /\ GoodPool(pool) /\ pool.allowed \subseteq Patches
  /\ todo \subseteq pool.allowed /\ change \notin todo
  /\ change \in pool.allowed \cup {0}
  /\ change # 0 => RunInv(pool, change, resolving)
  /\ refused \subseteq Patches \X {"dependency", "too long"}
  /\ DOMAIN deps \subseteq pool.allowed
  /\ \A c \in DOMAIN deps : WellMade(pool, c, deps[c])
  /\ \A c \in pool.allowed : c \in todo \/ c = change => ~TurnedDown(c)
  /\ \A c \in pool.allowed :
       c \notin todo /\ c # change =>
         /\ TurnedDown(c) <=> \E x \in Required(pool, c) : Obstacle(pool, x)
         /\ TurnedDown(c) \/ c \in DOMAIN deps

(* A list made of whole transactions, in an order that git can take. *)
Sound(s) ==
  /\ s \in Seq(Patches) /\ OnlyOnce(s)
  /\ IsPlans(Elements(s)) /\ ParentsBeforeChildren(pool, s)

(* What has become of a change whose group is finished. *)
Placed(x) ==
  \/ <<x, "too long">> \in refused
  \/ \E s \in Elements(plans) :
       x \in Elements(s) \/ (MaxTxnLength # 0 /\ Elements(s) \subseteq Linked(x))

(* While they are merged into lists. *)
Grouped ==
  /\ ~Resolved =>
       group = {} /\ waiting = {} /\ ordered = <<>> /\ plans = <<>> /\ done = {}
  /\ group \subseteq InSomePlan /\ done \subseteq InSomePlan
  /\ waiting \subseteq group /\ group \cap done = {}
  /\ Apart(group) /\ Apart(done)
  /\ \A x \in group : group = Linked(x)
  /\ Sound(ordered) /\ Elements(ordered) \subseteq group
  /\ MaxTxnLength = 0 => group \ waiting \subseteq Elements(ordered)
  /\ plans \in Seq(Seq(Patches))
  /\ \A s \in Elements(plans) : Sound(s) /\ Elements(s) \subseteq done
  /\ \A i, j \in DOMAIN plans :
       i # j => Elements(plans[i]) \cap Elements(plans[j]) = {}
  /\ \A x \in done : Placed(x)

DTInv == Created /\ Grouped

(* The changes in transactions are given and uncommitted; a transaction has *)
(* all that its changes need; and each of its changes has one of its own.   *)
LEMMA SomePlanFacts ==
  ASSUME Created
  PROVE  /\ InSomePlan \subseteq pool.allowed \ pool.committed
         /\ \A c \in DOMAIN deps : \A x \in Elements(deps[c]) :
              Needs(pool, x) \subseteq Elements(deps[c])
         /\ Resolved => InSomePlan \subseteq DOMAIN deps
         /\ \A c \in DOMAIN deps : c \notin pool.committed => c \in Elements(deps[c])
<1>. DEFINE g == pool
<1>1. GoodPool(g) /\ g.allowed \subseteq Patches /\ DOMAIN deps \subseteq g.allowed
      /\ \A c \in DOMAIN deps : WellMade(g, c, deps[c])
  BY DEF Created
<1>. HIDE DEF g
<1>2. ASSUME NEW c \in DOMAIN deps
      PROVE  /\ Elements(deps[c]) = Required(g, c) /\ c \in Patches
             /\ \A x \in Required(g, c) : ~Obstacle(g, x)
  BY <1>1, <1>2 DEF WellMade
<1>3. ASSUME NEW c \in DOMAIN deps, c \notin g.committed
      PROVE  /\ Elements(deps[c]) = LandsWith(g, c) /\ c \in Patches
             /\ \A x \in LandsWith(g, c) : ~Obstacle(g, x)
             /\ c \in LandsWith(g, c) /\ LandsWith(g, c) \subseteq Patches
             /\ \A x \in LandsWith(g, c) : Needs(g, x) \subseteq LandsWith(g, c)
  BY <1>1, <1>2, <1>3, LandsWithFacts DEF Required
<1>4. ASSUME NEW c \in DOMAIN deps, NEW x \in Elements(deps[c])
      PROVE  c \notin g.committed
  BY <1>2, <1>4 DEF Required
<1>5. ASSUME NEW c \in DOMAIN deps, c \notin g.committed
      PROVE  LandsWith(g, c) \subseteq g.allowed \ g.committed
  <2>. DEFINE A == LandsWith(g, c) \cap (g.allowed \ g.committed)
  <2>1. c \in A /\ A \in SUBSET Patches
    BY <1>1, <1>3, <1>5
  <2>2. ASSUME NEW x \in A, NEW y \in Needs(g, x)  PROVE y \in A
    <3>1. x \in Patches /\ ~Obstacle(g, x) /\ y \in LandsWith(g, c)
      BY <1>3, <1>5, <2>2
    <3>2. y \in GerritParents(g, x) \cup CQParents(g, x)
      BY <1>1, <2>2, <3>1, UnsatisfiedFacts
    <3>3. /\ y \in Elements(g.gerrit[x]) \cup Elements(g.cq[x])
          /\ y \notin g.committed \cup g.skipped
      BY <1>1, <3>1, <3>2, UnsatisfiedFacts
    <3>4. Elements(g.gerrit[x]) \cup Elements(g.cq[x])
            \subseteq g.committed \cup g.skipped \cup g.allowed
      BY <3>1 DEF Obstacle, NotReady
    <3>. QED  BY <3>1, <3>3, <3>4
  <2>3. Closed(g, A)
    BY <2>2 DEF Closed
  <2>4. LandsWith(g, c) \subseteq A
    BY <1>1, <1>3, <1>5, <2>1, <2>3, LandsWithFacts
  <2>. QED  BY <2>4
<1>6. InSomePlan \subseteq g.allowed \ g.committed
  BY <1>3, <1>4, <1>5 DEF InSomePlan
<1>7. ASSUME Resolved, NEW c \in DOMAIN deps, NEW x \in Elements(deps[c])
      PROVE  x \in DOMAIN deps
  <2>1. x \in LandsWith(g, c) /\ c \in Patches /\ c \notin g.committed
    BY <1>3, <1>4, <1>7
  <2>2. x \in g.allowed /\ x \in Patches /\ x \notin g.committed
    BY <1>1, <1>5, <2>1
  <2>3. Closed(g, LandsWith(g, c)) /\ LandsWith(g, c) \in SUBSET Patches
    BY <1>3, <2>1 DEF Closed
  <2>4. LandsWith(g, x) \subseteq LandsWith(g, c)
    BY <1>1, <2>1, <2>2, <2>3, LandsWithFacts
  <2>5. \A y \in Required(g, x) : ~Obstacle(g, y)
    BY <1>3, <2>1, <2>2, <2>4 DEF Required
  <2>6. 0 \notin Patches
    BY DEF Patches
  <2>. QED  BY <1>7, <2>2, <2>5, <2>6 DEF Created, Resolved, g
<1>8. Resolved => InSomePlan \subseteq DOMAIN deps
  BY <1>7 DEF InSomePlan
<1>9. \A c \in DOMAIN deps : \A x \in Elements(deps[c]) :
        Needs(g, x) \subseteq Elements(deps[c])
  BY <1>3, <1>4
<1>. QED  BY <1>3, <1>6, <1>8, <1>9 DEF g

-----------------------------------------------------------------------------
(* The dependency lists of a pool are lists of changes. *)
LEMMA PoolFacts ==
  ASSUME NEW gerrit \in DepLists(MaxGerritDeps), NEW cq \in DepLists(MaxCQDeps),
         NEW status
  PROVE  /\ GoodPool(PoolWith(gerrit, cq, status))
         /\ PoolWith(gerrit, cq, status).allowed \subseteq Patches
<1>1. ASSUME NEW max, NEW f \in DepLists(max)
      PROVE  f \in [Patches -> Seq(Patches)]
  <2>. DEFINE lists == UNION {[1 .. n -> Patches] : n \in 0 .. max}
  <2>1. f \in [Patches -> lists]
    BY DEF DepLists
  <2>2. lists \subseteq Seq(Patches)
    <3>1. \A n \in 0 .. max : n \in Nat
      OBVIOUS
    <3>2. \A n \in Nat : [1 .. n -> Patches] \subseteq Seq(Patches)
      BY SeqDef
    <3>. QED  BY <3>1, <3>2
  <2>. HIDE DEF lists
  <2>. QED  BY <2>1, <2>2
<1>2. gerrit \in [Patches -> Seq(Patches)] /\ cq \in [Patches -> Seq(Patches)]
  BY <1>1
<1>. QED  BY <1>2 DEF GoodPool, PoolWith

(* When nothing has been resolved yet, everything is as it should be. *)
LEMMA DTInitInv == DTInit => DTInv
<1>. SUFFICES ASSUME DTInit  PROVE DTInv
  OBVIOUS
<1>1. GoodPool(pool) /\ pool.allowed \subseteq Patches
  BY PoolFacts DEF DTInit
<1>2. 0 \notin Patches
  BY DEF Patches
<1>3. DOMAIN deps = {} /\ refused = {} /\ todo = pool.allowed /\ change = 0
  BY DEF DTInit
<1>4. Created
  BY <1>1, <1>2, <1>3 DEF Created, TurnedDown
<1>5. /\ group = {} /\ waiting = {} /\ ordered = <<>> /\ plans = <<>>
      /\ done = {}
  BY DEF DTInit
<1>6. Sound(<<>>)
  BY EmptyElements DEF Sound, OnlyOnce, IsPlans, ParentsBeforeChildren
<1>7. Grouped
  BY <1>5, <1>6, EmptyElements DEF Grouped, Apart
<1>. QED  BY <1>4, <1>7 DEF DTInv

(* As long as nothing is grouped, there is nothing to show of it. *)
LEMMA NothingGrouped ==
  ASSUME Grouped, ~Resolved, UNCHANGED grouping
  PROVE  Grouped'
<1>1. /\ group' = {} /\ waiting' = {} /\ ordered' = <<>> /\ plans' = <<>>
      /\ done' = {}
  BY DEF Grouped, grouping
<1>2. Sound(<<>>)'
  BY EmptyElements DEF Sound, OnlyOnce, IsPlans, ParentsBeforeChildren
<1>3. Sound(ordered)'
  BY <1>1, EmptyElements DEF Sound, OnlyOnce, IsPlans, ParentsBeforeChildren
<1>. QED  BY <1>1, <1>3, EmptyElements DEF Grouped, Apart

(* A change is taken up: its first call is under way. *)
LEMMA CreateStep ==
  ASSUME DTInv, NEW c \in Patches, CreateTransaction(c)
  PROVE  DTInv'
<1>1. 0 \notin Patches
  BY DEF Patches
<1>2. /\ change = 0 /\ c \in todo /\ todo' = todo \ {c} /\ change' = c
      /\ resolving' = Start(c) /\ UNCHANGED <<pool, deps, refused, grouping>>
  BY DEF CreateTransaction
<1>3. RunInv(pool, c, Start(c))
  BY RunStart DEF DTInv, Created
<1>4. Created'
  <2>1. GoodPool(pool) /\ pool.allowed \subseteq Patches /\ todo \subseteq pool.allowed
    BY DEF DTInv, Created
  <2>2. \A x \in pool.allowed : x \in todo' \/ x = change' <=> x \in todo \/ x = change
    BY <1>1, <1>2, <2>1
  <2>3. \A x : TurnedDown(x)' <=> TurnedDown(x)
    BY <1>2 DEF TurnedDown
  <2>4. change' \in pool.allowed \cup {0} /\ todo' \subseteq pool.allowed
    BY <1>2, <2>1
  <2>. QED  BY <1>2, <1>3, <2>1, <2>2, <2>3, <2>4 DEF DTInv, Created
<1>5. Grouped'
  BY <1>2, NothingGrouped DEF DTInv, Resolved
<1>. QED  BY <1>4, <1>5 DEF DTInv

(* The call on top takes a step. *)
LEMMA ResolveStep ==
  ASSUME DTInv, Resolve
  PROVE  DTInv'
<1>1. /\ change # 0 /\ ~Ended(resolving)
      /\ resolving' = AddChangeToPlanWithDeps(pool, resolving)
      /\ UNCHANGED <<pool, todo, change, deps, refused, grouping>>
  BY DEF Resolve
<1>2. RunInv(pool, change, resolving')
  <2>1. GoodPool(pool) /\ change \in Patches /\ RunInv(pool, change, resolving)
    BY <1>1 DEF DTInv, Created
  <2>2. PICK r \in Patches : r = change
    BY <2>1
  <2>4. PICK g : g = pool
    OBVIOUS
  <2>5. PICK m : m = resolving
    OBVIOUS
  <2>3. RunInv(g, r, AddChangeToPlanWithDeps(g, m))
    BY <1>1, <2>1, <2>2, <2>4, <2>5, RunStep
  <2>. QED  BY <1>1, <2>2, <2>3, <2>4, <2>5
<1>3. Created'
  BY <1>1, <1>2 DEF DTInv, Created, TurnedDown
<1>4. Grouped'
  BY <1>1, NothingGrouped DEF DTInv, Resolved
<1>. QED  BY <1>3, <1>4 DEF DTInv

(* The calls are over: their plan is the transaction of the change, or      *)
(* they raised, and the change is turned down.                              *)
LEMMA YieldStep ==
  ASSUME DTInv, Yield
  PROVE  DTInv'
<1>1. /\ change # 0 /\ Ended(resolving) /\ change' = 0
      /\ UNCHANGED <<pool, todo, grouping>>
  BY DEF Yield
<1>2. GoodPool(pool) /\ change \in Patches /\ change \in pool.allowed
  BY <1>1 DEF DTInv, Created
<1>3. Outcome(pool, change, resolving)
  <2>1. RunInv(pool, change, resolving)
    BY <1>1 DEF DTInv, Created
  <2>2. PICK r \in Patches : r = change
    BY <1>2
  <2>4. PICK g : g = pool
    OBVIOUS
  <2>5. PICK m : m = resolving
    OBVIOUS
  <2>6. GoodPool(g) /\ RunInv(g, r, m) /\ Ended(m)
    BY <1>1, <1>2, <2>1, <2>2, <2>4, <2>5
  <2>3. Outcome(g, r, m)
    BY <2>6, RunEnd
  <2>. QED  BY <2>2, <2>3, <2>4, <2>5
<1>4. Grouped'
  BY <1>1, NothingGrouped DEF DTInv, Resolved
<1>5. 0 \notin Patches /\ pool.allowed \subseteq Patches
  <2>1. 0 \notin Patches
    BY DEF Patches
  <2>. QED  BY <2>1 DEF DTInv, Created
<1>6. CASE resolving.raised
  <2>1. refused' = refused \cup {<<change, "dependency">>} /\ deps' = deps
    BY <1>6 DEF Yield
  <2>2. \E x \in Required(pool, change) : Obstacle(pool, x)
    BY <1>3, <1>6 DEF Outcome
  <2>3. \A c : TurnedDown(c)' <=> TurnedDown(c) \/ c = change
    BY <2>1 DEF TurnedDown
  <2>4. refused' \subseteq Patches \X {"dependency", "too long"}
    <3>1. <<change, "dependency">> \in Patches \X {"dependency", "too long"}
      BY <1>2
    <3>2. refused \subseteq Patches \X {"dependency", "too long"}
      BY DEF DTInv, Created
    <3>. QED  BY <2>1, <3>1, <3>2
  <2>5. \A c \in pool.allowed :
          c \in todo \/ c = 0 => c \in todo /\ ~TurnedDown(c)
    BY <1>5 DEF DTInv, Created
  <2>7. change \notin todo
    BY <1>2 DEF DTInv, Created
  <2>6. Created'
    BY <1>1, <1>2, <1>5, <2>1, <2>2, <2>3, <2>4, <2>5 DEF DTInv, Created
  <2>. QED  BY <1>4, <2>6 DEF DTInv
<1>7. CASE ~resolving.raised
  <2>1. /\ refused' = refused
        /\ deps' = [c \in DOMAIN deps \cup {change} |->
                      IF c = change THEN resolving.plan ELSE deps[c]]
    BY <1>7 DEF Yield
  <2>2. WellMade(pool, change, resolving.plan)
    BY <1>3, <1>7 DEF Outcome, WellMade
  <2>3. \A c : TurnedDown(c)' <=> TurnedDown(c)
    BY <2>1 DEF TurnedDown
  <2>4. DOMAIN deps' = DOMAIN deps \cup {change}
    BY <2>1
  <2>5. \A c \in DOMAIN deps' : WellMade(pool, c, deps'[c])
    <3>. SUFFICES ASSUME NEW c \in DOMAIN deps \cup {change}
                  PROVE  WellMade(pool, c, deps'[c])
      BY <2>4
    <3>1. CASE c = change
      BY <2>1, <2>2, <3>1
    <3>2. CASE c # change
      <4>1. deps'[c] = deps[c]
        BY <2>1, <3>2
      <4>. QED  BY <3>2, <4>1 DEF DTInv, Created
    <3>. QED  BY <3>1, <3>2
  <2>6. ~TurnedDown(change)
        /\ ~ \E x \in Required(pool, change) : Obstacle(pool, x)
    BY <1>2, <2>2 DEF DTInv, Created, WellMade
  <2>7. Created'
    BY <1>1, <1>2, <1>5, <2>1, <2>3, <2>4, <2>5, <2>6
       DEF DTInv, Created
  <2>. QED  BY <1>4, <2>7 DEF DTInv
<1>. QED  BY <1>6, <1>7

-----------------------------------------------------------------------------
(* Merging transactions leaves what was created as it is. *)
LEMMA CreationKept ==
  ASSUME DTInv, UNCHANGED creation
  PROVE  /\ \A x : x \in InSomePlan' <=> x \in InSomePlan
         /\ InSomePlan' = InSomePlan
         /\ \A A : Apart(A)' <=> Apart(A)
         /\ \A A : IsPlans(A)' <=> IsPlans(A)
         /\ \A x : Linked(x)' = Linked(x)
         /\ \A s : Sound(s)' <=> Sound(s)
         /\ Resolved' <=> Resolved
<1>1. pool' = pool /\ todo' = todo /\ change' = change /\ deps' = deps
  BY DEF creation
<1>2. InSomePlan' = InSomePlan
  BY <1>1 DEF InSomePlan
<1>3. \A A : Apart(A)' <=> Apart(A)
  BY <1>1 DEF Apart
<1>4. \A A : IsPlans(A)' <=> IsPlans(A)
  BY <1>1 DEF IsPlans
<1>5. \A x : Linked(x)' = Linked(x)
  BY <1>2, <1>3 DEF Linked
<1>6. \A s : Sound(s)' <=> Sound(s)
  BY <1>1, <1>4 DEF Sound
<1>7. Resolved' <=> Resolved
  BY <1>1 DEF Resolved
<1>. QED  BY <1>2, <1>3, <1>4, <1>5, <1>6, <1>7

(* Created says nothing of the groups. *)
LEMMA CreatedKept ==
  ASSUME Created, UNCHANGED creation,
         refused' \subseteq Patches \X {"dependency", "too long"},
         \A c : TurnedDown(c)' <=> TurnedDown(c)
  PROVE  Created'
<1>1. /\ pool' = pool /\ todo' = todo /\ change' = change /\ deps' = deps
      /\ resolving' = resolving
  BY DEF creation
<1>. QED  BY <1>1 DEF Created

(* A connected component that is not finished is taken up. It has nothing   *)
(* in common with those that are.                                           *)
LEMMA TakeGroupStep ==
  ASSUME DTInv, TakeGroup
  PROVE  DTInv'
<1>1. /\ Resolved /\ group = {} /\ waiting' = group'
      /\ UNCHANGED <<creation, refused, ordered, plans, done>>
  BY DEF TakeGroup
<1>2. PICK x \in InSomePlan \ done : group' = Linked(x)
  BY DEF TakeGroup
<1>3. UNCHANGED creation /\ refused' = refused /\ ordered' = ordered
      /\ plans' = plans /\ done' = done
  BY <1>1
<1>4. Created'
  <2>1. \A c : TurnedDown(c)' <=> TurnedDown(c)
    BY <1>3 DEF TurnedDown
  <2>2. refused' \subseteq Patches \X {"dependency", "too long"}
    BY <1>3 DEF DTInv, Created
  <2>. QED  BY <1>3, <2>1, <2>2, CreatedKept DEF DTInv
<1>5. /\ InSomePlan' = InSomePlan
      /\ \A A : Apart(A)' <=> Apart(A)
      /\ \A y : Linked(y)' = Linked(y)
      /\ \A s : Sound(s)' <=> Sound(s)
      /\ Resolved'
  BY <1>1, <1>3, CreationKept
<1>6. group' \subseteq InSomePlan /\ Apart(group') /\ x \in group'
  BY <1>2, LinkedFacts
<1>7. group' \cap done' = {}
  <2>1. Apart(InSomePlan \ done)
    BY AllApart, ApartFacts DEF DTInv, Grouped
  <2>2. Linked(x) \subseteq InSomePlan \ done
    BY <1>2, <2>1, LinkedFacts
  <2>. QED  BY <1>2, <1>3, <2>2
<1>8. \A y \in group' : group' = Linked(y)
  BY <1>2, LinkedSame
<1>9. Sound(ordered) /\ Elements(ordered) = {}
  BY <1>1 DEF DTInv, Grouped
<1>10. \A y : Placed(y)' <=> Placed(y)
  BY <1>3, <1>5 DEF Placed
<1>11. /\ done \subseteq InSomePlan /\ Apart(done)
       /\ plans \in Seq(Seq(Patches))
       /\ \A s \in Elements(plans) : Sound(s) /\ Elements(s) \subseteq done
       /\ \A i, j \in DOMAIN plans :
            i # j => Elements(plans[i]) \cap Elements(plans[j]) = {}
       /\ \A y \in done : Placed(y)
  BY DEF DTInv, Grouped
<1>12. \A s \in Elements(plans)' : Sound(s)' /\ Elements(s) \subseteq done'
  BY <1>3, <1>5, <1>11
<1>13. Sound(ordered)'
  <2>1. Sound(ordered)' <=> Sound(ordered)
    BY <1>3, <1>5 DEF Sound, IsPlans, creation
  <2>. QED  BY <1>9, <2>1
<1>14. Apart(group)' /\ Apart(done)'
  <2>1. deps' = deps
    BY <1>3 DEF creation
  <2>. QED  BY <1>3, <1>6, <1>11, <2>1 DEF Apart
<1>15. Grouped'
  BY <1>1, <1>3, <1>5, <1>6, <1>7, <1>8, <1>9, <1>10, <1>11, <1>12, <1>13,
     <1>14 DEF Grouped
<1>. QED  BY <1>4, <1>15 DEF DTInv

-----------------------------------------------------------------------------
(* What joins the ordered list when a transaction fits. *)
LEMMA JoinFacts ==
  ASSUME DTInv, Resolved, NEW c \in waiting
  PROVE  LET s == ordered \o NewChanges(c)
         IN /\ Sound(s) /\ Elements(s) \subseteq group
            /\ Elements(ordered) \subseteq Elements(s) /\ c \in Elements(s)
<1>1. c \in group /\ group \subseteq InSomePlan /\ Apart(group)
      /\ Sound(ordered) /\ Elements(ordered) \subseteq group
  BY DEF DTInv, Grouped
<1>2. /\ c \in DOMAIN deps /\ c \in Elements(deps[c])
      /\ Elements(deps[c]) \subseteq InSomePlan
  BY <1>1, SomePlanFacts DEF DTInv, InSomePlan
<1>3. WellMade(pool, c, deps[c])
  BY <1>2 DEF DTInv, Created
<1>4. Elements(deps[c]) \subseteq group
  BY <1>1, <1>2 DEF Apart
<1>5. PICK t \in Seq(Patches) :
        t = deps[c] /\ OnlyOnce(t) /\ ParentsBeforeChildren(pool, t)
  BY <1>3 DEF WellMade
<1>6. PICK o \in Seq(Patches) :
        o = ordered /\ OnlyOnce(o) /\ ParentsBeforeChildren(pool, o)
  BY <1>1 DEF Sound
<1>7. PICK keep : keep = InSomePlan \ Elements(o)
  OBVIOUS
<1>. DEFINE w == Kept(t, keep)
            s == o \o w
<1>8. /\ w \in Seq(Patches) /\ Elements(w) = {x \in Elements(t) : x \in keep}
      /\ OnlyOnce(w)
  BY <1>5, KeptFacts
<1>9. w = NewChanges(c) /\ s = ordered \o NewChanges(c)
  BY <1>5, <1>6, <1>7 DEF NewChanges
<1>. HIDE DEF w
<1>10. s \in Seq(Patches) /\ Elements(s) = Elements(o) \cup Elements(w)
  BY <1>8, ConcatElements
<1>11. OnlyOnce(s)
  <2>1. Elements(o) \cap Elements(w) = {}
    BY <1>7, <1>8
  <2>. QED  BY <1>6, <1>8, <2>1, ConcatOnlyOnce
<1>12. ParentsBeforeChildren(pool, s)
  <2>1. PICK all : all = InSomePlan
    OBVIOUS
  <2>2. PICK g : g = pool
    OBVIOUS
  <2>3. /\ Elements(t) \subseteq all /\ ParentsBeforeChildren(g, o)
        /\ ParentsBeforeChildren(g, t)
    BY <1>2, <1>5, <1>6, <2>1, <2>2
  <2>4. ParentsBeforeChildren(g, o \o Kept(t, all \ Elements(o)))
    BY <2>3, JoinOrdered
  <2>. QED  BY <1>7, <2>1, <2>2, <2>4 DEF w
<1>. HIDE DEF s
<1>13. Elements(s) = Elements(ordered) \cup Elements(deps[c])
  BY <1>2, <1>5, <1>6, <1>7, <1>8, <1>10
<1>14. IsPlans(Elements(s))
  <2>1. IsPlans(Elements(ordered))
    BY <1>1 DEF Sound
  <2>. QED  BY <1>2, <1>13, <2>1 DEF IsPlans
<1>15. Sound(s)
  BY <1>10, <1>11, <1>12, <1>14 DEF Sound, s
<1>16. Elements(s) \subseteq group /\ Elements(ordered) \subseteq Elements(s)
       /\ c \in Elements(s)
  BY <1>1, <1>2, <1>4, <1>13
<1>. QED  BY <1>9, <1>15, <1>16

(* The transaction of a change of the group joins the list, or does not     *)
(* fit.                                                                     *)
LEMMA ConsiderStep ==
  ASSUME DTInv, NEW c \in Patches, Consider(c)
  PROVE  DTInv'
<1>1. /\ c \in waiting /\ waiting' = waiting \ {c}
      /\ ordered' = (IF Fits(c) THEN ordered \o NewChanges(c) ELSE ordered)
      /\ UNCHANGED creation /\ refused' = refused /\ group' = group
      /\ plans' = plans /\ done' = done
  BY DEF Consider
<1>2. Resolved
  BY <1>1 DEF DTInv, Grouped
<1>3. Created'
  <2>1. \A x : TurnedDown(x)' <=> TurnedDown(x)
    BY <1>1 DEF TurnedDown
  <2>2. refused' \subseteq Patches \X {"dependency", "too long"}
    BY <1>1 DEF DTInv, Created
  <2>. QED  BY <1>1, <2>1, <2>2, CreatedKept DEF DTInv
<1>4. /\ InSomePlan' = InSomePlan
      /\ \A y : Linked(y)' = Linked(y)
      /\ \A s : Sound(s)' <=> Sound(s)
      /\ Resolved'
  BY <1>1, <1>2, CreationKept
<1>5. /\ group \subseteq InSomePlan /\ done \subseteq InSomePlan
      /\ waiting \subseteq group /\ group \cap done = {}
      /\ Apart(group) /\ Apart(done)
      /\ \A x \in group : group = Linked(x)
      /\ Sound(ordered) /\ Elements(ordered) \subseteq group
      /\ MaxTxnLength = 0 => group \ waiting \subseteq Elements(ordered)
      /\ plans \in Seq(Seq(Patches))
      /\ \A s \in Elements(plans) : Sound(s) /\ Elements(s) \subseteq done
      /\ \A i, j \in DOMAIN plans :
           i # j => Elements(plans[i]) \cap Elements(plans[j]) = {}
      /\ \A y \in done : Placed(y)
  BY DEF DTInv, Grouped
<1>6. /\ Sound(ordered') /\ Elements(ordered') \subseteq group
      /\ MaxTxnLength = 0 => group \ waiting' \subseteq Elements(ordered')
  <2>. DEFINE s == ordered \o NewChanges(c)
  <2>1. /\ Sound(s) /\ Elements(s) \subseteq group
        /\ Elements(ordered) \subseteq Elements(s) /\ c \in Elements(s)
    BY <1>1, <1>2, JoinFacts
  <2>2. MaxTxnLength = 0 => Fits(c)
    BY DEF Fits
  <2>3. ordered' = IF Fits(c) THEN s ELSE ordered
    BY <1>1
  <2>. HIDE DEF s
  <2>. QED  BY <1>1, <1>5, <2>1, <2>2, <2>3
<1>7. Sound(ordered)'
  <2>1. Sound(ordered)' <=> Sound(ordered')
    BY <1>1 DEF Sound, IsPlans, creation
  <2>. QED  BY <1>6, <2>1
<1>8. Apart(group)' /\ Apart(done)'
  <2>1. deps' = deps
    BY <1>1 DEF creation
  <2>. QED  BY <1>1, <1>5, <2>1 DEF Apart
<1>9. \A y : Placed(y)' <=> Placed(y)
  BY <1>1, <1>4 DEF Placed
<1>10. \A s \in Elements(plans)' : Sound(s)' /\ Elements(s) \subseteq done'
  BY <1>1, <1>4, <1>5
<1>11. waiting' \subseteq group
  BY <1>1, <1>5
<1>12. Grouped'
  BY <1>1, <1>4, <1>5, <1>6, <1>7, <1>8, <1>9, <1>10, <1>11 DEF Grouped
<1>. QED  BY <1>3, <1>12 DEF DTInv

(* The list of a group is finished, or the group is refused as a whole. *)
LEMMA FinishGroupStep ==
  ASSUME DTInv, FinishGroup
  PROVE  DTInv'
<1>1. /\ group # {} /\ waiting = {} /\ done' = done \cup group
      /\ group' = {} /\ ordered' = <<>>
      /\ UNCHANGED creation /\ waiting' = waiting
  BY DEF FinishGroup
<1>2. Resolved
  BY <1>1 DEF DTInv, Grouped
<1>3. /\ InSomePlan' = InSomePlan
      /\ \A y : Linked(y)' = Linked(y)
      /\ \A s : Sound(s)' <=> Sound(s)
      /\ Resolved'
  BY <1>1, <1>2, CreationKept
<1>4. /\ group \subseteq InSomePlan /\ done \subseteq InSomePlan
      /\ group \cap done = {}
      /\ Apart(group) /\ Apart(done)
      /\ \A x \in group : group = Linked(x)
      /\ Sound(ordered) /\ Elements(ordered) \subseteq group
      /\ MaxTxnLength = 0 => group \ waiting \subseteq Elements(ordered)
      /\ plans \in Seq(Seq(Patches))
      /\ \A s \in Elements(plans) : Sound(s) /\ Elements(s) \subseteq done
      /\ \A i, j \in DOMAIN plans :
           i # j => Elements(plans[i]) \cap Elements(plans[j]) = {}
      /\ \A y \in done : Placed(y)
  BY DEF DTInv, Grouped
<1>5. group \subseteq Patches
  BY <1>4, SomePlanFacts DEF DTInv, Created
<1>6. Sound(ordered)'
  BY <1>1, EmptyElements DEF Sound, OnlyOnce, IsPlans, ParentsBeforeChildren
<1>7. Apart(group)' /\ Apart(done)'
  <2>1. deps' = deps /\ Apart(done \cup group)
    BY <1>1, <1>4, ApartFacts DEF creation
  <2>. QED  BY <1>1, <2>1 DEF Apart
<1>8. CASE ordered # <<>>
  <2>1. plans' = Append(plans, ordered) /\ refused' = refused
    BY <1>8 DEF FinishGroup
  <2>2. PICK o \in Seq(Patches) : o = ordered
    BY <1>4 DEF Sound
  <2>3. PICK s \in Seq(Seq(Patches)) : s = plans
    BY <1>4
  <2>4. /\ Append(s, o) \in Seq(Seq(Patches))
        /\ Len(Append(s, o)) = Len(s) + 1
        /\ Elements(Append(s, o)) = Elements(s) \cup {o}
        /\ \A i \in 1 .. Len(s) : Append(s, o)[i] = s[i]
        /\ Append(s, o)[Len(s) + 1] = o
    BY AppendElements
  <2>5. /\ DOMAIN s = 1 .. Len(s) /\ Len(s) \in Nat
        /\ DOMAIN Append(s, o) = 1 .. Len(s) + 1
    BY <2>4, LenProperties
  <2>6. plans' \in Seq(Seq(Patches)) /\ Elements(plans') = Elements(plans) \cup {ordered}
    BY <2>1, <2>2, <2>3, <2>4
  <2>7. \A s1 \in Elements(plans') : Sound(s1) /\ Elements(s1) \subseteq done'
    BY <1>1, <1>4, <2>6
  <2>8. \A i, j \in DOMAIN plans' :
          i # j => Elements(plans'[i]) \cap Elements(plans'[j]) = {}
    <3>. DEFINE u == Append(s, o)
    <3>1. \A i \in DOMAIN s : Elements(s[i]) \cap Elements(o) = {}
      <4>1. \A i \in DOMAIN s : s[i] \in Elements(plans)
        BY <2>3 DEF Elements
      <4>. QED  BY <1>4, <2>2, <4>1
    <3>2. \A i, j \in DOMAIN s : i # j => Elements(s[i]) \cap Elements(s[j]) = {}
      BY <1>4, <2>3
    <3>3. /\ DOMAIN u = 1 .. Len(s) + 1 /\ DOMAIN s = 1 .. Len(s)
          /\ \A i \in 1 .. Len(s) : u[i] = s[i]
          /\ u[Len(s) + 1] = o
          /\ \A i \in 1 .. Len(s) + 1 : i \in 1 .. Len(s) \/ i = Len(s) + 1
      BY <2>4, <2>5
    <3>. HIDE DEF u
    <3>4. \A i, j \in DOMAIN u : i # j => Elements(u[i]) \cap Elements(u[j]) = {}
      <4>. SUFFICES ASSUME NEW i \in DOMAIN u, NEW j \in DOMAIN u, i # j
                    PROVE  Elements(u[i]) \cap Elements(u[j]) = {}
        OBVIOUS
      <4>1. CASE i \in DOMAIN s /\ j \in DOMAIN s
        <5>1. u[i] = s[i] /\ u[j] = s[j]
          BY <3>3, <4>1
        <5>. QED  BY <3>2, <4>1, <5>1
      <4>2. CASE i \in DOMAIN s /\ u[j] = o
        <5>1. u[i] = s[i]
          BY <3>3, <4>2
        <5>. QED  BY <3>1, <4>2, <5>1
      <4>3. CASE j \in DOMAIN s /\ u[i] = o
        <5>1. u[j] = s[j]
          BY <3>3, <4>3
        <5>. QED  BY <3>1, <4>3, <5>1
      <4>. QED  BY <3>3, <4>1, <4>2, <4>3
    <3>5. plans' = u
      BY <2>1, <2>2, <2>3 DEF u
    <3>. QED  BY <3>4, <3>5
  <2>9. \A y \in done' : Placed(y)'
    <3>. SUFFICES ASSUME NEW y \in done \cup group  PROVE Placed(y)'
      BY <1>1
    <3>1. CASE y \in done
      BY <1>3, <1>4, <2>1, <2>6, <3>1 DEF Placed
    <3>2. CASE y \in group
      <4>1. ordered \in Elements(plans') /\ Elements(ordered) \subseteq Linked(y)'
        BY <1>3, <1>4, <2>6, <3>2
      <4>2. MaxTxnLength = 0 => y \in Elements(ordered)
        BY <1>1, <1>4, <3>2
      <4>. QED  BY <4>1, <4>2 DEF Placed
    <3>. QED  BY <3>1, <3>2
  <2>10. Created'
    <3>1. \A x : TurnedDown(x)' <=> TurnedDown(x)
      BY <2>1 DEF TurnedDown
    <3>2. refused' \subseteq Patches \X {"dependency", "too long"}
      BY <2>1 DEF DTInv, Created
    <3>. QED  BY <1>1, <3>1, <3>2, CreatedKept DEF DTInv
  <2>11. \A s1 \in Elements(plans)' : Sound(s1)' /\ Elements(s1) \subseteq done'
    BY <1>3, <2>7
  <2>12. Grouped'
    BY <1>1, <1>3, <1>4, <1>6, <1>7, <2>6, <2>8, <2>9, <2>11, EmptyElements
       DEF Grouped
  <2>. QED  BY <2>10, <2>12 DEF DTInv
<1>9. CASE ordered = <<>>
  <2>1. plans' = plans /\ refused' = refused \cup (group \X {"too long"})
    BY <1>9 DEF FinishGroup, Refused
  <2>2. \A y \in done' : Placed(y)'
    <3>. SUFFICES ASSUME NEW y \in done \cup group  PROVE Placed(y)'
      BY <1>1
    <3>1. CASE y \in done
      BY <1>3, <1>4, <2>1, <3>1 DEF Placed
    <3>2. CASE y \in group
      BY <2>1, <3>2 DEF Placed
    <3>. QED  BY <3>1, <3>2
  <2>3. Created'
    <3>1. \A x : TurnedDown(x)' <=> TurnedDown(x)
      BY <2>1 DEF TurnedDown
    <3>2. refused' \subseteq Patches \X {"dependency", "too long"}
      BY <1>5, <2>1 DEF DTInv, Created
    <3>. QED  BY <1>1, <3>1, <3>2, CreatedKept DEF DTInv
  <2>4. \A s \in Elements(plans)' : Sound(s)' /\ Elements(s) \subseteq done'
    BY <1>1, <1>3, <1>4, <2>1
  <2>5. Grouped'
    BY <1>1, <1>3, <1>4, <1>6, <1>7, <2>1, <2>2, <2>4, EmptyElements
       DEF Grouped
  <2>. QED  BY <2>3, <2>5 DEF DTInv
<1>. QED  BY <1>8, <1>9

(* A step that changes nothing keeps everything. *)
LEMMA DTStutterStep ==
  ASSUME DTInv, UNCHANGED dtVars
  PROVE  DTInv'
<1>1. /\ UNCHANGED creation /\ refused' = refused /\ group' = group
      /\ waiting' = waiting /\ ordered' = ordered /\ plans' = plans
      /\ done' = done
  BY DEF dtVars, grouping
<1>2. Created'
  <2>1. \A x : TurnedDown(x)' <=> TurnedDown(x)
    BY <1>1 DEF TurnedDown
  <2>2. refused' \subseteq Patches \X {"dependency", "too long"}
    BY <1>1 DEF DTInv, Created
  <2>. QED  BY <1>1, <2>1, <2>2, CreatedKept DEF DTInv
<1>3. /\ InSomePlan' = InSomePlan
      /\ \A y : Linked(y)' = Linked(y)
      /\ \A s : Sound(s)' <=> Sound(s)
      /\ Resolved' <=> Resolved
  BY <1>1, CreationKept
<1>4. \A y : Placed(y)' <=> Placed(y)
  BY <1>1, <1>3 DEF Placed
<1>5. (Apart(group)' <=> Apart(group)) /\ (Apart(done)' <=> Apart(done))
  <2>1. deps' = deps
    BY <1>1 DEF creation
  <2>. QED  BY <1>1, <2>1 DEF Apart
<1>6. Sound(ordered)' <=> Sound(ordered)
  BY <1>1 DEF Sound, IsPlans, creation
<1>7. Grouped'
  BY <1>1, <1>3, <1>4, <1>5, <1>6 DEF DTInv, Grouped
<1>. QED  BY <1>2, <1>7 DEF DTInv

(* So the invariant holds of every step of CreateDisjointTransactions. *)
LEMMA DTIsInv == DTSpec => []DTInv
<1>1. DTInv /\ [DTNext]_dtVars => DTInv'
  <2>. SUFFICES ASSUME DTInv, [DTNext]_dtVars  PROVE DTInv'
    OBVIOUS
  <2>. QED  BY CreateStep, ResolveStep, YieldStep, TakeGroupStep,
               ConsiderStep, FinishGroupStep, DTStutterStep DEF DTNext
<1>. QED  BY DTInitInv, <1>1, PTL DEF DTSpec

-----------------------------------------------------------------------------
(* Every variable has its type. *)
THEOREM DTTypeCorrect == DTSpec => []DTTypeOK
<1>1. ASSUME DTInv  PROVE DTTypeOK
  <2>1. InSomePlan \subseteq pool.allowed /\ pool.allowed \subseteq Patches
    BY <1>1, SomePlanFacts DEF DTInv, Created
  <2>2. /\ todo \subseteq pool.allowed /\ change \in Patches \cup {0}
        /\ DOMAIN deps \subseteq pool.allowed
        /\ refused \subseteq Patches \X {"dependency", "too long"}
    BY <1>1, <2>1 DEF DTInv, Created
  <2>3. group \subseteq Patches /\ done \subseteq Patches /\ waiting \subseteq group
    BY <1>1, <2>1 DEF DTInv, Grouped
  <2>4. ASSUME NEW s \in {deps[c] : c \in DOMAIN deps} \cup Elements(plans)
                           \cup {ordered}
        PROVE  s \in Seq(Patches)
    <3>1. CASE s \in {deps[c] : c \in DOMAIN deps}
      BY <1>1, <3>1 DEF DTInv, Created, WellMade
    <3>2. CASE s \in Elements(plans) \cup {ordered}
      BY <1>1, <3>2 DEF DTInv, Grouped, Sound
    <3>. QED  BY <2>4, <3>1, <3>2
  <2>. QED  BY <2>2, <2>3, <2>4 DEF DTTypeOK
<1>. QED  BY DTIsInv, <1>1, PTL

(* The transaction that the code yields for a change, one step of its       *)
(* recursion after the other, is the least set of changes that its          *)
(* dependencies close, each of them once; and it yields an exception just   *)
(* when one of them cannot be committed.                                    *)
THEOREM TransactionsAreComplete == DTSpec => []TransactionsComplete
<1>1. ASSUME DTInv  PROVE TransactionsComplete
  <2>1. ASSUME NEW c \in DOMAIN deps
        PROVE  OnlyOnce(deps[c]) /\ Elements(deps[c]) = Required(pool, c)
    BY <1>1 DEF DTInv, Created, WellMade
  <2>2. ASSUME NEW c \in pool.allowed \ (todo \cup {change})
        PROVE  <<c, "dependency">> \in refused <=>
                 \E x \in Required(pool, c) :
                   NotReady(pool, pool.gerrit[x]) \/ NotReady(pool, pool.cq[x])
    BY <1>1, <2>2 DEF DTInv, Created, TurnedDown, Obstacle
  <2>. QED  BY <2>1, <2>2 DEF TransactionsComplete
<1>. QED  BY DTIsInv, <1>1, PTL

(* Whatever the graph of dependencies, cycles included, no transaction and  *)
(* no list made of several has a change before its Gerrit parent, unless it *)
(* is an ancestor of its own.                                               *)
THEOREM ParentsDoLandFirst == DTSpec => []ParentsLandFirst
<1>1. ASSUME DTInv  PROVE ParentsLandFirst
  <2>. SUFFICES ASSUME NEW s \in Lists  PROVE ParentsBeforeChildren(pool, s)
    BY DEF ParentsLandFirst
  <2>1. CASE s \in {deps[c] : c \in DOMAIN deps}
    BY <1>1, <2>1 DEF DTInv, Created, WellMade
  <2>2. CASE s \in Elements(plans)
    BY <1>1, <2>2 DEF DTInv, Grouped, Sound
  <2>. QED  BY <2>1, <2>2 DEF Lists
<1>. QED  BY DTIsInv, <1>1, PTL

(* The lists have no change in common, and none of them needs a change that *)
(* it does not have, whatever |max_txn_length| has left out of it.          *)
THEOREM ListsAreIndependent == DTSpec => []Independent
<1>1. ASSUME DTInv  PROVE Independent
  <2>1. ASSUME NEW s \in Elements(plans), NEW c \in Elements(s)
        PROVE  Needs(pool, c) \subseteq Elements(s)
    <3>1. IsPlans(Elements(s))
      BY <1>1 DEF DTInv, Grouped, Sound
    <3>2. PICK d \in DOMAIN deps :
            c \in Elements(deps[d]) /\ Elements(deps[d]) \subseteq Elements(s)
      BY <3>1 DEF IsPlans
    <3>3. Needs(pool, c) \subseteq Elements(deps[d])
      BY <1>1, <3>2, SomePlanFacts DEF DTInv
    <3>. QED  BY <3>2, <3>3
  <2>2. \A s \in Elements(plans) : OnlyOnce(s)
    BY <1>1 DEF DTInv, Grouped, Sound
  <2>3. \A i, j \in DOMAIN plans :
          i # j => Elements(plans[i]) \cap Elements(plans[j]) = {}
    BY <1>1 DEF DTInv, Grouped
  <2>. QED  BY <2>1, <2>2, <2>3 DEF Independent
<1>. QED  BY DTIsInv, <1>1, PTL

(* No given change is lost on the way: it lands in a list, is refused, or   *)
(* has a list of its own group to wait for.                                 *)
THEOREM ChangesAreAccounted == DTSpec => []Accounted
<1>1. ASSUME DTInv  PROVE Accounted
  <2>. SUFFICES ASSUME Finished, NEW c \in pool.allowed, c \notin pool.committed
                PROVE  \/ \E f \in refused : f[1] = c
                       \/ \E s \in Elements(plans) :
                            \/ c \in Elements(s)
                            \/ MaxTxnLength # 0 /\ Elements(s) \subseteq Linked(c)
    BY DEF Accounted
  <2>1. todo = {} /\ change = 0 /\ InSomePlan \subseteq done
    BY DEF Finished, Resolved
  <2>2. 0 \notin Patches
    BY DEF Patches
  <2>3. TurnedDown(c) \/ c \in DOMAIN deps
    BY <1>1, <2>1, <2>2 DEF DTInv, Created
  <2>4. CASE TurnedDown(c)
    BY <2>4 DEF TurnedDown
  <2>5. CASE c \in DOMAIN deps
    <3>1. c \in Elements(deps[c])
      BY <1>1, <2>5, SomePlanFacts DEF DTInv
    <3>2. c \in done
      BY <2>1, <2>5, <3>1 DEF InSomePlan
    <3>3. Placed(c)
      BY <1>1, <3>2 DEF DTInv, Grouped
    <3>. QED  BY <3>3 DEF Placed
  <2>. QED  BY <2>3, <2>4, <2>5
<1>. QED  BY DTIsInv, <1>1, PTL

(* "for dep_change in deps[change]": every change of a group, although it   *)
(* comes from the plans of others, has a transaction of its own, so that    *)
(* the lookup cannot raise a KeyError.                                      *)
THEOREM GroupsHaveTransactions == DTSpec => [](group \subseteq DOMAIN deps)
<1>1. ASSUME DTInv  PROVE group \subseteq DOMAIN deps
  <2>1. CASE Resolved
    BY <1>1, <2>1, SomePlanFacts DEF DTInv, Grouped
  <2>2. CASE ~Resolved
    BY <1>1, <2>2 DEF DTInv, Grouped
  <2>. QED  BY <2>1, <2>2
<1>. QED  BY DTIsInv, <1>1, PTL

-----------------------------------------------------------------------------
(* A pool in which the pairs of Parents are the Gerrit dependencies still   *)
(* to be met, none of which go in circles, and nothing is committed yet.    *)
SameParents ==
  /\ NumChanges = NumPatches /\ pool.committed = {}
  /\ \A e \in Parents : e[1] \in GerritParents(pool, e[2])
  /\ \A c \in Patches : ~LeadsTo(pool, c, c)

(* What SeriesAssumption asks of the plans of a PatchSeries is what         *)
(* CreateTransactions yields, as far as it has come: each plan has the      *)
(* change it is for, nothing twice, and parents before their children.      *)
THEOREM TransactionsAreOrderly == DTSpec => [](SameParents => Orderly(deps))
<1>1. ASSUME DTInv, SameParents  PROVE Orderly(deps)
  <2>1. Patches = Changes
    BY <1>1 DEF SameParents, Patches, Changes
  <2>2. /\ DOMAIN deps \subseteq pool.allowed /\ pool.allowed \subseteq Patches
        /\ \A c \in DOMAIN deps : WellMade(pool, c, deps[c])
    BY <1>1 DEF DTInv, Created
  <2>3. ASSUME NEW c \in DOMAIN deps
        PROVE  /\ deps[c] \in Seq(Changes) /\ c \in Members(deps[c])
               /\ Distinct(deps[c]) /\ ParentsFirst(deps[c])
    <3>. DEFINE s == deps[c]
    <3>1. /\ s \in Seq(Patches) /\ OnlyOnce(s) /\ ParentsBeforeChildren(pool, s)
          /\ c \in Elements(s)
      BY <1>1, <2>2, SomePlanFacts DEF WellMade, DTInv, SameParents
    <3>. HIDE DEF s
    <3>2. DOMAIN s = 1 .. Len(s) /\ \A i \in 1 .. Len(s) : s[i] \in Patches
      BY <3>1
    <3>3. c \in Members(s) /\ Distinct(s)
      BY <3>1, <3>2 DEF Members, Elements, Distinct, OnlyOnce
    <3>4. ASSUME NEW e \in Parents, NEW j \in 1 .. Len(s), s[j] = e[2]
          PROVE  \E i \in 1 .. j - 1 : s[i] = e[1]
      <4>1. ~LeadsTo(pool, s[j], s[j]) /\ e[1] \in GerritParents(pool, s[j])
        BY <1>1, <3>2, <3>4 DEF SameParents
      <4>. QED  BY <3>1, <3>2, <4>1 DEF ParentsBeforeChildren
    <3>. QED  BY <2>1, <3>1, <3>3, <3>4 DEF ParentsFirst, s
  <2>. QED  BY <2>1, <2>2, <2>3 DEF Orderly
<1>2. DTInv => (SameParents => Orderly(deps))
  BY <1>1
<1>. QED  BY DTIsInv, <1>2, PTL
=============================================================================
