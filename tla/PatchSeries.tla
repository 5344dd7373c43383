----------------------------- MODULE PatchSeries -----------------------------
(***************************************************************************)
(* PatchSeries.Apply of cbuildbot/validation_pool.py: the changes of a     *)
(* pool, resolved into transactions, are applied to the git checkouts of   *)
(* the build root, a transaction at a time; one that fails is rolled back. *)
(*                                                                         *)
(* How a change is resolved is in Transactions.  Here the plans are only   *)
(* assumed to be orderly: see SeriesAssumption.  Every change is in the    *)
(* manifest, as FetchChanges makes sure.                                   *)
(***************************************************************************)
EXTENDS Integers, Sequences

CONSTANTS
  NumChanges,     \* changes are numbered in the order they are given
  Repos,          \* git repositories
  RepoOf,         \* the repository of each change
  Parents,        \* pairs <<parent, child>>: the child was made on the parent
  Resolutions,    \* possible outcomes of CreateTransactions: changes to plans
  HonorOrdering   \* honor_ordering

Changes == 1 .. NumChanges

Members(s) == {s[i] : i \in 1 .. Len(s)}
Distinct(s) == \A i, j \in 1 .. Len(s) : s[i] = s[j] => i = j
ParentsFirst(s) ==
  \A e \in Parents : \A j \in 1 .. Len(s) :
    s[j] = e[2] => \E i \in 1 .. j - 1 : s[i] = e[1]

Orderly(plan) ==
  /\ DOMAIN plan \subseteq Changes
  /\ \A c \in DOMAIN plan :
       /\ plan[c] \in Seq(Changes)
       /\ c \in Members(plan[c])
       /\ Distinct(plan[c])
       /\ ParentsFirst(plan[c])

ASSUME SeriesAssumption ==
  /\ NumChanges \in Nat
  /\ RepoOf \in [Changes -> Repos]
  /\ \A e \in Parents :
       e \in Changes \X Changes /\ RepoOf[e[1]] = RepoOf[e[2]]
  /\ HonorOrdering \in BOOLEAN
  /\ \A plan \in Resolutions : Orderly(plan)

VARIABLES
  given,      \* the changes passed to Apply
  plan,       \* the transactions of those that could be resolved
  left,       \* the changes whose transaction has not been tried
  txn,        \* the change whose transaction is being tried; 0 for none
  pos,        \* the place of the next change in its plan
  checkout,   \* what is applied to each repository, on top of ToT
  saved,      \* the heads to go back to
  committed,  \* _committed_cache
  failedTot,  \* failed_tot: changes known not to apply to ToT
  failed,     \* the exceptions: pairs of the change blamed and inflight
  over        \* how Apply has ended

vars == <<given, plan, left, txn, pos, checkout, saved, committed, failedTot,
          failed, over>>

Promise == INSTANCE SeriesPromise
  WITH landed <- committed, over <- over # "no",
       transactions <- {Members(plan[c]) : c \in DOMAIN plan}

Init ==
  /\ plan \in Resolutions
  /\ given \in {set \in SUBSET Changes : DOMAIN plan \subseteq set}
  /\ left = DOMAIN plan
  /\ txn = 0 /\ pos = 1
  /\ checkout = [r \in Repos |-> <<>>] /\ saved = checkout
  /\ committed = {} /\ failedTot = {}
  /\ failed = (given \ DOMAIN plan) \X {FALSE}
  /\ over = "no"

-----------------------------------------------------------------------------
(* The largest transaction first, then the order of the changes. *)
Before(c, d) ==
  IF HonorOrdering THEN c < d
  ELSE \/ Len(plan[c]) > Len(plan[d])
       \/ Len(plan[c]) = Len(plan[d]) /\ c < d

KnownBad(c) == Members(plan[c]) \cap failedTot # {}

FirstPos == 1

(* _Transaction notes the heads; _ApplyChanges bails immediately if one of  *)
(* the changes is known not to apply.                                       *)
Begin(c) ==
  /\ over = "no" /\ txn = 0
  /\ c \in left /\ \A d \in left \ {c} : Before(c, d)
  /\ left' = left \ {c}
  /\ IF KnownBad(c)
     THEN failed' = failed \cup {<<c, FALSE>>} /\ UNCHANGED <<txn, pos, saved>>
     ELSE txn' = c /\ pos' = FirstPos /\ saved' = checkout /\ UNCHANGED failed
  /\ UNCHANGED <<given, plan, checkout, committed, failedTot, over>>

InTransaction == over = "no" /\ txn # 0
Current == plan[txn][pos]

(* "if change in self._committed_cache: continue" *)
Skip ==
  /\ InTransaction /\ pos <= Len(plan[txn])
  /\ Current \in committed
  /\ pos' = pos + 1
  /\ UNCHANGED <<given, plan, left, txn, checkout, saved, committed, failedTot,
                 failed, over>>

MustApply_Always == InTransaction /\ pos <= Len(plan[txn])
MustApply ==
  InTransaction /\ pos <= Len(plan[txn]) /\ Current \notin committed

(* ApplyChange: the cherry-pick succeeds. *)
ApplyOne ==
  /\ MustApply
  /\ checkout' = [checkout EXCEPT ![RepoOf[Current]] = Append(@, Current)]
  /\ pos' = pos + 1
  /\ UNCHANGED <<given, plan, left, txn, saved, committed, failedTot, failed,
                 over>>

(* "git reset --hard" of the repositories the transaction involves. *)
Involved_Inducing == {RepoOf[txn]}
Involved == {RepoOf[c] : c \in Members(plan[txn])}

(* The cache is put back as it was when the transaction began. *)
CacheThen == committed

Rewind ==
  /\ checkout' = [r \in Repos |-> IF r \in Involved THEN saved[r]
                                  ELSE checkout[r]]
  /\ committed' = CacheThen
  /\ txn' = 0

(* It conflicts; with what is in flight, if ToT itself takes the change.    *)
(* The exception is wrapped to blame the inducing change.                   *)
Blamed_Culprit == Current
Blamed == txn

Remembered == failedTot \cup {Current}

Conflict(inflight) ==
  /\ MustApply
  /\ inflight => checkout[RepoOf[Current]] # <<>>
  /\ failedTot' = IF inflight THEN failedTot ELSE Remembered
  /\ failed' = failed \cup {<<Blamed, inflight>>}
  /\ Rewind
  /\ UNCHANGED <<given, plan, left, pos, saved, over>>

(* Git itself fails: rolled back as well, but Apply does not go on. *)
GitFails ==
  /\ MustApply
  /\ Rewind
  /\ over' = "raised"
  /\ UNCHANGED <<given, plan, left, pos, saved, failedTot, failed>>

(* A git reset of the rewind fails: the repositories that come after it are *)
(* left as they are, and the exception that leaves Apply is git's.          *)
RewindFails ==
  /\ MustApply
  /\ \E rewound \in (SUBSET Involved) \ {Involved} :
       checkout' = [r \in Repos |-> IF r \in rewound THEN saved[r]
                                   ELSE checkout[r]]
  /\ failedTot' \in {failedTot, Remembered}
  /\ over' = "raised"
  /\ UNCHANGED <<given, plan, left, txn, pos, saved, committed, failed>>

(* The transaction went in: InjectCommittedPatches. *)
NowCommitted_Inducing == committed \cup {txn}
NowCommitted == committed \cup Members(plan[txn])

Commit ==
  /\ InTransaction /\ pos > Len(plan[txn])
  /\ committed' = NowCommitted
  /\ txn' = 0
  /\ UNCHANGED <<given, plan, left, pos, checkout, saved, failedTot, failed,
                 over>>

(* The failures of changes that went in after all are forgotten. *)
Forgotten == {f \in failed : f[1] \in committed}

Return ==
  /\ over = "no" /\ txn = 0 /\ left = {}
  /\ failed' = failed \ Forgotten
  /\ over' = "returned"
  /\ UNCHANGED <<given, plan, left, txn, pos, checkout, saved, committed,
                 failedTot>>

Next ==
  \/ \E c \in Changes : Begin(c)
  \/ Skip \/ ApplyOne \/ Commit
  \/ Conflict(TRUE) \/ Conflict(FALSE)
  \/ GitFails \/ RewindFails
  \/ Return
  \/ over # "no" /\ UNCHANGED vars

Spec == Init /\ [][Next]_vars

-----------------------------------------------------------------------------
Content(heads) == UNION {Members(heads[r]) : r \in Repos}

(* Every variable has its type. *)
TypeOK ==
  /\ given \subseteq Changes /\ DOMAIN plan \subseteq given /\ Orderly(plan)
  /\ left \subseteq DOMAIN plan
  /\ txn \in DOMAIN plan \cup {0}
  /\ pos \in Nat \ {0}
  /\ checkout \in [Repos -> Seq(Changes)] /\ saved \in [Repos -> Seq(Changes)]
  /\ committed \subseteq Changes /\ failedTot \subseteq Changes
  /\ failed \subseteq given \X BOOLEAN
  /\ over \in {"no", "returned", "raised"}

(* Between transactions what the build root holds is what the cache says,   *)
(* whatever was applied and rolled back, in one repository or several.      *)
(* Within one, and when the rewinding itself fails, what the cache says is  *)
(* there, and what is there beyond it belongs to that transaction.          *)
CacheMatchesCheckout ==
  /\ txn = 0 => Content(checkout) = committed
  /\ txn # 0 => /\ committed \subseteq Content(checkout)
               /\ Content(checkout) \subseteq committed \cup Members(plan[txn])

(* No change is applied twice, though transactions overlap, and none without *)
(* the changes it was made on.                                              *)
AppliedInOrder ==
  \A r \in Repos : Distinct(checkout[r]) /\ ParentsFirst(checkout[r])

(* A change that does not apply to ToT never gets in. *)
KnownBadStaysOut == failedTot \cap Content(checkout) = {}

(* When Apply returns, each change it was given has either gone in or is    *)
(* named by an exception, and never both.                                   *)
EveryoneAnswered ==
  over = "returned" =>
    \A c \in given : c \in committed <=> c \notin {f[1] : f \in failed}

(* Apply keeps its promise: whole transactions land, for good. *)
KeepsPromise == Promise!Spec
=============================================================================
