------------------------ MODULE DisjointTransactions ------------------------
(***************************************************************************)
(* PatchSeries.CreateDisjointTransactions of cbuildbot/validation_pool.py: *)
(* each change is resolved into its transaction; transactions that share a *)
(* change are put in one group; each group becomes one ordered list, which *)
(* takes in one transaction after the other while |max_txn_length| allows. *)
(*                                                                         *)
(* The groups, and the changes of a group, come from sets: their order is  *)
(* arbitrary.  The names begin with DT where PatchSeries, of which this is *)
(* another method, has the same ones.                                      *)
(***************************************************************************)
EXTENDS Transactions

CONSTANTS NumPatches,
          MaxGerritDeps,  \* bounds on the length of a dependency list
          MaxCQDeps,
          Statuses,       \* what may be the case of a change, see PoolWith
          MaxTxnLength    \* max_txn_length; 0 for None

ASSUME DisjointAssumption ==
  /\ NumPatches \in Nat /\ MaxGerritDeps \in Nat /\ MaxCQDeps \in Nat
  /\ MaxTxnLength \in Nat
  /\ Statuses \subseteq
       {"free", "committed", "skipped", "outside", "unwanted", "neither"}

Patches == 1 .. NumPatches

VARIABLES
  pool,      \* the dependencies and standing of the changes
  todo,      \* changes whose transaction is to be created
  change,    \* the one whose transaction is being created, 0 for none
  resolving, \* the calls of _AddChangeToPlanWithDeps for it
  deps,      \* the transactions created: change -> plan
  refused,   \* failed, the exceptions: pairs of a change and a reason
  group,     \* the group being ordered
  waiting,   \* its changes not considered yet
  ordered,   \* ordered_plan
  plans,     \* ordered_plans
  done       \* the changes of the groups that are finished
creation == <<pool, todo, change, resolving, deps>>
grouping == <<group, waiting, ordered, plans, done>>
dtVars == <<creation, refused, grouping>>

OnlyOnce(s) == \A i, j \in DOMAIN s : s[i] = s[j] => i = j

(* Lists of at most |max| other changes, for each change. *)
DepLists(max) ==
  LET lists == UNION {[1 .. n -> Patches] : n \in 0 .. max}
  IN {f \in [Patches -> lists] :
        \A c \in Patches :
          /\ c \notin Elements(f[c])
          /\ OnlyOnce(f[c])}

PoolWith(gerrit, cq, status) ==
  LET Are(set) == {c \in Patches : status[c] \in set}
  IN [gerrit |-> gerrit, cq |-> cq,
      committed |-> Are({"committed"}),
      skipped   |-> Are({"skipped"}),
      allowed   |-> Patches \ Are({"outside", "neither"}),
      wanted    |-> Patches \ Are({"unwanted", "neither"})]

Idle == [stack |-> <<>>, plan |-> <<>>, gerritSeen |-> {}, cqSeen |-> {},
         raised |-> FALSE]

DTInit ==
  /\ \E gerrit \in DepLists(MaxGerritDeps), cq \in DepLists(MaxCQDeps),
        status \in [Patches -> Statuses] :
       pool = PoolWith(gerrit, cq, status)
  /\ todo = pool.allowed     \* limit_to is the changes given
  /\ change = 0 /\ resolving = Idle
  /\ deps = <<>> /\ refused = {}
  /\ group = {} /\ waiting = {} /\ ordered = <<>> /\ plans = <<>>
  /\ done = {}

-----------------------------------------------------------------------------
(* CreateTransactions yields a transaction or an exception for each change. *)

CreateTransaction(c) ==
  /\ change = 0
  /\ c \in todo /\ \A d \in todo : c <= d
  /\ todo' = todo \ {c}
  /\ change' = c
  /\ resolving' = Start(c)
  /\ UNCHANGED <<pool, deps, refused, grouping>>

Resolve ==
  /\ change # 0 /\ ~Ended(resolving)
  /\ resolving' = AddChangeToPlanWithDeps(pool, resolving)
  /\ UNCHANGED <<pool, todo, change, deps, refused, grouping>>

Yield ==
  /\ change # 0 /\ Ended(resolving)
  /\ IF resolving.raised
     THEN refused' = refused \cup {<<change, "dependency">>} /\ UNCHANGED deps
     ELSE /\ deps' = [c \in DOMAIN deps \cup {change} |->
                        IF c = change THEN resolving.plan ELSE deps[c]]
          /\ UNCHANGED refused
  /\ change' = 0 /\ resolving' = Idle
  /\ UNCHANGED <<pool, todo, grouping>>

Resolved == todo = {} /\ change = 0

-----------------------------------------------------------------------------
(* The vertices of the graph, and what a transaction connects.              *)
InSomePlan == UNION {Elements(deps[c]) : c \in DOMAIN deps}

Apart(set) ==
  \A c \in DOMAIN deps :
    Elements(deps[c]) \cap set # {} => Elements(deps[c]) \subseteq set

Linked_Directly(x) ==
  UNION {p \in {Elements(deps[c]) : c \in DOMAIN deps} : x \in p}

(* The connected component of a change. *)
Linked(x) ==
  {y \in InSomePlan :
     \A set \in SUBSET InSomePlan : x \in set /\ Apart(set) => y \in set}

TakeGroup ==
  /\ Resolved /\ group = {}
  /\ \E x \in InSomePlan \ done : group' = Linked(x)
  /\ waiting' = group'
  /\ UNCHANGED <<creation, refused, ordered, plans, done>>

NewChanges(c) == Kept(deps[c], InSomePlan \ Elements(ordered))

Fits(c) ==
  MaxTxnLength = 0 \/ Len(ordered) + Len(NewChanges(c)) <= MaxTxnLength

(* The transaction of the next change of the group joins it, if it fits. *)
Consider(c) ==
  /\ c \in waiting
  /\ waiting' = waiting \ {c}
  /\ ordered' = IF Fits(c) THEN ordered \o NewChanges(c) ELSE ordered
  /\ UNCHANGED <<creation, refused, group, plans, done>>

(* The group is ordered, or refused as a whole: PatchSeriesTooLong. *)
Refused_First == {CHOOSE x \in group : \A y \in group : x <= y}
Refused == group

FinishGroup ==
  /\ group # {} /\ waiting = {}
  /\ IF ordered # <<>>
     THEN plans' = Append(plans, ordered) /\ UNCHANGED refused
     ELSE /\ refused' = refused \cup (Refused \X {"too long"})
          /\ UNCHANGED plans
  /\ done' = done \cup group
  /\ group' = {} /\ ordered' = <<>>
  /\ UNCHANGED <<creation, waiting>>

Finished == Resolved /\ group = {} /\ InSomePlan \subseteq done

DTNext ==
  \/ \E c \in Patches : CreateTransaction(c)
  \/ Resolve
  \/ Yield
  \/ TakeGroup
  \/ \E c \in Patches : Consider(c)
  \/ FinishGroup
  \/ Finished /\ UNCHANGED dtVars

DTSpec == DTInit /\ [][DTNext]_dtVars

-----------------------------------------------------------------------------
(* Every variable has its type. *)
DTTypeOK ==
  /\ todo \subseteq pool.allowed /\ done \subseteq Patches
  /\ change \in Patches \cup {0}
  /\ waiting \subseteq group /\ group \subseteq Patches
  /\ DOMAIN deps \subseteq pool.allowed
  /\ refused \subseteq Patches \X {"dependency", "too long"}
  /\ \A s \in {deps[c] : c \in DOMAIN deps} \cup Elements(plans)
                \cup {ordered} :
       s \in Seq(Patches)

Lists == {deps[c] : c \in DOMAIN deps} \cup Elements(plans)
(* The transaction of a change is the change and all that it needs to land, *)
(* through Gerrit and CQ-DEPEND, near and far, each of them once, and       *)
(* nothing else; the change is turned down just when one of them is not to  *)
(* be committed.                                                            *)
TransactionsComplete ==
  /\ \A c \in DOMAIN deps :
       OnlyOnce(deps[c]) /\ Elements(deps[c]) = Required(pool, c)
  /\ \A c \in pool.allowed \ (todo \cup {change}) :
       <<c, "dependency">> \in refused <=>
         \E x \in Required(pool, c) :
           NotReady(pool, pool.gerrit[x]) \/ NotReady(pool, pool.cq[x])

(* "Gerrit dependencies might be required in order for the change to apply":*)
(* in a transaction, and in the lists made of several, they come first.     *)
ParentsLandFirst == \A s \in Lists : ParentsBeforeChildren(pool, s)

(* "Each transaction can be tried independently, without involving patches  *)
(* from other transactions": whatever truncation leaves out.                *)
Independent ==
  /\ \A i, j \in DOMAIN plans :
       i # j => Elements(plans[i]) \cap Elements(plans[j]) = {}
  /\ \A s \in Elements(plans) :
       OnlyOnce(s) /\ \A c \in Elements(s) : Needs(pool, c) \subseteq Elements(s)

(* Every change is in a list, or is refused, or waits for a list of its     *)
(* group to land first; with no limit on the length nothing waits.          *)
Accounted ==
  Finished =>
    \A c \in pool.allowed \ pool.committed :
      \/ \E f \in refused : f[1] = c
      \/ \E s \in Elements(plans) :
           \/ c \in Elements(s)
           \/ MaxTxnLength # 0 /\ Elements(s) \subseteq Linked(c)
=============================================================================
