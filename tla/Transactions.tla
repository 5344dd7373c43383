---------------------------- MODULE Transactions ----------------------------
(***************************************************************************)
(* How PatchSeries of cbuildbot/validation_pool.py resolves a change into  *)
(* a transaction, the ordered list of the changes that must land with it:  *)
(* CreateTransaction, _AddChangeToPlanWithDeps, _LookupUncommittedChanges. *)
(*                                                                         *)
(* A pool g is a record:                                                   *)
(*   gerrit, cq  the Gerrit and the CQ-DEPEND dependencies of each change, *)
(*               as a sequence;                                            *)
(*   committed   the changes in _committed_cache;                          *)
(*   skipped     the other changes that are no obstacle: merged in Gerrit, *)
(*               unknown to it, or internal on an external builder;        *)
(*   allowed     limit_to (every change, if limit_to is None);             *)
(*   wanted      the changes deps_filter_fn accepts.                       *)
(*                                                                         *)
(* _AddChangeToPlanWithDeps calls itself.  Its calls under way are a       *)
(* record: a stack with a frame for each call, what the calls share (the   *)
(* plan, gerrit_deps_seen, cq_deps_seen), and whether one of them raised.  *)
(* A frame has the change, include_cq_deps (withCQ), old_plan_len (oldLen),*)
(* where in its body the call is, and the dependencies it still has to go  *)
(* through.                                                                *)
(***************************************************************************)
EXTENDS Naturals, Sequences, FiniteSets

Elements(s) == {s[i] : i \in DOMAIN s}

(* The elements of a list that are in a set, in their order. *)
Kept(s, set) ==
  LET places  == {i \in DOMAIN s : s[i] \in set}
      rank(i) == Cardinality({j \in places : j <= i})
  IN [k \in 1 .. Cardinality(places) |->
        s[CHOOSE i \in places : rank(i) = k]]

(* PatchRejected or PatchNotCommitReady is raised for one of them. *)
NotReady(g, deps) ==
  ~ (Elements(deps) \subseteq g.committed \cup g.skipped \cup g.allowed)

(* _LookupUncommittedChanges, when it returns. *)
Unsatisfied(g, deps) ==
  Kept(deps, g.wanted \ (g.committed \cup g.skipped))

(* "if change not in plan: plan.append(change)" *)
Appended_InFront(plan, change) ==
  IF change \in Elements(plan) THEN plan ELSE <<change>> \o plan

Appended(plan, change) ==
  IF change \in Elements(plan) THEN plan ELSE Append(plan, change)

(* Which dependencies are followed into their own CQ-DEPENDs. *)
FollowedByCQ_NamedOnly(plan, oldLen, deps) == deps

FollowedByCQ(plan, oldLen, deps) ==
  SubSeq(plan, oldLen + 1, Len(plan)) \o deps

-----------------------------------------------------------------------------
(* Calls.                                                                   *)

Top(m) == m.stack[Len(m.stack)]

Calls(m, change, withCQ) ==
  [m EXCEPT !.stack = Append(@,
     [change |-> change, withCQ |-> withCQ, oldLen |-> Len(m.plan),
      at |-> "begin", left |-> <<>>])]

Returns(m) == [m EXCEPT !.stack = SubSeq(@, 1, Len(@) - 1)]

(* The exception ends all the calls. *)
Raises(m) == [m EXCEPT !.stack = <<>>, !.raised = TRUE]

Goes(m, at, left) ==
  [m EXCEPT !.stack[Len(m.stack)].at = at,
            !.stack[Len(m.stack)].left = left]

(* CreateTransaction's call. *)
Start(change) ==
  Calls([stack |-> <<>>, plan |-> <<>>, gerritSeen |-> {}, cqSeen |-> {},
         raised |-> FALSE], change, TRUE)

(* The Gerrit dependencies are looked up, once for each change. *)
Enter(g, m) ==
  LET change == Top(m).change
  IN IF change \in g.committed THEN Returns(m)
     ELSE IF change \in m.gerritSeen THEN Goes(m, "append", <<>>)
     ELSE IF NotReady(g, g.gerrit[change]) THEN Raises(m)
     ELSE Goes([m EXCEPT !.gerritSeen = @ \cup {change}], "gerrit",
               Unsatisfied(g, g.gerrit[change]))

(* They are added, one after the other, without their CQ-DEPENDs. *)
AddGerritDeps(m) ==
  LET left == Top(m).left
  IN IF left = <<>> THEN Goes(m, "append", <<>>)
     ELSE Calls(Goes(m, "gerrit", Tail(left)), Head(left), FALSE)

(* The change is added, and its CQ-DEPENDs are looked up. *)
AddItself(g, m) ==
  LET f == Top(m)
      added == [m EXCEPT !.plan = Appended(@, f.change)]
  IN IF ~f.withCQ \/ f.change \in m.cqSeen THEN Returns(added)
     ELSE IF NotReady(g, g.cq[f.change]) THEN Raises(added)
     ELSE Goes([added EXCEPT !.cqSeen = @ \cup {f.change}], "cq",
               FollowedByCQ(added.plan, f.oldLen,
                            Unsatisfied(g, g.cq[f.change])))

(* They, and all that this call has added, are added with their CQ-DEPENDs. *)
AddCQDeps(m) ==
  LET left == Top(m).left
  IN IF left = <<>> THEN Returns(m)
     ELSE IF Head(left) \in m.cqSeen THEN Goes(m, "cq", Tail(left))
     ELSE Calls(Goes(m, "cq", Tail(left)), Head(left), TRUE)

Ended(m) == m.stack = <<>>

(* A step of the call on top. *)
AddChangeToPlanWithDeps(g, m) ==
  CASE Top(m).at = "begin"  -> Enter(g, m)
    [] Top(m).at = "gerrit" -> AddGerritDeps(m)
    [] Top(m).at = "append" -> AddItself(g, m)
    [] Top(m).at = "cq"     -> AddCQDeps(m)

-----------------------------------------------------------------------------
(* What a transaction should be, said without the algorithm.                *)

All(g) == DOMAIN g.gerrit

GerritParents(g, change) == Elements(Unsatisfied(g, g.gerrit[change]))

(* The obstacles that dependencies leave: what must land before or with it. *)
Needs(g, change) ==
  GerritParents(g, change) \cup Elements(Unsatisfied(g, g.cq[change]))

Closed(g, set) == \A c \in set : Needs(g, c) \subseteq set

(* The changes that must land with |change|, itself included. *)
LandsWith(g, change) ==
  {x \in All(g) :
     \A set \in SUBSET All(g) : change \in set /\ Closed(g, set) => x \in set}

Required(g, change) ==
  IF change \in g.committed THEN {} ELSE LandsWith(g, change)

(* Gerrit dependencies lead from x to y. *)
LeadsTo(g, x, y) ==
  \A set \in SUBSET All(g) :
    /\ GerritParents(g, x) \subseteq set
    /\ \A c \in set : GerritParents(g, c) \subseteq set
    => y \in set

(* In this plan every Gerrit parent comes before its child, unless the      *)
(* child is an ancestor of its own.                                         *)
ParentsBeforeChildren(g, plan) ==
  \A i \in DOMAIN plan :
    \/ LeadsTo(g, plan[i], plan[i])
    \/ \A d \in GerritParents(g, plan[i]) : \E j \in 1 .. i - 1 : plan[j] = d
=============================================================================
