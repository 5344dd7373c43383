---------------------------- MODULE EmergeOrder ----------------------------
(***************************************************************************)
(* What EmergeQueue of scripts/parallel_emerge.py is for: each package is  *)
(* merged once, after every package it needs; one that fails is tried once *)
(* more, when nothing else can be merged, and never two of them at a time, *)
(* but the next as soon as such a try succeeds; a run ends well when all   *)
(* are merged, and gives up only when none of the others can be, because   *)
(* it failed twice or waits for one that is not merged.  Without queues    *)
(* and workers.                                                            *)
(***************************************************************************)
EXTENDS Integers

CONSTANT Packages   \* by their places in the install plan

VARIABLES needs,    \* the packages each package needs, without cycles
          merged,   \* packages that are merged
          failed,   \* packages whose last try failed
          again,    \* of these, the one that is tried once more
          hopeless, \* of these, the ones that failed for good
          ending    \* "running", "done" or "failed"
tries == <<failed, again, hopeless>>
vars == <<needs, merged, tries, ending>>

(* The graph is given before its cycles are broken: until the first merge,  *)
(* a package may cease to need another, but never one that precedes it in   *)
(* the plan.                                                                *)
Init ==
  /\ needs \in [Packages -> SUBSET Packages]
  /\ merged = {} /\ failed = {} /\ again = {} /\ hopeless = {}
  /\ ending = "running"

Relax ==
  /\ merged = {} /\ failed = {} /\ ending = "running"
  /\ needs' \in [Packages -> SUBSET Packages]
  /\ \A p \in Packages : /\ needs'[p] \subseteq needs[p]
                         /\ \A d \in needs[p] \ needs'[p] : d >= p
  /\ UNCHANGED <<merged, tries, ending>>

MayTry(p) ==
  /\ ending = "running"
  /\ p \notin merged /\ needs[p] \subseteq merged
  /\ p \in failed => again = {p}

(* The next of those that failed has its turn after one that did well. *)
Merge(p) ==
  /\ MayTry(p)
  /\ merged' = merged \cup {p}
  /\ failed' = failed \ {p}
  /\ \/ again' = again \ {p}
     \/ /\ again = {p}
        /\ \E q \in failed \ (hopeless \cup {p}) : again' = {q}
  /\ UNCHANGED <<needs, hopeless, ending>>

Fail(p) ==
  /\ MayTry(p)
  /\ failed' = failed \cup {p}
  /\ again' = again \ {p}
  /\ hopeless' = IF p \in failed THEN hopeless \cup {p} ELSE hopeless
  /\ UNCHANGED <<needs, merged, ending>>

(* Nothing can be merged but one of |ps|. *)
Stuck(ps) ==
  \A p \in Packages \ merged : p \in ps \/ ~(needs[p] \subseteq merged)

TryAgain(p) ==
  /\ ending = "running"
  /\ again = {} /\ Stuck(failed)
  /\ p \in failed \ hopeless
  /\ again' = {p}
  /\ UNCHANGED <<needs, merged, failed, hopeless, ending>>

End ==
  /\ ending = "running"
  /\ \/ merged = Packages /\ ending' = "done"
     \/ merged # Packages /\ hopeless # {} /\ Stuck(hopeless) /\ ending' = "failed"
  /\ UNCHANGED <<needs, merged, tries>>

Next ==
  \/ Relax
  \/ \E p \in Packages : Merge(p) \/ Fail(p) \/ TryAgain(p)
  \/ End

Spec == Init /\ [][Next]_vars
=============================================================================
