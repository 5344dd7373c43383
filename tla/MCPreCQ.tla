------------------------------ MODULE MCPreCQ ------------------------------
(***************************************************************************)
(* Two changes, the second of which needs the first: both are ready and    *)
(* the launcher is on its own with the trybots, or only the first is ready *)
(* and its developer and the launcher's restarts interfere.                *)
(***************************************************************************)
EXTENDS PreCQ

CONSTANTS c1, c2

MCChanges == {c1, c2}
MCNeeds == [c \in MCChanges |-> IF c = c2 THEN {c1} ELSE {}]

MCInit ==
  /\ Init
  /\ \/ ready = {c1, c2} /\ left = [c \in Changes |-> 0]
     \/ ready = {c1} /\ left = [c \in Changes |-> IF c = c1 THEN 3 ELSE 0]

MCSpec == MCInit /\ [][Next]_vars /\ Fairness
=============================================================================
