--------------------------- MODULE MCEmergeQueue ---------------------------
(***************************************************************************)
(* Three packages and two workers of each kind: every graph, cycles and    *)
(* packages that need themselves included, and every choice of what is     *)
(* installed already.  With --unpackonly, two packages are independent and *)
(* the third may need them.                                                *)
(***************************************************************************)
EXTENDS EmergeQueue

MCInit ==
  /\ Init
  /\ unpackOnly => /\ \A p \in Packages : action[p] = "merge"
                   /\ \A p \in Packages \ {NumPackages} : needs[p] = {}
                   /\ NumPackages \notin needs[NumPackages]

MCSpec == MCInit /\ [][Next]_vars /\ Fairness
=============================================================================
