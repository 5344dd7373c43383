---------------------------- MODULE MCPatchSeries ----------------------------
(* PatchSeries on the transactions that Transactions computes, for every    *)
(* CQ-DEPEND graph of three or four changes with one dependency each, one   *)
(* of which may not be ready.  Change 2 was made on change 1.               *)
EXTENDS PatchSeries

CONSTANTS r1, r2

T == INSTANCE MCTransactions

MCParents == {<<1, 2>>}
MCRepoOf == [c \in Changes |-> IF c = 3 THEN r2 ELSE r1]

MCPool(cq, outside) ==
  [gerrit |-> [c \in Changes |-> IF c = 2 THEN <<1>> ELSE <<>>],
   cq |-> [c \in Changes |-> IF cq[c] \in {0, c} THEN <<>> ELSE <<cq[c]>>],
   committed |-> {}, skipped |-> {},
   allowed |-> Changes \ outside, wanted |-> Changes]

MCResolution(pool) ==
  LET result == [c \in pool.allowed |-> T!CreateTransaction(pool, c)]
  IN [c \in {d \in pool.allowed : ~result[d].raised} |-> result[c].plan]

MCResolutions ==
  {MCResolution(MCPool(cq, outside)) :
     cq \in [Changes -> 0 .. NumChanges], outside \in {{}, {NumChanges}}}
=============================================================================
