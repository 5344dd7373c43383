---------------------------- MODULE MCSubmitPool ----------------------------
(* SubmitPool for every CQ-DEPEND graph of three changes with one           *)
(* dependency each, where change 2 was made on change 1.                    *)
EXTENDS SubmitPool

T == INSTANCE MCTransactions

MCResolve(pool, c) == T!CreateTransaction(pool, c)

MCGraph(cq) ==
  [gerrit |-> [c \in Changes |-> IF c = 2 THEN <<1>> ELSE <<>>],
   cq |-> [c \in Changes |-> IF cq[c] \in {0, c} THEN <<>> ELSE <<cq[c]>>]]

MCGraphs == {MCGraph(cq) : cq \in [Changes -> 0 .. NumChanges]}
=============================================================================
