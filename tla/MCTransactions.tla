--------------------------- MODULE MCTransactions ---------------------------
(* CreateTransaction as an operator, for the runs of the modules that need  *)
(* transactions to work on.                                                 *)
EXTENDS Transactions

RECURSIVE Run(_, _)
Run(g, m) == IF Ended(m) THEN m ELSE Run(g, AddChangeToPlanWithDeps(g, m))

CreateTransaction(g, change) == Run(g, Start(change))
=============================================================================
