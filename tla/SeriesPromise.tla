---------------------------- MODULE SeriesPromise ----------------------------
(***************************************************************************)
(* What PatchSeries.Apply of cbuildbot/validation_pool.py promises: the    *)
(* changes land in whole transactions.  A transaction is the set of the    *)
(* changes that must land together; some are turned down, and nothing that *)
(* has landed is ever taken away.                                          *)
(***************************************************************************)
VARIABLES landed,        \* what has landed
          transactions,  \* the sets of changes that must land together
          over           \* Apply has ended

promiseVars == <<landed, transactions, over>>

Init == landed = {} /\ ~over

(* A transaction lands: whatever of it has not landed yet. *)
Land(txn) == landed' = landed \cup txn /\ UNCHANGED <<transactions, over>>

Finish == over' /\ UNCHANGED <<landed, transactions>>

Next ==
  /\ ~over
  /\ (\E txn \in transactions : Land(txn)) \/ Finish

Spec == Init /\ [][Next]_promiseVars

-----------------------------------------------------------------------------
(* All that has landed belongs to a transaction that has landed as a whole. *)
LandedWhole ==
  \A c \in landed :
    \E txn \in transactions : c \in txn /\ txn \subseteq landed
=============================================================================
