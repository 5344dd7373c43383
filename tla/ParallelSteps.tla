--------------------------- MODULE ParallelSteps ---------------------------
(***************************************************************************)
(* What ParallelTasks of lib/parallel.py promises its caller, with no      *)
(* process, queue, signal or timeout in sight: every step of the list ends *)
(* well or fails, and the call comes back only when every step has ended,  *)
(* normally if all of them ended well and with a BackgroundFailure if one  *)
(* did not.  The third way out is an exception of the machinery itself,    *)
(* which promises nothing about the steps.                                 *)
(***************************************************************************)
EXTENDS Naturals

CONSTANT NumTasks

Tasks == 1 .. NumTasks

VARIABLES status,   \* what became of each step
          call      \* how the call to ParallelTasks stands

absVars == <<status, call>>

Init ==
  /\ status = [t \in Tasks |-> "pending"]
  /\ call = "running"

(* Step t ends well. *)
Succeed(t) ==
  /\ status[t] = "pending"
  /\ status' = [status EXCEPT ![t] = "ok"]
  /\ UNCHANGED call

(* Step t fails, dies, or is given up: the parent may kill a step for being *)
(* silent in the very second in which it ended well.                        *)
Fail(t) ==
  /\ status[t] \in {"pending", "ok"}
  /\ call = "running"
  /\ status' = [status EXCEPT ![t] = "failed"]
  /\ UNCHANGED call

(* Steps left behind by an exception of the machinery may still fail. *)
FailLate(t) ==
  /\ call = "raised"
  /\ status[t] = "pending"
  /\ status' = [status EXCEPT ![t] = "failed"]
  /\ UNCHANGED call

Return ==
  /\ call = "running"
  /\ \A t \in Tasks : status[t] = "ok"
  /\ call' = "returned"
  /\ UNCHANGED status

RaiseBackgroundFailure ==
  /\ call = "running"
  /\ \A t \in Tasks : status[t] # "pending"
  /\ \E t \in Tasks : status[t] = "failed"
  /\ call' = "failed"
  /\ UNCHANGED status

RaiseOther ==
  /\ call = "running"
  /\ call' = "raised"
  /\ UNCHANGED status

Next ==
  \/ \E t \in Tasks : Succeed(t) \/ Fail(t) \/ FailLate(t)
  \/ Return
  \/ RaiseBackgroundFailure
  \/ RaiseOther

Spec == Init /\ [][Next]_absVars
=============================================================================
