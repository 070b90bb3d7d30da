-------------------------- MODULE CompletionBatch ---------------------------
(***************************************************************************)
(* What process_work_completion_event promises its caller, without CQ,     *)
(* notifications or polling: the caller posts a batch of requests and      *)
(* waits; it goes on only when the whole batch has completed, before or    *)
(* during the wait, and every completion was a success; and the wait       *)
(* always ends.                                                            *)
(***************************************************************************)
EXTENDS Naturals

CONSTANT MaxBatch

VARIABLES
  phase,        \* "free", "waiting" for a batch, or "failed"
  size,         \* requests of the batch
  outstanding,  \* those that have not completed
  broken        \* whether one of them completed with an error

vars == <<phase, size, outstanding, broken>>

Init ==
  /\ phase = "free"
  /\ size = 0
  /\ outstanding = 0
  /\ broken = FALSE

Request ==
  /\ phase = "free"
  /\ size < MaxBatch
  /\ size' = size + 1
  /\ outstanding' = outstanding + 1
  /\ UNCHANGED <<phase, broken>>

Complete ==
  /\ phase \in {"free", "waiting"}
  /\ outstanding > 0
  /\ outstanding' = outstanding - 1
  /\ broken' \in {broken, TRUE}
  /\ UNCHANGED <<phase, size>>

Await ==
  /\ phase = "free"
  /\ size > 0
  /\ phase' = "waiting"
  /\ UNCHANGED <<size, outstanding, broken>>

Deliver ==
  /\ phase = "waiting"
  /\ outstanding = 0
  /\ ~broken
  /\ phase' = "free"
  /\ size' = 0
  /\ UNCHANGED <<outstanding, broken>>

Fail ==
  /\ phase = "waiting"
  /\ phase' = "failed"
  /\ size' = 0
  /\ outstanding' = 0
  /\ broken' = FALSE

Next == Request \/ Complete \/ Await \/ Deliver \/ Fail

Safety == Init /\ [][Next]_vars

Fairness == WF_vars(Complete \/ Deliver \/ Fail)

Spec == Safety /\ Fairness
=============================================================================
