---------------------------- MODULE StepContract ----------------------------
(***************************************************************************)
(* What internal/planner/executor.go promises of the execution of a step   *)
(* to the planners that call it: the step runs, has some tool effects, at  *)
(* most as many as the limit allows, and ends once, completed without an   *)
(* error or failed with one. Nothing it started has an effect after that.  *)
(***************************************************************************)
EXTENDS Naturals

CONSTANT MaxEffects  \* a natural number

VARIABLES
  status,   \* Step.Status, of the step executed last
  effects,  \* tool executions of this step
  failed    \* StepResult.Error # nil

vars == <<status, effects, failed>>

Init == status = "pending" /\ effects = 0 /\ failed = FALSE

Start ==
  /\ status # "running"
  /\ status' = "running" /\ effects' = 0 /\ failed' = FALSE

Effect ==
  /\ status = "running" /\ effects < MaxEffects
  /\ effects' = effects + 1
  /\ UNCHANGED <<status, failed>>

Finish ==
  /\ status = "running"
  /\ \/ status' = "completed" /\ failed' = FALSE
     \/ status' = "failed" /\ failed' = TRUE
  /\ UNCHANGED effects

Next == Start \/ Effect \/ Finish

Spec == Init /\ [][Next]_vars

=============================================================================
