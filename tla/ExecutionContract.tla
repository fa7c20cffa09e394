-------------------------- MODULE ExecutionContract --------------------------
(***************************************************************************)
(* What the execution of one approved Task promises to the people on both  *)
(* sides of it, whatever the kernel, its children and the runtime do: the  *)
(* status that the host's record shows, and whether the Task's work is in  *)
(* the shared Workspace.                                                   *)
(***************************************************************************)
VARIABLES
  status,   \* state of the Task's record
  effect    \* whether the Task has changed the Workspace

contractVars == <<status, effect>>

Init == status = "pending" /\ effect = FALSE

\* The Task is approved, or resumed after an interruption.
Begin ==
  /\ status \in {"pending", "input_required"}
  /\ status' = "working"
  /\ UNCHANGED effect

\* The work enters the Workspace: once, and never before an approval.  It may be
\* reported later, or be overtaken by another end.
TakeEffect ==
  /\ status # "pending" /\ ~effect
  /\ effect' = TRUE
  /\ UNCHANGED status

\* The Task is reported: completed only when its work is there.
Report ==
  /\ status = "working"
  /\ \/ effect /\ status' = "completed"
     \/ status' \in {"failed", "canceled", "input_required"}
  /\ UNCHANGED effect

\* A Task that waits to be resumed may be canceled instead, or end when the
\* handler of its last execution comes after the reconciliation.
Abandon ==
  /\ status = "input_required"
  /\ status' \in {"canceled", "failed"}
  /\ UNCHANGED effect

Next == Begin \/ TakeEffect \/ Report \/ Abandon

Spec == Init /\ [][Next]_contractVars /\ WF_contractVars(Report)
=============================================================================
