----------------------------- MODULE MCWorkflow -----------------------------
(* Small instances of WorkflowLifecycle: every decision names one role. *)
EXTENDS WorkflowLifecycle, TLC

CONSTANTS NamedRole

OneRole == [d \in Decision |-> NamedRole]
Symmetry == Permutations(Result) \cup Permutations(Assignment)

=============================================================================
