---------------------------- MODULE MCSessionRuns ----------------------------
(* Model values and symmetry for checking SessionRuns. *)
EXTENDS SessionRuns, TLC

Questions == {"user_question"}
AllKinds == {"user_question", "plan_approval"}

Symmetry ==
    Permutations(Runs) \cup Permutations(Messages) \cup Permutations(Executions)
==============================================================================
