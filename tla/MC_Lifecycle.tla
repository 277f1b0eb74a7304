---------------------------- MODULE MC_Lifecycle ----------------------------
(* Symmetry for the safety runs of Lifecycle.tla: workflows and workers are *)
(* interchangeable, nothing in the model chooses among them by name; and    *)
(* the limit main.go sets under run_until_success.                          *)
EXTENDS LifecycleProps, TLC

Symmetry == Permutations(Workflows) \cup Permutations(Workers)
NoLimit == -1
=============================================================================
