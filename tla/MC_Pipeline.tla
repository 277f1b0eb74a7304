----------------------------- MODULE MC_Pipeline -----------------------------
(* The options of the engine and the pipelines of the Director, for TLC.      *)
EXTENDS PipelineProps

(* The default engine, one whose validation loop only stops when it           *)
(* stagnates, one whose QA loop only stops with a failure inside it, one in   *)
(* auto mode that does not enforce the validation gate, and one without a     *)
(* validation profile.                                                        *)
FiveOptions ==
  {[qaRetries |-> 0, implRetries |-> 0, autoAttempts |-> 0, enforceGate |-> TRUE, validates |-> TRUE],
   [qaRetries |-> 1, implRetries |-> -1, autoAttempts |-> 0, enforceGate |-> TRUE, validates |-> TRUE],
   [qaRetries |-> -1, implRetries |-> 1, autoAttempts |-> 0, enforceGate |-> TRUE, validates |-> TRUE],
   [qaRetries |-> 1, implRetries |-> 1, autoAttempts |-> 3, enforceGate |-> FALSE, validates |-> TRUE],
   [qaRetries |-> 1, implRetries |-> 1, autoAttempts |-> 0, enforceGate |-> TRUE, validates |-> FALSE]}

Bounded ==
  {[qaRetries |-> 1, implRetries |-> 1, autoAttempts |-> 0, enforceGate |-> TRUE, validates |-> TRUE]}

Full == {{}}
Varied ==
  {{}, {"pm", "architect", "pod", "qa", "finalizer"}, {"pod", "qa", "finalizer"},
   {"pm", "qa", "finalizer"}, {"architect", "pod", "finalizer"}}
=============================================================================
