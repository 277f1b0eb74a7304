------------------------------- MODULE MC_Gate -------------------------------
(***************************************************************************)
(* One toolchain with a git checkpoint, and the gate it opens for QA.        *)
(***************************************************************************)
EXTENDS Workspace

MCToolchainConfigs ==
  << [id |-> "python", languages |-> <<"python">>, bootstraps |-> FALSE, validates |-> TRUE,
      checkpoints |-> TRUE, push |-> FALSE] >>
MCWordLength == [w \in {"python"} |-> 6]
MCWorkRequests == {[words |-> {"python"}, stack |-> {}, repo |-> FALSE]}

GateSpec == WorkspaceInit /\ [][WorkspaceNext]_spaceVars

(* src/prompts/personas/qa.md tells QA of the implementation gate: "latest    *)
(* iteration was committed via git_checkpoint (see checkpoint SHA in         *)
(* context)".  When QA starts, the commit the gate names is the latest one.  *)
GateNamesLatest ==
  at.stage = "qa" /\ work.gate.sha \notin {NoSha, Unborn} => work.gate.sha = Len(git.log)
=============================================================================
