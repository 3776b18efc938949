------------------------ MODULE DeploymentLifecycle ------------------------
(***************************************************************************)
(* What the deployments table promises to those who read it (the web       *)
(* application, ecs-client, IsDeployRunning): a deployment is first seen   *)
(* running, its outcome is written once, and nobody rewrites an outcome.   *)
(***************************************************************************)
CONSTANT Requests

VARIABLE status

Outcome == {"success", "failed", "aborted"}

Init == status = [r \in Requests |-> "none"]

\* NewDeployment.
Start(r) ==
  /\ status[r] = "none"
  /\ status' = [status EXCEPT ![r] = "running"]

\* SetDeploymentStatus, SetDeploymentStatusWithReason.
Finish(r, outcome) ==
  /\ status[r] = "running"
  /\ status' = [status EXCEPT ![r] = outcome]

Next == \E r \in Requests : Start(r) \/ \E outcome \in Outcome : Finish(r, outcome)

Spec == Init /\ [][Next]_status
=============================================================================
