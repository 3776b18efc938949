---------------------------- MODULE MCEcsClient ----------------------------
(***************************************************************************)
(* Small instances of EcsClient for TLC.                                   *)
(***************************************************************************)
EXTENDS EcsClient

CONSTANTS json, yaml, worker, a, b

\* With --service-name the two services of ecs.json and that of ecs.yaml have one
\* name, ecs.worker.json has another.
MCServicesIn == [f \in Files |-> CASE f = json -> <<a, a>> [] f = yaml -> <<a>> [] f = worker -> <<b>>]
=============================================================================
