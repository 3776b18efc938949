--------------------------- MODULE MCDeployments ---------------------------
(***************************************************************************)
(* Small instances of Deployments for TLC.                                 *)
(***************************************************************************)
EXTENDS Deployments, TLC

CONSTANTS d1, d2, d3

\* The second request asks for more tasks than the first.
MCWanted == [r \in Requests |-> IF r = d2 THEN 2 ELSE 1]

\* A scaleService request to zero tasks is legal.
MCCount == [w \in Scalers |-> 0]

\* Every request names the same load balancer, or the second another one.
SameBalancer == [r \in Requests |-> "lb1"]
OtherBalancer == [r \in Requests |-> IF r = d2 THEN "lb2" ELSE "lb1"]

\* The servers are interchangeable.
ServerSymmetry == Permutations(Servers)
=============================================================================
