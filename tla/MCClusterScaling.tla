-------------------------- MODULE MCClusterScaling --------------------------
(***************************************************************************)
(* Small instances of ClusterScaling for TLC.                              *)
(***************************************************************************)
EXTENDS ClusterScaling, TLC

CONSTANTS a1, a2, b1, b2

MCClusterOf == [n \in Nodes |-> IF n \in {a1, a2} THEN "a" ELSE "b"]

\* One resource; an instance has two units, the largest container needs one.
MCSize == [k \in Resources |-> 2]
MCReservations == [c \in Clusters |-> {[k \in Resources |-> 1]}]

\* An instance is idle or full.
MCLoads ==
  [Nodes -> {0, 2}]
Reported(free) == [n \in Nodes |-> [cluster |-> MCClusterOf[n], az |-> "z",
                                    free |-> [k \in Resources |-> free[n]],
                                    status |-> "ACTIVE"]]
AllLoads == {Reported(f) : f \in MCLoads}

\* The instances of cluster "a" are idle, those of "b" all idle or all full.
BusyOrIdle == {Reported(f) : f \in {[n \in Nodes |-> IF n \in {a1, a2} THEN 2 ELSE i] : i \in {0, 2}}}

HandlerSymmetry == Permutations(Handlers) \cup Permutations(Slots) \cup Permutations({a1, a2})
=============================================================================
