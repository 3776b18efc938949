-------------------------- MODULE ScalingDecision --------------------------
(***************************************************************************)
(* The decisions of the cluster autoscaler: does the largest container     *)
(* still fit in every availability zone, and is there an instance too many *)
(* in every zone.  A list of instances is a function from the instances it *)
(* holds; a decision about a cluster of which it holds none is made too.   *)
(***************************************************************************)
EXTENDS Integers, FiniteSetsExt

CONSTANTS
  Clusters,
  Nodes,         \* EC2 instances
  Resources,     \* "cpu" and "memory"
  Reservations,  \* Reservations[c]: what the services of cluster c reserve
  Size,          \* registered resources of an instance
  Strategies     \* AUTOSCALING_STRATEGIES

Up == "LargestContainerUp" \in Strategies
Down == "LargestContainerDown" \in Strategies

\* The largest reservation of each resource, not necessarily of one service.
Needed(c) == [k \in Resources |-> Max({r[k] : r \in Reservations[c]})]

InCluster(c, list) == {n \in DOMAIN list : list[n].cluster = c}
Usable(c, list) == {n \in InCluster(c, list) : list[n].status # "DRAINING"}
ZonesOf(list, ns) == {list[n].az : n \in ns}

\* The largest container fits on some instance of every zone.
scaleUpDecision(c, list) ==
  \A z \in ZonesOf(list, InCluster(c, list)) :
    \E n \in Usable(c, list) :
      list[n].az = z /\ \A k \in Resources : list[n].free[k] > Needed(c)[k]

\* An instance, the largest container and half of it as a buffer.
ClusterNeeded(c, k) ==
  IF Up THEN Size[k] + Needed(c)[k] + (Needed(c)[k] + 1) \div 2 ELSE Size[k]

FreeInZone(c, list, z, k) ==
  MapThenSumSet(LAMBDA n : list[n].free[k], {n \in Usable(c, list) : list[n].az = z})

\* Every zone can spare an instance, or some zone when scaling up does not ask
\* for room in each.  A zone whose instances all drain is not looked at.
scaleDownDecision(c, list) ==
  LET Zones == ZonesOf(list, Usable(c, list))
      Spare(z) == \A k \in Resources : FreeInZone(c, list, z, k) >= ClusterNeeded(c, k)
  IN IF Up THEN \A z \in Zones : Spare(z) ELSE \E z \in Zones : Spare(z)
=============================================================================
