------------------------ MODULE MCServiceAutoscaling ------------------------
(***************************************************************************)
(* Small instances of ServiceAutoscaling for TLC.                          *)
(***************************************************************************)
EXTENDS ServiceAutoscaling, TLC

CONSTANTS p, q

In(kind, limits, n, names) == [kind |-> kind, limits |-> limits, count |-> n, policies |-> names]

MCInputs ==
  {In("put", "narrow", 1, {p}), In("put", "wide", 2, {p, q}), In("put", "narrow", 1, {}),
   In("deletepolicy", "narrow", 1, {p}), In("delete", "narrow", 1, {}),
   In("deploy", "narrow", 1, {}), In("scale", "narrow", 2, {}), In("status", "narrow", 1, {})}

RequestSymmetry == Permutations(Requests)
=============================================================================
