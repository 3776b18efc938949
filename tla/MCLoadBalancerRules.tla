------------------------ MODULE MCLoadBalancerRules ------------------------
(***************************************************************************)
(* Small instances of LoadBalancerRules for TLC.                           *)
(***************************************************************************)
EXTENDS LoadBalancerRules, TLC

CONSTANTS host, path, login, staff, a, b, l1, l2

MCConditions == {host, path, login, staff}
MCLength == [c \in MCConditions |-> IF c = path THEN 2 ELSE 0]
MCOn == [c \in MCConditions |-> IF c = path THEN {"http"} ELSE Listeners]

\* The same host, for users of another Cognito client.
MCPlace == [c \in MCConditions |-> IF c = staff THEN login ELSE c]

Request(s, l, C) == [service |-> s, lb |-> l, conds |-> C]
MCExisting == {Request(a, l1, {login})}
MCRank == [r \in MCExisting |-> 1]

\* Two services on one load balancer that authenticate the same host, one of which
\* moves.
MCRequests ==
  {Request(a, l1, {login}), Request(a, l1, {host, path}), Request(a, l2, {login}),
   Request(b, l1, {staff}), Request(b, l1, {})}

DeploySymmetry == Permutations(Deploys)
=============================================================================
