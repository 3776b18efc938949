------------------------- MODULE MCServiceRegistry -------------------------
(***************************************************************************)
(* Small instances of ServiceRegistry for TLC.                             *)
(***************************************************************************)
EXTENDS ServiceRegistry, TLC

CONSTANTS r1, r2, r3, r4, r5, a, b, c, d

\* Two first deploys of a, with different limits, load balancers and clusters.
OneService == [r \in Requests |-> a]
\* First deploys of a and b while c, deployed before by r4, is deployed again;
\* d, deployed before, is only migrated.
OneAgain == [r \in Requests |-> CASE r = r1 -> a [] r = r2 -> b
                                   [] r \in {r3, r4} -> c [] OTHER -> d]
\* The second is for another cluster.
TwoClusters == [r \in Requests |-> IF r = r2 THEN "c2" ELSE "c1"]
SecondDiffers == [r \in Requests |-> IF r \in {r2, r3} THEN "second" ELSE "first"]
=============================================================================
