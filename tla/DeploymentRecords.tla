------------------------- MODULE DeploymentRecords -------------------------
(***************************************************************************)
(* The deployment rows of one service, as service/service.go keeps them in *)
(* DynamoDB: hash key ServiceName, range key Time, guarded by an optimistic *)
(* Version.  The operators here are pure; Deployments.tla gives them a      *)
(* table and the processes that read and write it.                         *)
(***************************************************************************)
EXTENDS Naturals, FiniteSets

CONSTANTS
  Requests,    \* deploy requests of the service; one registers one task definition
  TaskRunners, \* runTask requests; one starts one task
  None         \* no task definition

ASSUME NoneAssumption == None \notin Requests

Terminal == {"success", "failed", "aborted"}
Status == {"none", "running"} \cup Terminal

\* A row.  td names its task definition and, since a request writes at most
\* one row, its key as well.  desired is Scaling.DesiredCount, tasks is
\* ManualTasksArns.  DeployData is a function of td and is not repeated.
Row == [td : Requests \cup {None}, status : Status, version : Nat, time : Nat,
        desired : Nat, tasks : SUBSET TaskRunners]

NoRow == [td |-> None, status |-> "none", version |-> 0, time |-> 0,
          desired |-> 0, tasks |-> {}]

Written(table) == {r \in Requests : table[r].status # "none"}

\* GetDeploys, GetLastDeploy: descending by Time, so the n-th newest row is
\* the one with n - 1 newer rows.
Newer(table, r) == {q \in Written(table) : table[q].time > table[r].time}
NthNewest(table, n) == {r \in Written(table) : Cardinality(Newer(table, r)) = n - 1}

Newest(table) == {r \in Written(table) : Newer(table, r) = {}}
LastDeploy(table) ==
  IF Newest(table) = {} THEN NoRow ELSE table[CHOOSE r \in Newest(table) : TRUE]

\* util.Max
Larger(a, b) == IF a >= b THEN a ELSE b

\* Mutated form: a new row without a status.
NewRowWithoutStatus(r, now, last, wanted) ==
  [td |-> r, status |-> "", version |-> 1, time |-> now,
   desired |-> Larger(wanted, last.desired), tasks |-> {}]

\* NewDeployment: the row a request is about to put, given the last deployment.
NewRow(r, now, last, wanted) ==
  [td |-> r, status |-> "running", version |-> 1, time |-> now,
   desired |-> Larger(wanted, last.desired), tasks |-> {}]

\* Mutated form: a Put without its condition.
MatchesAlways(table, copy) == copy.td \in DOMAIN table

\* The condition of every later Put: If("$ = ?", "Version", dd.Version - 1),
\* with dd.Version already incremented, so copy is the row as it was read.
Matches(table, copy) == table[copy.td].version = copy.version

\* A copy read earlier: the stored row itself, or a row with a lower version.
UpToDateOrBehind(table, copy) ==
  \/ copy = NoRow
  \/ copy.td \in Requests /\ (copy = table[copy.td] \/ copy.version < table[copy.td].version)

\* Mutated form: the version is not incremented.
NotBumped(copy) == copy

\* Put(dd) of a modified copy, whose version the caller has incremented.
Bumped(copy) == [copy EXCEPT !.version = @ + 1]
Stored(table, row) == [table EXCEPT ![row.td] = row]
=============================================================================
