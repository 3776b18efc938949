# Verification of ecs-deploy

ecs-deploy is a REST server in Go that deploys services on Amazon ECS, keeps a
row per deployment in DynamoDB, scales ECS clusters, and has a command line
client and a web application. This directory holds TLA+ models of it, the
configurations with which TLC checks them, and proofs checked by TLAPS.

Everything below that says "the code" means the sources in `src/`; every
definition of a module names the lines it stands for in `PROJECT.json` ("map").

## 1. Inventory

| component | state it keeps | operations | who else touches that state |
|---|---|---|---|
| deployments (`api/controller.go`, `service/service.go`, `provider/ecs/ecs.go`) | one DynamoDB row per deployment (status, version, desired count, manual tasks), the ECS service | `Deploy`, `LaunchWaitUntilServicesStable`, `Rollback`, `scaleService`, `runTask`, `Resume` | concurrent requests, a goroutine per deployment, a second server while ecs-deploy deploys itself |
| service registry (`service/service.go`, `api/migration.go`) | the single item `__SERVICES`: services with cluster, limits, listeners; API version; item version | `CreateService`, `UpdateServiceLimits`, `UpdateServiceListeners`, `InitDB`, `GetApiVersion`, `SetApiVersion`, `Migration.run` | deploys of all services, every starting server |
| cluster autoscaling (`api/autoscaling.go`, `provider/ecs/autoscaling.go`) | `__CLUSTERS` records (free resources, scaling operation, pending operation), a cache, two mutexes, the desired capacity of the Auto Scaling group | `processEcsMessage`, `launchProcessPendingScalingOp`, `scaleUpDecision`, `scaleDownDecision`, `processLifecycleMessage` | messages of all clusters, goroutines per pending operation, other servers |
| polling lock (`service/service.go`) | the item `__AUTOSCALINGPULL` with a timestamp | `AutoscalingPullInit`, `AutoscalingPullAcquireLock` | every server |
| node drain (`provider/ecs/ecs.go`) | container instances, lifecycle hooks | `DrainNode`, `LaunchWaitForDrainedNode` | lifecycle messages, `Resume` |
| load balancer rules (`provider/ecs/alb.go`, `api/controller.go`) | rules and priorities of the listeners | `createRulesForTarget`, `deleteRulesForTarget`, `GetHighestRule` | concurrent deploys on one load balancer |
| service autoscaling (`api/controller.go`) | scaling policies, alarms, their names in the last deployment's row | `putServiceAutoscaling`, `deleteServiceAutoscaling*` | deploys, scaling |
| ecs-client (`cmd/ecs-client/main.go`) | deployments it waits for | `waitForDeploy` | - |
| bootstrap, cluster deletion | none of its own | linear scripts of AWS calls | - |
| api, SAML, sessions, export, parameter store, ECR, IAM, App Mesh, notifications, web application | none shared, or none | wrappers, decoding and formatting | - |

How they interact: an HTTP request runs `Deploy`, which registers the service
in the registry, changes ECS and the load balancer, writes a deployment row and
starts a goroutine. The goroutine polls ECS, writes the outcome and may roll
back. Scaling and manual tasks write to the same newest row. Cluster autoscaling
reads the registry's limits and asks whether any deployment runs before it
scales down. A starting server migrates the registry, restarts the goroutines of
running deployments and of draining nodes, and only then serves requests. All
coordination between requests and servers goes through conditional puts on a
`Version` attribute; there is no lock.

What is hard: the version of a row is compared but the error of a refused put
is often ignored; rows are read long before they are written; the rollout is
observed by two calls; a server may end anywhere and two may overlap. The list
with lines is "hazards" in `PROJECT.json`.

What makes each component correct:

- deployments: an outcome is written once and never rewritten; "success" is
  only said of a version ECS reported stable; a rollback goes to a version that
  worked; a task reported as started stays recorded; every deployment gets an
  outcome.
- service registry: no entry is lost; one write concerns one service; a
  registered service is in the registry after its deployment; the migration is
  complete when the API version says so; a starting server comes up unless
  something obstructs every start.
- cluster autoscaling: a group stays in its bounds; instances are removed one at a
  time, with a distance, each on a decision of its own and on recent data; no
  goroutine keeps a mutex.
- polling lock: at most one server looks, somebody always does again, and an event
  is scaled for once.
- node drain: a node is only let go when it is empty or the wait is over, nobody
  forgets one, and its lifecycle action ends.
- load balancer rules: a service has the rules of its last deployment and no
  others, the longer path first; the rules of others stay, and the redirects of a
  host that all its users redirect.
- service autoscaling: a policy that was confirmed stays until it is deleted, listed
  in the newest row as long as deploys can read the one before, and is gone when it
  is deleted.
- ecs-client: it reports the outcome of the deployment it started, and exit code 0
  means that everything sent was deployed.

## 2. Plan

In order of importance; the modules of one line belong together, the abstract
one is named last.

| modules | state |
|---|---|
| `DeploymentRecords` (pure), `Deployments`, `MCDeployments`, `DeploymentsProofs`; `DeploymentLifecycle` | done, proved but for liveness |
| `ServiceRegistry`, `MCServiceRegistry`, `ServiceRegistryProofs`; `RegistryEntries` | done, proved but for liveness |
| `ScalingDecision` (pure), `ClusterScaling`, `MCClusterScaling`, `ClusterScalingProofs` | done, proved |
| `NodeDrain`, `NodeDrainProofs` | done, proved but for liveness |
| `Polling`, `PollingProofs` | done, proved but for liveness |
| `LoadBalancerRules`, `MCLoadBalancerRules`, `LoadBalancerRulesProofs` | done, proved |
| `ServiceAutoscaling`, `MCServiceAutoscaling`, `ServiceAutoscalingProofs` | done, proved |
| `EcsClient`, `MCEcsClient`, `EcsClientProofs`; composes `DeploymentLifecycle` | done, proved |

Every safety property of the runs is proved, some under hypotheses (section 6). What
a proof could still add: `DownsApart` across a restart, for a cooldown as long as the
period and one cluster, which the run checks; and `DownWhenSpare` with draining
instances, for a period longer than the cache age.

Composition: modules meet at the abstract specifications. `Deployments` is proved
to implement `DeploymentLifecycle`, and `EcsClient` takes its steps on the rows
from that module (`Lifecycle!Start`, `Lifecycle!Finish`): what the client reads is
what any implementation of it may show. `ServiceRegistry` is proved to implement
`RegistryEntries`. `ClusterScaling` reads of deployments only whether one runs,
and of the registry only the reservations, a constant; `NodeDrain` and
`ClusterScaling` share the status of an instance, which each drives in its own
way; `ServiceAutoscaling` writes the rows of `Deployments` and knows of the other
writers only the fields that they share with it.

## 3. Modules and code

### Deployments

One ECS service and the requests for it. `Requests` are calls of
`Controller.Deploy`; a request registers one task definition and writes at most
one row, so it names both. `Scalers` are calls of `scaleService`,
`TaskRunners` calls of `runTask`, `Servers` the processes.

| variable | code |
|---|---|
| `table[r]` | the DynamoDB row of request `r`: `DynamoDeployment` without its deploy data, which is a function of `r` |
| `clock` | `time.Now()`, as the order of the range key `Time` |
| `handler[r]` | the goroutine of the HTTP request in `Deploy`, its `ddLast` and the row it is about to put |
| `waiter[s][r]` | `LaunchWaitUntilServicesStable` on server `s` with its copy `dd` |
| `writer[w]` | the goroutine of a `scaleService` or `runTask` request and its copy |
| `ecs` | the ECS service (external): primary task definition, deployments being drained, desired count |
| `proven` | history: task definitions ECS reported stable |
| `up`, `crashes`, `faults` | which servers run, and the bounds used up |

Every call that others can see is an action: the read of the last row, each ECS
call of `updateDeployment` (update, or scale to zero, delete, wait, recreate),
the abort, `NewDeployment` in two steps (read the last row, put), the wait, the
description, the status, the search and the update of a rollback. A failing
call is an action of its own (`HandlerFails`, `WaiterFails`, `WriterFails`); a
lost answer, where the write has happened, is a disjunct of the write. What
the code ignores, the model ignores: the error of `updateDeployment` is logged,
those of the final status, of scaling and of the rollback are dropped.
`Resume` is one action, since the server does not serve before it has ended.

`DeploymentLifecycle` says what readers rely on: a deployment goes from running
to one outcome and stays there.

### ServiceRegistry

All services, since they share one item. The item keeps its version, its API
version and one entry per service; an entry is a cluster, limits and listeners.
Limits, clusters and listeners are values that are equal or not.

| variable | code |
|---|---|
| `item` | `DynamoServices`, hash key `__SERVICES` |
| `last[v]` | the newest deployment row of service `v`, as `GetLastDeploy` finds it |
| `running` | services that exist in ECS (external) |
| `handler[r]` | a request in `Deploy`: `checkAndCreateServiceInDynamo`, `CreateService` and its tries, the two updates of `updateDeployment` |
| `starter[s]` | `Resume`: `GetApiVersion`, `InitDB`, `Migration.run`, `SetApiVersion`, and the rest as one step (`ResumeWork`) |

`Databases` are the tables a run starts with: none, one of an old API version or a
current one; `Bare` are the clusters that have no instances. `ResumeWork` ends the
start with an error when a registered service is in such a cluster
(`api/controller.go:1001`); `Deployments`, `NodeDrain` and `ClusterScaling` have what
it does otherwise.

Each read and each conditional put of the item is a step, so any number of
writers may read before one of them writes. `RegistryEntries` says what readers
rely on: entries appear or change one at a time and none disappears.

### ScalingDecision and ClusterScaling

`ScalingDecision` is `scaleUpDecision` and `scaleDownDecision` over a list of
instances, with their zones, clusters and statuses. `ClusterScaling` is the
webhook handler (`processEcsMessage`), the goroutine of a pending operation
(`launchProcessPendingScalingOp`, with and without its mutex) and the server.

| variable | code |
|---|---|
| `load`, `busy` | what ECS reports of the instances, and whether a deployment runs (external) |
| `capacity[c]` | desired capacity of the Auto Scaling group (external) |
| `info` | the newest `__CLUSTERS` record, of whichever cluster, with its age |
| `activity` | the scaling operations of the records, as far back as a cooldown looks |
| `handler[h]` | a request in `processEcsMessage` or `processLifecycleMessage` |
| `op[g]`, `lock[o]` | the goroutines, those launched by a handler and those launched by `Resume`, and `muUp`, `muDown` |
| `sinceSpare`, `sinceDown`, `decided` | history for the properties |

Time is in minutes, since periods, cooldowns and the cache are; everything of one
minute happens in any order before `Tick`. Reading and writing the capacity are
two steps, and so are a decision and its record. A failing call, a lost answer
and the end of the server are steps of their own.

### NodeDrain

The lifecycle action of an instance: the message (which SNS repeats when it gets
no answer), the handler, `DrainNode`, the goroutine `LaunchWaitForDrainedNode` and
the loop over draining instances in `Resume`. ECS may stop tasks or not; the
heartbeat of the hook, and an operator who drains by hand, are external actions.
The heartbeat is a step that may happen or not, and no fairness is assumed of it,
so `Terminated` does not lean on it.

### Polling

The loop of `startAutoscalingPollingStrategy` on every server, with
`AutoscalingPullInit` and `AutoscalingPullAcquireLock`. `Lease` ticks are a minute,
`MaxWork` what a check takes at most; `age` is the time since the lease was taken,
`left` what a server still sleeps. A server keeps `lastChecked` as the number of
events it does not look at any more, and its counter of services without a task.

### LoadBalancerRules

A Deploy handler as far as the load balancer goes: a new service (target group,
service, rules), a change of conditions (the rules are deleted one by one, then
created with priorities above the highest), a change of load balancer (everything
deleted and created again), the redirects to https, and the row at the end, which
is written whatever failed. Each call is a step. A condition is a value with a
length, listeners, perhaps a Cognito client, and a `Place`, the path and host that
its rules match. Rules of a service are found by its target group; a redirect has
none and is found by its place (`FindRule`), so a deploy takes any redirect of the
host, whichever condition or service it was created for.

### ServiceAutoscaling

`putServiceAutoscaling`, `deleteServiceAutoscalingPolicy` and
`deleteServiceAutoscaling`, call by call, with the copy of the row that they read
first and the conditional put at their end; and the other writers of the row: a
deploy, which carries the names over (or drops them when its read fails), scaling
and the outcome of a deployment. `rows` are the rows of one service, `target`,
`policies` and `alarms` what AWS holds; `promised` are the policies a request was
answered OK for, `unlisted` those whose names a deploy has dropped since.

### EcsClient

`deploy` of the client and `deployServicesHandler` of the server. Files are read
in the order of a Go map; the server deploys one service after the other and
collects messages and errors; the client then keeps a status by service name and
asks in rounds. A call may fail, or be answered with status 200 and an error.
`MaxServices` bounds the services of one request; in the run it is the number of
services in all files, so that it cuts nothing off.

## 4. Runs

A mutant of every property of a passing run is in `PROJECT.json`: a plausible bug
of a mapped definition that violates it under the same configuration.

| run | instance | shows |
|---|---|---|
| `deploy_concurrent` | 3 requests, one of them with another load balancer, one unhealthy, 1 server | a deployment is recorded as successful, or rolled back to, only if it was stable |
| `deploy_faults` | 2 requests, a scaling request, a manual task, a crash, a failing call or lost answer | no writer holds a copy that equals the row in version and not in content; a reported task stays recorded; an outcome is written once |
| `deploy_settles` | 2 requests, 2 servers, a crash, fair goroutines and restarts | every deployment gets an outcome |
| `registry_writers` | an old table with 2 services, 2 first deploys in different clusters, one service deployed again, 1 server, 2 crashes | old copies are never put back, no entry is lost; the API version is raised only when every service has its limits; four tries are enough for the writers there are |
| `registry_first_start` | 2 requests for one service in 2 clusters, one without instances, 2 servers on an empty, an old or a current table, a crash and a fault, fair starts | every server comes up unless a start is obstructed |
| `cluster_scaling` | 1 cluster, 2 instances idle or full, 2 messages at once, 2 goroutines and those of a restart, both strategies, one drain, crash or fault | bounds, mutexes, distance of removals, a decision for each, on recent data |
| `two_clusters` | 2 clusters, one always idle, the other idle or full | (finding) an instance of a full cluster is removed |
| `node_drain` | 1 instance, 2 servers, 2 goroutines, 2 polls, 2 crashes, a fault, a duplicate | nobody forgets the instance; it is let go empty or after the wait; and it is let go |
| `polling` | 2 servers, 2 ticks a minute, a check of up to 1, 1 event, a crash, a fault | checks never overlap, follow each other within a minute, an event counts once, and looking never ends |
| `load_balancer_rules` | 3 deploys, 2 at once, 2 services, 2 load balancers, 5 requests over 4 conditions, two of them for one host, a fault | rules as deployed, order, priorities, redirects |
| `service_autoscaling` | 4 requests of 6 kinds, 2 at once, 2 policies, a fault | confirmed policies stay, listed while deploys can read the row; deleted ones are gone |
| `ecs_client` | 3 files with a name that repeats, 5 rounds, 2 failing calls | exit code 0, the printed outcomes, and the end of the rounds |

Bounds. In `Deployments`, two overlapping requests, one scaling request, one
manual task and a goroutine are every pair of writers of a row, and a third
request gives a rollback a row that is neither the newest nor its own. In the
registry, first deploys and a second deploy of a service with new limits and
listeners distinguish "my entry" from "the entries of others", and their four puts
are as many as `Attempts = 4`, which is the code's, allows. `MaxVersion` only bounds starts
that are in vain: an obstructed server would be started, and may write, for ever. With
two servers on an old table `UpToDateCopies` and `EntriesSpec` are not run but
proved. `MaxCrashes` and `MaxFaults` are one or two: a further fault of the same
kind is a repetition, and the proofs hold for any number. `MaxRunning` is two in
`load_balancer_rules` and `service_autoscaling`: any two handlers may overlap in any
way, and earlier ones leave what they leave. `CHECK_DEADLOCK FALSE`: a finite set
of requests ends, and then nothing happens; in the code the server waits for the
next one. `ResumeLimit` is 20, as in the code, and cannot be reached by two
requests: that a running deployment may be the 21st row of the day is a limit of
`Resume` that `DeploysSettle` does not show. Symmetry is used between requests,
handlers, goroutines or instances that are alike, and never in a run with a
liveness property.

Minutes of `ClusterScaling`: the defaults are a cooldown of 5, periods of 5 down
and 2 up and a cache of 4. `cluster_scaling` has a cooldown of 2, periods of 2 and
1 and a cache of 1. What matters is kept: the cache is shorter than the cooldowns
and than the period of scaling down, so that a pending operation outlives the
record it rests on, and a record of an up may be reused by the next message. The
period of scaling up is not longer than the cache, as in the code, where both
checks of an up may look at the same data. Polls of a drain are 2 for 80: the
first that is not the last, and the last. `Lease = 2`, `MaxWork = 1` has a check
that takes no time, one that takes some, and a server that tries in between.

### Disagreement of the code with its documentation

`two_clusters` expects the violation of `DownWhenSpare`, which holds of one
cluster. `src/README.md:150` says that scaling down is triggered "when there is
enough capacity available on the cluster to remove an instance". `GetClusterInfo`
returns the newest record whichever cluster it was written for
(`service/service.go:611`), and a list without an instance of the cluster has no
zone that speaks against scaling down. A pending operation of a cluster that has
become full is carried out as long as the records of an idle cluster, which have
the same `PendingAction`, are the newest at each check.

### Steps of the models that a reader may not expect

These are what the code does, and steps of the models; no run is spent on them.

Deployments
- A scaling request during a rollout raises the version of the row, the put of the
  outcome is refused and its error ignored: the row stays running until the next
  start (`provider/ecs/ecs.go:1167`).
- Two overlapping requests both read the last row before either writes: neither
  aborts the other, and the older is left running (`api/controller.go:162`).
- After two failures in a row the rollback gives up although a stable version
  exists, since the older rows are read into a variable that shadows the one
  searched (`ecs.go:1187`); a goroutine started by `Resume` has no cluster name and
  rolls back nothing (`controller.go:914`).
- `UpdateService` never sends the desired count of a deploy, against "update
  desired instance in case of difference" (`controller.go:128`).

Registry
- The put of the first record is unconditional: a second first start erases the
  entries written since (`service.go:121`).
- `CreateService` returns nil after four refused puts; `UpdateServiceLimits` has one
  try whose error is dropped; "Updated API version to" is logged also when
  `SetApiVersion` was refused.
- On an old table every start fails at a registered service that has no deployment
  (`migration.go:43-46`): one whose first deploy ended after the registration, or runs
  meanwhile on the other server. Every start fails, on any table, at a service whose
  cluster has no instances (`controller.go:1001`). `ServerComesUp` excepts the two
  (`Obstructed`), and nothing else.

Cluster autoscaling
- The immediate strategy leaves no record, so the cooldown does not hold it back; a
  pending up hides a later operation from `GetScalingActivity`.
- A lifecycle message replaces the record by one without a pending operation, and
  gives an old list a new date, whatever its age: for the cache time decisions then rest
  on reports from before. With the defaults that is over before a removal, since the
  period (5 minutes) is longer than the cache time (4).
- `ScaleClusterNodes` may lose an update; when the put after it fails, a queued or
  resumed goroutine removes a second instance without a new decision, which is why
  `EveryDownDecided` is stated without faults.
- With two clusters it does so without any fault: the pending "down" that a goroutine
  finds may be of the other cluster's record.
- A goroutine started by `Resume` takes no mutex. After a restart it may scale down
  beside a new one: within the period when the cooldown is shorter than it, or when
  the answer of `SetDesiredCapacity` was lost, or when the newest record is of
  another cluster. With the constants of the run (cooldown = period, one cluster, a
  crash or a lost answer) it cannot.

Drain and polling
- The webhook answers 200 also to an error, so SNS does not repeat the message; a
  failed describe ends the wait for good; an error of `GetLifecycleHookNames` lets
  the server start without looking for draining instances. `NoneForgotten` and
  `Terminated` are therefore stated without faults.
- Without a `__CLUSTERS` record a server that polls dereferences nil after it has
  scaled up, and ends (`api/autoscaling.go:613`). `lastChecked` is kept by each server
  for itself: a second server scales again for what the first has seen. The
  fallback of the fifth time happens once and never again while the counter is
  above it.
- A server whose `AutoscalingPullInit` failed while there is no row never gets the
  lease, unless another one creates the row.

Load balancer
- The error of `updateDeployment` is only logged and the row written
  (`controller.go:143`): a deploy that failed half way through its rules is repeated
  without effect, since the conditions do not differ any more. `RulesAsDeployed` is
  stated for services whose recreation was not disturbed.
- Two deploys take the same priorities, and one is refused; errors of deleting a
  rule are ignored; the rules of a failed move stay on the new load balancer; the
  registry does not learn of new listeners when only conditions change.
- A deploy of a service that authenticates a host on https alone deletes a redirect of
  that host, found by path and host (`alb.go:743-757`), and creates none: another
  service of the same host, which asked for http as well, has its redirect no more.
  With such a condition in the instance TLC finds it in 17 steps, without a fault or
  an overlap; `RedirectsStay` is therefore stated for hosts where nobody does that
  (`Redirecting`).

Service autoscaling
- A PUT that changes limits only is not written to the row. Two overlapping PUTs
  lose names; a deletion that overlaps a deploy or a PUT brings names back. The
  properties are stated for requests that were not overlapped by one that disturbs
  (`alone`), while deploys, scaling and outcomes of deployments overlap PUTs freely.
- Deregistering the target takes all policies of the service with it, also those
  that a deletion has not listed because a PUT added them meanwhile. It takes five
  requests to lose a confirmed policy that way, more than the run has: the proof
  found it. `promised` therefore counts a `DELETE` as taking every policy that is
  there at its end.
- `NewDeployment` takes an error of `GetLastDeploy` for a first deployment and writes a
  row without names (`service.go:254-256`). Policies and alarms stay in AWS and go on
  scaling; `getServiceAutoscaling` does not show them, and a PUT of a policy lists
  that one again. `KeptPolicies` says that they stay, and excepts them from what is
  listed (`unlisted`).

Client
- A file that cannot be parsed ends the loop without an error: what a map happened
  to give before is deployed, and the exit code may be 0.
- With a name that repeats, only the first deployment of the name is waited for;
  `OkMeansDeployed` says no more than that.

## 5. Fairness

`deploy_settles`: weak fairness of each goroutine's steps (`Wait`) and of
`Resume`. A goroutine of a running process runs; the waiters of the SDK make a
bounded number of polls, so "wait" ends with a timeout if not with success, and
the model lets it end at any time. A server that ended is started again because
ecs-deploy is itself an ECS service. Nothing is assumed of ECS, of the health of
tasks or of the handlers: a deployment settles also when the service never
becomes stable. The run has no failing calls and no other writer of the row, since
an ignored error leaves a deployment running until the next start.

`registry_first_start`: weak fairness of `Start(s)`, for the same reason. The
requests of the other server may interfere at any time. `Launch` is bounded, by
`MaxVersion`, only while a start is obstructed, where nothing is claimed.

`node_drain`: weak fairness of each handler, of each server's start (`Run`) and of
each goroutine (`Wait`), and of the delivery of a message by SNS, which repeats it
until some server answers. None of the heartbeat and of tasks that stop: a task
may run for ever, and then the wait ends.

`polling`: weak fairness of each server's loop and of time. Nothing else is
needed: the lease expires by time, and a server that lost it tries every minute.

The other specifications have no fairness and no liveness property.

## 6. Proofs

Everything in this section holds for every value of the constants: any number of
requests, services, servers and writers, any bounds. The assumptions are those
the modules name: that the sets of requests and tasks are disjoint, that `None` is
none of the values, that functions have their types, that an empty table has no
deployments, and that a check of the polling loop takes less than a minute; a theorem
that has a hypothesis of its own is given with it.

`DeploymentsProofs`:

- `TypeCorrect`: `Spec => []TypeOK`.
- `InvCorrect`: the inductive invariant `IInv`. `SuccessWasStable` is not
  inductive: a goroutine reads "stable" and the task definition in two calls,
  and what it saw stable may be another version. The argument is `StableSeen`:
  if a goroutine saw the service stable and its version is not proven, that
  version does not run, and cannot begin to run before the description. Only its
  own request (over, since its row exists: `HandlersInv`) or a rollback to it
  (which needs it to be successful, so proven: `WaitersInv`) could put it there.
- `OptimisticLock`: `CopiesCoherent`, from the invariant: every conditional put
  raises the version of one row (`LEMMA ConditionalPut`), so copies fall behind
  and never diverge.
- `NoFalseSuccess`, `RollbackSound`: `SuccessWasStable`, `RollbackGoesToStable`.
- `TasksRecorded`: `ReportedTasksRecorded`. A put that succeeds comes from a copy of
  the version it replaces, so by `CopiesCoherent` the new row lists at least the tasks
  of the old one (`TasksStay`), whoever writes it and for whatever reason.
- `LifecycleImplemented`: `Spec => LifecycleSpec`. A put of an outcome comes from a
  copy whose status was running; by `CopiesCoherent` the copy that matches in
  version is the row, so the row was running.

`ServiceRegistryProofs`:

- `TypesPrepared`, `TypeCorrect`: types, and that a writer about to put its copy
  back knows the entry it changes to be there.
- `CopiesUpToDate`: a copy of the item is the item, or older. The invariant adds
  `FirstWrite`: before the item exists nobody holds a copy or serves, and only a
  server that found no item writes the first one.
- `EntriesImplemented`: `Spec => EntriesSpec`. A copy that matches in version is the
  item, so a put changes the entry of one service.

The last two have the hypothesis `OneFirstStart`: the table is not empty, or there
is one server. Without it they are false, since the first record is put without a
condition.

- `MigrationComplete`: `MigratedCompletely` of one server. Until it has raised the API
  version it does not serve, so nobody else writes, each of its copies is the item, and
  a service not yet migrated is still in its list (`Migration`). Without the hypotheses
  it is false: a failed put of the limits is ignored and the version raised all the
  same, and two servers refuse each other's puts.
- `ServicesRegistered`: `CreatedInDynamo` counts. A refused put means that somebody
  else has raised the version since the copy was read, so after `tries` refusals the
  copy is that much newer than the item was when the request looked (`Counting`). While
  fewer than `Attempts` writes fall into that time (`Calm`) no request runs out of
  tries. Without a bound on the other writers it may, and then reports success;
  and a failed read of the item counts as an entry that exists, hence no failing call.

`NodeDrainProofs`:

- `TypeCorrect`, `NobodyForgets`: `NoneForgotten` is not inductive. A server that
  starts looks after the instances it has found to drain, so the invariant says
  that those it has found do drain, that a goroutine's instance drains and that a
  handler about to launch one has drained it (`FoundOK`, `WaiterOK`, `HandlerOK`).
- `LetsGoOfEmpty`: `EmptyOrWaited`. A goroutine that completes the action has seen
  the instance empty or has used up its polls; an instance that drains and is empty
  stays empty, because ECS places no task on it.

`PollingProofs`:

- `TypeCorrect`, `MutualExclusion`: while a server is at work the age of the lease is
  the time it has worked, less than the lease, so nobody else gets it (`LoopOK`).
- `LookedEveryMinute`: the age of the lease is tied to what its holder still sleeps
  (`LeaseAt`).
- `OnceOnly`: what a server has scaled for is not after its `lastChecked`, or is part
  of the check that it is still at (`EventsOK`).

`EcsClientProofs`:

- `TypeCorrect`: the answer lists deployments of the request only.
- `ReportsTheOutcome`: `Reported`. The server goes through the list in order, and a
  deployment that another one of the same service follows is over when that begins
  (`ServerOK`). In a round the client asks in the same order, and finds the first
  deployment of a repeated name over, so it never asks for the second (`PollOK`).
- `OkIsDeployed`: `OkMeansDeployed`. What the client knows of a service agrees with
  the answer, whichever rounds and calls were lost (`Knows`), an answer without
  errors lists the whole request, and an outcome that is known is final.
- `RoundsEnd`: `StopsWhenSettled`. The number of finished services the client keeps is
  the number of those it has an outcome of (`Counted`). In a round begun when every
  deployment was over, each service without an outcome has a deployment that is still to
  be asked for in this round (`LastRound`), so at its end none is left, unless a call
  failed.

`ClusterScalingProofs`:

- `TypeCorrect`, `BoundsKept`, `LocksReleased`: what a handler or a goroutine has read
  of the capacity leaves room for its step (`HandlerOK`, `OpOK`), whatever others
  write in between; a mutex is held by the one goroutine past its lock.
- `RemovalsApart`: `DownsApart` of a server that does not restart. The time since the
  last removal and what a waiting goroutine has left add up to the period (`Rested`),
  and removals reset the time under `muDown` only.
- `RemovalsDecided`: `EveryDownDecided` of one cluster. A record that still asks for a
  removal although none was decided since the last is one whose goroutine is about
  to write the next record, under `muDown` (`Undecided`). The hypotheses of the two
  are needed: section 4 says what happens without.
- `RemovalsFounded`: `DownWhenSpare` of one cluster, for a cooldown not shorter than the
  cache age (the defaults are 5 and 4 minutes), as long as no instance is marked as
  draining and the server does not restart. The newest record that asks for a removal
  is as old as the report that led to it, or younger than the cache and then the
  report is no older (`Founded`). A list from the cache cannot lead to another
  such record: the record it is taken from is among the recent operations (`Traced`), so the
  cooldown stops the decision. TLC refutes the property with a shorter cooldown, and
  with a mark and a period shorter than the cache age: the mark puts an old
  list again as a new one.

`ServiceAutoscalingProofs`:

- `TypeCorrect`, `PromisesKept`, `DeletionsStay`: two requests that disturb each other
  never both take themselves for alone, and what one that is alone has read is the
  last row still (`AloneOK`); a row with the version a writer has read is the row it
  has read (`CopyOK`); what is listed or will be is there, or known to be broken
  (`ListedOK`); nobody is about to list less than is promised (`PromisedOK`), or has
  read anything from before a deletion (`DeletedOK`). A failed read of the last row
  moves names to `unlisted` and takes nothing from `promised`.

`LoadBalancerRulesProofs`, by an invariant in three parts:

- `Shape`: types, where a deploy of each kind may be, that a group and its rules
  appear with their creator, and that the rules of a deploy have lower priorities than the
  one it is at, except on the listeners it has done. `TypeCorrect` and
  `PrioritiesDistinct` follow: a priority that is refused was taken by another request.
  That two requests compute the same one is a step of the model, and AWS's refusal
  keeps the priorities of a listener apart.
- `Service`: what the calls of an undisturbed request have come to at each place in
  `updateDeployment`, and what they leave when it is over. `DeploymentServed` and
  `LongerPathsFirst` follow. Others may create and delete rules on the same load balancer
  all the time, and leave those of this service alone but for redirects.
- `Redirected`: `HostsRedirected` (`RedirectsStay`) is no invariant of one service, since
  a deploy deletes any one redirect of a host it shares. The invariant counts: there are
  at least as many redirects of a host as services that need one and have not deleted
  one (`Owing`). A deploy that deletes one has a rule that authenticates the host, so,
  on a host of `Redirecting`, it is one of those services (`SameHost`). Each step
  changes both numbers by at most one, so the proof needs no induction.

Left to TLC:

- Liveness (`DeploysSettle`, `ServerComesUp`, `Terminated`, `Polled`), which the prover
  cannot do.
- The properties that are proved under a hypothesis, where the run goes without it:
  `DownsApart` after a restart, `DownWhenSpare` with draining instances and restarts
  (with the constants of the run).
- The sums of `ScalingDecision` (a zone's free capacity): what a fold computes is an
  induction over data. The proofs do not depend on it; they hold whichever
  instance the decision takes for a spare one.

## 7. What is not modelled

- Deploy data, container definitions, IAM, secrets, the calls that only
  concern a health check, and the text of reasons: they decide only whether a request goes on or fails, which is
  a choice of the model.
- `initService`: it is called when a deploy finds no item, and a server serves
  deploys only after its start has written it; items are never deleted.
- The `time.Sleep`s of the migration, log lines, notifications.
- The Go router recovers from a nil dereference in `SetScalingProperty` (scaling a
  service that was never deployed); it is the end of that request.
- The `running` set of the registry keeps a service that is being recreated for
  another load balancer: `ServiceExists` would see it as inactive for a while, and
  a concurrent deploy would create it; `Deployments` models that race.
- An old table with an entry that has no deployment as the initial state of a run. The
  deploys of `registry_first_start` bring it about, and `Obstructed` names it.
- Two servers that migrate at once may each be refused a put; then a service may
  keep its old entry although the version is raised. `MigratedCompletely` is
  checked with one server, and proved of one.
- Rules that do not fit a page of `DescribeRules`: `GetRulesForAllListeners` reads the
  first page only. A load balancer with several listeners of one protocol.
- The registration and deregistration of instances by Auto Scaling: `capacity` is
  what was asked for, and `load` what ECS reports, with no relation between them.
- The numbers of a scaling policy (adjustment, thresholds, periods).
- Bootstrap and cluster deletion: scripts of AWS calls run once by hand, without
  retry, rollback or state of their own.
- API routing, JWT, SAML and sessions; export and templates; the wrappers of the
  parameter store, ECR, IAM, App Mesh, service discovery, SNS and marketplace;
  notifications; the web application; static files; Terraform. They keep no state
  that two actors share, or render text.
