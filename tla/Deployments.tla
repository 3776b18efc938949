---------------------------- MODULE Deployments ----------------------------
(***************************************************************************)
(* Deploying one ECS service: the Deploy handler, the goroutine that waits *)
(* for the rollout and rolls back, the handlers that change the last row   *)
(* meanwhile (scaleService, runTask), and the server that runs them, which *)
(* may crash and resumes on its next start.  Every call that another       *)
(* process can observe is a step of its own.  ECS is external.             *)
(***************************************************************************)
EXTENDS DeploymentRecords

CONSTANTS
  Scalers,        \* scaleService requests
  Servers,        \* ecs-deploy processes; two overlap while it deploys itself
  Wanted,         \* Wanted[r]: DesiredCount of the request's deploy data
  Count,          \* Count[w]: desiredCount of a scaleService request
  LoadBalancer,   \* LoadBalancer[r]: load balancer of the request's deploy data
  Healthy,        \* task definitions whose tasks pass their health checks
  ResumeLimit,    \* GetDeploys("byDay", 20) in Resume
  MaxCrashes,     \* bound: server crashes
  MaxFaults       \* bound: AWS calls that fail, or whose answer is lost

Writers == Scalers \cup TaskRunners

ASSUME ConstantsAssumption ==
  /\ Scalers \cap TaskRunners = {}
  /\ None \notin Servers
  /\ Wanted \in [Requests -> Nat]
  /\ Count \in [Scalers -> Nat]
  /\ Healthy \subseteq Requests
  /\ MaxCrashes \in Nat /\ MaxFaults \in Nat /\ ResumeLimit \in Nat

VARIABLES
  table,    \* table[r]: the row request r has put, or NoRow
  clock,    \* time.Now() of the newest row
  handler,  \* handler[r]: the goroutine serving deploy request r
  waiter,   \* waiter[s][r]: LaunchWaitUntilServicesStable for row r on server s
  writer,   \* writer[w]: the goroutine serving a scaleService or runTask request
  ecs,      \* the ECS service (external)
  proven,   \* history: task definitions ECS has reported stable
  up,       \* up[s]: server s is running
  crashes, faults

vars == <<table, clock, handler, waiter, writer, ecs, proven, up, crashes, faults>>

-----------------------------------------------------------------------------
(* State                                                                   *)

HandlerPc == {"idle", "prepare", "create", "zero", "delete", "inactive", "recreate",
              "update", "abort", "new", "put", "done", "error", "dead"}
Logged == {"zero", "delete", "inactive", "recreate", "update"}  \* errors of updateDeployment
Handler == [pc : HandlerPc, srv : Servers \cup {None}, last : Row, new : Row]
IdleHandler == [pc |-> "idle", srv |-> None, last |-> NoRow, new |-> NoRow]

RollsBack == {"many", "old", "no tasks"}
Verdict == RollsBack \cup {"", "timeout", "success"}
WaiterPc == {"none", "wait", "describe", "set", "secondToLast", "rollback", "done"}
Waiter == [pc : WaiterPc, dd : Row, timedOut : BOOLEAN, verdict : Verdict,
           cluster : BOOLEAN, target : Requests \cup {None}]
NoWaiter == [pc |-> "none", dd |-> NoRow, timedOut |-> FALSE, verdict |-> "",
             cluster |-> FALSE, target |-> None]
DoneWaiter == [NoWaiter EXCEPT !.pc = "done"]

WriterPc == {"idle", "put", "scale", "done", "error", "dead"}
Writer == [pc : WriterPc, srv : Servers \cup {None}, dd : Row]
IdleWriter == [pc |-> "idle", srv |-> None, dd |-> NoRow]

\* The ECS service: state, task definition of its PRIMARY deployment, those of
\* the deployments not drained yet, desired count, and whether the primary runs
\* all its tasks.
Ecs == [state : {"none", "active", "draining"}, td : Requests \cup {None},
        old : SUBSET (Requests \cup {None}), desired : Nat, rolled : BOOLEAN]
NoService == [state |-> "none", td |-> None, old |-> {}, desired |-> 0, rolled |-> FALSE]
Stable == ecs.state = "active" /\ ecs.old = {} /\ ecs.rolled

Init ==
  /\ table = [r \in Requests |-> NoRow]
  /\ clock = 0
  /\ handler = [r \in Requests |-> IdleHandler]
  /\ waiter = [s \in Servers |-> [r \in Requests |-> NoWaiter]]
  /\ writer = [w \in Writers |-> IdleWriter]
  /\ ecs = NoService
  /\ proven = {}
  /\ up = [s \in Servers |-> FALSE]
  /\ crashes = 0
  /\ faults = 0

Set(s, r, w) == waiter' = [waiter EXCEPT ![s][r] = w]

Fault == faults < MaxFaults /\ faults' = faults + 1

-----------------------------------------------------------------------------
(* Calls of the ECS API (external)                                         *)

UpdateTaskDefinition(td) ==
  /\ ecs.state = "active"
  /\ ecs' = IF td = ecs.td THEN ecs
            ELSE [ecs EXCEPT !.td = td, !.old = (@ \cup {ecs.td}) \ {td}, !.rolled = FALSE]

UpdateDesiredCount(n) ==
  /\ ecs.state = "active"
  /\ ecs' = [ecs EXCEPT !.desired = n, !.rolled = @ /\ n = ecs.desired]

CreateService(td) ==
  /\ ecs.state = "none"
  /\ ecs' = [state |-> "active", td |-> td, old |-> {}, desired |-> Wanted[td],
             rolled |-> FALSE]

-----------------------------------------------------------------------------
(* Controller.Deploy                                                       *)

\* A handler that has ended, and a snapshot it has no more use for, are
\* forgotten.
Ended == {"done", "error", "dead"}
Step(r, pc) ==
  [handler EXCEPT ![r] = CASE pc \in Ended -> [IdleHandler EXCEPT !.pc = pc]
                           [] pc = "new" -> [@ EXCEPT !.pc = pc, !.last = NoRow]
                           [] OTHER -> [@ EXCEPT !.pc = pc]]
AfterUpdate(r) == IF handler[r].last.status = "running" THEN "abort" ELSE "new"
HandlerOnly == UNCHANGED <<table, clock, waiter, writer, proven, up, crashes>>

\* GetLastDeploy.
ReadLast(r, s) ==
  /\ up[s] /\ handler[r].pc = "idle"
  /\ handler' = [handler EXCEPT ![r] = [@ EXCEPT !.pc = "prepare", !.srv = s,
                                                 !.last = LastDeploy(table)]]
  /\ UNCHANGED <<ecs, faults>> /\ HandlerOnly

\* Validation, IAM role, secrets, CreateTaskDefinition, ServiceExists, and
\* updateDeployment's test for another load balancer.
Prepare(r) ==
  /\ handler[r].pc = "prepare"
  /\ LET last == handler[r].last
     IN handler' = Step(r, IF ecs.state = "none" THEN "create"
                           ELSE IF last # NoRow /\ LoadBalancer[last.td] # LoadBalancer[r]
                                THEN "zero" ELSE "update")
  /\ UNCHANGED <<ecs, faults>> /\ HandlerOnly

\* createService: an error ends the request.
Create(r) ==
  /\ handler[r].pc = "create"
  /\ \/ CreateService(r) /\ handler' = Step(r, AfterUpdate(r)) /\ UNCHANGED faults
     \/ CreateService(r) /\ handler' = Step(r, "error") /\ Fault   \* services table
     \/ ecs.state # "none" /\ handler' = Step(r, "error") /\ UNCHANGED <<ecs, faults>>
  /\ HandlerOnly

\* updateDeployment without a load balancer change: UpdateService.
Update(r) ==
  /\ handler[r].pc = "update"
  /\ \/ UpdateTaskDefinition(r)
     \/ ecs.state # "active" /\ UNCHANGED ecs
  /\ handler' = Step(r, AfterUpdate(r))
  /\ UNCHANGED faults /\ HandlerOnly

\* updateDeployment with a load balancer change: DeleteService (desired count
\* to zero, then delete), WaitUntilServicesInactive, CreateService.  An error
\* abandons the rest; Deploy only logs it.
ScaleToZero(r) ==
  /\ handler[r].pc = "zero"
  /\ \/ UpdateDesiredCount(0) /\ handler' = Step(r, "delete")
     \/ ecs.state # "active" /\ handler' = Step(r, AfterUpdate(r)) /\ UNCHANGED ecs
  /\ UNCHANGED faults /\ HandlerOnly

DeleteService(r) ==
  /\ handler[r].pc = "delete"
  /\ \/ /\ ecs.state = "active" /\ ecs.desired = 0
        /\ ecs' = [ecs EXCEPT !.state = "draining"]
        /\ handler' = Step(r, "inactive")
     \/ /\ ecs.state # "active" \/ ecs.desired # 0
        /\ handler' = Step(r, AfterUpdate(r)) /\ UNCHANGED ecs
  /\ UNCHANGED faults /\ HandlerOnly

WaitInactive(r) ==
  /\ handler[r].pc = "inactive"
  /\ handler' = Step(r, IF ecs.state = "none" THEN "recreate" ELSE AfterUpdate(r))
  /\ UNCHANGED <<ecs, faults>> /\ HandlerOnly

Recreate(r) ==
  /\ handler[r].pc = "recreate"
  /\ \/ CreateService(r)
     \/ ecs.state # "none" /\ UNCHANGED ecs
  /\ handler' = Step(r, AfterUpdate(r))
  /\ UNCHANGED faults /\ HandlerOnly

\* SetDeploymentStatus(ddLast, "aborted"): the row as it was first read.
Abort(r) ==
  LET last == handler[r].last IN
  /\ handler[r].pc = "abort"
  /\ IF Matches(table, last)
     THEN /\ table' = Stored(table, [Bumped(last) EXCEPT !.status = "aborted"])
          /\ \/ handler' = Step(r, "new") /\ UNCHANGED faults
             \/ handler' = Step(r, "error") /\ Fault           \* the answer is lost
     ELSE handler' = Step(r, "error") /\ UNCHANGED <<table, faults>>
  /\ UNCHANGED <<clock, waiter, writer, ecs, proven, up, crashes>>

\* NewDeployment: time.Now(), then GetLastDeploy, whose error counts as "no
\* deployment yet".
NewDeployment(r) ==
  /\ handler[r].pc = "new"
  /\ clock' = clock + 1
  /\ \E last \in {LastDeploy(table), NoRow} :
       /\ handler' = [handler EXCEPT ![r] = [@ EXCEPT !.pc = "put",
                         !.new = NewRow(r, clock', last, Wanted[r])]]
       /\ IF last = LastDeploy(table) THEN UNCHANGED faults ELSE Fault
  /\ UNCHANGED <<table, waiter, writer, ecs, proven, up, crashes>>

\* The unconditional Put of the new row, and the goroutine that follows it.
PutDeployment(r) ==
  LET h == handler[r] IN
  /\ h.pc = "put"
  /\ table' = Stored(table, h.new)
  /\ \/ /\ Set(h.srv, r, [NoWaiter EXCEPT !.pc = "wait", !.dd = h.new, !.cluster = TRUE])
        /\ handler' = Step(r, "done")
        /\ UNCHANGED faults
     \/ handler' = Step(r, "error") /\ Fault /\ UNCHANGED waiter   \* the answer is lost
  /\ UNCHANGED <<clock, writer, ecs, proven, up, crashes>>

\* An AWS call of the step fails without effect.
HandlerFails(r) ==
  /\ handler[r].pc \in {"prepare", "create", "abort", "put"} \cup Logged
  /\ handler' = Step(r, IF handler[r].pc \in Logged THEN AfterUpdate(r) ELSE "error")
  /\ Fault
  /\ UNCHANGED ecs /\ HandlerOnly

Handle(r) ==
  \/ \E s \in Servers : ReadLast(r, s)
  \/ Prepare(r) \/ Create(r) \/ Update(r)
  \/ ScaleToZero(r) \/ DeleteService(r) \/ WaitInactive(r) \/ Recreate(r)
  \/ Abort(r) \/ NewDeployment(r) \/ PutDeployment(r)

-----------------------------------------------------------------------------
(* ECS.LaunchWaitUntilServicesStable and ECS.Rollback                      *)

WaiterOnly == UNCHANGED <<clock, handler, writer, up, crashes>>

\* WaitUntilServicesStable: stable at some poll, or out of attempts.
WaitUntilServicesStable(s, r) ==
  /\ waiter[s][r].pc = "wait"
  /\ Set(s, r, [waiter[s][r] EXCEPT !.pc = "describe", !.timedOut = ~Stable])
  /\ UNCHANGED <<table, ecs, proven, faults>> /\ WaiterOnly

\* Mutated form: the task definition that runs is not compared.
VerdictWithoutTaskDefinition(r, timedOut, tasks) ==
  CASE ecs.state = "none" \/ ecs.old # {} -> "many"
    [] ~tasks -> "no tasks"
    [] timedOut -> "timeout"
    [] OTHER -> "success"

\* The checks on the running service, in their order.
VerdictOn(r, timedOut, tasks) ==
  CASE ecs.state = "none" \/ ecs.old # {} -> "many"
    [] ecs.td # r -> "old"
    [] ~tasks -> "no tasks"
    [] timedOut -> "timeout"
    [] OTHER -> "success"

\* DescribeService, later.  Tasks listed include stopped ones, so only a
\* rolled out service is sure to have some.
Describe(s, r) ==
  /\ waiter[s][r].pc = "describe"
  /\ \E tasks \in BOOLEAN :
       /\ ecs.rolled /\ ecs.desired > 0 => tasks
       /\ Set(s, r, [waiter[s][r] EXCEPT !.pc = "set",
                       !.verdict = VerdictOn(r, waiter[s][r].timedOut, tasks)])
  /\ UNCHANGED <<table, ecs, proven, faults>> /\ WaiterOnly

\* SetDeploymentStatus / SetDeploymentStatusWithReason.  An error ends the
\* goroutine: returned before a rollback, ignored when there is nothing left.
SetDeploymentStatus(s, r) ==
  LET w == waiter[s][r] IN
  /\ w.pc = "set"
  /\ IF Matches(table, w.dd)
     THEN /\ table' = Stored(table, [Bumped(w.dd) EXCEPT
                         !.status = IF w.verdict = "success" THEN "success" ELSE "failed"])
          /\ \/ /\ Set(s, r, IF w.verdict \in RollsBack
                             THEN [NoWaiter EXCEPT !.pc = "secondToLast", !.cluster = w.cluster]
                             ELSE DoneWaiter)
                /\ UNCHANGED faults
             \/ Set(s, r, DoneWaiter) /\ Fault                 \* the answer is lost
     ELSE Set(s, r, DoneWaiter) /\ UNCHANGED <<table, faults>>
  /\ UNCHANGED <<ecs, proven>> /\ WaiterOnly

\* Mutated form: the status of the second to last row is not looked at.
AnySecondToLast == NthNewest(table, 2)

\* Rollback: GetDeploys("secondToLast", 1).  Without a successful second to
\* last row the rows of the month are read into a variable that shadows the
\* one looped over, so nothing is rolled back.
RollbackTargets == {q \in NthNewest(table, 2) : table[q].status = "success"}

SecondToLast(s, r) ==
  /\ waiter[s][r].pc = "secondToLast"
  /\ IF RollbackTargets = {} THEN Set(s, r, DoneWaiter)
     ELSE \E q \in RollbackTargets :
            Set(s, r, [waiter[s][r] EXCEPT !.pc = "rollback", !.target = q])
  /\ UNCHANGED <<table, ecs, proven, faults>> /\ WaiterOnly

\* Rollback: e.UpdateService, whose error is ignored.  It addresses
\* e.ClusterName, which Resume leaves empty.
Rollback(s, r) ==
  LET w == waiter[s][r] IN
  /\ w.pc = "rollback"
  /\ IF w.cluster /\ ecs.state = "active" THEN UpdateTaskDefinition(w.target)
     ELSE UNCHANGED ecs
  /\ Set(s, r, DoneWaiter)
  /\ UNCHANGED <<table, proven, faults>> /\ WaiterOnly

\* An AWS call of the step fails: an error while waiting counts as a timeout,
\* any other ends the goroutine.
WaiterFails(s, r) ==
  /\ waiter[s][r].pc \notin {"none", "done"}
  /\ Set(s, r, IF waiter[s][r].pc = "wait"
               THEN [waiter[s][r] EXCEPT !.pc = "describe", !.timedOut = TRUE]
               ELSE DoneWaiter)
  /\ Fault
  /\ UNCHANGED <<table, ecs, proven>> /\ WaiterOnly

Wait(s, r) ==
  \/ WaitUntilServicesStable(s, r) \/ Describe(s, r) \/ SetDeploymentStatus(s, r)
  \/ SecondToLast(s, r) \/ Rollback(s, r)

-----------------------------------------------------------------------------
(* Controller.scaleService and Controller.runTask                          *)

WriterStep(w, pc) ==
  [writer EXCEPT ![w] = IF pc \in Ended THEN [IdleWriter EXCEPT !.pc = pc]
                        ELSE [@ EXCEPT !.pc = pc]]
WriterOnly == UNCHANGED <<clock, handler, waiter, proven, up, crashes>>

\* GetLastDeploy.  Without a row runTask returns its error; SetScalingProperty
\* ignores it and dereferences nil, which the router recovers from.  runTask reads
\* the row for its data before it runs the task, and again in SetManualTasksArn: rows
\* do not disappear, so the second read stands for both.
ReadForWrite(w, s) ==
  /\ up[s] /\ writer[w].pc = "idle"
  /\ writer' = [writer EXCEPT ![w] =
       IF LastDeploy(table) = NoRow THEN [IdleWriter EXCEPT !.pc = "error"]
       ELSE [pc |-> "put", srv |-> s, dd |-> LastDeploy(table)]]
  /\ UNCHANGED <<table, ecs, faults>> /\ WriterOnly

\* SetScalingProperty: scaleService ignores its error.
SetScalingProperty(w) ==
  LET dd == writer[w].dd IN
  /\ w \in Scalers /\ writer[w].pc = "put"
  /\ writer' = WriterStep(w, "scale")
  /\ IF Matches(table, dd)
     THEN table' = Stored(table, [Bumped(dd) EXCEPT !.desired = Count[w]])
     ELSE UNCHANGED table
  /\ UNCHANGED <<ecs, faults>> /\ WriterOnly

\* ManualScaleService: its error is ignored as well.
ManualScaleService(w) ==
  /\ w \in Scalers /\ writer[w].pc = "scale"
  /\ \/ UpdateDesiredCount(Count[w])
     \/ ecs.state # "active" /\ UNCHANGED ecs
  /\ writer' = WriterStep(w, "done")
  /\ UNCHANGED <<table, faults>> /\ WriterOnly

\* SetManualTasksArn, after RunTask started the task.
SetManualTasksArn(w) ==
  LET dd == writer[w].dd IN
  /\ w \in TaskRunners /\ writer[w].pc = "put"
  /\ IF Matches(table, dd)
     THEN /\ table' = Stored(table, [Bumped(dd) EXCEPT !.tasks = @ \cup {w}])
          /\ writer' = WriterStep(w, "done")
     ELSE writer' = WriterStep(w, "error") /\ UNCHANGED table
  /\ UNCHANGED <<ecs, faults>> /\ WriterOnly

\* An AWS call of the step fails: scaleService goes on, runTask returns.
WriterFails(w) ==
  /\ writer[w].pc \in {"put", "scale"}
  /\ writer' = WriterStep(w, IF w \in TaskRunners THEN "error"
                             ELSE IF writer[w].pc = "put" THEN "scale" ELSE "done")
  /\ Fault
  /\ UNCHANGED <<table, ecs>> /\ WriterOnly

Write(w) ==
  \/ \E s \in Servers : ReadForWrite(w, s)
  \/ SetScalingProperty(w) \/ ManualScaleService(w) \/ SetManualTasksArn(w)

-----------------------------------------------------------------------------
(* The server                                                              *)

\* Mutated form: only the newest row is looked at.
ResumesLast(r) == table[r].status = "running" /\ Newer(table, r) = {}

\* GetDeploys("byDay", 20), and the test of Resume on each row.
Resumes(r) ==
  table[r].status = "running" /\ Cardinality(Newer(table, r)) < ResumeLimit

\* Resume, before the API is served: a goroutine for each running row, with
\* an ecs.ECS{} that knows no cluster.
Resume(s) ==
  /\ ~up[s]
  /\ up' = [up EXCEPT ![s] = TRUE]
  /\ waiter' = [waiter EXCEPT ![s] = [r \in Requests |->
        IF Resumes(r) THEN [NoWaiter EXCEPT !.pc = "wait", !.dd = table[r]] ELSE @[r]]]
  /\ UNCHANGED <<table, clock, handler, writer, ecs, proven, crashes, faults>>

\* Every goroutine of the process ends.
Crash(s) ==
  /\ up[s] /\ crashes < MaxCrashes
  /\ crashes' = crashes + 1
  /\ up' = [up EXCEPT ![s] = FALSE]
  /\ waiter' = [waiter EXCEPT ![s] = [r \in Requests |-> NoWaiter]]
  /\ handler' = [r \in Requests |->
       IF handler[r].srv = s THEN [IdleHandler EXCEPT !.pc = "dead"] ELSE handler[r]]
  /\ writer' = [w \in Writers |->
       IF writer[w].srv = s THEN [IdleWriter EXCEPT !.pc = "dead"] ELSE writer[w]]
  /\ UNCHANGED <<table, clock, ecs, proven, faults>>

-----------------------------------------------------------------------------
(* ECS (external)                                                          *)

EcsOnly == UNCHANGED <<table, clock, handler, waiter, writer, up, crashes, faults>>

\* The primary deployment runs all its tasks and the older ones are drained.
EcsStabilise ==
  /\ ecs.state = "active" /\ ~Stable
  /\ ecs.td \in Healthy \/ ecs.desired = 0
  /\ ecs' = [ecs EXCEPT !.old = {}, !.rolled = TRUE]
  /\ proven' = proven \cup {ecs.td}
  /\ EcsOnly

\* Tasks that fail their health checks: the older deployments may be drained,
\* but the primary never runs all its tasks.
EcsDrainOld ==
  /\ ecs.state = "active" /\ ecs.old # {} /\ ecs.td \notin Healthy
  /\ ecs' = [ecs EXCEPT !.old = {}]
  /\ UNCHANGED proven /\ EcsOnly

EcsInactive ==
  /\ ecs.state = "draining"
  /\ ecs' = NoService
  /\ UNCHANGED proven /\ EcsOnly

-----------------------------------------------------------------------------

Next ==
  \/ \E r \in Requests : Handle(r) \/ HandlerFails(r)
  \/ \E s \in Servers, r \in Requests : Wait(s, r) \/ WaiterFails(s, r)
  \/ \E w \in Writers : Write(w) \/ WriterFails(w)
  \/ \E s \in Servers : Resume(s) \/ Crash(s)
  \/ EcsStabilise \/ EcsDrainOld \/ EcsInactive

Spec == Init /\ [][Next]_vars

\* A goroutine keeps running and a server that ended is started again (it is
\* an ECS service itself).  The SDK's waiters are bounded, so every step of the
\* goroutine ends; nothing is assumed of ECS or of the handlers.
Fairness ==
  /\ \A s \in Servers, r \in Requests : WF_vars(Wait(s, r))
  /\ \A s \in Servers : WF_vars(Resume(s))

FairSpec == Spec /\ Fairness

-----------------------------------------------------------------------------
(* Properties                                                              *)

TypeOK ==
  /\ table \in [Requests -> Row]
  /\ clock \in Nat
  /\ handler \in [Requests -> Handler]
  /\ waiter \in [Servers -> [Requests -> Waiter]]
  /\ writer \in [Writers -> Writer]
  /\ ecs \in Ecs
  /\ proven \subseteq Requests \cup {None}
  /\ up \in [Servers -> BOOLEAN]
  /\ crashes \in Nat /\ faults \in Nat

\* A row held by a goroutine is the stored row, or the stored row has a higher
\* version: the optimistic lock of SetDeploymentStatus, SetScalingProperty and
\* SetManualTasksArn never lets two writes share a version.
CopiesCoherent ==
  /\ \A r \in Requests : UpToDateOrBehind(table, handler[r].last)
  /\ \A s \in Servers, r \in Requests : UpToDateOrBehind(table, waiter[s][r].dd)
  /\ \A w \in Writers : UpToDateOrBehind(table, writer[w].dd)

\* The table keeps the promise of DeploymentLifecycle: a deployment starts
\* once and its outcome is never overwritten, by no interleaving of a newer
\* request's abort, two servers' goroutines, scaling and manual tasks.
Lifecycle == INSTANCE DeploymentLifecycle
               WITH status <- [r \in Requests |-> table[r].status]
LifecycleSpec == Lifecycle!Spec

\* A deployment is reported successful only if ECS reported its own task
\* definition stable, although the goroutine looks at the service twice and
\* other requests may replace it in between.
SuccessWasStable == \A r \in Requests : table[r].status = "success" => r \in proven

\* A rollback goes to a version that was stable once, and never to the one
\* that has just failed, whatever was deployed since the failure.
RollbackGoesToStable ==
  \A s \in Servers, r \in Requests :
    LET target == waiter[s][r].target
    IN target # None => target \in proven /\ target # r

\* A manual task reported to its caller as recorded stays recorded, whatever
\* status and scaling writers do to the row it was added to.
ReportedTasksRecorded ==
  \A w \in TaskRunners :
    writer[w].pc = "done" => \E r \in Requests : w \in table[r].tasks

\* Every deployment leaves "running", whatever races with it and across
\* restarts of the server, as long as nobody else writes its row and AWS
\* answers.
DeploysSettle ==
  \A r \in Requests : table[r].status = "running" ~> table[r].status # "running"

-----------------------------------------------------------------------------
(* The inductive invariant                                                 *)

RowsKeyed ==
  \A r \in Requests : \/ table[r] = NoRow
                      \/ table[r].td = r /\ table[r].status # "none"

HandlersInv ==
  \A r \in Requests : LET h == handler[r] IN
    /\ h.pc \notin Ended => table[r] = NoRow
    /\ h.pc \notin Ended \cup {"idle"} => h.srv \in Servers
    /\ h.pc = "abort" => h.last.status = "running"
    /\ h.pc = "put" => h.new.td = r /\ h.new.status = "running" /\ h.new.version = 1

WaitersInv ==
  \A s \in Servers, r \in Requests : LET w == waiter[s][r] IN
    /\ w.pc # "none" => table[r] # NoRow
    /\ w.pc \in {"wait", "describe", "set"} => w.dd.td = r /\ w.dd.status = "running"
    /\ w.pc \in {"secondToLast", "rollback"} => table[r].status = "failed"
    /\ w.pc = "rollback" => w.target # None
    /\ w.target # None => w.target \in proven /\ w.target # r

WritersInv ==
  \A w \in Writers : writer[w].pc = "put" => writer[w].dd # NoRow

\* A goroutine that saw the service stable before its own task definition was
\* never finds that task definition running: only its request or a rollback to
\* it could put it there, and both are over or need it stable first.
StableSeen ==
  /\ ecs.rolled => ecs.td \in proven
  /\ \A s \in Servers, r \in Requests : LET w == waiter[s][r] IN
       /\ w.pc = "describe" /\ ~w.timedOut => r \in proven \/ ecs.td # r
       /\ w.pc = "set" /\ w.verdict = "success" => r \in proven

IInv ==
  /\ TypeOK /\ RowsKeyed /\ CopiesCoherent
  /\ HandlersInv /\ WaitersInv /\ WritersInv
  /\ StableSeen /\ SuccessWasStable

=============================================================================
