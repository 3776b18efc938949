-------------------------- MODULE DeploymentsProofs -------------------------
(***************************************************************************)
(* Proofs about Deployments, for any number of requests, servers, scalers  *)
(* and tasks, any crashes and any faults.                                  *)
(***************************************************************************)
EXTENDS Deployments, TLAPS

-----------------------------------------------------------------------------
(* The rows                                                                *)

\* NoRow is a row, and so is what GetLastDeploy returns.
LEMMA RowTypes ==
  /\ NoRow \in Row
  /\ \A tbl \in [Requests -> Row] : LastDeploy(tbl) \in Row
  /\ \A tbl \in [Requests -> Row] :
       LastDeploy(tbl) = NoRow \/ \E r \in Requests : LastDeploy(tbl) = tbl[r] /\ tbl[r].status # "none"
  BY DEF NoRow, Row, Status, Terminal, LastDeploy, Newest, Written

\* A modified copy is a row, with a higher version.
LEMMA BumpedType ==
  ASSUME NEW copy \in Row
  PROVE  /\ Bumped(copy) \in Row
         /\ Bumped(copy).td = copy.td /\ Bumped(copy).status = copy.status
         /\ Bumped(copy).version > copy.version
<1>1. Bumped(copy) \in Row
  BY DEF Bumped, Row
<1>2. /\ Bumped(copy).td = copy.td /\ Bumped(copy).status = copy.status
      /\ Bumped(copy).version > copy.version
  BY DEF Bumped, Row
<1> QED
  BY <1>1, <1>2

\* So is one with another status, desired count or task list.
LEMMA BumpedStatus ==
  ASSUME NEW copy \in Row, NEW st \in Status
  PROVE  [Bumped(copy) EXCEPT !.status = st] \in Row
  BY BumpedType DEF Row

LEMMA BumpedDesired ==
  ASSUME NEW copy \in Row, NEW n \in Nat
  PROVE  [Bumped(copy) EXCEPT !.desired = n] \in Row
  BY BumpedType DEF Row

LEMMA BumpedTasks ==
  ASSUME NEW copy \in Row, NEW w \in TaskRunners
  PROVE  [Bumped(copy) EXCEPT !.tasks = @ \cup {w}] \in Row
  BY BumpedType DEF Row

\* Storing a row with a higher version leaves every copy up to date or behind.
LEMMA StoredKeepsCopies ==
  ASSUME NEW tbl \in [Requests -> Row], NEW row \in Row, row.td \in Requests,
         tbl[row.td].version < row.version,
         NEW copy \in Row, UpToDateOrBehind(tbl, copy)
  PROVE  UpToDateOrBehind(Stored(tbl, row), copy)
  BY DEF Stored, UpToDateOrBehind, Row

-----------------------------------------------------------------------------
(* Type correctness                                                        *)

LEMMA StateTypes ==
  /\ IdleHandler \in Handler /\ NoWaiter \in Waiter /\ DoneWaiter \in Waiter
  /\ IdleWriter \in Writer /\ NoService \in Ecs
  BY RowTypes DEF IdleHandler, Handler, HandlerPc, Logged, NoWaiter, DoneWaiter, Waiter,
     WaiterPc, Verdict, RollsBack, IdleWriter, Writer, WriterPc, NoService, Ecs

LEMMA StepType ==
  ASSUME TypeOK, NEW r \in Requests, NEW pc \in HandlerPc
  PROVE  Step(r, pc) \in [Requests -> Handler]
<1>1. handler[r] \in Handler
  BY DEF TypeOK
<1>2. /\ [IdleHandler EXCEPT !.pc = pc] \in Handler
      /\ [handler[r] EXCEPT !.pc = pc] \in Handler
      /\ [handler[r] EXCEPT !.pc = pc, !.last = NoRow] \in Handler
  BY <1>1, StateTypes, RowTypes DEF Handler
<1> QED
  BY <1>2 DEF TypeOK, Step

LEMMA AfterUpdateType ==
  ASSUME NEW r \in Requests
  PROVE  AfterUpdate(r) \in HandlerPc
  BY DEF AfterUpdate, HandlerPc

LEMMA WriterStepType ==
  ASSUME TypeOK, NEW w \in Writers, NEW pc \in WriterPc
  PROVE  WriterStep(w, pc) \in [Writers -> Writer]
<1>1. writer[w] \in Writer
  BY DEF TypeOK
<1>2. /\ [IdleWriter EXCEPT !.pc = pc] \in Writer
      /\ [writer[w] EXCEPT !.pc = pc] \in Writer
  BY <1>1, StateTypes DEF Writer
<1> QED
  BY <1>2 DEF TypeOK, WriterStep

LEMMA UpdateTaskDefinitionType ==
  ASSUME ecs \in Ecs, NEW td \in Requests \cup {None}, UpdateTaskDefinition(td)
  PROVE  ecs' \in Ecs
  BY DEF Ecs, UpdateTaskDefinition

LEMMA UpdateDesiredCountType ==
  ASSUME ecs \in Ecs, NEW n \in Nat, UpdateDesiredCount(n)
  PROVE  ecs' \in Ecs
  BY DEF Ecs, UpdateDesiredCount

LEMMA CreateServiceType ==
  ASSUME ecs \in Ecs, NEW td \in Requests, CreateService(td)
  PROVE  ecs' \in Ecs
  BY ConstantsAssumption DEF Ecs, CreateService

LEMMA SetType ==
  ASSUME TypeOK, NEW s \in Servers, NEW r \in Requests, NEW w \in Waiter, Set(s, r, w)
  PROVE  waiter' \in [Servers -> [Requests -> Waiter]]
  BY DEF TypeOK, Set

LEMMA FaultType ==
  ASSUME TypeOK, Fault
  PROVE  faults' \in Nat
  BY DEF TypeOK, Fault

\* A step of a handler that touches nothing but its own state, ECS and faults.
LEMMA HandlerMoves ==
  ASSUME TypeOK, NEW r \in Requests, HandlerOnly, ecs' \in Ecs, faults' \in Nat,
         \E pc \in HandlerPc : handler' = Step(r, pc)
  PROVE  TypeOK'
<1>1. handler' \in [Requests -> Handler]
  BY StepType
<1> QED
  BY <1>1 DEF TypeOK, HandlerOnly

LEMMA HandlerKeepsTypes ==
  ASSUME TypeOK, NEW r \in Requests, Handle(r) \/ HandlerFails(r)
  PROVE  TypeOK'
<1>0. ecs \in Ecs /\ faults \in Nat /\ table \in [Requests -> Row] /\ handler[r] \in Handler
  BY DEF TypeOK
<1>1. ASSUME NEW s \in Servers, ReadLast(r, s)
      PROVE  TypeOK'
  <2>1. [handler[r] EXCEPT !.pc = "prepare", !.srv = s, !.last = LastDeploy(table)] \in Handler
    BY <1>0, RowTypes DEF Handler, HandlerPc
  <2>2. handler' \in [Requests -> Handler]
    BY <1>1, <2>1 DEF ReadLast, TypeOK
  <2> QED
    BY <1>1, <2>2 DEF ReadLast, TypeOK, HandlerOnly
<1>2. CASE Prepare(r)
  <2>1. \E pc \in HandlerPc : handler' = Step(r, pc)
    BY <1>2 DEF Prepare, HandlerPc
  <2>2. ecs' = ecs /\ faults' = faults /\ HandlerOnly
    BY <1>2 DEF Prepare
  <2> QED
    BY <1>0, <2>1, <2>2, HandlerMoves
<1>3. CASE Create(r)
  <2>1. \E pc \in HandlerPc : handler' = Step(r, pc)
    BY <1>3, AfterUpdateType DEF Create, HandlerPc
  <2>2. ecs' \in Ecs /\ faults' \in Nat /\ HandlerOnly
    BY <1>0, <1>3, CreateServiceType, FaultType DEF Create
  <2> QED
    BY <2>1, <2>2, HandlerMoves
<1>4. CASE Update(r)
  <2>1. \E pc \in HandlerPc : handler' = Step(r, pc)
    BY <1>4, AfterUpdateType DEF Update
  <2>2. ecs' \in Ecs /\ faults' \in Nat /\ HandlerOnly
    BY <1>0, <1>4, UpdateTaskDefinitionType DEF Update
  <2> QED
    BY <2>1, <2>2, HandlerMoves
<1>5. CASE ScaleToZero(r)
  <2>1. \E pc \in HandlerPc : handler' = Step(r, pc)
    BY <1>5, AfterUpdateType DEF ScaleToZero, HandlerPc
  <2>2. ecs' \in Ecs /\ faults' \in Nat /\ HandlerOnly
    BY <1>0, <1>5, UpdateDesiredCountType DEF ScaleToZero
  <2> QED
    BY <2>1, <2>2, HandlerMoves
<1>6. CASE DeleteService(r)
  <2>1. \E pc \in HandlerPc : handler' = Step(r, pc)
    BY <1>6, AfterUpdateType DEF DeleteService, HandlerPc
  <2>2. ecs' \in Ecs /\ faults' \in Nat /\ HandlerOnly
    BY <1>0, <1>6 DEF DeleteService, Ecs
  <2> QED
    BY <2>1, <2>2, HandlerMoves
<1>7. CASE WaitInactive(r)
  <2>1. \E pc \in HandlerPc : handler' = Step(r, pc)
    BY <1>7, AfterUpdateType DEF WaitInactive, HandlerPc
  <2>2. ecs' = ecs /\ faults' = faults /\ HandlerOnly
    BY <1>7 DEF WaitInactive
  <2> QED
    BY <1>0, <2>1, <2>2, HandlerMoves
<1>8. CASE Recreate(r)
  <2>1. \E pc \in HandlerPc : handler' = Step(r, pc)
    BY <1>8, AfterUpdateType DEF Recreate
  <2>2. ecs' \in Ecs /\ faults' \in Nat /\ HandlerOnly
    BY <1>0, <1>8, CreateServiceType DEF Recreate
  <2> QED
    BY <2>1, <2>2, HandlerMoves
<1>9. CASE Abort(r)
  <2>1. \E pc \in HandlerPc : handler' = Step(r, pc)
    BY <1>9 DEF Abort, HandlerPc
  <2>2. handler' \in [Requests -> Handler]
    BY <2>1, StepType
  <2>3. [Bumped(handler[r].last) EXCEPT !.status = "aborted"] \in Row
    BY <1>0, BumpedStatus DEF Handler, Status, Terminal
  <2>4. table' \in [Requests -> Row] /\ faults' \in Nat
    BY <1>0, <1>9, <2>3, FaultType DEF Abort, Stored
  <2> QED
    BY <1>9, <2>2, <2>4 DEF Abort, TypeOK
<1>10. CASE NewDeployment(r)
  <2>1. PICK last \in {LastDeploy(table), NoRow} :
          /\ handler' = [handler EXCEPT ![r] = [@ EXCEPT !.pc = "put",
                           !.new = NewRow(r, clock', last, Wanted[r])]]
          /\ faults' = faults \/ Fault
    BY <1>10 DEF NewDeployment
  <2>2. clock' \in Nat /\ last \in Row /\ Wanted[r] \in Nat
    <3>1. clock' \in Nat
      BY <1>10 DEF NewDeployment, TypeOK
    <3>2. LastDeploy(table) \in Row
      BY <1>0, RowTypes
    <3>3. last \in Row
      BY <2>1, <3>2, RowTypes
    <3> QED
      BY <3>1, <3>3, ConstantsAssumption
  <2>3. NewRow(r, clock', last, Wanted[r]) \in Row
    BY <2>2 DEF NewRow, Row, Status, Larger
  <2>4. [handler[r] EXCEPT !.pc = "put", !.new = NewRow(r, clock', last, Wanted[r])] \in Handler
    BY <1>0, <2>3 DEF Handler, HandlerPc
  <2>5. handler' \in [Requests -> Handler] /\ faults' \in Nat
    BY <1>0, <2>1, <2>4, FaultType DEF TypeOK
  <2> QED
    BY <1>10, <2>2, <2>5 DEF NewDeployment, TypeOK
<1>11. CASE PutDeployment(r)
  <2>1. \E pc \in HandlerPc : handler' = Step(r, pc)
    BY <1>11 DEF PutDeployment, HandlerPc
  <2>2. handler' \in [Requests -> Handler]
    BY <2>1, StepType
  <2>3. handler[r].new \in Row
    BY <1>0 DEF Handler
  <2>4. table' \in [Requests -> Row] /\ faults' \in Nat
    BY <1>0, <1>11, <2>3, FaultType DEF PutDeployment, Stored
  <2>5. [NoWaiter EXCEPT !.pc = "wait", !.dd = handler[r].new, !.cluster = TRUE] \in Waiter
    BY <2>3, StateTypes DEF Waiter, WaiterPc
  <2>6. waiter' \in [Servers -> [Requests -> Waiter]]
    <3>1. CASE handler[r].srv \in Servers
      BY <1>11, <2>5, <3>1, SetType DEF PutDeployment, TypeOK
    <3>2. CASE handler[r].srv \notin Servers
      BY <1>11, <3>2 DEF PutDeployment, TypeOK, Set
    <3> QED
      BY <3>1, <3>2
  <2> QED
    BY <1>11, <2>2, <2>4, <2>6 DEF PutDeployment, TypeOK
<1>12. CASE HandlerFails(r)
  <2>1. \E pc \in HandlerPc : handler' = Step(r, pc)
    BY <1>12, AfterUpdateType DEF HandlerFails, HandlerPc
  <2>2. ecs' \in Ecs /\ faults' \in Nat /\ HandlerOnly
    BY <1>0, <1>12, FaultType DEF HandlerFails
  <2> QED
    BY <2>1, <2>2, HandlerMoves
<1> QED
  BY <1>1, <1>2, <1>3, <1>4, <1>5, <1>6, <1>7, <1>8, <1>9, <1>10, <1>11, <1>12 DEF Handle

\* A step of a waiting goroutine.
LEMMA WaiterMoves ==
  ASSUME TypeOK, NEW s \in Servers, NEW r \in Requests, WaiterOnly, proven' = proven,
         table' \in [Requests -> Row], ecs' \in Ecs, faults' \in Nat,
         \E w \in Waiter : Set(s, r, w)
  PROVE  TypeOK'
<1>1. waiter' \in [Servers -> [Requests -> Waiter]]
  BY SetType
<1> QED
  BY <1>1 DEF TypeOK, WaiterOnly

LEMMA WaiterKeepsTypes ==
  ASSUME TypeOK, NEW s \in Servers, NEW r \in Requests, Wait(s, r) \/ WaiterFails(s, r)
  PROVE  TypeOK'
<1>0. ecs \in Ecs /\ faults \in Nat /\ table \in [Requests -> Row] /\ waiter[s][r] \in Waiter
  BY DEF TypeOK
<1>1. CASE WaitUntilServicesStable(s, r)
  <2>1. [waiter[s][r] EXCEPT !.pc = "describe", !.timedOut = ~Stable] \in Waiter
    <3>1. (~Stable) \in BOOLEAN
      BY DEF Stable
    <3> QED
      BY <1>0, <3>1 DEF Waiter, WaiterPc
  <2>2. /\ \E w \in Waiter : Set(s, r, w)
        /\ table' = table /\ ecs' = ecs /\ proven' = proven /\ faults' = faults /\ WaiterOnly
    BY <1>1, <2>1 DEF WaitUntilServicesStable
  <2> QED
    BY <1>0, <2>2, WaiterMoves
<1>2. CASE Describe(s, r)
  <2>1. ASSUME NEW tasks \in BOOLEAN
        PROVE  [waiter[s][r] EXCEPT !.pc = "set",
                  !.verdict = VerdictOn(r, waiter[s][r].timedOut, tasks)] \in Waiter
    <3>1. VerdictOn(r, waiter[s][r].timedOut, tasks) \in Verdict
      BY DEF VerdictOn, Verdict, RollsBack
    <3> QED
      BY <1>0, <3>1 DEF Waiter, WaiterPc
  <2>2. /\ \E w \in Waiter : Set(s, r, w)
        /\ table' = table /\ ecs' = ecs /\ proven' = proven /\ faults' = faults /\ WaiterOnly
    BY <1>2, <2>1 DEF Describe
  <2> QED
    BY <1>0, <2>2, WaiterMoves
<1>3. CASE SetDeploymentStatus(s, r)
  <2>1. waiter[s][r].dd \in Row
    BY <1>0 DEF Waiter
  <2>2. \A st \in {"success", "failed"} : [Bumped(waiter[s][r].dd) EXCEPT !.status = st] \in Row
    BY <2>1, BumpedStatus DEF Status, Terminal
  <2>3. table' \in [Requests -> Row]
    BY <1>0, <1>3, <2>2 DEF SetDeploymentStatus, Stored
  <2>4. [NoWaiter EXCEPT !.pc = "secondToLast", !.cluster = waiter[s][r].cluster] \in Waiter
    BY <1>0, StateTypes DEF Waiter, WaiterPc
  <2>5. \E w \in Waiter : Set(s, r, w)
    BY <1>3, <2>4, StateTypes DEF SetDeploymentStatus
  <2>6. faults' \in Nat /\ ecs' = ecs /\ proven' = proven /\ WaiterOnly
    BY <1>0, <1>3, FaultType DEF SetDeploymentStatus
  <2> QED
    BY <1>0, <2>3, <2>5, <2>6, WaiterMoves
<1>4. CASE SecondToLast(s, r)
  <2>1. ASSUME NEW q \in RollbackTargets
        PROVE  [waiter[s][r] EXCEPT !.pc = "rollback", !.target = q] \in Waiter
    BY <1>0, <2>1 DEF Waiter, WaiterPc, RollbackTargets, NthNewest, Written
  <2>2. /\ \E w \in Waiter : Set(s, r, w)
        /\ table' = table /\ ecs' = ecs /\ proven' = proven /\ faults' = faults /\ WaiterOnly
    BY <1>4, <2>1, StateTypes DEF SecondToLast
  <2> QED
    BY <1>0, <2>2, WaiterMoves
<1>5. CASE Rollback(s, r)
  <2>1. waiter[s][r].target \in Requests \cup {None}
    BY <1>0 DEF Waiter
  <2>2. ecs' \in Ecs
    BY <1>0, <2>1, <1>5, UpdateTaskDefinitionType DEF Rollback
  <2>3. /\ \E w \in Waiter : Set(s, r, w)
        /\ table' = table /\ proven' = proven /\ faults' = faults /\ WaiterOnly
    BY <1>5, StateTypes DEF Rollback
  <2> QED
    BY <1>0, <2>2, <2>3, WaiterMoves
<1>6. CASE WaiterFails(s, r)
  <2>1. [waiter[s][r] EXCEPT !.pc = "describe", !.timedOut = TRUE] \in Waiter
    BY <1>0 DEF Waiter, WaiterPc
  <2>2. /\ \E w \in Waiter : Set(s, r, w)
        /\ table' = table /\ ecs' = ecs /\ proven' = proven /\ faults' \in Nat /\ WaiterOnly
    BY <1>6, <2>1, StateTypes, FaultType DEF WaiterFails
  <2> QED
    BY <1>0, <2>2, WaiterMoves
<1> QED
  BY <1>1, <1>2, <1>3, <1>4, <1>5, <1>6 DEF Wait

\* A step of a scaleService or runTask request.
LEMMA WriterMoves ==
  ASSUME TypeOK, WriterOnly, writer' \in [Writers -> Writer],
         table' \in [Requests -> Row], ecs' \in Ecs, faults' \in Nat
  PROVE  TypeOK'
  BY DEF TypeOK, WriterOnly

LEMMA WriterKeepsTypes ==
  ASSUME TypeOK, NEW w \in Writers, Write(w) \/ WriterFails(w)
  PROVE  TypeOK'
<1>0. /\ ecs \in Ecs /\ faults \in Nat /\ table \in [Requests -> Row]
      /\ writer \in [Writers -> Writer] /\ writer[w] \in Writer /\ writer[w].dd \in Row
  BY DEF TypeOK, Writer
<1>1. ASSUME NEW s \in Servers, ReadForWrite(w, s)
      PROVE  TypeOK'
  <2>1. [pc |-> "put", srv |-> s, dd |-> LastDeploy(table)] \in Writer
    BY <1>0, RowTypes DEF Writer, WriterPc
  <2>2. [IdleWriter EXCEPT !.pc = "error"] \in Writer
    BY StateTypes DEF Writer, WriterPc
  <2>3. writer' \in [Writers -> Writer]
    BY <1>0, <1>1, <2>1, <2>2 DEF ReadForWrite
  <2> QED
    BY <1>0, <1>1, <2>3, WriterMoves DEF ReadForWrite
<1>2. CASE SetScalingProperty(w)
  <2>1. Count[w] \in Nat
    BY <1>2, ConstantsAssumption DEF SetScalingProperty
  <2>2. [Bumped(writer[w].dd) EXCEPT !.desired = Count[w]] \in Row
    BY <1>0, <2>1, BumpedDesired
  <2>3. table' \in [Requests -> Row]
    BY <1>0, <1>2, <2>2 DEF SetScalingProperty, Stored
  <2>4. writer' \in [Writers -> Writer]
    BY <1>2, WriterStepType DEF SetScalingProperty, WriterPc
  <2> QED
    BY <1>0, <1>2, <2>3, <2>4, WriterMoves DEF SetScalingProperty
<1>3. CASE ManualScaleService(w)
  <2>1. Count[w] \in Nat
    BY <1>3, ConstantsAssumption DEF ManualScaleService
  <2>2. ecs' \in Ecs
    BY <1>0, <1>3, <2>1, UpdateDesiredCountType DEF ManualScaleService
  <2>3. writer' \in [Writers -> Writer]
    BY <1>3, WriterStepType DEF ManualScaleService, WriterPc
  <2> QED
    BY <1>0, <1>3, <2>2, <2>3, WriterMoves DEF ManualScaleService
<1>4. CASE SetManualTasksArn(w)
  <2>1. [Bumped(writer[w].dd) EXCEPT !.tasks = @ \cup {w}] \in Row
    BY <1>0, <1>4, BumpedTasks DEF SetManualTasksArn
  <2>2. table' \in [Requests -> Row]
    BY <1>0, <1>4, <2>1 DEF SetManualTasksArn, Stored
  <2>3. writer' \in [Writers -> Writer]
    BY <1>4, WriterStepType DEF SetManualTasksArn, WriterPc
  <2> QED
    BY <1>0, <1>4, <2>2, <2>3, WriterMoves DEF SetManualTasksArn
<1>5. CASE WriterFails(w)
  <2>1. writer' \in [Writers -> Writer] /\ faults' \in Nat
    BY <1>5, WriterStepType, FaultType DEF WriterFails, WriterPc
  <2> QED
    BY <1>0, <1>5, <2>1, WriterMoves DEF WriterFails
<1> QED
  BY <1>1, <1>2, <1>3, <1>4, <1>5 DEF Write

LEMMA TypeInductive ==
  ASSUME TypeOK, [Next]_vars
  PROVE  TypeOK'
<1> USE StateTypes, RowTypes
<1>1. ASSUME NEW s \in Servers, Resume(s)
      PROVE  TypeOK'
  <2>1. \A r \in Requests : [NoWaiter EXCEPT !.pc = "wait", !.dd = table[r]] \in Waiter
    BY DEF TypeOK, NoWaiter, Waiter, WaiterPc
  <2> QED
    BY <2>1, <1>1 DEF Resume, TypeOK
<1>2. ASSUME NEW s \in Servers, Crash(s)
      PROVE  TypeOK'
  <2>1. [IdleHandler EXCEPT !.pc = "dead"] \in Handler /\ [IdleWriter EXCEPT !.pc = "dead"] \in Writer
    BY DEF IdleHandler, Handler, HandlerPc, IdleWriter, Writer, WriterPc
  <2> QED
    BY <2>1, <1>2 DEF Crash, TypeOK
<1>3. CASE EcsStabilise
  <2>1. ecs' \in Ecs
    BY <1>3 DEF EcsStabilise, TypeOK, Ecs
  <2>2. proven' \subseteq Requests \cup {None}
    BY <1>3, ConstantsAssumption DEF EcsStabilise, TypeOK, Ecs
  <2> QED
    BY <1>3, <2>1, <2>2 DEF EcsStabilise, EcsOnly, TypeOK
<1>4. CASE EcsDrainOld
  BY <1>4 DEF EcsDrainOld, EcsOnly, TypeOK, Ecs
<1>5. CASE EcsInactive
  BY <1>5 DEF EcsInactive, EcsOnly, TypeOK
<1>6. CASE UNCHANGED vars
  BY <1>6 DEF vars, TypeOK
<1> QED
  BY <1>1, <1>2, <1>3, <1>4, <1>5, <1>6, HandlerKeepsTypes, WaiterKeepsTypes, WriterKeepsTypes
  DEF Next

LEMMA InitTypes == Init => TypeOK
  BY StateTypes, RowTypes DEF Init, TypeOK

\* Every variable keeps its type, for every value of the constants.
THEOREM TypeCorrect == Spec => []TypeOK
  BY InitTypes, TypeInductive, PTL DEF Spec

-----------------------------------------------------------------------------
(* What a step does to the table                                           *)

StatusStep(a, b) ==
  \/ a = "none" /\ b = "running"
  \/ a = "running" /\ b \in Terminal
  \/ a = b /\ a # "none"

TableStep ==
  \A q \in Requests :
    \/ table'[q] = table[q]
    \/ /\ table'[q].td = q
       /\ table[q].version < table'[q].version
       /\ StatusStep(table[q].status, table'[q].status)

\* A row is new only if its request's handler has just put it.
NewRowsPut ==
  \A q \in Requests :
    table[q] = NoRow /\ table'[q] # NoRow => handler[q].pc = "put" /\ handler'[q].pc \in Ended

LEMMA StoredStep ==
  ASSUME TypeOK, NEW row \in Row, row.td \in Requests, table' = Stored(table, row),
         table[row.td].version < row.version, StatusStep(table[row.td].status, row.status)
  PROVE  TableStep
  BY DEF TypeOK, Stored, TableStep

\* A conditional Put of a modified copy of a row.
LEMMA ConditionalPut ==
  ASSUME TypeOK, NEW copy \in Row, copy # NoRow, UpToDateOrBehind(table, copy),
         Matches(table, copy), RowsKeyed,
         NEW row \in Row, row.td = copy.td, row.version > copy.version,
         StatusStep(copy.status, row.status), table' = Stored(table, row)
  PROVE  TableStep /\ NewRowsPut
<1>1. copy.td \in Requests /\ copy = table[copy.td]
  BY DEF UpToDateOrBehind, Matches, TypeOK, Row
<1>2. TableStep
  BY <1>1, StoredStep
<1>3. NewRowsPut
  BY <1>1 DEF NewRowsPut, Stored, TypeOK
<1> QED
  BY <1>2, <1>3

LEMMA SameTable ==
  ASSUME table' = table
  PROVE  TableStep /\ NewRowsPut
  BY DEF TableStep, NewRowsPut

LEMMA EndedType == Ended \subseteq HandlerPc
  BY DEF Ended, HandlerPc

LEMMA StepPc ==
  ASSUME TypeOK, NEW r \in Requests, NEW pc, handler' = Step(r, pc)
  PROVE  handler'[r].pc = pc
<1>1. handler[r] \in Handler
  BY DEF TypeOK
<1> QED
  BY <1>1 DEF TypeOK, Step, Handler, IdleHandler, Ended

LEMMA HandlerTableStep ==
  ASSUME IInv, NEW r \in Requests, Handle(r) \/ HandlerFails(r)
  PROVE  TableStep /\ NewRowsPut
<1>0. TypeOK /\ RowsKeyed /\ handler[r] \in Handler
  BY DEF IInv, TypeOK
<1>1. CASE Abort(r)
  <2> DEFINE last == handler[r].last
  <2>1. last \in Row /\ UpToDateOrBehind(table, last) /\ last.status = "running"
    BY <1>0, <1>1 DEF IInv, CopiesCoherent, HandlersInv, Abort, Handler
  <2>2. last # NoRow
    BY <2>1 DEF NoRow
  <2> DEFINE row == [Bumped(last) EXCEPT !.status = "aborted"]
  <2>3. /\ row \in Row /\ row.td = last.td /\ row.version > last.version
        /\ StatusStep(last.status, row.status)
    <3>1. Bumped(last) \in Row /\ Bumped(last).td = last.td /\ Bumped(last).version > last.version
      BY <2>1, BumpedType
    <3> QED
      BY <2>1, <3>1 DEF Row, Status, Terminal, StatusStep
  <2>4. CASE Matches(table, last)
    <3>1. table' = Stored(table, row)
      BY <1>1, <2>4 DEF Abort
    <3> HIDE DEF row, last
    <3> QED
      BY <1>0, <2>1, <2>2, <2>3, <2>4, <3>1, ConditionalPut
  <2>5. CASE ~Matches(table, last)
    BY <1>1, <2>5, SameTable DEF Abort
  <2> QED
    BY <2>4, <2>5
<1>2. CASE PutDeployment(r)
  <2> DEFINE row == handler[r].new
  <2>1. /\ row \in Row /\ row.td = r /\ row.status = "running" /\ row.version = 1
        /\ table[r] = NoRow
    BY <1>0, <1>2 DEF IInv, HandlersInv, PutDeployment, Handler, Ended
  <2>2. table' = Stored(table, row)
    BY <1>2 DEF PutDeployment
  <2>3. TableStep
    BY <1>0, <2>1, <2>2, StoredStep DEF StatusStep, NoRow
  <2>4. handler'[r].pc \in Ended
    BY <1>0, <1>2, StepPc DEF PutDeployment, Ended
  <2>5. NewRowsPut
    BY <1>0, <1>2, <2>1, <2>2, <2>4 DEF NewRowsPut, Stored, PutDeployment, TypeOK
  <2> QED
    BY <2>3, <2>5
<1>3. CASE table' = table
  BY <1>3, SameTable
<1> QED
  BY <1>1, <1>2, <1>3 DEF Handle, HandlerFails, ReadLast, Prepare, Create, Update, ScaleToZero,
     DeleteService, WaitInactive, Recreate, NewDeployment, HandlerOnly

LEMMA WaiterTableStep ==
  ASSUME IInv, NEW s \in Servers, NEW r \in Requests, Wait(s, r) \/ WaiterFails(s, r)
  PROVE  TableStep /\ NewRowsPut
<1>0. TypeOK /\ RowsKeyed /\ waiter[s][r] \in Waiter
  BY DEF IInv, TypeOK
<1>1. CASE SetDeploymentStatus(s, r)
  <2> DEFINE dd == waiter[s][r].dd
  <2>1. dd \in Row /\ UpToDateOrBehind(table, dd) /\ dd.status = "running"
    BY <1>0, <1>1 DEF IInv, CopiesCoherent, WaitersInv, SetDeploymentStatus, Waiter
  <2>2. dd # NoRow
    BY <2>1 DEF NoRow
  <2>3. ASSUME Matches(table, dd),
               NEW st \in {"success", "failed"},
               table' = Stored(table, [Bumped(dd) EXCEPT !.status = st])
        PROVE  TableStep /\ NewRowsPut
    <3> DEFINE row == [Bumped(dd) EXCEPT !.status = st]
    <3>1. /\ row \in Row /\ row.td = dd.td /\ row.version > dd.version
          /\ StatusStep(dd.status, row.status)
      <4>1. Bumped(dd) \in Row /\ Bumped(dd).td = dd.td /\ Bumped(dd).version > dd.version
        BY <2>1, BumpedType
      <4> QED
        BY <2>1, <4>1 DEF Row, Status, Terminal, StatusStep
    <3>2. table' = Stored(table, row)
      BY <2>3
    <3> HIDE DEF row, dd
    <3> QED
      BY <1>0, <2>1, <2>2, <2>3, <3>1, <3>2, ConditionalPut
  <2>4. CASE ~Matches(table, dd)
    BY <1>1, <2>4, SameTable DEF SetDeploymentStatus
  <2>5. CASE Matches(table, dd)
    BY <1>1, <2>3, <2>5 DEF SetDeploymentStatus
  <2> QED
    BY <2>4, <2>5
<1>2. CASE table' = table
  BY <1>2, SameTable
<1> QED
  BY <1>1, <1>2 DEF Wait, WaiterFails, WaitUntilServicesStable, Describe, SecondToLast, Rollback

LEMMA WriterTableStep ==
  ASSUME IInv, NEW w \in Writers, Write(w) \/ WriterFails(w)
  PROVE  TableStep /\ NewRowsPut
<1> DEFINE dd == writer[w].dd
<1>0. TypeOK /\ RowsKeyed /\ dd \in Row
  BY DEF IInv, TypeOK, Writer
<1>1. ASSUME writer[w].pc = "put"
      PROVE  UpToDateOrBehind(table, dd) /\ dd # NoRow
  BY <1>1 DEF IInv, CopiesCoherent, WritersInv
<1>2. ASSUME writer[w].pc = "put", Matches(table, dd)
      PROVE  StatusStep(dd.status, dd.status)
  <2>1. dd.td \in Requests /\ dd = table[dd.td]
    BY <1>0, <1>1, <1>2 DEF UpToDateOrBehind, Matches, TypeOK, Row
  <2> QED
    BY <1>0, <1>1, <1>2, <2>1 DEF RowsKeyed, StatusStep
<1>3. CASE SetScalingProperty(w)
  <2>1. CASE Matches(table, dd)
    <3> DEFINE row == [Bumped(dd) EXCEPT !.desired = Count[w]]
    <3>1. Count[w] \in Nat
      BY <1>3, ConstantsAssumption DEF SetScalingProperty
    <3>2. row \in Row /\ row.td = dd.td /\ row.version > dd.version /\ row.status = dd.status
      <4>1. /\ Bumped(dd) \in Row /\ Bumped(dd).td = dd.td /\ Bumped(dd).version > dd.version
            /\ Bumped(dd).status = dd.status
        BY <1>0, BumpedType
      <4> QED
        BY <3>1, <4>1 DEF Row
    <3>3. table' = Stored(table, row) /\ writer[w].pc = "put"
      BY <1>3, <2>1 DEF SetScalingProperty
    <3> HIDE DEF row, dd
    <3> QED
      BY <1>0, <1>1, <1>2, <2>1, <3>2, <3>3, ConditionalPut
  <2>2. CASE ~Matches(table, dd)
    BY <1>3, <2>2, SameTable DEF SetScalingProperty
  <2> QED
    BY <2>1, <2>2
<1>4. CASE SetManualTasksArn(w)
  <2>1. CASE Matches(table, dd)
    <3> DEFINE row == [Bumped(dd) EXCEPT !.tasks = @ \cup {w}]
    <3>2. row \in Row /\ row.td = dd.td /\ row.version > dd.version /\ row.status = dd.status
      <4>1. /\ Bumped(dd) \in Row /\ Bumped(dd).td = dd.td /\ Bumped(dd).version > dd.version
            /\ Bumped(dd).status = dd.status
        BY <1>0, BumpedType
      <4> QED
        BY <1>4, <4>1 DEF Row, SetManualTasksArn
    <3>3. table' = Stored(table, row) /\ writer[w].pc = "put"
      BY <1>4, <2>1 DEF SetManualTasksArn
    <3> HIDE DEF row, dd
    <3> QED
      BY <1>0, <1>1, <1>2, <2>1, <3>2, <3>3, ConditionalPut
  <2>2. CASE ~Matches(table, dd)
    BY <1>4, <2>2, SameTable DEF SetManualTasksArn
  <2> QED
    BY <2>1, <2>2
<1>5. CASE table' = table
  BY <1>5, SameTable
<1> QED
  BY <1>3, <1>4, <1>5 DEF Write, WriterFails, ReadForWrite, ManualScaleService

LEMMA NextTableStep ==
  ASSUME IInv, [Next]_vars
  PROVE  TableStep /\ NewRowsPut
  BY HandlerTableStep, WaiterTableStep, WriterTableStep, SameTable
  DEF Next, Resume, Crash, EcsStabilise, EcsDrainOld, EcsInactive, EcsOnly, vars

-----------------------------------------------------------------------------
(* The inductive invariant, conjunct by conjunct                           *)

LEMMA RowsStayKeyed ==
  ASSUME IInv, [Next]_vars
  PROVE  RowsKeyed'
  BY NextTableStep DEF IInv, RowsKeyed, TableStep, StatusStep, Terminal

\* Copies stay coherent when the table moves.
LEMMA CopyStaysCoherent ==
  ASSUME TypeOK, TypeOK', TableStep, NEW copy \in Row, UpToDateOrBehind(table, copy)
  PROVE  UpToDateOrBehind(table', copy)
  BY DEF TypeOK, TableStep, UpToDateOrBehind, Row

\* What is read from the table is coherent with it.
LEMMA ReadIsCoherent ==
  ASSUME TypeOK, RowsKeyed
  PROVE  /\ UpToDateOrBehind(table, NoRow)
         /\ UpToDateOrBehind(table, LastDeploy(table))
         /\ \A r \in Requests : UpToDateOrBehind(table, table[r])
<1>1. \A r \in Requests : UpToDateOrBehind(table, table[r])
  BY DEF RowsKeyed, UpToDateOrBehind
<1> QED
  BY <1>1, RowTypes DEF UpToDateOrBehind, TypeOK

-----------------------------------------------------------------------------
(* What a step of each process leaves alone                                *)

LEMMA HandlerFrame ==
  ASSUME NEW r \in Requests, Handle(r) \/ HandlerFails(r)
  PROVE  /\ writer' = writer /\ proven' = proven
         /\ waiter' = waiter \/ PutDeployment(r)
         /\ table' = table \/ Abort(r) \/ PutDeployment(r)
<1>1. CASE Abort(r)
  BY <1>1 DEF Abort
<1>2. CASE PutDeployment(r)
  BY <1>2 DEF PutDeployment
<1>3. CASE ~Abort(r) /\ ~PutDeployment(r)
  BY <1>3 DEF Handle, HandlerFails, ReadLast, Prepare, Create, Update, ScaleToZero,
     DeleteService, WaitInactive, Recreate, NewDeployment, HandlerOnly
<1> QED
  BY <1>1, <1>2, <1>3

LEMMA WaiterFrame ==
  ASSUME NEW s \in Servers, NEW r \in Requests, Wait(s, r) \/ WaiterFails(s, r)
  PROVE  /\ handler' = handler /\ writer' = writer /\ proven' = proven
         /\ table' = table \/ SetDeploymentStatus(s, r)
         /\ ecs' = ecs \/ Rollback(s, r)
  BY DEF Wait, WaiterFails, WaitUntilServicesStable, Describe, SetDeploymentStatus,
     SecondToLast, Rollback, WaiterOnly

LEMMA WriterFrame ==
  ASSUME NEW w \in Writers, Write(w) \/ WriterFails(w)
  PROVE  /\ handler' = handler /\ waiter' = waiter /\ proven' = proven
         /\ table' = table \/ SetScalingProperty(w) \/ SetManualTasksArn(w)
         /\ ecs' = ecs \/ ManualScaleService(w)
  BY DEF Write, WriterFails, ReadForWrite, SetScalingProperty, ManualScaleService,
     SetManualTasksArn, WriterOnly

LEMMA ServerFrame ==
  ASSUME NEW s \in Servers, Resume(s) \/ Crash(s)
  PROVE  /\ table' = table /\ ecs' = ecs /\ proven' = proven
         /\ (handler' = handler /\ writer' = writer) \/ Crash(s)
  BY DEF Resume, Crash

\* ECS, and stuttering.
OtherStep == EcsStabilise \/ EcsDrainOld \/ EcsInactive \/ UNCHANGED vars

LEMMA OtherFrame ==
  ASSUME OtherStep
  PROVE  /\ table' = table /\ handler' = handler /\ waiter' = waiter /\ writer' = writer
         /\ proven \subseteq proven'
  BY DEF OtherStep, EcsStabilise, EcsDrainOld, EcsInactive, EcsOnly, vars

\* Every step is one of these.
LEMMA StepCases ==
  ASSUME [Next]_vars
  PROVE  \/ \E r \in Requests : Handle(r) \/ HandlerFails(r)
         \/ \E s \in Servers, r \in Requests : Wait(s, r) \/ WaiterFails(s, r)
         \/ \E w \in Writers : Write(w) \/ WriterFails(w)
         \/ \E s \in Servers : Resume(s) \/ Crash(s)
         \/ OtherStep
  BY DEF Next, OtherStep

-----------------------------------------------------------------------------
(* Where copies come from                                                  *)

\* Where the snapshots a step leaves behind come from.
LastFrom(r) == handler'[r].last \in {handler[r].last, NoRow, LastDeploy(table)}
CopyFrom(s, r) ==
  \/ waiter'[s][r].dd \in {waiter[s][r].dd, NoRow}
  \/ waiter'[s][r].dd = table'[r]
ReadFrom(w) == writer'[w].dd \in {writer[w].dd, NoRow, LastDeploy(table)}

LEMMA StepLast ==
  ASSUME TypeOK, NEW r \in Requests, NEW pc, handler' = Step(r, pc)
  PROVE  \A q \in Requests : LastFrom(q)
<1>1. \A q \in Requests : handler[q] \in Handler
  BY DEF TypeOK
<1> QED
  BY <1>1 DEF TypeOK, Step, Handler, IdleHandler, LastFrom

LEMMA LastOrigin ==
  ASSUME TypeOK, [Next]_vars
  PROVE  \A q \in Requests : LastFrom(q)
<1>0. handler \in [Requests -> Handler]
  BY DEF TypeOK
<1>1. ASSUME NEW r \in Requests, NEW s \in Servers, ReadLast(r, s)
      PROVE  \A q \in Requests : LastFrom(q)
  BY <1>0, <1>1 DEF ReadLast, LastFrom, Handler
<1>2. ASSUME NEW r \in Requests, NewDeployment(r)
      PROVE  \A q \in Requests : LastFrom(q)
  BY <1>0, <1>2 DEF NewDeployment, LastFrom, Handler
<1>3. ASSUME NEW r \in Requests,
             \/ Prepare(r) \/ Create(r) \/ Update(r) \/ ScaleToZero(r) \/ DeleteService(r)
             \/ WaitInactive(r) \/ Recreate(r) \/ Abort(r) \/ PutDeployment(r)
             \/ HandlerFails(r)
      PROVE  \A q \in Requests : LastFrom(q)
  <2>1. \E pc : handler' = Step(r, pc)
    BY <1>3 DEF Prepare, Create, Update, ScaleToZero, DeleteService, WaitInactive, Recreate,
       Abort, PutDeployment, HandlerFails
  <2> QED
    BY <2>1, StepLast
<1>4. ASSUME NEW s \in Servers, Crash(s)
      PROVE  \A q \in Requests : LastFrom(q)
  BY <1>0, <1>4 DEF Crash, LastFrom, IdleHandler
<1>5. CASE handler' = handler
  BY <1>5 DEF LastFrom
<1>6. ASSUME NEW r \in Requests, Handle(r) \/ HandlerFails(r)
      PROVE  \A q \in Requests : LastFrom(q)
  BY <1>1, <1>2, <1>3, <1>6 DEF Handle
<1> QED
  BY <1>4, <1>5, <1>6, WaiterFrame, WriterFrame, ServerFrame, OtherFrame, StepCases

\* A waiting goroutine changes only itself.
LEMMA SetEffect ==
  ASSUME TypeOK, NEW s \in Servers, NEW r \in Requests, NEW w, Set(s, r, w)
  PROVE  \A t \in Servers, q \in Requests :
           waiter'[t][q] = waiter[t][q] \/ (t = s /\ q = r /\ waiter'[t][q] = w)
<1>1. waiter \in [Servers -> [Requests -> Waiter]] /\ waiter' = [waiter EXCEPT ![s][r] = w]
  BY DEF TypeOK, Set
<1>2. ASSUME NEW t \in Servers, t # s
      PROVE  waiter'[t] = waiter[t]
  BY <1>1, <1>2
<1>3. waiter[s] \in [Requests -> Waiter]
  BY <1>1
<1>4. waiter'[s] = [waiter[s] EXCEPT ![r] = w]
  BY <1>1
<1>5. \A q \in Requests : waiter'[s][q] = IF q = r THEN w ELSE waiter[s][q]
  BY <1>3, <1>4
<1>6. ASSUME NEW t \in Servers, NEW q \in Requests
      PROVE  waiter'[t][q] = waiter[t][q] \/ (t = s /\ q = r /\ waiter'[t][q] = w)
  <2>1. CASE t = s
    BY <1>5, <2>1
  <2>2. CASE t # s
    BY <1>2, <2>2
  <2> QED
    BY <2>1, <2>2
<1> QED
  BY <1>6

\* The new states of a waiting goroutine keep its copy, or drop it.
LEMMA MovedWaiter ==
  ASSUME NEW w \in Waiter, NEW pc, NEW x
  PROVE  LET v == [w EXCEPT !.pc = pc, !.timedOut = x]
         IN  /\ v.pc = pc /\ v.timedOut = x /\ v.dd = w.dd
             /\ v.verdict = w.verdict /\ v.target = w.target
  BY DEF Waiter

LEMMA JudgedWaiter ==
  ASSUME NEW w \in Waiter, NEW pc, NEW x
  PROVE  LET v == [w EXCEPT !.pc = pc, !.verdict = x]
         IN  v.pc = pc /\ v.verdict = x /\ v.dd = w.dd /\ v.target = w.target
  BY DEF Waiter

LEMMA TargetedWaiter ==
  ASSUME NEW w \in Waiter, NEW pc, NEW x
  PROVE  LET v == [w EXCEPT !.pc = pc, !.target = x]
         IN  v.pc = pc /\ v.target = x /\ v.dd = w.dd /\ v.verdict = w.verdict
  BY DEF Waiter

LEMMA FreshWaiter ==
  /\ NoWaiter.pc = "none" /\ NoWaiter.dd = NoRow /\ NoWaiter.target = None
  /\ DoneWaiter.pc = "done" /\ DoneWaiter.dd = NoRow /\ DoneWaiter.target = None
  /\ \A c : LET v == [NoWaiter EXCEPT !.pc = "secondToLast", !.cluster = c]
            IN  v.pc = "secondToLast" /\ v.dd = NoRow /\ v.target = None
  /\ \A d : LET v == [NoWaiter EXCEPT !.pc = "wait", !.dd = d]
            IN  v.pc = "wait" /\ v.dd = d /\ v.target = None
  /\ \A d : LET v == [NoWaiter EXCEPT !.pc = "wait", !.dd = d, !.cluster = TRUE]
            IN  v.pc = "wait" /\ v.dd = d /\ v.target = None
  BY DEF NoWaiter, DoneWaiter

LEMMA CopyOrigin ==
  ASSUME IInv, [Next]_vars
  PROVE  \A t \in Servers, q \in Requests : CopyFrom(t, q)
<1>0. TypeOK /\ waiter \in [Servers -> [Requests -> Waiter]] /\ table \in [Requests -> Row]
  BY DEF TypeOK, IInv
<1>1. ASSUME NEW s \in Servers, NEW r \in Requests, Wait(s, r) \/ WaiterFails(s, r)
      PROVE  \A t \in Servers, q \in Requests : CopyFrom(t, q)
  <2>1. waiter[s][r] \in Waiter
    BY <1>0
  <2>2. ASSUME NEW w, Set(s, r, w), w.dd \in {waiter[s][r].dd, NoRow}
        PROVE  \A t \in Servers, q \in Requests : CopyFrom(t, q)
    BY <1>0, <2>2, SetEffect DEF CopyFrom
  <2>3. CASE WaitUntilServicesStable(s, r)
    <3>1. PICK x : Set(s, r, [waiter[s][r] EXCEPT !.pc = "describe", !.timedOut = x])
      BY <2>3 DEF WaitUntilServicesStable
    <3>2. [waiter[s][r] EXCEPT !.pc = "describe", !.timedOut = x].dd = waiter[s][r].dd
      BY <2>1, MovedWaiter
    <3> QED
      BY <2>2, <3>1, <3>2
  <2>4. CASE Describe(s, r)
    <3>1. PICK x : Set(s, r, [waiter[s][r] EXCEPT !.pc = "set", !.verdict = x])
      BY <2>4 DEF Describe
    <3>2. [waiter[s][r] EXCEPT !.pc = "set", !.verdict = x].dd = waiter[s][r].dd
      BY <2>1, JudgedWaiter
    <3> QED
      BY <2>2, <3>1, <3>2
  <2>5. CASE Set(s, r, DoneWaiter)
    BY <2>2, <2>5, FreshWaiter
  <2>6. CASE SetDeploymentStatus(s, r)
    <3>1. [NoWaiter EXCEPT !.pc = "secondToLast", !.cluster = waiter[s][r].cluster].dd = NoRow
      BY FreshWaiter
    <3> QED
      BY <2>2, <2>5, <2>6, <3>1 DEF SetDeploymentStatus
  <2>7. CASE SecondToLast(s, r)
    <3>1. \A q : [waiter[s][r] EXCEPT !.pc = "rollback", !.target = q].dd = waiter[s][r].dd
      BY <2>1, TargetedWaiter
    <3> QED
      BY <2>2, <2>5, <2>7, <3>1 DEF SecondToLast
  <2>8. CASE WaiterFails(s, r)
    <3>1. [waiter[s][r] EXCEPT !.pc = "describe", !.timedOut = TRUE].dd = waiter[s][r].dd
      BY <2>1, MovedWaiter
    <3> QED
      BY <2>2, <2>5, <2>8, <3>1 DEF WaiterFails
  <2> QED
    BY <1>1, <2>3, <2>4, <2>5, <2>6, <2>7, <2>8 DEF Wait, Rollback
<1>2. ASSUME NEW r \in Requests, PutDeployment(r)
      PROVE  \A t \in Servers, q \in Requests : CopyFrom(t, q)
  <2> DEFINE new == handler[r].new
  <2>1. new.td = r /\ handler[r].srv \in Servers
    BY <1>2 DEF PutDeployment, IInv, HandlersInv, Ended
  <2>2. table'[r] = new
    BY <1>0, <1>2, <2>1 DEF PutDeployment, Stored
  <2>3. CASE UNCHANGED waiter
    BY <2>3 DEF CopyFrom
  <2>4. CASE Set(handler[r].srv, r, [NoWaiter EXCEPT !.pc = "wait", !.dd = new, !.cluster = TRUE])
    <3> DEFINE w == [NoWaiter EXCEPT !.pc = "wait", !.dd = new, !.cluster = TRUE]
    <3>1. w.dd = new
      BY DEF NoWaiter
    <3>2. \A t \in Servers, q \in Requests :
            waiter'[t][q] = waiter[t][q] \/ (q = r /\ waiter'[t][q] = w)
      BY <1>0, <2>1, <2>4, SetEffect
    <3> HIDE DEF w, new
    <3> QED
      BY <2>2, <3>1, <3>2 DEF CopyFrom
  <2> QED
    BY <1>2, <2>3, <2>4 DEF PutDeployment
<1>3. ASSUME NEW s \in Servers, Resume(s)
      PROVE  \A t \in Servers, q \in Requests : CopyFrom(t, q)
  BY <1>0, <1>3 DEF Resume, CopyFrom, NoWaiter
<1>4. ASSUME NEW s \in Servers, Crash(s)
      PROVE  \A t \in Servers, q \in Requests : CopyFrom(t, q)
  BY <1>0, <1>4 DEF Crash, CopyFrom, NoWaiter
<1>5. CASE waiter' = waiter
  BY <1>5 DEF CopyFrom
<1> QED
  BY <1>1, <1>2, <1>3, <1>4, <1>5, HandlerFrame, WriterFrame, OtherFrame, StepCases

LEMMA ReadOrigin ==
  ASSUME TypeOK, [Next]_vars
  PROVE  \A v \in Writers : ReadFrom(v)
<1>0. writer \in [Writers -> Writer]
  BY DEF TypeOK
<1>1. ASSUME NEW w \in Writers, NEW s \in Servers, ReadForWrite(w, s)
      PROVE  \A v \in Writers : ReadFrom(v)
  BY <1>0, <1>1 DEF ReadForWrite, ReadFrom, IdleWriter
<1>2. ASSUME NEW w \in Writers, NEW pc, writer' = WriterStep(w, pc)
      PROVE  \A v \in Writers : ReadFrom(v)
  BY <1>0, <1>2 DEF WriterStep, ReadFrom, IdleWriter, Writer
<1>3. ASSUME NEW s \in Servers, Crash(s)
      PROVE  \A v \in Writers : ReadFrom(v)
  BY <1>0, <1>3 DEF Crash, ReadFrom, IdleWriter
<1>4. CASE writer' = writer
  BY <1>4 DEF ReadFrom
<1>5. ASSUME NEW w \in Writers, Write(w) \/ WriterFails(w)
      PROVE  \A v \in Writers : ReadFrom(v)
  BY <1>1, <1>2, <1>5 DEF Write, WriterFails, SetScalingProperty, ManualScaleService,
     SetManualTasksArn
<1> QED
  BY <1>3, <1>4, <1>5, HandlerFrame, WaiterFrame, ServerFrame, OtherFrame, StepCases

LEMMA CopiesStayCoherent ==
  ASSUME IInv, TypeOK', [Next]_vars
  PROVE  CopiesCoherent'
<1>0. TypeOK /\ RowsKeyed /\ RowsKeyed' /\ TableStep
  BY NextTableStep, RowsStayKeyed DEF IInv
<1>1. \A copy \in Row : UpToDateOrBehind(table, copy) => UpToDateOrBehind(table', copy)
  BY <1>0, CopyStaysCoherent
<1>2. ASSUME NEW r \in Requests
      PROVE  UpToDateOrBehind(table', handler'[r].last)
  <2>1. UpToDateOrBehind(table, handler'[r].last)
    BY <1>0, LastOrigin, ReadIsCoherent DEF LastFrom, IInv, CopiesCoherent
  <2>2. handler'[r].last \in Row
    BY DEF TypeOK, Handler
  <2> QED
    BY <1>1, <2>1, <2>2
<1>3. ASSUME NEW s \in Servers, NEW r \in Requests
      PROVE  UpToDateOrBehind(table', waiter'[s][r].dd)
  <2>1. waiter'[s][r].dd \in Row
    BY DEF TypeOK, Waiter
  <2>2. CASE waiter'[s][r].dd = table'[r]
    BY <1>0, <2>2 DEF RowsKeyed, UpToDateOrBehind
  <2>3. CASE waiter'[s][r].dd \in {waiter[s][r].dd, NoRow}
    BY <1>0, <1>1, <2>1, <2>3, ReadIsCoherent DEF IInv, CopiesCoherent
  <2> QED
    BY <2>2, <2>3, CopyOrigin DEF CopyFrom
<1>4. ASSUME NEW w \in Writers
      PROVE  UpToDateOrBehind(table', writer'[w].dd)
  <2>1. UpToDateOrBehind(table, writer'[w].dd)
    BY <1>0, ReadOrigin, ReadIsCoherent DEF ReadFrom, IInv, CopiesCoherent
  <2>2. writer'[w].dd \in Row
    BY DEF TypeOK, Writer
  <2> QED
    BY <1>1, <2>1, <2>2
<1> QED
  BY <1>2, <1>3, <1>4 DEF CopiesCoherent

-----------------------------------------------------------------------------
(* What a step does to the ECS service                                     *)

\* A task definition comes to run only if its request is still being served
\* (it has no row yet), or if ECS has reported it stable before.
TdOrigin == \/ ecs'.td \in {ecs.td, None}
            \/ ecs'.td \in proven
            \/ /\ ecs'.td \in Requests
               /\ table[ecs'.td] = NoRow
RolledOrigin == ecs'.rolled => ecs'.td \in proven'
EcsStep == TdOrigin /\ RolledOrigin

LEMMA UpdateMoves ==
  ASSUME TypeOK, ecs.rolled => ecs.td \in proven, proven' = proven,
         NEW td \in Requests \cup {None}, UpdateTaskDefinition(td),
         td \in proven \/ (td \in Requests /\ table[td] = NoRow)
  PROVE  EcsStep
<1>0. ecs \in Ecs
  BY DEF TypeOK
<1>1. CASE td = ecs.td
  BY <1>1 DEF UpdateTaskDefinition, EcsStep, TdOrigin, RolledOrigin
<1>2. CASE td # ecs.td
  <2>1. ecs'.td = td /\ ecs'.rolled = FALSE
    BY <1>0, <1>2 DEF UpdateTaskDefinition, Ecs
  <2> QED
    BY <2>1 DEF EcsStep, TdOrigin, RolledOrigin
<1> QED
  BY <1>1, <1>2

LEMMA DesiredMoves ==
  ASSUME TypeOK, ecs.rolled => ecs.td \in proven, proven' = proven,
         NEW n, UpdateDesiredCount(n)
  PROVE  EcsStep
<1>0. ecs \in Ecs
  BY DEF TypeOK
<1>1. ecs'.td = ecs.td /\ (ecs'.rolled => ecs.rolled)
  BY <1>0 DEF UpdateDesiredCount, Ecs
<1> QED
  BY <1>1 DEF EcsStep, TdOrigin, RolledOrigin

LEMMA CreateMoves ==
  ASSUME NEW td \in Requests, CreateService(td), table[td] = NoRow
  PROVE  EcsStep
<1>1. ecs'.td = td /\ ecs'.rolled = FALSE
  BY DEF CreateService
<1> QED
  BY <1>1 DEF EcsStep, TdOrigin, RolledOrigin

LEMMA SameEcs ==
  ASSUME ecs' = ecs, ecs.rolled => ecs.td \in proven, proven \subseteq proven'
  PROVE  EcsStep
  BY DEF EcsStep, TdOrigin, RolledOrigin

LEMMA ProvenGrows ==
  ASSUME [Next]_vars
  PROVE  proven \subseteq proven'
<1>1. CASE proven' = proven
  BY <1>1
<1> QED
  BY <1>1, HandlerFrame, WaiterFrame, WriterFrame, ServerFrame, OtherFrame, StepCases

LEMMA EcsMoves ==
  ASSUME IInv, [Next]_vars
  PROVE  EcsStep
<1>0. TypeOK /\ ecs \in Ecs /\ (ecs.rolled => ecs.td \in proven)
  BY DEF IInv, TypeOK, StableSeen
<1>1. ASSUME NEW r \in Requests, Handle(r) \/ HandlerFails(r)
      PROVE  EcsStep
  <2>1. ASSUME handler[r].pc \in {"create", "update", "recreate"}
        PROVE  table[r] = NoRow
    BY <2>1 DEF IInv, HandlersInv, Ended
  <2>2. proven' = proven
    BY <1>1, HandlerFrame
  <2>3. CASE ecs' = ecs
    BY <1>0, <2>2, <2>3, SameEcs
  <2>4. CASE Create(r) \/ Recreate(r)
    BY <2>1, <2>3, <2>4, CreateMoves DEF Create, Recreate
  <2>5. CASE Update(r)
    BY <1>0, <2>1, <2>2, <2>3, <2>5, UpdateMoves DEF Update
  <2>6. CASE ScaleToZero(r)
    BY <1>0, <2>2, <2>3, <2>6, DesiredMoves DEF ScaleToZero
  <2>7. CASE DeleteService(r)
    <3>1. ecs'.td = ecs.td /\ ecs'.rolled = ecs.rolled
      BY <1>0, <2>7 DEF DeleteService, Ecs
    <3> QED
      BY <1>0, <2>2, <3>1 DEF EcsStep, TdOrigin, RolledOrigin
  <2> QED
    BY <1>1, <2>3, <2>4, <2>5, <2>6, <2>7 DEF Handle, HandlerFails, ReadLast, Prepare,
       WaitInactive, Abort, NewDeployment, PutDeployment
<1>2. ASSUME NEW s \in Servers, NEW r \in Requests, Rollback(s, r)
      PROVE  EcsStep
  <2>1. waiter[s][r].target \in proven /\ waiter[s][r].target \in Requests \cup {None}
    BY <1>2 DEF IInv, WaitersInv, Rollback, TypeOK, Waiter
  <2>2. proven' = proven
    BY <1>2 DEF Rollback
  <2> QED
    BY <1>0, <1>2, <2>1, <2>2, UpdateMoves, SameEcs DEF Rollback
<1>3. ASSUME NEW w \in Writers, ManualScaleService(w)
      PROVE  EcsStep
  BY <1>0, <1>3, DesiredMoves, SameEcs DEF ManualScaleService, WriterOnly
<1>4. CASE EcsStabilise
  <2>1. ecs'.td = ecs.td
    BY <1>0, <1>4 DEF EcsStabilise, Ecs
  <2> QED
    BY <1>4, <2>1 DEF EcsStabilise, EcsStep, TdOrigin, RolledOrigin
<1>5. CASE EcsDrainOld
  <2>1. ecs'.td = ecs.td /\ ecs'.rolled = ecs.rolled /\ proven' = proven
    BY <1>0, <1>5 DEF EcsDrainOld, Ecs
  <2> QED
    BY <1>0, <2>1 DEF EcsStep, TdOrigin, RolledOrigin
<1>6. CASE EcsInactive
  BY <1>6 DEF EcsInactive, NoService, EcsStep, TdOrigin, RolledOrigin
<1>7. CASE ecs' = ecs
  BY <1>0, <1>7, ProvenGrows, SameEcs
<1>8. ASSUME OtherStep PROVE EcsStep
  BY <1>4, <1>5, <1>6, <1>7, <1>8 DEF OtherStep, vars
<1> QED
  BY <1>1, <1>2, <1>3, <1>7, <1>8, WaiterFrame, WriterFrame, ServerFrame, StepCases

-----------------------------------------------------------------------------
(* A deployment becomes successful only by its own goroutine's verdict      *)

LEMMA SuccessStaysStable ==
  ASSUME IInv, [Next]_vars
  PROVE  SuccessWasStable'
<1>0. TypeOK /\ RowsKeyed /\ table \in [Requests -> Row] /\ SuccessWasStable
  BY DEF IInv, TypeOK
<1>1. proven \subseteq proven'
  BY ProvenGrows
<1>2. ASSUME NEW row, NEW d, table' = Stored(table, row), row.td = d,
             row.status = "success" => d \in proven
      PROVE  SuccessWasStable'
  BY <1>0, <1>1, <1>2 DEF Stored, SuccessWasStable
<1>3. CASE table' = table
  BY <1>0, <1>1, <1>3 DEF SuccessWasStable
<1>4. ASSUME NEW r \in Requests, Abort(r)
      PROVE  SuccessWasStable'
  <2> DEFINE last == handler[r].last
             row == [Bumped(last) EXCEPT !.status = "aborted"]
  <2>1. last \in Row
    BY <1>0 DEF TypeOK, Handler
  <2>2. row.status = "aborted"
    BY <2>1, BumpedType DEF Row
  <2>3. table' = table \/ table' = Stored(table, row)
    BY <1>4 DEF Abort
  <2> HIDE DEF row, last
  <2> QED
    BY <1>2, <1>3, <2>2, <2>3
<1>5. ASSUME NEW r \in Requests, PutDeployment(r)
      PROVE  SuccessWasStable'
  <2>1. handler[r].new.status = "running" /\ table' = Stored(table, handler[r].new)
    BY <1>5 DEF IInv, HandlersInv, PutDeployment
  <2> QED
    BY <1>2, <2>1
<1>6. ASSUME NEW s \in Servers, NEW r \in Requests, SetDeploymentStatus(s, r)
      PROVE  SuccessWasStable'
  <2> DEFINE w == waiter[s][r]
             st == IF w.verdict = "success" THEN "success" ELSE "failed"
             row == [Bumped(w.dd) EXCEPT !.status = st]
  <2>1. w.dd \in Row /\ w.dd.td = r /\ (w.verdict = "success" => r \in proven)
    BY <1>0, <1>6 DEF IInv, TypeOK, Waiter, WaitersInv, StableSeen, SetDeploymentStatus
  <2>2. row.status = st /\ row.td = r
    <3>1. Bumped(w.dd) \in Row /\ Bumped(w.dd).td = r
      BY <2>1, BumpedType
    <3> QED
      BY <3>1 DEF Row
  <2>3. table' = table \/ table' = Stored(table, row)
    BY <1>6 DEF SetDeploymentStatus
  <2>4. row.status = "success" => r \in proven
    BY <2>1, <2>2
  <2> HIDE DEF row, st, w
  <2> QED
    BY <1>2, <1>3, <2>2, <2>3, <2>4
<1>7. ASSUME NEW w \in Writers, SetScalingProperty(w) \/ SetManualTasksArn(w)
      PROVE  SuccessWasStable'
  <2> DEFINE dd == writer[w].dd
             scaled == [Bumped(dd) EXCEPT !.desired = Count[w]]
             tasked == [Bumped(dd) EXCEPT !.tasks = @ \cup {w}]
  <2>1. dd \in Row /\ dd # NoRow /\ UpToDateOrBehind(table, dd)
    BY <1>0, <1>7 DEF IInv, TypeOK, Writer, WritersInv, CopiesCoherent, SetScalingProperty,
       SetManualTasksArn
  <2>2. /\ scaled.status = dd.status /\ scaled.td = dd.td
        /\ tasked.status = dd.status /\ tasked.td = dd.td
    <3>1. Bumped(dd) \in Row /\ Bumped(dd).status = dd.status /\ Bumped(dd).td = dd.td
      BY <2>1, BumpedType
    <3> QED
      BY <3>1 DEF Row
  <2>3. \/ table' = table
        \/ Matches(table, dd) /\ (table' = Stored(table, scaled) \/ table' = Stored(table, tasked))
    BY <1>7 DEF SetScalingProperty, SetManualTasksArn
  <2>4. ASSUME Matches(table, dd)
        PROVE  dd.status = "success" => dd.td \in proven
    <3>1. dd.td \in Requests /\ dd = table[dd.td]
      BY <1>0, <2>1, <2>4 DEF UpToDateOrBehind, Matches, Row
    <3> QED
      BY <1>0, <3>1 DEF SuccessWasStable
  <2> HIDE DEF dd, scaled, tasked
  <2> QED
    BY <1>2, <1>3, <2>2, <2>3, <2>4
<1> QED
  BY <1>3, <1>4, <1>5, <1>6, <1>7, HandlerFrame, WaiterFrame, WriterFrame, ServerFrame,
     OtherFrame, StepCases

-----------------------------------------------------------------------------
(* The goroutines that wait                                                *)

\* What WaitersInv and StableSeen say of one goroutine, as a function of the
\* state it depends on.
WaiterInv(tbl, prv, td, w, r) ==
  /\ w.pc # "none" => tbl[r] # NoRow
  /\ w.pc \in {"wait", "describe", "set"} => w.dd.td = r /\ w.dd.status = "running"
  /\ w.pc \in {"secondToLast", "rollback"} => tbl[r].status = "failed"
  /\ w.pc = "rollback" => w.target # None
  /\ w.target # None => w.target \in prv /\ w.target # r
  /\ w.pc = "describe" /\ ~w.timedOut => r \in prv \/ td # r
  /\ w.pc = "set" /\ w.verdict = "success" => r \in prv

LEMMA WaiterInvs ==
  (\A s \in Servers, r \in Requests : WaiterInv(table, proven, ecs.td, waiter[s][r], r))
  <=> /\ WaitersInv
      /\ \A s \in Servers, r \in Requests : LET w == waiter[s][r] IN
           /\ w.pc = "describe" /\ ~w.timedOut => r \in proven \/ ecs.td # r
           /\ w.pc = "set" /\ w.verdict = "success" => r \in proven
  BY DEF WaiterInv, WaitersInv

\* A goroutine that does not move is not disturbed by what the others do.
LEMMA WaiterUndisturbed ==
  ASSUME IInv, [Next]_vars, NEW r \in Requests, NEW w,
         WaiterInv(table, proven, ecs.td, w, r)
  PROVE  WaiterInv(table', proven', ecs'.td, w, r)
<1>1. TableStep /\ EcsStep /\ proven \subseteq proven'
  BY NextTableStep, EcsMoves, ProvenGrows
<1>2. r # None
  BY NoneAssumption
<1>3. table[r] # NoRow => table'[r] # NoRow
  BY <1>1, <1>2 DEF TableStep, NoRow
<1>4. table[r].status = "failed" => table'[r].status = "failed"
  BY <1>1 DEF TableStep, StatusStep
<1>5. table[r] # NoRow /\ ecs'.td = r => ecs.td = r \/ r \in proven'
  BY <1>1, <1>2 DEF EcsStep, TdOrigin
<1> QED
  BY <1>1, <1>3, <1>4, <1>5 DEF WaiterInv

\* A goroutine that moves keeps its own invariant.
LEMMA WaiterAdvances ==
  ASSUME IInv, [Next]_vars, NEW s \in Servers, NEW r \in Requests,
         Wait(s, r) \/ WaiterFails(s, r)
  PROVE  \E w : Set(s, r, w) /\ WaiterInv(table', proven', ecs'.td, w, r)
<1> DEFINE old == waiter[s][r]
           Kept(w) == WaiterInv(table', proven', ecs'.td, w, r)
<1>0. /\ TypeOK /\ RowsKeyed /\ table \in [Requests -> Row] /\ old \in Waiter
      /\ WaiterInv(table, proven, ecs.td, old, r)
  BY WaiterInvs DEF IInv, TypeOK, StableSeen
<1>1. TableStep /\ r # None /\ proven \subseteq proven'
  BY NextTableStep, NoneAssumption, ProvenGrows
<1>2. old.pc # "none" => table'[r] # NoRow
  BY <1>0, <1>1 DEF WaiterInv, TableStep, NoRow
<1>3. old.pc # "none" => Kept(DoneWaiter)
  BY <1>2, FreshWaiter DEF WaiterInv
<1>4. CASE Set(s, r, DoneWaiter) /\ old.pc # "none"
  BY <1>3, <1>4
<1>5. CASE WaitUntilServicesStable(s, r)
  <2> DEFINE w == [old EXCEPT !.pc = "describe", !.timedOut = ~Stable]
  <2>1. /\ w.pc = "describe" /\ w.timedOut = ~Stable
        /\ w.dd = old.dd /\ w.target = old.target
    BY <1>0, MovedWaiter
  <2>2. Set(s, r, w) /\ old.pc = "wait" /\ table' = table /\ ecs' = ecs /\ proven' = proven
    BY <1>5 DEF WaitUntilServicesStable
  <2>3. Stable => ecs.td \in proven
    BY DEF Stable, IInv, StableSeen
  <2>4. old.dd.td = r /\ old.dd.status = "running" /\ table[r] # NoRow
    BY <1>0, <2>2 DEF WaiterInv
  <2>5. old.target # None => old.target \in proven /\ old.target # r
    BY <1>0 DEF WaiterInv
  <2> HIDE DEF w, old
  <2> QED
    BY <2>1, <2>2, <2>3, <2>4, <2>5 DEF WaiterInv
<1>6. CASE Describe(s, r)
  <2>1. PICK tasks \in BOOLEAN :
          Set(s, r, [old EXCEPT !.pc = "set", !.verdict = VerdictOn(r, old.timedOut, tasks)])
    BY <1>6 DEF Describe
  <2> DEFINE v == VerdictOn(r, old.timedOut, tasks)
             w == [old EXCEPT !.pc = "set", !.verdict = v]
  <2>2. /\ w.pc = "set" /\ w.verdict = v
        /\ w.dd = old.dd /\ w.target = old.target
    BY <1>0, JudgedWaiter
  <2>3. old.pc = "describe" /\ table' = table /\ ecs' = ecs /\ proven' = proven
    BY <1>6 DEF Describe
  <2>4. v = "success" => ecs.td = r /\ ~old.timedOut
    BY DEF VerdictOn
  <2>5. v = "success" => r \in proven
    BY <1>0, <2>3, <2>4 DEF WaiterInv
  <2>6. old.dd.td = r /\ old.dd.status = "running" /\ table[r] # NoRow
    BY <1>0, <2>3 DEF WaiterInv
  <2>7. old.target # None => old.target \in proven /\ old.target # r
    BY <1>0 DEF WaiterInv
  <2> HIDE DEF w, v, old
  <2>8. WaiterInv(table, proven, ecs.td, w, r)
    BY <2>2, <2>5, <2>6, <2>7 DEF WaiterInv
  <2>9. Set(s, r, w)
    BY <2>1 DEF w, v
  <2> QED
    BY <2>3, <2>8, <2>9
<1>7. CASE SetDeploymentStatus(s, r)
  <2> DEFINE w == [NoWaiter EXCEPT !.pc = "secondToLast", !.cluster = old.cluster]
             st == IF old.verdict = "success" THEN "success" ELSE "failed"
             row == [Bumped(old.dd) EXCEPT !.status = st]
  <2>1. old.pc = "set"
    BY <1>7 DEF SetDeploymentStatus
  <2>2. old.dd \in Row /\ old.dd.td = r
    BY <1>0, <2>1 DEF Waiter, WaiterInv
  <2>3. row.status = st /\ row.td = r
    <3>1. Bumped(old.dd) \in Row /\ Bumped(old.dd).td = r
      BY <2>2, BumpedType
    <3> QED
      BY <3>1 DEF Row
  <2>4. \/ Set(s, r, DoneWaiter)
        \/ Set(s, r, w) /\ old.verdict \in RollsBack /\ table' = Stored(table, row)
    BY <1>7 DEF SetDeploymentStatus
  <2>5. w.pc = "secondToLast" /\ w.target = None
    BY FreshWaiter
  <2>6. old.verdict \in RollsBack => st = "failed"
    BY DEF RollsBack
  <2> HIDE DEF w, st, row, old
  <2>7. ASSUME table' = Stored(table, row), old.verdict \in RollsBack
        PROVE  table'[r].status = "failed"
    BY <1>0, <2>3, <2>6, <2>7 DEF Stored
  <2>8. ASSUME table' = Stored(table, row), old.verdict \in RollsBack
        PROVE  Kept(w)
    BY <1>2, <2>1, <2>5, <2>7, <2>8 DEF WaiterInv
  <2> QED
    BY <1>3, <2>1, <2>4, <2>8
<1>8. CASE SecondToLast(s, r)
  <2>1. /\ old.pc = "secondToLast" /\ table' = table /\ ecs' = ecs /\ proven' = proven
        /\ \/ Set(s, r, DoneWaiter)
           \/ \E q \in RollbackTargets :
                Set(s, r, [old EXCEPT !.pc = "rollback", !.target = q])
    BY <1>8 DEF SecondToLast
  <2>2. ASSUME NEW q \in RollbackTargets
        PROVE  WaiterInv(table, proven, ecs.td, [old EXCEPT !.pc = "rollback", !.target = q], r)
    <3> DEFINE w == [old EXCEPT !.pc = "rollback", !.target = q]
    <3>1. w.pc = "rollback" /\ w.target = q
      BY <1>0, TargetedWaiter
    <3>2. q \in Requests /\ table[q].status = "success"
      BY DEF RollbackTargets, NthNewest, Written
    <3>3. q \in proven /\ q # None
      BY <3>2, NoneAssumption DEF IInv, SuccessWasStable
    <3>4. table[r].status = "failed" /\ table[r] # NoRow
      BY <1>0, <2>1 DEF WaiterInv
    <3> HIDE DEF w
    <3>5. q # r
      BY <3>2, <3>4
    <3>6. WaiterInv(table, proven, ecs.td, w, r)
      BY <3>1, <3>3, <3>4, <3>5 DEF WaiterInv
    <3> QED
      BY <3>6 DEF w
  <2> HIDE DEF old
  <2> QED
    BY <1>3, <2>1, <2>2
<1>9. CASE Rollback(s, r)
  BY <1>4, <1>9 DEF Rollback
<1>10. CASE WaiterFails(s, r)
  <2> DEFINE w == [old EXCEPT !.pc = "describe", !.timedOut = TRUE]
  <2>1. /\ w.pc = "describe" /\ w.timedOut = TRUE
        /\ w.dd = old.dd /\ w.target = old.target
    BY <1>0, MovedWaiter
  <2>2. /\ old.pc # "none" /\ table' = table /\ ecs' = ecs /\ proven' = proven
        /\ Set(s, r, DoneWaiter) \/ (old.pc = "wait" /\ Set(s, r, w))
    BY <1>10 DEF WaiterFails
  <2>3. old.pc = "wait" => old.dd.td = r /\ old.dd.status = "running" /\ table[r] # NoRow
    BY <1>0 DEF WaiterInv
  <2>4. old.target # None => old.target \in proven /\ old.target # r
    BY <1>0 DEF WaiterInv
  <2> HIDE DEF w, old
  <2>5. old.pc = "wait" => WaiterInv(table, proven, ecs.td, w, r)
    BY <2>1, <2>3, <2>4 DEF WaiterInv
  <2> QED
    BY <1>3, <2>2, <2>5
<1> QED
  BY <1>5, <1>6, <1>7, <1>8, <1>9, <1>10 DEF Wait

LEMMA WaitersStay ==
  ASSUME IInv, TypeOK', [Next]_vars
  PROVE  WaitersInv' /\ StableSeen'
<1> DEFINE Kept(w, r) == WaiterInv(table', proven', ecs'.td, w, r)
<1>0. TypeOK /\ RowsKeyed /\ TableStep
  BY NextTableStep DEF IInv
<1>1. \A s \in Servers, r \in Requests : Kept(waiter[s][r], r)
  BY WaiterInvs, WaiterUndisturbed DEF IInv, StableSeen
<1>2. \A r \in Requests : Kept(NoWaiter, r)
  BY FreshWaiter DEF WaiterInv
<1>3. \A s \in Servers, r \in Requests : Kept(waiter'[s][r], r)
  <2> HIDE DEF Kept
  <2>1. ASSUME NEW s \in Servers, NEW r \in Requests, Wait(s, r) \/ WaiterFails(s, r)
        PROVE  \A t \in Servers, q \in Requests : Kept(waiter'[t][q], q)
    <3>1. PICK w : Set(s, r, w) /\ Kept(w, r)
      BY <2>1, WaiterAdvances DEF Kept
    <3> QED
      BY <1>0, <1>1, <3>1, SetEffect
  <2>2. ASSUME NEW r \in Requests, PutDeployment(r)
        PROVE  \A t \in Servers, q \in Requests : Kept(waiter'[t][q], q)
    <3> DEFINE new == handler[r].new
               w == [NoWaiter EXCEPT !.pc = "wait", !.dd = new, !.cluster = TRUE]
    <3>1. new.td = r /\ new.status = "running" /\ handler[r].srv \in Servers
      BY <2>2 DEF PutDeployment, IInv, HandlersInv, Ended
    <3>2. table'[r] = new
      BY <1>0, <2>2, <3>1 DEF PutDeployment, Stored, TypeOK
    <3>3. w.pc = "wait" /\ w.dd = new /\ w.target = None
      BY FreshWaiter
    <3>4. UNCHANGED waiter \/ Set(handler[r].srv, r, w)
      BY <2>2 DEF PutDeployment
    <3> HIDE DEF w, new
    <3>5. Kept(w, r)
      BY <3>1, <3>2, <3>3 DEF Kept, WaiterInv, NoRow
    <3> QED
      BY <1>0, <1>1, <3>1, <3>4, <3>5, SetEffect
  <2>3. ASSUME NEW s \in Servers, Resume(s)
        PROVE  \A t \in Servers, q \in Requests : Kept(waiter'[t][q], q)
    <3>1. table' = table
      BY <2>3 DEF Resume
    <3>2. ASSUME NEW q \in Requests, Resumes(q)
          PROVE  Kept([NoWaiter EXCEPT !.pc = "wait", !.dd = table[q]], q)
      <4>1. table[q].status = "running" /\ table[q].td = q /\ table[q] # NoRow
        BY <1>0, <3>2 DEF Resumes, RowsKeyed, NoRow
      <4> DEFINE w == [NoWaiter EXCEPT !.pc = "wait", !.dd = table[q]]
      <4>2. w.pc = "wait" /\ w.dd = table[q] /\ w.target = None
        BY FreshWaiter
      <4> HIDE DEF w
      <4>3. Kept(w, q)
        BY <3>1, <4>1, <4>2 DEF Kept, WaiterInv
      <4> QED
        BY <4>3 DEF w
    <3>3. /\ waiter \in [Servers -> [Requests -> Waiter]]
          /\ waiter' = [waiter EXCEPT ![s] = [r \in Requests |->
               IF Resumes(r) THEN [NoWaiter EXCEPT !.pc = "wait", !.dd = table[r]] ELSE @[r]]]
      BY <1>0, <2>3 DEF Resume, TypeOK
    <3>4. \A q \in Requests : \/ waiter'[s][q] = waiter[s][q]
                              \/ /\ Resumes(q)
                                 /\ waiter'[s][q] = [NoWaiter EXCEPT !.pc = "wait", !.dd = table[q]]
      BY <3>3
    <3>5. \A t \in Servers : t # s => waiter'[t] = waiter[t]
      BY <3>3
    <3> QED
      BY <1>1, <3>2, <3>4, <3>5
  <2>4. ASSUME NEW s \in Servers, Crash(s)
        PROVE  \A t \in Servers, q \in Requests : Kept(waiter'[t][q], q)
    <3>1. /\ \A q \in Requests : waiter'[s][q] = NoWaiter
          /\ \A t \in Servers : t # s => waiter'[t] = waiter[t]
      BY <1>0, <2>4 DEF Crash, TypeOK
    <3> QED
      BY <1>1, <1>2, <3>1
  <2>5. CASE waiter' = waiter
    BY <1>1, <2>5
  <2> QED
    BY <2>1, <2>2, <2>3, <2>4, <2>5, HandlerFrame, WriterFrame, OtherFrame, StepCases
<1>4. WaitersInv'
  BY <1>3 DEF WaiterInv, WaitersInv
<1>5. StableSeen'
  BY <1>3, EcsMoves DEF WaiterInv, StableSeen, EcsStep, RolledOrigin
<1> QED
  BY <1>4, <1>5

-----------------------------------------------------------------------------
(* The requests                                                            *)

\* What HandlersInv says of one request.
HandlerInv(tbl, h, r) ==
  /\ h.pc \notin Ended => tbl[r] = NoRow
  /\ h.pc \notin Ended \cup {"idle"} => h.srv \in Servers
  /\ h.pc = "abort" => h.last.status = "running"
  /\ h.pc = "put" => h.new.td = r /\ h.new.status = "running" /\ h.new.version = 1

\* Where a moved handler comes from.
LEMMA StepEffect ==
  ASSUME TypeOK, NEW r \in Requests, NEW pc, handler' = Step(r, pc)
  PROVE  /\ \A q \in Requests : q # r => handler'[q] = handler[q]
         /\ handler'[r].pc = pc
         /\ pc \notin Ended => handler'[r].srv = handler[r].srv /\ handler'[r].new = handler[r].new
         /\ pc \notin Ended \cup {"new"} => handler'[r].last = handler[r].last
<1>1. handler[r] \in Handler /\ handler \in [Requests -> Handler]
  BY DEF TypeOK
<1>2. handler'[r] = CASE pc \in Ended -> [IdleHandler EXCEPT !.pc = pc]
                      [] pc = "new" -> [handler[r] EXCEPT !.pc = pc, !.last = NoRow]
                      [] OTHER -> [handler[r] EXCEPT !.pc = pc]
  BY <1>1 DEF Step
<1>3. \A q \in Requests : q # r => handler'[q] = handler[q]
  BY <1>1 DEF Step
<1>4. CASE pc \in Ended
  BY <1>2, <1>3, <1>4 DEF IdleHandler
<1>5. CASE pc = "new"
  BY <1>1, <1>2, <1>3, <1>5 DEF Handler, Ended
<1>6. CASE pc \notin Ended \cup {"new"}
  BY <1>1, <1>2, <1>3, <1>6 DEF Handler
<1> QED
  BY <1>4, <1>5, <1>6

LEMMA HandlersStay ==
  ASSUME IInv, [Next]_vars
  PROVE  HandlersInv'
<1>0. TypeOK /\ TableStep /\ NewRowsPut /\ handler \in [Requests -> Handler]
  BY NextTableStep DEF IInv, TypeOK
<1>1. \A q \in Requests : HandlerInv(table, handler[q], q)
  BY DEF IInv, HandlersInv, HandlerInv
<1>2. \A q \in Requests : table'[q] = table[q] \/ handler'[q].pc \in Ended \/ table[q] # NoRow
  BY <1>0 DEF NewRowsPut
<1>3. ASSUME NEW q \in Requests, handler'[q] = handler[q]
      PROVE  HandlerInv(table', handler'[q], q)
  BY <1>1, <1>2, <1>3 DEF HandlerInv
<1>4. ASSUME NEW r \in Requests, NEW pc, handler' = Step(r, pc), handler[r].pc \notin Ended \cup {"idle"},
             pc = "abort" => handler[r].last.status = "running", pc # "put"
      PROVE  \A q \in Requests : HandlerInv(table', handler'[q], q)
  <2>1. HandlerInv(table', handler'[r], r)
    <3>1. /\ handler'[r].pc = pc
          /\ pc \notin Ended => handler'[r].srv = handler[r].srv
          /\ pc \notin Ended \cup {"new"} => handler'[r].last = handler[r].last
      BY <1>0, <1>4, StepEffect
    <3>2. handler[r].srv \in Servers /\ table[r] = NoRow
      BY <1>1, <1>4 DEF HandlerInv
    <3>3. pc \notin Ended => table'[r] = NoRow
      BY <1>2, <3>1, <3>2
    <3>4. pc = "abort" => handler'[r].last.status = "running"
      BY <1>4, <3>1 DEF Ended
    <3> QED
      BY <1>4, <3>1, <3>2, <3>3, <3>4 DEF HandlerInv
  <2>2. \A q \in Requests : q # r => handler'[q] = handler[q]
    BY <1>0, <1>4, StepEffect
  <2> QED
    BY <1>3, <2>1, <2>2
<1>5. ASSUME NEW r \in Requests, NEW s \in Servers, ReadLast(r, s)
      PROVE  \A q \in Requests : HandlerInv(table', handler'[q], q)
  <2>1. /\ handler'[r].pc = "prepare" /\ handler'[r].srv = s
        /\ \A q \in Requests : q # r => handler'[q] = handler[q]
    BY <1>0, <1>5 DEF ReadLast, Handler
  <2>2. table' = table /\ table[r] = NoRow
    BY <1>1, <1>5 DEF ReadLast, HandlerOnly, HandlerInv, Ended
  <2>3. HandlerInv(table', handler'[r], r)
    BY <2>1, <2>2 DEF HandlerInv
  <2> QED
    BY <1>3, <2>1, <2>3
<1>6. ASSUME NEW r \in Requests, NewDeployment(r)
      PROVE  \A q \in Requests : HandlerInv(table', handler'[q], q)
  <2>1. PICK last : handler' = [handler EXCEPT ![r] = [@ EXCEPT !.pc = "put",
                                  !.new = NewRow(r, clock', last, Wanted[r])]]
    BY <1>6 DEF NewDeployment
  <2> DEFINE new == NewRow(r, clock', last, Wanted[r])
  <2>2. /\ handler'[r].pc = "put" /\ handler'[r].new = new /\ handler'[r].srv = handler[r].srv
        /\ \A q \in Requests : q # r => handler'[q] = handler[q]
    BY <1>0, <2>1 DEF Handler
  <2>3. new.td = r /\ new.status = "running" /\ new.version = 1
    BY DEF NewRow
  <2>4. table' = table /\ table[r] = NoRow /\ handler[r].srv \in Servers
    BY <1>1, <1>6 DEF NewDeployment, HandlerInv, Ended
  <2>5. HandlerInv(table', handler'[r], r)
    BY <2>2, <2>3, <2>4 DEF HandlerInv
  <2> QED
    BY <1>3, <2>2, <2>5
<1>7. ASSUME NEW r \in Requests,
             \/ Prepare(r) \/ Create(r) \/ Update(r) \/ ScaleToZero(r) \/ DeleteService(r)
             \/ WaitInactive(r) \/ Recreate(r) \/ Abort(r) \/ PutDeployment(r)
             \/ HandlerFails(r)
      PROVE  \A q \in Requests : HandlerInv(table', handler'[q], q)
  <2>1. handler[r].pc \notin Ended \cup {"idle"}
    BY <1>7 DEF Prepare, Create, Update, ScaleToZero, DeleteService, WaitInactive, Recreate,
       Abort, PutDeployment, HandlerFails, Ended, Logged
  <2>2. PICK pc : handler' = Step(r, pc) /\ (pc = AfterUpdate(r) \/ pc \notin {"abort", "put"})
    BY <1>7 DEF Prepare, Create, Update, ScaleToZero, DeleteService, WaitInactive, Recreate,
       Abort, PutDeployment, HandlerFails
  <2>3. pc = "abort" => handler[r].last.status = "running"
    BY <2>2 DEF AfterUpdate
  <2>4. pc # "put"
    BY <2>2 DEF AfterUpdate
  <2> QED
    BY <1>4, <2>1, <2>2, <2>3, <2>4
<1>8. ASSUME NEW s \in Servers, Crash(s)
      PROVE  \A q \in Requests : HandlerInv(table', handler'[q], q)
  <2>1. \A q \in Requests : handler'[q] = handler[q] \/ handler'[q].pc = "dead"
    BY <1>0, <1>8 DEF Crash, IdleHandler
  <2>2. ASSUME NEW q \in Requests, handler'[q].pc = "dead"
        PROVE  HandlerInv(table', handler'[q], q)
    BY <2>2 DEF HandlerInv, Ended
  <2> QED
    BY <1>3, <2>1, <2>2
<1>9. ASSUME handler' = handler
      PROVE  \A q \in Requests : HandlerInv(table', handler'[q], q)
  BY <1>3, <1>9
<1>10. ASSUME NEW r \in Requests, Handle(r) \/ HandlerFails(r)
       PROVE  \A q \in Requests : HandlerInv(table', handler'[q], q)
  BY <1>5, <1>6, <1>7, <1>10 DEF Handle
<1>11. \A q \in Requests : HandlerInv(table', handler'[q], q)
  BY <1>8, <1>9, <1>10, WaiterFrame, WriterFrame, ServerFrame, OtherFrame, StepCases
<1> QED
  BY <1>11 DEF HandlersInv, HandlerInv

LEMMA WritersStay ==
  ASSUME IInv, [Next]_vars
  PROVE  WritersInv'
<1>0. TypeOK /\ writer \in [Writers -> Writer] /\ WritersInv
  BY DEF IInv, TypeOK
<1>1. ASSUME NEW w \in Writers, NEW s \in Servers, ReadForWrite(w, s)
      PROVE  WritersInv'
  BY <1>0, <1>1 DEF ReadForWrite, WritersInv, IdleWriter
<1>2. ASSUME NEW w \in Writers, NEW pc, writer' = WriterStep(w, pc), pc # "put"
      PROVE  WritersInv'
  BY <1>0, <1>2 DEF WriterStep, WritersInv, IdleWriter, Writer, Ended
<1>3. ASSUME NEW s \in Servers, Crash(s)
      PROVE  WritersInv'
  BY <1>0, <1>3 DEF Crash, WritersInv, IdleWriter
<1>4. CASE writer' = writer
  BY <1>0, <1>4 DEF WritersInv
<1>5. ASSUME NEW w \in Writers, Write(w) \/ WriterFails(w)
      PROVE  WritersInv'
  BY <1>1, <1>2, <1>5 DEF Write, WriterFails, SetScalingProperty, ManualScaleService,
     SetManualTasksArn
<1> QED
  BY <1>3, <1>4, <1>5, HandlerFrame, WaiterFrame, ServerFrame, OtherFrame, StepCases

-----------------------------------------------------------------------------
(* Safety                                                                  *)

LEMMA InitInv == Init => IInv
<1> SUFFICES ASSUME Init
             PROVE  IInv
  OBVIOUS
<1>1. TypeOK
  BY InitTypes
<1>2. RowsKeyed /\ SuccessWasStable /\ HandlersInv
  BY DEF Init, RowsKeyed, SuccessWasStable, NoRow, HandlersInv, IdleHandler, Ended
<1>3. CopiesCoherent
  BY DEF Init, CopiesCoherent, UpToDateOrBehind, IdleHandler, NoWaiter, IdleWriter
<1>4. WaitersInv /\ WritersInv
  BY DEF Init, WaitersInv, WritersInv, NoWaiter, IdleWriter
<1>5. StableSeen
  BY DEF Init, StableSeen, NoService, NoWaiter
<1> QED
  BY <1>1, <1>2, <1>3, <1>4, <1>5 DEF IInv

LEMMA InvInductive ==
  ASSUME IInv, [Next]_vars
  PROVE  IInv'
<1>1. TypeOK'
  BY TypeInductive DEF IInv
<1> QED
  BY <1>1, RowsStayKeyed, CopiesStayCoherent, HandlersStay, WaitersStay, WritersStay,
     SuccessStaysStable DEF IInv

\* The inductive invariant holds in every reachable state.
THEOREM InvCorrect == Spec => []IInv
  BY InitInv, InvInductive, PTL DEF Spec

\* The optimistic lock on the rows works for any number of goroutines and
\* servers: every copy a goroutine holds of a row is that row, or is behind it
\* in version, so that no write based on an old copy is accepted.
THEOREM OptimisticLock == Spec => []CopiesCoherent
  BY InvCorrect, PTL DEF IInv

\* A deployment is reported successful only if ECS reported its own task
\* definition stable.
THEOREM NoFalseSuccess == Spec => []SuccessWasStable
  BY InvCorrect, PTL DEF IInv

\* A rollback goes to a version that was stable once, and not to the one that
\* failed.
THEOREM RollbackSound == Spec => []RollbackGoesToStable
<1>1. IInv => RollbackGoesToStable
  BY DEF IInv, WaitersInv, RollbackGoesToStable
<1> QED
  BY <1>1, InvCorrect, PTL

-----------------------------------------------------------------------------
(* The manual tasks: since copies are coherent, a put that succeeds writes *)
(* a row that lists at least the tasks of the row it replaces.             *)

TasksStay == \A q \in Requests : table[q].tasks \subseteq table'[q].tasks

LEMMA PutKeepsTasks ==
  ASSUME TypeOK, NEW copy \in Row, copy # NoRow, UpToDateOrBehind(table, copy), Matches(table, copy),
         NEW row, row.td = copy.td, copy.tasks \subseteq row.tasks, table' = Stored(table, row)
  PROVE  TasksStay /\ copy.td \in Requests /\ table'[copy.td] = row
<1>1. copy.td \in Requests /\ copy = table[copy.td]
  BY DEF UpToDateOrBehind, Matches, TypeOK, Row
<1> QED
  BY <1>1 DEF TasksStay, Stored, TypeOK

\* What the puts of the table change in a copy.
LEMMA BumpedKeepsTasks ==
  ASSUME NEW copy \in Row
  PROVE  /\ \A st : LET row == [Bumped(copy) EXCEPT !.status = st] IN
              row.td = copy.td /\ row.tasks = copy.tasks
         /\ \A n : LET row == [Bumped(copy) EXCEPT !.desired = n] IN
              row.td = copy.td /\ row.tasks = copy.tasks
         /\ \A w : LET row == [Bumped(copy) EXCEPT !.tasks = @ \cup {w}] IN
              row.td = copy.td /\ row.tasks = copy.tasks \cup {w}
  BY DEF Bumped, Row

LEMMA HandlerKeepsTasks ==
  ASSUME IInv, NEW r \in Requests, Handle(r) \/ HandlerFails(r)
  PROVE  TasksStay
<1>1. TypeOK /\ handler[r] \in Handler
  BY DEF IInv, TypeOK
<1>2. CASE Abort(r)
  <2> DEFINE last == handler[r].last
             row == [Bumped(last) EXCEPT !.status = "aborted"]
  <2>1. last \in Row /\ UpToDateOrBehind(table, last) /\ last # NoRow
    BY <1>1, <1>2 DEF IInv, CopiesCoherent, HandlersInv, Abort, Handler, NoRow
  <2>2. table' = table \/ (Matches(table, last) /\ table' = Stored(table, row))
    BY <1>2 DEF Abort
  <2>3. row.td = last.td /\ last.tasks \subseteq row.tasks
    BY <2>1, BumpedKeepsTasks
  <2> HIDE DEF row, last
  <2>4. CASE table' = table
    BY <2>4 DEF TasksStay
  <2> QED
    BY <1>1, <2>1, <2>2, <2>3, <2>4, PutKeepsTasks
<1>3. CASE PutDeployment(r)
  <2>1. table[r] = NoRow /\ handler[r].new.td = r /\ table' = Stored(table, handler[r].new)
    BY <1>3 DEF IInv, HandlersInv, PutDeployment, Ended
  <2> QED
    BY <1>1, <2>1 DEF TasksStay, Stored, TypeOK, NoRow
<1>4. CASE table' = table
  BY <1>4 DEF TasksStay
<1> QED
  BY <1>2, <1>3, <1>4, HandlerFrame

LEMMA WaiterKeepsTasks ==
  ASSUME IInv, NEW s \in Servers, NEW r \in Requests, Wait(s, r) \/ WaiterFails(s, r)
  PROVE  TasksStay
<1>1. CASE SetDeploymentStatus(s, r)
  <2> DEFINE dd == waiter[s][r].dd
             row == [Bumped(dd) EXCEPT !.status = IF waiter[s][r].verdict = "success" THEN "success" ELSE "failed"]
  <2>1. TypeOK /\ dd \in Row /\ UpToDateOrBehind(table, dd) /\ dd # NoRow
    <3>1. TypeOK /\ waiter[s][r] \in Waiter
      BY DEF IInv, TypeOK
    <3> QED
      BY <1>1, <3>1 DEF IInv, CopiesCoherent, WaitersInv, SetDeploymentStatus, Waiter, NoRow
  <2>2. table' = table \/ (Matches(table, dd) /\ table' = Stored(table, row))
    BY <1>1 DEF SetDeploymentStatus
  <2>3. row.td = dd.td /\ dd.tasks \subseteq row.tasks
    BY <2>1, BumpedKeepsTasks
  <2> HIDE DEF row, dd
  <2>4. CASE table' = table
    BY <2>4 DEF TasksStay
  <2> QED
    BY <2>1, <2>2, <2>3, <2>4, PutKeepsTasks
<1>2. CASE table' = table
  BY <1>2 DEF TasksStay
<1> QED
  BY <1>1, <1>2, WaiterFrame

\* A put of a scaling or manual task keeps them too, and adds the task when runTask
\* goes on to its end.
LEMMA WriterKeepsTasks ==
  ASSUME IInv, NEW w \in Writers, Write(w) \/ WriterFails(w)
  PROVE  /\ TasksStay
         /\ \A x \in Writers \ {w} : writer'[x] = writer[x]
         /\ w \in TaskRunners /\ writer'[w].pc = "done" =>
              writer[w].pc = "done" \/ \E r \in Requests : w \in table'[r].tasks
<1> DEFINE dd == writer[w].dd
<1>1. w \in Scalers => w \notin TaskRunners
  BY ConstantsAssumption
<1>2. TypeOK /\ writer[w] \in Writer /\ dd \in Row
  BY DEF IInv, TypeOK, Writer
<1>3. writer[w].pc = "put" => UpToDateOrBehind(table, dd) /\ dd # NoRow
  BY DEF IInv, CopiesCoherent, WritersInv
<1>4. \A x \in Writers \ {w} : writer'[x] = writer[x]
  BY <1>2 DEF Write, WriterFails, ReadForWrite, SetScalingProperty, ManualScaleService,
     SetManualTasksArn, WriterStep, TypeOK
<1>5. CASE SetScalingProperty(w)
  <2> DEFINE row == [Bumped(dd) EXCEPT !.desired = Count[w]]
  <2>1. table' = table \/ (Matches(table, dd) /\ table' = Stored(table, row))
    BY <1>5 DEF SetScalingProperty
  <2>2. row.td = dd.td /\ dd.tasks \subseteq row.tasks
    BY <1>2, BumpedKeepsTasks
  <2>3. writer[w].pc = "put" /\ w \notin TaskRunners
    BY <1>1, <1>2, <1>5 DEF SetScalingProperty
  <2> HIDE DEF row, dd
  <2>4. CASE table' = table
    BY <1>4, <2>3, <2>4 DEF TasksStay
  <2> QED
    BY <1>2, <1>3, <1>4, <2>1, <2>2, <2>3, <2>4, PutKeepsTasks
<1>6. CASE SetManualTasksArn(w)
  <2> DEFINE row == [Bumped(dd) EXCEPT !.tasks = @ \cup {w}]
  <2>1. /\ writer[w].pc = "put"
        /\ \/ Matches(table, dd) /\ table' = Stored(table, row)
           \/ table' = table /\ writer' = WriterStep(w, "error")
    BY <1>6 DEF SetManualTasksArn
  <2>2. row.td = dd.td /\ row.tasks = dd.tasks \cup {w}
    BY <1>2, BumpedKeepsTasks
  <2> HIDE DEF row, dd
  <2>3. CASE table' = table /\ writer' = WriterStep(w, "error")
    <3>1. writer'[w].pc = "error"
      BY <1>2, <2>3 DEF WriterStep, IdleWriter, Ended, TypeOK
    <3> QED
      BY <1>4, <2>3, <3>1 DEF TasksStay
  <2>4. CASE Matches(table, dd) /\ table' = Stored(table, row)
    BY <1>2, <1>3, <1>4, <2>1, <2>2, <2>4, PutKeepsTasks
  <2> QED
    BY <2>1, <2>3, <2>4
<1>7. CASE table' = table /\ ~SetManualTasksArn(w)
  <2>1. w \in TaskRunners => writer'[w].pc # "done"
    BY <1>1, <1>2, <1>7 DEF Write, WriterFails, ReadForWrite, SetScalingProperty,
       ManualScaleService, WriterStep, IdleWriter, Ended, TypeOK
  <2> QED
    BY <1>4, <1>7, <2>1 DEF TasksStay
<1> QED
  BY <1>5, <1>6, <1>7, WriterFrame

\* SetManualTasksArn: a task that runTask was told is recorded stays in the list of its
\* row, whichever deploys, scalings, outcomes and other tasks write the row.
THEOREM TasksRecorded == Spec => []ReportedTasksRecorded
<1>1. Init => ReportedTasksRecorded
  BY DEF Init, ReportedTasksRecorded, IdleWriter, Writers
<1>2. ASSUME IInv, ReportedTasksRecorded, [Next]_vars
      PROVE  ReportedTasksRecorded'
  <2>1. CASE TasksStay /\ \A w \in TaskRunners : writer'[w].pc = "done" => writer[w].pc = "done"
    BY <1>2, <2>1 DEF ReportedTasksRecorded, TasksStay
  <2>2. ASSUME NEW r \in Requests, Handle(r) \/ HandlerFails(r)
        PROVE  ReportedTasksRecorded'
    BY <1>2, <2>1, <2>2, HandlerFrame, HandlerKeepsTasks
  <2>3. ASSUME NEW s \in Servers, NEW r \in Requests, Wait(s, r) \/ WaiterFails(s, r)
        PROVE  ReportedTasksRecorded'
    BY <1>2, <2>1, <2>3, WaiterFrame, WaiterKeepsTasks
  <2>4. ASSUME NEW w \in Writers, Write(w) \/ WriterFails(w)
        PROVE  ReportedTasksRecorded'
    BY <1>2, <2>4, WriterKeepsTasks DEF ReportedTasksRecorded, TasksStay, Writers
  <2>5. ASSUME NEW s \in Servers, Resume(s) \/ Crash(s)
        PROVE  ReportedTasksRecorded'
    <3>1. \A w \in Writers : writer'[w].pc = "done" => writer[w].pc = "done"
      BY <2>5 DEF Resume, Crash, IdleWriter
    <3> QED
      BY <2>1, <2>5, <3>1, ServerFrame DEF TasksStay, Writers
  <2>6. CASE OtherStep
    BY <2>1, <2>6, OtherFrame DEF TasksStay
  <2> QED
    BY <1>2, <2>2, <2>3, <2>4, <2>5, <2>6, StepCases
<1> QED
  BY <1>1, <1>2, InvCorrect, PTL DEF Spec

-----------------------------------------------------------------------------
(* Implementation of DeploymentLifecycle                                   *)

LEMMA OneRowAtATime ==
  ASSUME TypeOK, [Next]_vars
  PROVE  \E r : \A q \in Requests : q # r => table'[q] = table[q]
<1>1. ASSUME NEW row, table' = Stored(table, row)
      PROVE  \E r : \A q \in Requests : q # r => table'[q] = table[q]
  BY <1>1 DEF Stored, TypeOK
<1> DEFINE OneRow == table' = table \/ \E row : table' = Stored(table, row)
<1>2. ASSUME \/ \E r \in Requests : Abort(r) \/ PutDeployment(r)
             \/ \E s \in Servers, r \in Requests : SetDeploymentStatus(s, r)
             \/ \E w \in Writers : SetScalingProperty(w) \/ SetManualTasksArn(w)
      PROVE  OneRow
  BY <1>2 DEF Abort, PutDeployment, SetDeploymentStatus, SetScalingProperty, SetManualTasksArn
<1>3. CASE table' = table
  BY <1>1, <1>3
<1> HIDE DEF OneRow
<1>4. OneRow \/ table' = table
  BY <1>2, HandlerFrame, WaiterFrame, WriterFrame, ServerFrame, OtherFrame, StepCases
<1> QED
  BY <1>1, <1>3, <1>4 DEF OneRow

LEMMA LifecycleInit == Init => Lifecycle!Init
  BY DEF Init, Lifecycle!Init, NoRow

LEMMA LifecycleStep ==
  ASSUME IInv, [Next]_vars
  PROVE  [Lifecycle!Next]_([r \in Requests |-> table[r].status])
<1> DEFINE old == [r \in Requests |-> table[r].status]
           new == [r \in Requests |-> table'[r].status]
<1>1. PICK r : \A q \in Requests : q # r => table'[q] = table[q]
  BY OneRowAtATime DEF IInv
<1>2. \A q \in Requests : q # r => new[q] = old[q]
  BY <1>1
<1>3. \A q \in Requests : new[q] = old[q] \/ StatusStep(old[q], new[q])
  BY NextTableStep DEF TableStep
<1>4. CASE r \notin Requests \/ new[r] = old[r]
  <2>1. new = old
    BY <1>2, <1>4
  <2> QED
    BY <2>1
<1>5. CASE r \in Requests /\ new[r] # old[r]
  <2>1. StatusStep(old[r], new[r])
    BY <1>3, <1>5
  <2>2. new = [old EXCEPT ![r] = new[r]]
    BY <1>2, <1>5
  <2>3. CASE old[r] = "none" /\ new[r] = "running"
    BY <1>5, <2>2, <2>3 DEF Lifecycle!Next, Lifecycle!Start
  <2>4. CASE old[r] = "running" /\ new[r] \in Terminal
    BY <1>5, <2>2, <2>4 DEF Lifecycle!Next, Lifecycle!Finish, Lifecycle!Outcome, Terminal
  <2> QED
    BY <1>5, <2>1, <2>3, <2>4 DEF StatusStep
<1> QED
  BY <1>4, <1>5

\* The deployments table keeps the promise of DeploymentLifecycle: every
\* deployment starts once, and no interleaving of the request, its goroutine
\* on any server, a newer request's abort, scaling or a manual task rewrites
\* an outcome.
THEOREM LifecycleImplemented == Spec => LifecycleSpec
<1>1. LifecycleSpec <=> Lifecycle!Init /\ [][Lifecycle!Next]_([r \in Requests |-> table[r].status])
  BY DEF LifecycleSpec, Lifecycle!Spec
<1> QED
  BY <1>1, LifecycleInit, LifecycleStep, InvCorrect, PTL DEF Spec
=============================================================================
