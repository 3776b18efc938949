-------------------------- MODULE ServiceRegistry --------------------------
(***************************************************************************)
(* The item __SERVICES, in which service/service.go keeps the entries of   *)
(* all services and the API version, and its writers: deploy requests and  *)
(* servers that start.  A writer reads the item, changes its copy and puts *)
(* it back if the version of the item is still the one it read.            *)
(***************************************************************************)
EXTENDS Naturals, FiniteSets

CONSTANTS
  Requests,   \* deploy requests
  Services,   \* service names
  Servers,    \* ecs-deploy processes
  None,
  ServiceOf,  \* ServiceOf[r], ClusterOf[r], LimitsOf[r], BalancerOf[r]: deploy data
  ClusterOf,
  LimitsOf,
  BalancerOf,
  Attempts,   \* tries of CreateService
  Deployed,   \* requests served before, at most one for a service, if there is a table
  Databases,  \* what the table may be at first: "absent", "old" (API version 1.0), "current"
  Bare,       \* clusters with an autoscaling group and no container instance
  MaxVersion, \* bound: no server starts in vain once the item has this version
  MaxCrashes, \* bound: server crashes
  MaxFaults   \* bound: AWS calls that fail

Clusters == {ClusterOf[r] : r \in Requests}
Balancers == {BalancerOf[r] : r \in Requests}
Limits == {LimitsOf[r] : r \in Requests}

ASSUME DataAssumption ==
  /\ ServiceOf \in [Requests -> Services]
  /\ ClusterOf \in [Requests -> Clusters]
  /\ LimitsOf \in [Requests -> Limits]
  /\ BalancerOf \in [Requests -> Balancers]
  /\ None \notin Servers \cup Requests \cup Clusters \cup Balancers \cup Limits

ASSUME BoundsAssumption ==
  /\ Attempts \in Nat /\ MaxVersion \in Nat /\ MaxCrashes \in Nat /\ MaxFaults \in Nat

ASSUME DatabaseAssumption ==
  /\ Databases \subseteq {"absent", "old", "current"} /\ Bare \subseteq Clusters
  /\ Deployed \subseteq Requests
  /\ \A q, r \in Deployed : ServiceOf[q] = ServiceOf[r] => q = r

VARIABLES
  item,      \* the item __SERVICES
  last,      \* last[v]: the request whose deployment row is the newest of v
  running,   \* <<cluster, service>> pairs that exist in ECS (external)
  handler,   \* handler[r]: the goroutine serving deploy request r
  starter,   \* starter[s]: main of server s
  crashes, faults

vars == <<item, last, running, handler, starter, crashes, faults>>

-----------------------------------------------------------------------------
(* The item                                                                *)

\* An old entry has no limits, an entry of a service found in ECS no listeners.
Entry == [cluster : Clusters, limits : Limits \cup {None}, listeners : Balancers \cup {None}]
NoEntry == [cluster |-> None, limits |-> None, listeners |-> None]

Item == [present : BOOLEAN, version : Nat, api : {"", "current"},
         entries : [Services -> Entry \cup {NoEntry}]]
Empty == [v \in Services |-> NoEntry]
NoItem == [present |-> FALSE, version |-> 0, api |-> "", entries |-> Empty]
FirstItem == [present |-> TRUE, version |-> 1, api |-> "current", entries |-> Empty]

\* Mutated form: a put without the condition on the version.
MatchesAny(copy) == copy.present

\* Put(ds).If("$ = ?", "Version", ds.Version - 1) with ds.Version incremented:
\* copy is the item as it was read.
Matches(copy) == item.present /\ item.version = copy.version

\* Mutated form: the version is not incremented.
NotBumped(copy) == copy
Bumped(copy) == [copy EXCEPT !.version = @ + 1]

\* CreateService replaces the entry of the same name or appends one.
Registered(copy, v, entry) == [Bumped(copy) EXCEPT !.entries[v] = entry]

\* UpdateServiceLimits and UpdateServiceListeners look for name and cluster.
Found(copy, v, c) == copy.entries[v].cluster = c
WithLimits(copy, v, limits) == [Bumped(copy) EXCEPT !.entries[v].limits = limits]
WithListeners(copy, v, b) == [Bumped(copy) EXCEPT !.entries[v].listeners = b]
-----------------------------------------------------------------------------
(* State                                                                   *)

HandlerPc == {"idle", "exists", "check", "read", "put", "listenersRead", "listenersPut",
              "limitsRead", "limitsPut", "new", "done", "error", "dead"}
Ended == {"done", "error", "dead"}

\* last is the deployment read first, created says that the request created the
\* ECS service, tries counts the puts of CreateService.
Handler == [pc : HandlerPc, srv : Servers \cup {None}, last : Requests \cup {None},
            created : BOOLEAN, copy : Item, tries : 0..Attempts]
IdleHandler == [pc |-> "idle", srv |-> None, last |-> None, created |-> FALSE,
                copy |-> NoItem, tries |-> 0]

StarterPc == {"down", "api", "init", "list", "last", "read", "put", "setRead", "setPut",
              "resume", "up"}

\* todo holds the listed services still to migrate, cur the one being migrated.
Listed == [name : Services, cluster : Clusters]
Starter == [pc : StarterPc, todo : SUBSET Listed, cur : Listed \cup {None},
            limits : Limits \cup {None}, copy : Item]
Down == [pc |-> "down", todo |-> {}, cur |-> None, limits |-> None, copy |-> NoItem]
Resumes == [Down EXCEPT !.pc = "resume"]
Up == [Down EXCEPT !.pc = "up"]

\* The entry of a service that was deployed before, and its deployment.
OldEntry(r, database) ==
  [cluster |-> ClusterOf[r], listeners |-> BalancerOf[r],
   limits |-> IF database = "old" THEN None ELSE LimitsOf[r]]
Before(database) == IF database = "absent" THEN {} ELSE Deployed
DeployedOf(v, database) == {r \in Before(database) : ServiceOf[r] = v}
LastOf(v, database) == CHOOSE r \in DeployedOf(v, database) : TRUE
OldEntries(database) == [v \in Services |->
  IF DeployedOf(v, database) = {} THEN NoEntry ELSE OldEntry(LastOf(v, database), database)]
FirstItemOf(database) ==
  CASE database = "absent"  -> NoItem
    [] database = "old"     -> [FirstItem EXCEPT !.api = "", !.entries = OldEntries(database)]
    [] database = "current" -> [FirstItem EXCEPT !.entries = OldEntries(database)]

Init ==
  /\ \E database \in Databases :
       /\ item = FirstItemOf(database)
       /\ last = [v \in Services |->
            IF DeployedOf(v, database) = {} THEN None ELSE LastOf(v, database)]
       /\ running = {<<ClusterOf[r], ServiceOf[r]>> : r \in Before(database)}
       /\ handler = [r \in Requests |->
            IF r \in Before(database) THEN [IdleHandler EXCEPT !.pc = "done"] ELSE IdleHandler]
  /\ starter = [s \in Servers |-> Down]
  /\ crashes = 0
  /\ faults = 0

Fault == faults < MaxFaults /\ faults' = faults + 1

-----------------------------------------------------------------------------
(* Controller.Deploy, as far as the registry is concerned                  *)

HandlerOnly == UNCHANGED <<starter, crashes>>
Becomes(r, h) == handler' = [handler EXCEPT ![r] = h]

\* A step to pc; copies and counters that are not needed any more are dropped.
Go(r, pc) ==
  Becomes(r, IF pc \in Ended THEN [IdleHandler EXCEPT !.pc = pc]
             ELSE [handler[r] EXCEPT !.pc = pc, !.copy = NoItem, !.tries = 0])

\* What updateDeployment still has to write, compared with the last deployment.
AfterListeners(r) ==
  IF LimitsOf[handler[r].last] # LimitsOf[r] THEN "limitsRead" ELSE "new"
AfterRegistration(r) ==
  IF handler[r].created \/ handler[r].last = None THEN "new"
  ELSE IF BalancerOf[handler[r].last] # BalancerOf[r] THEN "listenersRead"
  ELSE AfterListeners(r)

\* GetLastDeploy.
Begin(r, s) ==
  /\ starter[s].pc = "up" /\ handler[r].pc = "idle"
  /\ Becomes(r, [IdleHandler EXCEPT !.pc = "exists", !.srv = s, !.last = last[ServiceOf[r]]])
  /\ UNCHANGED <<item, last, running, faults>> /\ HandlerOnly

\* ServiceExists, and createService when ECS has no such service.
EnsureService(r) ==
  /\ handler[r].pc = "exists"
  /\ LET id == <<ClusterOf[r], ServiceOf[r]>>
     IN /\ Becomes(r, [handler[r] EXCEPT !.pc = "check", !.created = id \notin running])
        /\ running' = running \cup {id}
  /\ UNCHANGED <<item, last, faults>> /\ HandlerOnly

\* checkAndCreateServiceInDynamo: ServiceExistsInDynamo, by name alone.
CheckExists(r) ==
  /\ handler[r].pc = "check"
  /\ Go(r, IF item.entries[ServiceOf[r]] # NoEntry THEN AfterRegistration(r) ELSE "read")
  /\ UNCHANGED <<item, last, running, faults>> /\ HandlerOnly

\* Mutated form: the last try is not made.
ExhaustedEarly(tries) == tries + 1 >= Attempts
Exhausted(tries) == tries >= Attempts

\* CreateService reads the item; after its last try it returns without error.
CreateRead(r) ==
  /\ handler[r].pc = "read"
  /\ IF Exhausted(handler[r].tries) THEN Go(r, AfterRegistration(r))
     ELSE Becomes(r, [handler[r] EXCEPT !.pc = "put", !.copy = item])
  /\ UNCHANGED <<item, last, running, faults>> /\ HandlerOnly

\* Mutated form: the cluster is not assigned.
NewEntryWithoutCluster(r) ==
  [cluster |-> None, limits |-> LimitsOf[r], listeners |-> BalancerOf[r]]

\* Its listeners are known only if createService ran.
NewEntry(r) ==
  [cluster |-> ClusterOf[r], limits |-> LimitsOf[r],
   listeners |-> IF handler[r].created THEN BalancerOf[r] ELSE None]

Retry(r) ==
  Becomes(r, [handler[r] EXCEPT !.pc = "read", !.copy = NoItem, !.tries = @ + 1])

\* The conditional put.  When its answer is lost the SDK sends it again, and is
\* refused, or gives up.
CreatePut(r) ==
  LET copy == handler[r].copy IN
  /\ handler[r].pc = "put"
  /\ IF Matches(copy)
     THEN /\ item' = Registered(copy, ServiceOf[r], NewEntry(r))
          /\ \/ Go(r, AfterRegistration(r)) /\ UNCHANGED faults
             \/ (Retry(r) \/ Go(r, "error")) /\ Fault
     ELSE Retry(r) /\ UNCHANGED <<item, faults>>
  /\ UNCHANGED <<last, running>> /\ HandlerOnly

\* UpdateServiceListeners and UpdateServiceLimits: read, look for the entry, one
\* conditional put.  updateDeployment ignores their errors.
ReadForUpdate(r, pc, next) ==
  /\ IF Found(item, ServiceOf[r], ClusterOf[r])
     THEN Becomes(r, [handler[r] EXCEPT !.pc = pc, !.copy = item])
     ELSE Go(r, next)
  /\ UNCHANGED <<item, last, running, faults>> /\ HandlerOnly

PutUpdate(r, changed, next) ==
  /\ item' = IF Matches(handler[r].copy) THEN changed ELSE item
  /\ Go(r, next)
  /\ UNCHANGED <<last, running, faults>> /\ HandlerOnly

UpdateServiceListeners(r) ==
  \/ /\ handler[r].pc = "listenersRead"
     /\ ReadForUpdate(r, "listenersPut", AfterListeners(r))
  \/ /\ handler[r].pc = "listenersPut"
     /\ PutUpdate(r, WithListeners(handler[r].copy, ServiceOf[r], BalancerOf[r]),
                  AfterListeners(r))

UpdateServiceLimits(r) ==
  \/ /\ handler[r].pc = "limitsRead"
     /\ ReadForUpdate(r, "limitsPut", "new")
  \/ /\ handler[r].pc = "limitsPut"
     /\ PutUpdate(r, WithLimits(handler[r].copy, ServiceOf[r], LimitsOf[r]), "new")

\* NewDeployment; or the abort of the previous deployment before it is refused,
\* because the row has changed since it was read.
NewDeployment(r) ==
  /\ handler[r].pc = "new"
  /\ \/ last' = [last EXCEPT ![ServiceOf[r]] = r] /\ Go(r, "done")
     \/ handler[r].last # None /\ Go(r, "error") /\ UNCHANGED last
  /\ UNCHANGED <<item, running, faults>> /\ HandlerOnly

\* An AWS call of the step fails.  checkAndCreateServiceInDynamo takes a failed
\* read for an existing entry, Deploy goes on after updateDeployment.
HandlerFails(r) ==
  LET pc == handler[r].pc IN
  /\ \/ pc \in {"exists", "read", "put", "new"} /\ Go(r, "error")
     \/ pc = "check" /\ Go(r, AfterRegistration(r))
     \/ pc \in {"listenersRead", "listenersPut"} /\ Go(r, AfterListeners(r))
     \/ pc \in {"listenersRead", "limitsRead", "limitsPut"} /\ Go(r, "new")
  /\ Fault
  /\ UNCHANGED <<item, last, running>> /\ HandlerOnly

Handle(r) ==
  \/ \E s \in Servers : Begin(r, s)
  \/ EnsureService(r) \/ CheckExists(r) \/ CreateRead(r) \/ CreatePut(r)
  \/ UpdateServiceListeners(r) \/ UpdateServiceLimits(r) \/ NewDeployment(r)

-----------------------------------------------------------------------------
(* Controller.Resume and Migration.run                                     *)

StarterOnly == UNCHANGED <<last, running, handler, crashes>>
Starts(s, st) == starter' = [starter EXCEPT ![s] = st]
At(s, pc) == Starts(s, [starter[s] EXCEPT !.pc = pc])

\* Two things fail every start: a registered service without a deployment while the
\* API version is old, and a registered service in a cluster without instances.
NotDeployed == item.api # "current" /\ \E v \in Services : item.entries[v] # NoEntry /\ last[v] = None
NoInstances == \E v \in Services : item.entries[v].cluster \in Bare
Obstructed == NotDeployed \/ NoInstances

Launch(s) ==
  /\ starter[s].pc = "down" /\ (Obstructed => item.version < MaxVersion)
  /\ At(s, "api")
  /\ UNCHANGED <<item, faults>> /\ StarterOnly

\* Mutated form: a missing item is an error.
MissingIsError == Down
OnMissing == [Down EXCEPT !.pc = "init"]

\* GetApiVersion.
GetApiVersion(s) ==
  /\ starter[s].pc = "api"
  /\ Starts(s, CASE ~item.present          -> OnMissing
                 [] item.api = "current" -> Resumes
                 [] OTHER                -> [Down EXCEPT !.pc = "list"])
  /\ UNCHANGED <<item, faults>> /\ StarterOnly

\* An unconditional put.  The version read before is still "", so the migration
\* runs as well.
InitDB(s) ==
  /\ starter[s].pc = "init"
  /\ item' = FirstItem
  /\ \/ At(s, "list") /\ UNCHANGED faults
     \/ Starts(s, Down) /\ Fault                               \* the answer is lost
  /\ StarterOnly

\* Migration.run: GetServices.
ListServices(s) ==
  /\ starter[s].pc = "list"
  /\ Starts(s, [Down EXCEPT !.pc = "last",
                  !.todo = {e \in Listed : Found(item, e.name, e.cluster)}])
  /\ UNCHANGED <<item, faults>> /\ StarterOnly

\* Mutated form: the last service of the list is left out.
MigratedButOne(todo) == Cardinality(todo) <= 1
Migrated(todo) == todo = {}

\* GetLastDeploy of the next service, in any order; the start fails when it has
\* no deployment.
NextService(s) ==
  LET st == starter[s] IN
  /\ st.pc = "last"
  /\ IF Migrated(st.todo) THEN At(s, "setRead")
     ELSE \E e \in st.todo :
            Starts(s, IF last[e.name] = None THEN Down
                      ELSE [st EXCEPT !.pc = "read", !.cur = e,
                                      !.limits = LimitsOf[last[e.name]]])
  /\ UNCHANGED <<item, faults>> /\ StarterOnly

NextOne(s) == [Down EXCEPT !.pc = "last", !.todo = starter[s].todo \ {starter[s].cur}]

\* UpdateServiceLimits, whose error is ignored.
MigrateLimits(s) ==
  LET st == starter[s] IN
  /\ \/ /\ st.pc = "read"
        /\ Starts(s, IF Found(item, st.cur.name, st.cur.cluster)
                     THEN [st EXCEPT !.pc = "put", !.copy = item] ELSE NextOne(s))
        /\ UNCHANGED item
     \/ /\ st.pc = "put"
        /\ item' = IF Matches(st.copy) THEN WithLimits(st.copy, st.cur.name, st.limits) ELSE item
        /\ Starts(s, NextOne(s))
  /\ UNCHANGED faults /\ StarterOnly

\* SetApiVersion, whose error is ignored.
SetApiVersion(s) ==
  LET st == starter[s] IN
  /\ \/ /\ st.pc = "setRead"
        /\ Starts(s, [Down EXCEPT !.pc = "setPut", !.copy = item])
        /\ UNCHANGED item
     \/ /\ st.pc = "setPut"
        /\ item' = IF Matches(st.copy) THEN [Bumped(st.copy) EXCEPT !.api = "current"] ELSE item
        /\ Starts(s, Resumes)
  /\ UNCHANGED faults /\ StarterOnly

\* The rest of Resume: running deployments, and for the cluster of every service its
\* draining nodes and pending scaling operations.  Without instances that is an error.
ResumeWork(s) ==
  /\ starter[s].pc = "resume"
  /\ Starts(s, IF NoInstances THEN Down ELSE Up)
  /\ UNCHANGED <<item, faults>> /\ StarterOnly

\* An AWS call of the step fails.  Resume takes a failed GetServices for no services.
StarterFails(s) ==
  /\ \/ starter[s].pc \in {"api", "init", "list", "last"} /\ Starts(s, Down)
     \/ starter[s].pc \in {"read", "put"} /\ Starts(s, NextOne(s))
     \/ starter[s].pc \in {"setRead", "setPut"} /\ Starts(s, Resumes)
     \/ starter[s].pc = "resume" /\ (Starts(s, Down) \/ Starts(s, Up))
  /\ Fault
  /\ UNCHANGED item /\ StarterOnly

Start(s) ==
  \/ Launch(s) \/ GetApiVersion(s) \/ InitDB(s) \/ ListServices(s) \/ NextService(s)
  \/ MigrateLimits(s) \/ SetApiVersion(s) \/ ResumeWork(s)

\* Every goroutine of the process ends.
Crash(s) ==
  /\ starter[s].pc # "down" /\ crashes < MaxCrashes
  /\ crashes' = crashes + 1
  /\ Starts(s, Down)
  /\ handler' = [r \in Requests |->
       IF handler[r].srv = s THEN [IdleHandler EXCEPT !.pc = "dead"] ELSE handler[r]]
  /\ UNCHANGED <<item, last, running, faults>>

-----------------------------------------------------------------------------

Next ==
  \/ \E r \in Requests : Handle(r) \/ HandlerFails(r)
  \/ \E s \in Servers : Start(s) \/ StarterFails(s) \/ Crash(s)

Spec == Init /\ [][Next]_vars

\* ECS restarts a server that ended, and a start makes progress.
FairSpec == Spec /\ \A s \in Servers : WF_vars(Start(s))

-----------------------------------------------------------------------------
(* Properties                                                              *)

TypeOK ==
  /\ item \in Item
  /\ last \in [Services -> Requests \cup {None}]
  /\ running \subseteq Clusters \X Services
  /\ handler \in [Requests -> Handler]
  /\ starter \in [Servers -> Starter]
  /\ crashes \in Nat /\ faults \in Nat

\* A copy of the item is the item or has a lower version: every write raises the
\* version, so a stale copy, which holds the entries of all services, is never
\* put back by a deploy, a migration or SetApiVersion.
UpToDate(copy) == copy = NoItem \/ copy.version < item.version \/ copy = item
UpToDateCopies ==
  /\ \A r \in Requests : UpToDate(handler[r].copy)
  /\ \A s \in Servers : UpToDate(starter[s].copy)

\* The registry keeps the promise of RegistryEntries: no interleaving of
\* deploys, starting servers, crashes and lost answers loses the entry of a
\* service, or changes two entries at once.
Entries == INSTANCE RegistryEntries WITH entries <- item.entries
EntriesSpec == Entries!Spec

\* The migration is complete: once the API version is current every registered
\* service has its limits, also when servers ended half way.
MigratedCompletely ==
  item.api = "current" =>
    \A v \in Services : item.entries[v] # NoEntry => item.entries[v].limits # None

\* A server that starts comes up, on an empty, an old and a current table, whatever the
\* requests on another server do meanwhile and whichever writes of the migration are
\* refused or fail, unless something obstructs every start: a service registered and not
\* yet deployed under an old API version (migration.go:43-46), or a service in a cluster
\* without instances (controller.go:1001).
ServerComesUp ==
  \A s \in Servers : starter[s].pc # "up" ~> (starter[s].pc = "up" \/ Obstructed)

\* "create service in dynamodb": after a deployment without AWS errors its
\* service is in the registry.
CreatedInDynamo ==
  \A r \in Requests :
    handler[r].pc = "done" => item.entries[ServiceOf[r]] # NoEntry

-----------------------------------------------------------------------------
(* The inductive invariant                                                 *)

\* What a writer knows of its copy when it puts it back.
Prepared ==
  /\ \A r \in Requests : LET h == handler[r] IN
       /\ h.pc = "put" => h.tries < Attempts
       /\ h.pc \in {"listenersPut", "limitsPut"} => Found(h.copy, ServiceOf[r], ClusterOf[r])
  /\ \A s \in Servers : LET st == starter[s] IN
       /\ st.pc \in {"read", "put"} => st.cur \in Listed /\ st.limits \in Limits
       /\ st.pc = "put" => Found(st.copy, st.cur.name, st.cur.cluster)

\* Before the item exists nobody serves requests or holds a copy, and only a
\* server that has found no item writes the first one.
FirstWrite ==
  /\ "absent" \notin Databases => item.present
  /\ item.present => item.version > 0
  /\ ~item.present =>
       /\ item = NoItem
       /\ \A r \in Requests : handler[r].pc \in Ended \cup {"idle"} /\ handler[r].copy = NoItem
       /\ \A s \in Servers : starter[s].pc \in {"down", "api", "init"} /\ starter[s].copy = NoItem
  /\ \A s \in Servers : starter[s].pc = "init" => ~item.present

TInv == TypeOK /\ Prepared
IInv == TInv /\ FirstWrite /\ UpToDateCopies

\* No second server starts on a table that is still empty.
OneFirstStart == "absent" \notin Databases \/ \A s, t \in Servers : s = t

=============================================================================
