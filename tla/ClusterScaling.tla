--------------------------- MODULE ClusterScaling ---------------------------
(***************************************************************************)
(* Scaling the EC2 clusters from the messages of ECS: the webhook handler  *)
(* that decides, the goroutine that watches a pending operation for some   *)
(* minutes before it carries it out, the lifecycle handler that marks a    *)
(* draining instance, and the server, which may end and resumes.  They     *)
(* meet in the __CLUSTERS records, one sequence for all clusters, and in   *)
(* the desired capacity of the autoscaling groups.                         *)
(*                                                                         *)
(* Time is counted in minutes.  The AWS calls of one handler, or of one    *)
(* turn of a goroutine, take less than a minute, and ECS messages arrive   *)
(* within the minute: Tick waits for them.                                 *)
(***************************************************************************)
EXTENDS ScalingDecision, Sequences, FiniteSets

CONSTANTS
  Handlers,      \* webhook requests served at once
  Slots,         \* bound: goroutines of pending operations at once
  None,
  ClusterOf,     \* ClusterOf[n]
  Loads,         \* what ECS may report of the instances
  MinSize, MaxSize,           \* of every autoscaling group
  UpStrategies,               \* AUTOSCALING_UP_STRATEGY, one for each decision
  UpCooldown, DownCooldown,   \* minutes
  UpPeriod, DownPeriod,       \* checks, one each minute
  CacheAge,                   \* minutes a record's instances are used
  MaxEvents      \* bound: instances terminated, crashes and failed calls

Operation == {"up", "down"}
Resumed == Clusters \X Operation

\* A list of instances: cluster, zone, free resources and status, which is unknown
\* when the instance was added by a message.
Reports == UNION {{l[n] : n \in DOMAIN l} : l \in Loads}
Instance == [cluster : Clusters, az : {i.az : i \in Reports}, free : {i.free : i \in Reports},
             status : {"", "ACTIVE", "DRAINING"}]
List == UNION {[ns -> Instance] : ns \in SUBSET Nodes}
Empty == [n \in {} |-> None]

ASSUME ScalingConstants ==
  /\ None \notin Slots
  /\ Slots \cap Resumed = {}
  /\ ClusterOf \in [Nodes -> Clusters]
  /\ Loads \subseteq List
  /\ MinSize \in Nat /\ MaxSize \in Nat /\ MinSize <= MaxSize
  /\ UpStrategies \subseteq {"immediately", "gracefully"}
  /\ \A n \in {UpCooldown, DownCooldown, UpPeriod, DownPeriod, CacheAge} : n \in Nat \ {0}
  /\ MaxEvents \in Nat

VARIABLES
  load,      \* the instances, as ECS reports them (external)
  busy,      \* a deployment is running, or only a task is not (external)
  capacity,  \* capacity[c]: desired capacity of the autoscaling group
  info,      \* the newest __CLUSTERS record
  activity,  \* the scaling operations of the records, oldest first
  handler,   \* handler[h]: a goroutine serving a message
  op,        \* op[g]: a goroutine of launchProcessPendingScalingOp
  lock,      \* lock[o]: the goroutine that holds muUp or muDown
  up,        \* the server is running
  sinceSpare,\* history: minutes since a cluster could spare an instance
  sinceDown, \* history: minutes since a pending operation removed an instance
  decided,   \* history: a record asked for scaling down since then
  drains, crashes, faults

vars == <<load, busy, capacity, info, activity, handler, op, lock, up,
          sinceSpare, sinceDown, decided, drains, crashes, faults>>

-----------------------------------------------------------------------------
(* State                                                                   *)

Period(o) == IF o = "up" THEN UpPeriod ELSE DownPeriod
Horizon == Max({UpCooldown, DownCooldown, UpPeriod, DownPeriod, CacheAge})
OlderUnbounded(age) == age + 1
Older(age) == Min({age + 1, Horizon})
Long == CacheAge + 1
Spares(l) == {c \in Clusters : scaleDownDecision(c, l)}

Info == [list : List, pending : Operation \cup {""}, age : 0..Horizon]
NoInfo == [list |-> Empty, pending |-> "", age |-> Horizon]
Scaling == [cluster : Clusters, action : Operation \cup {"no"},
            pending : Operation \cup {""}, age : 0..Horizon]

HandlerPc == {"idle", "up", "down", "read", "set", "put", "mark", "marked"}
Handler == [pc : HandlerPc, cluster : Clusters \cup {None}, node : Nodes \cup {None},
            list : List, pending : Operation \cup {""}, desired : Nat]
IdleHandler == [pc |-> "idle", cluster |-> None, node |-> None, list |-> Empty,
                pending |-> "", desired |-> 0]

OpPc == {"none", "lock", "sleep", "check", "read", "set", "put"}
Goroutines == Slots \cup Resumed      \* launched by a handler, by Resume
Op == [pc : OpPc, cluster : Clusters \cup {None}, op : Operation \cup {""},
       left : Nat, list : List, desired : Nat]
NoOp == [pc |-> "none", cluster |-> None, op |-> "", left |-> 0,
         list |-> Empty, desired |-> 0]
NewOp(pc, c, o) == [pc |-> pc, cluster |-> c, op |-> o, left |-> Period(o),
                    list |-> Empty, desired |-> 0]

Init ==
  /\ load \in Loads
  /\ busy = ""
  /\ capacity \in [Clusters -> MinSize..MaxSize]
  /\ info = NoInfo /\ activity = <<>>
  /\ handler = [h \in Handlers |-> IdleHandler]
  /\ op = [g \in Goroutines |-> NoOp]
  /\ lock = [o \in Operation |-> None]
  /\ up = TRUE
  /\ sinceSpare = [c \in Clusters |-> IF c \in Spares(load) THEN 0 ELSE Long]
  /\ sinceDown = [c \in Clusters |-> Horizon]
  /\ decided = [c \in Clusters |-> FALSE]
  /\ drains = 0 /\ crashes = 0 /\ faults = 0

Events == drains + crashes + faults
Fault == Events < MaxEvents /\ faults' = faults + 1

-----------------------------------------------------------------------------
(* The __CLUSTERS records.  Of the newest the whole is kept, of the others *)
(* what GetScalingActivity may still find.                                 *)

PutClusterInfo(list, c, action, pending) ==
  /\ info' = [list |-> list, pending |-> pending, age |-> 0]
  /\ activity' = IF action = "no" /\ pending = "" THEN activity
                 ELSE Append(activity, [cluster |-> c, action |-> action,
                                        pending |-> pending, age |-> 0])

\* The first operation of the last minutes: the one carried out, or else the
\* one pending.
GetScalingActivity(c, minutes) ==
  LET found == {i \in DOMAIN activity : activity[i].cluster = c /\ activity[i].age < minutes}
      first == activity[Min(found)]
  IN IF found = {} THEN [action |-> "no", pending |-> ""]
     ELSE IF first.action # "no" THEN [action |-> first.action, pending |-> ""]
     ELSE [action |-> "no", pending |-> first.pending]

\* getClusterInfo: the newest record, whichever cluster it was written for, or
\* the instances of this cluster when the record is too old.
NeverTooOld(c) == IF DOMAIN info.list # {} THEN info.list ELSE load
ClusterInfo(c) ==
  IF info.age < CacheAge THEN info.list
  ELSE [n \in {m \in Nodes : ClusterOf[m] = c /\ m \in DOMAIN load} |-> load[n]]

\* A message updates the resources of its instance, but not its status.
WithMessage(list, n) ==
  LET status == IF n \in DOMAIN list THEN list[n].status ELSE ""
      i == [load[n] EXCEPT !.status = status]
  IN [m \in DOMAIN list \cup {n} |-> IF m = n THEN i ELSE list[m]]

Draining(list, n) == [list EXCEPT ![n].status = "DRAINING"]

-----------------------------------------------------------------------------
(* processEcsMessage                                                       *)

World == UNCHANGED <<load, busy, sinceSpare, drains>>
History == UNCHANGED <<sinceDown, decided>>
Records == UNCHANGED <<info, activity>>
Becomes(h, pc) == handler' = [handler EXCEPT ![h] = IF pc = "idle" THEN IdleHandler
                                                     ELSE [@ EXCEPT !.pc = pc]]
HandlerOnly == World /\ UNCHANGED <<op, lock, up, crashes>>

\* The instances and the capacity, and what follows from them: only a cluster
\* that may grow is asked whether it must, and only one where the largest
\* container fits, or that may not grow, whether it can shrink.
Receive(h, n) ==
  LET c == ClusterOf[n]
      list == WithMessage(ClusterInfo(c), n)
      fits == ~Up \/ (capacity[c] < MaxSize /\ scaleUpDecision(c, list))
      grow == Up /\ capacity[c] < MaxSize /\ ~fits
      shrink == /\ Down /\ capacity[c] > MinSize
                /\ fits \/ capacity[c] = MaxSize
                /\ scaleDownDecision(c, list)
  IN /\ up /\ handler[h].pc = "idle" /\ n \in DOMAIN load /\ Reservations[c] # {}
     /\ grow \/ shrink
     /\ handler' = [handler EXCEPT ![h] =
          [@ EXCEPT !.pc = IF grow THEN "up" ELSE "down", !.cluster = c, !.list = list]]
     /\ UNCHANGED <<capacity, faults>> /\ Records /\ History /\ HandlerOnly

\* Scaling up looks at what was carried out during the cooldown only; the
\* immediate strategy scales at once and leaves no record.
ConsiderUp(h) ==
  /\ handler[h].pc = "up"
  /\ IF GetScalingActivity(handler[h].cluster, UpCooldown).action # "no"
     THEN Becomes(h, "idle")
     ELSE \/ /\ "gracefully" \in UpStrategies
             /\ handler' = [handler EXCEPT ![h] = [@ EXCEPT !.pc = "put", !.pending = "up"]]
          \/ /\ "immediately" \in UpStrategies
             /\ handler' = [handler EXCEPT ![h] = [@ EXCEPT !.pc = "read", !.list = Empty]]
  /\ UNCHANGED <<capacity, faults>> /\ Records /\ History /\ HandlerOnly

\* Scaling down also waits for what is pending and for deployments.
ConsiderDown(h) ==
  /\ handler[h].pc = "down"
  /\ IF /\ GetScalingActivity(handler[h].cluster, DownCooldown)
             = [action |-> "no", pending |-> ""]
        /\ busy # "deploy"
     THEN handler' = [handler EXCEPT ![h] = [@ EXCEPT !.pc = "put", !.pending = "down"]]
     ELSE Becomes(h, "idle")
  /\ UNCHANGED <<capacity, faults>> /\ Records /\ History /\ HandlerOnly

\* ScaleClusterNodes(group, 1): a read of the desired capacity and a write.
ReadCapacity(h) ==
  /\ handler[h].pc = "read"
  /\ LET d == capacity[handler[h].cluster]
     IN IF d = MaxSize THEN Becomes(h, "idle")
        ELSE handler' = [handler EXCEPT ![h] = [@ EXCEPT !.pc = "set", !.desired = d]]
  /\ UNCHANGED <<capacity, faults>> /\ Records /\ History /\ HandlerOnly

SetCapacity(h) ==
  /\ handler[h].pc = "set"
  /\ capacity' = [capacity EXCEPT ![handler[h].cluster] = handler[h].desired + 1]
  /\ Becomes(h, "idle")
  /\ UNCHANGED faults /\ Records /\ History /\ HandlerOnly

\* The record of the pending operation, and its goroutine.
PutPending(h) ==
  LET c == handler[h].cluster  o == handler[h].pending
  IN /\ handler[h].pc = "put"
     /\ \E g \in Slots :
          /\ op[g].pc = "none"
          /\ op' = [op EXCEPT ![g] = NewOp("lock", c, o)]
     /\ PutClusterInfo(handler[h].list, c, "no", o)
     /\ decided' = IF o = "down" THEN [decided EXCEPT ![c] = TRUE] ELSE decided
     /\ Becomes(h, "idle")
     /\ UNCHANGED <<capacity, lock, up, sinceDown, crashes, faults>> /\ World

-----------------------------------------------------------------------------
(* processLifecycleMessage, up to the goroutine that waits for the node    *)

Drain(h, n) ==
  /\ up /\ handler[h].pc = "idle"
  /\ n \in DOMAIN load /\ load[n].status # "DRAINING" /\ Events < MaxEvents
  /\ load' = Draining(load, n) /\ drains' = drains + 1
  /\ handler' = [handler EXCEPT ![h] = [@ EXCEPT !.pc = "mark", !.cluster = ClusterOf[n], !.node = n]]
  /\ UNCHANGED <<busy, capacity, op, lock, up, sinceSpare, crashes, faults>> /\ Records /\ History

ReadMark(h) ==
  /\ handler[h].pc = "mark"
  /\ IF handler[h].node \in DOMAIN info.list
     THEN handler' = [handler EXCEPT ![h] =
            [@ EXCEPT !.pc = "marked", !.node = None,
                      !.list = Draining(info.list, handler[h].node)]]
     ELSE Becomes(h, "idle")
  /\ UNCHANGED <<capacity, faults>> /\ Records /\ History /\ HandlerOnly

\* The record forgets the pending operation.
PutMark(h) ==
  /\ handler[h].pc = "marked"
  /\ PutClusterInfo(handler[h].list, handler[h].cluster, "no", "")
  /\ Becomes(h, "idle")
  /\ UNCHANGED <<capacity, faults>> /\ History /\ HandlerOnly

\* A call fails; of the last one the answer may be lost.
HandlerFails(h) ==
  /\ handler[h].pc # "idle" /\ Fault
  /\ \/ Records
     \/ /\ handler[h].pc \in {"put", "marked"}
        /\ PutClusterInfo(handler[h].list, handler[h].cluster, "no",
                          handler[h].pending)
  /\ Becomes(h, "idle")
  /\ decided' = IF info' # info /\ info'.pending = "down"
                THEN [decided EXCEPT ![handler[h].cluster] = TRUE] ELSE decided
  /\ UNCHANGED <<capacity, sinceDown>> /\ HandlerOnly

Handle(h) ==
  \/ \E n \in Nodes : Receive(h, n) \/ Drain(h, n)
  \/ ConsiderUp(h) \/ ConsiderDown(h) \/ ReadCapacity(h) \/ SetCapacity(h)
  \/ PutPending(h) \/ ReadMark(h) \/ PutMark(h)

-----------------------------------------------------------------------------
(* launchProcessPendingScalingOp                                           *)

OpOnly == World /\ UNCHANGED <<handler, up, crashes>>
Goes(g, pc) == op' = [op EXCEPT ![g].pc = pc]

\* It ends, and releases the lock if it was launched with one.
EndsLocked(g) == op' = [op EXCEPT ![g] = NoOp] /\ UNCHANGED lock
Ends(g) ==
  /\ op' = [op EXCEPT ![g] = NoOp]
  /\ lock' = [o \in Operation |-> IF lock[o] = g THEN None ELSE lock[o]]

LockShared(g) ==
  /\ op[g].pc = "lock"
  /\ lock' = [lock EXCEPT ![op[g].op] = g]
  /\ Goes(g, "sleep")
  /\ UNCHANGED <<capacity, faults>> /\ Records /\ History /\ OpOnly
Lock(g) ==
  /\ op[g].pc = "lock" /\ lock[op[g].op] = None
  /\ lock' = [lock EXCEPT ![op[g].op] = g]
  /\ Goes(g, "sleep")
  /\ UNCHANGED <<capacity, faults>> /\ Records /\ History /\ OpOnly

\* Once a minute: the operation is still the pending one, and still needed.
AbortsOnNeed(g, list) ==
  IF op[g].op = "down"
  THEN ~scaleDownDecision(op[g].cluster, list) \/ busy # ""
  ELSE scaleUpDecision(op[g].cluster, list)
Aborts(g, list) ==
  \/ info.pending # op[g].op
  \/ IF op[g].op = "down"
     THEN ~scaleDownDecision(op[g].cluster, list) \/ busy # ""
     ELSE scaleUpDecision(op[g].cluster, list)

Check(g) ==
  LET list == ClusterInfo(op[g].cluster)
  IN /\ op[g].pc = "check"
     /\ IF Aborts(g, list) THEN Ends(g)
        ELSE /\ op' = [op EXCEPT ![g] =
                  [@ EXCEPT !.left = op[g].left - 1,
                            !.pc = IF op[g].left = 1 THEN "read" ELSE "sleep",
                            !.list = IF op[g].left = 1 THEN list ELSE Empty]]
             /\ UNCHANGED lock
     /\ UNCHANGED <<capacity, faults>> /\ Records /\ History /\ OpOnly

\* ScaleClusterNodes(group, sizeChange).
AtBoundUp(o, d) == o = "up" /\ d = MaxSize
AtBound(o, d) == d = IF o = "up" THEN MaxSize ELSE MinSize
ReadDesired(g) ==
  /\ op[g].pc = "read"
  /\ LET d == capacity[op[g].cluster]
     IN IF AtBound(op[g].op, d) THEN Ends(g)
        ELSE op' = [op EXCEPT ![g].pc = "set", ![g].desired = d] /\ UNCHANGED lock
  /\ UNCHANGED <<capacity, faults>> /\ Records /\ History /\ OpOnly

Apply(g) ==
  LET c == op[g].cluster  down == op[g].op = "down"
  IN /\ op[g].pc = "set"
     /\ capacity' = [capacity EXCEPT ![c] = op[g].desired + (IF down THEN -1 ELSE 1)]
     /\ sinceDown' = IF down THEN [sinceDown EXCEPT ![c] = 0] ELSE sinceDown
     /\ decided' = IF down THEN [decided EXCEPT ![c] = FALSE] ELSE decided

SetDesired(g) ==
  /\ Apply(g) /\ Goes(g, "put")
  /\ UNCHANGED <<lock, faults>> /\ Records /\ OpOnly

PutDone(g) ==
  /\ op[g].pc = "put"
  /\ PutClusterInfo(op[g].list, op[g].cluster, op[g].op, "")
  /\ Ends(g)
  /\ UNCHANGED <<capacity, faults>> /\ History /\ OpOnly

\* A call fails, or its answer is lost.
OpFails(g) ==
  /\ op[g].pc \in {"check", "read", "set", "put"} /\ Fault
  /\ \/ UNCHANGED capacity /\ Records /\ History
     \/ Apply(g) /\ Records
     \/ /\ op[g].pc = "put"
        /\ PutClusterInfo(op[g].list, op[g].cluster, op[g].op, "")
        /\ UNCHANGED capacity /\ History
  /\ Ends(g) /\ OpOnly

Work(g) == Check(g) \/ ReadDesired(g) \/ SetDesired(g) \/ PutDone(g)

-----------------------------------------------------------------------------
(* The server and time                                                     *)

Crash ==
  /\ up /\ Events < MaxEvents
  /\ up' = FALSE /\ crashes' = crashes + 1
  /\ handler' = [h \in Handlers |-> IdleHandler]
  /\ op' = [g \in Goroutines |-> NoOp]
  /\ lock' = [o \in Operation |-> None]
  /\ UNCHANGED <<capacity, faults>> /\ World /\ Records /\ History

\* Controller.Resume: instances that drain are marked, in a record that forgets
\* the pending operation, and what was pending during the last period is
\* launched again, without the lock.
Unmarked == {n \in DOMAIN info.list \cap DOMAIN load :
               load[n].status = "DRAINING" /\ info.list[n].status # "DRAINING"}
Resume ==
  /\ ~up /\ up' = TRUE
  /\ IF Unmarked = {} THEN Records
     ELSE \E n \in Unmarked :
            PutClusterInfo([m \in DOMAIN info.list |-> IF m \in Unmarked
                              THEN [info.list[m] EXCEPT !.status = "DRAINING"]
                              ELSE info.list[m]], ClusterOf[n], "no", "")
  /\ op' = [g \in Goroutines |->
              IF g \in Resumed /\ GetScalingActivity(g[1], Period(g[2])).pending = g[2]
              THEN NewOp("sleep", g[1], g[2]) ELSE NoOp]
  /\ UNCHANGED <<capacity, handler, lock, crashes, faults>> /\ World /\ History

\* Nothing is under way, and a goroutine that may take the lock has taken it.
Quiet ==
  /\ \A h \in Handlers : handler[h].pc = "idle"
  /\ \A g \in Goroutines : \/ op[g].pc \in {"none", "sleep"}
                           \/ op[g].pc = "lock" /\ lock[op[g].op] # None

\* Records that GetScalingActivity will not find any more; they are the first.
TooOld == {i \in DOMAIN activity : activity[i].age + 1 >= Horizon}

\* A minute passes, and with it the instances' load and the deployments change.
Tick ==
  /\ Quiet
  /\ \E l \in Loads : load' = [n \in DOMAIN l |->
       IF n \in DOMAIN load THEN [l[n] EXCEPT !.status = load[n].status] ELSE l[n]]
  /\ busy' \in {"", "deploy", "tasks"}
  /\ op' = [g \in Goroutines |-> IF op[g].pc = "sleep" THEN [op[g] EXCEPT !.pc = "check"]
                                 ELSE op[g]]
  /\ info' = [info EXCEPT !.age = Older(@)]
  /\ activity' = LET n == Cardinality(TooOld)
                 IN [i \in 1..(Len(activity) - n) |-> [activity[i + n] EXCEPT !.age = Older(@)]]
  /\ sinceSpare' = [c \in Clusters |-> IF c \in Spares(load') THEN 0
                                       ELSE Min({sinceSpare[c] + 1, Long})]
  /\ sinceDown' = [c \in Clusters |-> Older(sinceDown[c])]
  /\ UNCHANGED <<capacity, handler, lock, up, decided, drains, crashes, faults>>

Next ==
  \/ \E h \in Handlers : Handle(h) \/ HandlerFails(h)
  \/ \E g \in Goroutines : Lock(g) \/ Work(g) \/ OpFails(g)
  \/ Crash \/ Resume \/ Tick

Spec == Init /\ [][Next]_vars

-----------------------------------------------------------------------------
(* Properties                                                              *)

TypeOK ==
  /\ load \in List /\ busy \in {"", "deploy", "tasks"}
  /\ capacity \in [Clusters -> Nat]
  /\ info \in Info /\ activity \in Seq(Scaling)
  /\ handler \in [Handlers -> Handler]
  /\ op \in [Goroutines -> Op]
  /\ lock \in [Operation -> Slots \cup {None}]
  /\ up \in BOOLEAN
  /\ sinceSpare \in [Clusters -> 0..Long] /\ sinceDown \in [Clusters -> 0..Horizon]
  /\ decided \in [Clusters -> BOOLEAN]
  /\ drains \in Nat /\ crashes \in Nat /\ faults \in Nat

\* No interleaving of the reads and writes of ScaleClusterNodes takes a group
\* out of its bounds, although each write is one more or less than what was
\* read when others may have scaled since.
CapacityInBounds == \A c \in Clusters : capacity[c] \in MinSize..MaxSize

\* muUp and muDown are held by a goroutine that is at work on an operation of
\* their direction, on every path out of it, so that none waits for ever; and a
\* goroutine of a handler works under the lock.
LockHeld ==
  \A o \in Operation, g \in Slots :
    lock[o] = g <=> op[g].op = o /\ op[g].pc \notin {"none", "lock"}

\* A goroutine has carried out a scaling down, answered or not.
Removes(g) == /\ op[g].pc = "set" /\ op[g].op = "down"
              /\ op'[g].pc # "set" /\ sinceDown'[op[g].cluster] = 0

\* Two instances are never removed from a cluster within the period, by no two
\* messages handled at once and whatever calls fail; and across a restart, as long
\* as nothing else fails and the cooldown is no shorter than the period.
DownsApart ==
  [][\A g \in Goroutines : Removes(g) => sinceDown[op[g].cluster] >= DownPeriod]_vars

\* "check if scaling operation is still present": every instance removed has a
\* decision of its own, taken since the last one was, as long as the record of
\* that last one could be written, and no other cluster's record asks for the same.
EveryDownDecided ==
  [][\A g \in Goroutines :
       Removes(g) /\ crashes = 0 /\ faults = 0 => decided[op[g].cluster]]_vars

\* A goroutine resolves to remove an instance only from a cluster that could
\* spare one during the last minutes, as ECS reports it and not as the records
\* say: the records a decision rests on are that recent.
DownWhenSpare ==
  [][\A g \in Goroutines :
       op[g].pc = "check" /\ op'[g].pc = "read" /\ op[g].op = "down"
       => sinceSpare[op[g].cluster] <= CacheAge]_vars
=============================================================================
