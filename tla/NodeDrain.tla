----------------------------- MODULE NodeDrain -----------------------------
(***************************************************************************)
(* Draining an instance the autoscaling group wants to terminate.  The     *)
(* group holds it in the state Terminating:Wait and tells the servers      *)
(* through SNS; the lifecycle handler sets it to DRAINING, and a goroutine *)
(* polls it until it is empty, or for so long, and then completes the      *)
(* lifecycle action.  A server that starts launches a goroutine for every  *)
(* instance that drains.                                                   *)
(*                                                                         *)
(* Every cluster keeps some instance besides Nodes, or no server starts.   *)
(* The marks in the __CLUSTERS record are part of ClusterScaling.          *)
(***************************************************************************)
EXTENDS Integers, FiniteSets

CONSTANTS
  Nodes,         \* instances that may be terminated
  Servers,
  Waiters,       \* bound: goroutines of LaunchWaitForDrainedNode at once
  None,
  Polls,         \* 80, every 15 seconds
  MaxTasks,      \* of one instance
  MaxCrashes, MaxFaults, MaxDuplicates   \* bounds

ASSUME DrainConstants ==
  /\ None \notin Nodes \cup Servers
  /\ Polls \in Nat \ {0} /\ MaxTasks \in Nat
  /\ MaxCrashes \in Nat /\ MaxFaults \in Nat /\ MaxDuplicates \in Nat

VARIABLES
  life,      \* life[n]: the lifecycle state (external)
  draining,  \* the instances ECS places no tasks on (external)
  tasks,     \* tasks[n]: what runs on it (external)
  messages,  \* instances whose message SNS has to deliver (external)
  server,    \* server[s]
  handler,   \* handler[s]: a request that delivers a message
  waiter,    \* waiter[w]: a goroutine of LaunchWaitForDrainedNode
  polled,    \* history: polled[n]: the most often a goroutine saw it with tasks
  crashes, faults, duplicates

vars == <<life, draining, tasks, messages, server, handler, waiter, polled,
          crashes, faults, duplicates>>

-----------------------------------------------------------------------------
(* State                                                                   *)

Life == {"in service", "terminating", "gone"}
ServerPc == {"down", "relaunch", "up"}
Server == [pc : ServerPc, found : SUBSET Nodes]
Down == [pc |-> "down", found |-> {}]

HandlerPc == {"idle", "drain", "launch"}
Handler == [pc : HandlerPc, node : Nodes \cup {None}]
IdleHandler == [pc |-> "idle", node |-> None]

WaiterPc == {"none", "poll", "complete"}
Waiter == [pc : WaiterPc, server : Servers \cup {None}, node : Nodes \cup {None},
           polls : 0..Polls]
NoWaiter == [pc |-> "none", server |-> None, node |-> None, polls |-> 0]
NewWaiter(s, n) == [pc |-> "poll", server |-> s, node |-> n, polls |-> 0]

Init ==
  /\ life = [n \in Nodes |-> "in service"]
  /\ draining = {} /\ messages = {}
  /\ tasks \in [Nodes -> 0..MaxTasks]
  /\ server = [s \in Servers |-> Down]
  /\ handler = [s \in Servers |-> IdleHandler]
  /\ waiter = [w \in Waiters |-> NoWaiter]
  /\ polled = [n \in Nodes |-> 0]
  /\ crashes = 0 /\ faults = 0 /\ duplicates = 0

Bounds == UNCHANGED <<crashes, faults, duplicates>>
Fault == faults < MaxFaults /\ faults' = faults + 1 /\ UNCHANGED <<crashes, duplicates>>

-----------------------------------------------------------------------------
(* The group, ECS and SNS                                                  *)

ProgramIdle == UNCHANGED <<server, handler, waiter, polled>> /\ Bounds

Terminate(n) ==
  /\ life[n] = "in service"
  /\ life' = [life EXCEPT ![n] = "terminating"]
  /\ messages' = messages \cup {n}
  /\ UNCHANGED <<draining, tasks>> /\ ProgramIdle

\* The heartbeat of the hook runs out: 15 minutes in terraform/ecs.tf, less than
\* the goroutine waits.
Expire(n) ==
  /\ life[n] = "terminating"
  /\ life' = [life EXCEPT ![n] = "gone"]
  /\ UNCHANGED <<draining, tasks, messages>> /\ ProgramIdle

PlaceTask(n) ==
  /\ life[n] # "gone" /\ n \notin draining /\ tasks[n] < MaxTasks
  /\ tasks' = [tasks EXCEPT ![n] = @ + 1]
  /\ UNCHANGED <<life, draining, messages>> /\ ProgramIdle

StopTask(n) ==
  /\ life[n] # "gone" /\ tasks[n] > 0
  /\ tasks' = [tasks EXCEPT ![n] = @ - 1]
  /\ UNCHANGED <<life, draining, messages>> /\ ProgramIdle

\* An operator drains an instance that stays.
DrainByHand(n) ==
  /\ life[n] = "in service" /\ n \notin draining
  /\ draining' = draining \cup {n}
  /\ UNCHANGED <<life, tasks, messages>> /\ ProgramIdle

\* SNS delivers at least once.
Duplicate(n) ==
  /\ life[n] # "in service" /\ n \notin messages /\ duplicates < MaxDuplicates
  /\ messages' = messages \cup {n} /\ duplicates' = duplicates + 1
  /\ UNCHANGED <<life, draining, tasks, server, handler, waiter, polled, crashes, faults>>

External(n) ==
  Terminate(n) \/ Expire(n) \/ PlaceTask(n) \/ StopTask(n) \/ DrainByHand(n) \/ Duplicate(n)

-----------------------------------------------------------------------------
(* processLifecycleMessage                                                 *)

HandlerOnly == UNCHANGED <<life, tasks, server, polled>>

\* The cluster of the instance and its ARN.  An instance that is gone is an
\* error; like every answer it is 200 to SNS, which does not try again.
Answered(s) == messages' = messages \ {handler[s].node}
Receive(s, n) ==
  /\ server[s].pc = "up" /\ handler[s].pc = "idle" /\ n \in messages
  /\ IF life[n] = "gone"
     THEN messages' = messages \ {n} /\ UNCHANGED handler
     ELSE handler' = [handler EXCEPT ![s] = [pc |-> "drain", node |-> n]] /\ UNCHANGED messages
  /\ UNCHANGED <<draining, waiter>> /\ HandlerOnly /\ Bounds

DrainNode(s) ==
  /\ handler[s].pc = "drain"
  /\ draining' = draining \cup {handler[s].node}
  /\ handler' = [handler EXCEPT ![s].pc = "launch"]
  /\ UNCHANGED <<messages, waiter>> /\ HandlerOnly /\ Bounds

Launch(s) ==
  /\ handler[s].pc = "launch"
  /\ \E w \in Waiters :
       /\ waiter[w] = NoWaiter
       /\ waiter' = [waiter EXCEPT ![w] = NewWaiter(s, handler[s].node)]
  /\ Answered(s)
  /\ handler' = [handler EXCEPT ![s] = IdleHandler]
  /\ UNCHANGED draining /\ HandlerOnly /\ Bounds

\* A call fails, the one that drains perhaps after it had its effect; the
\* request is answered.
HandlerFails(s) ==
  /\ handler[s].pc # "idle" /\ Fault
  /\ \/ UNCHANGED draining
     \/ handler[s].pc = "drain" /\ draining' = draining \cup {handler[s].node}
  /\ Answered(s)
  /\ handler' = [handler EXCEPT ![s] = IdleHandler]
  /\ UNCHANGED waiter /\ HandlerOnly

Handle(s) == DrainNode(s) \/ Launch(s)

-----------------------------------------------------------------------------
(* LaunchWaitForDrainedNode                                                *)

WaiterOnly == UNCHANGED <<draining, tasks, messages, server, handler>>
Ends(w) == waiter' = [waiter EXCEPT ![w] = NoWaiter]
EmptyButOne(w) == tasks[waiter[w].node] <= 1
Drained(w) == tasks[waiter[w].node] = 0
NeverLast(w) == FALSE
LastPoll(w) == waiter[w].polls + 1 = Polls
GivesUp == "none"
AtTimeout == "complete"

\* An instance that ECS does not know any more is an error.
Poll(w) ==
  LET n == waiter[w].node IN
  /\ waiter[w].pc = "poll"
  /\ IF life[n] = "gone" THEN Ends(w) /\ UNCHANGED polled
     ELSE IF Drained(w)
     THEN waiter' = [waiter EXCEPT ![w].pc = "complete"] /\ UNCHANGED polled
     ELSE /\ waiter' = [waiter EXCEPT ![w].polls = @ + 1,
                          ![w].pc = IF LastPoll(w) THEN AtTimeout ELSE "poll"]
          /\ polled' = [polled EXCEPT ![n] = IF @ <= waiter[w].polls
                                             THEN waiter[w].polls + 1 ELSE @]
  /\ UNCHANGED life /\ WaiterOnly /\ Bounds

\* Without a lifecycle action that is pending the call is an error.
Complete(w) ==
  /\ waiter[w].pc = "complete"
  /\ life' = [life EXCEPT ![waiter[w].node] = IF @ = "terminating" THEN "gone" ELSE @]
  /\ Ends(w) /\ UNCHANGED polled /\ WaiterOnly /\ Bounds

\* A call fails, and the goroutine gives up.
WaiterFails(w) ==
  /\ waiter[w].pc # "none" /\ Fault
  /\ \/ UNCHANGED life
     \/ /\ waiter[w].pc = "complete" /\ life[waiter[w].node] = "terminating"
        /\ life' = [life EXCEPT ![waiter[w].node] = "gone"]
  /\ Ends(w) /\ UNCHANGED polled /\ WaiterOnly

Wait(w) == Poll(w) \/ Complete(w)

-----------------------------------------------------------------------------
(* The servers                                                             *)

StartOnly == UNCHANGED <<life, draining, tasks, messages, handler, polled>>

\* The part of Controller.Resume that is about draining: the instances are
\* listed, then a goroutine is launched for each that drains.
StartBlind(s) ==
  /\ server[s].pc = "down"
  /\ server' = [server EXCEPT ![s] = [pc |-> "relaunch", found |-> {}]]
  /\ UNCHANGED waiter /\ StartOnly /\ Bounds
Start(s) ==
  /\ server[s].pc = "down"
  /\ server' = [server EXCEPT ![s] =
       [pc |-> "relaunch", found |-> {n \in draining : life[n] # "gone"}]]
  /\ UNCHANGED waiter /\ StartOnly /\ Bounds

Relaunch(s) ==
  /\ server[s].pc = "relaunch"
  /\ IF server[s].found = {}
     THEN server' = [server EXCEPT ![s].pc = "up"] /\ UNCHANGED waiter
     ELSE \E n \in server[s].found, w \in Waiters :
            /\ waiter[w] = NoWaiter
            /\ waiter' = [waiter EXCEPT ![w] = NewWaiter(s, n)]
            /\ server' = [server EXCEPT ![s].found = @ \ {n}]
  /\ StartOnly /\ Bounds

\* Without an answer about the hooks the server comes up and launches nothing;
\* other errors end the start.
StartFails(s) ==
  /\ server[s].pc = "relaunch" /\ Fault
  /\ \/ /\ server' = [server EXCEPT ![s] = [pc |-> "up", found |-> {}]]
        /\ UNCHANGED waiter
     \/ /\ server' = [server EXCEPT ![s] = Down]
        /\ waiter' = [w \in Waiters |-> IF waiter[w].server = s THEN NoWaiter ELSE waiter[w]]
  /\ StartOnly

\* A request that was not answered is delivered again.
Crash(s) ==
  /\ server[s].pc # "down" /\ crashes < MaxCrashes
  /\ crashes' = crashes + 1
  /\ server' = [server EXCEPT ![s] = Down]
  /\ handler' = [handler EXCEPT ![s] = IdleHandler]
  /\ waiter' = [w \in Waiters |-> IF waiter[w].server = s THEN NoWaiter ELSE waiter[w]]
  /\ UNCHANGED <<life, draining, tasks, messages, polled, faults, duplicates>>

Run(s) == Start(s) \/ Relaunch(s)

Next ==
  \/ \E n \in Nodes : External(n)
  \/ \E s \in Servers : \/ Handle(s) \/ Run(s)
                        \/ HandlerFails(s) \/ StartFails(s) \/ Crash(s)
                        \/ \E n \in Nodes : Receive(s, n)
  \/ \E w \in Waiters : Wait(w) \/ WaiterFails(w)

Spec == Init /\ [][Next]_vars

\* Requests and goroutines make progress, a server is started again, and SNS
\* delivers.  No task has to stop and no heartbeat to run out.
Fairness ==
  /\ \A s \in Servers : WF_vars(Handle(s)) /\ WF_vars(Run(s))
  /\ \A w \in Waiters : WF_vars(Wait(w))
  /\ \A n \in Nodes : WF_vars(\E s \in Servers : Receive(s, n))

FairSpec == Spec /\ Fairness

-----------------------------------------------------------------------------
(* Properties                                                              *)

TypeOK ==
  /\ life \in [Nodes -> Life]
  /\ draining \subseteq Nodes /\ messages \subseteq Nodes
  /\ tasks \in [Nodes -> 0..MaxTasks]
  /\ server \in [Servers -> Server]
  /\ handler \in [Servers -> Handler]
  /\ waiter \in [Waiters -> Waiter]
  /\ polled \in [Nodes -> 0..Polls]
  /\ crashes \in Nat /\ faults \in Nat /\ duplicates \in Nat

\* Whoever looks after an instance the group wants to terminate.
Watched(n) == \E w \in Waiters : waiter[w].node = n
ToBeFound(n) ==
  \E s \in Servers : server[s].pc = "down" \/ n \in server[s].found

\* As long as no call failed an instance that waits for the end of its
\* lifecycle action is looked after by somebody, whatever crashed: its message
\* is to be delivered again, a goroutine waits, or a server that starts will
\* find that it drains.
NoneForgotten ==
  \A n \in Nodes :
    life[n] = "terminating" /\ faults = 0
    => n \in messages \/ Watched(n) \/ (ToBeFound(n) /\ n \in draining)

\* The program lets go of an instance only when nothing runs on it, or when one
\* goroutine has seen it with tasks for the whole of its wait.  The heartbeat of
\* the hook is not the program's.
EmptyOrWaited ==
  [][\A n \in Nodes :
       life[n] = "terminating" /\ life'[n] = "gone" /\ waiter' # waiter
       => tasks[n] = 0 \/ polled[n] = Polls]_vars

\* An instance that is to be terminated is, without the help of the heartbeat
\* and although its tasks may never stop, servers crash and messages are
\* delivered twice; a call that fails may leave it to the heartbeat.
Terminated ==
  \A n \in Nodes : life[n] = "terminating" ~> life[n] = "gone" \/ faults > 0
=============================================================================
