------------------------------ MODULE Polling ------------------------------
(***************************************************************************)
(* The strategy Polling: every server runs a loop that looks, once a       *)
(* minute, for services whose tasks find no room, and scales the cluster   *)
(* up.  A row of the table is a lease that lets one server look: it is     *)
(* taken when it is a minute old and never given back.                     *)
(*                                                                         *)
(* Time is counted in ticks, Lease to the minute.  The events are those of *)
(* one service; the counters of others do not depend on it.  Setting the   *)
(* capacity is one step here, ClusterScaling has its interleavings.        *)
(***************************************************************************)
EXTENDS Integers, Sequences

CONSTANTS
  Servers,
  None,
  Lease,         \* ticks in a minute: the lease, and the sleep of the loop
  MaxWork,       \* ticks a check takes at most
  MaxEvents,     \* bound: events of the service
  MaxCrashes, MaxFaults   \* bounds

\* The mutual exclusion of the lease rests on a check that ends in time.
ASSUME PollingConstants ==
  /\ None \notin Servers
  /\ Lease \in Nat /\ MaxWork \in Nat /\ MaxWork < Lease
  /\ MaxEvents \in Nat /\ MaxCrashes \in Nat /\ MaxFaults \in Nat

VARIABLES
  row,       \* __AUTOSCALINGPULL exists
  age,       \* ticks since LockTimestamp
  holder,    \* who took the lease last and has not ended since (history)
  events,    \* events of the service, oldest first (external)
  recorded,  \* there is a __CLUSTERS record
  server,    \* server[s]: the loop of startAutoscalingPollingStrategy
  scaled,    \* history: scaled[s]: the events s has scaled for, once and twice
  crashes, faults

vars == <<row, age, holder, events, recorded, server, scaled, crashes, faults>>

-----------------------------------------------------------------------------
(* State                                                                   *)

Event == [unplaced : BOOLEAN, age : 0..Lease]

Pc == {"down", "init", "try", "describe", "scale", "record", "done", "sleep"}
Server == [pc : Pc, left : 0..Lease, work : 0..MaxWork,
           checked : Nat,      \* events not after lastChecked
           seen : Nat,         \* events there were when the service was described
           found : 0..6]       \* servicesFound
Down == [pc |-> "down", left |-> 0, work |-> 0, checked |-> 0, seen |-> 0, found |-> 0]
Working == {"describe", "scale", "record", "done"}

Nothing == [once |-> {}, twice |-> {}]

\* The first record has no timestamp: it is older than any.
LongAgo == Lease + MaxWork + 1

Init ==
  /\ row = FALSE /\ age = LongAgo /\ holder = None
  /\ events = <<>> /\ recorded \in BOOLEAN
  /\ server = [s \in Servers |-> Down]
  /\ scaled = [s \in Servers |-> Nothing]
  /\ crashes = 0 /\ faults = 0

Fault == faults < MaxFaults /\ faults' = faults + 1 /\ UNCHANGED crashes
NoFault == UNCHANGED <<crashes, faults>>
Goes(s, pc) == server' = [server EXCEPT ![s].pc = pc]
Asleep(s) == [server[s] EXCEPT !.pc = "sleep", !.left = Lease, !.work = 0]
Sleeps(s) == server' = [server EXCEPT ![s] = Asleep(s)]

-----------------------------------------------------------------------------
(* The lease                                                               *)

LeaseOnly == UNCHANGED <<events, recorded, scaled>>

\* lastChecked starts a minute in the past.
Recent(i) == events[i].age < Lease
Start(s) ==
  /\ server[s].pc = "down"
  /\ \E n \in 0..Len(events) :
       /\ \A i \in 1..Len(events) : i > n <=> Recent(i)
       /\ server' = [server EXCEPT ![s].pc = "init", ![s].checked = n]
  /\ UNCHANGED <<row, age, holder>> /\ LeaseOnly /\ NoFault

\* The first record, unless there is one.  An error is logged.
InitExisting(s) ==
  /\ server[s].pc = "init"
  /\ Goes(s, "try")
  /\ UNCHANGED <<row, age, holder>> /\ LeaseOnly /\ NoFault
AutoscalingPullInit(s) ==
  /\ server[s].pc = "init"
  /\ row' = TRUE
  /\ age' = IF row THEN age ELSE LongAgo
  /\ Goes(s, "try")
  /\ UNCHANGED holder /\ LeaseOnly /\ NoFault

InitFails(s) ==
  /\ server[s].pc = "init" /\ Fault
  /\ Goes(s, "try")
  /\ UNCHANGED <<row, age, holder>> /\ LeaseOnly

\* The put is conditional on a timestamp that is a minute old.
AnyLease == row
OlderLease == row /\ age > Lease
Expired == row /\ age >= Lease
AutoscalingPullAcquireLock(s) ==
  /\ server[s].pc = "try"
  /\ IF Expired
     THEN age' = 0 /\ holder' = s /\ Goes(s, "describe")
     ELSE UNCHANGED <<age, holder>> /\ Sleeps(s)
  /\ UNCHANGED row /\ LeaseOnly /\ NoFault

\* An error is no lock, whether or not the put was carried out.
AcquireFails(s) ==
  /\ server[s].pc = "try" /\ Fault
  /\ \/ UNCHANGED <<age, holder>>
     \/ Expired /\ age' = 0 /\ holder' = s
  /\ Sleeps(s) /\ UNCHANGED row /\ LeaseOnly

-----------------------------------------------------------------------------
(* The check                                                               *)

CheckOnly == UNCHANGED <<row, age, events>>

\* The service as ECS describes it, with the events until now; a task is
\* missing or none is.
CountedOn(n) == n + 1
Counted(n) == IF n < 6 THEN n + 1 ELSE 6
Described(s) ==
  [server[s] EXCEPT !.pc = "scale", !.seen = Len(events), !.found = Counted(@)]
DescribeServices(s) ==
  /\ server[s].pc = "describe"
  /\ \/ Goes(s, "done")
     \/ server' = [server EXCEPT ![s] = Described(s)]
  /\ UNCHANGED <<holder, recorded, scaled>> /\ CheckOnly /\ NoFault

\* An error is logged, and what happened since the last check not looked at.
DescribeFails(s) ==
  /\ server[s].pc = "describe" /\ Fault
  /\ Goes(s, "done")
  /\ UNCHANGED <<holder, recorded, scaled>> /\ CheckOnly

\* One instance more for each event since the last check that says there was no
\* room, and once, at the fifth time a task is missing, for the newest event of
\* all.  ECS lists the newest event first: the oldest new one is looked at last, and
\* unless it is the fifth time it alone decides whether this is recorded.
New(s) == {i \in 1..server[s].seen : i > server[s].checked}
Fifth(s) == server[s].found = 5 /\ server[s].seen > 0
LastScaled(s) ==
  \/ Fifth(s) /\ events[server[s].seen].unplaced
  \/ ~Fifth(s) /\ New(s) # {} /\ events[server[s].checked + 1].unplaced
Scale(s) ==
  LET S == {i \in New(s) : events[i].unplaced} IN
  /\ server[s].pc = "scale"
  /\ scaled' = [scaled EXCEPT ![s] = [once |-> @.once \cup S, twice |-> @.twice \cup (@.once \cap S)]]
  /\ server' = IF LastScaled(s)
               THEN [server EXCEPT ![s].pc = "record", ![s].found = 0]
               ELSE [server EXCEPT ![s].pc = "done"]
  /\ UNCHANGED <<holder, recorded>> /\ CheckOnly /\ NoFault

\* The end of a process.
Ends(s) ==
  /\ server' = [server EXCEPT ![s] = Down]
  /\ holder' = IF holder = s THEN None ELSE holder
  /\ scaled' = [scaled EXCEPT ![s] = Nothing]

\* The newest __CLUSTERS record is written again with the action.  Where there is
\* none the server dereferences a null pointer and ends.
PutClusterInfo(s) ==
  /\ server[s].pc = "record"
  /\ IF recorded THEN Goes(s, "done") /\ UNCHANGED <<holder, scaled>> ELSE Ends(s)
  /\ UNCHANGED recorded /\ CheckOnly /\ NoFault

\* Without an answer to the read there is nothing to write either; an error of the
\* put is logged.
RecordFails(s) ==
  /\ server[s].pc = "record" /\ Fault
  /\ Ends(s) \/ (recorded /\ Goes(s, "done") /\ UNCHANGED <<holder, scaled>>)
  /\ UNCHANGED recorded /\ CheckOnly

\* lastChecked is the time the check ends.
DoneWithoutTime(s) ==
  /\ server[s].pc = "done"
  /\ server' = [server EXCEPT ![s] = [Asleep(s) EXCEPT !.seen = 0]]
  /\ UNCHANGED <<holder, recorded, scaled>> /\ CheckOnly /\ NoFault
Done(s) ==
  /\ server[s].pc = "done"
  /\ server' = [server EXCEPT ![s] =
       [Asleep(s) EXCEPT !.checked = Len(events), !.seen = 0]]
  /\ UNCHANGED <<holder, recorded, scaled>> /\ CheckOnly /\ NoFault

Check(s) == DescribeServices(s) \/ Scale(s) \/ PutClusterInfo(s) \/ Done(s)

Wake(s) ==
  /\ server[s].pc = "sleep" /\ server[s].left = 0
  /\ Goes(s, "try")
  /\ UNCHANGED <<holder, recorded, scaled>> /\ CheckOnly /\ NoFault

-----------------------------------------------------------------------------
(* The world                                                               *)

Crash(s) ==
  /\ server[s].pc # "down" /\ crashes < MaxCrashes /\ crashes' = crashes + 1
  /\ Ends(s)
  /\ UNCHANGED <<recorded, faults>> /\ CheckOnly

NewEvent ==
  /\ Len(events) < MaxEvents
  /\ \E u \in BOOLEAN : events' = Append(events, [unplaced |-> u, age |-> 0])
  /\ UNCHANGED <<row, age, holder, recorded, server, scaled>> /\ NoFault

\* Another strategy writes a record.
FirstRecord ==
  /\ ~recorded /\ recorded' = TRUE
  /\ UNCHANGED <<row, age, holder, events, server, scaled>> /\ NoFault

\* A tick passes when nobody has a step to take at once, and no check takes longer
\* than MaxWork.
Older(a) == IF a < LongAgo THEN a + 1 ELSE a
Later(s) ==
  IF server[s].pc = "sleep" THEN [server[s] EXCEPT !.left = @ - 1]
  ELSE IF server[s].pc \in Working THEN [server[s] EXCEPT !.work = @ + 1]
  ELSE server[s]
Tick ==
  /\ \A s \in Servers :
       /\ server[s].pc \notin {"init", "try"}
       /\ server[s].pc = "sleep" => server[s].left > 0
       /\ server[s].pc \in Working => server[s].work < MaxWork
  /\ age' = Older(age)
  /\ server' = [s \in Servers |-> Later(s)]
  /\ events' = [i \in DOMAIN events |->
                  [events[i] EXCEPT !.age = IF @ < Lease THEN @ + 1 ELSE @]]
  /\ UNCHANGED <<row, holder, recorded, scaled>> /\ NoFault

Loop(s) ==
  \/ Start(s) \/ AutoscalingPullInit(s) \/ AutoscalingPullAcquireLock(s)
  \/ Check(s) \/ Wake(s)

Fails(s) == InitFails(s) \/ AcquireFails(s) \/ DescribeFails(s) \/ RecordFails(s)

Next ==
  \/ \E s \in Servers : Loop(s) \/ Fails(s) \/ Crash(s)
  \/ NewEvent \/ FirstRecord \/ Tick

Spec == Init /\ [][Next]_vars

\* A goroutine is scheduled, a server is started again, and time passes.
Fairness == WF_vars(Tick) /\ \A s \in Servers : WF_vars(Loop(s))
FairSpec == Spec /\ Fairness

-----------------------------------------------------------------------------
(* Properties                                                              *)

TypeOK ==
  /\ row \in BOOLEAN /\ age \in 0..LongAgo /\ holder \in Servers \cup {None}
  /\ events \in Seq(Event) /\ recorded \in BOOLEAN
  /\ server \in [Servers -> Server]
  /\ scaled \in [Servers -> [once : SUBSET Nat, twice : SUBSET Nat]]
  /\ crashes \in Nat /\ faults \in Nat

\* "only 1 process should do the checking, lock row in dynamodb": a lease that is
\* taken without asking its holder, and is not given back, keeps the checks of
\* all servers apart, also when a server ends with it and starts again.
OneChecks ==
  \A s, t \in Servers :
    server[s].pc \in Working /\ server[t].pc \in Working => s = t

\* "Poll all services every minute": as long as the server that looked last lives,
\* a minute and the length of its check pass at most until somebody looks again,
\* however many servers fail to get the lease meanwhile.
EveryMinute == holder # None /\ faults = 0 => age <= Lease + MaxWork

\* The events since the last check: a server scales once for each, however long it
\* was without the lease.  (Two servers may both scale for it, and the rule of the
\* fifth time does so again.)
ScaledOnce == \A s \in Servers : scaled[s].twice = {}

\* Somebody looks again and again, although servers end with the lease, and the
\* record of the lease is missing at first.
Polled == []<>(age = 0 \/ faults > 0)
=============================================================================
