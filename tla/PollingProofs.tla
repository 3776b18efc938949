--------------------------- MODULE PollingProofs ---------------------------
(***************************************************************************)
(* Proofs about Polling, for any servers, events, crashes and failing      *)
(* calls, and any lease that is longer than a check.                       *)
(***************************************************************************)
EXTENDS Polling, TLAPS

\* The age of the lease is the time a check has taken, or, once the check is over,
\* the time the server has slept and no more than the longest check on top.
LeaseAt(r, a) ==
  \/ r.pc \in Working
  \/ r.pc = "sleep" /\ Lease - r.left <= a /\ a <= Lease - r.left + MaxWork
  \/ r.pc = "try" /\ Lease <= a /\ a <= Lease + MaxWork

LoopOK(r) ==
  /\ r.pc \in Working => row /\ age = r.work
  /\ r.pc \notin Working => r.work = 0

\* The events a server has scaled for are not after its last check, or they are
\* of this one.
EventsOK(r, h) ==
  /\ r.checked <= Len(events) /\ r.seen <= Len(events)
  /\ h.twice = {}
  /\ h.once \subseteq 1..r.checked \cup 1..r.seen
  /\ r.pc \notin {"record", "done"} => h.once \subseteq 1..r.checked
  /\ r.pc = "down" => h.once = {}

HolderOK == holder # None => row /\ (faults = 0 => LeaseAt(server[holder], age))

Inv ==
  /\ TypeOK
  /\ \A s \in Servers : LoopOK(server[s]) /\ EventsOK(server[s], scaled[s])
  /\ OneChecks
  /\ HolderOK

-----------------------------------------------------------------------------
(* Constants and records                                                   *)

LEMMA Naturals ==
  /\ Lease \in Nat /\ MaxWork \in Nat /\ MaxWork < Lease
  /\ LongAgo \in Nat /\ LongAgo = Lease + MaxWork + 1
  BY PollingConstants DEF LongAgo

LEMMA NoneIsNoServer == None \notin Servers
  BY PollingConstants

LEMMA DownServer ==
  /\ Down \in Server
  /\ Down.pc = "down" /\ Down.work = 0 /\ Down.checked = 0 /\ Down.seen = 0
<1>1. 0 \in 0..Lease /\ 0 \in 0..MaxWork /\ 0 \in 0..6
  BY Naturals
<1> QED
  BY <1>1 DEF Down, Server, Pc

LEMMA ServerFields ==
  ASSUME NEW r \in Server
  PROVE  /\ r.pc \in Pc /\ r.left \in Nat /\ r.left <= Lease
         /\ r.work \in Nat /\ r.work <= MaxWork
         /\ r.checked \in Nat /\ r.seen \in Nat /\ r.found \in 0..6
  BY Naturals DEF Server

LEMMA EventCount ==
  ASSUME TypeOK
  PROVE  Len(events) \in Nat
  BY DEF TypeOK

THEOREM InitInv == Init => Inv
<1> SUFFICES ASSUME Init PROVE Inv
  OBVIOUS
<1>1. age \in 0..LongAgo
  BY Naturals DEF Init
<1>2. server \in [Servers -> Server] /\ \A s \in Servers : server[s] = Down
  BY DownServer DEF Init
<1>3. scaled \in [Servers -> [once : SUBSET Nat, twice : SUBSET Nat]]
  BY DEF Init, Nothing
<1>4. events \in Seq(Event) /\ Len(events) = 0
  BY DEF Init
<1>5. TypeOK
  BY <1>1, <1>2, <1>3, <1>4 DEF Init, TypeOK
<1>6. ASSUME NEW s \in Servers PROVE LoopOK(server[s]) /\ EventsOK(server[s], scaled[s])
  <2>1. scaled[s].once = {} /\ scaled[s].twice = {}
    BY DEF Init, Nothing
  <2> QED
    BY <1>2, <1>4, <2>1, DownServer DEF LoopOK, EventsOK, Working
<1>7. OneChecks
  BY <1>2, DownServer DEF OneChecks, Working
<1>8. HolderOK
  BY DEF Init, HolderOK
<1> QED
  BY <1>5, <1>6, <1>7, <1>8 DEF Inv

-----------------------------------------------------------------------------
(* The steps of one loop that leave the lease and the events alone         *)

LEMMA LoopStep ==
  ASSUME Inv, NEW s \in Servers, NEW r \in Server,
         server' = [server EXCEPT ![s] = r],
         UNCHANGED <<row, age, holder, events, scaled, crashes>>,
         recorded' \in BOOLEAN, faults' \in Nat, faults' = 0 => faults = 0,
         r.pc \in Working => server[s].pc \in Working /\ r.work = server[s].work,
         r.pc \notin Working => r.work = 0,
         holder = s /\ faults' = 0 => LeaseAt(r, age),
         EventsOK(r, scaled[s])
  PROVE  Inv'
<1>1. TypeOK'
  BY DEF Inv, TypeOK
<1>2. server'[s] = r /\ \A t \in Servers : t # s => server'[t] = server[t]
  BY DEF Inv, TypeOK
<1>3. ASSUME NEW t \in Servers PROVE LoopOK(server[t])' /\ EventsOK(server[t], scaled[t])'
  BY <1>2 DEF Inv, LoopOK, EventsOK
<1>4. OneChecks'
  BY <1>2 DEF Inv, OneChecks
<1>5. HolderOK'
  BY <1>2, NoneIsNoServer DEF Inv, TypeOK, HolderOK, LeaseAt
<1> QED
  BY <1>1, <1>3, <1>4, <1>5 DEF Inv

\* A server that lost the race, or has finished, sleeps.
LEMMA AsleepServer ==
  ASSUME NEW s \in Servers, server[s] \in Server
  PROVE  /\ Asleep(s) \in Server
         /\ Asleep(s).pc = "sleep" /\ Asleep(s).left = Lease /\ Asleep(s).work = 0
         /\ Asleep(s).checked = server[s].checked /\ Asleep(s).seen = server[s].seen
<1>1. Lease \in 0..Lease /\ 0 \in 0..MaxWork
  BY Naturals
<1> QED
  BY <1>1 DEF Asleep, Server, Pc

LEMMA GoesTo ==
  ASSUME NEW s \in Servers, NEW pc \in Pc, server[s] \in Server
  PROVE  LET r == [server[s] EXCEPT !.pc = pc]
         IN /\ r \in Server /\ r.pc = pc /\ r.work = server[s].work /\ r.left = server[s].left
            /\ r.checked = server[s].checked /\ r.seen = server[s].seen
  BY DEF Server

LEMMA InitStep ==
  ASSUME Inv, NEW s \in Servers, AutoscalingPullInit(s) \/ InitFails(s), row' = row
  PROVE  Inv'
<1>1. server[s] \in Server /\ server[s].pc = "init" /\ "try" \in Pc /\ faults \in Nat
  BY DEF Inv, TypeOK, AutoscalingPullInit, InitFails, Pc
<1>2. server' = [server EXCEPT ![s] = [server[s] EXCEPT !.pc = "try"]]
  BY DEF AutoscalingPullInit, InitFails, Goes
<1>3. /\ UNCHANGED <<row, age, holder, events, scaled, crashes, recorded>>
      /\ faults' \in Nat /\ (faults' = 0 => faults = 0)
  BY <1>1 DEF AutoscalingPullInit, InitFails, LeaseOnly, NoFault, Fault
<1>4. holder = s => faults # 0
  BY <1>1, NoneIsNoServer DEF Inv, HolderOK, LeaseAt, Working
<1>5. LoopOK(server[s]) /\ EventsOK(server[s], scaled[s])
  BY DEF Inv
<1>6. recorded \in BOOLEAN
  BY DEF Inv, TypeOK
<1> QED
  BY <1>1, <1>2, <1>3, <1>4, <1>5, <1>6, GoesTo, LoopStep DEF LoopOK, EventsOK, Working

\* The first record: nobody holds the lease, and nobody works, before there is one.
LEMMA FirstInitStep ==
  ASSUME Inv, NEW s \in Servers, AutoscalingPullInit(s), ~row
  PROVE  Inv'
<1>1. server[s] \in Server /\ server[s].pc = "init" /\ "try" \in Pc
  BY DEF Inv, TypeOK, AutoscalingPullInit, Pc
<1>2. \A t \in Servers : server[t].pc \notin Working
  BY DEF Inv, LoopOK
<1>3. holder = None
  BY DEF Inv, HolderOK
<1>4. /\ row' = TRUE /\ age' = LongAgo
      /\ server' = [server EXCEPT ![s] = [server[s] EXCEPT !.pc = "try"]]
      /\ UNCHANGED <<holder, events, recorded, scaled, crashes, faults>>
  BY DEF AutoscalingPullInit, Goes, LeaseOnly, NoFault
<1>5. /\ server'[s] = [server[s] EXCEPT !.pc = "try"]
      /\ \A t \in Servers : t # s => server'[t] = server[t]
  BY <1>4 DEF Inv, TypeOK
<1>6. server' \in [Servers -> Server]
  BY <1>1, <1>4, GoesTo DEF Inv, TypeOK
<1>7. TypeOK'
  BY <1>4, <1>6, Naturals DEF Inv, TypeOK
<1>8. ASSUME NEW t \in Servers
      PROVE  server'[t].pc \notin Working /\ LoopOK(server[t])' /\ EventsOK(server[t], scaled[t])'
  <2>1. LoopOK(server[t]) /\ EventsOK(server[t], scaled[t])
    BY DEF Inv
  <2>2. CASE t = s
    <3>1. /\ server'[s].pc = "try" /\ server'[s].work = server[s].work
          /\ server'[s].checked = server[s].checked /\ server'[s].seen = server[s].seen
      BY <1>1, <1>5, GoesTo
    <3> QED
      BY <1>1, <1>2, <1>4, <2>1, <2>2, <3>1 DEF LoopOK, EventsOK, Working
  <2>3. CASE t # s
    BY <1>2, <1>4, <1>5, <2>1, <2>3 DEF LoopOK, EventsOK
  <2> QED
    BY <2>2, <2>3
<1>9. OneChecks' /\ HolderOK'
  BY <1>3, <1>4, <1>8 DEF OneChecks, HolderOK
<1> QED
  BY <1>7, <1>8, <1>9 DEF Inv

-----------------------------------------------------------------------------
(* Taking the lease                                                        *)

\* Nobody works when the lease has expired: a check is shorter.
LEMMA NobodyWorks ==
  ASSUME Inv, Expired, NEW t \in Servers
  PROVE  server[t].pc \notin Working
<1>1. server[t] \in Server /\ LoopOK(server[t])
  BY DEF Inv, TypeOK
<1>2. server[t].work <= MaxWork /\ server[t].work \in Nat
  BY <1>1, ServerFields
<1> QED
  BY <1>1, <1>2, Naturals DEF LoopOK, Expired

\* The lease is taken, by a server that looks, or whose call failed and that sleeps.
LEMMA TakenStep ==
  ASSUME Inv, NEW s \in Servers, NEW r \in Server, Expired,
         age' = 0, holder' = s, server' = [server EXCEPT ![s] = r],
         UNCHANGED <<row, events, recorded, scaled, crashes>>, faults' \in Nat,
         r.work = 0, r.pc \in Working \/ faults' # 0, EventsOK(r, scaled[s])
  PROVE  Inv'
<1>1. server'[s] = r /\ \A t \in Servers : t # s => server'[t] = server[t]
  BY DEF Inv, TypeOK
<1>2. TypeOK'
  <2>1. 0 \in 0..LongAgo
    BY Naturals
  <2> QED
    BY <2>1 DEF Inv, TypeOK
<1>3. ASSUME NEW t \in Servers PROVE LoopOK(server[t])' /\ EventsOK(server[t], scaled[t])'
  BY <1>1, NobodyWorks DEF Inv, LoopOK, EventsOK, Expired
<1>4. OneChecks'
  BY <1>1, NobodyWorks DEF OneChecks
<1>5. HolderOK'
  BY <1>1, NobodyWorks DEF HolderOK, LeaseAt, Expired
<1> QED
  BY <1>2, <1>3, <1>4, <1>5 DEF Inv

LEMMA AcquireStep ==
  ASSUME Inv, NEW s \in Servers, AutoscalingPullAcquireLock(s)
  PROVE  Inv'
<1>1. /\ server[s] \in Server /\ server[s].pc = "try" /\ "describe" \in Pc
      /\ LoopOK(server[s]) /\ EventsOK(server[s], scaled[s])
      /\ recorded \in BOOLEAN /\ faults \in Nat
  BY DEF Inv, TypeOK, AutoscalingPullAcquireLock, Pc
<1>2. UNCHANGED <<row, events, recorded, scaled, crashes, faults>>
  BY DEF AutoscalingPullAcquireLock, LeaseOnly, NoFault
<1>3. server[s].work = 0
  BY <1>1 DEF LoopOK, Working
<1>4. CASE Expired
  <2>1. /\ age' = 0 /\ holder' = s
        /\ server' = [server EXCEPT ![s] = [server[s] EXCEPT !.pc = "describe"]]
    BY <1>4 DEF AutoscalingPullAcquireLock, Goes
  <2> DEFINE r == [server[s] EXCEPT !.pc = "describe"]
  <2>2. /\ r \in Server /\ r.pc = "describe" /\ r.work = 0
        /\ r.checked = server[s].checked /\ r.seen = server[s].seen
    BY <1>1, <1>3, GoesTo
  <2>3. server' = [server EXCEPT ![s] = r]
    BY <2>1
  <2> HIDE DEF r
  <2>4. EventsOK(r, scaled[s])
    BY <1>1, <2>2 DEF EventsOK
  <2> QED
    BY <1>1, <1>2, <1>4, <2>1, <2>2, <2>3, <2>4, TakenStep DEF Working
<1>5. CASE ~Expired
  <2>1. server' = [server EXCEPT ![s] = Asleep(s)] /\ UNCHANGED <<age, holder>>
    BY <1>5 DEF AutoscalingPullAcquireLock, Sleeps
  <2>2. holder = s => faults # 0
    BY <1>1, <1>5, NoneIsNoServer DEF Inv, HolderOK, LeaseAt, Working, Expired
  <2> QED
    BY <1>1, <1>2, <2>1, <2>2, AsleepServer, LoopStep DEF EventsOK, Working
<1> QED
  BY <1>4, <1>5

LEMMA AcquireFailsStep ==
  ASSUME Inv, NEW s \in Servers, AcquireFails(s)
  PROVE  Inv'
<1>1. /\ server[s] \in Server /\ server[s].pc = "try" /\ EventsOK(server[s], scaled[s])
      /\ recorded \in BOOLEAN /\ faults' \in Nat /\ faults' # 0
  BY DEF Inv, TypeOK, AcquireFails, Fault
<1>2. /\ UNCHANGED <<row, events, recorded, scaled, crashes>>
      /\ server' = [server EXCEPT ![s] = Asleep(s)]
  BY DEF AcquireFails, LeaseOnly, Fault, Sleeps
<1>3. CASE UNCHANGED <<age, holder>>
  BY <1>1, <1>2, <1>3, AsleepServer, LoopStep DEF EventsOK, Working
<1>4. CASE Expired /\ age' = 0 /\ holder' = s
  BY <1>1, <1>2, <1>4, AsleepServer, TakenStep DEF EventsOK
<1> QED
  BY <1>3, <1>4 DEF AcquireFails

-----------------------------------------------------------------------------
(* The check                                                               *)

\* A step of a check that goes on.
LEMMA CheckGoesOn ==
  ASSUME Inv, NEW s \in Servers, NEW pc \in Working, server[s].pc \in Working,
         Goes(s, pc), UNCHANGED <<row, age, holder, events, recorded, scaled, crashes>>,
         faults' \in Nat, faults' = 0 => faults = 0,
         server[s].pc \in {"record", "done"} => pc \in {"record", "done"}
  PROVE  Inv'
<1>1. /\ server[s] \in Server /\ EventsOK(server[s], scaled[s]) /\ recorded \in BOOLEAN
      /\ pc \in Pc
  BY DEF Inv, TypeOK, Working, Pc
<1>2. server' = [server EXCEPT ![s] = [server[s] EXCEPT !.pc = pc]]
  BY DEF Goes
<1> DEFINE r == [server[s] EXCEPT !.pc = pc]
<1>3. /\ r \in Server /\ r.pc = pc /\ r.work = server[s].work
      /\ r.checked = server[s].checked /\ r.seen = server[s].seen
  BY <1>1, GoesTo
<1>4. server' = [server EXCEPT ![s] = r]
  BY <1>2
<1> HIDE DEF r
<1>5. EventsOK(r, scaled[s]) /\ LeaseAt(r, age)
  BY <1>1, <1>3 DEF EventsOK, LeaseAt, Working
<1> QED
  BY <1>1, <1>3, <1>4, <1>5, LoopStep

LEMMA DescribeStep ==
  ASSUME Inv, NEW s \in Servers, DescribeServices(s) \/ DescribeFails(s)
  PROVE  Inv'
<1>1. /\ server[s] \in Server /\ server[s].pc = "describe" /\ EventsOK(server[s], scaled[s])
      /\ recorded \in BOOLEAN /\ faults \in Nat /\ Len(events) \in Nat
  BY EventCount DEF Inv, TypeOK, DescribeServices, DescribeFails
<1>2. /\ UNCHANGED <<row, age, holder, events, recorded, scaled, crashes>>
      /\ faults' \in Nat /\ (faults' = 0 => faults = 0)
  BY <1>1 DEF DescribeServices, DescribeFails, CheckOnly, NoFault, Fault
<1>3. CASE Goes(s, "done")
  BY <1>1, <1>2, <1>3, CheckGoesOn DEF Working
<1>4. CASE ~Goes(s, "done")
  <2> DEFINE r == [server[s] EXCEPT !.pc = "scale", !.seen = Len(events),
                                    !.found = Counted(server[s].found)]
  <2>1. server' = [server EXCEPT ![s] = r]
    BY <1>4 DEF DescribeServices, DescribeFails, Described
  <2>2. Counted(server[s].found) \in 0..6
    <3>1. server[s].found \in 0..6
      BY <1>1, ServerFields
    <3> QED
      BY <3>1 DEF Counted
  <2>3. /\ r \in Server /\ r.pc = "scale" /\ r.work = server[s].work
        /\ r.checked = server[s].checked /\ r.seen = Len(events)
    BY <1>1, <2>2 DEF Server, Pc
  <2>4. EventsOK(r, scaled[s])
    BY <1>1, <2>3 DEF EventsOK
  <2> HIDE DEF r
  <2> QED
    BY <1>1, <1>2, <2>1, <2>3, <2>4, LoopStep DEF Working, LeaseAt
<1> QED
  BY <1>3, <1>4

LEMMA ScaleStep ==
  ASSUME Inv, NEW s \in Servers, Scale(s)
  PROVE  Inv'
<1> DEFINE S == {i \in New(s) : events[i].unplaced}
<1> DEFINE h == [once |-> scaled[s].once \cup S, twice |-> scaled[s].twice \cup (scaled[s].once \cap S)]
<1>1. /\ server[s] \in Server /\ server[s].pc = "scale" /\ EventsOK(server[s], scaled[s])
      /\ scaled \in [Servers -> [once : SUBSET Nat, twice : SUBSET Nat]]
      /\ server \in [Servers -> Server]
  BY DEF Inv, TypeOK, Scale
<1>2. scaled' = [scaled EXCEPT ![s] = h]
  BY <1>1 DEF Scale
<1>3. PICK r \in Server :
        /\ server' = [server EXCEPT ![s] = r]
        /\ r.pc \in {"record", "done"} /\ r.work = server[s].work
        /\ r.checked = server[s].checked /\ r.seen = server[s].seen
  <2>1. CASE LastScaled(s)
    <3>1. /\ server' = [server EXCEPT ![s] = [server[s] EXCEPT !.pc = "record", !.found = 0]]
      BY <1>1, <2>1 DEF Scale, Server
    <3>2. [server[s] EXCEPT !.pc = "record", !.found = 0] \in Server
      <4>1. "record" \in Pc /\ 0 \in 0..6
        BY DEF Pc
      <4> QED
        BY <1>1, <4>1 DEF Server
    <3> QED
      BY <1>1, <3>1, <3>2 DEF Server
  <2>2. CASE ~LastScaled(s)
    <3>1. server' = [server EXCEPT ![s] = [server[s] EXCEPT !.pc = "done"]]
      BY <2>2 DEF Scale
    <3>2. "done" \in Pc
      BY DEF Pc
    <3> QED
      BY <1>1, <3>1, <3>2, GoesTo
  <2> QED
    BY <2>1, <2>2
<1>4. S \subseteq 1..server[s].seen /\ S \cap 1..server[s].checked = {} /\ S \subseteq Nat
  BY <1>1, ServerFields DEF New
<1> HIDE DEF S
<1>5. /\ h \in [once : SUBSET Nat, twice : SUBSET Nat]
      /\ h.twice = {} /\ h.once \subseteq 1..server[s].checked \cup 1..server[s].seen
  BY <1>1, <1>4 DEF EventsOK
<1> HIDE DEF h
<1>6. /\ server'[s] = r /\ scaled'[s] = h
      /\ \A t \in Servers : t # s => server'[t] = server[t] /\ scaled'[t] = scaled[t]
  BY <1>1, <1>2, <1>3
<1>7. UNCHANGED <<row, age, holder, events, recorded, crashes, faults>>
  BY DEF Scale, CheckOnly, NoFault
<1>8. TypeOK'
  BY <1>1, <1>2, <1>3, <1>5, <1>7 DEF Inv, TypeOK
<1>9. ASSUME NEW t \in Servers PROVE LoopOK(server[t])' /\ EventsOK(server[t], scaled[t])'
  <2>1. LoopOK(server[t]) /\ EventsOK(server[t], scaled[t])
    BY DEF Inv
  <2>2. CASE t = s
    BY <1>1, <1>3, <1>5, <1>6, <1>7, <2>1, <2>2 DEF LoopOK, EventsOK, Working
  <2>3. CASE t # s
    BY <1>6, <1>7, <2>1, <2>3 DEF LoopOK, EventsOK
  <2> QED
    BY <2>2, <2>3
<1>10. OneChecks'
  BY <1>1, <1>3, <1>6 DEF Inv, OneChecks, Working
<1>11. HolderOK'
  BY <1>3, <1>6, <1>7, NoneIsNoServer DEF Inv, TypeOK, HolderOK, LeaseAt, Working
<1> QED
  BY <1>8, <1>9, <1>10, <1>11 DEF Inv

LEMMA DoneStep ==
  ASSUME Inv, NEW s \in Servers, Done(s)
  PROVE  Inv'
<1>1. /\ server[s] \in Server /\ server[s].pc = "done"
      /\ LoopOK(server[s]) /\ EventsOK(server[s], scaled[s])
      /\ recorded \in BOOLEAN /\ faults \in Nat /\ Len(events) \in Nat
  BY EventCount DEF Inv, TypeOK, Done
<1> DEFINE r == [Asleep(s) EXCEPT !.checked = Len(events), !.seen = 0]
<1>2. /\ server' = [server EXCEPT ![s] = r]
      /\ UNCHANGED <<row, age, holder, events, recorded, scaled, crashes, faults>>
  BY DEF Done, CheckOnly, NoFault
<1>3. /\ r \in Server /\ r.pc = "sleep" /\ r.left = Lease /\ r.work = 0
      /\ r.checked = Len(events) /\ r.seen = 0
  BY <1>1, AsleepServer DEF Server
<1>4. age = server[s].work /\ server[s].work \in Nat /\ server[s].work <= MaxWork
  BY <1>1, ServerFields DEF LoopOK, Working
<1> HIDE DEF r
<1>5. EventsOK(r, scaled[s])
  BY <1>1, <1>3, ServerFields DEF EventsOK
<1>6. LeaseAt(r, age)
  BY <1>3, <1>4, Naturals DEF LeaseAt
<1> QED
  BY <1>1, <1>2, <1>3, <1>5, <1>6, LoopStep DEF Working

LEMMA WakeStep ==
  ASSUME Inv, NEW s \in Servers, Wake(s)
  PROVE  Inv'
<1>1. /\ server[s] \in Server /\ server[s].pc = "sleep" /\ server[s].left = 0
      /\ LoopOK(server[s]) /\ EventsOK(server[s], scaled[s])
      /\ recorded \in BOOLEAN /\ faults \in Nat /\ "try" \in Pc
  BY DEF Inv, TypeOK, Wake, Pc
<1> DEFINE r == [server[s] EXCEPT !.pc = "try"]
<1>2. /\ server' = [server EXCEPT ![s] = r]
      /\ UNCHANGED <<row, age, holder, events, recorded, scaled, crashes, faults>>
  BY DEF Wake, Goes, CheckOnly, NoFault
<1>3. /\ r \in Server /\ r.pc = "try" /\ r.work = server[s].work
      /\ r.checked = server[s].checked /\ r.seen = server[s].seen
  BY <1>1, GoesTo
<1> HIDE DEF r
<1>4. holder = s /\ faults = 0 => LeaseAt(r, age)
  BY <1>1, <1>3, Naturals, NoneIsNoServer DEF Inv, HolderOK, LeaseAt, Working
<1>5. EventsOK(r, scaled[s]) /\ r.work = 0
  BY <1>1, <1>3 DEF EventsOK, LoopOK, Working
<1> QED
  BY <1>1, <1>2, <1>3, <1>4, <1>5, LoopStep DEF Working

-----------------------------------------------------------------------------
(* A server ends and starts                                                *)

LEMMA EndsStep ==
  ASSUME Inv, NEW s \in Servers, Ends(s), UNCHANGED <<row, age, events>>,
         recorded' \in BOOLEAN, faults' \in Nat, faults' = 0 => faults = 0, crashes' \in Nat
  PROVE  Inv'
<1>1. /\ server' = [server EXCEPT ![s] = Down] /\ scaled' = [scaled EXCEPT ![s] = Nothing]
      /\ holder' \in {holder, None} /\ holder' # s
  BY NoneIsNoServer DEF Ends
<1>2. /\ server'[s] = Down /\ scaled'[s] = Nothing
      /\ \A t \in Servers : t # s => server'[t] = server[t] /\ scaled'[t] = scaled[t]
  BY <1>1 DEF Inv, TypeOK
<1>3. TypeOK'
  <2>1. Nothing \in [once : SUBSET Nat, twice : SUBSET Nat]
    BY DEF Nothing
  <2>2. server' \in [Servers -> Server]
    BY <1>1, DownServer DEF Inv, TypeOK
  <2>3. scaled' \in [Servers -> [once : SUBSET Nat, twice : SUBSET Nat]]
    BY <1>1, <2>1 DEF Inv, TypeOK
  <2> QED
    BY <1>1, <2>2, <2>3 DEF Inv, TypeOK
<1>4. ASSUME NEW t \in Servers PROVE LoopOK(server[t])' /\ EventsOK(server[t], scaled[t])'
  <2>1. CASE t = s
    <3>1. Len(events) \in Nat
      BY EventCount DEF Inv
    <3>2. Nothing.once = {} /\ Nothing.twice = {}
      BY DEF Nothing
    <3> QED
      BY <1>2, <2>1, <3>1, <3>2, DownServer DEF LoopOK, EventsOK, Working
  <2>2. CASE t # s
    BY <1>2, <2>2 DEF Inv, LoopOK, EventsOK
  <2> QED
    BY <2>1, <2>2
<1>5. OneChecks'
  BY <1>2, DownServer DEF Inv, OneChecks, Working
<1>6. HolderOK'
  BY <1>1, <1>2 DEF Inv, TypeOK, HolderOK, LeaseAt
<1> QED
  BY <1>3, <1>4, <1>5, <1>6 DEF Inv

LEMMA StartStep ==
  ASSUME Inv, NEW s \in Servers, Start(s)
  PROVE  Inv'
<1>1. /\ server[s] \in Server /\ server[s].pc = "down"
      /\ LoopOK(server[s]) /\ EventsOK(server[s], scaled[s])
      /\ recorded \in BOOLEAN /\ faults \in Nat /\ Len(events) \in Nat
  BY EventCount DEF Inv, TypeOK, Start
<1>2. PICK n \in 0..Len(events) :
        server' = [server EXCEPT ![s].pc = "init", ![s].checked = n]
  BY DEF Start
<1> DEFINE r == [server[s] EXCEPT !.pc = "init", !.checked = n]
<1>3. server' = [server EXCEPT ![s] = r]
  BY <1>1, <1>2 DEF Inv, TypeOK, Server
<1>4. UNCHANGED <<row, age, holder, events, recorded, scaled, crashes, faults>>
  BY DEF Start, LeaseOnly, NoFault
<1>5. /\ r \in Server /\ r.pc = "init" /\ r.work = server[s].work /\ r.checked = n
      /\ r.seen = server[s].seen
  <2>1. n \in Nat /\ "init" \in Pc
    BY <1>1 DEF Pc
  <2> QED
    BY <1>1, <2>1 DEF Server
<1> HIDE DEF r
<1> QED
  <2>1. holder = s => faults # 0
    BY <1>1, NoneIsNoServer DEF Inv, HolderOK, LeaseAt, Working
  <2>2. scaled[s].once = {}
    BY <1>1 DEF EventsOK
  <2>3. EventsOK(r, scaled[s]) /\ r.work = 0
    BY <1>1, <1>5, <2>2 DEF EventsOK, LoopOK, Working
  <2> QED
    BY <1>1, <1>3, <1>4, <1>5, <2>1, <2>3, LoopStep DEF Working

LEMMA PutStep ==
  ASSUME Inv, NEW s \in Servers, PutClusterInfo(s) \/ RecordFails(s)
  PROVE  Inv'
<1>1. /\ server[s].pc = "record" /\ recorded \in BOOLEAN /\ faults \in Nat /\ crashes \in Nat
  BY DEF Inv, TypeOK, PutClusterInfo, RecordFails
<1>2. /\ UNCHANGED <<row, age, events, recorded, crashes>>
      /\ faults' \in Nat /\ (faults' = 0 => faults = 0)
  BY <1>1 DEF PutClusterInfo, RecordFails, CheckOnly, NoFault, Fault
<1>3. CASE Ends(s)
  BY <1>1, <1>2, <1>3, EndsStep
<1>4. CASE Goes(s, "done") /\ UNCHANGED <<holder, scaled>>
  BY <1>1, <1>2, <1>4, CheckGoesOn DEF Working
<1> QED
  BY <1>3, <1>4 DEF PutClusterInfo, RecordFails

LEMMA CrashStep ==
  ASSUME Inv, NEW s \in Servers, Crash(s)
  PROVE  Inv'
<1>1. recorded \in BOOLEAN /\ faults \in Nat /\ crashes \in Nat
  BY DEF Inv, TypeOK
<1>2. /\ Ends(s) /\ UNCHANGED <<row, age, events, recorded, faults>> /\ crashes' \in Nat
  BY <1>1 DEF Crash, CheckOnly
<1> QED
  BY <1>1, <1>2, EndsStep

-----------------------------------------------------------------------------
(* The world                                                               *)

LEMMA WorldStep ==
  ASSUME Inv, NewEvent \/ FirstRecord
  PROVE  Inv'
<1>1. /\ UNCHANGED <<row, age, holder, server, scaled, crashes, faults>>
      /\ recorded' \in BOOLEAN
  BY DEF Inv, TypeOK, NewEvent, FirstRecord, NoFault
<1>2. events' \in Seq(Event) /\ Len(events') \in Nat /\ Len(events) \in Nat
      /\ Len(events) <= Len(events')
  <2>1. CASE UNCHANGED events
    BY <2>1, EventCount DEF Inv, TypeOK
  <2>2. CASE ~UNCHANGED events
    <3>1. PICK u \in BOOLEAN : events' = Append(events, [unplaced |-> u, age |-> 0])
      BY <2>2 DEF NewEvent, FirstRecord
    <3>2. [unplaced |-> u, age |-> 0] \in Event
      BY Naturals DEF Event
    <3> QED
      BY <3>1, <3>2 DEF Inv, TypeOK
  <2> QED
    BY <2>1, <2>2
<1>3. TypeOK'
  BY <1>1, <1>2 DEF Inv, TypeOK
<1>4. ASSUME NEW t \in Servers PROVE LoopOK(server[t])' /\ EventsOK(server[t], scaled[t])'
  <2>1. server[t] \in Server
    BY DEF Inv, TypeOK
  <2> QED
    BY <1>1, <1>2, <2>1, ServerFields DEF Inv, LoopOK, EventsOK
<1>5. OneChecks' /\ HolderOK'
  BY <1>1 DEF Inv, OneChecks, HolderOK, LeaseAt
<1> QED
  BY <1>3, <1>4, <1>5 DEF Inv

\* A tick makes the lease and the check, or the lease and the sleep, one older.
LEMMA LaterServer ==
  ASSUME Inv, Tick, NEW t \in Servers
  PROVE  /\ Later(t) \in Server /\ Later(t).pc = server[t].pc
         /\ server[t].pc \notin {"init", "try"}
         /\ Later(t).checked = server[t].checked /\ Later(t).seen = server[t].seen
         /\ server[t].pc \in Working => Later(t).work = server[t].work + 1
         /\ server[t].pc \notin Working => Later(t).work = server[t].work
         /\ server[t].pc = "sleep" => Later(t).left = server[t].left - 1 /\ server[t].left > 0
<1>1. /\ server[t] \in Server
      /\ server[t].pc \notin {"init", "try"}
      /\ server[t].pc = "sleep" => server[t].left > 0
      /\ server[t].pc \in Working => server[t].work < MaxWork
  BY DEF Inv, TypeOK, Tick
<1>2. /\ server[t].left \in 0..Lease /\ server[t].work \in 0..MaxWork
      /\ server[t].left \in Nat /\ server[t].work \in Nat
  BY <1>1, ServerFields DEF Server
<1>3. CASE server[t].pc = "sleep"
  <2>1. server[t].left - 1 \in 0..Lease
    BY <1>1, <1>2, <1>3, Naturals
  <2>2. Later(t) = [server[t] EXCEPT !.left = server[t].left - 1]
    BY <1>3, <1>1 DEF Later, Server
  <2> QED
    BY <1>1, <1>3, <2>1, <2>2 DEF Server, Working
<1>4. CASE server[t].pc \in Working
  <2>1. server[t].work + 1 \in 0..MaxWork
    BY <1>1, <1>2, <1>4, Naturals
  <2>2. Later(t) = [server[t] EXCEPT !.work = server[t].work + 1]
    BY <1>4, <1>1 DEF Later, Server, Working
  <2> QED
    BY <1>1, <1>4, <2>1, <2>2 DEF Server, Working
<1>5. CASE server[t].pc # "sleep" /\ server[t].pc \notin Working
  BY <1>1, <1>5 DEF Later
<1> QED
  BY <1>3, <1>4, <1>5

LEMMA TickStep ==
  ASSUME Inv, Tick
  PROVE  Inv'
<1>1. /\ UNCHANGED <<row, holder, recorded, scaled, crashes, faults>>
      /\ age' = Older(age)
      /\ server' = [s \in Servers |-> Later(s)]
  BY DEF Tick, NoFault
<1>2. \A t \in Servers : server'[t] = Later(t)
  BY <1>1
<1>3. /\ age \in Nat /\ age' \in 0..LongAgo
      /\ age < LongAgo => age' = age + 1
  <2>1. age \in 0..LongAgo
    BY DEF Inv, TypeOK
  <2> QED
    BY <1>1, <2>1, Naturals DEF Older
<1>4. events' \in Seq(Event) /\ Len(events') = Len(events) /\ Len(events) \in Nat
  <2>1. events \in Seq(Event) /\ DOMAIN events = 1..Len(events) /\ Len(events) \in Nat
    BY DEF Inv, TypeOK
  <2>2. ASSUME NEW i \in 1..Len(events)
        PROVE  [events[i] EXCEPT !.age = IF @ < Lease THEN @ + 1 ELSE @] \in Event
    <3>1. events[i] \in Event
      BY <2>1
    <3>3. events[i].age \in 0..Lease
      BY <3>1 DEF Event
    <3>2. (IF events[i].age < Lease THEN events[i].age + 1 ELSE events[i].age) \in 0..Lease
      BY <3>3, Naturals
    <3> QED
      BY <3>1, <3>2 DEF Event
  <2>3. events' = [i \in 1..Len(events) |->
                    [events[i] EXCEPT !.age = IF @ < Lease THEN @ + 1 ELSE @]]
    BY <2>1 DEF Tick
  <2> QED
    BY <2>1, <2>2, <2>3
<1>5. TypeOK'
  <2>1. server' \in [Servers -> Server]
    BY <1>1, LaterServer
  <2> QED
    BY <1>1, <1>3, <1>4, <2>1 DEF Inv, TypeOK
<1>6. ASSUME NEW t \in Servers PROVE LoopOK(server[t])' /\ EventsOK(server[t], scaled[t])'
  <2>1. LoopOK(server[t]) /\ EventsOK(server[t], scaled[t]) /\ server[t] \in Server
    BY DEF Inv, TypeOK
  <2>2. server[t].pc \in Working => row' /\ age' = age + 1
    BY <1>1, <1>3, <2>1, ServerFields, Naturals DEF LoopOK
  <2>3. LoopOK(server[t])'
    BY <1>2, <2>1, <2>2, LaterServer DEF LoopOK
  <2>4. EventsOK(server[t], scaled[t])'
    BY <1>1, <1>2, <1>4, <2>1, LaterServer DEF EventsOK
  <2> QED
    BY <2>3, <2>4
<1>7. OneChecks'
  BY <1>2, LaterServer DEF Inv, OneChecks
<1>8. HolderOK'
  <2> SUFFICES ASSUME holder # None PROVE row /\ (faults = 0 => LeaseAt(server[holder], age)')
    BY <1>1 DEF HolderOK
  <2>1. holder \in Servers /\ server[holder] \in Server
    BY DEF Inv, TypeOK
  <2>2. row /\ (faults = 0 => LeaseAt(server[holder], age))
    BY DEF Inv, HolderOK
  <2>3. CASE server[holder].pc = "sleep" /\ faults = 0
    <3>1. /\ Lease - server[holder].left <= age
          /\ age <= Lease - server[holder].left + MaxWork
      BY <2>2, <2>3 DEF LeaseAt, Working
    <3>2. server'[holder].pc = "sleep" /\ server'[holder].left = server[holder].left - 1
      BY <1>2, <2>1, <2>3, LaterServer
    <3>3. age' = age + 1
      BY <1>3, <2>1, <3>1, ServerFields, Naturals
    <3> QED
      BY <1>1, <1>3, <2>1, <2>2, <3>1, <3>2, <3>3, ServerFields, Naturals DEF LeaseAt
  <2>4. CASE server[holder].pc \in Working
    BY <1>1, <1>2, <2>1, <2>2, <2>4, LaterServer DEF LeaseAt
  <2> QED
    BY <2>1, <2>2, <2>3, <2>4, LaterServer DEF LeaseAt
<1> QED
  BY <1>5, <1>6, <1>7, <1>8 DEF Inv

-----------------------------------------------------------------------------
(* The theorems                                                            *)

LEMMA NextInv == Inv /\ [Next]_vars => Inv'
<1> SUFFICES ASSUME Inv, [Next]_vars PROVE Inv'
  OBVIOUS
<1>1. ASSUME NEW s \in Servers, Loop(s) PROVE Inv'
  <2>1. CASE AutoscalingPullInit(s)
    <3>1. row' = TRUE /\ row \in BOOLEAN
      BY <2>1 DEF AutoscalingPullInit, Inv, TypeOK
    <3> QED
      BY <2>1, <3>1, InitStep, FirstInitStep
  <2>2. CASE Check(s)
    BY <2>2, DescribeStep, ScaleStep, PutStep, DoneStep DEF Check
  <2> QED
    BY <1>1, <2>1, <2>2, StartStep, AcquireStep, WakeStep DEF Loop
<1>2. ASSUME NEW s \in Servers, Fails(s) PROVE Inv'
  <2>1. CASE InitFails(s)
    BY <2>1, InitStep DEF InitFails
  <2> QED
    BY <1>2, <2>1, AcquireFailsStep, DescribeStep, PutStep DEF Fails
<1>3. CASE UNCHANGED vars
  BY <1>3 DEF vars, Inv, TypeOK, LoopOK, EventsOK, OneChecks, HolderOK, LeaseAt
<1> QED
  BY <1>1, <1>2, <1>3, CrashStep, WorldStep, TickStep DEF Next

THEOREM Invariance == Spec => []Inv
<1> QED
  BY InitInv, NextInv, PTL DEF Spec

\* The loops of startAutoscalingPollingStrategy stay within their types.
THEOREM TypeCorrect == Spec => []TypeOK
<1>1. Inv => TypeOK
  BY DEF Inv
<1> QED
  BY <1>1, Invariance, PTL

\* Two servers never check at once: the lease of AutoscalingPullAcquireLock is
\* longer than a check, whatever crashes and fails.
THEOREM MutualExclusion == Spec => []OneChecks
<1>1. Inv => OneChecks
  BY DEF Inv
<1> QED
  BY <1>1, Invariance, PTL

\* A server that has looked sleeps a minute, and then takes the lease again at once
\* unless another has: the lease is never older than a minute and a check.
THEOREM LookedEveryMinute == Spec => []EveryMinute
<1>1. Inv => EveryMinute
  <2> SUFFICES ASSUME Inv, holder # None, faults = 0 PROVE age <= Lease + MaxWork
    BY DEF EveryMinute
  <2>1. /\ holder \in Servers /\ server[holder] \in Server /\ age \in 0..LongAgo
        /\ LeaseAt(server[holder], age) /\ LoopOK(server[holder])
    BY DEF Inv, TypeOK, HolderOK
  <2> QED
    BY <2>1, ServerFields, Naturals DEF LeaseAt, LoopOK
<1> QED
  BY <1>1, Invariance, PTL

\* lastChecked keeps a server from scaling twice for one event.
THEOREM OnceOnly == Spec => []ScaledOnce
<1>1. Inv => ScaledOnce
  BY DEF Inv, EventsOK, ScaledOnce
<1> QED
  BY <1>1, Invariance, PTL
=============================================================================
