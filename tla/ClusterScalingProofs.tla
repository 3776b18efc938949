------------------------ MODULE ClusterScalingProofs ------------------------
(***************************************************************************)
(* Proofs about ClusterScaling, for any clusters, instances, messages      *)
(* served at once, goroutines, cooldowns and periods, and any number of    *)
(* crashes and failing calls where a theorem does not say otherwise.       *)
(***************************************************************************)
EXTENDS ClusterScaling, FiniteSetTheorems, SequenceTheorems, TLAPS

-----------------------------------------------------------------------------
(* The inductive invariant, by the state it is about                       *)

\* What a handler writes next: a group that it has found below its maximum grows by
\* one, and a pending operation has a direction.
HandlerOK(r) ==
  /\ r.pc # "idle" => r.cluster \in Clusters
  /\ r.pc = "put" => r.pending \in Operation
  /\ r.pc = "mark" => r.node \in Nodes
  /\ r.pc = "set" => r.desired \in MinSize..MaxSize /\ r.desired # MaxSize

\* A goroutine has an operation; what it has read of the group leaves room for one
\* more step in its direction, whatever others have written since.
OpOK(g, r) ==
  /\ r.pc # "none" => r.cluster \in Clusters /\ r.op \in Operation
  /\ r.pc \in {"lock", "sleep", "check"} => r.left # 0
  /\ r.pc = "lock" => g \in Slots /\ r.left = Period(r.op)
  /\ r.pc = "set" => r.desired \in MinSize..MaxSize /\ ~AtBound(r.op, r.desired)

\* A server that does not run holds nothing.
Stopped ==
  /\ \A h \in Handlers : handler[h].pc = "idle"
  /\ \A g \in Goroutines : op[g].pc = "none"

CapacityOK == capacity \in [Clusters -> Nat] /\ CapacityInBounds
RecordsOK == info \in Info /\ activity \in Seq(Scaling)
HandlersOK == handler \in [Handlers -> Handler] /\ \A h \in Handlers : HandlerOK(handler[h])
OpsOK == /\ op \in [Goroutines -> Op] /\ lock \in [Operation -> Slots \cup {None}]
         /\ LockHeld /\ \A g \in Goroutines : OpOK(g, op[g])
WorldOK == /\ load \in List /\ busy \in {"", "deploy", "tasks"}
           /\ sinceSpare \in [Clusters -> 0..Long]
HistoryOK == sinceDown \in [Clusters -> 0..Horizon] /\ decided \in [Clusters -> BOOLEAN]
ServerOK == /\ up \in BOOLEAN /\ drains \in Nat /\ crashes \in Nat /\ faults \in Nat
            /\ ~up => Stopped /\ crashes # 0

Inv == /\ CapacityOK /\ RecordsOK /\ HandlersOK /\ OpsOK
       /\ WorldOK /\ HistoryOK /\ ServerOK

-----------------------------------------------------------------------------
(* Numbers                                                                 *)

LEMMA Bounds ==
  /\ MinSize \in Nat /\ MaxSize \in Nat /\ MinSize <= MaxSize
  /\ UpCooldown \in Nat \ {0} /\ DownCooldown \in Nat \ {0} /\ CacheAge \in Nat \ {0}
  /\ UpPeriod \in Nat \ {0} /\ DownPeriod \in Nat \ {0}
  /\ \A o : Period(o) \in Nat \ {0}
  BY ScalingConstants DEF Period

LEMMA MinOfTwo ==
  ASSUME NEW a \in Nat, NEW b \in Nat
  PROVE  Min({a, b}) = IF a <= b THEN a ELSE b
<1>1. PICK m \in {a, b} : \A y \in {a, b} : m <= y
  OBVIOUS
<1>2. Min({a, b}) \in {a, b} /\ \A y \in {a, b} : Min({a, b}) <= y
  BY <1>1 DEF Min
<1> QED
  BY <1>2

LEMMA HorizonIsLongest ==
  /\ Horizon \in Nat
  /\ \A n \in {UpCooldown, DownCooldown, UpPeriod, DownPeriod, CacheAge} : n <= Horizon
<1> DEFINE S == {UpCooldown, DownCooldown, UpPeriod, DownPeriod, CacheAge}
<1>1. \A x \in S : x \in Nat
  BY Bounds
<1>2. ASSUME NEW a \in Nat, NEW b \in Nat PROVE a <= b \/ b <= a
  OBVIOUS
<1>3. \E m \in S : \A y \in S : m >= y
  BY Bounds
<1>4. Max(S) \in S /\ \A y \in S : Max(S) >= y
  BY <1>3 DEF Max
<1> QED
  BY <1>1, <1>4 DEF Horizon

LEMMA Upto ==
  ASSUME NEW n \in Nat
  PROVE  0 \in 0..n /\ n \in 0..n
  OBVIOUS

LEMMA OlderIsOlder ==
  ASSUME NEW a \in 0..Horizon
  PROVE  /\ Older(a) \in 0..Horizon
         /\ a < Horizon => Older(a) = a + 1
         /\ a = Horizon => Older(a) = Horizon
<1>1. Older(a) = IF a + 1 <= Horizon THEN a + 1 ELSE Horizon
  BY HorizonIsLongest, MinOfTwo DEF Older
<1> QED
  BY <1>1, HorizonIsLongest

-----------------------------------------------------------------------------
(* Lists of instances and records                                          *)

LEMMA Lists ==
  \A l : l \in List <=> DOMAIN l \subseteq Nodes /\ l \in [DOMAIN l -> Instance]
  BY DEF List

LEMMA EmptyList == Empty \in List
<1>1. Empty \in [{} -> Instance] /\ {} \in SUBSET Nodes
  BY DEF Empty
<1> QED
  BY <1>1 DEF List

LEMMA InstanceFields ==
  ASSUME NEW i \in Instance, NEW s \in {"", "ACTIVE", "DRAINING"}
  PROVE  [i EXCEPT !.status = s] \in Instance /\ i.status \in {"", "ACTIVE", "DRAINING"}
  BY DEF Instance

LEMMA DrainingList ==
  ASSUME NEW l \in List, NEW n \in Nodes
  PROVE  Draining(l, n) \in List
<1>1. DOMAIN l \subseteq Nodes /\ l \in [DOMAIN l -> Instance]
  BY Lists
<1>2. Draining(l, n) \in [DOMAIN l -> Instance]
  BY <1>1, InstanceFields DEF Draining
<1>3. DOMAIN Draining(l, n) = DOMAIN l
  BY <1>2
<1> QED
  BY <1>1, <1>2, <1>3, Lists

LEMMA ClusterInfoList ==
  ASSUME TypeOK, NEW c \in Clusters
  PROVE  ClusterInfo(c) \in List
<1> DEFINE ns == {m \in Nodes : ClusterOf[m] = c /\ m \in DOMAIN load}
<1>1. load \in List /\ info.list \in List
  BY DEF TypeOK, Info
<1>2. [n \in ns |-> load[n]] \in [ns -> Instance]
  BY <1>1, Lists
<1>3. [n \in ns |-> load[n]] \in List
  BY <1>2 DEF List
<1> QED
  BY <1>1, <1>3 DEF ClusterInfo

LEMMA MessageList ==
  ASSUME TypeOK, NEW l \in List, NEW n \in Nodes, n \in DOMAIN load
  PROVE  WithMessage(l, n) \in List
<1>1. load \in List
  BY DEF TypeOK
<1>2. load[n] \in Instance
  BY <1>1, Lists
<1>3. ASSUME n \in DOMAIN l PROVE l[n].status \in {"", "ACTIVE", "DRAINING"}
  BY <1>3, Lists, InstanceFields
<1> DEFINE status == IF n \in DOMAIN l THEN l[n].status ELSE ""
           i == [load[n] EXCEPT !.status = status]
           ns == DOMAIN l \cup {n}
<1>4. i \in Instance
  BY <1>2, <1>3, InstanceFields
<1>5. ns \in SUBSET Nodes
  BY Lists
<1>6. [m \in ns |-> IF m = n THEN i ELSE l[m]] \in [ns -> Instance]
  <2>1. \A m \in DOMAIN l : l[m] \in Instance
    BY Lists
  <2> HIDE DEF i
  <2> QED
    BY <1>4, <2>1
<1> QED
  BY <1>5, <1>6 DEF List, WithMessage

LEMMA ScalingRecord ==
  ASSUME NEW c \in Clusters, NEW a \in Operation \cup {"no"}, NEW p \in Operation \cup {""},
         NEW age \in 0..Horizon
  PROVE  [cluster |-> c, action |-> a, pending |-> p, age |-> age] \in Scaling
  BY DEF Scaling

LEMMA InfoRecord ==
  ASSUME NEW l \in List, NEW p \in Operation \cup {""}, NEW age \in 0..Horizon
  PROVE  [list |-> l, pending |-> p, age |-> age] \in Info
  BY DEF Info

\* A record that is put keeps the types.
LEMMA PutInfo ==
  ASSUME TypeOK, NEW l \in List, NEW c \in Clusters, NEW a \in Operation \cup {"no"},
         NEW p \in Operation \cup {""}, PutClusterInfo(l, c, a, p)
  PROVE  info' \in Info /\ activity' \in Seq(Scaling) /\ info'.pending = p
<1>1. 0 \in 0..Horizon
  BY HorizonIsLongest, Upto
<1>2. info' = [list |-> l, pending |-> p, age |-> 0]
  BY DEF PutClusterInfo
<1>3. info' \in Info /\ info'.pending = p
  BY <1>1, <1>2, InfoRecord
<1>4. activity \in Seq(Scaling)
  BY DEF TypeOK
<1>5. [cluster |-> c, action |-> a, pending |-> p, age |-> 0] \in Scaling
  BY <1>1, ScalingRecord
<1>6. activity' \in Seq(Scaling)
  <2> DEFINE r == [cluster |-> c, action |-> a, pending |-> p, age |-> 0]
  <2>1. r \in Scaling
    BY <1>5
  <2>2. activity' = activity \/ activity' = Append(activity, r)
    BY DEF PutClusterInfo
  <2> HIDE DEF r
  <2>3. Append(activity, r) \in Seq(Scaling)
    BY <1>4, <2>1, AppendProperties
  <2> QED
    BY <1>4, <2>2, <2>3
<1> QED
  BY <1>3, <1>6

LEMMA Constructed ==
  /\ IdleHandler \in Handler /\ NoOp \in Op /\ NoInfo \in Info
  /\ IdleHandler.pc = "idle" /\ NoOp.pc = "none" /\ NoOp.op = "" /\ NoInfo.pending = ""
<1>1. IdleHandler \in Handler /\ IdleHandler.pc = "idle"
  BY EmptyList DEF IdleHandler, Handler, HandlerPc
<1>2. NoOp \in Op /\ NoOp.pc = "none" /\ NoOp.op = ""
  BY EmptyList DEF NoOp, Op, OpPc
<1>3. NoInfo \in Info /\ NoInfo.pending = ""
  BY EmptyList, HorizonIsLongest DEF NoInfo, Info
<1> QED
  BY <1>1, <1>2, <1>3

\* A goroutine as a handler launches it, and as Resume does.
LEMMA Launched ==
  ASSUME NEW c \in Clusters, NEW o \in Operation
  PROVE  /\ NewOp("lock", c, o) \in Op /\ NewOp("lock", c, o).pc = "lock"
         /\ NewOp("lock", c, o).cluster = c /\ NewOp("lock", c, o).op = o
         /\ NewOp("lock", c, o).left = Period(o)
<1>1. Period(o) \in Nat
  BY Bounds
<1> QED
  BY <1>1, EmptyList DEF NewOp, Op, OpPc

LEMMA Restarted ==
  ASSUME NEW c \in Clusters, NEW o \in Operation
  PROVE  /\ NewOp("sleep", c, o) \in Op /\ NewOp("sleep", c, o).pc = "sleep"
         /\ NewOp("sleep", c, o).cluster = c /\ NewOp("sleep", c, o).op = o
         /\ NewOp("sleep", c, o).left = Period(o)
<1>1. Period(o) \in Nat
  BY Bounds
<1> QED
  BY <1>1, EmptyList DEF NewOp, Op, OpPc

-----------------------------------------------------------------------------
(* The parts of the invariant, and the steps that keep each                *)

LEMMA InvImplies == Inv => TypeOK /\ CapacityInBounds /\ LockHeld
  BY DEF Inv, TypeOK, CapacityOK, RecordsOK, HandlersOK, OpsOK, WorldOK, HistoryOK, ServerOK

LEMMA Kept ==
  /\ UNCHANGED capacity /\ CapacityOK => CapacityOK'
  /\ UNCHANGED <<info, activity>> /\ RecordsOK => RecordsOK'
  /\ UNCHANGED handler /\ HandlersOK => HandlersOK'
  /\ UNCHANGED <<op, lock>> /\ OpsOK => OpsOK'
  /\ UNCHANGED <<load, busy, sinceSpare>> /\ WorldOK => WorldOK'
  /\ UNCHANGED <<sinceDown, decided>> /\ HistoryOK => HistoryOK'
<1>1. UNCHANGED capacity /\ CapacityOK => CapacityOK'
  BY DEF CapacityOK, CapacityInBounds
<1>2. UNCHANGED <<info, activity>> /\ RecordsOK => RecordsOK'
  BY DEF RecordsOK
<1>3. UNCHANGED handler /\ HandlersOK => HandlersOK'
  BY DEF HandlersOK
<1>4. UNCHANGED <<op, lock>> /\ OpsOK => OpsOK'
  BY DEF OpsOK, LockHeld
<1>5. UNCHANGED <<load, busy, sinceSpare>> /\ WorldOK => WorldOK'
  BY DEF WorldOK
<1>6. UNCHANGED <<sinceDown, decided>> /\ HistoryOK => HistoryOK'
  BY DEF HistoryOK
<1> QED
  BY <1>1, <1>2, <1>3, <1>4, <1>5, <1>6

\* A server with a goroutine under way runs, and goes on running.
LEMMA Running ==
  ASSUME Inv,
         \/ up
         \/ \E h \in Handlers : handler[h].pc # "idle"
         \/ \E g \in Goroutines : op[g].pc # "none"
  PROVE  /\ up
         /\ up' = up /\ drains' \in Nat /\ crashes' \in Nat /\ faults' \in Nat => ServerOK'
  BY DEF Inv, ServerOK, Stopped

LEMMA HandlerStep ==
  ASSUME Inv, NEW h \in Handlers, NEW r \in Handler, HandlerOK(r),
         handler' = [handler EXCEPT ![h] = r]
  PROVE  HandlersOK'
<1>1. handler \in [Handlers -> Handler] /\ \A k \in Handlers : HandlerOK(handler[k])
  BY DEF Inv, HandlersOK
<1>2. handler' \in [Handlers -> Handler]
  BY <1>1
<1>3. \A k \in Handlers : handler'[k] = IF k = h THEN r ELSE handler[k]
  BY <1>1
<1>4. \A k \in Handlers : HandlerOK(handler'[k])
  BY <1>1, <1>3
<1> QED
  BY <1>2, <1>4 DEF HandlersOK

LEMMA HandlerEnds ==
  ASSUME Inv, NEW h \in Handlers, Becomes(h, "idle")
  PROVE  HandlersOK'
<1>1. HandlerOK(IdleHandler)
  BY Constructed DEF HandlerOK
<1>2. handler' = [handler EXCEPT ![h] = IdleHandler]
  BY DEF Becomes
<1> QED
  BY <1>1, <1>2, Constructed, HandlerStep

\* A goroutine goes on, with the lock or without, or one is launched and waits for it.
LEMMA OpStep ==
  ASSUME Inv, NEW g \in Goroutines, NEW r \in Op, OpOK(g, r),
         op' = [op EXCEPT ![g] = r], UNCHANGED lock,
         \/ /\ op[g].pc \notin {"none", "lock"} /\ r.pc \notin {"none", "lock"}
            /\ op[g].op = r.op
         \/ op[g].pc = "none" /\ r.pc = "lock"
  PROVE  OpsOK'
<1>1. op \in [Goroutines -> Op] /\ \A k \in Goroutines : OpOK(k, op[k])
  BY DEF Inv, OpsOK
<1>2. op' \in [Goroutines -> Op]
  BY <1>1
<1>3. \A k \in Goroutines : op'[k] = IF k = g THEN r ELSE op[k]
  BY <1>1
<1>4. \A k \in Goroutines : OpOK(k, op'[k])
  BY <1>1, <1>3
<1>5. lock' \in [Operation -> Slots \cup {None}]
  BY DEF Inv, OpsOK
<1>6. LockHeld'
  <2>1. LockHeld
    BY DEF Inv, OpsOK
  <2>2. \A k \in Slots : k \in Goroutines
    BY DEF Goroutines
  <2> QED
    BY <1>3, <2>1, <2>2 DEF LockHeld
<1> QED
  BY <1>2, <1>4, <1>5, <1>6 DEF OpsOK

LEMMA OpEnds ==
  ASSUME Inv, NEW g \in Goroutines, Ends(g)
  PROVE  OpsOK'
<1>1. op \in [Goroutines -> Op] /\ \A k \in Goroutines : OpOK(k, op[k])
  BY DEF Inv, OpsOK
<1>2. op' = [op EXCEPT ![g] = NoOp]
  BY DEF Ends
<1>3. op' \in [Goroutines -> Op]
  BY <1>1, <1>2, Constructed
<1>4. \A k \in Goroutines : op'[k] = IF k = g THEN NoOp ELSE op[k]
  BY <1>1, <1>2
<1>5. OpOK(g, NoOp)
  BY Constructed DEF OpOK
<1>6. \A k \in Goroutines : OpOK(k, op'[k])
  BY <1>1, <1>4, <1>5
<1>7. lock' \in [Operation -> Slots \cup {None}]
  <2>1. lock \in [Operation -> Slots \cup {None}]
    BY DEF Inv, OpsOK
  <2>2. lock' = [o \in Operation |-> IF lock[o] = g THEN None ELSE lock[o]]
    BY DEF Ends
  <2> QED
    BY <2>1, <2>2
<1>8. LockHeld'
  <2>1. LockHeld
    BY DEF Inv, OpsOK
  <2>2. \A k \in Slots : k \in Goroutines /\ k # None
    BY ScalingConstants DEF Goroutines
  <2>3. \A o \in Operation : lock'[o] = IF lock[o] = g THEN None ELSE lock[o]
    BY DEF Ends
  <2>4. NoOp.pc = "none"
    BY Constructed
  <2> QED
    BY <1>4, <2>1, <2>2, <2>3, <2>4 DEF LockHeld
<1> QED
  BY <1>3, <1>6, <1>7, <1>8 DEF OpsOK

-----------------------------------------------------------------------------
(* The initial states                                                      *)

THEOREM InitInv == Init => Inv
<1> SUFFICES ASSUME Init PROVE Inv
  OBVIOUS
<1>1. /\ handler = [h \in Handlers |-> IdleHandler] /\ op = [g \in Goroutines |-> NoOp]
      /\ lock = [o \in Operation |-> None] /\ up = TRUE
  BY DEF Init
<1>2. CapacityOK
  <2>1. MinSize..MaxSize \subseteq Nat
    BY Bounds
  <2>2. capacity \in [Clusters -> MinSize..MaxSize]
    BY DEF Init
  <2>3. capacity \in [Clusters -> Nat]
    BY <2>1, <2>2
  <2> QED
    BY <2>2, <2>3 DEF CapacityOK, CapacityInBounds
<1>3. RecordsOK
  <2>1. activity = << >> /\ info = NoInfo
    BY DEF Init
  <2> QED
    BY <2>1, EmptySeq, Constructed DEF RecordsOK
<1>4. HandlersOK
  <2>1. HandlerOK(IdleHandler)
    BY Constructed DEF HandlerOK
  <2> QED
    BY <1>1, <2>1, Constructed DEF HandlersOK
<1>5. OpsOK
  <2>1. \A g \in Goroutines : OpOK(g, NoOp)
    BY Constructed DEF OpOK
  <2>2. op \in [Goroutines -> Op] /\ lock \in [Operation -> Slots \cup {None}]
    BY <1>1, Constructed
  <2>3. ASSUME NEW o \in Operation, NEW g \in Slots PROVE lock[o] # g /\ op[g].pc = "none"
    BY <1>1, ScalingConstants, Constructed DEF Goroutines
  <2>4. LockHeld
    BY <2>3 DEF LockHeld
  <2> QED
    BY <1>1, <2>1, <2>2, <2>4 DEF OpsOK
<1>6. WorldOK /\ HistoryOK
  <2>1. load \in List /\ busy = ""
    BY ScalingConstants DEF Init
  <2>2. Long \in Nat
    BY Bounds DEF Long
  <2>3. 0 \in 0..Long /\ Long \in 0..Long /\ Horizon \in 0..Horizon
    BY <2>2, HorizonIsLongest, Upto
  <2> HIDE DEF Long
  <2>4. sinceSpare \in [Clusters -> 0..Long]
    BY <2>3 DEF Init
  <2>5. sinceDown \in [Clusters -> 0..Horizon] /\ decided \in [Clusters -> BOOLEAN]
    BY <2>3 DEF Init
  <2> QED
    BY <2>1, <2>4, <2>5 DEF WorldOK, HistoryOK
<1>7. ServerOK
  BY DEF Init, ServerOK
<1> QED
  BY <1>2, <1>3, <1>4, <1>5, <1>6, <1>7 DEF Inv

-----------------------------------------------------------------------------
(* The handler of messages                                                 *)

\* A step of a handler that writes nothing, and one of a goroutine.
LEMMA HandlerReads ==
  ASSUME Inv, NEW h \in Handlers, up \/ handler[h].pc # "idle", HandlersOK',
         UNCHANGED <<capacity, faults>>, Records, History, HandlerOnly
  PROVE  Inv'
<1>1. ServerOK'
  <2>1. drains' \in Nat /\ crashes' \in Nat /\ faults' \in Nat /\ up' = up
    BY DEF HandlerOnly, World, Inv, ServerOK
  <2> QED
    BY <2>1, Running
<1> QED
  BY <1>1, Kept DEF Inv, Records, History, HandlerOnly, World

LEMMA HandlerFields ==
  ASSUME NEW r \in Handler
  PROVE  /\ r.pc \in HandlerPc /\ r.cluster \in Clusters \cup {None}
         /\ r.list \in List /\ r.pending \in Operation \cup {""} /\ r.desired \in Nat
         /\ r.node \in Nodes \cup {None}
  BY DEF Handler

LEMMA ReceiveInv ==
  ASSUME Inv, NEW h \in Handlers, NEW n \in Nodes, Receive(h, n)
  PROVE  Inv'
<1> DEFINE c == ClusterOf[n]
           l == WithMessage(ClusterInfo(c), n)
<1>1. TypeOK
  BY InvImplies
<1>2. c \in Clusters
  BY ScalingConstants
<1>3. l \in List
  <2>1. n \in DOMAIN load
    BY DEF Receive
  <2> QED
    BY <1>1, <1>2, <2>1, ClusterInfoList, MessageList
<1> HIDE DEF c, l
<1>4. PICK pc \in {"up", "down"} :
        handler' = [handler EXCEPT ![h] = [@ EXCEPT !.pc = pc, !.cluster = c, !.list = l]]
  BY DEF Receive, c, l
<1> DEFINE r == [handler[h] EXCEPT !.pc = pc, !.cluster = c, !.list = l]
<1>5. handler[h] \in Handler
  BY <1>1 DEF TypeOK
<1>6. r \in Handler /\ r.pc = pc /\ r.cluster = c
  BY <1>2, <1>3, <1>5 DEF Handler, HandlerPc
<1>7. handler' = [handler EXCEPT ![h] = r]
  BY <1>4
<1> HIDE DEF r
<1>8. HandlerOK(r)
  BY <1>2, <1>6 DEF HandlerOK
<1>9. HandlersOK'
  BY <1>6, <1>7, <1>8, HandlerStep
<1> QED
  BY <1>9, HandlerReads DEF Receive

LEMMA ConsiderUpInv ==
  ASSUME Inv, NEW h \in Handlers, ConsiderUp(h)
  PROVE  Inv'
<1>1. handler[h] \in Handler /\ handler[h].pc = "up" /\ HandlerOK(handler[h])
  BY DEF Inv, HandlersOK, ConsiderUp
<1>2. handler[h].cluster \in Clusters
  BY <1>1 DEF HandlerOK
<1>3. CASE Becomes(h, "idle")
  BY <1>1, <1>3, HandlerEnds, HandlerReads DEF ConsiderUp
<1>4. CASE handler' = [handler EXCEPT ![h] = [@ EXCEPT !.pc = "put", !.pending = "up"]]
  <2> DEFINE r == [handler[h] EXCEPT !.pc = "put", !.pending = "up"]
  <2>1. /\ r \in Handler /\ r.pc = "put" /\ r.pending = "up"
        /\ r.cluster = handler[h].cluster
    BY <1>1 DEF Handler, HandlerPc, Operation
  <2>2. handler' = [handler EXCEPT ![h] = r]
    BY <1>4
  <2> HIDE DEF r
  <2>3. HandlerOK(r)
    BY <1>2, <2>1 DEF HandlerOK, Operation
  <2> QED
    BY <1>1, <2>1, <2>2, <2>3, HandlerStep, HandlerReads DEF ConsiderUp
<1>5. CASE handler' = [handler EXCEPT ![h] = [@ EXCEPT !.pc = "read", !.list = Empty]]
  <2> DEFINE r == [handler[h] EXCEPT !.pc = "read", !.list = Empty]
  <2>1. r \in Handler /\ r.pc = "read" /\ r.cluster = handler[h].cluster
    BY <1>1, EmptyList DEF Handler, HandlerPc
  <2>2. handler' = [handler EXCEPT ![h] = r]
    BY <1>5
  <2> HIDE DEF r
  <2>3. HandlerOK(r)
    BY <1>2, <2>1 DEF HandlerOK
  <2> QED
    BY <1>1, <2>1, <2>2, <2>3, HandlerStep, HandlerReads DEF ConsiderUp
<1> QED
  BY <1>3, <1>4, <1>5 DEF ConsiderUp

LEMMA ConsiderDownInv ==
  ASSUME Inv, NEW h \in Handlers, ConsiderDown(h)
  PROVE  Inv'
<1>1. handler[h] \in Handler /\ handler[h].pc = "down" /\ HandlerOK(handler[h])
  BY DEF Inv, HandlersOK, ConsiderDown
<1>2. CASE Becomes(h, "idle")
  BY <1>1, <1>2, HandlerEnds, HandlerReads DEF ConsiderDown
<1>3. CASE handler' = [handler EXCEPT ![h] = [@ EXCEPT !.pc = "put", !.pending = "down"]]
  <2> DEFINE r == [handler[h] EXCEPT !.pc = "put", !.pending = "down"]
  <2>1. /\ r \in Handler /\ r.pc = "put" /\ r.pending = "down"
        /\ r.cluster = handler[h].cluster
    BY <1>1 DEF Handler, HandlerPc, Operation
  <2>2. handler' = [handler EXCEPT ![h] = r]
    BY <1>3
  <2> HIDE DEF r
  <2>3. HandlerOK(r)
    BY <1>1, <2>1 DEF HandlerOK, Operation
  <2> QED
    BY <1>1, <2>1, <2>2, <2>3, HandlerStep, HandlerReads DEF ConsiderDown
<1> QED
  BY <1>2, <1>3 DEF ConsiderDown

\* The group is read below its maximum.
LEMMA ReadCapacityInv ==
  ASSUME Inv, NEW h \in Handlers, ReadCapacity(h)
  PROVE  Inv'
<1>1. handler[h] \in Handler /\ handler[h].pc = "read" /\ HandlerOK(handler[h])
  BY DEF Inv, HandlersOK, ReadCapacity
<1>2. handler[h].cluster \in Clusters
  BY <1>1 DEF HandlerOK
<1> DEFINE d == capacity[handler[h].cluster]
<1>3. d \in Nat /\ d \in MinSize..MaxSize
  BY <1>2 DEF Inv, CapacityOK, CapacityInBounds
<1> HIDE DEF d
<1>4. CASE Becomes(h, "idle")
  BY <1>1, <1>4, HandlerEnds, HandlerReads DEF ReadCapacity
<1>5. CASE /\ handler' = [handler EXCEPT ![h] = [@ EXCEPT !.pc = "set", !.desired = d]]
           /\ d # MaxSize
  <2> DEFINE r == [handler[h] EXCEPT !.pc = "set", !.desired = d]
  <2>1. /\ r \in Handler /\ r.pc = "set" /\ r.desired = d
        /\ r.cluster = handler[h].cluster
    BY <1>1, <1>3 DEF Handler, HandlerPc
  <2>2. handler' = [handler EXCEPT ![h] = r]
    BY <1>5
  <2> HIDE DEF r
  <2>3. HandlerOK(r)
    BY <1>2, <1>3, <1>5, <2>1 DEF HandlerOK
  <2> QED
    BY <1>1, <2>1, <2>2, <2>3, HandlerStep, HandlerReads DEF ReadCapacity
<1> QED
  BY <1>4, <1>5 DEF ReadCapacity, d
\* One more than a number of nodes read below the maximum is within the bounds, and
\* one less than one read above the minimum.
LEMMA OneStep ==
  ASSUME NEW d \in MinSize..MaxSize
  PROVE  /\ d # MaxSize => d + 1 \in Nat /\ d + 1 \in MinSize..MaxSize
         /\ d # MinSize => d + (-1) \in Nat /\ d + (-1) \in MinSize..MaxSize
<1>1. MinSize \in Nat /\ MaxSize \in Nat
  BY Bounds
<1> QED
  BY <1>1

LEMMA CapacityStep ==
  ASSUME Inv, NEW c \in Clusters, NEW d \in MinSize..MaxSize, d \in Nat,
         capacity' = [capacity EXCEPT ![c] = d]
  PROVE  CapacityOK'
<1>1. capacity \in [Clusters -> Nat] /\ \A k \in Clusters : capacity[k] \in MinSize..MaxSize
  BY DEF Inv, CapacityOK, CapacityInBounds
<1>2. capacity' \in [Clusters -> Nat]
  BY <1>1
<1>3. \A k \in Clusters : capacity'[k] = IF k = c THEN d ELSE capacity[k]
  BY <1>1
<1>4. \A k \in Clusters : capacity'[k] \in MinSize..MaxSize
  BY <1>1, <1>3
<1> QED
  BY <1>2, <1>4 DEF CapacityOK, CapacityInBounds

LEMMA SetCapacityInv ==
  ASSUME Inv, NEW h \in Handlers, SetCapacity(h)
  PROVE  Inv'
<1>1. handler[h] \in Handler /\ handler[h].pc = "set" /\ HandlerOK(handler[h])
  BY DEF Inv, HandlersOK, SetCapacity
<1> DEFINE c == handler[h].cluster  d == handler[h].desired
<1>2. c \in Clusters /\ d \in MinSize..MaxSize /\ d # MaxSize
  BY <1>1 DEF HandlerOK
<1>3. capacity' = [capacity EXCEPT ![c] = d + 1]
  BY DEF SetCapacity
<1> HIDE DEF c, d
<1>4. CapacityOK'
  BY <1>2, <1>3, OneStep, CapacityStep
<1>5. HandlersOK'
  BY HandlerEnds DEF SetCapacity
<1>6. ServerOK'
  <2>1. drains' \in Nat /\ crashes' \in Nat /\ faults' \in Nat /\ up' = up
    BY DEF SetCapacity, HandlerOnly, World, Inv, ServerOK
  <2> QED
    BY <1>1, <2>1, Running
<1> QED
  BY <1>4, <1>5, <1>6, Kept DEF Inv, SetCapacity, Records, History, HandlerOnly, World

\* What a handler puts: its record, and with it the decision of a scaling down.
LEMMA PutPendingInv ==
  ASSUME Inv, NEW h \in Handlers, PutPending(h)
  PROVE  Inv'
<1>1. handler[h] \in Handler /\ handler[h].pc = "put" /\ HandlerOK(handler[h]) /\ TypeOK
  BY InvImplies DEF Inv, HandlersOK, PutPending
<1> DEFINE c == handler[h].cluster  o == handler[h].pending
<1>2. c \in Clusters /\ o \in Operation /\ handler[h].list \in List
  BY <1>1, HandlerFields DEF HandlerOK
<1>3. PICK g \in Slots : op[g].pc = "none" /\ op' = [op EXCEPT ![g] = NewOp("lock", c, o)]
  BY DEF PutPending
<1>4. PutClusterInfo(handler[h].list, c, "no", o)
  BY DEF PutPending
<1>5. decided' = IF o = "down" THEN [decided EXCEPT ![c] = TRUE] ELSE decided
  BY DEF PutPending
<1> HIDE DEF c, o
<1>6. OpsOK'
  <2> DEFINE r == NewOp("lock", c, o)
  <2>1. r \in Op /\ r.pc = "lock" /\ r.cluster = c /\ r.op = o /\ r.left = Period(o)
    BY <1>2, Launched
  <2>2. op' = [op EXCEPT ![g] = r]
    BY <1>3
  <2>3. Period(o) # 0
    BY Bounds
  <2> HIDE DEF r
  <2>4. OpOK(g, r)
    BY <1>2, <2>1, <2>3 DEF OpOK
  <2> QED
    BY <1>3, <2>1, <2>2, <2>4, OpStep DEF PutPending, Goroutines
<1>7. RecordsOK'
  BY <1>1, <1>2, <1>4, PutInfo DEF RecordsOK
<1>8. HistoryOK'
  BY <1>2, <1>5 DEF Inv, HistoryOK, PutPending
<1>9. HandlersOK'
  BY HandlerEnds DEF PutPending
<1>10. ServerOK'
  <2>1. drains' \in Nat /\ crashes' \in Nat /\ faults' \in Nat /\ up' = up
    BY DEF PutPending, World, Inv, ServerOK
  <2> QED
    BY <1>1, <2>1, Running
<1> QED
  BY <1>6, <1>7, <1>8, <1>9, <1>10, Kept DEF Inv, PutPending, World

LEMMA DrainInv ==
  ASSUME Inv, NEW h \in Handlers, NEW n \in Nodes, Drain(h, n)
  PROVE  Inv'
<1>1. handler[h] \in Handler /\ load \in List
  BY DEF Inv, HandlersOK, WorldOK
<1>2. ClusterOf[n] \in Clusters
  BY ScalingConstants
<1> DEFINE r == [handler[h] EXCEPT !.pc = "mark", !.cluster = ClusterOf[n], !.node = n]
<1>3. r \in Handler /\ r.pc = "mark" /\ r.cluster = ClusterOf[n] /\ r.node = n
  BY <1>1, <1>2 DEF Handler, HandlerPc
<1>4. handler' = [handler EXCEPT ![h] = r]
  BY DEF Drain
<1> HIDE DEF r
<1>5. HandlerOK(r)
  BY <1>2, <1>3 DEF HandlerOK
<1>6. HandlersOK'
  BY <1>3, <1>4, <1>5, HandlerStep
<1>7. WorldOK'
  <2>1. load' \in List
    BY <1>1, DrainingList DEF Drain
  <2> QED
    BY <2>1 DEF Inv, WorldOK, Drain
<1>8. ServerOK'
  <2>1. drains' \in Nat /\ crashes' \in Nat /\ faults' \in Nat /\ up' = up /\ up
    BY DEF Drain, Inv, ServerOK
  <2> QED
    BY <2>1, Running
<1> QED
  BY <1>6, <1>7, <1>8, Kept DEF Inv, Drain, Records, History

LEMMA ReadMarkInv ==
  ASSUME Inv, NEW h \in Handlers, ReadMark(h)
  PROVE  Inv'
<1>1. /\ handler[h] \in Handler /\ handler[h].pc = "mark" /\ HandlerOK(handler[h])
      /\ info \in Info
  BY DEF Inv, HandlersOK, RecordsOK, ReadMark
<1>2. handler[h].cluster \in Clusters /\ handler[h].node \in Nodes
  BY <1>1 DEF HandlerOK
<1>3. CASE Becomes(h, "idle")
  BY <1>1, <1>3, HandlerEnds, HandlerReads DEF ReadMark
<1> DEFINE l == Draining(info.list, handler[h].node)
<1>4. l \in List
  <2>1. info.list \in List
    BY <1>1 DEF Info
  <2> QED
    BY <1>2, <2>1, DrainingList
<1> HIDE DEF l
<1>5. CASE handler' = [handler EXCEPT ![h] =
                         [@ EXCEPT !.pc = "marked", !.node = None, !.list = l]]
  <2> DEFINE r == [handler[h] EXCEPT !.pc = "marked", !.node = None, !.list = l]
  <2>1. r \in Handler /\ r.pc = "marked" /\ r.cluster = handler[h].cluster
    BY <1>1, <1>4 DEF Handler, HandlerPc
  <2>2. handler' = [handler EXCEPT ![h] = r]
    BY <1>5
  <2> HIDE DEF r
  <2>3. HandlerOK(r)
    BY <1>2, <2>1 DEF HandlerOK
  <2> QED
    BY <1>1, <2>1, <2>2, <2>3, HandlerStep, HandlerReads DEF ReadMark
<1> QED
  BY <1>3, <1>5 DEF ReadMark, l

LEMMA PutMarkInv ==
  ASSUME Inv, NEW h \in Handlers, PutMark(h)
  PROVE  Inv'
<1>1. handler[h] \in Handler /\ handler[h].pc = "marked" /\ HandlerOK(handler[h]) /\ TypeOK
  BY InvImplies DEF Inv, HandlersOK, PutMark
<1>2. handler[h].cluster \in Clusters /\ handler[h].list \in List
  BY <1>1, HandlerFields DEF HandlerOK
<1>3. PutClusterInfo(handler[h].list, handler[h].cluster, "no", "")
  BY DEF PutMark
<1>4. RecordsOK'
  BY <1>1, <1>2, <1>3, PutInfo DEF RecordsOK
<1>5. HandlersOK'
  BY HandlerEnds DEF PutMark
<1>6. ServerOK'
  <2>1. drains' \in Nat /\ crashes' \in Nat /\ faults' \in Nat /\ up' = up
    BY DEF PutMark, HandlerOnly, World, Inv, ServerOK
  <2> QED
    BY <1>1, <2>1, Running
<1> QED
  BY <1>4, <1>5, <1>6, Kept DEF Inv, PutMark, History, HandlerOnly, World

LEMMA HandlerFailsInv ==
  ASSUME Inv, NEW h \in Handlers, HandlerFails(h)
  PROVE  Inv'
<1>1. handler[h] \in Handler /\ handler[h].pc # "idle" /\ HandlerOK(handler[h]) /\ TypeOK
  BY InvImplies DEF Inv, HandlersOK, HandlerFails
<1>2. /\ handler[h].cluster \in Clusters /\ handler[h].list \in List
      /\ handler[h].pending \in Operation \cup {""}
  BY <1>1, HandlerFields DEF HandlerOK
<1>3. RecordsOK'
  <2>1. CASE Records
    BY <2>1, Kept DEF Records, Inv
  <2>2. CASE PutClusterInfo(handler[h].list, handler[h].cluster, "no", handler[h].pending)
    BY <1>1, <1>2, <2>2, PutInfo DEF RecordsOK
  <2> QED
    BY <2>1, <2>2 DEF HandlerFails
<1>4. HistoryOK'
  <2>1. sinceDown' = sinceDown
    BY DEF HandlerFails
  <2>2. decided' = decided \/ decided' = [decided EXCEPT ![handler[h].cluster] = TRUE]
    BY DEF HandlerFails
  <2> QED
    BY <2>1, <2>2 DEF Inv, HistoryOK
<1>5. HandlersOK'
  BY HandlerEnds DEF HandlerFails
<1>6. ServerOK'
  <2>1. drains' \in Nat /\ crashes' \in Nat /\ faults' \in Nat /\ up' = up
    BY DEF HandlerFails, Fault, HandlerOnly, World, Inv, ServerOK
  <2> QED
    BY <1>1, <2>1, Running
<1> QED
  BY <1>3, <1>4, <1>5, <1>6, Kept DEF Inv, HandlerFails, HandlerOnly, World

-----------------------------------------------------------------------------
(* The goroutines of pending operations                                    *)

LEMMA OpReads ==
  ASSUME Inv, NEW g \in Goroutines, op[g].pc # "none", OpsOK',
         UNCHANGED <<capacity, faults>>, Records, History, OpOnly
  PROVE  Inv'
<1>1. ServerOK'
  <2>1. drains' \in Nat /\ crashes' \in Nat /\ faults' \in Nat /\ up' = up
    BY DEF OpOnly, World, Inv, ServerOK
  <2> QED
    BY <2>1, Running
<1> QED
  BY <1>1, Kept DEF Inv, Records, History, OpOnly, World

LEMMA OpFields ==
  ASSUME NEW r \in Op
  PROVE  /\ r.pc \in OpPc /\ r.cluster \in Clusters \cup {None} /\ r.op \in Operation \cup {""}
         /\ r.left \in Nat /\ r.list \in List /\ r.desired \in Nat
  BY DEF Op

LEMMA Working ==
  ASSUME Inv, NEW g \in Goroutines, op[g].pc # "none"
  PROVE  /\ op[g] \in Op /\ OpOK(g, op[g]) /\ TypeOK
         /\ op[g].cluster \in Clusters /\ op[g].op \in Operation /\ op[g].list \in List
  BY InvImplies, OpFields DEF Inv, OpsOK, OpOK

LEMMA LockInv ==
  ASSUME Inv, NEW g \in Goroutines, Lock(g)
  PROVE  Inv'
<1>1. op[g].pc = "lock" /\ lock[op[g].op] = None
  BY DEF Lock
<1>2. op[g] \in Op /\ OpOK(g, op[g]) /\ op[g].cluster \in Clusters /\ op[g].op \in Operation
  BY <1>1, Working
<1>3. g \in Slots /\ op[g].left # 0
  BY <1>1, <1>2 DEF OpOK
<1> DEFINE r == [op[g] EXCEPT !.pc = "sleep"]
<1>4. /\ r \in Op /\ r.pc = "sleep" /\ r.op = op[g].op /\ r.cluster = op[g].cluster
      /\ r.left = op[g].left
  BY <1>2 DEF Op, OpPc
<1>5. op \in [Goroutines -> Op] /\ lock \in [Operation -> Slots \cup {None}]
      /\ LockHeld /\ \A k \in Goroutines : OpOK(k, op[k])
  BY DEF Inv, OpsOK
<1>6. op' = [op EXCEPT ![g] = r]
  BY <1>5 DEF Lock, Goes
<1> HIDE DEF r
<1>7. op' \in [Goroutines -> Op] /\ \A k \in Goroutines : op'[k] = IF k = g THEN r ELSE op[k]
  BY <1>4, <1>5, <1>6
<1>8. OpOK(g, r)
  BY <1>2, <1>3, <1>4 DEF OpOK
<1>9. \A k \in Goroutines : OpOK(k, op'[k])
  BY <1>5, <1>7, <1>8
<1>10. lock' = [lock EXCEPT ![op[g].op] = g]
  BY DEF Lock
<1>11. lock' \in [Operation -> Slots \cup {None}]
  BY <1>3, <1>5, <1>10
<1>12. LockHeld'
  <2>1. \A o \in Operation : lock'[o] = IF o = op[g].op THEN g ELSE lock[o]
    BY <1>5, <1>10
  <2>2. \A k \in Slots : k \in Goroutines /\ k # None
    BY ScalingConstants DEF Goroutines
  <2> SUFFICES ASSUME NEW o \in Operation, NEW k \in Slots
               PROVE  lock'[o] = k <=> op'[k].op = o /\ op'[k].pc \notin {"none", "lock"}
    BY DEF LockHeld
  <2>3. lock[o] = k <=> op[k].op = o /\ op[k].pc \notin {"none", "lock"}
    BY <1>5 DEF LockHeld
  <2>4. CASE k = g
    BY <1>1, <1>4, <1>7, <2>1, <2>2, <2>3, <2>4
  <2>5. CASE k # g
    BY <1>1, <1>4, <1>7, <2>1, <2>2, <2>3, <2>5
  <2> QED
    BY <2>4, <2>5
<1>13. OpsOK'
  BY <1>7, <1>9, <1>11, <1>12 DEF OpsOK
<1> QED
  BY <1>1, <1>13, OpReads DEF Lock

LEMMA CheckInv ==
  ASSUME Inv, NEW g \in Goroutines, Check(g)
  PROVE  Inv'
<1>1. op[g].pc = "check"
  BY DEF Check
<1>2. /\ op[g] \in Op /\ OpOK(g, op[g]) /\ op[g].cluster \in Clusters /\ op[g].op \in Operation
      /\ TypeOK
  BY <1>1, Working
<1>3. CASE Ends(g)
  BY <1>1, <1>3, OpEnds, OpReads DEF Check
<1> DEFINE l == IF op[g].left = 1 THEN ClusterInfo(op[g].cluster) ELSE Empty
           pc == IF op[g].left = 1 THEN "read" ELSE "sleep"
           r == [op[g] EXCEPT !.left = @ - 1, !.pc = pc, !.list = l]
<1>4. CASE op' = [op EXCEPT ![g] = r] /\ UNCHANGED lock
  <2>1. l \in List /\ pc \in OpPc /\ pc \notin {"none", "lock", "check", "set"}
    BY <1>2, EmptyList, ClusterInfoList DEF OpPc
  <2>2. op[g].left \in Nat /\ op[g].left # 0
    BY <1>1, <1>2, OpFields DEF OpOK
  <2>3. op[g].left - 1 \in Nat /\ (pc = "sleep" => op[g].left - 1 # 0)
    BY <2>2
  <2> HIDE DEF l, pc
  <2>4. /\ r \in Op /\ r.pc = pc /\ r.op = op[g].op /\ r.cluster = op[g].cluster
        /\ r.left = op[g].left - 1
    BY <1>2, <2>1, <2>3 DEF Op
  <2>5. op' = [op EXCEPT ![g] = r] /\ UNCHANGED lock
    BY <1>4
  <2> HIDE DEF r
  <2>6. OpOK(g, r)
    BY <1>2, <2>1, <2>3, <2>4 DEF OpOK
  <2>7. OpsOK'
    BY <1>1, <2>1, <2>4, <2>5, <2>6, OpStep
  <2> QED
    BY <1>1, <2>7, OpReads DEF Check
<1> QED
  BY <1>3, <1>4, Zenon DEF Check

\* The group is read with room for a step in the operation's direction.
LEMMA ReadDesiredInv ==
  ASSUME Inv, NEW g \in Goroutines, ReadDesired(g)
  PROVE  Inv'
<1>1. op[g].pc = "read"
  BY DEF ReadDesired
<1>2. op[g] \in Op /\ OpOK(g, op[g]) /\ op[g].cluster \in Clusters /\ op[g].op \in Operation
  BY <1>1, Working
<1>3. CASE Ends(g)
  BY <1>1, <1>3, OpEnds, OpReads DEF ReadDesired
<1> DEFINE d == capacity[op[g].cluster]
<1>4. d \in Nat /\ d \in MinSize..MaxSize
  BY <1>2 DEF Inv, CapacityOK, CapacityInBounds
<1> HIDE DEF d
<1>5. CASE /\ op' = [op EXCEPT ![g].pc = "set", ![g].desired = d] /\ UNCHANGED lock
           /\ ~AtBound(op[g].op, d)
  <2> DEFINE r == [op[g] EXCEPT !.pc = "set", !.desired = d]
  <2>1. /\ r \in Op /\ r.pc = "set" /\ r.op = op[g].op /\ r.cluster = op[g].cluster
        /\ r.desired = d
    BY <1>2, <1>4 DEF Op, OpPc
  <2>2. op' = [op EXCEPT ![g] = r]
    <3>1. op \in [Goroutines -> Op]
      BY DEF Inv, OpsOK
    <3> QED
      BY <1>5, <3>1
  <2> HIDE DEF r
  <2>3. OpOK(g, r)
    BY <1>2, <1>4, <1>5, <2>1 DEF OpOK
  <2>4. OpsOK'
    BY <1>1, <1>5, <2>1, <2>2, <2>3, OpStep
  <2> QED
    BY <1>1, <2>4, OpReads DEF ReadDesired
<1> QED
  BY <1>3, <1>5 DEF ReadDesired, d
\* The write of the desired capacity, answered or not.
LEMMA ApplyKeeps ==
  ASSUME Inv, NEW g \in Goroutines, Apply(g)
  PROVE  CapacityOK' /\ HistoryOK'
<1>1. op[g].pc = "set"
  BY DEF Apply
<1>2. OpOK(g, op[g]) /\ op[g].cluster \in Clusters /\ op[g].op \in Operation
  BY <1>1, Working
<1> DEFINE c == op[g].cluster  d == op[g].desired
<1>3. d \in MinSize..MaxSize /\ d # IF op[g].op = "up" THEN MaxSize ELSE MinSize
  BY <1>1, <1>2 DEF OpOK, AtBound
<1>4. /\ capacity' = [capacity EXCEPT ![c] = d + (IF op[g].op = "down" THEN -1 ELSE 1)]
      /\ sinceDown' = sinceDown \/ sinceDown' = [sinceDown EXCEPT ![c] = 0]
      /\ decided' = decided \/ decided' = [decided EXCEPT ![c] = FALSE]
  BY DEF Apply
<1>5. c \in Clusters
  BY <1>2
<1> HIDE DEF c, d
<1>6. CapacityOK'
  <2>1. CASE op[g].op = "down"
    <3>1. d # MinSize /\ capacity' = [capacity EXCEPT ![c] = d + (-1)]
      BY <1>3, <1>4, <2>1
    <3>2. d + (-1) \in Nat /\ d + (-1) \in MinSize..MaxSize
      BY <1>3, <3>1, OneStep
    <3> QED
      BY <1>5, <3>1, <3>2, CapacityStep
  <2>2. CASE op[g].op = "up"
    <3>1. d # MaxSize /\ capacity' = [capacity EXCEPT ![c] = d + 1]
      BY <1>3, <1>4, <2>2
    <3>2. d + 1 \in Nat /\ d + 1 \in MinSize..MaxSize
      BY <1>3, <3>1, OneStep
    <3> QED
      BY <1>5, <3>1, <3>2, CapacityStep
  <2> QED
    BY <1>2, <2>1, <2>2 DEF Operation
<1>7. HistoryOK'
  <2>1. 0 \in 0..Horizon
    BY HorizonIsLongest, Upto
  <2>2. sinceDown \in [Clusters -> 0..Horizon] /\ decided \in [Clusters -> BOOLEAN]
    BY DEF Inv, HistoryOK
  <2>3. sinceDown' \in [Clusters -> 0..Horizon]
    BY <1>4, <2>1, <2>2
  <2>4. decided' \in [Clusters -> BOOLEAN]
    BY <1>4, <2>2
  <2> QED
    BY <2>3, <2>4 DEF HistoryOK
<1> QED
  BY <1>6, <1>7

LEMMA SetDesiredInv ==
  ASSUME Inv, NEW g \in Goroutines, SetDesired(g)
  PROVE  Inv'
<1>1. op[g].pc = "set"
  BY DEF SetDesired, Apply
<1>2. op[g] \in Op /\ op[g].cluster \in Clusters /\ op[g].op \in Operation
  BY <1>1, Working
<1>3. CapacityOK' /\ HistoryOK'
  BY ApplyKeeps DEF SetDesired
<1>4. OpsOK'
  <2> DEFINE r == [op[g] EXCEPT !.pc = "put"]
  <2>1. r \in Op /\ r.pc = "put" /\ r.op = op[g].op /\ r.cluster = op[g].cluster
    BY <1>2 DEF Op, OpPc
  <2>2. op \in [Goroutines -> Op]
    BY DEF Inv, OpsOK
  <2>3. op' = [op EXCEPT ![g] = r]
    BY <2>2 DEF SetDesired, Goes
  <2> HIDE DEF r
  <2>4. OpOK(g, r)
    BY <1>2, <2>1 DEF OpOK
  <2> QED
    BY <1>1, <2>1, <2>3, <2>4, OpStep DEF SetDesired
<1>5. ServerOK'
  <2>1. drains' \in Nat /\ crashes' \in Nat /\ faults' \in Nat /\ up' = up
    BY DEF SetDesired, OpOnly, World, Inv, ServerOK
  <2> QED
    BY <1>1, <2>1, Running
<1> QED
  BY <1>3, <1>4, <1>5, Kept DEF Inv, SetDesired, Records, OpOnly, World

LEMMA PutDoneInv ==
  ASSUME Inv, NEW g \in Goroutines, PutDone(g)
  PROVE  Inv'
<1>1. op[g].pc = "put"
  BY DEF PutDone
<1>2. /\ op[g].cluster \in Clusters /\ op[g].op \in Operation /\ op[g].list \in List
      /\ TypeOK
  BY <1>1, Working
<1>3. RecordsOK'
  BY <1>2, PutInfo DEF RecordsOK, PutDone
<1>4. OpsOK'
  BY OpEnds DEF PutDone
<1>5. ServerOK'
  <2>1. drains' \in Nat /\ crashes' \in Nat /\ faults' \in Nat /\ up' = up
    BY DEF PutDone, OpOnly, World, Inv, ServerOK
  <2> QED
    BY <1>1, <2>1, Running
<1> QED
  BY <1>3, <1>4, <1>5, Kept DEF Inv, PutDone, History, OpOnly, World

LEMMA OpFailsInv ==
  ASSUME Inv, NEW g \in Goroutines, OpFails(g)
  PROVE  Inv'
<1>1. op[g].pc # "none"
  BY DEF OpFails
<1>2. /\ op[g].cluster \in Clusters /\ op[g].op \in Operation /\ op[g].list \in List
      /\ TypeOK
  BY <1>1, Working
<1>3. CapacityOK' /\ RecordsOK' /\ HistoryOK'
  <2>1. CASE UNCHANGED capacity /\ Records /\ History
    BY <2>1, Kept DEF Inv, Records, History
  <2>2. CASE Apply(g) /\ Records
    BY <2>2, ApplyKeeps, Kept DEF Inv, Records
  <2>3. CASE /\ PutClusterInfo(op[g].list, op[g].cluster, op[g].op, "")
             /\ UNCHANGED capacity /\ History
    <3>1. RecordsOK'
      BY <1>2, <2>3, PutInfo DEF RecordsOK
    <3> QED
      BY <2>3, <3>1, Kept DEF Inv, History
  <2> QED
    BY <2>1, <2>2, <2>3 DEF OpFails
<1>4. OpsOK'
  BY OpEnds DEF OpFails
<1>5. ServerOK'
  <2>1. drains' \in Nat /\ crashes' \in Nat /\ faults' \in Nat /\ up' = up
    <3>1. drains \in Nat /\ crashes \in Nat /\ faults \in Nat
      BY DEF Inv, ServerOK
    <3>2. drains' = drains /\ crashes' = crashes /\ faults' = faults + 1 /\ up' = up
      BY DEF OpFails, Fault, OpOnly, World
    <3> QED
      BY <3>1, <3>2
  <2> QED
    BY <1>1, <2>1, Running
<1> QED
  BY <1>3, <1>4, <1>5, Kept DEF Inv, OpFails, OpOnly, World

-----------------------------------------------------------------------------
(* The server and time                                                     *)

LEMMA CrashInv ==
  ASSUME Inv, Crash
  PROVE  Inv'
<1>1. /\ handler' = [h \in Handlers |-> IdleHandler] /\ op' = [g \in Goroutines |-> NoOp]
      /\ lock' = [o \in Operation |-> None]
  BY DEF Crash
<1>2. HandlersOK'
  <2>1. HandlerOK(IdleHandler)
    BY Constructed DEF HandlerOK
  <2> QED
    BY <1>1, <2>1, Constructed DEF HandlersOK
<1>3. OpsOK'
  <2>1. \A g \in Goroutines : OpOK(g, NoOp)
    BY Constructed DEF OpOK
  <2>2. op' \in [Goroutines -> Op] /\ lock' \in [Operation -> Slots \cup {None}]
    BY <1>1, Constructed
  <2>3. ASSUME NEW o \in Operation, NEW g \in Slots PROVE lock'[o] # g /\ op'[g].pc = "none"
    BY <1>1, ScalingConstants, Constructed DEF Goroutines
  <2>4. LockHeld'
    BY <2>3 DEF LockHeld
  <2> QED
    BY <1>1, <2>1, <2>2, <2>4 DEF OpsOK
<1>4. ServerOK'
  <2>1. Stopped'
    BY <1>1, Constructed DEF Stopped
  <2>2. /\ drains' \in Nat /\ crashes' \in Nat /\ faults' \in Nat /\ up' \in BOOLEAN
        /\ crashes' # 0
    <3>1. drains \in Nat /\ crashes \in Nat /\ faults \in Nat
      BY DEF Inv, ServerOK
    <3>2. drains' = drains /\ crashes' = crashes + 1 /\ faults' = faults /\ up' = FALSE
      BY DEF Crash, World
    <3>3. crashes' \in Nat /\ crashes' # 0
      BY <3>1, <3>2
    <3> QED
      BY <3>1, <3>2, <3>3
  <2> QED
    BY <2>1, <2>2 DEF ServerOK
<1> QED
  BY <1>2, <1>3, <1>4, Kept DEF Inv, Crash, World, Records, History

LEMMA ResumeInv ==
  ASSUME Inv, Resume
  PROVE  Inv'
<1>1. TypeOK /\ Stopped /\ up'
  BY InvImplies DEF Inv, ServerOK, Resume
<1>2. RecordsOK'
  <2>1. CASE Records
    BY <2>1, Kept DEF Inv, Records
  <2> DEFINE i(m) == IF m \in Unmarked THEN [info.list[m] EXCEPT !.status = "DRAINING"]
                     ELSE info.list[m]
             l == [m \in DOMAIN info.list |-> i(m)]
  <2>2. ASSUME NEW n \in Unmarked, PutClusterInfo(l, ClusterOf[n], "no", "")
        PROVE  RecordsOK'
    <3>1. info.list \in List
      BY <1>1 DEF TypeOK, Info
    <3>2. DOMAIN info.list \subseteq Nodes /\ \A m \in DOMAIN info.list : info.list[m] \in Instance
      BY <3>1, Lists
    <3>3. \A m \in DOMAIN info.list : i(m) \in Instance
      BY <3>2, InstanceFields
    <3>4. ClusterOf[n] \in Clusters
      BY <3>2, ScalingConstants DEF Unmarked
    <3> HIDE DEF i
    <3>5. l \in [DOMAIN info.list -> Instance]
      BY <3>3
    <3>6. l \in List
      BY <3>2, <3>5 DEF List
    <3> HIDE DEF l
    <3> QED
      BY <1>1, <2>2, <3>4, <3>6, PutInfo DEF RecordsOK
  <2> QED
    BY <2>1, <2>2 DEF Resume
<1>3. OpsOK'
  <2>1. op' = [g \in Goroutines |->
                IF g \in Resumed /\ GetScalingActivity(g[1], Period(g[2])).pending = g[2]
                THEN NewOp("sleep", g[1], g[2]) ELSE NoOp]
    BY DEF Resume
  <2>2. ASSUME NEW g \in Resumed
        PROVE  /\ NewOp("sleep", g[1], g[2]) \in Op /\ OpOK(g, NewOp("sleep", g[1], g[2]))
    <3>1. g[1] \in Clusters /\ g[2] \in Operation
      BY DEF Resumed
    <3>2. /\ NewOp("sleep", g[1], g[2]) \in Op /\ NewOp("sleep", g[1], g[2]).pc = "sleep"
          /\ NewOp("sleep", g[1], g[2]).cluster = g[1] /\ NewOp("sleep", g[1], g[2]).op = g[2]
          /\ NewOp("sleep", g[1], g[2]).left = Period(g[2]) /\ Period(g[2]) # 0
      <4>1. Period(g[2]) # 0
        BY Bounds
      <4> DEFINE c == g[1]  o == g[2]
      <4>2. c \in Clusters /\ o \in Operation
        BY <3>1
      <4> HIDE DEF c, o
      <4>3. /\ NewOp("sleep", c, o) \in Op /\ NewOp("sleep", c, o).pc = "sleep"
            /\ NewOp("sleep", c, o).cluster = c /\ NewOp("sleep", c, o).op = o
            /\ NewOp("sleep", c, o).left = Period(o)
        BY <4>2, Restarted
      <4> QED
        BY <4>1, <4>3 DEF c, o
    <3> QED
      BY <3>1, <3>2 DEF OpOK
  <2>3. \A g \in Goroutines : NoOp \in Op /\ OpOK(g, NoOp)
    BY Constructed DEF OpOK
  <2>4. op' \in [Goroutines -> Op] /\ \A g \in Goroutines : OpOK(g, op'[g])
    BY <2>1, <2>2, <2>3
  <2>5. lock \in [Operation -> Slots \cup {None}] /\ LockHeld /\ UNCHANGED lock
    BY DEF Inv, OpsOK, Resume
  <2>6. LockHeld'
    <3>1. ASSUME NEW g \in Slots PROVE op[g].pc = "none" /\ op'[g].pc = "none"
      BY <1>1, <2>1, Constructed, ScalingConstants DEF Goroutines, Stopped
    <3> QED
      BY <2>5, <3>1 DEF LockHeld
  <2> QED
    BY <2>4, <2>5, <2>6 DEF OpsOK
<1>4. ServerOK'
  <2>1. drains' \in Nat /\ crashes' \in Nat /\ faults' \in Nat /\ up' \in BOOLEAN
    BY DEF Resume, World, Inv, ServerOK
  <2> QED
    BY <1>1, <2>1 DEF ServerOK
<1> QED
  BY <1>2, <1>3, <1>4, Kept DEF Inv, Resume, World, History

\* The records that are dropped are not more than there are.
LEMMA Remaining ==
  ASSUME RecordsOK
  PROVE  /\ Cardinality(TooOld) \in Nat
         /\ \A i \in 1..(Len(activity) - Cardinality(TooOld)) :
              i + Cardinality(TooOld) \in 1..Len(activity)
<1>1. activity \in Seq(Scaling)
  BY DEF RecordsOK
<1>2. Len(activity) \in Nat /\ DOMAIN activity = 1..Len(activity)
  BY <1>1, LenProperties
<1>3. IsFiniteSet(1..Len(activity)) /\ TooOld \in SUBSET (1..Len(activity))
  BY <1>2, FS_Interval DEF TooOld
<1>4. Cardinality(TooOld) \in Nat
  BY <1>3, FS_Subset, FS_CardinalityType
<1> DEFINE n == Cardinality(TooOld)  m == Len(activity)
<1> SUFFICES ASSUME NEW i \in 1..(m - n)
             PROVE  i + n \in 1..m
  BY <1>4
<1>5. n \in Nat /\ m \in Nat
  BY <1>2, <1>4
<1> HIDE DEF n, m
<1> QED
  BY <1>5

LEMMA TickInv ==
  ASSUME Inv, Tick
  PROVE  Inv'
<1>1. WorldOK'
  <2>1. load \in List /\ sinceSpare \in [Clusters -> 0..Long]
    BY DEF Inv, WorldOK
  <2>2. PICK l \in Loads : load' = [n \in DOMAIN l |->
          IF n \in DOMAIN load THEN [l[n] EXCEPT !.status = load[n].status] ELSE l[n]]
    BY DEF Tick
  <2>3. l \in List
    BY ScalingConstants
  <2> DEFINE i(n) == IF n \in DOMAIN load THEN [l[n] EXCEPT !.status = load[n].status] ELSE l[n]
  <2>4. ASSUME NEW n \in DOMAIN l PROVE i(n) \in Instance
    <3>1. l[n] \in Instance /\ (n \in DOMAIN load => load[n] \in Instance)
      BY <2>1, <2>3, Lists
    <3> QED
      BY <3>1, InstanceFields
  <2>5. DOMAIN l \in SUBSET Nodes
    BY <2>3, Lists
  <2>6. load' = [n \in DOMAIN l |-> i(n)]
    BY <2>2
  <2> HIDE DEF i
  <2>7. load' \in List
    BY <2>4, <2>5, <2>6 DEF List
  <2>8. busy' \in {"", "deploy", "tasks"}
    BY DEF Tick
  <2>9. sinceSpare' \in [Clusters -> 0..Long]
    <3>1. Long \in Nat
      BY Bounds DEF Long
    <3>2. ASSUME NEW a \in 0..Long PROVE 0 \in 0..Long /\ Min({a + 1, Long}) \in 0..Long
      <4>1. Min({a + 1, Long}) = IF a + 1 <= Long THEN a + 1 ELSE Long
        BY <3>1, MinOfTwo
      <4> QED
        BY <3>1, <4>1
    <3>3. \A c \in Clusters : 0 \in 0..Long /\ Min({sinceSpare[c] + 1, Long}) \in 0..Long
      BY <2>1, <3>2
    <3> HIDE DEF Long
    <3> QED
      BY <3>3 DEF Tick
  <2> QED
    BY <2>7, <2>8, <2>9 DEF WorldOK
<1>2. RecordsOK'
  <2>1. info \in Info /\ activity \in Seq(Scaling) /\ RecordsOK
    BY DEF Inv, RecordsOK
  <2>2. info' \in Info
    <3>1. info.age \in 0..Horizon
      BY <2>1 DEF Info
    <3>2. Older(info.age) \in 0..Horizon
      BY <3>1, OlderIsOlder
    <3>3. info' = [info EXCEPT !.age = Older(info.age)]
      BY DEF Tick
    <3> QED
      BY <2>1, <3>2, <3>3 DEF Info
  <2>3. activity' \in Seq(Scaling)
    <3> DEFINE n == Cardinality(TooOld)  m == Len(activity) - n
               e(i) == [activity[i + n] EXCEPT !.age = Older(activity[i + n].age)]
    <3>1. Len(activity) \in Nat /\ n \in Nat /\ \A i \in 1..m : i + n \in 1..Len(activity)
      BY <2>1, Remaining, LenProperties
    <3>2. ASSUME NEW r \in Scaling PROVE [r EXCEPT !.age = Older(r.age)] \in Scaling
      <4>1. r.age \in 0..Horizon
        BY DEF Scaling
      <4>2. Older(r.age) \in 0..Horizon
        BY <4>1, OlderIsOlder
      <4> QED
        BY <4>2 DEF Scaling
    <3>3. \A i \in 1..m : e(i) \in Scaling
      BY <2>1, <3>1, <3>2, ElementOfSeq
    <3>4. activity' = [i \in 1..m |-> e(i)]
      BY DEF Tick
    <3>5. m \in Int
      BY <3>1
    <3> HIDE DEF m, e
    <3> QED
      BY <3>3, <3>4, <3>5
  <2> QED
    BY <2>2, <2>3 DEF RecordsOK
<1>3. OpsOK'
  <2>1. /\ op \in [Goroutines -> Op] /\ \A g \in Goroutines : OpOK(g, op[g])
        /\ lock \in [Operation -> Slots \cup {None}] /\ LockHeld /\ UNCHANGED lock
    BY DEF Inv, OpsOK, Tick
  <2> DEFINE r(g) == IF op[g].pc = "sleep" THEN [op[g] EXCEPT !.pc = "check"] ELSE op[g]
  <2>2. ASSUME NEW g \in Goroutines
        PROVE  /\ r(g) \in Op /\ OpOK(g, r(g)) /\ r(g).op = op[g].op
               /\ r(g).pc \in {"none", "lock"} => r(g).pc = op[g].pc
               /\ op[g].pc \in {"none", "lock"} => r(g).pc = op[g].pc
    <3>1. CASE op[g].pc = "sleep"
      <4> DEFINE x == [op[g] EXCEPT !.pc = "check"]
      <4>1. op[g] \in Op /\ OpOK(g, op[g])
        BY <2>1
      <4>2. x \in Op /\ x.pc = "check" /\ x.op = op[g].op /\ x.cluster = op[g].cluster
            /\ x.left = op[g].left
        BY <4>1 DEF Op, OpPc
      <4>3. r(g) = x
        BY <3>1
      <4> HIDE DEF x, r
      <4>4. OpOK(g, x)
        BY <3>1, <4>1, <4>2 DEF OpOK
      <4> QED
        BY <3>1, <4>2, <4>3, <4>4
    <3>2. CASE op[g].pc # "sleep"
      BY <2>1, <3>2
    <3> QED
      BY <3>1, <3>2
  <2>3. op' = [g \in Goroutines |-> r(g)]
    BY DEF Tick
  <2> HIDE DEF r
  <2>4. op' \in [Goroutines -> Op] /\ \A g \in Goroutines : OpOK(g, op'[g])
    BY <2>2, <2>3
  <2>5. LockHeld'
    <3>1. \A g \in Slots : g \in Goroutines
      BY DEF Goroutines
    <3>2. ASSUME NEW o \in Operation, NEW g \in Slots
          PROVE  lock'[o] = g <=> op'[g].op = o /\ op'[g].pc \notin {"none", "lock"}
      <4>1. lock[o] = g <=> op[g].op = o /\ op[g].pc \notin {"none", "lock"}
        BY <2>1 DEF LockHeld
      <4>2. op'[g] = r(g) /\ lock' = lock
        BY <2>1, <2>3, <3>1
      <4> QED
        BY <2>2, <3>1, <4>1, <4>2
    <3> QED
      BY <3>2 DEF LockHeld
  <2> QED
    BY <2>1, <2>4, <2>5 DEF OpsOK
<1>4. HistoryOK'
  BY OlderIsOlder DEF Inv, HistoryOK, Tick
<1>5. ServerOK'
  <2>1. drains' \in Nat /\ crashes' \in Nat /\ faults' \in Nat /\ up' = up /\ crashes' = crashes
    BY DEF Tick, Inv, ServerOK
  <2>2. ~up => Stopped'
    BY DEF Tick, Inv, ServerOK, Stopped
  <2> QED
    BY <2>1, <2>2 DEF Inv, ServerOK
<1> QED
  BY <1>1, <1>2, <1>3, <1>4, <1>5, Kept DEF Inv, Tick

-----------------------------------------------------------------------------
(* The invariant, and what it says                                         *)

\* Every step keeps the invariant: by the actions of the handlers, of the goroutines
\* and of the server.
THEOREM NextInv ==
  ASSUME Inv, [Next]_vars
  PROVE  Inv'
<1>1. ASSUME NEW h \in Handlers, Handle(h) \/ HandlerFails(h) PROVE Inv'
  BY <1>1, ReceiveInv, DrainInv, ConsiderUpInv, ConsiderDownInv, ReadCapacityInv, SetCapacityInv,
     PutPendingInv, ReadMarkInv, PutMarkInv, HandlerFailsInv DEF Handle
<1>2. ASSUME NEW g \in Goroutines, Lock(g) \/ Work(g) \/ OpFails(g) PROVE Inv'
  BY <1>2, LockInv, CheckInv, ReadDesiredInv, SetDesiredInv, PutDoneInv, OpFailsInv DEF Work
<1>3. CASE Crash \/ Resume \/ Tick
  BY <1>3, CrashInv, ResumeInv, TickInv
<1>4. CASE UNCHANGED vars
  <2>1. ServerOK'
    BY <1>4 DEF vars, Inv, ServerOK, Stopped
  <2> QED
    BY <1>4, <2>1, Kept DEF vars, Inv
<1> QED
  BY <1>1, <1>2, <1>3, <1>4 DEF Next

THEOREM Invariance == Spec => []Inv
  BY InitInv, NextInv, PTL DEF Spec

\* The records, the lists and the goroutines have their types, whatever is lost.
THEOREM TypeCorrect == Spec => []TypeOK
  BY Invariance, InvImplies, PTL

\* No interleaving of reads and writes takes a group out of its bounds.
THEOREM BoundsKept == Spec => []CapacityInBounds
  BY Invariance, InvImplies, PTL

\* muUp and muDown are held by exactly the goroutine at work under them.
THEOREM LocksReleased == Spec => []LockHeld
  BY Invariance, InvImplies, PTL

-----------------------------------------------------------------------------
(* While the server does not restart, removals are a period apart: a       *)
(* goroutine waits out under muDown what is left of the period.            *)

Rested(r, minutes) ==
  r.op = "down" =>
    /\ r.pc \in {"lock", "sleep"} => minutes + r.left >= DownPeriod
    /\ r.pc = "check" => minutes + r.left > DownPeriod \/ minutes >= DownPeriod
    /\ r.pc \in {"read", "set"} => minutes >= DownPeriod

Apart ==
  crashes = 0 => /\ \A g \in Resumed : op[g].pc = "none"
                 /\ \A g \in Slots : Rested(op[g], sinceDown[op[g].cluster])

LEMMA LaunchedRested ==
  ASSUME NEW c \in Clusters, NEW o \in Operation, NEW n \in 0..Horizon
  PROVE  Rested(NewOp("lock", c, o), n)
<1>1. NewOp("lock", c, o).pc = "lock" /\ NewOp("lock", c, o).left = Period(o)
      /\ NewOp("lock", c, o).op = o
  BY Launched
<1>2. DownPeriod \in Nat /\ n \in Nat
  BY Bounds, HorizonIsLongest
<1>3. n + DownPeriod >= DownPeriod
  BY <1>2
<1> QED
  BY <1>1, <1>3 DEF Rested, Period

\* One goroutine moves; if it removes an instance, it holds muDown.
LEMMA ApartKept ==
  ASSUME Inv, Apart, NEW g \in Goroutines, UNCHANGED crashes,
         \A k \in Goroutines \ {g} : op'[k] = op[k],
         \/ UNCHANGED sinceDown
         \/ /\ op[g].pc = "set" /\ op[g].op = "down"
            /\ sinceDown' = [sinceDown EXCEPT ![op[g].cluster] = 0],
         crashes = 0 /\ g \in Resumed => op'[g].pc = "none",
         crashes = 0 /\ g \in Slots => Rested(op'[g], sinceDown'[op'[g].cluster])
  PROVE  Apart'
<1> SUFFICES ASSUME crashes = 0
             PROVE  /\ \A k \in Resumed : op'[k].pc = "none"
                    /\ \A k \in Slots : Rested(op'[k], sinceDown'[op'[k].cluster])
  BY DEF Apart
<1>1. \A k \in Resumed : op'[k].pc = "none"
  BY DEF Apart, Goroutines
<1>2. ASSUME NEW k \in Slots PROVE Rested(op'[k], sinceDown'[op'[k].cluster])
  <2>1. CASE k = g
    BY <2>1
  <2>2. CASE k # g /\ UNCHANGED sinceDown
    BY <2>2 DEF Apart, Goroutines
  <2>3. CASE /\ k # g /\ op[g].pc = "set" /\ op[g].op = "down"
             /\ sinceDown' = [sinceDown EXCEPT ![op[g].cluster] = 0]
    <3>1. g \in Slots
      BY <2>3 DEF Apart, Goroutines
    <3>2. LockHeld /\ "down" \in Operation
      BY DEF Inv, OpsOK, Operation
    <3>3. op[k].op = "down" => op[k].pc \in {"none", "lock"}
      BY <2>3, <3>1, <3>2 DEF LockHeld
    <3>4. op'[k] = op[k] /\ Rested(op[k], sinceDown[op[k].cluster]) /\ OpOK(k, op[k])
      BY <2>3 DEF Apart, Inv, OpsOK, Goroutines
    <3>5. ASSUME op[k].op = "down", op[k].pc = "lock"
          PROVE  sinceDown'[op[k].cluster] + op[k].left >= DownPeriod
      <4>1. op[k].left = DownPeriod /\ op[k].cluster \in Clusters
        BY <3>4, <3>5 DEF OpOK, Period
      <4>2. sinceDown'[op[k].cluster] \in 0..Horizon
        <5>1. sinceDown \in [Clusters -> 0..Horizon] /\ 0 \in 0..Horizon
          BY HorizonIsLongest, Upto DEF Inv, HistoryOK
        <5> QED
          BY <2>3, <4>1, <5>1
      <4> DEFINE n == sinceDown'[op[k].cluster]
      <4>3. n \in Nat /\ DownPeriod \in Nat
        BY <4>2, HorizonIsLongest, Bounds
      <4> HIDE DEF n
      <4>4. n + DownPeriod >= DownPeriod
        BY <4>3
      <4> QED
        BY <4>1, <4>4 DEF n
    <3> QED
      BY <3>3, <3>4, <3>5 DEF Rested
  <2> QED
    BY <2>1, <2>2, <2>3
<1> QED
  BY <1>1, <1>2

LEMMA Waits ==
  ASSUME NEW m \in Nat, NEW l \in Nat \ {0}, NEW p \in Nat, m + l > p \/ m >= p
  PROVE  m + (l - 1) >= p /\ (l = 1 => m >= p)
  OBVIOUS

LEMMA Ages ==
  ASSUME NEW m \in 0..Horizon, NEW l \in Nat, m + l >= DownPeriod
  PROVE  Older(m) + l > DownPeriod \/ Older(m) >= DownPeriod
<1>1. DownPeriod \in Nat /\ DownPeriod <= Horizon /\ Horizon \in Nat
  BY Bounds, HorizonIsLongest
<1>2. CASE m < Horizon
  <2>1. Older(m) = m + 1
    BY <1>2, OlderIsOlder
  <2> QED
    BY <1>1, <2>1
<1>3. CASE m = Horizon
  BY <1>1, <1>3, OlderIsOlder
<1> QED
  BY <1>1, <1>2, <1>3

LEMMA OpMoves ==
  ASSUME Inv, NEW g \in Goroutines, NEW r, op' = [op EXCEPT ![g] = r]
  PROVE  op'[g] = r /\ \A k \in Goroutines \ {g} : op'[k] = op[k]
  BY DEF Inv, OpsOK

LEMMA EndsRested ==
  ASSUME Inv, NEW g \in Goroutines, Ends(g)
  PROVE  /\ \A k \in Goroutines \ {g} : op'[k] = op[k]
         /\ op'[g].pc = "none" /\ \A n : Rested(op'[g], n)
<1>1. op' = [op EXCEPT ![g] = NoOp]
  BY DEF Ends
<1>2. op'[g] = NoOp /\ \A k \in Goroutines \ {g} : op'[k] = op[k]
  BY <1>1, OpMoves
<1> QED
  BY <1>2, Constructed DEF Rested

LEMMA SinceType ==
  ASSUME Inv, NEW g \in Goroutines, op[g].pc # "none"
  PROVE  /\ sinceDown[op[g].cluster] \in 0..Horizon /\ sinceDown[op[g].cluster] \in Nat
         /\ op[g].left \in Nat
<1>1. op[g].cluster \in Clusters /\ op[g].left \in Nat
  BY Working, OpFields
<1>2. sinceDown[op[g].cluster] \in 0..Horizon
  BY <1>1 DEF Inv, HistoryOK
<1> QED
  BY <1>1, <1>2, HorizonIsLongest

\* Of the goroutines that work, those of Resume are none.
LEMMA OfHandlers ==
  ASSUME Apart, crashes = 0, NEW g \in Goroutines, op[g].pc # "none"
  PROVE  g \in Slots /\ g \notin Resumed /\ Rested(op[g], sinceDown[op[g].cluster])
  BY DEF Apart, Goroutines

LEMMA LockApart ==
  ASSUME Inv, Apart, NEW g \in Goroutines, Lock(g)
  PROVE  Apart'
<1>1. op[g].pc = "lock" /\ UNCHANGED <<sinceDown, crashes>>
  BY DEF Lock, History, OpOnly
<1> DEFINE r == [op[g] EXCEPT !.pc = "sleep"]
<1>2. op \in [Goroutines -> Op] /\ op[g] \in Op
  BY DEF Inv, OpsOK
<1>3. r.pc = "sleep" /\ r.op = op[g].op /\ r.cluster = op[g].cluster /\ r.left = op[g].left
  BY <1>2 DEF Op
<1>4. op' = [op EXCEPT ![g] = r]
  BY <1>2 DEF Lock, Goes
<1> HIDE DEF r
<1>5. op'[g] = r /\ \A k \in Goroutines \ {g} : op'[k] = op[k]
  BY <1>4, OpMoves
<1>6. ASSUME crashes = 0 PROVE g \notin Resumed /\ Rested(r, sinceDown[r.cluster])
  BY <1>1, <1>3, <1>6, OfHandlers DEF Rested
<1> QED
  BY <1>1, <1>3, <1>5, <1>6, ApartKept

LEMMA CheckApart ==
  ASSUME Inv, Apart, NEW g \in Goroutines, Check(g)
  PROVE  Apart'
<1>1. op[g].pc = "check" /\ UNCHANGED <<sinceDown, crashes>>
  BY DEF Check, History, OpOnly
<1>2. CASE Ends(g)
  BY <1>1, <1>2, EndsRested, ApartKept
<1> DEFINE l == IF op[g].left = 1 THEN ClusterInfo(op[g].cluster) ELSE Empty
           pc == IF op[g].left = 1 THEN "read" ELSE "sleep"
           r == [op[g] EXCEPT !.left = op[g].left - 1, !.pc = pc, !.list = l]
<1>3. CASE op' = [op EXCEPT ![g] = r]
  <2>1. op[g] \in Op /\ OpOK(g, op[g])
    BY DEF Inv, OpsOK
  <2> HIDE DEF l
  <2>2. r.pc = pc /\ r.op = op[g].op /\ r.cluster = op[g].cluster /\ r.left = op[g].left - 1
    BY <2>1 DEF Op
  <2> HIDE DEF r
  <2>3. op'[g] = r /\ \A k \in Goroutines \ {g} : op'[k] = op[k]
    BY <1>3, OpMoves
  <2>4. ASSUME crashes = 0 PROVE g \notin Resumed /\ Rested(r, sinceDown[r.cluster])
    <3>1. g \notin Resumed /\ Rested(op[g], sinceDown[op[g].cluster])
      BY <1>1, <2>4, OfHandlers
    <3> DEFINE m == sinceDown[op[g].cluster]
    <3>2. m \in Nat /\ op[g].left \in Nat \ {0} /\ DownPeriod \in Nat
      BY <1>1, <2>1, SinceType, Bounds DEF OpOK
    <3>3. ASSUME op[g].op = "down"
          PROVE  m + (op[g].left - 1) >= DownPeriod /\ (op[g].left = 1 => m >= DownPeriod)
      <4>1. m + op[g].left > DownPeriod \/ m >= DownPeriod
        BY <1>1, <3>1, <3>3 DEF Rested
      <4> HIDE DEF m
      <4> QED
        BY <3>2, <4>1, Waits
    <3> HIDE DEF m
    <3>4. Rested(r, m)
      BY <2>2, <3>3 DEF Rested
    <3> QED
      BY <2>2, <3>1, <3>4 DEF m
  <2> QED
    BY <1>1, <2>2, <2>3, <2>4, ApartKept
<1> QED
  BY <1>2, <1>3, Zenon DEF Check

LEMMA ReadDesiredApart ==
  ASSUME Inv, Apart, NEW g \in Goroutines, ReadDesired(g)
  PROVE  Apart'
<1>1. op[g].pc = "read" /\ UNCHANGED <<sinceDown, crashes>>
  BY DEF ReadDesired, History, OpOnly
<1>2. CASE Ends(g)
  BY <1>1, <1>2, EndsRested, ApartKept
<1> DEFINE d == capacity[op[g].cluster]
           r == [op[g] EXCEPT !.pc = "set", !.desired = d]
<1>3. CASE op' = [op EXCEPT ![g].pc = "set", ![g].desired = d]
  <2>1. op \in [Goroutines -> Op] /\ op[g] \in Op
    BY DEF Inv, OpsOK
  <2> HIDE DEF d
  <2>2. r.pc = "set" /\ r.op = op[g].op /\ r.cluster = op[g].cluster
    BY <2>1 DEF Op
  <2>3. op' = [op EXCEPT ![g] = r]
    BY <1>3, <2>1
  <2> HIDE DEF r
  <2>4. op'[g] = r /\ \A k \in Goroutines \ {g} : op'[k] = op[k]
    BY <2>3, OpMoves
  <2>5. ASSUME crashes = 0 PROVE g \notin Resumed /\ Rested(r, sinceDown[r.cluster])
    BY <1>1, <2>2, <2>5, OfHandlers DEF Rested
  <2> QED
    BY <1>1, <2>2, <2>4, <2>5, ApartKept
<1> QED
  BY <1>2, <1>3 DEF ReadDesired

\* A goroutine that has written the capacity, or failed, waits for nothing any more.
LEMMA RemovalApart ==
  ASSUME Inv, Apart, NEW g \in Goroutines, SetDesired(g) \/ PutDone(g) \/ OpFails(g)
  PROVE  Apart'
<1>1. op[g].pc # "none" /\ UNCHANGED crashes
  BY DEF SetDesired, Apply, PutDone, OpFails, OpOnly
<1>2. \/ UNCHANGED sinceDown
      \/ /\ op[g].pc = "set" /\ op[g].op = "down"
         /\ sinceDown' = [sinceDown EXCEPT ![op[g].cluster] = 0]
  BY DEF SetDesired, PutDone, OpFails, Apply, History
<1>3. CASE Ends(g)
  BY <1>1, <1>2, <1>3, EndsRested, ApartKept
<1>4. CASE SetDesired(g)
  <2> DEFINE r == [op[g] EXCEPT !.pc = "put"]
  <2>1. op \in [Goroutines -> Op] /\ op[g] \in Op
    BY DEF Inv, OpsOK
  <2>2. r.pc = "put"
    BY <2>1 DEF Op
  <2>3. op' = [op EXCEPT ![g] = r]
    BY <1>4, <2>1 DEF SetDesired, Goes
  <2> HIDE DEF r
  <2>4. op'[g] = r /\ \A k \in Goroutines \ {g} : op'[k] = op[k]
    BY <2>3, OpMoves
  <2>5. \A n : Rested(r, n)
    BY <2>2 DEF Rested
  <2>6. crashes = 0 => g \notin Resumed
    BY <1>1, OfHandlers
  <2> QED
    BY <1>1, <1>2, <2>4, <2>5, <2>6, ApartKept
<1> QED
  BY <1>3, <1>4 DEF PutDone, OpFails

LEMMA PutPendingApart ==
  ASSUME Inv, Apart, NEW h \in Handlers, PutPending(h)
  PROVE  Apart'
<1> DEFINE c == handler[h].cluster  o == handler[h].pending
<1>1. c \in Clusters /\ o \in Operation
  BY DEF PutPending, Inv, HandlersOK, HandlerOK
<1>2. PICK g \in Slots : op[g].pc = "none" /\ op' = [op EXCEPT ![g] = NewOp("lock", c, o)]
  BY DEF PutPending
<1>3. UNCHANGED <<sinceDown, crashes>>
  BY DEF PutPending
<1> HIDE DEF c, o
<1>4. g \in Goroutines /\ g \notin Resumed
  BY ScalingConstants DEF Goroutines
<1>5. op'[g] = NewOp("lock", c, o) /\ \A k \in Goroutines \ {g} : op'[k] = op[k]
  BY <1>2, <1>4, OpMoves
<1>6. NewOp("lock", c, o).cluster = c
  BY <1>1, Launched
<1>7. sinceDown[c] \in 0..Horizon
  BY <1>1 DEF Inv, HistoryOK
<1>8. Rested(NewOp("lock", c, o), sinceDown[c])
  BY <1>1, <1>7, LaunchedRested
<1> QED
  BY <1>3, <1>4, <1>5, <1>6, <1>8, ApartKept

LEMMA TickApart ==
  ASSUME Inv, Apart, Tick
  PROVE  Apart'
<1> SUFFICES ASSUME crashes = 0
             PROVE  /\ \A k \in Resumed : op'[k].pc = "none"
                    /\ \A k \in Slots : Rested(op'[k], sinceDown'[op'[k].cluster])
  BY DEF Apart, Tick
<1> DEFINE r(g) == IF op[g].pc = "sleep" THEN [op[g] EXCEPT !.pc = "check"] ELSE op[g]
<1>1. op' = [g \in Goroutines |-> r(g)]
  BY DEF Tick
<1>2. ASSUME NEW g \in Goroutines
      PROVE  /\ r(g).pc = IF op[g].pc = "sleep" THEN "check" ELSE op[g].pc
             /\ r(g).op = op[g].op /\ r(g).cluster = op[g].cluster /\ r(g).left = op[g].left
  <2>1. op[g] \in Op
    BY DEF Inv, OpsOK
  <2> QED
    BY <2>1 DEF Op
<1> HIDE DEF r
<1>3. \A g \in Goroutines : op'[g] = r(g)
  BY <1>1
<1>4. \A k \in Resumed : op'[k].pc = "none"
  BY <1>2, <1>3 DEF Apart, Goroutines
<1>5. ASSUME NEW g \in Slots, r(g).pc # "none" PROVE Rested(r(g), sinceDown'[r(g).cluster])
  <2>1. g \in Goroutines /\ op[g].pc # "none"
    BY <1>2, <1>5 DEF Goroutines
  <2> DEFINE m == sinceDown[op[g].cluster]
  <2>2. m \in 0..Horizon /\ op[g].left \in Nat /\ op[g].cluster \in Clusters
    BY <2>1, SinceType, Working
  <2>3. sinceDown'[r(g).cluster] = Older(m)
    BY <1>2, <2>1, <2>2 DEF Tick
  <2>4. Rested(op[g], m) /\ op[g].pc \in {"sleep", "lock"}
    <3>1. Rested(op[g], m)
      BY DEF Apart
    <3>2. op[g].pc \in {"none", "sleep", "lock"}
      BY <2>1 DEF Tick, Quiet
    <3> QED
      BY <2>1, <3>1, <3>2
  <2>5. ASSUME op[g].op = "down"
        PROVE  /\ Older(m) + op[g].left > DownPeriod \/ Older(m) >= DownPeriod
               /\ Older(m) + op[g].left >= DownPeriod
    <3>1. m + op[g].left >= DownPeriod
      BY <2>4, <2>5 DEF Rested
    <3> DEFINE l == op[g].left
    <3> HIDE DEF m, l
    <3>2. l \in Nat /\ m + l >= DownPeriod
      BY <2>2, <3>1 DEF l
    <3>3. Older(m) + l > DownPeriod \/ Older(m) >= DownPeriod
      BY <2>2, <3>2, Ages
    <3>4. Older(m) \in Nat /\ DownPeriod \in Nat
      BY <2>2, OlderIsOlder, HorizonIsLongest, Bounds
    <3> DEFINE n == Older(m)
    <3> HIDE DEF n
    <3>5. n + l >= DownPeriod
      BY <3>2, <3>3, <3>4 DEF n
    <3> QED
      BY <3>3, <3>5 DEF n, l
  <2> HIDE DEF m
  <2>6. Rested(r(g), Older(m))
    BY <1>2, <2>1, <2>4, <2>5 DEF Rested
  <2> QED
    BY <2>3, <2>6
<1>6. ASSUME NEW g \in Slots, r(g).pc = "none" PROVE Rested(r(g), sinceDown'[r(g).cluster])
  BY <1>6 DEF Rested
<1> QED
  BY <1>3, <1>4, <1>5, <1>6 DEF Goroutines

LEMMA NextApart ==
  ASSUME Inv, Apart, [Next]_vars
  PROVE  Apart'
<1>1. ASSUME NEW h \in Handlers, PutPending(h) PROVE Apart'
  BY <1>1, PutPendingApart
<1>2. ASSUME UNCHANGED <<op, sinceDown, crashes>> PROVE Apart'
  BY <1>2 DEF Apart
<1>3. ASSUME NEW h \in Handlers, Handle(h) \/ HandlerFails(h), ~PutPending(h) PROVE Apart'
  <2>1. UNCHANGED <<op, sinceDown, crashes>>
    BY <1>3 DEF Handle, HandlerFails, Receive, Drain, ConsiderUp, ConsiderDown, ReadCapacity,
                SetCapacity, ReadMark, PutMark, HandlerOnly, History
  <2> QED
    BY <1>2, <2>1
<1>4. ASSUME NEW g \in Goroutines, Lock(g) \/ Work(g) \/ OpFails(g) PROVE Apart'
  BY <1>4, LockApart, CheckApart, ReadDesiredApart, RemovalApart DEF Work
<1>5. CASE Crash
  <2>1. crashes \in Nat /\ crashes' = crashes + 1
    BY <1>5 DEF Crash, Inv, ServerOK
  <2>2. crashes' # 0
    BY <2>1
  <2> QED
    BY <2>2 DEF Apart
<1>6. CASE Resume
  <2>1. crashes' # 0
    BY <1>6 DEF Resume, Inv, ServerOK
  <2> QED
    BY <2>1 DEF Apart
<1>7. CASE Tick
  BY <1>7, TickApart
<1>8. CASE UNCHANGED vars
  BY <1>2, <1>8 DEF vars
<1> QED
  BY <1>1, <1>3, <1>4, <1>5, <1>6, <1>7, <1>8 DEF Next

THEOREM ApartInvariance == Spec => []Apart
<1>1. Init => Apart
  <2> SUFFICES ASSUME Init PROVE \A g \in Goroutines : op[g].pc = "none" /\ op[g].op = ""
    BY DEF Apart, Rested, Goroutines
  <2> QED
    BY Constructed DEF Init
<1> QED
  BY <1>1, NextApart, Invariance, PTL DEF Spec

\* Nothing but the end of a goroutine's wait lets it remove an instance: a step that
\* removes one is the write of a goroutine, answered or not.
LEMMA RemovalRested ==
  ASSUME Inv, Apart, crashes = 0, NEW g \in Goroutines, Removes(g)
  PROVE  sinceDown[op[g].cluster] >= DownPeriod
<1>1. op[g].pc = "set" /\ op[g].op = "down"
  BY DEF Removes
<1>2. Rested(op[g], sinceDown[op[g].cluster])
  BY <1>1, OfHandlers
<1> QED
  BY <1>1, <1>2 DEF Rested

\* As long as the server does not restart, and whatever calls fail, two removals from a
\* cluster are a period apart.
THEOREM RemovalsApart == Spec /\ [](crashes = 0) => DownsApart
<1>1. ASSUME Inv, Apart, crashes = 0
      PROVE  [\A g \in Goroutines : Removes(g) => sinceDown[op[g].cluster] >= DownPeriod]_vars
  BY <1>1, RemovalRested
<1> QED
  BY <1>1, Invariance, ApartInvariance, PTL DEF DownsApart

-----------------------------------------------------------------------------
(* With one cluster, no crash and no failing call, an instance is removed  *)
(* only for a decision of its own: a record that still asks for a removal  *)
(* although none has been decided since the last is one whose goroutine is *)
(* about to write the next record, under muDown.                           *)

NotRemoving == \A g \in Slots : op[g].op = "down" => op[g].pc \notin {"read", "set"}
Recording == \E g \in Slots : lock["down"] = g /\ op[g].pc = "put"

Undecided ==
  crashes = 0 /\ faults = 0 =>
    \A c \in Clusters : ~decided[c] => NotRemoving /\ (info.pending = "down" => Recording)

\* A goroutine moves that is not the one of the record to come.
LEMMA UndecidedKept ==
  ASSUME Inv, Undecided, NEW g \in Goroutines, UNCHANGED <<info, decided, crashes, faults>>,
         \A k \in Goroutines \ {g} : op'[k] = op[k],
         op[g].pc # "put",
         \A k \in Slots \ {g} : lock["down"] = k => lock'["down"] = k,
         g \in Slots /\ op'[g].op = "down" /\ op'[g].pc \in {"read", "set"}
           => op[g].op = "down" /\ \/ op[g].pc \in {"read", "set"}
                                   \/ op[g].pc = "check" /\ info.pending = "down"
  PROVE  Undecided'
<1>1. \A k \in Slots : k \in Goroutines
  BY DEF Goroutines
<1> SUFFICES ASSUME crashes = 0, faults = 0, NEW c \in Clusters, ~decided[c]
             PROVE  NotRemoving' /\ (info.pending = "down" => Recording')
  BY DEF Undecided
<1>2. NotRemoving /\ (info.pending = "down" => Recording)
  BY DEF Undecided
<1>3. info.pending = "down" => Recording'
  BY <1>1, <1>2 DEF Recording
<1>4. ~(g \in Slots /\ op[g].op = "down" /\ op[g].pc = "check" /\ info.pending = "down")
  BY <1>2 DEF Recording, Inv, OpsOK, LockHeld, Operation
<1>5. NotRemoving'
  BY <1>1, <1>2, <1>4 DEF NotRemoving
<1> QED
  BY <1>3, <1>5

\* A record that asks for no removal.
LEMMA UndecidedForgets ==
  ASSUME Inv, Undecided, UNCHANGED <<decided, crashes, faults>>, info'.pending # "down",
         \A k \in Slots : op'[k] = op[k] \/ op'[k].pc \notin {"read", "set"}
  PROVE  Undecided'
  BY DEF Undecided, NotRemoving

LEMMA EndsMoves ==
  ASSUME Inv, NEW g \in Goroutines, Ends(g)
  PROVE  /\ \A k \in Goroutines \ {g} : op'[k] = op[k]
         /\ op'[g].pc = "none"
         /\ \A k \in Slots \ {g} : lock["down"] = k => lock'["down"] = k
<1>1. op' = [op EXCEPT ![g] = NoOp]
  BY DEF Ends
<1>2. op'[g] = NoOp /\ \A k \in Goroutines \ {g} : op'[k] = op[k]
  BY <1>1, OpMoves
<1>3. lock'["down"] = IF lock["down"] = g THEN None ELSE lock["down"]
  BY DEF Ends, Operation
<1> QED
  BY <1>2, <1>3, Constructed

LEMMA CheckUndecided ==
  ASSUME Inv, Undecided, NEW g \in Goroutines, Check(g)
  PROVE  Undecided'
<1>1. op[g].pc = "check" /\ UNCHANGED <<info, decided, crashes, faults>>
  BY DEF Check, Records, History, OpOnly
<1>2. CASE Ends(g)
  BY <1>1, <1>2, EndsMoves, UndecidedKept
<1> DEFINE l == IF op[g].left = 1 THEN ClusterInfo(op[g].cluster) ELSE Empty
           pc == IF op[g].left = 1 THEN "read" ELSE "sleep"
           r == [op[g] EXCEPT !.left = op[g].left - 1, !.pc = pc, !.list = l]
<1>3. CASE op' = [op EXCEPT ![g] = r] /\ UNCHANGED lock /\ info.pending = op[g].op
  <2>1. op[g] \in Op
    BY DEF Inv, OpsOK
  <2> HIDE DEF l
  <2>2. r.op = op[g].op
    BY <2>1 DEF Op
  <2> HIDE DEF r
  <2>3. op'[g] = r /\ \A k \in Goroutines \ {g} : op'[k] = op[k]
    BY <1>3, OpMoves
  <2> QED
    BY <1>1, <1>3, <2>2, <2>3, UndecidedKept
<1>4. \/ Ends(g)
      \/ op' = [op EXCEPT ![g] = r] /\ UNCHANGED lock /\ info.pending = op[g].op
  <2>1. CASE Aborts(g, ClusterInfo(op[g].cluster))
    <3> HIDE DEF r
    <3>1. Ends(g)
      BY <2>1 DEF Check
    <3> QED
      BY <3>1
  <2>2. CASE ~Aborts(g, ClusterInfo(op[g].cluster))
    <3>1. op' = [op EXCEPT ![g] = r] /\ UNCHANGED lock
      BY <2>2, Zenon DEF Check
    <3>2. info.pending = op[g].op
      BY <2>2 DEF Aborts
    <3> QED
      BY <3>1, <3>2
  <2> QED
    BY <2>1, <2>2
<1> QED
  BY <1>2, <1>3, <1>4

LEMMA ReadDesiredUndecided ==
  ASSUME Inv, Undecided, NEW g \in Goroutines, ReadDesired(g)
  PROVE  Undecided'
<1>1. op[g].pc = "read" /\ UNCHANGED <<info, decided, crashes, faults>>
  BY DEF ReadDesired, Records, History, OpOnly
<1>2. CASE Ends(g)
  BY <1>1, <1>2, EndsMoves, UndecidedKept
<1> DEFINE d == capacity[op[g].cluster]
           r == [op[g] EXCEPT !.pc = "set", !.desired = d]
<1>3. CASE op' = [op EXCEPT ![g].pc = "set", ![g].desired = d] /\ UNCHANGED lock
  <2>1. op \in [Goroutines -> Op] /\ op[g] \in Op
    BY DEF Inv, OpsOK
  <2> HIDE DEF d
  <2>2. r.op = op[g].op
    BY <2>1 DEF Op
  <2>3. op' = [op EXCEPT ![g] = r]
    BY <1>3, <2>1
  <2> HIDE DEF r
  <2>4. op'[g] = r /\ \A k \in Goroutines \ {g} : op'[k] = op[k]
    BY <2>3, OpMoves
  <2> QED
    BY <1>1, <1>3, <2>2, <2>4, UndecidedKept
<1> QED
  BY <1>2, <1>3 DEF ReadDesired

LEMMA LockUndecided ==
  ASSUME Inv, Undecided, NEW g \in Goroutines, Lock(g)
  PROVE  Undecided'
<1>1. /\ op[g].pc = "lock" /\ lock[op[g].op] = None
      /\ UNCHANGED <<info, decided, crashes, faults>>
  BY DEF Lock, Records, History, OpOnly
<1> DEFINE r == [op[g] EXCEPT !.pc = "sleep"]
<1>2. op \in [Goroutines -> Op] /\ op[g] \in Op
  BY DEF Inv, OpsOK
<1>3. r.pc = "sleep"
  BY <1>2 DEF Op
<1>4. op' = [op EXCEPT ![g] = r]
  BY <1>2 DEF Lock, Goes
<1> HIDE DEF r
<1>5. op'[g] = r /\ \A k \in Goroutines \ {g} : op'[k] = op[k]
  BY <1>4, OpMoves
<1>6. \A k \in Slots : lock["down"] = k => lock'["down"] = k
  <2>1. None \notin Slots /\ lock \in [Operation -> Slots \cup {None}]
    BY ScalingConstants DEF Inv, OpsOK
  <2> QED
    BY <1>1, <2>1 DEF Lock, Operation
<1> QED
  BY <1>1, <1>3, <1>5, <1>6, UndecidedKept

\* The write of a removal: what was decided is carried out, by the holder of muDown.
LEMMA SetDesiredUndecided ==
  ASSUME Inv, Apart, Undecided, NEW g \in Goroutines, SetDesired(g)
  PROVE  Undecided'
<1>1. op[g].pc = "set" /\ UNCHANGED <<info, lock, crashes, faults>>
  BY DEF SetDesired, Apply, Records, OpOnly
<1> DEFINE r == [op[g] EXCEPT !.pc = "put"]
<1>2. op \in [Goroutines -> Op] /\ op[g] \in Op
  BY DEF Inv, OpsOK
<1>3. r.pc = "put" /\ r.op = op[g].op
  BY <1>2 DEF Op
<1>4. op' = [op EXCEPT ![g] = r]
  BY <1>2 DEF SetDesired, Goes
<1> HIDE DEF r
<1>5. op'[g] = r /\ \A k \in Goroutines \ {g} : op'[k] = op[k]
  BY <1>4, OpMoves
<1>6. CASE op[g].op # "down"
  <2>1. UNCHANGED decided
    BY <1>6 DEF SetDesired, Apply
  <2> QED
    BY <1>1, <1>3, <1>5, <2>1, UndecidedKept
<1>7. CASE op[g].op = "down"
  <2> SUFFICES ASSUME crashes = 0 PROVE NotRemoving' /\ Recording'
    BY <1>1 DEF Undecided
  <2>1. g \in Slots
    BY <1>1, OfHandlers
  <2>2. LockHeld /\ "down" \in Operation /\ \A k \in Slots : k \in Goroutines
    BY DEF Inv, OpsOK, Operation, Goroutines
  <2>3. lock["down"] = g
    BY <1>1, <1>7, <2>1, <2>2 DEF LockHeld
  <2>4. Recording'
    BY <1>1, <1>3, <1>5, <2>1, <2>3 DEF Recording
  <2>5. NotRemoving'
    BY <1>3, <1>5, <2>2, <2>3 DEF NotRemoving, LockHeld
  <2> QED
    BY <2>4, <2>5
<1> QED
  BY <1>6, <1>7

\* With one cluster the decision of a handler is one for all.
LEMMA PutPendingUndecided ==
  ASSUME Inv, Undecided, \A c, d \in Clusters : c = d, NEW h \in Handlers, PutPending(h)
  PROVE  Undecided'
<1> DEFINE c == handler[h].cluster  o == handler[h].pending
<1>1. c \in Clusters /\ o \in Operation /\ handler[h].list \in List /\ TypeOK
  BY InvImplies, HandlerFields DEF PutPending, Inv, HandlersOK, HandlerOK
<1>2. PICK g \in Slots : op[g].pc = "none" /\ op' = [op EXCEPT ![g] = NewOp("lock", c, o)]
  BY DEF PutPending
<1>3. PutClusterInfo(handler[h].list, c, "no", o) /\ UNCHANGED <<lock, crashes, faults>>
  BY DEF PutPending
<1>4. decided' = IF o = "down" THEN [decided EXCEPT ![c] = TRUE] ELSE decided
  BY DEF PutPending
<1> HIDE DEF c, o
<1>5. g \in Goroutines
  BY DEF Goroutines
<1>6. op'[g] = NewOp("lock", c, o) /\ \A k \in Goroutines \ {g} : op'[k] = op[k]
  BY <1>2, <1>5, OpMoves
<1>7. op'[g].pc = "lock"
  <2>1. NewOp("lock", c, o).pc = "lock"
    BY <1>1, Launched
  <2> QED
    BY <1>6, <2>1
<1>8. info'.pending = o
  BY <1>1, <1>3, PutInfo
<1>9. CASE o = "down"
  <2>1. decided \in [Clusters -> BOOLEAN] /\ decided' = [decided EXCEPT ![c] = TRUE]
    BY <1>4, <1>9 DEF Inv, HistoryOK
  <2>2. decided'[c]
    BY <1>1, <2>1
  <2>3. \A d \in Clusters : decided'[d]
    BY <1>1, <2>2
  <2> QED
    BY <2>3 DEF Undecided
<1>10. CASE o # "down"
  <2>1. UNCHANGED decided /\ info'.pending # "down"
    BY <1>4, <1>8, <1>10
  <2>2. \A k \in Slots : op'[k] = op[k] \/ op'[k].pc \notin {"read", "set"}
    BY <1>6, <1>7 DEF Goroutines
  <2> QED
    BY <1>3, <2>1, <2>2, UndecidedForgets
<1> QED
  BY <1>9, <1>10

LEMMA PutMarkUndecided ==
  ASSUME Inv, Undecided, NEW h \in Handlers, PutMark(h)
  PROVE  Undecided'
<1>1. UNCHANGED <<op, decided, crashes, faults>>
  BY DEF PutMark, History, HandlerOnly
<1>2. info'.pending = ""
  BY DEF PutMark, PutClusterInfo
<1> QED
  BY <1>1, <1>2, UndecidedForgets

LEMMA PutDoneUndecided ==
  ASSUME Inv, Undecided, NEW g \in Goroutines, PutDone(g)
  PROVE  Undecided'
<1>1. UNCHANGED <<decided, crashes, faults>> /\ Ends(g)
  BY DEF PutDone, History, OpOnly
<1>2. info'.pending = ""
  BY DEF PutDone, PutClusterInfo
<1>3. \A k \in Slots : op'[k] = op[k] \/ op'[k].pc \notin {"read", "set"}
  BY <1>1, EndsMoves DEF Goroutines
<1> QED
  BY <1>1, <1>2, <1>3, UndecidedForgets

LEMMA TickUndecided ==
  ASSUME Inv, Undecided, Tick
  PROVE  Undecided'
<1>1. UNCHANGED <<lock, decided, crashes, faults>>
  BY DEF Tick
<1>2. info'.pending = info.pending
  BY DEF Tick, Inv, RecordsOK, Info
<1>3. \A g \in Slots : g \in Goroutines
  BY DEF Goroutines
<1>4. ASSUME NEW g \in Goroutines
      PROVE  op'[g].pc \notin {"read", "set"} /\ op[g].pc # "put"
  <2>1. op[g].pc \in {"none", "sleep", "lock"}
    BY DEF Tick, Quiet
  <2>2. op[g] \in Op
    BY DEF Inv, OpsOK
  <2>3. op'[g] = IF op[g].pc = "sleep" THEN [op[g] EXCEPT !.pc = "check"] ELSE op[g]
    BY DEF Tick
  <2> DEFINE x == [op[g] EXCEPT !.pc = "check"]
  <2>4. x.pc = "check"
    BY <2>2 DEF Op
  <2> HIDE DEF x
  <2> QED
    BY <2>1, <2>3, <2>4 DEF x
<1>5. NotRemoving' /\ ~Recording
  BY <1>3, <1>4 DEF NotRemoving, Recording
<1> QED
  BY <1>1, <1>2, <1>5 DEF Undecided

LEMMA Failed ==
  ASSUME Inv, Crash \/ Resume \/ Fault
  PROVE  Undecided'
<1>1. crashes \in Nat /\ faults \in Nat
  BY DEF Inv, ServerOK
<1>2. CASE Fault
  <2>1. faults' = faults + 1
    BY <1>2 DEF Fault
  <2>2. faults' # 0
    BY <1>1, <2>1
  <2> QED
    BY <2>2 DEF Undecided
<1>3. CASE Crash
  <2>1. crashes' = crashes + 1
    BY <1>3 DEF Crash
  <2>2. crashes' # 0
    BY <1>1, <2>1
  <2> QED
    BY <2>2 DEF Undecided
<1>4. CASE Resume
  <2>1. crashes' # 0
    BY <1>4 DEF Resume, Inv, ServerOK
  <2> QED
    BY <2>1 DEF Undecided
<1> QED
  BY <1>2, <1>3, <1>4

LEMMA NextUndecided ==
  ASSUME Inv, Apart, Undecided, \A c, d \in Clusters : c = d, [Next]_vars
  PROVE  Undecided'
<1>1. ASSUME UNCHANGED <<op, lock, info, decided, crashes, faults>> PROVE Undecided'
  BY <1>1 DEF Undecided, NotRemoving, Recording
<1>2. ASSUME NEW h \in Handlers, Handle(h) PROVE Undecided'
  <2>1. ASSUME ~PutPending(h), ~PutMark(h) PROVE Undecided'
    <3>1. UNCHANGED <<op, lock, info, decided, crashes, faults>>
      BY <1>2, <2>1 DEF Handle, Receive, Drain, ConsiderUp, ConsiderDown, ReadCapacity,
                        SetCapacity, ReadMark, Records, HandlerOnly, History
    <3> QED
      BY <1>1, <3>1
  <2> QED
    BY <2>1, PutPendingUndecided, PutMarkUndecided
<1>3. ASSUME NEW g \in Goroutines, Lock(g) \/ Work(g) PROVE Undecided'
  BY <1>3, LockUndecided, CheckUndecided, ReadDesiredUndecided, SetDesiredUndecided,
     PutDoneUndecided DEF Work
<1>4. ASSUME NEW h, HandlerFails(h) PROVE Undecided'
  BY <1>4, Failed DEF HandlerFails
<1>5. ASSUME NEW g, OpFails(g) PROVE Undecided'
  BY <1>5, Failed DEF OpFails
<1>6. CASE Crash \/ Resume
  BY <1>6, Failed
<1>7. CASE Tick
  BY <1>7, TickUndecided
<1>8. CASE UNCHANGED vars
  BY <1>1, <1>8 DEF vars
<1> QED
  BY <1>2, <1>3, <1>4, <1>5, <1>6, <1>7, <1>8 DEF Next

\* With one cluster, every instance removed has a decision of its own.
THEOREM RemovalsDecided ==
  ASSUME \A c, d \in Clusters : c = d
  PROVE  Spec => EveryDownDecided
<1>1. Init => Undecided
  <2> SUFFICES ASSUME Init PROVE NotRemoving /\ info.pending = ""
    BY DEF Undecided
  <2>1. \A g \in Slots : op[g].op = ""
    BY Constructed DEF Init, Goroutines
  <2> QED
    BY <2>1, Constructed DEF Init, NotRemoving
<1>2. ASSUME Inv, Apart, Undecided, [Next]_vars PROVE Undecided'
  BY <1>2, NextUndecided
<1>3. ASSUME Inv, Apart, Undecided
      PROVE  [\A g \in Goroutines :
               Removes(g) /\ crashes = 0 /\ faults = 0 => decided[op[g].cluster]]_vars
  <2> SUFFICES ASSUME NEW g \in Goroutines, Removes(g), crashes = 0, faults = 0
               PROVE  decided[op[g].cluster]
    OBVIOUS
  <2>1. op[g].pc = "set" /\ op[g].op = "down"
    BY DEF Removes
  <2>2. g \in Slots /\ op[g].cluster \in Clusters
    BY <1>3, <2>1, OfHandlers, Working
  <2> QED
    BY <1>3, <2>1, <2>2 DEF Undecided, NotRemoving
<1> QED
  BY <1>1, <1>2, <1>3, Invariance, ApartInvariance, PTL DEF Spec, EveryDownDecided

-----------------------------------------------------------------------------
(* What a removal rests on: the age of a record says how old its reason is *)

\* The sequence of operations has the newest record, as old as it is.
Traced ==
  /\ \A i \in DOMAIN activity : activity[i].action # "no" \/ activity[i].pending # ""
  /\ info.age < Horizon =>
       Len(activity) # 0 /\ activity[Len(activity)].age = info.age

\* A handler has found a spare instance where ECS reports one, or else in a record
\* recent enough to end the cooldown check; what it is about to record is of this minute.
Reasoned(r) ==
  /\ r.pc \notin {"mark", "marked"}
  /\ r.pc = "down" => info.age < CacheAge \/ sinceSpare[r.cluster] = 0
  /\ r.pc = "put" /\ r.pending = "down" => sinceSpare[r.cluster] = 0

Founded ==
  /\ \A c \in Clusters : scaleDownDecision(c, load) => sinceSpare[c] = 0
  /\ Traced
  /\ \A h \in Handlers : Reasoned(handler[h])
  /\ info.pending = "down" /\ info.age < CacheAge =>
       \A c \in Clusters : sinceSpare[c] <= info.age

\* A set of numbers has its least, and the least is one of them.
LEMMA MinIn ==
  ASSUME NEW S \in SUBSET Nat, S # {}
  PROVE  Min(S) \in S
<1>1. PICK m \in S : \A y \in S : ~(<<y, m>> \in OpToRel(<, Nat))
  BY WFMin, NatLessThanWellFounded
<1>2. \A y \in S : ~(y < m)
  <2> SUFFICES ASSUME NEW y \in S, y < m PROVE FALSE
    OBVIOUS
  <2>1. <<y, m>> \in Nat \X Nat /\ <<y, m>>[1] < <<y, m>>[2]
    OBVIOUS
  <2> QED
    BY <1>1, <2>1 DEF OpToRel
<1>3. \A y \in S : m <= y
  BY <1>2
<1> QED
  BY <1>3 DEF Min

\* getScalingActivity answers more than "no" for a record that says anything.
LEMMA NotBlank ==
  ASSUME NEW a, NEW p, NEW found, a # "no" \/ p # "",
         found = IF a # "no" THEN [action |-> a, pending |-> ""] ELSE [action |-> "no", pending |-> p]
  PROVE  found # [action |-> "no", pending |-> ""]
<1>1. CASE a # "no"
  <2>1. found.action = a
    BY <1>1
  <2> QED
    BY <1>1, <2>1
<1>2. CASE a = "no"
  <2>1. found.pending = p
    BY <1>2
  <2> QED
    BY <1>2, <2>1
<1> QED
  BY <1>1, <1>2

\* A record that is appended is the last.
LEMMA Appended ==
  ASSUME NEW s \in Seq(Scaling), NEW r \in Scaling
  PROVE  /\ Len(Append(s, r)) # 0
         /\ Append(s, r)[Len(Append(s, r))] = r
         /\ \A i \in DOMAIN Append(s, r) :
              Append(s, r)[i] = r \/ (i \in DOMAIN s /\ Append(s, r)[i] = s[i])
<1> DEFINE new == Append(s, r)  n == Len(s)  m == n + 1
<1>1. /\ new \in Seq(Scaling) /\ Len(new) = m /\ new[m] = r
      /\ \A i \in 1..n : new[i] = s[i]
  BY AppendProperties
<1>2. n \in Nat /\ DOMAIN s = 1..n /\ DOMAIN new = 1..m
  BY <1>1, LenProperties
<1>3. m # 0 /\ \A i \in 1..m : i \in 1..n \/ i = m
  <2> HIDE DEF n
  <2> QED
    BY <1>2
<1> HIDE DEF n, m, new
<1>4. Len(new) # 0 /\ new[Len(new)] = r
  BY <1>1, <1>3
<1>5. ASSUME NEW i \in DOMAIN new PROVE new[i] = r \/ (i \in DOMAIN s /\ new[i] = s[i])
  <2>1. i \in 1..n \/ i = m
    BY <1>2, <1>3
  <2>2. i \in 1..n => i \in DOMAIN s /\ new[i] = s[i]
    BY <1>1, <1>2
  <2>3. i = m => new[i] = r
    BY <1>1
  <2> QED
    BY <2>1, <2>2, <2>3
<1> QED
  BY <1>4, <1>5 DEF new

LEMMA Empties == DOMAIN <<>> = {}
  OBVIOUS

\* The operations keep no record without one, and no cluster is scaled down within the
\* cooldown of a record that is recent.
LEMMA RecentIsActive ==
  ASSUME Inv, Traced, \A c, d \in Clusters : c = d, CacheAge <= DownCooldown,
         info.age < CacheAge, NEW c \in Clusters
  PROVE  GetScalingActivity(c, DownCooldown) # [action |-> "no", pending |-> ""]
<1> DEFINE found == {i \in DOMAIN activity : activity[i].cluster = c /\ activity[i].age < DownCooldown}
           n == Len(activity)
<1>1. /\ activity \in Seq(Scaling) /\ n \in Nat /\ DOMAIN activity = 1..n
      /\ info.age \in 0..Horizon
  BY LenProperties DEF Inv, RecordsOK, Info
<1>2. /\ CacheAge \in Nat /\ CacheAge <= Horizon /\ Horizon \in Nat /\ DownCooldown \in Nat
      /\ info.age \in Nat
  BY <1>1, Bounds, HorizonIsLongest
<1>3. n # 0 /\ activity[n].age = info.age
  <2>1. info.age < Horizon
    BY <1>2
  <2> QED
    BY <2>1 DEF Traced
<1>4. n \in DOMAIN activity
  BY <1>1, <1>3
<1>5. activity[n].cluster = c
  <2>1. activity[n] \in Scaling
    BY <1>1, <1>4, ElementOfSeq
  <2>2. activity[n].cluster \in Clusters
    BY <2>1 DEF Scaling
  <2> QED
    BY <2>2
<1>6. activity[n].age < DownCooldown
  BY <1>2, <1>3
<1>7. found # {} /\ found \in SUBSET Nat
  BY <1>1, <1>4, <1>5, <1>6
<1> DEFINE i == Min(found)
<1>8. i \in DOMAIN activity
  BY <1>7, MinIn
<1>9. activity[i].action # "no" \/ activity[i].pending # ""
  BY <1>8 DEF Traced
<1>10. GetScalingActivity(c, DownCooldown) =
         IF activity[i].action # "no" THEN [action |-> activity[i].action, pending |-> ""]
         ELSE [action |-> "no", pending |-> activity[i].pending]
  BY <1>7 DEF GetScalingActivity
<1> HIDE DEF i, found, n
<1> QED
  BY <1>9, <1>10, NotBlank

\* The instances of the one cluster, as ECS reports them, unless a record is recent.
LEMMA ClusterInfoFresh ==
  ASSUME Inv, \A c, d \in Clusters : c = d, NEW c \in Clusters, ~(info.age < CacheAge)
  PROVE  /\ ClusterInfo(c) = load
         /\ \A n \in DOMAIN load : WithMessage(load, n) = load
<1>1. load \in List /\ ClusterOf \in [Nodes -> Clusters]
  BY ScalingConstants DEF Inv, WorldOK
<1>2. DOMAIN load \subseteq Nodes /\ load \in [DOMAIN load -> Instance]
  BY <1>1, Lists
<1> DEFINE ns == {m \in Nodes : ClusterOf[m] = c /\ m \in DOMAIN load}
<1>3. ns = DOMAIN load
  BY <1>1, <1>2
<1>4. ClusterInfo(c) = [n \in ns |-> load[n]]
  BY DEF ClusterInfo
<1>5. ClusterInfo(c) = load
  BY <1>2, <1>3, <1>4
<1>6. ASSUME NEW n \in DOMAIN load PROVE WithMessage(load, n) = load
  <2> DEFINE i == [load[n] EXCEPT !.status = load[n].status]
  <2>1. load[n] \in Instance
    BY <1>2
  <2>2. i = load[n]
    BY <2>1 DEF Instance
  <2>3. WithMessage(load, n) = [m \in DOMAIN load \cup {n} |-> IF m = n THEN i ELSE load[m]]
    BY DEF WithMessage
  <2> HIDE DEF i
  <2>4. DOMAIN load \cup {n} = DOMAIN load
    OBVIOUS
  <2>5. WithMessage(load, n) = [m \in DOMAIN load |-> load[m]]
    BY <2>2, <2>3, <2>4
  <2> QED
    BY <1>2, <2>5
<1> QED
  BY <1>5, <1>6

\* A step that leaves the records, the load and the time alone, and lets one handler
\* take a reasoned step or none.
LEMMA FoundedKept ==
  ASSUME Founded, UNCHANGED <<load, info, activity, sinceSpare>>,
         \A h \in Handlers : handler'[h] = handler[h] \/ Reasoned(handler'[h])
  PROVE  Founded'
<1>1. Traced'
  BY DEF Founded, Traced
<1>2. \A h \in Handlers : Reasoned(handler[h])'
  BY DEF Founded, Reasoned
<1> QED
  BY <1>1, <1>2 DEF Founded

LEMMA HandlerMoves ==
  ASSUME Inv, NEW h \in Handlers, NEW r, handler' = [handler EXCEPT ![h] = r]
  PROVE  handler'[h] = r /\ \A k \in Handlers \ {h} : handler'[k] = handler[k]
  BY DEF Inv, HandlersOK

LEMMA IdleReasoned == Reasoned(IdleHandler)
  BY DEF Reasoned, IdleHandler

LEMMA ReceiveFounded ==
  ASSUME Inv, Founded, \A c, d \in Clusters : c = d, NEW h \in Handlers, NEW n \in Nodes,
         Receive(h, n)
  PROVE  Founded'
<1> DEFINE c == ClusterOf[n]
           l == WithMessage(ClusterInfo(c), n)
<1>1. c \in Clusters /\ handler[h] \in Handler
  BY ScalingConstants DEF Inv, HandlersOK
<1>2. PICK pc \in {"up", "down"} :
        /\ handler' = [handler EXCEPT ![h] = [@ EXCEPT !.pc = pc, !.cluster = c, !.list = l]]
        /\ pc = "down" => scaleDownDecision(c, l)
  BY DEF Receive
<1>3. n \in DOMAIN load
  BY DEF Receive
<1>4. ~(info.age < CacheAge) => l = load
  BY <1>1, <1>3, ClusterInfoFresh
<1>5. ~(info.age < CacheAge) /\ pc = "down" => sinceSpare[c] = 0
  BY <1>1, <1>2, <1>4 DEF Founded
<1> HIDE DEF c, l
<1> DEFINE r == [handler[h] EXCEPT !.pc = pc, !.cluster = c, !.list = l]
<1>6. r.pc = pc /\ r.cluster = c
  BY <1>1 DEF Handler
<1>7. handler' = [handler EXCEPT ![h] = r]
  BY <1>2
<1> HIDE DEF r
<1>8. Reasoned(r)
  BY <1>5, <1>6 DEF Reasoned
<1>9. UNCHANGED <<load, info, activity, sinceSpare>>
  BY DEF Receive, Records, HandlerOnly, World
<1> QED
  BY <1>7, <1>8, <1>9, HandlerMoves, FoundedKept

LEMMA ConsiderDownFounded ==
  ASSUME Inv, Founded, \A c, d \in Clusters : c = d, CacheAge <= DownCooldown,
         NEW h \in Handlers, ConsiderDown(h)
  PROVE  Founded'
<1>1. handler[h] \in Handler /\ handler[h].pc = "down" /\ handler[h].cluster \in Clusters
  BY DEF ConsiderDown, Inv, HandlersOK, HandlerOK
<1>2. UNCHANGED <<load, info, activity, sinceSpare>>
  BY DEF ConsiderDown, Records, HandlerOnly, World
<1> DEFINE r == [handler[h] EXCEPT !.pc = "put", !.pending = "down"]
<1>3. r.pc = "put" /\ r.cluster = handler[h].cluster
  BY <1>1 DEF Handler
<1>4. CASE /\ GetScalingActivity(handler[h].cluster, DownCooldown) = [action |-> "no", pending |-> ""]
           /\ handler' = [handler EXCEPT ![h] = r]
  <2>1. ~(info.age < CacheAge)
    BY <1>1, <1>4, RecentIsActive DEF Founded
  <2>2. sinceSpare[handler[h].cluster] = 0
    BY <1>1, <2>1 DEF Founded, Reasoned
  <2> HIDE DEF r
  <2>3. Reasoned(r)
    BY <1>3, <2>2 DEF Reasoned
  <2> QED
    BY <1>2, <1>4, <2>3, HandlerMoves, FoundedKept
<1>5. CASE handler' = [handler EXCEPT ![h] = IdleHandler]
  BY <1>2, <1>5, IdleReasoned, HandlerMoves, FoundedKept
<1> QED
  BY <1>4, <1>5 DEF ConsiderDown, Becomes

LEMMA ConsiderUpFounded ==
  ASSUME Inv, Founded, NEW h \in Handlers, ConsiderUp(h)
  PROVE  Founded'
<1>1. handler[h] \in Handler
  BY DEF Inv, HandlersOK
<1>2. UNCHANGED <<load, info, activity, sinceSpare>>
  BY DEF ConsiderUp, Records, HandlerOnly, World
<1> DEFINE r == [handler[h] EXCEPT !.pc = "put", !.pending = "up"]
           q == [handler[h] EXCEPT !.pc = "read", !.list = Empty]
<1>3. r.pc = "put" /\ r.pending = "up" /\ q.pc = "read"
  BY <1>1 DEF Handler
<1>4. \/ handler' = [handler EXCEPT ![h] = IdleHandler]
      \/ handler' = [handler EXCEPT ![h] = r]
      \/ handler' = [handler EXCEPT ![h] = q]
  BY DEF ConsiderUp, Becomes
<1> HIDE DEF r, q
<1>5. Reasoned(r) /\ Reasoned(q)
  BY <1>3 DEF Reasoned
<1> QED
  BY <1>2, <1>4, <1>5, IdleReasoned, HandlerMoves, FoundedKept

LEMMA CapacityFounded ==
  ASSUME Inv, Founded, NEW h \in Handlers, ReadCapacity(h) \/ SetCapacity(h)
  PROVE  Founded'
<1>1. handler[h] \in Handler
  BY DEF Inv, HandlersOK
<1>2. UNCHANGED <<load, info, activity, sinceSpare>>
  BY DEF ReadCapacity, SetCapacity, Records, HandlerOnly, World
<1> DEFINE r == [handler[h] EXCEPT !.pc = "set", !.desired = capacity[handler[h].cluster]]
<1>3. r.pc = "set"
  BY <1>1 DEF Handler
<1>4. \/ handler' = [handler EXCEPT ![h] = IdleHandler]
      \/ handler' = [handler EXCEPT ![h] = r]
  BY DEF ReadCapacity, SetCapacity, Becomes
<1> HIDE DEF r
<1>5. Reasoned(r)
  BY <1>3 DEF Reasoned
<1> QED
  BY <1>2, <1>4, <1>5, IdleReasoned, HandlerMoves, FoundedKept

\* A record just put is still in the cache.
LEMMA FirstMinute == 0 \in 0..Horizon /\ 0 < CacheAge
  BY HorizonIsLongest, Bounds

\* A record that is put is the newest, and one that asks for a removal has a reason.
LEMMA PutFounded ==
  ASSUME Inv, Founded, NEW l \in List, NEW c \in Clusters, NEW a \in Operation \cup {"no"},
         NEW p \in Operation \cup {""}, a # "no" \/ p # "", PutClusterInfo(l, c, a, p),
         p = "down" => \A d \in Clusters : sinceSpare[d] = 0,
         UNCHANGED <<load, sinceSpare>>,
         \A h \in Handlers : handler'[h] = handler[h] \/ handler'[h] = IdleHandler
  PROVE  Founded'
<1> DEFINE r == [cluster |-> c, action |-> a, pending |-> p, age |-> 0]
<1>1. info' = [list |-> l, pending |-> p, age |-> 0] /\ activity' = Append(activity, r)
  BY DEF PutClusterInfo
<1>2. 0 \in 0..Horizon /\ 0 < CacheAge
  BY FirstMinute
<1>3. r \in Scaling /\ r.action = a /\ r.pending = p /\ r.age = 0
  BY <1>2, ScalingRecord
<1> HIDE DEF r
<1>4. activity \in Seq(Scaling)
  BY DEF Inv, RecordsOK
<1>5. /\ Len(activity') # 0 /\ activity'[Len(activity')] = r
      /\ \A i \in DOMAIN activity' :
           activity'[i] = r \/ (i \in DOMAIN activity /\ activity'[i] = activity[i])
  BY <1>1, <1>3, <1>4, Appended
<1>6. \A i \in DOMAIN activity' : activity'[i].action # "no" \/ activity'[i].pending # ""
  BY <1>3, <1>5 DEF Founded, Traced
<1>7. Traced'
  BY <1>1, <1>3, <1>5, <1>6 DEF Traced
<1>8. \A h \in Handlers : Reasoned(handler[h])'
  <2>1. info'.age < CacheAge
    BY <1>1, <1>2
  <2> QED
    BY <2>1, IdleReasoned DEF Founded, Reasoned, IdleHandler
<1>9. info'.pending = "down" => \A d \in Clusters : sinceSpare'[d] <= info'.age
  BY <1>1
<1> QED
  BY <1>7, <1>8, <1>9 DEF Founded

LEMMA PutPendingFounded ==
  ASSUME Inv, Founded, \A c, d \in Clusters : c = d, NEW h \in Handlers, handler[h].pc = "put",
         PutClusterInfo(handler[h].list, handler[h].cluster, "no", handler[h].pending),
         Becomes(h, "idle"), World
  PROVE  Founded'
<1>1. handler[h].cluster \in Clusters /\ handler[h].pending \in Operation /\ handler[h].list \in List
  BY HandlerFields DEF Inv, HandlersOK, HandlerOK
<1>2. handler[h].pending = "down" => \A d \in Clusters : sinceSpare[d] = 0
  BY <1>1 DEF Founded, Reasoned
<1>3. handler' = [handler EXCEPT ![h] = IdleHandler] /\ UNCHANGED <<load, sinceSpare>>
  BY DEF Becomes, World
<1>4. \A k \in Handlers : handler'[k] = handler[k] \/ handler'[k] = IdleHandler
  BY <1>3, HandlerMoves
<1> QED
  BY <1>1, <1>2, <1>3, <1>4, PutFounded DEF Operation

LEMMA HandlerFailsFounded ==
  ASSUME Inv, Founded, \A c, d \in Clusters : c = d, NEW h \in Handlers, HandlerFails(h)
  PROVE  Founded'
<1>1. World /\ Becomes(h, "idle")
  BY DEF HandlerFails, HandlerOnly
<1>2. CASE Records
  <2>1. handler' = [handler EXCEPT ![h] = IdleHandler]
        /\ UNCHANGED <<load, info, activity, sinceSpare>>
    BY <1>1, <1>2 DEF Becomes, World, Records
  <2> QED
    BY <2>1, IdleReasoned, HandlerMoves, FoundedKept
<1>3. handler[h].pc # "marked"
  BY DEF Founded, Reasoned
<1>4. CASE ~Records
  <2>1. /\ handler[h].pc = "put"
        /\ PutClusterInfo(handler[h].list, handler[h].cluster, "no", handler[h].pending)
    BY <1>3, <1>4 DEF HandlerFails
  <2> QED
    BY <1>1, <2>1, PutPendingFounded
<1> QED
  BY <1>2, <1>4

LEMMA DoneFounded ==
  ASSUME Inv, Founded, NEW g \in Goroutines, op[g].pc = "put",
         PutClusterInfo(op[g].list, op[g].cluster, op[g].op, ""), OpOnly
  PROVE  Founded'
<1>1. op[g].cluster \in Clusters /\ op[g].op \in Operation /\ op[g].list \in List
  BY Working
<1>2. UNCHANGED <<load, sinceSpare, handler>> /\ "no" \notin Operation
  BY DEF OpOnly, World, Operation
<1> QED
  BY <1>1, <1>2, PutFounded

\* An interval has one end.
LEMMA SameEnd ==
  ASSUME NEW a \in Nat, NEW b \in Nat \ {0}, 1..a = 1..b
  PROVE  a = b
<1>1. b \in 1..a
  BY b \in 1..b
<1>2. a >= 1
  BY <1>1
<1>3. a \in 1..b
  BY <1>2, a \in 1..a
<1> QED
  BY <1>1, <1>3

\* A minute: the newest record ages as the reason does.
LEMMA TickFounded ==
  ASSUME Inv, Founded, Tick
  PROVE  Founded'
<1> DEFINE n == Cardinality(TooOld)  m == Len(activity)
<1>1. /\ activity \in Seq(Scaling) /\ info \in Info /\ RecordsOK
      /\ sinceSpare \in [Clusters -> 0..Long]
  BY DEF Inv, RecordsOK, WorldOK
<1>2. /\ m \in Nat /\ n \in Nat /\ DOMAIN activity = 1..m
      /\ \A i \in 1..(m - n) : i + n \in 1..m
  BY <1>1, Remaining, LenProperties
<1>3. activity' = [i \in 1..(m - n) |-> [activity[i + n] EXCEPT !.age = Older(@)]]
  BY DEF Tick
<1>4. info'.age = Older(info.age) /\ info'.pending = info.pending /\ info.age \in 0..Horizon
  BY <1>1 DEF Tick, Info
<1>5. /\ info'.age < Horizon => info.age < Horizon /\ info'.age = info.age + 1
      /\ info'.age \in Nat /\ info.age \in Nat
  BY <1>4, OlderIsOlder, HorizonIsLongest
<1>6. ASSUME NEW i \in 1..(m - n)
      PROVE  /\ activity'[i].action = activity[i + n].action
             /\ activity'[i].pending = activity[i + n].pending
             /\ activity'[i].age = Older(activity[i + n].age)
  <2> DEFINE e == activity[i + n]
  <2>1. e \in Scaling
    BY <1>1, <1>2, ElementOfSeq
  <2>2. activity'[i] = [e EXCEPT !.age = Older(e.age)]
    BY <1>3
  <2> HIDE DEF e
  <2>3. /\ activity'[i].action = e.action /\ activity'[i].pending = e.pending
        /\ activity'[i].age = Older(e.age)
    BY <2>1, <2>2 DEF Scaling
  <2> QED
    BY <2>3 DEF e
<1>7. DOMAIN activity' = 1..(m - n)
  BY <1>3
<1>8. \A i \in DOMAIN activity' : activity'[i].action # "no" \/ activity'[i].pending # ""
  BY <1>2, <1>6, <1>7 DEF Founded, Traced
<1>9. ASSUME info'.age < Horizon
      PROVE  Len(activity') # 0 /\ activity'[Len(activity')].age = info'.age
  <2>1. m # 0 /\ activity[m].age = info.age /\ info.age + 1 < Horizon
    BY <1>5, <1>9 DEF Founded, Traced
  <2>2. m \notin TooOld
    <3>1. ~(activity[m].age + 1 >= Horizon)
      BY <1>5, <2>1, HorizonIsLongest
    <3> QED
      BY <3>1 DEF TooOld
  <2>3. TooOld \subseteq 1..(m - 1)
    <3>1. TooOld \subseteq (1..m) \ {m}
      BY <1>2, <2>2 DEF TooOld
    <3> HIDE DEF m
    <3> QED
      BY <1>2, <3>1
  <2>4. n <= m - 1
    <3>1. m - 1 \in Int /\ m - 1 >= 0
      BY <1>2, <2>1
    <3>2. IsFiniteSet(1..(m - 1)) /\ Cardinality(1..(m - 1)) = m - 1
      BY <3>1, FS_Interval
    <3> QED
      BY <2>3, <3>2, FS_Subset
  <2>5. m - n \in Nat \ {0} /\ m - n \in 1..(m - n) /\ (m - n) + n = m
    BY <1>2, <2>4
  <2>6. Len(activity') = m - n
    <3>1. activity' \in Seq(Scaling)
      BY NextInv DEF Next, Inv, RecordsOK
    <3>2. Len(activity') \in Nat /\ DOMAIN activity' = 1..Len(activity')
      BY <3>1, LenProperties
    <3> DEFINE k == m - n
    <3>3. k \in Nat \ {0} /\ 1..Len(activity') = 1..k
      BY <1>7, <2>5, <3>2
    <3> HIDE DEF k
    <3>4. Len(activity') = k
      BY <3>2, <3>3, SameEnd
    <3> QED
      BY <3>4 DEF k
  <2>7. activity'[m - n].age = Older(activity[m].age)
    BY <1>6, <2>5
  <2> QED
    BY <1>4, <2>1, <2>5, <2>6, <2>7
<1>10. Traced'
  BY <1>8, <1>9 DEF Traced
<1>11. \A h \in Handlers : Reasoned(handler[h])'
  BY DEF Tick, Quiet, Reasoned
<1>12. ASSUME NEW c \in Clusters, scaleDownDecision(c, load') PROVE sinceSpare'[c] = 0
  BY <1>12 DEF Tick, Spares
<1>13. ASSUME info'.pending = "down", info'.age < CacheAge, NEW c \in Clusters
       PROVE  sinceSpare'[c] <= info'.age
  <2>1. CacheAge <= Horizon /\ CacheAge \in Nat /\ Horizon \in Nat /\ Long \in Nat
    BY Bounds, HorizonIsLongest DEF Long
  <2>2. info'.age < Horizon
    BY <1>5, <1>13, <2>1
  <2>3. info'.age = info.age + 1 /\ info.age < CacheAge
    BY <1>5, <1>13, <2>1, <2>2
  <2>4. sinceSpare[c] <= info.age /\ sinceSpare[c] \in Nat
    BY <1>1, <1>4, <1>13, <2>1, <2>3 DEF Founded
  <2>5. sinceSpare'[c] = 0 \/ sinceSpare'[c] = Min({sinceSpare[c] + 1, Long})
    BY DEF Tick
  <2>6. Min({sinceSpare[c] + 1, Long}) = IF sinceSpare[c] + 1 <= Long THEN sinceSpare[c] + 1 ELSE Long
    BY <2>1, <2>4, MinOfTwo
  <2> HIDE DEF Long
  <2>7. Min({sinceSpare[c] + 1, Long}) <= sinceSpare[c] + 1
    BY <2>1, <2>4, <2>6
  <2> QED
    BY <1>5, <2>1, <2>3, <2>4, <2>5, <2>6, <2>7
<1> QED
  BY <1>10, <1>11, <1>12, <1>13 DEF Founded

LEMMA NextFounded ==
  ASSUME Inv, Founded, \A c, d \in Clusters : c = d, CacheAge <= DownCooldown,
         [Next]_vars, drains = 0, crashes = 0, drains' = 0, crashes' = 0
  PROVE  Founded'
<1>1. ASSUME UNCHANGED <<load, info, activity, sinceSpare, handler>> PROVE Founded'
  BY <1>1, FoundedKept
<1>2. ASSUME NEW h \in Handlers, Handle(h) PROVE Founded'
  <2>1. CASE PutPending(h)
    BY <2>1, PutPendingFounded DEF PutPending
  <2>2. ASSUME NEW n \in Nodes, Drain(h, n) PROVE FALSE
    <3>1. drains' = drains + 1
      BY <2>2 DEF Drain
    <3> QED
      BY <3>1
  <2>3. ~ReadMark(h) /\ ~PutMark(h)
    BY DEF ReadMark, PutMark, Founded, Reasoned
  <2> QED
    BY <1>2, <2>1, <2>2, <2>3, ReceiveFounded, ConsiderUpFounded, ConsiderDownFounded,
       CapacityFounded DEF Handle
<1>3. ASSUME NEW g \in Goroutines, Lock(g) \/ Work(g) \/ OpFails(g) PROVE Founded'
  <2>1. OpOnly
    BY <1>3 DEF Lock, Work, Check, ReadDesired, SetDesired, PutDone, OpFails
  <2>2. CASE Records
    BY <1>1, <2>1, <2>2 DEF OpOnly, World, Records
  <2>3. CASE ~Records
    <3>1. op[g].pc = "put" /\ PutClusterInfo(op[g].list, op[g].cluster, op[g].op, "")
      BY <1>3, <2>3 DEF Lock, Work, Check, ReadDesired, SetDesired, PutDone, OpFails
    <3> QED
      BY <2>1, <3>1, DoneFounded
  <2> QED
    BY <2>2, <2>3
<1>4. ~Crash /\ ~Resume
  <2>1. Crash => crashes' = crashes + 1
    BY DEF Crash
  <2>2. ~Crash
    BY <2>1
  <2>3. up
    BY DEF Inv, ServerOK
  <2> QED
    BY <2>2, <2>3 DEF Resume
<1>5. ASSUME NEW h \in Handlers, HandlerFails(h) PROVE Founded'
  BY <1>5, HandlerFailsFounded
<1>6. CASE UNCHANGED vars
  BY <1>1, <1>6 DEF vars
<1> QED
  BY <1>2, <1>3, <1>4, <1>5, <1>6, TickFounded DEF Next

\* A goroutine resolves to scale in its check.
LEMMA Resolves ==
  ASSUME Inv, [Next]_vars, NEW g \in Goroutines, op[g].pc = "check", op'[g].pc = "read"
  PROVE  Check(g)
<1>1. op[g] \in Op /\ op \in [Goroutines -> Op] /\ up
  BY DEF Inv, OpsOK, ServerOK, Stopped
<1>2. op'[g] # op[g] /\ op'[g] # NoOp
  BY Constructed
<1>3. ASSUME NEW h \in Handlers, Handle(h) \/ HandlerFails(h) PROVE FALSE
  <2>1. ASSUME NEW k \in Slots, op[k].pc = "none", NEW r, op' = [op EXCEPT ![k] = r]
        PROVE  op'[g] = op[g]
    BY <1>1, <2>1
  <2>2. UNCHANGED op \/ PutPending(h)
    BY <1>3 DEF Handle, Receive, ConsiderUp, ConsiderDown, ReadCapacity, SetCapacity, Drain,
       ReadMark, PutMark, HandlerFails, HandlerOnly
  <2> QED
    BY <1>2, <2>1, <2>2 DEF PutPending
<1>4. ASSUME NEW k \in Goroutines \ {g}, Lock(k) \/ Work(k) \/ OpFails(k) PROVE FALSE
  <2>1. op'[g] = op[g]
    BY <1>1, <1>4 DEF Lock, Goes, Work, Check, ReadDesired, SetDesired, PutDone, OpFails, Ends
  <2> QED
    BY <1>2, <2>1
<1>5. ASSUME Lock(g) \/ ReadDesired(g) \/ SetDesired(g) \/ PutDone(g) PROVE FALSE
  BY <1>5 DEF Lock, ReadDesired, SetDesired, Apply, PutDone
<1>6. ASSUME OpFails(g) PROVE FALSE
  <2>1. op'[g] = NoOp
    BY <1>1, <1>6 DEF OpFails, Ends
  <2> QED
    BY <1>2, <2>1
<1>7. ~Crash
  BY <1>2 DEF Crash
<1>8. ~Resume
  BY <1>1 DEF Resume
<1>9. ~Tick /\ ~UNCHANGED vars
  BY <1>2 DEF Tick, Quiet, vars
<1> QED
  BY <1>3, <1>4, <1>5, <1>6, <1>7, <1>8, <1>9 DEF Next, Work

\* launchProcessPendingScalingOp: with one cluster, and a cooldown that outlasts the
\* cache, a goroutine resolves to remove an instance only if ECS has reported one to
\* spare since the cache age, however many messages are handled at once and whatever
\* calls fail, as long as no instance is marked as draining.
THEOREM RemovalsFounded ==
  ASSUME \A c, d \in Clusters : c = d, CacheAge <= DownCooldown
  PROVE  Spec /\ [](drains = 0 /\ crashes = 0) => DownWhenSpare
<1>1. Init => Founded
  <2> SUFFICES ASSUME Init PROVE Founded
    OBVIOUS
  <2>1. activity = <<>> /\ info.age = Horizon /\ Horizon \in Nat /\ info.pending = ""
    BY HorizonIsLongest DEF Init, NoInfo
  <2>2. Traced
    <3>1. DOMAIN activity = {}
      BY <2>1, Empties
    <3>2. ~(Horizon < Horizon)
      BY HorizonIsLongest
    <3> QED
      BY <2>1, <3>1, <3>2 DEF Traced
  <2>3. \A h \in Handlers : Reasoned(handler[h])
    BY IdleReasoned DEF Init
  <2>4. \A c \in Clusters : scaleDownDecision(c, load) => sinceSpare[c] = 0
    BY DEF Init, Spares
  <2> QED
    BY <2>1, <2>2, <2>3, <2>4 DEF Founded
<1>2. Inv /\ Founded /\ [Next]_vars /\ (drains = 0 /\ crashes = 0) /\ (drains = 0 /\ crashes = 0)'
        => Founded'
  BY NextFounded
<1>3. ASSUME Inv, Founded, [Next]_vars
      PROVE  [\A g \in Goroutines :
               op[g].pc = "check" /\ op'[g].pc = "read" /\ op[g].op = "down"
               => sinceSpare[op[g].cluster] <= CacheAge]_vars
  <2> SUFFICES ASSUME NEW g \in Goroutines, op[g].pc = "check", op'[g].pc = "read", op[g].op = "down"
               PROVE  sinceSpare[op[g].cluster] <= CacheAge
    OBVIOUS
  <2> DEFINE c == op[g].cluster
  <2>1. Check(g) /\ c \in Clusters
    BY <1>3, Resolves, Working
  <2>2. info.pending = "down" /\ scaleDownDecision(c, ClusterInfo(c))
    <3>1. ~Ends(g)
      BY <1>3, Constructed DEF Ends, Inv, OpsOK
    <3> QED
      BY <2>1, <3>1 DEF Check, Aborts
  <2>3. CacheAge \in Nat /\ sinceSpare[c] \in 0..Long /\ info.age \in 0..Horizon /\ Horizon \in Nat
    BY <1>3, <2>1, Bounds, HorizonIsLongest DEF Inv, WorldOK, RecordsOK, Info
  <2>4. CASE info.age < CacheAge
    <3>1. sinceSpare[c] <= info.age
      BY <1>3, <2>1, <2>2, <2>4 DEF Founded
    <3>2. Long \in Nat
      BY Bounds DEF Long
    <3> DEFINE n == sinceSpare[c]
    <3>3. n \in Nat /\ info.age \in Nat
      BY <2>3, <3>2
    <3> HIDE DEF n
    <3>4. n <= info.age => n <= CacheAge
      BY <2>3, <2>4, <3>3
    <3> QED
      BY <3>1, <3>4 DEF n
  <2>5. CASE ~(info.age < CacheAge)
    <3>1. sinceSpare[c] = 0
      BY <1>3, <2>1, <2>2, <2>5, ClusterInfoFresh DEF Founded
    <3> QED
      BY <2>3, <3>1
  <2> QED
    BY <2>4, <2>5
<1> QED
  BY <1>1, <1>2, <1>3, Invariance, PTL DEF Spec, DownWhenSpare
=============================================================================
