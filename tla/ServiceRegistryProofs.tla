----------------------- MODULE ServiceRegistryProofs -----------------------
(***************************************************************************)
(* Proofs about ServiceRegistry, for any requests, services and servers,   *)
(* any number of crashes and failing calls.                                *)
(***************************************************************************)
EXTENDS ServiceRegistry, TLAPS

-----------------------------------------------------------------------------
(* The item                                                                *)

\* An entry found by name and cluster is an entry.
LEMMA FoundEntry ==
  ASSUME NEW copy \in Item, NEW v \in Services, NEW c \in Clusters, Found(copy, v, c)
  PROVE  copy.entries[v] \in Entry
<1>1. copy.entries[v] \in Entry \cup {NoEntry}
  BY DEF Item
<1>2. NoEntry.cluster \notin Clusters
  BY DataAssumption DEF NoEntry
<1> QED
  BY <1>1, <1>2 DEF Found

LEMMA ItemTypes ==
  /\ NoItem \in Item /\ FirstItem \in Item
  BY DEF NoItem, FirstItem, Item, Empty

LEMMA BumpedType ==
  ASSUME NEW copy \in Item
  PROVE  /\ Bumped(copy) \in Item
         /\ Bumped(copy).version = copy.version + 1
         /\ Bumped(copy).present = copy.present
         /\ Bumped(copy).entries = copy.entries
<1>1. Bumped(copy) \in Item
  <2>1. copy.version \in Nat
    BY DEF Item
  <2>2. copy.version + 1 \in Nat
    BY <2>1
  <2> QED
    BY <2>2 DEF Bumped, Item
<1>2. Bumped(copy).version = copy.version + 1
  BY DEF Bumped, Item
<1>3. Bumped(copy).present = copy.present /\ Bumped(copy).entries = copy.entries
  BY DEF Bumped, Item
<1> QED
  BY <1>1, <1>2, <1>3

\* A changed copy: the next version, with another entry of v.
OneEntry(copy, v, changed) ==
  /\ changed.present = copy.present
  /\ changed.version = copy.version + 1
  /\ \E entry \in Entry : changed.entries = [copy.entries EXCEPT ![v] = entry]

\* CreateService writes one entry.
LEMMA RegisteredType ==
  ASSUME NEW copy \in Item, NEW v \in Services, NEW entry \in Entry
  PROVE  /\ Registered(copy, v, entry) \in Item
         /\ OneEntry(copy, v, Registered(copy, v, entry))
<1>1. /\ Registered(copy, v, entry) \in Item
      /\ Registered(copy, v, entry).version = copy.version + 1
      /\ Registered(copy, v, entry).present = copy.present
      /\ Registered(copy, v, entry).entries = [copy.entries EXCEPT ![v] = entry]
  BY BumpedType DEF Registered, Item
<1> QED
  BY <1>1 DEF OneEntry

\* So does UpdateServiceLimits, of an entry it has found.
LEMMA WithLimitsType ==
  ASSUME NEW copy \in Item, NEW v \in Services, NEW c \in Clusters, Found(copy, v, c),
         NEW limits \in Limits
  PROVE  /\ WithLimits(copy, v, limits) \in Item
         /\ OneEntry(copy, v, WithLimits(copy, v, limits))
<1> DEFINE entry == [copy.entries[v] EXCEPT !.limits = limits]
<1>1. copy.entries \in [Services -> Entry \cup {NoEntry}]
  BY DEF Item
<1>2. entry \in Entry
  BY FoundEntry DEF Entry
<1>3. WithLimits(copy, v, limits) = [Bumped(copy) EXCEPT !.entries = [copy.entries EXCEPT ![v] = entry]]
  BY <1>1, BumpedType DEF WithLimits, Item
<1>4. [copy.entries EXCEPT ![v] = entry] \in [Services -> Entry \cup {NoEntry}]
  BY <1>1, <1>2
<1> HIDE DEF entry
<1>5. WithLimits(copy, v, limits) \in Item
  BY <1>3, <1>4, BumpedType DEF Item
<1>6. /\ WithLimits(copy, v, limits).version = copy.version + 1
      /\ WithLimits(copy, v, limits).present = copy.present
  BY <1>3, BumpedType DEF Item
<1>7. WithLimits(copy, v, limits).entries = [copy.entries EXCEPT ![v] = entry]
  BY <1>3, BumpedType DEF Item
<1> QED
  BY <1>2, <1>5, <1>6, <1>7 DEF OneEntry

\* And UpdateServiceListeners.
LEMMA WithListenersType ==
  ASSUME NEW copy \in Item, NEW v \in Services, NEW c \in Clusters, Found(copy, v, c),
         NEW b \in Balancers
  PROVE  /\ WithListeners(copy, v, b) \in Item
         /\ OneEntry(copy, v, WithListeners(copy, v, b))
<1> DEFINE entry == [copy.entries[v] EXCEPT !.listeners = b]
<1>1. copy.entries \in [Services -> Entry \cup {NoEntry}]
  BY DEF Item
<1>2. entry \in Entry
  BY FoundEntry DEF Entry
<1>3. WithListeners(copy, v, b) = [Bumped(copy) EXCEPT !.entries = [copy.entries EXCEPT ![v] = entry]]
  BY <1>1, BumpedType DEF WithListeners, Item
<1>4. [copy.entries EXCEPT ![v] = entry] \in [Services -> Entry \cup {NoEntry}]
  BY <1>1, <1>2
<1> HIDE DEF entry
<1>5. WithListeners(copy, v, b) \in Item
  BY <1>3, <1>4, BumpedType DEF Item
<1>6. /\ WithListeners(copy, v, b).version = copy.version + 1
      /\ WithListeners(copy, v, b).present = copy.present
  BY <1>3, BumpedType DEF Item
<1>7. WithListeners(copy, v, b).entries = [copy.entries EXCEPT ![v] = entry]
  BY <1>3, BumpedType DEF Item
<1> QED
  BY <1>2, <1>5, <1>6, <1>7 DEF OneEntry

\* SetApiVersion keeps the entries.
LEMMA WithApiType ==
  ASSUME NEW copy \in Item
  PROVE  LET new == [Bumped(copy) EXCEPT !.api = "current"]
         IN /\ new \in Item
            /\ new.version = copy.version + 1
            /\ new.present = copy.present
            /\ new.entries = copy.entries
  BY BumpedType DEF Item

\* The deploy data of a request.
LEMMA DataTypes ==
  ASSUME NEW r \in Requests
  PROVE  /\ ServiceOf[r] \in Services
         /\ ClusterOf[r] \in Clusters /\ LimitsOf[r] \in Limits /\ BalancerOf[r] \in Balancers
         /\ NewEntry(r) \in Entry
  BY DataAssumption DEF NewEntry, Entry

-----------------------------------------------------------------------------
(* Steps of a handler and of a starting server                             *)

LEMMA StateTypes ==
  /\ IdleHandler \in Handler
  /\ Down \in Starter /\ Resumes \in Starter /\ Up \in Starter /\ OnMissing \in Starter
  BY ItemTypes, BoundsAssumption
  DEF IdleHandler, Handler, HandlerPc, Down, Resumes, Up, OnMissing, Starter, StarterPc

LEMMA NextPcTypes ==
  ASSUME NEW r \in Requests
  PROVE  /\ AfterListeners(r) \in {"limitsRead", "new"}
         /\ AfterRegistration(r) \in {"listenersRead", "limitsRead", "new"}
  BY DEF AfterListeners, AfterRegistration

\* Pcs at which a handler holds no copy of the item.
NoCopyPc == {"listenersRead", "limitsRead", "read", "new", "done", "error"}

\* What Go leaves behind: a handler of the right type at pc, without a copy.
LEMMA GoType ==
  ASSUME TypeOK, NEW r \in Requests, NEW pc \in NoCopyPc, Go(r, pc)
  PROVE  /\ handler' \in [Requests -> Handler]
         /\ handler'[r].pc = pc /\ handler'[r].copy = NoItem
         /\ \A q \in Requests \ {r} : handler'[q] = handler[q]
<1>1. handler[r] \in Handler
  BY DEF TypeOK
<1>0. pc \in HandlerPc /\ 0 \in 0..Attempts
  BY BoundsAssumption DEF HandlerPc, NoCopyPc
<1>2. /\ [IdleHandler EXCEPT !.pc = pc] \in Handler
      /\ [handler[r] EXCEPT !.pc = pc, !.copy = NoItem, !.tries = 0] \in Handler
  BY <1>0, <1>1, StateTypes, ItemTypes DEF Handler
<1>3. [IdleHandler EXCEPT !.pc = pc].copy = NoItem
  BY DEF IdleHandler
<1>4. /\ [IdleHandler EXCEPT !.pc = pc].pc = pc
      /\ [handler[r] EXCEPT !.pc = pc, !.copy = NoItem, !.tries = 0].pc = pc
      /\ [handler[r] EXCEPT !.pc = pc, !.copy = NoItem, !.tries = 0].copy = NoItem
  BY <1>1, StateTypes DEF Handler
<1> QED
  BY <1>2, <1>3, <1>4 DEF Go, Becomes, TypeOK

\* A handler that becomes h.
LEMMA BecomesType ==
  ASSUME TypeOK, NEW r \in Requests, NEW h \in Handler, Becomes(r, h)
  PROVE  /\ handler' \in [Requests -> Handler]
         /\ handler'[r] = h
         /\ \A q \in Requests \ {r} : handler'[q] = handler[q]
  BY DEF Becomes, TypeOK

\* A server that becomes st.
LEMMA StartsType ==
  ASSUME TypeOK, NEW s \in Servers, NEW st \in Starter, Starts(s, st)
  PROVE  /\ starter' \in [Servers -> Starter]
         /\ starter'[s] = st
         /\ \A t \in Servers \ {s} : starter'[t] = starter[t]
  BY DEF Starts, TypeOK

LEMMA AtType ==
  ASSUME TypeOK, NEW s \in Servers, NEW pc \in StarterPc, At(s, pc)
  PROVE  /\ starter' \in [Servers -> Starter]
         /\ starter'[s].pc = pc /\ starter'[s].copy = starter[s].copy
         /\ \A t \in Servers \ {s} : starter'[t] = starter[t]
<1>1. starter[s] \in Starter
  BY DEF TypeOK
<1>2. /\ [starter[s] EXCEPT !.pc = pc] \in Starter
      /\ [starter[s] EXCEPT !.pc = pc].pc = pc
      /\ [starter[s] EXCEPT !.pc = pc].copy = starter[s].copy
  BY <1>1 DEF Starter
<1> QED
  BY <1>2 DEF At, Starts, TypeOK

LEMMA NextOneType ==
  ASSUME TypeOK, NEW s \in Servers
  PROVE  NextOne(s) \in Starter /\ NextOne(s).pc = "last" /\ NextOne(s).copy = NoItem
  BY StateTypes DEF NextOne, Starter, StarterPc, Down, TypeOK

LEMMA FaultType ==
  ASSUME TypeOK, Fault
  PROVE  faults' \in Nat
  BY DEF TypeOK, Fault

-----------------------------------------------------------------------------
(* Type correctness                                                        *)

\* A step of one handler keeps the invariant if its own state does.
LEMMA HandlerMoves ==
  ASSUME TInv, NEW r \in Requests,
         handler' \in [Requests -> Handler],
         \A q \in Requests \ {r} : handler'[q] = handler[q],
         handler'[r].pc = "put" => handler'[r].tries < Attempts,
         handler'[r].pc \in {"listenersPut", "limitsPut"} =>
           Found(handler'[r].copy, ServiceOf[r], ClusterOf[r]),
         item' \in Item, last' \in [Services -> Requests \cup {None}],
         running' \subseteq Clusters \X Services, faults' \in Nat,
         HandlerOnly
  PROVE  TInv'
<1>1. TypeOK'
  BY DEF TInv, TypeOK, HandlerOnly
<1>2. Prepared'
  BY DEF TInv, Prepared, HandlerOnly, Found
<1> QED
  BY <1>1, <1>2 DEF TInv

\* A step that drops the copy.
LEMMA GoMoves ==
  ASSUME TInv, NEW r \in Requests, NEW pc \in NoCopyPc, Go(r, pc),
         item' \in Item, last' \in [Services -> Requests \cup {None}],
         running' \subseteq Clusters \X Services, faults' \in Nat,
         HandlerOnly
  PROVE  TInv'
<1>1. /\ handler' \in [Requests -> Handler]
      /\ handler'[r].pc = pc
      /\ \A q \in Requests \ {r} : handler'[q] = handler[q]
  BY GoType DEF TInv
<1>2. handler'[r].pc \notin {"put", "listenersPut", "limitsPut"}
  BY <1>1 DEF NoCopyPc
<1> QED
  BY <1>1, <1>2, HandlerMoves

\* A step of one starting server keeps it if its own state does.
LEMMA StarterMoves ==
  ASSUME TInv, NEW s \in Servers,
         starter' \in [Servers -> Starter],
         \A t \in Servers \ {s} : starter'[t] = starter[t],
         starter'[s].pc \in {"read", "put"} =>
           starter'[s].cur \in Listed /\ starter'[s].limits \in Limits,
         starter'[s].pc = "put" =>
           Found(starter'[s].copy, starter'[s].cur.name, starter'[s].cur.cluster),
         item' \in Item, faults' \in Nat, StarterOnly
  PROVE  TInv'
<1>1. TypeOK'
  BY DEF TInv, TypeOK, StarterOnly
<1>2. Prepared'
  BY DEF TInv, Prepared, StarterOnly, Found
<1> QED
  BY <1>1, <1>2 DEF TInv

\* One that holds no service.
LEMMA IdleMoves ==
  ASSUME TInv, NEW s \in Servers, NEW st \in Starter, Starts(s, st),
         st.pc \notin {"read", "put"},
         item' \in Item, faults' \in Nat, StarterOnly
  PROVE  TInv'
<1>1. /\ starter' \in [Servers -> Starter]
      /\ starter'[s] = st
      /\ \A t \in Servers \ {s} : starter'[t] = starter[t]
  BY StartsType DEF TInv
<1> QED
  BY <1>1, StarterMoves

\* What the table and the deployment rows hold when the servers start.
LEMMA FirstItems ==
  ASSUME NEW database \in Databases
  PROVE  /\ FirstItemOf(database) \in Item
         /\ Before(database) \subseteq Requests
         /\ \A v \in Services : DeployedOf(v, database) # {} =>
              LastOf(v, database) \in DeployedOf(v, database) /\ LastOf(v, database) \in Requests
<1>1. Before(database) \subseteq Requests
  BY DatabaseAssumption DEF Before
<1>2. ASSUME NEW v \in Services, DeployedOf(v, database) # {}
      PROVE  LastOf(v, database) \in DeployedOf(v, database) /\ LastOf(v, database) \in Requests
  BY <1>1, <1>2 DEF LastOf, DeployedOf
<1>3. OldEntries(database) \in [Services -> Entry \cup {NoEntry}]
  <2>1. ASSUME NEW v \in Services, DeployedOf(v, database) # {}
        PROVE  OldEntry(LastOf(v, database), database) \in Entry
    BY <1>2, <2>1, DataTypes DEF OldEntry, Entry
  <2> QED
    BY <2>1 DEF OldEntries
<1>4. FirstItemOf(database) \in Item
  <2>1. database \in {"absent", "old", "current"}
    BY DatabaseAssumption
  <2>2. /\ [FirstItem EXCEPT !.entries = OldEntries(database)] \in Item
        /\ [FirstItem EXCEPT !.api = "", !.entries = OldEntries(database)] \in Item
    BY <1>3 DEF Item, FirstItem
  <2> QED
    BY <2>1, <2>2, ItemTypes DEF FirstItemOf
<1> QED
  BY <1>1, <1>2, <1>4

LEMMA InitType == Init => TInv
<1> SUFFICES ASSUME Init PROVE TInv
  OBVIOUS
<1>1. PICK database \in Databases :
        /\ item = FirstItemOf(database)
        /\ last = [v \in Services |->
             IF DeployedOf(v, database) = {} THEN None ELSE LastOf(v, database)]
        /\ running = {<<ClusterOf[r], ServiceOf[r]>> : r \in Before(database)}
        /\ handler = [r \in Requests |->
             IF r \in Before(database) THEN [IdleHandler EXCEPT !.pc = "done"] ELSE IdleHandler]
  BY DEF Init
<1>2. item \in Item
  BY <1>1, FirstItems
<1>3. last \in [Services -> Requests \cup {None}]
  BY <1>1, FirstItems
<1>4. running \subseteq Clusters \X Services
  BY <1>1, FirstItems, DataTypes
<1>5. [IdleHandler EXCEPT !.pc = "done"] \in Handler /\ [IdleHandler EXCEPT !.pc = "done"].pc = "done"
  BY StateTypes DEF Handler, HandlerPc
<1>6. handler \in [Requests -> Handler] /\ \A r \in Requests : handler[r].pc \in {"idle", "done"}
  BY <1>5, StateTypes DEF Init, IdleHandler
<1>7. starter \in [Servers -> Starter] /\ \A s \in Servers : starter[s].pc = "down"
  BY StateTypes DEF Init, Down
<1>8. TypeOK
  BY <1>2, <1>3, <1>4, <1>6, <1>7 DEF Init, TypeOK
<1>9. Prepared
  BY <1>6, <1>7 DEF Prepared
<1> QED
  BY <1>8, <1>9 DEF TInv

\* Steps of the handlers.
LEMMA HandleType ==
  ASSUME TInv, NEW r \in Requests, Handle(r) \/ HandlerFails(r)
  PROVE  TInv'
<1> DEFINE h == handler[r]
<1>0. TypeOK
  BY DEF TInv
<1>1. /\ h \in Handler
      /\ item \in Item /\ last \in [Services -> Requests \cup {None}]
      /\ running \subseteq Clusters \X Services /\ faults \in Nat
      /\ h.copy \in Item /\ h.tries \in 0..Attempts
  BY DEF TInv, TypeOK, Handler
<1>2. /\ ServiceOf[r] \in Services /\ ClusterOf[r] \in Clusters
      /\ LimitsOf[r] \in Limits /\ BalancerOf[r] \in Balancers /\ NewEntry(r) \in Entry
  BY DataTypes
<1>3. /\ AfterListeners(r) \in NoCopyPc /\ AfterRegistration(r) \in NoCopyPc
      /\ "read" \in NoCopyPc /\ "new" \in NoCopyPc /\ "done" \in NoCopyPc
      /\ "error" \in NoCopyPc
  BY NextPcTypes DEF NoCopyPc
<1>4. Fault => faults' \in Nat
  BY <1>0, FaultType
\* Steps that leave the handler with a copy, or without one but not through Go.
<1>5. ASSUME NEW new \in Handler, Becomes(r, new),
             new.pc = "put" => new.tries < Attempts,
             new.pc \in {"listenersPut", "limitsPut"} =>
               Found(new.copy, ServiceOf[r], ClusterOf[r]),
             item' \in Item, last' \in [Services -> Requests \cup {None}],
             running' \subseteq Clusters \X Services, faults' \in Nat, HandlerOnly
      PROVE  TInv'
  <2>1. /\ handler' \in [Requests -> Handler] /\ handler'[r] = new
        /\ \A q \in Requests \ {r} : handler'[q] = handler[q]
    BY <1>0, <1>5, BecomesType
  <2> QED
    BY <1>5, <2>1, HandlerMoves
<1>6. ASSUME NEW s \in Servers, Begin(r, s) PROVE TInv'
  <2> DEFINE new == [IdleHandler EXCEPT !.pc = "exists", !.srv = s, !.last = last[ServiceOf[r]]]
  <2>1. new \in Handler /\ new.pc = "exists"
    BY <1>1, <1>2, StateTypes DEF Handler, HandlerPc
  <2>2. Becomes(r, new) /\ UNCHANGED <<item, last, running, faults>> /\ HandlerOnly
    BY <1>6 DEF Begin
  <2> HIDE DEF new
  <2> QED
    BY <1>1, <1>5, <2>1, <2>2
<1>7. ASSUME EnsureService(r) PROVE TInv'
  <2> DEFINE id == <<ClusterOf[r], ServiceOf[r]>>
             new == [h EXCEPT !.pc = "check", !.created = id \notin running]
  <2>1. (id \notin running) \in BOOLEAN
    OBVIOUS
  <2>2. new \in Handler /\ new.pc = "check"
    BY <1>1, <2>1 DEF Handler, HandlerPc
  <2>3. /\ Becomes(r, new) /\ running' = running \cup {id}
        /\ UNCHANGED <<item, last, faults>> /\ HandlerOnly
    BY <1>7 DEF EnsureService
  <2>4. running' \subseteq Clusters \X Services
    BY <1>1, <1>2, <2>3
  <2> HIDE DEF new
  <2> QED
    BY <1>1, <1>5, <2>2, <2>3, <2>4
<1>8. ASSUME CheckExists(r) PROVE TInv'
  <2>1. /\ \E pc \in NoCopyPc : Go(r, pc)
        /\ UNCHANGED <<item, last, running, faults>> /\ HandlerOnly
    BY <1>3, <1>8 DEF CheckExists
  <2> QED
    BY <1>1, <2>1, GoMoves
<1>9. ASSUME CreateRead(r) PROVE TInv'
  <2>1. UNCHANGED <<item, last, running, faults>> /\ HandlerOnly
    BY <1>9 DEF CreateRead
  <2>2. CASE Exhausted(h.tries)
    <3>1. Go(r, AfterRegistration(r))
      BY <1>9, <2>2 DEF CreateRead
    <3> QED
      BY <1>1, <1>3, <2>1, <3>1, GoMoves
  <2>3. CASE ~Exhausted(h.tries)
    <3> DEFINE new == [h EXCEPT !.pc = "put", !.copy = item]
    <3>1. Becomes(r, new)
      BY <1>9, <2>3 DEF CreateRead
    <3>2. new \in Handler /\ new.pc = "put" /\ new.tries = h.tries
      BY <1>1 DEF Handler, HandlerPc
    <3>3. h.tries < Attempts
      BY <1>1, <2>3, BoundsAssumption DEF Exhausted
    <3> HIDE DEF new
    <3> QED
      BY <1>1, <1>5, <2>1, <3>1, <3>2, <3>3
  <2> QED
    BY <2>2, <2>3
<1>10. ASSUME CreatePut(r) PROVE TInv'
  <2>1. h.pc = "put" /\ UNCHANGED <<last, running>> /\ HandlerOnly
    BY <1>10 DEF CreatePut
  <2>2. item' \in Item /\ faults' \in Nat
    <3>1. Registered(h.copy, ServiceOf[r], NewEntry(r)) \in Item
      BY <1>1, <1>2, RegisteredType
    <3> HIDE DEF h
    <3>2. item' \in {Registered(h.copy, ServiceOf[r], NewEntry(r)), item}
      BY <1>10 DEF CreatePut, h
    <3>3. Fault \/ UNCHANGED faults
      BY <1>10 DEF CreatePut
    <3> QED
      BY <1>1, <1>4, <3>1, <3>2, <3>3
  <2>3. CASE Go(r, AfterRegistration(r))
    BY <1>1, <1>3, <2>1, <2>2, <2>3, GoMoves
  <2>4. CASE Retry(r)
    <3> DEFINE new == [h EXCEPT !.pc = "read", !.copy = NoItem, !.tries = h.tries + 1]
    <3>1. h.tries < Attempts
      BY <2>1 DEF TInv, Prepared
    <3>2. h.tries + 1 \in 0..Attempts
      BY <1>1, <3>1, BoundsAssumption
    <3>3. new \in Handler /\ new.pc = "read"
      BY <1>1, <3>2, ItemTypes DEF Handler, HandlerPc
    <3>4. Becomes(r, new)
      BY <2>4 DEF Retry
    <3> HIDE DEF new
    <3> QED
      BY <1>1, <1>5, <2>1, <2>2, <3>3, <3>4
  <2>5. CASE Go(r, "error")
    BY <1>1, <1>3, <2>1, <2>2, <2>5, GoMoves
  <2> QED
    BY <1>10, <2>3, <2>4, <2>5 DEF CreatePut
\* UpdateServiceListeners and UpdateServiceLimits.
<1>11. ASSUME NEW pc \in {"listenersPut", "limitsPut"}, NEW next \in NoCopyPc,
              ReadForUpdate(r, pc, next)
       PROVE  TInv'
  <2>1. UNCHANGED <<item, last, running, faults>> /\ HandlerOnly
    BY <1>11 DEF ReadForUpdate
  <2>2. CASE Found(item, ServiceOf[r], ClusterOf[r])
    <3> DEFINE new == [h EXCEPT !.pc = pc, !.copy = item]
    <3>1. Becomes(r, new)
      BY <1>11, <2>2 DEF ReadForUpdate
    <3>2. new \in Handler /\ new.pc = pc /\ new.copy = item
      BY <1>1 DEF Handler, HandlerPc
    <3> HIDE DEF new
    <3> QED
      BY <1>1, <1>5, <2>1, <2>2, <3>1, <3>2
  <2>3. CASE ~Found(item, ServiceOf[r], ClusterOf[r])
    <3>1. Go(r, next)
      BY <1>11, <2>3 DEF ReadForUpdate
    <3> QED
      BY <1>1, <2>1, <3>1, GoMoves
  <2> QED
    BY <2>2, <2>3
<1>12. ASSUME NEW changed \in Item, NEW next \in NoCopyPc, PutUpdate(r, changed, next)
       PROVE  TInv'
  <2>1. item' \in Item /\ Go(r, next) /\ UNCHANGED <<last, running, faults>> /\ HandlerOnly
    BY <1>1, <1>12 DEF PutUpdate
  <2> QED
    BY <1>1, <2>1, GoMoves
<1>13. ASSUME UpdateServiceListeners(r) PROVE TInv'
  <2>1. CASE ReadForUpdate(r, "listenersPut", AfterListeners(r))
    BY <1>3, <1>11, <2>1
  <2>2. CASE /\ h.pc = "listenersPut"
             /\ PutUpdate(r, WithListeners(h.copy, ServiceOf[r], BalancerOf[r]), AfterListeners(r))
    <3>1. Found(h.copy, ServiceOf[r], ClusterOf[r])
      BY <2>2 DEF TInv, Prepared
    <3>2. WithListeners(h.copy, ServiceOf[r], BalancerOf[r]) \in Item
      BY <1>1, <1>2, <3>1, WithListenersType
    <3> QED
      BY <1>3, <1>12, <2>2, <3>2
  <2> QED
    BY <1>13, <2>1, <2>2 DEF UpdateServiceListeners
<1>14. ASSUME UpdateServiceLimits(r) PROVE TInv'
  <2>1. CASE ReadForUpdate(r, "limitsPut", "new")
    BY <1>3, <1>11, <2>1
  <2>2. CASE /\ h.pc = "limitsPut"
             /\ PutUpdate(r, WithLimits(h.copy, ServiceOf[r], LimitsOf[r]), "new")
    <3>1. Found(h.copy, ServiceOf[r], ClusterOf[r])
      BY <2>2 DEF TInv, Prepared
    <3>2. WithLimits(h.copy, ServiceOf[r], LimitsOf[r]) \in Item
      BY <1>1, <1>2, <3>1, WithLimitsType
    <3> QED
      BY <1>3, <1>12, <2>2, <3>2
  <2> QED
    BY <1>14, <2>1, <2>2 DEF UpdateServiceLimits
<1>15. ASSUME NewDeployment(r) PROVE TInv'
  <2>1. UNCHANGED <<item, running, faults>> /\ HandlerOnly
    BY <1>15 DEF NewDeployment
  <2>2. /\ last' \in [Services -> Requests \cup {None}]
        /\ \E pc \in NoCopyPc : Go(r, pc)
    BY <1>1, <1>2, <1>3, <1>15 DEF NewDeployment
  <2> QED
    BY <1>1, <2>1, <2>2, GoMoves
<1>16. ASSUME HandlerFails(r) PROVE TInv'
  <2>1. /\ \E pc \in NoCopyPc : Go(r, pc)
        /\ faults' \in Nat /\ UNCHANGED <<item, last, running>> /\ HandlerOnly
    BY <1>3, <1>4, <1>16 DEF HandlerFails
  <2> QED
    BY <1>1, <2>1, GoMoves
<1> QED
  BY <1>6, <1>7, <1>8, <1>9, <1>10, <1>13, <1>14, <1>15, <1>16 DEF Handle

\* Steps of a starting server, and its end.
LEMMA StartType ==
  ASSUME TInv, NEW s \in Servers, Start(s) \/ StarterFails(s)
  PROVE  TInv'
<1> DEFINE st == starter[s]
<1>0. TypeOK
  BY DEF TInv
<1>1. /\ st \in Starter /\ st.copy \in Item /\ item \in Item /\ faults \in Nat
      /\ last \in [Services -> Requests \cup {None}]
  BY DEF TInv, TypeOK, Starter
<1>2. /\ Down \in Starter /\ Resumes \in Starter /\ Up \in Starter /\ OnMissing \in Starter
      /\ Down.pc = "down" /\ Resumes.pc = "resume" /\ Up.pc = "up" /\ OnMissing.pc = "init"
  BY StateTypes DEF Down, Resumes, Up, OnMissing
<1>3. NextOne(s) \in Starter /\ NextOne(s).pc = "last"
  BY <1>0, NextOneType
<1>4. Fault => faults' \in Nat
  BY <1>0, FaultType
<1>5. ASSUME NEW pc \in StarterPc \ {"read", "put"}, At(s, pc),
             item' \in Item, faults' \in Nat, StarterOnly
      PROVE  TInv'
  <2>1. /\ starter' \in [Servers -> Starter] /\ starter'[s].pc = pc
        /\ \A t \in Servers \ {s} : starter'[t] = starter[t]
    BY <1>0, <1>5, AtType
  <2> QED
    BY <1>5, <2>1, StarterMoves
<1>6. ASSUME Launch(s) PROVE TInv'
  BY <1>1, <1>5, <1>6 DEF Launch, StarterPc
<1>7. ASSUME GetApiVersion(s) PROVE TInv'
  <2> DEFINE list == [Down EXCEPT !.pc = "list"]
  <2>1. list \in Starter /\ list.pc = "list"
    BY <1>2 DEF Starter, StarterPc
  <2>2. UNCHANGED <<item, faults>> /\ StarterOnly
    BY <1>7 DEF GetApiVersion
  <2>3. Starts(s, OnMissing) \/ Starts(s, Resumes) \/ Starts(s, list)
    BY <1>7 DEF GetApiVersion
  <2> HIDE DEF list
  <2> QED
    BY <1>1, <1>2, <2>1, <2>2, <2>3, IdleMoves
<1>8. ASSUME InitDB(s) PROVE TInv'
  <2>1. item' \in Item /\ faults' \in Nat /\ StarterOnly
    BY <1>1, <1>4, <1>8, ItemTypes DEF InitDB
  <2>2. At(s, "list") \/ Starts(s, Down)
    BY <1>8 DEF InitDB
  <2>3. "list" \in StarterPc \ {"read", "put"}
    BY DEF StarterPc
  <2> QED
    BY <1>2, <1>5, <2>1, <2>2, <2>3, IdleMoves
<1>9. ASSUME ListServices(s) PROVE TInv'
  <2> DEFINE todo == {e \in Listed : Found(item, e.name, e.cluster)}
             new == [Down EXCEPT !.pc = "last", !.todo = todo]
  <2>1. todo \in SUBSET Listed
    OBVIOUS
  <2> HIDE DEF todo
  <2>2. new \in Starter /\ new.pc = "last"
    BY <1>2, <2>1 DEF Starter, StarterPc
  <2>3. Starts(s, new) /\ UNCHANGED <<item, faults>> /\ StarterOnly
    BY <1>9 DEF ListServices, todo
  <2> HIDE DEF new
  <2> QED
    BY <1>1, <2>2, <2>3, IdleMoves
<1>10. ASSUME NextService(s) PROVE TInv'
  <2>1. UNCHANGED <<item, faults>> /\ StarterOnly
    BY <1>10 DEF NextService
  <2>2. CASE At(s, "setRead")
    BY <1>1, <1>5, <2>1, <2>2 DEF StarterPc
  <2>3. ASSUME NEW e \in st.todo, last[e.name] = None, Starts(s, Down)
        PROVE  TInv'
    BY <1>1, <1>2, <2>1, <2>3, IdleMoves
  <2>4. ASSUME NEW e \in st.todo, last[e.name] # None,
               Starts(s, [st EXCEPT !.pc = "read", !.cur = e, !.limits = LimitsOf[last[e.name]]])
        PROVE  TInv'
    <3> DEFINE new == [st EXCEPT !.pc = "read", !.cur = e, !.limits = LimitsOf[last[e.name]]]
    <3>1. e \in Listed
      BY <1>1 DEF Starter
    <3>2. last[e.name] \in Requests
      BY <1>1, <2>4, <3>1 DEF Listed
    <3>3. LimitsOf[last[e.name]] \in Limits 
      BY <3>2, DataAssumption
    <3>5. new \in Starter /\ new.pc = "read" /\ new.cur = e /\ new.limits = LimitsOf[last[e.name]]
      BY <1>1, <3>1, <3>3 DEF Starter, StarterPc
    <3> HIDE DEF new
    <3>6. /\ starter' \in [Servers -> Starter] /\ starter'[s] = new
          /\ \A t \in Servers \ {s} : starter'[t] = starter[t]
      BY <1>0, <2>4, <3>5, StartsType DEF new
    <3> QED
      BY <1>1, <2>1, <3>1, <3>3, <3>5, <3>6, StarterMoves
  <2>5. \/ At(s, "setRead")
        \/ \E e \in st.todo :
             Starts(s, IF last[e.name] = None THEN Down
                       ELSE [st EXCEPT !.pc = "read", !.cur = e,
                                       !.limits = LimitsOf[last[e.name]]])
    BY <1>10 DEF NextService
  <2> QED
    BY <2>2, <2>3, <2>4, <2>5
<1>11. ASSUME MigrateLimits(s) PROVE TInv'
  <2>1. UNCHANGED faults /\ StarterOnly
    BY <1>11 DEF MigrateLimits
  <2>2. CASE Starts(s, NextOne(s)) /\ UNCHANGED item
    BY <1>1, <1>3, <2>1, <2>2, IdleMoves
  <2>3. CASE /\ st.pc = "read" /\ Found(item, st.cur.name, st.cur.cluster)
             /\ Starts(s, [st EXCEPT !.pc = "put", !.copy = item]) /\ UNCHANGED item
    <3> DEFINE new == [st EXCEPT !.pc = "put", !.copy = item]
    <3>1. /\ new \in Starter /\ new.pc = "put" /\ new.copy = item
          /\ new.cur = st.cur /\ new.limits = st.limits
      BY <1>1 DEF Starter, StarterPc
    <3>2. st.cur \in Listed /\ st.limits \in Limits
      BY <2>3 DEF TInv, Prepared
    <3> HIDE DEF new
    <3>3. /\ starter' \in [Servers -> Starter] /\ starter'[s] = new
          /\ \A t \in Servers \ {s} : starter'[t] = starter[t]
      BY <1>0, <2>3, <3>1, StartsType DEF new
    <3> QED
      BY <1>1, <2>1, <2>3, <3>1, <3>2, <3>3, StarterMoves
  <2>4. CASE /\ st.pc = "put" /\ Starts(s, NextOne(s))
             /\ item' = IF Matches(st.copy) THEN WithLimits(st.copy, st.cur.name, st.limits) ELSE item
    <3>1. /\ Found(st.copy, st.cur.name, st.cur.cluster)
          /\ st.cur \in Listed /\ st.limits \in Limits
      BY <2>4 DEF TInv, Prepared
    <3>2. st.cur.name \in Services /\ st.cur.cluster \in Clusters /\ st.limits \in Limits
      BY <3>1 DEF Listed
    <3>3. WithLimits(st.copy, st.cur.name, st.limits) \in Item
      BY <1>1, <3>1, <3>2, WithLimitsType
    <3>4. item' \in Item
      BY <1>1, <2>4, <3>3
    <3> QED
      BY <1>1, <1>3, <2>1, <2>4, <3>4, IdleMoves
  <2> QED
    BY <1>11, <2>2, <2>3, <2>4 DEF MigrateLimits
<1>12. ASSUME SetApiVersion(s) PROVE TInv'
  <2>1. UNCHANGED faults /\ StarterOnly
    BY <1>12 DEF SetApiVersion
  <2> DEFINE new == [Down EXCEPT !.pc = "setPut", !.copy = item]
  <2>2. new \in Starter /\ new.pc = "setPut"
    BY <1>1, <1>2 DEF Starter, StarterPc
  <2>3. CASE Starts(s, new) /\ UNCHANGED item
    <3> HIDE DEF new
    <3> QED
      BY <1>1, <2>1, <2>2, <2>3, IdleMoves
  <2>4. CASE /\ Starts(s, Resumes)
             /\ item' = IF Matches(st.copy) THEN [Bumped(st.copy) EXCEPT !.api = "current"] ELSE item
    <3>1. item' \in Item
      BY <1>1, <2>4, WithApiType
    <3> QED
      BY <1>1, <1>2, <2>1, <2>4, <3>1, IdleMoves
  <2> QED
    BY <1>12, <2>3, <2>4 DEF SetApiVersion
<1>13. ASSUME StarterFails(s) PROVE TInv'
  <2>1. faults' \in Nat /\ UNCHANGED item /\ StarterOnly
    BY <1>4, <1>13 DEF StarterFails
  <2>2. Starts(s, Down) \/ Starts(s, NextOne(s)) \/ Starts(s, Resumes) \/ Starts(s, Up)
    BY <1>13 DEF StarterFails
  <2> QED
    BY <1>1, <1>2, <1>3, <2>1, <2>2, IdleMoves
<1>14. ASSUME ResumeWork(s) PROVE TInv'
  <2>1. UNCHANGED <<item, faults>> /\ StarterOnly
    BY <1>14 DEF ResumeWork
  <2>2. Starts(s, Down) \/ Starts(s, Up)
    BY <1>14 DEF ResumeWork
  <2> QED
    BY <1>1, <1>2, <2>1, <2>2, IdleMoves
<1> QED
  BY <1>6, <1>7, <1>8, <1>9, <1>10, <1>11, <1>12, <1>13, <1>14 DEF Start

LEMMA CrashType ==
  ASSUME TInv, NEW s \in Servers, Crash(s)
  PROVE  TInv'
<1> DEFINE dead == [IdleHandler EXCEPT !.pc = "dead"]
<1>1. dead \in Handler /\ dead.pc = "dead"
  BY StateTypes DEF Handler, HandlerPc
<1>2. /\ handler' = [r \in Requests |-> IF handler[r].srv = s THEN dead ELSE handler[r]]
      /\ Starts(s, Down) /\ crashes' = crashes + 1
      /\ UNCHANGED <<item, last, running, faults>>
  BY DEF Crash
<1> HIDE DEF dead
<1>3. TypeOK
  BY DEF TInv
<1>4. /\ starter' \in [Servers -> Starter] /\ starter'[s] = Down
      /\ \A t \in Servers \ {s} : starter'[t] = starter[t]
  BY <1>2, <1>3, StateTypes, StartsType
<1>5. handler' \in [Requests -> Handler]
  BY <1>1, <1>2, <1>3 DEF TypeOK
<1>6. crashes' \in Nat
  BY <1>2, <1>3 DEF TypeOK
<1>7. TypeOK'
  BY <1>2, <1>3, <1>4, <1>5, <1>6 DEF TypeOK
<1>8. Down.pc \notin {"read", "put"}
  BY DEF Down
<1>9. \A r \in Requests : handler'[r] = dead \/ handler'[r] = handler[r]
  BY <1>2
<1>10. \A t \in Servers : starter'[t].pc \in {"read", "put"} => starter'[t] = starter[t]
  BY <1>4, <1>8
<1>11. Prepared'
  BY <1>1, <1>9, <1>10 DEF TInv, Prepared, Found
<1> QED
  BY <1>7, <1>11 DEF TInv

LEMMA TypeStep == TInv /\ [Next]_vars => TInv'
<1> SUFFICES ASSUME TInv, [Next]_vars PROVE TInv'
  OBVIOUS
<1>1. CASE UNCHANGED vars
  BY <1>1 DEF TInv, TypeOK, Prepared, Found, vars
<1>2. ASSUME NEW r \in Requests, Handle(r) \/ HandlerFails(r) PROVE TInv'
  BY <1>2, HandleType
<1>3. ASSUME NEW s \in Servers, Start(s) \/ StarterFails(s) PROVE TInv'
  BY <1>3, StartType
<1>4. ASSUME NEW s \in Servers, Crash(s) PROVE TInv'
  BY <1>4, CrashType
<1> QED
  BY <1>1, <1>2, <1>3, <1>4 DEF Next

\* Every variable keeps its type, and every writer that is about to put its copy
\* back knows the entry it changes to be there.
THEOREM TypesPrepared == Spec => []TInv
<1> QED
  BY InitType, TypeStep, PTL DEF Spec

\* The type invariant of the registry, for any data and bounds.
THEOREM TypeCorrect == Spec => []TypeOK
<1>1. TInv => TypeOK
  BY DEF TInv
<1> QED
  BY <1>1, TypesPrepared, PTL

-----------------------------------------------------------------------------
(* The optimistic lock of the item                                         *)

\* A write that raises the version and changes at most one entry.
Raised ==
  /\ item'.present /\ item'.version = item.version + 1
  /\ \/ item'.entries = item.entries
     \/ \E v \in Services, entry \in Entry : item'.entries = [item.entries EXCEPT ![v] = entry]

\* A copy whose version matches is the item itself.
LEMMA MatchingCopy ==
  ASSUME TInv, FirstWrite, NEW copy \in Item, UpToDate(copy), Matches(copy)
  PROVE  copy = item /\ item.present
<1>1. item \in Item
  BY DEF TInv, TypeOK
<1>2. item.present /\ item.version > 0 /\ item.version = copy.version
  BY DEF FirstWrite, Matches
<1>3. NoItem.version = 0 /\ item.version \in Nat
  BY <1>1 DEF NoItem, Item
<1> QED
  BY <1>2, <1>3 DEF UpToDate

\* A copy stays up to date or behind when the version is raised.
LEMMA RaisedKeepsCopy ==
  ASSUME TInv, NEW copy \in Item, UpToDate(copy), Raised
  PROVE  copy = NoItem \/ copy.version < item'.version
<1>1. item.version \in Nat /\ copy.version \in Nat
  BY DEF TInv, TypeOK, Item
<1> QED
  BY <1>1 DEF UpToDate, Raised

\* Once the item exists, a step of one handler keeps the invariant if it reads
\* the item, drops its copy, or keeps it and writes at most one entry.
LEMMA HandlerKeeps ==
  ASSUME IInv, TInv', NEW r \in Requests, item.present, HandlerOnly,
         \A q \in Requests \ {r} : handler'[q] = handler[q],
         \/ item' = item /\ handler'[r].copy \in {NoItem, handler[r].copy, item}
         \/ Raised /\ handler'[r].copy = NoItem
  PROVE  FirstWrite' /\ UpToDateCopies'
<1>1. /\ item \in Item /\ \A q \in Requests : handler[q].copy \in Item /\ UpToDate(handler[q].copy)
      /\ \A s \in Servers : starter[s].copy \in Item /\ UpToDate(starter[s].copy)
  BY DEF IInv, TInv, TypeOK, Handler, Starter, UpToDateCopies
<1>2. item.version \in Nat
  BY <1>1 DEF Item
<1>3. starter' = starter
  BY DEF HandlerOnly
<1>4. CASE item' = item /\ handler'[r].copy \in {NoItem, handler[r].copy, item}
  <2>1. FirstWrite'
    BY <1>3, <1>4 DEF IInv, FirstWrite
  <2>2. UpToDateCopies'
    BY <1>1, <1>3, <1>4 DEF UpToDateCopies, UpToDate
  <2> QED
    BY <2>1, <2>2
<1>5. CASE Raised /\ handler'[r].copy = NoItem
  <2>1. item'.present /\ item'.version > 0
    BY <1>2, <1>5 DEF Raised
  <2>2. FirstWrite'
    BY <1>3, <2>1 DEF IInv, FirstWrite
  <2>3. \A q \in Requests : UpToDate(handler[q].copy)'
    BY <1>1, <1>5, RaisedKeepsCopy DEF IInv, UpToDate
  <2>4. \A s \in Servers : UpToDate(starter[s].copy)'
    BY <1>1, <1>3, <1>5, RaisedKeepsCopy DEF IInv, UpToDate
  <2> QED
    BY <2>2, <2>3, <2>4 DEF UpToDateCopies
<1> QED
  BY <1>4, <1>5

\* So does a step of one starting server, which does not begin to initialise.
LEMMA StarterKeeps ==
  ASSUME IInv, TInv', NEW s \in Servers, item.present, StarterOnly,
         \A t \in Servers \ {s} : starter'[t] = starter[t],
         starter'[s].pc # "init",
         \/ item' = item /\ starter'[s].copy \in {NoItem, starter[s].copy, item}
         \/ Raised /\ starter'[s].copy = NoItem
  PROVE  FirstWrite' /\ UpToDateCopies'
<1>1. /\ item \in Item /\ \A q \in Requests : handler[q].copy \in Item /\ UpToDate(handler[q].copy)
      /\ \A t \in Servers : starter[t].copy \in Item /\ UpToDate(starter[t].copy)
  BY DEF IInv, TInv, TypeOK, Handler, Starter, UpToDateCopies
<1>2. item.version \in Nat
  BY <1>1 DEF Item
<1>3. handler' = handler
  BY DEF StarterOnly
<1>4. \A t \in Servers : starter'[t].pc # "init"
  BY DEF IInv, FirstWrite
<1>5. CASE item' = item /\ starter'[s].copy \in {NoItem, starter[s].copy, item}
  <2>1. FirstWrite'
    BY <1>4, <1>5 DEF IInv, FirstWrite
  <2>2. UpToDateCopies'
    BY <1>1, <1>3, <1>5 DEF UpToDateCopies, UpToDate
  <2> QED
    BY <2>1, <2>2
<1>6. CASE Raised /\ starter'[s].copy = NoItem
  <2>1. item'.present /\ item'.version > 0
    BY <1>2, <1>6 DEF Raised
  <2>2. FirstWrite'
    BY <1>4, <2>1 DEF IInv, FirstWrite
  <2>3. \A q \in Requests : UpToDate(handler[q].copy)'
    BY <1>1, <1>3, <1>6, RaisedKeepsCopy DEF IInv, UpToDate
  <2>4. \A t \in Servers : UpToDate(starter[t].copy)'
    BY <1>1, <1>6, RaisedKeepsCopy DEF IInv, UpToDate
  <2> QED
    BY <2>2, <2>3, <2>4 DEF UpToDateCopies
<1> QED
  BY <1>5, <1>6

\* Every step of a handler finds the item, and is of that kind.
LEMMA HandlerEffect ==
  ASSUME IInv, NEW r \in Requests, Handle(r) \/ HandlerFails(r)
  PROVE  /\ item.present /\ HandlerOnly
         /\ \A q \in Requests \ {r} : handler'[q] = handler[q]
         /\ \/ item' = item /\ handler'[r].copy \in {NoItem, handler[r].copy, item}
            \/ Raised /\ handler'[r].copy = NoItem
<1> DEFINE h == handler[r]
           Effect == /\ item.present /\ HandlerOnly
                     /\ \A q \in Requests \ {r} : handler'[q] = handler[q]
                     /\ \/ item' = item /\ handler'[r].copy \in {NoItem, h.copy, item}
                        \/ Raised /\ handler'[r].copy = NoItem
<1>0. TInv /\ TypeOK /\ FirstWrite
  BY DEF IInv, TInv
<1>1. /\ h \in Handler /\ h.copy \in Item /\ item \in Item
      /\ handler \in [Requests -> Handler]
      /\ UpToDate(h.copy)
  BY DEF IInv, TInv, TypeOK, Handler, UpToDateCopies
<1>2. /\ ServiceOf[r] \in Services /\ ClusterOf[r] \in Clusters
      /\ LimitsOf[r] \in Limits /\ BalancerOf[r] \in Balancers /\ NewEntry(r) \in Entry
  BY DataTypes
<1>3. /\ AfterListeners(r) \in NoCopyPc /\ AfterRegistration(r) \in NoCopyPc
      /\ "read" \in NoCopyPc /\ "new" \in NoCopyPc /\ "done" \in NoCopyPc
      /\ "error" \in NoCopyPc
  BY NextPcTypes DEF NoCopyPc
<1>4. h.pc \notin Ended \cup {"idle"} => item.present
  BY <1>0 DEF FirstWrite
<1>5. ASSUME NEW pc \in NoCopyPc, Go(r, pc)
      PROVE  /\ handler'[r].copy = NoItem
             /\ \A q \in Requests \ {r} : handler'[q] = handler[q]
  BY <1>0, <1>5, GoType
<1>6. ASSUME NEW new, Becomes(r, new)
      PROVE  /\ handler'[r] = new
             /\ \A q \in Requests \ {r} : handler'[q] = handler[q]
  BY <1>1, <1>6 DEF Becomes
<1>7. ASSUME NEW s \in Servers, Begin(r, s) PROVE Effect
  <2> DEFINE new == [IdleHandler EXCEPT !.pc = "exists", !.srv = s, !.last = last[ServiceOf[r]]]
  <2>1. new.copy = NoItem
    BY DEF IdleHandler
  <2>2. Becomes(r, new) /\ item' = item /\ HandlerOnly /\ starter[s].pc = "up"
    BY <1>7 DEF Begin
  <2>3. item.present
    BY <1>0, <2>2 DEF FirstWrite
  <2> HIDE DEF new
  <2> QED
    BY <1>6, <2>1, <2>2, <2>3
<1>8. ASSUME EnsureService(r) PROVE Effect
  <2> DEFINE new == [h EXCEPT !.pc = "check", !.created = <<ClusterOf[r], ServiceOf[r]>> \notin running]
  <2>1. new.copy = h.copy
    BY <1>1 DEF Handler
  <2>2. Becomes(r, new) /\ item' = item /\ HandlerOnly /\ h.pc = "exists"
    BY <1>8 DEF EnsureService
  <2> HIDE DEF new
  <2> QED
    BY <1>4, <1>6, <2>1, <2>2 DEF Ended
<1>9. ASSUME CheckExists(r) PROVE Effect
  <2>1. (\E pc \in NoCopyPc : Go(r, pc)) /\ item' = item /\ HandlerOnly /\ h.pc = "check"
    BY <1>3, <1>9 DEF CheckExists
  <2> QED
    BY <1>4, <1>5, <2>1 DEF Ended
<1>10. ASSUME CreateRead(r) PROVE Effect
  <2> DEFINE new == [h EXCEPT !.pc = "put", !.copy = item]
  <2>1. new.copy = item
    BY <1>1 DEF Handler
  <2>2. item' = item /\ HandlerOnly /\ h.pc = "read"
    BY <1>10 DEF CreateRead
  <2>3. Go(r, AfterRegistration(r)) \/ Becomes(r, new)
    BY <1>10 DEF CreateRead
  <2> HIDE DEF new
  <2> QED
    BY <1>3, <1>4, <1>5, <1>6, <2>1, <2>2, <2>3 DEF Ended
<1>11. ASSUME CreatePut(r) PROVE Effect
  <2>1. h.pc = "put" /\ HandlerOnly
    BY <1>11 DEF CreatePut
  <2> DEFINE new == [h EXCEPT !.pc = "read", !.copy = NoItem, !.tries = @ + 1]
  <2>2. new.copy = NoItem
    BY <1>1 DEF Handler
  <2>3. Go(r, AfterRegistration(r)) \/ Go(r, "error") \/ Becomes(r, new)
    BY <1>11 DEF CreatePut, Retry
  <2> HIDE DEF new
  <2>4. handler'[r].copy = NoItem /\ \A q \in Requests \ {r} : handler'[q] = handler[q]
    BY <1>3, <1>5, <1>6, <2>2, <2>3
  <2>5. CASE Matches(h.copy)
    <3>1. h.copy = item
      BY <1>0, <1>1, <2>5, MatchingCopy
    <3>2. item' = Registered(h.copy, ServiceOf[r], NewEntry(r))
      BY <1>11, <2>5 DEF CreatePut
    <3>3. item.present
      BY <1>4, <2>1 DEF Ended
    <3>5. OneEntry(h.copy, ServiceOf[r], item')
      BY <1>1, <1>2, <3>2, RegisteredType
    <3>4. Raised
      BY <1>2, <3>1, <3>3, <3>5 DEF Raised, OneEntry
    <3> QED
      BY <2>1, <2>4, <3>3, <3>4
  <2>6. CASE ~Matches(h.copy)
    <3>1. item' = item
      BY <1>11, <2>6 DEF CreatePut
    <3> QED
      BY <1>4, <2>1, <2>4, <3>1 DEF Ended
  <2> QED
    BY <2>5, <2>6
<1>12. ASSUME h.pc \in {"listenersRead", "limitsRead"},
              NEW pc, NEW next \in NoCopyPc, ReadForUpdate(r, pc, next)
       PROVE  Effect
  <2> DEFINE new == [h EXCEPT !.pc = pc, !.copy = item]
  <2>1. new.copy = item
    BY <1>1 DEF Handler
  <2>2. item' = item /\ HandlerOnly
    BY <1>12 DEF ReadForUpdate
  <2>3. Go(r, next) \/ Becomes(r, new)
    BY <1>12 DEF ReadForUpdate
  <2> HIDE DEF new
  <2> QED
    BY <1>4, <1>5, <1>6, <1>12, <2>1, <2>2, <2>3 DEF Ended
<1>13. ASSUME h.pc \in {"listenersPut", "limitsPut"},
              NEW changed, NEW next \in NoCopyPc, PutUpdate(r, changed, next),
              OneEntry(h.copy, ServiceOf[r], changed)
       PROVE  Effect
  <2>1. handler'[r].copy = NoItem /\ HandlerOnly
        /\ \A q \in Requests \ {r} : handler'[q] = handler[q]
    BY <1>5, <1>13 DEF PutUpdate
  <2>2. item.present
    BY <1>4, <1>13 DEF Ended
  <2>3. CASE Matches(h.copy)
    <3>1. h.copy = item
      BY <1>0, <1>1, <2>3, MatchingCopy
    <3>2. item' = changed
      BY <1>13, <2>3 DEF PutUpdate
    <3>3. Raised
      BY <1>2, <1>13, <2>2, <3>1, <3>2 DEF Raised, OneEntry
    <3> QED
      BY <2>1, <2>2, <3>3
  <2>4. CASE ~Matches(h.copy)
    <3>1. item' = item
      BY <1>13, <2>4 DEF PutUpdate
    <3> QED
      BY <2>1, <2>2, <3>1
  <2> QED
    BY <2>3, <2>4
<1>14. ASSUME UpdateServiceListeners(r) PROVE Effect
  <2>1. CASE h.pc = "listenersRead" /\ ReadForUpdate(r, "listenersPut", AfterListeners(r))
    <3> HIDE DEF Effect
    <3> QED
      BY <1>3, <1>12, <2>1
  <2>2. CASE /\ h.pc = "listenersPut"
             /\ PutUpdate(r, WithListeners(h.copy, ServiceOf[r], BalancerOf[r]), AfterListeners(r))
    <3>1. Found(h.copy, ServiceOf[r], ClusterOf[r])
      BY <1>0, <2>2 DEF TInv, Prepared
    <3>2. OneEntry(h.copy, ServiceOf[r], WithListeners(h.copy, ServiceOf[r], BalancerOf[r]))
      BY <1>1, <1>2, <3>1, WithListenersType
    <3> HIDE DEF Effect
    <3> QED
      BY <1>3, <1>13, <2>2, <3>2
  <2> QED
    BY <1>14, <2>1, <2>2 DEF UpdateServiceListeners
<1>15. ASSUME UpdateServiceLimits(r) PROVE Effect
  <2>1. CASE h.pc = "limitsRead" /\ ReadForUpdate(r, "limitsPut", "new")
    <3> HIDE DEF Effect
    <3> QED
      BY <1>3, <1>12, <2>1
  <2>2. CASE /\ h.pc = "limitsPut"
             /\ PutUpdate(r, WithLimits(h.copy, ServiceOf[r], LimitsOf[r]), "new")
    <3>1. Found(h.copy, ServiceOf[r], ClusterOf[r])
      BY <1>0, <2>2 DEF TInv, Prepared
    <3>2. OneEntry(h.copy, ServiceOf[r], WithLimits(h.copy, ServiceOf[r], LimitsOf[r]))
      BY <1>1, <1>2, <3>1, WithLimitsType
    <3> HIDE DEF Effect
    <3> QED
      BY <1>3, <1>13, <2>2, <3>2
  <2> QED
    BY <1>15, <2>1, <2>2 DEF UpdateServiceLimits
<1>16. ASSUME NewDeployment(r) PROVE Effect
  <2>1. (\E pc \in NoCopyPc : Go(r, pc)) /\ item' = item /\ HandlerOnly /\ h.pc = "new"
    BY <1>3, <1>16 DEF NewDeployment
  <2> QED
    BY <1>4, <1>5, <2>1 DEF Ended
<1>17. ASSUME HandlerFails(r) PROVE Effect
  <2>1. /\ \E pc \in NoCopyPc : Go(r, pc)
        /\ item' = item /\ HandlerOnly
        /\ h.pc \in {"exists", "read", "put", "new", "check", "listenersRead", "listenersPut",
                     "limitsRead", "limitsPut"}
    BY <1>3, <1>17 DEF HandlerFails
  <2> QED
    BY <1>4, <1>5, <2>1 DEF Ended
<1> HIDE DEF Effect
<1>18. Effect
  BY <1>7, <1>8, <1>9, <1>10, <1>11, <1>14, <1>15, <1>16, <1>17 DEF Handle
<1> QED
  BY <1>18 DEF Effect

\* So is every step of a starting server once the item exists.
LEMMA StarterEffect ==
  ASSUME IInv, NEW s \in Servers, Start(s) \/ StarterFails(s), item.present
  PROVE  /\ StarterOnly /\ starter'[s].pc # "init"
         /\ \A t \in Servers \ {s} : starter'[t] = starter[t]
         /\ \/ item' = item /\ starter'[s].copy \in {NoItem, starter[s].copy, item}
            \/ Raised /\ starter'[s].copy = NoItem
<1> DEFINE st == starter[s]
           Effect == /\ StarterOnly /\ starter'[s].pc # "init"
                     /\ \A t \in Servers \ {s} : starter'[t] = starter[t]
                     /\ \/ item' = item /\ starter'[s].copy \in {NoItem, st.copy, item}
                        \/ Raised /\ starter'[s].copy = NoItem
<1>0. TInv /\ TypeOK /\ FirstWrite
  BY DEF IInv, TInv
<1>1. /\ st \in Starter /\ st.copy \in Item /\ item \in Item
      /\ starter \in [Servers -> Starter]
      /\ UpToDate(st.copy)
  BY DEF IInv, TInv, TypeOK, Starter, UpToDateCopies
<1>2. /\ Down.copy = NoItem /\ Resumes.copy = NoItem /\ Up.copy = NoItem
      /\ NextOne(s).copy = NoItem
      /\ Down.pc # "init" /\ Resumes.pc # "init" /\ Up.pc # "init" /\ NextOne(s).pc # "init"
  BY DEF Down, Resumes, Up, NextOne
<1>3. ASSUME NEW new, Starts(s, new)
      PROVE  /\ starter'[s] = new
             /\ \A t \in Servers \ {s} : starter'[t] = starter[t]
  BY <1>1, <1>3 DEF Starts
<1>4. ASSUME NEW pc, pc # "init", At(s, pc)
      PROVE  /\ starter'[s].pc # "init" /\ starter'[s].copy = st.copy
             /\ \A t \in Servers \ {s} : starter'[t] = starter[t]
  <2> DEFINE new == [st EXCEPT !.pc = pc]
  <2>1. new.pc = pc /\ new.copy = st.copy
    BY <1>1 DEF Starter
  <2>2. Starts(s, new)
    BY <1>4 DEF At
  <2> HIDE DEF new
  <2> QED
    BY <1>3, <1>4, <2>1, <2>2
<1>5. ASSUME NEW new, Starts(s, new), new.pc # "init", new.copy \in {NoItem, st.copy, item},
             item' = item, StarterOnly
      PROVE  Effect
  BY <1>3, <1>5
<1>6. ASSUME NEW new, Starts(s, new), new.pc # "init", new.copy = NoItem,
             Raised, StarterOnly
      PROVE  Effect
  BY <1>3, <1>6
<1>7. ASSUME Launch(s) PROVE Effect
  <2>1. At(s, "api") /\ item' = item /\ StarterOnly
    BY <1>7 DEF Launch
  <2> QED
    BY <1>4, <2>1
<1>8. ASSUME GetApiVersion(s) PROVE Effect
  <2> DEFINE list == [Down EXCEPT !.pc = "list"]
  <2>1. list.pc # "init" /\ list.copy = NoItem
    BY DEF Down
  <2>2. (Starts(s, Resumes) \/ Starts(s, list)) /\ item' = item /\ StarterOnly
    BY <1>8 DEF GetApiVersion
  <2> HIDE DEF list, Effect
  <2> QED
    BY <1>2, <1>5, <2>1, <2>2
<1>9. ~InitDB(s)
  BY <1>0 DEF InitDB, FirstWrite
<1>10. ASSUME ListServices(s) PROVE Effect
  <2> DEFINE new == [Down EXCEPT !.pc = "last",
                       !.todo = {e \in Listed : Found(item, e.name, e.cluster)}]
  <2>1. new.pc # "init" /\ new.copy = NoItem
    BY DEF Down
  <2>2. Starts(s, new) /\ item' = item /\ StarterOnly
    BY <1>10 DEF ListServices
  <2> HIDE DEF new, Effect
  <2> QED
    BY <1>5, <2>1, <2>2
<1>11. ASSUME NextService(s) PROVE Effect
  <2>1. item' = item /\ StarterOnly
    BY <1>11 DEF NextService
  <2>2. CASE At(s, "setRead")
    BY <1>4, <2>1, <2>2
  <2>3. ASSUME NEW e \in st.todo, Starts(s, Down)
        PROVE  Effect
    <3> HIDE DEF Effect
    <3> QED
      BY <1>2, <1>5, <2>1, <2>3
  <2>4. ASSUME NEW e \in st.todo,
               Starts(s, [st EXCEPT !.pc = "read", !.cur = e, !.limits = LimitsOf[last[e.name]]])
        PROVE  Effect
    <3> DEFINE new == [st EXCEPT !.pc = "read", !.cur = e, !.limits = LimitsOf[last[e.name]]]
    <3>1. new.pc # "init" /\ new.copy = st.copy
      BY <1>1 DEF Starter
    <3>2. Starts(s, new)
      BY <2>4
    <3> HIDE DEF new, Effect
    <3> QED
      BY <1>5, <2>1, <3>1, <3>2
  <2>5. \/ At(s, "setRead")
        \/ \E e \in st.todo :
             Starts(s, IF last[e.name] = None THEN Down
                       ELSE [st EXCEPT !.pc = "read", !.cur = e,
                                       !.limits = LimitsOf[last[e.name]]])
    BY <1>11 DEF NextService
  <2> HIDE DEF Effect
  <2> QED
    BY <2>2, <2>3, <2>4, <2>5
<1>12. ASSUME NEW changed, NEW new, Starts(s, new), new.pc # "init", new.copy = NoItem, StarterOnly,
              item' = IF Matches(st.copy) THEN changed ELSE item,
              \/ /\ changed.present = st.copy.present /\ changed.version = st.copy.version + 1
                 /\ changed.entries = st.copy.entries
              \/ \E v \in Services : OneEntry(st.copy, v, changed)
       PROVE  Effect
  <2>1. CASE Matches(st.copy)
    <3>1. st.copy = item
      BY <1>0, <1>1, <2>1, MatchingCopy
    <3>2. Raised
      BY <1>12, <2>1, <3>1 DEF Raised, OneEntry
    <3> HIDE DEF Effect
    <3> QED
      BY <1>6, <1>12, <3>2
  <2>2. CASE ~Matches(st.copy)
    <3>1. item' = item
      BY <1>12, <2>2
    <3> HIDE DEF Effect
    <3> QED
      BY <1>5, <1>12, <3>1
  <2> QED
    BY <2>1, <2>2
<1>13. ASSUME MigrateLimits(s) PROVE Effect
  <2>1. StarterOnly
    BY <1>13 DEF MigrateLimits
  <2>2. CASE Starts(s, NextOne(s)) /\ UNCHANGED item
    <3> HIDE DEF Effect
    <3> QED
      BY <1>2, <1>5, <2>1, <2>2
  <2>3. CASE Starts(s, [st EXCEPT !.pc = "put", !.copy = item]) /\ UNCHANGED item
    <3> DEFINE new == [st EXCEPT !.pc = "put", !.copy = item]
    <3>1. new.pc # "init" /\ new.copy = item
      BY <1>1 DEF Starter
    <3>2. Starts(s, new)
      BY <2>3
    <3> HIDE DEF new, Effect
    <3> QED
      BY <1>5, <2>1, <2>3, <3>1, <3>2
  <2>4. CASE /\ st.pc = "put" /\ Starts(s, NextOne(s))
             /\ item' = IF Matches(st.copy) THEN WithLimits(st.copy, st.cur.name, st.limits) ELSE item
    <3>1. /\ Found(st.copy, st.cur.name, st.cur.cluster)
          /\ st.cur \in Listed /\ st.limits \in Limits
      BY <1>0, <2>4 DEF TInv, Prepared
    <3>2. st.cur.name \in Services /\ st.cur.cluster \in Clusters
      BY <3>1 DEF Listed
    <3>3. OneEntry(st.copy, st.cur.name, WithLimits(st.copy, st.cur.name, st.limits))
      BY <1>1, <3>1, <3>2, WithLimitsType
    <3> HIDE DEF Effect
    <3> QED
      BY <1>2, <1>12, <2>1, <2>4, <3>2, <3>3
  <2> HIDE DEF Effect
  <2> QED
    BY <1>13, <2>2, <2>3, <2>4 DEF MigrateLimits
<1>14. ASSUME SetApiVersion(s) PROVE Effect
  <2>1. StarterOnly
    BY <1>14 DEF SetApiVersion
  <2> DEFINE new == [Down EXCEPT !.pc = "setPut", !.copy = item]
  <2>2. new.pc # "init" /\ new.copy = item
    BY DEF Down
  <2>3. CASE Starts(s, new) /\ UNCHANGED item
    <3> HIDE DEF new, Effect
    <3> QED
      BY <1>5, <2>1, <2>2, <2>3
  <2>4. CASE /\ Starts(s, Resumes)
             /\ item' = IF Matches(st.copy) THEN [Bumped(st.copy) EXCEPT !.api = "current"] ELSE item
    <3> DEFINE changed == [Bumped(st.copy) EXCEPT !.api = "current"]
    <3>1. /\ changed.present = st.copy.present /\ changed.version = st.copy.version + 1
          /\ changed.entries = st.copy.entries
      BY <1>1, WithApiType
    <3>2. item' = IF Matches(st.copy) THEN changed ELSE item
      BY <2>4
    <3> HIDE DEF changed, Effect
    <3> QED
      BY <1>2, <1>12, <2>1, <2>4, <3>1, <3>2
  <2> HIDE DEF new, Effect
  <2> QED
    BY <1>14, <2>3, <2>4 DEF SetApiVersion, new
<1>15. ASSUME StarterFails(s) PROVE Effect
  <2>1. item' = item /\ StarterOnly
    BY <1>15 DEF StarterFails
  <2>2. Starts(s, Down) \/ Starts(s, NextOne(s)) \/ Starts(s, Resumes) \/ Starts(s, Up)
    BY <1>15 DEF StarterFails
  <2> HIDE DEF Effect
  <2> QED
    BY <1>2, <1>5, <2>1, <2>2
<1>16. ASSUME ResumeWork(s) PROVE Effect
  <2>1. item' = item /\ StarterOnly
    BY <1>16 DEF ResumeWork
  <2>2. Starts(s, Down) \/ Starts(s, Up)
    BY <1>16 DEF ResumeWork
  <2> HIDE DEF Effect
  <2> QED
    BY <1>2, <1>5, <2>1, <2>2
<1> HIDE DEF Effect
<1>17. Effect
  BY <1>7, <1>8, <1>9, <1>10, <1>11, <1>13, <1>14, <1>15, <1>16 DEF Start
<1> QED
  BY <1>17 DEF Effect

\* Before the item exists a server only looks for it, and one server writes it.
LEMMA FirstStartEffect ==
  ASSUME IInv, TInv', OneFirstStart, NEW s \in Servers, Start(s) \/ StarterFails(s), ~item.present
  PROVE  FirstWrite' /\ UpToDateCopies' /\ item'.entries = item.entries
<1> DEFINE st == starter[s]
           Claim == FirstWrite' /\ UpToDateCopies' /\ item'.entries = item.entries
<1>1. /\ "absent" \in Databases /\ item = NoItem
      /\ \A r \in Requests : handler[r].pc \in Ended \cup {"idle"} /\ handler[r].copy = NoItem
      /\ \A t \in Servers : starter[t].pc \in {"down", "api", "init"} /\ starter[t].copy = NoItem
  BY DEF IInv, FirstWrite
<1>2. handler' = handler
  BY DEF Start, StarterFails, Launch, GetApiVersion, InitDB, ListServices, NextService,
         MigrateLimits, SetApiVersion, ResumeWork, StarterOnly
<1>3. starter \in [Servers -> Starter]
  BY DEF IInv, TInv, TypeOK
<1>4. ASSUME NEW new, Starts(s, new), new.pc \in {"down", "api", "init"}, new.copy = NoItem,
             item' = item
      PROVE  Claim
  <2>1. \A t \in Servers : starter'[t].pc \in {"down", "api", "init"} /\ starter'[t].copy = NoItem
    BY <1>1, <1>3, <1>4 DEF Starts
  <2>2. FirstWrite'
    BY <1>1, <1>2, <1>4, <2>1 DEF FirstWrite
  <2>3. UpToDateCopies'
    BY <1>1, <1>2, <2>1 DEF UpToDateCopies, UpToDate
  <2> QED
    BY <1>4, <2>2, <2>3
<1>5. /\ Down.pc = "down" /\ Down.copy = NoItem
      /\ OnMissing.pc = "init" /\ OnMissing.copy = NoItem
  BY DEF Down, OnMissing
<1>6. ASSUME Launch(s) PROVE Claim
  <2> DEFINE new == [st EXCEPT !.pc = "api"]
  <2>1. new.pc = "api" /\ new.copy = NoItem
    BY <1>1, <1>3 DEF Starter
  <2>2. Starts(s, new) /\ item' = item
    BY <1>6 DEF Launch, At
  <2> HIDE DEF new, Claim
  <2> QED
    BY <1>4, <2>1, <2>2
<1>7. ASSUME GetApiVersion(s) PROVE Claim
  <2>1. Starts(s, OnMissing) /\ item' = item
    BY <1>1, <1>7 DEF GetApiVersion, NoItem
  <2> HIDE DEF Claim
  <2> QED
    BY <1>4, <1>5, <2>1
<1>8. ASSUME InitDB(s) PROVE Claim
  <2>1. /\ item' = FirstItem /\ st.pc = "init"
        /\ Starts(s, [st EXCEPT !.pc = "list"]) \/ Starts(s, Down)
    BY <1>8 DEF InitDB, At
  <2>2. \A t \in Servers : t = s
    BY <1>1 DEF OneFirstStart
  <2>3. [st EXCEPT !.pc = "list"].pc = "list" /\ [st EXCEPT !.pc = "list"].copy = NoItem
    BY <1>1, <1>3 DEF Starter
  <2>4. starter'[s].pc # "init" /\ starter'[s].copy = NoItem
    BY <1>3, <1>5, <2>1, <2>3 DEF Starts
  <2>5. /\ item'.present /\ item'.version > 0 /\ item'.entries = Empty
    BY <2>1 DEF FirstItem
  <2>6. FirstWrite'
    BY <2>2, <2>4, <2>5 DEF FirstWrite
  <2>7. UpToDateCopies'
    BY <1>1, <1>2, <2>2, <2>4 DEF UpToDateCopies, UpToDate
  <2>8. item.entries = Empty
    BY <1>1 DEF NoItem
  <2> QED
    BY <2>5, <2>6, <2>7, <2>8
<1>9. ASSUME StarterFails(s) PROVE Claim
  <2>1. Starts(s, Down) /\ item' = item
    BY <1>1, <1>9 DEF StarterFails
  <2> HIDE DEF Claim
  <2> QED
    BY <1>4, <1>5, <2>1
<1>10. /\ ~ListServices(s) /\ ~NextService(s) /\ ~MigrateLimits(s) /\ ~SetApiVersion(s)
       /\ ~ResumeWork(s)
  BY <1>1 DEF ListServices, NextService, MigrateLimits, SetApiVersion, ResumeWork
<1> HIDE DEF Claim
<1>11. Claim
  BY <1>6, <1>7, <1>8, <1>9, <1>10 DEF Start
<1> QED
  BY <1>11 DEF Claim

\* The end of a server drops its copy and those of its requests.
LEMMA CrashEffect ==
  ASSUME IInv, NEW s \in Servers, Crash(s)
  PROVE  FirstWrite' /\ UpToDateCopies' /\ item' = item
<1> DEFINE dead == [IdleHandler EXCEPT !.pc = "dead"]
<1>1. /\ handler' = [r \in Requests |-> IF handler[r].srv = s THEN dead ELSE handler[r]]
      /\ Starts(s, Down) /\ item' = item
  BY DEF Crash
<1>2. dead.pc \in Ended /\ dead.copy = NoItem
  BY DEF Ended, IdleHandler
<1>3. Down.pc = "down" /\ Down.copy = NoItem
  BY DEF Down
<1> HIDE DEF dead
<1>4. \A r \in Requests : handler'[r] = dead \/ handler'[r] = handler[r]
  BY <1>1
<1>5. \A t \in Servers : starter'[t] = Down \/ starter'[t] = starter[t]
  BY <1>1 DEF Starts, IInv, TInv, TypeOK
<1>6. FirstWrite /\ UpToDateCopies
  BY DEF IInv
<1>7. FirstWrite'
  <2>1. (~item.present =>
           /\ item = NoItem
           /\ \A r \in Requests : handler[r].pc \in Ended \cup {"idle"} /\ handler[r].copy = NoItem
           /\ \A t \in Servers : starter[t].pc \in {"down", "api", "init"} /\ starter[t].copy = NoItem)'
    BY <1>1, <1>2, <1>3, <1>4, <1>5, <1>6 DEF FirstWrite
  <2>2. (\A t \in Servers : starter[t].pc = "init" => ~item.present)'
    BY <1>1, <1>3, <1>5, <1>6 DEF FirstWrite
  <2> QED
    BY <1>1, <1>6, <2>1, <2>2 DEF FirstWrite
<1>8. UpToDateCopies'
  BY <1>1, <1>2, <1>3, <1>4, <1>5, <1>6 DEF UpToDateCopies, UpToDate
<1> QED
  BY <1>1, <1>7, <1>8

LEMMA InitInv == Init => IInv
<1> SUFFICES ASSUME Init PROVE IInv
  OBVIOUS
<1>1. TInv /\ TypeOK
  BY InitType DEF TInv
<1>2. /\ \A s \in Servers : starter[s].pc = "down" /\ starter[s].copy = NoItem
      /\ \A r \in Requests : handler[r].pc \in {"idle", "done"} /\ handler[r].copy = NoItem
  BY DEF Init, Down, IdleHandler
<1>3. \/ "absent" \in Databases /\ item = NoItem /\ ~item.present
      \/ item.present /\ item.version = 1
  <2>1. PICK database \in Databases : item = FirstItemOf(database)
    BY DEF Init
  <2>2. database \in {"absent", "old", "current"}
    BY DatabaseAssumption
  <2> QED
    BY <2>1, <2>2 DEF FirstItemOf, NoItem, FirstItem
<1>4. FirstWrite
  BY <1>2, <1>3 DEF FirstWrite, Ended
<1>5. UpToDateCopies
  BY <1>2 DEF UpToDateCopies, UpToDate
<1> QED
  BY <1>1, <1>4, <1>5 DEF IInv

\* A step keeps the invariant, and is at most one write of one entry.
LEMMA InvStep ==
  ASSUME OneFirstStart, IInv, [Next]_vars
  PROVE  IInv' /\ [Entries!Next]_(item.entries)
<1> DEFINE Claim == IInv' /\ [Entries!Next]_(item.entries)
<1>1. TInv'
  BY TypeStep DEF IInv
<1>2. Raised => [Entries!Next]_(item.entries)
  BY DEF Raised, Entries!Next, Entries!Write
<1>3. ASSUME NEW r \in Requests, Handle(r) \/ HandlerFails(r) PROVE Claim
  <2>1. /\ item.present /\ HandlerOnly
        /\ \A q \in Requests \ {r} : handler'[q] = handler[q]
        /\ \/ item' = item /\ handler'[r].copy \in {NoItem, handler[r].copy, item}
           \/ Raised /\ handler'[r].copy = NoItem
    BY <1>3, HandlerEffect
  <2>2. FirstWrite' /\ UpToDateCopies'
    BY <1>1, <2>1, HandlerKeeps
  <2> QED
    BY <1>1, <1>2, <2>1, <2>2 DEF IInv
<1>4. ASSUME NEW s \in Servers, Start(s) \/ StarterFails(s), item.present PROVE Claim
  <2>1. /\ StarterOnly /\ starter'[s].pc # "init"
        /\ \A t \in Servers \ {s} : starter'[t] = starter[t]
        /\ \/ item' = item /\ starter'[s].copy \in {NoItem, starter[s].copy, item}
           \/ Raised /\ starter'[s].copy = NoItem
    BY <1>4, StarterEffect
  <2>2. FirstWrite' /\ UpToDateCopies'
    BY <1>1, <1>4, <2>1, StarterKeeps
  <2> QED
    BY <1>1, <1>2, <2>1, <2>2 DEF IInv
<1>5. ASSUME NEW s \in Servers, Start(s) \/ StarterFails(s), ~item.present PROVE Claim
  <2>1. FirstWrite' /\ UpToDateCopies' /\ item'.entries = item.entries
    BY <1>1, <1>5, FirstStartEffect
  <2> QED
    BY <1>1, <2>1 DEF IInv
<1>6. ASSUME NEW s \in Servers, Crash(s) PROVE Claim
  BY <1>1, <1>6, CrashEffect DEF IInv
<1>7. ASSUME UNCHANGED vars PROVE Claim
  <2>1. FirstWrite' /\ UpToDateCopies' /\ item' = item
    BY <1>7 DEF vars, IInv, FirstWrite, UpToDateCopies, UpToDate
  <2> QED
    BY <1>1, <2>1 DEF IInv
<1> HIDE DEF Claim
<1>8. ASSUME NEW s \in Servers, Start(s) \/ StarterFails(s) PROVE Claim
  <2>1. CASE item.present
    BY <1>4, <1>8, <2>1
  <2>2. CASE ~item.present
    BY <1>5, <1>8, <2>2
  <2> QED
    BY <2>1, <2>2
<1>9. Claim
  BY <1>3, <1>6, <1>7, <1>8 DEF Next
<1> QED
  BY <1>9 DEF Claim

\* The optimistic lock works, for any data, bounds and number of processes: unless
\* several servers start on an empty table, a writer's copy of the item is the item
\* or too old to be put back.
THEOREM CopiesUpToDate == OneFirstStart => (Spec => []UpToDateCopies)
<1> SUFFICES ASSUME OneFirstStart PROVE Spec => []UpToDateCopies
  OBVIOUS
<1>1. IInv /\ [Next]_vars => IInv'
  BY InvStep
<1>2. IInv => UpToDateCopies
  BY DEF IInv
<1> QED
  BY <1>1, <1>2, InitInv, PTL DEF Spec

\* The registry implements RegistryEntries: under the same condition no interleaving
\* of deploys, starting servers, crashes and lost answers loses the entry of a
\* service, or changes two entries in one write.
THEOREM EntriesImplemented == OneFirstStart => (Spec => EntriesSpec)
<1> SUFFICES ASSUME OneFirstStart PROVE Spec => EntriesSpec
  OBVIOUS
<1>1. Init => Entries!Init
  <2> SUFFICES ASSUME Init PROVE Entries!Init
    OBVIOUS
  <2>1. item \in Item
    BY InitType DEF TInv, TypeOK
  <2> QED
    BY <2>1 DEF Entries!Init, Item
<1>2. IInv /\ [Next]_vars => IInv' /\ [Entries!Next]_(item.entries)
  BY InvStep
<1> QED
  BY <1>1, <1>2, InitInv, PTL DEF Spec, EntriesSpec, Entries!Spec
-----------------------------------------------------------------------------
(* The migration, on one server: until the API version is raised nobody    *)
(* else writes, so the copies match and each service is migrated that has  *)
(* left the list.                                                          *)

Limited(v) == item.entries[v] # NoEntry => item.entries[v].limits # None
Listing(s, v) == \E e \in starter[s].todo : e.name = v /\ Found(item, v, e.cluster)

Migrating(s) == LET st == starter[s] IN
  /\ st.pc \notin {"resume", "up"}
  /\ st.pc \in {"last", "read", "put"} => \A v \in Services : Limited(v) \/ Listing(s, v)
  /\ st.pc \in {"setRead", "setPut"} => \A v \in Services : Limited(v)
  /\ st.pc \in {"put", "setPut"} => st.copy = item

Migration ==
  /\ MigratedCompletely
  /\ item.api # "current" =>
       /\ \A r \in Requests : handler[r].pc \in Ended \cup {"idle"}
       /\ \A s \in Servers : Migrating(s)

\* What the writes of the item change in an entry, and that they keep the API version.
LEMMA RegisteredEntries ==
  ASSUME NEW copy \in Item, NEW v \in Services, NEW entry
  PROVE  LET new == Registered(copy, v, entry) IN
         new.api = copy.api /\ new.entries = [copy.entries EXCEPT ![v] = entry]
  BY BumpedType DEF Registered, Bumped, Item

LEMMA LimitsEntries ==
  ASSUME NEW copy \in Item, NEW v \in Services, NEW c \in Clusters, Found(copy, v, c), NEW limits \in Limits
  PROVE  LET new == WithLimits(copy, v, limits) IN
         /\ new.api = copy.api /\ new.entries[v].limits = limits
         /\ \A u \in Services \ {v} : new.entries[u] = copy.entries[u]
<1> DEFINE entry == [copy.entries[v] EXCEPT !.limits = limits]
<1>1. copy.entries \in [Services -> Entry \cup {NoEntry}] /\ entry.limits = limits
  BY FoundEntry DEF Item, Entry
<1>2. Bumped(copy) \in Item /\ Bumped(copy).api = copy.api /\ Bumped(copy).entries = copy.entries
  BY BumpedType DEF Bumped, Item
<1>3. WithLimits(copy, v, limits) = [Bumped(copy) EXCEPT !.entries = [copy.entries EXCEPT ![v] = entry]]
  BY <1>1, <1>2 DEF WithLimits, Item
<1> HIDE DEF entry
<1>4. /\ WithLimits(copy, v, limits).api = copy.api
      /\ WithLimits(copy, v, limits).entries = [copy.entries EXCEPT ![v] = entry]
  BY <1>2, <1>3 DEF Item
<1> QED
  BY <1>1, <1>4

LEMMA ListenersEntries ==
  ASSUME NEW copy \in Item, NEW v \in Services, NEW c \in Clusters, Found(copy, v, c), NEW b \in Balancers
  PROVE  LET new == WithListeners(copy, v, b) IN
         /\ new.api = copy.api /\ new.entries[v].limits = copy.entries[v].limits
         /\ \A u \in Services \ {v} : new.entries[u] = copy.entries[u]
<1> DEFINE entry == [copy.entries[v] EXCEPT !.listeners = b]
<1>1. copy.entries \in [Services -> Entry \cup {NoEntry}] /\ entry.limits = copy.entries[v].limits
  BY FoundEntry DEF Item, Entry
<1>2. Bumped(copy) \in Item /\ Bumped(copy).api = copy.api /\ Bumped(copy).entries = copy.entries
  BY BumpedType DEF Bumped, Item
<1>3. WithListeners(copy, v, b) = [Bumped(copy) EXCEPT !.entries = [copy.entries EXCEPT ![v] = entry]]
  BY <1>1, <1>2 DEF WithListeners, Item
<1> HIDE DEF entry
<1>4. /\ WithListeners(copy, v, b).api = copy.api
      /\ WithListeners(copy, v, b).entries = [copy.entries EXCEPT ![v] = entry]
  BY <1>2, <1>3 DEF Item
<1> QED
  BY <1>1, <1>4

\* A deploy keeps the API version and the limits.
LEMMA HandlerKeepsLimits ==
  ASSUME IInv, NEW r \in Requests, Handle(r) \/ HandlerFails(r)
  PROVE  item'.api = item.api /\ \A v \in Services : Limited(v) => Limited(v)'
<1> DEFINE h == handler[r]
           Claim == item'.api = item.api /\ \A v \in Services : Limited(v) => Limited(v)'
<1>1. /\ h.copy \in Item /\ item \in Item /\ UpToDate(h.copy) /\ TInv /\ FirstWrite
      /\ ServiceOf[r] \in Services /\ ClusterOf[r] \in Clusters /\ LimitsOf[r] \in Limits
      /\ BalancerOf[r] \in Balancers /\ None \notin Limits
  BY DataTypes, DataAssumption DEF IInv, TInv, TypeOK, Handler, UpToDateCopies
<1>2. Matches(h.copy) => h.copy = item
  BY <1>1, MatchingCopy
<1>3. h.pc \in {"listenersPut", "limitsPut"} => Found(h.copy, ServiceOf[r], ClusterOf[r])
  BY <1>1 DEF TInv, Prepared
<1>4. CASE item' = item
  BY <1>4 DEF Limited
<1>5. CASE item' = Registered(item, ServiceOf[r], NewEntry(r))
  <2>1. NewEntry(r).limits = LimitsOf[r]
    BY DEF NewEntry
  <2>2. item'.api = item.api /\ item'.entries = [item.entries EXCEPT ![ServiceOf[r]] = NewEntry(r)]
    BY <1>1, <1>5, RegisteredEntries
  <2>3. item.entries \in [Services -> Entry \cup {NoEntry}]
    BY <1>1 DEF Item
  <2> QED
    BY <1>1, <2>1, <2>2, <2>3 DEF Limited
<1>6. CASE Found(item, ServiceOf[r], ClusterOf[r]) /\ item' = WithLimits(item, ServiceOf[r], LimitsOf[r])
  <2>1. /\ item'.api = item.api /\ item'.entries[ServiceOf[r]].limits = LimitsOf[r]
        /\ \A u \in Services \ {ServiceOf[r]} : item'.entries[u] = item.entries[u]
    BY <1>1, <1>6, LimitsEntries
  <2> QED
    BY <1>1, <2>1 DEF Limited
<1>7. CASE Found(item, ServiceOf[r], ClusterOf[r]) /\ item' = WithListeners(item, ServiceOf[r], BalancerOf[r])
  <2>1. /\ item'.api = item.api
        /\ item'.entries[ServiceOf[r]].limits = item.entries[ServiceOf[r]].limits
        /\ \A u \in Services \ {ServiceOf[r]} : item'.entries[u] = item.entries[u]
    BY <1>1, <1>7, ListenersEntries
  <2>2. item.entries[ServiceOf[r]] # NoEntry
    BY <1>1, <1>7, DataAssumption DEF Found, NoEntry
  <2> QED
    BY <2>1, <2>2 DEF Limited
<1> HIDE DEF Claim
<1>8. CASE CreatePut(r)
  BY <1>2, <1>4, <1>5, <1>8 DEF CreatePut
<1>9. CASE UpdateServiceListeners(r)
  BY <1>2, <1>3, <1>4, <1>7, <1>9 DEF UpdateServiceListeners, ReadForUpdate, PutUpdate
<1>10. CASE UpdateServiceLimits(r)
  BY <1>2, <1>3, <1>4, <1>6, <1>10 DEF UpdateServiceLimits, ReadForUpdate, PutUpdate
<1>11. CASE ~(CreatePut(r) \/ UpdateServiceListeners(r) \/ UpdateServiceLimits(r))
  BY <1>4, <1>11 DEF Handle, HandlerFails, Begin, EnsureService, CheckExists, CreateRead, NewDeployment
<1> QED
  BY <1>8, <1>9, <1>10, <1>11 DEF Claim

\* Before the API version is raised nobody deploys.
LEMMA NobodyDeploys ==
  ASSUME Migration, item.api # "current", NEW r \in Requests, Handle(r)
  PROVE  FALSE
<1>1. handler[r].pc \in {"done", "error", "dead", "idle"}
  BY DEF Migration, Ended
<1>2. ASSUME NEW s \in Servers, Begin(r, s) PROVE FALSE
  BY <1>2 DEF Begin, Migration, Migrating
<1> QED
  BY <1>1, <1>2 DEF Handle, EnsureService, CheckExists, CreateRead, CreatePut,
     UpdateServiceListeners, UpdateServiceLimits, NewDeployment

\* Every step of the one server that is migrating.
LEMMA MigrationStep ==
  ASSUME IInv, Migration, item.api # "current", NEW s \in Servers, \A t \in Servers : t = s, Start(s)
  PROVE  Migration' \/ faults' # faults
<1> DEFINE st == starter[s]
<1>1. /\ item \in Item /\ st \in Starter /\ Migrating(s) /\ TInv /\ TypeOK /\ FirstWrite
      /\ \A r \in Requests : handler[r].pc \in Ended \cup {"idle"}
  BY DEF IInv, TInv, TypeOK, Migration
<1>2. item.entries \in [Services -> Entry \cup {NoEntry}] /\ None \notin Limits /\ None \notin Clusters
  BY <1>1, DataAssumption DEF Item
<1>3. StarterOnly /\ handler' = handler
  BY DEF Start, Launch, GetApiVersion, InitDB, ListServices, NextService, MigrateLimits, SetApiVersion,
         ResumeWork, StarterOnly
<1>4. ASSUME NEW new, Starts(s, new) PROVE starter'[s] = new
  BY <1>1, <1>4 DEF Starts, TypeOK
<1>5. ASSUME Migrating(s)', item'.api # "current" PROVE Migration'
  BY <1>1, <1>3, <1>5 DEF Migration, MigratedCompletely
<1>6. ASSUME UNCHANGED item, starter'[s].pc \in {"down", "api", "init", "list"} PROVE Migration'
  BY <1>5, <1>6 DEF Migrating
<1>7. CASE Launch(s)
  <2>1. starter'[s].pc = "api"
    BY <1>1, <1>4, <1>7 DEF Launch, At, Starter
  <2> QED
    BY <1>6, <1>7, <2>1 DEF Launch
<1>8. CASE GetApiVersion(s)
  <2>1. starter'[s].pc \in {"init", "list"}
    BY <1>4, <1>8 DEF GetApiVersion, OnMissing, Down
  <2> QED
    BY <1>6, <1>8, <2>1 DEF GetApiVersion
<1>9. CASE InitDB(s)
  BY <1>9 DEF InitDB, FirstItem, Empty, Migration, MigratedCompletely
<1>10. CASE ListServices(s)
  <2> DEFINE todo == {e \in Listed : Found(item, e.name, e.cluster)}
  <2>1. starter'[s].pc = "last" /\ starter'[s].todo = todo /\ UNCHANGED item
    BY <1>4, <1>10 DEF ListServices, Down
  <2>2. ASSUME NEW v \in Services, ~Limited(v)
        PROVE  \E e \in todo : e.name = v /\ Found(item, v, e.cluster)
    <3> DEFINE x == [name |-> v, cluster |-> item.entries[v].cluster]
    <3>1. item.entries[v] \in Entry
      BY <1>2, <2>2 DEF Limited
    <3>2. x \in Listed /\ x.name = v /\ x.cluster = item.entries[v].cluster
      BY <3>1 DEF Listed, Entry
    <3> QED
      BY <3>2 DEF Found
  <2> HIDE DEF todo
  <2>3. Migrating(s)'
    BY <2>1, <2>2 DEF Migrating, Limited, Listing, Found
  <2> QED
    BY <1>5, <2>1, <2>3
<1>11. CASE NextService(s)
  <2>1. UNCHANGED item /\ st.pc = "last"
    BY <1>11 DEF NextService
  <2>2. CASE st.todo = {} /\ At(s, "setRead")
    <3>1. starter'[s].pc = "setRead"
      BY <1>1, <1>4, <2>2 DEF At, Starter
    <3>2. \A v \in Services : Limited(v)
      BY <1>1, <2>1, <2>2 DEF Migrating, Listing
    <3>3. Migrating(s)'
      BY <2>1, <3>1, <3>2 DEF Migrating, Limited
    <3> QED
      BY <1>5, <2>1, <3>3
  <2>3. ASSUME NEW e \in st.todo,
               Starts(s, [st EXCEPT !.pc = "read", !.cur = e, !.limits = LimitsOf[last[e.name]]])
        PROVE  Migration'
    <3>1. starter'[s].pc = "read" /\ starter'[s].todo = st.todo
      BY <1>1, <1>4, <2>3 DEF Starter
    <3>2. \A v \in Services : Limited(v) \/ Listing(s, v)
      BY <1>1, <2>1 DEF Migrating
    <3>3. Migrating(s)'
      BY <2>1, <3>1, <3>2 DEF Migrating, Limited, Listing, Found
    <3> QED
      BY <1>5, <2>1, <3>3
  <2>4. CASE Starts(s, Down)
    <3>1. starter'[s].pc = "down"
      BY <1>4, <2>4 DEF Down
    <3> QED
      BY <1>6, <2>1, <3>1
  <2> QED
    BY <1>11, <2>2, <2>3, <2>4 DEF NextService, Migrated
<1>12. NextOne(s).pc = "last" /\ NextOne(s).todo = st.todo \ {st.cur}
  BY DEF NextOne, Down
<1>13. st.pc \in {"read", "put"} =>
         /\ st.cur \in Listed /\ st.cur.name \in Services /\ st.cur.cluster \in Clusters /\ st.limits \in Limits
         /\ \A v \in Services : Limited(v) \/ Listing(s, v)
  BY <1>1 DEF TInv, Prepared, Listed, Migrating
<1>14. CASE MigrateLimits(s)
  <2>1. CASE /\ st.pc = "read" /\ Found(item, st.cur.name, st.cur.cluster) /\ UNCHANGED item
             /\ Starts(s, [st EXCEPT !.pc = "put", !.copy = item])
    <3>1. starter'[s].pc = "put" /\ starter'[s].todo = st.todo /\ starter'[s].copy = item
      BY <1>1, <1>4, <2>1 DEF Starter
    <3>2. Migrating(s)'
      BY <1>13, <2>1, <3>1 DEF Migrating, Limited, Listing, Found
    <3> QED
      BY <1>5, <2>1, <3>2
  <2>2. CASE /\ st.pc = "read" /\ ~Found(item, st.cur.name, st.cur.cluster) /\ UNCHANGED item
             /\ Starts(s, NextOne(s))
    <3>1. starter'[s].pc = "last" /\ starter'[s].todo = st.todo \ {st.cur}
      BY <1>4, <1>12, <2>2
    <3>2. \A v \in Services : Limited(v) \/ \E e \in starter'[s].todo : e.name = v /\ Found(item, v, e.cluster)
      BY <1>13, <2>2, <3>1 DEF Listing
    <3>3. Migrating(s)'
      BY <2>2, <3>1, <3>2 DEF Migrating, Limited, Listing, Found
    <3> QED
      BY <1>5, <2>2, <3>3
  <2>3. CASE /\ st.pc = "put" /\ Starts(s, NextOne(s))
             /\ item' = IF Matches(st.copy) THEN WithLimits(st.copy, st.cur.name, st.limits) ELSE item
    <3>1. st.copy = item /\ item.present /\ Found(item, st.cur.name, st.cur.cluster)
      BY <1>1, <2>3 DEF Migrating, FirstWrite, TInv, Prepared
    <3>2. item' = WithLimits(item, st.cur.name, st.limits)
      BY <2>3, <3>1 DEF Matches
    <3>3. /\ item'.api = item.api /\ item'.entries[st.cur.name].limits = st.limits
          /\ \A u \in Services \ {st.cur.name} : item'.entries[u] = item.entries[u]
      BY <1>1, <1>13, <2>3, <3>1, <3>2, LimitsEntries
    <3>4. starter'[s].pc = "last" /\ starter'[s].todo = st.todo \ {st.cur}
      BY <1>4, <1>12, <2>3
    <3>5. ASSUME NEW v \in Services
          PROVE  Limited(v)' \/ Listing(s, v)'
      <4>1. CASE v = st.cur.name
        BY <1>2, <1>13, <2>3, <3>3, <4>1 DEF Limited
      <4>2. CASE v # st.cur.name
        <5>1. item'.entries[v] = item.entries[v]
          BY <3>3, <4>2
        <5>2. Limited(v) \/ \E e \in st.todo \ {st.cur} : e.name = v /\ Found(item, v, e.cluster)
          BY <1>13, <2>3, <4>2 DEF Listing
        <5> QED
          BY <3>4, <5>1, <5>2 DEF Limited, Listing, Found
      <4> QED
        BY <4>1, <4>2
    <3>6. Migrating(s)'
      BY <3>4, <3>5 DEF Migrating
    <3> QED
      BY <1>5, <3>3, <3>6
  <2> QED
    BY <1>14, <2>1, <2>2, <2>3 DEF MigrateLimits
<1>15. CASE SetApiVersion(s)
  <2>1. CASE st.pc = "setRead" /\ Starts(s, [Down EXCEPT !.pc = "setPut", !.copy = item]) /\ UNCHANGED item
    <3>1. starter'[s].pc = "setPut" /\ starter'[s].copy = item
      BY <1>4, <2>1 DEF Down
    <3>2. Migrating(s)'
      BY <1>1, <2>1, <3>1 DEF Migrating, Limited
    <3> QED
      BY <1>5, <2>1, <3>2
  <2>2. CASE /\ st.pc = "setPut"
             /\ item' = IF Matches(st.copy) THEN [Bumped(st.copy) EXCEPT !.api = "current"] ELSE item
    <3>1. st.copy = item /\ item.present /\ \A v \in Services : Limited(v)
      BY <1>1, <2>2 DEF Migrating, FirstWrite
    <3>2. item' = [Bumped(item) EXCEPT !.api = "current"]
      BY <2>2, <3>1 DEF Matches
    <3>3. item'.api = "current" /\ item'.entries = item.entries
      BY <1>1, <3>2, BumpedType DEF Item
    <3> QED
      BY <3>1, <3>3 DEF Migration, MigratedCompletely, Limited
  <2> QED
    BY <1>15, <2>1, <2>2 DEF SetApiVersion
<1>16. ~ResumeWork(s)
  BY <1>1 DEF ResumeWork, Migrating
<1> QED
  BY <1>7, <1>8, <1>9, <1>10, <1>11, <1>14, <1>15, <1>16 DEF Start

\* Once it is raised, a server that starts finds it so.
LEMMA MigratedStays ==
  ASSUME IInv, Migration, item.api = "current", NEW s \in Servers, Start(s)
  PROVE  Migration'
<1> DEFINE st == starter[s]
<1>1. /\ item \in Item /\ st \in Starter /\ st.copy \in Item /\ UpToDate(st.copy) /\ TInv /\ FirstWrite
      /\ \A v \in Services : Limited(v)
  BY DEF IInv, TInv, TypeOK, Starter, UpToDateCopies, Migration, MigratedCompletely, Limited
<1>2. Matches(st.copy) => st.copy = item
  BY <1>1, MatchingCopy
<1>3. CASE item' = item
  BY <1>3 DEF Migration, MigratedCompletely
<1>4. CASE InitDB(s)
  BY <1>4 DEF InitDB, FirstItem, Empty, Migration, MigratedCompletely
<1>5. CASE /\ st.pc = "put" /\ Matches(st.copy)
           /\ item' = WithLimits(st.copy, st.cur.name, st.limits)
  <2>1. /\ st.copy = item /\ Found(item, st.cur.name, st.cur.cluster)
        /\ st.cur \in Listed /\ st.limits \in Limits
    BY <1>1, <1>2, <1>5 DEF TInv, Prepared
  <2>2. st.cur.name \in Services /\ st.cur.cluster \in Clusters /\ None \notin Limits
    BY <2>1, DataAssumption DEF Listed
  <2>3. /\ item'.api = item.api /\ item'.entries[st.cur.name].limits = st.limits
        /\ \A u \in Services \ {st.cur.name} : item'.entries[u] = item.entries[u]
    BY <1>1, <1>5, <2>1, <2>2, LimitsEntries
  <2> QED
    BY <1>1, <2>1, <2>2, <2>3 DEF Migration, MigratedCompletely, Limited
<1>6. CASE Matches(st.copy) /\ item' = [Bumped(st.copy) EXCEPT !.api = "current"]
  <2>1. item'.entries = item.entries /\ item'.api = "current"
    BY <1>1, <1>2, <1>6, BumpedType DEF Item
  <2> QED
    BY <1>1, <2>1 DEF Migration, MigratedCompletely, Limited
<1> QED
  BY <1>3, <1>4, <1>5, <1>6 DEF Start, Launch, GetApiVersion, ListServices, NextService,
     MigrateLimits, SetApiVersion, ResumeWork

LEMMA NextMigration ==
  ASSUME IInv, Migration, [Next]_vars, \A s, t \in Servers : s = t, faults' = 0, faults = 0
  PROVE  Migration'
<1>1. ~Fault
  BY DEF Fault
<1>2. ASSUME NEW r \in Requests, Handle(r)
      PROVE  Migration'
  <2>1. item.api = "current"
    BY <1>2, NobodyDeploys
  <2>2. item'.api = item.api /\ \A v \in Services : Limited(v) => Limited(v)'
    BY <1>2, HandlerKeepsLimits
  <2> QED
    BY <2>1, <2>2 DEF Migration, MigratedCompletely, Limited
<1>3. ASSUME NEW s \in Servers, Start(s)
      PROVE  Migration'
  BY <1>3, MigrationStep, MigratedStays
<1>4. ASSUME NEW s \in Servers, Crash(s)
      PROVE  Migration'
  <2>1. item' = item /\ \A r \in Requests : handler'[r] = handler[r] \/ handler'[r].pc = "dead"
    BY <1>4 DEF Crash, IdleHandler
  <2>2. starter'[s] = Down
    BY <1>4 DEF Crash, Starts, IInv, TInv, TypeOK
  <2>3. \A t \in Servers : Migrating(t)'
    BY <2>2 DEF Migrating, Down
  <2> QED
    BY <2>1, <2>3 DEF Migration, MigratedCompletely, Ended
<1>5. CASE UNCHANGED vars
  BY <1>5 DEF vars, Migration, MigratedCompletely, Migrating, Limited, Listing, Found
<1>6. ASSUME NEW r \in Requests, HandlerFails(r) PROVE FALSE
  BY <1>1, <1>6 DEF HandlerFails
<1>7. ASSUME NEW s \in Servers, StarterFails(s) PROVE FALSE
  BY <1>1, <1>7 DEF StarterFails
<1> QED
  BY <1>2, <1>3, <1>4, <1>5, <1>6, <1>7 DEF Next

\* Migration.run: one server that starts on an old table, however often it ends half
\* way, raises the API version when every service has its limits, as long as its calls
\* succeed; and deploys do not take them away.
THEOREM MigrationComplete ==
  ASSUME \A s, t \in Servers : s = t
  PROVE  Spec /\ [](faults = 0) => []MigratedCompletely
<1>1. Init => Migration
  <2> SUFFICES ASSUME Init PROVE Migration
    OBVIOUS
  <2>1. \A s \in Servers : Migrating(s)
    BY DEF Init, Migrating, Down
  <2>2. \A r \in Requests : handler[r].pc \in Ended \cup {"idle"}
    BY DEF Init, IdleHandler, Ended
  <2>3. ASSUME item.api = "current", NEW v \in Services, item.entries[v] # NoEntry
        PROVE  item.entries[v].limits # None
    <3>1. PICK database \in Databases : item = FirstItemOf(database)
      BY DEF Init
    <3>2. database = "current" /\ item.entries = OldEntries(database)
      BY <2>3, <3>1, DatabaseAssumption DEF FirstItemOf, NoItem, FirstItem
    <3>3. /\ DeployedOf(v, database) # {}
          /\ item.entries[v] = OldEntry(LastOf(v, database), database)
      BY <2>3, <3>2 DEF OldEntries
    <3>4. LastOf(v, database) \in Requests
      BY <3>3, FirstItems
    <3>5. item.entries[v].limits = LimitsOf[LastOf(v, database)]
      BY <3>2, <3>3 DEF OldEntry
    <3>6. LimitsOf[LastOf(v, database)] \in Limits
      BY <3>4, DataTypes
    <3> QED
      BY <3>5, <3>6, DataAssumption
  <2> QED
    BY <2>1, <2>2, <2>3 DEF Migration, MigratedCompletely
<1>2. OneFirstStart
  BY DEF OneFirstStart
<1>3. IInv /\ [Next]_vars => IInv'
  BY <1>2, InvStep
<1>4. IInv /\ Migration /\ [Next]_vars /\ faults = 0 /\ (faults = 0)' => Migration'
  BY NextMigration
<1>5. Migration => MigratedCompletely
  BY DEF Migration
<1> QED
  BY <1>1, <1>3, <1>4, <1>5, InitInv, PTL DEF Spec

-----------------------------------------------------------------------------
(* The retries of CreateService: each refused put means that another writer *)
(* has raised the version.                                                 *)

\* While r creates its service, the item is written fewer than Attempts times.
Calm(n) == \A r \in Requests :
  /\ handler[r].pc = "check" => item.version >= n[r]
  /\ handler[r].pc \in {"read", "put"} => item.version < n[r] + Attempts

\* Pcs at which CreateService is done with.
Created == {"listenersRead", "listenersPut", "limitsRead", "limitsPut", "new", "done"}
HasEntry(r) == item.entries[ServiceOf[r]] # NoEntry

\* Each try has seen one more write than the one before it.
Counting(n) == \A r \in Requests : LET h == handler[r] IN
  /\ h.pc \in Created => HasEntry(r)
  /\ h.pc = "read" => item.version >= n[r] + h.tries
  /\ h.pc = "put" => h.copy.version >= n[r] + h.tries

\* A write keeps every entry, and the version grows.
LEMMA EntriesStay ==
  ASSUME IInv, item' = item \/ Raised
  PROVE  /\ \A v \in Services : item.entries[v] # NoEntry => item'.entries[v] # NoEntry
         /\ item'.version \in Nat /\ item'.version >= item.version
<1>1. item \in Item
  BY DEF IInv, TInv, TypeOK
<1>2. NoEntry \notin Entry
  BY DataAssumption DEF Entry, NoEntry
<1>3. item.version \in Nat /\ item.entries \in [Services -> Entry \cup {NoEntry}]
  BY <1>1 DEF Item
<1>4. item'.version \in Nat /\ item'.version >= item.version
  <2>1. item'.version = item.version \/ item'.version = item.version + 1
    BY DEF Raised
  <2> QED
    BY <1>3, <2>1
<1>5. CASE item'.entries = item.entries
  BY <1>4, <1>5
<1>6. CASE \E v \in Services, entry \in Entry : item'.entries = [item.entries EXCEPT ![v] = entry]
  BY <1>2, <1>3, <1>4, <1>6
<1> QED
  BY <1>5, <1>6 DEF Raised

\* What a step keeps of a handler that does not take it.
LEMMA CountingStays ==
  ASSUME IInv, NEW n \in [Requests -> Nat], Counting(n), item' = item \/ Raised,
         NEW q \in Requests, handler'[q] = handler[q]
  PROVE  LET h == handler'[q] IN
         /\ h.pc \in Created => HasEntry(q)'
         /\ h.pc = "read" => item'.version >= n[q] + h.tries
         /\ h.pc = "put" => h.copy.version >= n[q] + h.tries
<1>1. /\ ServiceOf[q] \in Services /\ handler[q].tries \in 0..Attempts
      /\ item.version \in Nat /\ n[q] \in Nat /\ Attempts \in Nat
  BY DataTypes, BoundsAssumption DEF IInv, TInv, TypeOK, Handler, Item
<1>2. handler'[q].pc \in Created => HasEntry(q)'
  BY <1>1, EntriesStay DEF Counting, HasEntry
<1>3. ASSUME handler'[q].pc = "read" PROVE item'.version >= n[q] + handler'[q].tries
  <2>1. item.version >= n[q] + handler[q].tries
    BY <1>3 DEF Counting
  <2>2. item'.version \in Nat /\ item'.version >= item.version
    BY EntriesStay
  <2>3. n[q] + handler[q].tries \in Nat
    BY <1>1
  <2> QED
    BY <1>1, <2>1, <2>2, <2>3
<1>4. handler'[q].pc = "put" => handler'[q].copy.version >= n[q] + handler'[q].tries
  BY DEF Counting
<1> QED
  BY <1>2, <1>3, <1>4

\* A handler that takes a step: CreateService returns only when the entry is there.
LEMMA CountingStep ==
  ASSUME IInv, NEW n \in [Requests -> Nat], Counting(n), Calm(n), NEW r \in Requests, Handle(r), ~Fault
  PROVE  LET h == handler'[r] IN
         /\ h.pc \in Created => HasEntry(r)'
         /\ h.pc = "read" => item'.version >= n[r] + h.tries
         /\ h.pc = "put" => h.copy.version >= n[r] + h.tries
<1> DEFINE h == handler[r]
           new == handler'[r]
           Claim == /\ new.pc \in Created => HasEntry(r)'
                    /\ new.pc = "read" => item'.version >= n[r] + new.tries
                    /\ new.pc = "put" => new.copy.version >= n[r] + new.tries
<1>1. /\ h \in Handler /\ h.copy \in Item /\ item \in Item /\ UpToDate(h.copy)
      /\ handler \in [Requests -> Handler] /\ TInv /\ TypeOK /\ FirstWrite
  BY DEF IInv, TInv, TypeOK, Handler, UpToDateCopies
<1>2. /\ n[r] \in Nat /\ Attempts \in Nat /\ item.version \in Nat /\ h.copy.version \in Nat
      /\ h.tries \in 0..Attempts
  BY <1>1, BoundsAssumption DEF Handler, Item
<1>3. /\ ServiceOf[r] \in Services /\ NewEntry(r) \in Entry /\ NoEntry \notin Entry
  BY DataTypes, DataAssumption DEF Entry, NoEntry
<1>4. /\ item' = item \/ Raised
      /\ item.present
      /\ HasEntry(r) => HasEntry(r)'
  BY <1>3, HandlerEffect, EntriesStay DEF HasEntry
<1>5. ASSUME NEW x, Becomes(r, x) PROVE new = x
  BY <1>1, <1>5 DEF Becomes
<1>6. ASSUME NEW pc \in NoCopyPc, Go(r, pc) PROVE new.pc = pc
  BY <1>1, <1>6, GoType
<1>7. /\ AfterListeners(r) \in NoCopyPc \ {"read"}
      /\ AfterRegistration(r) \in NoCopyPc \ {"read"}
      /\ NoCopyPc \ {"read", "error"} \subseteq Created
  BY NextPcTypes DEF NoCopyPc, Created
<1>8. ASSUME NEW pc \in NoCopyPc, pc # "read", HasEntry(r)', Go(r, pc) PROVE Claim
  <2>1. new.pc = pc
    BY <1>6, <1>8
  <2> QED
    BY <1>8, <2>1 DEF NoCopyPc
<1>9. ASSUME Go(r, "error") PROVE Claim
  <2>1. new.pc = "error"
    BY <1>6, <1>9 DEF NoCopyPc
  <2> QED
    BY <2>1 DEF Created
<1> SUFFICES Claim
  OBVIOUS
<1> HIDE DEF Claim
<1>10. CASE \E s \in Servers : Begin(r, s)
  <2>1. new.pc = "exists"
    BY <1>5, <1>10 DEF Begin, IdleHandler
  <2> QED
    BY <2>1 DEF Claim, Created
<1>11. CASE EnsureService(r)
  <2>1. new.pc = "check"
    BY <1>1, <1>5, <1>11 DEF EnsureService, Handler
  <2> QED
    BY <2>1 DEF Claim, Created
<1>12. CASE CheckExists(r)
  <2>1. item' = item /\ h.pc = "check"
    BY <1>12 DEF CheckExists
  <2>2. CASE HasEntry(r) /\ Go(r, AfterRegistration(r))
    BY <1>4, <1>7, <1>8, <2>2
  <2>3. CASE Go(r, "read")
    <3>1. new.pc = "read"
      BY <1>6, <2>3 DEF NoCopyPc
    <3>2. new = [h EXCEPT !.pc = "read", !.copy = NoItem, !.tries = 0]
      BY <1>5, <2>3 DEF Go, Ended
    <3>3. new.tries = 0
      BY <1>1, <3>2 DEF Handler
    <3>4. item'.version >= n[r] + new.tries
      BY <1>2, <2>1, <3>3 DEF Calm
    <3> QED
      BY <3>1, <3>4 DEF Claim, Created
  <2> QED
    BY <1>12, <2>2, <2>3 DEF CheckExists, HasEntry
<1>13. CASE CreateRead(r)
  <2>1. /\ h.pc = "read" /\ item' = item
        /\ item.version >= n[r] + h.tries /\ item.version < n[r] + Attempts
    BY <1>13 DEF CreateRead, Counting, Calm
  <2>2. ~Exhausted(h.tries)
    BY <1>2, <2>1 DEF Exhausted
  <2>3. new = [h EXCEPT !.pc = "put", !.copy = item]
    BY <1>5, <1>13, <2>2 DEF CreateRead
  <2>4. new.pc = "put" /\ new.copy = item /\ new.tries = h.tries
    BY <1>1, <2>3 DEF Handler
  <2> QED
    BY <2>1, <2>4 DEF Claim, Created
<1>14. CASE CreatePut(r)
  <2>1. h.pc = "put" /\ h.copy.version >= n[r] + h.tries
    BY <1>14 DEF CreatePut, Counting
  <2>2. CASE item' = Registered(h.copy, ServiceOf[r], NewEntry(r)) /\ Go(r, AfterRegistration(r))
    <3>1. item'.entries = [h.copy.entries EXCEPT ![ServiceOf[r]] = NewEntry(r)]
      BY <1>1, <1>3, <2>2, RegisteredEntries
    <3>2. h.copy.entries \in [Services -> Entry \cup {NoEntry}]
      BY <1>1 DEF Item
    <3>3. HasEntry(r)'
      BY <1>3, <3>1, <3>2 DEF HasEntry
    <3> QED
      BY <1>7, <1>8, <2>2, <3>3
  <2>3. CASE ~Matches(h.copy) /\ Retry(r) /\ item' = item
    <3>1. new = [h EXCEPT !.pc = "read", !.copy = NoItem, !.tries = @ + 1]
      BY <1>5, <2>3 DEF Retry
    <3>2. new.pc = "read" /\ new.tries = h.tries + 1
      BY <1>1, <3>1 DEF Handler
    <3>3. h.copy.version < item.version
      <4>1. CASE h.copy = NoItem
        <5>0. NoItem.version = 0
          BY DEF NoItem
        <5>1. item.version > 0 /\ h.copy.version = 0
          BY <1>1, <1>4, <4>1, <5>0 DEF FirstWrite
        <5> QED
          BY <1>2, <5>1
      <4>2. h.copy # item
        BY <1>4, <2>3 DEF Matches
      <4> QED
        BY <1>1, <4>1, <4>2 DEF UpToDate
    <3>4. item'.version >= n[r] + new.tries
      BY <1>2, <2>1, <2>3, <3>2, <3>3
    <3> QED
      BY <3>2, <3>4 DEF Claim, Created
  <2> QED
    BY <1>14, <2>2, <2>3 DEF CreatePut
<1>15. CASE UpdateServiceListeners(r)
  <2>1. HasEntry(r)'
    BY <1>4, <1>15 DEF UpdateServiceListeners, Counting, Created
  <2>2. CASE Go(r, AfterListeners(r))
    BY <1>7, <1>8, <2>1, <2>2
  <2>3. CASE Becomes(r, [h EXCEPT !.pc = "listenersPut", !.copy = item])
    <3>1. new.pc = "listenersPut"
      BY <1>1, <1>5, <2>3 DEF Handler
    <3> QED
      BY <2>1, <3>1 DEF Claim
  <2> QED
    BY <1>15, <2>2, <2>3 DEF UpdateServiceListeners, ReadForUpdate, PutUpdate
<1>16. CASE UpdateServiceLimits(r)
  <2>1. HasEntry(r)'
    BY <1>4, <1>16 DEF UpdateServiceLimits, Counting, Created
  <2>2. CASE Go(r, "new")
    BY <1>8, <2>1, <2>2 DEF NoCopyPc
  <2>3. CASE Becomes(r, [h EXCEPT !.pc = "limitsPut", !.copy = item])
    <3>1. new.pc = "limitsPut"
      BY <1>1, <1>5, <2>3 DEF Handler
    <3> QED
      BY <2>1, <3>1 DEF Claim
  <2> QED
    BY <1>16, <2>2, <2>3 DEF UpdateServiceLimits, ReadForUpdate, PutUpdate
<1>17. CASE NewDeployment(r)
  <2>1. HasEntry(r)'
    BY <1>4, <1>17 DEF NewDeployment, Counting, Created
  <2>2. CASE Go(r, "done")
    BY <1>8, <2>1, <2>2 DEF NoCopyPc
  <2>3. CASE Go(r, "error")
    BY <1>9, <2>3
  <2> QED
    BY <1>17, <2>2, <2>3 DEF NewDeployment
<1> QED
  BY <1>10, <1>11, <1>12, <1>13, <1>14, <1>15, <1>16, <1>17 DEF Handle

LEMMA NextCounting ==
  ASSUME OneFirstStart, IInv, [Next]_vars, NEW n \in [Requests -> Nat], Counting(n), Calm(n),
         faults = 0, faults' = 0
  PROVE  Counting(n)'
<1>1. ~Fault
  BY DEF Fault
<1>2. ASSUME NEW r \in Requests, Handle(r) PROVE Counting(n)'
  <2>1. \A q \in Requests \ {r} : handler'[q] = handler[q]
    BY <1>2, HandlerEffect
  <2>2. item' = item \/ Raised
    BY <1>2, HandlerEffect
  <2>3. ASSUME NEW q \in Requests
        PROVE  LET h == handler'[q] IN
               /\ h.pc \in Created => HasEntry(q)'
               /\ h.pc = "read" => item'.version >= n[q] + h.tries
               /\ h.pc = "put" => h.copy.version >= n[q] + h.tries
    BY <1>1, <1>2, <2>1, <2>2, CountingStep, CountingStays
  <2> QED
    BY <2>3 DEF Counting, HasEntry
<1>3. ASSUME handler' = handler, item' = item \/ Raised PROVE Counting(n)'
  <2>1. ASSUME NEW q \in Requests
        PROVE  LET h == handler'[q] IN
               /\ h.pc \in Created => HasEntry(q)'
               /\ h.pc = "read" => item'.version >= n[q] + h.tries
               /\ h.pc = "put" => h.copy.version >= n[q] + h.tries
    BY <1>3, CountingStays
  <2> QED
    BY <2>1 DEF Counting, HasEntry
<1>4. ASSUME NEW s \in Servers, Start(s) PROVE Counting(n)'
  <2>1. CASE item.present
    BY <1>3, <1>4, <2>1, StarterEffect DEF StarterOnly
  <2>2. CASE ~item.present
    <3>1. /\ item'.entries = item.entries
          /\ \A r \in Requests : handler[r].pc \in Ended \cup {"idle"}
      BY <1>4, <2>2, TypeStep, FirstStartEffect DEF IInv, FirstWrite
    <3>2. handler' = handler
      BY <1>4 DEF Start, Launch, GetApiVersion, InitDB, ListServices, NextService,
         MigrateLimits, SetApiVersion, ResumeWork, StarterOnly
    <3> QED
      BY <3>1, <3>2 DEF Counting, HasEntry, Ended
  <2> QED
    BY <2>1, <2>2
<1>5. ASSUME NEW s \in Servers, Crash(s) PROVE Counting(n)'
  <2>1. item' = item /\ \A r \in Requests : handler'[r] = handler[r] \/ handler'[r].pc = "dead"
    BY <1>5 DEF Crash, IdleHandler
  <2> QED
    BY <2>1 DEF Counting, HasEntry, Created
<1>6. CASE UNCHANGED vars
  BY <1>3, <1>6 DEF vars
<1>7. ASSUME NEW r \in Requests, HandlerFails(r) PROVE FALSE
  BY <1>1, <1>7 DEF HandlerFails
<1>8. ASSUME NEW s \in Servers, StarterFails(s) PROVE FALSE
  BY <1>1, <1>8 DEF StarterFails
<1> QED
  BY <1>2, <1>4, <1>5, <1>6, <1>7, <1>8 DEF Next

\* CreateService: a deploy that ended well has its service in the registry, however
\* many deploys and starting servers write the item, if no call fails and fewer than
\* Attempts writes fall into the time in which it creates its service.
THEOREM ServicesRegistered ==
  ASSUME OneFirstStart, NEW n \in [Requests -> Nat]
  PROVE  Spec /\ [](faults = 0) /\ []Calm(n) => []CreatedInDynamo
<1>1. Init => Counting(n)
  <2> SUFFICES ASSUME Init, NEW r \in Requests
               PROVE  /\ handler[r].pc \in {"idle", "done"}
                      /\ handler[r].pc = "done" => HasEntry(r)
    BY DEF Counting, Created
  <2>1. PICK database \in Databases :
          /\ item = FirstItemOf(database)
          /\ handler = [q \in Requests |->
               IF q \in Before(database) THEN [IdleHandler EXCEPT !.pc = "done"] ELSE IdleHandler]
    BY DEF Init
  <2>2. handler[r].pc = IF r \in Before(database) THEN "done" ELSE "idle"
    BY <2>1 DEF IdleHandler
  <2>3. ASSUME r \in Before(database) PROVE HasEntry(r)
    <3>1. r \in DeployedOf(ServiceOf[r], database) /\ ServiceOf[r] \in Services
      BY <2>3, DataTypes DEF DeployedOf
    <3>2. item.entries = OldEntries(database)
      BY <2>1, <2>3, DatabaseAssumption DEF Before, FirstItemOf, FirstItem
    <3> DEFINE q == LastOf(ServiceOf[r], database)
    <3>3. item.entries[ServiceOf[r]] = OldEntry(q, database)
      BY <3>1, <3>2 DEF OldEntries
    <3>4. q \in Requests
      BY <3>1, FirstItems
    <3>5. ClusterOf[q] \in Clusters /\ OldEntry(q, database).cluster = ClusterOf[q]
      BY <3>4, DataTypes DEF OldEntry
    <3> QED
      BY <3>3, <3>5, DataAssumption DEF HasEntry, NoEntry
  <2> QED
    BY <2>2, <2>3
<1>2. IInv /\ [Next]_vars => IInv'
  BY InvStep
<1>3. IInv /\ Counting(n) /\ Calm(n) /\ [Next]_vars /\ faults = 0 /\ (faults = 0)' => Counting(n)'
  BY NextCounting
<1>4. Counting(n) => CreatedInDynamo
  BY DEF Counting, Created, HasEntry, CreatedInDynamo
<1> QED
  BY <1>1, <1>2, <1>3, <1>4, InitInv, PTL DEF Spec
=============================================================================
