-------------------------- MODULE NodeDrainProofs --------------------------
(***************************************************************************)
(* Proofs about NodeDrain, for any instances, servers, goroutines, length  *)
(* of the wait, and any number of crashes, failing calls and duplicates.   *)
(***************************************************************************)
EXTENDS NodeDrain, TLAPS

\* A goroutine waits for an instance that drains, and completes the action of
\* one that is empty, and stays so, or was seen busy until the last poll.
WaiterOK(w) ==
  /\ waiter[w].pc = "none" => waiter[w] = NoWaiter
  /\ waiter[w].pc # "none" => waiter[w].node \in draining
  /\ waiter[w].pc = "poll" => waiter[w].polls < Polls
  /\ waiter[w].pc = "complete" =>
       tasks[waiter[w].node] = 0 \/ polled[waiter[w].node] = Polls

HandlerOK(s) ==
  /\ handler[s].pc # "idle" => handler[s].node \in Nodes
  /\ handler[s].pc = "launch" => handler[s].node \in draining

FoundOK(s) == server[s].found \subseteq draining

Inv ==
  /\ TypeOK
  /\ \A w \in Waiters : WaiterOK(w)
  /\ \A s \in Servers : HandlerOK(s) /\ FoundOK(s)
  /\ NoneForgotten

-----------------------------------------------------------------------------
(* Records                                                                 *)

LEMMA Records ==
  /\ NoWaiter \in Waiter /\ IdleHandler \in Handler /\ Down \in Server
  /\ \A s \in Servers, n \in Nodes : NewWaiter(s, n) \in Waiter
  BY DrainConstants DEF NoWaiter, IdleHandler, Down, NewWaiter, Waiter, WaiterPc,
     Handler, HandlerPc, Server, ServerPc

LEMMA Naturals ==
  Polls \in Nat /\ Polls # 0 /\ 0 \in 0..Polls /\ MaxTasks \in Nat
  BY DrainConstants

THEOREM InitInv == Init => Inv
<1> SUFFICES ASSUME Init PROVE Inv
  OBVIOUS
<1> USE DEF Init
<1>1. TypeOK
  <2>1. life \in [Nodes -> Life]
    BY DEF Life
  <2>3. polled \in [Nodes -> 0..Polls]
    BY Naturals
  <2>2. /\ server \in [Servers -> Server] /\ handler \in [Servers -> Handler]
        /\ waiter \in [Waiters -> Waiter]
    BY Records
  <2> QED
    BY <2>1, <2>2, <2>3 DEF TypeOK
<1>2. \A w \in Waiters : WaiterOK(w)
  BY DEF WaiterOK, NoWaiter
<1>3. \A s \in Servers : HandlerOK(s) /\ FoundOK(s)
  BY DEF HandlerOK, FoundOK, IdleHandler, Down
<1>4. NoneForgotten
  BY DEF NoneForgotten
<1> QED
  BY <1>1, <1>2, <1>3, <1>4 DEF Inv

-----------------------------------------------------------------------------
(* The group, ECS and SNS                                                  *)

LEMMA ExternalInv ==
  ASSUME Inv, NEW n \in Nodes, External(n)
  PROVE  Inv'
<1> USE DEF Inv
<1>1. TypeOK'
  <2>1. tasks' \in [Nodes -> 0..MaxTasks]
    <3>1. tasks \in [Nodes -> 0..MaxTasks] /\ MaxTasks \in Nat
      BY DrainConstants DEF TypeOK
    <3>2. CASE PlaceTask(n)
      BY <3>1, <3>2 DEF PlaceTask
    <3>3. CASE StopTask(n)
      BY <3>1, <3>3 DEF StopTask
    <3>4. CASE tasks' = tasks
      BY <3>1, <3>4
    <3> QED
      BY <3>2, <3>3, <3>4 DEF External, Terminate, Expire, DrainByHand, Duplicate
  <2>2. messages' \subseteq Nodes /\ draining' \subseteq Nodes
    BY DEF TypeOK, External, Terminate, Expire, PlaceTask, StopTask, DrainByHand, Duplicate
  <2>5. duplicates' \in Nat
    <3>1. duplicates' \in {duplicates, duplicates + 1}
      BY DEF External, Terminate, Expire, PlaceTask, StopTask, DrainByHand, Duplicate,
         ProgramIdle, Bounds
    <3> QED
      BY <3>1 DEF TypeOK
  <2>4. life' \in [Nodes -> Life]
    BY DEF TypeOK, Life, External, Terminate, Expire, PlaceTask, StopTask, DrainByHand, Duplicate
  <2>3. UNCHANGED <<server, handler, waiter, polled, crashes, faults>>
    BY DEF External, Terminate, Expire, PlaceTask, StopTask, DrainByHand, Duplicate,
       ProgramIdle, Bounds
  <2> QED
    BY <2>1, <2>2, <2>3, <2>4, <2>5 DEF TypeOK
<1>2. ASSUME NEW w \in Waiters PROVE WaiterOK(w)'
  <2>1. waiter' = waiter /\ polled' = polled /\ draining \subseteq draining'
    BY DEF External, Terminate, Expire, PlaceTask, StopTask, DrainByHand, Duplicate, ProgramIdle
  <2>2. ASSUME NEW m \in draining, tasks[m] = 0 PROVE tasks'[m] = 0
    <3>1. tasks' = tasks \/ PlaceTask(n) \/ StopTask(n)
      BY DEF External, Terminate, Expire, DrainByHand, Duplicate
    <3> QED
      BY <2>2, <3>1 DEF TypeOK, PlaceTask, StopTask
  <2> QED
    BY <2>1, <2>2 DEF WaiterOK
<1>3. \A s \in Servers : HandlerOK(s)' /\ FoundOK(s)'
  BY DEF HandlerOK, FoundOK, External, Terminate, Expire, PlaceTask, StopTask, DrainByHand,
     Duplicate, ProgramIdle
<1>4. NoneForgotten'
  <2>1. /\ faults' = faults /\ server' = server /\ waiter' = waiter
        /\ messages \subseteq messages' /\ draining \subseteq draining'
    BY DEF External, Terminate, Expire, PlaceTask, StopTask, DrainByHand, Duplicate,
       ProgramIdle, Bounds
  <2>2. ASSUME NEW m \in Nodes, life'[m] = "terminating", m \notin messages'
        PROVE  life[m] = "terminating"
    BY <2>2 DEF TypeOK, External, Terminate, Expire, PlaceTask, StopTask, DrainByHand, Duplicate
  <2> QED
    BY <2>1, <2>2 DEF NoneForgotten, Watched, ToBeFound
<1> QED
  BY <1>1, <1>2, <1>3, <1>4

-----------------------------------------------------------------------------
(* The lifecycle handler                                                   *)

LEMMA ReceiveInv ==
  ASSUME Inv, NEW s \in Servers, NEW n \in Nodes, Receive(s, n)
  PROVE  Inv'
<1> USE DEF Inv, Receive, HandlerOnly, Bounds
<1>1. TypeOK'
  BY DEF TypeOK, Handler, HandlerPc
<1>2. \A w \in Waiters : WaiterOK(w)'
  BY DEF WaiterOK
<1>3. ASSUME NEW t \in Servers PROVE HandlerOK(t)' /\ FoundOK(t)'
  BY DEF TypeOK, HandlerOK, FoundOK
<1>4. NoneForgotten'
  BY DEF NoneForgotten, Watched, ToBeFound
<1> QED
  BY <1>1, <1>2, <1>3, <1>4

LEMMA DrainNodeInv ==
  ASSUME Inv, NEW s \in Servers, DrainNode(s)
  PROVE  Inv'
<1> USE DEF Inv, DrainNode, HandlerOnly, Bounds
<1>0. handler[s].node \in Nodes
  BY DEF HandlerOK
<1>1. TypeOK'
  <2>1. handler' \in [Servers -> Handler]
    BY DEF TypeOK, Handler, HandlerPc
  <2> QED
    BY <1>0, <2>1 DEF TypeOK
<1>2. \A w \in Waiters : WaiterOK(w)'
  BY DEF WaiterOK
<1>3. ASSUME NEW t \in Servers PROVE HandlerOK(t)' /\ FoundOK(t)'
  BY <1>0 DEF TypeOK, Handler, HandlerOK, FoundOK
<1>4. NoneForgotten'
  BY DEF NoneForgotten, Watched, ToBeFound
<1> QED
  BY <1>1, <1>2, <1>3, <1>4

LEMMA LaunchInv ==
  ASSUME Inv, NEW s \in Servers, Launch(s)
  PROVE  Inv'
<1> USE DEF Inv, Launch, HandlerOnly, Bounds
<1>0. PICK n \in Nodes : n = handler[s].node /\ n \in draining
  BY DEF HandlerOK
<1>1. PICK w \in Waiters :
        waiter[w] = NoWaiter /\ waiter' = [waiter EXCEPT ![w] = NewWaiter(s, n)]
  BY <1>0
<1>2. TypeOK'
  BY <1>0, <1>1, Records DEF TypeOK, Answered
<1>3. ASSUME NEW v \in Waiters PROVE WaiterOK(v)'
  BY <1>0, <1>1, DrainConstants DEF TypeOK, WaiterOK, NewWaiter
<1>4. ASSUME NEW t \in Servers PROVE HandlerOK(t)' /\ FoundOK(t)'
  BY DEF TypeOK, HandlerOK, FoundOK, IdleHandler
<1>5. NoneForgotten'
  <2>1. ASSUME NEW m \in Nodes, Watched(m) PROVE Watched(m)'
    BY <1>1, <2>1, DrainConstants DEF Watched, NoWaiter, TypeOK
  <2>2. Watched(n)'
    <3>1. waiter'[w].node = n
      BY <1>1 DEF NewWaiter, TypeOK
    <3> QED
      BY <3>1 DEF Watched
  <2>3. messages' = messages \ {n}
    BY <1>0 DEF Answered
  <2>5. UNCHANGED <<life, draining, server, faults>>
    OBVIOUS
  <2> HIDE DEF Launch, HandlerOnly, Bounds
  <2>4. ASSUME NEW m \in Nodes, life'[m] = "terminating", faults' = 0
        PROVE  m \in messages' \/ Watched(m)' \/ (ToBeFound(m)' /\ m \in draining')
    <3>1. CASE m = n
      BY <2>2, <3>1
    <3>2. CASE m # n
      BY <2>1, <2>3, <2>4, <2>5, <3>2 DEF NoneForgotten, ToBeFound
    <3> QED
      BY <3>1, <3>2
  <2> QED
    BY <2>4 DEF NoneForgotten
<1> QED
  BY <1>2, <1>3, <1>4, <1>5

LEMMA HandlerFailsInv ==
  ASSUME Inv, NEW s \in Servers, HandlerFails(s)
  PROVE  Inv'
<1> USE DEF Inv, HandlerFails, HandlerOnly, Fault
<1>0. handler[s].node \in Nodes /\ draining \subseteq draining'
  BY DEF HandlerOK
<1>1. TypeOK'
  BY <1>0, Records DEF TypeOK, Answered
<1>2. \A w \in Waiters : WaiterOK(w)'
  BY <1>0 DEF WaiterOK
<1>3. ASSUME NEW t \in Servers PROVE HandlerOK(t)' /\ FoundOK(t)'
  BY <1>0 DEF TypeOK, HandlerOK, FoundOK, IdleHandler
<1>4. NoneForgotten'
  BY DEF NoneForgotten, TypeOK
<1> QED
  BY <1>1, <1>2, <1>3, <1>4

-----------------------------------------------------------------------------
(* The goroutines                                                          *)

\* A goroutine ends and nobody has to look after its instance any more.
LEMMA EndsInv ==
  ASSUME Inv, NEW w \in Waiters, Ends(w), WaiterOnly, crashes' = crashes,
         duplicates' = duplicates, polled' = polled, faults' \in Nat,
         life' \in [Nodes -> Life],
         \A n \in Nodes : life'[n] \in {life[n], "gone"},
         \A n \in Nodes : faults' = 0 /\ life'[n] = "terminating"
                          => faults = 0 /\ n # waiter[w].node
  PROVE  Inv'
<1> USE DEF Inv, Ends, WaiterOnly
<1>1. TypeOK'
  BY Records DEF TypeOK
<1>2. ASSUME NEW v \in Waiters PROVE WaiterOK(v)'
  BY DEF TypeOK, WaiterOK, NoWaiter
<1>3. \A s \in Servers : HandlerOK(s)' /\ FoundOK(s)'
  BY DEF HandlerOK, FoundOK
<1>4. ASSUME NEW n \in Nodes, life'[n] = "terminating", faults' = 0, n \notin messages
      PROVE  Watched(n)' \/ (ToBeFound(n)' /\ n \in draining)
  <2>1. life[n] = "terminating" /\ faults = 0 /\ n # waiter[w].node
    BY <1>4
  <2>2. CASE Watched(n)
    BY <2>1, <2>2 DEF Watched, TypeOK
  <2>3. CASE ToBeFound(n) /\ n \in draining
    BY <2>3 DEF ToBeFound
  <2> QED
    BY <1>4, <2>1, <2>2, <2>3 DEF NoneForgotten
<1>5. NoneForgotten'
  BY <1>4 DEF NoneForgotten
<1> QED
  BY <1>1, <1>2, <1>3, <1>5

LEMMA PollInv ==
  ASSUME Inv, NEW w \in Waiters, Poll(w)
  PROVE  Inv'
<1> DEFINE n == waiter[w].node
<1> USE DEF Inv
<1>0. /\ waiter[w].pc = "poll" /\ waiter[w].polls < Polls /\ n \in draining
      /\ n \in Nodes /\ waiter[w] \in Waiter /\ life' = life
  BY DEF Poll, WaiterOK, TypeOK
<1>1. CASE life[n] = "gone"
  <2>1. /\ Ends(w) /\ WaiterOnly /\ polled' = polled /\ crashes' = crashes
        /\ duplicates' = duplicates /\ faults' = faults
    BY <1>1 DEF Poll, Bounds
  <2> QED
    BY <1>0, <1>1, <2>1, EndsInv DEF TypeOK
<1>2. CASE life[n] # "gone"
  <2> USE <1>2 DEF Poll, WaiterOnly, Bounds, Drained, LastPoll, AtTimeout
  <2>1. \E p \in 0..Polls, c \in {"poll", "complete"} :
          waiter' = [waiter EXCEPT ![w] = [@ EXCEPT !.polls = p, !.pc = c]]
    <3>1. CASE Drained(w)
      <4>1. waiter' = [waiter EXCEPT ![w] = [@ EXCEPT !.polls = waiter[w].polls, !.pc = "complete"]]
        BY <1>0, <3>1 DEF TypeOK, Waiter
      <4> QED
        BY <1>0, <4>1 DEF Waiter
    <3>2. CASE ~Drained(w)
      <4>1. waiter' = [waiter EXCEPT ![w] = [@ EXCEPT !.polls = waiter[w].polls + 1,
                         !.pc = IF LastPoll(w) THEN "complete" ELSE "poll"]]
        BY <1>0, <3>2 DEF TypeOK, Waiter
      <4>2. waiter[w].polls + 1 \in 0..Polls
        BY <1>0, DrainConstants DEF Waiter
      <4> QED
        BY <4>1, <4>2
    <3> QED
      BY <3>1, <3>2
  <2>2. polled' \in [Nodes -> 0..Polls]
    BY <1>0, DrainConstants DEF TypeOK, Waiter
  <2>3. TypeOK'
    <3>1. PICK p \in 0..Polls, c \in {"poll", "complete"} :
            waiter' = [waiter EXCEPT ![w] = [@ EXCEPT !.polls = p, !.pc = c]]
      BY <2>1
    <3>2. [waiter[w] EXCEPT !.polls = p, !.pc = c] \in Waiter
      BY <1>0 DEF Waiter, WaiterPc
    <3>3. waiter' \in [Waiters -> Waiter]
      BY <3>1, <3>2 DEF TypeOK
    <3> QED
      BY <1>0, <2>2, <3>3 DEF TypeOK
  <2>4. ASSUME NEW v \in Waiters PROVE WaiterOK(v)'
    <3>1. ASSUME NEW m \in Nodes, polled[m] = Polls PROVE polled'[m] = Polls
      BY <1>0, <3>1, DrainConstants DEF TypeOK, Waiter
    <3>2. CASE v # w
      <4>1. waiter'[v] = waiter[v]
        BY <1>0, <2>1, <3>2 DEF TypeOK
      <4>2. waiter[v].pc = "complete" => waiter[v].node \in Nodes
        BY DEF WaiterOK, TypeOK
      <4> QED
        BY <3>1, <4>1, <4>2 DEF WaiterOK
    <3>3. CASE v = w /\ Drained(w)
      BY <1>0, <3>3 DEF TypeOK, Waiter, WaiterOK
    <3>4. CASE v = w /\ ~Drained(w) /\ LastPoll(w)
      <4>1. polled'[n] = Polls
        BY <1>0, <3>4, DrainConstants DEF TypeOK, Waiter
      <4> QED
        BY <1>0, <3>4, <4>1 DEF TypeOK, Waiter, WaiterOK
    <3>5. CASE v = w /\ ~Drained(w) /\ ~LastPoll(w)
      <4>1. /\ waiter'[w].pc = "poll" /\ waiter'[w].node = n
            /\ waiter'[w].polls = waiter[w].polls + 1
        BY <1>0, <3>5 DEF TypeOK, Waiter
      <4>2. waiter[w].polls + 1 < Polls
        BY <1>0, <3>5, DrainConstants DEF Waiter
      <4> QED
        BY <1>0, <3>5, <4>1, <4>2 DEF WaiterOK
    <3> QED
      BY <3>2, <3>3, <3>4, <3>5
  <2>5. \A s \in Servers : HandlerOK(s)' /\ FoundOK(s)'
    BY DEF HandlerOK, FoundOK
  <2>6. NoneForgotten'
    <3>1. \A v \in Waiters : waiter'[v].node = waiter[v].node
      BY <1>0, <2>1 DEF TypeOK, Waiter
    <3> QED
      BY <1>0, <3>1 DEF NoneForgotten, Watched, ToBeFound
  <2> QED
    BY <2>3, <2>4, <2>5, <2>6
<1> QED
  BY <1>1, <1>2

LEMMA CompleteInv ==
  ASSUME Inv, NEW w \in Waiters, Complete(w)
  PROVE  Inv'
<1>1. waiter[w].node \in Nodes
  BY DEF Inv, TypeOK, WaiterOK, Complete
<1> QED
  BY <1>1, EndsInv DEF Inv, TypeOK, Life, Complete, Bounds

LEMMA WaiterFailsInv ==
  ASSUME Inv, NEW w \in Waiters, WaiterFails(w)
  PROVE  Inv'
<1>1. waiter[w].node \in Nodes
  BY DEF Inv, TypeOK, WaiterOK, WaiterFails
<1>2. faults' \in Nat /\ faults' # 0
  BY DEF Inv, TypeOK, WaiterFails, Fault
<1>3. life' \in [Nodes -> Life] /\ \A n \in Nodes : life'[n] \in {life[n], "gone"}
  BY <1>1 DEF Inv, TypeOK, Life, WaiterFails
<1> QED
  BY <1>1, <1>2, <1>3, EndsInv DEF WaiterFails, Fault

-----------------------------------------------------------------------------
(* The servers                                                             *)

LEMMA StartInv ==
  ASSUME Inv, NEW s \in Servers, Start(s)
  PROVE  Inv'
<1> USE DEF Inv, Start, StartOnly, Bounds
<1>1. TypeOK'
  BY DEF TypeOK, Server, ServerPc
<1>2. \A w \in Waiters : WaiterOK(w)'
  BY DEF WaiterOK
<1>3. ASSUME NEW t \in Servers PROVE HandlerOK(t)' /\ FoundOK(t)'
  BY DEF TypeOK, HandlerOK, FoundOK
<1>4. ASSUME NEW n \in Nodes, life[n] = "terminating", n \in draining, ToBeFound(n)
      PROVE  ToBeFound(n)'
  BY <1>4 DEF ToBeFound, TypeOK
<1>5. NoneForgotten'
  BY <1>4 DEF NoneForgotten, Watched
<1> QED
  BY <1>1, <1>2, <1>3, <1>5

LEMMA RelaunchInv ==
  ASSUME Inv, NEW s \in Servers, Relaunch(s)
  PROVE  Inv'
<1> USE DEF Inv, Relaunch, StartOnly, Bounds
<1>1. CASE server[s].found = {}
  <2>1. TypeOK'
    BY <1>1 DEF TypeOK, Server, ServerPc
  <2>2. \A w \in Waiters : WaiterOK(w)'
    BY <1>1 DEF WaiterOK
  <2>3. ASSUME NEW t \in Servers PROVE HandlerOK(t)' /\ FoundOK(t)'
    BY <1>1 DEF TypeOK, Server, HandlerOK, FoundOK
  <2>4. ASSUME NEW n \in Nodes, ToBeFound(n) PROVE ToBeFound(n)'
    BY <1>1, <2>4 DEF ToBeFound, TypeOK, Server
  <2>5. NoneForgotten'
    BY <1>1, <2>4 DEF NoneForgotten, Watched
  <2> QED
    BY <2>1, <2>2, <2>3, <2>5
<1>2. CASE server[s].found # {}
  <2>1. PICK n \in server[s].found, w \in Waiters :
          /\ waiter[w] = NoWaiter
          /\ waiter' = [waiter EXCEPT ![w] = NewWaiter(s, n)]
          /\ server' = [server EXCEPT ![s].found = @ \ {n}]
    BY <1>2
  <2>2. n \in Nodes /\ n \in draining
    BY DEF TypeOK, Server, FoundOK
  <2>3. TypeOK'
    BY <2>1, <2>2, Records DEF TypeOK, Server
  <2>4. ASSUME NEW v \in Waiters PROVE WaiterOK(v)'
    BY <1>2, <2>1, <2>2, DrainConstants DEF TypeOK, WaiterOK, NewWaiter
  <2>5. ASSUME NEW t \in Servers PROVE HandlerOK(t)' /\ FoundOK(t)'
    BY <2>1 DEF TypeOK, Server, HandlerOK, FoundOK
  <2>6. ASSUME NEW m \in Nodes, Watched(m) PROVE Watched(m)'
    BY <2>1, <2>6, DrainConstants DEF Watched, NoWaiter, TypeOK
  <2>7. Watched(n)'
    BY <2>1 DEF Watched, NewWaiter, TypeOK
  <2>8. ASSUME NEW m \in Nodes, m # n, ToBeFound(m) PROVE ToBeFound(m)'
    BY <2>1, <2>8 DEF ToBeFound, TypeOK, Server
  <2>9. NoneForgotten'
    BY <2>6, <2>7, <2>8 DEF NoneForgotten
  <2> QED
    BY <2>3, <2>4, <2>5, <2>9
<1> QED
  BY <1>1, <1>2

\* A server that ends takes its goroutines with it.
LEMMA GoneInv ==
  ASSUME Inv, NEW s \in Servers,
         waiter' = [w \in Waiters |-> IF waiter[w].server = s THEN NoWaiter ELSE waiter[w]],
         UNCHANGED <<draining, tasks, polled>>
  PROVE  waiter' \in [Waiters -> Waiter] /\ \A w \in Waiters : WaiterOK(w)'
<1>1. waiter' \in [Waiters -> Waiter]
  BY Records DEF Inv, TypeOK
<1>2. ASSUME NEW w \in Waiters PROVE WaiterOK(w)'
  BY DEF Inv, WaiterOK, NoWaiter
<1> QED
  BY <1>1, <1>2

LEMMA StartFailsInv ==
  ASSUME Inv, NEW s \in Servers, StartFails(s)
  PROVE  Inv'
<1> USE DEF Inv, StartFails, StartOnly, Fault
<1>1. waiter' \in [Waiters -> Waiter] /\ \A w \in Waiters : WaiterOK(w)'
  <2>1. CASE waiter' = waiter
    BY <2>1 DEF TypeOK, WaiterOK
  <2>2. CASE waiter' # waiter
    BY <2>2, GoneInv
  <2> QED
    BY <2>1, <2>2
<1>2. server' \in [Servers -> Server]
  BY Records DEF TypeOK, Server, ServerPc
<1>3. TypeOK'
  BY <1>1, <1>2 DEF TypeOK
<1>4. ASSUME NEW t \in Servers PROVE HandlerOK(t)' /\ FoundOK(t)'
  BY DEF TypeOK, HandlerOK, FoundOK, Down
<1>5. NoneForgotten'
  BY DEF NoneForgotten, TypeOK
<1> QED
  BY <1>1, <1>3, <1>4, <1>5

LEMMA CrashInv ==
  ASSUME Inv, NEW s \in Servers, Crash(s)
  PROVE  Inv'
<1> USE DEF Inv, Crash
<1>1. waiter' \in [Waiters -> Waiter] /\ \A w \in Waiters : WaiterOK(w)'
  BY GoneInv
<1>2. TypeOK'
  BY <1>1, Records DEF TypeOK
<1>3. ASSUME NEW t \in Servers PROVE HandlerOK(t)' /\ FoundOK(t)'
  BY DEF TypeOK, HandlerOK, FoundOK, Down, IdleHandler
<1>4. \A n \in Nodes : ToBeFound(n)'
  BY DEF ToBeFound, TypeOK, Down
<1>5. ASSUME NEW n \in Nodes, Watched(n) PROVE n \in draining
  BY <1>5, DrainConstants DEF Watched, WaiterOK, NoWaiter, TypeOK
<1>6. NoneForgotten'
  BY <1>4, <1>5 DEF NoneForgotten
<1> QED
  BY <1>1, <1>2, <1>3, <1>6

-----------------------------------------------------------------------------
(* The theorems                                                            *)

LEMMA NextInv ==
  ASSUME Inv, [Next]_vars
  PROVE  Inv'
<1>1. CASE UNCHANGED vars
  BY <1>1 DEF vars, Inv, TypeOK, WaiterOK, HandlerOK, FoundOK, NoneForgotten, Watched, ToBeFound
<1>2. CASE Next
  BY <1>2, ExternalInv, ReceiveInv, DrainNodeInv, LaunchInv, HandlerFailsInv, PollInv,
     CompleteInv, WaiterFailsInv, StartInv, RelaunchInv, StartFailsInv, CrashInv
     DEF Next, Handle, Run, Wait
<1> QED
  BY <1>1, <1>2

THEOREM Invariance == Spec => []Inv
<1> QED
  BY InitInv, NextInv, PTL DEF Spec

\* The state of the drain keeps its type.
THEOREM TypeCorrect == Spec => []TypeOK
<1>1. Inv => TypeOK
  BY DEF Inv
<1> QED
  BY <1>1, Invariance, PTL

\* LaunchWaitForDrainedNode and its relaunch in Resume: without a failed call no
\* instance is left to the heartbeat of the hook, whatever crashes.
THEOREM NobodyForgets == Spec => []NoneForgotten
<1>1. Inv => NoneForgotten
  BY DEF Inv
<1> QED
  BY <1>1, Invariance, PTL

LEMMA StepLetsGo ==
  ASSUME Inv, [Next]_vars, NEW n \in Nodes, life[n] = "terminating", life'[n] = "gone",
         waiter' # waiter
  PROVE  tasks[n] = 0 \/ polled[n] = Polls
<1>1. PICK w \in Waiters : Wait(w) \/ WaiterFails(w)
  <2>1. Next
    BY DEF vars
  <2>2. ASSUME NEW m \in Nodes, External(m) PROVE FALSE
    BY <2>2 DEF External, Terminate, Expire, PlaceTask, StopTask, DrainByHand, Duplicate, ProgramIdle
  <2>3. ASSUME NEW s \in Servers,
               \/ Handle(s) \/ Run(s) \/ HandlerFails(s) \/ StartFails(s) \/ Crash(s)
               \/ \E m \in Nodes : Receive(s, m)
        PROVE  life' = life
    BY <2>3 DEF Handle, Run, DrainNode, Launch, HandlerFails, StartFails, Crash, Receive,
       Start, Relaunch, HandlerOnly, StartOnly
  <2> QED
    BY <2>1, <2>2, <2>3 DEF Next
<1>2. waiter[w].pc = "complete" /\ waiter[w].node = n
  <2>1. waiter[w] \in Waiter /\ life \in [Nodes -> Life]
    BY DEF Inv, TypeOK
  <2> QED
    BY <1>1, <2>1 DEF Wait, Poll, Complete, WaiterFails
<1> QED
  BY <1>2 DEF Inv, WaiterOK

\* CompleteLifecycleAction and CompletePendingLifecycleAction: the program lets
\* go of an instance that is empty, or that it has waited for long enough.
THEOREM LetsGoOfEmpty == Spec => EmptyOrWaited
<1>1. Inv /\ [Next]_vars
      => [\A n \in Nodes :
            life[n] = "terminating" /\ life'[n] = "gone" /\ waiter' # waiter
            => tasks[n] = 0 \/ polled[n] = Polls]_vars
  BY StepLetsGo
<1> QED
  BY <1>1, Invariance, PTL DEF Spec, EmptyOrWaited
=============================================================================
