-------------------------- MODULE EcsClientProofs --------------------------
(***************************************************************************)
(* Proofs about EcsClient, for any files, number of rounds and failing     *)
(* calls.                                                                  *)
(***************************************************************************)
EXTENDS EcsClient, FiniteSetTheorems, TLAPS

-----------------------------------------------------------------------------
(* The inductive invariant                                                 *)

Waiting == {"round", "poll"}
Before == {"files", "post"}
Over(i) == status[i] \in Lifecycle!Outcome

\* The server has gone through the request in order: what began has a row, nothing
\* that it has not come to has one, and a deployment that another one of the
\* same service followed has its outcome.
ServerOK ==
  /\ server.pc = "none" =>
       server.messages = {} /\ server.errors = {} /\ server.at = 1
  /\ server.at \in Nat \ {0} /\ IsFiniteSet(server.errors)
  /\ server.messages \subseteq 1 .. (server.at - 1)
  /\ server.errors = {} => server.messages = 1 .. (server.at - 1)
  /\ server.pc # "none" => server.at <= Len(client.list) + 1
  /\ server.pc = "answered" => server.at = Len(client.list) + 1
  /\ \A i \in server.messages : status[i] # "none"
  /\ \A i \in Deployment : i >= server.at => status[i] = "none"
  /\ \A i, j \in server.messages : j < i /\ Service(j) = Service(i) => Over(j)

\* What the client knows of a service agrees with the answer.
Knows(n) ==
  /\ n \in server.errors => client.deployed[n] = "error"
  /\ n \notin server.errors /\ (\E i \in server.messages : Service(i) = n)
       => client.deployed[n] \notin {"none", "error"}

\* In a round the deployments are asked for in order, and of a service that has a
\* second one the first has been found over.
PollOK ==
  /\ client.left \subseteq server.messages
  /\ \A i \in server.messages, j \in client.left : i < j \/ i \in client.left
  /\ \A i, j \in server.messages :
       i \notin client.left /\ i < j /\ Service(i) = Service(j) =>
         client.deployed[Service(i)] # "running"

ClientOK ==
  /\ client.pc \in Before => server.pc = "none"
  /\ server.pc = "none" => client.pc \in Before \cup {"exit"}
  /\ client.pc # "exit" => client.exit = ""
  /\ server.pc # "answered" \/ client.pc \in Before \cup {"answer"} =>
       \A n \in Names : client.deployed[n] = "none"
  /\ client.pc \in Waiting \/ client.exit \in {"ok", "failure"} =>
       server.pc = "answered" /\ \A n \in Names : Knows(n)
  /\ client.pc = "poll" => PollOK
  /\ client.exit = "ok" => Succeeded(client)

Fits == Len(client.list) <= MaxServices

Inv == TypeOK /\ Fits /\ ServerOK /\ ClientOK /\ Reported

-----------------------------------------------------------------------------
(* Types                                                                   *)

LEMMA Outcomes ==
  /\ Lifecycle!Outcome = {"success", "failed", "aborted"}
  /\ Result = {"none", "running", "error", "", "success", "failed", "aborted"}
  BY DEF Lifecycle!Outcome, Result

LEMMA Numbers ==
  /\ MaxServices \in Nat /\ MaxRounds \in Nat /\ MaxFaults \in Nat
  /\ \A i \in Deployment : i \in Nat /\ i # 0
  BY ClientConstants DEF Deployment

LEMMA Order ==
  \A i, j \in Nat : /\ i + 1 \in Nat
                    /\ i <= j => ~(j < i)
                    /\ i <= j /\ ~(i < j) => i = j
  OBVIOUS

LEMMA ClientFields ==
  ASSUME NEW c \in Client
  PROVE  /\ c.pc \in {"files", "post", "answer", "round", "poll", "exit"}
         /\ c.todo \subseteq Files /\ c.list \in Seq(Names) /\ Len(c.list) \in Nat
         /\ c.deployed \in [Names -> Result] /\ c.finished \in Nat
         /\ c.rounds \in 0 .. MaxRounds /\ c.left \subseteq Deployment
         /\ c.exit \in {"", "ok", "failure", "error"}
<1>1. c.list \in Seq(Names)
  BY DEF Client
<1>2. Len(c.list) \in Nat
  BY <1>1
<1> QED
  BY <1>1, <1>2 DEF Client

LEMMA NoneBefore == 1 .. (1 - 1) = {}
  OBVIOUS

LEMMA NamesOfServices ==
  ASSUME TypeOK, NEW i \in 1 .. Len(client.list)
  PROVE  Service(i) \in Names
<1>1. client.list \in Seq(Names)
  BY DEF TypeOK, Client
<1> QED
  BY <1>1 DEF Service

\* Ended changes where the client is and how it exits.
LEMMA EndedClient ==
  ASSUME NEW c \in Client
  PROVE  /\ Ended(c) \in Client
         /\ Ended(c).pc = "exit" /\ Ended(c).list = c.list /\ Ended(c).left = c.left
         /\ Ended(c).deployed = c.deployed
         /\ Ended(c).exit \in {"ok", "failure"}
         /\ Ended(c).exit = "ok" => Succeeded(Ended(c))
  BY DEF Ended, Client, Succeeded, Known

THEOREM InitInv == Init => Inv
<1> SUFFICES ASSUME Init PROVE Inv
  OBVIOUS
<1>1. /\ client.pc = "files" /\ client.exit = ""
      /\ server.pc = "none" /\ server.at = 1 /\ server.messages = {} /\ server.errors = {}
      /\ status = [i \in Deployment |-> "none"]
      /\ \A n \in Names : client.deployed[n] = "none"
  BY DEF Init, Lifecycle!Init
<1>2. TypeOK
  <2>1. client \in Client
    <3>1. <<>> \in Seq(Names)
      OBVIOUS
    <3>2. [n \in Names |-> "none"] \in [Names -> Result]
      BY Outcomes
    <3>3. 0 \in 0 .. MaxRounds /\ 0 \in Nat /\ {} \subseteq Deployment
      BY Numbers
    <3> QED
      BY <3>1, <3>2, <3>3 DEF Init, Client
  <2>2. server \in Server
    BY DEF Init, Server
  <2>3. status \in [Deployment -> Lifecycle!Outcome \cup {"none", "running"}]
    BY <1>1
  <2> QED
    BY <2>1, <2>2, <2>3 DEF TypeOK, Init
<1>3. ServerOK
  <2>1. server.at \in Nat \ {0} /\ IsFiniteSet(server.errors)
    <3>1. IsFiniteSet({})
      BY FS_EmptySet
    <3>2. IsFiniteSet(server.errors)
      BY <1>1, <3>1, Zenon
    <3>3. server.at = 1
      BY <1>1
    <3> QED
      BY <3>2, <3>3
  <2>2. 1 .. (server.at - 1) = {}
    BY <1>1, NoneBefore
  <2>3. server.messages \subseteq 1 .. (server.at - 1)
    BY <1>1
  <2>4. server.errors = {} => server.messages = 1 .. (server.at - 1)
    BY <1>1, <2>2
  <2>5. server.pc # "none" => server.at <= Len(client.list) + 1
    BY <1>1
  <2>6. \A i \in server.messages : status[i] # "none"
    BY <1>1
  <2>7. \A i \in Deployment : i >= server.at => status[i] = "none"
    BY <1>1
  <2>8. (\A i, j \in server.messages : j < i /\ Service(j) = Service(i) => Over(j))
    BY <1>1
  <2> QED
    BY <1>1, <2>1, <2>2, <2>3, <2>4, <2>5, <2>6, <2>7, <2>8 DEF ServerOK
<1>4. ClientOK
  BY <1>1 DEF ClientOK, Before, Waiting
<1>5. Reported
  BY <1>1 DEF Reported
<1>6. Fits
  <2>1. client.list = <<>>
    BY DEF Init
  <2> QED
    BY <2>1, Numbers DEF Fits
<1> QED
  BY <1>2, <1>3, <1>4, <1>5, <1>6 DEF Inv

-----------------------------------------------------------------------------
(* The client before it has an answer                                      *)

\* Nothing is known, and the server does not follow the list yet.
LEMMA BeforePost ==
  ASSUME Inv, client.pc \in Before, server' = server, status' = status,
         broken' = broken, idle' = idle, faults' = faults,
         client' \in Client, Fits',
         client'.deployed = client.deployed,
         \/ client'.pc \in Before /\ client'.exit = ""
         \/ client'.pc = "exit" /\ client'.exit = "error"
  PROVE  Inv'
<1> USE DEF Inv
<1>1. server.pc = "none" /\ server.messages = {} /\ server.errors = {} /\ server.at = 1
  BY DEF ClientOK, ServerOK
<1>2. TypeOK'
  BY DEF TypeOK
<1>3. ServerOK'
  BY <1>1 DEF ServerOK
<1>4. ClientOK'
  BY <1>1 DEF ClientOK, Before, Waiting
<1>5. Reported'
  BY <1>1 DEF Reported
<1> QED
  BY <1>2, <1>3, <1>4, <1>5

LEMMA ParseFileInv ==
  ASSUME Inv, ParseFile
  PROVE  Inv'
<1>1. client \in Client
  BY DEF Inv, TypeOK
<1>2. PICK f \in client.todo :
        /\ Len(client.list) + Len(ServicesIn[f]) <= MaxServices
        /\ client' = IF f \in broken THEN [client EXCEPT !.todo = {}]
                     ELSE [client EXCEPT !.todo = @ \ {f}, !.list = @ \o ServicesIn[f]]
  BY DEF ParseFile, Is
<1>3. f \in Files /\ ServicesIn[f] \in Seq(Names)
  BY <1>1, <1>2, ClientConstants DEF Client
<1>4. client.list \o ServicesIn[f] \in Seq(Names)
  <2>1. client.list \in Seq(Names)
    BY <1>1, ClientFields
  <2> QED
    BY <2>1, <1>3
<1>5. client' \in Client
  BY <1>1, <1>2, <1>4 DEF Client
<1>6. Fits'
  <2>1. CASE f \in broken
    BY <1>1, <1>2, <2>1 DEF Inv, Fits, Client
  <2>2. CASE f \notin broken
    <3>1. Len(client.list) + Len(ServicesIn[f]) <= MaxServices
      BY <1>2
    <3>2. client.list \in Seq(Names)
      BY <1>1, ClientFields
    <3>3. Len(client.list \o ServicesIn[f]) = Len(client.list) + Len(ServicesIn[f])
      BY <3>2, <1>3
    <3>4. client'.list = client.list \o ServicesIn[f]
      BY <1>1, <1>2, <2>2 DEF Client
    <3> QED
      BY <3>1, <3>3, <3>4 DEF Fits
  <2> QED
    BY <2>1, <2>2
<1>7. client'.pc = "files" /\ client'.exit = client.exit /\ client'.deployed = client.deployed
  BY <1>1, <1>2 DEF ParseFile, Client
<1> QED
  BY <1>5, <1>6, <1>7, BeforePost DEF ParseFile, Before, Inv, ClientOK, Elsewhere, NoFault

LEMMA FilesDoneInv ==
  ASSUME Inv, FilesDone
  PROVE  Inv'
<1>1. client \in Client /\ client.exit = ""
  BY DEF Inv, TypeOK, ClientOK, FilesDone
<1>2. /\ client' \in Client /\ client'.deployed = client.deployed
      /\ client'.list = client.list
      /\ \/ client'.pc = "post" /\ client'.exit = ""
         \/ client'.pc = "exit" /\ client'.exit = "error"
  BY <1>1 DEF FilesDone, Exits, Goes, Is, Client
<1> QED
  <2>1. Fits'
    BY <1>2 DEF Inv, Fits
  <2> QED
    BY <1>2, <2>1, BeforePost DEF FilesDone, Before, Elsewhere, NoFault

LEMMA PostInv ==
  ASSUME Inv, Post
  PROVE  Inv'
<1> USE DEF Inv
<1>1. /\ client \in Client /\ client.pc = "post" /\ client.exit = ""
      /\ client' = [client EXCEPT !.pc = "answer"]
  BY DEF TypeOK, ClientOK, Post, Goes, Is
<1>2. /\ client' \in Client /\ client'.pc = "answer" /\ client'.exit = ""
      /\ client'.deployed = client.deployed /\ client'.list = client.list
  BY <1>1 DEF Client
<1>3. /\ server \in Server /\ server.pc = "none"
      /\ server.messages = {} /\ server.errors = {} /\ server.at = 1
  BY <1>1 DEF TypeOK, ClientOK, Before, ServerOK
<1>4. /\ server' \in Server /\ server'.pc = "deploy" /\ server'.messages = {}
      /\ server'.errors = {} /\ server'.at = 1
  BY <1>3 DEF Post, Server
<1>5. status' = status /\ broken' = broken /\ idle' = idle /\ faults' = faults
  BY DEF Post, Elsewhere, NoFault
<1>6. TypeOK'
  BY <1>2, <1>4, <1>5 DEF TypeOK
<1>7. ServerOK'
  <2>1. server'.at \in Nat \ {0} /\ IsFiniteSet(server'.errors)
    BY <1>4, FS_EmptySet
  <2>2. 1 .. (server'.at - 1) = {}
    BY <1>4, NoneBefore
  <2>3. server'.messages \subseteq 1 .. (server'.at - 1)
    BY <1>4
  <2>4. server'.errors = {} => server'.messages = 1 .. (server'.at - 1)
    BY <1>4, <2>2
  <2>5. server'.pc # "none" => server'.at <= Len(client'.list) + 1
    <3>1. Len(client.list) \in Nat
      BY <1>1, ClientFields
    <3>2. Len(client'.list) = Len(client.list) /\ server'.at = 1
      BY <1>2, <1>4
    <3> QED
      BY <3>1, <3>2
  <2>6. \A i \in server'.messages : status'[i] # "none"
    BY <1>4
  <2>7. \A i \in Deployment : i >= server'.at => status'[i] = "none"
    BY <1>3, <1>5, Numbers DEF ServerOK
  <2>8. (\A i, j \in server.messages : j < i /\ Service(j) = Service(i) => Over(j))'
    BY <1>4
  <2> QED
    BY <1>4, <2>1, <2>2, <2>3, <2>4, <2>5, <2>6, <2>7, <2>8 DEF ServerOK
<1>8. ClientOK'
  BY <1>1, <1>2, <1>3, <1>4 DEF ClientOK, Before, Waiting
<1>9. Reported'
  BY <1>4 DEF Reported
<1>10. Fits'
  BY <1>2 DEF Fits
<1> QED
  BY <1>6, <1>7, <1>8, <1>9, <1>10

-----------------------------------------------------------------------------
(* The server                                                              *)

LEMMA InTheRequest ==
  ASSUME Inv
  PROVE  /\ server.at \in Nat \ {0}
         /\ Len(client.list) \in Nat /\ Len(client.list) <= MaxServices
         /\ \A i \in server.messages :
              i \in Nat /\ i < server.at /\ i \in Deployment
         /\ server.pc # "none" =>
              \A i \in server.messages : i \in 1 .. Len(client.list) /\ Service(i) \in Names
<1>1. client \in Client /\ server \in Server /\ server.messages \subseteq Deployment
  BY DEF Inv, TypeOK, Server
<1>2. Len(client.list) \in Nat /\ Len(client.list) <= MaxServices
  BY <1>1, ClientFields DEF Inv, Fits
<1>3. /\ server.at \in Nat \ {0}
      /\ server.messages \subseteq 1 .. (server.at - 1)
      /\ server.pc # "none" => server.at <= Len(client.list) + 1
  BY DEF Inv, ServerOK
<1>4. ASSUME server.pc # "none", NEW i \in server.messages
      PROVE  i \in 1 .. Len(client.list) /\ Service(i) \in Names
  <2>1. i \in 1 .. Len(client.list)
    BY <1>2, <1>3, <1>4
  <2> QED
    BY <2>1, NamesOfServices DEF Inv
<1>5. \A i \in server.messages : i \in Nat /\ i < server.at /\ i \in Deployment
  BY <1>1, <1>3
<1> QED
  BY <1>2, <1>3, <1>4, <1>5

\* A deployment gets its outcome.
LEMMA OutcomeInv ==
  ASSUME Inv, NEW d \in Deployment, NEW outcome \in Lifecycle!Outcome,
         Lifecycle!Finish(d, outcome),
         UNCHANGED <<broken, client, server, idle, faults>>
  PROVE  Inv'
<1> USE DEF Inv
<1>1. /\ status \in [Deployment -> Lifecycle!Outcome \cup {"none", "running"}]
      /\ status[d] = "running" /\ status' = [status EXCEPT ![d] = outcome]
  BY DEF TypeOK, Lifecycle!Finish
<1>2. /\ status' \in [Deployment -> Lifecycle!Outcome \cup {"none", "running"}]
      /\ \A i \in Deployment : i # d => status'[i] = status[i]
      /\ status'[d] = outcome
  BY <1>1
<1>3. outcome \notin {"none", "running"} /\ "running" \notin Lifecycle!Outcome
  BY Outcomes
<1>4. TypeOK'
  BY <1>2 DEF TypeOK
<1>5. ServerOK'
  <2>1. \A i \in server.messages : i \in Deployment
    BY InTheRequest
  <2>2. \A i \in server.messages : status'[i] # "none"
    BY <2>1, <1>2, <1>3 DEF ServerOK
  <2>3. \A i \in Deployment : i >= server.at => status'[i] = "none"
    BY <1>1, <1>2 DEF ServerOK
  <2>4. \A i \in server.messages : Over(i) => Over(i)'
    BY <2>1, <1>2 DEF Over
  <2>5. (\A i, j \in server.messages : j < i /\ Service(j) = Service(i) => Over(j))'
    BY <2>4 DEF ServerOK, Service
  <2> QED
    BY <2>2, <2>3, <2>5 DEF ServerOK
<1>6. ClientOK'
  BY DEF ClientOK, Knows, PollOK, First, Service, Succeeded, Known
<1>7. Reported'
  <2> SUFFICES ASSUME NEW i \in server.messages, First(i),
                      client.deployed[Service(i)] \in Lifecycle!Outcome
               PROVE  status'[i] = client.deployed[Service(i)]
    BY DEF Reported, First, Service
  <2>1. status[i] = client.deployed[Service(i)] /\ i \in Deployment
    BY InTheRequest DEF Reported
  <2> QED
    BY <2>1, <1>1, <1>2, <1>3
<1>8. Fits'
  BY DEF Fits
<1> QED
  BY <1>4, <1>5, <1>6, <1>7, <1>8

LEMMA AbortEarlierInv ==
  ASSUME Inv, AbortEarlier
  PROVE  Inv'
<1>1. Earlier \subseteq Deployment /\ "aborted" \in Lifecycle!Outcome
  BY Outcomes DEF Earlier
<1>2. PICK d \in Earlier : Lifecycle!Finish(d, "aborted")
  BY DEF AbortEarlier
<1> QED
  BY <1>1, <1>2, OutcomeInv DEF AbortEarlier, ServerOnly, NoFault

LEMMA FinishInv ==
  ASSUME Inv, Finish
  PROVE  Inv'
  BY OutcomeInv DEF Finish, ServerOnly, NoFault

\* While the server is at work nothing is known.
LEMMA Handling ==
  ASSUME Inv, server.pc = "deploy", client' = client, broken' = broken, idle' = idle,
         server' \in Server, server'.pc # "none", ServerOK',
         status' \in [Deployment -> Lifecycle!Outcome \cup {"none", "running"}],
         faults' \in Nat
  PROVE  Inv'
<1> USE DEF Inv
<1>1. TypeOK' /\ Fits'
  BY DEF TypeOK, Fits
<1>2. /\ \A n \in Names : client.deployed[n] = "none"
      /\ client.pc \notin Before \cup Waiting
      /\ client.exit \notin {"ok", "failure"}
  BY DEF ClientOK
<1>3. ClientOK'
  BY <1>2 DEF ClientOK, Waiting
<1>4. Reported'
  <2>1. Len(client.list) \in Nat
    BY InTheRequest
  <2>2. server'.messages \subseteq 1 .. Len(client.list)
    BY <2>1 DEF ServerOK
  <2>3. \A i \in server'.messages : Service(i)' \in Names
    BY <2>2, NamesOfServices DEF Service
  <2>4. \A i \in server'.messages : client'.deployed[Service(i)'] = "none"
    BY <1>2, <2>3
  <2> QED
    BY <2>4, Outcomes DEF Reported
<1> QED
  BY <1>1, <1>3, <1>4

LEMMA RefusedServer ==
  ASSUME Inv, Deploying
  PROVE  /\ Refused \in Server /\ Refused.pc = "deploy"
         /\ Refused.at = server.at + 1 /\ Refused.messages = server.messages
         /\ Refused.errors = server.errors \cup {Service(server.at)}
         /\ Service(server.at) \in Names /\ server.at \in Deployment
         /\ IsFiniteSet(Refused.errors)
<1>1. server \in Server /\ server.pc = "deploy" /\ server.at <= Len(client.list)
  BY DEF Inv, TypeOK, Deploying
<1>2. server.at \in 1 .. Len(client.list) /\ server.at \in Deployment
  BY <1>1, InTheRequest, Numbers DEF Deployment
<1>3. Service(server.at) \in Names
  BY <1>2, NamesOfServices DEF Inv
<1>4. server.at + 1 \in Nat /\ server.errors \cup {Service(server.at)} \subseteq Names
  <2>1. server.errors \subseteq Names
    BY <1>1 DEF Server
  <2> QED
    BY <1>3, <2>1, InTheRequest
<1>5. /\ Refused \in Server /\ Refused.pc = "deploy"
      /\ Refused.at = server.at + 1 /\ Refused.messages = server.messages
      /\ Refused.errors = server.errors \cup {Service(server.at)}
  BY <1>1, <1>4 DEF Refused, Server
<1>6. IsFiniteSet(Refused.errors)
  <2>1. IsFiniteSet(server.errors)
    BY DEF Inv, ServerOK
  <2>2. IsFiniteSet(server.errors \cup {Service(server.at)})
    BY <2>1, FS_AddElement
  <2> QED
    BY <1>5, <2>2, Zenon
<1> QED
  BY <1>2, <1>3, <1>5, <1>6

\* The next service is deployed (started: its row is written), with an error or not.
LEMMA NextServer ==
  ASSUME Inv, Deploying, NEW s \in Server, server' = s, client' = client,
         s.pc = "deploy", s.at = server.at + 1, IsFiniteSet(s.errors),
         \/ /\ s.messages = server.messages
            /\ s.errors # {}
         \/ /\ s.messages = server.messages \cup {server.at}
            /\ s.errors = server.errors
            /\ status'[server.at] = "running"
            /\ \A j \in Earlier : status[j] # "running",
         \A i \in Deployment : i # server.at => status'[i] = status[i],
         status \in [Deployment -> Lifecycle!Outcome \cup {"none", "running"}]
  PROVE  ServerOK'
<1> USE DEF Inv
<1>1. /\ server.at \in Nat \ {0} /\ server.at <= Len(client.list)
      /\ Len(client.list) \in Nat /\ server.at \in Deployment
      /\ s.at \in Nat \ {0} /\ s.at - 1 = server.at
      /\ \A i \in server.messages : i \in Nat /\ i < server.at /\ i \in Deployment
  BY InTheRequest, Numbers DEF Deploying, Deployment
<1>2. s.messages \subseteq 1 .. (s.at - 1)
  <2>1. ASSUME NEW i \in s.messages PROVE i \in 1 .. server.at
    <3>1. i \in server.messages \/ i = server.at
      OBVIOUS
    <3>2. i \in server.messages => i \in 1 .. (server.at - 1)
      BY DEF ServerOK
    <3> QED
      BY <1>1, <3>1, <3>2
  <2> QED
    BY <1>1, <2>1
<1>3. s.errors = {} => s.messages = 1 .. (s.at - 1)
  <2> SUFFICES ASSUME s.errors = {} PROVE s.messages = 1 .. server.at
    BY <1>1
  <2>1. server.messages = 1 .. (server.at - 1) /\ s.messages = server.messages \cup {server.at}
    BY DEF ServerOK
  <2> QED
    BY <2>1, <1>1
<1>4. s.at <= Len(client.list) + 1
  BY <1>1
<1>5. \A i \in s.messages : status'[i] # "none"
  <2>1. \A i \in server.messages : status'[i] # "none"
    BY <1>1 DEF ServerOK
  <2> QED
    BY <2>1
<1>6. \A i \in Deployment : i >= s.at => status'[i] = "none"
  <2> SUFFICES ASSUME NEW i \in Deployment, i >= s.at PROVE status'[i] = "none"
    OBVIOUS
  <2>1. i >= server.at /\ i # server.at
    BY <1>1, Numbers
  <2> QED
    BY <2>1 DEF ServerOK
<1>7. ASSUME NEW i \in s.messages, NEW j \in s.messages, j < i, Service(j) = Service(i)
      PROVE  status'[j] \in Lifecycle!Outcome
  <2>1. j \in server.messages
    BY <1>1, <1>7
  <2>2. status'[j] = status[j]
    BY <1>1, <2>1
  <2>3. CASE i \in server.messages
    BY <2>1, <2>2, <2>3, <1>7 DEF ServerOK, Over
  <2>4. CASE i = server.at /\ i \notin server.messages
    <3>1. j \in Earlier
      BY <1>1, <1>7, <2>1, <2>4 DEF Earlier
    <3>2. status[j] # "running" /\ status[j] # "none"
      BY <2>1, <2>4, <3>1 DEF ServerOK
    <3> QED
      BY <2>1, <2>2, <3>2, <1>1
  <2> QED
    BY <2>3, <2>4
<1>8. (\A i, j \in server.messages : j < i /\ Service(j) = Service(i) => Over(j))'
  BY <1>7 DEF Over, Service
<1> QED
  BY <1>1, <1>2, <1>3, <1>4, <1>5, <1>6, <1>8 DEF ServerOK

LEMMA DeployFailsInv ==
  ASSUME Inv, DeployFails
  PROVE  Inv'
<1>1. /\ Deploying /\ server' = Refused /\ status' = status /\ client' = client
      /\ broken' = broken /\ idle' = idle /\ faults' = faults
  BY DEF DeployFails, ServerOnly, NoFault
<1>2. /\ faults \in Nat
      /\ status \in [Deployment -> Lifecycle!Outcome \cup {"none", "running"}]
  BY DEF Inv, TypeOK
<1>3. Refused.errors # {}
  BY <1>1, RefusedServer
<1>4. ServerOK'
  BY <1>1, <1>2, <1>3, RefusedServer, NextServer
<1> QED
  BY <1>1, <1>2, <1>4, RefusedServer, Handling DEF Deploying

LEMMA DeployServiceInv ==
  ASSUME Inv, DeployService
  PROVE  Inv'
<1>1. /\ Deploying /\ client' = client /\ broken' = broken /\ idle' = idle
      /\ \A j \in Earlier : status[j] # "running"
      /\ status[server.at] = "none"
      /\ status' = [status EXCEPT ![server.at] = "running"]
  BY DEF DeployService, ServerOnly, Lifecycle!Start
<1>2. /\ faults \in Nat /\ server \in Server
      /\ status \in [Deployment -> Lifecycle!Outcome \cup {"none", "running"}]
  BY DEF Inv, TypeOK
<1>3. /\ server.at \in Deployment
      /\ server.at \in Nat /\ server.pc = "deploy"
  BY <1>1, RefusedServer, InTheRequest DEF Deploying
<1>4. /\ status' \in [Deployment -> Lifecycle!Outcome \cup {"none", "running"}]
      /\ status'[server.at] = "running"
      /\ \A i \in Deployment : i # server.at => status'[i] = status[i]
  BY <1>1, <1>2, <1>3
<1>5. CASE /\ server' = [server EXCEPT !.at = @ + 1, !.messages = @ \cup {server.at}]
           /\ NoFault
  <2>1. server.messages \cup {server.at} \subseteq Deployment /\ server.at + 1 \in Nat
    <3>1. server.messages \subseteq Deployment
      BY <1>2 DEF Server
    <3> QED
      BY <1>3, <3>1
  <2>2. /\ server' \in Server /\ server'.pc = "deploy" /\ server'.at = server.at + 1
        /\ server'.messages = server.messages \cup {server.at}
        /\ server'.errors = server.errors
    BY <1>2, <1>3, <1>5, <2>1 DEF Server
  <2>3. IsFiniteSet(server'.errors)
    <3>1. IsFiniteSet(server.errors)
      BY DEF Inv, ServerOK
    <3> QED
      BY <2>2, <3>1, Zenon
  <2>4. ServerOK'
    BY <1>1, <1>2, <1>4, <2>2, <2>3, NextServer
  <2>5. faults' \in Nat
    BY <1>2, <1>5 DEF NoFault
  <2> QED
    BY <1>1, <1>3, <1>4, <2>2, <2>4, <2>5, Handling
<1>6. CASE server' = Refused /\ Fault
  <2>1. Refused.errors # {}
    BY <1>1, RefusedServer
  <2>2. ServerOK'
    BY <1>1, <1>2, <1>4, <1>6, <2>1, RefusedServer, NextServer
  <2>3. faults' \in Nat
    BY <1>2, <1>6 DEF Fault
  <2> QED
    BY <1>1, <1>3, <1>4, <1>6, <2>2, <2>3, RefusedServer, Handling
<1> QED
  BY <1>5, <1>6 DEF DeployService

\* The handler ends: with an answer, or with its server.
LEMMA HandlerEnds ==
  ASSUME Inv, server.pc = "deploy", NEW pc \in {"answered", "down"},
         server' = [server EXCEPT !.pc = pc], status' = status, client' = client,
         broken' = broken, idle' = idle, faults' \in Nat,
         pc = "answered" => server.at > Len(client.list)
  PROVE  Inv'
<1> USE DEF Inv
<1>1. /\ server \in Server
      /\ status \in [Deployment -> Lifecycle!Outcome \cup {"none", "running"}]
  BY DEF TypeOK
<1>2. /\ server' \in Server /\ server'.pc = pc /\ server'.at = server.at
      /\ server'.messages = server.messages /\ server'.errors = server.errors
  BY <1>1 DEF Server
<1>3. IsFiniteSet(server'.errors)
  <2>1. IsFiniteSet(server.errors)
    BY DEF ServerOK
  <2> QED
    BY <1>2, <2>1, Zenon
<1>4. pc = "answered" => server.at = Len(client.list) + 1
  BY InTheRequest DEF ServerOK
<1>5. (\A i, j \in server.messages : j < i /\ Service(j) = Service(i) => Over(j))'
  BY <1>2 DEF ServerOK, Over, Service
<1>6. ServerOK'
  BY <1>2, <1>3, <1>4, <1>5 DEF ServerOK
<1> QED
  BY <1>1, <1>2, <1>6, Handling

LEMMA RespondInv ==
  ASSUME Inv, Respond
  PROVE  Inv'
  BY HandlerEnds DEF Respond, ServerOnly, NoFault, Inv, TypeOK

LEMMA ServerEndsInv ==
  ASSUME Inv, ServerEnds
  PROVE  Inv'
  BY HandlerEnds DEF ServerEnds, ServerOnly, Fault, Inv, TypeOK

-----------------------------------------------------------------------------
(* The client and its answer                                               *)

LEMMA ClientStep ==
  ASSUME Inv, server' = server, status' = status, broken' = broken,
         faults' \in Nat, idle' \in Nat, client' \in Client,
         client'.list = client.list, ClientOK', Reported'
  PROVE  Inv'
<1>1. TypeOK' /\ Fits'
  BY DEF Inv, TypeOK, Fits
<1>2. ServerOK'
  <2>1. (\A i, j \in server.messages : j < i /\ Service(j) = Service(i) => Over(j))'
    BY DEF Inv, ServerOK, Over, Service
  <2> QED
    BY <2>1 DEF Inv, ServerOK
<1> QED
  BY <1>1, <1>2 DEF Inv

\* The client ends without a result.
LEMMA NoResult ==
  ASSUME Inv, client.pc \in {"answer", "poll"}, Exits("error"), server' = server,
         status' = status, broken' = broken, faults' \in Nat, idle' \in Nat
  PROVE  Inv'
<1>1. client \in Client /\ client' = [client EXCEPT !.pc = "exit", !.exit = "error"]
  BY DEF Inv, TypeOK, Exits, Is
<1>2. /\ client' \in Client /\ client'.pc = "exit" /\ client'.exit = "error"
      /\ client'.deployed = client.deployed /\ client'.list = client.list
  BY <1>1 DEF Client
<1>3. ClientOK'
  BY <1>2 DEF Inv, ClientOK, Before, Waiting
<1>4. Reported'
  BY <1>2 DEF Inv, Reported, First, Service
<1> QED
  BY <1>2, <1>3, <1>4, ClientStep

\* The client ends with the result.
LEMMA ResultInv ==
  ASSUME Inv, client.pc \in Waiting, client' = Ended(client), server' = server,
         status' = status, broken' = broken, faults' \in Nat, idle' \in Nat
  PROVE  Inv'
<1>1. client \in Client
  BY DEF Inv, TypeOK
<1>2. /\ client' \in Client /\ client'.pc = "exit" /\ client'.list = client.list
      /\ client'.deployed = client.deployed /\ client'.exit \in {"ok", "failure"}
      /\ client'.exit = "ok" => Succeeded(client')
  BY <1>1, EndedClient
<1>3. server.pc = "answered" /\ \A n \in Names : Knows(n)
  BY DEF Inv, ClientOK
<1>4. (\A n \in Names : Knows(n))'
  BY <1>2, <1>3 DEF Knows, Service
<1>5. ClientOK'
  BY <1>2, <1>3, <1>4 DEF ClientOK, Before, Waiting
<1>6. Reported'
  BY <1>2 DEF Inv, Reported, First, Service
<1> QED
  BY <1>2, <1>5, <1>6, ClientStep

LEMMA NoAnswerInv ==
  ASSUME Inv, NoAnswer
  PROVE  Inv'
  BY NoResult DEF NoAnswer, Elsewhere, NoFault, Inv, TypeOK

LEMMA AnswerInv ==
  ASSUME Inv, Answer
  PROVE  Inv'
<1> DEFINE deployed == [n \in Names |->
             IF n \in server.errors THEN "error"
             ELSE IF \E i \in server.messages : Service(i) = n THEN "running" ELSE "none"]
           known == [client EXCEPT !.pc = "round", !.deployed = deployed,
                                   !.finished = Cardinality(server.errors)]
<1>1. /\ client \in Client /\ client.pc = "answer" /\ client.exit = ""
      /\ server.pc = "answered" /\ idle \in Nat /\ faults \in Nat
  BY DEF Inv, TypeOK, ClientOK, Answer
<1>2. client' = IF AllFinished(known) THEN Ended(known) ELSE known
  BY DEF Answer, Is
<1>3. deployed \in [Names -> Result]
  BY Outcomes
<1>4. Cardinality(server.errors) \in Nat
  BY FS_CardinalityType DEF Inv, ServerOK
<1>5. /\ known \in Client /\ known.pc = "round" /\ known.exit = ""
      /\ known.deployed = deployed /\ known.list = client.list
  <2> HIDE DEF deployed
  <2> QED
    BY <1>1, <1>3, <1>4 DEF Client
<1>6. /\ client' \in Client /\ client'.deployed = deployed /\ client'.list = client.list
      /\ \/ client'.pc = "round" /\ client'.exit = ""
         \/ client'.pc = "exit" /\ client'.exit \in {"ok", "failure"}
      /\ client'.exit = "ok" => Succeeded(client')
  <2> HIDE DEF known
  <2> QED
    BY <1>2, <1>5, EndedClient
<1>7. \A n \in Names :
        /\ n \in server.errors => deployed[n] = "error"
        /\ n \notin server.errors /\ (\E i \in server.messages : Service(i) = n)
             => deployed[n] = "running"
        /\ deployed[n] \notin Lifecycle!Outcome
  BY Outcomes
<1>8. server' = server /\ status' = status /\ broken' = broken /\ idle' = idle /\ faults' = faults
  BY DEF Answer, Elsewhere, NoFault
<1> HIDE DEF deployed, known
<1>9. (\A n \in Names : Knows(n))'
  BY <1>6, <1>7, <1>8 DEF Knows, Service
<1>10. ClientOK'
  BY <1>1, <1>6, <1>8, <1>9 DEF ClientOK, Before, Waiting
<1>11. Reported'
  <2>1. \A i \in server.messages : Service(i) \in Names
    BY <1>1, InTheRequest
  <2> QED
    BY <1>6, <1>7, <1>8, <2>1 DEF Reported, Service
<1> QED
  BY <1>1, <1>6, <1>8, <1>10, <1>11, ClientStep

LEMMA RoundInv ==
  ASSUME Inv, Round
  PROVE  Inv'
<1>1. /\ client \in Client /\ client.pc = "round" /\ client.exit = ""
      /\ server.pc = "answered" /\ \A n \in Names : Knows(n)
      /\ server \in Server /\ idle \in Nat /\ faults \in Nat
  BY DEF Inv, TypeOK, ClientOK, Round, Waiting
<1>2. /\ server' = server /\ status' = status /\ broken' = broken /\ faults' = faults
      /\ idle' \in Nat
  <2>1. idle' = idle \/ idle' = idle + 1
    BY DEF Round
  <2>2. idle' \in Nat
    <3>1. idle \in Nat
      BY <1>1
    <3> QED
      BY <2>1, <3>1
  <2> QED
    BY <2>2 DEF Round, Elsewhere, NoFault
<1>n. client.rounds \in 0 .. MaxRounds /\ MaxRounds \in Nat
  BY <1>1, ClientFields, Numbers
<1>3. CASE client.rounds >= MaxRounds
  <2>1. client' = Ended(client)
    BY <1>n, <1>3 DEF Round, Is
  <2> QED
    BY <1>1, <1>2, <2>1, ResultInv DEF Waiting
<1>4. CASE client.rounds < MaxRounds
  <2>1. client' = [client EXCEPT !.pc = "poll", !.rounds = @ + 1, !.left = server.messages]
    BY <1>4 DEF Round, Is
  <2>2. client.rounds + 1 \in 0 .. MaxRounds /\ server.messages \subseteq Deployment
    <3>1. server.messages \subseteq Deployment
      BY <1>1 DEF Server
    <3> QED
      BY <1>n, <1>4, <3>1
  <2>3. /\ client' \in Client /\ client'.pc = "poll" /\ client'.exit = ""
        /\ client'.left = server.messages /\ client'.list = client.list
        /\ client'.deployed = client.deployed
    BY <1>1, <2>1, <2>2 DEF Client
  <2>4. (\A n \in Names : Knows(n))'
    BY <1>1, <1>2, <2>3 DEF Knows, Service
  <2>5. PollOK'
    BY <1>2, <2>3 DEF PollOK
  <2>6. ClientOK'
    BY <1>1, <1>2, <2>3, <2>4, <2>5 DEF ClientOK, Before, Waiting
  <2>7. Reported'
    BY <1>2, <2>3 DEF Inv, Reported, First, Service
  <2> QED
    BY <1>1, <1>2, <2>3, <2>6, <2>7, ClientStep
<1> QED
  BY <1>n, <1>3, <1>4

LEMMA RoundDoneInv ==
  ASSUME Inv, RoundDone
  PROVE  Inv'
<1>1. /\ client \in Client /\ client.pc = "poll" /\ client.exit = ""
      /\ server.pc = "answered" /\ \A n \in Names : Knows(n)
      /\ idle \in Nat /\ faults \in Nat
  BY DEF Inv, TypeOK, ClientOK, RoundDone, Waiting
<1>2. server' = server /\ status' = status /\ broken' = broken /\ faults' = faults /\ idle' = idle
  BY DEF RoundDone, Elsewhere, NoFault
<1>3. CASE client' = Ended(client)
  BY <1>1, <1>2, <1>3, ResultInv DEF Waiting
<1>4. CASE client' = [client EXCEPT !.pc = "round"]
  <2>1. /\ client' \in Client /\ client'.pc = "round" /\ client'.exit = ""
        /\ client'.list = client.list /\ client'.deployed = client.deployed
    BY <1>1, <1>4 DEF Client
  <2>2. (\A n \in Names : Knows(n))'
    BY <1>1, <1>2, <2>1 DEF Knows, Service
  <2>3. ClientOK'
    BY <1>1, <1>2, <2>1, <2>2 DEF ClientOK, Before, Waiting
  <2>4. Reported'
    BY <1>2, <2>1 DEF Inv, Reported, First, Service
  <2> QED
    BY <1>1, <1>2, <2>1, <2>3, <2>4, ClientStep
<1> QED
  BY <1>3, <1>4 DEF RoundDone, Is, AfterRound

-----------------------------------------------------------------------------
(* A deployment is asked for                                               *)

\* v is what the client knows of the service from then on.
LEMMA PollOn ==
  ASSUME Inv, client.pc = "poll", NEW i \in client.left, \A j \in client.left : i <= j,
         server' = server, status' = status, broken' = broken, idle' = idle,
         faults' \in Nat,
         client' \in Client, client'.pc = "poll", client'.exit = "",
         client'.list = client.list, client'.left = client.left \ {i},
         NEW v, client'.deployed[Service(i)] = v,
         \A n \in Names : n # Service(i) => client'.deployed[n] = client.deployed[n],
         \/ v = client.deployed[Service(i)] /\ (v = "running" => status[i] = "running")
         \/ Asks(i) /\ v = ""
         \/ Asks(i) /\ v = status[i] /\ v # "running"
  PROVE  Inv'
<1> USE DEF Inv
<1>1. /\ server.pc = "answered" /\ \A n \in Names : Knows(n)
      /\ PollOK /\ idle \in Nat
  BY DEF ClientOK, TypeOK, Waiting
<1>2. /\ i \in server.messages
      /\ \A j \in server.messages :
           j \in Nat /\ j \in Deployment /\ Service(j) \in Names
  BY <1>1, InTheRequest DEF PollOK
<1>n. i \in Nat /\ \A j \in client.left : j \in Nat
  BY <1>1, <1>2 DEF PollOK
<1>3. /\ status \in [Deployment -> Lifecycle!Outcome \cup {"none", "running"}]
      /\ status[i] # "none"
  BY <1>2 DEF TypeOK, ServerOK
<1>4. Asks(i) => Service(i) \notin server.errors
  BY <1>1, <1>2 DEF Asks, Knows
<1>5. (\A n \in Names : Knows(n))'
  <2> SUFFICES ASSUME NEW n \in Names
               PROVE  /\ n \in server.errors => client'.deployed[n] = "error"
                      /\ n \notin server.errors /\ (\E j \in server.messages : Service(j) = n)
                           => client'.deployed[n] \notin {"none", "error"}
    BY DEF Knows, Service
  <2>1. CASE client'.deployed[n] = client.deployed[n]
    BY <1>1, <2>1 DEF Knows
  <2>2. CASE n = Service(i) /\ Asks(i) /\ v \notin {"none", "error"}
    BY <1>4, <2>2
  <2>3. Asks(i) /\ v = status[i] => v \notin {"none", "error"}
    BY <1>2, <1>3, Outcomes
  <2> QED
    BY <2>1, <2>2, <2>3
\* A service deployed again: the first of its deployments is over.
<1>6. ASSUME NEW j \in server.messages, i < j, Service(i) = Service(j)
      PROVE  v # "running"
  <2>1. status[i] \in Lifecycle!Outcome
    BY <1>2, <1>6 DEF ServerOK, Over
  <2> QED
    BY <2>1, Outcomes DEF Asks
<1>7. PollOK'
  <2>1. client'.left \subseteq server.messages
    BY <1>1 DEF PollOK
  <2>2. ASSUME NEW a \in server.messages, NEW j \in client'.left
        PROVE  a < j \/ a \in client'.left
    <3>1. j \in client.left /\ j # i
      OBVIOUS
    <3>2. CASE a = i
      <4>1. i <= j /\ i \in Nat /\ j \in Nat
        BY <1>n, <3>1
      <4> QED
        BY <3>1, <3>2, <4>1, Order, Zenon
    <3>3. CASE a # i
      BY <1>1, <3>1, <3>3 DEF PollOK
    <3> QED
      BY <3>2, <3>3
  <2>3. ASSUME NEW a \in server.messages, NEW b \in server.messages,
               a \notin client'.left, a < b, Service(a) = Service(b)
        PROVE  client'.deployed[Service(a)] # "running"
    <3>1. CASE a = i
      BY <1>6, <2>3, <3>1
    <3>2. CASE a # i
      <4>1. client.deployed[Service(a)] # "running" /\ Service(a) \in Names
        BY <1>1, <1>2, <2>3, <3>2 DEF PollOK
      <4>2. CASE Service(a) = Service(i)
        BY <4>1, <4>2, <1>2, <1>3, Outcomes DEF Asks
      <4>3. CASE Service(a) # Service(i)
        BY <4>1, <4>3
      <4> QED
        BY <4>2, <4>3
    <3> QED
      BY <3>1, <3>2
  <2>4. (\A a, b \in server.messages :
           a \notin client.left /\ a < b /\ Service(a) = Service(b) =>
             client.deployed[Service(a)] # "running")'
    BY <2>3 DEF Service
  <2> QED
    BY <2>1, <2>2, <2>4 DEF PollOK
<1>8. ClientOK'
  BY <1>1, <1>5, <1>7 DEF ClientOK, Before, Waiting
<1>9. Reported'
  <2> SUFFICES ASSUME NEW j \in server.messages, First(j),
                      client'.deployed[Service(j)] \in Lifecycle!Outcome
               PROVE  status[j] = client'.deployed[Service(j)]
    BY DEF Reported, First, Service
  <2>1. CASE client'.deployed[Service(j)] = client.deployed[Service(j)]
    BY <2>1 DEF Reported
  <2>2. CASE Service(j) = Service(i) /\ Asks(i) /\ v = ""
    BY <2>2, Outcomes
  <2>3. CASE Service(j) = Service(i) /\ Asks(i) /\ v = status[i]
    <3>1. j <= i
      BY <1>2, <2>3 DEF First
    <3>2. ~(j < i)
      <4> SUFFICES ASSUME j < i PROVE FALSE
        OBVIOUS
      <4>1. j \notin client.left
        <5>1. j \in Nat /\ i \in Nat
          BY <1>n, <1>2
        <5>2. j \in client.left => i <= j
          OBVIOUS
        <5> QED
          BY <5>1, <5>2, Order, Zenon
      <4> QED
        BY <4>1, <1>1, <1>2, <2>3 DEF PollOK, Asks
    <3>3. j = i
      <4>1. j \in Nat /\ i \in Nat
        BY <1>n, <1>2
      <4> QED
        BY <3>1, <3>2, <4>1, Order, Zenon
    <3> QED
      BY <2>3, <3>3
  <2>4. Service(j) \in Names
    BY <1>2
  <2> QED
    BY <2>1, <2>2, <2>3, <2>4
<1> QED
  BY <1>1, <1>8, <1>9, ClientStep

LEMMA PollInv ==
  ASSUME Inv, Poll
  PROVE  Inv'
<1>1. PICK i \in client.left :
        /\ \A j \in client.left : i <= j
        /\ \/ ~Asks(i) /\ Past(i, client) /\ NoFault
           \/ Asks(i) /\ Past(i, Told(i, StatusOf(i))) /\ NoFault
           \/ Asks(i) /\ Past(i, Told(i, "")) /\ Fault
           \/ Asks(i) /\ Exits("error") /\ Fault
  BY DEF Poll
<1>2. /\ client \in Client /\ client.pc = "poll" /\ client.exit = ""
      /\ server.pc = "answered" /\ client.left \subseteq server.messages
      /\ idle \in Nat /\ faults \in Nat
      /\ status \in [Deployment -> Lifecycle!Outcome \cup {"none", "running"}]
  BY DEF Inv, TypeOK, ClientOK, Poll, Waiting, PollOK
<1>3. /\ server' = server /\ status' = status /\ broken' = broken /\ idle' = idle
      /\ faults' \in Nat
  <2>1. NoFault \/ Fault
    BY <1>1
  <2>2. faults' = faults \/ faults' = faults + 1
    BY <2>1 DEF NoFault, Fault
  <2>3. faults' \in Nat
    <3>1. faults \in Nat
      BY <1>2
    <3> QED
      BY <2>2, <3>1
  <2> QED
    BY <2>3 DEF Poll, Elsewhere
<1>4. Service(i) \in Names /\ i \in Deployment /\ status[i] # "none"
  BY <1>2, InTheRequest DEF Inv, ServerOK
<1>5. ASSUME NEW v \in {"", status[i]}, v # "running"
      PROVE  /\ Told(i, v) \in Client /\ Told(i, v).pc = "poll" /\ Told(i, v).exit = ""
             /\ Told(i, v).list = client.list /\ Told(i, v).left = client.left
             /\ Told(i, v).deployed = [client.deployed EXCEPT ![Service(i)] = v]
  <2>1. v \in Result
    BY <1>2, <1>4, <1>5 DEF Result
  <2>2. client.deployed \in [Names -> Result] /\ client.finished + 1 \in Nat
    <3>1. client.finished \in Nat /\ client.deployed \in [Names -> Result]
      BY <1>2, ClientFields
    <3> QED
      BY <3>1, Order, Zenon
  <2>3. [client.deployed EXCEPT ![Service(i)] = v] \in [Names -> Result]
    BY <1>4, <2>1, <2>2
  <2> DEFINE deployed == [client.deployed EXCEPT ![Service(i)] = v]
  <2>4. Told(i, v) = [client EXCEPT !.deployed = deployed, !.finished = client.finished + 1]
    BY <1>2, <1>5 DEF Told, Client
  <2>5. deployed \in [Names -> Result]
    BY <2>3
  <2>6. /\ Told(i, v) \in Client /\ Told(i, v).pc = "poll" /\ Told(i, v).exit = ""
        /\ Told(i, v).list = client.list /\ Told(i, v).left = client.left
        /\ Told(i, v).deployed = deployed
    <3> HIDE DEF deployed
    <3> QED
      BY <1>2, <2>2, <2>4, <2>5 DEF Client
  <2> QED
    BY <2>6
<1>6. ASSUME NEW c \in Client, Past(i, c)
      PROVE  /\ client' \in Client /\ client'.pc = c.pc /\ client'.exit = c.exit
             /\ client'.list = c.list /\ client'.left = c.left \ {i}
             /\ client'.deployed = c.deployed
  BY <1>6 DEF Past, Is, Client
<1>7. CASE Past(i, client) /\ (~Asks(i) \/ status[i] = "running")
  BY <1>1, <1>2, <1>3, <1>6, <1>7, PollOn DEF Asks
<1>8. ASSUME NEW v \in {"", status[i]}, v # "running", Asks(i), Past(i, Told(i, v))
      PROVE  Inv'
  <2>1. client.deployed \in [Names -> Result]
    BY <1>2 DEF Client
  <2>2. /\ client' \in Client /\ client'.pc = "poll" /\ client'.exit = ""
        /\ client'.list = client.list /\ client'.left = client.left \ {i}
        /\ client'.deployed = [client.deployed EXCEPT ![Service(i)] = v]
    BY <1>5, <1>6, <1>8
  <2>3. /\ client'.deployed[Service(i)] = v
        /\ \A n \in Names : n # Service(i) => client'.deployed[n] = client.deployed[n]
    BY <1>4, <2>1, <2>2
  <2> QED
    BY <1>1, <1>2, <1>3, <1>8, <2>2, <2>3, PollOn
<1>9. CASE Exits("error")
  BY <1>2, <1>3, <1>9, NoResult
<1>10. CASE Asks(i) /\ Past(i, Told(i, StatusOf(i)))
  <2>1. CASE status[i] = "running"
    BY <1>7, <1>10, <2>1 DEF Told, StatusOf
  <2>2. CASE status[i] # "running"
    BY <1>8, <1>10, <2>2 DEF StatusOf
  <2> QED
    BY <2>1, <2>2
<1>11. CASE Asks(i) /\ Past(i, Told(i, ""))
  BY <1>8, <1>11
<1> QED
  BY <1>1, <1>7, <1>9, <1>10, <1>11

-----------------------------------------------------------------------------
(* The theorems                                                            *)

LEMMA StutterInv ==
  ASSUME Inv, UNCHANGED vars
  PROVE  Inv'
<1>1. /\ client' = client /\ server' = server /\ status' = status /\ broken' = broken
      /\ idle' = idle /\ faults' = faults
  BY DEF vars
<1>2. client \in Client /\ idle \in Nat /\ faults \in Nat
  BY DEF Inv, TypeOK
<1>3. ClientOK'
  BY <1>1 DEF Inv, ClientOK, Knows, PollOK, Service, Succeeded, Known
<1>4. Reported'
  BY <1>1 DEF Inv, Reported, First, Service
<1> QED
  BY <1>1, <1>2, <1>3, <1>4, ClientStep

\* The inductive invariant holds in every state of the client, the server and the
\* deployments, in any interleaving with calls that fail.
THEOREM Invariance == Spec => []Inv
<1>1. Inv /\ [Next]_vars => Inv'
  <2> SUFFICES ASSUME Inv, [Next]_vars PROVE Inv'
    OBVIOUS
  <2>1. CASE Deploy
    BY <2>1, ParseFileInv, FilesDoneInv, PostInv, AnswerInv, NoAnswerInv, RoundInv,
       PollInv, RoundDoneInv DEF Deploy
  <2>2. CASE Handle
    BY <2>2, AbortEarlierInv, DeployFailsInv, DeployServiceInv, RespondInv,
       ServerEndsInv DEF Handle
  <2>3. CASE Finish
    BY <2>3, FinishInv
  <2>4. CASE UNCHANGED vars
    BY <2>4, StutterInv
  <2> QED
    BY <2>1, <2>2, <2>3, <2>4 DEF Next
<1> QED
  BY InitInv, <1>1, PTL DEF Spec

\* The variables keep their types: the answer lists deployments of the request only,
\* and the client counts within its rounds.
THEOREM TypeCorrect == Spec => []TypeOK
<1>1. Inv => TypeOK
  BY DEF Inv
<1> QED
  BY Invariance, <1>1, PTL

\* An outcome that the client prints is that of the first deployment of the
\* service in the answer, however names repeat and whatever answers are lost.
THEOREM ReportsTheOutcome == Spec => []Reported
<1>1. Inv => Reported
  BY DEF Inv
<1> QED
  BY Invariance, <1>1, PTL

\* A client that exits with 0 has deployed every service it has sent, and the
\* deployment it asked for was successful and still is.
THEOREM OkIsDeployed == Spec => []OkMeansDeployed
<1>1. Inv => OkMeansDeployed
  <2> SUFFICES ASSUME Inv, client.exit = "ok"
               PROVE  /\ server.errors = {} /\ server.messages = 1 .. Len(client.list)
                      /\ \A i \in server.messages : First(i) => status[i] = "success"
    BY DEF OkMeansDeployed
  <2>1. /\ server.pc = "answered" /\ Succeeded(client) /\ \A n \in Names : Knows(n)
        /\ server \in Server /\ Reported
    BY DEF Inv, ClientOK, TypeOK
  <2>2. server.errors = {}
    BY <2>1 DEF Server, Knows, Succeeded, Known
  <2>3. server.messages = 1 .. Len(client.list)
    BY <2>1, <2>2, InTheRequest DEF Inv, ServerOK
  <2>4. ASSUME NEW i \in server.messages, First(i)
        PROVE  status[i] = "success"
    <3>1. Service(i) \in Names
      BY <2>1, InTheRequest
    <3>2. client.deployed[Service(i)] # "none"
      BY <2>1, <2>2, <3>1 DEF Knows
    <3>3. client.deployed[Service(i)] = "success"
      BY <2>1, <3>1, <3>2 DEF Succeeded, Known
    <3> QED
      BY <2>1, <2>4, <3>3, Outcomes DEF Reported
  <2> QED
    BY <2>2, <2>3, <2>4
<1> QED
  BY Invariance, <1>1, PTL
-----------------------------------------------------------------------------
(* The end of the rounds: the client counts the services that it need not  *)
(* ask for any more, and in a round that began when all deployments had    *)
(* their outcome it asks for each of the others.                           *)

Answered(deployed) == {n \in Known(deployed) : deployed[n] # "running"}
Missing(deployed) == \E n \in Names : deployed[n] = "running"

CountOK(c) ==
  /\ IsFiniteSet(Known(c.deployed))
  /\ c.finished = Cardinality(Answered(c.deployed))

Counted ==
  client.pc \in Waiting =>
    /\ CountOK(client)
    /\ \A n \in Names : client.deployed[n] = "running" => \E i \in server.messages : Service(i) = n

LastRound ==
  /\ client.pc \in Before \cup {"answer", "round"} => idle = 0
  /\ client.pc = "poll" /\ idle # 0 =>
       \A n \in Names : client.deployed[n] = "running" =>
         \E i \in client.left : Service(i) = n /\ status[i] # "running"
  /\ idle \in {0, 1}

Rounds == Counted /\ LastRound

\* The numbers differ as long as there is a service to ask for.
LEMMA CountIsRight ==
  ASSUME NEW c, CountOK(c)
  PROVE  AllFinished(c) <=> ~Missing(c.deployed)
<1> DEFINE K == Known(c.deployed)
           A == Answered(c.deployed)
<1>1. IsFiniteSet(K) /\ A \in SUBSET K /\ c.finished = Cardinality(A)
  BY DEF CountOK, Answered
<1>2. Cardinality(K) = Cardinality(A) <=> K = A
  BY <1>1, FS_Subset
<1>3. K = A <=> ~Missing(c.deployed)
  BY DEF Known, Answered, Missing
<1> QED
  BY <1>1, <1>2, <1>3 DEF AllFinished

\* One service more need not be asked for.
LEMMA CountOneMore ==
  ASSUME NEW c, NEW d, CountOK(c), c.deployed \in [Names -> Result], NEW n \in Names,
         c.deployed[n] = "running", NEW v \in Result \ {"none", "running"},
         d.deployed = [c.deployed EXCEPT ![n] = v], d.finished = c.finished + 1
  PROVE  CountOK(d)
<1>1. Known(d.deployed) = Known(c.deployed)
  BY DEF Known
<1>2. Answered(d.deployed) = Answered(c.deployed) \cup {n} /\ n \notin Answered(c.deployed)
  BY DEF Known, Answered
<1>3. IsFiniteSet(Answered(c.deployed))
  <2>1. Answered(c.deployed) \in SUBSET Known(c.deployed)
    BY DEF Answered
  <2> QED
    BY <2>1, FS_Subset DEF CountOK
<1> QED
  BY <1>1, <1>2, <1>3, FS_AddElement DEF CountOK

\* The services in the answer are as few as the deployments and errors in it.
LEMMA FiniteAnswer ==
  ASSUME Inv
  PROVE  IsFiniteSet(server.errors) /\ IsFiniteSet({Service(i) : i \in server.messages})
<1> DEFINE T == {Service(i) : i \in server.messages}
           f == [i \in server.messages |-> Service(i)]
<1>1. IsFiniteSet(server.messages)
  <2>1. server.at \in Nat /\ server.messages \in SUBSET (1 .. (server.at - 1))
    BY DEF Inv, ServerOK
  <2>2. 1 \in Int /\ server.at - 1 \in Int
    BY <2>1
  <2> QED
    BY <2>1, <2>2, FS_Interval, FS_Subset
<1>2. f \in Surjection(server.messages, T)
  BY DEF Surjection
<1> QED
  BY <1>1, <1>2, FS_Surjection DEF Inv, ServerOK

\* The client is not in its rounds.
LEMMA NotInRounds ==
  ASSUME Inv, Rounds, client'.pc \notin Waiting, UNCHANGED idle,
         client'.pc \in Before \cup {"answer"} => client.pc \in Before \cup {"answer"}
  PROVE  Rounds'
  BY DEF Rounds, Counted, LastRound, Waiting

\* A client that goes on with what it knows, while deployments get their outcome.
LEMMA RoundsKept ==
  ASSUME Inv, Rounds, UNCHANGED <<server, idle>>, client'.list = client.list,
         client'.pc = client.pc, client'.deployed = client.deployed,
         client'.finished = client.finished,
         client.pc = "poll" =>
           \A i \in client.left : status[i] # "running" /\ Asks(i) =>
             i \in client'.left /\ status'[i] # "running"
  PROVE  Rounds'
<1>1. Counted'
  BY DEF Rounds, Counted, CountOK, Service
<1>2. ASSUME client.pc = "poll", idle # 0, NEW n \in Names, client.deployed[n] = "running"
      PROVE  \E i \in client'.left : client'.list[i] = n /\ status'[i] # "running"
  <2>1. PICK i \in client.left : Service(i) = n /\ status[i] # "running"
    BY <1>2 DEF Rounds, LastRound
  <2> QED
    BY <1>2, <2>1 DEF Asks, Service
<1> QED
  BY <1>1, <1>2 DEF Rounds, LastRound, Service

LEMMA AnswerRounds ==
  ASSUME Inv, Rounds, Answer
  PROVE  Rounds'
<1> DEFINE deployed == [n \in Names |->
             IF n \in server.errors THEN "error"
             ELSE IF \E i \in server.messages : Service(i) = n THEN "running" ELSE "none"]
           known == [client EXCEPT !.pc = "round", !.deployed = deployed,
                                   !.finished = Cardinality(server.errors)]
<1>1. /\ client \in Client /\ client.pc = "answer" /\ server.errors \subseteq Names /\ idle = 0
      /\ UNCHANGED <<server, idle>>
  BY DEF Inv, TypeOK, Server, Answer, Rounds, LastRound
<1>2. client' = IF AllFinished(known) THEN Ended(known) ELSE known
  BY DEF Answer, Is
<1>3. deployed \in [Names -> Result] /\ Cardinality(server.errors) \in Nat
  BY Outcomes, FiniteAnswer, FS_CardinalityType
<1>4. /\ \A n \in Names : deployed[n] = "running" => \E i \in server.messages : Service(i) = n
      /\ Answered(deployed) = server.errors
      /\ Known(deployed) \subseteq server.errors \cup {Service(i) : i \in server.messages}
  BY <1>1 DEF Known, Answered
<1>5. /\ known \in Client /\ known.pc = "round" /\ known.deployed = deployed
      /\ known.list = client.list /\ known.finished = Cardinality(server.errors)
  <2> HIDE DEF deployed
  <2> QED
    BY <1>1, <1>3 DEF Client
<1> HIDE DEF deployed, known
<1>6. CountOK(known)
  <2>1. IsFiniteSet(server.errors \cup {Service(i) : i \in server.messages})
    BY FiniteAnswer, FS_Union
  <2>2. IsFiniteSet(Known(deployed))
    BY <1>4, <2>1, FS_Subset
  <2> QED
    BY <1>4, <1>5, <2>2 DEF CountOK
<1>7. CASE client' = Ended(known)
  <2>1. client'.pc = "exit"
    BY <1>5, <1>7, EndedClient
  <2> QED
    BY <1>1, <2>1, NotInRounds DEF Waiting, Before
<1>8. CASE client' = known
  <2>1. Counted'
    BY <1>1, <1>4, <1>5, <1>6, <1>8 DEF Counted, CountOK, Service
  <2> QED
    BY <1>1, <1>5, <1>8, <2>1 DEF Rounds, LastRound
<1> QED
  BY <1>2, <1>7, <1>8

LEMMA RoundRounds ==
  ASSUME Inv, Rounds, Round
  PROVE  Rounds'
<1>1. /\ client \in Client /\ client.pc = "round" /\ idle = 0 /\ UNCHANGED <<server, status>>
      /\ idle' = IF client.rounds < MaxRounds /\ Settled THEN idle + 1 ELSE idle
  BY DEF Inv, TypeOK, Round, Elsewhere, Rounds, LastRound
<1>2. CASE /\ client.rounds < MaxRounds
           /\ client' = [client EXCEPT !.pc = "poll", !.rounds = @ + 1, !.left = server.messages]
  <2>1. /\ client'.pc = "poll" /\ client'.deployed = client.deployed /\ client'.list = client.list
        /\ client'.finished = client.finished /\ client'.left = server.messages
    BY <1>1, <1>2 DEF Client
  <2>2. Counted /\ Counted'
    BY <1>1, <2>1 DEF Rounds, Counted, CountOK, Waiting, Service
  <2>3. idle' \in {0, 1} /\ (idle' # 0 => Settled)
    BY <1>1
  <2>4. ASSUME Settled, NEW n \in Names, client.deployed[n] = "running"
        PROVE  \E i \in client'.left : client'.list[i] = n /\ status'[i] # "running"
    BY <1>1, <2>1, <2>2, <2>4 DEF Counted, Waiting, Service, Settled
  <2> QED
    BY <1>1, <2>1, <2>2, <2>3, <2>4 DEF Rounds, LastRound, Before, Service
<1>3. CASE ~(client.rounds < MaxRounds) /\ client' = Ended(client)
  <2>1. client'.pc = "exit" /\ UNCHANGED idle
    BY <1>1, <1>3, EndedClient
  <2> QED
    BY <2>1, NotInRounds DEF Waiting, Before
<1> QED
  BY <1>2, <1>3 DEF Round, Is

LEMMA RoundDoneRounds ==
  ASSUME Inv, Rounds, RoundDone
  PROVE  Rounds'
<1>1. /\ client \in Client /\ client.pc = "poll" /\ client.left = {}
      /\ UNCHANGED <<server, idle, status>> /\ CountOK(client)
  BY DEF Inv, TypeOK, RoundDone, Elsewhere, Rounds, Counted, Waiting
<1>2. CASE AllFinished(client)
  <2>1. client'.pc = "exit"
    BY <1>1, <1>2, EndedClient DEF RoundDone, Is, AfterRound
  <2> QED
    BY <1>1, <2>1, NotInRounds DEF Waiting, Before
<1>3. CASE ~AllFinished(client)
  <2>1. client' = [client EXCEPT !.pc = "round"]
    BY <1>3 DEF RoundDone, Is, AfterRound
  <2>2. /\ client'.pc = "round" /\ client'.deployed = client.deployed /\ client'.list = client.list
        /\ client'.finished = client.finished
    BY <1>1, <2>1 DEF Client
  <2>3. idle = 0
    BY <1>1, <1>3, CountIsRight DEF Missing, Rounds, LastRound
  <2> QED
    BY <1>1, <2>2, <2>3 DEF Rounds, Counted, CountOK, LastRound, Waiting, Service
<1> QED
  BY <1>2, <1>3

LEMMA PollRounds ==
  ASSUME Inv, Rounds, Poll
  PROVE  Rounds'
<1>1. PICK i \in client.left :
        \/ Past(i, client) /\ ~Asks(i)
        \/ Past(i, Told(i, StatusOf(i))) /\ Asks(i)
        \/ Past(i, Told(i, "")) /\ Asks(i)
        \/ Exits("error")
  BY DEF Poll
<1>2. /\ client \in Client /\ client.pc = "poll" /\ UNCHANGED <<server, idle, status>>
      /\ status[i] \in Lifecycle!Outcome \cup {"none", "running"} /\ status[i] # "none"
      /\ Service(i) \in Names /\ CountOK(client)
  <2>1. i \in server.messages /\ server.pc = "answered" /\ client.pc = "poll"
    BY DEF Poll, Inv, ClientOK, PollOK, Waiting
  <2>2. i \in Deployment /\ Service(i) \in Names
    BY <2>1, InTheRequest
  <2> QED
    BY <2>1, <2>2 DEF Poll, Elsewhere, Inv, TypeOK, ServerOK, Rounds, Counted, Waiting
<1>3. CASE Exits("error")
  <2>1. client'.pc = "exit"
    BY <1>2, <1>3 DEF Exits, Is, Client
  <2> QED
    BY <1>2, <2>1, NotInRounds DEF Waiting, Before
<1>4. CASE Past(i, client) /\ (~Asks(i) \/ status[i] = "running")
  <2>1. /\ client'.pc = client.pc /\ client'.deployed = client.deployed /\ client'.list = client.list
        /\ client'.finished = client.finished /\ client'.left = client.left \ {i}
    BY <1>2, <1>4 DEF Past, Is, Client
  <2> QED
    BY <1>2, <1>4, <2>1, RoundsKept
<1>5. ASSUME NEW v \in {"", status[i]}, v # "running", Asks(i), Past(i, Told(i, v))
      PROVE  Rounds'
  <2>1. v \in Result \ {"none", "running"}
    BY <1>2, <1>5 DEF Result
  <2>2. client.deployed \in [Names -> Result] /\ client.deployed[Service(i)] = "running"
    BY <1>2, <1>5, ClientFields DEF Asks
  <2> DEFINE deployed == [client.deployed EXCEPT ![Service(i)] = v]
             c == [client EXCEPT !.deployed = deployed, !.finished = client.finished + 1]
  <2>3. Told(i, v) = c
    BY <1>2, <1>5 DEF Told, Client
  <2>4. client' = [c EXCEPT !.left = c.left \ {i}]
    BY <1>5, <2>3 DEF Past, Is
  <2>5. /\ client'.pc = "poll" /\ client'.deployed = deployed /\ client'.list = client.list
        /\ client'.finished = client.finished + 1 /\ client'.left = client.left \ {i}
    <3> HIDE DEF deployed
    <3> QED
      BY <1>2, <2>4 DEF Client
  <2>6. CountOK(client')
    BY <1>2, <2>1, <2>2, <2>5, CountOneMore
  <2>7. \A n \in Names : deployed[n] = "running" => client.deployed[n] = "running" /\ n # Service(i)
    BY <2>1, <2>2
  <2> HIDE DEF deployed, c
  <2>8. Counted'
    <3>1. ASSUME NEW n \in Names, client'.deployed[n] = "running"
          PROVE  \E j \in server'.messages : client'.list[j] = n
      BY <1>2, <2>5, <2>7, <3>1 DEF Rounds, Counted, Waiting, Service
    <3>2. IsFiniteSet(Known(client.deployed))' /\ (client.finished = Cardinality(Answered(client.deployed)))'
      BY <2>6 DEF CountOK
    <3> QED
      BY <3>1, <3>2 DEF Counted, CountOK, Service
  <2>9. ASSUME idle # 0, NEW n \in Names, deployed[n] = "running"
        PROVE  \E j \in client.left \ {i} : Service(j) = n /\ status[j] # "running"
    BY <1>2, <2>7, <2>9 DEF Rounds, LastRound
  <2>10. idle' \in {0, 1}
    BY <1>2 DEF Rounds, LastRound
  <2>11. ASSUME idle' # 0, NEW n \in Names, client'.deployed[n] = "running"
         PROVE  \E j \in client'.left : client'.list[j] = n /\ status'[j] # "running"
    BY <1>2, <2>5, <2>9, <2>11 DEF Service
  <2> QED
    BY <2>5, <2>8, <2>10, <2>11 DEF Rounds, LastRound, Before, Service
<1>6. CASE Asks(i) /\ Past(i, Told(i, StatusOf(i)))
  <2>1. CASE status[i] = "running"
    BY <1>4, <1>6, <2>1 DEF Told, StatusOf
  <2>2. CASE status[i] # "running"
    BY <1>5, <1>6, <2>2 DEF StatusOf
  <2> QED
    BY <2>1, <2>2
<1>7. CASE Asks(i) /\ Past(i, Told(i, ""))
  BY <1>5, <1>7
<1> QED
  BY <1>1, <1>3, <1>4, <1>6, <1>7

LEMMA NextRounds ==
  ASSUME Inv, Rounds, [Next]_vars
  PROVE  Rounds'
<1>1. client \in Client /\ (client.pc \in Waiting => server.pc = "answered")
  BY DEF Inv, TypeOK, ClientOK
<1>2. CASE ParseFile \/ FilesDone \/ Post
  <2>1. client.pc \in Before /\ UNCHANGED idle /\ client'.pc \in Before \cup {"answer", "exit"}
    <3>1. CASE ParseFile
      BY <1>1, <3>1 DEF ParseFile, Is, Client, Before
    <3>2. CASE FilesDone
      BY <1>1, <3>2 DEF FilesDone, Goes, Exits, Is, Client, Before
    <3>3. CASE Post
      BY <1>1, <3>3 DEF Post, Goes, Is, Client, Before
    <3> QED
      BY <1>2, <3>1, <3>2, <3>3
  <2> QED
    BY <2>1, NotInRounds DEF Before, Waiting
<1>3. CASE NoAnswer
  <2>1. UNCHANGED idle /\ client'.pc = "exit"
    BY <1>1, <1>3 DEF Inv, TypeOK, NoAnswer, Exits, Is, Client
  <2> QED
    BY <2>1, NotInRounds DEF Before, Waiting
<1>4. CASE Handle
  <2>1. server.pc # "answered" /\ UNCHANGED <<client, idle>>
    BY <1>4 DEF Handle, AbortEarlier, DeployFails, DeployService, Respond, ServerEnds, Deploying, ServerOnly
  <2> QED
    BY <1>1, <2>1, NotInRounds
<1>5. CASE Finish
  <2>1. PICK d \in Deployment, outcome \in Lifecycle!Outcome : Lifecycle!Finish(d, outcome)
    BY <1>5 DEF Finish
  <2>2. \A i \in client.left : status[i] # "running" => status'[i] = status[i]
    BY <2>1 DEF Inv, TypeOK, Client, Lifecycle!Finish
  <2>3. UNCHANGED <<server, client, idle>>
    BY <1>5 DEF Finish, ServerOnly
  <2> QED
    BY <2>2, <2>3, RoundsKept
<1>6. CASE UNCHANGED vars
  BY <1>6, RoundsKept DEF vars
<1> QED
  BY <1>2, <1>3, <1>4, <1>5, <1>6, AnswerRounds, RoundRounds, PollRounds, RoundDoneRounds
  DEF Next, Deploy

\* A client does not wait for what is over: after the round in which all deployments
\* have their outcome at the latest, it ends.
THEOREM RoundsEnd == Spec => []StopsWhenSettled
<1>1. Init => Rounds
  <2> SUFFICES ASSUME Init PROVE Rounds
    OBVIOUS
  <2>1. client.pc = "files" /\ idle = 0
    BY DEF Init
  <2> QED
    BY <2>1 DEF Rounds, Counted, LastRound, Waiting
<1>2. Inv /\ Rounds /\ [Next]_vars => Rounds'
  BY NextRounds
<1>3. Rounds => StopsWhenSettled
  BY DEF Rounds, LastRound, StopsWhenSettled
<1> QED
  BY <1>1, <1>2, <1>3, Invariance, PTL DEF Spec
=============================================================================
