----------------------------- MODULE EcsClient -----------------------------
(***************************************************************************)
(* ecs-client deploy: the files are read, one request deploys all services *)
(* found in them, one after the other, and the client asks for the status  *)
(* of each deployment until all have an outcome or its rounds are used up. *)
(* The deployments are what DeploymentLifecycle promises of them, which    *)
(* Deployments implements: they get their outcome at any time, or never.   *)
(*                                                                         *)
(* A file is the sequence of services in it; in a directory read for       *)
(* --service-name these have the name of the file, so names can repeat.    *)
(***************************************************************************)
EXTENDS Naturals, Sequences, SequencesExt, FiniteSetsExt

CONSTANTS
  Files,         \* ecs.json, ecs.*.json, ecs.yaml, ... in the directory, or the one file given
  ServicesIn,    \* ServicesIn[f]: names of the services in file f
  MaxServices,   \* bound: services in one request
  MaxRounds,     \* maxWait/15
  MaxFaults      \* bound: calls that fail, or whose answer is lost

Names == UNION {ToSet(ServicesIn[f]) : f \in Files}

\* Deployments are numbered by the place of their service in the request.
Deployment == 1 .. MaxServices

ASSUME ClientConstants ==
  /\ \A f \in Files : ServicesIn[f] \in Seq(Names) /\ ServicesIn[f] # <<>>
  /\ MaxServices \in Nat /\ MaxRounds \in Nat /\ MaxFaults \in Nat

VARIABLES
  broken,    \* files that cannot be parsed
  client,
  server,    \* the handler of the request
  status,    \* status[i]: the row of the i-th deployment
  idle,      \* history: rounds begun although every deployment had its outcome
  faults

vars == <<broken, client, server, status, idle, faults>>

Lifecycle == INSTANCE DeploymentLifecycle WITH Requests <- Deployment

-----------------------------------------------------------------------------
(* State                                                                   *)

\* "" is the status in an answer without a service.
Result == {"none", "running", "error", ""} \cup Lifecycle!Outcome
Client == [pc : {"files", "post", "answer", "round", "poll", "exit"},
           todo : SUBSET Files, list : Seq(Names),
           deployed : [Names -> Result], finished : Nat,
           rounds : 0 .. MaxRounds, left : SUBSET Deployment,
           exit : {"", "ok", "failure", "error"}]

\* The answer: deployments that began, and the services with an error.
Server == [pc : {"none", "deploy", "answered", "down"}, at : Nat,
           messages : SUBSET Deployment, errors : SUBSET Names]

Init ==
  /\ broken \in SUBSET Files
  /\ client = [pc |-> "files", todo |-> Files, list |-> <<>>,
               deployed |-> [n \in Names |-> "none"], finished |-> 0,
               rounds |-> 0, left |-> {}, exit |-> ""]
  /\ server = [pc |-> "none", at |-> 1, messages |-> {}, errors |-> {}]
  /\ Lifecycle!Init
  /\ idle = 0 /\ faults = 0

NoFault == UNCHANGED faults
Fault == faults < MaxFaults /\ faults' = faults + 1

Is(c) == client' = c
Goes(pc) == Is([client EXCEPT !.pc = pc])
Exits(how) == Is([client EXCEPT !.pc = "exit", !.exit = how])
Elsewhere == UNCHANGED <<broken, status>>

-----------------------------------------------------------------------------
(* parseFiles                                                              *)

\* In the order of a map.  A file that cannot be parsed ends the loop without an
\* error: what was found before is deployed.
ParseFile ==
  /\ client.pc = "files"
  /\ \E f \in client.todo :
       /\ Len(client.list) + Len(ServicesIn[f]) <= MaxServices
       /\ Is(IF f \in broken THEN [client EXCEPT !.todo = {}]
          ELSE [client EXCEPT !.todo = @ \ {f}, !.list = @ \o ServicesIn[f]])
  /\ UNCHANGED <<server, idle>> /\ Elsewhere /\ NoFault

FilesDone ==
  /\ client.pc = "files" /\ client.todo = {}
  /\ IF client.list = <<>> THEN Exits("error") ELSE Goes("post")
  /\ UNCHANGED <<server, idle>> /\ Elsewhere /\ NoFault

-----------------------------------------------------------------------------
(* The request                                                             *)

Post ==
  /\ client.pc = "post"
  /\ Goes("answer")
  /\ server' = [server EXCEPT !.pc = "deploy"]
  /\ UNCHANGED idle /\ Elsewhere /\ NoFault

\* deployServicesHandler.  An earlier deployment of the service that still runs is
\* aborted by Deploy, or Deploy ends in an error.
Service(i) == client.list[i]
Earlier == {j \in Deployment : j < server.at /\ Service(j) = Service(server.at)}
Deploying == server.pc = "deploy" /\ server.at <= Len(client.list)
ServerOnly == UNCHANGED <<broken, client, idle>>

AbortEarlier ==
  /\ Deploying
  /\ \E j \in Earlier : Lifecycle!Finish(j, "aborted")
  /\ UNCHANGED server /\ ServerOnly /\ NoFault

\* Mutated form: errors are kept under the place in the request.
RefusedAt == [server EXCEPT !.at = @ + 1, !.errors = @ \cup {server.at}]
Refused == [server EXCEPT !.at = @ + 1, !.errors = @ \cup {Service(server.at)}]
DeployFails ==
  /\ Deploying
  /\ server' = Refused
  /\ UNCHANGED status /\ ServerOnly /\ NoFault

\* The answer of the put that began the deployment may be lost.
DeployService ==
  /\ Deploying
  /\ \A j \in Earlier : status[j] # "running"
  /\ Lifecycle!Start(server.at)
  /\ \/ /\ server' = [server EXCEPT !.at = @ + 1, !.messages = @ \cup {server.at}]
        /\ NoFault
     \/ /\ server' = Refused
        /\ Fault
  /\ ServerOnly

Respond ==
  /\ server.pc = "deploy" /\ server.at > Len(client.list)
  /\ server' = [server EXCEPT !.pc = "answered"]
  /\ UNCHANGED status /\ ServerOnly /\ NoFault

ServerEnds ==
  /\ server.pc = "deploy" /\ Fault
  /\ server' = [server EXCEPT !.pc = "down"]
  /\ UNCHANGED status /\ ServerOnly

\* A goroutine, another request, or the next start of a server.
Finish ==
  /\ \E i \in Deployment, outcome \in Lifecycle!Outcome : Lifecycle!Finish(i, outcome)
  /\ UNCHANGED server /\ ServerOnly /\ NoFault

-----------------------------------------------------------------------------
(* waitForDeploy                                                           *)

\* Services of which something is known.
Known(deployed) == {n \in Names : deployed[n] # "none"}
AllFinished(c) == c.finished = Cardinality(Known(c.deployed))

\* Mutated form: a deployment that still runs when the rounds are used up is none.
NotFailed(c) == \A n \in Known(c.deployed) : c.deployed[n] \notin {"failed", "aborted", "error"}
Succeeded(c) == \A n \in Known(c.deployed) : c.deployed[n] = "success"
Ended(c) == [c EXCEPT !.pc = "exit", !.exit = IF Succeeded(c) THEN "ok" ELSE "failure"]

\* A service with an error is not waited for, even if another deployment of it began.
Answer ==
  /\ client.pc = "answer" /\ server.pc = "answered"
  /\ LET known == [client EXCEPT
           !.pc = "round",
           !.deployed = [n \in Names |->
              IF n \in server.errors THEN "error"
              ELSE IF \E i \in server.messages : Service(i) = n THEN "running" ELSE "none"],
           !.finished = Cardinality(server.errors)] IN
     Is(IF AllFinished(known) THEN Ended(known) ELSE known)
  /\ UNCHANGED <<server, idle>> /\ Elsewhere /\ NoFault

\* The client waits for two minutes.
NoAnswer ==
  /\ client.pc = "answer"
  /\ Exits("error")
  /\ UNCHANGED <<server, idle>> /\ Elsewhere /\ NoFault

Settled == \A i \in server.messages : status[i] # "running"
Round ==
  /\ client.pc = "round"
  /\ IF client.rounds < MaxRounds
     THEN Is([client EXCEPT !.pc = "poll", !.rounds = @ + 1, !.left = server.messages])
     ELSE Is(Ended(client))
  /\ idle' = IF client.rounds < MaxRounds /\ Settled THEN idle + 1 ELSE idle
  /\ UNCHANGED server /\ Elsewhere /\ NoFault

\* Mutated form: the newest deployment of the service is asked for.
NewestOf(i) == status[Max({j \in server.messages : Service(j) = Service(i)})]
StatusOf(i) == status[i]
Asks(i) == client.deployed[Service(i)] = "running"

\* checkDeployStatus.
Told(i, answer) ==
  IF answer = "running" THEN client
  ELSE [client EXCEPT !.deployed[Service(i)] = answer, !.finished = @ + 1]

\* An error in an answer with status 200 leaves the status empty; any other ends
\* the client.
Past(i, c) == Is([c EXCEPT !.left = @ \ {i}])
Poll ==
  /\ client.pc = "poll"
  /\ \E i \in client.left :
       /\ \A j \in client.left : i <= j
       /\ \/ ~Asks(i) /\ Past(i, client) /\ NoFault
          \/ Asks(i) /\ Past(i, Told(i, StatusOf(i))) /\ NoFault
          \/ Asks(i) /\ Past(i, Told(i, "")) /\ Fault
          \/ Asks(i) /\ Exits("error") /\ Fault
  /\ UNCHANGED <<server, idle>> /\ Elsewhere

\* Mutated form: the client goes on to the next round.
AnotherRound(c) == [c EXCEPT !.pc = "round"]
AfterRound(c) == IF AllFinished(c) THEN Ended(c) ELSE [c EXCEPT !.pc = "round"]
RoundDone ==
  /\ client.pc = "poll" /\ client.left = {}
  /\ Is(AfterRound(client))
  /\ UNCHANGED <<server, idle>> /\ Elsewhere /\ NoFault

Deploy ==
  \/ ParseFile \/ FilesDone \/ Post \/ Answer \/ NoAnswer
  \/ Round \/ Poll \/ RoundDone

Handle == AbortEarlier \/ DeployFails \/ DeployService \/ Respond \/ ServerEnds

Next == Deploy \/ Handle \/ Finish

Spec == Init /\ [][Next]_vars

-----------------------------------------------------------------------------
(* Properties                                                              *)

TypeOK ==
  /\ broken \subseteq Files
  /\ client \in Client
  /\ server \in Server
  /\ status \in [Deployment -> Lifecycle!Outcome \cup {"none", "running"}]
  /\ idle \in Nat /\ faults \in Nat

\* The first deployment of its service that the answer lists.
First(i) ==
  i \in server.messages /\ \A j \in server.messages : Service(j) = Service(i) => i <= j

\* A client that exits with 0 has deployed every service it has sent, without an
\* error, and its deployment was successful and still is: not only when every
\* answer came, but also when rounds ran out, or names repeat in the files.
OkMeansDeployed ==
  client.exit = "ok" =>
    /\ server.errors = {} /\ server.messages = 1 .. Len(client.list)
    /\ \A i \in server.messages : First(i) => status[i] = "success"

\* An outcome that the client prints is that of the deployment it has asked for,
\* although the same service may have been deployed again since.
Reported ==
  \A i \in server.messages :
    First(i) /\ client.deployed[Service(i)] \in Lifecycle!Outcome =>
      status[i] = client.deployed[Service(i)]

\* Once every deployment has its outcome the client begins one more round at most,
\* though a service may be in the answer twice, as a message and as an error: what
\* has been counted agrees with what is to be waited for.
StopsWhenSettled == idle <= 1
=============================================================================
