------------------------- MODULE ServiceAutoscaling -------------------------
(***************************************************************************)
(* The autoscaling of one service.  A request puts or deletes a scalable   *)
(* target, its policies and their alarms, call by call, and writes what it *)
(* has done into the last deployment, from the copy it read before.  A     *)
(* deploy carries the names of the policies over to its own row, and       *)
(* scaling and the outcome of a deployment write the row too, all of them  *)
(* with a condition on its version.                                        *)
(*                                                                         *)
(* Rows have a version, as all do that NewDeployment writes.  The role of  *)
(* the target is there.  The numbers of a policy are left out: a policy    *)
(* that exists is not changed by a request.                                *)
(***************************************************************************)
EXTENDS Integers, Sequences, FiniteSets

CONSTANTS
  Requests,      \* requests, deploys and goroutines
  PolicyNames,
  Limits,        \* minimum and maximum count
  Counts,        \* desired counts
  Inputs,        \* what may be asked for
  None,
  MaxRunning, MaxFaults   \* bounds: requests at once; failing calls

Kinds == {"put", "deletepolicy", "delete", "deploy", "scale", "status"}
Input == [kind : Kinds, limits : Limits, count : Counts, policies : SUBSET PolicyNames]

\* Scaling of a DynamoDeployment.
Row == [version : Nat, count : Counts, resourceId : BOOLEAN, policyNames : SUBSET PolicyNames]

ASSUME AutoscalingConstants ==
  /\ None \notin Limits \cup PolicyNames \cup Row
  /\ Inputs \subseteq Input /\ Counts \subseteq Nat
  /\ MaxRunning \in Nat /\ MaxFaults \in Nat

VARIABLES
  rows,      \* the rows of the service, oldest first
  target,    \* the limits of the scalable target, None without one (external)
  policies, alarms,   \* (external)
  op,        \* op[r]: the handler of a request
  promised,  \* history: policies an undisturbed request was answered OK for
  unlisted,  \* history: those whose names a deploy has lost that could not read the last row
  deleted,   \* history: such a request has deleted everything, and none has put since
  broken,    \* history: policies whose deletion ended half way, or overlapped another request
  faults

vars == <<rows, target, policies, alarms, op, promised, unlisted, deleted, broken, faults>>

-----------------------------------------------------------------------------
(* State                                                                   *)

Pc == {"idle", "last", "target", "register", "count", "policy", "alarm", "deletepolicy",
       "deletealarm", "deregister", "new", "read", "put", "over"}
Op == [pc : Pc, in : Inputs \cup {None},
       dd : Row \cup {None},
       todo : SUBSET PolicyNames,     \* policies still to put or to delete
       policy : PolicyNames \cup {None},
       names : SUBSET PolicyNames,    \* to list; of a delete, history: what it takes
       writeChanges : BOOLEAN,
       at : Nat, copy : Row \cup {None},   \* the row read by the setter
       alone : BOOLEAN]               \* history: no request that disturbs has overlapped
Idle == [pc |-> "idle", in |-> None, dd |-> None, todo |-> {}, policy |-> None, names |-> {},
         writeChanges |-> FALSE, at |-> 0, copy |-> None, alone |-> TRUE]

Last == rows[Len(rows)]
Running == {r \in Requests : op[r].pc \notin {"idle", "over"}}

\* Requests that change the policies, or the row they are listed in.
Disturbing == {"put", "deletepolicy", "delete", "deploy"}
DisturbingNow == {r \in Running : op[r].in.kind \in Disturbing}

Init ==
  /\ \E n \in Counts :
       rows = <<[version |-> 1, count |-> n, resourceId |-> FALSE, policyNames |-> {}]>>
  /\ target = None /\ policies = {} /\ alarms = {}
  /\ op = [r \in Requests |-> Idle]
  /\ promised = {} /\ unlisted = {} /\ deleted = FALSE /\ broken = {}
  /\ faults = 0

-----------------------------------------------------------------------------
(* Answers                                                                 *)

History == <<promised, unlisted, deleted, broken>>
AWS == <<target, policies, alarms>>

To(r, o) == op' = [op EXCEPT ![r] = o]
Goes(r, pc) == To(r, [op[r] EXCEPT !.pc = pc])
Over(r) == To(r, [Idle EXCEPT !.pc = "over"])
Kind(r) == op[r].in.kind
Asked(r) == op[r].in.policies

NoFault == UNCHANGED faults
Fault == faults < MaxFaults /\ faults' = faults + 1

\* Nothing was changed yet.
Refused(r) == Over(r) /\ UNCHANGED History

\* What a deletion takes: with the target go all policies, listed or not.
Deletes(r) == CASE Kind(r) = "delete" -> op[r].names \cup (IF op[r].pc = "deregister" THEN policies ELSE {})
                [] Kind(r) = "deletepolicy" -> Asked(r)
                [] OTHER -> {}

\* The policies a deletion was about may be gone, and are still listed.
Fails(r) ==
  /\ Over(r)
  /\ broken' = broken \cup Deletes(r)
  /\ UNCHANGED <<promised, unlisted, deleted>>

\* The answer of a call that was carried out may be lost.
Answered(r, o) ==
  \/ /\ To(r, o)
     /\ UNCHANGED History /\ NoFault
  \/ /\ Fault
     /\ Fails(r)

OK(r) ==
  /\ Over(r)
  /\ IF Kind(r) = "put" /\ op[r].alone
     THEN promised' = promised \cup (Asked(r) \ broken) /\ unlisted' = unlisted \ Asked(r)
     ELSE UNCHANGED <<promised, unlisted>>
  /\ deleted' = (deleted \/ (Kind(r) = "delete" /\ op[r].alone))
  /\ broken' = IF op[r].alone THEN broken ELSE broken \cup Deletes(r)

OKOrLost(r) ==
  \/ /\ OK(r)
     /\ NoFault
  \/ /\ Fault
     /\ Fails(r)

-----------------------------------------------------------------------------
(* A request begins                                                        *)

Begin(r) ==
  /\ op[r].pc = "idle" /\ Cardinality(Running) < MaxRunning
  /\ \E i \in Inputs :
       LET others == IF i.kind \in Disturbing THEN DisturbingNow ELSE {} IN
       /\ op' = [q \in Requests |->
            IF q = r THEN [Idle EXCEPT !.pc = "last", !.in = i, !.alone = others = {}]
            ELSE IF q \in others THEN [op[q] EXCEPT !.alone = FALSE] ELSE op[q]]
       /\ promised' = CASE i.kind = "delete" -> {}
                        [] i.kind = "deletepolicy" -> promised \ i.policies
                        [] OTHER -> promised
       /\ deleted' = (deleted /\ i.kind # "put")
  /\ UNCHANGED <<rows, AWS, unlisted, broken>> /\ NoFault

\* A request for autoscaling keeps the row, to write the names from it later.  A
\* goroutine has been given it, and scaling reads and writes it at once.
GetLastDeploy(r) ==
  /\ op[r].pc = "last"
  /\ LET known == [op[r] EXCEPT !.dd = Last, !.names = Last.policyNames] IN
     \/ /\ Kind(r) = "put"
        /\ To(r, [known EXCEPT !.pc = "target", !.todo = Asked(r) \ Last.policyNames])
        /\ UNCHANGED History
     \/ /\ Kind(r) = "deletepolicy"
        /\ IF Last.resourceId /\ Asked(r) \subseteq Last.policyNames
           THEN To(r, [known EXCEPT !.pc = "deletepolicy", !.todo = Asked(r),
                                    !.names = @ \ Asked(r)]) /\ UNCHANGED History
           ELSE Refused(r)
     \/ /\ Kind(r) = "delete"
        /\ IF Last.resourceId
           THEN To(r, [known EXCEPT !.pc = "deletepolicy", !.todo = Last.policyNames])
                /\ UNCHANGED History
           ELSE Refused(r)
     \/ /\ Kind(r) = "deploy"
        /\ To(r, [known EXCEPT !.pc = "new"])
        /\ UNCHANGED History
     \/ /\ Kind(r) \in {"scale", "status"}
        /\ To(r, [op[r] EXCEPT !.pc = "put", !.at = Len(rows), !.copy = Last])
        /\ UNCHANGED History
  /\ UNCHANGED <<rows, AWS>> /\ NoFault

\* A deploy that gets no answer takes it for a service without a deployment.
GetLastDeployFails(r) ==
  /\ op[r].pc = "last" /\ Fault
  /\ IF Kind(r) = "deploy" THEN Goes(r, "new") /\ UNCHANGED History ELSE Refused(r)
  /\ UNCHANGED <<rows, AWS>>

-----------------------------------------------------------------------------
(* PUT: target, desired count, policies and alarms                         *)

\* A target is registered, or compared with what is asked for.
Target(r) ==
  /\ op[r].pc = "target"
  /\ IF op[r].dd.resourceId /\ target = None THEN Fails(r)
     ELSE /\ Goes(r, IF op[r].dd.resourceId /\ target = op[r].in.limits THEN "count" ELSE "register")
          /\ UNCHANGED History
  /\ UNCHANGED <<rows, AWS>> /\ NoFault

RegisterScalableTarget(r) ==
  /\ op[r].pc = "register"
  /\ target' = op[r].in.limits
  /\ Answered(r, [op[r] EXCEPT !.pc = "count"])
  /\ UNCHANGED <<rows, policies, alarms>>

\* Whether ECS scales the service is not looked at.
ManualScaleService(r) ==
  /\ op[r].pc = "count"
  /\ To(r, [op[r] EXCEPT !.pc = "policy", !.writeChanges = op[r].dd.count # op[r].in.count])
  /\ UNCHANGED <<rows, AWS, History>> /\ NoFault

\* A policy needs a target.
PutScalingPolicy(r) ==
  /\ op[r].pc = "policy"
  /\ \E p \in op[r].todo :
       IF target = None THEN Fails(r) /\ NoFault /\ UNCHANGED policies
       ELSE /\ policies' = policies \cup {p}
            /\ Answered(r, [op[r] EXCEPT !.pc = "alarm", !.policy = p, !.todo = @ \ {p}])
  /\ UNCHANGED <<rows, target, alarms>>

PutMetricAlarm(r) ==
  /\ op[r].pc = "alarm"
  /\ alarms' = alarms \cup {op[r].policy}
  /\ Answered(r, [op[r] EXCEPT !.pc = "policy", !.policy = None, !.writeChanges = TRUE,
                               !.names = @ \cup {op[r].policy}])
  /\ UNCHANGED <<rows, target, policies>>

PoliciesDone(r) ==
  /\ op[r].pc = "policy" /\ op[r].todo = {}
  /\ IF op[r].writeChanges THEN Goes(r, "read") /\ UNCHANGED History ELSE OK(r)
  /\ UNCHANGED <<rows, AWS>> /\ NoFault

-----------------------------------------------------------------------------
(* DELETE                                                                  *)

\* A policy that is gone is an error, an alarm that is gone may be one.
DeleteScalingPolicy(r) ==
  /\ op[r].pc = "deletepolicy"
  /\ \E p \in op[r].todo :
       IF p \notin policies THEN Fails(r) /\ NoFault /\ UNCHANGED policies
       ELSE /\ policies' = policies \ {p}
            /\ Answered(r, [op[r] EXCEPT !.pc = "deletealarm", !.policy = p, !.todo = @ \ {p}])
  /\ UNCHANGED <<rows, target, alarms>>

AfterDelete(r) == IF Kind(r) = "delete" THEN "deregister" ELSE "read"
DeleteAlarms(r) ==
  /\ op[r].pc = "deletealarm"
  /\ alarms' = alarms \ {op[r].policy}
  /\ \/ Answered(r, [op[r] EXCEPT !.pc = "deletepolicy", !.policy = None])
     \/ /\ op[r].policy \notin alarms
        /\ Fails(r)
        /\ NoFault
  /\ UNCHANGED <<rows, target, policies>>

DeletesDone(r) ==
  /\ op[r].pc = "deletepolicy" /\ op[r].todo = {}
  /\ Goes(r, AfterDelete(r))
  /\ UNCHANGED <<rows, AWS, History>> /\ NoFault

\* The policies of the target go with it, listed or not.
DeregisterScalableTarget(r) ==
  /\ op[r].pc = "deregister"
  /\ IF target = None THEN Fails(r) /\ NoFault /\ UNCHANGED <<target, policies>>
     ELSE /\ target' = None /\ policies' = {}
          /\ Answered(r, [op[r] EXCEPT !.pc = "read", !.names = @ \cup policies])
  /\ UNCHANGED <<rows, alarms>>

-----------------------------------------------------------------------------
(* The row                                                                 *)

\* SetAutoscalingProperties reads the last row once more.
ReadRow(r) ==
  /\ op[r].pc = "read"
  /\ To(r, [op[r] EXCEPT !.pc = "put", !.at = Len(rows), !.copy = Last])
  /\ UNCHANGED <<rows, AWS, History>> /\ NoFault

\* Mutated form: only the policies that this request has put.
OnlyNew(r) == IF Kind(r) = "put" THEN op[r].names \ op[r].dd.policyNames ELSE op[r].names
Names(r) == IF Kind(r) = "delete" THEN {} ELSE op[r].names
Count(r) == IF Kind(r) \in {"put", "scale"} THEN op[r].in.count ELSE op[r].dd.count

Changed(r) ==
  LET c == op[r].copy IN
  CASE Kind(r) \in {"put", "deletepolicy", "delete"} ->
         [c EXCEPT !.count = Count(r), !.policyNames = Names(r), !.resourceId = Kind(r) # "delete"]
    [] Kind(r) = "scale" -> [c EXCEPT !.count = Count(r)]
    [] OTHER -> c
Written(r) == [Changed(r) EXCEPT !.version = @ + 1]

\* Mutated form: a put without a condition.
Unconditional(r) == TRUE
SameVersion(r) == rows[op[r].at].version = op[r].copy.version

\* Put under a condition.  A conflict is an error, which scaling and the goroutine
\* ignore.
PutRow(r) ==
  /\ op[r].pc = "put"
  /\ IF SameVersion(r)
     THEN /\ rows' = [rows EXCEPT ![op[r].at] = Written(r)]
          /\ OKOrLost(r)
     ELSE Fails(r) /\ NoFault /\ UNCHANGED rows
  /\ UNCHANGED AWS

\* Mutated form: the counts are added.
SumOf(m, n) == m + n
MaxOf(m, n) == IF m > n THEN m ELSE n
Fresh(r) == [version |-> 1, count |-> op[r].in.count, resourceId |-> FALSE, policyNames |-> {}]
CarriedOver(r) ==
  IF op[r].dd = None THEN Fresh(r)
  ELSE [op[r].dd EXCEPT !.version = 1, !.count = MaxOf(@, op[r].in.count)]
\* A fresh row lists no policy.  Nothing is done with the answer.
NewDeployment(r) ==
  /\ op[r].pc = "new"
  /\ rows' = Append(rows, CarriedOver(r))
  /\ unlisted' = IF op[r].dd = None THEN unlisted \cup promised ELSE unlisted
  /\ Over(r)
  /\ UNCHANGED <<AWS, promised, deleted, broken>> /\ NoFault

\* A call that is not carried out, or the end of the server.
CallFails(r) ==
  /\ r \in Running /\ op[r].pc # "last" /\ Fault
  /\ Fails(r)
  /\ UNCHANGED <<rows, AWS>>

Serve(r) ==
  \/ Begin(r) \/ GetLastDeploy(r)
  \/ Target(r) \/ RegisterScalableTarget(r) \/ ManualScaleService(r)
  \/ PutScalingPolicy(r) \/ PutMetricAlarm(r) \/ PoliciesDone(r)
  \/ DeleteScalingPolicy(r) \/ DeleteAlarms(r) \/ DeletesDone(r) \/ DeregisterScalableTarget(r)
  \/ ReadRow(r) \/ PutRow(r) \/ NewDeployment(r)

Next == \E r \in Requests : Serve(r) \/ GetLastDeployFails(r) \/ CallFails(r)

Spec == Init /\ [][Next]_vars

-----------------------------------------------------------------------------
(* Properties                                                              *)

TypeOK ==
  /\ rows \in Seq(Row) /\ rows # <<>>
  /\ target \in Limits \cup {None}
  /\ policies \subseteq PolicyNames /\ alarms \subseteq PolicyNames
  /\ op \in [Requests -> Op]
  /\ promised \subseteq PolicyNames /\ unlisted \subseteq PolicyNames
  /\ broken \subseteq PolicyNames
  /\ deleted \in BOOLEAN /\ faults \in Nat

\* What getServiceAutoscaling shows: the alarms of the names in the last row, which
\* have an adjustment when there is a policy.
Shown ==
  IF Last.resourceId THEN Last.policyNames \cap alarms \cap policies ELSE {}

\* A policy that a request of its own was answered OK for has its policy and its
\* alarm, whichever calls fail, until a request deletes it; and it is shown, unless
\* a deploy could not read the last row: such a deploy writes a row without names
\* (service.go:254-256), and they stay unlisted until a request puts the policy again.
\* No other deploy, scaling, outcome, overlapping or failing request takes it from
\* the row, whatever it had read before.
KeptPolicies ==
  /\ promised \subseteq policies \cap alarms
  /\ promised \ unlisted \subseteq Shown

\* After a deletion that was answered OK nothing scales the service, and no writer
\* that had read the row before brings the names back.
DeletedIsGone ==
  deleted =>
    target = None /\ policies = {} /\ ~Last.resourceId /\ Last.policyNames = {}
=============================================================================
