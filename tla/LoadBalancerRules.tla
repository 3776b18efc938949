------------------------- MODULE LoadBalancerRules -------------------------
(***************************************************************************)
(* What a deploy does to the load balancer: it creates the target group    *)
(* and the listener rules of a new service, deletes and creates the rules  *)
(* when the conditions have changed, and moves the service when its load   *)
(* balancer has.  Each is a sequence of calls without a lock: deploys of   *)
(* all services number their rules from the same load balancer, and those  *)
(* of one service delete each other's.                                     *)
(*                                                                         *)
(* A request names its load balancer, which has one listener for each      *)
(* protocol and rules that fit a page.  Conditions of a service compare by *)
(* their listeners, path, host and Cognito client, rules by path and host  *)
(* alone.  IAM, the task definition, health checks, the registry and the   *)
(* outcome of a deployment are left to other modules.                      *)
(***************************************************************************)
EXTENDS Integers, FiniteSets

CONSTANTS
  Deploys,       \* the Deploy requests
  Services, LoadBalancers,
  Conditions,    \* conditions a request may list
  Length,        \* Length[c]: of the path pattern
  On,            \* On[c]: the listeners
  Place,         \* Place[c]: the path and the host, what a rule of c matches
  Auth,          \* the conditions with a Cognito client
  Requests,      \* what may be asked for
  Existing,      \* requests that were carried out before, one a service
  Rank,          \* their order
  None,
  MaxFaults, MaxRunning   \* bounds: failing calls; requests at once

Listeners == {"http", "https"}

\* Without conditions: /service and /service/*, on all listeners.
Default == {"path", "tree"}

RequestType == [service : Services, lb : LoadBalancers, conds : SUBSET Conditions]
Deployment == [lb : LoadBalancers, conds : SUBSET Conditions, ok : BOOLEAN]

\* Groups and rules have an ARN, the one of their creator.
First == "first"
Group == Deploys \cup {First}

ASSUME RulesConstants ==
  /\ None \notin Group \cup Conditions \cup Default /\ None \notin Requests \cup Deployment
  /\ First \notin Deploys
  /\ Conditions \cap Default = {}
  /\ IsFiniteSet(Conditions) /\ IsFiniteSet(Existing)
  /\ Length \in [Conditions -> Nat]
  /\ On \in [Conditions -> SUBSET Listeners] /\ Auth \subseteq Conditions
  /\ DOMAIN Place = Conditions
  /\ Requests \subseteq RequestType /\ Existing \subseteq Requests
  /\ \A r1, r2 \in Existing : r1.service = r2.service => r1 = r2
  /\ Rank \in [Existing -> Nat \ {0}]
  /\ MaxFaults \in Nat /\ MaxRunning \in Nat

VARIABLES
  rules,     \* the rules of all listeners (external)
  group,     \* group[s]: who created the target group, None when there is none (external)
  ecs,       \* ecs[s]: the target group of the ECS service, None when there is none (external)
  last,      \* last[s]: the last deployment
  op,        \* op[d]: the Deploy handler
  intact,    \* history: the services whose rules nothing has disturbed
  faults

vars == <<rules, group, ecs, last, op, intact, faults>>

-----------------------------------------------------------------------------
(* State                                                                   *)

Condition == Conditions \cup Default

Rule == [by : Group, service : Services, lb : LoadBalancers, listener : Listeners,
         priority : Nat, cond : Condition, kind : {"forward", "auth", "redirect"},
         group : Group \cup {None}]

Pc == {"idle", "exists", "group", "rules", "delete", "deletegroup", "creategroup",
       "highest", "create", "deleteservice", "createservice", "update", "row", "over"}
Op == [pc : Pc, req : Requests \cup {None},
       ddLast : Deployment \cup {None},
       mode : {"create", "change", "move", "update"},
       group : Group \cup {None},      \* targetGroupArn
       del : SUBSET Rule,              \* ruleArnsToDelete
       highest : Nat,                  \* priority
       newRules : Nat,
       left : SUBSET Condition,        \* conditions still to create rules for
       cond : Condition \cup {None},   \* the one it is at, and the listeners left
       on : SUBSET Listeners,
       ok : BOOLEAN,
       clean : BOOLEAN]                \* history: no call has failed, no other request ran
Idle == [pc |-> "idle", req |-> None, ddLast |-> None, mode |-> "update", group |-> None,
         del |-> {}, highest |-> 0, newRules |-> 0, left |-> {}, cond |-> None, on |-> {},
         ok |-> FALSE, clean |-> TRUE]

Of(d) == op[d].req.service
Lb(d) == op[d].req.lb
Running == {d \in Deploys : op[d].pc \notin {"idle", "over"}}
RunningFor(s) == {d \in Running : Of(d) = s}

KindOn(c, l) ==
  IF c \notin Auth THEN "forward" ELSE IF l = "http" THEN "redirect" ELSE "auth"
ListenersOf(c) == IF c \in Conditions THEN On[c] ELSE Listeners
Wanted(C) == IF C = {} THEN Default ELSE C

NewRule(who, r, g, c, l, p) ==
  [by |-> who, service |-> r.service, lb |-> r.lb, listener |-> l, priority |-> p,
   cond |-> c, kind |-> KindOn(c, l), group |-> IF KindOn(c, l) = "redirect" THEN None ELSE g]

\* A longer path comes first, /service before /service/*.
Before(b, c) ==
  IF b \in Conditions THEN Length[b] > Length[c] ELSE b = "path" /\ c = "tree"

\* Priorities of rules created one service after the other, with gaps where others
\* have been deleted.
FirstRules(r) ==
  {NewRule(First, r, First, c, l, 20 * Rank[r] + 2 * Cardinality({b \in Wanted(r.conds) : Before(b, c)})) :
     c \in Wanted(r.conds), l \in Listeners}
FirstRequest(s) == CHOOSE r \in Existing : r.service = s
Deployed == {r.service : r \in Existing}

Init ==
  /\ rules = {n \in UNION {FirstRules(r) : r \in Existing} : n.listener \in ListenersOf(n.cond)}
  /\ group = [s \in Services |-> IF s \in Deployed THEN First ELSE None]
  /\ ecs = group
  /\ last = [s \in Services |-> IF s \in Deployed
               THEN [lb |-> FirstRequest(s).lb, conds |-> FirstRequest(s).conds, ok |-> TRUE]
               ELSE None]
  /\ op = [d \in Deploys |-> Idle]
  /\ intact = Services
  /\ faults = 0

-----------------------------------------------------------------------------
(* The end of a request                                                    *)

AWSOnly == UNCHANGED <<last, intact>>
NoFault == UNCHANGED faults
Fault == faults < MaxFaults /\ faults' = faults + 1
To(d, r) == op' = [op EXCEPT ![d] = r]
Goes(d, pc) == To(d, [op[d] EXCEPT !.pc = pc])

\* An error ends the creation of a service.  An error of updateDeployment is logged,
\* and the row written all the same.
Over(d, clean) == [Idle EXCEPT !.pc = "over", !.clean = clean]
Failed(d) ==
  IF op[d].mode = "create" THEN Over(d, FALSE)
  ELSE [op[d] EXCEPT !.pc = "row", !.clean = FALSE]
Fails(d) ==
  /\ To(d, Failed(d))
  /\ intact' = IF op[d].mode = "create" THEN intact \ {Of(d)} ELSE intact
  /\ UNCHANGED last

\* What the rules of a service are after a request that nothing disturbed: those of
\* the request, if all the earlier ones were deleted or in order.
LeavesIntact(d) ==
  IF ~op[d].clean THEN intact \ {Of(d)}
  ELSE IF op[d].mode \in {"change", "move"} /\ ecs[Of(d)] = group[Of(d)] THEN intact \cup {Of(d)}
  ELSE intact

NewDeployment(d) ==
  /\ op[d].pc = "row"
  /\ last' = [last EXCEPT ![Of(d)] = [lb |-> Lb(d), conds |-> op[d].req.conds, ok |-> op[d].ok]]
  /\ intact' = LeavesIntact(d)
  /\ To(d, Over(d, op[d].clean))
  /\ UNCHANGED <<rules, group, ecs>> /\ NoFault

-----------------------------------------------------------------------------
(* The request, until it is known what it has to do                        *)

\* The last deployment is read first.  Whoever runs for the same service from now
\* on disturbs and is disturbed.
Begin(d) ==
  /\ op[d].pc = "idle" /\ Cardinality(Running) < MaxRunning
  /\ \E r \in Requests :
       LET others == RunningFor(r.service) IN
       /\ op' = [e \in Deploys |->
            IF e = d THEN [Idle EXCEPT !.pc = "exists", !.req = r, !.ddLast = last[r.service],
                                       !.clean = others = {}]
            ELSE IF e \in others THEN [op[e] EXCEPT !.clean = FALSE] ELSE op[e]]
       /\ intact' = IF others = {} THEN intact ELSE intact \ {r.service}
  /\ UNCHANGED <<rules, group, ecs, last>> /\ NoFault

ServiceExists(d) ==
  /\ op[d].pc = "exists"
  /\ IF ecs[Of(d)] = None
     THEN To(d, [op[d] EXCEPT !.pc = "creategroup", !.mode = "create"])
     ELSE Goes(d, IF op[d].ddLast = None THEN "update" ELSE "group")
  /\ AWSOnly /\ UNCHANGED <<rules, group, ecs>> /\ NoFault

\* Paths of one length have no order of their own: listed the other way round they
\* count as a change.
Ties(C) == \E b, c \in C : b # c /\ Length[b] = Length[c]
SameConditions(d) == op[d].req.conds = op[d].ddLast.conds
RulesChanged(d) == ~SameConditions(d) \/ Ties(op[d].req.conds)
LbChanged(d) == Lb(d) # op[d].ddLast.lb

Recreates(d, mode) == To(d, [op[d] EXCEPT !.pc = "rules", !.mode = mode, !.group = group[Of(d)]])
GetTargetGroupArn(d) ==
  /\ op[d].pc = "group"
  /\ \/ group[Of(d)] = None /\ Fails(d)
     \/ /\ group[Of(d)] # None /\ AWSOnly
        /\ \/ LbChanged(d) /\ Recreates(d, "move")
           \/ ~LbChanged(d) /\ RulesChanged(d) /\ Recreates(d, "change")
           \/ ~LbChanged(d) /\ SameConditions(d) /\ Goes(d, "update")
  /\ UNCHANGED <<rules, group, ecs>> /\ NoFault

-----------------------------------------------------------------------------
(* Deleting the rules                                                      *)

OldLb(d) == IF op[d].mode = "move" THEN op[d].ddLast.lb ELSE Lb(d)

\* The rules that forward to the target group, and for each that authenticates a
\* redirect of the http listener with the same path and host, whosever it is.
Mine(d) == {r \in rules : r.lb = OldLb(d) /\ r.service = Of(d) /\ r.group = op[d].group}
Redirects(d, x) ==
  {r \in rules : r.lb = OldLb(d) /\ r.listener = "http" /\ r.kind = "redirect" /\ Place[r.cond] = x}
Authenticated(d) ==
  {x \in {Place[r.cond] : r \in {r \in Mine(d) : r.kind = "auth"}} : Redirects(d, x) # {}}
OnlyForward(d) == {{r \in Mine(d) : r.kind = "forward"}}
EveryRedirect(d) == {Mine(d) \cup UNION {Redirects(d, x) : x \in Authenticated(d)}}
ToDelete(d) ==
  {Mine(d) \cup {f[x] : x \in Authenticated(d)} :
     f \in {f \in [Authenticated(d) -> rules] : \A x \in Authenticated(d) : f[x] \in Redirects(d, x)}}
AfterDelete(d) == IF op[d].mode = "move" THEN "deletegroup" ELSE "highest"

GetRulesForAllListeners(d) ==
  /\ op[d].pc = "rules"
  /\ \E D \in ToDelete(d) : To(d, [op[d] EXCEPT !.pc = "delete", !.del = D])
  /\ AWSOnly /\ UNCHANGED <<rules, group, ecs>> /\ NoFault

\* Without the rules nothing is deleted, and the error is logged.
GetRulesFails(d) ==
  /\ op[d].pc = "rules" /\ Fault
  /\ To(d, [op[d] EXCEPT !.pc = AfterDelete(d), !.clean = FALSE])
  /\ AWSOnly /\ UNCHANGED <<rules, group, ecs>>

\* Redirects last.  An error, also of a rule that is gone, is ignored.
NextToDelete(d) ==
  {r \in op[d].del : r.kind = "redirect" => \A q \in op[d].del : q.kind = "redirect"}
Forgets(d, r) == To(d, [op[d] EXCEPT !.del = @ \ {r}])
DeleteRule(d) ==
  /\ op[d].pc = "delete"
  /\ IF op[d].del = {}
     THEN Goes(d, AfterDelete(d)) /\ UNCHANGED rules
     ELSE \E r \in NextToDelete(d) : rules' = rules \ {r} /\ Forgets(d, r)
  /\ AWSOnly /\ UNCHANGED <<group, ecs>> /\ NoFault

DeleteRuleFails(d) ==
  /\ op[d].pc = "delete" /\ op[d].del # {} /\ Fault
  /\ \E r \in NextToDelete(d) : To(d, [op[d] EXCEPT !.del = @ \ {r}, !.clean = FALSE])
  /\ AWSOnly /\ UNCHANGED <<rules, group, ecs>>

-----------------------------------------------------------------------------
(* The target group                                                        *)

InUse(d) == \E r \in rules : r.service = Of(d) /\ r.group = op[d].group
DeleteTargetGroup(d) ==
  /\ op[d].pc = "deletegroup"
  /\ IF group[Of(d)] # op[d].group \/ InUse(d)
     THEN Fails(d) /\ UNCHANGED group
     ELSE group' = [group EXCEPT ![Of(d)] = None] /\ Goes(d, "creategroup") /\ AWSOnly
  /\ UNCHANGED <<rules, ecs>> /\ NoFault

\* One of the same name and the same attributes is returned as it is.
CreateTargetGroup(d) ==
  /\ op[d].pc = "creategroup"
  /\ group' = [group EXCEPT ![Of(d)] = IF @ = None THEN d ELSE @]
  /\ To(d, [op[d] EXCEPT !.pc = "highest", !.group = group'[Of(d)]])
  /\ AWSOnly /\ UNCHANGED <<rules, ecs>> /\ NoFault

-----------------------------------------------------------------------------
(* Creating the rules                                                      *)

Priorities(lb) == {r.priority : r \in {r \in rules : r.lb = lb}}
Highest(P) == IF P = {} THEN 0 ELSE CHOOSE n \in P : \A m \in P : m <= n
GetHighestRule(d) ==
  /\ op[d].pc = "highest"
  /\ To(d, [op[d] EXCEPT !.pc = "create", !.highest = Highest(Priorities(Lb(d))),
                         !.left = Wanted(op[d].req.conds)])
  /\ AWSOnly /\ UNCHANGED <<rules, group, ecs>> /\ NoFault

\* The next condition: none that is left comes before it.
Unsorted(d) == op[d].left
Sorted(d) == {c \in op[d].left : \A b \in op[d].left : ~Before(b, c)}
NextCondition(d) ==
  /\ op[d].pc = "create" /\ op[d].cond = None /\ op[d].left # {}
  /\ \E c \in Sorted(d) :
       To(d, [op[d] EXCEPT !.cond = c, !.left = @ \ {c}, !.on = ListenersOf(c)])
  /\ AWSOnly /\ UNCHANGED <<rules, group, ecs>> /\ NoFault

PriorityBefore(d) == op[d].highest - 10 + op[d].newRules
Priority(d) == op[d].highest + 10 + op[d].newRules
Taken(d, l) == \E r \in rules : r.lb = Lb(d) /\ r.listener = l /\ r.priority = Priority(d)
Created(d, l) == rules \cup {NewRule(d, op[d].req, op[d].group, op[d].cond, l, Priority(d))}

\* A priority that is in use is an error.
CreateRule(d) ==
  /\ op[d].pc = "create" /\ op[d].cond # None
  /\ \E l \in op[d].on :
       IF Taken(d, l)
       THEN Fails(d) /\ UNCHANGED rules
       ELSE rules' = Created(d, l) /\ To(d, [op[d] EXCEPT !.on = @ \ {l}]) /\ AWSOnly
  /\ UNCHANGED <<group, ecs>> /\ NoFault

\* The answer is lost.
CreateRuleLost(d) ==
  /\ op[d].pc = "create" /\ op[d].cond # None /\ Fault
  /\ \E l \in op[d].on : ~Taken(d, l) /\ rules' = Created(d, l)
  /\ Fails(d) /\ UNCHANGED <<group, ecs>>

\* Every condition leaves room for the number of its listeners.
NoRoom(c) == 0
RulesOf(c) == IF c \in Conditions THEN Cardinality(On[c]) ELSE 1
ConditionDone(d) ==
  /\ op[d].pc = "create" /\ op[d].cond # None /\ op[d].on = {}
  /\ To(d, [op[d] EXCEPT !.cond = None, !.newRules = @ + RulesOf(op[d].cond)])
  /\ AWSOnly /\ UNCHANGED <<rules, group, ecs>> /\ NoFault

RulesDone(d) ==
  /\ op[d].pc = "create" /\ op[d].cond = None /\ op[d].left = {}
  /\ Goes(d, CASE op[d].mode = "create" -> "createservice"
               [] op[d].mode = "move" -> "deleteservice"
               [] OTHER -> "update")
  /\ AWSOnly /\ UNCHANGED <<rules, group, ecs>> /\ NoFault

-----------------------------------------------------------------------------
(* The ECS service                                                         *)

DeleteService(d) ==
  /\ op[d].pc = "deleteservice"
  /\ IF ecs[Of(d)] = None
     THEN Fails(d) /\ UNCHANGED ecs
     ELSE ecs' = [ecs EXCEPT ![Of(d)] = None] /\ Goes(d, "createservice") /\ AWSOnly
  /\ UNCHANGED <<rules, group>> /\ NoFault

Succeeds(d) == To(d, [op[d] EXCEPT !.pc = "row", !.ok = TRUE])
CreateService(d) ==
  /\ op[d].pc = "createservice"
  /\ IF ecs[Of(d)] # None
     THEN Fails(d) /\ UNCHANGED ecs
     ELSE ecs' = [ecs EXCEPT ![Of(d)] = op[d].group] /\ Succeeds(d) /\ AWSOnly
  /\ UNCHANGED <<rules, group>> /\ NoFault

\* The target group of a service stays what it is.
UpdateService(d) ==
  /\ op[d].pc = "update"
  /\ IF ecs[Of(d)] = None THEN Fails(d) ELSE Succeeds(d) /\ AWSOnly
  /\ UNCHANGED <<rules, group, ecs>> /\ NoFault

\* Any other call that fails without an effect, or the server ends.
CallFails(d) ==
  /\ \/ op[d].pc \in {"group", "deletegroup", "creategroup", "highest", "deleteservice",
                      "createservice", "update"}
     \/ op[d].pc = "create" /\ op[d].on # {}
  /\ Fault /\ Fails(d)
  /\ UNCHANGED <<rules, group, ecs>>

\* Or it uses a load balancer whose description had failed, which is a null pointer.
Crash(d) ==
  /\ d \in Running /\ Fault
  /\ To(d, Over(d, FALSE))
  /\ intact' = intact \ {Of(d)}
  /\ UNCHANGED <<rules, group, ecs, last>>

Rules(d) ==
  \/ GetRulesForAllListeners(d) \/ DeleteRule(d)
  \/ GetHighestRule(d) \/ NextCondition(d) \/ CreateRule(d) \/ ConditionDone(d) \/ RulesDone(d)

Deploy(d) ==
  \/ Begin(d) \/ ServiceExists(d) \/ GetTargetGroupArn(d) \/ Rules(d)
  \/ DeleteTargetGroup(d) \/ CreateTargetGroup(d)
  \/ DeleteService(d) \/ CreateService(d) \/ UpdateService(d) \/ NewDeployment(d)

Faulty(d) ==
  GetRulesFails(d) \/ DeleteRuleFails(d) \/ CreateRuleLost(d) \/ CallFails(d) \/ Crash(d)

Next == \E d \in Deploys : Deploy(d) \/ Faulty(d)

Spec == Init /\ [][Next]_vars

-----------------------------------------------------------------------------
(* Properties                                                              *)

TypeOK ==
  /\ rules \subseteq Rule
  /\ group \in [Services -> Group \cup {None}]
  /\ ecs \in [Services -> Group \cup {None}]
  /\ last \in [Services -> Deployment \cup {None}]
  /\ op \in [Deploys -> Op]
  /\ \A d \in Running : op[d].req # None
  /\ intact \subseteq Services
  /\ faults \in Nat

Settled(s) == last[s] # None /\ RunningFor(s) = {}
RulesFor(s) == {r \in rules : r.service = s /\ r.group = group[s] /\ r.lb = last[s].lb}
Serving(C) ==
  {x \in Wanted(C) \X Listeners : x[2] \in ListenersOf(x[1]) /\ KindOn(x[1], x[2]) # "redirect"}

\* The target group of a service has the rules of its last deployment and no others,
\* whatever other services do meanwhile and whatever had failed before its rules
\* were last recreated.  (Not when the recreation itself was disturbed.)
RulesAsDeployed ==
  \A s \in intact :
    Settled(s) => /\ group[s] # None /\ ecs[s] = group[s]
                  /\ {<<r.cond, r.listener>> : r \in RulesFor(s)} = Serving(last[s].conds)

\* TestRuleConditionSort: the rule with the longer path is tried first, although
\* the priorities are handed out while other services take theirs.
LongestFirst ==
  \A s \in intact :
    Settled(s) =>
      \A q, r \in RulesFor(s) :
        q.listener = r.listener /\ Before(q.cond, r.cond) => q.priority < r.priority

\* The priorities of a request never meet each other: an error "priority in use" is
\* the doing of another request on the same load balancer.
OwnPriorities ==
  \A d \in Deploys :
    op[d].pc = "create" /\ op[d].cond # None =>
      \A r \in rules :
        r.by = d /\ r.listener \in op[d].on => r.priority # Priority(d)

\* The conditions that redirect a host from http to https, where everyone who
\* authenticates that host on https asks for its redirect too.
Redirecting ==
  {c \in Auth : On[c] = Listeners /\
     \A b \in Auth : Place[b] = Place[c] /\ "https" \in On[b] => "http" \in On[b]}

\* Where a host is authenticated on https its http listener redirects there, also
\* when another service of the same host is deployed, moved or given other
\* conditions: a deploy takes any redirect of the host, and as many as it creates.
\* (Not for a host that another service authenticates on https alone: each of its
\* deploys takes a redirect and creates none, which is why Redirecting excludes it.)
Disturbed == intact # Services \/ faults > 0 \/ \E d \in Deploys : ~op[d].clean
RedirectsStay ==
  ~Disturbed =>
    \A s \in Services : Settled(s) =>
      \A c \in last[s].conds \cap Redirecting :
        \E r \in rules : r.kind = "redirect" /\ r.lb = last[s].lb /\ Place[r.cond] = Place[c]
=============================================================================
