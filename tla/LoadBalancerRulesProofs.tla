------------------------ MODULE LoadBalancerRulesProofs ------------------------
(***************************************************************************)
(* Proofs about LoadBalancerRules, for any deploys, services, conditions   *)
(* and load balancers, any number of requests at once and of failing       *)
(* calls.                                                                  *)
(***************************************************************************)
EXTENDS LoadBalancerRules, FiniteSetTheorems, WellFoundedInduction, TLAPS

-----------------------------------------------------------------------------
(* The inductive invariant                                                 *)

\* A deploy that has neither created a target group nor a rule.
Early == {"idle", "exists", "group", "rules", "delete", "deletegroup", "creategroup"}

\* Where a deploy of each kind may be, and what it knows there.
OpOK(o) ==
  /\ o.pc \in {"exists", "group"} => o.mode = "update"
  /\ o.pc \in {"rules", "delete"} => o.mode \in {"change", "move"}
  /\ o.pc \in {"deletegroup", "deleteservice"} => o.mode = "move"
  /\ o.pc \in {"creategroup", "createservice"} => o.mode \in {"create", "move"}
  /\ o.pc \in {"highest", "create"} => o.mode # "update"
  /\ o.pc = "update" => o.mode \in {"update", "change"}
  /\ o.pc = "group" \/ o.mode \in {"change", "move"} => o.ddLast # None
  /\ o.pc \in {"rules", "delete", "deletegroup", "highest", "create", "deleteservice", "createservice"} =>
       o.group \in Group
  /\ o.pc \in Early \cup {"highest"} => o.cond = None
  /\ o.pc = "create" =>
       /\ o.left \subseteq Wanted(o.req.conds)
       /\ o.cond # None => /\ o.cond \in Wanted(o.req.conds) \ o.left
                           /\ o.on \subseteq ListenersOf(o.cond)

\* A deploy deletes rules of its own service, and a redirect of each host.
DeletesOwn(o) ==
  /\ \A r \in o.del : r.service = o.req.service \/ r.group = None
  /\ \A q, r \in o.del :
       q.kind = "redirect" /\ r.kind = "redirect" /\ Place[q.cond] = Place[r.cond] => q = r

RuleOK(r) ==
  /\ r.listener \in ListenersOf(r.cond) /\ r.kind = KindOn(r.cond, r.listener)
  /\ r.group = None <=> r.kind = "redirect"

\* A group and its rules appear with their creator.
NotYet(d) ==
  /\ op[d].pc \in Early =>
       /\ \A s \in Services : group[s] # d
       /\ \A e \in Deploys : op[e].group # d
       /\ \A r \in rules : r.group # d
  /\ op[d].pc \in Early \cup {"highest"} => \A r \in rules : r.by # d

\* The rules of a deploy have priorities below the one it is at, but for those of the
\* condition it is at, on the listeners it has done.
Numbered(d) ==
  op[d].pc = "create" =>
    \A r \in rules : r.by = d =>
      \/ r.priority < Priority(d)
      \/ /\ r.priority = Priority(d) /\ op[d].cond # None
         /\ r.cond = op[d].cond /\ r.listener \notin op[d].on

Shape ==
  /\ TypeOK /\ IsFiniteSet(rules)
  /\ \A r \in rules : RuleOK(r)
  /\ \A d \in Deploys : OpOK(op[d]) /\ DeletesOwn(op[d]) /\ NotYet(d) /\ Numbered(d)

\* The rules of the target group of a service on a load balancer.
Has(s, lb) == {r \in rules : r.service = s /\ r.group = group[s] /\ r.lb = lb}
Pairs(R) == {<<r.cond, r.listener>> : r \in R}
Ordered(R) == \A q, r \in R : q.listener = r.listener /\ Before(q.cond, r.cond) => q.priority < r.priority

AsDeployed(s) ==
  /\ group[s] # None /\ ecs[s] = group[s]
  /\ Pairs(Has(s, last[s].lb)) = Serving(last[s].conds) /\ Ordered(Has(s, last[s].lb))
Intact(s) ==
  IF last[s] = None THEN group[s] = None /\ ecs[s] = None ELSE AsDeployed(s)

\* The pairs a deploy has created rules for.
DonePairs(d) ==
  {x \in Serving(op[d].req.conds) :
     x[1] \notin op[d].left /\ (x[1] = op[d].cond => x[2] \notin op[d].on)}

\* What the calls of a deploy that nothing disturbs have come to.
Recreated(d) ==
  LET s == Of(d) pc == op[d].pc IN
  /\ pc \in {"rules", "delete", "deletegroup", "highest", "create", "deleteservice", "createservice",
             "update", "row"} => group[s] = op[d].group /\ group[s] # None
  /\ pc = "rules" /\ s \in intact => Intact(s)
  /\ pc = "creategroup" => group[s] = None
  /\ op[d].mode = "change" => Lb(d) = op[d].ddLast.lb /\ (s \in intact => ecs[s] = group[s])
  /\ op[d].mode = "change" /\ pc = "delete" => Has(s, Lb(d)) \subseteq op[d].del
  /\ pc = "highest" => Has(s, Lb(d)) = {}
  /\ pc = "create" =>
       /\ Pairs(Has(s, Lb(d))) = DonePairs(d) /\ Ordered(Has(s, Lb(d)))
       /\ \A r \in Has(s, Lb(d)) : r.by = d
       /\ \A r \in Has(s, Lb(d)), c \in op[d].left : ~Before(c, r.cond)
       /\ op[d].cond # None => /\ \A c \in op[d].left : ~Before(c, op[d].cond)
                               /\ \A r \in Has(s, Lb(d)) : ~Before(op[d].cond, r.cond)
  /\ pc \in {"deleteservice", "createservice", "update", "row"} =>
       Pairs(Has(s, Lb(d))) = Serving(op[d].req.conds) /\ Ordered(Has(s, Lb(d)))
  /\ pc = "row" /\ op[d].mode \in {"create", "move"} => ecs[s] = group[s]

\* The same for one that finds nothing to recreate.
Updates(d) ==
  LET s == Of(d) pc == op[d].pc IN
  /\ s \in intact => Intact(s)
  /\ pc \in {"update", "row"} /\ last[s] # None => op[d].req.conds = last[s].conds /\ Lb(d) = last[s].lb
  /\ pc = "row" /\ s \in intact => last[s] # None

Undisturbed(d) ==
  /\ RunningFor(Of(d)) = {d} /\ op[d].ddLast = last[Of(d)]
  /\ op[d].mode = "update" => Updates(d)
  /\ op[d].mode \in {"change", "move"} \/ (op[d].mode = "create" /\ Of(d) \in intact) => Recreated(d)

Service ==
  /\ \A s \in intact : RunningFor(s) = {} => Intact(s)
  /\ \A d \in Running : op[d].clean => Undisturbed(d)

Inv == Shape /\ Service

-----------------------------------------------------------------------------
(* The redirects                                                           *)

\* The redirects of the host of c, and whether conditions ask for one.
RedirectsTo(lb, c) == {r \in rules : r.kind = "redirect" /\ r.lb = lb /\ Place[r.cond] = Place[c]}
Hosts(C, c) == \E b \in C \cap Redirecting : Place[b] = Place[c]

\* Whether the service of a request has, as far as the request has come, a part in
\* the redirects of a host on a load balancer: until it deletes one, and again after
\* it has created one.
Owed(o, lb, c) ==
  \/ /\ o.mode = "update" \/ o.pc = "rules"
     /\ o.ddLast # None /\ lb = o.ddLast.lb /\ Hosts(o.ddLast.conds, c)
  \/ /\ o.pc = "delete"
     /\ \E r \in o.del : r.kind = "redirect" /\ r.lb = lb /\ Place[r.cond] = Place[c]
  \/ /\ o.pc = "create" /\ lb = o.req.lb
     /\ Hosts({b \in o.req.conds \ o.left : b = o.cond => "http" \notin o.on}, c)
  \/ /\ o.mode # "update" /\ o.pc \in {"deleteservice", "createservice", "update", "row"}
     /\ lb = o.req.lb /\ Hosts(o.req.conds, c)
Owes(s, lb, c) ==
  \/ RunningFor(s) = {} /\ last[s] # None /\ lb = last[s].lb /\ Hosts(last[s].conds, c)
  \/ \E d \in RunningFor(s) : Owed(op[d], lb, c)
Owing(lb, c) == {s \in Services : Owes(s, lb, c)}

AllClean == \A d \in Deploys : op[d].pc # "idle" => op[d].clean

\* As long as nothing fails and no two requests for a service meet, there are at
\* least as many redirects as services that need one.
Redirected ==
  AllClean =>
    /\ intact = Services
    /\ \A lb \in LoadBalancers, c \in Redirecting :
         IsFiniteSet(Owing(lb, c)) /\ Cardinality(Owing(lb, c)) <= Cardinality(RedirectsTo(lb, c))

-----------------------------------------------------------------------------
(* The highest priority                                                    *)

\* A finite set of numbers has a greatest one: of the sets of those from one of them
\* up there is a least.
LEMMA Greatest ==
  ASSUME NEW P \in SUBSET Nat, IsFiniteSet(P), P # {}
  PROVE  \E n \in P : \A m \in P : m <= n
<1> DEFINE Up(n) == {m \in P : n <= m}
           Ups == {Up(n) : n \in P}
           R == StrictSubsetOrdering(P)
<1>1. Ups \subseteq FiniteSubsetsOf(P) /\ Ups # {}
  <2>1. ASSUME NEW n \in P PROVE Up(n) \in FiniteSubsetsOf(P)
    <3>1. Up(n) \in SUBSET P
      OBVIOUS
    <3> HIDE DEF Up
    <3>2. IsFiniteSet(Up(n))
      BY <3>1, FS_Subset
    <3> QED
      BY <3>1, <3>2 DEF FiniteSubsetsOf
  <2> QED
    BY <2>1
<1>2. IsWellFoundedOn(R, FiniteSubsetsOf(P))
  BY FS_StrictSubsetOrderingWellFounded
<1> HIDE DEF R
<1>3. PICK x \in Ups : \A y \in Ups : ~(<<y, x>> \in R)
  BY <1>1, <1>2, WFMin
<1>4. PICK n \in P : x = Up(n)
  BY <1>3
<1>5. ASSUME NEW m \in P, ~(m <= n) PROVE FALSE
  <2>1. m \in Nat /\ n \in Nat /\ n < m /\ \A k \in P : k \in Nat
    BY <1>5
  <2>2. Up(m) \in Ups /\ n \in Up(n) /\ n \notin Up(m) /\ Up(m) \subseteq Up(n)
    <3>1. Up(m) \in Ups
      OBVIOUS
    <3>2. n \in Up(n) /\ n \notin Up(m)
      BY <2>1
    <3>3. \A k \in Nat : m <= k => n <= k
      BY <2>1
    <3> QED
      BY <2>1, <3>1, <3>2, <3>3
  <2>3. Up(m) \in SUBSET P /\ x \in SUBSET P
    BY <1>4
  <2>4. <<Up(m), x>> \in R
    BY <1>4, <2>2, <2>3 DEF R, StrictSubsetOrdering
  <2> QED
    BY <1>3, <2>2, <2>4
<1> QED
  BY <1>5

\* The highest of a finite set of priorities is a number that none exceeds.
LEMMA HighestIs ==
  ASSUME NEW P \in SUBSET Nat, IsFiniteSet(P)
  PROVE  Highest(P) \in Nat /\ \A m \in P : m <= Highest(P)
<1>1. CASE P = {}
  BY <1>1 DEF Highest
<1>2. CASE P # {}
  <2>1. Highest(P) = CHOOSE n \in P : \A m \in P : m <= n
    BY <1>2 DEF Highest
  <2>2. Highest(P) \in P /\ \A m \in P : m <= Highest(P)
    BY <1>2, <2>1, Greatest
  <2> QED
    BY <2>2
<1> QED
  BY <1>1, <1>2

-----------------------------------------------------------------------------
(* Types                                                                   *)

LEMMA RequestFields ==
  ASSUME NEW r \in Requests
  PROVE  /\ r \in RequestType /\ r # None /\ r.service \in Services /\ r.lb \in LoadBalancers
         /\ r.conds \subseteq Conditions /\ Wanted(r.conds) \subseteq Condition
<1>1. r \in RequestType /\ r # None
  BY RulesConstants
<1>2. r.service \in Services /\ r.lb \in LoadBalancers /\ r.conds \subseteq Conditions
  BY <1>1 DEF RequestType
<1> QED
  BY <1>1, <1>2 DEF Wanted, Condition

LEMMA OpFields ==
  ASSUME NEW o \in Op
  PROVE  /\ o.pc \in Pc /\ o.req \in Requests \cup {None} /\ o.ddLast \in Deployment \cup {None}
         /\ o.mode \in {"create", "change", "move", "update"}
         /\ o.group \in Group \cup {None} /\ o.del \subseteq Rule /\ o.highest \in Nat
         /\ o.newRules \in Nat /\ o.left \subseteq Condition /\ o.cond \in Condition \cup {None}
         /\ o.on \subseteq Listeners /\ o.ok \in BOOLEAN /\ o.clean \in BOOLEAN
  BY DEF Op

LEMMA RuleFields ==
  ASSUME NEW r \in Rule
  PROVE  /\ r.by \in Group /\ r.service \in Services /\ r.lb \in LoadBalancers
         /\ r.listener \in Listeners /\ r.priority \in Nat /\ r.cond \in Condition
         /\ r.kind \in {"forward", "auth", "redirect"} /\ r.group \in Group \cup {None}
  BY DEF Rule

LEMMA Names == None \notin Group /\ None \notin Deploys /\ First \notin Deploys /\ None \notin Condition
  BY RulesConstants DEF Group, Condition

LEMMA IdleOp ==
  /\ Idle \in Op /\ Idle.pc = "idle" /\ OpOK(Idle) /\ DeletesOwn(Idle) /\ Idle.group = None /\ Idle.clean
  /\ \A x \in BOOLEAN : \A d : LET o == Over(d, x) IN
       /\ o \in Op /\ o.pc = "over" /\ o.group = None /\ OpOK(o) /\ DeletesOwn(o)
<1>1. /\ Idle \in Op /\ Idle.pc = "idle" /\ Idle.mode = "update" /\ Idle.cond = None /\ Idle.group = None
      /\ Idle.del = {} /\ Idle.clean = TRUE
  BY DEF Idle, Op, Pc
<1>2. ASSUME NEW x \in BOOLEAN
      PROVE  LET o == [Idle EXCEPT !.pc = "over", !.clean = x] IN
               /\ o \in Op /\ o.pc = "over" /\ o.mode = "update" /\ o.cond = None /\ o.group = None
               /\ o.del = {}
  <2>1. ASSUME NEW i \in Op
        PROVE  LET o == [i EXCEPT !.pc = "over", !.clean = x] IN
                 /\ o \in Op /\ o.pc = "over" /\ o.mode = i.mode /\ o.cond = i.cond /\ o.group = i.group
                 /\ o.del = i.del
    BY DEF Op, Pc
  <2> QED
    BY <1>1, <2>1
<1>3. \A o : o.pc \in {"idle", "over"} /\ o.mode = "update" /\ o.cond = None /\ o.del = {} =>
               OpOK(o) /\ DeletesOwn(o)
  BY DEF OpOK, DeletesOwn, Early
<1> QED
  BY <1>1, <1>2, <1>3 DEF Over

LEMMA RunningOp ==
  ASSUME Shape, NEW d \in Deploys, op[d].pc \notin {"idle", "over"}
  PROVE  /\ d \in Running /\ op[d] \in Op /\ op[d].req \in Requests
         /\ OpOK(op[d]) /\ DeletesOwn(op[d]) /\ Of(d) \in Services /\ Lb(d) \in LoadBalancers
         /\ op[d].req.conds \subseteq Conditions /\ Wanted(op[d].req.conds) \subseteq Condition
<1>1. d \in Running /\ op[d] \in Op /\ op[d].req \in Requests /\ OpOK(op[d]) /\ DeletesOwn(op[d])
  BY OpFields DEF Shape, TypeOK, Running
<1> QED
  BY <1>1, RequestFields DEF Of, Lb

LEMMA Moves ==
  ASSUME Shape, NEW d \in Deploys, NEW o, To(d, o)
  PROVE  /\ op'[d] = o /\ \A e \in Deploys \ {d} : op'[e] = op[e]
         /\ o \in Op => op' \in [Deploys -> Op]
  BY DEF Shape, TypeOK, To

-----------------------------------------------------------------------------
(* What the shape of the state asks of a step of one deploy                *)

Types ==
  /\ group' \in [Services -> Group \cup {None}] /\ ecs' \in [Services -> Group \cup {None}]
  /\ last' \in [Services -> Deployment \cup {None}]
  /\ intact' \subseteq Services /\ faults' \in Nat

LEMMA ShapeStep ==
  ASSUME Shape, NEW d \in Deploys, NEW o \in Op, To(d, o), OpOK(o), DeletesOwn(o), Types,
         o.pc \notin {"idle", "over"} => o.req \in Requests,
         IsFiniteSet(rules'),
         \A r \in rules' \ rules : /\ r \in Rule /\ RuleOK(r) /\ r.by = d
                                   /\ r.group \in {None, op[d].group} /\ op[d].pc = "create",
         o.pc \in Early \cup {"highest"} => op[d].pc \in Early,
         \A s \in Services : group'[s] \in {group[s], None} \/ (group'[s] = d /\ o.pc \notin Early),
         \/ o.group \in {op[d].group, None}
         \/ \E s \in Services : o.group \in {group[s], group'[s]},
         Numbered(d)'
  PROVE  Shape'
<1>1. /\ op'[d] = o /\ op' \in [Deploys -> Op] /\ \A e \in Deploys \ {d} : op'[e] = op[e]
  BY Moves
<1>2. TypeOK'
  <2>1. rules' \subseteq Rule
    BY DEF Shape, TypeOK
  <2>2. \A e \in Running' : op'[e].req # None
    <3> SUFFICES ASSUME NEW e \in Running' PROVE op'[e].req # None
      OBVIOUS
    <3>1. CASE e = d
      BY <1>1, <3>1, RequestFields DEF Running
    <3>2. CASE e # d
      BY <1>1, <3>2 DEF Running, Shape, TypeOK
    <3> QED
      BY <3>1, <3>2
  <2> QED
    BY <1>1, <2>1, <2>2 DEF TypeOK, Types
<1>3. \A r \in rules' : RuleOK(r)
  BY DEF Shape
<1>4. \A e \in Deploys : OpOK(op'[e]) /\ DeletesOwn(op'[e])
  BY <1>1 DEF Shape
<1>5. ASSUME NEW e \in Deploys PROVE NotYet(e)'
  <2>1. NotYet(e)
    BY DEF Shape
  <2>2. op'[e].pc \in Early => op[e].pc \in Early
    BY <1>1
  <2>3. op'[e].pc \in Early \cup {"highest"} => op[e].pc \in Early \cup {"highest"}
    BY <1>1
  <2>4. op'[e].pc \in Early => \A s \in Services : group'[s] # e
    BY <1>1, <2>1, <2>2, Names DEF NotYet
  <2>5. op'[e].pc \in Early => \A x \in Deploys : op'[x].group # e
    BY <1>1, <2>1, <2>2, <2>4, Names DEF NotYet
  <2>6. op'[e].pc \in Early => \A r \in rules' : r.group # e
    BY <2>1, <2>2, Names DEF NotYet
  <2>7. op'[e].pc \in Early \cup {"highest"} => \A r \in rules' : r.by # e
    BY <1>1, <2>1, <2>3 DEF NotYet, Early
  <2> QED
    BY <2>4, <2>5, <2>6, <2>7 DEF NotYet
<1>6. ASSUME NEW e \in Deploys PROVE Numbered(e)'
  <2>1. CASE e = d
    BY <2>1
  <2>2. CASE e # d
    <3>1. Numbered(e) /\ op'[e] = op[e] /\ Priority(e)' = Priority(e)
      BY <1>1, <2>2 DEF Shape, Priority
    <3> QED
      BY <2>2, <3>1 DEF Numbered
  <2> QED
    BY <2>1, <2>2
<1> QED
  BY <1>2, <1>3, <1>4, <1>5, <1>6 DEF Shape

\* A step that creates no rule.
LEMMA ShapeKept ==
  ASSUME Shape, NEW d \in Deploys, NEW o \in Op, To(d, o), OpOK(o), DeletesOwn(o), Types,
         o.pc \notin {"idle", "over"} => o.req \in Requests,
         rules' \subseteq rules,
         o.pc \in Early \cup {"highest"} => op[d].pc \in Early,
         \A s \in Services : group'[s] \in {group[s], None} \/ (group'[s] = d /\ o.pc \notin Early),
         \/ o.group \in {op[d].group, None}
         \/ \E s \in Services : o.group \in {group[s], group'[s]},
         o.pc = "create" => Numbered(d)'
  PROVE  Shape'
<1>1. IsFiniteSet(rules')
  BY FS_Subset DEF Shape
<1>2. Numbered(d)'
  BY Moves DEF Numbered
<1> QED
  BY <1>1, <1>2, ShapeStep

\* An error.
LEMMA FailedOp ==
  ASSUME Shape, NEW d \in Deploys, op[d].pc \notin {"idle", "over"}
  PROVE  LET o == Failed(d) IN
           /\ o \in Op /\ OpOK(o) /\ DeletesOwn(o) /\ o.pc \in {"over", "row"} /\ o.clean = FALSE
           /\ o.pc = "row" => o.req = op[d].req
           /\ o.group \in {op[d].group, None}
           /\ op[d].mode = "create" <=> o.pc = "over"
<1>1. op[d] \in Op /\ OpOK(op[d]) /\ DeletesOwn(op[d])
  BY RunningOp
<1>2. CASE op[d].mode = "create"
  <2>1. Failed(d) = Over(d, FALSE) /\ Over(d, FALSE).clean = FALSE
    BY <1>2, IdleOp DEF Failed, Over, Idle
  <2> QED
    BY <1>2, <2>1, IdleOp
<1>3. CASE op[d].mode # "create"
  <2> DEFINE o == [op[d] EXCEPT !.pc = "row", !.clean = FALSE]
  <2>1. /\ o \in Op /\ o.pc = "row" /\ o.req = op[d].req /\ o.group = op[d].group /\ o.mode = op[d].mode
        /\ o.del = op[d].del /\ o.ddLast = op[d].ddLast /\ o.clean = FALSE
    BY <1>1 DEF Op, Pc
  <2> HIDE DEF o
  <2>2. OpOK(o) /\ DeletesOwn(o)
    BY <1>1, <2>1 DEF OpOK, DeletesOwn, Early
  <2>3. Failed(d) = o
    BY <1>3 DEF Failed, o
  <2> QED
    BY <1>3, <2>1, <2>2, <2>3
<1> QED
  BY <1>2, <1>3

LEMMA FailsShape ==
  ASSUME Shape, NEW d \in Deploys, op[d].pc \notin {"idle", "over"}, Fails(d),
         rules' \subseteq rules, UNCHANGED <<group, ecs>>, faults' \in Nat
  PROVE  Shape'
<1>1. op[d].req \in Requests
  BY RunningOp
<1>2. Types
  BY DEF Types, Fails, Shape, TypeOK
<1>3. To(d, Failed(d))
  BY DEF Fails
<1>4. Failed(d).pc \notin Early \cup {"highest", "create"}
  BY FailedOp DEF Early
<1> QED
  BY <1>1, <1>2, <1>3, <1>4, FailedOp, ShapeKept

-----------------------------------------------------------------------------
(* Each action keeps the shape                                             *)

LEMMA ListenersAre ==
  ASSUME NEW c \in Condition
  PROVE  ListenersOf(c) \subseteq Listeners
  BY RulesConstants DEF ListenersOf

LEMMA NewRuleIs ==
  ASSUME NEW d \in Group, NEW q \in Requests, NEW g \in Group, NEW c \in Condition,
         NEW l \in ListenersOf(c), NEW p \in Nat
  PROVE  LET r == NewRule(d, q, g, c, l, p) IN
           /\ r \in Rule /\ RuleOK(r) /\ r.by = d /\ r.service = q.service /\ r.lb = q.lb
           /\ r.listener = l /\ r.priority = p /\ r.cond = c /\ r.kind = KindOn(c, l)
           /\ r.group = IF KindOn(c, l) = "redirect" THEN None ELSE g
<1> DEFINE r == NewRule(d, q, g, c, l, p)
<1>1. q.service \in Services /\ q.lb \in LoadBalancers /\ l \in Listeners
  BY RequestFields, ListenersAre
<1>2. KindOn(c, l) \in {"forward", "auth", "redirect"} /\ (IF KindOn(c, l) = "redirect" THEN None ELSE g) \in Group \cup {None}
  BY DEF KindOn
<1>3. /\ r.by = d /\ r.service = q.service /\ r.lb = q.lb
      /\ r.listener = l /\ r.priority = p /\ r.cond = c /\ r.kind = KindOn(c, l)
      /\ r.group = IF KindOn(c, l) = "redirect" THEN None ELSE g
  BY DEF NewRule
<1>4. r \in Rule
  BY <1>1, <1>2 DEF NewRule, Rule
<1>5. RuleOK(r)
  <2>1. g # None
    BY Names
  <2> HIDE DEF r
  <2> QED
    BY <1>3, <2>1 DEF RuleOK
<1> QED
  BY <1>3, <1>4, <1>5

LEMMA SameTypes ==
  ASSUME Shape, UNCHANGED <<group, ecs, last, intact>>, faults' \in Nat
  PROVE  Types
  BY DEF Types, Shape, TypeOK

LEMMA Faults ==
  ASSUME Shape, NoFault \/ Fault
  PROVE  faults' \in Nat
  BY DEF Shape, TypeOK, NoFault, Fault

LEMMA ServiceExistsShape ==
  ASSUME Shape, NEW d \in Deploys, ServiceExists(d)
  PROVE  Shape'
<1>1. /\ op[d].pc = "exists" /\ UNCHANGED <<rules, group, ecs, last, intact>> /\ faults' \in Nat
      /\ op[d] \in Op /\ op[d].req \in Requests /\ OpOK(op[d]) /\ DeletesOwn(op[d]) /\ Types
  BY RunningOp, Faults, SameTypes DEF ServiceExists, AWSOnly
<1>2. PICK o : o \in {[op[d] EXCEPT !.pc = "creategroup", !.mode = "create"],
                      [op[d] EXCEPT !.pc = IF op[d].ddLast = None THEN "update" ELSE "group"]}
               /\ To(d, o)
  BY DEF ServiceExists, Goes
<1>3. /\ o \in Op /\ o.req = op[d].req /\ o.group = op[d].group /\ o.del = op[d].del
      /\ o.cond = op[d].cond /\ o.ddLast = op[d].ddLast
      /\ \/ o.pc = "creategroup" /\ o.mode = "create"
         \/ o.pc = "update" /\ o.mode = op[d].mode
         \/ o.pc = "group" /\ o.mode = op[d].mode /\ o.ddLast # None
  BY <1>1, <1>2 DEF Op, Pc
<1>4. OpOK(o) /\ DeletesOwn(o)
  BY <1>1, <1>3 DEF OpOK, DeletesOwn, Early
<1> QED
  BY <1>1, <1>2, <1>3, <1>4, ShapeKept DEF Early

LEMMA GetTargetGroupArnShape ==
  ASSUME Shape, NEW d \in Deploys, GetTargetGroupArn(d)
  PROVE  Shape'
<1>1. /\ op[d].pc = "group" /\ UNCHANGED <<rules, group, ecs>> /\ faults' \in Nat
      /\ op[d] \in Op /\ op[d].req \in Requests /\ OpOK(op[d]) /\ DeletesOwn(op[d])
  BY RunningOp, Faults DEF GetTargetGroupArn
<1>2. CASE Fails(d)
  BY <1>1, <1>2, FailsShape
<1>3. CASE ~Fails(d)
  <2>1. AWSOnly /\ group[Of(d)] # None /\ Types /\ Of(d) \in Services /\ group[Of(d)] \in Group
    <3>1. AWSOnly /\ group[Of(d)] # None
      BY <1>3 DEF GetTargetGroupArn
    <3>2. Of(d) \in Services
      BY <1>1, RunningOp
    <3>3. Types
      BY <1>1, <3>1, SameTypes DEF AWSOnly
    <3> QED
      BY <3>1, <3>2, <3>3 DEF Shape, TypeOK
  <2>2. PICK m \in {"move", "change"} :
          \/ To(d, [op[d] EXCEPT !.pc = "rules", !.mode = m, !.group = group[Of(d)]])
          \/ To(d, [op[d] EXCEPT !.pc = "update"])
    BY <1>3 DEF GetTargetGroupArn, Recreates, Goes
  <2>3. PICK o :
          /\ To(d, o)
          /\ o \in {[op[d] EXCEPT !.pc = "rules", !.mode = m, !.group = group[Of(d)]],
                    [op[d] EXCEPT !.pc = "update"]}
    BY <2>2
  <2>4. /\ o \in Op /\ o.req = op[d].req /\ o.del = op[d].del
        /\ o.cond = op[d].cond /\ o.ddLast = op[d].ddLast
        /\ \/ o.pc = "rules" /\ o.mode = m /\ o.group = group[Of(d)]
           \/ o.pc = "update" /\ o.mode = op[d].mode /\ o.group = op[d].group
    BY <1>1, <2>1, <2>3 DEF Op, Pc
  <2>5. OpOK(o) /\ DeletesOwn(o)
    BY <1>1, <2>1, <2>4 DEF OpOK, DeletesOwn, Early
  <2> QED
    BY <1>1, <2>1, <2>4, <2>5, <2>3, ShapeKept DEF Early
<1> QED
  BY <1>2, <1>3

\* The rules that are found are rules of the service, and redirects.
LEMMA Found ==
  ASSUME Shape, NEW d \in Deploys, op[d].pc = "rules", NEW D \in ToDelete(d)
  PROVE  /\ D \subseteq rules /\ Mine(d) \subseteq D
         /\ \A r \in D : r.service = Of(d) \/ r.group = None
         /\ \A r \in D : r.kind = "redirect" => Place[r.cond] \in Authenticated(d) /\ r.lb = OldLb(d)
         /\ \A q, r \in D :
              q.kind = "redirect" /\ r.kind = "redirect" /\ Place[q.cond] = Place[r.cond] => q = r
<1>1. PICK f \in [Authenticated(d) -> rules] :
        /\ \A x \in Authenticated(d) : f[x] \in Redirects(d, x)
        /\ D = Mine(d) \cup {f[x] : x \in Authenticated(d)}
  BY DEF ToDelete
<1>2. Mine(d) \subseteq rules /\ \A r \in Mine(d) : r.service = Of(d)
  BY DEF Mine
<1>3. \A x \in Authenticated(d) :
        f[x] \in rules /\ f[x].kind = "redirect" /\ Place[f[x].cond] = x /\ f[x].lb = OldLb(d)
  BY <1>1 DEF Redirects
<1>4. \A x \in Authenticated(d) : f[x].group = None
  BY <1>3 DEF Shape, RuleOK
<1>5. \A r \in Mine(d) : r.kind # "redirect"
  <2>1. op[d].group # None
    BY RunningOp, Names DEF OpOK
  <2> QED
    BY <2>1 DEF Mine, Shape, RuleOK
<1>6. \A r \in D : r.kind = "redirect" =>
        \E x \in Authenticated(d) : r = f[x] /\ Place[r.cond] = x /\ r.lb = OldLb(d)
  BY <1>1, <1>3, <1>5
<1> QED
  BY <1>1, <1>2, <1>3, <1>4, <1>6

LEMMA GetRulesShape ==
  ASSUME Shape, NEW d \in Deploys, GetRulesForAllListeners(d)
  PROVE  Shape'
<1>1. /\ op[d].pc = "rules" /\ UNCHANGED <<rules, group, ecs, last, intact>> /\ faults' \in Nat
      /\ op[d] \in Op /\ op[d].req \in Requests /\ OpOK(op[d]) /\ DeletesOwn(op[d]) /\ Types
  BY RunningOp, Faults, SameTypes DEF GetRulesForAllListeners, AWSOnly
<1>2. PICK D \in ToDelete(d) : To(d, [op[d] EXCEPT !.pc = "delete", !.del = D])
  BY DEF GetRulesForAllListeners
<1>3. /\ D \subseteq Rule /\ \A r \in D : r.service = Of(d) \/ r.group = None
      /\ \A q, r \in D :
           q.kind = "redirect" /\ r.kind = "redirect" /\ Place[q.cond] = Place[r.cond] => q = r
  BY <1>1, Found DEF Shape, TypeOK
<1> DEFINE o == [op[d] EXCEPT !.pc = "delete", !.del = D]
<1>4. /\ o \in Op /\ o.req = op[d].req /\ o.group = op[d].group /\ o.del = D
      /\ o.cond = op[d].cond /\ o.ddLast = op[d].ddLast /\ o.pc = "delete" /\ o.mode = op[d].mode
  BY <1>1, <1>3 DEF Op, Pc
<1> HIDE DEF o
<1>5. OpOK(o) /\ DeletesOwn(o)
  BY <1>1, <1>3, <1>4 DEF OpOK, DeletesOwn, Early, Of
<1>6. To(d, o)
  BY <1>2 DEF o
<1> QED
  BY <1>1, <1>4, <1>5, <1>6, ShapeKept DEF Early

LEMMA GetRulesFailsShape ==
  ASSUME Shape, NEW d \in Deploys, GetRulesFails(d)
  PROVE  Shape'
<1>1. /\ op[d].pc = "rules" /\ UNCHANGED <<rules, group, ecs, last, intact>> /\ faults' \in Nat
      /\ op[d] \in Op /\ op[d].req \in Requests /\ OpOK(op[d]) /\ DeletesOwn(op[d]) /\ Types
  BY RunningOp, Faults, SameTypes DEF GetRulesFails, AWSOnly
<1> DEFINE o == [op[d] EXCEPT !.pc = AfterDelete(d), !.clean = FALSE]
<1>2. To(d, o)
  BY DEF GetRulesFails
<1>3. /\ o \in Op /\ o.req = op[d].req /\ o.group = op[d].group /\ o.del = op[d].del
      /\ o.cond = op[d].cond /\ o.ddLast = op[d].ddLast /\ o.mode = op[d].mode
      /\ o.pc = IF op[d].mode = "move" THEN "deletegroup" ELSE "highest"
  BY <1>1 DEF Op, Pc, AfterDelete
<1> HIDE DEF o
<1>4. OpOK(o) /\ DeletesOwn(o)
  BY <1>1, <1>3 DEF OpOK, DeletesOwn, Early
<1> QED
  BY <1>1, <1>2, <1>3, <1>4, ShapeKept DEF Early

LEMMA DeleteRuleShape ==
  ASSUME Shape, NEW d \in Deploys, DeleteRule(d) \/ DeleteRuleFails(d)
  PROVE  Shape'
<1>1. /\ op[d].pc = "delete" /\ UNCHANGED <<group, ecs, last, intact>> /\ faults' \in Nat
      /\ op[d] \in Op /\ op[d].req \in Requests /\ OpOK(op[d]) /\ DeletesOwn(op[d]) /\ Types
  BY RunningOp, Faults, SameTypes DEF DeleteRule, DeleteRuleFails, AWSOnly
<1>2. rules' \subseteq rules
  BY DEF DeleteRule, DeleteRuleFails
<1>3. \E o : /\ To(d, o)
             /\ \/ o = [op[d] EXCEPT !.pc = AfterDelete(d)]
                \/ \E r : o = [op[d] EXCEPT !.del = @ \ {r}]
                \/ \E r : o = [op[d] EXCEPT !.del = @ \ {r}, !.clean = FALSE]
  <2>1. CASE DeleteRule(d) /\ op[d].del = {}
    BY <2>1 DEF DeleteRule, Goes
  <2>2. CASE DeleteRule(d) /\ op[d].del # {}
    <3>1. \E r \in NextToDelete(d) : Forgets(d, r)
      BY <2>2 DEF DeleteRule
    <3> QED
      BY <3>1 DEF Forgets
  <2>3. CASE DeleteRuleFails(d)
    BY <2>3 DEF DeleteRuleFails
  <2> QED
    BY <2>1, <2>2, <2>3
<1>4. PICK o : /\ To(d, o)
               /\ \/ o = [op[d] EXCEPT !.pc = AfterDelete(d)]
                  \/ \E r : o = [op[d] EXCEPT !.del = @ \ {r}]
                  \/ \E r : o = [op[d] EXCEPT !.del = @ \ {r}, !.clean = FALSE]
  BY <1>3
<1>5. /\ o \in Op /\ o.req = op[d].req /\ o.group = op[d].group /\ o.del \subseteq op[d].del
      /\ o.cond = op[d].cond /\ o.ddLast = op[d].ddLast /\ o.mode = op[d].mode
      /\ o.pc \in {"delete", IF op[d].mode = "move" THEN "deletegroup" ELSE "highest"}
  <2>1. CASE o = [op[d] EXCEPT !.pc = AfterDelete(d)]
    BY <1>1, <2>1 DEF Op, Pc, AfterDelete
  <2>2. CASE \E r : o = [op[d] EXCEPT !.del = @ \ {r}]
    <3>1. PICK r : o = [op[d] EXCEPT !.del = @ \ {r}]
      BY <2>2
    <3> QED
      BY <1>1, <3>1 DEF Op
  <2>3. CASE \E r : o = [op[d] EXCEPT !.del = @ \ {r}, !.clean = FALSE]
    <3>1. PICK r : o = [op[d] EXCEPT !.del = @ \ {r}, !.clean = FALSE]
      BY <2>3
    <3> QED
      BY <1>1, <3>1 DEF Op
  <2> QED
    BY <1>4, <2>1, <2>2, <2>3
<1>6. OpOK(o) /\ DeletesOwn(o)
  BY <1>1, <1>5 DEF OpOK, DeletesOwn, Early
<1> QED
  BY <1>1, <1>2, <1>4, <1>5, <1>6, ShapeKept DEF Early

LEMMA DeleteTargetGroupShape ==
  ASSUME Shape, NEW d \in Deploys, DeleteTargetGroup(d)
  PROVE  Shape'
<1>1. /\ op[d].pc = "deletegroup" /\ UNCHANGED <<rules, ecs>> /\ faults' \in Nat
      /\ op[d] \in Op /\ op[d].req \in Requests /\ OpOK(op[d]) /\ DeletesOwn(op[d])
      /\ Of(d) \in Services
  BY RunningOp, Faults DEF DeleteTargetGroup
<1>2. CASE Fails(d) /\ UNCHANGED group
  BY <1>1, <1>2, FailsShape
<1>3. CASE group' = [group EXCEPT ![Of(d)] = None] /\ Goes(d, "creategroup") /\ AWSOnly
  <2> DEFINE o == [op[d] EXCEPT !.pc = "creategroup"]
  <2>1. To(d, o)
    BY <1>3 DEF Goes
  <2>2. /\ o \in Op /\ o.req = op[d].req /\ o.group = op[d].group /\ o.del = op[d].del
        /\ o.cond = op[d].cond /\ o.ddLast = op[d].ddLast /\ o.mode = op[d].mode /\ o.pc = "creategroup"
    BY <1>1 DEF Op, Pc
  <2> HIDE DEF o
  <2>3. OpOK(o) /\ DeletesOwn(o)
    BY <1>1, <2>2 DEF OpOK, DeletesOwn, Early
  <2>4. Types /\ \A s \in Services : group'[s] \in {group[s], None}
    BY <1>1, <1>3 DEF Types, Shape, TypeOK, AWSOnly
  <2> QED
    BY <1>1, <2>1, <2>2, <2>3, <2>4, ShapeKept DEF Early
<1> QED
  BY <1>2, <1>3 DEF DeleteTargetGroup

LEMMA CreateTargetGroupShape ==
  ASSUME Shape, NEW d \in Deploys, CreateTargetGroup(d)
  PROVE  Shape'
<1>1. /\ op[d].pc = "creategroup" /\ UNCHANGED <<rules, ecs, last, intact>> /\ faults' \in Nat
      /\ op[d] \in Op /\ op[d].req \in Requests /\ OpOK(op[d]) /\ DeletesOwn(op[d])
      /\ Of(d) \in Services
  BY RunningOp, Faults DEF CreateTargetGroup, AWSOnly
<1>2. /\ Types /\ \A s \in Services : group'[s] \in {group[s], d}
      /\ group'[Of(d)] \in Group
  BY <1>1 DEF CreateTargetGroup, Types, Shape, TypeOK, Group
<1> DEFINE o == [op[d] EXCEPT !.pc = "highest", !.group = group'[Of(d)]]
<1>3. To(d, o)
  BY DEF CreateTargetGroup
<1>4. /\ o \in Op /\ o.req = op[d].req /\ o.group = group'[Of(d)] /\ o.del = op[d].del
      /\ o.cond = op[d].cond /\ o.ddLast = op[d].ddLast /\ o.mode = op[d].mode /\ o.pc = "highest"
  BY <1>1, <1>2 DEF Op, Pc
<1> HIDE DEF o
<1>5. OpOK(o) /\ DeletesOwn(o)
  BY <1>1, <1>2, <1>4 DEF OpOK, DeletesOwn, Early
<1> QED
  BY <1>1, <1>2, <1>3, <1>4, <1>5, ShapeKept DEF Early

LEMMA HighestOf ==
  ASSUME Shape, NEW lb
  PROVE  /\ Highest(Priorities(lb)) \in Nat
         /\ \A r \in rules : r.lb = lb => r.priority <= Highest(Priorities(lb))
<1> DEFINE R == {r \in rules : r.lb = lb}
           f == [r \in R |-> r.priority]
<1>1. R \subseteq rules /\ rules \subseteq Rule /\ IsFiniteSet(R)
  BY FS_Subset DEF Shape, TypeOK
<1>2. Priorities(lb) \in SUBSET Nat
  BY <1>1, RuleFields DEF Priorities
<1>3. f \in Surjection(R, Priorities(lb))
  BY DEF Surjection, Priorities
<1>4. IsFiniteSet(Priorities(lb))
  BY <1>1, <1>3, FS_Surjection
<1>5. \A r \in rules : r.lb = lb => r.priority \in Priorities(lb)
  BY DEF Priorities
<1> QED
  BY <1>2, <1>4, <1>5, HighestIs

LEMMA GetHighestRuleShape ==
  ASSUME Shape, NEW d \in Deploys, GetHighestRule(d)
  PROVE  Shape'
<1>1. /\ op[d].pc = "highest" /\ UNCHANGED <<rules, group, ecs, last, intact>> /\ faults' \in Nat
      /\ op[d] \in Op /\ op[d].req \in Requests /\ OpOK(op[d]) /\ DeletesOwn(op[d]) /\ Types
      /\ Wanted(op[d].req.conds) \subseteq Condition
  BY RunningOp, Faults, SameTypes DEF GetHighestRule, AWSOnly
<1>2. Highest(Priorities(Lb(d))) \in Nat
  BY HighestOf
<1> DEFINE o == [op[d] EXCEPT !.pc = "create", !.highest = Highest(Priorities(Lb(d))),
                              !.left = Wanted(op[d].req.conds)]
<1>3. To(d, o)
  BY DEF GetHighestRule
<1>4. /\ o \in Op /\ o.req = op[d].req /\ o.group = op[d].group /\ o.del = op[d].del
      /\ o.cond = op[d].cond /\ o.ddLast = op[d].ddLast /\ o.mode = op[d].mode /\ o.pc = "create"
      /\ o.left = Wanted(op[d].req.conds)
  BY <1>1, <1>2 DEF Op, Pc
<1> HIDE DEF o
<1>5. OpOK(o) /\ DeletesOwn(o)
  BY <1>1, <1>4 DEF OpOK, DeletesOwn, Early
<1>6. Numbered(d)'
  <2>1. \A r \in rules : r.by # d
    BY <1>1 DEF Shape, NotYet
  <2> QED
    BY <1>1, <2>1 DEF Numbered
<1> QED
  BY <1>1, <1>3, <1>4, <1>5, <1>6, ShapeKept DEF Early

LEMMA NextConditionShape ==
  ASSUME Shape, NEW d \in Deploys, NextCondition(d)
  PROVE  Shape'
<1>1. /\ op[d].pc = "create" /\ op[d].cond = None
      /\ UNCHANGED <<rules, group, ecs, last, intact>> /\ faults' \in Nat
      /\ op[d] \in Op /\ op[d].req \in Requests /\ OpOK(op[d]) /\ DeletesOwn(op[d]) /\ Types
      /\ Wanted(op[d].req.conds) \subseteq Condition
  BY RunningOp, Faults, SameTypes DEF NextCondition, AWSOnly
<1>2. PICK c \in Sorted(d) : To(d, [op[d] EXCEPT !.cond = c, !.left = @ \ {c}, !.on = ListenersOf(c)])
  BY DEF NextCondition
<1>3. c \in op[d].left /\ c \in Wanted(op[d].req.conds) /\ c \in Condition /\ c # None
      /\ op[d].left \subseteq Wanted(op[d].req.conds)
  BY <1>1, Names DEF Sorted, OpOK
<1>4. ListenersOf(c) \subseteq Listeners
  BY <1>3, ListenersAre
<1> DEFINE o == [op[d] EXCEPT !.cond = c, !.left = @ \ {c}, !.on = ListenersOf(c)]
<1>5. To(d, o)
  BY <1>2
<1>6. /\ o \in Op /\ o.req = op[d].req /\ o.group = op[d].group /\ o.del = op[d].del /\ o.cond = c
      /\ o.ddLast = op[d].ddLast /\ o.mode = op[d].mode /\ o.pc = "create"
      /\ o.left = op[d].left \ {c} /\ o.on = ListenersOf(c)
      /\ o.highest = op[d].highest /\ o.newRules = op[d].newRules
  BY <1>1, <1>3, <1>4 DEF Op
<1> HIDE DEF o
<1>7. OpOK(o) /\ DeletesOwn(o)
  BY <1>1, <1>3, <1>6 DEF OpOK, DeletesOwn, Early
<1>8. Numbered(d)'
  <2>1. \A r \in rules : r.by = d => r.priority < Priority(d)
    BY <1>1 DEF Shape, Numbered
  <2>2. op'[d] = o /\ Priority(d)' = Priority(d)
    BY <1>5, <1>6, Moves DEF Priority
  <2> QED
    BY <1>1, <2>1, <2>2 DEF Numbered
<1> QED
  BY <1>1, <1>5, <1>6, <1>7, <1>8, ShapeKept DEF Early

\* What a call that creates a rule adds.
LEMMA CreatedIs ==
  ASSUME Shape, NEW d \in Deploys, op[d].pc = "create", op[d].cond # None, NEW l \in op[d].on
  PROVE  LET r == NewRule(d, op[d].req, op[d].group, op[d].cond, l, Priority(d)) IN
           /\ Created(d, l) = rules \cup {r}
           /\ r \in Rule /\ RuleOK(r) /\ r.by = d /\ r.service = Of(d) /\ r.lb = Lb(d)
           /\ r.listener = l /\ r.priority = Priority(d) /\ r.cond = op[d].cond
           /\ r.kind = KindOn(op[d].cond, l)
           /\ r.group = IF KindOn(op[d].cond, l) = "redirect" THEN None ELSE op[d].group
           /\ Priority(d) \in Nat
<1>1. /\ op[d] \in Op /\ op[d].req \in Requests /\ OpOK(op[d])
      /\ Wanted(op[d].req.conds) \subseteq Condition
  BY RunningOp
<1>2. /\ op[d].cond \in Condition /\ l \in ListenersOf(op[d].cond) /\ op[d].group \in Group
  BY <1>1 DEF OpOK
<1>3. Priority(d) \in Nat
  BY <1>1, OpFields DEF Priority
<1>4. d \in Group
  BY DEF Group
<1> QED
  BY <1>1, <1>2, <1>3, <1>4, NewRuleIs DEF Created, Of, Lb

LEMMA CreateRuleShape ==
  ASSUME Shape, NEW d \in Deploys, CreateRule(d)
  PROVE  Shape'
<1>1. /\ op[d].pc = "create" /\ op[d].cond # None /\ UNCHANGED <<group, ecs>> /\ faults' \in Nat
      /\ op[d] \in Op /\ op[d].req \in Requests /\ OpOK(op[d]) /\ DeletesOwn(op[d])
  BY RunningOp, Faults DEF CreateRule
<1>2. PICK l \in op[d].on :
       IF Taken(d, l)
       THEN Fails(d) /\ UNCHANGED rules
       ELSE rules' = Created(d, l) /\ To(d, [op[d] EXCEPT !.on = @ \ {l}]) /\ AWSOnly
  BY DEF CreateRule
<1>3. CASE Taken(d, l)
  BY <1>1, <1>2, <1>3, FailsShape
<1>4. CASE ~Taken(d, l)
  <2> DEFINE o == [op[d] EXCEPT !.on = @ \ {l}]
             n == NewRule(d, op[d].req, op[d].group, op[d].cond, l, Priority(d))
  <2>1. To(d, o) /\ rules' = Created(d, l) /\ Types
    BY <1>1, <1>2, <1>4, SameTypes DEF AWSOnly
  <2>2. /\ rules' = rules \cup {n} /\ n \in Rule /\ RuleOK(n) /\ n.by = d /\ n.cond = op[d].cond
        /\ n.listener = l /\ n.priority = Priority(d) /\ n.group \in {None, op[d].group}
    BY <1>1, <2>1, CreatedIs
  <2>3. /\ o \in Op /\ o.req = op[d].req /\ o.group = op[d].group /\ o.del = op[d].del
        /\ o.cond = op[d].cond /\ o.ddLast = op[d].ddLast /\ o.mode = op[d].mode /\ o.pc = "create"
        /\ o.left = op[d].left /\ o.on = op[d].on \ {l}
        /\ o.highest = op[d].highest /\ o.newRules = op[d].newRules
    BY <1>1 DEF Op
  <2> HIDE DEF o, n
  <2>4. OpOK(o) /\ DeletesOwn(o)
    BY <1>1, <2>3 DEF OpOK, DeletesOwn, Early
  <2>5. IsFiniteSet(rules')
    BY <2>2, FS_AddElement DEF Shape
  <2>6. Numbered(d)'
    <3>1. Numbered(d)
      BY DEF Shape
    <3>2. op'[d] = o /\ Priority(d)' = Priority(d)
      BY <2>1, <2>3, Moves DEF Priority
    <3>3. \A r \in rules' : r.by = d =>
            \/ r.priority < Priority(d)
            \/ r.priority = Priority(d) /\ r.cond = op[d].cond /\ r.listener \notin op[d].on \ {l}
      BY <1>1, <2>2, <3>1 DEF Numbered
    <3> QED
      BY <1>1, <2>3, <3>2, <3>3 DEF Numbered
  <2> QED
    BY <1>1, <2>1, <2>2, <2>3, <2>4, <2>5, <2>6, ShapeStep DEF Early
<1> QED
  BY <1>3, <1>4

LEMMA CreateRuleLostShape ==
  ASSUME Shape, NEW d \in Deploys, CreateRuleLost(d)
  PROVE  Shape'
<1>1. /\ op[d].pc = "create" /\ op[d].cond # None /\ UNCHANGED <<group, ecs>> /\ faults' \in Nat
      /\ op[d].req \in Requests /\ Fails(d)
  BY RunningOp, Faults DEF CreateRuleLost
<1>2. PICK l \in op[d].on : rules' = Created(d, l)
  BY DEF CreateRuleLost
<1> DEFINE o == Failed(d)
           n == NewRule(d, op[d].req, op[d].group, op[d].cond, l, Priority(d))
<1>3. /\ rules' = rules \cup {n} /\ n \in Rule /\ RuleOK(n) /\ n.by = d
      /\ n.group \in {None, op[d].group}
  BY <1>1, <1>2, CreatedIs
<1>4. Types /\ To(d, o)
  BY <1>1 DEF Types, Fails, Shape, TypeOK
<1>5. /\ o \in Op /\ OpOK(o) /\ DeletesOwn(o) /\ o.pc \in {"over", "row"}
      /\ (o.pc = "row" => o.req = op[d].req) /\ o.group \in {op[d].group, None}
  BY <1>1, FailedOp
<1> HIDE DEF o, n
<1>6. IsFiniteSet(rules')
  BY <1>3, FS_AddElement DEF Shape
<1>7. Numbered(d)'
  BY <1>4, <1>5, Moves DEF Numbered
<1> QED
  BY <1>1, <1>3, <1>4, <1>5, <1>6, <1>7, ShapeStep DEF Early

\* Every condition on some listener leaves room.
LEMMA RulesOfIs ==
  ASSUME NEW c \in Condition
  PROVE  RulesOf(c) \in Nat /\ (ListenersOf(c) # {} => RulesOf(c) >= 1)
<1>1. CASE c \in Conditions
  <2>1. On[c] \in SUBSET Listeners
    BY <1>1, RulesConstants
  <2>2. IsFiniteSet(Listeners)
    <3>1. IsFiniteSet({"http"}) /\ Listeners = {"http"} \cup {"https"}
      BY FS_Singleton DEF Listeners
    <3> QED
      BY <3>1, FS_AddElement
  <2>3. IsFiniteSet(On[c])
    BY <2>1, <2>2, FS_Subset
  <2>4. Cardinality(On[c]) \in Nat /\ (On[c] # {} => Cardinality(On[c]) # 0)
    BY <2>3, FS_CardinalityType, FS_EmptySet
  <2> QED
    BY <1>1, <2>4 DEF RulesOf, ListenersOf
<1>2. CASE c \notin Conditions
  BY <1>2 DEF RulesOf
<1> QED
  BY <1>1, <1>2

LEMMA ConditionDoneShape ==
  ASSUME Shape, NEW d \in Deploys, ConditionDone(d)
  PROVE  Shape'
<1>1. /\ op[d].pc = "create" /\ op[d].cond # None /\ op[d].on = {}
      /\ UNCHANGED <<rules, group, ecs, last, intact>> /\ faults' \in Nat
      /\ op[d] \in Op /\ op[d].req \in Requests /\ OpOK(op[d]) /\ DeletesOwn(op[d]) /\ Types
      /\ Wanted(op[d].req.conds) \subseteq Condition
  BY RunningOp, Faults, SameTypes DEF ConditionDone, AWSOnly
<1> DEFINE c == op[d].cond
           k == RulesOf(c)
<1>2. c \in Condition /\ k \in Nat /\ (ListenersOf(c) # {} => k >= 1)
  BY <1>1, RulesOfIs DEF OpOK
<1> DEFINE o == [op[d] EXCEPT !.cond = None, !.newRules = @ + k]
<1>3. To(d, o)
  BY DEF ConditionDone
<1> HIDE DEF k
<1> DEFINE n == op[d].newRules + k
<1>7. n \in Nat
  BY <1>1, <1>2, OpFields
<1>8. o = [op[d] EXCEPT !.cond = None, !.newRules = n]
  OBVIOUS
<1> HIDE DEF n
<1>9. ASSUME NEW x \in Op, NEW y, y = [x EXCEPT !.cond = None, !.newRules = n]
      PROVE  /\ y \in Op /\ y.req = x.req /\ y.group = x.group /\ y.del = x.del
             /\ y.cond = None /\ y.ddLast = x.ddLast /\ y.mode = x.mode /\ y.pc = x.pc
             /\ y.left = x.left /\ y.highest = x.highest /\ y.newRules = n
  BY <1>7, <1>9 DEF Op
<1> USE DEF n
<1>4. /\ o \in Op /\ o.req = op[d].req /\ o.group = op[d].group /\ o.del = op[d].del
      /\ o.cond = None /\ o.ddLast = op[d].ddLast /\ o.mode = op[d].mode /\ o.pc = "create"
      /\ o.left = op[d].left /\ o.highest = op[d].highest /\ o.newRules = op[d].newRules + k
  BY <1>1, <1>8, <1>9
<1> HIDE DEF o
<1>5. OpOK(o) /\ DeletesOwn(o)
  BY <1>1, <1>4 DEF OpOK, DeletesOwn, Early
<1>6. Numbered(d)'
  <2>1. Numbered(d) /\ \A r \in rules : RuleOK(r) /\ r.priority \in Nat
    BY RuleFields DEF Shape, TypeOK
  <2>2. op'[d] = o /\ Priority(d) \in Nat /\ Priority(d)' = Priority(d) + k
    <3>1. op'[d] = o
      BY <1>3, <1>4, Moves
    <3>2. op[d].highest \in Nat /\ op[d].newRules \in Nat
      BY <1>1, OpFields
    <3> QED
      BY <1>2, <1>4, <3>1, <3>2 DEF Priority
  <2>3. ASSUME NEW r \in rules, r.by = d PROVE r.priority < Priority(d) + k
    <3>1. CASE r.priority < Priority(d)
      BY <1>2, <2>1, <2>2, <3>1
    <3>2. CASE r.priority = Priority(d) /\ r.cond = c
      <4>1. ListenersOf(c) # {}
        BY <2>1, <3>2 DEF RuleOK
      <4> QED
        BY <1>2, <2>2, <3>2, <4>1
    <3> QED
      BY <1>1, <2>1, <2>3, <3>1, <3>2 DEF Numbered
  <2> QED
    BY <1>1, <2>2, <2>3 DEF Numbered
<1> QED
  BY <1>1, <1>3, <1>4, <1>5, <1>6, ShapeKept DEF Early

LEMMA RulesDoneShape ==
  ASSUME Shape, NEW d \in Deploys, RulesDone(d)
  PROVE  Shape'
<1>1. /\ op[d].pc = "create" /\ UNCHANGED <<rules, group, ecs, last, intact>> /\ faults' \in Nat
      /\ op[d] \in Op /\ op[d].req \in Requests /\ OpOK(op[d]) /\ DeletesOwn(op[d]) /\ Types
  BY RunningOp, Faults, SameTypes DEF RulesDone, AWSOnly
<1> DEFINE pc == CASE op[d].mode = "create" -> "createservice"
                   [] op[d].mode = "move" -> "deleteservice"
                   [] OTHER -> "update"
           o == [op[d] EXCEPT !.pc = pc]
<1>2. To(d, o)
  BY DEF RulesDone, Goes
<1>3. /\ pc \in {"createservice", "deleteservice", "update"}
      /\ pc = "createservice" => op[d].mode = "create"
      /\ pc = "deleteservice" => op[d].mode = "move"
      /\ pc = "update" => op[d].mode \notin {"create", "move"}
  OBVIOUS
<1> HIDE DEF pc
<1>4. /\ o \in Op /\ o.req = op[d].req /\ o.group = op[d].group /\ o.del = op[d].del
      /\ o.cond = op[d].cond /\ o.ddLast = op[d].ddLast /\ o.mode = op[d].mode /\ o.pc = pc
  BY <1>1, <1>3 DEF Op, Pc
<1>5. o.mode \in {"create", "change", "move", "update"}
  BY <1>4, OpFields
<1> HIDE DEF o
<1>6. OpOK(o) /\ DeletesOwn(o)
  BY <1>1, <1>3, <1>4, <1>5 DEF OpOK, DeletesOwn, Early
<1> QED
  BY <1>1, <1>2, <1>3, <1>4, <1>6, ShapeKept DEF Early

\* The calls on the ECS service.
LEMMA ServiceCallsShape ==
  ASSUME Shape, NEW d \in Deploys, DeleteService(d) \/ CreateService(d) \/ UpdateService(d)
  PROVE  Shape'
<1>1. /\ op[d].pc \in {"deleteservice", "createservice", "update"} /\ UNCHANGED <<rules, group>>
      /\ faults' \in Nat /\ Of(d) \in Services
      /\ op[d] \in Op /\ op[d].req \in Requests /\ OpOK(op[d]) /\ DeletesOwn(op[d])
  BY RunningOp, Faults DEF DeleteService, CreateService, UpdateService
<1>2. CASE Fails(d) /\ UNCHANGED ecs
  BY <1>1, <1>2, FailsShape
<1>3. CASE ~(Fails(d) /\ UNCHANGED ecs)
  <2>1. /\ AWSOnly
        /\ \/ op[d].pc = "deleteservice" /\ To(d, [op[d] EXCEPT !.pc = "createservice"])
           \/ To(d, [op[d] EXCEPT !.pc = "row", !.ok = TRUE])
        /\ \/ UNCHANGED ecs
           \/ ecs' = [ecs EXCEPT ![Of(d)] = None]
           \/ ecs' = [ecs EXCEPT ![Of(d)] = op[d].group]
    BY <1>3 DEF DeleteService, CreateService, UpdateService, Goes, Succeeds
  <2>2. Types
    <3>1. op[d].group \in Group \cup {None} /\ None \in Group \cup {None}
      BY <1>1, OpFields
    <3>2. ecs' \in [Services -> Group \cup {None}]
      BY <1>1, <2>1, <3>1 DEF Shape, TypeOK
    <3> QED
      BY <1>1, <2>1, <3>2 DEF Types, AWSOnly, Shape, TypeOK
  <2>3. PICK o : /\ To(d, o)
                 /\ \/ op[d].pc = "deleteservice" /\ o = [op[d] EXCEPT !.pc = "createservice"]
                    \/ o = [op[d] EXCEPT !.pc = "row", !.ok = TRUE]
    BY <2>1
  <2>4. /\ o \in Op /\ o.req = op[d].req /\ o.group = op[d].group /\ o.del = op[d].del
        /\ o.cond = op[d].cond /\ o.ddLast = op[d].ddLast /\ o.mode = op[d].mode
        /\ \/ op[d].pc = "deleteservice" /\ o.pc = "createservice"
           \/ o.pc = "row"
    BY <1>1, <2>3 DEF Op, Pc
  <2>5. OpOK(o) /\ DeletesOwn(o)
    BY <1>1, <2>4 DEF OpOK, DeletesOwn, Early
  <2> QED
    BY <1>1, <2>2, <2>3, <2>4, <2>5, ShapeKept DEF Early
<1> QED
  BY <1>2, <1>3

LEMMA NewDeploymentShape ==
  ASSUME Shape, NEW d \in Deploys, NewDeployment(d)
  PROVE  Shape'
<1>1. /\ op[d].pc = "row" /\ UNCHANGED <<rules, group, ecs>> /\ faults' \in Nat
      /\ op[d] \in Op /\ Of(d) \in Services /\ Lb(d) \in LoadBalancers
      /\ op[d].req.conds \subseteq Conditions /\ op[d].ok \in BOOLEAN /\ op[d].clean \in BOOLEAN
  BY RunningOp, OpFields, Faults DEF NewDeployment
<1>2. Types
  <2>1. [lb |-> Lb(d), conds |-> op[d].req.conds, ok |-> op[d].ok] \in Deployment
    BY <1>1 DEF Deployment
  <2>2. last' \in [Services -> Deployment \cup {None}]
    BY <2>1 DEF NewDeployment, Shape, TypeOK
  <2>3. intact' \subseteq Services
    BY <1>1 DEF NewDeployment, LeavesIntact, Shape, TypeOK
  <2> QED
    BY <1>1, <2>2, <2>3 DEF Types, Shape, TypeOK
<1>3. To(d, Over(d, op[d].clean))
  BY DEF NewDeployment
<1> QED
  BY <1>1, <1>2, <1>3, IdleOp, ShapeKept DEF Early

LEMMA CallFailsShape ==
  ASSUME Shape, NEW d \in Deploys, CallFails(d)
  PROVE  Shape'
<1>1. /\ op[d].pc \notin {"idle", "over"} /\ Fails(d) /\ UNCHANGED <<rules, group, ecs>> /\ faults' \in Nat
  BY Faults DEF CallFails
<1> QED
  BY <1>1, FailsShape

LEMMA CrashShape ==
  ASSUME Shape, NEW d \in Deploys, Crash(d)
  PROVE  Shape'
<1>1. To(d, Over(d, FALSE)) /\ UNCHANGED <<rules, group, ecs, last>> /\ faults' \in Nat
  BY Faults DEF Crash
<1>2. Types
  BY <1>1 DEF Types, Crash, Shape, TypeOK
<1> QED
  BY <1>1, <1>2, IdleOp, ShapeKept DEF Early

\* A request begins: of the others only the history changes.
Begun(d, r) ==
  /\ op' \in [Deploys -> Op] /\ op[d].pc = "idle"
  /\ op'[d].pc = "exists" /\ op'[d].req = r /\ op'[d].ddLast = last[r.service]
  /\ op'[d].mode = "update" /\ op'[d].cond = None /\ op'[d].group = None /\ op'[d].del = {}
  /\ op'[d].clean = (RunningFor(r.service) = {})
  /\ \A e \in Deploys \ {d} :
       /\ e \notin RunningFor(r.service) => op'[e] = op[e]
       /\ e \in RunningFor(r.service) => op'[e].clean = FALSE
       /\ op'[e].pc = op[e].pc /\ op'[e].req = op[e].req /\ op'[e].mode = op[e].mode
       /\ op'[e].group = op[e].group /\ op'[e].del = op[e].del /\ op'[e].cond = op[e].cond
       /\ op'[e].ddLast = op[e].ddLast /\ op'[e].left = op[e].left /\ op'[e].on = op[e].on
       /\ op'[e].highest = op[e].highest /\ op'[e].newRules = op[e].newRules
  /\ intact' = (IF RunningFor(r.service) = {} THEN intact ELSE intact \ {r.service})
  /\ UNCHANGED <<rules, group, ecs, last, faults>>

LEMMA BeginOps ==
  ASSUME Shape, NEW d \in Deploys, Begin(d)
  PROVE  \E r \in Requests : Begun(d, r)
<1>1. PICK r \in Requests :
       LET others == RunningFor(r.service) IN
       /\ op' = [e \in Deploys |->
            IF e = d THEN [Idle EXCEPT !.pc = "exists", !.req = r, !.ddLast = last[r.service],
                                       !.clean = others = {}]
            ELSE IF e \in others THEN [op[e] EXCEPT !.clean = FALSE] ELSE op[e]]
       /\ intact' = IF others = {} THEN intact ELSE intact \ {r.service}
  BY DEF Begin
<1> DEFINE others == RunningFor(r.service)
           o == [Idle EXCEPT !.pc = "exists", !.req = r, !.ddLast = last[r.service],
                             !.clean = others = {}]
<1>2. last[r.service] \in Deployment \cup {None} /\ op \in [Deploys -> Op]
  BY RequestFields DEF Shape, TypeOK
<1>3. PICK x \in BOOLEAN : x = (others = {})
  OBVIOUS
<1>4. /\ o \in Op /\ o.pc = "exists" /\ o.req = r /\ o.ddLast = last[r.service]
      /\ o.mode = "update" /\ o.cond = None /\ o.group = None /\ o.del = {} /\ o.clean = (others = {})
  BY <1>2, <1>3 DEF Idle, Op, Pc
<1>5. op' = [e \in Deploys |-> IF e = d THEN o
                               ELSE IF e \in others THEN [op[e] EXCEPT !.clean = FALSE] ELSE op[e]]
  BY <1>1
<1> HIDE DEF o, others
<1>6. op'[d] = o
  BY <1>5
<1>7. ASSUME NEW e \in Deploys \ {d}
      PROVE  /\ op'[e] \in Op
             /\ e \notin others => op'[e] = op[e]
             /\ e \in others => op'[e].clean = FALSE
             /\ op'[e].pc = op[e].pc /\ op'[e].req = op[e].req /\ op'[e].mode = op[e].mode
             /\ op'[e].group = op[e].group /\ op'[e].del = op[e].del /\ op'[e].cond = op[e].cond
             /\ op'[e].ddLast = op[e].ddLast /\ op'[e].left = op[e].left /\ op'[e].on = op[e].on
             /\ op'[e].highest = op[e].highest /\ op'[e].newRules = op[e].newRules
  <2>1. op[e] \in Op
    BY <1>2
  <2>2. CASE e \in others
    <3>1. op'[e] = [op[e] EXCEPT !.clean = FALSE]
      BY <1>5, <2>2
    <3> QED
      BY <2>1, <2>2, <3>1 DEF Op
  <2>3. CASE e \notin others
    BY <1>5, <2>1, <2>3
  <2> QED
    BY <2>2, <2>3
<1>8. op' \in [Deploys -> Op]
  <2>1. \A e \in Deploys : op'[e] \in Op
    BY <1>4, <1>6, <1>7
  <2>2. op' = [e \in Deploys |-> op'[e]]
    BY <1>5
  <2> QED
    BY <2>1, <2>2
<1>9. /\ op[d].pc = "idle" /\ UNCHANGED <<rules, group, ecs, last, faults>>
      /\ intact' = IF others = {} THEN intact ELSE intact \ {r.service}
  BY <1>1 DEF Begin, NoFault, others
<1>10. Begun(d, r)
  BY <1>4, <1>6, <1>7, <1>8, <1>9 DEF others, Begun
<1> QED
  BY <1>10

LEMMA BeginShape ==
  ASSUME Shape, NEW d \in Deploys, Begin(d)
  PROVE  Shape'
<1>1. PICK r \in Requests : Begun(d, r)
  BY BeginOps
<1> USE DEF Begun
<1>2. TypeOK'
  <2>1. \A e \in Running' : op'[e].req # None
    BY <1>1, RequestFields DEF Running, Shape, TypeOK
  <2> QED
    BY <1>1, <2>1 DEF Shape, TypeOK
<1>3. ASSUME NEW e \in Deploys
      PROVE  OpOK(op'[e]) /\ DeletesOwn(op'[e]) /\ NotYet(e)' /\ Numbered(e)'
  <2>1. OpOK(op[e]) /\ DeletesOwn(op[e]) /\ NotYet(e) /\ Numbered(e)
    BY DEF Shape
  <2>2. NotYet(e)'
    <3>1. op'[e].pc \in Early => op[e].pc \in Early
      BY <1>1 DEF Early
    <3>2. op'[e].pc \in Early \cup {"highest"} => op[e].pc \in Early \cup {"highest"}
      BY <1>1 DEF Early
    <3>3. \A x \in Deploys : op'[x].group \in {op[x].group, None}
      BY <1>1
    <3> QED
      BY <1>1, <2>1, <3>1, <3>2, <3>3, Names DEF NotYet
  <2>3. CASE e = d
    BY <1>1, <2>2, <2>3 DEF OpOK, DeletesOwn, Numbered, Early
  <2>4. CASE e # d
    <3>1. OpOK(op'[e]) /\ DeletesOwn(op'[e])
      BY <1>1, <2>1, <2>4 DEF OpOK, DeletesOwn, Early
    <3>2. Numbered(e)'
      BY <1>1, <2>1, <2>4 DEF Numbered, Priority
    <3> QED
      BY <2>2, <3>1, <3>2
  <2> QED
    BY <2>3, <2>4
<1> QED
  BY <1>1, <1>2, <1>3 DEF Shape

-----------------------------------------------------------------------------
(* The rules there are at the beginning                                    *)

PriorityOf(r, c) == 20 * Rank[r] + 2 * Cardinality({b \in Wanted(r.conds) : Before(b, c)})

LEMMA WantedFinite ==
  ASSUME NEW r \in Requests
  PROVE  IsFiniteSet(Wanted(r.conds)) /\ IsFiniteSet(Wanted(r.conds) \X Listeners)
<1>1. IsFiniteSet({"http"}) /\ IsFiniteSet({"path"}) /\ Listeners = {"http"} \cup {"https"}
      /\ Default = {"path"} \cup {"tree"}
  BY FS_Singleton DEF Listeners, Default
<1>2. IsFiniteSet(Listeners) /\ IsFiniteSet(Default)
  BY <1>1, FS_AddElement
<1>3. IsFiniteSet(r.conds)
  BY RequestFields, RulesConstants, FS_Subset
<1>4. IsFiniteSet(Wanted(r.conds))
  BY <1>2, <1>3 DEF Wanted
<1> QED
  BY <1>2, <1>4, FS_Product

LEMMA PriorityOfIs ==
  ASSUME NEW r \in Existing, NEW c
  PROVE  PriorityOf(r, c) \in Nat
<1> DEFINE B == {b \in Wanted(r.conds) : Before(b, c)}
<1>1. IsFiniteSet(B)
  BY WantedFinite, RulesConstants, FS_Subset
<1>2. Cardinality(B) \in Nat /\ Rank[r] \in Nat
  BY <1>1, FS_CardinalityType, RulesConstants
<1> HIDE DEF B
<1>3. PriorityOf(r, c) = 20 * Rank[r] + 2 * Cardinality(B)
  BY DEF PriorityOf, B
<1> QED
  BY <1>2, <1>3

LEMMA FirstRulesFinite ==
  ASSUME NEW r \in Existing
  PROVE  IsFiniteSet(FirstRules(r))
<1> DEFINE S == Wanted(r.conds) \X Listeners
           f == [x \in S |-> NewRule(First, r, First, x[1], x[2], PriorityOf(r, x[1]))]
<1>1. IsFiniteSet(S)
  BY WantedFinite, RulesConstants
<1>2. \A n \in FirstRules(r) : \E x \in S : f[x] = n
  <2> SUFFICES ASSUME NEW n \in FirstRules(r) PROVE \E x \in S : f[x] = n
    OBVIOUS
  <2>1. PICK c \in Wanted(r.conds), l \in Listeners : n = NewRule(First, r, First, c, l, PriorityOf(r, c))
    BY DEF FirstRules, PriorityOf
  <2>2. <<c, l>> \in S /\ f[<<c, l>>] = n
    BY <2>1
  <2> QED
    BY <2>2
<1>3. \A x \in S : f[x] \in FirstRules(r)
  <2> SUFFICES ASSUME NEW x \in S PROVE f[x] \in FirstRules(r)
    OBVIOUS
  <2>1. x[1] \in Wanted(r.conds) /\ x[2] \in Listeners
    OBVIOUS
  <2> QED
    BY <2>1 DEF FirstRules, PriorityOf
<1>4. f \in [S -> FirstRules(r)]
  BY <1>3
<1> HIDE DEF f, S
<1>5. f \in Surjection(S, FirstRules(r))
  BY <1>2, <1>4 DEF Surjection
<1> QED
  BY <1>1, <1>5, FS_Surjection

\* Each is one of the last deployment of a service.
LEMMA InitRules ==
  ASSUME Init
  PROVE  /\ IsFiniteSet(rules)
         /\ \A n \in rules : \E r \in Existing :
              \E c \in Wanted(r.conds) : \E l \in ListenersOf(c) :
                n = NewRule(First, r, First, c, l, PriorityOf(r, c))
         /\ \A r \in Existing : \A c \in Wanted(r.conds) : \A l \in ListenersOf(c) :
              NewRule(First, r, First, c, l, PriorityOf(r, c)) \in rules
<1>1. rules = {n \in UNION {FirstRules(r) : r \in Existing} : n.listener \in ListenersOf(n.cond)}
  BY DEF Init
<1>2. IsFiniteSet(rules)
  <2> DEFINE T == {FirstRules(r) : r \in Existing}
             f == [r \in Existing |-> FirstRules(r)]
  <2>1. f \in Surjection(Existing, T)
    BY DEF Surjection
  <2>2. IsFiniteSet(T)
    <3> HIDE DEF T, f
    <3> QED
      BY <2>1, RulesConstants, FS_Surjection
  <2>3. \A R \in T : IsFiniteSet(R)
    BY FirstRulesFinite
  <2>4. rules \subseteq UNION T
    BY <1>1
  <2> HIDE DEF T
  <2> QED
    BY <2>2, <2>3, <2>4, FS_UNION, FS_Subset
<1>3. ASSUME NEW n \in rules
      PROVE  \E r \in Existing : \E c \in Wanted(r.conds) : \E l \in ListenersOf(c) :
               n = NewRule(First, r, First, c, l, PriorityOf(r, c))
  <2>1. PICK r \in Existing : n \in FirstRules(r) /\ n.listener \in ListenersOf(n.cond)
    BY <1>1
  <2>2. PICK c \in Wanted(r.conds), l \in Listeners : n = NewRule(First, r, First, c, l, PriorityOf(r, c))
    BY <2>1 DEF FirstRules, PriorityOf
  <2>3. n.cond = c /\ n.listener = l
    BY <2>2 DEF NewRule
  <2> QED
    BY <2>1, <2>2, <2>3
<1>4. ASSUME NEW r \in Existing, NEW c \in Wanted(r.conds), NEW l \in ListenersOf(c)
      PROVE  NewRule(First, r, First, c, l, PriorityOf(r, c)) \in rules
  <2> DEFINE n == NewRule(First, r, First, c, l, PriorityOf(r, c))
  <2>1. c \in Condition
    BY RequestFields, RulesConstants
  <2>2. l \in Listeners
    BY <2>1, ListenersAre
  <2>3. NewRule(First, r, First, c, l, PriorityOf(r, c)) \in
          {NewRule(First, r, First, b, m, PriorityOf(r, b)) : b \in Wanted(r.conds), m \in Listeners}
    BY <2>2
  <2>4. n \in FirstRules(r)
    BY <2>3 DEF FirstRules, PriorityOf
  <2>5. n.cond = c /\ n.listener = l
    BY DEF NewRule
  <2> QED
    BY <1>1, <2>4, <2>5
<1> QED
  BY <1>2, <1>3, <1>4

LEMMA InitLast ==
  ASSUME Init, NEW s \in Services
  PROVE  /\ last[s] = None => group[s] = None /\ ecs[s] = None
         /\ last[s] # None =>
              /\ group[s] = First /\ ecs[s] = First
              /\ \E r \in Existing : r.service = s /\ last[s].lb = r.lb /\ last[s].conds = r.conds
         /\ last[s] \in Deployment \cup {None}
<1>1. CASE s \in Deployed
  <2>1. PICK r \in Existing : r.service = s
    BY <1>1 DEF Deployed
  <2>2. FirstRequest(s) = r
    BY <2>1, RulesConstants DEF FirstRequest
  <2>3. last[s] = [lb |-> r.lb, conds |-> r.conds, ok |-> TRUE] /\ group[s] = First /\ ecs[s] = First
    BY <1>1, <2>2 DEF Init
  <2>4. last[s] \in Deployment
    BY <2>3, RequestFields, RulesConstants DEF Deployment
  <2>5. last[s] # None
    BY <2>4, RulesConstants
  <2> QED
    BY <2>1, <2>3, <2>4, <2>5
<1>2. CASE s \notin Deployed
  BY <1>2 DEF Init
<1> QED
  BY <1>1, <1>2

LEMMA InitShape == Init => Shape
<1> SUFFICES ASSUME Init PROVE Shape
  OBVIOUS
<1>1. ASSUME NEW n \in rules
      PROVE  n \in Rule /\ RuleOK(n) /\ n.by = First /\ n.group \in {First, None}
  <2>1. PICK r \in Existing : \E c \in Wanted(r.conds) : \E l \in ListenersOf(c) :
          n = NewRule(First, r, First, c, l, PriorityOf(r, c))
    BY InitRules
  <2>2. PICK c \in Wanted(r.conds) : \E l \in ListenersOf(c) :
          n = NewRule(First, r, First, c, l, PriorityOf(r, c))
    BY <2>1
  <2>3. PICK l \in ListenersOf(c) : n = NewRule(First, r, First, c, l, PriorityOf(r, c))
    BY <2>2
  <2>4. r \in Requests /\ c \in Condition /\ First \in Group
    BY RequestFields, RulesConstants DEF Group
  <2> QED
    BY <2>3, <2>4, PriorityOfIs, NewRuleIs
<1>2. /\ group \in [Services -> Group \cup {None}] /\ ecs \in [Services -> Group \cup {None}]
      /\ \A s \in Services : group[s] \in {First, None}
  BY DEF Init, Group
<1>3. last \in [Services -> Deployment \cup {None}]
  <2>1. last = [s \in Services |-> last[s]]
    BY DEF Init
  <2> QED
    BY <2>1, InitLast
<1>4. op = [d \in Deploys |-> Idle] /\ intact = Services /\ faults = 0
  BY DEF Init
<1>5. Running = {}
  BY <1>4, IdleOp DEF Running
<1>6. TypeOK
  BY <1>1, <1>2, <1>3, <1>4, <1>5, IdleOp DEF TypeOK
<1>7. ASSUME NEW d \in Deploys
      PROVE  OpOK(op[d]) /\ DeletesOwn(op[d]) /\ NotYet(d) /\ Numbered(d)
  <2>1. op[d] = Idle
    BY <1>4
  <2>2. OpOK(op[d]) /\ DeletesOwn(op[d]) /\ Numbered(d)
    BY <2>1, IdleOp DEF Numbered
  <2>3. NotYet(d)
    BY <1>1, <1>2, <1>4, IdleOp, Names DEF NotYet
  <2> QED
    BY <2>2, <2>3
<1> QED
  BY <1>1, <1>6, <1>7, InitRules DEF Shape

LEMMA NextShape == Shape /\ [Next]_vars => Shape'
<1> SUFFICES ASSUME Shape, [Next]_vars PROVE Shape'
  OBVIOUS
<1>1. CASE UNCHANGED vars
  BY <1>1 DEF Shape, TypeOK, NotYet, Numbered, Running, Priority, vars
<1>2. ASSUME NEW d \in Deploys, Deploy(d) PROVE Shape'
  <2>1. CASE Rules(d)
    BY <2>1, GetRulesShape, DeleteRuleShape, GetHighestRuleShape, NextConditionShape, CreateRuleShape,
       ConditionDoneShape, RulesDoneShape DEF Rules
  <2> QED
    BY <1>2, <2>1, BeginShape, ServiceExistsShape, GetTargetGroupArnShape, DeleteTargetGroupShape,
       CreateTargetGroupShape, ServiceCallsShape, NewDeploymentShape DEF Deploy
<1>3. ASSUME NEW d \in Deploys, Faulty(d) PROVE Shape'
  BY <1>3, GetRulesFailsShape, DeleteRuleShape, CreateRuleLostShape, CallFailsShape, CrashShape DEF Faulty
<1> QED
  BY <1>1, <1>2, <1>3 DEF Next


-----------------------------------------------------------------------------
(* What a step leaves to the other services                                *)

SameService(t) ==
  /\ group'[t] = group[t] /\ ecs'[t] = ecs[t] /\ last'[t] = last[t]
  /\ t \in intact' <=> t \in intact
  /\ RunningFor(t)' = RunningFor(t)
  /\ group[t] # None => \A lb : Has(t, lb)' = Has(t, lb)

LEMMA IntactKept ==
  ASSUME NEW t \in Services, SameService(t), Intact(t)
  PROVE  Intact(t)'
<1>1. CASE last[t] = None
  BY <1>1 DEF Intact, SameService
<1>2. CASE last[t] # None
  <2>1. /\ group[t] # None /\ ecs[t] = group[t]
        /\ Pairs(Has(t, last[t].lb)) = Serving(last[t].conds) /\ Ordered(Has(t, last[t].lb))
    BY <1>2 DEF Intact, AsDeployed
  <2>2. group'[t] = group[t] /\ ecs'[t] = ecs[t] /\ last'[t] = last[t]
        /\ Has(t, last[t].lb)' = Has(t, last[t].lb)
    BY <2>1 DEF SameService
  <2> QED
    BY <1>2, <2>1, <2>2 DEF Intact, AsDeployed, Pairs, Ordered
<1> QED
  BY <1>1, <1>2

LEMMA UndisturbedKept ==
  ASSUME NEW e \in Deploys, NEW s \in Services, s = Of(e), op'[e] = op[e], SameService(s),
         Undisturbed(e)
  PROVE  Undisturbed(e)'
<1>5. PICK lb : lb = Lb(e)
  OBVIOUS
<1>1. Of(e) = s /\ Of(e)' = s /\ Lb(e) = lb /\ Lb(e)' = lb
  BY <1>5 DEF Of, Lb
<1>2. /\ group'[s] = group[s] /\ ecs'[s] = ecs[s] /\ last'[s] = last[s]
      /\ s \in intact' <=> s \in intact
      /\ RunningFor(s)' = RunningFor(s)
      /\ group[s] # None => Has(s, lb)' = Has(s, lb)
  BY DEF SameService
<1>4. Intact(s) => Intact(s)'
  BY IntactKept
<1>3. ASSUME Recreated(e) PROVE Recreated(e)'
  <2>1. DonePairs(e)' = DonePairs(e)
    BY DEF DonePairs
  <2>2. ASSUME group[s] # None
        PROVE  /\ Pairs(Has(s, lb))' = Pairs(Has(s, lb))
               /\ Ordered(Has(s, lb))' <=> Ordered(Has(s, lb))
    BY <1>2, <2>2 DEF Pairs, Ordered
  <2>3. op[e].pc \in {"delete", "highest", "create", "deleteservice", "createservice", "update", "row"}
          => group[s] # None
    BY <1>1, <1>3 DEF Recreated
  <2>4. CASE group[s] = None
    BY <1>1, <1>2, <1>3, <1>4, <2>3, <2>4 DEF Recreated
  <2>5. CASE group[s] # None
    BY <1>1, <1>2, <1>3, <1>4, <2>1, <2>2, <2>5 DEF Recreated
  <2> QED
    BY <2>4, <2>5
<1>6. Updates(e) => Updates(e)'
  BY <1>1, <1>2, <1>4 DEF Updates
<1> QED
  BY <1>1, <1>2, <1>3, <1>6 DEF Undisturbed

\* A step of a request is about its own service, but that it may delete redirects of
\* others.
OwnService(d) ==
  /\ d \in Running /\ \A e \in Deploys \ {d} : op'[e] = op[e]
  /\ op'[d].pc # "idle" /\ (op'[d].pc # "over" => op'[d].req = op[d].req)
  /\ \A t \in Services \ {Of(d)} : /\ group'[t] = group[t] /\ ecs'[t] = ecs[t] /\ last'[t] = last[t]
                                   /\ t \in intact' <=> t \in intact
  /\ \A r \in rules' \ rules : r.service = Of(d)
  /\ \A r \in rules \ rules' : r.service = Of(d) \/ r.group = None

LEMMA RunningThen ==
  ASSUME NEW d \in Deploys, OwnService(d), NEW s, s = Of(d)
  PROVE  /\ \A t \in Services \ {s} : RunningFor(t)' = RunningFor(t)
         /\ op'[d].pc # "over" => /\ Of(d)' = s /\ Lb(d)' = Lb(d)
                                  /\ RunningFor(s)' = RunningFor(s) /\ d \in RunningFor(s)
<1>1. ASSUME NEW e \in Deploys \ {d}
      PROVE  (e \in Running' <=> e \in Running) /\ Of(e)' = Of(e)
  BY DEF OwnService, Running, Of
<1>2. d \in Running /\ (d \in Running' <=> op'[d].pc # "over")
  BY DEF OwnService, Running
<1>3. op'[d].pc # "over" => Of(d)' = Of(d) /\ Lb(d)' = Lb(d)
  BY DEF OwnService, Of, Lb
<1>4. \A t : RunningFor(t) = {e \in Running : Of(e) = t}
             /\ RunningFor(t)' = {e \in Running' : Of(e)' = t}
  BY DEF RunningFor
<1>5. Running \subseteq Deploys /\ Running' \subseteq Deploys
  BY DEF Running
<1>6. \A t \in Services \ {s} : RunningFor(t)' = RunningFor(t)
  BY <1>1, <1>2, <1>3, <1>4, <1>5
<1>7. op'[d].pc # "over" => RunningFor(s)' = RunningFor(s) /\ d \in RunningFor(s)
  <2> SUFFICES ASSUME op'[d].pc # "over"
               PROVE  {e \in Running' : Of(e)' = s} = {e \in Running : Of(e) = s} /\ d \in RunningFor(s)
    BY <1>3, <1>4
  <2> QED
    BY <1>1, <1>2, <1>3, <1>4, <1>5
<1> QED
  BY <1>3, <1>6, <1>7

LEMMA ServiceStep ==
  ASSUME Shape, Shape', Service, NEW d \in Deploys, OwnService(d), NEW s \in Services, s = Of(d),
         op'[d].pc # "over" /\ op'[d].clean => Undisturbed(d)',
         op'[d].pc = "over" /\ s \in intact' => Intact(s)'
  PROVE  Service'
<1>1. d \in Running
  BY DEF OwnService
<1>2. ASSUME NEW t \in Services, t # s PROVE SameService(t)
  <2>1. group[t] # None => \A lb : Has(t, lb)' = Has(t, lb)
    <3> SUFFICES ASSUME group[t] # None, NEW lb PROVE Has(t, lb)' = Has(t, lb)
      OBVIOUS
    <3>1. group'[t] = group[t]
      BY <1>2 DEF OwnService
    <3>2. \A r : r.service = t /\ r.group = group[t] => (r \in rules' <=> r \in rules)
      BY <1>2 DEF OwnService
    <3> QED
      BY <3>1, <3>2 DEF Has
  <2> QED
    BY <1>2, <2>1, RunningThen DEF SameService, OwnService
<1>3. ASSUME NEW t \in intact', RunningFor(t)' = {} PROVE Intact(t)'
  <2>1. CASE t = s
    <3>1. op'[d].pc = "over"
      BY <1>3, <2>1, RunningThen
    <3> QED
      BY <1>3, <2>1, <3>1
  <2>2. CASE t # s
    <3>1. t \in Services
      BY <1>1, <2>2 DEF OwnService, Shape, TypeOK
    <3>2. t \in intact /\ RunningFor(t) = {}
      BY <1>2, <1>3, <2>2, <3>1 DEF SameService
    <3> QED
      BY <1>2, <2>2, <3>1, <3>2, IntactKept DEF Service
  <2> QED
    BY <2>1, <2>2
<1>4. ASSUME NEW e \in Running', op'[e].clean PROVE Undisturbed(e)'
  <2>1. CASE e = d
    BY <1>4, <2>1 DEF Running
  <2>2. CASE e # d
    <3>1. op'[e] = op[e] /\ e \in Deploys /\ e \in Running
      BY <1>4, <2>2 DEF OwnService, Running
    <3>2. Undisturbed(e) /\ Of(e) \in Services
      BY <1>4, <3>1, RunningOp DEF Service, Running
    <3>3. PICK t \in Services : t = Of(e)
      BY <3>2
    <3>4. t # s
      BY <1>1, <2>2, <3>2, <3>3 DEF Undisturbed, RunningFor
    <3>5. SameService(t)
      BY <1>2, <3>4
    <3> QED
      BY <3>1, <3>2, <3>3, <3>5, UndisturbedKept
  <2> QED
    BY <2>1, <2>2
<1> QED
  BY <1>3, <1>4 DEF Service

-----------------------------------------------------------------------------
(* Steps that fail, and steps that go on                                   *)

\* After a step that something has disturbed the request says nothing of its service.
LEMMA DisturbedStep ==
  ASSUME Shape, Shape', Service, NEW d \in Deploys, OwnService(d), ~op'[d].clean,
         op'[d].pc = "over" => Of(d) \notin intact'
  PROVE  Service'
<1>1. PICK s \in Services : s = Of(d)
  BY RunningOp DEF OwnService, Running
<1> QED
  BY <1>1, ServiceStep

LEMMA FailsService ==
  ASSUME Shape, Shape', Service, NEW d \in Deploys, op[d].pc \notin {"idle", "over"}, Fails(d),
         UNCHANGED <<group, ecs>>, rules \subseteq rules', \A r \in rules' \ rules : r.service = Of(d)
  PROVE  Service'
<1>1. /\ op'[d].pc \in {"over", "row"} /\ op'[d].clean = FALSE /\ (op'[d].pc = "row" => op'[d].req = op[d].req)
      /\ op[d].mode = "create" <=> op'[d].pc = "over"
      /\ \A e \in Deploys \ {d} : op'[e] = op[e]
  BY FailedOp, Moves DEF Fails
<1>2. d \in Running
  BY RunningOp
<1>3. UNCHANGED last /\ intact' \in {intact, intact \ {Of(d)}} /\ (op[d].mode = "create" => Of(d) \notin intact')
  BY DEF Fails
<1>4. OwnService(d)
  BY <1>1, <1>2, <1>3 DEF OwnService
<1> QED
  BY <1>1, <1>3, <1>4, DisturbedStep

\* A step with which the request goes on.
GoesOn(d, o) ==
  /\ To(d, o) /\ op[d].pc \notin {"idle", "over"} /\ o.pc \notin {"idle", "over"}
  /\ o.req = op[d].req /\ o.ddLast = op[d].ddLast
  /\ UNCHANGED <<last, intact>>
  /\ \A t \in Services \ {Of(d)} : group'[t] = group[t] /\ ecs'[t] = ecs[t]
  /\ \A r \in rules' \ rules : r.service = Of(d)
  /\ \A r \in rules \ rules' : r.service = Of(d) \/ r.group = None

LEMMA GoesOnOwn ==
  ASSUME Shape, NEW d \in Deploys, NEW o, GoesOn(d, o)
  PROVE  OwnService(d) /\ op'[d] = o /\ op'[d].pc # "over"
<1>1. op'[d] = o /\ (\A e \in Deploys \ {d} : op'[e] = op[e]) /\ d \in Running
  BY Moves, RunningOp DEF GoesOn
<1> QED
  BY <1>1 DEF GoesOn, OwnService

LEMMA UncleanStep ==
  ASSUME Shape, Shape', Service, NEW d \in Deploys, NEW o, GoesOn(d, o), o.clean = FALSE
  PROVE  Service'
  BY GoesOnOwn, DisturbedStep

LEMMA CleanStep ==
  ASSUME Shape, Shape', Service, NEW d \in Deploys, NEW o, GoesOn(d, o), o.clean = op[d].clean,
         op[d].clean /\ Undisturbed(d) =>
           /\ o.mode = "update" => Updates(d)'
           /\ o.mode \in {"change", "move"} \/ (o.mode = "create" /\ Of(d) \in intact) => Recreated(d)'
  PROVE  Service'
<1>1. OwnService(d) /\ op'[d] = o /\ op'[d].pc # "over"
  BY GoesOnOwn
<1>2. PICK s \in Services : s = Of(d)
  BY RunningOp DEF GoesOn
<1>3. Of(d)' = s /\ RunningFor(s)' = RunningFor(s)
  BY <1>1, <1>2, RunningThen
<1>4. ASSUME op'[d].clean PROVE Undisturbed(d)'
  <2>1. op[d].clean /\ Undisturbed(d)
    BY <1>1, <1>4 DEF Service, OwnService
  <2>2. RunningFor(s)' = {d} /\ op'[d].ddLast = last'[s]
    BY <1>1, <1>2, <1>3, <2>1 DEF Undisturbed, GoesOn
  <2>3. intact' = intact
    BY DEF GoesOn
  <2> QED
    BY <1>1, <1>2, <1>3, <2>1, <2>2, <2>3 DEF Undisturbed
<1> QED
  BY <1>1, <1>2, <1>4, ServiceStep

\* What does not change when the rules and the target groups do not.
LEMMA SameRules ==
  ASSUME UNCHANGED <<rules, group>>, NEW s, NEW lb
  PROVE  /\ Has(s, lb)' = Has(s, lb) /\ Pairs(Has(s, lb))' = Pairs(Has(s, lb))
         /\ Ordered(Has(s, lb))' <=> Ordered(Has(s, lb))
  BY DEF Has, Pairs, Ordered

LEMMA SameIntact ==
  ASSUME UNCHANGED <<rules, group, ecs, last>>, NEW s
  PROVE  Intact(s)' <=> Intact(s)
<1>1. UNCHANGED <<rules, group>> /\ last' = last /\ ecs' = ecs
  OBVIOUS
<1>2. /\ Pairs(Has(s, last[s].lb))' = Pairs(Has(s, last[s].lb))
      /\ Ordered(Has(s, last[s].lb))' <=> Ordered(Has(s, last[s].lb))
  BY <1>1 DEF Has, Pairs, Ordered
<1> QED
  BY <1>1, <1>2 DEF Intact, AsDeployed

\* The services a request may find itself with.
LEMMA OfLb ==
  ASSUME Shape, NEW d \in Deploys, op[d].pc \notin {"idle", "over"}
  PROVE  \E s \in Services, lb \in LoadBalancers : s = Of(d) /\ lb = Lb(d)
  BY RunningOp

-----------------------------------------------------------------------------
(* Each action keeps what is said of the services                          *)

LEMMA ServiceExistsService ==
  ASSUME Shape, Shape', Service, NEW d \in Deploys, ServiceExists(d)
  PROVE  Service'
<1>1. /\ op[d].pc = "exists" /\ UNCHANGED <<rules, group, ecs, last, intact>>
      /\ op[d] \in Op /\ op[d].mode = "update"
  BY RunningOp DEF ServiceExists, AWSOnly, OpOK
<1>2. PICK s \in Services, lb \in LoadBalancers : s = Of(d) /\ lb = Lb(d)
  BY <1>1, OfLb
<1>3. PICK o :
        /\ To(d, o)
        /\ \/ ecs[s] = None /\ o = [op[d] EXCEPT !.pc = "creategroup", !.mode = "create"]
           \/ ecs[s] # None /\ op[d].ddLast = None /\ o = [op[d] EXCEPT !.pc = "update"]
           \/ ecs[s] # None /\ op[d].ddLast # None /\ o = [op[d] EXCEPT !.pc = "group"]
  BY <1>2 DEF ServiceExists, Goes
<1>4. /\ o.req = op[d].req /\ o.ddLast = op[d].ddLast /\ o.clean = op[d].clean
      /\ \/ ecs[s] = None /\ o.pc = "creategroup" /\ o.mode = "create"
         \/ ecs[s] # None /\ op[d].ddLast = None /\ o.pc = "update" /\ o.mode = "update"
         \/ ecs[s] # None /\ op[d].ddLast # None /\ o.pc = "group" /\ o.mode = "update"
  BY <1>1, <1>3 DEF Op
<1>5. GoesOn(d, o)
  BY <1>1, <1>3, <1>4 DEF GoesOn
<1>6. op'[d] = o /\ Of(d)' = s /\ Lb(d)' = lb
  BY <1>2, <1>4, <1>5, GoesOnOwn DEF Of, Lb
<1>7. Intact(s)' <=> Intact(s)
  BY <1>1, SameIntact
<1>8. ASSUME op[d].clean /\ Undisturbed(d)
      PROVE  /\ o.mode = "update" => Updates(d)'
             /\ o.mode = "create" /\ s \in intact => Recreated(d)'
  <2>1. op[d].ddLast = last[s] /\ (s \in intact => Intact(s))
    BY <1>1, <1>2, <1>8 DEF Undisturbed, Updates
  <2>2. o.mode = "update" => Updates(d)'
    BY <1>1, <1>4, <1>6, <1>7, <2>1 DEF Updates
  <2>3. ecs[s] = None /\ s \in intact => group[s] = None
    BY <2>1 DEF Intact, AsDeployed
  <2>4. o.mode = "create" /\ s \in intact => Recreated(d)'
    BY <1>1, <1>4, <1>6, <2>3 DEF Recreated
  <2> QED
    BY <2>2, <2>4
<1>9. o.mode \in {"update", "create"}
  BY <1>4
<1> QED
  BY <1>2, <1>4, <1>5, <1>8, <1>9, CleanStep

LEMMA GetTargetGroupArnService ==
  ASSUME Shape, Shape', Service, NEW d \in Deploys, GetTargetGroupArn(d)
  PROVE  Service'
<1>1. /\ op[d].pc = "group" /\ UNCHANGED <<rules, group, ecs>>
      /\ op[d] \in Op /\ op[d].ddLast # None
  BY RunningOp DEF GetTargetGroupArn, OpOK
<1>2. CASE Fails(d)
  BY <1>1, <1>2, FailsService
<1>3. CASE ~Fails(d)
  <2>1. PICK s \in Services, lb \in LoadBalancers : s = Of(d) /\ lb = Lb(d)
    BY <1>1, OfLb
  <2>2. group[s] # None /\ UNCHANGED <<last, intact>>
    BY <1>3, <2>1 DEF GetTargetGroupArn, AWSOnly
  <2>3. PICK o :
          /\ To(d, o)
          /\ \/ o = [op[d] EXCEPT !.pc = "rules", !.mode = "move", !.group = group[s]]
             \/ /\ lb = op[d].ddLast.lb
                /\ o = [op[d] EXCEPT !.pc = "rules", !.mode = "change", !.group = group[s]]
             \/ /\ lb = op[d].ddLast.lb /\ op[d].req.conds = op[d].ddLast.conds
                /\ o = [op[d] EXCEPT !.pc = "update"]
    BY <1>3, <2>1 DEF GetTargetGroupArn, Recreates, Goes, LbChanged, SameConditions
  <2>4. /\ o.req = op[d].req /\ o.ddLast = op[d].ddLast /\ o.clean = op[d].clean
        /\ \/ o.pc = "rules" /\ o.mode = "move" /\ o.group = group[s]
           \/ o.pc = "rules" /\ o.mode = "change" /\ o.group = group[s] /\ lb = op[d].ddLast.lb
           \/ /\ lb = op[d].ddLast.lb /\ op[d].req.conds = op[d].ddLast.conds
              /\ o.pc = "update" /\ o.mode = op[d].mode
    BY <1>1, <2>3 DEF Op
  <2>5. op[d].mode = "update"
    BY <1>1, RunningOp DEF OpOK
  <2>6. GoesOn(d, o)
    BY <1>1, <2>2, <2>3, <2>4 DEF GoesOn
  <2>7. op'[d] = o /\ Of(d)' = s /\ Lb(d)' = lb
    BY <2>1, <2>4, <2>6, GoesOnOwn DEF Of, Lb
  <2>8. Intact(s)' <=> Intact(s)
    BY <1>1, <2>2, SameIntact
  <2>9. ASSUME op[d].clean /\ Undisturbed(d)
        PROVE  /\ o.mode = "update" => Updates(d)'
               /\ o.mode \in {"change", "move"} => Recreated(d)'
    <3>1. op[d].ddLast = last[s] /\ (s \in intact => Intact(s))
      BY <1>1, <2>1, <2>5, <2>9 DEF Undisturbed, Updates
    <3>2. s \in intact => ecs[s] = group[s]
      BY <1>1, <3>1 DEF Intact, AsDeployed
    <3>3. o.mode = "update" => Updates(d)'
      BY <1>1, <2>2, <2>4, <2>5, <2>7, <2>8, <3>1 DEF Updates
    <3>4. o.mode \in {"change", "move"} => Recreated(d)'
      BY <1>1, <2>2, <2>4, <2>5, <2>7, <2>8, <3>1, <3>2 DEF Recreated
    <3> QED
      BY <3>3, <3>4
  <2>10. o.mode \in {"update", "change", "move"}
    BY <2>4, <2>5
  <2> QED
    BY <2>1, <2>4, <2>6, <2>9, <2>10, CleanStep
<1> QED
  BY <1>2, <1>3

LEMMA GetRulesService ==
  ASSUME Shape, Shape', Service, NEW d \in Deploys, GetRulesForAllListeners(d)
  PROVE  Service'
<1>1. /\ op[d].pc = "rules" /\ UNCHANGED <<rules, group, ecs, last, intact>>
      /\ op[d] \in Op /\ op[d].mode \in {"change", "move"}
  BY RunningOp DEF GetRulesForAllListeners, AWSOnly, OpOK
<1>2. PICK s \in Services, lb \in LoadBalancers : s = Of(d) /\ lb = Lb(d)
  BY <1>1, OfLb
<1>3. PICK D \in ToDelete(d) : To(d, [op[d] EXCEPT !.pc = "delete", !.del = D])
  BY DEF GetRulesForAllListeners
<1> DEFINE o == [op[d] EXCEPT !.pc = "delete", !.del = D]
<1>4. /\ To(d, o) /\ o.req = op[d].req /\ o.ddLast = op[d].ddLast /\ o.clean = op[d].clean
      /\ o.pc = "delete" /\ o.mode = op[d].mode /\ o.group = op[d].group /\ o.del = D
  BY <1>1, <1>3 DEF Op
<1> HIDE DEF o
<1>5. GoesOn(d, o)
  BY <1>1, <1>4 DEF GoesOn
<1>6. op'[d] = o /\ Of(d)' = s /\ Lb(d)' = lb
  BY <1>2, <1>4, <1>5, GoesOnOwn DEF Of, Lb
<1>7. ASSUME op[d].clean /\ Undisturbed(d) PROVE Recreated(d)'
  <2>1. /\ group[s] = op[d].group /\ group[s] # None
        /\ op[d].mode = "change" => lb = op[d].ddLast.lb /\ (s \in intact => ecs[s] = group[s])
    BY <1>1, <1>2, <1>7 DEF Undisturbed, Recreated
  <2>2. op[d].mode = "change" => Has(s, lb) \subseteq D
    BY <1>1, <1>2, <2>1, Found DEF Has, Mine, OldLb
  <2>3. Has(s, lb)' = Has(s, lb)
    BY <1>1, SameRules
  <2> QED
    BY <1>1, <1>4, <1>6, <2>1, <2>2, <2>3 DEF Recreated
<1> QED
  BY <1>1, <1>4, <1>5, <1>7, CleanStep

LEMMA GetRulesFailsService ==
  ASSUME Shape, Shape', Service, NEW d \in Deploys, GetRulesFails(d)
  PROVE  Service'
<1>1. /\ op[d].pc = "rules" /\ UNCHANGED <<rules, group, ecs, last, intact>> /\ op[d] \in Op
  BY RunningOp DEF GetRulesFails, AWSOnly
<1> DEFINE o == [op[d] EXCEPT !.pc = AfterDelete(d), !.clean = FALSE]
<1>2. To(d, o) /\ AfterDelete(d) \in {"deletegroup", "highest"}
  BY DEF GetRulesFails, AfterDelete
<1>3. o.req = op[d].req /\ o.ddLast = op[d].ddLast /\ o.clean = FALSE /\ o.pc = AfterDelete(d)
  BY <1>1 DEF Op
<1> HIDE DEF o
<1>4. GoesOn(d, o)
  BY <1>1, <1>2, <1>3 DEF GoesOn
<1> QED
  BY <1>3, <1>4, UncleanStep

LEMMA DeleteRuleService ==
  ASSUME Shape, Shape', Service, NEW d \in Deploys, DeleteRule(d)
  PROVE  Service'
<1>1. /\ op[d].pc = "delete" /\ UNCHANGED <<group, ecs, last, intact>>
      /\ op[d] \in Op /\ op[d].mode \in {"change", "move"} /\ DeletesOwn(op[d])
  BY RunningOp DEF DeleteRule, AWSOnly, OpOK
<1>2. PICK s \in Services, lb \in LoadBalancers : s = Of(d) /\ lb = Lb(d)
  BY <1>1, OfLb
<1>3. PICK o :
        /\ To(d, o)
        /\ \/ /\ op[d].del = {} /\ UNCHANGED rules
              /\ o = [op[d] EXCEPT !.pc = AfterDelete(d)]
           \/ \E r \in op[d].del : rules' = rules \ {r} /\ o = [op[d] EXCEPT !.del = @ \ {r}]
  BY DEF DeleteRule, NextToDelete, Goes, Forgets
<1>4. /\ o.req = op[d].req /\ o.ddLast = op[d].ddLast /\ o.clean = op[d].clean
      /\ o.mode = op[d].mode /\ o.group = op[d].group
      /\ \/ op[d].del = {} /\ UNCHANGED rules /\ o.pc = AfterDelete(d)
         \/ \E r \in op[d].del : rules' = rules \ {r} /\ o.del = op[d].del \ {r} /\ o.pc = "delete"
  BY <1>1, <1>3 DEF Op
<1>5. rules' \subseteq rules /\ \A r \in rules \ rules' : r.service = Of(d) \/ r.group = None
  BY <1>1, <1>4 DEF DeletesOwn, Of
<1>6. o.pc \in {"delete", "deletegroup", "highest"} /\ GoesOn(d, o)
  BY <1>1, <1>3, <1>4, <1>5 DEF GoesOn, AfterDelete
<1>7. op'[d] = o /\ Of(d)' = s /\ Lb(d)' = lb
  BY <1>2, <1>4, <1>6, GoesOnOwn DEF Of, Lb
<1>8. ASSUME op[d].clean /\ Undisturbed(d) PROVE Recreated(d)'
  <2>1. /\ group[s] = op[d].group /\ group[s] # None
        /\ op[d].mode = "change" => /\ lb = op[d].ddLast.lb /\ (s \in intact => ecs[s] = group[s])
                                    /\ Has(s, lb) \subseteq op[d].del
    BY <1>1, <1>2, <1>8 DEF Undisturbed, Recreated
  <2>2. CASE op[d].del = {} /\ UNCHANGED rules /\ o.pc = AfterDelete(d)
    <3>1. o.pc = (IF op[d].mode = "move" THEN "deletegroup" ELSE "highest")
      BY <2>2 DEF AfterDelete
    <3>2. Has(s, lb)' = Has(s, lb)
      BY <1>1, <2>2, SameRules
    <3> QED
      BY <1>1, <1>4, <1>7, <2>1, <2>2, <3>1, <3>2 DEF Recreated
  <2>3. ASSUME NEW r \in op[d].del, rules' = rules \ {r}, o.del = op[d].del \ {r}, o.pc = "delete"
        PROVE  Recreated(d)'
    <3>1. Has(s, lb)' = Has(s, lb) \ {r}
      BY <1>1, <2>3 DEF Has
    <3> QED
      BY <1>1, <1>4, <1>7, <2>1, <2>3, <3>1 DEF Recreated
  <2> QED
    BY <1>4, <2>2, <2>3
<1> QED
  BY <1>1, <1>4, <1>6, <1>8, CleanStep

LEMMA DeleteRuleFailsService ==
  ASSUME Shape, Shape', Service, NEW d \in Deploys, DeleteRuleFails(d)
  PROVE  Service'
<1>1. /\ op[d].pc = "delete" /\ UNCHANGED <<rules, group, ecs, last, intact>> /\ op[d] \in Op
  BY RunningOp DEF DeleteRuleFails, AWSOnly
<1>2. PICK r : To(d, [op[d] EXCEPT !.del = @ \ {r}, !.clean = FALSE])
  BY DEF DeleteRuleFails
<1> DEFINE o == [op[d] EXCEPT !.del = @ \ {r}, !.clean = FALSE]
<1>3. To(d, o) /\ o.req = op[d].req /\ o.ddLast = op[d].ddLast /\ o.clean = FALSE /\ o.pc = "delete"
  BY <1>1, <1>2 DEF Op
<1> HIDE DEF o
<1>4. GoesOn(d, o)
  BY <1>1, <1>3 DEF GoesOn
<1> QED
  BY <1>3, <1>4, UncleanStep

LEMMA DeleteTargetGroupService ==
  ASSUME Shape, Shape', Service, NEW d \in Deploys, DeleteTargetGroup(d)
  PROVE  Service'
<1>1. /\ op[d].pc = "deletegroup" /\ UNCHANGED <<rules, ecs>> /\ op[d] \in Op /\ op[d].mode = "move"
  BY RunningOp DEF DeleteTargetGroup, OpOK
<1>2. CASE Fails(d) /\ UNCHANGED group
  BY <1>1, <1>2, FailsService
<1>3. CASE ~(Fails(d) /\ UNCHANGED group)
  <2>1. PICK s \in Services, lb \in LoadBalancers : s = Of(d) /\ lb = Lb(d)
    BY <1>1, OfLb
  <2> DEFINE o == [op[d] EXCEPT !.pc = "creategroup"]
  <2>2. group' = [group EXCEPT ![s] = None] /\ To(d, o) /\ UNCHANGED <<last, intact>>
    BY <1>3, <2>1 DEF DeleteTargetGroup, Goes, AWSOnly
  <2>3. /\ o.req = op[d].req /\ o.ddLast = op[d].ddLast /\ o.clean = op[d].clean
        /\ o.pc = "creategroup" /\ o.mode = "move"
    BY <1>1 DEF Op
  <2> HIDE DEF o
  <2>4. group'[s] = None /\ \A t \in Services \ {s} : group'[t] = group[t]
    BY <2>2 DEF Shape, TypeOK
  <2>5. GoesOn(d, o)
    BY <1>1, <2>1, <2>2, <2>3, <2>4 DEF GoesOn
  <2>6. op'[d] = o /\ Of(d)' = s /\ Lb(d)' = lb
    BY <2>1, <2>3, <2>5, GoesOnOwn DEF Of, Lb
  <2>7. Recreated(d)'
    BY <2>3, <2>4, <2>6 DEF Recreated
  <2> QED
    BY <2>3, <2>5, <2>7, CleanStep
<1> QED
  BY <1>2, <1>3

LEMMA CreateTargetGroupService ==
  ASSUME Shape, Shape', Service, NEW d \in Deploys, CreateTargetGroup(d)
  PROVE  Service'
<1>1. /\ op[d].pc = "creategroup" /\ UNCHANGED <<rules, ecs, last, intact>> /\ op[d] \in Op
      /\ op[d].mode \in {"create", "move"}
  BY RunningOp DEF CreateTargetGroup, AWSOnly, OpOK
<1>2. PICK s \in Services, lb \in LoadBalancers : s = Of(d) /\ lb = Lb(d)
  BY <1>1, OfLb
<1> DEFINE o == [op[d] EXCEPT !.pc = "highest", !.group = group'[Of(d)]]
<1>3. To(d, o)
  BY DEF CreateTargetGroup
<1>4. /\ o.req = op[d].req /\ o.ddLast = op[d].ddLast /\ o.clean = op[d].clean
      /\ o.pc = "highest" /\ o.mode = op[d].mode /\ o.group = group'[s]
  BY <1>1, <1>2 DEF Op
<1> HIDE DEF o
<1>5. /\ group'[s] = IF group[s] = None THEN d ELSE group[s]
      /\ \A t \in Services \ {s} : group'[t] = group[t]
  BY <1>2 DEF CreateTargetGroup, Shape, TypeOK
<1>6. GoesOn(d, o)
  BY <1>1, <1>2, <1>3, <1>4, <1>5 DEF GoesOn
<1>7. op'[d] = o /\ Of(d)' = s /\ Lb(d)' = lb
  BY <1>2, <1>4, <1>6, GoesOnOwn DEF Of, Lb
<1>8. ASSUME Recreated(d) PROVE Recreated(d)'
  <2>1. group[s] = None
    BY <1>1, <1>2, <1>8 DEF Recreated
  <2>2. group'[s] = d /\ d # None
    BY <1>5, <2>1, Names
  <2>3. \A r \in rules : r.group # d
    BY <1>1 DEF Shape, NotYet, Early
  <2>4. Has(s, lb)' = {}
    BY <1>1, <2>2, <2>3 DEF Has
  <2> QED
    BY <1>1, <1>4, <1>7, <2>2, <2>4 DEF Recreated
<1>9. op[d].clean /\ Undisturbed(d) /\ (op[d].mode = "move" \/ (op[d].mode = "create" /\ Of(d) \in intact)) =>
        Recreated(d)'
  BY <1>8 DEF Undisturbed
<1> QED
  BY <1>1, <1>4, <1>6, <1>9, CleanStep

LEMMA GetHighestRuleService ==
  ASSUME Shape, Shape', Service, NEW d \in Deploys, GetHighestRule(d)
  PROVE  Service'
<1>1. /\ op[d].pc = "highest" /\ UNCHANGED <<rules, group, ecs, last, intact>> /\ op[d] \in Op
      /\ op[d].mode # "update" /\ op[d].cond = None
  BY RunningOp DEF GetHighestRule, AWSOnly, OpOK
<1>2. PICK s \in Services, lb \in LoadBalancers : s = Of(d) /\ lb = Lb(d)
  BY <1>1, OfLb
<1> DEFINE o == [op[d] EXCEPT !.pc = "create", !.highest = Highest(Priorities(Lb(d))),
                              !.left = Wanted(op[d].req.conds)]
<1>3. To(d, o)
  BY DEF GetHighestRule
<1>4. /\ o.req = op[d].req /\ o.ddLast = op[d].ddLast /\ o.clean = op[d].clean
      /\ o.pc = "create" /\ o.mode = op[d].mode /\ o.group = op[d].group /\ o.cond = None
      /\ o.left = Wanted(op[d].req.conds)
  BY <1>1 DEF Op
<1> HIDE DEF o
<1>5. GoesOn(d, o)
  BY <1>1, <1>3, <1>4 DEF GoesOn
<1>6. op'[d] = o /\ Of(d)' = s /\ Lb(d)' = lb
  BY <1>2, <1>4, <1>5, GoesOnOwn DEF Of, Lb
<1>7. ASSUME Recreated(d) PROVE Recreated(d)'
  <2>1. /\ group[s] = op[d].group /\ group[s] # None /\ Has(s, lb) = {}
        /\ op[d].mode = "change" => lb = op[d].ddLast.lb /\ (s \in intact => ecs[s] = group[s])
    BY <1>1, <1>2, <1>7 DEF Recreated
  <2>2. Has(s, lb)' = {}
    BY <1>1, <2>1, SameRules
  <2>3. Pairs(Has(s, lb)') = {} /\ Ordered(Has(s, lb)')
    BY <2>2 DEF Pairs, Ordered
  <2>4. DonePairs(d)' = {}
    BY <1>4, <1>6 DEF DonePairs, Serving
  <2> QED
    BY <1>1, <1>4, <1>6, <2>1, <2>2, <2>3, <2>4 DEF Recreated
<1>8. op[d].mode \in {"change", "move", "create"}
  BY <1>1, OpFields
<1>9. op[d].clean /\ Undisturbed(d) /\ (op[d].mode # "create" \/ Of(d) \in intact) => Recreated(d)'
  BY <1>7, <1>8 DEF Undisturbed
<1> QED
  BY <1>1, <1>4, <1>5, <1>8, <1>9, CleanStep

\* What a request that creates rules knows.
LEMMA Creating ==
  ASSUME Shape, NEW d \in Deploys, op[d].pc = "create", Recreated(d),
         NEW s \in Services, NEW lb \in LoadBalancers, s = Of(d), lb = Lb(d)
  PROVE  /\ group[s] = op[d].group /\ group[s] # None
         /\ op[d].mode = "change" => lb = op[d].ddLast.lb /\ (s \in intact => ecs[s] = group[s])
         /\ Pairs(Has(s, lb)) = DonePairs(d) /\ Ordered(Has(s, lb))
         /\ \A r \in Has(s, lb) : r.by = d
         /\ \A r \in Has(s, lb), c \in op[d].left : ~Before(c, r.cond)
         /\ op[d].cond # None => /\ \A c \in op[d].left : ~Before(c, op[d].cond)
                                 /\ \A r \in Has(s, lb) : ~Before(op[d].cond, r.cond)
  BY DEF Recreated

LEMMA CreateMode ==
  ASSUME Shape, NEW d \in Deploys, op[d].pc = "create"
  PROVE  /\ op[d] \in Op /\ op[d].mode \in {"change", "move", "create"}
         /\ op[d].left \subseteq Wanted(op[d].req.conds) /\ op[d].left \subseteq Condition
         /\ op[d].clean /\ Undisturbed(d) /\ (op[d].mode # "create" \/ Of(d) \in intact) => Recreated(d)
<1>1. op[d] \in Op /\ OpOK(op[d])
  BY RunningOp
<1>2. op[d].mode \in {"change", "move", "create"}
  BY <1>1, OpFields DEF OpOK
<1> QED
  BY <1>1, <1>2, OpFields DEF OpOK, Undisturbed

LEMMA NextConditionService ==
  ASSUME Shape, Shape', Service, NEW d \in Deploys, NextCondition(d)
  PROVE  Service'
<1>1. /\ op[d].pc = "create" /\ op[d].cond = None /\ UNCHANGED <<rules, group, ecs, last, intact>>
  BY DEF NextCondition, AWSOnly
<1>2. PICK s \in Services, lb \in LoadBalancers : s = Of(d) /\ lb = Lb(d)
  BY <1>1, OfLb
<1>3. PICK c \in Sorted(d) : To(d, [op[d] EXCEPT !.cond = c, !.left = @ \ {c}, !.on = ListenersOf(c)])
  BY DEF NextCondition
<1>4. c \in op[d].left /\ (\A b \in op[d].left : ~Before(b, c)) /\ c # None
      /\ op[d].left \subseteq Wanted(op[d].req.conds) /\ None \notin Wanted(op[d].req.conds)
  BY <1>1, CreateMode, RunningOp, Names DEF Sorted
<1> DEFINE o == [op[d] EXCEPT !.cond = c, !.left = @ \ {c}, !.on = ListenersOf(c)]
<1>5. /\ To(d, o) /\ o.req = op[d].req /\ o.ddLast = op[d].ddLast /\ o.clean = op[d].clean
      /\ o.pc = "create" /\ o.mode = op[d].mode /\ o.group = op[d].group /\ o.cond = c
      /\ o.left = op[d].left \ {c} /\ o.on = ListenersOf(c)
  BY <1>1, <1>3, CreateMode DEF Op
<1> HIDE DEF o
<1>6. GoesOn(d, o)
  BY <1>1, <1>5 DEF GoesOn
<1>7. op'[d] = o /\ Of(d)' = s /\ Lb(d)' = lb
  BY <1>2, <1>5, <1>6, GoesOnOwn DEF Of, Lb
<1>8. ASSUME Recreated(d) PROVE Recreated(d)'
  <2> DEFINE C == op[d].req.conds
  <2>1. /\ Has(s, lb)' = Has(s, lb) /\ Pairs(Has(s, lb))' = Pairs(Has(s, lb))
        /\ Ordered(Has(s, lb))' <=> Ordered(Has(s, lb))
    BY <1>1, SameRules
  <2>2. \A x \in Serving(C) : x[1] \in Wanted(C) /\ x[2] \in ListenersOf(x[1])
    BY DEF Serving
  <2>3. DonePairs(d) = {x \in Serving(C) : x[1] \notin op[d].left}
    <3>1. DonePairs(d) = {x \in Serving(C) : x[1] \notin op[d].left /\ (x[1] = None => x[2] \notin op[d].on)}
      BY <1>1 DEF DonePairs
    <3> QED
      BY <1>4, <2>2, <3>1
  <2>4. DonePairs(d)' = {x \in Serving(C) : x[1] \notin op[d].left}
    <3>1. DonePairs(d)' = {x \in Serving(C) :
                             x[1] \notin op[d].left \ {c} /\ (x[1] = c => x[2] \notin ListenersOf(c))}
      BY <1>5, <1>7 DEF DonePairs
    <3> QED
      BY <1>4, <2>2, <3>1
  <2>5. \A r \in Has(s, lb) : ~Before(c, r.cond)
    BY <1>1, <1>2, <1>4, <1>8, Creating
  <2> QED
    BY <1>1, <1>2, <1>4, <1>5, <1>7, <1>8, <2>1, <2>3, <2>4, <2>5, Creating DEF Recreated
<1> QED
  BY <1>1, <1>5, <1>6, <1>8, CreateMode, CleanStep

\* No condition comes before itself.
LEMMA NotBeforeItself ==
  ASSUME NEW c \in Condition
  PROVE  ~Before(c, c)
<1>1. CASE c \in Conditions
  <2>1. Length[c] \in Nat
    BY <1>1, RulesConstants
  <2> QED
    BY <1>1, <2>1 DEF Before
<1>2. CASE c \notin Conditions
  BY <1>2 DEF Before
<1> QED
  BY <1>1, <1>2

LEMMA CreateRuleService ==
  ASSUME Shape, Shape', Service, NEW d \in Deploys, CreateRule(d)
  PROVE  Service'
<1>1. op[d].pc = "create" /\ op[d].cond # None /\ UNCHANGED <<group, ecs>>
  BY DEF CreateRule
<1>2. PICK l \in op[d].on :
       IF Taken(d, l)
       THEN Fails(d) /\ UNCHANGED rules
       ELSE rules' = Created(d, l) /\ To(d, [op[d] EXCEPT !.on = @ \ {l}]) /\ AWSOnly
  BY DEF CreateRule
<1>3. CASE Taken(d, l)
  BY <1>1, <1>2, <1>3, FailsService
<1>4. CASE ~Taken(d, l)
  <2>1. PICK s \in Services, lb \in LoadBalancers : s = Of(d) /\ lb = Lb(d)
    BY <1>1, OfLb
  <2>2. PICK c, L, n : /\ c = op[d].cond /\ L = op[d].on
                       /\ n = NewRule(d, op[d].req, op[d].group, op[d].cond, l, Priority(d))
    OBVIOUS
  <2> DEFINE o == [op[d] EXCEPT !.on = @ \ {l}]
  <2>3. /\ To(d, o) /\ o.req = op[d].req /\ o.ddLast = op[d].ddLast /\ o.clean = op[d].clean
        /\ o.pc = "create" /\ o.mode = op[d].mode /\ o.group = op[d].group /\ o.cond = c
        /\ o.left = op[d].left /\ o.on = L \ {l}
    BY <1>1, <1>2, <1>4, <2>2, CreateMode DEF Op
  <2> HIDE DEF o
  <2>4. /\ rules' = rules \cup {n} /\ n.by = d /\ n.cond = c /\ n.service = s /\ n.lb = lb
        /\ n.listener = l /\ n.priority = Priority(d) /\ Priority(d) \in Nat
        /\ n.group = IF KindOn(c, l) = "redirect" THEN None ELSE op[d].group
    BY <1>1, <1>2, <1>4, <2>1, <2>2, CreatedIs
  <2>5. GoesOn(d, o)
    BY <1>1, <1>2, <1>4, <2>1, <2>3, <2>4 DEF GoesOn, AWSOnly
  <2>6. op'[d] = o /\ Of(d)' = s /\ Lb(d)' = lb /\ intact' = intact
    BY <2>1, <2>3, <2>5, GoesOnOwn DEF Of, Lb, GoesOn
  <2>7. /\ c \in Wanted(op[d].req.conds) /\ c \notin op[d].left /\ L \subseteq ListenersOf(c)
        /\ c \in Condition /\ L \subseteq Listeners
    BY <1>1, <2>2, RunningOp, OpFields DEF OpOK
  <2>8. ASSUME Recreated(d) PROVE Recreated(d)'
    <3>1. /\ group[s] = op[d].group /\ group[s] # None
          /\ op[d].mode = "change" => lb = op[d].ddLast.lb /\ (s \in intact => ecs[s] = group[s])
          /\ Pairs(Has(s, lb)) = DonePairs(d) /\ Ordered(Has(s, lb))
          /\ \A r \in Has(s, lb) : r.by = d
          /\ \A r \in Has(s, lb), b \in op[d].left : ~Before(b, r.cond)
          /\ \A b \in op[d].left : ~Before(b, c)
          /\ \A r \in Has(s, lb) : ~Before(c, r.cond)
      BY <1>1, <2>1, <2>2, <2>8, Creating
    <3> DEFINE C == op[d].req.conds
    <3>2. /\ \A x \in Serving(C) : /\ x = <<x[1], x[2]>> /\ x[1] \in Wanted(C) /\ x[2] \in ListenersOf(x[1])
                                   /\ KindOn(x[1], x[2]) # "redirect"
          /\ KindOn(c, l) # "redirect" => <<c, l>> \in Serving(C)
      <4>1. \A x \in Serving(C) : /\ x = <<x[1], x[2]>> /\ x[1] \in Wanted(C) /\ x[2] \in ListenersOf(x[1])
                                  /\ KindOn(x[1], x[2]) # "redirect"
        BY DEF Serving
      <4>2. ASSUME KindOn(c, l) # "redirect" PROVE <<c, l>> \in Serving(C)
        <5>1. <<c, l>> \in Wanted(C) \X Listeners /\ <<c, l>>[1] = c /\ <<c, l>>[2] = l /\ l \in ListenersOf(c)
          BY <1>2, <2>2, <2>7
        <5> QED
          BY <4>2, <5>1 DEF Serving
      <4> QED
        BY <4>1, <4>2
    <3>3. /\ DonePairs(d) = {x \in Serving(C) : x[1] \notin op[d].left /\ (x[1] = c => x[2] \notin L)}
          /\ DonePairs(d)' = {x \in Serving(C) : x[1] \notin op[d].left /\ (x[1] = c => x[2] \notin L \ {l})}
      BY <2>2, <2>3, <2>6 DEF DonePairs
    <3>4. CASE KindOn(c, l) = "redirect"
      <4>1. Has(s, lb)' = Has(s, lb)
        BY <1>1, <2>4, <3>1, <3>4 DEF Has
      <4>2. DonePairs(d)' = DonePairs(d)
        BY <3>2, <3>3, <3>4
      <4>3. Pairs(Has(s, lb)') = DonePairs(d)' /\ Ordered(Has(s, lb)')
        BY <3>1, <4>1, <4>2
      <4> QED
        BY <1>1, <2>3, <2>6, <3>1, <4>1, <4>3 DEF Recreated
    <3>5. CASE KindOn(c, l) # "redirect"
      <4>1. Has(s, lb)' = Has(s, lb) \cup {n}
        BY <1>1, <2>4, <3>1, <3>5 DEF Has
      <4>2. DonePairs(d)' = DonePairs(d) \cup {<<c, l>>}
        <5>1. \A x \in Serving(C) : x[1] = c /\ x[2] = l => x = <<c, l>>
          BY <3>2
        <5>2. <<c, l>>[1] = c /\ <<c, l>>[2] = l
          OBVIOUS
        <5> QED
          BY <2>7, <3>2, <3>3, <3>5, <5>1, <5>2
      <4>3. Pairs(Has(s, lb)') = DonePairs(d)'
        BY <2>4, <3>1, <4>1, <4>2 DEF Pairs
      <4>4. Ordered(Has(s, lb)')
        <5>1. ~Before(c, c)
          BY <2>7, NotBeforeItself
        <5>2. \A q \in Has(s, lb) : Before(q.cond, c) => q.priority < n.priority
          <6>1. \A q \in Has(s, lb) : q \in rules /\ q.by = d
            BY <3>1 DEF Has
          <6>2. Numbered(d)
            BY DEF Shape
          <6> QED
            BY <1>1, <2>2, <2>4, <5>1, <6>1, <6>2 DEF Numbered
        <5> QED
          BY <2>4, <3>1, <4>1, <5>1, <5>2 DEF Ordered
      <4>5. /\ \A r \in Has(s, lb)' : r.by = d /\ ~Before(c, r.cond)
            /\ \A r \in Has(s, lb)', b \in op[d].left : ~Before(b, r.cond)
        BY <2>4, <2>7, <3>1, <4>1, NotBeforeItself
      <4> QED
        BY <1>1, <2>3, <2>6, <3>1, <4>3, <4>4, <4>5 DEF Recreated
    <3> QED
      BY <3>4, <3>5
  <2> QED
    BY <1>1, <2>3, <2>5, <2>8, CreateMode, CleanStep
<1> QED
  BY <1>3, <1>4

LEMMA CreateRuleLostService ==
  ASSUME Shape, Shape', Service, NEW d \in Deploys, CreateRuleLost(d)
  PROVE  Service'
<1>1. /\ op[d].pc = "create" /\ op[d].cond # None /\ UNCHANGED <<group, ecs>> /\ Fails(d)
  BY DEF CreateRuleLost
<1>2. PICK l \in op[d].on : rules' = Created(d, l)
  BY DEF CreateRuleLost
<1>3. rules \subseteq rules' /\ \A r \in rules' \ rules : r.service = Of(d)
  BY <1>1, <1>2, CreatedIs
<1> QED
  BY <1>1, <1>3, FailsService

LEMMA ConditionDoneService ==
  ASSUME Shape, Shape', Service, NEW d \in Deploys, ConditionDone(d)
  PROVE  Service'
<1>1. /\ op[d].pc = "create" /\ op[d].cond # None /\ op[d].on = {}
      /\ UNCHANGED <<rules, group, ecs, last, intact>>
  BY DEF ConditionDone, AWSOnly
<1>2. PICK s \in Services, lb \in LoadBalancers : s = Of(d) /\ lb = Lb(d)
  BY <1>1, OfLb
<1>3. PICK n : To(d, [op[d] EXCEPT !.cond = None, !.newRules = n])
  <2>1. To(d, [op[d] EXCEPT !.cond = None, !.newRules = op[d].newRules + RulesOf(op[d].cond)])
    BY DEF ConditionDone
  <2> QED
    BY <2>1
<1> DEFINE o == [op[d] EXCEPT !.cond = None, !.newRules = n]
<1>4. /\ To(d, o) /\ o.req = op[d].req /\ o.ddLast = op[d].ddLast /\ o.clean = op[d].clean
      /\ o.pc = "create" /\ o.mode = op[d].mode /\ o.group = op[d].group /\ o.cond = None
      /\ o.left = op[d].left /\ o.on = op[d].on
  BY <1>1, <1>3, CreateMode DEF Op
<1> HIDE DEF o
<1>5. GoesOn(d, o)
  BY <1>1, <1>4 DEF GoesOn
<1>6. op'[d] = o /\ Of(d)' = s /\ Lb(d)' = lb
  BY <1>2, <1>4, <1>5, GoesOnOwn DEF Of, Lb
<1>7. ASSUME Recreated(d) PROVE Recreated(d)'
  <2>1. /\ Has(s, lb)' = Has(s, lb) /\ Pairs(Has(s, lb))' = Pairs(Has(s, lb))
        /\ Ordered(Has(s, lb))' <=> Ordered(Has(s, lb))
    BY <1>1, SameRules
  <2>2. DonePairs(d)' = DonePairs(d)
    BY <1>1, <1>4, <1>6 DEF DonePairs
  <2> QED
    BY <1>1, <1>2, <1>4, <1>6, <1>7, <2>1, <2>2, Creating DEF Recreated
<1> QED
  BY <1>1, <1>4, <1>5, <1>7, CreateMode, CleanStep

LEMMA RulesDoneService ==
  ASSUME Shape, Shape', Service, NEW d \in Deploys, RulesDone(d)
  PROVE  Service'
<1>1. /\ op[d].pc = "create" /\ op[d].cond = None /\ op[d].left = {}
      /\ UNCHANGED <<rules, group, ecs, last, intact>>
  BY DEF RulesDone, AWSOnly
<1>2. PICK s \in Services, lb \in LoadBalancers : s = Of(d) /\ lb = Lb(d)
  BY <1>1, OfLb
<1>3. PICK pc \in {"createservice", "deleteservice", "update"} : To(d, [op[d] EXCEPT !.pc = pc])
  BY DEF RulesDone, Goes
<1> DEFINE o == [op[d] EXCEPT !.pc = pc]
<1>4. /\ To(d, o) /\ o.req = op[d].req /\ o.ddLast = op[d].ddLast /\ o.clean = op[d].clean
      /\ o.pc = pc /\ o.mode = op[d].mode /\ o.group = op[d].group
  BY <1>1, <1>3, CreateMode DEF Op
<1> HIDE DEF o
<1>5. GoesOn(d, o)
  BY <1>1, <1>4 DEF GoesOn
<1>6. op'[d] = o /\ Of(d)' = s /\ Lb(d)' = lb
  BY <1>2, <1>4, <1>5, GoesOnOwn DEF Of, Lb
<1>7. ASSUME Recreated(d) PROVE Recreated(d)'
  <2>1. /\ Has(s, lb)' = Has(s, lb) /\ Pairs(Has(s, lb))' = Pairs(Has(s, lb))
        /\ Ordered(Has(s, lb))' <=> Ordered(Has(s, lb))
    BY <1>1, SameRules
  <2>2. DonePairs(d) = Serving(op[d].req.conds)
    <3>1. \A x \in Serving(op[d].req.conds) : x[1] # None
      BY <1>1, RunningOp, Names DEF Serving
    <3>2. DonePairs(d) = {x \in Serving(op[d].req.conds) :
                            x[1] \notin {} /\ (x[1] = None => x[2] \notin op[d].on)}
      BY <1>1 DEF DonePairs
    <3> QED
      BY <3>1, <3>2
  <2> QED
    BY <1>1, <1>2, <1>4, <1>6, <1>7, <2>1, <2>2, Creating DEF Recreated
<1> QED
  BY <1>1, <1>4, <1>5, <1>7, CreateMode, CleanStep

\* What the rules are once all are created.
Complete(s, lb, C) == Pairs(Has(s, lb)) = Serving(C) /\ Ordered(Has(s, lb))

LEMMA ServiceCallsService ==
  ASSUME Shape, Shape', Service, NEW d \in Deploys, DeleteService(d) \/ CreateService(d) \/ UpdateService(d)
  PROVE  Service'
<1>1. /\ op[d].pc \in {"deleteservice", "createservice", "update"} /\ UNCHANGED <<rules, group>>
      /\ op[d] \in Op
      /\ op[d].pc = "deleteservice" => op[d].mode = "move"
      /\ op[d].pc = "createservice" => op[d].mode \in {"create", "move"}
      /\ op[d].pc = "update" => op[d].mode \in {"update", "change"}
  BY RunningOp DEF DeleteService, CreateService, UpdateService, OpOK
<1>2. CASE Fails(d) /\ UNCHANGED ecs
  BY <1>1, <1>2, FailsService
<1>3. CASE ~(Fails(d) /\ UNCHANGED ecs)
  <2>1. PICK s \in Services, lb \in LoadBalancers : s = Of(d) /\ lb = Lb(d)
    BY <1>1, OfLb
  <2>2. /\ UNCHANGED <<last, intact>>
        /\ \/ /\ op[d].pc = "deleteservice" /\ To(d, [op[d] EXCEPT !.pc = "createservice"])
              /\ ecs' = [ecs EXCEPT ![s] = None]
           \/ /\ op[d].pc = "createservice" /\ To(d, [op[d] EXCEPT !.pc = "row", !.ok = TRUE])
              /\ ecs' = [ecs EXCEPT ![s] = op[d].group]
           \/ /\ op[d].pc = "update" /\ To(d, [op[d] EXCEPT !.pc = "row", !.ok = TRUE])
              /\ UNCHANGED ecs /\ ecs[s] # None
    BY <1>3, <2>1 DEF DeleteService, CreateService, UpdateService, Goes, Succeeds, AWSOnly
  <2>3. PICK o :
          /\ To(d, o)
          /\ \/ /\ op[d].pc = "deleteservice" /\ o = [op[d] EXCEPT !.pc = "createservice"]
                /\ ecs' = [ecs EXCEPT ![s] = None]
             \/ /\ op[d].pc = "createservice" /\ o = [op[d] EXCEPT !.pc = "row", !.ok = TRUE]
                /\ ecs' = [ecs EXCEPT ![s] = op[d].group]
             \/ /\ op[d].pc = "update" /\ o = [op[d] EXCEPT !.pc = "row", !.ok = TRUE]
                /\ UNCHANGED ecs /\ ecs[s] # None
    BY <2>2
  <2>4. /\ o.req = op[d].req /\ o.ddLast = op[d].ddLast /\ o.clean = op[d].clean
        /\ o.mode = op[d].mode /\ o.group = op[d].group
        /\ \/ op[d].pc = "deleteservice" /\ o.pc = "createservice"
           \/ op[d].pc \in {"createservice", "update"} /\ o.pc = "row"
    BY <1>1, <2>3 DEF Op
  <2>5. \A t \in Services \ {s} : ecs'[t] = ecs[t]
    BY <2>3 DEF Shape, TypeOK
  <2>6. op[d].pc = "createservice" => ecs'[s] = op[d].group
    BY <2>3 DEF Shape, TypeOK
  <2>7. op[d].pc = "update" => ecs' = ecs /\ ecs[s] # None
    BY <2>3
  <2>8. GoesOn(d, o)
    BY <1>1, <2>1, <2>2, <2>3, <2>4, <2>5 DEF GoesOn
  <2>9. op'[d] = o /\ Of(d)' = s /\ Lb(d)' = lb
    BY <2>1, <2>4, <2>8, GoesOnOwn DEF Of, Lb
  <2>10. ASSUME Recreated(d), op[d].mode # "update" PROVE Recreated(d)'
    <3>1. /\ Has(s, lb)' = Has(s, lb) /\ Pairs(Has(s, lb))' = Pairs(Has(s, lb))
          /\ Ordered(Has(s, lb))' <=> Ordered(Has(s, lb))
      BY <1>1, SameRules
    <3>2. /\ group[s] = op[d].group /\ group[s] # None
          /\ op[d].mode = "change" => lb = op[d].ddLast.lb /\ (s \in intact => ecs[s] = group[s])
          /\ Pairs(Has(s, lb)) = Serving(op[d].req.conds) /\ Ordered(Has(s, lb))
      BY <1>1, <2>1, <2>10 DEF Recreated
    <3>3. op[d].mode = "change" => op[d].pc = "update"
      BY <1>1
    <3> QED
      BY <1>1, <2>2, <2>4, <2>6, <2>7, <2>9, <2>10, <3>1, <3>2, <3>3 DEF Recreated
  <2>11. ASSUME op[d].clean /\ Undisturbed(d), op[d].mode = "update" PROVE Updates(d)'
    <3>1. op[d].pc = "update" /\ UNCHANGED <<rules, group, ecs, last>> /\ ecs[s] # None
      BY <1>1, <2>2, <2>7, <2>11
    <3>2. Intact(s)' <=> Intact(s)
      BY <3>1, SameIntact
    <3>3. /\ s \in intact => Intact(s)
          /\ last[s] # None => op[d].req.conds = last[s].conds /\ lb = last[s].lb
      BY <2>1, <2>11, <3>1 DEF Undisturbed, Updates
    <3>4. s \in intact => last[s] # None
      BY <3>1, <3>3 DEF Intact
    <3> QED
      BY <2>2, <2>4, <2>9, <3>1, <3>2, <3>3, <3>4 DEF Updates
  <2>12. op[d].clean /\ Undisturbed(d) =>
           /\ o.mode = "update" => Updates(d)'
           /\ o.mode \in {"change", "move"} \/ (o.mode = "create" /\ Of(d) \in intact) => Recreated(d)'
    BY <2>4, <2>10, <2>11 DEF Undisturbed
  <2> QED
    BY <2>4, <2>8, <2>12, CleanStep
<1> QED
  BY <1>2, <1>3

LEMMA NewDeploymentService ==
  ASSUME Shape, Shape', Service, NEW d \in Deploys, NewDeployment(d)
  PROVE  Service'
<1>1. /\ op[d].pc = "row" /\ UNCHANGED <<rules, group, ecs>> /\ op[d] \in Op /\ op[d].clean \in BOOLEAN
      /\ op[d].mode \in {"create", "change", "move", "update"}
      /\ intact' = LeavesIntact(d) /\ To(d, Over(d, op[d].clean))
  BY RunningOp, OpFields DEF NewDeployment
<1>2. PICK s \in Services, lb \in LoadBalancers : s = Of(d) /\ lb = Lb(d)
  BY <1>1, OfLb
<1> DEFINE C == op[d].req.conds
           row == [lb |-> lb, conds |-> C, ok |-> op[d].ok]
<1>3. last' = [last EXCEPT ![s] = row]
  BY <1>2 DEF NewDeployment
<1>4. last'[s] = row /\ row # None /\ \A t \in Services \ {s} : last'[t] = last[t]
  <2>1. row \in Deployment
    BY <1>1, RunningOp, OpFields DEF Deployment
  <2> QED
    BY <1>3, <2>1, RulesConstants DEF Shape, TypeOK
<1>5. op'[d] = Over(d, op[d].clean) /\ (\A e \in Deploys \ {d} : op'[e] = op[e]) /\ op'[d].pc = "over"
  BY <1>1, Moves, IdleOp
<1>6. intact' \cup {s} = intact \cup {s}
  BY <1>1, <1>2 DEF LeavesIntact
<1>7. OwnService(d)
  BY <1>1, <1>2, <1>4, <1>5, <1>6, RunningOp DEF OwnService
<1>8. ASSUME s \in intact' PROVE Intact(s)'
  <2>1. op[d].clean /\ Undisturbed(d)
    BY <1>1, <1>2, <1>8, RunningOp DEF LeavesIntact, Service
  <2>2. /\ op[d].mode \in {"change", "move"} => s \in intact \/ ecs[s] = group[s]
        /\ op[d].mode \notin {"change", "move"} => s \in intact
    BY <1>1, <1>2, <1>8, <2>1 DEF LeavesIntact
  <2>3. group[s] # None /\ ecs[s] = group[s] /\ Complete(s, lb, C)
    <3>1. CASE op[d].mode = "update"
      <4>1. /\ Intact(s) /\ last[s] # None /\ C = last[s].conds /\ lb = last[s].lb
        BY <1>1, <1>2, <2>1, <2>2, <3>1 DEF Undisturbed, Updates
      <4> QED
        BY <4>1 DEF Intact, AsDeployed, Complete
    <3>2. CASE op[d].mode # "update"
      <4>1. Recreated(d)
        BY <1>1, <1>2, <2>1, <2>2, <3>2 DEF Undisturbed
      <4>2. Complete(s, lb, C) /\ group[s] # None
        BY <1>1, <1>2, <4>1 DEF Recreated, Complete
      <4>3. ecs[s] = group[s]
        BY <1>1, <1>2, <2>2, <3>2, <4>1 DEF Recreated
      <4> QED
        BY <4>2, <4>3
    <3> QED
      BY <3>1, <3>2
  <2>4. /\ Has(s, lb)' = Has(s, lb) /\ Pairs(Has(s, lb))' = Pairs(Has(s, lb))
        /\ Ordered(Has(s, lb))' <=> Ordered(Has(s, lb))
    BY <1>1, SameRules
  <2>5. last'[s] # None /\ last'[s].lb = lb /\ last'[s].conds = C
    BY <1>4
  <2> HIDE DEF row, C
  <2> QED
    BY <1>1, <2>3, <2>4, <2>5 DEF Intact, AsDeployed, Complete
<1> QED
  BY <1>2, <1>5, <1>7, <1>8, ServiceStep

LEMMA CallFailsService ==
  ASSUME Shape, Shape', Service, NEW d \in Deploys, CallFails(d)
  PROVE  Service'
<1>1. op[d].pc \notin {"idle", "over"} /\ Fails(d) /\ UNCHANGED <<rules, group, ecs>>
  BY DEF CallFails
<1> QED
  BY <1>1, FailsService

LEMMA CrashService ==
  ASSUME Shape, Shape', Service, NEW d \in Deploys, Crash(d)
  PROVE  Service'
<1>1. /\ To(d, Over(d, FALSE)) /\ UNCHANGED <<rules, group, ecs, last>> /\ d \in Running
      /\ intact' = intact \ {Of(d)}
  BY DEF Crash
<1>2. op'[d].pc = "over" /\ ~op'[d].clean /\ \A e \in Deploys \ {d} : op'[e] = op[e]
  <2>1. Over(d, FALSE).pc = "over" /\ Over(d, FALSE).clean = FALSE
    BY DEF Over, Idle
  <2> QED
    BY <1>1, <2>1, Moves
<1>3. OwnService(d)
  BY <1>1, <1>2 DEF OwnService
<1> QED
  BY <1>1, <1>2, <1>3, DisturbedStep

LEMMA BeginService ==
  ASSUME Shape, Shape', Service, NEW d \in Deploys, Begin(d)
  PROVE  Service'
<1>1. PICK r \in Requests : Begun(d, r)
  BY BeginOps
<1>2. PICK s \in Services : s = r.service
  BY RequestFields
<1>3. /\ op[d].pc = "idle" /\ op'[d].pc = "exists" /\ op'[d].req = r /\ op'[d].ddLast = last[s]
      /\ op'[d].mode = "update" /\ op'[d].clean = (RunningFor(s) = {})
      /\ intact' = (IF RunningFor(s) = {} THEN intact ELSE intact \ {s})
      /\ UNCHANGED <<rules, group, ecs, last>>
      /\ \A e \in Deploys \ {d} :
           /\ op'[e].pc = op[e].pc /\ op'[e].req = op[e].req
           /\ e \notin RunningFor(s) => op'[e] = op[e]
           /\ e \in RunningFor(s) => op'[e].clean = FALSE
  BY <1>1, <1>2 DEF Begun
<1>4. \A t : RunningFor(t)' = RunningFor(t) \cup (IF t = s THEN {d} ELSE {})
  <2>1. d \in Running' /\ d \notin Running /\ Of(d)' = s
    BY <1>2, <1>3 DEF Running, Of
  <2>2. \A e \in Deploys \ {d} : (e \in Running' <=> e \in Running) /\ Of(e)' = Of(e)
    BY <1>3 DEF Running, Of
  <2>3. Running \subseteq Deploys /\ Running' \subseteq Deploys
    BY DEF Running
  <2>4. \A t : RunningFor(t) = {e \in Running : Of(e) = t} /\ RunningFor(t)' = {e \in Running' : Of(e)' = t}
    BY DEF RunningFor
  <2> QED
    BY <2>1, <2>2, <2>3, <2>4
<1>5. ASSUME NEW t \in Services, t # s PROVE SameService(t)
  <2>1. \A lb : Has(t, lb)' = Has(t, lb)
    BY <1>3, SameRules
  <2> QED
    BY <1>3, <1>4, <1>5, <2>1 DEF SameService
<1>6. ASSUME NEW t \in intact', RunningFor(t)' = {} PROVE Intact(t)'
  <2>1. t # s /\ t \in Services /\ t \in intact
    BY <1>3, <1>4, <1>6 DEF Shape, TypeOK
  <2>2. RunningFor(t) = {}
    BY <1>4, <1>6, <2>1
  <2> QED
    BY <1>5, <2>1, <2>2, IntactKept DEF Service
<1>7. ASSUME NEW e \in Running', op'[e].clean PROVE Undisturbed(e)'
  <2>1. CASE e = d
    <3>1. RunningFor(s) = {} /\ intact' = intact /\ RunningFor(s)' = {d}
      BY <1>3, <1>4, <1>7, <2>1
    <3>2. s \in intact => Intact(s)
      BY <3>1 DEF Service
    <3>3. Intact(s)' <=> Intact(s)
      BY <1>3, SameIntact
    <3>4. Of(d)' = s
      BY <1>2, <1>3 DEF Of
    <3>5. Updates(d)'
      BY <1>3, <3>1, <3>2, <3>3, <3>4 DEF Updates
    <3> QED
      BY <1>3, <2>1, <3>1, <3>4, <3>5 DEF Undisturbed
  <2>2. CASE e # d
    <3>1. e \in Deploys /\ e \in Running /\ e \notin RunningFor(s) /\ op'[e] = op[e]
      BY <1>3, <1>7, <2>2 DEF Running
    <3>2. Undisturbed(e) /\ Of(e) \in Services /\ Of(e) # s
      BY <1>7, <3>1, RunningOp DEF Service, Running, RunningFor
    <3>3. PICK t \in Services : t = Of(e)
      BY <3>2
    <3> QED
      BY <1>5, <3>1, <3>2, <3>3, UndisturbedKept
  <2> QED
    BY <2>1, <2>2
<1> QED
  BY <1>6, <1>7 DEF Service

-----------------------------------------------------------------------------
(* At the beginning every service has the rules of its last deployment     *)

\* Of the conditions of a request those before one have the smaller priority.
LEMMA PriorityOrder ==
  ASSUME NEW r \in Existing, NEW b \in Wanted(r.conds), NEW c \in Wanted(r.conds), Before(b, c)
  PROVE  PriorityOf(r, b) < PriorityOf(r, c)
<1> DEFINE W == Wanted(r.conds)
           B == {x \in W : Before(x, b)}
           C == {x \in W : Before(x, c)}
<1>1. r \in Requests /\ (W \subseteq Conditions \/ W = Default) /\ IsFiniteSet(W)
  BY RequestFields, WantedFinite, RulesConstants DEF Wanted
<1>2. b \in C /\ b \notin B
  <2>1. b \in Condition
    BY <1>1 DEF Condition
  <2> QED
    BY <2>1, NotBeforeItself
<1>3. B \subseteq C
  <2> SUFFICES ASSUME NEW x \in W, Before(x, b) PROVE Before(x, c)
    OBVIOUS
  <2>1. CASE W \subseteq Conditions
    <3>1. Length[x] \in Nat /\ Length[b] \in Nat /\ Length[c] \in Nat
          /\ x \in Conditions /\ b \in Conditions
      BY <2>1, RulesConstants
    <3> QED
      BY <3>1 DEF Before
  <2>2. CASE W = Default
    BY <2>2, RulesConstants DEF Before
  <2> QED
    BY <1>1, <2>1, <2>2
<1>4. IsFiniteSet(C) /\ B \in SUBSET C
  BY <1>1, <1>3, FS_Subset
<1> HIDE DEF B, C, W
<1>5. /\ IsFiniteSet(B) /\ Cardinality(B) \in Nat /\ Cardinality(C) \in Nat
      /\ Cardinality(B) <= Cardinality(C) /\ Cardinality(B) # Cardinality(C)
  BY <1>2, <1>4, FS_Subset, FS_CardinalityType
<1>6. Rank[r] \in Nat
  BY RulesConstants
<1>7. /\ PriorityOf(r, b) = 20 * Rank[r] + 2 * Cardinality(B)
      /\ PriorityOf(r, c) = 20 * Rank[r] + 2 * Cardinality(C)
  BY DEF PriorityOf, B, C, W
<1>8. \A k, x, y \in Nat : x <= y /\ x # y => 20 * k + 2 * x < 20 * k + 2 * y
  OBVIOUS
<1> HIDE DEF PriorityOf
<1> QED
  BY <1>5, <1>6, <1>7, <1>8

LEMMA InitIntact ==
  ASSUME Init, NEW s \in Services
  PROVE  Intact(s)
<1>1. CASE last[s] = None
  BY <1>1, InitLast DEF Intact
<1>2. CASE last[s] # None
  <2>1. PICK r \in Existing : r.service = s /\ last[s].lb = r.lb /\ last[s].conds = r.conds
    BY <1>2, InitLast
  <2>2. group[s] = First /\ ecs[s] = First /\ First # None /\ r \in Requests
    BY <1>2, InitLast, Names, RulesConstants DEF Group
  <2> DEFINE N(c, l) == NewRule(First, r, First, c, l, PriorityOf(r, c))
             H == Has(s, r.lb)
  <2>3. ASSUME NEW c \in Wanted(r.conds), NEW l \in ListenersOf(c)
        PROVE  /\ N(c, l).cond = c /\ N(c, l).listener = l /\ N(c, l).priority = PriorityOf(r, c)
               /\ KindOn(c, l) # "redirect" <=> N(c, l) \in H
    <3>1. N(c, l) \in rules
      BY InitRules
    <3>2. /\ N(c, l).cond = c /\ N(c, l).listener = l /\ N(c, l).priority = PriorityOf(r, c)
          /\ N(c, l).service = s /\ N(c, l).lb = r.lb
          /\ N(c, l).group = IF KindOn(c, l) = "redirect" THEN None ELSE First
      BY <2>1 DEF NewRule
    <3> QED
      BY <2>2, <3>1, <3>2 DEF Has
  <2>4. ASSUME NEW n \in H
        PROVE  \E c \in Wanted(r.conds) : \E l \in ListenersOf(c) : n = N(c, l)
    <3>1. n \in rules /\ n.service = s
      BY DEF Has
    <3>2. PICK q \in Existing : \E c \in Wanted(q.conds) : \E l \in ListenersOf(c) :
            n = NewRule(First, q, First, c, l, PriorityOf(q, c))
      BY <3>1, InitRules
    <3>3. q.service = s
      BY <3>1, <3>2 DEF NewRule
    <3>4. q = r
      BY <2>1, <3>3, RulesConstants
    <3> QED
      BY <3>2, <3>4
  <2>5. Pairs(H) \subseteq Serving(r.conds)
    <3> SUFFICES ASSUME NEW n \in H PROVE <<n.cond, n.listener>> \in Serving(r.conds)
      BY DEF Pairs
    <3>1. PICK c \in Wanted(r.conds) : \E l \in ListenersOf(c) : n = N(c, l)
      BY <2>4
    <3>2. PICK l \in ListenersOf(c) : n = N(c, l)
      BY <3>1
    <3>3. n.cond = c /\ n.listener = l /\ KindOn(c, l) # "redirect"
      BY <2>3, <3>2
    <3>4. l \in Listeners
      BY <2>2, RequestFields, ListenersAre
    <3> QED
      BY <3>3, <3>4 DEF Serving
  <2>6. Serving(r.conds) \subseteq Pairs(H)
    <3> SUFFICES ASSUME NEW x \in Serving(r.conds) PROVE x \in Pairs(H)
      OBVIOUS
    <3>1. x = <<x[1], x[2]>> /\ x[1] \in Wanted(r.conds) /\ x[2] \in ListenersOf(x[1])
          /\ KindOn(x[1], x[2]) # "redirect"
      BY DEF Serving
    <3>2. PICK c, l : c = x[1] /\ l = x[2]
      BY <3>1
    <3>3. N(c, l) \in H /\ N(c, l).cond = c /\ N(c, l).listener = l
      BY <2>3, <3>1, <3>2
    <3> HIDE DEF N
    <3> QED
      BY <3>1, <3>2, <3>3 DEF Pairs
  <2>7. Ordered(H)
    <3> SUFFICES ASSUME NEW q \in H, NEW n \in H, Before(q.cond, n.cond) PROVE q.priority < n.priority
      BY DEF Ordered
    <3>1. \A x \in H : x.cond \in Wanted(r.conds) /\ x.priority = PriorityOf(r, x.cond)
      <4> SUFFICES ASSUME NEW x \in H PROVE x.cond \in Wanted(r.conds) /\ x.priority = PriorityOf(r, x.cond)
        OBVIOUS
      <4>1. PICK c \in Wanted(r.conds) : \E l \in ListenersOf(c) : x = N(c, l)
        BY <2>4
      <4>2. PICK l \in ListenersOf(c) : x = N(c, l)
        BY <4>1
      <4> QED
        BY <2>3, <4>2
    <3> QED
      BY <3>1, PriorityOrder
  <2>8. Pairs(H) = Serving(r.conds)
    BY <2>5, <2>6
  <2>9. Has(s, last[s].lb) = H
    BY <2>1
  <2> HIDE DEF H, N
  <2> QED
    BY <1>2, <2>1, <2>2, <2>7, <2>8, <2>9 DEF Intact, AsDeployed
<1> QED
  BY <1>1, <1>2

LEMMA InitInv == Init => Inv
<1> SUFFICES ASSUME Init PROVE Inv
  OBVIOUS
<1>1. \A s \in intact : Intact(s)
  BY InitIntact DEF Init
<1>2. Running = {}
  BY IdleOp DEF Init, Running
<1> QED
  BY <1>1, <1>2, InitShape DEF Inv, Service

LEMMA NextService ==
  ASSUME Shape, Shape', Service, [Next]_vars
  PROVE  Service'
<1>1. CASE UNCHANGED vars
  <2>1. \A t \in Services : SameService(t)
    BY <1>1, SameRules DEF SameService, RunningFor, Running, Of, vars
  <2>2. \A t \in intact' : RunningFor(t)' = {} => Intact(t)'
    <3> SUFFICES ASSUME NEW t \in intact', RunningFor(t)' = {} PROVE Intact(t)'
      OBVIOUS
    <3>1. t \in intact /\ t \in Services
      BY <1>1 DEF vars, Shape, TypeOK
    <3>2. SameService(t)
      BY <2>1, <3>1
    <3>3. RunningFor(t) = {}
      BY <3>2 DEF SameService
    <3>4. Intact(t)
      BY <3>1, <3>3 DEF Service
    <3> QED
      BY <3>1, <3>2, <3>4, IntactKept
  <2>3. ASSUME NEW e \in Running', op'[e].clean PROVE Undisturbed(e)'
    <3>1. e \in Deploys /\ e \in Running /\ op'[e] = op[e] /\ op[e].clean
      BY <1>1, <2>3 DEF vars, Running
    <3>2. PICK t \in Services : t = Of(e)
      BY <3>1, RunningOp DEF Running
    <3>3. Undisturbed(e) /\ SameService(t)
      BY <2>1, <3>1 DEF Service
    <3> QED
      BY <3>1, <3>2, <3>3, UndisturbedKept
  <2> QED
    BY <2>2, <2>3 DEF Service
<1>2. ASSUME NEW d \in Deploys, Deploy(d) PROVE Service'
  <2>1. CASE Rules(d)
    BY <2>1, GetRulesService, DeleteRuleService, GetHighestRuleService, NextConditionService,
       CreateRuleService, ConditionDoneService, RulesDoneService DEF Rules
  <2> QED
    BY <1>2, <2>1, BeginService, ServiceExistsService, GetTargetGroupArnService,
       DeleteTargetGroupService, CreateTargetGroupService, ServiceCallsService, NewDeploymentService
       DEF Deploy
<1>3. ASSUME NEW d \in Deploys, Faulty(d) PROVE Service'
  BY <1>3, GetRulesFailsService, DeleteRuleFailsService, CreateRuleLostService, CallFailsService,
     CrashService DEF Faulty
<1> QED
  BY <1>1, <1>2, <1>3 DEF Next

-----------------------------------------------------------------------------
(* The redirects stay                                                      *)

\* With no failing call and no two requests for a service nothing is disturbed.
LEMMA CleanWorld ==
  ASSUME Shape, Service, Redirected, AllClean, NEW d \in Deploys, op[d].pc \notin {"idle", "over"}
  PROVE  op[d].clean /\ Undisturbed(d) /\ intact = Services /\ RunningFor(Of(d)) = {d} /\ Of(d) \in intact
<1>1. d \in Running /\ Of(d) \in Services
  BY RunningOp
<1>2. op[d].clean /\ Undisturbed(d) /\ intact = Services
  BY <1>1 DEF AllClean, Redirected, Service
<1> QED
  BY <1>1, <1>2 DEF Undisturbed

\* Whoever authenticates the host of such a condition on https redirects it as well.
LEMMA SameHost ==
  ASSUME NEW c \in Redirecting, NEW b \in Auth, Place[b] = Place[c], "https" \in On[b]
  PROVE  b \in Redirecting
<1>1. "http" \in On[b] /\ On[b] \subseteq Listeners
  BY RulesConstants DEF Redirecting
<1>2. On[b] = Listeners
  BY <1>1 DEF Listeners
<1> QED
  BY <1>2 DEF Redirecting

LEMMA RedirectsFinite ==
  ASSUME Shape, NEW lb, NEW c
  PROVE  IsFiniteSet(RedirectsTo(lb, c))
<1>1. RedirectsTo(lb, c) \in SUBSET rules
  BY DEF RedirectsTo
<1> QED
  BY <1>1, FS_Subset DEF Shape

LEMMA NotClean ==
  ASSUME NEW d \in Deploys, op'[d].pc # "idle", ~op'[d].clean
  PROVE  Redirected'
  BY DEF Redirected, AllClean

LEMMA FailsRedirected ==
  ASSUME Shape, NEW d \in Deploys, op[d].pc \notin {"idle", "over"}, Fails(d)
  PROVE  Redirected'
<1>1. op'[d].pc \in {"over", "row"} /\ op'[d].clean = FALSE
  BY FailedOp, Moves DEF Fails
<1> QED
  BY <1>1, NotClean

LEMMA UncleanRedirected ==
  ASSUME Shape, NEW d \in Deploys, NEW o, GoesOn(d, o), o.clean = FALSE
  PROVE  Redirected'
<1>1. op'[d] = o /\ o.pc # "idle"
  BY GoesOnOwn DEF GoesOn
<1> QED
  BY <1>1, NotClean

\* A step of a request that goes on changes what its own service owes.
LEMMA OwingThen ==
  ASSUME Shape, Service, Redirected, NEW d \in Deploys, NEW o, GoesOn(d, o), o.clean = op[d].clean,
         AllClean', NEW s \in Services, s = Of(d)
  PROVE  /\ AllClean /\ intact' = Services
         /\ \A lb, c : /\ s \in Owing(lb, c) <=> Owed(op[d], lb, c)
                       /\ s \in Owing(lb, c)' <=> Owed(o, lb, c)
                       /\ Owing(lb, c)' \ {s} = Owing(lb, c) \ {s}
<1>1. OwnService(d) /\ op'[d] = o /\ op'[d].pc # "over" /\ op[d].pc \notin {"idle", "over"}
      /\ o.pc # "idle" /\ UNCHANGED <<last, intact>>
  BY GoesOnOwn DEF GoesOn
<1>2. \A e \in Deploys \ {d} : op'[e] = op[e]
  BY <1>1 DEF OwnService
<1>3. AllClean
  <2>1. op[d].clean
    BY <1>1 DEF AllClean
  <2> QED
    BY <1>2, <2>1 DEF AllClean
<1>4. intact = Services /\ RunningFor(s) = {d}
  BY <1>1, <1>3, CleanWorld
<1>5. RunningFor(s)' = {d} /\ \A t \in Services \ {s} : RunningFor(t)' = RunningFor(t)
  BY <1>1, <1>4, RunningThen
<1>6. ASSUME NEW lb, NEW c
      PROVE  /\ s \in Owing(lb, c) <=> Owed(op[d], lb, c)
             /\ s \in Owing(lb, c)' <=> Owed(o, lb, c)
             /\ Owing(lb, c)' \ {s} = Owing(lb, c) \ {s}
  <2>1. s \in Owing(lb, c) <=> Owed(op[d], lb, c)
    BY <1>4 DEF Owing, Owes
  <2>2. s \in Owing(lb, c)' <=> Owed(o, lb, c)
    BY <1>1, <1>5 DEF Owing, Owes
  <2>3. ASSUME NEW t \in Services, t # s PROVE t \in Owing(lb, c)' <=> t \in Owing(lb, c)
    <3>1. RunningFor(t)' = RunningFor(t) /\ last' = last
      BY <1>1, <1>5, <2>3
    <3>2. \A e \in RunningFor(t) : op'[e] = op[e]
      BY <1>2, <2>3 DEF RunningFor, Running
    <3>3. Owes(t, lb, c)' <=> Owes(t, lb, c)
      BY <3>1, <3>2 DEF Owes
    <3> QED
      BY <3>3 DEF Owing
  <2>4. Owing(lb, c) \subseteq Services /\ Owing(lb, c)' \subseteq Services
    BY DEF Owing
  <2> QED
    BY <2>1, <2>2, <2>3, <2>4
<1> QED
  BY <1>1, <1>3, <1>4, <1>6

\* Fewer owe a redirect, and none is deleted.
LEMMA QuietStep ==
  ASSUME Shape, Shape', Service, Redirected, NEW d \in Deploys, NEW o, GoesOn(d, o),
         o.clean = op[d].clean, rules \subseteq rules',
         AllClean => \A lb \in LoadBalancers, c \in Redirecting : Owed(o, lb, c) => Owed(op[d], lb, c)
  PROVE  Redirected'
<1> SUFFICES ASSUME AllClean' PROVE Redirected'
  BY DEF Redirected
<1>1. PICK s \in Services : s = Of(d)
  BY RunningOp DEF GoesOn
<1>2. /\ AllClean /\ intact' = Services
      /\ \A lb, c : /\ s \in Owing(lb, c) <=> Owed(op[d], lb, c)
                    /\ s \in Owing(lb, c)' <=> Owed(o, lb, c)
                    /\ Owing(lb, c)' \ {s} = Owing(lb, c) \ {s}
  BY <1>1, OwingThen
<1>3. ASSUME NEW lb \in LoadBalancers, NEW c \in Redirecting
      PROVE  IsFiniteSet(Owing(lb, c)') /\ Cardinality(Owing(lb, c)') <= Cardinality(RedirectsTo(lb, c)')
  <2>1. Owing(lb, c)' \in SUBSET Owing(lb, c)
    BY <1>2
  <2>2. RedirectsTo(lb, c) \in SUBSET RedirectsTo(lb, c)' /\ IsFiniteSet(RedirectsTo(lb, c)')
        /\ IsFiniteSet(RedirectsTo(lb, c))
    <3>1. RedirectsTo(lb, c) \in SUBSET RedirectsTo(lb, c)'
      BY DEF RedirectsTo
    <3>2. RedirectsTo(lb, c)' \in SUBSET rules' /\ IsFiniteSet(rules')
      BY DEF RedirectsTo, Shape
    <3> QED
      BY <3>1, <3>2, RedirectsFinite, FS_Subset
  <2>3. IsFiniteSet(Owing(lb, c)) /\ Cardinality(Owing(lb, c)) <= Cardinality(RedirectsTo(lb, c))
    BY <1>2 DEF Redirected
  <2>4. /\ IsFiniteSet(Owing(lb, c)') /\ Cardinality(Owing(lb, c)') <= Cardinality(Owing(lb, c))
        /\ Cardinality(RedirectsTo(lb, c)) <= Cardinality(RedirectsTo(lb, c)')
    BY <2>1, <2>2, <2>3, FS_Subset
  <2>5. /\ Cardinality(Owing(lb, c)) \in Nat /\ Cardinality(Owing(lb, c)') \in Nat
        /\ Cardinality(RedirectsTo(lb, c)) \in Nat /\ Cardinality(RedirectsTo(lb, c)') \in Nat
    BY <2>2, <2>3, <2>4, FS_CardinalityType
  <2> QED
    BY <2>3, <2>4, <2>5
<1> QED
  BY <1>2, <1>3 DEF Redirected, Redirecting

LEMMA ServiceExistsRedirected ==
  ASSUME Shape, Shape', Service, Redirected, NEW d \in Deploys, ServiceExists(d)
  PROVE  Redirected'
<1>1. /\ op[d].pc = "exists" /\ UNCHANGED <<rules, group, ecs, last, intact>>
      /\ op[d] \in Op /\ op[d].mode = "update"
  BY RunningOp DEF ServiceExists, AWSOnly, OpOK
<1>2. PICK o :
        /\ To(d, o)
        /\ \/ o = [op[d] EXCEPT !.pc = "creategroup", !.mode = "create"]
           \/ o = [op[d] EXCEPT !.pc = "update"]
           \/ o = [op[d] EXCEPT !.pc = "group"]
  BY DEF ServiceExists, Goes
<1>3. /\ o.req = op[d].req /\ o.ddLast = op[d].ddLast /\ o.clean = op[d].clean
      /\ \/ o.pc = "creategroup" /\ o.mode = "create"
         \/ o.pc \in {"update", "group"} /\ o.mode = "update"
  BY <1>1, <1>2 DEF Op
<1>4. GoesOn(d, o)
  BY <1>1, <1>2, <1>3 DEF GoesOn
<1>5. \A lb, c : Owed(o, lb, c) => Owed(op[d], lb, c)
  BY <1>1, <1>3 DEF Owed
<1> QED
  BY <1>1, <1>3, <1>4, <1>5, QuietStep

LEMMA GetTargetGroupArnRedirected ==
  ASSUME Shape, Shape', Service, Redirected, NEW d \in Deploys, GetTargetGroupArn(d)
  PROVE  Redirected'
<1>1. /\ op[d].pc = "group" /\ UNCHANGED <<rules, group, ecs>>
      /\ op[d] \in Op /\ op[d].mode = "update"
  BY RunningOp DEF GetTargetGroupArn, OpOK
<1>2. CASE Fails(d)
  BY <1>1, <1>2, FailsRedirected
<1>3. CASE ~Fails(d)
  <2>1. PICK o :
          /\ To(d, o) /\ UNCHANGED <<last, intact>>
          /\ \/ \E m \in {"move", "change"} : o = [op[d] EXCEPT !.pc = "rules", !.mode = m, !.group = group[Of(d)]]
             \/ o = [op[d] EXCEPT !.pc = "update"]
    BY <1>3 DEF GetTargetGroupArn, Recreates, Goes, AWSOnly
  <2>2. /\ o.req = op[d].req /\ o.ddLast = op[d].ddLast /\ o.clean = op[d].clean
        /\ \/ o.pc = "rules"
           \/ o.pc = "update" /\ o.mode = "update"
    BY <1>1, <2>1 DEF Op
  <2>3. GoesOn(d, o)
    BY <1>1, <2>1, <2>2 DEF GoesOn
  <2>4. \A lb, c : Owed(o, lb, c) => Owed(op[d], lb, c)
    BY <1>1, <2>2 DEF Owed
  <2> QED
    BY <1>1, <2>2, <2>3, <2>4, QuietStep
<1> QED
  BY <1>2, <1>3

\* A redirect is only deleted where the last deployment has one.
LEMMA GetRulesRedirected ==
  ASSUME Shape, Shape', Service, Redirected, NEW d \in Deploys, GetRulesForAllListeners(d)
  PROVE  Redirected'
<1>1. /\ op[d].pc = "rules" /\ UNCHANGED <<rules, group, ecs, last, intact>>
      /\ op[d] \in Op /\ op[d].mode \in {"change", "move"} /\ op[d].ddLast # None
  BY RunningOp DEF GetRulesForAllListeners, AWSOnly, OpOK
<1>2. PICK D \in ToDelete(d) : To(d, [op[d] EXCEPT !.pc = "delete", !.del = D])
  BY DEF GetRulesForAllListeners
<1> DEFINE o == [op[d] EXCEPT !.pc = "delete", !.del = D]
<1>3. /\ To(d, o) /\ o.req = op[d].req /\ o.ddLast = op[d].ddLast /\ o.clean = op[d].clean
      /\ o.pc = "delete" /\ o.mode = op[d].mode /\ o.group = op[d].group /\ o.del = D
  BY <1>1, <1>2 DEF Op
<1> HIDE DEF o
<1>4. GoesOn(d, o)
  BY <1>1, <1>3 DEF GoesOn
<1>5. ASSUME AllClean, NEW lb \in LoadBalancers, NEW c \in Redirecting, Owed(o, lb, c)
      PROVE  Owed(op[d], lb, c)
  <2>1. PICK r \in D : r.kind = "redirect" /\ r.lb = lb /\ Place[r.cond] = Place[c]
    BY <1>1, <1>3, <1>5 DEF Owed
  <2>2. Place[c] \in Authenticated(d) /\ lb = OldLb(d)
    BY <1>1, <2>1, Found
  <2>3. PICK q \in Mine(d) : q.kind = "auth" /\ Place[q.cond] = Place[c]
    BY <2>2 DEF Authenticated
  <2>4. /\ Undisturbed(d) /\ Of(d) \in intact /\ op[d].ddLast = last[Of(d)]
    BY <1>1, <1>5, CleanWorld DEF Undisturbed
  <2>5. PICK s \in Services : s = Of(d)
    BY <1>1, OfLb
  <2>6. Recreated(d)
    BY <1>1, <2>4 DEF Undisturbed
  <2>7. group[s] = op[d].group /\ (op[d].mode = "change" => Lb(d) = op[d].ddLast.lb)
    BY <1>1, <2>5, <2>6 DEF Recreated
  <2>8. lb = op[d].ddLast.lb
    BY <1>1, <2>2, <2>7 DEF OldLb
  <2>9. q \in Has(s, lb)
    BY <2>2, <2>3, <2>5, <2>7 DEF Mine, Has
  <2>10. Pairs(Has(s, lb)) = Serving(op[d].ddLast.conds)
    <3>1. Intact(s) /\ last[s] # None
      BY <1>1, <2>4, <2>5, <2>6 DEF Recreated
    <3> QED
      BY <2>4, <2>5, <2>8, <3>1 DEF Intact, AsDeployed
  <2>11. q.cond \in Wanted(op[d].ddLast.conds)
    <3>1. <<q.cond, q.listener>> \in Serving(op[d].ddLast.conds)
      BY <2>9, <2>10 DEF Pairs
    <3> QED
      BY <3>1 DEF Serving
  <2>12. q.cond \in Redirecting
    <3>1. q \in rules /\ RuleOK(q) /\ q \in Rule
      BY <2>3 DEF Mine, Shape, TypeOK
    <3>2. q.cond \in Auth /\ q.listener # "http" /\ q.listener \in Listeners
      BY <2>3, <3>1, RuleFields DEF RuleOK, KindOn
    <3>3. "https" \in On[q.cond]
      BY <3>1, <3>2, RulesConstants DEF RuleOK, ListenersOf, Listeners
    <3> QED
      BY <2>3, <3>2, <3>3, SameHost
  <2>13. q.cond \in op[d].ddLast.conds
    BY <2>11, <2>12, RulesConstants DEF Wanted, Redirecting
  <2> QED
    BY <1>1, <2>3, <2>8, <2>12, <2>13 DEF Owed, Hosts
<1> QED
  BY <1>1, <1>3, <1>4, <1>5, QuietStep

LEMMA GetRulesFailsRedirected ==
  ASSUME Shape, NEW d \in Deploys, GetRulesFails(d)
  PROVE  Redirected'
<1>1. op[d].pc = "rules" /\ op[d] \in Op
  BY RunningOp DEF GetRulesFails
<1> DEFINE o == [op[d] EXCEPT !.pc = AfterDelete(d), !.clean = FALSE]
<1>2. To(d, o) /\ AfterDelete(d) # "idle"
  BY DEF GetRulesFails, AfterDelete
<1>3. o.clean = FALSE /\ o.pc # "idle"
  BY <1>1, <1>2 DEF Op
<1> HIDE DEF o
<1> QED
  BY <1>2, <1>3, Moves, NotClean

LEMMA DeleteRuleFailsRedirected ==
  ASSUME Shape, NEW d \in Deploys, DeleteRuleFails(d)
  PROVE  Redirected'
<1>1. op[d].pc = "delete" /\ op[d] \in Op
  BY RunningOp DEF DeleteRuleFails
<1>2. PICK r : To(d, [op[d] EXCEPT !.del = @ \ {r}, !.clean = FALSE])
  BY DEF DeleteRuleFails
<1> DEFINE o == [op[d] EXCEPT !.del = @ \ {r}, !.clean = FALSE]
<1>3. To(d, o) /\ o.clean = FALSE /\ o.pc # "idle"
  BY <1>1, <1>2 DEF Op
<1> HIDE DEF o
<1> QED
  BY <1>3, Moves, NotClean

\* The service that has a redirect deleted no longer counts on one.
LEMMA DeleteRuleRedirected ==
  ASSUME Shape, Shape', Service, Redirected, NEW d \in Deploys, DeleteRule(d)
  PROVE  Redirected'
<1>1. /\ op[d].pc = "delete" /\ UNCHANGED <<group, ecs, last, intact>>
      /\ op[d] \in Op /\ op[d].mode \in {"change", "move"} /\ DeletesOwn(op[d])
  BY RunningOp DEF DeleteRule, AWSOnly, OpOK
<1>2. CASE op[d].del = {}
  <2> DEFINE o == [op[d] EXCEPT !.pc = AfterDelete(d)]
  <2>1. To(d, o) /\ UNCHANGED rules /\ AfterDelete(d) \in {"deletegroup", "highest"}
    BY <1>2 DEF DeleteRule, Goes, AfterDelete
  <2>2. /\ o.req = op[d].req /\ o.ddLast = op[d].ddLast /\ o.clean = op[d].clean
        /\ o.mode = op[d].mode /\ o.pc \in {"deletegroup", "highest"}
    BY <1>1, <2>1 DEF Op
  <2> HIDE DEF o
  <2>3. GoesOn(d, o)
    BY <1>1, <2>1, <2>2 DEF GoesOn
  <2>4. \A lb, c : ~Owed(o, lb, c)
    BY <1>1, <2>2 DEF Owed
  <2> QED
    BY <2>1, <2>2, <2>3, <2>4, QuietStep
<1>3. CASE op[d].del # {}
  <2>1. PICK r \in op[d].del : rules' = rules \ {r} /\ To(d, [op[d] EXCEPT !.del = @ \ {r}])
    BY <1>3 DEF DeleteRule, NextToDelete, Forgets
  <2> DEFINE o == [op[d] EXCEPT !.del = @ \ {r}]
  <2>2. /\ To(d, o) /\ o.req = op[d].req /\ o.ddLast = op[d].ddLast /\ o.clean = op[d].clean
        /\ o.mode = op[d].mode /\ o.pc = "delete" /\ o.del = op[d].del \ {r}
    BY <1>1, <2>1 DEF Op
  <2> HIDE DEF o
  <2>3. GoesOn(d, o)
    BY <1>1, <2>1, <2>2 DEF GoesOn, DeletesOwn, Of
  <2> SUFFICES ASSUME AllClean' PROVE Redirected'
    BY DEF Redirected
  <2>4. PICK s \in Services : s = Of(d)
    BY <1>1, OfLb
  <2>5. /\ AllClean /\ intact' = Services
        /\ \A lb, c : /\ s \in Owing(lb, c) <=> Owed(op[d], lb, c)
                      /\ s \in Owing(lb, c)' <=> Owed(o, lb, c)
                      /\ Owing(lb, c)' \ {s} = Owing(lb, c) \ {s}
    BY <2>2, <2>3, <2>4, OwingThen
  <2>6. ASSUME NEW lb \in LoadBalancers, NEW c \in Redirecting
        PROVE  IsFiniteSet(Owing(lb, c)') /\ Cardinality(Owing(lb, c)') <= Cardinality(RedirectsTo(lb, c)')
    <3>1. IsFiniteSet(Owing(lb, c)) /\ Cardinality(Owing(lb, c)) <= Cardinality(RedirectsTo(lb, c))
          /\ IsFiniteSet(RedirectsTo(lb, c))
      BY <2>5, RedirectsFinite DEF Redirected
    <3>2. Owed(o, lb, c) => Owed(op[d], lb, c)
      BY <1>1, <2>2 DEF Owed
    <3>3. Owing(lb, c)' \in SUBSET Owing(lb, c)
      BY <2>5, <3>2
    <3>4. IsFiniteSet(Owing(lb, c)') /\ Cardinality(Owing(lb, c)') <= Cardinality(Owing(lb, c))
          /\ Cardinality(Owing(lb, c)) \in Nat /\ Cardinality(Owing(lb, c)') \in Nat
          /\ Cardinality(RedirectsTo(lb, c)) \in Nat
      BY <3>1, <3>3, FS_Subset, FS_CardinalityType
    <3>5. RedirectsTo(lb, c)' = RedirectsTo(lb, c) \ {r}
      BY <2>1 DEF RedirectsTo
    <3>6. CASE r \notin RedirectsTo(lb, c)
      <4>1. RedirectsTo(lb, c)' = RedirectsTo(lb, c)
        BY <3>5, <3>6
      <4> QED
        BY <3>1, <3>4, <4>1
    <3>7. CASE r \in RedirectsTo(lb, c)
      <4>1. r.kind = "redirect" /\ r.lb = lb /\ Place[r.cond] = Place[c]
        BY <3>7 DEF RedirectsTo
      <4>2. Owed(op[d], lb, c) /\ ~Owed(o, lb, c)
        <5>1. \A q \in op[d].del \ {r} : ~(q.kind = "redirect" /\ Place[q.cond] = Place[c])
          BY <1>1, <4>1 DEF DeletesOwn
        <5> QED
          BY <1>1, <2>2, <4>1, <5>1 DEF Owed
      <4>3. Owing(lb, c)' = Owing(lb, c) \ {s} /\ s \in Owing(lb, c)
        BY <2>5, <4>2
      <4>4. /\ Cardinality(Owing(lb, c)') = Cardinality(Owing(lb, c)) - 1
            /\ Cardinality(RedirectsTo(lb, c)') = Cardinality(RedirectsTo(lb, c)) - 1
        BY <3>1, <3>5, <3>7, <4>3, FS_RemoveElement
      <4> QED
        BY <3>1, <3>4, <4>4
    <3> QED
      BY <3>6, <3>7
  <2> QED
    BY <2>5, <2>6 DEF Redirected, Redirecting
<1> QED
  BY <1>2, <1>3

LEMMA TargetGroupRedirected ==
  ASSUME Shape, Shape', Service, Redirected, NEW d \in Deploys, DeleteTargetGroup(d) \/ CreateTargetGroup(d)
  PROVE  Redirected'
<1>1. /\ op[d].pc \in {"deletegroup", "creategroup"} /\ UNCHANGED <<rules, ecs>> /\ op[d] \in Op
      /\ op[d].mode # "update" /\ Of(d) \in Services
  BY RunningOp DEF DeleteTargetGroup, CreateTargetGroup, OpOK
<1>2. CASE Fails(d)
  BY <1>1, <1>2, FailsRedirected
<1>3. CASE ~Fails(d)
  <2>1. PICK o :
          /\ To(d, o) /\ UNCHANGED <<last, intact>>
          /\ \/ o = [op[d] EXCEPT !.pc = "creategroup"]
             \/ o = [op[d] EXCEPT !.pc = "highest", !.group = group'[Of(d)]]
    BY <1>3 DEF DeleteTargetGroup, CreateTargetGroup, Goes, AWSOnly
  <2>2. /\ o.req = op[d].req /\ o.ddLast = op[d].ddLast /\ o.clean = op[d].clean
        /\ o.mode = op[d].mode /\ o.pc \in {"creategroup", "highest"}
    BY <1>1, <2>1 DEF Op
  <2>3. \A t \in Services \ {Of(d)} : group'[t] = group[t]
    BY <1>3 DEF DeleteTargetGroup, CreateTargetGroup, Shape, TypeOK
  <2>4. GoesOn(d, o)
    BY <1>1, <2>1, <2>2, <2>3 DEF GoesOn
  <2>5. \A lb, c : ~Owed(o, lb, c)
    BY <1>1, <2>2 DEF Owed
  <2> QED
    BY <1>1, <2>2, <2>4, <2>5, QuietStep
<1> QED
  BY <1>2, <1>3

LEMMA GetHighestRuleRedirected ==
  ASSUME Shape, Shape', Service, Redirected, NEW d \in Deploys, GetHighestRule(d)
  PROVE  Redirected'
<1>1. /\ op[d].pc = "highest" /\ UNCHANGED <<rules, group, ecs, last, intact>> /\ op[d] \in Op
      /\ op[d].mode # "update"
  BY RunningOp DEF GetHighestRule, AWSOnly, OpOK
<1> DEFINE o == [op[d] EXCEPT !.pc = "create", !.highest = Highest(Priorities(Lb(d))),
                              !.left = Wanted(op[d].req.conds)]
<1>2. To(d, o)
  BY DEF GetHighestRule
<1>3. /\ o.req = op[d].req /\ o.ddLast = op[d].ddLast /\ o.clean = op[d].clean
      /\ o.pc = "create" /\ o.mode = op[d].mode /\ o.left = Wanted(op[d].req.conds)
  BY <1>1 DEF Op
<1> HIDE DEF o
<1>4. GoesOn(d, o)
  BY <1>1, <1>2, <1>3 DEF GoesOn
<1>5. \A lb, c : ~Owed(o, lb, c)
  BY <1>1, <1>3 DEF Owed, Hosts, Wanted
<1> QED
  BY <1>1, <1>3, <1>4, <1>5, QuietStep

LEMMA NextConditionRedirected ==
  ASSUME Shape, Shape', Service, Redirected, NEW d \in Deploys, NextCondition(d)
  PROVE  Redirected'
<1>1. /\ op[d].pc = "create" /\ op[d].cond = None /\ UNCHANGED <<rules, group, ecs, last, intact>>
      /\ op[d].mode # "update" /\ op[d] \in Op
  BY CreateMode DEF NextCondition, AWSOnly
<1>2. PICK b \in Sorted(d) : To(d, [op[d] EXCEPT !.cond = b, !.left = @ \ {b}, !.on = ListenersOf(b)])
  BY DEF NextCondition
<1> DEFINE o == [op[d] EXCEPT !.cond = b, !.left = @ \ {b}, !.on = ListenersOf(b)]
<1>3. /\ To(d, o) /\ o.req = op[d].req /\ o.ddLast = op[d].ddLast /\ o.clean = op[d].clean
      /\ o.pc = "create" /\ o.mode = op[d].mode /\ o.cond = b
      /\ o.left = op[d].left \ {b} /\ o.on = ListenersOf(b)
  BY <1>1, <1>2 DEF Op
<1> HIDE DEF o
<1>4. GoesOn(d, o)
  BY <1>1, <1>3 DEF GoesOn
<1>5. ASSUME NEW lb, NEW c \in Redirecting, Owed(o, lb, c) PROVE Owed(op[d], lb, c)
  <2>1. lb = op[d].req.lb
    BY <1>1, <1>3, <1>5 DEF Owed
  <2>2. PICK a \in Redirecting :
          /\ a \in op[d].req.conds \ (op[d].left \ {b}) /\ Place[a] = Place[c]
          /\ a = b => "http" \notin ListenersOf(b)
    BY <1>1, <1>3, <1>5 DEF Owed, Hosts
  <2>3. a # None /\ "http" \in ListenersOf(a)
    BY RulesConstants DEF Redirecting, ListenersOf, Listeners
  <2>4. a \in op[d].req.conds \ op[d].left
    BY <2>2, <2>3
  <2> QED
    BY <1>1, <2>1, <2>2, <2>3, <2>4 DEF Owed, Hosts
<1> QED
  BY <1>1, <1>3, <1>4, <1>5, QuietStep

\* The service that owes a redirect again is the one whose redirect is created.
LEMMA CreateRuleRedirected ==
  ASSUME Shape, Shape', Service, Redirected, NEW d \in Deploys, CreateRule(d)
  PROVE  Redirected'
<1>1. op[d].pc = "create" /\ op[d].cond # None /\ UNCHANGED <<group, ecs>> /\ op[d].mode # "update"
      /\ op[d] \in Op
  BY CreateMode DEF CreateRule
<1>2. PICK l \in op[d].on :
       IF Taken(d, l)
       THEN Fails(d) /\ UNCHANGED rules
       ELSE rules' = Created(d, l) /\ To(d, [op[d] EXCEPT !.on = @ \ {l}]) /\ AWSOnly
  BY DEF CreateRule
<1>3. CASE Taken(d, l)
  BY <1>1, <1>2, <1>3, FailsRedirected
<1>4. CASE ~Taken(d, l)
  <2>1. PICK s \in Services, k \in LoadBalancers : s = Of(d) /\ k = Lb(d)
    BY <1>1, OfLb
  <2>2. PICK b, n : /\ b = op[d].cond
                    /\ n = NewRule(d, op[d].req, op[d].group, op[d].cond, l, Priority(d))
    OBVIOUS
  <2> DEFINE o == [op[d] EXCEPT !.on = @ \ {l}]
  <2>3. /\ To(d, o) /\ o.req = op[d].req /\ o.ddLast = op[d].ddLast /\ o.clean = op[d].clean
        /\ o.pc = "create" /\ o.mode = op[d].mode /\ o.cond = b
        /\ o.left = op[d].left /\ o.on = op[d].on \ {l}
    BY <1>1, <1>2, <1>4, <2>2 DEF Op
  <2> HIDE DEF o
  <2>4. /\ rules' = rules \cup {n} /\ n.cond = b /\ n.service = s /\ n.lb = k
        /\ n.listener = l /\ n.priority = Priority(d) /\ n.kind = KindOn(b, l)
    BY <1>1, <1>2, <1>4, <2>1, <2>2, CreatedIs
  <2>5. GoesOn(d, o)
    BY <1>1, <1>2, <1>4, <2>1, <2>3, <2>4 DEF GoesOn, AWSOnly
  <2>6. n \notin rules
    BY <1>4, <2>1, <2>4 DEF Taken
  <2> SUFFICES ASSUME AllClean' PROVE Redirected'
    BY DEF Redirected
  <2>7. /\ AllClean /\ intact' = Services
        /\ \A lb, c : /\ s \in Owing(lb, c) <=> Owed(op[d], lb, c)
                      /\ s \in Owing(lb, c)' <=> Owed(o, lb, c)
                      /\ Owing(lb, c)' \ {s} = Owing(lb, c) \ {s}
    BY <2>1, <2>3, <2>5, OwingThen
  <2>8. ASSUME NEW lb \in LoadBalancers, NEW c \in Redirecting
        PROVE  IsFiniteSet(Owing(lb, c)') /\ Cardinality(Owing(lb, c)') <= Cardinality(RedirectsTo(lb, c)')
    <3>1. IsFiniteSet(Owing(lb, c)) /\ Cardinality(Owing(lb, c)) <= Cardinality(RedirectsTo(lb, c))
          /\ IsFiniteSet(RedirectsTo(lb, c))
      BY <2>7, RedirectsFinite DEF Redirected
    <3>2. Cardinality(Owing(lb, c)) \in Nat /\ Cardinality(RedirectsTo(lb, c)) \in Nat
      BY <3>1, FS_CardinalityType
    <3>3. CASE n.kind = "redirect" /\ lb = k /\ Place[b] = Place[c]
      <4>1. RedirectsTo(lb, c)' = RedirectsTo(lb, c) \cup {n} /\ n \notin RedirectsTo(lb, c)
        BY <2>4, <2>6, <3>3 DEF RedirectsTo
      <4>2. Cardinality(RedirectsTo(lb, c)') = Cardinality(RedirectsTo(lb, c)) + 1
        BY <3>1, <4>1, FS_AddElement
      <4>3. Owing(lb, c)' \in SUBSET (Owing(lb, c) \cup {s})
        BY <2>7
      <4>4. /\ IsFiniteSet(Owing(lb, c) \cup {s})
            /\ Cardinality(Owing(lb, c) \cup {s}) <= Cardinality(Owing(lb, c)) + 1
        <5>1. CASE s \in Owing(lb, c)
          <6>1. Owing(lb, c) \cup {s} = Owing(lb, c)
            BY <5>1
          <6>2. Cardinality(Owing(lb, c)) <= Cardinality(Owing(lb, c)) + 1
            BY <3>2
          <6> QED
            BY <3>1, <6>1, <6>2
        <5>2. CASE s \notin Owing(lb, c)
          <6>1. /\ IsFiniteSet(Owing(lb, c) \cup {s})
                /\ Cardinality(Owing(lb, c) \cup {s}) = Cardinality(Owing(lb, c)) + 1
            BY <3>1, <5>2, FS_AddElement
          <6>2. Cardinality(Owing(lb, c)) + 1 <= Cardinality(Owing(lb, c)) + 1
            BY <3>2
          <6> QED
            BY <6>1, <6>2
        <5> QED
          BY <5>1, <5>2
      <4>5. Cardinality(Owing(lb, c) \cup {s}) \in Nat
        BY <4>4, FS_CardinalityType
      <4>6. /\ IsFiniteSet(Owing(lb, c)')
            /\ Cardinality(Owing(lb, c)') <= Cardinality(Owing(lb, c) \cup {s})
        BY <4>3, <4>4, FS_Subset
      <4>8. Cardinality(Owing(lb, c)') \in Nat
        BY <4>6, FS_CardinalityType
      <4> QED
        BY <3>1, <3>2, <4>2, <4>4, <4>5, <4>6, <4>8
    <3>4. CASE ~(n.kind = "redirect" /\ lb = k /\ Place[b] = Place[c])
      <4>1. RedirectsTo(lb, c)' = RedirectsTo(lb, c)
        BY <2>4, <3>4 DEF RedirectsTo
      <4>2. Owed(o, lb, c) => Owed(op[d], lb, c)
        <5> SUFFICES ASSUME Owed(o, lb, c) PROVE Owed(op[d], lb, c)
          OBVIOUS
        <5>1. lb = op[d].req.lb
          BY <1>1, <2>3 DEF Owed
        <5>2. PICK a \in Redirecting :
                /\ a \in op[d].req.conds \ op[d].left /\ Place[a] = Place[c]
                /\ a = b => "http" \notin op[d].on \ {l}
          BY <1>1, <2>3 DEF Owed, Hosts
        <5>3. a = b => l # "http"
          BY <2>1, <2>4, <3>4, <5>1, <5>2 DEF KindOn, Redirecting, Lb
        <5> QED
          BY <1>1, <2>2, <5>1, <5>2, <5>3 DEF Owed, Hosts
      <4>3. Owing(lb, c)' \in SUBSET Owing(lb, c)
        BY <2>7, <4>2
      <4>4. IsFiniteSet(Owing(lb, c)') /\ Cardinality(Owing(lb, c)') <= Cardinality(Owing(lb, c))
        BY <3>1, <4>3, FS_Subset
      <4>5. Cardinality(Owing(lb, c)') \in Nat
        BY <4>4, FS_CardinalityType
      <4> QED
        BY <3>1, <3>2, <4>1, <4>4, <4>5
    <3> QED
      BY <3>3, <3>4
  <2> QED
    BY <2>7, <2>8 DEF Redirected, Redirecting
<1> QED
  BY <1>3, <1>4

LEMMA ConditionDoneRedirected ==
  ASSUME Shape, Shape', Service, Redirected, NEW d \in Deploys, ConditionDone(d)
  PROVE  Redirected'
<1>1. /\ op[d].pc = "create" /\ op[d].cond # None /\ op[d].on = {} /\ op[d].mode # "update"
      /\ UNCHANGED <<rules, group, ecs, last, intact>> /\ op[d] \in Op
  BY CreateMode DEF ConditionDone, AWSOnly
<1>2. PICK n : To(d, [op[d] EXCEPT !.cond = None, !.newRules = n])
  <2>1. To(d, [op[d] EXCEPT !.cond = None, !.newRules = op[d].newRules + RulesOf(op[d].cond)])
    BY DEF ConditionDone
  <2> QED
    BY <2>1
<1> DEFINE o == [op[d] EXCEPT !.cond = None, !.newRules = n]
<1>3. /\ To(d, o) /\ o.req = op[d].req /\ o.ddLast = op[d].ddLast /\ o.clean = op[d].clean
      /\ o.pc = "create" /\ o.mode = op[d].mode /\ o.left = op[d].left
  BY <1>1, <1>2 DEF Op
<1> HIDE DEF o
<1>4. GoesOn(d, o)
  BY <1>1, <1>3 DEF GoesOn
<1>5. \A lb, c : Owed(o, lb, c) => Owed(op[d], lb, c)
  BY <1>1, <1>3 DEF Owed, Hosts
<1> QED
  BY <1>1, <1>3, <1>4, <1>5, QuietStep

LEMMA RulesDoneRedirected ==
  ASSUME Shape, Shape', Service, Redirected, NEW d \in Deploys, RulesDone(d)
  PROVE  Redirected'
<1>1. /\ op[d].pc = "create" /\ op[d].cond = None /\ op[d].left = {} /\ op[d].mode # "update"
      /\ UNCHANGED <<rules, group, ecs, last, intact>> /\ op[d] \in Op
  BY CreateMode DEF RulesDone, AWSOnly
<1>2. PICK pc \in {"createservice", "deleteservice", "update"} : To(d, [op[d] EXCEPT !.pc = pc])
  BY DEF RulesDone, Goes
<1> DEFINE o == [op[d] EXCEPT !.pc = pc]
<1>3. /\ To(d, o) /\ o.req = op[d].req /\ o.ddLast = op[d].ddLast /\ o.clean = op[d].clean
      /\ o.pc = pc /\ o.mode = op[d].mode
  BY <1>1, <1>2 DEF Op
<1> HIDE DEF o
<1>4. GoesOn(d, o)
  BY <1>1, <1>3 DEF GoesOn
<1>5. ASSUME NEW lb, NEW c \in Redirecting, Owed(o, lb, c) PROVE Owed(op[d], lb, c)
  <2>1. lb = op[d].req.lb /\ Hosts(op[d].req.conds, c)
    BY <1>1, <1>3, <1>5 DEF Owed
  <2>2. \A b \in Redirecting : b # None
    BY RulesConstants DEF Redirecting
  <2> QED
    BY <1>1, <2>1, <2>2 DEF Owed, Hosts
<1> QED
  BY <1>1, <1>3, <1>4, <1>5, QuietStep

LEMMA ServiceCallsRedirected ==
  ASSUME Shape, Shape', Service, Redirected, NEW d \in Deploys,
         DeleteService(d) \/ CreateService(d) \/ UpdateService(d)
  PROVE  Redirected'
<1>1. /\ op[d].pc \in {"deleteservice", "createservice", "update"} /\ UNCHANGED <<rules, group>>
      /\ op[d] \in Op
  BY RunningOp DEF DeleteService, CreateService, UpdateService
<1>2. CASE Fails(d)
  BY <1>1, <1>2, FailsRedirected
<1>3. CASE ~Fails(d)
  <2>1. PICK o :
          /\ To(d, o) /\ UNCHANGED <<last, intact>>
          /\ \/ o = [op[d] EXCEPT !.pc = "createservice"]
             \/ o = [op[d] EXCEPT !.pc = "row", !.ok = TRUE]
    BY <1>3 DEF DeleteService, CreateService, UpdateService, Goes, Succeeds, AWSOnly
  <2>2. /\ o.req = op[d].req /\ o.ddLast = op[d].ddLast /\ o.clean = op[d].clean
        /\ o.mode = op[d].mode /\ o.pc \in {"createservice", "row"}
    BY <1>1, <2>1 DEF Op
  <2>3. \A t \in Services \ {Of(d)} : ecs'[t] = ecs[t]
    BY <1>3 DEF DeleteService, CreateService, UpdateService, Shape, TypeOK
  <2>4. GoesOn(d, o)
    BY <1>1, <2>1, <2>2, <2>3 DEF GoesOn
  <2>5. \A lb, c : Owed(o, lb, c) => Owed(op[d], lb, c)
    BY <1>1, <2>2 DEF Owed
  <2> QED
    BY <1>1, <2>2, <2>4, <2>5, QuietStep
<1> QED
  BY <1>2, <1>3

\* When all services owe what they did the redirects are as many.
LEMMA SameOwing ==
  ASSUME Redirected, AllClean, intact' = Services, rules' = rules,
         \A t \in Services, lb \in LoadBalancers, c \in Redirecting : Owes(t, lb, c)' <=> Owes(t, lb, c)
  PROVE  Redirected'
<1>1. ASSUME NEW lb \in LoadBalancers, NEW c \in Redirecting
      PROVE  Owing(lb, c)' = Owing(lb, c) /\ RedirectsTo(lb, c)' = RedirectsTo(lb, c)
  BY DEF Owing, RedirectsTo
<1> QED
  BY <1>1 DEF Redirected, Redirecting

LEMMA NewDeploymentRedirected ==
  ASSUME Shape, Shape', Service, Redirected, NEW d \in Deploys, NewDeployment(d)
  PROVE  Redirected'
<1> SUFFICES ASSUME AllClean' PROVE Redirected'
  BY DEF Redirected
<1>1. /\ op[d].pc = "row" /\ UNCHANGED <<rules, group, ecs>> /\ op[d] \in Op
      /\ op[d].clean \in BOOLEAN /\ intact' = LeavesIntact(d) /\ To(d, Over(d, op[d].clean))
      /\ op[d].mode \in {"create", "change", "move", "update"} /\ d \in Running
  BY RunningOp, OpFields DEF NewDeployment
<1>2. PICK s \in Services, k \in LoadBalancers : s = Of(d) /\ k = Lb(d)
  BY <1>1, OfLb
<1> DEFINE row == [lb |-> k, conds |-> op[d].req.conds, ok |-> op[d].ok]
<1>3. last'[s] = row /\ row # None /\ row.lb = k /\ row.conds = op[d].req.conds
      /\ \A t \in Services \ {s} : last'[t] = last[t]
  <2>1. row \in Deployment
    BY <1>1, RunningOp, OpFields DEF Deployment
  <2>2. last' = [last EXCEPT ![s] = row]
    BY <1>2 DEF NewDeployment
  <2> QED
    BY <2>1, <2>2, RulesConstants DEF Shape, TypeOK
<1>4. op'[d].pc = "over" /\ op'[d].clean = op[d].clean /\ \A e \in Deploys \ {d} : op'[e] = op[e]
  <2>1. Over(d, op[d].clean).pc = "over" /\ Over(d, op[d].clean).clean = op[d].clean
    BY DEF Over, Idle
  <2> QED
    BY <1>1, <2>1, Moves
<1>5. AllClean
  BY <1>4 DEF AllClean
<1>6. op[d].clean /\ Undisturbed(d) /\ intact = Services /\ RunningFor(s) = {d} /\ s \in intact
  BY <1>1, <1>2, <1>5, CleanWorld
<1>7. intact' = Services
  BY <1>1, <1>2, <1>6 DEF LeavesIntact
<1>8. OwnService(d)
  BY <1>1, <1>2, <1>3, <1>4, <1>6, <1>7 DEF OwnService
<1>9. RunningFor(s)' = {} /\ \A t \in Services \ {s} : RunningFor(t)' = RunningFor(t)
  <2>1. Running' = Running \ {d} /\ \A e \in Running \ {d} : Of(e)' = Of(e)
    BY <1>4 DEF Running, Of
  <2>2. RunningFor(s)' = {e \in Running' : Of(e)' = s} /\ {e \in Running : Of(e) = s} = {d}
    BY <1>6 DEF RunningFor
  <2> QED
    BY <1>2, <1>8, <2>1, <2>2, RunningThen
<1>10. ASSUME NEW t \in Services, NEW lb \in LoadBalancers, NEW c \in Redirecting
       PROVE  Owes(t, lb, c)' <=> Owes(t, lb, c)
  <2>1. CASE t = s
    <3>1. Owes(t, lb, c)' <=> lb = k /\ Hosts(op[d].req.conds, c)
      BY <1>3, <1>9, <2>1 DEF Owes
    <3>2. Owes(t, lb, c) <=> Owed(op[d], lb, c)
      BY <1>6, <2>1 DEF Owes
    <3>3. CASE op[d].mode = "update"
      <4>1. /\ op[d].ddLast = last[s] /\ last[s] # None
            /\ op[d].req.conds = last[s].conds /\ k = last[s].lb
        BY <1>1, <1>2, <1>6, <3>3 DEF Undisturbed, Updates
      <4> QED
        BY <1>1, <3>1, <3>2, <3>3, <4>1 DEF Owed
    <3>4. CASE op[d].mode # "update"
      BY <1>1, <1>2, <3>1, <3>2, <3>4 DEF Owed, Lb
    <3> QED
      BY <3>3, <3>4
  <2>2. CASE t # s
    <3>1. RunningFor(t)' = RunningFor(t) /\ last'[t] = last[t]
      BY <1>3, <1>9, <2>2
    <3>2. \A e \in RunningFor(t) : op'[e] = op[e]
      BY <1>2, <1>4, <2>2 DEF RunningFor, Running
    <3> QED
      BY <3>1, <3>2 DEF Owes
  <2> QED
    BY <2>1, <2>2
<1> QED
  BY <1>1, <1>5, <1>7, <1>10, SameOwing

LEMMA BeginRedirected ==
  ASSUME Shape, Shape', Service, Redirected, NEW d \in Deploys, Begin(d)
  PROVE  Redirected'
<1> SUFFICES ASSUME AllClean' PROVE Redirected'
  BY DEF Redirected
<1>1. PICK r \in Requests : Begun(d, r)
  BY BeginOps
<1>2. PICK s \in Services : s = r.service
  BY RequestFields
<1>3. /\ op[d].pc = "idle" /\ op'[d].pc = "exists" /\ op'[d].req = r /\ op'[d].ddLast = last[s]
      /\ op'[d].mode = "update" /\ op'[d].clean = (RunningFor(s) = {})
      /\ intact' = (IF RunningFor(s) = {} THEN intact ELSE intact \ {s})
      /\ UNCHANGED <<rules, group, ecs, last>>
      /\ \A e \in Deploys \ {d} : e \notin RunningFor(s) => op'[e] = op[e]
  BY <1>1, <1>2 DEF Begun
<1>4. RunningFor(s) = {} /\ intact' = intact /\ \A e \in Deploys \ {d} : op'[e] = op[e]
  BY <1>3 DEF AllClean
<1>5. AllClean
  BY <1>3, <1>4 DEF AllClean
<1>6. \A t : RunningFor(t)' = RunningFor(t) \cup (IF t = s THEN {d} ELSE {})
  <2>1. d \in Running' /\ d \notin Running /\ Of(d)' = s
    BY <1>2, <1>3 DEF Running, Of
  <2>2. \A e \in Deploys \ {d} : (e \in Running' <=> e \in Running) /\ Of(e)' = Of(e)
    BY <1>4 DEF Running, Of
  <2>3. Running \subseteq Deploys /\ Running' \subseteq Deploys
    BY DEF Running
  <2>4. \A t : RunningFor(t) = {e \in Running : Of(e) = t} /\ RunningFor(t)' = {e \in Running' : Of(e)' = t}
    BY DEF RunningFor
  <2> QED
    BY <2>1, <2>2, <2>3, <2>4
<1>7. ASSUME NEW t \in Services, NEW lb \in LoadBalancers, NEW c \in Redirecting
      PROVE  Owes(t, lb, c)' <=> Owes(t, lb, c)
  <2>1. CASE t = s
    <3>1. RunningFor(s)' = {d} /\ RunningFor(s) = {}
      BY <1>4, <1>6
    <3>2. Owes(s, lb, c)' <=> Owed(op'[d], lb, c)
      BY <3>1 DEF Owes
    <3>3. Owes(s, lb, c) <=> last[s] # None /\ lb = last[s].lb /\ Hosts(last[s].conds, c)
      BY <3>1 DEF Owes
    <3> QED
      BY <1>3, <2>1, <3>2, <3>3 DEF Owed
  <2>2. CASE t # s
    <3>1. RunningFor(t)' = RunningFor(t) /\ last' = last
      BY <1>3, <1>6, <2>2
    <3>2. \A e \in RunningFor(t) : op'[e] = op[e]
      BY <1>3, <1>4 DEF RunningFor, Running
    <3> QED
      BY <3>1, <3>2 DEF Owes
  <2> QED
    BY <2>1, <2>2
<1>8. intact' = Services
  BY <1>4, <1>5 DEF Redirected
<1> QED
  BY <1>3, <1>5, <1>7, <1>8, SameOwing

LEMMA CrashRedirected ==
  ASSUME Shape, NEW d \in Deploys, Crash(d)
  PROVE  Redirected'
<1>1. To(d, Over(d, FALSE)) /\ Over(d, FALSE).pc = "over" /\ Over(d, FALSE).clean = FALSE
  BY DEF Crash, Over, Idle
<1> QED
  BY <1>1, Moves, NotClean

LEMMA FailedCallRedirected ==
  ASSUME Shape, NEW d \in Deploys, CallFails(d) \/ CreateRuleLost(d)
  PROVE  Redirected'
<1>1. op[d].pc \notin {"idle", "over"} /\ Fails(d)
  BY DEF CallFails, CreateRuleLost
<1> QED
  BY <1>1, FailsRedirected

\* Every service that was deployed with a condition for a host has created a redirect.
LEMMA InitRedirected == Init => Redirected
<1> SUFFICES ASSUME Init PROVE Redirected
  OBVIOUS
<1>1. intact = Services /\ Running = {}
  BY IdleOp DEF Init, Running
<1>2. ASSUME NEW lb \in LoadBalancers, NEW c \in Redirecting
      PROVE  IsFiniteSet(Owing(lb, c)) /\ Cardinality(Owing(lb, c)) <= Cardinality(RedirectsTo(lb, c))
  <2> DEFINE q(s) == FirstRequest(s)
             At(r) == CHOOSE b \in r.conds \cap Redirecting : Place[b] = Place[c]
             N(r) == NewRule(First, r, First, At(r), "http", PriorityOf(r, At(r)))
             f == [s \in Owing(lb, c) |-> N(q(s))]
  <2>1. ASSUME NEW s \in Owing(lb, c)
        PROVE  q(s) \in Existing /\ q(s).service = s /\ q(s).lb = lb /\ Hosts(q(s).conds, c)
    <3>1. s \in Services /\ last[s] # None /\ lb = last[s].lb /\ Hosts(last[s].conds, c)
      BY <1>1 DEF Owing, Owes, RunningFor
    <3>2. PICK r \in Existing : r.service = s /\ last[s].lb = r.lb /\ last[s].conds = r.conds
      BY <3>1, InitLast
    <3>3. FirstRequest(s) = r
      BY <3>2, RulesConstants DEF FirstRequest
    <3> QED
      BY <3>1, <3>2, <3>3
  <2>2. ASSUME NEW r \in Existing, r.lb = lb, Hosts(r.conds, c)
        PROVE  N(r) \in RedirectsTo(lb, c) /\ N(r).service = r.service
    <3>1. PICK b : b = At(r)
      OBVIOUS
    <3>2. b \in r.conds \cap Redirecting /\ Place[b] = Place[c]
      BY <2>2, <3>1 DEF Hosts
    <3>3. b \in Wanted(r.conds) /\ "http" \in ListenersOf(b) /\ KindOn(b, "http") = "redirect"
      BY <3>2, RulesConstants DEF Wanted, Redirecting, ListenersOf, Listeners, KindOn
    <3>4. PICK n : n = NewRule(First, r, First, b, "http", PriorityOf(r, b))
      OBVIOUS
    <3>5. n \in rules
      BY <3>3, <3>4, InitRules
    <3>6. n.service = r.service /\ n.kind = "redirect" /\ n.lb = lb /\ n.cond = b
      BY <2>2, <3>3, <3>4 DEF NewRule
    <3>7. n \in RedirectsTo(lb, c)
      BY <3>2, <3>5, <3>6 DEF RedirectsTo
    <3> QED
      BY <3>1, <3>4, <3>6, <3>7
  <2>3. \A s \in Owing(lb, c) : f[s] \in RedirectsTo(lb, c) /\ f[s].service = s
    BY <2>1, <2>2
  <2>4. f \in [Owing(lb, c) -> RedirectsTo(lb, c)]
    BY <2>3
  <2> HIDE DEF f
  <2>5. \A s, t \in Owing(lb, c) : f[s] = f[t] => s = t
    BY <2>3
  <2>6. f \in Injection(Owing(lb, c), RedirectsTo(lb, c))
    <3>1. DOMAIN f = Owing(lb, c)
      BY <2>4
    <3> QED
      BY <2>4, <2>5, <3>1 DEF Injection, IsInjective
  <2> QED
    BY <2>6, InitShape, RedirectsFinite, FS_Injection
<1> QED
  BY <1>1, <1>2 DEF Redirected

LEMMA NextRedirected ==
  ASSUME Shape, Shape', Service, Redirected, [Next]_vars
  PROVE  Redirected'
<1>1. CASE UNCHANGED vars
  <2> SUFFICES ASSUME AllClean' PROVE Redirected'
    BY DEF Redirected
  <2>1. AllClean /\ rules' = rules /\ op' = op /\ last' = last /\ intact' = intact
    BY <1>1 DEF vars, AllClean
  <2>2. intact' = Services
    BY <2>1 DEF Redirected
  <2>3. \A t \in Services, lb \in LoadBalancers, c \in Redirecting : Owes(t, lb, c)' <=> Owes(t, lb, c)
    BY <2>1 DEF Owes, RunningFor, Running, Of
  <2> QED
    BY <2>1, <2>2, <2>3, SameOwing
<1>2. ASSUME NEW d \in Deploys, Deploy(d) PROVE Redirected'
  <2>1. CASE Rules(d)
    BY <2>1, GetRulesRedirected, DeleteRuleRedirected, GetHighestRuleRedirected, NextConditionRedirected,
       CreateRuleRedirected, ConditionDoneRedirected, RulesDoneRedirected DEF Rules
  <2> QED
    BY <1>2, <2>1, BeginRedirected, ServiceExistsRedirected, GetTargetGroupArnRedirected,
       TargetGroupRedirected, ServiceCallsRedirected, NewDeploymentRedirected DEF Deploy
<1>3. ASSUME NEW d \in Deploys, Faulty(d) PROVE Redirected'
  BY <1>3, GetRulesFailsRedirected, DeleteRuleFailsRedirected, FailedCallRedirected, CrashRedirected
     DEF Faulty
<1> QED
  BY <1>1, <1>2, <1>3 DEF Next

-----------------------------------------------------------------------------
(* Theorems                                                                *)

\* The inductive invariant: the shape of the state and of the requests, what a request
\* that nothing disturbs has come to, and the redirects.
THEOREM Invariance == Spec => [](Inv /\ Redirected)
<1>1. Init => Inv /\ Redirected
  BY InitInv, InitRedirected
<1>2. Inv /\ Redirected /\ [Next]_vars => (Inv /\ Redirected)'
  BY NextShape, NextService, NextRedirected DEF Inv
<1> QED
  BY <1>1, <1>2, PTL DEF Spec

\* Every rule, target group, row and request has its type: createRulesForTarget never
\* comes to a priority below zero.
THEOREM TypeCorrect == Spec => []TypeOK
<1>1. Inv => TypeOK
  BY DEF Inv, Shape
<1> QED
  BY <1>1, Invariance, PTL

\* createRulesForTarget leaves enough room after each condition: no priority of a
\* request meets one the same request has taken on that listener, whatever the other
\* requests create and delete and whatever fails.
THEOREM PrioritiesDistinct == Spec => []OwnPriorities
<1>1. Inv => OwnPriorities
  <2> SUFFICES ASSUME Inv, NEW d \in Deploys, op[d].pc = "create", op[d].cond # None,
                      NEW r \in rules, r.by = d, r.listener \in op[d].on
               PROVE  r.priority # Priority(d)
    BY DEF OwnPriorities
  <2>1. Numbered(d) /\ Priority(d) \in Nat /\ r.priority \in Nat
    BY OpFields, RuleFields DEF Inv, Shape, TypeOK, Priority
  <2> QED
    BY <2>1 DEF Numbered
<1> QED
  BY <1>1, Invariance, PTL

\* updateDeployment and createService leave the target group of a service with the rules
\* of its last deployment and no others, on the load balancer of that deployment, and
\* the ECS service with that target group.
THEOREM DeploymentServed == Spec => []RulesAsDeployed
<1>1. Inv => RulesAsDeployed
  <2> SUFFICES ASSUME Inv, NEW s \in intact, Settled(s)
               PROVE  /\ group[s] # None /\ ecs[s] = group[s]
                      /\ {<<r.cond, r.listener>> : r \in RulesFor(s)} = Serving(last[s].conds)
    BY DEF RulesAsDeployed
  <2>1. AsDeployed(s)
    BY DEF Inv, Service, Intact, Settled
  <2>2. RulesFor(s) = Has(s, last[s].lb)
    BY DEF RulesFor, Has
  <2> QED
    BY <2>1, <2>2 DEF AsDeployed, Pairs
<1> QED
  BY <1>1, Invariance, PTL

\* The order that ruleConditionSort gives the conditions is the order of the priorities,
\* also with the rules of other services in between.
THEOREM LongerPathsFirst == Spec => []LongestFirst
<1>1. Inv => LongestFirst
  <2> SUFFICES ASSUME Inv, NEW s \in intact, Settled(s), NEW q \in RulesFor(s), NEW r \in RulesFor(s),
                      q.listener = r.listener, Before(q.cond, r.cond)
               PROVE  q.priority < r.priority
    BY DEF LongestFirst
  <2>1. AsDeployed(s)
    BY DEF Inv, Service, Intact, Settled
  <2>2. RulesFor(s) = Has(s, last[s].lb)
    BY DEF RulesFor, Has
  <2> QED
    BY <2>1, <2>2 DEF AsDeployed, Ordered
<1> QED
  BY <1>1, Invariance, PTL

\* deleteRulesForTarget deletes redirects that may be of other services, also of other
\* conditions with the same path and host, and one redirect for several requests.  On a
\* host that everyone who authenticates it on https asks for on http too, as many are
\* left as there are services that need one, so that each of these finds one.
THEOREM HostsRedirected == Spec => []RedirectsStay
<1>1. Inv /\ Redirected => RedirectsStay
  <2> SUFFICES ASSUME Inv, Redirected, ~Disturbed, NEW s \in Services, Settled(s),
                      NEW c \in last[s].conds \cap Redirecting
               PROVE  RedirectsTo(last[s].lb, c) # {}
    BY DEF RedirectsStay, RedirectsTo
  <2>1. AllClean
    BY DEF Disturbed, AllClean
  <2> DEFINE lb == last[s].lb
  <2>2. lb \in LoadBalancers /\ c \in Redirecting
    BY DEF Inv, Shape, TypeOK, Settled, Deployment
  <2>3. s \in Owing(lb, c)
    BY DEF Owing, Owes, Settled, Hosts
  <2> HIDE DEF lb
  <2>4. IsFiniteSet(Owing(lb, c)) /\ Cardinality(Owing(lb, c)) <= Cardinality(RedirectsTo(lb, c))
    BY <2>1, <2>2 DEF Redirected
  <2>5. Cardinality(Owing(lb, c)) \in Nat /\ Cardinality(Owing(lb, c)) # 0
    BY <2>3, <2>4, FS_CardinalityType, FS_EmptySet
  <2>6. RedirectsTo(lb, c) # {}
    <3>1. ASSUME RedirectsTo(lb, c) = {} PROVE FALSE
      <4>1. Cardinality(RedirectsTo(lb, c)) = 0
        BY <3>1, FS_EmptySet
      <4> QED
        BY <2>4, <2>5, <4>1
    <3> QED
      BY <3>1
  <2> QED
    BY <2>6 DEF lb
<1> QED
  BY <1>1, Invariance, PTL
=============================================================================
