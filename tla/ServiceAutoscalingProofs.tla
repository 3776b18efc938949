---------------------- MODULE ServiceAutoscalingProofs ----------------------
(***************************************************************************)
(* Proofs about ServiceAutoscaling, for any requests, policies, limits and *)
(* counts, any number of requests at once and of failing calls.            *)
(***************************************************************************)
EXTENDS ServiceAutoscaling, SequenceTheorems, TLAPS

-----------------------------------------------------------------------------
(* The inductive invariant                                                 *)

\* A request that has read the last row.
Active(r) == op[r].pc \notin {"idle", "last", "over"}
TakesOf(o) == IF o.in.kind = "delete" THEN o.names
              ELSE IF o.in.kind = "deletepolicy" THEN o.in.policies ELSE {}
Takes(r) == TakesOf(op[r])

\* A policy is there, or a deletion that takes it is under way.
Taken(p) == \E r \in Requests : Active(r) /\ p \in Takes(r)
There(x) == x \in policies \cap alarms \/ Taken(x)

\* Which request a step belongs to.
KindOf(o) ==
  /\ o.pc \notin {"idle", "over"} => o.in \in Inputs
  /\ o.pc \in {"target", "register", "count", "policy", "alarm"} => o.in.kind = "put"
  /\ o.pc \in {"deletepolicy", "deletealarm"} => o.in.kind \in {"delete", "deletepolicy"}
  /\ o.pc = "deregister" => o.in.kind = "delete"
  /\ o.pc = "new" => o.in.kind = "deploy"
  /\ o.pc = "read" => o.in.kind \in {"put", "delete", "deletepolicy"}
  /\ o.pc = "put" => o.in.kind # "deploy"

\* What a request carries from step to step.
Carries(o) ==
  /\ o.pc \in {"alarm", "deletealarm"} => o.policy \in PolicyNames
  /\ o.pc \notin {"idle", "last", "over"} /\ o.in.kind \in {"put", "delete", "deletepolicy"} => o.dd \in Row

Listing(row) == row.policyNames # {} => row.resourceId

NamesOK(o) ==
  /\ o.in.kind = "put" =>
       /\ o.in.policies \subseteq o.names \cup o.todo \cup (IF o.pc = "alarm" THEN {o.policy} ELSE {})
       /\ o.pc \in {"read", "put"} => o.todo = {}
       /\ o.pc \in {"target", "register", "count"} => o.names = o.dd.policyNames
       /\ o.pc \in {"policy", "alarm"} /\ ~o.writeChanges => o.names = o.dd.policyNames
  /\ o.in.kind = "deletepolicy" =>
       /\ o.names \cap o.in.policies = {} /\ o.todo \subseteq o.in.policies
       /\ o.pc = "deletealarm" => o.policy \in o.in.policies
  /\ o.in.kind = "delete" =>
       /\ o.dd.policyNames \cup o.todo \subseteq o.names
       /\ o.pc = "deletealarm" => o.policy \in o.names
  /\ o.in.kind = "deploy" => o.names = IF o.dd = None THEN {} ELSE o.dd.policyNames
  /\ o.dd # None => Listing(o.dd)

OpOK(r) ==
  /\ KindOf(op[r]) /\ Carries(op[r]) /\ (Active(r) => NamesOK(op[r]))
  /\ op[r].pc = "last" => op[r].dd = None /\ op[r].names = {}

\* A row that still has the version a writer has read is the row it has read.
CopyOK(r) ==
  op[r].pc = "put" =>
    /\ op[r].at \in 1..Len(rows) /\ op[r].copy \in Row
    /\ rows[op[r].at].version >= op[r].copy.version
    /\ rows[op[r].at].version = op[r].copy.version => rows[op[r].at] = op[r].copy

\* Of two requests that disturb each other neither takes itself for alone; and the row
\* that one which is alone has read is the last one still.
AloneOK ==
  /\ \A r, s \in DisturbingNow : r # s => ~op[r].alone
  /\ \A r \in DisturbingNow : Active(r) /\ op[r].alone /\ Kind(r) # "deploy" =>
       /\ op[r].dd.policyNames = Last.policyNames /\ op[r].dd.resourceId = Last.resourceId
       /\ op[r].pc = "put" => op[r].at = Len(rows)

\* The names that a request will list, the policy whose alarm is to come among them.
WillList(r) ==
  /\ \A p \in op[r].names \ broken : There(p)
  /\ op[r].pc = "alarm" => \E p \in {op[r].policy} : p \in broken \cup policies \/ Taken(p)

\* What is listed, or will be, is there, unless it is known to be broken.
ListedOK ==
  /\ \A p \in Last.policyNames \ broken : There(p)
  /\ \A r \in DisturbingNow : Active(r) /\ Kind(r) # "delete" => WillList(r)

\* What is promised is there, and listed unless its name was lost; and nobody is about
\* to take it or to list less, but for a deploy without a row, which will lose them all.
Listed == promised \ unlisted
Blind(o) == o.pc = "new" /\ o.dd = None
PromisedOK ==
  /\ promised \subseteq (policies \cap alarms) \ broken
  /\ Listed \subseteq Last.policyNames
  /\ \A r \in DisturbingNow :
       /\ Kind(r) = "delete" => promised = {}
       /\ Kind(r) = "deletepolicy" => promised \cap Asked(r) = {}
       /\ Active(r) => Listed \subseteq op[r].names \/ Blind(op[r])

\* What is deleted stays so: no request under way has read anything else.
DeletedOK ==
  /\ deleted => /\ target = None /\ policies = {} /\ ~Last.resourceId /\ Last.policyNames = {}
                /\ \A r \in DisturbingNow :
                     /\ Kind(r) # "put"
                     /\ Active(r) => /\ Kind(r) = "deploy"
                                     /\ op[r].dd # None => ~op[r].dd.resourceId /\ op[r].dd.policyNames = {}
  /\ \A r \in DisturbingNow :
       Kind(r) = "delete" /\ op[r].alone /\ op[r].pc \in {"read", "put"} => target = None /\ policies = {}

Inv ==
  /\ TypeOK
  /\ \A r \in Requests : OpOK(r) /\ CopyOK(r)
  /\ \A i \in 1..Len(rows) : Listing(rows[i])
  /\ AloneOK /\ ListedOK /\ PromisedOK /\ DeletedOK

-----------------------------------------------------------------------------
(* Types                                                                   *)

LEMMA InputFields ==
  ASSUME NEW i \in Inputs
  PROVE  /\ i \in Input /\ i.kind \in Kinds /\ i.limits \in Limits /\ i.count \in Counts
         /\ i.count \in Nat /\ i.policies \subseteq PolicyNames
  BY AutoscalingConstants DEF Input

LEMMA RowFields ==
  ASSUME NEW d \in Row
  PROVE  /\ d.version \in Nat /\ d.count \in Counts /\ d.count \in Nat
         /\ d.resourceId \in BOOLEAN /\ d.policyNames \subseteq PolicyNames /\ d # None
  BY AutoscalingConstants DEF Row

LEMMA OpFields ==
  ASSUME NEW o \in Op
  PROVE  /\ o.pc \in Pc /\ o.in \in Inputs \cup {None} /\ o.dd \in Row \cup {None}
         /\ o.todo \subseteq PolicyNames /\ o.policy \in PolicyNames \cup {None}
         /\ o.names \subseteq PolicyNames /\ o.writeChanges \in BOOLEAN /\ o.at \in Nat
         /\ o.copy \in Row \cup {None} /\ o.alone \in BOOLEAN
  BY DEF Op

\* The last row is one of the rows.
LEMMA LastRow ==
  ASSUME TypeOK
  PROVE  /\ Len(rows) \in Nat \ {0} /\ Len(rows) \in 1..Len(rows)
         /\ Last \in Row /\ \A i \in 1..Len(rows) : rows[i] \in Row
<1>1. rows \in Seq(Row) /\ rows # << >>
  BY DEF TypeOK
<1>2. Len(rows) \in Nat \ {0}
  BY <1>1, EmptySeq
<1>3. Len(rows) \in 1..Len(rows)
  BY <1>2
<1>4. \A i \in 1..Len(rows) : rows[i] \in Row
  BY <1>1, ElementOfSeq
<1> QED
  BY <1>2, <1>3, <1>4 DEF Last

LEMMA IdleOp ==
  /\ Idle \in Op /\ Idle.pc = "idle"
  /\ [Idle EXCEPT !.pc = "over"] \in Op /\ [Idle EXCEPT !.pc = "over"].pc = "over"
<1>1. Idle \in Op /\ Idle.pc = "idle"
  BY DEF Idle, Op, Pc
<1>2. ASSUME NEW o \in Op PROVE [o EXCEPT !.pc = "over"] \in Op /\ [o EXCEPT !.pc = "over"].pc = "over"
  BY DEF Op, Pc
<1> QED
  BY <1>1, <1>2

LEMMA Moves ==
  ASSUME Inv, NEW r \in Requests, NEW o, To(r, o)
  PROVE  /\ op'[r] = o /\ \A s \in Requests \ {r} : op'[s] = op[s]
         /\ o \in Op => op' \in [Requests -> Op]
  BY DEF Inv, TypeOK, To

LEMMA IsOver ==
  ASSUME Inv, NEW r \in Requests, Over(r)
  PROVE  /\ op' \in [Requests -> Op] /\ op'[r].pc = "over"
         /\ \A s \in Requests \ {r} : op'[s] = op[s]
  BY IdleOp, Moves DEF Over

\* What an active request is, and carries.
LEMMA ActiveOp ==
  ASSUME Inv, NEW r \in Requests, Active(r)
  PROVE  /\ r \in Running /\ op[r] \in Op /\ op[r].in \in Inputs
         /\ KindOf(op[r]) /\ Carries(op[r]) /\ NamesOK(op[r]) /\ CopyOK(r)
         /\ Kind(r) \in Kinds /\ Asked(r) \subseteq PolicyNames
  BY InputFields DEF Inv, TypeOK, OpOK, KindOf, Active, Running, Kind, Asked

-----------------------------------------------------------------------------
(* A step that moves one request and no row: what each part of the         *)
(* invariant asks of it                                                    *)

OthersStay(r) == \A s \in Requests \ {r} : op'[s] = op[s]

LEMMA TakenKept ==
  ASSUME NEW r \in Requests, OthersStay(r), NEW x, Taken(x),
         Active(r) /\ x \in Takes(r) => x \in broken' \/ (Active(r)' /\ x \in Takes(r)')
  PROVE  x \in broken' \/ Taken(x)'
<1>1. PICK s \in Requests : Active(s) /\ x \in Takes(s)
  BY DEF Taken
<1>2. CASE s = r
  BY <1>1, <1>2 DEF Taken
<1>3. CASE s # r
  <2>1. Active(s)' /\ x \in Takes(s)'
    BY <1>1, <1>3 DEF OthersStay, Active, Takes
  <2> QED
    BY <2>1 DEF Taken
<1> QED
  BY <1>2, <1>3

LEMMA OtherDisturbing ==
  ASSUME NEW r \in Requests, OthersStay(r), NEW s \in Requests \ {r}
  PROVE  /\ s \in DisturbingNow' <=> s \in DisturbingNow
         /\ Active(s)' <=> Active(s)
         /\ Kind(s)' = Kind(s) /\ Asked(s)' = Asked(s)
  BY DEF OthersStay, DisturbingNow, Running, Active, Kind, Asked

LEMMA ListedKept ==
  ASSUME Inv, NEW r \in Requests, OthersStay(r), UNCHANGED rows, broken \subseteq broken',
         \A x \in policies \ policies' : x \in broken' \/ Taken(x)',
         \A x \in alarms \ alarms' : x \in broken' \/ Taken(x)',
         \A x : Taken(x) => x \in broken' \/ Taken(x)',
         r \in DisturbingNow' /\ Active(r)' /\ Kind(r)' # "delete" => WillList(r)'
  PROVE  ListedOK'
<1>1. Last' = Last
  BY DEF Last
<1>2. \A x : There(x) => x \in broken' \/ There(x)'
  BY DEF There
<1>3. ListedOK
  BY DEF Inv
<1>5. \A x \in Last'.policyNames \ broken' : There(x)'
  BY <1>1, <1>2, <1>3 DEF ListedOK
<1>6. ASSUME NEW s \in DisturbingNow', Active(s)', Kind(s)' # "delete"
      PROVE  WillList(s)'
  <2>1. CASE s = r
    BY <1>6, <2>1
  <2>2. CASE s # r
    <3>1. s \in Requests \ {r}
      BY <2>2 DEF DisturbingNow, Running
    <3>2. s \in DisturbingNow /\ Active(s) /\ Kind(s) # "delete" /\ op'[s] = op[s]
      BY <1>6, <3>1, OtherDisturbing DEF OthersStay
    <3>3. WillList(s)
      BY <1>3, <3>2 DEF ListedOK
    <3>4. \A x \in op'[s].names \ broken' : There(x)'
      BY <1>2, <3>2, <3>3 DEF WillList
    <3>5. ASSUME op'[s].pc = "alarm"
          PROVE  \E x \in {op'[s].policy} : x \in broken' \cup policies' \/ Taken(x)'
      <4>1. PICK x : x = op[s].policy
        OBVIOUS
      <4>2. x \in broken \/ x \in policies \/ Taken(x)
        BY <3>2, <3>3, <3>5, <4>1 DEF WillList
      <4> QED
        BY <3>2, <4>1, <4>2
    <3> QED
      BY <3>4, <3>5 DEF WillList
  <2> QED
    BY <2>1, <2>2
<1> QED
  BY <1>5, <1>6 DEF ListedOK

LEMMA AloneKept ==
  ASSUME Inv, NEW r \in Requests, OthersStay(r), UNCHANGED rows,
         r \in DisturbingNow' =>
           /\ r \in DisturbingNow /\ op'[r].alone = op[r].alone
           /\ Active(r)' /\ op'[r].alone /\ Kind(r)' # "deploy" =>
                /\ op'[r].dd.policyNames = Last.policyNames /\ op'[r].dd.resourceId = Last.resourceId
                /\ op'[r].pc = "put" => op'[r].at = Len(rows)
  PROVE  AloneOK'
<1>1. AloneOK /\ Last' = Last
  BY DEF Inv, Last
<1>2. ASSUME NEW s \in DisturbingNow'
      PROVE  /\ s \in DisturbingNow /\ op'[s].alone = op[s].alone /\ s \in Requests
             /\ Active(s)' /\ op'[s].alone /\ Kind(s)' # "deploy" =>
                  /\ op'[s].dd.policyNames = Last.policyNames
                  /\ op'[s].dd.resourceId = Last.resourceId
                  /\ op'[s].pc = "put" => op'[s].at = Len(rows)
  <2>1. CASE s = r
    BY <2>1
  <2>2. CASE s # r
    <3>1. s \in Requests \ {r}
      BY <2>2 DEF DisturbingNow, Running
    <3>2. /\ s \in DisturbingNow /\ (Active(s)' <=> Active(s)) /\ Kind(s)' = Kind(s)
          /\ op'[s] = op[s]
      BY <3>1, OtherDisturbing DEF OthersStay
    <3> QED
      BY <1>1, <3>1, <3>2 DEF AloneOK
  <2> QED
    BY <2>1, <2>2
<1>3. \A s, t \in DisturbingNow' : s # t => ~op'[s].alone
  BY <1>1, <1>2 DEF AloneOK
<1> QED
  BY <1>1, <1>2, <1>3 DEF AloneOK

LEMMA PromisedKept ==
  ASSUME Inv, NEW r \in Requests, OthersStay(r), UNCHANGED <<rows, promised, unlisted>>,
         \A x \in promised : x \in broken' => x \in broken,
         promised \cap (policies \ policies') = {}, promised \cap (alarms \ alarms') = {},
         r \in DisturbingNow' =>
           /\ r \in DisturbingNow /\ Kind(r)' = Kind(r) /\ Asked(r)' = Asked(r)
           /\ Active(r)' => Listed \subseteq op'[r].names \/ Blind(op'[r])
  PROVE  PromisedOK'
<1>1. PromisedOK /\ Last' = Last /\ Listed' = Listed
  BY DEF Inv, Last, Listed
<1>2. promised' \subseteq (policies' \cap alarms') \ broken' /\ Listed' \subseteq Last'.policyNames
  BY <1>1 DEF PromisedOK
<1>3. ASSUME NEW s \in DisturbingNow'
      PROVE  /\ Kind(s)' = "delete" => promised' = {}
             /\ Kind(s)' = "deletepolicy" => promised' \cap Asked(s)' = {}
             /\ Active(s)' => Listed' \subseteq op'[s].names \/ Blind(op'[s])
  <2>1. CASE s = r
    BY <1>1, <2>1 DEF PromisedOK
  <2>2. CASE s # r
    <3>1. s \in Requests \ {r}
      BY <2>2 DEF DisturbingNow, Running
    <3>2. /\ s \in DisturbingNow /\ (Active(s)' <=> Active(s)) /\ Kind(s)' = Kind(s)
          /\ Asked(s)' = Asked(s) /\ op'[s] = op[s]
      BY <3>1, OtherDisturbing DEF OthersStay
    <3> QED
      BY <1>1, <3>2 DEF PromisedOK
  <2> QED
    BY <2>1, <2>2
<1> QED
  BY <1>2, <1>3 DEF PromisedOK

LEMMA DeletedKept ==
  ASSUME Inv, NEW r \in Requests, OthersStay(r), UNCHANGED rows, deleted' => deleted,
         deleted' => target' = None /\ policies' = {},
         r \in DisturbingNow \/ UNCHANGED <<target, policies>>,
         r \in DisturbingNow' =>
           /\ r \in DisturbingNow /\ Kind(r)' = Kind(r) /\ op'[r].alone = op[r].alone
           /\ deleted /\ Active(r)' =>
                /\ Kind(r) = "deploy"
                /\ op'[r].dd # None => ~op'[r].dd.resourceId /\ op'[r].dd.policyNames = {}
           /\ Kind(r) = "delete" /\ op'[r].alone /\ op'[r].pc \in {"read", "put"} =>
                target' = None /\ policies' = {}
  PROVE  DeletedOK'
<1>1. DeletedOK /\ AloneOK /\ Last' = Last
  BY DEF Inv, Last
<1>2. deleted' => target' = None /\ policies' = {} /\ ~Last'.resourceId /\ Last'.policyNames = {}
  BY <1>1 DEF DeletedOK
<1>3. ASSUME NEW s \in DisturbingNow'
      PROVE  /\ deleted' =>
                  /\ Kind(s)' # "put"
                  /\ Active(s)' => /\ Kind(s)' = "deploy"
                                   /\ op'[s].dd # None => ~op'[s].dd.resourceId /\ op'[s].dd.policyNames = {}
             /\ Kind(s)' = "delete" /\ op'[s].alone /\ op'[s].pc \in {"read", "put"} =>
                  target' = None /\ policies' = {}
  <2>1. CASE s = r
    BY <1>1, <2>1 DEF DeletedOK
  <2>2. CASE s # r
    <3>1. s \in Requests \ {r}
      BY <2>2 DEF DisturbingNow, Running
    <3>2. /\ s \in DisturbingNow /\ (Active(s)' <=> Active(s)) /\ Kind(s)' = Kind(s)
          /\ op'[s] = op[s]
      BY <3>1, OtherDisturbing DEF OthersStay
    <3>3. op[s].alone => UNCHANGED <<target, policies>>
      BY <1>1, <2>2, <3>2 DEF AloneOK
    <3> QED
      BY <1>1, <3>2, <3>3 DEF DeletedOK
  <2> QED
    BY <2>1, <2>2
<1> QED
  BY <1>2, <1>3 DEF DeletedOK

LEMMA OpsKept ==
  ASSUME Inv, NEW r \in Requests, OthersStay(r), UNCHANGED rows, OpOK(r)', CopyOK(r)'
  PROVE  \A s \in Requests : OpOK(s)' /\ CopyOK(s)'
<1> SUFFICES ASSUME NEW s \in Requests \ {r} PROVE OpOK(s)' /\ CopyOK(s)'
  OBVIOUS
<1>1. op'[s] = op[s] /\ OpOK(s) /\ CopyOK(s) /\ UNCHANGED rows
  BY DEF OthersStay, Inv
<1>2. OpOK(s)'
  BY <1>1 DEF OpOK, Active
<1>3. CopyOK(s)'
  BY <1>1 DEF CopyOK
<1> QED
  BY <1>2, <1>3

-----------------------------------------------------------------------------
(* A request goes on, or fails                                             *)

AWSTypes == target' \in Limits \cup {None} /\ policies' \subseteq PolicyNames /\ alarms' \subseteq PolicyNames
Changes(r) == Kind(r) \in {"put", "delete", "deletepolicy"}

LEMMA DeletesTaken ==
  ASSUME Inv, NEW r \in Requests, Active(r)
  PROVE  /\ Takes(r) \subseteq Deletes(r) /\ Deletes(r) \subseteq PolicyNames
         /\ Deletes(r) \cap promised = {}
<1>1. op[r].names \subseteq PolicyNames /\ Asked(r) \subseteq PolicyNames /\ policies \subseteq PolicyNames
  BY ActiveOp, OpFields DEF Inv, TypeOK
<1>2. r \in DisturbingNow \/ Kind(r) \notin {"delete", "deletepolicy"}
  BY ActiveOp DEF DisturbingNow, Disturbing, Kind
<1>3. PromisedOK
  BY DEF Inv
<1>4. CASE Kind(r) = "delete"
  <2>1. Deletes(r) = op[r].names \cup (IF op[r].pc = "deregister" THEN policies ELSE {})
    BY <1>4 DEF Deletes
  <2>2. promised = {}
    BY <1>2, <1>3, <1>4 DEF PromisedOK
  <2> QED
    BY <1>1, <1>4, <2>1, <2>2 DEF Takes, TakesOf, Kind
<1>5. CASE Kind(r) = "deletepolicy"
  <2>1. Deletes(r) = Asked(r)
    BY <1>5 DEF Deletes
  <2>2. promised \cap Asked(r) = {}
    BY <1>2, <1>3, <1>5 DEF PromisedOK
  <2> QED
    BY <1>1, <1>5, <2>1, <2>2 DEF Takes, TakesOf, Kind, Asked
<1>6. CASE Kind(r) \notin {"delete", "deletepolicy"}
  <2>1. Deletes(r) = {}
    BY <1>6 DEF Deletes
  <2> QED
    BY <1>6, <2>1 DEF Takes, TakesOf, Kind
<1> QED
  BY <1>4, <1>5, <1>6

LEMMA Deleting ==
  ASSUME Inv, NEW r \in Requests, Active(r), Changes(r)
  PROVE  r \in DisturbingNow /\ ~deleted
<1>1. r \in DisturbingNow
  BY ActiveOp DEF DisturbingNow, Disturbing, Kind, Changes
<1> QED
  BY <1>1 DEF Inv, DeletedOK, Changes

LEMMA OverOK ==
  ASSUME NEW r \in Requests, op'[r].pc = "over"
  PROVE  OpOK(r)' /\ CopyOK(r)' /\ ~Active(r)' /\ r \notin DisturbingNow'
  BY DEF OpOK, CopyOK, KindOf, Carries, Active, DisturbingNow, Running

LEMMA FailsInv ==
  ASSUME Inv, NEW r \in Requests, Active(r), Fails(r), UNCHANGED rows, faults' \in Nat, AWSTypes,
         policies \ policies' \subseteq Deletes(r), alarms \ alarms' \subseteq Deletes(r),
         Changes(r) \/ UNCHANGED <<target, policies>>
  PROVE  Inv'
<1>1. /\ op' \in [Requests -> Op] /\ op'[r].pc = "over" /\ OthersStay(r)
      /\ broken' = broken \cup Deletes(r) /\ UNCHANGED <<promised, unlisted, deleted>>
  BY IsOver DEF Fails, OthersStay
<1>2. OpOK(r)' /\ CopyOK(r)' /\ ~Active(r)' /\ r \notin DisturbingNow'
  BY <1>1, OverOK
<1>3. TypeOK'
  BY <1>1, DeletesTaken DEF Inv, TypeOK, AWSTypes
<1>4. AloneOK'
  BY <1>1, <1>2, AloneKept
<1>5. ListedOK'
  <2>1. \A x : Taken(x) => x \in broken' \/ Taken(x)'
    BY <1>1, DeletesTaken, TakenKept
  <2> QED
    BY <1>1, <1>2, <2>1, ListedKept
<1>6. PromisedOK'
  BY <1>1, <1>2, DeletesTaken, PromisedKept
<1>7. DeletedOK'
  <2>1. deleted' => deleted /\ target' = None /\ policies' = {}
    BY <1>1, Deleting DEF Inv, DeletedOK
  <2>2. r \in DisturbingNow \/ UNCHANGED <<target, policies>>
    BY Deleting
  <2> QED
    BY <1>1, <1>2, <2>1, <2>2, DeletedKept
<1>8. \A s \in Requests : OpOK(s)' /\ CopyOK(s)'
  BY <1>1, <1>2, OpsKept
<1>9. \A i \in 1..Len(rows') : Listing(rows'[i])
  BY DEF Inv
<1> QED
  BY <1>3, <1>4, <1>5, <1>6, <1>7, <1>8, <1>9 DEF Inv

LEMMA Advances ==
  ASSUME Inv, NEW r \in Requests, Active(r), Changes(r), NEW o \in Op, To(r, o),
         o.pc \notin {"idle", "last", "over"},
         o.in = op[r].in /\ o.dd = op[r].dd /\ o.alone = op[r].alone,
         KindOf(o), NamesOK(o),
         o.pc \in {"alarm", "deletealarm"} => o.policy \in PolicyNames,
         o.pc = "put" => o.at = Len(rows) /\ o.copy = Last,
         UNCHANGED rows, UNCHANGED History, faults' \in Nat, AWSTypes,
         op[r].names \subseteq o.names,
         policies \ policies' \subseteq TakesOf(o), alarms \ alarms' \subseteq TakesOf(o),
         \A x \in o.names \ op[r].names : Kind(r) # "delete" =>
            x \in alarms' /\ (x \in broken \cup policies' \/ Taken(x)),
         o.pc = "alarm" => o.policy \in policies',
         Kind(r) = "delete" /\ o.alone /\ o.pc \in {"read", "put"} => target' = None /\ policies' = {}
  PROVE  Inv'
<1>1. /\ op' \in [Requests -> Op] /\ op'[r] = o /\ OthersStay(r)
      /\ UNCHANGED <<promised, unlisted, deleted, broken>>
  BY Moves DEF OthersStay, History
<1>2. r \in DisturbingNow /\ ~deleted /\ Carries(op[r])
  BY Deleting, ActiveOp
<1>3. Active(r)' /\ Kind(r)' = Kind(r) /\ Asked(r)' = Asked(r) /\ Takes(r)' = TakesOf(o)
  BY <1>1 DEF Active, Kind, Asked, Takes
<1>4. OpOK(r)'
  BY <1>1, <1>2 DEF OpOK, Carries, Active
<1>5. CopyOK(r)'
  <2> SUFFICES ASSUME o.pc = "put" PROVE CopyOK(r)'
    BY <1>1 DEF CopyOK
  <2>1. o.at \in 1..Len(rows) /\ o.copy \in Row /\ rows[o.at] = o.copy
    BY LastRow DEF Inv, Last
  <2>2. o.copy.version >= o.copy.version
    BY <2>1, RowFields
  <2> QED
    BY <1>1, <2>1, <2>2 DEF CopyOK
<1>6. TypeOK'
  BY <1>1 DEF Inv, TypeOK, AWSTypes
<1>7. AloneOK'
  <2>1. op[r].alone /\ Kind(r) # "deploy" =>
          op[r].dd.policyNames = Last.policyNames /\ op[r].dd.resourceId = Last.resourceId
    BY <1>2 DEF Inv, AloneOK
  <2> QED
    BY <1>1, <1>2, <1>3, <2>1, AloneKept
<1>8. ListedOK'
  <2>1. Takes(r) \subseteq TakesOf(o)
    BY DEF Takes, TakesOf
  <2>2. \A x : Taken(x) => x \in broken' \/ Taken(x)'
    BY <1>1, <1>3, <2>1, TakenKept
  <2>3. \A x \in TakesOf(o) : Taken(x)'
    BY <1>3 DEF Taken
  <2>4. ASSUME Kind(r) # "delete" PROVE WillList(r)'
    <3>1. WillList(r)
      BY <1>2, <2>4 DEF Inv, ListedOK
    <3>2. \A x : There(x) => x \in broken' \/ There(x)'
      BY <2>2, <2>3 DEF There
    <3>3. \A x \in o.names \ broken' : There(x)'
      BY <1>1, <2>2, <2>4, <3>1, <3>2 DEF WillList, There
    <3>4. o.pc = "alarm" => \E x \in {o.policy} : x \in broken' \cup policies' \/ Taken(x)'
      OBVIOUS
    <3> QED
      BY <1>1, <3>3, <3>4 DEF WillList
  <2> QED
    BY <1>1, <1>3, <2>2, <2>3, <2>4, ListedKept
<1>9. PromisedOK'
  <2>1. Listed \subseteq op[r].names \/ Blind(op[r])
    BY <1>2 DEF Inv, PromisedOK
  <2>2. ~Blind(op[r])
    BY ActiveOp DEF Blind, KindOf, Changes, Kind
  <2>3. promised \cap TakesOf(o) = {}
    BY <1>2 DEF Inv, PromisedOK, TakesOf, Kind, Asked
  <2> QED
    BY <1>1, <1>2, <1>3, <2>1, <2>2, <2>3, PromisedKept
<1>10. DeletedOK'
  BY <1>1, <1>2, <1>3, DeletedKept
<1>11. \A s \in Requests : OpOK(s)' /\ CopyOK(s)'
  BY <1>1, <1>4, <1>5, OpsKept
<1>12. \A i \in 1..Len(rows') : Listing(rows'[i])
  BY DEF Inv
<1> QED
  BY <1>6, <1>7, <1>8, <1>9, <1>10, <1>11, <1>12 DEF Inv

\* The same when the answer of a call may be lost.
LEMMA AnsweredInv ==
  ASSUME Inv, NEW r \in Requests, Active(r), Changes(r), NEW o \in Op, Answered(r, o),
         o.pc \notin {"idle", "last", "over"},
         o.in = op[r].in /\ o.dd = op[r].dd /\ o.alone = op[r].alone,
         KindOf(o), NamesOK(o),
         o.pc \in {"alarm", "deletealarm"} => o.policy \in PolicyNames,
         o.pc = "put" => o.at = Len(rows) /\ o.copy = Last,
         UNCHANGED rows, AWSTypes,
         op[r].names \subseteq o.names,
         policies \ policies' \subseteq Deletes(r), alarms \ alarms' \subseteq Deletes(r),
         Deletes(r) \subseteq TakesOf(o),
         \A x \in o.names \ op[r].names : Kind(r) # "delete" =>
            x \in alarms' /\ (x \in broken \cup policies' \/ Taken(x)),
         o.pc = "alarm" => o.policy \in policies',
         Kind(r) = "delete" /\ o.alone /\ o.pc \in {"read", "put"} => target' = None /\ policies' = {}
  PROVE  Inv'
<1>1. CASE To(r, o) /\ UNCHANGED History /\ NoFault
  <2>1. faults' \in Nat
    BY <1>1 DEF Inv, TypeOK, NoFault
  <2>2. policies \ policies' \subseteq TakesOf(o) /\ alarms \ alarms' \subseteq TakesOf(o)
    OBVIOUS
  <2> QED
    BY <1>1, <2>1, <2>2, Advances
<1>2. CASE Fault /\ Fails(r)
  <2>1. faults' \in Nat
    BY <1>2 DEF Inv, TypeOK, Fault
  <2> QED
    BY <1>2, <2>1, FailsInv
<1> QED
  BY <1>1, <1>2 DEF Answered

\* What is known of a request between the read of the row and its write.
LEMMA AtWork ==
  ASSUME Inv, NEW r \in Requests,
         op[r].pc \in {"target", "register", "count", "policy", "alarm", "deletepolicy",
                       "deletealarm", "deregister", "read"}
  PROVE  /\ Active(r) /\ Changes(r) /\ op[r] \in Op /\ op[r].in \in Inputs
         /\ op[r].dd \in Row /\ KindOf(op[r]) /\ NamesOK(op[r])
         /\ op[r].names \subseteq PolicyNames /\ op[r].todo \subseteq PolicyNames
         /\ faults \in Nat
         /\ target \in Limits \cup {None} /\ policies \subseteq PolicyNames /\ alarms \subseteq PolicyNames
<1>1. Active(r)
  BY DEF Active
<1>2. /\ op[r] \in Op /\ op[r].in \in Inputs /\ KindOf(op[r]) /\ Carries(op[r]) /\ NamesOK(op[r])
  BY <1>1, ActiveOp
<1>3. Changes(r)
  BY <1>2 DEF KindOf, Changes, Kind
<1>4. op[r].dd \in Row
  BY <1>2, <1>3 DEF Carries, Changes, Kind
<1>5. op[r].names \subseteq PolicyNames /\ op[r].todo \subseteq PolicyNames
  BY <1>2, OpFields
<1>6. /\ faults \in Nat /\ target \in Limits \cup {None}
      /\ policies \subseteq PolicyNames /\ alarms \subseteq PolicyNames
  BY DEF Inv, TypeOK
<1> QED
  BY <1>1, <1>2, <1>3, <1>4, <1>5, <1>6

\* Only deletions take policies.
LEMMA TakesNothing ==
  ASSUME NEW r \in Requests, Kind(r) \notin {"delete", "deletepolicy"}
  PROVE  Takes(r) = {} /\ Deletes(r) = {}
  BY DEF Takes, TakesOf, Deletes, Kind

-----------------------------------------------------------------------------
(* PUT                                                                     *)

LEMMA TargetInv ==
  ASSUME Inv, NEW r \in Requests, Target(r)
  PROVE  Inv'
<1>1. /\ Active(r) /\ Changes(r) /\ op[r] \in Op /\ KindOf(op[r]) /\ NamesOK(op[r])
      /\ op[r].pc = "target" /\ UNCHANGED <<rows, AWS, faults>>
  BY AtWork DEF Target, NoFault
<1>2. Kind(r) = "put" /\ AWSTypes /\ faults' \in Nat
  BY <1>1, AtWork DEF KindOf, Kind, AWSTypes, AWS, Target
<1>3. CASE Fails(r)
  BY <1>1, <1>2, <1>3, FailsInv DEF AWS
<1>4. CASE ~Fails(r)
  <2> DEFINE pc == IF op[r].dd.resourceId /\ target = op[r].in.limits THEN "count" ELSE "register"
             o == [op[r] EXCEPT !.pc = pc]
  <2>1. Answered(r, o)
    BY <1>1, <1>4 DEF Target, Goes, Answered, NoFault
  <2>2. /\ o \in Op /\ o.pc \in {"count", "register"} /\ o.in = op[r].in /\ o.dd = op[r].dd
        /\ o.alone = op[r].alone /\ o.names = op[r].names /\ o.todo = op[r].todo
    BY <1>1 DEF Op, Pc
  <2> HIDE DEF o, pc
  <2>3. KindOf(o) /\ NamesOK(o)
    BY <1>1, <1>2, <2>2 DEF KindOf, NamesOK, Kind
  <2> QED
    BY <1>1, <1>2, <2>1, <2>2, <2>3, TakesNothing, AnsweredInv DEF AWS
<1> QED
  BY <1>3, <1>4

LEMMA RegisterInv ==
  ASSUME Inv, NEW r \in Requests, RegisterScalableTarget(r)
  PROVE  Inv'
<1> DEFINE o == [op[r] EXCEPT !.pc = "count"]
<1>1. /\ Active(r) /\ Changes(r) /\ op[r] \in Op /\ op[r].in \in Inputs /\ KindOf(op[r])
      /\ NamesOK(op[r]) /\ op[r].pc = "register" /\ UNCHANGED <<rows, policies, alarms>>
      /\ target' = op[r].in.limits /\ Answered(r, o)
  BY AtWork DEF RegisterScalableTarget
<1>2. Kind(r) = "put" /\ AWSTypes
  BY <1>1, AtWork, InputFields DEF KindOf, Kind, AWSTypes
<1>3. /\ o \in Op /\ o.pc = "count" /\ o.in = op[r].in /\ o.dd = op[r].dd
      /\ o.alone = op[r].alone /\ o.names = op[r].names /\ o.todo = op[r].todo
  BY <1>1 DEF Op, Pc
<1> HIDE DEF o
<1>4. KindOf(o) /\ NamesOK(o)
  BY <1>1, <1>2, <1>3 DEF KindOf, NamesOK, Kind
<1> QED
  BY <1>1, <1>2, <1>3, <1>4, TakesNothing, AnsweredInv

LEMMA CountInv ==
  ASSUME Inv, NEW r \in Requests, ManualScaleService(r)
  PROVE  Inv'
<1> DEFINE o == [op[r] EXCEPT !.pc = "policy", !.writeChanges = op[r].dd.count # op[r].in.count]
<1>1. /\ Active(r) /\ Changes(r) /\ op[r] \in Op /\ KindOf(op[r]) /\ NamesOK(op[r])
      /\ op[r].pc = "count" /\ UNCHANGED <<rows, AWS>>
  BY AtWork DEF ManualScaleService
<1>2. Kind(r) = "put" /\ AWSTypes
  BY <1>1, AtWork DEF KindOf, Kind, AWSTypes, AWS
<1>3. /\ o \in Op /\ o.pc = "policy" /\ o.in = op[r].in /\ o.dd = op[r].dd
      /\ o.alone = op[r].alone /\ o.names = op[r].names /\ o.todo = op[r].todo
  BY <1>1 DEF Op, Pc
<1>4. Answered(r, o)
  BY DEF ManualScaleService, Answered, NoFault
<1> HIDE DEF o
<1>5. KindOf(o) /\ NamesOK(o)
  BY <1>1, <1>2, <1>3 DEF KindOf, NamesOK, Kind
<1> QED
  BY <1>1, <1>2, <1>3, <1>4, <1>5, TakesNothing, AnsweredInv DEF AWS

LEMMA PolicyInv ==
  ASSUME Inv, NEW r \in Requests, PutScalingPolicy(r)
  PROVE  Inv'
<1>1. /\ Active(r) /\ Changes(r) /\ op[r] \in Op /\ KindOf(op[r]) /\ NamesOK(op[r])
      /\ op[r].pc = "policy" /\ UNCHANGED <<rows, target, alarms>>
      /\ op[r].todo \subseteq PolicyNames
  BY AtWork DEF PutScalingPolicy
<1>2. Kind(r) = "put"
  BY <1>1 DEF KindOf, Kind
<1>3. PICK p \in op[r].todo :
       IF target = None THEN Fails(r) /\ NoFault /\ UNCHANGED policies
       ELSE /\ policies' = policies \cup {p}
            /\ Answered(r, [op[r] EXCEPT !.pc = "alarm", !.policy = p, !.todo = @ \ {p}])
  BY DEF PutScalingPolicy
<1>4. p \in PolicyNames
  BY <1>1
<1>5. CASE target = None
  <2>1. Fails(r) /\ UNCHANGED policies /\ faults' \in Nat
    BY <1>3, <1>5, AtWork DEF NoFault, PutScalingPolicy
  <2>2. AWSTypes
    BY <1>1, <2>1, AtWork DEF AWSTypes
  <2> QED
    BY <1>1, <2>1, <2>2, FailsInv
<1>6. CASE target # None
  <2> DEFINE o == [op[r] EXCEPT !.pc = "alarm", !.policy = p, !.todo = @ \ {p}]
  <2>1. policies' = policies \cup {p} /\ Answered(r, o)
    BY <1>3, <1>6
  <2>2. /\ o \in Op /\ o.pc = "alarm" /\ o.in = op[r].in /\ o.dd = op[r].dd
        /\ o.alone = op[r].alone /\ o.names = op[r].names /\ o.todo = op[r].todo \ {p}
        /\ o.policy = p /\ o.writeChanges = op[r].writeChanges
    BY <1>1, <1>4 DEF Op, Pc
  <2>3. AWSTypes
    BY <1>1, <1>4, <2>1, AtWork DEF AWSTypes
  <2> HIDE DEF o
  <2>4. KindOf(o)
    BY <1>1, <1>2, <2>2 DEF KindOf, Kind
  <2>5. NamesOK(o)
    BY <1>1, <1>2, <2>2 DEF NamesOK, Kind
  <2> QED
    BY <1>1, <1>2, <1>4, <2>1, <2>2, <2>3, <2>4, <2>5, TakesNothing, AnsweredInv
<1> QED
  BY <1>5, <1>6

LEMMA AlarmInv ==
  ASSUME Inv, NEW r \in Requests, PutMetricAlarm(r)
  PROVE  Inv'
<1> DEFINE q == op[r].policy
           o == [op[r] EXCEPT !.pc = "policy", !.policy = None, !.writeChanges = TRUE,
                              !.names = @ \cup {q}]
<1>1. /\ Active(r) /\ Changes(r) /\ op[r] \in Op /\ KindOf(op[r]) /\ NamesOK(op[r])
      /\ op[r].pc = "alarm" /\ UNCHANGED <<rows, target, policies>>
      /\ alarms' = alarms \cup {q} /\ Answered(r, o)
  BY AtWork DEF PutMetricAlarm
<1>2. Kind(r) = "put" /\ q \in PolicyNames
  BY <1>1, ActiveOp DEF KindOf, Kind, Carries
<1>3. AWSTypes
  BY <1>1, <1>2, AtWork DEF AWSTypes
<1>4. r \in DisturbingNow
  BY <1>1, Deleting
<1>5. \E p \in {q} : p \in broken \cup policies \/ Taken(p)
  BY <1>1, <1>2, <1>4 DEF Inv, ListedOK, WillList
<1>6. PICK p \in {q} : p \in broken \cup policies \/ Taken(p)
  BY <1>5
<1>7. /\ o \in Op /\ o.pc = "policy" /\ o.in = op[r].in /\ o.dd = op[r].dd
      /\ o.alone = op[r].alone /\ o.names = op[r].names \cup {p} /\ o.todo = op[r].todo
      /\ o.writeChanges
  BY <1>1, <1>2, <1>6 DEF Op, Pc
<1>8. p = q /\ alarms' = alarms \cup {p} /\ op[r].policy = p
  BY <1>1, <1>6
<1> HIDE DEF o, q
<1>9. KindOf(o)
  BY <1>1, <1>2, <1>7 DEF KindOf, Kind
<1>10. NamesOK(o)
  BY <1>1, <1>2, <1>7, <1>8 DEF NamesOK, Kind
<1>11. \A x \in o.names \ op[r].names : x \in alarms' /\ (x \in broken \cup policies' \/ Taken(x))
  <2>1. \A x \in o.names \ op[r].names : x = p
    BY <1>7
  <2> QED
    BY <1>1, <1>6, <1>8, <2>1
<1> QED
  BY <1>1, <1>2, <1>3, <1>7, <1>9, <1>10, <1>11, TakesNothing, AnsweredInv

-----------------------------------------------------------------------------
(* DELETE                                                                  *)

LEMMA DeletePolicyInv ==
  ASSUME Inv, NEW r \in Requests, DeleteScalingPolicy(r)
  PROVE  Inv'
<1>1. /\ Active(r) /\ Changes(r) /\ op[r] \in Op /\ KindOf(op[r]) /\ NamesOK(op[r])
      /\ op[r].pc = "deletepolicy" /\ UNCHANGED <<rows, target, alarms>>
      /\ op[r].todo \subseteq PolicyNames
  BY AtWork DEF DeleteScalingPolicy
<1>2. Kind(r) \in {"delete", "deletepolicy"}
  BY <1>1 DEF KindOf, Kind
<1>3. PICK p \in op[r].todo :
       IF p \notin policies THEN Fails(r) /\ NoFault /\ UNCHANGED policies
       ELSE /\ policies' = policies \ {p}
            /\ Answered(r, [op[r] EXCEPT !.pc = "deletealarm", !.policy = p, !.todo = @ \ {p}])
  BY DEF DeleteScalingPolicy
<1>4. p \in PolicyNames
  BY <1>1
<1>5. CASE p \notin policies
  <2>1. Fails(r) /\ UNCHANGED policies /\ faults' \in Nat
    BY <1>3, <1>5, AtWork DEF NoFault, DeleteScalingPolicy
  <2>2. AWSTypes
    BY <1>1, <2>1, AtWork DEF AWSTypes
  <2> QED
    BY <1>1, <2>1, <2>2, FailsInv
<1>6. CASE p \in policies
  <2> DEFINE o == [op[r] EXCEPT !.pc = "deletealarm", !.policy = p, !.todo = @ \ {p}]
  <2>1. policies' = policies \ {p} /\ Answered(r, o)
    BY <1>3, <1>6
  <2>2. /\ o \in Op /\ o.pc = "deletealarm" /\ o.in = op[r].in /\ o.dd = op[r].dd
        /\ o.alone = op[r].alone /\ o.names = op[r].names /\ o.todo = op[r].todo \ {p}
        /\ o.policy = p
    BY <1>1, <1>4 DEF Op, Pc
  <2>3. AWSTypes
    BY <1>1, <1>4, <2>1, AtWork DEF AWSTypes
  <2> HIDE DEF o
  <2>4. KindOf(o)
    BY <1>1, <1>2, <2>2 DEF KindOf, Kind
  <2>5. NamesOK(o)
    BY <1>1, <1>2, <2>2 DEF NamesOK, Kind
  <2>6. Deletes(r) = TakesOf(o) /\ p \in TakesOf(o)
    BY <1>1, <1>2, <2>2 DEF Deletes, TakesOf, NamesOK, Kind, Asked
  <2> QED
    BY <1>1, <1>2, <1>4, <2>1, <2>2, <2>3, <2>4, <2>5, <2>6, AnsweredInv
<1> QED
  BY <1>5, <1>6

LEMMA DeleteAlarmsInv ==
  ASSUME Inv, NEW r \in Requests, DeleteAlarms(r)
  PROVE  Inv'
<1> DEFINE q == op[r].policy
           o == [op[r] EXCEPT !.pc = "deletepolicy", !.policy = None]
<1>1. /\ Active(r) /\ Changes(r) /\ op[r] \in Op /\ KindOf(op[r]) /\ NamesOK(op[r])
      /\ op[r].pc = "deletealarm" /\ UNCHANGED <<rows, target, policies>>
      /\ alarms' = alarms \ {q}
  BY AtWork DEF DeleteAlarms
<1>2. Kind(r) \in {"delete", "deletepolicy"} /\ q \in PolicyNames
  BY <1>1, ActiveOp DEF KindOf, Kind, Carries
<1>3. AWSTypes
  BY <1>1, <1>2, AtWork DEF AWSTypes
<1>4. q \in Deletes(r)
  BY <1>1, <1>2 DEF Deletes, NamesOK, Kind, Asked
<1>5. CASE Fails(r) /\ NoFault
  <2>1. faults' \in Nat
    BY <1>5 DEF NoFault, Inv, TypeOK
  <2> QED
    BY <1>1, <1>3, <1>4, <1>5, <2>1, FailsInv
<1>6. CASE Answered(r, o)
  <2>1. /\ o \in Op /\ o.pc = "deletepolicy" /\ o.in = op[r].in /\ o.dd = op[r].dd
        /\ o.alone = op[r].alone /\ o.names = op[r].names /\ o.todo = op[r].todo
    BY <1>1, <1>2 DEF Op, Pc
  <2> HIDE DEF o, q
  <2>2. KindOf(o)
    BY <1>1, <1>2, <2>1 DEF KindOf, Kind
  <2>3. NamesOK(o)
    BY <1>1, <1>2, <2>1 DEF NamesOK, Kind
  <2>4. Deletes(r) = TakesOf(o)
    BY <1>1, <1>2, <2>1 DEF Deletes, TakesOf, Kind, Asked
  <2> QED
    BY <1>1, <1>2, <1>3, <1>4, <1>6, <2>1, <2>2, <2>3, <2>4, AnsweredInv
<1> QED
  BY <1>5, <1>6 DEF DeleteAlarms

LEMMA DeletesDoneInv ==
  ASSUME Inv, NEW r \in Requests, DeletesDone(r)
  PROVE  Inv'
<1> DEFINE o == [op[r] EXCEPT !.pc = AfterDelete(r)]
<1>1. /\ Active(r) /\ Changes(r) /\ op[r] \in Op /\ KindOf(op[r]) /\ NamesOK(op[r])
      /\ op[r].pc = "deletepolicy" /\ UNCHANGED <<rows, AWS>>
  BY AtWork DEF DeletesDone
<1>2. Kind(r) \in {"delete", "deletepolicy"} /\ AWSTypes
  BY <1>1, AtWork DEF KindOf, Kind, AWSTypes, AWS
<1>3. /\ o \in Op /\ o.pc = AfterDelete(r) /\ o.in = op[r].in /\ o.dd = op[r].dd
      /\ o.alone = op[r].alone /\ o.names = op[r].names /\ o.todo = op[r].todo
  BY <1>1 DEF Op, Pc, AfterDelete
<1>4. Answered(r, o)
  BY DEF DeletesDone, Goes, Answered, NoFault
<1> HIDE DEF o
<1>5. o.pc = IF Kind(r) = "delete" THEN "deregister" ELSE "read"
  BY <1>3 DEF AfterDelete
<1>6. KindOf(o)
  BY <1>1, <1>2, <1>3, <1>5 DEF KindOf, Kind
<1>7. NamesOK(o)
  BY <1>1, <1>2, <1>3, <1>5 DEF NamesOK, Kind
<1>8. Deletes(r) = TakesOf(o)
  BY <1>1, <1>2, <1>3 DEF Deletes, TakesOf, Kind, Asked
<1> QED
  BY <1>1, <1>2, <1>3, <1>4, <1>5, <1>6, <1>7, <1>8, AnsweredInv DEF AWS

LEMMA DeregisterInv ==
  ASSUME Inv, NEW r \in Requests, DeregisterScalableTarget(r)
  PROVE  Inv'
<1>1. /\ Active(r) /\ Changes(r) /\ op[r] \in Op /\ KindOf(op[r]) /\ NamesOK(op[r])
      /\ op[r].pc = "deregister" /\ UNCHANGED <<rows, alarms>>
  BY AtWork DEF DeregisterScalableTarget
<1>2. Kind(r) = "delete"
  BY <1>1 DEF KindOf, Kind
<1>3. CASE target = None
  <2>1. Fails(r) /\ UNCHANGED <<target, policies>> /\ faults' \in Nat
    BY <1>3, AtWork DEF NoFault, DeregisterScalableTarget
  <2>2. AWSTypes
    BY <1>1, <2>1, AtWork DEF AWSTypes
  <2> QED
    BY <1>1, <2>1, <2>2, FailsInv
<1>4. CASE target # None
  <2> DEFINE o == [op[r] EXCEPT !.pc = "read", !.names = @ \cup policies]
  <2>1. target' = None /\ policies' = {} /\ Answered(r, o)
    BY <1>4 DEF DeregisterScalableTarget
  <2>2. /\ o \in Op /\ o.pc = "read" /\ o.in = op[r].in /\ o.dd = op[r].dd
        /\ o.alone = op[r].alone /\ o.names = op[r].names \cup policies /\ o.todo = op[r].todo
    BY <1>1, AtWork DEF Op, Pc
  <2>3. AWSTypes
    BY <1>1, <2>1, AtWork DEF AWSTypes
  <2> HIDE DEF o
  <2>4. KindOf(o)
    BY <1>1, <1>2, <2>2 DEF KindOf, Kind
  <2>5. NamesOK(o)
    BY <1>1, <1>2, <2>2 DEF NamesOK, Kind
  <2>6. Deletes(r) = TakesOf(o) /\ policies \subseteq Deletes(r)
    BY <1>1, <1>2, <2>2 DEF Deletes, TakesOf, Kind
  <2> QED
    BY <1>1, <1>2, <2>1, <2>2, <2>3, <2>4, <2>5, <2>6, AnsweredInv
<1> QED
  BY <1>3, <1>4

-----------------------------------------------------------------------------
(* The row                                                                 *)

LEMMA ReadInv ==
  ASSUME Inv, NEW r \in Requests, ReadRow(r)
  PROVE  Inv'
<1> DEFINE o == [op[r] EXCEPT !.pc = "put", !.at = Len(rows), !.copy = Last]
<1>1. /\ Active(r) /\ Changes(r) /\ op[r] \in Op /\ KindOf(op[r]) /\ NamesOK(op[r])
      /\ op[r].pc = "read" /\ UNCHANGED <<rows, AWS>> /\ Answered(r, o)
  BY AtWork DEF ReadRow, Answered, NoFault
<1>2. AWSTypes /\ Len(rows) \in Nat /\ Last \in Row
  BY <1>1, AtWork, LastRow DEF AWSTypes, AWS, Inv
<1>3. /\ o \in Op /\ o.pc = "put" /\ o.in = op[r].in /\ o.dd = op[r].dd
      /\ o.alone = op[r].alone /\ o.names = op[r].names /\ o.todo = op[r].todo
      /\ o.at = Len(rows) /\ o.copy = Last
  BY <1>1, <1>2 DEF Op, Pc
<1> HIDE DEF o
<1>4. KindOf(o)
  BY <1>1, <1>3 DEF KindOf
<1>5. NamesOK(o)
  BY <1>1, <1>3 DEF NamesOK
<1>6. Deletes(r) = TakesOf(o)
  BY <1>1, <1>3 DEF Deletes, TakesOf, Kind, Asked
<1>7. r \in DisturbingNow
  BY <1>1, Deleting
<1>8. Kind(r) = "delete" /\ o.alone => target' = None /\ policies' = {}
  BY <1>1, <1>3, <1>7 DEF Inv, DeletedOK, AWS
<1> QED
  BY <1>1, <1>2, <1>3, <1>4, <1>5, <1>6, <1>8, AnsweredInv DEF AWS

LEMMA CallFailsInv ==
  ASSUME Inv, NEW r \in Requests, CallFails(r)
  PROVE  Inv'
<1>1. Active(r) /\ Fails(r) /\ UNCHANGED <<rows, AWS>> /\ faults' \in Nat
  BY DEF CallFails, Active, Running, Fault, Inv, TypeOK
<1>2. AWSTypes /\ UNCHANGED <<target, policies, alarms>>
  BY <1>1 DEF AWSTypes, AWS, Inv, TypeOK
<1> QED
  BY <1>1, <1>2, FailsInv

-----------------------------------------------------------------------------
(* A request begins                                                        *)

LEMMA BeginInv ==
  ASSUME Inv, NEW r \in Requests, Begin(r)
  PROVE  Inv'
<1>1. op[r].pc = "idle" /\ UNCHANGED <<rows, target, policies, alarms, unlisted, broken, faults>>
  BY DEF Begin, AWS, NoFault
<1>2. PICK i \in Inputs :
       LET others == IF i.kind \in Disturbing THEN DisturbingNow ELSE {} IN
       /\ op' = [q \in Requests |->
            IF q = r THEN [Idle EXCEPT !.pc = "last", !.in = i, !.alone = others = {}]
            ELSE IF q \in others THEN [op[q] EXCEPT !.alone = FALSE] ELSE op[q]]
       /\ promised' = CASE i.kind = "delete" -> {}
                        [] i.kind = "deletepolicy" -> promised \ i.policies
                        [] OTHER -> promised
       /\ deleted' = (deleted /\ i.kind # "put")
  BY DEF Begin
<1> DEFINE others == IF i.kind \in Disturbing THEN DisturbingNow ELSE {}
           o == [Idle EXCEPT !.pc = "last", !.in = i, !.alone = others = {}]
<1>3. op' = [q \in Requests |-> IF q = r THEN o
                                ELSE IF q \in others THEN [op[q] EXCEPT !.alone = FALSE] ELSE op[q]]
  BY <1>2
<1>4. /\ o \in Op /\ o.pc = "last" /\ o.in = i /\ o.alone = (others = {})
      /\ o.dd = None /\ o.names = {}
  BY <1>2 DEF Idle, Op, Pc
<1>5. /\ promised' \subseteq promised /\ (deleted' => deleted /\ i.kind # "put") /\ deleted' \in BOOLEAN
      /\ i.kind = "delete" => promised' = {}
      /\ i.kind = "deletepolicy" => promised' \cap i.policies = {}
  BY <1>2 DEF Inv, TypeOK
<1> HIDE DEF o, others
<1>6. op'[r] = o /\ op \in [Requests -> Op]
  BY <1>3 DEF Inv, TypeOK
<1>7. ASSUME NEW s \in Requests \ {r}
      PROVE  /\ op'[s] \in Op /\ op'[s].pc = op[s].pc /\ op'[s].in = op[s].in /\ op'[s].dd = op[s].dd
             /\ op'[s].todo = op[s].todo /\ op'[s].policy = op[s].policy
             /\ op'[s].names = op[s].names /\ op'[s].writeChanges = op[s].writeChanges
             /\ op'[s].at = op[s].at /\ op'[s].copy = op[s].copy
             /\ op'[s].alone => op[s].alone /\ s \notin others
             /\ s \in others => ~op'[s].alone
  <2>1. op[s] \in Op
    BY <1>6
  <2>2. CASE s \in others
    <3>1. op'[s] = [op[s] EXCEPT !.alone = FALSE]
      BY <1>3, <2>2
    <3> QED
      BY <2>1, <3>1 DEF Op
  <2>3. CASE s \notin others
    <3>1. op'[s] = op[s]
      BY <1>3, <2>3
    <3> QED
      BY <2>1, <2>3, <3>1
  <2> QED
    BY <2>2, <2>3
<1>8. op' \in [Requests -> Op]
  <2>1. \A q \in Requests : op'[q] \in Op
    BY <1>4, <1>6, <1>7
  <2>2. op' = [q \in Requests |-> op'[q]]
    BY <1>3
  <2> QED
    BY <2>1, <2>2
<1>9. ~Active(r) /\ ~Active(r)' /\ r \notin DisturbingNow
  BY <1>1, <1>4, <1>6 DEF Active, DisturbingNow, Running
<1>10. \A s \in Requests \ {r} :
         /\ Active(s)' <=> Active(s)
         /\ Kind(s)' = Kind(s) /\ Asked(s)' = Asked(s) /\ Takes(s)' = Takes(s)
         /\ s \in DisturbingNow' <=> s \in DisturbingNow
  BY <1>7 DEF Active, Kind, Asked, Takes, TakesOf, DisturbingNow, Running
<1>11. r \in DisturbingNow' => i.kind \in Disturbing /\ others = DisturbingNow
  BY <1>4, <1>6 DEF DisturbingNow, others
<1>12. TypeOK'
  BY <1>1, <1>5, <1>8 DEF Inv, TypeOK
<1>13. Last' = Last
  BY <1>1 DEF Last
<1>14. \A x : Taken(x) => Taken(x)'
  BY <1>9, <1>10 DEF Taken
<1>15. \A x : There(x) => There(x)'
  BY <1>1, <1>14 DEF There
<1>16. ASSUME NEW s \in Requests PROVE OpOK(s)' /\ CopyOK(s)'
  <2>1. CASE s = r
    BY <1>4, <1>6, <1>9, <2>1 DEF OpOK, CopyOK, KindOf, Carries
  <2>2. CASE s # r
    <3>1. OpOK(s) /\ CopyOK(s)
      BY DEF Inv
    <3>2. OpOK(s)'
      BY <1>7, <1>10, <2>2, <3>1 DEF OpOK, KindOf, Carries, NamesOK
    <3>3. CopyOK(s)'
      BY <1>1, <1>7, <2>2, <3>1 DEF CopyOK
    <3> QED
      BY <3>2, <3>3
  <2> QED
    BY <2>1, <2>2
<1>17. AloneOK'
  <2>1. AloneOK
    BY DEF Inv
  <2>2. ASSUME NEW s \in DisturbingNow', NEW t \in DisturbingNow', s # t
        PROVE  ~op'[s].alone
    <3>1. s \in Requests /\ t \in Requests
      BY DEF DisturbingNow, Running
    <3>2. CASE s = r
      BY <1>4, <1>6, <1>10, <1>11, <2>2, <3>1, <3>2
    <3>3. CASE t = r
      BY <1>7, <1>10, <1>11, <2>2, <3>1, <3>3
    <3>4. CASE s # r /\ t # r
      BY <1>7, <1>10, <2>1, <2>2, <3>1, <3>4 DEF AloneOK
    <3> QED
      BY <3>2, <3>3, <3>4
  <2>3. ASSUME NEW s \in DisturbingNow', Active(s)', op'[s].alone, Kind(s)' # "deploy"
        PROVE  /\ op'[s].dd.policyNames = Last.policyNames
               /\ op'[s].dd.resourceId = Last.resourceId
               /\ op'[s].pc = "put" => op'[s].at = Len(rows)
    <3>1. s \in Requests \ {r}
      BY <1>9, <2>3 DEF DisturbingNow, Running
    <3>2. s \in DisturbingNow /\ Active(s) /\ op[s].alone /\ Kind(s) # "deploy"
      BY <1>7, <1>10, <2>3, <3>1
    <3> QED
      BY <1>7, <2>1, <3>1, <3>2 DEF AloneOK
  <2> QED
    BY <1>1, <1>13, <2>2, <2>3 DEF AloneOK
<1>18. ListedOK'
  <2>1. ListedOK
    BY DEF Inv
  <2>2. ASSUME NEW s \in DisturbingNow', Active(s)', Kind(s)' # "delete" PROVE WillList(s)'
    <3>1. s \in Requests \ {r}
      BY <1>9, <2>2 DEF DisturbingNow, Running
    <3>2. WillList(s)
      BY <1>10, <2>1, <2>2, <3>1 DEF ListedOK
    <3> QED
      BY <1>1, <1>7, <1>14, <1>15, <3>1, <3>2 DEF WillList
  <2> QED
    BY <1>1, <1>13, <1>15, <2>1, <2>2 DEF ListedOK
<1>19. PromisedOK'
  <2>1. PromisedOK
    BY DEF Inv
  <2>3. Listed' \subseteq Listed
    BY <1>1, <1>5 DEF Listed
  <2>2. ASSUME NEW s \in DisturbingNow'
        PROVE  /\ Kind(s)' = "delete" => promised' = {}
               /\ Kind(s)' = "deletepolicy" => promised' \cap Asked(s)' = {}
               /\ Active(s)' => Listed' \subseteq op'[s].names \/ Blind(op'[s])
    <3>1. s \in Requests
      BY DEF DisturbingNow, Running
    <3>2. CASE s = r
      BY <1>4, <1>5, <1>6, <1>9, <3>2 DEF Kind, Asked
    <3>3. CASE s # r
      <4>1. s \in DisturbingNow
        BY <1>10, <3>1, <3>3
      <4> QED
        BY <1>5, <1>7, <1>10, <2>1, <2>3, <3>1, <3>3, <4>1 DEF PromisedOK, Blind
    <3> QED
      BY <3>2, <3>3
  <2> QED
    BY <1>1, <1>5, <1>13, <2>1, <2>2, <2>3 DEF PromisedOK
<1>20. DeletedOK'
  <2>1. DeletedOK
    BY DEF Inv
  <2>2. ASSUME NEW s \in DisturbingNow'
        PROVE  /\ deleted' =>
                  /\ Kind(s)' # "put"
                  /\ Active(s)' => /\ Kind(s)' = "deploy"
                                   /\ op'[s].dd # None => ~op'[s].dd.resourceId /\ op'[s].dd.policyNames = {}
               /\ Kind(s)' = "delete" /\ op'[s].alone /\ op'[s].pc \in {"read", "put"} =>
                    target = None /\ policies = {}
    <3>1. s \in Requests
      BY DEF DisturbingNow, Running
    <3>2. CASE s = r
      BY <1>4, <1>5, <1>6, <1>9, <3>2 DEF Kind
    <3>3. CASE s # r
      <4>1. s \in DisturbingNow
        BY <1>10, <3>1, <3>3
      <4> QED
        BY <1>5, <1>7, <1>10, <2>1, <3>1, <3>3, <4>1 DEF DeletedOK
    <3> QED
      BY <3>2, <3>3
  <2> QED
    BY <1>1, <1>5, <1>13, <2>1, <2>2 DEF DeletedOK
<1>21. \A k \in 1..Len(rows') : Listing(rows'[k])
  BY <1>1 DEF Inv
<1> QED
  BY <1>12, <1>16, <1>17, <1>18, <1>19, <1>20, <1>21 DEF Inv

\* A request that has read nothing yet has nothing to lose.
LEMMA NotTaken ==
  ASSUME NEW r \in Requests, OthersStay(r), ~Active(r), NEW x, Taken(x)
  PROVE  Taken(x)'
<1>1. PICK s \in Requests : Active(s) /\ x \in Takes(s)
  BY DEF Taken
<1>2. Active(s)' /\ x \in Takes(s)'
  BY <1>1 DEF OthersStay, Active, Takes
<1> QED
  BY <1>2 DEF Taken

LEMMA RefusedInv ==
  ASSUME Inv, NEW r \in Requests, op[r].pc = "last", Refused(r),
         UNCHANGED <<rows, target, policies, alarms>>, faults' \in Nat
  PROVE  Inv'
<1>1. /\ op' \in [Requests -> Op] /\ op'[r].pc = "over" /\ OthersStay(r)
      /\ UNCHANGED <<promised, unlisted, deleted, broken>>
  BY IsOver DEF Refused, OthersStay, History
<1>2. OpOK(r)' /\ CopyOK(r)' /\ ~Active(r)' /\ r \notin DisturbingNow'
  BY <1>1, OverOK
<1>3. TypeOK'
  BY <1>1 DEF Inv, TypeOK
<1>4. AloneOK'
  BY <1>1, <1>2, AloneKept
<1>5. ListedOK'
  <2>1. \A x : Taken(x) => Taken(x)'
    BY <1>1, NotTaken DEF Active
  <2> QED
    BY <1>1, <1>2, <2>1, ListedKept
<1>6. PromisedOK'
  BY <1>1, <1>2, PromisedKept
<1>7. DeletedOK'
  <2>1. deleted' => deleted /\ target' = None /\ policies' = {}
    BY <1>1 DEF Inv, DeletedOK
  <2> QED
    BY <1>1, <1>2, <2>1, DeletedKept
<1>8. \A s \in Requests : OpOK(s)' /\ CopyOK(s)'
  BY <1>1, <1>2, OpsKept
<1>9. \A i \in 1..Len(rows') : Listing(rows'[i])
  BY DEF Inv
<1> QED
  BY <1>3, <1>4, <1>5, <1>6, <1>7, <1>8, <1>9 DEF Inv

\* A request goes to work with the row it has read, or, a deploy, without one.
LEMMA Activates ==
  ASSUME Inv, NEW r \in Requests, op[r].pc = "last", NEW o \in Op, To(r, o),
         o.pc \in {"target", "deletepolicy", "new", "put"},
         o.in = op[r].in /\ o.alone = op[r].alone, KindOf(o), NamesOK(o),
         Changes(r) => o.dd = Last /\ o.dd \in Row,
         o.dd \in {None, Last}, o.pc = "put" => o.at = Len(rows) /\ o.copy = Last /\ ~Changes(r),
         o.names \subseteq Last.policyNames,
         Kind(r) \in Disturbing => Listed \subseteq o.names \/ Blind(o),
         Kind(r) \in {"delete", "deletepolicy"} => Last.resourceId,
         UNCHANGED <<rows, target, policies, alarms>>, UNCHANGED History,
         deleted => Kind(r) # "put", faults' \in Nat
  PROVE  Inv'
<1>1. /\ op' \in [Requests -> Op] /\ op'[r] = o /\ OthersStay(r)
      /\ UNCHANGED <<promised, unlisted, deleted, broken>>
  BY Moves DEF OthersStay, History
<1>2. Active(r)' /\ ~Active(r) /\ Kind(r)' = Kind(r) /\ Asked(r)' = Asked(r)
  BY <1>1 DEF Active, Kind, Asked
<1>3. r \in DisturbingNow <=> Kind(r) \in Disturbing
  BY DEF DisturbingNow, Running, Kind
<1>4. r \in DisturbingNow' <=> Kind(r) \in Disturbing
  BY <1>1 DEF DisturbingNow, Running, Kind
<1>5. OpOK(r)'
  <2>1. Carries(o)
    BY DEF Carries, Changes, Kind
  <2> QED
    BY <1>1, <2>1 DEF OpOK
<1>6. CopyOK(r)'
  <2> SUFFICES ASSUME o.pc = "put" PROVE CopyOK(r)'
    BY <1>1 DEF CopyOK
  <2>1. o.at \in 1..Len(rows) /\ o.copy \in Row /\ rows[o.at] = o.copy
    BY LastRow DEF Inv, Last
  <2>2. o.copy.version >= o.copy.version
    BY <2>1, RowFields
  <2> QED
    BY <1>1, <2>1, <2>2 DEF CopyOK
<1>7. TypeOK'
  BY <1>1 DEF Inv, TypeOK
<1>8. AloneOK'
  <2>1. Kind(r) \in Disturbing /\ Kind(r) # "deploy" => Changes(r)
    BY DEF Disturbing, Changes
  <2> QED
    BY <1>1, <1>2, <1>3, <1>4, <2>1, AloneKept
<1>9. ListedOK'
  <2>1. \A x : Taken(x) => Taken(x)'
    BY <1>1, <1>2, NotTaken
  <2>2. \A x \in Last.policyNames \ broken' : There(x)'
    BY <1>1, <2>1 DEF Inv, ListedOK, There
  <2>3. WillList(r)'
    BY <1>1, <2>2 DEF WillList
  <2> QED
    BY <1>1, <2>1, <2>3, ListedKept
<1>10. PromisedOK'
  BY <1>1, <1>2, <1>3, <1>4, PromisedKept
<1>11. DeletedOK'
  <2>1. deleted => /\ target = None /\ policies = {} /\ ~Last.resourceId /\ Last.policyNames = {}
    BY DEF Inv, DeletedOK
  <2>2. Kind(r) \in Disturbing /\ deleted => Kind(r) = "deploy"
    BY <2>1 DEF Disturbing
  <2>3. Kind(r) = "delete" => o.pc \notin {"read", "put"}
    BY DEF Changes
  <2> QED
    BY <1>1, <1>2, <1>3, <1>4, <2>1, <2>2, <2>3, DeletedKept
<1>12. \A s \in Requests : OpOK(s)' /\ CopyOK(s)'
  BY <1>1, <1>5, <1>6, OpsKept
<1>13. \A i \in 1..Len(rows') : Listing(rows'[i])
  BY DEF Inv
<1> QED
  BY <1>7, <1>8, <1>9, <1>10, <1>11, <1>12, <1>13 DEF Inv

LEMMA GetLastDeployInv ==
  ASSUME Inv, NEW r \in Requests, GetLastDeploy(r)
  PROVE  Inv'
<1> DEFINE known == [op[r] EXCEPT !.dd = Last, !.names = Last.policyNames]
<1>1. op[r].pc = "last" /\ UNCHANGED <<rows, target, policies, alarms, faults>> /\ faults' \in Nat
  BY DEF GetLastDeploy, AWS, NoFault, Inv, TypeOK
<1>2. /\ op[r] \in Op /\ op[r].in \in Inputs /\ op[r].in.kind \in Kinds
      /\ op[r].in.policies \subseteq PolicyNames /\ op[r].dd = None /\ op[r].names = {}
  BY <1>1, InputFields DEF Inv, TypeOK, OpOK, KindOf
<1>3. /\ Last \in Row /\ Last.policyNames \subseteq PolicyNames /\ Last # None
      /\ Len(rows) \in Nat /\ Listing(Last)
  BY LastRow, RowFields DEF Inv, Last
<1>4. PromisedOK /\ DeletedOK
  BY DEF Inv
<1>5. r \in DisturbingNow <=> Kind(r) \in Disturbing
  BY <1>1 DEF DisturbingNow, Running, Kind
<1>6. Listed \subseteq Last.policyNames /\ (Kind(r) = "put" => ~deleted)
  BY <1>4, <1>5 DEF PromisedOK, DeletedOK, Disturbing
<1>7. CASE Kind(r) = "put" /\ UNCHANGED History
           /\ To(r, [known EXCEPT !.pc = "target", !.todo = Asked(r) \ Last.policyNames])
  <2> DEFINE o == [known EXCEPT !.pc = "target", !.todo = Asked(r) \ Last.policyNames]
  <2>1. To(r, o)
    BY <1>7
  <2>2. /\ o \in Op /\ o.pc = "target" /\ o.in = op[r].in /\ o.alone = op[r].alone
        /\ o.dd = Last /\ o.names = Last.policyNames /\ o.todo = op[r].in.policies \ Last.policyNames
    BY <1>2, <1>3 DEF Op, Pc, Asked
  <2> HIDE DEF o
  <2>3. KindOf(o)
    BY <1>2, <1>7, <2>2 DEF KindOf, Kind
  <2>4. NamesOK(o)
    BY <1>3, <1>7, <2>2 DEF NamesOK, Kind
  <2> QED
    BY <1>1, <1>3, <1>6, <1>7, <2>1, <2>2, <2>3, <2>4, Activates
<1>8. CASE Kind(r) = "deletepolicy" /\ UNCHANGED History /\ Last.resourceId
           /\ To(r, [known EXCEPT !.pc = "deletepolicy", !.todo = Asked(r), !.names = @ \ Asked(r)])
  <2> DEFINE o == [known EXCEPT !.pc = "deletepolicy", !.todo = Asked(r), !.names = @ \ Asked(r)]
  <2>1. To(r, o)
    BY <1>8
  <2>2. /\ o \in Op /\ o.pc = "deletepolicy" /\ o.in = op[r].in /\ o.alone = op[r].alone
        /\ o.dd = Last /\ o.names = Last.policyNames \ op[r].in.policies
        /\ o.todo = op[r].in.policies
    BY <1>2, <1>3 DEF Op, Pc, Asked
  <2> HIDE DEF o
  <2>3. KindOf(o)
    BY <1>2, <1>8, <2>2 DEF KindOf, Kind
  <2>4. NamesOK(o)
    BY <1>3, <1>8, <2>2 DEF NamesOK, Kind
  <2>5. Listed \subseteq o.names
    BY <1>4, <1>5, <1>6, <1>8, <2>2 DEF PromisedOK, Disturbing, Asked, Listed
  <2> QED
    BY <1>1, <1>3, <1>6, <1>8, <2>1, <2>2, <2>3, <2>4, <2>5, Activates
<1>9. CASE Kind(r) = "delete" /\ UNCHANGED History /\ Last.resourceId
           /\ To(r, [known EXCEPT !.pc = "deletepolicy", !.todo = Last.policyNames])
  <2> DEFINE o == [known EXCEPT !.pc = "deletepolicy", !.todo = Last.policyNames]
  <2>1. To(r, o)
    BY <1>9
  <2>2. /\ o \in Op /\ o.pc = "deletepolicy" /\ o.in = op[r].in /\ o.alone = op[r].alone
        /\ o.dd = Last /\ o.names = Last.policyNames /\ o.todo = Last.policyNames
    BY <1>2, <1>3 DEF Op, Pc
  <2> HIDE DEF o
  <2>3. KindOf(o)
    BY <1>2, <1>9, <2>2 DEF KindOf, Kind
  <2>4. NamesOK(o)
    BY <1>3, <1>9, <2>2 DEF NamesOK, Kind
  <2> QED
    BY <1>1, <1>3, <1>6, <1>9, <2>1, <2>2, <2>3, <2>4, Activates
<1>10. CASE Kind(r) = "deploy" /\ UNCHANGED History /\ To(r, [known EXCEPT !.pc = "new"])
  <2> DEFINE o == [known EXCEPT !.pc = "new"]
  <2>1. To(r, o)
    BY <1>10
  <2>2. /\ o \in Op /\ o.pc = "new" /\ o.in = op[r].in /\ o.alone = op[r].alone
        /\ o.dd = Last /\ o.names = Last.policyNames
    BY <1>2, <1>3 DEF Op, Pc
  <2> HIDE DEF o
  <2>3. KindOf(o)
    BY <1>2, <1>10, <2>2 DEF KindOf, Kind
  <2>4. NamesOK(o)
    BY <1>3, <1>10, <2>2 DEF NamesOK, Kind
  <2> QED
    BY <1>1, <1>3, <1>6, <1>10, <2>1, <2>2, <2>3, <2>4, Activates
<1>11. CASE Kind(r) \in {"scale", "status"} /\ UNCHANGED History
            /\ To(r, [op[r] EXCEPT !.pc = "put", !.at = Len(rows), !.copy = Last])
  <2> DEFINE o == [op[r] EXCEPT !.pc = "put", !.at = Len(rows), !.copy = Last]
  <2>1. To(r, o)
    BY <1>11
  <2>2. /\ o \in Op /\ o.pc = "put" /\ o.in = op[r].in /\ o.alone = op[r].alone
        /\ o.dd = None /\ o.names = {} /\ o.at = Len(rows) /\ o.copy = Last
    BY <1>2, <1>3 DEF Op, Pc
  <2> HIDE DEF o
  <2>3. KindOf(o)
    BY <1>2, <1>11, <2>2 DEF KindOf, Kind
  <2>4. NamesOK(o)
    BY <1>11, <2>2 DEF NamesOK, Kind
  <2>5. ~Changes(r) /\ Kind(r) \notin Disturbing
    BY <1>11 DEF Changes, Disturbing
  <2> QED
    BY <1>1, <1>3, <1>6, <1>11, <2>1, <2>2, <2>3, <2>4, <2>5, Activates
<1>12. CASE Refused(r)
  BY <1>1, <1>12, RefusedInv
<1> QED
  BY <1>7, <1>8, <1>9, <1>10, <1>11, <1>12 DEF GetLastDeploy

LEMMA GetLastDeployFailsInv ==
  ASSUME Inv, NEW r \in Requests, GetLastDeployFails(r)
  PROVE  Inv'
<1>1. op[r].pc = "last" /\ UNCHANGED <<rows, target, policies, alarms>> /\ faults' \in Nat
  BY DEF GetLastDeployFails, AWS, Fault, Inv, TypeOK
<1>2. CASE Kind(r) = "deploy"
  <2> DEFINE o == [op[r] EXCEPT !.pc = "new"]
  <2>1. To(r, o) /\ UNCHANGED History
    BY <1>2 DEF GetLastDeployFails, Goes
  <2>2. op[r] \in Op /\ op[r].in \in Inputs /\ op[r].dd = None /\ op[r].names = {}
    BY <1>1 DEF Inv, TypeOK, OpOK, KindOf
  <2>3. /\ o \in Op /\ o.pc = "new" /\ o.in = op[r].in /\ o.alone = op[r].alone
        /\ o.dd = None /\ o.names = {}
    BY <2>2 DEF Op, Pc
  <2> HIDE DEF o
  <2>4. KindOf(o)
    BY <1>2, <2>2, <2>3 DEF KindOf, Kind
  <2>5. NamesOK(o)
    BY <1>2, <2>3 DEF NamesOK, Kind
  <2>6. ~Changes(r)
    BY <1>2 DEF Changes
  <2> QED
    BY <1>1, <1>2, <2>1, <2>3, <2>4, <2>5, <2>6, Activates DEF Blind
<1>3. CASE Kind(r) # "deploy"
  <2>1. Refused(r)
    BY <1>3 DEF GetLastDeployFails
  <2> QED
    BY <1>1, <2>1, RefusedInv
<1> QED
  BY <1>2, <1>3

-----------------------------------------------------------------------------
(* A request is answered                                                   *)

\* Where no other request deletes anything, what is there is really there.
LEMMA AloneThere ==
  ASSUME Inv, NEW r \in DisturbingNow, op[r].alone, NEW x, There(x), x \notin Takes(r)
  PROVE  x \in policies \cap alarms
<1>1. ASSUME NEW s \in Requests, Active(s), x \in Takes(s) PROVE FALSE
  <2>1. s \in DisturbingNow
    BY <1>1, ActiveOp DEF Takes, TakesOf, DisturbingNow, Disturbing
  <2> QED
    BY <1>1, <2>1 DEF Inv, AloneOK
<1> QED
  BY <1>1 DEF There, Taken

\* How a request that is answered leaves what was promised, deleted and broken: a
\* request that is alone may add to what is promised, or to what is deleted.
LEMMA AnswerInv ==
  ASSUME Inv, NEW r \in Requests, Active(r), OthersStay(r), op' \in [Requests -> Op],
         op'[r].pc = "over", UNCHANGED <<target, policies, alarms>>, faults' \in Nat,
         rows' \in Seq(Row), rows' # << >>, \A i \in 1..Len(rows') : Listing(rows'[i]),
         \A s \in Requests \ {r} : CopyOK(s)',
         \/ r \in DisturbingNow
         \/ /\ Last'.policyNames = Last.policyNames /\ Last'.resourceId = Last.resourceId
            /\ Len(rows') = Len(rows),
         \/ /\ promised' = promised /\ unlisted \subseteq unlisted'
            /\ deleted' = deleted /\ broken' = broken \cup Deletes(r)
         \/ /\ r \in DisturbingNow /\ op[r].alone /\ broken' = broken /\ deleted' \in BOOLEAN
            /\ promised' \subseteq promised \cup (Last'.policyNames \ broken'),
         Listed' \subseteq Last'.policyNames, unlisted' \subseteq PolicyNames,
         \A x \in Last'.policyNames \ broken' : There(x) /\ x \notin Takes(r),
         deleted' => target = None /\ policies = {} /\ ~Last'.resourceId /\ Last'.policyNames = {}
  PROVE  Inv'
<1>1. r \notin DisturbingNow' /\ OpOK(r)' /\ CopyOK(r)'
  BY OverOK
<1>2. AloneOK /\ ListedOK /\ PromisedOK /\ DeletedOK
  BY DEF Inv
<1>3. /\ Deletes(r) \subseteq PolicyNames /\ Takes(r) \subseteq Deletes(r)
      /\ Deletes(r) \cap promised = {}
  BY DeletesTaken
<1>4. ASSUME NEW s \in DisturbingNow'
      PROVE  /\ s \in Requests \ {r} /\ s \in DisturbingNow /\ op'[s] = op[s]
             /\ (Active(s)' <=> Active(s)) /\ Kind(s)' = Kind(s) /\ Asked(s)' = Asked(s)
  <2>1. s \in Requests \ {r}
    BY <1>1 DEF DisturbingNow, Running
  <2> QED
    BY <2>1, OtherDisturbing DEF OthersStay
\* A request that disturbs others is not alone.
<1>5. ASSUME NEW s \in DisturbingNow'
      PROVE  /\ promised' = promised /\ unlisted \subseteq unlisted'
             /\ deleted' = deleted /\ broken' = broken \cup Deletes(r)
  <2>1. r \in DisturbingNow => ~op[r].alone
    BY <1>2, <1>4 DEF AloneOK
  <2> QED
    BY <2>1
<1>12. promised' \subseteq (policies' \cap alarms') \ broken'
  <2>1. promised \subseteq (policies \cap alarms) \ broken /\ promised \cap Deletes(r) = {}
    BY <1>2, <1>3 DEF PromisedOK
  <2>2. CASE promised' = promised /\ broken' = broken \cup Deletes(r)
    BY <2>1, <2>2
  <2>3. CASE /\ r \in DisturbingNow /\ op[r].alone /\ broken' = broken
             /\ promised' \subseteq promised \cup (Last'.policyNames \ broken')
    <3>1. \A x \in Last'.policyNames \ broken' : x \in policies \cap alarms
      BY <2>3, AloneThere
    <3> QED
      BY <2>1, <2>3, <3>1
  <2> QED
    BY <2>2, <2>3
<1>6. TypeOK'
  <2>1. Len(rows') \in 1..Len(rows')
    <3>1. Len(rows') \in Nat /\ Len(rows') # 0
      BY EmptySeq
    <3> QED
      BY <3>1
  <2>2. Last' \in Row
    BY <2>1, ElementOfSeq DEF Last
  <2>3. Last'.policyNames \subseteq PolicyNames
    BY <2>2, RowFields
  <2>4. broken' \subseteq PolicyNames /\ deleted' \in BOOLEAN
    BY <1>3 DEF Inv, TypeOK
  <2> QED
    BY <1>12, <2>3, <2>4 DEF Inv, TypeOK
<1>7. \A s \in Requests : OpOK(s)' /\ CopyOK(s)'
  <2> SUFFICES ASSUME NEW s \in Requests \ {r} PROVE OpOK(s)'
    BY <1>1
  <2>1. op'[s] = op[s] /\ OpOK(s)
    BY DEF OthersStay, Inv
  <2> QED
    BY <2>1 DEF OpOK, Active
<1>8. AloneOK'
  <2>1. \A s, t \in DisturbingNow' : s # t => ~op'[s].alone
    BY <1>2, <1>4 DEF AloneOK
  <2>2. ASSUME NEW s \in DisturbingNow', Active(s)', op'[s].alone, Kind(s)' # "deploy"
        PROVE  /\ op'[s].dd.policyNames = Last'.policyNames
               /\ op'[s].dd.resourceId = Last'.resourceId
               /\ op'[s].pc = "put" => op'[s].at = Len(rows')
    <3>1. r \notin DisturbingNow
      BY <1>2, <1>4, <2>2 DEF AloneOK
    <3> QED
      BY <1>2, <1>4, <2>2, <3>1 DEF AloneOK
  <2> QED
    BY <2>1, <2>2 DEF AloneOK
<1>9. ListedOK'
  <2>1. ASSUME NEW x \in Last'.policyNames \ broken' PROVE There(x)'
    <3>1. There(x) /\ x \notin Takes(r)
      OBVIOUS
    <3>2. CASE x \in policies \cap alarms
      BY <3>2 DEF There
    <3>3. CASE Taken(x)
      <4>1. x \in broken' \/ Taken(x)'
        BY <3>1, <3>3, TakenKept
      <4> QED
        BY <4>1 DEF There
    <3> QED
      BY <3>1, <3>2, <3>3 DEF There
  <2>2. ASSUME NEW s \in DisturbingNow', Active(s)', Kind(s)' # "delete" PROVE WillList(s)'
    <3>1. broken' = broken \cup Deletes(r)
      BY <1>5
    <3>2. \A x : Taken(x) => x \in broken' \/ Taken(x)'
      BY <1>3, <3>1, TakenKept
    <3>3. \A x : There(x) => x \in broken' \/ There(x)'
      BY <3>2 DEF There
    <3>4. WillList(s)
      BY <1>2, <1>4, <2>2 DEF ListedOK
    <3>5. \A x \in op'[s].names \ broken' : There(x)'
      BY <1>4, <3>1, <3>3, <3>4 DEF WillList
    <3>6. ASSUME op'[s].pc = "alarm"
          PROVE  \E x \in {op'[s].policy} : x \in broken' \cup policies' \/ Taken(x)'
      <4>1. PICK x : x = op[s].policy
        OBVIOUS
      <4>2. x \in broken \/ x \in policies \/ Taken(x)
        BY <1>4, <3>4, <3>6, <4>1 DEF WillList
      <4> QED
        BY <1>4, <3>1, <3>2, <4>1, <4>2
    <3> QED
      BY <3>5, <3>6 DEF WillList
  <2> QED
    BY <2>1, <2>2 DEF ListedOK
<1>10. PromisedOK'
  <2>1. ASSUME NEW s \in DisturbingNow' PROVE Listed' \subseteq Listed
    BY <1>5 DEF Listed
  <2> QED
    BY <1>2, <1>4, <1>5, <1>12, <2>1 DEF PromisedOK
<1>11. DeletedOK'
  <2>1. ASSUME NEW s \in DisturbingNow'
        PROVE  /\ deleted' =>
                  /\ Kind(s)' # "put"
                  /\ Active(s)' => /\ Kind(s)' = "deploy"
                                   /\ op'[s].dd # None => ~op'[s].dd.resourceId /\ op'[s].dd.policyNames = {}
               /\ Kind(s)' = "delete" /\ op'[s].alone /\ op'[s].pc \in {"read", "put"} =>
                    target = None /\ policies = {}
    BY <1>2, <1>4, <1>5 DEF DeletedOK
  <2> QED
    BY <2>1 DEF DeletedOK
<1> QED
  BY <1>6, <1>7, <1>8, <1>9, <1>10, <1>11 DEF Inv

\* What an answer makes of what was promised, deleted and broken.
LEMMA Outcome ==
  ASSUME Inv, NEW r \in Requests, OKOrLost(r)
  PROVE  /\ op' \in [Requests -> Op] /\ op'[r].pc = "over" /\ OthersStay(r) /\ faults' \in Nat
         /\ \/ UNCHANGED <<promised, unlisted, deleted>> /\ broken' = broken \cup Deletes(r)
            \/ /\ op[r].alone /\ broken' = broken
               /\ Kind(r) = "put" => /\ promised' = promised \cup (Asked(r) \ broken)
                                     /\ unlisted' = unlisted \ Asked(r) /\ deleted' = deleted
               /\ Kind(r) = "delete" => UNCHANGED <<promised, unlisted>> /\ deleted' = TRUE
               /\ Kind(r) \notin {"put", "delete"} => UNCHANGED <<promised, unlisted, deleted>>
<1>1. Over(r) /\ faults' \in Nat
  BY DEF OKOrLost, OK, Fails, NoFault, Fault, Inv, TypeOK
<1>2. op' \in [Requests -> Op] /\ op'[r].pc = "over" /\ OthersStay(r)
  BY <1>1, IsOver DEF OthersStay
<1>3. CASE Fails(r)
  BY <1>1, <1>2, <1>3 DEF Fails
<1>4. CASE OK(r)
  <2>1. deleted \in BOOLEAN
    BY DEF Inv, TypeOK
  <2>2. CASE op[r].alone
    <3>1. broken' = broken
      BY <1>4, <2>2 DEF OK
    <3>2. CASE Kind(r) = "put"
      BY <1>1, <1>2, <1>4, <2>1, <2>2, <3>1, <3>2 DEF OK
    <3>3. CASE Kind(r) = "delete"
      BY <1>1, <1>2, <1>4, <2>1, <2>2, <3>1, <3>3 DEF OK
    <3>4. CASE Kind(r) \notin {"put", "delete"}
      BY <1>1, <1>2, <1>4, <2>1, <2>2, <3>1, <3>4 DEF OK
    <3> QED
      BY <3>2, <3>3, <3>4
  <2>3. CASE ~op[r].alone
    BY <1>1, <1>2, <1>4, <2>1, <2>3 DEF OK
  <2> QED
    BY <2>2, <2>3
<1> QED
  BY <1>3, <1>4 DEF OKOrLost

LEMMA PoliciesDoneInv ==
  ASSUME Inv, NEW r \in Requests, PoliciesDone(r)
  PROVE  Inv'
<1>1. /\ Active(r) /\ Changes(r) /\ op[r] \in Op /\ KindOf(op[r]) /\ NamesOK(op[r])
      /\ op[r].pc = "policy" /\ op[r].todo = {}
      /\ UNCHANGED <<rows, target, policies, alarms>>
  BY AtWork DEF PoliciesDone, AWS
<1>2. Kind(r) = "put" /\ AWSTypes
  BY <1>1, AtWork DEF KindOf, Kind, AWSTypes
<1>3. CASE op[r].writeChanges
  <2> DEFINE o == [op[r] EXCEPT !.pc = "read"]
  <2>1. Answered(r, o)
    BY <1>3 DEF PoliciesDone, Goes, Answered, NoFault
  <2>2. /\ o \in Op /\ o.pc = "read" /\ o.in = op[r].in /\ o.dd = op[r].dd
        /\ o.alone = op[r].alone /\ o.names = op[r].names /\ o.todo = op[r].todo
    BY <1>1 DEF Op, Pc
  <2> HIDE DEF o
  <2>3. KindOf(o) /\ NamesOK(o)
    BY <1>1, <1>2, <2>2 DEF KindOf, NamesOK, Kind
  <2> QED
    BY <1>1, <1>2, <2>1, <2>2, <2>3, TakesNothing, AnsweredInv
<1>4. CASE ~op[r].writeChanges
  <2>1. OKOrLost(r)
    BY <1>4 DEF PoliciesDone, OKOrLost
  <2>2. /\ op' \in [Requests -> Op] /\ op'[r].pc = "over" /\ OthersStay(r) /\ faults' \in Nat
        /\ broken' = broken /\ deleted' = deleted
        /\ \/ UNCHANGED <<promised, unlisted>>
           \/ /\ op[r].alone /\ promised' = promised \cup (Asked(r) \ broken)
              /\ unlisted' = unlisted \ Asked(r)
    BY <1>2, <2>1, Outcome, TakesNothing
  <2>3. r \in DisturbingNow /\ ~deleted /\ Takes(r) = {} /\ Deletes(r) = {} /\ Last' = Last
    BY <1>1, <1>2, Deleting, TakesNothing DEF Last
  <2>9. op[r].alone => Asked(r) \subseteq Last.policyNames
    <3>1. Asked(r) \subseteq op[r].dd.policyNames
      BY <1>1, <1>2, <1>4 DEF NamesOK, Kind, Asked
    <3>2. op[r].alone => op[r].dd.policyNames = Last.policyNames
      BY <1>1, <1>2, <2>3 DEF Inv, AloneOK
    <3> QED
      BY <3>1, <3>2
  <2>4. Listed' \subseteq Last'.policyNames /\ unlisted' \subseteq PolicyNames
    <3>1. Listed \subseteq Last.policyNames /\ unlisted \subseteq PolicyNames
      BY DEF Inv, PromisedOK, TypeOK
    <3> QED
      BY <2>2, <2>3, <2>9, <3>1 DEF Listed
  <2>5. \A x \in Last'.policyNames \ broken' : There(x) /\ x \notin Takes(r)
    BY <2>2, <2>3 DEF Inv, ListedOK
  <2>6. rows' \in Seq(Row) /\ rows' # << >> /\ \A i \in 1..Len(rows') : Listing(rows'[i])
    BY <1>1 DEF Inv, TypeOK
  <2>7. \A s \in Requests \ {r} : CopyOK(s)'
    BY <1>1, <2>2 DEF Inv, CopyOK, OthersStay
  <2>8. \/ /\ promised' = promised /\ unlisted \subseteq unlisted'
           /\ deleted' = deleted /\ broken' = broken \cup Deletes(r)
        \/ /\ r \in DisturbingNow /\ op[r].alone /\ broken' = broken /\ deleted' \in BOOLEAN
           /\ promised' \subseteq promised \cup (Last'.policyNames \ broken')
    BY <2>2, <2>3, <2>9 DEF Inv, TypeOK
  <2> QED
    BY <1>1, <2>2, <2>3, <2>4, <2>5, <2>6, <2>7, <2>8, AnswerInv
<1> QED
  BY <1>3, <1>4

\* The row that is written: a new version of the row that was read.
LEMMA WrittenRow ==
  ASSUME Inv, NEW r \in Requests, Active(r), op[r].pc = "put"
  PROVE  /\ Written(r) \in Row /\ Written(r).version = op[r].copy.version + 1 /\ op[r].copy \in Row
         /\ Changes(r) => /\ Written(r).policyNames = Names(r)
                          /\ Written(r).resourceId = (Kind(r) # "delete")
         /\ ~Changes(r) => /\ Written(r).policyNames = op[r].copy.policyNames
                           /\ Written(r).resourceId = op[r].copy.resourceId
<1> DEFINE c == op[r].copy
<1>1. /\ c \in Row /\ op[r] \in Op /\ op[r].in \in Inputs /\ op[r].in.count \in Counts
      /\ op[r].names \subseteq PolicyNames /\ Carries(op[r])
  BY ActiveOp, OpFields, InputFields DEF CopyOK
<1>2. /\ Changed(r) \in Row /\ Changed(r).version = c.version
      /\ Changes(r) => /\ Changed(r).policyNames = Names(r)
                       /\ Changed(r).resourceId = (Kind(r) # "delete")
      /\ ~Changes(r) => /\ Changed(r).policyNames = c.policyNames
                        /\ Changed(r).resourceId = c.resourceId
  <2>1. CASE Changes(r)
    <3>1. op[r].dd \in Row
      BY <1>1, <2>1 DEF Carries, Changes, Kind
    <3>2. Count(r) \in Counts /\ Names(r) \in SUBSET PolicyNames
      BY <1>1, <3>1, RowFields DEF Count, Names
    <3>3. PICK n \in Counts, names \in SUBSET PolicyNames : n = Count(r) /\ names = Names(r)
      BY <3>2
    <3>4. PICK x \in BOOLEAN : x = (Kind(r) # "delete")
      OBVIOUS
    <3>5. Changed(r) = [c EXCEPT !.count = n, !.policyNames = names, !.resourceId = x]
      BY <2>1, <3>3, <3>4 DEF Changed, Changes
    <3> HIDE DEF c
    <3>6. /\ [c EXCEPT !.count = n, !.policyNames = names, !.resourceId = x] \in Row
          /\ [c EXCEPT !.count = n, !.policyNames = names, !.resourceId = x].version = c.version
          /\ [c EXCEPT !.count = n, !.policyNames = names, !.resourceId = x].policyNames = names
          /\ [c EXCEPT !.count = n, !.policyNames = names, !.resourceId = x].resourceId = x
      BY <1>1 DEF Row
    <3> QED
      BY <2>1, <3>3, <3>4, <3>5, <3>6
  <2>2. CASE ~Changes(r)
    <3>1. Changed(r) = c \/ Changed(r) = [c EXCEPT !.count = op[r].in.count]
      BY <2>2 DEF Changed, Changes, Count
    <3>2. CASE Changed(r) = c
      BY <1>1, <2>2, <3>2
    <3>3. CASE Changed(r) = [c EXCEPT !.count = op[r].in.count]
      <4>1. ASSUME NEW b \in Row, NEW n \in Counts
            PROVE  /\ [b EXCEPT !.count = n] \in Row /\ [b EXCEPT !.count = n].version = b.version
                   /\ [b EXCEPT !.count = n].policyNames = b.policyNames
                   /\ [b EXCEPT !.count = n].resourceId = b.resourceId
        BY DEF Row
      <4> QED
        BY <1>1, <2>2, <3>3, <4>1
    <3> QED
      BY <3>1, <3>2, <3>3
  <2> QED
    BY <2>1, <2>2
<1>3. ASSUME NEW b \in Row
      PROVE  /\ [b EXCEPT !.version = @ + 1] \in Row
             /\ [b EXCEPT !.version = @ + 1].version = b.version + 1
             /\ [b EXCEPT !.version = @ + 1].policyNames = b.policyNames
             /\ [b EXCEPT !.version = @ + 1].resourceId = b.resourceId
  BY DEF Row
<1>4. Written(r) = [Changed(r) EXCEPT !.version = @ + 1]
  BY DEF Written
<1> QED
  BY <1>1, <1>2, <1>3, <1>4

\* A conflict is an error: only the row that was read is written.
LEMMA PutRowInv ==
  ASSUME Inv, NEW r \in Requests, PutRow(r)
  PROVE  Inv'
<1>1. op[r].pc = "put" /\ Active(r) /\ UNCHANGED <<target, policies, alarms>>
  BY DEF PutRow, Active, AWS
<1>2. /\ op[r] \in Op /\ KindOf(op[r]) /\ NamesOK(op[r]) /\ CopyOK(r) /\ Kind(r) \in Kinds
  BY <1>1, ActiveOp
<1>3. CASE ~SameVersion(r)
  <2>1. Fails(r) /\ UNCHANGED rows /\ faults' \in Nat
    BY <1>3 DEF PutRow, NoFault, Inv, TypeOK
  <2>2. AWSTypes
    BY <1>1 DEF AWSTypes, Inv, TypeOK
  <2> QED
    BY <1>1, <2>1, <2>2, FailsInv
<1>4. CASE SameVersion(r)
  <2> DEFINE k == op[r].at
             w == Written(r)
  <2>1. rows' = [rows EXCEPT ![k] = w] /\ OKOrLost(r)
    BY <1>4 DEF PutRow
  <2>2. k \in 1..Len(rows) /\ rows[k] = op[r].copy /\ op[r].copy \in Row
    BY <1>1, <1>2, <1>4 DEF CopyOK, SameVersion
  <2>3. /\ w \in Row /\ w.version = rows[k].version + 1
        /\ Changes(r) => w.policyNames = Names(r) /\ w.resourceId = (Kind(r) # "delete")
        /\ ~Changes(r) => w.policyNames = rows[k].policyNames /\ w.resourceId = rows[k].resourceId
    BY <1>1, <2>2, WrittenRow
  <2> HIDE DEF w
  <2>4. /\ rows' \in Seq(Row) /\ Len(rows') = Len(rows) /\ rows' # << >>
        /\ \A i \in 1..Len(rows) : rows'[i] = IF i = k THEN w ELSE rows[i]
    <3>1. rows \in Seq(Row) /\ rows # << >>
      BY DEF Inv, TypeOK
    <3>2. /\ rows' \in Seq(Row) /\ Len(rows') = Len(rows)
          /\ \A i \in 1..Len(rows) : rows'[i] = IF i = k THEN w ELSE rows[i]
      BY <2>1, <2>2, <2>3, <3>1, ExceptSeq
    <3>3. Len(rows') # 0
      BY <3>1, <3>2, EmptySeq
    <3> QED
      BY <3>2, <3>3, EmptySeq
  <2>5. /\ Last' = IF k = Len(rows) THEN w ELSE Last
        /\ Len(rows) \in 1..Len(rows) /\ Last = rows[Len(rows)]
    <3>1. Len(rows) \in 1..Len(rows)
      BY LastRow DEF Inv
    <3>2. Last' = rows'[Len(rows)] /\ Last = rows[Len(rows)]
      BY <2>4 DEF Last
    <3> QED
      BY <2>4, <3>1, <3>2
  <2>6. /\ op' \in [Requests -> Op] /\ op'[r].pc = "over" /\ OthersStay(r) /\ faults' \in Nat
    BY <2>1, Outcome
  <2>7. /\ ListedOK /\ PromisedOK /\ DeletedOK /\ AloneOK
        /\ \A i \in 1..Len(rows) : Listing(rows[i])
    BY DEF Inv
  <2>8. Changes(r) => r \in DisturbingNow /\ ~deleted
    BY <1>1, Deleting
  <2>9. ~Changes(r) => Kind(r) \notin Disturbing
    BY <1>1, <1>2 DEF KindOf, Kind, Changes, Disturbing
  <2>10. /\ Kind(r) = "put" => Asked(r) \subseteq op[r].names
         /\ Kind(r) = "deletepolicy" => op[r].names \cap Asked(r) = {}
    BY <1>1, <1>2 DEF NamesOK, Kind, Asked
  <2>11. ~Changes(r) => Takes(r) = {} /\ Deletes(r) = {}
    BY TakesNothing DEF Changes
  <2>12. Listing(w)
    BY <2>2, <2>3, <2>7 DEF Listing, Names
  <2>13. \A i \in 1..Len(rows') : Listing(rows'[i])
    BY <2>4, <2>7, <2>12
  <2>14. ASSUME NEW s \in Requests \ {r} PROVE CopyOK(s)'
    <3> SUFFICES ASSUME op[s].pc = "put" PROVE CopyOK(s)'
      BY <2>6 DEF OthersStay, CopyOK
    <3>1. /\ op'[s] = op[s] /\ op[s].at \in 1..Len(rows) /\ op[s].copy \in Row
          /\ rows[op[s].at].version >= op[s].copy.version
          /\ rows[op[s].at].version = op[s].copy.version => rows[op[s].at] = op[s].copy
      BY <2>6 DEF OthersStay, Inv, CopyOK
    <3>2. CASE op[s].at = k
      <4>1. rows'[op[s].at] = w
        BY <2>4, <3>1, <3>2
      <4>2. w.version = rows[op[s].at].version + 1
        BY <2>3, <3>2
      <4>3. rows[op[s].at].version \in Nat /\ op[s].copy.version \in Nat
        BY <2>2, <3>1, <3>2, RowFields
      <4> HIDE DEF k
      <4>4. w.version >= op[s].copy.version /\ w.version # op[s].copy.version
        BY <3>1, <4>2, <4>3
      <4> QED
        BY <2>4, <3>1, <4>1, <4>4 DEF CopyOK
    <3>3. CASE op[s].at # k
      <4>1. rows'[op[s].at] = rows[op[s].at]
        BY <2>4, <3>1, <3>3
      <4> QED
        BY <2>4, <3>1, <4>1 DEF CopyOK
    <3> QED
      BY <3>2, <3>3
  <2>15. \/ r \in DisturbingNow
         \/ /\ Last'.policyNames = Last.policyNames /\ Last'.resourceId = Last.resourceId
            /\ Len(rows') = Len(rows)
    BY <2>3, <2>4, <2>5, <2>8
\* A request that is alone writes the last row.
  <2>16. Changes(r) /\ op[r].alone => k = Len(rows)
    BY <1>1, <2>7, <2>8 DEF AloneOK, Changes
  <2>21. Kind(r) = "put" /\ op[r].alone => Asked(r) \subseteq Last'.policyNames
    BY <2>3, <2>5, <2>10, <2>16 DEF Changes, Names
  <2>17. \/ /\ promised' = promised /\ unlisted \subseteq unlisted'
            /\ deleted' = deleted /\ broken' = broken \cup Deletes(r)
         \/ /\ r \in DisturbingNow /\ op[r].alone /\ broken' = broken /\ deleted' \in BOOLEAN
            /\ promised' \subseteq promised \cup (Last'.policyNames \ broken')
    <3>1. deleted \in BOOLEAN
      BY DEF Inv, TypeOK
    <3>2. CASE Kind(r) = "put"
      BY <2>1, <2>8, <2>21, <3>1, <3>2, Outcome DEF Changes
    <3>3. CASE Kind(r) # "put"
      BY <2>1, <2>8, <2>11, <3>1, <3>3, Outcome DEF Changes
    <3> QED
      BY <3>2, <3>3
  <2>18. Listed' \subseteq Last'.policyNames /\ unlisted' \subseteq PolicyNames
    <3>1. Listed \subseteq Last.policyNames /\ unlisted \subseteq PolicyNames
      BY <2>7 DEF PromisedOK, Inv, TypeOK
    <3>2. Changes(r) => Listed \subseteq op[r].names \/ Blind(op[r])
      BY <1>1, <2>7, <2>8 DEF PromisedOK
    <3>3. Kind(r) = "delete" => Listed = {}
      BY <2>7, <2>8 DEF PromisedOK, Changes, Listed
    <3>4. Changes(r) => Listed \subseteq Names(r)
      BY <1>1, <3>2, <3>3 DEF Names, Blind
    <3>5. Listed \subseteq Last'.policyNames
      BY <2>3, <2>5, <3>1, <3>4
    <3>6. \/ UNCHANGED <<promised, unlisted>>
          \/ /\ op[r].alone /\ Kind(r) = "put" /\ promised' = promised \cup (Asked(r) \ broken)
             /\ unlisted' = unlisted \ Asked(r)
      BY <2>1, Outcome
    <3> QED
      BY <2>21, <3>1, <3>5, <3>6 DEF Listed
  <2>19. ASSUME NEW x \in Last'.policyNames \ broken'
         PROVE  There(x) /\ x \notin Takes(r)
    <3>1. x \notin broken /\ (op[r].alone \/ x \notin Deletes(r))
      BY <2>17
    <3>2. Takes(r) \subseteq Deletes(r)
      BY <1>1, DeletesTaken
    <3>3. CASE k # Len(rows)
      <4>1. There(x)
        BY <2>5, <2>7, <3>1, <3>3 DEF ListedOK
      <4>2. x \notin Takes(r)
        BY <2>11, <2>16, <3>1, <3>2, <3>3
      <4> QED
        BY <4>1, <4>2
    <3>4. CASE k = Len(rows) /\ ~Changes(r)
      <4>1. x \in Last.policyNames
        BY <2>3, <2>5, <3>4
      <4> QED
        BY <2>7, <2>11, <3>1, <3>4, <4>1 DEF ListedOK
    <3>5. CASE k = Len(rows) /\ Changes(r)
      <4>1. x \in Names(r)
        BY <2>3, <2>5, <3>5
      <4>2. Kind(r) # "delete" /\ x \in op[r].names
        BY <4>1 DEF Names
      <4>3. There(x)
        BY <1>1, <2>7, <2>8, <3>1, <3>5, <4>2 DEF ListedOK, WillList
      <4>4. x \notin Takes(r)
        BY <2>10, <3>5, <4>2 DEF Takes, TakesOf, Changes, Kind, Asked
      <4> QED
        BY <4>3, <4>4
    <3> QED
      BY <3>3, <3>4, <3>5
  <2>20. deleted' => target = None /\ policies = {} /\ ~Last'.resourceId /\ Last'.policyNames = {}
    <3>1. CASE deleted
      <4>1. ~Changes(r)
        BY <2>8, <3>1
      <4> QED
        BY <2>3, <2>5, <2>7, <3>1, <4>1 DEF DeletedOK
    <3>2. CASE ~deleted /\ deleted'
      <4>1. Kind(r) = "delete" /\ op[r].alone
        BY <2>1, <3>2, Outcome
      <4>2. target = None /\ policies = {}
        BY <1>1, <2>7, <2>8, <4>1 DEF DeletedOK, Changes
      <4>3. Last' = w
        BY <2>5, <2>16, <4>1 DEF Changes
      <4>4. ~w.resourceId /\ w.policyNames = {}
        BY <2>3, <4>1 DEF Changes, Names
      <4> QED
        BY <4>2, <4>3, <4>4
    <3> QED
      BY <3>1, <3>2
  <2> QED
    BY <1>1, <2>4, <2>6, <2>13, <2>14, <2>15, <2>17, <2>18, <2>19, <2>20, AnswerInv
<1> QED
  BY <1>3, <1>4

\* A deploy carries the names of the row it has read over to its own.
LEMMA NewDeploymentInv ==
  ASSUME Inv, NEW r \in Requests, NewDeployment(r)
  PROVE  Inv'
<1> DEFINE d == op[r].dd
           w == CarriedOver(r)
<1>1. /\ op[r].pc = "new" /\ Active(r) /\ UNCHANGED <<target, policies, alarms>>
      /\ rows' = Append(rows, w) /\ Over(r) /\ UNCHANGED <<promised, deleted, broken, faults>>
      /\ unlisted' = IF d = None THEN unlisted \cup promised ELSE unlisted
  BY DEF NewDeployment, Active, AWS, NoFault
<1>2. /\ op[r] \in Op /\ op[r].in \in Inputs /\ op[r].in.count \in Counts /\ Kind(r) = "deploy"
      /\ d \in Row \cup {None} /\ NamesOK(op[r])
      /\ op[r].names = IF d = None THEN {} ELSE d.policyNames
      /\ d # None => Listing(d)
  BY <1>1, ActiveOp, InputFields, OpFields DEF KindOf, Kind, NamesOK
<1>3. /\ w \in Row /\ w.policyNames = op[r].names
      /\ w.resourceId = IF d = None THEN FALSE ELSE d.resourceId
  <2>1. CASE d = None
    BY <1>2, <2>1 DEF CarriedOver, Fresh, Row
  <2>2. CASE d # None
    <3>1. d \in Row /\ MaxOf(d.count, op[r].in.count) \in Counts
      BY <1>2, <2>2, RowFields DEF MaxOf
    <3>2. w = [d EXCEPT !.version = 1, !.count = MaxOf(d.count, op[r].in.count)]
      BY <2>2 DEF CarriedOver
    <3>3. ASSUME NEW b \in Row, NEW n \in Counts
          PROVE  /\ [b EXCEPT !.version = 1, !.count = n] \in Row
                 /\ [b EXCEPT !.version = 1, !.count = n].policyNames = b.policyNames
                 /\ [b EXCEPT !.version = 1, !.count = n].resourceId = b.resourceId
      BY DEF Row
    <3> HIDE DEF w
    <3> QED
      BY <1>2, <2>2, <3>1, <3>2, <3>3
  <2> QED
    BY <2>1, <2>2
<1>4. Listing(w)
  BY <1>2, <1>3 DEF Listing
<1> HIDE DEF w
<1>5. /\ rows' \in Seq(Row) /\ Len(rows') = Len(rows) + 1 /\ rows'[Len(rows) + 1] = w
      /\ \A i \in 1..Len(rows) : rows'[i] = rows[i]
  <2>1. rows \in Seq(Row)
    BY DEF Inv, TypeOK
  <2> QED
    BY <1>1, <1>3, <2>1, AppendProperties
<1>6. Len(rows) \in Nat
  BY LastRow DEF Inv
<1>7. Last' = w /\ rows' # << >>
  <2>1. Len(rows') # 0
    BY <1>5, <1>6
  <2> QED
    BY <1>5, <2>1, EmptySeq DEF Last
<1>8. \A i \in 1..Len(rows') : i \in 1..Len(rows) \/ i = Len(rows) + 1
  BY <1>5, <1>6
<1>9. \A i \in 1..Len(rows') : Listing(rows'[i])
  BY <1>4, <1>5, <1>8 DEF Inv
<1>10. /\ op' \in [Requests -> Op] /\ op'[r].pc = "over" /\ OthersStay(r) /\ faults' \in Nat
       /\ promised' = promised /\ unlisted \subseteq unlisted'
       /\ deleted' = deleted /\ broken' = broken \cup Deletes(r)
       /\ Takes(r) = {} /\ Deletes(r) = {}
  <2>1. Takes(r) = {} /\ Deletes(r) = {}
    BY <1>2, TakesNothing
  <2>2. op' \in [Requests -> Op] /\ op'[r].pc = "over" /\ OthersStay(r)
    BY <1>1, IsOver DEF OthersStay
  <2> QED
    BY <1>1, <2>1, <2>2 DEF Inv, TypeOK
<1>11. ASSUME NEW s \in Requests \ {r} PROVE CopyOK(s)'
  <2>1. op'[s] = op[s] /\ CopyOK(s)
    BY <1>10 DEF OthersStay, Inv
  <2>2. \A i \in 1..Len(rows) : i \in 1..Len(rows')
    BY <1>5, <1>6
  <2> QED
    BY <1>5, <2>1, <2>2 DEF CopyOK
<1>12. r \in DisturbingNow
  BY <1>1, <1>2 DEF DisturbingNow, Running, Disturbing, Kind
<1>13. Listed' \subseteq Last'.policyNames /\ unlisted' \subseteq PolicyNames
  <2>1. unlisted \subseteq PolicyNames /\ promised \subseteq PolicyNames
    BY DEF Inv, TypeOK
  <2>2. CASE d = None
    BY <1>1, <2>1, <2>2 DEF Listed
  <2>3. CASE d # None
    <3>1. Listed \subseteq op[r].names
      BY <1>1, <1>12, <2>3 DEF Inv, PromisedOK, Blind
    <3> QED
      BY <1>1, <1>3, <1>7, <2>1, <2>3, <3>1 DEF Listed
  <2> QED
    BY <2>2, <2>3
<1>14. \A x \in Last'.policyNames \ broken' : There(x) /\ x \notin Takes(r)
  <2>1. WillList(r)
    BY <1>1, <1>2, <1>12 DEF Inv, ListedOK
  <2> QED
    BY <1>3, <1>7, <1>10, <2>1 DEF WillList
<1>15. deleted' => target = None /\ policies = {} /\ ~Last'.resourceId /\ Last'.policyNames = {}
  <2> SUFFICES ASSUME deleted
               PROVE  target = None /\ policies = {} /\ ~Last'.resourceId /\ Last'.policyNames = {}
    BY <1>10
  <2>1. /\ target = None /\ policies = {}
        /\ d # None => ~d.resourceId /\ d.policyNames = {}
    BY <1>1, <1>12 DEF Inv, DeletedOK
  <2> QED
    BY <1>2, <1>3, <1>7, <2>1
<1> QED
  BY <1>1, <1>5, <1>7, <1>9, <1>10, <1>11, <1>12, <1>13, <1>14, <1>15, AnswerInv

-----------------------------------------------------------------------------
(* The theorems                                                            *)

LEMMA InitInv == Init => Inv
<1> SUFFICES ASSUME Init PROVE Inv
  OBVIOUS
<1>1. PICK n \in Counts :
        rows = <<[version |-> 1, count |-> n, resourceId |-> FALSE, policyNames |-> {}]>>
  BY DEF Init
<1>2. /\ rows \in Seq(Row) /\ rows # << >> /\ Len(rows) = 1
      /\ rows[1].policyNames = {} /\ ~rows[1].resourceId
  BY <1>1 DEF Row
<1>3. Idle \in Op /\ Idle.pc = "idle" /\ op = [r \in Requests |-> Idle]
  BY IdleOp DEF Init
<1> HIDE DEF Idle
<1>4. TypeOK
  BY <1>2, <1>3 DEF Init, TypeOK
<1>5. \A r \in Requests : op[r].pc = "idle" /\ r \notin DisturbingNow
  BY <1>3 DEF DisturbingNow, Running
<1>6. \A r \in Requests : OpOK(r) /\ CopyOK(r)
  BY <1>5 DEF OpOK, CopyOK, KindOf, Carries, Active
<1>7. \A i \in 1..Len(rows) : Listing(rows[i])
  BY <1>2 DEF Listing
<1>8. DisturbingNow = {} /\ Last.policyNames = {} /\ promised = {} /\ unlisted = {} /\ deleted = FALSE
  BY <1>2, <1>5 DEF DisturbingNow, Running, Last, Init
<1> QED
  BY <1>4, <1>6, <1>7, <1>8 DEF Inv, AloneOK, ListedOK, PromisedOK, Listed, DeletedOK

LEMMA NextInv == Inv /\ [Next]_vars => Inv'
<1> SUFFICES ASSUME Inv, [Next]_vars PROVE Inv'
  OBVIOUS
<1>1. CASE UNCHANGED vars
  BY <1>1 DEF Inv, TypeOK, OpOK, CopyOK, AloneOK, ListedOK, PromisedOK, DeletedOK, vars, Active,
     Takes, Taken, There, Running, DisturbingNow, Last, Kind, Asked, WillList, Listed
<1>2. ASSUME NEW r \in Requests, Serve(r) \/ GetLastDeployFails(r) \/ CallFails(r) PROVE Inv'
  BY <1>2, BeginInv, GetLastDeployInv, TargetInv, RegisterInv, CountInv, PolicyInv, AlarmInv,
     PoliciesDoneInv, DeletePolicyInv, DeleteAlarmsInv, DeletesDoneInv, DeregisterInv, ReadInv,
     PutRowInv, NewDeploymentInv, GetLastDeployFailsInv, CallFailsInv DEF Serve
<1> QED
  BY <1>1, <1>2 DEF Next

\* The inductive invariant holds in every state, in any interleaving of requests,
\* deploys, scalings and outcomes with calls that fail or whose answers are lost.
THEOREM Invariance == Spec => []Inv
  BY InitInv, NextInv, PTL DEF Spec

\* No handler keeps a row, a policy or a name that could not be one, whatever the
\* others did in between.
THEOREM TypeCorrect == Spec => []TypeOK
<1>1. Inv => TypeOK
  BY DEF Inv
<1> QED
  BY Invariance, <1>1, PTL

\* A policy that a request was answered OK for keeps its policy and its alarm until a
\* request deletes it, whatever deploys, scalings and later requests overlap, and
\* whichever of their calls fail.  It stays in the last row too, unless a deploy could
\* not read that row.
THEOREM PromisesKept == Spec => []KeptPolicies
<1>1. Inv => KeptPolicies
  <2> SUFFICES ASSUME Inv PROVE KeptPolicies
    OBVIOUS
  <2>1. /\ promised \subseteq policies \cap alarms /\ promised \ unlisted \subseteq Last.policyNames
    BY DEF Inv, PromisedOK, Listed
  <2>2. Listing(Last)
    BY LastRow DEF Inv, Last
  <2> QED
    BY <2>1, <2>2 DEF KeptPolicies, Shown, Listing
<1> QED
  BY Invariance, <1>1, PTL

\* After a deletion that nothing disturbed there is no target, no policy and no name in
\* the last row: no request that had read the row before brings them back, and no deploy
\* carries them over.
THEOREM DeletionsStay == Spec => []DeletedIsGone
<1>1. Inv => DeletedIsGone
  BY DEF Inv, DeletedOK, DeletedIsGone
<1> QED
  BY Invariance, <1>1, PTL
=============================================================================
