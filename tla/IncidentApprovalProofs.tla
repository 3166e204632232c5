----------------------- MODULE IncidentApprovalProofs -----------------------
(***************************************************************************)
(* The approval gate under any number of concurrent requests: every save   *)
(* writes the whole row from one copy, so what holds of each row by itself *)
(* (a cost it relies on was answered by the owner) survives stale copies.  *)
(* Then what holds as long as requests never overlapped.                   *)
(***************************************************************************)
EXTENDS IncidentApproval, TLAPS

Tables ==
    [Approvals -> [status : ApprovalStatuses \cup {"none"},
                   related_type : RelatedTypes, amount : Costs \cup {0}]]

(* In the table the owner answered a question about at least this cost. *)
Answered(table, cost) ==
    \E a \in Approvals :
        /\ table[a].status \in {"APPROVED", "REJECTED"}
        /\ table[a].amount >= cost

(* The costs a row relies on were answered. *)
RowOK(table, row) ==
    /\ row.approved > 0 => Answered(table, row.approved)
    /\ row.status = "RESOLVED" /\ row.final > Threshold => Answered(table, row.final)

(* What was answered stays answered, with its amount. *)
AnswersStay(old, new) ==
    \A a \in Approvals :
        old[a].status \in {"APPROVED", "REJECTED"} =>
            /\ new[a].status \in {"APPROVED", "REJECTED"}
            /\ new[a].amount = old[a].amount

AnsweringInv ==
    \A q \in Requests : pc[q] \in {"answering", "locked"} => answers[q] \in Approvals

GateInv ==
    /\ TypeOK
    /\ AnsweringInv
    /\ RowOK(approval, incident)
    /\ \A q \in Requests : RowOK(approval, seen[q])

LEMMA CostsAreNat ==
    /\ Threshold \in Nat
    /\ \A cost \in Costs \cup {0} : cost \in Nat
BY ApprovalAssumption

LEMMA RowsStay ==
    ASSUME NEW old \in Tables, NEW new \in Tables, AnswersStay(old, new),
           NEW row \in Rows, RowOK(old, row)
    PROVE  RowOK(new, row)
BY ApprovalAssumption DEF RowOK, Answered, AnswersStay, Rows, Tables

(* A request that has read the incident and saves a row built on its copy. *)
LEMMA SaveIsGood ==
    ASSUME GateInv, NEW q \in Requests, NEW row \in Rows, Save(q, row),
           approval' \in Tables, AnswersStay(approval, approval'),
           RowOK(approval', row)
    PROVE  GateInv'
<1>1. TypeOK' /\ AnsweringInv'
  BY DEF GateInv, TypeOK, AnsweringInv, Save, Ends, Tables, Reported, Rows, Statuses
<1>2. RowOK(approval', incident')
  BY DEF Save
<1>3. ASSUME NEW p \in Requests
      PROVE  RowOK(approval', seen'[p])
  <2>1. CASE p = q
    BY <2>1 DEF GateInv, TypeOK, Save, Ends, Reported, RowOK
  <2>2. CASE p # q
    BY <2>2, RowsStay DEF GateInv, TypeOK, Save, Ends, Tables
  <2> QED
    BY <2>1, <2>2
<1> QED
  BY <1>1, <1>2, <1>3 DEF GateInv

(* A copy whose status moves, or whose technician does, is still good. *)
LEMMA MovesAreGood ==
    ASSUME GateInv, NEW q \in Requests, NEW row \in Rows, Save(q, row),
           UNCHANGED approval,
           row.approved = seen[q].approved,
           row.status = "RESOLVED" /\ row.final > Threshold =>
               Answered(approval, row.final)
    PROVE  GateInv'
<1>1. AnswersStay(approval, approval') /\ approval' \in Tables
  BY DEF AnswersStay, GateInv, TypeOK, Tables
<1>2. RowOK(approval', row)
  BY DEF GateInv, RowOK
<1> QED
  BY <1>1, <1>2, SaveIsGood

(* Opening a question answers nothing and forgets no answer. *)
LEMMA AskingIsGood ==
    ASSUME GateInv, NEW q \in Requests, NEW row \in Rows,
           NEW type \in RelatedTypes, NEW amount \in Costs,
           AsksOwner(q, row, type, amount),
           row.approved = seen[q].approved
    PROVE  GateInv'
<1> DEFINE asked == [row EXCEPT !.status = "AWAITING_OWNER_APPROVAL"]
<1>1. AnswersStay(approval, approval') /\ approval' \in Tables
  BY DEF AnswersStay, GateInv, TypeOK, Tables, AsksOwner, ApprovalStatuses
<1>2. asked \in Rows /\ asked.status # "RESOLVED" /\ asked.approved = row.approved
  BY DEF Rows, Statuses
<1>3. Save(q, asked)
  BY DEF AsksOwner
<1>4. seen[q] \in Rows /\ RowOK(approval', seen[q])
  BY <1>1, RowsStay DEF GateInv, TypeOK, Tables
<1>5. RowOK(approval', asked)
  BY <1>2, <1>4 DEF RowOK
<1> HIDE DEF asked
<1> QED
  BY <1>1, <1>2, <1>3, <1>5, SaveIsGood

LEMMA TriageIsGood ==
    ASSUME GateInv, NEW q \in Requests, NEW classifies \in BOOLEAN,
           NEW cost \in Costs \cup {0}, Triage(q, classifies, cost)
    PROVE  GateInv'
<1> DEFINE row == IF classifies THEN [seen[q] EXCEPT !.status = "CLASSIFIED"]
                                ELSE seen[q]
<1>1. /\ row \in Rows /\ row.approved = seen[q].approved
      /\ row.status # "RESOLVED"
  BY DEF GateInv, TypeOK, Rows, Statuses, Triage, Closed
<1>2. CASE NeedsApproval(row, cost)
  <2>1. cost \in Costs /\ AsksOwner(q, row, "INCIDENT", cost)
    BY <1>2, ApprovalAssumption DEF NeedsApproval, Triage
  <2> HIDE DEF row
  <2> QED
    BY <1>1, <2>1, AskingIsGood DEF RelatedTypes
<1>3. CASE ~NeedsApproval(row, cost)
  <2>1. Save(q, row) /\ UNCHANGED approval
    BY <1>3 DEF Triage
  <2> HIDE DEF row
  <2> QED
    BY <1>1, <2>1, MovesAreGood
<1> QED
  BY <1>2, <1>3

(* The final cost either is within the threshold, or is covered by an      *)
(* approved cost that was answered, or opens a question.                   *)
LEMMA ResolveIsGood ==
    ASSUME GateInv, NEW q \in Requests, NEW cost \in Costs, Resolve(q, cost)
    PROVE  GateInv'
<1> DEFINE row == [seen[q] EXCEPT !.final = cost]
           closed == [row EXCEPT !.status = "RESOLVED"]
<1>1. row \in Rows /\ row.approved = seen[q].approved /\ row.final = cost
  BY DEF GateInv, TypeOK, Rows
<1>2. CASE NeedsApproval(row, cost)
  <2>1. AsksOwner(q, row, "MAINTENANCE_COST", cost)
    BY <1>2 DEF Resolve
  <2> HIDE DEF row
  <2> QED
    BY <1>1, <2>1, AskingIsGood DEF RelatedTypes
<1>3. CASE ~NeedsApproval(row, cost)
  <2>1. Save(q, closed) /\ UNCHANGED approval
    BY <1>3 DEF Resolve
  <2>2. /\ closed \in Rows /\ closed.approved = seen[q].approved
        /\ closed.final = cost
    BY DEF GateInv, TypeOK, Rows, Statuses, Closed
  <2>3. cost > Threshold => cost <= seen[q].approved
    BY <1>1, <1>3, ApprovalAssumption DEF NeedsApproval, GateInv, TypeOK, Rows
  <2>4. cost > Threshold => Answered(approval, cost)
    <3>1. /\ seen[q] \in Rows /\ RowOK(approval, seen[q])
          /\ \A a \in Approvals : approval[a].amount \in Costs \cup {0}
      BY DEF GateInv, TypeOK
    <3>2. /\ seen[q].approved \in Nat /\ cost \in Nat /\ Threshold \in Nat
          /\ \A a \in Approvals : approval[a].amount \in Nat
      <4>1. seen[q].approved \in Costs \cup {0}
        BY <3>1 DEF Rows
      <4> QED
        BY <3>1, <4>1, CostsAreNat
    <3>3. cost > Threshold => Answered(approval, seen[q].approved)
      BY <2>3, <3>1, <3>2 DEF RowOK
    <3> QED
      BY <2>3, <3>1, <3>2, <3>3 DEF Answered
  <2> HIDE DEF closed
  <2> QED
    BY <2>1, <2>2, <2>4, MovesAreGood
<1> QED
  BY <1>2, <1>3

(* An answer is an answer, whichever verdict replaces which. *)
LEMMA AnswerIsGood ==
    ASSUME GateInv, NEW q \in Requests, Approve(q) \/ RejectCost(q)
    PROVE  GateInv'
<1> DEFINE a == answers[q]
<1>1. a \in Approvals /\ pc[q] = "locked" /\ seen[q] \in Rows
  BY DEF GateInv, AnsweringInv, TypeOK, Approve, RejectCost, AnswerCommits
<1>2. /\ approval' \in Tables /\ AnswersStay(approval, approval')
      /\ approval'[a].status \in {"APPROVED", "REJECTED"}
      /\ approval'[a].amount = approval[a].amount
  BY <1>1 DEF GateInv, TypeOK, Tables, AnswersStay, ApprovalStatuses, Approve,
              RejectCost, AnswerCommits
<1>3. /\ incident' \in Rows /\ incident'.status # "RESOLVED"
      /\ incident'.approved \in {seen[q].approved, approval[a].amount}
      /\ Ends(q)
  <2>1. approval[a].amount \in Costs \cup {0}
    BY <1>1 DEF GateInv, TypeOK
  <2>2. CASE Approve(q)
    <3>1. ResumedStatus(approval[a].related_type) \in Statuses \ {"RESOLVED"}
      BY DEF ResumedStatus, Statuses, Working
    <3> QED
      BY <1>1, <2>1, <2>2, <3>1 DEF Rows, Approve, AnswerCommits
  <2>3. CASE RejectCost(q)
    BY <1>1, <2>3 DEF Rows, Statuses, Closed, RejectCost, AnswerCommits
  <2> QED
    BY <2>2, <2>3
<1>4. \A p \in Requests : RowOK(approval', seen[p]) /\ seen[p] \in Rows
  BY <1>2, RowsStay DEF GateInv, TypeOK, Tables
<1>5. RowOK(approval', incident')
  <2>1. CASE incident'.approved = seen[q].approved
    BY <1>3, <1>4, <2>1 DEF RowOK
  <2>2. CASE incident'.approved = approval[a].amount
    <3>1. approval'[a].amount >= incident'.approved
      <4>1. approval[a].amount \in Costs \cup {0}
        BY <1>1 DEF GateInv, TypeOK
      <4> QED
        BY <1>2, <2>2, <4>1, CostsAreNat
    <3> QED
      BY <1>1, <1>2, <1>3, <3>1 DEF RowOK, Answered
  <2> QED
    BY <1>3, <2>1, <2>2
<1>6. \A p \in Requests : RowOK(approval', seen'[p])
  BY <1>3, <1>4 DEF Ends, Reported, RowOK, GateInv, TypeOK
<1>7. TypeOK' /\ AnsweringInv'
  BY <1>2, <1>3 DEF GateInv, TypeOK, AnsweringInv, Ends, Tables, Reported, Rows, Statuses
<1> QED
  BY <1>5, <1>6, <1>7 DEF GateInv

LEMMA GateHolds == Spec => []GateInv
<1>1. Init => GateInv
  <2> SUFFICES ASSUME Init PROVE GateInv
    OBVIOUS
  <2>1. overlapped \in BOOLEAN
    BY DEF Init
  <2>2. TypeOK
    BY <2>1, ApprovalAssumption DEF Init, TypeOK, Reported, Rows, Statuses, RelatedTypes
  <2>3. AnsweringInv /\ \A q \in Requests : RowOK(approval, seen[q])
    BY DEF Init, AnsweringInv, Reported, RowOK
  <2> QED
    BY <2>2, <2>3 DEF Init, GateInv, Reported, RowOK
<1>2. GateInv /\ [Next]_vars => GateInv'
  <2> SUFFICES ASSUME GateInv, [Next]_vars PROVE GateInv'
    OBVIOUS
  <2>1. CASE UNCHANGED vars
    BY <2>1 DEF vars, GateInv, TypeOK, AnsweringInv, RowOK, Answered
  <2>2. ASSUME NEW q \in Requests, Step(q) PROVE GateInv'
    <3>0. seen[q] \in Rows /\ RowOK(approval, seen[q])
      BY DEF GateInv, TypeOK
    <3>1. CASE ReadIncident(q) \/ LockApproval(q) \/ RolledBack(q)
      <4>1. UNCHANGED <<incident, approval>>
        BY <3>1 DEF ReadIncident, LockApproval, RolledBack
      <4>2. TypeOK' /\ AnsweringInv'
        <5>1. Reported \in Rows
          BY DEF Reported, Rows, Statuses
        <5>2. CASE ReadIncident(q)
          BY <4>1, <5>2 DEF ReadIncident, Opens, GateInv, TypeOK, AnsweringInv
        <5>3. CASE LockApproval(q)
          BY <4>1, <5>3 DEF LockApproval, GateInv, TypeOK, AnsweringInv
        <5>4. CASE RolledBack(q)
          BY <4>1, <5>1, <5>4 DEF RolledBack, Ends, GateInv, TypeOK, AnsweringInv
        <5> QED
          BY <3>1, <5>2, <5>3, <5>4
      <4>3. \A p \in Requests : seen'[p] \in {seen[p], incident, Reported}
        BY <3>1 DEF ReadIncident, LockApproval, RolledBack, Ends, GateInv, TypeOK
      <4>4. RowOK(approval, Reported)
        BY DEF RowOK, Reported
      <4>5. \A p \in Requests : RowOK(approval', seen'[p])
        BY <4>1, <4>3, <4>4 DEF GateInv
      <4> QED
        BY <4>1, <4>2, <4>5 DEF GateInv
    <3>2. ASSUME NEW x \in Approvals, ReadApproval(q, x) PROVE GateInv'
      BY <3>2 DEF ReadApproval, Opens, GateInv, TypeOK, AnsweringInv, RowOK, Answered
    <3>3. ASSUME NEW from, NEW to \in Statuses \ {"RESOLVED"}, Moves(q, from, to)
          PROVE  GateInv'
      <4> DEFINE row == [seen[q] EXCEPT !.status = to]
      <4>1. row \in Rows /\ row.approved = seen[q].approved /\ row.status # "RESOLVED"
        BY <3>0 DEF Rows
      <4>2. Save(q, row) /\ UNCHANGED approval
        BY <3>3 DEF Moves
      <4> HIDE DEF row
      <4> QED
        BY <4>1, <4>2, MovesAreGood
    <3>4. CASE Classify(q)
      BY <3>3, <3>4 DEF Classify, Statuses
    <3>5. CASE \/ Accept(q) \/ EnRoute(q) \/ WaitForParts(q) \/ ResumeWork(q)
               \/ Cancel(q)
      BY <3>3, <3>5 DEF Accept, EnRoute, WaitForParts, ResumeWork, Cancel,
                        Statuses, Working, Closed
    <3>6. ASSUME NEW t \in Technicians, Assign(q, t) PROVE GateInv'
      <4> DEFINE row == [seen[q] EXCEPT !.status = "ASSIGNED", !.technician = t]
      <4>1. row \in Rows /\ row.approved = seen[q].approved /\ row.status # "RESOLVED"
        BY <3>0 DEF Rows, Statuses, Working
      <4>2. Save(q, row) /\ UNCHANGED approval
        BY <3>6 DEF Assign
      <4> HIDE DEF row
      <4> QED
        BY <4>1, <4>2, MovesAreGood
    <3>7. CASE Reject(q)
      <4> DEFINE row == [seen[q] EXCEPT !.status = "CLASSIFIED", !.technician = Nobody]
      <4>1. row \in Rows /\ row.approved = seen[q].approved /\ row.status # "RESOLVED"
        BY <3>0 DEF Rows, Statuses
      <4>2. Save(q, row) /\ UNCHANGED approval
        BY <3>7 DEF Reject
      <4> HIDE DEF row
      <4> QED
        BY <4>1, <4>2, MovesAreGood
    <3> QED
      BY <2>2, <3>1, <3>2, <3>4, <3>5, <3>6, <3>7, TriageIsGood, ResolveIsGood,
         AnswerIsGood DEF Step
  <2> QED
    BY <2>1, <2>2 DEF Next
<1> QED
  BY <1>1, <1>2, PTL DEF Spec

(* Type correctness. *)
THEOREM ApprovalTypeCorrect == Spec => []TypeOK
<1>1. GateInv => TypeOK
  BY DEF GateInv
<1> QED
  BY <1>1, GateHolds, PTL
-----------------------------------------------------------------------------
(* As long as requests never overlapped: the only open request decides on  *)
(* the committed rows, and what holds of these is more than the gate.      *)

OneRequest ==
    /\ \A p, r \in Requests : pc[p] # "idle" /\ pc[r] # "idle" => p = r
    /\ \A q \in Requests :
         /\ pc[q] \in {"read", "locked"} => seen[q] = incident
         /\ pc[q] \in {"answering", "locked"} => approval[answers[q]].status = "PENDING"

(* In the table the owner said yes to at least this cost. *)
Said(table, cost) ==
    \E a \in Approvals : table[a].status = "APPROVED" /\ table[a].amount >= cost

(* An approved cost was approved, and a closing above the threshold too. *)
CostsSaid(row, table) ==
    /\ row.approved > 0 => Said(table, row.approved)
    /\ row.status = "RESOLVED" /\ row.final > Threshold => Said(table, row.final)

(* The question the incident waits for, if any, and its amount. *)
Question(row, table) ==
    /\ row.status = "AWAITING_OWNER_APPROVAL"
         => \E a \in Approvals : table[a].status = "PENDING"
    /\ \A a, b \in Approvals :
         table[a].status = "PENDING" /\ table[b].status = "PENDING" => a = b
    /\ \A a \in Approvals : table[a].status = "PENDING" =>
         /\ row.status \in {"AWAITING_OWNER_APPROVAL", "CANCELLED"}
         /\ table[a].related_type = "MAINTENANCE_COST" => row.final = table[a].amount

SerialInv ==
    ~overlapped =>
        OneRequest /\ CostsSaid(incident, approval) /\ Question(incident, approval)

(* A request that ends leaves no request open. *)
LEMMA EndingIsGood ==
    ASSUME GateInv, SerialInv, NEW q \in Requests, Ends(q),
           pc[q] # "idle",
           ~overlapped => /\ CostsSaid(incident', approval')
                          /\ Question(incident', approval')
    PROVE  SerialInv'
<1> SUFFICES ASSUME ~overlapped PROVE OneRequest'
  BY DEF SerialInv, Ends
<1>1. \A p \in Requests : pc'[p] = "idle"
  BY DEF SerialInv, OneRequest, Ends, GateInv, TypeOK
<1> QED
  BY <1>1 DEF OneRequest

(* A save that asks nothing: no question is open, or the incident is       *)
(* cancelled over it.                                                      *)
LEMMA SavingIsGood ==
    ASSUME GateInv, SerialInv, NEW q \in Requests, NEW row \in Rows,
           Save(q, row), UNCHANGED approval,
           row.approved = seen[q].approved,
           row.status # "AWAITING_OWNER_APPROVAL",
           \/ seen[q].status \notin {"AWAITING_OWNER_APPROVAL", "CANCELLED"}
           \/ row.status = "CANCELLED" /\ row.final = seen[q].final,
           ~overlapped /\ row.status = "RESOLVED" /\ row.final > Threshold
               => Said(approval, row.final)
    PROVE  SerialInv'
<1>1. pc[q] = "read" /\ incident' = row /\ Ends(q) /\ pc[q] # "idle"
  BY DEF Save
<1> SUFFICES ASSUME ~overlapped
             PROVE  CostsSaid(incident', approval') /\ Question(incident', approval')
  BY <1>1, EndingIsGood
<1>2. /\ seen[q] = incident
      /\ CostsSaid(incident, approval) /\ Question(incident, approval)
  BY <1>1 DEF SerialInv, OneRequest
<1>3. CostsSaid(row, approval)
  BY <1>2 DEF CostsSaid
<1>4. Question(row, approval)
  BY <1>2 DEF Question
<1> QED
  BY <1>1, <1>3, <1>4

LEMMA AskingOnce ==
    ASSUME GateInv, SerialInv, NEW q \in Requests, NEW row \in Rows,
           NEW type \in RelatedTypes, NEW amount \in Costs,
           AsksOwner(q, row, type, amount),
           row.approved = seen[q].approved,
           \/ row.status = seen[q].status
           \/ seen[q].status = "OPEN",
           type = "MAINTENANCE_COST" => row.final = amount
    PROVE  SerialInv'
<1> DEFINE asked == [row EXCEPT !.status = "AWAITING_OWNER_APPROVAL"]
<1>1. /\ pc[q] = "read" /\ incident' = asked /\ Ends(q) /\ pc[q] # "idle"
      /\ asked.status = "AWAITING_OWNER_APPROVAL"
      /\ asked.approved = row.approved /\ asked.final = row.final
  BY DEF Save, AsksOwner, Rows
<1> HIDE DEF asked
<1> SUFFICES ASSUME ~overlapped
             PROVE  CostsSaid(incident', approval') /\ Question(incident', approval')
  BY <1>1, EndingIsGood
<1>2. /\ seen[q] = incident
      /\ CostsSaid(incident, approval) /\ Question(incident, approval)
  BY <1>1 DEF SerialInv, OneRequest
<1>3. PICK a \in Approvals :
        /\ approval[a].status = "none"
        /\ approval' = [approval EXCEPT ![a] =
               [status |-> "PENDING", related_type |-> type, amount |-> amount]]
  BY DEF AsksOwner
<1>4. \A b \in Approvals : approval[b].status # "PENDING"
  BY <1>2 DEF Question, AsksOwner, MayAskOwner
<1>5. /\ approval'[a] = [status |-> "PENDING", related_type |-> type, amount |-> amount]
      /\ \A b \in Approvals : b # a => approval'[b] = approval[b]
  BY <1>3 DEF GateInv, TypeOK
<1>6. CostsSaid(asked, approval')
  <2>1. asked.approved > 0 => Said(approval, asked.approved)
    BY <1>1, <1>2 DEF CostsSaid
  <2>2. Said(approval, asked.approved) => Said(approval', asked.approved)
    BY <1>3, <1>5 DEF Said
  <2> QED
    BY <1>1, <2>1, <2>2 DEF CostsSaid
<1>7. Question(asked, approval')
  BY <1>1, <1>4, <1>5 DEF Question
<1> QED
  BY <1>1, <1>6, <1>7

LEMMA TriageAsksOnce ==
    ASSUME GateInv, SerialInv, NEW q \in Requests, NEW classifies \in BOOLEAN,
           NEW cost \in Costs \cup {0}, Triage(q, classifies, cost)
    PROVE  SerialInv'
<1> DEFINE row == IF classifies THEN [seen[q] EXCEPT !.status = "CLASSIFIED"]
                                ELSE seen[q]
<1>1. /\ row \in Rows /\ row.approved = seen[q].approved
      /\ seen[q].status \notin {"AWAITING_OWNER_APPROVAL", "CANCELLED"}
      /\ row.status \notin {"RESOLVED", "AWAITING_OWNER_APPROVAL"}
      /\ row.status = seen[q].status \/ seen[q].status = "OPEN"
  BY DEF GateInv, TypeOK, Rows, Statuses, Triage, Closed
<1>2. CASE NeedsApproval(row, cost)
  <2>1. cost \in Costs /\ AsksOwner(q, row, "INCIDENT", cost)
    BY <1>2, ApprovalAssumption DEF NeedsApproval, Triage
  <2> HIDE DEF row
  <2> QED
    BY <1>1, <2>1, AskingOnce DEF RelatedTypes
<1>3. CASE ~NeedsApproval(row, cost)
  <2>1. Save(q, row) /\ UNCHANGED approval
    BY <1>3 DEF Triage
  <2> HIDE DEF row
  <2> QED
    BY <1>1, <2>1, SavingIsGood
<1> QED
  BY <1>2, <1>3

LEMMA ResolveWasApproved ==
    ASSUME GateInv, SerialInv, NEW q \in Requests, NEW cost \in Costs,
           Resolve(q, cost)
    PROVE  SerialInv'
<1> DEFINE row == [seen[q] EXCEPT !.final = cost]
           closed == [row EXCEPT !.status = "RESOLVED"]
<1>1. /\ row \in Rows /\ row.approved = seen[q].approved /\ row.final = cost
      /\ row.status = seen[q].status
  BY DEF GateInv, TypeOK, Rows
<1>2. CASE NeedsApproval(row, cost)
  <2>1. AsksOwner(q, row, "MAINTENANCE_COST", cost)
    BY <1>2 DEF Resolve
  <2> HIDE DEF row
  <2> QED
    BY <1>1, <2>1, AskingOnce DEF RelatedTypes
<1>3. CASE ~NeedsApproval(row, cost)
  <2>1. Save(q, closed) /\ UNCHANGED approval /\ seen[q].status = "IN_PROGRESS"
    BY <1>1, <1>3 DEF Resolve
  <2>2. /\ closed \in Rows /\ closed.approved = seen[q].approved
        /\ closed.final = cost /\ closed.status = "RESOLVED"
    BY DEF GateInv, TypeOK, Rows, Statuses, Closed
  <2>3. ~overlapped /\ cost > Threshold => Said(approval, cost)
    <3> SUFFICES ASSUME ~overlapped, cost > Threshold PROVE Said(approval, cost)
      OBVIOUS
    <3>1. seen[q] = incident /\ CostsSaid(incident, approval)
      BY <2>1 DEF SerialInv, OneRequest, Save
    <3>2. /\ seen[q].approved \in Costs \cup {0}
          /\ \A a \in Approvals : approval[a].amount \in Costs \cup {0}
      BY DEF GateInv, TypeOK, Rows
    <3>3. /\ seen[q].approved \in Nat /\ cost \in Nat /\ Threshold \in Nat
          /\ \A a \in Approvals : approval[a].amount \in Nat
      BY <3>2, CostsAreNat
    <3>4. cost <= seen[q].approved
      BY <1>1, <1>3, <3>3 DEF NeedsApproval
    <3>5. Said(approval, seen[q].approved)
      BY <3>1, <3>3, <3>4 DEF CostsSaid
    <3> QED
      BY <3>3, <3>4, <3>5 DEF Said
  <2> HIDE DEF closed
  <2> QED
    BY <2>1, <2>2, <2>3, SavingIsGood
<1> QED
  BY <1>2, <1>3

(* The answer closes the only question there is. *)
LEMMA AnsweringIsGood ==
    ASSUME GateInv, SerialInv, NEW q \in Requests, Approve(q) \/ RejectCost(q)
    PROVE  SerialInv'
<1> DEFINE a == answers[q]
<1>1. a \in Approvals /\ pc[q] = "locked" /\ Ends(q) /\ pc[q] # "idle"
  BY DEF GateInv, AnsweringInv, Approve, RejectCost, AnswerCommits
<1> SUFFICES ASSUME ~overlapped
             PROVE  CostsSaid(incident', approval') /\ Question(incident', approval')
  BY <1>1, EndingIsGood
<1>2. /\ seen[q] = incident /\ approval[a].status = "PENDING"
      /\ CostsSaid(incident, approval) /\ Question(incident, approval)
  BY <1>1 DEF SerialInv, OneRequest
<1>3. /\ approval'[a].status \in {"APPROVED", "REJECTED"}
      /\ approval'[a].amount = approval[a].amount
      /\ \A b \in Approvals : b # a => approval'[b] = approval[b]
  BY <1>1 DEF GateInv, TypeOK, Approve, RejectCost, AnswerCommits
<1>4. \A b \in Approvals : approval'[b].status # "PENDING"
  BY <1>1, <1>2, <1>3 DEF Question
<1>5. /\ incident'.status \notin {"AWAITING_OWNER_APPROVAL", "RESOLVED"}
      /\ \/ incident'.approved = incident.approved
         \/ /\ incident'.approved = approval[a].amount
            /\ approval'[a].status = "APPROVED"
  <2>1. incident \in Rows
    BY DEF GateInv, TypeOK
  <2>2. CASE Approve(q)
    <3>1. ResumedStatus(approval[a].related_type) \in {"CLASSIFIED", "IN_PROGRESS"}
      BY DEF ResumedStatus
    <3>2. approval'[a].status = "APPROVED"
      BY <1>1, <2>2 DEF Approve, AnswerCommits, GateInv, TypeOK
    <3> QED
      BY <1>1, <1>2, <2>1, <2>2, <3>1, <3>2 DEF Approve, AnswerCommits, Rows
  <2>3. CASE RejectCost(q)
    BY <1>1, <1>2, <2>1, <2>3 DEF RejectCost, AnswerCommits, Rows
  <2> QED
    BY <2>2, <2>3
<1>6. incident'.approved > 0 => Said(approval', incident'.approved)
  <2>1. CASE incident'.approved = incident.approved
    BY <1>2, <1>3, <2>1 DEF CostsSaid, Said
  <2>2. CASE incident'.approved = approval[a].amount /\ approval'[a].status = "APPROVED"
    <3>1. approval[a].amount \in Costs \cup {0}
      BY <1>1 DEF GateInv, TypeOK
    <3>2. approval[a].amount \in Nat
      BY <3>1, CostsAreNat
    <3> QED
      BY <1>1, <1>3, <2>2, <3>2 DEF Said
  <2> QED
    BY <1>5, <2>1, <2>2
<1> QED
  BY <1>4, <1>5, <1>6 DEF CostsSaid, Question

LEMMA OpeningIsGood ==
    ASSUME GateInv, SerialInv, NEW q \in Requests,
           \/ ReadIncident(q) \/ LockApproval(q)
           \/ \E a \in Approvals : ReadApproval(q, a)
    PROVE  SerialInv'
<1>1. UNCHANGED <<incident, approval>>
  BY DEF ReadIncident, LockApproval, ReadApproval
<1> SUFFICES ASSUME ~overlapped' PROVE OneRequest' /\ ~overlapped
  BY <1>1 DEF SerialInv
<1>2. CASE ReadIncident(q)
  BY <1>1, <1>2 DEF ReadIncident, Opens, SerialInv, OneRequest, GateInv, TypeOK
<1>3. CASE LockApproval(q)
  BY <1>1, <1>3 DEF LockApproval, SerialInv, OneRequest, GateInv, TypeOK
<1>4. ASSUME NEW a \in Approvals, ReadApproval(q, a) PROVE OneRequest' /\ ~overlapped
  BY <1>1, <1>4 DEF ReadApproval, Opens, SerialInv, OneRequest, GateInv, TypeOK
<1> QED
  BY <1>2, <1>3, <1>4

LEMMA SerialHolds == Spec => []SerialInv
<1>1. Init => SerialInv
  BY DEF Init, SerialInv, OneRequest, CostsSaid, Question, Reported
<1>2. GateInv /\ SerialInv /\ [Next]_vars => SerialInv'
  <2> SUFFICES ASSUME GateInv, SerialInv, [Next]_vars PROVE SerialInv'
    OBVIOUS
  <2>1. CASE UNCHANGED vars
    BY <2>1 DEF vars, SerialInv, OneRequest, CostsSaid, Question, Said
  <2>2. ASSUME NEW q \in Requests, Step(q) PROVE SerialInv'
    <3>0. seen[q] \in Rows
      BY DEF GateInv, TypeOK
    <3>1. CASE RolledBack(q)
      BY <3>1, EndingIsGood DEF RolledBack, SerialInv
    <3>2. CASE ReadIncident(q) \/ LockApproval(q) \/ \E a \in Approvals : ReadApproval(q, a)
      BY <3>2, OpeningIsGood
    <3>3. ASSUME NEW from \in SUBSET (Statuses \ {"AWAITING_OWNER_APPROVAL", "CANCELLED"}),
                 NEW to \in Statuses \ {"RESOLVED", "AWAITING_OWNER_APPROVAL"},
                 Moves(q, from, to)
          PROVE  SerialInv'
      <4> DEFINE row == [seen[q] EXCEPT !.status = to]
      <4>1. row \in Rows /\ row.approved = seen[q].approved /\ row.status = to
        BY <3>0 DEF Rows
      <4>2. /\ Save(q, row) /\ UNCHANGED approval
            /\ seen[q].status \notin {"AWAITING_OWNER_APPROVAL", "CANCELLED"}
        BY <3>3 DEF Moves
      <4> HIDE DEF row
      <4> QED
        BY <4>1, <4>2, SavingIsGood
    <3>4. CASE Classify(q)
      BY <3>3, <3>4 DEF Classify, Statuses
    <3>5. CASE Accept(q) \/ EnRoute(q) \/ WaitForParts(q) \/ ResumeWork(q)
      BY <3>3, <3>5 DEF Accept, EnRoute, WaitForParts, ResumeWork, Statuses, Working
    <3>6. CASE Cancel(q)
      <4> DEFINE row == [seen[q] EXCEPT !.status = "CANCELLED"]
      <4>1. /\ row \in Rows /\ row.approved = seen[q].approved
            /\ row.final = seen[q].final /\ row.status = "CANCELLED"
        BY <3>0 DEF Rows, Statuses, Closed
      <4>2. Save(q, row) /\ UNCHANGED approval
        BY <3>6 DEF Cancel, Moves
      <4> HIDE DEF row
      <4> QED
        BY <4>1, <4>2, SavingIsGood
    <3>7. ASSUME NEW t \in Technicians, Assign(q, t) PROVE SerialInv'
      <4> DEFINE row == [seen[q] EXCEPT !.status = "ASSIGNED", !.technician = t]
      <4>1. row \in Rows /\ row.approved = seen[q].approved /\ row.status = "ASSIGNED"
        BY <3>0 DEF Rows, Statuses, Working
      <4>2. /\ Save(q, row) /\ UNCHANGED approval
            /\ seen[q].status \notin {"AWAITING_OWNER_APPROVAL", "CANCELLED"}
        BY <3>7 DEF Assign, Working
      <4> HIDE DEF row
      <4> QED
        BY <4>1, <4>2, SavingIsGood
    <3>8. CASE Reject(q)
      <4> DEFINE row == [seen[q] EXCEPT !.status = "CLASSIFIED", !.technician = Nobody]
      <4>1. row \in Rows /\ row.approved = seen[q].approved /\ row.status = "CLASSIFIED"
        BY <3>0 DEF Rows, Statuses
      <4>2. /\ Save(q, row) /\ UNCHANGED approval
            /\ seen[q].status \notin {"AWAITING_OWNER_APPROVAL", "CANCELLED"}
        BY <3>8 DEF Reject
      <4> HIDE DEF row
      <4> QED
        BY <4>1, <4>2, SavingIsGood
    <3> QED
      BY <2>2, <3>1, <3>2, <3>4, <3>5, <3>6, <3>7, <3>8, TriageAsksOnce,
         ResolveWasApproved, AnsweringIsGood DEF Step
  <2> QED
    BY <2>1, <2>2 DEF Next
<1> QED
  BY <1>1, <1>2, GateHolds, PTL DEF Spec

(* However many requests are open at once, and whatever stale copies they  *)
(* save, no incident is closed above the threshold without the owner       *)
(* having answered a question about at least its final cost; with a yes, as*)
(* long as requests never overlapped.                                      *)
THEOREM GateIsNotBypassed == Spec => []OverThresholdWasAnswered
<1>1. GateInv /\ SerialInv => OverThresholdWasAnswered
  <2> SUFFICES ASSUME GateInv, SerialInv,
                      incident.status = "RESOLVED", incident.final > Threshold
               PROVE  \E a \in Approvals :
                        /\ approval[a].status \in {"APPROVED", "REJECTED"}
                        /\ approval[a].amount >= incident.final
                        /\ ~overlapped => approval[a].status = "APPROVED"
    BY DEF OverThresholdWasAnswered
  <2>1. CASE overlapped
    BY <2>1 DEF GateInv, RowOK, Answered
  <2>2. CASE ~overlapped
    BY <2>2 DEF SerialInv, CostsSaid, Said
  <2> QED
    BY <2>1, <2>2
<1> QED
  BY <1>1, GateHolds, SerialHolds, PTL

(* As long as requests never overlapped, at most one question is open, only*)
(* for an incident that waits for it or was cancelled, and it names the    *)
(* cost the incident was to be closed with.                                *)
THEOREM QuestionsDoNotPileUp == Spec => []OneQuestionAtATime
<1>1. SerialInv => OneQuestionAtATime
  BY DEF SerialInv, Question, OneQuestionAtATime, Pending
<1> QED
  BY <1>1, SerialHolds, PTL
=============================================================================
