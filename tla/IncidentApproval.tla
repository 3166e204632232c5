-------------------------- MODULE IncidentApproval --------------------------
(***************************************************************************)
(* One incident from its report to its end, and the owner's approval of    *)
(* its cost, under concurrent requests.  Sessions are READ COMMITTED and   *)
(* no row is read FOR UPDATE: a request reads the incident, decides on     *)
(* that copy and saves every column of it, in a transaction of its own.    *)
(* overlapped records whether two of them were ever open at once.          *)
(*                                                                         *)
(* Costs are positive; 0 stands for a cost that is not set.  Definitions   *)
(* named Bug... are faulty variants of the one after each, for the         *)
(* mutation runs only.                                                     *)
(***************************************************************************)
EXTENDS Naturals

CONSTANTS
    Requests,       \* requests, and classification jobs, that may be open at once
    Approvals,      \* identifiers of owner approvals
    Technicians,    \* the tenant's active technicians
    Nobody,         \* no technician
    NoApproval,     \* a request that answers no approval
    Costs,          \* the costs a triage or a resolution may name
    Threshold       \* owner_approval_threshold_eur

ASSUME ApprovalAssumption ==
    /\ Costs \subseteq Nat \ {0} /\ Threshold \in Nat
    /\ Nobody \notin Technicians /\ NoApproval \notin Approvals

VARIABLES
    incident,   \* the committed row of the incident
    approval,   \* the committed rows of its approvals
    pc,         \* where each request is
    seen,       \* the incident as each request read it
    answers,    \* the approval each request answers
    overlapped  \* history: two requests were open at once

vars == <<incident, approval, pc, seen, answers, overlapped>>

Closed == {"RESOLVED", "CANCELLED"}
Working == {"ASSIGNED", "ACCEPTED", "IN_PROGRESS", "WAITING_EXTERNAL_PARTS"}
Statuses == {"OPEN", "CLASSIFIED", "AWAITING_OWNER_APPROVAL"} \cup Working \cup Closed
RelatedTypes == {"INCIDENT", "MAINTENANCE_COST"}
ApprovalStatuses == {"PENDING", "APPROVED", "REJECTED"}

Rows ==
    [status : Statuses, technician : Technicians \cup {Nobody},
     approved : Costs \cup {0}, final : Costs \cup {0}]

Reported == [status |-> "OPEN", technician |-> Nobody, approved |-> 0, final |-> 0]

TypeOK ==
    /\ incident \in Rows
    /\ approval \in [Approvals ->
           [status : ApprovalStatuses \cup {"none"}, related_type : RelatedTypes,
            amount : Costs \cup {0}]]
    /\ pc \in [Requests -> {"idle", "read", "answering", "locked"}]
    /\ seen \in [Requests -> Rows]
    /\ answers \in [Requests -> Approvals \cup {NoApproval}]
    /\ overlapped \in BOOLEAN

Init ==
    /\ incident = Reported
    /\ approval = [a \in Approvals |->
           [status |-> "none", related_type |-> "INCIDENT", amount |-> 0]]
    /\ pc = [q \in Requests |-> "idle"]
    /\ seen = [q \in Requests |-> Reported]
    /\ answers = [q \in Requests |-> NoApproval]
    /\ overlapped = FALSE

Opens(q, at) ==
    /\ pc[q] = "idle"
    /\ pc' = [pc EXCEPT ![q] = at]
    /\ overlapped' = (overlapped \/ \E p \in Requests \ {q} : pc[p] # "idle")

(* incidents.get *)
ReadIncident(q) ==
    /\ Opens(q, "read")
    /\ seen' = [seen EXCEPT ![q] = incident]
    /\ UNCHANGED <<incident, approval, answers>>

Ends(q) ==
    /\ pc' = [pc EXCEPT ![q] = "idle"]
    /\ seen' = [seen EXCEPT ![q] = Reported]
    /\ answers' = [answers EXCEPT ![q] = NoApproval]
    /\ UNCHANGED overlapped

(* The request is refused, fails or is lost before its commit. *)
RolledBack(q) ==
    /\ pc[q] # "idle"
    /\ Ends(q)
    /\ UNCHANGED <<incident, approval>>

(* incidents.save: every mutable column, from the copy the request read. *)
Save(q, row) == pc[q] = "read" /\ incident' = row /\ Ends(q)

(* A step whose guard is on the copy and whose effect is the status. *)
Moves(q, from, to) ==
    /\ seen[q].status \in from
    /\ Save(q, [seen[q] EXCEPT !.status = to])
    /\ UNCHANGED approval

BugOneApprovalCoversAll(row, cost) == cost > Threshold /\ row.approved = 0

(* needs_owner_approval *)
NeedsApproval(row, cost) == cost > Threshold /\ cost > row.approved

BugAwaitingMayAskAgain(row) ==
    row.status \in {"CLASSIFIED", "IN_PROGRESS", "AWAITING_OWNER_APPROVAL"}

(* The origins of require_owner_approval. *)
MayAskOwner(row) == row.status \in {"CLASSIFIED", "IN_PROGRESS"}

(* require_owner_approval on a copy, the save and _open_approval. *)
AsksOwner(q, row, type, amount) ==
    /\ MayAskOwner(row)
    /\ \E a \in Approvals :
         /\ approval[a].status = "none"
         /\ approval' = [approval EXCEPT ![a] =
                [status |-> "PENDING", related_type |-> type, amount |-> amount]]
    /\ Save(q, [row EXCEPT !.status = "AWAITING_OWNER_APPROVAL"])
-----------------------------------------------------------------------------
(* ClassifyIncidentUseCase: the classifier is awaited between the read and *)
(* the save; a verdict without enough confidence saves the row as read.    *)
Classify(q) ==
    \E to \in {"OPEN", "CLASSIFIED"} : Moves(q, {"OPEN"}, to)

(* TriageIncidentUseCase: the copy is classified first when the incident   *)
(* is OPEN and both category and severity are given.                       *)
Triage(q, classifies, cost) ==
    LET row == IF classifies THEN [seen[q] EXCEPT !.status = "CLASSIFIED"] ELSE seen[q]
    IN  /\ seen[q].status \notin Closed \cup {"AWAITING_OWNER_APPROVAL"}
        /\ classifies => seen[q].status = "OPEN"
        /\ IF NeedsApproval(row, cost)
             THEN AsksOwner(q, row, "INCIDENT", cost)
             ELSE Save(q, row) /\ UNCHANGED approval

Assign(q, t) ==
    /\ seen[q].status \in Working \cup {"CLASSIFIED"}
    /\ Save(q, [seen[q] EXCEPT !.status = "ASSIGNED", !.technician = t])
    /\ UNCHANGED approval

Accept(q) == Moves(q, {"ASSIGNED"}, "ACCEPTED")

(* The technician declines: the assignment is cleared. *)
Reject(q) ==
    /\ seen[q].status \in {"ASSIGNED", "ACCEPTED"}
    /\ Save(q, [seen[q] EXCEPT !.status = "CLASSIFIED", !.technician = Nobody])
    /\ UNCHANGED approval

EnRoute(q) == Moves(q, {"ACCEPTED"}, "IN_PROGRESS")

WaitForParts(q) == Moves(q, {"IN_PROGRESS"}, "WAITING_EXTERNAL_PARTS")

ResumeWork(q) == Moves(q, {"WAITING_EXTERNAL_PARTS"}, "IN_PROGRESS")

(* ResolveIncidentUseCase: the final cost either needs the owner, and is   *)
(* kept on the row meanwhile, or closes the incident.  Only the closing    *)
(* asks for an incident in progress.                                       *)
Resolve(q, cost) ==
    LET row == [seen[q] EXCEPT !.final = cost]
    IN  IF NeedsApproval(row, cost)
          THEN AsksOwner(q, row, "MAINTENANCE_COST", cost)
          ELSE /\ row.status = "IN_PROGRESS"
               /\ Save(q, [row EXCEPT !.status = "RESOLVED"])
               /\ UNCHANGED approval

(* CancelIncidentUseCase: a pending approval is left as it is. *)
Cancel(q) == Moves(q, Statuses \ Closed, "CANCELLED")
-----------------------------------------------------------------------------
(* RespondOwnerApprovalUseCase: the approval is read and must be PENDING,  *)
(* its UPDATE locks the row until the commit, and only then the incident   *)
(* is read.                                                                *)
ReadApproval(q, a) ==
    /\ Opens(q, "answering")
    /\ approval[a].status = "PENDING"
    /\ answers' = [answers EXCEPT ![q] = a]
    /\ UNCHANGED <<incident, approval, seen>>

LockApproval(q) ==
    /\ pc[q] = "answering"
    /\ \A p \in Requests : pc[p] = "locked" => answers[p] # answers[q]
    /\ pc' = [pc EXCEPT ![q] = "locked"]
    /\ seen' = [seen EXCEPT ![q] = incident]
    /\ UNCHANGED <<incident, approval, answers, overlapped>>

(* The target of resume_after_approval. *)
ResumedStatus(type) ==
    IF type = "INCIDENT" THEN "CLASSIFIED" ELSE "IN_PROGRESS"

AnswerCommits(q, verdict, row) ==
    /\ pc[q] = "locked"
    /\ approval' = [approval EXCEPT ![answers[q]].status = verdict]
    /\ incident' = row
    /\ Ends(q)

Approve(q) ==
    /\ seen[q].status = "AWAITING_OWNER_APPROVAL"
    /\ AnswerCommits(q, "APPROVED",
         [seen[q] EXCEPT !.status = ResumedStatus(approval[answers[q]].related_type),
                         !.approved = approval[answers[q]].amount])

RejectCost(q) ==
    /\ seen[q].status \notin Closed
    /\ AnswerCommits(q, "REJECTED", [seen[q] EXCEPT !.status = "CANCELLED"])
-----------------------------------------------------------------------------
Step(q) ==
    \/ ReadIncident(q) \/ RolledBack(q)
    \/ Classify(q)
    \/ \E classifies \in BOOLEAN, cost \in Costs \cup {0} : Triage(q, classifies, cost)
    \/ \E t \in Technicians : Assign(q, t)
    \/ Accept(q) \/ Reject(q) \/ EnRoute(q) \/ WaitForParts(q) \/ ResumeWork(q)
    \/ \E cost \in Costs : Resolve(q, cost)
    \/ Cancel(q)
    \/ \E a \in Approvals : ReadApproval(q, a)
    \/ LockApproval(q) \/ Approve(q) \/ RejectCost(q)

Next == \E q \in Requests : Step(q)

Spec == Init /\ [][Next]_vars
-----------------------------------------------------------------------------
(* An incident closed above the tenant's threshold was put to the owner    *)
(* for at least that cost and answered, whatever requests were open at     *)
(* once: a stale copy cannot close it around the gate.                     *)
OverThresholdWasAnswered ==
    incident.status = "RESOLVED" /\ incident.final > Threshold
        => \E a \in Approvals :
             /\ approval[a].status \in {"APPROVED", "REJECTED"}
             /\ approval[a].amount >= incident.final
             /\ ~overlapped => approval[a].status = "APPROVED"

Pending == {a \in Approvals : approval[a].status = "PENDING"}

(* As long as requests never overlapped, an incident that waits for the    *)
(* owner waits for one question, a question is open only for an incident   *)
(* that waits for it or was cancelled meanwhile, and one about a final cost*)
(* names the cost the incident was to be closed with.                      *)
OneQuestionAtATime ==
    ~overlapped =>
        /\ incident.status = "AWAITING_OWNER_APPROVAL" => Pending # {}
        /\ \A a, b \in Pending : a = b
        /\ Pending # {} =>
             incident.status \in {"AWAITING_OWNER_APPROVAL", "CANCELLED"}
        /\ \A a \in Pending :
            approval[a].related_type = "MAINTENANCE_COST"
                => incident.final = approval[a].amount
-----------------------------------------------------------------------------
(* What the documents say and the code does not do.                        *)

(* A closed incident admits no operation and nothing of it is modified     *)
(* (maintenance.md R1).                                                    *)
ClosedStaysClosed == [][incident.status \in Closed => incident' = incident]_vars

(* Approving the real cost returns the incident to the technician, who     *)
(* repeats the closing (maintenance.md R4): there is one.                  *)
ApprovalReturnsToTheTechnician ==
    incident.status = "IN_PROGRESS" => incident.technician # Nobody
=============================================================================
