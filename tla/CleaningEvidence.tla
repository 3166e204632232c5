--------------------------- MODULE CleaningEvidence ---------------------------
(***************************************************************************)
(* One cleaning task, the requests that move it and the evidence its       *)
(* completion asks for: ticked items and photos.  A request reads the task,*)
(* decides on that copy and saves the copy whole, so requests that cross   *)
(* undo each other; a photo is an object in a store no transaction rolls   *)
(* back and a row that is committed after it.                              *)
(*                                                                         *)
(* The flat, the assignee and the replacement of a task are the subject of *)
(* PropertyLifecycle: here they, and the index that refuses a second live  *)
(* task of a stay, are among the reasons why a request rolls back.         *)
(***************************************************************************)
EXTENDS Naturals

CONSTANTS
    Callers,        \* requests of cleaners and managers on the task
    ChecklistItems, \* the items the template requires
    Pictures,       \* photos that are uploaded
    PhotoTypes,     \* the types the template declares
    RequiredTypes,  \* those it requires
    ForIncident,    \* the kind of a photo that is about an incident
    KindOf,         \* the type of each photo, or ForIncident
    MaxVisits       \* bound on the requests

ASSUME EvidenceAssumption ==
    /\ RequiredTypes \subseteq PhotoTypes
    /\ ForIncident \notin PhotoTypes
    /\ KindOf \in [Pictures -> PhotoTypes \cup {ForIncident}]
    /\ MaxVisits \in Nat

VARIABLES
    taskRow,    \* the committed task
    inHand,     \* the copies of it that requests hold: none or one each
    ticked,     \* the items with a completion
    ticking,    \* the items whose tick has passed the status check
    photoRows,  \* the photos with a committed row
    objects,    \* the photos in the store
    uploading,  \* where each upload is
    unanswered, \* history: uploads whose commit succeeded and seemed to fail
    leftBehind, \* history: uploads whose object nobody could delete
    visits      \* history: the requests there have been

evidenceVars == <<taskRow, inHand, ticked, ticking, photoRows, objects, uploading,
                  unanswered, leftBehind, visits>>

LiveTask == {"CREATED", "ASSIGNED", "ACCEPTED", "IN_PROGRESS"}
Verdicts == {"PASSED", "FAILED", "WAIVED"}
TaskRows == [status : LiveTask \cup {"REJECTED", "CANCELLED", "COMPLETED"},
             verdict : Verdicts \cup {"PENDING"}]

(* What a request asks for; a manager's validation is its verdict. *)
TaskRequests == {"ASSIGN", "ACCEPT", "REJECT", "START", "CANCEL", "COMPLETE"} \cup Verdicts

EvidenceTypeOK ==
    /\ taskRow \in TaskRows
    /\ \A c \in Callers : inHand[c] \subseteq [asks : TaskRequests, row : TaskRows]
    /\ ticked \cup ticking \subseteq ChecklistItems
    /\ photoRows \cup objects \cup unanswered \cup leftBehind \subseteq Pictures
    /\ uploading \in [Pictures -> {"IDLE", "CHECKED", "STORED", "FAILED", "DONE"}]
    /\ visits \in 0..MaxVisits

EvidenceInit ==
    /\ taskRow \in [status : LiveTask, verdict : {"PENDING"}]
    /\ inHand = [c \in Callers |-> {}]
    /\ ticked = {} /\ ticking = {}
    /\ photoRows = {} /\ objects = {}
    /\ uploading = [p \in Pictures |-> "IDLE"]
    /\ unanswered = {} /\ leftBehind = {}
    /\ visits = 0
-----------------------------------------------------------------------------
fileVars == <<ticked, ticking, photoRows, objects, uploading, unanswered, leftBehind>>

(* The statuses each request is allowed from. *)
StatusesFor(asks) ==
    CASE asks = "ASSIGN"   -> {"CREATED", "ASSIGNED"}
      [] asks = "ACCEPT"   -> {"ASSIGNED"}
      [] asks = "REJECT"   -> {"ASSIGNED", "ACCEPTED"}
      [] asks = "START"    -> {"ACCEPTED"}
      [] asks = "CANCEL"   -> LiveTask
      [] asks = "COMPLETE" -> {"IN_PROGRESS"}
      [] OTHER             -> {"COMPLETED"}

(* What the entity makes of a copy. *)
Moved(asks, row) ==
    CASE asks = "ASSIGN"   -> [row EXCEPT !.status = "ASSIGNED"]
      [] asks = "ACCEPT"   -> [row EXCEPT !.status = "ACCEPTED"]
      [] asks = "REJECT"   -> [row EXCEPT !.status = "REJECTED"]
      [] asks = "START"    -> [row EXCEPT !.status = "IN_PROGRESS"]
      [] asks = "CANCEL"   -> [row EXCEPT !.status = "CANCELLED"]
      [] asks = "COMPLETE" -> [row EXCEPT !.status = "COMPLETED", !.verdict = "PASSED"]
      [] OTHER             -> [row EXCEPT !.verdict = asks]

(* The types with a row; photos of incidents are in a table of their own.  *)
BugUploadedTypes == {KindOf[p] : p \in objects} \ {ForIncident} \* the store's listing
UploadedTypes == {KindOf[p] : p \in photoRows} \ {ForIncident}

EvidenceIsComplete == ChecklistItems \subseteq ticked /\ RequiredTypes \subseteq UploadedTypes

LoadTask(c, asks) ==
    /\ inHand[c] = {} /\ visits < MaxVisits
    /\ taskRow.status \in StatusesFor(asks)
    /\ inHand' = [inHand EXCEPT ![c] = {[asks |-> asks,
                   row |-> IF asks = "COMPLETE" THEN taskRow ELSE Moved(asks, taskRow)]}]
    /\ visits' = visits + 1
    /\ UNCHANGED <<taskRow, fileVars>>

(* The close reads the evidence after the task and lets the entity judge; a*)
(* critical incident of the flat makes it refuse as well.                  *)
GatherEvidence(c) ==
    \E h \in inHand[c] :
        /\ h.asks = "COMPLETE" /\ h.row.status = "IN_PROGRESS"
        /\ EvidenceIsComplete
        /\ inHand' = [inHand EXCEPT ![c] = {[h EXCEPT !.row = Moved("COMPLETE", h.row)]}]
        /\ UNCHANGED <<taskRow, fileVars, visits>>

(* Every column a task has is saved, whatever was asked.                   *)
SaveTask(c) ==
    \E h \in inHand[c] :
        /\ h.asks = "COMPLETE" => h.row.status = "COMPLETED"
        /\ taskRow' = h.row
        /\ inHand' = [inHand EXCEPT ![c] = {}]
        /\ UNCHANGED <<fileVars, visits>>

(* Refused by the entity, by the flat's state or by the index of live      *)
(* tasks, or failed: nothing of the request stays.                         *)
TaskRollsBack(c) ==
    /\ inHand[c] # {}
    /\ inHand' = [inHand EXCEPT ![c] = {}]
    /\ UNCHANGED <<taskRow, fileVars, visits>>
-----------------------------------------------------------------------------
taskVars == <<taskRow, inHand, visits>>
photoVars == <<photoRows, objects, uploading, unanswered, leftBehind>>

BeginTick(i) ==
    /\ i \notin ticked \cup ticking /\ taskRow.status = "IN_PROGRESS"
    /\ ticking' = ticking \cup {i}
    /\ UNCHANGED <<taskVars, photoVars, ticked>>

CommitTick(i) ==
    /\ i \in ticking
    /\ ticking' = ticking \ {i} /\ ticked' = ticked \cup {i}
    /\ UNCHANGED <<taskVars, photoVars>>

TickRollsBack(i) ==
    /\ i \in ticking
    /\ ticking' = ticking \ {i}
    /\ UNCHANGED <<taskVars, photoVars, ticked>>

UploadGoes(p, from, to) == uploading[p] = from /\ uploading' = [uploading EXCEPT ![p] = to]

(* A photo of the cleaning asks for a task in progress; one of an incident *)
(* asks that of the incident, which may or may not be.                     *)
CheckUpload(p) ==
    /\ KindOf[p] = ForIncident \/ taskRow.status = "IN_PROGRESS"
    /\ UploadGoes(p, "IDLE", "CHECKED")
    /\ UNCHANGED <<taskVars, ticked, ticking, photoRows, objects, unanswered, leftBehind>>

BugRowBeforeObject(p) ==            \* the row first, then the object
    /\ UploadGoes(p, "CHECKED", "STORED")
    /\ photoRows' = photoRows \cup {p}
    /\ UNCHANGED <<taskVars, ticked, ticking, objects, unanswered, leftBehind>>

PutObject(p) ==
    /\ UploadGoes(p, "CHECKED", "STORED")
    /\ objects' = objects \cup {p}
    /\ UNCHANGED <<taskVars, ticked, ticking, photoRows, unanswered, leftBehind>>

(* A write that fails may have reached the store; nobody deletes it then.  *)
StoreRefuses(p) ==
    /\ UploadGoes(p, "CHECKED", "DONE")
    /\ \/ UNCHANGED <<objects, leftBehind>>
       \/ objects' = objects \cup {p} /\ leftBehind' = leftBehind \cup {p}
    /\ UNCHANGED <<taskVars, ticked, ticking, photoRows, unanswered>>

CommitPhoto(p) ==
    /\ UploadGoes(p, "STORED", "DONE")
    /\ photoRows' = photoRows \cup {p}
    /\ UNCHANGED <<taskVars, ticked, ticking, objects, unanswered, leftBehind>>

(* The insert or the commit raises; a commit that raises may have been     *)
(* done, its answer lost.                                                  *)
PhotoFails(p) ==
    /\ UploadGoes(p, "STORED", "FAILED")
    /\ \/ UNCHANGED <<photoRows, unanswered>>
       \/ photoRows' = photoRows \cup {p} /\ unanswered' = unanswered \cup {p}
    /\ UNCHANGED <<taskVars, ticked, ticking, objects, leftBehind>>

DeleteQuietly(p) ==
    /\ UploadGoes(p, "FAILED", "DONE")
    /\ \/ objects' = objects \ {p} /\ UNCHANGED leftBehind
       \/ leftBehind' = leftBehind \cup {p} /\ UNCHANGED objects
    /\ UNCHANGED <<taskVars, ticked, ticking, photoRows, unanswered>>

(* The process ends, or the request is cancelled, before the commit.       *)
UploadDies(p) ==
    /\ UploadGoes(p, "STORED", "DONE")
    /\ leftBehind' = leftBehind \cup {p}
    /\ UNCHANGED <<taskVars, ticked, ticking, photoRows, objects, unanswered>>

EvidenceNext ==
    \/ \E c \in Callers :
         \/ \E asks \in TaskRequests : LoadTask(c, asks)
         \/ GatherEvidence(c) \/ SaveTask(c) \/ TaskRollsBack(c)
    \/ \E i \in ChecklistItems : BeginTick(i) \/ CommitTick(i) \/ TickRollsBack(i)
    \/ \E p \in Pictures :
         \/ CheckUpload(p) \/ PutObject(p) \/ StoreRefuses(p) \/ CommitPhoto(p)
         \/ PhotoFails(p) \/ DeleteQuietly(p) \/ UploadDies(p)

EvidenceSpec == EvidenceInit /\ [][EvidenceNext]_evidenceVars
-----------------------------------------------------------------------------
(* A row never points at an object that is not there, except when a commit *)
(* was done and its answer lost; and an object without a row belongs to an *)
(* upload under way or to one whose object could not be deleted.           *)
StoreMatchesTheRows ==
    \A p \in Pictures :
        /\ p \in photoRows => p \in objects \cup unanswered
        /\ p \in objects \ photoRows =>
              uploading[p] \in {"STORED", "FAILED"} \/ p \in leftBehind

(* However requests cross, what is COMPLETED has every required item ticked*)
(* and a row for every required photo: no stale copy brings a completion   *)
(* that was not judged.                                                    *)
CompletedWithItsEvidence ==
    taskRow.status = "COMPLETED" =>
        /\ ChecklistItems \subseteq ticked
        /\ \A t \in RequiredTypes : \E p \in photoRows : KindOf[p] = t

(* However requests cross, exactly a completed task carries a verdict: a   *)
(* cancellation or a start that lands on a completed task takes the verdict*)
(* with it, because a copy is saved whole.                                 *)
VerdictGoesWithCompletion ==
    taskRow.verdict # "PENDING" <=> taskRow.status = "COMPLETED"
=============================================================================
