--------------------------- MODULE GuestRegistration ---------------------------
(***************************************************************************)
(* A stay, its guest and the report to the police.  Guests check in through*)
(* the portal, perhaps several times, and a check-in on a stay without a   *)
(* guest makes one; managers save documents; the office saves the stay from*)
(* a copy, its guest included; a manager files the report once the data are*)
(* complete.                                                               *)
(*                                                                         *)
(* A document always brings every field the report needs, as the form does,*)
(* so a guest has one or has not.  The guest a check-in may make is named  *)
(* after the check-in.  Audit, timeline and notices are left out.          *)
(***************************************************************************)
EXTENDS Integers

CONSTANTS
    CheckIns,       \* submissions of the portal's form
    Managers,       \* requests that save a guest's document
    Filers,         \* people who file the report
    Booker,         \* the guest the stay was booked with, if it has one
    NoGuest,
    MaxReports      \* bound on the reports that are filed

Guests == CheckIns \cup {Booker}
Writers == CheckIns \cup Managers

ASSUME RegistrationAssumption ==
    /\ CheckIns \cap (Managers \cup {Booker, NoGuest}) = {}
    /\ NoGuest # Booker
    /\ MaxReports \in Nat

VARIABLES
    report,     \* legal_registration_status of the stay
    stayGuest,  \* guest_id of the stay
    people,     \* the guests there are
    documents,  \* the guests who have a document
    fromPortal, \* history: those who have one a check-in saved
    made,       \* the check-ins whose transaction has made a guest
    claim,      \* those that have claimed the stay as well and not committed
    saving,     \* where each writer is
    guestOf,    \* the guest it writes for
    readAt,     \* the status it has read of the stay
    office,     \* the guests on the copies the office holds of the stay
    relinked,   \* history: the office gave a stay that had a guest another one
    filing,     \* where each filer is
    filed,      \* history: the reports the police accepted
    mixed       \* history: filers overlapped or stopped after the call, or a status
                \* was written over another than the one it was decided on

guestVars == <<report, stayGuest, people, documents, fromPortal, made, claim,
               saving, guestOf, readAt, office, relinked, filing, filed, mixed>>

Reports == {"NOT_REQUIRED", "PENDING_GUEST_DATA", "READY_TO_SUBMIT", "SUBMITTED", "FAILED"}

GuestsTypeOK ==
    /\ report \in Reports
    /\ stayGuest \in people \cup {NoGuest}
    /\ people \subseteq Guests /\ fromPortal \subseteq documents /\ documents \subseteq people
    /\ made \subseteq {w \in CheckIns : saving[w] \in {"CLAIMED", "SAVED"}}
    /\ claim = {w \in made : guestOf[w] = w}
    /\ saving \in [Writers -> {"IDLE", "BEGUN", "CLAIMED", "SAVED", "DONE"}]
    /\ guestOf \in [Writers -> Guests \cup {NoGuest}] /\ readAt \in [Writers -> Reports]
    /\ \A w \in Writers :
         saving[w] \in {"CLAIMED", "SAVED"} => guestOf[w] \in people \cup (claim \cap {w})
    /\ office \subseteq people \cup {NoGuest}
    /\ filing \in [Filers -> {"IDLE", "ACCEPTED", "REJECTED"}]
    /\ filed \in 0..MaxReports
    /\ {relinked, mixed} \subseteq BOOLEAN

GuestsInit ==
    /\ report \in {"NOT_REQUIRED", "PENDING_GUEST_DATA"}
    /\ stayGuest \in {Booker, NoGuest}
    /\ people = {Booker} /\ documents = {} /\ fromPortal = {}
    /\ made = {} /\ claim = {}
    /\ saving = [w \in Writers |-> "IDLE"]
    /\ guestOf = [w \in Writers |-> NoGuest]
    /\ readAt = [w \in Writers |-> "NOT_REQUIRED"]
    /\ office = {} /\ relinked = FALSE
    /\ filing = [f \in Filers |-> "IDLE"]
    /\ filed = 0 /\ mixed = FALSE
-----------------------------------------------------------------------------
guestRows == <<people, documents, fromPortal>>
writerVars == <<made, claim, saving, guestOf, readAt>>
officeVars == <<office, relinked>>
filerVars == <<filing, filed>>

SavingGoes(w, from, to) == saving[w] = from /\ saving' = [saving EXCEPT ![w] = to]

(* The check-in that has claimed the stay keeps the stay's row locked.     *)
StayIsFree(w) == claim \subseteq {w}

(* The end of a writer's transaction. *)
LetsGo(w) ==
    /\ made' = made \ {w} /\ claim' = claim \ {w}
    /\ guestOf' = [guestOf EXCEPT ![w] = NoGuest]
    /\ readAt' = [readAt EXCEPT ![w] = "NOT_REQUIRED"]

(* The rows a transaction sees: the committed ones and its own. *)
GuestSeen(w) == IF w \in claim THEN w ELSE stayGuest

(* The portal's session names the guest the stay has as it begins. *)
BeginCheckIn(w) ==
    /\ w \in CheckIns
    /\ SavingGoes(w, "IDLE", "BEGUN")
    /\ guestOf' = [guestOf EXCEPT ![w] = stayGuest]
    /\ UNCHANGED <<report, stayGuest, guestRows, made, claim, readAt, officeVars, filerVars, mixed>>

(* A manager's PATCH names a guest and this stay. *)
BeginDocument(w, g) ==
    /\ w \in Managers /\ g \in people
    /\ SavingGoes(w, "IDLE", "CLAIMED")
    /\ guestOf' = [guestOf EXCEPT ![w] = g]
    /\ UNCHANGED <<report, stayGuest, guestRows, made, claim, readAt, officeVars, filerVars, mixed>>

KeepGuest(w) ==
    /\ guestOf[w] # NoGuest
    /\ SavingGoes(w, "BEGUN", "CLAIMED")
    /\ UNCHANGED <<report, stayGuest, guestRows, made, claim, guestOf, readAt,
                   officeVars, filerVars, mixed>>

BugClaimsAnyway(w) ==               \* set_guest without guest_id IS NULL
    /\ guestOf[w] = NoGuest
    /\ SavingGoes(w, "BEGUN", "CLAIMED")
    /\ StayIsFree(w)
    /\ made' = made \cup {w} /\ claim' = claim \cup {w}
    /\ guestOf' = [guestOf EXCEPT ![w] = w]
    /\ UNCHANGED <<report, stayGuest, guestRows, readAt, officeVars, filerVars, mixed>>

(* _create_guest: the stay is claimed where it still has no guest, and the *)
(* loser goes on with the winner's.  The loser's own guest keeps a name    *)
(* and nothing else.                                                       *)
ClaimStay(w) ==
    /\ guestOf[w] = NoGuest
    /\ SavingGoes(w, "BEGUN", "CLAIMED")
    /\ StayIsFree(w)
    /\ made' = made \cup {w}
    /\ IF stayGuest = NoGuest
       THEN claim' = claim \cup {w} /\ guestOf' = [guestOf EXCEPT ![w] = w]
       ELSE guestOf' = [guestOf EXCEPT ![w] = stayGuest] /\ UNCHANGED claim
    /\ UNCHANGED <<report, stayGuest, guestRows, readAt, officeVars, filerVars, mixed>>

(* save_document locks the guest's row, and the stay is read after it. *)
SaveDocument(w) ==
    /\ SavingGoes(w, "CLAIMED", "SAVED")
    /\ \A v \in Writers \ {w} : ~(saving[v] = "SAVED" /\ guestOf[v] = guestOf[w])
    /\ readAt' = [readAt EXCEPT ![w] = report]
    /\ UNCHANGED <<report, stayGuest, guestRows, made, claim, guestOf, officeVars, filerVars, mixed>>

BugForgetsTheFiling(current) == "READY_TO_SUBMIT"

(* status_for, where nothing is missing: an answer only for the two states *)
(* before a filing.                                                        *)
StatusFor(current) ==
    IF current \in {"PENDING_GUEST_DATA", "READY_TO_SUBMIT"} THEN "READY_TO_SUBMIT" ELSE current

(* _refresh_readiness writes a status that differs, then the commit; the   *)
(* portal's transaction holds the guest and the claim as well.             *)
CommitDocument(w) ==
    LET writes == StatusFor(readAt[w]) # readAt[w] IN
    /\ SavingGoes(w, "SAVED", "DONE")
    /\ writes => StayIsFree(w)
    /\ report' = IF writes THEN StatusFor(readAt[w]) ELSE report
    /\ mixed' = (mixed \/ (writes /\ report # readAt[w]))
    /\ stayGuest' = GuestSeen(w)
    /\ people' = people \cup (made \cap {w})
    /\ documents' = documents \cup {guestOf[w]}
    /\ fromPortal' = IF w \in CheckIns THEN fromPortal \cup {guestOf[w]} ELSE fromPortal
    /\ LetsGo(w)
    /\ UNCHANGED <<officeVars, filerVars>>

DocumentRollsBack(w) ==
    /\ saving[w] \in {"BEGUN", "CLAIMED", "SAVED"}
    /\ saving' = [saving EXCEPT ![w] = "DONE"]
    /\ LetsGo(w)
    /\ UNCHANGED <<report, stayGuest, guestRows, officeVars, filerVars, mixed>>
-----------------------------------------------------------------------------
(* The sweep of the access records decides that the stay is reported. *)
Initialise ==
    /\ report = "NOT_REQUIRED" /\ claim = {}
    /\ report' = "PENDING_GUEST_DATA"
    /\ UNCHANGED <<stayGuest, guestRows, writerVars, officeVars, filerVars, mixed>>

LoadForOffice ==
    /\ office = {} /\ office' = {stayGuest}
    /\ UNCHANGED <<report, stayGuest, guestRows, writerVars, relinked, filerVars, mixed>>

(* The stay is saved whole, with the copy's guest or with another.  Taking *)
(* its guest away leaves what a copy does that is older than the guest.    *)
SaveByOffice(g) ==
    /\ office # {} /\ g \in office \cup {Booker}
    /\ claim = {}
    /\ stayGuest' = g /\ office' = {}
    /\ relinked' = (relinked \/ (stayGuest # NoGuest /\ g # stayGuest))
    /\ UNCHANGED <<report, guestRows, writerVars, filerVars, mixed>>

(* SubmitLegalRegistration up to the police's answer. *)
File(f, answer) ==
    /\ filing[f] = "IDLE"
    /\ report = "READY_TO_SUBMIT"
    /\ stayGuest \in documents
    /\ filed < MaxReports
    /\ filing' = [filing EXCEPT ![f] = answer]
    /\ filed' = IF answer = "ACCEPTED" THEN filed + 1 ELSE filed
    /\ mixed' = (mixed \/ \E g \in Filers : filing[g] # "IDLE")
    /\ UNCHANGED <<report, stayGuest, guestRows, writerVars, officeVars>>

SaveOutcome(f) ==
    /\ filing[f] # "IDLE" /\ claim = {}
    /\ report' = IF filing[f] = "ACCEPTED" THEN "SUBMITTED" ELSE "FAILED"
    /\ filing' = [filing EXCEPT ![f] = "IDLE"]
    /\ UNCHANGED <<stayGuest, guestRows, writerVars, officeVars, filed, mixed>>

(* The answer is lost with the process. *)
FilerStops(f) ==
    /\ filing[f] # "IDLE"
    /\ filing' = [filing EXCEPT ![f] = "IDLE"]
    /\ mixed' = TRUE
    /\ UNCHANGED <<report, stayGuest, guestRows, writerVars, officeVars, filed>>

GuestsNext ==
    \/ \E w \in Writers :
         \/ BeginCheckIn(w) \/ KeepGuest(w) \/ ClaimStay(w) \/ SaveDocument(w)
         \/ CommitDocument(w) \/ DocumentRollsBack(w)
         \/ \E g \in people : BeginDocument(w, g)
    \/ Initialise
    \/ LoadForOffice \/ \E g \in people \cup {NoGuest} : SaveByOffice(g)
    \/ \E f \in Filers :
         \/ \E answer \in {"ACCEPTED", "REJECTED"} : File(f, answer)
         \/ SaveOutcome(f) \/ FilerStops(f)

GuestsSpec == GuestsInit /\ [][GuestsNext]_guestVars
-----------------------------------------------------------------------------
(* A document that came in through the portal belongs to the stay's guest: *)
(* two submissions of one form on a stay without a guest both make one,    *)
(* and the document must not end up with the one the stay forgot.  Only    *)
(* the office, saving its copy of the stay, can part them.                 *)
DocumentStaysWithTheStay ==
    \A w \in CheckIns : w \in fromPortal => (stayGuest = w \/ relinked)

(* A stay is reported to the police once, however often its guest's data   *)
(* are sent again afterwards, unless a filer stopped after the call, two   *)
(* of them were at it together or a writer read the status before another  *)
(* wrote it.                                                               *)
FiledOnce == ~mixed => filed <= 1
===============================================================================
