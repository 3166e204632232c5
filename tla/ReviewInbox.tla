------------------------------ MODULE ReviewInbox ------------------------------
(***************************************************************************)
(* The reviews of a tenant: a job classifies the new ones and drafts an    *)
(* answer, and people approve the draft, edit it, have it written again,   *)
(* mark the review as answered, or ignore it.  The job takes a batch with  *)
(* FOR UPDATE SKIP LOCKED and commits after each of them, so that its      *)
(* locks are gone after the first; a person loads a copy and saves it; and *)
(* every save of a review writes all of its columns.                       *)
(*                                                                         *)
(* A review always has a language (creation infers one), and the texts     *)
(* themselves are left out.                                                *)
(***************************************************************************)
EXTENDS Naturals, FiniteSets

CONSTANTS
    InboxSize,  \* the reviews are numbered as they come
    People,     \* requests of people that may be going on at once
    TickSize    \* the reviews one run of the job takes

ASSUME ReviewsAssumption == InboxSize \in Nat /\ TickSize \in Nat \ {0}

VARIABLES
    review,     \* the committed rows of reviews
    draft,      \* the answer drafted to each of them
    taken,      \* the copies the job has still to classify
    held,       \* the rows it has locked
    person      \* the request each person is making, with the copies it loaded

reviewVars == <<review, draft, taken, held, person>>

Reviews == 1..InboxSize
MaxClassifications == 3
ReviewStatuses == {"NEW", "DRAFTED", "APPROVED", "IGNORED", "POSTED_MANUALLY"}
ReviewRows ==
    [status : ReviewStatuses \cup {"ABSENT"}, summary : BOOLEAN,
     attempts : 0..MaxClassifications]
Drafts == {"NONE", "OPEN", "APPROVED"}
Taken == [id : Reviews, row : ReviewRows]
Operations == {"approve", "ignore", "post", "regenerate", "edit"}
Loaded == [op : Operations, id : Reviews, row : ReviewRows, draft : Drafts]

ReviewsTypeOK ==
    /\ review \in [Reviews -> ReviewRows]
    /\ draft \in [Reviews -> Drafts]
    /\ taken \subseteq Taken /\ held \subseteq Reviews
    /\ person \in [People -> SUBSET Loaded]
    /\ Cardinality(taken) <= TickSize
    /\ \A k \in taken : ~k.row.summary /\ k.row.attempts < MaxClassifications
    /\ held \in {{}, {k.id : k \in taken}}
    /\ \A r \in Reviews : review[r].summary => draft[r] # "NONE"

ReviewsInit ==
    /\ review = [r \in Reviews |-> [status |-> "ABSENT", summary |-> FALSE, attempts |-> 0]]
    /\ draft = [r \in Reviews |-> "NONE"]
    /\ taken = {}
    /\ held = {}
    /\ person = [p \in People |-> {}]
-----------------------------------------------------------------------------
Present(r) == review[r].status # "ABSENT"

CreateReview(r) ==
    /\ ~Present(r) /\ \A q \in 1..(r - 1) : Present(q)
    /\ review' = [review EXCEPT ![r].status = "NEW"]
    /\ UNCHANGED <<draft, taken, held, person>>

(* What each request asks of the copies it loads. *)
Origins ==
    [approve |-> {"DRAFTED"}, ignore |-> {"NEW", "DRAFTED"}, post |-> {"APPROVED"},
     regenerate |-> {"NEW", "DRAFTED", "APPROVED"}, edit |-> ReviewStatuses]

LoadReview(p, op, r) ==
    /\ person[p] = {}
    /\ review[r].status \in Origins[op]
    /\ op = "approve" => draft[r] # "NONE"
    /\ op = "edit" => draft[r] = "OPEN"
    /\ person' = [person EXCEPT
           ![p] = {[op |-> op, id |-> r, row |-> review[r], draft |-> draft[r]]}]
    /\ UNCHANGED <<review, draft, taken, held>>

Outcome == [approve |-> "APPROVED", ignore |-> "IGNORED", post |-> "POSTED_MANUALLY"]

(* ApproveReview, IgnoreReview and MarkPostedManually save their copy of   *)
(* the review; an UPDATE waits for the lock of the row.                    *)
SaveReview(p, c) ==
    /\ c \in person[p] /\ c.op \in DOMAIN Outcome
    /\ c.id \notin held
    /\ review' = [review EXCEPT ![c.id] = [c.row EXCEPT !.status = Outcome[c.op]]]
    /\ draft' = [draft EXCEPT ![c.id] = IF c.op = "approve" THEN "APPROVED" ELSE @]
    /\ person' = [person EXCEPT ![p] = {}]
    /\ UNCHANGED <<taken, held>>

(* EditReviewDraft and RegenerateReviewDraft save their copy of the draft, *)
(* or add the first one; a second draft of one review is refused by its    *)
(* unique key.                                                             *)
SaveDraft(p, c) ==
    /\ c \in person[p] /\ c.op \notin DOMAIN Outcome
    /\ draft' = [draft EXCEPT ![c.id] =
           IF c.draft # "NONE" THEN c.draft ELSE IF @ = "NONE" THEN "OPEN" ELSE @]
    /\ person' = [person EXCEPT ![p] = {}]
    /\ UNCHANGED <<review, taken, held>>
-----------------------------------------------------------------------------
(* ClassifyPendingReviewsUseCase                                           *)

(* list_pending_classification does not ask for the status. *)
Unclassified ==
    {r \in Reviews : Present(r) /\ ~review[r].summary
                     /\ review[r].attempts < MaxClassifications}

Oldest(s) == CHOOSE r \in s : \A q \in s : r <= q

(* The oldest first, and no more than one tick takes. *)
InTick == {r \in Unclassified : Cardinality({q \in Unclassified : q < r}) < TickSize}

TakeBatch ==
    /\ taken = {} /\ Unclassified # {}
    /\ taken' = {[id |-> r, row |-> review[r]] : r \in InTick}
    /\ held' = InTick
    /\ UNCHANGED <<review, draft, person>>

NextTaken(k) == k \in taken /\ k.id = Oldest({q.id : q \in taken})

(* The copy is saved and committed, and with the transaction go all locks. *)
Commits(k, row) ==
    /\ NextTaken(k)
    /\ review' = [review EXCEPT ![k.id] = row]
    /\ taken' = taken \ {k}
    /\ held' = {}
    /\ UNCHANGED person

AnalysisFails(k, counted) ==
    /\ Commits(k, [k.row EXCEPT !.attempts = counted])
    /\ UNCHANGED draft

BugFailureNotCounted(k) == AnalysisFails(k, k.row.attempts)

(* The analyser raises: one attempt less. *)
ClassificationFails(k) == AnalysisFails(k, k.row.attempts + 1)

(* A verdict below the tenant's threshold: it is drafted without a draft,  *)
(* and its summary stays empty.                                            *)
ClassifiedLowConfidence(k) ==
    /\ k.row.status = "NEW"
    /\ Commits(k, [k.row EXCEPT !.status = "DRAFTED"])
    /\ UNCHANGED draft

Classified(k) ==
    /\ k.row.status = "NEW"
    /\ Commits(k, [k.row EXCEPT !.status = "DRAFTED", !.summary = TRUE])
    /\ draft' = [draft EXCEPT ![k.id] = IF @ = "NONE" THEN "OPEN" ELSE @]

(* Any verdict on a review that is not NEW raises                          *)
(* InvalidReviewTransitionError, and the run of this tenant is over.       *)
Chokes(k) ==
    /\ NextTaken(k) /\ k.row.status # "NEW"
    /\ taken' = {}
    /\ held' = {}
    /\ UNCHANGED <<review, draft, person>>

Classification ==
    \/ TakeBatch
    \/ \E k \in taken :
         ClassificationFails(k) \/ ClassifiedLowConfidence(k) \/ Classified(k) \/ Chokes(k)

ReviewsNext ==
    \/ \E r \in Reviews : CreateReview(r)
    \/ \E p \in People :
         \/ \E op \in Operations, r \in Reviews : LoadReview(p, op, r)
         \/ \E c \in person[p] : SaveReview(p, c) \/ SaveDraft(p, c)
    \/ Classification

ReviewsSpec == ReviewsInit /\ [][ReviewsNext]_reviewVars

(* Beat starts the job, and a run that has begun goes on. *)
ReviewsFairness == WF_reviewVars(Classification)
-----------------------------------------------------------------------------
(* A new review does not stay new: it is classified, taken up by a person, *)
(* or parked after three failures.  What the code does not rule out is     *)
(* that an older one stops every run before it: a review that is no longer *)
(* NEW but still without a summary and with attempts left.                 *)
Blocks(q) == q \in Unclassified /\ review[q].status # "NEW"

ReviewIsClassified ==
    \A r \in Reviews :
        review[r].status = "NEW" ~>
            \/ review[r].status # "NEW" \/ review[r].attempts >= MaxClassifications
            \/ \E q \in Reviews : q < r /\ Blocks(q)
=============================================================================
