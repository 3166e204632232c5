------------------------------ MODULE FeedImport ------------------------------
(***************************************************************************)
(* Reservations come in from feeds (the periodic sync, a webhook's re-read,*)
(* an uploaded file, a stay typed in) while people change them.  An import *)
(* works in one transaction at a time: it locks a booking before it reads  *)
(* it, and the address of a guest it did not find, and keeps all its locks *)
(* until it commits.                                                       *)
(*                                                                         *)
(* A row is a booking, a guest's address and a status, where CONFIRMED     *)
(* stands for every status but a cancellation.  A row without a booking is *)
(* a new stay that no other row meets; a guest without an address is a new *)
(* guest.  The flats' advance and the report are left out.                 *)
(***************************************************************************)
EXTENDS Integers, Sequences

CONSTANTS
    PmsBookings,    \* the external identifiers of stays
    NoBooking,
    Emails,         \* the addresses of guests
    NoEmail,
    Imports,        \* the runs that import something
    Feeds,          \* what a run may read: pages, each a sequence of rows
    MaxEdits        \* bound on the changes that people make

StayStatuses == {"CONFIRMED", "CANCELLED"}
FeedRows == [booking : PmsBookings \cup {NoBooking}, email : Emails \cup {NoEmail},
             status : StayStatuses]

ASSUME FeedAssumption ==
    /\ NoBooking \notin PmsBookings /\ NoEmail \notin Emails
    /\ PmsBookings \cap Emails = {}
    /\ Feeds \subseteq Seq(Seq(FeedRows))
    /\ MaxEdits \in Nat

VARIABLES
    booked,     \* the committed status of each stay
    known,      \* how many guests have each address
    told,       \* the RESERVATION_CANCELLED events of each stay
    cancels,    \* history: how often each stay was really cancelled
    savedOver,  \* history: the stays a person and an import saved over each other
    pages,      \* the pages each import still has
    stage,      \* where each import is in the row
    lookedUp,   \* the status of the booking it has looked up
    locks,      \* the bookings and addresses its transaction has locked
    unit,       \* what its transaction has written, and whether this page cancelled a stay
    edits,      \* how many changes people have begun
    edit        \* the copies they make them on

feedVars == <<booked, known, told, cancels, savedOver, pages, stage, lookedUp, locks,
              unit, edits, edit>>

NothingWritten ==
    [stays |-> [b \in PmsBookings |-> "KEPT"], guests |-> [e \in Emails |-> 0],
     told |-> [b \in PmsBookings |-> 0], cancels |-> [b \in PmsBookings |-> 0],
     newlyCancelled |-> FALSE]

Units ==
    [stays : [PmsBookings -> StayStatuses \cup {"KEPT"}], guests : [Emails -> Nat],
     told : [PmsBookings -> Nat], cancels : [PmsBookings -> Nat],
     newlyCancelled : BOOLEAN]

StayViews == StayStatuses \cup {"ABSENT"}
Stages == {"IDLE", "ROW", "GUEST", "EMAIL", "AGAIN", "SAVE", "DONE"}

FeedTypeOK ==
    /\ booked \in [PmsBookings -> StayViews]
    /\ known \in [Emails -> Nat]
    /\ told \in [PmsBookings -> Nat] /\ cancels \in [PmsBookings -> Nat]
    /\ savedOver \subseteq PmsBookings
    /\ pages \in [Imports -> Seq(Seq(FeedRows))]
    /\ stage \in [Imports -> Stages] /\ lookedUp \in [Imports -> StayViews]
    /\ locks \in [Imports -> SUBSET (PmsBookings \cup Emails)]
    /\ unit \in [Imports -> Units]
    /\ \A i \in Imports :
         /\ stage[i] \in {"IDLE", "DONE"} => locks[i] = {} /\ unit[i] = NothingWritten
         /\ stage[i] \in {"GUEST", "EMAIL", "AGAIN", "SAVE"} =>
              pages[i] # <<>> /\ Head(pages[i]) # <<>>
    /\ \A i, j \in Imports : i # j => locks[i] \cap locks[j] = {}
    /\ edits \in 0..MaxEdits
    /\ edit \subseteq [booking : PmsBookings, seen : StayStatuses]

(* Addresses may belong to a guest already; nobody is known twice. *)
FeedInit ==
    /\ booked \in [PmsBookings -> StayViews]
    /\ known \in [Emails -> {0, 1}]
    /\ told = [b \in PmsBookings |-> 0] /\ cancels = [b \in PmsBookings |-> 0]
    /\ savedOver = {}
    /\ pages = [i \in Imports |-> <<>>]
    /\ stage = [i \in Imports |-> "IDLE"]
    /\ lookedUp = [i \in Imports |-> "ABSENT"]
    /\ locks = [i \in Imports |-> {}]
    /\ unit = [i \in Imports |-> NothingWritten]
    /\ edits = 0 /\ edit = {}
-----------------------------------------------------------------------------
committed == <<booked, known, told, cancels>>
peoplesVars == <<savedOver, edits, edit>>

CurrentRow(i) == Head(Head(pages[i]))
Working(i, at) == stage[i] = at
Goes(i, to) == stage' = [stage EXCEPT ![i] = to]

(* A transaction reads what is committed and what it wrote itself. *)
View(i, b) == IF unit[i].stays[b] = "KEPT" THEN booked[b] ELSE unit[i].stays[b]
Finds(i, e) == known[e] + unit[i].guests[e] > 0

Free(i, lock) == \A j \in Imports \ {i} : lock \notin locks[j]
TakesLock(i, lock) == Free(i, lock) /\ locks' = [locks EXCEPT ![i] = @ \cup {lock}]

(* An UPDATE waits for the transaction that has written the row. *)
WrittenByNobodyElse(i, b) == \A j \in Imports \ {i} : unit[j].stays[b] = "KEPT"

StartImport(i, feed) ==
    /\ Working(i, "IDLE") /\ Goes(i, "ROW")
    /\ pages' = [pages EXCEPT ![i] = feed]
    /\ UNCHANGED <<committed, peoplesVars, lookedUp, locks, unit>>

HasRow(i) == Working(i, "ROW") /\ pages[i] # <<>> /\ Head(pages[i]) # <<>>

(* Without the lock of the booking, or of the address, what was read may   *)
(* be gone when it is written.                                             *)
BugLocksNothing(i) ==
    /\ HasRow(i) /\ CurrentRow(i).booking # NoBooking
    /\ lookedUp' = [lookedUp EXCEPT ![i] = View(i, CurrentRow(i).booking)]
    /\ Goes(i, "GUEST")
    /\ UNCHANGED <<committed, peoplesVars, pages, locks, unit>>

(* The booking is locked, then looked up. *)
FindBooking(i) ==
    /\ HasRow(i) /\ CurrentRow(i).booking # NoBooking
    /\ TakesLock(i, CurrentRow(i).booking)
    /\ lookedUp' = [lookedUp EXCEPT ![i] = View(i, CurrentRow(i).booking)]
    /\ Goes(i, "GUEST")
    /\ UNCHANGED <<committed, peoplesVars, pages, unit>>

NewBooking(i) ==
    /\ HasRow(i) /\ CurrentRow(i).booking = NoBooking
    /\ lookedUp' = [lookedUp EXCEPT ![i] = "ABSENT"]
    /\ Goes(i, "GUEST")
    /\ UNCHANGED <<committed, peoplesVars, pages, locks, unit>>

(* ResolveOrCreateGuest: a guest that is found needs no lock. *)
FindGuest(i) ==
    /\ Working(i, "GUEST")
    /\ Goes(i, IF CurrentRow(i).email = NoEmail THEN "SAVE"
               ELSE IF Finds(i, CurrentRow(i).email) THEN "SAVE" ELSE "EMAIL")
    /\ UNCHANGED <<committed, peoplesVars, pages, lookedUp, locks, unit>>

LockEmail(i) ==
    /\ Working(i, "EMAIL") /\ Goes(i, "AGAIN")
    /\ TakesLock(i, CurrentRow(i).email)
    /\ UNCHANGED <<committed, peoplesVars, pages, lookedUp, unit>>

BugAddsWithoutLooking(i) ==         \* the second find_by_email is missing
    /\ Working(i, "AGAIN") /\ Goes(i, "SAVE")
    /\ unit' = [unit EXCEPT ![i].guests[CurrentRow(i).email] = @ + 1]
    /\ UNCHANGED <<committed, peoplesVars, pages, lookedUp, locks>>

(* The guest may have been added while the lock was waited for. *)
AddGuest(i) ==
    /\ Working(i, "AGAIN") /\ Goes(i, "SAVE")
    /\ unit' = IF Finds(i, CurrentRow(i).email) THEN unit
                ELSE [unit EXCEPT ![i].guests[CurrentRow(i).email] = @ + 1]
    /\ UNCHANGED <<committed, peoplesVars, pages, lookedUp, locks>>

NextRow(i) ==
    /\ pages' = [pages EXCEPT ![i] = <<Tail(Head(@))>> \o Tail(@)]
    /\ lookedUp' = [lookedUp EXCEPT ![i] = "ABSENT"]
    /\ Goes(i, "ROW")

(* The row's status over the copy that was found: an event tells of a      *)
(* cancellation if the copy was not cancelled; `cancels' counts it if the  *)
(* stay was not.  A booking is unique in its tenant.                       *)
SaveRow(i) ==
    LET b == CurrentRow(i).booking
        to == CurrentRow(i).status
        IsNew(status) == to = "CANCELLED" /\ status = "CONFIRMED"
    IN  /\ Working(i, "SAVE") /\ b # NoBooking
        /\ WrittenByNobodyElse(i, b)
        /\ lookedUp[i] = "ABSENT" => View(i, b) = "ABSENT"
        /\ unit' = [unit EXCEPT
               ![i].stays[b] = to,
               ![i].told[b] = IF IsNew(lookedUp[i]) THEN @ + 1 ELSE @,
               ![i].cancels[b] = IF IsNew(View(i, b)) THEN @ + 1 ELSE @,
               ![i].newlyCancelled = @ \/ IsNew(lookedUp[i])]
        /\ NextRow(i)
        /\ UNCHANGED <<committed, peoplesVars, locks>>

(* Nothing to write: the copy says what the row says, the row is a new     *)
(* stay that no other row meets, or it does not validate.  A guest it has  *)
(* added stays added.                                                      *)
PassRow(i) ==
    /\ HasRow(i) \/ Working(i, "GUEST") \/ Working(i, "SAVE")
    /\ NextRow(i)
    /\ UNCHANGED <<committed, peoplesVars, locks, unit>>

ImportCommits(i) ==
    /\ booked' = [b \in PmsBookings |-> View(i, b)]
    /\ known' = [e \in Emails |-> known[e] + unit[i].guests[e]]
    /\ told' = [b \in PmsBookings |-> told[b] + unit[i].told[b]]
    /\ cancels' = [b \in PmsBookings |-> cancels[b] + unit[i].cancels[b]]
    /\ unit' = [unit EXCEPT ![i] = NothingWritten]
    /\ locks' = [locks EXCEPT ![i] = {}]

(* A page that cancelled a stay advances the flats.  Where some flat       *)
(* awaits a check-in that commits, and the next page begins a transaction  *)
(* of its own; where none does the advance returns before its commit, and  *)
(* this transaction goes on.                                               *)
PageEnds(i) ==
    /\ Working(i, "ROW") /\ pages[i] # <<>> /\ Head(pages[i]) = <<>>
    /\ pages' = [pages EXCEPT ![i] = Tail(@)]
    /\ \/ unit[i].newlyCancelled /\ ImportCommits(i)
       \/ /\ unit' = [unit EXCEPT ![i].newlyCancelled = FALSE]
          /\ UNCHANGED <<committed, locks>>
    /\ UNCHANGED <<peoplesVars, stage, lookedUp>>

ImportEnds(i) ==
    /\ Working(i, "ROW") /\ pages[i] = <<>>
    /\ ImportCommits(i) /\ Goes(i, "DONE")
    /\ UNCHANGED <<peoplesVars, pages, lookedUp>>

(* The worker dies, or the database picks this import out of two that wait *)
(* for each other's locks.                                                 *)
RollsBack(i) ==
    /\ stage[i] \notin {"IDLE", "DONE"} /\ Goes(i, "DONE")
    /\ unit' = [unit EXCEPT ![i] = NothingWritten]
    /\ locks' = [locks EXCEPT ![i] = {}]
    /\ pages' = [pages EXCEPT ![i] = <<>>]
    /\ lookedUp' = [lookedUp EXCEPT ![i] = "ABSENT"]
    /\ UNCHANGED <<committed, peoplesVars>>
-----------------------------------------------------------------------------
importVars == <<pages, stage, lookedUp, locks, unit>>

LoadStay(b) ==
    /\ edits < MaxEdits /\ booked[b] # "ABSENT"
    /\ edits' = edits + 1
    /\ edit' = edit \cup {[booking |-> b, seen |-> booked[b]]}
    /\ UNCHANGED <<committed, savedOver, importVars>>

(* A PATCH or a DELETE saves the copy with its new status, or with the     *)
(* status it has.  People take no lock of the imports.                     *)
SaveStay(c, to) ==
    LET b == c.booking IN
    /\ c \in edit /\ \A i \in Imports : unit[i].stays[b] = "KEPT"
    /\ booked' = [booked EXCEPT ![b] = to]
    /\ told' = [told EXCEPT ![b] = IF c.seen = "CONFIRMED" /\ to = "CANCELLED" THEN @ + 1 ELSE @]
    /\ cancels' = [cancels EXCEPT ![b] =
           IF booked[b] = "CONFIRMED" /\ to = "CANCELLED" THEN @ + 1 ELSE @]
    /\ savedOver' = IF booked[b] # c.seen \/ \E i \in Imports : b \in locks[i]
                  THEN savedOver \cup {b} ELSE savedOver
    /\ edit' = edit \ {c}
    /\ UNCHANGED <<known, edits, importVars>>

FeedNext ==
    \/ \E i \in Imports :
         \/ \E feed \in Feeds : StartImport(i, feed)
         \/ FindBooking(i) \/ NewBooking(i) \/ FindGuest(i) \/ LockEmail(i) \/ AddGuest(i)
         \/ SaveRow(i) \/ PassRow(i) \/ PageEnds(i) \/ ImportEnds(i) \/ RollsBack(i)
    \/ \E b \in PmsBookings : LoadStay(b)
    \/ \E c \in edit, to \in StayStatuses : SaveStay(c, to)

FeedSpec == FeedInit /\ [][FeedNext]_feedVars
-----------------------------------------------------------------------------
(* However many imports meet the same new guest at once, the tenant knows  *)
(* one guest by that address: the lock is taken after a first look without *)
(* it, so the guest has to be looked for again.                            *)
OneGuestPerEmail == \A e \in Emails : known[e] <= 1

(* The timeline tells of a stay's cancellation as often as the stay was    *)
(* cancelled, however many imports read the cancelled row at once and      *)
(* whichever of them roll back, unless a person's save crossed another.    *)
CancellationToldOnce ==
    \A b \in PmsBookings \ savedOver : told[b] = cancels[b]
===============================================================================
