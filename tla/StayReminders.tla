----------------------------- MODULE StayReminders -----------------------------
(***************************************************************************)
(* The reminders of one stay: a sweep runs every few minutes, reads the    *)
(* stays around its own instant, and queues a mail for each reminder that  *)
(* is due and was not queued before.  Sweeps fail or come late, and people *)
(* move or cancel the stay meanwhile.  The lock of a job keeps its sweeps  *)
(* apart (module JobLock); those of the two jobs write different types.    *)
(*                                                                         *)
(* Instants are counted in slots of UTC, the stay's dates and hours are    *)
(* those of the flat's zone, which is Zone slots ahead.  Hours that cannot *)
(* be resolved make a sweep pass the stay over, as a failed sweep does.    *)
(***************************************************************************)
EXTENDS Integers

CONSTANTS
    SlotsInDay, Zone,
    LongLead, ShortLead,    \* the two lead times, in slots
    FirstDay, Nights, CheckInHour, CheckOutHour,
    FirstSlot, LastSlot,    \* bounds on the clock
    MaxChanges              \* bound on the changes of the stay

ASSUME RemindersAssumption ==
    /\ {SlotsInDay, LongLead, ShortLead, Nights} \subseteq Nat \ {0}
    /\ ShortLead <= LongLead /\ LongLead <= SlotsInDay
    /\ Zone \in Int /\ -SlotsInDay <= Zone /\ Zone + ShortLead <= SlotsInDay
    /\ {FirstDay, FirstSlot, LastSlot, MaxChanges} \subseteq Nat
    /\ FirstSlot <= LastSlot
    /\ {CheckInHour, CheckOutHour} \subseteq 0..(SlotsInDay - 1)

VARIABLES
    slot,       \* the time
    upcoming,   \* the stay: confirmed or not, its first day, its guest's address
    sweeping,   \* the sweep under way, if there is one
    mails,      \* how many mails of each type were queued
    owed,       \* history: types a sweep has committed in whose time it read the stay
    changes     \* history: the changes of the stay

reminderVars == <<slot, upcoming, sweeping, mails, owed, changes>>

MailTypes == {"CHECKIN_REMINDER_24H", "CHECKIN_REMINDER_2H", "CHECKOUT_REMINDER"}
Stays == [confirmed : BOOLEAN, day : {FirstDay, FirstDay + 1}, address : BOOLEAN]
Passes == [job : {"CHECKIN", "CHECKOUT"}, at : FirstSlot..LastSlot, stay : Stays,
           writes : SUBSET MailTypes, decided : BOOLEAN]

RemindersTypeOK ==
    /\ slot \in FirstSlot..LastSlot
    /\ upcoming \in Stays
    /\ sweeping = {} \/ \E p \in Passes : sweeping = {p}
    /\ mails \in [MailTypes -> Nat]
    /\ owed \subseteq MailTypes
    /\ changes \in 0..MaxChanges

RemindersInit ==
    /\ slot = FirstSlot
    /\ upcoming \in [confirmed : {TRUE}, day : {FirstDay}, address : BOOLEAN]
    /\ sweeping = {}
    /\ mails = [t \in MailTypes |-> 0]
    /\ owed = {} /\ changes = 0
-----------------------------------------------------------------------------
CheckInAt(b) == b.day * SlotsInDay + CheckInHour - Zone
CheckOutAt(b) == (b.day + Nights) * SlotsInDay + CheckOutHour - Zone

Lead(t) == IF t = "CHECKIN_REMINDER_24H" THEN LongLead ELSE ShortLead
TypesOf(job) ==
    IF job = "CHECKIN" THEN {"CHECKIN_REMINDER_24H", "CHECKIN_REMINDER_2H"}
    ELSE {"CHECKOUT_REMINDER"}
EventAt(t, b) == IF t = "CHECKOUT_REMINDER" THEN CheckOutAt(b) ELSE CheckInAt(b)

(* The query: stays that overlap a day before to a day after, by date.     *)
IsCandidate(b, at) ==
    /\ b.day <= (at + SlotsInDay) \div SlotsInDay
    /\ b.day + Nights >= (at - SlotsInDay) \div SlotsInDay

BugDueTypes(job, b, at) ==          \* only the sweep the threshold falls in
    {t \in TypesOf(job) : at = EventAt(t, b) - Lead(t)}

(* Due from the lead time before the event until the event itself, so that *)
(* a later sweep catches what an earlier one missed.                       *)
DueTypes(job, b, at) ==
    {t \in TypesOf(job) : EventAt(t, b) - Lead(t) <= at /\ at < EventAt(t, b)}

stayVars == <<slot, upcoming, changes>>

BeginSweep(job) ==
    /\ sweeping = {}
    /\ sweeping' =
          {[job |-> job, at |-> slot, stay |-> upcoming, writes |-> {}, decided |-> FALSE]}
    /\ UNCHANGED <<stayVars, mails, owed>>

Unqueued(types) == {t \in types : mails[t] = 0}

(* The guest's address and the mails of the stay are read here.            *)
DecideReminders ==
    \E p \in sweeping :
        LET addressed == [p.stay EXCEPT !.address = upcoming.address]
            due == IF addressed.confirmed /\ addressed.address /\ IsCandidate(addressed, p.at)
                     THEN DueTypes(p.job, addressed, p.at) ELSE {}
        IN  /\ ~p.decided
            /\ sweeping' = {[job |-> p.job, at |-> p.at, stay |-> addressed,
                             writes |-> Unqueued(due), decided |-> TRUE]}
            /\ UNCHANGED <<stayVars, mails, owed>>

(* How long the query by UTC dates hides, from the day's reminder, a stay  *)
(* whose check-in is still the day before in UTC.                          *)
Hidden == IF Zone > CheckInHour THEN LongLead - SlotsInDay + Zone - CheckInHour ELSE 0

(* The types in whose time the sweep read the stay, apart from those hours. *)
InTime(p) ==
    {t \in TypesOf(p.job) :
        /\ p.stay.confirmed /\ p.stay.address
        /\ EventAt(t, p.stay) - p.at \in
              1..(Lead(t) - (IF t = "CHECKIN_REMINDER_24H" /\ Hidden > 0 THEN Hidden ELSE 0))}

CommitReminders ==
    \E p \in sweeping :
        /\ p.decided
        /\ mails' = [t \in MailTypes |-> IF t \in p.writes THEN mails[t] + 1 ELSE mails[t]]
        /\ owed' = owed \cup InTime(p)
        /\ sweeping' = {}
        /\ UNCHANGED stayVars

SweepFails ==
    /\ sweeping # {}
    /\ sweeping' = {}
    /\ UNCHANGED <<stayVars, mails, owed>>

ClockMoves ==
    /\ slot < LastSlot /\ slot' = slot + 1
    /\ UNCHANGED <<upcoming, changes, sweeping, mails, owed>>

(* A stay is moved by a day or cancelled, or its guest gets an address.    *)
ChangeStay ==
    /\ changes < MaxChanges /\ changes' = changes + 1
    /\ \/ upcoming' = [upcoming EXCEPT !.day = FirstDay + 1]
       \/ upcoming' = [upcoming EXCEPT !.confirmed = FALSE]
       \/ upcoming' = [upcoming EXCEPT !.address = TRUE]
    /\ upcoming' # upcoming
    /\ UNCHANGED <<slot, sweeping, mails, owed>>

RemindersNext ==
    \/ ClockMoves \/ ChangeStay
    \/ \E job \in {"CHECKIN", "CHECKOUT"} : BeginSweep(job)
    \/ DecideReminders \/ CommitReminders \/ SweepFails

RemindersSpec == RemindersInit /\ [][RemindersNext]_reminderVars
-----------------------------------------------------------------------------
(* Whatever sweeps missed the stay before, one that read it in time and    *)
(* committed has left its reminder queued: neither the query by dates nor  *)
(* the mails of other types hide a stay whose time it is, apart from the   *)
(* hours Hidden counts.  And however many sweeps find it due, however it   *)
(* is moved or cancelled between them, each reminder is queued once.       *)
RemindedInTime ==
    \A t \in MailTypes : mails[t] <= 1 /\ (t \in owed => mails[t] = 1)
=============================================================================
