------------------------------- MODULE BackOffice -------------------------------
(***************************************************************************)
(* The office: the components that share neither a table nor a call with   *)
(* each other in what these modules say of them.  A behaviour of the office*)
(* is one of a single desk, chosen at the start, while the others rest:    *)
(* side by side they would only interleave, and no property here speaks of *)
(* two of them.                                                            *)
(***************************************************************************)
EXTENDS NotificationOutbox, TenantOwners, ExpenseLedger, ReviewInbox,
        AccessCodes, GuestConversation, PriceDesk, FeedImport, GuestRegistration,
        CleaningEvidence, StayReminders, WhatsAppInbox, PortalLinks, DemoReset

VARIABLE desk   \* the desk that works

Desks == {"outbox", "owners", "ledger", "reviews", "access", "talk", "prices", "imports", "guests",
          "evidence", "reminders", "whatsapp", "portal", "demo"}

vars == <<desk, outboxVars, ownersVars, ledgerVars, reviewVars, accessVars, talkVars,
          priceVars, feedVars, guestVars, evidenceVars, reminderVars,
          inboxVars, portalVars, demoVars>>

(* The variables of the desk that works keep their types and fit each      *)
(* other: a dispatch that sends holds one written notice, the tenant's row *)
(* is locked by the requests that are past the lock and by no other, and   *)
(* so on for each desk.                                                    *)
DesksTypeOK ==
    /\ desk \in Desks
    /\ desk = "outbox" => OutboxTypeOK
    /\ desk = "owners" => OwnersTypeOK
    /\ desk = "ledger" => LedgerTypeOK
    /\ desk = "reviews" => ReviewsTypeOK
    /\ desk = "access" => AccessTypeOK
    /\ desk = "talk" => TalkTypeOK
    /\ desk = "prices" => PricesTypeOK
    /\ desk = "imports" => FeedTypeOK
    /\ desk = "guests" => GuestsTypeOK
    /\ desk = "evidence" => EvidenceTypeOK
    /\ desk = "reminders" => RemindersTypeOK
    /\ desk = "whatsapp" => InboxTypeOK
    /\ desk = "portal" => PortalTypeOK
    /\ desk = "demo" => DemoTypeOK

Init ==
    /\ desk \in Desks
    /\ OutboxInit /\ OwnersInit /\ LedgerInit
    /\ ReviewsInit /\ AccessInit /\ TalkInit /\ PricesInit
    /\ FeedInit /\ GuestsInit /\ EvidenceInit /\ RemindersInit
    /\ InboxInit /\ PortalInit /\ DemoInit
    /\ desk = "outbox" \/ unrouted = {}
    /\ desk = "prices" \/ sheet = NoSheet
    /\ desk = "imports" \/ (booked = [b \in PmsBookings |-> "ABSENT"]
                           /\ known = [e \in Emails |-> 0])
    /\ desk = "guests" \/ (report = "NOT_REQUIRED" /\ stayGuest = NoGuest)
    /\ desk = "evidence" \/ taskRow.status = "CREATED"
    /\ desk = "reminders" \/ upcoming.address

Works(d) == desk = d /\ UNCHANGED desk

Next ==
    \/ /\ Works("outbox") /\ OutboxNext
       /\ UNCHANGED <<ownersVars, ledgerVars, reviewVars, accessVars, talkVars, priceVars, feedVars,
                      guestVars, evidenceVars, reminderVars, inboxVars, portalVars, demoVars>>
    \/ /\ Works("owners") /\ OwnersNext
       /\ UNCHANGED <<outboxVars, ledgerVars, reviewVars, accessVars, talkVars, priceVars, feedVars,
                      guestVars, evidenceVars, reminderVars, inboxVars, portalVars, demoVars>>
    \/ /\ Works("ledger") /\ LedgerNext
       /\ UNCHANGED <<outboxVars, ownersVars, reviewVars, accessVars, talkVars, priceVars, feedVars,
                      guestVars, evidenceVars, reminderVars, inboxVars, portalVars, demoVars>>
    \/ /\ Works("reviews") /\ ReviewsNext
       /\ UNCHANGED <<outboxVars, ownersVars, ledgerVars, accessVars, talkVars, priceVars, feedVars,
                      guestVars, evidenceVars, reminderVars, inboxVars, portalVars, demoVars>>
    \/ /\ Works("access") /\ AccessNext
       /\ UNCHANGED <<outboxVars, ownersVars, ledgerVars, reviewVars, talkVars, priceVars, feedVars,
                      guestVars, evidenceVars, reminderVars, inboxVars, portalVars, demoVars>>
    \/ /\ Works("talk") /\ TalkNext
       /\ UNCHANGED <<outboxVars, ownersVars, ledgerVars, reviewVars, accessVars, priceVars, feedVars,
                      guestVars, evidenceVars, reminderVars, inboxVars, portalVars, demoVars>>
    \/ /\ Works("prices") /\ PricesNext
       /\ UNCHANGED <<outboxVars, ownersVars, ledgerVars, reviewVars, accessVars, talkVars, feedVars,
                      guestVars, evidenceVars, reminderVars, inboxVars, portalVars, demoVars>>
    \/ /\ Works("imports") /\ FeedNext
       /\ UNCHANGED <<outboxVars, ownersVars, ledgerVars, reviewVars, accessVars, talkVars, priceVars,
                      guestVars, evidenceVars, reminderVars, inboxVars, portalVars, demoVars>>
    \/ /\ Works("guests") /\ GuestsNext
       /\ UNCHANGED <<outboxVars, ownersVars, ledgerVars, reviewVars, accessVars, talkVars, priceVars,
                      feedVars, evidenceVars, reminderVars, inboxVars, portalVars, demoVars>>
    \/ /\ Works("evidence") /\ EvidenceNext
       /\ UNCHANGED <<outboxVars, ownersVars, ledgerVars, reviewVars, accessVars, talkVars, priceVars,
                      feedVars, guestVars, reminderVars, inboxVars, portalVars, demoVars>>
    \/ /\ Works("reminders") /\ RemindersNext
       /\ UNCHANGED <<outboxVars, ownersVars, ledgerVars, reviewVars, accessVars, talkVars, priceVars,
                      feedVars, guestVars, evidenceVars, inboxVars, portalVars, demoVars>>
    \/ /\ Works("whatsapp") /\ InboxNext
       /\ UNCHANGED <<outboxVars, ownersVars, ledgerVars, reviewVars, accessVars, talkVars, priceVars,
                      feedVars, guestVars, evidenceVars, reminderVars, portalVars, demoVars>>
    \/ /\ Works("portal") /\ PortalNext
       /\ UNCHANGED <<outboxVars, ownersVars, ledgerVars, reviewVars, accessVars, talkVars, priceVars,
                      feedVars, guestVars, evidenceVars, reminderVars, inboxVars, demoVars>>
    \/ /\ Works("demo") /\ DemoNext
       /\ UNCHANGED <<outboxVars, ownersVars, ledgerVars, reviewVars, accessVars, talkVars, priceVars,
                      feedVars, guestVars, evidenceVars, reminderVars, inboxVars, portalVars>>

(* The fairness each desk states, for the desk that works. *)
Fairness ==
    /\ \A d \in Dispatchers : WF_outboxVars(desk = "outbox" /\ Dispatch(d))
    /\ \A e \in Escalators : WF_outboxVars(desk = "outbox" /\ Escalation(e))
    /\ WF_ledgerVars(desk = "ledger" /\ Reconciliation)
    /\ WF_reviewVars(desk = "reviews" /\ Classification)
    /\ WF_accessVars(desk = "access" /\ Sweep)

Spec == Init /\ [][Next]_vars /\ Fairness
-----------------------------------------------------------------------------
(* What a desk gets done in the end, asked of the desk that works: the     *)
(* others rest.                                                            *)

(* The outbox: the alert of a breach nobody answers reaches its end.       *)
BreachesAreAnswered == desk = "outbox" => BreachReachesItsEnd

(* The ledger: what the owner answers is applied to the expense.           *)
AnswersArrive == desk = "ledger" => AnswersAreApplied

(* The reviews: a new one does not stay new.                               *)
ReviewsAreClassified == desk = "reviews" => ReviewIsClassified

(* Access: the records of a stay that rests settle with it.                *)
AccessSettles == desk = "access" => AccessSettlesWithTheStay
=============================================================================
