--------------------------- MODULE GuestConversation ---------------------------
(***************************************************************************)
(* One conversation with a guest, and its handover to a person.  A message *)
(* of the guest is classified and then either answered by the AI or handed *)
(* over, with an alert to the managers; people answer, hand over and       *)
(* resolve; a message into a resolved conversation opens it again.  The    *)
(* status of the conversation and that of its handover move together, each *)
(* request on a copy it loaded; the first save of a request locks the row  *)
(* until its commit, and every save writes both.                           *)
(*                                                                         *)
(* CLOSED has no writer, and the incident a message may open is of another *)
(* module.  What is sent on the channel is left out.                       *)
(***************************************************************************)
EXTENDS Naturals

CONSTANTS
    Deliveries, \* messages of the guest that may be processed at once
    Staff       \* requests of the staff

VARIABLES
    talk,       \* the committed row of conversations
    delivery,   \* the copy each message in progress works on
    reply,      \* the copy each request of the staff works on
    urgent,     \* history: a message that needs a person came, and since then
                \* nobody has resolved the conversation
    announced,  \* history: alerts to the managers since then
    overwritten \* history: since then a save undid another one

talkVars == <<talk, delivery, reply, urgent, announced, overwritten>>

ConversationStatuses == {"OPEN", "ESCALATED", "RESOLVED"}
EscalationStatuses == {"NONE", "PENDING_HUMAN", "HUMAN_HANDLING", "RESOLVED"}
Conversations == [status : ConversationStatuses, escalation : EscalationStatuses]
StaffOperations == {"reply", "escalate", "resolve"}

HandedOver(c) == c.escalation \in {"PENDING_HUMAN", "HUMAN_HANDLING"}

TalkTypeOK ==
    /\ talk \in Conversations
    /\ delivery \in [Deliveries -> SUBSET [before : Conversations, copy : Conversations]]
    /\ reply \in [Staff -> SUBSET [before : Conversations, op : StaffOperations]]
    /\ urgent \in BOOLEAN /\ overwritten \in BOOLEAN
    /\ announced \in {"never", "once", "again"}
    /\ talk.status = "ESCALATED" <=> HandedOver(talk)

TalkInit ==
    /\ talk = [status |-> "OPEN", escalation |-> "NONE"]
    /\ delivery = [d \in Deliveries |-> {}]
    /\ reply = [s \in Staff |-> {}]
    /\ urgent = FALSE
    /\ announced = "never"
    /\ overwritten = FALSE
-----------------------------------------------------------------------------
(* The moves of the entity                                                 *)

CanEscalate(c) == c = [status |-> "OPEN", escalation |-> "NONE"]

Escalated(c) == [status |-> "ESCALATED", escalation |-> "PENDING_HUMAN"]

Resolved(c) ==
    [status |-> "RESOLVED", escalation |-> IF HandedOver(c) THEN "RESOLVED" ELSE c.escalation]

TakenOver(c) ==
    IF c.escalation = "PENDING_HUMAN" THEN [c EXCEPT !.escalation = "HUMAN_HANDLING"] ELSE c

BugReopenKeepsTheEscalation(c) ==
    IF c.status = "RESOLVED" THEN [c EXCEPT !.status = "OPEN"] ELSE c

(* reopen clears a resolved escalation with the status. *)
Reopened(c) ==
    IF c.status # "RESOLVED" THEN c
    ELSE [status |-> "OPEN",
          escalation |-> IF c.escalation = "RESOLVED" THEN "NONE" ELSE c.escalation]
-----------------------------------------------------------------------------
(* ProcessInboundGuestMessageUseCase                                       *)

(* The conversation is loaded and, if it was resolved, opened again.  A    *)
(* WhatsApp message whose sender is ambiguous hands it over before that,   *)
(* if it is open and not yet handed over, and alerts nobody.               *)
Receive(d, ambiguous) ==
    /\ delivery[d] = {}
    /\ delivery' = [delivery EXCEPT
           ![d] = {[before |-> talk,
                    copy |-> IF ambiguous /\ CanEscalate(talk)
                               THEN Escalated(talk) ELSE Reopened(talk)]}]
    /\ UNCHANGED <<talk, reply, urgent, announced, overwritten>>

SavesTalk(before, after) ==
    /\ talk' = after
    /\ overwritten' = (overwritten \/ talk # before)

(* No rule calls for a person, and the reply, if there is one, went out.   *)
AnswersGuest(d, m) ==
    /\ m \in delivery[d]
    /\ SavesTalk(m.before, m.copy)
    /\ delivery' = [delivery EXCEPT ![d] = {}]
    /\ UNCHANGED <<reply, urgent, announced>>

(* A rule calls for a person, or the reply was not delivered.  What has    *)
(* been handed over is not handed over again; any other refusal rolls the  *)
(* request back.                                                           *)
HandsOver(d, m) ==
    /\ m \in delivery[d]
    /\ CanEscalate(m.copy) \/ m.copy.escalation # "NONE"
    /\ SavesTalk(m.before, IF CanEscalate(m.copy) THEN Escalated(m.copy) ELSE m.copy)
    /\ delivery' = [delivery EXCEPT ![d] = {}]
    /\ urgent' = TRUE
    /\ announced' =
           IF CanEscalate(m.copy)
             THEN IF announced = "never" THEN "once" ELSE "again" ELSE announced
    /\ UNCHANGED reply

(* The adapter or the database fails: nothing was committed. *)
DeliveryRollsBack(d) ==
    /\ delivery[d] # {}
    /\ delivery' = [delivery EXCEPT ![d] = {}]
    /\ UNCHANGED <<talk, reply, urgent, announced, overwritten>>
-----------------------------------------------------------------------------
(* RecordHumanReply, EscalateConversation, ResolveConversation             *)

LoadConversation(s, op) ==
    /\ reply[s] = {}
    /\ op = "escalate" => CanEscalate(talk)
    /\ op = "resolve" => talk.status # "RESOLVED"
    /\ reply' = [reply EXCEPT ![s] = {[before |-> talk, op |-> op]}]
    /\ UNCHANGED <<talk, delivery, urgent, announced, overwritten>>

SaveReply(s, m) ==
    /\ m \in reply[s] /\ m.op # "resolve"
    /\ SavesTalk(m.before, IF m.op = "escalate" THEN Escalated(m.before) ELSE TakenOver(m.before))
    /\ reply' = [reply EXCEPT ![s] = {}]
    /\ UNCHANGED <<delivery, urgent, announced>>

(* The conversation is resolved, whatever came in since it was loaded. *)
SaveResolved(s, m) ==
    /\ m \in reply[s] /\ m.op = "resolve"
    /\ talk' = Resolved(m.before)
    /\ reply' = [reply EXCEPT ![s] = {}]
    /\ urgent' = FALSE
    /\ announced' = "never"
    /\ overwritten' = FALSE
    /\ UNCHANGED delivery

TalkNext ==
    \/ \E d \in Deliveries :
         \/ \E ambiguous \in BOOLEAN : Receive(d, ambiguous)
         \/ \E m \in delivery[d] : AnswersGuest(d, m) \/ HandsOver(d, m)
         \/ DeliveryRollsBack(d)
    \/ \E s \in Staff :
         \/ \E op \in StaffOperations : LoadConversation(s, op)
         \/ \E m \in reply[s] : SaveReply(s, m) \/ SaveResolved(s, m)

TalkSpec == TalkInit /\ [][TalkNext]_talkVars
-----------------------------------------------------------------------------
(* A message that needs a person is with one, or waits for one, until the  *)
(* conversation is resolved, and the managers are alerted to it at most    *)
(* once: also after it was resolved and opened again.  What the code does  *)
(* not keep out is a request that saves what it loaded before another one  *)
(* committed (overwritten).                                                *)
UrgentMessagesReachAPerson ==
    ~overwritten => (urgent => HandedOver(talk)) /\ announced # "again"
=============================================================================
