----------------------------- MODULE WhatsAppInbox -----------------------------
(***************************************************************************)
(* The messages guests write on WhatsApp.  The provider delivers a message *)
(* over HTTP, as often as it likes; the receiver looks up which tenant     *)
(* holds the number written to, records the message, commits, and then     *)
(* queues a task; a worker claims the recorded message, finds or opens the *)
(* conversation of its sender and files the message there.  Meanwhile      *)
(* tenants take and release numbers.                                       *)
(*                                                                         *)
(* What the pipeline makes of a filed message is GuestConversation's.      *)
(* Deliveries that fail authentication or carry no message write nothing   *)
(* and are left out.                                                       *)
(***************************************************************************)
EXTENDS Naturals, Sequences

CONSTANTS
    Texts,          \* messages of guests, by the provider's id
    PhoneNumbers,   \* phone_number_ids
    Tenants,
    Phones,         \* senders
    Flats,
    Receivers,      \* deliveries received at once
    Workers,        \* tasks run at once
    WrittenTo,      \* the number and the sender of each message
    WrittenBy,
    MaxCopies,      \* bound: how often the broker hands out one task
    Unheld          \* no number, no tenant, no known guest

ASSUME InboxAssumption ==
    /\ WrittenTo \in [Texts -> PhoneNumbers] /\ WrittenBy \in [Texts -> Phones]
    /\ MaxCopies \in Nat \ {0}
    /\ Unheld \notin PhoneNumbers \cup Tenants \cup (Phones \X Flats)

VARIABLES
    holds,      \* whatsapp_phone_numbers: the number of each tenant
    event,      \* whatsapp_inbound_events, by message
    tasks,      \* how often the broker will still hand out the task of each message
    receiver,   \* what each receiver is doing
    worker,     \* what each worker is doing
    threads,    \* the committed WHATSAPP conversations
    shelf       \* the conversations each message was filed in, in order

inboxVars == <<holds, event, tasks, receiver, worker, threads, shelf>>

Holders == Tenants \cup {Unheld}
Keys == (Phones \X Flats) \cup {Unheld}
NoEvent == [status |-> "ABSENT", tenant |-> Unheld]
Events == [status : {"NEW", "PROCESSED"}, tenant : Holders] \cup {NoEvent}
Threads == [tenant : Tenants, key : Keys, opener : Texts]

Receipts ==
    [at : {"resolved"}, text : Texts, tenant : Holders]
        \cup [at : {"accepted"}, text : Texts, tenant : Tenants]
Tasks ==
    [at : {"located"}, text : Texts, tenant : Tenants]
        \cup [at : {"claimed"}, text : Texts, tenant : Tenants]
        \cup [at : {"threaded"}, text : Texts, tenant : Tenants, thread : Threads]

(* The messages a worker's open transaction has claimed. *)
Claimed(w) == {k.text : k \in {j \in worker[w] : j.at # "located"}}

InboxTypeOK ==
    /\ holds \in [Tenants -> PhoneNumbers \cup {Unheld}]
    /\ event \in [Texts -> Events]
    /\ tasks \in [Texts -> 0..MaxCopies]
    /\ receiver \in [Receivers -> SUBSET Receipts]
    /\ worker \in [Workers -> SUBSET Tasks]
    /\ \A r \in Receivers : \A k, j \in receiver[r] : k = j
    /\ \A w \in Workers : \A k, j \in worker[w] : k = j
    /\ threads \subseteq Threads
    /\ shelf \in [Texts -> Seq(Threads)]

InboxInit ==
    /\ holds = [t \in Tenants |-> Unheld]
    /\ event = [m \in Texts |-> NoEvent]
    /\ tasks = [m \in Texts |-> 0]
    /\ receiver = [r \in Receivers |-> {}]
    /\ worker = [w \in Workers |-> {}]
    /\ threads = {}
    /\ shelf = [m \in Texts |-> <<>>]
-----------------------------------------------------------------------------
(* Provisioning                                                            *)

(* upsert: the tenant's row is replaced, and the unique index refuses a    *)
(* number another tenant holds.                                            *)
Associate(t, n) ==
    /\ \A u \in Tenants \ {t} : holds[u] # n
    /\ holds' = [holds EXCEPT ![t] = n]
    /\ UNCHANGED <<event, tasks, receiver, worker, threads, shelf>>

Release(t) ==
    /\ holds[t] # Unheld
    /\ holds' = [holds EXCEPT ![t] = Unheld]
    /\ UNCHANGED <<event, tasks, receiver, worker, threads, shelf>>
-----------------------------------------------------------------------------
(* ReceiveWhatsAppWebhookUseCase.record                                    *)

HolderOf(n) ==
    IF \E t \in Tenants : holds[t] = n THEN CHOOSE t \in Tenants : holds[t] = n ELSE Unheld

(* find_by_phone_number_id. *)
ResolveNumber(r, m) ==
    /\ receiver[r] = {}
    /\ receiver' = [receiver EXCEPT
           ![r] = {[at |-> "resolved", text |-> m, tenant |-> HolderOf(WrittenTo[m])]}]
    /\ UNCHANGED <<holds, event, tasks, worker, threads, shelf>>

Accepted(r, k) == receiver' = [receiver EXCEPT ![r] = {[k EXCEPT !.at = "accepted"]}]

(* A message for a number nobody holds is left alone. *)
Accepts(r, k) ==
    IF k.tenant = Unheld THEN receiver' = [receiver EXCEPT ![r] = {}] ELSE Accepted(r, k)

(* INSERT ... ON CONFLICT (provider_message_id) DO NOTHING, and the        *)
(* commit: a message recorded before is a DUPLICATE, whatever came of it,  *)
(* and one for a number nobody holds is recorded and left alone.           *)
RecordEvent(r, k) ==
    IF event[k.text] # NoEvent
      THEN /\ receiver' = [receiver EXCEPT ![r] = {}]
           /\ UNCHANGED event
      ELSE /\ event' = [event EXCEPT ![k.text] = [status |-> "NEW", tenant |-> k.tenant]]
           /\ Accepts(r, k)

RecordDelivery(r) ==
    /\ \E k \in receiver[r] : k.at = "resolved" /\ RecordEvent(r, k)
    /\ UNCHANGED <<holds, tasks, worker, threads, shelf>>

(* The broker may hand a task out more than once. *)
Dispatches(k) == \E n \in 1..MaxCopies : tasks' = [tasks EXCEPT ![k.text] = n]

(* The task is handed to the broker after the commit. *)
Queue(r) ==
    /\ \E k \in receiver[r] : k.at = "accepted" /\ Dispatches(k)
    /\ receiver' = [receiver EXCEPT ![r] = {}]
    /\ UNCHANGED <<holds, event, worker, threads, shelf>>

(* The process dies, or the database or the broker refuses. *)
ReceiverStops(r) ==
    /\ receiver[r] # {}
    /\ receiver' = [receiver EXCEPT ![r] = {}]
    /\ UNCHANGED <<holds, event, tasks, worker, threads, shelf>>
-----------------------------------------------------------------------------
(* process_inbound_whatsapp_message                                        *)

(* _locate. *)
Locate(w, m) ==
    /\ worker[w] = {} /\ tasks[m] > 0
    /\ worker' = [worker EXCEPT
           ![w] = {[at |-> "located", text |-> m, tenant |-> event[m].tenant]}]
    /\ tasks' = [tasks EXCEPT ![m] = @ - 1]
    /\ UNCHANGED <<holds, event, receiver, threads, shelf>>

Claims(w, k) == worker' = [worker EXCEPT ![w] = {[k EXCEPT !.at = "claimed"]}]

BugClaimsAgain(w, k) == Claims(w, k)

(* UPDATE ... WHERE processed_at IS NULL, which waits for a transaction    *)
(* that has updated the row: the run that finds it processed ends.         *)
ClaimEvent(w, k) ==
    /\ \A v \in Workers : k.text \notin Claimed(v)
    /\ IF event[k.text].status = "NEW"
         THEN Claims(w, k)
         ELSE worker' = [worker EXCEPT ![w] = {}]

Claim(w) ==
    /\ \E k \in worker[w] : k.at = "located" /\ ClaimEvent(w, k)
    /\ UNCHANGED <<holds, event, tasks, receiver, threads, shelf>>

SameKey(c, t, key) == c.tenant = t /\ c.key = key

(* The thread another transaction has inserted but not committed. *)
Inserting(v) ==
    {j.thread : j \in {k \in worker[v] : k.at = "threaded"}} \ threads

Opened(k, key) == [tenant |-> k.tenant, key |-> key, opener |-> k.text]

(* ensure_whatsapp: ON CONFLICT DO NOTHING on (tenant, guest, property),   *)
(* and the thread that stands.  No known guest is a NULL, which conflicts  *)
(* with nothing.                                                           *)
ThreadFor(k, key) ==
    LET standing == {c \in threads : key # Unheld /\ SameKey(c, k.tenant, key)}
    IN IF standing = {} THEN {Opened(k, key)} ELSE standing

(* Whom the number belongs to, and which stay, is read now: no guest or    *)
(* several is a thread without one, and of a known guest the flat is that  *)
(* of the stay, or the default one.                                        *)
EnsureThread(w) ==
    /\ \E k \in worker[w], key \in Keys :
         /\ k.at = "claimed"
         /\ key # Unheld => key[1] = WrittenBy[k.text]
         /\ \A v \in Workers : \A c \in Inserting(v) :
              key # Unheld => ~SameKey(c, k.tenant, key)
         /\ \E c \in ThreadFor(k, key) :
              worker' = [worker EXCEPT
                  ![w] = {[at |-> "threaded", text |-> k.text, tenant |-> k.tenant, thread |-> c]}]
    /\ UNCHANGED <<holds, event, tasks, receiver, threads, shelf>>

(* The pipeline's only commit: the claim, the thread and the message. *)
FileMessage(w) ==
    /\ \E k \in worker[w] :
         /\ k.at = "threaded"
         /\ event' = [event EXCEPT ![k.text].status = "PROCESSED"]
         /\ threads' = threads \cup {k.thread}
         /\ shelf' = [shelf EXCEPT ![k.text] = Append(@, k.thread)]
    /\ worker' = [worker EXCEPT ![w] = {}]
    /\ UNCHANGED <<holds, tasks, receiver>>

(* The run fails and is rolled back, or its worker dies: no task is left   *)
(* behind.                                                                 *)
WorkerFails(w) ==
    /\ worker[w] # {}
    /\ worker' = [worker EXCEPT ![w] = {}]
    /\ UNCHANGED <<holds, event, tasks, receiver, threads, shelf>>

Receiving(r) == RecordDelivery(r) \/ Queue(r)
Handling(w) == (\E m \in Texts : Locate(w, m)) \/ Claim(w) \/ EnsureThread(w) \/ FileMessage(w)

InboxNext ==
    \/ \E t \in Tenants : Release(t) \/ \E n \in PhoneNumbers : Associate(t, n)
    \/ \E r \in Receivers :
         (\E m \in Texts : ResolveNumber(r, m)) \/ Receiving(r) \/ ReceiverStops(r)
    \/ \E w \in Workers : Handling(w) \/ WorkerFails(w)

InboxSpec == InboxInit /\ [][InboxNext]_inboxVars
-----------------------------------------------------------------------------
(* However often the provider delivers a message, the broker a task, and   *)
(* whoever holds the number by then, the message is filed exactly once its *)
(* event is processed, in one conversation, and that is one of the tenant  *)
(* the event was recorded for.                                             *)
FiledAtMostOnce ==
    \A m \in Texts :
        IF event[m].status = "PROCESSED"
          THEN \E c \in threads : c.tenant = event[m].tenant /\ shelf[m] = <<c>>
          ELSE shelf[m] = <<>>

(* Two messages of one guest about one flat processed at once do not open  *)
(* two conversations.                                                      *)
OneThreadPerGuestAndFlat ==
    \A c, d \in threads :
        c.key # Unheld /\ SameKey(c, d.tenant, d.key) => c = d

(* The inbox does what MessageIntake promises of a message, whatever its   *)
(* deliveries, its tasks and the crashes among them do: an event is the    *)
(* taking of a message, the commit of the pipeline its filing.             *)
Intake == INSTANCE MessageIntake WITH
    taken <- [m \in Texts |-> IF event[m] = NoEvent THEN {} ELSE {event[m].tenant}],
    conversations <- threads,
    Nobody <- Unheld

FiledAsPromised == Intake!Spec
=============================================================================
