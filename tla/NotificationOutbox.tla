-------------------------- MODULE NotificationOutbox --------------------------
(***************************************************************************)
(* The notification log as an outbox, and the two jobs that work it.  The  *)
(* dispatch takes what is PENDING and for each notice commits the attempt, *)
(* calls the channel's adapter, and commits the outcome; attempts are      *)
(* counted on from the list it read at its start.  The escalation reads    *)
(* the SENT notices whose deadline has passed and, in one transaction,     *)
(* queues an alert for each and marks it breached.                         *)
(*                                                                         *)
(* The fan-out of one notice over recipients and channels is one row here: *)
(* its rows are delivered independently of each other.                     *)
(***************************************************************************)
EXTENDS Naturals

CONSTANTS
    Originals,      \* notices the use cases write
    Tracked,        \* those with a deadline
    WithEscalation, \* those whose type has an escalation (escalation_for)
    Dispatchers,    \* executions of the dispatch that may be going on at once
    Escalators,     \* executions of the escalation
    OutboxAttempts, \* notification_max_attempts
    MaxStops,       \* bound on the executions that stop half-way
    MaxOverlaps     \* bound on the executions that start although another goes on

(* A notice and the alert its breach produces. *)
Notices == Originals \X {"original", "alert"}

ASSUME OutboxAssumption ==
    /\ Tracked \subseteq Originals /\ WithEscalation \subseteq Originals
    /\ OutboxAttempts \in Nat \ {0} /\ MaxStops \in Nat /\ MaxOverlaps \in Nat

VARIABLES
    log,        \* the committed rows of notification_logs
    sla,        \* the deadline of each original
    breached,   \* the originals marked sla_breached
    roster,     \* somebody active can be alerted
    unrouted,   \* the notices of a channel without an adapter
    dpc,        \* where each dispatch is
    batch,      \* the notices it has still to deliver
    seen,       \* the attempts it read with its list
    sending,    \* the notice it is delivering
    answer,     \* what the adapter answered
    epc,        \* where each escalation is
    found,      \* the candidates it read
    sends,      \* history: the calls to a provider for each notice
    confirmed,  \* history: the notices an adapter confirmed
    alerts,     \* history: how often the breach of an original was escalated
    stops,      \* history: executions that stopped half-way
    overlaps    \* history: executions of each job that started beside another

dispatchVars == <<dpc, batch, seen, sending, answer>>
outboxHistory == <<sends, confirmed, alerts, stops, overlaps>>
outboxVars == <<log, sla, breached, roster, unrouted, dispatchVars, epc, found, outboxHistory>>

Statuses == {"ABSENT", "PENDING", "SENT", "FAILED", "SKIPPED"}
Rows == [status : Statuses, attempts : Nat]

Pending == {n \in Notices : log[n].status = "PENDING"}
Original(o) == <<o, "original">>
Alert(o) == <<o, "alert">>

OutboxTypeOK ==
    /\ log \in [Notices -> Rows]
    /\ sla \in [Originals -> {"none", "ahead", "past"}]
    /\ breached \subseteq Originals /\ roster \in BOOLEAN /\ unrouted \subseteq Notices
    /\ dpc \in [Dispatchers -> {"idle", "draining", "sending", "answered"}]
    /\ batch \in [Dispatchers -> SUBSET Notices]
    /\ seen \in [Dispatchers -> [Notices -> Nat]]
    /\ sending \in [Dispatchers -> SUBSET Notices]
    /\ answer \in [Dispatchers -> BOOLEAN]
    /\ epc \in [Escalators -> {"idle", "escalating"}]
    /\ found \in [Escalators -> SUBSET Originals]
    /\ sends \in [Notices -> Nat] /\ confirmed \subseteq Notices
    /\ alerts \in [Originals -> Nat]
    /\ stops \in 0..MaxStops
    /\ overlaps \in [{"dispatch", "escalate"} -> 0..MaxOverlaps]
    /\ \A d \in Dispatchers :
         /\ dpc[d] = "idle" => batch[d] = {}
         /\ \A m, n \in sending[d] : m = n
         /\ sending[d] # {} <=> dpc[d] \in {"sending", "answered"}
         /\ \A n \in batch[d] \cup sending[d] : log[n].status # "ABSENT"

OutboxInit ==
    /\ log = [n \in Notices |-> [status |-> "ABSENT", attempts |-> 0]]
    /\ sla = [o \in Originals |-> "none"]
    /\ breached = {}
    /\ roster = TRUE
    /\ unrouted \in SUBSET Notices
    /\ dpc = [d \in Dispatchers |-> "idle"]
    /\ batch = [d \in Dispatchers |-> {}]
    /\ seen = [d \in Dispatchers |-> [n \in Notices |-> 0]]
    /\ sending = [d \in Dispatchers |-> {}]
    /\ answer = [d \in Dispatchers |-> FALSE]
    /\ epc = [e \in Escalators |-> "idle"]
    /\ found = [e \in Escalators |-> {}]
    /\ sends = [n \in Notices |-> 0]
    /\ confirmed = {}
    /\ alerts = [o \in Originals |-> 0]
    /\ stops = 0
    /\ overlaps = [j \in {"dispatch", "escalate"} |-> 0]
-----------------------------------------------------------------------------
(* The writers of the notices, and the world.                              *)

(* A use case writes a notice in its own transaction. *)
Enqueue(o) ==
    /\ log[Original(o)].status = "ABSENT"
    /\ log' = [log EXCEPT ![Original(o)].status = "PENDING"]
    /\ sla' = [sla EXCEPT ![o] = IF o \in Tracked THEN "ahead" ELSE "none"]
    /\ UNCHANGED <<breached, roster, unrouted, dispatchVars, epc, found, outboxHistory>>

DeadlinePasses(o) ==
    /\ sla[o] = "ahead"
    /\ sla' = [sla EXCEPT ![o] = "past"]
    /\ UNCHANGED <<log, breached, roster, unrouted, dispatchVars, epc, found, outboxHistory>>

(* cancel_sla_deadline: the task was accepted, rejected or cancelled. *)
Answer(o) ==
    /\ sla[o] # "none"
    /\ sla' = [sla EXCEPT ![o] = "none"]
    /\ UNCHANGED <<log, breached, roster, unrouted, dispatchVars, epc, found, outboxHistory>>

RosterChanges ==
    /\ roster' = ~roster
    /\ UNCHANGED <<log, sla, breached, unrouted, dispatchVars, epc, found, outboxHistory>>

(* An execution starts.  The lock of its job keeps it from starting beside *)
(* another one for as long as the lease of that one lasts (JobLock).       *)
Starts(job, others) ==
    IF others
      THEN /\ overlaps[job] < MaxOverlaps
           /\ overlaps' = [overlaps EXCEPT ![job] = @ + 1]
      ELSE UNCHANGED overlaps
-----------------------------------------------------------------------------
(* DispatchPendingNotificationsUseCase                                     *)

Lists(d, queue) ==
    /\ dpc[d] = "idle"
    /\ Starts("dispatch", \E c \in Dispatchers : dpc[c] # "idle")
    /\ \E part \in SUBSET queue :
         /\ part # {}
         /\ batch' = [batch EXCEPT ![d] = part]
    /\ seen' = [seen EXCEPT ![d] = [n \in Notices |-> log[n].attempts]]
    /\ dpc' = [dpc EXCEPT ![d] = "draining"]
    /\ UNCHANGED <<log, sla, breached, roster, unrouted, sending, answer, epc, found,
                   sends, confirmed, alerts, stops>>

BugListsWithBudget(d) == Lists(d, {n \in Pending : log[n].attempts < OutboxAttempts})

(* list_pending: the oldest come first, up to the size of a batch; ages    *)
(* are not modelled, so it is any part of the queue.                       *)
ListPending(d) == Lists(d, Pending)

(* record_attempt writes the status and the attempts it is given. *)
Record(n, status, attempts) ==
    log' = [log EXCEPT ![n] = [status |-> status, attempts |-> attempts]]

(* The batch goes on, or the execution is over. *)
Leaves(d, rest) ==
    /\ batch' = [batch EXCEPT ![d] = rest]
    /\ sending' = [sending EXCEPT ![d] = {}]
    /\ answer' = [answer EXCEPT ![d] = FALSE]
    /\ dpc' = [dpc EXCEPT ![d] = IF rest = {} THEN "idle" ELSE "draining"]
    /\ seen' = IF rest = {} THEN [seen EXCEPT ![d] = [n \in Notices |-> 0]] ELSE seen

SkipUnroutable(d, n) ==
    /\ dpc[d] = "draining"
    /\ n \in batch[d] \cap unrouted
    /\ Record(n, "SKIPPED", seen[d][n])
    /\ Leaves(d, batch[d] \ {n})
    /\ UNCHANGED <<sla, breached, roster, unrouted, epc, found, outboxHistory>>

Attempts(d, n, status, counted) ==
    /\ dpc[d] = "draining"
    /\ n \in batch[d] \ unrouted
    /\ Record(n, status, counted)
    /\ batch' = [batch EXCEPT ![d] = @ \ {n}]
    /\ sending' = [sending EXCEPT ![d] = {n}]
    /\ dpc' = [dpc EXCEPT ![d] = "sending"]
    /\ UNCHANGED <<sla, breached, roster, unrouted, seen, answer, epc, found, outboxHistory>>

BugAttemptAfterSend(d, n) == Attempts(d, n, "PENDING", seen[d][n])
(* The attempt is recorded, and committed, before the send. *)
Attempt(d, n) == Attempts(d, n, "PENDING", seen[d][n] + 1)

(* adapter.send.  What raises counts as a failure. *)
Send(d, delivered) ==
    /\ dpc[d] = "sending"
    /\ dpc' = [dpc EXCEPT ![d] = "answered"]
    /\ answer' = [answer EXCEPT ![d] = delivered]
    /\ sends' = [n \in Notices |-> IF n \in sending[d] THEN sends[n] + 1 ELSE sends[n]]
    /\ confirmed' = IF delivered THEN confirmed \cup sending[d] ELSE confirmed
    /\ UNCHANGED <<log, sla, breached, roster, unrouted, batch, seen, sending, epc, found,
                   alerts, stops, overlaps>>

(* The outcome, in a transaction of its own. *)
Delivered(d, n) ==
    /\ dpc[d] = "answered" /\ n \in sending[d]
    /\ answer[d]
    /\ Record(n, "SENT", seen[d][n] + 1)
    /\ Leaves(d, batch[d])
    /\ UNCHANGED <<sla, breached, roster, unrouted, epc, found, outboxHistory>>

Failed(d, n, status) ==
    /\ dpc[d] = "answered" /\ n \in sending[d]
    /\ ~answer[d]
    /\ Record(n, status, seen[d][n] + 1)
    /\ Leaves(d, batch[d])
    /\ UNCHANGED <<sla, breached, roster, unrouted, epc, found, outboxHistory>>

BugNeverExhausted(d, n) == Failed(d, n, "PENDING")

NotDelivered(d, n) ==
    Failed(d, n, IF seen[d][n] + 1 >= OutboxAttempts THEN "FAILED" ELSE "PENDING")

(* The process is killed or the database fails: what is committed stays. *)
DispatchStops(d) ==
    /\ dpc[d] # "idle" /\ stops < MaxStops
    /\ stops' = stops + 1
    /\ Leaves(d, {})
    /\ UNCHANGED <<log, sla, breached, roster, unrouted, epc, found,
                   sends, confirmed, alerts, overlaps>>
-----------------------------------------------------------------------------
(* EscalateBreachedSlasUseCase                                             *)

Late(o) == log[Original(o)].status = "SENT" /\ sla[o] = "past"

(* list_sla_breach_candidates *)
ReadCandidates(e) ==
    /\ epc[e] = "idle"
    /\ {o \in Originals : Late(o) /\ o \notin breached} # {}
    /\ Starts("escalate", \E f \in Escalators : epc[f] # "idle")
    /\ found' = [found EXCEPT ![e] = {o \in Originals : Late(o) /\ o \notin breached}]
    /\ epc' = [epc EXCEPT ![e] = "escalating"]
    /\ UNCHANGED <<log, sla, breached, roster, unrouted, dispatchVars, sends, confirmed, alerts, stops>>

Ends(e) ==
    /\ epc' = [epc EXCEPT ![e] = "idle"]
    /\ found' = [found EXCEPT ![e] = {}]

Escalates(e, written, marked) ==
    /\ epc[e] = "escalating"
    /\ log' = [n \in Notices |->
           IF n[2] = "alert" /\ n[1] \in written /\ log[n].status = "ABSENT"
             THEN [log[n] EXCEPT !.status = "PENDING"] ELSE log[n]]
    /\ alerts' = [o \in Originals |-> IF o \in written THEN alerts[o] + 1 ELSE alerts[o]]
    /\ breached' = breached \cup marked
    /\ Ends(e)
    /\ UNCHANGED <<sla, roster, unrouted, dispatchVars, sends, confirmed, stops, overlaps>>

(* With nobody to alert, a breach that has an escalation is neither        *)
(* written nor marked, and stays a candidate.                              *)
Escalatable(e) == IF roster THEN found[e] \cap WithEscalation ELSE {}

BugMarkedWithoutAlert(e) == Escalates(e, Escalatable(e), found[e])

Escalate(e) == Escalates(e, Escalatable(e), Escalatable(e) \cup (found[e] \ WithEscalation))

EscalationStops(e) ==
    /\ epc[e] # "idle" /\ stops < MaxStops
    /\ stops' = stops + 1
    /\ Ends(e)
    /\ UNCHANGED <<log, sla, breached, roster, unrouted, dispatchVars, sends, confirmed, alerts, overlaps>>
-----------------------------------------------------------------------------
Dispatch(d) ==
    \/ ListPending(d)
    \/ \E n \in Notices :
         SkipUnroutable(d, n) \/ Attempt(d, n) \/ Delivered(d, n) \/ NotDelivered(d, n)
    \/ \E delivered \in BOOLEAN : Send(d, delivered)

Escalation(e) == ReadCandidates(e) \/ Escalate(e)

OutboxNext ==
    \/ RosterChanges
    \/ \E o \in Originals : Enqueue(o) \/ DeadlinePasses(o) \/ Answer(o)
    \/ \E d \in Dispatchers : Dispatch(d) \/ DispatchStops(d)
    \/ \E e \in Escalators : Escalation(e) \/ EscalationStops(e)

OutboxSpec == OutboxInit /\ [][OutboxNext]_outboxVars

(* Beat starts both jobs every minute, and an execution that is alive goes *)
(* on.  Nothing is asked of a provider or of a person.                     *)
OutboxFairness ==
    /\ \A d \in Dispatchers : WF_outboxVars(Dispatch(d))
    /\ \A e \in Escalators : WF_outboxVars(Escalation(e))
-----------------------------------------------------------------------------
Apart(job) == overlaps[job] = 0

(* A notice is SENT only if an adapter confirmed it, also when dispatches  *)
(* overlap: none writes SENT on the strength of what another one did.      *)
SentWasConfirmed ==
    \A n \in Notices : log[n].status = "SENT" => n \in confirmed

(* As long as the lock keeps the dispatches apart, a provider is called    *)
(* for a notice at most as often as its budget says, and once more for     *)
(* every execution that stopped half-way.                                  *)
SendsAreBounded ==
    Apart("dispatch") => \A n \in Notices : sends[n] <= OutboxAttempts + stops

(* As long as the lock keeps the escalations apart, a breach is marked     *)
(* exactly when its alert has been queued, and that happens once: it is    *)
(* neither lost for want of a recipient nor repeated every minute.         *)
BreachIsEscalatedOnce ==
    Apart("escalate") =>
        \A o \in WithEscalation : alerts[o] = IF o \in breached THEN 1 ELSE 0

(* The alert of a breach nobody answers reaches the end of the outbox, if  *)
(* there is somebody to alert from some time on.  A dispatch that overlaps *)
(* another can write a SENT notice off again, and its breach with it.      *)
Ended(n) == log[n].status \in {"SENT", "FAILED", "SKIPPED"}

BreachReachesItsEnd ==
    <>[]roster =>
        \A o \in WithEscalation :
            Late(o) ~> \/ Ended(Alert(o)) \/ sla[o] # "past" \/ ~Apart("dispatch")

(* The outbox does what NoticeDelivery promises: the attempts it counts on *)
(* from its list are the attempts of the row.                              *)
Phase(n) ==
    IF log[n].status = "PENDING"
      THEN IF \E d \in Dispatchers : n \in sending[d] THEN "trying" ELSE "waiting"
      ELSE [ABSENT |-> "absent", SENT |-> "sent", FAILED |-> "failed",
            SKIPPED |-> "skipped"][log[n].status]

Delivery == INSTANCE NoticeDelivery WITH
    MaxAttempts <- OutboxAttempts,
    phase <- [n \in Notices |-> Phase(n)],
    tries <- [n \in Notices |-> log[n].attempts],
    apart <- Apart("dispatch")

DeliversAsPromised == Delivery!Spec
=============================================================================
