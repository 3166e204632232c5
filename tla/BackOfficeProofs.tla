--------------------------- MODULE BackOfficeProofs ---------------------------
(***************************************************************************)
(* Proofs about the desks of the back office, and about the office.        *)
(*                                                                         *)
(* NotificationOutbox: two groups of steps touch different halves of the   *)
(* state, the dispatches, which work the PENDING rows, and the writers and *)
(* the escalations, which only turn ABSENT rows into PENDING ones.         *)
(* TenantOwners: a request that has counted the owners has counted them    *)
(* for good: nobody else is past the lock, and a user created meanwhile    *)
(* can only add an owner.                                                  *)
(* CleaningEvidence: every copy a request holds is as well judged as the   *)
(* row, and evidence is never taken back; what an upload has behind it is  *)
(* told by where it is.                                                    *)
(* StayReminders: the interval a reminder is due in lies inside the days   *)
(* the query asks for.                                                     *)
(* GuestRegistration: the claim on a stay is exclusive, so the guest whose *)
(* document is filed is the stay's; one filer at a time is past the call.  *)
(* FeedImport: what an import will commit it holds the lock of, and sees   *)
(* the row as it was when it locked it.                                    *)
(* GuestConversation: every copy in hand was handed over if it says        *)
(* ESCALATED, so nobody saves the hand-over away.                          *)
(* ExpenseLedger: what a statement lists is what the rows held, and a row  *)
(* a closed month billed is changed by none but a racing save.             *)
(* PriceDesk: the curve a sweep computes is the recursive walk over its    *)
(* days, by the least day that would contradict it; and every row of the   *)
(* horizon comes from the one plan that was last written over it.          *)
(* ReviewInbox: no copy anybody holds has a summary without a draft.       *)
(* AccessCodes: the records of a stay never outnumber the changes of its   *)
(* status, so the next number exists.                                      *)
(*                                                                         *)
(* The desks people reach from outside are FrontOfficeProofs'.             *)
(***************************************************************************)
EXTENDS BackOffice, FrontOfficeProofs, FiniteSetTheorems, WellFoundedInduction, TLAPS

-----------------------------------------------------------------------------
(* The outbox.                                                             *)

(* A step that does not belong to a dispatch. *)
Queues ==
    \A n \in Notices :
        \/ log'[n] = log[n]
        \/ /\ log[n].status = "ABSENT"
           /\ log'[n] = [status |-> "PENDING", attempts |-> log[n].attempts]

Quiet ==
    /\ log' \in [Notices -> Rows] /\ Queues
    /\ UNCHANGED <<dpc, batch, seen, sending, answer, unrouted, sends, confirmed>>
    /\ overlaps'["dispatch"] = overlaps["dispatch"]
    /\ stops' >= stops

(* A step that does not belong to an escalation. *)
Unescalating ==
    /\ UNCHANGED <<breached, epc, found, alerts>>
    /\ overlaps'["escalate"] = overlaps["escalate"]

Others ==
    \/ RosterChanges
    \/ \E o \in Originals : Enqueue(o) \/ DeadlinePasses(o) \/ Answer(o)

-----------------------------------------------------------------------------
(* Types                                                                   *)

LEMMA InitTypes == OutboxInit => OutboxTypeOK
<1> SUFFICES ASSUME OutboxInit PROVE OutboxTypeOK
  OBVIOUS
<1> USE OutboxAssumption DEF OutboxInit
<1>1. log \in [Notices -> Rows]
  BY DEF Rows, Statuses
<1> QED
  BY <1>1 DEF OutboxTypeOK

(* The row of an original, or the rows of some alerts, become PENDING. *)
LEMMA OthersAreQuiet ==
    ASSUME OutboxTypeOK, Others
    PROVE  Quiet /\ Unescalating
<1> USE DEF OutboxTypeOK, Quiet, Unescalating, Queues, dispatchVars, outboxHistory
<1>1. CASE RosterChanges
  BY <1>1 DEF RosterChanges
<1>2. ASSUME NEW o \in Originals, DeadlinePasses(o) \/ Answer(o)
      PROVE  Quiet /\ Unescalating
  BY <1>2 DEF DeadlinePasses, Answer
<1>3. ASSUME NEW o \in Originals, Enqueue(o)
      PROVE  Quiet /\ Unescalating
  <2>1. Original(o) \in Notices /\ log[Original(o)].status = "ABSENT"
    BY <1>3 DEF Enqueue, Notices, Original
  <2>2. log' = [log EXCEPT ![Original(o)].status = "PENDING"]
    BY <1>3 DEF Enqueue
  <2>3. /\ log' \in [Notices -> Rows]
        /\ \A n \in Notices : n # Original(o) => log'[n] = log[n]
        /\ log'[Original(o)] = [status |-> "PENDING", attempts |-> log[Original(o)].attempts]
    BY <2>1, <2>2 DEF Rows, Statuses
  <2>4. /\ UNCHANGED <<dpc, batch, seen, sending, answer, unrouted, sends, confirmed>>
        /\ UNCHANGED <<breached, epc, found, alerts, stops, overlaps>>
    BY <1>3 DEF Enqueue
  <2>5. Queues
    BY <2>1, <2>3
  <2> QED
    BY <2>3, <2>4, <2>5
<1> QED
  BY <1>1, <1>2, <1>3 DEF Others

LEMMA EscalationsAreQuiet ==
    ASSUME OutboxTypeOK, NEW e \in Escalators, Escalation(e) \/ EscalationStops(e)
    PROVE  Quiet
<1> USE DEF OutboxTypeOK, Quiet, Queues, dispatchVars
<1>1. CASE ReadCandidates(e)
  BY <1>1 DEF ReadCandidates, Starts
<1>2. CASE EscalationStops(e)
  BY <1>2 DEF EscalationStops
<1>3. CASE Escalate(e)
  <2>1. PICK written : log' = [n \in Notices |->
           IF n[2] = "alert" /\ n[1] \in written /\ log[n].status = "ABSENT"
             THEN [log[n] EXCEPT !.status = "PENDING"] ELSE log[n]]
    BY <1>3 DEF Escalate, Escalates
  <2>2. \A n \in Notices :
          /\ log[n] \in Rows
          /\ [log[n] EXCEPT !.status = "PENDING"]
               = [status |-> "PENDING", attempts |-> log[n].attempts]
          /\ [log[n] EXCEPT !.status = "PENDING"] \in Rows
    BY DEF Rows, Statuses
  <2>3. log' \in [Notices -> Rows]
    BY <2>1, <2>2
  <2> QED
    BY <1>3, <2>1, <2>2, <2>3 DEF Escalate, Escalates
<1> QED
  BY <1>1, <1>2, <1>3 DEF Escalation

(* What a quiet step leaves of the types of a dispatch. *)
LEMMA QuietKeepsTypes ==
    ASSUME OutboxTypeOK, Quiet, NEW d \in Dispatchers
    PROVE  /\ dpc'[d] = "idle" => batch'[d] = {}
           /\ \A m, k \in sending'[d] : m = k
           /\ sending'[d] # {} <=> dpc'[d] \in {"sending", "answered"}
           /\ \A n \in batch'[d] \cup sending'[d] : log'[n].status # "ABSENT"
<1> USE DEF OutboxTypeOK, Quiet, Queues
<1>1. \A n \in batch[d] \cup sending[d] : n \in Notices /\ log[n].status # "ABSENT"
  OBVIOUS
<1>2. \A n \in batch[d] \cup sending[d] : log'[n].status # "ABSENT"
  BY <1>1
<1> QED
  BY <1>2

LEMMA OthersKeepTypes ==
    ASSUME OutboxTypeOK, Others
    PROVE  OutboxTypeOK'
<1>1. Quiet /\ Unescalating
  BY OthersAreQuiet
<1>2. /\ sla' \in [Originals -> {"none", "ahead", "past"}] /\ roster' \in BOOLEAN
      /\ stops' = stops /\ overlaps' = overlaps
  BY DEF Others, RosterChanges, Enqueue, DeadlinePasses, Answer, OutboxTypeOK, outboxHistory
<1> QED
  BY <1>1, <1>2, QuietKeepsTypes DEF OutboxTypeOK, Quiet, Unescalating

LEMMA EscalationKeepsTypes ==
    ASSUME OutboxTypeOK, NEW e \in Escalators, Escalation(e) \/ EscalationStops(e)
    PROVE  OutboxTypeOK'
<1> USE OutboxAssumption
<1>1. Quiet
  BY EscalationsAreQuiet
<1>2. /\ breached \subseteq Originals /\ roster \in BOOLEAN
      /\ sla \in [Originals -> {"none", "ahead", "past"}]
      /\ epc \in [Escalators -> {"idle", "escalating"}]
      /\ found \in [Escalators -> SUBSET Originals] /\ alerts \in [Originals -> Nat]
      /\ stops \in 0..MaxStops
      /\ overlaps \in [{"dispatch", "escalate"} -> 0..MaxOverlaps]
  BY DEF OutboxTypeOK
<1>3. CASE ReadCandidates(e)
  <2>1. /\ UNCHANGED <<sla, roster, breached, alerts, stops>>
        /\ epc' = [epc EXCEPT ![e] = "escalating"]
        /\ \E f \in SUBSET Originals : found' = [found EXCEPT ![e] = f]
    BY <1>3 DEF ReadCandidates
  <2>2. overlaps' = overlaps
        \/ (overlaps["escalate"] < MaxOverlaps /\ overlaps' = [overlaps EXCEPT !["escalate"] = @ + 1])
    BY <1>3 DEF ReadCandidates, Starts
  <2>3. overlaps' \in [{"dispatch", "escalate"} -> 0..MaxOverlaps]
    BY <1>2, <2>2
  <2> QED
    BY <1>1, <1>2, <2>1, <2>3, QuietKeepsTypes DEF OutboxTypeOK, Quiet
<1>4. CASE Escalate(e)
  <2>1. /\ UNCHANGED <<sla, roster, stops, overlaps>>
        /\ epc' = [epc EXCEPT ![e] = "idle"] /\ found' = [found EXCEPT ![e] = {}]
    BY <1>4 DEF Escalate, Escalates, Ends
  <2>2. breached' \subseteq Originals /\ alerts' \in [Originals -> Nat]
    BY <1>2, <1>4 DEF Escalate, Escalates, Escalatable
  <2> QED
    BY <1>1, <1>2, <2>1, <2>2, QuietKeepsTypes DEF OutboxTypeOK, Quiet
<1>5. CASE EscalationStops(e)
  <2>1. /\ UNCHANGED <<sla, roster, breached, alerts, overlaps>>
        /\ epc' = [epc EXCEPT ![e] = "idle"] /\ found' = [found EXCEPT ![e] = {}]
        /\ stops' \in 0..MaxStops
    BY <1>2, <1>5 DEF EscalationStops, Ends
  <2> QED
    BY <1>1, <1>2, <2>1, QuietKeepsTypes DEF OutboxTypeOK, Quiet
<1> QED
  BY <1>3, <1>4, <1>5 DEF Escalation

(* A step of dispatch d leaves the other dispatches alone. *)
OthersKeep(d) ==
    \A c \in Dispatchers : c # d =>
        /\ dpc'[c] = dpc[c] /\ batch'[c] = batch[c] /\ seen'[c] = seen[c]
        /\ sending'[c] = sending[c] /\ answer'[c] = answer[c]

DispatchTypes ==
    /\ dpc' \in [Dispatchers -> {"idle", "draining", "sending", "answered"}]
    /\ batch' \in [Dispatchers -> SUBSET Notices]
    /\ seen' \in [Dispatchers -> [Notices -> Nat]]
    /\ sending' \in [Dispatchers -> SUBSET Notices]
    /\ answer' \in [Dispatchers -> BOOLEAN]

LEMMA LeavesEffect ==
    ASSUME OutboxTypeOK, NEW d \in Dispatchers, NEW rest \in SUBSET Notices, Leaves(d, rest)
    PROVE  /\ DispatchTypes /\ OthersKeep(d)
           /\ batch'[d] = rest /\ sending'[d] = {} /\ answer'[d] = FALSE
           /\ dpc'[d] = IF rest = {} THEN "idle" ELSE "draining"
           /\ rest # {} => seen'[d] = seen[d]
<1>1. /\ dpc \in [Dispatchers -> {"idle", "draining", "sending", "answered"}]
      /\ batch \in [Dispatchers -> SUBSET Notices]
      /\ seen \in [Dispatchers -> [Notices -> Nat]]
      /\ sending \in [Dispatchers -> SUBSET Notices]
      /\ answer \in [Dispatchers -> BOOLEAN]
  BY DEF OutboxTypeOK
<1>2. /\ batch' = [batch EXCEPT ![d] = rest]
      /\ sending' = [sending EXCEPT ![d] = {}]
      /\ answer' = [answer EXCEPT ![d] = FALSE]
      /\ dpc' = [dpc EXCEPT ![d] = IF rest = {} THEN "idle" ELSE "draining"]
      /\ seen' = IF rest = {} THEN [seen EXCEPT ![d] = [n \in Notices |-> 0]] ELSE seen
  BY DEF Leaves
<1>3. [n \in Notices |-> 0] \in [Notices -> Nat]
  OBVIOUS
<1>4. /\ seen' \in [Dispatchers -> [Notices -> Nat]]
      /\ \A c \in Dispatchers : c # d => seen'[c] = seen[c]
      /\ rest # {} => seen'[d] = seen[d]
  BY <1>1, <1>2, <1>3
<1>5. dpc' \in [Dispatchers -> {"idle", "draining", "sending", "answered"}]
  BY <1>1, <1>2
<1> QED
  BY <1>1, <1>2, <1>4, <1>5 DEF DispatchTypes, OthersKeep

LEMMA RecordEffect ==
    ASSUME log \in [Notices -> Rows], NEW n \in Notices, NEW attempts \in Nat,
           NEW outcome \in Statuses, outcome # "ABSENT", Record(n, outcome, attempts)
    PROVE  /\ log' \in [Notices -> Rows]
           /\ log'[n].status = outcome /\ log'[n].attempts = attempts
           /\ \A m \in Notices : m # n => log'[m] = log[m]
           /\ \A m \in Notices : log[m].status # "ABSENT" => log'[m].status # "ABSENT"
<1>1. [status |-> outcome, attempts |-> attempts] \in Rows
  BY DEF Rows
<1>2. log' = [log EXCEPT ![n] = [status |-> outcome, attempts |-> attempts]]
  BY DEF Record
<1> QED
  BY <1>1, <1>2

(* What a step of dispatch d has to show for the types. *)
LEMMA DispatchKeepsTypes ==
    ASSUME OutboxTypeOK, NEW d \in Dispatchers, DispatchTypes, OthersKeep(d), Unescalating,
           log' \in [Notices -> Rows], sla' = sla, roster' = roster, unrouted' = unrouted,
           sends' \in [Notices -> Nat], confirmed' \subseteq Notices,
           stops' \in 0..MaxStops,
           overlaps' \in [{"dispatch", "escalate"} -> 0..MaxOverlaps],
           \A n \in Notices : log[n].status # "ABSENT" => log'[n].status # "ABSENT",
           dpc'[d] = "idle" => batch'[d] = {},
           \A m, k \in sending'[d] : m = k,
           sending'[d] # {} <=> dpc'[d] \in {"sending", "answered"},
           \A n \in batch'[d] \cup sending'[d] : log'[n].status # "ABSENT"
    PROVE  OutboxTypeOK'
<1>1. ASSUME NEW c \in Dispatchers
      PROVE  /\ dpc'[c] = "idle" => batch'[c] = {}
             /\ \A m, k \in sending'[c] : m = k
             /\ sending'[c] # {} <=> dpc'[c] \in {"sending", "answered"}
             /\ \A n \in batch'[c] \cup sending'[c] : log'[n].status # "ABSENT"
  <2>1. CASE c = d
    BY <2>1
  <2>2. CASE c # d
    <3>1. /\ dpc'[c] = dpc[c] /\ batch'[c] = batch[c] /\ sending'[c] = sending[c]
          /\ batch[c] \cup sending[c] \subseteq Notices
      BY <2>2 DEF OthersKeep, OutboxTypeOK
    <3> QED
      BY <3>1 DEF OutboxTypeOK
  <2> QED
    BY <2>1, <2>2
<1> QED
  BY <1>1 DEF OutboxTypeOK, DispatchTypes, Unescalating
-----------------------------------------------------------------------------
(* What each step of a dispatch does, in one place. *)

LEMMA ListEffect ==
    ASSUME OutboxTypeOK, NEW d \in Dispatchers, ListPending(d)
    PROVE  /\ DispatchTypes /\ OthersKeep(d) /\ Unescalating
           /\ UNCHANGED <<log, sla, roster, unrouted, sending, answer, sends, confirmed, stops>>
           /\ batch'[d] \subseteq Pending /\ batch'[d] # {}
           /\ dpc[d] = "idle" /\ dpc'[d] = "draining"
           /\ \A n \in Notices : seen'[d][n] = log[n].attempts
           /\ overlaps' \in [{"dispatch", "escalate"} -> 0..MaxOverlaps]
           /\ overlaps'["dispatch"] = 0 =>
                /\ overlaps["dispatch"] = 0
                /\ \A c \in Dispatchers : dpc[c] = "idle"
<1>1. PICK part \in SUBSET Pending :
        /\ part # {} /\ batch' = [batch EXCEPT ![d] = part]
        /\ dpc[d] = "idle" /\ dpc' = [dpc EXCEPT ![d] = "draining"]
        /\ seen' = [seen EXCEPT ![d] = [n \in Notices |-> log[n].attempts]]
        /\ UNCHANGED <<log, sla, roster, unrouted, sending, answer, sends, confirmed, stops>>
        /\ UNCHANGED <<breached, epc, found, alerts>>
  BY DEF ListPending, Lists
<1>2. [n \in Notices |-> log[n].attempts] \in [Notices -> Nat]
  BY DEF OutboxTypeOK, Rows
<1>3. part \in SUBSET Notices
  BY DEF Pending
<1>4. overlaps \in [{"dispatch", "escalate"} -> 0..MaxOverlaps]
  BY DEF OutboxTypeOK
<1>5. IF \E c \in Dispatchers : dpc[c] # "idle"
        THEN overlaps["dispatch"] < MaxOverlaps
             /\ overlaps' = [overlaps EXCEPT !["dispatch"] = @ + 1]
        ELSE overlaps' = overlaps
  BY DEF ListPending, Lists, Starts
<1>6. /\ overlaps' \in [{"dispatch", "escalate"} -> 0..MaxOverlaps]
      /\ overlaps'["escalate"] = overlaps["escalate"]
      /\ overlaps'["dispatch"] = 0 =>
           /\ overlaps["dispatch"] = 0
           /\ \A c \in Dispatchers : dpc[c] = "idle"
  <2>1. CASE \E c \in Dispatchers : dpc[c] # "idle"
    <3>1. overlaps["dispatch"] \in Nat /\ overlaps["dispatch"] + 1 \in 0..MaxOverlaps
      BY <1>4, <1>5, <2>1, OutboxAssumption
    <3>2. overlaps' = [overlaps EXCEPT !["dispatch"] = overlaps["dispatch"] + 1]
      BY <1>5, <2>1
    <3>3. /\ overlaps'["dispatch"] = overlaps["dispatch"] + 1
          /\ overlaps'["escalate"] = overlaps["escalate"]
          /\ overlaps' \in [{"dispatch", "escalate"} -> 0..MaxOverlaps]
      BY <1>4, <3>1, <3>2
    <3> QED
      BY <3>1, <3>3
  <2>2. CASE ~\E c \in Dispatchers : dpc[c] # "idle"
    BY <1>4, <1>5, <2>2
  <2> QED
    BY <2>1, <2>2
<1>7. DispatchTypes /\ OthersKeep(d) /\ seen'[d] = [n \in Notices |-> log[n].attempts]
  BY <1>1, <1>2, <1>3 DEF OutboxTypeOK, DispatchTypes, OthersKeep
<1>8. batch'[d] = part /\ dpc'[d] = "draining"
  BY <1>1, <1>3 DEF OutboxTypeOK
<1> QED
  BY <1>1, <1>6, <1>7, <1>8 DEF Unescalating

(* A notice whose channel has no adapter is set aside. *)
Skips(d, n) ==
    /\ DispatchTypes /\ OthersKeep(d) /\ Unescalating
    /\ UNCHANGED <<sla, roster, unrouted, sends, confirmed, stops, overlaps>>
    /\ dpc[d] = "draining" /\ n \in batch[d]
    /\ batch'[d] = batch[d] \ {n} /\ sending'[d] = {} /\ answer'[d] = FALSE
    /\ dpc'[d] = IF batch'[d] = {} THEN "idle" ELSE "draining"
    /\ batch'[d] # {} => seen'[d] = seen[d]
    /\ log' \in [Notices -> Rows]
    /\ log'[n].status = "SKIPPED" /\ log'[n].attempts = seen[d][n]
    /\ \A m \in Notices : m # n => log'[m] = log[m]
    /\ \A m \in Notices : log[m].status # "ABSENT" => log'[m].status # "ABSENT"

LEMMA SkipEffect ==
    ASSUME OutboxTypeOK, NEW d \in Dispatchers, NEW n \in Notices, SkipUnroutable(d, n)
    PROVE  Skips(d, n)
<1>1. /\ Leaves(d, batch[d] \ {n}) /\ Record(n, "SKIPPED", seen[d][n])
      /\ dpc[d] = "draining" /\ n \in batch[d]
      /\ UNCHANGED <<sla, roster, unrouted, breached, epc, found>>
      /\ UNCHANGED <<sends, confirmed, alerts, stops, overlaps>>
  BY DEF SkipUnroutable, outboxHistory
<1>2. batch[d] \ {n} \in SUBSET Notices /\ seen[d][n] \in Nat /\ log \in [Notices -> Rows]
  BY DEF OutboxTypeOK
<1>3. /\ log' \in [Notices -> Rows]
      /\ log'[n].status = "SKIPPED" /\ log'[n].attempts = seen[d][n]
      /\ \A m \in Notices : m # n => log'[m] = log[m]
      /\ \A m \in Notices : log[m].status # "ABSENT" => log'[m].status # "ABSENT"
  BY <1>1, <1>2, RecordEffect DEF Statuses
<1>4. /\ DispatchTypes /\ OthersKeep(d)
      /\ batch'[d] = batch[d] \ {n} /\ sending'[d] = {} /\ answer'[d] = FALSE
      /\ dpc'[d] = IF batch[d] \ {n} = {} THEN "idle" ELSE "draining"
      /\ batch[d] \ {n} # {} => seen'[d] = seen[d]
  BY <1>1, <1>2, LeavesEffect
<1> QED
  BY <1>1, <1>3, <1>4 DEF Skips, Unescalating

LEMMA AttemptEffect ==
    ASSUME OutboxTypeOK, NEW d \in Dispatchers, NEW n \in Notices, Attempt(d, n)
    PROVE  /\ DispatchTypes /\ OthersKeep(d) /\ Unescalating
           /\ UNCHANGED <<sla, roster, unrouted, sends, confirmed, stops, overlaps>>
           /\ dpc[d] = "draining" /\ n \in batch[d] /\ dpc'[d] = "sending"
           /\ batch'[d] = batch[d] \ {n} /\ sending'[d] = {n}
           /\ seen'[d] = seen[d] /\ answer'[d] = answer[d]
           /\ log' \in [Notices -> Rows]
           /\ log'[n].status = "PENDING" /\ log'[n].attempts = seen[d][n] + 1
           /\ \A m \in Notices : m # n => log'[m] = log[m]
           /\ \A m \in Notices : log[m].status # "ABSENT" => log'[m].status # "ABSENT"
<1>1. /\ Record(n, "PENDING", seen[d][n] + 1)
      /\ dpc[d] = "draining" /\ n \in batch[d]
      /\ batch' = [batch EXCEPT ![d] = @ \ {n}] /\ sending' = [sending EXCEPT ![d] = {n}]
      /\ dpc' = [dpc EXCEPT ![d] = "sending"]
      /\ UNCHANGED <<sla, roster, unrouted, breached, epc, found, seen, answer>>
      /\ UNCHANGED <<sends, confirmed, alerts, stops, overlaps>>
  BY DEF Attempt, Attempts, outboxHistory
<1>2. seen[d][n] + 1 \in Nat /\ log \in [Notices -> Rows]
  BY DEF OutboxTypeOK
<1>3. /\ log' \in [Notices -> Rows]
      /\ log'[n].status = "PENDING" /\ log'[n].attempts = seen[d][n] + 1
      /\ \A m \in Notices : m # n => log'[m] = log[m]
      /\ \A m \in Notices : log[m].status # "ABSENT" => log'[m].status # "ABSENT"
  BY <1>1, <1>2, RecordEffect DEF Statuses
<1>4. /\ DispatchTypes /\ OthersKeep(d)
      /\ batch'[d] = batch[d] \ {n} /\ sending'[d] = {n} /\ dpc'[d] = "sending"
  BY <1>1 DEF OutboxTypeOK, DispatchTypes, OthersKeep
<1> QED
  BY <1>1, <1>3, <1>4 DEF Unescalating

LEMMA SendEffect ==
    ASSUME OutboxTypeOK, NEW d \in Dispatchers, NEW delivered \in BOOLEAN, Send(d, delivered)
    PROVE  /\ DispatchTypes /\ OthersKeep(d) /\ Unescalating
           /\ UNCHANGED <<log, sla, roster, unrouted, batch, seen, sending, stops, overlaps>>
           /\ dpc[d] = "sending" /\ dpc'[d] = "answered" /\ answer'[d] = delivered
           /\ sends' \in [Notices -> Nat]
           /\ \A n \in sending[d] : sends'[n] = sends[n] + 1
           /\ \A n \in Notices \ sending[d] : sends'[n] = sends[n]
           /\ confirmed' \subseteq Notices /\ confirmed \subseteq confirmed'
           /\ delivered => sending[d] \subseteq confirmed'
<1>1. /\ dpc[d] = "sending" /\ dpc' = [dpc EXCEPT ![d] = "answered"]
      /\ answer' = [answer EXCEPT ![d] = delivered]
      /\ sends' = [n \in Notices |-> IF n \in sending[d] THEN sends[n] + 1 ELSE sends[n]]
      /\ confirmed' = IF delivered THEN confirmed \cup sending[d] ELSE confirmed
      /\ UNCHANGED <<log, sla, breached, roster, unrouted, batch, seen, sending, epc, found,
                     alerts, stops, overlaps>>
  BY DEF Send
<1>2. sending[d] \subseteq Notices /\ confirmed \subseteq Notices /\ sends \in [Notices -> Nat]
  BY DEF OutboxTypeOK
<1>3. /\ sends' \in [Notices -> Nat]
      /\ \A n \in sending[d] : sends'[n] = sends[n] + 1
      /\ \A n \in Notices \ sending[d] : sends'[n] = sends[n]
  BY <1>1, <1>2
<1>4. /\ DispatchTypes /\ OthersKeep(d)
      /\ dpc'[d] = "answered" /\ answer'[d] = delivered
  BY <1>1 DEF OutboxTypeOK, DispatchTypes, OthersKeep
<1> QED
  BY <1>1, <1>2, <1>3, <1>4 DEF Unescalating

(* An outcome, whichever. *)
Outcomes(d, n, outcome) ==
    /\ DispatchTypes /\ OthersKeep(d) /\ Unescalating
    /\ UNCHANGED <<sla, roster, unrouted, sends, confirmed, stops, overlaps>>
    /\ dpc[d] = "answered" /\ n \in sending[d]
    /\ batch'[d] = batch[d] /\ sending'[d] = {} /\ answer'[d] = FALSE
    /\ dpc'[d] = IF batch[d] = {} THEN "idle" ELSE "draining"
    /\ batch'[d] # {} => seen'[d] = seen[d]
    /\ log' \in [Notices -> Rows]
    /\ log'[n].status = outcome /\ log'[n].attempts = seen[d][n] + 1
    /\ \A m \in Notices : m # n => log'[m] = log[m]
    /\ \A m \in Notices : log[m].status # "ABSENT" => log'[m].status # "ABSENT"

LEMMA OutcomeEffect ==
    ASSUME OutboxTypeOK, NEW d \in Dispatchers, NEW n \in Notices,
           NEW outcome \in Statuses, outcome # "ABSENT",
           dpc[d] = "answered", n \in sending[d], Record(n, outcome, seen[d][n] + 1),
           Leaves(d, batch[d]),
           UNCHANGED <<sla, breached, roster, unrouted, epc, found, outboxHistory>>
    PROVE  Outcomes(d, n, outcome)
<1>1. seen[d][n] + 1 \in Nat /\ log \in [Notices -> Rows] /\ batch[d] \in SUBSET Notices
  BY DEF OutboxTypeOK
<1>2. /\ log' \in [Notices -> Rows]
      /\ log'[n].status = outcome /\ log'[n].attempts = seen[d][n] + 1
      /\ \A m \in Notices : m # n => log'[m] = log[m]
      /\ \A m \in Notices : log[m].status # "ABSENT" => log'[m].status # "ABSENT"
  BY <1>1, RecordEffect
<1>3. /\ DispatchTypes /\ OthersKeep(d)
      /\ batch'[d] = batch[d] /\ sending'[d] = {} /\ answer'[d] = FALSE
      /\ dpc'[d] = IF batch[d] = {} THEN "idle" ELSE "draining"
      /\ batch[d] # {} => seen'[d] = seen[d]
  BY <1>1, LeavesEffect
<1> QED
  BY <1>2, <1>3 DEF Outcomes, Unescalating, outboxHistory

(* The status a delivery that failed is given. *)
AfterFailure(d, n) == IF seen[d][n] + 1 >= OutboxAttempts THEN "FAILED" ELSE "PENDING"

LEMMA DeliveredEffect ==
    ASSUME OutboxTypeOK, NEW d \in Dispatchers, NEW n \in Notices, Delivered(d, n)
    PROVE  answer[d] /\ Outcomes(d, n, "SENT")
  BY OutcomeEffect DEF Delivered, Statuses

LEMMA NotDeliveredEffect ==
    ASSUME OutboxTypeOK, NEW d \in Dispatchers, NEW n \in Notices, NotDelivered(d, n)
    PROVE  Outcomes(d, n, AfterFailure(d, n))
<1>1. AfterFailure(d, n) \in Statuses /\ AfterFailure(d, n) # "ABSENT"
  BY DEF AfterFailure, Statuses
<1> QED
  BY <1>1, OutcomeEffect DEF NotDelivered, Failed, AfterFailure

LEMMA StopEffect ==
    ASSUME OutboxTypeOK, NEW d \in Dispatchers, DispatchStops(d)
    PROVE  /\ DispatchTypes /\ OthersKeep(d) /\ Unescalating
           /\ UNCHANGED <<log, sla, roster, unrouted, sends, confirmed, overlaps>>
           /\ dpc[d] # "idle" /\ dpc'[d] = "idle"
           /\ batch'[d] = {} /\ sending'[d] = {} /\ answer'[d] = FALSE
           /\ stops \in Nat /\ stops' = stops + 1 /\ stops' \in 0..MaxStops
<1>1. /\ Leaves(d, {}) /\ dpc[d] # "idle" /\ stops < MaxStops /\ stops' = stops + 1
      /\ UNCHANGED <<log, sla, breached, roster, unrouted, epc, found,
                     sends, confirmed, alerts, overlaps>>
  BY DEF DispatchStops
<1>2. /\ DispatchTypes /\ OthersKeep(d) /\ dpc'[d] = "idle"
      /\ batch'[d] = {} /\ sending'[d] = {} /\ answer'[d] = FALSE
  BY <1>1, LeavesEffect
<1>3. stops \in Nat /\ stops' \in 0..MaxStops
  BY <1>1, OutboxAssumption DEF OutboxTypeOK
<1> QED
  BY <1>1, <1>2, <1>3 DEF Unescalating

-----------------------------------------------------------------------------
LEMMA DispatchStepKeepsTypes ==
    ASSUME OutboxTypeOK, NEW d \in Dispatchers, Dispatch(d) \/ DispatchStops(d)
    PROVE  OutboxTypeOK'
<1>1. /\ sends \in [Notices -> Nat] /\ confirmed \subseteq Notices
      /\ log \in [Notices -> Rows] /\ stops \in 0..MaxStops
      /\ overlaps \in [{"dispatch", "escalate"} -> 0..MaxOverlaps]
      /\ batch[d] \subseteq Notices /\ sending[d] \subseteq Notices
      /\ \A n \in batch[d] \cup sending[d] : log[n].status # "ABSENT"
      /\ sending[d] # {} <=> dpc[d] \in {"sending", "answered"}
      /\ \A m, k \in sending[d] : m = k
  BY DEF OutboxTypeOK
<1>3. CASE ListPending(d)
  <2>1. \A n \in batch'[d] : log'[n].status # "ABSENT"
    BY <1>3, ListEffect DEF Pending
  <2>2. log' = log /\ sending' = sending /\ sending[d] = {} /\ sends' = sends
        /\ confirmed' = confirmed /\ stops' = stops /\ dpc'[d] = "draining"
    BY <1>1, <1>3, ListEffect
  <2> QED
    BY <1>1, <1>3, <2>1, <2>2, ListEffect, DispatchKeepsTypes
<1>4. ASSUME NEW n \in Notices, SkipUnroutable(d, n) PROVE OutboxTypeOK'
  <2>1. \A m \in batch'[d] \cup sending'[d] : log'[m].status # "ABSENT"
    <3>1. /\ batch'[d] \subseteq batch[d] /\ sending'[d] = {}
          /\ \A m \in Notices : log[m].status # "ABSENT" => log'[m].status # "ABSENT"
      BY <1>4, SkipEffect DEF Skips
    <3> QED
      BY <1>1, <3>1
  <2>2. /\ sends' = sends /\ confirmed' = confirmed /\ stops' = stops
        /\ overlaps' = overlaps /\ sending'[d] = {} /\ \A m, k \in sending'[d] : m = k
        /\ dpc'[d] = IF batch'[d] = {} THEN "idle" ELSE "draining"
    BY <1>4, SkipEffect DEF Skips
  <2>3. /\ DispatchTypes /\ OthersKeep(d) /\ Unescalating
        /\ UNCHANGED <<sla, roster, unrouted>> /\ log' \in [Notices -> Rows]
        /\ \A m \in Notices : log[m].status # "ABSENT" => log'[m].status # "ABSENT"
    BY <1>4, SkipEffect DEF Skips
  <2>4. /\ dpc'[d] = "idle" => batch'[d] = {}
        /\ sending'[d] # {} <=> dpc'[d] \in {"sending", "answered"}
        /\ sends' \in [Notices -> Nat] /\ confirmed' \subseteq Notices
        /\ stops' \in 0..MaxStops
        /\ overlaps' \in [{"dispatch", "escalate"} -> 0..MaxOverlaps]
    BY <1>1, <2>2
  <2> QED
    BY <2>1, <2>2, <2>3, <2>4, DispatchKeepsTypes
<1>5. ASSUME NEW n \in Notices, Attempt(d, n) PROVE OutboxTypeOK'
  <2>1. \A m \in batch'[d] \cup sending'[d] : log'[m].status # "ABSENT"
    <3>1. /\ batch'[d] \subseteq batch[d] /\ sending'[d] = {n} /\ n \in batch[d]
          /\ \A m \in Notices : log[m].status # "ABSENT" => log'[m].status # "ABSENT"
      BY <1>5, AttemptEffect
    <3> QED
      BY <1>1, <3>1
  <2>2. /\ sends' = sends /\ confirmed' = confirmed /\ stops' = stops
        /\ overlaps' = overlaps /\ sending'[d] = {n} /\ dpc'[d] = "sending"
    BY <1>5, AttemptEffect
  <2> QED
    BY <1>1, <1>5, <2>1, <2>2, AttemptEffect, DispatchKeepsTypes
<1>6. ASSUME NEW delivered \in BOOLEAN, Send(d, delivered) PROVE OutboxTypeOK'
  <2>1. /\ log' = log /\ stops' = stops /\ overlaps' = overlaps
        /\ batch' = batch /\ sending' = sending
        /\ dpc[d] = "sending" /\ dpc'[d] = "answered"
    BY <1>6, SendEffect
  <2> QED
    BY <1>1, <1>6, <2>1, SendEffect, DispatchKeepsTypes
<1>7. ASSUME NEW n \in Notices, NEW outcome, Outcomes(d, n, outcome) PROVE OutboxTypeOK'
  <2> USE DEF Outcomes
  <2>1. \A m \in batch'[d] \cup sending'[d] : log'[m].status # "ABSENT"
    BY <1>1, <1>7
  <2>2. /\ sends' = sends /\ confirmed' = confirmed /\ stops' = stops
        /\ overlaps' = overlaps /\ sending'[d] = {}
        /\ dpc'[d] = IF batch'[d] = {} THEN "idle" ELSE "draining"
    BY <1>7
  <2> QED
    BY <1>1, <1>7, <2>1, <2>2, DispatchKeepsTypes
<1>8. CASE DispatchStops(d)
  <2>1. /\ sends' = sends /\ confirmed' = confirmed /\ log' = log
        /\ overlaps' = overlaps /\ sending'[d] = {} /\ batch'[d] = {} /\ dpc'[d] = "idle"
    BY <1>8, StopEffect
  <2> QED
    BY <1>1, <1>8, <2>1, StopEffect, DispatchKeepsTypes
<1> QED
  BY <1>3, <1>4, <1>5, <1>6, <1>7, <1>8, DeliveredEffect, NotDeliveredEffect DEF Dispatch

LEMMA NextKeepsTypes == OutboxTypeOK /\ [OutboxNext]_outboxVars => OutboxTypeOK'
<1> SUFFICES ASSUME OutboxTypeOK, [OutboxNext]_outboxVars PROVE OutboxTypeOK'
  OBVIOUS
<1>1. CASE UNCHANGED outboxVars
  BY <1>1 DEF outboxVars, dispatchVars, outboxHistory, OutboxTypeOK
<1>2. CASE Others
  BY <1>2, OthersKeepTypes
<1>3. ASSUME NEW d \in Dispatchers, Dispatch(d) \/ DispatchStops(d) PROVE OutboxTypeOK'
  BY <1>3, DispatchStepKeepsTypes
<1>4. ASSUME NEW e \in Escalators, Escalation(e) \/ EscalationStops(e) PROVE OutboxTypeOK'
  BY <1>4, EscalationKeepsTypes
<1> QED
  BY <1>1, <1>2, <1>3, <1>4 DEF OutboxNext, Others

(* The rows and the executions of both jobs keep their types: an execution *)
(* sends one notice at a time, and only notices that were written.         *)
THEOREM OutboxTypeCorrect == OutboxSpec => []OutboxTypeOK
  BY InitTypes, NextKeepsTypes, PTL DEF OutboxSpec
-----------------------------------------------------------------------------
(* What is SENT was confirmed                                              *)

(* The answer an execution holds is about what it sends. *)
AnswerIsAboutSending ==
    \A d \in Dispatchers :
        answer[d] => dpc[d] = "answered" /\ sending[d] \subseteq confirmed

SentInv == SentWasConfirmed /\ AnswerIsAboutSending

(* A step of d in which nothing becomes SENT. *)
LEMMA NothingSent ==
    ASSUME OutboxTypeOK, SentInv, NEW d \in Dispatchers, OthersKeep(d),
           confirmed \subseteq confirmed',
           \A n \in Notices : log'[n].status = "SENT" => log[n].status = "SENT",
           answer'[d] => dpc'[d] = "answered" /\ sending'[d] \subseteq confirmed'
    PROVE  SentInv'
  BY DEF SentInv, SentWasConfirmed, AnswerIsAboutSending, OthersKeep

LEMMA SentInvStep ==
    ASSUME OutboxTypeOK, SentInv, [OutboxNext]_outboxVars
    PROVE  SentInv'
<1>1. CASE UNCHANGED outboxVars
  BY <1>1 DEF outboxVars, dispatchVars, outboxHistory, SentInv, SentWasConfirmed,
              AnswerIsAboutSending
<1>2. ASSUME Quiet PROVE SentInv'
  <2>1. \A n \in Notices : log'[n].status = "SENT" => log[n].status = "SENT"
    BY <1>2 DEF Quiet, Queues
  <2> QED
    BY <1>2, <2>1 DEF Quiet, SentInv, SentWasConfirmed, AnswerIsAboutSending
<1>3. ASSUME NEW d \in Dispatchers, Dispatch(d) \/ DispatchStops(d) PROVE SentInv'
  <2>1. answer[d] => dpc[d] = "answered"
    BY DEF SentInv, AnswerIsAboutSending
  <2>2. CASE ListPending(d)
    <3>1. /\ OthersKeep(d) /\ log' = log /\ confirmed' = confirmed
          /\ answer' = answer /\ dpc[d] = "idle"
      BY <2>2, ListEffect
    <3>2. ~answer'[d]
      BY <2>1, <3>1, Zenon
    <3> QED
      BY <3>1, <3>2, NothingSent
  <2>3. ASSUME NEW n \in Notices, SkipUnroutable(d, n) PROVE SentInv'
    <3>1. Skips(d, n)
      BY <2>3, SkipEffect
    <3>2. \A m \in Notices : log'[m].status = "SENT" => log[m].status = "SENT"
      BY <3>1 DEF Skips
    <3>3. OthersKeep(d) /\ confirmed' = confirmed /\ answer'[d] = FALSE
      BY <3>1 DEF Skips
    <3>4. ~answer'[d]
      BY <3>3, Zenon
    <3> QED
      BY <3>2, <3>3, <3>4, NothingSent
  <2>4. ASSUME NEW n \in Notices, Attempt(d, n) PROVE SentInv'
    <3>1. \A m \in Notices : log'[m].status = "SENT" => log[m].status = "SENT"
      <4>1. log'[n].status = "PENDING" /\ \A m \in Notices : m # n => log'[m] = log[m]
        BY <2>4, AttemptEffect
      <4> QED
        BY <4>1
    <3>2. /\ OthersKeep(d) /\ confirmed' = confirmed
          /\ answer'[d] = answer[d] /\ dpc[d] = "draining"
      BY <2>4, AttemptEffect
    <3>3. ~answer'[d]
      BY <2>1, <3>2, Zenon
    <3> QED
      BY <3>1, <3>2, <3>3, NothingSent
  <2>5. ASSUME NEW delivered \in BOOLEAN, Send(d, delivered) PROVE SentInv'
    <3>1. /\ OthersKeep(d) /\ log' = log /\ sending' = sending /\ dpc'[d] = "answered"
          /\ answer'[d] = delivered /\ confirmed \subseteq confirmed'
          /\ delivered => sending[d] \subseteq confirmed'
      BY <2>5, SendEffect
    <3>2. answer'[d] => dpc'[d] = "answered" /\ sending'[d] \subseteq confirmed'
      BY <3>1, Zenon
    <3>3. \A m \in Notices : log'[m].status = "SENT" => log[m].status = "SENT"
      BY <3>1
    <3> QED
      BY <3>1, <3>2, <3>3, NothingSent
  <2>6. ASSUME NEW n \in Notices, Delivered(d, n) PROVE SentInv'
    <3>1. answer[d] /\ Outcomes(d, n, "SENT")
      BY <2>6, DeliveredEffect
    <3>2. n \in confirmed
      BY <3>1 DEF Outcomes, SentInv, AnswerIsAboutSending
    <3>3. \A m \in Notices : log'[m].status = "SENT" => m \in confirmed'
      BY <3>2, <3>1 DEF Outcomes, SentInv, SentWasConfirmed
    <3>4. AnswerIsAboutSending'
      <4>1. ~answer'[d] /\ OthersKeep(d) /\ confirmed' = confirmed
        BY <3>1 DEF Outcomes
      <4> QED
        BY <4>1 DEF OthersKeep, SentInv, AnswerIsAboutSending
    <3> QED
      BY <3>3, <3>4 DEF SentInv, SentWasConfirmed
  <2>7. ASSUME NEW n \in Notices, NotDelivered(d, n) PROVE SentInv'
    <3>1. Outcomes(d, n, AfterFailure(d, n)) /\ AfterFailure(d, n) # "SENT"
      BY <2>7, NotDeliveredEffect DEF AfterFailure
    <3>2. \A m \in Notices : log'[m].status = "SENT" => log[m].status = "SENT"
      BY <3>1 DEF Outcomes
    <3> QED
      BY <3>1, <3>2, NothingSent DEF Outcomes
  <2>8. CASE DispatchStops(d)
    BY <2>8, StopEffect, NothingSent
  <2> QED
    BY <1>3, <2>2, <2>3, <2>4, <2>5, <2>6, <2>7, <2>8 DEF Dispatch
<1> QED
  BY <1>1, <1>2, <1>3, OthersAreQuiet, EscalationsAreQuiet DEF OutboxNext, Others

LEMMA SentInvInit == OutboxInit => SentInv
  BY DEF OutboxInit, SentInv, SentWasConfirmed, AnswerIsAboutSending

(* However dispatches overlap and stop, a row says SENT only if an adapter *)
(* confirmed that notice (DispatchPendingNotificationsUseCase, R4.6).      *)
THEOREM SentIsConfirmed == OutboxSpec => []SentWasConfirmed
<1>1. SentInv => SentWasConfirmed
  BY DEF SentInv
<1> QED
  BY <1>1, InitTypes, NextKeepsTypes, SentInvInit, SentInvStep, PTL DEF OutboxSpec

-----------------------------------------------------------------------------
(* While the lock keeps the dispatches apart                               *)

OneDispatch ==
    \A c, d \in Dispatchers : dpc[c] # "idle" /\ dpc[d] # "idle" => c = d

(* What an execution read with its list is what the rows still say. *)
ListIsFresh ==
    \A d \in Dispatchers :
        /\ \A n \in batch[d] :
             log[n].status = "PENDING" /\ log[n].attempts = seen[d][n]
        /\ \A n \in sending[d] :
             /\ n \notin batch[d]
             /\ log[n].status = "PENDING" /\ log[n].attempts = seen[d][n] + 1

(* A call was counted before it was made, and a notice that is tried again *)
(* has budget left or an execution that stopped to thank for it.           *)
TriesAreCounted ==
    \A n \in Notices :
        /\ sends[n] <= log[n].attempts
        /\ log[n].attempts <= OutboxAttempts + stops
        /\ \A d \in Dispatchers :
             dpc[d] = "sending" /\ n \in sending[d] => sends[n] < log[n].attempts
        /\ /\ log[n].status \in {"ABSENT", "PENDING"}
           /\ \A d \in Dispatchers : n \notin sending[d]
           => log[n].attempts < OutboxAttempts + stops

Serial == OneDispatch /\ ListIsFresh /\ TriesAreCounted

SerialInv == Apart("dispatch") => Serial

(* Dispatch d is the only one. *)
RestIdle(d) ==
    \A c \in Dispatchers : c # d => dpc'[c] = "idle" /\ batch'[c] = {} /\ sending'[c] = {}

LEMMA OthersAreIdle ==
    ASSUME OutboxTypeOK, OneDispatch, NEW d \in Dispatchers, dpc[d] # "idle", OthersKeep(d)
    PROVE  RestIdle(d) /\ \A c \in Dispatchers, n \in Notices : n \in sending[c] => c = d
  BY DEF OutboxTypeOK, OneDispatch, OthersKeep, RestIdle

(* What remains to be shown of a step of d. *)
LEMMA SerialOfOne ==
    ASSUME OutboxTypeOK', NEW d \in Dispatchers, RestIdle(d),
           \A n \in batch'[d] : log'[n].status = "PENDING" /\ log'[n].attempts = seen'[d][n],
           \A n \in sending'[d] :
               /\ n \notin batch'[d]
               /\ log'[n].status = "PENDING" /\ log'[n].attempts = seen'[d][n] + 1,
           \A n \in Notices :
               /\ sends'[n] <= log'[n].attempts
               /\ log'[n].attempts <= OutboxAttempts + stops'
               /\ dpc'[d] = "sending" /\ n \in sending'[d] => sends'[n] < log'[n].attempts
               /\ log'[n].status \in {"ABSENT", "PENDING"} /\ n \notin sending'[d]
                  => log'[n].attempts < OutboxAttempts + stops'
    PROVE  Serial'
<1>1. OneDispatch'
  BY DEF OneDispatch, RestIdle
<1>2. ListIsFresh'
  BY DEF ListIsFresh, RestIdle
<1>3. TriesAreCounted'
  BY DEF TriesAreCounted, RestIdle
<1> QED
  BY <1>1, <1>2, <1>3 DEF Serial

LEMMA SerialInit == OutboxInit => Serial
<1> SUFFICES ASSUME OutboxInit PROVE Serial
  OBVIOUS
<1> QED
  BY OutboxAssumption DEF OutboxInit, Serial, OneDispatch, ListIsFresh, TriesAreCounted

(* What the rows say in numbers. *)
LEMMA CountersAreNumbers ==
    ASSUME OutboxTypeOK
    PROVE  /\ stops \in Nat
           /\ \A n \in Notices : log[n].attempts \in Nat /\ sends[n] \in Nat
           /\ \A d \in Dispatchers, n \in Notices : seen[d][n] \in Nat
  BY OutboxAssumption DEF OutboxTypeOK, Rows

LEMMA QuietKeepsSerial ==
    ASSUME OutboxTypeOK, OutboxTypeOK', Serial, Quiet
    PROVE  Serial'
<1>1. /\ UNCHANGED <<dpc, batch, seen, sending, sends>> /\ stops' >= stops
      /\ \A n \in Notices : log'[n].attempts = log[n].attempts
      /\ \A n \in Notices : log[n].status # "ABSENT" => log'[n] = log[n]
      /\ \A n \in Notices : log'[n].status \in {"ABSENT", "PENDING"}
                            => log[n].status \in {"ABSENT", "PENDING"}
  BY DEF Quiet, Queues
<1>2. stops \in Nat /\ stops' \in Nat /\ OutboxAttempts \in Nat
      /\ \A n \in Notices : log[n].attempts \in Nat /\ sends[n] \in Nat
  BY CountersAreNumbers, OutboxAssumption DEF OutboxTypeOK
<1>3. OneDispatch'
  BY <1>1 DEF Serial, OneDispatch
<1>4. ListIsFresh'
  <2>1. \A d \in Dispatchers : \A n \in batch[d] \cup sending[d] :
           n \in Notices /\ log'[n] = log[n]
    BY <1>1 DEF OutboxTypeOK
  <2> QED
    BY <1>1, <2>1 DEF Serial, ListIsFresh
<1>5. TriesAreCounted'
  BY <1>1, <1>2 DEF Serial, TriesAreCounted
<1> QED
  BY <1>3, <1>4, <1>5 DEF Serial
LEMMA ListKeepsSerial ==
    ASSUME OutboxTypeOK, OutboxTypeOK', SerialInv, NEW d \in Dispatchers, ListPending(d),
           Apart("dispatch")'
    PROVE  Serial'
<1>1. Apart("dispatch") /\ \A c \in Dispatchers : dpc[c] = "idle"
  BY ListEffect DEF Apart
<1>2. Serial
  BY <1>1 DEF SerialInv
<1>3. \A c \in Dispatchers : batch[c] = {} /\ sending[c] = {}
  BY <1>1 DEF OutboxTypeOK
<1>4. /\ OthersKeep(d) /\ batch'[d] \subseteq Pending /\ dpc'[d] = "draining"
      /\ UNCHANGED <<log, sending, sends, stops>>
      /\ \A n \in Notices : seen'[d][n] = log[n].attempts
  BY ListEffect
<1>5. RestIdle(d)
  BY <1>1, <1>3, <1>4 DEF OthersKeep, RestIdle
<1>6. \A n \in batch'[d] : log'[n].status = "PENDING" /\ log'[n].attempts = seen'[d][n]
  BY <1>4 DEF Pending
<1>7. sending'[d] = {} /\ log' = log /\ sends' = sends /\ stops' = stops
  BY <1>3, <1>4
<1>8. ASSUME NEW n \in Notices
      PROVE  /\ sends[n] <= log[n].attempts
             /\ log[n].attempts <= OutboxAttempts + stops
             /\ log[n].status \in {"ABSENT", "PENDING"}
                => log[n].attempts < OutboxAttempts + stops
  BY <1>2, <1>3 DEF Serial, TriesAreCounted
<1> QED
  BY <1>4, <1>5, <1>6, <1>7, <1>8, SerialOfOne

(* The facts a step of a dispatch that is not idle starts from. *)
LEMMA SerialOfWorking ==
    ASSUME OutboxTypeOK, Serial, NEW d \in Dispatchers, dpc[d] # "idle", OthersKeep(d)
    PROVE  /\ RestIdle(d)
           /\ \A n \in batch[d] :
                log[n].status = "PENDING" /\ log[n].attempts = seen[d][n]
           /\ \A n \in sending[d] :
                /\ n \notin batch[d]
                /\ log[n].status = "PENDING" /\ log[n].attempts = seen[d][n] + 1
           /\ \A n \in Notices :
                /\ sends[n] <= log[n].attempts
                /\ log[n].attempts <= OutboxAttempts + stops
                /\ dpc[d] = "sending" /\ n \in sending[d] => sends[n] < log[n].attempts
                /\ log[n].status \in {"ABSENT", "PENDING"} /\ n \notin sending[d]
                   => log[n].attempts < OutboxAttempts + stops
<1>1. RestIdle(d) /\ \A c \in Dispatchers, n \in Notices : n \in sending[c] => c = d
  BY OthersAreIdle DEF Serial
<1> QED
  BY <1>1 DEF Serial, ListIsFresh, TriesAreCounted

LEMMA SkipKeepsSerial ==
    ASSUME OutboxTypeOK, OutboxTypeOK', Serial, NEW d \in Dispatchers, NEW n \in Notices,
           SkipUnroutable(d, n)
    PROVE  Serial'
<1>1. Skips(d, n)
  BY SkipEffect
<1>2. /\ OthersKeep(d) /\ dpc[d] = "draining" /\ n \in batch[d]
      /\ batch'[d] = batch[d] \ {n} /\ sending'[d] = {}
      /\ sends' = sends /\ stops' = stops
      /\ batch'[d] # {} => seen'[d] = seen[d]
      /\ log'[n].status = "SKIPPED" /\ log'[n].attempts = seen[d][n]
      /\ \A m \in Notices : m # n => log'[m] = log[m]
  BY <1>1 DEF Skips
<1>3. batch[d] \subseteq Notices /\ sending[d] = {}
  BY <1>2 DEF OutboxTypeOK
<1>4. \A m \in batch'[d] : log'[m].status = "PENDING" /\ log'[m].attempts = seen'[d][m]
  BY <1>2, <1>3, SerialOfWorking
<1>5. log'[n].attempts = log[n].attempts
  BY <1>2, SerialOfWorking
<1>6. ASSUME NEW m \in Notices
      PROVE  /\ sends'[m] <= log'[m].attempts
             /\ log'[m].attempts <= OutboxAttempts + stops'
             /\ log'[m].status \in {"ABSENT", "PENDING"}
                => log'[m].attempts < OutboxAttempts + stops'
  <2>1. /\ sends[m] <= log[m].attempts /\ log[m].attempts <= OutboxAttempts + stops
        /\ log[m].status \in {"ABSENT", "PENDING"} => log[m].attempts < OutboxAttempts + stops
    BY <1>2, <1>3, SerialOfWorking
  <2> QED
    BY <1>2, <1>5, <2>1
<1> QED
  BY <1>2, <1>4, <1>6, SerialOfOne, SerialOfWorking

LEMMA AttemptKeepsSerial ==
    ASSUME OutboxTypeOK, OutboxTypeOK', Serial, NEW d \in Dispatchers, NEW n \in Notices,
           Attempt(d, n)
    PROVE  Serial'
<1>1. /\ OthersKeep(d) /\ dpc[d] = "draining" /\ n \in batch[d]
      /\ batch'[d] = batch[d] \ {n} /\ sending'[d] = {n} /\ seen'[d] = seen[d]
      /\ sends' = sends /\ stops' = stops
      /\ log'[n].status = "PENDING" /\ log'[n].attempts = seen[d][n] + 1
      /\ \A m \in Notices : m # n => log'[m] = log[m]
  BY AttemptEffect
<1>2. batch[d] \subseteq Notices /\ sending[d] = {}
  BY <1>1 DEF OutboxTypeOK
<1>3. \A m \in batch'[d] : log'[m].status = "PENDING" /\ log'[m].attempts = seen'[d][m]
  BY <1>1, <1>2, SerialOfWorking
<1>4. log[n].status = "PENDING" /\ log[n].attempts = seen[d][n]
  BY <1>1, SerialOfWorking
<1>5. ASSUME NEW m \in Notices
      PROVE  /\ sends'[m] <= log'[m].attempts
             /\ log'[m].attempts <= OutboxAttempts + stops'
             /\ m = n => sends'[m] < log'[m].attempts
             /\ log'[m].status \in {"ABSENT", "PENDING"} /\ m # n
                => log'[m].attempts < OutboxAttempts + stops'
  <2>1. /\ sends[m] <= log[m].attempts /\ log[m].attempts <= OutboxAttempts + stops
        /\ log[m].status \in {"ABSENT", "PENDING"} => log[m].attempts < OutboxAttempts + stops
    BY <1>1, <1>2, SerialOfWorking
  <2>2. /\ stops \in Nat /\ OutboxAttempts \in Nat
        /\ log[m].attempts \in Nat /\ sends[m] \in Nat
    BY CountersAreNumbers, OutboxAssumption
  <2>3. CASE m = n
    BY <1>1, <1>4, <2>1, <2>2, <2>3
  <2>4. CASE m # n
    BY <1>1, <2>1, <2>4
  <2> QED
    BY <2>3, <2>4
<1>6. \A m \in sending'[d] : /\ m \notin batch'[d] /\ log'[m].status = "PENDING"
                             /\ log'[m].attempts = seen'[d][m] + 1
  BY <1>1
<1>7. \A m \in Notices :
         /\ dpc'[d] = "sending" /\ m \in sending'[d] => sends'[m] < log'[m].attempts
         /\ log'[m].status \in {"ABSENT", "PENDING"} /\ m \notin sending'[d]
            => log'[m].attempts < OutboxAttempts + stops'
  BY <1>1, <1>5
<1>8. RestIdle(d)
  BY <1>1, SerialOfWorking
<1> QED
  BY <1>3, <1>5, <1>6, <1>7, <1>8, SerialOfOne

LEMMA SendKeepsSerial ==
    ASSUME OutboxTypeOK, OutboxTypeOK', Serial, NEW d \in Dispatchers,
           NEW delivered \in BOOLEAN, Send(d, delivered)
    PROVE  Serial'
<1>1. /\ OthersKeep(d) /\ dpc[d] = "sending" /\ dpc'[d] = "answered"
      /\ UNCHANGED <<log, batch, seen, sending, stops>>
      /\ \A n \in sending[d] : sends'[n] = sends[n] + 1
      /\ \A n \in Notices \ sending[d] : sends'[n] = sends[n]
  BY SendEffect
<1>2. ASSUME NEW n \in Notices PROVE sends'[n] <= log[n].attempts
  <2>1. sends[n] \in Nat /\ log[n].attempts \in Nat
    BY CountersAreNumbers
  <2>2. /\ sends[n] <= log[n].attempts
        /\ n \in sending[d] => sends[n] < log[n].attempts
    BY <1>1, SerialOfWorking
  <2> QED
    BY <1>1, <2>1, <2>2
<1>3. \A n \in Notices :
         /\ log[n].attempts <= OutboxAttempts + stops
         /\ log[n].status \in {"ABSENT", "PENDING"} /\ n \notin sending[d]
            => log[n].attempts < OutboxAttempts + stops
  BY <1>1, SerialOfWorking
<1>4. /\ RestIdle(d)
      /\ \A n \in batch[d] : log[n].status = "PENDING" /\ log[n].attempts = seen[d][n]
      /\ \A n \in sending[d] : /\ n \notin batch[d] /\ log[n].status = "PENDING"
                               /\ log[n].attempts = seen[d][n] + 1
  BY <1>1, SerialOfWorking
<1> QED
  BY <1>1, <1>2, <1>3, <1>4, SerialOfOne
LEMMA OutcomeKeepsSerial ==
    ASSUME OutboxTypeOK, OutboxTypeOK', Serial, NEW d \in Dispatchers, NEW n \in Notices,
           NEW outcome, Outcomes(d, n, outcome),
           outcome \in {"ABSENT", "PENDING"} => seen[d][n] + 1 < OutboxAttempts
    PROVE  Serial'
<1>1. /\ OthersKeep(d) /\ dpc[d] = "answered" /\ n \in sending[d]
      /\ batch'[d] = batch[d] /\ sending'[d] = {}
      /\ batch'[d] # {} => seen'[d] = seen[d]
      /\ sends' = sends /\ stops' = stops
      /\ log'[n].status = outcome /\ log'[n].attempts = seen[d][n] + 1
      /\ \A m \in Notices : m # n => log'[m] = log[m]
  BY DEF Outcomes
<1>2. batch[d] \subseteq Notices /\ \A m \in sending[d] : m = n
  BY <1>1 DEF OutboxTypeOK
<1>3. n \notin batch[d] /\ log[n].attempts = seen[d][n] + 1
  BY <1>1, SerialOfWorking
<1>4. \A m \in batch'[d] : log'[m].status = "PENDING" /\ log'[m].attempts = seen'[d][m]
  BY <1>1, <1>2, <1>3, SerialOfWorking
<1>5. ASSUME NEW m \in Notices
      PROVE  /\ sends'[m] <= log'[m].attempts
             /\ log'[m].attempts <= OutboxAttempts + stops'
             /\ log'[m].status \in {"ABSENT", "PENDING"}
                => log'[m].attempts < OutboxAttempts + stops'
  <2>1. /\ sends[m] <= log[m].attempts /\ log[m].attempts <= OutboxAttempts + stops
        /\ log[m].status \in {"ABSENT", "PENDING"} /\ m # n
           => log[m].attempts < OutboxAttempts + stops
    BY <1>1, <1>2, SerialOfWorking
  <2>2. stops \in Nat /\ OutboxAttempts \in Nat /\ seen[d][n] \in Nat
    BY CountersAreNumbers, OutboxAssumption
  <2>3. CASE m = n
    BY <1>1, <1>3, <2>1, <2>2, <2>3
  <2>4. CASE m # n
    BY <1>1, <2>1, <2>4
  <2> QED
    BY <2>3, <2>4
<1>6. RestIdle(d)
  BY <1>1, SerialOfWorking
<1> QED
  BY <1>1, <1>4, <1>5, <1>6, SerialOfOne

LEMMA StopKeepsSerial ==
    ASSUME OutboxTypeOK, OutboxTypeOK', Serial, NEW d \in Dispatchers, DispatchStops(d)
    PROVE  Serial'
<1>1. /\ OthersKeep(d) /\ dpc[d] # "idle" /\ batch'[d] = {} /\ sending'[d] = {}
      /\ log' = log /\ sends' = sends /\ stops \in Nat /\ stops' = stops + 1
  BY StopEffect
<1>2. ASSUME NEW m \in Notices
      PROVE  /\ sends[m] <= log[m].attempts
             /\ log[m].attempts <= OutboxAttempts + stops'
             /\ log[m].attempts < OutboxAttempts + stops'
  <2>1. sends[m] <= log[m].attempts /\ log[m].attempts <= OutboxAttempts + stops
    BY <1>1, SerialOfWorking
  <2> QED
    BY <1>1, <2>1, CountersAreNumbers, OutboxAssumption
<1>3. RestIdle(d)
  BY <1>1, SerialOfWorking
<1> QED
  BY <1>1, <1>2, <1>3, SerialOfOne

(* The lock that was broken once stays broken. *)
LEMMA OverlapStays ==
    ASSUME OutboxTypeOK, [OutboxNext]_outboxVars, Apart("dispatch")'
    PROVE  Apart("dispatch")
<1> USE DEF Apart
<1>1. CASE UNCHANGED outboxVars
  BY <1>1 DEF outboxVars, outboxHistory
<1>2. ASSUME Quiet PROVE overlaps["dispatch"] = 0
  BY <1>2 DEF Quiet
<1>3. ASSUME NEW d \in Dispatchers, Dispatch(d) \/ DispatchStops(d)
      PROVE  overlaps["dispatch"] = 0
  <2>1. CASE ListPending(d)
    BY <2>1, ListEffect
  <2>2. ASSUME NEW n \in Notices, SkipUnroutable(d, n) PROVE overlaps["dispatch"] = 0
    BY <2>2 DEF SkipUnroutable, outboxHistory
  <2>3. ASSUME NEW n \in Notices, Attempt(d, n) PROVE overlaps["dispatch"] = 0
    BY <2>3 DEF Attempt, Attempts, outboxHistory
  <2>4. ASSUME NEW delivered \in BOOLEAN, Send(d, delivered) PROVE overlaps["dispatch"] = 0
    BY <2>4 DEF Send
  <2>5. ASSUME NEW n \in Notices, Delivered(d, n) \/ NotDelivered(d, n)
        PROVE  overlaps["dispatch"] = 0
    BY <2>5 DEF Delivered, NotDelivered, Failed, outboxHistory
  <2>6. CASE DispatchStops(d)
    BY <2>6 DEF DispatchStops
  <2> QED
    BY <1>3, <2>1, <2>2, <2>3, <2>4, <2>5, <2>6 DEF Dispatch
<1> QED
  BY <1>1, <1>2, <1>3, OthersAreQuiet, EscalationsAreQuiet DEF OutboxNext, Others

LEMMA SerialInvStep ==
    ASSUME OutboxTypeOK, OutboxTypeOK', SerialInv, [OutboxNext]_outboxVars
    PROVE  SerialInv'
<1> SUFFICES ASSUME Apart("dispatch")' PROVE Serial'
  BY DEF SerialInv
<1>1. Serial
  BY OverlapStays DEF SerialInv
<1>2. CASE UNCHANGED outboxVars
  BY <1>1, <1>2 DEF outboxVars, dispatchVars, outboxHistory, Serial, OneDispatch,
                    ListIsFresh, TriesAreCounted
<1>3. ASSUME Quiet PROVE Serial'
  BY <1>1, <1>3, QuietKeepsSerial
<1>4. ASSUME NEW d \in Dispatchers, Dispatch(d) \/ DispatchStops(d) PROVE Serial'
  <2>1. CASE ListPending(d)
    BY <2>1, ListKeepsSerial
  <2>2. ASSUME NEW n \in Notices, SkipUnroutable(d, n) \/ Attempt(d, n) PROVE Serial'
    BY <1>1, <2>2, SkipKeepsSerial, AttemptKeepsSerial
  <2>3. ASSUME NEW delivered \in BOOLEAN, Send(d, delivered) PROVE Serial'
    BY <1>1, <2>3, SendKeepsSerial
  <2>4. ASSUME NEW n \in Notices, Delivered(d, n) PROVE Serial'
    BY <1>1, <2>4, DeliveredEffect, OutcomeKeepsSerial
  <2>5. ASSUME NEW n \in Notices, NotDelivered(d, n) PROVE Serial'
    <3>1. Outcomes(d, n, AfterFailure(d, n))
      BY <2>5, NotDeliveredEffect
    <3>2. AfterFailure(d, n) \in {"ABSENT", "PENDING"} => seen[d][n] + 1 < OutboxAttempts
      BY CountersAreNumbers, OutboxAssumption DEF AfterFailure
    <3> QED
      BY <1>1, <3>1, <3>2, OutcomeKeepsSerial
  <2>6. CASE DispatchStops(d)
    BY <1>1, <2>6, StopKeepsSerial
  <2> QED
    BY <1>4, <2>1, <2>2, <2>3, <2>4, <2>5, <2>6 DEF Dispatch
<1> QED
  BY <1>2, <1>3, <1>4, OthersAreQuiet, EscalationsAreQuiet DEF OutboxNext, Others

(* While the lock of the job keeps its executions apart, no notice costs   *)
(* more calls to a provider than its budget, and one for each execution    *)
(* that stopped half-way (the attempt is committed before the send).       *)
THEOREM SendsStayBounded == OutboxSpec => []SendsAreBounded
<1>1. OutboxTypeOK /\ SerialInv => SendsAreBounded
  <2> SUFFICES ASSUME OutboxTypeOK, SerialInv, Apart("dispatch"), NEW n \in Notices
               PROVE  sends[n] <= OutboxAttempts + stops
    BY DEF SendsAreBounded
  <2>1. sends[n] <= log[n].attempts /\ log[n].attempts <= OutboxAttempts + stops
    BY DEF SerialInv, Serial, TriesAreCounted
  <2> QED
    BY <2>1, CountersAreNumbers, OutboxAssumption
<1>2. OutboxInit => SerialInv
  BY SerialInit DEF SerialInv
<1> QED
  BY <1>1, <1>2, InitTypes, NextKeepsTypes, SerialInvStep, PTL DEF OutboxSpec
-----------------------------------------------------------------------------
(* Escalation                                                              *)

OneEscalation ==
    \A e, f \in Escalators : epc[e] # "idle" /\ epc[f] # "idle" => e = f

(* What an execution found is not marked yet. *)
FoundIsOpen == \A e \in Escalators : found[e] \cap breached = {}

FoundOnlyAtWork == \A e \in Escalators : epc[e] = "idle" => found[e] = {}

AlertedOnce ==
    \A o \in WithEscalation : alerts[o] = IF o \in breached THEN 1 ELSE 0

EscalationInv ==
    /\ FoundOnlyAtWork
    /\ Apart("escalate") => OneEscalation /\ FoundIsOpen /\ AlertedOnce

LEMMA EscalationInit == OutboxInit => EscalationInv
  BY OutboxAssumption DEF OutboxInit, EscalationInv, FoundOnlyAtWork, OneEscalation,
                          FoundIsOpen, AlertedOnce

LEMMA UnescalatingKeeps ==
    ASSUME EscalationInv, Unescalating
    PROVE  EscalationInv'
  BY DEF EscalationInv, Unescalating, Apart, FoundOnlyAtWork, OneEscalation, FoundIsOpen,
         AlertedOnce

(* The execution e is the only one, and it is over. *)
LEMMA EndKeepsEscalationInv ==
    ASSUME OutboxTypeOK, EscalationInv, NEW e \in Escalators, Ends(e),
           epc[e] # "idle", overlaps' = overlaps,
           Apart("escalate") => AlertedOnce'
    PROVE  EscalationInv'
<1>1. /\ epc' = [epc EXCEPT ![e] = "idle"] /\ found' = [found EXCEPT ![e] = {}]
      /\ epc \in [Escalators -> {"idle", "escalating"}]
      /\ found \in [Escalators -> SUBSET Originals]
  BY DEF Ends, OutboxTypeOK
<1>2. FoundOnlyAtWork'
  BY <1>1 DEF EscalationInv, FoundOnlyAtWork
<1>3. ASSUME Apart("escalate") PROVE OneEscalation' /\ FoundIsOpen'
  <2>1. \A f \in Escalators : epc'[f] = "idle" /\ found'[f] = {}
    BY <1>1, <1>3 DEF EscalationInv, OneEscalation, FoundOnlyAtWork
  <2> QED
    BY <2>1 DEF OneEscalation, FoundIsOpen
<1> QED
  BY <1>2, <1>3 DEF EscalationInv, Apart

LEMMA EscalateKeepsEscalationInv ==
    ASSUME OutboxTypeOK, EscalationInv, NEW e \in Escalators, Escalate(e)
    PROVE  EscalationInv'
<1> DEFINE written == Escalatable(e)
           marked == Escalatable(e) \cup (found[e] \ WithEscalation)
<1>1. /\ alerts' = [o \in Originals |-> IF o \in written THEN alerts[o] + 1 ELSE alerts[o]]
      /\ breached' = breached \cup marked
      /\ epc[e] = "escalating" /\ Ends(e) /\ overlaps' = overlaps
  BY DEF Escalate, Escalates
<1>2. written \subseteq found[e] \cap WithEscalation
  BY DEF Escalatable
<1>3. ASSUME Apart("escalate") PROVE AlertedOnce'
  <2>1. found[e] \cap breached = {} /\ AlertedOnce
    BY <1>3 DEF EscalationInv, FoundIsOpen
  <2> SUFFICES ASSUME NEW o \in WithEscalation
               PROVE  alerts'[o] = IF o \in breached' THEN 1 ELSE 0
    BY DEF AlertedOnce
  <2>2. o \in Originals /\ alerts[o] = IF o \in breached THEN 1 ELSE 0
    BY <2>1, OutboxAssumption DEF AlertedOnce
  <2>3. o \in marked <=> o \in written
    BY <1>2
  <2> QED
    BY <1>1, <1>2, <2>1, <2>2, <2>3
<1> QED
  BY <1>1, <1>3, EndKeepsEscalationInv

LEMMA ReadKeepsEscalationInv ==
    ASSUME OutboxTypeOK, EscalationInv, NEW e \in Escalators, ReadCandidates(e)
    PROVE  EscalationInv'
<1>1. PICK open \in SUBSET (Originals \ breached) :
        /\ found' = [found EXCEPT ![e] = open] /\ epc' = [epc EXCEPT ![e] = "escalating"]
        /\ breached' = breached /\ alerts' = alerts
  BY DEF ReadCandidates
<1>2. /\ epc \in [Escalators -> {"idle", "escalating"}]
      /\ found \in [Escalators -> SUBSET Originals]
      /\ overlaps \in [{"dispatch", "escalate"} -> 0..MaxOverlaps]
  BY DEF OutboxTypeOK
<1>3. IF \E f \in Escalators : epc[f] # "idle"
        THEN overlaps' = [overlaps EXCEPT !["escalate"] = @ + 1]
        ELSE overlaps' = overlaps
  BY DEF ReadCandidates, Starts
<1>4. FoundOnlyAtWork'
  BY <1>1, <1>2 DEF EscalationInv, FoundOnlyAtWork
<1>5. ASSUME Apart("escalate")' PROVE OneEscalation' /\ FoundIsOpen' /\ AlertedOnce'
  <2>1. Apart("escalate") /\ \A f \in Escalators : epc[f] = "idle"
    <3>1. CASE \E f \in Escalators : epc[f] # "idle"
      <4>1. overlaps'["escalate"] = overlaps["escalate"] + 1 /\ overlaps["escalate"] \in Nat
        BY <1>2, <1>3, <3>1, OutboxAssumption
      <4> QED
        BY <1>5, <4>1 DEF Apart
    <3>2. CASE ~\E f \in Escalators : epc[f] # "idle"
      BY <1>3, <1>5, <3>2 DEF Apart
    <3> QED
      BY <3>1, <3>2
  <2>2. OneEscalation'
    BY <1>1, <1>2, <2>1 DEF OneEscalation
  <2>3. FoundIsOpen'
    BY <1>1, <1>2, <2>1 DEF EscalationInv, FoundIsOpen
  <2>4. AlertedOnce'
    BY <1>1, <2>1 DEF EscalationInv, AlertedOnce
  <2> QED
    BY <2>2, <2>3, <2>4
<1> QED
  BY <1>4, <1>5 DEF EscalationInv

LEMMA EscalationInvStep ==
    ASSUME OutboxTypeOK, EscalationInv, [OutboxNext]_outboxVars
    PROVE  EscalationInv'
<1>1. CASE UNCHANGED outboxVars
  BY <1>1, UnescalatingKeeps DEF outboxVars, outboxHistory, Unescalating
<1>2. CASE Others
  BY <1>2, OthersAreQuiet, UnescalatingKeeps
<1>3. ASSUME NEW d \in Dispatchers, Dispatch(d) \/ DispatchStops(d) PROVE EscalationInv'
  <2>1. Unescalating
    <3>1. ASSUME NEW n \in Notices, SkipUnroutable(d, n) PROVE Unescalating
      BY <3>1, SkipEffect DEF Skips
    <3>2. ASSUME NEW n \in Notices, Attempt(d, n) PROVE Unescalating
      BY <3>2, AttemptEffect
    <3>3. ASSUME NEW n \in Notices, Delivered(d, n) \/ NotDelivered(d, n) PROVE Unescalating
      BY <3>3, DeliveredEffect, NotDeliveredEffect DEF Outcomes
    <3>4. ASSUME NEW delivered \in BOOLEAN, Send(d, delivered) PROVE Unescalating
      BY <3>4, SendEffect
    <3>5. ListPending(d) \/ DispatchStops(d) => Unescalating
      BY ListEffect, StopEffect
    <3> QED
      BY <1>3, <3>1, <3>2, <3>3, <3>4, <3>5 DEF Dispatch
  <2> QED
    BY <2>1, UnescalatingKeeps
<1>4. ASSUME NEW e \in Escalators, Escalation(e) \/ EscalationStops(e) PROVE EscalationInv'
  <2>1. CASE EscalationStops(e)
    <3>1. Ends(e) /\ epc[e] # "idle" /\ overlaps' = overlaps
          /\ breached' = breached /\ alerts' = alerts
      BY <2>1 DEF EscalationStops
    <3>2. Apart("escalate") => AlertedOnce'
      BY <3>1 DEF EscalationInv, AlertedOnce
    <3> QED
      BY <3>1, <3>2, EndKeepsEscalationInv
  <2> QED
    BY <1>4, <2>1, EscalateKeepsEscalationInv, ReadKeepsEscalationInv DEF Escalation
<1> QED
  BY <1>1, <1>2, <1>3, <1>4 DEF OutboxNext, Others

(* While the lock of the job keeps its executions apart, a breach that has *)
(* an escalation is marked exactly when its alert was queued, and it is    *)
(* queued once (EscalateBreachedSlasUseCase).                              *)
THEOREM BreachesEscalateOnce == OutboxSpec => []BreachIsEscalatedOnce
<1>1. EscalationInv => BreachIsEscalatedOnce
  BY DEF EscalationInv, BreachIsEscalatedOnce, AlertedOnce
<1> QED
  BY <1>1, InitTypes, NextKeepsTypes, EscalationInit, EscalationInvStep, PTL DEF OutboxSpec

-----------------------------------------------------------------------------
(* The outbox implements NoticeDelivery                                    *)

BeingSent(n) == \E d \in Dispatchers : n \in sending[d]

(* The phase a row is in, here and after a step. *)
LEMMA PhaseIs ==
    ASSUME NEW n \in Notices
    PROVE  /\ log[n].status = "ABSENT" => Phase(n) = "absent"
           /\ log[n].status = "SENT" => Phase(n) = "sent"
           /\ log[n].status = "FAILED" => Phase(n) = "failed"
           /\ log[n].status = "SKIPPED" => Phase(n) = "skipped"
           /\ log[n].status = "PENDING" /\ BeingSent(n) => Phase(n) = "trying"
           /\ log[n].status = "PENDING" /\ ~BeingSent(n) => Phase(n) = "waiting"
  BY DEF Phase, BeingSent

LEMMA PhaseWillBe ==
    ASSUME NEW n \in Notices
    PROVE  /\ log'[n].status = "ABSENT" => Phase(n)' = "absent"
           /\ log'[n].status = "SENT" => Phase(n)' = "sent"
           /\ log'[n].status = "FAILED" => Phase(n)' = "failed"
           /\ log'[n].status = "SKIPPED" => Phase(n)' = "skipped"
           /\ log'[n].status = "PENDING" /\ BeingSent(n)' => Phase(n)' = "trying"
           /\ log'[n].status = "PENDING" /\ ~BeingSent(n)' => Phase(n)' = "waiting"
  BY DEF Phase, BeingSent

LEMMA PhaseStays ==
    ASSUME NEW n \in Notices, log'[n] = log[n], BeingSent(n)' <=> BeingSent(n)
    PROVE  Phase(n)' = Phase(n) /\ log'[n].attempts = log[n].attempts
  BY DEF Phase, BeingSent

(* A step that moves one notice. *)
LEMMA OneMoves ==
    ASSUME NEW n \in Notices, NEW from, NEW to, Phase(n) = from, Phase(n)' = to,
           \A m \in Notices : m # n => Phase(m)' = Phase(m)
    PROVE  Delivery!Moves(n, from, to)
  BY DEF Delivery!Moves

LEMMA TriesStay ==
    ASSUME \A m \in Notices : log'[m].attempts = log[m].attempts
    PROVE  [m \in Notices |-> log[m].attempts]' = [m \in Notices |-> log[m].attempts]
  OBVIOUS

LEMMA DeliveryInit == OutboxInit => Delivery!Init
<1> SUFFICES ASSUME OutboxInit PROVE Delivery!Init
  OBVIOUS
<1>1. \A n \in Notices : Phase(n) = "absent" /\ log[n].attempts = 0
  BY PhaseIs DEF OutboxInit
<1>2. Apart("dispatch") = TRUE
  BY DEF OutboxInit, Apart
<1> QED
  BY <1>1, <1>2 DEF Delivery!Init
PhasesStay ==
    \A n \in Notices : Phase(n)' = Phase(n) /\ log'[n].attempts = log[n].attempts

(* What a step of the outbox is for the promise, while the executions are  *)
(* apart.                                                                  *)
Promised ==
    \/ \E new \in SUBSET Notices : Delivery!Queue(new)
    \/ \E n \in Notices : Delivery!Serve(n)
    \/ PhasesStay

LEMMA SentByOne ==
    ASSUME OutboxTypeOK, Serial, NEW d \in Dispatchers, dpc[d] # "idle", OthersKeep(d),
           NEW n \in Notices
    PROVE  (BeingSent(n) <=> n \in sending[d]) /\ (BeingSent(n)' <=> n \in sending'[d])
  BY OthersAreIdle DEF Serial, BeingSent, RestIdle

LEMMA QuietIsPromised ==
    ASSUME OutboxTypeOK, Quiet
    PROVE  Promised
<1> DEFINE new == {n \in Notices : log'[n] # log[n]}
<1>1. \A n \in Notices : BeingSent(n)' <=> BeingSent(n)
  BY DEF Quiet, BeingSent
<1>2. \A n \in Notices : BeingSent(n) => log[n].status # "ABSENT"
  BY DEF OutboxTypeOK, BeingSent
<1>3. ASSUME NEW n \in Notices, n \in new PROVE Phase(n) = "absent" /\ Phase(n)' = "waiting"
  <2>1. log[n].status = "ABSENT" /\ log'[n].status = "PENDING"
    BY <1>3 DEF Quiet, Queues
  <2> QED
    BY <1>1, <1>2, <2>1, PhaseIs, PhaseWillBe
<1>4. ASSUME NEW n \in Notices, n \notin new PROVE Phase(n)' = Phase(n)
  BY <1>1, <1>4, PhaseStays
<1>5. \A n \in Notices : log'[n].attempts = log[n].attempts
  BY DEF Quiet, Queues
<1>6. Delivery!Queue(new)
  <2> HIDE DEF new
  <2>1. [n \in Notices |-> Phase(n)]'
          = [n \in Notices |-> IF n \in new THEN "waiting" ELSE [k \in Notices |-> Phase(k)][n]]
    BY <1>3, <1>4
  <2>2. \A n \in new : [k \in Notices |-> Phase(k)][n] = "absent"
    BY <1>3 DEF new
  <2> QED
    BY <2>1, <2>2, <1>5 DEF Delivery!Queue
<1>7. new \in SUBSET Notices
  OBVIOUS
<1> QED
  BY <1>6, <1>7 DEF Promised

LEMMA SkipIsPromised ==
    ASSUME OutboxTypeOK, Serial, NEW d \in Dispatchers, NEW n \in Notices, SkipUnroutable(d, n)
    PROVE  Promised
<1>1. Skips(d, n)
  BY SkipEffect
<1>2. /\ OthersKeep(d) /\ dpc[d] = "draining" /\ n \in batch[d] /\ sending'[d] = {}
      /\ log'[n].status = "SKIPPED" /\ log'[n].attempts = seen[d][n]
      /\ \A m \in Notices : m # n => log'[m] = log[m]
  BY <1>1 DEF Skips
<1>3. sending[d] = {} /\ log[n].status = "PENDING" /\ log[n].attempts = seen[d][n]
  BY <1>2, SerialOfWorking DEF OutboxTypeOK
<1>4. \A m \in Notices : ~BeingSent(m) /\ ~BeingSent(m)'
  BY <1>2, <1>3, SentByOne
<1>5. Phase(n) = "waiting" /\ Phase(n)' = "skipped"
  BY <1>2, <1>3, <1>4, PhaseIs, PhaseWillBe
<1>6. \A m \in Notices : m # n => Phase(m)' = Phase(m)
  BY <1>2, <1>4, PhaseStays
<1>7. \A m \in Notices : log'[m].attempts = log[m].attempts
  BY <1>2, <1>3
<1>8. Delivery!Moves(n, "waiting", "skipped")
  BY <1>5, <1>6, OneMoves
<1> QED
  BY <1>7, <1>8 DEF Promised, Delivery!Serve, Delivery!Skip

LEMMA AttemptIsPromised ==
    ASSUME OutboxTypeOK, Serial, NEW d \in Dispatchers, NEW n \in Notices, Attempt(d, n)
    PROVE  Promised
<1>1. /\ OthersKeep(d) /\ dpc[d] = "draining" /\ n \in batch[d] /\ sending'[d] = {n}
      /\ log'[n].status = "PENDING" /\ log'[n].attempts = seen[d][n] + 1
      /\ \A m \in Notices : m # n => log'[m] = log[m]
  BY AttemptEffect
<1>2. sending[d] = {} /\ log[n].status = "PENDING" /\ log[n].attempts = seen[d][n]
  BY <1>1, SerialOfWorking DEF OutboxTypeOK
<1>3. \A m \in Notices : ~BeingSent(m) /\ (BeingSent(m)' <=> m = n)
  BY <1>1, <1>2, SentByOne
<1>4. Phase(n) = "waiting" /\ Phase(n)' = "trying"
  BY <1>1, <1>2, <1>3, PhaseIs, PhaseWillBe
<1>5. \A m \in Notices : m # n => Phase(m)' = Phase(m)
  BY <1>1, <1>3, PhaseStays
<1>6. log'[n].attempts = log[n].attempts + 1
      /\ \A m \in Notices : m # n => log'[m].attempts = log[m].attempts
  BY <1>1, <1>2
<1>7. Delivery!Moves(n, "waiting", "trying")
  BY <1>4, <1>5, OneMoves
<1>8. [m \in Notices |-> log[m].attempts]'
        = [[m \in Notices |-> log[m].attempts] EXCEPT ![n] = @ + 1]
  BY <1>6
<1> QED
  BY <1>7, <1>8 DEF Promised, Delivery!Serve, Delivery!Try

LEMMA OutcomeIsPromised ==
    ASSUME OutboxTypeOK, Serial, NEW d \in Dispatchers, NEW n \in Notices,
           \/ Outcomes(d, n, "SENT") \/ Outcomes(d, n, "PENDING")
           \/ Outcomes(d, n, "FAILED") /\ seen[d][n] + 1 >= OutboxAttempts
    PROVE  Promised
<1>1. PICK outcome \in {"SENT", "PENDING", "FAILED"} :
        /\ Outcomes(d, n, outcome)
        /\ outcome = "FAILED" => seen[d][n] + 1 >= OutboxAttempts
  OBVIOUS
<1>2. /\ OthersKeep(d) /\ dpc[d] = "answered" /\ n \in sending[d] /\ sending'[d] = {}
      /\ log'[n].status = outcome /\ log'[n].attempts = seen[d][n] + 1
      /\ \A m \in Notices : m # n => log'[m] = log[m]
  BY <1>1 DEF Outcomes
<1>3. /\ \A m \in sending[d] : m = n
      /\ log[n].status = "PENDING" /\ log[n].attempts = seen[d][n] + 1
  BY <1>2, SerialOfWorking DEF OutboxTypeOK
<1>4. \A m \in Notices : (BeingSent(m) <=> m = n) /\ ~BeingSent(m)'
  BY <1>2, <1>3, SentByOne
<1>5. /\ Phase(n) = "trying"
      /\ outcome = "SENT" => Phase(n)' = "sent"
      /\ outcome = "PENDING" => Phase(n)' = "waiting"
      /\ outcome = "FAILED" => Phase(n)' = "failed"
  BY <1>2, <1>3, <1>4, PhaseIs, PhaseWillBe
<1>6. \A m \in Notices : m # n => Phase(m)' = Phase(m)
  BY <1>2, <1>4, PhaseStays
<1>7. [m \in Notices |-> log[m].attempts]' = [m \in Notices |-> log[m].attempts]
  BY <1>2, <1>3
<1>8. CASE outcome = "SENT"
  <2>1. Delivery!Moves(n, "trying", "sent")
    BY <1>5, <1>6, <1>8, OneMoves
  <2> QED
    BY <1>7, <2>1 DEF Promised, Delivery!Serve, Delivery!Confirm
<1>9. CASE outcome = "PENDING"
  <2>1. Delivery!Moves(n, "trying", "waiting")
    BY <1>5, <1>6, <1>9, OneMoves
  <2> QED
    BY <1>7, <2>1 DEF Promised, Delivery!Serve, Delivery!TryAgain
<1>10. CASE outcome = "FAILED"
  <2>1. Delivery!Moves(n, "trying", "failed")
    BY <1>5, <1>6, <1>10, OneMoves
  <2>2. [m \in Notices |-> log[m].attempts][n] >= OutboxAttempts
    BY <1>1, <1>3, <1>10
  <2> QED
    BY <1>7, <2>1, <2>2 DEF Promised, Delivery!Serve, Delivery!GiveUp
<1> QED
  BY <1>8, <1>9, <1>10

LEMMA StopIsPromised ==
    ASSUME OutboxTypeOK, Serial, NEW d \in Dispatchers, DispatchStops(d)
    PROVE  Promised
<1>1. OthersKeep(d) /\ dpc[d] # "idle" /\ sending'[d] = {} /\ log' = log
  BY StopEffect
<1>2. \A m \in Notices : (BeingSent(m) <=> m \in sending[d]) /\ ~BeingSent(m)'
  BY <1>1, SentByOne
<1>3. CASE sending[d] = {}
  <2>1. PhasesStay
    BY <1>1, <1>2, <1>3, PhaseStays DEF PhasesStay
  <2> QED
    BY <2>1 DEF Promised
<1>4. ASSUME NEW n \in sending[d] PROVE Promised
  <2>1. /\ n \in Notices /\ log[n].status = "PENDING" /\ \A m \in sending[d] : m = n
    BY <1>1, SerialOfWorking DEF OutboxTypeOK
  <2>2. Phase(n) = "trying" /\ Phase(n)' = "waiting"
    BY <1>1, <1>2, <2>1, PhaseIs, PhaseWillBe
  <2>3. \A m \in Notices : m # n => Phase(m)' = Phase(m)
    BY <1>1, <1>2, <2>1, PhaseStays
  <2>4. Delivery!Moves(n, "trying", "waiting")
    BY <2>1, <2>2, <2>3, OneMoves
  <2>5. [m \in Notices |-> log[m].attempts]' = [m \in Notices |-> log[m].attempts]
    BY <1>1
  <2> QED
    BY <2>1, <2>4, <2>5 DEF Promised, Delivery!Serve, Delivery!TryAgain
<1> QED
  BY <1>3, <1>4

LEMMA NextIsPromised ==
    ASSUME OutboxTypeOK, Serial, OutboxNext
    PROVE  Promised
<1>1. ASSUME Quiet PROVE Promised
  BY <1>1, QuietIsPromised
<1>2. ASSUME NEW d \in Dispatchers, Dispatch(d) \/ DispatchStops(d) PROVE Promised
  <2>1. ASSUME log' = log, sending' = sending PROVE Promised
    <3>1. \A n \in Notices : BeingSent(n)' <=> BeingSent(n)
      BY <2>1 DEF BeingSent
    <3>2. PhasesStay
      BY <2>1, <3>1, PhaseStays DEF PhasesStay
    <3> QED
      BY <3>2 DEF Promised
  <2>2. CASE ListPending(d)
    BY <2>1, <2>2, ListEffect
  <2>3. ASSUME NEW n \in Notices, SkipUnroutable(d, n) \/ Attempt(d, n) PROVE Promised
    BY <2>3, SkipIsPromised, AttemptIsPromised
  <2>4. ASSUME NEW delivered \in BOOLEAN, Send(d, delivered) PROVE Promised
    BY <2>1, <2>4, SendEffect
  <2>5. ASSUME NEW n \in Notices, Delivered(d, n) PROVE Promised
    BY <2>5, DeliveredEffect, OutcomeIsPromised
  <2>6. ASSUME NEW n \in Notices, NotDelivered(d, n) PROVE Promised
    <3>1. Outcomes(d, n, AfterFailure(d, n))
      BY <2>6, NotDeliveredEffect
    <3>2. \/ AfterFailure(d, n) = "PENDING"
          \/ AfterFailure(d, n) = "FAILED" /\ seen[d][n] + 1 >= OutboxAttempts
      BY DEF AfterFailure
    <3> QED
      BY <3>1, <3>2, OutcomeIsPromised
  <2>7. CASE DispatchStops(d)
    BY <2>7, StopIsPromised
  <2> QED
    BY <1>2, <2>2, <2>3, <2>4, <2>5, <2>6, <2>7 DEF Dispatch
<1> QED
  BY <1>1, <1>2, OthersAreQuiet, EscalationsAreQuiet DEF OutboxNext, Others

LEMMA DeliveryStep ==
    ASSUME OutboxTypeOK, SerialInv, [OutboxNext]_outboxVars
    PROVE  [Delivery!Next]_<<Delivery!promise, Apart("dispatch")>>
<1>1. CASE UNCHANGED outboxVars
  <2>1. log' = log /\ sending' = sending /\ overlaps' = overlaps
    BY <1>1 DEF outboxVars, dispatchVars, outboxHistory
  <2> QED
    BY <2>1 DEF Delivery!promise, Phase, Apart
<1>2. CASE OutboxNext /\ ~Apart("dispatch")'
  BY <1>2 DEF Delivery!Next
<1>3. CASE OutboxNext /\ Apart("dispatch")'
  <2>1. Apart("dispatch") /\ Serial
    BY <1>3, OverlapStays DEF SerialInv
  <2>2. Promised
    BY <1>3, <2>1, NextIsPromised
  <2>3. CASE PhasesStay
    <3>1. /\ [n \in Notices |-> Phase(n)]' = [n \in Notices |-> Phase(n)]
          /\ [n \in Notices |-> log[n].attempts]' = [n \in Notices |-> log[n].attempts]
      BY <2>3 DEF PhasesStay
    <3>2. Apart("dispatch")' = Apart("dispatch")
      BY <1>3, <2>1 DEF Apart
    <3> QED
      BY <3>1, <3>2 DEF Delivery!promise
  <2> QED
    BY <1>3, <2>1, <2>2, <2>3 DEF Promised, Delivery!Next
<1> QED
  BY <1>1, <1>2, <1>3

(* The outbox does what NoticeDelivery promises: every try is counted      *)
(* before it is made, a notice is sent only by a confirmed try and failed  *)
(* only with its budget spent, whatever stops in between.                  *)
THEOREM OutboxDeliversAsPromised == OutboxSpec => DeliversAsPromised
<1>1. OutboxInit => SerialInv
  BY SerialInit DEF SerialInv
<1> QED
  BY <1>1, InitTypes, NextKeepsTypes, SerialInvStep, DeliveryInit, DeliveryStep, PTL
     DEF OutboxSpec, DeliversAsPromised, Delivery!Spec

(* What follows from the promise alone: an end was reached by trying.      *)
SettledOnItsTries ==
    Apart("dispatch") => \A n \in Notices :
        /\ log[n].status = "SENT" => log[n].attempts >= 1
        /\ log[n].status = "FAILED" => log[n].attempts >= OutboxAttempts

(* The same while a try is under way: the inductive form of it.            *)
TriesBack ==
    Apart("dispatch") => \A n \in Notices :
        /\ log[n].attempts \in Nat
        /\ Phase(n) \in {"trying", "sent"} => log[n].attempts >= 1
        /\ Phase(n) = "failed" => log[n].attempts >= OutboxAttempts

(* What a step of the promise may do to one notice. *)
NoticeGoes(n) ==
    \/ Phase(n)' = Phase(n) /\ log'[n].attempts = log[n].attempts
    \/ /\ Phase(n) = "absent" /\ Phase(n)' = "waiting" /\ log'[n].attempts = log[n].attempts
    \/ /\ Phase(n) = "waiting" /\ Phase(n)' = "trying" /\ log'[n].attempts = log[n].attempts + 1
    \/ /\ Phase(n) = "waiting" /\ Phase(n)' = "skipped" /\ log'[n].attempts = log[n].attempts
    \/ /\ Phase(n) = "trying" /\ Phase(n)' \in {"sent", "waiting"}
       /\ log'[n].attempts = log[n].attempts
    \/ /\ Phase(n) = "trying" /\ Phase(n)' = "failed" /\ log[n].attempts >= OutboxAttempts
       /\ log'[n].attempts = log[n].attempts

LEMMA PromisedMoves ==
    ASSUME [Delivery!Next]_<<Delivery!promise, Apart("dispatch")>>, Apart("dispatch")'
    PROVE  Apart("dispatch") /\ \A n \in Notices : NoticeGoes(n)
<1> DEFINE p == [n \in Notices |-> Phase(n)]
           t == [n \in Notices |-> log[n].attempts]
<1>1. \A n \in Notices : /\ p[n] = Phase(n) /\ t[n] = log[n].attempts
                         /\ p'[n] = Phase(n)' /\ t'[n] = log'[n].attempts
  OBVIOUS
<1>2. CASE UNCHANGED <<Delivery!promise, Apart("dispatch")>>
  <2>1. p' = p /\ t' = t /\ Apart("dispatch")' = Apart("dispatch")
    BY <1>2 DEF Delivery!promise
  <2> HIDE DEF p, t
  <2> QED
    BY <1>1, <2>1 DEF NoticeGoes
<1>3. ASSUME NEW new \in SUBSET Notices, Delivery!Queue(new)
      PROVE  \A n \in Notices : NoticeGoes(n)
  <2>1. /\ \A n \in new : p[n] = "absent"
        /\ p' = [n \in Notices |-> IF n \in new THEN "waiting" ELSE p[n]]
        /\ t' = t
    BY <1>3 DEF Delivery!Queue
  <2> HIDE DEF p, t
  <2> QED
    BY <1>1, <2>1 DEF NoticeGoes
<1>4. ASSUME NEW m \in Notices, Delivery!Serve(m)
      PROVE  \A n \in Notices : NoticeGoes(n)
  <2>1. \/ /\ p[m] = "waiting" /\ p' = [p EXCEPT ![m] = "trying"]
           /\ t' = [t EXCEPT ![m] = @ + 1]
        \/ p[m] = "trying" /\ p' = [p EXCEPT ![m] = "sent"] /\ t' = t
        \/ p[m] = "trying" /\ p' = [p EXCEPT ![m] = "failed"] /\ t' = t /\ t[m] >= OutboxAttempts
        \/ p[m] = "trying" /\ p' = [p EXCEPT ![m] = "waiting"] /\ t' = t
        \/ p[m] = "waiting" /\ p' = [p EXCEPT ![m] = "skipped"] /\ t' = t
    BY <1>4 DEF Delivery!Serve, Delivery!Try, Delivery!Confirm, Delivery!GiveUp,
           Delivery!TryAgain, Delivery!Skip, Delivery!Moves
  <2>2. p = [n \in Notices |-> p[n]] /\ t = [n \in Notices |-> t[n]]
    OBVIOUS
  <2> HIDE DEF p, t
  <2>3. /\ \A n \in Notices : n # m => p'[n] = p[n] /\ t'[n] = t[n]
        /\ \/ p[m] = "waiting" /\ p'[m] = "trying" /\ t'[m] = t[m] + 1
           \/ p[m] = "trying" /\ p'[m] \in {"sent", "waiting"} /\ t'[m] = t[m]
           \/ p[m] = "trying" /\ p'[m] = "failed" /\ t'[m] = t[m] /\ t[m] >= OutboxAttempts
           \/ p[m] = "waiting" /\ p'[m] = "skipped" /\ t'[m] = t[m]
    BY <2>1, <2>2
  <2> QED
    BY <1>1, <2>3 DEF NoticeGoes
<1>5. CASE Delivery!Next
  BY <1>3, <1>4, <1>5 DEF Delivery!Next
<1> QED
  BY <1>2, <1>5 DEF Delivery!Next

LEMMA TriesBackStarts == Delivery!Init => TriesBack
<1> SUFFICES ASSUME Delivery!Init PROVE TriesBack
  OBVIOUS
<1> DEFINE p == [n \in Notices |-> Phase(n)]
           t == [n \in Notices |-> log[n].attempts]
<1>1. p = [n \in Notices |-> "absent"] /\ t = [n \in Notices |-> 0]
  BY DEF Delivery!Init
<1>2. \A n \in Notices : p[n] = Phase(n) /\ t[n] = log[n].attempts
  OBVIOUS
<1> HIDE DEF p, t
<1> QED
  BY <1>1, <1>2 DEF TriesBack

LEMMA TriesBackStep ==
    ASSUME TriesBack, [Delivery!Next]_<<Delivery!promise, Apart("dispatch")>>
    PROVE  TriesBack'
<1> SUFFICES ASSUME Apart("dispatch")', NEW n \in Notices
             PROVE  /\ log'[n].attempts \in Nat
                    /\ Phase(n)' \in {"trying", "sent"} => log'[n].attempts >= 1
                    /\ Phase(n)' = "failed" => log'[n].attempts >= OutboxAttempts
  BY DEF TriesBack
<1>1. NoticeGoes(n) /\ Apart("dispatch")
  BY PromisedMoves
<1> QED
  BY <1>1 DEF NoticeGoes, TriesBack

(* As long as the lock keeps the dispatches apart, a notice is SENT after  *)
(* a counted try at least and FAILED only with its budget spent: it follows*)
(* from what NoticeDelivery promises, not from how the outbox keeps it.    *)
THEOREM NoticesSettleOnTheirTries == OutboxSpec => []SettledOnItsTries
<1>1. DeliversAsPromised => []TriesBack
  BY TriesBackStarts, TriesBackStep, PTL DEF DeliversAsPromised, Delivery!Spec
<1>2. TriesBack => SettledOnItsTries
  BY PhaseIs DEF TriesBack, SettledOnItsTries
<1> QED
  BY <1>1, <1>2, OutboxDeliversAsPromised, PTL

(* And what is settled stays as it is: no step reopens a notice that was   *)
(* sent, given up or skipped, as long as the lock holds.                   *)
THEOREM SettledNoticesStay ==
    OutboxSpec => [][Apart("dispatch")' => \A n \in Notices :
                         Ended(n) => log'[n].status = log[n].status]_outboxVars
<1>1. ASSUME OutboxTypeOK', [Delivery!Next]_<<Delivery!promise, Apart("dispatch")>>
      PROVE  Apart("dispatch")' => \A n \in Notices :
                 Ended(n) => log'[n].status = log[n].status
  <2> SUFFICES ASSUME Apart("dispatch")', NEW n \in Notices, Ended(n)
               PROVE  log'[n].status = log[n].status
    OBVIOUS
  <2>1. Phase(n)' = Phase(n)
    BY <1>1, PromisedMoves, PhaseIs DEF Ended, NoticeGoes
  <2>2. log'[n].status \in {"ABSENT", "PENDING", "SENT", "FAILED", "SKIPPED"}
    BY <1>1 DEF OutboxTypeOK, Rows, Statuses
  <2> QED
    BY <2>1, <2>2, PhaseIs, PhaseWillBe DEF Ended
<1> QED
  BY <1>1, OutboxTypeCorrect, OutboxDeliversAsPromised, PTL DEF DeliversAsPromised, Delivery!Spec

-----------------------------------------------------------------------------
(* The administration of users. *)

(* At most one request is past the lock. *)
LockHeldByOne == \A a, b \in tenantLock : a = b

(* What a request counted is still so. *)
CountStands == \A a \in Admins : apc[a] = "counted" => \A q \in asked[a] : ~Refused(q)

OwnersInv == OwnersTypeOK /\ LockHeldByOne /\ CountStands /\ TenantKeepsAnOwner

LEMMA OwnersInitInv == OwnersInit => OwnersInv
<1> SUFFICES ASSUME OwnersInit PROVE OwnersInv
  OBVIOUS
<1> USE OwnersAssumption DEF OwnersInit
<1>1. OwnersTypeOK
  BY FS_EmptySet DEF OwnersTypeOK, Roles, UserStatuses
<1>2. LockHeldByOne /\ CountStands
  BY DEF LockHeldByOne, CountStands
<1>3. Founder \in ActiveOwners
  BY DEF ActiveOwners, IsOwner
<1> QED
  BY <1>1, <1>2, <1>3 DEF OwnersInv, TenantKeepsAnOwner

(* A request that ends leaves the others as they are. *)
LEMMA EndKeepsTypes ==
    ASSUME OwnersTypeOK, NEW a \in Admins, EndsRequest(a),
           role' \in [Users -> Roles], status' \in [Users -> UserStatuses],
           \A u \in Users : status[u] # "ABSENT" => status'[u] # "ABSENT"
    PROVE  OwnersTypeOK'
<1> USE DEF OwnersTypeOK, EndsRequest, EndsWith
<1>1. /\ tenantLock' \subseteq Admins
      /\ apc' \in [Admins -> {"idle", "waiting", "locked", "counted"}]
      /\ asked' \in [Admins -> SUBSET Requests]
  OBVIOUS
<1>2. ASSUME NEW b \in Admins
      PROVE  /\ b \in tenantLock' <=> apc'[b] \in {"locked", "counted"}
             /\ Cardinality(asked'[b]) = IF apc'[b] = "idle" THEN 0 ELSE 1
             /\ \A q \in asked'[b] : status'[q.target] # "ABSENT"
  <2>1. CASE b = a
    BY <2>1, FS_EmptySet
  <2>2. CASE b # a
    <3>1. asked'[b] = asked[b] /\ apc'[b] = apc[b] /\ (b \in tenantLock' <=> b \in tenantLock)
      BY <2>2
    <3>2. \A q \in asked[b] : q.target \in Users
      BY DEF Requests
    <3> QED
      BY <3>1, <3>2
  <2> QED
    BY <2>1, <2>2
<1> QED
  BY <1>1, <1>2

LEMMA CreateKeepsInv ==
    ASSUME OwnersInv, NEW u \in Users, NEW r \in Roles, CreateUser(u, r)
    PROVE  OwnersInv'
<1> USE DEF OwnersInv
<1>1. /\ status[u] = "ABSENT"
      /\ role' = [role EXCEPT ![u] = r] /\ status' = [status EXCEPT ![u] = "ACTIVE"]
      /\ tenantLock' = tenantLock /\ apc' = apc /\ asked' = asked
  BY DEF CreateUser
<1>2. OwnersTypeOK'
  BY <1>1 DEF OwnersTypeOK, UserStatuses, Requests
<1>3. ActiveOwners \subseteq ActiveOwners'
  BY <1>1 DEF ActiveOwners, IsOwner, OwnersTypeOK
<1>4. ASSUME NEW a \in Admins, apc[a] = "counted", NEW q \in asked[a], Refused(q)'
      PROVE  FALSE
  <2>1. q.target \in Users /\ q.target # u
    BY <1>1, <1>4 DEF OwnersTypeOK, Requests
  <2>2. role'[q.target] = role[q.target] /\ status'[q.target] = status[q.target]
    BY <1>1, <2>1 DEF OwnersTypeOK
  <2>3. q.target \in ActiveOwners /\ ~IsOwner(NewRole(q), NewStatus(q))
    BY <1>4, <2>1, <2>2 DEF Refused, ActiveOwners, NewRole, NewStatus
  <2>4. ActiveOwners \ {q.target} = {}
    BY <1>3, <1>4 DEF Refused
  <2> QED
    BY <1>4, <2>3, <2>4 DEF Refused, CountStands
<1>5. CountStands'
  BY <1>1, <1>4 DEF CountStands
<1> QED
  BY <1>1, <1>2, <1>3, <1>5 DEF LockHeldByOne, TenantKeepsAnOwner

LEMMA AskKeepsInv ==
    ASSUME OwnersInv, NEW a \in Admins, NEW q \in Requests, Ask(a, q)
    PROVE  OwnersInv'
<1> USE DEF OwnersInv
<1>1. /\ apc[a] = "idle" /\ status[q.target] # "ABSENT"
      /\ asked' = [asked EXCEPT ![a] = {q}] /\ apc' = [apc EXCEPT ![a] = "waiting"]
      /\ role' = role /\ status' = status /\ tenantLock' = tenantLock
  BY DEF Ask
<1>2. Cardinality({q}) = 1
  BY FS_Singleton
<1>3. OwnersTypeOK'
  BY <1>1, <1>2 DEF OwnersTypeOK
<1>4. CountStands'
  <2> SUFFICES ASSUME NEW b \in Admins, apc'[b] = "counted", NEW p \in asked'[b]
               PROVE  ~Refused(p)'
    BY DEF CountStands
  <2>1. b # a /\ apc[b] = "counted" /\ p \in asked[b]
    BY <1>1 DEF OwnersTypeOK
  <2>2. Refused(p)' <=> Refused(p)
    BY <1>1 DEF Refused, ActiveOwners, NewRole, NewStatus
  <2> QED
    BY <2>1, <2>2 DEF CountStands
<1>5. ActiveOwners' = ActiveOwners
  BY <1>1 DEF ActiveOwners
<1> QED
  BY <1>1, <1>3, <1>4, <1>5 DEF LockHeldByOne, TenantKeepsAnOwner

LEMMA LockKeepsInv ==
    ASSUME OwnersInv, NEW a \in Admins, LockTenant(a)
    PROVE  OwnersInv'
<1> USE DEF OwnersInv
<1>1. /\ tenantLock = {} /\ apc[a] = "waiting"
      /\ tenantLock' = tenantLock \cup {a} /\ apc' = [apc EXCEPT ![a] = "locked"]
      /\ role' = role /\ status' = status /\ asked' = asked
  BY DEF LockTenant, Locks
<1>2. OwnersTypeOK'
  BY <1>1 DEF OwnersTypeOK
<1>3. \A b \in Admins : apc'[b] # "counted"
  BY <1>1 DEF OwnersTypeOK
<1>4. ActiveOwners' = ActiveOwners
  BY <1>1 DEF ActiveOwners
<1> QED
  BY <1>1, <1>2, <1>3, <1>4 DEF LockHeldByOne, CountStands, TenantKeepsAnOwner

(* Of the requests that remain, none has counted when one that held the    *)
(* lock ends.                                                              *)
LEMMA EndKeepsInv ==
    ASSUME OwnersInv, NEW a \in Admins, EndsRequest(a), OwnersTypeOK',
           ActiveOwners' # {},
           a \in tenantLock \/ (role' = role /\ status' = status)
    PROVE  OwnersInv'
<1> USE DEF OwnersInv
<1>1. /\ tenantLock' = tenantLock \ {a}
      /\ apc' = [apc EXCEPT ![a] = "idle"] /\ asked' = [asked EXCEPT ![a] = {}]
  BY DEF EndsRequest, EndsWith
<1>2. LockHeldByOne'
  BY <1>1 DEF LockHeldByOne
<1>3. CountStands'
  <2> SUFFICES ASSUME NEW b \in Admins, apc'[b] = "counted", NEW p \in asked'[b]
               PROVE  ~Refused(p)'
    BY DEF CountStands
  <2>1. b # a /\ apc[b] = "counted" /\ p \in asked[b] /\ b \in tenantLock
    BY <1>1 DEF OwnersTypeOK
  <2>2. role' = role /\ status' = status
    BY <2>1 DEF LockHeldByOne
  <2>3. Refused(p)' <=> Refused(p)
    BY <2>2 DEF Refused, ActiveOwners, NewRole, NewStatus
  <2> QED
    BY <2>1, <2>3 DEF CountStands
<1> QED
  BY <1>2, <1>3 DEF TenantKeepsAnOwner

LEMMA CountKeepsInv ==
    ASSUME OwnersInv, NEW a \in Admins, CountOwners(a)
    PROVE  OwnersInv'
<1> USE DEF OwnersInv
<1>1. role' = role /\ status' = status /\ apc[a] = "locked"
  BY DEF CountOwners
<1>2. ActiveOwners' = ActiveOwners
  BY <1>1 DEF ActiveOwners
<1>3. CASE EndsRequest(a)
  <2>1. OwnersTypeOK'
    BY <1>1, <1>3, EndKeepsTypes DEF OwnersTypeOK
  <2> QED
    BY <1>1, <1>2, <1>3, <2>1, EndKeepsInv DEF TenantKeepsAnOwner
<1>4. CASE /\ ~\E q \in asked[a] : Refused(q)
           /\ apc' = [apc EXCEPT ![a] = "counted"]
           /\ tenantLock' = tenantLock /\ asked' = asked
  <2>1. OwnersTypeOK'
    BY <1>1, <1>4 DEF OwnersTypeOK
  <2>2. \A q \in Requests : Refused(q)' <=> Refused(q)
    BY <1>1 DEF Refused, ActiveOwners, NewRole, NewStatus
  <2>3. CountStands'
    <3> SUFFICES ASSUME NEW b \in Admins, apc'[b] = "counted", NEW p \in asked[b]
                 PROVE  ~Refused(p)'
      BY <1>4 DEF CountStands
    <3>1. p \in Requests
      BY DEF OwnersTypeOK
    <3>2. CASE b = a
      BY <1>4, <2>2, <3>1, <3>2
    <3>3. CASE b # a
      BY <1>4, <2>2, <3>1, <3>3 DEF CountStands, OwnersTypeOK
    <3> QED
      BY <3>2, <3>3
  <2> QED
    BY <1>2, <1>4, <2>1, <2>3 DEF LockHeldByOne, TenantKeepsAnOwner
<1> QED
  BY <1>3, <1>4 DEF CountOwners

LEMMA ApplyKeepsInv ==
    ASSUME OwnersInv, NEW a \in Admins, NEW q \in Requests, Apply(a, q)
    PROVE  OwnersInv'
<1> USE DEF OwnersInv
<1>1. /\ apc[a] = "counted" /\ q \in asked[a] /\ EndsRequest(a)
      /\ role' = [role EXCEPT ![q.target] = NewRole(q)]
      /\ status' = [status EXCEPT ![q.target] = NewStatus(q)]
  BY DEF Apply
<1>2. /\ q.target \in Users /\ NewRole(q) \in Roles
      /\ NewStatus(q) \in {"ACTIVE", "SUSPENDED"} \/ NewStatus(q) = status[q.target]
      /\ NewStatus(q) \in UserStatuses /\ status[q.target] # "ABSENT"
  BY <1>1 DEF OwnersTypeOK, Requests, NewRole, NewStatus, UserStatuses, AsBefore
<1>3. /\ role' \in [Users -> Roles] /\ status' \in [Users -> UserStatuses]
      /\ \A u \in Users : status[u] # "ABSENT" => status'[u] # "ABSENT"
  BY <1>1, <1>2 DEF OwnersTypeOK
<1>4. OwnersTypeOK'
  BY <1>1, <1>3, EndKeepsTypes
<1>5. ~Refused(q) /\ a \in tenantLock
  BY <1>1 DEF CountStands, OwnersTypeOK
<1>6. ActiveOwners' # {}
  <2>1. ASSUME NEW u \in ActiveOwners, u # q.target
        PROVE  u \in ActiveOwners'
    BY <1>1, <1>2, <2>1 DEF ActiveOwners, OwnersTypeOK
  <2>2. CASE IsOwner(NewRole(q), NewStatus(q))
    <3>1. q.target \in ActiveOwners'
      BY <1>1, <1>2, <2>2 DEF ActiveOwners, OwnersTypeOK
    <3> QED
      BY <3>1
  <2>3. CASE ~IsOwner(NewRole(q), NewStatus(q))
    <3>1. \E u \in ActiveOwners : u # q.target
      BY <1>5, <2>3 DEF Refused, TenantKeepsAnOwner
    <3> QED
      BY <2>1, <3>1
  <2> QED
    BY <2>2, <2>3
<1> QED
  BY <1>1, <1>4, <1>5, <1>6, EndKeepsInv

LEMMA RollBackKeepsInv ==
    ASSUME OwnersInv, NEW a \in Admins, RollBack(a)
    PROVE  OwnersInv'
<1> USE DEF OwnersInv
<1>1. EndsRequest(a) /\ role' = role /\ status' = status
  BY DEF RollBack
<1>2. OwnersTypeOK'
  BY <1>1, EndKeepsTypes DEF OwnersTypeOK
<1>3. ActiveOwners' # {}
  BY <1>1 DEF ActiveOwners, TenantKeepsAnOwner
<1> QED
  BY <1>1, <1>2, <1>3, EndKeepsInv

LEMMA OwnersNextKeepsInv == OwnersInv /\ [OwnersNext]_ownersVars => OwnersInv'
<1> SUFFICES ASSUME OwnersInv, [OwnersNext]_ownersVars PROVE OwnersInv'
  OBVIOUS
<1>1. CASE UNCHANGED ownersVars
  BY <1>1 DEF ownersVars, OwnersInv, OwnersTypeOK, LockHeldByOne, CountStands,
              TenantKeepsAnOwner, ActiveOwners, Refused, NewRole, NewStatus
<1>2. ASSUME NEW u \in Users, NEW r \in Roles, CreateUser(u, r) PROVE OwnersInv'
  BY <1>2, CreateKeepsInv
<1>3. ASSUME NEW a \in Admins, Administer(a) PROVE OwnersInv'
  BY <1>3, AskKeepsInv, LockKeepsInv, CountKeepsInv, ApplyKeepsInv, RollBackKeepsInv
     DEF Administer
<1> QED
  BY <1>1, <1>2, <1>3 DEF OwnersNext

LEMMA OwnersInvAlways == OwnersSpec => []OwnersInv
  BY OwnersInitInv, OwnersNextKeepsInv, PTL DEF OwnersSpec

(* The rows keep their types, a request holds the tenant's row exactly     *)
(* while it is past the lock, and its target exists.                       *)
THEOREM OwnersTypeCorrect == OwnersSpec => []OwnersTypeOK
<1>1. OwnersInv => OwnersTypeOK
  BY DEF OwnersInv
<1> QED
  BY <1>1, OwnersInvAlways, PTL

(* However many requests administer the tenant's users at once, an active  *)
(* owner remains (assert_tenant_keeps_an_owner under                       *)
(* lock_tenant_for_admin).                                                 *)
THEOREM OwnerAlwaysRemains == OwnersSpec => []TenantKeepsAnOwner
<1>1. OwnersInv => TenantKeepsAnOwner
  BY DEF OwnersInv
<1> QED
  BY <1>1, OwnersInvAlways, PTL
-----------------------------------------------------------------------------
(* The evidence of a cleaning. *)

(* Where an upload is tells what it has behind it. *)
UploadsInv ==
    \A p \in Pictures :
        /\ uploading[p] \in {"IDLE", "CHECKED"} => p \notin photoRows \cup objects
        /\ uploading[p] = "STORED" => p \in objects /\ p \notin photoRows
        /\ uploading[p] = "FAILED" => p \in objects /\ (p \in photoRows => p \in unanswered)

(* A row carries a verdict exactly when it is completed, and is completed  *)
(* only with its evidence.                                                 *)
Judged(row) ==
    /\ row.verdict # "PENDING" <=> row.status = "COMPLETED"
    /\ row.status = "COMPLETED" => EvidenceIsComplete

JudgedInv ==
    /\ Judged(taskRow)
    /\ \A c \in Callers : \A h \in inHand[c] : Judged(h.row)

EvidenceInv == EvidenceTypeOK /\ UploadsInv /\ StoreMatchesTheRows /\ JudgedInv

LEMMA EvidenceInitInv == EvidenceInit => EvidenceInv
<1> SUFFICES ASSUME EvidenceInit PROVE EvidenceInv
  OBVIOUS
<1> USE EvidenceAssumption DEF EvidenceInit
<1>1. EvidenceTypeOK
  BY DEF EvidenceTypeOK, TaskRows, LiveTask
<1>2. UploadsInv /\ StoreMatchesTheRows
  BY DEF UploadsInv, StoreMatchesTheRows
<1>3. JudgedInv
  BY DEF JudgedInv, Judged, LiveTask
<1> QED
  BY <1>1, <1>2, <1>3 DEF EvidenceInv

(* Evidence that is only added to stays complete. *)
LEMMA EvidenceGrows ==
    ASSUME ticked \subseteq ticked', photoRows \subseteq photoRows', EvidenceIsComplete
    PROVE  EvidenceIsComplete'
  BY DEF EvidenceIsComplete, UploadedTypes

(* A step that touches no copy and no row keeps them judged. *)
LEMMA FilesKeepJudged ==
    ASSUME JudgedInv, UNCHANGED <<taskRow, inHand>>,
           ticked \subseteq ticked', photoRows \subseteq photoRows'
    PROVE  JudgedInv'
<1>1. EvidenceIsComplete => EvidenceIsComplete'
  BY EvidenceGrows
<1> QED
  BY <1>1 DEF JudgedInv, Judged

(* What the entity makes of a judged copy is judged. *)
LEMMA MovedIsJudged ==
    ASSUME NEW row \in TaskRows, NEW asks \in TaskRequests, Judged(row),
           row.status \in StatusesFor(asks), asks = "COMPLETE" => EvidenceIsComplete
    PROVE  Moved(asks, row) \in TaskRows /\ Judged(Moved(asks, row))
  BY DEF TaskRows, TaskRequests, Verdicts, Judged, StatusesFor, LiveTask, Moved

LEMMA TaskStepsKeepInv ==
    ASSUME EvidenceInv, NEW c \in Callers,
           \/ \E asks \in TaskRequests : LoadTask(c, asks)
           \/ GatherEvidence(c) \/ SaveTask(c) \/ TaskRollsBack(c)
    PROVE  EvidenceInv'
<1> USE EvidenceAssumption DEF EvidenceInv
<1>1. /\ UNCHANGED fileVars
      /\ UploadsInv' /\ StoreMatchesTheRows'
  BY DEF LoadTask, GatherEvidence, SaveTask, TaskRollsBack, fileVars, UploadsInv,
         StoreMatchesTheRows
<1>2. EvidenceIsComplete' = EvidenceIsComplete
  BY <1>1 DEF fileVars, EvidenceIsComplete, UploadedTypes
<1>3. ASSUME NEW asks \in TaskRequests, LoadTask(c, asks)
      PROVE  EvidenceTypeOK' /\ JudgedInv'
  <2> DEFINE row == IF asks = "COMPLETE" THEN taskRow ELSE Moved(asks, taskRow)
  <2>1. row \in TaskRows /\ Judged(row)
    BY <1>3, MovedIsJudged DEF EvidenceTypeOK, JudgedInv, LoadTask
  <2>2. /\ inHand' = [inHand EXCEPT ![c] = {[asks |-> asks, row |-> row]}]
        /\ taskRow' = taskRow /\ visits < MaxVisits /\ visits' = visits + 1
    BY <1>3 DEF LoadTask
  <2> HIDE DEF row
  <2>3. EvidenceTypeOK'
    BY <1>1, <2>1, <2>2 DEF EvidenceTypeOK, fileVars
  <2>4. JudgedInv'
    BY <1>2, <2>1, <2>2 DEF JudgedInv, Judged, EvidenceTypeOK
  <2> QED
    BY <2>3, <2>4
<1>4. ASSUME GatherEvidence(c) PROVE EvidenceTypeOK' /\ JudgedInv'
  <2>1. PICK h \in inHand[c] :
          /\ h.asks = "COMPLETE" /\ h.row.status = "IN_PROGRESS" /\ EvidenceIsComplete
          /\ inHand' = [inHand EXCEPT ![c] =
                {[h EXCEPT !.row = Moved("COMPLETE", h.row)]}]
          /\ taskRow' = taskRow /\ visits' = visits
    BY <1>4 DEF GatherEvidence
  <2>2. h \in [asks : TaskRequests, row : TaskRows] /\ Judged(h.row)
    BY DEF EvidenceTypeOK, JudgedInv
  <2>3. Moved("COMPLETE", h.row) \in TaskRows /\ Judged(Moved("COMPLETE", h.row))
    BY <2>1, <2>2, MovedIsJudged DEF StatusesFor, TaskRequests
  <2>4. EvidenceTypeOK'
    BY <1>1, <2>1, <2>2, <2>3 DEF EvidenceTypeOK, fileVars
  <2>5. JudgedInv'
    BY <1>2, <2>1, <2>2, <2>3 DEF JudgedInv, Judged, EvidenceTypeOK
  <2> QED
    BY <2>4, <2>5
<1>5. ASSUME SaveTask(c) PROVE EvidenceTypeOK' /\ JudgedInv'
  <2>1. PICK h \in inHand[c] :
          taskRow' = h.row /\ inHand' = [inHand EXCEPT ![c] = {}] /\ visits' = visits
    BY <1>5 DEF SaveTask
  <2>2. EvidenceTypeOK'
    BY <1>1, <2>1 DEF EvidenceTypeOK, fileVars
  <2>3. JudgedInv'
    BY <1>2, <2>1 DEF JudgedInv, Judged, EvidenceTypeOK
  <2> QED
    BY <2>2, <2>3
<1>6. ASSUME TaskRollsBack(c) PROVE EvidenceTypeOK' /\ JudgedInv'
  <2>1. taskRow' = taskRow /\ inHand' = [inHand EXCEPT ![c] = {}] /\ visits' = visits
    BY <1>6 DEF TaskRollsBack
  <2>2. EvidenceTypeOK'
    BY <1>1, <2>1 DEF EvidenceTypeOK, fileVars
  <2>3. JudgedInv'
    BY <1>2, <2>1 DEF JudgedInv, Judged, EvidenceTypeOK
  <2> QED
    BY <2>2, <2>3
<1> QED
  BY <1>1, <1>3, <1>4, <1>5, <1>6

LEMMA TicksKeepInv ==
    ASSUME EvidenceInv, NEW i \in ChecklistItems,
           BeginTick(i) \/ CommitTick(i) \/ TickRollsBack(i)
    PROVE  EvidenceInv'
<1> USE EvidenceAssumption DEF EvidenceInv
<1>1. /\ UNCHANGED <<taskVars, photoVars>> /\ ticked \subseteq ticked'
      /\ ticked' \cup ticking' \subseteq ChecklistItems
  BY DEF BeginTick, CommitTick, TickRollsBack, taskVars, photoVars, EvidenceTypeOK
<1>2. EvidenceTypeOK'
  BY <1>1 DEF EvidenceTypeOK, taskVars, photoVars
<1>3. UploadsInv' /\ StoreMatchesTheRows'
  BY <1>1 DEF UploadsInv, StoreMatchesTheRows, photoVars
<1>4. JudgedInv'
  BY <1>1, FilesKeepJudged DEF taskVars, photoVars
<1> QED
  BY <1>2, <1>3, <1>4

LEMMA UploadsKeepInv ==
    ASSUME EvidenceInv, NEW p \in Pictures,
           \/ CheckUpload(p) \/ PutObject(p) \/ StoreRefuses(p) \/ CommitPhoto(p)
           \/ PhotoFails(p) \/ DeleteQuietly(p) \/ UploadDies(p)
    PROVE  EvidenceInv'
<1> USE EvidenceAssumption DEF EvidenceInv
<1> DEFINE Steps == /\ UNCHANGED <<taskVars, ticked, ticking>>
                    /\ photoRows \subseteq photoRows'
                    /\ EvidenceTypeOK' /\ UploadsInv' /\ StoreMatchesTheRows'
<1> USE DEF UploadGoes, UploadsInv, StoreMatchesTheRows, EvidenceTypeOK, taskVars
<1>1. ASSUME CheckUpload(p) PROVE Steps
  BY <1>1 DEF CheckUpload
<1>2. ASSUME PutObject(p) PROVE Steps
  BY <1>2 DEF PutObject
<1>3. ASSUME StoreRefuses(p) PROVE Steps
  BY <1>3 DEF StoreRefuses
<1>4. ASSUME CommitPhoto(p) PROVE Steps
  BY <1>4 DEF CommitPhoto
<1>5. ASSUME PhotoFails(p) PROVE Steps
  BY <1>5 DEF PhotoFails
<1>6. ASSUME DeleteQuietly(p) PROVE Steps
  BY <1>6 DEF DeleteQuietly
<1>7. ASSUME UploadDies(p) PROVE Steps
  BY <1>7 DEF UploadDies
<1> QED
  BY <1>1, <1>2, <1>3, <1>4, <1>5, <1>6, <1>7, FilesKeepJudged

LEMMA EvidenceNextKeepsInv == EvidenceInv /\ [EvidenceNext]_evidenceVars => EvidenceInv'
<1> SUFFICES ASSUME EvidenceInv, [EvidenceNext]_evidenceVars PROVE EvidenceInv'
  OBVIOUS
<1>1. CASE UNCHANGED evidenceVars
  <2>1. EvidenceTypeOK' /\ UploadsInv' /\ StoreMatchesTheRows'
    BY <1>1 DEF evidenceVars, EvidenceInv, EvidenceTypeOK, UploadsInv, StoreMatchesTheRows
  <2>2. JudgedInv'
    BY <1>1, FilesKeepJudged DEF evidenceVars, EvidenceInv
  <2> QED
    BY <2>1, <2>2 DEF EvidenceInv
<1>2. CASE EvidenceNext
  BY <1>2, TaskStepsKeepInv, TicksKeepInv, UploadsKeepInv DEF EvidenceNext
<1> QED
  BY <1>1, <1>2

LEMMA EvidenceInvAlways == EvidenceSpec => []EvidenceInv
  BY EvidenceInitInv, EvidenceNextKeepsInv, PTL DEF EvidenceSpec

(* The task, the copies, the ticks and the uploads keep their types. *)
THEOREM EvidenceTypeCorrect == EvidenceSpec => []EvidenceTypeOK
<1>1. EvidenceInv => EvidenceTypeOK
  BY DEF EvidenceInv
<1> QED
  BY <1>1, EvidenceInvAlways, PTL

(* Whatever uploads fail or die, at whatever step, a row has its object    *)
(* and an object its row, apart from lost answers and deletes that failed  *)
(* (UploadTaskPhoto: the object first, the row after it, the delete when   *)
(* the row was not made).                                                  *)
THEOREM RowsHaveTheirObjects == EvidenceSpec => []StoreMatchesTheRows
<1>1. EvidenceInv => StoreMatchesTheRows
  BY DEF EvidenceInv
<1> QED
  BY <1>1, EvidenceInvAlways, PTL

(* However many requests save stale copies of the task, a completed one    *)
(* has its ticks and its photos (CleaningTask.complete).                   *)
THEOREM CompletionHasItsEvidence == EvidenceSpec => []CompletedWithItsEvidence
<1>1. EvidenceInv => CompletedWithItsEvidence
  BY DEF EvidenceInv, JudgedInv, Judged, EvidenceIsComplete, UploadedTypes,
         CompletedWithItsEvidence
<1> QED
  BY <1>1, EvidenceInvAlways, PTL

(* However many requests save stale copies of the task, its verdict and    *)
(* its completion come and go together (the whole row is saved).           *)
THEOREM VerdictFollowsCompletion == EvidenceSpec => []VerdictGoesWithCompletion
<1>1. EvidenceInv => VerdictGoesWithCompletion
  BY DEF EvidenceInv, JudgedInv, Judged, VerdictGoesWithCompletion
<1> QED
  BY <1>1, EvidenceInvAlways, PTL

-----------------------------------------------------------------------------
(* The reminders of a stay. *)

(* A sweep that has decided writes the types that are due and not queued,  *)
(* and what it read in time it writes unless it is there already.          *)
DecidedInv ==
    \A p \in sweeping : p.decided =>
        /\ \A t \in p.writes : mails[t] = 0
        /\ \A t \in InTime(p) : t \in p.writes \/ mails[t] = 1

RemindersInv == RemindersTypeOK /\ DecidedInv /\ RemindedInTime

LEMMA DivBelow ==
    ASSUME NEW n \in Nat \ {0}, NEW d \in Int, NEW a \in Int, d * n <= a
    PROVE  d <= a \div n
<1>1. /\ a \div n \in Int /\ a < (a \div n + 1) * n
  OBVIOUS
<1>2. d * n < (a \div n + 1) * n
  BY <1>1
<1>3. d < a \div n + 1
  BY <1>1, <1>2
<1> QED
  BY <1>1, <1>3

LEMMA DivAbove ==
    ASSUME NEW n \in Nat \ {0}, NEW d \in Int, NEW a \in Int, a < (d + 1) * n
    PROVE  a \div n <= d
<1>1. /\ a \div n \in Int /\ (a \div n) * n <= a
  OBVIOUS
<1>2. (a \div n) * n < (d + 1) * n
  BY <1>1
<1>3. a \div n < d + 1
  BY <1>1, <1>2
<1> QED
  BY <1>1, <1>3

(* A type whose time it is is due, and its stay a candidate. *)
LEMMA InTimeIsDue ==
    ASSUME NEW p \in Passes, NEW t \in InTime(p)
    PROVE  IsCandidate(p.stay, p.at) /\ t \in DueTypes(p.job, p.stay, p.at)
<1> DEFINE b == p.stay
           start == b.day * SlotsInDay
           length == Nights * SlotsInDay
<1> USE RemindersAssumption
<1>1. /\ b.day \in Nat /\ p.at \in Nat /\ SlotsInDay \in Nat \ {0} /\ Nights \in Nat \ {0}
      /\ start \in Nat /\ length \in Nat /\ length >= SlotsInDay
      /\ (b.day + Nights) * SlotsInDay = start + length
      /\ (b.day + Nights + 1) * SlotsInDay = start + length + SlotsInDay
  <2>1. b.day \in Nat /\ p.at \in Nat
    BY DEF Passes, Stays
  <2>2. SlotsInDay \in Nat \ {0} /\ Nights \in Nat \ {0}
    OBVIOUS
  <2>3. start \in Nat /\ length \in Nat /\ length >= SlotsInDay
    BY <2>1, <2>2
  <2>4. /\ (b.day + Nights) * SlotsInDay = start + length
        /\ (b.day + Nights + 1) * SlotsInDay = start + length + SlotsInDay
    BY <2>1, <2>2
  <2> QED
    BY <2>1, <2>2, <2>3, <2>4
<1>2. /\ t \in TypesOf(p.job) /\ t \in MailTypes
      /\ CheckInAt(b) = start + CheckInHour - Zone
      /\ CheckOutAt(b) = start + length + CheckOutHour - Zone
  BY <1>1 DEF InTime, TypesOf, MailTypes, CheckInAt, CheckOutAt
<1> HIDE DEF start, length
<1>3. EventAt(t, b) \in Int /\ EventAt(t, b) <= start + length + SlotsInDay + SlotsInDay
  BY <1>1, <1>2 DEF EventAt
<1>4. /\ p.at < EventAt(t, b) /\ EventAt(t, b) - Lead(t) <= p.at
      /\ start - SlotsInDay <= p.at
  <2>1. CASE t = "CHECKIN_REMINDER_24H"
    BY <1>1, <1>2, <1>3, <2>1 DEF InTime, EventAt, Lead, Hidden
  <2>2. CASE t # "CHECKIN_REMINDER_24H"
    BY <1>1, <1>2, <1>3, <2>2 DEF InTime, EventAt, Lead
  <2> QED
    BY <2>1, <2>2
<1>5. t \in DueTypes(p.job, b, p.at)
  BY <1>2, <1>4 DEF DueTypes
<1>6. b.day <= (p.at + SlotsInDay) \div SlotsInDay
  <2>1. b.day * SlotsInDay <= p.at + SlotsInDay
    BY <1>1, <1>4 DEF start
  <2>2. p.at + SlotsInDay \in Int /\ b.day \in Int /\ SlotsInDay \in Nat \ {0}
    BY <1>1
  <2> HIDE DEF b
  <2> QED
    BY <2>1, <2>2, DivBelow, Zenon
<1>7. (p.at - SlotsInDay) \div SlotsInDay <= b.day + Nights
  <2>1. p.at - SlotsInDay < (b.day + Nights + 1) * SlotsInDay
    BY <1>1, <1>3, <1>4
  <2> QED
    BY <1>1, <2>1, DivAbove
<1>8. (p.at - SlotsInDay) \div SlotsInDay \in Int
  BY <1>1
<1> QED
  BY <1>1, <1>5, <1>6, <1>7, <1>8 DEF IsCandidate

LEMMA DecideKeepsInv ==
    ASSUME RemindersInv, DecideReminders PROVE RemindersInv'
<1> USE DEF RemindersInv
<1> DEFINE Stay(p) == [p.stay EXCEPT !.address = upcoming.address]
           DueNow(p) == IF Stay(p).confirmed /\ Stay(p).address /\ IsCandidate(Stay(p), p.at)
                       THEN DueTypes(p.job, Stay(p), p.at) ELSE {}
           After(p) == [job |-> p.job, at |-> p.at, stay |-> Stay(p),
                        writes |-> Unqueued(DueNow(p)), decided |-> TRUE]
<1>1. PICK p \in sweeping : sweeping' = {After(p)} /\ UNCHANGED <<stayVars, mails, owed>>
  BY DEF DecideReminders
<1>2. p \in Passes /\ Stay(p) \in Stays
  BY DEF RemindersTypeOK, Passes, Stays
<1>3. DueNow(p) \subseteq MailTypes /\ Unqueued(DueNow(p)) \subseteq MailTypes
  BY DEF DueTypes, TypesOf, MailTypes, Unqueued
<1> HIDE DEF Stay
<1>4. After(p) \in Passes
  BY <1>2, <1>3 DEF Passes
<1>5. RemindersTypeOK'
  BY <1>1, <1>4 DEF RemindersTypeOK, stayVars
<1>6. \A t \in After(p).writes : mails[t] = 0
  BY DEF Unqueued
<1>7. ASSUME NEW t \in InTime(After(p)) PROVE t \in After(p).writes \/ mails[t] = 1
  <2>1. IsCandidate(Stay(p), p.at) /\ t \in DueTypes(p.job, Stay(p), p.at)
    BY <1>4, InTimeIsDue
  <2>2. Stay(p).confirmed /\ Stay(p).address
    BY DEF InTime
  <2>3. t \in DueNow(p)
    BY <2>1, <2>2
  <2>4. t \in MailTypes /\ mails[t] \in Nat /\ mails[t] <= 1
    BY <1>3, <2>3 DEF RemindersTypeOK, RemindedInTime
  <2> HIDE DEF DueNow
  <2> QED
    BY <2>3, <2>4 DEF Unqueued
<1>8. DecidedInv'
  <2> HIDE DEF After
  <2>1. \A q : InTime(q)' = InTime(q)
    BY DEF InTime, EventAt, CheckInAt, CheckOutAt, Lead, Hidden, TypesOf
  <2> QED
    BY <1>1, <1>6, <1>7, <2>1 DEF DecidedInv
<1> QED
  BY <1>1, <1>5, <1>8 DEF RemindedInTime

LEMMA CommitKeepsInv ==
    ASSUME RemindersInv, CommitReminders PROVE RemindersInv'
<1> USE DEF RemindersInv
<1>1. PICK p \in sweeping :
        /\ p.decided /\ sweeping' = {} /\ owed' = owed \cup InTime(p) /\ UNCHANGED stayVars
        /\ mails' = [t \in MailTypes |-> IF t \in p.writes THEN mails[t] + 1 ELSE mails[t]]
  BY DEF CommitReminders
<1>2. InTime(p) \subseteq MailTypes
  BY DEF InTime, TypesOf, MailTypes
<1>3. RemindersTypeOK'
  BY <1>1, <1>2 DEF RemindersTypeOK, stayVars
<1>4. ASSUME NEW t \in MailTypes
      PROVE  mails'[t] <= 1 /\ (t \in owed' => mails'[t] = 1)
  <2>1. /\ mails'[t] = IF t \in p.writes THEN mails[t] + 1 ELSE mails[t]
        /\ mails[t] \in Nat /\ mails[t] <= 1 /\ (t \in owed => mails[t] = 1)
        /\ t \in p.writes => mails[t] = 0
        /\ t \in InTime(p) => t \in p.writes \/ mails[t] = 1
    BY <1>1 DEF RemindersTypeOK, RemindedInTime, DecidedInv
  <2> QED
    BY <1>1, <2>1
<1> QED
  BY <1>1, <1>3, <1>4 DEF DecidedInv, RemindedInTime

LEMMA RemindersNextKeepsInv == RemindersInv /\ [RemindersNext]_reminderVars => RemindersInv'
<1> SUFFICES ASSUME RemindersInv, [RemindersNext]_reminderVars PROVE RemindersInv'
  OBVIOUS
<1> USE RemindersAssumption DEF RemindersInv
<1>1. \A p : InTime(p)' = InTime(p)
  BY DEF InTime, EventAt, CheckInAt, CheckOutAt, Lead, Hidden, TypesOf
<1>2. ASSUME mails' = mails, owed' = owed, sweeping' = sweeping \/ sweeping' = {}
      PROVE  DecidedInv' /\ RemindedInTime'
  BY <1>1, <1>2 DEF DecidedInv, RemindedInTime
<1>3. CASE UNCHANGED reminderVars
  BY <1>2, <1>3 DEF reminderVars, RemindersTypeOK
<1>4. CASE ClockMoves
  BY <1>2, <1>4 DEF ClockMoves, RemindersTypeOK
<1>5. CASE ChangeStay
  <2>1. upcoming' \in Stays
    <3>1. CASE upcoming' = [upcoming EXCEPT !.day = FirstDay + 1]
      BY <3>1 DEF Stays, RemindersTypeOK
    <3>2. CASE upcoming' = [upcoming EXCEPT !.confirmed = FALSE]
      BY <3>2 DEF Stays, RemindersTypeOK
    <3>3. CASE upcoming' = [upcoming EXCEPT !.address = TRUE]
      BY <3>3 DEF Stays, RemindersTypeOK
    <3> QED
      BY <1>5, <3>1, <3>2, <3>3 DEF ChangeStay
  <2>2. changes' \in 0..MaxChanges
    BY <1>5 DEF ChangeStay, RemindersTypeOK
  <2> QED
    BY <1>2, <1>5, <2>1, <2>2 DEF ChangeStay, RemindersTypeOK
<1>6. CASE SweepFails
  BY <1>2, <1>6 DEF SweepFails, stayVars, RemindersTypeOK
<1>7. ASSUME NEW job \in {"CHECKIN", "CHECKOUT"}, BeginSweep(job) PROVE RemindersInv'
  <2> DEFINE pass == [job |-> job, at |-> slot, stay |-> upcoming, writes |-> {},
                      decided |-> FALSE]
  <2>1. sweeping' = {pass} /\ UNCHANGED <<stayVars, mails, owed>>
    BY <1>7 DEF BeginSweep
  <2>2. pass \in Passes
    BY DEF Passes, RemindersTypeOK
  <2>3. ~pass.decided
    OBVIOUS
  <2> HIDE DEF pass
  <2> QED
    BY <2>1, <2>2, <2>3 DEF stayVars, RemindersTypeOK, DecidedInv, RemindedInTime
<1> QED
  BY <1>3, <1>4, <1>5, <1>6, <1>7, DecideKeepsInv, CommitKeepsInv DEF RemindersNext

LEMMA RemindersInitInv == RemindersInit => RemindersInv
<1> SUFFICES ASSUME RemindersInit PROVE RemindersInv
  OBVIOUS
<1> USE RemindersAssumption DEF RemindersInit
<1>1. slot \in FirstSlot..LastSlot /\ changes \in 0..MaxChanges
  OBVIOUS
<1>2. upcoming \in Stays
  BY DEF Stays
<1>3. mails \in [MailTypes -> Nat]
  OBVIOUS
<1>4. RemindersTypeOK
  BY <1>1, <1>2, <1>3 DEF RemindersTypeOK
<1> QED
  BY <1>4 DEF RemindersInv, DecidedInv, RemindedInTime

LEMMA RemindersInvAlways == RemindersSpec => []RemindersInv
  BY RemindersInitInv, RemindersNextKeepsInv, PTL DEF RemindersSpec

(* The stay, the passes over it and its mails are what they are declared   *)
(* to be, whatever is edited between two passes.                           *)
THEOREM RemindersTypeCorrect == RemindersSpec => []RemindersTypeOK
<1>1. RemindersInv => RemindersTypeOK
  BY DEF RemindersInv
<1> QED
  BY <1>1, RemindersInvAlways, PTL

(* For any lengths of the day and of the lead times, any zone within them  *)
(* and any hours: a confirmed stay read in time has its reminder queued    *)
(* once (_CANDIDATE_WINDOW covers both lead times, exists_for the rest).   *)
THEOREM ReminderIsQueuedOnce == RemindersSpec => []RemindedInTime
<1>1. RemindersInv => RemindedInTime
  BY DEF RemindersInv
<1> QED
  BY <1>1, RemindersInvAlways, PTL

-----------------------------------------------------------------------------
(* The registration of guests. *)

(* Only one check-in at a time has claimed the stay, and only a stay that  *)
(* has no guest; a check-in has its own guest committed when it is done.   *)
ClaimInv ==
    /\ \A v, w \in claim : v = w
    /\ claim # {} => stayGuest = NoGuest
    /\ \A w \in CheckIns : w \in people => saving[w] = "DONE"
    /\ \A w \in Writers :
         saving[w] = "BEGUN" => w \in CheckIns /\ guestOf[w] \in people \cup {NoGuest}

(* The guest a check-in works for is the one it claims the stay with, or   *)
(* the stay's, unless the office gave the stay another.                    *)
PortalInv ==
    \A w \in CheckIns :
        guestOf[w] \in CheckIns => w \in claim \/ stayGuest = guestOf[w] \/ relinked

(* While nothing was mixed, one filer at most is between the call and the  *)
(* save, the report waits for it, and an accepted report is saved or about *)
(* to be.                                                                  *)
FilingInv ==
    ~mixed =>
        /\ \A f, g \in Filers : filing[f] # "IDLE" /\ filing[g] # "IDLE" => f = g
        /\ \A f \in Filers : filing[f] # "IDLE" => report = "READY_TO_SUBMIT"
        /\ filed <= 1
        /\ filed = 1 => report = "SUBMITTED" \/ \E f \in Filers : filing[f] = "ACCEPTED"

GuestsInv ==
    GuestsTypeOK /\ ClaimInv /\ PortalInv /\ DocumentStaysWithTheStay /\ FilingInv

LEMMA GuestsInitInv == GuestsInit => GuestsInv
<1> SUFFICES ASSUME GuestsInit PROVE GuestsInv
  OBVIOUS
<1> USE RegistrationAssumption DEF GuestsInit, Guests, Writers
<1>1. GuestsTypeOK
  <2>1. /\ report \in Reports /\ stayGuest \in people \cup {NoGuest} /\ people \subseteq Guests
    BY DEF Reports
  <2>2. {relinked, mixed} \subseteq BOOLEAN
    OBVIOUS
  <2>3. filed \in 0..MaxReports
    OBVIOUS
  <2>4. /\ saving \in [Writers -> {"IDLE", "BEGUN", "CLAIMED", "SAVED", "DONE"}]
        /\ guestOf \in [Writers -> Guests \cup {NoGuest}] /\ readAt \in [Writers -> Reports]
        /\ filing \in [Filers -> {"IDLE", "ACCEPTED", "REJECTED"}]
    BY DEF Reports
  <2>5. \A w \in Writers : saving[w] = "IDLE"
    OBVIOUS
  <2> QED
    BY <2>1, <2>2, <2>3, <2>4, <2>5 DEF GuestsTypeOK
<1>2. ClaimInv /\ PortalInv
  BY DEF ClaimInv, PortalInv
<1>3. DocumentStaysWithTheStay /\ FilingInv
  BY DEF DocumentStaysWithTheStay, FilingInv
<1> QED
  BY <1>1, <1>2, <1>3 DEF GuestsInv

(* What a step does not touch keeps what is said of it. *)
LEMMA FilingStays ==
    ASSUME FilingInv, report' = report, filerVars' = filerVars, mixed' = mixed
    PROVE  FilingInv'
  BY DEF FilingInv, filerVars

LEMMA BeginKeepsInv ==
    ASSUME GuestsInv, NEW w \in Writers,
           \/ BeginCheckIn(w) \/ \E g \in people : BeginDocument(w, g)
           \/ KeepGuest(w) \/ SaveDocument(w)
    PROVE  GuestsInv'
<1> USE RegistrationAssumption DEF GuestsInv, SavingGoes, officeVars, guestRows
<1>1. FilingInv'
  BY FilingStays DEF BeginCheckIn, BeginDocument, KeepGuest, SaveDocument
<1>2. CASE BeginCheckIn(w)
  <2> USE <1>2 DEF BeginCheckIn
  <2>1. GuestsTypeOK'
    BY DEF GuestsTypeOK, filerVars, Guests
  <2>2. ClaimInv'
    BY DEF GuestsTypeOK, ClaimInv
  <2>3. PortalInv' /\ DocumentStaysWithTheStay'
    BY DEF GuestsTypeOK, PortalInv, DocumentStaysWithTheStay
  <2> QED
    BY <1>1, <2>1, <2>2, <2>3
<1>3. ASSUME NEW g \in people, BeginDocument(w, g) PROVE GuestsInv'
  <2> USE <1>3 DEF BeginDocument
  <2>1. GuestsTypeOK'
    BY DEF GuestsTypeOK, filerVars, Guests
  <2>2. ClaimInv'
    BY DEF GuestsTypeOK, ClaimInv
  <2>3. PortalInv' /\ DocumentStaysWithTheStay'
    BY DEF GuestsTypeOK, PortalInv, DocumentStaysWithTheStay
  <2> QED
    BY <1>1, <2>1, <2>2, <2>3
<1>4. CASE KeepGuest(w)
  <2> USE <1>4 DEF KeepGuest
  <2>1. GuestsTypeOK'
    BY DEF GuestsTypeOK, ClaimInv, filerVars
  <2>2. ClaimInv'
    BY DEF GuestsTypeOK, ClaimInv
  <2>3. PortalInv' /\ DocumentStaysWithTheStay'
    BY DEF GuestsTypeOK, PortalInv, DocumentStaysWithTheStay
  <2> QED
    BY <1>1, <2>1, <2>2, <2>3
<1>5. CASE SaveDocument(w)
  <2> USE <1>5 DEF SaveDocument
  <2>1. GuestsTypeOK'
    BY DEF GuestsTypeOK, filerVars
  <2>2. ClaimInv'
    BY DEF GuestsTypeOK, ClaimInv
  <2>3. PortalInv' /\ DocumentStaysWithTheStay'
    BY DEF GuestsTypeOK, PortalInv, DocumentStaysWithTheStay
  <2> QED
    BY <1>1, <2>1, <2>2, <2>3
<1> QED
  BY <1>2, <1>3, <1>4, <1>5

LEMMA ClaimKeepsInv ==
    ASSUME GuestsInv, NEW w \in Writers, ClaimStay(w)
    PROVE  GuestsInv'
<1> USE RegistrationAssumption DEF GuestsInv, SavingGoes, officeVars, guestRows, ClaimStay
<1>1. w \in CheckIns
  BY DEF GuestsTypeOK, ClaimInv, Writers
<1>2. FilingInv'
  BY FilingStays
<1>3. w \notin people /\ w # NoGuest /\ stayGuest # w /\ claim \subseteq {w} /\ w \notin made
  BY <1>1 DEF GuestsTypeOK, ClaimInv, StayIsFree
<1>4. GuestsTypeOK'
  <2>1. /\ saving' \in [Writers -> {"IDLE", "BEGUN", "CLAIMED", "SAVED", "DONE"}]
        /\ guestOf' \in [Writers -> Guests \cup {NoGuest}]
    BY <1>1 DEF GuestsTypeOK, Guests
  <2>2. /\ made' \subseteq {v \in CheckIns : saving'[v] \in {"CLAIMED", "SAVED"}}
        /\ claim' = {v \in made' : guestOf'[v] = v}
    BY <1>1, <1>3 DEF GuestsTypeOK, Writers
  <2>3. \A v \in Writers : saving'[v] \in {"CLAIMED", "SAVED"} =>
            guestOf'[v] \in people' \cup (claim' \cap {v})
    BY <1>1, <1>3 DEF GuestsTypeOK
  <2> QED
    BY <2>1, <2>2, <2>3 DEF GuestsTypeOK, filerVars
<1>5. ClaimInv'
  BY <1>1, <1>3 DEF GuestsTypeOK, ClaimInv
<1>6. PortalInv' /\ DocumentStaysWithTheStay'
  <2>1. \A v \in CheckIns \ {w} : guestOf'[v] = guestOf[v] /\ (v \in claim' <=> v \in claim)
    BY DEF GuestsTypeOK, Writers
  <2>2. \/ guestOf'[w] = w /\ w \in claim'
       \/ guestOf'[w] = stayGuest
    BY DEF GuestsTypeOK
  <2> QED
    BY <2>1, <2>2 DEF PortalInv, DocumentStaysWithTheStay
<1> QED
  BY <1>2, <1>4, <1>5, <1>6

LEMMA CommitKeepsGuests ==
    ASSUME GuestsInv, NEW w \in Writers, CommitDocument(w)
    PROVE  GuestsInv'
<1> USE RegistrationAssumption DEF GuestsInv
<1>1. /\ saving[w] = "SAVED" /\ saving' = [saving EXCEPT ![w] = "DONE"]
      /\ stayGuest' = GuestSeen(w) /\ people' = people \cup (made \cap {w})
      /\ documents' = documents \cup {guestOf[w]}
      /\ fromPortal' = IF w \in CheckIns THEN fromPortal \cup {guestOf[w]} ELSE fromPortal
      /\ made' = made \ {w} /\ claim' = claim \ {w}
      /\ guestOf' = [guestOf EXCEPT ![w] = NoGuest]
      /\ readAt' = [readAt EXCEPT ![w] = "NOT_REQUIRED"]
      /\ UNCHANGED <<office, relinked, filing, filed>>
  BY DEF CommitDocument, LetsGo, SavingGoes, officeVars, filerVars
<1>2. /\ mixed' \in BOOLEAN /\ (mixed => mixed')
      /\ \/ report' = report
         \/ report' = "READY_TO_SUBMIT" /\ (mixed' \/ report = "PENDING_GUEST_DATA")
  <2> DEFINE writes == StatusFor(readAt[w]) # readAt[w]
  <2>1. /\ report' = IF writes THEN StatusFor(readAt[w]) ELSE report
        /\ mixed' = (mixed \/ (writes /\ report # readAt[w])) /\ mixed \in BOOLEAN
    BY DEF CommitDocument, GuestsTypeOK
  <2>2. writes => readAt[w] = "PENDING_GUEST_DATA" /\ StatusFor(readAt[w]) = "READY_TO_SUBMIT"
    BY DEF StatusFor
  <2> QED
    BY <2>1, <2>2
<1>3. GuestsTypeOK'
  <2>1. guestOf[w] \in people'
    BY <1>1 DEF GuestsTypeOK
  <2>2. stayGuest' \in people' \cup {NoGuest} /\ people' \subseteq Guests
    BY <1>1 DEF GuestsTypeOK, GuestSeen, Guests
  <2>3. fromPortal' \subseteq documents' /\ documents' \subseteq people'
    BY <1>1, <2>1 DEF GuestsTypeOK
  <2>4. /\ saving' \in [Writers -> {"IDLE", "BEGUN", "CLAIMED", "SAVED", "DONE"}]
        /\ guestOf' \in [Writers -> Guests \cup {NoGuest}] /\ readAt' \in [Writers -> Reports]
    BY <1>1 DEF GuestsTypeOK, Reports
  <2>5. /\ made' \subseteq {v \in CheckIns : saving'[v] \in {"CLAIMED", "SAVED"}}
        /\ claim' = {v \in made' : guestOf'[v] = v}
    BY <1>1 DEF GuestsTypeOK, Writers
  <2>6. \A v \in Writers : saving'[v] \in {"CLAIMED", "SAVED"} =>
            guestOf'[v] \in people' \cup (claim' \cap {v})
    BY <1>1 DEF GuestsTypeOK
  <2>7. report' \in Reports /\ {relinked, mixed}' \subseteq BOOLEAN
    BY <1>1, <1>2 DEF GuestsTypeOK, Reports
  <2>8. office' \subseteq people' \cup {NoGuest}
    BY <1>1 DEF GuestsTypeOK
  <2> QED
    BY <1>1, <2>2, <2>3, <2>4, <2>5, <2>6, <2>7, <2>8 DEF GuestsTypeOK
<1>4. ClaimInv'
  BY <1>1 DEF GuestsTypeOK, ClaimInv, GuestSeen
<1>5. w \notin claim => stayGuest' = stayGuest
  BY <1>1 DEF GuestSeen
<1>6. w \in claim => stayGuest' = w /\ stayGuest = NoGuest /\ guestOf[w] = w /\ claim = {w}
  BY <1>1 DEF GuestSeen, ClaimInv, GuestsTypeOK
<1>7. PortalInv'
  BY <1>1, <1>5, <1>6 DEF GuestsTypeOK, PortalInv
<1>8. DocumentStaysWithTheStay'
  BY <1>1, <1>5, <1>6 DEF GuestsTypeOK, PortalInv, DocumentStaysWithTheStay
<1>9. FilingInv'
  BY <1>1, <1>2 DEF FilingInv, GuestsTypeOK
<1> QED
  BY <1>3, <1>4, <1>7, <1>8, <1>9

LEMMA RollBackKeepsGuests ==
    ASSUME GuestsInv, NEW w \in Writers, DocumentRollsBack(w)
    PROVE  GuestsInv'
<1> USE RegistrationAssumption DEF GuestsInv
<1>1. /\ saving[w] # "IDLE" /\ saving' = [saving EXCEPT ![w] = "DONE"]
      /\ made' = made \ {w} /\ claim' = claim \ {w}
      /\ guestOf' = [guestOf EXCEPT ![w] = NoGuest]
      /\ readAt' = [readAt EXCEPT ![w] = "NOT_REQUIRED"]
      /\ UNCHANGED <<report, stayGuest, people, documents, fromPortal, office, relinked,
                     filing, filed, mixed>>
  BY DEF DocumentRollsBack, LetsGo, officeVars, filerVars, guestRows
<1>2. GuestsTypeOK'
  <2>1. /\ saving' \in [Writers -> {"IDLE", "BEGUN", "CLAIMED", "SAVED", "DONE"}]
        /\ guestOf' \in [Writers -> Guests \cup {NoGuest}] /\ readAt' \in [Writers -> Reports]
    BY <1>1 DEF GuestsTypeOK, Reports
  <2>2. /\ made' \subseteq {v \in CheckIns : saving'[v] \in {"CLAIMED", "SAVED"}}
        /\ claim' = {v \in made' : guestOf'[v] = v}
    BY <1>1 DEF GuestsTypeOK, Writers
  <2>3. \A v \in Writers : saving'[v] \in {"CLAIMED", "SAVED"} =>
            guestOf'[v] \in people' \cup (claim' \cap {v})
    BY <1>1 DEF GuestsTypeOK
  <2> QED
    BY <1>1, <2>1, <2>2, <2>3 DEF GuestsTypeOK
<1>3. ClaimInv'
  BY <1>1 DEF GuestsTypeOK, ClaimInv
<1>4. PortalInv' /\ DocumentStaysWithTheStay'
  BY <1>1 DEF GuestsTypeOK, PortalInv, DocumentStaysWithTheStay
<1>5. FilingInv'
  BY <1>1, FilingStays DEF filerVars
<1> QED
  BY <1>2, <1>3, <1>4, <1>5

(* The sweep, the office and those who file. *)
LEMMA OthersKeepGuests ==
    ASSUME GuestsInv,
           \/ Initialise \/ LoadForOffice
           \/ \E g \in people \cup {NoGuest} : SaveByOffice(g)
           \/ \E f \in Filers :
                \/ \E said \in {"ACCEPTED", "REJECTED"} : File(f, said)
                \/ SaveOutcome(f) \/ FilerStops(f)
    PROVE  GuestsInv'
<1> USE RegistrationAssumption DEF GuestsInv, guestRows, writerVars, officeVars, filerVars
<1>1. CASE Initialise
  BY <1>1 DEF Initialise, GuestsTypeOK, Reports, ClaimInv, PortalInv,
              DocumentStaysWithTheStay, FilingInv
<1>2. CASE LoadForOffice
  BY <1>2, FilingStays DEF LoadForOffice, GuestsTypeOK, ClaimInv, PortalInv,
                           DocumentStaysWithTheStay
<1>3. ASSUME NEW g \in people \cup {NoGuest}, SaveByOffice(g) PROVE GuestsInv'
  <2> USE <1>3 DEF SaveByOffice
  <2>1. GuestsTypeOK' /\ ClaimInv'
    BY DEF GuestsTypeOK, ClaimInv
  <2>2. PortalInv' /\ DocumentStaysWithTheStay'
    BY DEF GuestsTypeOK, PortalInv, DocumentStaysWithTheStay
  <2>3. FilingInv'
    BY FilingStays
  <2> QED
    BY <2>1, <2>2, <2>3
<1>4. ASSUME NEW f \in Filers, NEW said \in {"ACCEPTED", "REJECTED"}, File(f, said)
      PROVE  GuestsInv'
  <2> USE <1>4 DEF File
  <2>1. GuestsTypeOK'
    BY DEF GuestsTypeOK
  <2>2. ClaimInv' /\ PortalInv' /\ DocumentStaysWithTheStay'
    BY DEF ClaimInv, PortalInv, DocumentStaysWithTheStay
  <2>3. FilingInv'
    <3>1. mixed' <=> mixed \/ \E g \in Filers : filing[g] # "IDLE"
      BY DEF GuestsTypeOK
    <3>2. CASE mixed'
      BY <3>2 DEF FilingInv
    <3>3. CASE ~mixed'
      <4>1. \A g \in Filers : filing[g] = "IDLE"
        BY <3>1, <3>3
      <4>2. filed = 0
        BY <3>1, <3>3, <4>1 DEF FilingInv, GuestsTypeOK
      <4>3. \A g \in Filers : filing'[g] # "IDLE" => g = f
        BY <4>1 DEF GuestsTypeOK
      <4>4. filed' \in {0, 1} /\ (filed' = 1 => filing'[f] = "ACCEPTED")
        BY <4>2 DEF GuestsTypeOK
      <4> QED
        BY <4>3, <4>4 DEF FilingInv
    <3> QED
      BY <3>2, <3>3
  <2> QED
    BY <2>1, <2>2, <2>3
<1>5. ASSUME NEW f \in Filers, SaveOutcome(f) PROVE GuestsInv'
  <2> USE <1>5 DEF SaveOutcome
  <2>1. GuestsTypeOK'
    BY DEF GuestsTypeOK, Reports
  <2>2. ClaimInv' /\ PortalInv' /\ DocumentStaysWithTheStay'
    BY DEF ClaimInv, PortalInv, DocumentStaysWithTheStay
  <2>3. FilingInv'
    BY DEF FilingInv, GuestsTypeOK
  <2> QED
    BY <2>1, <2>2, <2>3
<1>6. ASSUME NEW f \in Filers, FilerStops(f) PROVE GuestsInv'
  <2> USE <1>6 DEF FilerStops
  <2>1. GuestsTypeOK'
    BY DEF GuestsTypeOK
  <2>2. ClaimInv' /\ PortalInv' /\ DocumentStaysWithTheStay' /\ FilingInv'
    BY DEF ClaimInv, PortalInv, DocumentStaysWithTheStay, FilingInv
  <2> QED
    BY <2>1, <2>2
<1> QED
  BY <1>1, <1>2, <1>3, <1>4, <1>5, <1>6

LEMMA GuestsNextKeepsInv == GuestsInv /\ [GuestsNext]_guestVars => GuestsInv'
<1> SUFFICES ASSUME GuestsInv, [GuestsNext]_guestVars PROVE GuestsInv'
  OBVIOUS
<1>1. CASE UNCHANGED guestVars
  BY <1>1 DEF guestVars, GuestsInv, GuestsTypeOK, ClaimInv, PortalInv,
              DocumentStaysWithTheStay, FilingInv
<1>2. CASE GuestsNext
  BY <1>2, BeginKeepsInv, ClaimKeepsInv, CommitKeepsGuests, RollBackKeepsGuests,
     OthersKeepGuests DEF GuestsNext
<1> QED
  BY <1>1, <1>2

LEMMA GuestsInvAlways == GuestsSpec => []GuestsInv
  BY GuestsInitInv, GuestsNextKeepsInv, PTL DEF GuestsSpec

(* The stay, its guests and those who write about them keep their types. *)
THEOREM GuestsTypeCorrect == GuestsSpec => []GuestsTypeOK
<1>1. GuestsInv => GuestsTypeOK
  BY DEF GuestsInv
<1> QED
  BY <1>1, GuestsInvAlways, PTL

(* However many times a guest checks in at once, a document that came in   *)
(* through the portal belongs to the stay's guest (set_guest claims the    *)
(* stay only while it has none), unless the office parted them.            *)
THEOREM DocumentNeverStrays == GuestsSpec => []DocumentStaysWithTheStay
<1>1. GuestsInv => DocumentStaysWithTheStay
  BY DEF GuestsInv
<1> QED
  BY <1>1, GuestsInvAlways, PTL

(* Whatever is saved after a filing, the stay is not filed again           *)
(* (status_for leaves a submitted report alone), while nothing was mixed.  *)
THEOREM NotFiledAgain == GuestsSpec => []FiledOnce
<1>1. GuestsInv => FiledOnce
  BY DEF GuestsInv, FilingInv, FiledOnce
<1> QED
  BY <1>1, GuestsInvAlways, PTL

-----------------------------------------------------------------------------
(* The imports of bookings. *)

InRow == {"GUEST", "EMAIL", "AGAIN", "SAVE"}

(* An import that has added a guest holds the lock of the address and is   *)
(* the only one to have; it adds one only under that lock.                 *)
EmailInv ==
    \A i \in Imports :
        /\ \A e \in Emails : unit[i].guests[e] # 0 =>
             e \in locks[i] /\ known[e] = 0 /\ unit[i].guests[e] = 1
        /\ stage[i] = "EMAIL" => CurrentRow(i).email \in Emails
        /\ stage[i] = "AGAIN" => CurrentRow(i).email \in Emails \cap locks[i]

(* What an import writes it has locked, and where no person interfered it  *)
(* still sees what it looked up and has told of what it cancelled.         *)
BookingInv ==
    \A i \in Imports :
        /\ \A b \in PmsBookings :
             /\ unit[i].stays[b] # "KEPT" => b \in locks[i]
             /\ b \notin savedOver => unit[i].told[b] = unit[i].cancels[b]
        /\ stage[i] \in InRow => \A b \in PmsBookings : CurrentRow(i).booking = b =>
             b \in locks[i] /\ (b \notin savedOver => lookedUp[i] = View(i, b))

FeedInv ==
    FeedTypeOK /\ EmailInv /\ BookingInv /\ OneGuestPerEmail /\ CancellationToldOnce

LEMMA FeedInitInv == FeedInit => FeedInv
<1> SUFFICES ASSUME FeedInit PROVE FeedInv
  OBVIOUS
<1> USE FeedAssumption DEF FeedInit
<1>1. NothingWritten \in Units
  BY DEF NothingWritten, Units
<1>2. FeedTypeOK
  <2>1. /\ booked \in [PmsBookings -> StayViews] /\ known \in [Emails -> Nat]
        /\ told \in [PmsBookings -> Nat] /\ cancels \in [PmsBookings -> Nat]
    OBVIOUS
  <2>2. /\ pages \in [Imports -> Seq(Seq(FeedRows))] /\ stage \in [Imports -> Stages]
        /\ lookedUp \in [Imports -> StayViews] /\ unit \in [Imports -> Units]
        /\ locks \in [Imports -> SUBSET (PmsBookings \cup Emails)]
    BY <1>1 DEF Stages, StayViews
  <2> QED
    BY <2>1, <2>2 DEF FeedTypeOK
<1>3. EmailInv /\ BookingInv
  BY DEF EmailInv, BookingInv, NothingWritten, InRow
<1>4. OneGuestPerEmail /\ CancellationToldOnce
  BY DEF OneGuestPerEmail, CancellationToldOnce
<1> QED
  BY <1>2, <1>3, <1>4 DEF FeedInv

LEMMA RowIsARow ==
    ASSUME FeedTypeOK, NEW i \in Imports, HasRow(i) \/ stage[i] \in InRow
    PROVE  CurrentRow(i) \in FeedRows
<1>1. pages[i] \in Seq(Seq(FeedRows)) /\ pages[i] # <<>> /\ Head(pages[i]) # <<>>
  BY DEF FeedTypeOK, InRow, HasRow
<1>2. Head(pages[i]) \in Seq(FeedRows)
  BY <1>1
<1> QED
  BY <1>1, <1>2 DEF CurrentRow

(* A step of one import inside its row that commits nothing. *)
LEMMA NextRowTypes ==
    ASSUME FeedTypeOK, NEW i \in Imports, NextRow(i), HasRow(i) \/ stage[i] \in InRow
    PROVE  /\ pages' \in [Imports -> Seq(Seq(FeedRows))]
           /\ \A j \in Imports \ {i} : pages'[j] = pages[j]
           /\ stage' = [stage EXCEPT ![i] = "ROW"]
           /\ lookedUp' = [lookedUp EXCEPT ![i] = "ABSENT"]
           /\ stage[i] \notin {"IDLE", "DONE"}
<1>1. pages[i] \in Seq(Seq(FeedRows)) /\ pages[i] # <<>> /\ Head(pages[i]) # <<>>
  BY DEF FeedTypeOK, InRow, HasRow
<1>2. Tail(Head(pages[i])) \in Seq(FeedRows) /\ Tail(pages[i]) \in Seq(Seq(FeedRows))
  BY <1>1
<1>3. <<Tail(Head(pages[i]))>> \o Tail(pages[i]) \in Seq(Seq(FeedRows))
  BY <1>2
<1>4. pages' = [pages EXCEPT ![i] = <<Tail(Head(pages[i]))>> \o Tail(pages[i])]
  BY DEF NextRow
<1>5. pages' \in [Imports -> Seq(Seq(FeedRows))] /\ \A j \in Imports \ {i} : pages'[j] = pages[j]
  BY <1>3, <1>4 DEF FeedTypeOK
<1> QED
  BY <1>5 DEF NextRow, Goes, HasRow, Working, InRow

LEMMA StartKeepsFeed ==
    ASSUME FeedInv, NEW i \in Imports, NEW feed \in Feeds, StartImport(i, feed)
    PROVE  FeedInv'
<1> USE FeedAssumption DEF FeedInv
<1>1. /\ stage[i] = "IDLE" /\ stage' = [stage EXCEPT ![i] = "ROW"]
      /\ pages' = [pages EXCEPT ![i] = feed]
      /\ UNCHANGED <<booked, known, told, cancels, savedOver, edits, edit, lookedUp, locks, unit>>
  BY DEF StartImport, Working, Goes, committed, peoplesVars
<1>2. pages' \in [Imports -> Seq(Seq(FeedRows))] /\ stage' \in [Imports -> Stages]
  BY <1>1 DEF FeedTypeOK, Stages
<1>3. \A j \in Imports \ {i} : pages'[j] = pages[j] /\ stage'[j] = stage[j]
  BY <1>1 DEF FeedTypeOK
<1>4. FeedTypeOK'
  BY <1>1, <1>2, <1>3 DEF FeedTypeOK
<1>5. EmailInv' /\ BookingInv'
  BY <1>1, <1>3, <1>4 DEF EmailInv, BookingInv, InRow, CurrentRow, View, FeedTypeOK
<1> QED
  BY <1>1, <1>4, <1>5 DEF OneGuestPerEmail, CancellationToldOnce

LEMMA LooksKeepFeed ==
    ASSUME FeedInv, NEW i \in Imports,
           FindBooking(i) \/ NewBooking(i) \/ FindGuest(i) \/ LockEmail(i)
    PROVE  FeedInv'
<1> USE FeedAssumption DEF FeedInv
<1>1. HasRow(i) \/ stage[i] \in InRow
  BY DEF FindBooking, NewBooking, FindGuest, LockEmail, Working, InRow
<1>2. CurrentRow(i) \in FeedRows /\ pages[i] # <<>> /\ Head(pages[i]) # <<>>
  BY <1>1, RowIsARow DEF FeedTypeOK, HasRow, InRow
<1>3. UNCHANGED <<booked, known, told, cancels, savedOver, edits, edit, pages, unit>>
  BY DEF FindBooking, NewBooking, FindGuest, LockEmail, committed, peoplesVars
<1>4. PICK to \in InRow : stage' = [stage EXCEPT ![i] = to] /\ stage[i] \notin {"IDLE", "DONE"}
  BY DEF FindBooking, NewBooking, FindGuest, LockEmail, HasRow, Working, Goes, InRow
<1>5. /\ locks' \in [Imports -> SUBSET (PmsBookings \cup Emails)]
      /\ \A j \in Imports \ {i} : locks'[j] = locks[j]
      /\ locks[i] \subseteq locks'[i]
      /\ \A j \in Imports \ {i} : locks'[i] \cap locks'[j] = {}
  <2>1. CASE locks' = locks
    BY <2>1 DEF FeedTypeOK
  <2>2. ASSUME NEW l \in PmsBookings \cup Emails, TakesLock(i, l) PROVE <1>5!:
    BY <2>2 DEF TakesLock, Free, FeedTypeOK
  <2>3. FindBooking(i) => CurrentRow(i).booking \in PmsBookings
    BY <1>2 DEF FindBooking, FeedRows
  <2>4. LockEmail(i) => CurrentRow(i).email \in Emails
    BY DEF LockEmail, EmailInv, Working
  <2> QED
    BY <2>1, <2>2, <2>3, <2>4 DEF FindBooking, NewBooking, FindGuest, LockEmail
<1>6. /\ lookedUp' \in [Imports -> StayViews]
      /\ \A j \in Imports \ {i} : lookedUp'[j] = lookedUp[j]
  <2>1. \A b \in PmsBookings : View(i, b) \in StayViews
    BY DEF View, FeedTypeOK, Units, StayViews
  <2>2. FindBooking(i) => CurrentRow(i).booking \in PmsBookings
    BY <1>2 DEF FindBooking, FeedRows
  <2>3. \/ \E b \in PmsBookings : lookedUp' = [lookedUp EXCEPT ![i] = View(i, b)]
        \/ lookedUp' = [lookedUp EXCEPT ![i] = "ABSENT"]
        \/ lookedUp' = lookedUp
    BY <2>2 DEF FindBooking, NewBooking, FindGuest, LockEmail
  <2>4. \/ \E view \in StayViews : lookedUp' = [lookedUp EXCEPT ![i] = view]
        \/ lookedUp' = lookedUp
    BY <2>1, <2>3 DEF StayViews
  <2>5. lookedUp \in [Imports -> StayViews]
    BY DEF FeedTypeOK
  <2> QED
    BY <2>4, <2>5
<1>7. FeedTypeOK'
  <2>1. stage' \in [Imports -> Stages]
    BY <1>4 DEF FeedTypeOK, Stages, InRow
  <2>2. \A j \in Imports :
          /\ stage'[j] \in {"IDLE", "DONE"} => locks'[j] = {} /\ unit'[j] = NothingWritten
          /\ stage'[j] \in InRow => pages'[j] # <<>> /\ Head(pages'[j]) # <<>>
    BY <1>2, <1>3, <1>4, <1>5 DEF FeedTypeOK, InRow
  <2>3. \A j, k \in Imports : j # k => locks'[j] \cap locks'[k] = {}
    BY <1>5 DEF FeedTypeOK
  <2> QED
    BY <1>3, <1>5, <1>6, <2>1, <2>2, <2>3 DEF FeedTypeOK, InRow
<1>8. EmailInv'
  <2>1. /\ stage'[i] = "EMAIL" => CurrentRow(i).email \in Emails
        /\ stage'[i] = "AGAIN" => CurrentRow(i).email \in Emails \cap locks'[i]
    BY <1>2, <1>4 DEF FindBooking, NewBooking, FindGuest, LockEmail, EmailInv, FeedTypeOK,
                      Working, Goes, TakesLock, FeedRows
  <2> QED
    BY <1>3, <1>4, <1>5, <2>1 DEF EmailInv, CurrentRow, FeedTypeOK
<1>9. BookingInv'
  <2>1. \A b \in PmsBookings : CurrentRow(i).booking = b =>
           b \in locks'[i] /\ (b \notin savedOver => lookedUp'[i] = View(i, b))
    <3>1. CASE FindBooking(i)
      BY <1>5, <3>1 DEF FindBooking, TakesLock, FeedTypeOK
    <3>2. CASE NewBooking(i)
      BY <3>2 DEF NewBooking
    <3>3. CASE FindGuest(i) \/ LockEmail(i)
      <4>1. lookedUp' = lookedUp /\ stage[i] \in InRow
        BY <3>3 DEF FindGuest, LockEmail, Working, InRow
      <4> QED
        BY <1>5, <4>1 DEF BookingInv
    <3> QED
      BY <3>1, <3>2, <3>3
  <2>2. \A j \in Imports, b \in PmsBookings :
           /\ unit'[j].stays[b] # "KEPT" => b \in locks'[j]
           /\ b \notin savedOver' => unit'[j].told[b] = unit'[j].cancels[b]
    BY <1>3, <1>5 DEF BookingInv
  <2>3. \A j \in Imports : CurrentRow(j)' = CurrentRow(j) /\ \A b : View(j, b)' = View(j, b)
    BY <1>3 DEF CurrentRow, View
  <2>4. \A j \in Imports \ {i} : stage'[j] = stage[j]
    BY <1>4 DEF FeedTypeOK
  <2> QED
    BY <1>3, <1>5, <1>6, <2>1, <2>2, <2>3, <2>4 DEF BookingInv
<1> QED
  BY <1>3, <1>7, <1>8, <1>9 DEF OneGuestPerEmail, CancellationToldOnce

LEMMA AddGuestKeepsFeed ==
    ASSUME FeedInv, NEW i \in Imports, AddGuest(i)
    PROVE  FeedInv'
<1> USE FeedAssumption DEF FeedInv
<1> DEFINE e == CurrentRow(i).email
<1>1. /\ stage[i] = "AGAIN" /\ stage' = [stage EXCEPT ![i] = "SAVE"]
      /\ UNCHANGED <<booked, known, told, cancels, savedOver, edits, edit, pages, lookedUp, locks>>
      /\ e \in Emails /\ e \in locks[i]
  BY DEF AddGuest, Working, Goes, committed, peoplesVars, EmailInv
<1> HIDE DEF e
<1>2. \/ unit' = unit
      \/ /\ unit' = [unit EXCEPT ![i].guests[e] = @ + 1]
         /\ known[e] = 0 /\ unit[i].guests[e] = 0
  <2>1. Finds(i, e) \/ (known[e] = 0 /\ unit[i].guests[e] = 0)
    BY <1>1 DEF Finds, FeedTypeOK, Units
  <2> QED
    BY <2>1 DEF AddGuest, e
<1>3. /\ unit' \in [Imports -> Units]
      /\ \A j \in Imports : /\ unit'[j].stays = unit[j].stays /\ unit'[j].told = unit[j].told
                            /\ unit'[j].cancels = unit[j].cancels
      /\ \A j \in Imports \ {i} : unit'[j] = unit[j]
      /\ \A f \in Emails : unit'[i].guests[f] = unit[i].guests[f] \/
             (f = e /\ known[e] = 0 /\ unit'[i].guests[e] = 1)
  <2>1. unit[i] \in Units /\ e \in Emails
    BY <1>1 DEF FeedTypeOK
  <2>2. CASE unit' = unit
    BY <2>2 DEF FeedTypeOK
  <2>3. CASE /\ unit' = [unit EXCEPT ![i].guests[e] = @ + 1]
             /\ known[e] = 0 /\ unit[i].guests[e] = 0
    <3>1. /\ unit'[i].stays = unit[i].stays /\ unit'[i].told = unit[i].told
          /\ unit'[i].cancels = unit[i].cancels
          /\ unit'[i].guests = [unit[i].guests EXCEPT ![e] = @ + 1]
          /\ unit' = [unit EXCEPT ![i] = unit'[i]]
          /\ unit'[i] = [stays |-> unit'[i].stays, guests |-> unit'[i].guests,
                         told |-> unit'[i].told, cancels |-> unit'[i].cancels,
                         newlyCancelled |-> unit'[i].newlyCancelled]
          /\ unit'[i].newlyCancelled \in BOOLEAN
      BY <2>1, <2>3 DEF FeedTypeOK, Units
    <3>2. unit'[i].guests = [unit[i].guests EXCEPT ![e] = 1]
      BY <2>1, <2>3, <3>1 DEF Units
    <3>3. unit'[i].guests \in [Emails -> Nat]
      BY <2>1, <3>2 DEF Units
    <3>4. unit'[i] \in Units
      BY <2>1, <3>1, <3>3 DEF Units
    <3>5. \A f \in Emails : unit'[i].guests[f] = IF f = e THEN 1 ELSE unit[i].guests[f]
      BY <2>1, <3>2 DEF Units
    <3>6. /\ unit' \in [Imports -> Units]
          /\ \A j \in Imports \ {i} : unit'[j] = unit[j]
      BY <3>1, <3>4 DEF FeedTypeOK
    <3> QED
      <4>1. \A j \in Imports : /\ unit'[j].stays = unit[j].stays
                              /\ unit'[j].told = unit[j].told
                              /\ unit'[j].cancels = unit[j].cancels
        BY <3>1, <3>6
      <4>2. \A f \in Emails : unit'[i].guests[f] = unit[i].guests[f] \/
              (f = e /\ known[e] = 0 /\ unit'[i].guests[e] = 1)
        BY <2>1, <2>3, <3>5
      <4> QED
        BY <3>6, <4>1, <4>2
  <2> QED
    BY <1>2, <2>2, <2>3
<1>4. FeedTypeOK'
  <2>1. stage' \in [Imports -> Stages] /\ \A j \in Imports \ {i} : stage'[j] = stage[j]
    BY <1>1 DEF FeedTypeOK, Stages
  <2> QED
    BY <1>1, <1>3, <2>1 DEF FeedTypeOK
<1>5. EmailInv'
  <2>1. \A j \in Imports : stage'[j] \in {"EMAIL", "AGAIN"} => stage'[j] = stage[j]
    BY <1>1 DEF FeedTypeOK
  <2> QED
    BY <1>1, <1>3, <2>1 DEF EmailInv, CurrentRow
<1>6. BookingInv'
  <2>1. \A j \in Imports : stage'[j] \in InRow => stage[j] \in InRow
    BY <1>1 DEF FeedTypeOK, InRow
  <2> QED
    BY <1>1, <1>3, <2>1 DEF BookingInv, CurrentRow, View
<1> QED
  BY <1>1, <1>4, <1>5, <1>6 DEF OneGuestPerEmail, CancellationToldOnce

LEMMA RowsKeepFeed ==
    ASSUME FeedInv, NEW i \in Imports, SaveRow(i) \/ PassRow(i)
    PROVE  FeedInv'
<1> USE FeedAssumption DEF FeedInv
<1>1. /\ HasRow(i) \/ stage[i] \in InRow
      /\ NextRow(i)
      /\ UNCHANGED <<booked, known, told, cancels, savedOver, edits, edit, locks>>
  BY DEF SaveRow, PassRow, Working, InRow, committed, peoplesVars
<1>2. /\ pages' \in [Imports -> Seq(Seq(FeedRows))]
      /\ \A j \in Imports \ {i} : pages'[j] = pages[j]
      /\ stage' = [stage EXCEPT ![i] = "ROW"]
      /\ lookedUp' = [lookedUp EXCEPT ![i] = "ABSENT"]
      /\ stage[i] \notin {"IDLE", "DONE"}
  BY <1>1, NextRowTypes
<1>3. /\ unit' \in [Imports -> Units]
      /\ \A j \in Imports \ {i} : unit'[j] = unit[j]
      /\ unit'[i].guests = unit[i].guests
      /\ \A b \in PmsBookings :
            /\ unit'[i].stays[b] # "KEPT" => b \in locks[i]
            /\ b \notin savedOver => unit'[i].told[b] = unit'[i].cancels[b]
  <2>1. CASE PassRow(i)
    BY <2>1 DEF PassRow, FeedTypeOK, BookingInv
  <2>2. CASE SaveRow(i)
    <3> DEFINE b == CurrentRow(i).booking
               to == CurrentRow(i).status
               IsNew(st) == to = "CANCELLED" /\ st = "CONFIRMED"
    <3>1. /\ stage[i] = "SAVE" /\ b # NoBooking /\ CurrentRow(i) \in FeedRows
          /\ unit' = [unit EXCEPT
                ![i].stays[b] = to,
                ![i].told[b] = IF IsNew(lookedUp[i]) THEN @ + 1 ELSE @,
                ![i].cancels[b] = IF IsNew(View(i, b)) THEN @ + 1 ELSE @,
                ![i].newlyCancelled = @ \/ IsNew(lookedUp[i])]
      BY <2>2, RowIsARow DEF SaveRow, Working, InRow
    <3>2. b \in PmsBookings /\ to \in StayStatuses
      BY <3>1 DEF FeedRows
    <3>3. b \in locks[i] /\ (b \notin savedOver => lookedUp[i] = View(i, b))
      BY <3>1, <3>2 DEF BookingInv, InRow
    <3> HIDE DEF b, to
    <3>4. unit[i] \in Units
      BY DEF FeedTypeOK
    <3>5. /\ unit'[i].stays = [unit[i].stays EXCEPT ![b] = to]
          /\ unit'[i].told =
               [unit[i].told EXCEPT ![b] = IF IsNew(lookedUp[i]) THEN @ + 1 ELSE @]
          /\ unit'[i].cancels =
               [unit[i].cancels EXCEPT ![b] = IF IsNew(View(i, b)) THEN @ + 1 ELSE @]
          /\ unit'[i].guests = unit[i].guests
          /\ unit' = [unit EXCEPT ![i] = unit'[i]]
          /\ unit'[i] = [stays |-> unit'[i].stays, guests |-> unit'[i].guests,
                         told |-> unit'[i].told, cancels |-> unit'[i].cancels,
                         newlyCancelled |-> unit'[i].newlyCancelled]
          /\ unit'[i].newlyCancelled \in BOOLEAN
      BY <3>1, <3>4, ZenonT(60) DEF FeedTypeOK, Units
    <3> DEFINE t == IF IsNew(lookedUp[i]) THEN unit[i].told[b] + 1 ELSE unit[i].told[b]
               c == IF IsNew(View(i, b)) THEN unit[i].cancels[b] + 1 ELSE unit[i].cancels[b]
    <3>6. /\ unit'[i].told = [unit[i].told EXCEPT ![b] = t]
          /\ unit'[i].cancels = [unit[i].cancels EXCEPT ![b] = c]
          /\ t \in Nat /\ c \in Nat
      BY <3>2, <3>4, <3>5 DEF Units
    <3>7. b \notin savedOver => t = c
      BY <3>2, <3>3 DEF BookingInv
    <3> HIDE DEF t, c, IsNew
    <3>8. /\ unit'[i].stays \in [PmsBookings -> StayStatuses \cup {"KEPT"}]
          /\ unit'[i].told \in [PmsBookings -> Nat] /\ unit'[i].cancels \in [PmsBookings -> Nat]
      BY <3>2, <3>4, <3>5, <3>6 DEF Units
    <3>9. unit'[i] \in Units
      BY <3>4, <3>5, <3>8 DEF Units
    <3>10. \A d \in PmsBookings :
             /\ unit'[i].stays[d] # "KEPT" => d \in locks[i]
             /\ d \notin savedOver => unit'[i].told[d] = unit'[i].cancels[d]
      BY <3>2, <3>3, <3>4, <3>5, <3>6, <3>7 DEF BookingInv, Units
    <3> QED
      BY <3>5, <3>9, <3>10 DEF FeedTypeOK
  <2> QED
    BY <2>1, <2>2
<1>4. FeedTypeOK'
  <2>1. stage' \in [Imports -> Stages] /\ \A j \in Imports \ {i} : stage'[j] = stage[j]
    BY <1>2 DEF FeedTypeOK, Stages
  <2>2. lookedUp' \in [Imports -> StayViews]
    BY <1>2 DEF FeedTypeOK, StayViews
  <2> QED
    BY <1>1, <1>2, <1>3, <2>1, <2>2 DEF FeedTypeOK
<1>5. \A j \in Imports : stage'[j] \in InRow => j # i /\ stage'[j] = stage[j]
  BY <1>2 DEF FeedTypeOK, InRow
<1>6. \A j \in Imports \ {i} : CurrentRow(j)' = CurrentRow(j) /\ lookedUp'[j] = lookedUp[j]
                              /\ \A b : View(j, b)' = View(j, b)
  BY <1>1, <1>2, <1>3 DEF CurrentRow, View, FeedTypeOK
<1>7. EmailInv'
  BY <1>1, <1>3, <1>5, <1>6 DEF EmailInv, InRow
<1>8. BookingInv'
  BY <1>1, <1>3, <1>5, <1>6 DEF BookingInv
<1> QED
  BY <1>1, <1>4, <1>7, <1>8 DEF OneGuestPerEmail, CancellationToldOnce

(* The end of a transaction, committed or rolled back. *)
LEMMA EndsKeepFeed ==
    ASSUME FeedInv, NEW i \in Imports, PageEnds(i) \/ ImportEnds(i) \/ RollsBack(i)
    PROVE  FeedInv'
<1> USE FeedAssumption DEF FeedInv
<1>1. NothingWritten \in Units
  BY DEF NothingWritten, Units
<1>2. /\ \A j \in Imports \ {i} : pages'[j] = pages[j] /\ stage'[j] = stage[j]
                                  /\ lookedUp'[j] = lookedUp[j]
      /\ stage'[i] \in {"ROW", "DONE"} /\ stage' \in [Imports -> Stages]
      /\ lookedUp' \in [Imports -> StayViews] /\ pages' \in [Imports -> Seq(Seq(FeedRows))]
      /\ UNCHANGED <<savedOver, edits, edit>>
  <2>1. CASE PageEnds(i)
    <3>1. pages[i] # <<>> /\ pages[i] \in Seq(Seq(FeedRows))
      BY <2>1 DEF PageEnds, FeedTypeOK
    <3>2. Tail(pages[i]) \in Seq(Seq(FeedRows))
      BY <3>1
    <3> QED
      BY <2>1, <3>2 DEF PageEnds, FeedTypeOK, Working, peoplesVars
  <2>2. CASE ImportEnds(i)
    BY <2>2 DEF ImportEnds, FeedTypeOK, Working, Goes, peoplesVars, Stages
  <2>3. CASE RollsBack(i)
    BY <2>3 DEF RollsBack, FeedTypeOK, Goes, peoplesVars, Stages, StayViews
  <2> QED
    BY <2>1, <2>2, <2>3
<1>3. CASE /\ unit' = [unit EXCEPT ![i].newlyCancelled = FALSE]
           /\ UNCHANGED <<booked, known, told, cancels, locks>> /\ stage' = stage
           /\ stage[i] = "ROW"
  <2>0. /\ unit' \in [Imports -> Units] /\ \A j \in Imports \ {i} : unit'[j] = unit[j]
        /\ \A j \in Imports : /\ unit'[j].stays = unit[j].stays
                              /\ unit'[j].guests = unit[j].guests
                              /\ unit'[j].told = unit[j].told
                              /\ unit'[j].cancels = unit[j].cancels
    <3>1. unit \in [Imports -> Units]
      BY DEF FeedTypeOK
    <3> DEFINE u == [unit[i] EXCEPT !.newlyCancelled = FALSE]
    <3>2. /\ u \in Units
          /\ u.stays = unit[i].stays /\ u.guests = unit[i].guests
          /\ u.told = unit[i].told /\ u.cancels = unit[i].cancels
      BY <3>1 DEF Units
    <3>3. unit' = [unit EXCEPT ![i] = u]
      BY <1>3
    <3> HIDE DEF u
    <3>4. unit'[i] = u /\ \A j \in Imports \ {i} : unit'[j] = unit[j]
      BY <3>1, <3>3
    <3> QED BY <3>1, <3>2, <3>3, <3>4
  <2>1. \A j \in Imports : stage'[j] \in InRow =>
          CurrentRow(j)' = CurrentRow(j) /\ lookedUp'[j] = lookedUp[j]
    BY <1>2 DEF CurrentRow, InRow
  <2>2. stage[i] \notin InRow
    BY <1>2, <1>3 DEF InRow
  <2>3. FeedTypeOK'
    BY <1>2, <1>3, <2>0, <2>2 DEF FeedTypeOK, InRow
  <2>4. EmailInv' /\ BookingInv'
    <3>1. \A j \in Imports, b \in PmsBookings : View(j, b)' = View(j, b)
      BY <1>3, <2>0 DEF View
    <3>2. EmailInv'
      BY <1>3, <2>0, <2>1 DEF EmailInv, InRow
    <3>3. ASSUME NEW j \in Imports, stage'[j] \in InRow, NEW b \in PmsBookings,
                 CurrentRow(j)'.booking = b
          PROVE  b \in locks'[j] /\ (b \notin savedOver' => lookedUp'[j] = View(j, b)')
      <4>1. stage[j] \in InRow /\ CurrentRow(j).booking = b /\ lookedUp'[j] = lookedUp[j]
        BY <1>3, <2>1, <3>3
      <4>2. b \in locks[j] /\ (b \notin savedOver => lookedUp[j] = View(j, b))
        BY <4>1 DEF BookingInv
      <4> QED
        BY <1>2, <1>3, <3>1, <4>1, <4>2
    <3>4. \A j \in Imports, b \in PmsBookings :
            /\ unit'[j].stays[b] # "KEPT" => b \in locks'[j]
            /\ b \notin savedOver' => unit'[j].told[b] = unit'[j].cancels[b]
      BY <1>2, <1>3, <2>0 DEF BookingInv
    <3> QED
      BY <3>2, <3>3, <3>4 DEF BookingInv
  <2> QED
    BY <1>2, <1>3, <2>3, <2>4 DEF OneGuestPerEmail, CancellationToldOnce
<1>4. CASE /\ unit' = [unit EXCEPT ![i] = NothingWritten]
           /\ locks' = [locks EXCEPT ![i] = {}]
           /\ \/ UNCHANGED <<booked, known, told, cancels>>
              \/ ImportCommits(i)
  <2>1. /\ unit' \in [Imports -> Units] /\ locks' \in [Imports -> SUBSET (PmsBookings \cup Emails)]
        /\ unit'[i] = NothingWritten /\ locks'[i] = {}
        /\ \A j \in Imports \ {i} : unit'[j] = unit[j] /\ locks'[j] = locks[j]
                                    /\ locks[i] \cap locks[j] = {}
    BY <1>1, <1>4 DEF FeedTypeOK
  <2>2. /\ booked' \in [PmsBookings -> StayViews] /\ known' \in [Emails -> Nat]
        /\ told' \in [PmsBookings -> Nat] /\ cancels' \in [PmsBookings -> Nat]
    <3>1. CASE UNCHANGED <<booked, known, told, cancels>>
      BY <3>1 DEF FeedTypeOK
    <3>2. CASE ImportCommits(i)
      <4>1. unit[i] \in Units
        BY DEF FeedTypeOK
      <4>2. \A b \in PmsBookings : View(i, b) \in StayViews
        BY <4>1 DEF View, FeedTypeOK, Units, StayViews
      <4>3. \A e \in Emails : known[e] + unit[i].guests[e] \in Nat
        BY <4>1 DEF FeedTypeOK, Units
      <4>4. \A b \in PmsBookings : /\ told[b] + unit[i].told[b] \in Nat
                                   /\ cancels[b] + unit[i].cancels[b] \in Nat
        BY <4>1 DEF FeedTypeOK, Units
      <4> QED
        BY <3>2, <4>2, <4>3, <4>4 DEF ImportCommits
    <3> QED
      BY <1>4, <3>1, <3>2
  <2>3. FeedTypeOK'
    BY <1>2, <2>1, <2>2 DEF FeedTypeOK
  <2>4. \A e \in Emails : known'[e] = known[e] \/
            (known[e] = 0 /\ known'[e] = 1 /\ e \in locks[i])
    <3>1. ASSUME NEW e \in Emails, ImportCommits(i)
          PROVE  known'[e] = known[e] \/ (known[e] = 0 /\ known'[e] = 1 /\ e \in locks[i])
      <4>1. /\ known'[e] = known[e] + unit[i].guests[e]
            /\ known[e] \in Nat /\ unit[i].guests[e] \in Nat
        BY <3>1 DEF ImportCommits, FeedTypeOK, Units
      <4>2. CASE unit[i].guests[e] = 0
        BY <4>1, <4>2
      <4>3. CASE unit[i].guests[e] # 0
        BY <4>1, <4>3 DEF EmailInv
      <4> QED
        BY <4>2, <4>3
    <3> QED
      BY <1>4, <3>1
  <2>5. \A b \in PmsBookings : booked'[b] = booked[b] \/ b \in locks[i]
    BY <1>4 DEF ImportCommits, View, BookingInv
  <2>6. EmailInv'
    <3>1. ASSUME NEW j \in Imports \ {i}, NEW e \in Emails, unit'[j].guests[e] # 0
          PROVE  e \in locks'[j] /\ known'[e] = 0 /\ unit'[j].guests[e] = 1
      BY <2>1, <2>4, <3>1 DEF EmailInv
    <3>2. \A e \in Emails : unit'[i].guests[e] = 0
      BY <2>1 DEF NothingWritten
    <3>3. \A j \in Imports : stage'[j] \in {"EMAIL", "AGAIN"} =>
            /\ j # i /\ stage'[j] = stage[j] /\ CurrentRow(j)' = CurrentRow(j)
            /\ locks'[j] = locks[j]
      BY <1>2, <2>1 DEF CurrentRow
    <3>4. ASSUME NEW j \in Imports
          PROVE  /\ \A e \in Emails : unit'[j].guests[e] # 0 =>
                      e \in locks'[j] /\ known'[e] = 0 /\ unit'[j].guests[e] = 1
                 /\ stage'[j] = "EMAIL" => CurrentRow(j)'.email \in Emails
                 /\ stage'[j] = "AGAIN" => CurrentRow(j)'.email \in Emails \cap locks'[j]
      BY <3>1, <3>2, <3>3 DEF EmailInv
    <3> QED
      BY <3>4 DEF EmailInv
  <2>7. BookingInv'
    <3>1. \A b \in PmsBookings : /\ unit'[i].stays[b] = "KEPT"
                                 /\ unit'[i].told[b] = unit'[i].cancels[b]
      BY <2>1 DEF NothingWritten
    <3>2. \A j \in Imports : stage'[j] \in InRow =>
            /\ j # i /\ stage'[j] = stage[j] /\ CurrentRow(j)' = CurrentRow(j)
            /\ lookedUp'[j] = lookedUp[j]
            /\ \A b \in PmsBookings : b \in locks[j] => View(j, b)' = View(j, b)
      BY <1>2, <2>1, <2>5 DEF CurrentRow, View, InRow
    <3>3. \A j \in Imports \ {i}, b \in PmsBookings :
            /\ unit'[j].stays[b] # "KEPT" => b \in locks'[j]
            /\ b \notin savedOver' => unit'[j].told[b] = unit'[j].cancels[b]
      <4>1. \A j \in Imports \ {i} : unit'[j] = unit[j] /\ locks'[j] = locks[j]
        BY <2>1
      <4>2. savedOver' = savedOver
        BY <1>2
      <4> QED
        BY <4>1, <4>2 DEF BookingInv
    <3>4. ASSUME NEW j \in Imports, stage'[j] \in InRow, NEW b \in PmsBookings,
                 CurrentRow(j)'.booking = b
          PROVE  b \in locks'[j] /\ (b \notin savedOver' => lookedUp'[j] = View(j, b)')
      <4>1. /\ j # i /\ stage[j] \in InRow /\ CurrentRow(j).booking = b
            /\ lookedUp'[j] = lookedUp[j]
            /\ b \in locks[j] => View(j, b)' = View(j, b)
        BY <3>2, <3>4
      <4>2. b \in locks[j] /\ (b \notin savedOver => lookedUp[j] = View(j, b))
        BY <4>1 DEF BookingInv
      <4> QED
        BY <1>2, <2>1, <4>1, <4>2
    <3> QED
      BY <3>1, <3>3, <3>4 DEF BookingInv
  <2>8. OneGuestPerEmail'
    BY <2>4 DEF OneGuestPerEmail
  <2>9. CancellationToldOnce'
    BY <1>2, <1>4 DEF ImportCommits, CancellationToldOnce, BookingInv
  <2> QED
    BY <2>3, <2>6, <2>7, <2>8, <2>9
<1> QED
  BY <1>3, <1>4 DEF PageEnds, ImportEnds, RollsBack, ImportCommits, Working, committed

LEMMA PeopleKeepFeed ==
    ASSUME FeedInv,
           \/ \E b \in PmsBookings : LoadStay(b)
           \/ \E c \in edit, to \in StayStatuses : SaveStay(c, to)
    PROVE  FeedInv'
<1> USE FeedAssumption DEF FeedInv
<1>1. ASSUME NEW b \in PmsBookings, LoadStay(b) PROVE FeedInv'
  <2>1. /\ edits < MaxEdits /\ booked[b] \in StayStatuses /\ edits' = edits + 1
        /\ edit' = edit \cup {[booking |-> b, seen |-> booked[b]]}
        /\ UNCHANGED <<booked, known, told, cancels, savedOver, pages, stage, lookedUp, locks, unit>>
    BY <1>1 DEF LoadStay, FeedTypeOK, StayViews, committed, importVars
  <2>2. FeedTypeOK'
    BY <2>1 DEF FeedTypeOK
  <2> QED
    BY <2>1, <2>2 DEF EmailInv, BookingInv, CurrentRow, View, OneGuestPerEmail,
                      CancellationToldOnce
<1>2. ASSUME NEW c \in edit, NEW to \in StayStatuses, SaveStay(c, to) PROVE FeedInv'
  <2> DEFINE b == c.booking
  <2>1. /\ c \in [booking : PmsBookings, seen : StayStatuses]
        /\ \A i \in Imports : unit[i].stays[b] = "KEPT"
        /\ booked' = [booked EXCEPT ![b] = to]
        /\ told' = [told EXCEPT ![b] =
               IF c.seen = "CONFIRMED" /\ to = "CANCELLED" THEN @ + 1 ELSE @]
        /\ cancels' = [cancels EXCEPT ![b] =
               IF booked[b] = "CONFIRMED" /\ to = "CANCELLED" THEN @ + 1 ELSE @]
        /\ savedOver' = IF booked[b] # c.seen \/ \E i \in Imports : b \in locks[i]
                        THEN savedOver \cup {b} ELSE savedOver
        /\ edit' = edit \ {c}
        /\ UNCHANGED <<known, edits, pages, stage, lookedUp, locks, unit>>
    BY <1>2 DEF SaveStay, FeedTypeOK, importVars
  <2> HIDE DEF b
  <2>2. b \in PmsBookings
    BY <2>1 DEF b
  <2>3. FeedTypeOK'
    BY <2>1, <2>2 DEF FeedTypeOK, StayViews
  <2>4. EmailInv' /\ OneGuestPerEmail'
    BY <2>1 DEF EmailInv, OneGuestPerEmail, CurrentRow
  <2>5. BookingInv'
    <3>1. \A d \in PmsBookings : booked'[d] = booked[d] \/ d \in savedOver' \/
              (d = b /\ \A i \in Imports : b \notin locks[i])
      BY <2>1, <2>2 DEF FeedTypeOK
    <3>2. savedOver \subseteq savedOver'
      BY <2>1
    <3> QED
      BY <2>1, <3>1, <3>2 DEF BookingInv, CurrentRow, View
  <2>6. CancellationToldOnce'
    <3>1. \A d \in PmsBookings : d # b => told'[d] = told[d] /\ cancels'[d] = cancels[d]
      BY <2>1, <2>2 DEF FeedTypeOK
    <3>2. b \in savedOver' \/ (booked[b] = c.seen /\ savedOver' = savedOver)
      BY <2>1
    <3>3. b \notin savedOver' => told'[b] = cancels'[b]
      BY <2>1, <2>2, <3>2 DEF FeedTypeOK, CancellationToldOnce
    <3> QED
      BY <2>1, <3>1, <3>3 DEF CancellationToldOnce
  <2> QED
    BY <2>3, <2>4, <2>5, <2>6
<1> QED
  BY <1>1, <1>2

LEMMA FeedNextKeepsInv == FeedInv /\ [FeedNext]_feedVars => FeedInv'
<1> SUFFICES ASSUME FeedInv, [FeedNext]_feedVars PROVE FeedInv'
  OBVIOUS
<1>1. CASE UNCHANGED feedVars
  BY <1>1 DEF feedVars, FeedInv, FeedTypeOK, EmailInv, BookingInv, OneGuestPerEmail,
              CancellationToldOnce, CurrentRow, View
<1>2. CASE FeedNext
  BY <1>2, StartKeepsFeed, LooksKeepFeed, AddGuestKeepsFeed, RowsKeepFeed, EndsKeepFeed,
     PeopleKeepFeed DEF FeedNext
<1> QED
  BY <1>1, <1>2

LEMMA FeedInvAlways == FeedSpec => []FeedInv
  BY FeedInitInv, FeedNextKeepsInv, PTL DEF FeedSpec

(* Imports, their transactions and their locks keep their types; no two    *)
(* imports hold the same lock.                                             *)
THEOREM FeedTypeCorrect == FeedSpec => []FeedTypeOK
<1>1. FeedInv => FeedTypeOK
  BY DEF FeedInv
<1> QED
  BY <1>1, FeedInvAlways, PTL

(* However many imports resolve the same address at once, it gets one      *)
(* guest (ResolveOrCreateGuest looks again under the address's lock).      *)
THEOREM AddressHasOneGuest == FeedSpec => []OneGuestPerEmail
<1>1. FeedInv => OneGuestPerEmail
  BY DEF FeedInv
<1> QED
  BY <1>1, FeedInvAlways, PTL

(* However many imports carry a cancellation, whatever rolls back, it is   *)
(* told as often as it happened (the booking is locked before it is read), *)
(* unless a person's save crossed another.                                 *)
THEOREM CancellationIsToldOnce == FeedSpec => []CancellationToldOnce
<1>1. FeedInv => CancellationToldOnce
  BY DEF FeedInv
<1> QED
  BY <1>1, FeedInvAlways, PTL
-----------------------------------------------------------------------------
(* A conversation with a guest. *)

(* What the row and every copy in hand look like. *)
Fits(c) ==
    /\ c \in Conversations
    /\ c.status = "ESCALATED" <=> HandedOver(c)
    /\ c.escalation = "RESOLVED" => c.status = "RESOLVED"

CopiesFit ==
    /\ Fits(talk)
    /\ \A d \in Deliveries : \A m \in delivery[d] :
         /\ Fits(m.before) /\ Fits(m.copy)
         /\ m.copy.status # "RESOLVED"
         /\ HandedOver(m.before) => m.copy = m.before
    /\ \A s \in Staff : \A m \in reply[s] :
         Fits(m.before) /\ (m.op = "escalate" => CanEscalate(m.before))

AlertsAreUrgent == announced # "never" => urgent

TalkInv == TalkTypeOK /\ CopiesFit /\ AlertsAreUrgent /\ UrgentMessagesReachAPerson

LEMMA TalkInitInv == TalkInit => TalkInv
<1> SUFFICES ASSUME TalkInit PROVE TalkInv
  OBVIOUS
<1> USE DEF TalkInit
<1>1. Fits(talk)
  BY DEF Fits, HandedOver, Conversations, ConversationStatuses, EscalationStatuses
<1>2. TalkTypeOK
  BY <1>1 DEF TalkTypeOK, Fits, HandedOver
<1>3. CopiesFit
  BY <1>1 DEF CopiesFit
<1> QED
  BY <1>2, <1>3 DEF TalkInv, AlertsAreUrgent, UrgentMessagesReachAPerson

(* The moves of the entity lead from one that fits to one that fits. *)
LEMMA MovesFit ==
    ASSUME NEW c, Fits(c)
    PROVE  /\ Fits(Escalated(c)) /\ HandedOver(Escalated(c))
           /\ Fits(Reopened(c)) /\ Reopened(c).status # "RESOLVED"
           /\ HandedOver(c) => Reopened(c) = c
           /\ Fits(Resolved(c))
           /\ Fits(TakenOver(c)) /\ (HandedOver(c) => HandedOver(TakenOver(c)))
<1> USE DEF Fits, HandedOver, Conversations, ConversationStatuses, EscalationStatuses
<1>1. Fits(Escalated(c)) /\ HandedOver(Escalated(c))
  BY DEF Escalated
<1>2. /\ Fits(Reopened(c)) /\ Reopened(c).status # "RESOLVED"
      /\ HandedOver(c) => Reopened(c) = c
  BY DEF Reopened
<1>3. Fits(Resolved(c))
  BY DEF Resolved
<1>4. Fits(TakenOver(c)) /\ (HandedOver(c) => HandedOver(TakenOver(c)))
  BY DEF TakenOver
<1> QED
  BY <1>1, <1>2, <1>3, <1>4

LEMMA ReceiveKeepsTalk ==
    ASSUME TalkInv, NEW d \in Deliveries, NEW ambiguous \in BOOLEAN, Receive(d, ambiguous)
    PROVE  TalkInv'
<1> DEFINE copy == IF ambiguous /\ CanEscalate(talk) THEN Escalated(talk) ELSE Reopened(talk)
           fresh == [before |-> talk, copy |-> copy]
<1>1. Fits(talk)
  BY DEF TalkInv, CopiesFit
<1>2. Fits(copy) /\ copy.status # "RESOLVED" /\ (HandedOver(talk) => copy = talk)
  BY <1>1, MovesFit DEF CanEscalate, HandedOver, Escalated
<1> HIDE DEF copy
<1>3. fresh \in [before : Conversations, copy : Conversations]
  BY <1>1, <1>2 DEF Fits
<1>4. delivery' = [delivery EXCEPT ![d] = {fresh}]
      /\ UNCHANGED <<talk, reply, urgent, announced, overwritten>>
  BY DEF Receive, copy
<1> HIDE DEF fresh
<1>5. TalkTypeOK'
  BY <1>3, <1>4 DEF TalkInv, TalkTypeOK, HandedOver
<1>6. \A b \in Deliveries : \A m \in delivery'[b] : m \in delivery[b] \/ m = fresh
  BY <1>4 DEF TalkInv, TalkTypeOK
<1>7. CopiesFit'
  BY <1>1, <1>2, <1>4, <1>6 DEF TalkInv, CopiesFit, Fits, HandedOver, fresh
<1>8. AlertsAreUrgent' /\ UrgentMessagesReachAPerson'
  BY <1>4 DEF TalkInv, AlertsAreUrgent, UrgentMessagesReachAPerson, HandedOver
<1> QED
  BY <1>5, <1>7, <1>8 DEF TalkInv

LEMMA DeliveriesKeepTalk ==
    ASSUME TalkInv, NEW d \in Deliveries,
           \/ \E m \in delivery[d] : AnswersGuest(d, m) \/ HandsOver(d, m)
           \/ DeliveryRollsBack(d)
    PROVE  TalkInv'
<1>1. delivery' = [delivery EXCEPT ![d] = {}] /\ UNCHANGED reply
  BY DEF AnswersGuest, HandsOver, DeliveryRollsBack
<1>2. \A b \in Deliveries : delivery'[b] \subseteq delivery[b]
  BY <1>1 DEF TalkInv, TalkTypeOK
<1>3. /\ delivery' \in [Deliveries -> SUBSET [before : Conversations, copy : Conversations]]
      /\ reply' \in [Staff -> SUBSET [before : Conversations, op : StaffOperations]]
  BY <1>1 DEF TalkInv, TalkTypeOK
<1>4. ASSUME Fits(talk'), urgent' \in BOOLEAN, overwritten' \in BOOLEAN,
             announced' \in {"never", "once", "again"},
             AlertsAreUrgent', UrgentMessagesReachAPerson'
      PROVE  TalkInv'
  <2>1. TalkTypeOK'
    BY <1>3, <1>4 DEF TalkTypeOK, Fits, HandedOver
  <2>2. CopiesFit'
    BY <1>1, <1>2, <1>4 DEF TalkInv, CopiesFit, Fits, HandedOver
  <2> QED
    BY <1>4, <2>1, <2>2 DEF TalkInv
<1>5. CASE \E m \in delivery[d] : AnswersGuest(d, m)
  <2>1. PICK m \in delivery[d] : AnswersGuest(d, m)
    BY <1>5
  <2>2. /\ talk' = m.copy /\ UNCHANGED <<urgent, announced>>
        /\ overwritten' = (overwritten \/ talk # m.before)
    BY <2>1 DEF AnswersGuest, SavesTalk
  <2>3. Fits(talk')
    BY <2>2 DEF TalkInv, CopiesFit
  <2>4. ~overwritten' => ~overwritten /\ (HandedOver(talk) => talk' = talk)
    BY <2>2 DEF TalkInv, CopiesFit
  <2>5. UrgentMessagesReachAPerson'
    BY <2>2, <2>4 DEF TalkInv, UrgentMessagesReachAPerson, HandedOver
  <2> QED
    BY <1>4, <2>2, <2>3, <2>5 DEF TalkInv, TalkTypeOK, AlertsAreUrgent
<1>6. CASE \E m \in delivery[d] : HandsOver(d, m)
  <2>1. PICK m \in delivery[d] : HandsOver(d, m)
    BY <1>6
  <2> DEFINE after == IF CanEscalate(m.copy) THEN Escalated(m.copy) ELSE m.copy
  <2>2. Fits(m.copy) /\ m.copy.status # "RESOLVED" /\ (HandedOver(m.before) => m.copy = m.before)
    BY DEF TalkInv, CopiesFit
  <2>3. Fits(after) /\ HandedOver(after)
    <3>1. CASE CanEscalate(m.copy)
      BY <2>2, <3>1, MovesFit
    <3>2. CASE ~CanEscalate(m.copy)
      <4>1. m.copy.escalation # "NONE"
        BY <2>1, <3>2 DEF HandsOver
      <4> QED
        BY <2>2, <3>2, <4>1 DEF Fits, HandedOver, Conversations, EscalationStatuses
    <3> QED
      BY <3>1, <3>2
  <2>4. /\ talk' = after
        /\ overwritten' = (overwritten \/ talk # m.before)
        /\ urgent' = TRUE
        /\ announced' = IF CanEscalate(m.copy)
                          THEN IF announced = "never" THEN "once" ELSE "again" ELSE announced
    BY <2>1 DEF HandsOver, SavesTalk
  <2> HIDE DEF after
  <2>5. HandedOver(talk')
    BY <2>3, <2>4
  <2>6. ~overwritten' => announced' # "again"
    <3> SUFFICES ASSUME ~overwritten' PROVE announced' # "again"
      OBVIOUS
    <3>1. ~overwritten /\ talk = m.before
      BY <2>4
    <3>2. announced # "never" => HandedOver(talk)
      BY <3>1 DEF TalkInv, AlertsAreUrgent, UrgentMessagesReachAPerson
    <3>3. announced # "never" => ~CanEscalate(m.copy)
      BY <2>2, <3>1, <3>2 DEF CanEscalate, HandedOver
    <3> QED
      BY <2>4, <3>1, <3>3 DEF TalkInv, UrgentMessagesReachAPerson
  <2>7. UrgentMessagesReachAPerson'
    BY <2>5, <2>6 DEF UrgentMessagesReachAPerson, HandedOver
  <2>8. /\ Fits(talk') /\ AlertsAreUrgent' /\ urgent' \in BOOLEAN /\ overwritten' \in BOOLEAN
        /\ announced' \in {"never", "once", "again"}
    BY <2>3, <2>4 DEF TalkInv, TalkTypeOK, AlertsAreUrgent
  <2> QED
    BY <1>4, <2>7, <2>8
<1>7. CASE DeliveryRollsBack(d)
  BY <1>4, <1>7 DEF DeliveryRollsBack, TalkInv, TalkTypeOK, CopiesFit, Fits, HandedOver,
                    AlertsAreUrgent, UrgentMessagesReachAPerson
<1> QED
  BY <1>5, <1>6, <1>7

LEMMA LoadKeepsTalk ==
    ASSUME TalkInv, NEW s \in Staff, NEW op \in StaffOperations, LoadConversation(s, op)
    PROVE  TalkInv'
<1> DEFINE fresh == [before |-> talk, op |-> op]
<1>1. /\ reply' = [reply EXCEPT ![s] = {fresh}]
      /\ UNCHANGED <<talk, delivery, urgent, announced, overwritten>>
      /\ op = "escalate" => CanEscalate(talk)
  BY DEF LoadConversation
<1>2. fresh \in [before : Conversations, op : StaffOperations]
  BY DEF TalkInv, TalkTypeOK
<1> HIDE DEF fresh
<1>3. TalkTypeOK'
  BY <1>1, <1>2 DEF TalkInv, TalkTypeOK, HandedOver
<1>4. \A b \in Staff : \A m \in reply'[b] : m \in reply[b] \/ m = fresh
  BY <1>1 DEF TalkInv, TalkTypeOK
<1>5. CopiesFit'
  BY <1>1, <1>4 DEF TalkInv, CopiesFit, Fits, HandedOver, fresh
<1>6. AlertsAreUrgent' /\ UrgentMessagesReachAPerson'
  BY <1>1 DEF TalkInv, AlertsAreUrgent, UrgentMessagesReachAPerson, HandedOver
<1> QED
  BY <1>3, <1>5, <1>6 DEF TalkInv

LEMMA StaffKeepTalk ==
    ASSUME TalkInv, NEW s \in Staff, NEW m \in reply[s], SaveReply(s, m) \/ SaveResolved(s, m)
    PROVE  TalkInv'
<1>1. reply' = [reply EXCEPT ![s] = {}] /\ UNCHANGED delivery
  BY DEF SaveReply, SaveResolved
<1>2. \A b \in Staff : reply'[b] \subseteq reply[b]
  BY <1>1 DEF TalkInv, TalkTypeOK
<1>3. Fits(m.before) /\ (m.op = "escalate" => CanEscalate(m.before))
  BY DEF TalkInv, CopiesFit
<1>4. /\ delivery' \in [Deliveries -> SUBSET [before : Conversations, copy : Conversations]]
      /\ reply' \in [Staff -> SUBSET [before : Conversations, op : StaffOperations]]
  BY <1>1 DEF TalkInv, TalkTypeOK
<1>5. /\ Fits(talk') /\ urgent' \in BOOLEAN /\ overwritten' \in BOOLEAN
      /\ announced' \in {"never", "once", "again"}
      /\ AlertsAreUrgent' /\ UrgentMessagesReachAPerson'
  <2>1. CASE SaveReply(s, m)
    <3> DEFINE after == IF m.op = "escalate" THEN Escalated(m.before) ELSE TakenOver(m.before)
    <3>1. Fits(after) /\ (HandedOver(m.before) => HandedOver(after))
      BY <1>3, MovesFit
    <3>2. /\ talk' = after /\ UNCHANGED <<urgent, announced>>
          /\ overwritten' = (overwritten \/ talk # m.before)
      BY <2>1 DEF SaveReply, SavesTalk
    <3> HIDE DEF after
    <3>3. UrgentMessagesReachAPerson'
      BY <3>1, <3>2 DEF TalkInv, UrgentMessagesReachAPerson, HandedOver
    <3> QED
      BY <3>1, <3>2, <3>3 DEF TalkInv, TalkTypeOK, AlertsAreUrgent
  <2>2. CASE SaveResolved(s, m)
    <3>1. Fits(Resolved(m.before))
      BY <1>3, MovesFit
    <3>2. /\ talk' = Resolved(m.before)
          /\ urgent' = FALSE /\ announced' = "never" /\ overwritten' = FALSE
      BY <2>2 DEF SaveResolved
    <3> QED
      BY <3>1, <3>2 DEF AlertsAreUrgent, UrgentMessagesReachAPerson
  <2> QED
    BY <2>1, <2>2
<1>6. TalkTypeOK'
  BY <1>4, <1>5 DEF TalkTypeOK, Fits, HandedOver
<1>7. CopiesFit'
  BY <1>1, <1>2, <1>5 DEF TalkInv, CopiesFit, Fits, HandedOver
<1> QED
  BY <1>5, <1>6, <1>7 DEF TalkInv

LEMMA TalkNextKeepsInv == TalkInv /\ [TalkNext]_talkVars => TalkInv'
<1> SUFFICES ASSUME TalkInv, [TalkNext]_talkVars PROVE TalkInv'
  OBVIOUS
<1>1. CASE \E d \in Deliveries, ambiguous \in BOOLEAN : Receive(d, ambiguous)
  BY <1>1, ReceiveKeepsTalk
<1>2. CASE \E d \in Deliveries :
             \/ \E m \in delivery[d] : AnswersGuest(d, m) \/ HandsOver(d, m)
             \/ DeliveryRollsBack(d)
  BY <1>2, DeliveriesKeepTalk
<1>3. CASE \E s \in Staff, op \in StaffOperations : LoadConversation(s, op)
  BY <1>3, LoadKeepsTalk
<1>4. CASE \E s \in Staff : \E m \in reply[s] : SaveReply(s, m) \/ SaveResolved(s, m)
  BY <1>4, StaffKeepTalk
<1>5. CASE UNCHANGED talkVars
  BY <1>5 DEF talkVars, TalkInv, TalkTypeOK, CopiesFit, Fits, HandedOver, AlertsAreUrgent,
              UrgentMessagesReachAPerson
<1> QED
  BY <1>1, <1>2, <1>3, <1>4, <1>5 DEF TalkNext

LEMMA TalkInvAlways == TalkSpec => []TalkInv
  BY TalkInitInv, TalkNextKeepsInv, PTL DEF TalkSpec

(* A conversation is with a person exactly while its handover is open. *)
THEOREM TalkTypeCorrect == TalkSpec => []TalkTypeOK
<1>1. TalkInv => TalkTypeOK
  BY DEF TalkInv
<1> QED
  BY <1>1, TalkInvAlways, PTL

(* A message that needs a person has one until the conversation is        *)
(* resolved, and the managers hear of it once, for any number of messages  *)
(* and requests, as long as none saved over another.                       *)
THEOREM UrgentAlwaysHasAPerson == TalkSpec => []UrgentMessagesReachAPerson
<1>1. TalkInv => UrgentMessagesReachAPerson
  BY DEF TalkInv
<1> QED
  BY <1>1, TalkInvAlways, PTL
-----------------------------------------------------------------------------
(* The expenses and their statements. *)

(* A generator's list has one copy of an expense at most. *)
ListsAreRows ==
    \A g \in Generators : \A l \in listed[g] : \A i \in Items : \A x, y \in l.items[i] : x = y

(* An expense that is about to be inserted is nobody else's, and unbilled. *)
NewcomersAreAlone ==
    \A c \in Clerks : \A copy \in clerk[c] : copy.before = NoRow =>
        /\ expense[copy.item] = NoRow /\ copy.future.statement = None
        /\ \A d \in Clerks : \A other \in clerk[d] : other.item = copy.item => d = c

AskedInBounds == \A i \in Items : TimesAsked(i) <= MaxApprovals

LedgerInv ==
    LedgerTypeOK /\ ListsAreRows /\ NewcomersAreAlone /\ AskedInBounds /\ StatementAddsUp

LEMMA LedgerInitInv == LedgerInit => LedgerInv
<1> SUFFICES ASSUME LedgerInit PROVE LedgerInv
  OBVIOUS
<1> USE LedgerAssumption DEF LedgerInit
<1>1. \A m \in Months : Bill(m) = {}
  BY DEF Bill, NoRow
<1>2. LedgerTypeOK
  BY <1>1 DEF LedgerTypeOK, NoRow
<1>3. ListsAreRows /\ NewcomersAreAlone
  BY DEF ListsAreRows, NewcomersAreAlone
<1>4. AskedInBounds
  BY DEF AskedInBounds, TimesAsked, ApprovalStatuses
<1>5. StatementAddsUp
  BY DEF StatementAddsUp
<1> QED
  BY <1>2, <1>3, <1>4, <1>5 DEF LedgerInv

(* What a statement has charged is left alone by a step that touches no    *)
(* billed expense and bills none.                                          *)
LEMMA BilledStand ==
    ASSUME LedgerTypeOK, StatementAddsUp, UNCHANGED <<closed, billed, raced>>,
           expense' \in [Items -> SUBSET Expenses],
           \A i \in Items : \A x \in expense[i] : x.statement # None => expense'[i] = expense[i],
           \A i \in Items : \A x \in expense'[i] : x.statement # None => x \in expense[i]
    PROVE  /\ StatementAddsUp'
           /\ \A m \in Months : Bill(m)' # {} => m \in closed'
<1>1. ASSUME NEW m \in Months
      PROVE  Bill(m)' = Bill(m) /\ \A i \in Bill(m) : expense'[i] = expense[i]
  BY LedgerAssumption DEF Bill
<1>2. ASSUME NEW m \in Months
      PROVE  Charges(expense', Bill(m)') = Charges(expense, Bill(m))
  BY <1>1 DEF Charges
<1>3. closed' \subseteq Months
  BY DEF LedgerTypeOK
<1>4. StatementAddsUp'
  BY <1>2, <1>3 DEF StatementAddsUp
<1> QED
  BY <1>1, <1>4 DEF LedgerTypeOK

(* Asking the owner once more keeps the count within its bound. *)
LEMMA AskingStaysInBounds ==
    ASSUME LedgerTypeOK, AskedInBounds, NEW i \in Items,
           \/ UNCHANGED approvals
           \/ /\ TimesAsked(i) < MaxApprovals
              /\ approvals' = [approvals EXCEPT ![i]["PENDING"] = @ + 1]
    PROVE  /\ approvals' \in [Items -> [ApprovalStatuses -> 0..MaxApprovals]]
           /\ AskedInBounds'
<1> USE LedgerAssumption DEF LedgerTypeOK
<1>1. CASE UNCHANGED approvals
  BY <1>1 DEF AskedInBounds, TimesAsked
<1>2. CASE /\ TimesAsked(i) < MaxApprovals
           /\ approvals' = [approvals EXCEPT ![i]["PENDING"] = @ + 1]
  <2>1. \A a \in ApprovalStatuses : approvals[i][a] \in Nat
    OBVIOUS
  <2>2. approvals[i]["PENDING"] + 1 \in 0..MaxApprovals
    BY <1>2, <2>1 DEF TimesAsked, ApprovalStatuses
  <2>3. approvals' \in [Items -> [ApprovalStatuses -> 0..MaxApprovals]]
    BY <1>2, <2>2 DEF ApprovalStatuses
  <2>4. ASSUME NEW j \in Items PROVE TimesAsked(j)' <= MaxApprovals
    <3>1. CASE j = i
      BY <1>2, <2>1, <3>1 DEF TimesAsked, ApprovalStatuses
    <3>2. CASE j # i
      BY <1>2, <3>2 DEF TimesAsked, AskedInBounds
    <3> QED
      BY <3>1, <3>2
  <2> QED
    BY <2>3, <2>4 DEF AskedInBounds
<1> QED
  BY <1>1, <1>2

(* A clerk takes up a copy. *)
LEMMA TakesUpKeepsLedger ==
    ASSUME LedgerInv, NEW c \in Clerks, NEW fresh \in Copies,
           clerk' = [clerk EXCEPT ![c] = {fresh}],
           UNCHANGED <<expense, approvals, closed, billed, listed, fetched, raced>>,
           fresh.before = NoRow =>
             /\ expense[fresh.item] = NoRow /\ fresh.future.statement = None
             /\ \A d \in Clerks : \A other \in clerk[d] : other.item # fresh.item,
           fresh.before # NoRow => expense[fresh.item] # NoRow
    PROVE  LedgerInv'
<1> USE DEF LedgerInv
<1>1. LedgerTypeOK'
  BY DEF LedgerTypeOK, Bill
<1>2. \A d \in Clerks : \A copy \in clerk'[d] :
        (copy \in clerk[d]) \/ (d = c /\ copy = fresh)
  BY DEF LedgerTypeOK
<1>3. NewcomersAreAlone'
  BY <1>2 DEF NewcomersAreAlone
<1>4. ListsAreRows' /\ AskedInBounds' /\ StatementAddsUp'
  BY DEF ListsAreRows, AskedInBounds, TimesAsked, StatementAddsUp, Bill
<1> QED
  BY <1>1, <1>3, <1>4

LEMMA LoadsKeepLedger ==
    ASSUME LedgerInv, NEW c \in Clerks, NEW i \in Items, NEW amount \in Amounts, NEW m \in Months,
           CheckPeriod(c, i, amount, m) \/ LoadExpense(c, i, amount, m)
    PROVE  LedgerInv'
<1>1. CASE CheckPeriod(c, i, amount, m)
  <2> DEFINE future == [amount |-> amount, month |-> m, approved |-> FALSE, statement |-> None]
             fresh == [item |-> i, before |-> NoRow, future |-> future]
  <2>1. fresh \in Copies
    BY DEF Copies, Expenses, NoRow
  <2>2. /\ clerk' = [clerk EXCEPT ![c] = {fresh}]
        /\ UNCHANGED <<expense, approvals, closed, billed, listed, fetched, raced>>
        /\ NewItem(i)
    BY <1>1 DEF CheckPeriod
  <2> QED
    BY <2>1, <2>2, TakesUpKeepsLedger DEF NewItem
<1>2. CASE LoadExpense(c, i, amount, m)
  <2>1. PICK x \in expense[i] :
          clerk' = [clerk EXCEPT ![c] =
                {[item |-> i, before |-> Row(x),
                  future |-> [x EXCEPT !.amount = amount, !.month = m]]}]
    BY <1>2 DEF LoadExpense
  <2> DEFINE fresh == [item |-> i, before |-> Row(x),
                       future |-> [x EXCEPT !.amount = amount, !.month = m]]
  <2>2. x \in Expenses
    BY DEF LedgerInv, LedgerTypeOK
  <2>3. fresh \in Copies
    BY <2>2 DEF Copies, Expenses, Row
  <2>4. fresh.before # NoRow /\ expense[fresh.item] # NoRow
    BY DEF Row, NoRow
  <2>5. UNCHANGED <<expense, approvals, closed, billed, listed, fetched, raced>>
    BY <1>2 DEF LoadExpense
  <2> QED
    BY <2>1, <2>3, <2>4, <2>5, TakesUpKeepsLedger
<1> QED
  BY <1>1, <1>2

(* What keeps the invariant in a step that writes expenses and closes no   *)
(* month.                                                                  *)
LEMMA WritesKeepLedger ==
    ASSUME LedgerInv, UNCHANGED <<closed, billed, raced>>,
           expense' \in [Items -> SUBSET Expenses],
           \A i \in Items : \A x, y \in expense'[i] : x = y,
           \A i \in Items : \A x \in expense[i] : x.statement # None => expense'[i] = expense[i],
           \A i \in Items : \A x \in expense'[i] : x.statement # None => x \in expense[i],
           \A c \in Clerks : \A copy \in clerk'[c] :
              copy \in clerk[c] /\ (expense[copy.item] = NoRow => expense'[copy.item] = NoRow),
           clerk' \in [Clerks -> SUBSET Copies],
           listed' = listed,
           fetched' \subseteq Items \X ApprovalStatuses,
           approvals' \in [Items -> [ApprovalStatuses -> 0..MaxApprovals]],
           AskedInBounds'
    PROVE  LedgerInv'
<1> USE DEF LedgerInv
<1>1. StatementAddsUp' /\ \A m \in Months : Bill(m)' # {} => m \in closed'
  BY BilledStand
<1>2. LedgerTypeOK'
  BY <1>1 DEF LedgerTypeOK
<1>3. ListsAreRows' /\ NewcomersAreAlone'
  BY DEF ListsAreRows, NewcomersAreAlone
<1> QED
  BY <1>1, <1>2, <1>3

LEMMA InsertKeepsLedger ==
    ASSUME LedgerInv, NEW c \in Clerks, NEW copy \in clerk[c], InsertExpense(c, copy)
    PROVE  LedgerInv'
<1> USE DEF LedgerInv
<1>1. copy \in Copies /\ copy.item \in Items /\ copy.future \in Expenses
  BY DEF LedgerTypeOK, Copies
<1>2. /\ expense[copy.item] = NoRow /\ copy.future.statement = None
      /\ \A d \in Clerks : \A other \in clerk[d] : other.item = copy.item => d = c
  BY DEF NewcomersAreAlone, InsertExpense
<1>3. /\ clerk' = [clerk EXCEPT ![c] = {}]
      /\ expense' = [expense EXCEPT ![copy.item] = {copy.future}]
      /\ UNCHANGED <<closed, billed, listed, fetched, raced>>
  BY DEF InsertExpense, Row
<1>4. /\ approvals' \in [Items -> [ApprovalStatuses -> 0..MaxApprovals]]
      /\ AskedInBounds'
  BY <1>1, AskingStaysInBounds DEF InsertExpense, AsksForApproval
<1>5. /\ expense' \in [Items -> SUBSET Expenses]
      /\ clerk' \in [Clerks -> SUBSET Copies]
      /\ \A d \in Clerks : \A other \in clerk'[d] : other \in clerk[d] /\ other.item # copy.item
  BY <1>1, <1>2, <1>3 DEF LedgerTypeOK
<1>6. \A i \in Items : i # copy.item => expense'[i] = expense[i]
  BY <1>3 DEF LedgerTypeOK
<1>7. expense'[copy.item] = {copy.future}
  BY <1>1, <1>3 DEF LedgerTypeOK
<1>8. ASSUME NEW i \in Items, NEW x \in expense'[i], NEW y \in expense'[i]
      PROVE  x = y
  <2>1. CASE i = copy.item
    BY <1>7, <2>1
  <2>2. CASE i # copy.item
    BY <1>6, <2>2 DEF LedgerTypeOK
  <2> QED
    BY <2>1, <2>2
<1>9. \A i \in Items : \A x \in expense[i] : x.statement # None => expense'[i] = expense[i]
  BY <1>2, <1>6 DEF NoRow
<1>10. \A i \in Items : \A x \in expense'[i] : x.statement # None => x \in expense[i]
  BY <1>2, <1>6, <1>7
<1>11. \A d \in Clerks : \A other \in clerk'[d] :
         other \in clerk[d] /\ (expense[other.item] = NoRow => expense'[other.item] = NoRow)
  BY <1>5, <1>6 DEF LedgerTypeOK, Copies
<1> QED
  BY <1>3, <1>4, <1>5, <1>8, <1>9, <1>10, <1>11, WritesKeepLedger DEF LedgerTypeOK

LEMMA SaveKeepsLedger ==
    ASSUME LedgerInv, NEW c \in Clerks, NEW copy \in clerk[c], SaveExpense(c, copy)
    PROVE  LedgerInv'
<1> USE DEF LedgerInv
<1>1. copy \in Copies /\ copy.item \in Items /\ copy.future \in Expenses
  BY DEF LedgerTypeOK, Copies
<1> DEFINE Over(row) == [row EXCEPT !.amount = copy.future.amount, !.month = copy.future.month]
<1>2. /\ clerk' = [clerk EXCEPT ![c] = {}]
      /\ UNCHANGED <<closed, billed, listed, fetched, raced>>
  BY DEF SaveExpense, WritesExpense
<1>3. /\ clerk' \in [Clerks -> SUBSET Copies]
      /\ \A d \in Clerks : \A other \in clerk'[d] : other \in clerk[d]
  BY <1>2 DEF LedgerTypeOK
<1>4. CASE \E row \in expense[copy.item] : Frozen(row, copy.future)
  <2>1. UNCHANGED <<expense, approvals>>
    BY <1>4 DEF SaveExpense, WritesExpense
  <2>2. AskedInBounds'
    BY <2>1 DEF AskedInBounds, TimesAsked
  <2> QED
    BY <1>2, <1>3, <2>1, <2>2, WritesKeepLedger DEF LedgerTypeOK
<1>5. CASE ~ \E row \in expense[copy.item] : Frozen(row, copy.future)
  <2>1. expense' = [expense EXCEPT ![copy.item] = {Over(row) : row \in expense[copy.item]}]
    BY <1>5 DEF SaveExpense, WritesExpense
  <2>2. /\ approvals' \in [Items -> [ApprovalStatuses -> 0..MaxApprovals]]
        /\ AskedInBounds'
    BY <1>1, <1>5, AskingStaysInBounds DEF SaveExpense, WritesExpense, AsksForApproval
  <2>3. \A row \in Expenses : Over(row) \in Expenses /\ Over(row).statement = row.statement
    BY <1>1 DEF Expenses
  <2>4. ASSUME NEW row \in expense[copy.item], row.statement # None
        PROVE  Over(row) = row
    <3>1. row \in Expenses
      BY <1>1 DEF LedgerTypeOK
    <3>2. row.amount = copy.future.amount /\ row.month = copy.future.month
      BY <1>5, <2>4 DEF Frozen
    <3> QED
      BY <3>1, <3>2 DEF Expenses
  <2>5. \A i \in Items : expense[i] \subseteq Expenses /\ \A x, y \in expense[i] : x = y
    BY DEF LedgerTypeOK
  <2>6. /\ DOMAIN expense' = Items
        /\ \A i \in Items : i # copy.item => expense'[i] = expense[i]
        /\ expense'[copy.item] = {Over(x) : x \in expense[copy.item]}
    <3> HIDE DEF Over
    <3> QED
      BY <1>1, <2>1 DEF LedgerTypeOK
  <2> HIDE DEF Over
  <2>7. ASSUME NEW i \in Items, NEW x \in expense'[i]
        PROVE  /\ x \in Expenses
               /\ i # copy.item => x \in expense[i]
               /\ i = copy.item => \E y \in expense[i] : x = Over(y) /\ x.statement = y.statement
    <3>1. CASE i = copy.item
      <4>1. PICK y \in expense[i] : x = Over(y)
        BY <2>6, <3>1
      <4> QED
        BY <2>3, <2>5, <3>1, <4>1
    <3>2. CASE i # copy.item
      BY <2>5, <2>6, <3>2
    <3> QED
      BY <3>1, <3>2
  <2>13. expense' \in [Items -> SUBSET Expenses]
    <3>1. \A i \in Items : expense'[i] \subseteq Expenses
      BY <2>7
    <3>2. expense' = [i \in Items |-> expense'[i]]
      BY <2>1, <2>6 DEF LedgerTypeOK
    <3> QED
      BY <3>1, <3>2
  <2>8. \A i \in Items : \A x, y \in expense'[i] : x = y
    BY <2>5, <2>7
  <2>9. ASSUME NEW i \in Items, NEW x \in expense[i], x.statement # None
        PROVE  expense'[i] = expense[i]
    <3>1. expense[i] = {x}
      BY <2>5
    <3>2. CASE i = copy.item
      <4>1. Over(x) = x
        BY <2>4, <2>9, <3>2
      <4> QED
        BY <2>6, <3>1, <3>2, <4>1
    <3> QED
      BY <2>6, <3>2
  <2>10. ASSUME NEW i \in Items, NEW x \in expense'[i], x.statement # None
         PROVE  x \in expense[i]
    BY <2>4, <2>7, <2>10
  <2>11. \A i \in Items : expense[i] = NoRow => expense'[i] = NoRow
    BY <2>6 DEF NoRow
  <2>12. \A d \in Clerks : \A other \in clerk'[d] :
          other \in clerk[d] /\ (expense[other.item] = NoRow => expense'[other.item] = NoRow)
    BY <1>3, <2>11 DEF LedgerTypeOK, Copies
  <2> QED
    BY <1>2, <1>3, <2>2, <2>13, <2>8, <2>9, <2>10, <2>12, WritesKeepLedger DEF LedgerTypeOK
<1> QED
  BY <1>4, <1>5

LEMMA PeopleKeepLedger ==
    ASSUME LedgerInv, NEW i \in Items,
           DeleteExpense(i) \/ \E a \in ApprovalStatuses : OwnerAnswers(i, a)
    PROVE  LedgerInv'
<1> USE DEF LedgerInv
<1>1. CASE DeleteExpense(i)
  <2>1. /\ expense' = [expense EXCEPT ![i] = {}]
        /\ UNCHANGED <<approvals, closed, billed, clerk, listed, fetched, raced>>
    BY <1>1 DEF DeleteExpense, NoRow
  <2>2. \A x \in expense[i] : x.statement = None
    BY <1>1 DEF DeleteExpense, LedgerTypeOK
  <2>3. \A j \in Items : expense'[j] = IF j = i THEN {} ELSE expense[j]
    BY <2>1 DEF LedgerTypeOK
  <2>4. expense' \in [Items -> SUBSET Expenses]
    BY <2>1 DEF LedgerTypeOK
  <2>5. \A c \in Clerks : \A copy \in clerk'[c] :
          copy \in clerk[c] /\ (expense[copy.item] = NoRow => expense'[copy.item] = NoRow)
    BY <2>1, <2>3 DEF LedgerTypeOK, Copies, NoRow
  <2>6. AskedInBounds'
    BY <2>1 DEF AskedInBounds, TimesAsked
  <2> QED
    BY <2>1, <2>2, <2>3, <2>4, <2>5, <2>6, WritesKeepLedger DEF LedgerTypeOK
<1>2. ASSUME NEW a \in ApprovalStatuses, OwnerAnswers(i, a)
      PROVE  LedgerInv'
  <2>1. /\ approvals[i]["PENDING"] > 0 /\ a # "PENDING"
        /\ approvals' = [approvals EXCEPT ![i]["PENDING"] = @ - 1, ![i][a] = @ + 1]
        /\ UNCHANGED <<expense, closed, billed, clerk, listed, fetched, raced>>
    BY <1>2 DEF OwnerAnswers
  <2>2. \A j \in Items, b \in ApprovalStatuses : approvals[j][b] \in 0..MaxApprovals
    BY DEF LedgerTypeOK
  <2>3. \A j \in Items : TimesAsked(j) <= MaxApprovals
    BY DEF AskedInBounds
  <2>4. \A b \in ApprovalStatuses : approvals'[i][b] =
            IF b = "PENDING" THEN approvals[i][b] - 1
            ELSE IF b = a THEN approvals[i][b] + 1 ELSE approvals[i][b]
    BY <2>1 DEF LedgerTypeOK, ApprovalStatuses
  <2>5. \A j \in Items : j # i => approvals'[j] = approvals[j]
    BY <2>1 DEF LedgerTypeOK
  <2>6. approvals[i][a] + 1 <= MaxApprovals
    BY <2>1, <2>2, <2>3, LedgerAssumption DEF TimesAsked, ApprovalStatuses
  <2>7. ASSUME NEW j \in Items, NEW b \in ApprovalStatuses
        PROVE  approvals'[j][b] \in 0..MaxApprovals
    <3>1. CASE j = i
      <4>1. approvals'[i][b] \in {approvals[i][b], approvals[i]["PENDING"] - 1, approvals[i][a] + 1}
        BY <2>4
      <4>2. approvals[i]["PENDING"] \in 0..MaxApprovals /\ approvals[i][a] \in 0..MaxApprovals
        BY <2>2 DEF ApprovalStatuses
      <4>3. approvals[i]["PENDING"] - 1 \in 0..MaxApprovals /\ approvals[i][a] + 1 \in 0..MaxApprovals
        BY <2>1, <2>6, <4>2, LedgerAssumption
      <4> QED
        BY <2>2, <3>1, <4>1, <4>3
    <3>2. CASE j # i
      BY <2>2, <2>5, <3>2
    <3> QED
      BY <3>1, <3>2
  <2>8. approvals' \in [Items -> [ApprovalStatuses -> 0..MaxApprovals]]
    <3>1. /\ DOMAIN approvals' = Items
          /\ \A j \in Items : approvals'[j] = [b \in ApprovalStatuses |-> approvals'[j][b]]
      BY <2>1 DEF LedgerTypeOK
    <3>2. \A j \in Items : approvals'[j] \in [ApprovalStatuses -> 0..MaxApprovals]
      BY <2>7, <3>1
    <3>3. approvals' = [j \in Items |-> approvals'[j]]
      BY <2>1 DEF LedgerTypeOK
    <3> QED
      BY <3>2, <3>3
  <2>9. ASSUME NEW j \in Items PROVE TimesAsked(j)' <= MaxApprovals
    <3>1. CASE j = i
      BY <2>1, <2>2, <2>3, <2>4, <3>1, LedgerAssumption DEF TimesAsked, ApprovalStatuses
    <3>2. CASE j # i
      BY <2>3, <2>5, <3>2 DEF TimesAsked
    <3> QED
      BY <3>1, <3>2
  <2> QED
    BY <2>1, <2>8, <2>9, WritesKeepLedger DEF LedgerTypeOK, AskedInBounds
<1> QED
  BY <1>1, <1>2

(* The generator's list, read and forgotten. *)
LEMMA ListsKeepLedger ==
    ASSUME LedgerInv, NEW g \in Generators,
           (\E m \in Due : ListForPeriod(g, m)) \/ GenerationFails(g)
    PROVE  LedgerInv'
<1> USE DEF LedgerInv
<1>1. UNCHANGED <<expense, approvals, closed, billed, clerk, fetched, raced>>
  BY DEF ListForPeriod, GenerationFails
<1> DEFINE ListsAreTrue ==
      /\ listed' \in [Generators -> SUBSET [month : Months, items : [Items -> SUBSET Expenses]]]
      /\ \A h \in Generators : \A l \in listed'[h] :
           l \in listed[h] \/ \A i \in Items : l.items[i] \subseteq expense[i]
<1>2. ListsAreTrue
  <2>1. CASE GenerationFails(g)
    BY <2>1 DEF GenerationFails, Forgets, LedgerTypeOK
  <2>2. ASSUME NEW m \in Due, ListForPeriod(g, m)
        PROVE  ListsAreTrue
    <3> DEFINE items == [i \in Items |-> {x \in expense[i] : x.month = m /\ Billable(x)}]
               fresh == [month |-> m, items |-> items]
    <3>1. items \in [Items -> SUBSET Expenses] /\ \A i \in Items : items[i] \subseteq expense[i]
      BY DEF LedgerTypeOK
    <3>2. listed' = [listed EXCEPT ![g] = {fresh}]
      BY <2>2 DEF ListForPeriod
    <3> HIDE DEF items
    <3>3. fresh \in [month : Months, items : [Items -> SUBSET Expenses]]
      BY <3>1, LedgerAssumption
    <3>4. fresh.items = items
      OBVIOUS
    <3> HIDE DEF fresh
    <3> QED
      BY <3>1, <3>2, <3>3, <3>4 DEF LedgerTypeOK
  <2> QED
    BY <2>1, <2>2
<1>3. LedgerTypeOK'
  BY <1>1, <1>2 DEF LedgerTypeOK, Bill
<1>4. ListsAreRows'
  BY <1>1, <1>2 DEF ListsAreRows, LedgerTypeOK
<1>5. NewcomersAreAlone' /\ AskedInBounds' /\ StatementAddsUp'
  BY <1>1 DEF NewcomersAreAlone, AskedInBounds, TimesAsked, StatementAddsUp, Bill
<1> QED
  BY <1>3, <1>4, <1>5

LEMMA OneAmount == ASSUME NEW x PROVE Amount({x}) = x.amount
  BY DEF Amount

(* The statement of a month charges what it numbers, unless the list was   *)
(* overtaken; those of other months are not concerned.                     *)
LEMMA BillKeepsLedger ==
    ASSUME LedgerInv, NEW g \in Generators, NEW l \in listed[g], BillPeriod(g, l)
    PROVE  LedgerInv'
<1> USE DEF LedgerInv
<1> DEFINE Numbered(x) == [x EXCEPT !.statement = l.month]
           Moves(i, x) == i \in ItemsOf(l) /\ x.statement = None
           After(i, x) == IF Moves(i, x) THEN Numbered(x) ELSE x
<1>1. /\ l.month \in Months /\ l.month \notin closed
      /\ l.items \in [Items -> SUBSET Expenses]
      /\ \A i \in Items : \A x, y \in l.items[i] : x = y
  BY DEF BillPeriod, LedgerTypeOK, ListsAreRows
<1>2. l.month # None
  BY <1>1, LedgerAssumption
<1>3. /\ closed' = closed \cup {l.month}
      /\ billed' = [billed EXCEPT ![l.month] = SumFunction(Charges(l.items, ItemsOf(l)))]
      /\ listed' = [listed EXCEPT ![g] = {}]
      /\ UNCHANGED <<approvals, clerk, fetched>>
  BY DEF BillPeriod, Forgets
<1>4. expense' = [i \in Items |-> {After(i, x) : x \in expense[i]}]
  BY DEF BillPeriod
<1>5. \A i \in Items : expense[i] \subseteq Expenses /\ \A x, y \in expense[i] : x = y
  BY DEF LedgerTypeOK
<1>6. \A x \in Expenses : /\ Numbered(x) \in Expenses /\ Numbered(x).statement = l.month
                          /\ Numbered(x).amount = x.amount
  BY <1>1 DEF Expenses
<1>7. \A i \in Items : \A x \in expense[i] :
        /\ x.statement # None => After(i, x) = x
        /\ Moves(i, x) => After(i, x) = Numbered(x)
        /\ ~Moves(i, x) => After(i, x) = x
  OBVIOUS
<1> HIDE DEF Numbered, After
<1>8. ASSUME NEW i \in Items, NEW x \in expense[i]
      PROVE  expense[i] = {x} /\ expense'[i] = {After(i, x)}
  <2>1. expense[i] = {x}
    BY <1>5
  <2> QED
    BY <1>4, <2>1
<1>9. ASSUME NEW i \in Items, NEW z \in expense'[i]
      PROVE  \E x \in expense[i] : z = After(i, x)
  BY <1>4
<1>10. ASSUME NEW i \in Items, NEW z \in expense'[i], z.statement # None
       PROVE  z \in expense[i] \/ (z.statement = l.month /\ i \in ItemsOf(l))
  BY <1>5, <1>6, <1>7, <1>9
<1>11. ASSUME NEW i \in Items, NEW x \in expense[i], x.statement # None
       PROVE  expense'[i] = expense[i]
  <2>1. After(i, x) = x
    BY <1>7, <1>11
  <2> QED
    BY <1>8, <2>1
<1>12. LedgerTypeOK'
  <2>1. \A i \in Items : expense'[i] \subseteq Expenses
    BY <1>5, <1>6, <1>7, <1>9
  <2>2. expense' \in [Items -> SUBSET Expenses]
    <3>1. expense' = [i \in Items |-> expense'[i]]
      BY <1>4
    <3> QED
      BY <2>1, <3>1
  <2>3. \A i \in Items : \A x, y \in expense'[i] : x = y
    BY <1>8, <1>9
  <2>4. raced' \subseteq Months
    BY <1>1 DEF BillPeriod, LedgerTypeOK
  <2>5. ASSUME NEW m \in Months, Bill(m)' # {} PROVE m \in closed'
    <3>1. PICK i \in Items : \E z \in expense'[i] : z.statement = m
      BY <2>5 DEF Bill
    <3>2. (\E z \in expense[i] : z.statement = m) \/ m = l.month
      BY <1>10, <3>1, LedgerAssumption
    <3>3. Bill(m) # {} \/ m = l.month
      BY <3>2 DEF Bill
    <3> QED
      BY <1>3, <3>3 DEF LedgerTypeOK
  <2>6. /\ closed' \subseteq Months /\ DOMAIN billed' = Months
        /\ listed' \in [Generators -> SUBSET [month : Months, items : [Items -> SUBSET Expenses]]]
    BY <1>1, <1>3 DEF LedgerTypeOK
  <2> QED
    BY <1>3, <2>2, <2>3, <2>4, <2>5, <2>6 DEF LedgerTypeOK
<1>13. ListsAreRows' /\ AskedInBounds'
  BY <1>3 DEF ListsAreRows, LedgerTypeOK, AskedInBounds, TimesAsked
<1>14. NewcomersAreAlone'
  <2>1. \A i \in Items : expense[i] = NoRow => expense'[i] = NoRow
    BY <1>9 DEF NoRow
  <2> QED
    BY <1>3, <2>1 DEF NewcomersAreAlone, LedgerTypeOK, Copies
<1>15. StatementAddsUp'
  <2> SUFFICES ASSUME NEW m \in closed', m \notin raced'
               PROVE  billed'[m] = SumFunction(Charges(expense', Bill(m)'))
    BY DEF StatementAddsUp
  <2>1. m \in Months /\ m # None
    BY <1>1, <1>3, LedgerAssumption DEF LedgerTypeOK
  <2>2. CASE m # l.month
    <3>1. m \in closed /\ m \notin raced /\ billed'[m] = billed[m]
      BY <1>3, <2>1, <2>2 DEF BillPeriod, LedgerTypeOK
    <3>2. Bill(m)' = Bill(m) /\ \A i \in Bill(m) : expense'[i] = expense[i]
      BY <1>10, <1>11, <2>1, <2>2 DEF Bill
    <3>3. Charges(expense', Bill(m)') = Charges(expense, Bill(m))
      BY <3>2 DEF Charges
    <3> QED
      BY <3>1, <3>3 DEF StatementAddsUp
  <2>3. CASE m = l.month
    <3>1. ASSUME NEW i \in ItemsOf(l)
          PROVE  \E x \in expense[i], y \in l.items[i] : x.statement = None /\ x.amount = y.amount
      BY <2>3 DEF BillPeriod
    <3>2. ASSUME NEW i \in ItemsOf(l)
          PROVE  i \in Bill(m)' /\ Amount(expense'[i]) = Amount(l.items[i])
      <4>1. i \in Items
        BY DEF ItemsOf
      <4>2. PICK x \in expense[i], y \in l.items[i] : x.statement = None /\ x.amount = y.amount
        BY <3>1
      <4>3. expense'[i] = {Numbered(x)} /\ l.items[i] = {y}
        BY <1>1, <1>7, <1>8, <4>1, <4>2
      <4>4. x \in Expenses
        BY <1>5, <4>1
      <4>5. i \in Bill(m)'
        BY <1>6, <2>3, <4>1, <4>3, <4>4 DEF Bill
      <4> QED
        BY <1>6, <4>2, <4>3, <4>4, <4>5, OneAmount
    <3>3. Bill(m) = {}
      BY <1>1, <2>3 DEF LedgerTypeOK
    <3>4. Bill(m)' \subseteq ItemsOf(l)
      BY <1>10, <2>1, <3>3 DEF Bill
    <3>5. Charges(expense', Bill(m)') = Charges(l.items, ItemsOf(l))
      <4>1. Bill(m)' = ItemsOf(l)
        BY <3>2, <3>4
      <4> QED
        BY <3>2, <4>1 DEF Charges
    <3>6. billed'[m] = SumFunction(Charges(l.items, ItemsOf(l)))
      BY <1>3, <2>1, <2>3 DEF LedgerTypeOK
    <3> QED
      BY <3>5, <3>6
  <2> QED
    BY <2>2, <2>3
<1> QED
  BY <1>12, <1>13, <1>14, <1>15

LEMMA ReconciliationKeepsLedger ==
    ASSUME LedgerInv, Reconciliation
    PROVE  LedgerInv'
<1> USE DEF LedgerInv
<1>1. CASE FetchPending
  <2>1. /\ fetched' \subseteq Items \X ApprovalStatuses
        /\ UNCHANGED <<expense, approvals, closed, billed, clerk, listed, raced>>
    BY <1>1 DEF FetchPending, ToMaterialise
  <2> QED
    BY <2>1, WritesKeepLedger DEF LedgerTypeOK, AskedInBounds, TimesAsked
<1>2. CASE Materialise
  <2>1. UNCHANGED <<approvals, closed, billed, clerk, listed, raced>> /\ fetched' = {}
    BY <1>2 DEF Materialise, Materialises
  <2> DEFINE Approved(x) == IF x.statement = None THEN [x EXCEPT !.approved = TRUE] ELSE x
             After(i) == IF <<i, "REJECTED">> \in fetched
                           THEN {x \in expense[i] : x.statement # None}
                         ELSE IF <<i, "APPROVED">> \in fetched
                           THEN {Approved(x) : x \in expense[i]}
                         ELSE expense[i]
  <2>2. expense' = [i \in Items |-> After(i)]
    BY <1>2 DEF Materialise, Materialises
  <2>3. \A i \in Items : expense[i] \subseteq Expenses /\ \A x, y \in expense[i] : x = y
    BY DEF LedgerTypeOK
  <2>4. \A x \in Expenses : /\ Approved(x) \in Expenses /\ Approved(x).statement = x.statement
                            /\ x.statement # None => Approved(x) = x
    BY DEF Expenses
  <2> HIDE DEF Approved
  <2>5. ASSUME NEW i \in Items
        PROVE  /\ \A z \in After(i) : \E x \in expense[i] : z \in {x, Approved(x)}
               /\ \A x \in expense[i] : x.statement # None => After(i) = expense[i]
    <3>1. \A z \in After(i) : \E x \in expense[i] : z \in {x, Approved(x)}
      OBVIOUS
    <3>2. ASSUME NEW x \in expense[i], x.statement # None PROVE After(i) = expense[i]
      <4>1. expense[i] = {x} /\ Approved(x) = x
        BY <2>3, <2>4, <3>2
      <4> QED
        BY <3>2, <4>1
    <3> QED
      BY <3>1, <3>2
  <2> HIDE DEF After
  <2>6. \A i \in Items : expense'[i] = After(i)
    BY <2>2
  <2>7. expense' \in [Items -> SUBSET Expenses]
    <3>1. \A i \in Items : After(i) \subseteq Expenses
      BY <2>3, <2>4, <2>5
    <3> QED
      BY <2>2, <3>1
  <2>8. ASSUME NEW i \in Items, NEW x \in expense'[i], NEW y \in expense'[i]
        PROVE  x = y
    <3>1. CASE \E w \in expense[i] : w.statement # None
      BY <2>3, <2>5, <2>6, <3>1
    <3>2. CASE \A w \in expense[i] : w.statement = None
      <4>1. PICK w \in expense[i] : expense[i] = {w}
        BY <2>3, <2>5, <2>6
      <4>2. After(i) \in {{}, {w}, {Approved(w)}}
        BY <4>1 DEF After
      <4> QED
        BY <2>6, <4>2
    <3> QED
      BY <3>1, <3>2
  <2>9. \A i \in Items : \A x \in expense[i] : x.statement # None => expense'[i] = expense[i]
    BY <2>5, <2>6
  <2>10. \A i \in Items : \A x \in expense'[i] : x.statement # None => x \in expense[i]
    BY <2>3, <2>4, <2>5, <2>6
  <2>11. \A i \in Items : expense[i] = NoRow => expense'[i] = NoRow
    BY <2>5, <2>6 DEF NoRow
  <2>12. \A c \in Clerks : \A copy \in clerk'[c] :
           copy \in clerk[c] /\ (expense[copy.item] = NoRow => expense'[copy.item] = NoRow)
    BY <2>1, <2>11 DEF LedgerTypeOK, Copies
  <2>13. AskedInBounds'
    BY <2>1 DEF AskedInBounds, TimesAsked
  <2> QED
    BY <2>1, <2>7, <2>8, <2>9, <2>10, <2>12, <2>13, WritesKeepLedger DEF LedgerTypeOK
<1> QED
  BY <1>1, <1>2 DEF Reconciliation

LEMMA LedgerNextKeepsInv == LedgerInv /\ [LedgerNext]_ledgerVars => LedgerInv'
<1> SUFFICES ASSUME LedgerInv, [LedgerNext]_ledgerVars PROVE LedgerInv'
  OBVIOUS
<1>1. CASE \E i \in Items, amount \in Amounts, m \in Months :
             \E c \in Clerks : CheckPeriod(c, i, amount, m) \/ LoadExpense(c, i, amount, m)
  BY <1>1, LoadsKeepLedger
<1>2. CASE \E c \in Clerks : \E copy \in clerk[c] : InsertExpense(c, copy) \/ SaveExpense(c, copy)
  BY <1>2, InsertKeepsLedger, SaveKeepsLedger
<1>3. CASE \E i \in Items :
             DeleteExpense(i) \/ \E a \in ApprovalStatuses : OwnerAnswers(i, a)
  BY <1>3, PeopleKeepLedger
<1>4. CASE \E g \in Generators :
             (\E m \in Due : ListForPeriod(g, m)) \/ GenerationFails(g)
  BY <1>4, ListsKeepLedger
<1>5. CASE \E g \in Generators : \E l \in listed[g] : BillPeriod(g, l)
  BY <1>5, BillKeepsLedger
<1>6. CASE Reconciliation
  BY <1>6, ReconciliationKeepsLedger
<1>7. CASE UNCHANGED ledgerVars
  BY <1>7 DEF ledgerVars, LedgerInv, LedgerTypeOK, Bill, ListsAreRows, NewcomersAreAlone,
              AskedInBounds, TimesAsked, StatementAddsUp
<1> QED
  BY <1>1, <1>2, <1>3, <1>4, <1>5, <1>6, <1>7 DEF LedgerNext

LEMMA LedgerInvAlways == LedgerSpec => []LedgerInv
  BY LedgerInitInv, LedgerNextKeepsInv, PTL DEF LedgerSpec

(* The expenses keep their types; there is one row of each, and a number   *)
(* of a statement only on the expenses of a month that has one.            *)
THEOREM LedgerTypeCorrect == LedgerSpec => []LedgerTypeOK
<1>1. LedgerInv => LedgerTypeOK
  BY DEF LedgerInv
<1> QED
  BY <1>1, LedgerInvAlways, PTL

(* A statement goes on charging exactly the expenses that carry its        *)
(* number, for any number of clerks, generators, months and expenses.      *)
THEOREM StatementAlwaysAddsUp == LedgerSpec => []StatementAddsUp
<1>1. LedgerInv => StatementAddsUp
  BY DEF LedgerInv
<1> QED
  BY <1>1, LedgerInvAlways, PTL
-----------------------------------------------------------------------------
(* The prices of a flat. *)

(* The least number of a set of numbers, from the order's being well       *)
(* founded: what follows by induction over the days is proved from it.     *)
LEMMA LeastNumber ==
    ASSUME NEW T, T \subseteq Nat, T # {}
    PROVE  \E x \in T : \A y \in T : x <= y
<1> DEFINE R == {p \in Nat \X Nat : p[1] < p[2]}
<1>1. R = OpToRel(<, Nat)
  BY Zenon DEF OpToRel
<1>2. IsWellFoundedOn(R, Nat)
  BY <1>1, NatLessThanWellFounded
<1>3. \A x, y \in Nat : y < x => <<y, x>> \in R
  OBVIOUS
<1>4. PICK x \in T : \A y \in T : ~ (<<y, x>> \in R)
  <2> HIDE DEF R
  <2> QED
    BY <1>2, WFMin
<1>5. ASSUME NEW y \in T PROVE x <= y
  <2>1. x \in Nat /\ y \in Nat
    OBVIOUS
  <2>2. <<y, x>> \notin R
    <3> HIDE DEF R
    <3> QED
      BY <1>4
  <2>3. ~ (y < x)
    BY <2>1, <2>2, <1>3
  <2> QED
    BY <2>1, <2>3
<1> QED
  BY <1>5

LEMMA MinIsLeast ==
    ASSUME NEW T, T \subseteq Nat, T # {}
    PROVE  Min(T) \in T
<1>1. \E x \in T : \A y \in T : x <= y
  BY LeastNumber
<1> QED
  BY <1>1 DEF Min

LEMMA MaxIsGreatest ==
    ASSUME NEW n \in Nat, NEW T, T \subseteq 0..n, T # {}
    PROVE  Max(T) \in T
<1> DEFINE U == {k \in Nat : \E x \in T : k = n - x}
<1>1. U \subseteq Nat /\ U # {}
  <2>1. PICK x \in T : TRUE
    OBVIOUS
  <2>2. x \in 0..n
    OBVIOUS
  <2>3. n - x \in U
    BY <2>2
  <2> QED
    BY <2>3
<1>2. PICK k \in U : \A j \in U : k <= j
  <2> HIDE DEF U
  <2> QED
    BY <1>1, LeastNumber
<1>3. PICK x \in T : k = n - x
  BY <1>2
<1>4. \A y \in T : n - y \in U
  OBVIOUS
<1>5. \A y \in T : x >= y
  BY <1>2, <1>3, <1>4
<1> QED
  BY <1>5 DEF Max

LEMMA CentIsPositive == Cent \in Nat \ {0}
<1>1. Whole \in Nat /\ Whole > 0
  BY PriceAssumption
<1>2. Whole * Whole \in Nat /\ Whole * Whole > 0
  BY <1>1
<1>3. (Whole * Whole) * Whole \in Nat /\ (Whole * Whole) * Whole > 0
  BY <1>1, <1>2
<1> QED
  BY <1>3 DEF Cent

LEMMA RoundedIsInt == ASSUME NEW price \in Int PROVE RoundHalfUp(price) \in Int
<1>1. 2 * Cent \in Nat /\ 2 * Cent > 0 /\ 2 * price + Cent \in Int
  BY CentIsPositive
<1> QED
  BY <1>1 DEF RoundHalfUp

(* A price is a whole number of cents, whatever the rule says. *)
LEMMA PriceIsInt ==
    ASSUME NEW s \in Sheets, NEW d \in Days, NEW before \in Int, NEW pct \in Occupancies,
           NEW previous \in SUBSET Int
    PROVE  CalculatePrice(s, d, before, pct, previous) \in Int
<1>1. IsRule(s) /\ Whole \in Nat /\ Occupancies \subseteq 0..Whole
  BY PriceAssumption
<1>2. /\ s.base \in Int /\ s.min \in Int /\ s.max \in Int /\ s.cap \in Int
      /\ s.day[d] \in Int
  BY <1>1 DEF IsRule, IsModifier
<1>3. LeadTime(s, before) \in Int
  <2> DEFINE fit == {t \in DOMAIN s.lead : before <= t}
  <2>1. fit # {} => Min(fit) \in fit
    <3>1. fit \subseteq Nat
      BY <1>1 DEF IsRule
    <3> HIDE DEF fit
    <3> QED
      BY <3>1, MinIsLeast
  <2>2. fit # {} => s.lead[Min(fit)] \in Int
    BY <1>1, <2>1 DEF IsRule, IsModifier
  <2> QED
    BY <2>2 DEF LeadTime
<1>4. Occupancy(s, pct) \in Int
  <2> DEFINE fit == {o \in DOMAIN s.occupancy : pct >= o}
  <2>1. fit # {} => Max(fit) \in fit
    <3>1. fit \subseteq 0..Whole
      BY <1>1 DEF IsRule
    <3> HIDE DEF fit
    <3> QED
      BY <1>1, <3>1, MaxIsGreatest
  <2>2. fit # {} => s.occupancy[Max(fit)] \in Int
    BY <1>1, <2>1 DEF IsRule, IsModifier
  <2> QED
    BY <2>2 DEF Occupancy
<1>5. Cent \in Int
  BY CentIsPositive
<1>6. ASSUME NEW price \in Int PROVE Capped(s, price, previous) \in Int
  <2>1. CASE previous = {}
    BY <2>1 DEF Capped
  <2>2. CASE previous # {}
    <3> DEFINE p == CHOOSE x \in previous : TRUE
    <3>1. p \in Int
      BY <2>2
    <3> HIDE DEF p
    <3>2. /\ p * (Whole - s.cap) * Whole * Whole \in Int
          /\ p * (Whole + s.cap) * Whole * Whole \in Int
      BY <1>1, <1>2, <3>1
    <3>3. Capped(s, price, previous) =
            Between(p * (Whole - s.cap) * Whole * Whole, price, p * (Whole + s.cap) * Whole * Whole)
      BY <2>2 DEF Capped, p
    <3> QED
      BY <3>2, <3>3 DEF Between
  <2> QED
    BY <2>1, <2>2
<1> DEFINE product == s.base * (Whole + s.day[d]) * (Whole + LeadTime(s, before))
                             * (Whole + Occupancy(s, pct))
<1>7. product \in Int
  BY <1>1, <1>2, <1>3, <1>4
<1> HIDE DEF product
<1>8. Between(s.min * Cent, Capped(s, product, previous), s.max * Cent) \in Int
  BY <1>2, <1>5, <1>6, <1>7 DEF Between
<1> QED
  BY <1>8, RoundedIsInt DEF CalculatePrice, product

-----------------------------------------------------------------------------
(* The walk over the horizon: Curve is a recursive function, and it is     *)
(* what its definition says.                                               *)

(* What the walk gives a day, from the day before it. *)
Priced(r, h, d, previous) ==
    IF Decided(h.seen[d]) THEN h.seen[d].price
    ELSE CalculatePrice(r.sheet, d, d - r.from, h.occupancy, previous)

DayBefore(g, r, d) == IF d = r.from + 1 THEN {} ELSE {g[d - 1]}

(* The first n days of a walk. *)
IsWalk(g, r, h, n) ==
    g = [d \in (r.from + 1)..(r.from + n) |-> Priced(r, h, d, DayBefore(g, r, d))]

LEMMA WalkExists ==
    ASSUME NEW r, r.from \in Nat, NEW h, NEW n \in Nat
    PROVE  \E g : IsWalk(g, r, h, n)
<1> DEFINE T == {k \in Nat : ~ \E g : IsWalk(g, r, h, k)}
<1> SUFFICES ASSUME T # {} PROVE FALSE
  OBVIOUS
<1>1. PICK k \in T : \A j \in T : k <= j
  <2>1. T \subseteq Nat
    OBVIOUS
  <2> HIDE DEF T
  <2> QED
    BY <2>1, LeastNumber
<1>2. CASE k = 0
  <2>1. IsWalk([d \in {} |-> 0], r, h, 0)
    BY DEF IsWalk
  <2> QED
    BY <1>1, <1>2, <2>1
<1>3. CASE k # 0
  <2>1. PICK g : IsWalk(g, r, h, k - 1)
    BY <1>1, <1>3
  <2> DEFINE longer == [d \in (r.from + 1)..(r.from + k) |-> Priced(r, h, d, DayBefore(g, r, d))]
  <2>2. \A d \in (r.from + 1)..(r.from + (k - 1)) : longer[d] = g[d]
    BY <1>3, <2>1 DEF IsWalk
  <2>3. \A d \in (r.from + 1)..(r.from + k) :
          d # r.from + 1 => d - 1 \in (r.from + 1)..(r.from + (k - 1))
    BY <1>3
  <2>4. \A d \in (r.from + 1)..(r.from + k) : DayBefore(longer, r, d) = DayBefore(g, r, d)
    <3> HIDE DEF longer
    <3> QED
      BY <2>2, <2>3 DEF DayBefore
  <2>5. IsWalk(longer, r, h, k)
    BY <2>4 DEF IsWalk
  <2> QED
    BY <1>1, <2>5
<1> QED
  BY <1>2, <1>3

LEMMA CurveIsAWalk ==
    ASSUME NEW r, r.from \in Nat, NEW h
    PROVE  IsWalk(Curve(r, h), r, h, HorizonDays)
<1>1. \E g : IsWalk(g, r, h, HorizonDays)
  BY WalkExists, PriceAssumption
<1> QED
  BY <1>1 DEF IsWalk, Curve, Priced, DayBefore, Horizon

(* What a run has read, once it is about to write. *)
PlanFits(r, h) ==
    /\ r.from \in 0..MaxToday /\ r.sheet \in Sheets
    /\ h.occupancy \in Occupancies
    /\ h.seen \in [Horizon(r.from) -> PriceRows]

LEMMA HorizonIsInDays ==
    ASSUME NEW from \in 0..MaxToday
    PROVE  Horizon(from) \subseteq Days
  BY PriceAssumption DEF Horizon, Days

LEMMA CurveIsInt ==
    ASSUME NEW r, NEW h, PlanFits(r, h)
    PROVE  \A d \in Horizon(r.from) : Curve(r, h)[d] \in Int
<1> DEFINE g == Curve(r, h)
           T == {k \in Nat : r.from + k \in Horizon(r.from) /\ g[r.from + k] \notin Int}
<1>1. r.from \in Nat /\ HorizonDays \in Nat
  BY PriceAssumption DEF PlanFits
<1>2. IsWalk(g, r, h, HorizonDays)
  BY <1>1, CurveIsAWalk
<1> HIDE DEF g
<1>3. T = {}
  <2> SUFFICES ASSUME T # {} PROVE FALSE
    OBVIOUS
  <2>1. PICK k \in T : \A j \in T : k <= j
    <3>1. T \subseteq Nat
      OBVIOUS
    <3> HIDE DEF T
    <3> QED
      BY <3>1, LeastNumber
  <2> DEFINE d == r.from + k
  <2>2. d \in Horizon(r.from) /\ d \in Days
    BY <2>1, HorizonIsInDays DEF PlanFits
  <2>3. d - r.from \in Int
    BY <1>1
  <2>4. DayBefore(g, r, d) \in SUBSET Int
    <3>1. CASE k = 1
      BY <1>1, <3>1 DEF DayBefore
    <3>2. CASE k # 1
      <4>1. k - 1 \in Nat /\ r.from + (k - 1) \in Horizon(r.from) /\ d - 1 = r.from + (k - 1)
        BY <1>1, <2>2, <3>2 DEF Horizon
      <4>2. g[r.from + (k - 1)] \in Int
        BY <2>1, <4>1
      <4> QED
        BY <4>1, <4>2 DEF DayBefore
    <3> QED
      BY <3>1, <3>2
  <2>5. g[d] = Priced(r, h, d, DayBefore(g, r, d))
    BY <1>2, <2>2 DEF IsWalk, Horizon
  <2>6. h.seen[d] \in PriceRows /\ r.sheet \in Sheets /\ h.occupancy \in Occupancies
    BY <2>2 DEF PlanFits
  <2> HIDE DEF d
  <2>7. Priced(r, h, d, DayBefore(g, r, d)) \in Int
    BY <2>2, <2>3, <2>4, <2>6, PriceIsInt DEF Priced, PriceRows
  <2> QED
    BY <2>1, <2>5, <2>7 DEF d
<1>4. ASSUME NEW d \in Horizon(r.from) PROVE g[d] \in Int
  <2>1. d - r.from \in Nat /\ r.from + (d - r.from) = d
    BY <1>1 DEF Horizon
  <2> QED
    BY <1>3, <2>1
<1> QED
  BY <1>4 DEF g

-----------------------------------------------------------------------------
(* A row that is there stays there, a run has one rule and one start, and  *)
(* its plan is about the days it has read.                                 *)
RunsFit ==
    /\ DOMAIN sweep = Sweeps /\ DOMAIN plan = Sweeps
    /\ \A p \in Sweeps : \A r, s \in sweep[p] : r = s
    /\ \A p \in Sweeps : \A r \in sweep[p], h \in plan[p] : \A d \in Horizon(r.from) :
         h.seen[d].status # "ABSENT" => rec[d].status # "ABSENT"
    /\ \A b \in basis : b.from \in 0..MaxToday
    /\ IsFiniteSet(decision)

PricesInv == PricesTypeOK /\ RunsFit /\ HorizonIsCoherent

LEMMA PricesInitInv == PricesInit => PricesInv
<1> SUFFICES ASSUME PricesInit PROVE PricesInv
  OBVIOUS
<1> USE PriceAssumption DEF PricesInit
<1>1. rec \in [Days -> PriceRows]
  BY DEF PriceRows, Unpriced
<1>2. \A p \in Sweeps : sweep[p] = {} /\ plan[p] = {}
  OBVIOUS
<1>3. \A p \in (sweeps + 1)..MaxSweeps : p \in Sweeps
  BY DEF Sweeps
<1>4. PricesTypeOK
  <2>1. Cardinality(decision) <= MaxOpen
    BY FS_EmptySet
  <2>2. today \in 0..MaxToday /\ sweeps \in 0..MaxSweeps
    OBVIOUS
  <2>3. \A p \in (sweeps + 1)..MaxSweeps : sweep[p] = {} /\ plan[p] = {}
    BY <1>2, <1>3
  <2> QED
    BY <1>1, <1>2, <2>1, <2>2, <2>3 DEF PricesTypeOK
<1>5. RunsFit
  BY <1>2, FS_EmptySet DEF RunsFit
<1> QED
  BY <1>4, <1>5 DEF PricesInv, HorizonIsCoherent

LEMMA PlansFit ==
    ASSUME PricesInv, NEW p \in Sweeps, NEW r \in sweep[p], NEW h \in plan[p]
    PROVE  PlanFits(r, h)
  BY PriceAssumption DEF PricesInv, PricesTypeOK, RunsFit, PlanFits

(* The days the rows of the last run are about are days. *)
LEMMA BasisIsInDays ==
    ASSUME PricesInv, NEW b \in basis, NEW d \in Horizon(b.from)
    PROVE  d \in Days /\ (d # b.from + 1 => d - 1 \in Days)
<1>1. b.from \in 0..MaxToday
  BY DEF PricesInv, RunsFit
<1> QED
  BY <1>1, PriceAssumption DEF Horizon, Days

LEMMA CoherenceStands ==
    ASSUME HorizonIsCoherent, UNCHANGED <<rec, basis, stale>>
    PROVE  HorizonIsCoherent'
  BY DEF HorizonIsCoherent, Decided

LEMMA RulesKeepPrices ==
    ASSUME PricesInv,
           DayPasses \/ \E s \in Sheets \cup {NoSheet} : EditRule(s)
    PROVE  PricesInv'
<1>1. /\ today' \in 0..MaxToday /\ today <= today'
      /\ sheet' \in Sheets \cup {NoSheet}
      /\ UNCHANGED <<rec, sweeps, sweep, plan, decision, basis, stale>>
  BY PriceAssumption DEF DayPasses, EditRule, PricesInv, PricesTypeOK
<1>2. today \in Nat /\ today' \in Nat
  BY <1>1, PriceAssumption DEF PricesInv, PricesTypeOK
<1>3. \A n \in 0..today : n \in 0..today'
  BY <1>1, <1>2
<1>4. PricesTypeOK'
  <2>1. \A p \in Sweeps :
          /\ \A s \in sweep[p] : s.sheet \in Sheets /\ s.from \in 0..today'
          /\ \A h \in plan[p] : \E s \in sweep[p] :
               h.occupancy \in Occupancies /\ h.seen \in [Horizon(s.from) -> PriceRows]
    BY <1>3 DEF PricesInv, PricesTypeOK
  <2> QED
    BY <1>1, <2>1 DEF PricesInv, PricesTypeOK
<1>5. RunsFit' /\ HorizonIsCoherent'
  BY <1>1, CoherenceStands DEF PricesInv, RunsFit
<1> QED
  BY <1>4, <1>5 DEF PricesInv

LEMMA StartKeepsPrices ==
    ASSUME PricesInv, NEW p \in Sweeps, ListRules(p)
    PROVE  PricesInv'
<1> DEFINE fresh == [from |-> today, sheet |-> sheet]
<1>1. /\ sheet \in Sheets /\ p = sweeps + 1 /\ sweeps' = p
      /\ sweep' = [sweep EXCEPT ![p] = {fresh}]
      /\ UNCHANGED <<today, sheet, rec, plan, decision, basis, stale>>
  BY DEF ListRules, PricesInv, PricesTypeOK
<1>2. sweeps \in Nat /\ MaxSweeps \in Nat /\ today \in 0..MaxToday
  BY PriceAssumption DEF PricesInv, PricesTypeOK
<1>3. p \in (sweeps + 1)..MaxSweeps
  BY <1>1, <1>2 DEF Sweeps
<1>4. sweep[p] = {} /\ plan[p] = {}
  BY <1>3 DEF PricesInv, PricesTypeOK
<1>5. /\ fresh.sheet \in Sheets /\ fresh.from \in 0..today
  BY <1>1, <1>2
<1> HIDE DEF fresh
<1>6. \A q \in Sweeps : sweep'[q] = IF q = p THEN {fresh} ELSE sweep[q]
  BY <1>1 DEF PricesInv, RunsFit
<1>7. \A q \in (sweeps' + 1)..MaxSweeps : q # p /\ q \in (sweeps + 1)..MaxSweeps /\ q \in Sweeps
  BY <1>1, <1>2 DEF Sweeps
<1>8. PricesTypeOK'
  <2>1. \A q \in Sweeps :
          /\ \A s \in sweep'[q] : s.sheet \in Sheets /\ s.from \in 0..today
          /\ \A h \in plan[q] : \E s \in sweep'[q] :
               h.occupancy \in Occupancies /\ h.seen \in [Horizon(s.from) -> PriceRows]
    BY <1>4, <1>5, <1>6 DEF PricesInv, PricesTypeOK
  <2>2. \A q \in (sweeps' + 1)..MaxSweeps : sweep'[q] = {} /\ plan[q] = {}
    BY <1>6, <1>7 DEF PricesInv, PricesTypeOK
  <2>3. sweeps' \in 0..MaxSweeps
    BY <1>1, <1>2, <1>3
  <2> QED
    BY <1>1, <2>1, <2>2, <2>3 DEF PricesInv, PricesTypeOK
<1>9. RunsFit' /\ HorizonIsCoherent'
  BY <1>1, <1>4, <1>6, CoherenceStands DEF PricesInv, RunsFit
<1> QED
  BY <1>8, <1>9 DEF PricesInv

LEMMA ReadKeepsPrices ==
    ASSUME PricesInv, NEW p \in Sweeps, NEW pct \in Occupancies, ReadHorizon(p, pct)
    PROVE  PricesInv'
<1>1. PICK r \in sweep[p] :
        plan' = [plan EXCEPT ![p] =
            {[occupancy |-> pct, seen |-> [d \in Horizon(r.from) |-> rec[d]]]}]
  BY DEF ReadHorizon
<1> DEFINE fresh == [occupancy |-> pct, seen |-> [d \in Horizon(r.from) |-> rec[d]]]
<1>2. UNCHANGED <<today, sheet, rec, sweeps, sweep, decision, basis, stale>>
  BY DEF ReadHorizon
<1>3. r.from \in 0..MaxToday /\ today \in 0..MaxToday
  BY PriceAssumption DEF PricesInv, PricesTypeOK
<1>4. fresh.occupancy \in Occupancies /\ fresh.seen \in [Horizon(r.from) -> PriceRows]
  BY <1>3, HorizonIsInDays DEF PricesInv, PricesTypeOK
<1>5. \A d \in Horizon(r.from) : fresh.seen[d] = rec[d]
  OBVIOUS
<1> HIDE DEF fresh
<1>6. \A q \in Sweeps : plan'[q] = IF q = p THEN {fresh} ELSE plan[q]
  BY <1>1 DEF PricesInv, RunsFit, fresh
<1>7. DOMAIN plan' = Sweeps
  BY <1>1 DEF PricesInv, RunsFit
<1>8. \A q \in (sweeps + 1)..MaxSweeps : q # p /\ q \in Sweeps
  BY PriceAssumption DEF PricesInv, PricesTypeOK, Sweeps
<1>9. PricesTypeOK'
  BY <1>2, <1>4, <1>6, <1>8 DEF PricesInv, PricesTypeOK
<1>10. RunsFit'
  BY <1>2, <1>5, <1>6, <1>7 DEF PricesInv, RunsFit
<1>11. HorizonIsCoherent'
  BY <1>2, CoherenceStands DEF PricesInv
<1> QED
  BY <1>9, <1>10, <1>11 DEF PricesInv

(* A run that ends, whatever it wrote of the horizon, leaves the others    *)
(* theirs.                                                                 *)
LEMMA EndKeepsPrices ==
    ASSUME PricesInv, NEW p \in Sweeps,
           sweep' = [sweep EXCEPT ![p] = {}], plan' = [plan EXCEPT ![p] = {}],
           UNCHANGED <<today, sheet, sweeps, decision>>,
           rec' \in [Days -> PriceRows], stale' \in BOOLEAN,
           \A d \in Days : rec[d].status # "ABSENT" => rec'[d].status # "ABSENT",
           \A b \in basis' : /\ b.from \in 0..MaxToday
                             /\ \A d \in Horizon(b.from) : rec'[d].status # "ABSENT"
    PROVE  PricesTypeOK' /\ RunsFit'
<1>1. \A q \in Sweeps : /\ sweep'[q] = IF q = p THEN {} ELSE sweep[q]
                        /\ plan'[q] = IF q = p THEN {} ELSE plan[q]
  BY DEF PricesInv, RunsFit
<1>2. \A q \in (sweeps + 1)..MaxSweeps : q \in Sweeps /\ sweep[q] = {} /\ plan[q] = {}
  BY PriceAssumption DEF PricesInv, PricesTypeOK, Sweeps
<1>3. PricesTypeOK'
  <2>1. \A q \in Sweeps :
          /\ \A s \in sweep'[q] : s.sheet \in Sheets /\ s.from \in 0..today
          /\ \A h \in plan'[q] : \E s \in sweep'[q] :
               h.occupancy \in Occupancies /\ h.seen \in [Horizon(s.from) -> PriceRows]
    BY <1>1 DEF PricesInv, PricesTypeOK
  <2>2. \A q \in (sweeps + 1)..MaxSweeps : sweep'[q] = {} /\ plan'[q] = {}
    BY <1>1, <1>2
  <2>3. \A c \in decision : rec'[c.day].status # "ABSENT"
    BY DEF PricesInv, PricesTypeOK, PriceCopies
  <2> QED
    BY <2>1, <2>2, <2>3 DEF PricesInv, PricesTypeOK
<1>4. RunsFit'
  <2>1. ASSUME NEW q \in Sweeps, NEW r \in sweep'[q], NEW h \in plan'[q], NEW d \in Horizon(r.from),
               h.seen[d].status # "ABSENT"
        PROVE  rec'[d].status # "ABSENT"
    <3>1. r \in sweep[q] /\ h \in plan[q]
      BY <1>1
    <3>2. d \in Days
      BY <3>1, PlansFit, HorizonIsInDays DEF PlanFits
    <3> QED
      BY <2>1, <3>1, <3>2 DEF PricesInv, RunsFit
  <2> QED
    BY <1>1, <2>1 DEF PricesInv, RunsFit
<1> QED
  BY <1>3, <1>4

LEMMA AbandonKeepsPrices ==
    ASSUME PricesInv, NEW p \in Sweeps, Abandon(p)
    PROVE  PricesInv'
<1>1. /\ sweep' = [sweep EXCEPT ![p] = {}] /\ plan' = [plan EXCEPT ![p] = {}]
      /\ UNCHANGED <<today, sheet, rec, sweeps, decision, basis, stale>>
  BY DEF Abandon
<1>2. \A b \in basis : /\ b.from \in 0..MaxToday
                       /\ \A d \in Horizon(b.from) : rec[d].status # "ABSENT"
  BY BasisIsInDays DEF PricesInv, PricesTypeOK, RunsFit
<1>3. PricesTypeOK' /\ RunsFit'
  BY <1>1, <1>2, EndKeepsPrices DEF PricesInv, PricesTypeOK
<1> QED
  BY <1>1, <1>3, CoherenceStands DEF PricesInv

(* What the run writes is its walk, but where a decision was faster.       *)
LEMMA WriteKeepsPrices ==
    ASSUME PricesInv, NEW p \in Sweeps, NEW r \in sweep[p], NEW h \in plan[p], WriteHorizon(p, r, h)
    PROVE  PricesInv'
<1> DEFINE H == Horizon(r.from)
           g == Curve(r, h)
           After(d) == IF d \in H /\ ~Decided(h.seen[d]) THEN Upserted(rec[d], g[d]) ELSE rec[d]
<1>1. PlanFits(r, h) /\ r.from \in Nat
  BY PlansFit DEF PlanFits
<1>2. H \subseteq Days
  BY <1>1, HorizonIsInDays DEF PlanFits
<1>3. /\ rec' = [d \in Days |-> After(d)]
      /\ basis' = {[from |-> r.from, sheet |-> r.sheet, occupancy |-> h.occupancy]}
      /\ stale' = \E d \in H : Standing(rec[d]) # Standing(h.seen[d])
      /\ sweep' = [sweep EXCEPT ![p] = {}] /\ plan' = [plan EXCEPT ![p] = {}]
      /\ UNCHANGED <<today, sheet, sweeps, decision>>
  BY DEF WriteHorizon
<1>4. \A d \in H : g[d] \in Int
  BY <1>1, CurveIsInt
<1>5. \A d \in Days : rec[d] \in PriceRows
  BY DEF PricesInv, PricesTypeOK
<1>6. \A d \in H : h.seen[d] \in PriceRows
  BY <1>1 DEF PlanFits
<1>7. ASSUME NEW row \in PriceRows, NEW price \in Int
      PROVE  /\ Upserted(row, price) \in PriceRows
             /\ Upserted(row, price).status # "ABSENT"
             /\ Decided(row) => Upserted(row, price) = row
             /\ ~Decided(row) => Upserted(row, price).price = price
  BY DEF Upserted, PriceRows, PriceStatuses, Decided, PreservedStatuses
<1>8. IsWalk(g, r, h, HorizonDays)
  BY <1>1, CurveIsAWalk
<1> HIDE DEF g, H
<1>9. ASSUME NEW d \in Days
      PROVE  /\ After(d) \in PriceRows
             /\ rec[d].status # "ABSENT" => After(d).status # "ABSENT"
  <2>1. CASE d \in H /\ ~Decided(h.seen[d])
    BY <1>4, <1>5, <1>7, <2>1
  <2>2. CASE ~ (d \in H /\ ~Decided(h.seen[d]))
    BY <1>5, <2>2
  <2> QED
    BY <2>1, <2>2
<1>10. ASSUME NEW d \in H
       PROVE  After(d).status # "ABSENT"
  <2>1. CASE Decided(h.seen[d])
    <3>1. h.seen[d].status # "ABSENT"
      BY <2>1 DEF Decided, PreservedStatuses
    <3>2. rec[d].status # "ABSENT"
      BY <3>1 DEF PricesInv, RunsFit, H
    <3> QED
      BY <2>1, <3>2
  <2>2. CASE ~Decided(h.seen[d])
    BY <1>2, <1>4, <1>5, <1>7, <2>2
  <2> QED
    BY <2>1, <2>2
<1> HIDE DEF After
<1>11. \A d \in Days : rec'[d] = After(d)
  BY <1>3
<1>12. PricesTypeOK' /\ RunsFit'
  <2>1. rec' \in [Days -> PriceRows]
    BY <1>3, <1>9
  <2>2. \A d \in Days : rec[d].status # "ABSENT" => rec'[d].status # "ABSENT"
    BY <1>9, <1>11
  <2>3. \A b \in basis' : /\ b.from \in 0..MaxToday
                          /\ \A d \in Horizon(b.from) : rec'[d].status # "ABSENT"
    BY <1>1, <1>2, <1>3, <1>10, <1>11 DEF PlanFits, H
  <2> QED
    BY <1>3, <2>1, <2>2, <2>3, EndKeepsPrices
<1>13. HorizonIsCoherent'
  <2> SUFFICES ASSUME ~stale', NEW b \in basis', NEW d \in Horizon(b.from), ~Decided(rec'[d])
               PROVE  rec'[d].price = CalculatePrice(b.sheet, d, d - b.from, b.occupancy,
                          IF d = b.from + 1 THEN {} ELSE {rec'[d - 1].price})
    BY DEF HorizonIsCoherent, Decided
  <2>1. b.from = r.from /\ b.sheet = r.sheet /\ b.occupancy = h.occupancy /\ d \in H
    BY <1>3 DEF H
  <2>2. ASSUME NEW e \in H
        PROVE  rec'[e].price = g[e] /\ (Decided(h.seen[e]) => Decided(rec'[e]))
    <3>1. Standing(rec[e]) = Standing(h.seen[e])
      BY <1>3
    <3>2. e \in Days /\ rec'[e] = After(e)
      BY <1>2, <1>11
    <3>3. CASE Decided(h.seen[e])
      <4>1. Decided(rec[e]) /\ rec[e].price = h.seen[e].price
        BY <3>1, <3>3 DEF Standing
      <4>2. g[e] = h.seen[e].price
        BY <1>8, <3>3 DEF IsWalk, Priced, H, Horizon
      <4> QED
        BY <3>2, <3>3, <4>1, <4>2 DEF After
    <3>4. CASE ~Decided(h.seen[e])
      <4>1. ~Decided(rec[e])
        BY <3>1, <3>4 DEF Standing
      <4> QED
        BY <1>4, <1>5, <1>7, <3>2, <3>4, <4>1 DEF After
    <3> QED
      BY <3>3, <3>4
  <2>3. ~Decided(h.seen[d])
    BY <2>1, <2>2
  <2>4. g[d] = CalculatePrice(r.sheet, d, d - r.from, h.occupancy, DayBefore(g, r, d))
    BY <1>8, <2>1, <2>3 DEF IsWalk, Priced, H, Horizon
  <2>5. d # r.from + 1 => d - 1 \in H
    BY <1>1, <2>1, PriceAssumption DEF H, Horizon
  <2>6. DayBefore(g, r, d) = IF d = b.from + 1 THEN {} ELSE {rec'[d - 1].price}
    BY <2>1, <2>2, <2>5 DEF DayBefore
  <2> QED
    BY <2>1, <2>2, <2>4, <2>6
<1> QED
  BY <1>12, <1>13 DEF PricesInv

LEMMA DecisionsKeepPrices ==
    ASSUME PricesInv, NEW c \in PriceCopies, LoadDecision(c) \/ SaveDecision(c)
    PROVE  PricesInv'
<1>1. \A d \in Days : rec[d] \in PriceRows
  BY DEF PricesInv, PricesTypeOK
<1>2. c.day \in Days /\ c.to \in PriceStatuses
  BY DEF PriceCopies, PriceStatuses
<1>3. IsFiniteSet(decision) /\ Cardinality(decision) \in Nat
  BY FS_CardinalityType DEF PricesInv, RunsFit
<1>4. CASE LoadDecision(c)
  <2>1. /\ Cardinality(decision) < MaxOpen /\ rec[c.day].status # "ABSENT"
        /\ decision' = decision \cup {c}
        /\ UNCHANGED <<today, sheet, rec, sweeps, sweep, plan, basis, stale>>
    BY <1>4 DEF LoadDecision, Origin, PriceCopies
  <2>2. IsFiniteSet(decision') /\ Cardinality(decision') <= MaxOpen
    <3>1. /\ IsFiniteSet(decision \cup {c})
          /\ Cardinality(decision \cup {c}) \in {Cardinality(decision), Cardinality(decision) + 1}
      BY <1>3, FS_AddElement
    <3> QED
      BY <1>3, <2>1, <3>1, PriceAssumption
  <2>3. PricesTypeOK'
    BY <2>1, <2>2 DEF PricesInv, PricesTypeOK
  <2> QED
    BY <2>1, <2>2, <2>3, CoherenceStands DEF PricesInv, RunsFit
<1>5. CASE SaveDecision(c)
  <2>1. /\ c \in decision
        /\ rec' = [rec EXCEPT ![c.day].status = c.to]
        /\ decision' = decision \ {c}
        /\ stale' = (stale \/ (Decided(rec[c.day]) /\ c.to = "REJECTED"))
        /\ UNCHANGED <<today, sheet, sweeps, sweep, plan, basis>>
    BY <1>5 DEF SaveDecision
  <2>2. rec' \in [Days -> PriceRows]
    BY <1>1, <1>2, <2>1 DEF PricesInv, PricesTypeOK, PriceRows
  <2>3. ASSUME NEW d \in Days
        PROVE  /\ rec'[d].price = rec[d].price
               /\ rec'[d].status = IF d = c.day THEN c.to ELSE rec[d].status
    BY <1>1, <2>1 DEF PricesInv, PricesTypeOK, PriceRows
  <2>4. c.to # "ABSENT" /\ (c.to = "REJECTED" \/ c.to \in PreservedStatuses)
    BY DEF PriceCopies, PreservedStatuses
  <2>5. IsFiniteSet(decision') /\ Cardinality(decision') <= MaxOpen
    <3>1. /\ IsFiniteSet(decision \ {c})
          /\ Cardinality(decision \ {c}) = Cardinality(decision) - 1
      BY <1>3, <2>1, FS_RemoveElement
    <3>2. Cardinality(decision) <= MaxOpen /\ MaxOpen \in Nat
      BY PriceAssumption DEF PricesInv, PricesTypeOK
    <3> QED
      BY <1>3, <2>1, <3>1, <3>2
  <2>6. PricesTypeOK'
    <3>1. \A k \in decision' : rec'[k.day].status # "ABSENT"
      BY <2>1, <2>3, <2>4 DEF PricesInv, PricesTypeOK, PriceCopies
    <3>2. \A d \in Days : rec'[d].status = "ABSENT" => \A b \in basis : d \notin Horizon(b.from)
      BY <2>3, <2>4 DEF PricesInv, PricesTypeOK
    <3>3. stale' \in BOOLEAN
      BY <2>1 DEF PricesInv, PricesTypeOK
    <3> QED
      BY <2>1, <2>2, <2>5, <3>1, <3>2, <3>3 DEF PricesInv, PricesTypeOK
  <2>7. RunsFit'
    <3>1. ASSUME NEW p \in Sweeps, NEW r \in sweep[p], NEW h \in plan[p], NEW d \in Horizon(r.from),
                 h.seen[d].status # "ABSENT"
          PROVE  rec'[d].status # "ABSENT"
      <4>1. d \in Days
        BY PlansFit, HorizonIsInDays DEF PlanFits
      <4> QED
        BY <2>3, <2>4, <3>1, <4>1 DEF PricesInv, RunsFit
    <3> QED
      BY <2>1, <2>5, <3>1 DEF PricesInv, RunsFit
  <2>8. HorizonIsCoherent'
    <3> SUFFICES ASSUME ~stale', NEW b \in basis', NEW d \in Horizon(b.from), ~Decided(rec'[d])
                 PROVE  rec'[d].price = CalculatePrice(b.sheet, d, d - b.from, b.occupancy,
                            IF d = b.from + 1 THEN {} ELSE {rec'[d - 1].price})
      BY DEF HorizonIsCoherent, Decided
    <3>1. b \in basis /\ ~stale /\ ~ (Decided(rec[c.day]) /\ c.to = "REJECTED")
      BY <2>1
    <3>2. d \in Days /\ (d # b.from + 1 => d - 1 \in Days)
      BY <3>1, BasisIsInDays
    <3>3. ~Decided(rec[d])
      BY <2>3, <2>4, <3>1, <3>2 DEF Decided, PreservedStatuses
    <3>4. rec[d].price = CalculatePrice(b.sheet, d, d - b.from, b.occupancy,
                            IF d = b.from + 1 THEN {} ELSE {rec[d - 1].price})
      BY <3>1, <3>3 DEF PricesInv, HorizonIsCoherent
    <3>5. rec'[d].price = rec[d].price /\ (d # b.from + 1 => rec'[d - 1].price = rec[d - 1].price)
      BY <2>3, <3>2
    <3>6. (IF d = b.from + 1 THEN {} ELSE {rec'[d - 1].price})
            = (IF d = b.from + 1 THEN {} ELSE {rec[d - 1].price})
      BY <3>5
    <3> QED
      BY <3>4, <3>5, <3>6
  <2> QED
    BY <2>6, <2>7, <2>8 DEF PricesInv
<1> QED
  BY <1>4, <1>5

LEMMA PricesNextKeepsInv == PricesInv /\ [PricesNext]_priceVars => PricesInv'
<1> SUFFICES ASSUME PricesInv, [PricesNext]_priceVars PROVE PricesInv'
  OBVIOUS
<1>1. CASE DayPasses \/ \E s \in Sheets \cup {NoSheet} : EditRule(s)
  BY <1>1, RulesKeepPrices
<1>2. CASE \E p \in Sweeps : ListRules(p)
  BY <1>2, StartKeepsPrices
<1>3. CASE \E p \in Sweeps, pct \in Occupancies : ReadHorizon(p, pct)
  BY <1>3, ReadKeepsPrices
<1>4. CASE \E p \in Sweeps : \E r \in sweep[p], h \in plan[p] : WriteHorizon(p, r, h)
  BY <1>4, WriteKeepsPrices
<1>5. CASE \E p \in Sweeps : Abandon(p)
  BY <1>5, AbandonKeepsPrices
<1>6. CASE \E c \in PriceCopies : LoadDecision(c) \/ SaveDecision(c)
  BY <1>6, DecisionsKeepPrices
<1>7. CASE UNCHANGED priceVars
  BY <1>7, CoherenceStands DEF priceVars, PricesInv, PricesTypeOK, RunsFit
<1> QED
  BY <1>1, <1>2, <1>3, <1>4, <1>5, <1>6, <1>7 DEF PricesNext

LEMMA PricesInvAlways == PricesSpec => []PricesInv
  BY PricesInitInv, PricesNextKeepsInv, PTL DEF PricesSpec

(* The prices are whole numbers of cents, a plan has a run, and every day  *)
(* of the last run's horizon has a row.                                    *)
THEOREM PricesTypeCorrect == PricesSpec => []PricesTypeOK
<1>1. PricesInv => PricesTypeOK
  BY DEF PricesInv
<1> QED
  BY <1>1, PricesInvAlways, PTL

(* The open prices of a horizon are the ones its rule gives, each measured *)
(* against the price shown for the day before: for any rules, horizon,     *)
(* runs and decisions, as long as no decision crossed the last run.        *)
THEOREM HorizonStaysCoherent == PricesSpec => []HorizonIsCoherent
<1>1. PricesInv => HorizonIsCoherent
  BY DEF PricesInv
<1> QED
  BY <1>1, PricesInvAlways, PTL

(* No run and no decision changes the price of a day while it is decided.  *)
THEOREM DecidedPriceAlwaysStands == PricesSpec => DecidedPriceStands
<1>1. ASSUME PricesInv, [PricesNext]_priceVars, NEW d \in Days, Decided(rec[d])
      PROVE  rec'[d].price = rec[d].price
  <2>1. rec[d] \in PriceRows /\ DOMAIN rec = Days
    BY <1>1 DEF PricesInv, PricesTypeOK
  <2>2. CASE \E p \in Sweeps : \E r \in sweep[p], h \in plan[p] : WriteHorizon(p, r, h)
    <3>1. PICK p \in Sweeps : \E r \in sweep[p], h \in plan[p] : WriteHorizon(p, r, h)
      BY <2>2
    <3>2. PICK r \in sweep[p], h \in plan[p] : WriteHorizon(p, r, h)
      BY <3>1
    <3>3. \A price : Upserted(rec[d], price) = rec[d]
      BY <1>1 DEF Upserted, Decided, PreservedStatuses
    <3>4. rec'[d] = IF d \in Horizon(r.from) /\ ~Decided(h.seen[d])
                      THEN Upserted(rec[d], Curve(r, h)[d]) ELSE rec[d]
      BY <3>2 DEF WriteHorizon
    <3>5. rec'[d] = rec[d]
      BY <3>3, <3>4
    <3> QED
      BY <3>5
  <2>3. CASE \E c \in PriceCopies : SaveDecision(c)
    BY <2>1, <2>3 DEF SaveDecision, PriceRows
  <2>4. CASE UNCHANGED rec
    BY <2>4
  <2> QED
    BY <1>1, <2>2, <2>3, <2>4 DEF PricesNext, priceVars, DayPasses, EditRule, ListRules, Abandon,
                                  ReadHorizon, LoadDecision
<1>2. PricesInv /\ [PricesNext]_priceVars =>
        [\A d \in Days : Decided(rec[d]) => rec'[d].price = rec[d].price]_priceVars
  BY <1>1
<1> QED
  BY <1>2, PricesInvAlways, PTL DEF PricesSpec, DecidedPriceStands
-----------------------------------------------------------------------------
(* The reviews. *)

(* A copy a person holds was drafted if it says so: drafts do not go. *)
CopiesAreDrafted ==
    \A p \in People : \A c \in person[p] : c.row.summary => draft[c.id] # "NONE"

ReviewsInv == ReviewsTypeOK /\ CopiesAreDrafted /\ IsFiniteSet(taken)

LEMMA ReviewsInitInv == ReviewsInit => ReviewsInv
<1> SUFFICES ASSUME ReviewsInit PROVE ReviewsInv
  OBVIOUS
<1> USE ReviewsAssumption DEF ReviewsInit
<1>1. review \in [Reviews -> ReviewRows]
  BY DEF ReviewRows, MaxClassifications
<1>2. ReviewsTypeOK
  BY <1>1, FS_EmptySet DEF ReviewsTypeOK, Drafts
<1> QED
  BY <1>2, FS_EmptySet DEF ReviewsInv, CopiesAreDrafted

(* The rows keep their types, and a row that has a summary has a draft. *)
LEMMA RowsKeepReviews ==
    ASSUME ReviewsInv, review' \in [Reviews -> ReviewRows], draft' \in [Reviews -> Drafts],
           \A r \in Reviews : review'[r].summary => draft'[r] # "NONE",
           \A r \in Reviews : draft[r] # "NONE" => draft'[r] # "NONE",
           person' \in [People -> SUBSET Loaded],
           \A p \in People : \A c \in person'[p] : c \in person[p],
           taken' \subseteq taken, held' \in {{}, {k.id : k \in taken'}}
    PROVE  ReviewsInv'
<1>1. IsFiniteSet(taken') /\ Cardinality(taken') <= TickSize
  <2>1. IsFiniteSet(taken) /\ Cardinality(taken) <= TickSize
    BY DEF ReviewsInv, ReviewsTypeOK
  <2>2. /\ IsFiniteSet(taken') /\ Cardinality(taken') <= Cardinality(taken)
        /\ Cardinality(taken) \in Nat /\ Cardinality(taken') \in Nat
    BY <2>1, FS_Subset, FS_CardinalityType
  <2> QED
    BY <2>1, <2>2, ReviewsAssumption
<1>2. held' \subseteq Reviews
  BY DEF ReviewsInv, ReviewsTypeOK, Taken
<1>3. ReviewsTypeOK'
  BY <1>1, <1>2 DEF ReviewsInv, ReviewsTypeOK
<1>4. CopiesAreDrafted'
  BY DEF ReviewsInv, ReviewsTypeOK, CopiesAreDrafted, Loaded
<1> QED
  BY <1>1, <1>3, <1>4 DEF ReviewsInv

LEMMA PeopleKeepReviews ==
    ASSUME ReviewsInv, NEW p \in People, NEW c \in person[p], SaveReview(p, c) \/ SaveDraft(p, c)
    PROVE  ReviewsInv'
<1>1. c \in Loaded /\ c.id \in Reviews /\ c.row \in ReviewRows /\ c.draft \in Drafts
  BY DEF ReviewsInv, ReviewsTypeOK, Loaded
<1>2. /\ person' = [person EXCEPT ![p] = {}] /\ UNCHANGED <<taken, held>>
  BY DEF SaveReview, SaveDraft
<1>3. /\ person' \in [People -> SUBSET Loaded]
      /\ \A q \in People : \A k \in person'[q] : k \in person[q]
  BY <1>2 DEF ReviewsInv, ReviewsTypeOK
<1>4. c.row.summary => draft[c.id] # "NONE"
  BY DEF ReviewsInv, CopiesAreDrafted
<1>5. /\ review' \in [Reviews -> ReviewRows] /\ draft' \in [Reviews -> Drafts]
      /\ \A r \in Reviews : review'[r].summary => draft'[r] # "NONE"
      /\ \A r \in Reviews : draft[r] # "NONE" => draft'[r] # "NONE"
  <2>1. CASE SaveReview(p, c)
    <3> DEFINE row == [c.row EXCEPT !.status = Outcome[c.op]]
               kept == IF c.op = "approve" THEN "APPROVED" ELSE draft[c.id]
    <3>1. row \in ReviewRows /\ row.summary = c.row.summary
      BY <1>1, <2>1 DEF SaveReview, Outcome, ReviewRows, ReviewStatuses
    <3>2. kept \in Drafts /\ (draft[c.id] # "NONE" => kept # "NONE")
      BY <1>1 DEF ReviewsInv, ReviewsTypeOK, Drafts
    <3>3. review' = [review EXCEPT ![c.id] = row] /\ draft' = [draft EXCEPT ![c.id] = kept]
      BY <2>1 DEF SaveReview
    <3> HIDE DEF row, kept
    <3> QED
      BY <1>1, <1>4, <3>1, <3>2, <3>3 DEF ReviewsInv, ReviewsTypeOK
  <2>2. CASE SaveDraft(p, c)
    <3> DEFINE kept == IF c.draft # "NONE" THEN c.draft
                       ELSE IF draft[c.id] = "NONE" THEN "OPEN" ELSE draft[c.id]
    <3>1. kept \in Drafts /\ kept # "NONE"
      BY <1>1 DEF ReviewsInv, ReviewsTypeOK, Drafts
    <3>2. review' = review /\ draft' = [draft EXCEPT ![c.id] = kept]
      BY <2>2 DEF SaveDraft
    <3> HIDE DEF kept
    <3> QED
      BY <1>1, <3>1, <3>2 DEF ReviewsInv, ReviewsTypeOK
  <2> QED
    BY <2>1, <2>2
<1>6. held' \in {{}, {k.id : k \in taken'}} /\ taken' \subseteq taken
  BY <1>2 DEF ReviewsInv, ReviewsTypeOK
<1> QED
  BY <1>3, <1>5, <1>6, RowsKeepReviews

LEMMA OpensKeepReviews ==
    ASSUME ReviewsInv,
           \/ \E r \in Reviews : CreateReview(r)
           \/ \E p \in People, op \in Operations, r \in Reviews : LoadReview(p, op, r)
    PROVE  ReviewsInv'
<1>1. ASSUME NEW r \in Reviews, CreateReview(r)
      PROVE  ReviewsInv'
  <2>1. /\ review' = [review EXCEPT ![r].status = "NEW"] /\ UNCHANGED <<draft, taken, held, person>>
    BY <1>1 DEF CreateReview
  <2>2. review[r] \in ReviewRows
    BY DEF ReviewsInv, ReviewsTypeOK
  <2>3. /\ [review[r] EXCEPT !.status = "NEW"] \in ReviewRows
        /\ [review[r] EXCEPT !.status = "NEW"].summary = review[r].summary
    BY <2>2 DEF ReviewRows, ReviewStatuses
  <2>4. /\ review' \in [Reviews -> ReviewRows]
        /\ \A q \in Reviews : review'[q].summary => draft[q] # "NONE"
    BY <2>1, <2>3 DEF ReviewsInv, ReviewsTypeOK
  <2> QED
    BY <2>1, <2>4, RowsKeepReviews DEF ReviewsInv, ReviewsTypeOK
<1>2. ASSUME NEW p \in People, NEW op \in Operations, NEW r \in Reviews, LoadReview(p, op, r)
      PROVE  ReviewsInv'
  <2> DEFINE fresh == [op |-> op, id |-> r, row |-> review[r], draft |-> draft[r]]
  <2>1. /\ person' = [person EXCEPT ![p] = {fresh}] /\ UNCHANGED <<review, draft, taken, held>>
    BY <1>2 DEF LoadReview
  <2>2. fresh \in Loaded /\ fresh.id = r /\ fresh.row = review[r]
    BY DEF ReviewsInv, ReviewsTypeOK, Loaded
  <2> HIDE DEF fresh
  <2>3. ReviewsTypeOK' /\ IsFiniteSet(taken')
    BY <2>1, <2>2 DEF ReviewsInv, ReviewsTypeOK
  <2>4. \A q \in People : \A c \in person'[q] : c \in person[q] \/ c = fresh
    BY <2>1 DEF ReviewsInv, ReviewsTypeOK
  <2>5. CopiesAreDrafted'
    BY <2>1, <2>2, <2>4 DEF ReviewsInv, ReviewsTypeOK, CopiesAreDrafted
  <2> QED
    BY <2>3, <2>5 DEF ReviewsInv
<1> QED
  BY <1>1, <1>2

(* One tick takes no more than its size: the last one it takes has fewer   *)
(* before it.                                                              *)
LEMMA TickIsSmall == IsFiniteSet(InTick) /\ Cardinality(InTick) <= TickSize
<1>1. InboxSize \in Nat /\ TickSize \in Nat /\ TickSize > 0 /\ InTick \subseteq 1..InboxSize
  BY ReviewsAssumption DEF InTick, Unclassified, Reviews
<1>2. IsFiniteSet(1..InboxSize)
  BY <1>1, FS_Interval
<1>3. IsFiniteSet(InTick) /\ Cardinality(InTick) \in Nat
  BY <1>1, <1>2, FS_Subset, FS_CardinalityType
<1>4. CASE InTick = {}
  BY <1>1, <1>4, FS_EmptySet
<1>5. CASE InTick # {}
  <2> DEFINE U == {k \in Nat : \E x \in InTick : k = InboxSize - x}
  <2>1. \A x \in InTick : InboxSize - x \in U
    BY <1>1
  <2>2. PICK k \in U : \A j \in U : k <= j
    <3>1. U # {} /\ U \subseteq Nat
      BY <1>5, <2>1
    <3> HIDE DEF U
    <3> QED
      BY <3>1, LeastNumber
  <2>3. PICK last \in InTick : k = InboxSize - last
    BY <2>2
  <2>4. \A q \in InTick : q <= last
    BY <1>1, <2>1, <2>2, <2>3
  <2> DEFINE before == {q \in Unclassified : q < last}
  <2>5. Cardinality(before) < TickSize
    BY DEF InTick
  <2>6. IsFiniteSet(before) /\ Cardinality(before) \in Nat
    <3>1. before \subseteq 1..InboxSize
      BY DEF Unclassified, Reviews
    <3> QED
      BY <1>2, <3>1, FS_Subset, FS_CardinalityType
  <2>7. InTick \subseteq before \cup {last}
    <3>1. ASSUME NEW q \in InTick, q # last PROVE q \in before
      <4>1. q < last
        BY <1>1, <2>4, <3>1
      <4> QED
        BY <4>1 DEF InTick
    <3> QED
      BY <3>1
  <2> HIDE DEF before
  <2>8. /\ IsFiniteSet(before \cup {last})
        /\ Cardinality(before \cup {last}) \in {Cardinality(before), Cardinality(before) + 1}
    BY <2>6, FS_AddElement
  <2>9. Cardinality(InTick) <= Cardinality(before \cup {last})
    BY <2>7, <2>8, FS_Subset
  <2> QED
    BY <1>1, <1>3, <2>5, <2>6, <2>8, <2>9
<1> QED
  BY <1>4, <1>5

(* The copies of a tick are as many as its reviews.                        *)
LEMMA BatchKeepsReviews ==
    ASSUME ReviewsInv, TakeBatch
    PROVE  ReviewsInv'
<1> DEFINE copy == [r \in InTick |-> [id |-> r, row |-> review[r]]]
<1>1. /\ taken' = {copy[r] : r \in InTick} /\ held' = InTick
      /\ UNCHANGED <<review, draft, person>>
  BY DEF TakeBatch
<1>2. InTick \subseteq Reviews
  BY DEF InTick, Unclassified
<1>3. IsFiniteSet(taken') /\ Cardinality(taken') <= TickSize
  <2>1. IsFiniteSet(InTick) /\ Cardinality(InTick) <= TickSize
    BY TickIsSmall
  <2>2. copy \in Surjection(InTick, taken')
    BY <1>1 DEF Surjection
  <2>3. IsFiniteSet(taken') /\ Cardinality(taken') <= Cardinality(InTick)
    BY <2>1, <2>2, FS_Surjection
  <2> QED
    BY <2>1, <2>3, FS_CardinalityType, ReviewsAssumption
<1>4. /\ \A r \in InTick : copy[r] \in Taken /\ copy[r].id = r /\ copy[r].row = review[r]
      /\ \A r \in InTick : ~review[r].summary /\ review[r].attempts < MaxClassifications
  BY <1>2 DEF ReviewsInv, ReviewsTypeOK, Taken, InTick, Unclassified
<1> HIDE DEF copy
<1>5. /\ \A k \in taken' : /\ k \in Taken /\ ~k.row.summary
                           /\ k.row.attempts < MaxClassifications
      /\ held' = {k.id : k \in taken'}
  <2>1. \A k \in taken' : \E r \in InTick : k = copy[r]
    BY <1>1
  <2>2. \A k \in taken' : k.id \in InTick
    BY <1>4, <2>1
  <2>3. \A r \in InTick : copy[r] \in taken'
    BY <1>1
  <2>4. \A r \in InTick : r \in {k.id : k \in taken'}
    BY <1>4, <2>3
  <2> QED
    BY <1>1, <1>4, <2>1, <2>2, <2>4
<1>6. ReviewsTypeOK'
  BY <1>1, <1>2, <1>3, <1>4, <1>5 DEF ReviewsInv, ReviewsTypeOK
<1>7. CopiesAreDrafted'
  BY <1>1 DEF ReviewsInv, CopiesAreDrafted
<1> QED
  BY <1>3, <1>6, <1>7 DEF ReviewsInv

LEMMA VerdictsKeepReviews ==
    ASSUME ReviewsInv, NEW k \in taken,
           ClassificationFails(k) \/ ClassifiedLowConfidence(k) \/ Classified(k) \/ Chokes(k)
    PROVE  ReviewsInv'
<1>1. /\ k.id \in Reviews /\ k.row \in ReviewRows
      /\ ~k.row.summary /\ k.row.attempts < MaxClassifications
  BY DEF ReviewsInv, ReviewsTypeOK, Taken
<1>2. /\ person' = person /\ taken' \subseteq taken /\ held' = {}
  BY DEF ClassificationFails, AnalysisFails, ClassifiedLowConfidence, Classified, Chokes, Commits
<1>3. ASSUME NEW row \in ReviewRows, review' = [review EXCEPT ![k.id] = row],
             draft' \in [Reviews -> Drafts],
             \A r \in Reviews : draft[r] # "NONE" => draft'[r] # "NONE",
             row.summary => draft'[k.id] # "NONE"
      PROVE  ReviewsInv'
  <2>1. /\ review' \in [Reviews -> ReviewRows]
        /\ \A r \in Reviews : review'[r].summary => draft'[r] # "NONE"
    BY <1>1, <1>3 DEF ReviewsInv, ReviewsTypeOK
  <2> QED
    BY <1>2, <1>3, <2>1, RowsKeepReviews DEF ReviewsInv, ReviewsTypeOK
<1>4. CASE ClassificationFails(k)
  <2>1. /\ [k.row EXCEPT !.attempts = k.row.attempts + 1] \in ReviewRows
        /\ ~[k.row EXCEPT !.attempts = k.row.attempts + 1].summary
    BY <1>1 DEF ReviewRows, MaxClassifications
  <2> QED
    BY <1>3, <1>4, <2>1 DEF ClassificationFails, AnalysisFails, Commits, ReviewsInv, ReviewsTypeOK
<1>5. CASE ClassifiedLowConfidence(k)
  <2>1. /\ [k.row EXCEPT !.status = "DRAFTED"] \in ReviewRows
        /\ ~[k.row EXCEPT !.status = "DRAFTED"].summary
    BY <1>1 DEF ReviewRows, ReviewStatuses
  <2> QED
    BY <1>3, <1>5, <2>1 DEF ClassifiedLowConfidence, Commits, ReviewsInv, ReviewsTypeOK
<1>6. CASE Classified(k)
  <2> DEFINE kept == IF draft[k.id] = "NONE" THEN "OPEN" ELSE draft[k.id]
  <2>1. [k.row EXCEPT !.status = "DRAFTED", !.summary = TRUE] \in ReviewRows
    BY <1>1 DEF ReviewRows, ReviewStatuses
  <2>2. /\ review' = [review EXCEPT ![k.id] = [k.row EXCEPT !.status = "DRAFTED", !.summary = TRUE]]
        /\ draft' = [draft EXCEPT ![k.id] = kept]
    BY <1>6 DEF Classified, Commits
  <2>3. kept \in Drafts /\ kept # "NONE"
    BY <1>1 DEF ReviewsInv, ReviewsTypeOK, Drafts
  <2> HIDE DEF kept
  <2>4. /\ draft' \in [Reviews -> Drafts] /\ draft'[k.id] # "NONE"
        /\ \A r \in Reviews : draft[r] # "NONE" => draft'[r] # "NONE"
    BY <1>1, <2>2, <2>3 DEF ReviewsInv, ReviewsTypeOK
  <2> QED
    BY <1>3, <2>1, <2>2, <2>4
<1>7. CASE Chokes(k)
  BY <1>2, <1>7, RowsKeepReviews DEF Chokes, ReviewsInv, ReviewsTypeOK
<1> QED
  BY <1>4, <1>5, <1>6, <1>7

LEMMA ReviewsNextKeepsInv ==
    ASSUME ReviewsInv, [ReviewsNext]_reviewVars
    PROVE  ReviewsInv'
<1>1. CASE UNCHANGED reviewVars
  BY <1>1 DEF reviewVars, ReviewsInv, ReviewsTypeOK, CopiesAreDrafted
<1>2. CASE ReviewsNext
  <2>1. CASE \/ \E r \in Reviews : CreateReview(r)
             \/ \E p \in People, op \in Operations, r \in Reviews : LoadReview(p, op, r)
    BY <2>1, OpensKeepReviews
  <2>2. CASE \E p \in People : \E c \in person[p] : SaveReview(p, c) \/ SaveDraft(p, c)
    BY <2>2, PeopleKeepReviews
  <2>3. CASE TakeBatch
    BY <2>3, BatchKeepsReviews
  <2>4. CASE \E k \in taken :
               ClassificationFails(k) \/ ClassifiedLowConfidence(k) \/ Classified(k) \/ Chokes(k)
    BY <2>4, VerdictsKeepReviews
  <2> QED
    BY <1>2, <2>1, <2>2, <2>3, <2>4 DEF ReviewsNext, Classification
<1> QED
  BY <1>1, <1>2

LEMMA ReviewsInvAlways == ReviewsSpec => []ReviewsInv
<1> QED
  BY ReviewsInitInv, ReviewsNextKeepsInv, PTL DEF ReviewsSpec

(* The rows, the copies and the locks of the reviews are what they are     *)
(* declared to be: in particular the job never holds more than one tick's  *)
(* reviews, holds none that is classified or out of attempts, and no       *)
(* review has a summary without a draft, whatever people save meanwhile.   *)
THEOREM ReviewsTypeCorrect == ReviewsSpec => []ReviewsTypeOK
<1>1. ReviewsInv => ReviewsTypeOK
  BY DEF ReviewsInv
<1> QED
  BY <1>1, ReviewsInvAlways, PTL
-----------------------------------------------------------------------------
(* The access records. *)

(* The changes of a stay that its records have not used up. *)
RoomIn(tally, rows, b, k) ==
    /\ tally[b] >= k
    /\ \A n \in Numbers : rows[<<b, n>>] # "ABSENT" => n + k <= tally[b]

(* Records are never more than the changes of their stay; a stay that is   *)
(* on without a live record has room for one, also if it is on again under *)
(* a sweep that revokes; and so have the stays a sweep is adding to.       *)
RoomIsLeft ==
    /\ \A b \in Bookings :
         /\ RoomIn(moves, record, b, 0)
         /\ booking[b] = "CANCELLED" => moves[b] >= 1
         /\ booking[b] = "CONFIRMED" /\ (\A n \in Numbers : ~Live(<<b, n>>))
              => RoomIn(moves, record, b, 1)
    /\ \A m \in missing :
         /\ RoomIn(moves, record, m[1], 1)
         /\ m[2] = TRUE => \A n \in Numbers : ~Exists(<<m[1], n>>)
         /\ m[2] = TRUE /\ booking[m[1]] = "CONFIRMED" => RoomIn(moves, record, m[1], 2)
    /\ \A r \in revoking : booking[r[1]] = "CONFIRMED" =>
         /\ RoomIn(moves, record, r[1], 1)
         /\ <<r[1], FALSE>> \in missing => RoomIn(moves, record, r[1], 2)

(* Operators hold records that exist, and what a sweep revokes is one of   *)
(* them or the one it adds.                                                *)
RecordsInHand ==
    /\ \A o \in Operators : \A k \in operator[o] : Exists(k[1]) /\ k[2] \in LiveRecords
    /\ \A r \in revoking : \/ Exists(r)
                           \/ /\ <<r[1], FALSE>> \in missing
                              /\ \A m \in Numbers : m < r[2] => Exists(<<r[1], m>>)

AccessInv == AccessTypeOK /\ RoomIsLeft /\ RecordsInHand

LEMMA AccessInitInv == AccessInit => AccessInv
<1> SUFFICES ASSUME AccessInit PROVE AccessInv
  OBVIOUS
<1>1. MaxBookingMoves \in Nat
  BY AccessAssumption
<1>2. AccessTypeOK
  BY <1>1 DEF AccessInit, AccessTypeOK, BookingStatuses, RecordStatuses, LiveRecords, Records, Exists
<1>3. RoomIsLeft
  BY DEF AccessInit, RoomIsLeft, RoomIn, Exists, Records, Numbers
<1>4. RecordsInHand
  BY DEF AccessInit, RecordsInHand
<1> QED
  BY <1>2, <1>3, <1>4 DEF AccessInv

LEMMA RecordPairs ==
    ASSUME NEW r \in Records
    PROVE  r = <<r[1], r[2]>> /\ r[1] \in Bookings /\ r[2] \in Numbers
  BY DEF Records

LEMMA PairParts ==
    ASSUME NEW S, NEW T, NEW x \in S \X T
    PROVE  x = <<x[1], x[2]>> /\ x[1] \in S /\ x[2] \in T
  OBVIOUS

LEMMA NumbersAreNat == Numbers \subseteq Nat /\ 1 \in Numbers /\ \A n \in Numbers : n >= 1
  BY AccessAssumption DEF Numbers

(* Changes of the stay make room, and do nothing else. *)
LEMMA MovesKeepAccess ==
    ASSUME AccessInv, NEW b \in Bookings, NEW to \in BookingStatuses, BookingMoves(b, to)
    PROVE  AccessInv'
<1>1. /\ booking' = [booking EXCEPT ![b] = to] /\ moves' = [moves EXCEPT ![b] = @ + 1]
      /\ moves[b] < MaxBookingMoves
      /\ UNCHANGED <<record, shown, spc, missing, revoking, operator, crossed>>
  BY DEF BookingMoves
<1>2. moves \in [Bookings -> 0..MaxBookingMoves] /\ MaxBookingMoves \in Nat
  BY AccessAssumption DEF AccessInv, AccessTypeOK
<1>3. moves' \in [Bookings -> 0..MaxBookingMoves] /\ booking' \in [Bookings -> BookingStatuses]
  BY <1>1, <1>2 DEF AccessInv, AccessTypeOK
<1>4. AccessTypeOK'
  BY <1>1, <1>3 DEF AccessInv, AccessTypeOK, Exists
<1>5. /\ \A x \in Bookings : x # b => moves'[x] = moves[x] /\ booking'[x] = booking[x]
      /\ moves'[b] = moves[b] + 1 /\ moves[b] \in Nat
  BY <1>1, <1>2 DEF AccessInv, AccessTypeOK
<1>6. /\ \A x \in Bookings : \A k \in Nat :
           RoomIn(moves, record, x, k) => RoomIn(moves', record', x, k)
      /\ \A k \in Nat : RoomIn(moves, record, b, k) => RoomIn(moves', record', b, k + 1)
  <2> SUFFICES ASSUME NEW x \in Bookings, NEW k \in Nat, RoomIn(moves, record, x, k)
               PROVE  RoomIn(moves', record', x, k) /\ (x = b => RoomIn(moves', record', x, k + 1))
    OBVIOUS
  <2>1. moves[x] \in Nat /\ moves'[x] \in {moves[x], moves[x] + 1}
    BY <1>2, <1>5
  <2> QED
    <3>1. RoomIn(moves', record', x, k)
      BY <1>1, <2>1, NumbersAreNat DEF RoomIn
    <3>2. ASSUME x = b PROVE RoomIn(moves', record', x, k + 1)
      <4>1. moves'[x] = moves[x] + 1
        BY <1>5, <3>2
      <4>2. moves'[x] >= k + 1
        BY <2>1, <4>1 DEF RoomIn
      <4>3. ASSUME NEW n \in Numbers, record'[<<x, n>>] # "ABSENT" PROVE n + (k + 1) <= moves'[x]
        <5>1. n + k <= moves[x] /\ n \in Nat
          BY <1>1, <4>3, NumbersAreNat DEF RoomIn
        <5> QED
          BY <2>1, <4>1, <5>1
      <4> QED
        BY <4>2, <4>3 DEF RoomIn
    <3> QED
      BY <3>1, <3>2
<1>7. /\ \A m \in missing : m[1] \in Bookings
      /\ \A r \in revoking : r[1] \in Bookings
  BY RecordPairs DEF AccessInv, AccessTypeOK
<1>8. \A x \in Bookings :
        /\ RoomIn(moves', record', x, 0)
        /\ booking'[x] = "CANCELLED" => moves'[x] >= 1
        /\ booking'[x] = "CONFIRMED" /\ (\A n \in Numbers : record'[<<x, n>>] \notin LiveRecords)
             => RoomIn(moves', record', x, 1)
  <2> TAKE x \in Bookings
  <2>1. CASE x = b
    BY <1>5, <1>6, <2>1 DEF AccessInv, RoomIsLeft
  <2>2. CASE x # b
    BY <1>1, <1>5, <1>6, <2>2 DEF AccessInv, RoomIsLeft, Live
  <2> QED
    BY <2>1, <2>2
<1>9. \A m \in missing :
        /\ RoomIn(moves', record', m[1], 1)
        /\ m[2] = TRUE => \A n \in Numbers : record'[<<m[1], n>>] = "ABSENT"
        /\ m[2] = TRUE /\ booking'[m[1]] = "CONFIRMED" => RoomIn(moves', record', m[1], 2)
  <2> TAKE m \in missing
  <2>1. CASE m[1] = b
    <3>1. /\ RoomIn(moves, record, b, 1)
          /\ m[2] = TRUE => \A n \in Numbers : record[<<b, n>>] = "ABSENT"
      BY <2>1 DEF AccessInv, RoomIsLeft, Exists
    <3>2. RoomIn(moves', record', b, 1) /\ RoomIn(moves', record', b, 1 + 1)
      BY <1>6, <3>1
    <3> QED
      BY <1>1, <2>1, <3>1, <3>2
  <2>2. CASE m[1] # b
    <3>1. m[1] \in Bookings /\ booking'[m[1]] = booking[m[1]]
      BY <1>5, <1>7, <2>2
    <3>2. /\ RoomIn(moves, record, m[1], 1)
          /\ m[2] = TRUE => \A n \in Numbers : record[<<m[1], n>>] = "ABSENT"
          /\ m[2] = TRUE /\ booking[m[1]] = "CONFIRMED" => RoomIn(moves, record, m[1], 2)
      BY DEF AccessInv, RoomIsLeft, Exists
    <3>3. /\ RoomIn(moves', record', m[1], 1)
          /\ RoomIn(moves, record, m[1], 2) => RoomIn(moves', record', m[1], 2)
      BY <1>6, <3>1, <3>2
    <3> QED
      BY <1>1, <3>1, <3>2, <3>3
  <2> QED
    BY <2>1, <2>2
<1>10. \A r \in revoking : booking'[r[1]] = "CONFIRMED" =>
         /\ RoomIn(moves', record', r[1], 1)
         /\ <<r[1], FALSE>> \in missing => RoomIn(moves', record', r[1], 2)
  <2> TAKE r \in revoking
  <2>1. CASE r[1] = b
    <3>1. RoomIn(moves, record, b, 0) /\ (<<b, FALSE>> \in missing => RoomIn(moves, record, b, 1))
      BY DEF AccessInv, RoomIsLeft
    <3> QED
      BY <1>6, <2>1, <3>1
  <2>2. CASE r[1] # b
    BY <1>5, <1>6, <1>7, <2>2 DEF AccessInv, RoomIsLeft
  <2> QED
    BY <2>1, <2>2
<1>11. RoomIsLeft'
  BY <1>1, <1>8, <1>9, <1>10 DEF RoomIsLeft, RoomIn, Exists, Live
<1>12. RecordsInHand'
  BY <1>1 DEF AccessInv, RecordsInHand, Exists
<1> QED
  BY <1>4, <1>11, <1>12 DEF AccessInv

(* An operator saves a live status over a record that exists. *)
LEMMA OperatorsKeepAccess ==
    ASSUME AccessInv, NEW o \in Operators, NEW r \in Records, NEW to,
           \/ to \in DOMAIN AllowedFrom /\ LoadRecord(o, r, to)
           \/ SaveRecord(o, r, to)
    PROVE  AccessInv'
<1>1. CASE to \in DOMAIN AllowedFrom /\ LoadRecord(o, r, to)
  <2>1. /\ operator' = [operator EXCEPT ![o] = {<<r, to>>}]
        /\ UNCHANGED <<booking, moves, record, shown, spc, missing, revoking, crossed>>
        /\ record[r] \in AllowedFrom[to]
    BY <1>1 DEF LoadRecord
  <2>2. to \in LiveRecords /\ to \in RecordStatuses /\ Exists(r)
    BY <1>1, <2>1 DEF AllowedFrom, LiveRecords, RecordStatuses, Exists
  <2>3. AccessTypeOK'
    <3>1. operator' \in [Operators -> SUBSET (Records \X RecordStatuses)]
      BY <2>1, <2>2 DEF AccessInv, AccessTypeOK
    <3> QED
      BY <2>1, <3>1 DEF AccessInv, AccessTypeOK, Exists
  <2>4. RoomIsLeft'
    BY <2>1 DEF AccessInv, RoomIsLeft, RoomIn, Exists, Live
  <2>5. RecordsInHand'
    <3>1. \A q \in Operators : \A k \in operator'[q] : Exists(k[1]) /\ k[2] \in LiveRecords
      <4>1. operator'[o] = {<<r, to>>} /\ \A q \in Operators : q # o => operator'[q] = operator[q]
        BY <2>1 DEF AccessInv, AccessTypeOK
      <4> QED
        BY <2>2, <4>1 DEF AccessInv, RecordsInHand
    <3> QED
      BY <2>1, <3>1 DEF AccessInv, RecordsInHand, Exists
  <2> QED
    BY <2>3, <2>4, <2>5 DEF AccessInv
<1>2. CASE SaveRecord(o, r, to)
  <2>1. /\ record' = [record EXCEPT ![r] = to]
        /\ shown' = [shown EXCEPT ![r[1]] = Projected(to)]
        /\ operator' = [operator EXCEPT ![o] = {}]
        /\ crossed' \in {crossed, crossed \cup {r[1]}}
        /\ UNCHANGED <<booking, moves, spc, missing, revoking>>
    BY <1>2 DEF SaveRecord
  <2>2. Exists(r) /\ to \in LiveRecords
    BY <1>2 DEF SaveRecord, AccessInv, RecordsInHand
  <2>3. /\ \A q \in Records : record'[q] # "ABSENT" <=> Exists(q)
        /\ \A q \in Records : Live(q) => record'[q] \in LiveRecords
        /\ record' \in [Records -> RecordStatuses \cup {"ABSENT"}]
    BY <2>1, <2>2 DEF AccessInv, AccessTypeOK, Exists, Live, LiveRecords, RecordStatuses
  <2>4. \A x \in Bookings, n \in Numbers :
          /\ record'[<<x, n>>] # "ABSENT" <=> Exists(<<x, n>>)
          /\ Live(<<x, n>>) => record'[<<x, n>>] \in LiveRecords
    BY <2>3 DEF Records
  <2>5. Projected(to) \in LiveRecords \cup {"NOT_REQUIRED"} /\ r[1] \in Bookings
    BY <2>2, RecordPairs DEF Projected, LiveRecords
  <2>6. /\ shown' \in [Bookings -> LiveRecords \cup {"NOT_REQUIRED"}]
        /\ crossed' \subseteq Bookings
        /\ operator' \in [Operators -> SUBSET (Records \X RecordStatuses)]
    BY <2>1, <2>5 DEF AccessInv, AccessTypeOK
  <2>7. /\ revoking \subseteq Records /\ \A m \in missing : m[1] \in Bookings
        /\ \A q \in revoking : q[1] \in Bookings
    BY RecordPairs DEF AccessInv, AccessTypeOK
  <2>8. \A b \in Bookings, n \in Numbers \ {1} :
          record'[<<b, n>>] # "ABSENT" => record'[<<b, n - 1>>] # "ABSENT"
    <3> TAKE b \in Bookings, n \in Numbers \ {1}
    <3>1. n - 1 \in Numbers
      BY AccessAssumption DEF Numbers
    <3> QED
      BY <2>4, <3>1 DEF AccessInv, AccessTypeOK
  <2>9. AccessTypeOK'
    <3>1. \A q \in revoking : record'[q] # "ABSENT" \/ <<q[1], FALSE>> \in missing
      <4>1. \A q \in revoking : Exists(q) \/ <<q[1], FALSE>> \in missing
        BY DEF AccessInv, AccessTypeOK
      <4> QED
        BY <2>3, <2>7, <4>1
    <3> QED
      BY <2>1, <2>3, <2>6, <2>7, <2>8, <3>1 DEF AccessInv, AccessTypeOK, Exists
  <2>10. \A x \in Bookings, k \in {0, 1, 2} :
           RoomIn(moves, record, x, k) => RoomIn(moves', record', x, k)
    BY <2>1, <2>4 DEF RoomIn, Exists
  <2>11. RoomIsLeft'
    <3>1. \A b \in Bookings :
            /\ RoomIn(moves', record', b, 0)
            /\ booking[b] = "CANCELLED" => moves[b] >= 1
            /\ booking[b] = "CONFIRMED" /\ (\A n \in Numbers : record'[<<b, n>>] \notin LiveRecords)
                 => RoomIn(moves', record', b, 1)
      BY <2>4, <2>10 DEF AccessInv, RoomIsLeft
    <3>2. \A m \in missing :
            /\ RoomIn(moves', record', m[1], 1)
            /\ m[2] = TRUE => \A n \in Numbers : record'[<<m[1], n>>] = "ABSENT"
            /\ m[2] = TRUE /\ booking[m[1]] = "CONFIRMED" => RoomIn(moves', record', m[1], 2)
      BY <2>4, <2>7, <2>10 DEF AccessInv, RoomIsLeft, Exists
    <3>3. \A q \in revoking : booking[q[1]] = "CONFIRMED" =>
            /\ RoomIn(moves', record', q[1], 1)
            /\ <<q[1], FALSE>> \in missing => RoomIn(moves', record', q[1], 2)
      BY <2>7, <2>10 DEF AccessInv, RoomIsLeft
    <3> QED
      BY <2>1, <3>1, <3>2, <3>3 DEF RoomIsLeft, RoomIn, Exists, Live
  <2>12. \A q \in Operators : \A k \in operator'[q] :
           record'[k[1]] # "ABSENT" /\ k[2] \in LiveRecords
    <3> TAKE q \in Operators
    <3> TAKE k \in operator'[q]
    <3>1. k \in operator[q] /\ k[1] \in Records
      BY <2>1 DEF AccessInv, AccessTypeOK
    <3> QED
      BY <2>3, <3>1 DEF AccessInv, RecordsInHand
  <2>13. RecordsInHand'
    <3>1. \A q \in revoking :
            \/ record'[q] # "ABSENT"
            \/ /\ <<q[1], FALSE>> \in missing
               /\ \A m \in Numbers : m < q[2] => record'[<<q[1], m>>] # "ABSENT"
      <4> TAKE q \in revoking
      <4>1. q \in Records /\ q[1] \in Bookings
        BY <2>7
      <4>2. \/ Exists(q)
            \/ /\ <<q[1], FALSE>> \in missing
               /\ \A m \in Numbers : m < q[2] => Exists(<<q[1], m>>)
        BY DEF AccessInv, RecordsInHand
      <4> QED
        BY <2>3, <2>4, <4>1, <4>2
    <3> QED
      BY <2>1, <2>12, <3>1 DEF RecordsInHand, Exists
  <2> QED
    BY <2>9, <2>11, <2>13 DEF AccessInv
<1> QED
  BY <1>1, <1>2

(* Where there is room the least number not yet given exists, and follows  *)
(* the ones that are.                                                      *)
LEMMA NextNumberIsFree ==
    ASSUME AccessInv, NEW b \in Bookings, RoomIn(moves, record, b, 1)
    PROVE  /\ NextNumber(b) \in Numbers
           /\ ~Exists(<<b, NextNumber(b)>>)
           /\ \A m \in Numbers : m < NextNumber(b) => Exists(<<b, m>>)
<1> DEFINE free == {n \in Numbers : ~Exists(<<b, n>>)}
<1>1. moves[b] \in 0..MaxBookingMoves /\ MaxBookingMoves \in Nat
  BY AccessAssumption DEF AccessInv, AccessTypeOK
<1>2. MaxBookingMoves + 2 \in free
  <2>1. MaxBookingMoves + 2 \in Numbers
    BY <1>1 DEF Numbers
  <2>2. ~(MaxBookingMoves + 2 + 1 <= moves[b])
    BY <1>1
  <2> QED
    BY <2>1, <2>2 DEF RoomIn, Exists
<1>3. PICK n \in free : \A m \in free : n <= m
  <2>1. free # {} /\ free \subseteq Nat
    BY <1>2, NumbersAreNat
  <2> HIDE DEF free
  <2> QED
    BY <2>1, LeastNumber
<1>4. n \in Numbers /\ ~Exists(<<b, n>>) /\ \A m \in Numbers : m < n => Exists(<<b, m>>)
  BY <1>3, NumbersAreNat
<1>5. /\ NextNumber(b) \in Numbers /\ ~Exists(<<b, NextNumber(b)>>)
      /\ \A m \in Numbers : m < NextNumber(b) => Exists(<<b, m>>)
  BY <1>4 DEF NextNumber
<1> QED
  BY <1>5

LEMMA ListingKeepsAccess ==
    ASSUME AccessInv, ListMissing
    PROVE  AccessInv'
<1>1. /\ missing' = {<<b, booking[b] = "CANCELLED">> : b \in {x \in Bookings : Missing(x, Live)}}
      /\ spc' = "adding" /\ spc = "idle"
      /\ UNCHANGED <<booking, moves, record, shown, revoking, operator, crossed>>
  BY DEF ListMissing, ListsMissing
<1>2. revoking = {}
  BY <1>1 DEF AccessInv, AccessTypeOK
<1>3. ASSUME NEW m \in missing'
      PROVE  /\ m \in Bookings \X BOOLEAN
             /\ m[2] \in BOOLEAN /\ (m[2] = TRUE <=> booking[m[1]] = "CANCELLED")
             /\ RoomIn(moves, record, m[1], 1)
             /\ m[2] = TRUE => \A n \in Numbers : ~Exists(<<m[1], n>>)
  <2>1. PICK b \in Bookings : Missing(b, Live) /\ m = <<b, booking[b] = "CANCELLED">>
    BY <1>1, <1>3
  <2>2. \A n \in Numbers : <<b, n>> \in RecordsOf(b)
    BY DEF RecordsOf
  <2>3. CASE booking[b] = "CONFIRMED" /\ \A r \in RecordsOf(b) : ~Live(r)
    <3>1. \A n \in Numbers : ~Live(<<b, n>>)
      BY <2>2, <2>3
    <3>2. RoomIn(moves, record, b, 1)
      BY <2>3, <3>1 DEF AccessInv, RoomIsLeft
    <3> QED
      BY <2>1, <2>3, <3>2
  <2>4. CASE booking[b] = "CANCELLED" /\ \A r \in RecordsOf(b) : ~Exists(r)
    <3>1. \A n \in Numbers : ~Exists(<<b, n>>)
      BY <2>2, <2>4
    <3>2. RoomIn(moves, record, b, 1)
      BY <2>4, <3>1 DEF AccessInv, RoomIsLeft, RoomIn, Exists
    <3> QED
      BY <2>1, <2>4, <3>1, <3>2
  <2> QED
    BY <2>1, <2>3, <2>4 DEF Missing
<1>4. AccessTypeOK'
  BY <1>1, <1>2, <1>3 DEF AccessInv, AccessTypeOK, Exists
<1>5. RoomIsLeft'
  BY <1>1, <1>2, <1>3 DEF AccessInv, RoomIsLeft, RoomIn, Exists, Live
<1>6. RecordsInHand'
  BY <1>1, <1>2 DEF AccessInv, RecordsInHand, Exists
<1> QED
  BY <1>4, <1>5, <1>6 DEF AccessInv

LEMMA RevocationsKeepAccess ==
    ASSUME AccessInv, ListRevocable
    PROVE  AccessInv'
<1>1. /\ revoking' = {r \in Records : Live(r) /\ booking[r[1]] = "CANCELLED"}
           \cup {Added(m[1]) : m \in {x \in missing : ~x[2] /\ booking[x[1]] = "CANCELLED"}}
      /\ spc' = "revoking"
      /\ UNCHANGED <<booking, moves, record, shown, missing, operator, crossed>>
  BY DEF ListRevocable
<1>2. ASSUME NEW r \in revoking'
      PROVE  /\ r \in Records /\ booking[r[1]] = "CANCELLED"
             /\ \/ Exists(r)
                \/ /\ <<r[1], FALSE>> \in missing
                   /\ \A m \in Numbers : m < r[2] => Exists(<<r[1], m>>)
  <2>1. CASE r \in Records /\ Live(r) /\ booking[r[1]] = "CANCELLED"
    BY <2>1 DEF Live, Exists, LiveRecords
  <2>2. CASE \E m \in missing : ~m[2] /\ booking[m[1]] = "CANCELLED" /\ r = Added(m[1])
    <3>1. PICK m \in missing : ~m[2] /\ booking[m[1]] = "CANCELLED" /\ r = Added(m[1])
      BY <2>2
    <3>2. m \in Bookings \X BOOLEAN /\ RoomIn(moves, record, m[1], 1)
      BY DEF AccessInv, AccessTypeOK, RoomIsLeft
    <3>3. m = <<m[1], FALSE>> /\ m[1] \in Bookings
      <4>1. m[2] = FALSE
        BY <3>1, <3>2, Zenon
      <4>2. m = <<m[1], m[2]>> /\ m[1] \in Bookings
        BY <3>2, PairParts
      <4> QED
        BY <4>1, <4>2, Zenon
    <3>4. /\ NextNumber(m[1]) \in Numbers
          /\ \A q \in Numbers : q < NextNumber(m[1]) => Exists(<<m[1], q>>)
      BY <3>2, <3>3, NextNumberIsFree
    <3>5. r \in Records /\ r[1] = m[1] /\ r[2] = NextNumber(m[1])
      BY <3>1, <3>3, <3>4 DEF Added, Records
    <3> QED
      BY <3>1, <3>3, <3>4, <3>5
  <2> QED
    BY <1>1, <1>2, <2>1, <2>2
<1>3. AccessTypeOK'
  BY <1>1, <1>2 DEF AccessInv, AccessTypeOK, Exists
<1>4. RoomIsLeft'
  BY <1>1, <1>2 DEF AccessInv, RoomIsLeft, RoomIn, Exists, Live
<1>5. RecordsInHand'
  BY <1>1, <1>2 DEF AccessInv, RecordsInHand, Exists
<1> QED
  BY <1>3, <1>4, <1>5 DEF AccessInv

(* What the sweep writes for a stay: nothing, the revocation of what is    *)
(* there, or the next record.                                              *)
LEMMA SweepWrites ==
    ASSUME AccessInv, NEW b \in Bookings, NEW n \in Numbers
    PROVE  /\ Written[<<b, n>>] \in RecordStatuses \cup {"ABSENT"}
           /\ Written[<<b, n>>] \in {"REVOKED", "PENDING", "ABSENT"}
           /\ Written[<<b, n>>] = "REVOKED" <=>
                \/ <<b, n>> \in revoking
                \/ <<b, TRUE>> \in missing /\ n = NextNumber(b)
           /\ Written[<<b, n>>] # "ABSENT" /\ ~Exists(<<b, n>>) =>
                /\ \E m \in missing : m[1] = b
                /\ \A m \in Numbers : m < n => Exists(<<b, m>>)
           /\ <<b, FALSE>> \in missing /\ <<b, TRUE>> \notin missing =>
                LET added == <<b, NextNumber(b)>> IN
                    added \in revoking \/ Written[added] = "PENDING"
<1>1. \A m \in missing : m[1] \in Bookings /\ RoomIn(moves, record, m[1], 1) /\ m = <<m[1], m[2]>>
  BY DEF AccessInv, AccessTypeOK, RoomIsLeft
<1>2. ASSUME NEW m \in missing
      PROVE  /\ NextNumber(m[1]) \in Numbers
             /\ Added(m[1]) = <<m[1], NextNumber(m[1])>>
             /\ \A q \in Numbers : q < NextNumber(m[1]) => Exists(<<m[1], q>>)
  BY <1>1, NextNumberIsFree DEF Added
<1>3. <<b, n>> \in Records
  BY DEF Records
<1>4. Written[<<b, n>>] =
        IF <<b, n>> \in revoking THEN "REVOKED"
        ELSE IF \E m \in missing : <<b, n>> = Added(m[1])
          THEN IF <<b, TRUE>> \in missing THEN "REVOKED" ELSE "PENDING"
        ELSE "ABSENT"
  BY <1>3 DEF Written
<1>5. (\E m \in missing : <<b, n>> = Added(m[1]))
         <=> (n = NextNumber(b) /\ \E m \in missing : m[1] = b)
  BY <1>2
<1>6. <<b, TRUE>> \in missing \/ <<b, FALSE>> \in missing => \E m \in missing : m[1] = b
  OBVIOUS
<1>7. /\ Written[<<b, n>>] \in {"REVOKED", "PENDING", "ABSENT"}
      /\ Written[<<b, n>>] = "REVOKED" <=>
                \/ <<b, n>> \in revoking
                \/ <<b, TRUE>> \in missing /\ n = NextNumber(b)
  BY <1>4, <1>5, <1>6
<1>8. ASSUME Written[<<b, n>>] # "ABSENT", ~Exists(<<b, n>>)
      PROVE  /\ \E m \in missing : m[1] = b
             /\ \A m \in Numbers : m < n => Exists(<<b, m>>)
  <2>1. CASE <<b, n>> \in revoking
    BY <1>6, <1>8, <2>1 DEF AccessInv, RecordsInHand
  <2>2. CASE <<b, n>> \notin revoking
    BY <1>2, <1>4, <1>5, <1>8, <2>2
  <2> QED
    BY <2>1, <2>2
<1>9. ASSUME <<b, FALSE>> \in missing, <<b, TRUE>> \notin missing,
             <<b, NextNumber(b)>> \notin revoking
      PROVE  Written[<<b, NextNumber(b)>>] = "PENDING"
  <2>1. NextNumber(b) \in Numbers /\ <<b, NextNumber(b)>> = Added(b)
    BY <1>2, <1>9
  <2>2. <<b, NextNumber(b)>> \in Records
    BY <2>1 DEF Records
  <2>3. \E m \in missing : <<b, NextNumber(b)>> = Added(m[1])
    BY <1>9, <2>1
  <2> QED
    BY <1>9, <2>2, <2>3 DEF Written
<1> QED
  BY <1>7, <1>8, <1>9 DEF RecordStatuses, LiveRecords

(* A number that follows on the records of a stay leaves the room but one. *)
LEMMA OneMoreFits ==
    ASSUME AccessInv, NEW b \in Bookings, NEW n \in Numbers, NEW k \in {1, 2},
           RoomIn(moves, record, b, k),
           \A m \in Numbers : m < n => Exists(<<b, m>>)
    PROVE  n + k <= moves[b] + 1
<1>1. moves[b] \in Nat /\ n \in Nat /\ n >= 1
  BY NumbersAreNat DEF AccessInv, AccessTypeOK
<1>2. CASE n = 1
  BY <1>1, <1>2 DEF RoomIn
<1>3. CASE n # 1
  <2>1. n - 1 \in Numbers /\ n - 1 < n
    BY <1>1, <1>3, AccessAssumption DEF Numbers
  <2>2. n - 1 + k <= moves[b]
    BY <2>1 DEF RoomIn, Exists
  <2> QED
    BY <1>1, <2>2
<1> QED
  BY <1>2, <1>3

LEMMA CommitKeepsAccess ==
    ASSUME AccessInv, CommitSweep
    PROVE  AccessInv'
<1>1. /\ record' = [r \in Records |-> IF Written[r] # "ABSENT" THEN Written[r] ELSE record[r]]
      /\ shown' = [b \in Bookings |->
           IF \E r \in RecordsOf(b) : Written[r] = "REVOKED" THEN "NOT_REQUIRED"
           ELSE IF \E r \in RecordsOf(b) : Written[r] = "PENDING" THEN "PENDING"
           ELSE shown[b]]
      /\ spc' = "idle" /\ missing' = {} /\ revoking' = {}
      /\ UNCHANGED <<booking, moves, operator, crossed>>
  BY DEF CommitSweep
<1>2. \A r \in Records : record'[r] # "ABSENT" <=> Exists(r) \/ Written[r] # "ABSENT"
  BY <1>1 DEF Exists
<1>3. \A b \in Bookings, n \in Numbers :
        /\ <<b, n>> \in Records
        /\ record'[<<b, n>>] # "ABSENT" <=> Exists(<<b, n>>) \/ Written[<<b, n>>] # "ABSENT"
  BY <1>2 DEF Records
<1>4. record' \in [Records -> RecordStatuses \cup {"ABSENT"}]
  <2> SUFFICES ASSUME NEW r \in Records
               PROVE  Written[r] \in RecordStatuses \cup {"ABSENT"}
    BY <1>1 DEF AccessInv, AccessTypeOK
  <2>1. r = <<r[1], r[2]>> /\ r[1] \in Bookings /\ r[2] \in Numbers
    BY RecordPairs
  <2>2. Written[<<r[1], r[2]>>] \in RecordStatuses \cup {"ABSENT"}
    BY <2>1, SweepWrites
  <2> QED
    BY <2>1, <2>2
<1>5. shown' \in [Bookings -> LiveRecords \cup {"NOT_REQUIRED"}]
  BY <1>1 DEF AccessInv, AccessTypeOK, LiveRecords
<1>6. \A b \in Bookings, n \in Numbers \ {1} :
        record'[<<b, n>>] # "ABSENT" => record'[<<b, n - 1>>] # "ABSENT"
  <2> SUFFICES ASSUME NEW b \in Bookings, NEW n \in Numbers \ {1}, record'[<<b, n>>] # "ABSENT"
               PROVE  record'[<<b, n - 1>>] # "ABSENT"
    OBVIOUS
  <2>1. n - 1 \in Numbers /\ n - 1 < n
    BY AccessAssumption DEF Numbers
  <2>2. CASE Exists(<<b, n>>)
    BY <1>3, <2>1, <2>2 DEF AccessInv, AccessTypeOK
  <2>3. CASE ~Exists(<<b, n>>)
    <3>1. \A m \in Numbers : m < n => Exists(<<b, m>>)
      BY <1>3, <2>3, SweepWrites
    <3> QED
      BY <1>3, <2>1, <3>1
  <2> QED
    BY <2>2, <2>3
<1>7. AccessTypeOK'
  BY <1>1, <1>4, <1>5, <1>6 DEF AccessInv, AccessTypeOK, Exists
<1>8. ASSUME NEW b \in Bookings, NEW k \in {0, 1}, RoomIn(moves, record, b, k),
             (\E m \in missing : m[1] = b) => RoomIn(moves, record, b, k + 1)
      PROVE  RoomIn(moves', record', b, k)
  <2>1. moves'[b] >= k /\ moves[b] \in Nat /\ moves' = moves
    BY <1>1, <1>8 DEF RoomIn, AccessInv, AccessTypeOK
  <2>2. ASSUME NEW n \in Numbers, record'[<<b, n>>] # "ABSENT" PROVE n + k <= moves[b]
    <3>1. CASE Exists(<<b, n>>)
      BY <1>8, <3>1 DEF RoomIn, Exists
    <3>2. CASE ~Exists(<<b, n>>)
      <4>1. /\ \E m \in missing : m[1] = b
            /\ \A m \in Numbers : m < n => Exists(<<b, m>>)
        <5>1. Written[<<b, n>>] # "ABSENT"
          BY <1>3, <2>2, <3>2
        <5> QED
          BY <3>2, <5>1, SweepWrites
      <4>2. RoomIn(moves, record, b, k + 1) /\ k + 1 \in {1, 2}
        BY <1>8, <4>1
      <4>3. n + (k + 1) <= moves[b] + 1
        BY <4>1, <4>2, OneMoreFits
      <4> QED
        BY <2>1, <4>3, NumbersAreNat
    <3> QED
      BY <3>1, <3>2
  <2> QED
    BY <2>1, <2>2 DEF RoomIn
<1>9. \A b \in Bookings : (\E m \in missing : m[1] = b) => RoomIn(moves, record, b, 1)
  BY DEF AccessInv, RoomIsLeft
<1>10. \A b \in Bookings : RoomIn(moves', record', b, 0)
  <2> TAKE b \in Bookings
  <2>1. RoomIn(moves, record, b, 0) /\ 0 + 1 = 1
    BY DEF AccessInv, RoomIsLeft
  <2> QED
    BY <1>8, <1>9, <2>1
<1>11. ASSUME NEW b \in Bookings, booking[b] = "CONFIRMED",
              \A n \in Numbers : record'[<<b, n>>] \notin LiveRecords
       PROVE  RoomIn(moves', record', b, 1)
  <2>1. ASSUME NEW m \in missing, m[1] = b PROVE m = <<b, TRUE>> \/ m = <<b, FALSE>>
    <3>1. m \in Bookings \X BOOLEAN
      BY DEF AccessInv, AccessTypeOK
    <3>2. m = <<b, m[2]>> /\ m[2] \in BOOLEAN
      BY <2>1, <3>1, PairParts
    <3> QED
      BY <3>2, Zenon
  <2>2. <<b, TRUE>> \in missing => RoomIn(moves, record, b, 2)
    BY <1>11 DEF AccessInv, RoomIsLeft
  <2>3. CASE \E r \in revoking : r[1] = b
    <3>1. RoomIn(moves, record, b, 1) /\ (<<b, FALSE>> \in missing => RoomIn(moves, record, b, 2))
      BY <1>11, <2>3 DEF AccessInv, RoomIsLeft
    <3>2. (\E m \in missing : m[1] = b) => RoomIn(moves, record, b, 2)
      BY <2>1, <2>2, <3>1, Zenon
    <3> QED
      BY <1>8, <3>1, <3>2, 1 + 1 = 2
  <2>4. CASE \A r \in revoking : r[1] # b
    <3>1. CASE <<b, TRUE>> \in missing
      BY <1>8, <1>9, <2>2, <3>1
    <3>2. CASE <<b, TRUE>> \notin missing /\ <<b, FALSE>> \in missing
      <4>1. NextNumber(b) \in Numbers
        BY <1>9, <3>2, NextNumberIsFree
      <4>2. <<b, NextNumber(b)>> \notin revoking
        BY <2>4
      <4>3. Written[<<b, NextNumber(b)>>] = "PENDING"
        BY <3>2, <4>1, <4>2, SweepWrites
      <4>4. record'[<<b, NextNumber(b)>>] \in LiveRecords
        BY <1>1, <1>3, <4>1, <4>3 DEF Live, LiveRecords
      <4> QED
        BY <1>11, <4>1, <4>4
    <3>3. CASE \A m \in missing : m[1] # b
      <4>1. \A n \in Numbers : ~Exists(<<b, n>>) => Written[<<b, n>>] = "ABSENT"
        BY <3>3, SweepWrites
      <4>2. ASSUME NEW n \in Numbers PROVE Written[<<b, n>>] # "REVOKED"
        <5>1. <<b, n>> \notin revoking /\ <<b, TRUE>> \notin missing
          BY <2>4, <3>3
        <5> QED
          BY <5>1, SweepWrites
      <4>3. \A n \in Numbers : Live(<<b, n>>) => record'[<<b, n>>] \in LiveRecords
        <5> TAKE n \in Numbers
        <5>1. Written[<<b, n>>] \in {"PENDING", "ABSENT"}
          BY <4>2, SweepWrites
        <5> QED
          BY <1>1, <1>3, <5>1 DEF Live, LiveRecords
      <4>4. RoomIn(moves, record, b, 1)
        BY <1>11, <4>3 DEF AccessInv, RoomIsLeft
      <4> QED
        BY <1>8, <3>3, <4>4
    <3> QED
      BY <2>1, <3>1, <3>2, <3>3
  <2> QED
    BY <2>3, <2>4
<1>12. RoomIsLeft'
  <2>1. \A b \in Bookings :
          /\ RoomIn(moves', record', b, 0)
          /\ booking[b] = "CANCELLED" => moves[b] >= 1
          /\ booking[b] = "CONFIRMED" /\ (\A n \in Numbers : record'[<<b, n>>] \notin LiveRecords)
               => RoomIn(moves', record', b, 1)
    BY <1>10, <1>11 DEF AccessInv, RoomIsLeft
  <2> QED
    BY <1>1, <2>1 DEF RoomIsLeft, RoomIn, Live, Exists
<1>13. RecordsInHand'
  <2>1. ASSUME NEW o \in Operators, NEW c \in operator'[o]
        PROVE  record'[c[1]] # "ABSENT" /\ c[2] \in LiveRecords
    <3>1. c \in operator[o] /\ c[1] \in Records
      BY <1>1, <2>1 DEF AccessInv, AccessTypeOK
    <3> QED
      BY <1>2, <3>1 DEF AccessInv, RecordsInHand
  <2> QED
    BY <1>1, <2>1 DEF RecordsInHand, Exists
<1> QED
  BY <1>7, <1>12, <1>13 DEF AccessInv

LEMMA AccessNextKeepsInv ==
    ASSUME AccessInv, [AccessNext]_accessVars
    PROVE  AccessInv'
<1>1. CASE UNCHANGED accessVars
  <2>1. AccessTypeOK'
    BY <1>1 DEF accessVars, AccessInv, AccessTypeOK, Exists
  <2>2. RoomIsLeft'
    BY <1>1 DEF accessVars, AccessInv, RoomIsLeft, RoomIn, Exists, Live
  <2>3. RecordsInHand'
    BY <1>1 DEF accessVars, AccessInv, RecordsInHand, Exists
  <2> QED
    BY <2>1, <2>2, <2>3 DEF AccessInv
<1>2. CASE \E b \in Bookings, to \in BookingStatuses : BookingMoves(b, to)
  BY <1>2, MovesKeepAccess
<1>3. CASE \E o \in Operators, r \in Records :
             \/ \E to \in DOMAIN AllowedFrom : LoadRecord(o, r, to)
             \/ \E to \in RecordStatuses : SaveRecord(o, r, to)
  BY <1>3, OperatorsKeepAccess
<1>4. CASE Sweep
  BY <1>4, ListingKeepsAccess, RevocationsKeepAccess, CommitKeepsAccess DEF Sweep
<1> QED
  BY <1>1, <1>2, <1>3, <1>4 DEF AccessNext

LEMMA AccessInvAlways == AccessSpec => []AccessInv
<1> QED
  BY AccessInitInv, AccessNextKeepsInv, PTL DEF AccessSpec

(* The rows, the lists of the sweep and the copies of the operators are    *)
(* what they are declared to be; the records of a stay are numbered        *)
(* without a gap, and never more than its status changed.                  *)
THEOREM AccessTypeCorrect == AccessSpec => []AccessTypeOK
<1>1. AccessInv => AccessTypeOK
  BY DEF AccessInv
<1> QED
  BY <1>1, AccessInvAlways, PTL
-----------------------------------------------------------------------------
(* The office. *)

LEMMA DesksStart ==
    Init => /\ OutboxInit /\ OwnersInit /\ LedgerInit /\ ReviewsInit /\ AccessInit
            /\ TalkInit /\ PricesInit /\ FeedInit /\ GuestsInit /\ EvidenceInit
            /\ RemindersInit /\ InboxInit /\ PortalInit /\ DemoInit /\ desk \in Desks
  BY DEF Init

(* A step of the office is a step of the desk that works, and the others   *)
(* rest.                                                                   *)
LEMMA DesksStep ==
    [Next]_vars => /\ [OutboxNext]_outboxVars /\ [OwnersNext]_ownersVars
                   /\ [LedgerNext]_ledgerVars /\ [ReviewsNext]_reviewVars
                   /\ [AccessNext]_accessVars /\ [TalkNext]_talkVars
                   /\ [PricesNext]_priceVars /\ [FeedNext]_feedVars
                   /\ [GuestsNext]_guestVars /\ [EvidenceNext]_evidenceVars
                   /\ [RemindersNext]_reminderVars /\ [InboxNext]_inboxVars
                   /\ [PortalNext]_portalVars /\ [DemoNext]_demoVars /\ desk' = desk
  BY DEF Next, vars, Works

(* The office does what each of its desks is specified to do: what is      *)
(* proved of a desk alone holds of it in the office.                       *)
THEOREM DesksWorkAsSpecified ==
    Spec => /\ OutboxSpec /\ OwnersSpec /\ LedgerSpec /\ ReviewsSpec /\ AccessSpec
            /\ TalkSpec /\ PricesSpec /\ FeedSpec /\ GuestsSpec /\ EvidenceSpec
            /\ RemindersSpec /\ InboxSpec /\ PortalSpec /\ DemoSpec
  BY DesksStart, DesksStep, PTL
     DEF Spec, OutboxSpec, OwnersSpec, LedgerSpec, ReviewsSpec, AccessSpec, TalkSpec,
         PricesSpec, FeedSpec, GuestsSpec, EvidenceSpec, RemindersSpec, InboxSpec, PortalSpec,
         DemoSpec

(* Whichever desk works, its rows, its copies and its locks keep their     *)
(* types and fit each other, in every behaviour of the office.             *)
THEOREM DesksTypeCorrect == Spec => []DesksTypeOK
<1>1. Spec => [](desk \in Desks)
  <2>1. desk \in Desks /\ [Next]_vars => (desk \in Desks)'
    BY DesksStep
  <2> QED
    BY <2>1, DesksStart, PTL DEF Spec
<1>2. Spec => /\ []OutboxTypeOK /\ []OwnersTypeOK /\ []LedgerTypeOK
  BY DesksWorkAsSpecified, OutboxTypeCorrect, OwnersTypeCorrect, LedgerTypeCorrect, PTL
<1>3. Spec => /\ []ReviewsTypeOK /\ []AccessTypeOK /\ []TalkTypeOK /\ []PricesTypeOK
  BY DesksWorkAsSpecified, ReviewsTypeCorrect, AccessTypeCorrect, TalkTypeCorrect,
     PricesTypeCorrect, PTL
<1>4. Spec => /\ []FeedTypeOK /\ []GuestsTypeOK /\ []EvidenceTypeOK /\ []RemindersTypeOK
  BY DesksWorkAsSpecified, FeedTypeCorrect, GuestsTypeCorrect, EvidenceTypeCorrect,
     RemindersTypeCorrect, PTL
<1>5. Spec => []InboxTypeOK /\ []PortalTypeOK /\ []DemoTypeOK
  BY DesksWorkAsSpecified, InboxTypeCorrect, PortalTypeCorrect, DemoTypeCorrect, PTL
<1>6. /\ desk \in Desks
      /\ OutboxTypeOK /\ OwnersTypeOK /\ LedgerTypeOK /\ ReviewsTypeOK
      /\ AccessTypeOK /\ TalkTypeOK /\ PricesTypeOK /\ FeedTypeOK
      /\ GuestsTypeOK /\ EvidenceTypeOK /\ RemindersTypeOK
      /\ InboxTypeOK /\ PortalTypeOK /\ DemoTypeOK
      => DesksTypeOK
  BY DEF DesksTypeOK
<1> QED
  BY <1>1, <1>2, <1>3, <1>4, <1>5, <1>6, PTL

(* The office keeps what its desks promise; its outbox is the abstract     *)
(* delivery of notices, and its inbox the abstract intake of messages.     *)
THEOREM OfficeKeepsItsPromises ==
    Spec => /\ [](/\ SentWasConfirmed /\ SendsAreBounded /\ BreachIsEscalatedOnce
                  /\ TenantKeepsAnOwner /\ StatementAddsUp /\ UrgentMessagesReachAPerson
                  /\ HorizonIsCoherent /\ OneGuestPerEmail /\ CancellationToldOnce
                  /\ DocumentStaysWithTheStay /\ FiledOnce /\ StoreMatchesTheRows
                  /\ CompletedWithItsEvidence /\ VerdictGoesWithCompletion /\ RemindedInTime
                  /\ LastLinkWorks /\ MailedLinkIsKept /\ PhotographsMatchTheStore)
            /\ DeliversAsPromised /\ FiledAsPromised
            /\ DecidedPriceStands /\ ResetRestoresTheAccounts
<1>1. Spec => /\ []SentWasConfirmed /\ []SendsAreBounded /\ []BreachIsEscalatedOnce
              /\ []TenantKeepsAnOwner /\ []StatementAddsUp /\ []UrgentMessagesReachAPerson
  BY DesksWorkAsSpecified, SentIsConfirmed, SendsStayBounded, BreachesEscalateOnce,
     OwnerAlwaysRemains, StatementAlwaysAddsUp, UrgentAlwaysHasAPerson, PTL
<1>2. Spec => /\ []HorizonIsCoherent /\ []OneGuestPerEmail /\ []CancellationToldOnce
              /\ []DocumentStaysWithTheStay /\ []FiledOnce /\ []StoreMatchesTheRows
  BY DesksWorkAsSpecified, HorizonStaysCoherent, AddressHasOneGuest, CancellationIsToldOnce,
     DocumentNeverStrays, NotFiledAgain, RowsHaveTheirObjects, PTL
<1>3. Spec => /\ []CompletedWithItsEvidence /\ []VerdictGoesWithCompletion /\ []RemindedInTime
              /\ []LastLinkWorks /\ []MailedLinkIsKept /\ []PhotographsMatchTheStore
  BY DesksWorkAsSpecified, CompletionHasItsEvidence, VerdictFollowsCompletion,
     ReminderIsQueuedOnce, LastLinkAlwaysWorks, MailedLinkStays, StoreAlwaysMatches, PTL
<1>4. Spec => /\ DeliversAsPromised /\ FiledAsPromised
              /\ DecidedPriceStands /\ ResetRestoresTheAccounts
  BY DesksWorkAsSpecified, OutboxDeliversAsPromised, InboxFilesAsPromised,
     DecidedPriceAlwaysStands, ResetAlwaysRestores
<1> QED
  BY <1>1, <1>2, <1>3, <1>4, PTL
=============================================================================
