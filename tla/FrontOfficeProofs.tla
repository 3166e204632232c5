--------------------------- MODULE FrontOfficeProofs ---------------------------
(***************************************************************************)
(* Proofs about the desks people reach from outside.                       *)
(*                                                                         *)
(* WhatsAppInbox: a claimed message is new and claimed by one worker, a    *)
(* thread being inserted is like no other of its guest and flat, and a     *)
(* message's thread is one it belongs in: so it implements MessageIntake.  *)
(* PortalLinks: what a request revokes is what it saw and is still live;   *)
(* one that has inserted its link holds every live link, and is alone.     *)
(* DemoReset: at most one run is past the lock, and while it is nobody     *)
(* commits; an object in hand is in no other hand, and no row's.           *)
(***************************************************************************)
EXTENDS WhatsAppInbox, PortalLinks, DemoReset, TLAPS

-----------------------------------------------------------------------------
(* The inbox of WhatsApp. *)

(* Whoever handles a message does it for the tenant of its event. *)
HandledForItsTenant ==
    /\ \A r \in Receivers : \A k \in receiver[r] :
         k.at = "accepted" => event[k.text].tenant = k.tenant
    /\ \A m \in Texts : tasks[m] > 0 => event[m].tenant \in Tenants
    /\ \A w \in Workers : \A k \in worker[w] : event[k.text].tenant = k.tenant

(* A message is claimed by one worker, and not filed yet. *)
ClaimedByOne ==
    /\ \A w \in Workers : \A k \in worker[w] :
         k.at # "located" => event[k.text].status = "NEW"
    /\ \A v, w \in Workers : v # w =>
         \A j \in worker[v], k \in worker[w] :
             j.at # "located" /\ k.at # "located" => j.text # k.text

(* Two threads are not of one guest and one flat. *)
Distinct(c, d) == c.key # Unheld => ~SameKey(d, c.tenant, c.key)

(* A thread that is being inserted is like none that stands, nor like one  *)
(* that another worker is inserting.                                       *)
InsertedIsNew ==
    /\ \A w \in Workers : \A k \in worker[w] :
         k.at = "threaded" /\ k.thread \notin threads =>
             \A c \in threads : Distinct(k.thread, c)
    /\ \A v, w \in Workers : v # w =>
         \A j \in worker[v], k \in worker[w] :
             /\ j.at = "threaded" /\ j.thread \notin threads
             /\ k.at = "threaded" /\ k.thread \notin threads
             => Distinct(j.thread, k.thread)

(* The thread a message is about to be filed in is one it belongs in.      *)
Suits(k) ==
    /\ k.thread.tenant = k.tenant
    /\ IF k.thread.key = Unheld
         THEN k.thread.opener = k.text
         ELSE k.thread.key[1] = WrittenBy[k.text]
    /\ k.thread \notin threads => k.thread.opener = k.text

ThreadsSuit == \A w \in Workers : \A k \in worker[w] : k.at = "threaded" => Suits(k)

InboxInv ==
    /\ InboxTypeOK /\ HandledForItsTenant /\ ClaimedByOne /\ InsertedIsNew /\ ThreadsSuit
    /\ FiledAtMostOnce /\ OneThreadPerGuestAndFlat

LEMMA InboxInitInv == InboxInit => InboxInv
<1> SUFFICES ASSUME InboxInit PROVE InboxInv
  OBVIOUS
<1> USE InboxAssumption DEF InboxInit
<1>1. InboxTypeOK
  <2>1. NoEvent \in Events /\ 0 \in 0..MaxCopies /\ <<>> \in Seq(Threads)
    BY DEF Events
  <2> QED
    BY <2>1 DEF InboxTypeOK
<1>2. HandledForItsTenant /\ ClaimedByOne /\ InsertedIsNew /\ ThreadsSuit
  BY DEF HandledForItsTenant, ClaimedByOne, InsertedIsNew, ThreadsSuit
<1>3. FiledAtMostOnce /\ OneThreadPerGuestAndFlat
  BY DEF FiledAtMostOnce, OneThreadPerGuestAndFlat, NoEvent
<1> QED
  BY <1>1, <1>2, <1>3 DEF InboxInv

LEMMA NumbersKeepInbox ==
    ASSUME InboxInv, NEW t \in Tenants, Release(t) \/ \E n \in PhoneNumbers : Associate(t, n)
    PROVE  InboxInv'
<1>1. /\ holds' \in [Tenants -> PhoneNumbers \cup {Unheld}]
      /\ UNCHANGED <<event, tasks, receiver, worker, threads, shelf>>
  BY DEF Release, Associate, InboxInv, InboxTypeOK
<1> QED
  BY <1>1 DEF InboxInv, InboxTypeOK, HandledForItsTenant, ClaimedByOne, InsertedIsNew,
         ThreadsSuit, Suits, FiledAtMostOnce, OneThreadPerGuestAndFlat

(* A receiver goes on, or ends. *)
LEMMA ReceiversMove ==
    ASSUME InboxInv, NEW r \in Receivers, NEW t \in SUBSET Receipts, \A j, k \in t : j = k,
           receiver' = [receiver EXCEPT ![r] = t]
    PROVE  /\ receiver' \in [Receivers -> SUBSET Receipts]
           /\ \A q \in Receivers : \A j, k \in receiver'[q] : j = k
           /\ \A q \in Receivers : receiver'[q] = IF q = r THEN t ELSE receiver[q]
  BY DEF InboxInv, InboxTypeOK

LEMMA ResolveKeepsInbox ==
    ASSUME InboxInv, NEW r \in Receivers, NEW m \in Texts, ResolveNumber(r, m)
    PROVE  InboxInv'
<1> DEFINE t == {[at |-> "resolved", text |-> m, tenant |-> HolderOf(WrittenTo[m])]}
<1>1. /\ receiver' = [receiver EXCEPT ![r] = t]
      /\ UNCHANGED <<holds, event, tasks, worker, threads, shelf>>
  BY DEF ResolveNumber
<1>2. HolderOf(WrittenTo[m]) \in Holders
  BY DEF HolderOf, Holders
<1>3. t \in SUBSET Receipts /\ (\A j, k \in t : j = k) /\ \A k \in t : k.at # "accepted"
  BY <1>2 DEF Receipts
<1> HIDE DEF t
<1>4. /\ receiver' \in [Receivers -> SUBSET Receipts]
      /\ \A q \in Receivers : \A j, k \in receiver'[q] : j = k
      /\ \A q \in Receivers : receiver'[q] = IF q = r THEN t ELSE receiver[q]
  BY <1>1, <1>3, ReceiversMove
<1>5. InboxTypeOK'
  BY <1>1, <1>4 DEF InboxInv, InboxTypeOK
<1>6. HandledForItsTenant'
  BY <1>1, <1>3, <1>4 DEF InboxInv, HandledForItsTenant
<1> QED
  BY <1>1, <1>5, <1>6 DEF InboxInv, ClaimedByOne, InsertedIsNew,
         ThreadsSuit, Suits, FiledAtMostOnce, OneThreadPerGuestAndFlat

LEMMA OneTask ==
    ASSUME InboxInv, NEW w \in Workers, NEW k \in worker[w]
    PROVE  /\ k \in Tasks /\ k.text \in Texts /\ k.tenant \in Tenants
           /\ event[k.text].tenant = k.tenant
           /\ k.at \in {"located", "claimed", "threaded"}
           /\ k.at = "threaded" => k.thread \in Threads
           /\ \A j \in worker[w] : j = k
  BY DEF InboxInv, InboxTypeOK, HandledForItsTenant, Tasks

LEMMA RecordKeepsInbox ==
    ASSUME InboxInv, NEW r \in Receivers, RecordDelivery(r)
    PROVE  InboxInv'
<1>1. PICK k \in receiver[r] : k.at = "resolved" /\ RecordEvent(r, k)
  BY DEF RecordDelivery
<1>2. UNCHANGED <<holds, tasks, worker, threads, shelf>>
  BY DEF RecordDelivery
<1>3. k \in Receipts /\ k.text \in Texts /\ k.tenant \in Holders
  BY <1>1 DEF InboxInv, InboxTypeOK, Receipts, Holders
<1> DEFINE n == [status |-> "NEW", tenant |-> k.tenant]
           a == [k EXCEPT !.at = "accepted"]
<1>4. n \in Events /\ n.status = "NEW" /\ n.tenant = k.tenant /\ n.status # NoEvent.status
  BY <1>3 DEF Events, NoEvent
<1>5. k.tenant \in Tenants => a \in Receipts /\ a.text = k.text /\ a.tenant = k.tenant
  BY <1>1, <1>3, InboxAssumption DEF Receipts
<1>6. PICK t \in SUBSET Receipts :
        /\ \A i, j \in t : i = j
        /\ receiver' = [receiver EXCEPT ![r] = t]
        /\ \/ event' = event /\ t = {}
           \/ /\ event[k.text] = NoEvent /\ event' = [event EXCEPT ![k.text] = n]
              /\ \A j \in t : j.text = k.text /\ j.tenant = k.tenant
  <2>1. CASE event[k.text] # NoEvent
    BY <1>1, <2>1 DEF RecordEvent
  <2>2. CASE event[k.text] = NoEvent /\ k.tenant = Unheld
    BY <1>1, <2>2 DEF RecordEvent, Accepts
  <2>3. CASE event[k.text] = NoEvent /\ k.tenant # Unheld
    <3>1. receiver' = [receiver EXCEPT ![r] = {a}] /\ event' = [event EXCEPT ![k.text] = n]
      BY <1>1, <2>3 DEF RecordEvent, Accepts, Accepted
    <3>2. k.tenant \in Tenants
      BY <1>3, <2>3 DEF Holders
    <3> HIDE DEF a
    <3> QED
      BY <1>5, <2>3, <3>1, <3>2
  <2> QED
    BY <2>1, <2>2, <2>3
<1> HIDE DEF n, a
<1>7. /\ receiver' \in [Receivers -> SUBSET Receipts]
      /\ \A q \in Receivers : \A i, j \in receiver'[q] : i = j
      /\ \A q \in Receivers : receiver'[q] = IF q = r THEN t ELSE receiver[q]
  BY <1>6, ReceiversMove
<1>8. /\ event' \in [Texts -> Events]
      /\ \A m \in Texts : event[m] # NoEvent => event'[m] = event[m]
      /\ \A m \in Texts : event'[m].status = "PROCESSED" <=> event[m].status = "PROCESSED"
      /\ \A j \in t : event'[j.text].tenant = j.tenant
  <2>1. event \in [Texts -> Events] /\ NoEvent.status # "PROCESSED"
    BY DEF InboxInv, InboxTypeOK, NoEvent
  <2>2. CASE event' = event /\ t = {}
    BY <2>1, <2>2
  <2>3. CASE /\ event[k.text] = NoEvent /\ event' = [event EXCEPT ![k.text] = n]
             /\ \A j \in t : j.text = k.text /\ j.tenant = k.tenant
    <3>1. /\ event' \in [Texts -> Events] /\ event'[k.text] = n
          /\ \A m \in Texts : m # k.text => event'[m] = event[m]
      BY <1>3, <1>4, <2>1, <2>3
    <3> QED
      BY <1>3, <1>4, <2>1, <2>3, <3>1
  <2> QED
    BY <1>6, <2>2, <2>3
<1>9. InboxTypeOK'
  BY <1>2, <1>7, <1>8 DEF InboxInv, InboxTypeOK
<1>10. \A m \in Texts : event[m].tenant \in Tenants => event'[m] = event[m]
  BY <1>8, InboxAssumption DEF NoEvent
<1>11. HandledForItsTenant'
  <2>1. ASSUME NEW q \in Receivers, NEW j \in receiver'[q], j.at = "accepted"
        PROVE  event'[j.text].tenant = j.tenant
    <3>1. CASE q = r
      BY <1>7, <1>8, <2>1, <3>1
    <3>2. CASE q # r
      <4>1. j \in receiver[q] /\ j \in Receipts /\ j.tenant \in Tenants /\ j.text \in Texts
        BY <1>7, <2>1, <3>2 DEF InboxInv, InboxTypeOK, Receipts
      <4> QED
        BY <1>10, <2>1, <4>1 DEF InboxInv, HandledForItsTenant
    <3> QED
      BY <3>1, <3>2
  <2>2. \A w \in Workers : \A j \in worker[w] : event'[j.text].tenant = j.tenant
    BY <1>10 DEF InboxInv, InboxTypeOK, Tasks, HandledForItsTenant
  <2>3. \A m \in Texts : tasks[m] > 0 => event'[m].tenant \in Tenants
    BY <1>10 DEF InboxInv, HandledForItsTenant
  <2> QED
    BY <1>2, <2>1, <2>2, <2>3 DEF HandledForItsTenant
<1>12. ClaimedByOne'
  <2>1. ASSUME NEW w \in Workers, NEW j \in worker[w]
        PROVE  event'[j.text] = event[j.text]
    BY <1>10, <2>1, OneTask
  <2> QED
    BY <1>2, <2>1 DEF InboxInv, ClaimedByOne
<1>13. InsertedIsNew' /\ ThreadsSuit' /\ OneThreadPerGuestAndFlat'
  BY <1>2 DEF InboxInv, InsertedIsNew, ThreadsSuit, Suits, OneThreadPerGuestAndFlat
<1>14. FiledAtMostOnce'
  BY <1>2, <1>8 DEF InboxInv, FiledAtMostOnce, NoEvent
<1> QED
  BY <1>9, <1>11, <1>12, <1>13, <1>14 DEF InboxInv

LEMMA QueueKeepsInbox ==
    ASSUME InboxInv, NEW r \in Receivers, Queue(r) \/ ReceiverStops(r)
    PROVE  InboxInv'
<1> DEFINE t == {}
<1>1. /\ receiver' = [receiver EXCEPT ![r] = t]
      /\ UNCHANGED <<holds, event, worker, threads, shelf>>
  BY DEF Queue, ReceiverStops
<1>2. t \in SUBSET Receipts /\ \A k : k \notin t
  OBVIOUS
<1> HIDE DEF t
<1>3. /\ receiver' \in [Receivers -> SUBSET Receipts]
      /\ \A q \in Receivers : \A i, j \in receiver'[q] : i = j
      /\ \A q \in Receivers : receiver'[q] = IF q = r THEN t ELSE receiver[q]
  BY <1>1, <1>2, ReceiversMove
<1>5. /\ tasks' \in [Texts -> 0..MaxCopies]
      /\ \A m \in Texts : tasks'[m] > 0 => event[m].tenant \in Tenants
  <2>1. CASE ReceiverStops(r)
    BY <2>1 DEF ReceiverStops, InboxInv, InboxTypeOK, HandledForItsTenant
  <2>2. CASE Queue(r)
    <3>1. PICK k \in receiver[r] : k.at = "accepted" /\ Dispatches(k)
      BY <2>2 DEF Queue
    <3>2. PICK n \in 1..MaxCopies : tasks' = [tasks EXCEPT ![k.text] = n]
      BY <3>1 DEF Dispatches
    <3>3. event[k.text].tenant \in Tenants
      BY <3>1 DEF InboxInv, InboxTypeOK, HandledForItsTenant, Receipts
    <3>4. n \in 0..MaxCopies
      BY <3>2, InboxAssumption
    <3> QED
      BY <2>2, <3>2, <3>3, <3>4 DEF Queue, InboxInv, InboxTypeOK, HandledForItsTenant
  <2> QED
    BY <2>1, <2>2
<1>6. InboxTypeOK'
  BY <1>1, <1>3, <1>5 DEF InboxInv, InboxTypeOK
<1>7. HandledForItsTenant'
  BY <1>1, <1>2, <1>3, <1>5 DEF InboxInv, HandledForItsTenant
<1> QED
  BY <1>1, <1>6, <1>7 DEF InboxInv, ClaimedByOne, InsertedIsNew,
         ThreadsSuit, Suits, FiledAtMostOnce, OneThreadPerGuestAndFlat

(* A worker goes on, or ends. *)
LEMMA WorkersMove ==
    ASSUME InboxInv, NEW w \in Workers, NEW t \in SUBSET Tasks, \A j, k \in t : j = k,
           worker' = [worker EXCEPT ![w] = t]
    PROVE  /\ worker' \in [Workers -> SUBSET Tasks]
           /\ \A v \in Workers : \A j, k \in worker'[v] : j = k
           /\ \A v \in Workers : worker'[v] = IF v = w THEN t ELSE worker[v]
  BY DEF InboxInv, InboxTypeOK

(* What a worker can be about beside the others. *)
FitsIn(w, k) ==
    /\ event[k.text].tenant = k.tenant
    /\ k.at # "located" =>
         /\ event[k.text].status = "NEW"
         /\ \A v \in Workers \ {w} : \A j \in worker[v] :
              j.at # "located" => j.text # k.text
    /\ k.at = "threaded" /\ k.thread \notin threads =>
         /\ \A c \in threads : Distinct(k.thread, c)
         /\ \A v \in Workers \ {w} : \A j \in worker[v] :
              j.at = "threaded" /\ j.thread \notin threads =>
                  Distinct(k.thread, j.thread) /\ Distinct(j.thread, k.thread)
    /\ k.at = "threaded" => Suits(k)

(* A worker that goes on without a commit, with what it is then about, if  *)
(* anything.                                                               *)
LEMMA WorkerGoesOn ==
    ASSUME InboxInv, NEW w \in Workers, NEW t \in SUBSET Tasks, \A j, k \in t : j = k,
           worker' = [worker EXCEPT ![w] = t],
           UNCHANGED <<holds, event, receiver, threads, shelf>>,
           tasks' \in [Texts -> 0..MaxCopies],
           \A m \in Texts : tasks'[m] > 0 => tasks[m] > 0,
           \A k \in t : FitsIn(w, k)
    PROVE  InboxInv'
<1>1. /\ worker' \in [Workers -> SUBSET Tasks]
      /\ \A v \in Workers : \A j, k \in worker'[v] : j = k
      /\ \A v \in Workers : worker'[v] = IF v = w THEN t ELSE worker[v]
  BY WorkersMove
<1>2. InboxTypeOK'
  BY <1>1 DEF InboxInv, InboxTypeOK
<1>3. HandledForItsTenant'
  <2>1. \A v \in Workers : \A k \in worker'[v] : event[k.text].tenant = k.tenant
    BY <1>1 DEF InboxInv, HandledForItsTenant, FitsIn
  <2> QED
    BY <2>1 DEF InboxInv, HandledForItsTenant
<1>4. ClaimedByOne'
  <2>1. \A v \in Workers : \A k \in worker'[v] :
          k.at # "located" => event[k.text].status = "NEW"
    BY <1>1 DEF InboxInv, ClaimedByOne, FitsIn
  <2>2. \A v, x \in Workers : v # x =>
          \A j \in worker'[v], k \in worker'[x] :
              j.at # "located" /\ k.at # "located" => j.text # k.text
    BY <1>1 DEF InboxInv, ClaimedByOne, FitsIn
  <2> QED
    BY <2>1, <2>2 DEF ClaimedByOne
<1>5. InsertedIsNew'
  <2>1. \A v \in Workers : \A k \in worker'[v] :
          k.at = "threaded" /\ k.thread \notin threads => \A c \in threads : Distinct(k.thread, c)
    BY <1>1 DEF InboxInv, InsertedIsNew, FitsIn
  <2>2. \A v, x \in Workers : v # x =>
          \A j \in worker'[v], k \in worker'[x] :
              /\ j.at = "threaded" /\ j.thread \notin threads
              /\ k.at = "threaded" /\ k.thread \notin threads
              => Distinct(j.thread, k.thread)
    BY <1>1 DEF InboxInv, InsertedIsNew, FitsIn
  <2> QED
    BY <2>1, <2>2 DEF InsertedIsNew
<1>6. ThreadsSuit'
  <2>1. \A v \in Workers : \A k \in worker'[v] : k.at = "threaded" => Suits(k)
    BY <1>1 DEF InboxInv, ThreadsSuit, FitsIn
  <2> QED
    BY <2>1 DEF ThreadsSuit, Suits
<1>7. FiledAtMostOnce' /\ OneThreadPerGuestAndFlat'
  BY DEF InboxInv, FiledAtMostOnce, OneThreadPerGuestAndFlat
<1> QED
  BY <1>2, <1>3, <1>4, <1>5, <1>6, <1>7 DEF InboxInv

LEMMA LocateKeepsInbox ==
    ASSUME InboxInv, NEW w \in Workers, NEW m \in Texts, Locate(w, m)
    PROVE  InboxInv'
<1> DEFINE k == [at |-> "located", text |-> m, tenant |-> event[m].tenant]
           t == {k}
<1>1. /\ tasks[m] > 0 /\ worker' = [worker EXCEPT ![w] = t]
      /\ tasks' = [tasks EXCEPT ![m] = @ - 1]
      /\ UNCHANGED <<holds, event, receiver, threads, shelf>>
  BY DEF Locate
<1>2. event[m].tenant \in Tenants
  BY <1>1 DEF InboxInv, HandledForItsTenant
<1>3. k \in Tasks /\ k.at = "located" /\ k.text = m /\ k.tenant = event[m].tenant
  BY <1>2 DEF Tasks
<1>4. t \in SUBSET Tasks /\ \A j \in t : j = k
  BY <1>3
<1>5. /\ tasks' \in [Texts -> 0..MaxCopies]
      /\ \A x \in Texts : tasks'[x] > 0 => tasks[x] > 0
  BY <1>1, InboxAssumption DEF InboxInv, InboxTypeOK
<1> HIDE DEF k, t
<1>6. (\A i, j \in t : i = j) /\ \A j \in t : FitsIn(w, j)
  BY <1>3, <1>4 DEF FitsIn
<1> QED
  BY <1>1, <1>4, <1>5, <1>6, WorkerGoesOn

LEMMA ClaimKeepsInbox ==
    ASSUME InboxInv, NEW w \in Workers, Claim(w)
    PROVE  InboxInv'
<1>1. PICK k \in worker[w] :
        /\ k.at = "located"
        /\ \A v \in Workers : k.text \notin Claimed(v)
        /\ IF event[k.text].status = "NEW"
             THEN worker' = [worker EXCEPT ![w] = {[k EXCEPT !.at = "claimed"]}]
             ELSE worker' = [worker EXCEPT ![w] = {}]
  BY DEF Claim, ClaimEvent, Claims
<1>2. UNCHANGED <<holds, event, tasks, receiver, threads, shelf>>
  BY DEF Claim
<1>3. /\ k \in Tasks /\ k.text \in Texts /\ k.tenant \in Tenants
      /\ event[k.text].tenant = k.tenant
  BY OneTask
<1> DEFINE n == [k EXCEPT !.at = "claimed"]
<1>4. n \in Tasks /\ n.at = "claimed" /\ n.text = k.text /\ n.tenant = k.tenant
  BY <1>1, <1>3 DEF Tasks
<1>5. \A v \in Workers : \A j \in worker[v] : j.at # "located" => j.text # n.text
  BY <1>1, <1>4 DEF Claimed
<1> DEFINE t == IF event[k.text].status = "NEW" THEN {n} ELSE {}
<1>6. /\ worker' = [worker EXCEPT ![w] = t] /\ t \in SUBSET Tasks
      /\ \A j \in t : j = n /\ event[k.text].status = "NEW"
  BY <1>1, <1>4
<1>7. /\ tasks' \in [Texts -> 0..MaxCopies]
      /\ \A x \in Texts : tasks'[x] > 0 => tasks[x] > 0
  BY <1>2 DEF InboxInv, InboxTypeOK
<1> HIDE DEF n, t
<1>8. (\A i, j \in t : i = j) /\ \A j \in t : FitsIn(w, j)
  BY <1>3, <1>4, <1>5, <1>6 DEF FitsIn
<1> QED
  BY <1>2, <1>6, <1>7, <1>8, WorkerGoesOn

LEMMA ThreadKeepsInbox ==
    ASSUME InboxInv, NEW w \in Workers, EnsureThread(w)
    PROVE  InboxInv'
<1>1. PICK k \in worker[w], key \in Keys :
        /\ k.at = "claimed"
        /\ key # Unheld => key[1] = WrittenBy[k.text]
        /\ \A v \in Workers : \A c \in Inserting(v) :
             key # Unheld => ~SameKey(c, k.tenant, key)
        /\ \E c \in ThreadFor(k, key) :
             worker' = [worker EXCEPT ![w] =
               {[at |-> "threaded", text |-> k.text, tenant |-> k.tenant, thread |-> c]}]
  BY DEF EnsureThread
<1>2. UNCHANGED <<holds, event, tasks, receiver, threads, shelf>>
  BY DEF EnsureThread
<1>3. /\ k \in Tasks /\ k.text \in Texts /\ k.tenant \in Tenants
      /\ event[k.text].tenant = k.tenant
      /\ event[k.text].status = "NEW"
      /\ \A v \in Workers \ {w} : \A j \in worker[v] : j.at # "located" => j.text # k.text
  BY <1>1, OneTask DEF InboxInv, ClaimedByOne
<1>4. PICK c \in ThreadFor(k, key) :
        worker' = [worker EXCEPT ![w] =
          {[at |-> "threaded", text |-> k.text, tenant |-> k.tenant, thread |-> c]}]
  BY <1>1
<1> DEFINE n == [at |-> "threaded", text |-> k.text, tenant |-> k.tenant, thread |-> c]
           t == {n}
<1>5. \/ c \in threads /\ key # Unheld /\ SameKey(c, k.tenant, key)
      \/ /\ c = [tenant |-> k.tenant, key |-> key, opener |-> k.text]
         /\ \A d \in threads : key # Unheld => ~SameKey(d, k.tenant, key)
  BY <1>4 DEF ThreadFor, Opened
<1>6. c \in Threads
  BY <1>3, <1>5 DEF InboxInv, InboxTypeOK, Threads
<1>7. /\ n \in Tasks /\ n.at = "threaded" /\ n.text = k.text
      /\ n.tenant = k.tenant /\ n.thread = c
  BY <1>3, <1>6 DEF Tasks
<1>8. worker' = [worker EXCEPT ![w] = t] /\ t \in SUBSET Tasks /\ \A j \in t : j = n
  BY <1>4, <1>7
<1>9. ASSUME c \notin threads
      PROVE  /\ \A d \in threads : Distinct(c, d)
             /\ \A v \in Workers \ {w} : \A j \in worker[v] :
                  j.at = "threaded" /\ j.thread \notin threads =>
                      Distinct(c, j.thread) /\ Distinct(j.thread, c)
  <2>1. /\ c.tenant = k.tenant /\ c.key = key
        /\ \A d \in threads : key # Unheld => ~SameKey(d, k.tenant, key)
    BY <1>5, <1>9
  <2>2. ASSUME NEW v \in Workers, NEW j \in worker[v], j.at = "threaded", j.thread \notin threads
        PROVE  Distinct(c, j.thread) /\ Distinct(j.thread, c)
    <3>1. j.thread \in Inserting(v)
      BY <2>2 DEF Inserting
    <3>2. key # Unheld => ~SameKey(j.thread, k.tenant, key)
      BY <1>1, <3>1
    <3> QED
      BY <2>1, <3>2 DEF Distinct, SameKey
  <2> QED
    BY <2>1, <2>2 DEF Distinct
<1>10. /\ tasks' \in [Texts -> 0..MaxCopies]
       /\ \A x \in Texts : tasks'[x] > 0 => tasks[x] > 0
  BY <1>2 DEF InboxInv, InboxTypeOK
<1>11. Suits(n)
  BY <1>1, <1>5, <1>7 DEF Suits, SameKey
<1> HIDE DEF n, t
<1>12. (\A i, j \in t : i = j) /\ \A j \in t : FitsIn(w, j)
  BY <1>3, <1>7, <1>8, <1>9, <1>11 DEF FitsIn
<1> QED
  BY <1>2, <1>8, <1>10, <1>12, WorkerGoesOn

LEMMA FailureKeepsInbox ==
    ASSUME InboxInv, NEW w \in Workers, WorkerFails(w)
    PROVE  InboxInv'
<1> DEFINE t == {}
<1>1. /\ worker' = [worker EXCEPT ![w] = t]
      /\ UNCHANGED <<holds, event, tasks, receiver, threads, shelf>>
  BY DEF WorkerFails
<1>2. t \in SUBSET Tasks /\ \A k : k \notin t
  OBVIOUS
<1>3. tasks' \in [Texts -> 0..MaxCopies] /\ \A x \in Texts : tasks'[x] > 0 => tasks[x] > 0
  BY <1>1 DEF InboxInv, InboxTypeOK
<1> HIDE DEF t
<1> QED
  BY <1>1, <1>2, <1>3, WorkerGoesOn

LEMMA FileKeepsInbox ==
    ASSUME InboxInv, NEW w \in Workers, FileMessage(w)
    PROVE  InboxInv'
<1>1. PICK k \in worker[w] :
        /\ k.at = "threaded"
        /\ event' = [event EXCEPT ![k.text].status = "PROCESSED"]
        /\ threads' = threads \cup {k.thread}
        /\ shelf' = [shelf EXCEPT ![k.text] = Append(@, k.thread)]
  BY DEF FileMessage
<1> DEFINE t == {}
<1>2. /\ worker' = [worker EXCEPT ![w] = t]
      /\ UNCHANGED <<holds, tasks, receiver>>
  BY DEF FileMessage
<1>3. /\ k \in Tasks /\ k.text \in Texts /\ k.tenant \in Tenants /\ k.thread \in Threads
      /\ event[k.text].tenant = k.tenant /\ event[k.text].status = "NEW"
      /\ \A v \in Workers \ {w} : \A j \in worker[v] : j.at # "located" => j.text # k.text
  BY <1>1, OneTask DEF InboxInv, ClaimedByOne
<1>4. t \in SUBSET Tasks /\ \A j : j \notin t
  OBVIOUS
<1> HIDE DEF t
<1>5. /\ worker' \in [Workers -> SUBSET Tasks]
      /\ \A v \in Workers : \A i, j \in worker'[v] : i = j
      /\ \A v \in Workers : worker'[v] = IF v = w THEN t ELSE worker[v]
  BY <1>2, <1>4, WorkersMove
<1>6. \A v \in Workers : \A j \in worker'[v] :
        /\ v # w /\ j \in worker[v] /\ j.text \in Texts
        /\ j.at # "located" => j.text # k.text
  BY <1>3, <1>4, <1>5, OneTask
<1>7. /\ event' \in [Texts -> Events]
      /\ \A m \in Texts : event'[m].tenant = event[m].tenant
      /\ \A m \in Texts \ {k.text} : event'[m] = event[m]
      /\ event'[k.text].status = "PROCESSED"
  <2>1. event[k.text] \in Events /\ event[k.text] # NoEvent
    BY <1>3 DEF InboxInv, InboxTypeOK, NoEvent
  <2>2. [event[k.text] EXCEPT !.status = "PROCESSED"] \in Events
    BY <2>1 DEF Events
  <2>3. /\ [event[k.text] EXCEPT !.status = "PROCESSED"].tenant = event[k.text].tenant
        /\ [event[k.text] EXCEPT !.status = "PROCESSED"].status = "PROCESSED"
    BY <2>1 DEF Events
  <2>4. event \in [Texts -> Events]
    BY DEF InboxInv, InboxTypeOK
  <2> QED
    BY <1>1, <1>3, <2>2, <2>3, <2>4
<1>8. /\ shelf' \in [Texts -> Seq(Threads)] /\ threads' \subseteq Threads
      /\ shelf[k.text] = <<>> /\ shelf'[k.text] = <<k.thread>>
      /\ \A m \in Texts \ {k.text} : shelf'[m] = shelf[m]
  <2>1. shelf[k.text] = <<>>
    BY <1>3 DEF InboxInv, FiledAtMostOnce
  <2>2. Append(<<>>, k.thread) = <<k.thread>> /\ <<k.thread>> \in Seq(Threads)
    BY <1>3
  <2> QED
    BY <1>1, <1>3, <2>1, <2>2 DEF InboxInv, InboxTypeOK
<1>9. InboxTypeOK'
  BY <1>2, <1>5, <1>7, <1>8 DEF InboxInv, InboxTypeOK
<1>10. HandledForItsTenant'
  <2>1. \A r \in Receivers : \A j \in receiver[r] :
          j.at = "accepted" => event'[j.text].tenant = j.tenant
    <3>1. \A r \in Receivers : \A j \in receiver[r] : j.text \in Texts
      BY DEF InboxInv, InboxTypeOK, Receipts
    <3> QED
      BY <1>7, <3>1 DEF InboxInv, HandledForItsTenant
  <2>2. \A v \in Workers : \A j \in worker'[v] : event'[j.text].tenant = j.tenant
    BY <1>6, <1>7 DEF InboxInv, HandledForItsTenant
  <2> QED
    BY <1>2, <1>7, <2>1, <2>2 DEF InboxInv, HandledForItsTenant
<1>11. ClaimedByOne'
  <2>1. \A v \in Workers : \A j \in worker'[v] :
          j.at # "located" => event'[j.text].status = "NEW"
    BY <1>6, <1>7 DEF InboxInv, ClaimedByOne
  <2>2. \A v, x \in Workers : v # x =>
          \A i \in worker'[v], j \in worker'[x] :
              i.at # "located" /\ j.at # "located" => i.text # j.text
    BY <1>6 DEF InboxInv, ClaimedByOne
  <2> QED
    BY <2>1, <2>2 DEF ClaimedByOne
<1>12. \A c, d : c.key # Unheld /\ SameKey(c, d.tenant, d.key) <=>
                  d.key # Unheld /\ SameKey(d, c.tenant, c.key)
  BY DEF SameKey
<1>13. k.thread \notin threads =>
         /\ \A c \in threads : Distinct(k.thread, c)
         /\ \A v \in Workers \ {w} : \A j \in worker[v] :
              j.at = "threaded" /\ j.thread \notin threads => Distinct(j.thread, k.thread)
  BY <1>1 DEF InboxInv, InsertedIsNew
<1>14. InsertedIsNew'
  <2>1. ASSUME NEW v \in Workers, NEW j \in worker'[v], j.at = "threaded", j.thread \notin threads'
        PROVE  \A c \in threads' : Distinct(j.thread, c)
    <3>1. v # w /\ j \in worker[v] /\ j.thread \notin threads
      BY <1>1, <1>6, <2>1
    <3>2. \A c \in threads : Distinct(j.thread, c)
      BY <2>1, <3>1 DEF InboxInv, InsertedIsNew
    <3> QED
      BY <1>1, <1>13, <2>1, <3>1, <3>2
  <2>2. \A v, x \in Workers : v # x =>
          \A i \in worker'[v], j \in worker'[x] :
              /\ i.at = "threaded" /\ i.thread \notin threads'
              /\ j.at = "threaded" /\ j.thread \notin threads'
              => Distinct(i.thread, j.thread)
    BY <1>1, <1>6 DEF InboxInv, InsertedIsNew
  <2> QED
    BY <2>1, <2>2 DEF InsertedIsNew
<1>15. OneThreadPerGuestAndFlat'
  <2>1. ASSUME NEW c \in threads', NEW d \in threads', c.key # Unheld, SameKey(c, d.tenant, d.key)
        PROVE  c = d
    <3>1. CASE c \in threads /\ d \in threads
      BY <2>1, <3>1 DEF InboxInv, OneThreadPerGuestAndFlat
    <3>2. CASE c = k.thread /\ d \in threads /\ c \notin threads
      BY <1>12, <1>13, <2>1, <3>2 DEF Distinct
    <3>3. CASE d = k.thread /\ c \in threads /\ d \notin threads
      BY <1>12, <1>13, <2>1, <3>3 DEF Distinct
    <3> QED
      BY <1>1, <2>1, <3>1, <3>2, <3>3
  <2> QED
    BY <2>1 DEF OneThreadPerGuestAndFlat
<1>16. FiledAtMostOnce'
  <2>1. ASSUME NEW m \in Texts, m # k.text
        PROVE  IF event'[m].status = "PROCESSED"
                 THEN \E c \in threads' : c.tenant = event'[m].tenant /\ shelf'[m] = <<c>>
                 ELSE shelf'[m] = <<>>
    BY <1>1, <1>7, <1>8, <2>1 DEF InboxInv, FiledAtMostOnce
  <2>2. k.thread \in threads' /\ k.thread.tenant = event'[k.text].tenant
    BY <1>1, <1>3, <1>7 DEF InboxInv, ThreadsSuit, Suits
  <2> QED
    BY <1>7, <1>8, <2>1, <2>2 DEF FiledAtMostOnce
<1>17. ThreadsSuit'
  BY <1>1, <1>6 DEF InboxInv, ThreadsSuit, Suits
<1> QED
  BY <1>9, <1>10, <1>11, <1>14, <1>15, <1>16, <1>17 DEF InboxInv

LEMMA InboxNextKeepsInv ==
    ASSUME InboxInv, [InboxNext]_inboxVars
    PROVE  InboxInv'
<1>1. CASE UNCHANGED inboxVars
  BY <1>1 DEF inboxVars, InboxInv, InboxTypeOK, HandledForItsTenant, ClaimedByOne,
         InsertedIsNew, ThreadsSuit, Suits, FiledAtMostOnce, OneThreadPerGuestAndFlat
<1>2. CASE \E t \in Tenants : Release(t) \/ \E n \in PhoneNumbers : Associate(t, n)
  BY <1>2, NumbersKeepInbox
<1>3. CASE \E r \in Receivers :
             (\E m \in Texts : ResolveNumber(r, m)) \/ Receiving(r) \/ ReceiverStops(r)
  BY <1>3, ResolveKeepsInbox, RecordKeepsInbox, QueueKeepsInbox DEF Receiving
<1>4. CASE \E w \in Workers : Handling(w) \/ WorkerFails(w)
  BY <1>4, LocateKeepsInbox, ClaimKeepsInbox, ThreadKeepsInbox, FileKeepsInbox,
     FailureKeepsInbox DEF Handling
<1> QED
  BY <1>1, <1>2, <1>3, <1>4 DEF InboxNext

LEMMA InboxInvAlways == InboxSpec => []InboxInv
<1> QED
  BY InboxInitInv, InboxNextKeepsInv, PTL DEF InboxSpec

(* The events, the deliveries and the runs of the tasks are what they are  *)
(* declared to be; a message is accepted and worked for a tenant only.     *)
THEOREM InboxTypeCorrect == InboxSpec => []InboxTypeOK
<1>1. InboxInv => InboxTypeOK
  BY DEF InboxInv
<1> QED
  BY <1>1, InboxInvAlways, PTL

(* However often a message is delivered and its task handed out, it is     *)
(* filed once (ON CONFLICT DO NOTHING and the claim).                      *)
THEOREM NeverFiledTwice == InboxSpec => []FiledAtMostOnce
<1>1. InboxInv => FiledAtMostOnce
  BY DEF InboxInv
<1> QED
  BY <1>1, InboxInvAlways, PTL

(* A guest and a flat have one conversation, whatever is processed at once *)
(* (ensure_whatsapp).                                                      *)
THEOREM AlwaysOneThread == InboxSpec => []OneThreadPerGuestAndFlat
<1>1. InboxInv => OneThreadPerGuestAndFlat
  BY DEF InboxInv
<1> QED
  BY <1>1, InboxInvAlways, PTL

(* The inbox implements MessageIntake.                                     *)

TakenBy(m) == IF event[m] = NoEvent THEN {} ELSE {event[m].tenant}

(* What the promise sees of the inbox. *)
SeenStays ==
    /\ [m \in Texts |-> TakenBy(m)]' = [m \in Texts |-> TakenBy(m)]
    /\ UNCHANGED <<threads, shelf>>

AsPromised == Intake!Next \/ SeenStays

LEMMA EventStays ==
    ASSUME UNCHANGED <<event, threads, shelf>>
    PROVE  AsPromised
  BY DEF AsPromised, SeenStays, TakenBy

LEMMA IntakeStarts == InboxInit => Intake!Init
  BY DEF InboxInit, Intake!Init, NoEvent

(* The first delivery takes the message; the others change nothing.        *)
LEMMA RecordTakes ==
    ASSUME InboxInv, NEW r \in Receivers, RecordDelivery(r)
    PROVE  AsPromised
<1>1. PICK k \in receiver[r] : k.at = "resolved" /\ RecordEvent(r, k)
  BY DEF RecordDelivery
<1>2. k.text \in Texts /\ k.tenant \in Tenants \cup {Unheld} /\ UNCHANGED <<threads, shelf>>
  BY <1>1 DEF RecordDelivery, InboxInv, InboxTypeOK, Receipts, Holders
<1>3. CASE event[k.text] # NoEvent
  BY <1>1, <1>2, <1>3, EventStays DEF RecordEvent
<1>4. CASE event[k.text] = NoEvent
  <2> DEFINE n == [status |-> "NEW", tenant |-> k.tenant]
  <2>1. event' = [event EXCEPT ![k.text] = n]
    BY <1>1, <1>4 DEF RecordEvent
  <2>2. n # NoEvent /\ n.tenant = k.tenant
    BY DEF NoEvent
  <2> HIDE DEF n
  <2>3. event'[k.text] = n /\ \A m \in Texts : m # k.text => event'[m] = event[m]
    BY <1>2, <2>1 DEF InboxInv, InboxTypeOK
  <2>4. /\ TakenBy(k.text) = {} /\ TakenBy(k.text)' = {k.tenant}
        /\ \A m \in Texts : m # k.text => TakenBy(m)' = TakenBy(m)
    BY <1>4, <2>2, <2>3 DEF TakenBy
  <2>5. [m \in Texts |-> TakenBy(m)]'
           = [[m \in Texts |-> TakenBy(m)] EXCEPT ![k.text] = {k.tenant}]
    BY <1>2, <2>4
  <2>6. Intake!Take(k.text, k.tenant)
    BY <1>2, <2>4, <2>5 DEF Intake!Take, TakenBy
  <2> QED
    BY <1>2, <2>6 DEF AsPromised, Intake!Next
<1> QED
  BY <1>3, <1>4

(* The commit of the pipeline files the message where it belongs.          *)
LEMMA CommitFiles ==
    ASSUME InboxInv, NEW w \in Workers, FileMessage(w)
    PROVE  AsPromised
<1>1. PICK k \in worker[w] :
        /\ k.at = "threaded"
        /\ event' = [event EXCEPT ![k.text].status = "PROCESSED"]
        /\ threads' = threads \cup {k.thread}
        /\ shelf' = [shelf EXCEPT ![k.text] = Append(@, k.thread)]
  BY DEF FileMessage
<1>2. /\ k.text \in Texts /\ k.tenant \in Tenants /\ k.thread \in Threads
      /\ event[k.text].tenant = k.tenant /\ event[k.text].status = "NEW"
  BY <1>1, OneTask DEF InboxInv, ClaimedByOne
<1>3. shelf[k.text] = <<>> /\ event[k.text] # NoEvent
  BY <1>2 DEF InboxInv, FiledAtMostOnce, NoEvent
<1>4. Append(<<>>, k.thread) = <<k.thread>>
  BY <1>2
<1>5. shelf' = [shelf EXCEPT ![k.text] = <<k.thread>>]
  BY <1>1, <1>3, <1>4
<1>6. \A m \in Texts : TakenBy(m)' = TakenBy(m)
  <2>1. \A m \in Texts : event[m] \in Events
    BY DEF InboxInv, InboxTypeOK
  <2>2. event' \in [Texts -> Events]
    BY FileKeepsInbox DEF InboxInv, InboxTypeOK
  <2>3. \A m \in Texts : m # k.text => event'[m] = event[m]
    BY <1>1, <1>2 DEF InboxInv, InboxTypeOK
  <2>4. event'[k.text].tenant = event[k.text].tenant /\ event'[k.text].status = "PROCESSED"
    BY <1>1, <1>2, <2>1 DEF InboxInv, InboxTypeOK, Events, NoEvent
  <2>5. event'[k.text] # NoEvent
    BY <2>4 DEF NoEvent
  <2> QED
    BY <1>3, <2>3, <2>4, <2>5 DEF TakenBy
<1>7. TakenBy(k.text) = {k.tenant}
  BY <1>2, <1>3 DEF TakenBy
<1>8. Suits(k)
  BY <1>1 DEF InboxInv, ThreadsSuit
<1>9. Intake!Belongs(k.text, k.thread)
  BY <1>2, <1>7, <1>8 DEF Intake!Belongs, Suits, TakenBy
<1>10. k.thread \in threads \/ Intake!MayOpen(k.text, k.thread)
  <2>1. ASSUME k.thread \notin threads
        PROVE  /\ k.thread.opener = k.text
               /\ \A d \in threads : Distinct(k.thread, d)
    BY <1>1, <1>8, <2>1 DEF InboxInv, InsertedIsNew, Suits
  <2> QED
    BY <2>1 DEF Intake!MayOpen, Distinct, SameKey
<1>11. Intake!File(k.text, k.thread)
  BY <1>1, <1>3, <1>5, <1>6, <1>9, <1>10 DEF Intake!File, TakenBy
<1>12. k.thread \in Intake!Conversations
  BY <1>2 DEF Intake!Conversations, Threads
<1> QED
  BY <1>2, <1>11, <1>12 DEF AsPromised, Intake!Next

LEMMA IntakeStep ==
    ASSUME InboxInv, [InboxNext]_inboxVars
    PROVE  [Intake!Next]_Intake!intake
<1>1. AsPromised
  <2>1. CASE UNCHANGED inboxVars
    BY <2>1, EventStays DEF inboxVars
  <2>2. CASE \E t \in Tenants : Release(t) \/ \E n \in PhoneNumbers : Associate(t, n)
    BY <2>2, EventStays DEF Release, Associate
  <2>3. CASE \E r \in Receivers :
               (\E m \in Texts : ResolveNumber(r, m)) \/ Receiving(r) \/ ReceiverStops(r)
    BY <2>3, EventStays, RecordTakes DEF ResolveNumber, Receiving, Queue, ReceiverStops
  <2>4. CASE \E w \in Workers : Handling(w) \/ WorkerFails(w)
    BY <2>4, EventStays, CommitFiles DEF Handling, Locate, Claim, EnsureThread, WorkerFails
  <2> QED
    BY <2>1, <2>2, <2>3, <2>4 DEF InboxNext
<1>2. SeenStays => UNCHANGED Intake!intake
  BY DEF SeenStays, TakenBy, Intake!intake
<1> QED
  BY <1>1, <1>2 DEF AsPromised

(* However often a message is delivered and its task handed out, and       *)
(* whatever dies in between, it is taken once and filed at most once, in   *)
(* the one conversation it belongs in (record, the claim, ensure_whatsapp  *)
(* and the pipeline's single commit): the inbox implements MessageIntake.  *)
THEOREM InboxFilesAsPromised == InboxSpec => FiledAsPromised
  BY IntakeStarts, IntakeStep, InboxInvAlways, PTL
     DEF InboxSpec, FiledAsPromised, Intake!Spec

(* What follows from the promise alone: a filed message is in a            *)
(* conversation it belongs in.                                             *)
FiledRight ==
    /\ shelf \in [Texts -> Seq(Threads)]
    /\ \A m \in Texts :
        shelf[m] # <<>> => \E c \in threads : shelf[m] = <<c>> /\ Intake!Belongs(m, c)

(* No conversation holds messages of two guests, or of two tenants.        *)
NoSharedConversation ==
    \A m, n \in Texts : \A c \in threads :
        shelf[m] = <<c>> /\ shelf[n] = <<c>> =>
            WrittenBy[m] = WrittenBy[n] /\ event[m].tenant = event[n].tenant

LEMMA RightFromTheStart == Intake!Init => FiledRight
  BY DEF Intake!Init, FiledRight

LEMMA RightStaysRight ==
    ASSUME FiledRight, [Intake!Next]_Intake!intake
    PROVE  FiledRight'
<1>1. ASSUME NEW m \in Texts, NEW c, Intake!Belongs(m, c), TakenBy(m)' = TakenBy(m)
      PROVE  Intake!Belongs(m, c)'
  BY <1>1 DEF Intake!Belongs, TakenBy
<1>2. CASE UNCHANGED Intake!intake
  <2>1. \A m \in Texts : TakenBy(m)' = [n \in Texts |-> TakenBy(n)]'[m]
    OBVIOUS
  <2>2. \A m \in Texts : TakenBy(m)' = TakenBy(m)
    BY <1>2, <2>1 DEF Intake!intake, TakenBy
  <2> QED
    BY <1>1, <1>2, <2>2 DEF FiledRight, Intake!intake
<1>3. ASSUME NEW k \in Texts, NEW t, Intake!Take(k, t)
      PROVE  FiledRight'
  <2>1. TakenBy(k) = {} /\ UNCHANGED <<threads, shelf>>
    BY <1>3 DEF Intake!Take, TakenBy
  <2>2. [n \in Texts |-> TakenBy(n)]' = [[n \in Texts |-> TakenBy(n)] EXCEPT ![k] = {t}]
    BY <1>3 DEF Intake!Take, TakenBy
  <2>3. \A m \in Texts : m # k => TakenBy(m)' = TakenBy(m)
    BY <2>2
  <2>4. \A c : ~Intake!Belongs(k, c)
    BY <2>1 DEF Intake!Belongs, TakenBy
  <2> QED
    BY <1>1, <2>1, <2>3, <2>4 DEF FiledRight
<1>4. ASSUME NEW k \in Texts, NEW c \in Threads, Intake!File(k, c)
      PROVE  FiledRight'
  <2>1. /\ Intake!Belongs(k, c) /\ threads' = threads \cup {c}
        /\ shelf' = [shelf EXCEPT ![k] = <<c>>]
    BY <1>4 DEF Intake!File
  <2>2. [n \in Texts |-> TakenBy(n)]' = [n \in Texts |-> TakenBy(n)]
    BY <1>4 DEF Intake!File, TakenBy
  <2>3. \A m \in Texts : TakenBy(m)' = TakenBy(m)
    BY <2>2
  <2>4. shelf' \in [Texts -> Seq(Threads)]
    BY <2>1 DEF FiledRight
  <2>5. SUFFICES ASSUME NEW m \in Texts, shelf'[m] # <<>>
                 PROVE  \E d \in threads' : shelf'[m] = <<d>> /\ Intake!Belongs(m, d)'
    BY <2>4 DEF FiledRight
  <2>6. CASE m # k
    BY <1>1, <2>1, <2>3, <2>5, <2>6 DEF FiledRight
  <2>7. CASE m = k
    <3>1. c \in threads' /\ shelf'[m] = <<c>>
      BY <2>1, <2>7 DEF FiledRight
    <3>2. Intake!Belongs(m, c)'
      BY <1>1, <2>1, <2>3, <2>7
    <3> QED
      BY <3>1, <3>2
  <2> QED
    BY <2>6, <2>7
<1> QED
  BY <1>2, <1>3, <1>4 DEF Intake!Next, Intake!Conversations, Threads

(* What a guest writes is never filed beside what another guest wrote, nor *)
(* beside what was written to another tenant, whoever holds the number     *)
(* meanwhile (find_by_phone, ensure_whatsapp).  It follows from what       *)
(* MessageIntake promises, not from how the inbox keeps it.                *)
THEOREM ConversationsAreNotShared == InboxSpec => []NoSharedConversation
<1>1. FiledAsPromised => []FiledRight
  BY RightFromTheStart, RightStaysRight, PTL DEF FiledAsPromised, Intake!Spec
<1>2. FiledRight => NoSharedConversation
  <2> SUFFICES ASSUME FiledRight, NEW m \in Texts, NEW n \in Texts, NEW c \in threads,
                      shelf[m] = <<c>>, shelf[n] = <<c>>
               PROVE  WrittenBy[m] = WrittenBy[n] /\ event[m].tenant = event[n].tenant
    BY DEF NoSharedConversation
  <2>1. /\ <<c>> # <<>>
        /\ \A d : <<c>> = <<d>> => c = d
    OBVIOUS
  <2>2. Intake!Belongs(m, c) /\ Intake!Belongs(n, c)
    BY <2>1 DEF FiledRight
  <2> QED
    BY <2>2 DEF Intake!Belongs
<1> QED
  BY <1>1, <1>2, InboxFilesAsPromised, PTL

(* What is taken stays with its tenant and what is filed stays where it is:*)
(* neither a later delivery, nor a tenant that lets the number go or takes *)
(* it, nor a second task moves it (record, claim_for_processing).          *)
THEOREM FiledStaysFiled ==
    InboxSpec => [][\A m \in Texts :
                      /\ event[m] # NoEvent => event'[m].tenant = event[m].tenant
                      /\ shelf[m] # <<>> => shelf'[m] = shelf[m]]_inboxVars
<1>1. ASSUME InboxTypeOK, [Intake!Next]_Intake!intake
      PROVE  \A m \in Texts :
               /\ event[m] # NoEvent => event'[m].tenant = event[m].tenant
               /\ shelf[m] # <<>> => shelf'[m] = shelf[m]
  <2> DEFINE t == [n \in Texts |-> TakenBy(n)]
  <2>1. SUFFICES ASSUME NEW m \in Texts
                 PROVE  /\ t[m] # {} => t'[m] = t[m]
                        /\ shelf[m] # <<>> => shelf'[m] = shelf[m]
    BY DEF TakenBy
  <2>2. CASE UNCHANGED Intake!intake
    BY <2>2 DEF Intake!intake, TakenBy
  <2>3. ASSUME NEW k \in Texts, NEW x, Intake!Take(k, x)
        PROVE  /\ t[m] # {} => t'[m] = t[m]
               /\ shelf'[m] = shelf[m]
    BY <2>3 DEF Intake!Take, TakenBy
  <2>4. ASSUME NEW k \in Texts, NEW c, Intake!File(k, c)
        PROVE  /\ t'[m] = t[m]
               /\ shelf[m] # <<>> => shelf'[m] = shelf[m]
    BY <1>1, <2>4 DEF Intake!File, TakenBy, InboxTypeOK
  <2> QED
    BY <1>1, <2>2, <2>3, <2>4 DEF Intake!Next
<1> QED
  BY <1>1, InboxTypeCorrect, InboxFilesAsPromised, PTL DEF FiledAsPromised, Intake!Spec

-----------------------------------------------------------------------------
(* The links to the portal. *)

(* What a transaction holds agrees with the committed links. *)
RequestFits(q) ==
    /\ \A l \in q.seen : link[l] # "NONE"
    /\ q.at = "asked" => q.hit = {} /\ q.new = {}
    /\ q.at # "asked" => q.hit = q.seen \cap LiveLinks
    /\ q.at = "inserted" => LiveLinks \subseteq q.hit /\ q.kind # "REVOKE"
    /\ q.kind = "REVOKE" => q.new = {}
    /\ q.at # "asked" /\ q.kind # "REVOKE" => \E l \in Links : q.new = {l}
    /\ \A l \in q.new : link[l] = "NONE"

(* Two transactions have no link in common, and one that has inserted its  *)
(* link is alone with the links of the stay.                               *)
Disjoint(p, q) ==
    /\ p.hit \cap q.hit = {} /\ p.new \cap q.new = {}
    /\ p.at = "inserted" => q.hit = {} /\ q.at # "inserted"
    /\ q.at = "inserted" => p.hit = {} /\ p.at # "inserted"

RequestsFit == \A a \in Askers : \A q \in request[a] : RequestFits(q)
RequestsApart ==
    \A a, b \in Askers : a # b =>
        \A p \in request[a], q \in request[b] : Disjoint(p, q)
WithdrawnWereIssued == \A l \in withdrawn : link[l] # "NONE"

LinksInv ==
    /\ PortalTypeOK /\ RequestsFit /\ RequestsApart /\ WithdrawnWereIssued
    /\ LastLinkWorks /\ MailedLinkIsKept

LEMMA PortalInitInv == PortalInit => LinksInv
<1> SUFFICES ASSUME PortalInit PROVE LinksInv
  OBVIOUS
<1> QED
  BY DEF PortalInit, LinksInv, PortalTypeOK, RequestsFit, RequestsApart,
         WithdrawnWereIssued, LastLinkWorks, LiveLinks, MailedLinkIsKept

(* The one transaction of a request is all its sets tell of. *)
LEMMA TransactionIs ==
    ASSUME PortalTypeOK, NEW a \in Askers, NEW q \in request[a]
    PROVE  /\ q \in Transactions /\ request[a] = {q}
           /\ Hit(a) = q.hit /\ Generated(a) = q.new
           /\ Inserted(a) = IF q.at = "inserted" THEN q.new ELSE {}
<1>1. q \in Transactions /\ request[a] = {q}
  BY DEF PortalTypeOK
<1>2. \A p \in request[a] : p = q
  BY <1>1
<1> QED
  BY <1>1, <1>2 DEF Hit, Generated, Inserted

LEMMA NoTransaction ==
    ASSUME NEW a \in Askers, request[a] = {}
    PROVE  Hit(a) = {} /\ Generated(a) = {} /\ Inserted(a) = {}
  BY DEF Hit, Generated, Inserted

(* A request that goes on, or ends, without a commit leaves the others as  *)
(* they are.                                                               *)
LEMMA GoingOnKeepsRequests ==
    ASSUME LinksInv, NEW a \in Askers, NEW t \in SUBSET Transactions,
           \A p, q \in t : p = q,
           \A q \in t : RequestFits(q),
           \A b \in Askers \ {a} : \A p \in request[b], q \in t : Disjoint(p, q),
           request' = [request EXCEPT ![a] = t], link' = link
    PROVE  /\ request' \in [Askers -> SUBSET Transactions]
           /\ \A b \in Askers : \A p, q \in request'[b] : p = q
           /\ RequestsFit' /\ RequestsApart'
<1>1. request \in [Askers -> SUBSET Transactions]
  BY DEF LinksInv, PortalTypeOK
<1>2. \A b \in Askers : request'[b] = IF b = a THEN t ELSE request[b]
  BY <1>1
<1>3. request' \in [Askers -> SUBSET Transactions]
  BY <1>1
<1>4. \A b \in Askers : \A p, q \in request'[b] : p = q
  BY <1>2 DEF LinksInv, PortalTypeOK
<1>5. \A b \in Askers : \A q \in request'[b] : RequestFits(q)
  BY <1>2 DEF LinksInv, RequestsFit
<1>6. RequestsFit'
  BY <1>5 DEF RequestsFit, RequestFits, LiveLinks
<1>7. \A p, q : Disjoint(p, q) <=> Disjoint(q, p)
  BY DEF Disjoint
<1>8. \A b, c \in Askers : b # c =>
        \A p \in request'[b], q \in request'[c] : Disjoint(p, q)
  BY <1>2, <1>7 DEF LinksInv, RequestsApart
<1>9. RequestsApart'
  BY <1>8 DEF RequestsApart, Disjoint
<1> QED
  BY <1>3, <1>4, <1>6, <1>9

LEMMA OneGoesOn ==
    ASSUME LinksInv, NEW a \in Askers, NEW x \in Transactions, RequestFits(x),
           \A b \in Askers \ {a} : \A p \in request[b] : Disjoint(p, x),
           request' = [request EXCEPT ![a] = {x}], link' = link
    PROVE  /\ request' \in [Askers -> SUBSET Transactions]
           /\ \A b \in Askers : \A p, q \in request'[b] : p = q
           /\ RequestsFit' /\ RequestsApart'
<1> DEFINE t == {x}
<1>1. /\ t \in SUBSET Transactions /\ \A p, q \in t : p = q
      /\ \A q \in t : RequestFits(q)
      /\ \A b \in Askers \ {a} : \A p \in request[b], q \in t : Disjoint(p, q)
      /\ request' = [request EXCEPT ![a] = t]
  OBVIOUS
<1> HIDE DEF t
<1> QED
  BY <1>1, GoingOnKeepsRequests

(* What a step keeps that moves one request and neither commits, mails nor *)
(* withdraws a live link.                                                  *)
LEMMA QuietKeepsLinks ==
    ASSUME LinksInv, UNCHANGED <<link, latest, mailed>>,
           \A l \in withdrawn' \ withdrawn : l \in Links /\ link[l] = "REVOKED",
           withdrawn \subseteq withdrawn', forlorn \subseteq forlorn', forlorn' \subseteq mailed,
           \A l \in mailed : (\E a \in Askers : l \in Inserted(a)) =>
               l \in forlorn' \/ \E a \in Askers : l \in Inserted(a)'
    PROVE  /\ latest' \subseteq Links /\ withdrawn' \subseteq Links
           /\ mailed' \subseteq Links /\ forlorn' \subseteq mailed'
           /\ WithdrawnWereIssued' /\ LastLinkWorks' /\ MailedLinkIsKept'
<1>1. WithdrawnWereIssued'
  BY DEF LinksInv, WithdrawnWereIssued
<1>2. LastLinkWorks'
  BY DEF LinksInv, LastLinkWorks, LiveLinks
<1>3. MailedLinkIsKept'
  BY DEF LinksInv, MailedLinkIsKept
<1> QED
  BY <1>1, <1>2, <1>3 DEF LinksInv, PortalTypeOK

LEMMA AskKeepsPortal ==
    ASSUME LinksInv, NEW a \in Askers, NEW kind \in Kinds, AskPortal(a, kind)
    PROVE  LinksInv'
<1> DEFINE t == [at |-> "asked", kind |-> kind, told |-> FALSE,
                 seen |-> LiveLinks, hit |-> {}, new |-> {}]
<1>1. request[a] = {} /\ request' = [request EXCEPT ![a] = {t}]
      /\ UNCHANGED <<link, latest, withdrawn, mailed, forlorn>>
  BY DEF AskPortal, Does
<1>2. t \in Transactions /\ RequestFits(t)
  BY DEF Transactions, RequestFits, LiveLinks
<1>3. \A b \in Askers \ {a} : \A p \in request[b] : Disjoint(p, t)
  BY DEF LinksInv, RequestsFit, RequestFits, Disjoint
<1>4. \A b \in Askers : request[b] # {} => request'[b] = request[b]
  BY <1>1 DEF LinksInv, PortalTypeOK
<1>5. \A b \in Askers : Inserted(b) \subseteq Inserted(b)'
  BY <1>4, NoTransaction DEF Inserted
<1>6. /\ request' \in [Askers -> SUBSET Transactions]
      /\ \A b \in Askers : \A p, q \in request'[b] : p = q
      /\ RequestsFit' /\ RequestsApart'
  BY <1>1, <1>2, <1>3, OneGoesOn
<1>7. /\ latest' \subseteq Links /\ withdrawn' \subseteq Links
      /\ mailed' \subseteq Links /\ forlorn' \subseteq mailed'
      /\ WithdrawnWereIssued' /\ LastLinkWorks' /\ MailedLinkIsKept'
  <2>1. forlorn \subseteq mailed
    BY DEF LinksInv, PortalTypeOK
  <2> QED
    BY <1>1, <1>5, <2>1, QuietKeepsLinks
<1> QED
  BY <1>1, <1>6, <1>7 DEF LinksInv, PortalTypeOK

LEMMA RevokeKeepsPortal ==
    ASSUME LinksInv, NEW a \in Askers, RevokeLive(a)
    PROVE  LinksInv'
<1>1. PICK q \in request[a] :
        /\ q.at = "asked"
        /\ \A b \in Askers \ {a} : q.seen \cap Hit(b) = {}
        /\ IF q.kind = "REVOKE" /\ q.seen \cap LiveLinks = {}
             THEN EndsPortal(a) /\ withdrawn' = withdrawn \cup q.seen
             ELSE /\ \E new \in IF q.kind = "REVOKE" THEN {{}} ELSE {{l} : l \in Links} :
                       /\ \A l \in new :
                            /\ link[l] = "NONE" /\ l \notin mailed
                            /\ \A b \in Askers : l \notin Generated(b)
                       /\ Does(a, [q EXCEPT !.at = "revoked", !.new = new,
                                            !.hit = q.seen \cap LiveLinks])
                  /\ UNCHANGED withdrawn
  BY DEF RevokeLive
<1>2. UNCHANGED <<link, latest, mailed, forlorn>>
  BY DEF RevokeLive
<1>3. /\ q \in Transactions /\ RequestFits(q)
      /\ request[a] = {q} /\ Inserted(a) = {}
      /\ forlorn \subseteq mailed
  BY <1>1, TransactionIs DEF LinksInv, PortalTypeOK, RequestsFit
<1>4. \A b \in Askers \ {a} : \A p \in request[b] :
        p.hit = Hit(b) /\ p.new = Generated(b) /\ RequestFits(p) /\ p \in Transactions
  BY TransactionIs DEF LinksInv, RequestsFit
<1>5. PICK t \in SUBSET Transactions :
        /\ \A x, y \in t : x = y
        /\ \A x \in t : RequestFits(x)
        /\ \A b \in Askers \ {a} : \A p \in request[b], x \in t : Disjoint(p, x)
        /\ request' = [request EXCEPT ![a] = t]
  <2>1. CASE q.kind = "REVOKE" /\ q.seen \cap LiveLinks = {}
    BY <1>1, <2>1 DEF EndsPortal
  <2>2. CASE ~(q.kind = "REVOKE" /\ q.seen \cap LiveLinks = {})
    <3>1. PICK new \in IF q.kind = "REVOKE" THEN {{}} ELSE {{l} : l \in Links} :
            /\ \A l \in new :
                 link[l] = "NONE" /\ \A b \in Askers : l \notin Generated(b)
            /\ Does(a, [q EXCEPT !.at = "revoked", !.new = new,
                                 !.hit = q.seen \cap LiveLinks])
      BY <1>1, <2>2
    <3> DEFINE x == [q EXCEPT !.at = "revoked", !.new = new, !.hit = q.seen \cap LiveLinks]
    <3>2. new \subseteq Links
      BY <3>1
    <3>3. /\ x \in Transactions /\ x.at = "revoked" /\ x.new = new /\ x.kind = q.kind
          /\ x.hit = q.seen \cap LiveLinks /\ x.seen = q.seen
      BY <1>3, <3>2 DEF Transactions
    <3>4. RequestFits(x)
      BY <1>3, <3>1, <3>3 DEF RequestFits
    <3>5. \A b \in Askers \ {a} : \A p \in request[b] : Disjoint(p, x)
      <4> TAKE b \in Askers \ {a}
      <4> TAKE p \in request[b]
      <4>1. p.hit \cap x.hit = {} /\ p.new \cap x.new = {}
        <5>1. q.seen \cap Hit(b) = {}
          BY <1>1
        <5>2. \A l \in new : l \notin Generated(b)
          BY <3>1
        <5>3. p.hit = Hit(b) /\ p.new = Generated(b)
          BY <1>4
        <5> HIDE DEF x
        <5> QED
          BY <3>3, <5>1, <5>2, <5>3
      <4>2. p.at = "inserted" => x.hit = {}
        BY <1>4, <3>3, <4>1 DEF RequestFits
      <4> QED
        BY <3>3, <4>1, <4>2 DEF Disjoint
    <3> QED
      <4>1. request' = [request EXCEPT ![a] = {x}]
        BY <3>1 DEF Does
      <4>2. {x} \in SUBSET Transactions
        BY <3>3
      <4> HIDE DEF x
      <4> QED
        BY <3>4, <3>5, <4>1, <4>2
  <2> QED
    BY <2>1, <2>2
<1>6. \A b \in Askers : Inserted(b) \subseteq Inserted(b)'
  <2>1. \A b \in Askers \ {a} : request'[b] = request[b]
    BY <1>5 DEF LinksInv, PortalTypeOK
  <2> QED
    BY <1>3, <2>1 DEF Inserted
<1>7. \A l \in q.seen \ LiveLinks : l \in Links /\ link[l] = "REVOKED"
  BY <1>3 DEF RequestFits, LiveLinks, Transactions, LinksInv, PortalTypeOK
<1>8. /\ latest' \subseteq Links /\ withdrawn' \subseteq Links
      /\ mailed' \subseteq Links /\ forlorn' \subseteq mailed'
      /\ WithdrawnWereIssued' /\ LastLinkWorks' /\ MailedLinkIsKept'
  <2>1. withdrawn' = withdrawn \/ (withdrawn' = withdrawn \cup q.seen /\ q.seen \cap LiveLinks = {})
    BY <1>1
  <2> QED
    BY <1>2, <1>3, <1>6, <1>7, <2>1, QuietKeepsLinks
<1>10. /\ request' \in [Askers -> SUBSET Transactions]
       /\ \A b \in Askers : \A x, y \in request'[b] : x = y
       /\ RequestsFit' /\ RequestsApart'
  BY <1>2, <1>5, GoingOnKeepsRequests
<1> QED
  BY <1>2, <1>8, <1>10 DEF LinksInv, PortalTypeOK

LEMMA AddKeepsPortal ==
    ASSUME LinksInv, NEW a \in Askers, AddLink(a)
    PROVE  LinksInv'
<1>1. PICK q \in request[a] : q.at = "revoked" /\ q.kind # "REVOKE" /\ FlushLink(a, q)
  BY DEF AddLink
<1>2. UNCHANGED <<link, latest, withdrawn, mailed, forlorn>>
  BY DEF AddLink
<1>3. q \in Transactions /\ RequestFits(q) /\ request[a] = {q} /\ Inserted(a) = {}
  BY <1>1, TransactionIs DEF LinksInv, RequestsFit
<1>4. \A b \in Askers \ {a} : \A p \in request[b] :
        p.hit = {} /\ p.at # "inserted" /\ Disjoint(p, q)
  <2> TAKE b \in Askers \ {a}
  <2> TAKE p \in request[b]
  <2>1. /\ p.hit = Hit(b) /\ RequestFits(p) /\ p \in Transactions
        /\ Inserted(b) = IF p.at = "inserted" THEN p.new ELSE {}
    BY TransactionIs DEF LinksInv, RequestsFit
  <2>2. Hit(b) = {} /\ Inserted(b) = {}
    BY <1>1 DEF FlushLink
  <2>3. p.at = "inserted" => p.new # {}
    BY <2>1 DEF RequestFits
  <2>4. Disjoint(p, q)
    BY DEF LinksInv, RequestsApart
  <2> QED
    BY <2>1, <2>2, <2>3, <2>4
<1> DEFINE x == [q EXCEPT !.at = "inserted"]
<1>5. /\ x \in Transactions /\ x.at = "inserted" /\ x.new = q.new /\ x.hit = q.hit
      /\ x.seen = q.seen /\ x.kind = q.kind
  BY <1>3 DEF Transactions
<1>6. \/ request' = [request EXCEPT ![a] = {}]
      \/ request' = [request EXCEPT ![a] = {x}] /\ LiveLinks \subseteq q.hit
  BY <1>1 DEF FlushLink, Inserts, Does, EndsPortal
<1>7. \A b \in Askers \ {a} : \A p \in request[b] : Disjoint(p, x)
  BY <1>4, <1>5 DEF Disjoint
<1>8. LiveLinks \subseteq q.hit => RequestFits(x)
  BY <1>1, <1>3, <1>5 DEF RequestFits
<1> HIDE DEF x
<1>9. /\ request' \in [Askers -> SUBSET Transactions]
      /\ \A b \in Askers : \A y, z \in request'[b] : y = z
      /\ RequestsFit' /\ RequestsApart'
  <2>1. CASE request' = [request EXCEPT ![a] = {}]
    BY <1>2, <2>1, GoingOnKeepsRequests
  <2>2. CASE request' = [request EXCEPT ![a] = {x}] /\ LiveLinks \subseteq q.hit
    <3> QED
      BY <1>2, <1>5, <1>7, <1>8, <2>2, OneGoesOn
  <2> QED
    BY <1>6, <2>1, <2>2
<1>10. \A b \in Askers : Inserted(b) \subseteq Inserted(b)'
  <2>1. \A b \in Askers \ {a} : request'[b] = request[b]
    BY <1>6 DEF LinksInv, PortalTypeOK
  <2> QED
    BY <1>3, <2>1 DEF Inserted
<1>11. /\ latest' \subseteq Links /\ withdrawn' \subseteq Links
       /\ mailed' \subseteq Links /\ forlorn' \subseteq mailed'
       /\ WithdrawnWereIssued' /\ LastLinkWorks' /\ MailedLinkIsKept'
  <2>1. forlorn \subseteq mailed
    BY DEF LinksInv, PortalTypeOK
  <2> QED
    BY <1>2, <1>10, <2>1, QuietKeepsLinks
<1> QED
  BY <1>2, <1>9, <1>11 DEF LinksInv, PortalTypeOK

LEMMA MailKeepsPortal ==
    ASSUME LinksInv, NEW a \in Askers, MailLink(a)
    PROVE  LinksInv'
<1>1. PICK q \in request[a] :
        /\ q.at = "inserted"
        /\ request' = [request EXCEPT ![a] = {[q EXCEPT !.told = TRUE]}]
        /\ mailed' \in {mailed, mailed \cup q.new}
  BY DEF MailLink, MayMail, Does
<1>2. UNCHANGED <<link, latest, withdrawn, forlorn>>
  BY DEF MailLink
<1>3. /\ q \in Transactions /\ RequestFits(q) /\ request[a] = {q}
      /\ Inserted(a) = q.new
  BY <1>1, TransactionIs DEF LinksInv, RequestsFit
<1> DEFINE x == [q EXCEPT !.told = TRUE]
<1>4. /\ x \in Transactions /\ x.at = q.at /\ x.new = q.new /\ x.hit = q.hit
      /\ x.seen = q.seen /\ x.kind = q.kind
  BY <1>3 DEF Transactions
<1>5. RequestFits(x) /\ \A b \in Askers \ {a} : \A p \in request[b] : Disjoint(p, x)
  <2>1. \A b \in Askers \ {a} : \A p \in request[b] : Disjoint(p, q)
    BY DEF LinksInv, RequestsApart
  <2> QED
    BY <1>3, <1>4, <2>1 DEF RequestFits, Disjoint
<1>6. request' = [request EXCEPT ![a] = {x}] /\ {x} \in SUBSET Transactions
  BY <1>1, <1>4
<1> HIDE DEF x
<1>7. /\ request' \in [Askers -> SUBSET Transactions]
      /\ \A b \in Askers : \A y, z \in request'[b] : y = z
      /\ RequestsFit' /\ RequestsApart'
  BY <1>2, <1>4, <1>5, <1>6, OneGoesOn
<1>8. \A b \in Askers : Inserted(b)' = Inserted(b)
  <2>1. request'[a] = {x} /\ \A b \in Askers \ {a} : request'[b] = request[b]
    BY <1>6 DEF LinksInv, PortalTypeOK
  <2>2. Inserted(a)' = q.new
    BY <1>1, <1>4, <2>1 DEF Inserted
  <2> QED
    BY <1>3, <2>1, <2>2 DEF Inserted
<1>9. MailedLinkIsKept'
  BY <1>1, <1>2, <1>3, <1>8 DEF LinksInv, MailedLinkIsKept
<1>10. q.new \subseteq Links
  BY <1>3 DEF Transactions
<1>11. WithdrawnWereIssued' /\ LastLinkWorks'
  BY <1>2 DEF LinksInv, WithdrawnWereIssued, LastLinkWorks, LiveLinks
<1> QED
  BY <1>1, <1>2, <1>7, <1>9, <1>10, <1>11 DEF LinksInv, PortalTypeOK

LEMMA CommitKeepsPortal ==
    ASSUME LinksInv, NEW a \in Askers, CommitPortal(a)
    PROVE  LinksInv'
<1>1. PICK q \in request[a] :
        /\ q.at = (IF q.kind = "REVOKE" THEN "revoked" ELSE "inserted")
        /\ link' = Committed(q)
        /\ latest' = IF q.kind = "REVOKE" THEN latest ELSE q.new
        /\ withdrawn' = IF q.kind = "REVOKE" THEN withdrawn \cup q.seen ELSE withdrawn
  BY DEF CommitPortal
<1>2. request' = [request EXCEPT ![a] = {}] /\ UNCHANGED <<mailed, forlorn>>
  BY DEF CommitPortal, EndsPortal
<1>3. /\ q \in Transactions /\ RequestFits(q) /\ request[a] = {q}
      /\ Inserted(a) = IF q.at = "inserted" THEN q.new ELSE {}
  BY <1>1, TransactionIs DEF LinksInv, RequestsFit
<1>4. /\ q.seen \subseteq Links /\ q.hit \subseteq Links /\ q.new \subseteq Links
      /\ q.hit = q.seen \cap LiveLinks
      /\ \A l \in q.new : link[l] = "NONE"
      /\ q.kind = "REVOKE" => q.new = {}
      /\ q.kind # "REVOKE" => LiveLinks \subseteq q.hit
  BY <1>1, <1>3 DEF Transactions, RequestFits
<1>5. \A l \in Links :
        link'[l] = IF l \in q.new THEN "LIVE" ELSE IF l \in q.hit THEN "REVOKED" ELSE link[l]
  BY <1>1 DEF Committed
<1>6. /\ request \in [Askers -> SUBSET Transactions]
      /\ link \in [Links -> {"NONE", "LIVE", "REVOKED"}]
      /\ latest \subseteq Links /\ withdrawn \subseteq Links
      /\ mailed \subseteq Links /\ forlorn \subseteq mailed
  BY DEF LinksInv, PortalTypeOK
<1>7. LiveLinks' = q.new \cup (LiveLinks \ q.hit)
  BY <1>4, <1>5, <1>6 DEF LiveLinks
<1>8. \A l \in Links : link[l] # "NONE" => link'[l] # "NONE"
  BY <1>5
<1>9. PortalTypeOK'
  <2>1. link' \in [Links -> {"NONE", "LIVE", "REVOKED"}]
    BY <1>1, <1>6 DEF Committed
  <2>2. /\ request' \in [Askers -> SUBSET Transactions]
        /\ \A b \in Askers : \A x, y \in request'[b] : x = y
    BY <1>2, <1>6 DEF LinksInv, PortalTypeOK
  <2>3. latest' \subseteq Links /\ withdrawn' \subseteq Links
    BY <1>1, <1>4, <1>6
  <2> QED
    BY <1>2, <1>6, <2>1, <2>2, <2>3 DEF PortalTypeOK
<1>10. \A b \in Askers : \A p \in request'[b] : b # a /\ p \in request[b]
  BY <1>2, <1>6
<1>11. RequestsFit'
  <2>1. ASSUME NEW b \in Askers, NEW p \in request'[b]
        PROVE  /\ \A l \in p.seen : link'[l] # "NONE"
               /\ p.at # "asked" => p.hit = p.seen \cap LiveLinks'
               /\ p.at = "inserted" => LiveLinks' \subseteq p.hit
               /\ \A l \in p.new : link'[l] = "NONE"
    <3>1. p \in Transactions /\ RequestFits(p) /\ Disjoint(p, q)
      BY <1>3, <1>10, <2>1 DEF LinksInv, PortalTypeOK, RequestsFit, RequestsApart
    <3>2. p.seen \subseteq Links /\ p.new \subseteq Links
      BY <3>1 DEF Transactions
    <3>3. \A l \in p.seen : link[l] # "NONE"
      BY <3>1 DEF RequestFits
    <3>4. p.seen \cap q.new = {} /\ p.new \cap q.new = {} /\ p.hit \cap q.hit = {}
      BY <1>4, <3>1, <3>3 DEF Disjoint
    <3>5. \A l \in p.new : link[l] = "NONE" /\ l \notin q.hit
      BY <1>4, <3>1, <3>2 DEF RequestFits, LiveLinks
    <3>6. p.at # "asked" => p.hit = p.seen \cap LiveLinks'
      BY <1>7, <3>1, <3>4 DEF RequestFits
    <3>7. p.at = "inserted" => LiveLinks' \subseteq p.hit
      BY <1>1, <1>4, <1>7, <3>1 DEF RequestFits, Disjoint
    <3> QED
      BY <1>5, <1>8, <3>2, <3>3, <3>4, <3>5, <3>6, <3>7
  <2>2. \A b \in Askers : \A p \in request'[b] : RequestFits(p)
    BY <1>10 DEF LinksInv, RequestsFit
  <2> QED
    BY <2>1, <2>2 DEF RequestsFit, RequestFits
<1>12. RequestsApart'
  <2>1. \A b, c \in Askers : b # c =>
          \A x \in request'[b], y \in request'[c] : Disjoint(x, y)
    BY <1>10 DEF LinksInv, RequestsApart
  <2> QED
    BY <2>1 DEF RequestsApart, Disjoint
<1>13. WithdrawnWereIssued'
  <2>1. \A l \in withdrawn \cup q.seen : l \in Links /\ link[l] # "NONE"
    BY <1>3, <1>4, <1>6 DEF LinksInv, WithdrawnWereIssued, RequestFits
  <2> QED
    BY <1>1, <1>8, <2>1 DEF WithdrawnWereIssued
<1>14. LastLinkWorks'
  <2>1. LiveLinks = latest \ withdrawn
    BY DEF LinksInv, LastLinkWorks
  <2>2. q.new \cap withdrawn = {}
    BY <1>4 DEF LinksInv, WithdrawnWereIssued
  <2>3. CASE q.kind = "REVOKE"
    BY <1>1, <1>4, <1>7, <2>1, <2>3 DEF LastLinkWorks
  <2>4. CASE q.kind # "REVOKE"
    BY <1>1, <1>4, <1>7, <2>2, <2>4 DEF LastLinkWorks
  <2> QED
    BY <2>3, <2>4
<1>15. MailedLinkIsKept'
  <2>1. \A b \in Askers \ {a} : Inserted(b)' = Inserted(b)
    BY <1>2, <1>6 DEF Inserted
  <2>2. \A l \in Inserted(a) : link'[l] # "NONE"
    BY <1>3, <1>4, <1>5
  <2>3. \A l \in mailed : link'[l] # "NONE" \/ l \in forlorn \/ \E b \in Askers \ {a} : l \in Inserted(b)
    BY <1>6, <1>8, <2>2 DEF LinksInv, MailedLinkIsKept
  <2> QED
    BY <1>2, <2>1, <2>3 DEF MailedLinkIsKept
<1> QED
  BY <1>9, <1>11, <1>12, <1>13, <1>14, <1>15 DEF LinksInv

LEMMA FailureKeepsPortal ==
    ASSUME LinksInv, NEW a \in Askers, PortalFails(a)
    PROVE  LinksInv'
<1>1. /\ request' = [request EXCEPT ![a] = {}]
      /\ forlorn' = forlorn \cup (mailed \cap Generated(a))
      /\ UNCHANGED <<link, latest, withdrawn, mailed>>
  BY DEF PortalFails, EndsPortal
<1>2. Inserted(a) \subseteq Generated(a)
  BY DEF Inserted, Generated
<1>3. \A b \in Askers \ {a} : Inserted(b)' = Inserted(b)
  BY <1>1 DEF Inserted, LinksInv, PortalTypeOK
<1>4. /\ request' \in [Askers -> SUBSET Transactions]
      /\ \A b \in Askers : \A x, y \in request'[b] : x = y
      /\ RequestsFit' /\ RequestsApart'
  BY <1>1, GoingOnKeepsRequests
<1>5. \A l \in mailed : (\E b \in Askers : l \in Inserted(b)) =>
        l \in forlorn' \/ \E b \in Askers : l \in Inserted(b)'
  BY <1>1, <1>2, <1>3
<1>6. /\ latest' \subseteq Links /\ withdrawn' \subseteq Links
      /\ mailed' \subseteq Links /\ forlorn' \subseteq mailed'
      /\ WithdrawnWereIssued' /\ LastLinkWorks' /\ MailedLinkIsKept'
  <2>1. forlorn \subseteq forlorn' /\ forlorn' \subseteq mailed
    BY <1>1 DEF LinksInv, PortalTypeOK
  <2> QED
    BY <1>1, <1>5, <2>1, QuietKeepsLinks
<1> QED
  BY <1>1, <1>4, <1>6 DEF LinksInv, PortalTypeOK

LEMMA PortalNextKeepsInv ==
    ASSUME LinksInv, [PortalNext]_portalVars
    PROVE  LinksInv'
<1>1. CASE UNCHANGED portalVars
  BY <1>1 DEF portalVars, LinksInv, PortalTypeOK, RequestsFit, RequestsApart, RequestFits,
         Disjoint, WithdrawnWereIssued, LastLinkWorks, LiveLinks, MailedLinkIsKept, Inserted
<1>2. CASE PortalNext
  BY <1>2, AskKeepsPortal, RevokeKeepsPortal, AddKeepsPortal, MailKeepsPortal,
     CommitKeepsPortal, FailureKeepsPortal
     DEF PortalNext
<1> QED
  BY <1>1, <1>2

LEMMA PortalInvAlways == PortalSpec => []LinksInv
<1> QED
  BY PortalInitInv, PortalNextKeepsInv, PTL DEF PortalSpec

(* The rows of the links and the transactions of the requests are what     *)
(* they are declared to be, and a link that is given up was mailed.        *)
THEOREM PortalTypeCorrect == PortalSpec => []PortalTypeOK
<1>1. LinksInv => PortalTypeOK
  BY DEF LinksInv
<1> QED
  BY <1>1, PortalInvAlways, PTL

(* However many requests cross, the link of the stay that works is the one *)
(* issued last, until a revocation that found it ends                      *)
(* (revoke_live_for_reservation and the partial unique index).             *)
THEOREM LastLinkAlwaysWorks == PortalSpec => []LastLinkWorks
<1>1. LinksInv => LastLinkWorks
  BY DEF LinksInv
<1> QED
  BY <1>1, PortalInvAlways, PTL

(* A mailed link is committed, unless its request died after the mail: the *)
(* loser of a race loses before it (SendGuestAccessTokenUseCase).          *)
THEOREM MailedLinkStays == PortalSpec => []MailedLinkIsKept
<1>1. LinksInv => MailedLinkIsKept
  BY DEF LinksInv
<1> QED
  BY <1>1, PortalInvAlways, PTL

-----------------------------------------------------------------------------
(* The reset of the demonstration tenant. *)

(* What a run has in hand, by where it is. *)
RunFits(k) ==
    /\ k.at = "bootstrapped" => k.keys = {} /\ k.put = {}
    /\ Inside(k) => k.keys = photographs
    /\ k.at = "seeding" => Administrators \subseteq Accounts /\ k.staff \subseteq Accounts
    /\ k.at = "sweeping" => k.put = {} /\ k.keys \cap photographs = {}
    /\ k.put \subseteq stored /\ k.put \cap photographs = {}

(* Two runs are not both past the lock, and neither sweeps what the other  *)
(* has put.                                                                *)
Beside(k, j) ==
    /\ k.put \cap j.put = {} /\ k.put \cap j.keys = {} /\ j.put \cap k.keys = {}
    /\ ~(Inside(k) /\ Inside(j))

ResetsFit == \A r \in Resets : \A k \in reset[r] : RunFits(k)
RunsBeside ==
    \A r, s \in Resets : r # s => \A k \in reset[r], j \in reset[s] : Beside(k, j)

(* The object of an upload is nobody else's, and is there. *)
UploadsApart ==
    \A u \in Uploads : \A x \in upload[u] :
        /\ x.key \in stored \ photographs
        /\ \A v \in Uploads \ {u} : \A y \in upload[v] : x.key # y.key
        /\ \A r \in Resets : \A k \in reset[r] : x.key \notin k.keys \cup k.put

DemoInv ==
    DemoTypeOK /\ ResetsFit /\ RunsBeside /\ UploadsApart /\ PhotographsMatchTheStore

LEMMA DemoInitInv == DemoInit => DemoInv
<1> SUFFICES ASSUME DemoInit PROVE DemoInv
  OBVIOUS
<1> QED
  BY DEF DemoInit, DemoInv, DemoTypeOK, ResetsFit, RunsBeside, UploadsApart,
         PhotographsMatchTheStore

(* The objects in hand are those of the records. *)
LEMMA HandsAre ==
    \A o : o \in InHand <=>
        \/ \E r \in Resets : \E k \in reset[r] : o \in k.keys \cup k.put
        \/ \E u \in Uploads : \E x \in upload[u] : o = x.key
<1>1. \A r \in Resets : \A o : o \in Keeping(r) <=> \E k \in reset[r] : o \in k.keys \cup k.put
  BY DEF Keeping
<1>2. \A u \in Uploads : \A o : o \in Holding(u) <=> \E x \in upload[u] : o = x.key
  BY DEF Holding
<1>3. \A o : o \in InHand <=> (\E r \in Resets : o \in Keeping(r)) \/ (\E u \in Uploads : o \in Holding(u))
  BY DEF InHand
<1> QED
  BY <1>1, <1>2, <1>3

(* What is in hand after a step. *)
LEMMA MatchedAfter ==
    ASSUME photographs' \subseteq stored',
           \A o \in stored' :
             \/ o \in photographs' \/ o \in stranded'
             \/ \E r \in Resets : \E k \in reset'[r] : o \in k.keys \cup k.put
             \/ \E u \in Uploads : \E x \in upload'[u] : o = x.key
    PROVE  PhotographsMatchTheStore'
<1>1. \A r \in Resets : \A o : o \in Keeping(r)' <=> \E k \in reset'[r] : o \in k.keys \cup k.put
  BY DEF Keeping
<1>2. \A u \in Uploads : \A o : o \in Holding(u)' <=> \E x \in upload'[u] : o = x.key
  BY DEF Holding
<1>3. \A o : o \in InHand' <=> (\E r \in Resets : o \in Keeping(r)') \/ (\E u \in Uploads : o \in Holding(u)')
  BY DEF InHand
<1> QED
  BY <1>1, <1>2, <1>3 DEF PhotographsMatchTheStore

(* Visitors change accounts only while no run is past the lock. *)
LEMMA AccountsKeepDemo ==
    ASSUME DemoInv, TenantIsFree,
           UNCHANGED <<dataset, photographs, stored, reset, upload, stranded>>,
           account' \in [Addresses -> {"ABSENT", "DECLARED", "ALTERED"}],
           visitors' \in BOOLEAN
    PROVE  DemoInv'
<1>1. DemoTypeOK'
  BY DEF DemoInv, DemoTypeOK
<1>2. ResetsFit'
  BY DEF DemoInv, TenantIsFree, ResetsFit, RunFits, Inside
<1>3. RunsBeside' /\ UploadsApart'
  BY DEF DemoInv, RunsBeside, Beside, Inside, UploadsApart
<1>4. PhotographsMatchTheStore'
  BY DEF DemoInv, PhotographsMatchTheStore, InHand, Keeping, Holding
<1> QED
  BY <1>1, <1>2, <1>3, <1>4 DEF DemoInv

LEMMA VisitorsKeepDemo ==
    ASSUME DemoInv, NEW a \in Addresses, RenameAccount(a) \/ ChangeAccount(a)
    PROVE  DemoInv'
<1>1. /\ TenantIsFree
      /\ UNCHANGED <<dataset, photographs, stored, reset, upload, stranded>>
      /\ account' \in [Addresses -> {"ABSENT", "DECLARED", "ALTERED"}]
      /\ visitors' \in BOOLEAN
  BY DEF RenameAccount, ChangeAccount, DemoInv, DemoTypeOK
<1> QED
  BY <1>1, AccountsKeepDemo

LEMMA PutKeepsDemo ==
    ASSUME DemoInv, NEW u \in Uploads, NEW o \in Objects, PutUpload(u, o)
    PROVE  DemoInv'
<1> DEFINE n == [key |-> o, parent |-> TRUE]
<1>1. /\ upload[u] = {} /\ Fresh(o) /\ stored' = stored \cup {o}
      /\ upload' = [upload EXCEPT ![u] = {n}]
      /\ UNCHANGED <<account, visitors, dataset, photographs, reset, stranded>>
  BY DEF PutUpload
<1>2. n \in DemoUploads /\ n.key = o
  BY DEF DemoUploads
<1> HIDE DEF n
<1>3. \A v \in Uploads : upload'[v] = IF v = u THEN {n} ELSE upload[v]
  BY <1>1 DEF DemoInv, DemoTypeOK
<1>4. /\ o \notin photographs \cup stored \cup stranded
      /\ \A r \in Resets : \A k \in reset[r] : o \notin k.keys \cup k.put
      /\ \A v \in Uploads : \A x \in upload[v] : o # x.key
  BY <1>1, HandsAre DEF Fresh
<1>5. DemoTypeOK'
  <2>1. upload' \in [Uploads -> SUBSET DemoUploads]
    BY <1>1, <1>2 DEF DemoInv, DemoTypeOK
  <2>2. \A v \in Uploads : \A x, y \in upload'[v] : x = y
    BY <1>3 DEF DemoInv, DemoTypeOK
  <2> QED
    BY <1>1, <2>1, <2>2 DEF DemoInv, DemoTypeOK
<1>6. ResetsFit' /\ RunsBeside'
  BY <1>1 DEF DemoInv, ResetsFit, RunFits, RunsBeside, Beside, Inside, Accounts
<1>7. UploadsApart'
  <2>1. ASSUME NEW v \in Uploads, NEW x \in upload'[v]
        PROVE  /\ x.key \in stored' \ photographs'
               /\ \A w \in Uploads \ {v} : \A y \in upload'[w] : x.key # y.key
               /\ \A r \in Resets : \A k \in reset'[r] : x.key \notin k.keys \cup k.put
    <3>1. CASE v = u
      BY <1>1, <1>2, <1>3, <1>4, <2>1, <3>1
    <3>2. CASE v # u
      BY <1>1, <1>2, <1>3, <1>4, <2>1, <3>2 DEF DemoInv, UploadsApart
    <3> QED
      BY <3>1, <3>2
  <2> QED
    BY <2>1 DEF UploadsApart
<1>8. PhotographsMatchTheStore'
  <2>1. o \in stored' => \E v \in Uploads : \E x \in upload'[v] : o = x.key
    BY <1>2, <1>3
  <2>2. \A z \in stored :
          \/ z \in photographs \/ z \in stranded
          \/ \E r \in Resets : \E k \in reset[r] : z \in k.keys \cup k.put
          \/ \E v \in Uploads : \E x \in upload'[v] : z = x.key
    BY <1>1, <1>3, HandsAre DEF DemoInv, PhotographsMatchTheStore
  <2>3. photographs \subseteq stored
    BY DEF DemoInv, PhotographsMatchTheStore
  <2> QED
    BY <1>1, <2>1, <2>2, <2>3, MatchedAfter
<1> QED
  BY <1>5, <1>6, <1>7, <1>8 DEF DemoInv

LEMMA AddKeepsDemo ==
    ASSUME DemoInv, NEW u \in Uploads, AddPhotograph(u)
    PROVE  DemoInv'
<1>1. PICK n \in upload[u] : photographs' = photographs \cup {n.key}
  BY DEF AddPhotograph
<1>2. /\ TenantIsFree /\ upload' = [upload EXCEPT ![u] = {}]
      /\ UNCHANGED <<account, visitors, dataset, stored, reset, stranded>>
  BY DEF AddPhotograph
<1>3. \A v \in Uploads : upload'[v] = IF v = u THEN {} ELSE upload[v]
  BY <1>2 DEF DemoInv, DemoTypeOK
<1>4. /\ n \in DemoUploads /\ n.key \in Objects /\ n.key \in stored
      /\ \A x \in upload[u] : x = n
      /\ \A v \in Uploads \ {u} : \A y \in upload[v] : n.key # y.key
      /\ \A r \in Resets : \A k \in reset[r] : n.key \notin k.keys \cup k.put
  BY <1>1 DEF DemoInv, DemoTypeOK, DemoUploads, UploadsApart
<1>5. DemoTypeOK'
  <2>1. /\ upload' \in [Uploads -> SUBSET DemoUploads]
        /\ \A v \in Uploads : \A x, y \in upload'[v] : x = y
    BY <1>2, <1>3 DEF DemoInv, DemoTypeOK
  <2> QED
    BY <1>1, <1>2, <1>4, <2>1 DEF DemoInv, DemoTypeOK
<1>6. ResetsFit'
  <2>1. ASSUME NEW r \in Resets, NEW k \in reset[r] PROVE RunFits(k)'
    <3>1. ~Inside(k) /\ RunFits(k) /\ n.key \notin k.keys \cup k.put
      BY <1>2, <1>4, <2>1 DEF TenantIsFree, DemoInv, ResetsFit
    <3> QED
      BY <1>1, <1>2, <3>1 DEF RunFits, Inside, Accounts
  <2> QED
    BY <1>2, <2>1 DEF ResetsFit
<1>7. RunsBeside'
  BY <1>2 DEF DemoInv, RunsBeside, Beside, Inside
<1>8. UploadsApart'
  BY <1>1, <1>2, <1>3, <1>4 DEF DemoInv, UploadsApart
<1>9. PhotographsMatchTheStore'
  <2>1. \A z \in stored :
          \/ z \in photographs' \/ z \in stranded
          \/ \E r \in Resets : \E k \in reset[r] : z \in k.keys \cup k.put
          \/ \E v \in Uploads : \E x \in upload'[v] : z = x.key
    BY <1>1, <1>3, <1>4, HandsAre DEF DemoInv, PhotographsMatchTheStore
  <2>2. photographs' \subseteq stored
    BY <1>1, <1>4 DEF DemoInv, PhotographsMatchTheStore
  <2> QED
    BY <1>2, <2>1, <2>2, MatchedAfter
<1> QED
  BY <1>5, <1>6, <1>7, <1>8, <1>9 DEF DemoInv

LEMMA RollbackKeepsDemo ==
    ASSUME DemoInv, NEW u \in Uploads, UploadRollsBack(u)
    PROVE  DemoInv'
<1>1. /\ upload' = [upload EXCEPT ![u] = {}]
      /\ UNCHANGED <<account, visitors, dataset, photographs, reset>>
      /\ \/ stored' = stored \ Holding(u) /\ stranded' = stranded
         \/ stranded' = stranded \cup Holding(u) /\ stored' = stored
  BY DEF UploadRollsBack
<1>2. \A v \in Uploads : upload'[v] = IF v = u THEN {} ELSE upload[v]
  BY <1>1 DEF DemoInv, DemoTypeOK
<1>3. /\ \A o : o \in Holding(u) <=> \E x \in upload[u] : o = x.key
      /\ Holding(u) \subseteq Objects
  BY DEF Holding, DemoInv, DemoTypeOK, DemoUploads
<1>4. /\ Holding(u) \cap photographs = {}
      /\ \A v \in Uploads \ {u} : \A y \in upload[v] : y.key \notin Holding(u)
      /\ \A r \in Resets : \A k \in reset[r] : Holding(u) \cap (k.keys \cup k.put) = {}
  BY <1>3 DEF DemoInv, UploadsApart
<1>5. DemoTypeOK'
  <2>1. /\ upload' \in [Uploads -> SUBSET DemoUploads]
        /\ \A v \in Uploads : \A x, y \in upload'[v] : x = y
    BY <1>1, <1>2 DEF DemoInv, DemoTypeOK
  <2> QED
    BY <1>1, <1>3, <2>1 DEF DemoInv, DemoTypeOK
<1>6. ResetsFit'
  <2>1. ASSUME NEW r \in Resets, NEW k \in reset[r] PROVE RunFits(k)'
    <3>1. RunFits(k) /\ Holding(u) \cap (k.keys \cup k.put) = {}
      BY <1>4, <2>1 DEF DemoInv, ResetsFit
    <3> QED
      BY <1>1, <3>1 DEF RunFits, Inside, Accounts
  <2> QED
    BY <1>1, <2>1 DEF ResetsFit
<1>7. RunsBeside'
  BY <1>1 DEF DemoInv, RunsBeside, Beside, Inside
<1>8. UploadsApart'
  BY <1>1, <1>2, <1>4 DEF DemoInv, UploadsApart
<1>9. PhotographsMatchTheStore'
  <2>1. \A z \in stored' :
          \/ z \in photographs \/ z \in stranded'
          \/ \E r \in Resets : \E k \in reset[r] : z \in k.keys \cup k.put
          \/ \E v \in Uploads : \E x \in upload'[v] : z = x.key
    BY <1>1, <1>2, <1>3, HandsAre DEF DemoInv, PhotographsMatchTheStore
  <2>2. photographs \subseteq stored'
    BY <1>1, <1>4 DEF DemoInv, PhotographsMatchTheStore
  <2> QED
    BY <1>1, <2>1, <2>2, MatchedAfter
<1> QED
  BY <1>5, <1>6, <1>7, <1>8, <1>9 DEF DemoInv

(* A run that goes on, or ends. *)
LEMMA RunMoves ==
    ASSUME DemoInv, NEW r \in Resets, NEW t \in SUBSET DemoRuns, \A p, q \in t : p = q,
           reset' = [reset EXCEPT ![r] = t],
           \A k \in t : RunFits(k)',
           \A s \in Resets \ {r} : \A j \in reset[s] : RunFits(j)',
           \A s \in Resets \ {r} : \A j \in reset[s], k \in t : Beside(k, j)
    PROVE  /\ reset' \in [Resets -> SUBSET DemoRuns]
           /\ \A s \in Resets : \A p, q \in reset'[s] : p = q
           /\ \A s \in Resets : reset'[s] = IF s = r THEN t ELSE reset[s]
           /\ ResetsFit' /\ RunsBeside'
<1>1. reset \in [Resets -> SUBSET DemoRuns]
  BY DEF DemoInv, DemoTypeOK
<1>2. \A s \in Resets : reset'[s] = IF s = r THEN t ELSE reset[s]
  BY <1>1
<1>3. \A s \in Resets : \A p, q \in reset'[s] : p = q
  BY <1>2 DEF DemoInv, DemoTypeOK
<1>4. ResetsFit'
  BY <1>2 DEF ResetsFit
<1>5. \A k, j : Beside(k, j) <=> Beside(j, k)
  BY DEF Beside
<1>6. \A s, q \in Resets : s # q =>
        \A k \in reset'[s], j \in reset'[q] : Beside(k, j)
  BY <1>2, <1>5 DEF DemoInv, RunsBeside
<1>7. RunsBeside'
  BY <1>6 DEF RunsBeside, Beside, Inside
<1> QED
  BY <1>1, <1>2, <1>3, <1>4, <1>7

LEMMA OneRun ==
    ASSUME DemoInv, NEW r \in Resets, NEW k \in reset[r]
    PROVE  /\ k \in DemoRuns /\ RunFits(k) /\ \A j \in reset[r] : j = k
           /\ k.staff \subseteq FieldStaff /\ k.keys \subseteq Objects /\ k.put \subseteq Objects
           /\ \A s \in Resets \ {r} : \A j \in reset[s] : Beside(k, j)
           /\ \A u \in Uploads : \A x \in upload[u] : x.key \notin k.keys \cup k.put
  BY DEF DemoInv, DemoTypeOK, DemoRuns, ResetsFit, RunsBeside, UploadsApart

(* A run that goes on as n, over the same rows and objects, and keeps in   *)
(* hand what k had.                                                        *)
LEMMA RunGoesOn ==
    ASSUME DemoInv, NEW r \in Resets, NEW k \in reset[r], NEW n \in DemoRuns,
           reset' = [reset EXCEPT ![r] = {n}],
           UNCHANGED <<account, visitors, dataset, photographs, stored, upload, stranded>>,
           RunFits(n), n.put = k.put, k.keys \subseteq n.keys,
           \A s \in Resets \ {r} : \A j \in reset[s] : Beside(n, j),
           \A u \in Uploads : \A x \in upload[u] : x.key \notin n.keys
    PROVE  DemoInv'
<1>1. RunFits(n)' /\ \A s \in Resets \ {r} : \A j \in reset[s] : RunFits(j)'
  BY DEF DemoInv, ResetsFit, RunFits, Inside, Accounts
<1> DEFINE t == {n}
<1>2. /\ t \in SUBSET DemoRuns /\ \A p, q \in t : p = q
      /\ reset' = [reset EXCEPT ![r] = t]
      /\ \A j \in t : RunFits(j)'
      /\ \A s \in Resets \ {r} : \A j \in reset[s], p \in t : Beside(p, j)
  BY <1>1, Zenon
<1>3. n \in t /\ \A j \in t : j = n
  OBVIOUS
<1> HIDE DEF t
<1>4. /\ reset' \in [Resets -> SUBSET DemoRuns]
      /\ \A s \in Resets : \A p, q \in reset'[s] : p = q
      /\ \A s \in Resets : reset'[s] = IF s = r THEN t ELSE reset[s]
      /\ ResetsFit' /\ RunsBeside'
  BY <1>1, <1>2, RunMoves
<1>5. DemoTypeOK'
  BY <1>4 DEF DemoInv, DemoTypeOK
<1>6. UploadsApart'
  <2>1. \A u \in Uploads : \A x \in upload[u] : x.key \notin n.keys \cup n.put
    BY OneRun
  <2> QED
    BY <1>3, <1>4, <2>1 DEF DemoInv, UploadsApart
<1>7. PhotographsMatchTheStore'
  <2>1. \A j \in reset[r] : j = k
    BY OneRun
  <2>2. \A z : (\E s \in Resets : \E j \in reset[s] : z \in j.keys \cup j.put) =>
                \E s \in Resets : \E j \in reset'[s] : z \in j.keys \cup j.put
    <3> TAKE z
    <3> SUFFICES ASSUME NEW s \in Resets, NEW j \in reset[s], z \in j.keys \cup j.put
                 PROVE  \E q \in Resets : \E p \in reset'[q] : z \in p.keys \cup p.put
      OBVIOUS
    <3>1. CASE s = r
      <4>1. z \in n.keys \cup n.put /\ n \in reset'[r]
        BY <1>3, <1>4, <2>1, <3>1
      <4> QED
        BY <4>1
    <3>2. CASE s # r
      BY <1>4, <3>2
    <3> QED
      BY <3>1, <3>2
  <2>3. \A z \in stored :
          \/ z \in photographs \/ z \in stranded
          \/ \E s \in Resets : \E j \in reset[s] : z \in j.keys \cup j.put
          \/ \E v \in Uploads : \E x \in upload[v] : z = x.key
    BY HandsAre DEF DemoInv, PhotographsMatchTheStore
  <2>4. photographs \subseteq stored
    BY DEF DemoInv, PhotographsMatchTheStore
  <2> QED
    BY <2>2, <2>3, <2>4, MatchedAfter
<1> QED
  BY <1>4, <1>5, <1>6, <1>7 DEF DemoInv

LEMMA ScopeKeepsDemo ==
    ASSUME DemoInv, NEW r \in Resets, Scope(r)
    PROVE  DemoInv'
<1>1. PICK k \in reset[r] :
        /\ k.at = "bootstrapped"
        /\ reset' = [reset EXCEPT ![r] = {[k EXCEPT !.at = "locked",
               !.staff = FieldStaff \cap Accounts, !.keys = photographs]}]
  BY DEF Scope, RunIs
<1>2. /\ TenantIsFree
      /\ UNCHANGED <<account, visitors, dataset, photographs, stored, upload, stranded>>
  BY DEF Scope
<1> DEFINE n == [k EXCEPT !.at = "locked", !.staff = FieldStaff \cap Accounts,
                          !.keys = photographs]
<1>3. /\ k \in DemoRuns /\ RunFits(k)
      /\ \A s \in Resets \ {r} : \A j \in reset[s] : Beside(k, j) /\ RunFits(j) /\ ~Inside(j)
      /\ \A u \in Uploads : \A x \in upload[u] : x.key \notin photographs
  BY <1>2, OneRun DEF TenantIsFree, DemoInv, ResetsFit, UploadsApart
<1>4. photographs \subseteq Objects
  BY DEF DemoInv, DemoTypeOK
<1>5. /\ n \in DemoRuns /\ n.at = "locked" /\ n.staff = FieldStaff \cap Accounts
      /\ n.keys = photographs /\ n.put = k.put
  BY <1>3, <1>4 DEF DemoRuns
<1> HIDE DEF n
<1>6. RunFits(n) /\ k.keys \subseteq n.keys
  BY <1>1, <1>3, <1>5 DEF RunFits, Inside
<1>7. \A s \in Resets \ {r} : \A j \in reset[s] : Beside(n, j)
  BY <1>1, <1>3, <1>5 DEF RunFits, Beside, Inside
<1>8. reset' = [reset EXCEPT ![r] = {n}]
  BY <1>1 DEF n
<1> QED
  BY <1>2, <1>3, <1>5, <1>6, <1>7, <1>8, RunGoesOn

LEMMA StartKeepsDemo ==
    ASSUME DemoInv, NEW r \in Resets, StartSeed(r)
    PROVE  DemoInv'
<1>1. PICK k \in reset[r] :
        /\ k.at = "locked" /\ Administrators \subseteq Accounts /\ k.staff \subseteq Accounts
        /\ reset' = [reset EXCEPT ![r] = {[k EXCEPT !.at = "seeding"]}]
  BY DEF StartSeed, RunIs
<1>2. UNCHANGED <<account, visitors, dataset, photographs, stored, upload, stranded>>
  BY DEF StartSeed
<1> DEFINE n == [k EXCEPT !.at = "seeding"]
<1>3. /\ k \in DemoRuns /\ RunFits(k)
      /\ \A s \in Resets \ {r} : \A j \in reset[s] : Beside(k, j)
      /\ \A u \in Uploads : \A x \in upload[u] : x.key \notin k.keys
  BY OneRun
<1>4. /\ n \in DemoRuns /\ n.at = "seeding" /\ n.staff = k.staff
      /\ n.keys = k.keys /\ n.put = k.put
  BY <1>3 DEF DemoRuns
<1>5. reset' = [reset EXCEPT ![r] = {n}]
  BY <1>1
<1> HIDE DEF n
<1>6. RunFits(n)
  BY <1>1, <1>3, <1>4 DEF RunFits, Inside
<1>7. \A s \in Resets \ {r} : \A j \in reset[s] : Beside(n, j)
  BY <1>1, <1>3, <1>4 DEF Beside, Inside
<1> QED
  BY <1>2, <1>3, <1>4, <1>5, <1>6, <1>7, RunGoesOn

LEMMA BootstrapKeepsDemo ==
    ASSUME DemoInv, NEW r \in Resets, Bootstrap(r)
    PROVE  DemoInv'
<1> DEFINE n == [at |-> "bootstrapped", staff |-> {}, keys |-> {}, put |-> {}]
           t == {n}
<1>1. /\ reset[r] = {}
      /\ Administrators \subseteq Accounts \/ TenantIsFree
      /\ account' = [a \in Addresses |->
             IF a \in Administrators \ Accounts THEN "DECLARED" ELSE account[a]]
      /\ reset' = [reset EXCEPT ![r] = t]
      /\ UNCHANGED <<visitors, dataset, photographs, stored, upload, stranded>>
  BY DEF Bootstrap, RunIs
<1>2. account' \in [Addresses -> {"ABSENT", "DECLARED", "ALTERED"}] /\ Accounts \subseteq Accounts'
  BY <1>1 DEF DemoInv, DemoTypeOK, Accounts
<1>3. n \in DemoRuns /\ RunFits(n)' /\ n.keys = {} /\ n.put = {} /\ ~Inside(n)
  BY DEF DemoRuns, RunFits, Inside
<1>4. \A s \in Resets \ {r} : \A j \in reset[s] : RunFits(j)' /\ Beside(n, j)
  <2>1. ASSUME NEW s \in Resets, NEW j \in reset[s] PROVE RunFits(j)'
    <3>1. RunFits(j)
      BY <2>1 DEF DemoInv, ResetsFit
    <3> QED
      BY <1>1, <1>2, <3>1 DEF RunFits, Inside
  <2> QED
    BY <1>3, <2>1 DEF Beside
<1>5. /\ t \in SUBSET DemoRuns /\ \A p, q \in t : p = q
      /\ \A j \in t : RunFits(j)'
      /\ \A s \in Resets \ {r} : \A j \in reset[s], p \in t : Beside(p, j)
  BY <1>3, <1>4
<1>6. n \in t /\ \A j \in t : j = n
  OBVIOUS
<1> HIDE DEF n, t
<1>7. /\ reset' \in [Resets -> SUBSET DemoRuns]
      /\ \A s \in Resets : \A p, q \in reset'[s] : p = q
      /\ \A s \in Resets : reset'[s] = IF s = r THEN t ELSE reset[s]
      /\ ResetsFit' /\ RunsBeside'
  BY <1>1, <1>4, <1>5, RunMoves
<1>8. DemoTypeOK'
  BY <1>1, <1>2, <1>7 DEF DemoInv, DemoTypeOK
<1>9. UploadsApart'
  BY <1>1, <1>3, <1>6, <1>7 DEF DemoInv, UploadsApart
<1>10. PhotographsMatchTheStore'
  <2>1. \A z \in stored :
          \/ z \in photographs \/ z \in stranded
          \/ \E s \in Resets : \E j \in reset'[s] : z \in j.keys \cup j.put
          \/ \E v \in Uploads : \E x \in upload[v] : z = x.key
    BY <1>1, <1>7, HandsAre DEF DemoInv, PhotographsMatchTheStore
  <2>2. photographs \subseteq stored
    BY DEF DemoInv, PhotographsMatchTheStore
  <2> QED
    BY <1>1, <2>1, <2>2, MatchedAfter
<1> QED
  BY <1>7, <1>8, <1>9, <1>10 DEF DemoInv

LEMMA PhotoKeepsDemo ==
    ASSUME DemoInv, NEW r \in Resets, NEW o \in Objects, PutDemoPhoto(r, o)
    PROVE  DemoInv'
<1>1. PICK k \in reset[r] :
        /\ k.at = "seeding"
        /\ reset' = [reset EXCEPT ![r] = {[k EXCEPT !.put = @ \cup {o}]}]
  BY DEF PutDemoPhoto, RunIs
<1>2. /\ Fresh(o) /\ stored' = stored \cup {o}
      /\ UNCHANGED <<account, visitors, dataset, photographs, upload, stranded>>
  BY DEF PutDemoPhoto
<1> DEFINE n == [k EXCEPT !.put = @ \cup {o}]
           t == {n}
<1>3. /\ k \in DemoRuns /\ RunFits(k) /\ \A j \in reset[r] : j = k
      /\ \A s \in Resets \ {r} : \A j \in reset[s] : Beside(k, j)
      /\ \A u \in Uploads : \A x \in upload[u] : x.key \notin k.keys \cup k.put
  BY OneRun
<1>4. /\ o \notin photographs \cup stored \cup stranded
      /\ \A s \in Resets : \A j \in reset[s] : o \notin j.keys \cup j.put
      /\ \A v \in Uploads : \A x \in upload[v] : o # x.key
  BY <1>2, HandsAre DEF Fresh
<1>5. /\ n \in DemoRuns /\ n.at = "seeding" /\ n.staff = k.staff
      /\ n.keys = k.keys /\ n.put = k.put \cup {o}
  BY <1>1, <1>3 DEF DemoRuns
<1>6. reset' = [reset EXCEPT ![r] = t] /\ n \in t /\ \A j \in t : j = n
  BY <1>1
<1> HIDE DEF n, t
<1>7. RunFits(n)'
  BY <1>1, <1>2, <1>3, <1>4, <1>5 DEF RunFits, Inside, Accounts
<1>8. \A s \in Resets \ {r} : \A j \in reset[s] : RunFits(j)' /\ Beside(n, j)
  <2>1. ASSUME NEW s \in Resets \ {r}, NEW j \in reset[s] PROVE RunFits(j)'
    <3>1. RunFits(j)
      BY <2>1 DEF DemoInv, ResetsFit
    <3> QED
      BY <1>2, <3>1 DEF RunFits, Inside, Accounts
  <2>2. ASSUME NEW s \in Resets \ {r}, NEW j \in reset[s] PROVE Beside(n, j)
    BY <1>1, <1>3, <1>4, <1>5, <2>2 DEF Beside, Inside
  <2> QED
    BY <2>1, <2>2
<1>9. /\ reset' \in [Resets -> SUBSET DemoRuns]
      /\ \A s \in Resets : \A p, q \in reset'[s] : p = q
      /\ \A s \in Resets : reset'[s] = IF s = r THEN t ELSE reset[s]
      /\ ResetsFit' /\ RunsBeside'
  <2>1. t \in SUBSET DemoRuns /\ \A p, q \in t : p = q
    BY <1>5, <1>6
  <2>2. /\ \A j \in t : RunFits(j)'
        /\ \A s \in Resets \ {r} : \A j \in reset[s], p \in t : Beside(p, j)
    BY <1>6, <1>7, <1>8
  <2> QED
    BY <1>6, <1>8, <2>1, <2>2, RunMoves
<1>10. DemoTypeOK'
  BY <1>2, <1>9 DEF DemoInv, DemoTypeOK
<1>11. UploadsApart'
  BY <1>2, <1>3, <1>4, <1>5, <1>6, <1>9 DEF DemoInv, UploadsApart
<1>12. PhotographsMatchTheStore'
  <2>1. \A z : (\E s \in Resets : \E j \in reset[s] : z \in j.keys \cup j.put) =>
                \E s \in Resets : \E j \in reset'[s] : z \in j.keys \cup j.put
    <3> TAKE z
    <3> SUFFICES ASSUME NEW s \in Resets, NEW j \in reset[s], z \in j.keys \cup j.put
                 PROVE  \E q \in Resets : \E p \in reset'[q] : z \in p.keys \cup p.put
      OBVIOUS
    <3>1. CASE s = r
      <4>1. z \in n.keys \cup n.put /\ n \in reset'[r]
        BY <1>3, <1>5, <1>6, <1>9, <3>1
      <4> QED
        BY <4>1
    <3>2. CASE s # r
      BY <1>9, <3>2
    <3> QED
      BY <3>1, <3>2
  <2>2. \A z \in stored :
          \/ z \in photographs \/ z \in stranded
          \/ \E s \in Resets : \E j \in reset[s] : z \in j.keys \cup j.put
          \/ \E v \in Uploads : \E x \in upload[v] : z = x.key
    BY HandsAre DEF DemoInv, PhotographsMatchTheStore
  <2>3. photographs \subseteq stored
    BY DEF DemoInv, PhotographsMatchTheStore
  <2>4. \E q \in Resets : \E p \in reset'[q] : o \in p.keys \cup p.put
    BY <1>5, <1>6, <1>9
  <2> QED
    BY <1>2, <2>1, <2>2, <2>3, <2>4, MatchedAfter
<1> QED
  BY <1>9, <1>10, <1>11, <1>12 DEF DemoInv

LEMMA CommitKeepsDemo ==
    ASSUME DemoInv, NEW r \in Resets, CommitReset(r)
    PROVE  DemoInv'
<1>1. PICK k \in reset[r] :
        /\ k.at = "seeding" /\ account' = Restored(k) /\ photographs' = k.put
        /\ reset' = [reset EXCEPT ![r] = {[k EXCEPT !.at = "sweeping", !.put = {}]}]
  BY DEF CommitReset, RunIs
<1>2. /\ visitors' = FALSE /\ dataset' = TRUE
      /\ upload' = [u \in Uploads |-> {[x EXCEPT !.parent = FALSE] : x \in upload[u]}]
      /\ UNCHANGED <<stored, stranded>>
  BY DEF CommitReset
<1> DEFINE n == [k EXCEPT !.at = "sweeping", !.put = {}]
           t == {n}
<1>3. /\ k \in DemoRuns /\ RunFits(k) /\ \A j \in reset[r] : j = k
      /\ k.put \subseteq Objects
      /\ \A s \in Resets \ {r} : \A j \in reset[s] : Beside(k, j)
      /\ \A u \in Uploads : \A x \in upload[u] : x.key \notin k.keys \cup k.put
  BY OneRun
<1>4. k.keys = photographs /\ k.put \subseteq stored /\ k.put \cap photographs = {}
  BY <1>1, <1>3 DEF RunFits, Inside
<1>5. /\ n \in DemoRuns /\ n.at = "sweeping" /\ n.keys = k.keys /\ n.put = {}
  BY <1>3 DEF DemoRuns
<1>6. reset' = [reset EXCEPT ![r] = t] /\ n \in t /\ \A j \in t : j = n
  BY <1>1
<1> HIDE DEF n, t
<1>7. RunFits(n)'
  BY <1>1, <1>4, <1>5 DEF RunFits, Inside
<1>8. \A s \in Resets \ {r} : \A j \in reset[s] : RunFits(j)' /\ Beside(n, j)
  <2>1. ASSUME NEW s \in Resets \ {r}, NEW j \in reset[s] PROVE RunFits(j)' /\ Beside(n, j)
    <3>1. RunFits(j) /\ Beside(k, j) /\ ~Inside(j)
      BY <1>1, <1>3, <2>1 DEF DemoInv, ResetsFit, Beside, Inside
    <3>2. RunFits(j)'
      BY <1>1, <1>2, <3>1 DEF RunFits, Inside, Beside
    <3> QED
      BY <1>5, <3>1, <3>2 DEF Beside, Inside
  <2> QED
    BY <2>1
<1>9. /\ reset' \in [Resets -> SUBSET DemoRuns]
      /\ \A s \in Resets : \A p, q \in reset'[s] : p = q
      /\ \A s \in Resets : reset'[s] = IF s = r THEN t ELSE reset[s]
      /\ ResetsFit' /\ RunsBeside'
  <2>1. t \in SUBSET DemoRuns /\ \A p, q \in t : p = q
    BY <1>5, <1>6
  <2>2. /\ \A j \in t : RunFits(j)'
        /\ \A s \in Resets \ {r} : \A j \in reset[s], p \in t : Beside(p, j)
    BY <1>6, <1>7, <1>8
  <2> QED
    BY <1>6, <1>8, <2>1, <2>2, RunMoves
<1>10. /\ upload' \in [Uploads -> SUBSET DemoUploads]
       /\ \A u \in Uploads : \A x, y \in upload'[u] : x = y
       /\ \A u \in Uploads : \A x \in upload'[u] : \E y \in upload[u] : x.key = y.key
       /\ \A u \in Uploads : \A y \in upload[u] : \E x \in upload'[u] : x.key = y.key
  <2> DEFINE Orphan(y) == [y EXCEPT !.parent = FALSE]
  <2>1. \A y \in DemoUploads : Orphan(y) \in DemoUploads /\ Orphan(y).key = y.key
    BY DEF DemoUploads
  <2>2. /\ upload \in [Uploads -> SUBSET DemoUploads]
        /\ \A u \in Uploads : \A x, y \in upload[u] : x = y
    BY DEF DemoInv, DemoTypeOK
  <2>3. upload' = [u \in Uploads |-> {Orphan(x) : x \in upload[u]}]
    BY <1>2
  <2> HIDE DEF Orphan
  <2>4. upload' \in [Uploads -> SUBSET DemoUploads]
    BY <2>1, <2>2, <2>3
  <2>5. \A u \in Uploads : upload'[u] = {Orphan(x) : x \in upload[u]}
    BY <2>3
  <2>6. \A u \in Uploads : \A x, y \in upload'[u] : x = y
    BY <2>2, <2>5
  <2>7. \A u \in Uploads : \A x \in upload'[u] : \E y \in upload[u] : x.key = y.key
    BY <2>1, <2>2, <2>5
  <2>8. \A u \in Uploads : \A y \in upload[u] : \E x \in upload'[u] : x.key = y.key
    BY <2>1, <2>2, <2>5
  <2> QED
    BY <2>4, <2>6, <2>7, <2>8
<1>11. DemoTypeOK'
  <2>1. account' \in [Addresses -> {"ABSENT", "DECLARED", "ALTERED"}]
    BY <1>1 DEF Restored, DemoInv, DemoTypeOK
  <2> QED
    BY <1>1, <1>2, <1>3, <1>9, <1>10, <2>1 DEF DemoInv, DemoTypeOK
<1>12. UploadsApart'
  <2>1. ASSUME NEW u \in Uploads, NEW x \in upload'[u]
        PROVE  /\ x.key \in stored' \ photographs'
               /\ \A v \in Uploads \ {u} : \A y \in upload'[v] : x.key # y.key
               /\ \A s \in Resets : \A j \in reset'[s] : x.key \notin j.keys \cup j.put
    <3>1. PICK z \in upload[u] : x.key = z.key
      BY <1>10, <2>1
    <3>2. /\ z.key \in stored \ photographs /\ z.key \notin k.keys \cup k.put
          /\ \A v \in Uploads \ {u} : \A y \in upload[v] : z.key # y.key
          /\ \A s \in Resets : \A j \in reset[s] : z.key \notin j.keys \cup j.put
      BY <1>3 DEF DemoInv, UploadsApart
    <3>3. \A v \in Uploads \ {u} : \A y \in upload'[v] : x.key # y.key
      BY <1>10, <3>1, <3>2
    <3>4. \A s \in Resets : \A j \in reset'[s] : x.key \notin j.keys \cup j.put
      BY <1>5, <1>6, <1>9, <3>1, <3>2
    <3> QED
      BY <1>1, <1>2, <3>1, <3>2, <3>3, <3>4
  <2> QED
    BY <2>1 DEF UploadsApart
<1>13. PhotographsMatchTheStore'
  <2>1. \A z \in stored :
          \/ z \in k.put \/ z \in stranded
          \/ \E s \in Resets : \E j \in reset'[s] : z \in j.keys \cup j.put
          \/ \E v \in Uploads : \E x \in upload'[v] : z = x.key
    <3> SUFFICES ASSUME NEW z \in stored, z \notin k.put, z \notin stranded,
                        ~\E v \in Uploads : \E x \in upload'[v] : z = x.key
                 PROVE  \E s \in Resets : \E j \in reset'[s] : z \in j.keys \cup j.put
      OBVIOUS
    <3>1. CASE z \in photographs
      BY <1>4, <1>5, <1>6, <1>9, <3>1
    <3>2. CASE z \notin photographs
      <4>1. PICK s \in Resets : \E j \in reset[s] : z \in j.keys \cup j.put
        BY <1>10, <3>2, HandsAre DEF DemoInv, PhotographsMatchTheStore
      <4>2. s # r
        BY <1>3, <1>4, <3>2, <4>1
      <4> QED
        BY <1>9, <4>1, <4>2
    <3> QED
      BY <3>1, <3>2
  <2> QED
    BY <1>1, <1>2, <1>4, <2>1, MatchedAfter
<1> QED
  BY <1>9, <1>11, <1>12, <1>13 DEF DemoInv

(* A run that is over: what it had in hand and was not stored for the rows *)
(* is left behind.                                                         *)
LEMMA RunOverKeepsDemo ==
    ASSUME DemoInv, NEW r \in Resets, ResetFails(r) \/ ResetEnds(r)
    PROVE  DemoInv'
<1>1. PICK k \in reset[r] :
        \/ k.at # "sweeping" /\ stranded' = stranded \cup k.put
        \/ k.at = "sweeping" /\ stranded' = stranded \cup k.keys
  BY DEF ResetFails, ResetEnds
<1> DEFINE t == {}
<1>2. /\ reset' = [reset EXCEPT ![r] = t]
      /\ UNCHANGED <<account, visitors, dataset, photographs, stored, upload>>
  BY DEF ResetFails, ResetEnds
<1>3. /\ k \in DemoRuns /\ RunFits(k) /\ \A j \in reset[r] : j = k
      /\ k.put \subseteq Objects /\ k.keys \subseteq Objects
  BY OneRun
<1>4. \A s \in Resets : \A j \in reset[s] : RunFits(j)'
  BY <1>2 DEF DemoInv, ResetsFit, RunFits, Inside, Accounts
<1>5. t \in SUBSET DemoRuns /\ \A j : j \notin t
  OBVIOUS
<1> HIDE DEF t
<1>6. /\ reset' \in [Resets -> SUBSET DemoRuns]
      /\ \A s \in Resets : \A p, q \in reset'[s] : p = q
      /\ \A s \in Resets : reset'[s] = IF s = r THEN t ELSE reset[s]
      /\ ResetsFit' /\ RunsBeside'
  BY <1>2, <1>4, <1>5, RunMoves
<1>7. DemoTypeOK'
  BY <1>1, <1>2, <1>3, <1>6 DEF DemoInv, DemoTypeOK
<1>8. UploadsApart'
  BY <1>2, <1>5, <1>6 DEF DemoInv, UploadsApart
<1>9. \A o \in k.keys \cup k.put : o \in photographs \/ o \in stranded'
  BY <1>1, <1>3 DEF RunFits, Inside, DemoRuns
<1>10. PhotographsMatchTheStore'
  <2>1. \A z \in stored :
          \/ z \in photographs \/ z \in stranded'
          \/ \E s \in Resets : \E j \in reset'[s] : z \in j.keys \cup j.put
          \/ \E v \in Uploads : \E x \in upload[v] : z = x.key
    <3> SUFFICES ASSUME NEW z \in stored, z \notin photographs, z \notin stranded',
                        ~\E v \in Uploads : \E x \in upload[v] : z = x.key
                 PROVE  \E s \in Resets : \E j \in reset'[s] : z \in j.keys \cup j.put
      OBVIOUS
    <3>1. z \notin stranded
      BY <1>1
    <3>2. PICK s \in Resets : \E j \in reset[s] : z \in j.keys \cup j.put
      BY <3>1, HandsAre DEF DemoInv, PhotographsMatchTheStore
    <3>3. s # r
      BY <1>3, <1>9, <3>2
    <3> QED
      BY <1>6, <3>2, <3>3
  <2>2. photographs \subseteq stored
    BY DEF DemoInv, PhotographsMatchTheStore
  <2> QED
    BY <1>2, <2>1, <2>2, MatchedAfter
<1> QED
  BY <1>6, <1>7, <1>8, <1>10 DEF DemoInv

LEMMA SweepKeepsDemo ==
    ASSUME DemoInv, NEW r \in Resets, NEW o \in Objects, SweepObject(r, o)
    PROVE  DemoInv'
<1>1. PICK k \in reset[r] :
        /\ k.at = "sweeping" /\ o \in k.keys
        /\ reset' = [reset EXCEPT ![r] = {[k EXCEPT !.keys = @ \ {o}]}]
  BY DEF SweepObject, MaySweep, RunIs
<1>2. /\ \/ stored' = stored \ {o} /\ stranded' = stranded
         \/ stranded' = stranded \cup {o} /\ stored' = stored
      /\ UNCHANGED <<account, visitors, dataset, photographs, upload>>
  BY DEF SweepObject
<1> DEFINE n == [k EXCEPT !.keys = @ \ {o}]
           t == {n}
<1>3. /\ k \in DemoRuns /\ RunFits(k) /\ \A j \in reset[r] : j = k
      /\ \A s \in Resets \ {r} : \A j \in reset[s] : Beside(k, j)
      /\ \A u \in Uploads : \A x \in upload[u] : x.key \notin k.keys \cup k.put
  BY OneRun
<1>4. o \notin photographs
  BY <1>1, <1>3 DEF RunFits
<1>5. /\ n \in DemoRuns /\ n.at = "sweeping" /\ n.keys = k.keys \ {o} /\ n.put = k.put
  BY <1>1, <1>3 DEF DemoRuns
<1>6. reset' = [reset EXCEPT ![r] = t] /\ n \in t /\ \A j \in t : j = n
  BY <1>1
<1> HIDE DEF n, t
<1>7. RunFits(n)'
  BY <1>1, <1>2, <1>3, <1>5 DEF RunFits, Inside
<1>8. \A s \in Resets \ {r} : \A j \in reset[s] : RunFits(j)' /\ Beside(n, j)
  <2>1. ASSUME NEW s \in Resets \ {r}, NEW j \in reset[s] PROVE RunFits(j)' /\ Beside(n, j)
    <3>1. RunFits(j) /\ Beside(k, j) /\ o \notin j.put
      BY <1>1, <1>3, <2>1 DEF DemoInv, ResetsFit, Beside
    <3>2. RunFits(j)'
      BY <1>2, <3>1 DEF RunFits, Inside, Accounts
    <3> QED
      BY <1>1, <1>5, <3>1, <3>2 DEF Beside, Inside
  <2> QED
    BY <2>1
<1>9. /\ reset' \in [Resets -> SUBSET DemoRuns]
      /\ \A s \in Resets : \A p, q \in reset'[s] : p = q
      /\ \A s \in Resets : reset'[s] = IF s = r THEN t ELSE reset[s]
      /\ ResetsFit' /\ RunsBeside'
  <2>1. t \in SUBSET DemoRuns /\ \A p, q \in t : p = q
    BY <1>5, <1>6
  <2>2. /\ \A j \in t : RunFits(j)'
        /\ \A s \in Resets \ {r} : \A j \in reset[s], p \in t : Beside(p, j)
    BY <1>6, <1>7, <1>8
  <2> QED
    BY <1>6, <1>8, <2>1, <2>2, RunMoves
<1>10. DemoTypeOK'
  BY <1>2, <1>9 DEF DemoInv, DemoTypeOK
<1>11. UploadsApart'
  <2>1. \A u \in Uploads : \A x \in upload[u] : x.key # o /\ x.key \notin n.keys \cup n.put
    BY <1>1, <1>3, <1>5
  <2> QED
    BY <1>2, <1>6, <1>9, <2>1 DEF DemoInv, UploadsApart
<1>12. PhotographsMatchTheStore'
  <2>1. \A z \in stored' :
          \/ z \in photographs \/ z \in stranded'
          \/ \E s \in Resets : \E j \in reset'[s] : z \in j.keys \cup j.put
          \/ \E v \in Uploads : \E x \in upload[v] : z = x.key
    <3> SUFFICES ASSUME NEW z \in stored', z \notin photographs, z \notin stranded',
                        ~\E v \in Uploads : \E x \in upload[v] : z = x.key
                 PROVE  \E s \in Resets : \E j \in reset'[s] : z \in j.keys \cup j.put
      OBVIOUS
    <3>1. z \in stored /\ z \notin stranded /\ z # o
      BY <1>2
    <3>2. PICK s \in Resets : \E j \in reset[s] : z \in j.keys \cup j.put
      BY <3>1, HandsAre DEF DemoInv, PhotographsMatchTheStore
    <3>3. CASE s = r
      <4>1. n \in reset'[r] /\ z \in n.keys \cup n.put
        BY <1>3, <1>5, <1>6, <1>9, <3>1, <3>2, <3>3
      <4> QED
        BY <4>1
    <3>4. CASE s # r
      BY <1>9, <3>2, <3>4
    <3> QED
      BY <3>3, <3>4
  <2>2. photographs \subseteq stored'
    BY <1>2, <1>4 DEF DemoInv, PhotographsMatchTheStore
  <2> QED
    BY <1>2, <2>1, <2>2, MatchedAfter
<1> QED
  BY <1>9, <1>10, <1>11, <1>12 DEF DemoInv

LEMMA DemoNextKeepsInv ==
    ASSUME DemoInv, [DemoNext]_demoVars
    PROVE  DemoInv'
<1>1. CASE UNCHANGED demoVars
  BY <1>1, SMTT(30) DEF demoVars, DemoInv, DemoTypeOK, ResetsFit, RunFits, RunsBeside, Beside, Inside,
         Accounts, UploadsApart, PhotographsMatchTheStore, InHand, Keeping, Holding
<1>2. CASE \E a \in Addresses : RenameAccount(a) \/ ChangeAccount(a)
  BY <1>2, VisitorsKeepDemo
<1>3. CASE \E u \in Uploads :
             (\E k \in Objects : PutUpload(u, k)) \/ AddPhotograph(u) \/ UploadRollsBack(u)
  BY <1>3, PutKeepsDemo, AddKeepsDemo, RollbackKeepsDemo
<1>4. CASE \E r \in Resets :
             \/ Bootstrap(r) \/ Scope(r) \/ StartSeed(r) \/ CommitReset(r)
             \/ ResetFails(r) \/ ResetEnds(r)
             \/ \E o \in Objects : PutDemoPhoto(r, o) \/ SweepObject(r, o)
  BY <1>4, BootstrapKeepsDemo, ScopeKeepsDemo, StartKeepsDemo, CommitKeepsDemo,
     RunOverKeepsDemo, PhotoKeepsDemo, SweepKeepsDemo
<1> QED
  BY <1>1, <1>2, <1>3, <1>4 DEF DemoNext

LEMMA DemoInvAlways == DemoSpec => []DemoInv
<1> QED
  BY DemoInitInv, DemoNextKeepsInv, PTL DEF DemoSpec

(* The accounts, the rows, the objects and the runs of the demonstration   *)
(* tenant are what they are declared to be.                                *)
THEOREM DemoTypeCorrect == DemoSpec => []DemoTypeOK
<1>1. DemoInv => DemoTypeOK
  BY DEF DemoInv
<1> QED
  BY <1>1, DemoInvAlways, PTL

(* A photo's row has its object, and no object is forgotten but for a      *)
(* failure (sweep_storage, UploadCleaningPhotoUseCase), however runs and   *)
(* uploads overlap.                                                        *)
THEOREM StoreAlwaysMatches == DemoSpec => []PhotographsMatchTheStore
<1>1. DemoInv => PhotographsMatchTheStore
  BY DEF DemoInv
<1> QED
  BY <1>1, DemoInvAlways, PTL

(* A run that commits restores the four accounts (apply_plan and           *)
(* converge_the_demo_passwords): behind the lock nobody undoes, before the *)
(* commit, what the seed has checked.                                      *)
THEOREM ResetAlwaysRestores == DemoSpec => ResetRestoresTheAccounts
<1>1. ASSUME DemoInv, [DemoNext]_demoVars
      PROVE  [\A r \in Resets : CommitReset(r) =>
                 /\ \A a \in Addresses : account'[a] = "DECLARED"
                 /\ ~visitors']_demoVars
  <2> SUFFICES ASSUME NEW r \in Resets, CommitReset(r)
               PROVE  (\A a \in Addresses : account'[a] = "DECLARED") /\ ~visitors'
    OBVIOUS
  <2>1. PICK k \in reset[r] : k.at = "seeding" /\ account' = Restored(k)
    BY DEF CommitReset
  <2>2. Administrators \subseteq Accounts /\ k.staff \subseteq Accounts
    BY <1>1, <2>1, OneRun DEF RunFits
  <2>3. \A a \in Addresses : a \in Accounts \cup (FieldStaff \ k.staff)
    BY <2>2 DEF Addresses
  <2> QED
    BY <2>1, <2>3 DEF Restored, CommitReset
<1> QED
  BY <1>1, DemoInvAlways, PTL DEF DemoSpec, ResetRestoresTheAccounts

=============================================================================
