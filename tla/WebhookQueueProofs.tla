------------------------- MODULE WebhookQueueProofs -------------------------
(***************************************************************************)
(* Proofs about WebhookQueue, for any notices, tenants, providers, runs    *)
(* and budget: the claims, the marks and the bound on the tries.           *)
(***************************************************************************)
EXTENDS WebhookQueue, TLAPS

(* What a run's charges and marks make of the rows. *)
LEMMA RowsMove ==
    ASSUME NEW S \in SUBSET Notices, notice \in [Notices -> Rows]
    PROVE  /\ Charged(S) \in [Notices -> Rows]
           /\ \A n \in Notices :
                /\ Charged(S)[n].stored = notice[n].stored
                /\ Charged(S)[n].processed = notice[n].processed
                /\ Charged(S)[n].attempts =
                     IF n \in S THEN notice[n].attempts + 1 ELSE notice[n].attempts
                /\ Charged(S)[n].due => notice[n].due
  <1> SUFFICES ASSUME NEW n \in Notices
               PROVE  /\ Charged(S)[n] \in Rows
                      /\ Charged(S)[n].stored = notice[n].stored
                      /\ Charged(S)[n].processed = notice[n].processed
                      /\ Charged(S)[n].attempts =
                           IF n \in S THEN notice[n].attempts + 1 ELSE notice[n].attempts
                      /\ Charged(S)[n].due => notice[n].due
    BY DEF Charged
  <1>1. CASE n \in S
    <2>1. Charged(S)[n] = [notice[n] EXCEPT !.attempts = @ + 1, !.due = FALSE]
      BY <1>1 DEF Charged
    <2>2. notice[n] \in Rows /\ notice[n].attempts + 1 \in Nat
      BY DEF Rows
    <2> QED BY <1>1, <2>1, <2>2 DEF Rows
  <1>2. CASE n \notin S
    BY <1>2 DEF Charged
  <1> QED BY <1>1, <1>2

LEMMA MarksMove ==
    ASSUME NEW r \in Runs, NEW S \in SUBSET Notices, TypeOK
    PROVE  /\ Marked(r, S) \in [Notices -> Rows]
           /\ \A n \in Notices :
                /\ Marked(r, S)[n].stored = notice[n].stored
                /\ n \in S => Marked(r, S)[n].processed
                /\ n \notin S => Marked(r, S)[n].processed = notice[n].processed
                /\ n \in pending[r] \ S
                     => Marked(r, S)[n].attempts = notice[n].attempts + 1
                /\ Marked(r, S)[n].attempts >= notice[n].attempts
                /\ Marked(r, S)[n].due => notice[n].due
  <1> DEFINE c == Charged(pending[r])
  <1>1. pending[r] \in SUBSET Notices /\ notice \in [Notices -> Rows]
    BY DEF TypeOK
  <1>2. /\ c \in [Notices -> Rows]
        /\ \A n \in Notices :
             /\ c[n].stored = notice[n].stored
             /\ c[n].processed = notice[n].processed
             /\ c[n].attempts = IF n \in pending[r] THEN notice[n].attempts + 1
                                                    ELSE notice[n].attempts
             /\ c[n].due => notice[n].due
    BY <1>1, RowsMove
  <1> HIDE DEF c
  <1>3. Marked(r, S) = [n \in Notices |->
            IF n \in S THEN [notice[n] EXCEPT !.processed = TRUE] ELSE c[n]]
    BY DEF Marked, c
  <1> SUFFICES ASSUME NEW n \in Notices
               PROVE  /\ Marked(r, S)[n] \in Rows
                      /\ Marked(r, S)[n].stored = notice[n].stored
                      /\ n \in S => Marked(r, S)[n].processed
                      /\ n \notin S => Marked(r, S)[n].processed = notice[n].processed
                      /\ n \in pending[r] \ S
                           => Marked(r, S)[n].attempts = notice[n].attempts + 1
                      /\ Marked(r, S)[n].attempts >= notice[n].attempts
                      /\ Marked(r, S)[n].due => notice[n].due
    BY <1>3
  <1>4. notice[n].attempts \in Nat
    BY <1>1 DEF Rows
  <1>5. CASE n \in S
    <2>1. Marked(r, S)[n] = [notice[n] EXCEPT !.processed = TRUE]
      BY <1>3, <1>5
    <2>2. notice[n] \in Rows
      BY <1>1
    <2>3. /\ Marked(r, S)[n] \in Rows /\ Marked(r, S)[n].processed
          /\ Marked(r, S)[n].stored = notice[n].stored
          /\ Marked(r, S)[n].attempts = notice[n].attempts
          /\ Marked(r, S)[n].due => notice[n].due
      BY <2>1, <2>2 DEF Rows
    <2>4. Marked(r, S)[n].attempts >= notice[n].attempts
      BY <1>4, <2>3
    <2> QED BY <1>5, <2>3, <2>4
  <1>6. CASE n \notin S
    <2>1. Marked(r, S)[n] = c[n]
      BY <1>3, <1>6
    <2> QED BY <1>2, <1>4, <1>6, <2>1
  <1> QED BY <1>5, <1>6

LEMMA LandedGroups ==
    ASSUME TypeOK, NEW r \in Runs
    PROVE  UNION {Group(r, p) : p \in landed[r]} \in SUBSET Notices
  BY DEF TypeOK, Group, Owed

(* Charges keep the rows, and every notice received stays received.        *)
LEMMA ChargesKeepRows ==
    ASSUME TypeOK, NEW S \in SUBSET Notices, notice' = Charged(S)
    PROVE  notice' \in [Notices -> Rows] /\ Received \subseteq Received'
<1>1. notice \in [Notices -> Rows]
  BY DEF TypeOK
<1>2. notice' \in [Notices -> Rows] /\ \A n \in Notices : notice'[n].stored = notice[n].stored
  BY <1>1, RowsMove
<1> QED BY <1>2 DEF Received

(* A re-read changes what is left to re-read, what landed and what is owed *)
(* to the charges.                                                         *)
LEMMA RereadsKeepTypes ==
    ASSUME TypeOK, NEW r \in Runs, NEW p \in Providers, Rereads(r, p),
           notice' \in [Notices -> Rows], Received \subseteq Received',
           NEW S \in SUBSET batch[r], pending' = [pending EXCEPT ![r] = S],
           landed' = landed \/ landed' = [landed EXCEPT ![r] = @ \cup {p}],
           reread' \subseteq Notices
    PROVE  TypeOK'
<1>1. /\ pc[r] = "tenant" /\ todo' = [todo EXCEPT ![r] = @ \ {p}]
      /\ UNCHANGED <<pc, batch, tenant, endpoint, portfolio, expected, claims, lapsed, deaths>>
  BY DEF Rereads
<1>2. /\ todo' \in [Runs -> SUBSET Providers] /\ pending' \in [Runs -> SUBSET Notices]
      /\ landed' \in [Runs -> SUBSET Providers]
      /\ pending'[r] \subseteq batch[r]
      /\ \A q \in Runs \ {r} :
           todo'[q] = todo[q] /\ landed'[q] = landed[q] /\ pending'[q] = pending[q]
  BY <1>1 DEF TypeOK
<1> QED BY <1>1, <1>2 DEF TypeOK

(* How a run ends its work for a tenant, whatever becomes of the rows. *)
LEMMA ClosingKeepsTypes ==
    ASSUME TypeOK, NEW r \in Runs, ClosesTenant(r), notice' \in [Notices -> Rows],
           Received \subseteq Received'
    PROVE  TypeOK'
  BY DEF TypeOK, ClosesTenant, Closed, history, Owed

-----------------------------------------------------------------------------
(* The types of the queue and of its runs; what a run owes was received.   *)
THEOREM QueueTypeCorrect == Spec => []TypeOK
<1>1. Init => TypeOK
  <2> SUFFICES ASSUME Init PROVE TypeOK
    OBVIOUS
  <2>1. notice \in [Notices -> Rows]
    <3>1. [stored |-> FALSE, processed |-> FALSE, attempts |-> 0, due |-> TRUE] \in Rows
      BY DEF Rows
    <3> QED BY <3>1 DEF Init
  <2>2. deaths \in 0..MaxDeaths
    BY QueueAssumption DEF Init
  <2>3. /\ endpoint \in [Notices -> [tenant : Tenants, provider : Providers]]
        /\ portfolio \subseteq Destinations
    BY QueueAssumption DEF Init
  <2> QED BY <2>1, <2>2, <2>3 DEF Init, TypeOK
<1>2. TypeOK /\ [Next]_vars => TypeOK'
  <2> SUFFICES ASSUME TypeOK, [Next]_vars PROVE TypeOK'
    OBVIOUS
  <2>1. CASE UNCHANGED vars
    BY <2>1 DEF TypeOK, Received, vars, runVars, history
  <2>2. ASSUME NEW n \in Notices, Receive(n) PROVE TypeOK'
    <3>1. notice' \in [Notices -> Rows]
      BY <2>2, ZenonT(60) DEF TypeOK, Rows, Receive
    <3>2. Received \subseteq Received'
      BY <2>2 DEF TypeOK, Rows, Received, Receive
    <3>3. expected' \subseteq Notices
      BY <2>2 DEF TypeOK, Receive
    <3> QED BY <2>2, <3>1, <3>2, <3>3 DEF TypeOK, Receive, runVars
  <2>3. ASSUME NEW n \in Notices, ComesDue(n) PROVE TypeOK'
    <3>1. notice' \in [Notices -> Rows]
      BY <2>3, ZenonT(60) DEF TypeOK, Rows, ComesDue, Due
    <3>2. Received \subseteq Received'
      BY <2>3 DEF TypeOK, Rows, Received, ComesDue, Due
    <3>3. lapsed' \subseteq Notices
      BY <2>3 DEF TypeOK, ComesDue, Due
    <3> QED BY <2>3, <3>1, <3>2, <3>3 DEF TypeOK, ComesDue, Due, runVars
  <2>4. ASSUME NEW r \in Runs, Select(r) PROVE TypeOK'
    BY <2>4, QueueAssumption DEF TypeOK, Received, Select, Selectable, history
  <2>5. ASSUME NEW r \in Runs, Lease(r) PROVE TypeOK'
    <3>1. notice' \in [Notices -> Rows]
      BY <2>5, ZenonT(60) DEF TypeOK, Rows, Lease, Claims
    <3>2. Received \subseteq Received'
      BY <2>5 DEF TypeOK, Rows, Received, Lease, Claims
    <3>3. claims' \in [Notices -> Nat]
      BY <2>5 DEF TypeOK, Lease, Claims
    <3> DEFINE won == batch[r] \cap Selectable
    <3>4. /\ pc[r] = "selected" /\ won \subseteq batch[r]
          /\ batch' = [batch EXCEPT ![r] = won]
          /\ pc' = [pc EXCEPT ![r] = IF won = {} THEN "idle" ELSE "working"]
          /\ UNCHANGED <<tenant, todo, landed, pending, endpoint, portfolio, expected, lapsed,
                         reread, deaths>>
      BY <2>5 DEF Lease, Claims
    <3>5. pending[r] = {}
      BY <3>4 DEF TypeOK
    <3> HIDE DEF won
    <3> QED BY <3>1, <3>2, <3>3, <3>4, <3>5 DEF TypeOK
  <2>6. ASSUME NEW r \in Runs, NEW t \in Tenants, OpenTenant(r, t) PROVE TypeOK'
    BY <2>6, QueueAssumption DEF TypeOK, Received, OpenTenant, Owed, history
  <2>0. /\ \A r \in Runs : pending[r] \in SUBSET Notices /\ pending[r] \subseteq batch[r]
        /\ \A r \in Runs, p \in Providers : Group(r, p) \subseteq batch[r]
        /\ \A r \in Runs, p \in Providers : Group(r, p) \subseteq Notices
        /\ reread \subseteq Notices
    BY DEF TypeOK, Group, Owed
  <2>7. ASSUME NEW r \in Runs, NEW p \in Providers, RereadLands(r, p) PROVE TypeOK'
    <3>1. notice' \in [Notices -> Rows] /\ Received \subseteq Received'
      BY <2>0, <2>7, ChargesKeepRows DEF RereadLands, CommitsCharges
    <3>2. /\ Rereads(r, p) /\ pending' = [pending EXCEPT ![r] = {}]
          /\ landed' = [landed EXCEPT ![r] = @ \cup {p}] /\ reread' \subseteq Notices
      BY <2>0, <2>7 DEF RereadLands
    <3> QED BY <3>1, <3>2, RereadsKeepTypes
  <2>8. ASSUME NEW r \in Runs, NEW p \in Providers, RereadFails(r, p) PROVE TypeOK'
    <3>1. notice' \in [Notices -> Rows] /\ Received \subseteq Received'
      BY <2>0, <2>8, ChargesKeepRows DEF RereadFails, CommitsCharges
    <3>2. /\ Rereads(r, p) /\ pending' = [pending EXCEPT ![r] = Group(r, p)]
          /\ landed' = landed /\ reread' = reread
      BY <2>8 DEF RereadFails
    <3> QED BY <2>0, <3>1, <3>2, RereadsKeepTypes
  <2>9. ASSUME NEW r \in Runs, NEW p \in Providers, RereadIsAmbiguous(r, p) PROVE TypeOK'
    <3>1. notice' \in [Notices -> Rows] /\ Received \subseteq Received'
      BY <2>9 DEF RereadIsAmbiguous, TypeOK, Received
    <3> DEFINE S == pending[r] \cup Group(r, p)
    <3>2. S \in SUBSET batch[r]
      BY <2>0
    <3>3. /\ Rereads(r, p) /\ pending' = [pending EXCEPT ![r] = S]
          /\ landed' = landed /\ reread' = reread
      BY <2>9 DEF RereadIsAmbiguous
    <3> HIDE DEF S
    <3> QED BY <2>0, <3>1, <3>2, <3>3, RereadsKeepTypes
  <2>10. ASSUME NEW r \in Runs, Advance(r) PROVE TypeOK'
    <3>1. CASE UNCHANGED <<notice, pending>>
      BY <2>10, <3>1 DEF TypeOK, Received, Advance, history
    <3>2. CASE CommitsCharges(r) /\ pending' = [pending EXCEPT ![r] = {}]
      <4>1. notice' \in [Notices -> Rows] /\ Received \subseteq Received'
        BY <2>0, <3>2, ChargesKeepRows DEF CommitsCharges
      <4> QED BY <2>10, <3>2, <4>1 DEF TypeOK, Advance, history
    <3> QED BY <2>10, <3>1, <3>2 DEF Advance
  <2>11. ASSUME NEW r \in Runs, MarkProcessed(r) PROVE TypeOK'
    <3>1. /\ notice' \in [Notices -> Rows]
          /\ \A n \in Notices : notice'[n].stored = notice[n].stored
      BY <2>11, MarksMove, LandedGroups DEF MarkProcessed
    <3>2. Received \subseteq Received'
      BY <3>1 DEF Received
    <3> QED BY <2>11, <3>1, <3>2, ClosingKeepsTypes DEF MarkProcessed
  <2>12. ASSUME NEW r \in Runs, NothingLanded(r) PROVE TypeOK'
    <3>1. notice' \in [Notices -> Rows] /\ Received \subseteq Received'
      BY <2>0, <2>12, ChargesKeepRows DEF NothingLanded, CommitsCharges
    <3> QED BY <2>12, <3>1, ClosingKeepsTypes DEF NothingLanded
  <2>13. ASSUME NEW r \in Runs, Raises(r) PROVE TypeOK'
    BY <2>13 DEF TypeOK, Received, Raises, history
  <2>14. ASSUME NEW r \in Runs, ChargeTenant(r) PROVE TypeOK'
    <3>1. Owed(r, tenant[r]) \in SUBSET Notices
      BY DEF TypeOK, Owed
    <3>2. notice' \in [Notices -> Rows] /\ Received \subseteq Received'
      BY <2>14, <3>1, ChargesKeepRows DEF ChargeTenant
    <3> QED BY <2>14, <3>2, ClosingKeepsTypes DEF ChargeTenant
  <2>15. ASSUME NEW r \in Runs, WorkerDies(r) PROVE TypeOK'
    BY <2>15, QueueAssumption DEF TypeOK, Received, WorkerDies
  <2>16. ASSUME NEW d \in Destinations, AddProperty(d) PROVE TypeOK'
    BY <2>16 DEF TypeOK, Received, AddProperty, runVars
  <2> QED BY <2>1, <2>2, <2>3, <2>4, <2>5, <2>6, <2>7, <2>8, <2>9, <2>10, <2>11,
             <2>12, <2>13, <2>14, <2>15, <2>16 DEF Next, Work
<1> QED BY <1>1, <1>2, PTL DEF Spec
-----------------------------------------------------------------------------
(* A notice somebody holds, and whose claim did not lapse, is not due and  *)
(* nobody else holds it.                                                   *)
ClaimInv ==
    \A r \in Runs, n \in Notices :
        Holds(r, n) /\ n \notin lapsed
            => /\ ~notice[n].due
               /\ \A s \in Runs : Holds(s, n) => s = r

(* Where a run's holdings do not grow and nothing it holds comes due. *)
LEMMA ClaimsStay ==
    ASSUME ClaimInv, lapsed \subseteq lapsed',
           \A r \in Runs, n \in Notices : Holds(r, n)' => Holds(r, n),
           \A r \in Runs, n \in Notices :
               Holds(r, n) /\ n \notin lapsed' /\ notice'[n].due => notice[n].due
    PROVE  ClaimInv'
  BY DEF ClaimInv

(* What a run that closes a tenant still holds. *)
LEMMA ClosingHoldsLess ==
    ASSUME TypeOK, NEW r \in Runs, ClosesTenant(r),
           pc[r] \in {"tenant", "advanced", "charging"}
    PROVE  /\ UNCHANGED <<endpoint, portfolio, expected, claims, lapsed, reread, deaths>>
           /\ \A q \in Runs, n \in Notices : Holds(q, n)' => Holds(q, n)
           /\ \A n \in Notices :
                Holds(r, n) /\ n \notin Owed(r, tenant[r]) => Holds(r, n)'
           /\ \A q \in Runs \ {r} :
                /\ pc'[q] = pc[q] /\ batch'[q] = batch[q] /\ tenant'[q] = tenant[q]
                /\ todo'[q] = todo[q] /\ landed'[q] = landed[q]
                /\ pending'[q] = pending[q]
           /\ pc'[r] \in {"idle", "working"} /\ landed'[r] = {} /\ todo'[r] = {}
  <1> DEFINE rest == batch[r] \ Owed(r, tenant[r])
  <1>1. /\ batch' = [batch EXCEPT ![r] = rest]
        /\ pc' = [pc EXCEPT ![r] = IF rest = {} THEN "idle" ELSE "working"]
        /\ tenant' = [tenant EXCEPT ![r] = NoTenant]
        /\ todo' = [todo EXCEPT ![r] = {}]
        /\ landed' = [landed EXCEPT ![r] = {}]
        /\ pending' = [pending EXCEPT ![r] = {}]
        /\ UNCHANGED <<endpoint, portfolio, expected, claims, lapsed, reread, deaths>>
    BY DEF ClosesTenant, Closed, history
  <1>2. rest \subseteq batch[r]
        /\ \A n \in batch[r] : n \notin Owed(r, tenant[r]) => n \in rest
    OBVIOUS
  <1> HIDE DEF rest
  <1>3. /\ pc \in [Runs -> {"idle", "selected", "working", "tenant", "advanced", "charging"}]
        /\ batch \in [Runs -> SUBSET Notices]
        /\ tenant \in [Runs -> Tenants \cup {NoTenant}]
        /\ todo \in [Runs -> SUBSET Providers] /\ landed \in [Runs -> SUBSET Providers]
        /\ pending \in [Runs -> SUBSET Notices]
    BY DEF TypeOK
  <1> QED BY <1>1, <1>2, <1>3 DEF Holds

(* What a run does but claim. *)
Serves(r) ==
    \/ Select(r) \/ \E t \in Tenants : OpenTenant(r, t)
    \/ \E p \in Providers :
         RereadLands(r, p) \/ RereadFails(r, p) \/ RereadIsAmbiguous(r, p)
    \/ Advance(r) \/ MarkProcessed(r) \/ NothingLanded(r) \/ Raises(r)
    \/ ChargeTenant(r)

(* The steps of Next after which no run holds more than before. *)
Unclaiming ==
    \/ UNCHANGED vars
    \/ \E n \in Notices : Receive(n) \/ ComesDue(n)
    \/ \E d \in Destinations : AddProperty(d)
    \/ \E r \in Runs : Serves(r) \/ WorkerDies(r)

LEMMA StepsSplit == Next => Unclaiming \/ \E r \in Runs : Lease(r)
  BY DEF Next, Work, Serves, Unclaiming

LEMMA OnlyLeaseClaims ==
    ASSUME TypeOK, Unclaiming
    PROVE  \A q \in Runs, n \in Notices : Holds(q, n)' => Holds(q, n)
<1>1. CASE UNCHANGED vars
  BY <1>1 DEF vars, runVars, Holds
<1>2. ASSUME NEW n \in Notices, Receive(n) \/ ComesDue(n)
      PROVE  UNCHANGED <<pc, batch>>
  BY <1>2 DEF Receive, ComesDue, Due, runVars
<1>3. ASSUME NEW r \in Runs, Select(r)
      PROVE  \A q \in Runs, n \in Notices : Holds(q, n)' => Holds(q, n)
  BY <1>3 DEF Select, Holds, TypeOK
<1>4. ASSUME NEW r \in Runs, NEW t \in Tenants, OpenTenant(r, t)
      PROVE  \A q \in Runs, n \in Notices : Holds(q, n)' => Holds(q, n)
  BY <1>4 DEF OpenTenant, Holds, TypeOK
<1>5. ASSUME NEW r \in Runs, NEW p \in Providers,
             RereadLands(r, p) \/ RereadFails(r, p) \/ RereadIsAmbiguous(r, p)
      PROVE  UNCHANGED <<pc, batch>>
  BY <1>5 DEF RereadLands, RereadFails, RereadIsAmbiguous, Rereads
<1>6. ASSUME NEW r \in Runs, Advance(r)
      PROVE  \A q \in Runs, n \in Notices : Holds(q, n)' => Holds(q, n)
  BY <1>6 DEF Advance, Holds, TypeOK
<1>7. ASSUME NEW r \in Runs, MarkProcessed(r) \/ NothingLanded(r) \/ ChargeTenant(r)
      PROVE  \A q \in Runs, n \in Notices : Holds(q, n)' => Holds(q, n)
  BY <1>7, ClosingHoldsLess DEF MarkProcessed, NothingLanded, ChargeTenant
<1>8. ASSUME NEW r \in Runs, Raises(r)
      PROVE  \A q \in Runs, n \in Notices : Holds(q, n)' => Holds(q, n)
  BY <1>8 DEF Raises, Holds, TypeOK
<1>9. ASSUME NEW r \in Runs, WorkerDies(r)
      PROVE  \A q \in Runs, n \in Notices : Holds(q, n)' => Holds(q, n)
  BY <1>9 DEF WorkerDies, Holds, TypeOK
<1>10. ASSUME NEW d \in Destinations, AddProperty(d) PROVE UNCHANGED <<pc, batch>>
  BY <1>10 DEF AddProperty, runVars
<1> QED
  BY <1>1, <1>2, <1>3, <1>4, <1>5, <1>6, <1>7, <1>8, <1>9, <1>10 DEF Unclaiming, Serves, Holds

(* How the rows move: nothing comes due but by ComesDue, attempts are never *)
(* taken back and neither a row nor a mark is ever removed.                *)
RowsOnlyGain ==
    \A n \in Notices :
        /\ notice'[n].attempts >= notice[n].attempts
        /\ notice[n].processed => notice'[n].processed
        /\ notice[n].stored => notice'[n].stored

LEMMA RowsGain ==
    ASSUME TypeOK, [Next]_vars
    PROVE  /\ RowsOnlyGain
           /\ \A n \in Notices :
                notice'[n].due => notice[n].due \/ ComesDue(n)
<1> DEFINE Good ==
      \A n \in Notices :
        /\ notice'[n].attempts >= notice[n].attempts
        /\ notice[n].processed => notice'[n].processed
        /\ notice[n].stored => notice'[n].stored
        /\ notice'[n].due => notice[n].due \/ ComesDue(n)
<1> SUFFICES Good
  BY DEF RowsOnlyGain
<1>0. \A n \in Notices : notice[n] \in Rows /\ notice[n].attempts \in Nat
  BY DEF TypeOK, Rows
<1>1. ASSUME UNCHANGED notice PROVE Good
  BY <1>0, <1>1
<1>2. ASSUME NEW S \in SUBSET Notices, notice' = Charged(S) PROVE Good
  <2>1. \A n \in Notices :
          /\ notice'[n].attempts >= notice[n].attempts
          /\ notice'[n].processed = notice[n].processed
          /\ notice'[n].stored = notice[n].stored
          /\ notice'[n].due => notice[n].due
    <3>1. notice \in [Notices -> Rows]
      BY DEF TypeOK
    <3>2. \A n \in Notices :
            /\ notice'[n].attempts =
                 IF n \in S THEN notice[n].attempts + 1 ELSE notice[n].attempts
            /\ notice'[n].processed = notice[n].processed
            /\ notice'[n].stored = notice[n].stored
            /\ notice'[n].due => notice[n].due
      BY <1>2, <3>1, RowsMove
    <3> QED BY <1>0, <3>2
  <2> QED BY <2>1
<1>3. ASSUME NEW r \in Runs, CommitsCharges(r) PROVE Good
  BY <1>2, <1>3 DEF CommitsCharges, TypeOK
<1>4. ASSUME NEW n \in Notices, Receive(n) PROVE Good
  BY <1>0, <1>4 DEF Receive, TypeOK, Rows
<1>5. ASSUME NEW n \in Notices, ComesDue(n) PROVE Good
  <2>1. \A m \in Notices \ {n} : notice'[m] = notice[m]
    BY <1>5 DEF ComesDue, Due, TypeOK
  <2>2. /\ notice'[n].attempts = notice[n].attempts
        /\ notice'[n].processed = notice[n].processed
        /\ notice'[n].stored = notice[n].stored
    BY <1>0, <1>5 DEF ComesDue, Due, TypeOK, Rows
  <2> QED BY <1>0, <1>5, <2>1, <2>2
<1>6. ASSUME NEW r \in Runs, Lease(r) PROVE Good
  <2> SUFFICES ASSUME NEW n \in Notices
               PROVE  /\ notice'[n].attempts = notice[n].attempts
                      /\ notice'[n].processed = notice[n].processed
                      /\ notice'[n].stored = notice[n].stored
                      /\ notice'[n].due => notice[n].due
    BY <1>0
  <2>1. notice'[n] = notice[n] \/ notice'[n] = [notice[n] EXCEPT !.due = FALSE]
    BY <1>6 DEF Lease, Claims
  <2> QED BY <1>0, <2>1 DEF Rows
<1>7. ASSUME NEW r \in Runs, MarkProcessed(r) PROVE Good
  <2>1. \A n \in Notices :
          /\ notice'[n].attempts >= notice[n].attempts
          /\ notice[n].processed => notice'[n].processed
          /\ notice'[n].stored = notice[n].stored
          /\ notice'[n].due => notice[n].due
    BY <1>7, MarksMove, LandedGroups DEF MarkProcessed
  <2> QED BY <2>1
<1>8. ASSUME NEW r \in Runs, ChargeTenant(r) PROVE Good
  <2>1. Owed(r, tenant[r]) \in SUBSET Notices
    BY DEF Owed, TypeOK
  <2> QED BY <1>2, <1>8, <2>1 DEF ChargeTenant
<1>9. ASSUME NEW r \in Runs,
             \/ Select(r) \/ \E t \in Tenants : OpenTenant(r, t)
             \/ \E p \in Providers :
                  RereadLands(r, p) \/ RereadFails(r, p) \/ RereadIsAmbiguous(r, p)
             \/ Advance(r) \/ NothingLanded(r) \/ Raises(r) \/ WorkerDies(r)
      PROVE  UNCHANGED notice \/ CommitsCharges(r)
  BY <1>9 DEF Select, OpenTenant, RereadLands, RereadFails, RereadIsAmbiguous,
              Rereads, Advance, NothingLanded, Raises, WorkerDies
<1>10. CASE UNCHANGED vars \/ \E d \in Destinations : AddProperty(d)
  BY <1>1, <1>10 DEF vars, AddProperty
<1> QED BY <1>1, <1>3, <1>4, <1>5, <1>6, <1>7, <1>8, <1>9, <1>10 DEF Next, Work

LEMMA ClaimsHold == Spec => []ClaimInv
<1>1. Init => ClaimInv
  BY DEF Init, ClaimInv, Holds
<1>2. TypeOK /\ ClaimInv /\ [Next]_vars => ClaimInv'
  <2> SUFFICES ASSUME TypeOK, ClaimInv, [Next]_vars PROVE ClaimInv'
    OBVIOUS
  <2>1. \A n \in Notices : notice'[n].due => notice[n].due \/ ComesDue(n)
    BY RowsGain
  <2>2. CASE Unclaiming
    <3>1. lapsed \subseteq lapsed'
      BY <2>2, ClosingHoldsLess
         DEF Unclaiming, Serves, vars, history, Receive, AddProperty, ComesDue, Due, Select, OpenTenant,
             RereadLands, RereadFails, RereadIsAmbiguous, Rereads, Advance, Raises,
             WorkerDies, MarkProcessed, NothingLanded, ChargeTenant
    <3>2. \A r \in Runs, n \in Notices :
            Holds(r, n) /\ ComesDue(n) => n \in lapsed'
      BY DEF ComesDue, Due
    <3> QED BY <2>1, <2>2, <3>1, <3>2, OnlyLeaseClaims, ClaimsStay
  <2>3. ASSUME NEW r \in Runs, Lease(r) PROVE ClaimInv'
    <3> DEFINE won == batch[r] \cap Selectable
    <3>1. /\ pc[r] = "selected"
          /\ batch' = [batch EXCEPT ![r] = won]
          /\ pc' = [pc EXCEPT ![r] = IF won = {} THEN "idle" ELSE "working"]
          /\ lapsed' = lapsed
      BY <2>3 DEF Lease, Claims
    <3>2. \A n \in won : notice[n].due /\ ~notice'[n].due
      BY <2>3 DEF Lease, Claims, Selectable, Received, TypeOK, Rows
    <3>3. \A n \in Notices : notice'[n].due => notice[n].due
      BY <2>3 DEF Lease, Claims, TypeOK, Rows
    <3> HIDE DEF won
    <3>4. \A q \in Runs, n \in Notices :
            /\ Holds(q, n)' => Holds(q, n) \/ (q = r /\ n \in won)
            /\ n \in won /\ n \notin lapsed => ~Holds(q, n)
      <4>1. \A q \in Runs \ {r} : pc'[q] = pc[q] /\ batch'[q] = batch[q]
        BY <3>1 DEF TypeOK
      <4>2. batch'[r] = won
        BY <3>1 DEF TypeOK
      <4>3. \A q \in Runs, n \in Notices :
              n \in won /\ n \notin lapsed => ~Holds(q, n)
        BY <3>2 DEF ClaimInv
      <4> QED BY <4>1, <4>2, <4>3 DEF Holds
    <3> QED BY <3>1, <3>2, <3>3, <3>4 DEF ClaimInv
  <2> QED BY <2>2, <2>3, StepsSplit DEF Unclaiming
<1> QED BY <1>1, <1>2, QueueTypeCorrect, PTL DEF Spec

(* Two runs hold one notice only after its claim lapsed under the first: a *)
(* selection both made before either claimed is not enough.                *)
THEOREM NoticeHasOneOwner == Spec => []ClaimedByOne
<1>1. ClaimInv => ClaimedByOne
  BY DEF ClaimInv, ClaimedByOne
<1> QED BY <1>1, ClaimsHold, PTL
-----------------------------------------------------------------------------
(* A destination a property resolves to keeps it, so a notice that came    *)
(* to one is never passed over: what a run would mark has been re-read.    *)
ExpectedIsServed == \A n \in expected : Destination(n) \in portfolio

LandedInv ==
    \A r \in Runs : \A p \in landed[r] : Group(r, p) \cap expected \subseteq reread

MarkedWasReceived == \A n \in Notices : notice[n].processed => notice[n].stored

RereadInv == ExpectedIsServed /\ LandedInv /\ MarkedWasReceived /\ ProcessedWasReread

(* A step of run r leaves the groups of the others alone.                  *)
LEMMA LandedStays ==
    ASSUME LandedInv, NEW r \in Runs, endpoint' = endpoint, expected' = expected,
           reread \subseteq reread',
           \A q \in Runs \ {r} :
               batch'[q] = batch[q] /\ tenant'[q] = tenant[q] /\ landed'[q] = landed[q],
           \A p \in landed'[r] : Group(r, p)' \cap expected \subseteq reread'
    PROVE  LandedInv'
<1> SUFFICES ASSUME NEW q \in Runs, q # r, NEW p \in landed'[q]
             PROVE  Group(q, p)' \cap expected' \subseteq reread'
  BY DEF LandedInv
<1>1. Group(q, p)' = Group(q, p)
  BY DEF Group, Owed
<1> QED BY <1>1 DEF LandedInv

(* Only Receive expects a notice, and only AddProperty adds to what there  *)
(* is.                                                                     *)
LEMMA RunsExpectNothing ==
    ASSUME TypeOK, NEW r \in Runs, Serves(r) \/ Lease(r) \/ WorkerDies(r)
    PROVE  UNCHANGED <<endpoint, portfolio, expected>>
<1>1. CASE MarkProcessed(r) \/ NothingLanded(r) \/ ChargeTenant(r)
  BY <1>1, ClosingHoldsLess DEF MarkProcessed, NothingLanded, ChargeTenant
<1>2. CASE \/ Select(r) \/ Lease(r) \/ WorkerDies(r) \/ Advance(r) \/ Raises(r)
           \/ \E t \in Tenants : OpenTenant(r, t)
  BY <1>2 DEF Select, Lease, Claims, WorkerDies, Advance, Raises, OpenTenant, history
<1>3. CASE \E p \in Providers :
             RereadLands(r, p) \/ RereadFails(r, p) \/ RereadIsAmbiguous(r, p)
  BY <1>3 DEF RereadLands, RereadFails, RereadIsAmbiguous, Rereads
<1> QED BY <1>1, <1>2, <1>3 DEF Serves

LEMMA OnlyReceiveExpects ==
    ASSUME TypeOK, [Next]_vars, NEW n \in expected', n \notin expected
    PROVE  n \in Notices /\ Receive(n)
<1>1. expected' # expected
  OBVIOUS
<1>2. PICK m \in Notices : Receive(m)
  BY <1>1, RunsExpectNothing, StepsSplit
     DEF Unclaiming, ComesDue, Due, AddProperty, vars, history
<1> QED BY <1>2 DEF Receive

LEMMA PortfolioGrows ==
    ASSUME TypeOK, [Next]_vars, ExpectedIsServed
    PROVE  ExpectedIsServed'
<1>1. CASE UNCHANGED <<endpoint, portfolio, expected>>
  BY <1>1 DEF ExpectedIsServed, Destination
<1>2. ASSUME NEW n \in Notices, Receive(n) PROVE ExpectedIsServed'
  BY <1>2 DEF ExpectedIsServed, Destination, Receive
<1>3. ASSUME NEW d \in Destinations, AddProperty(d) PROVE ExpectedIsServed'
  BY <1>3 DEF ExpectedIsServed, Destination, AddProperty
<1>4. ASSUME NEW n \in Notices, ComesDue(n) PROVE UNCHANGED <<endpoint, portfolio, expected>>
  BY <1>4 DEF ComesDue, Due
<1>5. CASE UNCHANGED vars
  BY <1>1, <1>5 DEF vars, history
<1> QED BY <1>1, <1>2, <1>3, <1>4, <1>5, RunsExpectNothing, StepsSplit DEF Unclaiming

(* No step marks a notice but MarkProcessed.                               *)
LEMMA OnlyMarkProcessedMarks ==
    ASSUME TypeOK, [Next]_vars, NEW n \in Notices, notice'[n].processed, ~notice[n].processed
    PROVE  \E r \in Runs : MarkProcessed(r) /\ \E p \in landed[r] : n \in Group(r, p)
<1>0. notice \in [Notices -> Rows]
  BY DEF TypeOK
<1>1. ASSUME NEW S \in SUBSET Notices, notice' = Charged(S) PROVE FALSE
  BY <1>0, <1>1, RowsMove
<1>2. ASSUME NEW r \in Runs, CommitsCharges(r) PROVE FALSE
  BY <1>1, <1>2 DEF CommitsCharges, TypeOK
<1>3. notice' # notice
  OBVIOUS
<1>4. ASSUME NEW m \in Notices, Receive(m) \/ ComesDue(m) PROVE FALSE
  BY <1>0, <1>4 DEF Receive, ComesDue, Due, Rows
<1>5. ASSUME NEW r \in Runs, Lease(r) PROVE FALSE
  <2>1. notice'[n] = notice[n] \/ notice'[n] = [notice[n] EXCEPT !.due = FALSE]
    BY <1>5 DEF Lease, Claims
  <2> QED BY <1>0, <2>1 DEF Rows
<1>6. ASSUME NEW r \in Runs, ChargeTenant(r) PROVE FALSE
  <2>1. Owed(r, tenant[r]) \in SUBSET Notices
    BY DEF Owed, TypeOK
  <2> QED BY <1>1, <1>6, <2>1 DEF ChargeTenant
<1>7. ASSUME NEW r \in Runs,
             \/ Select(r) \/ \E t \in Tenants : OpenTenant(r, t)
             \/ \E p \in Providers :
                  RereadLands(r, p) \/ RereadFails(r, p) \/ RereadIsAmbiguous(r, p)
             \/ Advance(r) \/ NothingLanded(r) \/ Raises(r) \/ WorkerDies(r)
      PROVE  UNCHANGED notice \/ CommitsCharges(r)
  BY <1>7 DEF Select, OpenTenant, RereadLands, RereadFails, RereadIsAmbiguous,
              Rereads, Advance, NothingLanded, Raises, WorkerDies
<1>8. ~UNCHANGED vars /\ \A d \in Destinations : ~AddProperty(d)
  BY <1>3 DEF vars, AddProperty
<1>9. PICK r \in Runs : MarkProcessed(r)
  BY <1>2, <1>3, <1>4, <1>5, <1>6, <1>7, <1>8 DEF Next, Work
<1>10. n \in UNION {Group(r, p) : p \in landed[r]}
  BY <1>9, MarksMove, LandedGroups DEF MarkProcessed
<1> QED BY <1>9, <1>10

(* A processed notice had its own destination re-read for it, if its       *)
(* tenant had a property of that provider when it came.                    *)
THEOREM MarksAreEarned == Spec => []ProcessedWasReread
<1>1. Init => RereadInv
  <2> SUFFICES ASSUME Init PROVE RereadInv
    OBVIOUS
  <2>1. \A n \in Notices : ~notice[n].processed
    BY DEF Init
  <2>2. expected = {} /\ \A r \in Runs : landed[r] = {}
    BY DEF Init
  <2> QED BY <2>1, <2>2 DEF RereadInv, ExpectedIsServed, LandedInv, MarkedWasReceived,
                            ProcessedWasReread
<1>2. TypeOK /\ RereadInv /\ [Next]_vars => RereadInv'
  <2> SUFFICES ASSUME TypeOK, ExpectedIsServed, LandedInv, MarkedWasReceived,
                      ProcessedWasReread, [Next]_vars
               PROVE  RereadInv'
    BY DEF RereadInv
  <2>0. /\ batch \in [Runs -> SUBSET Notices]
        /\ tenant \in [Runs -> Tenants \cup {NoTenant}]
        /\ landed \in [Runs -> SUBSET Providers]
        /\ \A r \in Runs : pc[r] \notin {"tenant", "advanced"} => landed[r] = {}
        /\ \A r \in Runs : batch[r] \subseteq Received
    BY DEF TypeOK
  <2>1. LandedInv' /\ reread \subseteq reread'
    <3>1. CASE UNCHANGED vars
      BY <3>1 DEF LandedInv, Group, Owed, vars, runVars, history
    <3>2. ASSUME NEW n \in Notices, ComesDue(n)
          PROVE  LandedInv' /\ reread \subseteq reread'
      BY <3>2 DEF LandedInv, Group, Owed, ComesDue, Due, runVars
    <3>9. ASSUME NEW d \in Destinations, AddProperty(d)
          PROVE  LandedInv' /\ reread \subseteq reread'
      BY <3>9 DEF LandedInv, Group, Owed, AddProperty, runVars
    <3>10. ASSUME NEW n \in Notices, Receive(n)
           PROVE  LandedInv' /\ reread \subseteq reread'
      <4>1. /\ UNCHANGED <<batch, tenant, landed, endpoint, reread>>
            /\ expected' \subseteq expected \cup {n}
            /\ \A r \in Runs : n \notin batch[r]
        BY <2>0, <3>10 DEF Receive, runVars
      <4>2. \A r \in Runs, p \in Providers :
              Group(r, p)' = Group(r, p) /\ Group(r, p) \subseteq batch[r]
        BY <4>1 DEF Group, Owed
      <4> QED BY <2>0, <4>1, <4>2 DEF LandedInv
    <3>3. ASSUME NEW r \in Runs,
                 Select(r) \/ Lease(r) \/ \E t \in Tenants : OpenTenant(r, t)
          PROVE  LandedInv' /\ reread \subseteq reread'
      <4>1. /\ landed[r] = {} /\ UNCHANGED <<endpoint, expected, landed, reread>>
            /\ \A q \in Runs \ {r} : batch'[q] = batch[q] /\ tenant'[q] = tenant[q]
        BY <2>0, <3>3 DEF Select, Lease, Claims, OpenTenant, history
      <4> QED BY <4>1, LandedStays
    <3>4. ASSUME NEW r \in Runs, NEW p \in Providers, RereadLands(r, p)
          PROVE  LandedInv' /\ reread \subseteq reread'
      <4>1. /\ UNCHANGED <<endpoint, expected, batch, tenant>>
            /\ landed' = [landed EXCEPT ![r] = @ \cup {p}]
            /\ reread \subseteq reread'
            /\ HasProperties(r, p) => Group(r, p) \subseteq reread'
        BY <3>4 DEF RereadLands, Rereads
      <4>2. \A s \in Providers : Group(r, s)' = Group(r, s)
        BY <4>1 DEF Group, Owed
      <4>3. Group(r, p) \cap expected \subseteq reread'
        <5>1. \A n \in Group(r, p) \cap expected : HasProperties(r, p)
          BY DEF Group, Owed, HasProperties, ExpectedIsServed, Destination
        <5> QED BY <4>1, <5>1
      <4>4. \A s \in landed'[r] : Group(r, s)' \cap expected \subseteq reread'
        BY <2>0, <4>1, <4>2, <4>3 DEF LandedInv
      <4>5. \A q \in Runs \ {r} : landed'[q] = landed[q]
        BY <2>0, <4>1
      <4> QED BY <4>1, <4>4, <4>5, LandedStays
    <3>5. ASSUME NEW r \in Runs, NEW p \in Providers,
                 RereadFails(r, p) \/ RereadIsAmbiguous(r, p)
          PROVE  LandedInv' /\ reread \subseteq reread'
      BY <3>5 DEF LandedInv, Group, Owed, RereadFails, RereadIsAmbiguous, Rereads
    <3>6. ASSUME NEW r \in Runs, Advance(r)
          PROVE  LandedInv' /\ reread \subseteq reread'
      BY <3>6 DEF LandedInv, Group, Owed, Advance, history
    <3>7. ASSUME NEW r \in Runs, MarkProcessed(r) \/ NothingLanded(r) \/ ChargeTenant(r)
          PROVE  LandedInv' /\ reread \subseteq reread'
      <4>1. /\ UNCHANGED <<endpoint, expected, reread>> /\ landed'[r] = {}
            /\ \A q \in Runs \ {r} :
                 batch'[q] = batch[q] /\ tenant'[q] = tenant[q] /\ landed'[q] = landed[q]
        BY <3>7, ClosingHoldsLess DEF MarkProcessed, NothingLanded, ChargeTenant
      <4> QED BY <4>1, LandedStays
    <3>8. ASSUME NEW r \in Runs, Raises(r) \/ WorkerDies(r)
          PROVE  LandedInv' /\ reread \subseteq reread'
      <4>1. /\ UNCHANGED <<endpoint, expected, reread>> /\ landed'[r] = {}
            /\ \A q \in Runs \ {r} :
                 batch'[q] = batch[q] /\ tenant'[q] = tenant[q] /\ landed'[q] = landed[q]
        BY <2>0, <3>8 DEF Raises, WorkerDies, history
      <4> QED BY <4>1, LandedStays
    <3> QED BY <3>1, <3>2, <3>3, <3>4, <3>5, <3>6, <3>7, <3>8, <3>9, <3>10 DEF Next, Work
  <2>2. ProcessedWasReread'
    <3> SUFFICES ASSUME NEW n \in expected', notice'[n].processed PROVE n \in reread'
      BY DEF ProcessedWasReread
    <3>2. CASE n \notin expected
      <4>1. n \in Notices /\ Receive(n)
        BY <3>2, OnlyReceiveExpects
      <4> QED BY <4>1 DEF Receive, Received, MarkedWasReceived, TypeOK, Rows
    <3>3. CASE n \in expected /\ notice[n].processed
      BY <2>1, <3>3 DEF ProcessedWasReread
    <3>4. CASE n \in expected /\ ~notice[n].processed
      <4>1. n \in Notices
        BY <3>4 DEF TypeOK
      <4> QED BY <2>1, <3>4, <4>1, OnlyMarkProcessedMarks DEF LandedInv
    <3> QED BY <3>2, <3>3, <3>4
  <2>3. MarkedWasReceived'
    <3> SUFFICES ASSUME NEW n \in Notices, notice'[n].processed PROVE notice'[n].stored
      BY DEF MarkedWasReceived
    <3>1. notice[n].stored
      <4>1. CASE notice[n].processed
        BY <4>1 DEF MarkedWasReceived
      <4>2. CASE ~notice[n].processed
        <5>1. PICK r \in Runs : \E p \in landed[r] : n \in Group(r, p)
          BY <4>2, OnlyMarkProcessedMarks
        <5> QED BY <2>0, <5>1 DEF Group, Owed, Received
      <4> QED BY <4>1, <4>2
    <3> QED BY <3>1, RowsGain DEF RowsOnlyGain
  <2> QED BY <2>1, <2>2, <2>3, PortfolioGrows DEF RereadInv
<1>3. RereadInv => ProcessedWasReread
  BY DEF RereadInv
<1> QED BY <1>1, <1>2, <1>3, QueueTypeCorrect, PTL DEF Spec
-----------------------------------------------------------------------------
(* A claim that has not cost its notice anything yet will: the run that    *)
(* holds it has its provider's re-read, its mark or its charge ahead.      *)
WillSettle(r, n) ==
    /\ Holds(r, n)
    /\ pc[r] \in {"tenant", "advanced"} /\ n \in Owed(r, tenant[r])
         => \/ endpoint[n].provider \in landed[r]
            \/ n \in pending[r]
            \/ pc[r] = "tenant" /\ endpoint[n].provider \in todo[r]

Even(n) == claims[n] <= notice[n].attempts + deaths

Within(n) ==
    /\ claims[n] <= MaxAttempts + deaths
    /\ \/ notice[n].processed
       \/ Even(n)
       \/ /\ claims[n] <= notice[n].attempts + deaths + 1
          /\ \E r \in Runs : WillSettle(r, n)

BudgetInv == \A n \in Notices \ lapsed : Within(n)

OthersStay(r) ==
    \A q \in Runs \ {r} :
        /\ pc'[q] = pc[q] /\ batch'[q] = batch[q] /\ tenant'[q] = tenant[q]
        /\ todo'[q] = todo[q] /\ landed'[q] = landed[q] /\ pending'[q] = pending[q]

(* A step of run r that claims nothing: it may only break its own promise, *)
(* and does so by keeping it.                                              *)
LEMMA PromiseStays ==
    ASSUME TypeOK, TypeOK', NEW r \in Runs, NEW n \in Notices, Within(n), RowsOnlyGain,
           OthersStay(r), claims' = claims, deaths' = deaths, endpoint' = endpoint,
           WillSettle(r, n) => \/ WillSettle(r, n)'
                               \/ notice'[n].processed
                               \/ notice'[n].attempts >= notice[n].attempts + 1
    PROVE  Within(n)'
<1>1. /\ claims[n] \in Nat /\ notice[n].attempts \in Nat /\ notice'[n].attempts \in Nat
      /\ deaths \in Nat
  BY QueueAssumption DEF TypeOK, Rows
<1>2. notice'[n].attempts >= notice[n].attempts
  BY DEF RowsOnlyGain
<1>3. claims'[n] <= MaxAttempts + deaths'
  BY DEF Within
<1>4. CASE notice[n].processed
  BY <1>3, <1>4 DEF Within, RowsOnlyGain
<1>5. CASE Even(n)
  <2>1. Even(n)'
    BY <1>1, <1>2, <1>5 DEF Even
  <2> QED BY <1>3, <2>1 DEF Within
<1>6. ASSUME claims[n] <= notice[n].attempts + deaths + 1,
             NEW q \in Runs, WillSettle(q, n)
      PROVE  Within(n)'
  <2>1. claims'[n] <= notice'[n].attempts + deaths' + 1
    BY <1>1, <1>2, <1>6
  <2>2. CASE notice'[n].attempts >= notice[n].attempts + 1
    <3>1. Even(n)'
      BY <1>1, <1>6, <2>2 DEF Even
    <3> QED BY <1>3, <3>1 DEF Within
  <2>3. q # r => WillSettle(q, n)'
    BY <1>6 DEF OthersStay, WillSettle, Holds, Owed
  <2> QED BY <1>3, <1>6, <2>1, <2>2, <2>3 DEF Within
<1> QED BY <1>4, <1>5, <1>6 DEF Within

(* Where a step of a run is felt: in its own variables and the rows.       *)
LEMMA WorkIsLocal ==
    ASSUME TypeOK, NEW r \in Runs,
           Serves(r)
    PROVE  /\ OthersStay(r) /\ claims' = claims /\ deaths' = deaths /\ endpoint' = endpoint
           /\ lapsed' = lapsed
<1>1. CASE MarkProcessed(r) \/ NothingLanded(r) \/ ChargeTenant(r)
  BY <1>1, ClosingHoldsLess DEF MarkProcessed, NothingLanded, ChargeTenant, OthersStay
<1>2. CASE Select(r) \/ (\E t \in Tenants : OpenTenant(r, t)) \/ Raises(r)
  BY <1>2 DEF TypeOK, Select, OpenTenant, Raises, OthersStay, history
<1>3. ASSUME NEW p \in Providers,
             RereadLands(r, p) \/ RereadFails(r, p) \/ RereadIsAmbiguous(r, p)
      PROVE  /\ OthersStay(r) /\ claims' = claims /\ deaths' = deaths /\ endpoint' = endpoint
             /\ lapsed' = lapsed
  BY <1>3 DEF TypeOK, RereadLands, RereadFails, RereadIsAmbiguous, Rereads, OthersStay
<1>4. CASE Advance(r)
  BY <1>4 DEF TypeOK, Advance, OthersStay, history
<1> QED BY <1>1, <1>2, <1>3, <1>4 DEF Serves

(* Every step of a run that works keeps its promise.                       *)
LEMMA PromiseKept ==
    ASSUME TypeOK, NEW r \in Runs, NEW n \in Notices, WillSettle(r, n),
           Serves(r)
    PROVE  \/ WillSettle(r, n)'
           \/ notice'[n].processed
           \/ notice'[n].attempts >= notice[n].attempts + 1
<1> DEFINE Kept ==
      \/ WillSettle(r, n)'
      \/ notice'[n].processed
      \/ notice'[n].attempts >= notice[n].attempts + 1
<1>1. /\ pc \in [Runs -> {"idle", "selected", "working", "tenant", "advanced", "charging"}]
      /\ batch \in [Runs -> SUBSET Notices]
      /\ tenant \in [Runs -> Tenants \cup {NoTenant}]
      /\ todo \in [Runs -> SUBSET Providers] /\ landed \in [Runs -> SUBSET Providers]
      /\ pending \in [Runs -> SUBSET Notices] /\ notice \in [Notices -> Rows]
      /\ pending[r] \in SUBSET Notices /\ Owed(r, tenant[r]) \in SUBSET Notices
      /\ notice[n].attempts \in Nat
      /\ pc[r] = "idle" => batch[r] = {}
  BY DEF TypeOK, Owed, Rows
<1>2. ASSUME NEW S \in SUBSET Notices, notice' = Charged(S), n \in S
      PROVE  notice'[n].attempts >= notice[n].attempts + 1
  BY <1>1, <1>2, RowsMove
<1>3. CASE Select(r)
  BY <1>1, <1>3 DEF Select, WillSettle, Holds
<1>4. ASSUME NEW t \in Tenants, OpenTenant(r, t) PROVE Kept
  <2>1. /\ tenant'[r] = t /\ batch'[r] = batch[r] /\ pc'[r] = "tenant" /\ endpoint' = endpoint
        /\ todo'[r] = {endpoint[m].provider : m \in Owed(r, t)}
    BY <1>1, <1>4 DEF OpenTenant, history
  <2>2. Owed(r, t)' = Owed(r, t)
    BY <2>1 DEF Owed
  <2>3. n \in Owed(r, t) => endpoint[n].provider \in todo'[r]
    BY <2>1
  <2> QED BY <2>1, <2>2, <2>3 DEF WillSettle, Holds, Owed
<1>5. ASSUME NEW p \in Providers, RereadLands(r, p) PROVE Kept
  <2>1. /\ pc[r] = "tenant" /\ UNCHANGED <<pc, batch, tenant, endpoint>>
        /\ todo'[r] = todo[r] \ {p} /\ landed'[r] = landed[r] \cup {p}
    BY <1>1, <1>5 DEF RereadLands, Rereads
  <2>2. n \in pending[r] => notice'[n].attempts >= notice[n].attempts + 1
    BY <1>1, <1>2, <1>5 DEF RereadLands, CommitsCharges
  <2> QED BY <2>1, <2>2 DEF WillSettle, Holds, Owed
<1>6. ASSUME NEW p \in Providers, RereadFails(r, p) PROVE Kept
  <2>1. /\ pc[r] = "tenant" /\ UNCHANGED <<pc, batch, tenant, endpoint, landed>>
        /\ todo'[r] = todo[r] \ {p} /\ pending'[r] = Group(r, p)
    BY <1>1, <1>6 DEF RereadFails, Rereads
  <2>2. n \in pending[r] => notice'[n].attempts >= notice[n].attempts + 1
    BY <1>1, <1>2, <1>6 DEF RereadFails, CommitsCharges
  <2> QED BY <2>1, <2>2 DEF WillSettle, Holds, Owed, Group
<1>7. ASSUME NEW p \in Providers, RereadIsAmbiguous(r, p) PROVE Kept
  <2>1. /\ pc[r] = "tenant" /\ UNCHANGED <<pc, batch, tenant, endpoint, landed>>
        /\ todo'[r] = todo[r] \ {p} /\ pending'[r] = pending[r] \cup Group(r, p)
    BY <1>1, <1>7 DEF RereadIsAmbiguous, Rereads
  <2> QED BY <2>1 DEF WillSettle, Holds, Owed, Group
<1>8. CASE Advance(r)
  <2>1. /\ todo[r] = {} /\ pc'[r] = "advanced" /\ pc[r] = "tenant"
        /\ UNCHANGED <<batch, tenant, endpoint, landed>>
    BY <1>1, <1>8 DEF Advance, history
  <2>2. \/ pending' = pending
        \/ n \in pending[r] => notice'[n].attempts >= notice[n].attempts + 1
    BY <1>1, <1>2, <1>8 DEF Advance, CommitsCharges
  <2> QED BY <2>1, <2>2 DEF WillSettle, Holds, Owed
<1>9. ASSUME ClosesTenant(r), pc[r] \in {"tenant", "advanced", "charging"},
             n \notin Owed(r, tenant[r])
      PROVE  Kept
  BY <1>9, ClosingHoldsLess DEF WillSettle
<1>10. CASE MarkProcessed(r)
  <2>1. CASE n \notin Owed(r, tenant[r])
    BY <1>9, <1>10, <2>1 DEF MarkProcessed
  <2>2. CASE n \in Owed(r, tenant[r])
    <3>1. endpoint[n].provider \in landed[r] \/ n \in pending[r]
      BY <1>10, <2>2 DEF WillSettle, MarkProcessed
    <3> DEFINE S == UNION {Group(r, p) : p \in landed[r]}
    <3>2. endpoint[n].provider \in landed[r] => n \in S
      BY <2>2 DEF Group
    <3>3. S \in SUBSET Notices /\ notice' = Marked(r, S)
      BY <1>10, LandedGroups DEF MarkProcessed
    <3> HIDE DEF S
    <3>4. /\ n \in S => notice'[n].processed
          /\ n \in pending[r] \ S => notice'[n].attempts = notice[n].attempts + 1
      BY <3>3, MarksMove
    <3>5. n \in pending[r] \ S => notice'[n].attempts >= notice[n].attempts + 1
      BY <1>1, <3>4
    <3> QED BY <3>1, <3>2, <3>4, <3>5
  <2> QED BY <2>1, <2>2
<1>11. CASE NothingLanded(r)
  <2>1. CASE n \notin Owed(r, tenant[r])
    BY <1>9, <1>11, <2>1 DEF NothingLanded
  <2>2. CASE n \in Owed(r, tenant[r])
    <3>1. n \in pending[r]
      BY <1>11, <2>2 DEF WillSettle, NothingLanded
    <3> QED BY <1>1, <1>2, <1>11, <3>1 DEF NothingLanded, CommitsCharges
  <2> QED BY <2>1, <2>2
<1>12. CASE Raises(r)
  <2>1. pc'[r] = "charging" /\ batch'[r] = batch[r]
    BY <1>1, <1>12 DEF Raises
  <2> QED BY <2>1 DEF WillSettle, Holds
<1>13. CASE ChargeTenant(r)
  <2>0. pc[r] = "charging" /\ ClosesTenant(r) /\ notice' = Charged(Owed(r, tenant[r]))
    BY <1>13 DEF ChargeTenant
  <2>1. CASE n \notin Owed(r, tenant[r])
    BY <1>9, <2>0, <2>1
  <2>2. CASE n \in Owed(r, tenant[r])
    BY <1>1, <1>2, <2>0, <2>2
  <2> QED BY <2>1, <2>2
<1> QED
  BY <1>3, <1>4, <1>5, <1>6, <1>7, <1>8, <1>10, <1>11, <1>12, <1>13 DEF Serves

(* However the runs end, a notice that stayed claimed for as long as it    *)
(* was held is claimed at most as often as its budget says, plus once for  *)
(* every worker that died.                                                 *)
THEOREM TriesAreBounded == Spec => []BudgetBoundsTries
<1>1. Init => BudgetInv
  <2> SUFFICES ASSUME Init, NEW n \in Notices PROVE Within(n)
    BY DEF BudgetInv
  <2>1. claims[n] = 0 /\ notice[n].attempts = 0 /\ deaths = 0
    BY DEF Init
  <2> QED BY <2>1, QueueAssumption DEF Within, Even
<1>2. TypeOK /\ TypeOK' /\ ClaimInv /\ BudgetInv /\ [Next]_vars => BudgetInv'
  <2> SUFFICES ASSUME TypeOK, TypeOK', ClaimInv, BudgetInv, [Next]_vars,
                      NEW n \in Notices, n \notin lapsed'
               PROVE  Within(n)'
    BY DEF BudgetInv
  <2>0. /\ claims \in [Notices -> Nat] /\ notice[n].attempts \in Nat /\ deaths \in Nat
        /\ notice'[n].attempts \in Nat /\ RowsOnlyGain
    BY RowsGain, QueueAssumption DEF TypeOK, Rows
  <2>1. CASE UNCHANGED vars
    BY <2>1 DEF BudgetInv, Within, Even, WillSettle, Holds, Owed, vars, runVars, history
  <2>2. CASE \/ \E m \in Notices : Receive(m) \/ ComesDue(m)
             \/ \E d \in Destinations : AddProperty(d)
    <3>1. /\ UNCHANGED <<pc, batch, tenant, todo, landed, pending, endpoint, claims, deaths>>
          /\ lapsed \subseteq lapsed'
      BY <2>2 DEF Receive, ComesDue, Due, AddProperty, runVars
    <3>2. Within(n)
      BY <3>1 DEF BudgetInv
    <3>3. notice'[n].attempts >= notice[n].attempts
          /\ (notice[n].processed => notice'[n].processed)
      BY <2>0 DEF RowsOnlyGain
    <3>4. \A r \in Runs : WillSettle(r, n)' = WillSettle(r, n)
      BY <3>1 DEF WillSettle, Holds, Owed
    <3>5. Even(n) => Even(n)'
      BY <2>0, <3>1, <3>3 DEF Even
    <3>6. claims[n] <= notice[n].attempts + deaths + 1
            => claims'[n] <= notice'[n].attempts + deaths' + 1
      BY <2>0, <3>1, <3>3
    <3> QED BY <3>1, <3>2, <3>3, <3>4, <3>5, <3>6 DEF Within
  <2>3. ASSUME NEW r \in Runs, Serves(r) PROVE Within(n)'
    <3>1. /\ OthersStay(r) /\ claims' = claims /\ deaths' = deaths /\ endpoint' = endpoint
          /\ lapsed' = lapsed
      BY <2>3, WorkIsLocal
    <3>2. Within(n)
      BY <3>1 DEF BudgetInv
    <3>3. WillSettle(r, n) => \/ WillSettle(r, n)'
                              \/ notice'[n].processed
                              \/ notice'[n].attempts >= notice[n].attempts + 1
      BY <2>3, PromiseKept
    <3> QED BY <2>0, <3>1, <3>2, <3>3, PromiseStays
  <2>4. ASSUME NEW r \in Runs, Lease(r) PROVE Within(n)'
    <3> DEFINE won == batch[r] \cap Selectable
    <3>1. /\ pc[r] = "selected"
          /\ batch' = [batch EXCEPT ![r] = won]
          /\ pc' = [pc EXCEPT ![r] = IF won = {} THEN "idle" ELSE "working"]
          /\ claims' = [m \in Notices |-> IF m \in won THEN claims[m] + 1 ELSE claims[m]]
          /\ UNCHANGED <<tenant, todo, landed, pending, endpoint, lapsed, deaths>>
      BY <2>4 DEF Lease, Claims
    <3>2. n \in won => /\ notice[n].due /\ ~notice[n].processed
                       /\ notice[n].attempts < MaxAttempts
      BY DEF Selectable
    <3> HIDE DEF won
    <3>3. Within(n)
      BY <3>1 DEF BudgetInv
    <3>4. \A q \in Runs : WillSettle(q, n) => WillSettle(q, n)'
      <4>1. ASSUME NEW q \in Runs, WillSettle(q, n) PROVE q # r
        BY <3>1, <4>1 DEF WillSettle, Holds
      <4>2. \A q \in Runs \ {r} : pc'[q] = pc[q] /\ batch'[q] = batch[q]
        BY <3>1 DEF TypeOK
      <4> QED BY <3>1, <4>1, <4>2 DEF WillSettle, Holds, Owed
    <3>5. notice'[n].attempts >= notice[n].attempts
          /\ (notice[n].processed => notice'[n].processed)
      BY <2>0 DEF RowsOnlyGain
    <3>6. CASE n \notin won
      <4>1. claims'[n] = claims[n] /\ deaths' = deaths
        BY <3>1, <3>6
      <4>2. Even(n) => Even(n)'
        BY <2>0, <3>5, <4>1 DEF Even
      <4>3. claims[n] <= notice[n].attempts + deaths + 1
              => claims'[n] <= notice'[n].attempts + deaths' + 1
        BY <2>0, <3>5, <4>1
      <4> QED BY <3>3, <3>4, <3>5, <4>1, <4>2, <4>3 DEF Within
    <3>7. CASE n \in won
      <4>1. \A q \in Runs : ~Holds(q, n)
        BY <3>1, <3>2, <3>7 DEF ClaimInv
      <4>2. Even(n)
        BY <3>2, <3>3, <3>7, <4>1 DEF Within, WillSettle
      <4>3. claims'[n] = claims[n] + 1 /\ deaths' = deaths
        BY <3>1, <3>7
      <4>4. claims'[n] <= notice'[n].attempts + deaths' + 1
        BY <2>0, <3>5, <4>2, <4>3 DEF Even
      <4>5. claims'[n] <= MaxAttempts + deaths'
        BY <2>0, <3>2, <3>7, <4>2, <4>3, QueueAssumption DEF Even
      <4>6. WillSettle(r, n)'
        <5>1. pc'[r] = "working" /\ n \in batch'[r]
          BY <3>1, <3>7 DEF TypeOK
        <5> QED BY <5>1 DEF WillSettle, Holds
      <4> QED BY <4>4, <4>5, <4>6 DEF Within
    <3> QED BY <3>6, <3>7
  <2>5. ASSUME NEW r \in Runs, WorkerDies(r) PROVE Within(n)'
    <3>1. deaths' = deaths + 1 /\ UNCHANGED <<notice, claims, lapsed>>
      BY <2>5 DEF WorkerDies
    <3>2. Within(n)
      BY <3>1 DEF BudgetInv
    <3>3. claims'[n] <= MaxAttempts + deaths'
      BY <2>0, <3>1, <3>2, QueueAssumption DEF Within
    <3>4. ~notice[n].processed => Even(n)'
      BY <2>0, <3>1, <3>2 DEF Within, Even
    <3> QED BY <3>1, <3>3, <3>4 DEF Within
  <2> QED BY <2>1, <2>2, <2>3, <2>4, <2>5 DEF Next, Work, Serves
<1>3. BudgetInv => BudgetBoundsTries
  BY DEF BudgetInv, Within, BudgetBoundsTries
<1> QED BY <1>1, <1>2, <1>3, QueueTypeCorrect, ClaimsHold, PTL DEF Spec
=============================================================================
