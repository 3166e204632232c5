---------------------------- MODULE WebhookQueue ----------------------------
(***************************************************************************)
(* The queue of provider notices and the job that drains it.  A run reads  *)
(* the pending notices, claims them by compare-and-swap and works them     *)
(* tenant by tenant: one re-read per provider, each of which commits the   *)
(* tenant's session, then one commit that marks what landed.  A tenant     *)
(* whose work raises is rolled back and charged on the session of the run. *)
(*                                                                         *)
(* Time is abstracted: a notice is due or is not, and a lease or a retry   *)
(* delay may end at any moment, also under a run that is still working.    *)
(* Runs may overlap (JobLock says when).  Definitions named Bug... are     *)
(* faulty variants of the one after each, for the mutation runs only.      *)
(***************************************************************************)
EXTENDS Naturals, FiniteSets

CONSTANTS
    Notices,        \* natural numbers, in the order of their arrival
    Tenants,
    Providers,
    Destinations,   \* the tenants and providers that properties may be of
    Openings,       \* whose notices may come, and of what there are properties already
    NoTenant,
    Runs,           \* executions of the job that may be going on at once
    MaxAttempts,    \* MAX_WEBHOOK_ATTEMPTS
    BatchSize,
    MaxDeaths,      \* bound on the workers that die
    MaxLapses       \* bound on the notices that come due while a run holds them

ASSUME QueueAssumption ==
    /\ Notices \subseteq Nat /\ IsFiniteSet(Notices)
    /\ MaxAttempts \in Nat \ {0} /\ BatchSize \in Nat \ {0} /\ MaxDeaths \in Nat /\ MaxLapses \in Nat
    /\ Destinations \subseteq Tenants \X Providers
    /\ Openings \subseteq [endpoint : [Notices -> [tenant : Tenants, provider : Providers]],
                         portfolio : SUBSET Destinations]
    /\ NoTenant \notin Tenants

VARIABLES
    endpoint,   \* the tenant and the provider of the endpoint each notice comes to
    notice,     \* the committed rows of webhook_events
    portfolio,  \* the destinations that some property resolves to
    pc,         \* where each run is
    batch,      \* the notices a run selected, then those it claimed and still owes
    tenant,     \* the tenant whose session a run has open
    todo,       \* the providers it has still to re-read there
    landed,     \* those whose re-read landed
    pending,    \* the notices it charged and has not committed
    expected,   \* history: notices that came when their destination was in the portfolio
    claims,     \* history: how often each notice was claimed
    lapsed,     \* history: notices that came due again while a run held them
    reread,     \* history: notices whose destination a run re-read for them
    deaths      \* history: workers that died

runVars == <<pc, batch, tenant, todo, landed, pending>>
history == <<endpoint, portfolio, expected, claims, lapsed, reread, deaths>>
vars == <<notice, runVars, history>>

Rows == [stored : BOOLEAN, processed : BOOLEAN, attempts : Nat, due : BOOLEAN]

Received == {n \in Notices : notice[n].stored}
Settled(n) == notice[n].processed \/ notice[n].attempts >= MaxAttempts

TypeOK ==
    /\ endpoint \in [Notices -> [tenant : Tenants, provider : Providers]]
    /\ notice \in [Notices -> Rows]
    /\ portfolio \subseteq Destinations /\ expected \subseteq Notices
    /\ pc \in [Runs -> {"idle", "selected", "working", "tenant", "advanced", "charging"}]
    /\ batch \in [Runs -> SUBSET Notices]
    /\ tenant \in [Runs -> Tenants \cup {NoTenant}]
    /\ todo \in [Runs -> SUBSET Providers] /\ landed \in [Runs -> SUBSET Providers]
    /\ pending \in [Runs -> SUBSET Notices]
    /\ claims \in [Notices -> Nat]
    /\ lapsed \subseteq Notices /\ reread \subseteq Notices
    /\ deaths \in 0..MaxDeaths
    /\ \A r \in Runs :
         /\ pc[r] = "idle" => batch[r] = {}
         /\ pending[r] \subseteq batch[r] /\ batch[r] \subseteq Received
         /\ tenant[r] # NoTenant <=> pc[r] \in {"tenant", "advanced", "charging"}
         /\ pc[r] \notin {"tenant", "advanced"}
              => todo[r] = {} /\ landed[r] = {} /\ pending[r] = {}

Init ==
    /\ \E opening \in Openings :
         endpoint = opening.endpoint /\ portfolio = opening.portfolio
    /\ notice \in [Notices ->
           {[stored |-> FALSE, processed |-> FALSE, attempts |-> 0, due |-> TRUE]}]
    /\ expected = {}
    /\ pc = [r \in Runs |-> "idle"]
    /\ batch = [r \in Runs |-> {}]
    /\ tenant = [r \in Runs |-> NoTenant]
    /\ todo = [r \in Runs |-> {}]
    /\ landed = [r \in Runs |-> {}]
    /\ pending = [r \in Runs |-> {}]
    /\ claims = [n \in Notices |-> 0]
    /\ lapsed = {}
    /\ reread = {}
    /\ deaths = 0

Destination(n) == <<endpoint[n].tenant, endpoint[n].provider>>

(* ReceiveWebhookUseCase.record: the tenant is that of the endpoint.  It   *)
(* is not asked whether the tenant has a property of that provider.        *)
Receive(n) ==
    /\ n \notin Received
    /\ \A m \in Notices : m < n => m \in Received
    /\ notice' = [notice EXCEPT ![n].stored = TRUE]
    /\ expected' = IF Destination(n) \in portfolio THEN expected \cup {n} ELSE expected
    /\ UNCHANGED <<runVars, endpoint, portfolio, claims, lapsed, reread, deaths>>

(* CreatePropertyUseCase: the first property of its provider.  A property  *)
(* keeps its provider, and none is removed.                                *)
AddProperty(d) ==
    /\ d \notin portfolio
    /\ portfolio' = portfolio \cup {d}
    /\ UNCHANGED <<notice, runVars, endpoint, expected, claims, lapsed, reread, deaths>>

Holds(r, n) == pc[r] # "selected" /\ n \in batch[r]

Due(n) ==
    /\ ~notice[n].due /\ ~Settled(n)
    /\ notice' = [notice EXCEPT ![n].due = TRUE]
    /\ IF \E r \in Runs : Holds(r, n)
         THEN /\ lapsed' = lapsed \cup {n}
              /\ Cardinality(lapsed') <= MaxLapses
         ELSE UNCHANGED lapsed
    /\ UNCHANGED <<runVars, endpoint, portfolio, expected, claims, reread, deaths>>

BugClaimForGood(n) == notice[n].attempts > 0 /\ Due(n)

(* A lease lapses or a retry delay ends; of a settled notice nobody asks. *)
ComesDue(n) == Due(n)
-----------------------------------------------------------------------------
(* The predicate select_pending and lease share. *)
Selectable ==
    {n \in Received :
        ~notice[n].processed /\ notice[n].attempts < MaxAttempts /\ notice[n].due}

(* select_pending: the oldest come first. *)
Select(r) ==
    /\ pc[r] = "idle"
    /\ Selectable # {}
    /\ pc' = [pc EXCEPT ![r] = "selected"]
    /\ batch' = [batch EXCEPT ![r] =
           {n \in Selectable : Cardinality({m \in Selectable : m < n}) < BatchSize}]
    /\ UNCHANGED <<notice, tenant, todo, landed, pending, history>>

Claims(r, won) ==
    /\ pc[r] = "selected"
    /\ notice' = [n \in Notices |->
           IF n \in won THEN [notice[n] EXCEPT !.due = FALSE] ELSE notice[n]]
    /\ claims' = [n \in Notices |-> IF n \in won THEN claims[n] + 1 ELSE claims[n]]
    /\ batch' = [batch EXCEPT ![r] = won]
    /\ pc' = [pc EXCEPT ![r] = IF won = {} THEN "idle" ELSE "working"]
    /\ UNCHANGED <<tenant, todo, landed, pending, endpoint, portfolio, expected, lapsed, reread,
                   deaths>>

BugLeaseById(r) == Claims(r, batch[r])

(* lease: what is claimed is what still matches, and only that is worked. *)
Lease(r) == Claims(r, batch[r] \cap Selectable)

Owed(r, t) == {n \in batch[r] : endpoint[n].tenant = t}
Group(r, p) == {n \in Owed(r, tenant[r]) : endpoint[n].provider = p}

(* run_in_marked_session *)
OpenTenant(r, t) ==
    /\ pc[r] = "working"
    /\ Owed(r, t) # {}
    /\ pc' = [pc EXCEPT ![r] = "tenant"]
    /\ tenant' = [tenant EXCEPT ![r] = t]
    /\ todo' = [todo EXCEPT ![r] = {endpoint[n].provider : n \in Owed(r, t)}]
    /\ UNCHANGED <<notice, batch, landed, pending, history>>

(* record_failure: one more attempt, and a retry delay. *)
Charged(charged) ==
    [n \in Notices |->
        IF n \in charged
          THEN [notice[n] EXCEPT !.attempts = @ + 1, !.due = FALSE] ELSE notice[n]]

(* The session is committed, with the charges it holds. *)
CommitsCharges(r) == notice' = Charged(pending[r])

Rereads(r, p) ==
    /\ pc[r] = "tenant"
    /\ p \in todo[r]
    /\ todo' = [todo EXCEPT ![r] = @ \ {p}]
    /\ UNCHANGED <<pc, batch, tenant, endpoint, portfolio, expected, claims, lapsed, deaths>>

HasProperties(r, p) == <<tenant[r], p>> \in portfolio

(* SyncReservationsFromPmsUseCase commits what it ingested.  It goes over  *)
(* the tenant's properties by provider: where none has the one it is asked *)
(* for it reads nothing, reports no failure and commits all the same.      *)
RereadLands(r, p) ==
    /\ Rereads(r, p)
    /\ CommitsCharges(r)
    /\ pending' = [pending EXCEPT ![r] = {}]
    /\ landed' = [landed EXCEPT ![r] = @ \cup {p}]
    /\ \/ HasProperties(r, p) /\ reread' = reread \cup Group(r, p)
       \/ ~HasProperties(r, p) /\ UNCHANGED reread

(* It commits when the provider is unavailable too, and the group is       *)
(* charged after that.                                                     *)
RereadFails(r, p) ==
    /\ Rereads(r, p) /\ HasProperties(r, p)
    /\ CommitsCharges(r)
    /\ pending' = [pending EXCEPT ![r] = Group(r, p)]
    /\ UNCHANGED <<landed, reread>>

(* AmbiguousPropertyExternalIdError leaves it before its commit. *)
RereadIsAmbiguous(r, p) ==
    /\ Rereads(r, p) /\ HasProperties(r, p)
    /\ pending' = [pending EXCEPT ![r] = @ \cup Group(r, p)]
    /\ UNCHANGED <<notice, landed, reread>>

(* The advance after the re-reads returns early when no flat awaits a      *)
(* check-in, and commits the session once more otherwise.                  *)
Advance(r) ==
    /\ pc[r] = "tenant"
    /\ todo[r] = {} /\ landed[r] # {}
    /\ pc' = [pc EXCEPT ![r] = "advanced"]
    /\ \/ UNCHANGED <<notice, pending>>
       \/ CommitsCharges(r) /\ pending' = [pending EXCEPT ![r] = {}]
    /\ UNCHANGED <<batch, tenant, todo, landed, history>>

Closed(r) ==
    LET rest == batch[r] \ Owed(r, tenant[r])
    IN  /\ batch' = [batch EXCEPT ![r] = rest]
        /\ pc' = [pc EXCEPT ![r] = IF rest = {} THEN "idle" ELSE "working"]
        /\ tenant' = [tenant EXCEPT ![r] = NoTenant]
        /\ todo' = [todo EXCEPT ![r] = {}]
        /\ landed' = [landed EXCEPT ![r] = {}]
        /\ UNCHANGED history

(* The run goes on with what it owes the other tenants. *)
ClosesTenant(r) == Closed(r) /\ pending' = [pending EXCEPT ![r] = {}]

Marked(r, marked) ==
    [n \in Notices |->
        IF n \in marked THEN [notice[n] EXCEPT !.processed = TRUE]
                       ELSE Charged(pending[r])[n]]

BugMarksTheTenant(r) ==
    /\ pc[r] = "advanced"
    /\ notice' = Marked(r, Owed(r, tenant[r]))
    /\ ClosesTenant(r)

(* mark_processed and the last commit. *)
MarkProcessed(r) ==
    /\ pc[r] = "advanced"
    /\ notice' = Marked(r, UNION {Group(r, p) : p \in landed[r]})
    /\ ClosesTenant(r)

(* Nothing landed: the charges are committed and that is all. *)
NothingLanded(r) ==
    /\ pc[r] = "tenant"
    /\ todo[r] = {} /\ landed[r] = {}
    /\ CommitsCharges(r)
    /\ ClosesTenant(r)

(* Anything else raises: the session is rolled back. *)
Raises(r) ==
    /\ pc[r] \in {"tenant", "advanced"}
    /\ pc' = [pc EXCEPT ![r] = "charging"]
    /\ todo' = [todo EXCEPT ![r] = {}]
    /\ landed' = [landed EXCEPT ![r] = {}]
    /\ pending' = [pending EXCEPT ![r] = {}]
    /\ UNCHANGED <<notice, batch, tenant, history>>

BugTenantNotCharged(r) ==
    /\ pc[r] = "charging"
    /\ ClosesTenant(r)
    /\ UNCHANGED notice

(* _schedule_retry on the session of the run, for all the tenant's notices. *)
ChargeTenant(r) ==
    /\ pc[r] = "charging"
    /\ notice' = Charged(Owed(r, tenant[r]))
    /\ ClosesTenant(r)

(* The worker dies; what it claimed comes back when the lease lapses. *)
WorkerDies(r) ==
    /\ pc[r] # "idle" /\ deaths < MaxDeaths
    /\ deaths' = deaths + 1
    /\ pc' = [pc EXCEPT ![r] = "idle"]
    /\ batch' = [batch EXCEPT ![r] = {}]
    /\ tenant' = [tenant EXCEPT ![r] = NoTenant]
    /\ todo' = [todo EXCEPT ![r] = {}]
    /\ landed' = [landed EXCEPT ![r] = {}]
    /\ pending' = [pending EXCEPT ![r] = {}]
    /\ UNCHANGED <<notice, endpoint, portfolio, expected, claims, lapsed, reread>>
-----------------------------------------------------------------------------
Work(r) ==
    \/ Select(r) \/ Lease(r)
    \/ \E t \in Tenants : OpenTenant(r, t)
    \/ \E p \in Providers : RereadLands(r, p) \/ RereadFails(r, p) \/ RereadIsAmbiguous(r, p)
    \/ Advance(r) \/ MarkProcessed(r) \/ NothingLanded(r) \/ Raises(r) \/ ChargeTenant(r)

Next ==
    \/ \E n \in Notices : ComesDue(n) \/ Receive(n)
    \/ \E d \in Destinations : AddProperty(d)
    \/ \E r \in Runs : Work(r) \/ WorkerDies(r)

Spec == Init /\ [][Next]_vars

(* Leases and delays end, beat starts the job again and again and a worker *)
(* that is alive goes on.                                                  *)
FairSpec ==
    /\ Spec
    /\ \A n \in Notices : WF_vars(ComesDue(n))
    /\ \A r \in Runs : WF_vars(Work(r))
-----------------------------------------------------------------------------
(* Two runs that selected the same notice never both work it, unless it    *)
(* came due again under the first: the claim decides, and a claim is not   *)
(* given back early.                                                       *)
ClaimedByOne ==
    \A r, s \in Runs, n \in Notices :
        r # s /\ Holds(r, n) /\ Holds(s, n) => n \in lapsed

(* However a run ends, the claim of a notice costs it an attempt or        *)
(* settles it: a failing notice is tried as often as its budget says, plus *)
(* once for every worker that died.                                        *)
BudgetBoundsTries ==
    \A n \in Notices \ lapsed : claims[n] <= MaxAttempts + deaths

(* A processed notice had its own destination re-read for it, if its       *)
(* tenant had a property of that provider when it came: the failure of one *)
(* provider is not lost in the success of another.  Without such a         *)
(* property a notice may be marked with nothing re-read.                   *)
ProcessedWasReread == \A n \in expected : notice[n].processed => n \in reread

(* Every notice is processed or runs out of attempts, whoever dies.  A     *)
(* settled notice stays settled and there are finitely many, so this is to *)
(* say that again and again nothing received is left to settle.            *)
EveryNoticeSettles == []<>(\A n \in Received : Settled(n))
-----------------------------------------------------------------------------
(* What a comment says and the code does not do.                           *)

(* A tenant whose work failed has nothing left in the queue of what it     *)
(* wrote (ProcessWebhookEventsUseCase), so that a claim costs a notice at  *)
(* most one of its attempts.                                               *)
OneAttemptPerClaim == \A n \in Notices : notice[n].attempts <= claims[n]
=============================================================================
