----------------------------- MODULE ExpenseLedger -----------------------------
(***************************************************************************)
(* The expenses of one property and the monthly statements that bill them. *)
(* An office clerk creates, edits and deletes expenses; an expense above   *)
(* the tenant's threshold waits for the owner's approval, which a job      *)
(* copies onto it (or deletes it for) every five minutes; and the          *)
(* generator, by hand or by clock, sums what is billable in a month and    *)
(* writes the statement's number on it.  From then on an expense cannot be *)
(* changed, so that the sum remains the sum.                               *)
(*                                                                         *)
(* Currency, category and the stays' income take no part: they are read    *)
(* and frozen like the amount.  The unique key of a statement is its month;*)
(* its status and its notes bear on no expense and are left out.           *)
(***************************************************************************)
EXTENDS Naturals, Functions

CONSTANTS
    Items,          \* the expenses there can be
    Months,
    Due,            \* those the generator is run for
    Clerks,         \* requests of the office that may be going on at once
    Generators,     \* executions of the generator, by clock or by hand
    Threshold,      \* owner_approval_threshold_eur
    MaxAmount,      \* bound on the amounts
    MaxApprovals    \* bound on the approvals asked for one expense

None == "NONE"

ASSUME LedgerAssumption ==
    /\ Due \subseteq Months /\ None \notin Months
    /\ Threshold \in Nat /\ MaxAmount \in Nat /\ MaxApprovals \in Nat

VARIABLES
    expense,    \* the committed rows of expenses
    approvals,  \* the owner's answers about each of them, as numbers of each
    closed,     \* the months that have a statement
    billed,     \* what it charges
    clerk,      \* the request each clerk is making, with the copy it loaded
    listed,     \* the expenses a generator has read, with the month
    fetched,    \* the answers the reconciliation has read
    raced       \* history: months whose list was no longer true at the commit

ledgerVars == <<expense, approvals, closed, billed, clerk, listed, fetched, raced>>

Amounts == 1..MaxAmount
ApprovalStatuses == {"PENDING", "APPROVED", "REJECTED"}
Expenses ==
    [amount : Amounts, month : Months, approved : BOOLEAN, statement : Months \cup {None}]
(* A row that is not there is an empty set, one that is a singleton. *)
Row(x) == {x}
NoRow == {}
Copies == [item : Items, before : SUBSET Expenses, future : Expenses]

Billable(x) == x.statement = None /\ (x.amount <= Threshold \/ x.approved)
Bill(m) == {i \in Items : \E x \in expense[i] : x.statement = m}
Amount(row) == (CHOOSE x \in row : TRUE).amount
Charges(rows, billable) == [i \in billable |-> Amount(rows[i])]

LedgerTypeOK ==
    /\ expense \in [Items -> SUBSET Expenses]
    /\ approvals \in [Items -> [ApprovalStatuses -> 0..MaxApprovals]]
    /\ closed \subseteq Months
    /\ DOMAIN billed = Months
    /\ clerk \in [Clerks -> SUBSET Copies]
    /\ listed \in [Generators -> SUBSET [month : Months, items : [Items -> SUBSET Expenses]]]
    /\ fetched \subseteq Items \X ApprovalStatuses
    /\ raced \subseteq Months
    /\ \A i \in Items : \A x, y \in expense[i] : x = y
    /\ \A m \in Months : Bill(m) # {} => m \in closed

LedgerInit ==
    /\ expense = [i \in Items |-> NoRow]
    /\ approvals = [i \in Items |-> [a \in ApprovalStatuses |-> 0]]
    /\ closed = {}
    /\ billed = [m \in Months |-> 0]
    /\ clerk = [c \in Clerks |-> {}]
    /\ listed = [g \in Generators |-> {}]
    /\ fetched = {}
    /\ raced = {}
-----------------------------------------------------------------------------
TimesAsked(i) == approvals[i]["PENDING"] + approvals[i]["APPROVED"] + approvals[i]["REJECTED"]

AsksForApproval(i, needed) ==
    IF needed
      THEN /\ TimesAsked(i) < MaxApprovals
           /\ approvals' = [approvals EXCEPT ![i]["PENDING"] = @ + 1]
      ELSE UNCHANGED approvals

(* An identifier is new: nobody has heard of it. *)
NewItem(i) ==
    /\ expense[i] = NoRow /\ TimesAsked(i) = 0
    /\ \A c \in Clerks : \A copy \in clerk[c] : copy.item # i
    /\ \A g \in Generators : \A l \in listed[g] : l.items[i] = NoRow
    /\ \A a \in ApprovalStatuses : <<i, a>> \notin fetched

(* CreateExpenseUseCase: no statement covers the date when it looks. *)
CheckPeriod(c, i, amount, m) ==
    /\ clerk[c] = {} /\ NewItem(i)
    /\ m \notin closed
    /\ clerk' = [clerk EXCEPT ![c] =
           {[item |-> i, before |-> NoRow,
             future |-> [amount |-> amount, month |-> m,
                         approved |-> FALSE, statement |-> None]]}]
    /\ UNCHANGED <<expense, approvals, closed, billed, listed, fetched, raced>>

(* The row and the approval it needs, in one commit. *)
InsertExpense(c, copy) ==
    /\ copy \in clerk[c] /\ copy.before = NoRow
    /\ clerk' = [clerk EXCEPT ![c] = {}]
    /\ expense' = [expense EXCEPT ![copy.item] = Row(copy.future)]
    /\ AsksForApproval(copy.item, copy.future.amount > Threshold)
    /\ UNCHANGED <<closed, billed, listed, fetched, raced>>

(* UpdateExpenseUseCase loads the expense and the statement its new month  *)
(* may have.                                                               *)
LoadExpense(c, i, amount, m) ==
    /\ clerk[c] = {}
    /\ \E x \in expense[i] :
         /\ m = x.month \/ m \notin closed
         /\ <<amount, m>> # <<x.amount, x.month>>
         /\ clerk' = [clerk EXCEPT ![c] =
                {[item |-> i, before |-> Row(x),
                  future |-> [x EXCEPT !.amount = amount, !.month = m]]}]
    /\ UNCHANGED <<expense, approvals, closed, billed, listed, fetched, raced>>

(* What save may write over the row it has locked. *)
Frozen(row, future) ==
    /\ row.statement # None
    /\ <<row.amount, row.month, row.statement, row.approved>>
         # <<future.amount, future.month, future.statement, future.approved>>

(* save: the row is locked, compared and written; what is refused is       *)
(* rolled back with the approval.  statement_id and approved_by are        *)
(* compared, never written.  A row that is gone is not written.            *)
WritesExpense(c, copy, frozen(_, _)) ==
    /\ copy \in clerk[c] /\ copy.before # NoRow
    /\ clerk' = [clerk EXCEPT ![c] = {}]
    /\ IF \E row \in expense[copy.item] : frozen(row, copy.future)
         THEN UNCHANGED <<expense, approvals>>
         ELSE /\ expense' = [expense EXCEPT ![copy.item] =
                     {[row EXCEPT !.amount = copy.future.amount,
                                  !.month = copy.future.month] : row \in @}]
              /\ AsksForApproval(copy.item,
                     /\ copy.future.amount > Threshold
                     /\ \E x \in copy.before :
                          x.amount # copy.future.amount /\ ~x.approved /\ x.statement = None)
    /\ UNCHANGED <<closed, billed, listed, fetched, raced>>

BugChecksTheCopy(c, copy) ==
    WritesExpense(c, copy, LAMBDA row, future : \E x \in copy.before : Frozen(x, future))

SaveExpense(c, copy) == WritesExpense(c, copy, Frozen)

(* DeleteExpenseUseCase: DELETE ... WHERE statement_id IS NULL, after a    *)
(* check on a copy that may have been consolidated since.                  *)
DeleteExpense(i) ==
    /\ \E row \in expense[i] : row.statement = None
    /\ expense' = [expense EXCEPT ![i] = NoRow]
    /\ UNCHANGED <<approvals, closed, billed, clerk, listed, fetched, raced>>

(* The owner answers.  Where the answer enters is not part of this module. *)
OwnerAnswers(i, a) ==
    /\ approvals[i]["PENDING"] > 0 /\ a # "PENDING"
    /\ approvals' = [approvals EXCEPT ![i]["PENDING"] = @ - 1, ![i][a] = @ + 1]
    /\ UNCHANGED <<expense, closed, billed, clerk, listed, fetched, raced>>
-----------------------------------------------------------------------------
(* GenerateOwnerStatementUseCase._generate_one                             *)

(* find_by_unique_key and list_for_period: nothing is locked. *)
ListForPeriod(g, m) ==
    /\ listed[g] = {} /\ m \notin closed
    /\ listed' = [listed EXCEPT ![g] =
           {[month |-> m,
             items |-> [i \in Items |-> {x \in expense[i] : x.month = m /\ Billable(x)}]]}]
    /\ UNCHANGED <<expense, approvals, closed, billed, clerk, fetched, raced>>

Forgets(g) == listed' = [listed EXCEPT ![g] = {}]

(* The unique key refuses a second statement, and the property is rolled   *)
(* back; so it is when a currency is not the euro, or on any error.        *)
GenerationFails(g) ==
    /\ listed[g] # {}
    /\ Forgets(g)
    /\ UNCHANGED <<expense, approvals, closed, billed, clerk, fetched, raced>>

ItemsOf(l) == {i \in Items : l.items[i] # {}}

(* The sum of the list, the statement, and its number on what is still     *)
(* there and not yet billed.                                               *)
BillPeriod(g, l) ==
    /\ l \in listed[g] /\ l.month \notin closed
    /\ closed' = closed \cup {l.month}
    /\ billed' = [billed EXCEPT ![l.month] =
           SumFunction(Charges(l.items, ItemsOf(l)))]
    /\ expense' = [i \in Items |->
           {IF i \in ItemsOf(l) /\ x.statement = None
              THEN [x EXCEPT !.statement = l.month] ELSE x : x \in expense[i]}]
    /\ raced' = IF \A i \in ItemsOf(l) :
                     \E x \in expense[i], y \in l.items[i] :
                        x.statement = None /\ x.amount = y.amount
                  THEN raced ELSE raced \cup {l.month}
    /\ Forgets(g)
    /\ UNCHANGED <<approvals, clerk, fetched>>
-----------------------------------------------------------------------------
(* ReconcileOwnerApprovalsForExpensesUseCase                               *)

Materialisable(i, a) ==
    /\ approvals[i][a] > 0
    /\ \E x \in expense[i] :
         x.statement = None /\ (a = "REJECTED" \/ (a = "APPROVED" /\ ~x.approved))

ToMaterialise ==
    {p \in Items \X (ApprovalStatuses \ {"PENDING"}) : Materialisable(p[1], p[2])}

FetchPending ==
    /\ fetched = {} /\ ToMaterialise # {}
    /\ fetched' = ToMaterialise
    /\ UNCHANGED <<expense, approvals, closed, billed, clerk, listed, raced>>

Materialises(approves) ==
    /\ fetched # {}
    /\ expense' = [i \in Items |->
           IF <<i, "REJECTED">> \in fetched
             THEN {x \in expense[i] : x.statement # None}
           ELSE IF <<i, "APPROVED">> \in fetched
             THEN {IF x.statement = None /\ approves
                     THEN [x EXCEPT !.approved = TRUE] ELSE x : x \in expense[i]}
           ELSE expense[i]]
    /\ fetched' = {}
    /\ UNCHANGED <<approvals, closed, billed, clerk, listed, raced>>

BugForgetsApprovals == Materialises(FALSE)

(* materialise_approved and materialise_rejected, each guarded by          *)
(* statement_id IS NULL, and one commit.                                   *)
Materialise == Materialises(TRUE)
-----------------------------------------------------------------------------
Reconciliation == FetchPending \/ Materialise

LedgerNext ==
    \/ \E i \in Items, amount \in Amounts, m \in Months :
         \E c \in Clerks : CheckPeriod(c, i, amount, m) \/ LoadExpense(c, i, amount, m)
    \/ \E c \in Clerks : \E copy \in clerk[c] : InsertExpense(c, copy) \/ SaveExpense(c, copy)
    \/ \E i \in Items : DeleteExpense(i) \/ \E a \in ApprovalStatuses : OwnerAnswers(i, a)
    \/ \E g \in Generators :
         \/ \E m \in Due : ListForPeriod(g, m)
         \/ \E l \in listed[g] : BillPeriod(g, l)
         \/ GenerationFails(g)
    \/ Reconciliation

LedgerSpec == LedgerInit /\ [][LedgerNext]_ledgerVars

(* Beat starts the reconciliation every five minutes. *)
LedgerFairness == WF_ledgerVars(Reconciliation)
-----------------------------------------------------------------------------
(* A statement charges exactly the expenses that carry its number, now and *)
(* whatever is tried later: nobody changes or deletes one of them, by hand *)
(* or by an answer that came too late.  What the code does not keep out is *)
(* a change between the generator's list and its commit (raced).           *)
StatementAddsUp ==
    \A m \in closed \ raced :
        billed[m] = SumFunction(Charges(expense, Bill(m)))

(* What the owner answered reaches the expense, unless a statement or a    *)
(* person was faster: it is approved, gone, or already billed.             *)
Answered(i) == \E a \in ApprovalStatuses \ {"PENDING"} : approvals[i][a] > 0

Settled(i) ==
    \A x \in expense[i] :
        \/ x.statement # None
        \/ approvals[i]["REJECTED"] = 0 /\ (approvals[i]["APPROVED"] > 0 => x.approved)

AnswersAreApplied == \A i \in Items : Answered(i) ~> Settled(i)
=============================================================================
