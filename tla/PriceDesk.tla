------------------------------- MODULE PriceDesk -------------------------------
(***************************************************************************)
(* The recommended prices of one flat.  A run prices the days ahead of it  *)
(* from the rule that applies, each day within a daily change of the day   *)
(* before, and leaves alone what a person approved or applied; the nightly *)
(* run and the runs people ask for are not kept apart.  A person decides   *)
(* on a copy, and the decision writes the status and nothing else.         *)
(*                                                                         *)
(* Prices are counted in cents, a percentage in parts of Whole (100 in the *)
(* code).  The modifiers a date has by itself (its weekday, its seasons    *)
(* and events) are one number, since they are factors of one product.      *)
(* The explanations, notices and counters of a run are left out.           *)
(***************************************************************************)
EXTENDS Integers, FiniteSetsExt

CONSTANTS
    Sheets,         \* the rules a tenant may write down
    NoSheet,        \* for a flat to which no active rule applies
    Occupancies,    \* the occupancies the reservations may amount to
    Whole,          \* the parts of which a percentage is counted
    HorizonDays,    \* the days one run prices
    MaxToday,       \* bound on the days that pass
    MaxSweeps,      \* bound on the runs of the generator that are started
    MaxOpen         \* bound on the copies people hold at once

Days == 1..(MaxToday + HorizonDays)

(* No modifier discounts more than the whole price. *)
IsModifier(pct) == pct \in Int /\ pct >= -Whole

(* What PricingRule.validate asks of a rule. *)
IsRule(s) ==
    /\ {s.base, s.min, s.max} \subseteq Nat /\ s.min <= s.base /\ s.base <= s.max
    /\ s.cap \in 0..Whole
    /\ \A d \in Days : IsModifier(s.day[d])
    /\ \A t \in DOMAIN s.lead : t \in Nat /\ IsModifier(s.lead[t])
    /\ \A o \in DOMAIN s.occupancy : o \in 0..Whole /\ IsModifier(s.occupancy[o])

ASSUME PriceAssumption ==
    /\ Whole \in Nat \ {0} /\ HorizonDays \in Nat \ {0}
    /\ MaxToday \in Nat /\ MaxSweeps \in Nat /\ MaxOpen \in Nat
    /\ Occupancies \subseteq 0..Whole
    /\ NoSheet \notin Sheets
    /\ \A s \in Sheets : IsRule(s)

VARIABLES
    today,      \* the date on which a run that starts now runs
    sheet,      \* the active rule that applies to the flat
    rec,        \* the committed rows of price_recommendations, by day
    sweeps,     \* how many runs have started
    sweep,      \* the rule each run has resolved, and the date it started
    plan,       \* the occupancy and the rows each run has read
    decision,   \* the copies people decide on, and how
    basis,      \* history: what the last run that wrote went by
    stale       \* history: that run did not write what it had decided to

priceVars == <<today, sheet, rec, sweeps, sweep, plan, decision, basis, stale>>

PriceStatuses == {"RECOMMENDED", "APPROVED", "REJECTED", "APPLIED_EXTERNAL"}
PreservedStatuses == {"APPROVED", "APPLIED_EXTERNAL"}
Decided(row) == row.status \in PreservedStatuses
Horizon(from) == (from + 1)..(from + HorizonDays)
PriceRows == [status : PriceStatuses \cup {"ABSENT"}, price : Int]
Unpriced == [status |-> "ABSENT", price |-> 0]
Sweeps == 1..MaxSweeps
PriceCopies == [day : Days, to : {"APPROVED", "REJECTED", "APPLIED_EXTERNAL"}]

PricesTypeOK ==
    /\ today \in 0..MaxToday
    /\ sheet \in Sheets \cup {NoSheet}
    /\ rec \in [Days -> PriceRows]
    /\ sweeps \in 0..MaxSweeps
    /\ \A p \in Sweeps :
         /\ \A s \in sweep[p] : s.sheet \in Sheets /\ s.from \in 0..today
         /\ \A h \in plan[p] : \E s \in sweep[p] :
              h.occupancy \in Occupancies /\ h.seen \in [Horizon(s.from) -> PriceRows]
    /\ \A p \in (sweeps + 1)..MaxSweeps : sweep[p] = {} /\ plan[p] = {}
    /\ decision \subseteq PriceCopies /\ Cardinality(decision) <= MaxOpen
    /\ \A c \in decision : rec[c.day].status # "ABSENT"
    /\ \A d \in Days : rec[d].status = "ABSENT" =>
         \A b \in basis : d \notin Horizon(b.from)
    /\ stale \in BOOLEAN

PricesInit ==
    /\ today = 0
    /\ sheet \in Sheets \cup {NoSheet}
    /\ rec = [d \in Days |-> Unpriced]
    /\ sweeps = 0
    /\ sweep = [p \in Sweeps |-> {}]
    /\ plan = [p \in Sweeps |-> {}]
    /\ decision = {}
    /\ basis = {}
    /\ stale = FALSE
-----------------------------------------------------------------------------
(* calculate_price: the product of the modifiers, the daily change against *)
(* the day before, the bounds of the rule, and one rounding at the end.    *)
(* Up to there a price is counted in Cent parts of a cent.                 *)

Cent == Whole * Whole * Whole

(* The lead time rule with the lowest threshold the day is within. *)
LeadTime(s, before) ==
    LET fit == {t \in DOMAIN s.lead : before <= t}
    IN  IF fit = {} THEN 0 ELSE s.lead[Min(fit)]

(* The occupancy rule with the highest threshold that was reached. *)
Occupancy(s, pct) ==
    LET fit == {o \in DOMAIN s.occupancy : pct >= o}
    IN  IF fit = {} THEN 0 ELSE s.occupancy[Max(fit)]

Between(low, price, high) ==
    IF price < low THEN low ELSE IF price > high THEN high ELSE price

(* The day before has a price or, on the first day, none: a set of one or  *)
(* of none.                                                                *)
Capped(s, price, previous) ==
    IF previous = {} THEN price
    ELSE LET p == CHOOSE x \in previous : TRUE
         IN  Between(p * (Whole - s.cap) * Whole * Whole, price,
                     p * (Whole + s.cap) * Whole * Whole)

RoundHalfUp(price) == (2 * price + Cent) \div (2 * Cent)

CalculatePrice(s, d, before, pct, previous) ==
    LET product == s.base * (Whole + s.day[d]) * (Whole + LeadTime(s, before))
                          * (Whole + Occupancy(s, pct))
    IN  RoundHalfUp(Between(s.min * Cent, Capped(s, product, previous), s.max * Cent))
-----------------------------------------------------------------------------
DayPasses ==
    /\ today < MaxToday
    /\ today' = today + 1
    /\ UNCHANGED <<sheet, rec, sweeps, sweep, plan, decision, basis, stale>>

(* A rule of the flat's own or of the whole tenant is created, edited (it  *)
(* is validated and saved whole), switched off or on: whichever it was,    *)
(* what resolve_rule now finds for the flat is another one, or none.       *)
EditRule(s) ==
    /\ sheet # s
    /\ sheet' = s
    /\ UNCHANGED <<today, rec, sweeps, sweep, plan, decision, basis, stale>>

(* The rules are read once for all the flats of the run, so that the flats *)
(* before this one are priced and committed before its turn comes.         *)
ListRules(p) ==
    /\ sheet # NoSheet
    /\ p = sweeps + 1 /\ sweeps' = p
    /\ sweep' = [sweep EXCEPT ![p] = {[from |-> today, sheet |-> sheet]}]
    /\ UNCHANGED <<today, sheet, rec, plan, decision, basis, stale>>

ReadHorizon(p, pct) ==
    /\ plan[p] = {}
    /\ \E r \in sweep[p] :
         plan' = [plan EXCEPT ![p] =
             {[occupancy |-> pct, seen |-> [d \in Horizon(r.from) |-> rec[d]]]}]
    /\ UNCHANGED <<today, sheet, rec, sweeps, sweep, decision, basis, stale>>

BugCurveIgnoresDecisions(r, h) ==   \* previous_price is what it would have been
    LET curve[d \in Horizon(r.from)] ==
            CalculatePrice(r.sheet, d, d - r.from, h.occupancy,
                           IF d = r.from + 1 THEN {} ELSE {curve[d - 1]})
    IN  curve

(* The walk of _price_one_property: a day that was decided keeps its price,*)
(* and the next one is measured against it.                                *)
Curve(r, h) ==
    LET curve[d \in Horizon(r.from)] ==
            IF Decided(h.seen[d]) THEN h.seen[d].price
            ELSE CalculatePrice(r.sheet, d, d - r.from, h.occupancy,
                                IF d = r.from + 1 THEN {} ELSE {curve[d - 1]})
    IN  curve

BugUpsertsAll(row, price) ==        \* without the predicate on the status
    IF row.status = "ABSENT" THEN [status |-> "RECOMMENDED", price |-> price]
    ELSE [row EXCEPT !.price = price]

(* upsert_many on one row: insert it, or rewrite its price unless a person *)
(* has decided it in the meantime.                                         *)
Upserted(row, price) ==
    IF row.status = "ABSENT" THEN [status |-> "RECOMMENDED", price |-> price]
    ELSE IF Decided(row) THEN row
    ELSE [row EXCEPT !.price = price]

(* The price a row shows that no run will change, if it has one. *)
Standing(row) == IF Decided(row) THEN {row.price} ELSE {}

(* One statement, which locks the rows it meets, and the commit. *)
WriteHorizon(p, r, h) ==
    /\ r \in sweep[p] /\ h \in plan[p]
    /\ rec' = [d \in Days |->
           IF d \in Horizon(r.from) /\ ~Decided(h.seen[d])
           THEN Upserted(rec[d], Curve(r, h)[d]) ELSE rec[d]]
    /\ basis' = {[from |-> r.from, sheet |-> r.sheet, occupancy |-> h.occupancy]}
    /\ stale' = \E d \in Horizon(r.from) : Standing(rec[d]) # Standing(h.seen[d])
    /\ sweep' = [sweep EXCEPT ![p] = {}]
    /\ plan' = [plan EXCEPT ![p] = {}]
    /\ UNCHANGED <<today, sheet, sweeps, decision>>

(* Pricing raises: _abandon rolls this flat back and the run goes on to    *)
(* the next.                                                               *)
Abandon(p) ==
    /\ sweep[p] # {}
    /\ sweep' = [sweep EXCEPT ![p] = {}]
    /\ plan' = [plan EXCEPT ![p] = {}]
    /\ UNCHANGED <<today, sheet, rec, sweeps, decision, basis, stale>>
-----------------------------------------------------------------------------
(* PriceRecommendation._TRANSITIONS *)
Origin ==
    [APPROVED |-> "RECOMMENDED", REJECTED |-> "RECOMMENDED", APPLIED_EXTERNAL |-> "APPROVED"]

LoadDecision(c) ==
    /\ Cardinality(decision) < MaxOpen
    /\ rec[c.day].status = Origin[c.to]
    /\ decision' = decision \cup {c}
    /\ UNCHANGED <<today, sheet, rec, sweeps, sweep, plan, basis, stale>>

(* update writes the status, whatever the row has become since.  Of people *)
(* with equal copies the model keeps one: the next save repeats the first. *)
SaveDecision(c) ==
    /\ c \in decision
    /\ rec' = [rec EXCEPT ![c.day].status = c.to]
    /\ decision' = decision \ {c}
    /\ stale' = (stale \/ (Decided(rec[c.day]) /\ c.to = "REJECTED"))
    /\ UNCHANGED <<today, sheet, sweeps, sweep, plan, basis>>

PricesNext ==
    \/ DayPasses
    \/ \E s \in Sheets \cup {NoSheet} : EditRule(s)
    \/ \E p \in Sweeps :
         \/ ListRules(p) \/ Abandon(p)
         \/ \E pct \in Occupancies : ReadHorizon(p, pct)
         \/ \E r \in sweep[p], h \in plan[p] : WriteHorizon(p, r, h)
    \/ \E c \in PriceCopies : LoadDecision(c) \/ SaveDecision(c)

PricesSpec == PricesInit /\ [][PricesNext]_priceVars
-----------------------------------------------------------------------------
(* The price of a day that a person approved or applied does not change    *)
(* while it stays decided, whichever runs had read the day before the      *)
(* decision and write after it.                                            *)
DecidedPriceStands ==
    [][\A d \in Days : Decided(rec[d]) => rec'[d].price = rec[d].price]_priceVars

(* The prices a person can still decide are the ones the last run's rule   *)
(* gives, each within the daily change of the price that is shown for the  *)
(* day before, whoever decided that one and however many runs crossed.     *)
(* What the code does not rule out is a decision between that run's read   *)
(* and its statement, and a rejection saved over an approval: until the    *)
(* next run, the day's neighbours were measured against another price.     *)
HorizonIsCoherent ==
    ~stale => \A b \in basis : \A d \in Horizon(b.from) :
        ~Decided(rec[d]) =>
            rec[d].price = CalculatePrice(b.sheet, d, d - b.from, b.occupancy,
                IF d = b.from + 1 THEN {} ELSE {rec[d - 1].price})
=============================================================================
