---------------------------- MODULE NoticeDelivery ----------------------------
(***************************************************************************)
(* What the outbox promises about a queued notice, whatever happens to the *)
(* processes that deliver it: it is tried by one of them at a time, every  *)
(* try is counted before it is made, it ends sent only by a try that was   *)
(* confirmed and failed only when its budget is spent, and then it stays   *)
(* as it is.  All of this as long as the lock of the job keeps its         *)
(* executions apart; from the moment it does not, nothing is promised.     *)
(***************************************************************************)
EXTENDS Naturals

CONSTANTS Notices, MaxAttempts

VARIABLES
    phase,  \* where each notice is
    tries,  \* how often it was tried
    apart   \* the executions have not overlapped so far

promise == <<phase, tries>>

Phases == {"absent", "waiting", "trying", "sent", "failed", "skipped"}

Moves(n, from, to) ==
    /\ phase[n] = from
    /\ phase' = [phase EXCEPT ![n] = to]

(* Any number of notices is queued at once. *)
Queue(new) ==
    /\ \A n \in new : phase[n] = "absent"
    /\ phase' = [n \in Notices |-> IF n \in new THEN "waiting" ELSE phase[n]]
    /\ UNCHANGED tries

Try(n) == Moves(n, "waiting", "trying") /\ tries' = [tries EXCEPT ![n] = @ + 1]

Confirm(n) == Moves(n, "trying", "sent") /\ UNCHANGED tries

GiveUp(n) == tries[n] >= MaxAttempts /\ Moves(n, "trying", "failed") /\ UNCHANGED tries

(* It failed with budget left, or nobody knows how the try ended. *)
TryAgain(n) == Moves(n, "trying", "waiting") /\ UNCHANGED tries

Skip(n) == Moves(n, "waiting", "skipped") /\ UNCHANGED tries

Serve(n) == Try(n) \/ Confirm(n) \/ GiveUp(n) \/ TryAgain(n) \/ Skip(n)

Init ==
    /\ phase = [n \in Notices |-> "absent"]
    /\ tries = [n \in Notices |-> 0]
    /\ apart = TRUE

Next ==
    \/ /\ apart /\ apart'
       /\ (\E new \in SUBSET Notices : Queue(new)) \/ (\E n \in Notices : Serve(n))
    \/ ~apart'

Spec == Init /\ [][Next]_<<promise, apart>>
=============================================================================
