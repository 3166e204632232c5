----------------------------- MODULE MessageIntake -----------------------------
(***************************************************************************)
(* What the inbox promises about a guest's message, whatever becomes of    *)
(* its deliveries and its tasks.  It is taken once, for the tenant it is   *)
(* addressed to or for nobody, and that never changes.  It is filed at most*)
(* once, in a conversation of that tenant: the one the tenant has with its *)
(* sender about a flat, of which there is one, or, where it is not known   *)
(* who writes about what, one of its own.                                  *)
(***************************************************************************)
EXTENDS Sequences

CONSTANTS
    Texts, Tenants,
    Keys,       \* a guest's phone and a flat, or Nobody
    WrittenBy,  \* the phone each message comes from
    Nobody

VARIABLES
    taken,          \* whom each message was taken for, if it was
    conversations,
    shelf           \* the conversations each message was filed in

intake == <<taken, conversations, shelf>>

Conversations == [tenant : Tenants, key : Keys, opener : Texts]

Init ==
    /\ taken = [m \in Texts |-> {}]
    /\ conversations = {}
    /\ shelf = [m \in Texts |-> <<>>]

Take(m, t) ==
    /\ taken[m] = {}
    /\ taken' = [taken EXCEPT ![m] = {t}]
    /\ UNCHANGED <<conversations, shelf>>

(* A conversation the message may be filed in: nobody else's.              *)
Belongs(m, c) ==
    /\ taken[m] = {c.tenant}
    /\ IF c.key = Nobody THEN c.opener = m ELSE c.key[1] = WrittenBy[m]

(* Only a guest and a flat there is no conversation about get a new one.   *)
MayOpen(m, c) ==
    /\ c.opener = m
    /\ c.key # Nobody =>
         \A d \in conversations : d.tenant # c.tenant \/ d.key # c.key

File(m, c) ==
    /\ shelf[m] = <<>>
    /\ Belongs(m, c)
    /\ c \in conversations \/ MayOpen(m, c)
    /\ conversations' = conversations \cup {c}
    /\ shelf' = [shelf EXCEPT ![m] = <<c>>]
    /\ UNCHANGED taken

Next ==
    \E m \in Texts :
        \/ \E t \in Tenants \cup {Nobody} : Take(m, t)
        \/ \E c \in Conversations : File(m, c)

Spec == Init /\ [][Next]_intake
=============================================================================
