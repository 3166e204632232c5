------------------------------ MODULE PortalLinks ------------------------------
(***************************************************************************)
(* The links to the guest portal of one stay.  An operator issues one,     *)
(* which replaces the one before; sends one, which issues it and mails it  *)
(* before the only commit; or revokes the one there is.  Requests overlap, *)
(* and what keeps them apart is the database alone: the UPDATE that        *)
(* revokes, and the unique index over the links that are not revoked.      *)
(*                                                                         *)
(* Requests refused before they write (no such stay, no address to mail)   *)
(* are left out.                                                           *)
(***************************************************************************)
EXTENDS Naturals

CONSTANTS
    Links,      \* the links there can be, each with a token of its own
    Askers      \* requests that may be open at once

VARIABLES
    link,       \* guest_access_tokens: the committed row of each link
    request,    \* the open transaction of each request
    latest,     \* history: the link committed last
    withdrawn,  \* history: links a finished revocation found
    mailed,     \* links the guest was mailed
    forlorn     \* history: mailed links whose request died afterwards

portalVars == <<link, request, latest, withdrawn, mailed, forlorn>>

Kinds == {"ISSUE", "SEND", "REVOKE"}

(* A transaction: the live links its UPDATE saw, those it revoked, the one *)
(* it generated, and whether the mail was handed over.                     *)
Transactions ==
    [at : {"asked", "revoked", "inserted"}, kind : Kinds, told : BOOLEAN,
     seen : SUBSET Links, hit : SUBSET Links, new : SUBSET Links]

Hit(a) == UNION {q.hit : q \in request[a]}
Inserted(a) == UNION {q.new : q \in {p \in request[a] : p.at = "inserted"}}
Generated(a) == UNION {q.new : q \in request[a]}

LiveLinks == {l \in Links : link[l] = "LIVE"}

PortalTypeOK ==
    /\ link \in [Links -> {"NONE", "LIVE", "REVOKED"}]
    /\ request \in [Askers -> SUBSET Transactions]
    /\ \A a \in Askers : \A p, q \in request[a] : p = q
    /\ latest \subseteq Links /\ withdrawn \subseteq Links
    /\ mailed \subseteq Links /\ forlorn \subseteq mailed

PortalInit ==
    /\ link = [l \in Links |-> "NONE"]
    /\ request = [a \in Askers |-> {}]
    /\ latest = {} /\ withdrawn = {} /\ mailed = {} /\ forlorn = {}
-----------------------------------------------------------------------------
Does(a, q) == request' = [request EXCEPT ![a] = {q}]
EndsPortal(a) == request' = [request EXCEPT ![a] = {}]

(* The request arrives, and its UPDATE starts on what is committed now. *)
AskPortal(a, kind) ==
    /\ request[a] = {}
    /\ Does(a, [at |-> "asked", kind |-> kind, told |-> FALSE,
                seen |-> LiveLinks, hit |-> {}, new |-> {}])
    /\ UNCHANGED <<link, latest, withdrawn, mailed, forlorn>>

(* revoke_live_for_reservation: UPDATE ... WHERE revoked_at IS NULL waits  *)
(* for a transaction that has revoked the row it saw, and takes the row    *)
(* only if it is still live then; a row inserted meanwhile it never sees.  *)
(* A revocation without a row to revoke ends here.                         *)
RevokeLive(a) ==
    /\ \E q \in request[a] :
         /\ q.at = "asked"
         /\ \A b \in Askers \ {a} : q.seen \cap Hit(b) = {}
         /\ IF q.kind = "REVOKE" /\ q.seen \cap LiveLinks = {}
              THEN EndsPortal(a) /\ withdrawn' = withdrawn \cup q.seen
              ELSE /\ \E new \in IF q.kind = "REVOKE" THEN {{}}
                                 ELSE {{l} : l \in Links} :
                        /\ \A l \in new :
                             /\ link[l] = "NONE" /\ l \notin mailed
                             /\ \A b \in Askers : l \notin Generated(b)
                        /\ Does(a, [q EXCEPT !.at = "revoked", !.new = new,
                                             !.hit = q.seen \cap LiveLinks])
                   /\ UNCHANGED withdrawn
    /\ UNCHANGED <<link, latest, mailed, forlorn>>

Inserts(a, q) == Does(a, [q EXCEPT !.at = "inserted"])

BugIndexAllowsTwo(a, q) == Inserts(a, q)

(* The INSERT, when the session flushes: the unique index waits for any    *)
(* transaction that has inserted or revoked a link of the stay, and refuses*)
(* a second live one, which rolls the request back.                        *)
FlushLink(a, q) ==
    /\ \A b \in Askers \ {a} : Hit(b) = {} /\ Inserted(b) = {}
    /\ IF LiveLinks \subseteq q.hit THEN Inserts(a, q) ELSE EndsPortal(a)

AddLink(a) ==
    /\ \E q \in request[a] :
         q.at = "revoked" /\ q.kind # "REVOKE" /\ FlushLink(a, q)
    /\ UNCHANGED <<link, latest, withdrawn, mailed, forlorn>>

BugMailBeforeTheFlush(q) == q.at = "revoked"

(* The link is read back before the mail, which makes the session flush. *)
MayMail(q) == q.at = "inserted"

(* SendGuestAccessTokenUseCase: the mail goes out, or the adapter refuses  *)
(* it, while the transaction is open.                                      *)
MailLink(a) ==
    /\ \E q \in request[a] :
         /\ q.kind = "SEND" /\ MayMail(q) /\ ~q.told
         /\ Does(a, [q EXCEPT !.told = TRUE])
         /\ mailed' \in {mailed, mailed \cup q.new}
    /\ UNCHANGED <<link, latest, withdrawn, forlorn>>

(* What the commit leaves: the link revoked and its replacement at once. *)
Committed(q) ==
    [l \in Links |-> IF l \in q.new THEN "LIVE"
                     ELSE IF l \in q.hit THEN "REVOKED" ELSE link[l]]

CommitPortal(a) ==
    /\ \E q \in request[a] :
         /\ q.at = (IF q.kind = "REVOKE" THEN "revoked" ELSE "inserted")
         /\ q.kind = "SEND" => q.told
         /\ link' = Committed(q)
         /\ latest' = IF q.kind = "REVOKE" THEN latest ELSE q.new
         /\ withdrawn' = IF q.kind = "REVOKE" THEN withdrawn \cup q.seen ELSE withdrawn
    /\ EndsPortal(a)
    /\ UNCHANGED <<mailed, forlorn>>

(* The process dies or the database fails: everything is rolled back but   *)
(* the mail.                                                               *)
PortalFails(a) ==
    /\ request[a] # {}
    /\ forlorn' = forlorn \cup (mailed \cap Generated(a))
    /\ EndsPortal(a)
    /\ UNCHANGED <<link, latest, withdrawn, mailed>>

PortalNext ==
    \E a \in Askers :
        \/ \E kind \in Kinds : AskPortal(a, kind)
        \/ RevokeLive(a) \/ AddLink(a) \/ MailLink(a) \/ CommitPortal(a) \/ PortalFails(a)

PortalSpec == PortalInit /\ [][PortalNext]_portalVars
-----------------------------------------------------------------------------
(* However requests cross, the link of the stay that works is the one      *)
(* issued last, and it works until a revocation that found it has ended:   *)
(* never two links, none that was withdrawn, and no stay left without one  *)
(* because the request that replaced it lost a race.                       *)
LastLinkWorks == LiveLinks = latest \ withdrawn

(* A guest is never mailed a link that comes to nothing, unless the request*)
(* that mailed it died before its commit: the one that loses a race loses  *)
(* it before the mail.                                                     *)
MailedLinkIsKept ==
    \A l \in mailed :
        \/ link[l] # "NONE" \/ l \in forlorn
        \/ \E a \in Askers : l \in Inserted(a)
=============================================================================
