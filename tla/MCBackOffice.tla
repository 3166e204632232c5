----------------------------- MODULE MCBackOffice -----------------------------
(***************************************************************************)
(* Instances of the office for TLC, each desk as small as its              *)
(* properties allow.                                                       *)
(***************************************************************************)
EXTENDS BackOffice

CONSTANTS o1, d1, d2, e1, u1, u2, a1, a2, i1, i2, m1, c1, g1, p1, b1, k1,
          in1, in2, s1, none, x1, w1, j1, j2, n1, n2, h1, f1, bk,
          r1, r2, it1, t1, q1, q2, inc, tx1, tx2, pn1, tn1, tn2, ph1, fl1

(* Two rules far enough apart for the daily change to cut, in percentages  *)
(* counted by quarters: 2 or 8 a night, half as much more or less from one *)
(* night to the next, and less on the third day and when the nights ahead  *)
(* are taken.                                                              *)
Sheet(price) ==
    [base |-> price, min |-> 2, max |-> 8, cap |-> 2,
     day |-> [d \in Days |-> IF d = 3 THEN -2 ELSE 0],
     lead |-> [t \in {1} |-> -1], occupancy |-> [o \in {1} |-> 1]]
MCSheets == {Sheet(2), Sheet(8)}

(* A cancellation and, on a second page, a new stay of the same guest; the *)
(* new stay before the booking as it was, so that two imports lock the     *)
(* other way round.                                                        *)
FeedRow(b, e, s) == [booking |-> b, email |-> e, status |-> s]
MCFeeds ==
    {<<<<FeedRow(x1, w1, "CANCELLED")>>, <<FeedRow(none, w1, "CONFIRMED")>>>>,
     <<<<FeedRow(none, w1, "CONFIRMED"), FeedRow(x1, none, "CONFIRMED")>>>>}

(* A photo the template requires, and one of an incident. *)
MCKindOf == [p \in {q1, q2} |-> IF p = q1 THEN t1 ELSE inc]

(* Every message is of one guest to one number. *)
MCWrittenTo == [m \in Texts |-> pn1]
MCWrittenBy == [m \in Texts |-> ph1]
=============================================================================
