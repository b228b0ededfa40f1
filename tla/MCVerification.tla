---------------------------- MODULE MCVerification ----------------------------
(***************************************************************************)
(* Both plans over a pool of two invoices and a case of two records.       *)
(* Offers of the command line expire at 1, the console's at 2, invoices    *)
(* fall due at 3.                                                          *)
(***************************************************************************)
EXTENDS Verification

CONSTANTS op, d1, s1, fA, fB, k1, k2, k3

Bill(no, amount) ==
    [debtor |-> d1, seller |-> s1, no |-> no, amount |-> amount, due |-> 3, salt |-> no]

Main == Bill(1001, 2)
Forged == Bill(9999, 5)
Inflated == [Main EXCEPT !.amount = 20]
Pool == <<Bill(2001, 1), Bill(2002, 2)>>

AllInvoices == {Main, Forged, Inflated, Pool[1], Pool[2]}
Expiries == [t \in Tools |-> IF t = "cli" THEN 1 ELSE 2]
NoTags == {}
=============================================================================
