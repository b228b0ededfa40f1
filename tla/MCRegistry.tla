---------------------------- MODULE MCRegistry -----------------------------
(***************************************************************************)
(* A small instance of Registry for TLC.  Two invoices state one debt and  *)
(* differ in salt and amount; a third is another debt of the same parties, *)
(* due earlier.                                                            *)
(***************************************************************************)
EXTENDS Registry, TLC

CONSTANTS op, d1, s1, s2, f1, f2

Genuine == [debtor |-> d1, seller |-> s1, no |-> 1, amount |-> 2, due |-> 2, salt |-> 0]
Reissue == [Genuine EXCEPT !.amount = 3, !.salt = 1]
Other == [Genuine EXCEPT !.no = 2, !.amount = 1, !.due = 1]

ThreeInvoices == {Genuine, Reissue, Other}

\* A tag no financier holds, of another receivable besides.
OddTags == {sellerPayeeTagOf(s1, Other)}

\* The two financiers differ in name only.
FinancierSymmetry == Permutations({f1, f2})
=============================================================================
