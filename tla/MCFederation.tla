---------------------------- MODULE MCFederation ----------------------------
(***************************************************************************)
(* One receivable and a control, one lender at each registry, offers that  *)
(* expire at 1 or 2.                                                       *)
(***************************************************************************)
EXTENDS FederationReaders

CONSTANTS op, op2, d1, s1, fA, fB

Bill(no) == [debtor |-> d1, seller |-> s1, no |-> no, amount |-> 1, due |-> 2, salt |-> 0]

Subject == Bill(2001)
Control == Bill(772001)
Offerings == {Subject}
Branches == [l \in {fA, fB} |-> IF l = fA THEN "home" ELSE "peer"]
NoTags == {}
=============================================================================
