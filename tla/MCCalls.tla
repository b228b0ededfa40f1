------------------------------- MODULE MCCalls -------------------------------
(***************************************************************************)
(* Two debtors, a receivable of each of one seller, two lenders.  A run   *)
(* begins with nothing acknowledged, or with both acknowledged and one     *)
(* offered.                                                                *)
(***************************************************************************)
EXTENDS Calls

CONSTANTS op, d1, d2, s1, f1, f2

Bill(d) == [debtor |-> d, seller |-> s1, no |-> 1, amount |-> 1, due |-> 2, salt |-> 0]
Bills == {Bill(d1), Bill(d2)}

AllRequests ==
    {onMarker(f2, "accept", Bill(d1))} \cup {acknowledge(d, Bill(d)) : d \in {d1, d2}} \cup {pay(d, Bill(d)) : d \in {d1, d2}}
    \cup {offer(s1, n, f, 2) : n \in Bills, f \in {f1, f2}}
    \cup {onMarker(f1, circuit, Bill(d1)) : circuit \in {"accept", "release", "claimAsHolder"}}
    \cup {onMarker(s1, "claimAsSeller", Bill(d1))}

NewAndUnderWay ==
    {[acked |-> {}, offered |-> <<>>, record |-> <<>>],
     [acked |-> Bills, offered |-> [n \in {Bill(d1)} |-> holderTagOf(f1, n)],
      record |-> [n \in {Bill(d1)} |-> <<n, 1>>]]}
NoTags == {}
=============================================================================
