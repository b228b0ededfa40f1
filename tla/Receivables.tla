----------------------------- MODULE Receivables -----------------------------
(***************************************************************************)
(* What the registry promises about a receivable, with no fingerprints,    *)
(* tags, trees or clock: a receivable is a debt of one debtor to one       *)
(* seller under one invoice number, it is offered to at most one party at  *)
(* a time, it is financed by at most one financier at a time, whoever      *)
(* finances it when it is paid is owed the money, and the money leaves     *)
(* once.  Module Registry implements this one.                             *)
(***************************************************************************)
EXTENDS Naturals, FiniteSets

CONSTANTS
    Receivables,    \* the debts themselves
    Financiers,
    SellerOf,       \* SellerOf[r]: who is owed receivable r
    BatchLimit,     \* how many receivables one transaction may move
    None            \* nobody

VARIABLE deal       \* deal[r]: the stage of r and the party that stage names

Stages == {"free", "offered", "financed", "paid", "disbursed"}

Parties == Financiers \cup {SellerOf[r] : r \in Receivables}

Deal == [stage : Stages, party : Parties \cup {None}]

Free == [stage |-> "free", party |-> None]

AbstractTypeOK == deal \in [Receivables -> Deal]

AbstractInit == deal = [r \in Receivables |-> Free]

\* The sets of receivables one transaction may move together.
Batches == {R \in SUBSET Receivables : R # {} /\ Cardinality(R) <= BatchLimit}

\* Exactly the receivables of R move, each to a deal that To allows it.
Move(R, To(_)) ==
    /\ \A r \in R : deal'[r] \in To(r)
    /\ \A r \in Receivables \ R : deal'[r] = deal[r]
    /\ DOMAIN deal' = Receivables

\* A seller offers free receivables, each to one financier or to nobody at all.
Propose(R) ==
    /\ \A r \in R : deal[r].stage = "free"
    /\ Move(R, LAMBDA r : {[stage |-> "offered", party |-> f] : f \in Financiers \cup {None}})

\* Offers nobody took up in time stop binding their receivables.
Lapse(R) ==
    /\ \A r \in R : deal[r].stage = "offered"
    /\ Move(R, LAMBDA r : {Free})

\* The financier every receivable of R is offered to takes all of them up.
Finance(f, R) ==
    /\ \A r \in R : deal[r] = [stage |-> "offered", party |-> f]
    /\ Move(R, LAMBDA r : {[stage |-> "financed", party |-> f]})

\* The financier gives its claim on r up.
Discharge(r) ==
    /\ deal[r].stage = "financed"
    /\ Move({r}, LAMBDA q : {Free})

\* The debtor pays: the money belongs to the financier of r, or else to the seller.
Pay(r) ==
    /\ deal[r].stage \in {"free", "offered", "financed"}
    /\ Move({r}, LAMBDA q : {[stage |-> "paid",
                              party |-> IF deal[q].stage = "financed"
                                        THEN deal[q].party ELSE SellerOf[q]]})

\* The money leaves, to the party it belongs to.
Disburse(r) ==
    /\ deal[r].stage = "paid"
    /\ Move({r}, LAMBDA q : {[stage |-> "disbursed", party |-> deal[q].party]})

AbstractNext ==
    \/ \E R \in Batches : Propose(R) \/ \E f \in Financiers : Finance(f, R)
    \/ \E R \in SUBSET Receivables : Lapse(R)
    \/ \E r \in Receivables : Discharge(r) \/ Pay(r) \/ Disburse(r)

AbstractSpec == AbstractInit /\ [][AbstractNext]_deal

=============================================================================
