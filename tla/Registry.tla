------------------------------ MODULE Registry ------------------------------
(***************************************************************************)
(* The Stock & Foil registry contract: membership, acknowledgment, pledge  *)
(* and settlement circuits (contract/src/stock-and-foil.compact).          *)
(*                                                                         *)
(* A circuit runs as one transaction, so each exported circuit is one      *)
(* action: its guard is the conjunction of the circuit's asserts and its   *)
(* primed variables are the ledger writes.  Hashes are ideal: an invoice   *)
(* stands for its own fingerprint, acknowledgment leaf and pledge          *)
(* nullifier, and a tag is the tuple it is the hash of.  A secret key is   *)
(* the party that holds it.  The trees are historic, so a leaf that was    *)
(* ever inserted can always be proved: they are sets that only grow.       *)
(*                                                                         *)
(* Disclosure requests and cases are module Disclosure's.                  *)
(*                                                                         *)
(* A definition introduced as a mutation is a faulty form of the one that  *)
(* follows it: no action uses it, the property runs put it in its place.   *)
(***************************************************************************)
EXTENDS Integers, FiniteSets, Sequences

CONSTANTS
    Operator,       \* the registry operator
    Debtors, Sellers, Financiers,
    Invoices,       \* every invoice anybody may bring
    Ephemerals,     \* non-identity ephemeral scalars a seller may draw
    StrayTags,      \* holder tags a seller may name beside the real ones
    CertIds, Floors,
    PoolWidth,      \* slots of a pool a seller or a lender fills, at most
    MaxTime,        \* bound on the block time
    None            \* nobody, and the zero value of an absent entry

\* What an invoice carries; its salt tells reissues of one debt apart.
Invoice == [debtor : Debtors, seller : Sellers, no : Nat,
            amount : Nat, due : Nat, salt : Nat]

\* H("holder", finSk, N) and H("sellerpayee", sellerId, N), and the zero field element.
holderTagOf(f, n) == <<"holder", f, n>>
sellerPayeeTagOf(s, n) == <<"seller", s, n>>
ZeroTag == <<"zero", None, None>>

Tags == {holderTagOf(f, n) : f \in Financiers, n \in Invoices}
        \cup {sellerPayeeTagOf(s, n) : s \in Sellers, n \in Invoices}
        \cup {ZeroTag}

\* The debt an invoice states: the key of the acknowledgment nullifier.
ackNullifierOf(n) == <<n.debtor, n.seller, n.no>>

Times == 0..MaxTime

ASSUME RegistryAssumption ==
    /\ Invoices \subseteq Invoice
    /\ StrayTags \subseteq Tags
    /\ None \notin Financiers \cup Sellers
    /\ None \notin Tags
    /\ None \notin Invoices \X Ephemerals
    /\ Operator \notin Financiers \cup Sellers \cup Debtors
    /\ PoolWidth \in 1..4
    /\ MaxTime \in Nat
    /\ Floors \subseteq Nat

VARIABLES
    debtors, financiers,    \* who holds a leaf of each member tree
    acks, ackNullifiers,    \* acknowledged invoices, and the debts they used up
    pledges,                \* pledges[n]: the public state of receivable n
    records,                \* records[<<n, e>>]: the tag sealed in that record
    certificates,           \* borrowing-base certificates
    now,                    \* block time
    received, sent,         \* settlement tokens in and out of the contract, by receivable
    lender, payee           \* history: the financier that took n up, the party it was paid out to

membership == <<debtors, financiers>>
acknowledgments == <<acks, ackNullifiers>>
treasury == <<received, sent, payee>>
vars == <<membership, acknowledgments, pledges, records, certificates, now, treasury, lender>>

PledgeStatus == {"OFFERED", "PLEDGED", "RELEASED", "SETTLED"}
RecordIds == Invoices \X Ephemerals

PledgeState ==
    [status : PledgeStatus \cup {"ABSENT"}, holderTag : Tags, expiry : Times,
     recordId : RecordIds \cup {None}, payeeTag : Tags, amount : Nat, claimed : BOOLEAN]

Absent == [status |-> "ABSENT", holderTag |-> ZeroTag, expiry |-> 0, recordId |-> None,
           payeeTag |-> ZeroTag, amount |-> 0, claimed |-> FALSE]

Offered(tag, expiry, rid) ==
    [Absent EXCEPT !.status = "OFFERED", !.holderTag = tag,
                   !.expiry = expiry, !.recordId = rid]

Pools == UNION {[1..k -> Invoices] : k \in 0..PoolWidth}

Certificate == [borrower : Sellers, floor : Floors, validUntil : Times, slots : Pools]

\* A registry nothing has been offered in.
NothingPledged ==
    /\ pledges = [n \in Invoices |-> Absent]
    /\ records = [r \in RecordIds |-> None]
    /\ certificates = [c \in CertIds |-> None]
    /\ now = 0
    /\ received = [n \in Invoices |-> 0]
    /\ sent = [n \in Invoices |-> 0]
    /\ lender = [n \in Invoices |-> None]
    /\ payee = [n \in Invoices |-> None]

Init ==
    /\ debtors = {} /\ financiers = {}
    /\ acks = {} /\ ackNullifiers = {}
    /\ NothingPledged

-----------------------------------------------------------------------------
(* Membership and acknowledgment.                                          *)

AdmitDebtor(caller, d) ==
    /\ caller = Operator                                \* NOT_OPERATOR
    /\ debtors' = debtors \cup {d}
    /\ UNCHANGED <<financiers, acknowledgments, pledges, records, certificates, now,
                   treasury, lender>>

AdmitFinancier(caller, f) ==
    /\ caller = Operator                                \* NOT_OPERATOR
    /\ financiers' = financiers \cup {f}
    /\ UNCHANGED <<debtors, acknowledgments, pledges, records, certificates, now,
                   treasury, lender>>

\* Mutation: only the very same invoice is refused.
FreshInvoice(n) == n \notin acks

\* One number of one seller, acknowledged once by its debtor.
FreshNumber(n) == ackNullifierOf(n) \notin ackNullifiers

Acknowledge(d, n) ==
    /\ d \in debtors                                    \* NOT_REGISTERED_DEBTOR
    /\ n.debtor = d                                     \* NOT_YOUR_INVOICE
    /\ FreshNumber(n)                                   \* ALREADY_ACKNOWLEDGED
    /\ ackNullifiers' = ackNullifiers \cup {ackNullifierOf(n)}
    /\ acks' = acks \cup {n}
    /\ UNCHANGED <<membership, pledges, records, certificates, now, treasury, lender>>

-----------------------------------------------------------------------------
(* Pledges.                                                                *)

\* Mutation: a pledge past its expiry is free as well.
FreeOnceExpired(n) ==
    \/ pledges[n].status \in {"ABSENT", "RELEASED"}
    \/ pledges[n].status # "SETTLED" /\ now >= pledges[n].expiry

\* Mutation: an offer binds nobody until it is taken up.
FreeUntilTaken(n) == pledges[n].status \in {"ABSENT", "RELEASED", "OFFERED"}

\* assertFree: absent, released, or an offer nobody took up in time.
Free(n) ==
    \/ pledges[n].status \in {"ABSENT", "RELEASED"}
    \/ pledges[n].status = "OFFERED" /\ now >= pledges[n].expiry

\* An offer that can still be taken up.
Open(n) == pledges[n].status = "OFFERED" /\ now < pledges[n].expiry

\* The tags a seller may address an offer of n to: the argument is not checked.
OfferTags(n) == {holderTagOf(f, n) : f \in Financiers} \cup StrayTags

\* Mutation: a record id that exists keeps what it holds.
SealOnce(n, tag, e) ==
    IF records[<<n, e>>] = None THEN [records EXCEPT ![<<n, e>>] = tag] ELSE records

\* sealRecord: the record id is H(n, E), and an insert replaces.
SealRecord(n, tag, e) == [records EXCEPT ![<<n, e>>] = tag]

\* Mutation: the acknowledgment of the debt, not of this invoice, is asked for.
OfferableDebt(s, n, expiry) ==
    n.seller = s /\ ackNullifierOf(n) \in ackNullifiers /\ now < expiry /\ expiry <= n.due

Offerable(s, n, expiry) ==
    /\ n.seller = s                                     \* NOT_INVOICE_OWNER
    /\ n \in acks                                       \* NOT_ACKNOWLEDGED
    /\ now < expiry                                     \* BAD_EXPIRY
    /\ expiry <= n.due                                  \* INVOICE_OVERDUE

Offer(s, n, tag, expiry, e) ==
    /\ Offerable(s, n, expiry)
    /\ Free(n)                                          \* ALREADY_SETTLED, ALREADY_ENCUMBERED
    /\ records' = SealRecord(n, tag, e)
    /\ pledges' = [pledges EXCEPT ![n] = Offered(tag, expiry, <<n, e>>)]
    /\ UNCHANGED <<membership, acknowledgments, certificates, now, treasury, lender>>

\* Mutation: any licensed financier may take an offer up.
TakableByAny(f, n) == pledges[n].status = "OFFERED" /\ now < pledges[n].expiry

\* Mutation: an offer can be taken up at its expiry.
TakableLate(f, n) ==
    /\ pledges[n].status = "OFFERED"
    /\ pledges[n].holderTag = holderTagOf(f, n)
    /\ now <= pledges[n].expiry

\* takeOffer's asserts on one slot, against the ledger the call started from.
Takable(f, n) ==
    /\ pledges[n].status = "OFFERED"                    \* NO_SUCH_OFFER
    /\ pledges[n].holderTag = holderTagOf(f, n)         \* NOT_ADDRESSEE
    /\ now < pledges[n].expiry                          \* OFFER_EXPIRED

\* Slots are written in turn: a marker listed twice finds no open offer the second
\* time in a batch, and is DUPLICATE_INVOICE in a pool.
Distinct(ns) == \A i, j \in DOMAIN ns : i # j => ns[i] # ns[j]

Elements(ns) == {ns[i] : i \in DOMAIN ns}

TakeOffers(f, ns) ==
    /\ f \in financiers                                 \* NOT_LICENSED
    /\ Distinct(ns)
    /\ \A n \in Elements(ns) : Takable(f, n)
    /\ pledges' = [n \in Invoices |->
                    IF n \in Elements(ns) THEN [pledges[n] EXCEPT !.status = "PLEDGED"]
                    ELSE pledges[n]]
    /\ lender' = [n \in Invoices |-> IF n \in Elements(ns) THEN f ELSE lender[n]]
    /\ UNCHANGED <<membership, acknowledgments, records, certificates, now, treasury>>

Accept(f, n) == TakeOffers(f, <<n>>)

\* All slots or none; an unused slot performs no ledger operation.
AcceptBatch(f, ns) ==
    /\ Len(ns) > 0                                      \* EMPTY_BATCH
    /\ TakeOffers(f, ns)

\* The holder lets go; it need not be licensed, only hold the tag.
Release(f, n) ==
    /\ pledges[n].status = "PLEDGED"                    \* NOT_PLEDGED
    /\ pledges[n].holderTag = holderTagOf(f, n)         \* NOT_HOLDER
    /\ pledges' = [pledges EXCEPT ![n].status = "RELEASED"]
    /\ lender' = [lender EXCEPT ![n] = None]
    /\ UNCHANGED <<membership, acknowledgments, records, certificates, now, treasury>>

-----------------------------------------------------------------------------
(* Borrowing-base certificates: a pool of offers with a proved floor.      *)

\* Mutation: a slot need not be acknowledged.
CheckSlotUnacknowledged(s, n, validUntil) == n.seller = s /\ validUntil <= n.due

\* Pass 1, on one used slot.
CheckSlot(s, n, validUntil) ==
    /\ n.seller = s                                     \* NOT_INVOICE_OWNER
    /\ n \in acks                                       \* NOT_ACKNOWLEDGED
    /\ validUntil <= n.due                              \* INVOICE_OVERDUE

SlotAmount(ns, i) == IF i \in DOMAIN ns THEN ns[i].amount ELSE 0

\* The sum of a vector of four, in a type it cannot overflow.
PoolTotal(ns) ==
    SlotAmount(ns, 1) + SlotAmount(ns, 2) + SlotAmount(ns, 3) + SlotAmount(ns, 4)

\* Pass 2, lockSlot on every used slot; tags and ephemerals are the seller's witnesses.
LockSlots(ns, tags, es, validUntil) ==
    /\ pledges' = [n \in Invoices |->
                    IF n \in Elements(ns) THEN Offered(tags[n], validUntil, <<n, es[n]>>)
                    ELSE pledges[n]]
    /\ records' = [r \in RecordIds |->
                    IF r[1] \in Elements(ns) /\ r[2] = es[r[1]] THEN tags[r[1]]
                    ELSE records[r]]

CertifyBorrowingBase(s, c, floor, validUntil, ns) ==
    /\ now < validUntil                                 \* BAD_EXPIRY
    /\ certificates[c] = None                           \* DUPLICATE_CERTIFICATE
    /\ Len(ns) > 0                                      \* EMPTY_POOL
    /\ \A n \in Elements(ns) : CheckSlot(s, n, validUntil)
    /\ Distinct(ns)                                     \* DUPLICATE_INVOICE
    /\ PoolTotal(ns) >= floor                           \* BELOW_FLOOR
    /\ \A n \in Elements(ns) : Free(n)                  \* ALREADY_SETTLED, ALREADY_ENCUMBERED
    /\ \E tags \in [Elements(ns) -> UNION {OfferTags(n) : n \in Elements(ns)}],
          es \in [Elements(ns) -> Ephemerals] : LockSlots(ns, tags, es, validUntil)
    /\ certificates' = [certificates EXCEPT
            ![c] = [borrower |-> s, floor |-> floor, validUntil |-> validUntil, slots |-> ns]]
    /\ UNCHANGED <<membership, acknowledgments, now, treasury, lender>>

-----------------------------------------------------------------------------
(* Settlement.                                                             *)

\* Mutation: an offer redirects the proceeds as well.
PayeeTagOfOffer(n) ==
    IF pledges[n].status \in {"OFFERED", "PLEDGED"} THEN pledges[n].holderTag
    ELSE sellerPayeeTagOf(n.seller, n)

\* A live pledge redirects the proceeds to its holder; anything else pays the seller.
PayeeTag(n) ==
    IF pledges[n].status = "PLEDGED" THEN pledges[n].holderTag
    ELSE sellerPayeeTagOf(n.seller, n)

PayInvoice(d, n) ==
    /\ n.debtor = d                                     \* NOT_YOUR_INVOICE
    /\ n \in acks                                       \* NOT_ACKNOWLEDGED
    /\ pledges[n].status # "SETTLED"                    \* ALREADY_SETTLED
    /\ received' = [received EXCEPT ![n] = @ + n.amount]
    /\ pledges' = [pledges EXCEPT ![n] =
                    [@ EXCEPT !.status = "SETTLED", !.payeeTag = PayeeTag(n),
                              !.amount = n.amount, !.claimed = FALSE]]
    /\ UNCHANGED <<membership, acknowledgments, records, certificates, now, sent, payee, lender>>

\* Mutation: a claim can be repeated.
ClaimableAgain(n, tag) == pledges[n].status = "SETTLED" /\ pledges[n].payeeTag = tag

Claimable(n, tag) ==
    /\ pledges[n].status = "SETTLED"                    \* NOT_SETTLED
    /\ pledges[n].payeeTag = tag                        \* NOT_PAYEE
    /\ ~pledges[n].claimed                              \* ALREADY_CLAIMED

Claim(p, n, tag) ==
    /\ Claimable(n, tag)
    /\ pledges' = [pledges EXCEPT ![n].claimed = TRUE]
    /\ sent' = [sent EXCEPT ![n] = @ + pledges[n].amount]
    /\ payee' = [payee EXCEPT ![n] = p]
    /\ UNCHANGED <<membership, acknowledgments, records, certificates, now, received, lender>>

ClaimAsHolder(f, n) == Claim(f, n, holderTagOf(f, n))

ClaimAsSeller(s, n) == Claim(s, n, sellerPayeeTagOf(s, n))

\* Blocks pass; the block time bounds the model.
Tick ==
    /\ now < MaxTime
    /\ now' = now + 1
    /\ UNCHANGED <<membership, acknowledgments, pledges, records, certificates, treasury, lender>>

Callers == {Operator} \cup Debtors \cup Sellers \cup Financiers

Next ==
    \/ \E caller \in Callers :
        \/ \E d \in Debtors : AdmitDebtor(caller, d)
        \/ \E f \in Financiers : AdmitFinancier(caller, f)
    \/ \E d \in Debtors, n \in Invoices : Acknowledge(d, n) \/ PayInvoice(d, n)
    \/ \E s \in Sellers :
        \/ \E n \in Invoices :
            \/ \E tag \in OfferTags(n), t \in Times, e \in Ephemerals : Offer(s, n, tag, t, e)
            \/ ClaimAsSeller(s, n)
        \/ \E c \in CertIds, floor \in Floors, t \in Times, ns \in Pools :
            CertifyBorrowingBase(s, c, floor, t, ns)
    \/ \E f \in Financiers :
        \/ \E n \in Invoices : Accept(f, n) \/ Release(f, n) \/ ClaimAsHolder(f, n)
        \/ \E ns \in Pools : AcceptBatch(f, ns)
    \/ Tick

Spec == Init /\ [][Next]_vars

-----------------------------------------------------------------------------
(* Properties.                                                             *)

\* Every variable holds what the ledger's declared types allow.
TypeOK ==
    /\ debtors \subseteq Debtors /\ financiers \subseteq Financiers
    /\ acks \subseteq Invoices
    /\ ackNullifiers \subseteq {ackNullifierOf(n) : n \in Invoices}
    /\ pledges \in [Invoices -> PledgeState]
    /\ records \in [RecordIds -> Tags \cup {None}]
    /\ certificates \in [CertIds -> Certificate \cup {None}]
    /\ now \in Times
    /\ received \in [Invoices -> Nat] /\ sent \in [Invoices -> Nat]
    /\ lender \in [Invoices -> Financiers \cup {None}]
    /\ payee \in [Invoices -> Financiers \cup Sellers \cup {None}]

\* No double financing: of all the invoices that state one debt (same debtor, seller and
\* number, whatever the amount or the salt), at most one is ever offered, pledged or paid.
OneFinancingPerDebt ==
    \A n, m \in Invoices :
        /\ ackNullifierOf(n) = ackNullifierOf(m)
        /\ pledges[n].status # "ABSENT"
        /\ pledges[m].status # "ABSENT"
        => n = m

\* Whatever stands on the ledger stands for an acknowledged debt, and never binds it past
\* its due date.
PledgesAreAcknowledged ==
    \A n \in Invoices : pledges[n].status # "ABSENT" =>
        n \in acks /\ pledges[n].expiry <= n.due

\* The financier that took n up and has not released it is the one the ledger shows as
\* holder while n is pledged, and as payee once n is settled; without one, nobody is.
Secured(n) ==
    /\ lender[n] # None =>
        \/ pledges[n].status = "PLEDGED" /\ pledges[n].holderTag = holderTagOf(lender[n], n)
        \/ pledges[n].status = "SETTLED" /\ pledges[n].payeeTag = holderTagOf(lender[n], n)
    /\ lender[n] = None =>
        /\ pledges[n].status # "PLEDGED"
        /\ pledges[n].status = "SETTLED" => pledges[n].payeeTag = sellerPayeeTagOf(n.seller, n)

LenderIsSecured == \A n \in Invoices : Secured(n)

\* A debt is paid in once and paid out at most once, for its face amount, and only to the
\* financier that held it when it was paid, or to its seller when none did.
Conserved(n) ==
    /\ received[n] = IF pledges[n].status = "SETTLED" THEN n.amount ELSE 0
    /\ sent[n] = IF pledges[n].claimed THEN n.amount ELSE 0
    /\ pledges[n].status = "SETTLED" => pledges[n].amount = n.amount
    /\ pledges[n].claimed =>
        /\ pledges[n].status = "SETTLED"
        /\ payee[n] = IF lender[n] # None THEN lender[n] ELSE n.seller

ProceedsConserved == \A n \in Invoices : Conserved(n)

\* The record a pledge points to is the one sealed for it: opening it shows the holder the
\* pledge is bound to, even when a seller draws one ephemeral twice.
RecordNamesHolder ==
    \A n \in Invoices : pledges[n].recordId # None =>
        /\ pledges[n].recordId[1] = n
        /\ records[pledges[n].recordId] = pledges[n].holderTag

\* The face value of a set of invoices, counted unit by unit.
FaceValue(S) == Cardinality(UNION {{n} \X (1..n.amount) : n \in S})

\* A certificate is worth its floor: its slots are different debts, all acknowledged, all
\* owed to the borrower, none due before the certificate ends.
CertificateBacked ==
    \A c \in CertIds : certificates[c] # None =>
        LET cert == certificates[c]
            covered == Elements(cert.slots) IN
        /\ \A n \in covered : n.seller = cert.borrower /\ n \in acks /\ cert.validUntil <= n.due
        /\ Cardinality({ackNullifierOf(n) : n \in covered}) = Len(cert.slots)
        /\ FaceValue(covered) >= cert.floor

\* What a step may do to the pledge of n: see EncumbranceStands.
Stands(n) ==
    LET old == pledges[n]
        new == pledges'[n]
        Same == new = [old EXCEPT !.status = new.status, !.payeeTag = new.payeeTag,
                                  !.amount = new.amount, !.claimed = new.claimed] IN
    /\ Open(n) => Same /\ new.status \in {"OFFERED", "PLEDGED", "SETTLED"}
    /\ old.status = "PLEDGED" =>
        /\ Same /\ new.status \in {"PLEDGED", "RELEASED", "SETTLED"}
        /\ new.status = "SETTLED" => new.payeeTag = old.holderTag
        /\ new.status = "RELEASED" => lender'[n] = None
    /\ old.status = "SETTLED" => new \in {old, [old EXCEPT !.claimed = TRUE]}

\* An open offer keeps its addressee, expiry and record until it lapses, is taken up or is
\* paid; a pledge is undone by its own holder's release or by payment to that holder, and by
\* nothing else; a settled receivable stays settled, and its payee never changes.
EncumbranceStands == [][\A n \in Invoices : Stands(n)]_vars

-----------------------------------------------------------------------------
(* Registry implements Receivables: a debt is identified by its            *)
(* acknowledgment nullifier, and its deal is what the one invoice that     *)
(* stands for it on the ledger says.                                       *)

Debts == {ackNullifierOf(n) : n \in Invoices}

\* The invoice that stands for debt r, when one does.
Standing(r) == {n \in Invoices : ackNullifierOf(n) = r /\ pledges[n].status # "ABSENT"}

\* The financier a tag of n belongs to, or nobody.
TagOwner(tag, n) ==
    IF tag \in {holderTagOf(f, n) : f \in Financiers} THEN tag[2] ELSE None

DealOf(n) ==
    LET p == pledges[n] IN
    CASE p.status = "OFFERED" /\ now < p.expiry ->
            [stage |-> "offered", party |-> TagOwner(p.holderTag, n)]
      [] p.status = "PLEDGED" -> [stage |-> "financed", party |-> TagOwner(p.holderTag, n)]
      [] p.status = "SETTLED" ->
            [stage |-> IF p.claimed THEN "disbursed" ELSE "paid", party |-> p.payeeTag[2]]
      [] OTHER -> [stage |-> "free", party |-> None]

DealOnLedger ==
    [r \in Debts |-> IF Standing(r) = {} THEN [stage |-> "free", party |-> None]
                     ELSE DealOf(CHOOSE n \in Standing(r) : TRUE)]

Abstract == INSTANCE Receivables WITH
    Receivables <- Debts, SellerOf <- [r \in Debts |-> r[2]],
    BatchLimit <- PoolWidth, deal <- DealOnLedger

\* Every step of the registry is a step the abstract registry allows, or none at all.
ImplementsReceivables == Abstract!AbstractSpec

=============================================================================
