----------------------------- MODULE Federation -----------------------------
(***************************************************************************)
(* Two registries on one network, each the other's declared peer, and a    *)
(* lender that puts the encumbrance question to both                       *)
(* (sdk/src/roles/financier.ts checkEncumbranceAcross, registerPeer of the *)
(* contract).                                                              *)
(*                                                                         *)
(* The pledge marker of an invoice carries no registry: both ledgers key   *)
(* their entry by the invoice itself.  This module's own registry          *)
(* variables are the ledger called home, the peer's are those of the       *)
(* instance Peer.  The block time is the network's, so they share it.      *)
(*                                                                         *)
(* checkEncumbranceAcross asks every registry at once, and each of them    *)
(* for its state and for the time in two requests that are answered in any *)
(* order, or not at all.                                                   *)
(***************************************************************************)
EXTENDS Registry

CONSTANTS
    PeerOperator,
    Branch,         \* the registry each lender banks with: "home" or "peer"
    subject         \* the receivable offered in both registries

VARIABLES
    peerDebtors, peerFinanciers, peerAcks, peerAckNullifiers, peerPledges, peerRecords,
    peerCertificates, peerReceived, peerSent, peerLender, peerPayee,    \* the peer's ledger
    peers,          \* the registries each of them declares
    ask,            \* what each lender's check has heard so far
    order,          \* when lenders ask: "before" the offer, or "under" it
    torn            \* history: a check put a state together with a later time

Peer == INSTANCE Registry WITH
    Operator <- PeerOperator, debtors <- peerDebtors, financiers <- peerFinanciers,
    acks <- peerAcks, ackNullifiers <- peerAckNullifiers, pledges <- peerPledges,
    records <- peerRecords, certificates <- peerCertificates, received <- peerReceived,
    sent <- peerSent, lender <- peerLender, payee <- peerPayee

homeLedger == <<membership, acknowledgments, pledges, records, certificates, treasury, lender>>
peerLedger == <<peerDebtors, peerFinanciers, peerAcks, peerAckNullifiers, peerPledges,
                peerRecords, peerCertificates, peerReceived, peerSent, peerLender, peerPayee>>
ledgers == <<homeLedger, peerLedger, now, peers>>

Registries == {"home", "peer"}
operatorOf(r) == IF r = "home" THEN Operator ELSE PeerOperator
pledgeIn(r, n) == IF r = "home" THEN pledges[n] ELSE peerPledges[n]
OthersThan(r) == Registries \ {r}

\* What a registry answers of a marker, and what it is taken for.
Views == [status : PledgeStatus \cup {"ABSENT"}, expiry : Times]
Said == {"FREE", "ENCUMBERED", "SETTLED", "UNREACHABLE"}

ASSUME FederationAssumption ==
    /\ PeerOperator \notin Financiers \cup Sellers \cup Debtors
    /\ Branch \in [Financiers -> Registries]
    /\ subject \in Invoices
    /\ None \notin Views \cup Times \cup Said \cup {subject}

\* The operator of r declares the registry at address a.
RegisterPeer(caller, r, a) ==
    /\ caller = operatorOf(r)                           \* NOT_OPERATOR
    /\ a \notin peers[r]                                \* DUPLICATE_PEER
    /\ peers' = [peers EXCEPT ![r] = @ \cup {a}]
    /\ UNCHANGED <<homeLedger, peerLedger, now>>

HomeStep == Next /\ UNCHANGED <<peerLedger, peers>>
PeerStep == Peer!Next /\ UNCHANGED <<homeLedger, peers>>

-----------------------------------------------------------------------------
(* The question.                                                           *)

\* What the public view says of a marker, of one that is in no ledger as well.
findPledge(r, n) ==
    IF n \in Invoices THEN [status |-> pledgeIn(r, n).status, expiry |-> pledgeIn(r, n).expiry]
    ELSE [status |-> "ABSENT", expiry |-> 0]

\* Mutation: an offer nobody took up yet encumbers nothing.
encumbranceOfTaken(v, t) ==
    CASE v.status = "SETTLED" -> "SETTLED"
      [] v.status = "PLEDGED" -> "ENCUMBERED"
      [] OTHER -> "FREE"

encumbranceOf(v, t) ==
    CASE v.status = "SETTLED" -> "SETTLED"
      [] v.status \in {"ABSENT", "RELEASED"} -> "FREE"
      [] v.status = "OFFERED" /\ t >= v.expiry -> "FREE"
      [] OTHER -> "ENCUMBERED"

\* One registry's answer: its two halves until both are there, then the encumbrance.
Awaited == [view |-> None, clock |-> None, said |-> None]
NotAsking == [about |-> None, of |-> [r \in Registries |-> Awaited]]

Complete(a) ==
    IF a.view = None \/ a.clock = None THEN a
    ELSE [Awaited EXCEPT !.said = encumbranceOf(a.view, a.clock)]

\* checkEncumbranceAcross: every registry at once.
Ask(l, n) == ask' = [ask EXCEPT ![l] = [NotAsking EXCEPT !.about = n]]

Awaiting(l, r) == ask[l].about # None /\ ask[l].of[r].said = None
Hear(l, r, a) == ask' = [ask EXCEPT ![l].of[r] = a]

ReadState(l, r) ==
    /\ Awaiting(l, r) /\ ask[l].of[r].view = None
    /\ Hear(l, r, Complete([ask[l].of[r] EXCEPT !.view = findPledge(r, ask[l].about)]))

ReadClock(l, r) ==
    /\ Awaiting(l, r) /\ ask[l].of[r].clock = None
    /\ Hear(l, r, Complete([ask[l].of[r] EXCEPT !.clock = now]))

\* Mutation: a registry that did not answer holds nothing.
ReadFailsFree(l, r) ==
    /\ Awaiting(l, r)
    /\ Hear(l, r, [Awaited EXCEPT !.said = "FREE"])

ReadFails(l, r) ==
    /\ Awaiting(l, r)
    /\ Hear(l, r, [Awaited EXCEPT !.said = "UNREACHABLE"])

Hearing(l) == \E r \in Registries : ReadState(l, r) \/ ReadClock(l, r) \/ ReadFails(l, r)

Answered(l) == ask[l].about # None /\ \A r \in Registries : ask[l].of[r].said # None

\* The result: an unreachable registry is marked, and carries FREE beside the mark.
encumbrance(answer) == IF answer.said = "UNREACHABLE" THEN "FREE" ELSE answer.said
unreachable(answer) == answer.said = "UNREACHABLE"
encumberedAnywhere(answers) == \E r \in Registries : encumbrance(answers[r]) # "FREE"
complete(answers) == \A r \in Registries : ~unreachable(answers[r])

-----------------------------------------------------------------------------
(* Lenders that finance only what they asked about.                        *)

OfferedTo(l) ==
    LET p == pledgeIn(Branch[l], subject) IN
    p.status = "OFFERED" /\ p.holderTag = holderTagOf(l, subject) /\ now < p.expiry

\* Before the offer the lender's own book has to be free as well; under it, it shows the offer.
Cleared(l) ==
    /\ Answered(l)
    /\ IF order = "before" THEN complete(ask[l].of) /\ ~encumberedAnywhere(ask[l].of)
       ELSE \A r \in OthersThan(Branch[l]) : ask[l].of[r].said = "FREE"

LenderAsks(l) ==
    /\ ask[l].about = None
    /\ order = "under" => OfferedTo(l)
    /\ Ask(l, subject)
    /\ UNCHANGED <<ledgers, order, torn>>

LenderHears(l) == Hearing(l) /\ UNCHANGED <<ledgers, order, torn>>

\* What a lender heard under an offer is void once that offer is anything but open.
Kept(l) ==
    IF order = "under" /\ pledgeIn(Branch[l], subject)' # pledgeIn(Branch[l], subject)
    THEN NotAsking ELSE ask[l]

Policed ==
    /\ \A l \in Financiers :
        pledgeIn(Branch[l], subject)'.status = "PLEDGED" /\ OfferedTo(l) => Cleared(l)
    /\ ask' = [l \in Financiers |-> Kept(l)]
    /\ torn' = (torn \/ (now' # now /\ \E l \in Financiers, r \in Registries :
                             ask[l].of[r].view # None))
    /\ UNCHANGED order

\* Bound: where members and acknowledgments are in place, no more of them are added; each lender
\* banks with one registry, and is the only one offered anything there; nothing is claimed.
MembersStay ==
    /\ UNCHANGED <<membership, acknowledgments, peerDebtors, peerFinanciers, peerAcks,
                   peerAckNullifiers, sent, peerSent>>
    /\ \A r \in Registries, l \in Financiers :
        pledgeIn(r, subject)'.holderTag = holderTagOf(l, subject) => Branch[l] = r

LendersNext ==
    \/ (HomeStep \/ PeerStep) /\ MembersStay /\ Policed
    \/ \E l \in Financiers : LenderAsks(l) \/ LenderHears(l)

Licensed(r) == {l \in Financiers : Branch[l] = r}

\* Both registries admitted their members and hold the debtor's acknowledgment, and nothing
\* is offered.
LedgersReady ==
    /\ debtors = {subject.debtor} /\ financiers = Licensed("home")
    /\ acks = {subject} /\ ackNullifiers = {ackNullifierOf(subject)} /\ NothingPledged
    /\ peerDebtors = {subject.debtor} /\ peerFinanciers = Licensed("peer")
    /\ peerAcks = {subject} /\ peerAckNullifiers = {ackNullifierOf(subject)}
    /\ Peer!NothingPledged
    /\ peers = [r \in Registries |-> OthersThan(r)]

-----------------------------------------------------------------------------
(* Properties.                                                             *)

DoublyFinanced == \A r \in Registries : pledgeIn(r, subject).status = "PLEDGED"

\* No contract sees across registries, but the question does: lenders that ask the other
\* registries while the offer to them stands, and accept only on FREE, never finance one
\* receivable twice.  It takes the open offer to count as an encumbrance, a registry that did
\* not answer to be no answer, and a state that is not judged by a later time.
AskedUnderOfferExclude == order = "under" /\ ~torn => ~DoublyFinanced

=============================================================================
