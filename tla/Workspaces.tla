----------------------------- MODULE Workspaces -----------------------------
(***************************************************************************)
(* The workspaces of the sandbox (web/src/routes/work/): one page for each *)
(* party, all in the hands of one visitor, over the registry in the tab.   *)
(* A page shows rows it reads off the ledger (web/src/lib/book.ts) and on  *)
(* each row the button that fits; a button calls one circuit.              *)
(*                                                                         *)
(* Here: the calls each page lets the visitor make of ledger l on day t,   *)
(* and what a call does when it lands.  What is captured when the button   *)
(* is pressed, an expiry for one, is part of the call.                     *)
(***************************************************************************)
EXTENDS SandboxRegistry

CONSTANTS
    DeskRefs,   \* bound on the rows of the book the visitor works on
    OfferTerms  \* bound on the days typed into the offer form, at least one

ASSUME WorkspacesAssumption == DeskRefs \subseteq Refs /\ OfferTerms \subseteq Nat \ {0}

BaseTerm  == 30
BaseFloor == 20

\* Mutation: an offer binds on the day it lapses.
EncumbranceToTheDay(l, t, r) ==
    LET p == PledgeOf(l, r)
    IN  CASE p.status \in {"ABSENT", "RELEASED"} -> "FREE"
          [] p.status = "OFFERED" /\ p.expiry < t -> "FREE"
          [] p.status = "SETTLED" -> "SETTLED"
          [] OTHER -> "ENCUMBERED"

\* encumbranceOf: what a row says of its receivable.
Encumbrance(l, t, r) ==
    LET p == PledgeOf(l, r)
    IN  CASE p.status \in {"ABSENT", "RELEASED"} -> "FREE"
          [] p.status = "OFFERED" /\ p.expiry <= t -> "FREE"
          [] p.status = "SETTLED" -> "SETTLED"
          [] OTHER -> "ENCUMBERED"

Offerable(l, t) == {r \in DeskRefs : HasAcknowledged(l, r) /\ Encumbrance(l, t, r) = "FREE"}

-----------------------------------------------------------------------------
(* The buttons on the rows.                                                *)

\* The debtor acknowledges, then pays, until the row is settled.
DebtorButtons(l) ==
    {[do |-> "acknowledge", ref |-> r] : r \in {x \in DeskRefs : ~HasAcknowledged(l, x)}}
    \cup {[do |-> "pay", ref |-> r] :
            r \in {x \in DeskRefs : HasAcknowledged(l, x) /\ PledgeOf(l, x).status # "SETTLED"}}

\* The seller is shown the proceeds whose payee tag is its own.
SellerClaims(l) ==
    {[do |-> "claim", ref |-> r, party |-> "seller"] :
        r \in {x \in DeskRefs : /\ PledgeOf(l, x).status = "SETTLED"
                                /\ PledgeOf(l, x).payee = "seller"
                                /\ ~PledgeOf(l, x).claimed}}

\* A lender finds the markers that carry its tag, as holder or as payee.
Mine(l, lender) == {r \in DeskRefs : lender \in {PledgeOf(l, r).holder, PledgeOf(l, r).payee}}

\* Mutation: a lapsed offer keeps its button.
AcceptButtonsLapsed(l, t, lender) ==
    {[do |-> "accept", ref |-> r, lender |-> lender] :
        r \in {x \in Mine(l, lender) : PledgeOf(l, x).status = "OFFERED"}}

AcceptButtons(l, t, lender) ==
    {[do |-> "accept", ref |-> r, lender |-> lender] :
        r \in {x \in Mine(l, lender) : PledgeOf(l, x).status = "OFFERED"
                                       /\ PledgeOf(l, x).expiry > t}}

ReleaseButtons(l, lender) ==
    {[do |-> "release", ref |-> r, lender |-> lender] :
        r \in {x \in Mine(l, lender) : PledgeOf(l, x).status = "PLEDGED"}}

\* The button asks the status alone, not who the payee is.
LenderClaims(l, lender) ==
    {[do |-> "claim", ref |-> r, party |-> lender] :
        r \in {x \in Mine(l, lender) : PledgeOf(l, x).status = "SETTLED" /\ ~PledgeOf(l, x).claimed}}

\* A keyholder approves each request once.
ApproveButtons(l) ==
    {[do |-> "approve", request |-> x[1], keyholder |-> x[2]] :
        x \in (l.requests \X (1..3)) \ l.approvals}

\* The auditor's button stays on a record's row whether or not it was asked for already.
RequestButtons(l) ==
    {[do |-> "request", request |-> [record |-> n, matter |-> "desk"]] : n \in 1..l.records}

Claims(l) == SellerClaims(l) \cup UNION {LenderClaims(l, f) : f \in Lenders}

RowButtons(l, t) ==
    DebtorButtons(l) \cup Claims(l) \cup RequestButtons(l) \cup ApproveButtons(l)
    \cup UNION {AcceptButtons(l, t, f) \cup ReleaseButtons(l, f) : f \in Lenders}

-----------------------------------------------------------------------------
(* The forms.                                                              *)

\* One receivable of the list of free ones, either lender, and a term.  What was chosen stays
\* chosen when its row leaves the list, by the offer itself or by a reset, and the button stays
\* on, so any row may be the one.
OfferForm(t) ==
    {[do |-> "offer", ref |-> r, lender |-> f, until |-> t + term] :
        r \in DeskRefs, f \in Lenders, term \in OfferTerms}

\* A pool of rows in the order they were ticked.  A row that is no longer free has lost its
\* checkbox and stays in the pool, so any rows may be in it.
Pools == {p \in UNION {[1..n -> DeskRefs] : n \in 1..Min({4, Cardinality(DeskRefs)})} : IsInjective(p)}

CertifyForm(t) ==
    {[do |-> "certify", pool |-> p, floor |-> BaseFloor, until |-> t + BaseTerm] : p \in Pools}

\* The operator admits a participant it has just generated; the seller writes an invoice.
OtherForms == {[do |-> "admit"], [do |-> "issue"]}

Presses(l, t) == RowButtons(l, t) \cup OfferForm(t) \cup CertifyForm(t) \cup OtherForms

\* A call as it lands.  The lender's reference and nonce come from the label in the form, which
\* is the same each time; a base is always offered to financier B.
Landed(call, l, t, keys) ==
    CASE call.do = "admit"       -> Admit(l, Outsider)
      [] call.do = "issue"       -> [ledger |-> l, said |-> "ok"]
      [] call.do = "acknowledge" -> Acknowledge(l, keys, call.ref)
      [] call.do = "pay"         -> Pay(l, call.ref)
      [] call.do = "offer"       -> Offer(l, t, call.ref, call.lender, call.until)
      [] call.do = "certify"     -> Certify(l, t, "desk", call.pool, "B", call.floor, call.until)
      [] call.do = "accept"      -> Accept(l, t, keys, call.lender, call.ref)
      [] call.do = "release"     -> Release(l, call.ref, call.lender)
      [] call.do = "claim"       -> Claim(l, call.ref, call.party)
      [] call.do = "request"     -> Request(l, call.request)
      [] call.do = "approve"     -> Approve(l, call.request, call.keyholder)

-----------------------------------------------------------------------------
(* What the pages promise.                                                 *)

\* A button of a row is one the registry accepts if its call landed at once.  Three exceptions:
\* with nobody admitted the debtor and the lenders are refused; a lender that never took its offer
\* up, or released its pledge, is shown a claim to proceeds that are the seller's; and the auditor
\* can ask again for what was asked for.
ButtonsAreAccepted(l, t, keys) ==
    \A b \in RowButtons(l, t) :
        LET said == Landed(b, l, t, keys).said
        IN  \/ said = "ok"
            \/ said \in {"NOT_REGISTERED_DEBTOR", "NOT_LICENSED"} /\ ~IsMember(l, keys)
            \/ said = "NOT_PAYEE" /\ b.party # "seller" /\ PledgeOf(l, b.ref).payee = "seller"
            \/ said = "DUPLICATE_REQUEST" /\ b.request \in l.requests

\* The list of free receivables is what the circuits call free.  An offer lands exactly when its
\* receivable is on the list and due no sooner than the offer lapses, and a certificate exactly
\* when all of its pool is, the pool is worth the floor and the label is unused.
ListsAreTheCircuits(l, t, keys) ==
    /\ \A c \in OfferForm(t) :
            Landed(c, l, t, keys).said = "ok" <=>
                c.ref \in Offerable(l, t) /\ c.until <= DueDay[c.ref]
    /\ \A c \in CertifyForm(t) :
            Landed(c, l, t, keys).said = "ok" <=>
                /\ \A r \in ToSet(c.pool) : r \in Offerable(l, t) /\ c.until <= DueDay[r]
                /\ PoolTotal(c.pool) >= c.floor /\ ~IsCertified(l, "desk")

\* Proceeds nobody has claimed are there for exactly one page's claim button.
ProceedsHaveOneButton(l, t, keys) ==
    \A r \in DeskRefs :
        PledgeOf(l, r).status = "SETTLED" /\ ~PledgeOf(l, r).claimed =>
            Cardinality({b \in Claims(l) : b.ref = r /\ Landed(b, l, t, keys).said = "ok"}) = 1

\* What a clock moved between a press and its landing can make of a call that was good.
ClockSpoils(call, from, to) ==
    CASE to > from /\ call.do = "accept"               -> {"OFFER_EXPIRED"}
      [] to > from /\ call.do \in {"offer", "certify"} -> {"BAD_EXPIRY"}
      [] to < from /\ call.do \in {"offer", "certify"} -> {"ALREADY_ENCUMBERED"}
      [] OTHER -> {}
=============================================================================
