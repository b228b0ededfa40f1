----------------------------- MODULE ReplaySteps -----------------------------
(***************************************************************************)
(* The seventeen steps of the guided replay (web/src/lib/replay.ts), each  *)
(* on ledger l, on day t, by the parties whose secrets are keys.           *)
(***************************************************************************)
EXTENDS SandboxRegistry

OfferDays == 7
CertificateDays == 30
BasePool == <<"1002", "1003">>

AdmitParties(l, keys) == Admit(l, keys)

AcknowledgeInvoice(l, keys) == Acknowledge(l, keys, "1001")

OfferTo(l, t, r, lender) == Offer(l, t, r, lender, t + OfferDays)

AcceptOffer(l, t, keys) == Accept(l, t, keys, "A", "1001")

PayInvoice(l) == Pay(l, "1001")

ClaimProceeds(l, party) == Claim(l, "1001", party)

\* The base's two invoices are acknowledged one after the other: the second call is made only if
\* the first was not refused, and what the first wrote stays.
AcknowledgeBase(l, keys) ==
    LET first == Acknowledge(l, keys, BasePool[1])
    IN  IF first.said = "ok" THEN Acknowledge(first.ledger, keys, BasePool[2]) ELSE first

CertifyBase(l, t, floor) ==
    Certify(l, t, "replay", BasePool, "B", floor, t + CertificateDays)

\* The request for the record sealed with the pledge of 1001, in the replay's own matter.
ReplayRequest(l) == [record |-> PledgeOf(l, "1001").record, matter |-> "replay"]

\* A step that reads the pledge of 1001 throws, and calls nothing, if there is none.
OfPledge(l, called) ==
    IF PledgeOf(l, "1001").status = "ABSENT" THEN [ledger |-> l, said |-> "error"] ELSE called

RequestRecord(l) == OfPledge(l, Request(l, ReplayRequest(l)))

ApproveAs(l, keyholder) == OfPledge(l, Approve(l, ReplayRequest(l), keyholder))

OpenRecord(l) ==
    [ledger |-> l, said |-> IF Opens(l, ReplayRequest(l)) THEN "ok" ELSE "error"]

-----------------------------------------------------------------------------
(* The script: the steps in order, with the refusal each is there to show. *)

Steps == << <<"admit", "ok">>, <<"acknowledge", "ok">>, <<"offer", "ok">>, <<"accept", "ok">>,
            <<"forged", "NOT_ACKNOWLEDGED">>, <<"inflated", "NOT_ACKNOWLEDGED">>,
            <<"double", "ALREADY_ENCUMBERED">>, <<"pay", "ok">>, <<"divert", "NOT_PAYEE">>,
            <<"claim", "ok">>, <<"base-ack", "ok">>, <<"overstate", "BELOW_FLOOR">>,
            <<"certify", "ok">>, <<"request", "ok">>, <<"approve-one", "ok">>,
            <<"approve-two", "ok">>, <<"open", "ok">> >>

Expected(i) == Steps[i][2]

RunOf(i, l, t, keys) ==
    LET id == Steps[i][1]
    IN  CASE id = "admit"       -> AdmitParties(l, keys)
          [] id = "acknowledge" -> AcknowledgeInvoice(l, keys)
          [] id = "offer"       -> OfferTo(l, t, "1001", "A")
          [] id = "accept"      -> AcceptOffer(l, t, keys)
          [] id = "forged"      -> OfferTo(l, t, "9999", "B")
          [] id = "inflated"    -> OfferTo(l, t, "inflated", "B")
          [] id = "double"      -> OfferTo(l, t, "1001", "B")
          [] id = "pay"         -> PayInvoice(l)
          [] id = "divert"      -> ClaimProceeds(l, "seller")
          [] id = "claim"       -> ClaimProceeds(l, "A")
          [] id = "base-ack"    -> AcknowledgeBase(l, keys)
          [] id = "overstate"   -> CertifyBase(l, t, 25)
          [] id = "certify"     -> CertifyBase(l, t, 20)
          [] id = "request"     -> RequestRecord(l)
          [] id = "approve-one" -> ApproveAs(l, 1)
          [] id = "approve-two" -> ApproveAs(l, 3)
          [] id = "open"        -> OpenRecord(l)
=============================================================================
