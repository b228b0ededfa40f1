---------------------------- MODULE Verification ----------------------------
(***************************************************************************)
(* What a recorded run is for: the evidence file it leaves                 *)
(* (cli/src/scenario.ts, tools/mainnet-console/src/lib/evidence.ts) and    *)
(* the check anybody can run against it (cli/src/verify.ts).               *)
(*                                                                         *)
(* Evidence is the run's steps and disclosure with every row of the ledger *)
(* at that moment.  verify reads the ledger again, asks that every row is  *)
(* still there field for field, and then five claims of the chain; rows    *)
(* the evidence does not have are reported and fail nothing.  The          *)
(* deployment record, the anchors of the indexer and the wording of the    *)
(* report are left out, and so is --exact, which is equality.              *)
(*                                                                         *)
(* Bounds: others call the registry MaxVisits times, once a finished run   *)
(* has written its evidence, and no tool runs again after them.  A file    *)
(* that fails to be written is no step: nothing else depends on it.        *)
(***************************************************************************)
EXTENDS Lifecycle

CONSTANT MaxVisits

ASSUME VerificationAssumption == MaxVisits \in Nat

VARIABLES
    evidence,   \* the newest evidence file, or None
    visits      \* calls of others since the run was finished

verifyVars == <<runVars, evidence, visits>>

\* serializeLedgerView: the rows of the public ledger.
LedgerView ==
    [debtors |-> debtors, financiers |-> financiers, acks |-> acks, pledges |-> pledges,
     records |-> records, certificates |-> certificates, requests |-> requests,
     requestApprovals |-> requestApprovals, cases |-> cases, caseApprovals |-> caseApprovals,
     shares |-> shares]

-----------------------------------------------------------------------------
(* The check.                                                              *)

\* compareByKey: a recorded row is on the chain with every field it had.
RowsHold(then, chain, absent) ==
    \A k \in DOMAIN then : then[k] # absent => chain[k] = then[k]

\* compareCount of the sets no row check covers: they may only have grown.
NothingShrank(view) ==
    /\ Cardinality(view.debtors) <= Cardinality(debtors)
    /\ Cardinality(view.financiers) <= Cardinality(financiers)
    /\ Cardinality(view.acks) <= Cardinality(acks)

EveryRowStands(view) ==
    /\ NothingShrank(view)
    /\ RowsHold(view.pledges, pledges, Absent)
    /\ RowsHold(view.records, records, None)
    /\ RowsHold(view.certificates, certificates, None)
    /\ view.requests \subseteq requests
    /\ \A q \in view.requests : requestApprovals[q] = view.requestApprovals[q]
    /\ RowsHold(view.shares, shares, NoShare)
    /\ RowsHold(view.cases, cases, Audit!NoCase)
    /\ \A c \in DOMAIN view.cases :
        view.cases[c] # Audit!NoCase => caseApprovals[c] = view.caseApprovals[c]

SettledHere(view) ==
    {n \in Invoices : view.pledges[n] # Absent /\ pledges[n].status = "SETTLED"}

CertifiedHere(view) ==
    {c \in CertIds : view.certificates[c] # None /\ certificates[c] # None}

\* The claims: proceeds claimed, a pool locked above a floor, a request approved by two, and a
\* record that was opened.  verify takes the first certificate and the first request it finds.
ClaimsHold(e) ==
    /\ SettledHere(e.view) # {}
    /\ \A n \in SettledHere(e.view) : pledges[n].claimed /\ pledges[n].amount > 0
    /\ CertifiedHere(e.view) # {}
    /\ \A c \in CertifiedHere(e.view) :
        certificates[c].floor > 0 /\ Len(certificates[c].slots) > 0
    /\ e.view.requests # {}
    /\ \A q \in e.view.requests : Cardinality(requestApprovals[q]) >= 2
    /\ e.disclosure # None

Verifies(e) == EveryRowStands(e.view) /\ ClaimsHold(e)

-----------------------------------------------------------------------------
(* Writing it, and what comes after.                                       *)

\* The evidence of the run in memory, over the ledger as it is.
Evidence == [by |-> tool, steps |-> memory.steps, disclosure |-> memory.disclosure,
             view |-> LedgerView]

\* Mutation: the command line stops and writes its evidence at any step.
WritableEarly == at = "idle" /\ memory.steps # {}

\* The command line writes it after its last step; the console whenever its button is pressed,
\* and its server refuses a file with no step in it.
Writable ==
    /\ at = "idle" /\ memory.steps # {}
    /\ tool = "cli" => Finished(memory)

WriteEvidence ==
    /\ Writable /\ visits = 0
    /\ evidence' = Evidence
    /\ at' = IF tool = "cli" THEN "off" ELSE "idle"
    /\ UNCHANGED <<ledger, tool, memory, file, detached, replayed, history, visits>>

\* Calls that, by the table GROWS, add rows: admissions, acknowledgments, offers, certificates,
\* requests and cases.
AddsRows ==
    \/ /\ UNCHANGED auditLedger
       /\ \/ \E d \in Debtors : AdmitDebtor(Operator, d)
          \/ \E f \in Financiers : AdmitFinancier(Operator, f)
          \/ \E d \in Debtors, n \in Invoices : Acknowledge(d, n)
          \/ \E s \in Sellers, n \in Invoices, t \in Times, e \in Ephemerals :
                \E tag \in OfferTags(n) : Offer(s, n, tag, t, e)
          \/ \E s \in Sellers, c \in CertIds, least \in Floors, t \in Times, ns \in Pools :
                CertifyBorrowingBase(s, c, least, t, ns)
    \/ /\ UNCHANGED vars
       /\ \/ \E r \in RecordIds : Audit!RequestDisclosure(r, caseRef)
          \/ \E slots \in [Audit!Slots -> RecordIds \cup {Unused}] :
                Audit!OpenCase(insolvencyRef, slots)

\* Calls that change a row: a financing taken up, given up, paid or claimed, and an approval,
\* which adds a share and marks its request.
ChangesRows ==
    \/ /\ UNCHANGED auditLedger
       /\ \/ \E f \in Financiers, n \in Invoices : Accept(f, n) \/ Release(f, n) \/ ClaimAsHolder(f, n)
          \/ \E d \in Debtors, n \in Invoices : PayInvoice(d, n)
          \/ \E s \in Sellers, n \in Invoices : ClaimAsSeller(s, n)
    \/ /\ UNCHANGED vars
       /\ \E i \in {keyholder1, keyholder2, keyholder3} :
            \/ \E q \in requests : Audit!ApproveDisclosure(i, q)
            \/ Audit!ApproveCase(i, insolvencyRef)

Visit ==
    /\ evidence # None /\ Finished(file) /\ at = "off"
    /\ visits < MaxVisits
    /\ AddsRows \/ ChangesRows
    /\ visits' = visits + 1
    /\ UNCHANGED <<tool, runner, history, evidence>>

VerifyInit == RunInit /\ evidence = None /\ visits = 0

\* A step of the run, before others call.
Alone(step) == step /\ visits = 0 /\ UNCHANGED <<evidence, visits>>

VerifyNext ==
    \/ Alone(RunNext)
    \/ WriteEvidence
    \/ Visit
    \/ TimePasses /\ UNCHANGED <<evidence, visits>>

\* Lifecycle's fairness, of the run's steps here.
VerifyFairness ==
    /\ WF_verifyVars(Alone(Start))
    /\ SF_verifyVars(Alone(Begin))
    /\ SF_verifyVars(Alone(Land))
    /\ SF_verifyVars(Alone(RunLocally /\ file' = memory'))
    /\ SF_verifyVars(Alone(Receipt /\ file' = memory'))
    /\ WF_verifyVars(Alone(Fail))

VerifySpec == VerifyInit /\ [][VerifyNext]_verifyVars /\ VerifyFairness

-----------------------------------------------------------------------------
(* Properties.                                                             *)

\* Through failures, restarts and resumptions no transaction lands twice and no call the plan
\* wants refused is accepted, until --from replays it; and while nobody else calls the registry
\* the saved disclosure and a finished run's claims are on the ledger, replayed or not.
RecordedRunIsTrue ==
    /\ StepsLandOnce /\ RefusalsHoldUnreplayed
    /\ visits = 0 => DisclosureIsTrue /\ FinishedRunIsTrue

\* The ledger is as the evidence found it.
LedgerAsRecorded == evidence.view = LedgerView

\* cli/src/scenario.ts:888 sends its reader from the evidence to verify.  Whatever failed, was
\* killed, resumed or replayed on the way, the evidence of a finished command-line run verifies
\* against the ledger it describes, as long as the run had the registry to itself.
FinishedEvidenceVerifies ==
    evidence # None /\ evidence.by = "cli" /\ LedgerAsRecorded => Verifies(evidence)

\* cli/src/verify.ts:13-27: the ledger keeps going, and more of it makes no evidence false.  No
\* call that adds rows turns evidence that verified into evidence that fails, however its rows
\* were reached: the guards of the circuits keep a new row off a recorded one.
MoreIsNoFailure ==
    [][Visit /\ AddsRows /\ Verifies(evidence) => Verifies(evidence)']_verifyVars

\* tools/mainnet-console/src/app.tsx:280 sends its reader to verify as well.
ConsoleEvidenceVerifies ==
    evidence # None /\ evidence.by = "console" /\ Finished(file) /\ evidence.steps = file.steps
        /\ LedgerAsRecorded => Verifies(evidence)

=============================================================================
