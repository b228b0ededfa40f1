----------------------------- MODULE Lifecycle -----------------------------
(***************************************************************************)
(* A recorded run of the product against one registry: the guided replay   *)
(* of the command line (cli/src/scenario.ts) and the shorter one of the    *)
(* mainnet console (tools/mainnet-console/src/lib/lifecycle.ts, app.tsx).  *)
(*                                                                         *)
(* Both walk a fixed plan.  A step is a transaction, a call that must be   *)
(* refused while its circuit runs locally, or a reading of public state.   *)
(* A completed step is recorded in memory and saved to a file, from which  *)
(* a later start resumes: between the landing of a transaction and its     *)
(* record the answer can be lost, the page closed or the process killed.   *)
(*                                                                         *)
(* The ledger is module Registry's variables with module Disclosure's.     *)
(* The personas, invoices and references a run draws at its start are      *)
(* saved with it: they are constants.  A run of the command line that dies *)
(* before its first save draws new ones, and a first step that landed then *)
(* leaves a debtor behind that nobody is.                                  *)
(***************************************************************************)
EXTENDS Registry

CONSTANTS
    lenderA, lenderB,           \* financierA and financierB of the run
    main,                       \* invoice #1001
    forged,                     \* #9999, which the debtor never acknowledges
    inflated,                   \* #1001 at ten times its amount
    pool,                       \* the invoices of the borrowing base
    certId,
    floor, overstatedFloor,
    validUntil,                 \* of the certificate
    offerExpiry,                \* by tool: a week at the command line, a month in the console
    caseRef, insolvencyRef,     \* what the auditor names its request and its case after
    keyholder1, keyholder2, keyholder3,
    CaseWidth,                  \* records of the case: #1001's, then the pool's
    Unused, NoShare

VARIABLES
    requests, requestApprovals, cases, caseApprovals, shares,   \* Disclosure's
    tool,       \* "cli" or "console"
    at,         \* "off", "idle", "running" a step, or "landed": its transaction is on the ledger
    memory,     \* the run in memory: steps recorded, and the disclosure opened
    file,       \* the run as last saved
    detached,   \* the runners of the page write to a run that is no longer its state
    replayed,   \* history: --from has thrown recorded steps away
    landed,     \* history: the steps whose transaction landed,
    relanded    \* and those, admissions apart, that landed again before any replay

Audit == INSTANCE Disclosure WITH
    records <- {r \in RecordIds : records[r] # None},
    Receivables <- Invoices, Matters <- {caseRef}, CaseRefs <- {insolvencyRef},
    Keyholders <- {keyholder1, keyholder2, keyholder3}, MaxRecords <- 0, MaxCases <- 1

Tools == {"cli", "console"}

\* The figures of a run (cli/src/scenario.ts:77-98, 231-258, 686-697): its three invoices and
\* those of its pool are different ones, the pool is worth less than the overstated floor, and
\* the records of #1001 and of the pool fill every slot of the case.
ASSUME LifecycleAssumption ==
    /\ {lenderA, lenderB} \subseteq Financiers /\ lenderA # lenderB
    /\ {main, forged, inflated} \subseteq Invoices
    /\ main # forged /\ main # inflated /\ forged # inflated
    /\ main.amount > 0
    /\ pool \in Pools /\ Distinct(pool) /\ Len(pool) > 1
    /\ Elements(pool) \cap {main, forged, inflated} = {}
    /\ certId \in CertIds
    /\ {floor, overstatedFloor} \subseteq Floors /\ floor > 0 /\ PoolTotal(pool) < overstatedFloor
    /\ validUntil \in Times /\ offerExpiry \in [Tools -> Times]
    /\ keyholder1 # keyholder2 /\ keyholder1 # keyholder3 /\ keyholder2 # keyholder3
    /\ CaseWidth \in 1..(Len(pool) + 1)
    /\ Unused \notin RecordIds /\ NoShare \notin Audit!Share
    /\ None \notin Certificate
    /\ None \notin {"NOT_ACKNOWLEDGED", "ALREADY_ENCUMBERED", "NOT_PAYEE", "BELOW_FLOOR"}

auditLedger == <<requests, requestApprovals, cases, caseApprovals, shares>>
ledger == <<vars, auditLedger>>
runner == <<at, memory, file, detached, replayed>>
history == <<landed, relanded>>
runVars == <<ledger, tool, runner, history>>

-----------------------------------------------------------------------------
(* The plans.                                                              *)

\* A step calls op about invoice n as, or for, party p; refusal is the code it must meet.
Step(op, n, p, refusal) == [op |-> op, n |-> n, p |-> p, refusal |-> refusal]

Opening(lenders) ==
    <<Step("admitDebtor", None, None, None)>>
    \o [i \in 1..Len(lenders) |-> Step("admitFinancier", None, lenders[i], None)]
    \o <<Step("acknowledge", main, None, None),
         Step("offer", main, lenderA, None),
         Step("accept", main, lenderA, None)>>

\* Mutation: another code is expected.
DoublePledgeForged == Step("offer", main, lenderB, "NOT_ACKNOWLEDGED")

DoublePledge == Step("offer", main, lenderB, "ALREADY_ENCUMBERED")

\* The three frauds, then the receivable released, financed by another lender, paid and claimed.
Financing ==
    <<Step("offer", forged, lenderB, "NOT_ACKNOWLEDGED"),
      Step("offer", inflated, lenderB, "NOT_ACKNOWLEDGED"),
      DoublePledge,
      Step("release", main, lenderA, None),
      Step("offer", main, lenderB, None),
      Step("accept", main, lenderB, None),
      Step("payInvoice", main, None, None),
      Step("claimAsSeller", main, None, "NOT_PAYEE"),
      Step("claimAsHolder", main, lenderB, None)>>

\* The borrowing base, taken up by an accept and a batch.
BorrowingBase ==
    [i \in 1..Len(pool) |-> Step("acknowledge", pool[i], None, None)]
    \o <<Step("certifyBorrowingBase", None, lenderA, "BELOW_FLOOR"),
         Step("certifyBorrowingBase", None, lenderA, None),
         Step("checkCertificate", None, None, None),
         Step("accept", pool[1], lenderA, None),
         Step("acceptBatch", None, lenderA, None)>>

OpenDisclosure == Step("open", main, None, None)

RecordDisclosure ==
    <<Step("requestDisclosure", main, None, None),
      Step("approveDisclosure", main, keyholder1, None),
      Step("approveDisclosure", main, keyholder3, None),
      OpenDisclosure>>

CaseDisclosure ==
    <<Step("openCase", None, None, None),
      Step("approveCase", None, keyholder1, None),
      Step("approveCase", None, keyholder3, None),
      Step("openWholeCase", None, None, None),
      Step("checkAcross", main, None, None)>>

ConsolePlan == Opening(<<lenderA>>) \o <<DoublePledge>> \o RecordDisclosure

\* Mutation: the record is opened before the receivable is financed again.
CliPlanOpenedEarly == Opening(<<lenderA, lenderB>>) \o RecordDisclosure \o Financing
                      \o BorrowingBase \o CaseDisclosure

CliPlan == Opening(<<lenderA, lenderB>>) \o Financing \o BorrowingBase
           \o RecordDisclosure \o CaseDisclosure

Plan == IF tool = "cli" THEN CliPlan ELSE ConsolePlan
Steps == Elements(CliPlan) \cup Elements(ConsolePlan)

\* The steps that build no transaction.
OffChain == {"checkCertificate", "open", "openWholeCase", "checkAcross"}

\* Admitting a member again adds a leaf that is there already.
Repeatable == {"admitDebtor", "admitFinancier"}

Runs == [steps : SUBSET Steps, disclosure : RecordIds \cup {None}]

NextIndex(run) ==
    CHOOSE i \in DOMAIN Plan :
        Plan[i] \notin run.steps /\ \A j \in 1..(i - 1) : Plan[j] \in run.steps

Finished(run) == Elements(Plan) \subseteq run.steps
CurrentStep == Plan[NextIndex(memory)]

-----------------------------------------------------------------------------
(* What a step does on the ledger.                                         *)

\* An ephemeral the seller has not drawn for n; there are as many as it can draw.
Undrawn(n) == {e \in Ephemerals : records[<<n, e>>] = None}
Fresh(n) == CHOOSE e \in Undrawn(n) : TRUE

OfferTo(n, f) ==
    /\ Undrawn(n) # {}
    /\ Offer(main.seller, n, holderTagOf(f, n), offerExpiry[tool], Fresh(n))

\* Every slot is addressed to lender f, under an ephemeral of its own.
Certify(f, c, least) ==
    /\ CertifyBorrowingBase(main.seller, c, least, validUntil, pool)
    /\ \A n \in Elements(pool) :
        /\ pledges'[n].holderTag = holderTagOf(f, n)
        /\ records[pledges'[n].recordId] = None

FloorAsked(s) == IF s.refusal = "BELOW_FLOOR" THEN overstatedFloor ELSE floor

RegistryCall(s) ==
    \/ s.op = "admitDebtor" /\ AdmitDebtor(Operator, main.debtor)
    \/ s.op = "admitFinancier" /\ AdmitFinancier(Operator, s.p)
    \/ s.op = "acknowledge" /\ Acknowledge(main.debtor, s.n)
    \/ s.op = "offer" /\ OfferTo(s.n, s.p)
    \/ s.op = "accept" /\ Accept(s.p, s.n)
    \/ s.op = "release" /\ Release(s.p, s.n)
    \/ s.op = "payInvoice" /\ PayInvoice(main.debtor, s.n)
    \/ s.op = "claimAsSeller" /\ ClaimAsSeller(main.seller, s.n)
    \/ s.op = "claimAsHolder" /\ ClaimAsHolder(s.p, s.n)
    \/ s.op = "certifyBorrowingBase" /\ Certify(s.p, certId, FloorAsked(s))
    \/ s.op = "acceptBatch" /\ AcceptBatch(s.p, Tail(pool))

\* The record the pledge of n points at now, and the request about it.
currentRecordId(n) == pledges[n].recordId
currentRequestId == Audit!requestIdOf(currentRecordId(main), caseRef)

\* openCase lists #1001's record first and the pool's after it.
CaseSlots ==
    [j \in 0..(CaseWidth - 1) |-> currentRecordId(IF j = 0 THEN main ELSE pool[j])]

AuditCall(s) ==
    \/ s.op = "requestDisclosure" /\ Audit!RequestDisclosure(currentRecordId(main), caseRef)
    \/ s.op = "approveDisclosure" /\ Audit!ApproveDisclosure(s.p, currentRequestId)
    \/ s.op = "openCase" /\ Audit!OpenCase(insolvencyRef, CaseSlots)
    \/ s.op = "approveCase" /\ Audit!ApproveCase(s.p, insolvencyRef)

Transaction(s) ==
    \/ RegistryCall(s) /\ UNCHANGED auditLedger
    \/ UNCHANGED vars /\ AuditCall(s)

-----------------------------------------------------------------------------
(* What a step finds without a transaction.                                *)

\* The circuit, run locally, fails the assert the step names, and none before it.
MeetsRefusal(s) ==
    \/ /\ s.refusal = "NOT_ACKNOWLEDGED"
       /\ s.n.seller = main.seller
       /\ s.n \notin acks
    \/ /\ s.refusal = "ALREADY_ENCUMBERED"
       /\ Offerable(main.seller, s.n, offerExpiry[tool])
       /\ ~Free(s.n) /\ pledges[s.n].status # "SETTLED"
    \/ /\ s.refusal = "NOT_PAYEE"
       /\ pledges[s.n].status = "SETTLED"
       /\ pledges[s.n].payeeTag # sellerPayeeTagOf(main.seller, s.n)
    \/ /\ s.refusal = "BELOW_FLOOR"
       /\ now < validUntil /\ certificates[certId] = None
       /\ \A n \in Elements(pool) : CheckSlot(main.seller, n, validUntil)
       /\ PoolTotal(pool) < overstatedFloor

\* checkCertificate: live, and every slot an open offer to f.
CertificateLocks(f) ==
    /\ certificates[certId] # None /\ now < certificates[certId].validUntil
    /\ \A n \in Elements(certificates[certId].slots) :
        Open(n) /\ pledges[n].holderTag = holderTagOf(f, n)

Readable(s) ==
    \/ s.op = "checkCertificate" /\ CertificateLocks(lenderA) /\ ~CertificateLocks(lenderB)
    \/ s.op = "open" /\ currentRequestId \in requests /\ Audit!OpenRequest(currentRequestId)
    \/ /\ s.op = "openWholeCase"
       /\ insolvencyRef \in Audit!OpenCases
       /\ \A k \in 0..(CaseWidth - 1) : Audit!OpenFromCase(insolvencyRef, k)
    \/ s.op = "checkAcross"

-----------------------------------------------------------------------------
(* The runner.                                                             *)

RunInit ==
    /\ Init
    /\ Audit!Init
    /\ tool \in Tools
    /\ at = "off"
    /\ memory = [steps |-> {}, disclosure |-> None]
    /\ file = memory
    /\ detached = FALSE
    /\ replayed = FALSE
    /\ landed = {} /\ relanded = {}

\* A save that fails ends the command line's process (Close) and leaves the page its memory.
Save(run) == file' = run \/ (tool = "console" /\ file' = file)

\* The process started, or the page loaded and its run prepared: resume from the file.
Start ==
    /\ at = "off"
    /\ at' = "idle"
    /\ memory' = file
    /\ detached' = FALSE
    /\ UNCHANGED <<ledger, tool, file, replayed, history>>

\* --from: the named step and everything after it is not done.
Without(run, i) == [run EXCEPT !.steps = @ \ {Plan[j] : j \in i..Len(Plan)}]

\* The command line started with --from a recorded step; the file is not written yet.  Bound:
\* a run is replayed once.
StartFrom(i) ==
    /\ at = "off" /\ tool = "cli" /\ ~replayed
    /\ Plan[i] \in file.steps
    /\ at' = "idle"
    /\ memory' = Without(file, i)
    /\ detached' = FALSE
    /\ replayed' = TRUE
    /\ UNCHANGED <<ledger, tool, file, history>>

\* The first step of the plan that is not recorded.
Begin ==
    /\ at = "idle" /\ ~Finished(memory)
    /\ at' = "running"
    /\ UNCHANGED <<ledger, tool, memory, file, detached, replayed, history>>

\* The step's transaction is built, proved, submitted and included.
Land ==
    /\ at = "running"
    /\ CurrentStep.op \notin OffChain
    /\ Transaction(CurrentStep)
    /\ at' = "landed"
    /\ landed' = landed \cup {CurrentStep}
    /\ relanded' = IF CurrentStep \in landed /\ CurrentStep.op \notin Repeatable /\ ~replayed
                   THEN relanded \cup {CurrentStep} ELSE relanded
    /\ UNCHANGED <<tool, memory, file, detached, replayed>>

\* The opening goes to the run the runners were prepared for.
Completed(run, s) ==
    [steps |-> run.steps \cup {s},
     disclosure |-> IF s = OpenDisclosure /\ ~detached THEN currentRecordId(main)
                    ELSE run.disclosure]

Record(s) ==
    /\ at' = "idle"
    /\ memory' = Completed(memory, s)
    /\ Save(memory')
    /\ UNCHANGED <<ledger, tool, detached, replayed, history>>

\* The receipt of a transaction that was to land.
Receipt ==
    /\ at = "landed"
    /\ CurrentStep.refusal = None
    /\ Record(CurrentStep)

\* A refusal met as expected, or public state found as expected.
RunLocally ==
    /\ at = "running"
    /\ IF CurrentStep.refusal # None THEN MeetsRefusal(CurrentStep) ELSE Readable(CurrentStep)
    /\ Record(CurrentStep)

\* Mutation: the error is recorded as an outcome.
FailRecorded == at \in {"running", "landed"} /\ Record(CurrentStep)

\* The step ends in an error: before anything was submitted (refused by the circuit, declined in
\* the wallet, failed to prove), after it landed (the answer lost), or because a call that had
\* to be refused was accepted.  The run is saved without the step.
Fail ==
    /\ at \in {"running", "landed"}
    /\ at' = IF tool = "cli" THEN "off" ELSE "idle"
    /\ Save(memory)
    /\ UNCHANGED <<ledger, tool, memory, detached, replayed, history>>

\* The page closed, or the process killed.
Close ==
    /\ at # "off"
    /\ at' = "off"
    /\ memory' = file
    /\ UNCHANGED <<ledger, tool, file, detached, replayed, history>>

\* "Re-check" replaces the page's state by the file; the runners prepared before keep their own.
Recheck ==
    /\ at = "idle" /\ tool = "console"
    /\ memory' = file
    /\ detached' = TRUE
    /\ UNCHANGED <<ledger, tool, at, file, replayed, history>>

\* "Prepare the lifecycle" once more.
Prepare ==
    /\ at = "idle" /\ tool = "console"
    /\ detached' = FALSE
    /\ Save(memory)
    /\ UNCHANGED <<ledger, tool, at, memory, replayed, history>>

TimePasses == Tick /\ UNCHANGED <<auditLedger, tool, runner, history>>

RunNext ==
    \/ Start \/ Begin \/ Land \/ Receipt \/ RunLocally
    \/ Fail \/ Close \/ Recheck \/ Prepare \/ TimePasses
    \/ \E i \in DOMAIN Plan : StartFrom(i)

\* The operator keeps resuming the run and does not close it for ever before each step; a step
\* under way ends, and one tried again and again is at last let through by the wallet, the
\* prover and the network, answered, and saved.
Fairness ==
    /\ WF_runVars(Start)
    /\ SF_runVars(Begin)
    /\ SF_runVars(Land)
    /\ SF_runVars(RunLocally /\ file' = memory')
    /\ SF_runVars(Receipt /\ file' = memory')
    /\ WF_runVars(Fail)

RunSpec == RunInit /\ [][RunNext]_runVars /\ Fairness

-----------------------------------------------------------------------------
(* Properties.                                                             *)

\* The run's two copies are runs, and they agree while nothing runs.
RunTypeOK ==
    /\ tool \in Tools
    /\ at \in {"off", "idle", "running", "landed"}
    /\ memory \in Runs /\ file \in Runs
    /\ at = "off" => memory = file
    /\ detached \in BOOLEAN /\ replayed \in BOOLEAN
    /\ relanded \subseteq landed /\ landed \subseteq Steps

\* Whatever is lost, killed or closed between a transaction and its record, resuming lands no
\* transaction a second time, admissions apart; only --from can.
StepsLandOnce == relanded = {}

\* A call the plan wants refused is never accepted, unless --from replays it.
RefusalsHoldUnreplayed ==
    ~replayed => \A s \in landed : s.refusal = None

\* A saved disclosure is the record the pledge of #1001 points at, consented to by two
\* keyholders and naming the lender the run says financed it.
DisclosureIsTrue ==
    file.disclosure # None =>
        /\ file.disclosure = currentRecordId(main)
        /\ Cardinality(Audit!ApprovedSlots(file.disclosure)) >= 2
        /\ records[file.disclosure] = holderTagOf(lender[main], main)

\* What a run recorded to its end claims is on the ledger, through failures, restarts and
\* replays: who financed #1001, that the lender was paid, that the frauds left no trace, that
\* the pool is locked to its lender above its floor, and that two keyholders opened the records.
FinishedRunIsTrue ==
    Finished(file) =>
        /\ forged \notin acks /\ inflated \notin acks
        /\ pledges[forged] = Absent /\ pledges[inflated] = Absent
        /\ currentRequestId \in requests /\ Audit!OpenRequest(currentRequestId)
        /\ IF tool = "console" THEN lender[main] = lenderA /\ pledges[main].status = "PLEDGED"
           ELSE /\ lender[main] = lenderB /\ payee[main] = lenderB /\ sent[main] = main.amount
                /\ \A n \in Elements(pool) : lender[n] = lenderA
                /\ certificates[certId] # None
                /\ certificates[certId].slots = pool /\ certificates[certId].floor = floor
                /\ insolvencyRef \in Audit!OpenCases
                /\ \A j \in 0..(CaseWidth - 1) : Audit!OpenFromCase(insolvencyRef, j)

\* What landed and is missing from the run: its answer was lost, or --from dropped it.
Unrecorded ==
    {s \in landed \ memory.steps : s.op \notin Repeatable}
        \ (IF at = "landed" THEN {CurrentStep} ELSE {})

InTime == now < offerExpiry[tool]

\* While no transaction but an admission goes unrecorded and the offers have not expired, any
\* number of failed steps, failed saves and restarts costs no more than its repetition.
FailedStepsAreRepeated ==
    [](InTime /\ ~replayed /\ Unrecorded = {}) => <>Finished(memory)

=============================================================================
