# Stock & Foil: verification project

Stock & Foil is a registry of pledged receivables on the Midnight chain. A debtor acknowledges an
invoice, its seller offers it as security, a financier takes the offer up, the debtor pays, and
whoever the money belongs to claims it. The ledger shows only hashes. Who holds a pledge is sealed
in a record that an auditor can open with two approvals out of three keyholders. Around the contract
stand a TypeScript SDK, a sponsor that pays other people's transaction fees, command line tools, a
browser console that deploys a registry on mainnet, and a web site with a sandbox.

This directory holds TLA+ models of the parts with state, TLC runs that check them on small
instances, and TLAPS proofs for every value of the constants. Paths below are relative to the repository.

1. [Inventory](#1-inventory)
2. [Modules](#2-modules)
3. [Runs, bounds and what they show](#3-runs-bounds-and-what-they-show)
4. [Disagreements found](#4-disagreements-found)
5. [Fairness](#5-fairness)
6. [Proofs](#6-proofs)
7. [What is not modelled](#7-what-is-not-modelled)
8. [Plan](#8-plan)
9. [Running the checks](#9-running-the-checks)

## 1. Inventory

| Component | State | Operations | Talks to |
|---|---|---|---|
| Registry circuits, `contract/src/stock-and-foil.compact` | member trees, acknowledgments and their nullifiers, pledges, records, certificates, tokens, declared peers | admit, acknowledge, offer, accept, acceptBatch, release, certifyBorrowingBase, payInvoice, claim, registerPeer | read by every client, called through a backend |
| Disclosure circuits, same file and `modules/Cipher.compact` | requests, cases, approvals, sealed shares | requestDisclosure, approveDisclosure, openCase, approveCase | uses the records that offers seal |
| Role clients, `sdk/src/roles` | none of their own; they read the ledger, then call | one method per circuit, and reads | backend |
| Auditor's reconstruction, `sdk/src/audit.ts`, `roles/auditor.ts`, `backend/view.ts` | none; a function of the ledger | open, openFromCase, recordDisclosureState, reusedSealingKeys | ledger view |
| Network backend, `sdk/src/backend/network.ts` | private-state store of each persona, cache of contract handles | deploy, call, ledger reads | wallet, indexer, proof server |
| Fee sponsor, `sponsor/src`, and its client `sdk/src/backend/sponsor.ts` | rate-limit windows, spent and reserved DUST, requests in flight | sponsor(), prune, HTTP front end, restart | wallet, chain, proxies |
| Staged deployment, `tools/mainnet-console` | progress file, page state, private-state file, deployment records | preflight, dry run, deploy, resume, edit | wallet, chain, its own file server |
| Recorded runs, `cli/src/scenario.ts` and the console's lifecycle | the run's file and its copy in memory, evidence files | start, resume, `--from`, re-check | backend, indexer |
| Verification, `cli/src/verify.ts` | none; a function of evidence and ledger | verify | indexer |
| Submission, `mainnet-console/server/submit.ts`, `sdk/src/backend/rpc-submit.ts` | connections, subscriptions, timers | submit | node RPC |
| Key ceremony, `sdk/src/crypto`, `cli/src/ceremony.ts`, the console | the key file, keys held by pages and processes | split, recover, check, write, deploy | constructor |
| Cross-registry check, `registerPeer`, `roles/financier.ts`, `cli/src/federation.ts`, `web/src/lib/federation.ts` | peer list, answers heard, cached states | checkEncumbranceAcross, the demonstration, the panel | two registries' indexers |
| Simulator and browser sandbox, `sdk/src/backend/simulator.ts`, `web/src` | an in-process ledger, the guided replay, browser storage | the same circuits, run, rewind, reload | web site |
| Other command line tools, `cli/` | none that outlives a call | balance, estimate, nodecost, proof | indexer, node |

What makes each part correct, and what is hard about it:

* **Registry.** A debt is financed once, however often its invoice is reissued with another amount or
  salt. A lender that took a pledge up is secured until it lets go or is paid. Money comes in once and
  leaves at most once. An offer binds exactly until it lapses. The parties act in any order, around
  the clock; tags and sealing scalars are inputs of a seller nobody checks.
* **Disclosure.** Nothing opens without two approvals the public ledger shows, and everything approved
  twice does open. Requests and cases name the same records and write into one map of shares, in any
  order.
* **Sponsor.** Requests interleave at six awaits. The budget must bound what reaches the chain when
  the wallet fails at any of them, also when it reports a failure for a transaction that lands later,
  and a client must not be told it was refused for a transaction that is paid for. Rate-limit windows
  end while requests counted in them are still in flight, and behind a proxy the client's address is
  one entry of a header the client wrote the rest of.
* **Staged deployment.** Eleven transactions, any of which may be declined, rejected or not seen in
  time. The page can be closed between any two awaits; progress is written to a file without being
  awaited; the machine and the services it needs break and are mended. The run must resume without
  deploying twice and without losing a key.
* **Recorded runs.** A step is a transaction followed by its record in a file. In between the answer can
  be lost, the page closed, the process killed, the save fail. A resumed run must repeat no transaction,
  record nothing that did not happen, reach its end, and leave evidence that verifies, also on a ledger
  that has grown since.
* **Submission.** The timer, the statuses of a subscription and the reply to the request race for one
  outcome, over connections that drop. Whatever wins, what the caller is told must stay true.
* **Network backend.** A call writes its inputs into a store shared by every call of its persona, awaits,
  and the circuit reads whatever is there by then.
* **Key ceremony.** Boundary arithmetic of a 2-of-3 sharing; two pages, a server and the command line
  write one file, and a deploy seals what its page or process read some time ago.
* **Federation.** No contract sees across registries: the answer is put together from reads made at
  different times, some of them cached, some of them missing.
* **Sandbox.** A script whose steps can be run, rewound, left in the middle and run again by hand over
  one world, which is saved and may fail to load.

Components interact in three ways: a client *reads* a ledger state and *calls* a circuit, which decides
on the state it runs on and not on the one that was read; the sponsor and the console hand transactions
to a *chain* that may include them at any later time, whatever they were told; the console's page and its
*progress file* move independently. `PROJECT.json` lists every hazard at its line, with the properties
that guard against it.

## 2. Modules

| Module | Models | Extends |
|---|---|---|
| `Receivables` | abstract specification: debts and deals | |
| `Registry` | the registry circuits, implements `Receivables` | |
| `Disclosure` | disclosure circuits and the auditor's reconstruction | |
| `Lifecycle` | the recorded runs of the command line and the console, over both | `Registry`; instance `Audit` of `Disclosure` |
| `Verification` | the evidence those runs leave, verify, and later calls of others | `Lifecycle` |
| `Calls` | the role clients through the network backend, over the registry | `Registry` |
| `Federation` | two registries, and lenders that ask both | `Registry`; instance `Peer` of `Registry` |
| `FederationReaders` | the demonstration and the web panel beside those lenders | `Federation` |
| `KeyCeremony` | the sharing, the key file and the constructor | |
| `Sponsor` | the sponsor process, its front end and its client | |
| `Submission` | one submission's race, for the console and the SDK | |
| `Preflight` | the checks of the console's two halves and its dry run: operators, no state | |
| `StagedDeploy` | the console's staged deployment | `Preflight` |
| `SandboxRegistry` | the compiled circuits in the tab, as functions of the ledger that answer with codes | |
| `ReplaySteps` | the seventeen steps of the guided replay | `SandboxRegistry` |
| `Workspaces` | the pages' buttons, and what pressing one does | `SandboxRegistry` |
| `Sandbox` | the tab: world, storage, replay, timers | `ReplaySteps`, `Workspaces` |
| `MC...` | small instances of each | the module |
| `RegistryProofs` | theorems about `Registry`, and that it implements `Receivables` | `Registry`, `TLAPS` |
| `DisclosureProofs`, `SponsorProofs`, `SubmissionProofs`, `KeyCeremonyProofs`, `StagedDeployProofs`, `SandboxProofs` | theorems about each | the module, `TLAPS` |
| `ClientsProofs` | theorems about the role clients' calls, the three readers of two registries, and recorded runs and their evidence | `Calls`, `FederationReaders`, `Verification`, `RegistryProofs`; instance `PeerProofs` of `RegistryProofs` |

A definition whose comment starts with "Mutation:" is a faulty form of the definition after it. No
action uses it; `PROJECT.json` "mutants" says which property fails when it takes that one's place.

### Registry

A circuit is one transaction, so each exported circuit is one action. Its asserts are the guard (their
error codes stand beside the conjuncts) and its ledger writes are the primed variables.

| Code | Model |
|---|---|
| `debtors`, `financiers` (historic Merkle trees) | `debtors`, `financiers`: sets that only grow |
| `acks` (a historic tree), `ackNullifiers` | `acks`, `ackNullifiers` |
| `pledges`, keyed by the pledge nullifier | `pledges[n]`, `Absent` for a key the map does not hold |
| `records` | `records[<<n, e>>]`: record id is a hash of the marker and the point |
| `certificates` | `certificates` |
| block time | `now`, moved by `Tick` |
| tokens in and out of the contract | `received`, `sent` |

Hashes are ideal. An invoice is its own fingerprint, acknowledgment leaf and pledge nullifier; a tag is
the tuple it is the hash of, so `ackNullifierOf(n)` is `<<debtor, seller, number>>` and reissues of one
debt with another amount or salt share it. A secret key is the party that holds it. Two history
variables, `lender` and `payee`, remember who took a receivable up and who was paid; no guard reads
them. `OfferTags` includes tags no financier owns, because the circuit does not check the tag.

`AcceptBatch` and `CertifyBorrowingBase` work on sequences, as the circuits work on slots. `Distinct`
stands for what processing the slots in turn does to a marker listed twice.

`Receivables` says what the registry promises with no hashes and no clock: a debt is free, offered,
financed, paid or disbursed, with one party. Each debt's deal is read off the one invoice standing for
it on the ledger (`DealOnLedger`). The mapping is well defined because of `OneFinancingPerDebt`. An
offer that lapses is a step of the abstract clock-free system, taken by the registry's `Tick`.

### Disclosure

A scalar stands for its point, and `<<i, e>>` for keyholder `i`'s share of `e`. The shared secret of a
record is reconstructible from two different keyholders' shares of its scalar and from nothing less. A
sealed share carries which approval drew its scalar and the mask offsets it used, which is what
`MasksUsedOnce` is about. The seller's scalar is a free input of `Seal`: the circuit cannot tell a fresh
one from a reused one. Below the ledger the module has the SDK's reads as operators
(`RecordOpenable`, `SealingKeyReused`, `OpenRequest`, `CaseView`, `OpenFromCase`).

### Lifecycle

The ledger is `Registry`'s variables, by extension, and `Disclosure`'s, by an instance whose `records` are
the ids `Registry` holds. A step of the plan is a record: the call, its invoice and party, and the error
code it must meet, if any. `CliPlan` and `ConsolePlan` list the steps in the order the code runs them.

| Code | Model |
|---|---|
| `progress` of the scenario, `run` of the page | `memory` |
| `cli/.secrets/<network>-scenario.json`, the console's progress file | `file` |
| where the runner stands | `at`: off, idle, running a step, or landed (included, not yet recorded) |
| the run object the console's prepared runners hold, after `Re-check` replaced the page's | `detached` |
| history | `replayed`, `landed`, `relanded` |

`Start`, `StartFrom` (`--from`), `Recheck` and `Prepare` are what the operator presses; `Begin` picks the
first step that is not recorded; `Land` is its transaction, which is an action of `Registry` or
`Disclosure`; `Receipt` records that it returned; `RunLocally` is a refusal met as planned, or a reading; `Fail` is
the catch around a step and `Close` the end of page or process at any moment. `Save` may fail in the
console, which goes on, and ends the command line.

`register-peer`, a step only `--peer` adds, is left to `Federation`. Personas, invoices and
references are constants: a run saves them with its first step and never changes them.

### Verification

`Evidence` is the run's steps and disclosure with every row of the ledger (`LedgerView`, which is
`serializeLedgerView`). `WriteEvidence` may happen at any moment between steps in the console, whose page
has the button (`Writable`), and at the end of a command-line run. `Verifies` is `verify`: every row of the evidence
is still on the ledger field for field (`RowsHold`, `NothingShrank`), and the five claims hold
(`ClaimsHold`). `Visit` is a call by anybody once a finished run has left its evidence: one that adds rows
(`AddsRows`) or one that changes them (`ChangesRows`), as the table `GROWS` of `verify.ts` divides them.

### Calls

| Code | Model |
|---|---|
| the map `bound` of promised contract handles, by private-state id | `bound`, which keeps a failed search as it keeps a found handle |
| the entries of `inMemoryPrivateStateProvider` | `store` |
| a call of `NetworkBackend.call` | a record of `calls`: what it asks, where it stands, what the circuit read (`given`), its transaction, its outcome |

`Call` begins one and looks for a handle; `FindEnds` is the end of the search, for everybody waiting on
it; `Write` puts the inputs into the entry; `Run` is the circuit: the witnesses read the entry back, and
the ledger as it is now, and a failed assert refuses; `Include` puts the transaction on the ledger *if
what it read of it still stands* (`Reads`, the transcript), `Discard` leaves it out; `Return` hands out the
receipt. `disturbed` is history: another call of the same persona wrote between this call's write and its
circuit.

### Federation and FederationReaders

`Federation` extends `Registry` for the ledger called home and takes an instance `Peer` for the other.
Both share `now`, because they are on one network. The marker of an invoice carries no registry, so one
marker can be looked up in both. `checkEncumbranceAcross` asks each registry for its state and for the
time in two requests (`ReadState`, `ReadClock`), answered in any order or not at all (`ReadFails`); what
was heard is `ask[l]`. `torn` is history: a state has been judged by a later time. `order` says when
lenders ask; the runs have them ask while the offer to them stands.

`FederationReaders` adds the two other readers. `demo` is the demonstration of `cli/src/federation.ts`:
its step, what each of its checks heard, and whether it wrote evidence. The panel is `presses` (the
checks started), `loads` (the requests each started), `cache` (the load reused for a key within its time to
live) and `shown`. One reader is chosen at the start of a behaviour.

### KeyCeremony

The group is the integers modulo a small prime, a point is its own logarithm, and nothing but the
properties takes one. `splitSecret`, `invL` (the extended Euclidean algorithm as a recursive function),
`lagrangeAtZero` and `Combined` are `scalar.ts`; `checkCeremony` and `verifyRegistryConfig` are `keys.ts`;
`Constructor` is the contract's. `DeployElsewhere` runs the constructor on every configuration there
is. Around the sharing, `file` is the key file, `posts` the requests to the console's server, `cli` and
`cliDeploy` the keys a command-line ceremony or deploy holds between its look at the file and its
action, `tab[t]` what a page holds and awaits.

### Sponsor

A request is one synchronous step from its arrival to its first await (rate limit, `describeTransaction`,
policy, reservation), then one step per await. `Priced`/`NotPriced`, `Covered`/`NotCovered`/`BalanceUnknown`,
`Balanced`/`NotBalanced` and `Submitted` are the ways each await ends; `Drop` and `Commit` are the
`finally`. `Land` is the chain: any transaction that was handed to the node may be included at any time,
whatever `submit` answered, and two balanced forms of one transaction spend the same inputs, so one lands
at most. `Prune` is the timer's, `Restart` a new life of the process, which remembers nothing.

A transaction is a sequence of actions, each a call or something else, and the circuit its envelope
claims; `describeTransaction` refuses what is not exactly one call of the claimed circuit of the
registry. A connection is the socket's address with its `X-Forwarded-For` header, from which
`rateLimitBucket` takes the caller; `origin` is whose request it really is. `ProxyAssumption` is what the
server's options promise of the infrastructure: each trusted proxy appends one entry, the first of them the
client's own address, to whatever the client wrote. `told` is what the client
makes of the answer, or of the lack of one within its time limit.

### Submission

`job[s]` walks through `submitMidnightTransaction` or `submitViaRpc`, as `by` says: connecting, importing the
client library, pricing (console only), sending, watching, settled. `connect` is two steps, because it awaits the
import between its look at the shared connection (`Connect`) and its replacement (`Import`): two submissions that find
none open two, and the second is the one that is shared. `Finished` is `finish`: the first outcome stands. `Timeout`,
`Status` and `Reply`/`ReplyLost` are its three callers. `NodeTakes`, `Included` and `LeavesPool` are the
node's, `Opens`, `Drops` and `Returns` the connection's. The console's jobs share `cached`.

### Preflight and StagedDeploy

`machine` is the set of what is wrong, out of `Troubles`. `Preflight` has every check of
`server/preflight.ts` and `src/lib/preflight.ts` as an operator from it to "ok", "warn" or "fail", up to
`dryRun(server, machine, held)`, which decides whether the deploy button works.

Four things move independently: the page (`tab`), the writes of its progress on their way to the file
(`writes`, then `saved`), the chain (`registries`, `unseen`) and the operator (`Connect`, `DryRun`, `Press`,
`Reload`, `Recheck`, `EditFile`, and `CloseTab` for a page closed in the middle of a run). `Breaks` and `Mends`
move `machine`. A step is what the page does between two awaits. Every await can fail: the wallet
declines, the node rejects, the submission is not seen in a block in time (and may still land: `LateDeploy`,
`LateInsert`), the transaction is in a block and creates nothing, the library throws after the block, the
write fails, the record is refused. The page reads the file on mount in an effect that is not guarded, so
a second reading may come in late (`SlowReading`).

`Committed`, `Announced` and `Finished` are `commit()`, `onProgress` and the lines after
`NetworkBackend.deploy`. The ids `commit()` takes are `submitted[0]` and `submitted.at(-1)` of the session.
`EditFile` is the operator who is told to complete or to clear the file by hand. `refused`, `lost` and
`overtaken` are history: circuits whose insertion failed at least once, registries no progress speaks of,
and a page into which a slow reading put older progress.

Assumptions: progress writes reach the file in the order they were made; inserting a key the contract
already carries is refused before submission, and a maintenance transaction needs the signing key that
`deployContract` saves last (behaviours of the external midnight-js library, on which `network.ts` relies).

### Sandbox

`SandboxRegistry` is the second model of the circuits: here what matters is the *answer*, so each circuit
is a function from the ledger to the code of the first assert that fails, in the order of the compiled
code, or "ok" and the ledger that follows. `ReplaySteps` has each step's calls and the answer its script
expects. `Workspaces` has, for each page, the buttons on the rows it shows of a ledger (`RowButtons`, the auditor's
request buttons included, which stay on a record that was asked for), its forms, and what a press does (`Landed`).
A form keeps what was chosen: `OfferForm` has any row, because the chosen invoice stays chosen and the button on after
the row has left the list (`trade.tsx:29, 180-186`; the text beside it invites the visitor to try), and `Pools` any rows,
because a tick outlives its checkbox. `Sandbox` is the tab: `world` (secrets, ledger, block time, invoices), `stored` (what the tab's
storage holds), `page` (the replay: its results, its loop, its snapshots), `orphan` (the loop of a page that was
left, which goes on running), `pending` (a button's call waiting for its timer, with the world it was pressed on). `exact` and `clean` are
history: how much of what is shown nothing else interfered with.

## 3. Runs, bounds and what they show

| Run | Properties | Distinct states | Shows |
|---|---|---|---|
| `registry` | `OneFinancingPerDebt`, `PledgesAreAcknowledged`, `LenderIsSecured`, `ProceedsConserved`, `RecordNamesHolder`, `CertificateBacked`, `EncumbranceStands`, `ImplementsReceivables` | 57 807 | the life of receivables from acknowledgment to claim, singly and in pools |
| `disclosure` | `SharesMatchApprovals`, `MasksUsedOnce`, `EveryOpeningIsVisible`, `ApprovedDisclosuresOpen` | 16 515 | requests and cases over the same records |
| `lifecycle` | `RecordedRunIsTrue`, `FinishedEvidenceVerifies`, `FailedStepsAreRepeated`, `MoreIsNoFailure` | 121 593 | recorded runs of both tools, failed, closed, resumed, replayed, and their evidence |
| `console_evidence` | `ConsoleEvidenceVerifies` | violation | section 4 |
| `sponsor` | `ExposureWithinBudget`, `EveryLandingIsCounted`, `AnswersAreTrue`, `BucketsAreTheCallersOwn` | 3 547 638 | three requests interleaved at every await, over two lives of the process |
| `deploy` | `OneRegistryUnlessLost`, `RecordNamesInsertions`, `ProgressIsKept`, `EventuallyCompletes` | 1 047 873 | a staged deployment with up to three failures on a machine that breaks |
| `missing_key` | `CompletedMeansEveryKey` | violation | section 4 |
| `federation` | `AskedUnderOfferExclude`, `EvidenceIsOnTheLedgers`, `PanelAnswersHonestly` | 989 924 | two registries and three readers that ask both |
| `calls` | `OnlyOwnCallsInterfere`, `EveryCallEnds` | 75 621 | two concurrent calls through one backend |
| `submission` | `OutcomesStand`, `WatchedSubmissionsSettle` | 488 611 | two submissions over connections that drop |
| `sandbox` | `ResultsAreTheScripts`, `RewindIsExact`, `WorkspacesAreHonest`, `ReloadKeepsTheWorld`, `RunReachesTheEnd` | 725 468 | the guided replay and the workspaces of one tab |
| `ceremony` | `TwoOfThreeOpen`, `AuditAgreesWithConstructor`, `DealtKeysOpen`, `SealedKeysWereOnFile` | 3 149 121 | every key configuration modulo 7, and ceremonies racing for one file before a deploy |

The modules' `TypeOK` and similar type definitions document the shape of the state; those of `Registry`,
`Disclosure`, `Sponsor`, `Submission` and `StagedDeploy` are proved (section 6). `RecordedRunIsTrue` is the conjunction of `StepsLandOnce`, `RefusalsHoldUnreplayed`,
`DisclosureIsTrue` and `FinishedRunIsTrue`; `OutcomesStand` of `InBlockIsApplied` and `FinalRejectionsStand`;
`WorkspacesAreHonest` of four: `ButtonsAreAccepted`, that the registry accepts the button of a row, with the three exceptions
its comment names; `ListsAreTheCircuits`, that an offer or a certificate lands exactly when its rows are on the
list of free receivables and the days fit, and so is refused when what was chosen has left the list;
`ProceedsHaveOneButton`; and `PressesLandAsShown`, that a call good when its button was pressed is good when its timer
runs out, unless the ledger changed or the clock spoiled it (`ClockSpoils`).

Deadlock is checked in `registry`, `disclosure`, `sponsor`, `deploy` and `missing_key`. The other systems really stop: a run
that is finished, a call that has returned, a submission that has settled or a bound that is reached leaves
nothing to do, and `EveryCallEnds`, `WatchedSubmissionsSettle`, `RunReachesTheEnd` and
`FailedStepsAreRepeated` say that the end is the right one.

**registry.** One debtor, two sellers, two financiers, three invoices of which two are *one* debt with
different amounts, a stray tag, one scalar, block times 0 to 2, pools of up to two slots, one certificate
whose higher floor takes two invoices, or the reissue with the larger amount alone. Two copies are what double financing needs. The
third invoice lets a pool hold two debts. One scalar drawn again and again has a seller seal records that
exist already. Times before, at and after an offer's expiry and the due date all occur, and an offer can
lapse, be replaced and be taken up within them. The second seller exists so that the wrong one can try. A
pool shares the code path of each slot, so the interesting cases (a slot that fails, a marker listed twice,
two slots of one debt, offers next to pool slots) need two slots; the contract's four add none. Symmetry is
over financiers, which no constant of the instance names.

**disclosure.** Two receivables and two scalars, so that two records may share one; two records, one
request matter, one case at a time, of two slots out of four; three keyholders, any two of which matter,
symmetric. The case's reference may be any bytes: one of the two is the id of a request, which tests that the
two key domains of the share map stay apart.

**lifecycle.** Both plans in full, with a pool of two invoices for the contract's four and a case of two
records for its four. The plan is fixed, so what varies is where it is interrupted, and every step can fail,
lose its answer, or be cut off in every state. Three scalars let the seller draw one that is fresh when it
offers again. Offers expire at 1 for the command line and at 2 for the console and invoices fall due at 3,
within times 0 to 2: an offer can lapse between the failure of its acceptance and the repetition. A run is
replayed with `--from` once. After the evidence, two calls of others (`MaxVisits`), of either kind and in any order, so that
a row can be changed and then met by a new one. `MoreIsNoFailure` is about the first kind of `GROWS`. Calls of the second kind
do make evidence fail: verify reports the row as changed, as it says it does.

**sponsor.** Three requests over two lives, each over one of two connections: straight in with a forged
header, or through the trusted proxy, which appends the client's address to what the client wrote. Three
transactions, one of which carries a second call that its envelope does not mention. Budget 5 and fee cap 2,
so that two requests fit and a third does not while both are held; a fee within the cap and one over it; a limit of
one per window of one tick within times 0 to 1, so that a request can outlive its window. With a limit of
one, every off-by-one is a second landing. Symmetric in the requests.

**deploy.** Three maintenance circuits of ten, three failures, at most one trouble of the machine at a time
(`MaxTroubles`). A first, a middle and a last circuit cover the positions at which ids are taken from the
session's list; three failures allow one each of: an unseen deploy, a closed page, a refused insertion. A
trouble that comes, a slow second reading and a misnamed transaction taken at its word count as failures. The
wallet holds nothing (somebody else pays the fee) or too little; the project token and the ceremony's keys are
there. "Re-check" is pressed once the page is loaded. Each registry beyond the first needs a failure, so the bound on `DeployLands` (one more
than the failures) is never what stops the console.

**federation.** One receivable, a control nobody offers, a lender at each registry, offers that expire at 1 or 2,
times 0 to 2. Two registries and one receivable are what a double financing across registries needs, and two
expiries let one offer lapse while the other stands. For the panel two presses, a time to live of one tick, a
browser clock that is right or one ahead, and an empty peer's book: the first press leaves in the cache what the second
may reuse. Lenders ask while they hold the offer: asked before it, two lenders can both be told
FREE and then finance one receivable twice. The check alone is no lock.

**calls.** Two debtors, a receivable of each, one seller, two lenders, two calls out of thirteen, begun on a
new registry or on one where both receivables are acknowledged and one is offered. Two calls are what an interference takes; that of
the seller with itself, of two lenders with each other, of a lender's acceptance with the debtor's payment all occur.

**submission.** Two submissions, both of the console or one of each kind, three connections, one drop. The
second console submission finds the first one's connection up, opening, down or failed; the third
connection is the pricing call's replacement.

**sandbox.** All seventeen steps. Up to six presses of buttons on two invoices in the workspaces before the
replay is opened, which is enough for acknowledge, offer, accept, pay and claim of one, and a press more. The term in the
offer form is 7 days or 80, which is past the due date of one invoice and short of the other's. Then
one incident: a further press of the debtor's, an invoice written, the clock, a reset, a rerun of a step, a failed save, an
unreadable storage, a page that is left with its run going on. One call at a time awaits its timer. The script is fixed, so one interference at any place is what can
be seen; results shown before it must stand (`clean`).

**ceremony.** The group of order 7 has, for every one of its 7^5 configurations, the constructor's verdict
and the participant's. A threshold of two of three needs a prime over three; the first with room for a valid
sharing beside zero, collisions of all kinds and near misses is 7. Dealt keys come from draws of 1 or 3, which
deal zero shares and collisions the constructor refuses, and accepted ones. Two pages, two ceremonies and
one failed request, with the command line's ceremony and deploy beside them; one registry is sealed.

## 4. Disagreements found

Two are runs with one property that quotes the repository, and TLC's counterexample.

* **`missing_key`: a failed insertion is recorded as done.** `commit()` in the catch of
  `tools/mainnet-console/src/lib/deploy.ts:163` runs while `pendingCircuit` is the circuit that failed.
  Resuming skips it and the deployment completes without that key, against `deploy.ts:117` ("Nothing is
  recorded as done on the strength of having been started"). Leaving the pending circuit out of the commit is
  not a repair by itself: an insertion that landed but was not recorded would be tried again and refused for
  ever (the mutant `CaughtUncommitted` breaks `EventuallyCompletes`).
* **`console_evidence`: the console's evidence never verifies.** `ConsolePlan` acknowledges, offers, accepts
  and discloses. It never pays and never certifies, and `cli/src/verify.ts:403` and `:410` fail evidence
  with no settled pledge and no certificate. `tools/mainnet-console/src/app.tsx:280` tells the operator
  "Now run: npm run -w cli verify", `src/lib/evidence.ts:3` that it is "assembled exactly as
  `cli/src/scenario.ts` assembles it". `FinishedEvidenceVerifies` shows that the command line's does verify.

Others were met while modelling. No run is kept for them; the model has the behaviour.

*Disclosure and recorded runs*

* `sdk/src/audit.ts:8` says a share is bound to a record. The circuit publishes a share of the record's
  point, and nothing makes a point unique to a record. Two receivables sealed with one scalar are both opened
  by one approval of each, while `recordDisclosureState` calls neither openable. `reusedSealingKeys` does make
  it visible, which `EveryOpeningIsVisible` confirms is the only exception.
* `sdk/src/roles/auditor.ts:157` says a case's slot is the position `CaseView.recordIds` reports; the view
  drops unused slots while `openFromCase` looks shares up by slot. The SDK's own `openCase` makes no
  case where they differ. Of the cases with no hole, which is what `ApprovedDisclosuresOpen` is about, every one opens
  by slot; one with a hole would not.
* `cli/src/scenario.ts:16` says "a dropped connection costs one step", `tools/mainnet-console/src/lib/state.ts:8`
  the same of a closed tab. A step is recorded when its receipt comes back. If it landed and the receipt did
  not, resuming calls the circuit again, the ledger refuses it, and no later step is reached.
* `Re-check` replaces the page's run while the prepared runners write to the old one: the step is then
  recorded in one object and the opened record in another that is never saved.
* `--from` on a step before the recorded release of #1001 offers it to the second lender when it is free, so
  the call planned as a refused double pledge lands: hence the premise of `RefusalsHoldUnreplayed`.
* `GROWS` of `verify.ts` lists `offer` as only adding rows. An offer of a *released* recorded row would replace
  it; after a finished run no recorded row is released, so `MoreIsNoFailure` holds. A third approval, a release or a
  payment on a recorded row makes evidence fail, and the row may be anybody's: evidence lists the whole ledger.

*Sponsor*

* `sponsor/src/policy.ts:46` says maxRequests is how many "one caller may land per window". `refund` lowers
  the count of the *current* window, not of the one the request was taken from, so a late refund raises the
  next one's limit. `EveryLandingIsCounted` is what does hold: a bound over all windows together.
* `policy.ts:227` says a request is given back when it was refused before any DUST was spent; when balancing
  fails, which `service.ts:379` notes is still free, no refund follows.
* `service.ts:205` says every refusal happens before any DUST moves; `SUBMIT_FAILED`, which
  also answers a failed balancing, is a refusal after the wallet has submitted. The budget is of one life of the process (`service.ts:151`). A submission that never settles
  holds its reservation for ever.

*Staged deployment*

* `deploy.ts:214` says to fix the cause and press the button again, but `completedAt` is saved before the record is
  written, and `app.tsx:145` disables the button of a completed deployment: the record is never written, unless
  that save failed and the page is loaded again.
* The second mount reading is unguarded: a slow one puts older progress in the page's hands, and a second
  registry can be deployed (`deploy.ts:104`, `app.tsx:136`).
* `deployTxId ??= session.submitted[0]` is the first transaction of the *session*. After "Re-check" and an edit
  in one session the console can name a transaction that created nothing; an operator who clears it as he is
  told deploys a second registry.
* "Re-check" can put the file's progress of a lost registry in the page's hands, whose session then names the
  wrong transaction; an operator who completes the file as told points it at the lost registry, and the page
  later writes the other address over it. Hence "unless lost" in `ProgressIsKept`: without it the property is false
  from five failures on.
* If `deployContract` throws before it saves the signing key, later insertions are refused, and recorded as done.
* A dry run is not voided by connecting another wallet (`app.tsx:377`), and reads the balance of the connection
  beside its own price. Its verdict is never "ready": a wallet without DUST makes `checkAffordable` warn, one with any
  makes `checkWallet` warn. `checkWallet`'s mismatch branch is dead, `openSession` refuses first.
* `server/preflight.ts:431` warns that a fresh deploy would overwrite the record; `writeNew` never overwrites.

*Submission*

* `submit.ts:286-302` reports a lost reply, and `Dropped` and `Usurped`, as a rejection, of which `submit.ts:73`
  and `:92` say "nothing happened, and a retry is safe". The transaction may be in the pool, and land:
  hence the exception of `FinalRejectionsStand`.
* `submitViaRpc` resolves for a transaction that failed in its block.
* A connection attempt that never comes up is awaited for ever (no `throwOnConnect`), and the connections the
  console replaces are never closed.

*Calls, command line, ceremony*

* `network.ts:299`: two calls of one persona share an entry, and one can run on the other's inputs.
  `OnlyOwnCallsInterfere` shows it is the only interference. `clearPersonaCache` has no caller, so a persona whose
  contract was once not found gets that error for as long as the backend lives (`EveryCallEnds` counts it an end).
* `cli/src/sponsored.ts` writes the admitted persona under one file name and reads it under another, and its
  comment that admitting a debtor twice is refused is not so: admission is repeatable.
* A zero share or a collision with the auditor's key passes `checkCeremony` and is refused by the constructor.
  A page forces over a file it has never seen when its copy of the keys is stale; the server's and the command
  line's look at the file and their writing of it are two steps. `SealedKeysWereOnFile` and `DealtKeysOpen`
  hold in spite of both. What was once on the file may be gone from it by the time it is sealed.

*Sandbox*

* "Run the rest" runs again a step already run (`Replay.tsx:190`), so acknowledge is shown as refused against its script.
  A page that is left goes on running its loop on the shared world. The clock and Reset in the header stay enabled
  during a run. Under StrictMode the registry never boots in development (`state/registry.tsx`).
* `parties.tsx` says parties have to be admitted again after a reset, which admits them. A lender with an offer only, or one that
  released, is shown "Claim" or "Collected" for an invoice paid to the seller. The auditor's button asks again for what was asked
  for, and is refused. Both are exceptions of `ButtonsAreAccepted`.

## 5. Fairness

`deploy`, `missing_key`, `lifecycle`, `console_evidence`, `calls`, `submission` and `sandbox` state fairness.

* `FairSpec` of `StagedDeploy`: weak fairness of `Step` and `FirstReading` (an await ends one way or another: the
  SDK and the console put a time limit on waiting for a transaction), of `Write` (a request to the local server
  ends), of `Mends` (what is broken is mended, and it is what the console tells the operator to do), and of
  `Connect`, `DryRun`, `Press`, `Reload` and `EditFile` (the operator goes on, which is the promise's own
  premise: "press the button again"). Nothing is assumed of `CloseTab`, of late landings or of *how* an await
  ends. Failures are bounded by `MaxFailures`: after finitely many of them, the run ends.
* `Fairness` of `Lifecycle`, lifted to `Verification`: the operator keeps resuming the run (`Start`, weak)
  and does not close it for ever before each step (`Begin`, strong), a step under way ends (`Fail`, weak), and a
  step tried again and again is at last let through (`Land`), answered and saved (`Receipt` and `RunLocally`
  with a save that succeeds): strong, because each failure disables them. Repeating is what the tools tell the
  operator to do, and a wallet or network that fails for ever is no failure of theirs. Nothing is assumed of
  `Close`, `Recheck`, `Prepare`, `StartFrom`, time, or anybody else.
* `FairCallsSpec` of `Calls`: weak fairness of each search for a handle and of each call's next step. An await
  ends: the libraries below answer or throw.
* `FairSpec` of `Submission` and of `Sandbox`: timers fire. Nothing is assumed of the node, the network, or the
  visitor.

`Registry`, `Disclosure`, `Sponsor`, `Federation` and `KeyCeremony` have safety properties only. Nobody has to
take an offer up, approve a request or answer a reader, and nothing in the sponsor bounds how long a wallet
takes to answer, so no liveness of it is justified.

## 6. Proofs

Eight modules hold the proofs. They are for any values of the constants: any number of parties, invoices,
requests, connections, circuits, failures, lives and presses, and any bound on time.

| Module | Theorem | States |
|---|---|---|
| `RegistryProofs` | `RegistryTyping` | `Spec => []TypeOK` |
| | `NoDoubleFinancing` | `Spec => []OneFinancingPerDebt` |
| | `OnlyAcknowledgedDebts` | `Spec => []PledgesAreAcknowledged` |
| | `LenderStaysSecured` | `Spec => []LenderIsSecured` |
| | `ProceedsPaidOnce` | `Spec => []ProceedsConserved` |
| | `RecordsNameTheirHolder` | `Spec => []RecordNamesHolder` |
| | `CertificatesAreBacked` | `Spec => []CertificateBacked` |
| | `EncumbrancesStand` | `Spec => EncumbranceStands`, an action property |
| | `RegistryImplementsReceivables` | `Spec => ImplementsReceivables`, the abstract `Spec` under `DealOnLedger` |
| `DisclosureProofs` | `DisclosureTyping` | `Spec => []TypeOK` |
| | `SharesAreApproved` | `Spec => []SharesMatchApprovals` |
| | `NoMaskIsReused` | `Spec => []MasksUsedOnce` |
| | `OpeningsAreVisible` | `Spec => []EveryOpeningIsVisible` |
| | `TwoApprovalsOpen` | `Spec => []ApprovedDisclosuresOpen` |
| `SponsorProofs` | `SponsorTyping` | `Spec => []TypeOK` |
| | `BudgetIsKept` | `Spec => []BudgetHolds` |
| | `ExposureIsBounded` | `Spec => []ExposureWithinBudget` |
| | `AnswersStayTrue` | `Spec => []AnswersAreTrue` |
| | `LandingsAreCounted` | `Spec => []EveryLandingIsCounted` |
| | `BucketsAreOwn` | `Spec => []BucketsAreTheCallersOwn` |
| `SubmissionProofs` | `SubmissionTyping` | `Spec => []TypeOK` |
| | `ToldOutcomesStand` | `Spec => []OutcomesStand` |
| `ClientsProofs` | `CallsKeepApart` | `CallsSpec => []OnlyOwnCallsInterfere` |
| | `ReceiptsAndRefusalsAreTrue` | `CallsSpec => []OutcomesAreTrue` |
| | `AskingUnderOfferExcludes` | `ReadersSpec => []AskedUnderOfferExclude` |
| | `EvidenceIsBacked` | `ReadersSpec => []EvidenceIsOnTheLedgers` |
| | `PanelIsHonest` | `ReadersSpec => PanelAnswersHonestly`, an action property |
| | `RunIsTrue` | `VerifySpec => []RecordedRunIsTrue` |
| | `EvidenceVerifies` | `VerifySpec => []FinishedEvidenceVerifies` |
| | `MoreRowsAreNoFailure` | `VerifySpec => MoreIsNoFailure`, an action property |
| `KeyCeremonyProofs` | `DealsPassTheirCheck` | `checkCeremony(Deal(s, a1, a))` for all scalars |
| | `CeremonyTyping` | `Spec => []TypeOK` |
| | `KeysWereOnFile` | `Spec => []SealedKeysWereOnFile` |
| | `AnyTwoOpen` | `Spec => []TwoOfThreeOpen` |
| | `AuditIsTheConstructors` | `Spec => []AuditAgreesWithConstructor` |
| | `DealtKeysOpenTheirs` | `Spec => []DealtKeysOpen` |
| `StagedDeployProofs` | `DeployTyping` | `Spec => []TypeOK` |
| | `NoSecondRegistry` | `Spec => []OneRegistryUnlessLost` |
| | `RecordsNameInsertions` | `Spec => []RecordNamesInsertions` |
| | `ProgressKept` | `Spec => ProgressIsKept`, an action property |
| `SandboxProofs` | `SandboxInvariant` | `Spec => []IInv`, the inductive invariant below |
| | `ResultsAreTheScriptsHolds` | `Spec => []ResultsAreTheScripts` |
| | `RewindIsExactHolds` | `Spec => []RewindIsExact` |
| | `ReloadKeepsTheWorldHolds` | `Spec => ReloadKeepsTheWorld`, an action property |
| | `WorkspacesAreHonestHolds` | `Spec => []WorkspacesAreHonest` |

### The invariants

Hardly any of the properties is inductive by itself. Each module names the invariant it proves and has one
lemma per conjunct, with one case per action; the theorems follow from it.

**`RegistryInv`** adds to the properties

* `AcknowledgedOnce`: two acknowledged invoices of one debt are the same invoice, and every acknowledged
  invoice's nullifier is used. Without it the next offer could finance a twin.
* `AbsentIsBlank`: what was never offered holds nothing. Without it a first offer could start from stale
  settlement fields.

`PledgesAreAcknowledged` carries `AcknowledgedOnce` from acknowledgments to pledges. `LenderIsSecured` names
the payee of a settlement, so `ProceedsConserved` needs it to say who a claim paid (`ClaimantIsPayee`, from
tags being injective). `CertificateBacked` is about a sum that the circuit takes slot by slot and the property
takes over a set; `FaceValueOfPool` shows they agree, which is where the distinctness of the slots is used.
`StepOnMarker` says what any step may do to one marker; `EncumbranceStands` and the refinement both rest on it.

**The refinement.** The initial ledger maps to `AbstractInit`, and every step of `Registry` maps to a step of
`Receivables` or to a stutter (`StepMapsToStep`), one lemma for each kind of step: `OfferingProposes`,
`TakingFinances` (one offer or a pool), `ReleaseDischarges`, `PaymentPays`, `ClaimDisburses` and `TickLapses`. It
needs `RegistryInv`, because a debt's deal is read off the one invoice that stands for it: `DealIsOfAcks` says that
this is the acknowledged one, and `OthersKeepTheirDeal` that a step on one marker leaves the deals of other debts.

**`DisclosureInv`** is `TypeOK`, `OnlyOpenIsApproved` (no approval of what was never made), `RecordsAreNamed`
(requests and cases name records on the ledger) and `SharesMatchApprovals`. From the last one, every share in
the map is of one approval (`ApprovedShares`), so masks do not repeat; two different holders of shares of one
scalar are two approvals (`PointsAreApproved`), unless the scalar was reused; and two approvals put into the map
the two shares the client looks up (`CombinedShares`, `PackedView` for the unused slots a view drops).

**`SponsorInv`** ties the process's numbers to requests. `BudgetHolds` has the reservation equal the number of
requests in flight times the highest fee. The process forgets everything at a restart while its submissions may
still land, so `FlightsAreOfThisLife` gives every flight a life and `SpentIsCharged` says what is spent is the
fees of this life's charged requests. Fees are counted as sets of units (`Units`), which makes the sums
cardinalities of disjoint sets. `PlacesAreCounted` is the argument for the rate limit: a refund goes to the window
there is now, but the requests that hold a place never outnumber the places of all the caller's windows.
`AnswersFollowRequests` ties what the client knows to the stage its request ended in.

**`SubmissionInv`**: an outcome stands because of what is still under way when it is settled. `StatusesAreTrue` is
about every status that was not delivered yet, `OnlySentReaches` says that what was not sent is not on the node, and
`RejectionsAreTrue` has one clause for each reason of a rejection.

**`CallsInv`** is, for each call, `EntryHeld` (between its write and its circuit the entry holds its inputs, unless its
persona wrote again), `OwnInputs` and `ToldTruly`, over `Shape`.

**Federation.** The ledger steps are the registry's, twice, so `ClientsProofs` uses `RegistryProofs` for the
home ledger and its instance `PeerProofs` for the other one, after showing that the peer's constants meet
`RegistryAssumption` (`PeerAssumption`). `ReadersInv` says that, until a state is judged by a later time (`torn`), at
most one of the lenders has heard FREE from everybody while its offer stands (`OneIsCleared`). The clause
about `torn` is the property's own: state and time are two requests, and a lender can be misled between them.
`DemoInv` is what the steps behind the demonstration have left on the two ledgers (`DemoProgress`), with
`DemoBooks`: only the demonstration writes to the peer. `PanelInv` is `ReadsAreYoung` (a press reuses no read older
than the time to live) and `ReadsWereTrue` (a read that does not show a binding was started before it).

**Recorded runs.** The two plans are first read once and for all: `CliPlanReads` and `ConsolePlanReads` say which steps a
plan has and at which place (`Place`), whatever the length of the pool, and everything after speaks of places instead of
sequences. `RunInv` then has four parts.

* `BaseInv` holds of the ledger whoever calls it: `RegistryInv`, the types of the audit side and `RecordsKept` (what is
  offered or held has its record).
* `RunFacts` says what landed steps leave on the ledger *in whatever order they landed*: once #1001 is claimed, once the pool
  is taken up, once the request is made, nothing of the plans undoes it (`HeldStays`), so it holds through a `--from`
  replay over a ledger that has moved on, and says nothing of where the run stands.
* `Books` relates the run to that: what is recorded landed (`RecordedLanded`, in memory *and* in the file, which may be
  behind it), a saved disclosure is of the record the pledge points to for good (`SaysWhatItOpened`), and before a
  replay nothing landed that the run is not up to (`UpToHere`) and the pledge of #1001 is where the last step on it left it
  (`Stage`).
* `StepsLandOnce` and `RefusalsHoldUnreplayed` themselves. They follow from `Stage` (`LandsOnce`): each circuit's
  asserts refuse a step whose effect the ledger already has.

`FinishedReads` gets a finished run's claims from `RunFacts` alone, since everything recorded landed. Once others
call, `RunInv` is lost and only `BaseInv` and `EvidenceHas` are left, what the evidence says of itself: every pledge in it is
held or settled. `AddsBeside` is the argument for `MoreIsNoFailure`: a circuit that adds a row wants it to be free, and
while the evidence verifies no recorded row is; `SparedVerifies` says that nothing else can spoil the check.

**The key ceremony.** The runs have the group of order 7; the theorems hold for every odd order above 3, hence for
the curve's. What the sharing computes is the harder part. `euclid` is a recursive function, so before a
turn of its loop may be unfolded it has to be shown that the recursion defines a function at all. The second
remainder decreases (`TurnDecreases`), so solutions exist on the loops whose second remainder is below any bound
(`SolutionsExist`), agree with each other (`SolutionsAgree`), and together make the function (`EuclidUnfolds`); the
inductions are by smallest counterexample. Only the inverses of 1, 2, -1 and -2 are ever taken, and each takes a fixed
number of turns whatever the order (`InverseOfOne` to `InverseOfMinusTwo`). With the coefficients known up to
congruence, `EquationsAreInterpolation` shows that the constructor's two equations say exactly what
interpolation by each of the three pairs says, and `SharesCombine` that two accepted approvals open any record.
`CeremonyInv` is `TypeOK`, `CopiesWereOnFile` (what a page or a process took from the file was on it) and
`SealedIsAccepted` (what is sealed is what the constructor accepted of what was tried).

**`DeployInv`** has, beside `TypeOK`: `RunStands` (what the page awaits determines what is pending and
whether a write is under way), `CopiesAreSound` (the file, the page, its late reading and every write on its way
hold progress of registries that exist), `NothingElseKnown` (a page that may deploy, knowing of no registry, has
lost all there are) and `RecordsAreSound`. Until a slow reading has put older progress in the page (`overtaken`):
`OldestFirst` (file, writes and page, in this order, never forget), `LostIsSaved` and `ReadingIsSaved`. Progress
is in five places at once, and the properties are about two of them; an invariant about fewer is not inductive.

**`IInv` of the sandbox** has three parts. `WorldInv`: the ledger was made by calls under the keys that are stored
beside it (`Good`), and what is stored is the world unless a write failed. `PageInv`: there is a snapshot before each
result and one after the last, all of worlds with the tab's keys, the first as deployed. `ScriptInv`: up to `clean`,
results are the script's and snapshots are its ledgers; while `exact`, the world is too. `RewindIsExact` speaks of the
world only, but what a rewind puts there was a snapshot first, taken before anything interfered with a later step.
The steps themselves are computed: `Played` says, in a sentence for each step, where the script stands, `StepPlays` that
a step takes one such ledger to the next and answers as its script expects, and `ScriptPlays` that this is so all the way
from a deployed ledger. `LedgersOf` is a recursive function, so `ScriptReads` first shows that the recursion
defines one, by smallest counterexample. What a circuit answers is the code of its first assert that fails
(`VerdictFirst`, `VerdictOk`), and one lemma per circuit reads it off the ledger (`OfferSays`, `AcceptSays` and so on).
`WorkspacesAreHonest` follows from `Good` alone, for every ledger and time of a visit, but for its last conjunct: `ButtonsHold`
compares the conditions of each page with the asserts of the circuit behind its button, and `ListsHold` the lists with
those of offer and certify. The latter's checks are one sequence put together from the slots' (`FlattenUnfolds`,
`VerdictOfGroups`), which `CertifyPoolSays` reads as a condition on the pool. `DelayHolds` is about two times on one
ledger; it needs `Captured`, the part of `WorldInv` that says a call under way was on show in the world it carries.

### Assumptions

Each is an `ASSUME` in the module that declares the constants, and TLC evaluates it in every run whose module
extends that one.

| Assumption | Says |
|---|---|
| `RegistryAssumption` | invoices and stray tags have their types; `None` is none of the values it stands beside; the operator is no other party; pools have 1 to 4 slots |
| `DisclosureAssumption` | finitely many keyholders; a case has slots; the marks for an unused slot and a missing share are no record and no share |
| `SponsorAssumption` | finitely many requests; fees, budget and limits are numbers; `None` is no request and no window |
| `ProxyAssumption` | who is at the other end of a connection: the key's holder, the socket, or the client whose address the first trusted proxy appended |
| `SubmissionAssumption`, `CallsAssumption`, `ReadersAssumption` | the constants have their types |
| `FederationAssumption` | the peer's operator is no other party; every lender banks with one registry; `None` is no answer |
| `NobodyAssumption`, `WorkspacesAssumption`, `SandboxAssumption` | `Nobody` is no party; the rows on the desks are rows of the book, and a term is a day or more; `NoWorld` is no world; the bounds are numbers |
| `LifecycleAssumption` | the figures of a run (`cli/src/scenario.ts:77-98, 231-258, 686-697`): its invoices are different ones, the pool has two or more and is worth less than the overstated floor, amount and floor are positive, #1001's record and the pool's fill the case, keyholders and lenders are different parties |
| `VerificationAssumption` | a number of visits |
| `KeyCeremonyAssumption` | the order is a prime above 3 (the proofs use that it is odd); what is drawn is a scalar that is not zero |
| `StagedDeployAssumption` | the circuits of the maintenance list are different; the marks for no transaction and for one that created nothing are neither circuits nor registries |

Nothing is assumed of the environment beyond what the actions allow: the proofs cover every order of steps
section 3 describes, without its bounds.

### What is only model-checked

* Liveness: `EventuallyCompletes`, `EveryCallEnds`, `WatchedSubmissionsSettle`, `RunReachesTheEnd` and
  `FailedStepsAreRepeated`. The prover handles neither fairness nor `ENABLED`.
* What `euclid` returns for arguments other than the four the code uses.

Every other property of a passing run is stated by a theorem. `ConsoleEvidenceVerifies` and `CompletedMeansEveryKey`
are false (section 4).

## 7. What is not modelled

* Hash collisions, commitments and ciphertexts: ideal, as above. Zero-knowledge soundness is assumed, and so
  is the discrete logarithm: `KeyCeremony` writes a point as its logarithm and lets no action take it.
* A directory of more than two registries, and lenders that ask before they hold an offer (section 3).
* In `verify`: the deployment record, the indexer's anchors, `--exact` (equality), sibling networks and the
  wording of the report.
* The sponsor's API keys (they only choose the bucket) and the envelope's format checks (they refuse before a
  modelled request begins).
* The SDK's bookkeeping of unsealed shares and the keyholder's reading of a case.
* The console's request guard, configuration, price service and decoding: no state that outlives a call,
  except that a price is kept for the server's life, which `Preflight` has as a trouble that a found price ends.
* `balance`, `estimate`, `nodecost` and `proof` of the command line, the indexer queries, endpoints and
  address codecs: they read, convert and print. `sponsored` is one pass through what `Calls` and `Sponsor`
  model.
* The web site's presentation (landing, proof and ledger pages, press kit, tallies).
* Generated contract bindings other than the circuits the sandbox runs, and third-party libraries: external,
  modelled from how the code uses them where it depends on them.

## 8. Plan

Done: all modules of section 2, and a theorem for every property of a passing run that is not liveness (section 6).

Models worth adding: transactions built on one ledger state and included on another over the whole of
`Registry`, as `Calls` has for its thirteen requests; unsealed shares in the role clients.

## 9. Running the checks

    tlc -workers 2 -config MCRegistry.cfg MCRegistry.tla
    tlapm RegistryProofs.tla

Each run of `PROJECT.json` names its module and configuration, and each finishes within three minutes. The proofs
are those of the modules whose name ends in `Proofs`; each module takes between half a minute and ten.
