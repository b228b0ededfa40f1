----------------------------- MODULE StagedDeploy -----------------------------
(***************************************************************************)
(* The staged deployment of a registry from the mainnet console            *)
(* (tools/mainnet-console/src/lib/deploy.ts over NetworkBackend.deploy):   *)
(* one transaction deploys the contract with its first verifier keys, one  *)
(* maintenance transaction per remaining circuit inserts its key, and a    *)
(* run that stops is resumed from the progress saved in a file.            *)
(*                                                                         *)
(* The operator's page, the writes of its progress to the file, the chain  *)
(* and what the machine depends on move independently.  A step is what the *)
(* page does between two awaits.  Every await may fail, the page may be    *)
(* closed at any of them, and a submission nobody saw in a block may still *)
(* land later.  The key ceremony was run.                                  *)
(*                                                                         *)
(* A page that opens reads this machine twice (StrictMode runs the effect  *)
(* of app.tsx twice, and neither reading takes the guard): what it read is *)
(* applied whenever the slowest part of it, the preflight, answers.        *)
(*                                                                         *)
(* A transaction is identified by what it did: the number of the registry  *)
(* it created, the circuit whose key it inserted, or Void.                 *)
(***************************************************************************)
EXTENDS Integers, Sequences, SequencesExt, FiniteSets, Preflight

CONSTANTS
    Maintenance,    \* the circuits whose keys follow the deploy, in order
    MaxFailures,    \* bound on the things that go wrong
    MaxTroubles,    \* bound on what is wrong with the machine at one time
    NoTx,           \* undefined
    Void            \* a transaction in a block that created nothing

Keys == ToSet(Maintenance)
MaxRegistries == MaxFailures + 1
Tx == 1..MaxRegistries \cup Keys \cup {Void}

Progress == [txId : Tx \cup {NoTx}, address : 1..MaxRegistries \cup {NoTx},
             inserted : SUBSET Keys, ids : [Keys -> Tx \cup {NoTx}], completed : BOOLEAN]

ASSUME StagedDeployAssumption ==
    /\ Maintenance \in Seq(Keys) /\ Cardinality(Keys) = Len(Maintenance)
    /\ MaxFailures \in Nat /\ MaxTroubles \in Nat
    /\ {NoTx, Void} \cap (Keys \cup Nat) = {} /\ NoTx # Void
    /\ NoTx \notin Progress

VARIABLES
    registries, \* registries[i]: the maintenance keys registry i carries, and whether the
                \* private-state file holds its signing key
    unseen,     \* submissions given up on that may still land
    saved,      \* the progress in the file, NoTx while there is no file
    writes,     \* progress on its way to the file
    records,    \* the deployment records, mainnet.json first
    tab,        \* the page: its progress, its run and its session
    machine,    \* what is wrong with the machine and what it depends on
    failures,   \* how many things went wrong
    refused,    \* history: circuits whose insertion was once refused or unseen
    lost,       \* history: registries no progress speaks of
    overtaken   \* history: a slow reading has put older progress in the page's hands

vars == <<registries, unseen, saved, writes, records, tab, machine, failures, refused, lost, overtaken>>

\* A submission that was given up on: a deploy transaction, or the insertion of a key.
GivenUpDeploy == [registry |-> NoTx, key |-> NoTx]
GivenUp == {GivenUpDeploy} \cup [registry : 1..MaxRegistries, key : Keys]

NoProgress == [txId |-> NoTx, address |-> NoTx, inserted |-> {},
               ids |-> [k \in Keys |-> NoTx], completed |-> FALSE]

\* p says nothing of a registry.
KnowsNothing(p) == p = NoTx \/ (p.txId = NoTx /\ p.address = NoTx)

\* What a reading of this machine found: the progress in the file, and whether there is a record.
Reading == [progress : Progress \cup {NoTx}, recorded : BOOLEAN]
NoReading == [progress |-> NoTx, recorded |-> FALSE]

\* at: what the run awaits.  first, last: the session's submitted[0] and submitted.at(-1).
\* remaining: the circuits whose keys the run has yet to insert.
\* loaded: a reading was applied.  slow: another one is under way.  stale: it was applied under
\* the run.  recorded: the page's deployment.
Tab == [at : {"idle", "deploying", "deployed", "inserting", "inserted",
              "saving", "finishing", "recording"},
        progress : Progress, pendingDeploy : BOOLEAN, pendingCircuit : Keys \cup {NoTx},
        remaining : SUBSET Keys, first : Tx \cup {NoTx}, last : Tx \cup {NoTx},
        loaded : BOOLEAN, reading : Reading, slow : BOOLEAN, stale : BOOLEAN, recorded : BOOLEAN,
        session : Holdings \cup {"none"}, dry : {"none", "blocked", "warnings", "ready"}]

\* The page as it opens, with what its readings are to find.
Opened(reading) ==
    [at |-> "idle", progress |-> NoProgress, pendingDeploy |-> FALSE, pendingCircuit |-> NoTx,
     remaining |-> {}, first |-> NoTx, last |-> NoTx, loaded |-> FALSE, reading |-> reading,
     slow |-> FALSE, stale |-> FALSE, recorded |-> FALSE, session |-> "none", dry |-> "none"]

Init ==
    /\ registries = <<>> /\ unseen = {}
    /\ saved = NoTx /\ writes = <<>> /\ records = <<>>
    /\ tab = Opened(NoReading)
    /\ machine \in {t \in SUBSET Troubles : Cardinality(t) <= MaxTroubles}
    /\ failures = 0 /\ refused = {} /\ lost = {} /\ overtaken = FALSE

-----------------------------------------------------------------------------
(* The run's bookkeeping.                                                  *)

\* Mutation: commit takes the session's first transaction for the circuit's.
CommittedFirstTx(t) ==
    IF t.pendingDeploy
    THEN [t EXCEPT !.pendingDeploy = FALSE, !.progress.txId = IF @ = NoTx THEN t.first ELSE @]
    ELSE IF t.pendingCircuit # NoTx
    THEN [t EXCEPT !.pendingCircuit = NoTx,
                   !.progress.inserted = @ \cup {t.pendingCircuit},
                   !.progress.ids[t.pendingCircuit] = IF t.first = NoTx THEN @ ELSE t.first]
    ELSE t

\* commit(): what was pending is now recorded as done.
Committed(t) ==
    IF t.pendingDeploy
    THEN [t EXCEPT !.pendingDeploy = FALSE, !.progress.txId = IF @ = NoTx THEN t.first ELSE @]
    ELSE IF t.pendingCircuit # NoTx
    THEN [t EXCEPT !.pendingCircuit = NoTx,
                   !.progress.inserted = @ \cup {t.pendingCircuit},
                   !.progress.ids[t.pendingCircuit] = IF t.last = NoTx THEN @ ELSE t.last]
    ELSE t

\* data.contractAddress: the resumed registry's, or that of the registry just deployed.
Contract(t) == IF t.progress.address # NoTx THEN t.progress.address ELSE t.last

\* The first of some circuits, in the order their keys follow the deploy.
FirstOf(circuits) ==
    Maintenance[CHOOSE i \in DOMAIN Maintenance :
                    /\ Maintenance[i] \in circuits
                    /\ \A j \in DOMAIN Maintenance : Maintenance[j] \in circuits => i <= j]

\* onProgress for a verifier key, as the wallet prompt for the first remaining circuit goes up.
Announced(t) ==
    [Committed(t) EXCEPT !.at = "inserting", !.progress.address = Contract(t),
                         !.pendingCircuit = FirstOf(t.remaining)]

\* The page once NetworkBackend.deploy has resolved.
Finished(t) ==
    [Committed(t) EXCEPT !.at = "finishing", !.progress.address = Contract(t),
                         !.progress.completed = TRUE]

\* NetworkBackend.deploy's loop: the next prompt, or the end.
Advanced(t) == IF t.remaining = {} THEN Finished(t) ELSE Announced(t)

\* Mutation: the catch records no circuit.
CaughtUncommitted(t) ==
    [(IF t.pendingDeploy THEN Committed(t) ELSE t) EXCEPT !.at = "saving", !.pendingCircuit = NoTx]

\* The catch around NetworkBackend.deploy.
Caught(t) == [Committed(t) EXCEPT !.at = "saving"]

\* save(): t is the page's state again, and its progress on its way to the file.
Save(t) ==
    /\ tab' = [t EXCEPT !.stale = FALSE, !.reading = IF t.stale THEN NoReading ELSE @]
    /\ writes' = Append(writes, t.progress)

\* The run is over.  What was applied under it is what the page holds.
Ended(t) ==
    [t EXCEPT !.at = "idle", !.stale = FALSE,
              !.progress = IF t.stale THEN t.reading.progress ELSE @,
              !.reading = IF t.stale THEN NoReading ELSE @]

\* One more thing goes wrong.
Fails == failures < MaxFailures /\ failures' = failures + 1

\* It goes wrong if forced, and may go wrong anyway.
FailsIf(forced) == Fails \/ (forced /\ UNCHANGED failures)

\* The page's session after transaction x is in a block.
Submitted(x) == [tab EXCEPT !.first = IF @ = NoTx THEN x ELSE @, !.last = x]

\* The history, as the page's progress gives way to what a reading found.
Forgot ==
    lost' = IF tab'.progress # tab.progress /\ KnowsNothing(tab'.progress) THEN DOMAIN registries ELSE lost

Overtook == Forgot /\ overtaken' = (overtaken \/ tab'.progress # tab.progress)

-----------------------------------------------------------------------------
(* The page before the button.                                             *)

\* The page t once a reading of this machine is applied: there may be no progress to apply.
Applied(t, reading) ==
    [t EXCEPT !.loaded = TRUE, !.recorded = reading.recorded,
              !.progress = IF reading.progress = NoTx THEN @ ELSE reading.progress]

\* The keys, the progress and the record arrive together; the second reading finds the same
\* and is applied with the first, or goes on.
FirstReading ==
    /\ ~tab.loaded
    /\ \/ /\ tab' = [Applied(tab, tab.reading) EXCEPT !.reading = NoReading]
          /\ UNCHANGED failures
       \/ /\ tab' = [Applied(tab, tab.reading) EXCEPT !.slow = TRUE]
          /\ Fails
    /\ UNCHANGED <<registries, unseen, saved, writes, records, machine, refused, lost, overtaken>>

\* The second reading is applied, whatever the page has done since.  The next save of a run
\* undoes it.
SlowReading ==
    /\ tab.slow
    /\ tab' = IF tab.at = "idle"
              THEN [Applied(tab, tab.reading) EXCEPT !.slow = FALSE, !.reading = NoReading]
              ELSE [tab EXCEPT !.slow = FALSE, !.recorded = tab.reading.recorded,
                               !.stale = tab.reading.progress # NoTx]
    /\ Overtook
    /\ UNCHANGED <<registries, unseen, saved, writes, records, machine, failures, refused>>

\* The "Re-check" button.
Recheck ==
    /\ tab.at = "idle" /\ tab.loaded
    /\ tab' = Applied(tab, [progress |-> saved, recorded |-> records # <<>>])
    /\ Forgot
    /\ UNCHANGED <<registries, unseen, saved, writes, records, machine, failures, refused, overtaken>>

\* onConnect: a session that has submitted nothing, with what the wallet holds now: nothing,
\* as 1AM's pool pays, unless the trouble is that it holds some and not enough.
Connect ==
    /\ tab.at = "idle"
    /\ tab' = [tab EXCEPT !.session = IF "dust" \in machine THEN "short" ELSE "nothing",
                          !.first = NoTx, !.last = NoTx]
    /\ UNCHANGED <<registries, unseen, saved, writes, records, machine, failures, refused, lost, overtaken>>

\* onDryRun.
DryRun ==
    /\ tab.at = "idle" /\ tab.session # "none"
    /\ tab' = [tab EXCEPT !.dry = dryRun(serverPreflight(machine, records # <<>>), machine,
                                         tab.session)]
    /\ UNCHANGED <<registries, unseen, saved, writes, records, machine, failures, refused, lost, overtaken>>

-----------------------------------------------------------------------------
(* Pressing the button.                                                    *)

\* The deployment is complete, or recorded: nothing is left to press.
deployDone == tab.progress.completed \/ tab.recorded

\* A deploy transaction of unknown outcome stands in the page's way.
Stuck == tab.progress.txId # NoTx /\ tab.progress.address = NoTx

\* Mutation: the keys arrive before the progress does, and the button is live without it.
StartableUnread ==
    /\ tab.at = "idle" /\ ~deployDone
    /\ tab.session # "none" /\ tab.dry \notin {"none", "blocked"}
    /\ ~Stuck

\* The button is live once the machine was read and a wallet connected, the dry run is not
\* blocked, and no deploy transaction of unknown outcome stands in the way.
Startable ==
    /\ tab.at = "idle" /\ ~deployDone
    /\ tab.loaded
    /\ tab.session # "none" /\ tab.dry \notin {"none", "blocked"}
    /\ ~Stuck

\* Mutation: every press starts from an empty progress.
StartedAfresh ==
    [tab EXCEPT !.progress = [NoProgress EXCEPT !.txId = tab.progress.txId,
                                                !.address = tab.progress.address],
                !.pendingDeploy = tab.progress.address = NoTx,
                !.pendingCircuit = NoTx, !.remaining = Keys]

\* runStagedDeploy's locals, from the progress in memory.
Started ==
    [tab EXCEPT !.pendingDeploy = tab.progress.address = NoTx, !.pendingCircuit = NoTx,
                !.remaining = Keys \ tab.progress.inserted]

\* A first run announces the deploy transaction.
StartDeploy ==
    /\ Startable /\ tab.progress.address = NoTx
    /\ Save([Committed(Started) EXCEPT !.at = "deploying", !.pendingDeploy = TRUE])
    /\ UNCHANGED <<registries, unseen, saved, records, machine, failures, refused, lost, overtaken>>

\* A later run skips what the progress holds.
Resume ==
    /\ Startable /\ tab.progress.address # NoTx
    /\ Save(Advanced(Started))
    /\ UNCHANGED <<registries, unseen, saved, records, machine, failures, refused, lost, overtaken>>

-----------------------------------------------------------------------------
(* The deploy transaction.                                                 *)

\* No transaction gets into a block.
Barred == machine \cap {"node", "dust"} # {}

\* What the deploy transaction of a subsetContract creates: none of the keys that follow it,
\* and nobody here holds its signing key yet.
Deployed == [keys |-> {}, signed |-> FALSE]

\* The transaction is in a block, and created a registry.
DeployLands ==
    /\ tab.at = "deploying" /\ ~Barred /\ Len(registries) < MaxRegistries
    /\ registries' = Append(registries, Deployed)
    /\ tab' = [Submitted(Len(registries) + 1) EXCEPT !.at = "deployed"]
    /\ UNCHANGED <<unseen, saved, writes, records, machine, failures, refused, lost, overtaken>>

\* The transaction is in a block, and created nothing.
DeployCreatesNothing ==
    /\ tab.at = "deploying" /\ ~Barred /\ Fails
    /\ tab' = [Submitted(Void) EXCEPT !.at = "deployed"]
    /\ UNCHANGED <<registries, unseen, saved, writes, records, machine, refused, lost, overtaken>>

\* Nothing was submitted, or the node rejected it.
DeployRefused ==
    /\ tab.at = "deploying"
    /\ FailsIf(Barred \/ "staged" \in machine)
    /\ Save(Caught(tab))
    /\ UNCHANGED <<registries, unseen, saved, records, machine, refused, lost, overtaken>>

\* Nobody saw it in a block in time.
DeployUnseen ==
    /\ tab.at = "deploying" /\ ~Barred /\ Fails
    /\ unseen' = unseen \cup {GivenUpDeploy}
    /\ Save(Caught(tab))
    /\ UNCHANGED <<registries, saved, records, machine, refused, lost, overtaken>>

\* setSigningKey: the private-state file holds the key that maintains registry r.
SigningKeyKept(r) == registries' = [registries EXCEPT ![r].signed = TRUE]

\* deployContract returns the address, and the first key is announced.
AddressArrives ==
    /\ tab.at = "deployed" /\ tab.last # Void /\ "indexer" \notin machine
    /\ SigningKeyKept(tab.last)
    /\ Save(Advanced(tab))
    /\ UNCHANGED <<unseen, saved, records, machine, failures, refused, lost, overtaken>>

\* deployContract throws after its transaction is in a block, with or without the signing key
\* of what it created in the file.
AddressLost ==
    /\ tab.at = "deployed"
    /\ FailsIf(tab.last = Void \/ "indexer" \in machine)
    /\ UNCHANGED registries \/ (tab.last # Void /\ SigningKeyKept(tab.last))
    /\ Save(Caught(tab))
    /\ UNCHANGED <<unseen, saved, records, machine, refused, lost, overtaken>>

-----------------------------------------------------------------------------
(* A maintenance transaction, for the circuit tab.pendingCircuit.          *)

OnChain(registry, key) == key \in registries[registry].keys

\* It is signed and can be built and submitted.
Insertable ==
    /\ registries[Contract(tab)].signed /\ ~OnChain(Contract(tab), tab.pendingCircuit)
    /\ ~Barred /\ "indexer" \notin machine

\* The key is on chain.
InsertLands ==
    /\ tab.at = "inserting" /\ Insertable
    /\ registries' = [registries EXCEPT ![Contract(tab)].keys = @ \cup {tab.pendingCircuit}]
    /\ tab' = [Submitted(tab.pendingCircuit) EXCEPT !.at = "inserted"]
    /\ UNCHANGED <<unseen, saved, writes, records, machine, failures, refused, lost, overtaken>>

\* Nothing was submitted: a refusal, a key the registry already carries, or no signing key.
InsertRefused ==
    /\ tab.at = "inserting"
    /\ FailsIf(~Insertable \/ "staged" \in machine)
    /\ refused' = refused \cup {tab.pendingCircuit}
    /\ Save(Caught(tab))
    /\ UNCHANGED <<registries, unseen, saved, records, machine, lost, overtaken>>

\* Nobody saw it in a block in time.
InsertUnseen ==
    /\ tab.at = "inserting" /\ Insertable /\ Fails
    /\ unseen' = unseen \cup {[registry |-> Contract(tab), key |-> tab.pendingCircuit]}
    /\ refused' = refused \cup {tab.pendingCircuit}
    /\ Save(Caught(tab))
    /\ UNCHANGED <<registries, saved, records, machine, lost, overtaken>>

\* insertVerifierKey returns: the next circuit is announced, or the run ends.
InsertReturns ==
    /\ tab.at = "inserted" /\ "indexer" \notin machine
    /\ Save(Advanced([tab EXCEPT !.remaining = @ \ {tab.pendingCircuit}]))
    /\ UNCHANGED <<registries, unseen, saved, records, machine, failures, refused, lost, overtaken>>

\* insertVerifierKey throws after its transaction is in a block.
InsertThrows ==
    /\ tab.at = "inserted" /\ FailsIf("indexer" \in machine)
    /\ Save(Caught(tab))
    /\ UNCHANGED <<registries, unseen, saved, records, machine, refused, lost, overtaken>>

-----------------------------------------------------------------------------
(* The file, the records, the page, the machine and the operator.          *)

\* Where the run goes on when the write it awaits is over.
AfterWrite(written) ==
    IF Len(writes) > 1 \/ tab.at \notin {"saving", "finishing"} THEN tab
    ELSE IF tab.at = "finishing" /\ written THEN [tab EXCEPT !.at = "recording"] ELSE Ended(tab)

\* The oldest write reaches the file.
WriteLands ==
    /\ writes # <<>>
    /\ saved' = Head(writes) /\ writes' = Tail(writes)
    /\ tab' = AfterWrite(TRUE)
    /\ Overtook
    /\ UNCHANGED <<registries, unseen, records, machine, failures, refused>>

\* The oldest write fails.  Only an awaited one is missed.
WriteFails ==
    /\ writes # <<>> /\ Fails
    /\ writes' = Tail(writes)
    /\ tab' = AfterWrite(FALSE)
    /\ Overtook
    /\ UNCHANGED <<registries, unseen, saved, records, machine, refused>>

\* The server takes the record only if it has a transaction id for every circuit, and gives it
\* a name of its own.  The page then reads the machine again.
WriteRecord ==
    /\ tab.at = "recording" /\ "indexer" \notin machine
    /\ \A k \in Keys : tab.progress.ids[k] # NoTx
    /\ records' = Append(records, [registry |-> tab.progress.address, ids |-> tab.progress.ids])
    /\ tab' = [tab EXCEPT !.at = "idle", !.recorded = TRUE, !.stale = FALSE,
                          !.reading = IF tab.stale THEN NoReading ELSE @]
    /\ UNCHANGED <<registries, unseen, saved, writes, machine, failures, refused, lost, overtaken>>

\* Resolving the transactions or writing the record fails.
RecordFails ==
    /\ tab.at = "recording"
    /\ FailsIf("indexer" \in machine \/ \E k \in Keys : tab.progress.ids[k] = NoTx)
    /\ tab' = Ended(tab)
    /\ Overtook
    /\ UNCHANGED <<registries, unseen, saved, writes, records, machine, refused>>

\* The page opens on a file that holds p.
Reopen(p) ==
    /\ saved' = p /\ writes' = <<>>
    /\ tab' = Opened([progress |-> p, recorded |-> records # <<>>])
    /\ lost' = IF KnowsNothing(p) THEN DOMAIN registries ELSE lost

\* The page is closed in the middle of a run, the first n writes under way reach the file,
\* and the page is opened again.
CloseTab ==
    /\ tab.at # "idle" /\ Fails
    /\ \E n \in 0..Len(writes) : Reopen(IF n = 0 THEN saved ELSE writes[n])
    /\ UNCHANGED <<registries, unseen, records, machine, refused, overtaken>>

\* The operator reloads the page.  One that holds a complete run without its record goes on
\* only after that, and so does a stuck one.
Reload ==
    /\ tab.at = "idle" /\ writes = <<>>
    /\ FailsIf(Stuck \/ (tab.progress.completed /\ ~tab.recorded))
    /\ Reopen(saved)
    /\ UNCHANGED <<registries, unseen, records, machine, refused, overtaken>>

\* The operator looks the deploy transaction up and edits the file as the console asks.
Edited == IF saved.txId \in DOMAIN registries THEN [saved EXCEPT !.address = saved.txId]
                                               ELSE [saved EXCEPT !.txId = NoTx]

\* The transaction the console names is the session's first, which created nothing, and a
\* later one of the session created a registry.
Misnamed == saved.txId \notin DOMAIN registries /\ DOMAIN registries \ lost # {}

\* The operator takes the console at its word, or finds the registry all the same.
EditFile ==
    /\ tab.at = "idle" /\ writes = <<>>
    /\ saved # NoTx /\ saved.txId # NoTx /\ saved.address = NoTx
    /\ \/ saved' = Edited /\ FailsIf(~Misnamed)
       \/ /\ Misnamed /\ UNCHANGED failures
          /\ \E r \in DOMAIN registries \ lost : saved' = [saved EXCEPT !.address = r]
    /\ UNCHANGED <<registries, unseen, writes, records, tab, machine, refused, lost, overtaken>>

\* A submission that was given up on is in a block after all.
LateDeploy ==
    \E s \in unseen :
        /\ s.registry = NoTx /\ Len(registries) < MaxRegistries
        /\ registries' = Append(registries, Deployed)
        /\ lost' = lost \cup {Len(registries) + 1}
        /\ unseen' = unseen \ {s}
        /\ UNCHANGED <<saved, writes, records, tab, machine, failures, refused, overtaken>>

LateInsert ==
    \E s \in unseen :
        /\ s.registry # NoTx
        /\ registries' = [registries EXCEPT ![s.registry].keys = @ \cup {s.key}]
        /\ unseen' = unseen \ {s}
        /\ UNCHANGED <<saved, writes, records, tab, machine, failures, refused, lost, overtaken>>

\* Something the run depends on stops working, or works again.
Breaks ==
    /\ Cardinality(machine) < MaxTroubles /\ Fails
    /\ \E t \in Troubles \ machine : machine' = machine \cup {t}
    /\ UNCHANGED <<registries, unseen, saved, writes, records, tab, refused, lost, overtaken>>

Mends ==
    /\ \E t \in machine : machine' = machine \ {t}
    /\ UNCHANGED <<registries, unseen, saved, writes, records, tab, failures, refused, lost, overtaken>>

-----------------------------------------------------------------------------
Press == StartDeploy \/ Resume

\* Whatever the run awaits is over, one way or another.
Step ==
    \/ DeployLands \/ DeployCreatesNothing \/ DeployRefused \/ DeployUnseen
    \/ AddressArrives \/ AddressLost
    \/ InsertLands \/ InsertRefused \/ InsertUnseen \/ InsertReturns \/ InsertThrows
    \/ WriteRecord \/ RecordFails

Write == WriteLands \/ WriteFails

Next ==
    \/ FirstReading \/ SlowReading \/ Recheck \/ Connect \/ DryRun
    \/ Press \/ Step \/ Write \/ CloseTab \/ Reload \/ EditFile \/ LateDeploy \/ LateInsert
    \/ Breaks \/ Mends

Spec == Init /\ [][Next]_vars

\* Awaits end, what is wrong is mended, and the operator connects, runs the dry run, presses,
\* reloads and answers the console in the end.
FairSpec == Spec /\ WF_vars(Step) /\ WF_vars(Write) /\ WF_vars(FirstReading) /\ WF_vars(Mends)
                 /\ WF_vars(Connect) /\ WF_vars(DryRun) /\ WF_vars(Press)
                 /\ WF_vars(Reload) /\ WF_vars(EditFile)

-----------------------------------------------------------------------------
(* Properties.                                                             *)

\* Every variable holds what the files, the page and the contract's key table may hold.
TypeOK ==
    /\ registries \in Seq([keys : SUBSET Keys, signed : BOOLEAN]) /\ Len(registries) <= MaxRegistries
    /\ unseen \subseteq GivenUp
    /\ saved \in Progress \cup {NoTx} /\ writes \in Seq(Progress)
    /\ records \in Seq([registry : 1..MaxRegistries, ids : [Keys -> Tx]])
    /\ tab \in Tab /\ machine \subseteq Troubles /\ overtaken \in BOOLEAN
    /\ failures \in 0..MaxFailures /\ refused \subseteq Keys /\ lost \subseteq DOMAIN registries

\* Of the registries on chain, at most one is not lost: the console deploys a second one only
\* after a submission nobody saw, or after losing everything it knew (deploy.ts 103-115).  A
\* page that has not read the file yet cannot deploy.
OneRegistryUnlessLost == Cardinality(DOMAIN registries \ lost) <= 1

\* The transaction ids a record is written from are those of the insertions themselves,
\* for every circuit that was never refused (deploy.ts 124-127, 177-190).
RecordNamesInsertions ==
    \A i \in DOMAIN records : \A k \in Keys \ refused : records[i].ids[k] = k

\* The file never forgets a circuit, or the registry it is about unless that one is lost,
\* whichever page wrote it last, until a slow reading has overtaken a page (deploy.ts 93-98).
ProgressIsKept ==
    [][~overtaken /\ saved # NoTx =>
         /\ saved.inserted \subseteq saved'.inserted
         /\ saved.address \notin {NoTx} \cup lost => saved'.address = saved.address]_vars

\* A run that is pressed again after every failure gets to the end: a failure costs one
\* transaction, never the run (state.ts 5-8), and a blocked dry run costs none.  The end is
\* what kills the button: a progress that is complete, or a record.
EventuallyCompletes == <>[](records # <<>> \/ (saved # NoTx /\ saved.completed))

\* Refuted: a complete deployment carries every verifier key (network.ts 221-222).
CompletedMeansEveryKey ==
    saved # NoTx /\ saved.completed => registries[saved.address].keys = Keys

=============================================================================
