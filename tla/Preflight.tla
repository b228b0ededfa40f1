------------------------------- MODULE Preflight -------------------------------
(***************************************************************************)
(* What the mainnet console finds out before it asks for a signature: the  *)
(* server's half of the preflight (server/preflight.ts), the page's half   *)
(* and the dry run that joins them (src/lib/preflight.ts).                 *)
(*                                                                         *)
(* machine is the set of what is wrong; the project token and the keys of  *)
(* the ceremony are there.  Each check answers "ok", "warn" or "fail".     *)
(***************************************************************************)
EXTENDS Naturals

\* indexer, node: Blockfrost does not answer.  price: the server holds no price and finds none.
\* build: the compiled contract is not the frozen one.  staged: the proving artefacts are not
\* served.  dust: the wallet holds some DUST, and less than the deploy transaction costs.
Troubles == {"indexer", "node", "price", "build", "staged", "dust"}

\* The DUST a wallet holds: none, less than the deploy costs, than the whole run, or enough.
Holdings == {"nothing", "short", "part", "enough"}

Unless(trouble, machine, answer) == IF trouble \in machine THEN answer ELSE "ok"

checkIndexer(machine) == Unless("indexer", machine, "fail")

nodeAcceptsMidnightTransactions(machine) == "node" \notin machine

checkSubmitPath(machine) == IF nodeAcceptsMidnightTransactions(machine) THEN "ok" ELSE "fail"

\* A price is computed over the preview deployment and kept.
priceDeployment(machine) == "price" \notin machine

\* The run may go on without a price.
checkPrice(machine) == IF priceDeployment(machine) THEN "ok" ELSE "warn"

checkContractInfo(machine) == Unless("build", machine, "fail")

checkStagedZk(machine) == Unless("staged", machine, "fail")

serverPreflight(machine, recorded) ==
    [indexer |-> checkIndexer(machine), submit |-> checkSubmitPath(machine),
     price |-> checkPrice(machine), build |-> checkContractInfo(machine),
     zk |-> checkStagedZk(machine), deployment |-> IF recorded THEN "warn" ELSE "ok"]

checkLoadedContract(machine) == Unless("build", machine, "fail")

\* A wallet with no DUST is the one the console expects.
checkWallet(held) == IF held = "nothing" THEN "ok" ELSE "warn"

\* held: what the session read when the wallet was connected.
checkAffordable(server, held) ==
    IF server.price = "warn" THEN "warn"
    ELSE [nothing |-> "warn", short |-> "fail", part |-> "warn", enough |-> "ok"][held]

checkZkOverHttp(machine) == Unless("staged", machine, "fail")

checkIndexerFromPage(machine) == Unless("indexer", machine, "fail")

dryRun(server, machine, held) ==
    LET answers == {server[c] : c \in DOMAIN server}
                     \cup {checkLoadedContract(machine), checkWallet(held),
                           checkAffordable(server, held), checkZkOverHttp(machine),
                           checkIndexerFromPage(machine)}
    IN  IF "fail" \in answers THEN "blocked" ELSE IF "warn" \in answers THEN "warnings" ELSE "ready"

=============================================================================
