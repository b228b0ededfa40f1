----------------------------- MODULE KeyCeremony -----------------------------
(***************************************************************************)
(* The disclosure key ceremony: 2-of-3 Shamir sharing by a dealer          *)
(* (sdk/src/crypto/scalar.ts, keys.ts), the file that keeps what it dealt  *)
(* (the console page, its server and the CLI write the same one), and the  *)
(* contract's constructor, which seals the public half.                    *)
(*                                                                         *)
(* The group is Z_Q for a small prime Q and the point x*G is written x:    *)
(* what the code adds and multiplies as points is here added and           *)
(* multiplied modulo Q, and 0 is the identity.  Nothing takes a discrete   *)
(* logarithm but the properties.                                           *)
(***************************************************************************)
EXTENDS Integers, FiniteSets, Sequences, SequencesExt

CONSTANTS
    Q,              \* the order of the group, JUBJUB_ORDER in the code
    Draws,          \* what randomScalar returns
    Tabs,           \* pages of the console open on this machine
    MaxCeremonies,  \* bound on the ceremonies run
    MaxFailures,    \* bound on the requests that fail under a page
    NoFile          \* null: no keys

ASSUME KeyCeremonyAssumption ==
    /\ Q \in Nat /\ Q > 3 /\ \A a \in 2..(Q - 1) : Q % a # 0
    /\ Draws \subseteq 1..(Q - 1)
    /\ IsFiniteSet(Tabs)
    /\ MaxCeremonies \in Nat /\ MaxFailures \in Nat

Scalars == 0..(Q - 1)
Holders == 1..3
Pairs == {<<1, 2>>, <<1, 3>>, <<2, 3>>}

-----------------------------------------------------------------------------
(* The sharing.                                                            *)

modL(x) == x % Q

\* The extended Euclidean algorithm: a turn of its loop on r0, r1, s0, s1, and s0 when it ends.
Turn(l) ==
    LET q == l[1] \div l[2] IN <<l[2], l[1] - q * l[2], l[4], l[3] - q * l[4]>>

euclid[l \in Nat \X Nat \X Int \X Int] == IF l[2] = 0 THEN l[3] ELSE euclid[Turn(l)]

invL(a) == modL(euclid[<<modL(a), Q, 1, 0>>])

\* Share i is f(i), f(x) = secret + a1 * x.
splitSecret(secret, a1) == [i \in Holders |-> modL(secret + a1 * i)]

\* The coefficient of index i when i and j interpolate at zero.
lagrangeAtZero(i, j) == modL(j * invL(j - i))

\* sum of lambda_i * P_i over two indices: combinePublicShares of the keys pk_i,
\* recoverSharedSecret of the decryption shares D_i.
Combined(i, j, P) == modL(lagrangeAtZero(i, j) * P[i] + lagrangeAtZero(j, i) * P[j])

\* What a ceremony deals, and what its file keeps.
Deal(secret, a1, auditor) ==
    LET shares == splitSecret(secret, a1)
    IN  [pk |-> modL(secret), pks |-> shares, apk |-> modL(auditor),
         shares |-> shares, auditor |-> auditor]

checkCeremony(d) ==
    /\ \A i \in Holders : modL(d.shares[i]) = d.pks[i]
    /\ \A p \in Pairs : Combined(p[1], p[2], d.shares) = d.pk

\* Mutation: the file's keyholders are read back to front.
keysFromFileReversed(d) == Reverse(d.shares)

\* The keyholders' scalars, by ledger index.
keysFromFile(d) == d.shares

Deals == {d \in {Deal(s, a1, a) : s \in Draws, a1 \in Draws, a \in Draws} : checkCeremony(d)}

-----------------------------------------------------------------------------
(* The sealed configuration.                                               *)

Configs == [pk : Scalars, pks : [Holders -> Scalars], apk : Scalars]
Published(d) == [pk |-> d.pk, pks |-> d.pks, apk |-> d.apk]

\* Mutation: the first equation alone ties the keys to a line.
ConstructorOneEquation(c) ==
    /\ c.pk # 0
    /\ c.apk \notin {0, c.pk}
    /\ \A i \in Holders : c.pks[i] \notin {0, c.pk, c.apk}
    /\ modL(2 * c.pks[1] - c.pks[2]) = c.pk

\* The asserts of the constructor: BAD_DISCLOSURE_KEY, BAD_AUDITOR_KEY, BAD_KEYHOLDER_KEY
\* and BAD_KEY_SHARING.
Constructor(c) ==
    /\ c.pk # 0
    /\ c.apk \notin {0, c.pk}
    /\ \A i \in Holders : c.pks[i] \notin {0, c.pk, c.apk}
    /\ modL(2 * c.pks[1] - c.pks[2]) = c.pk
    /\ modL(3 * c.pks[1] - c.pks[3]) = modL(2 * c.pk)

\* Mutation: the audit does not compare the keyholders' keys with the auditor's.
verifyRegistryConfigLax(c) ==
    /\ c.pk # 0 /\ c.apk # 0 /\ c.apk # c.pk
    /\ \A i \in Holders : c.pks[i] \notin {0, c.pk}
    /\ \A p \in Pairs : Combined(p[1], p[2], c.pks) = c.pk

\* No problem was found with a registry somebody else deployed.
verifyRegistryConfig(c) ==
    /\ c.pk # 0 /\ c.apk # 0 /\ c.apk # c.pk
    /\ \A i \in Holders : c.pks[i] \notin {0, c.pk, c.apk}
    /\ \A p \in Pairs : Combined(p[1], p[2], c.pks) = c.pk

\* approveDisclosure and approveCase: the scalar's point is the sealed key at the index.
Approves(c, i, s) == modL(s) = c.pks[i]

-----------------------------------------------------------------------------
VARIABLES
    file,       \* cli/.secrets/mainnet-keys.json
    posts,      \* POST /__console/keys requests the server has not answered
    cli,        \* the keys of a CLI ceremony that has looked for the file and not written it
    cliDeploy,  \* the keys of a CLI deploy whose wallet is syncing
    tab,        \* tab[t]: the keys a page holds and what it awaits
    tried,      \* the last configuration a constructor was run on
    sealed,     \* the configuration the registry was deployed with
    dealt,      \* the ceremonies run
    failures,   \* the requests that failed
    kept        \* history: the keys that were ever in the file

vars == <<file, posts, cli, cliDeploy, tab, tried, sealed, dealt, failures, kept>>

Files == Deals \cup {NoFile}

\* A request to write the file; checked: the server has looked for one.
Post == [by : Tabs, keys : Deals, force : BOOLEAN, checked : BOOLEAN]

\* The page: its keysFile, what its guarded operation awaits, the file that operation
\* has read, and the same for the unguarded read it began with.
Tab == [keys : Files, op : {"idle", "posting", "refreshing", "applying"}, read : Files,
        mount : {"asked", "read", "done"}, first : Files]

Opened == [keys |-> NoFile, op |-> "idle", read |-> NoFile, mount |-> "asked", first |-> NoFile]

Init ==
    /\ file = NoFile /\ posts = {} /\ cli = {} /\ cliDeploy = {}
    /\ tab = [t \in Tabs |-> Opened]
    /\ tried = {} /\ sealed = {}
    /\ dealt = 0 /\ failures = 0 /\ kept = {}

Idle(t) == tab[t].op = "idle"

\* refresh() on mount takes no guard: it reads, and applies what it read some time later.
MountReads(t) ==
    /\ tab[t].mount = "asked"
    /\ tab' = [tab EXCEPT ![t].mount = "read", ![t].first = file]
    /\ UNCHANGED <<file, posts, cli, cliDeploy, tried, sealed, dealt, failures, kept>>

MountApplies(t) ==
    /\ tab[t].mount = "read"
    /\ tab' = [tab EXCEPT ![t].mount = "done", ![t].keys = tab[t].first, ![t].first = NoFile]
    /\ UNCHANGED <<file, posts, cli, cliDeploy, tried, sealed, dealt, failures, kept>>

\* Mutation: the page takes up its ceremony's keys before the server has them.
PostingAtOnce(u, d) == [u EXCEPT !.op = "posting", !.keys = d]

\* The page while its ceremony is on its way to the file.
Posting(u, d) == [u EXCEPT !.op = "posting"]

\* onCeremony: runCeremony(keysFile !== null) deals, checks and posts.
PressCeremony(t) ==
    /\ Idle(t) /\ dealt < MaxCeremonies
    /\ \E d \in Deals :
         /\ posts' = posts \cup {[by |-> t, keys |-> d, force |-> tab[t].keys # NoFile, checked |-> FALSE]}
         /\ tab' = [tab EXCEPT ![t] = Posting(tab[t], d)]
    /\ dealt' = dealt + 1
    /\ UNCHANGED <<file, cli, cliDeploy, tried, sealed, failures, kept>>

\* Both ceremonies refuse an existing file unless they are forced.
MayWrite(force) == file = NoFile \/ force

\* The route looks for the file, then awaits the body.
ServerChecks(p) ==
    /\ p \in posts /\ ~p.checked
    /\ IF MayWrite(p.force)
       THEN /\ posts' = (posts \ {p}) \cup {[p EXCEPT !.checked = TRUE]}
            /\ UNCHANGED tab
       ELSE /\ posts' = posts \ {p}     \* 409
            /\ tab' = IF tab[p.by].op = "posting" THEN [tab EXCEPT ![p.by].op = "idle"] ELSE tab
    /\ UNCHANGED <<file, cli, cliDeploy, tried, sealed, dealt, failures, kept>>

ServerWrites(p) ==
    /\ p \in posts /\ p.checked
    /\ file' = p.keys /\ kept' = kept \cup {p.keys}
    /\ posts' = posts \ {p}
    /\ tab' = IF tab[p.by].op = "posting" THEN [tab EXCEPT ![p.by].op = "refreshing"] ELSE tab
    /\ UNCHANGED <<cli, cliDeploy, tried, sealed, dealt, failures>>

\* npm run -w cli ceremony, another process: it looks for the file, deals, and writes.
CliChecks ==
    /\ cli = {} /\ dealt < MaxCeremonies
    /\ \E d \in Deals, force \in BOOLEAN :
         /\ MayWrite(force)
         /\ cli' = {d}
    /\ dealt' = dealt + 1
    /\ UNCHANGED <<file, posts, cliDeploy, tab, tried, sealed, failures, kept>>

CliWrites ==
    /\ \E d \in cli : file' = d /\ kept' = kept \cup {d}
    /\ cli' = {}
    /\ UNCHANGED <<posts, cliDeploy, tab, tried, sealed, dealt, failures>>

\* The "Re-check" button.
PressRecheck(t) ==
    /\ Idle(t)
    /\ tab' = [tab EXCEPT ![t].op = "refreshing"]
    /\ UNCHANGED <<file, posts, cli, cliDeploy, tried, sealed, dealt, failures, kept>>

RefreshReads(t) ==
    /\ tab[t].op = "refreshing"
    /\ tab' = [tab EXCEPT ![t].op = "applying", ![t].read = file]
    /\ UNCHANGED <<file, posts, cli, cliDeploy, tried, sealed, dealt, failures, kept>>

RefreshApplies(t) ==
    /\ tab[t].op = "applying"
    /\ tab' = [tab EXCEPT ![t].op = "idle", ![t].keys = tab[t].read, ![t].read = NoFile]
    /\ UNCHANGED <<file, posts, cli, cliDeploy, tried, sealed, dealt, failures, kept>>

\* A request of the guarded operation fails under the page; the guard is released and the
\* keys stay what they were.  A ceremony it had posted goes on without it.
Fails(t) ==
    /\ ~Idle(t) /\ failures < MaxFailures
    /\ tab' = [tab EXCEPT ![t].op = "idle", ![t].read = NoFile]
    /\ failures' = failures + 1
    /\ UNCHANGED <<file, posts, cli, cliDeploy, tried, sealed, dealt, kept>>

\* The deploy transaction is built: the constructor runs on the public half of d.
Constructed(d) ==
    /\ sealed = {}
    /\ tried' = {Published(d)}
    /\ sealed' = {[config |-> c, from |-> d] : c \in {k \in tried' : Constructor(k)}}

\* onDeploy: on the keys the page holds.
Deploy(t) ==
    /\ Idle(t) /\ tab[t].keys # NoFile
    /\ Constructed(tab[t].keys)
    /\ UNCHANGED <<file, posts, cli, cliDeploy, tab, dealt, failures, kept>>

\* npm run -w cli deploy: openWallet reads the keys, then syncs the wallet from genesis.
CliOpensWallet ==
    /\ cliDeploy = {} /\ sealed = {} /\ file # NoFile
    /\ cliDeploy' = {file}
    /\ UNCHANGED <<file, posts, cli, tab, tried, sealed, dealt, failures, kept>>

\* It deploys with what it read, whatever the file holds by now.
CliDeploys ==
    /\ \E d \in cliDeploy : Constructed(d)
    /\ cliDeploy' = {}
    /\ UNCHANGED <<file, posts, cli, tab, dealt, failures, kept>>

\* The wallet is not synced in time, or the machine is rid of the deploy some other way.
CliDeployEnds ==
    /\ cliDeploy # {} /\ cliDeploy' = {}
    /\ UNCHANGED <<file, posts, cli, tab, tried, sealed, dealt, failures, kept>>

\* Somebody else deploys, from whatever keys they choose.  It is looked at before this
\* machine does anything, and then alone.
DeployElsewhere ==
    /\ tried = {} /\ dealt = 0 /\ failures = 0 /\ tab = [t \in Tabs |-> Opened]
    /\ \E c \in Configs :
         /\ tried' = {c}
         /\ sealed' = {[config |-> k, from |-> NoFile] : k \in {k \in {c} : Constructor(k)}}
    /\ UNCHANGED <<file, posts, cli, cliDeploy, tab, dealt, failures, kept>>

Here == tried = {} \/ dealt > 0

Next ==
    \/ DeployElsewhere
    \/ /\ Here
       /\ \/ \E t \in Tabs : \/ MountReads(t) \/ MountApplies(t)
                             \/ PressCeremony(t) \/ PressRecheck(t)
                             \/ RefreshReads(t) \/ RefreshApplies(t)
                             \/ Fails(t) \/ Deploy(t)
          \/ \E p \in posts : ServerChecks(p) \/ ServerWrites(p)
          \/ CliChecks \/ CliWrites
          \/ CliOpensWallet \/ CliDeploys \/ CliDeployEnds

Spec == Init /\ [][Next]_vars

-----------------------------------------------------------------------------
(* Properties.                                                             *)

\* Of the keys a constructor accepted, whoever dealt them, any two keyholders interpolate
\* to the disclosure key, and no keyholder's or auditor's own key is it.
TwoOfThreeOpen ==
    \A r \in sealed :
        /\ \A p \in Pairs : Combined(p[1], p[2], r.config.pks) = r.config.pk
        /\ r.config.pk \notin {0, r.config.apk} \cup ToSet(r.config.pks)

\* verifyRegistryConfig finds nothing wrong with exactly the configurations the constructor
\* accepts: "this is the same check any participant can run" (keys.ts:111-112).
AuditAgreesWithConstructor ==
    \A c \in tried : verifyRegistryConfig(c) <=> \E r \in sealed : r.config = c

\* What a ceremony dealt opens the registry it was sealed into: its keyholders' approvals
\* are accepted and any two of their decryption shares combine to S = sk*E for every E.
\* Whatever other keys this machine holds, an approval the registry accepts is as good.
DealtKeysOpen ==
    \A r \in sealed : r.from # NoFile =>
        /\ \A i \in Holders : Approves(r.config, i, keysFromFile(r.from)[i])
        /\ \A held \in {file} \cup {tab[t].keys : t \in Tabs} : held # NoFile =>
             \A p \in Pairs : \A e \in Scalars :
                 LET s == keysFromFile(held) IN
                 (\A i \in {p[1], p[2]} : Approves(r.config, i, s[i])) =>
                     Combined(p[1], p[2], [i \in Holders |-> modL(s[i] * e)]) = modL(r.config.pk * e)

\* A registry is sealed only with keys that were in the file: not with those of a ceremony
\* the server refused, or never heard of.
SealedKeysWereOnFile == \A r \in sealed : r.from # NoFile => r.from \in kept

TypeOK ==
    /\ file \in Files /\ posts \subseteq Post
    /\ cli \subseteq Deals /\ cliDeploy \subseteq Deals
    /\ tab \in [Tabs -> Tab]
    /\ tried \subseteq Configs
    /\ sealed \subseteq [config : Configs, from : Files]
    /\ dealt \in 0..MaxCeremonies /\ failures \in 0..MaxFailures /\ kept \subseteq Deals
=============================================================================
