------------------------------- MODULE Sponsor -------------------------------
(***************************************************************************)
(* The DUST fee sponsor: one process that pays the fee of transactions     *)
(* others built (sponsor/src/service.ts, policy.ts), the HTTP server in    *)
(* front of it (server.ts) and the client that waits for it                *)
(* (sdk/src/backend/sponsor.ts).                                           *)
(*                                                                         *)
(* A request runs from its arrival to its first await in one step, and     *)
(* from each await to the next in one step; the steps of different         *)
(* requests interleave at the awaits.  The wallet answers each await with  *)
(* any result or an error.  A submitted transaction may reach the chain    *)
(* at any later time, whatever the wallet said of it.  The process keeps   *)
(* its counters in memory, and a restart begins them again.                *)
(***************************************************************************)
EXTENDS Integers, FiniteSets, SequencesExt

CONSTANTS
    Requests,           \* the HTTP requests of the model, each made once
    Connections,        \* what a request may come in on
    TrustedProxies, Hops,               \* whose X-Forwarded-For is believed, and how far
    Txs,                \* what a request may carry; a retry carries the same one
    Contracts, Circuits, MaxActions,    \* the allowlist
    MaxFee, Budget,     \* maxFeeSpeck and budgetSpeck
    MaxRequests, Window,                \* the rate limit
    Fees,               \* what the wallet may say a transaction costs
    MaxTime,            \* bound on the clock
    MaxLives,           \* bound on the lives of the process
    None

\* A connection: the name behind its API key, its socket's address, X-Forwarded-For, and the
\* client at its other end, which the service cannot see.
Connection == [key : STRING \cup {None}, remote : STRING, forwarded : Seq(STRING), origin : STRING]

\* Mutation: the hop is counted from the left.
rateLimitBucketLeft(k) ==
    IF k.key # None THEN k.key
    ELSE IF k.remote \in TrustedProxies /\ Len(k.forwarded) >= Hops
    THEN k.forwarded[Hops]
    ELSE k.remote

rateLimitBucket(k) ==
    IF k.key # None THEN k.key
    ELSE IF k.remote \in TrustedProxies /\ Len(k.forwarded) >= Hops
    THEN k.forwarded[Len(k.forwarded) - Hops + 1]
    ELSE k.remote

\* Who is at the other end: the holder of the key, the socket, or else the client behind the trusted
\* proxies.  Whatever n entries that client wrote, they appended one each, the first of them its
\* address.
ASSUME ProxyAssumption ==
    \A k \in Connections :
        \/ k.key # None /\ k.origin = k.key
        \/ k.key = None /\ k.remote \notin TrustedProxies /\ k.origin = k.remote
        \/ k.key = None /\ k.remote \in TrustedProxies /\ \E n \in 0..Len(k.forwarded) :
                n + Hops = Len(k.forwarded) /\ k.forwarded[n + 1] = k.origin

Callers == {rateLimitBucket(k) : k \in Connections}

\* A transaction as the service reads it, and the circuit the request claims it calls.
Tx == [readable : BOOLEAN,
       actions : Seq([kind : {"call", "deploy", "maintenance", "unknown"},
                      contract : STRING \cup {None}, circuit : STRING \cup {None}]),
       claimed : STRING \cup {None}]

describeTransaction(t) ==
    LET actions == ToSet(t.actions) IN
    [length |-> Len(t.actions),
     circuits |-> {a.circuit : a \in {x \in actions : x.kind = "call"}},
     contracts |-> {a.contract : a \in actions} \ {None},
     hasAdministrativeAction |-> \E a \in actions : a.kind \in {"deploy", "maintenance"}]

ASSUME SponsorAssumption ==
    /\ IsFiniteSet(Requests) /\ Connections \subseteq Connection
    /\ MaxFee \in Nat /\ Budget \in Nat /\ Fees \subseteq Nat
    /\ MaxRequests \in Nat \ {0} /\ Window \in Nat \ {0}
    /\ MaxTime \in Nat /\ MaxLives \in Nat \ {0} /\ Hops \in Nat \ {0}
    /\ None \notin Requests /\ None \notin [startedAt : 0..MaxTime, count : Nat]

VARIABLES
    now,
    windows,    \* windows[c]: the fixed window of bucket c, or None
    spent, reserved,
    request,    \* request[r]: where r is, and what it knows
    told,       \* told[r]: what the client of r has been told
    life,       \* which life of the process this is
    landed,     \* landed[t]: the request whose submission of t reached the chain
    opened      \* history: windows opened for each bucket

vars == <<now, windows, spent, reserved, request, told, life, landed, opened>>

\* The awaits a request holds its reservation over, and the ways it ends.
Held == {"pricing", "checking", "balancing", "submitting"}
Stages == {"new"} \cup Held \cup {"paid", "failed", "refused", "errored", "orphaned", "dropped"}

\* A transaction handed to the node may reach the chain.
Exposed == {"submitting", "paid", "failed", "orphaned"}

\* What a client may be told: nothing yet, the sponsor's result, a refusal code,
\* SUBMIT_FAILED, or TRANSPORT when no answer came.
Answers == {"waiting", "paid", "refused", "SUBMIT_FAILED", "TRANSPORT"}

Request == [stage : Stages, caller : Callers \cup {None}, origin : STRING \cup {None},
            tx : Txs \cup {None}, fee : Nat, life : 0..MaxLives]

NewRequest == [stage |-> "new", caller |-> None, origin |-> None, tx |-> None,
               fee |-> 0, life |-> 0]

InFlight == {r \in Requests : request[r].stage \in Held}

Init ==
    /\ now = 0
    /\ windows = [c \in Callers |-> None]
    /\ spent = 0 /\ reserved = 0
    /\ request = [r \in Requests |-> NewRequest]
    /\ told = [r \in Requests |-> "waiting"] /\ life = 1
    /\ landed = [t \in Txs |-> None]
    /\ opened = [c \in Callers |-> 0]

-----------------------------------------------------------------------------
(* The rate limiter.                                                       *)

Expired(c) == windows[c] = None \/ now - windows[c].startedAt >= Window

\* Mutation: the last place of a window is given twice.
AllowedOnceMore(c) == Expired(c) \/ windows[c].count <= MaxRequests

Allowed(c) == Expired(c) \/ windows[c].count < MaxRequests

\* The window of c after one more request is taken.
Taken(c) ==
    IF Expired(c) THEN [startedAt |-> now, count |-> 1]
    ELSE [windows[c] EXCEPT !.count = @ + 1]

\* A request given back: to the window there is now, whichever it was taken from.
Refund(w) == IF w # None /\ w.count > 0 THEN [w EXCEPT !.count = @ - 1] ELSE w

GiveBack(c) == windows' = [windows EXCEPT ![c] = Refund(@)]

-----------------------------------------------------------------------------
(* A request.                                                              *)

\* checkTransaction: what the transaction does, never what the request says of it.
Payable(t) ==
    LET d == describeTransaction(t) IN
    /\ t.readable                                                  \* UNREADABLE_TRANSACTION
    /\ ~d.hasAdministrativeAction                                  \* NOT_A_CONTRACT_CALL
    /\ d.circuits # {} /\ d.length <= MaxActions
    /\ d.contracts # {} /\ d.contracts \subseteq Contracts         \* CONTRACT_NOT_ALLOWED
    /\ d.circuits \subseteq Circuits                               \* CIRCUIT_NOT_ALLOWED
    /\ t.claimed # None => t.claimed \in d.circuits                \* CIRCUIT_MISMATCH

Reservable == spent + reserved + MaxFee <= Budget

Move(r, stage) == request' = [request EXCEPT ![r].stage = stage]

\* Mutation: a submission that failed is answered as a refusal.
AnswerOfRefusal(stage) == IF stage = "errored" THEN "SUBMIT_FAILED"
                          ELSE IF stage = "failed" THEN "refused" ELSE stage

\* What handle answers.  Only a SponsorError keeps its code: what nothing caught is a 500.
Answer(stage) == IF stage \in {"errored", "failed"} THEN "SUBMIT_FAILED" ELSE stage

\* The answer to r.  It finds nobody when the client's 120 seconds have passed or its
\* connection broke at any time before: the request went on without it.
Tell(r, stage) ==
    \E answer \in {Answer(stage), "TRANSPORT"} : told' = [told EXCEPT ![r] = answer]

\* The body of r has been read.  One synchronous step from the call of sponsor() to its first
\* await: the rate limit, the policy and the reservation.  A request that fails on its own
\* merits gives its place in the window back.
Arrive(r, k, t) ==
    LET c == rateLimitBucket(k) IN
    /\ request[r].stage = "new"
    /\ IF ~Allowed(c)                                   \* RATE_LIMITED
       THEN /\ request' = [request EXCEPT ![r] = [NewRequest EXCEPT !.stage = "refused"]]
            /\ Tell(r, "refused")
            /\ UNCHANGED <<windows, reserved, opened>>
       ELSE LET admitted == Payable(t) /\ Reservable    \* SPONSOR_OUT_OF_DUST
                w == Taken(c) IN
            /\ windows' = [windows EXCEPT ![c] = IF admitted THEN w ELSE Refund(w)]
            /\ opened' = [opened EXCEPT ![c] = @ + IF Expired(c) THEN 1 ELSE 0]
            /\ reserved' = reserved + IF admitted THEN MaxFee ELSE 0
            /\ request' = [request EXCEPT ![r] =
                 [stage |-> IF admitted THEN "pricing" ELSE "refused",
                  caller |-> c, origin |-> k.origin, tx |-> t, fee |-> 0, life |-> life]]
            /\ IF admitted THEN UNCHANGED told ELSE Tell(r, "refused")
    /\ UNCHANGED <<now, spent, life, landed>>

\* The end of a request that committed nothing: finally releases what it holds.
Drop(r, stage) ==
    /\ Move(r, stage) /\ Tell(r, stage)
    /\ reserved' = reserved - MaxFee
    /\ UNCHANGED <<now, spent, life, landed, opened>>

\* checkFee, against everybody else's share of the budget.
FeeAllowed(f) == f <= MaxFee /\ spent + reserved - MaxFee + f <= Budget

\* estimateFee resolves: the fee is checked.
Priced(r, f) ==
    /\ request[r].stage = "pricing"
    /\ FeeAllowed(f)
    /\ request' = [request EXCEPT ![r].stage = "checking", ![r].fee = f]
    /\ UNCHANGED <<now, windows, spent, reserved, told, life, landed, opened>>

\* estimateFee rejects, or the fee is too large.
NotPriced(r) ==
    /\ request[r].stage = "pricing"
    /\ Drop(r, "refused")
    /\ GiveBack(request[r].caller)

\* dustSpeck resolves with enough.
Covered(r) ==
    /\ request[r].stage = "checking"
    /\ Move(r, "balancing")
    /\ UNCHANGED <<now, windows, spent, reserved, told, life, landed, opened>>

\* dustSpeck resolves with less than the fee.
NotCovered(r) ==
    /\ request[r].stage = "checking"
    /\ Drop(r, "refused")
    /\ GiveBack(request[r].caller)

\* dustSpeck rejects: nothing catches it but the finally, and the caller is told nothing.
BalanceUnknown(r) ==
    /\ request[r].stage = "checking"
    /\ Drop(r, "errored")
    /\ UNCHANGED windows

\* addDustFees resolves; submit is called in the same step.
Balanced(r) ==
    /\ request[r].stage = "balancing"
    /\ Move(r, "submitting")
    /\ UNCHANGED <<now, windows, spent, reserved, told, life, landed, opened>>

\* addDustFees rejects: nothing was spent, and the caller is told what a failed submission is told.
NotBalanced(r) ==
    /\ request[r].stage = "balancing"
    /\ Drop(r, "errored")
    /\ UNCHANGED windows

\* Mutation: only a transaction the node acknowledged is counted as spent.
CommitAcknowledged(r, stage) ==
    /\ spent' = spent + IF stage = "paid" THEN request[r].fee ELSE 0
    /\ reserved' = reserved - MaxFee

\* commit: the reservation turns into spend in one step, whatever the node answered.
Commit(r, stage) ==
    /\ spent' = spent + request[r].fee
    /\ reserved' = reserved - MaxFee

\* submit resolves or rejects.
Submitted(r, stage) ==
    /\ request[r].stage = "submitting"
    /\ Commit(r, stage)
    /\ Move(r, stage) /\ Tell(r, stage)
    /\ UNCHANGED <<now, windows, life, landed, opened>>

-----------------------------------------------------------------------------
(* The process, the chain and the clock.                                   *)

\* The process ends, its counters, its windows and its requests with it, and starts again.
\* What it was submitting may have reached the node.
Restart ==
    /\ life < MaxLives
    /\ life' = life + 1
    /\ spent' = 0 /\ reserved' = 0
    /\ windows' = [c \in Callers |-> None]
    /\ request' = [r \in Requests |->
         IF r \notin InFlight THEN request[r]
         ELSE [request[r] EXCEPT !.stage = IF @ = "submitting" THEN "orphaned" ELSE "dropped"]]
    /\ told' = [r \in Requests |->
         IF r \in InFlight THEN "TRANSPORT" ELSE told[r]]
    /\ UNCHANGED <<now, landed, opened>>

\* The node includes a transaction that was handed to it.  Two balanced forms of one
\* transaction spend the same inputs, so one of them lands at most.
Land(r) ==
    /\ request[r].stage \in Exposed
    /\ landed[request[r].tx] = None
    /\ landed' = [landed EXCEPT ![request[r].tx] = r]
    /\ UNCHANGED <<now, windows, spent, reserved, request, told, life, opened>>

\* prune, on a timer.
Prune ==
    /\ windows' = [c \in Callers |-> IF Expired(c) THEN None ELSE windows[c]]
    /\ UNCHANGED <<now, spent, reserved, request, told, life, landed, opened>>

Tick ==
    /\ now < MaxTime
    /\ now' = now + 1
    /\ UNCHANGED <<windows, spent, reserved, request, told, life, landed, opened>>

Next ==
    \/ \E r \in Requests :
        \/ \E k \in Connections, t \in Txs : Arrive(r, k, t)
        \/ \E f \in Fees : Priced(r, f)
        \/ NotPriced(r) \/ Covered(r) \/ NotCovered(r) \/ BalanceUnknown(r)
        \/ Balanced(r) \/ NotBalanced(r)
        \/ \E stage \in {"paid", "failed"} : Submitted(r, stage)
        \/ Land(r)
    \/ Restart
    \/ Prune
    \/ Tick

Spec == Init /\ [][Next]_vars

-----------------------------------------------------------------------------
(* Properties.                                                             *)

\* Every variable holds what the fields of the service may hold; a count is never negative.
TypeOK ==
    /\ now \in 0..MaxTime
    /\ windows \in [Callers -> [startedAt : 0..MaxTime, count : Nat] \cup {None}]
    /\ spent \in Nat /\ reserved \in Nat
    /\ request \in [Requests -> Request]
    /\ told \in [Requests -> Answers] /\ life \in 1..MaxLives
    /\ landed \in [Txs -> Requests \cup {None}]
    /\ opened \in [Callers -> Nat]

\* sponsor/src/service.ts:162-163: spent and reserved together stay within the budget at
\* every await, and what is reserved is what the requests in flight hold, to the unit.
BudgetHolds ==
    /\ spent + reserved <= Budget
    /\ reserved = MaxFee * Cardinality(InFlight)

\* The DUST, unit by unit, that the requests of one life of the process may have cost: landed on
\* the chain or still on its way there.
ExposedOf(n) == {r \in Requests : request[r].life = n /\ request[r].stage \in Exposed}
Units(S) == UNION {{r} \X (1..request[r].fee) : r \in S}
Exposure(n) == Units(ExposedOf(n))

\* The DUST that could have left the wallet in one life of the process never exceeds the budget:
\* a submission the wallet reported as failed counts as paid, and so does one the process did not
\* live to see the end of.
ExposureWithinBudget == \A n \in 1..MaxLives : Cardinality(Exposure(n)) <= Budget

\* A client that was refused never sees its transaction land through the sponsor, whatever
\* happens afterwards, and one that was told it is paid for has had it submitted at the price the
\* wallet named.
\* A client that gave up knows nothing, and may retry what is then paid for twice.
AnswersAreTrue ==
    \A r \in Requests :
        /\ told[r] = "refused" => \A t \in Txs : landed[t] # r
        /\ told[r] = "paid" => request[r].stage = "paid" /\ request[r].fee \in Fees

\* server.ts:55-60: the bucket a request is counted in is its client's own, whatever the client
\* wrote in the headers it controls.
BucketsAreTheCallersOwn ==
    \A r \in Requests : request[r].caller = request[r].origin

LandedFor(c) == {t \in Txs : landed[t] # None /\ request[landed[t]].caller = c}

\* Every transaction that lands used up a place in some window of its bucket, so refunds never
\* let a caller land more than its windows allow in total.
EveryLandingIsCounted ==
    \A c \in Callers : Cardinality(LandedFor(c)) <= MaxRequests * opened[c]
=============================================================================
