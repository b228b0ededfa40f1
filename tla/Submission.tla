------------------------------ MODULE Submission ------------------------------
(***************************************************************************)
(* Putting balanced transactions on chain through a node's JSON-RPC:       *)
(* the console's submitMidnightTransaction                                 *)
(* (tools/mainnet-console/server/submit.ts), which shares one cached       *)
(* connection, and the SDK's submitViaRpc (sdk/src/backend/rpc-submit.ts), *)
(* which opens one per call.                                               *)
(*                                                                         *)
(* Three sources race for the outcome of one submission: the timer, the    *)
(* statuses of the subscription, and the reply to the request itself.      *)
(* The first to call finish wins.                                          *)
(***************************************************************************)
EXTENDS Naturals, Sequences

CONSTANTS
    Submissions,    \* submissions made
    Couriers,       \* who may make them: functions from Submissions to {"console", "rpc"}
    MaxConnections, \* bound: connections opened
    MaxDrops        \* bound: connections lost

ASSUME SubmissionAssumption ==
    /\ Couriers \subseteq [Submissions -> {"console", "rpc"}]
    /\ MaxConnections \in Nat /\ MaxDrops \in Nat

VARIABLES
    job,            \* job[s]: where a submission stands in its function
    node,           \* node[s]: what became of its transaction
    statuses,       \* statuses[s]: what the node reported and has not been delivered
    connections,    \* the state of every connection opened
    cached,         \* the console's shared connection, 0 if none
    drops,          \* connections lost so far
    applied         \* history: transactions that ever were in a block and did not fail there

vars == <<job, node, statuses, connections, cached, drops, applied>>

Waiting(c) == [by |-> c, at |-> "new", outcome |-> "none", reason |-> "none", connection |-> 0,
               reply |-> "none", subscription |-> "none"]

\* What a node reports of a transaction it watches.
Statuses == {"InBlock", "InBlockFailed", "Invalid", "Dropped", "Usurped"}

Reasons == Statuses \cup {"none", "malformed", "not a Midnight node", "no connection",
                          "not priced", "not sent", "refused", "reply lost", "timer"}

Job == [by : {"console", "rpc"},
        at : {"new", "connecting", "importing", "pricing", "sending", "watching", "settled"},
        outcome : {"none", "in-block", "rejected", "unseen", "error"}, reason : Reasons,
        connection : 0..MaxConnections, reply : {"none", "waiting", "subscribed", "failed"},
        subscription : {"none", "open", "closed"}]

State(k) == IF k = 0 THEN "none" ELSE connections[k]
Up(s) == State(job[s].connection) = "up"
Console(s) == job[s].by = "console"

Put(s, r) == job' = [job EXCEPT ![s] = r]

\* finish: the first outcome stands, and the subscription is given up if its handle is known.
Finished(j, outcome, reason) ==
    IF j.outcome # "none" THEN j
    ELSE [j EXCEPT !.at = "settled", !.outcome = outcome, !.reason = reason,
                   !.subscription = IF j.reply = "subscribed" THEN "closed" ELSE @]

-----------------------------------------------------------------------------
(* Getting a connection.                                                   *)

\* The console refuses what is not a serialized transaction before anything else.
Begin(s) ==
    /\ job[s].at = "new"
    /\ \/ Put(s, [job[s] EXCEPT !.at = "connecting"])
       \/ Console(s) /\ Put(s, Finished(job[s], "rejected", "malformed"))
    /\ UNCHANGED <<node, statuses, connections, cached, drops, applied>>

Open(s) ==
    /\ Len(connections) < MaxConnections
    /\ connections' = Append(connections, "opening")

\* connect: the cached connection if it is there and connected.  If not, the client library is
\* imported first, and whoever asks meanwhile finds no connection either.
Connect(s) ==
    /\ job[s].at = "connecting" /\ job[s].connection = 0
    /\ \/ Console(s) /\ State(cached) = "up" /\ Put(s, [job[s] EXCEPT !.connection = cached])
       \/ /\ Console(s) => State(cached) \in {"none", "down", "failed"}
          /\ Put(s, [job[s] EXCEPT !.at = "importing"])
    /\ UNCHANGED <<node, statuses, connections, cached, drops, applied>>

\* The import resolves: a connection of its own, which the console shares from now on, in the place
\* of one that another submission may have opened since.
Import(s) ==
    /\ job[s].at = "importing"
    /\ Open(s)
    /\ Put(s, IF job[s].connection # 0 THEN [job[s] EXCEPT !.at = "pricing"]
              ELSE [job[s] EXCEPT !.at = "connecting", !.connection = Len(connections')])
    /\ cached' = IF Console(s) THEN Len(connections') ELSE cached
    /\ UNCHANGED <<node, statuses, drops, applied>>

\* The connection is ready, and the node may turn out to be no Midnight node.
Connected(s) ==
    /\ job[s].at = "connecting" /\ State(job[s].connection) \in {"up", "down"}
    /\ \/ Put(s, [job[s] EXCEPT !.at = IF Console(s) THEN "pricing" ELSE "sending"])
       \/ Put(s, Finished(job[s], "error", "not a Midnight node"))
    /\ UNCHANGED <<node, statuses, connections, cached, drops, applied>>

NotConnected(s) ==
    /\ job[s].at = "connecting" /\ State(job[s].connection) = "failed"
    /\ Put(s, Finished(job[s], "error", "no connection"))
    /\ UNCHANGED <<node, statuses, connections, cached, drops, applied>>

\* The pricing call asks for the connection again, and replaces one that was lost meanwhile.
Reconnect(s) ==
    /\ job[s].at = "pricing" /\ State(cached) \in {"down", "failed"}
    /\ Put(s, [job[s] EXCEPT !.at = "importing"])
    /\ UNCHANGED <<node, statuses, connections, cached, drops, applied>>

\* The node prices the bytes, or gives the reason it will not; a call that fails is passed over.
Price(s) ==
    /\ job[s].at = "pricing" /\ State(cached) # "opening"
    /\ \/ Put(s, [job[s] EXCEPT !.at = "sending"])
       \/ State(cached) = "up" /\ Put(s, Finished(job[s], "rejected", "not priced"))
    /\ UNCHANGED <<node, statuses, connections, cached, drops, applied>>

-----------------------------------------------------------------------------
(* The race.                                                               *)

\* The timer is set and the request goes out; on a lost connection it fails at once.
Send(s) ==
    /\ job[s].at = "sending"
    /\ IF Up(s) THEN Put(s, [job[s] EXCEPT !.at = "watching", !.reply = "waiting"])
       ELSE Put(s, Finished([job[s] EXCEPT !.reply = "failed"], "rejected", "not sent"))
    /\ UNCHANGED <<node, statuses, connections, cached, drops, applied>>

\* The node takes the transaction into its pool and watches it, or refuses it.
NodeTakes(s) ==
    /\ job[s].reply = "waiting" /\ node[s] = "unsent" /\ Up(s)
    /\ \E verdict \in {"pool", "refused"} : node' = [node EXCEPT ![s] = verdict]
    /\ UNCHANGED <<job, statuses, connections, cached, drops, applied>>

\* The handle of the subscription arrives, and is used at once if there is an outcome.
Subscribed(j) ==
    [j EXCEPT !.reply = "subscribed",
              !.subscription = IF j.outcome = "none" THEN "open" ELSE "closed"]

Reply(s) ==
    /\ job[s].reply = "waiting" /\ node[s] # "unsent" /\ Up(s)
    /\ Put(s, IF node[s] = "refused"
              THEN Finished([job[s] EXCEPT !.reply = "failed"], "rejected", "refused")
              ELSE Subscribed(job[s]))
    /\ UNCHANGED <<node, statuses, connections, cached, drops, applied>>

\* The connection is lost before the reply: the same error channel.
ReplyLost(s) ==
    /\ job[s].reply = "waiting" /\ ~Up(s)
    /\ Put(s, Finished([job[s] EXCEPT !.reply = "failed"], "rejected", "reply lost"))
    /\ UNCHANGED <<node, statuses, connections, cached, drops, applied>>

\* Mutation: the outcome of a transaction that failed in its block is not looked at.
VerdictOfInclusion(s, status) ==
    IF status \in {"InBlock", "InBlockFailed"} THEN "in-block" ELSE "rejected"

\* A dispatch error counts for the console, and not for submitViaRpc.
Verdict(s, status) ==
    CASE status = "InBlock" -> "in-block"
      [] status = "InBlockFailed" -> IF Console(s) THEN "rejected" ELSE "in-block"
      [] OTHER -> "rejected"

Status(s) ==
    /\ statuses[s] # <<>> /\ Up(s)
    /\ Put(s, Finished(job[s], Verdict(s, Head(statuses[s])), Head(statuses[s])))
    /\ statuses' = [statuses EXCEPT ![s] = Tail(@)]
    /\ UNCHANGED <<node, connections, cached, drops, applied>>

\* Mutation: the timer is set when the handle arrives.
TimerRunsOnceSubscribed(s) == job[s].at = "watching" /\ job[s].reply = "subscribed"

TimerRuns(s) == job[s].at = "watching"

Timeout(s) ==
    /\ TimerRuns(s)
    /\ Put(s, Finished(job[s], "unseen", "timer"))
    /\ UNCHANGED <<node, statuses, connections, cached, drops, applied>>

\* submitViaRpc disconnects whatever the outcome.
Disconnect(s) ==
    /\ job[s].at = "settled" /\ ~Console(s) /\ State(job[s].connection) \in {"up", "down"}
    /\ connections' = [connections EXCEPT ![job[s].connection] = "closed"]
    /\ Put(s, [job[s] EXCEPT !.subscription = IF @ = "open" THEN "closed" ELSE @])
    /\ statuses' = [statuses EXCEPT ![s] = <<>>]
    /\ UNCHANGED <<node, cached, drops, applied>>

-----------------------------------------------------------------------------
(* The node and the network.                                               *)

\* Who is listening, over a connection that stands.
Heard(s) == Up(s) /\ job[s].reply \in {"waiting", "subscribed"} /\ job[s].subscription # "closed"

Report(s, status) ==
    statuses' = IF Heard(s) THEN [statuses EXCEPT ![s] = Append(@, status)] ELSE statuses

\* A block takes it: it applies, or fails there.
Included(s) ==
    /\ node[s] \in {"pool", "adrift"}
    /\ \/ /\ node' = [node EXCEPT ![s] = "block"] /\ Report(s, "InBlock")
          /\ applied' = applied \cup {s}
       \/ node' = [node EXCEPT ![s] = "failed"] /\ Report(s, "InBlockFailed") /\ UNCHANGED applied
    /\ UNCHANGED <<job, connections, cached, drops>>

\* It is found invalid for good, or leaves this node's pool and may be in another's.
LeavesPool(s) ==
    /\ node[s] = "pool"
    /\ \/ node' = [node EXCEPT ![s] = "gone"] /\ Report(s, "Invalid")
       \/ \E status \in {"Dropped", "Usurped"} :
            node' = [node EXCEPT ![s] = "adrift"] /\ Report(s, status)
    /\ UNCHANGED <<job, connections, cached, drops, applied>>

Opens(k) ==
    /\ connections[k] = "opening"
    /\ \E state \in {"up", "failed"} : connections' = [connections EXCEPT ![k] = state]
    /\ UNCHANGED <<job, node, statuses, cached, drops, applied>>

\* A lost connection takes the subscriptions over it and what they had not delivered with it.
Drops(k) ==
    LET on == {s \in Submissions : job[s].connection = k} IN
    /\ connections[k] = "up" /\ drops < MaxDrops
    /\ connections' = [connections EXCEPT ![k] = "down"]
    /\ drops' = drops + 1
    /\ statuses' = [s \in Submissions |-> IF s \in on THEN <<>> ELSE statuses[s]]
    /\ job' = [s \in Submissions |->
                IF s \in on /\ job[s].subscription = "open"
                THEN [job[s] EXCEPT !.subscription = "closed"] ELSE job[s]]
    /\ UNCHANGED <<node, cached, applied>>

\* The console's provider reconnects by itself.
Returns(k) ==
    /\ connections[k] = "down"
    /\ \A s \in Submissions : job[s].connection = k => Console(s) /\ job[s].reply # "waiting"
    /\ connections' = [connections EXCEPT ![k] = "up"]
    /\ UNCHANGED <<job, node, statuses, cached, drops, applied>>

-----------------------------------------------------------------------------

Init ==
    /\ \E courier \in Couriers : job = [s \in Submissions |-> Waiting(courier[s])]
    /\ node = [s \in Submissions |-> "unsent"]
    /\ statuses = [s \in Submissions |-> <<>>]
    /\ connections = <<>> /\ cached = 0 /\ drops = 0 /\ applied = {}

Next ==
    \/ \E s \in Submissions :
        \/ Begin(s) \/ Connect(s) \/ Import(s) \/ Connected(s) \/ NotConnected(s)
        \/ Reconnect(s) \/ Price(s) \/ Send(s) \/ Reply(s) \/ ReplyLost(s)
        \/ Status(s) \/ Timeout(s) \/ Disconnect(s)
        \/ NodeTakes(s) \/ Included(s) \/ LeavesPool(s)
    \/ \E k \in 1..Len(connections) : Opens(k) \/ Drops(k) \/ Returns(k)

Spec == Init /\ [][Next]_vars

\* Timers fire.  Nothing is promised of the node and the network.
FairSpec == Spec /\ \A s \in Submissions : WF_vars(Timeout(s))

-----------------------------------------------------------------------------
(* Properties.                                                             *)

\* Every variable holds what the two functions, the node and the connections may hold.
TypeOK ==
    /\ job \in [Submissions -> Job]
    /\ node \in [Submissions -> {"unsent", "pool", "adrift", "block", "failed", "refused", "gone"}]
    /\ statuses \in [Submissions -> Seq(Statuses)]
    /\ connections \in Seq({"opening", "up", "down", "failed", "closed"})
    /\ Len(connections) <= MaxConnections /\ cached \in 0..Len(connections)
    /\ drops \in 0..MaxDrops /\ applied \subseteq Submissions

\* submit.ts 153, 244-256: a submission of the console that resolves is in a block, where it did
\* not fail, whichever source of the race came first.
InBlockIsApplied ==
    \A s \in Submissions : Console(s) /\ job[s].outcome = "in-block" => s \in applied

\* What an operator may take a rejection for: a transaction the node would not price, refused,
\* or found invalid, that failed in its block, or never went out, is applied neither before nor
\* after.  A lost reply and a pool's verdict are no such rejections.
FinalRejectionsStand ==
    \A s \in applied :
        job[s].outcome = "rejected" => job[s].reason \in {"reply lost", "Dropped", "Usurped"}

\* What a caller is told of a submission stays so: the two together.
OutcomesStand == InBlockIsApplied /\ FinalRejectionsStand

\* submit.ts 215-223: once a request went out its submission settles, whatever the node does.
WatchedSubmissionsSettle ==
    \A s \in Submissions : job[s].at = "watching" ~> job[s].outcome # "none"

=============================================================================
