-------------------------------- MODULE Calls --------------------------------
(***************************************************************************)
(* The role clients calling the registry through the network backend       *)
(* (sdk/src/backend/network.ts call and contractFor, the in-memory         *)
(* private-state store of providers.ts, the witnesses of the contract).    *)
(*                                                                         *)
(* A call awaits its persona's contract handle, writes the call's inputs   *)
(* into the persona's entry of the private-state store, and awaits the     *)
(* circuit, which reads them back, with the ledger, through the witnesses. *)
(* A refusal ends it there.  Otherwise there is a transaction, proved for  *)
(* what was read, which the chain applies to whatever the ledger is by     *)
(* then, if it still reads the same.                                       *)
(*                                                                         *)
(* Nothing clears the cache of handles: clearPersonaCache has no caller.   *)
(***************************************************************************)
EXTENDS Registry

CONSTANTS
    Requests,       \* what the role clients may be asked to do
    Beginnings,     \* the ledgers a run may begin with: which invoices are acknowledged, which offered
    MaxCalls        \* bound: calls made

Personas == Debtors \cup Sellers \cup Financiers

ASSUME CallsAssumption == \A q \in Requests : q.persona \in Personas

VARIABLES
    calls,          \* the calls made, in order
    store,          \* the private-state store: the inputs in each persona's entry
    bound           \* the cache of contract handles

callVars == <<vars, calls, store, bound>>

CallIds == 1..Len(calls)

\* Mutation: the id of a role.
privateStateIdOfRole(p) ==
    CASE p \in Debtors -> "debtor" [] p \in Sellers -> "seller" [] OTHER -> "financier"

privateStateIdOf(p) == p

Ids == Personas \cup {"debtor", "seller", "financier"}

\* The role clients: what each hands to call.  The invoice is an input, and the rest arguments.
acknowledge(d, n) == [persona |-> d, circuit |-> "acknowledge", args |-> <<>>, inputs |-> n]
pay(d, n) == [persona |-> d, circuit |-> "payInvoice", args |-> <<>>, inputs |-> n]
offer(s, n, f, t) ==
    [persona |-> s, circuit |-> "offer", args |-> <<holderTagOf(f, n), t>>, inputs |-> n]
onMarker(p, circuit, n) ==
    [persona |-> p, circuit |-> circuit, args |-> <<n>>, inputs |-> None]

\* The circuit of q, with n for what the witnesses return.
Circuit(q, n) ==
    LET p == q.persona
        a == q.args IN
    CASE q.circuit = "acknowledge" -> Acknowledge(p, n)
      [] q.circuit = "payInvoice" -> PayInvoice(p, n)
      [] q.circuit = "offer" -> \E e \in Ephemerals : Offer(p, n, a[1], a[2], e)
      [] q.circuit = "accept" -> Accept(p, a[1])
      [] q.circuit = "release" -> Release(p, a[1])
      [] q.circuit = "claimAsSeller" -> ClaimAsSeller(p, a[1])
      [] q.circuit = "claimAsHolder" -> ClaimAsHolder(p, a[1])

\* No assert of the circuit fails on the ledger as it is.
Succeeds(q, n) == ENABLED Circuit(q, n)

WitnessMissing(q, n) == q.circuit \in {"acknowledge", "payInvoice", "offer"} /\ n = None

Marker(q, n) == IF n = None THEN q.args[1] ELSE n

\* The entries of the ledger the transcript of a circuit reads, beside the trees.
Reads(n) == [pledge |-> pledges[n], used |-> ackNullifierOf(n) \in ackNullifiers]

-----------------------------------------------------------------------------
(* One call.                                                               *)

Begun(q) ==
    [request |-> q, at |-> "binding", given |-> None, read |-> None, outcome |-> "none",
     tx |-> "none", disturbed |-> FALSE]

Inflight(c) == calls[c].outcome = "none"
Id(c) == privateStateIdOf(calls[c].request.persona)
Change(c, r) == calls' = [calls EXCEPT ![c] = r]
Settle(c, outcome) == Change(c, [calls[c] EXCEPT !.at = "settled", !.outcome = outcome])

\* Another call of p touches the entry its waiting calls have written to.
Disturb(cs, c) ==
    [k \in DOMAIN cs |->
        IF k # c /\ cs[k].at = "written" /\ cs[k].request.persona = cs[c].request.persona
        THEN [cs[k] EXCEPT !.disturbed = TRUE] ELSE cs[k]]

\* contractFor: the first call of a persona starts the search, the others share it.
Call(q) ==
    LET id == privateStateIdOf(q.persona) IN
    /\ Len(calls) < MaxCalls
    /\ calls' = Append(calls, Begun(q))
    /\ bound' = [bound EXCEPT ![id] = IF @ = "none" THEN "finding" ELSE @]
    /\ UNCHANGED <<vars, store>>

\* findDeployedContract resolves, with the persona in its entry, or rejects; the cache keeps both.
FindEnds(id) ==
    /\ bound[id] = "finding"
    /\ \E end \in {"found", "failed"} :
        /\ bound' = [bound EXCEPT ![id] = end]
        /\ store' = IF end = "found" THEN [store EXCEPT ![id] = None] ELSE store
    /\ UNCHANGED <<vars, calls>>

\* Mutation: a call that waits is not told that the search failed.
NoHandleUntold(c) == FALSE

NoHandle(c) ==
    /\ calls[c].at = "binding" /\ bound[Id(c)] = "failed"
    /\ Settle(c, "error")
    /\ UNCHANGED <<vars, store, bound>>

\* privateStateProvider.set, awaited before the circuit is called.
Write(c) ==
    /\ calls[c].at = "binding" /\ bound[Id(c)] = "found"
    /\ store' = [store EXCEPT ![Id(c)] = calls[c].request.inputs]
    /\ calls' = Disturb([calls EXCEPT ![c].at = "written"], c)
    /\ UNCHANGED <<vars, bound>>

\* The circuit runs here on the ledger and the inputs it reads.
Run(c) ==
    LET q == calls[c].request
        n == store[Id(c)]
        ran == [calls[c] EXCEPT !.given = n] IN
    /\ calls[c].at = "written"
    /\ \/ WitnessMissing(q, n) /\ Change(c, [ran EXCEPT !.at = "settled", !.outcome = "error"])
       \/ /\ ~WitnessMissing(q, n) /\ ~Succeeds(q, n)
          /\ Change(c, [ran EXCEPT !.at = "settled", !.outcome = "refused"])
       \/ /\ ~WitnessMissing(q, n) /\ Succeeds(q, n)
          /\ Change(c, [ran EXCEPT !.at = "proved", !.tx = "out", !.read = Reads(Marker(q, n))])
    /\ UNCHANGED <<vars, store, bound>>

\* Reading, proving, balancing or submitting fails.  What went out may still be included.
CallFails(c) ==
    /\ \/ calls[c].at = "written"
       \/ calls[c].at = "proved" /\ calls[c].tx = "out"
    /\ \E tx \in IF calls[c].tx = "out" THEN {"out", "dead"} ELSE {"none"} :
        Change(c, [calls[c] EXCEPT !.at = "settled", !.outcome = "error", !.tx = tx])
    /\ UNCHANGED <<vars, store, bound>>

TxMarker(c) == Marker(calls[c].request, calls[c].given)

\* The chain replays the transcript of a transaction: it has to read what it was proved for.
Applies(c) == Reads(TxMarker(c)) = calls[c].read

Include(c) ==
    /\ calls[c].tx = "out" /\ Applies(c)
    /\ Circuit(calls[c].request, calls[c].given)
    /\ calls' = [calls EXCEPT ![c].tx = "in"]
    /\ UNCHANGED <<store, bound>>

\* A transaction that no longer applies is left out, or fails in its block.
Discard(c) ==
    /\ calls[c].tx = "out"
    /\ ~Applies(c) \/ ~Succeeds(calls[c].request, calls[c].given)
    /\ Change(c, [calls[c] EXCEPT !.tx = "dead", !.at = "settled",
                                  !.outcome = IF @ = "none" THEN "error" ELSE @])
    /\ UNCHANGED <<vars, store, bound>>

\* The receipt arrives and the private state the circuit left is written back, or it is lost.
Return(c) ==
    /\ calls[c].tx = "in" /\ Inflight(c)
    /\ \/ /\ store' = [store EXCEPT ![Id(c)] = calls[c].given]
          /\ calls' = Disturb([calls EXCEPT ![c].at = "settled", ![c].outcome = "receipt"], c)
       \/ Settle(c, "error") /\ UNCHANGED store
    /\ UNCHANGED <<vars, bound>>

Advance(c) == NoHandle(c) \/ Write(c) \/ Run(c) \/ CallFails(c) \/ Include(c) \/ Discard(c) \/ Return(c)

-----------------------------------------------------------------------------

CallsInit ==
    /\ \E b \in Beginnings :
        /\ acks = b.acked /\ ackNullifiers = {ackNullifierOf(n) : n \in b.acked}
        /\ pledges = [n \in Invoices |->
                        IF n \in DOMAIN b.offered THEN Offered(b.offered[n], n.due, b.record[n])
                        ELSE Absent]
        /\ records = [r \in RecordIds |->
                        IF \E n \in DOMAIN b.offered : b.record[n] = r
                        THEN b.offered[r[1]] ELSE None]
    /\ debtors = Debtors /\ financiers = Financiers
    /\ certificates = [c \in CertIds |-> None]
    /\ now = 0
    /\ received = [n \in Invoices |-> 0] /\ sent = [n \in Invoices |-> 0]
    /\ lender = [n \in Invoices |-> None] /\ payee = [n \in Invoices |-> None]
    /\ calls = <<>>
    /\ store = [id \in Ids |-> None]
    /\ bound = [id \in Ids |-> "none"]

CallsNext ==
    \/ \E q \in Requests : Call(q)
    \/ \E id \in Ids : FindEnds(id)
    \/ \E c \in CallIds : Advance(c)
    \/ Tick /\ UNCHANGED <<calls, store, bound>>

CallsSpec == CallsInit /\ [][CallsNext]_callVars

\* Every await ends: the services a call waits for answer or fail.
FairCallsSpec ==
    /\ CallsSpec
    /\ \A id \in Ids : WF_callVars(FindEnds(id))
    /\ \A c \in 1..MaxCalls : WF_callVars(c \in CallIds /\ Advance(c))

-----------------------------------------------------------------------------
(* Properties.                                                             *)

\* network.ts 299-301: a circuit runs with the inputs of its own call unless another call of that
\* very persona wrote to the entry in between; no other persona's call ever comes in its way.
OnlyOwnCallsInterfere ==
    \A c \in CallIds :
        (calls[c].tx # "none" \/ calls[c].outcome = "refused") /\ ~calls[c].disturbed
            => calls[c].given = calls[c].request.inputs

\* A receipt means the call's own transaction is on the ledger, and a refusal that it never will
\* be; an error tells nothing.  Every call ends in one of them, on a failed search as well
\* (network.ts 291-314, 352-363).
EveryCallEnds ==
    \A c \in 1..MaxCalls :
        c \in CallIds ~> c \in CallIds /\ \/ calls[c].outcome = "receipt" /\ calls[c].tx = "in"
                                          \/ calls[c].outcome = "refused" /\ calls[c].tx = "none"
                                          \/ calls[c].outcome = "error"

=============================================================================
