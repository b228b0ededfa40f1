---------------------------- MODULE ClientsProofs ----------------------------
(***************************************************************************)
(* Theorems about the clients of a registry: Calls, for any personas, any  *)
(* requests, any registry and any number of calls; Federation and          *)
(* FederationReaders, for any parties, any receivables, any lenders at     *)
(* either registry and any bound on the time; Lifecycle and Verification,  *)
(* for any figures LifecycleAssumption allows, any registry the run finds  *)
(* empty and any number of visits.                                         *)
(***************************************************************************)
EXTENDS Calls, FederationReaders, Verification, RegistryProofs, SequenceTheorems, WellFoundedInduction

\* What is proved of a registry, for the peer's ledger.
PeerProofs == INSTANCE RegistryProofs WITH
    Operator <- PeerOperator, debtors <- peerDebtors, financiers <- peerFinanciers,
    acks <- peerAcks, ackNullifiers <- peerAckNullifiers, pledges <- peerPledges,
    records <- peerRecords, certificates <- peerCertificates, received <- peerReceived,
    sent <- peerSent, lender <- peerLender, payee <- peerPayee

-----------------------------------------------------------------------------
(* Calls.  The inductive invariant: what is true of one call, and of the   *)
(* entry of the store it has written to.                                   *)

\* A call record is what Begun makes, whatever its fields are set to.
Whole(r) ==
    r \in [request : Requests, at : {r.at}, given : {r.given}, read : {r.read},
           outcome : {r.outcome}, tx : {r.tx}, disturbed : BOOLEAN]

\* The calls are a sequence, and every persona has one entry in the store and one handle.
Shape ==
    /\ \E S : calls \in Seq(S)
    /\ \A c \in CallIds : Whole(calls[c])
    /\ DOMAIN store = Ids /\ DOMAIN bound = Ids

\* A call between its write and its circuit has a handle and nothing out, and its entry holds
\* its inputs unless its own persona wrote again.
EntryHeld(c) ==
    calls[c].at = "written" =>
        /\ bound[Id(c)] = "found" /\ calls[c].tx = "none" /\ calls[c].outcome = "none"
        /\ ~calls[c].disturbed => store[Id(c)] = calls[c].request.inputs

\* What was proved, or refused, was given the inputs of the call.
OwnInputs(c) ==
    (calls[c].tx # "none" \/ calls[c].outcome = "refused") /\ ~calls[c].disturbed
        => calls[c].given = calls[c].request.inputs

\* The caller is told the truth of its transaction.
ToldTruly(c) ==
    /\ calls[c].at = "binding" => calls[c].tx = "none" /\ calls[c].outcome = "none"
    /\ calls[c].outcome = "receipt" => calls[c].tx = "in"
    /\ calls[c].outcome = "refused" => calls[c].tx = "none"

CallsInv == Shape /\ \A c \in CallIds : EntryHeld(c) /\ OwnInputs(c) /\ ToldTruly(c)

\* A receipt is of a transaction on the ledger, and a refusal of none.
OutcomesAreTrue == \A c \in CallIds : ToldTruly(c)

-----------------------------------------------------------------------------

LEMMA PersonasHaveEntries == \A q \in Requests : privateStateIdOf(q.persona) \in Ids
  BY CallsAssumption DEF CallsAssumption, privateStateIdOf, Ids

\* The calls of a step that changes one of them.
LEMMA OneCallChanges ==
    ASSUME Shape, NEW c \in CallIds, NEW r, calls' = [calls EXCEPT ![c] = r]
    PROVE  /\ \E S : calls' \in Seq(S)
           /\ CallIds' = CallIds /\ calls'[c] = r /\ \A k \in CallIds \ {c} : calls'[k] = calls[k]
  <1>1. PICK S : calls \in Seq(S)
    BY DEF Shape
  <1>2. calls \in Seq(S \cup {r})
    BY <1>1
  <1>3. calls' \in Seq(S \cup {r}) /\ Len(calls') = Len(calls)
    BY <1>2, ExceptSeq DEF CallIds
  <1> QED BY <1>1, <1>3 DEF CallIds

\* The calls of a step that changes one of them and touches its persona's entry.
LEMMA OneCallDisturbs ==
    ASSUME Shape, NEW c \in CallIds, NEW r, Whole(r), r.request = calls[c].request,
           calls' = Disturb([calls EXCEPT ![c] = r], c)
    PROVE  /\ \E S : calls' \in Seq(S)
           /\ CallIds' = CallIds /\ calls'[c] = r
           /\ \A k \in CallIds \ {c} :
                calls'[k] = IF calls[k].at = "written"
                               /\ calls[k].request.persona = calls[c].request.persona
                            THEN [calls[k] EXCEPT !.disturbed = TRUE] ELSE calls[k]
  <1>1. PICK S : calls \in Seq(S)
    BY DEF Shape
  <1> DEFINE cs == [calls EXCEPT ![c] = r]
             f(k) == IF k # c /\ cs[k].at = "written" /\ cs[k].request.persona = cs[c].request.persona
                     THEN [cs[k] EXCEPT !.disturbed = TRUE] ELSE cs[k]
             T == {f(k) : k \in 1..Len(calls)}
  <1>2. DOMAIN cs = 1..Len(calls) /\ cs[c] = r /\ Len(calls) \in Nat
        /\ \A k \in CallIds \ {c} : cs[k] = calls[k]
    BY <1>1 DEF CallIds
  <1>3. calls' = [k \in 1..Len(calls) |-> f(k)]
    BY <1>2 DEF Disturb
  <1>4. calls' \in [1..Len(calls) -> T]
    BY <1>3
  <1>5. calls' \in Seq(T) /\ Len(calls') = Len(calls)
    <2> HIDE DEF T
    <2>1. calls' \in Seq(T)
      BY <1>2, <1>4, SeqDef
    <2>2. DOMAIN calls' = 1..Len(calls)
      BY <1>4
    <2> QED BY <1>2, <2>1, <2>2, LenProperties
  <1>6. calls'[c] = r
    BY <1>2, <1>3 DEF CallIds
  <1>7. \A k \in CallIds \ {c} : calls'[k] = f(k)
    BY <1>3 DEF CallIds
  <1> QED BY <1>2, <1>5, <1>6, <1>7 DEF CallIds

\* A call record whose fields are set is still one.
LEMMA WholeFields ==
    ASSUME NEW r, Whole(r)
    PROVE  /\ Whole([r EXCEPT !.at = "written"])
           /\ \A outcome : Whole([r EXCEPT !.at = "settled", !.outcome = outcome])
           /\ Whole([r EXCEPT !.disturbed = TRUE])
  BY DEF Whole

-----------------------------------------------------------------------------
(* The steps.                                                              *)

LEMMA CallsInitInv == CallsInit => CallsInv
  BY EmptySeq DEF CallsInit, CallsInv, Shape, CallIds

\* The calls a step leaves alone stay as they were, if their entries do.
LEMMA UntouchedCall ==
    ASSUME NEW k, EntryHeld(k), OwnInputs(k), ToldTruly(k), calls'[k] = calls[k],
           calls[k].at = "written" => store'[Id(k)] = store[Id(k)],
           bound[Id(k)] = "found" => bound'[Id(k)] = "found"
    PROVE  (EntryHeld(k) /\ OwnInputs(k) /\ ToldTruly(k))'
  BY DEF EntryHeld, OwnInputs, ToldTruly, Id, privateStateIdOf

\* The same of those that are told of a write to their entry.
LEMMA DisturbedCall ==
    ASSUME NEW k, Whole(calls[k]), EntryHeld(k), OwnInputs(k), ToldTruly(k),
           calls'[k] = [calls[k] EXCEPT !.disturbed = TRUE], bound' = bound
    PROVE  (EntryHeld(k) /\ OwnInputs(k) /\ ToldTruly(k))' /\ Whole(calls[k])'
  <1> DEFINE r == calls[k]
  <1>1. /\ calls'[k].request = r.request /\ calls'[k].at = r.at /\ calls'[k].given = r.given
        /\ calls'[k].outcome = r.outcome /\ calls'[k].tx = r.tx /\ calls'[k].disturbed
    BY DEF Whole
  <1>2. Whole(calls'[k])
    BY WholeFields
  <1> QED BY <1>1, <1>2 DEF EntryHeld, OwnInputs, ToldTruly, Id, privateStateIdOf, Whole

LEMMA CallsInvStep == CallsInv /\ [CallsNext]_callVars => CallsInv'
  <1> SUFFICES ASSUME CallsInv, [CallsNext]_callVars PROVE CallsInv'
    OBVIOUS
  <1>1. Shape /\ \A c \in CallIds : EntryHeld(c) /\ OwnInputs(c) /\ ToldTruly(c) /\ Whole(calls[c])
    BY DEF CallsInv, Shape
  <1>2. ASSUME NEW c \in CallIds, NEW r, Whole(r), calls' = [calls EXCEPT ![c] = r],
               UNCHANGED <<store, bound>>,
               calls'[c] = r => (EntryHeld(c) /\ OwnInputs(c) /\ ToldTruly(c))'
        PROVE  CallsInv'
    <2>1. /\ \E S : calls' \in Seq(S)
          /\ CallIds' = CallIds /\ calls'[c] = r /\ \A k \in CallIds \ {c} : calls'[k] = calls[k]
      BY <1>1, <1>2, OneCallChanges
    <2>2. ASSUME NEW k \in CallIds \ {c}
          PROVE  (EntryHeld(k) /\ OwnInputs(k) /\ ToldTruly(k))' /\ Whole(calls[k])'
      BY <1>1, <1>2, <2>1, UntouchedCall DEF Whole
    <2>3. Shape'
      BY <1>1, <1>2, <2>1, <2>2 DEF Shape, Whole
    <2> QED BY <1>2, <2>1, <2>2, <2>3 DEF CallsInv
  \* The entry of c's persona is written to.
  <1>3. ASSUME NEW c \in CallIds, NEW r, Whole(r), r.request = calls[c].request,
               calls' = Disturb([calls EXCEPT ![c] = r], c),
               NEW n, store' = [store EXCEPT ![Id(c)] = n], bound' = bound,
               calls'[c] = r /\ store'[Id(c)] = n
                => (EntryHeld(c) /\ OwnInputs(c) /\ ToldTruly(c))'
        PROVE  CallsInv'
    <2>1. /\ \E S : calls' \in Seq(S)
          /\ CallIds' = CallIds /\ calls'[c] = r
          /\ \A k \in CallIds \ {c} :
               calls'[k] = IF calls[k].at = "written"
                              /\ calls[k].request.persona = calls[c].request.persona
                           THEN [calls[k] EXCEPT !.disturbed = TRUE] ELSE calls[k]
      BY <1>1, <1>3, OneCallDisturbs
    <2>2. Id(c) \in Ids /\ store'[Id(c)] = n /\ DOMAIN store' = Ids
      BY <1>1, <1>3, PersonasHaveEntries DEF Shape, Whole, Id
    <2>3. ASSUME NEW k \in CallIds \ {c}
          PROVE  (EntryHeld(k) /\ OwnInputs(k) /\ ToldTruly(k))' /\ Whole(calls[k])'
      <3>1. CASE calls[k].at = "written" /\ calls[k].request.persona = calls[c].request.persona
        BY <1>1, <1>3, <2>1, <3>1, DisturbedCall
      <3>2. CASE ~(calls[k].at = "written" /\ calls[k].request.persona = calls[c].request.persona)
        <4>1. calls[k].at = "written" => store'[Id(k)] = store[Id(k)]
          BY <1>1, <1>3, <3>2 DEF Id, privateStateIdOf, Shape
        <4>2. calls'[k] = calls[k]
          BY <2>1, <3>2
        <4> QED BY <1>1, <1>3, <4>1, <4>2, UntouchedCall DEF Whole
      <3> QED BY <3>1, <3>2
    <2>4. Shape'
      BY <1>1, <1>3, <2>1, <2>2, <2>3 DEF Shape, Whole
    <2> QED BY <1>3, <2>1, <2>2, <2>3, <2>4 DEF CallsInv
  \* No call changes, and an entry changes only as its persona's handle is found.
  <1>4. ASSUME calls' = calls, DOMAIN store' = Ids, DOMAIN bound' = Ids,
               \A id \in Ids : bound[id] = "found" => bound'[id] = "found" /\ store'[id] = store[id]
        PROVE  CallsInv'
    <2>1. ASSUME NEW k \in CallIds
          PROVE  (EntryHeld(k) /\ OwnInputs(k) /\ ToldTruly(k))' /\ Whole(calls[k])'
      <3>1. Id(k) \in Ids
        BY <1>1, PersonasHaveEntries DEF Whole, Id
      <3> QED BY <1>1, <1>4, <3>1 DEF EntryHeld, OwnInputs, ToldTruly, Id, privateStateIdOf, Whole
    <2>2. Shape'
      BY <1>1, <1>4, <2>1 DEF Shape, CallIds, Whole
    <2> QED BY <1>4, <2>1, <2>2 DEF CallsInv, CallIds
  <1>5. ASSUME NEW q \in Requests, Call(q) PROVE CallsInv'
    <2>1. PICK S : calls \in Seq(S)
      BY <1>1 DEF Shape
    <2>2. /\ calls' \in Seq(S \cup {Begun(q)}) /\ CallIds' = CallIds \cup {Len(calls) + 1}
          /\ calls'[Len(calls) + 1] = Begun(q) /\ \A k \in CallIds : calls'[k] = calls[k]
      <3>1. calls \in Seq(S \cup {Begun(q)})
        BY <2>1
      <3> QED BY <1>5, <2>1, <3>1, AppendProperties DEF Call, CallIds
    <2>3. /\ store' = store /\ DOMAIN bound' = Ids
          /\ \A id \in Ids : bound[id] = "found" => bound'[id] = "found"
      BY <1>1, <1>5 DEF Call, Shape
    <2>4. ASSUME NEW k \in CallIds
          PROVE  (EntryHeld(k) /\ OwnInputs(k) /\ ToldTruly(k))' /\ Whole(calls[k])'
      <3>1. Id(k) \in Ids
        BY <1>1, PersonasHaveEntries DEF Whole, Id
      <3> QED BY <1>1, <2>2, <2>3, <3>1, UntouchedCall DEF Whole
    <2>5. ASSUME NEW k, calls'[k] = Begun(q)
          PROVE  (EntryHeld(k) /\ OwnInputs(k) /\ ToldTruly(k))' /\ Whole(calls[k])'
      BY <2>5 DEF EntryHeld, OwnInputs, ToldTruly, Begun, Whole
    <2>6. Shape'
      BY <1>1, <2>2, <2>3, <2>4, <2>5 DEF Shape, Whole
    <2> QED BY <2>2, <2>4, <2>5, <2>6 DEF CallsInv
  <1>6. ASSUME NEW id \in Ids, FindEnds(id) PROVE CallsInv'
    <2>1. bound[id] = "finding" /\ calls' = calls /\ DOMAIN store' = Ids /\ DOMAIN bound' = Ids
      BY <1>1, <1>6 DEF FindEnds, Shape
    <2>2. \A k \in Ids \ {id} : bound'[k] = bound[k] /\ store'[k] = store[k]
      BY <1>1, <1>6 DEF FindEnds, Shape
    <2> QED BY <1>4, <2>1, <2>2
  <1>7. ASSUME NEW c \in CallIds, NoHandle(c) PROVE CallsInv'
    <2> DEFINE r == [calls[c] EXCEPT !.at = "settled", !.outcome = "error"]
    <2>1. calls[c].at = "binding" /\ calls' = [calls EXCEPT ![c] = r] /\ UNCHANGED <<store, bound>>
      BY <1>7 DEF NoHandle, Settle, Change
    <2>2. Whole(r)
      BY <1>1, WholeFields
    <2>3. /\ r.at = "settled" /\ r.outcome = "error" /\ r.tx = calls[c].tx
          /\ r.given = calls[c].given /\ r.request = calls[c].request
          /\ r.disturbed = calls[c].disturbed
      BY <1>1 DEF Whole
    <2> HIDE DEF r
    <2>4. calls'[c] = r => (EntryHeld(c) /\ OwnInputs(c) /\ ToldTruly(c))'
      BY <1>1, <2>3 DEF EntryHeld, OwnInputs, ToldTruly
    <2> QED BY <1>2, <2>1, <2>2, <2>4
  <1>8. ASSUME NEW c \in CallIds, Write(c) PROVE CallsInv'
    <2> DEFINE r == [calls[c] EXCEPT !.at = "written"]
    <2>1. /\ calls[c].at = "binding" /\ bound[Id(c)] = "found" /\ bound' = bound
          /\ store' = [store EXCEPT ![Id(c)] = calls[c].request.inputs]
          /\ calls' = Disturb([calls EXCEPT ![c] = r], c)
      BY <1>8 DEF Write
    <2>2. Whole(r)
      BY <1>1, WholeFields
    <2>3. /\ r.at = "written" /\ r.outcome = calls[c].outcome /\ r.tx = calls[c].tx
          /\ r.given = calls[c].given /\ r.request = calls[c].request
          /\ r.disturbed = calls[c].disturbed
      BY <1>1 DEF Whole
    <2> HIDE DEF r
    <2>4. calls'[c] = r /\ store'[Id(c)] = calls[c].request.inputs
            => (EntryHeld(c) /\ OwnInputs(c) /\ ToldTruly(c))'
      BY <1>1, <2>1, <2>3 DEF EntryHeld, OwnInputs, ToldTruly, Id, privateStateIdOf
    <2> QED BY <1>3, <2>1, <2>2, <2>3, <2>4
  <1>9. ASSUME NEW c \in CallIds, Run(c) PROVE CallsInv'
    <2> DEFINE n == store[Id(c)]
               ran == [calls[c] EXCEPT !.given = n]
    <2>1. PICK r : /\ calls' = [calls EXCEPT ![c] = r]
                   /\ \/ r = [ran EXCEPT !.at = "settled", !.outcome = "error"]
                      \/ r = [ran EXCEPT !.at = "settled", !.outcome = "refused"]
                      \/ r = [ran EXCEPT !.at = "proved", !.tx = "out",
                                        !.read = Reads(Marker(calls[c].request, n))]
      BY <1>9 DEF Run, Change
    <2>2. calls[c].at = "written" /\ UNCHANGED <<store, bound>>
      BY <1>9 DEF Run
    <2>3. /\ Whole(r) /\ r.request = calls[c].request /\ r.given = n
          /\ r.disturbed = calls[c].disturbed
          /\ \/ r.at = "settled" /\ r.outcome \in {"error", "refused"} /\ r.tx = calls[c].tx
             \/ r.at = "proved" /\ r.outcome = calls[c].outcome /\ r.tx = "out"
      BY <1>1, <2>1 DEF Whole
    <2> HIDE DEF n
    <2>4. calls'[c] = r => (EntryHeld(c) /\ OwnInputs(c) /\ ToldTruly(c))'
      BY <1>1, <2>2, <2>3 DEF EntryHeld, OwnInputs, ToldTruly, n
    <2> QED BY <1>2, <2>1, <2>2, <2>3, <2>4
  <1>10. ASSUME NEW c \in CallIds, CallFails(c) PROVE CallsInv'
    <2>1. PICK tx : /\ tx = calls[c].tx \/ (calls[c].tx = "out" /\ tx = "dead")
                         \/ (calls[c].at = "written" /\ tx = "none")
                    /\ calls' = [calls EXCEPT ![c] =
                                    [calls[c] EXCEPT !.at = "settled", !.outcome = "error", !.tx = tx]]
      BY <1>10 DEF CallFails, Change
    <2> DEFINE r == [calls[c] EXCEPT !.at = "settled", !.outcome = "error", !.tx = tx]
    <2>2. UNCHANGED <<store, bound>>
      BY <1>10 DEF CallFails
    <2>3. /\ Whole(r) /\ r.request = calls[c].request /\ r.given = calls[c].given
          /\ r.disturbed = calls[c].disturbed
          /\ r.at = "settled" /\ r.outcome = "error" /\ r.tx = tx
      BY <1>1 DEF Whole
    <2>4. calls' = [calls EXCEPT ![c] = r]
      BY <2>1
    <2> HIDE DEF r
    <2>5. calls'[c] = r => (EntryHeld(c) /\ OwnInputs(c) /\ ToldTruly(c))'
      BY <1>1, <2>1, <2>3 DEF EntryHeld, OwnInputs, ToldTruly
    <2> QED BY <1>2, <2>2, <2>3, <2>4, <2>5
  <1>11. ASSUME NEW c \in CallIds, Include(c) PROVE CallsInv'
    <2> DEFINE r == [calls[c] EXCEPT !.tx = "in"]
    <2>1. calls[c].tx = "out" /\ calls' = [calls EXCEPT ![c] = r] /\ UNCHANGED <<store, bound>>
      BY <1>11 DEF Include
    <2>2. /\ Whole(r) /\ r.request = calls[c].request /\ r.given = calls[c].given
          /\ r.disturbed = calls[c].disturbed
          /\ r.at = calls[c].at /\ r.outcome = calls[c].outcome /\ r.tx = "in"
      BY <1>1 DEF Whole
    <2> HIDE DEF r
    <2>3. calls'[c] = r => (EntryHeld(c) /\ OwnInputs(c) /\ ToldTruly(c))'
      BY <1>1, <2>1, <2>2 DEF EntryHeld, OwnInputs, ToldTruly
    <2> QED BY <1>2, <2>1, <2>2, <2>3
  <1>12. ASSUME NEW c \in CallIds, Discard(c) PROVE CallsInv'
    <2> DEFINE r == [calls[c] EXCEPT !.tx = "dead", !.at = "settled",
                                     !.outcome = IF @ = "none" THEN "error" ELSE @]
    <2>1. calls[c].tx = "out" /\ calls' = [calls EXCEPT ![c] = r] /\ UNCHANGED <<store, bound>>
      BY <1>12 DEF Discard, Change
    <2>2. /\ Whole(r) /\ r.request = calls[c].request /\ r.given = calls[c].given
          /\ r.disturbed = calls[c].disturbed
          /\ r.at = "settled" /\ r.outcome \in {"error", calls[c].outcome} /\ r.tx = "dead"
      BY <1>1 DEF Whole
    <2> HIDE DEF r
    <2>3. calls'[c] = r => (EntryHeld(c) /\ OwnInputs(c) /\ ToldTruly(c))'
      BY <1>1, <2>1, <2>2 DEF EntryHeld, OwnInputs, ToldTruly
    <2> QED BY <1>2, <2>1, <2>2, <2>3
  <1>13. ASSUME NEW c \in CallIds, Return(c) PROVE CallsInv'
    <2>1. calls[c].tx = "in" /\ bound' = bound
      BY <1>13 DEF Return
    <2>2. CASE /\ store' = [store EXCEPT ![Id(c)] = calls[c].given]
               /\ calls' = Disturb([calls EXCEPT ![c].at = "settled", ![c].outcome = "receipt"], c)
      <3> DEFINE r == [calls[c] EXCEPT !.at = "settled", !.outcome = "receipt"]
      <3>1. [calls EXCEPT ![c].at = "settled", ![c].outcome = "receipt"] = [calls EXCEPT ![c] = r]
        <4>1. PICK S : calls \in Seq(S)
          BY <1>1 DEF Shape
        <4> QED BY <4>1 DEF CallIds
      <3>2. /\ Whole(r) /\ r.request = calls[c].request /\ r.given = calls[c].given
            /\ r.disturbed = calls[c].disturbed
            /\ r.at = "settled" /\ r.outcome = "receipt" /\ r.tx = calls[c].tx
        BY <1>1 DEF Whole
      <3>3. calls' = Disturb([calls EXCEPT ![c] = r], c)
        BY <2>2, <3>1
      <3> HIDE DEF r
      <3>4. calls'[c] = r => (EntryHeld(c) /\ OwnInputs(c) /\ ToldTruly(c))'
        BY <1>1, <2>1, <3>2 DEF EntryHeld, OwnInputs, ToldTruly
      <3> QED BY <1>3, <2>1, <2>2, <3>2, <3>3, <3>4
    <2>3. CASE Settle(c, "error") /\ UNCHANGED store
      <3> DEFINE r == [calls[c] EXCEPT !.at = "settled", !.outcome = "error"]
      <3>1. calls' = [calls EXCEPT ![c] = r]
        BY <2>3 DEF Settle, Change
      <3>2. /\ Whole(r) /\ r.request = calls[c].request /\ r.given = calls[c].given
            /\ r.disturbed = calls[c].disturbed
            /\ r.at = "settled" /\ r.outcome = "error" /\ r.tx = calls[c].tx
        BY <1>1 DEF Whole
      <3> HIDE DEF r
      <3>3. calls'[c] = r => (EntryHeld(c) /\ OwnInputs(c) /\ ToldTruly(c))'
        BY <1>1, <2>1, <3>2 DEF EntryHeld, OwnInputs, ToldTruly
      <3> QED BY <1>2, <2>1, <2>3, <3>1, <3>2, <3>3
    <2> QED BY <1>13, <2>2, <2>3 DEF Return
  <1>14. CASE UNCHANGED <<calls, store, bound>>
    BY <1>1, <1>4, <1>14 DEF Shape
  <1> QED
    BY <1>5, <1>6, <1>7, <1>8, <1>9, <1>10, <1>11, <1>12, <1>13, <1>14
    DEF CallsNext, Advance, callVars

LEMMA CallsInvariant == CallsSpec => []CallsInv
  BY CallsInitInv, CallsInvStep, PTL DEF CallsSpec

\* Whatever the personas call at the same time, what a circuit is given is what its own call
\* brought, unless another call of that very persona wrote to the entry in between
\* (network.ts 299-301).
THEOREM CallsKeepApart == CallsSpec => []OnlyOwnCallsInterfere
  <1>1. CallsInv => OnlyOwnCallsInterfere
    BY DEF CallsInv, OwnInputs, OnlyOwnCallsInterfere
  <1> QED BY <1>1, CallsInvariant, PTL

\* A receipt is returned only for a transaction that is on the ledger, and a refusal only when
\* nothing went out: of the three endings, only the error leaves the caller in doubt.
THEOREM ReceiptsAndRefusalsAreTrue == CallsSpec => []OutcomesAreTrue
  <1>1. CallsInv => OutcomesAreTrue
    BY DEF CallsInv, OutcomesAreTrue
  <1> QED BY <1>1, CallsInvariant, PTL

-----------------------------------------------------------------------------
(* The two ledgers.                                                        *)

LEMMA PeerAssumption == PeerProofs!RegistryAssumption
  <1>1. PeerProofs!Invoice = Invoice /\ PeerProofs!Tags = Tags
    BY DEF PeerProofs!Invoice, Invoice, PeerProofs!Tags, Tags, PeerProofs!holderTagOf, holderTagOf,
           PeerProofs!sellerPayeeTagOf, sellerPayeeTagOf, PeerProofs!ZeroTag, ZeroTag
  <1> QED
    BY <1>1, RegistryAssumption, FederationAssumption
    DEF RegistryAssumption, FederationAssumption, PeerProofs!RegistryAssumption

\* Both instances are of one module: their steps are the same.
LEMMA PeerNext == Peer!Next => PeerProofs!Next
  BY DEF Peer!Next, PeerProofs!Next, Peer!Callers, PeerProofs!Callers, Peer!Pools, PeerProofs!Pools,
    Peer!Times, PeerProofs!Times, Peer!OfferTags, PeerProofs!OfferTags,
    Peer!AdmitDebtor, PeerProofs!AdmitDebtor, Peer!AdmitFinancier, PeerProofs!AdmitFinancier,
    Peer!Acknowledge, PeerProofs!Acknowledge, Peer!PayInvoice, PeerProofs!PayInvoice,
    Peer!Offer, PeerProofs!Offer, Peer!Accept, PeerProofs!Accept, Peer!AcceptBatch, PeerProofs!AcceptBatch,
    Peer!TakeOffers, PeerProofs!TakeOffers, Peer!Release, PeerProofs!Release,
    Peer!CertifyBorrowingBase, PeerProofs!CertifyBorrowingBase, Peer!Claim, PeerProofs!Claim,
    Peer!ClaimAsSeller, PeerProofs!ClaimAsSeller, Peer!ClaimAsHolder, PeerProofs!ClaimAsHolder,
    Peer!Tick, PeerProofs!Tick, Peer!FreshNumber, PeerProofs!FreshNumber, 
    Peer!Free, PeerProofs!Free, Peer!Offerable, PeerProofs!Offerable, Peer!Takable, PeerProofs!Takable,
    Peer!Distinct, PeerProofs!Distinct, Peer!Elements, PeerProofs!Elements,
    Peer!CheckSlot, PeerProofs!CheckSlot, Peer!PoolTotal, PeerProofs!PoolTotal,
    Peer!SlotAmount, PeerProofs!SlotAmount, Peer!LockSlots, PeerProofs!LockSlots,
    Peer!SealRecord, PeerProofs!SealRecord, Peer!Claimable, PeerProofs!Claimable,
    Peer!PayeeTag, PeerProofs!PayeeTag, Peer!RecordIds, PeerProofs!RecordIds, 
    Peer!Offered, PeerProofs!Offered, Peer!Absent, PeerProofs!Absent, Peer!ZeroTag, PeerProofs!ZeroTag,
    Peer!holderTagOf, PeerProofs!holderTagOf, Peer!sellerPayeeTagOf, PeerProofs!sellerPayeeTagOf,
    Peer!ackNullifierOf, PeerProofs!ackNullifierOf, Peer!membership, PeerProofs!membership,
    Peer!acknowledgments, PeerProofs!acknowledgments, Peer!treasury, PeerProofs!treasury

Typed == TypeOK /\ PeerProofs!TypeOK

\* What a step of either ledger does to the receivable: it moves in one ledger at most, not while
\* a block passes, and is taken up by a lender that banks there, was offered it, and is cleared.
LEMMA LedgerStep ==
    ASSUME Typed, HomeStep \/ PeerStep, MembersStay, Policed
    PROVE  /\ Typed'
           /\ now' = now \/ (now' = now + 1 /\ pledges' = pledges /\ peerPledges' = peerPledges)
           /\ pledges' = pledges \/ peerPledges' = peerPledges
           /\ \A r \in Registries :
                pledgeIn(r, subject)'.status = "PLEDGED" /\ pledgeIn(r, subject).status # "PLEDGED"
                    => \E l \in Financiers : Branch[l] = r /\ OfferedTo(l) /\ Cleared(l)
  <1>1. subject \in Invoices
    BY FederationAssumption DEF FederationAssumption
  <1>2. CASE HomeStep
    <2>1. /\ TypeOK'
          /\ now' = now \/ (now' = now + 1 /\ pledges' = pledges)
          /\ pledges[subject].status # "PLEDGED" /\ pledges'[subject].status = "PLEDGED" =>
               \E f \in Financiers :
                    Takable(f, subject) /\ pledges'[subject].holderTag = holderTagOf(f, subject)
      BY <1>1, <1>2, PledgeMoves DEF Typed, HomeStep
    <2>2. UNCHANGED peerLedger
      BY <1>2 DEF HomeStep
    <2>3. PeerProofs!TypeOK'
      BY <2>1, <2>2 DEF Typed, TypeOK, peerLedger, PeerProofs!TypeOK, PeerProofs!Times, Times
    <2>4. peerPledges' = peerPledges
      BY <2>2 DEF peerLedger
    <2>5. ASSUME NEW r \in Registries, pledgeIn(r, subject)'.status = "PLEDGED",
                 pledgeIn(r, subject).status # "PLEDGED"
          PROVE  \E l \in Financiers : Branch[l] = r /\ OfferedTo(l) /\ Cleared(l)
      <3>1. r = "home"
        BY <2>4, <2>5 DEF Registries, pledgeIn
      <3>2. PICK f \in Financiers :
              Takable(f, subject) /\ pledges'[subject].holderTag = holderTagOf(f, subject)
        BY <2>1, <2>5, <3>1 DEF pledgeIn
      <3>3. Branch[f] = "home"
        BY <3>2 DEF MembersStay, pledgeIn, Registries
      <3>4. OfferedTo(f)
        BY <3>2, <3>3 DEF OfferedTo, Takable, pledgeIn
      <3>5. Cleared(f)
        BY <2>5, <3>1, <3>3, <3>4 DEF Policed
      <3> QED BY <3>1, <3>3, <3>4, <3>5
    <2> QED BY <2>1, <2>3, <2>4, <2>5 DEF Typed
  <1>3. CASE PeerStep
    <2>1. PeerProofs!Next
      BY <1>3, PeerNext DEF PeerStep
    <2>2. /\ PeerProofs!TypeOK'
          /\ now' = now \/ (now' = now + 1 /\ peerPledges' = peerPledges)
          /\ peerPledges[subject].status # "PLEDGED" /\ peerPledges'[subject].status = "PLEDGED" =>
               \E f \in Financiers :
                    /\ PeerProofs!Takable(f, subject)
                    /\ peerPledges'[subject].holderTag = PeerProofs!holderTagOf(f, subject)
      BY <1>1, <2>1, PeerAssumption, PeerProofs!PledgeMoves DEF Typed
    <2>3. UNCHANGED homeLedger
      BY <1>3 DEF PeerStep
    <2>4. TypeOK'
      BY <2>2, <2>3 DEF Typed, TypeOK, PeerProofs!TypeOK, PeerProofs!Times, Times, homeLedger,
                        membership, acknowledgments, treasury
    <2>5. pledges' = pledges
      BY <2>3 DEF homeLedger
    <2>6. ASSUME NEW r \in Registries, pledgeIn(r, subject)'.status = "PLEDGED",
                 pledgeIn(r, subject).status # "PLEDGED"
          PROVE  \E l \in Financiers : Branch[l] = r /\ OfferedTo(l) /\ Cleared(l)
      <3>1. r = "peer"
        BY <2>5, <2>6 DEF Registries, pledgeIn
      <3>2. PICK f \in Financiers :
              /\ PeerProofs!Takable(f, subject)
              /\ peerPledges'[subject].holderTag = PeerProofs!holderTagOf(f, subject)
        BY <2>2, <2>6, <3>1 DEF pledgeIn
      <3>3. Branch[f] = "peer"
        BY <3>2 DEF MembersStay, pledgeIn, Registries, PeerProofs!holderTagOf, holderTagOf
      <3>4. OfferedTo(f)
        BY <3>2, <3>3 DEF OfferedTo, PeerProofs!Takable, pledgeIn, PeerProofs!holderTagOf, holderTagOf
      <3>5. Cleared(f)
        BY <2>6, <3>1, <3>3, <3>4 DEF Policed
      <3> QED BY <3>1, <3>3, <3>4, <3>5
    <2> QED BY <2>2, <2>4, <2>5, <2>6 DEF Typed
  <1> QED BY <1>2, <1>3

-----------------------------------------------------------------------------
(* The question.  Neither lender of a receivable offered twice can have    *)
(* both: an offer that stands and the other book free.                     *)

\* A registry's answer: one half of it at most, and a time no later than the chain's.
Halves ==
    [view : Views \cup {None}, clock : Times \cup {None}, said : Said \cup {None}]

AsksTyped ==
    /\ ask \in [Financiers -> [about : {None, subject}, of : [Registries -> Halves]]]
    /\ \A l \in Financiers, r \in Registries :
        LET a == ask[l].of[r] IN
        /\ a.view = None \/ a.clock = None
        /\ a.clock # None => a.clock <= now

\* The lender heard that r is free, or will conclude so at the present time.
SaysFree(l, r) ==
    /\ ask[l].about # None
    /\ \/ ask[l].of[r].said = "FREE"
       \/ ask[l].of[r].view # None /\ encumbranceOf(ask[l].of[r].view, now) = "FREE"

\* Nobody holds the receivable in r, and nobody can take it up.
BookFree(r) ==
    LET p == pledgeIn(r, subject) IN
    p.status # "PLEDGED" /\ ~(p.status = "OFFERED" /\ now < p.expiry)

\* What a lender heard under an offer that stands is true of a pledge, and only one of two
\* lenders heard it.
OneIsCleared ==
    \A l \in Financiers : \A o \in OthersThan(Branch[l]) :
        OfferedTo(l) /\ SaysFree(l, o) =>
            /\ pledgeIn(o, subject).status # "PLEDGED"
            /\ \A m \in Financiers :
                Branch[m] = o /\ OfferedTo(m) => ~SaysFree(m, Branch[l])

LEMMA PledgesTyped ==
    Typed => \A r \in Registries :
        /\ findPledge(r, subject) \in Views
        /\ findPledge(r, subject).status = pledgeIn(r, subject).status
        /\ findPledge(r, subject).expiry = pledgeIn(r, subject).expiry
        /\ pledgeIn(r, subject).expiry \in Nat
  <1> SUFFICES ASSUME Typed, NEW r \in Registries
               PROVE  /\ findPledge(r, subject) \in Views
                      /\ findPledge(r, subject).status = pledgeIn(r, subject).status
                      /\ findPledge(r, subject).expiry = pledgeIn(r, subject).expiry
                      /\ pledgeIn(r, subject).expiry \in Nat
    OBVIOUS
  <1>1. subject \in Invoices
    BY FederationAssumption DEF FederationAssumption
  <1>2. pledges[subject] \in PledgeState
    BY <1>1 DEF Typed, TypeOK
  <1>3. peerPledges[subject] \in PeerProofs!PledgeState
    BY <1>1 DEF Typed, PeerProofs!TypeOK
  <1>4. /\ pledgeIn(r, subject).status \in PledgeStatus \cup {"ABSENT"}
        /\ pledgeIn(r, subject).expiry \in Times
    BY <1>2, <1>3 DEF pledgeIn, PledgeState, PeerProofs!PledgeState, PeerProofs!PledgeStatus,
                      PledgeStatus, PeerProofs!Times, Times
  <1>5. Times \subseteq Nat
    BY RegistryAssumption DEF RegistryAssumption, Times
  <1> QED BY <1>1, <1>4, <1>5 DEF findPledge, Views

\* Freedom lasts as time passes, and is what it says of the book.
LEMMA FreeViews ==
    ASSUME NEW v \in Views, NEW t \in Times, NEW u \in Times, t <= u, encumbranceOf(v, t) = "FREE"
    PROVE  encumbranceOf(v, u) = "FREE"
           /\ v.status # "PLEDGED" /\ ~(v.status = "OFFERED" /\ u < v.expiry)
  <1>1. Times \subseteq Nat
    BY RegistryAssumption DEF RegistryAssumption, Times
  <1> QED BY <1>1 DEF encumbranceOf, Views, PledgeStatus

\* One answer, or one half of it: what is newly found free is free.
LEMMA HearingStep ==
    ASSUME Typed, AsksTyped, NEW l \in Financiers, NEW r \in Registries,
           ReadState(l, r) \/ ReadClock(l, r) \/ ReadFails(l, r), now' = now
    PROVE  /\ AsksTyped'
           /\ \A k \in Financiers, q \in Registries :
                SaysFree(k, q)' => SaysFree(k, q) \/ (k = l /\ q = r /\ BookFree(r))
  <1> DEFINE a == ask[l].of[r]
  <1>0. /\ now \in Times /\ now \in Nat /\ Times \subseteq Nat
        /\ None \notin Views \cup Times \cup Said
    BY RegistryAssumption, FederationAssumption
    DEF RegistryAssumption, FederationAssumption, Typed, TypeOK, Times
  <1>1. PICK b : Hear(l, r, b) /\ Awaiting(l, r)
                 /\ \/ a.view = None /\ b = Complete([a EXCEPT !.view = findPledge(r, ask[l].about)])
                    \/ a.clock = None /\ b = Complete([a EXCEPT !.clock = now])
                    \/ b = [Awaited EXCEPT !.said = "UNREACHABLE"]
    BY DEF ReadState, ReadClock, ReadFails
  <1>2. /\ ask[l].about = subject /\ a \in Halves /\ a.said = None
        /\ a.view = None \/ a.clock = None
        /\ a.clock # None => a.clock <= now
    BY <1>1 DEF AsksTyped, Awaiting
  <1>3. findPledge(r, subject) \in Views
    BY PledgesTyped
  <1>4. /\ b \in Halves
        /\ b.view = None \/ b.clock = None
        /\ b.clock # None => b.clock <= now
        /\ \/ b.said = "FREE"
           \/ b.view # None /\ encumbranceOf(b.view, now) = "FREE"
           => BookFree(r) \/ (a.view # None /\ encumbranceOf(a.view, now) = "FREE")
    <2>1. \A v \in Views, t \in Times : encumbranceOf(v, t) \in Said
      BY DEF encumbranceOf, Said
    <2> HIDE DEF a
    <2>2. CASE a.view = None /\ b = Complete([a EXCEPT !.view = findPledge(r, subject)])
      <3> DEFINE v == findPledge(r, subject)
                 c == [a EXCEPT !.view = v]
      <3>1. c.view = v /\ c.clock = a.clock /\ c.said = None /\ c \in Halves
        BY <1>2, <1>3 DEF Halves
      <3>2. CASE a.clock = None
        <4>1. b = c
          BY <2>2, <3>1, <3>2 DEF Complete
        <4>2. b.said = None /\ b.view = v /\ b.clock = None /\ b \in Halves
          BY <3>1, <3>2, <4>1
        <4>3. encumbranceOf(v, now) = "FREE" => BookFree(r)
          BY <1>0, <1>3, FreeViews, PledgesTyped DEF BookFree
        <4> QED BY <1>0, <4>2, <4>3 DEF Said
      <3>3. CASE a.clock # None
        <4>1. b = [Awaited EXCEPT !.said = encumbranceOf(v, a.clock)] /\ a.clock \in Times
          BY <1>0, <1>2, <1>3, <2>2, <3>1, <3>3 DEF Complete, Halves
        <4>2. b.said = encumbranceOf(v, a.clock) /\ b.view = None /\ b.clock = None /\ b \in Halves
          BY <1>3, <2>1, <4>1 DEF Awaited, Halves
        <4>3. encumbranceOf(v, a.clock) = "FREE" => BookFree(r)
          BY <1>0, <1>2, <1>3, <3>3, <4>1, FreeViews, PledgesTyped DEF BookFree
        <4> QED BY <4>2, <4>3
      <3> QED BY <3>2, <3>3
    <2>3. CASE a.clock = None /\ b = Complete([a EXCEPT !.clock = now])
      <3> DEFINE c == [a EXCEPT !.clock = now]
      <3>1. c.view = a.view /\ c.clock = now /\ c.said = None /\ c \in Halves
        BY <1>0, <1>2 DEF Halves
      <3>2. CASE a.view = None
        <4>1. b = c
          BY <2>3, <3>1, <3>2 DEF Complete
        <4>2. b.said = None /\ b.view = None /\ b.clock = now /\ b \in Halves
          BY <3>1, <3>2, <4>1
        <4> QED BY <1>0, <4>2 DEF Said
      <3>3. CASE a.view # None
        <4>1. b = [Awaited EXCEPT !.said = encumbranceOf(a.view, now)] /\ a.view \in Views
          BY <1>0, <1>2, <2>3, <3>1, <3>3 DEF Complete, Halves
        <4>2. b.said = encumbranceOf(a.view, now) /\ b.view = None /\ b.clock = None /\ b \in Halves
          BY <1>0, <2>1, <4>1 DEF Awaited, Halves
        <4> QED BY <3>3, <4>2
      <3> QED BY <3>2, <3>3
    <2>4. CASE b = [Awaited EXCEPT !.said = "UNREACHABLE"]
      BY <2>4 DEF Awaited, Halves, Said
    <2> QED BY <1>1, <1>2, <2>2, <2>3, <2>4
  <1>5. ask' = [ask EXCEPT ![l].of[r] = b]
    BY <1>1 DEF Hear
  <1>6. /\ ask' \in [Financiers -> [about : {None, subject}, of : [Registries -> Halves]]]
        /\ \A k \in Financiers, q \in Registries :
             /\ ask'[k].about = ask[k].about
             /\ ask'[k].of[q] = IF k = l /\ q = r THEN b ELSE ask[k].of[q]
    <2> DEFINE c == [ask[l].of EXCEPT ![r] = b]
               d == [ask[l] EXCEPT !.of = c]
    <2>1. ask' = [ask EXCEPT ![l] = d]
      BY <1>5
    <2>2. c \in [Registries -> Halves] /\ c[r] = b /\ \A q \in Registries \ {r} : c[q] = ask[l].of[q]
      <3>1. ask[l].of \in [Registries -> Halves]
        BY DEF AsksTyped
      <3>2. b \in Halves
        BY <1>4
      <3> QED BY <3>1, <3>2
    <2>3. d \in [about : {None, subject}, of : [Registries -> Halves]]
          /\ d.about = ask[l].about /\ d.of = c
      BY <2>2 DEF AsksTyped
    <2> HIDE DEF c, d
    <2> QED BY <2>1, <2>2, <2>3 DEF AsksTyped
  <1>7. AsksTyped'
    <2>1. ASSUME NEW k \in Financiers, NEW q \in Registries
          PROVE  /\ ask'[k].of[q].view = None \/ ask'[k].of[q].clock = None
                 /\ ask'[k].of[q].clock # None => ask'[k].of[q].clock <= now'
      <3>1. CASE k = l /\ q = r
        BY <1>0, <1>4, <1>6, <3>1
      <3>2. CASE ~(k = l /\ q = r)
        <4>1. ask'[k].of[q] = ask[k].of[q]
          BY <1>6, <3>2
        <4> QED BY <1>0, <4>1 DEF AsksTyped
      <3> QED BY <3>1, <3>2
    <2> QED BY <1>6, <2>1 DEF AsksTyped
  <1>8. ASSUME NEW k \in Financiers, NEW q \in Registries, SaysFree(k, q)'
        PROVE  SaysFree(k, q) \/ (k = l /\ q = r /\ BookFree(r))
    <2>1. CASE k = l /\ q = r
      BY <1>0, <1>4, <1>6, <1>8, <2>1 DEF SaysFree
    <2>2. CASE ~(k = l /\ q = r)
      BY <1>0, <1>6, <1>8, <2>2 DEF SaysFree
    <2> QED BY <2>1, <2>2
  <1> QED BY <1>7, <1>8

-----------------------------------------------------------------------------
(* The inductive invariant, of lenders that ask under their offers.        *)

ReadersInv ==
    order = "under" =>
        /\ reader = "lenders" /\ Typed /\ AsksTyped /\ torn \in BOOLEAN
        /\ ~torn => OneIsCleared /\ ~DoublyFinanced

LEMMA InitTyped == LedgersReady => Typed
  <1> SUFFICES ASSUME LedgersReady PROVE Typed
    OBVIOUS
  <1>1. subject \in Invoices /\ subject.debtor \in Debtors
    BY FederationAssumption, InvoiceFields DEF FederationAssumption
  <1>2. Absent \in PledgeState /\ PeerProofs!Absent \in PeerProofs!PledgeState /\ 0 \in Times
    BY AbsentType, PeerAssumption, PeerProofs!AbsentType, RegistryAssumption
    DEF RegistryAssumption, Times
  <1>3. TypeOK
    BY <1>1, <1>2 DEF LedgersReady, NothingPledged, TypeOK, Licensed
  <1>4. Peer!Absent = PeerProofs!Absent /\ Peer!ackNullifierOf(subject) = PeerProofs!ackNullifierOf(subject)
    BY DEF Peer!Absent, PeerProofs!Absent, Peer!ZeroTag, PeerProofs!ZeroTag,
           Peer!ackNullifierOf, PeerProofs!ackNullifierOf
  <1>5. PeerProofs!TypeOK
    BY <1>1, <1>2, <1>4
    DEF LedgersReady, Peer!NothingPledged, PeerProofs!TypeOK, Licensed, Peer!RecordIds,
        PeerProofs!RecordIds, PeerProofs!Times, Times, PeerProofs!Certificate,
        ackNullifierOf, PeerProofs!ackNullifierOf
  <1> QED BY <1>3, <1>5 DEF Typed

LEMMA ReadersInitInv == ReadersInit => ReadersInv
  <1> SUFFICES ASSUME ReadersInit, order = "under" PROVE ReadersInv
    BY DEF ReadersInv
  <1>1. reader = "lenders" /\ torn = FALSE
    BY DEF ReadersInit
  <1>2. LedgersReady /\ ask = [l \in Financiers |-> NotAsking]
    BY <1>1 DEF ReadersInit
  <1>3. Typed
    BY <1>2, InitTyped
  <1>4. AsksTyped
    BY <1>2 DEF AsksTyped, NotAsking, Awaited, Halves
  <1>5. OneIsCleared
    BY <1>2, FederationAssumption DEF FederationAssumption, OneIsCleared, SaysFree, NotAsking, OthersThan
  <1>6. pledgeIn("home", subject).status = "ABSENT"
    BY <1>2, FederationAssumption
    DEF FederationAssumption, LedgersReady, NothingPledged, pledgeIn, Absent
  <1>7. ~DoublyFinanced
    BY <1>6 DEF DoublyFinanced, Registries
  <1> QED BY <1>1, <1>3, <1>4, <1>5, <1>7 DEF ReadersInv

\* Two lenders cannot be cleared in turn: while an offer stands, the other book shows it.
LEMMA LedgerStepInv ==
    ASSUME Typed, AsksTyped, torn \in BOOLEAN, ~torn => OneIsCleared /\ ~DoublyFinanced,
           order = "under", HomeStep \/ PeerStep, MembersStay, Policed
    PROVE  (/\ Typed /\ AsksTyped /\ torn \in BOOLEAN
            /\ ~torn => OneIsCleared /\ ~DoublyFinanced)'
  <1>0. /\ now \in Nat /\ now' \in Nat /\ now' >= now
        /\ Branch \in [Financiers -> Registries]
        /\ None \notin Views \cup Times \cup Said \cup {subject}
    <2>1. Typed' /\ (now' = now \/ now' = now + 1) /\ now \in Times /\ now' \in Times
      BY LedgerStep DEF Typed, TypeOK
    <2> QED BY <2>1, RegistryAssumption, FederationAssumption
            DEF RegistryAssumption, FederationAssumption, Times
  <1>1. \A l \in Financiers :
          /\ ask'[l] = NotAsking \/ ask'[l] = ask[l]
          /\ pledgeIn(Branch[l], subject)' # pledgeIn(Branch[l], subject) => ask'[l] = NotAsking
    BY DEF Policed, Kept
  <1>2. AsksTyped'
    <2>1. ask' \in [Financiers -> [about : {None, subject}, of : [Registries -> Halves]]]
      BY <1>1 DEF AsksTyped, Policed, Kept, NotAsking, Awaited, Halves
    <2>2. ASSUME NEW l \in Financiers, NEW r \in Registries
          PROVE  /\ ask'[l].of[r].view = None \/ ask'[l].of[r].clock = None
                 /\ ask'[l].of[r].clock # None => ask'[l].of[r].clock <= now'
      <3>1. CASE ask'[l] = NotAsking
        BY <3>1 DEF NotAsking, Awaited
      <3>2. CASE ask'[l] = ask[l]
        <4>1. /\ ask[l].of[r] \in Halves
              /\ ask[l].of[r].view = None \/ ask[l].of[r].clock = None
              /\ ask[l].of[r].clock # None => ask[l].of[r].clock <= now
          BY DEF AsksTyped
        <4>2. ask[l].of[r].clock # None => ask[l].of[r].clock \in Nat
          BY <4>1, RegistryAssumption DEF RegistryAssumption, Halves, Times
        <4> QED BY <1>0, <3>2, <4>1, <4>2
      <3> QED BY <1>1, <3>1, <3>2
    <2> QED BY <2>1, <2>2 DEF AsksTyped
  <1>3. torn' \in BOOLEAN
    BY DEF Policed
  <1>4. ASSUME ~torn'
        PROVE  OneIsCleared' /\ ~DoublyFinanced'
    <2>1. ~torn /\ OneIsCleared /\ ~DoublyFinanced
      BY <1>4 DEF Policed
    <2>2. now' # now => \A l \in Financiers, r \in Registries : ask[l].of[r].view = None
      BY <1>4 DEF Policed
    \* What a lender concludes from what it heard was already said before the step.
    <2>3. ASSUME NEW l \in Financiers, NEW r \in Registries, SaysFree(l, r)'
          PROVE  /\ SaysFree(l, r)
                 /\ pledgeIn(Branch[l], subject)' = pledgeIn(Branch[l], subject)
      <3>1. ask'[l] # NotAsking
        BY <2>3 DEF SaysFree, NotAsking
      <3>2. ask'[l] = ask[l] /\ pledgeIn(Branch[l], subject)' = pledgeIn(Branch[l], subject)
        BY <1>1, <3>1
      <3>3. /\ ask[l].about # None
            /\ \/ ask[l].of[r].said = "FREE"
               \/ ask[l].of[r].view # None /\ encumbranceOf(ask[l].of[r].view, now') = "FREE"
        BY <2>3, <3>2 DEF SaysFree
      <3>4. SaysFree(l, r)
        BY <2>2, <3>3 DEF SaysFree
      <3> QED BY <3>2, <3>4
    <2>4. ASSUME NEW l \in Financiers, OfferedTo(l)',
                 pledgeIn(Branch[l], subject)' = pledgeIn(Branch[l], subject)
          PROVE  OfferedTo(l)
      <3>1. Branch[l] \in Registries
        BY <1>0
      <3>2. pledgeIn(Branch[l], subject).expiry \in Nat
        BY <3>1, PledgesTyped
      <3> QED BY <1>0, <2>4, <3>2 DEF OfferedTo, holderTagOf
    \* Whoever is cleared for the receivable has heard that the other book is free.
    <2>5. ASSUME NEW l \in Financiers, Cleared(l), NEW o \in OthersThan(Branch[l])
          PROVE  SaysFree(l, o)
      BY <2>5 DEF Cleared, Answered, SaysFree
    <2>6. ASSUME NEW r \in Registries, NEW o \in OthersThan(r),
                 pledgeIn(r, subject)'.status = "PLEDGED", pledgeIn(r, subject).status # "PLEDGED"
          PROVE  /\ pledgeIn(o, subject).status # "PLEDGED"
                 /\ \A m \in Financiers : Branch[m] = o /\ OfferedTo(m) => ~SaysFree(m, r)
      <3>1. PICK l \in Financiers : Branch[l] = r /\ OfferedTo(l) /\ Cleared(l)
        BY <2>6, LedgerStep
      <3>2. SaysFree(l, o)
        BY <2>5, <3>1
      <3> QED BY <2>1, <3>1, <3>2 DEF OneIsCleared
    <2>7. ASSUME NEW l \in Financiers, NEW o \in OthersThan(Branch[l]),
                 OfferedTo(l)', SaysFree(l, o)'
          PROVE  /\ pledgeIn(o, subject)'.status # "PLEDGED"
                 /\ \A m \in Financiers :
                     Branch[m] = o /\ OfferedTo(m)' => ~SaysFree(m, Branch[l])'
      <3>1. o \in Registries /\ Branch[l] \in Registries /\ Branch[l] \in OthersThan(o)
        BY <1>0 DEF OthersThan
      <3>2. SaysFree(l, o) /\ OfferedTo(l)
        BY <2>3, <2>4, <2>7, <3>1
      <3>3. /\ pledgeIn(o, subject).status # "PLEDGED"
            /\ \A m \in Financiers : Branch[m] = o /\ OfferedTo(m) => ~SaysFree(m, Branch[l])
        BY <2>1, <3>2 DEF OneIsCleared
      <3>4. pledgeIn(o, subject)'.status # "PLEDGED"
        BY <2>6, <3>1, <3>2, <3>3
      <3>5. ASSUME NEW m \in Financiers, Branch[m] = o, OfferedTo(m)', SaysFree(m, Branch[l])'
            PROVE  FALSE
        <4>1. SaysFree(m, Branch[l])
              /\ pledgeIn(Branch[m], subject)' = pledgeIn(Branch[m], subject)
          BY <2>3, <3>1, <3>5
        <4>2. OfferedTo(m)
          BY <2>4, <3>5, <4>1
        <4> QED BY <3>3, <3>5, <4>1, <4>2
      <3> QED BY <3>4, <3>5
    <2>8. OneIsCleared'
      BY <2>7 DEF OneIsCleared
    <2>9. ASSUME DoublyFinanced' PROVE FALSE
      <3>1. PICK r \in Registries : pledgeIn(r, subject).status # "PLEDGED"
        BY <2>1 DEF DoublyFinanced
      <3>2. PICK o \in Registries : o # r
        BY DEF Registries
      <3>3. /\ pledgeIn(r, subject)'.status = "PLEDGED"
            /\ pledgeIn(o, subject)'.status = "PLEDGED"
        BY <2>9 DEF DoublyFinanced
      <3>4. o \in OthersThan(r)
        BY <3>2 DEF OthersThan
      <3>5. pledgeIn(o, subject).status # "PLEDGED"
        BY <2>6, <3>1, <3>3, <3>4
      <3>6. pledges' # pledges /\ peerPledges' # peerPledges
        BY <3>1, <3>2, <3>3, <3>5 DEF pledgeIn, Registries
      <3> QED BY <3>6, LedgerStep
    <2> QED BY <2>8, <2>9
  <1>5. Typed'
    BY LedgerStep
  <1> QED BY <1>2, <1>3, <1>4, <1>5

\* A lender learns that a book is free only when no lender there has an offer to take up.
LEMMA QuestionStepInv ==
    ASSUME Typed, AsksTyped, torn \in BOOLEAN, ~torn => OneIsCleared /\ ~DoublyFinanced,
           NEW l \in Financiers, LenderAsks(l) \/ LenderHears(l)
    PROVE  (/\ Typed /\ AsksTyped /\ torn \in BOOLEAN
            /\ ~torn => OneIsCleared /\ ~DoublyFinanced)'
  <1>1. UNCHANGED <<ledgers, torn>>
    BY DEF LenderAsks, LenderHears
  <1>2. Typed' /\ now' = now /\ pledges' = pledges /\ peerPledges' = peerPledges
    BY <1>1 DEF Typed, TypeOK, PeerProofs!TypeOK, ledgers, homeLedger, peerLedger, membership,
                acknowledgments, treasury
  <1>3. (torn \in BOOLEAN)' /\ (~DoublyFinanced' <=> ~DoublyFinanced)
        /\ \A k \in Financiers : OfferedTo(k)' <=> OfferedTo(k)
        /\ \A r \in Registries : pledgeIn(r, subject)' = pledgeIn(r, subject)
    BY <1>1, <1>2 DEF DoublyFinanced, OfferedTo, pledgeIn
  <1>4. AsksTyped' /\ \E q \in Registries : \A k \in Financiers, r \in Registries :
            SaysFree(k, r)' => SaysFree(k, r) \/ (k = l /\ r = q /\ BookFree(r))
    <2>1. CASE LenderAsks(l)
      <3>1. ask' = [ask EXCEPT ![l] = [NotAsking EXCEPT !.about = subject]]
        BY <2>1 DEF LenderAsks, Ask
      <3>2. [NotAsking EXCEPT !.about = subject]
              = [about |-> subject, of |-> [r \in Registries |-> Awaited]]
        BY DEF NotAsking
      <3>3. \A k \in Financiers : ask'[k] =
              IF k = l THEN [about |-> subject, of |-> [r \in Registries |-> Awaited]] ELSE ask[k]
        BY <3>1, <3>2 DEF AsksTyped
      <3>4. ask' \in [Financiers -> [about : {None, subject}, of : [Registries -> Halves]]]
        BY <3>1, <3>2 DEF AsksTyped, Awaited, Halves
      <3>5. ASSUME NEW k \in Financiers, NEW r \in Registries
            PROVE  /\ ask'[k].of[r].view = None \/ ask'[k].of[r].clock = None
                   /\ ask'[k].of[r].clock # None => ask'[k].of[r].clock <= now'
        <4>1. CASE k = l
          BY <3>3, <4>1 DEF Awaited
        <4>2. CASE k # l
          BY <1>2, <3>3, <4>2 DEF AsksTyped
        <4> QED BY <4>1, <4>2
      <3>6. None # "FREE"
        BY FederationAssumption DEF FederationAssumption, Said
      <3>7. \A k \in Financiers, r \in Registries : SaysFree(k, r)' => SaysFree(k, r)
        BY <1>2, <3>3, <3>6 DEF SaysFree, Awaited
      <3> QED BY <3>4, <3>5, <3>7 DEF AsksTyped, Registries
    <2>2. CASE LenderHears(l)
      <3>1. PICK q \in Registries : ReadState(l, q) \/ ReadClock(l, q) \/ ReadFails(l, q)
        BY <2>2 DEF LenderHears, Hearing
      <3> QED BY <1>2, <3>1, HearingStep
    <2> QED BY <2>1, <2>2
  <1>5. ASSUME OneIsCleared PROVE OneIsCleared'
    <2>1. ASSUME NEW k \in Financiers, NEW o \in OthersThan(Branch[k]),
                 OfferedTo(k), SaysFree(k, o)'
          PROVE  /\ pledgeIn(o, subject).status # "PLEDGED"
                 /\ \A m \in Financiers : Branch[m] = o /\ OfferedTo(m) => ~SaysFree(m, Branch[k])'
      <3>1. o \in Registries /\ Branch[k] \in Registries /\ Branch[k] \in OthersThan(o)
        BY FederationAssumption DEF FederationAssumption, OthersThan
      \* An offer to m stands in o: o's book is not free.
      <3>2. \A m \in Financiers : OfferedTo(m) => ~BookFree(Branch[m])
        BY DEF OfferedTo, BookFree
      <3>3. SaysFree(k, o) \/ BookFree(o)
        BY <1>4, <2>1, <3>1
      <3>4. pledgeIn(o, subject).status # "PLEDGED"
        BY <1>5, <2>1, <3>3 DEF OneIsCleared, BookFree
      <3>5. ASSUME NEW m \in Financiers, Branch[m] = o, OfferedTo(m), SaysFree(m, Branch[k])'
            PROVE  FALSE
        <4>1. SaysFree(k, o)
          BY <3>2, <3>3, <3>5
        <4>2. SaysFree(m, Branch[k])
          BY <1>4, <2>1, <3>1, <3>2, <3>5
        <4> QED BY <1>5, <2>1, <3>5, <4>1, <4>2 DEF OneIsCleared
      <3> QED BY <3>4, <3>5
    <2> QED BY <1>3, <2>1 DEF OneIsCleared, OthersThan
  <1> QED BY <1>1, <1>2, <1>3, <1>4, <1>5

LEMMA ReadersStepInv == ReadersInv /\ [ReadersNext]_readerVars => ReadersInv'
  <1> SUFFICES ASSUME ReadersInv, [ReadersNext]_readerVars, order' = "under" PROVE ReadersInv'
    BY DEF ReadersInv
  <1>1. CASE UNCHANGED readerVars
    <2>1. UNCHANGED <<ledgers, ask, order, torn, reader>>
      BY <1>1 DEF readerVars, lenderVars
    <2> QED BY <2>1 DEF ReadersInv, ledgers, homeLedger, peerLedger, membership, acknowledgments,
                treasury, Typed, TypeOK, PeerProofs!TypeOK, AsksTyped, OneIsCleared, OfferedTo,
                SaysFree, DoublyFinanced, pledgeIn
  <1>2. CASE ReadersNext
    <2>1. order = "under" /\ reader = "lenders" /\ reader' = reader /\ LendersNext
      BY <1>2 DEF ReadersInv, ReadersNext, lenderVars, LendersNext, Policed, LenderAsks,
                  LenderHears
    <2>2. /\ Typed /\ AsksTyped /\ torn \in BOOLEAN
          /\ ~torn => OneIsCleared /\ ~DoublyFinanced
      BY <2>1 DEF ReadersInv
    <2>3. (/\ Typed /\ AsksTyped /\ torn \in BOOLEAN
           /\ ~torn => OneIsCleared /\ ~DoublyFinanced)'
      BY <2>1, <2>2, LedgerStepInv, QuestionStepInv DEF LendersNext
    <2> QED BY <2>1, <2>3 DEF ReadersInv
  <1> QED BY <1>1, <1>2

LEMMA ReadersInvariant == ReadersSpec => []ReadersInv
  BY ReadersInitInv, ReadersStepInv, PTL DEF ReadersSpec

\* Lenders that ask the other registries while the offer to them stands, and accept only on FREE,
\* never finance one receivable twice, however the two ledgers, the two halves of every answer
\* and the lost ones interleave, as long as no state is judged by a later time.
THEOREM AskingUnderOfferExcludes == ReadersSpec => []AskedUnderOfferExclude
  <1>1. ReadersInv => AskedUnderOfferExclude
    BY DEF ReadersInv, AskedUnderOfferExclude
  <1> QED BY <1>1, ReadersInvariant, PTL

-----------------------------------------------------------------------------
(* The demonstration.  It may fail and be started again at any step, and   *)
(* registry A goes on meanwhile, but nothing it saw on a ledger is undone. *)

\* A registry's answer in the making.
Answer(a) ==
    a = [view |-> a.view, clock |-> a.clock, said |-> a.said] /\ a.said \in Said \cup {None}

AskShape ==
    /\ clerk \in DOMAIN ask /\ ask = [l \in DOMAIN ask |-> ask[l]]
    /\ ask[clerk] = [about |-> ask[clerk].about, of |-> [r \in Registries |-> ask[clerk].of[r]]]
    /\ \A r \in Registries : Answer(ask[clerk].of[r])

\* The clerk asks at the three checks, and a check was heard from both registries or from none.
DemoShape ==
    /\ AskShape
    /\ demo = [step |-> demo.step, heard |-> demo.heard, identical |-> demo.identical,
               claimed |-> demo.claimed]
    /\ demo.step \in 0..12 /\ demo.heard = [c \in Checks |-> demo.heard[c]]
    /\ demo.identical \in BOOLEAN /\ demo.claimed \in BOOLEAN
    /\ \A c \in Checks :
        \/ \A r \in Registries : demo.heard[c][r].said = None
        \/ \A r \in Registries : demo.heard[c][r].said \in Said
    /\ ask[clerk].about # None => demo.step \in {5, 10, 11}

\* Only the demonstration is in the peer's registry: what was acknowledged there is the
\* receivable, and what was offered there is the receivable, to the clerk.
DemoBooks ==
    /\ TypeOK
    /\ subject \in DOMAIN peerPledges
    /\ peerPledges[subject].status # "ABSENT" =>
        peerPledges[subject].holderTag = holderTagOf(clerk, subject)
    /\ ackNullifierOf(subject) \in peerAckNullifiers => subject \in peerAcks
    /\ peers \in [Registries -> SUBSET Registries]
    /\ \A r \in Registries : peers[r] \subseteq OthersThan(r)

Behind(i) == demo.claimed \/ demo.step > i

\* What the steps behind it leave on the ledgers.
DemoProgress ==
    /\ Behind(1) => "peer" \in peers["home"]
    /\ Behind(2) => "home" \in peers["peer"]
    /\ Behind(6) => subject \in peerAcks
    /\ demo.identical => \A r \in Registries : pledgeIn(r, subject).status # "ABSENT"
    /\ demo.claimed => demo.step = 0 /\ Conclusive

DemoInv ==
    /\ reader = "demo" => DemoShape /\ DemoBooks /\ DemoProgress
    /\ reader # "demo" => ~demo.claimed

LEMMA RegistryPairs ==
    /\ Registries = {"home", "peer"}
    /\ OthersThan("home") = {"peer"} /\ OthersThan("peer") = {"home"}
  BY DEF Registries, OthersThan

\* Where the command stands, by its place in the list of steps.
LEMMA Positions ==
    ASSUME demo.step \in 0..12
    PROVE  /\ Doing("register-peer-a") <=> demo.step = 1
           /\ Doing("register-peer-b") <=> demo.step = 2
           /\ Doing("admit-debtor-b") <=> demo.step = 3
           /\ Doing("admit-lender-b") <=> demo.step = 4
           /\ Doing("check-before") <=> demo.step = 5
           /\ Doing("acknowledge-b") <=> demo.step = 6
           /\ Doing("offer-b") <=> demo.step = 7
           /\ Doing("double-pledge") <=> demo.step = 8
           /\ Doing("markers") <=> demo.step = 9
           /\ Doing("check-after") <=> demo.step = 10
           /\ Doing("check-free") <=> demo.step = 11
           /\ Doing("conclude") <=> demo.step = 12
  <1>1. \A i \in 1..12 : \A s : Doing(s) /\ demo.step = i => DemoSteps[i] = s
    BY DEF Doing
  <1>2. /\ DemoSteps[1] = "register-peer-a" /\ DemoSteps[2] = "register-peer-b"
        /\ DemoSteps[3] = "admit-debtor-b" /\ DemoSteps[4] = "admit-lender-b"
        /\ DemoSteps[5] = "check-before" /\ DemoSteps[6] = "acknowledge-b"
        /\ DemoSteps[7] = "offer-b" /\ DemoSteps[8] = "double-pledge"
        /\ DemoSteps[9] = "markers" /\ DemoSteps[10] = "check-after"
        /\ DemoSteps[11] = "check-free" /\ DemoSteps[12] = "conclude"
    BY DEF DemoSteps
  <1>3. CASE demo.step = 0
    BY <1>3 DEF Doing
  <1>4. CASE demo.step \in 1..12
    <2>1. demo.step \in {1, 2, 3, 4, 5, 6, 7, 8, 9, 10, 11, 12}
      BY <1>4
    <2> QED BY <1>2, <2>1 DEF Doing
  <1> QED BY <1>3, <1>4

\* No step of a registry takes a marker off its ledger.
LEMMA MarkersStay ==
    ASSUME TypeOK, [Next]_vars, NEW m \in Invoices, pledges[m].status # "ABSENT"
    PROVE  pledges'[m].status # "ABSENT"
  <1>0. pledges[m] \in PledgeState
    BY DEF TypeOK
  <1>1. CASE IsOffered(m)
    BY <1>1 DEF IsOffered, Offered, Absent
  <1>2. CASE IsTaken(m) \/ IsReleased(m) \/ IsPaid(m)
    BY <1>0, <1>2 DEF IsTaken, IsReleased, IsPaid, PledgeState
  <1>3. CASE Unmoved(m) \/ IsClaimed(m)
    BY <1>0, <1>3 DEF Unmoved, IsClaimed, PledgeState
  <1> QED BY <1>1, <1>2, <1>3, StepOnMarker

-----------------------------------------------------------------------------
(* The ledgers under the demonstration.                                    *)

\* What was once on a ledger is on it after the step.
Lasts ==
    /\ \A r \in Registries : peers[r] \subseteq peers'[r]
    /\ subject \in peerAcks => subject \in peerAcks'
    /\ \A r \in Registries :
        pledgeIn(r, subject).status # "ABSENT" => pledgeIn(r, subject)'.status # "ABSENT"

LEMMA BooksUntouched ==
    ASSUME DemoBooks, UNCHANGED ledgers
    PROVE  DemoBooks' /\ Lasts
  BY DEF ledgers, homeLedger, peerLedger, membership, acknowledgments, treasury, DemoBooks, TypeOK,
         Lasts, pledgeIn

LEMMA BooksHome ==
    ASSUME DemoBooks, HomeStep
    PROVE  DemoBooks' /\ Lasts
  <1>1. TypeOK' /\ (pledges[subject].status # "ABSENT" => pledges'[subject].status # "ABSENT")
    BY StepType, MarkersStay, FederationAssumption DEF FederationAssumption, HomeStep, DemoBooks
  <1>2. UNCHANGED <<peerPledges, peerAcks, peerAckNullifiers, peers>>
    BY DEF HomeStep, peerLedger
  <1> QED BY <1>1, <1>2 DEF DemoBooks, Lasts, pledgeIn

LEMMA BooksOffer ==
    ASSUME DemoBooks, NEW e \in Ephemerals, DemoOffer(e), UNCHANGED <<homeLedger, peers>>
    PROVE  DemoBooks' /\ Lasts /\ peerPledges'[subject].status # "ABSENT"
  <1> DEFINE p == Peer!Offered(holderTagOf(clerk, subject), now + Week, <<subject, e>>)
  <1>1. p.status = "OFFERED" /\ p.holderTag = holderTagOf(clerk, subject)
    BY DEF Peer!Offered, Peer!Absent
  <1>2. /\ peerPledges' = [peerPledges EXCEPT ![subject] = p]
        /\ UNCHANGED <<now, peerAcks, peerAckNullifiers>>
    BY DEF DemoOffer, Peer!Offer, Peer!acknowledgments
  <1> HIDE DEF p
  <1>3. peerPledges'[subject] = p /\ subject \in DOMAIN peerPledges'
    BY <1>2 DEF DemoBooks
  <1>4. TypeOK'
    BY <1>2 DEF DemoBooks, TypeOK, homeLedger, membership, acknowledgments, treasury
  <1>5. pledges' = pledges
    BY DEF homeLedger
  <1> QED BY <1>1, <1>2, <1>3, <1>4, <1>5 DEF DemoBooks, Lasts, pledgeIn

LEMMA BooksCall ==
    ASSUME DemoBooks, DemoShape, DemoCall
    PROVE  /\ DemoBooks' /\ Lasts
           /\ demo.step \in {1, 2, 3, 4, 6, 7}
           /\ demo.step = 1 => "peer" \in peers'["home"]
           /\ demo.step = 2 => "home" \in peers'["peer"]
           /\ demo.step = 6 => subject \in peerAcks'
  <1>1. demo.step \in 0..12
    BY DEF DemoShape
  <1>2. ASSUME NEW r \in Registries, NEW a \in OthersThan(r), RegisterPeer(operatorOf(r), r, a)
        PROVE  DemoBooks' /\ Lasts /\ a \in peers'[r]
    <2>1. /\ UNCHANGED <<homeLedger, peerLedger, now>>
          /\ peers' = [peers EXCEPT ![r] = peers[r] \cup {a}]
      BY <1>2 DEF RegisterPeer
    <2>2. TypeOK' /\ UNCHANGED <<pledges, peerPledges, peerAcks, peerAckNullifiers>>
      BY <2>1 DEF homeLedger, peerLedger, membership, acknowledgments, treasury, DemoBooks, TypeOK
    <2>3. /\ peers' \in [Registries -> SUBSET Registries] /\ a \in peers'[r]
          /\ \A q \in Registries : peers[q] \subseteq peers'[q] /\ peers'[q] \subseteq OthersThan(q)
      BY <2>1 DEF DemoBooks, OthersThan
    <2> QED BY <2>2, <2>3 DEF DemoBooks, Lasts, pledgeIn
  <1>3. CASE Doing("register-peer-a") /\ RegisterPeer(Operator, "home", "peer")
    <2>1. RegisterPeer(operatorOf("home"), "home", "peer")
      BY <1>3 DEF operatorOf
    <2> QED BY <1>1, <1>2, <1>3, <2>1, Positions, RegistryPairs
  <1>4. CASE Doing("register-peer-b") /\ RegisterPeer(PeerOperator, "peer", "home")
    <2>1. RegisterPeer(operatorOf("peer"), "peer", "home")
      BY <1>4 DEF operatorOf
    <2> QED BY <1>1, <1>2, <1>4, <2>1, Positions, RegistryPairs
  <1>5. ASSUME UNCHANGED <<homeLedger, peers>>,
               \/ Doing("admit-debtor-b") /\ Peer!AdmitDebtor(PeerOperator, subject.debtor)
               \/ Doing("admit-lender-b") /\ Peer!AdmitFinancier(PeerOperator, clerk)
        PROVE  DemoBooks' /\ Lasts /\ demo.step \in {3, 4}
    <2>1. UNCHANGED <<now, peerPledges, peerAcks, peerAckNullifiers>>
      BY <1>5 DEF Peer!AdmitDebtor, Peer!AdmitFinancier, Peer!acknowledgments
    <2>2. TypeOK' /\ UNCHANGED <<pledges, peers>>
      BY <1>5, <2>1 DEF homeLedger, membership, acknowledgments, treasury, DemoBooks, TypeOK
    <2>3. demo.step \in {3, 4}
      BY <1>1, <1>5, Positions
    <2> QED BY <2>1, <2>2, <2>3 DEF DemoBooks, Lasts, pledgeIn
  <1>6. ASSUME UNCHANGED <<homeLedger, peers>>, Doing("acknowledge-b"),
               Peer!Acknowledge(subject.debtor, subject)
        PROVE  DemoBooks' /\ Lasts /\ demo.step = 6 /\ subject \in peerAcks'
    <2>1. UNCHANGED <<now, peerPledges>> /\ subject \in peerAcks'
      BY <1>6 DEF Peer!Acknowledge
    <2>2. TypeOK' /\ UNCHANGED <<pledges, peers>>
      BY <1>6, <2>1 DEF homeLedger, membership, acknowledgments, treasury, DemoBooks, TypeOK
    <2>3. demo.step = 6
      BY <1>1, <1>6, Positions
    <2> QED BY <2>1, <2>2, <2>3 DEF DemoBooks, Lasts, pledgeIn
  <1>7. ASSUME UNCHANGED <<homeLedger, peers>>, Doing("offer-b"),
               NEW e \in Ephemerals, DemoOffer(e)
        PROVE  DemoBooks' /\ Lasts /\ demo.step = 7
    BY <1>1, <1>7, BooksOffer, Positions
  <1> QED BY <1>3, <1>4, <1>5, <1>6, <1>7 DEF DemoCall

-----------------------------------------------------------------------------
(* What the clerk heard, and the invariant.                                *)

LEMMA NoneIsNoAnswer == None \notin Said /\ None # "FREE" /\ None # "UNREACHABLE" /\ None # subject
  BY FederationAssumption DEF FederationAssumption, Said

LEMMA AskReset ==
    ASSUME AskShape, NEW n, ask' = [ask EXCEPT ![clerk] = [NotAsking EXCEPT !.about = n]]
    PROVE  AskShape' /\ ask'[clerk].about = n
  <1> DEFINE a == [NotAsking EXCEPT !.about = n]
  <1>1. a = [about |-> n, of |-> [r \in Registries |-> Awaited]]
    BY DEF NotAsking
  <1>2. Answer(Awaited)
    BY DEF Answer, Awaited
  <1> HIDE DEF a
  <1>3. ask'[clerk] = a /\ clerk \in DOMAIN ask' /\ ask' = [l \in DOMAIN ask' |-> ask'[l]]
    BY DEF AskShape, a
  <1>4. a.about = n /\ a.of = [r \in Registries |-> Awaited]
    BY <1>1
  <1>5. a = [about |-> a.about, of |-> [r \in Registries |-> a.of[r]]]
        /\ \A r \in Registries : a.of[r] = Awaited
    BY <1>1, <1>4
  <1>6. \A r \in Registries : Answer(ask'[clerk].of[r])
    BY <1>2, <1>3, <1>5
  <1>7. [r \in Registries |-> ask'[clerk].of[r]] = [r \in Registries |-> a.of[r]]
    BY <1>3
  <1>8. ask'[clerk] = [about |-> ask'[clerk].about, of |-> [r \in Registries |-> ask'[clerk].of[r]]]
    BY <1>3, <1>5, <1>7
  <1> QED BY <1>3, <1>4, <1>6, <1>8 DEF AskShape, Answer

LEMMA AskStays ==
    ASSUME AskShape, UNCHANGED ask
    PROVE  AskShape' /\ ask'[clerk].about = ask[clerk].about
  BY DEF AskShape, Answer

LEMMA AskForgotten ==
    ASSUME AskShape, ask' = [ask EXCEPT ![clerk] = NotAsking]
    PROVE  AskShape' /\ ask'[clerk].about = None
  <1>1. NotAsking = [NotAsking EXCEPT !.about = None]
    BY DEF NotAsking
  <1> QED BY <1>1, AskReset

LEMMA AskHears ==
    ASSUME AskShape, Hearing(clerk)
    PROVE  AskShape' /\ ask'[clerk].about = ask[clerk].about
  <1>1. PICK r \in Registries : ReadState(clerk, r) \/ ReadClock(clerk, r) \/ ReadFails(clerk, r)
    BY DEF Hearing
  <1> DEFINE a == ask[clerk].of[r]
  <1>2. PICK b : Hear(clerk, r, b)
                 /\ \/ \E v : b = Complete([a EXCEPT !.view = v])
                    \/ \E t : b = Complete([a EXCEPT !.clock = t])
                    \/ b = [Awaited EXCEPT !.said = "UNREACHABLE"]
    BY <1>1 DEF ReadState, ReadClock, ReadFails
  <1>3. Answer(a)
    BY DEF AskShape
  <1>4. ASSUME NEW x, Answer(x) PROVE Answer(Complete(x))
    <2>1. CASE x.view = None \/ x.clock = None
      BY <1>4, <2>1 DEF Complete
    <2>2. CASE ~(x.view = None \/ x.clock = None)
      <3> DEFINE w == encumbranceOf(x.view, x.clock)
      <3>1. w \in Said
        BY DEF encumbranceOf, Said
      <3> HIDE DEF w
      <3>2. Complete(x) = [view |-> None, clock |-> None, said |-> w]
        BY <2>2 DEF Complete, Awaited, w
      <3> QED BY <3>1, <3>2 DEF Answer
    <2> QED BY <2>1, <2>2
  <1>5. Answer(b)
    <2> HIDE DEF a
    <2>1. ASSUME NEW v PROVE Answer([a EXCEPT !.view = v]) /\ Answer([a EXCEPT !.clock = v])
      <3>1. /\ [a EXCEPT !.view = v] = [view |-> v, clock |-> a.clock, said |-> a.said]
            /\ [a EXCEPT !.clock = v] = [view |-> a.view, clock |-> v, said |-> a.said]
        BY <1>3 DEF Answer
      <3> QED BY <1>3, <3>1 DEF Answer
    <2>2. Answer([Awaited EXCEPT !.said = "UNREACHABLE"])
      BY DEF Answer, Awaited, Said
    <2> QED BY <1>2, <1>4, <2>1, <2>2
  <1>6. DEFINE of == [ask[clerk].of EXCEPT ![r] = b]
  <1>7. ask' = [ask EXCEPT ![clerk] = [ask[clerk] EXCEPT !.of = of]]
    BY <1>2 DEF Hear
  <1>8. of = [q \in Registries |-> of[q]] /\ \A q \in Registries : Answer(of[q])
    BY <1>5 DEF AskShape
  <1> HIDE DEF of
  <1>9. ask'[clerk] = [about |-> ask[clerk].about, of |-> of]
        /\ clerk \in DOMAIN ask' /\ ask' = [l \in DOMAIN ask' |-> ask'[l]]
    BY <1>7 DEF AskShape
  <1> QED BY <1>8, <1>9 DEF AskShape

LEMMA DemoFields ==
    ASSUME NEW a, NEW b, NEW c, NEW d,
           demo' = [step |-> a, heard |-> b, identical |-> c, claimed |-> d]
    PROVE  /\ demo'.step = a /\ demo'.heard = b /\ demo'.identical = c /\ demo'.claimed = d
           /\ demo' = [step |-> demo'.step, heard |-> demo'.heard, identical |-> demo'.identical,
                       claimed |-> demo'.claimed]
  OBVIOUS

LEMMA DemoOffShape ==
    /\ DemoOff = [step |-> 0, heard |-> DemoOff.heard, identical |-> FALSE, claimed |-> FALSE]
    /\ DemoOff.step = 0 /\ DemoOff.identical = FALSE /\ DemoOff.claimed = FALSE
    /\ DemoOff.heard = [c \in Checks |-> DemoOff.heard[c]]
    /\ \A c \in Checks, r \in Registries : DemoOff.heard[c][r].said = None
  BY DEF DemoOff, Unheard, NotAsking, Awaited

LEMMA InitDemo == ReadersInit => DemoInv
  <1> SUFFICES ASSUME ReadersInit, reader = "demo" PROVE DemoInv
    <2>1. ASSUME ReadersInit PROVE ~demo.claimed
      <3>1. demo = DemoOff
        BY <2>1 DEF ReadersInit
      <3> QED BY <3>1, DemoOffShape
    <2> QED BY <2>1 DEF DemoInv
  <1>1. DemoShape
    <2>1. demo = DemoOff /\ ask = [l \in Financiers |-> NotAsking]
      BY DEF ReadersInit
    <2>2. AskShape /\ ask[clerk].about = None
      BY <2>1, ReadersAssumption DEF ReadersAssumption, AskShape, NotAsking, Awaited, Answer
    <2>3. demo = [step |-> demo.step, heard |-> demo.heard, identical |-> demo.identical,
                  claimed |-> demo.claimed]
      BY <2>1, DemoOffShape
    <2>4. demo.step \in 0..12 /\ demo.identical \in BOOLEAN /\ demo.claimed \in BOOLEAN
      BY <2>1 DEF DemoOff
    <2>5. /\ demo.heard = [c \in Checks |-> demo.heard[c]]
          /\ \A c \in Checks, r \in Registries : demo.heard[c][r].said = None
      BY <2>1 DEF DemoOff, Unheard, NotAsking, Awaited
    <2> QED BY <2>2, <2>3, <2>4, <2>5 DEF DemoShape
  <1>2. DemoBooks
    <2>1. subject \in Invoices /\ subject.debtor \in Debtors
      BY FederationAssumption, InvoiceFields DEF FederationAssumption
    <2>2. TypeOK
      BY <2>1, AbsentType, RegistryAssumption
      DEF RegistryAssumption, ReadersInit, NothingPledged, TypeOK, Licensed, Times
    <2>3. peerPledges = [n \in Invoices |-> Peer!Absent] /\ peerAckNullifiers = {}
      BY DEF ReadersInit, Peer!Init, Peer!NothingPledged
    <2>4. peers = [r \in Registries |-> {}]
      BY DEF ReadersInit
    <2> QED BY <2>1, <2>2, <2>3, <2>4 DEF DemoBooks, Peer!Absent
  <1>3. DemoProgress
    BY DEF ReadersInit, DemoProgress, Behind, DemoOff
  <1> QED BY <1>1, <1>2, <1>3 DEF DemoInv

\* A step that is recorded: it comes after the one recorded before, with what it left.
LEMMA RecordedStep ==
    ASSUME DemoShape, DemoProgress, DemoBooks', Lasts, demo.step \in 1..11, demo' = NextStep,
           demo.step \notin {5, 10, 11}, UNCHANGED ask,
           demo.step = 1 => "peer" \in peers'["home"],
           demo.step = 2 => "home" \in peers'["peer"],
           demo.step = 6 => subject \in peerAcks'
    PROVE  DemoShape' /\ DemoProgress'
  <1>1. demo' = [step |-> demo.step + 1, heard |-> demo.heard, identical |-> demo.identical,
                 claimed |-> demo.claimed]
    BY DEF NextStep, DemoShape
  <1>2. ~demo.claimed /\ ask[clerk].about = None
    BY DEF DemoShape, DemoProgress
  <1>3. demo'.step = demo.step + 1 /\ demo'.heard = demo.heard /\ demo'.identical = demo.identical
        /\ demo'.claimed = demo.claimed
    BY <1>1
  <1>4. DemoShape'
    BY <1>1, <1>2, <1>3 DEF DemoShape, AskShape, Answer
  <1>5. DemoProgress'
    BY <1>2, <1>3, RegistryPairs DEF DemoProgress, Behind, Lasts, DemoShape
  <1> QED BY <1>4, <1>5

\* A step that is not one of the command's: its place stays, with what it heard.
LEMMA DemoWaits ==
    ASSUME DemoShape, DemoProgress, Lasts, UNCHANGED demo, AskShape',
           ask'[clerk].about = ask[clerk].about
    PROVE  DemoShape' /\ DemoProgress'
  <1>1. DemoShape'
    BY DEF DemoShape
  <1>2. DemoProgress'
    BY RegistryPairs DEF DemoProgress, Behind, Lasts, Conclusive
  <1> QED BY <1>1, <1>2

LEMMA DemoStepInv ==
    ASSUME DemoShape, DemoBooks, DemoProgress, DemoNext
    PROVE  DemoShape' /\ DemoBooks' /\ DemoProgress'
  <1>0. demo.step \in 0..12 /\ (demo.claimed => demo.step = 0)
        /\ (ask[clerk].about # None => demo.step \in {5, 10, 11}) /\ AskShape
    BY DEF DemoShape, DemoProgress
  <1>1. CASE DemoStart
    <2>1. demo.step = 0 /\ ~demo.claimed /\ UNCHANGED <<ledgers, ask>>
          /\ demo' = [DemoOff EXCEPT !.step = 1]
      BY <1>1 DEF DemoStart
    <2>2. demo' = [step |-> 1, heard |-> DemoOff.heard, identical |-> FALSE, claimed |-> FALSE]
      BY <2>1 DEF DemoOff
    <2>3. DemoBooks'
      BY <2>1, BooksUntouched
    <2>4. DemoShape'
      <3>1. demo'.step = 1 /\ demo'.heard = DemoOff.heard /\ ~demo'.identical /\ ~demo'.claimed
            /\ demo'.identical \in BOOLEAN /\ demo'.claimed \in BOOLEAN
        BY <2>2
      <3>2. demo' = [step |-> demo'.step, heard |-> demo'.heard, identical |-> demo'.identical,
                     claimed |-> demo'.claimed]
        BY <2>2, DemoFields
      <3> QED BY <1>0, <2>1, <3>1, <3>2, AskStays, DemoOffShape DEF DemoShape
    <2>5. DemoProgress'
      BY <2>2 DEF DemoProgress, Behind
    <2> QED BY <2>3, <2>4, <2>5
  <1>2. CASE DemoRecords
    <2>1. CASE DemoCall /\ demo' = NextStep /\ UNCHANGED ask
      BY <2>1, BooksCall, RecordedStep
    <2>2. CASE /\ DemoRefused \/ (Doing("double-pledge") /\ RefusedAsEncumbered)
               /\ demo' = NextStep
               /\ UNCHANGED <<ledgers, ask>>
      <3>1. DemoBooks' /\ Lasts
        BY <2>2, BooksUntouched
      <3>2. demo.step \in {1, 2, 6, 7, 8}
        BY <1>0, <2>2, Positions DEF DemoRefused
      <3>3. /\ demo.step = 1 => "peer" \in peers["home"]
            /\ demo.step = 2 => "home" \in peers["peer"]
            /\ demo.step = 6 => subject \in peerAcks
        <4>1. ASSUME demo.step = 6, ~Peer!FreshNumber(subject) PROVE subject \in peerAcks
          BY <4>1 DEF Peer!FreshNumber, Peer!ackNullifierOf, ackNullifierOf, DemoBooks
        <4> QED BY <1>0, <2>2, <4>1, Positions DEF DemoRefused
      <3>4. "home" \in Registries /\ "peer" \in Registries
        BY RegistryPairs
      <3>5. /\ demo.step = 1 => "peer" \in peers'["home"]
            /\ demo.step = 2 => "home" \in peers'["peer"]
            /\ demo.step = 6 => subject \in peerAcks'
        BY <3>1, <3>3, <3>4 DEF Lasts
      <3> QED BY <2>2, <3>1, <3>2, <3>5, RecordedStep
    <2> QED BY <1>2, <2>1, <2>2 DEF DemoRecords
  <1>3. CASE DemoAsks
    <2>1. PICK c \in Checks : Doing(c) /\ ask[clerk].about = None
                              /\ Ask(clerk, IF c = "check-free" THEN control ELSE subject)
      BY <1>3 DEF DemoAsks
    <2>2. UNCHANGED <<ledgers, demo>>
      BY <1>3 DEF DemoAsks
    <2>3. demo.step \in {5, 10, 11}
      BY <1>0, <2>1, Positions DEF Checks
    <2>4. AskShape'
      BY <1>0, <2>1, AskReset DEF Ask
    <2>5. DemoBooks' /\ Lasts
      BY <2>2, BooksUntouched
    <2>6. DemoShape'
      BY <2>2, <2>3, <2>4 DEF DemoShape
    <2>7. DemoProgress'
      BY <2>2, <2>5, RegistryPairs DEF DemoProgress, Behind, Lasts, Conclusive
    <2> QED BY <2>5, <2>6, <2>7
  <1>4. CASE DemoHears
    <2>1. UNCHANGED <<ledgers, demo>> /\ AskShape' /\ ask'[clerk].about = ask[clerk].about
      BY <1>0, <1>4, AskHears DEF DemoHears
    <2>2. DemoBooks' /\ Lasts
      BY <2>1, BooksUntouched
    <2> QED BY <2>1, <2>2, DemoWaits
  <1>5. CASE DemoHeard
    <2> DEFINE c == DemoSteps[demo.step]
               h == [demo.heard EXCEPT ![c] = ask[clerk].of]
    <2>1. Answered(clerk) /\ ask' = [ask EXCEPT ![clerk] = NotAsking] /\ UNCHANGED ledgers
          /\ demo' = [NextStep EXCEPT !.heard[c] = ask[clerk].of]
      BY <1>5 DEF DemoHeard
    <2>2. demo.step \in {5, 10, 11} /\ ~demo.claimed
      BY <1>0, <2>1 DEF Answered
    <2>3. demo' = [step |-> demo.step + 1, heard |-> h, identical |-> demo.identical,
                   claimed |-> demo.claimed]
      BY <2>1 DEF NextStep, DemoShape
    <2>4. /\ h = [x \in Checks |-> h[x]]
          /\ \A x \in Checks : h[x] = IF x = c THEN ask[clerk].of ELSE demo.heard[x]
      BY DEF DemoShape
    <2>5. \A r \in Registries : ask[clerk].of[r].said \in Said
      BY <1>0, <2>1 DEF Answered, AskShape, Answer
    <2>6. \A x \in Checks : \/ \A r \in Registries : h[x][r].said = None
                            \/ \A r \in Registries : h[x][r].said \in Said
      BY <2>4, <2>5 DEF DemoShape
    <2> HIDE DEF h, c
    <2>7. AskShape' /\ ask'[clerk].about = None
      BY <1>0, <2>1, AskForgotten
    <2>8. DemoBooks' /\ Lasts
      BY <2>1, BooksUntouched
    <2>9. demo'.step = demo.step + 1 /\ demo'.heard = h /\ demo'.identical = demo.identical
          /\ demo'.claimed = demo.claimed
      BY <2>3
    <2>10. DemoShape'
      BY <2>2, <2>3, <2>4, <2>6, <2>7, <2>9 DEF DemoShape
    <2>11. DemoProgress'
      BY <2>2, <2>8, <2>9, RegistryPairs DEF DemoProgress, Behind, Lasts
    <2> QED BY <2>8, <2>10, <2>11
  <1>6. CASE DemoCompares
    <2> DEFINE same == \A r \in Registries : pledgeIn(r, subject).status # "ABSENT"
    <2> HIDE DEF same
    <2>1. demo' = [NextStep EXCEPT !.identical = same] /\ UNCHANGED <<ledgers, ask>>
          /\ demo.step = 9
      BY <1>0, <1>6, Positions DEF DemoCompares, same
    <2>2. demo' = [step |-> demo.step + 1, heard |-> demo.heard, identical |-> same,
                   claimed |-> demo.claimed]
      BY <2>1 DEF NextStep, DemoShape
    <2>3. DemoBooks' /\ Lasts
      BY <2>1, BooksUntouched
    <2>4. same \in BOOLEAN
      BY DEF same
    <2>5. same => \A r \in Registries : pledgeIn(r, subject)'.status # "ABSENT"
      BY <2>3 DEF Lasts, same
    <2>6. DemoShape'
      <3>1. demo'.step = 10 /\ demo'.heard = demo.heard /\ demo'.identical = same
            /\ demo'.claimed = demo.claimed
        <4>1. demo'.step = demo.step + 1 /\ demo'.heard = demo.heard /\ demo'.identical = same
              /\ demo'.claimed = demo.claimed
          BY <2>2, DemoFields
        <4> QED BY <2>1, <4>1
      <3>2. demo' = [step |-> demo'.step, heard |-> demo'.heard, identical |-> demo'.identical,
                     claimed |-> demo'.claimed]
        BY <2>2, DemoFields
      <3> QED BY <1>0, <2>1, <2>4, <3>1, <3>2, AskStays DEF DemoShape
    <2>7. DemoProgress'
      BY <1>0, <2>1, <2>2, <2>3, <2>5, RegistryPairs DEF DemoProgress, Behind, Lasts
    <2> QED BY <2>3, <2>6, <2>7
  <1>7. CASE DemoConcludes
    <2>1. demo' = [demo EXCEPT !.step = 0, !.claimed = TRUE] /\ UNCHANGED <<ledgers, ask>>
          /\ demo.step = 12 /\ Conclusive
      BY <1>0, <1>7, Positions DEF DemoConcludes
    <2>2. demo' = [step |-> 0, heard |-> demo.heard, identical |-> demo.identical, claimed |-> TRUE]
      BY <2>1 DEF DemoShape
    <2>3. DemoBooks' /\ Lasts
      BY <2>1, BooksUntouched
    <2>4. DemoShape'
      <3>1. demo'.step = 0 /\ demo'.heard = demo.heard /\ demo'.identical = demo.identical
            /\ demo'.claimed = TRUE
        BY <2>2
      <3>2. demo' = [step |-> demo'.step, heard |-> demo'.heard, identical |-> demo'.identical,
                     claimed |-> demo'.claimed]
        BY <2>2, DemoFields
      <3> QED BY <1>0, <2>1, <3>1, <3>2, AskStays DEF DemoShape
    <2>5. DemoProgress'
      BY <2>1, <2>2, <2>3, RegistryPairs DEF DemoProgress, Behind, Lasts, Conclusive
    <2> QED BY <2>3, <2>4, <2>5
  <1>8. CASE DemoFails
    <2>1. demo' = DemoOff /\ ask' = [ask EXCEPT ![clerk] = NotAsking]
      BY <1>8 DEF DemoFails
    <2>2. DemoBooks'
      BY <1>8, BooksUntouched, BooksCall, BooksOffer DEF DemoFails
    <2>3. AskShape' /\ ask'[clerk].about = None
      BY <1>0, <2>1, AskForgotten
    <2>4. DemoShape'
      <3>1. demo' = [step |-> demo'.step, heard |-> demo'.heard, identical |-> demo'.identical,
                     claimed |-> demo'.claimed]
        BY <2>1, DemoOffShape
      <3>2. demo'.step \in 0..12 /\ demo'.identical \in BOOLEAN /\ demo'.claimed \in BOOLEAN
        BY <2>1 DEF DemoOff
      <3>3. /\ demo'.heard = [c \in Checks |-> demo'.heard[c]]
            /\ \A c \in Checks, r \in Registries : demo'.heard[c][r].said = None
        BY <2>1 DEF DemoOff, Unheard, NotAsking, Awaited
      <3> QED BY <2>3, <3>1, <3>2, <3>3 DEF DemoShape
    <2>5. DemoProgress'
      BY <2>1, DemoOffShape DEF DemoProgress, Behind
    <2> QED BY <2>2, <2>4, <2>5
  <1>9. CASE HomeStep /\ UNCHANGED <<ask, demo>>
    <2>1. DemoBooks' /\ Lasts
      BY <1>9, BooksHome
    <2>2. AskShape' /\ ask'[clerk].about = ask[clerk].about
      BY <1>0, <1>9 DEF AskShape, Answer
    <2> QED BY <1>9, <2>1, <2>2, DemoWaits
  <1> QED BY <1>1, <1>2, <1>3, <1>4, <1>5, <1>6, <1>7, <1>8, <1>9 DEF DemoNext

LEMMA DemoInvariant == ReadersSpec => []DemoInv
  <1>1. DemoInv /\ [ReadersNext]_readerVars => DemoInv'
    <2> SUFFICES ASSUME DemoInv, [ReadersNext]_readerVars, reader' = "demo" PROVE DemoInv'
      BY DEF DemoInv, ReadersNext, panelVars, readerVars
    <2>1. CASE UNCHANGED readerVars
      <3>1. UNCHANGED <<ledgers, ask, demo, reader>>
        BY <2>1 DEF readerVars, lenderVars
      <3>2. DemoShape /\ DemoBooks /\ DemoProgress
        BY <3>1 DEF DemoInv
      <3>3. DemoBooks' /\ Lasts
        BY <3>1, <3>2, BooksUntouched
      <3>4. AskShape' /\ ask'[clerk].about = ask[clerk].about
        BY <3>1, <3>2 DEF AskShape, Answer, DemoShape
      <3> QED BY <3>1, <3>2, <3>3, <3>4, DemoWaits DEF DemoInv
    <2>2. CASE ReadersNext
      <3>1. reader = "demo" /\ DemoNext
        BY <2>2 DEF ReadersNext
      <3> QED BY <3>1, DemoStepInv DEF DemoInv
    <2> QED BY <2>1, <2>2
  <1> QED BY <1>1, InitDemo, PTL DEF ReadersSpec

\* Evidence the demonstration writes is backed by both ledgers, whatever failed before it, however
\* often the command was started again, and whatever registry A did meanwhile: each registry
\* declares the other, both hold the receivable, and registry A's was bound before the peer had one.
THEOREM EvidenceIsBacked == ReadersSpec => []EvidenceIsOnTheLedgers
  <1>1. DemoInv => EvidenceIsOnTheLedgers
    <2> SUFFICES ASSUME DemoInv, demo.claimed PROVE EvidenceIsOnTheLedgers
      BY DEF EvidenceIsOnTheLedgers
    <2>1. DemoShape /\ DemoBooks /\ DemoProgress /\ Conclusive
      BY DEF DemoInv, DemoProgress
    <2>2. \A r \in Registries : peers[r] = OthersThan(r)
      BY <2>1, RegistryPairs DEF DemoBooks, DemoProgress, Behind
    <2>3. /\ \A r \in Registries : pledgeIn(r, subject).status # "ABSENT"
          /\ peerPledges[subject].status # "ABSENT"
      BY <2>1 DEF DemoProgress, Conclusive, pledgeIn, Registries
    <2>4. subject \in peerAcks /\ peerPledges[subject].holderTag = holderTagOf(clerk, subject)
      BY <2>1, <2>3 DEF DemoBooks, DemoProgress, Behind
    <2>5. demo.heard["check-before"]["home"].said \in {"ENCUMBERED", "SETTLED"}
      <3> DEFINE h == demo.heard["check-before"]
      <3>1. encumbrance(h["peer"]) = "FREE" /\ \E r \in Registries : encumbrance(h[r]) # "FREE"
        BY <2>1 DEF Conclusive, encumberedAnywhere
      <3>2. \/ \A r \in Registries : h[r].said = None
            \/ \A r \in Registries : h[r].said \in Said
        BY <2>1 DEF DemoShape, Checks
      <3>3. \A r \in Registries : h[r].said \in Said
        BY <3>1, <3>2, NoneIsNoAnswer, RegistryPairs DEF encumbrance
      <3>4. h["home"].said \in Said /\ encumbrance(h["home"]) # "FREE"
        BY <3>1, <3>3, RegistryPairs
      <3> QED BY <3>4 DEF encumbrance, Said
    <2> QED BY <2>2, <2>3, <2>4, <2>5 DEF EvidenceIsOnTheLedgers
  <1> QED BY <1>1, DemoInvariant, PTL

-----------------------------------------------------------------------------
(* The panel.  It may answer from old reads, some of them lost, but what   *)
(* it read of a registry was true when its check had been started.         *)

Loads == [done : {"none", "pending", "ok", "failed"}, got : Views \cup Times \cup {None}]
Presses == [marker : {subject, control}, fresh : BOOLEAN, at : Times, uses : [Keys -> Nat]]

PanelShape ==
    /\ Typed
    /\ presses \in Seq(Presses) /\ Len(presses) <= MaxPresses
    /\ loads \in [1..MaxPresses -> [Keys -> Loads]]
    /\ cache \in [Keys -> 0..Len(presses)]
    /\ held \in [Registries -> [since : Times \cup {None}, atPress : BOOLEAN]]
    /\ \A p \in 1..MaxPresses, k \in Keys : p > Len(presses) => loads[p][k].done = "none"

\* A check waits for reads of its own or for younger ones than the time to live.
ReadsAreYoung ==
    \A p \in 1..Len(presses) :
        /\ presses[p].at <= now
        /\ \A k \in Keys :
            LET q == presses[p].uses[k] IN
            q \in 1..p /\ (presses[p].fresh => q = p) /\ presses[p].at < presses[q].at + Ttl

\* The history says how long a registry has held the receivable, and a read that does not show it
\* is of a check that was started before.
ReadsWereTrue ==
    \A r \in Registries :
        /\ held[r].since # None <=> TakenUp(r)
        /\ \A p \in 1..Len(presses) :
            /\ loads[p][r].done = "ok" /\ loads[p][r].got.status \notin {"PLEDGED", "SETTLED"}
            /\ held[r].since # None
            => /\ presses[p].at <= held[r].since
               /\ p = Len(presses) => ~held[r].atPress

PanelInv == reader = "panel" => PanelShape /\ ReadsAreYoung /\ ReadsWereTrue

LEMMA TypedLedgers ==
    ASSUME Typed
    PROVE  /\ now \in Times /\ now \in Nat /\ Times \subseteq Nat
           /\ None \notin Views \cup Times
           /\ UNCHANGED ledgers => Typed'
           /\ HomeStep => Typed'
           /\ \A r \in Registries : findPledge(r, subject) \in Views
                /\ findPledge(r, subject).status = pledgeIn(r, subject).status
  <1>1. now \in Times /\ Times \subseteq Nat /\ None \notin Views \cup Times
    BY RegistryAssumption, FederationAssumption
    DEF RegistryAssumption, FederationAssumption, Typed, TypeOK, Times
  <1>2. UNCHANGED ledgers => Typed'
    BY DEF Typed, TypeOK, PeerProofs!TypeOK, ledgers, homeLedger, peerLedger, membership,
           acknowledgments, treasury
  <1>3. ASSUME HomeStep PROVE Typed'
    <2>1. TypeOK' /\ UNCHANGED peerLedger
      BY <1>3, StepType DEF Typed, HomeStep
    <2> QED BY <2>1 DEF Typed, TypeOK, peerLedger, PeerProofs!TypeOK, PeerProofs!Times, Times
  <1> QED BY <1>1, <1>2, <1>3, PledgesTyped

LEMMA KeysOfRegistries == Registries \subseteq Keys /\ "head" \in Keys /\ "head" \notin Registries
  BY DEF Keys, Registries

LEMMA PressTimes ==
    ASSUME PanelShape, NEW p \in 1..Len(presses)
    PROVE  presses[p].at \in Times /\ presses[p].at \in Nat
  <1>1. presses \in Seq(Presses)
    BY DEF PanelShape
  <1> HIDE DEF Presses
  <1>2. presses[p] \in Presses
    BY <1>1, ElementOfSeq
  <1> QED BY <1>2, TypedLedgers DEF PanelShape, Presses

LEMMA InitPanel == ReadersInit => PanelInv
  <1> SUFFICES ASSUME ReadersInit, reader = "panel" PROVE PanelInv
    BY DEF PanelInv
  <1>1. LedgersReady /\ presses = <<>> /\ loads = [p \in 1..MaxPresses |-> [k \in Keys |-> NotLoading]]
        /\ cache = [k \in Keys |-> 0] /\ held = [r \in Registries |-> NotHeld]
    BY DEF ReadersInit
  <1>2. Typed
    BY <1>1, InitTyped
  <1>3. PanelShape
    BY <1>1, <1>2, ReadersAssumption
    DEF ReadersAssumption, PanelShape, Loads, NotLoading, Load, NotHeld
  <1>4. ReadsAreYoung
    BY <1>1 DEF ReadsAreYoung
  <1>5. ReadsWereTrue
    <2>1. \A r \in Registries : pledgeIn(r, subject).status = "ABSENT"
      BY <1>1, FederationAssumption
      DEF FederationAssumption, LedgersReady, NothingPledged, Peer!NothingPledged, Absent,
          Peer!Absent, pledgeIn
    <2> QED BY <1>1, <2>1 DEF ReadsWereTrue, TakenUp, NotHeld
  <1> QED BY <1>3, <1>4, <1>5 DEF PanelInv

\* A step that moves none of what the panel has asked and read.
LEMMA PanelStays ==
    ASSUME PanelShape, ReadsAreYoung, ReadsWereTrue,
           UNCHANGED <<ledgers, presses, loads, cache, held>>
    PROVE  PanelShape' /\ ReadsAreYoung' /\ ReadsWereTrue'
  <1>1. Typed' /\ UNCHANGED <<now, pledges, peerPledges>>
    BY TypedLedgers DEF PanelShape, ledgers, homeLedger, peerLedger
  <1> QED BY <1>1 DEF PanelShape, ReadsAreYoung, ReadsWereTrue, TakenUp, pledgeIn

LEMMA PressStep ==
    ASSUME PanelShape, ReadsAreYoung, ReadsWereTrue,
           NEW n \in {subject, control}, NEW fresh \in BOOLEAN, Press(n, fresh)
    PROVE  PanelShape' /\ ReadsAreYoung' /\ ReadsWereTrue'
  <1> DEFINE p == Len(presses) + 1
             uses == [k \in Keys |-> IF ~fresh /\ Cached(k) THEN cache[k] ELSE p]
             x == [marker |-> n, fresh |-> fresh, at |-> now, uses |-> uses]
             own == [k \in Keys |-> IF uses[k] = p THEN Load("pending", None) ELSE NotLoading]
  <1>1. /\ p <= MaxPresses /\ presses' = Append(presses, x) /\ loads' = [loads EXCEPT ![p] = own]
        /\ cache' = uses /\ UNCHANGED ledgers
        /\ held' = [r \in Registries |-> [held[r] EXCEPT !.atPress = held[r].since # None]]
    BY DEF Press
  <1>2. Typed' /\ UNCHANGED <<now, pledges, peerPledges>>
    BY <1>1, TypedLedgers DEF PanelShape, ledgers, homeLedger, peerLedger
  <1>3. now \in Times /\ now \in Nat /\ Times \subseteq Nat /\ Ttl \in Nat \ {0}
        /\ Len(presses) \in Nat /\ MaxPresses \in Nat
    BY TypedLedgers, ReadersAssumption DEF ReadersAssumption, PanelShape
  <1>4. \A k \in Keys : /\ uses[k] \in 1..p /\ (fresh => uses[k] = p)
                        /\ uses[k] # p => now < presses[uses[k]].at + Ttl
    <2>1. \A q \in 1..Len(presses) : presses[q].at \in Nat
      BY PressTimes
    <2> QED BY <1>3, <2>1 DEF Cached, PanelShape
  <1>5. uses \in [Keys -> Nat] /\ uses \in [Keys -> 0..p]
    BY <1>3, <1>4
  <1> HIDE DEF uses
  <1>6. x \in Presses /\ own \in [Keys -> Loads]
        /\ \A k \in Keys : own[k].done # "ok"
    BY <1>3, <1>5 DEF Presses, Loads, Load, NotLoading
  <1> HIDE DEF own
  <1>7. /\ presses' \in Seq(Presses) /\ Len(presses') = p /\ presses'[p] = x
        /\ \A q \in 1..Len(presses) : presses'[q] = presses[q]
    BY <1>1, <1>3, <1>6 DEF PanelShape
  <1>8. x.at = now /\ x.uses = uses /\ x.fresh = fresh
    OBVIOUS
  <1> HIDE DEF x
  <1>9. PanelShape'
    <2>1. held' \in [Registries -> [since : Times \cup {None}, atPress : BOOLEAN]]
      BY <1>1 DEF PanelShape
    <2>2. loads' \in [1..MaxPresses -> [Keys -> Loads]]
          /\ \A q \in 1..MaxPresses : q # p => loads'[q] = loads[q]
      BY <1>1, <1>6 DEF PanelShape
    <2> QED BY <1>1, <1>2, <1>3, <1>5, <1>7, <2>1, <2>2 DEF PanelShape
  <1>10. ReadsAreYoung'
    <2>1. ASSUME NEW q \in 1..p
          PROVE  /\ presses'[q].at <= now
                 /\ \A k \in Keys : LET u == presses'[q].uses[k] IN
                    u \in 1..q /\ (presses'[q].fresh => u = q)
                    /\ presses'[q].at < presses'[u].at + Ttl
      <3>1. CASE q = p
        <4>1. ASSUME NEW k \in Keys
              PROVE  uses[k] \in 1..p /\ (fresh => uses[k] = p) /\ now < presses'[uses[k]].at + Ttl
          <5>1. CASE uses[k] = p
            BY <1>3, <1>4, <1>7, <1>8, <5>1
          <5>2. CASE uses[k] # p
            <6>1. uses[k] \in 1..Len(presses)
              BY <1>3, <1>4, <5>2
            <6> QED BY <1>4, <1>7, <5>2, <6>1
          <5> QED BY <5>1, <5>2
        <4> QED BY <1>3, <1>7, <1>8, <3>1, <4>1
      <3>2. CASE q # p
        <4>1. q \in 1..Len(presses)
          BY <1>3, <2>1, <3>2
        <4>2. \A u \in 1..q : presses'[u] = presses[u]
          BY <1>3, <1>7, <4>1
        <4> QED BY <1>7, <4>1, <4>2 DEF ReadsAreYoung
      <3> QED BY <3>1, <3>2
    <2> QED BY <1>2, <1>7, <2>1 DEF ReadsAreYoung
  <1>11. ReadsWereTrue'
    <2> SUFFICES ASSUME NEW r \in Registries
                 PROVE  /\ held'[r].since # None <=> TakenUp(r)'
                        /\ \A q \in 1..p :
                            /\ loads'[q][r].done = "ok"
                            /\ loads'[q][r].got.status \notin {"PLEDGED", "SETTLED"}
                            /\ held'[r].since # None
                            => presses'[q].at <= held'[r].since /\ q # p
      BY <1>7 DEF ReadsWereTrue
    <2>1. held'[r].since = held[r].since
      BY <1>1 DEF PanelShape
    <2>2. TakenUp(r)' <=> TakenUp(r)
      BY <1>2 DEF TakenUp, pledgeIn
    <2>3. loads'[p][r].done # "ok"
      BY <1>1, <1>3, <1>6, KeysOfRegistries DEF PanelShape
    <2>4. \A q \in 1..p : q # p => q \in 1..Len(presses) /\ loads'[q] = loads[q]
      BY <1>1, <1>3 DEF PanelShape
    <2> QED BY <1>7, <2>1, <2>2, <2>3, <2>4 DEF ReadsWereTrue
  <1> QED BY <1>9, <1>10, <1>11

\* A read that is answered now tells what the registry is now, and one that is lost tells nothing.
LEMMA LoadStep ==
    ASSUME PanelShape, ReadsAreYoung, ReadsWereTrue,
           NEW p \in 1..Len(presses), NEW k \in Keys, Serve(p, k) \/ Lose(p, k)
    PROVE  PanelShape' /\ ReadsAreYoung' /\ ReadsWereTrue'
  <1>1. UNCHANGED <<ledgers, presses, held>>
    BY DEF Serve, Lose
  <1>2. Typed' /\ UNCHANGED <<now, pledges, peerPledges>>
    BY <1>1, TypedLedgers DEF PanelShape, ledgers, homeLedger, peerLedger
  <1>3. PICK x \in Loads :
          /\ loads' = [loads EXCEPT ![p][k] = x] /\ x.done # "none"
          /\ x.done = "ok" => k = "head" \/ x.got = findPledge(k, subject)
    <2>1. CASE Serve(p, k)
      <3> DEFINE g == IF k = "head" THEN now ELSE findPledge(k, subject)
      <3>1. g \in Views \cup Times
        BY TypedLedgers DEF PanelShape, Keys
      <3> HIDE DEF g
      <3>2. Load("ok", g) \in Loads /\ Load("ok", g).done = "ok" /\ Load("ok", g).got = g
        BY <3>1 DEF Load, Loads
      <3>3. loads' = [loads EXCEPT ![p][k] = Load("ok", g)]
        BY <2>1 DEF Serve, g
      <3> QED BY <3>2, <3>3 DEF g
    <2>2. CASE Lose(p, k)
      <3>1. Load("failed", None) \in Loads /\ Load("failed", None).done = "failed"
        BY DEF Load, Loads
      <3> QED BY <2>2, <3>1 DEF Lose
    <2> QED BY <2>1, <2>2
  <1>4. p \in 1..MaxPresses /\ Len(presses) \in Nat /\ MaxPresses \in Nat
    BY ReadersAssumption DEF ReadersAssumption, PanelShape
  <1>5. /\ loads' \in [1..MaxPresses -> [Keys -> Loads]]
        /\ \A q \in 1..MaxPresses, j \in Keys :
            loads'[q][j] = IF q = p /\ j = k THEN x ELSE loads[q][j]
    BY <1>3, <1>4 DEF PanelShape
  <1>6. cache' \in [Keys -> 0..Len(presses)]
    BY <1>4 DEF PanelShape, Serve, Lose
  <1>7. PanelShape'
    BY <1>1, <1>2, <1>4, <1>5, <1>6 DEF PanelShape
  <1>8. ReadsAreYoung'
    BY <1>1, <1>2 DEF ReadsAreYoung
  <1>9. ReadsWereTrue'
    <2> SUFFICES ASSUME NEW r \in Registries
                 PROVE  /\ held[r].since # None <=> TakenUp(r)
                        /\ \A q \in 1..Len(presses) :
                            /\ loads'[q][r].done = "ok"
                            /\ loads'[q][r].got.status \notin {"PLEDGED", "SETTLED"}
                            /\ held[r].since # None
                            => /\ presses[q].at <= held[r].since
                               /\ q = Len(presses) => ~held[r].atPress
      BY <1>1, <1>2 DEF ReadsWereTrue, TakenUp, pledgeIn
    <2>1. held[r].since # None <=> TakenUp(r)
      BY DEF ReadsWereTrue
    <2>2. ASSUME NEW q \in 1..Len(presses), loads'[q][r].done = "ok",
                 loads'[q][r].got.status \notin {"PLEDGED", "SETTLED"}, held[r].since # None
          PROVE  loads'[q][r] = loads[q][r]
      <3>1. CASE q = p /\ r = k
        <4>1. loads'[q][r] = x /\ x.got = findPledge(r, subject)
          BY <1>3, <1>4, <1>5, <2>2, <3>1, KeysOfRegistries
        <4> QED BY <2>1, <2>2, <4>1, TypedLedgers DEF PanelShape, TakenUp
      <3>2. CASE ~(q = p /\ r = k)
        BY <1>4, <1>5, <3>2, KeysOfRegistries DEF PanelShape
      <3> QED BY <3>1, <3>2
    <2> QED BY <2>1, <2>2 DEF ReadsWereTrue
  <1> QED BY <1>7, <1>8, <1>9

LEMMA MoveStep ==
    ASSUME PanelShape, ReadsAreYoung, ReadsWereTrue, LedgersMove
    PROVE  PanelShape' /\ ReadsAreYoung' /\ ReadsWereTrue'
  <1>1. HomeStep /\ UNCHANGED <<presses, loads, cache>>
    BY DEF LedgersMove
  <1>2. held' = [r \in Registries |->
                    CASE ~TakenUp(r)' -> NotHeld
                      [] TakenUp(r)' /\ held[r].since = None -> [NotHeld EXCEPT !.since = now]
                      [] OTHER -> held[r]]
    BY DEF LedgersMove
  <1>3. Typed' /\ now \in Times /\ now \in Nat /\ Times \subseteq Nat /\ None \notin Times
    BY <1>1, TypedLedgers DEF PanelShape
  <1>4. now' \in Nat /\ now' >= now
    <2>1. now' = now \/ now' = now + 1
      BY <1>1, PledgeMoves, FederationAssumption
      DEF FederationAssumption, HomeStep, PanelShape, Typed
    <2> QED BY <1>3, <2>1
  <1>5. ASSUME NEW r \in Registries
        PROVE  /\ held'[r] \in [since : Times \cup {None}, atPress : BOOLEAN]
               /\ held'[r].since # None <=> TakenUp(r)'
               /\ held'[r].since # None =>
                    held'[r] = held[r] \/ (held'[r].since = now /\ ~held'[r].atPress)
    <2>1. CASE ~TakenUp(r)'
      BY <1>2, <2>1 DEF NotHeld
    <2>2. CASE TakenUp(r)' /\ held[r].since = None
      <3>1. held'[r] = [since |-> now, atPress |-> FALSE]
        BY <1>2, <2>2 DEF NotHeld
      <3> QED BY <1>3, <2>2, <3>1
    <2>3. CASE TakenUp(r)' /\ held[r].since # None
      BY <1>2, <2>3 DEF PanelShape
    <2> QED BY <2>1, <2>2, <2>3
  <1>6. PanelShape'
    BY <1>1, <1>2, <1>3, <1>5 DEF PanelShape
  <1>7. \A p \in 1..Len(presses) : presses[p].at <= now /\ presses[p].at \in Nat
    BY PressTimes DEF ReadsAreYoung
  <1>8. ReadsAreYoung'
    BY <1>1, <1>3, <1>4, <1>7 DEF ReadsAreYoung
  <1>9. ReadsWereTrue'
    BY <1>1, <1>5, <1>7 DEF ReadsWereTrue
  <1> QED BY <1>6, <1>8, <1>9

LEMMA PanelStepInv == PanelInv /\ [ReadersNext]_readerVars => PanelInv'
  <1> SUFFICES ASSUME PanelInv, [ReadersNext]_readerVars, reader' = "panel" PROVE PanelInv'
    BY DEF PanelInv
  <1>1. reader = "panel"
    BY DEF ReadersNext, readerVars
  <1>2. PanelShape /\ ReadsAreYoung /\ ReadsWereTrue
    BY <1>1 DEF PanelInv
  <1>3. CASE UNCHANGED readerVars
    BY <1>2, <1>3, PanelStays DEF readerVars, panelVars, PanelInv
  <1>4. CASE PanelNext
    BY <1>2, <1>4, PressStep, LoadStep, MoveStep, PanelStays DEF PanelNext, Show, PanelInv
  <1> QED BY <1>1, <1>3, <1>4 DEF ReadersNext

\* A receivable that a registry has held since before the oldest read the panel may reuse is never
\* shown as free, whichever reads were reused, lost or late, and no answer is shown to another
\* question.
THEOREM PanelIsHonest == ReadersSpec => PanelAnswersHonestly
  <1> DEFINE Honest ==
        /\ shown'.marker = LastPress.marker
        /\ (shown'.bit = "free" /\ shown'.marker = subject) => \A r \in Registries :
            held[r].since # None =>
                ~(LastPress.fresh /\ held[r].atPress) /\ held[r].since + Ttl > LastPress.at
  <1>1. ASSUME PanelInv, [ReadersNext]_readerVars, shown' \notin {None, shown} PROVE Honest
    <2>1. PanelShape /\ ReadsAreYoung /\ ReadsWereTrue /\ \E p \in 1..Len(presses) : Show(p)
      BY <1>1 DEF PanelInv, readerVars, panelVars, ReadersNext, PanelNext, Press, Serve, Lose,
                  LedgersMove
    <2>2. PICK p \in 1..Len(presses) : Show(p)
      BY <2>1
    <2> DEFINE uses == presses[p].uses
               load == [k \in Keys |-> loads[uses[k]][k]]
               verdict == [r \in Registries |->
                            verdictOf(load[r], presses[p].marker, TimeOf(load["head"]))]
    <2>3. /\ p = Len(presses) /\ LastPress = presses[p]
          /\ \A k \in Keys : load[k].done \in {"ok", "failed"}
          /\ shown'.marker = presses[p].marker
          /\ shown'.bit = bitOf({verdict[r] : r \in Registries})
      BY <2>2 DEF Show, Current, LastPress
    <2>4. ASSUME shown'.bit = "free", shown'.marker = subject,
                 NEW r \in Registries, held[r].since # None
          PROVE  ~(LastPress.fresh /\ held[r].atPress) /\ held[r].since + Ttl > LastPress.at
      <3>1. verdict[r] = "free"
        <4>1. verdict[r] \in {"unreachable", "encumbered", "settled", "free"}
          BY DEF verdictOf
        <4>2. "encumbered" \notin {verdict[q] : q \in Registries}
              /\ "settled" \notin {verdict[q] : q \in Registries}
              /\ "unreachable" \notin {verdict[q] : q \in Registries}
          BY <2>3, <2>4 DEF bitOf
        <4> QED BY <4>1, <4>2
      <3>2. load[r].done = "ok" /\ load[r].got.status \notin {"PLEDGED", "SETTLED"}
        <4>1. verdict[r] = verdictOf(load[r], subject, TimeOf(load["head"]))
          BY <2>3, <2>4
        <4> QED BY <2>3, <3>1, <4>1, KeysOfRegistries DEF verdictOf, encumbranceOf
      <3> DEFINE q == uses[r]
      <3>3. /\ load[r] = loads[q][r] /\ q \in 1..p /\ (presses[p].fresh => q = p)
            /\ presses[p].at < presses[q].at + Ttl
        BY <2>1, <2>3, KeysOfRegistries DEF ReadsAreYoung
      <3> HIDE DEF q, load, verdict
      <3>4. q \in 1..Len(presses) /\ Len(presses) \in Nat
        BY <2>1, <2>3, <3>3 DEF PanelShape
      <3>5. presses[q].at <= held[r].since /\ (q = p => ~held[r].atPress)
        BY <2>1, <2>3, <2>4, <3>2, <3>3, <3>4 DEF ReadsWereTrue
      <3>6. presses[q].at \in Nat /\ presses[p].at \in Nat /\ held[r].since \in Nat /\ Ttl \in Nat
        <4>1. Times \subseteq Nat /\ held[r].since \in Times /\ Ttl \in Nat
          BY <2>1, <2>4, TypedLedgers, ReadersAssumption DEF ReadersAssumption, PanelShape
        <4> QED BY <2>1, <3>4, <4>1, PressTimes
      <3> QED BY <2>3, <3>3, <3>5, <3>6
    <2> QED BY <2>3, <2>4
  <1>2. PanelInv /\ [ReadersNext]_readerVars => [shown' \notin {None, shown} => Honest]_readerVars
    BY <1>1
  <1>3. ReadersSpec => []PanelInv
    BY InitPanel, PanelStepInv, PTL DEF ReadersSpec
  <1> QED BY <1>2, <1>3, PTL DEF ReadersSpec, PanelAnswersHonestly

-----------------------------------------------------------------------------
(* The plans of a recorded run, as what their steps are and the order they *)
(* come in.                                                                *)

DebtorStep == Step("admitDebtor", None, None, None)
LenderStep(f) == Step("admitFinancier", None, f, None)
AckStep(n) == Step("acknowledge", n, None, None)
OfferStep(f) == Step("offer", main, f, None)
AcceptStep(n, f) == Step("accept", n, f, None)
ReleaseStep == Step("release", main, lenderA, None)
PayStep == Step("payInvoice", main, None, None)
ClaimStep == Step("claimAsHolder", main, lenderB, None)
CertifyStep == Step("certifyBorrowingBase", None, lenderA, None)
CheckStep == Step("checkCertificate", None, None, None)
TakeRestStep == Step("acceptBatch", None, lenderA, None)
RequestStep == Step("requestDisclosure", main, None, None)
ApproveStep(i) == Step("approveDisclosure", main, i, None)
OpenCaseStep == Step("openCase", None, None, None)
ApproveCaseStep(i) == Step("approveCase", None, i, None)
OpenWholeStep == Step("openWholeCase", None, None, None)
AcrossStep == Step("checkAcross", main, None, None)

\* The calls that must be refused, with DoublePledge.
FraudStep(n) == Step("offer", n, lenderB, "NOT_ACKNOWLEDGED")
SellersClaim == Step("claimAsSeller", main, None, "NOT_PAYEE")
Overstated == Step("certifyBorrowingBase", None, lenderA, "BELOW_FLOOR")

\* The steps of each plan; the console's are among the command line's.
ConsoleSteps ==
    {DebtorStep, LenderStep(lenderA), AckStep(main), OfferStep(lenderA), AcceptStep(main, lenderA),
     DoublePledge, RequestStep, ApproveStep(keyholder1), ApproveStep(keyholder3), OpenDisclosure}

CliSteps ==
    ConsoleSteps
    \cup {LenderStep(lenderB), FraudStep(forged), FraudStep(inflated), ReleaseStep,
          OfferStep(lenderB), AcceptStep(main, lenderB), PayStep, SellersClaim, ClaimStep}
    \cup {AckStep(n) : n \in Elements(pool)}
    \cup {Overstated, CertifyStep, CheckStep, AcceptStep(pool[1], lenderA), TakeRestStep}
    \cup {OpenCaseStep, ApproveCaseStep(keyholder1), ApproveCaseStep(keyholder3),
          OpenWholeStep, AcrossStep}

\* Where a step stands in the plan of the command line.  The console's is a part of it.
Place(s) ==
    LET last == 15 + Len(pool)
        first(p) == IF s.p = p THEN 1 ELSE 2
    IN  CASE s.op = "admitDebtor" -> 1
          [] s.op = "admitFinancier" -> 1 + first(lenderA)
          [] s.op = "acknowledge" ->
                IF s.n = main THEN 4 ELSE 15 + (CHOOSE i \in DOMAIN pool : pool[i] = s.n)
          [] s.op = "offer" -> IF s.n = forged THEN 7 ELSE IF s.n = inflated THEN 8
                               ELSE IF s.refusal # None THEN 9 ELSE IF s.p = lenderA THEN 5 ELSE 11
          [] s.op = "accept" -> IF s.n # main THEN last + 4 ELSE IF s.p = lenderA THEN 6 ELSE 12
          [] s.op = "release" -> 10
          [] s.op = "payInvoice" -> 13
          [] s.op = "claimAsSeller" -> 14
          [] s.op = "claimAsHolder" -> 15
          [] s.op = "certifyBorrowingBase" -> IF s.refusal # None THEN last + 1 ELSE last + 2
          [] s.op = "checkCertificate" -> last + 3
          [] s.op = "acceptBatch" -> last + 5
          [] s.op = "requestDisclosure" -> last + 6
          [] s.op = "approveDisclosure" -> last + 6 + first(keyholder1)
          [] s.op = "open" -> last + 9
          [] s.op = "openCase" -> last + 10
          [] s.op = "approveCase" -> last + 10 + first(keyholder1)
          [] s.op = "openWholeCase" -> last + 13
          [] OTHER -> last + 14

\* The pool as a sequence: its receivables are different ones, and there are two or more.
LEMMA PoolReads ==
    /\ pool \in Seq(Invoices) /\ Len(pool) \in Nat /\ Len(pool) > 1 /\ DOMAIN pool = 1..Len(pool)
    /\ Elements(pool) \subseteq Invoices /\ pool[1] \in Elements(pool)
    /\ Elements(Tail(pool)) \subseteq Elements(pool) /\ Tail(pool) \in Pools /\ Tail(pool) # <<>>
    /\ Elements(pool) = {pool[1]} \cup Elements(Tail(pool))
    /\ \A i \in DOMAIN pool : (CHOOSE j \in DOMAIN pool : pool[j] = pool[i]) = i
  <1>1. PICK k \in 0..PoolWidth : pool \in [1..k -> Invoices]
      BY LifecycleAssumption DEF LifecycleAssumption, Pools
  <1>2. k \in Nat /\ PoolWidth \in Nat /\ k <= PoolWidth
      BY RegistryAssumption DEF RegistryAssumption
  <1>3. pool \in Seq(Invoices) /\ Len(pool) = k /\ DOMAIN pool = 1..k
      BY <1>1, <1>2
  <1>4. k > 1
      BY <1>3, LifecycleAssumption DEF LifecycleAssumption
  <1>5. /\ Tail(pool) \in Seq(Invoices) /\ Len(Tail(pool)) = k - 1 /\ DOMAIN Tail(pool) = 1..(k - 1)
        /\ \A i \in 1..(k - 1) : Tail(pool)[i] = pool[i + 1]
    <2>1. pool # <<>>
      BY <1>2, <1>3, <1>4
    <2>2. /\ Tail(pool) \in Seq(Invoices) /\ Len(Tail(pool)) = k - 1
          /\ \A i \in 1..Len(Tail(pool)) : Tail(pool)[i] = pool[i + 1]
      BY <1>3, <2>1, HeadTailProperties
    <2>3. DOMAIN Tail(pool) = 1..(k - 1)
      BY <2>2, LenProperties
    <2> QED BY <2>2, <2>3
  <1>6. Tail(pool) \in Pools
    <2>1. Tail(pool) \in [1..Len(Tail(pool)) -> Invoices]
      BY <1>5, LenProperties
    <2>2. k - 1 \in 0..PoolWidth
      BY <1>2, <1>4
    <2> QED BY <1>5, <2>1, <2>2 DEF Pools
  <1>7. Elements(pool) = {pool[1]} \cup Elements(Tail(pool))
    <2>1. ASSUME NEW i \in 1..k PROVE pool[i] = pool[1] \/ \E j \in 1..(k - 1) : pool[i] = Tail(pool)[j]
      <3>1. CASE i = 1
        BY <3>1
      <3>2. CASE i # 1
        <4>1. i - 1 \in 1..(k - 1) /\ (i - 1) + 1 = i
          BY <1>2, <3>2
        <4> QED BY <1>5, <4>1
      <3> QED BY <3>1, <3>2
    <2>2. \A j \in 1..(k - 1) : j + 1 \in 1..k
      BY <1>2
    <2>3. 1 \in 1..k
      BY <1>2, <1>4
    <2>4. ASSUME NEW i \in 1..k PROVE pool[i] \in {pool[1]} \cup Elements(Tail(pool))
      BY <1>5, <2>1 DEF Elements
    <2>5. Elements(Tail(pool)) \subseteq Elements(pool)
      BY <1>3, <1>5, <2>2 DEF Elements
    <2>6. pool[1] \in Elements(pool)
      BY <1>3, <2>3 DEF Elements
    <2> QED BY <1>3, <2>4, <2>5, <2>6 DEF Elements
  <1>8. \A i, j \in DOMAIN pool : pool[i] = pool[j] => i = j
      BY LifecycleAssumption DEF LifecycleAssumption, Distinct
  <1>9. Elements(pool) \subseteq Invoices
      BY <1>1, <1>3 DEF Elements
  <1>10. Tail(pool) # <<>>
    <2>1. Len(Tail(pool)) # 0
      BY <1>2, <1>4, <1>5
    <2> QED BY <1>5, <2>1, EmptySeq
  <1> QED BY <1>2, <1>3, <1>4, <1>6, <1>7, <1>8, <1>9, <1>10

\* Two invoices of the pool are not among the three of the receivable the run is about.
LEMMA RunInvoices ==
    /\ main \in Invoices /\ forged \in Invoices /\ inflated \in Invoices
    /\ main # forged /\ main # inflated /\ forged # inflated
    /\ \A n \in Elements(pool) : n # main /\ n # forged /\ n # inflated
    /\ lenderA \in Financiers /\ lenderB \in Financiers /\ lenderA # lenderB
  BY LifecycleAssumption DEF LifecycleAssumption

\* A code is not the absence of one.
LEMMA Codes ==
    /\ "NOT_ACKNOWLEDGED" # None /\ "ALREADY_ENCUMBERED" # None
    /\ "NOT_PAYEE" # None /\ "BELOW_FLOOR" # None
  BY LifecycleAssumption DEF LifecycleAssumption

LEMMA KeyholdersDiffer == keyholder1 # keyholder2 /\ keyholder1 # keyholder3 /\ keyholder2 # keyholder3
  BY LifecycleAssumption DEF LifecycleAssumption

\* Where each step stands.
LEMMA OpeningPlaces ==
    /\ Place(DebtorStep) = 1
    /\ Place(LenderStep(lenderA)) = 2
    /\ Place(LenderStep(lenderB)) = 3
    /\ Place(AckStep(main)) = 4
    /\ Place(OfferStep(lenderA)) = 5
    /\ Place(AcceptStep(main, lenderA)) = 6
  <1>1. Place(DebtorStep) = 1
    BY RunInvoices, PoolReads, Codes, KeyholdersDiffer DEF Place, Step, DebtorStep
  <1>2. Place(LenderStep(lenderA)) = 2
    BY RunInvoices, PoolReads, Codes, KeyholdersDiffer DEF Place, Step, LenderStep
  <1>3. Place(LenderStep(lenderB)) = 3
    BY RunInvoices, PoolReads, Codes, KeyholdersDiffer DEF Place, Step, LenderStep
  <1>4. Place(AckStep(main)) = 4
    BY RunInvoices, PoolReads, Codes, KeyholdersDiffer DEF Place, Step, AckStep
  <1>5. Place(OfferStep(lenderA)) = 5
    BY RunInvoices, PoolReads, Codes, KeyholdersDiffer DEF Place, Step, OfferStep
  <1>6. Place(AcceptStep(main, lenderA)) = 6
    BY RunInvoices, PoolReads, Codes, KeyholdersDiffer DEF Place, Step, AcceptStep
  <1> QED BY <1>1, <1>2, <1>3, <1>4, <1>5, <1>6

LEMMA FinancingPlaces ==
    /\ Place(FraudStep(forged)) = 7
    /\ Place(FraudStep(inflated)) = 8
    /\ Place(DoublePledge) = 9
    /\ Place(ReleaseStep) = 10
    /\ Place(OfferStep(lenderB)) = 11
    /\ Place(AcceptStep(main, lenderB)) = 12
    /\ Place(PayStep) = 13
    /\ Place(SellersClaim) = 14
    /\ Place(ClaimStep) = 15
  <1>1. Place(FraudStep(forged)) = 7
    BY RunInvoices, PoolReads, Codes, KeyholdersDiffer DEF Place, Step, FraudStep
  <1>2. Place(FraudStep(inflated)) = 8
    BY RunInvoices, PoolReads, Codes, KeyholdersDiffer DEF Place, Step, FraudStep
  <1>3. Place(DoublePledge) = 9
    BY RunInvoices, PoolReads, Codes, KeyholdersDiffer DEF Place, Step, DoublePledge
  <1>4. Place(ReleaseStep) = 10
    BY RunInvoices, PoolReads, Codes, KeyholdersDiffer DEF Place, Step, ReleaseStep
  <1>5. Place(OfferStep(lenderB)) = 11
    BY RunInvoices, PoolReads, Codes, KeyholdersDiffer DEF Place, Step, OfferStep
  <1>6. Place(AcceptStep(main, lenderB)) = 12
    BY RunInvoices, PoolReads, Codes, KeyholdersDiffer DEF Place, Step, AcceptStep
  <1>7. Place(PayStep) = 13
    BY RunInvoices, PoolReads, Codes, KeyholdersDiffer DEF Place, Step, PayStep
  <1>8. Place(SellersClaim) = 14
    BY RunInvoices, PoolReads, Codes, KeyholdersDiffer DEF Place, Step, SellersClaim
  <1>9. Place(ClaimStep) = 15
    BY RunInvoices, PoolReads, Codes, KeyholdersDiffer DEF Place, Step, ClaimStep
  <1> QED BY <1>1, <1>2, <1>3, <1>4, <1>5, <1>6, <1>7, <1>8, <1>9

LEMMA BasePlaces ==
    /\ Place(Overstated) = 15 + Len(pool) + 1
    /\ Place(CertifyStep) = 15 + Len(pool) + 2
    /\ Place(CheckStep) = 15 + Len(pool) + 3
    /\ Place(AcceptStep(pool[1], lenderA)) = 15 + Len(pool) + 4
    /\ Place(TakeRestStep) = 15 + Len(pool) + 5
  <1>1. Place(Overstated) = 15 + Len(pool) + 1
    BY RunInvoices, PoolReads, Codes, KeyholdersDiffer DEF Place, Step, Overstated
  <1>2. Place(CertifyStep) = 15 + Len(pool) + 2
    BY RunInvoices, PoolReads, Codes, KeyholdersDiffer DEF Place, Step, CertifyStep
  <1>3. Place(CheckStep) = 15 + Len(pool) + 3
    BY RunInvoices, PoolReads, Codes, KeyholdersDiffer DEF Place, Step, CheckStep
  <1>4. Place(AcceptStep(pool[1], lenderA)) = 15 + Len(pool) + 4
    BY RunInvoices, PoolReads, Codes, KeyholdersDiffer DEF Place, Step, AcceptStep
  <1>5. Place(TakeRestStep) = 15 + Len(pool) + 5
    BY RunInvoices, PoolReads, Codes, KeyholdersDiffer DEF Place, Step, TakeRestStep
  <1> QED BY <1>1, <1>2, <1>3, <1>4, <1>5

LEMMA RecordPlaces ==
    /\ Place(RequestStep) = 15 + Len(pool) + 6
    /\ Place(ApproveStep(keyholder1)) = 15 + Len(pool) + 7
    /\ Place(ApproveStep(keyholder3)) = 15 + Len(pool) + 8
    /\ Place(OpenDisclosure) = 15 + Len(pool) + 9
  <1>1. Place(RequestStep) = 15 + Len(pool) + 6
    BY RunInvoices, PoolReads, Codes, KeyholdersDiffer DEF Place, Step, RequestStep
  <1>2. Place(ApproveStep(keyholder1)) = 15 + Len(pool) + 7
    BY RunInvoices, PoolReads, Codes, KeyholdersDiffer DEF Place, Step, ApproveStep
  <1>3. Place(ApproveStep(keyholder3)) = 15 + Len(pool) + 8
    BY RunInvoices, PoolReads, Codes, KeyholdersDiffer DEF Place, Step, ApproveStep
  <1>4. Place(OpenDisclosure) = 15 + Len(pool) + 9
    BY RunInvoices, PoolReads, Codes, KeyholdersDiffer DEF Place, Step, OpenDisclosure
  <1> QED BY <1>1, <1>2, <1>3, <1>4

LEMMA CasePlaces ==
    /\ Place(OpenCaseStep) = 15 + Len(pool) + 10
    /\ Place(ApproveCaseStep(keyholder1)) = 15 + Len(pool) + 11
    /\ Place(ApproveCaseStep(keyholder3)) = 15 + Len(pool) + 12
    /\ Place(OpenWholeStep) = 15 + Len(pool) + 13
    /\ Place(AcrossStep) = 15 + Len(pool) + 14
  <1>1. Place(OpenCaseStep) = 15 + Len(pool) + 10
    BY RunInvoices, PoolReads, Codes, KeyholdersDiffer DEF Place, Step, OpenCaseStep
  <1>2. Place(ApproveCaseStep(keyholder1)) = 15 + Len(pool) + 11
    BY RunInvoices, PoolReads, Codes, KeyholdersDiffer DEF Place, Step, ApproveCaseStep
  <1>3. Place(ApproveCaseStep(keyholder3)) = 15 + Len(pool) + 12
    BY RunInvoices, PoolReads, Codes, KeyholdersDiffer DEF Place, Step, ApproveCaseStep
  <1>4. Place(OpenWholeStep) = 15 + Len(pool) + 13
    BY RunInvoices, PoolReads, Codes, KeyholdersDiffer DEF Place, Step, OpenWholeStep
  <1>5. Place(AcrossStep) = 15 + Len(pool) + 14
    BY RunInvoices, PoolReads, Codes, KeyholdersDiffer DEF Place, Step, AcrossStep
  <1> QED BY <1>1, <1>2, <1>3, <1>4, <1>5

LEMMA PoolPlaces == \A i \in DOMAIN pool : AckStep(pool[i]) \in CliSteps /\ Place(AckStep(pool[i])) = 15 + i
  <1> SUFFICES ASSUME NEW i \in DOMAIN pool
               PROVE  AckStep(pool[i]) \in CliSteps /\ Place(AckStep(pool[i])) = 15 + i
      OBVIOUS
  <1>1. pool[i] \in Elements(pool) /\ pool[i] # main
      BY PoolReads, RunInvoices DEF Elements
  <1>2. (CHOOSE j \in DOMAIN pool : pool[j] = pool[i]) = i
      BY PoolReads
  <1>3. AckStep(pool[i]) \in CliSteps
      BY <1>1 DEF CliSteps
  <1>4. Place(AckStep(pool[i])) = 15 + i
      BY <1>1, <1>2 DEF Place, Step, AckStep
  <1> QED BY <1>3, <1>4

\* What two sequences hold, joined.
LEMMA ElementsJoin ==
    ASSUME NEW S, NEW s \in Seq(S), NEW t \in Seq(S)
    PROVE  Elements(s \o t) = Elements(s) \cup Elements(t)
  <1>1. /\ s \o t \in Seq(S) /\ Len(s \o t) = Len(s) + Len(t)
        /\ \A i \in 1..Len(s) + Len(t) : (s \o t)[i] = IF i <= Len(s) THEN s[i] ELSE t[i - Len(s)]
      BY ConcatProperties
  <1>2. /\ Len(s) \in Nat /\ Len(t) \in Nat /\ DOMAIN s = 1..Len(s) /\ DOMAIN t = 1..Len(t)
        /\ DOMAIN (s \o t) = 1..(Len(s) + Len(t))
      BY <1>1, LenProperties
  <1>3. Elements(s) \cup Elements(t) \subseteq Elements(s \o t)
    <2>1. \A i \in 1..Len(s) : i \in 1..(Len(s) + Len(t)) /\ (s \o t)[i] = s[i]
      BY <1>1, <1>2
    <2>2. \A i \in 1..Len(t) :
              i + Len(s) \in 1..(Len(s) + Len(t)) /\ (s \o t)[i + Len(s)] = t[i]
      BY <1>1, <1>2
    <2> QED BY <1>2, <2>1, <2>2 DEF Elements
  <1>4. ASSUME NEW i \in 1..(Len(s) + Len(t)) PROVE (s \o t)[i] \in Elements(s) \cup Elements(t)
    <2>1. CASE i <= Len(s)
      <3>1. i \in 1..Len(s) /\ (s \o t)[i] = s[i]
        BY <1>1, <1>2, <2>1
      <3> QED BY <1>2, <3>1 DEF Elements
    <2>2. CASE ~(i <= Len(s))
      <3>1. i - Len(s) \in 1..Len(t) /\ (s \o t)[i] = t[i - Len(s)]
        BY <1>1, <1>2, <2>2
      <3> QED BY <1>2, <3>1 DEF Elements
    <2> QED BY <2>1, <2>2
  <1>5. Elements(s \o t) \subseteq Elements(s) \cup Elements(t)
      BY <1>2, <1>4 DEF Elements
  <1> QED BY <1>3, <1>5

\* s is the plan's steps from place a to place b.
Part(s, a, b) ==
    /\ s \in Seq(CliSteps) /\ Len(s) = b - a + 1
    /\ \A i \in 1..Len(s) : Place(s[i]) = a + i - 1

\* Parts that follow on each other join.
LEMMA PartsJoin ==
    ASSUME NEW s, NEW t, NEW a \in Nat, NEW b \in Nat, NEW c \in Nat,
           Part(s, a, b), Part(t, b + 1, c)
    PROVE  Part(s \o t, a, c)
  <1>1. /\ s \o t \in Seq(CliSteps) /\ Len(s \o t) = Len(s) + Len(t)
        /\ \A i \in 1..Len(s) + Len(t) :
              (s \o t)[i] = IF i <= Len(s) THEN s[i] ELSE t[i - Len(s)]
      BY ConcatProperties DEF Part
  <1>2. Len(s) = b - a + 1 /\ Len(t) = c - (b + 1) + 1 /\ Len(s) \in Nat /\ Len(t) \in Nat
      BY LenProperties DEF Part
  <1>3. ASSUME NEW i \in 1..Len(s \o t) PROVE Place((s \o t)[i]) = a + i - 1
    <2>1. CASE i <= Len(s)
      BY <1>1, <1>2, <2>1 DEF Part
    <2>2. CASE ~(i <= Len(s))
      <3>1. i - Len(s) \in 1..Len(t) /\ (s \o t)[i] = t[i - Len(s)]
        BY <1>1, <1>2, <2>2
      <3>2. Place(t[i - Len(s)]) = b + 1 + (i - Len(s)) - 1
        BY <3>1 DEF Part
      <3>3. b + 1 + (i - Len(s)) - 1 = a + i - 1
        BY <1>1, <1>2
      <3> QED BY <3>1, <3>2, <3>3
    <2> QED BY <2>1, <2>2
  <1> QED BY <1>1, <1>2, <1>3 DEF Part

\* The steps of the command line's plan come one place after the other.
LEMMA OpeningPlaced == Part(Opening(<<lenderA, lenderB>>), 1, 6)
  <1> DEFINE a == DebtorStep
             b == LenderStep(lenderA)
             c == LenderStep(lenderB)
             d == AckStep(main)
             e == OfferStep(lenderA)
             f == AcceptStep(main, lenderA)
             body == [i \in 1..Len(<<lenderA, lenderB>>) |->
                          Step("admitFinancier", None, <<lenderA, lenderB>>[i], None)]
  <1>1. {a, b, c, d, e, f} \subseteq CliSteps
      BY DEF CliSteps, ConsoleSteps
  <1>2. /\ Place(a) = 1 /\ Place(b) = 2 /\ Place(c) = 3
        /\ Place(d) = 4 /\ Place(e) = 5 /\ Place(f) = 6
      BY OpeningPlaces
  <1>3. body = <<b, c>>
      BY DEF LenderStep
  <1>4. Opening(<<lenderA, lenderB>>) = <<a>> \o body \o <<d, e, f>>
      BY DEF Opening, DebtorStep, AckStep, OfferStep, AcceptStep
  <1> HIDE DEF a, b, c, d, e, f, body
  <1>5. Part(<<a>>, 1, 1) /\ Part(<<b, c>>, 2, 3) /\ Part(<<d, e, f>>, 4, 6)
      BY <1>1, <1>2 DEF Part
  <1>6. Part(<<a>> \o <<b, c>>, 1, 3)
      BY <1>5, PartsJoin
  <1>7. Part(<<a>> \o <<b, c>> \o <<d, e, f>>, 1, 6)
      BY <1>5, <1>6, PartsJoin
  <1> QED BY <1>3, <1>4, <1>7

LEMMA FinancingPlaced == Part(Financing, 7, 15)
  <1> DEFINE a == FraudStep(forged)
             b == FraudStep(inflated)
             c == DoublePledge
             d == ReleaseStep
             e == OfferStep(lenderB)
             f == AcceptStep(main, lenderB)
             g == PayStep
             h == SellersClaim
             i == ClaimStep
  <1>1. {a, b, c, d, e, f, g, h, i} \subseteq CliSteps
      BY DEF CliSteps, ConsoleSteps
  <1>2. /\ Place(a) = 7
        /\ Place(b) = 8
        /\ Place(c) = 9
        /\ Place(d) = 10
        /\ Place(e) = 11
        /\ Place(f) = 12
        /\ Place(g) = 13
        /\ Place(h) = 14
        /\ Place(i) = 15
      BY FinancingPlaces
  <1>3. Financing = <<a, b, c, d, e, f, g, h, i>>
      BY DEF Financing, FraudStep, ReleaseStep, OfferStep, AcceptStep, PayStep, SellersClaim, ClaimStep
  <1> HIDE DEF a, b, c, d, e, f, g, h, i
  <1>4. Part(<<a, b, c, d, e, f, g, h, i>>, 7, 15)
      BY <1>1, <1>2, PoolReads DEF Part
  <1> QED BY <1>3, <1>4

LEMMA BorrowingBasePlaced == Part(BorrowingBase, 16, 15 + Len(pool) + 5)
  <1> DEFINE body == [i \in 1..Len(pool) |-> Step("acknowledge", pool[i], None, None)]
             a == Overstated
             b == CertifyStep
             c == CheckStep
             d == AcceptStep(pool[1], lenderA)
             e == TakeRestStep
  <1>1. {a, b, c, d, e} \subseteq CliSteps
      BY DEF CliSteps
  <1>2. /\ Place(a) = 15 + Len(pool) + 1
        /\ Place(b) = 15 + Len(pool) + 2
        /\ Place(c) = 15 + Len(pool) + 3
        /\ Place(d) = 15 + Len(pool) + 4
        /\ Place(e) = 15 + Len(pool) + 5
      BY BasePlaces
  <1>3. Part(body, 16, 15 + Len(pool))
    <2>1. \A i \in 1..Len(pool) : body[i] = AckStep(pool[i])
      BY DEF AckStep
    <2>2. body \in [1..Len(pool) -> CliSteps] /\ Len(pool) \in Nat
      BY <2>1, PoolPlaces, PoolReads
    <2>3. body \in Seq(CliSteps) /\ Len(body) = Len(pool)
      BY <2>2, IsASeq
    <2>4. \A i \in 1..Len(body) : Place(body[i]) = 16 + i - 1
      BY <2>1, <2>3, PoolPlaces, PoolReads
    <2> HIDE DEF body
    <2> QED BY <2>2, <2>3, <2>4 DEF Part
  <1>4. BorrowingBase = body \o <<a, b, c, d, e>>
      BY DEF BorrowingBase, Overstated, CertifyStep, CheckStep, AcceptStep, TakeRestStep
  <1> HIDE DEF a, b, c, d, e, body
  <1>5. Part(<<a, b, c, d, e>>, 15 + Len(pool) + 1, 15 + Len(pool) + 5)
      BY <1>1, <1>2, PoolReads DEF Part
  <1>6. 15 + Len(pool) \in Nat /\ 15 + Len(pool) + 5 \in Nat
      BY PoolReads
  <1> QED BY <1>3, <1>4, <1>5, <1>6, PartsJoin

LEMMA RecordPlaced == Part(RecordDisclosure, 15 + Len(pool) + 6, 15 + Len(pool) + 9)
  <1> DEFINE a == RequestStep
             b == ApproveStep(keyholder1)
             c == ApproveStep(keyholder3)
             d == OpenDisclosure
  <1>1. {a, b, c, d} \subseteq CliSteps
      BY DEF CliSteps, ConsoleSteps
  <1>2. /\ Place(a) = 15 + Len(pool) + 6
        /\ Place(b) = 15 + Len(pool) + 7
        /\ Place(c) = 15 + Len(pool) + 8
        /\ Place(d) = 15 + Len(pool) + 9
      BY RecordPlaces
  <1>3. RecordDisclosure = <<a, b, c, d>>
      BY DEF RecordDisclosure, RequestStep, ApproveStep
  <1> HIDE DEF a, b, c, d
  <1>4. Part(<<a, b, c, d>>, 15 + Len(pool) + 6, 15 + Len(pool) + 9)
      BY <1>1, <1>2, PoolReads DEF Part
  <1> QED BY <1>3, <1>4

LEMMA CasePlaced == Part(CaseDisclosure, 15 + Len(pool) + 10, 15 + Len(pool) + 14)
  <1> DEFINE a == OpenCaseStep
             b == ApproveCaseStep(keyholder1)
             c == ApproveCaseStep(keyholder3)
             d == OpenWholeStep
             e == AcrossStep
  <1>1. {a, b, c, d, e} \subseteq CliSteps
      BY DEF CliSteps, ConsoleSteps
  <1>2. /\ Place(a) = 15 + Len(pool) + 10
        /\ Place(b) = 15 + Len(pool) + 11
        /\ Place(c) = 15 + Len(pool) + 12
        /\ Place(d) = 15 + Len(pool) + 13
        /\ Place(e) = 15 + Len(pool) + 14
      BY CasePlaces
  <1>3. CaseDisclosure = <<a, b, c, d, e>>
      BY DEF CaseDisclosure, OpenCaseStep, ApproveCaseStep, OpenWholeStep, AcrossStep
  <1> HIDE DEF a, b, c, d, e
  <1>4. Part(<<a, b, c, d, e>>, 15 + Len(pool) + 10, 15 + Len(pool) + 14)
      BY <1>1, <1>2, PoolReads DEF Part
  <1> QED BY <1>3, <1>4

\* The command line's plan, joined from its parts.
LEMMA CliPlanPlaced == Part(CliPlan, 1, 15 + Len(pool) + 14)
  <1> DEFINE last == 15 + Len(pool)
             a == Opening(<<lenderA, lenderB>>)
  <1>1. last \in Nat /\ last + 5 \in Nat /\ last + 9 \in Nat /\ last + 14 \in Nat
        /\ last + 6 = (last + 5) + 1 /\ last + 10 = (last + 9) + 1
      BY PoolReads
  <1>2. /\ Part(a, 1, 6) /\ Part(Financing, 7, 15) /\ Part(BorrowingBase, 16, last + 5)
        /\ Part(RecordDisclosure, last + 6, last + 9) /\ Part(CaseDisclosure, last + 10, last + 14)
      BY OpeningPlaced, FinancingPlaced, BorrowingBasePlaced, RecordPlaced, CasePlaced
  <1>3. CliPlan = a \o Financing \o BorrowingBase \o RecordDisclosure \o CaseDisclosure
      BY DEF CliPlan
  <1> HIDE DEF a, last
  <1>4. Part(a \o Financing, 1, 15)
      BY <1>2, PartsJoin
  <1>5. Part(a \o Financing \o BorrowingBase, 1, last + 5)
      BY <1>1, <1>2, <1>4, PartsJoin
  <1>6. Part(a \o Financing \o BorrowingBase \o RecordDisclosure, 1, last + 9)
    <2>1. Part(RecordDisclosure, (last + 5) + 1, last + 9)
      BY <1>1, <1>2
    <2> QED BY <1>1, <1>5, <2>1, PartsJoin
  <1>7. Part(CliPlan, 1, last + 14)
    <2>1. Part(CaseDisclosure, (last + 9) + 1, last + 14)
      BY <1>1, <1>2
    <2> QED BY <1>1, <1>3, <1>6, <2>1, PartsJoin
  <1> QED BY <1>7 DEF last

\* Whatever the command line's plan names stands in it, at its place.
LEMMA CliPlanReads ==
    /\ DOMAIN CliPlan = 1..(29 + Len(pool))
    /\ \A i \in DOMAIN CliPlan : CliPlan[i] \in CliSteps /\ Place(CliPlan[i]) = i
    /\ \A s \in CliSteps : Place(s) \in DOMAIN CliPlan /\ CliPlan[Place(s)] = s
  <1>1. CliPlan \in Seq(CliSteps) /\ Len(CliPlan) = 29 + Len(pool) /\ DOMAIN CliPlan = 1..Len(CliPlan)
      BY CliPlanPlaced, PoolReads, LenProperties DEF Part
  <1>2. \A i \in DOMAIN CliPlan : CliPlan[i] \in CliSteps /\ Place(CliPlan[i]) = i
      BY <1>1, CliPlanPlaced DEF Part
  <1>3. CliSteps \subseteq Elements(CliPlan)
    <2> DEFINE a == Opening(<<lenderA, lenderB>>)
    <2>1. /\ a \in Seq(CliSteps) /\ Financing \in Seq(CliSteps) /\ BorrowingBase \in Seq(CliSteps)
          /\ RecordDisclosure \in Seq(CliSteps) /\ CaseDisclosure \in Seq(CliSteps)
      BY OpeningPlaced, FinancingPlaced, BorrowingBasePlaced, RecordPlaced, CasePlaced DEF Part
    <2>2. Elements(CliPlan) = Elements(a) \cup Elements(Financing) \cup Elements(BorrowingBase)
                              \cup Elements(RecordDisclosure) \cup Elements(CaseDisclosure)
      <3>1. CliPlan = a \o Financing \o BorrowingBase \o RecordDisclosure \o CaseDisclosure
        BY DEF CliPlan
      <3> HIDE DEF a
      <3>2. /\ a \o Financing \in Seq(CliSteps) /\ a \o Financing \o BorrowingBase \in Seq(CliSteps)
            /\ a \o Financing \o BorrowingBase \o RecordDisclosure \in Seq(CliSteps)
        BY <2>1, ConcatProperties
      <3>3. Elements(a \o Financing) = Elements(a) \cup Elements(Financing)
        BY <2>1, ElementsJoin
      <3>4. Elements(a \o Financing \o BorrowingBase) = Elements(a \o Financing) \cup Elements(BorrowingBase)
        BY <2>1, <3>2, ElementsJoin
      <3>5. Elements(a \o Financing \o BorrowingBase \o RecordDisclosure)
              = Elements(a \o Financing \o BorrowingBase) \cup Elements(RecordDisclosure)
        BY <2>1, <3>2, ElementsJoin
      <3>6. Elements(CliPlan)
              = Elements(a \o Financing \o BorrowingBase \o RecordDisclosure) \cup Elements(CaseDisclosure)
        BY <2>1, <3>1, <3>2, ElementsJoin
      <3> QED BY <3>3, <3>4, <3>5, <3>6
    <2>3. {DebtorStep, LenderStep(lenderA), LenderStep(lenderB), AckStep(main), OfferStep(lenderA),
           AcceptStep(main, lenderA)} \subseteq Elements(a)
      <3> DEFINE body == [i \in 1..Len(<<lenderA, lenderB>>) |->
                              Step("admitFinancier", None, <<lenderA, lenderB>>[i], None)]
                 b == <<AckStep(main), OfferStep(lenderA), AcceptStep(main, lenderA)>>
      <3>1. body = <<LenderStep(lenderA), LenderStep(lenderB)>>
        BY DEF LenderStep
      <3>2. a = <<DebtorStep>> \o body \o b
        BY DEF Opening, DebtorStep, AckStep, OfferStep, AcceptStep
      <3>3. /\ <<DebtorStep>> \in Seq(CliSteps) /\ <<LenderStep(lenderA), LenderStep(lenderB)>> \in Seq(CliSteps)
            /\ b \in Seq(CliSteps)
        BY DEF CliSteps, ConsoleSteps
      <3>4. {AckStep(main), OfferStep(lenderA), AcceptStep(main, lenderA)} \subseteq Elements(b)
        BY DEF Elements
      <3> HIDE DEF a, body, b
      <3>5. <<DebtorStep>> \o body \in Seq(CliSteps)
        BY <3>1, <3>3, ConcatProperties
      <3>6. Elements(a) = Elements(<<DebtorStep>>) \cup Elements(body) \cup Elements(b)
        <4>1. Elements(<<DebtorStep>> \o body) = Elements(<<DebtorStep>>) \cup Elements(body)
          BY <3>1, <3>3, ElementsJoin
        <4>2. Elements(a) = Elements(<<DebtorStep>> \o body) \cup Elements(b)
          BY <3>2, <3>3, <3>5, ElementsJoin
        <4> QED BY <4>1, <4>2
      <3>7. /\ DebtorStep \in Elements(<<DebtorStep>>)
            /\ {LenderStep(lenderA), LenderStep(lenderB)} \subseteq Elements(body)
        BY <3>1 DEF Elements
      <3> QED BY <3>4, <3>6, <3>7
    <2>4. {FraudStep(forged), FraudStep(inflated), DoublePledge, ReleaseStep, OfferStep(lenderB),
           AcceptStep(main, lenderB), PayStep, SellersClaim, ClaimStep} \subseteq Elements(Financing)
      <3>1. Financing = <<FraudStep(forged), FraudStep(inflated), DoublePledge, ReleaseStep, OfferStep(lenderB),
                          AcceptStep(main, lenderB), PayStep, SellersClaim, ClaimStep>>
        BY DEF Financing, FraudStep, ReleaseStep, OfferStep, AcceptStep, PayStep, SellersClaim, ClaimStep
      <3> QED BY <3>1 DEF Elements
    <2>5. {AckStep(n) : n \in Elements(pool)}
          \cup {Overstated, CertifyStep, CheckStep, AcceptStep(pool[1], lenderA), TakeRestStep}
              \subseteq Elements(BorrowingBase)
      <3> DEFINE body == [i \in 1..Len(pool) |-> Step("acknowledge", pool[i], None, None)]
                 b == <<Overstated, CertifyStep, CheckStep, AcceptStep(pool[1], lenderA), TakeRestStep>>
      <3>1. BorrowingBase = body \o b
        BY DEF BorrowingBase, Overstated, CertifyStep, CheckStep, AcceptStep, TakeRestStep
      <3>2. body \in Seq(CliSteps) /\ b \in Seq(CliSteps)
        <4>1. body \in [1..Len(pool) -> CliSteps] /\ Len(pool) \in Nat
          BY PoolPlaces, PoolReads DEF AckStep
        <4>2. body \in Seq(CliSteps)
          BY <4>1, IsASeq
        <4> QED BY <4>2 DEF CliSteps
      <3>3. {AckStep(n) : n \in Elements(pool)} \subseteq Elements(body)
        BY PoolReads DEF Elements, AckStep
      <3>4. {Overstated, CertifyStep, CheckStep, AcceptStep(pool[1], lenderA), TakeRestStep} \subseteq Elements(b)
        BY DEF Elements
      <3>5. Elements(BorrowingBase) = Elements(body) \cup Elements(b)
        <4> HIDE DEF body, b
        <4> QED BY <3>1, <3>2, ElementsJoin
      <3> QED BY <3>3, <3>4, <3>5
    <2>6. {RequestStep, ApproveStep(keyholder1), ApproveStep(keyholder3), OpenDisclosure}
              \subseteq Elements(RecordDisclosure)
      <3>1. RecordDisclosure = <<RequestStep, ApproveStep(keyholder1), ApproveStep(keyholder3), OpenDisclosure>>
        BY DEF RecordDisclosure, RequestStep, ApproveStep
      <3> QED BY <3>1 DEF Elements
    <2>7. {OpenCaseStep, ApproveCaseStep(keyholder1), ApproveCaseStep(keyholder3), OpenWholeStep, AcrossStep}
              \subseteq Elements(CaseDisclosure)
      <3>1. CaseDisclosure = <<OpenCaseStep, ApproveCaseStep(keyholder1), ApproveCaseStep(keyholder3),
                               OpenWholeStep, AcrossStep>>
        BY DEF CaseDisclosure, OpenCaseStep, ApproveCaseStep, OpenWholeStep, AcrossStep
      <3> QED BY <3>1 DEF Elements
    <2> HIDE DEF a
    <2>8. ConsoleSteps \subseteq Elements(CliPlan)
      BY <2>2, <2>3, <2>4, <2>6 DEF ConsoleSteps
    <2> QED BY <2>2, <2>3, <2>4, <2>5, <2>7, <2>8 DEF CliSteps
  <1>4. ASSUME NEW s \in CliSteps PROVE Place(s) \in DOMAIN CliPlan /\ CliPlan[Place(s)] = s
    <2>1. PICK i \in DOMAIN CliPlan : s = CliPlan[i]
      BY <1>3 DEF Elements
    <2> QED BY <1>2, <2>1
  <1> QED BY <1>1, <1>2, <1>4

\* The places of s rise, from a at least to b at most.
Rising(s, a, b) ==
    /\ s \in Seq(CliSteps)
    /\ \A i \in DOMAIN s : Place(s[i]) \in a..b
    /\ \A i, j \in DOMAIN s : i < j => Place(s[i]) < Place(s[j])

\* Rising sequences join when the second begins above the first.
LEMMA RisingJoin ==
    ASSUME NEW s, NEW t, NEW a \in Nat, NEW b \in Nat, NEW c \in Nat, NEW d \in Nat,
           a <= b, b < c, c <= d, Rising(s, a, b), Rising(t, c, d)
    PROVE  Rising(s \o t, a, d)
  <1>1. /\ s \o t \in Seq(CliSteps) /\ Len(s \o t) = Len(s) + Len(t)
        /\ \A i \in 1..Len(s) + Len(t) : (s \o t)[i] = IF i <= Len(s) THEN s[i] ELSE t[i - Len(s)]
      BY ConcatProperties DEF Rising
  <1>2. /\ Len(s) \in Nat /\ Len(t) \in Nat /\ DOMAIN s = 1..Len(s) /\ DOMAIN t = 1..Len(t)
        /\ DOMAIN (s \o t) = 1..(Len(s) + Len(t))
      BY <1>1, LenProperties DEF Rising
  <1>3. ASSUME NEW i \in DOMAIN (s \o t)
        PROVE  \/ i \in DOMAIN s /\ (s \o t)[i] = s[i]
               \/ i \notin DOMAIN s /\ i - Len(s) \in DOMAIN t /\ (s \o t)[i] = t[i - Len(s)]
      BY <1>1, <1>2
  <1>4. ASSUME NEW i \in DOMAIN (s \o t) PROVE Place((s \o t)[i]) \in a..d
    <2>1. CASE i \in DOMAIN s /\ (s \o t)[i] = s[i]
      BY <2>1 DEF Rising
    <2>2. CASE i - Len(s) \in DOMAIN t /\ (s \o t)[i] = t[i - Len(s)]
      BY <2>2 DEF Rising
    <2> QED BY <1>3, <2>1, <2>2
  <1>5. ASSUME NEW i \in DOMAIN (s \o t), NEW j \in DOMAIN (s \o t), i < j
        PROVE  Place((s \o t)[i]) < Place((s \o t)[j])
    <2>1. CASE j \in DOMAIN s
      <3>1. i \in DOMAIN s
        BY <1>2, <1>5, <2>1
      <3> QED BY <1>3, <1>5, <2>1, <3>1 DEF Rising
    <2>2. CASE i \in DOMAIN s /\ j \notin DOMAIN s
      <3>1. Place((s \o t)[i]) \in a..b /\ Place((s \o t)[j]) \in c..d
        BY <1>3, <2>2 DEF Rising
      <3> QED BY <3>1
    <2>3. CASE i \notin DOMAIN s /\ j \notin DOMAIN s
      <3>1. /\ i - Len(s) \in DOMAIN t /\ (s \o t)[i] = t[i - Len(s)]
            /\ j - Len(s) \in DOMAIN t /\ (s \o t)[j] = t[j - Len(s)]
        BY <1>3, <2>3
      <3>2. i - Len(s) < j - Len(s)
        BY <1>2, <1>5
      <3> QED BY <3>1, <3>2 DEF Rising
    <2> QED BY <1>2, <1>5, <2>1, <2>2, <2>3
  <1> QED BY <1>1, <1>4, <1>5 DEF Rising

\* The console's plan is a part of the command line's, in the same order.
LEMMA ConsolePlanReads ==
    /\ Rising(ConsolePlan, 1, 24 + Len(pool)) /\ Elements(ConsolePlan) = ConsoleSteps
  <1> DEFINE a == DebtorStep
             b == LenderStep(lenderA)
             c == AckStep(main)
             d == OfferStep(lenderA)
             e == AcceptStep(main, lenderA)
             f == DoublePledge
             g == RequestStep
             h == ApproveStep(keyholder1)
             i == ApproveStep(keyholder3)
             j == OpenDisclosure
             body == [k \in 1..Len(<<lenderA>>) |-> Step("admitFinancier", None, <<lenderA>>[k], None)]
  <1>1. body = <<b>>
      BY DEF LenderStep
  <1>2. Opening(<<lenderA>>) = <<a>> \o body \o <<c, d, e>>
      BY DEF Opening, DebtorStep, AckStep, OfferStep, AcceptStep
  <1>3. RecordDisclosure = <<g, h, i, j>>
      BY DEF RecordDisclosure, RequestStep, ApproveStep
  <1>4. /\ Place(a) = 1 /\ Place(b) = 2 /\ Place(c) = 4 /\ Place(d) = 5 /\ Place(e) = 6 /\ Place(f) = 9
        /\ Place(g) = 21 + Len(pool) /\ Place(h) = 22 + Len(pool) /\ Place(i) = 23 + Len(pool)
        /\ Place(j) = 24 + Len(pool) /\ Len(pool) \in Nat
      BY OpeningPlaces, FinancingPlaces, RecordPlaces, PoolReads
  <1>5. ConsoleSteps = {a, b, c, d, e, f, g, h, i, j} /\ ConsoleSteps \subseteq CliSteps
      BY DEF ConsoleSteps, CliSteps
  <1>6. ConsolePlan = Opening(<<lenderA>>) \o <<f>> \o RecordDisclosure
      BY DEF ConsolePlan
  <1> HIDE DEF a, b, c, d, e, f, g, h, i, j, body
  <1> DEFINE ab == <<a>> \o <<b>>
             abe == ab \o <<c, d, e>>
             abf == abe \o <<f>>
  <1>7. ConsolePlan = abf \o <<g, h, i, j>>
      BY <1>1, <1>2, <1>3, <1>6
  <1>8. /\ Rising(<<a>>, 1, 1) /\ Rising(<<b>>, 2, 2) /\ Rising(<<c, d, e>>, 4, 6) /\ Rising(<<f>>, 9, 9)
        /\ Rising(<<g, h, i, j>>, 21 + Len(pool), 24 + Len(pool))
    <2>0. {a, b, c, d, e, f, g, h, i, j} \subseteq CliSteps
      BY <1>5
    <2>1. Rising(<<a>>, 1, 1)
      BY <1>4, <2>0 DEF Rising
    <2>2. Rising(<<b>>, 2, 2)
      BY <1>4, <2>0 DEF Rising
    <2>3. Rising(<<c, d, e>>, 4, 6)
      BY <1>4, <2>0 DEF Rising
    <2>4. Rising(<<f>>, 9, 9)
      BY <1>4, <2>0 DEF Rising
    <2>5. Rising(<<g, h, i, j>>, 21 + Len(pool), 24 + Len(pool))
      BY <1>4, <2>0 DEF Rising
    <2> QED BY <2>1, <2>2, <2>3, <2>4, <2>5
  <1>9. 21 + Len(pool) \in Nat /\ 24 + Len(pool) \in Nat
      BY <1>4
  <1> HIDE DEF ab, abe, abf
  <1>10. Rising(ab, 1, 2)
      BY <1>8, RisingJoin DEF ab
  <1>11. Rising(abe, 1, 6)
      BY <1>8, <1>10, RisingJoin DEF abe
  <1>12. Rising(abf, 1, 9)
      BY <1>8, <1>11, RisingJoin DEF abf
  <1>13. Rising(ConsolePlan, 1, 24 + Len(pool))
      BY <1>4, <1>7, <1>8, <1>9, <1>12, RisingJoin
  <1>14. Elements(ConsolePlan) = ConsoleSteps
    <2>1. Elements(ab) = {a, b}
      <3>1. Elements(ab) = Elements(<<a>>) \cup Elements(<<b>>)
        BY <1>8, ElementsJoin DEF Rising, ab
      <3> QED BY <3>1 DEF Elements
    <2>2. Elements(abe) = {a, b, c, d, e}
      <3>1. Elements(abe) = Elements(ab) \cup Elements(<<c, d, e>>)
        BY <1>8, <1>10, ElementsJoin DEF Rising, abe
      <3>2. Elements(<<c, d, e>>) = {c, d, e}
        BY DEF Elements
      <3> QED BY <2>1, <3>1, <3>2
    <2>3. Elements(abf) = {a, b, c, d, e, f}
      <3>1. Elements(abf) = Elements(abe) \cup Elements(<<f>>)
        BY <1>8, <1>11, ElementsJoin DEF Rising, abf
      <3>2. Elements(<<f>>) = {f}
        BY DEF Elements
      <3> QED BY <2>2, <3>1, <3>2
    <2>4. Elements(ConsolePlan) = Elements(abf) \cup Elements(<<g, h, i, j>>)
      BY <1>7, <1>8, <1>12, ElementsJoin DEF Rising
    <2>5. Elements(<<g, h, i, j>>) = {g, h, i, j}
      BY DEF Elements
    <2> QED BY <1>5, <2>3, <2>4, <2>5
  <1> QED BY <1>13, <1>14

\* What the plan of the run at hand names, first to last.
PlanSteps == IF tool = "cli" THEN CliSteps ELSE ConsoleSteps

\* A plan holds its steps, each once, at rising places.
LEMMA PlanReads ==
    ASSUME tool \in Tools
    PROVE  /\ Elements(Plan) = PlanSteps /\ PlanSteps \subseteq CliSteps /\ Steps = CliSteps
           /\ \E k \in Nat : DOMAIN Plan = 1..k
           /\ \A i, j \in DOMAIN Plan : i < j => Place(Plan[i]) < Place(Plan[j])
  <1>1. ConsoleSteps \subseteq CliSteps
      BY DEF CliSteps
  <1>2. Elements(CliPlan) = CliSteps
      BY CliPlanReads DEF Elements
  <1>3. Elements(ConsolePlan) = ConsoleSteps
      BY ConsolePlanReads
  <1>4. CASE tool = "cli"
    <2>1. Plan = CliPlan /\ PlanSteps = CliSteps
      BY <1>4 DEF Plan, PlanSteps
    <2>2. 29 + Len(pool) \in Nat
      BY PoolReads
    <2>3. \A i, j \in DOMAIN CliPlan : i < j => Place(CliPlan[i]) < Place(CliPlan[j])
      BY CliPlanReads
    <2> QED BY <1>1, <1>2, <1>3, <2>1, <2>2, <2>3, CliPlanReads DEF Steps
  <1>5. CASE tool = "console"
    <2>1. Plan = ConsolePlan /\ PlanSteps = ConsoleSteps
      BY <1>5 DEF Plan, PlanSteps
    <2>2. Len(ConsolePlan) \in Nat /\ DOMAIN ConsolePlan = 1..Len(ConsolePlan)
      BY ConsolePlanReads, LenProperties DEF Rising
    <2> QED BY <1>1, <1>2, <1>3, <2>1, <2>2, ConsolePlanReads DEF Steps, Rising
  <1> QED BY <1>4, <1>5 DEF Tools

\* Different steps have different places.
LEMMA PlacesDiffer ==
    \A s, t \in CliSteps : Place(s) \in Nat /\ (Place(s) = Place(t) => s = t)
  <1>1. \A s \in CliSteps : Place(s) \in 1..(29 + Len(pool)) /\ CliPlan[Place(s)] = s
      BY CliPlanReads
  <1> QED BY <1>1, PoolReads

\* The step a run resumes with: the first of the plan it has not recorded.
LEMMA FirstMissing ==
    ASSUME tool \in Tools, NEW run, ~Finished(run)
    PROVE  LET s == Plan[NextIndex(run)] IN
           /\ s \in PlanSteps /\ s \in CliSteps /\ s \notin run.steps
           /\ \A t \in PlanSteps : Place(t) < Place(s) => t \in run.steps
  <1> DEFINE missing == {i \in DOMAIN Plan : Plan[i] \notin run.steps}
  <1>1. PICK k \in Nat : DOMAIN Plan = 1..k
      BY PlanReads
  <1>2. missing # {} /\ missing \subseteq Nat
      BY <1>1 DEF Finished, Elements
  <1>3. PICK i \in missing : \A j \in missing : ~(j < i)
    <2>1. PICK x \in missing : \A y \in missing : ~(<<y, x>> \in OpToRel(<, Nat))
      BY <1>2, NatLessThanWellFounded, WFMin
    <2> QED BY <1>2, <2>1 DEF OpToRel
  <1>4. \A j \in 1..(i - 1) : Plan[j] \in run.steps
      BY <1>1, <1>3
  <1>5. \E x \in DOMAIN Plan : Plan[x] \notin run.steps /\ \A j \in 1..(x - 1) : Plan[j] \in run.steps
      BY <1>3, <1>4
  <1> DEFINE x == NextIndex(run)
  <1>6. x \in DOMAIN Plan /\ Plan[x] \notin run.steps /\ \A j \in 1..(x - 1) : Plan[j] \in run.steps
      BY <1>5 DEF NextIndex
  <1>7. Plan[x] \in PlanSteps /\ Plan[x] \in CliSteps
      BY <1>6, PlanReads DEF Elements
  <1>8. ASSUME NEW t \in PlanSteps, Place(t) < Place(Plan[x]) PROVE t \in run.steps
    <2>1. PICK y \in DOMAIN Plan : t = Plan[y]
      BY PlanReads DEF Elements
    <2>2. x \in Nat /\ y \in Nat
      BY <1>1, <1>6
    <2>3. Place(t) \in Nat /\ Place(Plan[x]) \in Nat
      BY <1>7, PlanReads, PlacesDiffer
    <2>4. ~(x < y)
      <3>1. x < y => Place(Plan[x]) < Place(t)
        BY <1>6, <2>1, PlanReads
      <3> QED BY <1>8, <2>3, <3>1
    <2>5. x # y
      BY <1>8, <2>1, <2>3
    <2>6. y \in 1..(x - 1)
      BY <1>1, <2>1, <2>2, <2>4, <2>5
    <2> QED BY <1>6, <2>1, <2>6
  <1> HIDE DEF x
  <1> QED BY <1>6, <1>7, <1>8 DEF x

-----------------------------------------------------------------------------
(* The ledger of a recorded run, whoever calls it.                         *)

\* A call of module Disclosure's, on the ledger of a run.
AuditStep ==
    \/ \E r \in RecordIds : Audit!RequestDisclosure(r, caseRef)
    \/ \E i \in {keyholder1, keyholder2, keyholder3} :
        \/ \E q \in requests : Audit!ApproveDisclosure(i, q)
        \/ Audit!ApproveCase(i, insolvencyRef)
    \/ \E slots \in [Audit!Slots -> RecordIds \cup {Unused}] : Audit!OpenCase(insolvencyRef, slots)

\* A call of the registry that is specification Registry's or Disclosure's.
AnyCall == (Next /\ UNCHANGED auditLedger) \/ (UNCHANGED vars /\ AuditStep)

\* The types of the audit side.
AuditTypes ==
    /\ requests \subseteq Audit!RequestIds
    /\ requestApprovals \in [Audit!RequestIds -> SUBSET {keyholder1, keyholder2, keyholder3}]
    /\ cases \in [{insolvencyRef} -> [Audit!Slots -> RecordIds \cup {Unused}]]
    /\ caseApprovals \in [{insolvencyRef} -> SUBSET {keyholder1, keyholder2, keyholder3}]
    /\ shares \in [Audit!ShareKeys -> Audit!Share \cup {NoShare}]

\* What is offered or held has a record, what has a record is not absent, and what a financier
\* took up keeps its tag, paid or not.
RecordsKept ==
    /\ \A n \in Invoices : lender[n] # None \/ pledges[n].status = "OFFERED" =>
        pledges[n].recordId # None
    /\ \A n \in Invoices, e \in Ephemerals : records[<<n, e>>] # None => pledges[n].status # "ABSENT"
    /\ \A n \in Invoices : lender[n] # None => pledges[n].holderTag = holderTagOf(lender[n], n)

\* Only finitely many were admitted and acknowledged.
FiniteMembers == IsFiniteSet(debtors) /\ IsFiniteSet(financiers) /\ IsFiniteSet(acks)

\* What holds of the ledger whoever calls it.
BaseInv == RegistryInv /\ AuditTypes /\ RecordsKept /\ FiniteMembers

LEMMA RecordsKeptStep == RegistryInv /\ RecordsKept /\ [Next]_vars => RecordsKept'
  <1> SUFFICES ASSUME RegistryInv, RecordsKept, [Next]_vars, NEW n \in Invoices
               PROVE  /\ lender'[n] # None \/ pledges'[n].status = "OFFERED" => pledges'[n].recordId # None
                      /\ \A e \in Ephemerals :
                          records'[<<n, e>>] # None => pledges'[n].status # "ABSENT"
                      /\ lender'[n] # None => pledges'[n].holderTag = holderTagOf(lender'[n], n)
      BY DEF RecordsKept
  <1>1. TypeOK /\ pledges[n] \in PledgeState
      BY DEF RegistryInv, TypeOK
  <1>2. pledges[n].status \in {"ABSENT", "RELEASED", "OFFERED"} => lender[n] = None
      BY DEF RegistryInv, LenderIsSecured, Secured
  <1>3. /\ lender'[n] # None \/ pledges'[n].status = "OFFERED" => pledges'[n].recordId # None
        /\ pledges[n].status # "ABSENT" => pledges'[n].status # "ABSENT"
        /\ lender'[n] # None => pledges'[n].holderTag = holderTagOf(lender'[n], n)
    <2>1. CASE Unmoved(n)
      BY <2>1 DEF Unmoved, RecordsKept
    <2>2. CASE IsOffered(n)
      BY <1>2, <2>2, RegistryAssumption DEF IsOffered, Free, Offered, Absent, RegistryAssumption
    <2>3. CASE IsTaken(n)
      BY <1>1, <2>3 DEF IsTaken, Takable, PledgeState, RecordsKept
    <2>4. CASE IsReleased(n)
      BY <1>1, <2>4 DEF IsReleased, PledgeState, RecordsKept
    <2>5. CASE IsPaid(n)
      BY <1>1, <2>5 DEF IsPaid, PledgeState, RecordsKept
    <2>6. CASE IsClaimed(n)
      BY <1>1, <2>6 DEF IsClaimed, PledgeState, RecordsKept
    <2> QED BY <1>1, <2>1, <2>2, <2>3, <2>4, <2>5, <2>6, StepOnMarker
  <1>4. ASSUME NEW e \in Ephemerals, records'[<<n, e>>] # None PROVE pledges'[n].status # "ABSENT"
    <2>1. CASE records'[<<n, e>>] = records[<<n, e>>]
      BY <1>3, <1>4, <2>1 DEF RecordsKept
    <2>2. CASE \E t \in Times : pledges'[n] = Offered(records'[<<n, e>>], t, <<n, e>>)
      BY <2>2 DEF Offered, Absent
    <2> QED BY <1>1, <2>1, <2>2, StepOnRecord
  <1> QED BY <1>3, <1>4

LEMMA FiniteMembersStep == FiniteMembers /\ [Next]_vars => FiniteMembers'
  <1> SUFFICES ASSUME FiniteMembers, [Next]_vars PROVE FiniteMembers'
      OBVIOUS
  <1>1. ASSUME NEW caller, NEW d, AdmitDebtor(caller, d) PROVE FiniteMembers'
      BY <1>1, FS_AddElement DEF AdmitDebtor, acknowledgments, FiniteMembers
  <1>2. ASSUME NEW caller, NEW f, AdmitFinancier(caller, f) PROVE FiniteMembers'
      BY <1>2, FS_AddElement DEF AdmitFinancier, acknowledgments, FiniteMembers
  <1>3. ASSUME NEW d, NEW n, Acknowledge(d, n) PROVE FiniteMembers'
      BY <1>3, FS_AddElement DEF Acknowledge, membership, FiniteMembers
  <1>4. ASSUME UNCHANGED <<membership, acknowledgments>> PROVE FiniteMembers'
      BY <1>4 DEF membership, acknowledgments, FiniteMembers
  <1> QED
      BY <1>1, <1>2, <1>3, <1>4
      DEF Next, vars, Offer, Accept, AcceptBatch, TakeOffers, Release, CertifyBorrowingBase,
          PayInvoice, Claim, ClaimAsHolder, ClaimAsSeller, Tick

\* The slots of a case, and the keys and shares of an approval.
LEMMA AuditReads ==
    /\ CaseWidth \in Nat /\ CaseWidth > 0 /\ Audit!Slots = 0..(CaseWidth - 1)
    /\ RecordIds = Audit!RecordIds
    /\ \A r \in RecordIds : Audit!requestIdOf(r, caseRef) \in Audit!RequestIds
    /\ \A q \in Audit!RequestIds, i \in {keyholder1, keyholder2, keyholder3} :
        /\ Audit!shareKeyOf(q, i) \in Audit!ShareKeys
        /\ Audit!RequestShare(q, i) \in Audit!Share
    /\ \A i \in {keyholder1, keyholder2, keyholder3}, j \in Audit!Slots :
        Audit!caseShareKeyOf(insolvencyRef, i, j) \in Audit!ShareKeys
  <1>1. CaseWidth \in Nat /\ CaseWidth > 0
      BY LifecycleAssumption, PoolReads DEF LifecycleAssumption
  <1>2. ASSUME NEW q \in Audit!RequestIds, NEW i \in {keyholder1, keyholder2, keyholder3}
        PROVE  /\ Audit!shareKeyOf(q, i) \in Audit!ShareKeys
               /\ Audit!RequestShare(q, i) \in Audit!Share
    <2>1. PICK r \in RecordIds : q = <<r, caseRef>>
      BY DEF Audit!RequestIds, Audit!requestIdOf, Audit!RecordIds, RecordIds
    <2>2. q[1][2] \in Ephemerals
      BY <2>1 DEF RecordIds
    <2>3. Audit!RequestShare(q, i) \in Audit!Share
      <3>1. {0, 1} \subseteq 0..(2 * CaseWidth - 1)
        BY <1>1
      <3> QED BY <2>2, <3>1 DEF Audit!RequestShare, Audit!Share
    <2> QED BY <2>3 DEF Audit!ShareKeys
  <1> QED BY <1>1, <1>2 DEF Audit!Slots, Audit!RecordIds, RecordIds, Audit!RequestIds, Audit!ShareKeys

LEMMA AuditTypesStep == AuditTypes /\ AuditStep => AuditTypes'
  <1> SUFFICES ASSUME AuditTypes, AuditStep PROVE AuditTypes'
      OBVIOUS
  <1>1. ASSUME NEW r \in RecordIds, Audit!RequestDisclosure(r, caseRef) PROVE AuditTypes'
      BY <1>1, AuditReads DEF Audit!RequestDisclosure, AuditTypes
  <1>2. ASSUME NEW i \in {keyholder1, keyholder2, keyholder3}, NEW q \in requests, Audit!ApproveDisclosure(i, q)
        PROVE  AuditTypes'
      BY <1>2, AuditReads DEF Audit!ApproveDisclosure, AuditTypes
  <1>3. ASSUME NEW i \in {keyholder1, keyholder2, keyholder3}, Audit!ApproveCase(i, insolvencyRef)
        PROVE  AuditTypes'
    <2>1. ASSUME NEW j \in Audit!UsedSlots(insolvencyRef)
          PROVE  Audit!CaseShare(insolvencyRef, i, j) \in Audit!Share
      <3>1. j \in 0..(CaseWidth - 1) /\ cases[insolvencyRef][j] \in RecordIds
        BY AuditReads DEF Audit!UsedSlots, AuditTypes
      <3>2. {2 * j, 2 * j + 1} \subseteq 0..(2 * CaseWidth - 1)
        BY <3>1, AuditReads
      <3>3. cases[insolvencyRef][j][2] \in Ephemerals
        BY <3>1 DEF RecordIds
      <3> QED BY <3>2, <3>3 DEF Audit!CaseShare, Audit!Share
    <2>2. ASSUME NEW k \in Audit!ShareKeys, NEW j \in Audit!UsedSlots(insolvencyRef),
                 k = Audit!caseShareKeyOf(insolvencyRef, i, j)
          PROVE  k[4] = j
      BY <2>2 DEF Audit!caseShareKeyOf
    <2>3. Audit!SealCaseShares(insolvencyRef, i) \in [Audit!ShareKeys -> Audit!Share \cup {NoShare}]
      BY <2>1, <2>2 DEF Audit!SealCaseShares, AuditTypes
    <2> QED BY <1>3, <2>3 DEF Audit!ApproveCase, AuditTypes
  <1>4. ASSUME NEW slots \in [Audit!Slots -> RecordIds \cup {Unused}], Audit!OpenCase(insolvencyRef, slots)
        PROVE  AuditTypes'
      BY <1>4 DEF Audit!OpenCase, AuditTypes
  <1> QED BY <1>1, <1>2, <1>3, <1>4 DEF AuditStep

LEMMA BaseInit == Init /\ Audit!Init => BaseInv
  <1> SUFFICES ASSUME Init, Audit!Init PROVE BaseInv
      OBVIOUS
  <1>1. RegistryInv
      BY RegistryInvInit
  <1>2. AuditTypes
      BY DEF Audit!Init, AuditTypes, Audit!NoCase
  <1>3. RecordsKept
    <2>1. \A n \in Invoices : lender[n] = None /\ pledges[n].status = "ABSENT"
      BY DEF Init, NothingPledged, Absent
    <2>2. \A n \in Invoices, e \in Ephemerals : records[<<n, e>>] = None
      BY DEF Init, NothingPledged, RecordIds
    <2> QED BY <2>1, <2>2 DEF RecordsKept
  <1>4. FiniteMembers
      BY FS_EmptySet DEF Init, FiniteMembers
  <1> QED BY <1>1, <1>2, <1>3, <1>4 DEF BaseInv

\* Every call keeps it.
LEMMA BaseStep == BaseInv /\ (AnyCall \/ UNCHANGED ledger) => BaseInv'
  <1> SUFFICES ASSUME BaseInv, AnyCall \/ UNCHANGED ledger PROVE BaseInv'
      OBVIOUS
  <1>1. [Next]_vars
      BY DEF AnyCall, ledger
  <1>2. RegistryInv' /\ RecordsKept' /\ FiniteMembers'
      BY <1>1, RegistryInvStep, RecordsKeptStep, FiniteMembersStep DEF BaseInv
  <1>3. AuditTypes'
    <2>1. CASE UNCHANGED auditLedger
      BY <2>1 DEF auditLedger, BaseInv, AuditTypes
    <2>2. CASE AuditStep
      BY <2>2, AuditTypesStep DEF BaseInv
    <2> QED BY <2>1, <2>2 DEF AnyCall, ledger
  <1> QED BY <1>2, <1>3 DEF BaseInv

-----------------------------------------------------------------------------
(* What each step of a plan does on the ledger.                            *)

\* The steps told apart by what they call.
LEMMA StepFields ==
    /\ DebtorStep.op = "admitDebtor" /\ ReleaseStep.op = "release" /\ PayStep.op = "payInvoice"
    /\ ClaimStep.op = "claimAsHolder" /\ SellersClaim.op = "claimAsSeller"
    /\ CertifyStep.op = "certifyBorrowingBase" /\ Overstated.op = "certifyBorrowingBase"
    /\ CheckStep.op = "checkCertificate" /\ TakeRestStep.op = "acceptBatch"
    /\ RequestStep.op = "requestDisclosure" /\ OpenDisclosure.op = "open"
    /\ OpenCaseStep.op = "openCase" /\ OpenWholeStep.op = "openWholeCase"
    /\ AcrossStep.op = "checkAcross" /\ DoublePledge.op = "offer"
    /\ \A x : /\ LenderStep(x).op = "admitFinancier" /\ LenderStep(x).p = x
              /\ AckStep(x).op = "acknowledge" /\ AckStep(x).n = x
              /\ OfferStep(x).op = "offer" /\ OfferStep(x).n = main /\ OfferStep(x).p = x
              /\ FraudStep(x).op = "offer" /\ FraudStep(x).n = x /\ FraudStep(x).p = lenderB
              /\ ApproveStep(x).op = "approveDisclosure" /\ ApproveStep(x).p = x
              /\ ApproveCaseStep(x).op = "approveCase" /\ ApproveCaseStep(x).p = x
    /\ \A x, y : AcceptStep(x, y).op = "accept" /\ AcceptStep(x, y).n = x /\ AcceptStep(x, y).p = y
    /\ ReleaseStep.n = main /\ PayStep.n = main /\ ClaimStep.n = main /\ SellersClaim.n = main
    /\ ReleaseStep.p = lenderA /\ ClaimStep.p = lenderB /\ CertifyStep.p = lenderA
    /\ Overstated.p = lenderA /\ TakeRestStep.p = lenderA
    /\ DoublePledge.n = main /\ DoublePledge.p = lenderB
  BY DEF DebtorStep, LenderStep, AckStep, OfferStep, AcceptStep, ReleaseStep, PayStep, ClaimStep,
         CertifyStep, CheckStep, TakeRestStep, RequestStep, ApproveStep, OpenCaseStep, ApproveCaseStep,
         OpenWholeStep, AcrossStep, FraudStep, SellersClaim, Overstated, DoublePledge, OpenDisclosure,
         Step

LEMMA StepRefusals ==
    /\ {DebtorStep, ReleaseStep, PayStep, ClaimStep, CertifyStep, CheckStep, TakeRestStep, RequestStep,
        OpenDisclosure, OpenCaseStep, OpenWholeStep, AcrossStep} \subseteq {s \in CliSteps : s.refusal = None}
    /\ \A x : /\ LenderStep(x).refusal = None /\ AckStep(x).refusal = None /\ OfferStep(x).refusal = None
              /\ ApproveStep(x).refusal = None /\ ApproveCaseStep(x).refusal = None
              /\ FraudStep(x).refusal = "NOT_ACKNOWLEDGED"
    /\ \A x, y : AcceptStep(x, y).refusal = None
    /\ DoublePledge.refusal = "ALREADY_ENCUMBERED" /\ SellersClaim.refusal = "NOT_PAYEE"
    /\ Overstated.refusal = "BELOW_FLOOR"
  BY DEF CliSteps, ConsoleSteps, DebtorStep, LenderStep, AckStep, OfferStep, AcceptStep, ReleaseStep,
         PayStep, ClaimStep, CertifyStep, CheckStep, TakeRestStep, RequestStep, ApproveStep, OpenCaseStep,
         ApproveCaseStep, OpenWholeStep, AcrossStep, FraudStep, SellersClaim, Overstated, DoublePledge,
         OpenDisclosure, Step

\* A step that is to land a transaction.
OnLedger(s) == s.op \notin OffChain /\ s.refusal = None

\* The invoices a run acknowledges.
Known == {main} \cup Elements(pool)

\* The steps of a run that call the registry, each with its call.
RegistryEffect(s) ==
    \/ s = DebtorStep /\ AdmitDebtor(Operator, main.debtor)
    \/ \E f \in {lenderA, lenderB} : s = LenderStep(f) /\ AdmitFinancier(Operator, f)
    \/ \E n \in Known : s = AckStep(n) /\ Acknowledge(main.debtor, n)
    \/ \E f \in {lenderA, lenderB} : s = OfferStep(f) /\ OfferTo(main, f)
    \/ s = DoublePledge /\ OfferTo(main, lenderB)
    \/ \E n \in {forged, inflated} : s = FraudStep(n) /\ OfferTo(n, lenderB)
    \/ \E f \in {lenderA, lenderB} : s = AcceptStep(main, f) /\ Accept(f, main)
    \/ s = ReleaseStep /\ Release(lenderA, main)
    \/ s = PayStep /\ PayInvoice(main.debtor, main)
    \/ s = SellersClaim /\ ClaimAsSeller(main.seller, main)
    \/ s = ClaimStep /\ ClaimAsHolder(lenderB, main)
    \/ s = Overstated /\ Certify(lenderA, certId, overstatedFloor)
    \/ s = CertifyStep /\ Certify(lenderA, certId, floor)
    \/ s = AcceptStep(pool[1], lenderA) /\ Accept(lenderA, pool[1])
    \/ s = TakeRestStep /\ AcceptBatch(lenderA, Tail(pool))

\* And those that call the audit side.
AuditEffect(s) ==
    \/ s = RequestStep /\ Audit!RequestDisclosure(currentRecordId(main), caseRef)
    \/ \E i \in {keyholder1, keyholder3} :
        \/ s = ApproveStep(i) /\ Audit!ApproveDisclosure(i, currentRequestId)
        \/ s = ApproveCaseStep(i) /\ Audit!ApproveCase(i, insolvencyRef)
    \/ s = OpenCaseStep /\ Audit!OpenCase(insolvencyRef, CaseSlots)

\* Each step of a plan makes the call it is for, and no other.
LEMMA Effects ==
    ASSUME NEW s \in CliSteps, Transaction(s)
    PROVE  (RegistryEffect(s) /\ UNCHANGED auditLedger) \/ (UNCHANGED vars /\ AuditEffect(s))
  <1>1. CASE RegistryCall(s) /\ UNCHANGED auditLedger
    <2>1. CASE s \in ConsoleSteps
      BY <1>1, <2>1, StepFields DEF ConsoleSteps, RegistryCall, RegistryEffect, Known
    <2>2. CASE s \in {LenderStep(lenderB), FraudStep(forged), FraudStep(inflated), ReleaseStep,
            OfferStep(lenderB), AcceptStep(main, lenderB), PayStep, SellersClaim, ClaimStep}
      <3>1. CASE s \in {LenderStep(lenderB), FraudStep(forged), FraudStep(inflated)}
        BY <1>1, <3>1, StepFields DEF RegistryCall, RegistryEffect
      <3>2. CASE s \in {ReleaseStep, OfferStep(lenderB), AcceptStep(main, lenderB)}
        BY <1>1, <3>2, StepFields DEF RegistryCall, RegistryEffect
      <3>3. CASE s \in {PayStep, SellersClaim, ClaimStep}
        BY <1>1, <3>3, StepFields DEF RegistryCall, RegistryEffect
      <3> QED BY <2>2, <3>1, <3>2, <3>3
    <2>3. CASE s \in {AckStep(n) : n \in Elements(pool)}
      BY <1>1, <2>3, StepFields DEF RegistryCall, RegistryEffect, Known
    <2>4. CASE s \in {Overstated, CertifyStep, CheckStep, AcceptStep(pool[1], lenderA), TakeRestStep}
      BY <1>1, <2>4, StepFields, StepRefusals, Codes DEF RegistryCall, RegistryEffect, FloorAsked
    <2>5. CASE s \in {OpenCaseStep, ApproveCaseStep(keyholder1), ApproveCaseStep(keyholder3),
            OpenWholeStep, AcrossStep}
      BY <1>1, <2>5, StepFields DEF RegistryCall, RegistryEffect
    <2> QED BY <2>1, <2>2, <2>3, <2>4, <2>5 DEF CliSteps
  <1>2. CASE UNCHANGED vars /\ AuditCall(s)
    <2>1. CASE s \in ConsoleSteps
      BY <1>2, <2>1, StepFields DEF ConsoleSteps, AuditCall, AuditEffect
    <2>2. CASE s \in {LenderStep(lenderB), FraudStep(forged), FraudStep(inflated), ReleaseStep,
            OfferStep(lenderB), AcceptStep(main, lenderB), PayStep, SellersClaim, ClaimStep}
      BY <1>2, <2>2, StepFields DEF AuditCall, AuditEffect
    <2>3. CASE s \in {AckStep(n) : n \in Elements(pool)}
      BY <1>2, <2>3, StepFields DEF AuditCall, AuditEffect
    <2>4. CASE s \in {Overstated, CertifyStep, CheckStep, AcceptStep(pool[1], lenderA), TakeRestStep}
      BY <1>2, <2>4, StepFields DEF AuditCall, AuditEffect
    <2>5. CASE s \in {OpenCaseStep, ApproveCaseStep(keyholder1), ApproveCaseStep(keyholder3),
            OpenWholeStep, AcrossStep}
      BY <1>2, <2>5, StepFields DEF AuditCall, AuditEffect
    <2> QED BY <2>1, <2>2, <2>3, <2>4, <2>5 DEF CliSteps
  <1> QED BY <1>1, <1>2 DEF Transaction

\* A step of a plan is a call of the two contracts' specifications.
LEMMA EffectIsCall ==
    ASSUME BaseInv, tool \in Tools, NEW s \in CliSteps, Transaction(s)
    PROVE  AnyCall
  <1>1. /\ main \in Invoices /\ forged \in Invoices /\ inflated \in Invoices /\ Known \subseteq Invoices
        /\ lenderA \in Financiers /\ lenderB \in Financiers /\ certId \in CertIds
        /\ floor \in Floors /\ overstatedFloor \in Floors /\ validUntil \in Times
        /\ offerExpiry[tool] \in Times /\ pool \in Pools /\ Tail(pool) \in Pools
        /\ main.seller \in Sellers /\ main.debtor \in Debtors /\ Operator \in Callers
        /\ pool[1] \in Invoices
      BY LifecycleAssumption, PoolReads, InvoiceFields DEF LifecycleAssumption, Known, Callers
  <1>2. ASSUME NEW n \in Invoices, NEW f \in Financiers, OfferTo(n, f) PROVE Next
    <2>1. Fresh(n) \in Ephemerals
      BY <1>2 DEF OfferTo, Fresh, Undrawn
    <2>2. holderTagOf(f, n) \in OfferTags(n)
      BY DEF OfferTags
    <2> QED BY <1>1, <1>2, <2>1, <2>2 DEF OfferTo, Next
  <1>3. CASE RegistryEffect(s) /\ UNCHANGED auditLedger
    <2>1. ASSUME NEW d \in Debtors, AdmitDebtor(Operator, d) PROVE Next
      BY <1>1, <2>1 DEF Next
    <2>2. ASSUME NEW f \in Financiers, AdmitFinancier(Operator, f) PROVE Next
      BY <1>1, <2>2 DEF Next
    <2>3. ASSUME NEW n \in Invoices, Acknowledge(main.debtor, n) \/ PayInvoice(main.debtor, n) PROVE Next
      BY <1>1, <2>3 DEF Next
    <2>4. ASSUME NEW f \in Financiers, NEW n \in Invoices,
                 Accept(f, n) \/ Release(f, n) \/ ClaimAsHolder(f, n)
          PROVE  Next
      BY <2>4 DEF Next
    <2>5. ASSUME ClaimAsSeller(main.seller, main) PROVE Next
      BY <1>1, <2>5 DEF Next
    <2>6. ASSUME NEW least \in Floors, Certify(lenderA, certId, least) PROVE Next
      BY <1>1, <2>6 DEF Certify, Next
    <2>7. ASSUME AcceptBatch(lenderA, Tail(pool)) PROVE Next
      BY <1>1, <2>7 DEF Next
    <2> QED BY <1>1, <1>2, <1>3, <2>1, <2>2, <2>3, <2>4, <2>5, <2>6, <2>7
      DEF RegistryEffect, AnyCall
  <1>4. CASE UNCHANGED vars /\ AuditEffect(s)
    <2>1. ASSUME Audit!RequestDisclosure(currentRecordId(main), caseRef) PROVE AuditStep
      BY <2>1 DEF Audit!RequestDisclosure, AuditStep
    <2>2. ASSUME NEW i \in {keyholder1, keyholder3}, Audit!ApproveDisclosure(i, currentRequestId)
          PROVE  AuditStep
      BY <2>2 DEF Audit!ApproveDisclosure, AuditStep
    <2>3. ASSUME NEW i \in {keyholder1, keyholder3}, Audit!ApproveCase(i, insolvencyRef) PROVE AuditStep
      BY <2>3 DEF AuditStep
    <2>4. ASSUME Audit!OpenCase(insolvencyRef, CaseSlots) PROVE AuditStep
      <3>1. \A j \in Audit!Slots : CaseSlots[j] \in RecordIds \cup {Unused}
        BY <2>4 DEF Audit!OpenCase, Audit!Openable
      <3>2. CaseSlots \in [Audit!Slots -> RecordIds \cup {Unused}]
        BY <3>1, AuditReads DEF CaseSlots
      <3> QED BY <2>4, <3>2 DEF AuditStep
    <2> QED BY <1>4, <2>1, <2>2, <2>3, <2>4 DEF AuditEffect, AnyCall
  <1> QED BY <1>3, <1>4, Effects

\* What a run's steps do to the receivable it is about, and to those of the pool.
MainMoves(s) ==
    \/ \E f \in {lenderA, lenderB} :
        /\ s = OfferStep(f) \/ s = DoublePledge
        /\ Free(main) /\ now < offerExpiry[tool] /\ lender'[main] = lender[main]
        /\ \E e \in Ephemerals :
            pledges'[main] = Offered(holderTagOf(f, main), offerExpiry[tool], <<main, e>>)
    \/ \E f \in {lenderA, lenderB} :
        /\ s = AcceptStep(main, f) /\ Takable(f, main) /\ lender'[main] = f
        /\ pledges'[main] = [pledges[main] EXCEPT !.status = "PLEDGED"]
    \/ /\ s = ReleaseStep /\ pledges[main].status = "PLEDGED" /\ lender'[main] = None
       /\ pledges'[main] = [pledges[main] EXCEPT !.status = "RELEASED"]
    \/ /\ s = PayStep /\ pledges[main].status # "SETTLED" /\ lender'[main] = lender[main]
       /\ pledges'[main] = [pledges[main] EXCEPT !.status = "SETTLED", !.payeeTag = PayeeTag(main),
                                                 !.amount = main.amount, !.claimed = FALSE]
    \/ /\ \/ s = SellersClaim /\ Claimable(main, sellerPayeeTagOf(main.seller, main))
          \/ s = ClaimStep /\ Claimable(main, holderTagOf(lenderB, main))
       /\ pledges'[main] = [pledges[main] EXCEPT !.claimed = TRUE] /\ lender'[main] = lender[main]

\* And to those of the pool.
PoolMoves(s, n) ==
    \/ /\ s = CertifyStep /\ Free(n) /\ pledges'[n].status = "OFFERED" /\ lender'[n] = lender[n]
    \/ /\ \/ s = AcceptStep(pool[1], lenderA) /\ n = pool[1]
          \/ s = TakeRestStep /\ n \in Elements(Tail(pool))
       /\ pledges[n].status = "OFFERED" /\ pledges'[n].status = "PLEDGED" /\ lender'[n] = lenderA

\* Nothing is acknowledged but the run's own receivables, and they stay acknowledged.
OnlyKnown ==
    /\ acks \subseteq Known
    /\ \A n \in Known : AckStep(n) \in landed => n \in acks

\* The calls a plan wants refused never land: nobody acknowledged the forged and the inflated
\* invoice, and the pool is not worth the overstated floor.
LEMMA NoFraudLands ==
    ASSUME OnlyKnown
    PROVE  /\ \A n \in {forged, inflated} : ~OfferTo(n, lenderB)
           /\ ~Certify(lenderA, certId, overstatedFloor)
  <1>1. \A n \in {forged, inflated} : n \notin acks
      BY RunInvoices DEF OnlyKnown, Known
  <1>2. \A n \in {forged, inflated} : ~OfferTo(n, lenderB)
      BY <1>1 DEF OfferTo, Offer, Offerable
  <1>3. ~Certify(lenderA, certId, overstatedFloor)
    <2>1. PoolTotal(pool) < overstatedFloor
      BY LifecycleAssumption DEF LifecycleAssumption
    <2>2. overstatedFloor \in Nat
      BY LifecycleAssumption, RegistryAssumption DEF LifecycleAssumption, RegistryAssumption
    <2>3. PoolTotal(pool) \in Nat
      <3>1. \A i \in Nat : SlotAmount(pool, i) \in Nat
        BY PoolReads, InvoiceFields DEF SlotAmount
      <3> QED BY <3>1 DEF PoolTotal
    <2> QED BY <2>1, <2>2, <2>3 DEF Certify, CertifyBorrowingBase
  <1> QED BY <1>2, <1>3

\* A step moves the pledge of #1001 or of the pool's receivables as its call does, or not at all.
LEMMA RunMoves ==
    ASSUME BaseInv, tool \in Tools, OnlyKnown, NEW s \in CliSteps, RegistryEffect(s)
    PROVE  /\ Unmoved(main) \/ MainMoves(s)
           /\ \A n \in Elements(pool) : Unmoved(n) \/ PoolMoves(s, n)
           /\ \A n \in Invoices \ Known : Unmoved(n)
  <1> DEFINE Goal == /\ Unmoved(main) \/ MainMoves(s)
                     /\ \A n \in Elements(pool) : Unmoved(n) \/ PoolMoves(s, n)
                     /\ \A n \in Invoices \ Known : Unmoved(n)
  <1>1. /\ pledges \in [Invoices -> PledgeState] /\ lender \in [Invoices -> Financiers \cup {None}]
        /\ main \in Invoices /\ Elements(pool) \subseteq Invoices /\ main \notin Elements(pool)
      BY PoolReads, RunInvoices DEF BaseInv, RegistryInv, TypeOK
  <1>2. CASE UNCHANGED <<pledges, lender>>
      BY <1>2 DEF Unmoved
  <1>3. ASSUME NEW f \in {lenderA, lenderB}, OfferTo(main, f), s = OfferStep(f) \/ s = DoublePledge
        PROVE  Goal
    <2>1. Fresh(main) \in Ephemerals
      BY <1>3 DEF OfferTo, Fresh, Undrawn
    <2>2. /\ Free(main) /\ now < offerExpiry[tool] /\ lender' = lender
          /\ pledges' = [pledges EXCEPT
                  ![main] = Offered(holderTagOf(f, main), offerExpiry[tool], <<main, Fresh(main)>>)]
      BY <1>3 DEF OfferTo, Offer, Offerable
    <2>3. MainMoves(s)
      BY <1>1, <1>3, <2>1, <2>2 DEF MainMoves
    <2>4. \A n \in Invoices \ {main} : Unmoved(n)
      BY <1>1, <2>2 DEF Unmoved
    <2> QED BY <1>1, <2>3, <2>4 DEF Known
  <1>4. ASSUME NEW f \in {lenderA, lenderB}, Accept(f, main), s = AcceptStep(main, f) PROVE Goal
    <2>1. Elements(<<main>>) = {main}
      BY DEF Elements
    <2>2. MainMoves(s)
      BY <1>1, <1>4, <2>1 DEF Accept, TakeOffers, MainMoves
    <2>3. \A n \in Invoices \ {main} : Unmoved(n)
      BY <1>4, <2>1 DEF Accept, TakeOffers, Unmoved
    <2> QED BY <1>1, <2>2, <2>3 DEF Known
  <1>5. ASSUME Release(lenderA, main), s = ReleaseStep PROVE Goal
    <2>1. MainMoves(s)
      BY <1>1, <1>5 DEF Release, MainMoves
    <2>2. \A n \in Invoices \ {main} : Unmoved(n)
      BY <1>1, <1>5 DEF Release, Unmoved
    <2> QED BY <1>1, <2>1, <2>2 DEF Known
  <1>6. ASSUME PayInvoice(main.debtor, main), s = PayStep PROVE Goal
    <2>1. MainMoves(s)
      BY <1>1, <1>6 DEF PayInvoice, MainMoves
    <2>2. \A n \in Invoices \ {main} : Unmoved(n)
      BY <1>1, <1>6 DEF PayInvoice, Unmoved
    <2> QED BY <1>1, <2>1, <2>2 DEF Known
  <1>7. ASSUME \/ ClaimAsSeller(main.seller, main) /\ s = SellersClaim
               \/ ClaimAsHolder(lenderB, main) /\ s = ClaimStep
        PROVE  Goal
    <2>1. MainMoves(s)
      BY <1>1, <1>7 DEF ClaimAsSeller, ClaimAsHolder, Claim, MainMoves
    <2>2. \A n \in Invoices \ {main} : Unmoved(n)
      BY <1>1, <1>7 DEF ClaimAsSeller, ClaimAsHolder, Claim, Unmoved
    <2> QED BY <1>1, <2>1, <2>2 DEF Known
  <1>8. ASSUME Certify(lenderA, certId, floor), s = CertifyStep PROVE Goal
    <2>1. PICK tags, es : LockSlots(pool, tags, es, validUntil)
      BY <1>8 DEF Certify, CertifyBorrowingBase
    <2>2. \A n \in Invoices \ Elements(pool) : Unmoved(n)
      BY <1>8, <2>1 DEF Certify, CertifyBorrowingBase, LockSlots, Unmoved
    <2>3. \A n \in Elements(pool) : PoolMoves(s, n)
      BY <1>1, <1>8, <2>1 DEF Certify, CertifyBorrowingBase, LockSlots, Offered, Absent, PoolMoves
    <2> QED BY <1>1, <2>2, <2>3 DEF Known
  <1>9. ASSUME NEW ns, TakeOffers(lenderA, ns), Elements(ns) \subseteq Elements(pool),
               \/ s = AcceptStep(pool[1], lenderA) /\ ns = <<pool[1]>>
               \/ s = TakeRestStep /\ ns = Tail(pool)
        PROVE  Goal
    <2>1. \A n \in Invoices \ Elements(ns) : Unmoved(n)
      BY <1>9 DEF TakeOffers, Unmoved
    <2>2. ASSUME NEW n \in Elements(ns) PROVE PoolMoves(s, n)
      <3>1. /\ pledges[n].status = "OFFERED" /\ lender'[n] = lenderA
            /\ pledges'[n] = [pledges[n] EXCEPT !.status = "PLEDGED"]
        BY <1>1, <1>9 DEF TakeOffers, Takable
      <3>2. pledges'[n].status = "PLEDGED"
        BY <1>1, <1>9, <3>1 DEF PledgeState
      <3>3. Elements(<<pool[1]>>) = {pool[1]}
        BY DEF Elements
      <3> QED BY <1>9, <3>1, <3>2, <3>3 DEF PoolMoves
    <2> QED BY <1>1, <1>9, <2>1, <2>2 DEF Known
  <1>10. Elements(<<pool[1]>>) \subseteq Elements(pool) /\ Elements(Tail(pool)) \subseteq Elements(pool)
      BY PoolReads DEF Elements
  <1>11. ASSUME s = AcceptStep(pool[1], lenderA), Accept(lenderA, pool[1]) PROVE Goal
      BY <1>9, <1>10, <1>11 DEF Accept
  <1>12. ASSUME s = TakeRestStep, AcceptBatch(lenderA, Tail(pool)) PROVE Goal
      BY <1>9, <1>10, <1>12 DEF AcceptBatch
  <1> HIDE DEF Goal
  <1> QED
      BY <1>2, <1>3, <1>4, <1>5, <1>6, <1>7, <1>8, <1>11, <1>12, NoFraudLands
      DEF RegistryEffect, AdmitDebtor, AdmitFinancier, Acknowledge, Goal

-----------------------------------------------------------------------------
(* What has landed lasts.  Each of these facts is told by the steps that   *)
(* landed, in whatever order a replay let them land, and none of them says *)
(* where the run stands.                                                   *)

\* The only certificate is the run's, over its pool and at its floor.
RunsCertificate ==
    /\ \A c \in CertIds : certificates[c] # None =>
        c = certId /\ certificates[c].slots = pool /\ certificates[c].floor = floor
    /\ CertifyStep \in landed => certificates[certId] # None

\* Taken up by the first lender, for good.
TakenByA(n) == pledges[n].status = "PLEDGED" /\ lender[n] = lenderA

\* The pool's receivables stay with the lender that took them up.
PoolIsLocked ==
    /\ AcceptStep(pool[1], lenderA) \in landed => TakenByA(pool[1])
    /\ TakeRestStep \in landed => \A n \in Elements(Tail(pool)) : TakenByA(n)

\* The pledge of #1001 as the plan leaves it: claimed by the second lender at the command line,
\* held by the first in the console.
MainIsHeld ==
    IF tool = "cli"
    THEN /\ pledges[main].status = "SETTLED" /\ pledges[main].claimed
         /\ pledges[main].payeeTag = holderTagOf(lenderB, main)
    ELSE TakenByA(main)

\* The step whose landing leaves it so.
HoldingStep == IF tool = "cli" THEN ClaimStep ELSE AcceptStep(main, lenderA)

\* Once it is so it stays, and a console run never settles anything.
MainStays ==
    /\ HoldingStep \in landed => MainIsHeld
    /\ tool = "console" => \A n \in Invoices : pledges[n].status # "SETTLED"

\* The only request is about the record the pledge of #1001 then points to for good, and every
\* approval of it left its share.
RequestStands ==
    /\ requests \subseteq {currentRequestId}
    /\ requests # {} => MainIsHeld
    /\ RequestStep \in landed => currentRequestId \in requests
    /\ \A i \in {keyholder1, keyholder3} : ApproveStep(i) \in landed =>
        currentRequestId \in requests /\ i \in requestApprovals[currentRequestId]
    /\ \A q \in requests : \A i \in requestApprovals[q] :
        shares[Audit!shareKeyOf(q, i)] = Audit!RequestShare(q, i)

\* The case names the records the run's pledges then point to for good, one in every slot.
CaseStands ==
    LET c == insolvencyRef
        open == cases[c] # Audit!NoCase IN
    /\ open => /\ MainIsHeld /\ cases[c] = CaseSlots
               /\ \A n \in Elements(pool) : TakenByA(n)
               /\ \A i \in caseApprovals[c], j \in Audit!Slots :
                    shares[Audit!caseShareKeyOf(c, i, j)] = Audit!CaseShare(c, i, j)
    /\ OpenCaseStep \in landed => open
    /\ \A i \in {keyholder1, keyholder3} : ApproveCaseStep(i) \in landed =>
        open /\ i \in caseApprovals[c]

\* What a run's landed steps leave on the ledger, replayed or not.
RunFacts ==
    /\ OnlyKnown /\ RunsCertificate /\ PoolIsLocked /\ MainStays /\ RequestStands /\ CaseStands

\* Step s lands, after every step its plan has before it.
Lands(s) ==
    /\ tool \in Tools /\ tool' = tool
    /\ s \in PlanSteps /\ s \in CliSteps /\ Transaction(s)
    /\ landed' = landed \cup {s}
    /\ \A t \in PlanSteps : OnLedger(t) /\ Place(t) < Place(s) => t \in landed

\* What a step of the console's plan is, told by its call.
LEMMA ConsoleStepsAre ==
    ASSUME tool = "console", NEW s \in PlanSteps
    PROVE  /\ s.op \notin {"release", "payInvoice", "claimAsSeller", "claimAsHolder",
                           "certifyBorrowingBase", "acceptBatch", "openCase", "approveCase"}
           /\ s.op = "acknowledge" => s = AckStep(main)
           /\ s.op = "accept" => s = AcceptStep(main, lenderA)
  BY StepFields DEF PlanSteps, ConsoleSteps

\* The call of the step that lands.
LEMMA EffectOf ==
    ASSUME NEW s, Lands(s)
    PROVE  (RegistryEffect(s) /\ UNCHANGED auditLedger) \/ (UNCHANGED vars /\ AuditEffect(s))
  BY Effects DEF Lands

\* What is held is not moved again.
LEMMA HeldStays ==
    ASSUME BaseInv, OnlyKnown, NEW s, Lands(s)
    PROVE  /\ MainIsHeld => Unmoved(main) /\ MainIsHeld'
           /\ \A n \in Elements(pool) : TakenByA(n) => Unmoved(n) /\ TakenByA(n)'
  <1>1. CASE UNCHANGED vars
      BY <1>1 DEF vars, Unmoved, MainIsHeld, TakenByA, Lands
  <1>2. CASE RegistryEffect(s)
    <2>1. Unmoved(main) \/ MainMoves(s)
      BY <1>2, RunMoves DEF Lands
    <2>2. \A n \in Elements(pool) : Unmoved(n) \/ PoolMoves(s, n)
      BY <1>2, RunMoves DEF Lands
    <2>3. ASSUME NEW n \in Elements(pool), TakenByA(n) PROVE Unmoved(n)
      BY <2>2, <2>3 DEF TakenByA, PoolMoves, Free
    <2>4. ASSUME MainIsHeld PROVE Unmoved(main)
      <3>1. CASE tool = "cli"
        BY <2>1, <2>4, <3>1 DEF MainIsHeld, MainMoves, Free, Takable, Claimable
      <3>2. CASE tool = "console"
        <4>1. s \notin {ReleaseStep, PayStep, SellersClaim, ClaimStep}
          BY <3>2, ConsoleStepsAre, StepFields DEF Lands
        <4>2. pledges[main].status = "PLEDGED"
          BY <2>4, <3>2 DEF MainIsHeld, TakenByA
        <4> QED BY <2>1, <4>1, <4>2 DEF MainMoves, Free, Takable
      <3> QED BY <3>1, <3>2 DEF Lands, Tools
    <2> QED BY <2>3, <2>4 DEF Unmoved, MainIsHeld, TakenByA, Lands
  <1> QED BY <1>1, <1>2, EffectOf

LEMMA OnlyKnownStep == ASSUME OnlyKnown, NEW s, Lands(s) PROVE OnlyKnown'
  <1>1. landed' = landed \cup {s} /\ Known' = Known
      BY DEF Lands, Known
  <1>2. ASSUME NEW n \in Known, s = AckStep(n), Acknowledge(main.debtor, n) PROVE OnlyKnown'
    <2>1. acks' = acks \cup {n}
      BY <1>2 DEF Acknowledge
    <2>2. \A m \in Known : AckStep(m) = s => m = n
      BY <1>2, StepFields
    <2> QED BY <1>1, <1>2, <2>1, <2>2 DEF OnlyKnown
  <1>3. ASSUME s.op # "acknowledge", acks' = acks PROVE OnlyKnown'
      BY <1>1, <1>3, StepFields DEF OnlyKnown
  <1>4. CASE RegistryEffect(s)
      BY <1>2, <1>3, <1>4, StepFields
      DEF RegistryEffect, AdmitDebtor, AdmitFinancier, OfferTo, Offer, Accept, AcceptBatch, TakeOffers,
          Release, PayInvoice, ClaimAsSeller, ClaimAsHolder, Claim, Certify, CertifyBorrowingBase,
          acknowledgments
  <1>5. CASE UNCHANGED vars /\ AuditEffect(s)
      BY <1>3, <1>5, StepFields DEF AuditEffect, vars, acknowledgments
  <1> QED BY <1>4, <1>5, EffectOf

LEMMA RunsCertificateStep ==
    ASSUME BaseInv, OnlyKnown, RunsCertificate, NEW s, Lands(s) PROVE RunsCertificate'
  <1>1. landed' = landed \cup {s} /\ certId \in CertIds
      BY LifecycleAssumption DEF Lands, LifecycleAssumption
  <1>2. ASSUME s = CertifyStep, Certify(lenderA, certId, floor) PROVE RunsCertificate'
    <2>1. certificates' = [certificates EXCEPT ![certId] =
              [borrower |-> main.seller, floor |-> floor, validUntil |-> validUntil, slots |-> pool]]
      BY <1>2 DEF Certify, CertifyBorrowingBase
    <2>2. certificates \in [CertIds -> Certificate \cup {None}]
      BY DEF BaseInv, RegistryInv, TypeOK
    <2>3. certificates'[certId] # None
      <3>1. certificates'[certId] = [borrower |-> main.seller, floor |-> floor,
                                     validUntil |-> validUntil, slots |-> pool]
        BY <1>1, <2>1, <2>2
      <3>2. [borrower |-> main.seller, floor |-> floor, validUntil |-> validUntil, slots |-> pool]
              \in Certificate
        BY LifecycleAssumption, InvoiceFields DEF LifecycleAssumption, Certificate
      <3> QED BY <3>1, <3>2, LifecycleAssumption DEF LifecycleAssumption
    <2>4. \A c \in CertIds \ {certId} : certificates'[c] = certificates[c]
      BY <2>1, <2>2
    <2> QED BY <1>1, <2>1, <2>2, <2>3, <2>4 DEF RunsCertificate
  <1>3. ASSUME s # CertifyStep, certificates' = certificates PROVE RunsCertificate'
      BY <1>1, <1>3 DEF RunsCertificate
  <1>4. CASE RegistryEffect(s)
      BY <1>2, <1>3, <1>4, NoFraudLands, StepFields
      DEF RegistryEffect, AdmitDebtor, AdmitFinancier, Acknowledge, OfferTo, Offer, Accept, AcceptBatch,
          TakeOffers, Release, PayInvoice, ClaimAsSeller, ClaimAsHolder, Claim
  <1>5. CASE UNCHANGED vars /\ AuditEffect(s)
      BY <1>3, <1>5, StepFields DEF AuditEffect, vars
  <1> QED BY <1>4, <1>5, EffectOf

LEMMA PoolIsLockedStep ==
    ASSUME BaseInv, OnlyKnown, PoolIsLocked, NEW s, Lands(s) PROVE PoolIsLocked'
  <1>1. /\ landed' = landed \cup {s} /\ pool[1] \in Elements(pool)
        /\ Elements(Tail(pool)) \subseteq Elements(pool)
      BY PoolReads DEF Lands
  <1>2. \A n \in Elements(pool) : TakenByA(n) => TakenByA(n)'
      BY HeldStays
  <1>3. s = AcceptStep(pool[1], lenderA) => TakenByA(pool[1])'
    <2>1. SUFFICES ASSUME s = AcceptStep(pool[1], lenderA) PROVE TakenByA(pool[1])'
      OBVIOUS
    <2>2. Accept(lenderA, pool[1])
      <3>1. pool[1] # main
        BY <1>1, RunInvoices
      <3> QED BY <2>1, <3>1, EffectOf, StepFields DEF RegistryEffect, AuditEffect
    <2>3. Elements(<<pool[1]>>) = {pool[1]} /\ pool[1] \in Invoices
      BY <1>1, PoolReads DEF Elements
    <2>4. pledges[pool[1]] \in PledgeState
      BY <2>3 DEF BaseInv, RegistryInv, TypeOK
    <2> QED BY <2>2, <2>3, <2>4 DEF Accept, TakeOffers, TakenByA, PledgeState
  <1>4. s = TakeRestStep => \A n \in Elements(Tail(pool)) : TakenByA(n)'
    <2>1. SUFFICES ASSUME s = TakeRestStep, NEW n \in Elements(Tail(pool)) PROVE TakenByA(n)'
      OBVIOUS
    <2>2. AcceptBatch(lenderA, Tail(pool))
      BY <2>1, EffectOf, StepFields DEF RegistryEffect, AuditEffect
    <2>3. n \in Invoices
      BY <1>1, PoolReads
    <2>4. pledges[n] \in PledgeState
      BY <2>3 DEF BaseInv, RegistryInv, TypeOK
    <2> QED BY <2>2, <2>3, <2>4 DEF AcceptBatch, TakeOffers, TakenByA, PledgeState
  <1> QED BY <1>1, <1>2, <1>3, <1>4 DEF PoolIsLocked

LEMMA MainStaysStep ==
    ASSUME BaseInv, OnlyKnown, MainStays, NEW s, Lands(s) PROVE MainStays'
  <1>1. landed' = landed \cup {s} /\ tool' = tool /\ tool \in Tools /\ main \in Invoices
      BY RunInvoices DEF Lands
  <1>2. MainIsHeld => MainIsHeld'
      BY HeldStays
  <1>3. pledges[main] \in PledgeState
      BY <1>1 DEF BaseInv, RegistryInv, TypeOK
  <1>4. s = HoldingStep => MainIsHeld'
    <2>1. CASE tool = "cli" /\ s = ClaimStep
      <3>1. ClaimAsHolder(lenderB, main)
        BY <2>1, EffectOf, StepFields DEF RegistryEffect, AuditEffect
      <3> QED BY <1>1, <1>3, <2>1, <3>1
              DEF ClaimAsHolder, Claim, Claimable, MainIsHeld, PledgeState, BaseInv, RegistryInv, TypeOK
    <2>2. CASE tool = "console" /\ s = AcceptStep(main, lenderA)
      <3>1. Accept(lenderA, main)
        BY <2>2, EffectOf, StepFields DEF RegistryEffect, AuditEffect
      <3>2. Elements(<<main>>) = {main}
        BY DEF Elements
      <3> QED BY <1>1, <1>3, <2>2, <3>1, <3>2 DEF Accept, TakeOffers, MainIsHeld, TakenByA, PledgeState
    <2> QED BY <1>1, <2>1, <2>2 DEF HoldingStep, Tools
  <1>5. ASSUME tool = "console", NEW n \in Invoices PROVE pledges'[n].status # "SETTLED"
    <2>1. pledges[n].status # "SETTLED" /\ pledges[n] \in PledgeState
      BY <1>5 DEF MainStays, BaseInv, RegistryInv, TypeOK
    <2>2. CASE UNCHANGED vars
      BY <2>1, <2>2 DEF vars
    <2>3. CASE RegistryEffect(s)
      <3>1. CASE n = main
        <4>1. Unmoved(main) \/ MainMoves(s)
          BY <2>3, RunMoves DEF Lands
        <4>2. s \notin {PayStep, SellersClaim, ClaimStep}
          BY <1>5, ConsoleStepsAre, StepFields DEF Lands
        <4> QED BY <2>1, <3>1, <4>1, <4>2 DEF Unmoved, MainMoves, Offered, Absent, PledgeState
      <3>2. CASE n \in Elements(pool)
        <4>1. Unmoved(n) \/ PoolMoves(s, n)
          BY <2>3, <3>2, RunMoves DEF Lands
        <4> QED BY <2>1, <4>1 DEF Unmoved, PoolMoves
      <3>3. CASE n \notin Known
        <4>1. Unmoved(n)
          BY <2>3, <3>3, RunMoves DEF Lands
        <4> QED BY <2>1, <4>1 DEF Unmoved
      <3> QED BY <3>1, <3>2, <3>3 DEF Known
    <2> QED BY <2>2, <2>3, EffectOf
  <1> QED BY <1>1, <1>2, <1>4, <1>5 DEF MainStays, HoldingStep

\* The step that leaves #1001 held comes before everything on the audit side.
LEMMA HoldingComesFirst ==
    ASSUME NEW s, Lands(s), MainStays, AuditEffect(s), NEW i \in {keyholder1, keyholder3}
    PROVE  /\ MainIsHeld
           /\ s = ApproveStep(i) => RequestStep \in landed
           /\ s \in {OpenCaseStep, ApproveCaseStep(i)} =>
                AcceptStep(pool[1], lenderA) \in landed /\ TakeRestStep \in landed
           /\ s = ApproveCaseStep(i) => OpenCaseStep \in landed
  <1>1. tool \in Tools /\ s \in PlanSteps
      BY DEF Lands
  <1>2. Len(pool) \in Nat
      BY PoolReads
  <1>3. /\ OnLedger(ClaimStep) /\ OnLedger(AcceptStep(main, lenderA)) /\ OnLedger(RequestStep)
        /\ OnLedger(AcceptStep(pool[1], lenderA)) /\ OnLedger(TakeRestStep) /\ OnLedger(OpenCaseStep)
      BY StepFields, StepRefusals DEF OnLedger, OffChain
  <1>4. /\ HoldingStep \in PlanSteps /\ RequestStep \in PlanSteps /\ OnLedger(HoldingStep)
        /\ Place(HoldingStep) \in {6, 15}
      BY <1>1, <1>3, OpeningPlaces, FinancingPlaces DEF HoldingStep, PlanSteps, CliSteps, ConsoleSteps, Tools
  <1>5. ASSUME NEW x \in {keyholder1, keyholder3}
        PROVE  /\ Place(RequestStep) = 21 + Len(pool) /\ Place(ApproveStep(x)) \in {22 + Len(pool), 23 + Len(pool)}
               /\ Place(OpenCaseStep) = 25 + Len(pool)
               /\ Place(ApproveCaseStep(x)) \in {26 + Len(pool), 27 + Len(pool)}
               /\ Place(AcceptStep(pool[1], lenderA)) = 19 + Len(pool) /\ Place(TakeRestStep) = 20 + Len(pool)
      BY <1>2, BasePlaces, RecordPlaces, CasePlaces
  <1>6. Place(HoldingStep) < Place(s)
      BY <1>2, <1>4, <1>5 DEF AuditEffect
  <1>7. MainIsHeld
      BY <1>4, <1>6 DEF Lands, MainStays
  <1>8. s = ApproveStep(i) => RequestStep \in landed
      BY <1>2, <1>3, <1>4, <1>5 DEF Lands
  <1>9. ASSUME s \in {OpenCaseStep, ApproveCaseStep(i)}
        PROVE  AcceptStep(pool[1], lenderA) \in landed /\ TakeRestStep \in landed
               /\ (s = ApproveCaseStep(i) => OpenCaseStep \in landed)
    <2>1. tool = "cli"
      BY <1>1, <1>9, ConsoleStepsAre, StepFields DEF Tools
    <2>2. {AcceptStep(pool[1], lenderA), TakeRestStep, OpenCaseStep} \subseteq PlanSteps
      BY <2>1 DEF PlanSteps, CliSteps
    <2> QED BY <1>2, <1>3, <1>5, <1>9, <2>2 DEF Lands
  <1> QED BY <1>7, <1>8, <1>9

\* What a held or taken-up receivable points to is a record.
LEMMA HeldHasRecord ==
    ASSUME BaseInv, tool \in Tools
    PROVE  /\ MainIsHeld => currentRecordId(main) \in RecordIds /\ currentRequestId \in Audit!RequestIds
           /\ MainIsHeld => lender[main] = IF tool = "cli" THEN lenderB ELSE lenderA
           /\ \A n \in Elements(pool) : TakenByA(n) => currentRecordId(n) \in RecordIds
  <1>1. /\ main \in Invoices /\ Elements(pool) \subseteq Invoices /\ pledges \in [Invoices -> PledgeState]
        /\ lenderA # None /\ lenderB # None
    <2>1. lenderA # None /\ lenderB # None
      BY RunInvoices, RegistryAssumption DEF RegistryAssumption
    <2> QED BY <2>1, RunInvoices, PoolReads DEF BaseInv, RegistryInv, TypeOK
  <1>2. ASSUME NEW n \in Invoices, lender[n] # None PROVE currentRecordId(n) \in RecordIds
      BY <1>1, <1>2 DEF BaseInv, RecordsKept, currentRecordId, PledgeState
  <1>3. ASSUME MainIsHeld PROVE lender[main] = IF tool = "cli" THEN lenderB ELSE lenderA
    <2>1. CASE tool = "cli"
      <3>1. Secured(main)
        BY <1>1 DEF BaseInv, RegistryInv, LenderIsSecured
      <3>2. pledges[main].status = "SETTLED" /\ pledges[main].payeeTag = holderTagOf(lenderB, main)
        BY <1>3, <2>1 DEF MainIsHeld
      <3>3. lender[main] # None
        BY <3>1, <3>2 DEF Secured, holderTagOf, sellerPayeeTagOf
      <3> QED BY <2>1, <3>1, <3>2, <3>3 DEF Secured, holderTagOf
    <2>2. CASE tool = "console"
      BY <1>3, <2>2 DEF MainIsHeld, TakenByA
    <2> QED BY <2>1, <2>2 DEF Tools
  <1>4. MainIsHeld => currentRecordId(main) \in RecordIds
      BY <1>1, <1>2, <1>3
  <1>5. \A n \in Elements(pool) : TakenByA(n) => currentRecordId(n) \in RecordIds
      BY <1>1, <1>2 DEF TakenByA
  <1>6. MainIsHeld => currentRequestId \in Audit!RequestIds
      BY <1>4, AuditReads DEF currentRequestId
  <1> QED BY <1>3, <1>4, <1>5, <1>6

LEMMA RequestStandsStep ==
    ASSUME BaseInv, OnlyKnown, MainStays, RequestStands, NEW s, Lands(s) PROVE RequestStands'
  <1>1. landed' = landed \cup {s} /\ tool \in Tools
      BY DEF Lands
  <1>2. MainIsHeld => MainIsHeld' /\ currentRequestId' = currentRequestId
      BY HeldStays DEF Unmoved, currentRequestId, currentRecordId
  <1>3. /\ requestApprovals \in [Audit!RequestIds -> SUBSET {keyholder1, keyholder2, keyholder3}]
        /\ DOMAIN shares = Audit!ShareKeys
      BY DEF BaseInv, AuditTypes
  <1>4. ASSUME UNCHANGED <<requests, requestApprovals>>, s.op \notin {"requestDisclosure", "approveDisclosure"},
               \A q \in requests : \A i \in requestApprovals[q] :
                  shares'[Audit!shareKeyOf(q, i)] = shares[Audit!shareKeyOf(q, i)]
        PROVE  RequestStands'
    <2>1. CASE requests = {}
      <3>1. RequestStep \notin landed' /\ \A i \in {keyholder1, keyholder3} : ApproveStep(i) \notin landed'
        BY <1>1, <1>4, <2>1, StepFields DEF RequestStands
      <3> QED BY <1>4, <2>1, <3>1 DEF RequestStands
    <2>2. CASE requests # {}
      <3>1. MainIsHeld' /\ currentRequestId' = currentRequestId
        BY <1>2, <2>2 DEF RequestStands
      <3>2. /\ RequestStep \in landed' => RequestStep \in landed
            /\ \A i \in {keyholder1, keyholder3} : ApproveStep(i) \in landed' => ApproveStep(i) \in landed
        BY <1>1, <1>4, StepFields
      <3>3. \A q \in requests' : \A i \in requestApprovals'[q] :
              shares'[Audit!shareKeyOf(q, i)] = Audit!RequestShare(q, i)'
        BY <1>4 DEF RequestStands, Audit!RequestShare
      <3> QED BY <1>4, <3>1, <3>2, <3>3 DEF RequestStands
    <2> QED BY <2>1, <2>2
  <1>5. CASE RegistryEffect(s) /\ UNCHANGED auditLedger
    <2>1. s.op \notin {"requestDisclosure", "approveDisclosure"}
      BY <1>5, StepFields DEF RegistryEffect
    <2> QED BY <1>4, <1>5, <2>1 DEF auditLedger
  <1>6. CASE UNCHANGED vars /\ AuditEffect(s)
    <2>1. MainIsHeld /\ MainIsHeld' /\ currentRequestId' = currentRequestId
          /\ currentRequestId \in Audit!RequestIds
      BY <1>1, <1>2, <1>6, HoldingComesFirst, HeldHasRecord
    <2>2. ASSUME s = RequestStep, Audit!RequestDisclosure(currentRecordId(main), caseRef)
          PROVE  RequestStands'
      <3>1. /\ requests = {} /\ requests' = {currentRequestId}
            /\ requestApprovals'[currentRequestId] = {}
        BY <1>3, <2>1, <2>2 DEF Audit!RequestDisclosure, currentRequestId, RequestStands
      <3>2. \A i \in {keyholder1, keyholder3} : ApproveStep(i) \notin landed'
        BY <1>1, <2>2, <3>1, StepFields DEF RequestStands
      <3> QED BY <2>1, <3>1, <3>2 DEF RequestStands
    <2>3. ASSUME NEW i \in {keyholder1, keyholder3}, s = ApproveStep(i),
                 Audit!ApproveDisclosure(i, currentRequestId)
          PROVE  RequestStands'
      <3>1. RequestStep \in landed /\ currentRequestId \in requests /\ requests = {currentRequestId}
        BY <1>6, <2>3, HoldingComesFirst DEF RequestStands
      <3>2. /\ requests' = requests
            /\ requestApprovals'[currentRequestId] = requestApprovals[currentRequestId] \cup {i}
            /\ shares' = [shares EXCEPT ![Audit!shareKeyOf(currentRequestId, i)] =
                              Audit!RequestShare(currentRequestId, i)]
            /\ UNCHANGED <<cases, caseApprovals>>
        BY <1>3, <2>1, <2>3 DEF Audit!ApproveDisclosure
      <3>3. ASSUME NEW x \in requestApprovals'[currentRequestId]
            PROVE  shares'[Audit!shareKeyOf(currentRequestId, x)] = Audit!RequestShare(currentRequestId, x)
        <4>1. CASE x = i
          <5>1. Audit!shareKeyOf(currentRequestId, i) \in Audit!ShareKeys
            BY <2>1, AuditReads
          <5> QED BY <1>3, <3>2, <4>1, <5>1
        <4>2. CASE x # i
          <5>1. x \in requestApprovals[currentRequestId]
            BY <3>2, <3>3, <4>2
          <5>2. Audit!shareKeyOf(currentRequestId, x) # Audit!shareKeyOf(currentRequestId, i)
            BY <4>2 DEF Audit!shareKeyOf
          <5>3. shares'[Audit!shareKeyOf(currentRequestId, x)] = shares[Audit!shareKeyOf(currentRequestId, x)]
            BY <1>3, <3>2, <5>2
          <5> QED BY <3>1, <5>1, <5>3 DEF RequestStands
        <4> QED BY <4>1, <4>2
      <3>4. ASSUME NEW q \in requests', NEW x \in requestApprovals'[q]
            PROVE  shares'[Audit!shareKeyOf(q, x)] = Audit!RequestShare(q, x)'
        <4>1. q = currentRequestId
          BY <3>1, <3>2
        <4> QED BY <3>3, <4>1 DEF Audit!RequestShare
      <3>5. \A x \in {keyholder1, keyholder3} : ApproveStep(x) \in landed' =>
              x \in requestApprovals'[currentRequestId]
        BY <1>1, <2>3, <3>2, StepFields DEF RequestStands
      <3>6. RequestStep \in landed' => currentRequestId \in requests'
        BY <3>1, <3>2
      <3> QED BY <2>1, <3>1, <3>2, <3>4, <3>5, <3>6 DEF RequestStands
    <2>4. ASSUME NEW i \in {keyholder1, keyholder3}, s = ApproveCaseStep(i), Audit!ApproveCase(i, insolvencyRef)
          PROVE  RequestStands'
      <3>1. UNCHANGED <<requests, requestApprovals>> /\ shares' = Audit!SealCaseShares(insolvencyRef, i)
        BY <2>4 DEF Audit!ApproveCase
      <3>2. ASSUME NEW q \in requests, NEW x \in requestApprovals[q]
            PROVE  shares'[Audit!shareKeyOf(q, x)] = shares[Audit!shareKeyOf(q, x)]
        <4>1. q \in Audit!RequestIds /\ x \in {keyholder1, keyholder2, keyholder3}
          BY DEF BaseInv, AuditTypes
        <4>2. Audit!shareKeyOf(q, x) \in Audit!ShareKeys
          BY <4>1, AuditReads
        <4>3. \A j : Audit!shareKeyOf(q, x) # Audit!caseShareKeyOf(insolvencyRef, i, j)
          BY DEF Audit!shareKeyOf, Audit!caseShareKeyOf
        <4> QED BY <3>1, <4>2, <4>3 DEF Audit!SealCaseShares
      <3> QED BY <1>4, <2>4, <3>1, <3>2, StepFields
    <2>5. ASSUME s = OpenCaseStep, Audit!OpenCase(insolvencyRef, CaseSlots) PROVE RequestStands'
      <3>1. UNCHANGED <<requests, requestApprovals, shares>>
        BY <2>5 DEF Audit!OpenCase
      <3> QED BY <1>4, <2>5, <3>1, StepFields
    <2> QED BY <1>6, <2>2, <2>3, <2>4, <2>5 DEF AuditEffect
  <1> QED BY <1>5, <1>6, EffectOf

\* With every slot on a record, the view of the case is the case.
LEMMA SlotsAreRecords ==
    ASSUME BaseInv, tool \in Tools, MainIsHeld, \A n \in Elements(pool) : TakenByA(n)
    PROVE  /\ CaseSlots \in [Audit!Slots -> RecordIds]
           /\ Unused \notin RecordIds
  <1>1. /\ CaseWidth \in Nat /\ CaseWidth <= Len(pool) + 1 /\ Len(pool) \in Nat
        /\ DOMAIN pool = 1..Len(pool)
      BY LifecycleAssumption, PoolReads DEF LifecycleAssumption
  <1>2. ASSUME NEW j \in 0..(CaseWidth - 1)
        PROVE  currentRecordId(IF j = 0 THEN main ELSE pool[j]) \in RecordIds
    <2>1. j # 0 => pool[j] \in Elements(pool)
      BY <1>1 DEF Elements
    <2> QED BY <2>1, HeldHasRecord
  <1>3. Unused \notin RecordIds
      BY LifecycleAssumption DEF LifecycleAssumption
  <1> QED BY <1>2, <1>3, AuditReads DEF CaseSlots

LEMMA CaseStandsStep ==
    ASSUME BaseInv, OnlyKnown, MainStays, PoolIsLocked, RequestStands, CaseStands, NEW s, Lands(s)
    PROVE  CaseStands'
  <1> DEFINE c == insolvencyRef
             open == cases[c] # Audit!NoCase
             all == {keyholder1, keyholder2, keyholder3}
  <1>1. landed' = landed \cup {s} /\ tool \in Tools /\ tool' = tool
      BY DEF Lands
  <1>2. MainIsHeld => MainIsHeld' /\ currentRecordId(main)' = currentRecordId(main)
      BY HeldStays DEF Unmoved, currentRecordId
  <1>3. \A n \in Elements(pool) : TakenByA(n) => TakenByA(n)' /\ currentRecordId(n)' = currentRecordId(n)
      BY HeldStays DEF Unmoved, currentRecordId
  <1>4. /\ cases \in [{c} -> [Audit!Slots -> RecordIds \cup {Unused}]]
        /\ caseApprovals \in [{c} -> SUBSET all] /\ DOMAIN shares = Audit!ShareKeys
      BY DEF BaseInv, AuditTypes
  <1>5. MainIsHeld /\ (\A n \in Elements(pool) : TakenByA(n)) => CaseSlots' = CaseSlots
    <2>1. SUFFICES ASSUME MainIsHeld, \A n \in Elements(pool) : TakenByA(n) PROVE CaseSlots' = CaseSlots
      OBVIOUS
    <2>2. CaseWidth <= Len(pool) + 1 /\ CaseWidth \in Nat /\ Len(pool) \in Nat /\ DOMAIN pool = 1..Len(pool)
      BY LifecycleAssumption, PoolReads DEF LifecycleAssumption
    <2>3. ASSUME NEW j \in 0..(CaseWidth - 1)
          PROVE  currentRecordId(IF j = 0 THEN main ELSE pool[j])'
                  = currentRecordId(IF j = 0 THEN main ELSE pool[j])
      <3>1. j # 0 => pool[j] \in Elements(pool)
        BY <2>2 DEF Elements
      <3> QED BY <1>2, <1>3, <2>1, <3>1
    <2> QED BY <2>3 DEF CaseSlots
  <1>6. ASSUME UNCHANGED <<cases, caseApprovals>>, s.op \notin {"openCase", "approveCase"},
               \A i \in all, j \in Audit!Slots :
                  shares'[Audit!caseShareKeyOf(c, i, j)] = shares[Audit!caseShareKeyOf(c, i, j)]
        PROVE  CaseStands'
    <2>1. /\ OpenCaseStep \in landed' => OpenCaseStep \in landed
          /\ \A i \in {keyholder1, keyholder3} : ApproveCaseStep(i) \in landed' => ApproveCaseStep(i) \in landed
      BY <1>1, <1>6, StepFields
    <2>2. CASE ~open
      BY <1>6, <2>1, <2>2 DEF CaseStands
    <2>3. CASE open
      <3>1. /\ MainIsHeld' /\ CaseSlots' = CaseSlots /\ \A n \in Elements(pool) : TakenByA(n)'
        BY <1>2, <1>3, <1>5, <2>3 DEF CaseStands
      <3>2. \A i \in caseApprovals'[c], j \in Audit!Slots :
              shares'[Audit!caseShareKeyOf(c, i, j)] = Audit!CaseShare(c, i, j)'
        BY <1>4, <1>6, <2>3 DEF CaseStands, Audit!CaseShare
      <3> QED BY <1>6, <2>1, <2>3, <3>1, <3>2 DEF CaseStands
    <2> QED BY <2>2, <2>3
  <1>7. CASE RegistryEffect(s) /\ UNCHANGED auditLedger
    <2>1. s.op \notin {"openCase", "approveCase"}
      BY <1>7, StepFields DEF RegistryEffect
    <2> QED BY <1>6, <1>7, <2>1 DEF auditLedger
  <1>8. CASE UNCHANGED vars /\ AuditEffect(s)
    <2>1. MainIsHeld /\ MainIsHeld'
      BY <1>1, <1>2, <1>8, HoldingComesFirst
    <2>2. ASSUME s = RequestStep, Audit!RequestDisclosure(currentRecordId(main), caseRef)
          PROVE  CaseStands'
      <3>1. UNCHANGED <<cases, caseApprovals, shares>>
        BY <2>2 DEF Audit!RequestDisclosure
      <3> QED BY <1>6, <2>2, <3>1, StepFields
    <2>3. ASSUME NEW i \in {keyholder1, keyholder3}, s = ApproveStep(i),
                 Audit!ApproveDisclosure(i, currentRequestId)
          PROVE  CaseStands'
      <3>1. /\ UNCHANGED <<cases, caseApprovals>>
            /\ shares' = [shares EXCEPT ![Audit!shareKeyOf(currentRequestId, i)] =
                              Audit!RequestShare(currentRequestId, i)]
        BY <2>3 DEF Audit!ApproveDisclosure
      <3>2. ASSUME NEW x \in all, NEW j \in Audit!Slots
            PROVE  shares'[Audit!caseShareKeyOf(c, x, j)] = shares[Audit!caseShareKeyOf(c, x, j)]
        <4>1. Audit!caseShareKeyOf(c, x, j) # Audit!shareKeyOf(currentRequestId, i)
          BY DEF Audit!shareKeyOf, Audit!caseShareKeyOf
        <4>2. Audit!caseShareKeyOf(c, x, j) \in Audit!ShareKeys
          BY AuditReads
        <4> QED BY <1>4, <3>1, <4>1, <4>2
      <3> QED BY <1>6, <2>3, <3>1, <3>2, StepFields
    <2>4. ASSUME NEW i \in {keyholder1, keyholder3}, s = ApproveCaseStep(i), Audit!ApproveCase(i, c)
          PROVE  CaseStands'
      <3>1. OpenCaseStep \in landed /\ open
        BY <1>8, <2>4, HoldingComesFirst DEF CaseStands
      <3>2. /\ UNCHANGED cases /\ shares' = Audit!SealCaseShares(c, i)
            /\ caseApprovals'[c] = caseApprovals[c] \cup {i}
        BY <1>4, <2>4 DEF Audit!ApproveCase
      <3>3. \A n \in Elements(pool) : TakenByA(n)
        BY <3>1 DEF CaseStands
      <3>4. Audit!UsedSlots(c) = Audit!Slots
        BY <1>1, <2>1, <3>1, <3>3, SlotsAreRecords DEF CaseStands, Audit!UsedSlots
      <3>5. ASSUME NEW x \in caseApprovals'[c], NEW j \in Audit!Slots
            PROVE  shares'[Audit!caseShareKeyOf(c, x, j)] = Audit!CaseShare(c, x, j)
        <4>1. Audit!caseShareKeyOf(c, x, j) \in Audit!ShareKeys
          BY <1>4, <3>2, AuditReads
        <4>2. CASE x = i
          <5>1. Audit!caseShareKeyOf(c, i, j)[4] = j
            BY DEF Audit!caseShareKeyOf
          <5> QED BY <3>2, <3>4, <4>1, <4>2, <5>1 DEF Audit!SealCaseShares
        <4>3. CASE x # i
          <5>1. x \in caseApprovals[c]
            BY <3>2, <4>3
          <5>2. \A y : Audit!caseShareKeyOf(c, x, j) # Audit!caseShareKeyOf(c, i, y)
            BY <4>3 DEF Audit!caseShareKeyOf
          <5>3. shares'[Audit!caseShareKeyOf(c, x, j)] = shares[Audit!caseShareKeyOf(c, x, j)]
            BY <3>2, <4>1, <5>2 DEF Audit!SealCaseShares
          <5> QED BY <3>1, <5>1, <5>3 DEF CaseStands
        <4> QED BY <4>2, <4>3
      <3>6. \A x \in caseApprovals'[c], j \in Audit!Slots :
              shares'[Audit!caseShareKeyOf(c, x, j)] = Audit!CaseShare(c, x, j)'
        BY <3>2, <3>5 DEF Audit!CaseShare
      <3>7. \A x \in {keyholder1, keyholder3} : ApproveCaseStep(x) \in landed' => x \in caseApprovals'[c]
        BY <1>1, <2>4, <3>2, StepFields DEF CaseStands
      <3>8. /\ cases'[c] = CaseSlots' /\ cases'[c] # Audit!NoCase /\ \A n \in Elements(pool) : TakenByA(n)'
        BY <1>3, <1>5, <2>1, <3>1, <3>2, <3>3 DEF CaseStands
      <3>9. Audit!NoCase' = Audit!NoCase
        BY DEF Audit!NoCase
      <3> QED BY <2>1, <3>6, <3>7, <3>8, <3>9 DEF CaseStands
    <2>5. ASSUME s = OpenCaseStep, Audit!OpenCase(c, CaseSlots) PROVE CaseStands'
      <3>1. \A n \in Elements(pool) : TakenByA(n)
        BY <1>8, <2>5, HoldingComesFirst, PoolReads DEF PoolIsLocked
      <3>2. /\ ~open /\ cases'[c] = CaseSlots /\ caseApprovals'[c] = {}
        BY <1>4, <2>5 DEF Audit!OpenCase, Audit!Openable, Audit!OpenCases
      <3>3. CaseSlots # Audit!NoCase
        <4>1. 0 \in Audit!Slots
          BY AuditReads
        <4>2. CaseSlots[0] # Unused
          BY <1>1, <2>1, <3>1, <4>1, SlotsAreRecords
        <4> QED BY <4>1, <4>2 DEF Audit!NoCase
      <3>4. CaseSlots' = CaseSlots /\ \A n \in Elements(pool) : TakenByA(n)'
        BY <1>3, <1>5, <2>1, <3>1
      <3>5. \A i \in {keyholder1, keyholder3} : ApproveCaseStep(i) \notin landed'
        BY <1>1, <2>5, <3>2, StepFields DEF CaseStands
      <3>6. Audit!NoCase' = Audit!NoCase
        BY DEF Audit!NoCase
      <3> QED BY <2>1, <3>2, <3>3, <3>4, <3>5, <3>6 DEF CaseStands
    <2> QED BY <1>8, <2>2, <2>3, <2>4, <2>5 DEF AuditEffect
  <1> QED BY <1>7, <1>8, EffectOf

LEMMA RunFactsInit ==
    ASSUME Init, Audit!Init, landed = {}
    PROVE  RunFacts
  <1>1. /\ acks = {} /\ requests = {} /\ cases[insolvencyRef] = Audit!NoCase
        /\ \A c \in CertIds : certificates[c] = None
        /\ \A n \in Invoices : pledges[n].status = "ABSENT"
      BY DEF Init, NothingPledged, Absent, Audit!Init
  <1> QED BY <1>1 DEF RunFacts, OnlyKnown, RunsCertificate, PoolIsLocked, MainStays, RequestStands, CaseStands

LEMMA RunFactsStep == ASSUME BaseInv, RunFacts, NEW s, Lands(s) PROVE RunFacts'
  BY OnlyKnownStep, RunsCertificateStep, PoolIsLockedStep, MainStaysStep, RequestStandsStep, CaseStandsStep
  DEF RunFacts

\* None of them tells the time.
LEMMA RunFactsLast ==
    ASSUME RunFacts, UNCHANGED <<acks, certificates, pledges, lender, auditLedger, tool, landed>>
    PROVE  RunFacts'
  <1>1. OnlyKnown' /\ RunsCertificate' /\ PoolIsLocked' /\ MainStays'
      BY DEF RunFacts, OnlyKnown, RunsCertificate, PoolIsLocked, MainStays, TakenByA, HoldingStep,
             MainIsHeld, Known
  <1>2. RequestStands'
      BY DEF RunFacts, RequestStands, MainIsHeld, TakenByA, currentRequestId, currentRecordId, auditLedger,
             Audit!RequestShare
  <1>3. CaseStands'
      BY DEF RunFacts, CaseStands, MainIsHeld, TakenByA, CaseSlots, currentRecordId, auditLedger,
             Audit!CaseShare, Audit!NoCase
  <1> QED BY <1>1, <1>2, <1>3 DEF RunFacts

-----------------------------------------------------------------------------
(* Where the run stands.  Until --from throws steps away, the pledge of    *)
(* #1001 is where the last step that landed on it left it.                 *)

\* #1001 is offered to f, or pledged to f.
StandsOffered(f) ==
    /\ pledges[main].status = "OFFERED" /\ pledges[main].holderTag = holderTagOf(f, main)
    /\ pledges[main].expiry = offerExpiry[tool]

StandsPledged(f) == pledges[main].status = "PLEDGED" /\ pledges[main].holderTag = holderTagOf(f, main)

\* The pledge of #1001, told by the last of its steps that landed.
Stage ==
    IF ClaimStep \in landed THEN pledges[main].status = "SETTLED" /\ pledges[main].claimed
    ELSE IF PayStep \in landed
        THEN pledges[main].status = "SETTLED" /\ pledges[main].payeeTag = holderTagOf(lenderB, main)
    ELSE IF AcceptStep(main, lenderB) \in landed THEN StandsPledged(lenderB)
    ELSE IF OfferStep(lenderB) \in landed THEN StandsOffered(lenderB)
    ELSE IF ReleaseStep \in landed THEN pledges[main].status = "RELEASED"
    ELSE IF AcceptStep(main, lenderA) \in landed THEN StandsPledged(lenderA)
    ELSE OfferStep(lenderA) \in landed => StandsOffered(lenderA)

\* The steps that move the pledge of #1001, first to last.
MainSteps == {OfferStep(lenderA), AcceptStep(main, lenderA), ReleaseStep, OfferStep(lenderB),
              AcceptStep(main, lenderB), PayStep, ClaimStep}

\* Every step that landed comes before s or is s.
Forward(s) == \A t \in landed : t \in CliSteps /\ Place(t) <= Place(s)

\* Where those steps stand in the command line's plan.
LEMMA MainPlaces ==
    /\ MainSteps \subseteq CliSteps
    /\ Place(OfferStep(lenderA)) = 5 /\ Place(AcceptStep(main, lenderA)) = 6
    /\ Place(DoublePledge) = 9 /\ Place(ReleaseStep) = 10 /\ Place(OfferStep(lenderB)) = 11
    /\ Place(AcceptStep(main, lenderB)) = 12 /\ Place(PayStep) = 13 /\ Place(SellersClaim) = 14
    /\ Place(ClaimStep) = 15
    /\ SellersClaim \in CliSteps /\ DoublePledge \in CliSteps
    /\ \A t \in MainSteps : OnLedger(t)
  BY OpeningPlaces, FinancingPlaces, StepFields, StepRefusals
  DEF MainSteps, CliSteps, ConsoleSteps, OnLedger, OffChain

\* The steps that call about #1001, told by their calls.
LEMMA MainCallMoves ==
    ASSUME BaseInv, NEW s \in MainSteps \cup {DoublePledge, SellersClaim}, RegistryEffect(s)
    PROVE  MainMoves(s)
  <1>1. main \in Invoices /\ pledges \in [Invoices -> PledgeState] /\ main \notin Elements(pool)
      BY RunInvoices DEF BaseInv, RegistryInv, TypeOK
  <1>2. lender \in [Invoices -> Financiers \cup {None}]
      BY DEF BaseInv, RegistryInv, TypeOK
  <1>3. ASSUME NEW f \in {lenderA, lenderB}, OfferTo(main, f), s = OfferStep(f) \/ s = DoublePledge
        PROVE  MainMoves(s)
    <2>1. Fresh(main) \in Ephemerals
      BY <1>3 DEF OfferTo, Fresh, Undrawn
    <2>2. /\ Free(main) /\ now < offerExpiry[tool] /\ lender' = lender
          /\ pledges' = [pledges EXCEPT
                  ![main] = Offered(holderTagOf(f, main), offerExpiry[tool], <<main, Fresh(main)>>)]
      BY <1>3 DEF OfferTo, Offer, Offerable
    <2> QED BY <1>1, <1>3, <2>1, <2>2 DEF MainMoves
  <1>4. ASSUME NEW f \in {lenderA, lenderB}, Accept(f, main), s = AcceptStep(main, f) PROVE MainMoves(s)
    <2>1. Elements(<<main>>) = {main}
      BY DEF Elements
    <2> QED BY <1>1, <1>4, <2>1 DEF Accept, TakeOffers, MainMoves
  <1>5. Release(lenderA, main) /\ s = ReleaseStep => MainMoves(s)
      BY <1>1, <1>2 DEF Release, MainMoves
  <1>6. PayInvoice(main.debtor, main) /\ s = PayStep => MainMoves(s)
      BY <1>1 DEF PayInvoice, MainMoves
  <1>7. ClaimAsSeller(main.seller, main) /\ s = SellersClaim => MainMoves(s)
      BY <1>1 DEF ClaimAsSeller, Claim, MainMoves
  <1>8. ClaimAsHolder(lenderB, main) /\ s = ClaimStep => MainMoves(s)
      BY <1>1 DEF ClaimAsHolder, Claim, MainMoves
  <1>9. s # AcceptStep(pool[1], lenderA)
      BY <1>1, PoolReads, StepFields DEF MainSteps
  <1> QED BY <1>3, <1>4, <1>5, <1>6, <1>7, <1>8, <1>9, StepFields, StepRefusals DEF RegistryEffect, MainSteps

\* What each step on the pledge of #1001 found, and how it leaves it.
LEMMA MainMovesSay ==
    ASSUME BaseInv, NEW s, MainMoves(s), tool' = tool
    PROVE  /\ \A f \in {lenderA, lenderB} :
                /\ s = OfferStep(f) => Free(main) /\ now < offerExpiry[tool] /\ StandsOffered(f)'
                /\ s = AcceptStep(main, f) => pledges[main].status = "OFFERED" /\ StandsPledged(f)'
           /\ s = DoublePledge => Free(main)
           /\ s = ReleaseStep => pledges[main].status = "PLEDGED" /\ pledges'[main].status = "RELEASED"
           /\ s = PayStep => /\ pledges[main].status # "SETTLED" /\ pledges'[main].status = "SETTLED"
                             /\ pledges'[main].payeeTag = PayeeTag(main)
           /\ s = SellersClaim => pledges[main].payeeTag = sellerPayeeTagOf(main.seller, main)
           /\ s = ClaimStep => /\ pledges[main].status = "SETTLED" /\ ~pledges[main].claimed
                               /\ pledges'[main].status = "SETTLED" /\ pledges'[main].claimed
  <1>1. pledges[main] \in PledgeState
      BY RunInvoices DEF BaseInv, RegistryInv, TypeOK
  <1>3. ASSUME NEW f \in {lenderA, lenderB}, s = OfferStep(f)
        PROVE  Free(main) /\ now < offerExpiry[tool] /\ StandsOffered(f)'
    <2>1. PICK e \in Ephemerals :
              /\ Free(main) /\ now < offerExpiry[tool]
              /\ pledges'[main] = Offered(holderTagOf(f, main), offerExpiry[tool], <<main, e>>)
      BY <1>3, StepFields, StepRefusals, Codes DEF MainMoves
    <2> QED BY <2>1 DEF StandsOffered, Offered, Absent
  <1>4. ASSUME NEW f \in {lenderA, lenderB}, s = AcceptStep(main, f)
        PROVE  pledges[main].status = "OFFERED" /\ StandsPledged(f)'
    <2>1. Takable(f, main) /\ pledges'[main] = [pledges[main] EXCEPT !.status = "PLEDGED"]
      BY <1>4, StepFields DEF MainMoves
    <2> QED BY <1>1, <2>1 DEF Takable, StandsPledged, PledgeState
  <1>5. s = DoublePledge => Free(main)
      BY StepFields DEF MainMoves
  <1>6. ASSUME s = ReleaseStep
        PROVE  pledges[main].status = "PLEDGED" /\ pledges'[main].status = "RELEASED"
    <2>1. /\ pledges[main].status = "PLEDGED"
          /\ pledges'[main] = [pledges[main] EXCEPT !.status = "RELEASED"]
      BY <1>6, StepFields DEF MainMoves
    <2> QED BY <1>1, <2>1 DEF PledgeState
  <1>7. ASSUME s = PayStep
        PROVE  /\ pledges[main].status # "SETTLED" /\ pledges'[main].status = "SETTLED"
               /\ pledges'[main].payeeTag = PayeeTag(main)
    <2>1. /\ pledges[main].status # "SETTLED"
          /\ pledges'[main] = [pledges[main] EXCEPT !.status = "SETTLED", !.payeeTag = PayeeTag(main),
                                                   !.amount = main.amount, !.claimed = FALSE]
      BY <1>7, StepFields DEF MainMoves
    <2> QED BY <1>1, <2>1 DEF PledgeState
  <1>8. s = SellersClaim => pledges[main].payeeTag = sellerPayeeTagOf(main.seller, main)
      BY StepFields DEF MainMoves, Claimable
  <1>9. ASSUME s = ClaimStep
        PROVE  /\ pledges[main].status = "SETTLED" /\ ~pledges[main].claimed
               /\ pledges'[main].status = "SETTLED" /\ pledges'[main].claimed
    <2>1. /\ Claimable(main, holderTagOf(lenderB, main))
          /\ pledges'[main] = [pledges[main] EXCEPT !.claimed = TRUE]
      BY <1>9, StepFields DEF MainMoves
    <2> QED BY <1>1, <2>1 DEF Claimable, PledgeState
  <1> QED BY <1>3, <1>4, <1>5, <1>6, <1>7, <1>8, <1>9

\* A step that lands in the order of the plan finds the pledge as the step before left it: no
\* double pledge goes through, the seller claims nothing, and no step goes through twice.
LEMMA StageStep ==
    ASSUME BaseInv, OnlyKnown, landed \subseteq PlanSteps, Stage, NEW s, Lands(s),
           tool = "cli" => Forward(s), RegistryEffect(s)
    PROVE  /\ Stage'
           /\ s \notin {DoublePledge, SellersClaim}
           /\ s \in landed => s \notin MainSteps
  <1>1. /\ landed' = landed \cup {s} /\ tool' = tool /\ tool \in Tools /\ s \in CliSteps
        /\ \A t \in PlanSteps : OnLedger(t) /\ Place(t) < Place(s) => t \in landed
      BY DEF Lands
  <1>2. IF s \in MainSteps \cup {DoublePledge, SellersClaim} THEN MainMoves(s) ELSE Unmoved(main)
      BY <1>1, RunMoves, MainCallMoves DEF MainMoves, MainSteps
  <1>3. main \in Invoices /\ pledges[main] \in PledgeState /\ lenderA # lenderB
      BY RunInvoices, LifecycleAssumption DEF BaseInv, RegistryInv, TypeOK, LifecycleAssumption
  <1>0. now \in Int /\ offerExpiry[tool] \in Int
    <2>1. Times \subseteq Int
      BY DEF Times
    <2> QED BY <1>1, <2>1, LifecycleAssumption DEF LifecycleAssumption, BaseInv, RegistryInv, TypeOK
  <1>4. \A t \in MainSteps : t # s => (t \in landed' <=> t \in landed)
      BY <1>1
  <1>5. s \in MainSteps \cup {DoublePledge, SellersClaim} =>
          \A t \in MainSteps : t \in landed => Place(t) <= Place(s)
    <2>1. CASE tool = "cli"
      BY <2>1 DEF Forward
    <2>2. CASE tool = "console"
      <3>1. \A t \in MainSteps \cup {DoublePledge, SellersClaim} :
              t \in ConsoleSteps => t \in {OfferStep(lenderA), AcceptStep(main, lenderA), DoublePledge}
        BY <1>3, StepFields, StepRefusals, Codes DEF ConsoleSteps, MainSteps
      <3>2. s \in ConsoleSteps /\ \A t \in landed : t \in ConsoleSteps
        BY <2>2 DEF PlanSteps, Lands
      <3>3. ~(s = OfferStep(lenderA) /\ AcceptStep(main, lenderA) \in landed)
        <4>1. \A t \in MainSteps \ {OfferStep(lenderA), AcceptStep(main, lenderA)} : t \notin landed
          <5>1. DoublePledge \notin MainSteps
            BY MainPlaces, StepRefusals, Codes DEF MainSteps
          <5> QED BY <3>1, <3>2, <5>1
        <4>2. AcceptStep(main, lenderA) \in landed => StandsPledged(lenderA)
          BY <4>1, MainPlaces DEF Stage, MainSteps
        <4>3. s = OfferStep(lenderA) => Free(main)
          BY <1>1, <1>2, MainMovesSay DEF MainSteps
        <4> QED BY <4>2, <4>3 DEF StandsPledged, Free
      <3> QED BY <3>1, <3>2, <3>3, MainPlaces DEF MainSteps
    <2> QED BY <1>1, <2>1, <2>2 DEF Tools
  <1>6. \A t \in MainSteps : t \in PlanSteps /\ Place(t) < Place(s) => t \in landed
      BY <1>1, MainPlaces
  <1>7. /\ OfferStep(lenderA) # OfferStep(lenderB) /\ AcceptStep(main, lenderA) # AcceptStep(main, lenderB)
        /\ OfferStep(lenderA) # DoublePledge /\ OfferStep(lenderB) # DoublePledge
      BY <1>3, MainPlaces
  <1>8. CASE s \notin MainSteps \cup {DoublePledge, SellersClaim}
      BY <1>1, <1>2, <1>4, <1>8 DEF Unmoved, Stage, StandsOffered, StandsPledged, MainSteps
  <1>9. ASSUME s \in MainSteps \cup {DoublePledge, SellersClaim}, NEW t \in MainSteps, Place(s) < Place(t)
        PROVE  t \notin landed /\ t # s
      BY <1>1, <1>5, <1>9, MainPlaces, PlacesDiffer
  <1>10. /\ {OfferStep(lenderA), AcceptStep(main, lenderA)} \subseteq PlanSteps
         /\ s \in (MainSteps \cup {SellersClaim}) \ {OfferStep(lenderA), AcceptStep(main, lenderA)} =>
              MainSteps \subseteq PlanSteps
    <2>1. tool = "cli" => MainSteps \subseteq PlanSteps
      BY MainPlaces DEF PlanSteps
    <2>2. s \in ConsoleSteps =>
            s \notin (MainSteps \cup {SellersClaim}) \ {OfferStep(lenderA), AcceptStep(main, lenderA)}
      BY <1>3, StepFields, StepRefusals, Codes DEF ConsoleSteps, MainSteps
    <2> QED BY <1>1, <2>1, <2>2 DEF PlanSteps, ConsoleSteps, CliSteps, Tools, Lands
  <1>11. CASE s = OfferStep(lenderA)
    <2>1. \A t \in MainSteps : Place(s) < Place(t) => t \notin landed /\ t \notin landed'
      BY <1>1, <1>9, <1>11 DEF MainSteps
    <2> QED BY <1>0, <1>1, <1>2, <1>3, <1>4, <1>11, <2>1, MainPlaces, MainMovesSay
            DEF MainSteps, Stage, StandsOffered, StandsPledged, Free, PayeeTag, holderTagOf, sellerPayeeTagOf
  <1>12. CASE s = AcceptStep(main, lenderA)
    <2>1. \A t \in MainSteps : Place(s) < Place(t) => t \notin landed /\ t \notin landed'
      BY <1>1, <1>9, <1>12 DEF MainSteps
    <2>2. OfferStep(lenderA) \in landed
      BY <1>6, <1>10, <1>12, MainPlaces DEF MainSteps
    <2> QED BY <1>1, <1>2, <1>3, <1>4, <1>12, <2>1, <2>2, MainPlaces, MainMovesSay
            DEF MainSteps, Stage, StandsOffered, StandsPledged, Free, PayeeTag, holderTagOf, sellerPayeeTagOf
  <1>13. CASE s = DoublePledge
    <2>1. \A t \in MainSteps : Place(s) < Place(t) => t \notin landed /\ t \notin landed'
      BY <1>1, <1>9, <1>13 DEF MainSteps
    <2>2. AcceptStep(main, lenderA) \in landed
      BY <1>6, <1>10, <1>13, MainPlaces DEF MainSteps
    <2> QED BY <1>1, <1>2, <1>3, <1>4, <1>13, <2>1, <2>2, MainPlaces, MainMovesSay
            DEF MainSteps, Stage, StandsOffered, StandsPledged, Free, PayeeTag, holderTagOf, sellerPayeeTagOf
  <1>14. CASE s = ReleaseStep
    <2>1. \A t \in MainSteps : Place(s) < Place(t) => t \notin landed /\ t \notin landed'
      BY <1>1, <1>9, <1>14 DEF MainSteps
    <2>2. AcceptStep(main, lenderA) \in landed
      BY <1>6, <1>10, <1>14, MainPlaces DEF MainSteps
    <2> QED BY <1>1, <1>2, <1>3, <1>4, <1>14, <2>1, <2>2, MainPlaces, MainMovesSay
            DEF MainSteps, Stage, StandsOffered, StandsPledged, Free, PayeeTag, holderTagOf, sellerPayeeTagOf
  <1>15. CASE s = OfferStep(lenderB)
    <2>1. \A t \in MainSteps : Place(s) < Place(t) => t \notin landed /\ t \notin landed'
      BY <1>1, <1>9, <1>15 DEF MainSteps
    <2>2. ReleaseStep \in landed
      BY <1>6, <1>10, <1>15, MainPlaces DEF MainSteps
    <2> QED BY <1>0, <1>1, <1>2, <1>3, <1>4, <1>15, <2>1, <2>2, MainPlaces, MainMovesSay
            DEF MainSteps, Stage, StandsOffered, StandsPledged, Free, PayeeTag, holderTagOf, sellerPayeeTagOf
  <1>16. CASE s = AcceptStep(main, lenderB)
    <2>1. \A t \in MainSteps : Place(s) < Place(t) => t \notin landed /\ t \notin landed'
      BY <1>1, <1>9, <1>16 DEF MainSteps
    <2>2. OfferStep(lenderB) \in landed
      BY <1>6, <1>10, <1>16, MainPlaces DEF MainSteps
    <2> QED BY <1>1, <1>2, <1>3, <1>4, <1>16, <2>1, <2>2, MainPlaces, MainMovesSay
            DEF MainSteps, Stage, StandsOffered, StandsPledged, Free, PayeeTag, holderTagOf, sellerPayeeTagOf
  <1>17. CASE s = PayStep
    <2>1. \A t \in MainSteps : Place(s) < Place(t) => t \notin landed /\ t \notin landed'
      BY <1>1, <1>9, <1>17 DEF MainSteps
    <2>2. AcceptStep(main, lenderB) \in landed
      BY <1>6, <1>10, <1>17, MainPlaces DEF MainSteps
    <2> QED BY <1>1, <1>2, <1>3, <1>4, <1>17, <2>1, <2>2, MainPlaces, MainMovesSay
            DEF MainSteps, Stage, StandsOffered, StandsPledged, Free, PayeeTag, holderTagOf, sellerPayeeTagOf
  <1>18. CASE s = SellersClaim
    <2>1. \A t \in MainSteps : Place(s) < Place(t) => t \notin landed /\ t \notin landed'
      BY <1>1, <1>9, <1>18 DEF MainSteps
    <2>2. PayStep \in landed
      BY <1>6, <1>10, <1>18, MainPlaces DEF MainSteps
    <2> QED BY <1>1, <1>2, <1>3, <1>4, <1>18, <2>1, <2>2, MainPlaces, MainMovesSay
            DEF MainSteps, Stage, StandsOffered, StandsPledged, Free, PayeeTag, holderTagOf, sellerPayeeTagOf
  <1>19. CASE s = ClaimStep
    <2>1. \A t \in MainSteps : Place(s) < Place(t) => t \notin landed /\ t \notin landed'
      BY <1>1, <1>9, <1>19 DEF MainSteps
    <2>2. PayStep \in landed
      BY <1>6, <1>10, <1>19, MainPlaces DEF MainSteps
    <2> QED BY <1>1, <1>2, <1>3, <1>4, <1>19, <2>1, <2>2, MainPlaces, MainMovesSay
            DEF MainSteps, Stage, StandsOffered, StandsPledged, Free, PayeeTag, holderTagOf, sellerPayeeTagOf
  <1> QED BY <1>8, <1>11, <1>12, <1>13, <1>14, <1>15, <1>16, <1>17, <1>18, <1>19 DEF MainSteps

\* What lands in the order of the plan is no call that had to be refused, and but for admissions
\* it has not landed before.
LEMMA LandsOnce ==
    ASSUME BaseInv, RunFacts, landed \subseteq PlanSteps, Stage, NEW s, Lands(s),
           tool = "cli" => Forward(s)
    PROVE  /\ Stage'
           /\ s.refusal = None
           /\ s \in landed => s.op \in Repeatable
  <1> USE DEF RunFacts
  <1>1. landed' = landed \cup {s} /\ tool' = tool /\ tool \in Tools
      BY DEF Lands
  <1>2. CASE RegistryEffect(s)
    <2>1. Stage' /\ s \notin {DoublePledge, SellersClaim} /\ (s \in landed => s \notin MainSteps)
      BY <1>2, StageStep
    <2>2. CASE s \in {DebtorStep, LenderStep(lenderA), LenderStep(lenderB)}
      BY <2>1, <2>2, StepFields, StepRefusals DEF Repeatable
    <2>3. ASSUME NEW n \in Known, s = AckStep(n), Acknowledge(main.debtor, n)
          PROVE  s.refusal = None /\ s \notin landed
      BY <2>3, StepRefusals DEF OnlyKnown, Acknowledge, FreshNumber, BaseInv, RegistryInv, AcknowledgedOnce
    <2>4. CASE s \in MainSteps
      BY <2>1, <2>4, StepRefusals DEF MainSteps
    <2>5. ASSUME s = CertifyStep, Certify(lenderA, certId, floor) PROVE s.refusal = None /\ s \notin landed
      BY <2>5, StepRefusals DEF Certify, CertifyBorrowingBase, RunsCertificate
    <2>6. ASSUME s = AcceptStep(pool[1], lenderA), Accept(lenderA, pool[1])
          PROVE  s.refusal = None /\ s \notin landed
      <3>1. pool[1] \in Elements(<<pool[1]>>)
        BY DEF Elements
      <3> QED BY <2>6, <3>1, StepRefusals DEF Accept, TakeOffers, Takable, PoolIsLocked, TakenByA
    <2>7. ASSUME s = TakeRestStep, AcceptBatch(lenderA, Tail(pool)) PROVE s.refusal = None /\ s \notin landed
      <3>1. Elements(Tail(pool)) # {}
        <4>1. Len(Tail(pool)) = Len(pool) - 1 /\ DOMAIN Tail(pool) = 1..Len(Tail(pool))
          BY PoolReads, HeadTailProperties, LenProperties
        <4>2. 1 \in DOMAIN Tail(pool)
          BY <4>1, PoolReads
        <4> QED BY <4>2 DEF Elements
      <3> QED BY <2>7, <3>1, StepRefusals DEF AcceptBatch, TakeOffers, Takable, PoolIsLocked, TakenByA
    <2> QED BY <1>2, <2>1, <2>2, <2>3, <2>4, <2>5, <2>6, <2>7, NoFraudLands DEF RegistryEffect, MainSteps
  <1>3. CASE UNCHANGED vars /\ AuditEffect(s)
    <2>1. Stage'
      <3>1. s \notin MainSteps
        BY <1>3, StepFields DEF AuditEffect, MainSteps
      <3> QED BY <1>1, <1>3, <3>1 DEF Stage, StandsOffered, StandsPledged, MainSteps, vars
    <2>2. s.refusal = None
      BY <1>3, StepRefusals DEF AuditEffect
    <2>3. s \notin landed
      BY <1>3
      DEF AuditEffect, Audit!RequestDisclosure, Audit!ApproveDisclosure, Audit!ApproveCase, Audit!OpenCase,
          Audit!Openable, Audit!OpenCases, RequestStands, CaseStands, currentRequestId
    <2> QED BY <2>1, <2>2, <2>3
  <1> QED BY <1>2, <1>3, EffectOf

-----------------------------------------------------------------------------
(* The run's books.                                                        *)

\* What a run says it opened is the record of #1001, once its request and the two approvals of it
\* landed; and the command line's run says so as soon as it has opened it.
SaysWhatItOpened(run) ==
    /\ run.disclosure # None =>
        /\ run.disclosure = currentRecordId(main)
        /\ {RequestStep, ApproveStep(keyholder1), ApproveStep(keyholder3)} \subseteq landed
    /\ tool = "cli" /\ OpenDisclosure \in run.steps => run.disclosure # None

\* What the runner's variables hold; only the page detaches, and only the command line replays.
RunIsTyped ==
    /\ tool \in Tools /\ at \in {"off", "idle", "running", "landed"}
    /\ memory \in Runs /\ file \in Runs /\ landed \subseteq PlanSteps
    /\ IF tool = "cli" THEN ~detached ELSE ~replayed

\* What is recorded landed, and a step is under way only while one is missing.
RecordedLanded ==
    /\ \A s \in memory.steps \cup file.steps : OnLedger(s) => s \in landed
    /\ at \in {"running", "landed"} => ~Finished(memory)
    /\ at = "landed" => CurrentStep.op \notin OffChain /\ CurrentStep \in landed

\* Before a replay the command line's copies agree, and nothing landed that its run is not up to.
UpToHere ==
    tool = "cli" /\ ~replayed => memory = file /\ (~Finished(memory) => Forward(CurrentStep))

\* The run's books: what it recorded agrees with what landed.
Books ==
    /\ RunIsTyped /\ RecordedLanded /\ UpToHere
    /\ SaysWhatItOpened(memory) /\ SaysWhatItOpened(file)
    /\ ~replayed => Stage

\* The inductive invariant of a run that has the registry to itself.
RunInv == BaseInv /\ RunFacts /\ Books /\ StepsLandOnce /\ RefusalsHoldUnreplayed

\* The plan is the tool's.
LEMMA PlanLasts ==
    ASSUME tool' = tool
    PROVE  /\ Plan' = Plan /\ PlanSteps' = PlanSteps
           /\ CurrentStep' = Plan[NextIndex(memory')]
           /\ \A run : Finished(run)' <=> Elements(Plan) \subseteq run'.steps
  BY DEF Plan, PlanSteps, CurrentStep, NextIndex, Finished

LEMMA RunInvInit == RunInit => RunInv
  <1> SUFFICES ASSUME RunInit PROVE RunInv
      OBVIOUS
  <1>1. BaseInv /\ RunFacts
      BY BaseInit, RunFactsInit DEF RunInit
  <1>2. RunIsTyped
      BY DEF RunInit, RunIsTyped, Runs
  <1>3. RecordedLanded /\ UpToHere
      BY DEF RunInit, RecordedLanded, UpToHere, Forward
  <1>4. SaysWhatItOpened(memory) /\ SaysWhatItOpened(file) /\ Stage
      BY DEF RunInit, SaysWhatItOpened, Stage
  <1>5. StepsLandOnce /\ RefusalsHoldUnreplayed
      BY DEF RunInit, StepsLandOnce, RefusalsHoldUnreplayed
  <1> QED BY <1>1, <1>2, <1>3, <1>4, <1>5 DEF RunInv, Books

\* A step that leaves the ledger and what landed alone, but for the time.
LEMMA LedgerLasts ==
    ASSUME BaseInv, RunFacts, TimePasses \/ UNCHANGED ledger, UNCHANGED <<tool, landed>>
    PROVE  /\ BaseInv' /\ RunFacts' /\ (Stage => Stage')
           /\ currentRecordId(main)' = currentRecordId(main)
  <1>1. UNCHANGED <<acks, certificates, pledges, lender, auditLedger>>
      BY DEF TimePasses, Tick, ledger, vars, acknowledgments, treasury
  <1>2. AnyCall \/ UNCHANGED ledger
      BY DEF TimePasses, AnyCall, Next
  <1> QED BY <1>1, <1>2, BaseStep, RunFactsLast DEF Stage, StandsOffered, StandsPledged, currentRecordId

\* The next step: everything the plan has before it is recorded, and landed.
LEMMA ComesNext ==
    ASSUME RunInv, ~Finished(memory)
    PROVE  /\ CurrentStep \in PlanSteps /\ CurrentStep \in CliSteps /\ CurrentStep \notin memory.steps
           /\ \A t \in PlanSteps : Place(t) < Place(CurrentStep) =>
                t \in memory.steps /\ (OnLedger(t) => t \in landed)
  BY FirstMissing DEF CurrentStep, RunInv, Books, RunIsTyped, RecordedLanded

\* A landing, which no other may precede twice.
LEMMA LandKeeps == ASSUME RunInv, Land PROVE RunInv'
  <1> DEFINE s == CurrentStep
  <1>1. /\ at = "running" /\ ~Finished(memory) /\ s.op \notin OffChain /\ Transaction(s)
        /\ at' = "landed" /\ landed' = landed \cup {s} /\ UNCHANGED <<tool, memory, file, detached, replayed>>
      BY DEF Land, RunInv, Books, RecordedLanded
  <1>2. Lands(s) /\ s \in PlanSteps /\ s \in CliSteps
      BY <1>1, ComesNext DEF Lands, RunInv, Books, RunIsTyped
  <1>3. tool = "cli" /\ ~replayed => Forward(s)
      BY <1>1 DEF RunInv, Books, UpToHere
  <1>4. BaseInv' /\ RunFacts'
    <2>1. AnyCall
      BY <1>1, <1>2, EffectIsCall DEF RunInv, Books, RunIsTyped
    <2> QED BY <1>2, <2>1, BaseStep, RunFactsStep DEF RunInv
  <1>5. ~replayed => Stage' /\ s.refusal = None /\ (s \in landed => s.op \in Repeatable)
      BY <1>2, <1>3, LandsOnce DEF RunInv, Books, RunIsTyped
  <1>6. PlanSteps' = PlanSteps /\ CurrentStep' = s /\ ~Finished(memory)'
      BY <1>1, PlanLasts DEF CurrentStep, Finished
  <1>7. RunIsTyped' /\ RecordedLanded'
    <2>1. RunIsTyped'
      BY <1>1, <1>2, <1>6 DEF RunInv, Books, RunIsTyped, Runs
    <2>2. RecordedLanded'
      BY <1>1, <1>6 DEF RunInv, Books, RecordedLanded, OnLedger
    <2> QED BY <2>1, <2>2
  <1>8. UpToHere'
    <2>1. Place(s) \in Nat
      BY <1>2, PlacesDiffer
    <2> QED BY <1>1, <1>2, <1>3, <1>6, <2>1 DEF RunInv, Books, UpToHere, Forward
  <1>9. ASSUME NEW run, SaysWhatItOpened(run)
        PROVE  /\ run.disclosure # None =>
                  /\ run.disclosure = currentRecordId(main)'
                  /\ {RequestStep, ApproveStep(keyholder1), ApproveStep(keyholder3)} \subseteq landed'
               /\ tool = "cli" /\ OpenDisclosure \in run.steps => run.disclosure # None
    <2>1. RequestStep \in landed => Unmoved(main)
      BY <1>2, HeldStays DEF RunInv, RunFacts, RequestStands
    <2> QED BY <1>1, <1>9, <2>1 DEF SaysWhatItOpened, Unmoved, currentRecordId
  <1>10. SaysWhatItOpened(memory)' /\ SaysWhatItOpened(file)'
      BY <1>1, <1>9 DEF RunInv, Books, SaysWhatItOpened
  <1>11. StepsLandOnce' /\ RefusalsHoldUnreplayed'
    <2>1. relanded' = {}
      BY <1>1, <1>5 DEF Land, RunInv, StepsLandOnce
    <2> QED BY <1>1, <1>5, <2>1 DEF RunInv, StepsLandOnce, RefusalsHoldUnreplayed
  <1> QED BY <1>1, <1>4, <1>5, <1>7, <1>8, <1>10, <1>11 DEF RunInv, Books

\* A step recorded: its receipt came, or what it found was as the plan wants it.
LEMMA RecordKeeps == ASSUME RunInv, Receipt \/ RunLocally PROVE RunInv'
  <1> DEFINE s == CurrentStep
  <1>1. /\ at \in {"running", "landed"} /\ ~Finished(memory) /\ Record(s)
        /\ OnLedger(s) => s \in landed
    <2>1. CASE Receipt
      BY <2>1 DEF Receipt, RunInv, Books, RecordedLanded
    <2>2. CASE RunLocally
      <3>1. s.refusal # None \/ s.op \in OffChain
        BY <2>2 DEF RunLocally, Readable, OffChain
      <3> QED BY <2>2, <3>1 DEF RunLocally, RunInv, Books, RecordedLanded, OnLedger
    <2> QED BY <2>1, <2>2
  <1>2. /\ at' = "idle" /\ memory' = Completed(memory, s) /\ (file' = memory' \/ file' = file)
        /\ tool = "cli" => file' = memory'
        /\ UNCHANGED <<ledger, tool, detached, replayed, history>>
      BY <1>1 DEF Record, Save, RunInv, Books, RunIsTyped
  <1>3. /\ BaseInv' /\ RunFacts' /\ (Stage => Stage') /\ currentRecordId(main)' = currentRecordId(main)
        /\ landed' = landed /\ relanded' = relanded
      BY <1>2, LedgerLasts DEF RunInv, history
  <1>4. /\ s \in PlanSteps /\ s \in CliSteps /\ s \notin memory.steps
        /\ \A t \in PlanSteps : Place(t) < Place(s) => t \in memory.steps /\ (OnLedger(t) => t \in landed)
      BY <1>1, ComesNext
  <1>5. memory'.steps = memory.steps \cup {s} /\ memory \in Runs /\ file \in Runs
      BY <1>2 DEF Completed, RunInv, Books, RunIsTyped
  <1>6. currentRecordId(main) \in RecordIds \cup {None}
      BY RunInvoices DEF RunInv, BaseInv, RegistryInv, TypeOK, PledgeState, currentRecordId
  <1>7. PlanSteps' = PlanSteps /\ CurrentStep' = Plan[NextIndex(memory')] /\ tool \in Tools
      BY <1>2, PlanLasts DEF RunInv, Books, RunIsTyped
  <1>8. RunIsTyped' /\ RecordedLanded'
    <2>1. s \in Steps
      BY <1>4, <1>7, PlanReads
    <2>2. memory' \in Runs
      BY <1>2, <1>5, <1>6, <2>1 DEF Completed, Runs
    <2>3. RunIsTyped'
      BY <1>2, <1>3, <1>5, <1>7, <2>2 DEF RunInv, Books, RunIsTyped, Runs
    <2>4. \A t \in memory'.steps \cup file'.steps : t = s \/ t \in memory.steps \cup file.steps
      BY <1>2, <1>5
    <2>5. RecordedLanded'
      BY <1>1, <1>2, <1>3, <2>4 DEF RunInv, Books, RecordedLanded, OnLedger
    <2> QED BY <2>3, <2>5
  <1>9. UpToHere'
    <2>1. ASSUME tool = "cli", ~replayed, ~Finished(memory)', NEW t \in landed
          PROVE  t \in CliSteps /\ Place(t) <= Place(CurrentStep')
      <3>1. t \in CliSteps /\ Place(t) <= Place(s)
        BY <1>1, <2>1 DEF RunInv, Books, UpToHere, Forward
      <3>2. ~Finished(memory')
        BY <1>2, <2>1, PlanLasts DEF Finished
      <3>3. CurrentStep' \in PlanSteps /\ CurrentStep' \in CliSteps /\ CurrentStep' \notin memory'.steps
        BY <1>7, <3>2, FirstMissing
      <3>4. ~(Place(CurrentStep') < Place(s))
        BY <1>4, <1>5, <3>3
      <3>5. Place(t) \in Nat /\ Place(s) \in Nat /\ Place(CurrentStep') \in Nat
        BY <1>4, <3>1, <3>3, PlacesDiffer
      <3> QED BY <3>1, <3>4, <3>5
    <2>2. tool' = "cli" => memory' = file'
      BY <1>2
    <2> QED BY <1>2, <1>3, <2>1, <2>2 DEF UpToHere, Forward
  <1>10. SaysWhatItOpened(memory)'
    <2>1. ASSUME s = OpenDisclosure
          PROVE  /\ {RequestStep, ApproveStep(keyholder1), ApproveStep(keyholder3)} \subseteq landed
                 /\ currentRecordId(main) # None
      <3>1. /\ Place(RequestStep) < Place(s) /\ Place(ApproveStep(keyholder1)) < Place(s)
            /\ Place(ApproveStep(keyholder3)) < Place(s)
        BY <2>1, RecordPlaces, PoolReads
      <3>2. {RequestStep, ApproveStep(keyholder1), ApproveStep(keyholder3)} \subseteq PlanSteps
        BY DEF PlanSteps, CliSteps, ConsoleSteps
      <3>3. /\ OnLedger(RequestStep) /\ OnLedger(ApproveStep(keyholder1))
            /\ OnLedger(ApproveStep(keyholder3))
        BY StepFields, StepRefusals DEF OnLedger, OffChain
      <3>4. {RequestStep, ApproveStep(keyholder1), ApproveStep(keyholder3)} \subseteq landed
        BY <1>4, <3>1, <3>2, <3>3
      <3>5. currentRecordId(main) \in RecordIds
        BY <1>7, <3>4, HeldHasRecord DEF RunInv, RunFacts, RequestStands
      <3> QED BY <3>4, <3>5, RegistryAssumption DEF RegistryAssumption, RecordIds
    <2>2. CASE s = OpenDisclosure /\ ~detached
      <3>1. memory'.disclosure = currentRecordId(main)
        BY <1>2, <2>2 DEF Completed
      <3> QED BY <1>3, <2>1, <2>2, <3>1 DEF SaysWhatItOpened
    <2>3. CASE ~(s = OpenDisclosure /\ ~detached)
      <3>1. memory'.disclosure = memory.disclosure
        BY <1>2, <2>3 DEF Completed
      <3>2. tool = "cli" => s # OpenDisclosure
        BY <2>3 DEF RunInv, Books, RunIsTyped
      <3> QED BY <1>2, <1>3, <1>5, <3>1, <3>2 DEF RunInv, Books, SaysWhatItOpened
    <2> QED BY <2>2, <2>3
  <1>11. SaysWhatItOpened(file)'
    <2>1. CASE file' = memory'
      BY <1>10, <2>1 DEF SaysWhatItOpened
    <2>2. CASE file' = file
      BY <1>2, <1>3, <2>2 DEF RunInv, Books, SaysWhatItOpened
    <2> QED BY <1>2, <2>1, <2>2
  <1>12. StepsLandOnce' /\ RefusalsHoldUnreplayed'
      BY <1>2, <1>3 DEF RunInv, StepsLandOnce, RefusalsHoldUnreplayed
  <1> QED BY <1>2, <1>3, <1>8, <1>9, <1>10, <1>11, <1>12 DEF RunInv, Books

\* A step that records nothing and takes no recorded step away.
NothingRecorded ==
    /\ TimePasses \/ UNCHANGED ledger
    /\ UNCHANGED <<tool, replayed, landed, relanded>>
    /\ \/ at' \in {"off", "idle"}
       \/ memory' = memory /\ (at' = at \/ Begin)
    /\ memory' \in {memory, file} /\ file' \in {memory, file}
    /\ tool = "cli" => ~detached'

\* Steps that record nothing, and call nothing.
LEMMA BooksLast == ASSUME RunInv, NothingRecorded PROVE RunInv'
  <1> USE DEF NothingRecorded, Begin
  <1>1. /\ BaseInv' /\ RunFacts' /\ (Stage => Stage') /\ currentRecordId(main)' = currentRecordId(main)
        /\ landed' = landed /\ relanded' = relanded
      BY LedgerLasts DEF RunInv, history
  <1>2. /\ PlanSteps' = PlanSteps /\ CurrentStep' = Plan[NextIndex(memory')]
        /\ Finished(memory)' <=> Elements(Plan) \subseteq memory'.steps
      BY PlanLasts
  <1>3. memory' = memory => CurrentStep' = CurrentStep /\ (Finished(memory)' <=> Finished(memory))
      BY <1>2 DEF CurrentStep, Finished
  <1>4. RunIsTyped'
      BY <1>1, <1>2 DEF RunInv, Books, RunIsTyped, Runs
  <1>5. RecordedLanded'
    <2>1. \A s \in memory'.steps \cup file'.steps : OnLedger(s)' => s \in landed'
      BY <1>1 DEF RunInv, Books, RecordedLanded, OnLedger
    <2> QED BY <1>1, <1>2, <1>3, <2>1 DEF RunInv, Books, RecordedLanded
  <1>6. UpToHere'
      BY <1>1, <1>2, <1>3 DEF RunInv, Books, UpToHere, Forward
  <1>7. SaysWhatItOpened(memory)' /\ SaysWhatItOpened(file)'
      BY <1>1 DEF RunInv, Books, SaysWhatItOpened
  <1>8. StepsLandOnce' /\ RefusalsHoldUnreplayed'
      BY <1>1 DEF RunInv, StepsLandOnce, RefusalsHoldUnreplayed
  <1> QED BY <1>1, <1>4, <1>5, <1>6, <1>7, <1>8 DEF RunInv, Books

\* A replay, which gives up saying where the run stands.
LEMMA StartFromKeeps == ASSUME RunInv, NEW i, StartFrom(i) PROVE RunInv'
  <1>1. /\ tool = "cli" /\ at' = "idle" /\ detached' = FALSE /\ replayed' = TRUE /\ file' = file
        /\ UNCHANGED <<ledger, tool, history>>
        /\ memory'.steps \subseteq file.steps /\ memory'.disclosure = file.disclosure /\ memory' \in Runs
      BY DEF StartFrom, Without, RunInv, Books, RunIsTyped, Runs
  <1>2. /\ BaseInv' /\ RunFacts' /\ currentRecordId(main)' = currentRecordId(main)
        /\ landed' = landed /\ relanded' = relanded
      BY <1>1, LedgerLasts DEF RunInv, history
  <1>3. PlanSteps' = PlanSteps
      BY <1>1, PlanLasts
  <1>4. RunIsTyped' /\ RecordedLanded' /\ UpToHere'
      BY <1>1, <1>2, <1>3 DEF RunInv, Books, RunIsTyped, Runs, RecordedLanded, UpToHere, OnLedger
  <1>5. SaysWhatItOpened(memory)' /\ SaysWhatItOpened(file)'
      BY <1>1, <1>2 DEF RunInv, Books, SaysWhatItOpened
  <1>6. StepsLandOnce' /\ RefusalsHoldUnreplayed'
      BY <1>1, <1>2 DEF RunInv, StepsLandOnce, RefusalsHoldUnreplayed
  <1> QED BY <1>1, <1>2, <1>4, <1>5, <1>6 DEF RunInv, Books

\* Every step of the runner keeps the invariant.
LEMMA RunInvStep == RunInv /\ [RunNext]_runVars => RunInv'
  <1> SUFFICES ASSUME RunInv, [RunNext]_runVars PROVE RunInv'
      OBVIOUS
  <1>0. /\ at \in {"off", "idle", "running", "landed"} /\ (tool = "cli" => ~detached)
        /\ tool \in Tools
      BY DEF RunInv, Books, RunIsTyped
  <1>1. CASE Start
      BY <1>0, <1>1, BooksLast DEF NothingRecorded, history, Start
  <1>2. CASE Begin
      BY <1>0, <1>2, BooksLast DEF NothingRecorded, history, Begin
  <1>3. CASE Land
      BY <1>3, LandKeeps
  <1>4. CASE Receipt \/ RunLocally
      BY <1>4, RecordKeeps
  <1>5. CASE Fail
      BY <1>0, <1>5, BooksLast DEF NothingRecorded, history, Fail, Save
  <1>6. CASE Close
      BY <1>0, <1>6, BooksLast DEF NothingRecorded, history, Close
  <1>7. CASE Recheck
      BY <1>0, <1>7, BooksLast DEF NothingRecorded, history, Recheck
  <1>8. CASE Prepare
      BY <1>0, <1>8, BooksLast DEF NothingRecorded, history, Prepare, Save
  <1>9. CASE TimePasses
    <2>1. /\ UNCHANGED <<at, memory, file, detached, replayed, tool, landed, relanded>>
          /\ TimePasses \/ UNCHANGED ledger
      BY <1>9 DEF TimePasses, runner, history
    <2>2. memory' = memory /\ at' = at /\ file' = file
      BY <2>1
    <2>3. tool = "cli" => ~detached'
      BY <1>0, <2>1
    <2>4. NothingRecorded
      BY <2>1, <2>2, <2>3 DEF NothingRecorded
    <2> QED BY <2>4, BooksLast
  <1>10. ASSUME NEW i \in DOMAIN Plan, StartFrom(i) PROVE RunInv'
      BY <1>10, StartFromKeeps
  <1>11. CASE UNCHANGED runVars
    <2>1. /\ UNCHANGED <<at, memory, file, detached, replayed, tool, landed, relanded>>
          /\ TimePasses \/ UNCHANGED ledger
      BY <1>11 DEF runVars, runner, history
    <2>2. memory' = memory /\ at' = at /\ file' = file
      BY <2>1
    <2>3. tool = "cli" => ~detached'
      BY <1>0, <2>1
    <2>4. NothingRecorded
      BY <2>1, <2>2, <2>3 DEF NothingRecorded
    <2> QED BY <2>4, BooksLast
  <1> QED BY <1>1, <1>2, <1>3, <1>4, <1>5, <1>6, <1>7, <1>8, <1>9, <1>10, <1>11 DEF RunNext

-----------------------------------------------------------------------------
(* What a run says is on the ledger.                                       *)

\* Module Disclosure counts as this one does.
LEMMA AuditCounts == \A S : Audit!Cardinality(S) = Cardinality(S)
  BY DEF Audit!Cardinality, Cardinality

\* Two different elements make two at least.
LEMMA TwoAtLeast ==
    ASSUME NEW S, IsFiniteSet(S), NEW x \in S, NEW y \in S, x # y
    PROVE  Cardinality(S) >= 2
  <1>1. Cardinality({x} \cup {y}) = 1 + 1
    <2>1. IsFiniteSet({x}) /\ Cardinality({x}) = 1
      BY FS_Singleton
    <2> QED BY <2>1, FS_AddElement
  <1>2. Cardinality({x} \cup {y}) <= Cardinality(S) /\ Cardinality(S) \in Nat
    <2>1. {x} \cup {y} \in SUBSET S
      OBVIOUS
    <2> QED BY <2>1, FS_Subset, FS_CardinalityType
  <1> QED BY <1>1, <1>2

\* The first and the third keyholder are two, and their shares of one record combine.
LEMMA TwoApproved ==
    ASSUME NEW A \in SUBSET {keyholder1, keyholder2, keyholder3}, {keyholder1, keyholder3} \subseteq A
    PROVE  /\ Cardinality(A) >= 2
           /\ \A r : Audit!Verifies({<<i, r[2]>> : i \in A}, r)
  <1> DEFINE all == {keyholder1, keyholder2, keyholder3}
  <1>1. IsFiniteSet(all)
    <2>1. /\ IsFiniteSet({keyholder1}) /\ IsFiniteSet({keyholder1} \cup {keyholder2})
          /\ IsFiniteSet(({keyholder1} \cup {keyholder2}) \cup {keyholder3})
      BY FS_Singleton, FS_AddElement
    <2>2. ({keyholder1} \cup {keyholder2}) \cup {keyholder3} = all
      OBVIOUS
    <2> QED BY <2>1, <2>2
  <1>2. Cardinality(A) >= 2
    <2>1. IsFiniteSet(A)
      BY <1>1, FS_Subset
    <2> QED BY <2>1, KeyholdersDiffer, TwoAtLeast
  <1>3. ASSUME NEW r PROVE Audit!Verifies({<<i, r[2]>> : i \in A}, r)
    <2> DEFINE P == {<<i, r[2]>> : i \in A}
    <2>1. IsFiniteSet(P)
      <3>1. IsFiniteSet(all \X {r[2]})
        BY <1>1, FS_Singleton, FS_Product
      <3>2. P \in SUBSET (all \X {r[2]})
        OBVIOUS
      <3> QED BY <3>1, <3>2, FS_Subset
    <2>2. <<keyholder1, r[2]>> \in P /\ <<keyholder3, r[2]>> \in P
      OBVIOUS
    <2>3. <<keyholder1, r[2]>> # <<keyholder3, r[2]>>
      BY KeyholdersDiffer
    <2>4. \A p \in P : p[2] = r[2]
      OBVIOUS
    <2> HIDE DEF P
    <2>5. Cardinality(P) >= 2
      BY <2>1, <2>2, <2>3, TwoAtLeast
    <2>6. Audit!Verifies(P, r)
      BY <2>4, <2>5, AuditCounts DEF Audit!Verifies
    <2> QED BY <2>6 DEF P
  <1> QED BY <1>2, <1>3

\* A disclosure the run saved is of the record #1001's pledge points to, approved by two.
LEMMA DisclosureReads == RunInv => DisclosureIsTrue
  <1> SUFFICES ASSUME RunInv, file.disclosure # None
               PROVE  /\ file.disclosure = currentRecordId(main)
                      /\ Cardinality(Audit!ApprovedSlots(file.disclosure)) >= 2
                      /\ records[file.disclosure] = holderTagOf(lender[main], main)
      BY DEF DisclosureIsTrue
  <1> DEFINE r == currentRecordId(main)
  <1>1. /\ file.disclosure = r
        /\ {RequestStep, ApproveStep(keyholder1), ApproveStep(keyholder3)} \subseteq landed
      BY DEF RunInv, Books, SaysWhatItOpened
  <1>2. /\ currentRequestId \in requests /\ MainIsHeld
        /\ {keyholder1, keyholder3} \subseteq requestApprovals[currentRequestId]
      BY <1>1 DEF RunInv, RunFacts, RequestStands
  <1>3. r \in RecordIds /\ lender[main] # None
      BY <1>2, HeldHasRecord, RunInvoices, RegistryAssumption
      DEF RunInv, Books, RunIsTyped, RegistryAssumption
  <1>4. records[r] = holderTagOf(lender[main], main)
    <2>1. r # None
      BY <1>3, RegistryAssumption DEF RegistryAssumption, RecordIds
    <2> QED BY <1>3, <2>1, RunInvoices
            DEF RunInv, BaseInv, RegistryInv, RecordNamesHolder, RecordsKept, currentRecordId
  <1>5. Cardinality(Audit!ApprovedSlots(r)) >= 2
    <2>1. currentRequestId[1] = r
      BY DEF currentRequestId, Audit!requestIdOf
    <2>2. {keyholder1, keyholder3} \subseteq Audit!ApprovedSlots(r)
      BY <1>2, <2>1 DEF Audit!ApprovedSlots
    <2>3. Audit!ApprovedSlots(r) \subseteq {keyholder1, keyholder2, keyholder3}
      BY DEF Audit!ApprovedSlots, Audit!OpenCases, RunInv, BaseInv, AuditTypes
    <2> QED BY <2>2, <2>3, TwoApproved
  <1> QED BY <1>1, <1>4, <1>5

\* A request approved by two opens, and so does every slot of the case.
LEMMA RequestOpens ==
    ASSUME RunInv, {RequestStep, ApproveStep(keyholder1), ApproveStep(keyholder3)} \subseteq landed
    PROVE  currentRequestId \in requests /\ Audit!OpenRequest(currentRequestId)
  <1> DEFINE q == currentRequestId
             A == requestApprovals[q]
             keys == {Audit!shareKeyOf(q, i) : i \in A}
  <1>1. /\ q \in requests /\ {keyholder1, keyholder3} \subseteq A
        /\ \A i \in A : shares[Audit!shareKeyOf(q, i)] = Audit!RequestShare(q, i)
      BY DEF RunInv, RunFacts, RequestStands
  <1>2. q \in Audit!RequestIds /\ A \in SUBSET {keyholder1, keyholder2, keyholder3}
      BY <1>1 DEF RunInv, BaseInv, AuditTypes
  <1>3. \A i \in A : Audit!RequestShare(q, i) # NoShare
      BY <1>2, AuditReads, LifecycleAssumption DEF LifecycleAssumption
  <1>4. Audit!Holding(keys) = keys
      BY <1>1, <1>3 DEF Audit!Holding
  <1>5. \A i \in A : shares[Audit!shareKeyOf(q, i)].point = <<i, q[1][2]>>
    <2> HIDE DEF q
    <2>1. \A i : Audit!RequestShare(q, i).point = <<i, q[1][2]>>
      BY DEF Audit!RequestShare
    <2> QED BY <1>1, <2>1
  <1>6. {shares[k].point : k \in keys} = {<<i, q[1][2]>> : i \in A}
      BY <1>5
  <1>7. Audit!Verifies({<<i, q[1][2]>> : i \in A}, q[1])
      BY <1>1, <1>2, TwoApproved
  <1> QED BY <1>1, <1>4, <1>6, <1>7 DEF Audit!OpenRequest

\* The run's case opens record by record once two keyholders approved it.
LEMMA CaseOpens ==
    ASSUME RunInv, {OpenCaseStep, ApproveCaseStep(keyholder1), ApproveCaseStep(keyholder3)} \subseteq landed
    PROVE  /\ insolvencyRef \in Audit!OpenCases
           /\ \A j \in 0..(CaseWidth - 1) : Audit!OpenFromCase(insolvencyRef, j)
  <1> DEFINE c == insolvencyRef
             A == caseApprovals[c]
  <1>1. /\ cases[c] # Audit!NoCase /\ MainIsHeld /\ cases[c] = CaseSlots
        /\ \A n \in Elements(pool) : TakenByA(n)
        /\ \A i \in A, j \in Audit!Slots : shares[Audit!caseShareKeyOf(c, i, j)] = Audit!CaseShare(c, i, j)
        /\ {keyholder1, keyholder3} \subseteq A
      BY DEF RunInv, RunFacts, CaseStands
  <1>2. c \in Audit!OpenCases /\ A \in SUBSET {keyholder1, keyholder2, keyholder3}
      BY <1>1 DEF Audit!OpenCases, RunInv, BaseInv, AuditTypes
  <1>3. Audit!UsedSlots(c) = 0..(CaseWidth - 1) /\ Audit!Slots = 0..(CaseWidth - 1) /\ CaseWidth \in Nat
      BY <1>1, SlotsAreRecords, AuditReads DEF Audit!UsedSlots, RunInv, Books, RunIsTyped
  <1>4. \A k \in Nat : Cardinality(0..k) = k + 1 /\ IsFiniteSet(0..k)
      BY FS_Interval
  <1>5. ASSUME NEW k \in 0..(CaseWidth - 1) PROVE Audit!CaseView(c)[k + 1] = cases[c][k]
    <2>1. \A j \in 0..(CaseWidth - 1) : Cardinality({i \in 0..(CaseWidth - 1) : i <= j}) = j + 1
      <3> TAKE j \in 0..(CaseWidth - 1)
      <3>1. {i \in 0..(CaseWidth - 1) : i <= j} = 0..j /\ j \in Nat
        BY <1>3
      <3> QED BY <1>4, <3>1
    <2>2. Audit!KthUsed(c, k + 1) \in 0..(CaseWidth - 1)
          /\ Cardinality({i \in 0..(CaseWidth - 1) : i <= Audit!KthUsed(c, k + 1)}) = k + 1
      BY <1>3, <2>1, AuditCounts DEF Audit!KthUsed
    <2>3. Audit!KthUsed(c, k + 1) = k
      BY <1>3, <2>1, <2>2
    <2>4. Cardinality(Audit!UsedSlots(c)) = CaseWidth
      <3>1. (CaseWidth - 1) \in Nat /\ (CaseWidth - 1) + 1 = CaseWidth
        BY AuditReads
      <3> QED BY <1>3, <1>4, <3>1
    <2>5. k + 1 \in 1..CaseWidth
      BY <1>3
    <2> QED BY <2>3, <2>4, <2>5, AuditCounts DEF Audit!CaseView
  <1>6. ASSUME NEW k \in 0..(CaseWidth - 1) PROVE Audit!OpenFromCase(c, k)
    <2> DEFINE keys == {Audit!caseShareKeyOf(c, i, k) : i \in A}
    <2>1. \A i \in A : shares[Audit!caseShareKeyOf(c, i, k)] = Audit!CaseShare(c, i, k)
      BY <1>1, <1>3
    <2>2. cases[c][k] \in RecordIds
      BY <1>1, <1>3, SlotsAreRecords DEF RunInv, Books, RunIsTyped
    <2>3. \A i \in A : Audit!CaseShare(c, i, k) # NoShare
      <3>1. {2 * k, 2 * k + 1} \subseteq 0..(2 * CaseWidth - 1)
        BY <1>3
      <3>2. cases[c][k][2] \in Ephemerals
        BY <2>2 DEF RecordIds
      <3>3. \A i \in A : Audit!CaseShare(c, i, k) \in Audit!Share
        BY <1>2, <3>1, <3>2 DEF Audit!CaseShare, Audit!Share
      <3> QED BY <3>3, LifecycleAssumption DEF LifecycleAssumption
    <2>4. Audit!Holding(keys) = keys
      BY <2>1, <2>3 DEF Audit!Holding
    <2>5. \A i \in A : shares[Audit!caseShareKeyOf(c, i, k)].point = <<i, cases[c][k][2]>>
      <3>1. \A i : Audit!CaseShare(c, i, k).point = <<i, cases[c][k][2]>>
        BY DEF Audit!CaseShare
      <3> QED BY <2>1, <3>1
    <2>6. {shares[x].point : x \in keys} = {<<i, cases[c][k][2]>> : i \in A}
      BY <2>5
    <2>7. Audit!Verifies({<<i, cases[c][k][2]>> : i \in A}, cases[c][k])
      BY <1>1, <1>2, TwoApproved
    <2> QED BY <1>5, <2>4, <2>6, <2>7 DEF Audit!OpenFromCase
  <1> QED BY <1>2, <1>6

\* What a finished run says is what the ledger has.
LEMMA FinishedReads == RunInv => FinishedRunIsTrue
  <1> SUFFICES ASSUME RunInv, Finished(file) PROVE FinishedRunIsTrue
      BY DEF FinishedRunIsTrue
  <1>1. tool \in Tools /\ \A s \in PlanSteps : OnLedger(s) => s \in landed
      BY PlanReads DEF RunInv, Books, RunIsTyped, RecordedLanded, Finished
  <1>2. /\ {RequestStep, ApproveStep(keyholder1), ApproveStep(keyholder3)} \subseteq landed
        /\ HoldingStep \in landed
    <2>1. {RequestStep, ApproveStep(keyholder1), ApproveStep(keyholder3), HoldingStep} \subseteq PlanSteps
      BY DEF PlanSteps, CliSteps, ConsoleSteps, HoldingStep
    <2>2. /\ OnLedger(RequestStep) /\ OnLedger(ApproveStep(keyholder1)) /\ OnLedger(ApproveStep(keyholder3))
          /\ OnLedger(HoldingStep)
      BY StepFields, StepRefusals DEF OnLedger, OffChain, HoldingStep
    <2> QED BY <1>1, <2>1, <2>2
  <1>3. forged \notin acks /\ inflated \notin acks /\ pledges[forged] = Absent /\ pledges[inflated] = Absent
      BY RunInvoices
      DEF RunInv, RunFacts, OnlyKnown, Known, BaseInv, RegistryInv, PledgesAreAcknowledged, AbsentIsBlank
  <1>4. currentRequestId \in requests /\ Audit!OpenRequest(currentRequestId)
      BY <1>2, RequestOpens
  <1>5. MainIsHeld /\ lender[main] = IF tool = "cli" THEN lenderB ELSE lenderA
      BY <1>1, <1>2, HeldHasRecord DEF RunInv, RunFacts, MainStays
  <1>6. CASE tool = "console"
      BY <1>3, <1>4, <1>5, <1>6 DEF FinishedRunIsTrue, MainIsHeld, TakenByA
  <1>7. CASE tool = "cli"
    <2>1. /\ {AcceptStep(pool[1], lenderA), TakeRestStep, CertifyStep} \subseteq landed
          /\ {OpenCaseStep, ApproveCaseStep(keyholder1), ApproveCaseStep(keyholder3)} \subseteq landed
      <3>1. {AcceptStep(pool[1], lenderA), TakeRestStep, CertifyStep, OpenCaseStep,
             ApproveCaseStep(keyholder1), ApproveCaseStep(keyholder3)} \subseteq PlanSteps
        BY <1>7 DEF PlanSteps, CliSteps
      <3>2. \A s \in {AcceptStep(pool[1], lenderA), TakeRestStep, CertifyStep, OpenCaseStep,
                      ApproveCaseStep(keyholder1), ApproveCaseStep(keyholder3)} : OnLedger(s)
        BY StepFields, StepRefusals DEF OnLedger, OffChain
      <3> QED BY <1>1, <3>1, <3>2
    <2>2. lender[main] = lenderB /\ payee[main] = lenderB /\ sent[main] = main.amount
      <3>1. Conserved(main) /\ lenderB # None /\ pledges[main].claimed
        BY <1>5, <1>7, RunInvoices, RegistryAssumption
        DEF MainIsHeld, RunInv, BaseInv, RegistryInv, ProceedsConserved, RegistryAssumption
      <3> QED BY <1>5, <1>7, <3>1 DEF Conserved
    <2>3. \A n \in Elements(pool) : lender[n] = lenderA
      BY <2>1, PoolReads DEF RunInv, RunFacts, PoolIsLocked, TakenByA
    <2>4. /\ certificates[certId] # None
          /\ certificates[certId].slots = pool /\ certificates[certId].floor = floor
      BY <2>1, LifecycleAssumption DEF RunInv, RunFacts, RunsCertificate, LifecycleAssumption
    <2>5. /\ insolvencyRef \in Audit!OpenCases
          /\ \A j \in 0..(CaseWidth - 1) : Audit!OpenFromCase(insolvencyRef, j)
      BY <2>1, CaseOpens
    <2> QED BY <1>3, <1>4, <1>7, <2>2, <2>3, <2>4, <2>5 DEF FinishedRunIsTrue
  <1> QED BY <1>1, <1>6, <1>7 DEF Tools

-----------------------------------------------------------------------------
(* What a run's evidence has, whatever the ledger does after it.           *)

EvidenceHas(e) ==
    LET view == e.view IN
    /\ DOMAIN view.pledges = Invoices /\ DOMAIN view.records = RecordIds
    /\ DOMAIN view.certificates = CertIds /\ DOMAIN view.cases = {insolvencyRef}
    /\ Cardinality(view.debtors) \in Nat /\ Cardinality(view.financiers) \in Nat
    /\ Cardinality(view.acks) \in Nat
    /\ \A n \in Invoices, x \in Ephemerals :
        view.records[<<n, x>>] # None => view.pledges[n].status # "ABSENT"
    /\ e.by = "console" => \A n \in Invoices : view.pledges[n].status # "SETTLED"
    /\ e.by # "console" =>
        /\ e.by = "cli" /\ view.pledges[main].status = "SETTLED"
        /\ \A n \in Invoices : view.pledges[n] # Absent => view.pledges[n].status \in {"PLEDGED", "SETTLED"}
        /\ \A n \in Invoices : view.pledges[n].status = "SETTLED" =>
            view.pledges[n].claimed /\ view.pledges[n].amount > 0
        /\ view.certificates[certId] # None
        /\ \A c \in CertIds : view.certificates[c] # None =>
            view.certificates[c].floor > 0 /\ Len(view.certificates[c].slots) > 0
        /\ view.requests # {}
        /\ \A q \in view.requests : Cardinality(view.requestApprovals[q]) >= 2
        /\ e.disclosure # None

\* The evidence of a run has it when it is written.
LEMMA EvidenceReads == ASSUME RunInv, Writable PROVE EvidenceHas(Evidence)
  <1> DEFINE e == Evidence
             view == LedgerView
  <1>1. e.by = tool /\ e.disclosure = memory.disclosure /\ e.view = view /\ tool \in Tools
      BY DEF Evidence, RunInv, Books, RunIsTyped
  <1>2. /\ view.pledges = pledges /\ view.records = records /\ view.certificates = certificates
        /\ view.requests = requests /\ view.requestApprovals = requestApprovals /\ view.cases = cases
        /\ view.debtors = debtors /\ view.financiers = financiers /\ view.acks = acks
      BY DEF LedgerView
  <1>3. /\ DOMAIN pledges = Invoices /\ DOMAIN records = RecordIds /\ DOMAIN certificates = CertIds
        /\ DOMAIN cases = {insolvencyRef}
        /\ \A n \in Invoices, x \in Ephemerals : records[<<n, x>>] # None => pledges[n].status # "ABSENT"
      BY DEF RunInv, BaseInv, RegistryInv, TypeOK, RecordsKept, AuditTypes
  <1>7. Cardinality(debtors) \in Nat /\ Cardinality(financiers) \in Nat /\ Cardinality(acks) \in Nat
      BY FS_CardinalityType DEF RunInv, BaseInv, FiniteMembers
  <1>4. tool = "console" => \A n \in Invoices : pledges[n].status # "SETTLED"
      BY DEF RunInv, RunFacts, MainStays
  <1>5. ASSUME tool = "cli"
        PROVE  /\ pledges[main].status = "SETTLED"
               /\ \A n \in Invoices : pledges[n] # Absent => pledges[n].status \in {"PLEDGED", "SETTLED"}
               /\ \A n \in Invoices : pledges[n].status = "SETTLED" =>
                      pledges[n].claimed /\ pledges[n].amount > 0
               /\ certificates[certId] # None
               /\ \A c \in CertIds : certificates[c] # None =>
                      certificates[c].floor > 0 /\ Len(certificates[c].slots) > 0
               /\ requests # {} /\ \A q \in requests : Cardinality(requestApprovals[q]) >= 2
               /\ memory.disclosure # None
    <2>1. PlanSteps = CliSteps /\ CliSteps \subseteq memory.steps
      BY <1>1, <1>5, PlanReads DEF Writable, Finished, PlanSteps
    <2>2. \A s \in CliSteps : OnLedger(s) => s \in landed
      BY <2>1 DEF RunInv, Books, RecordedLanded
    <2>3. {ClaimStep, AcceptStep(pool[1], lenderA), TakeRestStep, CertifyStep, RequestStep,
           ApproveStep(keyholder1), ApproveStep(keyholder3)} \subseteq landed
      <3>1. {ClaimStep, AcceptStep(pool[1], lenderA), TakeRestStep, CertifyStep, RequestStep,
             ApproveStep(keyholder1), ApproveStep(keyholder3)} \subseteq CliSteps
        BY DEF CliSteps, ConsoleSteps
      <3>2. \A s \in {ClaimStep, AcceptStep(pool[1], lenderA), TakeRestStep, CertifyStep, RequestStep,
                      ApproveStep(keyholder1), ApproveStep(keyholder3)} : OnLedger(s)
        BY StepFields, StepRefusals DEF OnLedger, OffChain
      <3> QED BY <2>2, <3>1, <3>2
    <2>4. pledges[main].status = "SETTLED" /\ pledges[main].claimed
      BY <1>5, <2>3 DEF RunInv, RunFacts, MainStays, HoldingStep, MainIsHeld
    <2>5. \A n \in Elements(pool) : pledges[n].status = "PLEDGED"
      BY <2>3, PoolReads DEF RunInv, RunFacts, PoolIsLocked, TakenByA
    <2>6. \A n \in Invoices \ Known : pledges[n] = Absent
      BY DEF RunInv, RunFacts, OnlyKnown, BaseInv, RegistryInv, PledgesAreAcknowledged, AbsentIsBlank
    <2>7. pledges[main].amount > 0
      BY <2>4, RunInvoices, LifecycleAssumption
      DEF RunInv, BaseInv, RegistryInv, ProceedsConserved, Conserved, LifecycleAssumption
    <2>8. certificates[certId] # None /\ \A c \in CertIds : certificates[c] # None =>
              certificates[c].floor > 0 /\ Len(certificates[c].slots) > 0
      BY <2>3, LifecycleAssumption, PoolReads
      DEF RunInv, RunFacts, RunsCertificate, LifecycleAssumption
    <2>9. requests # {} /\ \A q \in requests : Cardinality(requestApprovals[q]) >= 2
      <3>1. /\ requests = {currentRequestId}
            /\ {keyholder1, keyholder3} \subseteq requestApprovals[currentRequestId]
        BY <2>3 DEF RunInv, RunFacts, RequestStands
      <3>2. requestApprovals[currentRequestId] \in SUBSET {keyholder1, keyholder2, keyholder3}
        BY <3>1 DEF RunInv, BaseInv, AuditTypes
      <3> QED BY <3>1, <3>2, TwoApproved
    <2>10. memory.disclosure # None
      <3>1. OpenDisclosure \in CliSteps
        BY DEF CliSteps, ConsoleSteps
      <3> QED BY <1>5, <2>1, <3>1 DEF RunInv, Books, SaysWhatItOpened
    <2>11. \A n \in Invoices : n = main \/ n \in Elements(pool) \/ pledges[n] = Absent
      BY <2>6 DEF Known
    <2>12. \A n \in Invoices : pledges[n] # Absent => pledges[n].status \in {"PLEDGED", "SETTLED"}
      BY <2>4, <2>5, <2>11
    <2>13. \A n \in Invoices : pledges[n].status = "SETTLED" => n = main
      BY <2>5, <2>11 DEF Absent
    <2>14. \A n \in Invoices : pledges[n].status = "SETTLED" =>
              pledges[n].claimed /\ pledges[n].amount > 0
      BY <2>4, <2>7, <2>13
    <2> QED BY <2>4, <2>8, <2>9, <2>10, <2>12, <2>14
  <1> HIDE DEF e, view
  <1>6. EvidenceHas(e)
      BY <1>1, <1>2, <1>3, <1>4, <1>5, <1>7 DEF EvidenceHas, Tools
  <1> QED BY <1>6 DEF e

\* The inductive invariant once others call: what holds of any ledger, and what the evidence has.
VerifyInv ==
    /\ BaseInv /\ StepsLandOnce /\ RefusalsHoldUnreplayed /\ visits \in Nat
    /\ visits = 0 => RunInv
    /\ evidence # None => EvidenceHas(evidence)

\* A visitor's call is a call of the registry.
LEMMA VisitIsCall == AddsRows \/ ChangesRows => AnyCall
  <1>1. CASE AddsRows
    <2>1. Operator \in Callers
      BY DEF Callers
    <2> QED BY <1>1, <2>1 DEF AddsRows, AnyCall, Next, AuditStep
  <1>2. CASE ChangesRows
      BY <1>2 DEF ChangesRows, AnyCall, Next, AuditStep
  <1> QED BY <1>1, <1>2

LEMMA VerifyInvInit == VerifyInit => VerifyInv
  <1>1. RunInit => BaseInv /\ StepsLandOnce /\ RefusalsHoldUnreplayed /\ RunInv
      BY RunInvInit DEF RunInv
  <1> QED BY <1>1 DEF VerifyInit, VerifyInv

LEMMA VerifyInvStep == VerifyInv /\ [VerifyNext]_verifyVars => VerifyInv'
  <1> SUFFICES ASSUME VerifyInv, [VerifyNext]_verifyVars PROVE VerifyInv'
      OBVIOUS
  <1>1. ASSUME visits = 0, [RunNext]_runVars, UNCHANGED <<evidence, visits>> PROVE VerifyInv'
    <2>1. RunInv'
      BY <1>1, RunInvStep DEF VerifyInv
    <2> QED BY <1>1, <2>1 DEF VerifyInv, RunInv, EvidenceHas
  <1>2. CASE WriteEvidence
    <2>1. NothingRecorded
      BY <1>2 DEF WriteEvidence, NothingRecorded, history, VerifyInv, RunInv, Books, RunIsTyped
    <2>2. RunInv'
      BY <1>2, <2>1, BooksLast DEF WriteEvidence, VerifyInv
    <2>3. EvidenceHas(evidence')
      BY <1>2, EvidenceReads DEF WriteEvidence, VerifyInv
    <2> QED BY <1>2, <2>2, <2>3 DEF WriteEvidence, VerifyInv, RunInv, EvidenceHas
  <1>3. ASSUME visits' # 0, visits' \in Nat, AnyCall \/ UNCHANGED ledger,
               UNCHANGED <<replayed, landed, relanded, evidence>>
        PROVE  VerifyInv'
    <2>1. BaseInv'
      BY <1>3, BaseStep DEF VerifyInv
    <2> QED BY <1>3, <2>1 DEF VerifyInv, StepsLandOnce, RefusalsHoldUnreplayed, EvidenceHas
  <1>4. CASE Visit
      BY <1>3, <1>4, VisitIsCall DEF Visit, VerifyInv, runner, history
  <1>5. CASE TimePasses /\ UNCHANGED <<evidence, visits>>
    <2>1. CASE visits = 0
      BY <1>1, <1>5, <2>1 DEF RunNext
    <2>2. CASE visits # 0
      BY <1>3, <1>5, <2>2 DEF TimePasses, AnyCall, Next, runner, history, VerifyInv
    <2> QED BY <2>1, <2>2
  <1>6. CASE UNCHANGED verifyVars
    <2>1. CASE visits = 0
      BY <1>1, <1>6, <2>1 DEF verifyVars
    <2>2. CASE visits # 0
      BY <1>3, <1>6, <2>2 DEF verifyVars, runVars, runner, history, VerifyInv
    <2> QED BY <2>1, <2>2
  <1>7. CASE Alone(RunNext)
      BY <1>1, <1>7 DEF Alone
  <1> QED BY <1>2, <1>4, <1>5, <1>6, <1>7 DEF VerifyNext

LEMMA VerifyInvariant == VerifySpec => []VerifyInv
  <1>1. VerifyInit => VerifyInv
      BY VerifyInvInit
  <1>2. VerifyInv /\ [VerifyNext]_verifyVars => VerifyInv'
      BY VerifyInvStep
  <1> QED BY <1>1, <1>2, PTL DEF VerifySpec


-----------------------------------------------------------------------------
(* What the evidence of a run is worth.                                    *)

\* Through failures, restarts, resumptions and replays of either tool, no transaction lands
\* twice and no refused call is accepted; the disclosure a run saved and the claims of a
\* finished run are on the ledger (cli/src/scenario.ts, mainnet-console/src/lib/lifecycle.ts).
THEOREM RunIsTrue == VerifySpec => []RecordedRunIsTrue
  <1>1. VerifyInv => RecordedRunIsTrue
      BY DisclosureReads, FinishedReads DEF VerifyInv, RecordedRunIsTrue
  <1> QED BY <1>1, VerifyInvariant, PTL

\* cli/src/verify.ts, on the evidence of a finished run of the command line and the ledger it
\* was written over, finds every row standing and every claim true.
THEOREM EvidenceVerifies == VerifySpec => []FinishedEvidenceVerifies
  <1>1. VerifyInv => FinishedEvidenceVerifies
    <2> SUFFICES ASSUME VerifyInv, evidence # None, evidence.by = "cli", evidence.view = LedgerView
                 PROVE  Verifies(evidence)
        BY DEF FinishedEvidenceVerifies, LedgerAsRecorded
    <2> DEFINE view == evidence.view
    <2>1. EvidenceHas(evidence)
        BY DEF VerifyInv
    <2>2. /\ view.debtors = debtors /\ view.financiers = financiers /\ view.acks = acks
          /\ view.pledges = pledges /\ view.records = records /\ view.certificates = certificates
          /\ view.requests = requests /\ view.requestApprovals = requestApprovals
          /\ view.cases = cases /\ view.caseApprovals = caseApprovals /\ view.shares = shares
        BY DEF LedgerView
    <2>3. EveryRowStands(view)
        BY <2>1, <2>2 DEF EvidenceHas, EveryRowStands, RowsHold, NothingShrank
    <2>4. ClaimsHold(evidence)
      <3>1. main \in Invoices /\ certId \in CertIds
          BY LifecycleAssumption DEF LifecycleAssumption
      <3>2. main \in SettledHere(view)
          BY <2>1, <2>2, <3>1 DEF EvidenceHas, SettledHere, Absent
      <3>3. \A n \in SettledHere(view) : pledges[n].claimed /\ pledges[n].amount > 0
          BY <2>1, <2>2 DEF EvidenceHas, SettledHere
      <3>4. certId \in CertifiedHere(view)
          BY <2>1, <2>2, <3>1 DEF EvidenceHas, CertifiedHere
      <3>5. \A c \in CertifiedHere(view) : certificates[c].floor > 0 /\ Len(certificates[c].slots) > 0
          BY <2>1, <2>2 DEF EvidenceHas, CertifiedHere
      <3>6. /\ view.requests # {} /\ \A q \in view.requests : Cardinality(requestApprovals[q]) >= 2
            /\ evidence.disclosure # None
          BY <2>1, <2>2 DEF EvidenceHas
      <3> QED BY <3>2, <3>3, <3>4, <3>5, <3>6 DEF ClaimsHold
    <2> QED BY <2>3, <2>4 DEF Verifies
  <1> QED BY <1>1, VerifyInvariant, PTL

\* A step that leaves what the evidence recorded as it is.
SparesRecorded(view) ==
    /\ debtors \subseteq debtors' /\ financiers \subseteq financiers' /\ acks \subseteq acks'
    /\ \A n \in Invoices : view.pledges[n] # Absent => pledges'[n] = pledges[n]
    /\ \A r \in RecordIds : view.records[r] # None => records'[r] = records[r]
    /\ \A c \in CertIds : view.certificates[c] # None => certificates'[c] = certificates[c]
    /\ requests \subseteq requests' /\ shares' = shares
    /\ \A q \in view.requests : requestApprovals'[q] = requestApprovals[q]
    /\ view.cases[insolvencyRef] # Audit!NoCase =>
        cases'[insolvencyRef] = cases[insolvencyRef] /\ caseApprovals'[insolvencyRef] = caseApprovals[insolvencyRef]

\* After such a step verified evidence verifies still.
LEMMA SparedVerifies ==
    ASSUME FiniteMembers, FiniteMembers', EvidenceHas(evidence), UNCHANGED evidence,
           Verifies(evidence), SparesRecorded(evidence.view)
    PROVE  Verifies(evidence)'
  <1> DEFINE view == evidence.view
  <1>1. EveryRowStands(view) /\ ClaimsHold(evidence) /\ evidence' = evidence
      BY DEF Verifies
  <1>2. /\ DOMAIN view.pledges = Invoices /\ DOMAIN view.records = RecordIds
        /\ DOMAIN view.certificates = CertIds /\ DOMAIN view.cases = {insolvencyRef}
      BY DEF EvidenceHas
  <1>3. NothingShrank(view)'
    <2>1. /\ Cardinality(debtors) \in Nat /\ Cardinality(financiers) \in Nat /\ Cardinality(acks) \in Nat
          /\ Cardinality(debtors') \in Nat /\ Cardinality(financiers') \in Nat /\ Cardinality(acks') \in Nat
        BY FS_CardinalityType DEF FiniteMembers
    <2>2. /\ Cardinality(debtors) <= Cardinality(debtors')
          /\ Cardinality(financiers) <= Cardinality(financiers')
          /\ Cardinality(acks) <= Cardinality(acks')
        BY FS_Subset DEF FiniteMembers, SparesRecorded
    <2> QED BY <1>1, <2>1, <2>2 DEF EveryRowStands, NothingShrank, EvidenceHas
  <1>4. /\ \A n \in Invoices : view.pledges[n] # Absent => pledges'[n] = view.pledges[n]
        /\ \A r \in RecordIds : view.records[r] # None => records'[r] = view.records[r]
        /\ \A c \in CertIds : view.certificates[c] # None => certificates'[c] = view.certificates[c]
      BY <1>1, <1>2 DEF SparesRecorded, EveryRowStands, RowsHold
  <1>5. /\ view.requests \subseteq requests'
        /\ \A q \in view.requests : requestApprovals'[q] = view.requestApprovals[q]
        /\ RowsHold(view.shares, shares, NoShare)'
      BY <1>1 DEF SparesRecorded, EveryRowStands, RowsHold
  <1>6. /\ RowsHold(view.cases, cases, Audit!NoCase)'
        /\ \A c \in DOMAIN view.cases :
              view.cases[c] # Audit!NoCase => caseApprovals'[c] = view.caseApprovals[c]
      BY <1>1, <1>2 DEF SparesRecorded, EveryRowStands, RowsHold, Audit!NoCase
  <1>7. EveryRowStands(view)'
      BY <1>1, <1>2, <1>3, <1>4, <1>5, <1>6 DEF EveryRowStands, RowsHold, Audit!NoCase
  <1>8. SettledHere(view)' = SettledHere(view) /\ CertifiedHere(view)' = CertifiedHere(view)
      BY <1>1 DEF SettledHere, CertifiedHere, SparesRecorded
  <1>9. ClaimsHold(evidence)'
    <2>1. /\ \A n \in SettledHere(view) : pledges'[n] = pledges[n]
          /\ \A c \in CertifiedHere(view) : certificates'[c] = certificates[c]
          /\ \A q \in view.requests : requestApprovals'[q] = requestApprovals[q]
        BY DEF SettledHere, CertifiedHere, SparesRecorded
    <2> QED BY <1>1, <1>8, <2>1 DEF ClaimsHold
  <1> QED BY <1>7, <1>9 DEF Verifies

\* A call that adds rows leaves what verified evidence recorded as it is.
LEMMA AddsBeside ==
    ASSUME BaseInv, EvidenceHas(evidence), Verifies(evidence), AddsRows
    PROVE  SparesRecorded(evidence.view)
  <1> DEFINE view == evidence.view
  <1>1. EveryRowStands(view) /\ ClaimsHold(evidence)
      BY DEF Verifies
  <1>2. \A n \in Invoices : view.pledges[n] # Absent =>
          pledges[n] = view.pledges[n] /\ pledges[n].status \in {"PLEDGED", "SETTLED"}
    <2>1. \A n \in Invoices : view.pledges[n] # Absent => pledges[n] = view.pledges[n]
        BY <1>1 DEF EveryRowStands, RowsHold, EvidenceHas
    <2>2. PICK n \in Invoices : view.pledges[n].status = "SETTLED"
        BY <1>1, <2>1 DEF ClaimsHold, SettledHere
    <2>3. evidence.by # "console"
        BY <2>2 DEF EvidenceHas
    <2> QED BY <2>1, <2>3 DEF EvidenceHas
  <1>3. \A n \in Invoices : Free(n) =>
          view.pledges[n] = Absent /\ \A x \in Ephemerals : view.records[<<n, x>>] = None
    <2>1. \A n \in Invoices : Free(n) => view.pledges[n] = Absent
        BY <1>2 DEF Free
    <2>2. \A n \in Invoices, x \in Ephemerals :
              view.records[<<n, x>>] # None => view.pledges[n].status # "ABSENT"
        BY DEF EvidenceHas
    <2>3. Absent.status = "ABSENT"
        BY DEF Absent
    <2> QED BY <2>1, <2>2, <2>3
  <1>4. \A c \in CertIds : certificates[c] = None => view.certificates[c] = None
      BY <1>1 DEF EveryRowStands, RowsHold, EvidenceHas
  <1>5. view.requests \subseteq requests
      BY <1>1 DEF EveryRowStands
  <1>6. view.cases[insolvencyRef] # Audit!NoCase => cases[insolvencyRef] = view.cases[insolvencyRef]
      BY <1>1 DEF EveryRowStands, RowsHold, EvidenceHas
  <1>7. DOMAIN pledges = Invoices /\ DOMAIN records = RecordIds /\ DOMAIN certificates = CertIds
      BY DEF BaseInv, RegistryInv, TypeOK
  <1> HIDE DEF view
  <1>8. ASSUME UNCHANGED auditLedger,
               \/ \E d \in Debtors : AdmitDebtor(Operator, d)
               \/ \E f \in Financiers : AdmitFinancier(Operator, f)
               \/ \E d \in Debtors, n \in Invoices : Acknowledge(d, n)
               \/ \E s \in Sellers, n \in Invoices, t \in Times, x \in Ephemerals :
                      \E tag \in OfferTags(n) : Offer(s, n, tag, t, x)
               \/ \E s \in Sellers, c \in CertIds, least \in Floors, t \in Times, ns \in Pools :
                      CertifyBorrowingBase(s, c, least, t, ns)
        PROVE  SparesRecorded(view)
    <2>1. ASSUME UNCHANGED <<pledges, records, certificates>>, debtors \subseteq debtors',
                 financiers \subseteq financiers', acks \subseteq acks'
          PROVE  SparesRecorded(view)
        BY <1>8, <2>1 DEF SparesRecorded, auditLedger
    <2>2. ASSUME NEW d \in Debtors, AdmitDebtor(Operator, d) PROVE SparesRecorded(view)
        BY <2>1, <2>2 DEF AdmitDebtor, acknowledgments
    <2>3. ASSUME NEW f \in Financiers, AdmitFinancier(Operator, f) PROVE SparesRecorded(view)
        BY <2>1, <2>3 DEF AdmitFinancier, acknowledgments
    <2>4. ASSUME NEW d \in Debtors, NEW n \in Invoices, Acknowledge(d, n) PROVE SparesRecorded(view)
        BY <2>1, <2>4 DEF Acknowledge, membership
    <2>5. ASSUME NEW s \in Sellers, NEW n \in Invoices, NEW t \in Times, NEW x \in Ephemerals,
                 NEW tag \in OfferTags(n), Offer(s, n, tag, t, x)
          PROVE  SparesRecorded(view)
      <3>1. Free(n) /\ UNCHANGED <<membership, acknowledgments, certificates>>
          BY <2>5 DEF Offer
      <3>2. /\ \A m \in Invoices : m # n => pledges'[m] = pledges[m]
            /\ \A r \in RecordIds : r # <<n, x>> => records'[r] = records[r]
          BY <1>7, <2>5 DEF Offer, SealRecord
      <3>3. view.pledges[n] = Absent /\ view.records[<<n, x>>] = None
          BY <1>3, <3>1
      <3> QED BY <1>8, <3>1, <3>2, <3>3 DEF SparesRecorded, auditLedger, membership, acknowledgments
    <2>6. ASSUME NEW s \in Sellers, NEW c \in CertIds, NEW least \in Floors, NEW t \in Times,
                 NEW ns \in Pools, CertifyBorrowingBase(s, c, least, t, ns)
          PROVE  SparesRecorded(view)
      <3>1. /\ \A n \in Elements(ns) : Free(n)
            /\ UNCHANGED <<membership, acknowledgments>>
          BY <2>6 DEF CertifyBorrowingBase
      <3>2. PICK tags \in [Elements(ns) -> UNION {OfferTags(n) : n \in Elements(ns)}],
                 es \in [Elements(ns) -> Ephemerals] : LockSlots(ns, tags, es, t)
          BY <2>6 DEF CertifyBorrowingBase
      <3>3. \A m \in Invoices : view.pledges[m] # Absent => pledges'[m] = pledges[m]
          BY <1>3, <3>1, <3>2 DEF LockSlots
      <3>4. \A r \in RecordIds : view.records[r] # None => records'[r] = records[r]
        <4>1. SUFFICES ASSUME NEW n \in Invoices, NEW x \in Ephemerals, view.records[<<n, x>>] # None
                       PROVE  records'[<<n, x>>] = records[<<n, x>>]
            BY DEF RecordIds
        <4>2. n \notin Elements(ns)
            BY <1>3, <3>1, <4>1
        <4> QED BY <3>2, <4>2 DEF LockSlots, RecordIds
      <3>5. \A k \in CertIds : view.certificates[k] # None => certificates'[k] = certificates[k]
          BY <1>4, <1>7, <2>6 DEF CertifyBorrowingBase
      <3> QED BY <1>8, <3>1, <3>3, <3>4, <3>5 DEF SparesRecorded, auditLedger, membership, acknowledgments
    <2> QED BY <1>8, <2>2, <2>3, <2>4, <2>5, <2>6
  <1>9. ASSUME UNCHANGED vars,
               \/ \E r \in RecordIds : Audit!RequestDisclosure(r, caseRef)
               \/ \E slots \in [Audit!Slots -> RecordIds \cup {Unused}] :
                      Audit!OpenCase(insolvencyRef, slots)
        PROVE  SparesRecorded(view)
    <2>1. UNCHANGED <<pledges, records, certificates, debtors, financiers, acks>>
        BY <1>9 DEF vars, membership, acknowledgments
    <2>2. requestApprovals \in [Audit!RequestIds -> SUBSET {keyholder1, keyholder2, keyholder3}]
        BY DEF BaseInv, AuditTypes
    <2>3. requests \subseteq Audit!RequestIds
        BY DEF BaseInv, AuditTypes
    <2>4. ASSUME NEW r \in RecordIds, Audit!RequestDisclosure(r, caseRef) PROVE SparesRecorded(view)
      <3>1. /\ requests \subseteq requests' /\ UNCHANGED <<cases, caseApprovals, shares>>
            /\ \A q \in requests : requestApprovals'[q] = requestApprovals[q]
          BY <2>2, <2>3, <2>4 DEF Audit!RequestDisclosure
      <3> QED BY <1>5, <2>1, <3>1 DEF SparesRecorded
    <2>5. ASSUME NEW slots, Audit!OpenCase(insolvencyRef, slots) PROVE SparesRecorded(view)
      <3>1. cases[insolvencyRef] = Audit!NoCase
          BY <2>5 DEF Audit!OpenCase, Audit!Openable, Audit!OpenCases
      <3>2. UNCHANGED <<requests, requestApprovals, shares>>
          BY <2>5 DEF Audit!OpenCase
      <3> QED BY <1>6, <2>1, <3>1, <3>2 DEF SparesRecorded
    <2> QED BY <1>9, <2>4, <2>5
  <1>10. SparesRecorded(view)
      BY <1>8, <1>9 DEF AddsRows
  <1> QED BY <1>10 DEF view

\* cli/src/verify.ts:13-27: of the calls others make after a run, those that only add rows
\* never turn evidence that verified into evidence that fails, however long it has been.
THEOREM MoreRowsAreNoFailure == VerifySpec => MoreIsNoFailure
  <1>1. ASSUME VerifyInv, Visit, AddsRows, Verifies(evidence) PROVE Verifies(evidence)'
    <2>1. BaseInv /\ EvidenceHas(evidence) /\ UNCHANGED evidence
        BY <1>1 DEF VerifyInv, Visit
    <2>2. BaseInv'
        BY <1>1, <2>1, VisitIsCall, BaseStep
    <2>3. SparesRecorded(evidence.view)
        BY <1>1, <2>1, AddsBeside
    <2> QED BY <1>1, <2>1, <2>2, <2>3, SparedVerifies DEF BaseInv
  <1>2. VerifyInv /\ [VerifyNext]_verifyVars =>
          [Visit /\ AddsRows /\ Verifies(evidence) => Verifies(evidence)']_verifyVars
      BY <1>1
  <1> QED BY <1>2, VerifyInvariant, PTL DEF VerifySpec, MoreIsNoFailure

=============================================================================
