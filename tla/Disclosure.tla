----------------------------- MODULE Disclosure -----------------------------
(***************************************************************************)
(* Threshold disclosure of sealed records: the auditor's requests and      *)
(* cases, the keyholders' approvals, and what the auditor can open with    *)
(* the shares they leave on the ledger (contract/src/stock-and-foil.compact*)
(* and modules/Cipher.compact; sdk/src/audit.ts and roles/auditor.ts).     *)
(*                                                                         *)
(* The group is ideal.  A scalar e stands for the point E = e*G, the share *)
(* D_i = s_i*E is the pair <<i, e>>, and S = sk*E is recovered from the    *)
(* shares of two different keyholders on the same E, and from nothing less.*)
(* A keyholder stands for its secret share: the constructor refuses        *)
(* sharings in which two keyholders hold one key.                          *)
(***************************************************************************)
EXTENDS Naturals, FiniteSets, Sequences

CONSTANTS
    Receivables,    \* pledge nullifiers records are sealed for
    Ephemerals,     \* non-identity scalars a seller may seal with
    Matters,        \* what the auditor names a request after
    CaseRefs,       \* what it names a case after: any 32 bytes, a request id included
    Keyholders,     \* three of them
    CaseWidth,      \* slots of a case, four
    MaxRecords,     \* bound on the records sealed
    MaxCases,       \* bound on the cases opened
    Unused,         \* the zero record id
    NoShare         \* no share at a key

RecordIds == Receivables \X Ephemerals

\* H("request", recordId, caseRef)
requestIdOf(r, matter) == <<r, matter>>
RequestIds == {requestIdOf(r, m) : r \in RecordIds, m \in Matters}

Slots == 0..(CaseWidth - 1)

\* H("share", requestId, i) and H("caseshare", caseRef, i, slot): two domains.
shareKeyOf(q, i) == <<"share", q, i, 0>>

\* Mutation: one domain for both kinds of key.
caseShareKeyOneDomain(c, i, j) == <<"share", c, i, j>>

caseShareKeyOf(c, i, j) == <<"caseshare", c, i, j>>

ShareKeys == {shareKeyOf(q, i) : q \in RequestIds, i \in Keyholders}
             \cup {caseShareKeyOf(c, i, j) : c \in CaseRefs, i \in Keyholders, j \in Slots}

\* A sealed share: the approval that drew its scalar, the masks it used, the point inside.
Share == [E2 : {<<"request", q, i>> : q \in RequestIds, i \in Keyholders}
               \cup {<<"case", c, i>> : c \in CaseRefs, i \in Keyholders},
          masks : SUBSET (0..(2 * CaseWidth - 1)),
          point : Keyholders \X Ephemerals]

ASSUME DisclosureAssumption ==
    /\ CaseWidth \in Nat \ {0}
    /\ MaxRecords \in Nat /\ MaxCases \in Nat
    /\ IsFiniteSet(Keyholders)
    /\ Unused \notin RecordIds
    /\ NoShare \notin Share

VARIABLES
    records,            \* record ids on the ledger
    requests,           \* request ids on the ledger
    requestApprovals,   \* requestApprovals[q]: who approved request q
    cases,              \* cases[c]: the record in each slot, all unused while c is not open
    caseApprovals,      \* caseApprovals[c]: who approved case c
    shares              \* shares[k]: the sealed share at key k, or NoShare

vars == <<records, requests, requestApprovals, cases, caseApprovals, shares>>

NoCase == [j \in Slots |-> Unused]
OpenCases == {c \in CaseRefs : cases[c] # NoCase}
UsedSlots(c) == {j \in Slots : cases[c][j] # Unused}

Init ==
    /\ records = {} /\ requests = {}
    /\ requestApprovals = [q \in RequestIds |-> {}]
    /\ cases = [c \in CaseRefs |-> NoCase]
    /\ caseApprovals = [c \in CaseRefs |-> {}]
    /\ shares = [k \in ShareKeys |-> NoShare]

-----------------------------------------------------------------------------
(* The ledger.                                                             *)

\* An offer or a certified slot seals a record.  The scalar is the seller's: the circuit
\* cannot tell a fresh one from one that sealed another receivable, or this one before.
Seal(n, e) ==
    /\ <<n, e>> \in records \/ Cardinality(records) < MaxRecords
    /\ records' = records \cup {<<n, e>>}
    /\ UNCHANGED <<requests, requestApprovals, cases, caseApprovals, shares>>

\* By the auditor.
RequestDisclosure(r, matter) ==
    /\ r \in records                                    \* NO_SUCH_RECORD
    /\ requestIdOf(r, matter) \notin requests           \* DUPLICATE_REQUEST
    /\ requests' = requests \cup {requestIdOf(r, matter)}
    /\ requestApprovals' = [requestApprovals EXCEPT ![requestIdOf(r, matter)] = {}]
    /\ UNCHANGED <<records, cases, caseApprovals, shares>>

\* Keyholder i's share of the record q names, under a scalar drawn for this approval.
RequestShare(q, i) ==
    [E2 |-> <<"request", q, i>>, masks |-> {0, 1}, point |-> <<i, q[1][2]>>]

\* The index is checked against the caller's own key: NOT_KEYHOLDER.
ApproveDisclosure(i, q) ==
    /\ q \in requests                                   \* NO_SUCH_REQUEST
    /\ i \notin requestApprovals[q]                     \* ALREADY_APPROVED
    /\ shares' = [shares EXCEPT ![shareKeyOf(q, i)] = RequestShare(q, i)]
    /\ requestApprovals' = [requestApprovals EXCEPT ![q] = @ \cup {i}]
    /\ UNCHANGED <<records, requests, cases, caseApprovals>>

\* Mutation: a case can be opened again.
OpenableAgain(c, slots) ==
    /\ \E j \in Slots : slots[j] # Unused
    /\ \A j \in Slots : slots[j] # Unused => slots[j] \in records

Openable(c, slots) ==
    /\ c \notin OpenCases                               \* DUPLICATE_CASE
    /\ \E j \in Slots : slots[j] # Unused               \* EMPTY_CASE
    /\ \A j \in Slots : slots[j] # Unused => slots[j] \in records   \* NO_SUCH_RECORD

\* By the auditor.  The circuit takes any choice of slots, one record twice included.
OpenCase(c, slots) ==
    /\ Openable(c, slots)
    /\ Cardinality(OpenCases \cup {c}) <= MaxCases
    /\ cases' = [cases EXCEPT ![c] = slots]
    /\ caseApprovals' = [caseApprovals EXCEPT ![c] = {}]
    /\ UNCHANGED <<records, requests, requestApprovals, shares>>

\* Mutation: every slot is masked like the first one.
CaseShareOneMask(c, i, j) ==
    [E2 |-> <<"case", c, i>>, masks |-> {0, 1}, point |-> <<i, cases[c][j][2]>>]

\* Slot j of an approval; the four slots share one scalar and differ in their masks.
CaseShare(c, i, j) ==
    [E2 |-> <<"case", c, i>>, masks |-> {2 * j, 2 * j + 1}, point |-> <<i, cases[c][j][2]>>]

SealCaseShares(c, i) ==
    [k \in ShareKeys |-> IF \E j \in UsedSlots(c) : k = caseShareKeyOf(c, i, j)
                         THEN CaseShare(c, i, k[4]) ELSE shares[k]]

ApproveCase(i, c) ==
    /\ c \in OpenCases                                  \* NO_SUCH_CASE
    /\ i \notin caseApprovals[c]                        \* ALREADY_APPROVED
    /\ shares' = SealCaseShares(c, i)
    /\ caseApprovals' = [caseApprovals EXCEPT ![c] = @ \cup {i}]
    /\ UNCHANGED <<records, requests, requestApprovals, cases>>

Next ==
    \/ \E n \in Receivables, e \in Ephemerals : Seal(n, e)
    \/ \E r \in RecordIds, m \in Matters : RequestDisclosure(r, m)
    \/ \E i \in Keyholders :
        \/ \E q \in RequestIds : ApproveDisclosure(i, q)
        \/ \E c \in CaseRefs : ApproveCase(i, c)
    \/ \E c \in CaseRefs, slots \in [Slots -> RecordIds \cup {Unused}] : OpenCase(c, slots)

Spec == Init /\ [][Next]_vars

-----------------------------------------------------------------------------
(* What the SDK reads off the ledger.                                      *)

Holding(keys) == {k \in keys : shares[k] # NoShare}

\* The shares of the ledger, opened with the auditor's scalar.
Points == {shares[k].point : k \in Holding(ShareKeys)}

\* The auditor can reconstruct S = sk*E from the shares it has, wherever they came from.
CanReconstruct(r) == Cardinality({p \in Points : p[2] = r[2]}) >= 2

\* Mutation: the approvals of requests only.
ApprovedSlotsOfRequests(r) ==
    UNION {requestApprovals[q] : q \in {p \in requests : p[1] = r}}

\* recordDisclosureState: everybody who approved a request or a case that names r.
ApprovedSlots(r) ==
    (UNION {requestApprovals[q] : q \in {p \in requests : p[1] = r}})
    \cup (UNION {caseApprovals[c] : c \in {d \in OpenCases : \E j \in Slots : cases[d][j] = r}})

RecordOpenable(r) == Cardinality(ApprovedSlots(r)) >= 2

\* reusedSealingKeys: r was sealed under the ephemeral point of another record.
SealingKeyReused(r) == \E s \in records \ {r} : s[2] = r[2]

\* recoverSharedSecret and verifyRecordDisclosure: the combined shares open r when they are
\* two or more, all on r's own point; otherwise the plaintext does not verify.
Verifies(points, r) == Cardinality(points) >= 2 /\ \A p \in points : p[2] = r[2]

\* open: request q, from the shares of its own approvals.
OpenRequest(q) ==
    Verifies({shares[k].point : k \in Holding({shareKeyOf(q, i) : i \in requestApprovals[q]})},
             q[1])

\* The slot that is the k-th used one of a case.
KthUsed(c, k) == CHOOSE j \in UsedSlots(c) : Cardinality({i \in UsedSlots(c) : i <= j}) = k

\* CaseView.recordIds: the view drops the zero ids, and what follows moves up.
CaseView(c) == [k \in 1..Cardinality(UsedSlots(c)) |-> cases[c][KthUsed(c, k)]]

\* Mutation: shares looked up as if every slot were the first.
OpenFirstSlot(c, k) ==
    Verifies({shares[x].point :
                 x \in Holding({caseShareKeyOf(c, i, 0) : i \in caseApprovals[c]})},
             CaseView(c)[k + 1])

\* openFromCase: record k of the view, with the share key and the masks of slot k.
OpenFromCase(c, k) ==
    Verifies({shares[x].point :
                 x \in Holding({caseShareKeyOf(c, i, k) : i \in caseApprovals[c]})},
             CaseView(c)[k + 1])

\* AuditorClient.openCase fills the slots from the first one on.
Packed(c) == \A j, k \in Slots : j < k /\ cases[c][k] # Unused => cases[c][j] # Unused

-----------------------------------------------------------------------------
(* Properties.                                                             *)

\* Every variable holds what the ledger's declared types allow.
TypeOK ==
    /\ records \subseteq RecordIds
    /\ requests \subseteq RequestIds
    /\ requestApprovals \in [RequestIds -> SUBSET Keyholders]
    /\ cases \in [CaseRefs -> [Slots -> RecordIds \cup {Unused}]]
    /\ caseApprovals \in [CaseRefs -> SUBSET Keyholders]
    /\ shares \in [ShareKeys -> Share \cup {NoShare}]

\* The ledger carries a share exactly where an approval says so: one per approved request,
\* one per used slot of an approved case, each on the point of the record it was asked for.
SharesMatchApprovals ==
    /\ \A q \in RequestIds, i \in Keyholders :
        shares[shareKeyOf(q, i)] =
            IF i \in requestApprovals[q] THEN RequestShare(q, i) ELSE NoShare
    /\ \A c \in CaseRefs, i \in Keyholders, j \in Slots :
        shares[caseShareKeyOf(c, i, j)] =
            IF i \in caseApprovals[c] /\ j \in UsedSlots(c) THEN CaseShare(c, i, j) ELSE NoShare

\* No mask of one scalar covers two shares: an observer without a key learns nothing by
\* subtracting one sealed share from another, not even which slots name one record.
MasksUsedOnce ==
    \A k, l \in Holding(ShareKeys) :
        k # l /\ shares[k].E2 = shares[l].E2 => shares[k].masks \cap shares[l].masks = {}

\* The public audit trail is enough: whatever two approvals of requests and cases make
\* openable the auditor can reconstruct, and it can reconstruct nothing else but records
\* that share their sealing key with another, which is public too.
EveryOpeningIsVisible ==
    \A r \in records :
        /\ RecordOpenable(r) => CanReconstruct(r)
        /\ CanReconstruct(r) => RecordOpenable(r) \/ SealingKeyReused(r)

\* Two approvals of one request, or of one case filled from its first slot, open what it
\* names, and fewer open nothing.
ApprovedDisclosuresOpen ==
    /\ \A q \in requests : OpenRequest(q) <=> Cardinality(requestApprovals[q]) >= 2
    /\ \A c \in OpenCases : Packed(c) =>
        \A k \in 0..(Len(CaseView(c)) - 1) :
            OpenFromCase(c, k) <=> Cardinality(caseApprovals[c]) >= 2

\* What a keyholder consents to cannot be widened, narrowed or taken back: an open case keeps
\* its slots, requests and records stay, approvals only grow, a share is never replaced.
ConsentStands ==
    [][ /\ records \subseteq records' /\ requests \subseteq requests'
        /\ \A c \in OpenCases : cases'[c] = cases[c] /\ caseApprovals[c] \subseteq caseApprovals'[c]
        /\ \A q \in requests : requestApprovals[q] \subseteq requestApprovals'[q]
        /\ \A k \in Holding(ShareKeys) : shares'[k] = shares[k]
      ]_vars

=============================================================================
