-------------------------- MODULE DisclosureProofs --------------------------
(***************************************************************************)
(* Theorems about Disclosure, for any receivables, scalars, requests and   *)
(* cases, any width of a case and any finite set of keyholders.            *)
(***************************************************************************)
EXTENDS Disclosure, FiniteSetTheorems, TLAPS

-----------------------------------------------------------------------------
(* Keys and shares.                                                        *)

\* Two share keys are one only for one approval of one thing: the domains keep a case whose
\* reference is a request's id apart from that request.
LEMMA KeysAreInjective ==
    /\ \A q, p, i, h : shareKeyOf(q, i) = shareKeyOf(p, h) => q = p /\ i = h
    /\ \A c, d, i, h, j, l :
        caseShareKeyOf(c, i, j) = caseShareKeyOf(d, h, l) => c = d /\ i = h /\ j = l
    /\ \A q, c, i, h, j : shareKeyOf(q, i) # caseShareKeyOf(c, h, j)
    /\ \A c, i, j : caseShareKeyOf(c, i, j)[4] = j
  BY DEF shareKeyOf, caseShareKeyOf

LEMMA KeyTypes ==
    /\ \A q \in RequestIds, i \in Keyholders : shareKeyOf(q, i) \in ShareKeys
    /\ \A c \in CaseRefs, i \in Keyholders, j \in Slots : caseShareKeyOf(c, i, j) \in ShareKeys
    /\ \A k \in ShareKeys :
        \/ \E q \in RequestIds, i \in Keyholders : k = shareKeyOf(q, i)
        \/ \E c \in CaseRefs, i \in Keyholders, j \in Slots : k = caseShareKeyOf(c, i, j)
  BY DEF ShareKeys

LEMMA SlotNumbers == \A j \in Slots : j \in Nat /\ j < CaseWidth
  BY DisclosureAssumption DEF DisclosureAssumption, Slots

\* A share of a request, as an approval makes it.
LEMMA RequestShareType ==
    ASSUME NEW q \in RequestIds, NEW i \in Keyholders
    PROVE  /\ RequestShare(q, i) \in Share /\ RequestShare(q, i) # NoShare
           /\ RequestShare(q, i).point = <<i, q[1][2]>> /\ q[1] \in RecordIds
  <1>1. q[1] \in RecordIds /\ q[1][2] \in Ephemerals
    BY DEF RequestIds, requestIdOf, RecordIds
  <1>2. {0, 1} \in SUBSET (0..(2 * CaseWidth - 1))
    BY DisclosureAssumption DEF DisclosureAssumption
  <1>3. RequestShare(q, i) \in Share
    BY <1>1, <1>2 DEF RequestShare, Share
  <1> QED
    BY <1>1, <1>3, DisclosureAssumption DEF DisclosureAssumption, RequestShare

\* A share of a used slot of a case.
LEMMA CaseShareType ==
    ASSUME TypeOK, NEW c \in CaseRefs, NEW i \in Keyholders, NEW j \in UsedSlots(c)
    PROVE  /\ CaseShare(c, i, j) \in Share /\ CaseShare(c, i, j) # NoShare
           /\ CaseShare(c, i, j).point = <<i, cases[c][j][2]>> /\ cases[c][j] \in RecordIds
  <1>1. j \in Slots /\ cases[c][j] \in RecordIds
    BY DEF TypeOK, UsedSlots
  <1>2. cases[c][j][2] \in Ephemerals
    BY <1>1 DEF RecordIds
  <1>3. {2 * j, 2 * j + 1} \in SUBSET (0..(2 * CaseWidth - 1))
    BY <1>1, SlotNumbers, DisclosureAssumption DEF DisclosureAssumption
  <1>4. CaseShare(c, i, j) \in Share
    BY <1>2, <1>3 DEF CaseShare, Share
  <1> QED
    BY <1>1, <1>4, DisclosureAssumption DEF DisclosureAssumption, CaseShare

-----------------------------------------------------------------------------
(* The inductive invariant.  What SharesMatchApprovals says of a share     *)
(* survives the opening of a request or a case only because nobody can     *)
(* have approved it before, and what it says of the records a share opens  *)
(* takes that requests and cases name records of the ledger.               *)

OnlyOpenIsApproved ==
    /\ \A q \in RequestIds : requestApprovals[q] # {} => q \in requests
    /\ \A c \in CaseRefs : caseApprovals[c] # {} => c \in OpenCases

RecordsAreNamed ==
    /\ \A q \in requests : q[1] \in records
    /\ \A c \in CaseRefs, j \in Slots : cases[c][j] # Unused => cases[c][j] \in records

DisclosureInv == TypeOK /\ OnlyOpenIsApproved /\ RecordsAreNamed /\ SharesMatchApprovals

LEMMA InitInv == Init => DisclosureInv
  <1> SUFFICES ASSUME Init PROVE DisclosureInv
    OBVIOUS
  <1>1. TypeOK
    BY DEF Init, TypeOK, NoCase
  <1>2. OnlyOpenIsApproved /\ RecordsAreNamed
    BY DEF Init, OnlyOpenIsApproved, RecordsAreNamed, NoCase
  <1>3. SharesMatchApprovals
    BY KeyTypes DEF Init, SharesMatchApprovals
  <1> QED BY <1>1, <1>2, <1>3 DEF DisclosureInv

LEMMA StepType == TypeOK /\ [Next]_vars => TypeOK'
  <1> SUFFICES ASSUME TypeOK, [Next]_vars PROVE TypeOK'
    OBVIOUS
  <1> USE DEF TypeOK
  <1>1. ASSUME NEW n \in Receivables, NEW e \in Ephemerals, Seal(n, e) PROVE TypeOK'
    BY <1>1 DEF Seal, RecordIds
  <1>2. ASSUME NEW r \in RecordIds, NEW m \in Matters, RequestDisclosure(r, m) PROVE TypeOK'
    <2>1. requestIdOf(r, m) \in RequestIds
      BY DEF RequestIds
    <2> QED BY <1>2, <2>1 DEF RequestDisclosure
  <1>3. ASSUME NEW i \in Keyholders, NEW q \in RequestIds, ApproveDisclosure(i, q) PROVE TypeOK'
    BY <1>3, KeyTypes, RequestShareType DEF ApproveDisclosure
  <1>4. ASSUME NEW i \in Keyholders, NEW c \in CaseRefs, ApproveCase(i, c) PROVE TypeOK'
    <2>1. \A j \in UsedSlots(c) : caseShareKeyOf(c, i, j)[4] = j
      BY KeysAreInjective
    <2>2. shares' \in [ShareKeys -> Share \cup {NoShare}]
      BY <1>4, <2>1, CaseShareType DEF ApproveCase, SealCaseShares
    <2> QED BY <1>4, <2>2 DEF ApproveCase
  <1>5. ASSUME NEW c \in CaseRefs, NEW slots \in [Slots -> RecordIds \cup {Unused}],
               OpenCase(c, slots)
        PROVE  TypeOK'
    BY <1>5 DEF OpenCase
  <1>6. ASSUME UNCHANGED vars PROVE TypeOK'
    BY <1>6 DEF vars
  <1> QED
    BY <1>1, <1>2, <1>3, <1>4, <1>5, <1>6 DEF Next

\* Approvals and records follow what is open, whatever is opened or approved next.
LEMMA NamesStep ==
    TypeOK /\ OnlyOpenIsApproved /\ RecordsAreNamed /\ [Next]_vars
    => OnlyOpenIsApproved' /\ RecordsAreNamed'
  <1> SUFFICES ASSUME TypeOK, OnlyOpenIsApproved, RecordsAreNamed, [Next]_vars
               PROVE  OnlyOpenIsApproved' /\ RecordsAreNamed'
    OBVIOUS
  <1> DEFINE Goal == OnlyOpenIsApproved' /\ RecordsAreNamed'
  <1> USE DEF TypeOK, OnlyOpenIsApproved, RecordsAreNamed
  <1>1. ASSUME NEW n \in Receivables, NEW e \in Ephemerals, Seal(n, e) PROVE Goal
    BY <1>1 DEF Seal, OpenCases
  <1>2. ASSUME NEW r \in RecordIds, NEW m \in Matters, RequestDisclosure(r, m) PROVE Goal
    <2>1. requestIdOf(r, m) \in RequestIds /\ requestIdOf(r, m)[1] = r
      BY DEF RequestIds, requestIdOf
    <2> QED BY <1>2, <2>1 DEF RequestDisclosure, OpenCases
  <1>3. ASSUME NEW i \in Keyholders, NEW q \in RequestIds, ApproveDisclosure(i, q) PROVE Goal
    BY <1>3 DEF ApproveDisclosure, OpenCases
  <1>4. ASSUME NEW i \in Keyholders, NEW c \in CaseRefs, ApproveCase(i, c) PROVE Goal
    BY <1>4 DEF ApproveCase, OpenCases
  <1>5. ASSUME NEW c \in CaseRefs, NEW slots \in [Slots -> RecordIds \cup {Unused}],
               OpenCase(c, slots)
        PROVE  Goal
    <2>1. slots # NoCase
      BY <1>5 DEF OpenCase, Openable, NoCase
    <2>2. cases'[c] = slots /\ caseApprovals'[c] = {}
          /\ \A d \in CaseRefs \ {c} : cases'[d] = cases[d] /\ caseApprovals'[d] = caseApprovals[d]
      BY <1>5 DEF OpenCase
    <2>3. OnlyOpenIsApproved'
      BY <1>5, <2>1, <2>2 DEF OpenCase, OpenCases
    <2>4. RecordsAreNamed'
      BY <1>5, <2>2 DEF OpenCase, Openable
    <2> QED BY <2>3, <2>4
  <1>6. ASSUME UNCHANGED vars PROVE Goal
    BY <1>6 DEF vars, OpenCases
  <1> QED
    BY <1>1, <1>2, <1>3, <1>4, <1>5, <1>6 DEF Next

LEMMA SharesMatchApprovalsStep ==
    TypeOK /\ OnlyOpenIsApproved /\ SharesMatchApprovals /\ [Next]_vars
    => SharesMatchApprovals'
  <1> SUFFICES ASSUME TypeOK, OnlyOpenIsApproved, SharesMatchApprovals, [Next]_vars
               PROVE  SharesMatchApprovals'
    OBVIOUS
  <1> USE DEF TypeOK
  <1>1. ASSUME NEW n \in Receivables, NEW e \in Ephemerals, Seal(n, e)
        PROVE  SharesMatchApprovals'
    BY <1>1 DEF Seal, SharesMatchApprovals, UsedSlots, CaseShare
  \* Nobody approved a request before it was made.
  <1>2. ASSUME NEW r \in RecordIds, NEW m \in Matters, RequestDisclosure(r, m)
        PROVE  SharesMatchApprovals'
    <2>1. requestIdOf(r, m) \in RequestIds
      BY DEF RequestIds
    <2>2. requestApprovals' = requestApprovals
      BY <1>2, <2>1 DEF RequestDisclosure, OnlyOpenIsApproved
    <2> QED BY <1>2, <2>2 DEF RequestDisclosure, SharesMatchApprovals, UsedSlots, CaseShare
  <1>3. ASSUME NEW i \in Keyholders, NEW q \in RequestIds, ApproveDisclosure(i, q)
        PROVE  SharesMatchApprovals'
    <2>1. shareKeyOf(q, i) \in ShareKeys
      BY KeyTypes
    <2>2. ASSUME NEW p \in RequestIds, NEW h \in Keyholders
          PROVE  shares'[shareKeyOf(p, h)] =
                   IF h \in requestApprovals'[p] THEN RequestShare(p, h) ELSE NoShare
      <3>1. CASE p = q /\ h = i
        BY <1>3, <2>1, <3>1 DEF ApproveDisclosure
      <3>2. CASE ~(p = q /\ h = i)
        <4>1. shareKeyOf(p, h) # shareKeyOf(q, i)
          BY <3>2, KeysAreInjective
        <4>2. h \in requestApprovals'[p] <=> h \in requestApprovals[p]
          BY <1>3, <3>2 DEF ApproveDisclosure
        <4>3. shares'[shareKeyOf(p, h)] = shares[shareKeyOf(p, h)]
          BY <1>3, <4>1, KeyTypes DEF ApproveDisclosure
        <4> QED BY <4>2, <4>3 DEF SharesMatchApprovals
      <3> QED BY <3>1, <3>2
    <2>3. ASSUME NEW c \in CaseRefs, NEW h \in Keyholders, NEW j \in Slots
          PROVE  shares'[caseShareKeyOf(c, h, j)] = shares[caseShareKeyOf(c, h, j)]
      BY <1>3, KeysAreInjective, KeyTypes DEF ApproveDisclosure
    <2>4. ASSUME NEW c \in CaseRefs, NEW h \in Keyholders, NEW j \in Slots
          PROVE  shares'[caseShareKeyOf(c, h, j)] =
                   IF h \in caseApprovals'[c] /\ j \in UsedSlots(c)'
                   THEN CaseShare(c, h, j)' ELSE NoShare
      <3>1. caseApprovals' = caseApprovals /\ cases' = cases
        BY <1>3 DEF ApproveDisclosure
      <3> QED BY <2>3, <3>1 DEF SharesMatchApprovals, UsedSlots, CaseShare
    <2> QED
      BY <2>2, <2>4 DEF SharesMatchApprovals
  \* One share per used slot, and the keys of everybody else's are left alone.
  <1>4. ASSUME NEW i \in Keyholders, NEW c \in CaseRefs, ApproveCase(i, c)
        PROVE  SharesMatchApprovals'
    <2>1. \A k \in ShareKeys :
            shares'[k] = IF \E j \in UsedSlots(c) : k = caseShareKeyOf(c, i, j)
                         THEN CaseShare(c, i, k[4]) ELSE shares[k]
      BY <1>4 DEF ApproveCase, SealCaseShares
    <2>2. ASSUME NEW q \in RequestIds, NEW h \in Keyholders
          PROVE  shares'[shareKeyOf(q, h)] = shares[shareKeyOf(q, h)]
      BY <2>1, KeysAreInjective, KeyTypes
    <2>3. ASSUME NEW d \in CaseRefs, NEW h \in Keyholders, NEW j \in Slots
          PROVE  shares'[caseShareKeyOf(d, h, j)] =
                   IF h \in caseApprovals'[d] /\ j \in UsedSlots(d)
                   THEN CaseShare(d, h, j) ELSE NoShare
      <3>1. caseShareKeyOf(d, h, j) \in ShareKeys /\ caseShareKeyOf(d, h, j)[4] = j
        BY KeyTypes, KeysAreInjective
      <3>2. CASE d = c /\ h = i
        <4>1. h \in caseApprovals'[d]
          BY <1>4, <3>2 DEF ApproveCase
        <4>2. h \notin caseApprovals[d]
          BY <1>4, <3>2 DEF ApproveCase
        <4>3. CASE j \in UsedSlots(c)
          BY <2>1, <3>1, <3>2, <4>1, <4>3
        <4>4. CASE j \notin UsedSlots(c)
          <5>1. shares'[caseShareKeyOf(d, h, j)] = shares[caseShareKeyOf(d, h, j)]
            BY <2>1, <3>1, <4>4, KeysAreInjective
          <5> QED BY <3>2, <4>4, <5>1 DEF SharesMatchApprovals
        <4> QED BY <4>3, <4>4
      <3>3. CASE ~(d = c /\ h = i)
        <4>1. \A l \in UsedSlots(c) : caseShareKeyOf(d, h, j) # caseShareKeyOf(c, i, l)
          BY <3>3, KeysAreInjective
        <4>2. shares'[caseShareKeyOf(d, h, j)] = shares[caseShareKeyOf(d, h, j)]
          BY <2>1, <3>1, <4>1
        <4>3. h \in caseApprovals'[d] <=> h \in caseApprovals[d]
          BY <1>4, <3>3 DEF ApproveCase
        <4> QED BY <4>2, <4>3 DEF SharesMatchApprovals
      <3> QED BY <3>2, <3>3
    <2>4. \A d \in CaseRefs, h \in Keyholders, j \in Slots :
            (j \in UsedSlots(d))' = (j \in UsedSlots(d)) /\ CaseShare(d, h, j)' = CaseShare(d, h, j)
      BY <1>4 DEF ApproveCase, UsedSlots, CaseShare
    <2> QED
      BY <1>4, <2>2, <2>3, <2>4 DEF ApproveCase, SharesMatchApprovals
  \* Nobody approved a case before it was opened.
  <1>5. ASSUME NEW c \in CaseRefs, NEW slots \in [Slots -> RecordIds \cup {Unused}],
               OpenCase(c, slots)
        PROVE  SharesMatchApprovals'
    <2>1. caseApprovals[c] = {} /\ caseApprovals' = caseApprovals
      BY <1>5 DEF OpenCase, Openable, OnlyOpenIsApproved
    <2>2. \A d \in CaseRefs \ {c} : cases'[d] = cases[d]
      BY <1>5 DEF OpenCase
    <2>3. ASSUME NEW d \in CaseRefs, NEW h \in Keyholders, NEW j \in Slots
          PROVE  shares'[caseShareKeyOf(d, h, j)] =
                   IF h \in caseApprovals'[d] /\ j \in UsedSlots(d)'
                   THEN CaseShare(d, h, j)' ELSE NoShare
      <3>1. shares'[caseShareKeyOf(d, h, j)] = shares[caseShareKeyOf(d, h, j)]
        BY <1>5 DEF OpenCase
      <3>2. CASE d = c
        BY <2>1, <3>1, <3>2 DEF SharesMatchApprovals
      <3>3. CASE d # c
        BY <2>1, <2>2, <3>1, <3>3 DEF SharesMatchApprovals, UsedSlots, CaseShare
      <3> QED BY <3>2, <3>3
    <2> QED
      BY <1>5, <2>3 DEF OpenCase, SharesMatchApprovals
  <1>6. ASSUME UNCHANGED vars PROVE SharesMatchApprovals'
    BY <1>6 DEF vars, SharesMatchApprovals, UsedSlots, CaseShare
  <1> QED
    BY <1>1, <1>2, <1>3, <1>4, <1>5, <1>6 DEF Next

LEMMA DisclosureInvariant == Spec => []DisclosureInv
  <1>1. DisclosureInv /\ [Next]_vars => DisclosureInv'
    BY StepType, NamesStep, SharesMatchApprovalsStep DEF DisclosureInv
  <1> QED
    BY <1>1, InitInv, PTL DEF Spec

\* Every field of the ledger that disclosure uses keeps its type.
THEOREM DisclosureTyping == Spec => []TypeOK
  <1>1. DisclosureInv => TypeOK
    BY DEF DisclosureInv
  <1> QED BY <1>1, DisclosureInvariant, PTL

\* The shares on the ledger are those that approvals on the ledger account for, each on the
\* point of the record that was asked for, and no others.
THEOREM SharesAreApproved == Spec => []SharesMatchApprovals
  <1>1. DisclosureInv => SharesMatchApprovals
    BY DEF DisclosureInv
  <1> QED BY <1>1, DisclosureInvariant, PTL

-----------------------------------------------------------------------------
(* What an approval leaves on the ledger, and nothing else does.           *)

\* A share of the ledger is one of an approved request or of a used slot of an approved case.
LEMMA HeldShares ==
    ASSUME DisclosureInv, NEW k \in Holding(ShareKeys)
    PROVE  \/ \E q \in requests, i \in Keyholders :
                 /\ k = shareKeyOf(q, i) /\ i \in requestApprovals[q]
                 /\ shares[k] = RequestShare(q, i)
           \/ \E c \in OpenCases, i \in Keyholders : \E j \in UsedSlots(c) :
                 /\ k = caseShareKeyOf(c, i, j) /\ i \in caseApprovals[c]
                 /\ shares[k] = CaseShare(c, i, j)
  <1> USE DEF DisclosureInv
  <1>0. k \in ShareKeys /\ shares[k] # NoShare
    BY DEF Holding
  <1>1. ASSUME NEW q \in RequestIds, NEW i \in Keyholders, k = shareKeyOf(q, i)
        PROVE  /\ q \in requests /\ i \in requestApprovals[q]
               /\ shares[k] = RequestShare(q, i)
    BY <1>0, <1>1 DEF SharesMatchApprovals, OnlyOpenIsApproved
  <1>2. ASSUME NEW c \in CaseRefs, NEW i \in Keyholders, NEW j \in Slots,
               k = caseShareKeyOf(c, i, j)
        PROVE  /\ c \in OpenCases /\ i \in caseApprovals[c] /\ j \in UsedSlots(c)
               /\ shares[k] = CaseShare(c, i, j)
    BY <1>0, <1>2 DEF SharesMatchApprovals, OnlyOpenIsApproved
  <1> QED
    BY <1>0, <1>1, <1>2, KeyTypes

\* An approval leaves its share: of a request one, of a case one per used slot.
LEMMA ApprovedShares ==
    ASSUME DisclosureInv
    PROVE  /\ \A q \in RequestIds : \A i \in requestApprovals[q] :
                /\ shareKeyOf(q, i) \in Holding(ShareKeys)
                /\ shares[shareKeyOf(q, i)].point = <<i, q[1][2]>>
           /\ \A c \in CaseRefs : \A i \in caseApprovals[c] : \A j \in UsedSlots(c) :
                /\ caseShareKeyOf(c, i, j) \in Holding(ShareKeys)
                /\ shares[caseShareKeyOf(c, i, j)].point = <<i, cases[c][j][2]>>
  <1> USE DEF DisclosureInv
  <1>1. ASSUME NEW q \in RequestIds, NEW i \in requestApprovals[q]
        PROVE  /\ shareKeyOf(q, i) \in Holding(ShareKeys)
               /\ shares[shareKeyOf(q, i)].point = <<i, q[1][2]>>
    <2>1. i \in Keyholders
      BY DEF TypeOK
    <2>2. shares[shareKeyOf(q, i)] = RequestShare(q, i)
      BY <2>1 DEF SharesMatchApprovals
    <2> QED BY <2>1, <2>2, RequestShareType, KeyTypes DEF Holding
  <1>2. ASSUME NEW c \in CaseRefs, NEW i \in caseApprovals[c], NEW j \in UsedSlots(c)
        PROVE  /\ caseShareKeyOf(c, i, j) \in Holding(ShareKeys)
               /\ shares[caseShareKeyOf(c, i, j)].point = <<i, cases[c][j][2]>>
    <2>1. i \in Keyholders /\ j \in Slots
      BY DEF TypeOK, UsedSlots
    <2>2. shares[caseShareKeyOf(c, i, j)] = CaseShare(c, i, j)
      BY <2>1 DEF SharesMatchApprovals
    <2> QED BY <2>1, <2>2, CaseShareType, KeyTypes DEF Holding
  <1> QED BY <1>1, <1>2

-----------------------------------------------------------------------------
(* Masks.                                                                  *)

\* However many approvals a ledger carries, no two of its shares are sealed with one mask of
\* one scalar.
THEOREM NoMaskIsReused == Spec => []MasksUsedOnce
  <1>1. DisclosureInv => MasksUsedOnce
    <2> SUFFICES ASSUME DisclosureInv, NEW k \in Holding(ShareKeys), NEW l \in Holding(ShareKeys),
                        k # l, shares[k].E2 = shares[l].E2
                 PROVE  shares[k].masks \cap shares[l].masks = {}
      BY DEF MasksUsedOnce
    <2>1. ASSUME NEW q, NEW i, k = shareKeyOf(q, i), shares[k] = RequestShare(q, i),
                 NEW p, NEW h, l = shareKeyOf(p, h), shares[l] = RequestShare(p, h)
          PROVE  FALSE
      BY <2>1 DEF RequestShare
    <2>2. ASSUME NEW q, NEW i, shares[k] = RequestShare(q, i),
                 NEW c, NEW h, NEW j, shares[l] = CaseShare(c, h, j)
          PROVE  FALSE
      BY <2>2 DEF RequestShare, CaseShare
    <2>3. ASSUME NEW c, NEW i, NEW j, shares[k] = CaseShare(c, i, j),
                 NEW q, NEW h, shares[l] = RequestShare(q, h)
          PROVE  FALSE
      BY <2>3 DEF RequestShare, CaseShare
    <2>4. ASSUME NEW c, NEW i, NEW j \in Slots, k = caseShareKeyOf(c, i, j),
                 shares[k] = CaseShare(c, i, j),
                 NEW d, NEW h, NEW m \in Slots, l = caseShareKeyOf(d, h, m),
                 shares[l] = CaseShare(d, h, m)
          PROVE  shares[k].masks \cap shares[l].masks = {}
      <3>1. c = d /\ i = h
        BY <2>4 DEF CaseShare
      <3>2. j # m
        BY <2>4, <3>1
      <3>3. j \in Nat /\ m \in Nat
        BY SlotNumbers
      <3>4. {2 * j, 2 * j + 1} \cap {2 * m, 2 * m + 1} = {}
        BY <3>2, <3>3
      <3> QED BY <2>4, <3>4 DEF CaseShare
    <2> QED
      BY <2>1, <2>2, <2>3, <2>4, HeldShares DEF UsedSlots
  <1> QED BY <1>1, DisclosureInvariant, PTL

-----------------------------------------------------------------------------
(* Two of three.                                                           *)

LEMMA TwoElements ==
    ASSUME NEW S, IsFiniteSet(S)
    PROVE  /\ (\E x, y \in S : x # y) => Cardinality(S) >= 2
           /\ Cardinality(S) >= 2 => \E x, y \in S : x # y
  <1>1. ASSUME NEW x \in S, NEW y \in S, x # y PROVE Cardinality(S) >= 2
    <2>1. IsFiniteSet({x}) /\ Cardinality({x}) = 1
      BY FS_Singleton
    <2>2. Cardinality({x} \cup {y}) = 1 + 1
      BY <1>1, <2>1, FS_AddElement
    <2>3. {x} \cup {y} \in SUBSET S
      OBVIOUS
    <2>4. Cardinality({x} \cup {y}) <= Cardinality(S)
      BY <2>3, FS_Subset
    <2>5. Cardinality(S) \in Nat
      BY FS_CardinalityType
    <2> QED BY <2>2, <2>4, <2>5
  <1>2. ASSUME \A x, y \in S : x = y PROVE Cardinality(S) <= 1
    <2>1. CASE S = {}
      BY <2>1, FS_EmptySet
    <2>2. CASE S # {}
      <3>1. PICK x \in S : S = {x}
        BY <1>2, <2>2
      <3> QED BY <3>1, FS_Singleton
    <2> QED BY <2>1, <2>2
  <1>3. Cardinality(S) \in Nat
    BY FS_CardinalityType
  <1> QED BY <1>1, <1>2, <1>3

\* The keyholders are finite, so are any of their approvals and any points on one scalar.
LEMMA FiniteApprovals ==
    /\ \A A \in SUBSET Keyholders : IsFiniteSet(A)
    /\ \A e : \A P \in SUBSET (Keyholders \X {e}) : IsFiniteSet(P)
  <1>1. \A A \in SUBSET Keyholders : IsFiniteSet(A)
    BY DisclosureAssumption, FS_Subset DEF DisclosureAssumption
  <1>2. ASSUME NEW e, NEW P \in SUBSET (Keyholders \X {e}) PROVE IsFiniteSet(P)
    <2>1. IsFiniteSet({e})
      BY FS_Singleton
    <2>2. IsFiniteSet(Keyholders \X {e})
      BY <2>1, DisclosureAssumption, FS_Product DEF DisclosureAssumption
    <2> QED BY <2>2, FS_Subset
  <1> QED BY <1>1, <1>2

\* Every point on the ledger is of somebody who approved a record sealed under its scalar.
LEMMA PointsAreApproved ==
    ASSUME DisclosureInv, NEW p \in Points
    PROVE  \E s \in records : p \in Keyholders \X {s[2]} /\ p[1] \in ApprovedSlots(s)
  <1> USE DEF DisclosureInv
  <1>1. PICK k \in Holding(ShareKeys) : p = shares[k].point
    BY DEF Points
  <1>2. ASSUME NEW q \in requests, NEW i \in Keyholders, i \in requestApprovals[q],
               shares[k] = RequestShare(q, i)
        PROVE  \E s \in records : p \in Keyholders \X {s[2]} /\ p[1] \in ApprovedSlots(s)
    <2>1. q[1] \in records /\ p = <<i, q[1][2]>>
      BY <1>1, <1>2 DEF RecordsAreNamed, RequestShare
    <2>2. i \in ApprovedSlots(q[1])
      BY <1>2 DEF ApprovedSlots
    <2> QED BY <2>1, <2>2
  <1>3. ASSUME NEW c \in OpenCases, NEW i \in Keyholders, NEW j \in UsedSlots(c),
               i \in caseApprovals[c], shares[k] = CaseShare(c, i, j)
        PROVE  \E s \in records : p \in Keyholders \X {s[2]} /\ p[1] \in ApprovedSlots(s)
    <2>0. j \in Slots
      BY DEF UsedSlots
    <2>1. cases[c][j] \in records /\ p = <<i, cases[c][j][2]>>
      BY <1>1, <1>3 DEF RecordsAreNamed, CaseShare, UsedSlots, OpenCases
    <2>2. i \in ApprovedSlots(cases[c][j])
      BY <1>3, <2>0 DEF ApprovedSlots
    <2> DEFINE s == cases[c][j]
    <2>3. s \in records /\ p = <<i, s[2]>> /\ i \in ApprovedSlots(s)
      BY <2>1, <2>2
    <2> HIDE DEF s
    <2> QED BY <2>3
  <1> QED BY <1>2, <1>3, HeldShares

\* Who approved a record left a point on its scalar.
LEMMA ApprovalsArePoints ==
    ASSUME DisclosureInv, NEW r \in records, NEW i \in ApprovedSlots(r)
    PROVE  i \in Keyholders /\ <<i, r[2]>> \in Points
  <1> USE DEF DisclosureInv
  <1>1. CASE \E q \in requests : q[1] = r /\ i \in requestApprovals[q]
    BY <1>1, ApprovedShares DEF Points, TypeOK
  <1>2. CASE \E c \in OpenCases, j \in Slots : cases[c][j] = r /\ i \in caseApprovals[c]
    <2>1. PICK c \in OpenCases, j \in Slots : cases[c][j] = r /\ i \in caseApprovals[c]
      BY <1>2
    <2>2. c \in CaseRefs /\ j \in UsedSlots(c)
      BY <2>1, DisclosureAssumption DEF DisclosureAssumption, OpenCases, UsedSlots, TypeOK
    <2>3. /\ caseShareKeyOf(c, i, j) \in Holding(ShareKeys)
          /\ shares[caseShareKeyOf(c, i, j)].point = <<i, r[2]>>
      BY <2>1, <2>2, ApprovedShares
    <2>4. i \in Keyholders
      BY <2>1, <2>2 DEF TypeOK
    <2> QED BY <2>3, <2>4 DEF Points
  <1> QED BY <1>1, <1>2 DEF ApprovedSlots

\* The audit trail tells all that can be opened, and only a record sealed under the scalar of
\* another can be opened without approvals of its own.
THEOREM OpeningsAreVisible == Spec => []EveryOpeningIsVisible
  <1>1. DisclosureInv => EveryOpeningIsVisible
    <2> SUFFICES ASSUME DisclosureInv, NEW r \in records
                 PROVE  /\ RecordOpenable(r) => CanReconstruct(r)
                        /\ CanReconstruct(r) => RecordOpenable(r) \/ SealingKeyReused(r)
      BY DEF EveryOpeningIsVisible
    <2> DEFINE P == {p \in Points : p[2] = r[2]}
               A == ApprovedSlots(r)
    <2>1. \A p \in P : p \in Keyholders \X {r[2]}
      BY PointsAreApproved
    <2>2. IsFiniteSet(P)
      BY <2>1, FiniteApprovals
    <2>3. A \subseteq Keyholders /\ \A i \in A : <<i, r[2]>> \in P
      BY ApprovalsArePoints
    <2>4. IsFiniteSet(A)
      BY <2>3, FiniteApprovals
    <2>5. RecordOpenable(r) => CanReconstruct(r)
      <3> SUFFICES ASSUME RecordOpenable(r) PROVE CanReconstruct(r)
        OBVIOUS
      <3>1. PICK i, h \in A : i # h
        BY <2>4, TwoElements DEF RecordOpenable
      <3>2. <<i, r[2]>> \in P /\ <<h, r[2]>> \in P /\ <<i, r[2]>> # <<h, r[2]>>
        BY <2>3, <3>1
      <3> QED BY <2>2, <3>2, TwoElements DEF CanReconstruct
    <2>6. CanReconstruct(r) /\ ~SealingKeyReused(r) => RecordOpenable(r)
      <3> SUFFICES ASSUME CanReconstruct(r), ~SealingKeyReused(r) PROVE RecordOpenable(r)
        OBVIOUS
      <3>1. PICK p, o \in P : p # o
        BY <2>2, TwoElements DEF CanReconstruct
      <3>2. p[1] # o[1]
        BY <2>1, <3>1
      <3>3. \A x \in P : x[1] \in A
        BY PointsAreApproved DEF SealingKeyReused
      <3> QED BY <2>4, <3>1, <3>2, <3>3, TwoElements DEF RecordOpenable
    <2> QED BY <2>5, <2>6
  <1> QED BY <1>1, DisclosureInvariant, PTL

-----------------------------------------------------------------------------
(* What two approvals open.                                                *)

\* The points of some keyholders on one scalar are as many as the keyholders.
LEMMA CombinedShares ==
    ASSUME NEW A \in SUBSET Keyholders, NEW e, NEW r, r[2] = e
    PROVE  Verifies({<<i, e>> : i \in A}, r) <=> Cardinality(A) >= 2
  <1> DEFINE P == {<<i, e>> : i \in A}
  <1>1. IsFiniteSet(A) /\ IsFiniteSet(P)
    BY FiniteApprovals
  <1>2. (\E x, y \in P : x # y) <=> (\E i, h \in A : i # h)
    <2>1. ASSUME NEW x \in P, NEW y \in P, x # y PROVE \E i, h \in A : i # h
      <3>1. PICK i \in A : x = <<i, e>>
        OBVIOUS
      <3>2. PICK h \in A : y = <<h, e>>
        OBVIOUS
      <3> QED BY <2>1, <3>1, <3>2
    <2>2. ASSUME NEW i \in A, NEW h \in A, i # h PROVE \E x, y \in P : x # y
      <3>1. <<i, e>> \in P /\ <<h, e>> \in P /\ <<i, e>> # <<h, e>>
        BY <2>2
      <3> QED BY <3>1
    <2> QED BY <2>1, <2>2
  <1>3. Cardinality(P) >= 2 <=> Cardinality(A) >= 2
    BY <1>1, <1>2, TwoElements
  <1> QED BY <1>3 DEF Verifies

\* In a case filled from its first slot, the k-th record of the view is that of slot k.
LEMMA PackedView ==
    ASSUME TypeOK, NEW c \in CaseRefs, Packed(c), NEW k \in 0..(Len(CaseView(c)) - 1)
    PROVE  k \in UsedSlots(c) /\ CaseView(c)[k + 1] = cases[c][k]
  <1> DEFINE U == UsedSlots(c)
  <1>1. U \subseteq 0..(CaseWidth - 1) /\ CaseWidth \in Nat
    BY DisclosureAssumption DEF DisclosureAssumption, UsedSlots, Slots
  <1>2. IsFiniteSet(U) /\ Cardinality(U) \in Nat
    <2>1. IsFiniteSet(0..(CaseWidth - 1))
      BY <1>1, FS_Interval
    <2>2. IsFiniteSet(U)
      BY <1>1, <2>1, FS_Subset
    <2> QED BY <2>2, FS_CardinalityType
  <1>3. Len(CaseView(c)) = Cardinality(U)
    BY <1>2 DEF CaseView
  <1>4. k \in Nat /\ k < Cardinality(U)
    BY <1>2, <1>3
  <1>5. \A j \in U, i \in Nat : i <= j => i \in U
    BY <1>1 DEF Packed, UsedSlots, Slots
  <1>6. \A n \in Nat : IsFiniteSet(0..(n - 1)) /\ Cardinality(0..(n - 1)) = n
    <2> TAKE n \in Nat
    <2>1. /\ IsFiniteSet(0..(n - 1))
          /\ Cardinality(0..(n - 1)) = IF 0 > n - 1 THEN 0 ELSE (n - 1) - 0 + 1
      BY FS_Interval
    <2> QED BY <2>1
  \* If slot k were not used, the used ones would lie below it and be k at most.
  <1>7. k \in U
    <2> SUFFICES ASSUME k \notin U PROVE FALSE
      OBVIOUS
    <2>1. U \in SUBSET (0..(k - 1))
      BY <1>1, <1>4, <1>5
    <2>2. Cardinality(U) <= Cardinality(0..(k - 1))
      BY <1>4, <1>6, <2>1, FS_Subset
    <2> QED BY <1>2, <1>4, <1>6, <2>2
  <1>8. \A j \in U : Cardinality({i \in U : i <= j}) = j + 1
    <2> HIDE DEF U
    <2> TAKE j \in U
    <2>1. j \in Nat /\ j + 1 \in Nat /\ (j + 1) - 1 = j /\ \A i \in U : i \in Nat
      BY <1>1
    <2>2. \A i \in U : i <= j => i \in 0..j
      BY <2>1
    <2>3. \A i \in 0..j : i \in U /\ i <= j
      BY <1>5, <2>1
    <2>4. {i \in U : i <= j} = 0..j
      BY <2>2, <2>3
    <2>5. Cardinality(0..((j + 1) - 1)) = j + 1
      BY <1>6, <2>1
    <2> QED BY <2>1, <2>4, <2>5
  <1>9. KthUsed(c, k + 1) = k
    <2>1. \E j \in U : Cardinality({i \in U : i <= j}) = k + 1
      BY <1>7, <1>8
    <2>2. /\ KthUsed(c, k + 1) \in U
          /\ Cardinality({i \in U : i <= KthUsed(c, k + 1)}) = k + 1
      BY <2>1 DEF KthUsed
    <2>3. KthUsed(c, k + 1) + 1 = k + 1 /\ KthUsed(c, k + 1) \in Nat
      BY <1>1, <1>8, <2>2
    <2> QED BY <1>4, <2>3
  <1>10. k + 1 \in 1..Cardinality(U)
    BY <1>2, <1>4
  <1> QED
    BY <1>7, <1>9, <1>10 DEF CaseView

\* Two approvals open what was asked for, one opens nothing.
THEOREM TwoApprovalsOpen == Spec => []ApprovedDisclosuresOpen
  <1>1. DisclosureInv => ApprovedDisclosuresOpen
    <2> SUFFICES ASSUME DisclosureInv PROVE ApprovedDisclosuresOpen
      OBVIOUS
    <2> USE DEF DisclosureInv
    <2>1. ASSUME NEW q \in requests
          PROVE  OpenRequest(q) <=> Cardinality(requestApprovals[q]) >= 2
      <3> DEFINE A == requestApprovals[q]
                 keys == {shareKeyOf(q, i) : i \in A}
      <3>1. q \in RequestIds /\ A \in SUBSET Keyholders
        BY DEF TypeOK
      <3>2. Holding(keys) = keys
        BY <3>1, ApprovedShares DEF Holding
      <3>3. {shares[k].point : k \in keys} = {<<i, q[1][2]>> : i \in A}
        BY <3>1, ApprovedShares
      <3>4. Verifies({<<i, q[1][2]>> : i \in A}, q[1]) <=> Cardinality(A) >= 2
        BY <3>1, CombinedShares
      <3> QED BY <3>2, <3>3, <3>4 DEF OpenRequest
    <2>2. ASSUME NEW c \in OpenCases, Packed(c), NEW k \in 0..(Len(CaseView(c)) - 1)
          PROVE  OpenFromCase(c, k) <=> Cardinality(caseApprovals[c]) >= 2
      <3> DEFINE A == caseApprovals[c]
                 keys == {caseShareKeyOf(c, i, k) : i \in A}
      <3>1. c \in CaseRefs /\ A \in SUBSET Keyholders
        BY DEF TypeOK, OpenCases
      <3>2. k \in UsedSlots(c) /\ CaseView(c)[k + 1] = cases[c][k]
        BY <2>2, <3>1, PackedView
      <3>3. Holding(keys) = keys
        BY <3>1, <3>2, ApprovedShares DEF Holding
      <3>4. {shares[x].point : x \in keys} = {<<i, cases[c][k][2]>> : i \in A}
        <4>1. \A i \in A : shares[caseShareKeyOf(c, i, k)].point = <<i, cases[c][k][2]>>
          BY <3>1, <3>2, ApprovedShares
        <4> QED BY <4>1
      <3>5. Verifies({<<i, cases[c][k][2]>> : i \in A}, cases[c][k]) <=> Cardinality(A) >= 2
        BY <3>1, CombinedShares
      <3> QED BY <3>2, <3>3, <3>4, <3>5 DEF OpenFromCase
    <2> QED BY <2>1, <2>2 DEF ApprovedDisclosuresOpen
  <1> QED BY <1>1, DisclosureInvariant, PTL

=============================================================================
