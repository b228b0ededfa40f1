--------------------------- MODULE RegistryProofs ---------------------------
(***************************************************************************)
(* Theorems about Registry, for any parties, any set of invoices, any tags *)
(* and any bound on the block time.                                        *)
(***************************************************************************)
EXTENDS Registry, FiniteSetTheorems, TLAPS

\* The tags of one invoice belong to one party each: hashes do not collide.
LEMMA TagsAreInjective ==
    ASSUME NEW f, NEW g, NEW s, NEW r, NEW n
    PROVE  /\ holderTagOf(f, n) = holderTagOf(g, n) => f = g
           /\ sellerPayeeTagOf(s, n) = sellerPayeeTagOf(r, n) => s = r
           /\ holderTagOf(f, n) # sellerPayeeTagOf(s, n)
           /\ holderTagOf(f, n) # ZeroTag
           /\ sellerPayeeTagOf(s, n) # ZeroTag
  BY DEF holderTagOf, sellerPayeeTagOf, ZeroTag

\* What an invoice carries has the types of its fields.
LEMMA InvoiceFields ==
    ASSUME NEW n \in Invoices
    PROVE  /\ n.debtor \in Debtors /\ n.seller \in Sellers /\ n.no \in Nat
           /\ n.amount \in Nat /\ n.due \in Nat
  BY RegistryAssumption DEF RegistryAssumption, Invoice

\* The tags the circuits compute are tags.
LEMMA TagTypes ==
    ASSUME NEW n \in Invoices
    PROVE  /\ \A f \in Financiers : holderTagOf(f, n) \in Tags
           /\ \A s \in Sellers : sellerPayeeTagOf(s, n) \in Tags
           /\ ZeroTag \in Tags
           /\ OfferTags(n) \subseteq Tags
  BY RegistryAssumption DEF RegistryAssumption, Tags, OfferTags

LEMMA AbsentType == Absent \in PledgeState
  <1>1. ZeroTag \in Tags BY DEF Tags
  <1>2. 0 \in Times BY RegistryAssumption DEF RegistryAssumption, Times
  <1> QED BY <1>1, <1>2 DEF Absent, PledgeState

\* A fresh offer is a pledge state, with the fields it was given.
LEMMA OfferedType ==
    ASSUME NEW tag \in Tags, NEW t \in Times, NEW rid \in RecordIds
    PROVE  /\ Offered(tag, t, rid) \in PledgeState
           /\ Offered(tag, t, rid).status = "OFFERED"
           /\ Offered(tag, t, rid).holderTag = tag
           /\ Offered(tag, t, rid).expiry = t
           /\ Offered(tag, t, rid).recordId = rid
           /\ Offered(tag, t, rid).claimed = FALSE
  BY AbsentType DEF Offered, Absent, PledgeState, PledgeStatus

\* A pool lists invoices.
LEMMA PoolElements ==
    ASSUME NEW ns \in Pools
    PROVE  Elements(ns) \subseteq Invoices
  BY DEF Pools, Elements

-----------------------------------------------------------------------------
(* Type correctness.                                                       *)

LEMMA InitType == Init => TypeOK
  BY AbsentType, RegistryAssumption DEF RegistryAssumption, Init, NothingPledged, TypeOK, Times

\* Every circuit keeps the types.
LEMMA StepType == TypeOK /\ [Next]_vars => TypeOK'
  <1> SUFFICES ASSUME TypeOK, [Next]_vars PROVE TypeOK'
    OBVIOUS
  <1> USE DEF TypeOK
  <1>1. ASSUME NEW caller, NEW d \in Debtors, AdmitDebtor(caller, d) PROVE TypeOK'
    BY <1>1 DEF AdmitDebtor, acknowledgments, treasury
  <1>2. ASSUME NEW caller, NEW f \in Financiers, AdmitFinancier(caller, f) PROVE TypeOK'
    BY <1>2 DEF AdmitFinancier, acknowledgments, treasury
  <1>3. ASSUME NEW d \in Debtors, NEW n \in Invoices, Acknowledge(d, n) PROVE TypeOK'
    BY <1>3 DEF Acknowledge, membership, treasury
  <1>4. ASSUME NEW s \in Sellers, NEW n \in Invoices, NEW tag \in OfferTags(n), NEW t \in Times,
               NEW e \in Ephemerals, Offer(s, n, tag, t, e)
        PROVE  TypeOK'
    <2>1. tag \in Tags /\ <<n, e>> \in RecordIds
      BY TagTypes DEF RecordIds
    <2>2. pledges' \in [Invoices -> PledgeState]
      BY <1>4, <2>1, OfferedType DEF Offer
    <2>3. records' \in [RecordIds -> Tags \cup {None}]
      BY <1>4, <2>1 DEF Offer, SealRecord
    <2> QED
      BY <1>4, <2>2, <2>3 DEF Offer, membership, acknowledgments, treasury
  <1>5. ASSUME NEW f \in Financiers, NEW ns, TakeOffers(f, ns) PROVE TypeOK'
    <2>1. pledges' \in [Invoices -> PledgeState]
      BY <1>5, SMTT(60) DEF TakeOffers, PledgeState, PledgeStatus
    <2>2. lender' \in [Invoices -> Financiers \cup {None}]
      BY <1>5 DEF TakeOffers
    <2> QED
      BY <1>5, <2>1, <2>2 DEF TakeOffers, membership, acknowledgments, treasury
  <1>6. ASSUME NEW f \in Financiers, NEW n \in Invoices, Release(f, n) PROVE TypeOK'
    <2>1. pledges' \in [Invoices -> PledgeState]
      BY <1>6, SMTT(60) DEF Release, PledgeState, PledgeStatus
    <2> QED
      BY <1>6, <2>1 DEF Release, membership, acknowledgments, treasury
  <1>7. ASSUME NEW s \in Sellers, NEW c \in CertIds, NEW floor \in Floors, NEW t \in Times,
               NEW ns \in Pools, CertifyBorrowingBase(s, c, floor, t, ns)
        PROVE  TypeOK'
    <2>1. Elements(ns) \subseteq Invoices
      BY PoolElements
    <2>2. PICK tags \in [Elements(ns) -> UNION {OfferTags(n) : n \in Elements(ns)}],
               es \in [Elements(ns) -> Ephemerals] : LockSlots(ns, tags, es, t)
      BY <1>7 DEF CertifyBorrowingBase
    <2>3. \A n \in Elements(ns) : tags[n] \in Tags /\ <<n, es[n]>> \in RecordIds
      BY <2>1, TagTypes DEF RecordIds
    <2>4. pledges' \in [Invoices -> PledgeState]
      BY <2>2, <2>3, OfferedType DEF LockSlots
    <2>5. records' \in [RecordIds -> Tags \cup {None}]
      BY <2>2, <2>3 DEF LockSlots
    <2>6. certificates' \in [CertIds -> Certificate \cup {None}]
      BY <1>7 DEF CertifyBorrowingBase, Certificate
    <2> QED
      BY <1>7, <2>4, <2>5, <2>6 DEF CertifyBorrowingBase, membership, acknowledgments, treasury
  <1>8. ASSUME NEW d \in Debtors, NEW n \in Invoices, PayInvoice(d, n) PROVE TypeOK'
    <2>1. PayeeTag(n) \in Tags
      BY InvoiceFields, TagTypes DEF PayeeTag, PledgeState
    <2>2. pledges' \in [Invoices -> PledgeState]
      BY <1>8, <2>1, InvoiceFields, ZenonT(60) DEF PayInvoice, PledgeState, PledgeStatus
    <2>3. received' \in [Invoices -> Nat]
      BY <1>8, InvoiceFields DEF PayInvoice
    <2> QED
      BY <1>8, <2>2, <2>3 DEF PayInvoice, membership, acknowledgments
  <1>9. ASSUME NEW p \in Financiers \cup Sellers, NEW n \in Invoices, NEW tag, Claim(p, n, tag)
        PROVE  TypeOK'
    <2>1. pledges' \in [Invoices -> PledgeState]
      BY <1>9, ZenonT(60) DEF Claim, PledgeState
    <2>2. sent' \in [Invoices -> Nat]
      BY <1>9 DEF Claim, PledgeState
    <2> QED
      BY <1>9, <2>1, <2>2 DEF Claim, membership, acknowledgments
  <1>10. ASSUME Tick PROVE TypeOK'
    <2>1. now' \in Times
      BY <1>10, RegistryAssumption DEF RegistryAssumption, Tick, Times
    <2> QED
      BY <1>10, <2>1 DEF Tick, membership, acknowledgments, treasury
  <1>11. ASSUME UNCHANGED vars PROVE TypeOK'
    BY <1>11 DEF vars, membership, acknowledgments, treasury
  <1> QED
    BY <1>1, <1>2, <1>3, <1>4, <1>5, <1>6, <1>7, <1>8, <1>9, <1>10, <1>11
    DEF Next, Accept, AcceptBatch, ClaimAsHolder, ClaimAsSeller

\* Whatever calls are made in whatever order, every ledger field keeps its declared type.
THEOREM RegistryTyping == Spec => []TypeOK
  BY InitType, StepType, PTL DEF Spec

-----------------------------------------------------------------------------
(* No double financing.  The nullifier set remembers every debt that was   *)
(* acknowledged, so the acknowledged invoices state different debts; and   *)
(* only acknowledged invoices reach the pledge map.                        *)

AcknowledgedOnce ==
    /\ \A n \in acks : ackNullifierOf(n) \in ackNullifiers
    /\ \A n, m \in acks : ackNullifierOf(n) = ackNullifierOf(m) => n = m

LEMMA AcknowledgedOnceStep ==
    AcknowledgedOnce /\ [Next]_vars => AcknowledgedOnce' /\ acks \subseteq acks'
  <1> SUFFICES ASSUME AcknowledgedOnce, [Next]_vars
               PROVE  AcknowledgedOnce' /\ acks \subseteq acks'
    OBVIOUS
  <1>1. ASSUME NEW d \in Debtors, NEW n \in Invoices, Acknowledge(d, n)
        PROVE  AcknowledgedOnce' /\ acks \subseteq acks'
    BY <1>1 DEF Acknowledge, FreshNumber, AcknowledgedOnce
  <1>2. ASSUME UNCHANGED acknowledgments
        PROVE  AcknowledgedOnce' /\ acks \subseteq acks'
    BY <1>2 DEF acknowledgments, AcknowledgedOnce
  <1>3. \/ \E d \in Debtors, n \in Invoices : Acknowledge(d, n)
        \/ UNCHANGED acknowledgments
    BY DEF Next, vars, AdmitDebtor, AdmitFinancier, Offer, Accept, AcceptBatch, TakeOffers,
           Release, CertifyBorrowingBase, PayInvoice, Claim, ClaimAsHolder, ClaimAsSeller, Tick
  <1> QED
    BY <1>1, <1>2, <1>3

\* A marker that is not on the ledger carries nothing.
AbsentIsBlank == \A n \in Invoices : pledges[n].status = "ABSENT" => pledges[n] = Absent

LEMMA AbsentIsBlankStep == TypeOK /\ AbsentIsBlank /\ [Next]_vars => AbsentIsBlank'
  <1> SUFFICES ASSUME TypeOK, AbsentIsBlank, [Next]_vars,
                      NEW m \in Invoices, pledges'[m].status = "ABSENT"
               PROVE  pledges'[m] = Absent
    BY DEF AbsentIsBlank
  <1>1. ASSUME pledges'[m] = pledges[m] PROVE pledges'[m] = Absent
    BY <1>1 DEF AbsentIsBlank
  <1>2. ASSUME NEW s \in Sellers, NEW n \in Invoices, NEW tag \in OfferTags(n), NEW t \in Times,
               NEW e \in Ephemerals, Offer(s, n, tag, t, e)
        PROVE  pledges'[m] = Absent
    <2>1. Offered(tag, t, <<n, e>>).status = "OFFERED"
      BY DEF Offered, Absent
    <2>2. CASE m = n
      BY <1>2, <2>1, <2>2 DEF Offer, TypeOK
    <2>3. CASE m # n
      BY <1>1, <1>2, <2>3 DEF Offer, TypeOK
    <2> QED BY <2>2, <2>3
  <1>3. ASSUME NEW f \in Financiers, NEW ns, TakeOffers(f, ns) PROVE pledges'[m] = Absent
    BY <1>1, <1>3 DEF TakeOffers, TypeOK, PledgeState
  <1>4. ASSUME NEW f \in Financiers, NEW n \in Invoices, Release(f, n)
        PROVE  pledges'[m] = Absent
    BY <1>1, <1>4 DEF Release, TypeOK, PledgeState
  <1>5. ASSUME NEW s \in Sellers, NEW c \in CertIds, NEW floor \in Floors, NEW t \in Times,
               NEW ns \in Pools, CertifyBorrowingBase(s, c, floor, t, ns)
        PROVE  pledges'[m] = Absent
    <2>1. PICK tags \in [Elements(ns) -> UNION {OfferTags(n) : n \in Elements(ns)}],
               es \in [Elements(ns) -> Ephemerals] : LockSlots(ns, tags, es, t)
      BY <1>5 DEF CertifyBorrowingBase
    <2>2. CASE m \in Elements(ns)
      <3>1. tags[m] \in Tags /\ <<m, es[m]>> \in RecordIds
        BY <2>2, PoolElements, TagTypes DEF RecordIds
      <3> QED
        BY <2>1, <2>2, <3>1, OfferedType DEF LockSlots
    <2>3. CASE m \notin Elements(ns)
      BY <1>1, <2>1, <2>3 DEF LockSlots
    <2> QED BY <2>2, <2>3
  <1>6. ASSUME NEW d \in Debtors, NEW n \in Invoices, PayInvoice(d, n)
        PROVE  pledges'[m] = Absent
    BY <1>1, <1>6 DEF PayInvoice, TypeOK, PledgeState
  <1>7. ASSUME NEW p, NEW n \in Invoices, NEW tag, Claim(p, n, tag) PROVE pledges'[m] = Absent
    BY <1>1, <1>7 DEF Claim, Claimable, TypeOK, PledgeState
  <1>8. ASSUME UNCHANGED pledges PROVE pledges'[m] = Absent
    BY <1>1, <1>8
  <1> QED
    BY <1>2, <1>3, <1>4, <1>5, <1>6, <1>7, <1>8
    DEF Next, vars, AdmitDebtor, AdmitFinancier, Acknowledge, Accept, AcceptBatch,
        ClaimAsHolder, ClaimAsSeller, Tick

LEMMA PledgesAreAcknowledgedStep ==
    /\ TypeOK /\ AcknowledgedOnce /\ AbsentIsBlank /\ PledgesAreAcknowledged
    /\ [Next]_vars
    => PledgesAreAcknowledged'
  <1> SUFFICES ASSUME TypeOK, AcknowledgedOnce, AbsentIsBlank, PledgesAreAcknowledged,
                      [Next]_vars,
                      NEW m \in Invoices, pledges'[m].status # "ABSENT"
               PROVE  m \in acks' /\ pledges'[m].expiry <= m.due
    BY DEF PledgesAreAcknowledged
  <1> DEFINE Goal == m \in acks' /\ pledges'[m].expiry <= m.due
  <1>0. acks \subseteq acks' /\ m.due \in Nat
    BY AcknowledgedOnceStep, InvoiceFields
  <1>1. ASSUME pledges[m].status # "ABSENT", pledges'[m].expiry = pledges[m].expiry
        PROVE  Goal
    BY <1>0, <1>1 DEF PledgesAreAcknowledged
  <1>2. ASSUME NEW s \in Sellers, NEW n \in Invoices, NEW tag \in OfferTags(n), NEW t \in Times,
               NEW e \in Ephemerals, Offer(s, n, tag, t, e)
        PROVE  Goal
    <2>0. tag \in Tags /\ <<n, e>> \in RecordIds
      BY TagTypes DEF RecordIds
    <2>1. Offered(tag, t, <<n, e>>).expiry = t
      BY DEF Offered, Absent
    <2>2. CASE m = n
      BY <1>0, <1>2, <2>1, <2>2 DEF Offer, Offerable, TypeOK
    <2>3. CASE m # n
      BY <1>1, <1>2, <2>3 DEF Offer, TypeOK
    <2> QED BY <2>2, <2>3
  <1>3. ASSUME NEW f \in Financiers, NEW ns, TakeOffers(f, ns) PROVE Goal
    BY <1>1, <1>3 DEF TakeOffers, Takable, TypeOK, PledgeState
  <1>4. ASSUME NEW f \in Financiers, NEW n \in Invoices, Release(f, n) PROVE Goal
    BY <1>1, <1>4 DEF Release, TypeOK, PledgeState
  <1>5. ASSUME NEW s \in Sellers, NEW c \in CertIds, NEW floor \in Floors, NEW t \in Times,
               NEW ns \in Pools, CertifyBorrowingBase(s, c, floor, t, ns)
        PROVE  Goal
    <2>1. PICK tags \in [Elements(ns) -> UNION {OfferTags(n) : n \in Elements(ns)}],
               es \in [Elements(ns) -> Ephemerals] : LockSlots(ns, tags, es, t)
      BY <1>5 DEF CertifyBorrowingBase
    <2>2. CASE m \in Elements(ns)
      <3>2. pledges'[m].expiry = t
        BY <2>1, <2>2 DEF LockSlots, Offered, Absent
      <3>3. \A n \in Elements(ns) : CheckSlot(s, n, t)
        BY <1>5 DEF CertifyBorrowingBase
      <3>4. m \in acks /\ t <= m.due
        BY <2>2, <3>3 DEF CheckSlot
      <3> QED
        BY <1>0, <3>2, <3>4
    <2>3. CASE m \notin Elements(ns)
      BY <1>1, <2>1, <2>3 DEF LockSlots
    <2> QED BY <2>2, <2>3
  <1>6. ASSUME NEW d \in Debtors, NEW n \in Invoices, PayInvoice(d, n) PROVE Goal
    <2>1. CASE m = n /\ pledges[n].status = "ABSENT"
      BY <1>0, <1>6, <2>1, InvoiceFields
         DEF PayInvoice, TypeOK, PledgeState, AbsentIsBlank, Absent
    <2>2. CASE ~(m = n /\ pledges[n].status = "ABSENT")
      BY <1>1, <1>6, <2>2 DEF PayInvoice, TypeOK, PledgeState
    <2> QED BY <2>1, <2>2
  <1>7. ASSUME NEW p, NEW n \in Invoices, NEW tag, Claim(p, n, tag) PROVE Goal
    BY <1>1, <1>7 DEF Claim, Claimable, TypeOK, PledgeState
  <1>8. ASSUME UNCHANGED pledges PROVE Goal
    BY <1>1, <1>8
  <1> QED
    BY <1>2, <1>3, <1>4, <1>5, <1>6, <1>7, <1>8
    DEF Next, vars, AdmitDebtor, AdmitFinancier, Acknowledge, Accept, AcceptBatch,
        ClaimAsHolder, ClaimAsSeller, Tick

-----------------------------------------------------------------------------
(* The financier that took a receivable up stays its holder, and then its  *)
(* payee, until it releases it.                                            *)

LEMMA LenderIsSecuredStep ==
    TypeOK /\ LenderIsSecured /\ [Next]_vars => LenderIsSecured'
  <1> SUFFICES ASSUME TypeOK, LenderIsSecured, [Next]_vars, NEW m \in Invoices
               PROVE  Secured(m)'
    BY DEF LenderIsSecured
  <1>0. Secured(m)
    BY DEF LenderIsSecured
  <1>1. ASSUME pledges'[m] = pledges[m], lender'[m] = lender[m] PROVE Secured(m)'
    BY <1>0, <1>1 DEF Secured
  \* An offer, alone or in a pool, is made only where nobody is secured.
  <1>2. ASSUME Free(m), lender'[m] = lender[m], pledges'[m].status = "OFFERED"
        PROVE  Secured(m)'
    BY <1>0, <1>2 DEF Secured, Free
  <1>3. ASSUME NEW s \in Sellers, NEW n \in Invoices, NEW tag \in OfferTags(n), NEW t \in Times,
               NEW e \in Ephemerals, Offer(s, n, tag, t, e)
        PROVE  Secured(m)'
    <2>1. lender'[m] = lender[m]
      BY <1>3 DEF Offer
    <2>2. CASE m = n
      <3>1. Free(m) /\ pledges'[m] = Offered(tag, t, <<n, e>>)
        BY <1>3, <2>2 DEF Offer, TypeOK
      <3>2. pledges'[m].status = "OFFERED"
        BY <3>1 DEF Offered, Absent
      <3> QED BY <1>2, <2>1, <3>1, <3>2
    <2>3. CASE m # n
      BY <1>1, <1>3, <2>1, <2>3 DEF Offer, TypeOK
    <2> QED BY <2>2, <2>3
  <1>4. ASSUME NEW f \in Financiers, NEW ns, TakeOffers(f, ns) PROVE Secured(m)'
    <2>1. CASE m \in Elements(ns)
      <3>1. pledges'[m].status = "PLEDGED" /\ pledges'[m].holderTag = holderTagOf(f, m)
        BY <1>4, <2>1 DEF TakeOffers, Takable, TypeOK, PledgeState
      <3>2. lender'[m] = f /\ f # None
        BY <1>4, <2>1, RegistryAssumption DEF RegistryAssumption, TakeOffers
      <3> QED BY <3>1, <3>2 DEF Secured
    <2>2. CASE m \notin Elements(ns)
      BY <1>1, <1>4, <2>2 DEF TakeOffers
    <2> QED BY <2>1, <2>2
  <1>5. ASSUME NEW f \in Financiers, NEW n \in Invoices, Release(f, n) PROVE Secured(m)'
    <2>1. CASE m = n
      <3>1. pledges'[m].status = "RELEASED" /\ lender'[m] = None
        BY <1>5, <2>1 DEF Release, TypeOK, PledgeState
      <3> QED BY <3>1 DEF Secured
    <2>2. CASE m # n
      BY <1>1, <1>5, <2>2 DEF Release, TypeOK
    <2> QED BY <2>1, <2>2
  <1>6. ASSUME NEW s \in Sellers, NEW c \in CertIds, NEW floor \in Floors, NEW t \in Times,
               NEW ns \in Pools, CertifyBorrowingBase(s, c, floor, t, ns)
        PROVE  Secured(m)'
    <2>1. PICK tags \in [Elements(ns) -> UNION {OfferTags(n) : n \in Elements(ns)}],
               es \in [Elements(ns) -> Ephemerals] : LockSlots(ns, tags, es, t)
      BY <1>6 DEF CertifyBorrowingBase
    <2>2. lender'[m] = lender[m]
      BY <1>6 DEF CertifyBorrowingBase
    <2>3. \A n \in Elements(ns) : Free(n)
      BY <1>6 DEF CertifyBorrowingBase
    <2>4. CASE m \in Elements(ns)
      <3>1. pledges'[m].status = "OFFERED"
        BY <2>1, <2>4 DEF LockSlots, Offered, Absent
      <3> QED BY <1>2, <2>2, <2>3, <2>4, <3>1
    <2>5. CASE m \notin Elements(ns)
      BY <1>1, <2>1, <2>2, <2>5 DEF LockSlots
    <2> QED BY <2>4, <2>5
  <1>7. ASSUME NEW d \in Debtors, NEW n \in Invoices, PayInvoice(d, n) PROVE Secured(m)'
    <2>1. CASE m = n
      <3>1. /\ pledges'[m].status = "SETTLED" /\ pledges'[m].payeeTag = PayeeTag(m)
            /\ lender'[m] = lender[m] /\ pledges[m].status # "SETTLED"
        BY <1>7, <2>1 DEF PayInvoice, TypeOK, PledgeState
      <3> QED BY <1>0, <3>1 DEF Secured, PayeeTag
    <2>2. CASE m # n
      BY <1>1, <1>7, <2>2 DEF PayInvoice, TypeOK
    <2> QED BY <2>1, <2>2
  <1>8. ASSUME NEW p, NEW n \in Invoices, NEW tag, Claim(p, n, tag) PROVE Secured(m)'
    <2>1. /\ pledges'[m].status = pledges[m].status
          /\ pledges'[m].holderTag = pledges[m].holderTag
          /\ pledges'[m].payeeTag = pledges[m].payeeTag
          /\ lender' = lender
      BY <1>8 DEF Claim, TypeOK, PledgeState
    <2> QED BY <1>0, <2>1 DEF Secured
  <1>9. ASSUME UNCHANGED <<pledges, lender>> PROVE Secured(m)'
    BY <1>1, <1>9
  <1> QED
    BY <1>3, <1>4, <1>5, <1>6, <1>7, <1>8, <1>9
    DEF Next, vars, AdmitDebtor, AdmitFinancier, Acknowledge, Accept, AcceptBatch,
        ClaimAsHolder, ClaimAsSeller, Tick

-----------------------------------------------------------------------------
(* What is paid in is paid out at most once, to the party it belongs to.   *)

\* Whoever can show the payee tag of a settled receivable is its lender, or its seller when
\* it has none.
LEMMA ClaimantIsPayee ==
    ASSUME TypeOK, LenderIsSecured, NEW p, NEW n \in Invoices, NEW tag, Claim(p, n, tag),
           tag = holderTagOf(p, n) \/ tag = sellerPayeeTagOf(p, n)
    PROVE  p = IF lender[n] # None THEN lender[n] ELSE n.seller
  <1>1. pledges[n].status = "SETTLED" /\ pledges[n].payeeTag = tag
    BY DEF Claim, Claimable
  <1>2. Secured(n)
    BY DEF LenderIsSecured
  <1>3. CASE lender[n] # None
    <2>1. tag = holderTagOf(lender[n], n)
      BY <1>1, <1>2, <1>3 DEF Secured
    <2> QED BY <1>3, <2>1, TagsAreInjective
  <1>4. CASE lender[n] = None
    <2>1. tag = sellerPayeeTagOf(n.seller, n)
      BY <1>1, <1>2, <1>4 DEF Secured
    <2> QED BY <1>4, <2>1, TagsAreInjective
  <1> QED BY <1>3, <1>4

LEMMA ProceedsConservedStep ==
    TypeOK /\ LenderIsSecured /\ ProceedsConserved /\ [Next]_vars => ProceedsConserved'
  <1> SUFFICES ASSUME TypeOK, LenderIsSecured, ProceedsConserved, [Next]_vars,
                      NEW m \in Invoices
               PROVE  Conserved(m)'
    BY DEF ProceedsConserved
  <1>0. Conserved(m) /\ m.amount \in Nat
    BY InvoiceFields DEF ProceedsConserved
  <1> DEFINE SameMoney == received'[m] = received[m] /\ sent'[m] = sent[m] /\ payee'[m] = payee[m]
  <1>1. ASSUME SameMoney, pledges'[m] = pledges[m], lender'[m] = lender[m] PROVE Conserved(m)'
    BY <1>0, <1>1 DEF Conserved
  \* What is neither settled before nor after holds no money before or after.
  <1>2. ASSUME SameMoney, pledges[m].status # "SETTLED", pledges'[m].status # "SETTLED",
               pledges'[m].claimed = FALSE \/ pledges'[m].claimed = pledges[m].claimed
        PROVE  Conserved(m)'
    BY <1>0, <1>2 DEF Conserved
  <1>3. ASSUME NEW s \in Sellers, NEW n \in Invoices, NEW tag \in OfferTags(n), NEW t \in Times,
               NEW e \in Ephemerals, Offer(s, n, tag, t, e)
        PROVE  Conserved(m)'
    <2>1. SameMoney /\ lender'[m] = lender[m]
      BY <1>3 DEF Offer, treasury
    <2>2. CASE m = n
      <3>1. Free(m) /\ pledges'[m] = Offered(tag, t, <<n, e>>)
        BY <1>3, <2>2 DEF Offer, TypeOK
      <3>2. pledges'[m].status = "OFFERED" /\ pledges'[m].claimed = FALSE
        BY <3>1 DEF Offered, Absent
      <3> QED BY <1>2, <2>1, <3>1, <3>2 DEF Free
    <2>3. CASE m # n
      BY <1>1, <1>3, <2>1, <2>3 DEF Offer, TypeOK
    <2> QED BY <2>2, <2>3
  <1>4. ASSUME NEW f \in Financiers, NEW ns, TakeOffers(f, ns) PROVE Conserved(m)'
    <2>1. SameMoney
      BY <1>4 DEF TakeOffers, treasury
    <2>2. CASE m \in Elements(ns)
      <3>1. /\ pledges[m].status = "OFFERED" /\ pledges'[m].status = "PLEDGED"
            /\ pledges'[m].claimed = pledges[m].claimed
        BY <1>4, <2>2 DEF TakeOffers, Takable, TypeOK, PledgeState
      <3> QED BY <1>2, <2>1, <3>1
    <2>3. CASE m \notin Elements(ns)
      BY <1>1, <1>4, <2>1, <2>3 DEF TakeOffers
    <2> QED BY <2>2, <2>3
  <1>5. ASSUME NEW f \in Financiers, NEW n \in Invoices, Release(f, n) PROVE Conserved(m)'
    <2>1. SameMoney
      BY <1>5 DEF Release, treasury
    <2>2. CASE m = n
      <3>1. /\ pledges[m].status = "PLEDGED" /\ pledges'[m].status = "RELEASED"
            /\ pledges'[m].claimed = pledges[m].claimed
        BY <1>5, <2>2 DEF Release, TypeOK, PledgeState
      <3> QED BY <1>2, <2>1, <3>1
    <2>3. CASE m # n
      BY <1>1, <1>5, <2>1, <2>3 DEF Release, TypeOK
    <2> QED BY <2>2, <2>3
  <1>6. ASSUME NEW s \in Sellers, NEW c \in CertIds, NEW floor \in Floors, NEW t \in Times,
               NEW ns \in Pools, CertifyBorrowingBase(s, c, floor, t, ns)
        PROVE  Conserved(m)'
    <2>1. PICK tags \in [Elements(ns) -> UNION {OfferTags(n) : n \in Elements(ns)}],
               es \in [Elements(ns) -> Ephemerals] : LockSlots(ns, tags, es, t)
      BY <1>6 DEF CertifyBorrowingBase
    <2>2. SameMoney /\ lender'[m] = lender[m]
      BY <1>6 DEF CertifyBorrowingBase, treasury
    <2>3. \A n \in Elements(ns) : Free(n)
      BY <1>6 DEF CertifyBorrowingBase
    <2>4. CASE m \in Elements(ns)
      <3>1. pledges'[m].status = "OFFERED" /\ pledges'[m].claimed = FALSE
        BY <2>1, <2>4 DEF LockSlots, Offered, Absent
      <3>2. pledges[m].status # "SETTLED"
        BY <2>3, <2>4 DEF Free
      <3> QED BY <1>2, <2>2, <3>1, <3>2
    <2>5. CASE m \notin Elements(ns)
      BY <1>1, <2>1, <2>2, <2>5 DEF LockSlots
    <2> QED BY <2>4, <2>5
  <1>7. ASSUME NEW d \in Debtors, NEW n \in Invoices, PayInvoice(d, n) PROVE Conserved(m)'
    <2>1. CASE m = n
      <3>1. /\ pledges[m].status # "SETTLED" /\ pledges'[m].status = "SETTLED"
            /\ pledges'[m].amount = m.amount /\ pledges'[m].claimed = FALSE
            /\ received'[m] = received[m] + m.amount /\ sent'[m] = sent[m]
        BY <1>7, <2>1 DEF PayInvoice, TypeOK, PledgeState
      <3>2. received[m] = 0 /\ sent[m] = 0
        BY <1>0, <3>1 DEF Conserved
      <3> QED BY <1>0, <3>1, <3>2 DEF Conserved
    <2>2. CASE m # n
      BY <1>1, <1>7, <2>2 DEF PayInvoice, TypeOK
    <2> QED BY <2>1, <2>2
  <1>8. ASSUME NEW p \in Financiers \cup Sellers, NEW n \in Invoices, NEW tag, Claim(p, n, tag),
               tag = holderTagOf(p, n) \/ tag = sellerPayeeTagOf(p, n)
        PROVE  Conserved(m)'
    <2>1. CASE m = n
      <3>1. /\ pledges[m].status = "SETTLED" /\ pledges[m].claimed # TRUE
            /\ pledges'[m].status = "SETTLED" /\ pledges'[m].claimed = TRUE
            /\ pledges'[m].amount = pledges[m].amount
            /\ received'[m] = received[m] /\ sent'[m] = sent[m] + pledges[m].amount
            /\ payee'[m] = p /\ lender'[m] = lender[m]
        BY <1>8, <2>1 DEF Claim, Claimable, TypeOK, PledgeState
      <3>2. p = IF lender[m] # None THEN lender[m] ELSE m.seller
        BY <1>8, <2>1, ClaimantIsPayee
      <3>3. sent[m] = 0 /\ pledges[m].amount = m.amount /\ received[m] = m.amount
        BY <1>0, <3>1 DEF Conserved
      <3> QED BY <1>0, <3>1, <3>2, <3>3 DEF Conserved
    <2>2. CASE m # n
      BY <1>1, <1>8, <2>2 DEF Claim, TypeOK
    <2> QED BY <2>1, <2>2
  <1>9. ASSUME UNCHANGED <<pledges, lender, treasury>> PROVE Conserved(m)'
    BY <1>1, <1>9 DEF treasury
  <1> QED
    BY <1>3, <1>4, <1>5, <1>6, <1>7, <1>8, <1>9
    DEF Next, vars, AdmitDebtor, AdmitFinancier, Acknowledge, Accept, AcceptBatch,
        ClaimAsHolder, ClaimAsSeller, Tick

-----------------------------------------------------------------------------
(* What one step may do to one marker.  The proofs below go by this lemma  *)
(* instead of going through the circuits again.                            *)

Unmoved(m) == pledges'[m] = pledges[m] /\ lender'[m] = lender[m]

\* Offered, alone or in a pool, and sealed in the same step.
IsOffered(m) ==
    /\ Free(m) /\ m \in acks /\ lender'[m] = lender[m]
    /\ \E tag \in Tags, t \in Times, e \in Ephemerals :
        /\ now < t /\ t <= m.due
        /\ pledges'[m] = Offered(tag, t, <<m, e>>)
        /\ records'[<<m, e>>] = tag

IsTaken(m) ==
    \E f \in Financiers :
        Takable(f, m) /\ pledges'[m] = [pledges[m] EXCEPT !.status = "PLEDGED"] /\ lender'[m] = f

IsReleased(m) ==
    \E f \in Financiers :
        /\ pledges[m].status = "PLEDGED" /\ pledges[m].holderTag = holderTagOf(f, m)
        /\ pledges'[m] = [pledges[m] EXCEPT !.status = "RELEASED"] /\ lender'[m] = None

IsPaid(m) ==
    /\ m \in acks /\ pledges[m].status # "SETTLED" /\ lender'[m] = lender[m]
    /\ pledges'[m] = [pledges[m] EXCEPT !.status = "SETTLED", !.payeeTag = PayeeTag(m),
                                        !.amount = m.amount, !.claimed = FALSE]

IsClaimed(m) ==
    /\ pledges[m].status = "SETTLED" /\ ~pledges[m].claimed /\ lender'[m] = lender[m]
    /\ pledges'[m] = [pledges[m] EXCEPT !.claimed = TRUE]

\* Every step leaves a marker alone or moves it in one of five ways.
LEMMA StepOnMarker ==
    ASSUME TypeOK, [Next]_vars, NEW m \in Invoices
    PROVE  \/ Unmoved(m) \/ IsOffered(m) \/ IsTaken(m)
           \/ IsReleased(m) \/ IsPaid(m) \/ IsClaimed(m)
  <1> DEFINE Goal == \/ Unmoved(m) \/ IsOffered(m) \/ IsTaken(m)
                     \/ IsReleased(m) \/ IsPaid(m) \/ IsClaimed(m)
  <1>1. ASSUME NEW s \in Sellers, NEW n \in Invoices, NEW tag \in OfferTags(n), NEW t \in Times,
               NEW e \in Ephemerals, Offer(s, n, tag, t, e)
        PROVE  Goal
    <2>1. CASE m = n
      <3>1. tag \in Tags /\ <<m, e>> \in RecordIds
        BY <2>1, TagTypes DEF RecordIds
      <3>2. Free(m) /\ m \in acks /\ lender'[m] = lender[m] /\ now < t /\ t <= m.due
        BY <1>1, <2>1 DEF Offer, Offerable
      <3>3. pledges'[m] = Offered(tag, t, <<m, e>>) /\ records'[<<m, e>>] = tag
        BY <1>1, <2>1, <3>1 DEF Offer, SealRecord, TypeOK
      <3> QED BY <2>1, <3>1, <3>2, <3>3 DEF IsOffered
    <2>2. CASE m # n
      BY <1>1, <2>2 DEF Offer, TypeOK, Unmoved
    <2> QED BY <2>1, <2>2
  <1>2. ASSUME NEW f \in Financiers, NEW ns, TakeOffers(f, ns) PROVE Goal
    BY <1>2 DEF TakeOffers, IsTaken, Unmoved
  <1>3. ASSUME NEW f \in Financiers, NEW n \in Invoices, Release(f, n) PROVE Goal
    BY <1>3 DEF Release, IsReleased, Unmoved, TypeOK
  <1>4. ASSUME NEW s \in Sellers, NEW c \in CertIds, NEW floor \in Floors, NEW t \in Times,
               NEW ns \in Pools, CertifyBorrowingBase(s, c, floor, t, ns)
        PROVE  Goal
    <2>0. PICK tags \in [Elements(ns) -> UNION {OfferTags(n) : n \in Elements(ns)}],
               es \in [Elements(ns) -> Ephemerals] : LockSlots(ns, tags, es, t)
      BY <1>4 DEF CertifyBorrowingBase
    <2>1. CASE m \in Elements(ns)
      <3>1. tags[m] \in Tags /\ es[m] \in Ephemerals /\ <<m, es[m]>> \in RecordIds
        BY <2>1, PoolElements, TagTypes DEF RecordIds
      <3>2. Free(m) /\ m \in acks /\ lender'[m] = lender[m] /\ now < t /\ t <= m.due
        BY <1>4, <2>1 DEF CertifyBorrowingBase, CheckSlot
      <3>3. pledges'[m] = Offered(tags[m], t, <<m, es[m]>>) /\ records'[<<m, es[m]>>] = tags[m]
        BY <2>0, <2>1, <3>1 DEF LockSlots
      <3> QED BY <3>1, <3>2, <3>3 DEF IsOffered
    <2>2. CASE m \notin Elements(ns)
      BY <1>4, <2>0, <2>2 DEF CertifyBorrowingBase, LockSlots, Unmoved
    <2> QED BY <2>1, <2>2
  <1>5. ASSUME NEW d \in Debtors, NEW n \in Invoices, PayInvoice(d, n) PROVE Goal
    BY <1>5 DEF PayInvoice, IsPaid, Unmoved, TypeOK
  <1>6. ASSUME NEW p, NEW n \in Invoices, NEW tag, Claim(p, n, tag) PROVE Goal
    BY <1>6 DEF Claim, Claimable, IsClaimed, Unmoved, TypeOK
  <1>7. ASSUME UNCHANGED <<pledges, lender>> PROVE Goal
    BY <1>7 DEF Unmoved
  <1> QED
    BY <1>1, <1>2, <1>3, <1>4, <1>5, <1>6, <1>7
    DEF Next, vars, AdmitDebtor, AdmitFinancier, Acknowledge, Accept, AcceptBatch,
        ClaimAsHolder, ClaimAsSeller, Tick

\* An open offer binds its seller, a pledge binds everybody but its holder, and a settled
\* receivable stays settled: no circuit, called by anybody, moves a marker otherwise.
LEMMA StandsStep == ASSUME TypeOK, [Next]_vars, NEW m \in Invoices PROVE Stands(m)
  <1>0. pledges[m] \in PledgeState
    BY DEF TypeOK
  <1>1. CASE Unmoved(m)
    BY <1>0, <1>1 DEF Unmoved, Stands, Open, PledgeState
  <1>2. CASE IsOffered(m)
    <2>1. Free(m) /\ now \in Nat /\ pledges[m].expiry \in Nat
      BY <1>0, <1>2 DEF IsOffered, TypeOK, Times, PledgeState
    <2>2. ~Open(m) /\ pledges[m].status \notin {"PLEDGED", "SETTLED"}
      BY <2>1 DEF Free, Open
    <2> QED
      BY <2>2 DEF Stands
  <1>3. CASE IsTaken(m)
    BY <1>0, <1>3 DEF IsTaken, Takable, Stands, Open, PledgeState
  <1>4. CASE IsReleased(m)
    BY <1>0, <1>4 DEF IsReleased, Stands, Open, PledgeState
  <1>5. CASE IsPaid(m)
    BY <1>0, <1>5 DEF IsPaid, Stands, Open, PledgeState, PayeeTag
  <1>6. CASE IsClaimed(m)
    BY <1>0, <1>6 DEF IsClaimed, Stands, Open, PledgeState
  <1> QED
    BY <1>1, <1>2, <1>3, <1>4, <1>5, <1>6, StepOnMarker

\* A pledge is taken up by the lender its offer names, and blocks pass while no pledge moves.
LEMMA PledgeMoves ==
    ASSUME TypeOK, [Next]_vars, NEW m \in Invoices
    PROVE  /\ TypeOK'
           /\ now' = now \/ (now' = now + 1 /\ pledges' = pledges)
           /\ pledges[m].status # "PLEDGED" /\ pledges'[m].status = "PLEDGED" =>
                \E f \in Financiers :
                    Takable(f, m) /\ pledges'[m].holderTag = holderTagOf(f, m)
  <1>1. TypeOK'
    BY StepType
  <1>2. now' = now \/ (now' = now + 1 /\ pledges' = pledges)
    BY DEF Next, vars, AdmitDebtor, AdmitFinancier, Acknowledge, Offer, Accept, AcceptBatch,
           TakeOffers, Release, CertifyBorrowingBase, PayInvoice, Claim, ClaimAsHolder,
           ClaimAsSeller, Tick
  <1>3. ASSUME pledges[m].status # "PLEDGED", pledges'[m].status = "PLEDGED"
        PROVE  \E f \in Financiers :
                    Takable(f, m) /\ pledges'[m].holderTag = holderTagOf(f, m)
    <2>0. pledges[m] \in PledgeState
      BY DEF TypeOK
    <2>1. IsTaken(m)
      <3>1. ~Unmoved(m)
        BY <1>3 DEF Unmoved
      <3>2. ~IsOffered(m)
        BY <1>3 DEF IsOffered, Offered, Absent
      <3>3. ~IsReleased(m) /\ ~IsPaid(m) /\ ~IsClaimed(m)
        BY <1>3, <2>0 DEF IsReleased, IsPaid, IsClaimed, PledgeState
      <3> QED BY <3>1, <3>2, <3>3, StepOnMarker
    <2> QED BY <2>0, <2>1 DEF IsTaken, Takable, PledgeState
  <1> QED BY <1>1, <1>2, <1>3

-----------------------------------------------------------------------------
(* The record of a pledge.  A seller may seal one receivable twice under   *)
(* one scalar and replace a record, but only in a step that points the     *)
(* pledge of that receivable to what it sealed.                            *)

\* A record changes only together with the pledge it is sealed for.
LEMMA StepOnRecord ==
    ASSUME TypeOK, [Next]_vars, NEW m \in Invoices, NEW e \in Ephemerals
    PROVE  \/ records'[<<m, e>>] = records[<<m, e>>]
           \/ \E t \in Times : pledges'[m] = Offered(records'[<<m, e>>], t, <<m, e>>)
  <1> DEFINE Goal == \/ records'[<<m, e>>] = records[<<m, e>>]
                     \/ \E t \in Times : pledges'[m] = Offered(records'[<<m, e>>], t, <<m, e>>)
  <1>0. <<m, e>> \in RecordIds
    BY DEF RecordIds
  <1>1. ASSUME NEW s \in Sellers, NEW n \in Invoices, NEW tag \in OfferTags(n), NEW t \in Times,
               NEW x \in Ephemerals, Offer(s, n, tag, t, x)
        PROVE  Goal
    BY <1>0, <1>1 DEF Offer, SealRecord, TypeOK
  <1>2. ASSUME NEW s \in Sellers, NEW c \in CertIds, NEW floor \in Floors, NEW t \in Times,
               NEW ns \in Pools, CertifyBorrowingBase(s, c, floor, t, ns)
        PROVE  Goal
    <2>1. PICK tags \in [Elements(ns) -> UNION {OfferTags(n) : n \in Elements(ns)}],
               es \in [Elements(ns) -> Ephemerals] : LockSlots(ns, tags, es, t)
      BY <1>2 DEF CertifyBorrowingBase
    <2>2. CASE m \in Elements(ns) /\ e = es[m]
      <3>1. records'[<<m, e>>] = tags[m]
        BY <1>0, <2>1, <2>2 DEF LockSlots
      <3>2. pledges'[m] = Offered(tags[m], t, <<m, e>>)
        BY <2>1, <2>2 DEF LockSlots
      <3> QED BY <3>1, <3>2
    <2>3. CASE ~(m \in Elements(ns) /\ e = es[m])
      BY <1>0, <2>1, <2>3 DEF LockSlots
    <2> QED BY <2>2, <2>3
  <1>3. ASSUME UNCHANGED records PROVE Goal
    BY <1>3
  <1> QED
    BY <1>1, <1>2, <1>3
    DEF Next, vars, AdmitDebtor, AdmitFinancier, Acknowledge, Accept, AcceptBatch, TakeOffers,
        Release, PayInvoice, Claim, ClaimAsHolder, ClaimAsSeller, Tick

LEMMA RecordNamesHolderStep ==
    TypeOK /\ RecordNamesHolder /\ [Next]_vars => RecordNamesHolder'
  <1> SUFFICES ASSUME TypeOK, RecordNamesHolder, [Next]_vars,
                      NEW m \in Invoices, pledges'[m].recordId # None
               PROVE  /\ pledges'[m].recordId[1] = m
                      /\ records'[pledges'[m].recordId] = pledges'[m].holderTag
    BY DEF RecordNamesHolder
  <1> DEFINE Goal == /\ pledges'[m].recordId[1] = m
                     /\ records'[pledges'[m].recordId] = pledges'[m].holderTag
  <1>0. pledges[m] \in PledgeState
    BY DEF TypeOK
  <1>1. ASSUME pledges'[m].recordId = pledges[m].recordId,
               pledges'[m].holderTag = pledges[m].holderTag
        PROVE  Goal
    <2>1. pledges[m].recordId \in RecordIds /\ pledges[m].recordId[1] = m
      BY <1>0, <1>1 DEF PledgeState, RecordNamesHolder
    <2>2. PICK e \in Ephemerals : pledges[m].recordId = <<m, e>>
      BY <2>1 DEF RecordIds
    <2>3. records[<<m, e>>] = pledges[m].holderTag
      BY <1>1, <2>2 DEF RecordNamesHolder
    <2>4. CASE records'[<<m, e>>] = records[<<m, e>>]
      BY <1>1, <2>1, <2>2, <2>3, <2>4
    <2>5. CASE \E t \in Times : pledges'[m] = Offered(records'[<<m, e>>], t, <<m, e>>)
      BY <1>1, <2>1, <2>2, <2>5 DEF Offered, Absent
    <2> QED BY <2>4, <2>5, StepOnRecord
  <1>2. CASE IsOffered(m)
    BY <1>2 DEF IsOffered, Offered, Absent
  <1>3. CASE Unmoved(m) \/ IsTaken(m) \/ IsReleased(m) \/ IsPaid(m) \/ IsClaimed(m)
    BY <1>0, <1>1, <1>3 DEF Unmoved, IsTaken, IsReleased, IsPaid, IsClaimed, PledgeState
  <1> QED
    BY <1>2, <1>3, StepOnMarker

-----------------------------------------------------------------------------
(* Certificates.                                                           *)

LEMMA DisjointUnion ==
    ASSUME NEW A, NEW B, IsFiniteSet(A), IsFiniteSet(B), A \cap B = {}
    PROVE  /\ IsFiniteSet(A \cup B)
           /\ Cardinality(A \cup B) = Cardinality(A) + Cardinality(B)
  <1>1. Cardinality(A) \in Nat /\ Cardinality(B) \in Nat
    BY FS_CardinalityType
  <1>2. Cardinality(A \cap B) = 0
    BY FS_EmptySet
  <1>3. /\ IsFiniteSet(A \cup B)
        /\ Cardinality(A \cup B) = Cardinality(A) + Cardinality(B) - Cardinality(A \cap B)
    BY FS_Union
  <1> QED BY <1>1, <1>2, <1>3

\* Distinct slots of a pool are worth together what the circuit adds up.
LEMMA FaceValueOfPool ==
    ASSUME NEW ns \in Pools, Distinct(ns)
    PROVE  FaceValue(Elements(ns)) = PoolTotal(ns)
  <1> DEFINE Units(i) == IF i \in DOMAIN ns THEN {ns[i]} \X (1..ns[i].amount) ELSE {}
  <1>1. DOMAIN ns \subseteq {1, 2, 3, 4} /\ \A i \in DOMAIN ns : ns[i] \in Invoices
    <2>1. PICK k \in 0..PoolWidth : ns \in [1..k -> Invoices]
      BY DEF Pools
    <2>2. k \in Nat /\ k <= 4
      BY RegistryAssumption DEF RegistryAssumption
    <2> QED BY <2>1, <2>2
  <1>2. ASSUME NEW i
        PROVE  /\ IsFiniteSet(Units(i)) /\ Cardinality(Units(i)) = SlotAmount(ns, i)
               /\ SlotAmount(ns, i) \in Nat
    <2>1. CASE i \in DOMAIN ns
      <3>1. ns[i] \in Invoices /\ ns[i].amount \in Nat
        BY <1>1, <2>1, InvoiceFields
      <3>2. IsFiniteSet({ns[i]}) /\ Cardinality({ns[i]}) = 1
        BY FS_Singleton
      <3>3. IsFiniteSet(1..ns[i].amount) /\ Cardinality(1..ns[i].amount) = ns[i].amount
        <4> DEFINE a == ns[i].amount
        <4>1. a \in Nat
          BY <3>1
        <4> HIDE DEF a
        <4>2. /\ IsFiniteSet(1..a)
              /\ Cardinality(1..a) = IF 1 > a THEN 0 ELSE a - 1 + 1
          BY <4>1, FS_Interval
        <4>3. IsFiniteSet(1..a) /\ Cardinality(1..a) = a
          BY <4>1, <4>2
        <4> QED BY <4>3 DEF a
      <3>4. /\ IsFiniteSet({ns[i]} \X (1..ns[i].amount))
            /\ Cardinality({ns[i]} \X (1..ns[i].amount)) = 1 * ns[i].amount
        BY <3>2, <3>3, FS_Product
      <3> QED BY <2>1, <3>1, <3>4 DEF SlotAmount
    <2>2. CASE i \notin DOMAIN ns
      BY <2>2, FS_EmptySet DEF SlotAmount
    <2> QED BY <2>1, <2>2
  <1>3. ASSUME NEW i, NEW j, i # j PROVE Units(i) \cap Units(j) = {}
    BY <1>3 DEF Distinct
  <1>4. UNION {{n} \X (1..n.amount) : n \in Elements(ns)}
        = ((Units(1) \cup Units(2)) \cup Units(3)) \cup Units(4)
    <2>1. UNION {{n} \X (1..n.amount) : n \in Elements(ns)} = UNION {Units(i) : i \in DOMAIN ns}
      BY DEF Elements
    <2> QED BY <1>1, <2>1
  <1> HIDE DEF Units
  <1> DEFINE A == Units(1) \cup Units(2)
             B == A \cup Units(3)
  <1>5. IsFiniteSet(A) /\ Cardinality(A) = SlotAmount(ns, 1) + SlotAmount(ns, 2)
    BY <1>2, <1>3, DisjointUnion
  <1>6. A \cap Units(3) = {} /\ B \cap Units(4) = {}
    BY <1>3
  <1> HIDE DEF A
  <1>7. /\ IsFiniteSet(B)
        /\ Cardinality(B) = Cardinality(A) + SlotAmount(ns, 3)
    BY <1>2, <1>5, <1>6, DisjointUnion
  <1> HIDE DEF B
  <1>8. Cardinality(B \cup Units(4)) = Cardinality(B) + SlotAmount(ns, 4)
    BY <1>2, <1>6, <1>7, DisjointUnion
  <1>9. FaceValue(Elements(ns)) = Cardinality(B \cup Units(4))
    BY <1>4 DEF FaceValue, A, B
  <1> QED
    BY <1>2, <1>5, <1>7, <1>8, <1>9 DEF PoolTotal

\* A pool of distinct acknowledged invoices stands for as many debts as it has slots.
LEMMA PoolOfDebts ==
    ASSUME NEW ns \in Pools, Distinct(ns), AcknowledgedOnce, Elements(ns) \subseteq acks
    PROVE  Cardinality({ackNullifierOf(n) : n \in Elements(ns)}) = Len(ns)
  <1> DEFINE D == {ackNullifierOf(n) : n \in Elements(ns)}
             f == [i \in 1..Len(ns) |-> ackNullifierOf(ns[i])]
  <1>1. Len(ns) \in Nat /\ DOMAIN ns = 1..Len(ns)
    BY RegistryAssumption DEF RegistryAssumption, Pools
  <1>2. f \in [1..Len(ns) -> D]
    BY <1>1 DEF Elements
  <1>3. \A i, j \in 1..Len(ns) : f[i] = f[j] => i = j
    BY <1>1 DEF Elements, Distinct, AcknowledgedOnce
  <1>4. \A d \in D : \E i \in 1..Len(ns) : f[i] = d
    BY <1>1 DEF Elements
  <1>5. f \in Bijection(1..Len(ns), D)
    BY <1>2, <1>3, <1>4 DEF Bijection, Injection, Surjection, IsInjective
  <1> QED
    BY <1>1, <1>5, FS_CountingElements DEF ExistsBijection

\* A certificate is backed by what was acknowledged when it was made, and stays as it is.
LEMMA CertificateBackedStep ==
    TypeOK /\ AcknowledgedOnce /\ CertificateBacked /\ [Next]_vars => CertificateBacked'
  <1> DEFINE Backed(c) ==
        LET cert == certificates[c]
            covered == Elements(cert.slots) IN
        /\ \A n \in covered : n.seller = cert.borrower /\ n \in acks /\ cert.validUntil <= n.due
        /\ Cardinality({ackNullifierOf(n) : n \in covered}) = Len(cert.slots)
        /\ FaceValue(covered) >= cert.floor
  <1> SUFFICES ASSUME TypeOK, AcknowledgedOnce, CertificateBacked, [Next]_vars,
                      NEW k \in CertIds, certificates'[k] # None
               PROVE  Backed(k)'
    BY DEF CertificateBacked
  <1>0. acks \subseteq acks'
    BY AcknowledgedOnceStep
  <1>1. ASSUME certificates'[k] = certificates[k] PROVE Backed(k)'
    BY <1>0, <1>1 DEF CertificateBacked
  <1>2. ASSUME NEW s \in Sellers, NEW c \in CertIds, NEW floor \in Floors, NEW t \in Times,
               NEW ns \in Pools, CertifyBorrowingBase(s, c, floor, t, ns)
        PROVE  Backed(k)'
    <2>1. CASE k = c
      <3>1. certificates'[k] = [borrower |-> s, floor |-> floor, validUntil |-> t, slots |-> ns]
        BY <1>2, <2>1 DEF CertifyBorrowingBase, TypeOK
      <3>2. \A n \in Elements(ns) : n.seller = s /\ n \in acks /\ t <= n.due
        BY <1>2 DEF CertifyBorrowingBase, CheckSlot
      <3>3. Cardinality({ackNullifierOf(n) : n \in Elements(ns)}) = Len(ns)
        BY <1>2, <3>2, PoolOfDebts DEF CertifyBorrowingBase
      <3>4. FaceValue(Elements(ns)) >= floor
        BY <1>2, FaceValueOfPool DEF CertifyBorrowingBase
      <3> QED BY <1>0, <3>1, <3>2, <3>3, <3>4
    <2>2. CASE k # c
      BY <1>1, <1>2, <2>2 DEF CertifyBorrowingBase, TypeOK
    <2> QED BY <2>1, <2>2
  <1>3. ASSUME UNCHANGED certificates PROVE Backed(k)'
    BY <1>1, <1>3
  <1> HIDE DEF Backed
  <1> QED
    BY <1>2, <1>3
    DEF Next, vars, AdmitDebtor, AdmitFinancier, Acknowledge, Offer, Accept, AcceptBatch,
        TakeOffers, Release, PayInvoice, Claim, ClaimAsHolder, ClaimAsSeller, Tick

-----------------------------------------------------------------------------
(* The inductive invariant and what follows from it.                       *)

RegistryInv ==
    /\ TypeOK /\ AcknowledgedOnce /\ AbsentIsBlank /\ PledgesAreAcknowledged
    /\ LenderIsSecured /\ ProceedsConserved /\ RecordNamesHolder /\ CertificateBacked

LEMMA RegistryInvInit == Init => RegistryInv
  <1> SUFFICES ASSUME Init PROVE RegistryInv
    OBVIOUS
  <1>1. TypeOK
    BY InitType
  <1>2. AcknowledgedOnce
    BY DEF Init, NothingPledged, AcknowledgedOnce
  <1>3. \A n \in Invoices : pledges[n] = Absent /\ lender[n] = None
                            /\ received[n] = 0 /\ sent[n] = 0
    BY DEF Init, NothingPledged
  <1>4. Absent.status = "ABSENT" /\ Absent.claimed = FALSE
    BY DEF Absent
  <1>5. AbsentIsBlank /\ PledgesAreAcknowledged
    BY <1>3, <1>4 DEF AbsentIsBlank, PledgesAreAcknowledged
  <1>6. LenderIsSecured
    BY <1>3, <1>4 DEF LenderIsSecured, Secured
  <1>7. ProceedsConserved
    BY <1>3, <1>4 DEF ProceedsConserved, Conserved
  <1>8. RecordNamesHolder /\ CertificateBacked
    BY <1>3 DEF Init, NothingPledged, Absent, RecordNamesHolder, CertificateBacked
  <1> QED
    BY <1>1, <1>2, <1>5, <1>6, <1>7, <1>8 DEF RegistryInv

LEMMA RegistryInvStep == RegistryInv /\ [Next]_vars => RegistryInv'
  BY StepType, AcknowledgedOnceStep, AbsentIsBlankStep, PledgesAreAcknowledgedStep,
     LenderIsSecuredStep, ProceedsConservedStep, RecordNamesHolderStep,
     CertificateBackedStep DEF RegistryInv

LEMMA RegistryInvariant == Spec => []RegistryInv
  BY RegistryInvInit, RegistryInvStep, PTL DEF Spec

\* However invoices are reissued, at most one of those that state one debt is ever offered,
\* pledged or paid.
THEOREM NoDoubleFinancing == Spec => []OneFinancingPerDebt
  <1>1. RegistryInv => OneFinancingPerDebt
    BY DEF RegistryInv, AcknowledgedOnce, PledgesAreAcknowledged, OneFinancingPerDebt
  <1> QED BY <1>1, RegistryInvariant, PTL

\* Nothing stands on the ledger for an unacknowledged invoice, or past its due date.
THEOREM OnlyAcknowledgedDebts == Spec => []PledgesAreAcknowledged
  <1>1. RegistryInv => PledgesAreAcknowledged
    BY DEF RegistryInv
  <1> QED BY <1>1, RegistryInvariant, PTL

\* The financier that took a receivable up is its holder while it is pledged and its payee
\* once it is paid, until it releases it.
THEOREM LenderStaysSecured == Spec => []LenderIsSecured
  <1>1. RegistryInv => LenderIsSecured
    BY DEF RegistryInv
  <1> QED BY <1>1, RegistryInvariant, PTL

\* Proceeds come in once, leave at most once, at face amount, to the lender or else the seller.
THEOREM ProceedsPaidOnce == Spec => []ProceedsConserved
  <1>1. RegistryInv => ProceedsConserved
    BY DEF RegistryInv
  <1> QED BY <1>1, RegistryInvariant, PTL

\* Opening the record a pledge points to shows the holder the pledge is bound to, whatever
\* scalars the seller drew and however often it sealed the receivable again.
THEOREM RecordsNameTheirHolder == Spec => []RecordNamesHolder
  <1>1. RegistryInv => RecordNamesHolder
    BY DEF RegistryInv
  <1> QED BY <1>1, RegistryInvariant, PTL

\* A certificate on the ledger covers as many different debts as it has slots, all
\* acknowledged, all its borrower's, none due before it ends, worth its floor together.
THEOREM CertificatesAreBacked == Spec => []CertificateBacked
  <1>1. RegistryInv => CertificateBacked
    BY DEF RegistryInv
  <1> QED BY <1>1, RegistryInvariant, PTL

\* Nobody moves an open offer but by taking it up or paying, a pledge but by its holder's
\* release or by payment to that holder, or a settled receivable at all.
THEOREM EncumbrancesStand == Spec => EncumbranceStands
  <1>1. RegistryInv /\ [Next]_vars => [\A n \in Invoices : Stands(n)]_vars
    BY StandsStep DEF RegistryInv
  <1> QED BY <1>1, RegistryInvariant, PTL DEF Spec, EncumbranceStands

-----------------------------------------------------------------------------
(* Registry implements Receivables, step by step and for every value of    *)
(* the constants.  The acknowledged invoices state different debts, so the *)
(* deal of a debt is what its one acknowledged invoice says; every circuit *)
(* then moves the deals of the invoices it names, as one abstract action.  *)

NoDeal == [stage |-> "free", party |-> None]

\* The deal of a debt, told by the acknowledged invoices instead of by a choice.
DealsOfAcks ==
    /\ DOMAIN DealOnLedger = Debts
    /\ \A n \in acks : DealOnLedger[ackNullifierOf(n)] = DealOf(n)
    /\ \A r \in Debts : (\A n \in acks : ackNullifierOf(n) # r) => DealOnLedger[r] = NoDeal

LEMMA DealIsOfAcks == RegistryInv => DealsOfAcks
  <1> SUFFICES ASSUME RegistryInv PROVE DealsOfAcks
    OBVIOUS
  <1> USE DEF RegistryInv
  <1>1. acks \subseteq Invoices
    BY DEF TypeOK
  <1>2. \A n \in acks : Standing(ackNullifierOf(n)) \subseteq {n}
    BY DEF Standing, PledgesAreAcknowledged, AcknowledgedOnce
  <1>3. ASSUME NEW n \in acks PROVE DealOnLedger[ackNullifierOf(n)] = DealOf(n)
    <2>1. ackNullifierOf(n) \in Debts
      BY <1>1 DEF Debts
    <2>2. CASE Standing(ackNullifierOf(n)) = {}
      <3>1. pledges[n].status = "ABSENT"
        BY <1>1, <2>2 DEF Standing
      <3> QED BY <2>1, <2>2, <3>1 DEF DealOnLedger, DealOf
    <2>3. CASE Standing(ackNullifierOf(n)) = {n}
      <3>1. (CHOOSE x \in {n} : TRUE) = n
        OBVIOUS
      <3> QED BY <2>1, <2>3, <3>1 DEF DealOnLedger
    <2> QED BY <1>2, <2>2, <2>3
  <1>4. ASSUME NEW r \in Debts, \A n \in acks : ackNullifierOf(n) # r
        PROVE  DealOnLedger[r] = NoDeal
    <2>1. Standing(r) = {}
      BY <1>4 DEF Standing, PledgesAreAcknowledged
    <2> QED BY <2>1 DEF DealOnLedger, NoDeal
  <1> QED BY <1>3, <1>4 DEF DealsOfAcks, DealOnLedger

\* The same, one step later.
LEMMA DealIsOfAcksNext == RegistryInv' => DealsOfAcks'
  BY DealIsOfAcks, PTL

-----------------------------------------------------------------------------
(* What stays.                                                             *)

DebtsOf(S) == {ackNullifierOf(n) : n \in S}

\* Only the debts of the invoices a step moves have another deal after it.
LEMMA OthersKeepTheirDeal ==
    ASSUME RegistryInv, RegistryInv', acks' = acks, now' = now, NEW S \in SUBSET acks,
           \A n \in acks \ S : pledges'[n] = pledges[n]
    PROVE  /\ \A r \in Debts \ DebtsOf(S) : DealOnLedger'[r] = DealOnLedger[r]
           /\ DOMAIN DealOnLedger' = Debts
           /\ DebtsOf(S) \subseteq Debts
  <1>1. DealsOfAcks /\ DealsOfAcks'
    BY DealIsOfAcks, DealIsOfAcksNext
  <1>2. DOMAIN DealOnLedger' = Debts /\ DebtsOf(S) \subseteq Debts
    BY <1>1 DEF DealsOfAcks, RegistryInv, TypeOK, DebtsOf, Debts
  <1>3. ASSUME NEW r \in Debts \ DebtsOf(S) PROVE DealOnLedger'[r] = DealOnLedger[r]
    <2>1. CASE \A n \in acks : ackNullifierOf(n) # r
      BY <1>1, <2>1 DEF DealsOfAcks, NoDeal
    <2>2. ASSUME NEW n \in acks, ackNullifierOf(n) = r PROVE DealOnLedger'[r] = DealOnLedger[r]
      <3>1. n \notin S
        BY <2>2 DEF DebtsOf
      <3>2. pledges'[n] = pledges[n]
        BY <3>1
      <3>3. DealOf(n)' = DealOf(n)
        BY <3>2 DEF DealOf
      <3> QED BY <1>1, <2>2, <3>3 DEF DealsOfAcks
    <2> QED BY <2>1, <2>2
  <1> QED BY <1>2, <1>3

LEMMA OthersKeepTheirDealOfOne ==
    ASSUME RegistryInv, RegistryInv', acks' = acks, now' = now, NEW n \in acks,
           \A m \in acks \ {n} : pledges'[m] = pledges[m]
    PROVE  /\ \A r \in Debts \ {ackNullifierOf(n)} : DealOnLedger'[r] = DealOnLedger[r]
           /\ DOMAIN DealOnLedger' = Debts
  <1>1. {n} \in SUBSET acks /\ DebtsOf({n}) = {ackNullifierOf(n)}
    BY DEF DebtsOf
  <1> QED BY <1>1, OthersKeepTheirDeal

\* Receivables counts its batches with the same cardinality.
LEMMA SameCardinality == ASSUME NEW S PROVE Abstract!Cardinality(S) = Cardinality(S)
  BY DEF Abstract!Cardinality, Cardinality

\* A pool lists no more debts than the abstract registry moves together.
LEMMA PoolIsABatch ==
    ASSUME NEW ns \in Pools, ns # <<>>
    PROVE  DebtsOf(Elements(ns)) \in Abstract!Batches
  <1> DEFINE D == DebtsOf(Elements(ns))
             f == [i \in 1..Len(ns) |-> ackNullifierOf(ns[i])]
  <1>1. Len(ns) \in Nat /\ Len(ns) <= PoolWidth /\ DOMAIN ns = 1..Len(ns)
    BY RegistryAssumption DEF RegistryAssumption, Pools
  <1>2. f \in Surjection(1..Len(ns), D)
    BY <1>1 DEF Surjection, Elements, DebtsOf
  <1>3. IsFiniteSet(1..Len(ns)) /\ Cardinality(1..Len(ns)) = Len(ns)
    <2> DEFINE k == Len(ns)
    <2>1. k \in Nat
      BY <1>1
    <2> HIDE DEF k
    <2>2. IsFiniteSet(1..k) /\ Cardinality(1..k) = IF 1 > k THEN 0 ELSE k - 1 + 1
      BY <2>1, FS_Interval
    <2>3. IsFiniteSet(1..k) /\ Cardinality(1..k) = k
      BY <2>1, <2>2
    <2> QED BY <2>3 DEF k
  <1>4. IsFiniteSet(D) /\ Cardinality(D) <= Len(ns)
    BY <1>2, <1>3, FS_Surjection
  <1>5. Cardinality(D) \in Nat
    BY <1>4, FS_CardinalityType
  <1>6. D # {} /\ D \subseteq Debts
    <2>1. Len(ns) # 0
      BY <1>1 DEF Pools
    <2>2. ns[1] \in Elements(ns)
      BY <1>1, <2>1 DEF Elements
    <2> QED BY <2>2, PoolElements DEF DebtsOf, Debts
  <1> QED
    BY <1>1, <1>4, <1>5, <1>6, SameCardinality, RegistryAssumption
    DEF RegistryAssumption, Abstract!Batches

LEMMA OneIsABatch == ASSUME NEW n \in Invoices PROVE {ackNullifierOf(n)} \in Abstract!Batches
  <1>1. Cardinality({ackNullifierOf(n)}) = 1
    BY FS_Singleton
  <1> QED
    BY <1>1, SameCardinality, RegistryAssumption DEF RegistryAssumption, Abstract!Batches, Debts

-----------------------------------------------------------------------------
(* One circuit, one abstract action.                                       *)

\* Whatever free receivables a step offers, with their seals, were free to the abstract
\* registry and are offered there, to the addressee or to nobody.
LEMMA OfferingProposes ==
    ASSUME RegistryInv, RegistryInv', acks' = acks, now' = now, NEW S \in SUBSET acks,
           \A n \in S : IsOffered(n),
           \A n \in acks \ S : pledges'[n] = pledges[n],
           DebtsOf(S) \in Abstract!Batches
    PROVE  Abstract!AbstractNext
  <1>1. DealsOfAcks /\ DealsOfAcks'
    BY DealIsOfAcks, DealIsOfAcksNext
  <1>2. ASSUME NEW n \in S
        PROVE  /\ DealOnLedger[ackNullifierOf(n)].stage = "free"
               /\ DealOnLedger'[ackNullifierOf(n)]
                   \in {[stage |-> "offered", party |-> f] : f \in Financiers \cup {None}}
    <2>1. DealOf(n).stage = "free"
      BY <1>2 DEF IsOffered, Free, DealOf, RegistryInv, TypeOK, Times, PledgeState
    <2>2. PICK tag, t, rid :
            now < t /\ pledges'[n].status = "OFFERED" /\ pledges'[n].holderTag = tag
            /\ pledges'[n].expiry = t
      BY <1>2 DEF IsOffered, Offered, Absent
    <2>3. DealOf(n)' = [stage |-> "offered", party |-> TagOwner(tag, n)]
      BY <2>2 DEF DealOf
    <2>4. TagOwner(tag, n) \in Financiers \cup {None}
      BY DEF TagOwner, holderTagOf
    <2> QED BY <1>1, <2>1, <2>3, <2>4 DEF DealsOfAcks
  <1>3. Abstract!Propose(DebtsOf(S))
    <2>1. \A r \in DebtsOf(S) : DealOnLedger[r].stage = "free"
      BY <1>2 DEF DebtsOf
    <2>2. \A r \in DebtsOf(S) : DealOnLedger'[r]
            \in {[stage |-> "offered", party |-> f] : f \in Financiers \cup {None}}
      BY <1>2 DEF DebtsOf
    <2> QED
      BY <2>1, <2>2, OthersKeepTheirDeal DEF Abstract!Propose, Abstract!Move
  <1> QED BY <1>3 DEF Abstract!AbstractNext

LEMMA TakingFinances ==
    ASSUME RegistryInv, RegistryInv', NEW f \in Financiers, NEW ns \in Pools, ns # <<>>,
           TakeOffers(f, ns)
    PROVE  Abstract!AbstractNext
  <1> DEFINE S == Elements(ns)
  <1>1. DealsOfAcks /\ DealsOfAcks'
    BY DealIsOfAcks, DealIsOfAcksNext
  <1>2. acks' = acks /\ now' = now
    BY DEF TakeOffers, acknowledgments
  <1>3. S \subseteq acks
    BY PoolElements DEF TakeOffers, Takable, RegistryInv, PledgesAreAcknowledged
  <1>4. \A n \in acks \ S : pledges'[n] = pledges[n]
    BY DEF TakeOffers, RegistryInv, TypeOK
  <1>5. ASSUME NEW n \in S
        PROVE  /\ DealOnLedger[ackNullifierOf(n)] = [stage |-> "offered", party |-> f]
               /\ DealOnLedger'[ackNullifierOf(n)] = [stage |-> "financed", party |-> f]
    <2>1. TagOwner(holderTagOf(f, n), n) = f
      BY DEF TagOwner, holderTagOf
    <2>2. /\ pledges[n].status = "OFFERED" /\ now < pledges[n].expiry
          /\ pledges[n].holderTag = holderTagOf(f, n)
      BY DEF TakeOffers, Takable
    <2>3. n \in Invoices /\ pledges[n] \in PledgeState
      BY <1>3 DEF RegistryInv, TypeOK
    <2>4. pledges'[n].status = "PLEDGED" /\ pledges'[n].holderTag = holderTagOf(f, n)
      BY <2>2, <2>3 DEF TakeOffers, PledgeState
    <2>5. DealOf(n) = [stage |-> "offered", party |-> f]
      BY <2>1, <2>2 DEF DealOf
    <2>6. DealOf(n)' = [stage |-> "financed", party |-> f]
      BY <2>1, <2>4 DEF DealOf
    <2> QED BY <1>1, <1>2, <1>3, <2>5, <2>6 DEF DealsOfAcks
  <1>6. Abstract!Finance(f, DebtsOf(S))
    <2>1. \A r \in DebtsOf(S) :
            /\ DealOnLedger[r] = [stage |-> "offered", party |-> f]
            /\ DealOnLedger'[r] = [stage |-> "financed", party |-> f]
      BY <1>5 DEF DebtsOf
    <2> QED
      BY <1>2, <1>3, <1>4, <2>1, OthersKeepTheirDeal DEF Abstract!Finance, Abstract!Move
  <1> QED
    BY <1>6, PoolIsABatch DEF Abstract!AbstractNext

LEMMA ReleaseDischarges ==
    ASSUME RegistryInv, RegistryInv', NEW f \in Financiers, NEW n \in Invoices, Release(f, n)
    PROVE  Abstract!AbstractNext
  <1> DEFINE r == ackNullifierOf(n)
  <1>1. DealsOfAcks /\ DealsOfAcks'
    BY DealIsOfAcks, DealIsOfAcksNext
  <1>2. acks' = acks /\ now' = now /\ n \in acks
    BY DEF Release, acknowledgments, RegistryInv, PledgesAreAcknowledged
  <1>3. \A m \in acks \ {n} : pledges'[m] = pledges[m]
    BY DEF Release, RegistryInv, TypeOK
  <1>4. DealOf(n).stage = "financed"
    BY DEF Release, DealOf
  <1>5. DealOf(n)' = NoDeal
    <2>1. pledges'[n].status = "RELEASED"
      BY DEF Release, RegistryInv, TypeOK, PledgeState
    <2> QED BY <2>1 DEF DealOf, NoDeal
  <1>6. Abstract!Discharge(r)
    <2>1. DealOnLedger[r].stage = "financed" /\ DealOnLedger'[r] = NoDeal
      BY <1>1, <1>2, <1>4, <1>5 DEF DealsOfAcks
    <2> QED
      BY <1>2, <1>3, <2>1, OthersKeepTheirDealOfOne
      DEF Abstract!Discharge, Abstract!Move, Abstract!Free, NoDeal
  <1> QED BY <1>6 DEF Abstract!AbstractNext, Debts

LEMMA PaymentPays ==
    ASSUME RegistryInv, RegistryInv', NEW d \in Debtors, NEW n \in Invoices, PayInvoice(d, n)
    PROVE  Abstract!AbstractNext
  <1> DEFINE r == ackNullifierOf(n)
             owed == IF DealOf(n).stage = "financed" THEN DealOf(n).party ELSE n.seller
  <1>1. DealsOfAcks /\ DealsOfAcks'
    BY DealIsOfAcks, DealIsOfAcksNext
  <1>2. acks' = acks /\ now' = now /\ n \in acks
    BY DEF PayInvoice, acknowledgments
  <1>3. \A m \in acks \ {n} : pledges'[m] = pledges[m]
    BY DEF PayInvoice, RegistryInv, TypeOK
  <1>4. DealOf(n).stage \in {"free", "offered", "financed"}
    BY DEF PayInvoice, DealOf
  <1>5. PayeeTag(n)[2] = owed
    <2>1. CASE pledges[n].status = "PLEDGED"
      <3>1. lender[n] \in Financiers /\ pledges[n].holderTag = holderTagOf(lender[n], n)
        BY <2>1 DEF RegistryInv, TypeOK, LenderIsSecured, Secured
      <3>2. DealOf(n) = [stage |-> "financed", party |-> lender[n]]
        BY <2>1, <3>1 DEF DealOf, TagOwner, holderTagOf
      <3> QED BY <2>1, <3>1, <3>2 DEF PayeeTag, holderTagOf
    <2>2. CASE pledges[n].status # "PLEDGED"
      <3>1. DealOf(n).stage # "financed"
        BY <2>2 DEF DealOf
      <3> QED BY <2>2, <3>1 DEF PayeeTag, sellerPayeeTagOf
    <2> QED BY <2>1, <2>2
  <1>6. DealOf(n)' = [stage |-> "paid", party |-> owed]
    <2>1. /\ pledges'[n].status = "SETTLED" /\ pledges'[n].payeeTag = PayeeTag(n)
          /\ pledges'[n].claimed = FALSE
      BY DEF PayInvoice, RegistryInv, TypeOK, PledgeState
    <2> QED BY <1>5, <2>1 DEF DealOf
  <1>7. r[2] = n.seller /\ r \in Debts
    BY DEF ackNullifierOf, Debts
  <1>8. Abstract!Pay(r)
    <2>1. /\ DealOnLedger[r].stage \in {"free", "offered", "financed"}
          /\ DealOnLedger'[r] = [stage |-> "paid",
                                 party |-> IF DealOnLedger[r].stage = "financed"
                                           THEN DealOnLedger[r].party ELSE r[2]]
      BY <1>1, <1>2, <1>4, <1>6, <1>7 DEF DealsOfAcks
    <2> QED
      BY <1>2, <1>3, <1>7, <2>1, OthersKeepTheirDealOfOne DEF Abstract!Pay, Abstract!Move
  <1> QED BY <1>7, <1>8 DEF Abstract!AbstractNext

LEMMA ClaimDisburses ==
    ASSUME RegistryInv, RegistryInv', NEW p, NEW n \in Invoices, NEW tag, Claim(p, n, tag)
    PROVE  Abstract!AbstractNext
  <1> DEFINE r == ackNullifierOf(n)
  <1>1. DealsOfAcks /\ DealsOfAcks'
    BY DealIsOfAcks, DealIsOfAcksNext
  <1>2. acks' = acks /\ now' = now /\ n \in acks
    BY DEF Claim, Claimable, acknowledgments, RegistryInv, PledgesAreAcknowledged
  <1>3. \A m \in acks \ {n} : pledges'[m] = pledges[m]
    BY DEF Claim, RegistryInv, TypeOK
  <1>4. DealOf(n) = [stage |-> "paid", party |-> tag[2]]
    BY DEF Claim, Claimable, DealOf
  <1>5. DealOf(n)' = [stage |-> "disbursed", party |-> tag[2]]
    <2>1. /\ pledges'[n].status = "SETTLED" /\ pledges'[n].payeeTag = tag
          /\ pledges'[n].claimed = TRUE
      BY DEF Claim, Claimable, RegistryInv, TypeOK, PledgeState
    <2> QED BY <2>1 DEF DealOf
  <1>6. r \in Debts
    BY DEF Debts
  <1>7. Abstract!Disburse(r)
    <2>1. /\ DealOnLedger[r] = [stage |-> "paid", party |-> tag[2]]
          /\ DealOnLedger'[r] = [stage |-> "disbursed", party |-> tag[2]]
      BY <1>1, <1>2, <1>4, <1>5 DEF DealsOfAcks
    <2> QED
      BY <1>2, <1>3, <2>1, OthersKeepTheirDealOfOne DEF Abstract!Disburse, Abstract!Move
  <1> QED BY <1>6, <1>7 DEF Abstract!AbstractNext

\* Time only lets offers lapse.
LEMMA TickLapses ==
    ASSUME RegistryInv, RegistryInv', Tick PROVE Abstract!AbstractNext
  <1> DEFINE R == {r \in Debts : DealOnLedger'[r] # DealOnLedger[r]}
  <1>1. DealsOfAcks /\ DealsOfAcks'
    BY DealIsOfAcks, DealIsOfAcksNext
  <1>2. acks' = acks /\ pledges' = pledges /\ now' = now + 1 /\ now \in Nat
    BY DEF Tick, acknowledgments, RegistryInv, TypeOK, Times
  <1>3. ASSUME NEW r \in R
        PROVE  DealOnLedger[r].stage = "offered" /\ DealOnLedger'[r] = NoDeal
    <2>1. PICK n \in acks : ackNullifierOf(n) = r
      BY <1>1, <1>2 DEF DealsOfAcks, NoDeal
    <2>2. DealOnLedger[r] = DealOf(n) /\ DealOnLedger'[r] = DealOf(n)'
      BY <1>1, <1>2, <2>1 DEF DealsOfAcks
    <2>3. CASE pledges[n].status = "OFFERED" /\ now < pledges[n].expiry
      <3>1. DealOf(n) = [stage |-> "offered", party |-> TagOwner(pledges[n].holderTag, n)]
        BY <2>3 DEF DealOf
      <3>2. DealOf(n)' = IF now' < pledges[n].expiry THEN DealOf(n) ELSE NoDeal
        BY <1>2, <2>3, <3>1 DEF DealOf, NoDeal, TagOwner
      <3> QED BY <2>2, <3>1, <3>2
    <2>4. CASE ~(pledges[n].status = "OFFERED" /\ now < pledges[n].expiry)
      <3>1. ~(pledges[n].status = "OFFERED" /\ now' < pledges[n].expiry)
        BY <1>2, <2>1, <2>4 DEF RegistryInv, TypeOK, PledgeState, Times
      <3>2. DealOf(n)' = DealOf(n)
        BY <1>2, <2>4, <3>1 DEF DealOf, TagOwner
      <3> QED BY <2>2, <3>2
    <2> QED BY <2>3, <2>4
  <1>4. Abstract!Lapse(R)
    BY <1>1, <1>3 DEF Abstract!Lapse, Abstract!Move, Abstract!Free, NoDeal, DealsOfAcks
  <1> QED BY <1>4 DEF Abstract!AbstractNext

-----------------------------------------------------------------------------
(* Every step of the registry is a step of the abstract one, or none.      *)

LEMMA InitMapsToInit == Init => Abstract!AbstractInit
  <1> SUFFICES ASSUME Init PROVE Abstract!AbstractInit
    OBVIOUS
  <1>1. \A n \in Invoices : pledges[n].status = "ABSENT"
    BY DEF Init, NothingPledged, Absent
  <1>2. \A r \in Debts : Standing(r) = {}
    BY <1>1 DEF Standing
  <1> QED
    BY <1>2 DEF DealOnLedger, Abstract!AbstractInit, Abstract!Free

\* What moves neither a pledge nor the clock moves no deal.
LEMMA NoDealMoves ==
    ASSUME UNCHANGED <<pledges, now>> PROVE UNCHANGED DealOnLedger
  BY DEF DealOnLedger, Standing, DealOf, TagOwner

LEMMA StepMapsToStep ==
    RegistryInv /\ RegistryInv' /\ [Next]_vars => [Abstract!AbstractNext]_DealOnLedger
  <1> SUFFICES ASSUME RegistryInv, RegistryInv', [Next]_vars
               PROVE  Abstract!AbstractNext \/ UNCHANGED DealOnLedger
    OBVIOUS
  <1>0. acks \subseteq Invoices
    BY DEF RegistryInv, TypeOK
  <1>1. ASSUME NEW s \in Sellers, NEW n \in Invoices, NEW tag \in OfferTags(n), NEW t \in Times,
               NEW e \in Ephemerals, Offer(s, n, tag, t, e)
        PROVE  Abstract!AbstractNext
    <2>1. acks' = acks /\ now' = now /\ n \in acks
      BY <1>1 DEF Offer, Offerable, acknowledgments
    <2>2. IsOffered(n)
      <3>1. tag \in Tags /\ <<n, e>> \in RecordIds
        BY TagTypes DEF RecordIds
      <3>2. pledges'[n] = Offered(tag, t, <<n, e>>) /\ records'[<<n, e>>] = tag
        BY <1>1, <3>1 DEF Offer, SealRecord, RegistryInv, TypeOK
      <3> QED BY <1>1, <3>1, <3>2 DEF Offer, Offerable, IsOffered
    <2>3. \A m \in acks \ {n} : pledges'[m] = pledges[m]
      BY <1>0, <1>1 DEF Offer, RegistryInv, TypeOK
    <2>4. DebtsOf({n}) \in Abstract!Batches
      BY OneIsABatch DEF DebtsOf
    <2> QED BY <2>1, <2>2, <2>3, <2>4, OfferingProposes
  <1>2. ASSUME NEW s \in Sellers, NEW c \in CertIds, NEW floor \in Floors, NEW t \in Times,
               NEW ns \in Pools, CertifyBorrowingBase(s, c, floor, t, ns)
        PROVE  Abstract!AbstractNext
    <2>1. PICK tags \in [Elements(ns) -> UNION {OfferTags(n) : n \in Elements(ns)}],
               es \in [Elements(ns) -> Ephemerals] : LockSlots(ns, tags, es, t)
      BY <1>2 DEF CertifyBorrowingBase
    <2>2. acks' = acks /\ now' = now /\ Elements(ns) \subseteq acks /\ ns # <<>>
      BY <1>2 DEF CertifyBorrowingBase, CheckSlot, acknowledgments
    <2>3. ASSUME NEW n \in Elements(ns) PROVE IsOffered(n)
      <3>1. tags[n] \in Tags /\ es[n] \in Ephemerals /\ <<n, es[n]>> \in RecordIds
        BY <2>3, PoolElements, TagTypes DEF RecordIds
      <3>2. pledges'[n] = Offered(tags[n], t, <<n, es[n]>>) /\ records'[<<n, es[n]>>] = tags[n]
        BY <2>1, <2>3, <3>1, PoolElements DEF LockSlots
      <3>3. Free(n) /\ n \in acks /\ lender'[n] = lender[n] /\ now < t /\ t <= n.due
        BY <1>2, <2>3 DEF CertifyBorrowingBase, CheckSlot
      <3> QED BY <3>1, <3>2, <3>3 DEF IsOffered
    <2>4. \A m \in acks \ Elements(ns) : pledges'[m] = pledges[m]
      BY <1>0, <2>1 DEF LockSlots
    <2> QED BY <2>2, <2>3, <2>4, PoolIsABatch, OfferingProposes
  <1>3. ASSUME NEW f \in Financiers, NEW ns \in Pools, AcceptBatch(f, ns)
        PROVE  Abstract!AbstractNext
    BY <1>3, TakingFinances DEF AcceptBatch
  <1>4. ASSUME NEW f \in Financiers, NEW n \in Invoices, Accept(f, n)
        PROVE  Abstract!AbstractNext
    <2>1. <<n>> \in Pools /\ <<n>> # <<>>
      BY RegistryAssumption DEF RegistryAssumption, Pools
    <2> QED BY <1>4, <2>1, TakingFinances DEF Accept
  <1>5. ASSUME UNCHANGED <<pledges, now>> PROVE UNCHANGED DealOnLedger
    BY <1>5, NoDealMoves
  <1> QED
    BY <1>1, <1>2, <1>3, <1>4, <1>5, ReleaseDischarges, PaymentPays, ClaimDisburses, TickLapses
    DEF Next, vars, AdmitDebtor, AdmitFinancier, Acknowledge, ClaimAsHolder, ClaimAsSeller

\* For any parties, invoices and clock: the registry never does to a debt what the abstract
\* registry does not, whatever is acknowledged, offered, pooled, taken up, released or paid.
THEOREM RegistryImplementsReceivables == Spec => ImplementsReceivables
  <1>1. RegistryInv /\ RegistryInv' /\ [Next]_vars => [Abstract!AbstractNext]_DealOnLedger
    BY StepMapsToStep
  <1> QED
    BY <1>1, InitMapsToInit, RegistryInvariant, PTL
    DEF Spec, ImplementsReceivables, Abstract!AbstractSpec

=============================================================================
