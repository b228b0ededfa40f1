---------------------------- MODULE SandboxProofs ----------------------------
(***************************************************************************)
(* Theorems about Sandbox, for any rows of the book on the desks, any      *)
(* number of buttons pressed and anything that interferes with a replay,   *)
(* as often as the bounds let it.                                          *)
(***************************************************************************)
EXTENDS Sandbox, FiniteSetTheorems, SequenceTheorems, WellFoundedInduction, TLAPS

-----------------------------------------------------------------------------
(* Chains of asserts.                                                      *)

\* The codes of the asserts.
Codes ==
    {"ALREADY_ACKNOWLEDGED", "ALREADY_APPROVED", "ALREADY_CLAIMED", "ALREADY_ENCUMBERED",
     "ALREADY_SETTLED", "BAD_EXPIRY", "BELOW_FLOOR", "DUPLICATE_CERTIFICATE", "DUPLICATE_INVOICE",
     "DUPLICATE_REQUEST", "EMPTY_POOL", "INVOICE_OVERDUE", "NOT_ACKNOWLEDGED", "NOT_ADDRESSEE",
     "NOT_HOLDER", "NOT_LICENSED", "NOT_PAYEE", "NOT_PLEDGED", "NOT_REGISTERED_DEBTOR",
     "NOT_SETTLED", "NO_SUCH_OFFER", "NO_SUCH_RECORD", "NO_SUCH_REQUEST", "OFFER_EXPIRED"}

\* An assert: whether it holds, and the code a caller is refused with if it does not.
Asserted == BOOLEAN \X Codes

LEMMA OkIsNoCode == "ok" \notin Codes
BY DEF Codes

LEMMA SmallestOf ==
    ASSUME NEW T, T \subseteq Nat, T # {}
    PROVE  \E x \in T : \A y \in T : x <= y
<1>1. PICK x \in T : \A y \in T : ~(<<y, x>> \in OpToRel(<, Nat))
    BY NatLessThanWellFounded, WFMin
<1>2. \A y \in T : y \in Nat /\ x \in Nat /\ ~(y < x)
    BY <1>1, Zenon DEF OpToRel
<1>3. \A y \in T : x <= y
    BY <1>2
<1> QED BY <1>3

LEMMA FirstFailing ==
    ASSUME NEW checks \in Seq(Asserted), \E i \in DOMAIN checks : ~checks[i][1]
    PROVE  \E i \in DOMAIN checks : ~checks[i][1] /\ \A j \in 1..(i - 1) : checks[j][1]
<1> DEFINE failing == {j \in DOMAIN checks : ~checks[j][1]}
<1>1. failing \subseteq Nat /\ failing # {}
    OBVIOUS
<1>2. PICK i \in failing : \A j \in failing : i <= j
    <2> HIDE DEF failing
    <2> QED BY <1>1, SmallestOf
<1>3. \A j \in 1..(i - 1) : checks[j][1]
    BY <1>1, <1>2
<1> QED BY <1>3

\* The caller of a circuit is told the code of the first assert that does not hold.
LEMMA VerdictFirst ==
    ASSUME NEW checks \in Seq(Asserted), NEW i \in DOMAIN checks, ~checks[i][1],
           \A j \in 1..(i - 1) : checks[j][1]
    PROVE  Verdict(checks) = checks[i][2]
<1> DEFINE failing == {j \in DOMAIN checks : ~checks[j][1]}
<1>1. i \in failing /\ \A j \in failing : i =< j
    OBVIOUS
<1>2. Min(failing) = i
  <2>1. \A j \in failing : j \in Int
    OBVIOUS
  <2> QED BY <1>1, <2>1 DEF Min
<1> QED BY <1>1, <1>2 DEF Verdict

\* A call is accepted if and only if every assert holds.
LEMMA VerdictOk ==
    ASSUME NEW checks \in Seq(Asserted)
    PROVE  Verdict(checks) = "ok" <=> \A i \in DOMAIN checks : checks[i][1]
<1>1. ASSUME \A i \in DOMAIN checks : checks[i][1]
      PROVE  Verdict(checks) = "ok"
    BY <1>1 DEF Verdict
<1>2. ASSUME \E i \in DOMAIN checks : ~checks[i][1]
      PROVE  Verdict(checks) # "ok"
  <2>1. PICK i \in DOMAIN checks : ~checks[i][1] /\ \A j \in 1..(i - 1) : checks[j][1]
    BY <1>2, FirstFailing
  <2>2. Verdict(checks) = checks[i][2]
    BY <2>1, VerdictFirst
  <2>3. checks[i] \in Asserted
    OBVIOUS
  <2> QED BY <2>2, <2>3, OkIsNoCode DEF Asserted
<1> QED BY <1>1, <1>2

\* Asserts of two groups in a row: the second group is reached if the first holds.
LEMMA VerdictOfConcat ==
    ASSUME NEW s \in Seq(Asserted), NEW t \in Seq(Asserted)
    PROVE  /\ s \o t \in Seq(Asserted)
           /\ Verdict(s \o t) = IF Verdict(s) = "ok" THEN Verdict(t) ELSE Verdict(s)
<1>1. /\ s \o t \in Seq(Asserted)
      /\ DOMAIN (s \o t) = 1..(Len(s) + Len(t))
      /\ \A i \in 1..Len(s) : (s \o t)[i] = s[i]
      /\ \A i \in 1..Len(t) : (s \o t)[Len(s) + i] = t[i]
    BY ConcatProperties
<1>2. DOMAIN s = 1..Len(s) /\ Len(s) \in Nat /\ DOMAIN t = 1..Len(t) /\ Len(t) \in Nat
    OBVIOUS
<1>3. CASE \E i \in DOMAIN s : ~s[i][1]
  <2>1. PICK i \in DOMAIN s : ~s[i][1] /\ \A j \in 1..(i - 1) : s[j][1]
    BY <1>3, FirstFailing
  <2>2. Verdict(s) = s[i][2] /\ Verdict(s) # "ok"
    BY <1>3, <2>1, VerdictFirst, VerdictOk
  <2>3. i \in DOMAIN (s \o t) /\ ~(s \o t)[i][1] /\ \A j \in 1..(i - 1) : (s \o t)[j][1]
    BY <1>1, <1>2, <2>1
  <2>4. Verdict(s \o t) = (s \o t)[i][2]
    BY <1>1, <2>3, VerdictFirst
  <2> QED BY <1>1, <1>2, <2>2, <2>4
<1>4. CASE (\A i \in DOMAIN s : s[i][1]) /\ \E i \in DOMAIN t : ~t[i][1]
  <2>1. PICK i \in DOMAIN t : ~t[i][1] /\ \A j \in 1..(i - 1) : t[j][1]
    BY <1>4, FirstFailing
  <2>2. Verdict(t) = t[i][2] /\ Verdict(s) = "ok"
    BY <1>4, <2>1, VerdictFirst, VerdictOk
  <2>3. /\ Len(s) + i \in DOMAIN (s \o t) /\ ~(s \o t)[Len(s) + i][1]
        /\ \A j \in 1..(Len(s) + i - 1) : (s \o t)[j][1]
    <3>1. ASSUME NEW j \in 1..(Len(s) + i - 1)
          PROVE  (s \o t)[j][1]
      <4>1. CASE j \in 1..Len(s)
        BY <1>1, <1>2, <1>4, <4>1
      <4>2. CASE j \notin 1..Len(s)
        <5>1. j - Len(s) \in 1..(i - 1) /\ j - Len(s) \in 1..Len(t) /\ j = Len(s) + (j - Len(s))
          BY <1>2, <4>2
        <5> QED BY <1>1, <2>1, <5>1
      <4> QED BY <4>1, <4>2
    <3> QED BY <1>1, <1>2, <2>1, <3>1
  <2>4. Verdict(s \o t) = (s \o t)[Len(s) + i][2]
    <3> DEFINE st == s \o t
               k == Len(s) + i
    <3>1. st \in Seq(Asserted) /\ k \in DOMAIN st /\ ~st[k][1] /\ \A j \in 1..(k - 1) : st[j][1]
      BY <1>1, <2>3
    <3> HIDE DEF st, k
    <3>2. Verdict(st) = st[k][2]
      BY <3>1, VerdictFirst
    <3> QED BY <3>2 DEF st, k
  <2> QED BY <1>1, <1>2, <2>2, <2>4
<1>5. CASE (\A i \in DOMAIN s : s[i][1]) /\ \A i \in DOMAIN t : t[i][1]
  <2>1. Verdict(s) = "ok" /\ Verdict(t) = "ok"
    BY <1>5, VerdictOk
  <2>2. \A i \in DOMAIN (s \o t) : (s \o t)[i][1]
    <3>1. ASSUME NEW i \in DOMAIN (s \o t), i \notin 1..Len(s)
          PROVE  (s \o t)[i][1]
      <4>1. i - Len(s) \in 1..Len(t) /\ i = Len(s) + (i - Len(s))
        BY <1>1, <1>2, <3>1
      <4> QED BY <1>1, <1>2, <1>5, <4>1
    <3> QED BY <1>1, <1>2, <1>5, <3>1
  <2>3. Verdict(s \o t) = "ok"
    BY <1>1, <2>2, VerdictOk
  <2> QED BY <2>1, <2>3
<1> QED BY <1>1, <1>3, <1>4, <1>5

\* What a caller is told by two asserts in a row.
LEMMA VerdictOfTwoAsserts ==
    ASSUME NEW a \in BOOLEAN, NEW b \in BOOLEAN,
           NEW w \in Codes,
           NEW x \in Codes
    PROVE  /\ << <<a, w>>, <<b, x>> >> \in Seq(Asserted)
           /\ Verdict(<< <<a, w>>, <<b, x>> >>) =
                IF ~a THEN w ELSE IF ~b THEN x ELSE "ok"
<1> DEFINE checks == << <<a, w>>, <<b, x>> >>
<1>1. checks \in Seq(Asserted)
    BY DEF Asserted
<1>2. DOMAIN checks = 1..2 /\ checks[1][2] = w /\ checks[2][2] = x
    OBVIOUS
<1>3. /\ checks[1][1] <=> a
      /\ checks[2][1] <=> b
    OBVIOUS
<1>4. 1..(1 - 1) = {} /\ 1..(2 - 1) = {1} /\ 1..2 = {1, 2}
    OBVIOUS
<1> HIDE DEF checks
<1>5. Verdict(checks) = IF ~a THEN w ELSE IF ~b THEN x ELSE "ok"
  <2>1. CASE ~a
      BY <1>1, <1>2, <1>3, <1>4, <2>1, VerdictFirst
  <2>2. CASE a /\ ~b
      BY <1>1, <1>2, <1>3, <1>4, <2>2, VerdictFirst
  <2>3. CASE a /\ b
      BY <1>1, <1>2, <1>3, <1>4, <2>3, VerdictOk
  <2> QED BY <2>1, <2>2, <2>3
<1> QED BY <1>1, <1>5 DEF checks

\* What a caller is told by three asserts in a row.
LEMMA VerdictOfThreeAsserts ==
    ASSUME NEW a \in BOOLEAN, NEW b \in BOOLEAN, NEW c \in BOOLEAN,
           NEW w \in Codes,
           NEW x \in Codes,
           NEW y \in Codes
    PROVE  /\ << <<a, w>>, <<b, x>>, <<c, y>> >> \in Seq(Asserted)
           /\ Verdict(<< <<a, w>>, <<b, x>>, <<c, y>> >>) =
                IF ~a THEN w ELSE IF ~b THEN x ELSE IF ~c THEN y ELSE "ok"
<1> DEFINE checks == << <<a, w>>, <<b, x>>, <<c, y>> >>
<1>1. checks \in Seq(Asserted)
    BY DEF Asserted
<1>2. DOMAIN checks = 1..3 /\ checks[1][2] = w /\ checks[2][2] = x /\ checks[3][2] = y
    OBVIOUS
<1>3. /\ checks[1][1] <=> a
      /\ checks[2][1] <=> b
      /\ checks[3][1] <=> c
    OBVIOUS
<1>4. 1..(1 - 1) = {} /\ 1..(2 - 1) = {1} /\ 1..(3 - 1) = {1, 2} /\ 1..3 = {1, 2, 3}
    OBVIOUS
<1> HIDE DEF checks
<1>5. Verdict(checks) = IF ~a THEN w ELSE IF ~b THEN x ELSE IF ~c THEN y ELSE "ok"
  <2>1. CASE ~a
      BY <1>1, <1>2, <1>3, <1>4, <2>1, VerdictFirst
  <2>2. CASE a /\ ~b
      BY <1>1, <1>2, <1>3, <1>4, <2>2, VerdictFirst
  <2>3. CASE a /\ b /\ ~c
      BY <1>1, <1>2, <1>3, <1>4, <2>3, VerdictFirst
  <2>4. CASE a /\ b /\ c
      BY <1>1, <1>2, <1>3, <1>4, <2>4, VerdictOk
  <2> QED BY <2>1, <2>2, <2>3, <2>4
<1> QED BY <1>1, <1>5 DEF checks

\* What a caller is told by four asserts in a row.
LEMMA VerdictOfFourAsserts ==
    ASSUME NEW a \in BOOLEAN, NEW b \in BOOLEAN, NEW c \in BOOLEAN, NEW d \in BOOLEAN,
           NEW w \in Codes,
           NEW x \in Codes,
           NEW y \in Codes,
           NEW z \in Codes
    PROVE  /\ << <<a, w>>, <<b, x>>, <<c, y>>, <<d, z>> >> \in Seq(Asserted)
           /\ Verdict(<< <<a, w>>, <<b, x>>, <<c, y>>, <<d, z>> >>) =
                IF ~a THEN w ELSE IF ~b THEN x ELSE IF ~c THEN y ELSE IF ~d THEN z ELSE "ok"
<1> DEFINE checks == << <<a, w>>, <<b, x>>, <<c, y>>, <<d, z>> >>
<1>1. checks \in Seq(Asserted)
    BY DEF Asserted
<1>2. DOMAIN checks = 1..4 /\ checks[1][2] = w /\ checks[2][2] = x /\ checks[3][2] = y /\ checks[4][2] = z
    OBVIOUS
<1>3. /\ checks[1][1] <=> a
      /\ checks[2][1] <=> b
      /\ checks[3][1] <=> c
      /\ checks[4][1] <=> d
    OBVIOUS
<1>4. 1..(1 - 1) = {} /\ 1..(2 - 1) = {1} /\ 1..(3 - 1) = {1, 2} /\ 1..(4 - 1) = {1, 2, 3} /\ 1..4 = {1, 2, 3, 4}
    OBVIOUS
<1> HIDE DEF checks
<1>5. Verdict(checks) = IF ~a THEN w ELSE IF ~b THEN x ELSE IF ~c THEN y ELSE IF ~d THEN z ELSE "ok"
  <2>1. CASE ~a
      BY <1>1, <1>2, <1>3, <1>4, <2>1, VerdictFirst
  <2>2. CASE a /\ ~b
      BY <1>1, <1>2, <1>3, <1>4, <2>2, VerdictFirst
  <2>3. CASE a /\ b /\ ~c
      BY <1>1, <1>2, <1>3, <1>4, <2>3, VerdictFirst
  <2>4. CASE a /\ b /\ c /\ ~d
      BY <1>1, <1>2, <1>3, <1>4, <2>4, VerdictFirst
  <2>5. CASE a /\ b /\ c /\ d
      BY <1>1, <1>2, <1>3, <1>4, <2>5, VerdictOk
  <2> QED BY <2>1, <2>2, <2>3, <2>4, <2>5
<1> QED BY <1>1, <1>5 DEF checks

-----------------------------------------------------------------------------
(* What each circuit answers.                                              *)

\* The ledger after each call, if it is accepted.
Acknowledged(l, r) == [l EXCEPT !.acks = @ \cup {r}]
Accepted(l, r) == Stored(l, r, [PledgeOf(l, r) EXCEPT !.status = "PLEDGED"])
Released(l, r) == Stored(l, r, [PledgeOf(l, r) EXCEPT !.status = "RELEASED"])
Paid(l, r) == Stored(l, r, [PledgeOf(l, r) EXCEPT !.status = "SETTLED",
        !.payee = IF PledgeOf(l, r).status = "PLEDGED" THEN PledgeOf(l, r).holder
        ELSE "seller"])
Claimed(l, r) == Stored(l, r, [PledgeOf(l, r) EXCEPT !.claimed = TRUE])
Requested(l, request) == [l EXCEPT !.requests = @ \cup {request}]
Approved(l, request, keyholder) == [l EXCEPT !.approvals = @ \cup {<<request, keyholder>>}]
AdmittedTo(l, who) == [l EXCEPT !.members = Append(@, who)]
CertifiedAs(l, label, pool, lender, validUntil) ==
    [LockedPool(l, pool, lender, validUntil) EXCEPT !.certified = @ \cup {label}]

LEMMA AcknowledgeSays ==
    ASSUME NEW l, NEW keys, NEW r
    PROVE  /\ Acknowledge(l, keys, r).said =
                IF ~(IsMember(l, keys)) THEN "NOT_REGISTERED_DEBTOR"
                ELSE IF ~(~HasAcknowledged(l, r)) THEN "ALREADY_ACKNOWLEDGED" ELSE "ok"
           /\ Acknowledge(l, keys, r).ledger =
                IF Acknowledge(l, keys, r).said = "ok" THEN Acknowledged(l, r) ELSE l
<1> DEFINE a == IsMember(l, keys)
           b == ~HasAcknowledged(l, r)
<1>1. a \in BOOLEAN /\ b \in BOOLEAN
    BY DEF IsMember, HasAcknowledged, IsSealed, IsRequested
<1>2. "NOT_REGISTERED_DEBTOR" \in Codes /\ "ALREADY_ACKNOWLEDGED" \in Codes
    BY DEF Codes
<1> HIDE DEF a, b
<1>3. Verdict(<< <<a, "NOT_REGISTERED_DEBTOR">>, <<b, "ALREADY_ACKNOWLEDGED">> >>) =
        IF ~a THEN "NOT_REGISTERED_DEBTOR" ELSE IF ~b THEN "ALREADY_ACKNOWLEDGED" ELSE "ok"
    BY <1>1, <1>2, VerdictOfTwoAsserts
<1> QED BY <1>3 DEF a, b, Acknowledge, Acknowledged, Called

LEMMA AcceptSays ==
    ASSUME NEW l, NEW t, NEW keys, NEW lender, NEW r
    PROVE  /\ Accept(l, t, keys, lender, r).said =
                IF ~(IsMember(l, keys)) THEN "NOT_LICENSED"
                ELSE IF ~(PledgeOf(l, r).status = "OFFERED") THEN "NO_SUCH_OFFER"
                ELSE IF ~(PledgeOf(l, r).holder = lender) THEN "NOT_ADDRESSEE"
                ELSE IF ~(t < PledgeOf(l, r).expiry) THEN "OFFER_EXPIRED" ELSE "ok"
           /\ Accept(l, t, keys, lender, r).ledger =
                IF Accept(l, t, keys, lender, r).said = "ok" THEN Accepted(l, r) ELSE l
<1> DEFINE a == IsMember(l, keys)
           b == PledgeOf(l, r).status = "OFFERED"
           c == PledgeOf(l, r).holder = lender
           d == t < PledgeOf(l, r).expiry
<1>1. a \in BOOLEAN /\ b \in BOOLEAN /\ c \in BOOLEAN /\ d \in BOOLEAN
    BY DEF IsMember, HasAcknowledged, IsSealed, IsRequested
<1>2. "NOT_LICENSED" \in Codes /\ "NO_SUCH_OFFER" \in Codes /\ "NOT_ADDRESSEE" \in Codes /\ "OFFER_EXPIRED" \in Codes
    BY DEF Codes
<1> HIDE DEF a, b, c, d
<1>3. Verdict(<< <<a, "NOT_LICENSED">>, <<b, "NO_SUCH_OFFER">>, <<c, "NOT_ADDRESSEE">>, <<d, "OFFER_EXPIRED">> >>) =
        IF ~a THEN "NOT_LICENSED" ELSE IF ~b THEN "NO_SUCH_OFFER" ELSE IF ~c THEN "NOT_ADDRESSEE" ELSE IF ~d THEN "OFFER_EXPIRED" ELSE "ok"
    BY <1>1, <1>2, VerdictOfFourAsserts
<1> QED BY <1>3 DEF a, b, c, d, Accept, Accepted, Called

LEMMA ReleaseSays ==
    ASSUME NEW l, NEW r, NEW lender
    PROVE  /\ Release(l, r, lender).said =
                IF ~(PledgeOf(l, r).status = "PLEDGED") THEN "NOT_PLEDGED"
                ELSE IF ~(PledgeOf(l, r).holder = lender) THEN "NOT_HOLDER" ELSE "ok"
           /\ Release(l, r, lender).ledger =
                IF Release(l, r, lender).said = "ok" THEN Released(l, r) ELSE l
<1> DEFINE a == PledgeOf(l, r).status = "PLEDGED"
           b == PledgeOf(l, r).holder = lender
<1>1. a \in BOOLEAN /\ b \in BOOLEAN
    BY DEF IsMember, HasAcknowledged, IsSealed, IsRequested
<1>2. "NOT_PLEDGED" \in Codes /\ "NOT_HOLDER" \in Codes
    BY DEF Codes
<1> HIDE DEF a, b
<1>3. Verdict(<< <<a, "NOT_PLEDGED">>, <<b, "NOT_HOLDER">> >>) =
        IF ~a THEN "NOT_PLEDGED" ELSE IF ~b THEN "NOT_HOLDER" ELSE "ok"
    BY <1>1, <1>2, VerdictOfTwoAsserts
<1> QED BY <1>3 DEF a, b, Release, Released, Called

LEMMA PaySays ==
    ASSUME NEW l, NEW r
    PROVE  /\ Pay(l, r).said =
                IF ~(HasAcknowledged(l, r)) THEN "NOT_ACKNOWLEDGED"
                ELSE IF ~(PledgeOf(l, r).status # "SETTLED") THEN "ALREADY_SETTLED" ELSE "ok"
           /\ Pay(l, r).ledger =
                IF Pay(l, r).said = "ok" THEN Paid(l, r) ELSE l
<1> DEFINE a == HasAcknowledged(l, r)
           b == PledgeOf(l, r).status # "SETTLED"
<1>1. a \in BOOLEAN /\ b \in BOOLEAN
    BY DEF IsMember, HasAcknowledged, IsSealed, IsRequested
<1>2. "NOT_ACKNOWLEDGED" \in Codes /\ "ALREADY_SETTLED" \in Codes
    BY DEF Codes
<1> HIDE DEF a, b
<1>3. Verdict(<< <<a, "NOT_ACKNOWLEDGED">>, <<b, "ALREADY_SETTLED">> >>) =
        IF ~a THEN "NOT_ACKNOWLEDGED" ELSE IF ~b THEN "ALREADY_SETTLED" ELSE "ok"
    BY <1>1, <1>2, VerdictOfTwoAsserts
<1> QED BY <1>3 DEF a, b, Pay, Paid, Called

LEMMA ClaimSays ==
    ASSUME NEW l, NEW r, NEW party
    PROVE  /\ Claim(l, r, party).said =
                IF ~(PledgeOf(l, r).status = "SETTLED") THEN "NOT_SETTLED"
                ELSE IF ~(PledgeOf(l, r).payee = party) THEN "NOT_PAYEE"
                ELSE IF ~(~PledgeOf(l, r).claimed) THEN "ALREADY_CLAIMED" ELSE "ok"
           /\ Claim(l, r, party).ledger =
                IF Claim(l, r, party).said = "ok" THEN Claimed(l, r) ELSE l
<1> DEFINE a == PledgeOf(l, r).status = "SETTLED"
           b == PledgeOf(l, r).payee = party
           c == ~PledgeOf(l, r).claimed
<1>1. a \in BOOLEAN /\ b \in BOOLEAN /\ c \in BOOLEAN
    BY DEF IsMember, HasAcknowledged, IsSealed, IsRequested
<1>2. "NOT_SETTLED" \in Codes /\ "NOT_PAYEE" \in Codes /\ "ALREADY_CLAIMED" \in Codes
    BY DEF Codes
<1> HIDE DEF a, b, c
<1>3. Verdict(<< <<a, "NOT_SETTLED">>, <<b, "NOT_PAYEE">>, <<c, "ALREADY_CLAIMED">> >>) =
        IF ~a THEN "NOT_SETTLED" ELSE IF ~b THEN "NOT_PAYEE" ELSE IF ~c THEN "ALREADY_CLAIMED" ELSE "ok"
    BY <1>1, <1>2, VerdictOfThreeAsserts
<1> QED BY <1>3 DEF a, b, c, Claim, Claimed, Called

LEMMA RequestSays ==
    ASSUME NEW l, NEW request
    PROVE  /\ Request(l, request).said =
                IF ~(IsSealed(l, request.record)) THEN "NO_SUCH_RECORD"
                ELSE IF ~(~IsRequested(l, request)) THEN "DUPLICATE_REQUEST" ELSE "ok"
           /\ Request(l, request).ledger =
                IF Request(l, request).said = "ok" THEN Requested(l, request) ELSE l
<1> DEFINE a == IsSealed(l, request.record)
           b == ~IsRequested(l, request)
<1>1. a \in BOOLEAN /\ b \in BOOLEAN
    BY DEF IsMember, HasAcknowledged, IsSealed, IsRequested
<1>2. "NO_SUCH_RECORD" \in Codes /\ "DUPLICATE_REQUEST" \in Codes
    BY DEF Codes
<1> HIDE DEF a, b
<1>3. Verdict(<< <<a, "NO_SUCH_RECORD">>, <<b, "DUPLICATE_REQUEST">> >>) =
        IF ~a THEN "NO_SUCH_RECORD" ELSE IF ~b THEN "DUPLICATE_REQUEST" ELSE "ok"
    BY <1>1, <1>2, VerdictOfTwoAsserts
<1> QED BY <1>3 DEF a, b, Request, Requested, Called

LEMMA ApproveSays ==
    ASSUME NEW l, NEW request, NEW keyholder
    PROVE  /\ Approve(l, request, keyholder).said =
                IF ~(IsRequested(l, request)) THEN "NO_SUCH_REQUEST"
                ELSE IF ~(<<request, keyholder>> \notin l.approvals) THEN "ALREADY_APPROVED" ELSE "ok"
           /\ Approve(l, request, keyholder).ledger =
                IF Approve(l, request, keyholder).said = "ok" THEN Approved(l, request, keyholder) ELSE l
<1> DEFINE a == IsRequested(l, request)
           b == <<request, keyholder>> \notin l.approvals
<1>1. a \in BOOLEAN /\ b \in BOOLEAN
    BY DEF IsMember, HasAcknowledged, IsSealed, IsRequested
<1>2. "NO_SUCH_REQUEST" \in Codes /\ "ALREADY_APPROVED" \in Codes
    BY DEF Codes
<1> HIDE DEF a, b
<1>3. Verdict(<< <<a, "NO_SUCH_REQUEST">>, <<b, "ALREADY_APPROVED">> >>) =
        IF ~a THEN "NO_SUCH_REQUEST" ELSE IF ~b THEN "ALREADY_APPROVED" ELSE "ok"
    BY <1>1, <1>2, VerdictOfTwoAsserts
<1> QED BY <1>3 DEF a, b, Approve, Approved, Called

LEMMA AdmitSays ==
    ASSUME NEW l, NEW who
    PROVE  /\ Admit(l, who).said = "ok"
           /\ Admit(l, who).ledger = AdmittedTo(l, who)
<1>1. Verdict(<<>>) = "ok"
    BY DEF Verdict
<1> QED BY <1>1 DEF Admit, AdmittedTo, Called

\* assertFree on its own.
FreeCode(l, t, r) ==
    IF PledgeOf(l, r).status = "SETTLED" THEN "ALREADY_SETTLED"
    ELSE IF \/ PledgeOf(l, r).status \in {"ABSENT", "RELEASED"}
            \/ PledgeOf(l, r).status = "OFFERED" /\ t >= PledgeOf(l, r).expiry THEN "ok"
    ELSE "ALREADY_ENCUMBERED"

LEMMA FreeSays ==
    ASSUME NEW l, NEW t, NEW r
    PROVE  FreeChecks(l, t, r) \in Seq(Asserted) /\ Verdict(FreeChecks(l, t, r)) = FreeCode(l, t, r)
<1> DEFINE a == PledgeOf(l, r).status # "SETTLED"
           b == \/ PledgeOf(l, r).status \in {"ABSENT", "RELEASED"}
                \/ PledgeOf(l, r).status = "OFFERED" /\ t >= PledgeOf(l, r).expiry
<1>1. a \in BOOLEAN /\ b \in BOOLEAN
    OBVIOUS
<1>2. "ALREADY_SETTLED" \in Codes /\ "ALREADY_ENCUMBERED" \in Codes
    BY DEF Codes
<1> HIDE DEF a, b
<1>3. /\ << <<a, "ALREADY_SETTLED">>, <<b, "ALREADY_ENCUMBERED">> >> \in Seq(Asserted)
      /\ Verdict(<< <<a, "ALREADY_SETTLED">>, <<b, "ALREADY_ENCUMBERED">> >>) =
            IF ~a THEN "ALREADY_SETTLED" ELSE IF ~b THEN "ALREADY_ENCUMBERED" ELSE "ok"
    BY <1>1, <1>2, VerdictOfTwoAsserts
<1>4. FreeChecks(l, t, r) = << <<a, "ALREADY_SETTLED">>, <<b, "ALREADY_ENCUMBERED">> >>
    BY DEF FreeChecks, a, b
<1>5. FreeCode(l, t, r) = IF ~a THEN "ALREADY_SETTLED" ELSE IF ~b THEN "ALREADY_ENCUMBERED" ELSE "ok"
    BY DEF FreeCode, a, b
<1> QED BY <1>3, <1>4, <1>5

LEMMA OfferSays ==
    ASSUME NEW l, NEW t, NEW r, NEW lender, NEW expiry
    PROVE  /\ Offer(l, t, r, lender, expiry).said =
                IF ~HasAcknowledged(l, r) THEN "NOT_ACKNOWLEDGED"
                ELSE IF ~(t < expiry) THEN "BAD_EXPIRY"
                ELSE IF ~(expiry <= DueDay[r]) THEN "INVOICE_OVERDUE" ELSE FreeCode(l, t, r)
           /\ Offer(l, t, r, lender, expiry).ledger =
                IF Offer(l, t, r, lender, expiry).said = "ok" THEN Locked(l, r, lender, expiry) ELSE l
<1> DEFINE a == HasAcknowledged(l, r)
           b == t < expiry
           c == expiry <= DueDay[r]
           head == << <<a, "NOT_ACKNOWLEDGED">>, <<b, "BAD_EXPIRY">>, <<c, "INVOICE_OVERDUE">> >>
<1>1. a \in BOOLEAN /\ b \in BOOLEAN /\ c \in BOOLEAN
    BY DEF HasAcknowledged
<1>2. "NOT_ACKNOWLEDGED" \in Codes /\ "BAD_EXPIRY" \in Codes /\ "INVOICE_OVERDUE" \in Codes
    BY DEF Codes
<1>3. "NOT_ACKNOWLEDGED" # "ok" /\ "BAD_EXPIRY" # "ok" /\ "INVOICE_OVERDUE" # "ok"
    OBVIOUS
<1> HIDE DEF a, b, c
<1>4. head \in Seq(Asserted) /\ Verdict(head) =
        IF ~a THEN "NOT_ACKNOWLEDGED" ELSE IF ~b THEN "BAD_EXPIRY"
        ELSE IF ~c THEN "INVOICE_OVERDUE" ELSE "ok"
    BY <1>1, <1>2, VerdictOfThreeAsserts
<1>5. Offer(l, t, r, lender, expiry) =
        Called(l, head \o FreeChecks(l, t, r), Locked(l, r, lender, expiry))
    BY DEF Offer, a, b, c
<1> HIDE DEF head
<1>6. Verdict(head \o FreeChecks(l, t, r)) = IF Verdict(head) = "ok" THEN FreeCode(l, t, r) ELSE Verdict(head)
    BY <1>4, FreeSays, VerdictOfConcat
<1>7. Verdict(head \o FreeChecks(l, t, r)) =
        IF ~a THEN "NOT_ACKNOWLEDGED" ELSE IF ~b THEN "BAD_EXPIRY"
        ELSE IF ~c THEN "INVOICE_OVERDUE" ELSE FreeCode(l, t, r)
    BY <1>3, <1>4, <1>6
<1> QED BY <1>5, <1>7 DEF Called, a, b, c

\* A certificate is refused, or its pool is locked.
LEMMA CertifySays ==
    ASSUME NEW l, NEW t, NEW label, NEW pool, NEW lender, NEW least, NEW validUntil
    PROVE  \/ Certify(l, t, label, pool, lender, least, validUntil).ledger = l
           \/ Certify(l, t, label, pool, lender, least, validUntil).ledger =
                CertifiedAs(l, label, pool, lender, validUntil)
BY DEF Certify, CertifiedAs, Called

-----------------------------------------------------------------------------
(* The ledger of the sandbox.                                              *)

\* Who a pledge names: a lender while it is open, nobody as payee before it is paid, and then
\* the seller or the lender that held it.
PledgeOK(p) ==
    /\ p.status \in {"OFFERED", "PLEDGED"} => p.holder \in Lenders
    /\ p.status # "SETTLED" => p.payee = Nobody
    /\ p.status = "SETTLED" => p.payee = "seller" \/ (p.payee = p.holder /\ p.holder \in Lenders)

\* A ledger made by calls under the secrets keys, or anybody's admission.
Good(keys) ==
    {l \in Ledgers : /\ ToSet(l.members) \subseteq {Outsider, keys}
                     /\ \A r \in Refs : PledgeOK(PledgeOf(l, r))}

LEMMA StoredGood ==
    ASSUME NEW keys, NEW l \in Good(keys), NEW r \in Refs, NEW p \in Pledges, PledgeOK(p)
    PROVE  Stored(l, r, p) \in Good(keys)
<1> DEFINE m == Stored(l, r, p)
<1>1. m \in Ledgers /\ m.members = l.members /\ m.pledges = [l.pledges EXCEPT ![r] = p]
    BY DEF Stored, Good, Ledgers
<1>2. \A x \in Refs : PledgeOf(m, x) = IF x = r THEN p ELSE PledgeOf(l, x)
    BY <1>1 DEF PledgeOf, Good, Ledgers
<1> QED BY <1>1, <1>2 DEF Good

LEMMA PledgeTyped ==
    ASSUME NEW keys, NEW l \in Good(keys), NEW r \in Refs
    PROVE  PledgeOf(l, r) \in Pledges /\ PledgeOK(PledgeOf(l, r)) /\ l.records \in Nat
BY DEF Good, Ledgers, PledgeOf

LEMMA OfferedOK ==
    ASSUME NEW lender \in Lenders, NEW expiry \in Nat, NEW record \in Nat
    PROVE  Offered(lender, expiry, record) \in Pledges /\ PledgeOK(Offered(lender, expiry, record))
BY DEF Offered, NoPledge, Pledges, PledgeOK

\* Everything but the pledges and the members may change freely.
LEMMA GoodElsewhere ==
    ASSUME NEW keys, NEW l \in Good(keys), NEW m \in Ledgers,
           m.members = l.members, m.pledges = l.pledges
    PROVE  m \in Good(keys)
BY DEF Good, PledgeOf

LEMMA LockedGood ==
    ASSUME NEW keys, NEW l \in Good(keys), NEW r \in Refs, NEW lender \in Lenders, NEW expiry \in Nat
    PROVE  Locked(l, r, lender, expiry) \in Good(keys)
<1>1. l.records + 1 \in Nat
    BY PledgeTyped
<1>2. [l EXCEPT !.records = @ + 1] \in Good(keys)
  <2> DEFINE m == [l EXCEPT !.records = @ + 1]
  <2>1. m \in Ledgers /\ m.members = l.members /\ m.pledges = l.pledges
    BY DEF Good, Ledgers
  <2> HIDE DEF m
  <2>2. m \in Good(keys)
    BY <2>1, GoodElsewhere
  <2> QED BY <2>2 DEF m
<1> QED BY <1>1, <1>2, OfferedOK, StoredGood DEF Locked

LEMMA LockedPoolGood ==
    ASSUME NEW keys, NEW l \in Good(keys), NEW pool \in Seq(Refs), NEW lender \in Lenders,
           NEW validUntil \in Nat
    PROVE  LockedPool(l, pool, lender, validUntil) \in Good(keys)
<1> DEFINE slot(r) == CHOOSE i \in DOMAIN pool : pool[i] = r
           m == LockedPool(l, pool, lender, validUntil)
           after(r) == IF r \in ToSet(pool) THEN Offered(lender, validUntil, l.records + slot(r))
                       ELSE PledgeOf(l, r)
<1>1. \A r \in Refs : after(r) \in Pledges /\ PledgeOK(after(r))
  <2>1. ASSUME NEW r \in ToSet(pool)
        PROVE  l.records + slot(r) \in Nat
    <3>1. \E i \in DOMAIN pool : pool[i] = r
      BY <2>1 DEF ToSet
    <3>2. slot(r) \in DOMAIN pool
      BY <3>1
    <3>3. slot(r) \in Nat
      BY <3>2
    <3> HIDE DEF slot
    <3> QED BY <3>3, PledgeTyped, "1001" \in Refs DEF Refs
  <2> HIDE DEF slot
  <2> QED BY <2>1, OfferedOK, PledgeTyped
<1>2. m = [l EXCEPT !.records = @ + Len(pool), !.pledges = [r \in Refs |-> after(r)]]
    BY DEF LockedPool
<1> HIDE DEF after
<1>3. m \in Ledgers /\ m.members = l.members /\ m.pledges = [r \in Refs |-> after(r)]
  <2>1. [r \in Refs |-> after(r)] \in [Refs -> Pledges]
    BY <1>1
  <2>2. l \in Ledgers /\ Len(pool) \in Nat
    BY DEF Good
  <2> DEFINE booked == [r \in Refs |-> after(r)]
  <2> HIDE DEF booked, m
  <2>3. booked \in [Refs -> Pledges]
    BY <2>1 DEF booked
  <2>4. m = [l EXCEPT !.records = @ + Len(pool), !.pledges = booked]
    BY <1>2 DEF booked
  <2> DEFINE n == l.records + Len(pool)
  <2>5. n \in Nat
    BY <2>2 DEF Ledgers
  <2>6. m = [l EXCEPT !.records = n, !.pledges = booked]
    BY <2>4
  <2> HIDE DEF n
  <2>7. m \in Ledgers /\ m.members = l.members /\ m.pledges = booked
    BY <2>2, <2>3, <2>5, <2>6 DEF Ledgers
  <2> QED BY <2>7 DEF booked
<1> HIDE DEF m
<1>4. \A r \in Refs : PledgeOK(PledgeOf(m, r))
    BY <1>1, <1>3 DEF PledgeOf
<1>5. ToSet(m.members) \subseteq {Outsider, keys}
    BY <1>3 DEF Good
<1>6. m \in Ledgers
    BY <1>3
<1>7. m \in Good(keys)
    BY <1>4, <1>5, <1>6 DEF Good
<1> QED BY <1>7 DEF m

LEMMA DeployedGood ==
    ASSUME NEW keys
    PROVE  DeployedLedger \in Good(keys)
<1>1. NoPledge \in Pledges /\ PledgeOK(NoPledge)
    BY DEF NoPledge, Pledges, PledgeOK
<1> DEFINE none == [r \in Refs |-> NoPledge]
<1>2. none \in [Refs -> Pledges] /\ \A r \in Refs : none[r] = NoPledge
    BY <1>1
<1> HIDE DEF none
<1>3. /\ DeployedLedger \in Ledgers /\ DeployedLedger.pledges = none
      /\ DeployedLedger.members = <<>>
    BY <1>2 DEF DeployedLedger, Ledgers, none
<1>4. ToSet(DeployedLedger.members) = {}
    BY <1>3 DEF ToSet
<1>5. \A r \in Refs : PledgeOK(PledgeOf(DeployedLedger, r))
    BY <1>1, <1>2, <1>3 DEF PledgeOf
<1> QED BY <1>3, <1>4, <1>5 DEF Good

LEMMA AdmitGood ==
    ASSUME NEW keys \in Nat, NEW l \in Good(keys), NEW who \in {Outsider, keys}
    PROVE  Admit(l, who).ledger \in Good(keys)
<1> DEFINE m == Admit(l, who).ledger
<1> DEFINE grown == Append(l.members, who)
<1>1. l \in Ledgers /\ who \in Nat /\ l.members \in Seq(Nat) /\ grown \in Seq(Nat)
    BY DEF Good, Outsider, Ledgers
<1>2. m = [l EXCEPT !.members = Append(@, who)]
    BY AdmitSays DEF AdmittedTo
<1> HIDE DEF m, grown
<1>3. m \in Ledgers /\ m.members = grown /\ m.pledges = l.pledges
  <2>1. m = [l EXCEPT !.members = grown]
    BY <1>2 DEF grown
  <2> QED BY <1>1, <2>1 DEF Ledgers
<1>4. ToSet(m.members) = ToSet(l.members) \cup {who}
  <2> DEFINE s == l.members
  <2>1. s \in Seq(Nat) /\ m.members = Append(s, who)
    BY <1>1, <1>3 DEF grown
  <2> HIDE DEF s
  <2>2. /\ DOMAIN s = 1..Len(s) /\ Len(s) \in Nat
        /\ DOMAIN Append(s, who) = 1..(Len(s) + 1)
        /\ \A i \in 1..Len(s) : Append(s, who)[i] = s[i]
        /\ Append(s, who)[Len(s) + 1] = who
    BY <2>1, <1>1
  <2>3. ToSet(Append(s, who)) = ToSet(s) \cup {who}
    BY <2>2 DEF ToSet
  <2> QED BY <2>1, <2>3 DEF s
<1>5. \A r \in Refs : PledgeOK(PledgeOf(m, r))
    BY <1>3 DEF Good, PledgeOf
<1>6. m \in Good(keys)
    BY <1>3, <1>4, <1>5 DEF Good
<1> QED BY <1>6 DEF m

LEMMA AcknowledgeGood ==
    ASSUME NEW keys, NEW l \in Good(keys), NEW r \in Refs
    PROVE  Acknowledge(l, keys, r).ledger \in Good(keys)
<1> DEFINE m == [l EXCEPT !.acks = @ \cup {r}]
<1>1. m \in Ledgers /\ m.members = l.members /\ m.pledges = l.pledges
    BY DEF Good, Ledgers
<1> HIDE DEF m
<1>2. m \in Good(keys)
    BY <1>1, GoodElsewhere
<1> QED BY <1>2, AcknowledgeSays DEF m, Acknowledged

LEMMA OfferGood ==
    ASSUME NEW keys, NEW l \in Good(keys), NEW t, NEW r \in Refs, NEW lender \in Lenders,
           NEW expiry \in Nat
    PROVE  Offer(l, t, r, lender, expiry).ledger \in Good(keys)
BY LockedGood, OfferSays

LEMMA AcceptGood ==
    ASSUME NEW keys, NEW l \in Good(keys), NEW t, NEW who, NEW lender, NEW r \in Refs
    PROVE  Accept(l, t, who, lender, r).ledger \in Good(keys)
<1>1. CASE Accept(l, t, who, lender, r).said = "ok"
  <2> DEFINE p == PledgeOf(l, r)
             q == [p EXCEPT !.status = "PLEDGED"]
  <2>1. p.status = "OFFERED"
    BY <1>1, AcceptSays
  <2>2. p \in Pledges /\ PledgeOK(p)
    BY PledgeTyped
  <2> HIDE DEF p
  <2>3. q \in Pledges /\ PledgeOK(q)
    BY <2>1, <2>2 DEF Pledges, PledgeOK
  <2> QED BY <1>1, <2>3, StoredGood, AcceptSays DEF p, Accepted
<1>2. CASE Accept(l, t, who, lender, r).said # "ok"
    BY <1>2, AcceptSays
<1> QED BY <1>1, <1>2

LEMMA ReleaseGood ==
    ASSUME NEW keys, NEW l \in Good(keys), NEW r \in Refs, NEW lender
    PROVE  Release(l, r, lender).ledger \in Good(keys)
<1>1. CASE Release(l, r, lender).said = "ok"
  <2> DEFINE p == PledgeOf(l, r)
             q == [p EXCEPT !.status = "RELEASED"]
  <2>1. p.status = "PLEDGED"
    BY <1>1, ReleaseSays
  <2>2. p \in Pledges /\ PledgeOK(p)
    BY PledgeTyped
  <2> HIDE DEF p
  <2>3. q \in Pledges /\ PledgeOK(q)
    BY <2>1, <2>2 DEF Pledges, PledgeOK
  <2> QED BY <1>1, <2>3, StoredGood, ReleaseSays DEF p, Released
<1>2. CASE Release(l, r, lender).said # "ok"
    BY <1>2, ReleaseSays
<1> QED BY <1>1, <1>2

LEMMA PayGood ==
    ASSUME NEW keys, NEW l \in Good(keys), NEW r \in Refs
    PROVE  Pay(l, r).ledger \in Good(keys)
<1> DEFINE p == PledgeOf(l, r)
           payee == IF p.status = "PLEDGED" THEN p.holder ELSE "seller"
           q == [p EXCEPT !.status = "SETTLED", !.payee = payee]
<1>1. p \in Pledges /\ PledgeOK(p)
    BY PledgeTyped
<1>2. Pay(l, r).ledger \in {l, Stored(l, r, q)}
    BY PaySays DEF Paid
<1> HIDE DEF p
<1>3. payee \in Lenders \cup {"seller"} /\ (payee # "seller" => payee = p.holder /\ p.holder \in Lenders)
    BY <1>1 DEF PledgeOK
<1> HIDE DEF payee
<1>4. q \in Pledges /\ PledgeOK(q)
    BY <1>1, <1>3 DEF Pledges, PledgeOK
<1> QED BY <1>2, <1>4, StoredGood

LEMMA ClaimGood ==
    ASSUME NEW keys, NEW l \in Good(keys), NEW r \in Refs, NEW party
    PROVE  Claim(l, r, party).ledger \in Good(keys)
<1> DEFINE p == PledgeOf(l, r)
           q == [p EXCEPT !.claimed = TRUE]
<1>1. p \in Pledges /\ PledgeOK(p)
    BY PledgeTyped
<1>2. Claim(l, r, party).ledger \in {l, Stored(l, r, q)}
    BY ClaimSays DEF Claimed
<1> HIDE DEF p
<1>3. q \in Pledges /\ PledgeOK(q)
    BY <1>1 DEF Pledges, PledgeOK
<1> QED BY <1>2, <1>3, StoredGood

LEMMA RequestGood ==
    ASSUME NEW keys, NEW l \in Good(keys), NEW request \in Requests
    PROVE  Request(l, request).ledger \in Good(keys)
<1> DEFINE m == [l EXCEPT !.requests = @ \cup {request}]
<1>1. m \in Ledgers /\ m.members = l.members /\ m.pledges = l.pledges
    BY DEF Good, Ledgers
<1> HIDE DEF m
<1>2. m \in Good(keys)
    BY <1>1, GoodElsewhere
<1> QED BY <1>2, RequestSays DEF m, Requested

LEMMA ApproveGood ==
    ASSUME NEW keys, NEW l \in Good(keys), NEW request \in Requests, NEW keyholder \in 1..3
    PROVE  Approve(l, request, keyholder).ledger \in Good(keys)
<1> DEFINE m == Approved(l, request, keyholder)
           grown == l.approvals \cup {<<request, keyholder>>}
<1>1. l \in Ledgers /\ grown \in SUBSET (Requests \X (1..3))
    BY DEF Good, Ledgers
<1>2. m = [l EXCEPT !.approvals = grown]
    BY DEF Approved
<1>3. Approve(l, request, keyholder).ledger \in {l, m}
  <2> HIDE DEF m
  <2> QED BY ApproveSays DEF m
<1> HIDE DEF m, grown
<1>4. m \in Ledgers /\ m.members = l.members /\ m.pledges = l.pledges
    BY <1>1, <1>2 DEF Ledgers
<1> QED BY <1>3, <1>4, GoodElsewhere

LEMMA CertifyGood ==
    ASSUME NEW keys, NEW l \in Good(keys), NEW t, NEW label \in Labels, NEW pool \in Seq(Refs),
           NEW lender \in Lenders, NEW least, NEW validUntil \in Nat
    PROVE  Certify(l, t, label, pool, lender, least, validUntil).ledger \in Good(keys)
<1> DEFINE locked == LockedPool(l, pool, lender, validUntil)
           m == CertifiedAs(l, label, pool, lender, validUntil)
<1>1. locked \in Good(keys)
    BY LockedPoolGood
<1>2. Certify(l, t, label, pool, lender, least, validUntil).ledger \in {l, m}
    BY CertifySays
<1>3. m = [locked EXCEPT !.certified = @ \cup {label}]
    BY DEF CertifiedAs
<1> HIDE DEF locked, m
<1>4. m \in Ledgers /\ m.members = locked.members /\ m.pledges = locked.pledges
    BY <1>1, <1>3 DEF Good, Ledgers
<1> QED BY <1>1, <1>2, <1>4, GoodElsewhere

LEMMA AcknowledgeBaseGood ==
    ASSUME NEW keys, NEW l \in Good(keys)
    PROVE  AcknowledgeBase(l, keys).ledger \in Good(keys)
<1>1. BasePool[1] \in Refs /\ BasePool[2] \in Refs
    BY DEF BasePool, Refs
<1>2. Acknowledge(l, keys, BasePool[1]).ledger \in Good(keys)
    BY <1>1, AcknowledgeGood
<1>3. Acknowledge(Acknowledge(l, keys, BasePool[1]).ledger, keys, BasePool[2]).ledger \in Good(keys)
    BY <1>1, <1>2, AcknowledgeGood
<1> QED BY <1>2, <1>3 DEF AcknowledgeBase

\* Whatever step of the script runs on a ledger a sandbox can be in leaves one it can be in.
LEMMA RunOfGood ==
    ASSUME NEW keys \in Nat, NEW l \in Good(keys), NEW t \in Nat, NEW i \in 1..N
    PROVE  RunOf(i, l, t, keys).ledger \in Good(keys)
<1>1. {"1001", "9999", "inflated"} \subseteq Refs /\ BasePool \in Seq(Refs)
    BY DEF Refs, BasePool
<1>2. {"A", "B"} \subseteq Lenders /\ "replay" \in Labels
    BY DEF Lenders, Labels
<1>3. t + OfferDays \in Nat /\ t + CertificateDays \in Nat
    BY DEF OfferDays, CertificateDays
<1>4. ReplayRequest(l) \in Requests
  <2>1. PledgeOf(l, "1001").record \in Nat
    BY <1>1, PledgeTyped DEF Pledges
  <2> QED BY <1>2, <2>1 DEF ReplayRequest, Requests
<1> DEFINE id == Steps[i][1]
<1>5. id \in {"admit", "acknowledge", "offer", "accept", "forged", "inflated", "double", "pay",
              "divert", "claim", "base-ack", "overstate", "certify", "request", "approve-one",
              "approve-two", "open"}
  <2>1. i \in 1..17
    BY DEF N, Steps
  <2>2. i \in {1, 2, 3, 4, 5, 6, 7, 8, 9, 10, 11, 12, 13, 14, 15, 16, 17}
    BY <2>1
  <2> QED BY <2>2 DEF Steps
<1>6. AdmitParties(l, keys).ledger \in Good(keys)
    BY AdmitGood DEF AdmitParties
<1>7. AcknowledgeInvoice(l, keys).ledger \in Good(keys)
    BY <1>1, AcknowledgeGood DEF AcknowledgeInvoice
<1>8. \A r \in {"1001", "9999", "inflated"}, f \in {"A", "B"} : OfferTo(l, t, r, f).ledger \in Good(keys)
    BY <1>1, <1>2, <1>3, OfferGood DEF OfferTo
<1>9. AcceptOffer(l, t, keys).ledger \in Good(keys)
    BY <1>1, AcceptGood DEF AcceptOffer
<1>10. PayInvoice(l).ledger \in Good(keys)
    BY <1>1, PayGood DEF PayInvoice
<1>11. \A party \in {"seller", "A"} : ClaimProceeds(l, party).ledger \in Good(keys)
    BY <1>1, ClaimGood DEF ClaimProceeds
<1>12. \A least \in {25, 20} : CertifyBase(l, t, least).ledger \in Good(keys)
    BY <1>1, <1>2, <1>3, CertifyGood DEF CertifyBase
<1>13. RequestRecord(l).ledger \in Good(keys)
    BY <1>4, RequestGood DEF RequestRecord, OfPledge
<1>14. \A k \in {1, 3} : ApproveAs(l, k).ledger \in Good(keys)
    BY <1>4, ApproveGood DEF ApproveAs, OfPledge
<1>15. OpenRecord(l).ledger \in Good(keys)
    BY DEF OpenRecord
<1> HIDE DEF id
<1>16. RunOf(i, l, t, keys).ledger \in Good(keys)
    BY <1>5, <1>6, <1>7, <1>8, <1>9, <1>10, <1>11, <1>12, <1>13, <1>14, <1>15, AcknowledgeBaseGood
    DEF RunOf, id
<1> QED BY <1>16

-----------------------------------------------------------------------------
(* The buttons and the forms of the workspaces.                            *)

LEMMA MinOfTwo ==
    ASSUME NEW a \in Nat, NEW b \in Nat
    PROVE  Min({a, b}) = IF a <= b THEN a ELSE b
<1> DEFINE m == IF a <= b THEN a ELSE b
<1>1. m \in {a, b} /\ \A y \in {a, b} : m <= y
    OBVIOUS
<1>2. \A x, y : x \in {a, b} /\ y \in {a, b} /\ (\A z \in {a, b} : x <= z) /\ (\A z \in {a, b} : y <= z)
            => x = y
    OBVIOUS
<1> HIDE DEF m
<1>3. Min({a, b}) \in {a, b} /\ \A y \in {a, b} : Min({a, b}) <= y
    BY <1>1 DEF Min
<1> QED BY <1>1, <1>2, <1>3 DEF m

\* A pool has one to four rows of the book, none of them twice.
LEMMA PoolReads ==
    ASSUME NEW p \in Pools
    PROVE  /\ \E n \in 1..4 : p \in [1..n -> Refs]
           /\ p \in Seq(Refs) /\ IsInjective(p) /\ p # <<>> /\ ToSet(p) \subseteq DeskRefs
<1> DEFINE most == Min({4, Cardinality(DeskRefs)})
<1>1. IsFiniteSet(DeskRefs)
  <2>1. Refs = (((({} \cup {"1001"}) \cup {"1002"}) \cup {"1003"}) \cup {"9999"}) \cup {"inflated"}
    BY DEF Refs
  <2>2. IsFiniteSet(Refs)
    BY <2>1, FS_EmptySet, FS_AddElement
  <2> QED BY <2>2, WorkspacesAssumption, FS_Subset
<1>2. most \in Nat /\ most <= 4
  <2>1. Cardinality(DeskRefs) \in Nat
    BY <1>1, FS_CardinalityType
  <2> QED BY <2>1, MinOfTwo
<1>3. PICK n \in 1..most : p \in [1..n -> DeskRefs]
    BY DEF Pools
<1>4. IsInjective(p)
    BY DEF Pools
<1> HIDE DEF most
<1>5. n \in 1..4 /\ p \in [1..n -> Refs] /\ DOMAIN p = 1..n
    BY <1>2, <1>3, WorkspacesAssumption
<1>6. p \in Seq(Refs) /\ p # <<>>
    BY <1>5
<1>7. ToSet(p) \subseteq DeskRefs
    BY <1>3, <1>5 DEF ToSet
<1> QED BY <1>4, <1>5, <1>6, <1>7

\* The calls a page can have captured when its button was pressed.
RowCalls == [do : {"acknowledge", "pay"}, ref : Refs]
ClaimCalls == [do : {"claim"}, ref : Refs, party : Lenders \cup {"seller"}]
LenderCalls == [do : {"accept", "release"}, ref : Refs, lender : Lenders]
OfferCalls == [do : {"offer"}, ref : Refs, lender : Lenders, until : Nat]
CertifyCalls == [do : {"certify"}, pool : Pools, floor : {BaseFloor}, until : Nat]
RequestCalls == [do : {"request"}, request : Requests]
ApproveCalls == [do : {"approve"}, request : Requests, keyholder : 1..3]
FormCalls == [do : {"admit", "issue"}]

CapturedCalls ==
    RowCalls \cup ClaimCalls \cup LenderCalls \cup OfferCalls
    \cup CertifyCalls \cup RequestCalls \cup ApproveCalls \cup FormCalls

LEMMA PressesAreCalls ==
    ASSUME NEW keys, NEW l \in Good(keys), NEW t \in Nat, NEW call \in Presses(l, t)
    PROVE  call \in CapturedCalls
<1>1. DeskRefs \subseteq Refs
    BY WorkspacesAssumption
<1>2. l.records \in Nat /\ l.requests \subseteq Requests
    BY DEF Good, Ledgers
<1>3. CASE call \in DebtorButtons(l)
    BY <1>1, <1>3 DEF DebtorButtons, RowCalls, CapturedCalls
<1>4. CASE call \in Claims(l)
  <2>1. CASE call \in SellerClaims(l)
    BY <1>1, <2>1 DEF SellerClaims, ClaimCalls, CapturedCalls
  <2>2. ASSUME NEW f \in Lenders, call \in LenderClaims(l, f)
        PROVE  call \in CapturedCalls
    BY <1>1, <2>2 DEF LenderClaims, Mine, ClaimCalls, CapturedCalls
  <2> QED BY <1>4, <2>1, <2>2 DEF Claims
<1>5. CASE call \in ApproveButtons(l)
    BY <1>2, <1>5 DEF ApproveButtons, ApproveCalls, CapturedCalls
<1>6. CASE call \in OfferForm(t)
  <2>1. \A term \in OfferTerms : t + term \in Nat
    BY WorkspacesAssumption
  <2> QED BY <1>1, <1>6, <2>1 DEF OfferForm, OfferCalls, CapturedCalls
<1>7. ASSUME NEW f \in Lenders, call \in AcceptButtons(l, t, f)
      PROVE  call \in CapturedCalls
    BY <1>1, <1>7 DEF AcceptButtons, Mine, LenderCalls, CapturedCalls
<1>8. ASSUME NEW f \in Lenders, call \in ReleaseButtons(l, f)
      PROVE  call \in CapturedCalls
    BY <1>1, <1>8 DEF ReleaseButtons, Mine, LenderCalls, CapturedCalls
<1>9. CASE call \in CertifyForm(t)
  <2>1. PICK p \in Pools : call = [do |-> "certify", pool |-> p, floor |-> BaseFloor, until |-> t + BaseTerm]
    BY <1>9 DEF CertifyForm
  <2>2. t + BaseTerm \in Nat
    BY DEF BaseTerm
  <2> QED BY <2>1, <2>2 DEF CertifyCalls, CapturedCalls
<1>10. CASE call \in RequestButtons(l)
    BY <1>2, <1>10 DEF RequestButtons, RequestCalls, Requests, Labels, CapturedCalls
<1>11. CASE call \in OtherForms
    BY <1>11 DEF OtherForms, FormCalls, CapturedCalls
<1> QED BY <1>3, <1>4, <1>5, <1>6, <1>7, <1>8, <1>9, <1>10, <1>11 DEF Presses, RowButtons

\* Whatever was captured, a call that lands leaves a ledger a sandbox can be in.
LEMMA LandedGood ==
    ASSUME NEW keys \in Nat, NEW l \in Good(keys), NEW t \in Nat, NEW call \in CapturedCalls
    PROVE  Landed(call, l, t, keys).ledger \in Good(keys)
<1>1. CASE call \in RowCalls
    BY <1>1, AcknowledgeGood, PayGood DEF RowCalls, Landed
<1>2. CASE call \in ClaimCalls
    BY <1>2, ClaimGood DEF ClaimCalls, Landed
<1>3. CASE call \in LenderCalls
    BY <1>3, AcceptGood, ReleaseGood DEF LenderCalls, Landed
<1>4. CASE call \in OfferCalls
    BY <1>4, OfferGood DEF OfferCalls, Landed
<1>5. CASE call \in CertifyCalls
  <2>1. "desk" \in Labels /\ "B" \in Lenders
    BY DEF Labels, Lenders
  <2>2. call.pool \in Seq(Refs) /\ call.until \in Nat
    BY <1>5, PoolReads DEF CertifyCalls
  <2> QED BY <1>5, <2>1, <2>2, CertifyGood DEF CertifyCalls, Landed
<1>6. CASE call \in RequestCalls
    BY <1>6, RequestGood DEF RequestCalls, Landed
<1>7. CASE call \in ApproveCalls
    BY <1>7, ApproveGood DEF ApproveCalls, Landed
<1>8. CASE call \in FormCalls
    BY <1>8, AdmitGood DEF FormCalls, Landed
<1> QED BY <1>1, <1>2, <1>3, <1>4, <1>5, <1>6, <1>7, <1>8 DEF CapturedCalls

-----------------------------------------------------------------------------
(* The script's base: two invoices, asserted slot by slot.                 *)

\* Up to four groups of asserts in a row, as a pool of up to four slots makes them.
LEMMA FlattenUnfolds ==
    ASSUME NEW n \in 1..4, NEW seqs \in [1..n -> Seq(Asserted)]
    PROVE  \E f : /\ f[1] = seqs[1] /\ FlattenSeq(seqs) = f[n]
                  /\ \A i \in 2..n : f[i] = f[i - 1] \o seqs[i]
<1> DEFINE Step(i, f) == IF i = 1 THEN seqs[i] ELSE f[i - 1] \o seqs[i]
           Unfolds(f) == f = [i \in 1..Len(seqs) |-> Step(i, f)]
           flatten == CHOOSE f : Unfolds(f)
           two == seqs[1] \o seqs[2]
           three == two \o seqs[3]
           four == three \o seqs[4]
           witness == [i \in 1..n |-> IF i = 1 THEN seqs[1] ELSE IF i = 2 THEN two
                                      ELSE IF i = 3 THEN three ELSE four]
<1>1. Len(seqs) = n /\ n # 0
    OBVIOUS
<1>2. FlattenSeq(seqs) = flatten[n]
    BY <1>1 DEF FlattenSeq
<1>3. witness = [i \in 1..n |-> Step(i, witness)]
  <2> HIDE DEF two, three, four
  <2>1. ASSUME NEW i \in 1..n
        PROVE  witness[i] = Step(i, witness)
    <3>1. CASE i = 1
      BY <3>1
    <3>2. CASE i = 2
      BY <3>2 DEF two
    <3>3. CASE i = 3
      BY <3>3 DEF three
    <3>4. CASE i = 4
      BY <3>4 DEF four
    <3> QED BY <3>1, <3>2, <3>3, <3>4
  <2> QED BY <2>1
<1> HIDE DEF witness
<1>4. Unfolds(witness)
    BY <1>1, <1>3
<1> HIDE DEF Unfolds
<1>5. Unfolds(flatten)
    BY <1>4
<1>6. flatten = [i \in 1..n |-> Step(i, flatten)]
    BY <1>1, <1>5 DEF Unfolds
<1> HIDE DEF flatten
<1>7. \A i \in 1..n : flatten[i] = Step(i, flatten)
  <2> HIDE DEF Step
  <2> QED BY <1>6
<1>8. flatten[1] = seqs[1]
    BY <1>7
<1>9. ASSUME NEW i \in 2..n
      PROVE  flatten[i] = flatten[i - 1] \o seqs[i]
  <2>1. i \in 1..n /\ i # 1
    OBVIOUS
  <2>2. flatten[i] = Step(i, flatten)
    BY <1>7, <2>1
  <2> QED BY <2>1, <2>2, Zenon
<1> QED BY <1>2, <1>8, <1>9

LEMMA FlattenPair ==
    ASSUME NEW s \in Seq(Asserted), NEW t \in Seq(Asserted)
    PROVE  FlattenSeq(<<s, t>>) = s \o t
<1> DEFINE seqs == <<s, t>>
<1>1. seqs \in [1..2 -> Seq(Asserted)] /\ seqs[1] = s /\ seqs[2] = t
    OBVIOUS
<1> HIDE DEF seqs
<1>2. PICK f : /\ f[1] = seqs[1] /\ FlattenSeq(seqs) = f[2]
               /\ \A i \in 2..2 : f[i] = f[i - 1] \o seqs[i]
    BY <1>1, 2 \in 1..4, FlattenUnfolds
<1>3. f[2] = f[1] \o seqs[2]
  <2>1. 2 \in 2..2 /\ 2 - 1 = 1
    OBVIOUS
  <2> QED BY <1>2, <2>1
<1> QED BY <1>1, <1>2, <1>3 DEF seqs

\* They hold if each group does, and otherwise the caller is told what one of them says.
LEMMA VerdictOfGroups ==
    ASSUME NEW n \in 1..4, NEW seqs \in [1..n -> Seq(Asserted)]
    PROVE  /\ FlattenSeq(seqs) \in Seq(Asserted)
           /\ Verdict(FlattenSeq(seqs)) = "ok" <=> \A i \in 1..n : Verdict(seqs[i]) = "ok"
           /\ \E i \in 1..n : Verdict(FlattenSeq(seqs)) = Verdict(seqs[i])
<1>1. PICK f : /\ f[1] = seqs[1] /\ FlattenSeq(seqs) = f[n]
               /\ \A i \in 2..n : f[i] = f[i - 1] \o seqs[i]
    BY FlattenUnfolds
<1> DEFINE P(m) == /\ f[m] \in Seq(Asserted)
                   /\ Verdict(f[m]) = "ok" <=> \A i \in 1..m : Verdict(seqs[i]) = "ok"
                   /\ \E i \in 1..m : Verdict(f[m]) = Verdict(seqs[i])
<1>2. P(1)
  <2>1. 1..1 = {1} /\ seqs[1] \in Seq(Asserted)
    OBVIOUS
  <2> QED BY <1>1, <2>1
<1>3. ASSUME NEW m \in 2..n, P(m - 1)
      PROVE  P(m)
  <2>1. f[m] = f[m - 1] \o seqs[m] /\ f[m - 1] \in Seq(Asserted)
    BY <1>1, <1>3
  <2>2. m \in 1..n /\ seqs[m] \in Seq(Asserted)
    OBVIOUS
  <2>3. /\ f[m] \in Seq(Asserted)
        /\ Verdict(f[m]) = IF Verdict(f[m - 1]) = "ok" THEN Verdict(seqs[m]) ELSE Verdict(f[m - 1])
    BY <2>1, <2>2, VerdictOfConcat
  <2>4. \A i : i \in 1..m <=> i \in 1..(m - 1) \/ i = m
    OBVIOUS
  <2> QED BY <1>3, <2>3, <2>4
<1> HIDE DEF P
<1>4. P(n)
  <2>1. n \in {1, 2, 3, 4}
    OBVIOUS
  <2>2. n >= 2 => P(2)
    BY <1>2, <1>3, 2 - 1 = 1
  <2>3. n >= 3 => P(3)
    BY <1>3, <2>2, 3 - 1 = 2
  <2>4. n >= 4 => P(4)
    BY <1>3, <2>3, 4 - 1 = 3
  <2> QED BY <1>2, <2>1, <2>2, <2>3, <2>4
<1> QED BY <1>1, <1>4 DEF P

LEMMA SlotSays ==
    ASSUME NEW l, NEW r, NEW validUntil
    PROVE  /\ SlotChecks(l, r, validUntil) \in Seq(Asserted)
           /\ Verdict(SlotChecks(l, r, validUntil)) =
                IF ~HasAcknowledged(l, r) THEN "NOT_ACKNOWLEDGED"
                ELSE IF ~(validUntil <= DueDay[r]) THEN "INVOICE_OVERDUE" ELSE "ok"
<1> DEFINE a == HasAcknowledged(l, r)
           b == validUntil <= DueDay[r]
<1>1. a \in BOOLEAN /\ b \in BOOLEAN
    BY DEF HasAcknowledged
<1>2. "NOT_ACKNOWLEDGED" \in Codes /\ "INVOICE_OVERDUE" \in Codes
    BY DEF Codes
<1> HIDE DEF a, b
<1>3. /\ << <<a, "NOT_ACKNOWLEDGED">>, <<b, "INVOICE_OVERDUE">> >> \in Seq(Asserted)
      /\ Verdict(<< <<a, "NOT_ACKNOWLEDGED">>, <<b, "INVOICE_OVERDUE">> >>) =
            IF ~a THEN "NOT_ACKNOWLEDGED" ELSE IF ~b THEN "INVOICE_OVERDUE" ELSE "ok"
    BY <1>1, <1>2, VerdictOfTwoAsserts
<1> QED BY <1>3 DEF SlotChecks, a, b

\* What is asked of a pool whatever the day, but for the certificate's own expiry.
PoolIsFit(l, pool, least, validUntil) ==
    /\ ~IsCertified(l, "desk") /\ PoolTotal(pool) >= least
    /\ \A r \in ToSet(pool) : HasAcknowledged(l, r) /\ validUntil <= DueDay[r]

\* A certificate asked for on the desk: accepted if it runs, its pool is fit and every slot free.
LEMMA CertifyPoolSays ==
    ASSUME NEW l, NEW t \in Nat, NEW pool \in Pools, NEW least \in Nat, NEW validUntil \in Nat
    PROVE  LET said == Certify(l, t, "desk", pool, "B", least, validUntil).said
           IN  /\ said = "ok" <=> /\ t < validUntil /\ PoolIsFit(l, pool, least, validUntil)
                                  /\ \A r \in ToSet(pool) : FreeCode(l, t, r) = "ok"
               /\ ~(t < validUntil) => said = "BAD_EXPIRY"
               /\ t < validUntil /\ PoolIsFit(l, pool, least, validUntil) =>
                        \E r \in ToSet(pool) : said = FreeCode(l, t, r)
<1> DEFINE a == t < validUntil
           b == ~IsCertified(l, "desk")
           c == pool # <<>>
           d == IsInjective(pool)
           e == PoolTotal(pool) >= least
           head == << <<a, "BAD_EXPIRY">>, <<b, "DUPLICATE_CERTIFICATE">>, <<c, "EMPTY_POOL">> >>
           slot == [i \in DOMAIN pool |-> SlotChecks(l, pool[i], validUntil)]
           whole == << <<d, "DUPLICATE_INVOICE">>, <<e, "BELOW_FLOOR">> >>
           free == [i \in DOMAIN pool |-> FreeChecks(l, t, pool[i])]
           said == Certify(l, t, "desk", pool, "B", least, validUntil).said
           fit == \A r \in ToSet(pool) : HasAcknowledged(l, r) /\ validUntil <= DueDay[r]
<1>1. said = Verdict(head \o FlattenSeq(slot) \o whole \o FlattenSeq(free))
    BY DEF Certify, Called
<1>2. PICK n \in 1..4 : pool \in [1..n -> Refs] /\ DOMAIN pool = 1..n
    BY PoolReads
<1>3. c /\ d /\ ToSet(pool) = {pool[i] : i \in 1..n}
    BY <1>2, PoolReads DEF ToSet
<1>4. a \in BOOLEAN /\ b \in BOOLEAN /\ c \in BOOLEAN /\ d \in BOOLEAN /\ e \in BOOLEAN
    BY <1>3 DEF IsCertified
<1>5. {"BAD_EXPIRY", "DUPLICATE_CERTIFICATE", "EMPTY_POOL", "DUPLICATE_INVOICE", "BELOW_FLOOR"} \subseteq Codes
    BY DEF Codes
<1>6. /\ FlattenSeq(slot) \in Seq(Asserted)
      /\ Verdict(FlattenSeq(slot)) = "ok" <=> fit
  <2>1. slot \in [1..n -> Seq(Asserted)]
    BY <1>2, SlotSays
  <2>2. \A i \in 1..n : Verdict(slot[i]) = "ok" <=> HasAcknowledged(l, pool[i]) /\ validUntil <= DueDay[pool[i]]
    BY <1>2, SlotSays
  <2> HIDE DEF slot
  <2>3. /\ FlattenSeq(slot) \in Seq(Asserted)
        /\ Verdict(FlattenSeq(slot)) = "ok" <=> \A i \in 1..n : Verdict(slot[i]) = "ok"
    BY <2>1, VerdictOfGroups
  <2> QED BY <1>3, <2>2, <2>3
<1>7. /\ FlattenSeq(free) \in Seq(Asserted)
      /\ Verdict(FlattenSeq(free)) = "ok" <=> \A r \in ToSet(pool) : FreeCode(l, t, r) = "ok"
      /\ \E r \in ToSet(pool) : Verdict(FlattenSeq(free)) = FreeCode(l, t, r)
  <2>1. free \in [1..n -> Seq(Asserted)] /\ \A i \in 1..n : Verdict(free[i]) = FreeCode(l, t, pool[i])
    BY <1>2, FreeSays
  <2> HIDE DEF free
  <2>2. /\ FlattenSeq(free) \in Seq(Asserted)
        /\ Verdict(FlattenSeq(free)) = "ok" <=> \A i \in 1..n : Verdict(free[i]) = "ok"
        /\ \E i \in 1..n : Verdict(FlattenSeq(free)) = Verdict(free[i])
    BY <2>1, VerdictOfGroups
  <2> QED BY <1>3, <2>1, <2>2
<1>8. (a <=> t < validUntil) /\ (PoolIsFit(l, pool, least, validUntil) <=> b /\ e /\ fit)
    BY DEF PoolIsFit
<1> DEFINE slots == FlattenSeq(slot)
           frees == FlattenSeq(free)
<1> HIDE DEF a, b, c, d, e, fit, slot, free
<1>9. head \in Seq(Asserted) /\ Verdict(head) =
        IF ~a THEN "BAD_EXPIRY" ELSE IF ~b THEN "DUPLICATE_CERTIFICATE"
        ELSE IF ~c THEN "EMPTY_POOL" ELSE "ok"
    BY <1>4, <1>5, VerdictOfThreeAsserts
<1>10. whole \in Seq(Asserted) /\ Verdict(whole) =
        IF ~d THEN "DUPLICATE_INVOICE" ELSE IF ~e THEN "BELOW_FLOOR" ELSE "ok"
    BY <1>4, <1>5, VerdictOfTwoAsserts
<1>11. slots \in Seq(Asserted) /\ frees \in Seq(Asserted)
    BY <1>6, <1>7
<1>12. said = Verdict(head \o slots \o whole \o frees)
    BY <1>1
<1> HIDE DEF head, whole, slots, frees, said
<1>13. /\ head \o slots \in Seq(Asserted)
       /\ Verdict(head \o slots) = IF Verdict(head) = "ok" THEN Verdict(slots) ELSE Verdict(head)
    BY <1>9, <1>11, VerdictOfConcat
<1>14. /\ head \o slots \o whole \in Seq(Asserted)
       /\ Verdict(head \o slots \o whole) =
            IF Verdict(head \o slots) = "ok" THEN Verdict(whole) ELSE Verdict(head \o slots)
    BY <1>10, <1>13, VerdictOfConcat
<1>15. Verdict(head \o slots \o whole \o frees) =
            IF Verdict(head \o slots \o whole) = "ok" THEN Verdict(frees)
            ELSE Verdict(head \o slots \o whole)
    BY <1>11, <1>14, VerdictOfConcat
<1>16. /\ Verdict(slots) = "ok" <=> fit
       /\ Verdict(frees) = "ok" <=> \A r \in ToSet(pool) : FreeCode(l, t, r) = "ok"
       /\ \E r \in ToSet(pool) : Verdict(frees) = FreeCode(l, t, r)
    BY <1>6, <1>7 DEF slots, frees
<1>17. /\ said = "ok" <=> a /\ b /\ e /\ fit /\ \A r \in ToSet(pool) : FreeCode(l, t, r) = "ok"
       /\ ~a => said = "BAD_EXPIRY"
       /\ a /\ b /\ e /\ fit => said = Verdict(frees)
    BY <1>3, <1>9, <1>10, <1>12, <1>13, <1>14, <1>15, <1>16
<1> QED BY <1>8, <1>16, <1>17 DEF said

\* What the script's base is asked on any ledger, in order.
BaseVerdict(l, t, least) ==
    IF IsCertified(l, "replay") THEN "DUPLICATE_CERTIFICATE"
    ELSE IF ~HasAcknowledged(l, "1002") THEN "NOT_ACKNOWLEDGED"
    ELSE IF ~(t + CertificateDays <= DueDay["1002"]) THEN "INVOICE_OVERDUE"
    ELSE IF ~HasAcknowledged(l, "1003") THEN "NOT_ACKNOWLEDGED"
    ELSE IF ~(t + CertificateDays <= DueDay["1003"]) THEN "INVOICE_OVERDUE"
    ELSE IF least > 21 THEN "BELOW_FLOOR"
    ELSE IF FreeCode(l, t, "1002") # "ok" THEN FreeCode(l, t, "1002") ELSE FreeCode(l, t, "1003")

LEMMA BasePoolFacts ==
    /\ BasePool[1] = "1002" /\ BasePool[2] = "1003" /\ DOMAIN BasePool = 1..2
    /\ BasePool \in Seq(Refs) /\ BasePool # <<>> /\ IsInjective(BasePool)
    /\ PoolTotal(BasePool) = 21 /\ ToSet(BasePool) = {"1002", "1003"} /\ Len(BasePool) = 2
<1>1. /\ BasePool[1] = "1002" /\ BasePool[2] = "1003" /\ DOMAIN BasePool = 1..2
      /\ BasePool \in Seq(Refs) /\ BasePool # <<>> /\ Len(BasePool) = 2
    BY DEF BasePool, Refs
<1>2. IsInjective(BasePool)
    BY <1>1 DEF IsInjective
<1>3. Amount["1002"] = 12 /\ Amount["1003"] = 9
    BY DEF Amount, Refs
<1>4. PoolTotal(BasePool) = 21
    BY <1>1, <1>3 DEF PoolTotal, SlotAmount
<1>5. ToSet(BasePool) = {"1002", "1003"}
    BY <1>1 DEF ToSet
<1> QED BY <1>1, <1>2, <1>4, <1>5

LEMMA CertifyBaseSays ==
    ASSUME NEW l, NEW t \in Nat, NEW least \in Nat
    PROVE  /\ CertifyBase(l, t, least).said = BaseVerdict(l, t, least)
           /\ CertifyBase(l, t, least).ledger =
                IF CertifyBase(l, t, least).said = "ok"
                THEN CertifiedAs(l, "replay", BasePool, "B", t + CertificateDays) ELSE l
<1> DEFINE until == t + CertificateDays
           a == t < until
           b == ~IsCertified(l, "replay")
           c == BasePool # <<>>
           d == IsInjective(BasePool)
           e == PoolTotal(BasePool) >= least
           head == << <<a, "BAD_EXPIRY">>, <<b, "DUPLICATE_CERTIFICATE">>, <<c, "EMPTY_POOL">> >>
           slots == FlattenSeq([i \in DOMAIN BasePool |-> SlotChecks(l, BasePool[i], until)])
           whole == << <<d, "DUPLICATE_INVOICE">>, <<e, "BELOW_FLOOR">> >>
           free == FlattenSeq([i \in DOMAIN BasePool |-> FreeChecks(l, t, BasePool[i])])
<1>1. CertifyBase(l, t, least) =
        Called(l, head \o slots \o whole \o free, CertifiedAs(l, "replay", BasePool, "B", until))
    BY DEF CertifyBase, Certify, CertifiedAs
<1>2. /\ slots \in Seq(Asserted)
      /\ Verdict(slots) = IF Verdict(SlotChecks(l, "1002", until)) = "ok"
                          THEN Verdict(SlotChecks(l, "1003", until))
                          ELSE Verdict(SlotChecks(l, "1002", until))
  <2> DEFINE x == SlotChecks(l, "1002", until)
             y == SlotChecks(l, "1003", until)
  <2>1. [i \in DOMAIN BasePool |-> SlotChecks(l, BasePool[i], until)] = <<x, y>>
    BY BasePoolFacts
  <2>2. x \in Seq(Asserted) /\ y \in Seq(Asserted)
    BY SlotSays
  <2> HIDE DEF x, y
  <2>3. slots = x \o y
    BY <2>1, <2>2, FlattenPair
  <2> QED BY <2>2, <2>3, VerdictOfConcat DEF x, y
<1>3. /\ free \in Seq(Asserted)
      /\ Verdict(free) = IF FreeCode(l, t, "1002") = "ok" THEN FreeCode(l, t, "1003")
                         ELSE FreeCode(l, t, "1002")
  <2> DEFINE x == FreeChecks(l, t, "1002")
             y == FreeChecks(l, t, "1003")
  <2>1. [i \in DOMAIN BasePool |-> FreeChecks(l, t, BasePool[i])] = <<x, y>>
    BY BasePoolFacts
  <2>2. x \in Seq(Asserted) /\ y \in Seq(Asserted)
    BY FreeSays
  <2> HIDE DEF x, y
  <2>3. free = x \o y
    BY <2>1, <2>2, FlattenPair
  <2>4. Verdict(x) = FreeCode(l, t, "1002") /\ Verdict(y) = FreeCode(l, t, "1003")
    BY FreeSays DEF x, y
  <2> QED BY <2>2, <2>3, <2>4, VerdictOfConcat
<1>4. a /\ c /\ d /\ (e <=> ~(least > 21)) /\ (b <=> ~IsCertified(l, "replay"))
    BY BasePoolFacts DEF CertificateDays
<1>5. a \in BOOLEAN /\ b \in BOOLEAN /\ c \in BOOLEAN /\ d \in BOOLEAN /\ e \in BOOLEAN
    BY <1>4 DEF IsCertified
<1>6. {"BAD_EXPIRY", "DUPLICATE_CERTIFICATE", "EMPTY_POOL", "DUPLICATE_INVOICE", "BELOW_FLOOR"} \subseteq Codes
    BY DEF Codes
<1> HIDE DEF a, b, c, d, e
<1>7. head \in Seq(Asserted) /\ Verdict(head) = IF ~b THEN "DUPLICATE_CERTIFICATE" ELSE "ok"
  <2>1. head \in Seq(Asserted) /\ Verdict(head) =
          IF ~a THEN "BAD_EXPIRY" ELSE IF ~b THEN "DUPLICATE_CERTIFICATE"
          ELSE IF ~c THEN "EMPTY_POOL" ELSE "ok"
    BY <1>5, <1>6, VerdictOfThreeAsserts
  <2> QED BY <1>4, <2>1
<1>8. whole \in Seq(Asserted) /\ Verdict(whole) = IF ~e THEN "BELOW_FLOOR" ELSE "ok"
  <2>1. whole \in Seq(Asserted) /\ Verdict(whole) =
          IF ~d THEN "DUPLICATE_INVOICE" ELSE IF ~e THEN "BELOW_FLOOR" ELSE "ok"
    BY <1>5, <1>6, VerdictOfTwoAsserts
  <2> QED BY <1>4, <2>1
<1> HIDE DEF head, slots, whole, free
<1>9. /\ head \o slots \in Seq(Asserted)
      /\ Verdict(head \o slots) = IF Verdict(head) = "ok" THEN Verdict(slots) ELSE Verdict(head)
    BY <1>2, <1>7, VerdictOfConcat
<1>10. /\ head \o slots \o whole \in Seq(Asserted)
       /\ Verdict(head \o slots \o whole) =
            IF Verdict(head \o slots) = "ok" THEN Verdict(whole) ELSE Verdict(head \o slots)
    BY <1>8, <1>9, VerdictOfConcat
<1>11. Verdict(head \o slots \o whole \o free) =
            IF Verdict(head \o slots \o whole) = "ok" THEN Verdict(free)
            ELSE Verdict(head \o slots \o whole)
    BY <1>3, <1>10, VerdictOfConcat
<1>12. /\ Verdict(SlotChecks(l, "1002", until)) =
            IF ~HasAcknowledged(l, "1002") THEN "NOT_ACKNOWLEDGED"
            ELSE IF ~(until <= DueDay["1002"]) THEN "INVOICE_OVERDUE" ELSE "ok"
       /\ Verdict(SlotChecks(l, "1003", until)) =
            IF ~HasAcknowledged(l, "1003") THEN "NOT_ACKNOWLEDGED"
            ELSE IF ~(until <= DueDay["1003"]) THEN "INVOICE_OVERDUE" ELSE "ok"
    BY SlotSays
<1>13. Verdict(head \o slots \o whole \o free) = BaseVerdict(l, t, least)
    BY <1>2, <1>3, <1>4, <1>7, <1>8, <1>9, <1>10, <1>11, <1>12 DEF BaseVerdict
<1> QED BY <1>1, <1>13 DEF Called

-----------------------------------------------------------------------------
(* The script, step by step.                                               *)

LEMMA StoredReads ==
    ASSUME NEW keys, NEW l \in Good(keys), NEW r \in Refs, NEW p
    PROVE  /\ \A x \in Refs : PledgeOf(Stored(l, r, p), x) = IF x = r THEN p ELSE PledgeOf(l, x)
           /\ Stored(l, r, p).members = l.members /\ Stored(l, r, p).acks = l.acks
           /\ Stored(l, r, p).records = l.records /\ Stored(l, r, p).certified = l.certified
           /\ Stored(l, r, p).requests = l.requests /\ Stored(l, r, p).approvals = l.approvals
<1>1. l \in Ledgers /\ l.pledges \in [Refs -> Pledges]
    BY DEF Good, Ledgers
<1> DEFINE m == Stored(l, r, p)
<1>2. /\ m.pledges = [l.pledges EXCEPT ![r] = p]
      /\ m.members = l.members /\ m.acks = l.acks /\ m.records = l.records
      /\ m.certified = l.certified /\ m.requests = l.requests /\ m.approvals = l.approvals
    BY <1>1 DEF Stored, Ledgers
<1>3. \A x \in Refs : PledgeOf(m, x) = IF x = r THEN p ELSE PledgeOf(l, x)
    BY <1>1, <1>2 DEF PledgeOf
<1> QED BY <1>2, <1>3

LEMMA LockedReads ==
    ASSUME NEW keys, NEW l \in Good(keys), NEW r \in Refs, NEW lender, NEW expiry
    PROVE  LET m == Locked(l, r, lender, expiry)
           IN  /\ \A x \in Refs : PledgeOf(m, x) =
                    IF x = r THEN Offered(lender, expiry, l.records + 1) ELSE PledgeOf(l, x)
               /\ m.members = l.members /\ m.acks = l.acks /\ m.records = l.records + 1
               /\ m.certified = l.certified /\ m.requests = l.requests /\ m.approvals = l.approvals
<1> DEFINE k == [l EXCEPT !.records = @ + 1]
<1>1. /\ k \in Ledgers /\ k.pledges = l.pledges /\ k.members = l.members /\ k.acks = l.acks
      /\ k.records = l.records + 1 /\ k.certified = l.certified /\ k.requests = l.requests
      /\ k.approvals = l.approvals
    BY DEF Good, Ledgers
<1>2. Locked(l, r, lender, expiry) = Stored(k, r, Offered(lender, expiry, l.records + 1))
    BY DEF Locked
<1> HIDE DEF k
<1>3. k \in Good(keys) /\ \A x \in Refs : PledgeOf(k, x) = PledgeOf(l, x)
    BY <1>1, GoodElsewhere DEF PledgeOf
<1> QED BY <1>1, <1>2, <1>3, StoredReads

LEMMA CertifiedReads ==
    ASSUME NEW keys, NEW l \in Good(keys), NEW until
    PROVE  LET m == CertifiedAs(l, "replay", BasePool, "B", until)
           IN  /\ PledgeOf(m, "1001") = PledgeOf(l, "1001")
               /\ m.members = l.members /\ m.acks = l.acks /\ m.records = l.records + 2
               /\ m.certified = l.certified \cup {"replay"} /\ m.requests = l.requests
               /\ m.approvals = l.approvals
<1>1. l \in Ledgers /\ "1001" \in Refs /\ "1001" \notin ToSet(BasePool) /\ Len(BasePool) = 2
    BY BasePoolFacts DEF Good, Refs
<1> DEFINE slot(r) == CHOOSE i \in DOMAIN BasePool : BasePool[i] = r
           booked == [r \in Refs |-> IF r \in ToSet(BasePool)
                                     THEN Offered("B", until, l.records + slot(r)) ELSE PledgeOf(l, r)]
           k == LockedPool(l, BasePool, "B", until)
           m == CertifiedAs(l, "replay", BasePool, "B", until)
<1>2. k = [l EXCEPT !.records = @ + Len(BasePool), !.pledges = booked]
    BY DEF LockedPool
<1>3. booked["1001"] = PledgeOf(l, "1001")
    BY <1>1
<1> HIDE DEF booked, k
<1>4. m = [k EXCEPT !.certified = @ \cup {"replay"}]
    BY DEF CertifiedAs, k
<1>5. /\ k.pledges = booked /\ k.records = l.records + 2 /\ k.members = l.members /\ k.acks = l.acks
      /\ k.certified = l.certified /\ k.requests = l.requests /\ k.approvals = l.approvals
      /\ DOMAIN k = DOMAIN l
    BY <1>1, <1>2 DEF Ledgers
<1>6. DOMAIN l = {"members", "acks", "pledges", "records", "certified", "requests", "approvals"}
    BY <1>1 DEF Ledgers
<1> HIDE DEF m
<1>7. /\ m.pledges = booked /\ m.records = l.records + 2 /\ m.members = l.members /\ m.acks = l.acks
      /\ m.certified = l.certified \cup {"replay"} /\ m.requests = l.requests
      /\ m.approvals = l.approvals
    BY <1>4, <1>5, <1>6
<1>8. PledgeOf(m, "1001") = PledgeOf(l, "1001")
    BY <1>3, <1>7 DEF PledgeOf
<1> QED BY <1>7, <1>8 DEF m

\* The request of the script: the record its first offer sealed.
TheRequest == [record |-> 1, matter |-> "replay"]

\* A ledger the first i steps of the script leave, under the secrets keys.
Played(i, l, keys) ==
    /\ i >= 1 => IsMember(l, keys)
    /\ \A r \in Refs : HasAcknowledged(l, r) <=>
            (r = "1001" /\ i >= 2) \/ (r \in {"1002", "1003"} /\ i >= 11)
    /\ LET p == PledgeOf(l, "1001")
       IN  /\ p.status = IF i < 3 THEN "ABSENT" ELSE IF i = 3 THEN "OFFERED"
                         ELSE IF i < 8 THEN "PLEDGED" ELSE "SETTLED"
           /\ i >= 3 => p.holder = "A" /\ p.expiry = OfferDays /\ p.record = 1
           /\ i >= 8 => p.payee = "A"
           /\ i < 10 => ~p.claimed
    /\ i < 13 => \A r \in {"1002", "1003"} : PledgeOf(l, r).status = "ABSENT"
    /\ l.records = IF i < 3 THEN 0 ELSE IF i < 13 THEN 1 ELSE 3
    /\ IsCertified(l, "replay") <=> i >= 13
    /\ IsRequested(l, TheRequest) <=> i >= 14
    /\ <<TheRequest, 1>> \in l.approvals <=> i >= 15
    /\ <<TheRequest, 3>> \in l.approvals <=> i >= 16

LEMMA Script17 ==
    ASSUME NEW l, NEW t, NEW keys
    PROVE  /\ RunOf(1, l, t, keys) = AdmitParties(l, keys)
           /\ RunOf(2, l, t, keys) = AcknowledgeInvoice(l, keys)
           /\ RunOf(3, l, t, keys) = OfferTo(l, t, "1001", "A")
           /\ RunOf(4, l, t, keys) = AcceptOffer(l, t, keys)
           /\ RunOf(5, l, t, keys) = OfferTo(l, t, "9999", "B")
           /\ RunOf(6, l, t, keys) = OfferTo(l, t, "inflated", "B")
           /\ RunOf(7, l, t, keys) = OfferTo(l, t, "1001", "B")
           /\ RunOf(8, l, t, keys) = PayInvoice(l)
           /\ RunOf(9, l, t, keys) = ClaimProceeds(l, "seller")
           /\ RunOf(10, l, t, keys) = ClaimProceeds(l, "A")
           /\ RunOf(11, l, t, keys) = AcknowledgeBase(l, keys)
           /\ RunOf(12, l, t, keys) = CertifyBase(l, t, 25)
           /\ RunOf(13, l, t, keys) = CertifyBase(l, t, 20)
           /\ RunOf(14, l, t, keys) = RequestRecord(l)
           /\ RunOf(15, l, t, keys) = ApproveAs(l, 1)
           /\ RunOf(16, l, t, keys) = ApproveAs(l, 3)
           /\ RunOf(17, l, t, keys) = OpenRecord(l)
<1>1. /\ Steps[1][1] = "admit"
      /\ Steps[2][1] = "acknowledge"
      /\ Steps[3][1] = "offer"
      /\ Steps[4][1] = "accept"
      /\ Steps[5][1] = "forged"
      /\ Steps[6][1] = "inflated"
      /\ Steps[7][1] = "double"
      /\ Steps[8][1] = "pay"
      /\ Steps[9][1] = "divert"
      /\ Steps[10][1] = "claim"
      /\ Steps[11][1] = "base-ack"
      /\ Steps[12][1] = "overstate"
      /\ Steps[13][1] = "certify"
      /\ Steps[14][1] = "request"
      /\ Steps[15][1] = "approve-one"
      /\ Steps[16][1] = "approve-two"
      /\ Steps[17][1] = "open"
    BY DEF Steps
<1>2. RunOf(1, l, t, keys) = AdmitParties(l, keys)
    BY <1>1 DEF RunOf
<1>3. RunOf(2, l, t, keys) = AcknowledgeInvoice(l, keys)
    BY <1>1 DEF RunOf
<1>4. RunOf(3, l, t, keys) = OfferTo(l, t, "1001", "A")
    BY <1>1 DEF RunOf
<1>5. RunOf(4, l, t, keys) = AcceptOffer(l, t, keys)
    BY <1>1 DEF RunOf
<1>6. RunOf(5, l, t, keys) = OfferTo(l, t, "9999", "B")
    BY <1>1 DEF RunOf
<1>7. RunOf(6, l, t, keys) = OfferTo(l, t, "inflated", "B")
    BY <1>1 DEF RunOf
<1>8. RunOf(7, l, t, keys) = OfferTo(l, t, "1001", "B")
    BY <1>1 DEF RunOf
<1>9. RunOf(8, l, t, keys) = PayInvoice(l)
    BY <1>1 DEF RunOf
<1>10. RunOf(9, l, t, keys) = ClaimProceeds(l, "seller")
    BY <1>1 DEF RunOf
<1>11. RunOf(10, l, t, keys) = ClaimProceeds(l, "A")
    BY <1>1 DEF RunOf
<1>12. RunOf(11, l, t, keys) = AcknowledgeBase(l, keys)
    BY <1>1 DEF RunOf
<1>13. RunOf(12, l, t, keys) = CertifyBase(l, t, 25)
    BY <1>1 DEF RunOf
<1>14. RunOf(13, l, t, keys) = CertifyBase(l, t, 20)
    BY <1>1 DEF RunOf
<1>15. RunOf(14, l, t, keys) = RequestRecord(l)
    BY <1>1 DEF RunOf
<1>16. RunOf(15, l, t, keys) = ApproveAs(l, 1)
    BY <1>1 DEF RunOf
<1>17. RunOf(16, l, t, keys) = ApproveAs(l, 3)
    BY <1>1 DEF RunOf
<1>18. RunOf(17, l, t, keys) = OpenRecord(l)
    BY <1>1 DEF RunOf
<1> QED BY <1>2, <1>3, <1>4, <1>5, <1>6, <1>7, <1>8, <1>9, <1>10, <1>11, <1>12, <1>13, <1>14, <1>15, <1>16, <1>17, <1>18

LEMMA Play1 ==
    ASSUME NEW keys \in Nat, NEW l \in Good(keys), Played(0, l, keys)
    PROVE  AdmitParties(l, keys).said = "ok" /\ Played(1, AdmitParties(l, keys).ledger, keys)
<1> DEFINE m == AdmittedTo(l, keys)
<1>1. AdmitParties(l, keys).said = "ok" /\ AdmitParties(l, keys).ledger = m
    BY AdmitSays DEF AdmitParties
<1>2. l \in Ledgers /\ l.members \in Seq(Nat)
    BY DEF Good, Ledgers
<1>3. /\ m.members = Append(l.members, keys) /\ m.acks = l.acks /\ m.records = l.records
      /\ m.certified = l.certified /\ m.requests = l.requests /\ m.approvals = l.approvals
      /\ m.pledges = l.pledges
    BY <1>2 DEF AdmittedTo, Ledgers
<1>4. keys \in ToSet(Append(l.members, keys))
  <2> DEFINE s == l.members
  <2>1. s \in Seq(Nat)
    BY <1>2
  <2> HIDE DEF s
  <2>2. Len(s) + 1 \in DOMAIN Append(s, keys) /\ Append(s, keys)[Len(s) + 1] = keys
    BY <2>1
  <2>3. keys \in ToSet(Append(s, keys))
    BY <2>2 DEF ToSet
  <2> QED BY <2>3 DEF s
<1> HIDE DEF m
<1>5. Played(1, m, keys)
    BY <1>3, <1>4 DEF Played, IsMember, HasAcknowledged, PledgeOf, IsCertified, IsRequested
<1> QED BY <1>1, <1>5

LEMMA Play2 ==
    ASSUME NEW keys \in Nat, NEW l \in Good(keys), Played(1, l, keys)
    PROVE  AcknowledgeInvoice(l, keys).said = "ok" /\ Played(2, AcknowledgeInvoice(l, keys).ledger, keys)
<1> DEFINE m == Acknowledged(l, "1001")
<1>0. "1001" \in Refs
    BY DEF Refs
<1>1. IsMember(l, keys) /\ ~HasAcknowledged(l, "1001")
    BY <1>0 DEF Played
<1>2. AcknowledgeInvoice(l, keys).said = "ok" /\ AcknowledgeInvoice(l, keys).ledger = m
    BY <1>1, AcknowledgeSays DEF AcknowledgeInvoice
<1>3. /\ m.members = l.members /\ m.acks = l.acks \cup {"1001"} /\ m.records = l.records
      /\ m.certified = l.certified /\ m.requests = l.requests /\ m.approvals = l.approvals
      /\ m.pledges = l.pledges
    BY DEF Acknowledged, Good, Ledgers
<1> HIDE DEF m
<1>4. Played(2, m, keys)
    BY <1>3 DEF Played, IsMember, HasAcknowledged, PledgeOf, IsCertified, IsRequested
<1> QED BY <1>2, <1>4

LEMMA Play3 ==
    ASSUME NEW keys \in Nat, NEW l \in Good(keys), Played(2, l, keys)
    PROVE  /\ OfferTo(l, 0, "1001", "A").said = "ok"
           /\ Played(3, OfferTo(l, 0, "1001", "A").ledger, keys)
<1> DEFINE m == Locked(l, "1001", "A", OfferDays)
<1>0. "1001" \in Refs /\ "1002" \in Refs /\ "1003" \in Refs /\ DueDay["1001"] = 90 /\ OfferDays = 7
    BY DEF Refs, DueDay, OfferDays
<1>1. HasAcknowledged(l, "1001") /\ FreeCode(l, 0, "1001") = "ok" /\ l.records = 0
    BY <1>0 DEF Played, FreeCode
<1>2. OfferTo(l, 0, "1001", "A").said = "ok" /\ OfferTo(l, 0, "1001", "A").ledger = m
    BY <1>0, <1>1, OfferSays DEF OfferTo
<1>3. /\ \A x \in Refs : PledgeOf(m, x) =
            IF x = "1001" THEN Offered("A", OfferDays, l.records + 1) ELSE PledgeOf(l, x)
      /\ m.members = l.members /\ m.acks = l.acks /\ m.records = l.records + 1
      /\ m.certified = l.certified /\ m.requests = l.requests /\ m.approvals = l.approvals
    BY <1>0, LockedReads
<1>4. /\ PledgeOf(m, "1001").status = "OFFERED" /\ PledgeOf(m, "1001").holder = "A"
      /\ PledgeOf(m, "1001").expiry = OfferDays /\ PledgeOf(m, "1001").record = 1
      /\ ~PledgeOf(m, "1001").claimed
  <2>1. PledgeOf(m, "1001") = Offered("A", OfferDays, 1)
    BY <1>0, <1>1, <1>3
  <2> QED BY <2>1 DEF Offered, NoPledge
<1>5. PledgeOf(m, "1002") = PledgeOf(l, "1002") /\ PledgeOf(m, "1003") = PledgeOf(l, "1003")
    BY <1>0, <1>3
<1> HIDE DEF m
<1>6. Played(3, m, keys)
    BY <1>1, <1>3, <1>4, <1>5 DEF Played, IsMember, HasAcknowledged, IsCertified, IsRequested
<1> QED BY <1>2, <1>6

\* A step that writes the pledge of 1001 alone.
LEMMA PledgeStep ==
    ASSUME NEW keys, NEW l \in Good(keys), NEW p, NEW i \in {4, 8, 10}, Played(i - 1, l, keys),
           p.status = IF i = 4 THEN "PLEDGED" ELSE "SETTLED",
           p.holder = "A", p.expiry = OfferDays, p.record = 1,
           i >= 8 => p.payee = "A",
           i < 10 => ~p.claimed
    PROVE  Played(i, Stored(l, "1001", p), keys)
<1> DEFINE m == Stored(l, "1001", p)
<1>1. "1001" \in Refs /\ "1002" \in Refs /\ "1003" \in Refs
    BY DEF Refs
<1>2. /\ \A x \in Refs : PledgeOf(m, x) = IF x = "1001" THEN p ELSE PledgeOf(l, x)
      /\ m.members = l.members /\ m.acks = l.acks /\ m.records = l.records
      /\ m.certified = l.certified /\ m.requests = l.requests /\ m.approvals = l.approvals
    BY <1>1, StoredReads
<1>3. PledgeOf(m, "1001") = p /\ PledgeOf(m, "1002") = PledgeOf(l, "1002")
      /\ PledgeOf(m, "1003") = PledgeOf(l, "1003")
    BY <1>1, <1>2
<1> HIDE DEF m
<1>4. Played(i, m, keys)
    BY <1>2, <1>3 DEF Played, IsMember, HasAcknowledged, IsCertified, IsRequested
<1> QED BY <1>4 DEF m

LEMMA Play4 ==
    ASSUME NEW keys \in Nat, NEW l \in Good(keys), Played(3, l, keys)
    PROVE  AcceptOffer(l, 0, keys).said = "ok" /\ Played(4, AcceptOffer(l, 0, keys).ledger, keys)
<1> DEFINE p == PledgeOf(l, "1001")
           q == [p EXCEPT !.status = "PLEDGED"]
<1>1. /\ IsMember(l, keys) /\ p.status = "OFFERED" /\ p.holder = "A" /\ p.expiry = 7 /\ p.record = 1
      /\ ~p.claimed
    BY DEF Played, OfferDays
<1>2. AcceptOffer(l, 0, keys).said = "ok" /\ AcceptOffer(l, 0, keys).ledger = Stored(l, "1001", q)
    BY <1>1, AcceptSays DEF AcceptOffer, Accepted
<1>3. p \in Pledges
    BY PledgeTyped DEF Refs
<1> HIDE DEF p
<1>4. /\ q.status = "PLEDGED" /\ q.holder = "A" /\ q.expiry = OfferDays /\ q.record = 1
      /\ q.claimed = p.claimed
    BY <1>1, <1>3 DEF Pledges, OfferDays
<1> HIDE DEF q
<1>5. Played(4, Stored(l, "1001", q), keys)
    BY <1>1, <1>4, PledgeStep
<1> QED BY <1>2, <1>5 DEF q

LEMMA Play5 ==
    ASSUME NEW keys \in Nat, NEW l \in Good(keys), Played(4, l, keys)
    PROVE  /\ OfferTo(l, 0, "9999", "B").said = "NOT_ACKNOWLEDGED"
           /\ Played(5, OfferTo(l, 0, "9999", "B").ledger, keys)
<1>1. ~HasAcknowledged(l, "9999")
    BY DEF Played, Refs
<1>2. OfferTo(l, 0, "9999", "B").said = "NOT_ACKNOWLEDGED" /\ OfferTo(l, 0, "9999", "B").ledger = l
    BY <1>1, OfferSays DEF OfferTo
<1>3. Played(5, l, keys)
    BY DEF Played
<1> QED BY <1>2, <1>3

LEMMA Play6 ==
    ASSUME NEW keys \in Nat, NEW l \in Good(keys), Played(5, l, keys)
    PROVE  /\ OfferTo(l, 0, "inflated", "B").said = "NOT_ACKNOWLEDGED"
           /\ Played(6, OfferTo(l, 0, "inflated", "B").ledger, keys)
<1>1. ~HasAcknowledged(l, "inflated")
    BY DEF Played, Refs
<1>2. /\ OfferTo(l, 0, "inflated", "B").said = "NOT_ACKNOWLEDGED"
      /\ OfferTo(l, 0, "inflated", "B").ledger = l
    BY <1>1, OfferSays DEF OfferTo
<1>3. Played(6, l, keys)
    BY DEF Played
<1> QED BY <1>2, <1>3

LEMMA Play7 ==
    ASSUME NEW keys \in Nat, NEW l \in Good(keys), Played(6, l, keys)
    PROVE  /\ OfferTo(l, 0, "1001", "B").said = "ALREADY_ENCUMBERED"
           /\ Played(7, OfferTo(l, 0, "1001", "B").ledger, keys)
<1>1. HasAcknowledged(l, "1001") /\ PledgeOf(l, "1001").status = "PLEDGED" /\ DueDay["1001"] = 90
    BY DEF Played, Refs, DueDay
<1>2. FreeCode(l, 0, "1001") = "ALREADY_ENCUMBERED"
    BY <1>1 DEF FreeCode
<1>3. /\ OfferTo(l, 0, "1001", "B").said = "ALREADY_ENCUMBERED"
      /\ OfferTo(l, 0, "1001", "B").ledger = l
    BY <1>1, <1>2, OfferSays DEF OfferTo, OfferDays
<1>4. Played(7, l, keys)
    BY DEF Played
<1> QED BY <1>3, <1>4

LEMMA Play8 ==
    ASSUME NEW keys \in Nat, NEW l \in Good(keys), Played(7, l, keys)
    PROVE  PayInvoice(l).said = "ok" /\ Played(8, PayInvoice(l).ledger, keys)
<1> DEFINE p == PledgeOf(l, "1001")
           q == [p EXCEPT !.status = "SETTLED",
                          !.payee = IF p.status = "PLEDGED" THEN p.holder ELSE "seller"]
<1>1. /\ HasAcknowledged(l, "1001") /\ p.status = "PLEDGED" /\ p.holder = "A" /\ p.record = 1
      /\ p.expiry = OfferDays /\ ~p.claimed
    BY DEF Played, Refs
<1>2. PayInvoice(l).said = "ok" /\ PayInvoice(l).ledger = Stored(l, "1001", q)
    BY <1>1, PaySays DEF PayInvoice, Paid
<1>3. p \in Pledges
    BY PledgeTyped DEF Refs
<1> HIDE DEF p
<1>4. /\ q.status = "SETTLED" /\ q.holder = "A" /\ q.expiry = OfferDays /\ q.record = 1
      /\ q.payee = "A" /\ q.claimed = p.claimed
    BY <1>1, <1>3 DEF Pledges
<1> HIDE DEF q
<1>5. Played(8, Stored(l, "1001", q), keys)
    BY <1>1, <1>4, PledgeStep
<1> QED BY <1>2, <1>5 DEF q

LEMMA Play9 ==
    ASSUME NEW keys \in Nat, NEW l \in Good(keys), Played(8, l, keys)
    PROVE  /\ ClaimProceeds(l, "seller").said = "NOT_PAYEE"
           /\ Played(9, ClaimProceeds(l, "seller").ledger, keys)
<1>1. PledgeOf(l, "1001").status = "SETTLED" /\ PledgeOf(l, "1001").payee = "A"
    BY DEF Played
<1>2. ClaimProceeds(l, "seller").said = "NOT_PAYEE" /\ ClaimProceeds(l, "seller").ledger = l
    BY <1>1, ClaimSays DEF ClaimProceeds
<1>3. Played(9, l, keys)
    BY DEF Played
<1> QED BY <1>2, <1>3

LEMMA Play10 ==
    ASSUME NEW keys \in Nat, NEW l \in Good(keys), Played(9, l, keys)
    PROVE  ClaimProceeds(l, "A").said = "ok" /\ Played(10, ClaimProceeds(l, "A").ledger, keys)
<1> DEFINE p == PledgeOf(l, "1001")
           q == [p EXCEPT !.claimed = TRUE]
<1>1. /\ p.status = "SETTLED" /\ p.holder = "A" /\ p.record = 1 /\ p.payee = "A"
      /\ p.expiry = OfferDays /\ ~p.claimed
    BY DEF Played
<1>2. ClaimProceeds(l, "A").said = "ok" /\ ClaimProceeds(l, "A").ledger = Stored(l, "1001", q)
    BY <1>1, ClaimSays DEF ClaimProceeds, Claimed
<1>3. p \in Pledges
    BY PledgeTyped DEF Refs
<1> HIDE DEF p
<1>4. /\ q.status = "SETTLED" /\ q.holder = "A" /\ q.expiry = OfferDays /\ q.record = 1
      /\ q.payee = "A"
    BY <1>1, <1>3 DEF Pledges
<1> HIDE DEF q
<1>5. Played(10, Stored(l, "1001", q), keys)
    BY <1>1, <1>4, PledgeStep
<1> QED BY <1>2, <1>5 DEF q

LEMMA Play11 ==
    ASSUME NEW keys \in Nat, NEW l \in Good(keys), Played(10, l, keys)
    PROVE  AcknowledgeBase(l, keys).said = "ok" /\ Played(11, AcknowledgeBase(l, keys).ledger, keys)
<1> DEFINE k == Acknowledged(l, "1002")
           m == Acknowledged(k, "1003")
<1>0. {"1001", "1002", "1003"} \subseteq Refs /\ BasePool[1] = "1002" /\ BasePool[2] = "1003"
    BY BasePoolFacts DEF Refs
<1>1. IsMember(l, keys) /\ ~HasAcknowledged(l, "1002") /\ ~HasAcknowledged(l, "1003")
    BY <1>0 DEF Played
<1>2. Acknowledge(l, keys, "1002").said = "ok" /\ Acknowledge(l, keys, "1002").ledger = k
    BY <1>1, AcknowledgeSays
<1>3. k \in Good(keys)
    BY <1>0, <1>2, AcknowledgeGood
<1>4. /\ k.members = l.members /\ k.acks = l.acks \cup {"1002"} /\ k.records = l.records
      /\ k.certified = l.certified /\ k.requests = l.requests /\ k.approvals = l.approvals
      /\ k.pledges = l.pledges
    BY DEF Acknowledged, Good, Ledgers
<1> HIDE DEF k
<1>5. IsMember(k, keys) /\ ~HasAcknowledged(k, "1003")
    BY <1>1, <1>4 DEF IsMember, HasAcknowledged
<1>6. Acknowledge(k, keys, "1003").said = "ok" /\ Acknowledge(k, keys, "1003").ledger = m
    BY <1>5, AcknowledgeSays
<1>7. /\ m.members = k.members /\ m.acks = k.acks \cup {"1003"} /\ m.records = k.records
      /\ m.certified = k.certified /\ m.requests = k.requests /\ m.approvals = k.approvals
      /\ m.pledges = k.pledges
    BY <1>3 DEF Acknowledged, Good, Ledgers
<1> HIDE DEF m
<1>8. Played(11, m, keys)
    BY <1>4, <1>7 DEF Played, IsMember, HasAcknowledged, PledgeOf, IsCertified, IsRequested
<1> QED BY <1>0, <1>2, <1>6, <1>8 DEF AcknowledgeBase

LEMMA Play12 ==
    ASSUME NEW keys \in Nat, NEW l \in Good(keys), Played(11, l, keys)
    PROVE  CertifyBase(l, 0, 25).said = "BELOW_FLOOR" /\ Played(12, CertifyBase(l, 0, 25).ledger, keys)
<1> DEFINE least == 25
<1>0. {"1002", "1003"} \subseteq Refs /\ DueDay["1002"] = 75 /\ DueDay["1003"] = 60
    BY DEF Refs, DueDay
<1>1. HasAcknowledged(l, "1002") /\ HasAcknowledged(l, "1003") /\ ~IsCertified(l, "replay")
    BY <1>0 DEF Played
<1>2. BaseVerdict(l, 0, least) = "BELOW_FLOOR"
    BY <1>0, <1>1 DEF BaseVerdict, CertificateDays
<1>3. 0 \in Nat /\ least \in Nat
    OBVIOUS
<1> HIDE DEF least
<1>4. CertifyBase(l, 0, least).said = BaseVerdict(l, 0, least)
    BY <1>3, CertifyBaseSays
<1>7. CertifyBase(l, 0, least).ledger =
        IF CertifyBase(l, 0, least).said = "ok"
        THEN CertifiedAs(l, "replay", BasePool, "B", 0 + CertificateDays) ELSE l
    BY <1>3, CertifyBaseSays
<1>5. Played(12, l, keys)
    BY DEF Played
<1>6. CertifyBase(l, 0, least).said = "BELOW_FLOOR" /\ Played(12, CertifyBase(l, 0, least).ledger, keys)
    BY <1>2, <1>4, <1>5, <1>7
<1> QED BY <1>6 DEF least

LEMMA Play13 ==
    ASSUME NEW keys \in Nat, NEW l \in Good(keys), Played(12, l, keys)
    PROVE  CertifyBase(l, 0, 20).said = "ok" /\ Played(13, CertifyBase(l, 0, 20).ledger, keys)
<1> DEFINE m == CertifiedAs(l, "replay", BasePool, "B", 0 + CertificateDays)
<1>0. {"1002", "1003"} \subseteq Refs /\ DueDay["1002"] = 75 /\ DueDay["1003"] = 60
    BY DEF Refs, DueDay
<1>1. /\ HasAcknowledged(l, "1002") /\ HasAcknowledged(l, "1003") /\ ~IsCertified(l, "replay")
      /\ PledgeOf(l, "1002").status = "ABSENT" /\ PledgeOf(l, "1003").status = "ABSENT"
    BY <1>0 DEF Played
<1>2. FreeCode(l, 0, "1002") = "ok" /\ FreeCode(l, 0, "1003") = "ok"
    BY <1>1 DEF FreeCode
<1>3. BaseVerdict(l, 0, 20) = "ok"
    BY <1>0, <1>1, <1>2 DEF BaseVerdict, CertificateDays
<1>4. CertifyBase(l, 0, 20).said = "ok" /\ CertifyBase(l, 0, 20).ledger = m
    BY <1>3, CertifyBaseSays
<1>5. /\ PledgeOf(m, "1001") = PledgeOf(l, "1001")
      /\ m.members = l.members /\ m.acks = l.acks /\ m.records = l.records + 2
      /\ m.certified = l.certified \cup {"replay"} /\ m.requests = l.requests
      /\ m.approvals = l.approvals
    BY CertifiedReads
<1> HIDE DEF m
<1>6. Played(13, m, keys)
    BY <1>5 DEF Played, IsMember, HasAcknowledged, IsCertified, IsRequested
<1> QED BY <1>4, <1>6

LEMMA Play14 ==
    ASSUME NEW keys \in Nat, NEW l \in Good(keys), Played(13, l, keys)
    PROVE  RequestRecord(l).said = "ok" /\ Played(14, RequestRecord(l).ledger, keys)
<1> DEFINE m == Requested(l, TheRequest)
<1>1. /\ PledgeOf(l, "1001").status # "ABSENT" /\ ReplayRequest(l) = TheRequest
      /\ IsSealed(l, TheRequest.record) /\ ~IsRequested(l, TheRequest)
    BY DEF Played, ReplayRequest, TheRequest, IsSealed
<1>2. RequestRecord(l).said = "ok" /\ RequestRecord(l).ledger = m
    BY <1>1, RequestSays DEF RequestRecord, OfPledge
<1>3. /\ m.members = l.members /\ m.acks = l.acks /\ m.records = l.records
      /\ m.certified = l.certified /\ m.requests = l.requests \cup {TheRequest}
      /\ m.approvals = l.approvals /\ m.pledges = l.pledges
    BY DEF Requested, Good, Ledgers
<1> HIDE DEF m
<1>4. Played(14, m, keys)
    BY <1>3 DEF Played, IsMember, HasAcknowledged, PledgeOf, IsCertified, IsRequested
<1> QED BY <1>2, <1>4

LEMMA ApprovedReads ==
    ASSUME NEW keys, NEW l \in Good(keys), NEW k \in 1..3
    PROVE  LET m == Approved(l, TheRequest, k)
           IN  /\ m.members = l.members /\ m.acks = l.acks /\ m.records = l.records
               /\ m.certified = l.certified /\ m.requests = l.requests /\ m.pledges = l.pledges
               /\ m.approvals = l.approvals \cup {<<TheRequest, k>>}
<1> DEFINE grown == l.approvals \cup {<<TheRequest, k>>}
           m == Approved(l, TheRequest, k)
<1>1. m = [l EXCEPT !.approvals = grown]
    BY DEF Approved
<1>2. l \in Ledgers
    BY DEF Good
<1> HIDE DEF grown, m
<1>3. /\ m.members = l.members /\ m.acks = l.acks /\ m.records = l.records
      /\ m.certified = l.certified /\ m.requests = l.requests /\ m.pledges = l.pledges
      /\ m.approvals = grown
    BY <1>1, <1>2 DEF Ledgers
<1> QED BY <1>3 DEF m, grown

LEMMA Play15 ==
    ASSUME NEW keys \in Nat, NEW l \in Good(keys), Played(14, l, keys)
    PROVE  ApproveAs(l, 1).said = "ok" /\ Played(15, ApproveAs(l, 1).ledger, keys)
<1> DEFINE m == Approved(l, TheRequest, 1)
<1>1. /\ PledgeOf(l, "1001").status # "ABSENT" /\ ReplayRequest(l) = TheRequest
      /\ IsRequested(l, TheRequest) /\ <<TheRequest, 1>> \notin l.approvals
    BY DEF Played, ReplayRequest, TheRequest
<1>2. ApproveAs(l, 1).said = "ok" /\ ApproveAs(l, 1).ledger = m
    BY <1>1, ApproveSays DEF ApproveAs, OfPledge
<1>3. /\ m.members = l.members /\ m.acks = l.acks /\ m.records = l.records
      /\ m.certified = l.certified /\ m.requests = l.requests /\ m.pledges = l.pledges
      /\ m.approvals = l.approvals \cup {<<TheRequest, 1>>}
    BY ApprovedReads
<1> HIDE DEF m
<1>4. <<TheRequest, 3>> # <<TheRequest, 1>>
    OBVIOUS
<1>5. Played(15, m, keys)
    BY <1>3, <1>4 DEF Played, IsMember, HasAcknowledged, PledgeOf, IsCertified, IsRequested
<1> QED BY <1>2, <1>5

LEMMA Play16 ==
    ASSUME NEW keys \in Nat, NEW l \in Good(keys), Played(15, l, keys)
    PROVE  ApproveAs(l, 3).said = "ok" /\ Played(16, ApproveAs(l, 3).ledger, keys)
<1> DEFINE m == Approved(l, TheRequest, 3)
<1>1. /\ PledgeOf(l, "1001").status # "ABSENT" /\ ReplayRequest(l) = TheRequest
      /\ IsRequested(l, TheRequest) /\ <<TheRequest, 3>> \notin l.approvals
    BY DEF Played, ReplayRequest, TheRequest
<1>2. ApproveAs(l, 3).said = "ok" /\ ApproveAs(l, 3).ledger = m
    BY <1>1, ApproveSays DEF ApproveAs, OfPledge
<1>3. /\ m.members = l.members /\ m.acks = l.acks /\ m.records = l.records
      /\ m.certified = l.certified /\ m.requests = l.requests /\ m.pledges = l.pledges
      /\ m.approvals = l.approvals \cup {<<TheRequest, 3>>}
    BY ApprovedReads
<1> HIDE DEF m
<1>4. Played(16, m, keys)
    BY <1>3 DEF Played, IsMember, HasAcknowledged, PledgeOf, IsCertified, IsRequested
<1> QED BY <1>2, <1>4

LEMMA Play17 ==
    ASSUME NEW keys \in Nat, NEW l \in Good(keys), Played(16, l, keys)
    PROVE  OpenRecord(l).said = "ok" /\ Played(17, OpenRecord(l).ledger, keys)
<1>1. /\ ReplayRequest(l) = TheRequest /\ IsRequested(l, TheRequest)
      /\ <<TheRequest, 1>> \in l.approvals /\ <<TheRequest, 3>> \in l.approvals
    BY DEF Played, ReplayRequest, TheRequest
<1> DEFINE given == Approvals(l, TheRequest)
<1>2. {1, 3} \subseteq given /\ given \subseteq 1..3
    BY <1>1 DEF Approvals
<1>3. IsFiniteSet(given)
    BY <1>2, FS_Interval, FS_Subset
<1>4. Cardinality({1, 3}) = 2
  <2>1. IsFiniteSet({1}) /\ Cardinality({1}) = 1
    BY FS_Singleton
  <2>2. Cardinality({1} \cup {3}) = Cardinality({1}) + 1
    BY <2>1, FS_AddElement
  <2>3. {1} \cup {3} = {1, 3}
    OBVIOUS
  <2> QED BY <2>1, <2>2, <2>3
<1> HIDE DEF given
<1>5. Cardinality(given) >= 2
    BY <1>2, <1>3, <1>4, FS_Subset, FS_CardinalityType
<1>6. Opens(l, ReplayRequest(l))
    BY <1>1, <1>5 DEF Opens, given
<1>7. Played(17, l, keys)
    BY DEF Played
<1> QED BY <1>6, <1>7 DEF OpenRecord

\* What a step can answer.
Answers == Codes \cup {"ok", "error"}

LEMMA RunOfAnswers ==
    ASSUME NEW keys, NEW l, NEW t \in Nat, NEW i \in 1..N
    PROVE  RunOf(i, l, t, keys).said \in Answers
<1>1. i \in {1, 2, 3, 4, 5, 6, 7, 8, 9, 10, 11, 12, 13, 14, 15, 16, 17}
  <2>1. i \in 1..17
    BY DEF N, Steps
  <2> QED BY <2>1
<1>2. AdmitParties(l, keys).said \in Answers
    BY AdmitSays DEF AdmitParties, Answers
<1>3. \A k, r : Acknowledge(k, keys, r).said \in Answers
    BY AcknowledgeSays DEF Answers, Codes
<1>4. AcknowledgeInvoice(l, keys).said \in Answers /\ AcknowledgeBase(l, keys).said \in Answers
    BY <1>3 DEF AcknowledgeInvoice, AcknowledgeBase
<1>5. \A r : FreeCode(l, t, r) \in Answers
    BY DEF FreeCode, Answers, Codes
<1>6. \A r, f : OfferTo(l, t, r, f).said \in Answers
    BY <1>5, OfferSays DEF OfferTo, Answers, Codes
<1>7. AcceptOffer(l, t, keys).said \in Answers
    BY AcceptSays DEF AcceptOffer, Answers, Codes
<1>8. PayInvoice(l).said \in Answers
    BY PaySays DEF PayInvoice, Answers, Codes
<1>9. \A party : ClaimProceeds(l, party).said \in Answers
    BY ClaimSays DEF ClaimProceeds, Answers, Codes
<1>10. \A least \in Nat : CertifyBase(l, t, least).said \in Answers
  <2>1. \A least \in Nat : BaseVerdict(l, t, least) \in Answers
    BY <1>5 DEF BaseVerdict, Answers, Codes
  <2>2. \A least \in Nat : CertifyBase(l, t, least).said = BaseVerdict(l, t, least)
    BY CertifyBaseSays
  <2> QED BY <2>1, <2>2
<1>11. RequestRecord(l).said \in Answers
    BY RequestSays DEF RequestRecord, OfPledge, Answers, Codes
<1>12. \A k : ApproveAs(l, k).said \in Answers
    BY ApproveSays DEF ApproveAs, OfPledge, Answers, Codes
<1>13. OpenRecord(l).said \in Answers
    BY DEF OpenRecord, Answers
<1>14. CASE i \in {1, 2, 3, 4, 5, 6}
    BY <1>14, <1>2, <1>4, <1>6, <1>7, Script17
<1>15. CASE i \in {7, 8, 9, 10, 11}
    BY <1>15, <1>4, <1>6, <1>8, <1>9, Script17
<1>16. CASE i \in {12, 13}
  <2>1. RunOf(12, l, t, keys).said \in Answers /\ RunOf(13, l, t, keys).said \in Answers
    BY <1>10, Script17
  <2> QED BY <1>16, <2>1
<1>17. CASE i \in {14, 15, 16, 17}
    BY <1>17, <1>11, <1>12, <1>13, Script17
<1> QED BY <1>1, <1>14, <1>15, <1>16, <1>17

LEMMA DeployedPlayed ==
    ASSUME NEW keys
    PROVE  Played(0, DeployedLedger, keys)
BY DEF Played, DeployedLedger, IsMember, HasAcknowledged, PledgeOf, IsCertified, IsRequested, Refs,
       NoPledge

\* On a ledger the steps before it have made of a deployed one, on its first day, a step answers
\* what the script says.
LEMMA StepPlays ==
    ASSUME NEW keys \in Nat, NEW l \in Good(keys), NEW i \in 1..N, Played(i - 1, l, keys)
    PROVE  /\ RunOf(i, l, 0, keys).said = Expected(i)
           /\ Played(i, RunOf(i, l, 0, keys).ledger, keys)
<1>1. i \in {1, 2, 3, 4, 5, 6, 7, 8, 9, 10, 11, 12, 13, 14, 15, 16, 17}
  <2>1. i \in 1..17
    BY DEF N, Steps
  <2> QED BY <2>1
<1>2. \A j \in 1..17 : Expected(j) =
        IF j \in {5, 6} THEN "NOT_ACKNOWLEDGED" ELSE IF j = 7 THEN "ALREADY_ENCUMBERED"
        ELSE IF j = 9 THEN "NOT_PAYEE" ELSE IF j = 12 THEN "BELOW_FLOOR" ELSE "ok"
  <2>1. \A j \in {1, 2, 3, 4, 5, 6, 7, 8, 9, 10, 11, 12, 13, 14, 15, 16, 17} : Expected(j) =
        IF j \in {5, 6} THEN "NOT_ACKNOWLEDGED" ELSE IF j = 7 THEN "ALREADY_ENCUMBERED"
        ELSE IF j = 9 THEN "NOT_PAYEE" ELSE IF j = 12 THEN "BELOW_FLOOR" ELSE "ok"
    BY DEF Expected, Steps
  <2> QED BY <2>1
<1>3. CASE i = 1
    BY <1>3, <1>2, Play1, Script17
<1>4. CASE i = 2
    BY <1>4, <1>2, Play2, Script17
<1>5. CASE i = 3
    BY <1>5, <1>2, Play3, Script17
<1>6. CASE i = 4
    BY <1>6, <1>2, Play4, Script17
<1>7. CASE i = 5
    BY <1>7, <1>2, Play5, Script17
<1>8. CASE i = 6
    BY <1>8, <1>2, Play6, Script17
<1>9. CASE i = 7
    BY <1>9, <1>2, Play7, Script17
<1>10. CASE i = 8
    BY <1>10, <1>2, Play8, Script17
<1>11. CASE i = 9
    BY <1>11, <1>2, Play9, Script17
<1>12. CASE i = 10
    BY <1>12, <1>2, Play10, Script17
<1>13. CASE i = 11
    BY <1>13, <1>2, Play11, Script17
<1>14. CASE i = 12
    BY <1>14, <1>2, Play12, Script17
<1>15. CASE i = 13
    BY <1>15, <1>2, Play13, Script17
<1>16. CASE i = 14
    BY <1>16, <1>2, Play14, Script17
<1>17. CASE i = 15
    BY <1>17, <1>2, Play15, Script17
<1>18. CASE i = 16
    BY <1>18, <1>2, Play16, Script17
<1>19. CASE i = 17
    BY <1>19, <1>2, Play17, Script17
<1> QED BY <1>1, <1>3, <1>4, <1>5, <1>6, <1>7, <1>8, <1>9, <1>10, <1>11, <1>12, <1>13, <1>14, <1>15,
           <1>16, <1>17, <1>18, <1>19

-----------------------------------------------------------------------------
(* The ledgers of the script: a function defined by recursion is the one   *)
(* its equation says it is.                                                *)

\* What step i makes of ledger l on the first day.
Made(i, l, keys) == RunOf(i, l, 0, keys).ledger

\* g holds the ledgers of the first m steps.
IsLedgerRun(g, m, keys) ==
    g = [i \in 0..m |-> IF i = 0 THEN DeployedLedger ELSE RunOf(i, g[i - 1], 0, keys).ledger]

LEMMA LedgerRunReads ==
    ASSUME NEW g, NEW m \in Nat, NEW keys
    PROVE  IsLedgerRun(g, m, keys) <=>
             /\ g = [i \in 0..m |-> g[i]]
             /\ g[0] = DeployedLedger
             /\ \A i \in 1..m : g[i] = Made(i, g[i - 1], keys)
<1> DEFINE h == [i \in 0..m |-> IF i = 0 THEN DeployedLedger ELSE Made(i, g[i - 1], keys)]
<1>1. IsLedgerRun(g, m, keys) <=> g = h
    BY DEF IsLedgerRun, Made
<1>2. ASSUME g = h
      PROVE  /\ g = [i \in 0..m |-> g[i]]
             /\ g[0] = DeployedLedger
             /\ \A i \in 1..m : g[i] = Made(i, g[i - 1], keys)
  <2>1. DOMAIN g = 0..m /\ g = [i \in DOMAIN g |-> g[i]]
    BY <1>2
  <2>2. \A i \in 0..m : h[i] = IF i = 0 THEN DeployedLedger ELSE Made(i, g[i - 1], keys)
    OBVIOUS
  <2> HIDE DEF h
  <2>3. \A i \in 0..m : g[i] = IF i = 0 THEN DeployedLedger ELSE Made(i, g[i - 1], keys)
    BY <1>2, <2>2
  <2> QED BY <2>1, <2>3
<1>3. ASSUME g = [i \in 0..m |-> g[i]], g[0] = DeployedLedger,
             \A i \in 1..m : g[i] = Made(i, g[i - 1], keys)
      PROVE  g = h
  <2>1. \A i \in 0..m : g[i] = IF i = 0 THEN DeployedLedger ELSE Made(i, g[i - 1], keys)
    <3>1. \A i \in 0..m : i = 0 \/ i \in 1..m
      OBVIOUS
    <3>2. \A i \in 1..m : i # 0
      OBVIOUS
    <3> QED BY <1>3, <3>1, <3>2
  <2>2. h = [i \in 0..m |-> h[i]]
        /\ \A i \in 0..m : h[i] = IF i = 0 THEN DeployedLedger ELSE Made(i, g[i - 1], keys)
    OBVIOUS
  <2> HIDE DEF h
  <2>3. \A i \in 0..m : g[i] = h[i]
    BY <2>1, <2>2
  <2> QED BY <1>3, <2>2, <2>3
<1> QED BY <1>1, <1>2, <1>3

LEMMA LedgerRunExists ==
    ASSUME NEW keys, NEW n \in Nat
    PROVE  \E g : IsLedgerRun(g, n, keys)
<1> DEFINE Without == {m \in Nat : ~\E g : IsLedgerRun(g, m, keys)}
<1>1. SUFFICES ASSUME Without # {}
               PROVE  FALSE
    OBVIOUS
<1>2. PICK m \in Without : \A y \in Without : m <= y
  <2>1. Without \subseteq Nat
    OBVIOUS
  <2> HIDE DEF Without
  <2> QED BY <1>1, <2>1, SmallestOf
<1>3. m # 0
  <2> DEFINE g == [i \in 0..0 |-> DeployedLedger]
  <2>1. g = [i \in 0..0 |-> g[i]] /\ g[0] = DeployedLedger /\ 1..0 = {}
    OBVIOUS
  <2> HIDE DEF g
  <2>2. IsLedgerRun(g, 0, keys)
    BY <2>1, LedgerRunReads
  <2> QED BY <1>2, <2>2
<1>4. PICK g : IsLedgerRun(g, m - 1, keys)
    BY <1>2, <1>3
<1> DEFINE h == [i \in 0..m |-> IF i < m THEN g[i] ELSE Made(m, g[m - 1], keys)]
<1>5. /\ g[0] = DeployedLedger
      /\ \A i \in 1..(m - 1) : g[i] = Made(i, g[i - 1], keys)
  <2> DEFINE q == m - 1
  <2>1. q \in Nat
    BY <1>2, <1>3
  <2> HIDE DEF q
  <2>2. IsLedgerRun(g, q, keys) =>
          g[0] = DeployedLedger /\ \A i \in 1..q : g[i] = Made(i, g[i - 1], keys)
    BY <2>1, LedgerRunReads
  <2> QED BY <1>4, <2>2 DEF q
<1>6. h = [i \in 0..m |-> h[i]] /\ h[m] = Made(m, g[m - 1], keys)
      /\ \A i \in 0..(m - 1) : h[i] = g[i]
    BY <1>2, <1>3
<1> HIDE DEF h
<1>7. h[0] = DeployedLedger /\ \A i \in 1..m : h[i] = Made(i, h[i - 1], keys)
  <2>1. h[0] = DeployedLedger
    BY <1>2, <1>3, <1>5, <1>6
  <2>2. ASSUME NEW i \in 1..m
        PROVE  h[i] = Made(i, h[i - 1], keys)
    <3>1. m \in Nat /\ i - 1 \in 0..(m - 1)
      BY <1>2
    <3>2. h[i - 1] = g[i - 1]
      BY <1>6, <3>1
    <3>3. CASE i = m
      BY <1>6, <3>2, <3>3
    <3>4. CASE i # m
      <4>1. i \in 1..(m - 1) /\ i \in 0..(m - 1)
        BY <3>1, <3>4
      <4> QED BY <1>5, <1>6, <3>2, <4>1
    <3> QED BY <3>3, <3>4
  <2> QED BY <2>1, <2>2
<1>8. IsLedgerRun(h, m, keys)
    BY <1>2, <1>6, <1>7, LedgerRunReads
<1> QED BY <1>2, <1>8

LEMMA StepCount == N = 17
BY DEF N, Steps

\* The script's ledgers are the ones its steps make, one after the other.
LEMMA ScriptReads ==
    ASSUME NEW keys \in 1..MaxIncidents + 1
    PROVE  /\ Script[keys][0] = DeployedLedger
           /\ \A i \in 1..N : Script[keys][i] = RunOf(i, Script[keys][i - 1], 0, keys).ledger
<1> DEFINE g == LedgersOf(keys)
<1>1. Script[keys] = g
    BY DEF Script
<1>2. g = CHOOSE f : IsLedgerRun(f, N, keys)
    BY DEF LedgersOf, IsLedgerRun
<1> HIDE DEF g
<1>3. N \in Nat
    BY StepCount
<1>4. IsLedgerRun(g, N, keys)
    BY <1>2, <1>3, LedgerRunExists
<1> QED BY <1>1, <1>3, <1>4, LedgerRunReads DEF Made

\* Each of them is one a sandbox can be in, and what the steps before it have made.
LEMMA ScriptPlays ==
    ASSUME NEW keys \in 1..MaxIncidents + 1, NEW i \in 0..N
    PROVE  Script[keys][i] \in Good(keys) /\ Played(i, Script[keys][i], keys)
<1> DEFINE P(j) == Script[keys][j] \in Good(keys) /\ Played(j, Script[keys][j], keys)
           Bad == {j \in 0..N : ~P(j)}
<1>1. SUFFICES ASSUME Bad # {}
               PROVE  FALSE
    OBVIOUS
<1>2. N = 17 /\ keys \in Nat
    BY StepCount
<1>3. PICK j \in Bad : \A y \in Bad : j <= y
  <2>1. Bad \subseteq Nat
    BY <1>2
  <2> HIDE DEF Bad
  <2> QED BY <1>1, <2>1, SmallestOf
<1>4. P(0)
    BY ScriptReads, DeployedGood, DeployedPlayed
<1>5. j \in 1..N /\ j - 1 \in 0..N /\ j - 1 \notin Bad
    BY <1>2, <1>3, <1>4
<1>6. P(j - 1)
    BY <1>5
<1>7. Script[keys][j] = RunOf(j, Script[keys][j - 1], 0, keys).ledger
    BY <1>5, ScriptReads
<1>8. P(j)
  <2>1. 0 \in Nat
    OBVIOUS
  <2>2. Script[keys][j] \in Good(keys)
    BY <1>2, <1>5, <1>6, <1>7, <2>1, RunOfGood
  <2>3. Played(j, Script[keys][j], keys)
    BY <1>2, <1>5, <1>6, <1>7, StepPlays
  <2> QED BY <2>2, <2>3
<1> QED BY <1>3, <1>8

-----------------------------------------------------------------------------
(* The inductive invariant.                                                *)

Loops == [next : 1..N, auto : BOOLEAN, first : Nat]

Pages ==
    [mounted : BOOLEAN, index : 1..N, results : Seq(Answers), snapshots : Seq(Worlds),
     loop : Loops \cup {NoLoop}]

\* The worlds a visit can make.
VisitWorlds == {w \in Worlds : w.ledger \in Good(w.keys)}

\* A pressed button's call, and the world it was pressed on, made with the secrets of the tab's.
Captured(press) ==
    /\ press.call \in CapturedCalls
    /\ press.shown \in VisitWorlds /\ press.shown.keys = world.keys

\* The world is one a visit can make, and what is stored is that world.
WorldInv ==
    /\ world \in Worlds /\ world.ledger \in Good(world.keys)
    /\ writable \in BOOLEAN /\ stored = (IF writable THEN world ELSE NoWorld)
    /\ incidents \in Nat /\ incidents <= MaxIncidents
    /\ world.keys + (IF writable THEN 0 ELSE 1) <= incidents + 1
    /\ pending # NoCall => Captured(pending)

\* A page has a snapshot before each of its results and one after the last, all of worlds with
\* the parties of the world in the tab, the first as deployed.
PageInv ==
    /\ page \in Pages /\ orphan \in Loops \cup {NoLoop}
    /\ ~page.mounted => page = NoPage
    /\ page.mounted => /\ Len(page.results) <= N /\ page.index <= Len(page.results) + 1
                       /\ Len(page.snapshots) = Len(page.results) + 1
                       /\ page.snapshots[1].ledger = DeployedLedger /\ page.snapshots[1].now = 0
    /\ page.loop # NoLoop => page.mounted /\ page.loop.next <= Len(page.results) + 1
    /\ \A i \in DOMAIN page.snapshots :
            page.snapshots[i].keys = world.keys /\ page.snapshots[i].ledger \in Good(world.keys)

\* The results and the snapshots nothing interfered with are the script's, and so is the world
\* as long as nothing has interfered since.
ScriptInv ==
    /\ exact \in BOOLEAN /\ clean \in 0..N /\ (exact => clean = N)
    /\ \A i \in DOMAIN page.results : i <= clean => page.results[i] = Expected(i)
    /\ \A i \in DOMAIN page.snapshots :
            i <= clean + 1 => /\ page.snapshots[i].ledger = Script[world.keys][i - 1]
                              /\ page.snapshots[i].now = 0
    /\ page.mounted /\ exact =>
            world.ledger = Script[world.keys][Len(page.results)] /\ world.now = 0

IInv == WorldInv /\ PageInv /\ ScriptInv

\* A change of the clock, of the book or of the ledger makes one such world of another.
LEMMA ChangedWorld ==
    ASSUME NEW w \in VisitWorlds, NEW t \in Nat, NEW n \in Nat, NEW l \in Good(w.keys)
    PROVE  /\ [w EXCEPT !.now = t] \in VisitWorlds /\ [w EXCEPT !.now = t].keys = w.keys
           /\ [w EXCEPT !.issued = n] \in VisitWorlds /\ [w EXCEPT !.issued = n].keys = w.keys
           /\ [w EXCEPT !.ledger = l] \in VisitWorlds /\ [w EXCEPT !.ledger = l].keys = w.keys
           /\ [w EXCEPT !.ledger = l].ledger = l /\ [w EXCEPT !.ledger = l].now = w.now
           /\ [w EXCEPT !.issued = n].ledger = w.ledger /\ [w EXCEPT !.issued = n].now = w.now
           /\ [w EXCEPT !.issued = n].issued = n
<1>1. w \in Worlds /\ w.ledger \in Good(w.keys) /\ l \in Ledgers
    BY DEF VisitWorlds, Good
<1> QED BY <1>1 DEF VisitWorlds, Worlds

LEMMA GenesisWorld ==
    ASSUME NEW w \in VisitWorlds
    PROVE  /\ Genesis(w) \in VisitWorlds /\ Genesis(w).keys = w.keys
           /\ Genesis(w).ledger = DeployedLedger /\ Genesis(w).now = 0
           /\ Genesis(w).issued \in Nat
<1> DEFINE k == w.keys
<1>1. DeployedLedger \in Good(k)
    BY DeployedGood
<1>2. w \in Worlds /\ w.ledger \in Good(k) /\ DeployedLedger \in Ledgers
    BY <1>1 DEF VisitWorlds, Good
<1> QED BY <1>1, <1>2 DEF VisitWorlds, Worlds, Genesis

LEMMA FreshWorlds ==
    ASSUME NEW keys \in 1..MaxIncidents + 1
    PROVE  FreshWorld(keys) \in VisitWorlds /\ FreshWorld(keys).keys = keys
<1>1. keys \in Nat /\ Admit(DeployedLedger, keys).ledger \in Good(keys)
    BY SandboxAssumption, DeployedGood, AdmitGood
<1>2. Admit(DeployedLedger, keys).ledger \in Ledgers
    BY <1>1 DEF Good
<1> QED BY <1>1, <1>2 DEF FreshWorld, VisitWorlds, Worlds

LEMMA BaselineWorld ==
    ASSUME world \in VisitWorlds, NEW i \in 1..N, NEW first \in Nat
    PROVE  /\ Baseline(i, first) \in VisitWorlds /\ Baseline(i, first).keys = world.keys
           /\ i = 1 => Baseline(i, first).ledger = DeployedLedger /\ Baseline(i, first).now = 0
           /\ i # 1 => Baseline(i, first) = world
<1> DEFINE g == Genesis(world)
<1>1. g \in VisitWorlds /\ g.keys = world.keys /\ g.ledger = DeployedLedger /\ g.now = 0
    BY GenesisWorld
<1>2. DeployedLedger \in Good(g.keys)
    BY DeployedGood
<1> DEFINE h == [g EXCEPT !.issued = first]
<1> HIDE DEF g
<1>3. h \in VisitWorlds /\ h.keys = world.keys /\ h.ledger = DeployedLedger /\ h.now = 0
    BY <1>1, <1>2, 0 \in Nat, ChangedWorld
<1>4. Baseline(i, first) = IF i = 1 THEN h ELSE world
    BY DEF Baseline, g
<1> HIDE DEF h
<1> QED BY <1>3, <1>4

\* What the step a run awaits makes of the world.
LEMMA OutcomeReads ==
    ASSUME world \in VisitWorlds, NEW loop \in Loops, NEW ran \in Outcomes(loop)
    PROVE  LET b == Baseline(loop.next, loop.first)
           IN  /\ ran.after \in VisitWorlds /\ ran.after.keys = world.keys
               /\ ran.after.now = b.now /\ ran.said \in Answers
               /\ ran.after.ledger = RunOf(loop.next, b.ledger, b.now, world.keys).ledger
               /\ ran.said = RunOf(loop.next, b.ledger, b.now, world.keys).said
<1> DEFINE b == Baseline(loop.next, loop.first)
           r == RunOf(loop.next, b.ledger, b.now, b.keys)
<1>1. loop.next \in 1..N /\ loop.first \in Nat
    BY DEF Loops
<1>2. b \in VisitWorlds /\ b.keys = world.keys
    BY <1>1, BaselineWorld
<1>3. b \in Worlds /\ b.ledger \in Good(b.keys) /\ b.now \in Nat /\ b.keys \in Nat
    BY <1>2, SandboxAssumption DEF VisitWorlds, Worlds
<1>4. r.ledger \in Good(b.keys) /\ r.said \in Answers
    BY <1>1, <1>3, RunOfGood, RunOfAnswers
<1>5. ran = [after |-> [b EXCEPT !.ledger = r.ledger], said |-> r.said]
    BY DEF Outcomes
<1> HIDE DEF b, r
<1>6. LET a == [b EXCEPT !.ledger = r.ledger]
      IN  a \in VisitWorlds /\ a.keys = b.keys /\ a.ledger = r.ledger /\ a.now = b.now
    BY <1>2, <1>4, 0 \in Nat, ChangedWorld
<1>7. /\ ran.after \in VisitWorlds /\ ran.after.keys = world.keys
      /\ ran.after.now = b.now /\ ran.said \in Answers
      /\ ran.after.ledger = r.ledger /\ ran.said = r.said
    BY <1>2, <1>4, <1>5, <1>6
<1>8. r = RunOf(loop.next, b.ledger, b.now, world.keys)
    BY <1>2 DEF r
<1> QED BY <1>7, <1>8 DEF b

-----------------------------------------------------------------------------
(* The world in the tab, and what is stored of it.                         *)

LEMMA WorldsInTheTab == WorldInv => world \in VisitWorlds
BY DEF WorldInv, VisitWorlds

LEMMA BecomesKeeps ==
    ASSUME WorldInv, NEW w \in VisitWorlds, w.keys = world.keys, NEW n \in Nat, Becomes(w, n),
           pending' \in {pending, NoCall}
    PROVE  WorldInv' /\ world'.keys = world.keys
<1>1. /\ incidents' \in Nat /\ incidents' <= MaxIncidents
      /\ \/ writable /\ writable' = TRUE /\ stored' = w /\ incidents' >= incidents
         \/ ~writable /\ writable' = writable /\ stored' = stored /\ incidents' >= incidents
         \/ writable /\ writable' = FALSE /\ stored' = NoWorld /\ incidents' >= incidents + 1
    BY SandboxAssumption DEF WorldInv, Becomes, Saved, Costs
<1>2. world' = w /\ w \in Worlds /\ w.ledger \in Good(w.keys) /\ w.keys \in Nat
    BY SandboxAssumption DEF Becomes, VisitWorlds, Worlds
<1>3. stored' = IF writable' THEN world' ELSE NoWorld
    BY <1>1, <1>2 DEF WorldInv
<1>4. w.keys + (IF writable' THEN 0 ELSE 1) <= incidents' + 1
    BY <1>1, <1>2 DEF WorldInv
<1>5. pending' # NoCall => Captured(pending)'
    BY <1>2 DEF WorldInv, Captured
<1> QED BY <1>1, <1>2, <1>3, <1>4, <1>5 DEF WorldInv

LEMMA WorldStays ==
    ASSUME WorldInv, UNCHANGED <<world, stored, writable>>,
           incidents' = incidents \/ (\E n \in Nat : Costs(n)),
           pending' # NoCall => pending' = pending \/ Captured(pending')
    PROVE  WorldInv' /\ world'.keys = world.keys
<1>1. incidents' \in Nat /\ incidents' <= MaxIncidents /\ incidents' >= incidents
    BY SandboxAssumption DEF WorldInv, Costs
<1>2. world.keys \in Nat
    BY SandboxAssumption DEF WorldInv, Worlds
<1>3. world.keys + (IF writable THEN 0 ELSE 1) <= incidents' + 1
    BY <1>1, <1>2 DEF WorldInv
<1>4. pending' # NoCall => Captured(pending)'
    BY DEF WorldInv, Captured
<1> QED BY <1>1, <1>3, <1>4 DEF WorldInv

\* Whatever the storage did, a loaded page has the world that was stored or a fresh one.
LEMMA ReloadKeeps ==
    ASSUME WorldInv, NEW readable \in BOOLEAN, Reload(readable)
    PROVE  /\ WorldInv'
           /\ readable /\ writable => world' = world
<1> DEFINE w == IF readable THEN Loaded ELSE FreshWorld(world.keys + 1)
           n == IF readable THEN 0 ELSE 1
<1>1. world' = w /\ Saved(w, TRUE, n) /\ pending' = NoCall
    BY DEF Reload
<1>2. world \in VisitWorlds /\ world.keys \in 1..MaxIncidents + 1 /\ world \in Worlds
    BY WorldsInTheTab DEF VisitWorlds, Worlds
<1>3. world # NoWorld
    BY <1>2, SandboxAssumption
<1>4. writable => Loaded = world
    BY <1>3 DEF Loaded, WorldInv
<1>5. ~writable => Loaded = FreshWorld(world.keys + 1)
    BY DEF Loaded, WorldInv
<1>6. \/ w = world /\ writable
      \/ w = FreshWorld(world.keys + 1) /\ (readable => ~writable)
    BY <1>4, <1>5
<1>7. /\ incidents' \in Nat /\ incidents' <= MaxIncidents
      /\ \/ writable' = TRUE /\ stored' = w /\ incidents' >= incidents + n
         \/ writable' = FALSE /\ stored' = NoWorld /\ incidents' >= incidents + n + 1
    BY <1>1, SandboxAssumption DEF WorldInv, Saved, Costs
<1> HIDE DEF w
<1>8. w \in VisitWorlds /\ w.keys + (IF writable' THEN 0 ELSE 1) <= incidents' + 1
  <2>1. CASE w = world /\ writable
    BY <2>1, <1>2, <1>7, SandboxAssumption DEF WorldInv
  <2>2. CASE w = FreshWorld(world.keys + 1) /\ (readable => ~writable)
    <3>1. world.keys + 1 + (IF writable' THEN 0 ELSE 1) <= incidents' + 1
      BY <2>2, <1>2, <1>7, SandboxAssumption DEF WorldInv
    <3>2. world.keys + 1 \in 1..MaxIncidents + 1
      BY <3>1, <1>2, <1>7, SandboxAssumption
    <3>3. w \in VisitWorlds /\ w.keys = world.keys + 1
      BY <2>2, <3>2, FreshWorlds
    <3> QED BY <3>1, <3>3
  <2> QED BY <1>6, <2>1, <2>2
<1>9. w \in Worlds /\ w.ledger \in Good(w.keys)
    BY <1>8 DEF VisitWorlds
<1>10. writable' \in BOOLEAN /\ stored' = IF writable' THEN w ELSE NoWorld
    BY <1>7
<1>11. WorldInv'
    BY <1>1, <1>7, <1>8, <1>9, <1>10 DEF WorldInv
<1>12. readable /\ writable => w = world
    BY <1>4 DEF w
<1> QED BY <1>1, <1>11, <1>12

LEMMA WorldInit == Init => WorldInv
<1> SUFFICES ASSUME Init
             PROVE  WorldInv
    OBVIOUS
<1>1. 1 \in 1..MaxIncidents + 1
    BY SandboxAssumption
<1>2. FreshWorld(1) \in VisitWorlds /\ FreshWorld(1).keys = 1
    BY <1>1, FreshWorlds
<1>3. world \in Worlds /\ world.ledger \in Good(world.keys) /\ world.keys = 1
    BY <1>2 DEF Init, VisitWorlds
<1> QED BY <1>3, SandboxAssumption DEF Init, WorldInv

-----------------------------------------------------------------------------
(* The replay's page.                                                      *)

LEMMA CutSequence ==
    ASSUME NEW S, NEW s \in Seq(S), NEW n \in 0..Len(s), NEW e \in S
    PROVE  LET cut == SubSeq(s, 1, n)
           IN  /\ cut \in Seq(S) /\ Len(cut) = n /\ \A j \in 1..n : cut[j] = s[j]
               /\ Append(cut, e) \in Seq(S) /\ Len(Append(cut, e)) = n + 1
               /\ \A j \in 1..n : Append(cut, e)[j] = s[j]
               /\ Append(cut, e)[n + 1] = e
<1> DEFINE cut == SubSeq(s, 1, n)
<1>1. cut \in Seq(S) /\ Len(cut) = n /\ \A j \in 1..n : cut[j] = s[j]
    OBVIOUS
<1> HIDE DEF cut
<1>2. /\ Append(cut, e) \in Seq(S) /\ Len(Append(cut, e)) = n + 1
      /\ \A j \in 1..n : Append(cut, e)[j] = cut[j]
      /\ Append(cut, e)[n + 1] = e
    BY <1>1
<1> QED BY <1>1, <1>2 DEF cut

LEMMA PageReads ==
    ASSUME PageInv, page.mounted
    PROVE  /\ page.results \in Seq(Answers) /\ Len(page.results) \in 0..N
           /\ page.index \in 1..N /\ page.index <= Len(page.results) + 1
           /\ page.snapshots \in Seq(Worlds) /\ Len(page.snapshots) = Len(page.results) + 1
           /\ DOMAIN page.results = 1..Len(page.results)
           /\ DOMAIN page.snapshots = 1..(Len(page.results) + 1)
           /\ FirstBook \in Nat
<1>1. page.results \in Seq(Answers) /\ page.snapshots \in Seq(Worlds) /\ page.index \in 1..N
    BY DEF PageInv, Pages
<1>2. /\ Len(page.results) \in 0..N /\ page.index <= Len(page.results) + 1
      /\ Len(page.snapshots) = Len(page.results) + 1
  <2>1. Len(page.results) \in Nat /\ N \in Nat
    BY <1>1, StepCount
  <2>2. /\ Len(page.results) <= N /\ page.index <= Len(page.results) + 1
        /\ Len(page.snapshots) = Len(page.results) + 1
    BY DEF PageInv
  <2> QED BY <2>1, <2>2
<1>3. page.snapshots[1] \in Worlds
    BY <1>1, <1>2
<1> QED BY <1>1, <1>2, <1>3 DEF FirstBook, Worlds

LEMMA LoopTyped ==
    ASSUME NEW i \in 1..N, NEW auto \in BOOLEAN, NEW first \in Nat
    PROVE  Loop(i, auto, first) \in Loops
BY DEF Loop, Loops

LEMMA PageStays ==
    ASSUME PageInv, page' = page, orphan' \in Loops \cup {NoLoop}, world'.keys = world.keys
    PROVE  PageInv'
BY DEF PageInv

LEMMA ScriptStays ==
    ASSUME ScriptInv, UNCHANGED <<world, exact, clean>>, page'.results = page.results,
           page'.snapshots = page.snapshots, page'.mounted = page.mounted
    PROVE  ScriptInv'
BY DEF ScriptInv

\* A page just opened, or none.
LEMMA NoPageFacts ==
    /\ NoPage \in Pages /\ NoPage.results = <<>> /\ NoPage.snapshots = <<>>
    /\ ~NoPage.mounted /\ NoPage.loop = NoLoop
BY StepCount DEF NoPage, Pages

LEMMA ClosedPage ==
    ASSUME page' = NoPage, orphan' \in Loops \cup {NoLoop}, exact' = FALSE, clean' = 0
    PROVE  PageInv' /\ ScriptInv'
<1>1. DOMAIN page'.results = {} /\ DOMAIN page'.snapshots = {}
    BY NoPageFacts
<1>2. PageInv'
    BY <1>1, NoPageFacts DEF PageInv
<1>3. ScriptInv'
  <2>1. exact' \in BOOLEAN /\ ~exact'
    OBVIOUS
  <2>3. clean' \in 0..N
    BY StepCount
  <2>2. ~page'.mounted
    BY NoPageFacts
  <2> QED BY <1>1, <2>1, <2>2, <2>3 DEF ScriptInv
<1> QED BY <1>2, <1>3

\* What was interfered with stays on show; the script vouches for what was shown before.
LEMMA InterferenceKeeps ==
    ASSUME PageInv, ScriptInv, Interference, page' = page, world'.keys = world.keys
    PROVE  ScriptInv'
<1>1. /\ page.results \in Seq(Answers) /\ page.snapshots \in Seq(Worlds)
      /\ Len(page.results) \in 0..N
      /\ Len(page.snapshots) <= Len(page.results) + 1
  <2>1. CASE page.mounted
    BY <2>1, PageReads
  <2>2. CASE ~page.mounted
    <3>1. page = NoPage
      BY <2>2 DEF PageInv
    <3> QED BY <3>1, NoPageFacts, StepCount
  <2> QED BY <2>1, <2>2 DEF PageInv, Pages
<1>2. exact' = FALSE /\ clean' = IF exact THEN Len(page.results) ELSE clean
    BY DEF Interference
<1>3. clean' \in 0..N /\ clean' \in Nat /\ clean \in Nat
    BY <1>1, <1>2, StepCount DEF ScriptInv
<1>4. DOMAIN page.results = 1..Len(page.results) /\ DOMAIN page.snapshots = 1..Len(page.snapshots)
      /\ Len(page.snapshots) \in Nat /\ Len(page.results) \in Nat /\ N \in Nat
    BY <1>1, StepCount
<1>5. exact => clean = N
    BY DEF ScriptInv
<1>6. \A i \in DOMAIN page.results : i <= clean' => i <= clean
    BY <1>1, <1>2, <1>3, <1>4, <1>5
<1>7. \A i \in DOMAIN page.snapshots : i <= clean' + 1 => i <= clean + 1
    BY <1>1, <1>2, <1>3, <1>4, <1>5
<1> QED BY <1>2, <1>3, <1>6, <1>7 DEF ScriptInv

-----------------------------------------------------------------------------
(* The page's own actions.                                                 *)

LEMMA OpenKeeps ==
    ASSUME IInv, NEW asked \in BOOLEAN, OpenReplay(asked)
    PROVE  PageInv' /\ ScriptInv'
<1> DEFINE g == Genesis(world)
           loop == IF asked THEN Loop(1, TRUE, world.issued) ELSE NoLoop
<1>1. /\ g \in VisitWorlds /\ g.keys = world.keys /\ g.ledger = DeployedLedger /\ g.now = 0
      /\ g \in Worlds /\ g.ledger \in Good(world.keys)
    BY WorldsInTheTab, GenesisWorld DEF IInv, VisitWorlds
<1>2. 1 \in 1..N /\ N \in Nat
    BY StepCount
<1>3. loop \in Loops \cup {NoLoop} /\ (loop # NoLoop => loop.next = 1)
  <2>1. world.issued \in Nat
    BY DEF IInv, WorldInv, Worlds
  <2>2. Loop(1, TRUE, world.issued) \in Loops /\ Loop(1, TRUE, world.issued).next = 1
    BY <1>2, <2>1, LoopTyped DEF Loop
  <2> QED BY <2>2
<1>4. /\ page'.mounted /\ page'.index = 1 /\ page'.results = <<>>
      /\ page'.snapshots = <<g>> /\ page'.loop = loop
      /\ page' = [mounted |-> TRUE, index |-> 1, results |-> <<>>, snapshots |-> <<g>>, loop |-> loop]
    BY DEF OpenReplay, NoPage
<1>5. UNCHANGED <<world, orphan>> /\ ~exact' /\ clean' = 0 /\ exact' \in BOOLEAN
    BY DEF OpenReplay
<1> HIDE DEF g, loop
<1>6. page' \in Pages
  <2>1. <<>> \in Seq(Answers) /\ <<g>> \in Seq(Worlds)
    BY <1>1
  <2> QED BY <1>2, <1>3, <1>4, <2>1 DEF Pages
<1>7. Len(page'.results) = 0 /\ Len(page'.snapshots) = 1 /\ DOMAIN page'.results = {}
      /\ DOMAIN page'.snapshots = {1} /\ page'.snapshots[1] = g
    BY <1>4
<1>8. PageInv'
  <2>1. orphan' \in Loops \cup {NoLoop}
    BY <1>5 DEF IInv, PageInv
  <2>2. page'.loop # NoLoop => page'.loop.next <= Len(page'.results) + 1
    BY <1>3, <1>4, <1>7
  <2>3. /\ Len(page'.results) <= N /\ page'.index <= Len(page'.results) + 1
        /\ Len(page'.snapshots) = Len(page'.results) + 1
    BY <1>2, <1>4, <1>7
  <2> QED BY <1>1, <1>4, <1>5, <1>6, <1>7, <2>1, <2>2, <2>3 DEF PageInv
<1>9. ScriptInv'
  <2>1. world.keys \in 1..MaxIncidents + 1
    BY DEF IInv, WorldInv, Worlds
  <2>2. Script[world.keys][0] = DeployedLedger
    BY <2>1, ScriptReads
  <2>3. \A i \in DOMAIN page'.snapshots : page'.snapshots[i].ledger = Script[world.keys][i - 1]
                                          /\ page'.snapshots[i].now = 0
    BY <1>1, <1>7, <2>2
  <2>4. clean' \in 0..N
    BY <1>2, <1>5
  <2> QED BY <1>5, <1>7, <2>3, <2>4 DEF ScriptInv
<1> QED BY <1>8, <1>9

LEMMA LeaveKeeps ==
    ASSUME IInv, LeaveReplay
    PROVE  PageInv' /\ ScriptInv'
<1>1. orphan' \in Loops \cup {NoLoop}
    BY DEF IInv, PageInv, Pages, LeaveReplay
<1>2. page' = NoPage /\ exact' = FALSE /\ clean' = 0
    BY DEF LeaveReplay
<1> QED BY <1>1, <1>2, ClosedPage

\* A run is started at the step on show.
LEMMA RunKeeps ==
    ASSUME IInv, NEW auto \in BOOLEAN, Idle,
           page' = [page EXCEPT !.loop = Loop(page.index, auto, FirstBook)],
           UNCHANGED <<world, orphan, exact, clean>>
    PROVE  PageInv' /\ ScriptInv'
<1>1. page.mounted /\ page \in Pages
    BY DEF IInv, PageInv, Idle
<1>2. page.index \in 1..N /\ FirstBook \in Nat /\ page.index <= Len(page.results) + 1
    BY <1>1, PageReads DEF IInv
<1> DEFINE loop == Loop(page.index, auto, FirstBook)
<1>3. loop \in Loops /\ loop.next = page.index
    BY <1>2, LoopTyped DEF Loop
<1> HIDE DEF loop
<1>4. /\ page' \in Pages /\ page'.mounted = page.mounted /\ page'.index = page.index
      /\ page'.results = page.results /\ page'.snapshots = page.snapshots /\ page'.loop = loop
    BY <1>1, <1>3 DEF Pages, loop
<1>5. PageInv'
    BY <1>1, <1>2, <1>3, <1>4 DEF IInv, PageInv
<1>6. ScriptInv'
    BY <1>4, ScriptStays DEF IInv
<1> QED BY <1>5, <1>6

LEMMA NextStepKeeps ==
    ASSUME IInv, NextStep
    PROVE  PageInv' /\ ScriptInv'
<1>1. page.mounted /\ page \in Pages /\ page.loop = NoLoop
    BY DEF IInv, PageInv, Idle, NextStep
<1>2. page.index \in 1..N /\ Len(page.results) \in 0..N
    BY <1>1, PageReads DEF IInv
<1>3. page.index + 1 \in 1..N /\ page.index + 1 <= Len(page.results) + 1
    BY <1>2, StepCount DEF NextStep
<1>4. /\ page' \in Pages /\ page'.mounted = page.mounted /\ page'.index = page.index + 1
      /\ page'.results = page.results /\ page'.snapshots = page.snapshots /\ page'.loop = page.loop
    BY <1>1, <1>3 DEF Pages, NextStep
<1>5. PageInv'
    BY <1>1, <1>3, <1>4 DEF IInv, PageInv, NextStep
<1>6. ScriptInv'
    BY <1>4, ScriptStays DEF IInv, NextStep
<1> QED BY <1>5, <1>6

\* What the world becomes when the page is rewound is one of its snapshots.
LEMMA SnapshotWorld ==
    ASSUME IInv, page.mounted, NEW i \in 1..(Len(page.results) + 1)
    PROVE  /\ page.snapshots[i] \in VisitWorlds /\ page.snapshots[i].keys = world.keys
           /\ page.snapshots[i] \in Worlds /\ page.snapshots[i].ledger \in Good(world.keys)
<1>1. i \in DOMAIN page.snapshots /\ page.snapshots \in Seq(Worlds)
    BY PageReads DEF IInv
<1>2. page.snapshots[i] \in Worlds
    BY <1>1
<1> QED BY <1>1, <1>2 DEF IInv, PageInv, VisitWorlds

LEMMA RewindKeeps ==
    ASSUME IInv, NEW i \in 1..N, RewindTo(i)
    PROVE  IInv'
<1> DEFINE len == Len(page.results)
           w == page.snapshots[i]
<1>1. /\ page.mounted /\ page.loop = NoLoop /\ i <= len + 1
      /\ Becomes(w, 0) /\ page' = Rewound(i) /\ UNCHANGED <<orphan, pending>>
      /\ exact' = (exact \/ i - 1 <= clean) /\ clean' = IF exact' THEN N ELSE clean
    BY DEF RewindTo, Idle
<1>2. /\ page \in Pages /\ page.results \in Seq(Answers) /\ page.snapshots \in Seq(Worlds)
      /\ len \in 0..N /\ Len(page.snapshots) = len + 1 /\ N \in Nat
      /\ DOMAIN page.results = 1..len /\ DOMAIN page.snapshots = 1..(len + 1)
    BY <1>1, PageReads, StepCount DEF IInv, PageInv
<1> HIDE DEF len, w
<1>3. i \in 1..(len + 1) /\ i \in Nat /\ i - 1 \in 0..len /\ i \in 0..(len + 1)
    BY <1>1, <1>2
<1>4. w \in VisitWorlds /\ w.keys = world.keys
    BY <1>1, <1>3, SnapshotWorld DEF len, w
<1>5. WorldInv' /\ world'.keys = world.keys /\ world' = w
  <2>1. 0 \in Nat /\ WorldInv /\ pending' \in {pending, NoCall}
    BY <1>1 DEF IInv
  <2>2. world' = w
    BY <1>1 DEF Becomes
  <2> QED BY <1>1, <1>4, <2>1, <2>2, BecomesKeeps
<1> DEFINE r == SubSeq(page.results, 1, i - 1)
           s == SubSeq(page.snapshots, 1, i)
<1>6. /\ r \in Seq(Answers) /\ Len(r) = i - 1 /\ DOMAIN r = 1..(i - 1)
      /\ \A j \in 1..(i - 1) : r[j] = page.results[j]
  <2>1. i - 1 \in 0..Len(page.results)
    BY <1>3 DEF len
  <2>2. "ok" \in Answers
    BY DEF Answers
  <2>3. r \in Seq(Answers) /\ Len(r) = i - 1 /\ \A j \in 1..(i - 1) : r[j] = page.results[j]
    BY <1>2, <2>1, <2>2, CutSequence
  <2> HIDE DEF r
  <2> QED BY <2>3
<1>7. /\ s \in Seq(Worlds) /\ Len(s) = i /\ DOMAIN s = 1..i
      /\ \A j \in 1..i : s[j] = page.snapshots[j]
  <2>1. i \in 0..Len(page.snapshots)
    BY <1>2, <1>3
  <2>2. world \in Worlds
    BY DEF IInv, WorldInv
  <2>3. s \in Seq(Worlds) /\ Len(s) = i /\ \A j \in 1..i : s[j] = page.snapshots[j]
    BY <1>2, <2>1, <2>2, CutSequence
  <2> HIDE DEF s
  <2> QED BY <2>3
<1>8. page' = [page EXCEPT !.index = i, !.results = r, !.snapshots = s]
    BY <1>1 DEF Rewound
<1> HIDE DEF r, s
<1>9. /\ page' \in Pages /\ page'.mounted /\ page'.index = i /\ page'.results = r
      /\ page'.snapshots = s /\ page'.loop = NoLoop
    BY <1>1, <1>2, <1>6, <1>7, <1>8 DEF Pages
<1>10. PageInv'
  <2>1. /\ Len(page'.results) <= N /\ page'.index <= Len(page'.results) + 1
        /\ Len(page'.snapshots) = Len(page'.results) + 1
    BY <1>2, <1>3, <1>6, <1>7, <1>9
  <2>2. page'.snapshots[1] = page.snapshots[1]
    BY <1>3, <1>7, <1>9
  <2>3. \A j \in DOMAIN page'.snapshots : page'.snapshots[j].keys = world'.keys
                                          /\ page'.snapshots[j].ledger \in Good(world'.keys)
    <3>1. \A j \in DOMAIN s : s[j] = page.snapshots[j] /\ j \in DOMAIN page.snapshots
      BY <1>2, <1>3, <1>7
    <3> QED BY <1>5, <1>9, <3>1 DEF IInv, PageInv
  <2>4. orphan' \in Loops \cup {NoLoop}
    BY <1>1 DEF IInv, PageInv
  <2>5. page'.snapshots[1].ledger = DeployedLedger /\ page'.snapshots[1].now = 0
    BY <1>1, <2>2 DEF IInv, PageInv
  <2> QED BY <1>9, <2>1, <2>3, <2>4, <2>5 DEF PageInv
<1>11. /\ exact \in BOOLEAN /\ clean \in 0..N /\ clean \in Nat /\ (exact => clean = N)
    BY <1>2 DEF IInv, ScriptInv
<1>12. exact' \in BOOLEAN /\ clean' \in 0..N /\ (exact' => clean' = N)
    BY <1>1, <1>2, <1>11
\* Every result and snapshot that is kept was vouched for, if it is vouched for now.
<1>13. \A j \in Nat : (j <= i - 1 /\ j <= clean') => j <= clean
    BY <1>1, <1>2, <1>3, <1>11
<1>14. \A j \in Nat : (j <= i /\ j <= clean' + 1) => j <= clean + 1
    BY <1>1, <1>2, <1>3, <1>11
<1>15. \A j \in DOMAIN r : j <= clean' => r[j] = Expected(j)
  <2>1. \A j \in DOMAIN r : j \in DOMAIN page.results /\ j \in Nat /\ j <= i - 1
    BY <1>2, <1>3, <1>6
  <2> QED BY <1>6, <1>13, <2>1 DEF IInv, ScriptInv
<1>16. \A j \in DOMAIN s :
            j <= clean' + 1 => s[j].ledger = Script[world.keys][j - 1] /\ s[j].now = 0
  <2>1. \A j \in DOMAIN s : j \in DOMAIN page.snapshots /\ j \in Nat /\ j <= i
    BY <1>2, <1>3, <1>7
  <2> QED BY <1>7, <1>14, <2>1 DEF IInv, ScriptInv
<1>17. exact' => w.ledger = Script[world.keys][i - 1] /\ w.now = 0
  <2>1. exact' => i <= clean + 1
    BY <1>1, <1>2, <1>3, <1>11
  <2>2. i \in DOMAIN page.snapshots
    BY <1>2, <1>3
  <2> QED BY <2>1, <2>2 DEF IInv, ScriptInv, w
<1>18. ScriptInv'
    BY <1>5, <1>6, <1>9, <1>12, <1>15, <1>16, <1>17 DEF ScriptInv
<1> QED BY <1>5, <1>10, <1>18 DEF IInv

LEMMA GoesOnTyped ==
    ASSUME NEW loop \in Loops, NEW said, GoesOn(loop, said) # NoLoop
    PROVE  GoesOn(loop, said) \in Loops /\ GoesOn(loop, said).next = loop.next + 1
           /\ loop.next + 1 \in 1..N
<1>1. loop.next < N /\ GoesOn(loop, said) = Loop(loop.next + 1, TRUE, loop.first)
    BY DEF GoesOn
<1>2. loop.next \in 1..N /\ loop.first \in Nat /\ N \in Nat
    BY StepCount DEF Loops
<1>3. loop.next + 1 \in 1..N
    BY <1>1, <1>2
<1>4. Loop(loop.next + 1, TRUE, loop.first) \in Loops
    BY <1>2, <1>3, LoopTyped
<1>5. Loop(loop.next + 1, TRUE, loop.first).next = loop.next + 1
    BY DEF Loop
<1> QED BY <1>1, <1>3, <1>4, <1>5

\* A step that runs on what the steps before it made, as the script has it, answers as the script
\* says and makes what the script makes.
LEMMA OutcomeOfScript ==
    ASSUME IInv, NEW loop \in Loops, NEW ran \in Outcomes(loop),
           loop.next = 1 \/ (page.mounted /\ exact /\ loop.next = Len(page.results) + 1)
    PROVE  /\ ran.said = Expected(loop.next)
           /\ ran.after.ledger = Script[world.keys][loop.next] /\ ran.after.now = 0
<1> DEFINE i == loop.next
           b == Baseline(i, loop.first)
<1>1. i \in 1..N /\ i - 1 \in 0..N /\ loop.first \in Nat /\ world.keys \in 1..MaxIncidents + 1
    BY StepCount DEF Loops, IInv, WorldInv, Worlds
<1>2. world \in VisitWorlds /\ world.keys \in Nat
    BY <1>1, WorldsInTheTab, SandboxAssumption DEF IInv
<1>3. b.ledger = Script[world.keys][i - 1] /\ b.now = 0
  <2>1. CASE i = 1
    <3>1. b.ledger = DeployedLedger /\ b.now = 0
      BY <1>1, <1>2, <2>1, BaselineWorld
    <3>2. Script[world.keys][0] = DeployedLedger /\ i - 1 = 0
      BY <1>1, <2>1, ScriptReads
    <3> QED BY <3>1, <3>2
  <2>2. CASE i # 1
    <3>1. b = world
      BY <1>1, <1>2, <2>2, BaselineWorld
    <3>2. Len(page.results) = i - 1
      <4>1. Len(page.results) \in Nat
        BY <2>2, PageReads, StepCount DEF IInv
      <4> QED BY <2>2, <4>1
    <3> QED BY <2>2, <3>1, <3>2 DEF IInv, ScriptInv
  <2> QED BY <2>1, <2>2
<1> HIDE DEF b
<1>4. b.ledger \in Good(world.keys) /\ Played(i - 1, b.ledger, world.keys)
    BY <1>1, <1>3, ScriptPlays
<1>5. RunOf(i, b.ledger, 0, world.keys).said = Expected(i)
    BY <1>1, <1>2, <1>4, StepPlays
<1>6. Script[world.keys][i] = RunOf(i, b.ledger, 0, world.keys).ledger
    BY <1>1, <1>3, ScriptReads
<1>7. /\ ran.after.now = b.now
      /\ ran.after.ledger = RunOf(i, b.ledger, b.now, world.keys).ledger
      /\ ran.said = RunOf(i, b.ledger, b.now, world.keys).said
    BY <1>2, OutcomeReads DEF b
<1> QED BY <1>3, <1>5, <1>6, <1>7

LEMMA TimerKeeps ==
    ASSUME IInv, Timer
    PROVE  IInv'
<1> DEFINE loop == page.loop
           i == loop.next
           len == Len(page.results)
<1>1. loop \in Loops /\ page.mounted /\ i <= len + 1 /\ page \in Pages
    BY DEF Timer, IInv, PageInv, Pages
<1>2. PICK ran \in Outcomes(loop) :
        /\ Becomes(ran.after, 0)
        /\ page' = [AfterStep(i, ran.said, ran.after)
                     EXCEPT !.loop = GoesOn(loop, ran.said),
                            !.index = IF GoesOn(loop, ran.said) = NoLoop THEN i
                                      ELSE GoesOn(loop, ran.said).next]
        /\ exact' = (i = 1 \/ (exact /\ i > len))
        /\ clean' = IF exact' THEN N ELSE Min({clean, i - 1})
    BY DEF Timer
<1>3. UNCHANGED <<orphan, pending>>
    BY DEF Timer
<1>4. world \in VisitWorlds
    BY WorldsInTheTab DEF IInv
<1>5. ran.after \in VisitWorlds /\ ran.after.keys = world.keys /\ ran.said \in Answers
    BY <1>1, <1>4, OutcomeReads
<1>6. WorldInv' /\ world'.keys = world.keys /\ world' = ran.after
  <2>1. 0 \in Nat /\ WorldInv /\ pending' \in {pending, NoCall}
    BY <1>3 DEF IInv
  <2>2. world' = ran.after
    BY <1>2 DEF Becomes
  <2> QED BY <1>2, <1>5, <2>1, <2>2, BecomesKeeps
<1>7. /\ page.results \in Seq(Answers) /\ page.snapshots \in Seq(Worlds)
      /\ len \in 0..N /\ Len(page.snapshots) = len + 1 /\ N \in Nat
      /\ DOMAIN page.results = 1..len /\ DOMAIN page.snapshots = 1..(len + 1)
    BY <1>1, PageReads, StepCount DEF IInv
<1>8. i \in 1..N /\ i \in Nat /\ i - 1 \in 0..Len(page.results) /\ i \in 0..Len(page.snapshots)
      /\ i - 1 \in Nat
    BY <1>1, <1>7 DEF Loops
<1>9. /\ ran.after \in Worlds /\ ran.after.ledger \in Good(world.keys)
    BY <1>5 DEF VisitWorlds
<1> DEFINE r == Append(SubSeq(page.results, 1, i - 1), ran.said)
           s == Append(SubSeq(page.snapshots, 1, i), ran.after)
           on == GoesOn(loop, ran.said)
           index == IF on = NoLoop THEN i ELSE on.next
<1>10. /\ r \in Seq(Answers) /\ Len(r) = i /\ r[i] = ran.said
       /\ \A j \in 1..(i - 1) : r[j] = page.results[j]
  <2>1. /\ r \in Seq(Answers) /\ Len(r) = (i - 1) + 1 /\ r[(i - 1) + 1] = ran.said
        /\ \A j \in 1..(i - 1) : r[j] = page.results[j]
    BY <1>5, <1>7, <1>8, CutSequence
  <2> HIDE DEF r
  <2>2. (i - 1) + 1 = i
    BY <1>8
  <2> QED BY <2>1, <2>2
<1>11. /\ s \in Seq(Worlds) /\ Len(s) = i + 1 /\ s[i + 1] = ran.after
       /\ \A j \in 1..i : s[j] = page.snapshots[j]
    BY <1>7, <1>8, <1>9, CutSequence
<1>12. on \in Loops \cup {NoLoop} /\ index \in 1..N /\ index <= i + 1
       /\ (on # NoLoop => on.next = i + 1)
    BY <1>1, <1>8, GoesOnTyped
<1>13. page' = [page EXCEPT !.results = r, !.snapshots = s, !.loop = on, !.index = index]
    BY <1>1, <1>2 DEF AfterStep, Pages
<1> HIDE DEF r, s, on, index, loop, i, len
<1>14. DOMAIN r = 1..i /\ DOMAIN s = 1..(i + 1)
    BY <1>10, <1>11
<1>15. /\ page' \in Pages /\ page'.mounted /\ page'.index = index /\ page'.results = r
       /\ page'.snapshots = s /\ page'.loop = on
    BY <1>1, <1>7, <1>10, <1>11, <1>12, <1>13 DEF Pages
<1>16. PageInv'
  <2>1. /\ Len(page'.results) <= N /\ page'.index <= Len(page'.results) + 1
        /\ Len(page'.snapshots) = Len(page'.results) + 1
    BY <1>7, <1>8, <1>10, <1>11, <1>12, <1>15
  <2>2. page'.snapshots[1] = page.snapshots[1]
    BY <1>8, <1>11, <1>15
  <2>3. \A j \in DOMAIN page'.snapshots : page'.snapshots[j].keys = world'.keys
                                          /\ page'.snapshots[j].ledger \in Good(world'.keys)
    <3>1. ASSUME NEW j \in DOMAIN s
          PROVE  s[j].keys = world.keys /\ s[j].ledger \in Good(world.keys)
      <4>1. CASE j = i + 1
        BY <4>1, <1>5, <1>9, <1>11
      <4>2. CASE j # i + 1
        <5>1. j \in 1..i /\ j \in DOMAIN page.snapshots
          BY <4>2, <1>7, <1>8, <1>14
        <5> QED BY <5>1, <1>11 DEF IInv, PageInv
      <4> QED BY <4>1, <4>2
    <3> QED BY <1>6, <1>15, <3>1
  <2>4. orphan' \in Loops \cup {NoLoop}
    BY <1>3 DEF IInv, PageInv
  <2>5. page'.snapshots[1].ledger = DeployedLedger /\ page'.snapshots[1].now = 0
    BY <1>1, <2>2 DEF IInv, PageInv
  <2>6. page'.loop # NoLoop => page'.loop.next <= Len(page'.results) + 1
    BY <1>8, <1>10, <1>12, <1>15
  <2> QED BY <1>15, <2>1, <2>3, <2>4, <2>5, <2>6 DEF PageInv
<1>17. /\ exact \in BOOLEAN /\ clean \in 0..N /\ clean \in Nat /\ (exact => clean = N)
    BY <1>7 DEF IInv, ScriptInv
<1>18. /\ exact' = (i = 1 \/ (exact /\ i > len))
       /\ clean' = IF exact' THEN N ELSE IF clean <= i - 1 THEN clean ELSE i - 1
    BY <1>2, <1>8, <1>17, MinOfTwo DEF i, len, loop
<1>19. exact' \in BOOLEAN /\ clean' \in 0..N /\ (exact' => clean' = N)
    BY <1>7, <1>8, <1>17, <1>18
<1>20. exact' => /\ ran.said = Expected(i)
                 /\ ran.after.ledger = Script[world.keys][i] /\ ran.after.now = 0
  <2>1. exact' => loop.next = 1 \/ (page.mounted /\ exact /\ loop.next = Len(page.results) + 1)
    <3>1. exact' => i = 1 \/ (exact /\ i > len)
      BY <1>18
    <3>2. i > len => i = len + 1
      BY <1>1, <1>7, <1>8
    <3> QED BY <1>1, <3>1, <3>2 DEF i, len
  <2>2. loop \in Loops /\ ran \in Outcomes(loop)
    BY <1>1, <1>2 DEF loop
  <2> QED BY <2>1, <2>2, OutcomeOfScript DEF i
\* What was vouched for and is kept is what is vouched for now, but for the new result.
<1>21. \A j \in Nat : (j <= i - 1 /\ j <= clean') => (j <= clean \/ (exact' /\ i = 1))
    BY <1>7, <1>8, <1>17, <1>18
<1>22. \A j \in Nat : (1 <= j /\ j <= i /\ j <= clean' + 1) => (j <= clean + 1 \/ (exact' /\ j = 1))
    BY <1>7, <1>8, <1>17, <1>18
<1>23. \A j \in DOMAIN r : j <= clean' => r[j] = Expected(j)
  <2>1. SUFFICES ASSUME NEW j \in 1..i, j <= clean'
                 PROVE  r[j] = Expected(j)
    BY <1>14
  <2>2. CASE j = i
    <3>1. exact'
      BY <2>1, <2>2, <1>8, <1>17, <1>18
    <3> QED BY <2>2, <3>1, <1>10, <1>20
  <2>3. CASE j # i
    <3>1. j \in 1..(i - 1) /\ j <= clean /\ j \in DOMAIN page.results
      BY <2>1, <2>3, <1>7, <1>8, <1>21 DEF len
    <3> QED BY <3>1, <1>10 DEF IInv, ScriptInv
  <2> QED BY <2>2, <2>3
<1>24. \A j \in DOMAIN s :
            j <= clean' + 1 => s[j].ledger = Script[world.keys][j - 1] /\ s[j].now = 0
  <2>1. SUFFICES ASSUME NEW j \in 1..(i + 1), j <= clean' + 1
                 PROVE  s[j].ledger = Script[world.keys][j - 1] /\ s[j].now = 0
    BY <1>14
  <2>2. CASE j = i + 1
    <3>1. exact' /\ j - 1 = i
      BY <2>1, <2>2, <1>8, <1>17, <1>18
    <3> QED BY <2>2, <3>1, <1>11, <1>20
  <2>3. CASE j # i + 1
    <3>1. j \in 1..i /\ j \in DOMAIN page.snapshots
      BY <2>1, <2>3, <1>7, <1>8
    <3>2. j <= clean + 1 \/ j = 1
      BY <2>1, <3>1, <1>22
    <3>3. 1 <= clean + 1
      BY <1>17
    <3> QED BY <3>1, <3>2, <3>3, <1>11 DEF IInv, ScriptInv
  <2> QED BY <2>2, <2>3
<1>25. ScriptInv'
    BY <1>6, <1>10, <1>15, <1>19, <1>20, <1>23, <1>24 DEF ScriptInv
<1> QED BY <1>6, <1>16, <1>25 DEF IInv

-----------------------------------------------------------------------------
(* Every step keeps the invariant.                                         *)

LEMMA InitInv == Init => IInv
<1> SUFFICES ASSUME Init
             PROVE  IInv
    OBVIOUS
<1>1. WorldInv
    BY WorldInit
<1>2. page = NoPage /\ orphan \in Loops \cup {NoLoop} /\ exact = FALSE /\ clean = 0
    BY DEF Init
<1>3. DOMAIN page.results = {} /\ DOMAIN page.snapshots = {} /\ ~page.mounted
    BY <1>2, NoPageFacts
<1>4. PageInv
    BY <1>2, <1>3, NoPageFacts DEF PageInv
<1>5. exact \in BOOLEAN /\ ~exact
    BY <1>2
<1>6. clean \in 0..N
    BY <1>2, StepCount
<1>7. ScriptInv
    BY <1>3, <1>5, <1>6 DEF ScriptInv
<1> QED BY <1>1, <1>4, <1>7 DEF IInv

\* The world changes beside the page's own steps.
LEMMA InterferingKeeps ==
    ASSUME IInv, NEW w \in VisitWorlds, w.keys = world.keys, NEW n \in Nat, Becomes(w, n),
           pending' \in {pending, NoCall}, page' = page, orphan' \in Loops \cup {NoLoop},
           Interference
    PROVE  IInv'
<1>1. WorldInv' /\ world'.keys = world.keys
    BY BecomesKeeps DEF IInv
<1>2. PageInv' /\ ScriptInv'
    BY <1>1, PageStays, InterferenceKeeps DEF IInv
<1> QED BY <1>1, <1>2 DEF IInv

LEMMA NextInv ==
    ASSUME IInv, Next
    PROVE  IInv'
<1>1. /\ world \in VisitWorlds /\ world \in Worlds /\ world.ledger \in Good(world.keys)
      /\ world.keys \in Nat /\ world.keys \in 1..MaxIncidents + 1
      /\ world.now \in Nat /\ world.issued \in Nat /\ orphan \in Loops \cup {NoLoop}
    BY WorldsInTheTab, SandboxAssumption DEF IInv, PageInv, VisitWorlds, Worlds
<1>2. 1 \in Nat /\ 0 \in Nat
    OBVIOUS
<1>3. ASSUME NEW days \in {1, 7}, Advance(days)
      PROVE  IInv'
  <2> DEFINE w == [world EXCEPT !.now = world.now + days]
  <2>1. w \in VisitWorlds /\ w.keys = world.keys
    <3>1. world.now + days \in Nat
      BY <1>1
    <3> QED BY <1>1, <3>1, ChangedWorld
  <2>2. Becomes(w, 1) /\ Interference /\ UNCHANGED <<page, orphan, pending>>
    BY <1>3 DEF Advance
  <2> HIDE DEF w
  <2> QED BY <1>1, <1>2, <2>1, <2>2, InterferingKeeps
<1>4. CASE ResetClock
  <2> DEFINE w == [world EXCEPT !.now = 0]
  <2>1. w \in VisitWorlds /\ w.keys = world.keys
    BY <1>1, <1>2, ChangedWorld
  <2>2. Becomes(w, 1) /\ Interference /\ UNCHANGED <<page, orphan, pending>>
    BY <1>4 DEF ResetClock
  <2> HIDE DEF w
  <2> QED BY <1>1, <1>2, <2>1, <2>2, InterferingKeeps
<1>5. CASE ResetRegistry
  <2> DEFINE g == Genesis(world)
             l == Admit(DeployedLedger, world.keys).ledger
             w == [g EXCEPT !.ledger = l]
  <2>1. g \in VisitWorlds /\ g.keys = world.keys
    BY <1>1, GenesisWorld
  <2>2. l \in Good(world.keys)
    BY <1>1, DeployedGood, AdmitGood
  <2>3. Becomes(w, 1) /\ Interference /\ UNCHANGED <<page, orphan, pending>>
    BY <1>5 DEF ResetRegistry
  <2> HIDE DEF g, l
  <2>4. w \in VisitWorlds /\ w.keys = world.keys
    BY <1>2, <2>1, <2>2, ChangedWorld
  <2> HIDE DEF w
  <2> QED BY <1>1, <1>2, <2>3, <2>4, InterferingKeeps
<1>6. ASSUME NEW call \in Presses(world.ledger, world.now), Press(call)
      PROVE  IInv'
  <2>1. call \in CapturedCalls
    BY <1>1, PressesAreCalls
  <2>2. /\ UNCHANGED <<world, stored, writable, page, orphan, exact, clean>>
        /\ pending' = [call |-> call, shown |-> world]
        /\ incidents' = incidents \/ Costs(1)
    BY <1>6 DEF Press
  <2>3. Captured(pending')
    BY <1>1, <2>1, <2>2 DEF Captured
  <2>4. WorldInv' /\ world'.keys = world.keys
    BY <1>2, <2>2, <2>3, WorldStays DEF IInv
  <2>5. PageInv' /\ ScriptInv'
    BY <1>1, <2>2, <2>4, PageStays, ScriptStays DEF IInv
  <2> QED BY <2>4, <2>5 DEF IInv
<1>7. CASE Land
  <2> DEFINE landed == Landed(pending.call, world.ledger, world.now, world.keys)
             n == IF pending.call.do = "issue" THEN world.issued + 1 ELSE world.issued
             v == [world EXCEPT !.ledger = landed.ledger]
             w == [v EXCEPT !.issued = n]
  <2>1. pending.call \in CapturedCalls /\ n \in Nat
    BY <1>1, <1>7 DEF IInv, WorldInv, Captured, Land
  <2>2. landed.ledger \in Good(world.keys)
    BY <1>1, <2>1, LandedGood
  <2>3. w = [world EXCEPT !.ledger = landed.ledger,
                          !.issued = IF pending.call.do = "issue" THEN @ + 1 ELSE @]
    BY <1>1 DEF Worlds
  <2>4. Becomes(w, 0) /\ Interference /\ UNCHANGED <<page, orphan>> /\ pending' = NoCall
    BY <1>7, <2>3 DEF Land
  <2> HIDE DEF landed, n
  <2>5. v \in VisitWorlds /\ v.keys = world.keys
    BY <1>1, <1>2, <2>2, ChangedWorld
  <2>6. v.ledger \in Good(v.keys)
    BY <2>5 DEF VisitWorlds
  <2> HIDE DEF v
  <2>7. w \in VisitWorlds /\ w.keys = world.keys
    BY <1>2, <2>1, <2>5, <2>6, ChangedWorld
  <2> HIDE DEF w
  <2> QED BY <1>1, <1>2, <2>4, <2>7, InterferingKeeps
<1>8. ASSUME NEW readable \in BOOLEAN, Reload(readable)
      PROVE  IInv'
  <2>1. WorldInv'
    BY <1>8, ReloadKeeps DEF IInv
  <2>2. page' = NoPage /\ orphan' \in Loops \cup {NoLoop} /\ exact' = FALSE /\ clean' = 0
    BY <1>8 DEF Reload
  <2> QED BY <2>1, <2>2, ClosedPage DEF IInv
<1>9. ASSUME NEW asked \in BOOLEAN, OpenReplay(asked)
      PROVE  IInv'
  <2>1. UNCHANGED <<world, stored, writable, pending, incidents>>
    BY <1>9 DEF OpenReplay
  <2>2. WorldInv'
    BY <2>1, WorldStays DEF IInv
  <2> QED BY <1>9, <2>2, OpenKeeps DEF IInv
<1>10. CASE LeaveReplay
  <2>1. UNCHANGED <<world, stored, writable, pending, incidents>>
    BY <1>10 DEF LeaveReplay
  <2>2. WorldInv'
    BY <2>1, WorldStays DEF IInv
  <2> QED BY <1>10, <2>2, LeaveKeeps DEF IInv
<1>11. CASE RunOne
  <2>1. /\ UNCHANGED <<world, stored, writable, pending, incidents, orphan, exact, clean>> /\ Idle
        /\ page' = [page EXCEPT !.loop = Loop(page.index, FALSE, FirstBook)]
    BY <1>11 DEF RunOne
  <2>2. WorldInv'
    BY <2>1, WorldStays DEF IInv
  <2>3. PageInv' /\ ScriptInv'
    BY <2>1, FALSE \in BOOLEAN, RunKeeps
  <2> QED BY <2>2, <2>3 DEF IInv
<1>12. CASE RunTheRest
  <2>1. /\ UNCHANGED <<world, stored, writable, pending, orphan, exact, clean>> /\ Idle
        /\ page' = [page EXCEPT !.loop = Loop(page.index, TRUE, FirstBook)]
        /\ Costs(0) \/ Costs(1)
    BY <1>12 DEF RunTheRest
  <2>2. WorldInv'
    BY <1>2, <2>1, WorldStays DEF IInv
  <2>3. PageInv' /\ ScriptInv'
    BY <2>1, TRUE \in BOOLEAN, RunKeeps
  <2> QED BY <2>2, <2>3 DEF IInv
<1>13. CASE NextStep
  <2>1. UNCHANGED <<world, stored, writable, pending, incidents>>
    BY <1>13 DEF NextStep
  <2>2. WorldInv'
    BY <2>1, WorldStays DEF IInv
  <2> QED BY <1>13, <2>2, NextStepKeeps DEF IInv
<1>14. ASSUME NEW i \in 1..N, RewindTo(i)
       PROVE  IInv'
    BY <1>14, RewindKeeps
<1>15. CASE Timer
    BY <1>15, TimerKeeps
<1>16. CASE OrphanTimer
  <2>1. PICK ran \in Outcomes(orphan) : Becomes(ran.after, 1) /\ orphan' = GoesOn(orphan, ran.said)
    BY <1>16 DEF OrphanTimer
  <2>2. orphan \in Loops /\ Interference /\ UNCHANGED <<page, pending>>
    BY <1>1, <1>16 DEF OrphanTimer
  <2>3. ran.after \in VisitWorlds /\ ran.after.keys = world.keys
    BY <1>1, <2>2, OutcomeReads
  <2>4. orphan' \in Loops \cup {NoLoop}
    BY <2>1, <2>2, GoesOnTyped
  <2> QED BY <1>2, <2>1, <2>2, <2>3, <2>4, InterferingKeeps
<1>17. Advance(1) \/ Advance(7) => IInv'
    BY <1>3
<1> QED BY <1>4, <1>5, <1>6, <1>7, <1>8, <1>9, <1>10, <1>11, <1>12, <1>13, <1>14, <1>15, <1>16, <1>17
    DEF Next

-----------------------------------------------------------------------------
(* The theorems.                                                           *)

\* A visit's world, its storage, its page and its runs stay what they can be.
THEOREM SandboxInvariant == Spec => []IInv
<1>1. Init => IInv
    BY InitInv
<1>2. IInv /\ [Next]_vars => IInv'
  <2>1. IInv /\ Next => IInv'
    BY NextInv
  <2>2. IInv /\ UNCHANGED vars => IInv'
    BY DEF vars, IInv, WorldInv, Captured, PageInv, ScriptInv
  <2> QED BY <2>1, <2>2
<1> QED BY <1>1, <1>2, PTL DEF Spec

\* What the page shows of a step nothing interfered with is what the script says the contract
\* answers, whatever was rewound, run one by one or in a row, and whatever happened later.
THEOREM ResultsAreTheScriptsHolds == Spec => []ResultsAreTheScripts
<1>1. IInv => ResultsAreTheScripts
    BY DEF IInv, ScriptInv, ResultsAreTheScripts
<1> QED BY <1>1, SandboxInvariant, PTL

\* Rewinding takes the world back to exactly what the steps still shown made of a deployed one.
THEOREM RewindIsExactHolds == Spec => []RewindIsExact
<1>1. IInv => RewindIsExact
    BY DEF IInv, ScriptInv, RewindIsExact
<1> QED BY <1>1, SandboxInvariant, PTL

\* Loading the page again keeps a world that is stored, and never joins a ledger to secrets it was
\* not made with.
THEOREM ReloadKeepsTheWorldHolds == Spec => ReloadKeepsTheWorld
<1>1. IInv /\ IInv' => [/\ Reload(TRUE) /\ writable => world' = world
                        /\ ToSet(world'.ledger.members) \subseteq {Outsider, world'.keys}]_vars
  <2> SUFFICES ASSUME IInv, IInv'
               PROVE  /\ Reload(TRUE) /\ writable => world' = world
                      /\ ToSet(world'.ledger.members) \subseteq {Outsider, world'.keys}
    OBVIOUS
  <2>1. Reload(TRUE) /\ writable => world' = world
    BY TRUE \in BOOLEAN, ReloadKeeps DEF IInv
  <2>2. world'.ledger \in Good(world'.keys)
    BY DEF IInv, WorldInv
  <2>3. ToSet(world'.ledger.members) \subseteq {Outsider, world'.keys}
    BY <2>2 DEF Good
  <2> QED BY <2>1, <2>3
<1> QED BY <1>1, SandboxInvariant, PTL DEF ReloadKeepsTheWorld

-----------------------------------------------------------------------------
(* The workspaces.                                                         *)

\* A lender finds an open pledge by its holder, and proceeds by their payee or their last holder.
LEMMA MineReads ==
    ASSUME NEW keys, NEW l \in Good(keys), NEW f \in Lenders, NEW r \in Mine(l, f)
    PROVE  /\ r \in Refs /\ r \in DeskRefs
           /\ PledgeOf(l, r).status \in {"OFFERED", "PLEDGED"} => PledgeOf(l, r).holder = f
           /\ PledgeOf(l, r).status = "SETTLED" => PledgeOf(l, r).payee \in {"seller", f}
<1>1. r \in Refs /\ r \in DeskRefs /\ f \in {PledgeOf(l, r).holder, PledgeOf(l, r).payee}
    BY WorkspacesAssumption DEF Mine
<1>2. PledgeOK(PledgeOf(l, r))
    BY <1>1, PledgeTyped
<1>3. f # Nobody /\ f # "seller"
    BY NobodyAssumption DEF Lenders
<1> QED BY <1>1, <1>2, <1>3 DEF PledgeOK

LEMMA ButtonsHold ==
    ASSUME NEW keys, NEW l \in Good(keys), NEW t \in Nat
    PROVE  ButtonsAreAccepted(l, t, keys)
<1> DEFINE said(b) == Landed(b, l, t, keys).said
           Honest(b) ==
               \/ said(b) = "ok"
               \/ said(b) \in {"NOT_REGISTERED_DEBTOR", "NOT_LICENSED"} /\ ~IsMember(l, keys)
               \/ said(b) = "NOT_PAYEE" /\ b.party # "seller" /\ PledgeOf(l, b.ref).payee = "seller"
               \/ said(b) = "DUPLICATE_REQUEST" /\ b.request \in l.requests
<1>1. ASSUME NEW b \in DebtorButtons(l)
      PROVE  Honest(b)
  <2>1. CASE b \in {[do |-> "acknowledge", ref |-> r] : r \in {x \in DeskRefs : ~HasAcknowledged(l, x)}}
    <3>1. PICK r \in DeskRefs : ~HasAcknowledged(l, r) /\ b = [do |-> "acknowledge", ref |-> r]
      BY <2>1
    <3>2. Landed(b, l, t, keys) = Acknowledge(l, keys, r)
      BY <3>1 DEF Landed
    <3> QED BY <3>1, <3>2, AcknowledgeSays
  <2>2. CASE b \in {[do |-> "pay", ref |-> r] :
            r \in {x \in DeskRefs : HasAcknowledged(l, x) /\ PledgeOf(l, x).status # "SETTLED"}}
    <3>1. PICK r \in DeskRefs : /\ HasAcknowledged(l, r) /\ PledgeOf(l, r).status # "SETTLED"
                                /\ b = [do |-> "pay", ref |-> r]
      BY <2>2
    <3>2. Landed(b, l, t, keys) = Pay(l, r)
      BY <3>1 DEF Landed
    <3> QED BY <3>1, <3>2, PaySays
  <2> QED BY <1>1, <2>1, <2>2 DEF DebtorButtons
<1>2. ASSUME NEW b \in SellerClaims(l)
      PROVE  Honest(b)
  <2>1. PICK r \in DeskRefs : /\ PledgeOf(l, r).status = "SETTLED" /\ PledgeOf(l, r).payee = "seller"
                              /\ ~PledgeOf(l, r).claimed
                              /\ b = [do |-> "claim", ref |-> r, party |-> "seller"]
    BY <1>2 DEF SellerClaims
  <2>2. Landed(b, l, t, keys) = Claim(l, r, "seller")
    BY <2>1 DEF Landed
  <2> QED BY <2>1, <2>2, ClaimSays
<1>3. ASSUME NEW f \in Lenders, NEW b \in LenderClaims(l, f)
      PROVE  Honest(b)
  <2>1. PICK r \in Mine(l, f) : /\ PledgeOf(l, r).status = "SETTLED" /\ ~PledgeOf(l, r).claimed
                                /\ b = [do |-> "claim", ref |-> r, party |-> f]
    BY <1>3 DEF LenderClaims
  <2>2. Landed(b, l, t, keys) = Claim(l, r, f)
    BY <2>1 DEF Landed
  <2>3. PledgeOf(l, r).payee \in {"seller", f} /\ f # "seller"
    BY <2>1, MineReads DEF Lenders
  <2>4. b.ref = r /\ b.party = f
    BY <2>1
  <2> HIDE DEF Mine
  <2>5. CASE PledgeOf(l, r).payee = f
    BY <2>1, <2>2, <2>5, ClaimSays
  <2>6. CASE PledgeOf(l, r).payee = "seller"
    BY <2>1, <2>2, <2>3, <2>4, <2>6, ClaimSays
  <2> QED BY <2>3, <2>5, <2>6
<1>4. ASSUME NEW b \in ApproveButtons(l)
      PROVE  Honest(b)
  <2>1. PICK x \in (l.requests \X (1..3)) \ l.approvals :
            b = [do |-> "approve", request |-> x[1], keyholder |-> x[2]]
    BY <1>4 DEF ApproveButtons
  <2>2. x[1] \in l.requests /\ <<x[1], x[2]>> \notin l.approvals
    BY <2>1
  <2>3. Landed(b, l, t, keys) = Approve(l, x[1], x[2])
    BY <2>1 DEF Landed
  <2> QED BY <2>2, <2>3, ApproveSays DEF IsRequested
<1>5. ASSUME NEW b \in RequestButtons(l)
      PROVE  Honest(b)
  <2>1. PICK m \in 1..l.records : b = [do |-> "request", request |-> [record |-> m, matter |-> "desk"]]
    BY <1>5 DEF RequestButtons
  <2>2. IsSealed(l, b.request.record)
    BY <2>1 DEF IsSealed
  <2>3. Landed(b, l, t, keys) = Request(l, b.request)
    BY <2>1 DEF Landed
  <2> QED BY <2>2, <2>3, RequestSays DEF IsRequested
<1>6. ASSUME NEW f \in Lenders, NEW b \in AcceptButtons(l, t, f)
      PROVE  Honest(b)
  <2>1. PICK r \in Mine(l, f) : /\ PledgeOf(l, r).status = "OFFERED" /\ PledgeOf(l, r).expiry > t
                                /\ b = [do |-> "accept", ref |-> r, lender |-> f]
    BY <1>6 DEF AcceptButtons
  <2>2. PledgeOf(l, r).holder = f /\ r \in Refs
    BY <2>1, MineReads
  <2>3. PledgeOf(l, r).expiry \in Nat
    BY <2>2, PledgeTyped DEF Pledges
  <2>4. t < PledgeOf(l, r).expiry
    BY <2>1, <2>3
  <2>5. Landed(b, l, t, keys) = Accept(l, t, keys, f, r)
    BY <2>1 DEF Landed
  <2> QED BY <2>1, <2>2, <2>4, <2>5, AcceptSays
<1>7. ASSUME NEW f \in Lenders, NEW b \in ReleaseButtons(l, f)
      PROVE  Honest(b)
  <2>1. PICK r \in Mine(l, f) : /\ PledgeOf(l, r).status = "PLEDGED"
                                /\ b = [do |-> "release", ref |-> r, lender |-> f]
    BY <1>7 DEF ReleaseButtons
  <2>2. PledgeOf(l, r).holder = f
    BY <2>1, MineReads
  <2>3. Landed(b, l, t, keys) = Release(l, r, f)
    BY <2>1 DEF Landed
  <2> QED BY <2>1, <2>2, <2>3, ReleaseSays
<1> HIDE DEF Honest
<1>8. \A b \in RowButtons(l, t) : Honest(b)
    BY <1>1, <1>2, <1>3, <1>4, <1>5, <1>6, <1>7 DEF RowButtons, Claims
<1> QED BY <1>8 DEF Honest, ButtonsAreAccepted

\* What a row says of its receivable is what assertFree asks.
LEMMA FreeOnTheList ==
    ASSUME NEW keys, NEW l \in Good(keys), NEW t \in Nat, NEW r \in Refs
    PROVE  Encumbrance(l, t, r) = "FREE" <=> FreeCode(l, t, r) = "ok"
<1>1. PledgeOf(l, r) \in Pledges
    BY PledgeTyped
<1> QED BY <1>1 DEF Encumbrance, FreeCode, Pledges

LEMMA ListsHold ==
    ASSUME NEW keys, NEW l \in Good(keys), NEW t \in Nat
    PROVE  ListsAreTheCircuits(l, t, keys)
<1>1. ASSUME NEW c \in OfferForm(t)
      PROVE  Landed(c, l, t, keys).said = "ok" <=>
                c.ref \in Offerable(l, t) /\ c.until <= DueDay[c.ref]
  <2>1. PICK r \in DeskRefs, f \in Lenders, term \in OfferTerms :
            c = [do |-> "offer", ref |-> r, lender |-> f, until |-> t + term]
    BY <1>1 DEF OfferForm
  <2>2. r \in Refs /\ t < t + term
    BY <2>1, WorkspacesAssumption
  <2>3. Landed(c, l, t, keys) = Offer(l, t, r, f, t + term) /\ c.ref = r /\ c.until = t + term
    BY <2>1 DEF Landed
  <2>4. Offer(l, t, r, f, t + term).said = "ok" <=>
            HasAcknowledged(l, r) /\ t + term <= DueDay[r] /\ FreeCode(l, t, r) = "ok"
    BY <2>2, OfferSays
  <2> QED BY <2>1, <2>2, <2>3, <2>4, FreeOnTheList DEF Offerable
<1>2. ASSUME NEW c \in CertifyForm(t)
      PROVE  Landed(c, l, t, keys).said = "ok" <=>
                /\ \A r \in ToSet(c.pool) : r \in Offerable(l, t) /\ c.until <= DueDay[r]
                /\ PoolTotal(c.pool) >= c.floor /\ ~IsCertified(l, "desk")
  <2>1. PICK p \in Pools : c = [do |-> "certify", pool |-> p, floor |-> BaseFloor, until |-> t + BaseTerm]
    BY <1>2 DEF CertifyForm
  <2>2. BaseFloor \in Nat /\ t + BaseTerm \in Nat /\ t < t + BaseTerm
    BY DEF BaseFloor, BaseTerm
  <2>3. Landed(c, l, t, keys) = Certify(l, t, "desk", p, "B", c.floor, c.until)
    BY <2>1 DEF Landed
  <2>4. c.pool = p /\ c.floor \in Nat /\ c.until \in Nat /\ t < c.until
    BY <2>1, <2>2
  <2>5. Landed(c, l, t, keys).said = "ok" <=>
            /\ PoolIsFit(l, p, c.floor, c.until)
            /\ \A r \in ToSet(p) : FreeCode(l, t, r) = "ok"
    BY <2>3, <2>4, CertifyPoolSays
  <2>6. \A r \in ToSet(p) : r \in DeskRefs /\ (Encumbrance(l, t, r) = "FREE" <=> FreeCode(l, t, r) = "ok")
    BY PoolReads, WorkspacesAssumption, FreeOnTheList
  <2> QED BY <2>4, <2>5, <2>6 DEF PoolIsFit, Offerable
<1> QED BY <1>1, <1>2 DEF ListsAreTheCircuits

\* A day gone by frees a receivable and a day come back takes it, and neither settles one.
LEMMA FreeInTime ==
    ASSUME NEW keys, NEW l \in Good(keys), NEW from \in Nat, NEW to \in Nat, NEW r \in Refs,
           FreeCode(l, from, r) = "ok"
    PROVE  /\ FreeCode(l, to, r) \in {"ok", "ALREADY_ENCUMBERED"}
           /\ FreeCode(l, to, r) = "ALREADY_ENCUMBERED" => to < from
<1>1. PledgeOf(l, r).expiry \in Nat
    BY PledgeTyped DEF Pledges
<1> QED BY <1>1 DEF FreeCode

\* Between a press and its landing the clock spoils an acceptance, an offer or a certificate at most.
LEMMA DelayHolds ==
    ASSUME NEW keys, NEW l \in Good(keys), NEW from \in Nat, NEW to \in Nat, NEW call \in CapturedCalls,
           Landed(call, l, from, keys).said = "ok"
    PROVE  Landed(call, l, to, keys).said \in {"ok"} \cup ClockSpoils(call, from, to)
<1>1. CASE call \in RowCalls \cup ClaimCalls \cup RequestCalls \cup ApproveCalls \cup FormCalls
  <2>1. Landed(call, l, to, keys) = Landed(call, l, from, keys)
    BY <1>1 DEF RowCalls, ClaimCalls, RequestCalls, ApproveCalls, FormCalls, Landed
  <2> QED BY <2>1
<1>2. CASE call \in LenderCalls
  <2>1. CASE call.do = "release"
    <3>1. Landed(call, l, to, keys) = Landed(call, l, from, keys)
      BY <2>1 DEF Landed
    <3> QED BY <3>1
  <2>2. CASE call.do = "accept"
    <3>1. call.ref \in Refs
      BY <1>2 DEF LenderCalls
    <3>2. PledgeOf(l, call.ref).expiry \in Nat
      BY <3>1, PledgeTyped DEF Pledges
    <3>3. /\ Landed(call, l, from, keys) = Accept(l, from, keys, call.lender, call.ref)
          /\ Landed(call, l, to, keys) = Accept(l, to, keys, call.lender, call.ref)
      BY <2>2 DEF Landed
    <3>4. from < PledgeOf(l, call.ref).expiry
      BY <3>3, AcceptSays
    <3>5. Landed(call, l, to, keys).said = IF to < PledgeOf(l, call.ref).expiry THEN "ok" ELSE "OFFER_EXPIRED"
      BY <3>3, AcceptSays
    <3>6. to > from => ClockSpoils(call, from, to) = {"OFFER_EXPIRED"}
      BY <2>2 DEF ClockSpoils
    <3> QED BY <3>2, <3>4, <3>5, <3>6
  <2> QED BY <1>2, <2>1, <2>2 DEF LenderCalls
<1>3. /\ to > from /\ call.do \in {"offer", "certify"} => ClockSpoils(call, from, to) = {"BAD_EXPIRY"}
      /\ to < from /\ call.do \in {"offer", "certify"} => ClockSpoils(call, from, to) = {"ALREADY_ENCUMBERED"}
    BY DEF ClockSpoils
<1>4. CASE call \in OfferCalls
  <2>1. call.do = "offer" /\ call.ref \in Refs /\ call.until \in Nat
    BY <1>4 DEF OfferCalls
  <2>2. \A t : Landed(call, l, t, keys) = Offer(l, t, call.ref, call.lender, call.until)
    BY <2>1 DEF Landed
  <2>3. /\ HasAcknowledged(l, call.ref) /\ from < call.until /\ call.until <= DueDay[call.ref]
        /\ FreeCode(l, from, call.ref) = "ok"
    BY <2>2, OfferSays
  <2>4. Landed(call, l, to, keys).said =
            IF ~(to < call.until) THEN "BAD_EXPIRY" ELSE FreeCode(l, to, call.ref)
    BY <2>2, <2>3, OfferSays
  <2>5. ~(to < call.until) => to > from
    BY <2>1, <2>3
  <2> QED BY <1>3, <2>1, <2>3, <2>4, <2>5, FreeInTime
<1>5. CASE call \in CertifyCalls
  <2>1. call.do = "certify" /\ call.pool \in Pools /\ call.floor \in Nat /\ call.until \in Nat
    BY <1>5 DEF CertifyCalls, BaseFloor
  <2>2. \A t : Landed(call, l, t, keys) = Certify(l, t, "desk", call.pool, "B", call.floor, call.until)
    BY <2>1 DEF Landed
  <2>3. /\ from < call.until /\ PoolIsFit(l, call.pool, call.floor, call.until)
        /\ \A r \in ToSet(call.pool) : FreeCode(l, from, r) = "ok"
    BY <2>1, <2>2, CertifyPoolSays
  <2> DEFINE said == Landed(call, l, to, keys).said
  <2>4. /\ ~(to < call.until) => said = "BAD_EXPIRY"
        /\ to < call.until => \E r \in ToSet(call.pool) : said = FreeCode(l, to, r)
    BY <2>1, <2>2, <2>3, CertifyPoolSays
  <2>5. ~(to < call.until) => to > from
    BY <2>1, <2>3
  <2>6. \A r \in ToSet(call.pool) :
            /\ FreeCode(l, to, r) \in {"ok", "ALREADY_ENCUMBERED"}
            /\ FreeCode(l, to, r) = "ALREADY_ENCUMBERED" => to < from
    BY <2>1, <2>3, PoolReads, WorkspacesAssumption, FreeInTime
  <2> HIDE DEF said
  <2>7. said = "ok" \/ (said = "BAD_EXPIRY" /\ to > from) \/ (said = "ALREADY_ENCUMBERED" /\ to < from)
    BY <2>4, <2>5, <2>6
  <2> QED BY <1>3, <2>1, <2>7 DEF said
<1> QED BY <1>1, <1>2, <1>4, <1>5 DEF CapturedCalls

LEMMA ProceedsHold ==
    ASSUME NEW keys, NEW l \in Good(keys), NEW t \in Nat
    PROVE  ProceedsHaveOneButton(l, t, keys)
<1>1. SUFFICES ASSUME NEW r \in DeskRefs, PledgeOf(l, r).status = "SETTLED", ~PledgeOf(l, r).claimed
               PROVE  Cardinality({b \in Claims(l) : b.ref = r /\ Landed(b, l, t, keys).said = "ok"}) = 1
    BY DEF ProceedsHaveOneButton
<1> DEFINE p == PledgeOf(l, r)
           button == [do |-> "claim", ref |-> r, party |-> p.payee]
           accepted == {b \in Claims(l) : b.ref = r /\ Landed(b, l, t, keys).said = "ok"}
<1>2. p.payee = "seller" \/ (p.payee = p.holder /\ p.holder \in Lenders)
  <2>1. r \in Refs
    BY WorkspacesAssumption
  <2> QED BY <1>1, <2>1, PledgeTyped DEF PledgeOK
<1>3. button \in Claims(l)
  <2>1. CASE p.payee = "seller"
    BY <1>1, <2>1 DEF Claims, SellerClaims
  <2>2. CASE p.payee = p.holder /\ p.holder \in Lenders
    <3>1. r \in Mine(l, p.payee) /\ p.payee \in Lenders
      BY <2>2 DEF Mine
    <3>2. button \in LenderClaims(l, p.payee)
      BY <1>1, <3>1 DEF LenderClaims
    <3> QED BY <3>1, <3>2 DEF Claims
  <2> QED BY <1>2, <2>1, <2>2
<1>4. Landed(button, l, t, keys).said = "ok" /\ button.ref = r
  <2>1. Landed(button, l, t, keys) = Claim(l, r, p.payee)
    BY DEF Landed
  <2> QED BY <1>1, <2>1, ClaimSays
<1>5. ASSUME NEW b \in Claims(l), b.ref = r, Landed(b, l, t, keys).said = "ok"
      PROVE  b = button
  <2>1. PICK party : b = [do |-> "claim", ref |-> r, party |-> party]
    BY <1>5 DEF Claims, SellerClaims, LenderClaims
  <2>2. Landed(b, l, t, keys) = Claim(l, r, party)
    BY <2>1 DEF Landed
  <2>3. p.payee = party
    BY <1>5, <2>2, ClaimSays
  <2> QED BY <2>1, <2>3
<1>6. accepted = {button}
    BY <1>3, <1>4, <1>5
<1> HIDE DEF accepted, button
<1>7. Cardinality(accepted) = 1
    BY <1>6, FS_Singleton
<1> QED BY <1>7 DEF accepted

\* A row's button is one the registry accepts, but for the three it refuses by name; the forms'
\* lists are what the circuits call free; paid proceeds wait behind exactly one page's claim; and a
\* press lands as it was shown, but for what the clock can spoil.
THEOREM WorkspacesAreHonestHolds == Spec => []WorkspacesAreHonest
<1>1. IInv => WorkspacesAreHonest
  <2> SUFFICES ASSUME IInv
               PROVE  WorkspacesAreHonest
    OBVIOUS
  <2>1. world.ledger \in Good(world.keys) /\ world.now \in Nat
    BY DEF IInv, WorldInv, Worlds
  <2>2. PressesLandAsShown
    <3>1. SUFFICES ASSUME pending # NoCall, world.ledger = pending.shown.ledger,
                          Landed(pending.call, pending.shown.ledger, pending.shown.now,
                                 pending.shown.keys).said = "ok"
                   PROVE  Landed(pending.call, world.ledger, world.now, world.keys).said \in
                            {"ok"} \cup ClockSpoils(pending.call, pending.shown.now, world.now)
      BY DEF PressesLandAsShown
    <3>2. /\ pending.call \in CapturedCalls
          /\ pending.shown \in VisitWorlds /\ pending.shown.keys = world.keys
      BY <3>1 DEF IInv, WorldInv, Captured
    <3>3. pending.shown.now \in Nat
      BY <3>2 DEF VisitWorlds, Worlds
    <3> QED BY <2>1, <3>1, <3>2, <3>3, DelayHolds
  <2> QED BY <2>1, <2>2, ButtonsHold, ListsHold, ProceedsHold DEF WorkspacesAreHonest
<1> QED BY <1>1, SandboxInvariant, PTL

=============================================================================
