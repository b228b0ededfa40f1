--------------------------- MODULE SandboxRegistry ---------------------------
(***************************************************************************)
(* The registry that runs in the browser's tab: the compiled circuits      *)
(* (contract/src/managed/stock-and-foil/contract/index.js), which          *)
(* sdk/src/backend/simulator.ts calls in process, and the invoice book     *)
(* kept beside it (web/src/lib/world.ts).                                  *)
(*                                                                         *)
(* A circuit call is a function of the ledger: it gives the ledger that    *)
(* follows and what the caller is told, "ok" or the code of the first      *)
(* assert that does not hold.  A refused call leaves the ledger alone.     *)
(* Module Registry models the same circuits with every party and any       *)
(* invoice; here they are cut down to one debtor, one seller and two       *)
(* financiers, who act on the page's behalf, and answer with their codes.  *)
(* Times are in days since T0, amounts in hundreds of dollars.             *)
(***************************************************************************)
EXTENDS Integers, Sequences, SequencesExt, FiniteSetsExt

CONSTANT Nobody

\* The invoice book: 1001 to 1003 are real, 9999 the supplier wrote alone, and
\* "inflated" is 1001 at ten times its amount.
Refs == {"1001", "1002", "1003", "9999", "inflated"}
Amount == [r \in Refs |-> CASE r = "1001" -> 23 [] r = "1002" -> 12 [] r = "1003" -> 9
                            [] r = "9999" -> 50 [] OTHER -> 230]
DueDay == [r \in Refs |-> CASE r = "1002" -> 75 [] r = "1003" -> 60 [] OTHER -> 90]
Lenders == {"A", "B"}

ASSUME NobodyAssumption == Nobody \notin Lenders \cup {"seller"}

\* Somebody other than the three parties of the demonstration.
Outsider == 0

NoPledge == [status |-> "ABSENT", holder |-> Nobody, expiry |-> 0, record |-> 0,
             payee |-> Nobody, claimed |-> FALSE]

\* members: the secrets whose holders were admitted, one entry per admission.
\* records, requests, approvals: sealed records are numbered as they are sealed.
DeployedLedger ==
    [members |-> <<>>, acks |-> {}, pledges |-> [r \in Refs |-> NoPledge], records |-> 0,
     certified |-> {}, requests |-> {}, approvals |-> {}]

\* What a disclosure is asked for in, and the label of a certificate: the replay's or the pages'.
Labels == {"replay", "desk"}

Pledges ==
    [status : {"ABSENT", "OFFERED", "PLEDGED", "RELEASED", "SETTLED"},
     holder : Lenders \cup {Nobody}, expiry : Nat, record : Nat,
     payee : Lenders \cup {"seller", Nobody}, claimed : BOOLEAN]

Requests == [record : Nat, matter : Labels]

Ledgers ==
    [members : Seq(Nat), acks : SUBSET Refs, pledges : [Refs -> Pledges], records : Nat,
     certified : SUBSET Labels, requests : SUBSET Requests,
     approvals : SUBSET (Requests \X (1..3))]

-----------------------------------------------------------------------------
(* What a circuit or a page reads of a ledger.                             *)

\* A path to the leaf of who, in the tree of debtors or of financiers.
IsMember(l, who) == who \in ToSet(l.members)

HasAcknowledged(l, r) == r \in l.acks

PledgeOf(l, r) == l.pledges[r]

IsSealed(l, record) == record \in 1..l.records

IsCertified(l, label) == label \in l.certified

IsRequested(l, request) == request \in l.requests

\* l with pledge p stored for r.
Stored(l, r, p) == [l EXCEPT !.pledges[r] = p]

\* checks pairs each assert with its code, in the order they are evaluated.
Verdict(checks) ==
    LET failing == {i \in DOMAIN checks : ~checks[i][1]}
    IN  IF failing = {} THEN "ok" ELSE checks[Min(failing)][2]

Called(l, checks, after) ==
    [ledger |-> IF Verdict(checks) = "ok" THEN after ELSE l, said |-> Verdict(checks)]

-----------------------------------------------------------------------------
(* The circuits.                                                           *)

\* The operator admits the three parties, or somebody else.
Admit(l, who) == Called(l, <<>>, [l EXCEPT !.members = Append(@, who)])

Acknowledge(l, keys, r) ==
    Called(l, << <<IsMember(l, keys), "NOT_REGISTERED_DEBTOR">>,
                 <<~HasAcknowledged(l, r), "ALREADY_ACKNOWLEDGED">> >>,
           [l EXCEPT !.acks = @ \cup {r}])

\* assertFree, as two asserts.
FreeChecks(l, t, r) ==
    << <<PledgeOf(l, r).status # "SETTLED", "ALREADY_SETTLED">>,
       <<\/ PledgeOf(l, r).status \in {"ABSENT", "RELEASED"}
         \/ PledgeOf(l, r).status = "OFFERED" /\ t >= PledgeOf(l, r).expiry, "ALREADY_ENCUMBERED">> >>

Offered(lender, expiry, record) ==
    [NoPledge EXCEPT !.status = "OFFERED", !.holder = lender, !.expiry = expiry, !.record = record]

\* sealRecord and the write of its caller: r offered to lender, with a record of its own.
Locked(l, r, lender, expiry) ==
    Stored([l EXCEPT !.records = @ + 1], r, Offered(lender, expiry, l.records + 1))

Offer(l, t, r, lender, expiry) ==
    Called(l, << <<HasAcknowledged(l, r), "NOT_ACKNOWLEDGED">>,
                 <<t < expiry, "BAD_EXPIRY">>,
                 <<expiry <= DueDay[r], "INVOICE_OVERDUE">> >> \o FreeChecks(l, t, r),
           Locked(l, r, lender, expiry))

Accept(l, t, keys, lender, r) ==
    Called(l, << <<IsMember(l, keys), "NOT_LICENSED">>,
                 <<PledgeOf(l, r).status = "OFFERED", "NO_SUCH_OFFER">>,
                 <<PledgeOf(l, r).holder = lender, "NOT_ADDRESSEE">>,
                 <<t < PledgeOf(l, r).expiry, "OFFER_EXPIRED">> >>,
           Stored(l, r, [PledgeOf(l, r) EXCEPT !.status = "PLEDGED"]))

Release(l, r, lender) ==
    Called(l, << <<PledgeOf(l, r).status = "PLEDGED", "NOT_PLEDGED">>,
                 <<PledgeOf(l, r).holder = lender, "NOT_HOLDER">> >>,
           Stored(l, r, [PledgeOf(l, r) EXCEPT !.status = "RELEASED"]))

\* checkSlot, for one slot of a pool.
SlotChecks(l, r, validUntil) ==
    << <<HasAcknowledged(l, r), "NOT_ACKNOWLEDGED">>, <<validUntil <= DueDay[r], "INVOICE_OVERDUE">> >>

\* lockSlot on every slot of a pool: its invoices offered to lender, their records sealed in order.
LockedPool(l, pool, lender, validUntil) ==
    LET slot(r) == CHOOSE i \in DOMAIN pool : pool[i] = r
    IN  [l EXCEPT !.records = @ + Len(pool),
                  !.pledges = [r \in Refs |->
                      IF r \in ToSet(pool) THEN Offered(lender, validUntil, l.records + slot(r))
                                            ELSE PledgeOf(l, r)]]

\* A pool is a vector of four.
SlotAmount(pool, i) == IF i \in DOMAIN pool THEN Amount[pool[i]] ELSE 0

PoolTotal(pool) ==
    SlotAmount(pool, 1) + SlotAmount(pool, 2) + SlotAmount(pool, 3) + SlotAmount(pool, 4)

\* The pool is checked slot by slot and as a whole before anything is locked; label is the
\* lender's reference and nonce.
Certify(l, t, label, pool, lender, floor, validUntil) ==
    Called(l, << <<t < validUntil, "BAD_EXPIRY">>,
                 <<~IsCertified(l, label), "DUPLICATE_CERTIFICATE">>,
                 <<pool # <<>>, "EMPTY_POOL">> >>
              \o FlattenSeq([i \in DOMAIN pool |-> SlotChecks(l, pool[i], validUntil)])
              \o << <<IsInjective(pool), "DUPLICATE_INVOICE">>,
                    <<PoolTotal(pool) >= floor, "BELOW_FLOOR">> >>
              \o FlattenSeq([i \in DOMAIN pool |-> FreeChecks(l, t, pool[i])]),
           [LockedPool(l, pool, lender, validUntil) EXCEPT !.certified = @ \cup {label}])

Pay(l, r) ==
    Called(l, << <<HasAcknowledged(l, r), "NOT_ACKNOWLEDGED">>,
                 <<PledgeOf(l, r).status # "SETTLED", "ALREADY_SETTLED">> >>,
           LET p == PledgeOf(l, r)
           IN  Stored(l, r, [p EXCEPT !.status = "SETTLED",
                                      !.payee = IF p.status = "PLEDGED" THEN p.holder
                                                ELSE "seller"]))

\* claimAsHolder and claimAsSeller: party is who proves the payee tag.
Claim(l, r, party) ==
    Called(l, << <<PledgeOf(l, r).status = "SETTLED", "NOT_SETTLED">>,
                 <<PledgeOf(l, r).payee = party, "NOT_PAYEE">>,
                 <<~PledgeOf(l, r).claimed, "ALREADY_CLAIMED">> >>,
           Stored(l, r, [PledgeOf(l, r) EXCEPT !.claimed = TRUE]))

\* A request is a record and the reference of the matter it is asked for in.
Request(l, request) ==
    Called(l, << <<IsSealed(l, request.record), "NO_SUCH_RECORD">>,
                 <<~IsRequested(l, request), "DUPLICATE_REQUEST">> >>,
           [l EXCEPT !.requests = @ \cup {request}])

Approve(l, request, keyholder) ==
    Called(l, << <<IsRequested(l, request), "NO_SUCH_REQUEST">>,
                 <<<<request, keyholder>> \notin l.approvals, "ALREADY_APPROVED">> >>,
           [l EXCEPT !.approvals = @ \cup {<<request, keyholder>>}])

Approvals(l, request) == {k \in 1..3 : <<request, k>> \in l.approvals}

\* AuditorClient.open, of one request: it reads the ledger and needs two approvals of it.
Opens(l, request) == IsRequested(l, request) /\ Cardinality(Approvals(l, request)) >= 2

=============================================================================
