---------------------------- MODULE SponsorProofs ----------------------------
(***************************************************************************)
(* Theorems about Sponsor, for any finite set of requests, any connections *)
(* and transactions, any budget, any fee cap and any rate limit.           *)
(***************************************************************************)
EXTENDS Sponsor, FiniteSetTheorems, TLAPS

-----------------------------------------------------------------------------
(* The inductive invariant.  The budget at an await says nothing of what   *)
(* was submitted in earlier lives, and what is spent is only a number: the *)
(* strengthening ties it to the requests it was spent on, and every        *)
(* request in flight to the life whose counters hold its reservation.      *)

\* The requests in flight are of this life of the process, and one whose submission outlived the
\* process is of an earlier one.  What may reach the chain costs no more than was reserved for it.
FlightsAreOfThisLife ==
    \A r \in Requests :
        /\ r \in InFlight => request[r].life = life
        /\ request[r].stage # "new" => request[r].life <= life
        /\ request[r].stage = "orphaned" => request[r].life < life
        /\ r \in InFlight \/ request[r].stage \in Exposed =>
                /\ request[r].caller \in Callers /\ request[r].tx \in Txs
                /\ request[r].fee <= MaxFee

\* The requests of this life that were charged for.
Done == {r \in Requests : request[r].life = life /\ request[r].stage \in {"paid", "failed"}}

\* What is spent is what the submissions of this life cost.
SpentIsCharged == spent = Cardinality(Units(Done))

\* The requests of c that took a place in a window of c and did not get it back.
Holders(c) == {r \in Requests : request[r].caller = c /\ request[r].stage \notin {"new", "refused"}}

\* The places of c: all of those of the windows it had, and the ones taken in the window it has.
Places(c) == IF windows[c] = None THEN MaxRequests * opened[c]
             ELSE MaxRequests * (opened[c] - 1) + windows[c].count

\* A refund goes to the window there is now, and yet no place that is held is given away.
PlacesAreCounted ==
    \A c \in Callers :
        /\ Cardinality(Holders(c)) <= Places(c)
        /\ windows[c] # None => windows[c].count <= MaxRequests

\* What landed was handed to the node for a transaction of its own, and a client knows of its
\* request only what came of it.
AnswersFollowRequests ==
    \A r \in Requests :
        /\ \A t \in Txs : landed[t] = r => request[r].tx = t /\ request[r].stage \in Exposed
        /\ request[r].stage = "new" \/ r \in InFlight => told[r] = "waiting"
        /\ told[r] = "refused" => request[r].stage = "refused"
        /\ told[r] = "paid" => request[r].stage = "paid"
        /\ request[r].stage \in Exposed \cup {"balancing", "checking"} => request[r].fee \in Fees

SponsorInv ==
    /\ TypeOK /\ BudgetHolds /\ FlightsAreOfThisLife /\ SpentIsCharged
    /\ ExposureWithinBudget /\ PlacesAreCounted /\ AnswersFollowRequests

-----------------------------------------------------------------------------
(* Types.                                                                  *)

LEMMA CallersOfConnections ==
    \A k \in Connections : rateLimitBucket(k) \in Callers /\ k.origin \in STRING
  BY SponsorAssumption DEF SponsorAssumption, Callers, Connection

LEMMA NewRequestType ==
    /\ NewRequest \in Request
    /\ [NewRequest EXCEPT !.stage = "refused"] \in Request
    /\ [NewRequest EXCEPT !.stage = "refused"].stage = "refused"
    /\ [NewRequest EXCEPT !.stage = "refused"].caller = None
    /\ [NewRequest EXCEPT !.stage = "refused"].life = 0
  BY SponsorAssumption DEF SponsorAssumption, NewRequest, Request, Stages

\* A window stays one when a place is taken or given back.
LEMMA WindowType ==
    ASSUME TypeOK, NEW c \in Callers
    PROVE  /\ {Taken(c), Refund(Taken(c))} \subseteq [startedAt : 0..MaxTime, count : Nat]
           /\ Refund(windows[c]) \in [startedAt : 0..MaxTime, count : Nat] \cup {None}
  BY SponsorAssumption DEF SponsorAssumption, TypeOK, Taken, Expired, Refund

LEMMA TellType ==
    ASSUME TypeOK, NEW r \in Requests, NEW stage \in {"refused", "errored", "paid", "failed"},
           Tell(r, stage)
    PROVE  /\ told' \in [Requests -> Answers]
           /\ \A q \in Requests \ {r} : told'[q] = told[q]
           /\ told'[r] \in {Answer(stage), "TRANSPORT"}
  BY DEF TypeOK, Tell, Answer, Answers

LEMMA MoveType ==
    ASSUME TypeOK, NEW r \in Requests, NEW stage \in Stages, Move(r, stage)
    PROVE  request' \in [Requests -> Request]
  BY DEF TypeOK, Move, Request

\* What is in flight holds a reservation, and is counted.
LEMMA FlightIsFinite ==
    /\ IsFiniteSet(InFlight) /\ Cardinality(InFlight) \in Nat
    /\ \A r \in Requests :
        /\ IsFiniteSet(InFlight \cup {r})
        /\ Cardinality(InFlight \cup {r}) =
             IF r \in InFlight THEN Cardinality(InFlight) ELSE Cardinality(InFlight) + 1
        /\ Cardinality(InFlight \ {r}) =
             IF r \in InFlight THEN Cardinality(InFlight) - 1 ELSE Cardinality(InFlight)
  <1>1. IsFiniteSet(InFlight)
    BY SponsorAssumption, FS_Subset DEF SponsorAssumption, InFlight
  <1> QED BY <1>1, FS_CardinalityType, FS_AddElement, FS_RemoveElement

\* A request in flight has its whole fee cap reserved.
LEMMA FlightIsReserved ==
    ASSUME TypeOK, BudgetHolds, NEW r \in InFlight
    PROVE  reserved - MaxFee \in Nat /\ reserved >= MaxFee
  <1> DEFINE n == Cardinality(InFlight)
  <1>1. n \in Nat /\ n - 1 \in Nat
    <2>1. r \in Requests
      BY DEF InFlight
    <2>2. Cardinality(InFlight \ {r}) = n - 1 /\ IsFiniteSet(InFlight \ {r})
      BY <2>1, FlightIsFinite, FS_RemoveElement
    <2> QED BY <2>2, FlightIsFinite, FS_CardinalityType
  <1>2. reserved = MaxFee * n
    BY DEF BudgetHolds
  <1>3. MaxFee \in Nat
    BY SponsorAssumption DEF SponsorAssumption
  <1> HIDE DEF n
  <1>4. MaxFee * n = MaxFee * (n - 1) + MaxFee /\ MaxFee * (n - 1) \in Nat
    BY <1>1, <1>3
  <1> QED BY <1>2, <1>3, <1>4

LEMMA InitType == Init => TypeOK
  BY NewRequestType, SponsorAssumption DEF SponsorAssumption, Init, TypeOK, Answers

-----------------------------------------------------------------------------
(* What a step does to the requests and to the counters.                   *)

\* A request refused at the door: over its rate limit, or on its own merits.
Refuses(r) ==
    /\ request[r].stage = "new"
    /\ \E x \in Request :
        x.stage = "refused" /\ x.life <= life /\ request' = [request EXCEPT ![r] = x]
    /\ UNCHANGED <<spent, reserved, life>>

Admits(r) ==
    /\ request[r].stage = "new"
    /\ \E c \in Callers, t \in Txs : \E x \in Request :
        /\ x.stage = "pricing" /\ x.caller = c /\ x.tx = t /\ x.fee = 0 /\ x.life = life
        /\ request' = [request EXCEPT ![r] = x]
    /\ Reservable /\ reserved' = reserved + MaxFee /\ UNCHANGED <<spent, life>>

Advances(r) ==
    /\ r \in InFlight
    /\ \E x \in Request :
        /\ x.stage \in Held /\ x.fee <= MaxFee
        /\ x.caller = request[r].caller /\ x.tx = request[r].tx /\ x.life = request[r].life
        /\ request' = [request EXCEPT ![r] = x]
    /\ UNCHANGED <<spent, reserved, life>>

Ends(r) ==
    /\ r \in InFlight
    /\ \E stage \in {"refused", "errored"} : Move(r, stage)
    /\ reserved' = reserved - MaxFee /\ UNCHANGED <<spent, life>>

Submits(r) ==
    /\ r \in InFlight
    /\ \E stage \in {"paid", "failed"} : Move(r, stage)
    /\ spent' = spent + request[r].fee /\ reserved' = reserved - MaxFee /\ UNCHANGED life

Stays == UNCHANGED <<spent, reserved, request, life>>

LEMMA StepKinds ==
    ASSUME TypeOK, FlightsAreOfThisLife, [Next]_vars
    PROVE  \/ Stays \/ Restart
           \/ \E r \in Requests : Refuses(r) \/ Admits(r) \/ Advances(r) \/ Ends(r) \/ Submits(r)
  <1>1. ASSUME NEW r \in Requests, NEW k \in Connections, NEW t \in Txs, Arrive(r, k, t)
        PROVE  Refuses(r) \/ Admits(r)
    <2> DEFINE c == rateLimitBucket(k)
               x(stage) == [stage |-> stage, caller |-> c, origin |-> k.origin, tx |-> t,
                            fee |-> 0, life |-> life]
    <2>1. c \in Callers /\ k.origin \in STRING /\ life \in 0..MaxLives /\ life \in Nat
      BY CallersOfConnections, SponsorAssumption DEF SponsorAssumption, TypeOK
    <2>2. x("refused") \in Request /\ x("pricing") \in Request
      BY <2>1 DEF Request, Stages, Held
    <2>3. CASE ~Allowed(c)
      <3> DEFINE y == [NewRequest EXCEPT !.stage = "refused"]
      <3>1. /\ request' = [request EXCEPT ![r] = y] /\ request[r].stage = "new"
            /\ UNCHANGED <<spent, reserved, life>>
        BY <1>1, <2>3 DEF Arrive
      <3>2. y \in Request /\ y.stage = "refused" /\ y.life = 0
        BY NewRequestType
      <3> HIDE DEF y
      <3>3. y.life <= life
        BY <2>1, <3>2
      <3> QED BY <3>1, <3>2, <3>3 DEF Refuses
    <2>4. CASE Allowed(c) /\ Payable(t) /\ Reservable
      <3>1. request' = [request EXCEPT ![r] = x("pricing")] /\ request[r].stage = "new"
        BY <1>1, <2>4 DEF Arrive
      <3>2. reserved' = reserved + MaxFee /\ UNCHANGED <<spent, life>>
        BY <1>1, <2>4 DEF Arrive
      <3> QED BY <2>1, <2>2, <2>4, <3>1, <3>2 DEF Admits
    <2>5. CASE Allowed(c) /\ ~(Payable(t) /\ Reservable)
      <3>1. request' = [request EXCEPT ![r] = x("refused")] /\ request[r].stage = "new"
        BY <1>1, <2>5 DEF Arrive
      <3>2. reserved' = reserved + 0 /\ reserved \in Nat /\ UNCHANGED <<spent, life>>
        BY <1>1, <2>5 DEF Arrive, TypeOK
      <3>3. x("refused").stage = "refused" /\ x("refused").life = life
        OBVIOUS
      <3>4. x("refused").life <= life
        BY <2>1, <3>3
      <3>5. reserved' = reserved
        BY <3>2
      <3> HIDE DEF x
      <3> QED BY <2>2, <3>1, <3>2, <3>3, <3>4, <3>5 DEF Refuses
    <2> QED BY <2>3, <2>4, <2>5
  <1>2. ASSUME NEW r \in Requests, NEW f \in Fees, Priced(r, f) PROVE Advances(r)
    <2> DEFINE x == [request[r] EXCEPT !.stage = "checking", !.fee = f]
    <2>1. request' = [request EXCEPT ![r] = x]
      BY <1>2 DEF Priced, TypeOK
    <2>2. x \in Request
      BY <1>2, SponsorAssumption DEF SponsorAssumption, TypeOK, Request, Stages, Held
    <2>3. /\ x.stage = "checking" /\ x.fee = f /\ x.caller = request[r].caller
          /\ x.tx = request[r].tx /\ x.life = request[r].life
      BY DEF TypeOK, Request
    <2> QED BY <1>2, <2>1, <2>2, <2>3 DEF Priced, FeeAllowed, Advances, InFlight, Held
  <1>3. ASSUME NEW r \in Requests, Covered(r) \/ Balanced(r) PROVE Advances(r)
    <2>1. PICK stage \in Held : Move(r, stage)
      BY <1>3 DEF Covered, Balanced, Held
    <2> DEFINE x == [request[r] EXCEPT !.stage = stage]
    <2>2. request' = [request EXCEPT ![r] = x] /\ r \in InFlight
      BY <1>3, <2>1 DEF Covered, Balanced, Move, InFlight, Held, TypeOK
    <2>3. x \in Request /\ x.fee <= MaxFee
      BY <2>2 DEF TypeOK, Request, Stages, FlightsAreOfThisLife
    <2>4. /\ x.stage = stage /\ x.caller = request[r].caller
          /\ x.tx = request[r].tx /\ x.life = request[r].life
      BY DEF TypeOK, Request
    <2> QED BY <1>3, <2>2, <2>3, <2>4 DEF Covered, Balanced, Advances
  <1>4. ASSUME NEW r \in Requests,
               NotPriced(r) \/ NotCovered(r) \/ BalanceUnknown(r) \/ NotBalanced(r)
        PROVE  Ends(r)
    BY <1>4 DEF NotPriced, NotCovered, BalanceUnknown, NotBalanced, Drop, Ends, InFlight, Held
  <1>5. ASSUME NEW r \in Requests, NEW stage \in {"paid", "failed"}, Submitted(r, stage)
        PROVE  Submits(r)
    BY <1>5 DEF Submitted, Commit, Submits, InFlight, Held
  <1>6. ASSUME \/ \E r \in Requests : Land(r)
               \/ Prune \/ Tick \/ UNCHANGED vars
        PROVE  Stays
    BY <1>6 DEF Land, Prune, Tick, vars, Stays
  <1> QED
    BY <1>1, <1>2, <1>3, <1>4, <1>5, <1>6 DEF Next

-----------------------------------------------------------------------------

LEMMA StepType ==
    TypeOK /\ BudgetHolds /\ FlightsAreOfThisLife /\ [Next]_vars => TypeOK'
  <1> SUFFICES ASSUME TypeOK, BudgetHolds, FlightsAreOfThisLife, [Next]_vars PROVE TypeOK'
    OBVIOUS
  <1>1. request' \in [Requests -> Request] /\ spent' \in Nat /\ reserved' \in Nat
        /\ life' \in 1..MaxLives
    <2>1. CASE Stays
      BY <2>1 DEF Stays, TypeOK
    <2>2. CASE Restart
      <3>1. \A r \in Requests : request'[r] \in Request
        BY <2>2 DEF Restart, TypeOK, Request, Stages
      <3> QED BY <2>2, <3>1, SponsorAssumption DEF SponsorAssumption, Restart, TypeOK
    <2>3. ASSUME NEW r \in Requests, Refuses(r) PROVE <1>1
      BY <2>3 DEF Refuses, TypeOK
    <2>4. ASSUME NEW r \in Requests, Admits(r) PROVE <1>1
      BY <2>4, SponsorAssumption DEF SponsorAssumption, Admits, TypeOK
    <2>5. ASSUME NEW r \in Requests, Advances(r) PROVE <1>1
      BY <2>5 DEF Advances, TypeOK
    <2>6. ASSUME NEW r \in Requests, Ends(r) \/ Submits(r) PROVE <1>1
      <3>1. PICK stage \in Stages : Move(r, stage)
        BY <2>6 DEF Ends, Submits, Stages
      <3>2. reserved' = reserved - MaxFee /\ reserved' \in Nat
        BY <2>6, FlightIsReserved DEF Ends, Submits
      <3>3. request[r].fee \in Nat
        BY DEF TypeOK, Request
      <3>4. spent' \in Nat /\ life' = life
        BY <2>6, <3>3 DEF Ends, Submits, TypeOK
      <3> QED BY <3>1, <3>2, <3>4, MoveType DEF TypeOK
    <2> QED BY <2>1, <2>2, <2>3, <2>4, <2>5, <2>6, StepKinds
  <1>2. ASSUME NEW r \in Requests, NEW k \in Connections, NEW t \in Txs, Arrive(r, k, t)
        PROVE  TypeOK'
    <2> DEFINE c == rateLimitBucket(k)
    <2>1. c \in Callers
      BY CallersOfConnections
    <2>2. windows' \in [Callers -> [startedAt : 0..MaxTime, count : Nat] \cup {None}]
      BY <1>2, <2>1, WindowType DEF Arrive, TypeOK
    <2>3. opened' \in [Callers -> Nat]
      BY <1>2, <2>1 DEF Arrive, TypeOK
    <2>4. told' \in [Requests -> Answers]
      BY <1>2, TellType DEF Arrive, TypeOK
    <2> QED BY <1>1, <1>2, <2>2, <2>3, <2>4 DEF Arrive, TypeOK
  <1>3. ASSUME NEW r \in Requests, NEW f \in Fees, Priced(r, f) PROVE TypeOK'
    BY <1>1, <1>3 DEF Priced, TypeOK
  <1>4. ASSUME NEW r \in Requests, Covered(r) \/ Balanced(r) PROVE TypeOK'
    BY <1>1, <1>4 DEF Covered, Balanced, TypeOK
  <1>5. ASSUME NEW r \in Requests, NotPriced(r) \/ NotCovered(r) PROVE TypeOK'
    <2>1. request[r].caller \in Callers
      BY <1>5 DEF NotPriced, NotCovered, FlightsAreOfThisLife, InFlight, Held
    <2>2. windows' \in [Callers -> [startedAt : 0..MaxTime, count : Nat] \cup {None}]
      BY <1>5, <2>1, WindowType DEF NotPriced, NotCovered, GiveBack, TypeOK
    <2>3. told' \in [Requests -> Answers]
      BY <1>5, TellType DEF NotPriced, NotCovered, Drop
    <2> QED BY <1>1, <1>5, <2>2, <2>3 DEF NotPriced, NotCovered, Drop, TypeOK
  <1>6. ASSUME NEW r \in Requests, BalanceUnknown(r) \/ NotBalanced(r) PROVE TypeOK'
    <2>1. told' \in [Requests -> Answers]
      BY <1>6, TellType DEF BalanceUnknown, NotBalanced, Drop
    <2> QED BY <1>1, <1>6, <2>1 DEF BalanceUnknown, NotBalanced, Drop, TypeOK
  <1>7. ASSUME NEW r \in Requests, NEW stage \in {"paid", "failed"}, Submitted(r, stage)
        PROVE  TypeOK'
    <2>1. told' \in [Requests -> Answers]
      BY <1>7, TellType DEF Submitted
    <2> QED BY <1>1, <1>7, <2>1 DEF Submitted, TypeOK
  <1>8. ASSUME NEW r \in Requests, Land(r) PROVE TypeOK'
    BY <1>1, <1>8 DEF Land, TypeOK
  <1>9. CASE Restart
    <2>1. windows' \in [Callers -> [startedAt : 0..MaxTime, count : Nat] \cup {None}]
      BY <1>9 DEF Restart
    <2>2. told' \in [Requests -> Answers]
      BY <1>9 DEF Restart, TypeOK, Answers
    <2> QED BY <1>1, <1>9, <2>1, <2>2 DEF Restart, TypeOK
  <1>10. CASE Prune
    BY <1>1, <1>10 DEF Prune, TypeOK
  <1>11. CASE Tick
    BY <1>1, <1>11, SponsorAssumption DEF SponsorAssumption, Tick, TypeOK
  <1>12. CASE UNCHANGED vars
    BY <1>12 DEF vars, TypeOK
  <1> QED
    BY <1>2, <1>3, <1>4, <1>5, <1>6, <1>7, <1>8, <1>9, <1>10, <1>11, <1>12 DEF Next

-----------------------------------------------------------------------------
(* The budget.                                                             *)

\* The sets that a step changes follow from what it does to one request.
LEMMA StepOnFlight ==
    ASSUME TypeOK, FlightsAreOfThisLife, [Next]_vars
    PROVE  /\ Restart => InFlight' = {} /\ Done' = {}
           /\ Stays => UNCHANGED <<InFlight, Done>>
           /\ \A r \in Requests :
                /\ Refuses(r) \/ Advances(r) => UNCHANGED <<InFlight, Done>>
                /\ Admits(r) =>
                     r \notin InFlight /\ InFlight' = InFlight \cup {r} /\ UNCHANGED Done
                /\ Ends(r) => InFlight' = InFlight \ {r} /\ UNCHANGED Done
                /\ Submits(r) =>
                     InFlight' = InFlight \ {r} /\ r \notin Done /\ Done' = Done \cup {r}
  <1>1. ASSUME Restart PROVE InFlight' = {} /\ Done' = {}
    <2>1. \A r \in Requests : request'[r].stage \notin Held /\ request'[r].life = request[r].life
      BY <1>1 DEF Restart, InFlight, Held, TypeOK, Request
    <2>2. \A r \in Requests : request'[r].stage \in {"paid", "failed"} =>
              request[r].stage = request'[r].stage
      BY <1>1 DEF Restart, InFlight, Held, TypeOK, Request
    <2>3. \A r \in Requests : request[r].stage \in {"paid", "failed"} => request[r].life <= life
      BY DEF FlightsAreOfThisLife
    <2>4. life' = life + 1 /\ life \in Nat /\ \A r \in Requests : request[r].life \in Nat
      BY <1>1, SponsorAssumption DEF SponsorAssumption, Restart, TypeOK, Request
    <2>5. \A r \in Requests : request'[r].stage \in {"paid", "failed"} => request'[r].life # life'
      BY <2>1, <2>2, <2>3, <2>4
    <2> QED BY <2>1, <2>5 DEF InFlight, Done
  <1>2. ASSUME Stays PROVE UNCHANGED <<InFlight, Done>>
    BY <1>2 DEF Stays, InFlight, Done
  <1>3. ASSUME NEW r \in Requests, Refuses(r) \/ Advances(r) PROVE UNCHANGED <<InFlight, Done>>
    BY <1>3 DEF Refuses, Advances, InFlight, Done, Held, TypeOK
  <1>4. ASSUME NEW r \in Requests, Admits(r)
        PROVE  r \notin InFlight /\ InFlight' = InFlight \cup {r} /\ UNCHANGED Done
    BY <1>4 DEF Admits, InFlight, Done, Held, TypeOK
  <1>5. ASSUME NEW r \in Requests, Ends(r)
        PROVE  InFlight' = InFlight \ {r} /\ UNCHANGED Done
    BY <1>5 DEF Ends, Move, InFlight, Done, Held, TypeOK, Request
  <1>6. ASSUME NEW r \in Requests, Submits(r)
        PROVE  InFlight' = InFlight \ {r} /\ r \notin Done /\ Done' = Done \cup {r}
    BY <1>6 DEF Submits, Move, InFlight, Done, Held, TypeOK, Request, FlightsAreOfThisLife
  <1> QED BY <1>1, <1>2, <1>3, <1>4, <1>5, <1>6

LEMMA FlightsStep ==
    ASSUME TypeOK, FlightsAreOfThisLife, [Next]_vars
    PROVE  FlightsAreOfThisLife'
  <1>1. CASE Stays
    BY <1>1 DEF Stays, FlightsAreOfThisLife, InFlight
  <1>2. CASE Restart
    <2> SUFFICES ASSUME NEW r \in Requests
                 PROVE  /\ r \notin InFlight' /\ request'[r].fee = request[r].fee
                        /\ request'[r].caller = request[r].caller
                        /\ request'[r].tx = request[r].tx /\ request'[r].life = request[r].life
                        /\ request'[r].stage # "new" =>
                               request[r].life < life' /\ request[r].life <= life'
                        /\ request'[r].stage \in Exposed => request[r].stage \in Exposed
      BY DEF FlightsAreOfThisLife, Exposed
    <2>1. r \notin InFlight'
      BY <1>2, StepOnFlight
    <2>2. request'[r] = IF r \notin InFlight THEN request[r]
             ELSE [request[r] EXCEPT
                     !.stage = IF @ = "submitting" THEN "orphaned" ELSE "dropped"]
      BY <1>2 DEF Restart
    <2>3. life \in Nat /\ life' = life + 1 /\ request[r].life \in Nat
      BY <1>2, SponsorAssumption DEF SponsorAssumption, Restart, TypeOK, Request
    <2>4. request[r].stage # "new" => request[r].life < life' /\ request[r].life <= life'
      BY <2>3 DEF FlightsAreOfThisLife
    <2>5. request'[r].stage # "new" => request[r].stage # "new"
      BY <2>2 DEF InFlight, Held
    <2> QED BY <2>1, <2>2, <2>4, <2>5 DEF TypeOK, Request, Exposed, InFlight
  <1>3. ASSUME NEW r \in Requests, Refuses(r) PROVE FlightsAreOfThisLife'
    BY <1>3 DEF Refuses, FlightsAreOfThisLife, InFlight, Held, Exposed, TypeOK
  <1>4. ASSUME NEW r \in Requests, Admits(r) PROVE FlightsAreOfThisLife'
    <2>1. 0 <= MaxFee /\ life <= life
      BY SponsorAssumption DEF SponsorAssumption, TypeOK
    <2> QED BY <1>4, <2>1 DEF Admits, FlightsAreOfThisLife, InFlight, Held, Exposed, TypeOK
  <1>5. ASSUME NEW r \in Requests, Advances(r) PROVE FlightsAreOfThisLife'
    BY <1>5 DEF Advances, FlightsAreOfThisLife, InFlight, Held, Exposed, TypeOK
  <1>6. ASSUME NEW r \in Requests, Ends(r) \/ Submits(r) PROVE FlightsAreOfThisLife'
    BY <1>6 DEF Ends, Submits, Move, FlightsAreOfThisLife, InFlight, Held, Exposed, TypeOK, Request
  <1> QED BY <1>1, <1>2, <1>3, <1>4, <1>5, <1>6, StepKinds

\* The units some requests cost are finitely many, and one more request adds its fee.
LEMMA UnitsAreFinite ==
    ASSUME TypeOK, NEW S \in SUBSET Requests, \A r \in S : request[r].fee <= MaxFee
    PROVE  IsFiniteSet(Units(S)) /\ Cardinality(Units(S)) \in Nat
  <1>1. IsFiniteSet(Requests) /\ MaxFee \in Nat
    BY SponsorAssumption DEF SponsorAssumption
  <1>2. IsFiniteSet(1..MaxFee)
    BY <1>1, FS_Interval
  <1>3. IsFiniteSet(Requests \X (1..MaxFee))
    BY <1>1, <1>2, FS_Product
  <1>4. Units(S) \subseteq Requests \X (1..MaxFee)
    BY <1>1 DEF Units, TypeOK, Request
  <1> QED BY <1>3, <1>4, FS_Subset, FS_CardinalityType

LEMMA UnitsOfMore ==
    ASSUME TypeOK, NEW S \in SUBSET Requests, \A r \in S : request[r].fee <= MaxFee,
           NEW q \in Requests \ S
    PROVE  Cardinality(Units(S \cup {q})) = Cardinality(Units(S)) + request[q].fee
  <1> DEFINE k == request[q].fee
             U == {q} \X (1..k)
             a == Cardinality(Units(S))
             b == Cardinality(Units(S) \cap U)
  <1>1. k \in Nat
    BY DEF TypeOK, Request
  <1>2. Units(S \cup {q}) = Units(S) \cup U /\ Units(S) \cap U = {}
    BY DEF Units
  <1> HIDE DEF k
  <1>3. IsFiniteSet(1..k) /\ Cardinality(1..k) = k
    BY <1>1, FS_Interval
  <1>4. IsFiniteSet(U) /\ Cardinality(U) = k
    <2>1. IsFiniteSet({q}) /\ Cardinality({q}) = 1
      BY FS_Singleton
    <2>2. IsFiniteSet(U) /\ Cardinality(U) = 1 * k
      BY <1>3, <2>1, FS_Product
    <2> QED BY <1>1, <2>2
  <1> HIDE DEF U
  <1>5. IsFiniteSet(Units(S)) /\ a \in Nat
    BY UnitsAreFinite
  <1>6. b = 0
    BY <1>2, FS_EmptySet
  <1>7. Cardinality(Units(S) \cup U) = a + Cardinality(U) - b
    BY <1>4, <1>5, FS_Union
  <1> HIDE DEF a, b
  <1>8. Cardinality(Units(S) \cup U) = a + k
    BY <1>1, <1>4, <1>5, <1>6, <1>7
  <1> QED BY <1>2, <1>8 DEF a, k

LEMMA SpentStep ==
    ASSUME TypeOK, FlightsAreOfThisLife, SpentIsCharged, [Next]_vars
    PROVE  SpentIsCharged'
  <1>1. Units(Done)' = UNION {{r} \X (1..request'[r].fee) : r \in Done'}
    BY DEF Units
  <1>2. Done' = Done /\ (\A r \in Done : request'[r].fee = request[r].fee)
        => Units(Done)' = Units(Done)
    BY <1>1 DEF Units
  <1>3. CASE Stays
    BY <1>2, <1>3, StepOnFlight DEF Stays, SpentIsCharged
  <1>4. CASE Restart
    <2>1. Units(Done)' = {} /\ spent' = 0
      BY <1>1, <1>4, StepOnFlight DEF Restart
    <2> QED BY <2>1, FS_EmptySet DEF SpentIsCharged
  <1>5. ASSUME NEW r \in Requests, Refuses(r) \/ Admits(r) \/ Advances(r) \/ Ends(r)
        PROVE  SpentIsCharged'
    <2>1. Done' = Done /\ spent' = spent
      BY <1>5, StepOnFlight DEF Refuses, Admits, Advances, Ends
    <2>2. r \notin Done
      BY <1>5 DEF Refuses, Admits, Advances, Ends, InFlight, Held, Done
    <2>3. \A q \in Requests \ {r} : request'[q] = request[q]
      BY <1>5 DEF Refuses, Admits, Advances, Ends, Move, TypeOK
    <2>4. \A q \in Done : request'[q].fee = request[q].fee
      BY <2>2, <2>3 DEF Done
    <2> QED BY <1>2, <2>1, <2>4 DEF SpentIsCharged
  <1>6. ASSUME NEW r \in Requests, Submits(r) PROVE SpentIsCharged'
    <2>1. r \notin Done /\ Done' = Done \cup {r} /\ spent' = spent + request[r].fee
      BY <1>6, StepOnFlight DEF Submits
    <2>2. \A q \in Requests : request'[q].fee = request[q].fee
      BY <1>6 DEF Submits, Move, TypeOK, Request
    <2>3. Units(Done)' = Units(Done \cup {r})
      BY <1>1, <2>1, <2>2 DEF Units, Done
    <2>4. \A q \in Done : request[q].fee <= MaxFee
      BY DEF Done, FlightsAreOfThisLife, Exposed
    <2>5. Done \in SUBSET Requests
      BY DEF Done
    <2>6. Cardinality(Units(Done \cup {r})) = Cardinality(Units(Done)) + request[r].fee
      BY <2>1, <2>4, <2>5, UnitsOfMore
    <2> QED BY <2>1, <2>3, <2>6 DEF SpentIsCharged
  <1> QED BY <1>3, <1>4, <1>5, <1>6, StepKinds

\* A reservation is taken only where the budget has room for it, and turns into spend in one step.
LEMMA BudgetStep ==
    ASSUME TypeOK, BudgetHolds, FlightsAreOfThisLife, [Next]_vars
    PROVE  BudgetHolds'
  <1> DEFINE n == Cardinality(InFlight)
  <1>1. /\ MaxFee \in Nat /\ Budget \in Nat /\ n \in Nat
        /\ spent \in Nat /\ reserved \in Nat
    BY SponsorAssumption, FlightIsFinite DEF SponsorAssumption, TypeOK
  <1>2. spent + reserved <= Budget /\ reserved = MaxFee * n
    BY DEF BudgetHolds
  <1>3. CASE Stays
    BY <1>2, <1>3, StepOnFlight DEF Stays, BudgetHolds
  <1>4. CASE Restart
    <2>1. InFlight' = {} /\ spent' = 0 /\ reserved' = 0
      BY <1>4, StepOnFlight DEF Restart
    <2>2. Cardinality(InFlight') = 0
      BY <2>1, FS_EmptySet
    <2> QED BY <1>1, <2>1, <2>2 DEF BudgetHolds
  <1>5. ASSUME NEW r \in Requests, Refuses(r) \/ Advances(r) PROVE BudgetHolds'
    BY <1>2, <1>5, StepOnFlight DEF Refuses, Advances, BudgetHolds
  <1>6. ASSUME NEW r \in Requests, Admits(r) PROVE BudgetHolds'
    <2>1. r \notin InFlight /\ InFlight' = InFlight \cup {r}
      BY <1>6, StepOnFlight
    <2>2. Cardinality(InFlight') = n + 1
      BY <2>1, FlightIsFinite
    <2>3. spent' + reserved' <= Budget /\ reserved' = reserved + MaxFee
      BY <1>1, <1>6 DEF Admits, Reservable
    <2> HIDE DEF n
    <2>4. MaxFee * (n + 1) = MaxFee * n + MaxFee
      BY <1>1
    <2> QED BY <1>2, <2>2, <2>3, <2>4 DEF BudgetHolds
  <1>7. ASSUME NEW r \in Requests, Ends(r) \/ Submits(r) PROVE BudgetHolds'
    <2>1. r \in InFlight /\ InFlight' = InFlight \ {r}
      BY <1>7, StepOnFlight DEF Ends, Submits
    <2>2. Cardinality(InFlight') = n - 1
      BY <2>1, FlightIsFinite
    <2>3. request[r].fee <= MaxFee /\ request[r].fee \in Nat
      BY <2>1 DEF FlightsAreOfThisLife, TypeOK, Request
    <2>4. reserved' = reserved - MaxFee
      BY <1>7 DEF Ends, Submits
    <2>5. spent' = spent \/ spent' = spent + request[r].fee
      BY <1>7 DEF Ends, Submits
    <2>6. spent' + reserved' <= Budget
      BY <1>1, <1>2, <2>3, <2>4, <2>5
    <2> HIDE DEF n
    <2>7. MaxFee * (n - 1) = MaxFee * n - MaxFee
      BY <1>1
    <2> QED BY <1>2, <2>2, <2>4, <2>6, <2>7 DEF BudgetHolds
  <1> QED BY <1>3, <1>4, <1>5, <1>6, <1>7, StepKinds

\* What this life may have paid for was charged or is reserved.
LEMMA CurrentExposure ==
    TypeOK /\ BudgetHolds /\ FlightsAreOfThisLife /\ SpentIsCharged
    => Cardinality(Exposure(life)) <= Budget
  <1> SUFFICES ASSUME TypeOK, BudgetHolds, FlightsAreOfThisLife, SpentIsCharged
               PROVE  Cardinality(Exposure(life)) <= Budget
    OBVIOUS
  <1> DEFINE E == Exposure(life)
             C == Units(Done)
             H == InFlight \X (1..MaxFee)
  <1>1. /\ MaxFee \in Nat /\ Budget \in Nat /\ spent \in Nat /\ reserved \in Nat
        /\ \A r \in Requests : request[r].fee \in Nat
    BY SponsorAssumption DEF SponsorAssumption, TypeOK, Request
  <1>2. E \subseteq C \cup H
    <2>1. \A r \in ExposedOf(life) :
            r \in Done \/ (r \in InFlight /\ request[r].fee <= MaxFee)
      <3>1. life \in Nat
        BY SponsorAssumption DEF SponsorAssumption, TypeOK
      <3>2. ~(life < life)
        BY <3>1
      <3> QED BY <3>2 DEF ExposedOf, Exposed, Done, InFlight, Held, FlightsAreOfThisLife
    <2>2. ASSUME NEW r \in ExposedOf(life), NEW i \in 1..request[r].fee
          PROVE  <<r, i>> \in C \cup H
      <3>1. r \in Requests
        BY DEF ExposedOf
      <3>2. r \in InFlight /\ request[r].fee <= MaxFee => i \in 1..MaxFee
        BY <1>1, <3>1
      <3> QED BY <2>1, <3>2 DEF Units
    <2> QED BY <2>2 DEF Exposure, Units
  <1>3. IsFiniteSet(C) /\ Cardinality(C) = spent
    <2>1. Done \in SUBSET Requests /\ \A r \in Done : request[r].fee <= MaxFee
      BY DEF Done, FlightsAreOfThisLife, Exposed
    <2> QED BY <2>1, UnitsAreFinite DEF SpentIsCharged
  <1>4. IsFiniteSet(H) /\ Cardinality(H) = reserved
    <2>1. IsFiniteSet(1..MaxFee) /\ Cardinality(1..MaxFee) = MaxFee
      BY <1>1, FS_Interval
    <2>2. /\ IsFiniteSet(InFlight \X (1..MaxFee))
          /\ Cardinality(InFlight \X (1..MaxFee)) = Cardinality(InFlight) * Cardinality(1..MaxFee)
      <3>1. IsFiniteSet(InFlight) /\ IsFiniteSet(1..MaxFee)
        BY <2>1, FlightIsFinite
      <3> QED BY <3>1, FS_Product
    <2>3. Cardinality(InFlight) * MaxFee = MaxFee * Cardinality(InFlight)
      BY <1>1, FlightIsFinite
    <2> QED BY <2>1, <2>2, <2>3 DEF BudgetHolds
  <1> HIDE DEF E, C, H
  <1>5. /\ IsFiniteSet(C \cup H)
        /\ Cardinality(C \cup H) = Cardinality(C) + Cardinality(H) - Cardinality(C \cap H)
        /\ Cardinality(C \cap H) \in Nat
    BY <1>3, <1>4, FS_Union, FS_Intersection, FS_CardinalityType
  <1>6. IsFiniteSet(E) /\ Cardinality(E) <= Cardinality(C \cup H) /\ Cardinality(E) \in Nat
    BY <1>2, <1>5, FS_Subset, FS_CardinalityType
  <1>7. spent + reserved <= Budget
    BY DEF BudgetHolds
  <1> QED BY <1>1, <1>3, <1>4, <1>5, <1>6, <1>7 DEF E

\* What an earlier life may have paid for does not change any more.
LEMMA EarlierExposureStands ==
    ASSUME TypeOK, FlightsAreOfThisLife, [Next]_vars, NEW n \in 1..MaxLives, n # life'
    PROVE  n <= life => Exposure(n)' = Exposure(n)
  <1> SUFFICES ASSUME n <= life PROVE Exposure(n)' = Exposure(n)
    OBVIOUS
  <1> DEFINE X == {r \in Requests : request'[r].life = n /\ request'[r].stage \in Exposed}
  <1>1. Exposure(n)' = UNION {{r} \X (1..request'[r].fee) : r \in X}
    BY DEF Exposure, Units, ExposedOf
  <1>2. ASSUME X = ExposedOf(n), \A r \in X : request'[r].fee = request[r].fee
        PROVE  Exposure(n)' = Exposure(n)
    BY <1>1, <1>2 DEF Exposure, Units
  <1> HIDE DEF X
  <1>3. CASE Stays
    BY <1>2, <1>3 DEF Stays, X, ExposedOf
  <1>4. CASE Restart
    <2>1. \A r \in Requests :
            /\ request'[r].life = request[r].life /\ request'[r].fee = request[r].fee
            /\ request'[r].stage \in Exposed <=> request[r].stage \in Exposed
      BY <1>4 DEF Restart, TypeOK, Request, Exposed, InFlight, Held
    <2> QED BY <1>2, <2>1 DEF X, ExposedOf
  <1>5. ASSUME NEW r \in Requests,
               Refuses(r) \/ Admits(r) \/ Advances(r) \/ Ends(r) \/ Submits(r)
        PROVE  Exposure(n)' = Exposure(n)
    <2>1. \A q \in Requests \ {r} : request'[q] = request[q]
      BY <1>5 DEF Refuses, Admits, Advances, Ends, Submits, Move, TypeOK
    <2>2. life' = life
      BY <1>5 DEF Refuses, Admits, Advances, Ends, Submits
    <2>3. r \notin ExposedOf(n)
      BY <1>5, <2>2 DEF Refuses, Admits, Advances, Ends, Submits, ExposedOf, Exposed,
                        FlightsAreOfThisLife
    <2>4. r \notin X
      BY <1>5, <2>2 DEF Refuses, Admits, Advances, Ends, Submits, Move, X, Exposed,
                        FlightsAreOfThisLife, TypeOK, Request
    <2> QED BY <1>2, <2>1, <2>3, <2>4 DEF X, ExposedOf
  <1> QED BY <1>3, <1>4, <1>5, StepKinds

\* No request is of a life that is yet to come.
LEMMA NoExposureYet ==
    TypeOK /\ FlightsAreOfThisLife
    => \A n \in 1..MaxLives : n > life => Cardinality(Exposure(n)) <= Budget
  <1> SUFFICES ASSUME TypeOK, FlightsAreOfThisLife, NEW n \in 1..MaxLives, n > life
               PROVE  Cardinality(Exposure(n)) <= Budget
    OBVIOUS
  <1>1. n \in Nat /\ life \in Nat /\ Budget \in Nat /\ \A r \in Requests : request[r].life \in Nat
    BY SponsorAssumption DEF SponsorAssumption, TypeOK, Request
  <1>2. ExposedOf(n) = {}
    BY <1>1 DEF ExposedOf, Exposed, FlightsAreOfThisLife
  <1>3. Exposure(n) = {}
    BY <1>2 DEF Exposure, Units
  <1> QED BY <1>1, <1>3, FS_EmptySet

LEMMA ExposureStep ==
    ASSUME TypeOK, BudgetHolds, FlightsAreOfThisLife, SpentIsCharged, ExposureWithinBudget,
           [Next]_vars
    PROVE  ExposureWithinBudget'
  <1>1. TypeOK' /\ BudgetHolds' /\ FlightsAreOfThisLife' /\ SpentIsCharged'
    BY StepType, BudgetStep, FlightsStep, SpentStep
  <1>2. (Cardinality(Exposure(life)) <= Budget)'
    BY <1>1, CurrentExposure, PTL
  <1>3. (\A n \in 1..MaxLives : n > life => Cardinality(Exposure(n)) <= Budget)'
    BY <1>1, NoExposureYet, PTL
  <1>4. life \in Nat /\ life' \in Nat /\ (life' = life \/ life' = life + 1)
    BY <1>1, StepKinds, SponsorAssumption
    DEF SponsorAssumption, TypeOK, Stays, Restart, Refuses, Admits, Advances, Ends, Submits
  <1>5. ASSUME NEW n \in 1..MaxLives PROVE Cardinality(Exposure(n)') <= Budget
    <2>1. CASE n = life'
      BY <1>2, <2>1
    <2>2. CASE n > life'
      BY <1>3, <2>2
    <2>3. CASE n < life'
      <3>1. n # life' /\ n <= life
        BY <1>4, <2>3
      <3>2. Exposure(n)' = Exposure(n)
        BY <3>1, EarlierExposureStands
      <3> QED BY <3>2 DEF ExposureWithinBudget
    <2> QED BY <1>4, <2>1, <2>2, <2>3
  <1> QED BY <1>5 DEF ExposureWithinBudget

-----------------------------------------------------------------------------
(* The rate limit.                                                         *)

LEMMA HoldersAreFinite ==
    ASSUME NEW c
    PROVE  /\ IsFiniteSet(Holders(c)) /\ Cardinality(Holders(c)) \in Nat
           /\ \A r \in Requests \ Holders(c) :
                Cardinality(Holders(c) \cup {r}) = Cardinality(Holders(c)) + 1
           /\ \A r \in Holders(c) :
                Cardinality(Holders(c) \ {r}) = Cardinality(Holders(c)) - 1
  <1>1. IsFiniteSet(Holders(c))
    BY SponsorAssumption, FS_Subset DEF SponsorAssumption, Holders
  <1> QED BY <1>1, FS_CardinalityType, FS_AddElement, FS_RemoveElement

LEMMA PlaceNumbers ==
    ASSUME TypeOK, NEW c \in Callers
    PROVE  /\ opened[c] \in Nat /\ MaxRequests \in Nat /\ MaxRequests >= 1
           /\ windows[c] # None => windows[c].count \in Nat
           /\ Places(c) \in Int
           /\ MaxRequests * opened[c] \in Nat
           /\ MaxRequests * (opened[c] - 1) = MaxRequests * opened[c] - MaxRequests
           /\ MaxRequests * (opened[c] + 1) = MaxRequests * opened[c] + MaxRequests
  <1>1. opened[c] \in Nat /\ MaxRequests \in Nat /\ MaxRequests >= 1
    BY SponsorAssumption DEF SponsorAssumption, TypeOK
  <1>2. windows[c] # None => windows[c].count \in Nat
    BY DEF TypeOK
  <1> QED BY <1>1, <1>2 DEF Places

LEMMA HoldersStep ==
    ASSUME TypeOK, FlightsAreOfThisLife, NEW c \in Callers
    PROVE  /\ Stays \/ Restart => Holders(c)' = Holders(c)
           /\ \A r \in Requests :
                /\ Refuses(r) \/ Advances(r) \/ Submits(r) => Holders(c)' = Holders(c)
                /\ Admits(r) => r \notin Holders(c) /\ Holders(c)' =
                     IF c = request'[r].caller THEN Holders(c) \cup {r} ELSE Holders(c)
                /\ Ends(r) => Holders(c)' =
                     IF c = request[r].caller /\ request'[r].stage = "refused"
                     THEN Holders(c) \ {r} ELSE Holders(c)
  <1>1. ASSUME Stays PROVE Holders(c)' = Holders(c)
    BY <1>1 DEF Stays, Holders
  <1>2. ASSUME Restart PROVE Holders(c)' = Holders(c)
    <2>1. \A r \in Requests :
            /\ request'[r].caller = request[r].caller
            /\ request'[r].stage \in {"new", "refused"} <=> request[r].stage \in {"new", "refused"}
      BY <1>2 DEF Restart, TypeOK, Request, InFlight, Held
    <2> QED BY <2>1 DEF Holders
  <1>3. ASSUME NEW r \in Requests, Refuses(r) \/ Advances(r) PROVE Holders(c)' = Holders(c)
    BY <1>3 DEF Refuses, Advances, Holders, InFlight, Held, TypeOK
  <1>4. ASSUME NEW r \in Requests, Submits(r) PROVE Holders(c)' = Holders(c)
    BY <1>4 DEF Submits, Move, Holders, InFlight, Held, TypeOK, Request
  <1>5. ASSUME NEW r \in Requests, Admits(r)
        PROVE  r \notin Holders(c) /\ Holders(c)' =
                 IF c = request'[r].caller THEN Holders(c) \cup {r} ELSE Holders(c)
    <2>1. PICK x \in Request : x.stage = "pricing" /\ request' = [request EXCEPT ![r] = x]
      BY <1>5 DEF Admits
    <2>2. request[r].stage = "new" /\ request'[r] = x
      BY <1>5, <2>1 DEF Admits, TypeOK
    <2>3. \A q \in Requests \ {r} : request'[q] = request[q]
      BY <2>1 DEF TypeOK
    <2> QED BY <2>1, <2>2, <2>3 DEF Holders
  <1>6. ASSUME NEW r \in Requests, Ends(r)
        PROVE  Holders(c)' = IF c = request[r].caller /\ request'[r].stage = "refused"
                             THEN Holders(c) \ {r} ELSE Holders(c)
    BY <1>6 DEF Ends, Move, Holders, InFlight, Held, TypeOK, Request
  <1> QED BY <1>1, <1>2, <1>3, <1>4, <1>5, <1>6

LEMMA FlightHolds == \A r \in InFlight : r \in Requests /\ r \in Holders(request[r].caller)
  BY DEF InFlight, Held, Holders

\* A caller whose window closes has all the places of that window behind it.
LEMMA ClosedWindow ==
    ASSUME TypeOK, NEW c \in Callers, windows[c] # None => windows[c].count <= MaxRequests
    PROVE  Places(c) <= MaxRequests * opened[c]
  <1>1. CASE windows[c] = None
    BY <1>1, PlaceNumbers DEF Places
  <1>2. CASE windows[c] # None
    BY <1>2, PlaceNumbers DEF Places
  <1> QED BY <1>1, <1>2

\* The places of a bucket follow the window it has after the step.
LEMMA PlacesAfter ==
    ASSUME TypeOK, PlacesAreCounted, NEW c \in Callers
    PROVE  /\ windows'[c] = windows[c] /\ opened'[c] = opened[c] => Places(c)' = Places(c)
           /\ windows'[c] = None /\ opened'[c] = opened[c] => Places(c)' >= Places(c)
           /\ \A w \in [startedAt : 0..MaxTime, count : Nat] :
                windows'[c] = w /\ w # None =>
                  /\ opened'[c] = opened[c] + 1 => Places(c)' >= Places(c) + w.count
                  /\ opened'[c] = opened[c] /\ windows[c] # None =>
                       Places(c)' = Places(c) + w.count - windows[c].count
  <1>1. Places(c) <= MaxRequests * opened[c]
    BY ClosedWindow DEF PlacesAreCounted
  <1>2. Places(c)' = IF windows'[c] = None THEN MaxRequests * opened'[c]
                     ELSE MaxRequests * (opened'[c] - 1) + windows'[c].count
    BY DEF Places
  <1>3. windows'[c] = windows[c] /\ opened'[c] = opened[c] => Places(c)' = Places(c)
    BY <1>2 DEF Places
  <1>4. windows'[c] = None /\ opened'[c] = opened[c] => Places(c)' >= Places(c)
    BY <1>1, <1>2, PlaceNumbers
  <1>5. ASSUME NEW w \in [startedAt : 0..MaxTime, count : Nat], windows'[c] = w, w # None
        PROVE  /\ opened'[c] = opened[c] + 1 => Places(c)' >= Places(c) + w.count
               /\ opened'[c] = opened[c] /\ windows[c] # None =>
                    Places(c)' = Places(c) + w.count - windows[c].count
    <2>1. CASE opened'[c] = opened[c] + 1
      <3>1. opened'[c] - 1 = opened[c] /\ w.count \in Nat
        BY <2>1, PlaceNumbers
      <3>2. Places(c)' = MaxRequests * opened[c] + w.count
        BY <1>2, <1>5, <3>1
      <3>3. opened[c] # opened'[c]
        BY <2>1, PlaceNumbers
      <3> QED BY <1>1, <3>1, <3>2, <3>3, PlaceNumbers
    <2>2. CASE opened'[c] = opened[c] /\ windows[c] # None
      <3>1. Places(c)' = MaxRequests * (opened[c] - 1) + w.count /\ w.count \in Nat
        BY <1>2, <1>5, <2>2
      <3>2. Places(c) = MaxRequests * (opened[c] - 1) + windows[c].count
        BY <2>2 DEF Places
      <3>3. opened[c] # opened[c] + 1 /\ windows[c].count \in Nat
        BY <2>2, PlaceNumbers
      <3> QED BY <2>2, <3>1, <3>2, <3>3, PlaceNumbers
    <2> QED BY <2>1, <2>2
  <1> QED BY <1>3, <1>4, <1>5

\* What the limiter does to a window: a request taken fills one place of it, and one given back
\* frees one at most.
LEMMA WindowAfter ==
    ASSUME TypeOK, PlacesAreCounted, NEW c \in Callers
    PROVE  /\ Allowed(c) => Taken(c).count <= MaxRequests
           /\ Expired(c) => Taken(c).count = 1
           /\ ~Expired(c) => windows[c] # None /\ Taken(c).count = windows[c].count + 1
           /\ Refund(Taken(c)).count = Taken(c).count - 1
           /\ windows[c] # None =>
                /\ Refund(windows[c]) # None
                /\ Refund(windows[c]).count <= windows[c].count
                /\ Refund(windows[c]).count >= windows[c].count - 1
           /\ windows[c] = None => Refund(windows[c]) = None
  <1>1. windows[c] # None => windows[c] \in [startedAt : 0..MaxTime, count : Nat]
    BY DEF TypeOK
  <1>2. MaxRequests \in Nat /\ MaxRequests >= 1
    BY PlaceNumbers
  <1>3. now \in 0..MaxTime
    BY DEF TypeOK
  <1>4. Expired(c) => Taken(c) = [startedAt |-> now, count |-> 1]
    BY DEF Taken
  <1>5. ~Expired(c) =>
          windows[c] # None /\ Taken(c) = [windows[c] EXCEPT !.count = windows[c].count + 1]
    BY DEF Taken, Expired
  <1>6. Allowed(c) => Taken(c).count <= MaxRequests
    BY <1>1, <1>2, <1>4, <1>5 DEF Allowed
  <1>7. Refund(Taken(c)).count = Taken(c).count - 1
    <2>1. Taken(c) \in [startedAt : 0..MaxTime, count : Nat] /\ Taken(c).count > 0
      BY <1>1, <1>4, <1>5, WindowType
    <2>2. Taken(c) # None
      BY <2>1, SponsorAssumption DEF SponsorAssumption
    <2> QED BY <2>1, <2>2 DEF Refund
  <1>8. windows[c] # None =>
          /\ Refund(windows[c]) # None
          /\ Refund(windows[c]).count <= windows[c].count
          /\ Refund(windows[c]).count >= windows[c].count - 1
    <2> SUFFICES ASSUME windows[c] # None
                 PROVE  /\ Refund(windows[c]) # None
                        /\ Refund(windows[c]).count <= windows[c].count
                        /\ Refund(windows[c]).count >= windows[c].count - 1
      OBVIOUS
    <2>1. [windows[c] EXCEPT !.count = @ - 1] # None
          \/ windows[c].count = 0
      <3>1. windows[c].count > 0 =>
              [windows[c] EXCEPT !.count = @ - 1] \in [startedAt : 0..MaxTime, count : Nat]
        BY <1>1
      <3> QED BY <1>1, <3>1, SponsorAssumption DEF SponsorAssumption
    <2> QED BY <1>1, <2>1 DEF Refund
  <1>9. windows[c] = None => Refund(windows[c]) = None
    BY DEF Refund
  <1> QED BY <1>1, <1>4, <1>5, <1>6, <1>7, <1>8, <1>9

LEMMA PlacesStep ==
    ASSUME TypeOK, FlightsAreOfThisLife, PlacesAreCounted, [Next]_vars
    PROVE  PlacesAreCounted'
  <1> SUFFICES ASSUME NEW c \in Callers
               PROVE  /\ Cardinality(Holders(c))' <= Places(c)'
                      /\ windows'[c] # None => windows'[c].count <= MaxRequests
    BY DEF PlacesAreCounted
  <1>1. /\ Cardinality(Holders(c)) <= Places(c) /\ Cardinality(Holders(c)) \in Nat
        /\ Places(c) \in Int /\ MaxRequests \in Nat /\ MaxRequests >= 1
        /\ windows[c] # None =>
             windows[c].count \in Nat /\ windows[c].count <= MaxRequests
    BY HoldersAreFinite, PlaceNumbers DEF PlacesAreCounted
  \* Nothing happens to the window, and c has no holder more than it had.
  <1>2. ASSUME windows'[c] = windows[c], opened'[c] = opened[c],
               Cardinality(Holders(c))' <= Cardinality(Holders(c)), Cardinality(Holders(c))' \in Nat
        PROVE  /\ Cardinality(Holders(c))' <= Places(c)'
               /\ windows'[c] # None => windows'[c].count <= MaxRequests
    BY <1>1, <1>2, PlacesAfter
  <1>3. ASSUME NEW r \in Requests, NEW k \in Connections, NEW t \in Txs, Arrive(r, k, t)
        PROVE  /\ Cardinality(Holders(c))' <= Places(c)'
               /\ windows'[c] # None => windows'[c].count <= MaxRequests
    <2> DEFINE b == rateLimitBucket(k)
               o == IF Expired(b) THEN 1 ELSE 0
    <2>1. b \in Callers /\ request[r].stage = "new" /\ r \notin Holders(c)
      BY <1>3, CallersOfConnections DEF Arrive, Holders
    <2>2. \A q \in Requests \ {r} : request'[q] = request[q]
      BY <1>3 DEF Arrive, TypeOK
    <2>3. CASE ~Allowed(b)
      <3>1. request'[r].stage = "refused" /\ UNCHANGED <<windows, opened>>
        BY <1>3, <2>3, NewRequestType DEF Arrive, TypeOK
      <3>2. Holders(c)' = Holders(c)
        BY <2>1, <2>2, <3>1 DEF Holders
      <3> QED BY <1>1, <1>2, <3>1, <3>2
    <2>4. CASE Allowed(b) /\ c # b
      <3>1. windows'[c] = windows[c] /\ opened'[c] = opened[c]
        BY <1>3, <2>4 DEF Arrive, TypeOK
      <3>2. request'[r].caller = b
        BY <1>3, <2>4 DEF Arrive, TypeOK
      <3>3. Holders(c)' = Holders(c)
        BY <2>1, <2>2, <2>4, <3>2 DEF Holders
      <3> QED BY <1>1, <1>2, <3>1, <3>3
    <2>5. CASE Allowed(b) /\ c = b
      <3>1. /\ Taken(c) \in [startedAt : 0..MaxTime, count : Nat]
            /\ Refund(Taken(c)) \in [startedAt : 0..MaxTime, count : Nat]
            /\ Taken(c) # None /\ Refund(Taken(c)) # None
        BY WindowType, SponsorAssumption DEF SponsorAssumption
      <3>2. opened'[c] = opened[c] + o /\ opened[c] \in Nat
        BY <1>3, <2>5 DEF Arrive, TypeOK
      <3>3. CASE Payable(t) /\ Reservable
        <4>1. windows'[c] = Taken(c) /\ request'[r].caller = c /\ request'[r].stage = "pricing"
          BY <1>3, <2>5, <3>3 DEF Arrive, TypeOK
        <4>2. Holders(c)' = Holders(c) \cup {r}
          BY <2>2, <4>1 DEF Holders
        <4>3. Cardinality(Holders(c))' = Cardinality(Holders(c)) + 1
          BY <2>1, <4>2, HoldersAreFinite
        <4>4. CASE Expired(c)
          <5>1. opened'[c] = opened[c] + 1 /\ Taken(c).count = 1
            BY <2>5, <3>2, <4>4, WindowAfter
          <5>2. Places(c)' >= Places(c) + 1
            BY <3>1, <4>1, <5>1, PlacesAfter
          <5>3. Places(c)' \in Int
            BY <3>1, <3>2, <4>1, <5>1, <1>1 DEF Places
          <5> QED BY <1>1, <4>1, <4>3, <5>1, <5>2, <5>3
        <4>5. CASE ~Expired(c)
          <5>1. opened'[c] = opened[c] /\ windows[c] # None
            BY <2>5, <3>2, <4>5, WindowAfter
          <5>2. Taken(c).count = windows[c].count + 1 /\ Taken(c).count <= MaxRequests
            BY <2>5, <4>5, WindowAfter
          <5>3. Places(c)' = Places(c) + Taken(c).count - windows[c].count
            BY <3>1, <4>1, <5>1, PlacesAfter
          <5> QED BY <1>1, <4>1, <4>3, <5>1, <5>2, <5>3
        <4> QED BY <4>4, <4>5
      <3>4. CASE ~(Payable(t) /\ Reservable)
        <4>1. windows'[c] = Refund(Taken(c)) /\ request'[r].stage = "refused"
          BY <1>3, <2>5, <3>4 DEF Arrive, TypeOK
        <4>2. Holders(c)' = Holders(c)
          BY <2>1, <2>2, <4>1 DEF Holders
        <4>3. Refund(Taken(c)).count = Taken(c).count - 1
          BY WindowAfter
        <4>4. CASE Expired(c)
          <5>1. opened'[c] = opened[c] + 1 /\ Refund(Taken(c)).count = 0
            BY <2>5, <3>2, <4>3, <4>4, WindowAfter
          <5>2. Places(c)' >= Places(c) + 0
            BY <3>1, <4>1, <5>1, PlacesAfter
          <5>3. Places(c)' \in Int
            BY <3>1, <3>2, <4>1, <5>1, <1>1 DEF Places
          <5> QED BY <1>1, <4>1, <4>2, <5>1, <5>2, <5>3
        <4>5. CASE ~Expired(c)
          <5>1. opened'[c] = opened[c] /\ windows[c] # None
            BY <2>5, <3>2, <4>5, WindowAfter
          <5>2. Refund(Taken(c)).count = windows[c].count
            BY <1>1, <4>3, <4>5, <5>1, WindowAfter
          <5>3. Places(c)' = Places(c) + Refund(Taken(c)).count - windows[c].count
            BY <3>1, <4>1, <5>1, PlacesAfter
          <5> QED BY <1>1, <4>1, <4>2, <5>1, <5>2, <5>3
        <4> QED BY <4>4, <4>5
      <3> QED BY <3>3, <3>4
    <2> QED BY <2>3, <2>4, <2>5
  \* A place is given back: to the window of the request's own bucket.
  <1>4. ASSUME NEW r \in Requests, NotPriced(r) \/ NotCovered(r)
        PROVE  /\ Cardinality(Holders(c))' <= Places(c)'
               /\ windows'[c] # None => windows'[c].count <= MaxRequests
    <2>1. /\ Ends(r) /\ request'[r].stage = "refused" /\ opened'[c] = opened[c]
          /\ windows' = [windows EXCEPT ![request[r].caller] = Refund(@)]
      BY <1>4 DEF NotPriced, NotCovered, Drop, GiveBack, Move, Ends, InFlight, Held, TypeOK, Request
    <2>2. CASE c # request[r].caller
      <3>1. Holders(c)' = Holders(c) /\ windows'[c] = windows[c]
        BY <2>1, <2>2, HoldersStep DEF TypeOK
      <3> QED BY <1>1, <1>2, <2>1, <3>1
    <2>3. CASE c = request[r].caller
      <3>1. Holders(c)' = Holders(c) \ {r} /\ r \in Holders(c)
        BY <2>1, <2>3, HoldersStep, FlightHolds DEF Ends
      <3>2. Cardinality(Holders(c))' = Cardinality(Holders(c)) - 1
        BY <3>1, HoldersAreFinite
      <3>3. windows'[c] = Refund(windows[c])
        BY <2>1, <2>3 DEF TypeOK
      <3>4. CASE windows[c] = None
        <4>1. windows'[c] = windows[c]
          BY <3>3, <3>4, WindowAfter
        <4>2. Places(c)' = Places(c)
          BY <2>1, <4>1, PlacesAfter
        <4> QED BY <1>1, <3>2, <3>4, <4>1, <4>2
      <3>5. CASE windows[c] # None
        <4>1. /\ Refund(windows[c]) \in [startedAt : 0..MaxTime, count : Nat]
              /\ Refund(windows[c]) # None
              /\ Refund(windows[c]).count <= windows[c].count
              /\ Refund(windows[c]).count >= windows[c].count - 1
          BY <3>5, WindowAfter, WindowType
        <4>2. Places(c)' = Places(c) + Refund(windows[c]).count - windows[c].count
          BY <2>1, <3>3, <3>5, <4>1, PlacesAfter
        <4> QED BY <1>1, <3>2, <3>3, <3>5, <4>1, <4>2
      <3> QED BY <3>4, <3>5
    <2> QED BY <2>2, <2>3
  <1>5. ASSUME NEW r \in Requests, BalanceUnknown(r) \/ NotBalanced(r)
        PROVE  /\ Cardinality(Holders(c))' <= Places(c)'
               /\ windows'[c] # None => windows'[c].count <= MaxRequests
    <2>1. Ends(r) /\ UNCHANGED <<windows, opened>>
      BY <1>5 DEF BalanceUnknown, NotBalanced, Drop, Ends, InFlight, Held
    <2>2. Holders(c)' \in {Holders(c), Holders(c) \ {r}}
      BY <2>1, HoldersStep
    <2>3. Cardinality(Holders(c))' <= Cardinality(Holders(c)) /\ Cardinality(Holders(c))' \in Nat
      BY <1>1, <2>2, HoldersAreFinite, FS_Subset, FS_CardinalityType
    <2> QED BY <1>2, <2>1, <2>3
  <1>6. ASSUME NEW r \in Requests,
               \/ \E f \in Fees : Priced(r, f)
               \/ Covered(r) \/ Balanced(r) \/ (\E stage \in {"paid", "failed"} : Submitted(r, stage))
               \/ Land(r)
        PROVE  /\ Cardinality(Holders(c))' <= Places(c)'
               /\ windows'[c] # None => windows'[c].count <= MaxRequests
    <2>1. UNCHANGED <<windows, opened>>
      BY <1>6 DEF Priced, Covered, Balanced, Submitted, Land
    <2>2. request[r].stage \notin {"new", "refused"} \/ UNCHANGED request
      BY <1>6 DEF Priced, Covered, Balanced, Submitted, Land
    <2>3. /\ \A q \in Requests \ {r} : request'[q] = request[q]
          /\ request'[r].caller = request[r].caller
          /\ UNCHANGED request \/ request'[r].stage \notin {"new", "refused"}
      BY <1>6 DEF Priced, Covered, Balanced, Submitted, Land, Move, TypeOK, Request
    <2>4. Holders(c)' = Holders(c)
      BY <2>2, <2>3 DEF Holders
    <2> QED BY <1>1, <1>2, <2>1, <2>4
  <1>7. CASE Restart \/ Prune
    <2>1. Holders(c)' = Holders(c) /\ opened'[c] = opened[c]
      BY <1>7, HoldersStep DEF Restart, Prune, Stays
    <2>2. windows'[c] = None \/ windows'[c] = windows[c]
      BY <1>7 DEF Restart, Prune
    <2>3. CASE windows'[c] = None
      <3>1. Places(c)' >= Places(c) /\ Places(c)' \in Int
        BY <2>1, <2>3, PlacesAfter, PlaceNumbers DEF Places
      <3> QED BY <1>1, <2>1, <2>3, <3>1
    <2>4. CASE windows'[c] = windows[c]
      BY <1>1, <1>2, <2>1, <2>4
    <2> QED BY <2>2, <2>3, <2>4
  <1>8. CASE Tick \/ UNCHANGED vars
    <2>1. UNCHANGED <<windows, opened, request>>
      BY <1>8 DEF Tick, vars
    <2>2. Holders(c)' = Holders(c)
      BY <2>1 DEF Holders
    <2> QED BY <1>1, <1>2, <2>1, <2>2
  <1> QED BY <1>3, <1>4, <1>5, <1>6, <1>7, <1>8 DEF Next

-----------------------------------------------------------------------------
(* What clients are told.                                                  *)

LEMMA AnswersStep ==
    ASSUME TypeOK, AnswersFollowRequests, [Next]_vars
    PROVE  AnswersFollowRequests'
  <1> SUFFICES ASSUME NEW q \in Requests
               PROVE  /\ \A t \in Txs : landed'[t] = q =>
                            request'[q].tx = t /\ request'[q].stage \in Exposed
                      /\ request'[q].stage \in {"new"} \cup Held => told'[q] = "waiting"
                      /\ told'[q] = "refused" => request'[q].stage = "refused"
                      /\ told'[q] = "paid" => request'[q].stage = "paid"
                      /\ request'[q].stage \in Exposed \cup {"balancing", "checking"} =>
                            request'[q].fee \in Fees
    BY DEF AnswersFollowRequests, InFlight
  <1> DEFINE Follows ==
               /\ \A t \in Txs : landed[t] = q => request[q].tx = t /\ request[q].stage \in Exposed
               /\ request[q].stage \in {"new"} \cup Held => told[q] = "waiting"
               /\ told[q] = "refused" => request[q].stage = "refused"
               /\ told[q] = "paid" => request[q].stage = "paid"
               /\ request[q].stage \in Exposed \cup {"balancing", "checking"} =>
                     request[q].fee \in Fees
  <1>1. Follows
    BY DEF AnswersFollowRequests, InFlight
  <1>2. ASSUME request'[q] = request[q], told'[q] = told[q], landed' = landed PROVE Follows'
    BY <1>1, <1>2
  <1>3. ASSUME NEW r \in Requests, NEW k \in Connections, NEW t \in Txs, Arrive(r, k, t)
        PROVE  Follows'
    <2>1. landed' = landed /\ request[r].stage = "new"
      BY <1>3 DEF Arrive
    <2>2. CASE q # r
      <3>1. request'[q] = request[q] /\ told'[q] = told[q]
        BY <1>3, <2>2, TellType DEF Arrive, TypeOK
      <3> QED BY <1>2, <2>1, <3>1
    <2>3. CASE q = r /\ request'[r].stage = "refused"
      <3>1. told'[r] \in {"refused", "TRANSPORT", told[r]}
        BY <1>3, TellType DEF Arrive, Answer
      <3> QED BY <1>1, <2>1, <2>3, <3>1 DEF Exposed, Held
    <2>4. CASE q = r /\ request'[r].stage = "pricing" /\ told' = told
      BY <1>1, <2>1, <2>4 DEF Exposed, Held
    <2>5. request'[r].stage = "refused" \/ (request'[r].stage = "pricing" /\ told' = told)
      <3> DEFINE c == rateLimitBucket(k)
                 admitted == Allowed(c) /\ Payable(t) /\ Reservable
      <3>1. ~Allowed(c) => request'[r].stage = "refused"
        BY <1>3, NewRequestType DEF Arrive, TypeOK
      <3>2. Allowed(c) => request'[r].stage = IF admitted THEN "pricing" ELSE "refused"
        BY <1>3 DEF Arrive, TypeOK
      <3>3. admitted => told' = told
        BY <1>3 DEF Arrive
      <3> QED BY <3>1, <3>2, <3>3
    <2> QED BY <2>2, <2>3, <2>4, <2>5
  <1>4. ASSUME NEW r \in Requests, NEW f \in Fees, Priced(r, f) PROVE Follows'
    <2>1. UNCHANGED <<told, landed>> /\ request[r].stage = "pricing"
      BY <1>4 DEF Priced
    <2>2. /\ q # r => request'[q] = request[q]
          /\ request'[r].stage = "checking" /\ request'[r].fee = f
      BY <1>4 DEF Priced, TypeOK, Request
    <2> QED BY <1>1, <1>2, <2>1, <2>2 DEF Exposed, Held
  <1>5. ASSUME NEW r \in Requests, Covered(r) \/ Balanced(r) PROVE Follows'
    <2>1. UNCHANGED <<told, landed>> /\ request[r].stage \in {"checking", "balancing"}
      BY <1>5 DEF Covered, Balanced
    <2>2. /\ q # r => request'[q] = request[q]
          /\ request'[r].stage \in {"balancing", "submitting"}
          /\ request'[r].fee = request[r].fee
      BY <1>5 DEF Covered, Balanced, Move, TypeOK, Request
    <2> QED BY <1>1, <1>2, <2>1, <2>2 DEF Exposed, Held
  <1>6. ASSUME NEW r \in Requests,
               NotPriced(r) \/ NotCovered(r) \/ BalanceUnknown(r) \/ NotBalanced(r)
        PROVE  Follows'
    <2>1. PICK stage \in {"refused", "errored"} : Move(r, stage) /\ Tell(r, stage)
      BY <1>6 DEF NotPriced, NotCovered, BalanceUnknown, NotBalanced, Drop
    <2>2. landed' = landed /\ request[r].stage \in Held \ {"submitting"}
      BY <1>6 DEF NotPriced, NotCovered, BalanceUnknown, NotBalanced, Drop, Held
    <2>3. /\ q # r => request'[q] = request[q] /\ told'[q] = told[q]
          /\ request'[r].stage = stage
          /\ told'[r] \in {Answer(stage), "TRANSPORT"}
      BY <2>1, TellType DEF Move, TypeOK, Request
    <2>4. told'[r] # "paid" /\ (told'[r] = "refused" => stage = "refused")
      BY <2>3 DEF Answer
    <2> QED BY <1>1, <1>2, <2>2, <2>3, <2>4 DEF Exposed, Held
  <1>7. ASSUME NEW r \in Requests, NEW stage \in {"paid", "failed"}, Submitted(r, stage)
        PROVE  Follows'
    <2>1. landed' = landed /\ request[r].stage = "submitting"
      BY <1>7 DEF Submitted
    <2>2. /\ q # r => request'[q] = request[q] /\ told'[q] = told[q]
          /\ request'[r].stage = stage /\ request'[r].fee = request[r].fee
          /\ request'[r].tx = request[r].tx
          /\ told'[r] \in {Answer(stage), "TRANSPORT"}
      BY <1>7, TellType DEF Submitted, Move, TypeOK, Request
    <2>3. told'[r] # "refused" /\ (told'[r] = "paid" => stage = "paid")
      BY <2>2 DEF Answer
    <2> QED BY <1>1, <1>2, <2>1, <2>2, <2>3 DEF Exposed, Held
  <1>8. ASSUME NEW r \in Requests, Land(r) PROVE Follows'
    <2>1. UNCHANGED <<request, told>> /\ request[r].stage \in Exposed
      BY <1>8 DEF Land
    <2>2. \A t \in Txs : landed'[t] = landed[t] \/ (t = request[r].tx /\ landed'[t] = r)
      BY <1>8 DEF Land, TypeOK
    <2> QED BY <1>1, <2>1, <2>2
  <1>9. CASE Restart
    <2>1. CASE q \notin InFlight
      BY <1>2, <1>9, <2>1 DEF Restart
    <2>2. CASE q \in InFlight
      <3>1. /\ request'[q].tx = request[q].tx /\ request'[q].fee = request[q].fee
            /\ request'[q].stage = IF request[q].stage = "submitting"
                                   THEN "orphaned" ELSE "dropped"
        BY <1>9, <2>2 DEF Restart, TypeOK, Request
      <3>2. landed' = landed /\ told'[q] = "TRANSPORT" /\ request[q].stage \in Held
        BY <1>9, <2>2 DEF Restart, InFlight
      <3> QED BY <1>1, <3>1, <3>2 DEF Exposed, Held
    <2> QED BY <2>1, <2>2
  <1>10. CASE Prune \/ Tick \/ UNCHANGED vars
    BY <1>2, <1>10 DEF Prune, Tick, vars
  <1> QED BY <1>3, <1>4, <1>5, <1>6, <1>7, <1>8, <1>9, <1>10 DEF Next

-----------------------------------------------------------------------------
(* The theorems.                                                           *)

LEMMA SponsorInvariant == Spec => []SponsorInv
  <1>1. Init => SponsorInv
    <2> SUFFICES ASSUME Init PROVE SponsorInv
      OBVIOUS
    <2>1. TypeOK
      BY InitType
    <2>2. /\ InFlight = {} /\ Done = {} /\ \A c \in Callers : Holders(c) = {}
          /\ \A n \in 1..MaxLives : ExposedOf(n) = {}
      BY DEF Init, InFlight, Held, Done, Holders, ExposedOf, Exposed, NewRequest
    <2>3. Units(Done) = {} /\ \A n \in 1..MaxLives : Exposure(n) = {}
      BY <2>2 DEF Units, Exposure
    <2>4. Budget \in Nat /\ MaxFee \in Nat /\ MaxRequests \in Nat /\ Cardinality({}) = 0
      BY SponsorAssumption, FS_EmptySet DEF SponsorAssumption
    <2>5. BudgetHolds
      <3>1. Cardinality(InFlight) = 0 /\ MaxFee * 0 = 0
        BY <2>2, <2>4
      <3> QED BY <2>4, <3>1 DEF Init, BudgetHolds
    <2>6. SpentIsCharged /\ ExposureWithinBudget
      BY <2>3, <2>4 DEF Init, SpentIsCharged, ExposureWithinBudget
    <2>7. FlightsAreOfThisLife /\ AnswersFollowRequests
      BY SponsorAssumption
      DEF SponsorAssumption, Init, FlightsAreOfThisLife, AnswersFollowRequests, NewRequest, InFlight,
          Held, Exposed
    <2>8. PlacesAreCounted
      BY <2>2, <2>4 DEF Init, PlacesAreCounted, Places
    <2> QED BY <2>1, <2>5, <2>6, <2>7, <2>8 DEF SponsorInv
  <1>2. SponsorInv /\ [Next]_vars => SponsorInv'
    BY StepType, BudgetStep, FlightsStep, SpentStep, ExposureStep, PlacesStep, AnswersStep
    DEF SponsorInv
  <1> QED BY <1>1, <1>2, PTL DEF Spec

\* The counters, the windows and the requests keep their shape for any number of requests.
THEOREM SponsorTyping == Spec => []TypeOK
  <1>1. SponsorInv => TypeOK
    BY DEF SponsorInv
  <1> QED BY <1>1, SponsorInvariant, PTL

\* service.ts:162-163, the sponsor's own invariant: spend and reservations stay within the budget at
\* every await, and what is reserved is what the requests in flight hold.
THEOREM BudgetIsKept == Spec => []BudgetHolds
  <1>1. SponsorInv => BudgetHolds
    BY DEF SponsorInv
  <1> QED BY <1>1, SponsorInvariant, PTL

\* In no life of the process can more than the budget leave the wallet, however its requests
\* interleave and whatever of them fails.
THEOREM ExposureIsBounded == Spec => []ExposureWithinBudget
  <1>1. SponsorInv => ExposureWithinBudget
    BY DEF SponsorInv
  <1> QED BY <1>1, SponsorInvariant, PTL

\* A refusal and a success told to a client are true, and stay so.
THEOREM AnswersStayTrue == Spec => []AnswersAreTrue
  <1>1. SponsorInv => AnswersAreTrue
    <2> SUFFICES ASSUME SponsorInv, NEW r \in Requests
                 PROVE  /\ told[r] = "refused" => \A t \in Txs : landed[t] # r
                        /\ told[r] = "paid" =>
                             request[r].stage = "paid" /\ request[r].fee \in Fees
      BY DEF AnswersAreTrue
    <2> QED BY DEF SponsorInv, AnswersFollowRequests, Exposed
  <1> QED BY <1>1, SponsorInvariant, PTL

\* However refunds, restarts and expiries interleave, a bucket lands no more transactions than its
\* windows had places.
THEOREM LandingsAreCounted == Spec => []EveryLandingIsCounted
  <1>1. SponsorInv => EveryLandingIsCounted
    <2> SUFFICES ASSUME SponsorInv, NEW c \in Callers
                 PROVE  Cardinality(LandedFor(c)) <= MaxRequests * opened[c]
      BY DEF EveryLandingIsCounted
    <2> USE DEF SponsorInv
    <2> DEFINE f == [t \in LandedFor(c) |-> landed[t]]
    <2>1. \A t \in LandedFor(c) : landed[t] \in Holders(c) /\ request[landed[t]].tx = t
      <3> SUFFICES ASSUME NEW t \in LandedFor(c)
                   PROVE  landed[t] \in Holders(c) /\ request[landed[t]].tx = t
        OBVIOUS
      <3>1. t \in Txs /\ landed[t] \in Requests /\ request[landed[t]].caller = c
        BY DEF LandedFor, TypeOK
      <3>2. request[landed[t]].tx = t /\ request[landed[t]].stage \in Exposed
        BY <3>1 DEF AnswersFollowRequests
      <3> QED BY <3>1, <3>2 DEF Holders, Exposed
    <2>2. f \in [LandedFor(c) -> Holders(c)]
      BY <2>1
    <2>3. \A t, u \in LandedFor(c) : f[t] = f[u] => t = u
      BY <2>1
    <2>4. f \in Injection(LandedFor(c), Holders(c))
      BY <2>2, <2>3 DEF Injection, IsInjective
    <2>5. IsFiniteSet(Holders(c)) /\ Cardinality(Holders(c)) \in Nat
      BY HoldersAreFinite
    <2>6. IsFiniteSet(LandedFor(c)) /\ Cardinality(LandedFor(c)) <= Cardinality(Holders(c))
      BY <2>4, <2>5, FS_Injection
    <2>7. Cardinality(LandedFor(c)) \in Nat
      BY <2>6, FS_CardinalityType
    <2>8. Cardinality(Holders(c)) <= Places(c) /\ Places(c) <= MaxRequests * opened[c]
      BY ClosedWindow DEF PlacesAreCounted
    <2> QED BY <2>5, <2>6, <2>7, <2>8, PlaceNumbers
  <1> QED BY <1>1, SponsorInvariant, PTL

-----------------------------------------------------------------------------
(* Whose bucket a request is counted in.                                   *)

\* Counted from the right, the entry is the one the first trusted proxy appended.
LEMMA BucketOfOrigin ==
    ASSUME NEW k \in Connections
    PROVE  rateLimitBucket(k) = k.origin
  <1>1. k.forwarded \in Seq(STRING) /\ Hops \in Nat \ {0}
    BY SponsorAssumption DEF SponsorAssumption, Connection
  <1>2. Len(k.forwarded) \in Nat
    BY <1>1
  <1>3. CASE k.key # None \/ k.remote \notin TrustedProxies
    BY <1>3, ProxyAssumption DEF ProxyAssumption, rateLimitBucket
  <1>4. CASE k.key = None /\ k.remote \in TrustedProxies
    <2>1. PICK n \in 0..Len(k.forwarded) :
            n + Hops = Len(k.forwarded) /\ k.forwarded[n + 1] = k.origin
      BY <1>4, ProxyAssumption DEF ProxyAssumption
    <2>2. n + 1 = Len(k.forwarded) - Hops + 1 /\ Len(k.forwarded) >= Hops
      BY <1>1, <1>2, <2>1
    <2> QED BY <1>4, <2>1, <2>2 DEF rateLimitBucket
  <1> QED BY <1>3, <1>4

LEMMA BucketsStep ==
    ASSUME TypeOK, FlightsAreOfThisLife, BucketsAreTheCallersOwn, [Next]_vars
    PROVE  BucketsAreTheCallersOwn'
  <1> SUFFICES ASSUME NEW q \in Requests PROVE request'[q].caller = request'[q].origin
    BY DEF BucketsAreTheCallersOwn
  <1>0. request[q].caller = request[q].origin /\ request[q] \in Request
    BY DEF BucketsAreTheCallersOwn, TypeOK
  <1>1. ASSUME NEW r \in Requests, NEW k \in Connections, NEW t \in Txs, Arrive(r, k, t)
        PROVE  request'[q].caller = request'[q].origin
    <2>1. CASE q # r
      BY <1>0, <1>1, <2>1 DEF Arrive, TypeOK
    <2>2. CASE q = r /\ ~Allowed(rateLimitBucket(k))
      BY <1>1, <2>2 DEF Arrive, TypeOK, NewRequest
    <2>3. CASE q = r /\ Allowed(rateLimitBucket(k))
      BY <1>1, <2>3, BucketOfOrigin DEF Arrive, TypeOK
    <2> QED BY <2>1, <2>2, <2>3
  <1>2. ASSUME NEW r \in Requests, NEW f \in Fees, Priced(r, f)
        PROVE  request'[q].caller = request'[q].origin
    BY <1>0, <1>2 DEF Priced, TypeOK, Request
  <1>3. ASSUME NEW r \in Requests, NEW stage, Move(r, stage)
        PROVE  request'[q].caller = request'[q].origin
    BY <1>0, <1>3 DEF Move, TypeOK, Request
  <1>4. CASE Restart
    BY <1>0, <1>4 DEF Restart, Request
  <1>5. CASE UNCHANGED request
    BY <1>0, <1>5
  <1> QED
    BY <1>1, <1>2, <1>3, <1>4, <1>5
    DEF Next, vars, NotPriced, Covered, NotCovered, BalanceUnknown, Balanced, NotBalanced, Drop,
        Submitted, Land, Prune, Tick

\* A request counts in its own client's bucket, whatever the client wrote into the header before
\* the trusted proxies appended to it, and through however many of them it came.
THEOREM BucketsAreOwn == Spec => []BucketsAreTheCallersOwn
  <1>1. Init => BucketsAreTheCallersOwn
    BY DEF Init, BucketsAreTheCallersOwn, NewRequest
  <1>2. SponsorInv /\ BucketsAreTheCallersOwn /\ [Next]_vars => BucketsAreTheCallersOwn'
    BY BucketsStep DEF SponsorInv
  <1> QED BY <1>1, <1>2, SponsorInvariant, PTL DEF Spec

=============================================================================
