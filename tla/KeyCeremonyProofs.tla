-------------------------- MODULE KeyCeremonyProofs --------------------------
(***************************************************************************)
(* Theorems about KeyCeremony, for any group order, any draws and pages.   *)
(***************************************************************************)
EXTENDS KeyCeremony, WellFoundedInduction, TLAPS

-----------------------------------------------------------------------------
(* Remainders.                                                             *)

LEMMA Order == Q \in Nat /\ Q > 3 /\ Q % 2 = 1
  <1>1. Q \in Nat /\ Q > 3 /\ Q % 2 # 0
    BY KeyCeremonyAssumption DEF KeyCeremonyAssumption
  <1> QED BY <1>1

\* x and y differ by a multiple of the order.
Congruent(x, y) == \E k \in Int : x = y + k * Q

LEMMA RemainderIs ==
    ASSUME NEW x \in Int
    PROVE  modL(x) \in Scalars /\ Congruent(x, modL(x))
  <1>1. x % Q \in 0..(Q - 1)
    BY Order
  <1>2. x = (x % Q) + (x \div Q) * Q /\ x \div Q \in Int
    BY Order
  <1> QED BY <1>1, <1>2 DEF modL, Scalars, Congruent

LEMMA CongruentItself == \A x \in Int : Congruent(x, x)
  <1>1. \A x \in Int : x = x + 0 * Q
    BY Order
  <1> QED BY <1>1 DEF Congruent

LEMMA CongruenceIsAnEquivalence ==
    ASSUME NEW x \in Int, NEW y \in Int, NEW z \in Int, Congruent(x, y)
    PROVE  Congruent(x, x) /\ Congruent(y, x) /\ (Congruent(y, z) => Congruent(x, z))
  <1>0. Q \in Int
    BY Order
  <1>1. PICK k \in Int : x = y + k * Q
    BY DEF Congruent
  <1>2. x = x + 0 * Q
    BY <1>0
  <1>3. y = x + (-k) * Q
    BY <1>0, <1>1
  <1>4. ASSUME NEW j \in Int, y = z + j * Q
        PROVE  x = z + (k + j) * Q
    BY <1>0, <1>1, <1>4
  <1>5. Congruent(x, x) /\ Congruent(y, x)
    BY <1>2, <1>3 DEF Congruent
  <1>6. ASSUME Congruent(y, z) PROVE Congruent(x, z)
    BY <1>4, <1>6 DEF Congruent
  <1> QED BY <1>5, <1>6

LEMMA CongruentSums ==
    ASSUME NEW x \in Int, NEW y \in Int, NEW z \in Int, NEW w \in Int,
           Congruent(x, y), Congruent(z, w)
    PROVE  Congruent(x + z, y + w) /\ Congruent(x - z, y - w)
  <1>0. Q \in Int
    BY Order
  <1>1. PICK k \in Int, j \in Int : x = y + k * Q /\ z = w + j * Q
    BY DEF Congruent
  <1>2. x + z = (y + w) + (k + j) * Q /\ x - z = (y - w) + (k - j) * Q
    BY <1>0, <1>1
  <1>3. k + j \in Int /\ k - j \in Int
    OBVIOUS
  <1> QED BY <1>2, <1>3 DEF Congruent

LEMMA CongruentProducts ==
    ASSUME NEW x \in Int, NEW y \in Int, NEW z \in Int, NEW w \in Int,
           Congruent(x, y), Congruent(z, w)
    PROVE  Congruent(x * z, y * w)
  <1>0. Q \in Int
    BY Order
  <1>1. PICK k \in Int, j \in Int : x = y + k * Q /\ z = w + j * Q
    BY DEF Congruent
  <1> DEFINE m == k * w + y * j + k * j * Q
  <1>2. x * z = y * w + m * Q
    BY <1>0, <1>1
  <1>3. m \in Int
    BY <1>0
  <1> QED BY <1>2, <1>3 DEF Congruent

\* Two remainders are congruent only if they are equal.
LEMMA CongruentRemainders ==
    ASSUME NEW x \in Scalars, NEW y \in Scalars, Congruent(x, y)
    PROVE  x = y
  <1>0. Q \in Int /\ Q > 3 /\ x \in Int /\ y \in Int /\ 0 <= x /\ x < Q /\ 0 <= y /\ y < Q
    BY Order DEF Scalars
  <1>1. PICK k \in Int : x = y + k * Q
    BY DEF Congruent
  <1>2. ~(k >= 1)
    <2>1. k >= 1 => k * Q >= Q
      BY <1>0
    <2> QED BY <1>0, <1>1, <2>1
  <1>3. ~(k <= -1)
    <2>1. k <= -1 => k * Q <= -Q
      BY <1>0
    <2> QED BY <1>0, <1>1, <2>1
  <1>4. k = 0
    BY <1>2, <1>3
  <1> QED BY <1>0, <1>1, <1>4

LEMMA CongruenceIsEquality ==
    ASSUME NEW x \in Int, NEW y \in Int
    PROVE  Congruent(x, y) <=> modL(x) = modL(y)
  <1>1. /\ modL(x) \in Scalars /\ Congruent(x, modL(x)) /\ modL(x) \in Int
        /\ modL(y) \in Scalars /\ Congruent(y, modL(y)) /\ modL(y) \in Int
    BY RemainderIs DEF Scalars
  <1>2. ASSUME Congruent(x, y) PROVE modL(x) = modL(y)
    <2>1. Congruent(modL(x), x)
      BY <1>1, CongruenceIsAnEquivalence
    <2>2. Congruent(modL(x), y)
      BY <1>1, <1>2, <2>1, CongruenceIsAnEquivalence
    <2>3. Congruent(modL(x), modL(y))
      BY <1>1, <2>2, CongruenceIsAnEquivalence
    <2> QED BY <1>1, <2>3, CongruentRemainders
  <1>3. ASSUME modL(x) = modL(y) PROVE Congruent(x, y)
    <2>1. Congruent(modL(y), y)
      BY <1>1, CongruenceIsAnEquivalence
    <2> QED BY <1>1, <1>3, <2>1, CongruenceIsAnEquivalence
  <1> QED BY <1>2, <1>3

-----------------------------------------------------------------------------
(* The extended Euclidean algorithm.  Its loop ends, because the second    *)
(* remainder decreases: the recursive function is defined everywhere.      *)

Loops == Nat \X Nat \X Int \X Int

LEMMA QuotientIs ==
    ASSUME NEW a \in Nat, NEW b \in Nat, b > 0
    PROVE  a \div b \in Int /\ a - (a \div b) * b \in 0..(b - 1)
  <1>1. a \div b \in Int /\ a % b \in 0..(b - 1)
    OBVIOUS
  <1>2. a = (a % b) + (a \div b) * b
    OBVIOUS
  <1> DEFINE q == a \div b
             r == a % b
  <1> HIDE DEF q, r
  <1>3. a - q * b = r
    BY <1>1, <1>2 DEF q, r
  <1> QED BY <1>1, <1>3 DEF q, r

LEMMA TurnDecreases ==
    ASSUME NEW l \in Loops, l[2] # 0
    PROVE  Turn(l) \in Loops /\ Turn(l)[2] < l[2]
  <1> DEFINE a == l[1]
             b == l[2]
             q == a \div b
  <1>1. a \in Nat /\ b \in Nat /\ b > 0 /\ l[3] \in Int /\ l[4] \in Int
    BY DEF Loops
  <1>2. q \in Int /\ a - q * b \in 0..(b - 1)
    BY <1>1, QuotientIs
  <1>3. l[3] - q * l[4] \in Int
    BY <1>1, <1>2
  <1>4. Turn(l) = <<b, a - q * b, l[4], l[3] - q * l[4]>>
    BY DEF Turn
  <1> HIDE DEF a, b, q
  <1>5. b \in Nat /\ a - q * b \in Nat /\ l[4] \in Int /\ a - q * b < b
    BY <1>1, <1>2
  <1>6. Turn(l) \in Loops /\ Turn(l)[2] = a - q * b
    BY <1>3, <1>4, <1>5 DEF Loops
  <1> QED BY <1>5, <1>6 DEF b

\* What the algorithm returns, as a function on the loops whose second remainder is below n.
Below(n) == {l \in Loops : l[2] < n}
Solves(f, n) == f = [l \in Below(n) |-> IF l[2] = 0 THEN l[3] ELSE f[Turn(l)]]

LEMMA SmallestOf ==
    ASSUME NEW T, T \subseteq Nat, T # {}
    PROVE  \E x \in T : \A y \in T : x <= y
  <1>1. PICK x \in T : \A y \in T : ~(<<y, x>> \in OpToRel(<, Nat))
    BY NatLessThanWellFounded, WFMin
  <1>2. \A y \in T : y \in Nat /\ x \in Nat /\ ~(y < x)
    BY <1>1, Zenon DEF OpToRel
  <1>3. \A y \in T : x <= y
    BY <1>2
  <1> QED BY <1>3

LEMMA SolutionsAgree ==
    ASSUME NEW n \in Nat, NEW m \in Nat, NEW f, NEW g, Solves(f, n), Solves(g, m),
           NEW l \in Below(n), l \in Below(m)
    PROVE  f[l] = g[l]
  <1> DEFINE Bad(k) == \E j \in Below(n) \cap Below(m) : j[2] = k /\ f[j] # g[j]
             T == {k \in Nat : Bad(k)}
  <1>1. SUFFICES ASSUME f[l] # g[l] PROVE FALSE
    OBVIOUS
  <1>2. l[2] \in T
    BY <1>1 DEF Below, Loops
  <1>3. PICK k \in T : \A i \in T : k <= i
    BY <1>2, SmallestOf
  <1>4. PICK j \in Below(n) \cap Below(m) : j[2] = k /\ f[j] # g[j]
    BY <1>3
  <1>5. /\ f[j] = IF j[2] = 0 THEN j[3] ELSE f[Turn(j)]
        /\ g[j] = IF j[2] = 0 THEN j[3] ELSE g[Turn(j)]
    BY <1>4 DEF Solves
  <1>6. j[2] # 0 /\ f[Turn(j)] # g[Turn(j)]
    BY <1>4, <1>5
  <1>7. Turn(j) \in Loops /\ Turn(j)[2] < j[2]
    BY <1>4, <1>6, TurnDecreases DEF Below
  <1>8. Turn(j)[2] \in Nat /\ j[2] \in Nat /\ j[2] < n /\ j[2] < m
    BY <1>4, <1>7 DEF Below, Loops
  <1>9. Turn(j) \in Below(n) \cap Below(m)
    BY <1>7, <1>8 DEF Below
  <1>10. Turn(j)[2] \in T
    BY <1>6, <1>8, <1>9
  <1> QED BY <1>3, <1>4, <1>7, <1>8, <1>10

LEMMA SolutionsExist == \A n \in Nat : \E f : Solves(f, n)
  <1> DEFINE T == {n \in Nat : ~\E f : Solves(f, n)}
  <1>1. SUFFICES ASSUME T # {} PROVE FALSE
    OBVIOUS
  <1>2. PICK n \in T : \A i \in T : n <= i
    BY <1>1, SmallestOf
  <1>3. n # 0
    <2>1. Below(0) = {}
      BY DEF Below, Loops
    <2> DEFINE f == [l \in Below(0) |-> 0]
    <2>2. f = [l \in Below(0) |-> IF l[2] = 0 THEN l[3] ELSE f[Turn(l)]]
      BY <2>1
    <2> QED BY <2>2 DEF Solves
  <1>4. PICK f : Solves(f, n - 1)
    BY <1>2, <1>3
  <1> DEFINE g == [l \in Below(n) |-> IF l[2] = 0 THEN l[3] ELSE f[Turn(l)]]
  <1>5. ASSUME NEW l \in Below(n), l[2] # 0
        PROVE  g[Turn(l)] = f[Turn(l)]
    <2>1. Turn(l) \in Loops /\ Turn(l)[2] < l[2] /\ l[2] < n
      BY <1>5, TurnDecreases DEF Below
    <2>2. Turn(l)[2] \in Nat /\ l[2] \in Nat /\ n \in Nat
      BY <1>2, <1>5, <2>1 DEF Below, Loops
    <2>3. Turn(l) \in Below(n) /\ Turn(l) \in Below(n - 1)
      BY <2>1, <2>2 DEF Below
    <2>4. f[Turn(l)] = IF Turn(l)[2] = 0 THEN Turn(l)[3] ELSE f[Turn(Turn(l))]
      BY <1>4, <2>3 DEF Solves
    <2> QED BY <2>3, <2>4
  <1>6. g = [l \in Below(n) |-> IF l[2] = 0 THEN l[3] ELSE g[Turn(l)]]
    BY <1>5
  <1> HIDE DEF g
  <1> QED BY <1>2, <1>6 DEF Solves

\* The recursive definition is satisfied, so a turn of the loop may be unfolded.
LEMMA EuclidUnfolds ==
    \A l \in Loops : euclid[l] = IF l[2] = 0 THEN l[3] ELSE euclid[Turn(l)]
  <1> DEFINE s(n) == CHOOSE f : Solves(f, n)
             F == [l \in Loops |-> s(l[2] + 1)[l]]
  <1>1. \A n \in Nat : Solves(s(n), n)
    BY SolutionsExist
  <1> HIDE DEF s
  <1>2. ASSUME NEW l \in Loops
        PROVE  F[l] = IF l[2] = 0 THEN l[3] ELSE F[Turn(l)]
    <2>1. l[2] \in Nat /\ l[2] + 1 \in Nat /\ l \in Below(l[2] + 1)
      BY DEF Loops, Below
    <2>2. s(l[2] + 1)[l] = IF l[2] = 0 THEN l[3] ELSE s(l[2] + 1)[Turn(l)]
      BY <1>1, <2>1 DEF Solves
    <2>3. ASSUME l[2] # 0
          PROVE  F[Turn(l)] = s(l[2] + 1)[Turn(l)]
      <3>1. Turn(l) \in Loops /\ Turn(l)[2] < l[2] /\ Turn(l)[2] \in Nat
        BY <2>3, TurnDecreases DEF Loops
      <3>2. Turn(l)[2] + 1 \in Nat /\ Turn(l) \in Below(Turn(l)[2] + 1) /\ Turn(l) \in Below(l[2] + 1)
        BY <2>1, <3>1 DEF Below
      <3>3. s(Turn(l)[2] + 1)[Turn(l)] = s(l[2] + 1)[Turn(l)]
        BY <1>1, <2>1, <3>2, SolutionsAgree
      <3> QED BY <3>1, <3>3
    <2> QED BY <2>2, <2>3
  <1>3. F = [l \in Loops |-> IF l[2] = 0 THEN l[3] ELSE F[Turn(l)]]
    BY <1>2
  <1> HIDE DEF F
  <1>4. euclid = [l \in Loops |-> IF l[2] = 0 THEN l[3] ELSE euclid[Turn(l)]]
    BY <1>3, Zenon DEF euclid, Loops
  <1> QED BY <1>4

-----------------------------------------------------------------------------
(* What the algorithm returns for the differences of two indices.          *)

LEMMA QuotientIsUnique ==
    ASSUME NEW a \in Nat, NEW b \in Nat, b > 0, NEW q \in Nat, NEW r \in 0..(b - 1), a = q * b + r
    PROVE  a \div b = q
  <1> DEFINE p == a \div b
  <1>1. p \in Int /\ a - p * b \in 0..(b - 1)
    BY QuotientIs
  <1> HIDE DEF p
  <1>2. p * b <= q * b + r /\ q * b + r < p * b + b /\ 0 <= r /\ r < b
    BY <1>1
  <1>3. ~(p >= q + 1)
    <2>1. p >= q + 1 => p * b >= q * b + b
      BY <1>1
    <2> QED BY <1>1, <1>2, <2>1
  <1>4. ~(p <= q - 1)
    <2>1. p <= q - 1 => p * b <= q * b - b
      BY <1>1
    <2> QED BY <1>1, <1>2, <2>1
  <1>5. p = q
    BY <1>1, <1>3, <1>4
  <1> QED BY <1>5 DEF p

LEMMA OneTurn ==
    ASSUME NEW a \in Nat, NEW b \in Nat, b > 0, NEW q \in Nat, NEW r \in 0..(b - 1), a = q * b + r,
           NEW s \in Int, NEW t \in Int
    PROVE  euclid[<<a, b, s, t>>] = euclid[<<b, r, t, s - q * t>>]
  <1>1. <<a, b, s, t>> \in Loops
    BY DEF Loops
  <1>2. a \div b = q
    BY QuotientIsUnique
  <1>3. a - q * b = r
    OBVIOUS
  <1>4. Turn(<<a, b, s, t>>) = <<b, r, t, s - q * t>>
    BY <1>2, <1>3 DEF Turn
  <1> QED BY <1>1, <1>4, EuclidUnfolds

LEMMA LastTurn ==
    ASSUME NEW a \in Nat, NEW s \in Int, NEW t \in Int
    PROVE  euclid[<<a, 0, s, t>>] = s
  <1>1. <<a, 0, s, t>> \in Loops
    BY DEF Loops
  <1> QED BY <1>1, EuclidUnfolds

LEMMA RemainderOf ==
    ASSUME NEW x \in Int, NEW y \in Scalars, Congruent(x, y)
    PROVE  modL(x) = y
  <1>1. modL(x) \in Scalars /\ Congruent(x, modL(x)) /\ modL(x) \in Int /\ y \in Int
    BY RemainderIs DEF Scalars
  <1>2. Congruent(modL(x), x)
    BY <1>1, CongruenceIsAnEquivalence
  <1>3. Congruent(modL(x), y)
    BY <1>1, <1>2, CongruenceIsAnEquivalence
  <1> QED BY <1>1, <1>3, CongruentRemainders

\* Half of the order, rounded up: the inverse of two.
Half == (Q + 1) \div 2

LEMMA HalfIs == Half \in Nat /\ Half >= 3 /\ Q = 2 * Half - 1
  <1>1. Q \in Nat /\ Q > 3 /\ Q % 2 = 1
    BY Order
  <1>2. Half \in Int /\ 2 * Half = Q + 1
    BY <1>1 DEF Half
  <1> QED BY <1>1, <1>2

LEMMA SmallRemainders == modL(1) = 1 /\ modL(2) = 2 /\ modL(-1) = Q - 1 /\ modL(-2) = Q - 2
  <1>1. Q \in Int /\ Q > 3
    BY Order
  <1>2. 1 \in Scalars /\ 2 \in Scalars /\ Q - 1 \in Scalars /\ Q - 2 \in Scalars
    BY <1>1 DEF Scalars
  <1>3. 1 = 1 + 0 * Q /\ 2 = 2 + 0 * Q /\ -1 = (Q - 1) + (-1) * Q /\ -2 = (Q - 2) + (-1) * Q
    BY <1>1
  <1>4. Congruent(1, 1) /\ Congruent(2, 2) /\ Congruent(-1, Q - 1) /\ Congruent(-2, Q - 2)
    BY <1>3 DEF Congruent
  <1> QED BY <1>2, <1>4, RemainderOf

LEMMA InverseOfOne == invL(1) = 1
  <1>1. Q \in Nat /\ Q > 3
    BY Order
  <1>2. euclid[<<1, Q, 1, 0>>] = euclid[<<Q, 1, 0, 1 - 0 * 0>>]
    <2>1. 1 = 0 * Q + 1 /\ 1 \in 0..(Q - 1)
      BY <1>1
    <2> QED BY <1>1, <2>1, OneTurn
  <1>3. euclid[<<Q, 1, 0, 1>>] = euclid[<<1, 0, 1, 0 - Q * 1>>]
    <2>1. Q = Q * 1 + 0
      BY <1>1
    <2> QED BY <1>1, <2>1, OneTurn
  <1>4. euclid[<<1, 0, 1, 0 - Q * 1>>] = 1
    BY <1>1, LastTurn
  <1>5. 1 - 0 * 0 = 1
    OBVIOUS
  <1> QED BY <1>2, <1>3, <1>4, <1>5, SmallRemainders DEF invL

LEMMA InverseOfMinusOne == invL(-1) = Q - 1
  <1>1. Q \in Nat /\ Q > 3
    BY Order
  <1>2. euclid[<<Q - 1, Q, 1, 0>>] = euclid[<<Q, Q - 1, 0, 1>>]
    <2>1. Q - 1 = 0 * Q + (Q - 1) /\ Q - 1 \in 0..(Q - 1) /\ 1 - 0 * 0 = 1
      BY <1>1
    <2> QED BY <1>1, <2>1, OneTurn
  <1>3. euclid[<<Q, Q - 1, 0, 1>>] = euclid[<<Q - 1, 1, 1, -1>>]
    <2>1. Q = 1 * (Q - 1) + 1 /\ 1 \in 0..(Q - 1 - 1) /\ 0 - 1 * 1 = -1
      BY <1>1
    <2> QED BY <1>1, <2>1, OneTurn
  <1>4. euclid[<<Q - 1, 1, 1, -1>>] = euclid[<<1, 0, -1, 1 - (Q - 1) * (-1)>>]
    <2>1. Q - 1 = (Q - 1) * 1 + 0 /\ 0 \in 0..(1 - 1)
      BY <1>1
    <2> QED BY <1>1, <2>1, OneTurn
  <1>5. euclid[<<1, 0, -1, 1 - (Q - 1) * (-1)>>] = -1
    BY <1>1, LastTurn
  <1> QED BY <1>2, <1>3, <1>4, <1>5, SmallRemainders DEF invL

LEMMA TurnOfTwo ==
    ASSUME NEW s \in Int, NEW t \in Int
    PROVE  euclid[<<2, 1, s, t>>] = t
  <1> DEFINE u == s - 2 * t
  <1>1. u \in Int /\ 2 = 2 * 1 + 0 /\ 0 \in 0..(1 - 1)
    OBVIOUS
  <1>2. euclid[<<2, 1, s, t>>] = euclid[<<1, 0, t, u>>]
    BY <1>1, OneTurn
  <1> HIDE DEF u
  <1>3. euclid[<<1, 0, t, u>>] = t
    BY <1>1, LastTurn
  <1> QED BY <1>2, <1>3

LEMMA InverseOfTwo == invL(2) = Half
  <1> DEFINE k == Half - 1
  <1>1. Q \in Nat /\ Q > 3 /\ k \in Nat /\ Q = 2 * k + 1
    BY Order, HalfIs
  <1> HIDE DEF k
  <1>2. euclid[<<2, Q, 1, 0>>] = euclid[<<Q, 2, 0, 1>>]
    <2>1. 2 = 0 * Q + 2 /\ 2 \in 0..(Q - 1) /\ 1 - 0 * 0 = 1
      BY <1>1
    <2> QED BY <1>1, <2>1, OneTurn
  <1>3. euclid[<<Q, 2, 0, 1>>] = euclid[<<2, 1, 1, -k>>]
    <2>1. Q = k * 2 + 1 /\ 1 \in 0..(2 - 1) /\ 0 - k * 1 = -k
      BY <1>1
    <2> QED BY <1>1, <2>1, OneTurn
  <1>4. euclid[<<2, 1, 1, -k>>] = -k
    BY <1>1, TurnOfTwo
  <1>5. modL(-k) = Half
    <2>1. Half \in Scalars /\ -k \in Int /\ -k = Half + (-1) * Q
      BY <1>1, HalfIs DEF k, Scalars
    <2> QED BY <2>1, RemainderOf DEF Congruent
  <1> QED BY <1>2, <1>3, <1>4, <1>5, SmallRemainders DEF invL

LEMMA InverseOfMinusTwo == invL(-2) = Half - 1
  <1> DEFINE k == Half - 2
  <1>1. Q \in Nat /\ Q > 3 /\ k \in Nat /\ Q - 2 = 2 * k + 1 /\ k >= 1
    BY Order, HalfIs
  <1> HIDE DEF k
  <1>2. euclid[<<Q - 2, Q, 1, 0>>] = euclid[<<Q, Q - 2, 0, 1>>]
    <2>1. Q - 2 = 0 * Q + (Q - 2) /\ Q - 2 \in 0..(Q - 1) /\ 1 - 0 * 0 = 1
      BY <1>1
    <2> QED BY <1>1, <2>1, OneTurn
  <1>3. euclid[<<Q, Q - 2, 0, 1>>] = euclid[<<Q - 2, 2, 1, -1>>]
    <2>1. Q = 1 * (Q - 2) + 2 /\ 2 \in 0..(Q - 2 - 1) /\ 0 - 1 * 1 = -1
      BY <1>1
    <2> QED BY <1>1, <2>1, OneTurn
  <1>4. euclid[<<Q - 2, 2, 1, -1>>] = euclid[<<2, 1, -1, 1 + k>>]
    <2>1. Q - 2 = k * 2 + 1 /\ 1 \in 0..(2 - 1) /\ 1 - k * (-1) = 1 + k
      BY <1>1
    <2> QED BY <1>1, <2>1, OneTurn
  <1>5. euclid[<<2, 1, -1, 1 + k>>] = 1 + k
    BY <1>1, TurnOfTwo
  <1>6. modL(1 + k) = Half - 1
    <2>1. Half - 1 \in Scalars /\ 1 + k \in Int /\ 1 + k = (Half - 1) + 0 * Q
      BY <1>1, HalfIs DEF k, Scalars
    <2> QED BY <2>1, RemainderOf DEF Congruent
  <1> QED BY <1>2, <1>3, <1>4, <1>5, <1>6, SmallRemainders DEF invL

-----------------------------------------------------------------------------
(* Interpolation at zero.                                                  *)

LEMMA LagrangeCoefficients ==
    /\ Congruent(lagrangeAtZero(1, 2), 2) /\ Congruent(lagrangeAtZero(2, 1), -1)
    /\ Congruent(lagrangeAtZero(1, 3), 3 * Half) /\ Congruent(lagrangeAtZero(3, 1), -Half)
    /\ Congruent(lagrangeAtZero(2, 3), 3) /\ Congruent(lagrangeAtZero(3, 2), -2)
  <1>0. Q \in Int /\ Half \in Int /\ Q = 2 * Half - 1
    BY Order, HalfIs
  <1>1. ASSUME NEW x \in Int, NEW y \in Int, Congruent(x, y)
        PROVE  Congruent(modL(x), y)
    <2>1. modL(x) \in Int /\ Congruent(x, modL(x))
      BY RemainderIs DEF Scalars
    <2>2. Congruent(modL(x), x)
      BY <2>1, CongruenceIsAnEquivalence
    <2> QED BY <1>1, <2>1, <2>2, CongruenceIsAnEquivalence
  <1>2. \A x \in Int : Congruent(x, x)
    BY <1>0, CongruentItself
  <1>3. lagrangeAtZero(1, 2) = modL(2) /\ lagrangeAtZero(2, 3) = modL(3)
    BY InverseOfOne DEF lagrangeAtZero
  <1>4. lagrangeAtZero(1, 3) = modL(3 * Half)
    BY InverseOfTwo DEF lagrangeAtZero
  <1>5. lagrangeAtZero(2, 1) = modL(Q - 1) /\ lagrangeAtZero(3, 2) = modL(2 * (Q - 1))
    BY <1>0, InverseOfMinusOne DEF lagrangeAtZero
  <1>6. lagrangeAtZero(3, 1) = modL(Half - 1)
    BY <1>0, InverseOfMinusTwo DEF lagrangeAtZero
  <1>7. Congruent(Q - 1, -1) /\ Congruent(2 * (Q - 1), -2) /\ Congruent(Half - 1, -Half)
    <2>1. Q - 1 = -1 + 1 * Q /\ 2 * (Q - 1) = -2 + 2 * Q /\ Half - 1 = -Half + 1 * Q
      BY <1>0
    <2> QED BY <2>1 DEF Congruent
  <1>8. /\ 3 * Half \in Int /\ -Half \in Int /\ Half - 1 \in Int
        /\ Q - 1 \in Int /\ 2 * (Q - 1) \in Int
    BY <1>0
  <1> QED BY <1>1, <1>2, <1>3, <1>4, <1>5, <1>6, <1>7, <1>8

LEMMA CombinedIs ==
    ASSUME NEW i \in Holders, NEW j \in Holders, NEW P, P[i] \in Int, P[j] \in Int,
           NEW l \in Int, NEW m \in Int, lagrangeAtZero(i, j) \in Int, lagrangeAtZero(j, i) \in Int,
           Congruent(lagrangeAtZero(i, j), l), Congruent(lagrangeAtZero(j, i), m)
    PROVE  Combined(i, j, P) = modL(l * P[i] + m * P[j])
  <1> DEFINE u == lagrangeAtZero(i, j)
             v == lagrangeAtZero(j, i)
  <1> HIDE DEF u, v
  <1>1. u \in Int /\ v \in Int /\ Congruent(u, l) /\ Congruent(v, m)
    BY DEF u, v
  <1>2. Congruent(P[i], P[i]) /\ Congruent(P[j], P[j])
    BY CongruentItself
  <1>3. Congruent(u * P[i], l * P[i]) /\ Congruent(v * P[j], m * P[j])
    BY <1>1, <1>2, CongruentProducts
  <1>4. /\ u * P[i] \in Int /\ v * P[j] \in Int /\ l * P[i] \in Int /\ m * P[j] \in Int
        /\ u * P[i] + v * P[j] \in Int /\ l * P[i] + m * P[j] \in Int
    BY <1>1
  <1>5. Congruent(u * P[i] + v * P[j], l * P[i] + m * P[j])
    BY <1>3, <1>4, CongruentSums
  <1>6. modL(u * P[i] + v * P[j]) = modL(l * P[i] + m * P[j])
    BY <1>4, <1>5, CongruenceIsEquality
  <1> QED BY <1>6 DEF Combined, u, v

LEMMA CombinedPairs ==
    ASSUME NEW P, \A i \in Holders : P[i] \in Int
    PROVE  /\ Combined(1, 2, P) = modL(2 * P[1] - P[2])
           /\ Combined(1, 3, P) = modL(Half * (3 * P[1] - P[3]))
           /\ Combined(2, 3, P) = modL(3 * P[2] - 2 * P[3])
  <1>0. P[1] \in Int /\ P[2] \in Int /\ P[3] \in Int /\ Half \in Int /\ 1 \in Holders /\ 2 \in Holders /\ 3 \in Holders
    BY HalfIs DEF Holders
  <1>1. \A i, j \in Holders : i # j => lagrangeAtZero(i, j) \in Int
    <2>1. /\ invL(1) \in Int /\ invL(2) \in Int /\ invL(-1) \in Int /\ invL(-2) \in Int
      BY Order, HalfIs, InverseOfOne, InverseOfTwo, InverseOfMinusOne, InverseOfMinusTwo
    <2>2. ASSUME NEW i \in Holders, NEW j \in Holders, i # j
          PROVE  lagrangeAtZero(i, j) \in Int
      <3>1. j - i \in {1, 2, -1, -2} /\ j \in Int
        BY <2>2 DEF Holders
      <3>2. j * invL(j - i) \in Int
        BY <2>1, <3>1
      <3> QED BY <3>2, RemainderIs DEF lagrangeAtZero, Scalars
    <2> QED BY <2>2
  <1>2. Combined(1, 2, P) = modL(2 * P[1] + (-1) * P[2])
    BY <1>0, <1>1, LagrangeCoefficients, CombinedIs
  <1>3. Combined(1, 3, P) = modL((3 * Half) * P[1] + (-Half) * P[3])
    <2>1. 3 * Half \in Int /\ -Half \in Int
      BY <1>0
    <2> QED BY <1>0, <1>1, <2>1, LagrangeCoefficients, CombinedIs
  <1>4. Combined(2, 3, P) = modL(3 * P[2] + (-2) * P[3])
    BY <1>0, <1>1, LagrangeCoefficients, CombinedIs
  <1>5. /\ 2 * P[1] + (-1) * P[2] = 2 * P[1] - P[2]
        /\ 3 * P[2] + (-2) * P[3] = 3 * P[2] - 2 * P[3]
    BY <1>0
  <1>6. (3 * Half) * P[1] + (-Half) * P[3] = Half * (3 * P[1] - P[3])
    BY <1>0
  <1> QED BY <1>2, <1>3, <1>4, <1>5, <1>6

\* The constructor's two equations say of any keys what interpolation by any two keyholders says.
LEMMA EquationsAreInterpolation ==
    ASSUME NEW pk \in Scalars, NEW P, \A i \in Holders : P[i] \in Int
    PROVE  (\A p \in Pairs : Combined(p[1], p[2], P) = pk)
           <=> modL(2 * P[1] - P[2]) = pk /\ modL(3 * P[1] - P[3]) = modL(2 * pk)
  <1> DEFINE x == 2 * P[1] - P[2]
             y == 3 * P[1] - P[3]
             z == 3 * P[2] - 2 * P[3]
  <1>0. /\ P[1] \in Int /\ P[2] \in Int /\ P[3] \in Int /\ pk \in Int
        /\ Half \in Int /\ Q \in Int /\ Q = 2 * Half - 1
    BY Order, HalfIs DEF Holders, Scalars
  <1>1. x \in Int /\ y \in Int /\ z \in Int /\ z = 2 * y - 3 * x
    BY <1>0
  <1>2. (\A p \in Pairs : Combined(p[1], p[2], P) = pk)
        <=> modL(x) = pk /\ modL(Half * y) = pk /\ modL(z) = pk
    BY CombinedPairs DEF Pairs
  <1> HIDE DEF x, y, z
  <1>3. \A u \in Int : modL(u) = pk <=> Congruent(u, pk)
    <2>1. modL(pk) = pk
      BY <1>0, RemainderOf, CongruentItself
    <2> QED BY <1>0, <2>1, CongruenceIsEquality
  <1>4. modL(y) = modL(2 * pk) <=> Congruent(y, 2 * pk)
    BY <1>0, <1>1, CongruenceIsEquality
  <1>5. Half * y \in Int
    BY <1>0, <1>1
  <1>6. ASSUME Congruent(x, pk), Congruent(y, 2 * pk)
        PROVE  Congruent(Half * y, pk) /\ Congruent(z, pk)
    <2>1. PICK a \in Int, b \in Int : x = pk + a * Q /\ y = 2 * pk + b * Q
      BY <1>6 DEF Congruent
    <2>2. z = pk + (2 * b - 3 * a) * Q /\ 2 * b - 3 * a \in Int
      BY <1>0, <1>1, <2>1
    <2>3. Half * y = pk + (pk + Half * b) * Q /\ pk + Half * b \in Int
      <3>1. Half * y = (2 * Half) * pk + (Half * b) * Q
        BY <1>0, <2>1
      <3>2. (2 * Half) * pk = pk + pk * Q
        BY <1>0
      <3>3. (pk + Half * b) * Q = pk * Q + (Half * b) * Q
        BY <1>0
      <3> QED BY <1>0, <3>1, <3>2, <3>3
    <2> QED BY <2>2, <2>3 DEF Congruent
  <1>7. ASSUME Congruent(Half * y, pk)
        PROVE  Congruent(y, 2 * pk)
    <2>1. PICK a \in Int : Half * y = pk + a * Q
      BY <1>7 DEF Congruent
    <2>2. y = 2 * (Half * y) - y * Q
      <3>1. 2 * (Half * y) = (2 * Half) * y
        BY <1>0, <1>1
      <3>2. (2 * Half) * y = y + y * Q
        BY <1>0, <1>1
      <3> QED BY <1>0, <1>1, <3>1, <3>2
    <2>3. y = 2 * pk + (2 * a - y) * Q /\ 2 * a - y \in Int
      <3>1. (2 * a - y) * Q = 2 * (a * Q) - y * Q
        BY <1>0, <1>1
      <3> QED BY <1>0, <1>1, <2>1, <2>2, <3>1
    <2> QED BY <2>3 DEF Congruent
  <1>8. (\A p \in Pairs : Combined(p[1], p[2], P) = pk) <=> modL(x) = pk /\ modL(y) = modL(2 * pk)
    BY <1>1, <1>2, <1>3, <1>4, <1>5, <1>6, <1>7
  <1> QED BY <1>8 DEF x, y

-----------------------------------------------------------------------------
(* The ceremony.                                                           *)

LEMMA LagrangeIsInt == \A p \in Pairs : lagrangeAtZero(p[1], p[2]) \in Int /\ lagrangeAtZero(p[2], p[1]) \in Int
  <1>1. /\ invL(1) \in Int /\ invL(2) \in Int /\ invL(-1) \in Int /\ invL(-2) \in Int
    BY Order, HalfIs, InverseOfOne, InverseOfTwo, InverseOfMinusOne, InverseOfMinusTwo
  <1>2. ASSUME NEW p \in Pairs
        PROVE  p[1] * invL(p[1] - p[2]) \in Int /\ p[2] * invL(p[2] - p[1]) \in Int
    BY <1>1 DEF Pairs
  <1> QED BY <1>2, RemainderIs DEF lagrangeAtZero, Scalars

\* Shares of one polynomial interpolate to its secret.
LEMMA SharesInterpolate ==
    ASSUME NEW secret \in Int, NEW a1 \in Int
    PROVE  /\ splitSecret(secret, a1) \in [Holders -> Scalars]
           /\ \A p \in Pairs : Combined(p[1], p[2], splitSecret(secret, a1)) = modL(secret)
           /\ \A i \in Holders : modL(splitSecret(secret, a1)[i]) = splitSecret(secret, a1)[i]
  <1> DEFINE f(i) == secret + a1 * i
             P == splitSecret(secret, a1)
             pk == modL(secret)
  <1>1. \A i \in Holders : f(i) \in Int /\ P[i] = modL(f(i))
    BY DEF splitSecret, Holders
  <1>2. P \in [Holders -> Scalars] /\ pk \in Scalars
    <2>1. \A i \in Holders : modL(secret + a1 * i) \in Scalars
      BY <1>1, RemainderIs
    <2> QED BY <2>1, RemainderIs DEF splitSecret
  <1>3. \A i \in Holders : P[i] \in Int /\ Congruent(P[i], f(i))
    <2>1. ASSUME NEW i \in Holders
          PROVE  P[i] \in Int /\ Congruent(P[i], f(i))
      <3>1. f(i) \in Int /\ P[i] \in Int /\ Congruent(f(i), P[i])
        BY <1>1, RemainderIs DEF Scalars
      <3> HIDE DEF f, P
      <3> QED BY <3>1, CongruenceIsAnEquivalence
    <2> QED BY <2>1
  <1>4. pk \in Int /\ Congruent(pk, secret) /\ Congruent(secret, pk)
    <2>1. pk \in Int /\ Congruent(secret, pk)
      BY RemainderIs DEF Scalars
    <2> QED BY <2>1, CongruenceIsAnEquivalence
  <1>5. PICK a \in Int, b \in Int, c \in Int, d \in Int :
            P[1] = f(1) + a * Q /\ P[2] = f(2) + b * Q /\ P[3] = f(3) + c * Q /\ secret = pk + d * Q
    BY <1>3, <1>4 DEF Congruent, Holders
  <1>6. Q \in Int /\ P[1] \in Int /\ P[2] \in Int /\ P[3] \in Int
    BY <1>3, Order DEF Holders
  <1> HIDE DEF P, pk
  <1>7. 2 * P[1] - P[2] = pk + (2 * a - b + d) * Q
    BY <1>4, <1>5, <1>6
  <1>8. 3 * P[1] - P[3] = 2 * pk + (3 * a - c + 2 * d) * Q
    BY <1>4, <1>5, <1>6
  <1>9. Congruent(2 * P[1] - P[2], pk) /\ Congruent(3 * P[1] - P[3], 2 * pk)
    BY <1>7, <1>8 DEF Congruent
  <1>10. modL(2 * P[1] - P[2]) = pk /\ modL(3 * P[1] - P[3]) = modL(2 * pk)
    BY <1>2, <1>4, <1>6, <1>9, RemainderOf, CongruenceIsEquality
  <1>11. \A p \in Pairs : Combined(p[1], p[2], P) = pk
    BY <1>2, <1>3, <1>10, EquationsAreInterpolation
  <1>12. \A i \in Holders : modL(P[i]) = P[i]
    <2>1. \A i \in Holders : P[i] \in Scalars /\ P[i] \in Int
      BY <1>2, <1>3
    <2> QED BY <2>1, RemainderOf, CongruentItself
  <1> QED BY <1>2, <1>11, <1>12 DEF P, pk

\* keys.ts:79-98: whatever is drawn, the ceremony's own check of what it dealt passes.
THEOREM DealsPassTheirCheck ==
    \A s, a1, a \in Scalars : checkCeremony(Deal(s, a1, a))
  <1>1. ASSUME NEW s \in Scalars, NEW a1 \in Scalars, NEW a \in Scalars
        PROVE  checkCeremony(Deal(s, a1, a))
    <2>1. s \in Int /\ a1 \in Int
      BY DEF Scalars
    <2>2. /\ \A p \in Pairs : Combined(p[1], p[2], splitSecret(s, a1)) = modL(s)
          /\ \A i \in Holders : modL(splitSecret(s, a1)[i]) = splitSecret(s, a1)[i]
      BY <2>1, SharesInterpolate
    <2> QED BY <2>2 DEF checkCeremony, Deal
  <1> QED BY <1>1

LEMMA DealFields ==
    \A d \in Deals :
        /\ d.pk \in Scalars /\ d.apk \in Scalars /\ d.pks \in [Holders -> Scalars] /\ d.shares = d.pks
        /\ \A i \in Holders : modL(d.shares[i]) = d.pks[i]
  <1>1. ASSUME NEW d \in Deals
        PROVE  /\ d.pk \in Scalars /\ d.apk \in Scalars /\ d.pks \in [Holders -> Scalars]
               /\ d.shares = d.pks /\ \A i \in Holders : modL(d.shares[i]) = d.pks[i]
    <2>1. PICK s \in Draws, a1 \in Draws, a \in Draws : d = Deal(s, a1, a)
      BY DEF Deals
    <2>2. s \in Int /\ a1 \in Int /\ a \in Int
      BY Order, KeyCeremonyAssumption DEF KeyCeremonyAssumption
    <2>3. modL(s) \in Scalars /\ modL(a) \in Scalars /\ splitSecret(s, a1) \in [Holders -> Scalars]
      BY <2>2, RemainderIs, SharesInterpolate
    <2>4. checkCeremony(d)
      BY DEF Deals
    <2> QED BY <2>1, <2>3, <2>4 DEF Deal, checkCeremony
  <1> QED BY <1>1

LEMMA PublishedType == \A d \in Deals : Published(d) \in Configs
  BY DealFields DEF Published, Configs

-----------------------------------------------------------------------------
(* The inductive invariant.                                                *)

\* What a page or a process took from the file was on it.
CopiesWereOnFile ==
    /\ file \in kept \cup {NoFile} /\ cliDeploy \subseteq kept
    /\ \A t \in Tabs :
        tab[t].keys \in kept \cup {NoFile} /\ tab[t].read \in kept \cup {NoFile}
        /\ tab[t].first \in kept \cup {NoFile}

\* What is sealed is what the constructor accepted of what was tried, and was dealt by whom it says.
SealedIsAccepted ==
    /\ \A r \in sealed : Constructor(r.config) /\ r.config \in tried
    /\ \A r \in sealed : r.from # NoFile => r.config = Published(r.from)
    /\ \A c \in tried : Constructor(c) => \E r \in sealed : r.config = c

CeremonyInv == TypeOK /\ CopiesWereOnFile /\ SealedIsAccepted /\ SealedKeysWereOnFile

LEMMA InitKeys == Init => CeremonyInv
  <1> SUFFICES ASSUME Init PROVE CeremonyInv
    OBVIOUS
  <1> USE DEF Init
  <1>1. Opened \in Tab
    BY DEF Opened, Tab, Files
  <1>2. TypeOK
    BY <1>1, KeyCeremonyAssumption DEF TypeOK, Files, Post, KeyCeremonyAssumption
  <1>3. CopiesWereOnFile
    BY DEF CopiesWereOnFile, Opened
  <1>4. SealedIsAccepted /\ SealedKeysWereOnFile
    BY DEF SealedIsAccepted, SealedKeysWereOnFile
  <1> QED BY <1>2, <1>3, <1>4 DEF CeremonyInv

\* A page's fields, one by one.
LEMMA TabFields ==
    ASSUME NEW u \in Tab, NEW d \in Files, NEW op \in {"idle", "posting", "refreshing", "applying"},
           NEW m \in {"asked", "read", "done"}
    PROVE  /\ [u EXCEPT !.op = op] \in Tab
           /\ [u EXCEPT !.op = op, !.read = d] \in Tab
           /\ [u EXCEPT !.op = op, !.keys = u.read, !.read = d] \in Tab
           /\ [u EXCEPT !.mount = m, !.first = d] \in Tab
           /\ [u EXCEPT !.mount = m, !.keys = u.first, !.first = d] \in Tab
  BY DEF Tab

LEMMA StepType == TypeOK /\ [Next]_vars => TypeOK'
  <1> SUFFICES ASSUME TypeOK, [Next]_vars PROVE TypeOK'
    OBVIOUS
  <1> USE DEF TypeOK
  <1>0. NoFile \in Files /\ Deals \subseteq Files /\ MaxCeremonies \in Nat /\ MaxFailures \in Nat
    BY KeyCeremonyAssumption DEF Files, KeyCeremonyAssumption
  <1>1. CASE UNCHANGED vars
    BY <1>1 DEF vars
  <1>2. ASSUME NEW t \in Tabs, MountReads(t) PROVE TypeOK'
    BY <1>2, TabFields DEF MountReads
  <1>3. ASSUME NEW t \in Tabs, MountApplies(t) PROVE TypeOK'
    BY <1>0, <1>3, TabFields DEF MountApplies
  <1>4. ASSUME NEW t \in Tabs, PressCeremony(t) PROVE TypeOK'
    <2>1. PICK d \in Deals :
            /\ posts' = posts \cup {[by |-> t, keys |-> d, force |-> tab[t].keys # NoFile, checked |-> FALSE]}
            /\ tab' = [tab EXCEPT ![t] = Posting(tab[t], d)]
      BY <1>4 DEF PressCeremony
    <2>2. [by |-> t, keys |-> d, force |-> tab[t].keys # NoFile, checked |-> FALSE] \in Post
      BY DEF Post
    <2>3. Posting(tab[t], d) \in Tab
      BY <1>0, TabFields DEF Posting
    <2>4. dealt' \in 0..MaxCeremonies
      BY <1>0, <1>4 DEF PressCeremony
    <2> QED BY <1>4, <2>1, <2>2, <2>3, <2>4 DEF PressCeremony
  <1>5. ASSUME NEW t \in Tabs, PressRecheck(t) PROVE TypeOK'
    BY <1>0, <1>5, TabFields DEF PressRecheck
  <1>6. ASSUME NEW t \in Tabs, RefreshReads(t) PROVE TypeOK'
    BY <1>0, <1>6, TabFields DEF RefreshReads
  <1>7. ASSUME NEW t \in Tabs, RefreshApplies(t) PROVE TypeOK'
    BY <1>0, <1>7, TabFields DEF RefreshApplies
  <1>8. ASSUME NEW t \in Tabs, Fails(t) PROVE TypeOK'
    <2>1. failures' \in 0..MaxFailures
      BY <1>0, <1>8 DEF Fails
    <2> QED BY <1>0, <1>8, <2>1, TabFields DEF Fails
  <1>9. ASSUME NEW d \in Deals, Constructed(d)
        PROVE  tried' \subseteq Configs /\ sealed' \subseteq [config : Configs, from : Files]
    BY <1>0, <1>9, PublishedType DEF Constructed
  <1>10. ASSUME NEW t \in Tabs, Deploy(t) PROVE TypeOK'
    <2>1. tab[t].keys \in Deals
      BY <1>10 DEF Deploy, Tab, Files
    <2> QED BY <1>9, <1>10, <2>1 DEF Deploy
  <1>11. ASSUME NEW p \in posts, ServerChecks(p) PROVE TypeOK'
    <2>1. [p EXCEPT !.checked = TRUE] \in Post /\ p.by \in Tabs
      BY DEF Post
    <2>2. [tab EXCEPT ![p.by].op = "idle"] \in [Tabs -> Tab]
      BY <1>0, <2>1, TabFields
    <2> QED BY <1>11, <2>1, <2>2 DEF ServerChecks
  <1>12. ASSUME NEW p \in posts, ServerWrites(p) PROVE TypeOK'
    <2>1. p.keys \in Deals /\ p.by \in Tabs
      BY DEF Post
    <2>2. [tab EXCEPT ![p.by].op = "refreshing"] \in [Tabs -> Tab]
      BY <1>0, <2>1, TabFields
    <2> QED BY <1>0, <1>12, <2>1, <2>2 DEF ServerWrites
  <1>13. CASE CliChecks
    <2>1. dealt' \in 0..MaxCeremonies
      BY <1>0, <1>13 DEF CliChecks
    <2> QED BY <1>13, <2>1 DEF CliChecks
  <1>14. CASE CliWrites
    BY <1>0, <1>14 DEF CliWrites
  <1>15. CASE CliOpensWallet
    BY <1>15 DEF CliOpensWallet, Files
  <1>16. CASE CliDeploys
    <2>1. PICK d \in cliDeploy : Constructed(d)
      BY <1>16 DEF CliDeploys
    <2> QED BY <1>9, <1>16, <2>1 DEF CliDeploys
  <1>17. CASE CliDeployEnds
    BY <1>17 DEF CliDeployEnds
  <1>18. CASE DeployElsewhere
    BY <1>0, <1>18 DEF DeployElsewhere
  <1> QED
    BY <1>1, <1>2, <1>3, <1>4, <1>5, <1>6, <1>7, <1>8, <1>10, <1>11, <1>12, <1>13, <1>14, <1>15, <1>16,
       <1>17, <1>18 DEF Next

LEMMA CopiesStep == TypeOK /\ CopiesWereOnFile /\ [Next]_vars => CopiesWereOnFile'
  <1> SUFFICES ASSUME TypeOK, CopiesWereOnFile, [Next]_vars PROVE CopiesWereOnFile'
    OBVIOUS
  <1>0. tab \in [Tabs -> Tab] /\ \A u \in Tab : u = [keys |-> u.keys, op |-> u.op, read |-> u.read,
                                                   mount |-> u.mount, first |-> u.first]
    BY DEF TypeOK, Tab
  <1>1. /\ file \in kept \cup {NoFile} /\ cliDeploy \subseteq kept
        /\ \A t \in Tabs : tab[t].keys \in kept \cup {NoFile} /\ tab[t].read \in kept \cup {NoFile}
                          /\ tab[t].first \in kept \cup {NoFile}
    BY DEF CopiesWereOnFile
  <1>2. ASSUME NEW t \in Tabs, MountReads(t) PROVE CopiesWereOnFile'
    BY <1>0, <1>1, <1>2 DEF MountReads, CopiesWereOnFile
  <1>3. ASSUME NEW t \in Tabs, MountApplies(t) PROVE CopiesWereOnFile'
    BY <1>0, <1>1, <1>3 DEF MountApplies, CopiesWereOnFile
  <1>4. ASSUME NEW t \in Tabs, PressCeremony(t) PROVE CopiesWereOnFile'
    BY <1>0, <1>1, <1>4 DEF PressCeremony, Posting, CopiesWereOnFile
  <1>5. ASSUME NEW t \in Tabs, PressRecheck(t) PROVE CopiesWereOnFile'
    BY <1>0, <1>1, <1>5 DEF PressRecheck, CopiesWereOnFile
  <1>6. ASSUME NEW t \in Tabs, RefreshReads(t) PROVE CopiesWereOnFile'
    BY <1>0, <1>1, <1>6 DEF RefreshReads, CopiesWereOnFile
  <1>7. ASSUME NEW t \in Tabs, RefreshApplies(t) PROVE CopiesWereOnFile'
    BY <1>0, <1>1, <1>7 DEF RefreshApplies, CopiesWereOnFile
  <1>8. ASSUME NEW t \in Tabs, Fails(t) PROVE CopiesWereOnFile'
    BY <1>0, <1>1, <1>8 DEF Fails, CopiesWereOnFile
  <1>9. ASSUME NEW p \in posts, ServerChecks(p) PROVE CopiesWereOnFile'
    BY <1>0, <1>1, <1>9 DEF ServerChecks, CopiesWereOnFile
  <1>10. ASSUME NEW p \in posts, ServerWrites(p) PROVE CopiesWereOnFile'
    BY <1>0, <1>1, <1>10 DEF ServerWrites, CopiesWereOnFile
  <1>11. CASE CliWrites
    BY <1>1, <1>11 DEF CliWrites, CopiesWereOnFile
  <1>12. CASE CliOpensWallet
    BY <1>1, <1>12 DEF CliOpensWallet, CopiesWereOnFile
  <1>13. CASE CliDeploys \/ CliDeployEnds
    BY <1>1, <1>13 DEF CliDeploys, CliDeployEnds, CopiesWereOnFile
  <1>14. CASE UNCHANGED <<file, cliDeploy, tab, kept>>
    BY <1>1, <1>14 DEF CopiesWereOnFile
  <1> QED
    BY <1>2, <1>3, <1>4, <1>5, <1>6, <1>7, <1>8, <1>9, <1>10, <1>11, <1>12, <1>13, <1>14
    DEF Next, vars, Deploy, CliChecks, DeployElsewhere

LEMMA SealingStep ==
    TypeOK /\ CopiesWereOnFile /\ SealedIsAccepted /\ SealedKeysWereOnFile /\ [Next]_vars
        => SealedIsAccepted' /\ SealedKeysWereOnFile'
  <1> SUFFICES ASSUME TypeOK, CopiesWereOnFile, SealedIsAccepted, SealedKeysWereOnFile, [Next]_vars
               PROVE  SealedIsAccepted' /\ SealedKeysWereOnFile'
    OBVIOUS
  <1>1. ASSUME NEW d \in kept, Constructed(d), UNCHANGED kept
        PROVE  SealedIsAccepted' /\ SealedKeysWereOnFile'
    <2>1. tried' = {Published(d)}
          /\ sealed' = {[config |-> c, from |-> d] : c \in {k \in tried' : Constructor(k)}}
      BY <1>1 DEF Constructed
    <2>2. \A r \in sealed' : r.config \in tried' /\ Constructor(r.config) /\ r.from = d
      BY <2>1
    <2>3. ASSUME NEW c \in tried', Constructor(c)
          PROVE  \E r \in sealed' : r.config = c
      <3>1. [config |-> c, from |-> d] \in sealed'
        BY <2>1, <2>3
      <3> QED BY <3>1
    <2> QED BY <1>1, <2>1, <2>2, <2>3 DEF SealedIsAccepted, SealedKeysWereOnFile
  <1>2. ASSUME NEW t \in Tabs, Deploy(t)
        PROVE  SealedIsAccepted' /\ SealedKeysWereOnFile'
    BY <1>1, <1>2 DEF Deploy, CopiesWereOnFile
  <1>3. CASE CliDeploys
    BY <1>1, <1>3 DEF CliDeploys, CopiesWereOnFile
  <1>4. CASE DeployElsewhere
    <2>1. PICK c \in Configs :
            /\ tried' = {c}
            /\ sealed' = {[config |-> k, from |-> NoFile] : k \in {k \in {c} : Constructor(k)}}
      BY <1>4 DEF DeployElsewhere
    <2>2. \A r \in sealed' : r.config \in tried' /\ Constructor(r.config) /\ r.from = NoFile
      BY <2>1
    <2>3. ASSUME Constructor(c)
          PROVE  \E r \in sealed' : r.config = c
      <3>1. [config |-> c, from |-> NoFile] \in sealed'
        BY <2>1, <2>3
      <3> QED BY <3>1
    <2> QED BY <2>1, <2>2, <2>3 DEF SealedIsAccepted, SealedKeysWereOnFile
  <1>5. CASE UNCHANGED <<tried, sealed>> /\ kept \subseteq kept'
    BY <1>5 DEF SealedIsAccepted, SealedKeysWereOnFile
  <1> QED
    BY <1>2, <1>3, <1>4, <1>5
    DEF Next, vars, MountReads, MountApplies, PressCeremony, PressRecheck, RefreshReads, RefreshApplies,
        Fails, ServerChecks, ServerWrites, CliChecks, CliWrites, CliOpensWallet, CliDeployEnds

LEMMA CeremonyInvariant == Spec => []CeremonyInv
  <1>1. CeremonyInv /\ [Next]_vars => CeremonyInv'
    BY StepType, CopiesStep, SealingStep DEF CeremonyInv
  <1> QED BY <1>1, InitKeys, PTL DEF Spec

\* The file, the pages' copies, the requests and the configurations keep their shape.
THEOREM CeremonyTyping == Spec => []TypeOK
  <1>1. CeremonyInv => TypeOK
    BY DEF CeremonyInv
  <1> QED BY <1>1, CeremonyInvariant, PTL

\* Whichever page or process deploys, with whatever stale copy of the keys, what it seals was once
\* on the file.
THEOREM KeysWereOnFile == Spec => []SealedKeysWereOnFile
  <1>1. CeremonyInv => SealedKeysWereOnFile
    BY DEF CeremonyInv
  <1> QED BY <1>1, CeremonyInvariant, PTL

-----------------------------------------------------------------------------
(* What a sealed configuration opens.                                      *)

LEMMA ConfigFields ==
    \A c \in Configs : c.pk \in Scalars /\ c.pk \in Int /\ c.pks \in [Holders -> Scalars]
                      /\ \A i \in Holders : c.pks[i] \in Int
  BY DEF Configs, Scalars

LEMMA ConstructorInterpolates ==
    \A c \in Configs : Constructor(c) <=> verifyRegistryConfig(c)
  <1>1. ASSUME NEW c \in Configs
        PROVE  Constructor(c) <=> verifyRegistryConfig(c)
    <2>1. (\A p \in Pairs : Combined(p[1], p[2], c.pks) = c.pk)
          <=> modL(2 * c.pks[1] - c.pks[2]) = c.pk /\ modL(3 * c.pks[1] - c.pks[3]) = modL(2 * c.pk)
      BY ConfigFields, EquationsAreInterpolation
    <2> QED BY <2>1 DEF Constructor, verifyRegistryConfig
  <1> QED BY <1>1

\* The constructor's two equations are enough: for a group of any odd order, any two of the three
\* keyholders of an accepted configuration interpolate to the disclosure key, which is nobody's own.
THEOREM AnyTwoOpen == Spec => []TwoOfThreeOpen
  <1>1. ASSUME CeremonyInv PROVE TwoOfThreeOpen
    <2>1. ASSUME NEW r \in sealed
          PROVE  /\ \A p \in Pairs : Combined(p[1], p[2], r.config.pks) = r.config.pk
                 /\ r.config.pk \notin {0, r.config.apk} \cup ToSet(r.config.pks)
      <3>1. Constructor(r.config) /\ r.config \in Configs
        BY <1>1 DEF CeremonyInv, SealedIsAccepted, TypeOK
      <3>2. \A p \in Pairs : Combined(p[1], p[2], r.config.pks) = r.config.pk
        BY <3>1, ConstructorInterpolates DEF verifyRegistryConfig
      <3>3. ToSet(r.config.pks) = {r.config.pks[i] : i \in Holders}
        BY <3>1, ConfigFields DEF ToSet
      <3>4. r.config.pk \notin {0, r.config.apk} \cup ToSet(r.config.pks)
        BY <3>1, <3>3 DEF Constructor
      <3> QED BY <3>2, <3>4
    <2> QED BY <2>1 DEF TwoOfThreeOpen
  <1> QED BY <1>1, CeremonyInvariant, PTL

\* Everybody's audit of a registry by interpolation finds fault with exactly the configurations the
\* constructor's equations refuse.
THEOREM AuditIsTheConstructors == Spec => []AuditAgreesWithConstructor
  <1>1. ASSUME CeremonyInv PROVE AuditAgreesWithConstructor
    <2>1. tried \subseteq Configs /\ SealedIsAccepted
      BY <1>1 DEF CeremonyInv, TypeOK
    <2>2. \A c \in tried : Constructor(c) <=> \E r \in sealed : r.config = c
      BY <2>1 DEF SealedIsAccepted
    <2>3. \A c \in tried : Constructor(c) <=> verifyRegistryConfig(c)
      BY <2>1, ConstructorInterpolates
    <2> QED BY <2>2, <2>3 DEF AuditAgreesWithConstructor
  <1> QED BY <1>1, CeremonyInvariant, PTL

\* Two keyholders whose scalars have the sealed keys combine their shares of any e to the secret.
LEMMA SharesCombine ==
    ASSUME NEW c \in Configs, Constructor(c), NEW s \in [Holders -> Scalars], NEW e \in Scalars,
           NEW p \in Pairs, \A i \in {p[1], p[2]} : Approves(c, i, s[i])
    PROVE  Combined(p[1], p[2], [i \in Holders |-> modL(s[i] * e)]) = modL(c.pk * e)
  <1> DEFINE i == p[1]
             j == p[2]
             P == [k \in Holders |-> modL(s[k] * e)]
             u == lagrangeAtZero(i, j)
             v == lagrangeAtZero(j, i)
             a == c.pks[i]
             b == c.pks[j]
  <1>1. i \in Holders /\ j \in Holders
    BY DEF Pairs, Holders
  <1>2. u \in Int /\ v \in Int
    BY LagrangeIsInt
  <1>3. a \in Int /\ b \in Int /\ c.pk \in Int /\ e \in Int /\ s[i] \in Int /\ s[j] \in Int
    BY <1>1, ConfigFields DEF Scalars
  <1>4. Combined(i, j, P) = modL(u * P[i] + v * P[j])
    BY DEF Combined
  <1>5. modL(u * a + v * b) = c.pk
    BY ConstructorInterpolates DEF verifyRegistryConfig, Combined
  <1>6. P[i] = modL(s[i] * e) /\ P[j] = modL(s[j] * e) /\ modL(s[i]) = a /\ modL(s[j]) = b
    BY <1>1 DEF Approves
  <1> HIDE DEF P, u, v, a, b, i, j
  <1>7. ASSUME NEW x \in Int
        PROVE  modL(x) \in Int /\ Congruent(x, modL(x)) /\ Congruent(modL(x), x)
    <2>1. modL(x) \in Int /\ Congruent(x, modL(x))
      BY RemainderIs DEF Scalars
    <2> QED BY <2>1, CongruenceIsAnEquivalence
  <1>8. ASSUME NEW x \in Int, NEW y \in Int, modL(x) = y
        PROVE  modL(x * e) \in Int /\ Congruent(modL(x * e), y * e)
    <2>1. Congruent(x, y) /\ Congruent(e, e) /\ x * e \in Int /\ y * e \in Int
      BY <1>3, <1>7, <1>8, CongruentItself
    <2>2. Congruent(x * e, y * e)
      BY <1>3, <2>1, CongruentProducts
    <2>3. modL(x * e) \in Int /\ Congruent(modL(x * e), x * e)
      BY <1>7, <2>1
    <2> QED BY <2>1, <2>2, <2>3, CongruenceIsAnEquivalence
  <1>9. P[i] \in Int /\ P[j] \in Int /\ Congruent(P[i], a * e) /\ Congruent(P[j], b * e)
    BY <1>3, <1>6, <1>8
  <1>10. a * e \in Int /\ b * e \in Int /\ Congruent(u, u) /\ Congruent(v, v)
    BY <1>2, <1>3, CongruentItself
  <1>11. Congruent(u * P[i], u * (a * e)) /\ Congruent(v * P[j], v * (b * e))
    BY <1>2, <1>9, <1>10, CongruentProducts
  <1>12. /\ u * P[i] \in Int /\ v * P[j] \in Int /\ u * (a * e) \in Int /\ v * (b * e) \in Int
         /\ u * P[i] + v * P[j] \in Int /\ u * a + v * b \in Int /\ (u * a + v * b) * e \in Int
         /\ c.pk * e \in Int
    BY <1>2, <1>3, <1>9, <1>10
  <1>13. u * (a * e) + v * (b * e) = (u * a + v * b) * e
    BY <1>2, <1>3
  <1>14. Congruent(u * P[i] + v * P[j], (u * a + v * b) * e)
    BY <1>11, <1>12, <1>13, CongruentSums
  <1>15. Congruent((u * a + v * b) * e, c.pk * e)
    BY <1>3, <1>5, <1>7, <1>12, CongruentItself, CongruentProducts
  <1>16. Congruent(u * P[i] + v * P[j], c.pk * e)
    BY <1>12, <1>14, <1>15, CongruenceIsAnEquivalence
  <1>17. modL(u * P[i] + v * P[j]) = modL(c.pk * e)
    BY <1>12, <1>16, CongruenceIsEquality
  <1> QED BY <1>4, <1>17 DEF i, j, P

\* A registry sealed with dealt keys is opened by them, and by whatever other keys this machine
\* comes to hold whose approvals it accepts.
THEOREM DealtKeysOpenTheirs == Spec => []DealtKeysOpen
  <1>1. ASSUME CeremonyInv PROVE DealtKeysOpen
    <2>1. ASSUME NEW r \in sealed, r.from # NoFile
          PROVE  /\ \A i \in Holders : Approves(r.config, i, keysFromFile(r.from)[i])
                 /\ \A held \in {file} \cup {tab[t].keys : t \in Tabs} : held # NoFile =>
                      \A p \in Pairs : \A e \in Scalars :
                          LET s == keysFromFile(held) IN
                          (\A i \in {p[1], p[2]} : Approves(r.config, i, s[i])) =>
                              Combined(p[1], p[2], [i \in Holders |-> modL(s[i] * e)]) = modL(r.config.pk * e)
      <3>1. r.config \in Configs /\ Constructor(r.config) /\ r.config = Published(r.from) /\ r.from \in Deals
        BY <1>1, <2>1 DEF CeremonyInv, SealedIsAccepted, TypeOK, Files
      <3>2. \A i \in Holders : Approves(r.config, i, keysFromFile(r.from)[i])
        BY <3>1, DealFields DEF Approves, keysFromFile, Published
      <3>3. \A held \in {file} \cup {tab[t].keys : t \in Tabs} : held # NoFile => held \in Deals
        BY <1>1 DEF CeremonyInv, TypeOK, Tab, Files
      <3>4. ASSUME NEW held \in Deals, NEW p \in Pairs, NEW e \in Scalars,
                   \A i \in {p[1], p[2]} : Approves(r.config, i, keysFromFile(held)[i])
            PROVE  Combined(p[1], p[2], [i \in Holders |-> modL(keysFromFile(held)[i] * e)])
                       = modL(r.config.pk * e)
        <4>1. keysFromFile(held) \in [Holders -> Scalars]
          BY DealFields DEF keysFromFile
        <4> QED BY <3>1, <3>4, <4>1, SharesCombine
      <3> QED BY <3>2, <3>3, <3>4
    <2> QED BY <2>1 DEF DealtKeysOpen
  <1> QED BY <1>1, CeremonyInvariant, PTL
=============================================================================
