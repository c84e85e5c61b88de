--------------------------- MODULE AwardPoolProofs ---------------------------
(***************************************************************************)
(* Proofs about assembleLotteryStrategyWithAwards: how the indexes of a     *)
(* raffle pool are shared out among any finite set of awards.  The sums     *)
(* are folds over sets, so the argument is by induction over the number of  *)
(* awards that are summed; induction is stated with sets, not predicates.   *)
(***************************************************************************)
EXTENDS AwardPool, FiniteSetTheorems, WellFoundedInduction, TLAPS

-----------------------------------------------------------------------------
(* Numbers *)

(* A non-empty set of naturals has a least element. *)
LEMMA LeastExists ==
    ASSUME NEW S \in SUBSET Nat, S # {}
    PROVE  \E x \in S : \A y \in S : x <= y
<1>1. \E x \in S : \A y \in S : <<y, x>> \notin OpToRel(<, Nat)
      BY NatLessThanWellFounded, WFMin
<1>2. PICK x \in S : \A y \in S : <<y, x>> \notin OpToRel(<, Nat)
      BY <1>1
<1>3. \A y \in S : ~(y < x)
      BY <1>2 DEF OpToRel
<1>4. QED BY <1>3

(* And a bounded one a greatest. *)
LEMMA GreatestExists ==
    ASSUME NEW S \in SUBSET Nat, S # {}, NEW n \in Nat, \A x \in S : x <= n
    PROVE  \E x \in S : \A y \in S : y <= x
<1>1. PICK D : D = {k \in Nat : \E x \in S : k = n - x}
      OBVIOUS
<1>2. D \in SUBSET Nat /\ D # {}
  <2>1. PICK x \in S : TRUE
        OBVIOUS
  <2>2. n - x \in Nat
        OBVIOUS
  <2>3. n - x \in D
        BY <1>1, <2>2
  <2>4. QED BY <1>1, <2>3
<1>3. PICK d \in D : \A e \in D : d <= e
      BY <1>2, LeastExists
<1>4. PICK x \in S : d = n - x
      BY <1>1
<1>5. ASSUME NEW y \in S PROVE y <= x
  <2>1. n - y \in Nat /\ n - y \in D
        BY <1>1
  <2>2. d <= n - y
        BY <1>3, <2>1
  <2>3. QED BY <1>4, <2>2
<1>6. QED BY <1>5

(* Division with remainder. *)
LEMMA Division ==
    ASSUME NEW a \in Nat, NEW b \in Nat \ {0}
    PROVE  /\ a \div b \in Nat /\ a % b \in 0..(b - 1)
           /\ a = b * (a \div b) + (a % b)
OBVIOUS

(* The quotient is the only one. *)
LEMMA QuotientUnique ==
    ASSUME NEW b \in Nat \ {0}, NEW q \in Nat, NEW r \in 0..(b - 1)
    PROVE  (b * q + r) \div b = q
OBVIOUS

-----------------------------------------------------------------------------
(* Sums *)

(* A set of numbers with zero and every successor has all of them. *)
LEMMA SetInduction ==
    ASSUME NEW N \in SUBSET Nat, 0 \in N, \A n \in N : n + 1 \in N
    PROVE  N = Nat
<1> SUFFICES ASSUME Nat \ N # {} PROVE FALSE
    OBVIOUS
<1>1. PICK m \in Nat \ N : \A k \in Nat \ N : ~(<<k, m>> \in OpToRel(<, Nat))
      BY NatLessThanWellFounded, WFMin
<1>2. m - 1 \in Nat \ N /\ m - 1 < m
      OBVIOUS
<1>3. <<m - 1, m>> \in OpToRel(<, Nat)
      BY <1>2 DEF OpToRel
<1>4. QED BY <1>1, <1>2, <1>3

(* A sum: nothing, or the value at the element that is taken first and the    *)
(* sum of the others.                                                        *)
Sums(g, f, S) ==
    g = [s \in SUBSET S |-> IF s = {} THEN 0
                            ELSE f[CHOOSE x \in s : TRUE] + g[s \ {CHOOSE x \in s : TRUE}]]

(* The recursion of a sum over a finite set has a solution. *)
LEMMA SumsExist ==
    ASSUME NEW f, NEW S, IsFiniteSet(S)
    PROVE  \E g : Sums(g, f, S)
<1> DEFINE D(n) == {s \in SUBSET S : Cardinality(s) <= n}
           T(s) == CHOOSE x \in s : TRUE
           R(g, n) == g = [s \in D(n) |-> IF s = {} THEN 0 ELSE f[T(s)] + g[s \ {T(s)}]]
           N == {n \in Nat : \E g : R(g, n)}
<1>1. \A s \in SUBSET S : IsFiniteSet(s) /\ Cardinality(s) \in Nat /\ Cardinality(s) <= Cardinality(S)
      BY FS_Subset, FS_CardinalityType
<1>2. \A s \in SUBSET S : s # {} => T(s) \in s
      OBVIOUS
<1>3. \A s \in SUBSET S : s # {} => s \ {T(s)} \in SUBSET S /\ Cardinality(s \ {T(s)}) = Cardinality(s) - 1
      BY <1>1, <1>2, FS_RemoveElement
<1>4. \A s \in SUBSET S : Cardinality(s) <= 0 => s = {}
      BY <1>1, FS_EmptySet
<1> HIDE DEF T
<1>5. 0 \in N
  <2>1. PICK g : g = [s \in D(0) |-> 0]
        OBVIOUS
  <2>2. R(g, 0)
        BY <2>1, <1>4
  <2>3. QED BY <2>2
<1>6. ASSUME NEW n \in N PROVE n + 1 \in N
  <2>1. PICK g : R(g, n)
        OBVIOUS
  <2>2. PICK h : h = [s \in D(n + 1) |-> IF s = {} THEN 0 ELSE f[T(s)] + g[s \ {T(s)}]]
        OBVIOUS
  <2>3. n \in Nat
        OBVIOUS
  <2>4. \A u \in D(n) : u \in D(n + 1)
        BY <1>1, <2>3
  <2>5. \A u \in D(n) : g[u] = IF u = {} THEN 0 ELSE f[T(u)] + g[u \ {T(u)}]
        BY <2>1
  <2>6. \A u \in D(n) : h[u] = g[u]
        BY <2>2, <2>4, <2>5
  <2>7. \A s \in D(n + 1) : s # {} => s \ {T(s)} \in D(n)
        BY <1>1, <1>3, <2>3
  <2>8. h = [s \in D(n + 1) |-> IF s = {} THEN 0 ELSE f[T(s)] + h[s \ {T(s)}]]
    <3>1. \A s \in D(n + 1) : h[s] = IF s = {} THEN 0 ELSE f[T(s)] + h[s \ {T(s)}]
          BY <2>2, <2>6, <2>7
    <3>2. h = [s \in D(n + 1) |-> h[s]]
          BY <2>2
    <3> HIDE DEF D
    <3>3. QED BY <3>1, <3>2
  <2>9. R(h, n + 1)
        BY <2>8
  <2> HIDE DEF R
  <2>10. QED BY <2>3, <2>9
<1>7. N \in SUBSET Nat
      OBVIOUS
<1>8. Cardinality(S) \in N
  <2> HIDE DEF N
  <2>1. QED BY <1>5, <1>6, <1>7, SetInduction, FS_CardinalityType
<1>9. PICK g : R(g, Cardinality(S))
      BY <1>8
<1>10. D(Cardinality(S)) = SUBSET S
      BY <1>1
<1>11. g = [s \in SUBSET S |-> IF s = {} THEN 0 ELSE f[T(s)] + g[s \ {T(s)}]]
      BY <1>9, <1>10
<1>12. Sums(g, f, S)
      BY <1>11 DEF Sums, T
<1>13. QED BY <1>12

(* SumFunctionOnSet is a solution's value at the whole set. *)
LEMMA SumIsASum ==
    ASSUME NEW f, NEW S, IsFiniteSet(S)
    PROVE  \E g : Sums(g, f, S) /\ SumFunctionOnSet(f, S) = g[S]
<1>1. PICK c : c = CHOOSE g : Sums(g, f, S)
      OBVIOUS
<1>2. Sums(c, f, S)
      BY <1>1, SumsExist
<1>3. SumFunctionOnSet(f, S) = c[S]
      BY <1>1 DEF Sums, SumFunctionOnSet, FoldFunctionOnSet, MapThenFoldSet
<1>4. QED BY <1>2, <1>3

(* The sum of the part s and of one element less. *)
LEMMA SumStep ==
    ASSUME NEW g, NEW f, NEW S, Sums(g, f, S), NEW s \in SUBSET S
    PROVE  /\ s = {} => g[s] = 0
           /\ s # {} => LET x == CHOOSE y \in s : TRUE
                        IN  x \in s /\ g[s] = f[x] + g[s \ {x}]
<1>1. g[s] = IF s = {} THEN 0
             ELSE f[CHOOSE x \in s : TRUE] + g[s \ {CHOOSE x \in s : TRUE}]
      BY DEF Sums
<1>2. s # {} => (CHOOSE y \in s : TRUE) \in s
      OBVIOUS
<1>3. QED BY <1>1, <1>2

(* A property of parts that holds of the empty one and of a part when it      *)
(* holds of the part without the element a sum takes first.                  *)
LEMMA PartInduction ==
    ASSUME NEW S, IsFiniteSet(S), NEW Q \in SUBSET SUBSET S, {} \in Q,
           \A s \in SUBSET S : s # {} /\ s \ {CHOOSE x \in s : TRUE} \in Q => s \in Q
    PROVE  S \in Q
<1> DEFINE N == {n \in Nat : \A s \in SUBSET S : Cardinality(s) = n => s \in Q}
           T(s) == CHOOSE x \in s : TRUE
<1>1. \A s \in SUBSET S : IsFiniteSet(s) /\ Cardinality(s) \in Nat
      BY FS_Subset, FS_CardinalityType
<1>2. \A s \in SUBSET S : s # {} => T(s) \in s
      OBVIOUS
<1>3. \A s \in SUBSET S : s # {} => s \ {T(s)} \in SUBSET S /\ Cardinality(s \ {T(s)}) = Cardinality(s) - 1
      BY <1>1, <1>2, FS_RemoveElement
<1>4. \A s \in SUBSET S : Cardinality(s) = 0 <=> s = {}
      BY <1>1, FS_EmptySet
<1>5. \A s \in SUBSET S : s # {} /\ s \ {T(s)} \in Q => s \in Q
      OBVIOUS
<1> HIDE DEF T
<1>6. 0 \in N
      BY <1>4
<1>7. ASSUME NEW n \in N PROVE n + 1 \in N
  <2>1. n \in Nat /\ \A s \in SUBSET S : Cardinality(s) = n => s \in Q
        OBVIOUS
  <2>2. ASSUME NEW s \in SUBSET S, Cardinality(s) = n + 1 PROVE s \in Q
    <3>1. s # {}
          BY <1>4, <2>1, <2>2
    <3>2. s \ {T(s)} \in Q
          BY <1>3, <2>1, <2>2, <3>1
    <3>3. QED BY <1>5, <3>1, <3>2
  <2>3. QED BY <2>1, <2>2
<1>8. N \in SUBSET Nat
      OBVIOUS
<1>9. Cardinality(S) \in N
  <2> HIDE DEF N
  <2>1. QED BY <1>1, <1>6, <1>7, <1>8, SetInduction
<1>10. QED BY <1>9

(* The sum of natural numbers is one, and is zero only if they all are. *)
LEMMA SumOfNaturals ==
    ASSUME NEW S, IsFiniteSet(S), NEW f, \A x \in S : f[x] \in Nat
    PROVE  /\ SumFunctionOnSet(f, S) \in Nat
           /\ SumFunctionOnSet(f, S) = 0 => \A x \in S : f[x] = 0
<1>1. PICK g : Sums(g, f, S) /\ SumFunctionOnSet(f, S) = g[S]
      BY SumIsASum
<1> DEFINE Q == {s \in SUBSET S : g[s] \in Nat /\ (g[s] = 0 => \A x \in s : f[x] = 0)}
<1>2. {} \in Q
      BY <1>1, SumStep
<1>3. ASSUME NEW s \in SUBSET S, s # {}, s \ {CHOOSE x \in s : TRUE} \in Q PROVE s \in Q
  <2>1. PICK x : x = CHOOSE y \in s : TRUE
        OBVIOUS
  <2>2. x \in s /\ g[s] = f[x] + g[s \ {x}]
        BY <1>1, <1>3, <2>1, SumStep
  <2>3. s \ {x} \in Q
        BY <1>3, <2>1
  <2>4. f[x] \in Nat /\ g[s \ {x}] \in Nat
        BY <2>2, <2>3
  <2>5. QED BY <2>2, <2>3, <2>4
<1>4. Q \in SUBSET SUBSET S
      OBVIOUS
<1>5. S \in Q
  <2> HIDE DEF Q
  <2>1. QED BY <1>2, <1>3, <1>4, PartInduction
<1>6. QED BY <1>1, <1>5

(* When h[x] * t and f[x] * r are at most e / 2 apart for every x, so are the  *)
(* sums, e / 2 for each element.                                             *)
LEMMA SumsStayClose ==
    ASSUME NEW S, IsFiniteSet(S), NEW f, NEW h, NEW t \in Nat, NEW r \in Nat, NEW e \in Nat,
           \A x \in S : /\ f[x] \in Nat /\ h[x] \in Nat
                        /\ 2 * (h[x] * t - f[x] * r) <= e /\ 2 * (h[x] * t - f[x] * r) >= -e
    PROVE  LET d == SumFunctionOnSet(h, S) * t - SumFunctionOnSet(f, S) * r
           IN  2 * d <= Cardinality(S) * e /\ 2 * d >= -(Cardinality(S) * e)
<1>1. PICK F : Sums(F, f, S) /\ SumFunctionOnSet(f, S) = F[S]
      BY SumIsASum
<1>2. PICK H : Sums(H, h, S) /\ SumFunctionOnSet(h, S) = H[S]
      BY SumIsASum
<1> DEFINE d(s) == H[s] * t - F[s] * r
           Q == {s \in SUBSET S : /\ F[s] \in Nat /\ H[s] \in Nat
                                  /\ 2 * d(s) <= Cardinality(s) * e
                                  /\ 2 * d(s) >= -(Cardinality(s) * e)}
<1>3. {} \in Q
  <2>1. F[{}] = 0 /\ H[{}] = 0 /\ Cardinality({}) = 0
        BY <1>1, <1>2, SumStep, FS_EmptySet
  <2>2. QED BY <2>1
<1>4. ASSUME NEW s \in SUBSET S, s # {}, s \ {CHOOSE x \in s : TRUE} \in Q PROVE s \in Q
  <2>1. PICK x : x = CHOOSE y \in s : TRUE
        OBVIOUS
  <2>2. PICK u : u = s \ {x}
        OBVIOUS
  <2>3. x \in s /\ F[s] = f[x] + F[u] /\ H[s] = h[x] + H[u]
        BY <1>1, <1>2, <1>4, <2>1, <2>2, SumStep
  <2>4. u \in Q
        BY <1>4, <2>1, <2>2
  <2>5. F[u] \in Nat /\ H[u] \in Nat /\ f[x] \in Nat /\ h[x] \in Nat
        BY <2>3, <2>4
  <2>6. IsFiniteSet(s) /\ IsFiniteSet(u) /\ Cardinality(u) \in Nat /\ Cardinality(s) = Cardinality(u) + 1
    <3>1. IsFiniteSet(s)
          BY FS_Subset
    <3>2. IsFiniteSet(u) /\ Cardinality(u) = Cardinality(s) - 1
          BY <2>2, <2>3, <3>1, FS_RemoveElement
    <3>3. QED BY <3>1, <3>2, FS_CardinalityType
  <2>7. Cardinality(s) * e = Cardinality(u) * e + e
        BY <2>6
  <2>8. d(s) = d(u) + (h[x] * t - f[x] * r)
    <3>1. (h[x] + H[u]) * t = h[x] * t + H[u] * t /\ (f[x] + F[u]) * r = f[x] * r + F[u] * r
          BY <2>5
    <3>2. h[x] * t \in Int /\ H[u] * t \in Int /\ f[x] * r \in Int /\ F[u] * r \in Int
          BY <2>5
    <3>3. QED BY <2>3, <3>1, <3>2
  <2>9. PICK du \in Int : du = d(u)
        BY <2>5
  <2>10. PICK dx \in Int : dx = h[x] * t - f[x] * r
        BY <2>5
  <2>11. PICK c \in Int : c = Cardinality(u) * e
        BY <2>6
  <2>12. 2 * du <= c /\ 2 * du >= -c /\ 2 * dx <= e /\ 2 * dx >= -e
        BY <2>3, <2>4, <2>9, <2>10, <2>11
  <2>13. 2 * (du + dx) <= c + e /\ 2 * (du + dx) >= -(c + e)
        BY <2>12
  <2>14. 2 * d(s) <= Cardinality(s) * e /\ 2 * d(s) >= -(Cardinality(s) * e)
        BY <2>7, <2>8, <2>9, <2>10, <2>11, <2>13
  <2>15. F[s] \in Nat /\ H[s] \in Nat
        BY <2>3, <2>5
  <2>16. QED BY <2>14, <2>15
<1>5. Q \in SUBSET SUBSET S
      OBVIOUS
<1>6. S \in Q
  <2> HIDE DEF Q
  <2>1. QED BY <1>3, <1>4, <1>5, PartInduction
<1>7. QED BY <1>1, <1>2, <1>6

-----------------------------------------------------------------------------
(* The shares of a pool *)

(* assembleLotteryStrategyWithAwards: math.Round gives an award the number of *)
(* indexes nearest to its share x / y of the pool, for any rates.           *)
THEOREM RoundIsNearest ==
    ASSUME NEW x \in Nat, NEW y \in Nat \ {0}
    PROVE  /\ Round(x, y) \in Nat
           /\ 2 * (Round(x, y) * y - x) <= y
           /\ 2 * (Round(x, y) * y - x) >= -y
<1>1. PICK n \in Nat : n = 2 * x + y
      OBVIOUS
<1>2. PICK m \in Nat \ {0} : m = 2 * y
      OBVIOUS
<1>3. PICK q \in Nat : q = n \div m
      BY Division
<1>4. n = m * q + (n % m) /\ n % m \in 0..(m - 1)
      BY <1>3, Division
<1>5. m * q = 2 * (q * y)
      BY <1>2
<1>6. Round(x, y) = q
      BY <1>1, <1>2, <1>3 DEF Round
<1>7. PICK p \in Nat : p = q * y
      OBVIOUS
<1>8. 2 * p <= 2 * x + y /\ 2 * x + y < 2 * p + 2 * y
      BY <1>1, <1>2, <1>4, <1>5, <1>7
<1>9. 2 * (p - x) <= y /\ 2 * (p - x) >= -y
      BY <1>8
<1>10. QED BY <1>6, <1>7, <1>9

(* Awards whose rates are numbers of ten-thousandths. *)
Rated(rates, S) == IsFiniteSet(S) /\ \A a \in S : rates[a] \in Nat

(* The powers of ten up to the Unit. *)
Tens(P) ==
    /\ P \in [0..4 -> Nat \ {0}]
    /\ P[0] = 1 /\ P[1] = 10 /\ P[2] = 100 /\ P[3] = 1000 /\ P[4] = 10000

(* They are what they should be. *)
LEMMA PowersOfTen == \E P : Tens(P) /\ \A k \in 0..4 : P[k] = 10^k
<1>1. 10^0 = 1 /\ 10^1 = 10 /\ 10^2 = 100 /\ 10^3 = 1000 /\ 10^4 = 10000
      OBVIOUS
<1>2. PICK P : P = [k \in 0..4 |-> 10^k]
      OBVIOUS
<1>3. P[0] = 1 /\ P[1] = 10 /\ P[2] = 100 /\ P[3] = 1000 /\ P[4] = 10000
      BY <1>1, <1>2
<1>4. \A k \in 0..4 : P[k] \in Nat \ {0}
      BY <1>3
<1>5. P \in [0..4 -> Nat \ {0}]
      BY <1>2, <1>4
<1>6. \A k \in 0..4 : P[k] = 10^k
      BY <1>2
<1>7. QED BY <1>3, <1>5, <1>6 DEF Tens

(* FormatFloat prints the digits of a rate up to the last that is not zero. *)
LEMMA DecimalsOfRate ==
    ASSUME NEW rate \in Nat, NEW P, Tens(P), \A k \in 0..4 : P[k] = 10^k
    PROVE  Decimals(rate) \in 0..4 /\ rate % P[4 - Decimals(rate)] = 0
<1>1. PICK K : K = {k \in 0..4 : rate % P[4 - k] = 0}
      OBVIOUS
<1>2. 4 \in K
      BY <1>1 DEF Tens
<1>3. K \in SUBSET Nat /\ K # {}
      BY <1>1, <1>2
<1>4. PICK k \in K : \A j \in K : k <= j
      BY <1>3, LeastExists
<1>5. k \in 0..4 /\ rate % P[4 - k] = 0 /\ \A j \in 0..(k - 1) : rate % P[4 - j] # 0
      BY <1>1, <1>4
<1>6. \A j \in 0..4 : P[4 - j] = 10^(4 - j)
  <2> SUFFICES ASSUME NEW j \in 0..4 PROVE P[4 - j] = 10^(4 - j)
      OBVIOUS
  <2>1. PICK i \in 0..4 : i = 4 - j
        OBVIOUS
  <2>2. P[i] = 10^i
        OBVIOUS
  <2>3. QED BY <2>1, <2>2
<1>7. rate % 10^(4 - k) = 0 /\ \A j \in 0..(k - 1) : rate % 10^(4 - j) # 0
  <2>1. \A j \in 0..(k - 1) : j \in 0..4
        BY <1>5
  <2>2. QED BY <1>5, <1>6, <2>1
<1>8. Decimals(rate) \in 0..4 /\ rate % 10^(4 - Decimals(rate)) = 0
      BY <1>5, <1>7 DEF Decimals
<1>9. QED BY <1>6, <1>8

(* The range is a power of ten with at least as many digits as each rate. *)
LEMMA RangeOfRates ==
    ASSUME NEW rates, NEW S, Rated(rates, S)
    PROVE  \E P : \E d \in 0..4 :
              /\ Tens(P) /\ RateRange(rates, S) = P[d]
              /\ \A a \in S : \E k \in 0..d : rates[a] % P[4 - k] = 0
<1>1. PICK D : D = {0} \cup {Decimals(rates[a]) : a \in S}
      OBVIOUS
<1>2. PICK P : Tens(P) /\ \A k \in 0..4 : P[k] = 10^k
      BY PowersOfTen
<1>3. \A a \in S : Decimals(rates[a]) \in 0..4 /\ rates[a] % P[4 - Decimals(rates[a])] = 0
      BY <1>2, DecimalsOfRate DEF Rated
<1>4. D \in SUBSET Nat /\ D # {} /\ \A x \in D : x <= 4
      BY <1>1, <1>3
<1>5. PICK x \in D : \A y \in D : y <= x
      BY <1>4, GreatestExists
<1>6. PICK m : m = Max(D)
      OBVIOUS
<1>7. m \in D /\ \A y \in D : m >= y
      BY <1>4, <1>5, <1>6 DEF Max
<1>8. m \in 0..4
      BY <1>4, <1>7
<1>9. RateRange(rates, S) = 10^m
      BY <1>1, <1>6 DEF RateRange
<1>10. RateRange(rates, S) = P[m]
      BY <1>2, <1>8, <1>9
<1>11. \A a \in S : Decimals(rates[a]) \in 0..m
      BY <1>1, <1>3, <1>7, <1>8
<1>12. QED BY <1>2, <1>3, <1>8, <1>10, <1>11

(* Total, range and counts are natural numbers. *)
LEMMA PoolTypes ==
    ASSUME NEW rates, NEW S, Rated(rates, S)
    PROVE  /\ TotalRate(rates, S) \in Nat
           /\ RateRange(rates, S) \in Nat \ {0}
           /\ \A a \in S : Count(rates, S, a) \in Nat
           /\ PoolSize(rates, S) = SumFunctionOnSet(Counts(rates, S), S)
           /\ PoolSize(rates, S) \in Nat
           /\ PoolSize(rates, S) = 0 => \A a \in S : Count(rates, S, a) = 0
<1>1. TotalRate(rates, S) \in Nat
      BY SumOfNaturals DEF TotalRate, Rated
<1>2. RateRange(rates, S) \in Nat \ {0}
      BY RangeOfRates DEF Tens
<1>3. ASSUME NEW a \in S PROVE Count(rates, S, a) \in Nat
  <2>1. CASE TotalRate(rates, S) = 0
        BY <2>1 DEF Count
  <2>2. CASE TotalRate(rates, S) # 0
    <3>1. rates[a] * RateRange(rates, S) \in Nat
          BY <1>2 DEF Rated
    <3>2. QED BY <1>1, <2>2, <3>1, RoundIsNearest DEF Count
  <2>3. QED BY <2>1, <2>2
<1>4. PICK f : f = Counts(rates, S)
      OBVIOUS
<1>5. DOMAIN f = S /\ \A a \in S : f[a] = Count(rates, S, a)
      BY <1>4 DEF Counts
<1>6. PoolSize(rates, S) = SumFunctionOnSet(f, S)
      BY <1>4, <1>5 DEF PoolSize, SumFunction
<1>7. SumFunctionOnSet(f, S) \in Nat /\ (SumFunctionOnSet(f, S) = 0 => \A a \in S : f[a] = 0)
      BY <1>3, <1>5, SumOfNaturals DEF Rated
<1>8. QED BY <1>1, <1>2, <1>3, <1>4, <1>5, <1>6, <1>7

(* A factor that is not zero can be cancelled. *)
LEMMA Cancel ==
    ASSUME NEW a \in Int, NEW b \in Int, NEW t \in Nat \ {0}, a * t <= b * t
    PROVE  a <= b
<1> SUFFICES ASSUME a >= b + 1 PROVE FALSE
    OBVIOUS
<1>1. (a - b) * t >= t
  <2>1. PICK c \in Nat \ {0} : c = a - b
        OBVIOUS
  <2>2. c * t >= t
        OBVIOUS
  <2>3. QED BY <2>1, <2>2
<1>2. (a - b) * t = a * t - b * t
      OBVIOUS
<1>3. QED BY <1>1, <1>2

(* The pool's length from the counts: if each is within e / 2 of its share,   *)
(* scaled by the total, the pool is within e / 2 per award of its range.      *)
LEMMA LengthFromCounts ==
    ASSUME NEW rates, NEW S, Rated(rates, S), NEW e \in Nat, TotalRate(rates, S) # 0,
           \A a \in S : LET d == Count(rates, S, a) * TotalRate(rates, S)
                                    - rates[a] * RateRange(rates, S)
                        IN  2 * d <= e /\ 2 * d >= -e
    PROVE  LET gap == PoolSize(rates, S) - RateRange(rates, S)
           IN  /\ 2 * gap * TotalRate(rates, S) <= Cardinality(S) * e
               /\ -(2 * gap) * TotalRate(rates, S) <= Cardinality(S) * e
<1>1. PICK t \in Nat : t = TotalRate(rates, S)
      BY PoolTypes
<1>2. PICK r \in Nat : r = RateRange(rates, S)
      BY PoolTypes
<1>3. PICK n \in Nat : n = PoolSize(rates, S)
      BY PoolTypes
<1>4. PICK h : h = Counts(rates, S)
      OBVIOUS
<1>5. \A a \in S : /\ rates[a] \in Nat /\ h[a] \in Nat
                   /\ 2 * (h[a] * t - rates[a] * r) <= e /\ 2 * (h[a] * t - rates[a] * r) >= -e
      BY <1>1, <1>2, <1>4, PoolTypes DEF Counts, Rated
<1>6. SumFunctionOnSet(h, S) = n /\ SumFunctionOnSet(rates, S) = t
      BY <1>1, <1>3, <1>4, PoolTypes DEF TotalRate
<1>7. PICK c \in Int : c = Cardinality(S) * e
      BY FS_CardinalityType DEF Rated
<1>8. 2 * (n * t - t * r) <= c /\ 2 * (n * t - t * r) >= -c
      BY <1>5, <1>6, <1>7, SumsStayClose DEF Rated
<1>9. 2 * (n - r) * t = 2 * (n * t - t * r) /\ -(2 * (n - r)) * t = -(2 * (n * t - t * r))
      OBVIOUS
<1>10. n * t - t * r \in Int
      OBVIOUS
<1>11. QED BY <1>1, <1>2, <1>3, <1>7, <1>8, <1>9, <1>10

(* assembleLotteryStrategyWithAwards: for any number of awards and any rates   *)
(* that are not all zero, every award has the number of indexes nearest to    *)
(* its share, and rounding each on its own moves the length of the pool by    *)
(* at most half an index per award.                                         *)
THEOREM PoolIsNearest ==
    ASSUME NEW rates, NEW S, Rated(rates, S), TotalRate(rates, S) > 0
    PROVE  SharesAreNearest(rates, S)
<1>1. PICK t \in Nat \ {0} : t = TotalRate(rates, S)
      BY PoolTypes
<1>2. PICK r \in Nat : r = RateRange(rates, S)
      BY PoolTypes
<1>3. \A a \in S : /\ 2 * (Count(rates, S, a) * t - rates[a] * r) <= t
                   /\ 2 * (Count(rates, S, a) * t - rates[a] * r) >= -t
  <2> SUFFICES ASSUME NEW a \in S
               PROVE  /\ 2 * (Count(rates, S, a) * t - rates[a] * r) <= t
                      /\ 2 * (Count(rates, S, a) * t - rates[a] * r) >= -t
      OBVIOUS
  <2>1. PICK x \in Nat : x = rates[a] * r
        BY DEF Rated
  <2>2. Count(rates, S, a) = Round(x, t)
        BY <1>1, <1>2, <2>1 DEF Count
  <2>3. QED BY <2>1, <2>2, RoundIsNearest
<1>4. PICK gap \in Int : gap = PoolSize(rates, S) - RateRange(rates, S)
      BY PoolTypes
<1>5. PICK k \in Nat : k = Cardinality(S)
      BY FS_CardinalityType DEF Rated
<1>6. 2 * gap * t <= k * t /\ -(2 * gap) * t <= k * t
      BY <1>1, <1>2, <1>3, <1>4, <1>5, LengthFromCounts
<1>7. 2 * gap <= k /\ -(2 * gap) <= k
      BY <1>6, Cancel
<1>8. QED BY <1>1, <1>2, <1>3, <1>4, <1>5, <1>7 DEF SharesAreNearest

(* With the digits of its decimals, or more, a rate is a whole number. *)
LEMMA WholeShares ==
    ASSUME NEW rate \in Nat, NEW P, Tens(P), NEW d \in 0..4, NEW k \in 0..d, rate % P[4 - k] = 0
    PROVE  \E m \in Nat : rate * P[d] = m * Unit
<1>1. PICK p \in Nat \ {0} : p = P[4 - k]
      BY DEF Tens
<1>2. PICK q \in Nat : rate = p * q
  <2>1. rate % p = 0
        BY <1>1
  <2>2. rate \div p \in Nat /\ rate = p * (rate \div p) + 0
        BY <2>1, Division
  <2>3. PICK q \in Nat : q = rate \div p
        BY <2>2
  <2>4. p * q \in Nat
        OBVIOUS
  <2>5. rate = p * q + 0
        BY <2>2, <2>3
  <2>6. rate = p * q
        BY <2>4, <2>5
  <2>7. QED BY <2>6, Zenon
<1>3. PICK r \in Nat : r = P[d]
      BY DEF Tens
<1>4. PICK u \in Nat : p * r = u * Unit
  <2>1. \E u \in {1, 10, 100, 1000, 10000} : P[4 - k] * P[d] = u * 10000
    <3>1. (k = 0 \/ k = 1 \/ k = 2 \/ k = 3 \/ k = 4) /\ (d = 0 \/ d = 1 \/ d = 2 \/ d = 3 \/ d = 4)
          OBVIOUS
    <3>2. k <= d
          OBVIOUS
    <3>3. QED BY <3>1, <3>2 DEF Tens
  <2>2. QED BY <1>1, <1>3, <2>1 DEF Unit
<1>5. (p * q) * r = q * (p * r) /\ q * (u * Unit) = (q * u) * Unit
      BY DEF Unit
<1>6. rate * r = (q * u) * Unit
      BY <1>2, <1>4, <1>5
<1>7. QED BY <1>3, <1>6

(* assembleLotteryStrategyWithAwards: rates of four decimals that sum to one  *)
(* are drawn with exactly their probability, for any number of awards.       *)
THEOREM PoolIsExact ==
    ASSUME NEW rates, NEW S, Rated(rates, S), TotalRate(rates, S) = Unit
    PROVE  SharesAreExact(rates, S)
<1>1. PICK P : \E d \in 0..4 : /\ Tens(P) /\ RateRange(rates, S) = P[d]
                              /\ \A a \in S : \E k \in 0..d : rates[a] % P[4 - k] = 0
      BY RangeOfRates
<1>2. PICK r \in Nat : r = RateRange(rates, S)
      BY PoolTypes
<1>3. ASSUME NEW a \in S PROVE Count(rates, S, a) * Unit = rates[a] * r
  <2>1. PICK m \in Nat : rates[a] * r = m * Unit
        BY <1>1, <1>2, WholeShares DEF Rated
  <2>2. Count(rates, S, a) = Round(m * Unit, Unit)
        BY <1>2, <2>1 DEF Count, Unit
  <2>3. Round(m * Unit, Unit) = m
    <3>1. Round(m * Unit, Unit) = (20000 * m + 10000) \div 20000
          BY DEF Round, Unit
    <3>2. (20000 * m + 10000) \div 20000 = m
          OBVIOUS
    <3>3. QED BY <3>1, <3>2
  <2>4. QED BY <2>1, <2>2, <2>3
<1>4. \A a \in S : Count(rates, S, a) \in Nat /\ rates[a] \in Nat
      BY PoolTypes DEF Rated
<1>5. PICK gap \in Int : gap = PoolSize(rates, S) - r
      BY <1>2, PoolTypes
<1>6. 2 * gap * Unit <= Cardinality(S) * 0 /\ -(2 * gap) * Unit <= Cardinality(S) * 0
  <2>1. \A a \in S : LET e == Count(rates, S, a) * TotalRate(rates, S)
                                 - rates[a] * RateRange(rates, S)
                     IN  2 * e <= 0 /\ 2 * e >= -0
    <3>1. \A a \in S : Count(rates, S, a) * Unit - rates[a] * r = 0
          BY <1>3, <1>4 DEF Unit
    <3>2. QED BY <1>2, <3>1
  <2>2. TotalRate(rates, S) # 0 /\ 0 \in Nat
        BY DEF Unit
  <2>3. QED BY <1>2, <1>5, <2>1, <2>2, LengthFromCounts
<1>7. Cardinality(S) * 0 = 0
      BY FS_CardinalityType DEF Rated
<1>8. gap = 0
      BY <1>6, <1>7 DEF Unit
<1>9. PoolSize(rates, S) = r
      BY <1>2, <1>5, <1>8, PoolTypes
<1>10. QED BY <1>2, <1>3, <1>9 DEF SharesAreExact
==============================================================================
