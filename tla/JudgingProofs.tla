----------------------------- MODULE JudgingProofs -----------------------------
(***************************************************************************)
(* The invariants of Judging for any notices, profiles, plans and limits.  *)
(* The first part is about the operators: quotients and blends stay in     *)
(* their range, and ranking a finite set by a total order is a permutation *)
(* in that order.  The second is about the run: what the cache returns was *)
(* made for the profile and the kind of notice it is looked up for.        *)
(***************************************************************************)
EXTENDS Judging, FunctionTheorems, FiniteSetTheorems, TLAPS

-----------------------------------------------------------------------------
\* A quotient is at most K when what is divided is at most K times the divisor.
LEMMA DivBound ==
    ASSUME NEW K \in Nat, NEW a \in Nat, NEW b \in Nat \ {0}, a <= K * b
    PROVE  a \div b \in 0 .. K
<1> DEFINE q == a \div b
<1>1. q \in Int /\ b * q <= a /\ a < b * q + b
  BY Z3
<1>2. q <= K
  <2> SUFFICES ASSUME q >= K + 1 PROVE FALSE
    BY <1>1
  <2> HIDE DEF q
  <2>1. b * q >= b * (K + 1)
    BY <1>1, Z3
  <2>2. b * (K + 1) = K * b + b
    BY Z3
  <2> QED BY <1>1, <2>1, <2>2, Z3
<1>3. q >= 0
  <2> SUFFICES ASSUME q <= -1 PROVE FALSE
    BY <1>1
  <2> HIDE DEF q
  <2>1. b * q <= b * (-1)
    BY <1>1, Z3
  <2> QED BY <1>1, <2>1, Z3
<1> QED BY <1>1, <1>2, <1>3

\* A mean of two numbers up to K, with whole weights, is at most K.
LEMMA MeanBound ==
    ASSUME NEW K \in Nat, NEW x \in 0 .. K, NEW y \in 0 .. K,
           NEW a \in Nat, NEW b \in Nat, a + b # 0
    PROVE  (a * x + b * y) \div (a + b) \in 0 .. K
<1>1. a * x \in Nat /\ b * y \in Nat /\ a * x <= a * K /\ b * y <= b * K
  BY Z3
<1>2. K * (a + b) = a * K + b * K
  BY Z3
<1>3. a * x + b * y <= K * (a + b)
  <2>1. a * K \in Nat /\ b * K \in Nat
    BY Z3
  <2> QED BY <1>1, <1>2, <2>1
<1> QED BY <1>1, <1>3, DivBound

-----------------------------------------------------------------------------
\* Ranking.  Order is a set of pairs that orders the finite set S totally.

TotalOn(order, S) ==
    /\ \A x \in S : <<x, x>> \notin order
    /\ \A x, y, z \in S : <<x, y>> \in order /\ <<y, z>> \in order => <<x, z>> \in order
    /\ \A x, y \in S : x # y => <<x, y>> \in order \/ <<y, x>> \in order

\* The rank grows along the order, and is less than the number of elements.
LEMMA RankGrows ==
    ASSUME NEW S, IsFiniteSet(S), NEW order, TotalOn(order, S)
    PROVE  /\ Cardinality(S) \in Nat
           /\ \A x \in S : Rank(S, order, x) \in 0 .. (Cardinality(S) - 1)
           /\ \A x, y \in S : <<x, y>> \in order => Rank(S, order, x) < Rank(S, order, y)
<1> DEFINE before(x) == {y \in S : <<y, x>> \in order}
<1>0. Cardinality(S) \in Nat
  BY FS_CardinalityType
<1>1. ASSUME NEW x \in S
      PROVE  IsFiniteSet(before(x)) /\ Cardinality(before(x)) \in 0 .. (Cardinality(S) - 1)
  <2>1. before(x) \in SUBSET (S \ {x})
    BY DEF TotalOn
  <2>2. IsFiniteSet(S \ {x}) /\ Cardinality(S \ {x}) = Cardinality(S) - 1
    BY FS_RemoveElement
  <2>3. IsFiniteSet(before(x)) /\ Cardinality(before(x)) <= Cardinality(S) - 1
    BY <2>1, <2>2, FS_Subset
  <2>4. Cardinality(before(x)) \in Nat
    BY <2>3, FS_CardinalityType
  <2> QED BY <1>0, <2>3, <2>4
<1>2. ASSUME NEW x \in S, NEW y \in S, <<x, y>> \in order
      PROVE  Cardinality(before(x)) < Cardinality(before(y))
  <2>1. before(x) \in SUBSET before(y)
    BY <1>2 DEF TotalOn
  <2>2. x \in before(y) /\ x \notin before(x)
    BY <1>2 DEF TotalOn
  <2>3. Cardinality(before(x)) <= Cardinality(before(y))
        /\ (Cardinality(before(y)) = Cardinality(before(x)) => before(y) = before(x))
    BY <1>1, <2>1, FS_Subset
  <2>4. Cardinality(before(x)) # Cardinality(before(y))
    BY <2>2, <2>3
  <2> QED BY <1>1, <2>3, <2>4
<1>3. QED
  BY <1>0, <1>1, <1>2 DEF Rank

\* Every place below the number of elements is the rank of one element.
LEMMA RankHitsEveryPlace ==
    ASSUME NEW S, IsFiniteSet(S), NEW order, TotalOn(order, S)
    PROVE  /\ \A n \in 0 .. (Cardinality(S) - 1) : \E x \in S : Rank(S, order, x) = n
           /\ \A x, y \in S : Rank(S, order, x) = Rank(S, order, y) => x = y
<1> DEFINE N == Cardinality(S)
           rank == [x \in S |-> Rank(S, order, x)]
<1>1. N \in Nat /\ \A x \in S : rank[x] \in 0 .. (N - 1)
  BY RankGrows
<1>2. ASSUME NEW x \in S, NEW y \in S, rank[x] = rank[y]
      PROVE  x = y
  <2>1. <<x, y>> \in order => rank[x] < rank[y]
    BY RankGrows
  <2>2. <<y, x>> \in order => rank[y] < rank[x]
    BY RankGrows
  <2> QED BY <1>1, <1>2, <2>1, <2>2 DEF TotalOn
<1>3. rank \in Injection(S, 0 .. (N - 1))
  <2>1. rank \in [S -> 0 .. (N - 1)]
    BY <1>1
  <2> HIDE DEF rank
  <2> QED BY <1>2, <2>1, Fun_IsInj
<1>4. IsFiniteSet(0 .. (N - 1)) /\ Cardinality(0 .. (N - 1)) = N
  <2>1. 0 \in Int /\ N - 1 \in Int
    BY <1>1
  <2>2. Cardinality(0 .. (N - 1)) = IF 0 > N - 1 THEN 0 ELSE (N - 1) - 0 + 1
    BY <2>1, FS_Interval
  <2> QED BY <1>1, <2>1, <2>2, FS_Interval
<1>5. rank \in Surjection(S, 0 .. (N - 1))
  <2> HIDE DEF rank
  <2> QED BY <1>3, <1>4, FS_Injection
<1>6. \A n \in 0 .. (N - 1) : \E x \in S : rank[x] = n
  <2> HIDE DEF rank
  <2> QED BY <1>5, Fun_SurjectionProperties
<1> QED BY <1>2, <1>6

\* Ranked is a permutation of S, and in order.
LEMMA RankedIsSorted ==
    ASSUME NEW S, IsFiniteSet(S), NEW order, TotalOn(order, S)
    PROVE  /\ Cardinality(S) \in Nat
           /\ Ranked(S, order) \in [1 .. Cardinality(S) -> S]
           /\ \A x \in S : \E i \in 1 .. Cardinality(S) : Ranked(S, order)[i] = x
           /\ \A i, j \in 1 .. Cardinality(S) :
                  i < j => <<Ranked(S, order)[i], Ranked(S, order)[j]>> \in order
<1> DEFINE N == Cardinality(S)
           at == Ranked(S, order)
<1>1. N \in Nat /\ \A x \in S : Rank(S, order, x) \in 0 .. (N - 1)
  BY RankGrows
<1>2. ASSUME NEW i \in 1 .. N
      PROVE  at[i] \in S /\ Rank(S, order, at[i]) = i - 1
  <2>1. i - 1 \in 0 .. (N - 1)
    BY <1>1
  <2>2. \E x \in S : Rank(S, order, x) = i - 1
    BY <2>1, RankHitsEveryPlace
  <2>3. at[i] = CHOOSE x \in S : Rank(S, order, x) = i - 1
    BY DEF Ranked
  <2> HIDE DEF at
  <2> QED BY <2>2, <2>3
<1>3. at \in [1 .. N -> S]
  BY <1>2 DEF Ranked
<1>4. ASSUME NEW x \in S
      PROVE  \E i \in 1 .. N : at[i] = x
  <2>1. Rank(S, order, x) + 1 \in 1 .. N
    BY <1>1
  <2>2. Rank(S, order, at[Rank(S, order, x) + 1]) = (Rank(S, order, x) + 1) - 1
        /\ at[Rank(S, order, x) + 1] \in S
    BY <1>2, <2>1
  <2>3. Rank(S, order, at[Rank(S, order, x) + 1]) = Rank(S, order, x)
    BY <1>1, <2>2
  <2>4. at[Rank(S, order, x) + 1] = x
    BY <2>2, <2>3, RankHitsEveryPlace
  <2> QED BY <2>1, <2>4
<1>5. ASSUME NEW i \in 1 .. N, NEW j \in 1 .. N, i < j
      PROVE  <<at[i], at[j]>> \in order
  <2> HIDE DEF at
  <2>1. Rank(S, order, at[i]) < Rank(S, order, at[j])
    BY <1>2, <1>1, <1>5
  <2>2. at[i] # at[j]
    BY <2>1, <1>1, <1>2
  <2>3. <<at[j], at[i]>> \in order => Rank(S, order, at[j]) < Rank(S, order, at[i])
    BY <1>2, RankGrows
  <2>4. <<at[j], at[i]>> \notin order
    BY <2>1, <2>3, <1>2, <1>1
  <2> QED BY <1>2, <2>2, <2>4 DEF TotalOn
<1> QED BY <1>1, <1>3, <1>4, <1>5

\* What is sorted by totals is the same rows, and none has more than the one before.
LEMMA ByTotalSorts ==
    ASSUME NEW N \in Nat, NEW T, \A row \in T : row.total \in Int,
           NEW results \in [1 .. N -> T]
    PROVE  /\ ByTotal(results) \in [1 .. N -> T]
           /\ \A i \in 1 .. N : \E j \in 1 .. N : ByTotal(results)[j] = results[i]
           /\ \A i \in 1 .. N : \E j \in 1 .. N : ByTotal(results)[i] = results[j]
           /\ \A i, j \in 1 .. N :
                  i < j => ByTotal(results)[i].total >= ByTotal(results)[j].total
<1> DEFINE S == 1 .. N
           place == Ranked(S, Above(results))
<1>1. IsFiniteSet(S) /\ Cardinality(S) = N
  <2>1. 1 \in Int /\ N \in Int
    OBVIOUS
  <2>2. Cardinality(S) = IF 1 > N THEN 0 ELSE N - 1 + 1
    BY <2>1, FS_Interval
  <2> QED BY <2>1, <2>2, FS_Interval
<1>2. DOMAIN results = S
  OBVIOUS
<1>3. \A x, y \in S : /\ results[x].total \in Int
                      /\ <<x, y>> \in Above(results) <=>
                            \/ results[x].total > results[y].total
                            \/ results[x].total = results[y].total /\ x < y
  BY <1>2 DEF Above
<1>4. TotalOn(Above(results), S)
  <2> HIDE DEF S
  <2>1. S \subseteq Int
    BY DEF S
  <2>2. \A x \in S : <<x, x>> \notin Above(results)
    BY <1>3, <2>1
  <2>3. ASSUME NEW x \in S, NEW y \in S, NEW z \in S,
               <<x, y>> \in Above(results), <<y, z>> \in Above(results)
        PROVE  <<x, z>> \in Above(results)
    <3>1. /\ x \in Int /\ y \in Int /\ z \in Int
          /\ results[x].total \in Int /\ results[y].total \in Int /\ results[z].total \in Int
      BY <1>3, <2>1
    <3>2. \/ results[x].total > results[y].total
          \/ results[x].total = results[y].total /\ x < y
      BY <1>3, <2>3
    <3>3. \/ results[y].total > results[z].total
          \/ results[y].total = results[z].total /\ y < z
      BY <1>3, <2>3
    <3>4. \/ results[x].total > results[z].total
          \/ results[x].total = results[z].total /\ x < z
      BY <3>1, <3>2, <3>3
    <3> QED BY <1>3, <3>4
  <2>4. ASSUME NEW x \in S, NEW y \in S, x # y
        PROVE  <<x, y>> \in Above(results) \/ <<y, x>> \in Above(results)
    <3>1. /\ x \in Int /\ y \in Int
          /\ results[x].total \in Int /\ results[y].total \in Int
      BY <1>3, <2>1
    <3> QED BY <1>3, <2>4, <3>1
  <2> QED BY <2>2, <2>3, <2>4 DEF TotalOn
<1>5. /\ place \in [S -> S]
      /\ \A x \in S : \E i \in S : place[i] = x
      /\ \A i, j \in S : i < j => <<place[i], place[j]>> \in Above(results)
  <2>1. /\ place \in [1 .. Cardinality(S) -> S]
        /\ \A x \in S : \E i \in 1 .. Cardinality(S) : place[i] = x
        /\ \A i, j \in 1 .. Cardinality(S) :
               i < j => <<place[i], place[j]>> \in Above(results)
    <3> DEFINE above == Above(results)
    <3>1. TotalOn(above, S)
      BY <1>4
    <3> HIDE DEF S, above
    <3>2. /\ Ranked(S, above) \in [1 .. Cardinality(S) -> S]
          /\ \A x \in S : \E i \in 1 .. Cardinality(S) : Ranked(S, above)[i] = x
          /\ \A i, j \in 1 .. Cardinality(S) :
                 i < j => <<Ranked(S, above)[i], Ranked(S, above)[j]>> \in above
      BY <1>1, <3>1, RankedIsSorted
    <3> QED BY <3>2 DEF above
  <2>2. 1 .. Cardinality(S) = S
    BY <1>1
  <2> HIDE DEF S, place
  <2> QED BY <2>1, <2>2
<1>6. ByTotal(results) = [i \in S |-> results[place[i]]]
  <2>1. DOMAIN place = S
    BY <1>5
  <2> QED BY <1>2, <2>1 DEF ByTotal
<1> HIDE DEF place
<1>7. ASSUME NEW i \in S, NEW j \in S, i < j
      PROVE  results[place[i]].total >= results[place[j]].total
  <2>1. place[i] \in S /\ place[j] \in S /\ <<place[i], place[j]>> \in Above(results)
    BY <1>5, <1>7
  <2>2. results[place[i]].total \in Int /\ results[place[j]].total \in Int
    BY <1>3, <2>1
  <2> HIDE DEF S
  <2> QED BY <1>3, <2>1, <2>2
<1>8. \A i \in S : place[i] \in S /\ ByTotal(results)[i] = results[place[i]]
  BY <1>5, <1>6
<1>9. ByTotal(results) \in [S -> T]
  <2>1. \A i \in S : results[place[i]] \in T
    BY <1>8
  <2> QED BY <1>6, <2>1
<1> QED BY <1>5, <1>7, <1>8, <1>9

\* All of a set of ids, in some order.
LEMMA InOrderListsAll ==
    ASSUME NEW ids, IsFiniteSet(ids), ids \subseteq Nat
    PROVE  /\ Cardinality(ids) \in Nat
           /\ InOrder(ids) \in [1 .. Cardinality(ids) -> ids]
           /\ \A id \in ids : \E i \in 1 .. Cardinality(ids) : InOrder(ids)[i] = id
<1> DEFINE order == {p \in ids \X ids : p[1] > p[2]}
<1>1. \A a, b \in ids : a \in Int /\ (<<a, b>> \in order <=> a > b)
  OBVIOUS
<1>2. TotalOn(order, ids)
  <2> HIDE DEF order
  <2> QED BY <1>1 DEF TotalOn
<1>3. InOrder(ids) = Ranked(ids, order)
  BY DEF InOrder
<1> HIDE DEF order
<1>4. /\ Cardinality(ids) \in Nat
      /\ Ranked(ids, order) \in [1 .. Cardinality(ids) -> ids]
      /\ \A x \in ids : \E i \in 1 .. Cardinality(ids) : Ranked(ids, order)[i] = x
  BY <1>2, RankedIsSorted
<1> QED BY <1>3, <1>4

\* Of T, the notices with a similarity among ids, the k most similar are k of
\* them, or all.
LEMMA MostSimilarIsFull ==
    ASSUME NEW ids, NEW sims, NEW k \in Nat, IsFiniteSet(ids),
           \A a, b \in DOMAIN sims : sims[a] \in Int /\ (sims[a] = sims[b] => a = b)
    PROVE  LET T == ids \cap DOMAIN sims
               few == IF Cardinality(T) < k THEN Cardinality(T) ELSE k
           IN  /\ IsFiniteSet(T) /\ MostSimilar(sims, ids, k) \subseteq T
               /\ Cardinality(MostSimilar(sims, ids, k)) >= few
<1> DEFINE T == ids \cap DOMAIN sims
           N == Cardinality(T)
           few == IF N < k THEN N ELSE k
           order == {p \in T \X T : sims[p[1]] > sims[p[2]]}
           best == MostSimilar(sims, ids, k)
<1>1. IsFiniteSet(T)
  BY FS_Intersection
<1>2. \A x, y \in T : <<x, y>> \in order <=> sims[x] > sims[y]
  OBVIOUS
<1>3. TotalOn(order, T)
  <2>1. \A a, b \in T : sims[a] \in Int /\ (sims[a] = sims[b] => a = b)
    OBVIOUS
  <2> HIDE DEF order, T
  <2> QED BY <1>2, <2>1 DEF TotalOn
<1>4. N \in Nat /\ \A x \in T : Rank(T, order, x) \in 0 .. (N - 1)
  BY <1>1, <1>3, RankGrows
<1>5. best = {x \in T : Rank(T, order, x) < k}
  <2>1. \A x \in T : {y \in T : <<y, x>> \in order} = {y \in T : sims[y] > sims[x]}
    OBVIOUS
  <2> HIDE DEF order
  <2>2. \A x \in T : Rank(T, order, x) = Cardinality({y \in T : sims[y] > sims[x]})
    BY <2>1 DEF Rank
  <2> QED BY <2>2 DEF MostSimilar
<1>6. best \subseteq T /\ IsFiniteSet(best) /\ Cardinality(best) \in Nat
  <2>1. best \in SUBSET T
    BY <1>5
  <2> HIDE DEF best
  <2>2. IsFiniteSet(best)
    BY <1>1, <2>1, FS_Subset
  <2> QED BY <2>1, <2>2, FS_CardinalityType
<1> DEFINE place == [x \in best |-> Rank(T, order, x)]
<1>7. few \in Nat /\ few <= N /\ few <= k
  BY <1>4
<1>8. place \in [best -> 0 .. (few - 1)]
  <2>1. \A x \in best : Rank(T, order, x) \in 0 .. (few - 1)
    <3> HIDE DEF best, order, T, N
    <3> QED BY <1>4, <1>5
  <2> HIDE DEF best
  <2> QED BY <2>1
<1>9. ASSUME NEW n \in 0 .. (few - 1)
      PROVE  \E x \in best : place[x] = n
  <2>1. n \in 0 .. (N - 1) /\ n < k
    BY <1>4, <1>7
  <2>2. PICK x \in T : Rank(T, order, x) = n
    <3> HIDE DEF order, T
    <3>1. \A m \in 0 .. (Cardinality(T) - 1) : \E x \in T : Rank(T, order, x) = m
      BY <1>1, <1>3, RankHitsEveryPlace
    <3> QED BY <2>1, <3>1
  <2>3. x \in best
    BY <1>5, <2>1, <2>2
  <2> HIDE DEF best, T, order
  <2> QED BY <2>2, <2>3
<1>10. place \in Surjection(best, 0 .. (few - 1))
  <2> HIDE DEF place, best, few
  <2> QED BY <1>8, <1>9, Fun_IsSurj
<1>11. Cardinality(0 .. (few - 1)) = few
  <2>1. 0 \in Int /\ few - 1 \in Int
    BY <1>7
  <2>2. Cardinality(0 .. (few - 1)) = IF 0 > few - 1 THEN 0 ELSE (few - 1) - 0 + 1
    BY <2>1, FS_Interval
  <2> QED BY <1>7, <2>2
<1>12. Cardinality(best) >= few
  <2> HIDE DEF place, best, few
  <2>1. Cardinality(0 .. (few - 1)) <= Cardinality(best)
    BY <1>6, <1>10, FS_Surjection
  <2> QED BY <1>6, <1>7, <1>11, <2>1
<1> QED BY <1>1, <1>6, <1>12

-----------------------------------------------------------------------------
\* Scores.

Said == UNION {Versions[id] : id \in Notice}
Points == 0 .. 100 * Unit
Fits == [item : Points, business : Points, growth : Points, bonus : Points]
Counts == [eligibility : Nat, item : Nat, criteria : Nat, bonus : Nat]
Told == [item : Nat, criteria : Nat, bonus : Nat]
Verdicts == [answer : Answers, asked : Counts, of : {Printed(c) : c \in Profile}]

\* What the texts say are finite sets of words.
LEMMA FiniteTexts ==
    /\ \A n \in Said : /\ IsFiniteSet(n.about) /\ IsFiniteSet(n.seeks)
                       /\ IsFiniteSet(n.signals) /\ IsFiniteSet(n.preferred)
                       /\ n.industries \in Nat /\ n.criteria \in Nat
    /\ \A p \in Plan : /\ IsFiniteSet(p.product) /\ IsFiniteSet(p.edge)
                       /\ IsFiniteSet(p.growth) /\ IsFiniteSet(p.team)
                       /\ IsFiniteSet(p.field)
BY WordsAssumption DEF Said

LEMMA UnitIsNat == Unit \in Nat
BY SMT DEF Unit

\* 0, 50 and 100 points.
LEMMA AnswersAreScores ==
    /\ 100 * Unit \in Nat /\ Points = 0 .. 100 * Unit
    /\ Neutral \in Points /\ Answers \subseteq Points
BY UnitIsNat DEF Points, Answers, Neutral

\* _overlap_score stays between 0 and 100 points.
LEMMA OverlapInRange ==
    ASSUME NEW l, NEW r, IsFiniteSet(l), IsFiniteSet(r), NEW default \in Points
    PROVE  Overlap(l, r, default) \in Points
<1> DEFINE base == IF Cardinality(l) < Cardinality(r) THEN Cardinality(l) ELSE Cardinality(r)
           common == Cardinality(l \cap r)
<1>1. Cardinality(l) \in Nat /\ Cardinality(r) \in Nat
  BY FS_CardinalityType
<1>2. common \in Nat /\ common <= base
  <2>1. IsFiniteSet(l \cap r) /\ common <= Cardinality(l)
    BY FS_Intersection
  <2>2. common <= Cardinality(r)
    BY FS_Intersection
  <2>3. common \in Nat
    BY <2>1, FS_CardinalityType
  <2> QED BY <1>1, <2>1, <2>2, <2>3
<1>3. base \in Nat
  BY <1>1
<1>4. Overlap(l, r, default) =
        IF base = 0 THEN default ELSE 35 * Unit + (65 * Unit * common) \div base
  BY DEF Overlap
<1> HIDE DEF base, common
<1>5. CASE base = 0
  BY <1>4, <1>5
<1>6. CASE base # 0
  <2> DEFINE K == 65 * Unit
  <2>1. K \in Nat
    BY UnitIsNat
  <2>2. K * common \in Nat /\ K * common <= K * base
    <3> HIDE DEF K
    <3> QED BY <1>2, <1>3, <2>1, Z3
  <2>3. (K * common) \div base \in 0 .. K
    <3> HIDE DEF K
    <3> QED BY <1>3, <1>6, <2>1, <2>2, DivBound
  <2> DEFINE q == (K * common) \div base
  <2>4. Overlap(l, r, default) = 35 * Unit + q
    BY <1>4, <1>6
  <2> HIDE DEF q
  <2> QED BY <2>3, <2>4, UnitIsNat DEF Points, q
<1> QED BY <1>5, <1>6

\* What the words give is in range, for the words of the plan and the notice.
LEMMA KeywordInRange ==
    ASSUME NEW p \in Plan, NEW n \in Said
    PROVE  Keyword(p, n) \in Fits
<1> DEFINE item == p.product \cup p.edge
           growth == p.growth \cup p.team
           wants == n.seeks \cup n.signals \cup n.preferred
           says == n.about \cup n.signals
           worth == p.edge \cup p.team
<1>1. /\ IsFiniteSet(item) /\ IsFiniteSet(growth) /\ IsFiniteSet(worth)
      /\ IsFiniteSet(wants) /\ IsFiniteSet(says)
      /\ IsFiniteSet(n.about) /\ IsFiniteSet(n.preferred) /\ IsFiniteSet(p.field)
  <2>1. IsFiniteSet(n.seeks \cup n.signals)
    BY FiniteTexts, FS_Union
  <2>2. IsFiniteSet(wants)
    BY <2>1, FiniteTexts, FS_Union
  <2> HIDE DEF wants
  <2> QED BY <2>2, FiniteTexts, FS_Union
<1>2. Neutral \in Points /\ 0 \in Points
  BY AnswersAreScores
<1> DEFINE o1 == Overlap(item, n.about, Neutral)
           o2 == Overlap(p.field, says, Neutral)
           o3 == Overlap(item, wants, Neutral)
           o4 == Overlap(growth, wants, Neutral)
           o5 == Overlap(worth, n.preferred, 0)
<1>3. o1 \in Points /\ o2 \in Points /\ o3 \in Points /\ o4 \in Points /\ o5 \in Points
  <2> HIDE DEF item, growth, wants, says, worth
  <2> QED BY <1>1, <1>2, OverlapInRange
<1>4. Keyword(p, n) = [item |-> (7 * o1 + 3 * o2) \div 10, business |-> o3,
                       growth |-> o4, bonus |-> o5]
  BY DEF Keyword
<1> HIDE DEF o1, o2, o3, o4, o5
<1>5. (7 * o1 + 3 * o2) \div 10 \in Points
  <2> DEFINE K == 100 * Unit
  <2>1. K \in Nat /\ o1 \in 0 .. K /\ o2 \in 0 .. K
    BY <1>3, AnswersAreScores
  <2> HIDE DEF K
  <2>2. (7 * o1 + 3 * o2) \div (7 + 3) \in 0 .. K
    BY <2>1, MeanBound
  <2> QED BY <2>2, AnswersAreScores DEF K
<1> QED BY <1>3, <1>4, <1>5 DEF Fits

\* _confidence_blend of two scores in range is in range, for any count.
LEMMA BlendInRange ==
    ASSUME NEW llm \in Answers \cup {None}, NEW count \in Nat, NEW keyword \in Points
    PROVE  Blend(llm, count, keyword) \in Points
<1>1. CASE llm = None \/ count = 0
  BY <1>1 DEF Blend
<1>2. CASE llm # None /\ count >= 3
  BY <1>2, AnswersAreScores DEF Blend
<1>3. CASE llm # None /\ count \in {1, 2}
  <2> DEFINE K == 100 * Unit
  <2>1. K \in Nat /\ llm \in 0 .. K /\ keyword \in 0 .. K
    BY <1>3, AnswersAreScores
  <2> DEFINE rest == 3 - count
  <2>2. Blend(llm, count, keyword) = (count * llm + rest * keyword) \div 3
    BY <1>3 DEF Blend
  <2>3. rest \in Nat /\ count + rest = 3
    BY <1>3
  <2> HIDE DEF K, rest
  <2>4. (count * llm + rest * keyword) \div (count + rest) \in 0 .. K
    <3>1. rest \in Nat /\ count + rest # 0
      BY <2>3
    <3> QED BY <2>1, <3>1, MeanBound, Zenon
  <2> QED BY <2>2, <2>3, <2>4, AnswersAreScores DEF K
<1> QED BY <1>1, <1>2, <1>3

LEMMA FitInRange ==
    ASSUME NEW p \in Plan, NEW n \in Said, NEW j, j # None => j \in Verdicts,
           NEW count \in Told
    PROVE  Fit(p, n, j, count) \in Fits
<1> DEFINE kw == Keyword(p, n)
<1>1. kw \in Fits
  BY KeywordInRange
<1>2. \A g \in {"item", "criteria", "bonus"} : GroupScore(j, g) \in Answers \cup {None}
  BY DEF GroupScore, Verdicts
<1>3. /\ kw.item \in Points /\ kw.business \in Points /\ kw.growth \in Points
      /\ kw.bonus \in Points /\ count.item \in Nat /\ count.criteria \in Nat
      /\ count.bonus \in Nat
  BY <1>1 DEF Fits, Told
<1>4. /\ Blend(GroupScore(j, "item"), count.item, kw.item) \in Points
      /\ Blend(GroupScore(j, "criteria"), count.criteria, kw.business) \in Points
      /\ Blend(GroupScore(j, "criteria"), count.criteria, kw.growth) \in Points
      /\ Blend(GroupScore(j, "bonus"), count.bonus, kw.bonus) \in Points
  <2> HIDE DEF kw
  <2> QED BY <1>2, <1>3, BlendInRange
<1> QED BY <1>1, <1>3, <1>4 DEF Fit, Fits

\* The eligibility score: between 0 and 100, whatever is unknown.
LEMMA EligibilityInRange ==
    ASSUME NEW n, NEW c
    PROVE  EligibilityScore(n, c) \in 0 .. 100
<1> DEFINE sum == 55 + RegionScore(n, c) + SizeScore(n, c) + StageScore(n, c)
<1>1. /\ RegionScore(n, c) \in {15, 20, -15} /\ SizeScore(n, c) \in {5, 15, 8, -10}
      /\ StageScore(n, c) \in {5, 10, 0}
  BY DEF RegionScore, SizeScore, StageScore
<1>2. sum \in 30 .. 100
  BY <1>1
<1>3. EligibilityScore(n, c) =
        LET score == IF sum > 100 THEN 100 ELSE sum
        IN  IF InstitutionOnly(n) /\ score > 20 THEN 20 ELSE score
  BY DEF EligibilityScore
<1> HIDE DEF sum
<1> QED BY <1>2, <1>3

LEMMA TotalInRange ==
    ASSUME NEW c, NEW p \in Plan, NEW n \in Said, NEW j, j # None => j \in Verdicts,
           NEW count \in Told
    PROVE  Total(c, p, n, j, count) \in 0 .. 10000 * Unit
<1> DEFINE w == Weights(n)
           f == Fit(p, n, j, count)
           e == EligibilityScore(n, c)
           sum == e * Unit * w.eligibility + f.item * w.item
                    + f.business * w.business + f.growth * w.growth + 3 * f.bonus
<1>1. w \in [eligibility : Nat, item : Nat, business : Nat, growth : Nat]
  BY DEF Weights
<1>2. f.item \in Nat /\ f.business \in Nat /\ f.growth \in Nat /\ f.bonus \in Nat
  BY FitInRange, AnswersAreScores DEF Fits
<1>3. e \in Nat /\ Unit \in Nat
  BY EligibilityInRange, UnitIsNat
<1>4. \A a, b \in Nat : a * b \in Nat
  BY Z3
<1>5. sum \in Nat
  <2>1. /\ w.eligibility \in Nat /\ w.item \in Nat /\ w.business \in Nat /\ w.growth \in Nat
    BY <1>1
  <2> HIDE DEF w, f, e
  <2>2. /\ e * Unit \in Nat /\ f.item * w.item \in Nat
        /\ f.business * w.business \in Nat /\ f.growth * w.growth \in Nat
    BY <1>2, <1>3, <1>4, <2>1
  <2>3. e * Unit * w.eligibility \in Nat
    BY <1>4, <2>1, <2>2
  <2> QED BY <1>2, <2>2, <2>3
<1>6. Total(c, p, n, j, count) = IF sum > 10000 * Unit THEN 10000 * Unit ELSE sum
  BY DEF Total
<1> HIDE DEF sum
<1> QED BY <1>3, <1>5, <1>6

Rows == [notice : Notice, total : 0 .. 10000 * Unit, fit : Fits, source : {"llm", "keyword"}]

LEMMA ResultIsRow ==
    ASSUME NEW c, NEW p \in Plan, NEW id \in Notice, NEW n \in Said,
           NEW j, j # None => j \in Verdicts, NEW count \in Told
    PROVE  Result(c, p, id, n, j, count) \in Rows /\ Result(c, p, id, n, j, count).notice = id
BY TotalInRange, FitInRange DEF Result, Rows

-----------------------------------------------------------------------------
\* The inductive invariant.

\* A judgment made of the profile c, of a notice that is or is not R&D or
\* funding: the LLM was asked the questions of that kind.
MadeFor(j, c, fit) ==
    /\ j \in Verdicts
    /\ j.of = Printed(c)
    /\ IF fit THEN j.asked.item > 0 /\ j.asked.criteria > 0
       ELSE j.asked.item = 0 /\ j.asked.criteria = 0

\* What is cached under a key was made for every lookup with that key.
CacheOK ==
    \A key \in DOMAIN cache :
        \E plan \in Plan, id \in Notice, c \in Profile, n \in Said :
            key = Key(plan, id, c, n) /\ MadeFor(cache[key], c, IsFit(n))

Partial(T) == UNION {[ids -> T] : ids \in SUBSET Notice}

Steps == {"search", "judge", "rerank", "save"}

Runs == [step : Steps, plan : Plan, profile : Profile, passed : Partial(Said),
         sims : Partial(Nat), judged : Partial(Verdicts), scored : Seq(Rows),
         fresh : SUBSET Notice]

\* No two notices are equally similar to the plan.
SimsOK(r) ==
    /\ DOMAIN r.sims \subseteq DOMAIN r.passed
    /\ \A a, b \in DOMAIN r.sims : r.sims[a] = r.sims[b] => a = b

JudgedWell(r) ==
    \A id \in DOMAIN r.judged :
        id \in DOMAIN r.passed /\ MadeFor(r.judged[id], r.profile, IsFit(r.passed[id]))

\* CategoriesGetTheirShare, of a run or of what it stored.
Shares(r) ==
    \A category \in {"rnd", "fund"} :
        LET ofIt == OfCategory(r.passed, category) \cap DOMAIN r.sims
            few  == IF Cardinality(ofIt) < CategoryTopK THEN Cardinality(ofIt) ELSE CategoryTopK
        IN  Cardinality(ofIt \cap DOMAIN r.judged) >= few

\* All that passed is there, and sorted.
BestFirst(rows, passed) ==
    /\ \A i \in DOMAIN rows : rows[i].notice \in DOMAIN passed
    /\ \A id \in DOMAIN passed : \E i \in DOMAIN rows : rows[i].notice = id
    /\ \A i, j \in DOMAIN rows : i < j => rows[i].total >= rows[j].total

RunOK ==
    run # None =>
        /\ run \in Runs
        /\ SimsOK(run) /\ JudgedWell(run)
        /\ run.fresh \subseteq DOMAIN run.judged
        /\ run.step \in {"rerank", "save"} => Shares(run) /\ BestFirst(run.scored, run.passed)

StoredOK ==
    stored # None =>
        /\ JudgedWell(stored) /\ Shares(stored) /\ BestFirst(stored.all, stored.passed)
        /\ \A i \in DOMAIN stored.results : stored.results[i] = stored.all[i]

IInv ==
    /\ profile \in Profile
    /\ notices \in [Notice -> Said] /\ \A id \in Notice : notices[id] \in Versions[id]
    /\ CacheOK /\ RunOK /\ StoredOK
    /\ runs \in 0 .. MaxRuns /\ changes \in 0 .. MaxChanges

LEMMA PartialFunction ==
    ASSUME NEW T, NEW f \in Partial(T)
    PROVE  DOMAIN f \subseteq Notice /\ f \in [DOMAIN f -> T] /\ IsFiniteSet(DOMAIN f)
<1>1. PICK ids \in SUBSET Notice : f \in [ids -> T]
  BY DEF Partial
<1>2. IsFiniteSet(ids)
  BY JudgingAssumption, FS_Subset
<1> QED BY <1>1, <1>2

LEMMA IsPartial ==
    ASSUME NEW T, NEW ids \in SUBSET Notice, NEW f \in [ids -> T]
    PROVE  f \in Partial(T)
BY DEF Partial

\* The key tells the printed profile and the kind of the notice.
LEMMA KeyTells ==
    ASSUME NEW p1, NEW i1, NEW c, NEW n, NEW p2, NEW i2, NEW d, NEW m,
           Key(p1, i1, c, n) = Key(p2, i2, d, m)
    PROVE  Printed(c) = Printed(d) /\ IsFit(n) = IsFit(m)
<1>1. Fingerprint(c) = Fingerprint(d) /\ IsFit(n) = IsFit(m)
  BY DEF Key
<1>2. /\ c.size = d.size /\ c.type = d.type /\ c.region = d.region
      /\ c.stage = d.stage /\ c.years = d.years
  BY <1>1 DEF Fingerprint
<1> QED BY <1>1, <1>2 DEF Printed

\* A new judgment asks the questions of the notice's kind, and a fit notice has some.
LEMMA NewJudgment ==
    ASSUME NEW c \in Profile, NEW n \in Said, NEW answer \in Answers
    PROVE  /\ MadeFor(Judgment(c, n, answer), c, IsFit(n))
           /\ IsFit(n) => Questions(n)
<1> DEFINE named == {a \in {"regionNames", "sizes", "stages", "required"} : n[a] # {}}
<1>1. Cardinality(named) \in Nat
  <2>1. IsFiniteSet({"regionNames", "sizes", "stages", "required"})
    <3>1. IsFiniteSet({"regionNames"} \cup {"sizes"})
      BY FS_Singleton, FS_Union
    <3>2. IsFiniteSet({"stages"} \cup {"required"})
      BY FS_Singleton, FS_Union
    <3>3. IsFiniteSet(({"regionNames"} \cup {"sizes"}) \cup ({"stages"} \cup {"required"}))
      BY <3>1, <3>2, FS_Union
    <3>4. ({"regionNames"} \cup {"sizes"}) \cup ({"stages"} \cup {"required"})
            = {"regionNames", "sizes", "stages", "required"}
      OBVIOUS
    <3> QED BY <3>3, <3>4
  <2>2. named \in SUBSET {"regionNames", "sizes", "stages", "required"}
    OBVIOUS
  <2> HIDE DEF named
  <2>3. IsFiniteSet(named)
    BY <2>1, <2>2, FS_Subset
  <2> QED BY <2>3, FS_CardinalityType
<1>2. n.industries \in Nat /\ n.criteria \in Nat /\ Cardinality(n.preferred) \in Nat
  BY FiniteTexts, FS_CardinalityType
<1>3. /\ AtLeastOne(n.industries) \in Nat \ {0}
      /\ AtLeastOne(n.criteria) \in Nat \ {0}
  BY <1>2 DEF AtLeastOne
<1>4. Criteria(n) = [eligibility |-> Cardinality(named),
                     item     |-> IF IsFit(n) THEN AtLeastOne(n.industries) ELSE 0,
                     criteria |-> IF IsFit(n) THEN AtLeastOne(n.criteria) ELSE 0,
                     bonus    |-> IF IsFit(n) THEN Cardinality(n.preferred) ELSE 0]
  BY DEF Criteria
<1> HIDE DEF named
<1>5. /\ Criteria(n) \in Counts
      /\ IF IsFit(n) THEN Criteria(n).item > 0 /\ Criteria(n).criteria > 0
         ELSE Criteria(n).item = 0 /\ Criteria(n).criteria = 0
  BY <1>1, <1>2, <1>3, <1>4 DEF Counts
<1>6. MadeFor(Judgment(c, n, answer), c, IsFit(n))
  BY <1>5 DEF MadeFor, Judgment, Verdicts
<1>7. IsFit(n) => Questions(n)
  BY <1>3, <1>4 DEF Questions
<1> QED BY <1>6, <1>7

\* What a lookup finds was made for the profile and the kind of the notice.
LEMMA CachedMadeFor ==
    ASSUME CacheOK, NEW r \in Runs, NEW id \in DOMAIN r.passed, CachedIn(r, id) # None
    PROVE  MadeFor(CachedIn(r, id), r.profile, IsFit(r.passed[id]))
<1> DEFINE key == Key(r.plan, id, r.profile, r.passed[id])
<1>1. key \in DOMAIN cache /\ CachedIn(r, id) = cache[key]
  BY DEF CachedIn
<1>2. PICK plan \in Plan, i \in Notice, c \in Profile, n \in Said :
          key = Key(plan, i, c, n) /\ MadeFor(cache[key], c, IsFit(n))
  BY <1>1 DEF CacheOK
<1>3. Printed(r.profile) = Printed(c) /\ IsFit(r.passed[id]) = IsFit(n)
  BY <1>2, KeyTells
<1> HIDE DEF key
<1> QED BY <1>1, <1>2, <1>3 DEF MadeFor

\* _judge_notice_ids keeps the judgments sound, loses none, and leaves no
\* notice that has a question without one.
LEMMA AnsweredIsSound ==
    ASSUME CacheOK, NEW r \in Runs, JudgedWell(r), r.fresh \subseteq DOMAIN r.judged,
           NEW ids \in SUBSET DOMAIN r.passed, NEW answers \in AnswersFor(r, ids),
           NEW a, a = Answered(r, ids, answers)
    PROVE  /\ a \in Runs
           /\ a.step = r.step /\ a.plan = r.plan /\ a.profile = r.profile
           /\ a.passed = r.passed /\ a.sims = r.sims /\ a.scored = r.scored
           /\ JudgedWell(a) /\ a.fresh \subseteq DOMAIN a.judged
           /\ DOMAIN r.judged \subseteq DOMAIN a.judged
           /\ \A id \in ids : Questions(r.passed[id]) => id \in DOMAIN a.judged
<1> DEFINE known == {id \in ids : CachedIn(r, id) # None}
           asked == {id \in ids \ known : Questions(r.passed[id])}
           judged == [id \in known \cup asked \cup DOMAIN r.judged |->
                         IF id \in known THEN CachedIn(r, id)
                         ELSE IF id \in asked
                              THEN Judgment(r.profile, r.passed[id], answers[id])
                         ELSE r.judged[id]]
<1>1. a = [r EXCEPT !.judged = judged, !.fresh = @ \cup asked]
  BY DEF Answered
<1>2. /\ r.passed \in Partial(Said) /\ r.judged \in Partial(Verdicts) /\ r.profile \in Profile
      /\ r.fresh \subseteq Notice
  BY DEF Runs
<1>3. /\ DOMAIN r.passed \subseteq Notice /\ r.passed \in [DOMAIN r.passed -> Said]
      /\ DOMAIN r.judged \subseteq Notice
  BY <1>2, PartialFunction
<1>4. \A id \in asked : answers[id] \in Answers
  <2>1. asked = {id \in ids : CachedIn(r, id) = None /\ Questions(r.passed[id])}
    OBVIOUS
  <2>2. answers \in [asked -> Answers]
    BY <2>1 DEF AnswersFor
  <2> HIDE DEF asked
  <2> QED BY <2>2
<1>5. ASSUME NEW id \in known \cup asked \cup DOMAIN r.judged
      PROVE  /\ id \in DOMAIN r.passed
             /\ MadeFor(judged[id], r.profile, IsFit(r.passed[id]))
  <2>1. CASE id \in known
    <3>1. judged[id] = CachedIn(r, id)
      BY <2>1
    <3> HIDE DEF judged
    <3> QED BY <2>1, <3>1, CachedMadeFor
  <2>2. CASE id \in asked /\ id \notin known
    <3>1. judged[id] = Judgment(r.profile, r.passed[id], answers[id])
      BY <2>2
    <3>2. id \in DOMAIN r.passed /\ r.passed[id] \in Said /\ answers[id] \in Answers
      BY <1>3, <1>4, <2>2
    <3> HIDE DEF judged
    <3> QED BY <1>2, <3>1, <3>2, NewJudgment
  <2>3. CASE id \notin known \cup asked
    <3>1. judged[id] = r.judged[id] /\ id \in DOMAIN r.judged
      BY <2>3
    <3> HIDE DEF judged
    <3> QED BY <3>1 DEF JudgedWell
  <2> QED BY <2>1, <2>2, <2>3
<1>6. /\ judged \in Partial(Verdicts)
      /\ DOMAIN judged = known \cup asked \cup DOMAIN r.judged
  <2>1. DOMAIN judged = known \cup asked \cup DOMAIN r.judged
    OBVIOUS
  <2>2. \A id \in DOMAIN judged : judged[id] \in Verdicts
    <3> HIDE DEF judged, known, asked
    <3> QED BY <1>5, <2>1 DEF MadeFor
  <2>3. DOMAIN judged \in SUBSET Notice
    BY <1>3
  <2>4. judged \in [DOMAIN judged -> Verdicts]
    BY <2>2
  <2> HIDE DEF judged, known, asked
  <2> QED BY <2>1, <2>3, <2>4, IsPartial
<1>7. asked \subseteq Notice /\ asked \subseteq DOMAIN judged
  BY <1>3, <1>6
<1>8. \A id \in ids : Questions(r.passed[id]) => id \in DOMAIN judged
  BY <1>6
<1> HIDE DEF known, asked, judged
<1>9. /\ a \in Runs
      /\ a.step = r.step /\ a.plan = r.plan /\ a.profile = r.profile
      /\ a.passed = r.passed /\ a.sims = r.sims /\ a.scored = r.scored
      /\ a.judged = judged /\ a.fresh = r.fresh \cup asked
  BY <1>1, <1>2, <1>6, <1>7 DEF Runs
<1> QED BY <1>5, <1>6, <1>7, <1>8, <1>9 DEF JudgedWell

LEMMA CandidatesPassed ==
    ASSUME NEW r \in Runs, SimsOK(r)
    PROVE  JudgeCandidates(r) \in SUBSET DOMAIN r.passed
BY DEF JudgeCandidates, MostSimilar, SimsOK

\* When every candidate that has a question is judged, each category has its share.
LEMMA JudgedShares ==
    ASSUME NEW r \in Runs, SimsOK(r), NEW a, a.passed = r.passed, a.sims = r.sims,
           a.judged \in Partial(Verdicts),
           \A id \in JudgeCandidates(r) : Questions(r.passed[id]) => id \in DOMAIN a.judged
    PROVE  Shares(a)
<1> SUFFICES ASSUME NEW category \in {"rnd", "fund"}
             PROVE  LET ofIt == OfCategory(a.passed, category) \cap DOMAIN a.sims
                        few  == IF Cardinality(ofIt) < CategoryTopK THEN Cardinality(ofIt)
                                ELSE CategoryTopK
                    IN  Cardinality(ofIt \cap DOMAIN a.judged) >= few
  BY DEF Shares
<1> DEFINE ids == OfCategory(r.passed, category)
           ofIt == ids \cap DOMAIN r.sims
           few == IF Cardinality(ofIt) < CategoryTopK THEN Cardinality(ofIt) ELSE CategoryTopK
           best == MostSimilar(r.sims, ids, CategoryTopK)
<1>1. /\ r.passed \in [DOMAIN r.passed -> Said] /\ IsFiniteSet(DOMAIN r.passed)
      /\ r.sims \in [DOMAIN r.sims -> Nat]
  <2>1. r.passed \in Partial(Said) /\ r.sims \in Partial(Nat)
    BY DEF Runs
  <2> QED BY <2>1, PartialFunction
<1>2. IsFiniteSet(ids)
  <2>1. ids \in SUBSET DOMAIN r.passed
    BY DEF OfCategory
  <2> HIDE DEF ids
  <2> QED BY <1>1, <2>1, FS_Subset
<1>3. \A x, y \in DOMAIN r.sims : r.sims[x] \in Int /\ (r.sims[x] = r.sims[y] => x = y)
  BY <1>1 DEF SimsOK
<1>4. CategoryTopK \in Nat
  BY JudgingAssumption
<1>5. IsFiniteSet(ofIt) /\ best \subseteq ofIt /\ Cardinality(best) >= few
  <2> HIDE DEF ids
  <2> QED BY <1>2, <1>3, <1>4, MostSimilarIsFull
<1>6. best \subseteq DOMAIN a.judged
  <2> SUFFICES ASSUME NEW id \in best PROVE id \in DOMAIN a.judged
    OBVIOUS
  <2>1. id \in JudgeCandidates(r)
    BY DEF JudgeCandidates
  <2>2. id \in DOMAIN r.passed /\ r.passed[id].category = category
    BY <1>5 DEF OfCategory
  <2>3. IsFit(r.passed[id]) /\ r.passed[id] \in Said
    BY <1>1, <2>2 DEF IsFit
  <2>4. r.profile \in Profile
    BY DEF Runs
  <2>5. 0 \in Answers
    BY DEF Answers
  <2>6. Questions(r.passed[id])
    BY <2>3, <2>4, <2>5, NewJudgment
  <2> QED BY <2>1, <2>6
<1>7. Cardinality(ofIt \cap DOMAIN a.judged) >= Cardinality(best)
  <2>1. best \in SUBSET (ofIt \cap DOMAIN a.judged)
    BY <1>5, <1>6
  <2>2. IsFiniteSet(ofIt \cap DOMAIN a.judged)
    BY <1>5, FS_Intersection
  <2> HIDE DEF best, ofIt
  <2>3. Cardinality(best) <= Cardinality(ofIt \cap DOMAIN a.judged)
    BY <2>1, <2>2, FS_Subset
  <2>4. Cardinality(best) \in Nat /\ Cardinality(ofIt \cap DOMAIN a.judged) \in Nat
    BY <2>1, <2>2, FS_Subset, FS_CardinalityType
  <2> QED BY <2>3, <2>4
<1>8. /\ few \in Nat /\ Cardinality(best) \in Nat
      /\ Cardinality(ofIt \cap DOMAIN a.judged) \in Nat
  <2>1. IsFiniteSet(best) /\ IsFiniteSet(ofIt \cap DOMAIN a.judged)
    BY <1>5, FS_Subset, FS_Intersection
  <2>2. Cardinality(ofIt) \in Nat
    BY <1>5, FS_CardinalityType
  <2> HIDE DEF best, ofIt
  <2> QED BY <1>4, <2>1, <2>2, FS_CardinalityType
<1>9. Cardinality(ofIt \cap DOMAIN a.judged) >= few
  <2> HIDE DEF best, ofIt, few
  <2> QED BY <1>5, <1>7, <1>8
<1> QED BY <1>9

\* More judgments take no share away.
LEMMA SharesStay ==
    ASSUME NEW r, Shares(r), NEW a, a.passed = r.passed, a.sims = r.sims,
           r.passed \in Partial(Said), DOMAIN r.judged \subseteq DOMAIN a.judged
    PROVE  Shares(a)
<1> SUFFICES ASSUME NEW category \in {"rnd", "fund"}
             PROVE  LET ofIt == OfCategory(a.passed, category) \cap DOMAIN a.sims
                        few  == IF Cardinality(ofIt) < CategoryTopK THEN Cardinality(ofIt)
                                ELSE CategoryTopK
                    IN  Cardinality(ofIt \cap DOMAIN a.judged) >= few
  BY DEF Shares
<1> DEFINE ofIt == OfCategory(r.passed, category) \cap DOMAIN r.sims
           few == IF Cardinality(ofIt) < CategoryTopK THEN Cardinality(ofIt) ELSE CategoryTopK
<1>1. Cardinality(ofIt \cap DOMAIN r.judged) >= few
  BY DEF Shares
<1>2. IsFiniteSet(ofIt)
  <2>1. ofIt \in SUBSET DOMAIN r.passed
    BY DEF OfCategory
  <2> HIDE DEF ofIt
  <2> QED BY <2>1, PartialFunction, FS_Subset
<1>3. /\ few \in Nat
      /\ Cardinality(ofIt \cap DOMAIN r.judged) \in Nat
      /\ Cardinality(ofIt \cap DOMAIN a.judged) \in Nat
      /\ IsFiniteSet(ofIt \cap DOMAIN a.judged)
  <2> HIDE DEF ofIt
  <2>1. /\ IsFiniteSet(ofIt \cap DOMAIN r.judged)
        /\ IsFiniteSet(ofIt \cap DOMAIN a.judged)
    BY <1>2, FS_Intersection
  <2>2. Cardinality(ofIt) \in Nat
    BY <1>2, FS_CardinalityType
  <2> QED BY <2>1, <2>2, FS_CardinalityType, JudgingAssumption
<1>4. Cardinality(ofIt \cap DOMAIN r.judged) <= Cardinality(ofIt \cap DOMAIN a.judged)
  <2>1. ofIt \cap DOMAIN r.judged \in SUBSET (ofIt \cap DOMAIN a.judged)
    OBVIOUS
  <2> HIDE DEF ofIt
  <2> QED BY <1>3, <2>1, FS_Subset
<1>5. Cardinality(ofIt \cap DOMAIN a.judged) >= few
  <2> HIDE DEF ofIt, few
  <2> QED BY <1>1, <1>3, <1>4
<1> QED BY <1>5

\* A judgment that is there, or None; its counts are numbers.
LEMMA JudgmentOrNone ==
    ASSUME NEW r \in Runs, NEW id
    PROVE  /\ JudgedOf(r, id) # None => JudgedOf(r, id) \in Verdicts
           /\ Counted(JudgedOf(r, id)) \in Told /\ NoCount \in Told
<1>1. r.judged \in [DOMAIN r.judged -> Verdicts]
  <2>1. r.judged \in Partial(Verdicts)
    BY DEF Runs
  <2> QED BY <2>1, PartialFunction
<1>2. JudgedOf(r, id) # None => JudgedOf(r, id) \in Verdicts
  BY <1>1 DEF JudgedOf
<1>3. NoCount \in Told
  BY DEF NoCount, Told
<1>4. Counted(JudgedOf(r, id)) \in Told
  BY <1>2, <1>3 DEF Counted, Verdicts, Counts, Told
<1> QED BY <1>2, <1>3, <1>4

\* Sorting the rows of everything that passed keeps them all.
LEMMA SortedIsBestFirst ==
    ASSUME NEW N \in Nat, NEW results \in [1 .. N -> Rows], NEW passed,
           \A i \in 1 .. N : results[i].notice \in DOMAIN passed,
           \A id \in DOMAIN passed : \E i \in 1 .. N : results[i].notice = id
    PROVE  ByTotal(results) \in Seq(Rows) /\ BestFirst(ByTotal(results), passed)
<1> DEFINE sorted == ByTotal(results)
<1>1. \A x \in Rows : x.total \in Int
  BY UnitIsNat DEF Rows
<1>2. /\ sorted \in [1 .. N -> Rows]
      /\ \A i \in 1 .. N : \E j \in 1 .. N : sorted[j] = results[i]
      /\ \A i \in 1 .. N : \E j \in 1 .. N : sorted[i] = results[j]
      /\ \A i, j \in 1 .. N : i < j => sorted[i].total >= sorted[j].total
  BY <1>1, ByTotalSorts
<1> HIDE DEF sorted
<1>3. sorted \in Seq(Rows)
  BY <1>2
<1>4. DOMAIN sorted = 1 .. N
  BY <1>2
<1>5. ASSUME NEW i \in 1 .. N
      PROVE  sorted[i].notice \in DOMAIN passed
  <2>1. PICK j \in 1 .. N : sorted[i] = results[j]
    BY <1>2
  <2> QED BY <2>1
<1>6. ASSUME NEW id \in DOMAIN passed
      PROVE  \E i \in 1 .. N : sorted[i].notice = id
  <2>1. PICK i \in 1 .. N : results[i].notice = id
    OBVIOUS
  <2>2. PICK j \in 1 .. N : sorted[j] = results[i]
    BY <1>2
  <2> QED BY <2>1, <2>2
<1>7. BestFirst(sorted, passed)
  BY <1>2, <1>4, <1>5, <1>6 DEF BestFirst
<1> QED BY <1>3, <1>7 DEF sorted

\* Everything that passed is scored and sorted.
LEMMA ScoredIsBestFirst ==
    ASSUME NEW r \in Runs
    PROVE  Scored(r) \in Seq(Rows) /\ BestFirst(Scored(r), r.passed)
<1> DEFINE N == Cardinality(DOMAIN r.passed)
           ids == InOrder(DOMAIN r.passed)
           row(id) == Result(r.profile, r.plan, id, r.passed[id], JudgedOf(r, id),
                             Counted(JudgedOf(r, id)))
           results == [i \in DOMAIN ids |-> row(ids[i])]
<1>1. /\ DOMAIN r.passed \subseteq Notice /\ IsFiniteSet(DOMAIN r.passed)
      /\ r.passed \in [DOMAIN r.passed -> Said] /\ DOMAIN r.passed \subseteq Nat
  <2>1. r.passed \in Partial(Said)
    BY DEF Runs
  <2> QED BY <2>1, PartialFunction, JudgingAssumption
<1>2. /\ N \in Nat /\ ids \in [1 .. N -> DOMAIN r.passed] /\ DOMAIN ids = 1 .. N
      /\ \A id \in DOMAIN r.passed : \E i \in 1 .. N : ids[i] = id
  <2>1. /\ N \in Nat /\ ids \in [1 .. N -> DOMAIN r.passed]
        /\ \A id \in DOMAIN r.passed : \E i \in 1 .. N : ids[i] = id
    BY <1>1, InOrderListsAll
  <2> HIDE DEF ids
  <2> QED BY <2>1
<1>3. ASSUME NEW id \in DOMAIN r.passed
      PROVE  row(id) \in Rows /\ row(id).notice = id
  <2>1. r.plan \in Plan /\ id \in Notice /\ r.passed[id] \in Said
    BY <1>1 DEF Runs
  <2> QED BY <2>1, JudgmentOrNone, ResultIsRow
<1> HIDE DEF row, ids, N
<1>4. /\ results \in [1 .. N -> Rows]
      /\ \A i \in 1 .. N : results[i].notice = ids[i]
  BY <1>2, <1>3
<1>5. Scored(r) = ByTotal(results)
  BY DEF Scored, row, ids
<1>6. /\ \A i \in 1 .. N : results[i].notice \in DOMAIN r.passed
      /\ \A id \in DOMAIN r.passed : \E i \in 1 .. N : results[i].notice = id
  BY <1>2, <1>4
<1> HIDE DEF results
<1> QED BY <1>2, <1>4, <1>5, <1>6, SortedIsBestFirst

\* Late judgments change scores and places, and lose nothing.
LEMMA RescoredIsBestFirst ==
    ASSUME NEW r \in Runs, BestFirst(r.scored, r.passed), NEW late
    PROVE  Rescored(r, late) \in Seq(Rows) /\ BestFirst(Rescored(r, late), r.passed)
<1> DEFINE N == Len(r.scored)
           row(i) == IF r.scored[i].notice \in late
                     THEN Result(r.profile, r.plan, r.scored[i].notice,
                                 r.passed[r.scored[i].notice],
                                 JudgedOf(r, r.scored[i].notice), NoCount)
                     ELSE r.scored[i]
           results == [i \in DOMAIN r.scored |-> row(i)]
<1>1. /\ DOMAIN r.passed \subseteq Notice /\ r.passed \in [DOMAIN r.passed -> Said]
  <2>1. r.passed \in Partial(Said)
    BY DEF Runs
  <2> QED BY <2>1, PartialFunction
<1>2. /\ N \in Nat /\ DOMAIN r.scored = 1 .. N
      /\ \A i \in 1 .. N : r.scored[i] \in Rows /\ r.scored[i].notice \in DOMAIN r.passed
      /\ \A id \in DOMAIN r.passed : \E i \in 1 .. N : r.scored[i].notice = id
  <2>1. r.scored \in Seq(Rows)
    BY DEF Runs
  <2> QED BY <2>1 DEF BestFirst
<1>3. ASSUME NEW i \in 1 .. N
      PROVE  row(i) \in Rows /\ row(i).notice = r.scored[i].notice
  <2> DEFINE id == r.scored[i].notice
  <2>1. r.plan \in Plan /\ id \in Notice /\ r.passed[id] \in Said
    BY <1>1, <1>2 DEF Runs
  <2> HIDE DEF id
  <2>2. /\ Result(r.profile, r.plan, id, r.passed[id], JudgedOf(r, id), NoCount) \in Rows
        /\ Result(r.profile, r.plan, id, r.passed[id], JudgedOf(r, id), NoCount).notice = id
    BY <2>1, JudgmentOrNone, ResultIsRow
  <2> QED BY <1>2, <2>2 DEF id
<1> HIDE DEF row, N
<1>4. /\ results \in [1 .. N -> Rows]
      /\ \A i \in 1 .. N : results[i].notice = r.scored[i].notice
  BY <1>2, <1>3
<1>5. Rescored(r, late) = ByTotal(results)
  BY DEF Rescored, row
<1>6. /\ \A i \in 1 .. N : results[i].notice \in DOMAIN r.passed
      /\ \A id \in DOMAIN r.passed : \E i \in 1 .. N : results[i].notice = id
  BY <1>2, <1>4
<1> HIDE DEF results
<1> QED BY <1>2, <1>4, <1>5, <1>6, SortedIsBestFirst

-----------------------------------------------------------------------------
\* The invariant is inductive, action by action.

LEMMA InitIInv == Init => IInv
<1> SUFFICES ASSUME Init PROVE IInv
  OBVIOUS
<1>1. /\ notices \in [Notice -> Said] /\ \A id \in Notice : notices[id] \in Versions[id]
  BY DEF Init, Said
<1>2. CacheOK
  BY DEF Init, CacheOK
<1>3. runs \in 0 .. MaxRuns /\ changes \in 0 .. MaxChanges
  BY JudgingAssumption DEF Init
<1> QED BY <1>1, <1>2, <1>3 DEF Init, IInv, RunOK, StoredOK

LEMMA CacheStays == ASSUME CacheOK, UNCHANGED cache PROVE CacheOK'
BY DEF CacheOK

LEMMA StoredStays == ASSUME StoredOK, UNCHANGED stored PROVE StoredOK'
BY DEF StoredOK, JudgedWell, Shares, BestFirst, OfCategory

LEMMA RunStays == ASSUME RunOK, UNCHANGED run PROVE RunOK'
BY DEF RunOK, SimsOK, JudgedWell, Shares, BestFirst, OfCategory

LEMMA EnvironmentIInv ==
    ASSUME IInv, EditProfile \/ \E id \in Notice : Renormalize(id)
    PROVE  IInv'
<1>1. CacheOK' /\ StoredOK' /\ RunOK'
  BY CacheStays, StoredStays, RunStays DEF IInv, EditProfile, Renormalize
<1>2. changes' \in 0 .. MaxChanges /\ runs' \in 0 .. MaxRuns
  BY JudgingAssumption DEF IInv, EditProfile, Renormalize
<1>3. /\ profile' \in Profile /\ notices' \in [Notice -> Said]
      /\ \A id \in Notice : notices'[id] \in Versions[id]
  BY DEF IInv, EditProfile, Renormalize, Said
<1> QED BY <1>1, <1>2, <1>3 DEF IInv

LEMMA StartIInv ==
    ASSUME IInv, NEW p \in Plan, Start(p)
    PROVE  IInv'
<1> DEFINE passed == {id \in Notice : Passes(notices[id], profile, LatestPlan.company)}
           new == [step |-> "search", plan |-> p, profile |-> profile,
                   passed |-> [id \in passed |-> notices[id]],
                   sims |-> <<>>, judged |-> <<>>, scored |-> <<>>, fresh |-> {}]
<1>1. run' = None \/ run' = new
  BY DEF Start
<1>2. new \in Runs
  <2>1. [id \in passed |-> notices[id]] \in Partial(Said)
    <3>1. passed \in SUBSET Notice
      OBVIOUS
    <3>2. [id \in passed |-> notices[id]] \in [passed -> Said]
      BY DEF IInv
    <3> HIDE DEF passed
    <3> QED BY <3>1, <3>2, IsPartial
  <2>2. <<>> \in Partial(Nat) /\ <<>> \in Partial(Verdicts)
    <3>1. {} \in SUBSET Notice
      OBVIOUS
    <3>2. <<>> \in [{} -> Nat] /\ <<>> \in [{} -> Verdicts]
      OBVIOUS
    <3> QED BY <3>1, <3>2, IsPartial
  <2>3. <<>> \in Seq(Rows)
    OBVIOUS
  <2> HIDE DEF passed
  <2> QED BY <2>1, <2>2, <2>3 DEF IInv, Runs, Steps
<1>3. SimsOK(new) /\ JudgedWell(new)
  <2>1. DOMAIN new.sims = {} /\ DOMAIN new.judged = {}
    OBVIOUS
  <2> HIDE DEF new
  <2> QED BY <2>1 DEF SimsOK, JudgedWell
<1>4. new.fresh \subseteq DOMAIN new.judged /\ new.step \notin {"rerank", "save"}
  OBVIOUS
<1>5. RunOK'
  <2> HIDE DEF new
  <2> QED BY <1>1, <1>2, <1>3, <1>4 DEF RunOK
<1>6. CacheOK' /\ StoredOK'
  BY CacheStays, StoredStays DEF IInv, Start
<1> QED BY <1>5, <1>6, JudgingAssumption DEF IInv, Start

LEMMA SearchIInv ==
    ASSUME IInv, Search
    PROVE  IInv'
<1>1. run \in Runs /\ SimsOK(run) /\ JudgedWell(run) /\ run.fresh \subseteq DOMAIN run.judged
  BY DEF IInv, RunOK, Search
<1>2. PICK found \in SUBSET DOMAIN run.passed :
        \E sims \in {s \in [found -> 1 .. Cardinality(found)] :
                       \A a, b \in found : s[a] = s[b] => a = b} :
           run' = [run EXCEPT !.step = "judge", !.sims = sims]
  BY DEF Search
<1>3. PICK sims \in {s \in [found -> 1 .. Cardinality(found)] :
                       \A a, b \in found : s[a] = s[b] => a = b} :
           run' = [run EXCEPT !.step = "judge", !.sims = sims]
  BY <1>2
<1>4. sims \in Partial(Nat) /\ DOMAIN sims = found
  <2>1. found \in SUBSET Notice
    <3>1. run.passed \in Partial(Said)
      BY <1>1 DEF Runs
    <3> QED BY <3>1, PartialFunction
  <2>2. Cardinality(found) \in Nat
    BY <2>1, JudgingAssumption, FS_Subset, FS_CardinalityType
  <2>3. sims \in [found -> Nat]
    BY <2>2
  <2> QED BY <2>1, <2>3, IsPartial
<1>5. /\ run' \in Runs
      /\ run'.step = "judge" /\ run'.sims = sims /\ run'.passed = run.passed
      /\ run'.profile = run.profile /\ run'.judged = run.judged /\ run'.fresh = run.fresh
  BY <1>1, <1>3, <1>4 DEF Runs, Steps
<1>6. SimsOK(run)'
  BY <1>4, <1>5 DEF SimsOK
<1>7. JudgedWell(run)'
  BY <1>1, <1>5 DEF JudgedWell
<1>8. RunOK'
  BY <1>1, <1>5, <1>6, <1>7 DEF RunOK
<1>9. CacheOK' /\ StoredOK'
  BY CacheStays, StoredStays DEF IInv, Search
<1> QED BY <1>8, <1>9 DEF IInv, Search

LEMMA FailIInv ==
    ASSUME IInv, Fail
    PROVE  IInv'
<1>1. CacheOK' /\ StoredOK'
  BY CacheStays, StoredStays DEF IInv, Fail
<1>2. RunOK'
  BY DEF RunOK, Fail
<1> QED BY <1>1, <1>2 DEF IInv, Fail

LEMMA JudgeIInv ==
    ASSUME IInv, Judge
    PROVE  IInv'
<1>1. run \in Runs /\ SimsOK(run) /\ JudgedWell(run) /\ run.fresh \subseteq DOMAIN run.judged
  BY DEF IInv, RunOK, Judge
<1>2. PICK answers \in AnswersFor(run, JudgeCandidates(run)) :
         LET judged == Answered(run, JudgeCandidates(run), answers)
         IN  run' = [judged EXCEPT !.step = "rerank", !.scored = Scored(judged)]
  BY DEF Judge
<1> DEFINE a == Answered(run, JudgeCandidates(run), answers)
<1>3. JudgeCandidates(run) \in SUBSET DOMAIN run.passed
  BY <1>1, CandidatesPassed
<1>4. /\ a \in Runs
      /\ a.step = run.step /\ a.plan = run.plan /\ a.profile = run.profile
      /\ a.passed = run.passed /\ a.sims = run.sims /\ a.scored = run.scored
      /\ JudgedWell(a) /\ a.fresh \subseteq DOMAIN a.judged
      /\ \A id \in JudgeCandidates(run) : Questions(run.passed[id]) => id \in DOMAIN a.judged
  BY <1>1, <1>3, AnsweredIsSound DEF IInv
<1>5. run' = [a EXCEPT !.step = "rerank", !.scored = Scored(a)]
  BY <1>2
<1> HIDE DEF a
<1>6. Scored(a) \in Seq(Rows) /\ BestFirst(Scored(a), a.passed)
  BY <1>4, ScoredIsBestFirst
<1>7. Shares(a)
  <2>1. a.judged \in Partial(Verdicts)
    BY <1>4 DEF Runs
  <2> QED BY <1>1, <1>4, <2>1, JudgedShares
<1>8. /\ run' \in Runs
      /\ run'.sims = a.sims /\ run'.passed = a.passed /\ run'.profile = a.profile
      /\ run'.judged = a.judged /\ run'.fresh = a.fresh /\ run'.scored = Scored(a)
  BY <1>4, <1>5, <1>6 DEF Runs, Steps
<1>9. SimsOK(run)'
  BY <1>1, <1>4, <1>8 DEF SimsOK
<1>10. JudgedWell(run)' /\ Shares(run)' /\ BestFirst(run'.scored, run'.passed)
  BY <1>4, <1>6, <1>7, <1>8 DEF JudgedWell, Shares, OfCategory
<1>11. RunOK'
  BY <1>4, <1>8, <1>9, <1>10 DEF RunOK
<1>12. CacheOK' /\ StoredOK'
  BY CacheStays, StoredStays DEF IInv, Judge
<1> QED BY <1>11, <1>12 DEF IInv, Judge

LEMMA RerankIInv ==
    ASSUME IInv, Rerank
    PROVE  IInv'
<1>1. /\ run \in Runs /\ SimsOK(run) /\ JudgedWell(run)
      /\ run.fresh \subseteq DOMAIN run.judged
      /\ Shares(run) /\ BestFirst(run.scored, run.passed)
  BY DEF IInv, RunOK, Rerank
<1>2. PICK answers \in AnswersFor(run, Unjudged(run)) :
         LET judged == Answered(run, Unjudged(run), answers)
         IN  run' = [judged EXCEPT !.step = "save", !.scored = Rescored(judged, Unjudged(run))]
  BY DEF Rerank
<1> DEFINE a == Answered(run, Unjudged(run), answers)
<1>3. Unjudged(run) \in SUBSET DOMAIN run.passed
  BY <1>1 DEF Unjudged, BestFirst
<1>4. /\ a \in Runs
      /\ a.step = run.step /\ a.plan = run.plan /\ a.profile = run.profile
      /\ a.passed = run.passed /\ a.sims = run.sims /\ a.scored = run.scored
      /\ JudgedWell(a) /\ a.fresh \subseteq DOMAIN a.judged
      /\ DOMAIN run.judged \subseteq DOMAIN a.judged
  BY <1>1, <1>3, AnsweredIsSound DEF IInv
<1>5. run' = [a EXCEPT !.step = "save", !.scored = Rescored(a, Unjudged(run))]
  BY <1>2
<1> HIDE DEF a
<1>6. /\ Rescored(a, Unjudged(run)) \in Seq(Rows)
      /\ BestFirst(Rescored(a, Unjudged(run)), a.passed)
  <2>1. BestFirst(a.scored, a.passed)
    BY <1>1, <1>4
  <2> QED BY <1>4, <2>1, RescoredIsBestFirst
<1>7. Shares(a)
  <2>1. run.passed \in Partial(Said)
    BY <1>1 DEF Runs
  <2> QED BY <1>1, <1>4, <2>1, SharesStay
<1>8. /\ run' \in Runs
      /\ run'.sims = a.sims /\ run'.passed = a.passed /\ run'.profile = a.profile
      /\ run'.judged = a.judged /\ run'.fresh = a.fresh
      /\ run'.scored = Rescored(a, Unjudged(run))
  BY <1>4, <1>5, <1>6 DEF Runs, Steps
<1>9. SimsOK(run)'
  BY <1>1, <1>4, <1>8 DEF SimsOK
<1>10. JudgedWell(run)' /\ Shares(run)' /\ BestFirst(run'.scored, run'.passed)
  BY <1>4, <1>6, <1>7, <1>8 DEF JudgedWell, Shares, OfCategory
<1>11. RunOK'
  BY <1>4, <1>8, <1>9, <1>10 DEF RunOK
<1>12. CacheOK' /\ StoredOK'
  BY CacheStays, StoredStays DEF IInv, Rerank
<1> QED BY <1>11, <1>12 DEF IInv, Rerank

LEMMA SaveIInv ==
    ASSUME IInv, Save
    PROVE  IInv'
<1>1. /\ run \in Runs /\ JudgedWell(run) /\ run.fresh \subseteq DOMAIN run.judged
      /\ Shares(run) /\ BestFirst(run.scored, run.passed)
  BY DEF IInv, RunOK, Save
<1>2. run.passed \in [DOMAIN run.passed -> Said] /\ DOMAIN run.passed \subseteq Notice
  <2>1. run.passed \in Partial(Said)
    BY <1>1 DEF Runs
  <2> QED BY <2>1, PartialFunction
<1> DEFINE saved == {Key(run.plan, id, run.profile, run.passed[id]) : id \in run.fresh}
           kept == IF Len(run.scored) < MaxResults THEN Len(run.scored) ELSE MaxResults
<1>3. /\ cache' = [key \in saved \cup DOMAIN cache |->
                      IF key \in saved THEN run.judged[key[2]] ELSE cache[key]]
      /\ stored' = [profile |-> run.profile, passed |-> run.passed, sims |-> run.sims,
                    judged |-> run.judged, all |-> run.scored,
                    results |-> SubSeq(run.scored, 1, kept)]
  BY DEF Save
<1>4. CacheOK'
  <2> SUFFICES ASSUME NEW key \in DOMAIN cache'
               PROVE  \E plan \in Plan, id \in Notice, c \in Profile, n \in Said :
                          key = Key(plan, id, c, n) /\ MadeFor(cache'[key], c, IsFit(n))
    BY DEF CacheOK
  <2>1. CASE key \in saved
    <3>1. PICK id \in run.fresh : key = Key(run.plan, id, run.profile, run.passed[id])
      BY <2>1
    <3>2. key[2] = id
      BY <3>1 DEF Key
    <3>3. cache'[key] = run.judged[id]
      <4> HIDE DEF saved
      <4> QED BY <1>3, <2>1, <3>2
    <3>4. id \in DOMAIN run.passed /\ MadeFor(run.judged[id], run.profile, IsFit(run.passed[id]))
      BY <1>1 DEF JudgedWell
    <3>5. run.plan \in Plan /\ run.profile \in Profile /\ id \in Notice /\ run.passed[id] \in Said
      BY <1>1, <1>2, <3>4 DEF Runs
    <3> QED BY <3>1, <3>3, <3>4, <3>5
  <2>2. CASE key \notin saved
    <3>1. key \in DOMAIN cache /\ cache'[key] = cache[key]
      <4> HIDE DEF saved
      <4> QED BY <1>3, <2>2
    <3> QED BY <3>1 DEF IInv, CacheOK
  <2> QED BY <2>1, <2>2
<1>5. StoredOK'
  <2> HIDE DEF kept
  <2>1. /\ stored'.profile = run.profile /\ stored'.passed = run.passed
        /\ stored'.sims = run.sims /\ stored'.judged = run.judged
        /\ stored'.all = run.scored /\ stored'.results = SubSeq(run.scored, 1, kept)
    BY <1>3
  <2>2. JudgedWell(stored)' /\ Shares(stored)' /\ BestFirst(stored.all, stored.passed)'
    BY <1>1, <2>1 DEF JudgedWell, Shares, BestFirst, OfCategory
  <2>3. \A i \in DOMAIN stored'.results : stored'.results[i] = stored'.all[i]
    <3>1. run.scored \in Seq(Rows)
      BY <1>1 DEF Runs
    <3>2. kept \in 0 .. Len(run.scored)
      BY <3>1, JudgingAssumption DEF kept
    <3> QED BY <2>1, <3>1, <3>2
  <2> QED BY <2>2, <2>3 DEF StoredOK
<1>6. RunOK'
  BY DEF RunOK, Save
<1> QED BY <1>4, <1>5, <1>6 DEF IInv, Save

LEMMA NextIInv == IInv /\ [Next]_vars => IInv'
<1> SUFFICES ASSUME IInv, [Next]_vars PROVE IInv'
  OBVIOUS
<1>1. CASE UNCHANGED vars
  <2>1. CacheOK' /\ StoredOK' /\ RunOK'
    BY <1>1, CacheStays, StoredStays, RunStays DEF IInv, vars
  <2> QED BY <1>1, <2>1 DEF IInv, vars
<1>2. CASE Next
  BY <1>2, EnvironmentIInv, StartIInv, SearchIInv, FailIInv, JudgeIInv, RerankIInv, SaveIInv
     DEF Next
<1> QED BY <1>1, <1>2

\* The inductive invariant: a cached judgment was made for the profile and the
\* questions in its key; what the run holds of judgments, places and order is
\* what it will store.
THEOREM IInvHolds == Spec => []IInv
BY InitIInv, NextIInv, PTL DEF Spec

\* However the confidence of the LLM and the words are blended, scores stay
\* between 0 and 100, in every run over any notices and profiles.
THEOREM JudgingIsTyped == Spec => []TypeOK
<1>1. IInv => TypeOK
  <2> SUFFICES ASSUME IInv PROVE TypeOK
    OBVIOUS
  <2>1. ASSUME NEW key \in DOMAIN cache PROVE JudgmentOk(cache[key])
    <3>1. cache[key] \in Verdicts
      BY DEF IInv, CacheOK, MadeFor
    <3> QED BY <3>1 DEF Verdicts, Counts, JudgmentOk
  <2>2. ASSUME run # None
        PROVE  /\ run.step \in {"search", "judge", "rerank", "save"}
               /\ DOMAIN run.judged \subseteq DOMAIN run.passed
               /\ run.fresh \subseteq DOMAIN run.judged
               /\ \A i \in DOMAIN run.scored : run.scored[i] \in Rows
    <3>1. run \in Runs /\ JudgedWell(run) /\ run.fresh \subseteq DOMAIN run.judged
      BY <2>2 DEF IInv, RunOK
    <3>2. run.scored \in Seq(Rows) /\ run.step \in Steps
      BY <3>1 DEF Runs
    <3> QED BY <3>1, <3>2 DEF JudgedWell, Steps
  <2>3. ASSUME NEW row \in Rows
        PROVE  /\ row.total \in 0 .. 10000 * Unit
               /\ \A g \in DOMAIN row.fit : row.fit[g] \in 0 .. 100 * Unit
    <3>1. row.total \in 0 .. 10000 * Unit /\ row.fit \in Fits
      BY DEF Rows
    <3> QED BY <3>1 DEF Fits, Points
  <2> QED BY <2>1, <2>2, <2>3 DEF IInv, TypeOK
<1> QED BY <1>1, IInvHolds, PTL

\* The verdicts behind the stored results, cached or new, were all made of the
\* profile that the run matched (profile_fingerprint covers what is printed).
THEOREM VerdictsAreOfTheProfile == Spec => []JudgedForThisProfile
<1>1. IInv => JudgedForThisProfile
  BY DEF IInv, StoredOK, JudgedWell, MadeFor, JudgedForThisProfile
<1> QED BY <1>1, IInvHolds, PTL

\* No verdict on the questions of another kind of notice is reused.
THEOREM VerdictsAreOnTheQuestions == Spec => []FitQuestionsAsked
<1>1. IInv => FitQuestionsAsked
  BY DEF IInv, StoredOK, JudgedWell, MadeFor, FitQuestionsAsked
<1> QED BY <1>1, IInvHolds, PTL

\* R&D and funding notices each get their share of the judgments, for any
\* limits and whatever the similarities.
THEOREM EachCategoryIsJudged == Spec => []CategoriesGetTheirShare
<1>1. IInv => CategoriesGetTheirShare
  BY DEF IInv, StoredOK, Shares, CategoriesGetTheirShare
<1> QED BY <1>1, IInvHolds, PTL

\* What is stored is the best of everything that passed, in order, after the
\* late judgments as well.
THEOREM ResultsAreTheBest == Spec => []BestAreKept
<1>1. IInv => BestAreKept
  BY DEF IInv, StoredOK, BestFirst, BestAreKept
<1> QED BY <1>1, IInvHolds, PTL
=============================================================================
