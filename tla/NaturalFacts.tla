----------------------------- MODULE NaturalFacts -----------------------------
(***************************************************************************)
(* Facts about natural numbers, their sets, and orders on finite sets.     *)
(***************************************************************************)
EXTENDS Integers, FiniteSets, FiniteSetTheorems, WellFoundedInduction, TLAPS

\* A set of naturals that is not empty has a least member.
LEMMA LeastNat ==
  ASSUME NEW T \in SUBSET Nat, T # {}
  PROVE  \E x \in T : \A y \in T : x <= y
<1> DEFINE R == {p \in Nat \X Nat : p[1] < p[2]}
<1>1. OpToRel(<, Nat) = R
  BY DEF OpToRel
<1>2. IsWellFoundedOn(R, Nat)
  BY NatLessThanWellFounded, <1>1
<1> HIDE DEF R
<1>3. PICK x \in T : \A y \in T : ~ (<<y, x>> \in R)
  BY <1>2, WFMin
<1>4. \A y \in T : ~ (y < x)
  BY <1>3 DEF R
<1> QED BY <1>4

\* A finite set leaves out one of the numbers up to its size and one more.
LEMMA OneLeftOut ==
  ASSUME NEW S, IsFiniteSet(S)
  PROVE  (1 .. Cardinality(S) + 1) \ S # {}
<1>1. Cardinality(S) \in Nat
  BY FS_CardinalityType
<1>2. Cardinality(1 .. Cardinality(S) + 1) = Cardinality(S) + 1
  BY <1>1, FS_Interval
<1>3. ASSUME 1 .. Cardinality(S) + 1 \subseteq S PROVE FALSE
  <2>1. Cardinality(1 .. Cardinality(S) + 1) <= Cardinality(S)
    BY <1>3, FS_Subset
  <2> QED BY <1>1, <1>2, <2>1
<1> QED BY <1>3

\* The members of a finite set of naturals are counted out by how many members
\* are not above them: no two have the same count, and every count up to the
\* size of the set is some member's.
LEMMA CountedOut ==
  ASSUME NEW K \in SUBSET Nat, IsFiniteSet(K)
  PROVE  /\ Cardinality(K) \in Nat
         /\ \A i \in K : Cardinality({j \in K : j <= i}) \in 1 .. Cardinality(K)
         /\ \A i, k \in K :
              Cardinality({j \in K : j <= i}) = Cardinality({j \in K : j <= k}) => i = k
         /\ \A n \in 1 .. Cardinality(K) :
              \E i \in K : Cardinality({j \in K : j <= i}) = n
<1> DEFINE Upto(i) == {j \in K : j <= i}
<1> DEFINE rank == [i \in K |-> Cardinality(Upto(i))]
<1>1. Cardinality(K) \in Nat
  BY FS_CardinalityType
<1>2. ASSUME NEW i \in K
      PROVE  IsFiniteSet(Upto(i)) /\ rank[i] \in 1 .. Cardinality(K)
  <2>1. Upto(i) \subseteq K /\ i \in Upto(i) /\ {i} \subseteq Upto(i)
    OBVIOUS
  <2> HIDE DEF Upto
  <2>2. IsFiniteSet(Upto(i)) /\ Cardinality(Upto(i)) <= Cardinality(K)
    BY <2>1, FS_Subset
  <2>3. Cardinality({i}) <= Cardinality(Upto(i)) /\ Cardinality({i}) = 1
    BY <2>1, <2>2, FS_Subset, FS_Singleton
  <2>4. Cardinality(Upto(i)) \in Nat
    BY <2>2, FS_CardinalityType
  <2> QED BY <1>1, <2>2, <2>3, <2>4
<1>3. ASSUME NEW i \in K, NEW k \in K, i < k
      PROVE  rank[i] # rank[k]
  <2>0. i \in Nat /\ k \in Nat /\ \A j \in K : j \in Nat
    OBVIOUS
  <2>1. Upto(i) \subseteq Upto(k) /\ k \in Upto(k) /\ k \notin Upto(i)
    <3>1. \A j \in K : j <= i => j <= k
      BY <1>3, <2>0
    <3>2. k <= k /\ ~ (k <= i)
      BY <1>3, <2>0
    <3> QED BY <3>1, <3>2
  <2> HIDE DEF Upto
  <2>2. Upto(i) # Upto(k)
    BY <2>1
  <2>3. Cardinality(Upto(i)) # Cardinality(Upto(k))
    BY <1>2, <2>1, <2>2, FS_Subset
  <2> QED BY <2>3
<1>4. \A i, k \in K : rank[i] = rank[k] => i = k
  BY <1>3
<1>5. rank \in Injection(K, 1 .. Cardinality(K))
  BY <1>2, <1>4 DEF Injection, IsInjective
<1>6. IsFiniteSet(1 .. Cardinality(K)) /\ Cardinality(1 .. Cardinality(K)) = Cardinality(K)
  BY <1>1, FS_Interval
<1>7. rank \in Surjection(K, 1 .. Cardinality(K))
  <2> HIDE DEF rank
  <2> QED BY <1>5, <1>6, FS_Injection
<1>8. \A n \in 1 .. Cardinality(K) : \E i \in K : rank[i] = n
  BY <1>7 DEF Surjection
<1> QED BY <1>1, <1>2, <1>4, <1>8

\* A set of naturals that holds 0 and, with a number, the next holds all.
LEMMA AllNat ==
  ASSUME NEW T \in SUBSET Nat, 0 \in T, \A n \in T : n + 1 \in T
  PROVE  T = Nat
<1> SUFFICES ASSUME Nat \ T # {} PROVE FALSE
  OBVIOUS
<1>1. PICK x \in Nat \ T : \A y \in Nat \ T : x <= y
  BY LeastNat
<1>2. x # 0 /\ x - 1 \in Nat /\ ~ (x <= x - 1)
  BY <1>1
<1>3. x - 1 \in T
  BY <1>1, <1>2
<1> QED BY <1>1, <1>2, <1>3

\* The same up to a bound.
LEMMA AllUpto ==
  ASSUME NEW k \in Nat, NEW T, 0 \in T, \A n \in 0 .. k - 1 : n \in T => n + 1 \in T
  PROVE  \A n \in 0 .. k : n \in T
<1> DEFINE U == {n \in Nat : n <= k => n \in T}
<1>1. 0 \in U
  OBVIOUS
<1>2. ASSUME NEW n \in U PROVE n + 1 \in U
  BY <1>2
<1> HIDE DEF U
<1>3. U \subseteq Nat
  BY DEF U
<1>4. U = Nat
  BY <1>1, <1>2, <1>3, AllNat
<1> QED BY <1>4 DEF U

\* What is finite and not empty has a member in front of all others.
LEMMA LeastOf ==
  ASSUME NEW S, IsFiniteSet(S), S # {}, NEW R,
         \A x, y \in S : x = y \/ <<x, y>> \in R \/ <<y, x>> \in R,
         \A x, y, z \in S : <<x, y>> \in R /\ <<y, z>> \in R => <<x, z>> \in R
  PROVE  \E x \in S : \A y \in S : x = y \/ <<x, y>> \in R
<1> DEFINE Has(A) == \E x \in A : \A y \in A : x = y \/ <<x, y>> \in R
<1> DEFINE Bad == {n \in Nat : \E A \in SUBSET S :
                     A # {} /\ IsFiniteSet(A) /\ Cardinality(A) = n /\ ~ Has(A)}
<1>1. SUFFICES ASSUME Bad # {} PROVE FALSE
  BY FS_CardinalityType
<1>2. PICK n \in Bad : \A m \in Bad : n <= m
  BY <1>1, LeastNat
<1>3. PICK A \in SUBSET S : A # {} /\ IsFiniteSet(A) /\ Cardinality(A) = n /\ ~ Has(A)
  BY <1>2
<1>4. PICK o \in A : TRUE
  BY <1>3
<1>5. IsFiniteSet(A \ {o}) /\ Cardinality(A \ {o}) = n - 1
  BY <1>3, <1>4, FS_RemoveElement
<1>6. n \in Nat /\ n - 1 \in Nat
  BY <1>5, <1>2, FS_CardinalityType
<1>7. n - 1 \notin Bad
  BY <1>2, <1>6
<1>8. CASE A \ {o} = {}
  <2>1. \A y \in A : o = y
    BY <1>8
  <2> QED BY <2>1, <1>3, <1>4
<1>9. CASE A \ {o} # {}
  <2>1. Has(A \ {o})
    BY <1>5, <1>6, <1>7, <1>9
  <2>2. PICK x \in A \ {o} : \A y \in A \ {o} : x = y \/ <<x, y>> \in R
    BY <2>1
  <2>3. o \in S /\ x \in S /\ \A y \in A : y \in S
    BY <1>4, <2>2
  <2>4. CASE <<x, o>> \in R
    BY <2>2, <2>4, <1>3
  <2>5. CASE <<o, x>> \in R
    <3>1. \A y \in A : o = y \/ <<o, y>> \in R
      <4>1. SUFFICES ASSUME NEW y \in A, o # y PROVE <<o, y>> \in R
        OBVIOUS
      <4>2. x = y \/ <<x, y>> \in R
        BY <2>2, <4>1
      <4> QED BY <2>3, <2>5, <4>2
    <3> QED BY <3>1, <1>3, <1>4
  <2> QED BY <2>2, <2>3, <2>4, <2>5
<1> QED BY <1>8, <1>9

\* A finite set of naturals that is not empty has a greatest member.
LEMMA GreatestNat ==
  ASSUME NEW T \in SUBSET Nat, IsFiniteSet(T), T # {}
  PROVE  \E x \in T : \A y \in T : x >= y
<1> DEFINE R == {p \in Nat \X Nat : p[1] > p[2]}
<1>1. \A x, y \in T : <<x, y>> \in R <=> x > y
  OBVIOUS
<1>2. \A x, y \in T : x = y \/ <<x, y>> \in R \/ <<y, x>> \in R
  <2>1. \A x, y \in Nat : x = y \/ x > y \/ y > x
    OBVIOUS
  <2> QED BY <1>1, <2>1
<1>3. \A x, y, z \in T : <<x, y>> \in R /\ <<y, z>> \in R => <<x, z>> \in R
  <2>1. \A x, y, z \in Nat : x > y /\ y > z => x > z
    OBVIOUS
  <2> QED BY <1>1, <2>1
<1> HIDE DEF R
<1>4. PICK x \in T : \A y \in T : x = y \/ <<x, y>> \in R
  BY <1>2, <1>3, LeastOf
<1>5. ASSUME NEW y \in T PROVE x >= y
  <2>1. x \in Nat /\ y \in Nat
    OBVIOUS
  <2>2. x = y \/ x > y
    BY <1>1, <1>4
  <2> QED BY <2>1, <2>2
<1> QED BY <1>5

\* Along a strict total order on a finite set every place is some member's, and
\* no two have the same.
LEMMA Ranked ==
  ASSUME NEW S, IsFiniteSet(S), NEW R,
         \A x \in S : <<x, x>> \notin R,
         \A x, y \in S : x = y \/ <<x, y>> \in R \/ <<y, x>> \in R,
         \A x, y, z \in S : <<x, y>> \in R /\ <<y, z>> \in R => <<x, z>> \in R
  PROVE  /\ Cardinality(S) \in Nat
         /\ \A x \in S : Cardinality({y \in S : <<y, x>> \in R}) + 1 \in 1 .. Cardinality(S)
         /\ \A n \in 1 .. Cardinality(S) : \E x \in S : Cardinality({y \in S : <<y, x>> \in R}) = n - 1
         /\ \A x, z \in S :
              Cardinality({y \in S : <<y, x>> \in R}) = Cardinality({y \in S : <<y, z>> \in R}) => x = z
<1> DEFINE Under(x) == {y \in S : <<y, x>> \in R}
<1> DEFINE rank == [x \in S |-> Cardinality(Under(x)) + 1]
<1>1. Cardinality(S) \in Nat
  BY FS_CardinalityType
<1>2. ASSUME NEW x \in S
      PROVE  IsFiniteSet(Under(x)) /\ Cardinality(Under(x)) \in Nat /\ Cardinality(Under(x)) + 1 \in 1 .. Cardinality(S)
  <2>1. Under(x) \subseteq S \ {x}
    OBVIOUS
  <2> HIDE DEF Under
  <2>2. IsFiniteSet(S \ {x}) /\ Cardinality(S \ {x}) = Cardinality(S) - 1
    BY FS_RemoveElement
  <2>3. IsFiniteSet(Under(x)) /\ Cardinality(Under(x)) <= Cardinality(S \ {x})
    BY <2>1, <2>2, FS_Subset
  <2>4. Cardinality(Under(x)) \in Nat
    BY <2>3, FS_CardinalityType
  <2> QED BY <1>1, <2>2, <2>3, <2>4
<1>3. ASSUME NEW x \in S, NEW z \in S, <<x, z>> \in R
      PROVE  Cardinality(Under(x)) # Cardinality(Under(z))
  <2>1. Under(x) \subseteq Under(z) /\ x \in Under(z) /\ x \notin Under(x)
    BY <1>3
  <2> HIDE DEF Under
  <2>2. Under(x) # Under(z)
    BY <2>1
  <2> QED BY <1>2, <2>1, <2>2, FS_Subset
<1> HIDE DEF Under
<1>4. \A x, z \in S : Cardinality(Under(x)) = Cardinality(Under(z)) => x = z
  BY <1>3
<1>5. rank \in Injection(S, 1 .. Cardinality(S))
  <2>1. rank \in [S -> 1 .. Cardinality(S)]
    BY <1>2
  <2>2. \A x, z \in S : rank[x] = rank[z] => x = z
    BY <1>2, <1>4
  <2> QED BY <2>1, <2>2 DEF Injection, IsInjective
<1>6. IsFiniteSet(1 .. Cardinality(S)) /\ Cardinality(1 .. Cardinality(S)) = Cardinality(S)
  BY <1>1, FS_Interval
<1>7. rank \in Surjection(S, 1 .. Cardinality(S))
  <2> HIDE DEF rank
  <2> QED BY <1>5, <1>6, FS_Injection
<1>8. \A n \in 1 .. Cardinality(S) : \E x \in S : rank[x] = n
  BY <1>7 DEF Surjection
<1>9. \A n \in 1 .. Cardinality(S) : \E x \in S : Cardinality(Under(x)) = n - 1
  BY <1>1, <1>2, <1>8
<1> QED BY <1>1, <1>2, <1>4, <1>9 DEF Under

\* Steps taken one after the other from a start make a function of their number.
Iterations(T, s, F) == {f \in [Nat -> T] : f[0] = s /\ \A n \in Nat : f[n + 1] = F[f[n]]}

LEMMA Iterates ==
  ASSUME NEW T, NEW s \in T, NEW F \in [T -> T]
  PROVE  Iterations(T, s, F) # {}
<1> DEFINE Run(g, n) == g[0] = s /\ \A i \in 0 .. n - 1 : g[i + 1] = F[g[i]]
<1> DEFINE Runs(n) == {g \in [0 .. n -> T] : Run(g, n)}
<1>1. \A n \in Nat : Runs(n) # {}
  <2> DEFINE N == {n \in Nat : Runs(n) # {}}
  <2>1. 0 \in N
    <3> DEFINE g == [i \in 0 .. 0 |-> s]
    <3>1. g \in [0 .. 0 -> T] /\ g[0] = s
      OBVIOUS
    <3>2. Run(g, 0)
      BY <3>1
    <3> QED BY <3>1, <3>2
  <2>2. ASSUME NEW n \in N PROVE n + 1 \in N
    <3>1. PICK g \in Runs(n) : TRUE
      OBVIOUS
    <3>2. g \in [0 .. n -> T] /\ Run(g, n) /\ n \in Nat
      BY <3>1
    <3> DEFINE h == [i \in 0 .. n + 1 |-> IF i = n + 1 THEN F[g[n]] ELSE g[i]]
    <3>3. F[g[n]] \in T
      BY <3>2
    <3>4. h \in [0 .. n + 1 -> T]
      BY <3>2, <3>3
    <3>5. h[n + 1] = F[g[n]] /\ \A i \in 0 .. n : h[i] = g[i]
      BY <3>2
    <3> HIDE DEF h
    <3>6. Run(h, n + 1)
      <4>1. h[0] = s
        BY <3>2, <3>5
      <4>2. ASSUME NEW i \in 0 .. (n + 1) - 1 PROVE h[i + 1] = F[h[i]]
        <5>1. CASE i = n
          BY <5>1, <3>2, <3>5
        <5>2. CASE i # n
          <6>1. i \in 0 .. n - 1 /\ i + 1 \in 0 .. n /\ i \in 0 .. n
            BY <5>2, <3>2
          <6> QED BY <6>1, <3>2, <3>5
        <5> QED BY <5>1, <5>2
      <4> QED BY <4>1, <4>2
    <3> QED BY <3>2, <3>4, <3>6
  <2> HIDE DEF Runs
  <2>3. N = Nat
    <3>1. N \subseteq Nat
      OBVIOUS
    <3> HIDE DEF N
    <3> QED BY <2>1, <2>2, <3>1, AllNat
  <2> QED BY <2>3
<1> DEFINE pick == [n \in Nat |-> CHOOSE g \in Runs(n) : TRUE]
<1>2. \A n \in Nat : pick[n] \in [0 .. n -> T] /\ Run(pick[n], n)
  BY <1>1
<1> HIDE DEF pick
<1>3. ASSUME NEW n \in Nat PROVE pick[n + 1][n] = pick[n][n]
  <2> DEFINE Same == {i \in Nat : pick[n + 1][i] = pick[n][i]}
  <2>1. 0 \in Same
    BY <1>2
  <2>2. \A i \in 0 .. n - 1 : i \in Same => i + 1 \in Same
    <3> SUFFICES ASSUME NEW i \in 0 .. n - 1, i \in Same PROVE i + 1 \in Same
      OBVIOUS
    <3>1. pick[n][i + 1] = F[pick[n][i]]
      BY <1>2
    <3>2. pick[n + 1][i + 1] = F[pick[n + 1][i]]
      <4>1. n + 1 \in Nat /\ i \in 0 .. (n + 1) - 1
        OBVIOUS
      <4> QED BY <4>1, <1>2
    <3> QED BY <3>1, <3>2
  <2> HIDE DEF Same
  <2>3. \A i \in 0 .. n : i \in Same
    BY <2>1, <2>2, AllUpto
  <2>4. n \in Same
    BY <2>3
  <2> QED BY <2>4 DEF Same
<1> DEFINE f == [n \in Nat |-> pick[n][n]]
<1>4. f \in [Nat -> T]
  BY <1>2
<1>5. f[0] = s
  BY <1>2
<1>6. ASSUME NEW n \in Nat PROVE f[n + 1] = F[f[n]]
  <2>1. pick[n + 1][n + 1] = F[pick[n + 1][n]]
    <3>1. n + 1 \in Nat /\ n \in 0 .. (n + 1) - 1
      OBVIOUS
    <3> QED BY <3>1, <1>2
  <2> QED BY <2>1, <1>3
<1> HIDE DEF f
<1>7. f \in Iterations(T, s, F)
  BY <1>4, <1>5, <1>6 DEF Iterations
<1> QED BY <1>7
\* The values of a function on a finite set are finitely many.
LEMMA FiniteImage ==
  ASSUME NEW S, IsFiniteSet(S), NEW f
  PROVE  IsFiniteSet({f[x] : x \in S})
<1> DEFINE T == {f[x] : x \in S}
<1> DEFINE g == [x \in S |-> f[x]]
<1>1. g \in [S -> T] /\ \A y \in T : \E x \in S : g[x] = y
  OBVIOUS
<1> HIDE DEF g, T
<1>2. g \in Surjection(S, T)
  BY <1>1 DEF Surjection
<1>3. IsFiniteSet(T)
  BY <1>2, FS_Surjection
<1> QED BY <1>3 DEF T
=============================================================================
