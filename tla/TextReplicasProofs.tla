-------------------------- MODULE TextReplicasProofs --------------------------
(***************************************************************************)
(* Proofs about the text profile and TextReplicas, for every value of the  *)
(* constants.                                                              *)
(***************************************************************************)
EXTENDS TextReplicas, NaturalFacts, SequenceTheorems

-----------------------------------------------------------------------------
(* The CRDT node: what it applies does not depend on the order of delivery. *)

\* What the node can be given: identities are distinct and numbers count from 1.
NodeOps(ops) ==
  /\ IsFiniteSet(ops) /\ Distinct(ops)
  /\ \A op \in ops : /\ op.origin \in Origins /\ op.seq \in Nat \ {0} /\ IsEdit(op.edit)
                     /\ \A dep \in op.deps : dep[2] \in Int

Of(ops, origin) == {op \in ops : op.origin = origin}
Numbers(ops, origin) == {op.seq : op \in Of(ops, origin)}

\* Of each origin the applied operations are the first ones.
Dense(ops) == \A origin \in Origins : Numbers(ops, origin) = 1 .. Reached(ops, origin)

LEMMA ReachedFacts ==
  ASSUME NEW A, IsFiniteSet(A), NEW B \in SUBSET A, NEW origin
  PROVE  /\ Reached(A, origin) \in Nat /\ Reached(B, origin) \in Nat
         /\ Reached(B, origin) <= Reached(A, origin)
<1>1. IsFiniteSet(Of(A, origin)) /\ Of(B, origin) \subseteq Of(A, origin)
  <2>1. Of(A, origin) \subseteq A /\ Of(B, origin) \subseteq Of(A, origin)
    BY DEF Of
  <2> QED BY <2>1, FS_Subset
<1>2. Cardinality(Of(A, origin)) \in Nat /\ Cardinality(Of(B, origin)) \in Nat
  BY <1>1, FS_Subset, FS_CardinalityType
<1>3. Cardinality(Of(B, origin)) <= Cardinality(Of(A, origin))
  BY <1>1, FS_Subset
<1> QED BY <1>2, <1>3 DEF Reached, Of

\* The rounds follow the equation they are written with.
LEMMA RoundsFacts ==
  ASSUME NEW A, NEW P
  PROVE  /\ Rounds(A, P) \in [Nat -> SUBSET (A \cup P)]
         /\ Rounds(A, P)[0] = A
         /\ \A n \in Nat : Rounds(A, P)[n + 1] = Rounds(A, P)[n] \cup Ready(Rounds(A, P)[n], P)
<1> DEFINE T == SUBSET (A \cup P)
<1> DEFINE F == [S \in T |-> S \cup Ready(S, P)]
<1> DEFINE Eq(g) == g = [n \in Nat |-> IF n = 0 THEN A ELSE g[n - 1] \cup Ready(g[n - 1], P)]
<1>1. F \in [T -> T]
  <2>1. \A S : Ready(S, P) \subseteq P
    BY DEF Ready
  <2> QED BY <2>1
<1>2. A \in T
  OBVIOUS
<1>3. PICK f : f \in [Nat -> T] /\ f[0] = A /\ \A n \in Nat : f[n + 1] = F[f[n]]
  <2> HIDE DEF F, T
  <2>1. Iterations(T, A, F) # {}
    BY <1>1, <1>2, Iterates
  <2> QED BY <2>1 DEF Iterations
<1>4. \A n \in Nat : f[n + 1] = f[n] \cup Ready(f[n], P)
  BY <1>3
<1>5. Eq(f)
  <2>1. \A n \in Nat : f[n] = IF n = 0 THEN A ELSE f[n - 1] \cup Ready(f[n - 1], P)
    <3>1. \A n \in Nat \ {0} : n - 1 \in Nat /\ (n - 1) + 1 = n
      OBVIOUS
    <3> QED BY <1>3, <1>4, <3>1
  <2> QED BY <2>1, <1>3
<1>6. Rounds(A, P) = CHOOSE g : Eq(g)
  BY DEF Rounds
<1>7. Eq(Rounds(A, P))
  <2> HIDE DEF Eq
  <2> QED BY <1>5, <1>6
<1> DEFINE r == Rounds(A, P)
<1>8. r = [n \in Nat |-> IF n = 0 THEN A ELSE r[n - 1] \cup Ready(r[n - 1], P)]
  BY <1>7
<1> HIDE DEF r
<1>9. r[0] = A
  BY <1>8
<1>10. \A n \in Nat : r[n + 1] = r[n] \cup Ready(r[n], P)
  <2>1. \A n \in Nat : n + 1 \in Nat /\ n + 1 # 0 /\ (n + 1) - 1 = n
    OBVIOUS
  <2> QED BY <1>8, <2>1
<1>11. r \in [Nat -> T]
  <2> DEFINE N == {n \in Nat : r[n] \in T}
  <2>1. 0 \in N
    BY <1>9
  <2>2. ASSUME NEW n \in N PROVE n + 1 \in N
    <3>1. Ready(r[n], P) \subseteq P
      BY DEF Ready
    <3> QED BY <3>1, <1>10
  <2>3. N \subseteq Nat
    OBVIOUS
  <2> HIDE DEF N
  <2>4. N = Nat
    BY <2>1, <2>2, <2>3, AllNat
  <2>5. \A n \in Nat : r[n] \in T
    BY <2>4 DEF N
  <2>6. DOMAIN r = Nat /\ r = [n \in DOMAIN r |-> r[n]]
    BY <1>8
  <2> QED BY <2>5, <2>6
<1> QED BY <1>9, <1>10, <1>11 DEF r

\* A round leaves no gap.
LEMMA RoundDense ==
  ASSUME NEW G, NodeOps(G), NEW A \in SUBSET G, NEW P \in SUBSET G, Dense(A)
  PROVE  Dense(A \cup Ready(A, P))
<1> SUFFICES ASSUME NEW o \in Origins
             PROVE  Numbers(A \cup Ready(A, P), o) = 1 .. Reached(A \cup Ready(A, P), o)
  BY DEF Dense
<1>0. Numbers(A, o) = 1 .. Reached(A, o) /\ Reached(A, o) \in Nat /\ IsFiniteSet(G)
  BY ReachedFacts DEF Dense, NodeOps
<1>1. Ready(A, P) \subseteq G \ A
  BY DEF Ready
<1>2. CASE \E op \in Ready(A, P) : op.origin = o
  <2>1. PICK op \in Ready(A, P) : op.origin = o
    BY <1>2
  <2>2. op \in G \ A /\ op.seq = Reached(A, o) + 1
    BY <1>1, <2>1 DEF Ready
  <2>3. \A p \in Ready(A, P) : p.origin = o => p = op
    BY <1>1, <2>1, <2>2 DEF Ready, NodeOps, Distinct
  <2>4. Of(A \cup Ready(A, P), o) = Of(A, o) \cup {op}
    BY <2>1, <2>3 DEF Of
  <2>5. IsFiniteSet(Of(A, o)) /\ op \notin Of(A, o)
    <3>1. Of(A, o) \subseteq G
      BY DEF Of
    <3> QED BY <3>1, <1>0, <2>2, FS_Subset DEF Of
  <2>6. Cardinality(Of(A, o) \cup {op}) = Cardinality(Of(A, o)) + 1
    BY <2>5, FS_AddElement
  <2>7. Reached(A \cup Ready(A, P), o) = Reached(A, o) + 1
    BY <2>4, <2>6 DEF Reached, Of
  <2>8. Numbers(A \cup Ready(A, P), o) = Numbers(A, o) \cup {op.seq}
    BY <2>4 DEF Numbers
  <2>9. PICK k \in Nat : k = Reached(A, o)
    BY <1>0
  <2>10. (1 .. k) \cup {k + 1} = 1 .. k + 1
    OBVIOUS
  <2> QED BY <1>0, <2>2, <2>7, <2>8, <2>9, <2>10
<1>3. CASE \A op \in Ready(A, P) : op.origin # o
  <2>1. Of(A \cup Ready(A, P), o) = Of(A, o)
    BY <1>3 DEF Of
  <2> QED BY <1>0, <2>1 DEF Numbers, Reached, Of
<1> QED BY <1>2, <1>3

\* What is ready on top of a part of a settled history belongs to that history.
LEMMA Absorbed ==
  ASSUME NEW G, NodeOps(G), NEW F \in SUBSET G, Dense(F), Ready(F, G) = {}, NEW A \in SUBSET F
  PROVE  Ready(A, G) \subseteq F
<1> SUFFICES ASSUME NEW op \in Ready(A, G), op \notin F PROVE FALSE
  OBVIOUS
<1>1. /\ op \in G /\ op.seq = Reached(A, op.origin) + 1 /\ op.origin \in Origins
      /\ \A dep \in op.deps : dep[2] <= Reached(A, dep[1])
  BY DEF Ready, NodeOps
<1>2. IsFiniteSet(F)
  BY FS_Subset DEF NodeOps
<1>3. \A o : Reached(A, o) \in Nat /\ Reached(F, o) \in Nat /\ Reached(A, o) <= Reached(F, o)
  BY <1>2, ReachedFacts
<1>4. \A dep \in op.deps : dep[2] <= Reached(F, dep[1])
  <2> SUFFICES ASSUME NEW dep \in op.deps PROVE dep[2] <= Reached(F, dep[1])
    OBVIOUS
  <2>1. dep[2] \in Int /\ dep[2] <= Reached(A, dep[1])
    BY <1>1 DEF NodeOps
  <2> QED BY <2>1, <1>3
<1>5. op.seq # Reached(F, op.origin) + 1
  BY <1>1, <1>4 DEF Ready
<1>6. op.seq \in 1 .. Reached(F, op.origin)
  <2>1. op.seq \in Nat \ {0}
    BY <1>1 DEF NodeOps
  <2> QED BY <2>1, <1>1, <1>3, <1>5
<1>7. op.seq \in Numbers(F, op.origin)
  BY <1>1, <1>6 DEF Dense
<1>8. PICK p \in F : p.origin = op.origin /\ p.seq = op.seq
  BY <1>7 DEF Numbers, Of
<1>9. p = op
  BY <1>1, <1>8 DEF NodeOps, Distinct
<1> QED BY <1>8, <1>9

\* Each round but the last takes at least one operation off those that wait.
LEMMA RoundsEnd ==
  ASSUME NEW A, NEW P, IsFiniteSet(P)
  PROVE  Ready(Rounds(A, P)[Cardinality(P)], P) = {}
<1> DEFINE r == Rounds(A, P)
<1>0. /\ r \in [Nat -> SUBSET (A \cup P)] /\ r[0] = A
      /\ \A n \in Nat : r[n + 1] = r[n] \cup Ready(r[n], P)
  BY RoundsFacts
<1> HIDE DEF r
<1>1. Cardinality(P) \in Nat
  BY FS_CardinalityType
<1>2. ASSUME NEW n \in Nat
      PROVE  IsFiniteSet(P \ r[n]) /\ Cardinality(P \ r[n]) \in Nat /\ Cardinality(P \ r[n]) <= Cardinality(P)
  BY FS_Subset, FS_CardinalityType
<1> DEFINE N == {n \in Nat : Ready(r[n], P) = {} \/ Cardinality(P \ r[n]) <= Cardinality(P) - n}
<1>3. 0 \in N
  <2>1. Cardinality(P \ r[0]) <= Cardinality(P) - 0
    BY <1>1, <1>2
  <2> QED BY <2>1
<1>4. ASSUME NEW n \in N PROVE n + 1 \in N
  <2>1. n \in Nat /\ n + 1 \in Nat /\ r[n + 1] = r[n] \cup Ready(r[n], P)
    BY <1>0
  <2>2. CASE Ready(r[n], P) = {}
    <3>1. r[n + 1] = r[n]
      BY <2>1, <2>2
    <3> QED BY <2>1, <2>2, <3>1
  <2>3. CASE Ready(r[n], P) # {}
    <3>1. Cardinality(P \ r[n]) <= Cardinality(P) - n
      BY <2>3
    <3>2. Ready(r[n], P) \subseteq P \ r[n]
      BY DEF Ready
    <3>3. P \ r[n + 1] \subseteq P \ r[n] /\ P \ r[n + 1] # P \ r[n]
      BY <2>1, <2>3, <3>2
    <3>4. Cardinality(P \ r[n + 1]) < Cardinality(P \ r[n])
      <4>1. Cardinality(P \ r[n + 1]) <= Cardinality(P \ r[n])
        BY <3>3, <2>1, <1>2, FS_Subset
      <4>2. Cardinality(P \ r[n + 1]) # Cardinality(P \ r[n])
        BY <3>3, <2>1, <1>2, FS_Subset
      <4>3. Cardinality(P \ r[n]) \in Nat /\ Cardinality(P \ r[n + 1]) \in Nat
        BY <2>1, <1>2
      <4> QED BY <4>1, <4>2, <4>3
    <3>5. Cardinality(P \ r[n + 1]) <= Cardinality(P) - (n + 1)
      <4>1. Cardinality(P \ r[n]) \in Nat /\ Cardinality(P \ r[n + 1]) \in Nat
        BY <2>1, <1>2
      <4> QED BY <3>1, <3>4, <4>1, <2>1, <1>1
    <3> QED BY <3>5, <2>1
  <2> QED BY <2>2, <2>3
<1>5. N = Nat
  <2>1. N \subseteq Nat
    OBVIOUS
  <2> HIDE DEF N
  <2> QED BY <1>3, <1>4, <2>1, AllNat
<1>6. Ready(r[Cardinality(P)], P) = {} \/ Cardinality(P \ r[Cardinality(P)]) <= Cardinality(P) - Cardinality(P)
  BY <1>1, <1>5
<1>7. CASE Cardinality(P \ r[Cardinality(P)]) <= 0
  <2>1. Cardinality(P \ r[Cardinality(P)]) = 0
    BY <1>1, <1>2, <1>7
  <2>2. P \ r[Cardinality(P)] = {}
    BY <2>1, <1>1, <1>2, FS_EmptySet
  <2> QED BY <2>2 DEF r, Ready
<1> QED BY <1>1, <1>6, <1>7 DEF r

\* What Settle gives: a history without a gap on which nothing more is ready.
LEMMA Settled ==
  ASSUME NEW G, NodeOps(G), NEW A \in SUBSET G, NEW P \in SUBSET G, Dense(A)
  PROVE  LET F == Settle(A, P).applied IN
         A \subseteq F /\ F \subseteq A \cup P /\ Dense(F) /\ Ready(F, P) = {}
<1> DEFINE r == Rounds(A, P)
<1>0. /\ r \in [Nat -> SUBSET (A \cup P)] /\ r[0] = A
      /\ \A n \in Nat : r[n + 1] = r[n] \cup Ready(r[n], P)
  BY RoundsFacts
<1>1. Settle(A, P).applied = r[Cardinality(P)]
  BY DEF Settle
<1>2. Ready(r[Cardinality(P)], P) = {} /\ Cardinality(P) \in Nat
  BY RoundsEnd, FS_Subset, FS_CardinalityType DEF NodeOps
<1> HIDE DEF r
<1> DEFINE N == {n \in Nat : A \subseteq r[n] /\ Dense(r[n])}
<1>3. 0 \in N
  BY <1>0
<1>4. ASSUME NEW n \in N PROVE n + 1 \in N
  <2>1. n \in Nat /\ n + 1 \in Nat /\ r[n + 1] = r[n] \cup Ready(r[n], P) /\ r[n] \in SUBSET G
    BY <1>0
  <2>2. Dense(r[n + 1])
    BY <2>1, RoundDense
  <2> QED BY <2>1, <2>2
<1>5. N = Nat
  <2>1. N \subseteq Nat
    OBVIOUS
  <2> HIDE DEF N
  <2> QED BY <1>3, <1>4, <2>1, AllNat
<1>6. A \subseteq r[Cardinality(P)] /\ Dense(r[Cardinality(P)])
  BY <1>2, <1>5
<1>7. r[Cardinality(P)] \subseteq A \cup P
  BY <1>0, <1>2
<1> QED BY <1>1, <1>2, <1>6, <1>7

\* Whatever settles on top of a part of a settled history stays within it.
LEMMA StaysWithin ==
  ASSUME NEW G, NodeOps(G),
         NEW F \in SUBSET G, Dense(F), Ready(F, G) = {},
         NEW A \in SUBSET F, NEW P \in SUBSET G
  PROVE  Settle(A, P).applied \subseteq F
<1> DEFINE r == Rounds(A, P)
<1>0. /\ r \in [Nat -> SUBSET (A \cup P)] /\ r[0] = A
      /\ \A n \in Nat : r[n + 1] = r[n] \cup Ready(r[n], P)
  BY RoundsFacts
<1>1. Settle(A, P).applied = r[Cardinality(P)]
  BY DEF Settle
<1>2. Cardinality(P) \in Nat
  BY FS_Subset, FS_CardinalityType DEF NodeOps
<1> HIDE DEF r
<1> DEFINE N == {n \in Nat : r[n] \subseteq F}
<1>3. 0 \in N
  BY <1>0
<1>4. ASSUME NEW n \in N PROVE n + 1 \in N
  <2>1. n \in Nat /\ n + 1 \in Nat /\ r[n + 1] = r[n] \cup Ready(r[n], P) /\ r[n] \in SUBSET F
    BY <1>0
  <2>2. Ready(r[n], G) \subseteq F
    BY <2>1, Absorbed
  <2>3. Ready(r[n], P) \subseteq Ready(r[n], G)
    BY DEF Ready
  <2> QED BY <2>1, <2>2, <2>3
<1>5. N = Nat
  <2>1. N \subseteq Nat
    OBVIOUS
  <2> HIDE DEF N
  <2> QED BY <1>3, <1>4, <2>1, AllNat
<1> QED BY <1>1, <1>2, <1>5

LEMMA DenseNone == Dense({})
<1> SUFFICES ASSUME NEW o \in Origins PROVE Numbers({}, o) = 1 .. Reached({}, o)
  BY DEF Dense
<1>1. Of({}, o) = {}
  BY DEF Of
<1>2. Reached({}, o) = 0
  BY <1>1, FS_EmptySet DEF Reached, Of
<1> QED BY <1>1, <1>2 DEF Numbers

LEMMA SettledFromNone ==
  ASSUME NEW G, NodeOps(G), NEW P \in SUBSET G
  PROVE  LET F == Settle({}, P).applied IN
         F \subseteq P /\ Dense(F) /\ Ready(F, P) = {}
<1>1. Settle({}, P).applied \subseteq {} \cup P
  BY DenseNone, Settled
<1>2. Dense(Settle({}, P).applied) /\ Ready(Settle({}, P).applied, P) = {}
  BY DenseNone, Settled
<1> QED BY <1>1, <1>2

\* Delivery in two parts applies what delivery at once applies.
LEMMA DeliveryConfluent ==
  ASSUME NEW G, NodeOps(G),
         NEW H \in SUBSET G, NEW P \in SUBSET G,
         Settle({}, H).applied \cup P = G
  PROVE  Settle(Settle({}, H).applied, P).applied = Settle({}, G).applied
<1> DEFINE A == Settle({}, H).applied
<1> DEFINE F == Settle({}, G).applied
<1> DEFINE F2 == Settle(A, P).applied
<1>1. A \subseteq G /\ Dense(A)
  BY SettledFromNone
<1>2. F \subseteq G /\ Dense(F) /\ Ready(F, G) = {}
  BY SettledFromNone
<1>3. A \subseteq F2 /\ F2 \subseteq G /\ Dense(F2) /\ Ready(F2, P) = {}
  <2>1. A \in SUBSET G /\ A \cup P = G
    BY <1>1
  <2> HIDE DEF A
  <2>2. A \subseteq F2 /\ F2 \subseteq A \cup P /\ Dense(F2) /\ Ready(F2, P) = {}
    BY <1>1, <2>1, Settled, Zenon
  <2> QED BY <2>1, <2>2
<1>4. A \subseteq F
  <2> HIDE DEF F
  <2> QED BY <1>2, StaysWithin
<1>5. F2 \subseteq F
  <2> HIDE DEF F, A
  <2> QED BY <1>2, <1>4, StaysWithin
<1>6. Ready(F2, G) = {}
  <2> HIDE DEF F2
  <2>1. Ready(F2, G) \subseteq Ready(F2, P)
    <3>1. G \ F2 \subseteq P
      BY <1>3
    <3> QED BY <3>1 DEF Ready
  <2> QED BY <2>1, <1>3
<1>7. F \subseteq F2
  <2> HIDE DEF F2
  <2> QED BY <1>3, <1>6, StaysWithin
<1> QED BY <1>5, <1>7

-----------------------------------------------------------------------------
(* Which of the insertions of an atom counts. *)

Ids == Nat \X Nat \X Nat
Claim == [after : Ids, text : Seq(Nat), key : Nat \X Nat]

LEMMA IdsFacts ==
  /\ AtomId \cup {Root} \subseteq Ids
  /\ \A x \in Ids : ~ IdBefore(x, x)
  /\ \A x, y \in Ids : x = y \/ IdBefore(x, y) \/ IdBefore(y, x)
  /\ \A x, y, z \in Ids : IdBefore(x, y) /\ IdBefore(y, z) => IdBefore(x, z)
<1>1. AtomId \cup {Root} \subseteq Ids
  <2>1. Root \in Ids
    BY DEF Root, Ids
  <2>2. ASSUME NEW x \in AtomId PROVE x \in Ids
    <3>1. x \in (Nat \ {0}) \X Origins \X Nat
      BY DEF AtomId
    <3>2. PICK i \in Nat \ {0}, j \in Origins, k \in Nat : x = <<i, j, k>>
      BY <3>1
    <3>3. i \in Nat /\ j \in Nat /\ k \in Nat
      BY OriginsAssumption
    <3> QED BY <3>2, <3>3 DEF Ids
  <2> QED BY <2>1, <2>2
<1>2. \A x \in Ids : ~ IdBefore(x, x)
  BY DEF Ids, IdBefore
<1>3. \A x, y \in Ids : x = y \/ IdBefore(x, y) \/ IdBefore(y, x)
  BY DEF Ids, IdBefore
<1>4. \A x, y, z \in Ids : IdBefore(x, y) /\ IdBefore(y, z) => IdBefore(x, z)
  BY DEF Ids, IdBefore
<1> QED BY <1>1, <1>2, <1>3, <1>4

\* Texts are ordered as in a dictionary.
LEMMA TextOrder ==
  /\ \A s \in Seq(Nat) : ~ TextBefore(s, s)
  /\ \A s, t \in Seq(Nat) : s = t \/ TextBefore(s, t) \/ TextBefore(t, s)
  /\ \A s, t, u \in Seq(Nat) : TextBefore(s, t) /\ TextBefore(t, u) => TextBefore(s, u)
<1>1. ASSUME NEW s \in Seq(Nat) PROVE ~ TextBefore(s, s)
  <2>1. \A n \in 1 .. Len(s) : s[n] \in Nat /\ n <= Len(s)
    OBVIOUS
  <2>2. \A n \in 1 .. Len(s) : ~ (s[n] < s[n])
    BY <2>1
  <2> QED BY <2>1, <2>2 DEF TextBefore
<1>2. ASSUME NEW s \in Seq(Nat), NEW t \in Seq(Nat), s # t
      PROVE  TextBefore(s, t) \/ TextBefore(t, s)
  <2> DEFINE Parts == {n \in Nat : /\ 1 <= n /\ n <= Len(s) + 1 /\ n <= Len(t) + 1
                                   /\ n > Len(s) \/ n > Len(t) \/ s[n] # t[n]}
  <2>0. Len(s) \in Nat /\ Len(t) \in Nat
    OBVIOUS
  <2>1. Parts # {}
    <3>1. CASE Len(s) <= Len(t)
      <4>1. Len(s) + 1 \in Parts
        BY <2>0, <3>1
      <4> QED BY <4>1
    <3>2. CASE ~ (Len(s) <= Len(t))
      <4>1. Len(t) + 1 \in Parts
        BY <2>0, <3>2
      <4> QED BY <4>1
    <3> QED BY <3>1, <3>2
  <2>2. PICK n \in Parts : \A m \in Parts : n <= m
    <3>1. Parts \subseteq Nat
      OBVIOUS
    <3> HIDE DEF Parts
    <3> QED BY <2>1, <3>1, LeastNat
  <2>3. /\ n \in Nat /\ 1 <= n /\ n <= Len(s) + 1 /\ n <= Len(t) + 1
        /\ n > Len(s) \/ n > Len(t) \/ s[n] # t[n]
    OBVIOUS
  <2>4. \A m \in 1 .. n - 1 : s[m] = t[m]
    <3> SUFFICES ASSUME NEW m \in 1 .. n - 1, s[m] # t[m] PROVE FALSE
      OBVIOUS
    <3>1. m \in Nat /\ 1 <= m /\ m <= Len(s) + 1 /\ m <= Len(t) + 1 /\ ~ (n <= m)
      BY <2>0, <2>3
    <3>2. m \in Parts
      BY <3>1
    <3> QED BY <3>1, <3>2, <2>2
  <2> HIDE DEF Parts
  <2>5. CASE n <= Len(s) /\ n <= Len(t)
    <3>1. s[n] \in Nat /\ t[n] \in Nat /\ s[n] # t[n] /\ n \in 1 .. Len(s) /\ n \in 1 .. Len(t)
      BY <2>0, <2>3, <2>5
    <3>2. s[n] < t[n] \/ t[n] < s[n]
      BY <3>1
    <3> QED BY <3>1, <3>2, <2>3, <2>4 DEF TextBefore
  <2>6. CASE n > Len(s) /\ n <= Len(t)
    <3>1. n \in 1 .. Len(t) /\ ~ (n <= Len(s))
      BY <2>0, <2>3, <2>6
    <3> QED BY <3>1, <2>3, <2>4 DEF TextBefore
  <2>7. CASE n > Len(t) /\ n <= Len(s)
    <3>1. n \in 1 .. Len(s) /\ ~ (n <= Len(t))
      BY <2>0, <2>3, <2>7
    <3>2. \A m \in 1 .. n - 1 : t[m] = s[m]
      BY <2>4
    <3> QED BY <3>1, <3>2, <2>3 DEF TextBefore
  <2>8. CASE n > Len(t) /\ n > Len(s)
    <3>1. Len(s) = n - 1 /\ Len(t) = n - 1
      BY <2>0, <2>3, <2>8
    <3>2. Len(s) = Len(t) /\ \A m \in 1 .. Len(s) : s[m] = t[m]
      BY <3>1, <2>4
    <3>3. s = t
      BY <3>2, SeqEqual
    <3> QED BY <3>3, <1>2
  <2> QED BY <2>0, <2>3, <2>5, <2>6, <2>7, <2>8
<1>3. ASSUME NEW s \in Seq(Nat), NEW t \in Seq(Nat), NEW u \in Seq(Nat), TextBefore(s, t), TextBefore(t, u)
      PROVE  TextBefore(s, u)
  <2>0. Len(s) \in Nat /\ Len(t) \in Nat /\ Len(u) \in Nat
    OBVIOUS
  <2>1. PICK i \in 1 .. Len(t) : /\ i <= Len(s) + 1 /\ \A m \in 1 .. i - 1 : s[m] = t[m]
                                 /\ i <= Len(s) => s[i] < t[i]
    BY <1>3 DEF TextBefore
  <2>2. PICK k \in 1 .. Len(u) : /\ k <= Len(t) + 1 /\ \A m \in 1 .. k - 1 : t[m] = u[m]
                                 /\ k <= Len(t) => t[k] < u[k]
    BY <1>3 DEF TextBefore
  <2>3. CASE i < k
    <3>1. i \in 1 .. Len(u) /\ i \in 1 .. k - 1
      BY <2>0, <2>1, <2>2, <2>3
    <3>2. \A m \in 1 .. i - 1 : m \in 1 .. k - 1
      BY <3>1
    <3>3. \A m \in 1 .. i - 1 : s[m] = u[m]
      BY <3>2, <2>1, <2>2
    <3>4. i <= Len(s) => s[i] < u[i]
      BY <3>1, <2>1, <2>2
    <3> QED BY <3>1, <3>3, <3>4, <2>1 DEF TextBefore
  <2>4. CASE k < i
    <3>1. k \in 1 .. Len(t) /\ k \in 1 .. i - 1 /\ k <= Len(s) + 1
      BY <2>0, <2>1, <2>2, <2>4
    <3>2. \A m \in 1 .. k - 1 : m \in 1 .. i - 1
      BY <3>1
    <3>3. \A m \in 1 .. k - 1 : s[m] = u[m]
      BY <3>2, <2>1, <2>2
    <3>4. s[k] < u[k]
      <4>1. t[k] < u[k] /\ s[k] = t[k]
        BY <3>1, <2>1, <2>2
      <4> QED BY <4>1
    <3> QED BY <3>1, <3>3, <3>4 DEF TextBefore
  <2>5. CASE k = i
    <3>1. i \in 1 .. Len(u) /\ t[i] < u[i]
      BY <2>1, <2>2, <2>5
    <3>2. \A m \in 1 .. i - 1 : s[m] = u[m]
      BY <2>1, <2>2, <2>5
    <3>3. i <= Len(s) => s[i] < u[i]
      <4>1. SUFFICES ASSUME i <= Len(s) PROVE s[i] < u[i]
        OBVIOUS
      <4>2. i \in 1 .. Len(s) /\ s[i] < t[i]
        BY <4>1, <2>0, <2>1
      <4>3. s[i] \in Nat /\ t[i] \in Nat /\ u[i] \in Nat
        BY <4>2, <3>1, SMTT(30)
      <4> QED BY <3>1, <4>2, <4>3, SMTT(30)
    <3> QED BY <3>1, <3>2, <3>3, <2>1 DEF TextBefore
  <2> QED BY <2>0, <2>1, <2>2, <2>3, <2>4, <2>5
<1> QED BY <1>1, <1>2, <1>3

\* atomCompare is a strict total order.
LEMMA ClaimOrder ==
  /\ \A a \in Claim : ~ AtomBefore(a, a)
  /\ \A a, b \in Claim : a = b \/ AtomBefore(a, b) \/ AtomBefore(b, a)
  /\ \A a, b, c \in Claim : AtomBefore(a, b) /\ AtomBefore(b, c) => AtomBefore(a, c)
<1> DEFINE After(x, y) == x # y /\ (x = Root \/ (y # Root /\ IdBefore(x, y)))
<1>1. /\ \A x, y \in Ids : x = y \/ After(x, y) \/ After(y, x)
      /\ \A x, y \in Ids : After(x, y) => x # y
      /\ \A x, y, z \in Ids : After(x, y) /\ After(y, z) => After(x, z)
  <2>1. \A x, y \in Ids : x = y \/ After(x, y) \/ After(y, x)
    BY IdsFacts
  <2>2. \A x, y, z \in Ids : After(x, y) /\ After(y, z) => After(x, z)
    BY IdsFacts
  <2> QED BY <2>1, <2>2
<1>2. \A a, b : AtomBefore(a, b) <=>
        \/ After(a.after, b.after)
        \/ a.after = b.after /\ TextBefore(a.text, b.text)
        \/ a.after = b.after /\ a.text = b.text /\ a.key[1] < b.key[1]
        \/ a.after = b.after /\ a.text = b.text /\ a.key[1] = b.key[1] /\ a.key[2] < b.key[2]
  BY DEF AtomBefore
<1> HIDE DEF After
<1>3. \A a \in Claim : a.after \in Ids /\ a.text \in Seq(Nat) /\ a.key[1] \in Nat /\ a.key[2] \in Nat
  BY DEF Claim
<1>4. \A a, b \in Claim : a.after = b.after /\ a.text = b.text /\ a.key[1] = b.key[1] /\ a.key[2] = b.key[2] => a = b
  BY DEF Claim
<1>5. \A a \in Claim : ~ AtomBefore(a, a)
  <2> SUFFICES ASSUME NEW a \in Claim PROVE ~ AtomBefore(a, a)
    OBVIOUS
  <2>1. ~ TextBefore(a.text, a.text) /\ ~ After(a.after, a.after)
    BY <1>1, <1>3, TextOrder
  <2>2. ~ (a.key[1] < a.key[1]) /\ ~ (a.key[2] < a.key[2])
    BY <1>3
  <2> QED BY <2>1, <2>2, <1>2
<1>6. \A a, b \in Claim : a = b \/ AtomBefore(a, b) \/ AtomBefore(b, a)
  <2> SUFFICES ASSUME NEW a \in Claim, NEW b \in Claim PROVE a = b \/ AtomBefore(a, b) \/ AtomBefore(b, a)
    OBVIOUS
  <2>1. a.after = b.after \/ After(a.after, b.after) \/ After(b.after, a.after)
    BY <1>1, <1>3
  <2>2. a.text = b.text \/ TextBefore(a.text, b.text) \/ TextBefore(b.text, a.text)
    BY <1>3, TextOrder
  <2>3. a.key[1] = b.key[1] \/ a.key[1] < b.key[1] \/ b.key[1] < a.key[1]
    BY <1>3
  <2>4. a.key[2] = b.key[2] \/ a.key[2] < b.key[2] \/ b.key[2] < a.key[2]
    BY <1>3
  <2> QED BY <2>1, <2>2, <2>3, <2>4, <1>2, <1>4
<1>7. \A a, b, c \in Claim : AtomBefore(a, b) /\ AtomBefore(b, c) => AtomBefore(a, c)
  <2> SUFFICES ASSUME NEW a \in Claim, NEW b \in Claim, NEW c \in Claim, AtomBefore(a, b), AtomBefore(b, c)
               PROVE  AtomBefore(a, c)
    OBVIOUS
  <2>1. After(a.after, b.after) /\ After(b.after, c.after) => After(a.after, c.after)
    BY <1>1, <1>3
  <2>2. TextBefore(a.text, b.text) /\ TextBefore(b.text, c.text) => TextBefore(a.text, c.text)
    BY <1>3, TextOrder
  <2>3. a.key[1] < b.key[1] /\ b.key[1] < c.key[1] => a.key[1] < c.key[1]
    BY <1>3
  <2>4. a.key[2] < b.key[2] /\ b.key[2] < c.key[2] => a.key[2] < c.key[2]
    BY <1>3
  <2> QED BY <2>1, <2>2, <2>3, <2>4, <1>2
<1> QED BY <1>5, <1>6, <1>7

LEMMA ForemostIs ==
  ASSUME NEW C \in SUBSET Claim, IsFiniteSet(C), C # {}
  PROVE  Foremost(C) \in C /\ \A b \in C : Foremost(C) = b \/ AtomBefore(Foremost(C), b)
<1> DEFINE R == {p \in Claim \X Claim : AtomBefore(p[1], p[2])}
<1>1. \A a, b \in Claim : <<a, b>> \in R <=> AtomBefore(a, b)
  OBVIOUS
<1> HIDE DEF R
<1>2. \A a, b \in C : a = b \/ <<a, b>> \in R \/ <<b, a>> \in R
  BY <1>1, ClaimOrder
<1>3. \A a, b, c \in C : <<a, b>> \in R /\ <<b, c>> \in R => <<a, c>> \in R
  BY <1>1, ClaimOrder
<1>4. PICK a \in C : \A b \in C : a = b \/ <<a, b>> \in R
  BY <1>2, <1>3, LeastOf
<1>5. \A b \in C : a = b \/ AtomBefore(a, b)
  BY <1>1, <1>4
<1> QED BY <1>5 DEF Foremost

LEMMA ForemostUnique ==
  ASSUME NEW C \in SUBSET Claim, NEW a \in C, \A b \in C : a = b \/ AtomBefore(a, b)
  PROVE  Foremost(C) = a
<1>1. Foremost(C) \in C /\ \A b \in C : Foremost(C) = b \/ AtomBefore(Foremost(C), b)
  BY DEF Foremost
<1>2. CASE Foremost(C) # a
  <2>1. AtomBefore(Foremost(C), a) /\ AtomBefore(a, Foremost(C))
    BY <1>1, <1>2
  <2>2. AtomBefore(a, a) /\ a \in Claim
    BY <2>1, <1>1, ClaimOrder
  <2> QED BY <2>2, ClaimOrder
<1> QED BY <1>2

\* The foremost of a part stands for the part.
LEMMA ForemostOfParts ==
  ASSUME NEW C \in SUBSET Claim, NEW D \in SUBSET Claim, IsFiniteSet(C), IsFiniteSet(D), C # {}
  PROVE  Foremost(D \cup {Foremost(C)}) = Foremost(C \cup D)
<1>1. IsFiniteSet(C \cup D)
  BY FS_Union
<1>2. PICK x \in C \cup D : x = Foremost(C \cup D) /\ \A b \in C \cup D : x = b \/ AtomBefore(x, b)
  BY <1>1, ForemostIs
<1>3. Foremost(C) \in C
  BY ForemostIs
<1>4. x \in D \cup {Foremost(C)}
  <2>1. CASE x \in C
    <3>1. Foremost(C) = x
      BY <2>1, <1>2, ForemostUnique
    <3> QED BY <3>1
  <2> QED BY <2>1
<1>5. \A b \in D \cup {Foremost(C)} : x = b \/ AtomBefore(x, b)
  BY <1>2, <1>3
<1>6. D \cup {Foremost(C)} \subseteq Claim
  BY <1>3
<1> QED BY <1>2, <1>4, <1>5, <1>6, ForemostUnique
LEMMA NodeOpsPart ==
  ASSUME NEW G, NodeOps(G), NEW F \in SUBSET G
  PROVE  NodeOps(F)
<1>1. IsFiniteSet(F)
  BY FS_Subset DEF NodeOps
<1> QED BY <1>1 DEF NodeOps, Distinct

\* What an insertion claims about its atom.
ClaimOf(op) == [after |-> op.edit.after, text |-> op.edit.text, key |-> <<op.origin, op.seq>>]

LEMMA ClaimsFacts ==
  ASSUME NEW F, NodeOps(F), NEW id
  PROVE  /\ Claims(F, id) \in SUBSET Claim /\ IsFiniteSet(Claims(F, id))
         /\ Claims(F, id) # {} <=> id \in {op.edit.id : op \in Insertions(F)}
<1> DEFINE S == {op \in Insertions(F) : op.edit.id = id}
<1> DEFINE f == [op \in S |-> ClaimOf(op)]
<1>1. Claims(F, id) = {ClaimOf(op) : op \in S}
  BY DEF Claims, ClaimOf
<1>2. IsFiniteSet(S)
  <2>1. S \subseteq F
    BY DEF Insertions
  <2> QED BY <2>1, FS_Subset DEF NodeOps
<1>3. {ClaimOf(op) : op \in S} = {f[op] : op \in S}
  OBVIOUS
<1>4. IsFiniteSet(Claims(F, id))
  <2> HIDE DEF f, S
  <2> QED BY <1>1, <1>2, <1>3, FiniteImage
<1>5. ASSUME NEW op \in S PROVE ClaimOf(op) \in Claim
  <2>1. op \in F /\ op.edit.kind = "insert" /\ op.origin \in Origins /\ op.seq \in Nat /\ IsEdit(op.edit)
    BY DEF Insertions, NodeOps
  <2>2. op.edit.after \in Ids /\ op.edit.text \in Seq(Nat) /\ op.origin \in Nat
    BY <2>1, IdsFacts, OriginsAssumption DEF IsEdit
  <2> QED BY <2>1, <2>2 DEF ClaimOf, Claim
<1>6. Claims(F, id) \in SUBSET Claim
  BY <1>1, <1>5
<1>7. Claims(F, id) # {} <=> id \in {op.edit.id : op \in Insertions(F)}
  BY <1>1
<1> QED BY <1>4, <1>6, <1>7

\* Assembling in two parts gives the atoms that assembling at once gives.
LEMMA InsertedInParts ==
  ASSUME NEW F, NodeOps(F), NEW A \in SUBSET F
  PROVE  Inserted(Inserted(<<>>, A), F \ A) = Inserted(<<>>, F)
<1> DEFINE Named(ops) == {op.edit.id : op \in Insertions(ops)}
<1> DEFINE old == Inserted(<<>>, A)
<1>0. NodeOps(A) /\ NodeOps(F \ A)
  BY NodeOpsPart
<1>1. \A id : id \notin DOMAIN <<>>
  OBVIOUS
<1>2. old = [id \in Named(A) |-> Foremost(Claims(A, id))]
  BY <1>1 DEF Inserted
<1>3. Inserted(<<>>, F) = [id \in Named(F) |-> Foremost(Claims(F, id))]
  BY <1>1 DEF Inserted
<1>4. Named(F) = Named(A) \cup Named(F \ A)
  <2>1. Insertions(F) = Insertions(A) \cup Insertions(F \ A)
    BY DEF Insertions
  <2> QED BY <2>1
<1>5. \A id : Claims(F, id) = Claims(A, id) \cup Claims(F \ A, id)
  <2> SUFFICES ASSUME NEW id PROVE Claims(F, id) = Claims(A, id) \cup Claims(F \ A, id)
    OBVIOUS
  <2>1. {op \in Insertions(F) : op.edit.id = id}
          = {op \in Insertions(A) : op.edit.id = id} \cup {op \in Insertions(F \ A) : op.edit.id = id}
    BY DEF Insertions
  <2> QED BY <2>1 DEF Claims
<1>6. Inserted(old, F \ A)
        = [id \in Named(A) \cup Named(F \ A) |->
             Foremost(Claims(F \ A, id) \cup IF id \in Named(A) THEN {Foremost(Claims(A, id))} ELSE {})]
  <2>1. DOMAIN old = Named(A) /\ \A id \in Named(A) : old[id] = Foremost(Claims(A, id))
    BY <1>2
  <2> HIDE DEF old
  <2>2. Inserted(old, F \ A)
          = [id \in Named(A) \cup Named(F \ A) |->
               Foremost(Claims(F \ A, id) \cup IF id \in DOMAIN old THEN {old[id]} ELSE {})]
    BY <2>1 DEF Inserted
  <2> HIDE DEF Named
  <2>3. \A id : (IF id \in DOMAIN old THEN {old[id]} ELSE {})
                  = IF id \in Named(A) THEN {Foremost(Claims(A, id))} ELSE {}
    BY <2>1
  <2> QED BY <2>2, <2>3
<1>7. ASSUME NEW id \in Named(A) \cup Named(F \ A)
      PROVE  Foremost(Claims(F \ A, id) \cup IF id \in Named(A) THEN {Foremost(Claims(A, id))} ELSE {})
               = Foremost(Claims(F, id))
  <2>1. /\ Claims(A, id) \in SUBSET Claim /\ IsFiniteSet(Claims(A, id))
        /\ Claims(A, id) # {} <=> id \in Named(A)
        /\ Claims(F \ A, id) \in SUBSET Claim /\ IsFiniteSet(Claims(F \ A, id))
    BY <1>0, ClaimsFacts
  <2> HIDE DEF Named
  <2>2. CASE id \in Named(A)
    <3>1. Foremost(Claims(F \ A, id) \cup {Foremost(Claims(A, id))}) = Foremost(Claims(A, id) \cup Claims(F \ A, id))
      BY <2>1, <2>2, ForemostOfParts
    <3> QED BY <2>2, <3>1, <1>5
  <2>3. CASE id \notin Named(A)
    <3>1. Claims(A, id) = {}
      BY <2>1, <2>3
    <3>2. Claims(F \ A, id) \cup {} = Claims(F, id)
      BY <3>1, <1>5
    <3> QED BY <2>3, <3>2
  <2> QED BY <2>2, <2>3
<1> HIDE DEF Named, old
<1>8. Inserted(old, F \ A) = [id \in Named(F) |-> Foremost(Claims(F, id))]
  BY <1>4, <1>6, <1>7
<1> QED BY <1>3, <1>8 DEF old

\* The atoms are what insertions claim, under the ids they name.
LEMMA AtomsTyped ==
  ASSUME NEW F, NodeOps(F)
  PROVE  /\ DOMAIN Inserted(<<>>, F) \subseteq AtomId
         /\ IsFiniteSet(DOMAIN Inserted(<<>>, F))
         /\ \A id \in DOMAIN Inserted(<<>>, F) : Inserted(<<>>, F)[id] \in Claim
<1> DEFINE f == [op \in Insertions(F) |-> op.edit.id]
<1>1. \A id : id \notin DOMAIN <<>>
  OBVIOUS
<1>2. Inserted(<<>>, F) = [id \in {op.edit.id : op \in Insertions(F)} |-> Foremost(Claims(F, id))]
  BY <1>1 DEF Inserted
<1>3. {op.edit.id : op \in Insertions(F)} \subseteq AtomId
  BY DEF Insertions, NodeOps, IsEdit
<1>4. IsFiniteSet({op.edit.id : op \in Insertions(F)})
  <2>1. IsFiniteSet(Insertions(F))
    BY FS_Subset DEF Insertions, NodeOps
  <2>2. {op.edit.id : op \in Insertions(F)} = {f[op] : op \in Insertions(F)}
    OBVIOUS
  <2> HIDE DEF f
  <2> QED BY <2>1, <2>2, FiniteImage
<1>5. ASSUME NEW id \in {op.edit.id : op \in Insertions(F)}
      PROVE  Foremost(Claims(F, id)) \in Claim
  <2>1. Claims(F, id) \in SUBSET Claim /\ IsFiniteSet(Claims(F, id)) /\ Claims(F, id) # {}
    BY ClaimsFacts
  <2>2. Foremost(Claims(F, id)) \in Claims(F, id)
    BY <2>1, ForemostIs
  <2> QED BY <2>1, <2>2
<1> QED BY <1>2, <1>3, <1>4, <1>5
-----------------------------------------------------------------------------
(* The tree and the elements are sequences over the atoms. *)

\* Siblings in their order: each once.
LEMMA SortedPlaces ==
  ASSUME NEW ids \in SUBSET Ids, IsFiniteSet(ids)
  PROVE  /\ Sorted(ids) \in Seq(ids) /\ Len(Sorted(ids)) = Cardinality(ids)
         /\ \A x \in ids : Cardinality({y \in ids : IdBefore(y, x)}) + 1 \in 1 .. Cardinality(ids)
         /\ \A n \in 1 .. Cardinality(ids) : Cardinality({y \in ids : IdBefore(y, Sorted(ids)[n])}) = n - 1
         /\ \A n \in 1 .. Cardinality(ids), x \in ids :
              Cardinality({y \in ids : IdBefore(y, x)}) = n - 1 => Sorted(ids)[n] = x
<1> DEFINE R == {p \in Ids \X Ids : IdBefore(p[1], p[2])}
<1> DEFINE Under(x) == {y \in ids : IdBefore(y, x)}
<1>1. \A x, y \in Ids : <<x, y>> \in R <=> IdBefore(x, y)
  OBVIOUS
<1>2. \A x \in ids : Under(x) = {y \in ids : <<y, x>> \in R}
  BY <1>1
<1>3. /\ \A x \in ids : <<x, x>> \notin R
      /\ \A x, y \in ids : x = y \/ <<x, y>> \in R \/ <<y, x>> \in R
      /\ \A x, y, z \in ids : <<x, y>> \in R /\ <<y, z>> \in R => <<x, z>> \in R
  <2> HIDE DEF R
  <2> QED BY <1>1, IdsFacts
<1> HIDE DEF R, Under
<1>4. /\ Cardinality(ids) \in Nat
      /\ \A x \in ids : Cardinality({y \in ids : <<y, x>> \in R}) + 1 \in 1 .. Cardinality(ids)
      /\ \A n \in 1 .. Cardinality(ids) : \E x \in ids : Cardinality({y \in ids : <<y, x>> \in R}) = n - 1
      /\ \A x, z \in ids :
           Cardinality({y \in ids : <<y, x>> \in R}) = Cardinality({y \in ids : <<y, z>> \in R}) => x = z
  BY <1>3, Ranked
<1>5. /\ \A x \in ids : Cardinality(Under(x)) + 1 \in 1 .. Cardinality(ids)
      /\ \A n \in 1 .. Cardinality(ids) : \E x \in ids : Cardinality(Under(x)) = n - 1
      /\ \A x, z \in ids : Cardinality(Under(x)) = Cardinality(Under(z)) => x = z
  BY <1>2, <1>4
<1>6. Sorted(ids) = [n \in 1 .. Cardinality(ids) |-> CHOOSE x \in ids : Cardinality(Under(x)) = n - 1]
  BY DEF Sorted, Under
<1> DEFINE s == Sorted(ids)
<1>7. \A n \in 1 .. Cardinality(ids) : s[n] \in ids /\ Cardinality(Under(s[n])) = n - 1
  BY <1>5, <1>6
<1>8. s = [n \in 1 .. Cardinality(ids) |-> s[n]]
  BY <1>6
<1> HIDE DEF s
<1>9. s \in Seq(ids) /\ Len(s) = Cardinality(ids)
  BY <1>4, <1>7, <1>8
<1>10. ASSUME NEW n \in 1 .. Cardinality(ids), NEW x \in ids, Cardinality(Under(x)) = n - 1 PROVE s[n] = x
  BY <1>5, <1>7, <1>10
<1> QED BY <1>5, <1>7, <1>9, <1>10 DEF s, Under

LEMMA SortedFacts ==
  ASSUME NEW ids \in SUBSET Ids, IsFiniteSet(ids)
  PROVE  /\ Sorted(ids) \in Seq(ids) /\ Len(Sorted(ids)) = Cardinality(ids)
         /\ \A x \in ids : \E n \in 1 .. Len(Sorted(ids)) : Sorted(ids)[n] = x
         /\ \A m, n \in 1 .. Len(Sorted(ids)) : Sorted(ids)[m] = Sorted(ids)[n] => m = n
<1> DEFINE s == Sorted(ids)
<1> DEFINE Under(x) == {y \in ids : IdBefore(y, x)}
<1>1. /\ s \in Seq(ids) /\ Len(s) = Cardinality(ids)
      /\ \A x \in ids : Cardinality(Under(x)) + 1 \in 1 .. Cardinality(ids)
      /\ \A n \in 1 .. Cardinality(ids) : Cardinality(Under(s[n])) = n - 1
      /\ \A n \in 1 .. Cardinality(ids), x \in ids : Cardinality(Under(x)) = n - 1 => s[n] = x
  BY SortedPlaces
<1>2. Cardinality(ids) \in Nat /\ \A x \in ids : Cardinality(Under(x)) \in Nat
  BY FS_CardinalityType, FS_Subset
<1> HIDE DEF s, Under
<1>3. ASSUME NEW x \in ids PROVE \E n \in 1 .. Len(s) : s[n] = x
  <2>1. PICK n \in 1 .. Cardinality(ids) : n = Cardinality(Under(x)) + 1
    BY <1>1
  <2>2. Cardinality(Under(x)) = n - 1
    BY <1>2, <2>1
  <2> QED BY <1>1, <2>2
<1>4. ASSUME NEW m \in 1 .. Len(s), NEW n \in 1 .. Len(s), s[m] = s[n] PROVE m = n
  <2>1. m - 1 = n - 1
    BY <1>1, <1>4
  <2> QED BY <1>1, <1>2, <2>1
<1> QED BY <1>1, <1>3, <1>4 DEF s

\* The state of a walk.
Walk(D) == [todo : Seq(D), visited : Seq(D)]

AtomMap(atoms) ==
  /\ DOMAIN atoms \subseteq AtomId /\ IsFiniteSet(DOMAIN atoms)
  /\ \A id \in DOMAIN atoms : atoms[id] \in Claim

LEMMA ChildrenFacts ==
  ASSUME NEW atoms, AtomMap(atoms), NEW parent
  PROVE  /\ Children(atoms, parent) \in Seq(DOMAIN atoms)
         /\ \A id \in DOMAIN atoms : atoms[id].after = parent =>
              \E n \in 1 .. Len(Children(atoms, parent)) : Children(atoms, parent)[n] = id
<1> DEFINE ids == {id \in DOMAIN atoms : atoms[id].after = parent}
<1>1. ids \in SUBSET Ids /\ IsFiniteSet(ids) /\ ids \subseteq DOMAIN atoms
  BY IdsFacts, FS_Subset DEF AtomMap
<1>2. Children(atoms, parent) = Sorted(ids)
  BY DEF Children
<1> HIDE DEF ids
<1>3. Sorted(ids) \in Seq(ids) /\ \A x \in ids : \E n \in 1 .. Len(Sorted(ids)) : Sorted(ids)[n] = x
  BY <1>1, SortedFacts
<1>4. Sorted(ids) \in Seq(DOMAIN atoms)
  BY <1>1, <1>3
<1> QED BY <1>2, <1>3, <1>4 DEF ids

LEMMA SteppedTyped ==
  ASSUME NEW atoms, AtomMap(atoms), NEW walk \in Walk(DOMAIN atoms)
  PROVE  Stepped(atoms, walk) \in Walk(DOMAIN atoms)
<1> DEFINE D == DOMAIN atoms
<1> DEFINE id == Head(walk.todo)
<1>0. walk.todo \in Seq(D) /\ walk.visited \in Seq(D) /\ walk = [todo |-> walk.todo, visited |-> walk.visited]
  BY DEF Walk
<1>1. CASE walk.todo = <<>>
  BY <1>1 DEF Stepped
<1>2. CASE walk.todo # <<>>
  <2>1. id \in D /\ Tail(walk.todo) \in Seq(D)
    BY <1>0, <1>2
  <2>2. CASE id \in ToSet(walk.visited)
    <3>1. Stepped(atoms, walk) = [walk EXCEPT !.todo = Tail(@)]
      BY <1>2, <2>2 DEF Stepped
    <3>2. \A s \in Seq(D) : [walk EXCEPT !.todo = s] \in Walk(D)
      BY DEF Walk
    <3> QED BY <2>1, <3>1, <3>2
  <2>3. CASE id \notin ToSet(walk.visited)
    <3>1. Stepped(atoms, walk) = [todo |-> Children(atoms, id) \o Tail(walk.todo), visited |-> Append(walk.visited, id)]
      BY <1>2, <2>3 DEF Stepped
    <3>2. Children(atoms, id) \in Seq(D)
      BY ChildrenFacts
    <3>3. Children(atoms, id) \o Tail(walk.todo) \in Seq(D) /\ Append(walk.visited, id) \in Seq(D)
      <4> HIDE DEF D, id
      <4> QED BY <1>0, <2>1, <3>2
    <3> QED BY <3>1, <3>3 DEF Walk
  <2> QED BY <2>2, <2>3
<1> QED BY <1>1, <1>2

LEMMA WalkRuns ==
  ASSUME NEW atoms, AtomMap(atoms), NEW w0 \in Walk(DOMAIN atoms)
  PROVE  \E f : /\ f \in [Nat -> Walk(DOMAIN atoms)] /\ f[0] = w0
                /\ \A n \in Nat : f[n + 1] = Stepped(atoms, f[n])
<1> DEFINE T == Walk(DOMAIN atoms)
<1> DEFINE F == [w \in T |-> Stepped(atoms, w)]
<1>1. F \in [T -> T]
  BY SteppedTyped
<1>2. PICK f : f \in [Nat -> T] /\ f[0] = w0 /\ \A n \in Nat : f[n + 1] = F[f[n]]
  <2>1. w0 \in T
    OBVIOUS
  <2> HIDE DEF F, T
  <2>2. Iterations(T, w0, F) # {}
    BY <1>1, <2>1, Iterates
  <2> QED BY <2>2 DEF Iterations
<1>3. \A n \in Nat : f[n + 1] = Stepped(atoms, f[n])
  BY <1>2
<1> QED BY <1>2, <1>3

\* A walk, step by step.
Runs(f, atoms, todo, visited) ==
  /\ f[0] = [todo |-> todo, visited |-> visited]
  /\ \A n \in Nat : f[n + 1] = Stepped(atoms, f[n])

LEMMA WalksFacts ==
  ASSUME NEW atoms, AtomMap(atoms), NEW todo \in Seq(DOMAIN atoms), NEW visited \in Seq(DOMAIN atoms)
  PROVE  /\ Walks(atoms, todo, visited) \in [Nat -> Walk(DOMAIN atoms)]
         /\ Runs(Walks(atoms, todo, visited), atoms, todo, visited)
<1> DEFINE T == Walk(DOMAIN atoms)
<1> DEFINE w0 == [todo |-> todo, visited |-> visited]
<1> DEFINE Eq(g) == g = [n \in Nat |-> IF n = 0 THEN w0 ELSE Stepped(atoms, g[n - 1])]
<1>2. w0 \in T
  BY DEF Walk
<1>3. PICK f : f \in [Nat -> T] /\ f[0] = w0 /\ \A n \in Nat : f[n + 1] = Stepped(atoms, f[n])
  <2> HIDE DEF w0
  <2> QED BY <1>2, WalkRuns
<1>5. Eq(f)
  <2>1. \A n \in Nat : f[n] = IF n = 0 THEN w0 ELSE Stepped(atoms, f[n - 1])
    <3>1. \A n \in Nat \ {0} : n - 1 \in Nat /\ (n - 1) + 1 = n
      OBVIOUS
    <3> QED BY <1>3, <3>1
  <2> HIDE DEF T, w0
  <2> QED BY <2>1, <1>3
<1>6. Walks(atoms, todo, visited) = CHOOSE g : Eq(g)
  BY DEF Walks
<1>7. Eq(Walks(atoms, todo, visited))
  <2> HIDE DEF Eq
  <2> QED BY <1>5, <1>6
<1> DEFINE r == Walks(atoms, todo, visited)
<1>8. r = [n \in Nat |-> IF n = 0 THEN w0 ELSE Stepped(atoms, r[n - 1])]
  BY <1>7
<1> HIDE DEF r, w0, T
<1>9. r[0] = w0
  BY <1>8
<1>10. \A n \in Nat : r[n + 1] = Stepped(atoms, r[n])
  <2>1. \A n \in Nat : n + 1 \in Nat /\ n + 1 # 0 /\ (n + 1) - 1 = n
    OBVIOUS
  <2> QED BY <1>8, <2>1
<1>11. r \in [Nat -> T]
  <2> DEFINE N == {n \in Nat : r[n] \in T}
  <2>1. 0 \in N
    BY <1>2, <1>9
  <2>2. ASSUME NEW n \in N PROVE n + 1 \in N
    BY <1>10, SteppedTyped DEF T
  <2>3. N \subseteq Nat
    OBVIOUS
  <2> HIDE DEF N
  <2>4. N = Nat
    BY <2>1, <2>2, <2>3, AllNat
  <2>5. \A n \in Nat : r[n] \in T
    BY <2>4 DEF N
  <2>6. DOMAIN r = Nat /\ r = [n \in DOMAIN r |-> r[n]]
    BY <1>8
  <2> QED BY <2>5, <2>6
<1>12. Runs(r, atoms, todo, visited)
  BY <1>9, <1>10 DEF Runs, w0
<1> QED BY <1>11, <1>12 DEF r, T

LEMMA TreeOrderTyped ==
  ASSUME NEW atoms, AtomMap(atoms)
  PROVE  TreeOrder(atoms) \in Seq(DOMAIN atoms)
<1> DEFINE D == DOMAIN atoms
<1>1. ASSUME NEW todo \in Seq(D), NEW visited \in Seq(D) PROVE Visit(atoms, todo, visited) \in Seq(D)
  <2>1. Len(todo) + Cardinality(D) \in Nat
    BY FS_CardinalityType DEF AtomMap
  <2>2. Walks(atoms, todo, visited) \in [Nat -> Walk(D)]
    BY WalksFacts
  <2>3. Walks(atoms, todo, visited)[Len(todo) + Cardinality(D)] \in Walk(D)
    <3> HIDE DEF D
    <3> QED BY <2>1, <2>2
  <2> QED BY <2>3 DEF Visit, Walk
<1> DEFINE rooted == Visit(atoms, Children(atoms, Root), <<>>)
<1> DEFINE left == {id \in D \ ToSet(rooted) : atoms[id].after \in D}
<1>2. rooted \in Seq(D)
  <2>1. Children(atoms, Root) \in Seq(D) /\ <<>> \in Seq(D)
    BY ChildrenFacts
  <2> HIDE DEF D
  <2> QED BY <1>1, <2>1
<1> HIDE DEF rooted
<1>3. left \in SUBSET Ids /\ IsFiniteSet(left) /\ left \subseteq D
  BY IdsFacts, FS_Subset DEF AtomMap
<1>4. TreeOrder(atoms) = Visit(atoms, Sorted(left), rooted)
  BY DEF TreeOrder, rooted
<1> HIDE DEF left
<1>5. Sorted(left) \in Seq(D)
  <2>1. Sorted(left) \in Seq(left)
    BY <1>3, SortedFacts
  <2> HIDE DEF D
  <2> QED BY <1>3, <2>1
<1> QED BY <1>1, <1>2, <1>4, <1>5

Element == [id : Nat \X Nat, atom : AtomId, text : Seq(Nat), deleted : BOOLEAN]

LEMMA ElementsTyped ==
  ASSUME NEW atoms, AtomMap(atoms), NEW deleted
  PROVE  Elements(atoms, deleted) \in Seq(Element)
<1> DEFINE order == TreeOrder(atoms)
<1> DEFINE E(n) == [id |-> PublicId(order[n], atoms[order[n]].key), atom |-> order[n],
                    text |-> atoms[order[n]].text, deleted |-> order[n] \in deleted]
<1>1. order \in Seq(DOMAIN atoms)
  BY TreeOrderTyped
<1>2. Elements(atoms, deleted) = [n \in DOMAIN order |-> E(n)]
  BY DEF Elements
<1> HIDE DEF order
<1>3. DOMAIN order = 1 .. Len(order) /\ Len(order) \in Nat /\ \A n \in 1 .. Len(order) : order[n] \in DOMAIN atoms
  BY <1>1
<1>4. ASSUME NEW n \in 1 .. Len(order) PROVE E(n) \in Element
  <2>1. order[n] \in AtomId /\ atoms[order[n]] \in Claim
    BY <1>3 DEF AtomMap
  <2>2. order[n] \in Ids
    BY <2>1, IdsFacts
  <2>3. atoms[order[n]].key \in Nat \X Nat /\ atoms[order[n]].text \in Seq(Nat)
    BY <2>1 DEF Claim
  <2>4. PublicId(order[n], atoms[order[n]].key) \in Nat \X Nat
    BY <2>2, <2>3 DEF PublicId, Ids
  <2> QED BY <2>1, <2>3, <2>4 DEF Element
<1> HIDE DEF E
<1>5. [n \in 1 .. Len(order) |-> E(n)] \in Seq(Element)
  BY <1>3, <1>4
<1> QED BY <1>2, <1>3, <1>5

LEMMA VisibleTyped ==
  ASSUME NEW elements \in Seq(Element)
  PROVE  Visible(elements) \in Seq(Element)
<1> DEFINE shown == {n \in DOMAIN elements : ~ elements[n].deleted}
<1> DEFINE At(k) == CHOOSE n \in shown : Cardinality({m \in shown : m <= n}) = k
<1>1. shown \subseteq 1 .. Len(elements) /\ Len(elements) \in Nat
  OBVIOUS
<1>2. shown \in SUBSET Nat /\ IsFiniteSet(shown)
  <2>1. IsFiniteSet(1 .. Len(elements)) /\ 1 .. Len(elements) \subseteq Nat
    BY <1>1, FS_Interval
  <2> HIDE DEF shown
  <2>2. IsFiniteSet(shown)
    BY <1>1, <2>1, FS_Subset
  <2> QED BY <1>1, <2>1, <2>2
<1>3. Visible(elements) = [k \in 1 .. Cardinality(shown) |-> elements[At(k)]]
  BY DEF Visible
<1> HIDE DEF shown
<1>4. Cardinality(shown) \in Nat /\ \A k \in 1 .. Cardinality(shown) : At(k) \in shown
  BY <1>2, CountedOut
<1> HIDE DEF At
<1>5. \A k \in 1 .. Cardinality(shown) : elements[At(k)] \in Element
  <2>1. \A n \in 1 .. Len(elements) : elements[n] \in Element
    OBVIOUS
  <2> QED BY <2>1, <1>1, <1>4
<1> HIDE DEF Element
<1>6. [k \in 1 .. Cardinality(shown) |-> elements[At(k)]] \in Seq(Element)
  BY <1>4, <1>5
<1> QED BY <1>3, <1>6
-----------------------------------------------------------------------------
(* The edits of a plan are edits. *)

LEMMA MaxNat ==
  ASSUME NEW S \in SUBSET Nat, IsFiniteSet(S), S # {}
  PROVE  Max(S) \in S /\ \A y \in S : Max(S) >= y
BY GreatestNat DEF Max

LEMMA MinNat ==
  ASSUME NEW S \in SUBSET Nat, S # {}
  PROVE  Min(S) \in S /\ \A y \in S : Min(S) <= y
BY LeastNat DEF Min

TextList(ss) == ss \in Seq(Seq(Nat))

\* The texts of the elements up to each of them, joined.
Joined(ss, f) ==
  /\ f \in [Nat -> Seq(Nat)] /\ f[0] = <<>>
  /\ \A n \in 0 .. Len(ss) - 1 : f[n + 1] = f[n] \o ss[n + 1]

LEMMA JoinedExists ==
  ASSUME NEW ss, TextList(ss)
  PROVE  \E f : Joined(ss, f)
<1> DEFINE T == Nat \X Seq(Nat)
<1> DEFINE G(p) == <<p[1] + 1, IF p[1] + 1 \in 1 .. Len(ss) THEN p[2] \o ss[p[1] + 1] ELSE p[2]>>
<1> DEFINE F == [p \in T |-> G(p)]
<1>1. F \in [T -> T]
  <2> SUFFICES ASSUME NEW p \in T PROVE G(p) \in T
    OBVIOUS
  <2>1. p[1] + 1 \in Nat /\ p[2] \in Seq(Nat)
    OBVIOUS
  <2>2. \A n \in 1 .. Len(ss) : ss[n] \in Seq(Nat)
    BY DEF TextList
  <2>3. CASE p[1] + 1 \in 1 .. Len(ss)
    <3>1. p[2] \o ss[p[1] + 1] \in Seq(Nat)
      BY <2>1, <2>2, <2>3
    <3> QED BY <2>1, <2>3, <3>1
  <2>4. CASE p[1] + 1 \notin 1 .. Len(ss)
    BY <2>1, <2>4
  <2> QED BY <2>3, <2>4
<1>2. <<0, <<>> >> \in T
  <2>1. <<>> \in Seq(Nat)
    OBVIOUS
  <2> QED BY <2>1
<1>3. PICK g : g \in [Nat -> T] /\ g[0] = <<0, <<>> >> /\ \A n \in Nat : g[n + 1] = F[g[n]]
  <2> HIDE DEF F, T
  <2>1. Iterations(T, <<0, <<>> >>, F) # {}
    BY <1>1, <1>2, Iterates
  <2> QED BY <2>1 DEF Iterations
<1>4. /\ \A n \in Nat : g[n] \in T /\ g[n + 1] = F[g[n]]
      /\ \A p \in T : /\ F[p][1] = p[1] + 1
                      /\ p[1] + 1 \in 1 .. Len(ss) => F[p][2] = p[2] \o ss[p[1] + 1]
  BY <1>3
<1>4a. \A n \in Nat : g[n] \in T /\ g[n][1] \in Nat /\ g[n][2] \in Seq(Nat)
  BY <1>4
<1> HIDE DEF F, T
<1>5. \A n \in Nat : g[n][1] = n
  <2> DEFINE N == {n \in Nat : g[n][1] = n}
  <2>1. 0 \in N
    BY <1>3
  <2>2. ASSUME NEW n \in N PROVE n + 1 \in N
    <3>1. g[n + 1][1] = g[n][1] + 1
      BY <1>4
    <3> QED BY <3>1
  <2>3. N \subseteq Nat
    OBVIOUS
  <2> HIDE DEF N
  <2>4. N = Nat
    BY <2>1, <2>2, <2>3, AllNat
  <2> QED BY <2>4 DEF N
<1> DEFINE f == [n \in Nat |-> g[n][2]]
<1>6. f \in [Nat -> Seq(Nat)]
  BY <1>4a
<1>7. f[0] = <<>>
  BY <1>3
<1>8. ASSUME NEW n \in 0 .. Len(ss) - 1 PROVE f[n + 1] = f[n] \o ss[n + 1]
  <2>1. n \in Nat /\ n + 1 \in Nat /\ n + 1 \in 1 .. Len(ss)
    BY DEF TextList
  <2>2. g[n + 1][2] = g[n][2] \o ss[n + 1]
    BY <2>1, <1>4, <1>5
  <2> QED BY <2>1, <2>2
<1> HIDE DEF f
<1> QED BY <1>6, <1>7, <1>8 DEF Joined

\* FlattenSeq follows the equation it is written with.
LEMMA FlattenIs ==
  ASSUME NEW ss, TextList(ss), NEW f, Joined(ss, f)
  PROVE  FlattenSeq(ss) = f[Len(ss)]
<1> DEFINE k == Len(ss)
<1> DEFINE Eq(g) == g = [i \in 1 .. k |-> IF i = 1 THEN ss[i] ELSE g[i - 1] \o ss[i]]
<1>0. k \in Nat /\ \A n \in 1 .. k : ss[n] \in Seq(Nat)
  BY DEF TextList
<1>1. /\ f \in [Nat -> Seq(Nat)] /\ f[0] = <<>>
      /\ \A n \in 0 .. k - 1 : f[n + 1] = f[n] \o ss[n + 1]
  BY DEF Joined
<1>2. CASE k = 0
  <2>1. ss = <<>>
    BY <1>2 DEF TextList
  <2> QED BY <1>1, <1>2, <2>1 DEF FlattenSeq
<1>3. CASE k # 0
  <2>1. FlattenSeq(ss) = (CHOOSE g : Eq(g))[k]
    BY <1>3 DEF FlattenSeq
  <2> DEFINE h == [i \in 1 .. k |-> f[i]]
  <2> HIDE DEF k
  <2>2. \A i \in 1 .. k : f[i] = IF i = 1 THEN ss[i] ELSE f[i - 1] \o ss[i]
    <3> SUFFICES ASSUME NEW i \in 1 .. k PROVE f[i] = IF i = 1 THEN ss[i] ELSE f[i - 1] \o ss[i]
      OBVIOUS
    <3>1. i - 1 \in 0 .. k - 1 /\ (i - 1) + 1 = i /\ ss[i] \in Seq(Nat) /\ (i = 1 => i - 1 = 0)
      BY <1>0
    <3>2. f[i] = f[i - 1] \o ss[i]
      BY <1>1, <3>1
    <3>3. CASE i = 1
      <4>1. f[0] = <<>> /\ <<>> \o ss[i] = ss[i]
        BY <1>1, <3>1
      <4> QED BY <3>1, <3>2, <3>3, <4>1
    <3> QED BY <3>2, <3>3
  <2>3. Eq(h)
    <3>1. \A i \in 1 .. k : i # 1 => i - 1 \in 1 .. k
      BY <1>0
    <3>2. \A i \in 1 .. k : h[i] = IF i = 1 THEN ss[i] ELSE h[i - 1] \o ss[i]
      BY <2>2, <3>1
    <3> QED BY <3>2
  <2>4. PICK g : g = (CHOOSE g0 : Eq(g0)) /\ Eq(g)
    <3> HIDE DEF Eq, h
    <3> QED BY <2>3
  <2>5. g = [i \in 1 .. k |-> IF i = 1 THEN ss[i] ELSE g[i - 1] \o ss[i]]
    BY <2>4
  <2>6. \A i \in 0 .. k : i \in {n \in Nat : n = 0 \/ g[n] = f[n]}
    <3> DEFINE N == {n \in Nat : n = 0 \/ g[n] = f[n]}
    <3>1. 0 \in N
      OBVIOUS
    <3>2. \A n \in 0 .. k - 1 : n \in N => n + 1 \in N
      <4> SUFFICES ASSUME NEW n \in 0 .. k - 1, n \in N PROVE n + 1 \in N
        OBVIOUS
      <4>1. n + 1 \in 1 .. k /\ (n + 1) - 1 = n /\ n + 1 \in Nat /\ (n + 1 = 1 <=> n = 0)
        BY <1>0
      <4>2. g[n + 1] = IF n + 1 = 1 THEN ss[n + 1] ELSE g[n] \o ss[n + 1]
        BY <2>5, <4>1
      <4>3. f[n + 1] = IF n + 1 = 1 THEN ss[n + 1] ELSE f[n] \o ss[n + 1]
        BY <2>2, <4>1
      <4> QED BY <4>1, <4>2, <4>3
    <3> HIDE DEF N
    <3> QED BY <1>0, <3>1, <3>2, AllUpto DEF N
  <2>7. g[k] = f[k]
    BY <1>0, <1>3, <2>6
  <2> QED BY <2>1, <2>4, <2>7 DEF k
<1> QED BY <1>2, <1>3

LEMMA JoinedPart ==
  ASSUME NEW ss, TextList(ss), NEW f, Joined(ss, f), NEW n \in 0 .. Len(ss)
  PROVE  /\ FlattenSeq([m \in 1 .. n |-> ss[m]]) = f[n]
         /\ f[n] \in Seq(Nat) /\ Len(f[n]) <= Len(f[Len(ss)])
<1> DEFINE part == [m \in 1 .. n |-> ss[m]]
<1>0. Len(ss) \in Nat /\ n \in Nat /\ n <= Len(ss) /\ \A m \in 1 .. Len(ss) : ss[m] \in Seq(Nat)
  BY DEF TextList
<1>1. TextList(part) /\ Len(part) = n /\ \A m \in 1 .. n : part[m] = ss[m]
  BY <1>0 DEF TextList
<1>2. /\ f \in [Nat -> Seq(Nat)] /\ f[0] = <<>>
      /\ \A m \in 0 .. Len(ss) - 1 : f[m + 1] = f[m] \o ss[m + 1]
  BY DEF Joined
<1> HIDE DEF part
<1>3. Joined(part, f)
  <2>1. \A m \in 0 .. n - 1 : f[m + 1] = f[m] \o part[m + 1]
    <3>1. \A m \in 0 .. n - 1 : m \in 0 .. Len(ss) - 1 /\ m + 1 \in 1 .. n
      BY <1>0
    <3> QED BY <3>1, <1>1, <1>2
  <2> QED BY <1>1, <1>2, <2>1 DEF Joined
<1>4. FlattenSeq(part) = f[n]
  BY <1>1, <1>3, FlattenIs
<1>5. Len(f[n]) <= Len(f[Len(ss)])
  <2> DEFINE N == {m \in Nat : m < n \/ Len(f[n]) <= Len(f[m])}
  <2>1. 0 \in N
    BY <1>0, <1>2
  <2>2. \A m \in 0 .. Len(ss) - 1 : m \in N => m + 1 \in N
    <3> SUFFICES ASSUME NEW m \in 0 .. Len(ss) - 1, m \in N PROVE m + 1 \in N
      OBVIOUS
    <3>1. m \in Nat /\ m + 1 \in Nat /\ m + 1 \in 1 .. Len(ss)
      BY <1>0
    <3>2. f[m] \in Seq(Nat) /\ f[n] \in Seq(Nat) /\ ss[m + 1] \in Seq(Nat) /\ f[m + 1] = f[m] \o ss[m + 1]
      BY <1>0, <1>2, <3>1
    <3>3. Len(f[m + 1]) = Len(f[m]) + Len(ss[m + 1]) /\ Len(f[m]) \in Nat /\ Len(ss[m + 1]) \in Nat /\ Len(f[n]) \in Nat
      BY <3>2
    <3>4. CASE m < n
      <4>1. CASE m + 1 < n
        BY <3>1, <4>1
      <4>2. CASE ~ (m + 1 < n)
        <5>1. m + 1 = n
          BY <3>1, <3>4, <4>2, <1>0
        <5> QED BY <5>1, <3>1, <3>3
      <4> QED BY <4>1, <4>2
    <3>5. CASE Len(f[n]) <= Len(f[m])
      <4>1. \A a, b, c, d \in Nat : a <= b /\ c = b + d => a <= c
        OBVIOUS
      <4>2. Len(f[m + 1]) \in Nat
        <5>1. f[m + 1] \in Seq(Nat)
          BY <1>2, <3>1
        <5> QED BY <5>1
      <4>3. Len(f[n]) <= Len(f[m + 1])
        BY <3>3, <3>5, <4>1, <4>2
      <4> QED BY <4>3, <3>1
    <3> QED BY <3>4, <3>5
  <2> HIDE DEF N
  <2>3. \A m \in 0 .. Len(ss) : m \in N
    BY <1>0, <2>1, <2>2, AllUpto
  <2>4. Len(ss) \in N
    BY <1>0, <2>3
  <2> QED BY <1>0, <2>4 DEF N
<1> QED BY <1>0, <1>2, <1>4, <1>5 DEF part
ElementList(shown) == shown \in Seq(Element)
JoinedText(shown) == FlattenSeq([m \in DOMAIN shown |-> shown[m].text])

LEMMA EndFacts ==
  ASSUME NEW shown, ElementList(shown)
  PROVE  /\ Len(shown) \in Nat /\ JoinedText(shown) \in Seq(Nat)
         /\ \A n \in 0 .. Len(shown) : EndAt(shown, n) \in Nat /\ EndAt(shown, n) <= Len(JoinedText(shown))
<1> DEFINE k == Len(shown)
<1> DEFINE ss == [m \in 1 .. k |-> shown[m].text]
<1>1. k \in Nat /\ DOMAIN shown = 1 .. k /\ \A m \in 1 .. k : shown[m].text \in Seq(Nat)
  <2>1. \A e \in Element : e.text \in Seq(Nat)
    BY DEF Element
  <2>2. k \in Nat /\ DOMAIN shown = 1 .. k /\ \A m \in 1 .. k : shown[m] \in Element
    <3> HIDE DEF Element
    <3> QED BY DEF ElementList
  <2> QED BY <2>1, <2>2
<1> HIDE DEF k
<1>2. TextList(ss) /\ Len(ss) = k /\ \A m \in 1 .. k : ss[m] = shown[m].text
  BY <1>1 DEF TextList
<1>3. JoinedText(shown) = FlattenSeq(ss)
  BY <1>1 DEF JoinedText
<1>4. ASSUME NEW n \in 0 .. k PROVE EndAt(shown, n) = Len(FlattenSeq([m \in 1 .. n |-> ss[m]]))
  <2>1. \A m \in 1 .. n : m \in 1 .. k
    BY <1>1
  <2>2. [m \in 1 .. n |-> ss[m]] = [m \in 1 .. n |-> shown[m].text]
    BY <2>1, <1>2
  <2> HIDE DEF ss
  <2> QED BY <2>2 DEF EndAt
<1> HIDE DEF ss
<1>5. PICK f : Joined(ss, f)
  BY <1>2, JoinedExists
<1>6. FlattenSeq(ss) = f[k] /\ f[k] \in Seq(Nat)
  <2>1. FlattenSeq(ss) = f[k]
    BY <1>2, <1>5, FlattenIs
  <2>2. f[k] \in Seq(Nat)
    BY <1>1, <1>5 DEF Joined
  <2> QED BY <2>1, <2>2
<1>7. ASSUME NEW n \in 0 .. k PROVE EndAt(shown, n) \in Nat /\ EndAt(shown, n) <= Len(JoinedText(shown))
  <2>1. /\ FlattenSeq([m \in 1 .. n |-> ss[m]]) = f[n]
        /\ f[n] \in Seq(Nat) /\ Len(f[n]) <= Len(f[k])
    BY <1>2, <1>5, JoinedPart
  <2>2. EndAt(shown, n) = Len(f[n])
    BY <2>1, <1>4
  <2>3. Len(f[n]) \in Nat
    BY <2>1
  <2> QED BY <2>1, <2>2, <2>3, <1>3, <1>6
<1> QED BY <1>1, <1>3, <1>6, <1>7 DEF k

LEMMA CommonFacts ==
  ASSUME NEW s \in Seq(Nat), NEW t \in Seq(Nat)
  PROVE  Common(s, t) \in Nat /\ Common(s, t) <= Len(s) /\ Common(s, t) <= Len(t)
<1> DEFINE N == {n \in 0 .. Len(s) : n <= Len(t) /\ SubSeq(s, 1, n) = SubSeq(t, 1, n)}
<1>1. Len(s) \in Nat /\ Len(t) \in Nat
  OBVIOUS
<1>2. 0 \in N
  <2>1. SubSeq(s, 1, 0) = <<>> /\ SubSeq(t, 1, 0) = <<>>
    OBVIOUS
  <2> QED BY <1>1, <2>1
<1>3. N \subseteq 0 .. Len(s) /\ \A n \in N : n \in Nat /\ n <= Len(s) /\ n <= Len(t)
  BY <1>1
<1>4. Common(s, t) = Max(N)
  BY DEF Common
<1> HIDE DEF N
<1>5. IsFiniteSet(N)
  <2>1. IsFiniteSet(0 .. Len(s))
    BY <1>1, FS_Interval
  <2> QED BY <1>3, <2>1, FS_Subset
<1>6. Max(N) \in N
  BY <1>2, <1>3, <1>5, MaxNat
<1> QED BY <1>3, <1>4, <1>6

LEMMA AnchorTyped ==
  ASSUME NEW shown, ElementList(shown), NEW start
  PROVE  Anchor(shown, start) \in AtomId \cup {Root}
<1> DEFINE ends == {n \in DOMAIN shown : EndAt(shown, n) <= start}
<1>1. Len(shown) \in Nat /\ DOMAIN shown = 1 .. Len(shown) /\ \A n \in 1 .. Len(shown) : shown[n] \in Element
  <2> HIDE DEF Element
  <2> QED BY DEF ElementList
<1>2. ends \subseteq 1 .. Len(shown)
  BY <1>1
<1>3. Anchor(shown, start) = IF ends = {} THEN Root ELSE shown[Max(ends)].atom
  BY DEF Anchor
<1> HIDE DEF ends
<1>4. CASE ends # {}
  <2>1. IsFiniteSet(1 .. Len(shown)) /\ 1 .. Len(shown) \subseteq Nat
    BY <1>1, FS_Interval
  <2>2. IsFiniteSet(ends) /\ ends \subseteq Nat
    BY <1>2, <2>1, FS_Subset
  <2>3. Max(ends) \in ends
    BY <1>4, <2>2, MaxNat
  <2>4. shown[Max(ends)] \in Element
    BY <1>1, <1>2, <2>3
  <2> QED BY <1>3, <1>4, <2>4 DEF Element
<1> QED BY <1>3, <1>4

Deletion == [kind : {"delete"}, id : AtomId]
Insertion == [kind : {"insert"}, id : AtomId, text : Seq(Nat) \ {<<>>}, after : AtomId \cup {Root}]

LEMMA EditsAre ==
  /\ \A e \in Deletion \cup Insertion : IsEdit(e)
  /\ \A i \in AtomId : [kind |-> "delete", id |-> i] \in Deletion
  /\ \A i \in AtomId, c \in Nat, a \in AtomId \cup {Root} :
       [kind |-> "insert", id |-> i, text |-> <<c>>, after |-> a] \in Insertion
<1>1. \A e \in Deletion : IsEdit(e)
  BY DEF Deletion, IsEdit
<1>2. \A e \in Insertion : IsEdit(e)
  BY DEF Insertion, IsEdit
<1>3. \A i \in AtomId : [kind |-> "delete", id |-> i] \in Deletion
  BY DEF Deletion
<1>4. \A c \in Nat : <<c>> \in Seq(Nat) \ {<<>>}
  <2> SUFFICES ASSUME NEW c \in Nat PROVE <<c>> \in Seq(Nat) \ {<<>>}
    OBVIOUS
  <2>1. <<c>> \in Seq(Nat) /\ Len(<<c>>) = 1 /\ Len(<<>>) = 0
    OBVIOUS
  <2> QED BY <2>1
<1>5. \A i \in AtomId, t \in Seq(Nat) \ {<<>>}, a \in AtomId \cup {Root} :
        [kind |-> "insert", id |-> i, text |-> t, after |-> a] \in Insertion
  BY DEF Insertion
<1> QED BY <1>1, <1>2, <1>3, <1>4, <1>5

\* A plan is a sequence of edits the profile decoder accepts.
LEMMA PlanTyped ==
  ASSUME NEW elements, ElementList(elements), NEW next \in Seq(Nat), NEW first \in AtomId
  PROVE  Plan(elements, next, first) \in Seq(Deletion \cup Insertion)
<1> DEFINE Atom(k) == <<first[1] + k - 1, first[2], first[3] + k - 1>>
<1> DEFINE shown == Visible(elements)
<1> DEFINE old == TextOf(elements)
<1> DEFINE prefix == Common(old, next)
<1> DEFINE s1 == SubSeq(old, prefix + 1, Len(old))
<1> DEFINE t1 == SubSeq(next, prefix + 1, Len(next))
<1> DEFINE suffix == Common(Reverse(s1), Reverse(t1))
<1> DEFINE oldEnd == Len(old) - suffix
<1> DEFINE touched == {n \in DOMAIN shown :
                    IF prefix = oldEnd THEN StartAt(shown, n) < prefix /\ prefix < EndAt(shown, n)
                    ELSE StartAt(shown, n) < oldEnd /\ prefix < EndAt(shown, n)}
<1> DEFINE start == IF touched = {} THEN prefix ELSE StartAt(shown, Min(touched))
<1> DEFINE end == IF touched = {} THEN oldEnd ELSE EndAt(shown, Max(touched))
<1> DEFINE new == SubSeq(next, start + 1, Len(next) - (Len(old) - end))
<1> DEFINE deletes == [k \in 1 .. Cardinality(touched) |->
                    [kind |-> "delete", id |-> shown[Min(touched) + k - 1].atom]]
<1> DEFINE inserts == [k \in DOMAIN new |->
                    [kind |-> "insert", id |-> Atom(k), text |-> <<new[k]>>,
                     after |-> IF k = 1 THEN Anchor(shown, start) ELSE Atom(k - 1)]]
<1>0. Plan(elements, next, first) = IF next = old THEN <<>> ELSE deletes \o inserts
  BY DEF Plan
<1>1. ElementList(shown) /\ old = JoinedText(shown)
  <2>1. ElementList(shown)
    BY VisibleTyped DEF ElementList
  <2>2. old = JoinedText(shown)
    BY DEF TextOf, JoinedText
  <2> QED BY <2>1, <2>2
<1> HIDE DEF shown, old
<1>2. /\ Len(shown) \in Nat /\ old \in Seq(Nat) /\ Len(old) \in Nat /\ Len(next) \in Nat
      /\ \A n \in 0 .. Len(shown) : EndAt(shown, n) \in Nat /\ EndAt(shown, n) <= Len(old)
  <2>1. old \in Seq(Nat)
    BY <1>1, EndFacts
  <2> QED BY <2>1, <1>1, EndFacts
<1>3. DOMAIN shown = 1 .. Len(shown) /\ \A n \in 1 .. Len(shown) : shown[n] \in Element
  <2> HIDE DEF Element
  <2> QED BY <1>1 DEF ElementList
<1>4. prefix \in Nat /\ prefix <= Len(old) /\ prefix <= Len(next)
  BY <1>2, CommonFacts
<1> HIDE DEF prefix
<1>5. s1 \in Seq(Nat) /\ t1 \in Seq(Nat) /\ Len(s1) \in Nat /\ Len(s1) = Len(old) - prefix
  <2>1. s1 \in Seq(Nat) /\ Len(s1) = Len(old) - prefix
    BY <1>2, <1>4
  <2>2. t1 \in Seq(Nat)
    BY <1>2, <1>4
  <2> QED BY <2>1, <2>2, <1>2, <1>4
<1> HIDE DEF s1, t1
<1>6. Reverse(s1) \in Seq(Nat) /\ Reverse(t1) \in Seq(Nat) /\ Len(Reverse(s1)) = Len(s1)
  <2>1. ASSUME NEW s \in Seq(Nat) PROVE Reverse(s) \in Seq(Nat) /\ Len(Reverse(s)) = Len(s)
    <3>1. Len(s) \in Nat /\ \A i \in 1 .. Len(s) : (Len(s) - i) + 1 \in 1 .. Len(s)
      OBVIOUS
    <3>2. \A i \in 1 .. Len(s) : s[(Len(s) - i) + 1] \in Nat
      BY <3>1
    <3> QED BY <3>1, <3>2 DEF Reverse
  <2> QED BY <2>1, <1>5
<1>7. suffix \in Nat /\ suffix <= Len(old) - prefix
  <2>1. suffix \in Nat /\ suffix <= Len(Reverse(s1))
    BY <1>6, CommonFacts
  <2> QED BY <2>1, <1>5, <1>6
<1> HIDE DEF suffix
<1>8. oldEnd \in Nat /\ oldEnd <= Len(old)
  BY <1>2, <1>4, <1>7
<1>9. touched \subseteq 1 .. Len(shown)
  BY <1>3
<1> HIDE DEF oldEnd, touched
<1>10. IsFiniteSet(touched) /\ touched \subseteq Nat /\ Cardinality(touched) \in Nat
  <2>1. IsFiniteSet(1 .. Len(shown)) /\ 1 .. Len(shown) \subseteq Nat
    BY <1>2, FS_Interval
  <2> QED BY <2>1, <1>9, FS_Subset, FS_CardinalityType
<1>11. touched # {} => Min(touched) \in 1 .. Len(shown) /\ Max(touched) \in 1 .. Len(shown)
  BY <1>9, <1>10, MinNat, MaxNat
<1>12. start \in Nat /\ end \in Nat /\ start <= Len(old) /\ end <= Len(old)
  <2>1. CASE touched = {}
    BY <2>1, <1>4, <1>8
  <2>2. CASE touched # {}
    <3>1. Min(touched) - 1 \in 0 .. Len(shown) /\ Max(touched) \in 0 .. Len(shown)
      BY <2>2, <1>2, <1>11
    <3>2. /\ EndAt(shown, Min(touched) - 1) \in Nat /\ EndAt(shown, Min(touched) - 1) <= Len(old)
          /\ EndAt(shown, Max(touched)) \in Nat /\ EndAt(shown, Max(touched)) <= Len(old)
      BY <3>1, <1>2
    <3> QED BY <2>2, <3>2 DEF StartAt
  <2> QED BY <2>1, <2>2
<1> HIDE DEF start, end
<1>13. new \in Seq(Nat)
  <2>1. start + 1 \in Nat \ {0} /\ Len(next) - (Len(old) - end) \in Int /\ Len(next) - (Len(old) - end) <= Len(next)
    BY <1>2, <1>12
  <2>2. \A a \in Nat \ {0}, b \in Int : b <= Len(next) => SubSeq(next, a, b) \in Seq(Nat)
    OBVIOUS
  <2> QED BY <2>1, <2>2
<1> HIDE DEF new
<1>14. deletes \in Seq(Deletion)
  <2>1. ASSUME NEW k \in 1 .. Cardinality(touched)
        PROVE  [kind |-> "delete", id |-> shown[Min(touched) + k - 1].atom] \in Deletion
    <3>1. touched # {}
      <4>1. Cardinality(touched) # 0
        BY <1>10
      <4>2. Cardinality({}) = 0
        BY FS_EmptySet
      <4> QED BY <4>1, <4>2
    <3>2. Min(touched) \in 1 .. Len(shown) /\ \A n \in touched : Min(touched) <= n
      BY <3>1, <1>10, <1>11, MinNat
    <3>3. touched \subseteq Min(touched) .. Len(shown)
      BY <3>2, <1>9
    <3>4. Cardinality(touched) <= Len(shown) - Min(touched) + 1
      <4>1. /\ IsFiniteSet(Min(touched) .. Len(shown))
            /\ Cardinality(Min(touched) .. Len(shown)) = Len(shown) - Min(touched) + 1
        <5>1. PICK a \in Int, b \in Int : a = Min(touched) /\ b = Len(shown) /\ a <= b
          BY <3>2, <1>2
        <5>2. IsFiniteSet(a .. b) /\ Cardinality(a .. b) = b - a + 1
          BY <5>1, FS_Interval
        <5> QED BY <5>1, <5>2
      <4> QED BY <3>3, <4>1, FS_Subset
    <3>5. Min(touched) + k - 1 \in 1 .. Len(shown)
      BY <3>2, <3>4, <1>2, <1>10
    <3>6. shown[Min(touched) + k - 1] \in Element
      BY <3>5, <1>3
    <3>7. shown[Min(touched) + k - 1].atom \in AtomId
      BY <3>6 DEF Element
    <3> QED BY <3>7, EditsAre
  <2> HIDE DEF Deletion
  <2> QED BY <2>1, <1>10
<1>15. inserts \in Seq(Insertion)
  <2>0. Len(new) \in Nat /\ DOMAIN new = 1 .. Len(new) /\ \A k \in 1 .. Len(new) : new[k] \in Nat
    BY <1>13
  <2>1. \A k \in Nat \ {0} : Atom(k) \in AtomId
    <3>1. PICK i \in Nat \ {0}, j \in Origins, c \in Nat : first = <<i, j, c>>
      BY DEF AtomId
    <3>2. \A k \in Nat \ {0} : i + k - 1 \in Nat \ {0} /\ c + k - 1 \in Nat
      OBVIOUS
    <3> QED BY <3>1, <3>2 DEF AtomId
  <2>2. ASSUME NEW k \in 1 .. Len(new)
        PROVE  [kind |-> "insert", id |-> Atom(k), text |-> <<new[k]>>,
                after |-> IF k = 1 THEN Anchor(shown, start) ELSE Atom(k - 1)] \in Insertion
    <3>1. Atom(k) \in AtomId /\ new[k] \in Nat
      BY <2>0, <2>1
    <3>2. (IF k = 1 THEN Anchor(shown, start) ELSE Atom(k - 1)) \in AtomId \cup {Root}
      <4>1. CASE k = 1
        BY <4>1, <1>1, AnchorTyped
      <4>2. CASE k # 1
        <5>1. k - 1 \in Nat \ {0}
          BY <4>2, <2>0
        <5> HIDE DEF Atom
        <5> QED BY <4>2, <5>1, <2>1
      <4> QED BY <4>1, <4>2
    <3> HIDE DEF Atom
    <3> QED BY <3>1, <3>2, EditsAre
  <2> HIDE DEF Insertion, Atom
  <2> QED BY <2>0, <2>2
<1> HIDE DEF deletes, inserts
<1>16. deletes \o inserts \in Seq(Deletion \cup Insertion) /\ <<>> \in Seq(Deletion \cup Insertion)
  <2>1. deletes \in Seq(Deletion \cup Insertion) /\ inserts \in Seq(Deletion \cup Insertion)
    BY <1>14, <1>15
  <2> QED BY <2>1
<1> QED BY <1>0, <1>16
-----------------------------------------------------------------------------
(* An assembler that applies what is new holds what a full replay gives. *)

SeqsOf(ops, origin) == {op.seq : op \in Of(ops, origin)}
BasesOf(ops) == [origin \in Origins |-> IF SeqsOf(ops, origin) = {} THEN Unknown ELSE Min(SeqsOf(ops, origin))]
NormalizedAll(ops, bases) == {Normalized(op, bases) : op \in ops}
Given(ops) == NormalizedAll(ops, BasesOf(ops))
Applied(ops) == Settle({}, Given(ops)).applied
RefersTo(ops) == {ref[1] : ref \in UNION {op.refs : op \in ops}}

\* The assembler that replayed a set of operations from nothing.
Assembled(ops) ==
  [ops |-> ops, bases |-> BasesOf(ops), referenced |-> RefersTo(ops),
   applied |-> Applied(ops), pending |-> Given(ops) \ Applied(ops),
   atoms |-> Inserted(<<>>, Applied(ops)), deleted |-> Deleted(Applied(ops)),
   elements |-> Elements(Inserted(<<>>, Applied(ops)), Deleted(Applied(ops)))]

OpSet(ops) == IsFiniteSet(ops) /\ Distinct(ops) /\ \A op \in ops : IsOp(op)

LEMMA OpSetPart ==
  ASSUME NEW S, OpSet(S), NEW T \in SUBSET S
  PROVE  OpSet(T)
<1>1. IsFiniteSet(T)
  BY FS_Subset DEF OpSet
<1> QED BY <1>1 DEF OpSet, Distinct

LEMMA BasesFacts ==
  ASSUME NEW ops, OpSet(ops)
  PROVE  /\ BasesOf(ops) \in [Origins -> Nat \cup {Unknown}]
         /\ \A op \in ops : BasesOf(ops)[op.origin] \in Nat /\ BasesOf(ops)[op.origin] <= op.seq
<1>1. \A origin : SeqsOf(ops, origin) \subseteq Nat
  BY DEF SeqsOf, Of, OpSet, IsOp
<1>2. \A origin : SeqsOf(ops, origin) # {} =>
        /\ Min(SeqsOf(ops, origin)) \in Nat
        /\ \A s \in SeqsOf(ops, origin) : Min(SeqsOf(ops, origin)) <= s
  BY <1>1, MinNat
<1>3. BasesOf(ops) \in [Origins -> Nat \cup {Unknown}]
  BY <1>2 DEF BasesOf
<1>4. ASSUME NEW op \in ops PROVE BasesOf(ops)[op.origin] \in Nat /\ BasesOf(ops)[op.origin] <= op.seq
  <2>1. op.origin \in Origins /\ op.seq \in SeqsOf(ops, op.origin)
    BY DEF OpSet, IsOp, SeqsOf, Of
  <2>2. BasesOf(ops)[op.origin] = Min(SeqsOf(ops, op.origin))
    BY <2>1 DEF BasesOf
  <2> QED BY <2>1, <2>2, <1>2
<1> QED BY <1>3, <1>4

\* What the node is given it can be given.
LEMMA GivenFacts ==
  ASSUME NEW ops, OpSet(ops)
  PROVE  NodeOps(Given(ops))
<1> DEFINE bases == BasesOf(ops)
<1> DEFINE f == [op \in ops |-> Normalized(op, bases)]
<1>1. /\ bases \in [Origins -> Nat \cup {Unknown}]
      /\ \A op \in ops : bases[op.origin] \in Nat /\ bases[op.origin] <= op.seq
  BY BasesFacts
<1> HIDE DEF bases
<1>2. IsFiniteSet(Given(ops))
  <2>1. Given(ops) = {f[op] : op \in ops}
    BY DEF Given, NormalizedAll, bases
  <2> HIDE DEF f
  <2> QED BY <2>1, FiniteImage DEF OpSet
<1>3. \A op \in ops : op.origin \in Origins /\ op.seq \in Nat /\ IsEdit(op.edit) /\ op.refs \subseteq Origins \X Nat
  BY DEF OpSet, IsOp
<1>4. ASSUME NEW op \in ops
      PROVE  LET n == Normalized(op, bases) IN
             /\ n.origin = op.origin /\ n.edit = op.edit /\ n.seq = op.seq - bases[op.origin] + 1
             /\ n.seq \in Nat \ {0}
             /\ \A dep \in n.deps : dep[2] \in Int
  <2>1. bases[op.origin] # Unknown
    BY <1>1 DEF Unknown
  <2>2. Normal(op.origin, op.seq, bases) = op.seq - bases[op.origin] + 1
    BY <2>1 DEF Normal
  <2>3. op.seq - bases[op.origin] + 1 \in Nat \ {0}
    BY <1>1, <1>3
  <2>4. ASSUME NEW ref \in op.refs PROVE Normal(ref[1], ref[2], bases) \in Int
    <3>1. ref[1] \in Origins /\ ref[2] \in Nat
      BY <1>3
    <3>2. bases[ref[1]] \in Int
      BY <3>1, <1>1 DEF Unknown
    <3> QED BY <3>1, <3>2 DEF Normal
  <2>5. \A dep \in Normalized(op, bases).deps : dep[2] \in Int
    BY <2>4 DEF Normalized
  <2> QED BY <2>2, <2>3, <2>5 DEF Normalized
<1>5. \A a, b \in ops :
        (Normalized(a, bases).origin = Normalized(b, bases).origin /\ Normalized(a, bases).seq = Normalized(b, bases).seq)
          => a = b
  <2> SUFFICES ASSUME NEW a \in ops, NEW b \in ops, Normalized(a, bases).origin = Normalized(b, bases).origin,
                      Normalized(a, bases).seq = Normalized(b, bases).seq
               PROVE  a = b
    OBVIOUS
  <2>1. a.origin = b.origin /\ a.seq - bases[a.origin] + 1 = b.seq - bases[a.origin] + 1
    BY <1>4
  <2>2. a.seq = b.seq
    BY <2>1, <1>1, <1>3
  <2> QED BY <2>1, <2>2 DEF OpSet, Distinct
<1>6. Given(ops) = {Normalized(op, bases) : op \in ops}
  BY DEF Given, NormalizedAll, bases
<1>7. Distinct(Given(ops))
  BY <1>5, <1>6 DEF Distinct
<1>8. \A n \in Given(ops) : /\ n.origin \in Origins /\ n.seq \in Nat \ {0} /\ IsEdit(n.edit)
                            /\ \A dep \in n.deps : dep[2] \in Int
  BY <1>3, <1>4, <1>6
<1> QED BY <1>2, <1>7, <1>8 DEF NodeOps

LEMMA MinOfParts ==
  ASSUME NEW S \in SUBSET Nat, NEW T \in SUBSET Nat, S # {}
  PROVE  Min(T \cup {Min(S)}) = Min(S \cup T)
<1>1. Min(S) \in S /\ \A y \in S : Min(S) <= y
  BY MinNat
<1>2. T \cup {Min(S)} \subseteq Nat /\ S \cup T \subseteq Nat
  BY <1>1
<1>3. /\ Min(T \cup {Min(S)}) \in T \cup {Min(S)}
      /\ \A y \in T \cup {Min(S)} : Min(T \cup {Min(S)}) <= y
  BY <1>2, MinNat
<1>4. Min(S \cup T) \in S \cup T /\ \A y \in S \cup T : Min(S \cup T) <= y
  BY <1>2, MinNat
<1>5. PICK m, x, y : m = Min(S) /\ x = Min(T \cup {Min(S)}) /\ y = Min(S \cup T)
  OBVIOUS
<1>6. m \in Nat /\ x \in Nat /\ y \in Nat
  BY <1>1, <1>2, <1>3, <1>4, <1>5
<1>7. y <= x
  BY <1>1, <1>3, <1>4, <1>5
<1>8. x <= y
  <2>1. CASE y \in T
    BY <1>3, <1>5, <2>1
  <2>2. CASE y \in S
    <3>1. m <= y /\ x <= m
      BY <1>1, <1>3, <1>5, <2>2
    <3> QED BY <3>1, <1>6
  <2> QED BY <2>1, <2>2, <1>4, <1>5
<1> QED BY <1>5, <1>6, <1>7, <1>8

\* Without a base that moved, the operations keep the form they were given in.
LEMMA FormsKept ==
  ASSUME NEW ops, OpSet(ops), NEW bases \in [Origins -> Nat \cup {Unknown}],
         \A origin \in Origins : ~ Moved(BasesOf(ops)[origin], bases[origin], origin \in RefersTo(ops))
  PROVE  NormalizedAll(ops, bases) = Given(ops)
<1> DEFINE old == BasesOf(ops)
<1>1. /\ old \in [Origins -> Nat \cup {Unknown}]
      /\ \A op \in ops : old[op.origin] \in Nat
  BY BasesFacts
<1>2. \A origin \in Origins : ~ Moved(old[origin], bases[origin], origin \in RefersTo(ops))
  OBVIOUS
<1>3. \A op \in ops : op.origin \in Origins /\ op.seq \in Nat /\ op.refs \subseteq Origins \X Nat
  BY DEF OpSet, IsOp
<1>4. Given(ops) = {Normalized(op, old) : op \in ops}
  BY DEF Given, NormalizedAll
<1> HIDE DEF old
<1>5. ASSUME NEW op \in ops PROVE Normalized(op, bases) = Normalized(op, old)
  <2>1. bases[op.origin] = old[op.origin]
    <3>1. old[op.origin] # Unknown
      BY <1>1 DEF Unknown
    <3> QED BY <3>1, <1>2, <1>3 DEF Moved
  <2>2. Normal(op.origin, op.seq, bases) = Normal(op.origin, op.seq, old)
    BY <2>1 DEF Normal
  <2>3. ASSUME NEW ref \in op.refs PROVE Normal(ref[1], ref[2], bases) = Normal(ref[1], ref[2], old)
    <3>1. ref[1] \in Origins /\ ref[2] \in Nat
      BY <1>3
    <3>2. ref[1] \in RefersTo(ops)
      BY DEF RefersTo
    <3>3. CASE old[ref[1]] # Unknown
      <4>1. bases[ref[1]] = old[ref[1]]
        BY <3>1, <3>3, <1>2 DEF Moved
      <4> QED BY <4>1 DEF Normal
    <3>4. CASE old[ref[1]] = Unknown
      <4>1. bases[ref[1]] \in {0, Unknown}
        BY <3>1, <3>2, <3>4, <1>2 DEF Moved
      <4> QED BY <3>4, <4>1 DEF Normal, Unknown
    <3> QED BY <3>3, <3>4
  <2>4. {<<ref[1], Normal(ref[1], ref[2], bases)>> : ref \in op.refs}
          = {<<ref[1], Normal(ref[1], ref[2], old)>> : ref \in op.refs}
    BY <2>3
  <2> QED BY <2>2, <2>4 DEF Normalized
<1>6. NormalizedAll(ops, bases) = {Normalized(op, old) : op \in ops}
  BY <1>5 DEF NormalizedAll
<1> QED BY <1>4, <1>6
-----------------------------------------------------------------------------
(* Applying what is new to an assembler that replayed the rest. *)

NewSeqs(bases, fresh, origin) == SeqsOf(fresh, origin) \cup IF bases[origin] = Unknown THEN {} ELSE {bases[origin]}
NewBases(bases, fresh) ==
  [origin \in Origins |->
     IF NewSeqs(bases, fresh, origin) = {} THEN Unknown ELSE Min(NewSeqs(bases, fresh, origin))]
AnyMoved(a, bases) ==
  \E origin \in Origins : Moved(a.bases[origin], bases[origin], origin \in a.referenced)

\* The assembler `from` after the operations `todo`, told what it holds.
Grown(from, todo, ops, bases, referenced) ==
  LET node == Settle(from.applied, from.pending \cup NormalizedAll(todo, bases))
      atoms == Inserted(from.atoms, node.applied \ from.applied)
      deleted == from.deleted \cup Deleted(node.applied \ from.applied)
  IN  [ops |-> ops, bases |-> bases, referenced |-> referenced,
       applied |-> node.applied, pending |-> node.pending,
       atoms |-> atoms, deleted |-> deleted, elements |-> Elements(atoms, deleted)]

LEMMA ApplyGrows ==
  ASSUME NEW a, NEW fresh, fresh # {}
  PROVE  LET bases == NewBases(a.bases, fresh)
             ops == a.ops \cup fresh
             referenced == a.referenced \cup RefersTo(fresh)
         IN  /\ AnyMoved(a, bases) =>
                  Apply(a, fresh) = Grown(NewAssembler, fresh \cup a.ops, ops, bases, referenced)
             /\ ~ AnyMoved(a, bases) =>
                  Apply(a, fresh) = Grown(a, fresh, ops, bases, referenced)
<1> DEFINE bases == NewBases(a.bases, fresh)
<1> DEFINE from == IF AnyMoved(a, bases) THEN NewAssembler ELSE a
<1> DEFINE todo == fresh \cup IF AnyMoved(a, bases) THEN a.ops ELSE {}
<1>1. Apply(a, fresh) = Grown(from, todo, a.ops \cup fresh, bases, a.referenced \cup RefersTo(fresh))
  BY Zenon DEF Apply, Grown, NewBases, NewSeqs, SeqsOf, Of, AnyMoved, RefersTo, NormalizedAll
<1>2. CASE AnyMoved(a, bases)
  <2>1. from = NewAssembler /\ todo = fresh \cup a.ops
    BY <1>2
  <2> HIDE DEF from, todo
  <2> QED BY <1>1, <1>2, <2>1
<1>3. CASE ~ AnyMoved(a, bases)
  <2>1. from = a /\ todo = fresh
    BY <1>3
  <2> HIDE DEF from, todo
  <2> QED BY <1>1, <1>3, <2>1
<1> QED BY <1>2, <1>3

LEMMA BasesInParts ==
  ASSUME NEW ops, NEW fresh, OpSet(ops \cup fresh)
  PROVE  NewBases(BasesOf(ops), fresh) = BasesOf(ops \cup fresh)
<1>1. ASSUME NEW origin \in Origins
      PROVE  NewBases(BasesOf(ops), fresh)[origin] = BasesOf(ops \cup fresh)[origin]
  <2> DEFINE S == SeqsOf(ops, origin)
  <2> DEFINE T == SeqsOf(fresh, origin)
  <2> DEFINE N == NewSeqs(BasesOf(ops), fresh, origin)
  <2>1. SeqsOf(ops \cup fresh, origin) = S \cup T
    BY DEF SeqsOf, Of
  <2>2. S \cup T \in SUBSET Nat
    BY <2>1 DEF SeqsOf, Of, OpSet, IsOp
  <2>3. BasesOf(ops)[origin] = IF S = {} THEN Unknown ELSE Min(S)
    BY DEF BasesOf
  <2>4. BasesOf(ops \cup fresh)[origin] = IF S \cup T = {} THEN Unknown ELSE Min(S \cup T)
    BY <2>1 DEF BasesOf
  <2>5. NewBases(BasesOf(ops), fresh)[origin] = IF N = {} THEN Unknown ELSE Min(N)
    BY DEF NewBases
  <2>6. N = T \cup IF BasesOf(ops)[origin] = Unknown THEN {} ELSE {BasesOf(ops)[origin]}
    BY DEF NewSeqs
  <2> HIDE DEF S, T, N
  <2>7. CASE S = {}
    BY <2>3, <2>4, <2>5, <2>6, <2>7
  <2>8. CASE S # {}
    <3>1. Min(S) \in Nat
      BY <2>2, <2>8, MinNat
    <3>2. N = T \cup {Min(S)}
      BY <2>3, <2>6, <2>8, <3>1 DEF Unknown
    <3>3. Min(T \cup {Min(S)}) = Min(S \cup T)
      BY <2>2, <2>8, MinOfParts
    <3> QED BY <2>4, <2>5, <2>8, <3>2, <3>3
  <2> QED BY <2>7, <2>8
<1> QED BY <1>1 DEF NewBases, BasesOf

LEMMA RefersInParts ==
  ASSUME NEW ops, NEW fresh
  PROVE  RefersTo(ops) \cup RefersTo(fresh) = RefersTo(ops \cup fresh)
BY DEF RefersTo
LEMMA SettleParts ==
  ASSUME NEW A, NEW P
  PROVE  Settle(A, P).pending = P \ Settle(A, P).applied
BY DEF Settle

LEMMA DeletedInParts ==
  ASSUME NEW A, NEW B
  PROVE  Deleted(A) \cup Deleted(B) = Deleted(A \cup B)
BY DEF Deleted

LEMMA GrownFromNone ==
  ASSUME NEW ops
  PROVE  Grown(NewAssembler, ops, ops, BasesOf(ops), RefersTo(ops)) = Assembled(ops)
<1> DEFINE node == Settle({}, Given(ops))
<1>1. /\ NewAssembler.applied = {} /\ NewAssembler.pending = {} /\ NewAssembler.atoms = <<>>
      /\ NewAssembler.deleted = {}
  BY DEF NewAssembler
<1>2. {} \cup NormalizedAll(ops, BasesOf(ops)) = Given(ops)
  BY DEF Given
<1>3. Settle(NewAssembler.applied, NewAssembler.pending \cup NormalizedAll(ops, BasesOf(ops))) = node
  BY <1>1, <1>2, Zenon
<1>4. node.applied = Applied(ops) /\ node.pending = Given(ops) \ Applied(ops)
  BY SettleParts DEF Applied
<1> HIDE DEF node
<1>5. Applied(ops) \ {} = Applied(ops) /\ {} \cup Deleted(Applied(ops)) = Deleted(Applied(ops))
  OBVIOUS
<1> QED BY <1>1, <1>3, <1>4, <1>5, Zenon DEF Grown, Assembled

\* What is new is applied as a replay of everything would have applied it.
LEMMA ApplyReplays ==
  ASSUME NEW ops, NEW fresh, OpSet(ops \cup fresh)
  PROVE  Apply(Assembled(ops), fresh) = Assembled(ops \cup fresh)
<1> DEFINE a == Assembled(ops)
<1> DEFINE all == ops \cup fresh
<1> DEFINE bases == BasesOf(all)
<1> DEFINE old == Applied(ops)
<1>1. CASE fresh = {}
  <2>1. all = ops
    BY <1>1
  <2>2. Apply(a, fresh) = a
    BY <1>1 DEF Apply
  <2> QED BY <2>1, <2>2
<1>2. CASE fresh # {}
  <2>1. /\ a.ops = ops /\ a.bases = BasesOf(ops) /\ a.referenced = RefersTo(ops)
        /\ a.applied = old /\ a.pending = Given(ops) \ old
        /\ a.atoms = Inserted(<<>>, old) /\ a.deleted = Deleted(old)
    BY DEF Assembled
  <2>2. OpSet(all) /\ OpSet(ops)
    BY OpSetPart
  <2>3. NewBases(a.bases, fresh) = bases /\ a.referenced \cup RefersTo(fresh) = RefersTo(all) /\ a.ops \cup fresh = all
    BY <2>1, BasesInParts, RefersInParts
  <2> HIDE DEF a, bases
  <2>4. CASE AnyMoved(a, bases)
    <3>1. fresh \cup a.ops = all
      BY <2>1
    <3>2. Apply(a, fresh) = Grown(NewAssembler, all, all, bases, RefersTo(all))
      BY <1>2, <2>3, <2>4, <3>1, ApplyGrows
    <3> QED BY <3>2, GrownFromNone DEF a, bases
  <2>5. CASE ~ AnyMoved(a, bases)
    <3>1. Apply(a, fresh) = Grown(a, fresh, all, bases, RefersTo(all))
      BY <1>2, <2>3, <2>5, ApplyGrows
    <3> DEFINE P == (Given(ops) \ old) \cup NormalizedAll(fresh, bases)
    <3> DEFINE G == Given(all)
    <3>2. bases \in [Origins -> Nat \cup {Unknown}]
      BY <2>2, BasesFacts DEF bases
    <3>3. NormalizedAll(ops, bases) = Given(ops)
      <4>1. \A origin \in Origins : ~ Moved(BasesOf(ops)[origin], bases[origin], origin \in RefersTo(ops))
        BY <2>1, <2>5 DEF AnyMoved
      <4> QED BY <2>2, <3>2, <4>1, FormsKept
    <3>4. G = Given(ops) \cup NormalizedAll(fresh, bases)
      BY <3>3 DEF Given, NormalizedAll, bases
    <3>5. NodeOps(G) /\ NodeOps(Given(ops))
      BY <2>2, GivenFacts
    <3>6. old = Settle({}, Given(ops)).applied /\ Applied(all) = Settle({}, G).applied
      BY DEF Applied
    <3> HIDE DEF G
    <3>7. old \subseteq Given(ops) /\ old \cup P = G /\ Given(ops) \subseteq G /\ P \subseteq G
      <4>1. old \subseteq Given(ops)
        BY <3>5, <3>6, SettledFromNone
      <4> QED BY <4>1, <3>4
    <3> HIDE DEF P, old
    <3>8. Settle(old, P).applied = Applied(all)
      BY <3>5, <3>6, <3>7, DeliveryConfluent
    <3>9. old \subseteq Applied(all) /\ Applied(all) \subseteq G /\ NodeOps(Applied(all))
      <4>1. Applied(all) \subseteq G
        <5>1. Settle({}, G).applied \subseteq G
          BY <3>5, SettledFromNone
        <5> QED BY <5>1, <3>6
      <4>2. Dense(old) /\ old \in SUBSET G /\ P \in SUBSET G
        BY <3>5, <3>6, <3>7, SettledFromNone
      <4>3. old \subseteq Settle(old, P).applied
        BY <4>2, <3>5, Settled, Zenon
      <4> QED BY <4>1, <4>3, <3>5, <3>8, NodeOpsPart
    <3> DEFINE new == Applied(all) \ old
    <3>10. Settle(old, P).pending = G \ Applied(all)
      <4>1. P \ Applied(all) = G \ Applied(all)
        BY <3>7, <3>9
      <4>2. Settle(old, P).pending = P \ Settle(old, P).applied
        BY SettleParts
      <4> QED BY <4>1, <4>2, <3>8
    <3>11. Inserted(Inserted(<<>>, old), new) = Inserted(<<>>, Applied(all))
      BY <3>9, InsertedInParts
    <3>12. Deleted(old) \cup Deleted(new) = Deleted(Applied(all))
      <4>1. old \cup new = Applied(all)
        BY <3>9
      <4> QED BY <4>1, DeletedInParts
    <3>13. /\ Settle(a.applied, a.pending \cup NormalizedAll(fresh, bases)) = Settle(old, P)
           /\ Settle(old, P).applied \ a.applied = new
      BY <2>1, <3>8 DEF P
    <3> HIDE DEF new
    <3>14. Grown(a, fresh, all, bases, RefersTo(all)) = Assembled(all)
      BY <2>1, <3>8, <3>10, <3>11, <3>12, <3>13, Zenon DEF Grown, Assembled, G, bases
    <3> QED BY <3>1, <3>14 DEF a
  <2> QED BY <2>4, <2>5 DEF a
<1> QED BY <1>1, <1>2

LEMMA NewIsAssembled == NewAssembler = Assembled({})
<1>1. Given({}) = {} /\ RefersTo({}) = {}
  BY DEF Given, NormalizedAll, RefersTo
<1>2. BasesOf({}) = [origin \in Origins |-> Unknown]
  BY DEF BasesOf, SeqsOf, Of
<1>3. Applied({}) = {}
  <2>1. NodeOps({})
    BY FS_EmptySet DEF NodeOps, Distinct
  <2>2. Settle({}, {}).applied \subseteq {}
    BY <2>1, SettledFromNone
  <2> QED BY <2>2, <1>1 DEF Applied
<1>4. Deleted({}) = {} /\ Insertions({}) = {}
  BY DEF Deleted, Insertions
<1>5. DOMAIN <<>> = {}
  OBVIOUS
<1>6. Inserted(<<>>, {}) = <<>>
  <2>1. DOMAIN <<>> \cup {op.edit.id : op \in Insertions({})} = {}
    BY <1>4, <1>5
  <2>2. DOMAIN Inserted(<<>>, {}) = {}
    BY <2>1 DEF Inserted
  <2> DEFINE f == Inserted(<<>>, {})
  <2>3. f = [n \in DOMAIN f |-> f[n]]
    BY DEF Inserted
  <2> HIDE DEF f
  <2>4. DOMAIN f = {}
    BY <2>2 DEF f
  <2>5. f \in [1 .. 0 -> {}]
    BY <2>3, <2>4
  <2>6. f = <<>>
    BY <2>5
  <2> QED BY <2>6 DEF f
<1>7. Elements(<<>>, {}) = <<>>
  <2>1. AtomMap(<<>>)
    BY <1>5, FS_EmptySet DEF AtomMap
  <2>2. TreeOrder(<<>>) \in Seq({})
    BY <2>1, <1>5, TreeOrderTyped
  <2>3. TreeOrder(<<>>) = <<>>
    BY <2>2
  <2>4. Elements(<<>>, {}) \in Seq(Element)
    BY <2>1, ElementsTyped
  <2>5. DOMAIN Elements(<<>>, {}) = {}
    BY <2>3 DEF Elements
  <2> QED BY <2>4, <2>5
<1>8. {} \ {} = {}
  OBVIOUS
<1> QED BY <1>1, <1>2, <1>3, <1>4, <1>6, <1>7, <1>8, Zenon DEF NewAssembler, Assembled
\* A mount shows what the log gives, from a checkpoint or without.
LEMMA RestoredReplays ==
  ASSUME NEW persisted, OpSet(persisted), NEW checkpoint,
         checkpoint = NoCheckpoint \/ \E ops : checkpoint = Assembled(ops)
  PROVE  Restored(checkpoint, persisted) = Assembled(persisted)
<1>1. CASE checkpoint = NoCheckpoint \/ ~ checkpoint.ops \subseteq persisted
  <2>1. Restored(checkpoint, persisted) = Apply(Assembled({}), persisted)
    BY <1>1, NewIsAssembled DEF Restored
  <2>2. {} \cup persisted = persisted
    OBVIOUS
  <2> QED BY <2>1, <2>2, ApplyReplays
<1>2. CASE checkpoint # NoCheckpoint /\ checkpoint.ops \subseteq persisted
  <2>1. PICK ops : checkpoint = Assembled(ops)
    BY <1>2
  <2>2. checkpoint.ops = ops
    BY <2>1 DEF Assembled
  <2>3. ops \cup (persisted \ ops) = persisted
    BY <1>2, <2>2
  <2>4. Restored(checkpoint, persisted) = Apply(Assembled(ops), persisted \ ops)
    BY <1>2, <2>1, <2>2 DEF Restored
  <2> QED BY <2>3, <2>4, ApplyReplays
<1> QED BY <1>1, <1>2

LEMMA AssembledShows ==
  ASSUME NEW ops
  PROVE  AssembleText(ops) = [elements |-> Assembled(ops).elements,
                              clock |-> [origin \in Origins |-> Reached(Assembled(ops).applied, origin)]]
<1>1. AssembleText(ops) = [elements |-> Elements(Inserted(<<>>, Applied(ops)), Deleted(Applied(ops))),
                           clock |-> [origin \in Origins |-> Reached(Applied(ops), origin)]]
  BY Zenon DEF AssembleText, Applied, Given, NormalizedAll, BasesOf, SeqsOf, Of
<1>2. /\ Assembled(ops).elements = Elements(Inserted(<<>>, Applied(ops)), Deleted(Applied(ops)))
      /\ Assembled(ops).applied = Applied(ops)
  BY DEF Assembled
<1> QED BY <1>1, <1>2

\* A founded history is applied to its end.
LEMMA FoundedApplies ==
  ASSUME NEW W, OpSet(W), Founded(W)
  PROVE  Given(W) \ Applied(W) = {}
<1> DEFINE bases == BasesOf(W)
<1> DEFINE A == Applied(W)
<1> DEFINE Late == {op \in W : Normalized(op, bases) \notin A}
<1>1. NodeOps(Given(W))
  BY GivenFacts
<1>2. A \subseteq Given(W) /\ Dense(A) /\ Ready(A, Given(W)) = {}
  <2>1. Given(W) \in SUBSET Given(W)
    OBVIOUS
  <2> QED BY <1>1, <2>1, SettledFromNone DEF Applied
<1>3. Given(W) = {Normalized(op, bases) : op \in W}
  BY DEF Given, NormalizedAll
<1>4. /\ bases \in [Origins -> Nat \cup {Unknown}]
      /\ \A op \in W : bases[op.origin] \in Nat /\ bases[op.origin] <= op.seq
  BY BasesFacts
<1>5. \A op \in W : op.origin \in Origins /\ op.seq \in Nat /\ op.lamport \in Nat /\ op.refs \subseteq Origins \X Nat
  BY DEF OpSet, IsOp
<1>6. \A op \in W : \E below \in W : below.origin = op.origin /\ below.seq = bases[op.origin]
  <2> SUFFICES ASSUME NEW op \in W PROVE \E below \in W : below.origin = op.origin /\ below.seq = bases[op.origin]
    OBVIOUS
  <2>1. SeqsOf(W, op.origin) \subseteq Nat /\ op.seq \in SeqsOf(W, op.origin)
    BY <1>5 DEF SeqsOf, Of
  <2>2. Min(SeqsOf(W, op.origin)) \in SeqsOf(W, op.origin)
    BY <2>1, MinNat
  <2>3. bases[op.origin] = Min(SeqsOf(W, op.origin))
    BY <1>5, <2>1 DEF BasesOf
  <2> QED BY <2>2, <2>3 DEF SeqsOf, Of
<1>7. \A origin \in Origins : Reached(A, origin) \in Nat
  BY <1>1, <1>2, FS_Subset, ReachedFacts DEF NodeOps
<1> HIDE DEF A, bases
<1>8. \A o \in W : Normalized(o, bases) \in A =>
        Normal(o.origin, o.seq, bases) \in 1 .. Reached(A, o.origin)
  <2> SUFFICES ASSUME NEW o \in W, Normalized(o, bases) \in A
               PROVE  Normal(o.origin, o.seq, bases) \in 1 .. Reached(A, o.origin)
    OBVIOUS
  <2>1. Normal(o.origin, o.seq, bases) \in Numbers(A, o.origin)
    BY DEF Numbers, Of, Normalized
  <2> QED BY <2>1, <1>2, <1>5 DEF Dense
<1>9. Late = {}
  <2> SUFFICES ASSUME Late # {} PROVE FALSE
    OBVIOUS
  <2> DEFINE Clocks == {op.lamport : op \in Late}
  <2>1. Clocks \in SUBSET Nat /\ Clocks # {}
    BY <1>5
  <2>2. PICK c \in Clocks : \A d \in Clocks : c <= d
    BY <2>1, LeastNat
  <2>3. PICK op \in Late : op.lamport = c
    BY <2>2
  <2>4. op \in W /\ Normalized(op, bases) \notin A
    BY <2>3
  <2>5. \A o \in W : o.lamport < op.lamport => Normalized(o, bases) \in A
    <3> SUFFICES ASSUME NEW o \in W, o.lamport < op.lamport, Normalized(o, bases) \notin A PROVE FALSE
      OBVIOUS
    <3>1. o.lamport \in Clocks
      OBVIOUS
    <3> HIDE DEF Late, Clocks
    <3>2. c <= o.lamport /\ op.lamport = c
      BY <3>1, <2>2, <2>3
    <3>3. o.lamport \in Nat /\ op.lamport \in Nat
      BY <2>4, <1>5
    <3> QED BY <3>2, <3>3
  <2> HIDE DEF Late, Clocks
  <2> DEFINE n == Normalized(op, bases)
  <2>6. /\ n.origin = op.origin /\ n.seq = Normal(op.origin, op.seq, bases)
        /\ n.deps = {<<ref[1], Normal(ref[1], ref[2], bases)>> : ref \in op.refs}
    BY DEF Normalized
  <2>7. n \in Given(W) \ A
    BY <2>4, <1>3
  <2> HIDE DEF n
  <2>8. n.seq = op.seq - bases[op.origin] + 1
    <3>1. bases[op.origin] # Unknown
      BY <2>4, <1>4 DEF Unknown
    <3> QED BY <2>6, <3>1 DEF Normal
  <2>9. n.seq \notin 1 .. Reached(A, op.origin)
    <3>1. ASSUME n.seq \in Numbers(A, op.origin) PROVE FALSE
      <4>1. PICK x \in A : x.origin = op.origin /\ x.seq = n.seq
        BY <3>1 DEF Numbers, Of
      <4>2. x \in Given(W) /\ x.origin = n.origin
        BY <4>1, <1>2, <2>6
      <4>3. x = n
        BY <4>1, <4>2, <2>7, <1>1 DEF NodeOps, Distinct
      <4> QED BY <4>3, <2>7
    <3>2. op.origin \in Origins
      BY <2>4, <1>5
    <3> QED BY <3>1, <3>2, <1>2 DEF Dense
  <2>10. \A dep \in n.deps : dep[2] <= Reached(A, dep[1])
    <3> SUFFICES ASSUME NEW ref \in op.refs
                 PROVE  Normal(ref[1], ref[2], bases) <= Reached(A, ref[1])
      BY <2>6
    <3>1. PICK o \in W : o.origin = ref[1] /\ o.seq = ref[2] /\ o.lamport < op.lamport
      BY <2>4 DEF Founded
    <3>2. Normal(o.origin, o.seq, bases) \in 1 .. Reached(A, o.origin)
      BY <1>8, <2>5, <3>1
    <3> QED BY <3>1, <3>2, <1>5, <1>7
  <2>11. n.seq = Reached(A, n.origin) + 1
    <3>1. Reached(A, op.origin) \in Nat /\ op.seq \in Nat /\ bases[op.origin] \in Nat /\ bases[op.origin] <= op.seq
      BY <2>4, <1>4, <1>5, <1>7
    <3>2. CASE op.seq = bases[op.origin]
      BY <3>1, <3>2, <2>6, <2>8, <2>9
    <3>3. CASE op.seq # bases[op.origin]
      <4>1. PICK below \in W : below.origin = op.origin /\ below.seq = bases[op.origin]
        BY <2>4, <1>6
      <4>2. below.seq < op.seq
        BY <4>1, <3>1, <3>3
      <4>3. PICK o \in W : o.origin = op.origin /\ o.seq + 1 = op.seq /\ o.lamport < op.lamport
        BY <2>4, <4>1, <4>2 DEF Founded
      <4>4. Normal(o.origin, o.seq, bases) \in 1 .. Reached(A, o.origin)
        BY <1>8, <2>5, <4>3
      <4>5. bases[op.origin] # Unknown
        BY <3>1 DEF Unknown
      <4>6. Normal(o.origin, o.seq, bases) = o.seq - bases[op.origin] + 1
        BY <4>3, <4>5 DEF Normal
      <4>7. o.seq \in Nat
        BY <1>5
      <4> QED BY <3>1, <4>3, <4>4, <4>6, <4>7, <2>6, <2>8, <2>9
    <3> QED BY <3>2, <3>3
  <2>12. n \in Ready(A, Given(W))
    BY <2>7, <2>10, <2>11 DEF Ready
  <2> QED BY <2>12, <1>2
<1> QED BY <1>3, <1>9 DEF A
-----------------------------------------------------------------------------
(* What a replica writes, as a function of what it holds. *)

FirstOf(held, r) == IF Of(held, r) = {} THEN FirstSeq[r] ELSE Latest(held, r) + 1
Mint(held, r, edit, k) ==
  [origin |-> r, seq |-> FirstOf(held, r) + k - 1, lamport |-> InsertionOrder(held) - 1 + k, edit |-> edit,
   refs |-> IF k = 1 THEN Heads(held)
            ELSE {ref \in Heads(held) : ref[1] # r} \cup {<<r, FirstOf(held, r) + k - 2>>}]
MintedOf(held, r, edits) == {Mint(held, r, edits[k], k) : k \in DOMAIN edits}

LEMMA LatestFacts ==
  ASSUME NEW ops, OpSet(ops), NEW origin, Of(ops, origin) # {}
  PROVE  /\ Latest(ops, origin) \in Nat
         /\ \E o \in ops : o.origin = origin /\ o.seq = Latest(ops, origin)
         /\ \A o \in ops : o.origin = origin => o.seq <= Latest(ops, origin)
<1> DEFINE S == SeqsOf(ops, origin)
<1> DEFINE f == [op \in Of(ops, origin) |-> op.seq]
<1>1. Latest(ops, origin) = Max(S)
  BY DEF Latest, SeqsOf, Of
<1>2. S \in SUBSET Nat /\ S # {}
  BY DEF SeqsOf, Of, OpSet, IsOp
<1>3. IsFiniteSet(S)
  <2>1. S = {f[op] : op \in Of(ops, origin)}
    BY DEF SeqsOf
  <2>2. IsFiniteSet(Of(ops, origin))
    BY FS_Subset DEF OpSet, Of
  <2> HIDE DEF f, S
  <2> QED BY <2>1, <2>2, FiniteImage
<1> HIDE DEF S
<1>4. Max(S) \in S /\ \A y \in S : Max(S) >= y
  BY <1>2, <1>3, MaxNat
<1>5. PICK m : m = Max(S)
  OBVIOUS
<1>6. m \in Nat /\ \A y \in S : y <= m
  BY <1>2, <1>4, <1>5
<1> QED BY <1>1, <1>4, <1>5, <1>6 DEF S, SeqsOf, Of

LEMMA OrderFacts ==
  ASSUME NEW ops, OpSet(ops)
  PROVE  /\ InsertionOrder(ops) \in Nat \ {0}
         /\ \A o \in ops : o.lamport < InsertionOrder(ops)
<1> DEFINE f == [op \in ops |-> op.lamport]
<1> DEFINE S == {op.lamport : op \in ops} \cup {0}
<1>1. S \in SUBSET Nat /\ S # {}
  BY DEF OpSet, IsOp
<1>2. IsFiniteSet(S)
  <2>1. S = {f[op] : op \in ops} \cup {0}
    OBVIOUS
  <2> HIDE DEF f
  <2>2. IsFiniteSet({f[op] : op \in ops})
    BY FiniteImage DEF OpSet
  <2> QED BY <2>1, <2>2, FS_AddElement
<1>3. \A o \in ops : o.lamport \in S
  OBVIOUS
<1>4. InsertionOrder(ops) = Max(S) + 1
  BY DEF InsertionOrder
<1> HIDE DEF S
<1>5. Max(S) \in S /\ \A y \in S : Max(S) >= y
  BY <1>1, <1>2, MaxNat
<1>6. PICK m : m = Max(S)
  OBVIOUS
<1>7. m \in Nat /\ \A y \in S : y \in Nat /\ y <= m
  BY <1>1, <1>5, <1>6
<1>8. InsertionOrder(ops) = m + 1
  BY <1>4, <1>6
<1> QED BY <1>3, <1>7, <1>8

LEMMA HeadsFacts ==
  ASSUME NEW ops, OpSet(ops), NEW ref \in Heads(ops)
  PROVE  /\ ref \in Origins \X Nat
         /\ \E o \in ops : o.origin = ref[1] /\ o.seq = ref[2]
<1>1. PICK op \in ops : ref = <<op.origin, Latest(ops, op.origin)>>
  BY DEF Heads
<1>2. Of(ops, op.origin) # {} /\ op.origin \in Origins
  BY DEF Of, OpSet, IsOp
<1>3. /\ Latest(ops, op.origin) \in Nat
      /\ \E o \in ops : o.origin = op.origin /\ o.seq = Latest(ops, op.origin)
  BY <1>2, LatestFacts
<1> QED BY <1>1, <1>2, <1>3

\* The numbers a replica counts its atoms with.
LEMMA CounterFacts ==
  ASSUME NEW elements, ElementList(elements), NEW actor
  PROVE  /\ NextCounter(elements, actor) \in Nat \ {0}
         /\ \A n \in 1 .. Len(elements) :
              elements[n].id[1] = actor => elements[n].id[2] < NextCounter(elements, actor)
<1> DEFINE E == {e \in ToSet(elements) : e.id[1] = actor}
<1> DEFINE f == [e \in E |-> e.id[2]]
<1> DEFINE S == {0} \cup {e.id[2] : e \in E}
<1>1. elements \in Seq(Element)
  BY DEF ElementList
<1>2. ToSet(elements) = {elements[n] : n \in DOMAIN elements}
  BY DEF ToSet
<1>3. IsFiniteSet(ToSet(elements)) /\ ToSet(elements) \subseteq Element
  <2>1. IsFiniteSet(DOMAIN elements)
    BY <1>1, FS_Interval
  <2> QED BY <1>1, <1>2, <2>1, FiniteImage
<1>4. IsFiniteSet(E)
  BY <1>3, FS_Subset
<1>5. \A e \in E : e.id[2] \in Nat
  BY <1>3 DEF Element
<1>6. S \in SUBSET Nat /\ S # {}
  BY <1>5
<1>7. IsFiniteSet(S)
  <2>1. S = {f[e] : e \in E} \cup {0}
    OBVIOUS
  <2> HIDE DEF f, E
  <2>2. IsFiniteSet({f[e] : e \in E})
    BY <1>4, FiniteImage
  <2> HIDE DEF S
  <2> QED BY <2>1, <2>2, FS_AddElement
<1>8. NextCounter(elements, actor) = 1 + Max(S)
  BY DEF NextCounter
<1>9. ASSUME NEW n \in 1 .. Len(elements), elements[n].id[1] = actor PROVE elements[n].id[2] \in S
  <2>1. elements[n] \in ToSet(elements)
    BY <1>1, <1>2
  <2> QED BY <1>9, <2>1
<1> HIDE DEF S, E
<1>10. Max(S) \in Nat /\ \A x \in S : x \in Nat /\ x <= Max(S)
  BY <1>6, <1>7, MaxNat
<1> QED BY <1>8, <1>9, <1>10
\* Operations of r on top of those that are held.
Atop(r, held, new) ==
  /\ OpSet(new)
  /\ \A op \in new : op.origin = r
  /\ \A op \in new, o \in held : o.lamport < op.lamport /\ (o.origin = r => o.seq < op.seq)
  /\ \A op \in new : \A ref \in op.refs :
       \E o \in held \cup new : o.origin = ref[1] /\ o.seq = ref[2] /\ o.lamport < op.lamport
  /\ \A op \in new, below \in held \cup new : below.origin = r /\ below.seq < op.seq =>
       \E o \in held \cup new : o.origin = r /\ o.seq + 1 = op.seq /\ o.lamport < op.lamport

\* What is written is numbered on, on top of all that is held.
LEMMA MintFacts ==
  ASSUME NEW r \in Replicas, NEW held, OpSet(held),
         NEW edits \in Seq(Deletion \cup Insertion)
  PROVE  Atop(r, held, MintedOf(held, r, edits))
<1> DEFINE new == MintedOf(held, r, edits)
<1> DEFINE M(k) == Mint(held, r, edits[k], k)
<1> DEFINE first == FirstOf(held, r)
<1> DEFINE clock == InsertionOrder(held)
<1> DEFINE D == DOMAIN edits
<1>1. r \in Origins /\ FirstSeq[r] \in {0, 1}
  BY ReplicasAssumption
<1>2. clock \in Nat \ {0} /\ \A o \in held : o.lamport < clock
  BY OrderFacts
<1>3. /\ first \in Nat
      /\ \A o \in held : o.origin = r => o.seq < first
      /\ \A o \in held : o.origin = r => \E l \in held : l.origin = r /\ l.seq + 1 = first
  <2>1. CASE Of(held, r) = {}
    <3>1. first = FirstSeq[r] /\ \A o \in held : o.origin # r
      BY <2>1 DEF FirstOf, Of
    <3> QED BY <3>1, <1>1
  <2>2. CASE Of(held, r) # {}
    <3>1. first = Latest(held, r) + 1
      BY <2>2 DEF FirstOf
    <3>2. /\ Latest(held, r) \in Nat
          /\ \E o \in held : o.origin = r /\ o.seq = Latest(held, r)
          /\ \A o \in held : o.origin = r => o.seq <= Latest(held, r)
      BY <2>2, LatestFacts
    <3>3. \A o \in held : o.seq \in Nat
      BY DEF OpSet, IsOp
    <3> HIDE DEF first
    <3> QED BY <3>1, <3>2, <3>3
  <2> QED BY <2>1, <2>2
<1>4. D = 1 .. Len(edits) /\ Len(edits) \in Nat /\ \A k \in D : edits[k] \in Deletion \cup Insertion
  BY DEF D
<1>5. \A k : /\ M(k).origin = r /\ M(k).seq = first + k - 1 /\ M(k).lamport = clock - 1 + k /\ M(k).edit = edits[k]
             /\ k = 1 => M(k).refs = Heads(held)
             /\ k # 1 => \A ref \in M(k).refs : ref \in Heads(held) \/ ref = <<r, first + k - 2>>
  BY DEF Mint
<1>6. new = {M(k) : k \in D}
  BY DEF MintedOf
<1>7. \A o \in held : o.seq \in Nat /\ o.lamport \in Nat
  BY DEF OpSet, IsOp
<1>8. \A ref \in Heads(held) : /\ ref \in Origins \X Nat
                               /\ \E o \in held : o.origin = ref[1] /\ o.seq = ref[2]
  BY HeadsFacts
<1> HIDE DEF new, M, first, clock, D
<1>9. \A k \in D : k \in Nat \ {0} /\ M(k).seq \in Nat /\ M(k).lamport \in Nat
  BY <1>2, <1>3, <1>4, <1>5
<1>10. \A k \in D : IsOp(M(k))
  <2> SUFFICES ASSUME NEW k \in D PROVE IsOp(M(k))
    OBVIOUS
  <2>1. IsEdit(M(k).edit)
    BY <1>4, <1>5, EditsAre
  <2>2. M(k).refs \subseteq Origins \X Nat
    <3>1. CASE k = 1
      BY <3>1, <1>5, <1>8
    <3>2. CASE k # 1
      <4>1. first + k - 2 \in Nat
        BY <1>3, <1>9, <3>2
      <4> QED BY <3>2, <4>1, <1>1, <1>5, <1>8
    <3> QED BY <3>1, <3>2
  <2> QED BY <2>1, <2>2, <1>1, <1>5, <1>9 DEF IsOp
<1>11. OpSet(new)
  <2>1. IsFiniteSet(new)
    <3>1. IsFiniteSet(D)
      BY <1>4, FS_Interval
    <3> DEFINE g == [k \in D |-> M(k)]
    <3>2. new = {g[k] : k \in D}
      BY <1>6
    <3> HIDE DEF g
    <3> QED BY <3>1, <3>2, FiniteImage
  <2>2. Distinct(new)
    <3>1. \A j, k \in D : M(j).seq = M(k).seq => j = k
      BY <1>3, <1>5, <1>9
    <3> QED BY <3>1, <1>6 DEF Distinct
  <2> QED BY <2>1, <2>2, <1>6, <1>10 DEF OpSet
<1>12. \A op \in new : op.origin = r
  BY <1>5, <1>6
<1>13. ASSUME NEW k \in D, NEW o \in held
       PROVE  o.lamport < M(k).lamport /\ (o.origin = r => o.seq < M(k).seq)
  BY <1>2, <1>3, <1>5, <1>7, <1>9
<1>14. \A k \in D : k # 1 => k - 1 \in D /\ M(k - 1).seq + 1 = M(k).seq /\ M(k - 1).lamport < M(k).lamport
  <2> SUFFICES ASSUME NEW k \in D, k # 1
               PROVE  k - 1 \in D /\ M(k - 1).seq + 1 = M(k).seq /\ M(k - 1).lamport < M(k).lamport
    OBVIOUS
  <2>1. k - 1 \in D
    BY <1>4
  <2>2. /\ M(k).seq = first + k - 1 /\ M(k).lamport = clock - 1 + k
        /\ M(k - 1).seq = first + (k - 1) - 1 /\ M(k - 1).lamport = clock - 1 + (k - 1)
    BY <1>5
  <2> QED BY <2>1, <2>2, <1>2, <1>3, <1>9
<1>15. ASSUME NEW k \in D, NEW ref \in M(k).refs
       PROVE  \E o \in held \cup new : o.origin = ref[1] /\ o.seq = ref[2] /\ o.lamport < M(k).lamport
  <2>1. CASE ref \in Heads(held)
    BY <2>1, <1>8, <1>13
  <2>2. CASE ref \notin Heads(held)
    <3>1. k # 1 /\ ref = <<r, first + k - 2>>
      BY <2>2, <1>5
    <3>2. k - 1 \in D /\ M(k - 1).lamport < M(k).lamport
      BY <3>1, <1>14
    <3>3. M(k - 1).seq = first + k - 2 /\ M(k - 1).origin = r
      BY <1>3, <1>5, <1>9
    <3> QED BY <3>1, <3>2, <3>3, <1>6
  <2> QED BY <2>1, <2>2
<1>16. ASSUME NEW k \in D, NEW below \in held \cup new, below.origin = r, below.seq < M(k).seq
       PROVE  \E o \in held \cup new : o.origin = r /\ o.seq + 1 = M(k).seq /\ o.lamport < M(k).lamport
  <2>1. CASE k # 1
    BY <2>1, <1>5, <1>6, <1>14
  <2>2. CASE k = 1
    <3>1. M(k).seq = first
      BY <2>2, <1>3, <1>5
    <3>2. below \in held
      <4>1. \A j \in D : ~ (M(j).seq < first)
        BY <1>3, <1>5, <1>9
      <4> QED BY <3>1, <4>1, <1>6, <1>16
    <3>3. PICK l \in held : l.origin = r /\ l.seq + 1 = first
      BY <3>2, <1>3, <1>16
    <3> QED BY <3>1, <3>3, <1>13
  <2> QED BY <2>1, <2>2
<1>17. /\ \A op \in new, o \in held : o.lamport < op.lamport /\ (o.origin = r => o.seq < op.seq)
       /\ \A op \in new : \A ref \in op.refs :
            \E o \in held \cup new : o.origin = ref[1] /\ o.seq = ref[2] /\ o.lamport < op.lamport
       /\ \A op \in new, below \in held \cup new : below.origin = r /\ below.seq < op.seq =>
            \E o \in held \cup new : o.origin = r /\ o.seq + 1 = op.seq /\ o.lamport < op.lamport
  BY <1>6, <1>13, <1>15, <1>16
<1>18. Atop(r, held, new)
  BY <1>11, <1>12, <1>17 DEF Atop
<1> QED BY <1>18 DEF new
-----------------------------------------------------------------------------
(* The history: what the replicas hold, and what there is to hold. *)

WorldOf(H) == Legacy \cup UNION {Of(H[r], r) : r \in Replicas}

History(H) ==
  /\ DOMAIN H = Replicas
  /\ \A r \in Replicas : H[r] \subseteq WorldOf(H)
  /\ OpSet(WorldOf(H)) /\ Founded(WorldOf(H))

LEMMA HistoryHolds ==
  ASSUME NEW H, History(H), NEW r \in Replicas
  PROVE  /\ OpSet(H[r])
         /\ \A op \in WorldOf(H) : op.origin = r => op \in H[r]
<1>1. OpSet(H[r])
  BY OpSetPart DEF History
<1>2. ASSUME NEW op \in WorldOf(H), op.origin = r PROVE op \in H[r]
  <2>1. op \notin Legacy
    BY <1>2, LegacyAssumption
  <2>2. PICK q \in Replicas : op \in Of(H[q], q)
    BY <2>1 DEF WorldOf
  <2> QED BY <1>2, <2>2 DEF Of
<1> QED BY <1>1, <1>2

LEMMA HistoryBegins ==
  LET H == [r \in Replicas |-> IF r \in Holders THEN Legacy ELSE {}] IN History(H)
<1> DEFINE H == [r \in Replicas |-> IF r \in Holders THEN Legacy ELSE {}]
<1>1. \A r \in Replicas : Of(H[r], r) = {}
  BY LegacyAssumption DEF Of
<1>2. WorldOf(H) = Legacy
  <2> HIDE DEF H
  <2> QED BY <1>1 DEF WorldOf
<1>3. OpSet(Legacy)
  BY LegacyAssumption DEF OpSet
<1> QED BY <1>2, <1>3, LegacyIsFounded DEF History

\* What a replica receives or loses adds nothing to the world.
LEMMA HistoryStays ==
  ASSUME NEW H, History(H), NEW r \in Replicas, NEW K \in SUBSET WorldOf(H),
         Of(K, r) = Of(H[r], r)
  PROVE  /\ History([H EXCEPT ![r] = K])
         /\ WorldOf([H EXCEPT ![r] = K]) = WorldOf(H)
<1> DEFINE G == [H EXCEPT ![r] = K]
<1>1. /\ DOMAIN G = Replicas /\ G[r] = K
      /\ \A q \in Replicas : q # r => G[q] = H[q]
  BY DEF History
<1> HIDE DEF G
<1>2. \A q \in Replicas : Of(G[q], q) = Of(H[q], q)
  BY <1>1
<1>3. WorldOf(G) = WorldOf(H)
  BY <1>2 DEF WorldOf
<1>4. \A q \in Replicas : G[q] \subseteq WorldOf(H)
  BY <1>1 DEF History
<1>5. History(G)
  BY <1>1, <1>3, <1>4 DEF History
<1> QED BY <1>3, <1>5 DEF G

\* What a replica writes keeps the history founded.
LEMMA HistoryGrows ==
  ASSUME NEW H, History(H), NEW r \in Replicas, NEW edits \in Seq(Deletion \cup Insertion)
  PROVE  /\ History([H EXCEPT ![r] = H[r] \cup MintedOf(H[r], r, edits)])
         /\ OpSet(H[r] \cup MintedOf(H[r], r, edits))
         /\ WorldOf([H EXCEPT ![r] = H[r] \cup MintedOf(H[r], r, edits)]) = WorldOf(H) \cup MintedOf(H[r], r, edits)
<1> DEFINE new == MintedOf(H[r], r, edits)
<1> DEFINE held == H[r]
<1> DEFINE W == WorldOf(H)
<1> DEFINE G == [H EXCEPT ![r] = held \cup new]
<1>1. /\ OpSet(new)
      /\ \A op \in new : op.origin = r
      /\ \A op \in new, o \in held : o.lamport < op.lamport /\ (o.origin = r => o.seq < op.seq)
      /\ \A op \in new : \A ref \in op.refs :
           \E o \in held \cup new : o.origin = ref[1] /\ o.seq = ref[2] /\ o.lamport < op.lamport
      /\ \A op \in new, below \in held \cup new : below.origin = r /\ below.seq < op.seq =>
           \E o \in held \cup new : o.origin = r /\ o.seq + 1 = op.seq /\ o.lamport < op.lamport
  <2>1. OpSet(H[r])
    BY HistoryHolds
  <2>2. Atop(r, held, new)
    BY <2>1, MintFacts
  <2> HIDE DEF new, held
  <2> QED BY <2>2 DEF Atop
<1>2. \A op \in W : op.origin = r => op \in held
  BY HistoryHolds
<1>3. OpSet(W) /\ Founded(W) /\ held \subseteq W
  BY DEF History
<1>4. /\ DOMAIN G = Replicas /\ G[r] = held \cup new
      /\ \A q \in Replicas : q # r => G[q] = H[q]
  BY DEF History
<1>5. WorldOf(G) = W \cup new
  <2> HIDE DEF G, new, held
  <2>1. Of(held \cup new, r) = Of(held, r) \cup new
    BY <1>1 DEF Of
  <2>2. \A q \in Replicas : q # r => Of(G[q], q) = Of(H[q], q)
    BY <1>4
  <2>3. Of(G[r], r) = Of(H[r], r) \cup new
    BY <1>4, <2>1 DEF held
  <2>4. UNION {Of(G[q], q) : q \in Replicas} = (UNION {Of(H[q], q) : q \in Replicas}) \cup new
    BY <2>2, <2>3
  <2> QED BY <2>4 DEF WorldOf, W
<1> HIDE DEF new, held, W, G
<1>6. \A op \in W \cup new : op.seq \in Nat
  BY <1>1, <1>3 DEF OpSet, IsOp
<1>7. OpSet(W \cup new)
  <2>1. IsFiniteSet(W \cup new)
    BY <1>1, <1>3, FS_Union DEF OpSet
  <2>2. ASSUME NEW a \in W, NEW b \in new, a.origin = b.origin PROVE a.seq < b.seq
    BY <2>2, <1>1, <1>2
  <2>3. Distinct(W \cup new)
    <3> SUFFICES ASSUME NEW a \in W \cup new, NEW b \in W \cup new, a.origin = b.origin /\ a.seq = b.seq PROVE a = b
      BY DEF Distinct
    <3>1. CASE a \in W /\ b \in W
      BY <3>1, <1>3 DEF OpSet, Distinct
    <3>2. CASE a \in new /\ b \in new
      BY <3>2, <1>1 DEF OpSet, Distinct
    <3>3. CASE a \in W /\ b \in new
      BY <3>3, <2>2, <1>6
    <3>4. CASE a \in new /\ b \in W
      BY <3>4, <2>2, <1>6
    <3> QED BY <3>1, <3>2, <3>3, <3>4
  <2> QED BY <2>1, <2>3, <1>1, <1>3 DEF OpSet
<1>8. ASSUME NEW op \in W, NEW ref \in op.refs
      PROVE  \E o \in W \cup new : o.origin = ref[1] /\ o.seq = ref[2] /\ o.lamport < op.lamport
  BY <1>3 DEF Founded
<1>9. ASSUME NEW op \in W, NEW below \in W \cup new, below.origin = op.origin, below.seq < op.seq
      PROVE  \E o \in W \cup new : o.origin = op.origin /\ o.seq + 1 = op.seq /\ o.lamport < op.lamport
  <2>1. below \in W
    <3> SUFFICES ASSUME below \in new PROVE FALSE
      OBVIOUS
    <3>1. op \in held
      BY <1>1, <1>2, <1>9
    <3>2. op.seq < below.seq
      BY <3>1, <1>1, <1>9
    <3> QED BY <3>2, <1>6, <1>9
  <2> QED BY <2>1, <1>3, <1>9 DEF Founded
<1>10. ASSUME NEW op \in new, NEW ref \in op.refs
       PROVE  \E o \in W \cup new : o.origin = ref[1] /\ o.seq = ref[2] /\ o.lamport < op.lamport
  BY <1>1, <1>3
<1>11. ASSUME NEW op \in new, NEW below \in W \cup new, below.origin = op.origin, below.seq < op.seq
       PROVE  \E o \in W \cup new : o.origin = op.origin /\ o.seq + 1 = op.seq /\ o.lamport < op.lamport
  <2>1. op.origin = r /\ below \in held \cup new
    BY <1>1, <1>2, <1>11
  <2>2. \E o \in held \cup new : o.origin = r /\ o.seq + 1 = op.seq /\ o.lamport < op.lamport
    BY <2>1, <1>1, <1>11
  <2> QED BY <2>1, <2>2, <1>3
<1>12. Founded(W \cup new)
  BY <1>8, <1>9, <1>10, <1>11 DEF Founded
<1>13. \A q \in Replicas : G[q] \subseteq W \cup new
  BY <1>3, <1>4 DEF History, W
<1>14. History(G)
  BY <1>4, <1>5, <1>7, <1>12, <1>13 DEF History
<1>15. OpSet(held \cup new)
  <2>1. held \cup new \subseteq W \cup new
    BY <1>3
  <2> QED BY <2>1, <1>7, OpSetPart
<1> QED BY <1>5, <1>14, <1>15 DEF G, W, new, held
-----------------------------------------------------------------------------
(* The invariant: each replica is what a replay of a part of the history gives. *)

TextInv ==
  /\ restarts \in [Replicas -> Nat] /\ \A r \in Replicas : restarts[r] <= MaxRestarts[r]
  /\ asked.text \in Texts \cup {<<>>}
  /\ DOMAIN saved = Replicas
  /\ \A r \in Replicas : saved[r] = NoCheckpoint \/ \E ops : saved[r] = Assembled(ops)
  /\ \E H : History(H) /\ replica = [r \in Replicas |-> Assembled(H[r])]

LEMMA AssembledTyped ==
  ASSUME NEW ops, OpSet(ops)
  PROVE  /\ Assembled(ops).bases \in [Origins -> Nat \cup {Unknown}]
         /\ \A op \in Assembled(ops).applied \cup Assembled(ops).pending : op.seq \in Nat \ {0}
         /\ DOMAIN Assembled(ops).atoms \subseteq AtomId
         /\ ElementList(Assembled(ops).elements)
<1>1. /\ Assembled(ops).bases = BasesOf(ops) /\ Assembled(ops).applied = Applied(ops)
      /\ Assembled(ops).pending = Given(ops) \ Applied(ops) /\ Assembled(ops).atoms = Inserted(<<>>, Applied(ops))
      /\ Assembled(ops).elements = Elements(Assembled(ops).atoms, Assembled(ops).deleted)
  BY DEF Assembled
<1>2. NodeOps(Given(ops))
  BY GivenFacts
<1>3. Applied(ops) \subseteq Given(ops)
  <2>1. Given(ops) \in SUBSET Given(ops)
    OBVIOUS
  <2> QED BY <1>2, <2>1, SettledFromNone DEF Applied
<1>4. NodeOps(Applied(ops))
  BY <1>2, <1>3, NodeOpsPart
<1>5. AtomMap(Assembled(ops).atoms)
  BY <1>1, <1>4, AtomsTyped DEF AtomMap
<1>6. ElementList(Assembled(ops).elements)
  BY <1>1, <1>5, ElementsTyped DEF ElementList
<1>7. \A op \in Given(ops) : op.seq \in Nat \ {0}
  BY <1>2 DEF NodeOps
<1>8. \A op \in Assembled(ops).applied \cup Assembled(ops).pending : op \in Given(ops)
  BY <1>1, <1>3
<1> QED BY <1>1, <1>5, <1>6, <1>7, <1>8, BasesFacts DEF AtomMap

\* The edits a replacement sends.
LEMMA ReplacementTyped ==
  ASSUME NEW r \in Replicas, NEW ops, OpSet(ops), NEW text \in Texts, NEW sent \in Nat
  PROVE  LET shown == Assembled(ops).elements
             edits == Plan(shown, text, <<InsertionOrder(ops), r, NextCounter(shown, r)>>)
         IN  sent <= Len(edits) => SubSeq(edits, 1, sent) \in Seq(Deletion \cup Insertion)
<1> DEFINE shown == Assembled(ops).elements
<1> DEFINE first == <<InsertionOrder(ops), r, NextCounter(shown, r)>>
<1> DEFINE edits == Plan(shown, text, first)
<1>1. ElementList(shown)
  BY AssembledTyped
<1>2. text \in Seq(Nat) /\ r \in Origins
  BY ReplicasAssumption
<1> HIDE DEF shown
<1>3. first \in AtomId
  BY <1>1, <1>2, OrderFacts, CounterFacts DEF AtomId
<1> HIDE DEF first
<1>4. edits \in Seq(Deletion \cup Insertion)
  BY <1>1, <1>2, <1>3, PlanTyped
<1> HIDE DEF edits
<1>5. sent <= Len(edits) => SubSeq(edits, 1, sent) \in Seq(Deletion \cup Insertion)
  <2>1. Len(edits) \in Nat
    BY <1>4
  <2>2. \A i \in 1 .. sent : sent <= Len(edits) => i \in 1 .. Len(edits)
    BY <2>1
  <2>3. \A i \in 1 .. Len(edits) : edits[i] \in Deletion \cup Insertion
    BY <1>4
  <2> QED BY <1>4, <2>1, <2>2, <2>3
<1> QED BY <1>5 DEF edits, first, shown

LEMMA WorldIs ==
  ASSUME NEW H, replica = [r \in Replicas |-> Assembled(H[r])]
  PROVE  /\ \A r \in Replicas : replica[r].ops = H[r] /\ Own(r) = Of(H[r], r)
         /\ World = WorldOf(H)
<1>1. \A r \in Replicas : replica[r].ops = H[r]
  BY DEF Assembled
<1>2. \A r \in Replicas : Own(r) = Of(H[r], r)
  BY <1>1 DEF Own, Of
<1>3. World = WorldOf(H)
  BY <1>2 DEF World, WorldOf
<1> QED BY <1>1, <1>2, <1>3
LEMMA InvBegins == Init => TextInv
<1> SUFFICES ASSUME Init PROVE TextInv
  OBVIOUS
<1> DEFINE H == [r \in Replicas |-> IF r \in Holders THEN Legacy ELSE {}]
<1>1. History(H)
  BY HistoryBegins
<1>2. \A r \in Replicas : Restored(NoCheckpoint, H[r]) = Assembled(H[r])
  <2> SUFFICES ASSUME NEW r \in Replicas PROVE Restored(NoCheckpoint, H[r]) = Assembled(H[r])
    OBVIOUS
  <2> HIDE DEF H
  <2>1. OpSet(H[r])
    BY <1>1, HistoryHolds
  <2> QED BY <2>1, RestoredReplays
<1>3. replica = [r \in Replicas |-> Assembled(H[r])]
  <2>1. replica = [r \in Replicas |-> Restored(NoCheckpoint, H[r])]
    BY DEF Init
  <2> HIDE DEF H
  <2> QED BY <2>1, <1>2
<1>4. restarts \in [Replicas -> Nat] /\ \A r \in Replicas : restarts[r] <= MaxRestarts[r]
  BY ReplicasAssumption DEF Init
<1>5. asked.text = <<>> /\ DOMAIN saved = Replicas /\ \A r \in Replicas : saved[r] = NoCheckpoint
  BY DEF Init, NoText
<1> HIDE DEF H
<1> QED BY <1>1, <1>3, <1>4, <1>5 DEF TextInv

\* What all the steps have in common: the invariant with one replica changed.
LEMMA StepKeeps ==
  ASSUME TextInv, NEW H, NEW r \in Replicas, NEW K, NEW kept,
         History(H), replica = [q \in Replicas |-> Assembled(H[q])],
         History([H EXCEPT ![r] = K]),
         replica' = [replica EXCEPT ![r] = Assembled(K)],
         saved' = saved \/ saved' = [saved EXCEPT ![r] = kept],
         kept = NoCheckpoint \/ \E ops : kept = Assembled(ops),
         restarts' \in [Replicas -> Nat] /\ \A q \in Replicas : restarts'[q] <= MaxRestarts[q],
         asked'.text \in Texts \cup {<<>>}
  PROVE  TextInv'
<1>1. DOMAIN saved = Replicas /\ \A q \in Replicas : saved[q] = NoCheckpoint \/ \E ops : saved[q] = Assembled(ops)
  BY DEF TextInv
<1>2. DOMAIN saved' = Replicas
  BY <1>1
<1>3. ASSUME NEW q \in Replicas PROVE saved'[q] = NoCheckpoint \/ \E ops : saved'[q] = Assembled(ops)
  <2>1. saved'[q] = saved[q] \/ saved'[q] = kept
    BY <1>1
  <2> QED BY <2>1, <1>1
<1> DEFINE G == [H EXCEPT ![r] = K]
<1>4. replica' = [q \in Replicas |-> Assembled(G[q])]
  <2>1. G[r] = K /\ \A q \in Replicas : q # r => G[q] = H[q]
    BY DEF History
  <2> HIDE DEF G
  <2> QED BY <2>1
<1>5. History(G)
  OBVIOUS
<1> HIDE DEF G
<1>6. \E X : History(X) /\ replica' = [q \in Replicas |-> Assembled(X[q])]
  BY <1>4, <1>5
<1> QED BY <1>2, <1>3, <1>6 DEF TextInv

LEMMA FoldKeeps ==
  ASSUME TextInv, NEW H, NEW r \in Replicas, NEW fresh,
         History(H), replica = [q \in Replicas |-> Assembled(H[q])],
         History([H EXCEPT ![r] = H[r] \cup fresh]), OpSet(H[r] \cup fresh),
         Fold(r, fresh), restarts' = restarts, asked'.text \in Texts \cup {<<>>}
  PROVE  TextInv'
<1> DEFINE K == H[r] \cup fresh
<1>1. Apply(replica[r], fresh) = Assembled(K)
  <2>1. replica[r] = Assembled(H[r])
    OBVIOUS
  <2> QED BY <2>1, ApplyReplays
<1>2. OpSet(K) /\ History([H EXCEPT ![r] = K])
  OBVIOUS
<1> HIDE DEF K
<1>3. replica' = [replica EXCEPT ![r] = Assembled(K)]
  BY <1>1 DEF Fold
<1>4. saved' = saved \/ saved' = [saved EXCEPT ![r] = Assembled(K)]
  BY <1>1 DEF Fold
<1>5. restarts' \in [Replicas -> Nat] /\ \A q \in Replicas : restarts'[q] <= MaxRestarts[q]
  BY DEF TextInv
<1> QED BY <1>2, <1>3, <1>4, <1>5, StepKeeps

LEMMA IngestKeeps ==
  ASSUME TextInv, NEW r \in Replicas, NEW batch \in SUBSET (World \ replica[r].ops), Ingest(r, batch)
  PROVE  TextInv'
<1>1. PICK H : History(H) /\ replica = [q \in Replicas |-> Assembled(H[q])]
  BY DEF TextInv
<1>2. replica[r].ops = H[r] /\ World = WorldOf(H)
  BY <1>1, WorldIs
<1>3. H[r] \cup batch \subseteq WorldOf(H)
  BY <1>1, <1>2 DEF History
<1>4. Of(H[r] \cup batch, r) = Of(H[r], r)
  <2>1. \A op \in batch : op.origin # r
    BY <1>1, <1>2, HistoryHolds
  <2> QED BY <2>1 DEF Of
<1>5. History([H EXCEPT ![r] = H[r] \cup batch])
  BY <1>1, <1>3, <1>4, HistoryStays
<1>6. OpSet(H[r] \cup batch)
  BY <1>1, <1>3, OpSetPart DEF History
<1>7. Fold(r, batch) /\ restarts' = restarts /\ asked'.text = <<>>
  BY DEF Ingest, NoText
<1> QED BY <1>1, <1>5, <1>6, <1>7, FoldKeeps

LEMMA ReplaceKeeps ==
  ASSUME TextInv, NEW r \in Replicas, NEW text \in Texts, NEW sent \in 1 .. MaxOps[r], Replace(r, text, sent)
  PROVE  TextInv'
<1>1. PICK H : History(H) /\ replica = [q \in Replicas |-> Assembled(H[q])]
  BY DEF TextInv
<1>2. replica[r].ops = H[r] /\ Own(r) = Of(H[r], r) /\ replica[r] = Assembled(H[r])
  BY <1>1, WorldIs
<1>3. OpSet(H[r])
  BY <1>1, HistoryHolds
<1> DEFINE shown == Assembled(H[r]).elements
<1> DEFINE edits == Plan(shown, text, <<InsertionOrder(H[r]), r, NextCounter(shown, r)>>)
<1> DEFINE some == SubSeq(edits, 1, sent)
<1>4. Shown(r) = shown
  BY <1>2 DEF Shown
<1>5. /\ sent \in 1 .. Len(edits) /\ Fold(r, Minted(r, some)) /\ restarts' = restarts
      /\ asked' = IF sent = Len(edits) THEN [r |-> r, text |-> text] ELSE NoText
  <2> HIDE DEF shown
  <2> QED BY <1>2, <1>4 DEF Replace
<1>6. some \in Seq(Deletion \cup Insertion)
  <2>1. sent \in Nat /\ sent <= Len(edits)
    <3> HIDE DEF edits
    <3>1. MaxOps[r] \in Nat
      BY ReplicasAssumption
    <3> QED BY <3>1, <1>5
  <2> QED BY <1>3, <2>1, ReplacementTyped
<1> HIDE DEF some, edits, shown
<1>7. Minted(r, some) = MintedOf(H[r], r, some)
  BY <1>2 DEF Minted, MintedOf, Mint, FirstOf
<1>8. asked'.text \in Texts \cup {<<>>}
  BY <1>5 DEF NoText
<1>9. Fold(r, MintedOf(H[r], r, some))
  BY <1>5, <1>7
<1>10. /\ History([H EXCEPT ![r] = H[r] \cup MintedOf(H[r], r, some)])
       /\ OpSet(H[r] \cup MintedOf(H[r], r, some))
  BY <1>1, <1>6, HistoryGrows
<1> QED BY <1>1, <1>5, <1>8, <1>9, <1>10, FoldKeeps

LEMMA RestartKeeps ==
  ASSUME TextInv, NEW H, NEW r \in Replicas, NEW K, NEW checkpoint,
         History(H), replica = [q \in Replicas |-> Assembled(H[q])],
         K \subseteq WorldOf(H), Of(K, r) = Of(H[r], r),
         checkpoint = NoCheckpoint \/ \E ops : checkpoint = Assembled(ops),
         Restart(r, checkpoint, K)
  PROVE  TextInv'
<1>1. History([H EXCEPT ![r] = K])
  BY HistoryStays
<1>2. OpSet(K)
  BY OpSetPart DEF History
<1>3. replica' = [replica EXCEPT ![r] = Assembled(K)]
  <2>1. Restored(checkpoint, K) = Assembled(K)
    BY <1>2, RestoredReplays
  <2> QED BY <2>1 DEF Restart
<1>4. restarts' \in [Replicas -> Nat] /\ \A q \in Replicas : restarts'[q] <= MaxRestarts[q]
  <2>1. /\ restarts \in [Replicas -> Nat] /\ \A q \in Replicas : restarts[q] <= MaxRestarts[q]
        /\ restarts' = [restarts EXCEPT ![r] = restarts[r] + 1] /\ restarts[r] < MaxRestarts[r]
        /\ MaxRestarts[r] \in Nat
    BY ReplicasAssumption DEF TextInv, Restart
  <2>2. restarts[r] + 1 \in Nat /\ restarts[r] + 1 <= MaxRestarts[r]
    BY <2>1
  <2>3. \A q \in Replicas : restarts'[q] = IF q = r THEN restarts[r] + 1 ELSE restarts[q]
    BY <2>1
  <2>4. restarts' \in [Replicas -> Nat]
    BY <2>1, <2>2
  <2> QED BY <2>1, <2>2, <2>3, <2>4
<1> DEFINE next == IF restarts'[r] < MaxRestarts[r] THEN checkpoint ELSE NoCheckpoint
<1>5. saved' = [saved EXCEPT ![r] = next]
  BY DEF Restart
<1>6. next = NoCheckpoint \/ \E ops : next = Assembled(ops)
  OBVIOUS
<1> HIDE DEF next
<1>7. asked'.text = <<>>
  BY DEF Restart, NoText
<1> QED BY <1>1, <1>3, <1>4, <1>5, <1>6, <1>7, StepKeeps
LEMMA CrashKeeps ==
  ASSUME TextInv, NEW r \in Replicas, NEW kept \in SUBSET replica[r].ops,
         NEW checkpoint \in {saved[r], NoCheckpoint}, Crash(r, kept, checkpoint)
  PROVE  TextInv'
<1>1. PICK H : History(H) /\ replica = [q \in Replicas |-> Assembled(H[q])]
  BY DEF TextInv
<1>2. replica[r].ops = H[r] /\ Own(r) = Of(H[r], r)
  BY <1>1, WorldIs
<1>3. kept \subseteq WorldOf(H) /\ Of(kept, r) = Of(H[r], r)
  <2>1. kept \subseteq H[r] /\ Of(H[r], r) \subseteq kept
    BY <1>2 DEF Crash
  <2>2. Of(kept, r) = Of(H[r], r)
    BY <2>1 DEF Of
  <2> QED BY <2>1, <2>2, <1>1 DEF History
<1>4. checkpoint = NoCheckpoint \/ \E ops : checkpoint = Assembled(ops)
  BY DEF TextInv
<1>5. Restart(r, checkpoint, kept)
  BY DEF Crash
<1> QED BY <1>1, <1>3, <1>4, <1>5, RestartKeeps

LEMMA RemountKeeps ==
  ASSUME TextInv, NEW r \in Replicas, Remount(r)
  PROVE  TextInv'
<1>1. PICK H : History(H) /\ replica = [q \in Replicas |-> Assembled(H[q])]
  BY DEF TextInv
<1>2. replica[r].ops = H[r] /\ replica[r] = Assembled(H[r])
  BY <1>1, WorldIs
<1>3. H[r] \subseteq WorldOf(H)
  BY <1>1 DEF History
<1>4. Restart(r, Assembled(H[r]), H[r])
  BY <1>2 DEF Remount
<1> QED BY <1>1, <1>3, <1>4, RestartKeeps

LEMMA InvKept == TextInv /\ [Next]_vars => TextInv'
<1>1. ASSUME TextInv, NEW r \in Replicas, NEW batch \in SUBSET (World \ replica[r].ops), Ingest(r, batch)
      PROVE  TextInv'
  BY <1>1, IngestKeeps
<1>2. ASSUME TextInv, NEW r \in Replicas, NEW text \in Texts, NEW sent \in 1 .. MaxOps[r], Replace(r, text, sent)
      PROVE  TextInv'
  BY <1>2, ReplaceKeeps
<1>3. ASSUME TextInv, NEW r \in Replicas, Remount(r) PROVE TextInv'
  BY <1>3, RemountKeeps
<1>4. ASSUME TextInv, NEW r \in Replicas, NEW kept \in SUBSET replica[r].ops,
             NEW checkpoint \in {saved[r], NoCheckpoint}, Crash(r, kept, checkpoint)
      PROVE  TextInv'
  BY <1>4, CrashKeeps
<1>5. ASSUME TextInv, UNCHANGED vars PROVE TextInv'
  BY <1>5 DEF TextInv, vars
<1> QED BY <1>1, <1>2, <1>3, <1>4, <1>5 DEF Next

LEMMA InvAlways == Spec => []TextInv
<1> QED BY InvBegins, InvKept, PTL DEF Spec

\* TypeOK: the state has its type, and the node is given numbers from 1 only.
THEOREM TypeCorrect == Spec => []TypeOK
<1>1. TextInv => TypeOK
  <2> SUFFICES ASSUME TextInv PROVE TypeOK
    OBVIOUS
  <2>1. PICK H : History(H) /\ replica = [r \in Replicas |-> Assembled(H[r])]
    BY DEF TextInv
  <2>2. ASSUME NEW r \in Replicas
        PROVE  /\ replica[r].ops \subseteq World
               /\ replica[r].bases \in [Origins -> Nat \cup {Unknown}]
               /\ \A op \in replica[r].applied \cup replica[r].pending : op.seq \in Nat \ {0}
               /\ DOMAIN replica[r].atoms \subseteq AtomId
    <3>1. replica[r] = Assembled(H[r]) /\ replica[r].ops = H[r] /\ World = WorldOf(H)
      BY <2>1, WorldIs
    <3>2. OpSet(H[r]) /\ H[r] \subseteq WorldOf(H)
      BY <2>1, HistoryHolds DEF History
    <3>3. /\ Assembled(H[r]).bases \in [Origins -> Nat \cup {Unknown}]
          /\ \A op \in Assembled(H[r]).applied \cup Assembled(H[r]).pending : op.seq \in Nat \ {0}
          /\ DOMAIN Assembled(H[r]).atoms \subseteq AtomId
      BY <3>2, AssembledTyped
    <3> QED BY <3>1, <3>2, <3>3
  <2>3. \A r \in Replicas : restarts[r] \in 0 .. MaxRestarts[r]
    BY ReplicasAssumption DEF TextInv
  <2>4. \A id \in AtomId : id[1] \in Nat \ {0} /\ id[2] \in Origins /\ id[3] \in Nat
    BY DEF AtomId
  <2> QED BY <2>2, <2>3, <2>4 DEF TypeOK, TextInv
<1> QED BY <1>1, InvAlways, PTL

\* IncrementalIsReplay: whatever arrives in whatever batches, with bases that move,
\* and whatever is restored from a checkpoint or from the log, an instance shows
\* what a replay of its operations from nothing gives. Any number of instances and
\* any history are meant, and causal delivery is not asked for.
THEOREM ReplayEquivalence == Spec => []IncrementalIsReplay
<1>1. TextInv => IncrementalIsReplay
  <2> SUFFICES ASSUME TextInv, NEW r \in Replicas
               PROVE  [elements |-> Shown(r), clock |-> [origin \in Origins |-> Reached(replica[r].applied, origin)]]
                        = AssembleText(replica[r].ops)
    BY DEF IncrementalIsReplay
  <2>1. PICK H : History(H) /\ replica = [q \in Replicas |-> Assembled(H[q])]
    BY DEF TextInv
  <2>2. replica[r] = Assembled(H[r]) /\ replica[r].ops = H[r]
    BY <2>1, WorldIs
  <2> QED BY <2>2, AssembledShows DEF Shown
<1> QED BY <1>1, InvAlways, PTL

\* NothingStuck: an instance that has received everything has applied everything,
\* if the writer that is gone left a founded history.
THEOREM NothingWaits == Spec => []NothingStuck
<1>1. TextInv => NothingStuck
  <2> SUFFICES ASSUME TextInv, NEW r \in Replicas, replica[r].ops = World
               PROVE  replica[r].pending = {}
    BY DEF NothingStuck
  <2>1. PICK H : History(H) /\ replica = [q \in Replicas |-> Assembled(H[q])]
    BY DEF TextInv
  <2>2. replica[r] = Assembled(H[r]) /\ H[r] = WorldOf(H)
    BY <2>1, WorldIs
  <2>3. Given(WorldOf(H)) \ Applied(WorldOf(H)) = {}
    BY <2>1, FoundedApplies DEF History
  <2>4. replica[r].pending = Given(WorldOf(H)) \ Applied(WorldOf(H))
    BY <2>2 DEF Assembled
  <2> QED BY <2>3, <2>4
<1> QED BY <1>1, InvAlways, PTL
=============================================================================
