--------------------------- MODULE TextEditsProofs ---------------------------
(***************************************************************************)
(* Proofs about the order of the text elements: what a replacement yields  *)
(* and where cursors stay, for every value of the constants.               *)
(***************************************************************************)
EXTENDS TextReplicasProofs

-----------------------------------------------------------------------------
(* Sequences that stand for sets. *)

IsList(D, s) == s \in Seq(D)
OneEach(s) == \A m, n \in 1 .. Len(s) : s[m] = s[n] => m = n

LEMMA ListFacts ==
  ASSUME NEW D, NEW s, IsList(D, s)
  PROVE  /\ Len(s) \in Nat /\ DOMAIN s = 1 .. Len(s) /\ \A n \in 1 .. Len(s) : s[n] \in D
         /\ ToSet(s) = {s[n] : n \in 1 .. Len(s)} /\ ToSet(s) \subseteq D
         /\ s = <<>> <=> Len(s) = 0
         /\ s # <<>> => /\ Head(s) \in D /\ IsList(D, Tail(s)) /\ Len(Tail(s)) + 1 = Len(s)
                        /\ ToSet(s) = {Head(s)} \cup ToSet(Tail(s))
<1>1. /\ Len(s) \in Nat /\ DOMAIN s = 1 .. Len(s) /\ \A n \in 1 .. Len(s) : s[n] \in D
      /\ s = <<>> <=> Len(s) = 0
  BY DEF IsList
<1>2. ToSet(s) = {s[n] : n \in 1 .. Len(s)}
  BY <1>1 DEF ToSet
<1>3. ASSUME s # <<>>
      PROVE  /\ Head(s) \in D /\ IsList(D, Tail(s)) /\ Len(Tail(s)) + 1 = Len(s)
             /\ ToSet(s) = {Head(s)} \cup ToSet(Tail(s))
  <2>1. Head(s) = s[1] /\ Head(s) \in D /\ IsList(D, Tail(s)) /\ Len(Tail(s)) = Len(s) - 1
    BY <1>3 DEF IsList
  <2>2. \A n \in 1 .. Len(s) - 1 : Tail(s)[n] = s[n + 1]
    BY <1>3 DEF IsList
  <2>3. ToSet(Tail(s)) = {s[n + 1] : n \in 1 .. Len(s) - 1}
    <3>1. DOMAIN Tail(s) = 1 .. Len(s) - 1
      BY <2>1 DEF IsList
    <3> QED BY <2>2, <3>1 DEF ToSet
  <2>4. \A n \in 1 .. Len(s) : n = 1 \/ \E m \in 1 .. Len(s) - 1 : n = m + 1
    <3>1. \A n \in 1 .. Len(s) : n = 1 \/ (n - 1 \in 1 .. Len(s) - 1 /\ n = (n - 1) + 1)
      BY <1>1
    <3> QED BY <3>1
  <2>5. 1 \in 1 .. Len(s) /\ \A m \in 1 .. Len(s) - 1 : m + 1 \in 1 .. Len(s)
    BY <1>1, <1>3
  <2>6. ToSet(s) = {Head(s)} \cup ToSet(Tail(s))
    BY <1>2, <2>1, <2>3, <2>4, <2>5
  <2> QED BY <1>1, <2>1, <2>6
<1> QED BY <1>1, <1>2, <1>3

LEMMA ListOnto ==
  ASSUME NEW S, NEW s, IsList(S, s), \A x \in S : \E n \in 1 .. Len(s) : s[n] = x
  PROVE  ToSet(s) = S
<1>1. ToSet(s) = {s[n] : n \in 1 .. Len(s)} /\ \A n \in 1 .. Len(s) : s[n] \in S
  BY ListFacts
<1> QED BY <1>1

LEMMA ListsJoined ==
  ASSUME NEW D, NEW s, IsList(D, s), NEW t, IsList(D, t)
  PROVE  /\ IsList(D, s \o t) /\ Len(s \o t) = Len(s) + Len(t)
         /\ ToSet(s \o t) = ToSet(s) \cup ToSet(t)
         /\ \A n \in 1 .. Len(s) : (s \o t)[n] = s[n]
         /\ \A n \in 1 .. Len(t) : (s \o t)[Len(s) + n] = t[n]
<1>1. /\ Len(s) \in Nat /\ Len(t) \in Nat
      /\ ToSet(s) = {s[n] : n \in 1 .. Len(s)} /\ ToSet(t) = {t[n] : n \in 1 .. Len(t)}
  BY ListFacts
<1>2. /\ IsList(D, s \o t) /\ Len(s \o t) = Len(s) + Len(t)
      /\ \A n \in 1 .. Len(s) : (s \o t)[n] = s[n]
      /\ \A n \in 1 .. Len(t) : (s \o t)[Len(s) + n] = t[n]
  BY DEF IsList
<1>3. ToSet(s \o t) = {(s \o t)[n] : n \in 1 .. Len(s) + Len(t)}
  BY <1>2, ListFacts
<1>4. \A n \in 1 .. Len(s) + Len(t) : n \in 1 .. Len(s) \/ \E m \in 1 .. Len(t) : n = Len(s) + m
  <2>1. \A n \in 1 .. Len(s) + Len(t) : n \in 1 .. Len(s) \/ (n - Len(s) \in 1 .. Len(t) /\ n = Len(s) + (n - Len(s)))
    BY <1>1
  <2> QED BY <2>1
<1>5. /\ \A n \in 1 .. Len(s) : n \in 1 .. Len(s) + Len(t)
      /\ \A n \in 1 .. Len(t) : Len(s) + n \in 1 .. Len(s) + Len(t)
  BY <1>1
<1>6. ToSet(s \o t) = ToSet(s) \cup ToSet(t)
  BY <1>1, <1>2, <1>3, <1>4, <1>5
<1> QED BY <1>2, <1>6

LEMMA ListAppended ==
  ASSUME NEW D, NEW s, IsList(D, s), NEW x \in D
  PROVE  /\ IsList(D, Append(s, x)) /\ Len(Append(s, x)) = Len(s) + 1
         /\ ToSet(Append(s, x)) = ToSet(s) \cup {x}
         /\ \A n \in 1 .. Len(s) : Append(s, x)[n] = s[n]
         /\ Append(s, x)[Len(s) + 1] = x
         /\ x \notin ToSet(s) /\ OneEach(s) => OneEach(Append(s, x))
<1>1. Len(s) \in Nat /\ ToSet(s) = {s[n] : n \in 1 .. Len(s)}
  BY ListFacts
<1>2. /\ IsList(D, Append(s, x)) /\ Len(Append(s, x)) = Len(s) + 1
      /\ \A n \in 1 .. Len(s) : Append(s, x)[n] = s[n]
      /\ Append(s, x)[Len(s) + 1] = x
  BY DEF IsList
<1>3. ToSet(Append(s, x)) = {Append(s, x)[n] : n \in 1 .. Len(s) + 1}
  BY <1>2, ListFacts
<1>4. \A n \in 1 .. Len(s) + 1 : n \in 1 .. Len(s) \/ n = Len(s) + 1
  BY <1>1
<1>5. Len(s) + 1 \in 1 .. Len(s) + 1 /\ \A n \in 1 .. Len(s) : n \in 1 .. Len(s) + 1
  BY <1>1
<1>6. ToSet(Append(s, x)) = ToSet(s) \cup {x}
  BY <1>1, <1>2, <1>3, <1>4, <1>5
<1>7. x \notin ToSet(s) /\ OneEach(s) => OneEach(Append(s, x))
  BY <1>1, <1>2, <1>4 DEF OneEach
<1> QED BY <1>2, <1>6, <1>7
-----------------------------------------------------------------------------
(* The order of siblings and the walk of the tree. *)

\* What comes before all the others is the first, and the others follow.
LEMMA SortedFront ==
  ASSUME NEW ids \in SUBSET Ids, IsFiniteSet(ids), NEW c \in Ids \ ids,
         \A x \in ids : IdBefore(c, x)
  PROVE  /\ Len(Sorted(ids \cup {c})) = Len(Sorted(ids)) + 1 /\ Sorted(ids \cup {c})[1] = c
         /\ \A n \in 1 .. Len(Sorted(ids)) : Sorted(ids \cup {c})[n + 1] = Sorted(ids)[n]
<1> DEFINE all == ids \cup {c}
<1> DEFINE Under(x) == {y \in ids : IdBefore(y, x)}
<1> DEFINE Below(x) == {y \in all : IdBefore(y, x)}
<1>1. all \in SUBSET Ids /\ IsFiniteSet(all) /\ Cardinality(all) = Cardinality(ids) + 1
      /\ Cardinality(ids) \in Nat
  BY FS_AddElement, FS_CardinalityType
<1>2. /\ Len(Sorted(all)) = Cardinality(all)
      /\ \A n \in 1 .. Cardinality(all), x \in all : Cardinality(Below(x)) = n - 1 => Sorted(all)[n] = x
  <2> HIDE DEF all
  <2> QED BY <1>1, SortedPlaces
<1>3. /\ Sorted(ids) \in Seq(ids) /\ Len(Sorted(ids)) = Cardinality(ids)
      /\ \A n \in 1 .. Cardinality(ids) : Cardinality(Under(Sorted(ids)[n])) = n - 1
  BY SortedPlaces
<1>4. Below(c) = {}
  BY IdsFacts
<1>5. ASSUME NEW x \in ids PROVE Cardinality(Below(x)) = Cardinality(Under(x)) + 1
  <2>1. Below(x) = Under(x) \cup {c} /\ c \notin Under(x) /\ IsFiniteSet(Under(x))
    BY FS_Subset
  <2> HIDE DEF Below, Under
  <2> QED BY <2>1, FS_AddElement
<1> HIDE DEF Below, Under
<1>6. Cardinality(Below(c)) = 0
  BY <1>4, FS_EmptySet
<1>7. Sorted(all)[1] = c
  <2>1. 1 \in 1 .. Cardinality(all) /\ c \in all /\ 1 - 1 = 0
    <3>1. 1 \in 1 .. Cardinality(all)
      <4> HIDE DEF all
      <4> QED BY <1>1
    <3> QED BY <3>1
  <2> HIDE DEF all
  <2> QED BY <2>1, <1>2, <1>6
<1>8. ASSUME NEW n \in 1 .. Len(Sorted(ids)) PROVE Sorted(all)[n + 1] = Sorted(ids)[n]
  <2>1. PICK x \in ids : x = Sorted(ids)[n]
    BY <1>3
  <2>2. Cardinality(Under(x)) = n - 1
    BY <1>3, <2>1
  <2>3. n + 1 \in 1 .. Cardinality(all) /\ x \in all /\ Cardinality(Below(x)) = (n + 1) - 1
    BY <1>1, <1>3, <1>5, <2>2
  <2> QED BY <1>2, <2>1, <2>3
<1> QED BY <1>1, <1>2, <1>3, <1>7, <1>8

\* The atoms directly below another, or below the root.
Below(atoms, parent) == {id \in DOMAIN atoms : atoms[id].after = parent}

\* The children of an atom are what hangs below it, each once.
LEMMA ChildrenAre ==
  ASSUME NEW atoms, AtomMap(atoms), NEW parent
  PROVE  /\ IsList(DOMAIN atoms, Children(atoms, parent)) /\ Children(atoms, parent) = Sorted(Below(atoms, parent))
         /\ Len(Children(atoms, parent)) = Cardinality(Below(atoms, parent)) /\ IsFiniteSet(Below(atoms, parent))
         /\ ToSet(Children(atoms, parent)) = Below(atoms, parent)
<1> DEFINE D == DOMAIN atoms
<1> DEFINE below == Below(atoms, parent)
<1>1. below \in SUBSET Ids /\ IsFiniteSet(below) /\ below \subseteq D
  BY IdsFacts, FS_Subset DEF AtomMap, Below
<1>2. Children(atoms, parent) = Sorted(below)
  BY DEF Children, Below
<1> HIDE DEF D, below
<1>3. Sorted(below) \in Seq(below) /\ Len(Sorted(below)) = Cardinality(below)
      /\ \A x \in below : \E n \in 1 .. Len(Sorted(below)) : Sorted(below)[n] = x
  BY <1>1, SortedFacts
<1>4. IsList(below, Sorted(below)) /\ IsList(D, Sorted(below))
  BY <1>1, <1>3 DEF IsList
<1>5. ToSet(Sorted(below)) = below
  <2>1. \A x \in below : \E n \in 1 .. Len(Sorted(below)) : Sorted(below)[n] = x
    BY <1>3
  <2> QED BY <1>4, <2>1, ListOnto
<1> QED BY <1>1, <1>2, <1>3, <1>4, <1>5 DEF D, below

\* What is still to be pushed: the atoms whose parent was not visited.
Ahead(atoms, visited) == {id \in DOMAIN atoms : atoms[id].after \notin ToSet(visited)}

\* The walk that began with `start` after n steps.
Underway(atoms, start, n, todo, visited) ==
  /\ IsList(DOMAIN atoms, todo) /\ IsList(DOMAIN atoms, visited) /\ OneEach(visited)
  /\ ToSet(start) \subseteq ToSet(visited) \cup ToSet(todo)
  /\ \A id \in DOMAIN atoms :
       atoms[id].after \in ToSet(visited) => id \in ToSet(visited) \cup ToSet(todo)
  /\ todo = <<>> \/ n + Len(todo) + Cardinality(Ahead(atoms, visited)) <= Len(start) + Cardinality(DOMAIN atoms)
\* A step of the walk leaves it underway.
LEMMA WalkGoesOn ==
  ASSUME NEW atoms, AtomMap(atoms), NEW start, NEW n \in Nat, NEW todo, NEW visited,
         IsList(DOMAIN atoms, start), Underway(atoms, start, n, todo, visited),
         NEW w, w = Stepped(atoms, [todo |-> todo, visited |-> visited])
  PROVE  w = [todo |-> w.todo, visited |-> w.visited] /\ Underway(atoms, start, n + 1, w.todo, w.visited)
<1> DEFINE D == DOMAIN atoms
<1>1. /\ IsList(D, todo) /\ IsList(D, visited) /\ OneEach(visited)
      /\ ToSet(start) \subseteq ToSet(visited) \cup ToSet(todo)
      /\ \A id \in D : atoms[id].after \in ToSet(visited) => id \in ToSet(visited) \cup ToSet(todo)
      /\ todo = <<>> \/ n + Len(todo) + Cardinality(Ahead(atoms, visited)) <= Len(start) + Cardinality(D)
  BY DEF Underway
<1>2. /\ Cardinality(D) \in Nat /\ Len(start) \in Nat
      /\ \A V : IsFiniteSet(Ahead(atoms, V)) /\ Cardinality(Ahead(atoms, V)) \in Nat
  <2>1. \A V : Ahead(atoms, V) \in SUBSET D
    BY DEF Ahead
  <2> QED BY <2>1, FS_CardinalityType, FS_Subset, ListFacts DEF AtomMap
<1>3. CASE todo = <<>>
  <2>1. w = [todo |-> todo, visited |-> visited]
    BY <1>3 DEF Stepped
  <2>2. w.todo = todo /\ w.visited = visited
    BY <2>1
  <2> HIDE DEF D
  <2>3. Underway(atoms, start, n + 1, todo, visited)
    BY <1>1, <1>3 DEF Underway, D
  <2> QED BY <2>1, <2>2, <2>3
<1>4. CASE todo # <<>>
  <2> DEFINE id == Head(todo)
  <2>1. /\ id \in D /\ IsList(D, Tail(todo)) /\ Len(todo) \in Nat /\ Len(Tail(todo)) \in Nat
        /\ Len(Tail(todo)) + 1 = Len(todo) /\ ToSet(todo) = {id} \cup ToSet(Tail(todo))
    BY <1>1, <1>4, ListFacts
  <2>2. CASE id \in ToSet(visited)
    <3>1. w = [todo |-> Tail(todo), visited |-> visited]
      BY <1>4, <2>2 DEF Stepped
    <3>4. w.todo = Tail(todo) /\ w.visited = visited
      BY <3>1
    <3>2. (n + 1) + Len(Tail(todo)) + Cardinality(Ahead(atoms, visited)) <= Len(start) + Cardinality(D)
      <4> HIDE DEF D
      <4> QED BY <1>1, <1>2, <1>4, <2>1
    <3>3. Underway(atoms, start, n + 1, Tail(todo), visited)
      BY <1>1, <2>1, <2>2, <3>2 DEF Underway
    <3> QED BY <3>1, <3>3, <3>4
  <2>3. CASE id \notin ToSet(visited)
    <3> DEFINE on == Children(atoms, id) \o Tail(todo)
    <3> DEFINE seen == Append(visited, id)
    <3>1. w = [todo |-> on, visited |-> seen]
      BY <1>4, <2>3 DEF Stepped
    <3>0. w.todo = on /\ w.visited = seen
      <4> HIDE DEF on, seen
      <4> QED BY <3>1
    <3> DEFINE below == Below(atoms, id)
    <3>2. /\ IsList(D, Children(atoms, id)) /\ ToSet(Children(atoms, id)) = below
          /\ Len(Children(atoms, id)) = Cardinality(below) /\ IsFiniteSet(below)
      BY ChildrenAre
    <3>3. /\ IsList(D, on) /\ Len(on) = Cardinality(below) + Len(Tail(todo))
          /\ ToSet(on) = below \cup ToSet(Tail(todo))
      <4>1. IsList(D, Children(atoms, id)) /\ IsList(D, Tail(todo))
        BY <2>1, <3>2
      <4>0. PICK ch, rest : ch = Children(atoms, id) /\ rest = Tail(todo)
        OBVIOUS
      <4>2. IsList(D, ch \o rest) /\ Len(ch \o rest) = Len(ch) + Len(rest) /\ ToSet(ch \o rest) = ToSet(ch) \cup ToSet(rest)
        <5>1. IsList(D, ch) /\ IsList(D, rest)
          BY <4>0, <4>1
        <5> HIDE DEF D
        <5> QED BY <5>1, ListsJoined
      <4> HIDE DEF on
      <4>3. on = ch \o rest
        BY <4>0 DEF on
      <4> QED BY <3>2, <4>0, <4>2, <4>3
    <3>4. IsList(D, seen) /\ ToSet(seen) = ToSet(visited) \cup {id} /\ OneEach(seen)
      BY <1>1, <2>1, <2>3, ListAppended
    <3>5. Ahead(atoms, seen) = Ahead(atoms, visited) \ below /\ Ahead(atoms, visited) \cap below = below
      BY <2>3, <3>4 DEF Ahead, Below
    <3>6. Cardinality(Ahead(atoms, seen)) = Cardinality(Ahead(atoms, visited)) - Cardinality(below)
      BY <1>2, <3>5, FS_Difference
    <3>7. \A c \in D : atoms[c].after \in ToSet(seen) => c \in ToSet(seen) \cup ToSet(on)
      BY <1>1, <2>1, <3>3, <3>4 DEF Below
    <3>8. ToSet(start) \subseteq ToSet(seen) \cup ToSet(on)
      BY <1>1, <2>1, <3>3, <3>4
    <3> HIDE DEF on, seen, below
    <3>9. Cardinality(below) \in Nat
      BY <3>2, FS_CardinalityType
    <3>10. (n + 1) + Len(on) + Cardinality(Ahead(atoms, seen)) <= Len(start) + Cardinality(D)
      <4> HIDE DEF D, id
      <4> QED BY <1>1, <1>2, <1>4, <2>1, <3>3, <3>6, <3>9
    <3>11. Underway(atoms, start, n + 1, on, seen)
      BY <3>3, <3>4, <3>7, <3>8, <3>10 DEF Underway
    <3> QED BY <3>0, <3>1, <3>11
  <2> QED BY <2>2, <2>3
<1> QED BY <1>3, <1>4

\* The walk has ended when its result is taken: with each atom once, and with
\* every child of an atom it passed.
LEMMA WalkEnds ==
  ASSUME NEW atoms, AtomMap(atoms), NEW start, IsList(DOMAIN atoms, start)
  PROVE  LET D == DOMAIN atoms
             w == Walks(atoms, start, <<>>)[Len(start) + Cardinality(D)]
         IN  /\ Len(start) + Cardinality(D) \in Nat
             /\ w.todo = <<>> /\ IsList(D, w.visited) /\ OneEach(w.visited)
             /\ ToSet(start) \subseteq ToSet(w.visited)
             /\ \A id \in D : atoms[id].after \in ToSet(w.visited) => id \in ToSet(w.visited)
<1> DEFINE D == DOMAIN atoms
<1> DEFINE f == Walks(atoms, start, <<>>)
<1> DEFINE k == Len(start) + Cardinality(D)
<1>1. /\ f[0] = [todo |-> start, visited |-> <<>>]
      /\ \A n \in Nat : f[n + 1] = Stepped(atoms, f[n])
  <2>1. Runs(Walks(atoms, start, <<>>), atoms, start, <<>>)
    <3>1. start \in Seq(D) /\ <<>> \in Seq(D)
      BY DEF IsList
    <3> HIDE DEF f, k
    <3> QED BY <3>1, WalksFacts
  <2> QED BY <2>1 DEF Runs
<1>2. Cardinality(D) \in Nat /\ Len(start) \in Nat /\ k \in Nat
  BY FS_CardinalityType, ListFacts DEF AtomMap
<1> DEFINE N == {n \in Nat : /\ f[n] = [todo |-> f[n].todo, visited |-> f[n].visited]
                             /\ Underway(atoms, start, n, f[n].todo, f[n].visited)}
<1> HIDE DEF f
<1>3. 0 \in N
  <2>1. IsList(D, <<>>) /\ OneEach(<<>>) /\ ToSet(<<>>) = {}
    BY DEF IsList, OneEach, ToSet
  <2>2. Ahead(atoms, <<>>) = D
    BY <2>1 DEF Ahead
  <2>3. Underway(atoms, start, 0, start, <<>>)
    BY <1>2, <2>1, <2>2 DEF Underway
  <2> QED BY <1>1, <2>3
<1>4. ASSUME NEW n \in N PROVE n + 1 \in N
  <2>1. n \in Nat /\ Underway(atoms, start, n, f[n].todo, f[n].visited)
    OBVIOUS
  <2> DEFINE w == Stepped(atoms, [todo |-> f[n].todo, visited |-> f[n].visited])
  <2>2. w = [todo |-> w.todo, visited |-> w.visited] /\ Underway(atoms, start, n + 1, w.todo, w.visited)
    <3>1. \A v : v = w => v = [todo |-> v.todo, visited |-> v.visited] /\ Underway(atoms, start, n + 1, v.todo, v.visited)
      BY <2>1, WalkGoesOn
    <3> QED BY <3>1
  <2>3. f[n + 1] = w
    BY <1>1
  <2> HIDE DEF w
  <2> QED BY <2>1, <2>2, <2>3
<1>5. k \in N
  <2>1. N \subseteq Nat
    OBVIOUS
  <2> HIDE DEF N, k
  <2> QED BY <1>2, <1>3, <1>4, <2>1, AllNat
<1> DEFINE todo == f[k].todo
<1> DEFINE visited == f[k].visited
<1>6. Underway(atoms, start, k, todo, visited)
  BY <1>5
<1> HIDE DEF N, todo, visited
<1>7. todo = <<>>
  <2>1. /\ Len(todo) \in Nat /\ todo = <<>> <=> Len(todo) = 0
    BY <1>6, ListFacts DEF Underway
  <2>2. Cardinality(Ahead(atoms, visited)) \in Nat
    <3>1. Ahead(atoms, visited) \in SUBSET D
      BY DEF Ahead
    <3> QED BY <3>1, FS_CardinalityType, FS_Subset DEF AtomMap
  <2>3. todo = <<>> \/ k + Len(todo) + Cardinality(Ahead(atoms, visited)) <= k
    BY <1>6 DEF Underway
  <2> HIDE DEF k
  <2> QED BY <1>2, <2>1, <2>2, <2>3
<1>8. ToSet(<<>>) = {}
  BY DEF ToSet
<1> QED BY <1>2, <1>6, <1>7, <1>8 DEF Underway, todo, visited, f
\* A walk that has ended stays as it is.
LEMMA WalkStops ==
  ASSUME NEW f, NEW atoms, NEW todo, NEW visited, Runs(f, atoms, todo, visited),
         NEW n \in Nat, f[n].todo = <<>>, NEW k \in Nat
  PROVE  f[n + k] = f[n]
<1> DEFINE N == {m \in Nat : f[n + m] = f[n]}
<1>1. 0 \in N
  OBVIOUS
<1>2. ASSUME NEW m \in N PROVE m + 1 \in N
  <2>1. n + m \in Nat /\ n + (m + 1) = (n + m) + 1
    OBVIOUS
  <2>2. f[n + (m + 1)] = Stepped(atoms, f[n])
    BY <2>1 DEF Runs
  <2>3. Stepped(atoms, f[n]) = f[n]
    BY DEF Stepped
  <2> QED BY <2>2, <2>3
<1>3. N \subseteq Nat
  OBVIOUS
<1> HIDE DEF N
<1>4. N = Nat
  BY <1>1, <1>2, <1>3, AllNat
<1> QED BY <1>4 DEF N

\* Every atom is below the root, or below an atom that is older.
Rooted(atoms) ==
  \E age \in [DOMAIN atoms -> Nat] :
    \A id \in DOMAIN atoms :
      \/ atoms[id].after = Root
      \/ atoms[id].after \in DOMAIN atoms /\ age[atoms[id].after] < age[id]

\* The walk from the root passes every atom once.
LEMMA TreeWhole ==
  ASSUME NEW atoms, AtomMap(atoms), Rooted(atoms)
  PROVE  /\ TreeOrder(atoms) = Visit(atoms, Children(atoms, Root), <<>>)
         /\ IsList(DOMAIN atoms, TreeOrder(atoms)) /\ OneEach(TreeOrder(atoms))
         /\ ToSet(TreeOrder(atoms)) = DOMAIN atoms
<1> DEFINE D == DOMAIN atoms
<1> DEFINE start == Children(atoms, Root)
<1> DEFINE w == Walks(atoms, start, <<>>)[Len(start) + Cardinality(D)]
<1> DEFINE rooted == Visit(atoms, start, <<>>)
<1>1. IsList(D, start) /\ ToSet(start) = Below(atoms, Root)
  BY ChildrenAre
<1>2. rooted = w.visited
  BY DEF Visit
<1>3. /\ IsList(D, rooted) /\ OneEach(rooted) /\ ToSet(start) \subseteq ToSet(rooted)
      /\ \A id \in D : atoms[id].after \in ToSet(rooted) => id \in ToSet(rooted)
  <2>1. \A s : s = start =>
          LET v == Walks(atoms, s, <<>>)[Len(s) + Cardinality(D)]
          IN  /\ IsList(D, v.visited) /\ OneEach(v.visited)
              /\ ToSet(s) \subseteq ToSet(v.visited)
              /\ \A id \in D : atoms[id].after \in ToSet(v.visited) => id \in ToSet(v.visited)
    <3> HIDE DEF start
    <3> QED BY <1>1, WalkEnds
  <2> HIDE DEF start
  <2> QED BY <1>2, <2>1
<1> HIDE DEF rooted, w
<1>4. D \subseteq ToSet(rooted)
  <2>1. PICK age \in [D -> Nat] :
          \A id \in D : atoms[id].after = Root \/ (atoms[id].after \in D /\ age[atoms[id].after] < age[id])
    BY DEF Rooted
  <2> DEFINE N == {n \in Nat : \A id \in D : age[id] < n => id \in ToSet(rooted)}
  <2>2. 0 \in N
    <3>1. \A id \in D : ~ (age[id] < 0)
      BY <2>1
    <3> QED BY <3>1
  <2>3. ASSUME NEW n \in N PROVE n + 1 \in N
    <3>1. ASSUME NEW id \in D, age[id] < n + 1 PROVE id \in ToSet(rooted)
      <4>1. CASE atoms[id].after = Root
        BY <1>1, <1>3, <4>1 DEF Below
      <4>2. CASE atoms[id].after \in D /\ age[atoms[id].after] < age[id]
        <5>1. n \in Nat /\ age[atoms[id].after] \in Nat /\ age[id] \in Nat
          BY <2>1, <4>2
        <5>2. age[atoms[id].after] < n
          BY <3>1, <4>2, <5>1
        <5>3. atoms[id].after \in ToSet(rooted)
          BY <4>2, <5>2
        <5> QED BY <1>3, <5>3
      <4> QED BY <2>1, <4>1, <4>2
    <3>2. n + 1 \in Nat
      OBVIOUS
    <3> QED BY <3>1, <3>2
  <2>4. N \subseteq Nat
    OBVIOUS
  <2> HIDE DEF N
  <2>5. N = Nat
    BY <2>2, <2>3, <2>4, AllNat
  <2>6. ASSUME NEW id \in D PROVE id \in ToSet(rooted)
    <3>1. age[id] \in Nat /\ age[id] + 1 \in Nat /\ age[id] < age[id] + 1
      BY <2>1
    <3> QED BY <2>5, <3>1 DEF N
  <2> QED BY <2>6
<1>5. ToSet(rooted) = D
  BY <1>3, <1>4, ListFacts
<1>6. TreeOrder(atoms) = Visit(atoms, Sorted({}), rooted)
  <2>1. {id \in D \ ToSet(rooted) : atoms[id].after \in D} = {}
    BY <1>5
  <2> QED BY <2>1 DEF TreeOrder, rooted
<1>7. Sorted({}) = <<>>
  <2>1. {} \in SUBSET Ids /\ IsFiniteSet({}) /\ Cardinality({}) = 0
    BY FS_EmptySet
  <2>2. Sorted({}) \in Seq({}) /\ Len(Sorted({})) = 0
    BY <2>1, SortedFacts
  <2> QED BY <2>2
<1>8. Visit(atoms, <<>>, rooted) = rooted
  <2>1. Cardinality(D) \in Nat /\ Len(<<>>) + Cardinality(D) = 0 + Cardinality(D)
    BY FS_CardinalityType DEF AtomMap
  <2>2. PICK g : g = Walks(atoms, <<>>, rooted)
    OBVIOUS
  <2>3. Runs(g, atoms, <<>>, rooted)
    <3>1. <<>> \in Seq(D) /\ rooted \in Seq(D)
      BY <1>3 DEF IsList
    <3> QED BY <2>2, <3>1, WalksFacts
  <2>4. g[0] = [todo |-> <<>>, visited |-> rooted]
    BY <2>3 DEF Runs
  <2>5. g[0].todo = <<>> /\ g[0].visited = rooted
    BY <2>4
  <2>6. \A k \in Nat : g[0 + k] = g[0]
    BY <2>3, <2>5, WalkStops
  <2> QED BY <2>1, <2>2, <2>5, <2>6 DEF Visit
<1> QED BY <1>3, <1>5, <1>6, <1>7, <1>8 DEF rooted
-----------------------------------------------------------------------------
(* One more atom in the tree. *)

\* The list with a member more, after the first so many.
PutIn(s, t, p, c) ==
  /\ Len(t) = Len(s) + 1 /\ t[p + 1] = c
  /\ \A n \in 1 .. p : t[n] = s[n]
  /\ \A n \in p + 1 .. Len(s) : t[n + 1] = s[n]

LEMMA PutInFacts ==
  ASSUME NEW D, NEW E, NEW s, IsList(D, s), NEW t, IsList(E, t), NEW p \in 0 .. Len(s), NEW c, PutIn(s, t, p, c)
  PROVE  /\ ToSet(t) = ToSet(s) \cup {c}
         /\ \A x \in D \cap E : PutIn(Append(s, x), Append(t, x), p, c)
<1>1. /\ Len(s) \in Nat /\ Len(t) = Len(s) + 1
      /\ ToSet(s) = {s[n] : n \in 1 .. Len(s)} /\ ToSet(t) = {t[n] : n \in 1 .. Len(t)}
  BY ListFacts DEF PutIn
<1>2. \A n \in 1 .. Len(s) + 1 : n \in 1 .. p \/ n = p + 1 \/ \E m \in p + 1 .. Len(s) : n = m + 1
  <2>1. \A n \in 1 .. Len(s) + 1 : n \in 1 .. p \/ n = p + 1 \/ (n - 1 \in p + 1 .. Len(s) /\ n = (n - 1) + 1)
    BY <1>1
  <2> QED BY <2>1
<1>3. /\ p + 1 \in 1 .. Len(s) + 1 /\ \A n \in 1 .. p : n \in 1 .. Len(s) /\ n \in 1 .. Len(s) + 1
      /\ \A n \in p + 1 .. Len(s) : n \in 1 .. Len(s) /\ n + 1 \in 1 .. Len(s) + 1
      /\ \A n \in 1 .. Len(s) : n \in 1 .. p \/ n \in p + 1 .. Len(s)
  BY <1>1
<1>4. /\ t[p + 1] = c /\ \A n \in 1 .. p : t[n] = s[n]
      /\ \A n \in p + 1 .. Len(s) : t[n + 1] = s[n]
  BY DEF PutIn
<1>5. ToSet(t) \subseteq ToSet(s) \cup {c}
  <2>1. ASSUME NEW n \in 1 .. Len(s) + 1 PROVE t[n] \in ToSet(s) \cup {c}
    <3>1. CASE n \in 1 .. p
      BY <1>1, <1>3, <1>4, <3>1
    <3>2. CASE n = p + 1
      BY <1>4, <3>2
    <3>3. CASE \E m \in p + 1 .. Len(s) : n = m + 1
      <4>1. PICK m \in p + 1 .. Len(s) : n = m + 1
        BY <3>3
      <4>2. t[n] = s[m] /\ m \in 1 .. Len(s)
        BY <1>3, <1>4, <4>1
      <4> QED BY <1>1, <4>2
    <3> QED BY <1>2, <3>1, <3>2, <3>3
  <2> QED BY <1>1, <2>1
<1>6. ToSet(s) \cup {c} \subseteq ToSet(t)
  BY <1>1, <1>3, <1>4
<1>7. ASSUME NEW x \in D \cap E PROVE PutIn(Append(s, x), Append(t, x), p, c)
  <2>1. /\ Len(Append(s, x)) = Len(s) + 1 /\ Append(s, x)[Len(s) + 1] = x
        /\ \A n \in 1 .. Len(s) : Append(s, x)[n] = s[n]
    BY ListAppended
  <2>2. /\ Len(Append(t, x)) = Len(t) + 1 /\ Append(t, x)[Len(t) + 1] = x
        /\ \A n \in 1 .. Len(t) : Append(t, x)[n] = t[n]
    BY ListAppended
  <2>3. \A n \in p + 1 .. Len(s) + 1 : n \in p + 1 .. Len(s) \/ n = Len(s) + 1
    BY <1>1
  <2>4. \A n \in p + 1 .. Len(s) + 1 : Append(t, x)[n + 1] = Append(s, x)[n]
    BY <1>1, <1>3, <1>4, <2>1, <2>2, <2>3
  <2>5. Append(t, x)[p + 1] = c /\ \A n \in 1 .. p : Append(t, x)[n] = Append(s, x)[n]
    BY <1>1, <1>3, <1>4, <2>1, <2>2
  <2> QED BY <1>1, <2>1, <2>2, <2>4, <2>5 DEF PutIn
<1> QED BY <1>5, <1>6, <1>7

\* The atoms with one more, which comes before all others below the same parent.
Grafted(atoms, new, c) ==
  /\ DOMAIN new = DOMAIN atoms \cup {c} /\ c \notin DOMAIN atoms
  /\ \A id \in DOMAIN atoms : new[id].after = atoms[id].after
  /\ new[c].after \in DOMAIN atoms \cup {Root}
  /\ \A id \in Below(atoms, new[c].after) : IdBefore(c, id)

\* Where a parent is in a list: the root is in front of it.
AtPlace(s, p, parent) == IF parent = Root THEN p = 0 ELSE p # 0 /\ s[p] = parent

\* A graft changes the children of its parent only, and has none itself.
LEMMA GraftBelow ==
  ASSUME NEW atoms, AtomMap(atoms), Rooted(atoms), NEW new, AtomMap(new), NEW c, Grafted(atoms, new, c)
  PROVE  /\ Rooted(new) /\ Root \notin DOMAIN new
         /\ \A id \in DOMAIN atoms \cup {Root} :
              id # new[c].after => Children(new, id) = Children(atoms, id)
         /\ Children(new, c) = <<>>
         /\ Children(new, new[c].after) # <<>> /\ Head(Children(new, new[c].after)) = c
         /\ Tail(Children(new, new[c].after)) = Children(atoms, new[c].after)
<1> DEFINE D == DOMAIN atoms
<1> DEFINE a == new[c].after
<1>1. /\ DOMAIN new = D \cup {c} /\ c \notin D /\ c \in AtomId /\ a \in D \cup {Root}
      /\ \A id \in D : new[id].after = atoms[id].after
      /\ \A id \in Below(atoms, a) : IdBefore(c, id)
  BY DEF Grafted, AtomMap
<1>2. Root \notin DOMAIN new
  BY DEF AtomMap, AtomId, Root
<1>3. Rooted(new)
  <2>1. PICK age \in [D -> Nat] :
          \A id \in D : atoms[id].after = Root \/ (atoms[id].after \in D /\ age[atoms[id].after] < age[id])
    BY DEF Rooted
  <2> DEFINE older == [id \in D \cup {c} |-> IF id = c THEN (IF a = Root THEN 0 ELSE age[a] + 1) ELSE age[id]]
  <2>2. older \in [DOMAIN new -> Nat]
    BY <1>1
  <2>3. ASSUME NEW id \in DOMAIN new
        PROVE  new[id].after = Root \/ (new[id].after \in DOMAIN new /\ older[new[id].after] < older[id])
    <3>1. CASE id \in D
      BY <1>1, <2>1, <3>1
    <3>2. CASE id = c /\ a # Root
      <4>1. age[a] \in Nat /\ older[a] = age[a] /\ older[c] = age[a] + 1
        BY <1>1, <3>2
      <4> QED BY <1>1, <3>2, <4>1
    <3> QED BY <1>1, <3>1, <3>2
  <2> HIDE DEF older
  <2> QED BY <2>2, <2>3 DEF Rooted
<1>4. \A id \in D : atoms[id].after \in D \cup {Root}
  BY DEF Rooted
<1>5. /\ \A x : Children(new, x) = Sorted(Below(new, x))
      /\ \A x : Children(atoms, x) = Sorted(Below(atoms, x))
  BY DEF Children, Below
<1>6. ASSUME NEW id \in D \cup {Root}, id # a PROVE Children(new, id) = Children(atoms, id)
  <2>1. Below(new, id) = Below(atoms, id)
    BY <1>1, <1>6 DEF Below
  <2> QED BY <1>5, <2>1
<1>7. Children(new, c) = <<>>
  <2>1. c # Root
    BY <1>1, <1>2
  <2>2. Below(new, c) = {}
    BY <1>1, <1>4, <2>1 DEF Below
  <2>3. {} \in SUBSET Ids /\ IsFiniteSet({}) /\ Cardinality({}) = 0
    BY FS_EmptySet
  <2>4. Sorted({}) \in Seq({}) /\ Len(Sorted({})) = 0
    BY <2>3, SortedFacts
  <2>5. Sorted({}) = <<>>
    BY <2>4
  <2> QED BY <1>5, <2>2, <2>5
<1>8. /\ Children(new, a) # <<>> /\ Head(Children(new, a)) = c
      /\ Tail(Children(new, a)) = Children(atoms, a)
  <2> DEFINE ids == Below(atoms, a)
  <2>1. Below(new, a) = ids \cup {c}
    BY <1>1 DEF Below
  <2>2. ids \in SUBSET Ids /\ IsFiniteSet(ids) /\ c \in Ids \ ids
    <3>1. ids \subseteq D
      BY DEF Below
    <3>2. D \subseteq AtomId /\ IsFiniteSet(D)
      BY DEF AtomMap
    <3> HIDE DEF ids
    <3> QED BY <1>1, <3>1, <3>2, IdsFacts, FS_Subset
  <2> DEFINE more == Sorted(ids \cup {c})
  <2>3. IsList(D, Sorted(ids)) /\ IsList(DOMAIN new, more)
    BY <1>5, <2>1, ChildrenAre
  <2>4. /\ Len(more) = Len(Sorted(ids)) + 1 /\ more[1] = c
        /\ \A n \in 1 .. Len(Sorted(ids)) : more[n + 1] = Sorted(ids)[n]
    <3> HIDE DEF ids
    <3>1. \A x \in ids : IdBefore(c, x)
      BY <1>1 DEF ids
    <3> QED BY <2>2, <3>1, SortedFront
  <2> HIDE DEF ids, more
  <2>5. Len(Sorted(ids)) \in Nat
    BY <2>3, ListFacts
  <2>6. more # <<>> /\ Head(more) = c
    BY <2>3, <2>4, <2>5 DEF IsList
  <2>7. Tail(more) = Sorted(ids)
    <3> DEFINE rest == Sorted(ids)
    <3>1. /\ more \in Seq(DOMAIN new) /\ rest \in Seq(D)
      BY <2>3 DEF IsList
    <3> HIDE DEF rest, D
    <3>2. /\ Tail(more) \in Seq(DOMAIN new) /\ Len(Tail(more)) = Len(rest)
          /\ \A n \in 1 .. Len(rest) : Tail(more)[n] = more[n + 1]
      BY <2>4, <2>5, <2>6, <3>1 DEF rest
    <3>3. \A n \in 1 .. Len(rest) : Tail(more)[n] = rest[n]
      BY <2>4, <3>2 DEF rest
    <3>4. Tail(more) = rest
      BY <3>1, <3>2, <3>3
    <3> QED BY <3>4 DEF rest
  <2> QED BY <1>5, <2>1, <2>6, <2>7 DEF ids, more
<1> QED BY <1>2, <1>3, <1>6, <1>7, <1>8
\* A walk that has passed the parent of the atom that is put in, and a walk of
\* the tree with that atom: they have the same way ahead.
Tracked(atoms, new, c, w, y) ==
  \E todo, visited, seen, p :
    /\ w = [todo |-> todo, visited |-> visited] /\ y = [todo |-> todo, visited |-> seen]
    /\ IsList(DOMAIN atoms, todo) /\ IsList(DOMAIN atoms, visited) /\ IsList(DOMAIN new, seen)
    /\ p \in 0 .. Len(visited) /\ PutIn(visited, seen, p, c)
    /\ AtPlace(visited, p, new[c].after) /\ new[c].after \in ToSet(visited) \cup {Root}

\* A walk that has not come to the parent yet.
Before(atoms, parent, w) ==
  \E todo, visited :
    /\ w = [todo |-> todo, visited |-> visited]
    /\ IsList(DOMAIN atoms, todo) /\ IsList(DOMAIN atoms, visited)
    /\ parent \notin ToSet(visited) \cup {Root}

\* Once the walk has passed the graft, both walks go on in step.
LEMMA GraftStays ==
  ASSUME NEW atoms, AtomMap(atoms), Rooted(atoms), NEW new, AtomMap(new), NEW c, Grafted(atoms, new, c),
         NEW w, NEW y, Tracked(atoms, new, c, w, y)
  PROVE  Tracked(atoms, new, c, Stepped(atoms, w), Stepped(new, y))
<1> DEFINE D == DOMAIN atoms
<1> DEFINE E == DOMAIN new
<1> DEFINE a == new[c].after
<1>1. PICK todo, visited, seen, p :
         /\ w = [todo |-> todo, visited |-> visited] /\ y = [todo |-> todo, visited |-> seen]
         /\ IsList(D, todo) /\ IsList(D, visited) /\ IsList(E, seen)
         /\ p \in 0 .. Len(visited) /\ PutIn(visited, seen, p, c)
         /\ AtPlace(visited, p, a) /\ a \in ToSet(visited) \cup {Root}
  BY DEF Tracked
<1>2. w.todo = todo /\ w.visited = visited /\ y.todo = todo /\ y.visited = seen
  BY <1>1
<1>3. D \subseteq E /\ c \notin D /\ Root \notin D
  BY GraftBelow DEF Grafted
<1>4. /\ ToSet(seen) = ToSet(visited) \cup {c}
      /\ \A x \in D \cap E : PutIn(Append(visited, x), Append(seen, x), p, c)
  <2> HIDE DEF D, E
  <2> QED BY <1>1, PutInFacts
<1>5. CASE todo = <<>>
  <2>1. Stepped(atoms, w) = w /\ Stepped(new, y) = y
    BY <1>2, <1>5 DEF Stepped
  <2> QED BY <2>1
<1>6. CASE todo # <<>>
  <2> DEFINE id == Head(todo)
  <2>1. id \in D /\ IsList(D, Tail(todo)) /\ Len(visited) \in Nat
    BY <1>1, <1>6, ListFacts
  <2>2. CASE id \in ToSet(visited)
    <3>1. /\ Stepped(atoms, w) = [todo |-> Tail(todo), visited |-> visited]
          /\ Stepped(new, y) = [todo |-> Tail(todo), visited |-> seen]
      BY <1>1, <1>2, <1>4, <1>6, <2>2 DEF Stepped
    <3> QED BY <1>1, <2>1, <3>1 DEF Tracked
  <2>3. CASE id \notin ToSet(visited)
    <3>1. /\ Stepped(atoms, w) = [todo |-> Children(atoms, id) \o Tail(todo), visited |-> Append(visited, id)]
          /\ Stepped(new, y) = [todo |-> Children(new, id) \o Tail(todo), visited |-> Append(seen, id)]
      BY <1>1, <1>2, <1>3, <1>4, <1>6, <2>1, <2>3 DEF Stepped
    <3>2. Children(new, id) = Children(atoms, id)
      <4>1. id # a
        BY <1>1, <1>3, <2>1, <2>3
      <4> QED BY <2>1, <4>1, GraftBelow
    <3> DEFINE on == Children(atoms, id) \o Tail(todo)
    <3>3. IsList(D, on)
      <4>1. PICK ch, rest : ch = Children(atoms, id) /\ rest = Tail(todo)
        OBVIOUS
      <4>2. IsList(D, ch) /\ IsList(D, rest)
        BY <2>1, <4>1, ChildrenAre
      <4> HIDE DEF D
      <4>3. IsList(D, ch \o rest)
        BY <4>2, ListsJoined
      <4> QED BY <4>1, <4>3
    <3> DEFINE past == Append(visited, id)
    <3> DEFINE passed == Append(seen, id)
    <3>4. /\ IsList(D, past) /\ Len(past) = Len(visited) + 1 /\ ToSet(past) = ToSet(visited) \cup {id}
          /\ \A n \in 1 .. Len(visited) : past[n] = visited[n]
      BY <1>1, <2>1, ListAppended
    <3>5. IsList(E, passed)
      BY <1>1, <1>3, <2>1, ListAppended
    <3>6. PutIn(past, passed, p, c)
      BY <1>3, <1>4, <2>1
    <3> HIDE DEF on, past, passed
    <3>7. p \in 0 .. Len(past) /\ a \in ToSet(past) \cup {Root}
      <4> HIDE DEF id, D, E, a
      <4> QED BY <1>1, <2>1, <3>4
    <3>8. AtPlace(past, p, a)
      BY <1>1, <3>4 DEF AtPlace
    <3>9. Stepped(atoms, w) = [todo |-> on, visited |-> past] /\ Stepped(new, y) = [todo |-> on, visited |-> passed]
      BY <3>1, <3>2 DEF on, past, passed
    <3> QED BY <3>3, <3>4, <3>5, <3>6, <3>7, <3>8, <3>9 DEF Tracked
  <2> QED BY <2>2, <2>3
<1> QED BY <1>5, <1>6

\* Up to the parent of the graft the walks are the same; behind it the new one takes
\* the graft as well.
LEMMA GraftMeets ==
  ASSUME NEW atoms, AtomMap(atoms), Rooted(atoms), NEW new, AtomMap(new), NEW c, Grafted(atoms, new, c),
         NEW w, Before(atoms, new[c].after, w)
  PROVE  \/ Before(atoms, new[c].after, Stepped(atoms, w)) /\ Stepped(new, w) = Stepped(atoms, w)
         \/ Tracked(atoms, new, c, Stepped(atoms, w), Stepped(new, Stepped(new, w)))
<1> DEFINE D == DOMAIN atoms
<1> DEFINE E == DOMAIN new
<1> DEFINE a == new[c].after
<1>1. PICK todo, visited :
         /\ w = [todo |-> todo, visited |-> visited]
         /\ IsList(D, todo) /\ IsList(D, visited) /\ a \notin ToSet(visited) \cup {Root}
  BY DEF Before
<1>2. w.todo = todo /\ w.visited = visited
  BY <1>1
<1>3. D \subseteq E /\ c \notin D /\ c \in E /\ Root \notin D
  BY GraftBelow DEF Grafted
<1>4. CASE todo = <<>>
  <2>1. Stepped(atoms, w) = w /\ Stepped(new, w) = w
    BY <1>2, <1>4 DEF Stepped
  <2> QED BY <2>1
<1>5. CASE todo # <<>>
  <2> DEFINE id == Head(todo)
  <2>1. id \in D /\ IsList(D, Tail(todo)) /\ Len(visited) \in Nat /\ ToSet(visited) \subseteq D
    BY <1>1, <1>5, ListFacts
  <2>2. CASE id \in ToSet(visited)
    <3>1. /\ Stepped(atoms, w) = [todo |-> Tail(todo), visited |-> visited]
          /\ Stepped(new, w) = [todo |-> Tail(todo), visited |-> visited]
      BY <1>1, <1>2, <1>5, <2>2 DEF Stepped
    <3> QED BY <1>1, <2>1, <3>1 DEF Before
  <2>3. CASE id \notin ToSet(visited)
    <3> DEFINE past == Append(visited, id)
    <3>1. /\ Stepped(atoms, w) = [todo |-> Children(atoms, id) \o Tail(todo), visited |-> past]
          /\ Stepped(new, w) = [todo |-> Children(new, id) \o Tail(todo), visited |-> past]
      BY <1>1, <1>2, <1>5, <2>3 DEF Stepped
    <3>2. PICK ch, rest : ch = Children(atoms, id) /\ rest = Tail(todo)
      OBVIOUS
    <3>3. IsList(D, ch) /\ IsList(D, rest)
      BY <2>1, <3>2, ChildrenAre
    <3>4. IsList(D, ch \o rest)
      <4> HIDE DEF D
      <4> QED BY <3>3, ListsJoined
    <3>5. /\ IsList(D, past) /\ Len(past) = Len(visited) + 1 /\ ToSet(past) = ToSet(visited) \cup {id}
          /\ past[Len(visited) + 1] = id
      BY <1>1, <2>1, ListAppended
    <3>6. CASE id # a
      <4>1. Children(new, id) = ch
        BY <2>1, <3>2, <3>6, GraftBelow
      <4>2. a \notin ToSet(past) \cup {Root}
        BY <1>1, <3>5, <3>6
      <4>3. Stepped(new, w) = Stepped(atoms, w)
        BY <3>1, <3>2, <4>1
      <4>4. Before(atoms, a, Stepped(atoms, w))
        <5> HIDE DEF past, D, a
        <5>1. Stepped(atoms, w) = [todo |-> ch \o rest, visited |-> past]
          BY <3>1, <3>2
        <5> QED BY <3>4, <3>5, <4>2, <5>1 DEF Before, D
      <4> QED BY <4>3, <4>4
    <3>7. CASE id = a
      <4>1. PICK more : more = Children(new, a)
        OBVIOUS
      <4>2. more # <<>> /\ Head(more) = c /\ Tail(more) = ch /\ Children(new, c) = <<>> /\ IsList(E, more)
        BY <3>2, <3>7, <4>1, GraftBelow, ChildrenAre
      <4>3. (more \o rest) # <<>> /\ Head(more \o rest) = c /\ Tail(more \o rest) = ch \o rest
        <5>1. more \in Seq(E) /\ rest \in Seq(E)
          BY <1>3, <3>3, <4>2 DEF IsList
        <5> HIDE DEF E
        <5>2. more \o rest \in Seq(E) /\ Len(more \o rest) = Len(more) + Len(rest)
          BY <5>1
        <5>3. Len(more) \in Nat \ {0} /\ Len(rest) \in Nat /\ Len(Tail(more)) = Len(more) - 1 /\ Tail(more) \in Seq(E)
          BY <4>2, <5>1
        <5>4. (more \o rest) # <<>> /\ Head(more \o rest) = c
          BY <4>2, <5>1, <5>2, <5>3
        <5>5. /\ Tail(more \o rest) \in Seq(E) /\ Tail(more) \o rest \in Seq(E)
              /\ Len(Tail(more \o rest)) = Len(more) + Len(rest) - 1
              /\ Len(Tail(more) \o rest) = Len(more) + Len(rest) - 1
          BY <5>1, <5>2, <5>3, <5>4
        <5>6. ASSUME NEW n \in 1 .. Len(more) + Len(rest) - 1
              PROVE  Tail(more \o rest)[n] = (Tail(more) \o rest)[n]
          <6>1. Tail(more \o rest)[n] = (more \o rest)[n + 1]
            BY <5>2, <5>3, <5>4
          <6>2. CASE n <= Len(more) - 1
            <7>1. (more \o rest)[n + 1] = more[n + 1]
              BY <5>1, <5>3, <6>2
            <7>2. (Tail(more) \o rest)[n] = Tail(more)[n]
              BY <5>1, <5>3, <6>2
            <7>3. Tail(more)[n] = more[n + 1]
              BY <4>2, <5>1, <5>3, <6>2
            <7> QED BY <6>1, <7>1, <7>2, <7>3
          <6>3. CASE n > Len(more) - 1
            <7>1. (more \o rest)[n + 1] = rest[n + 1 - Len(more)]
              BY <5>1, <5>3, <6>3
            <7>2. (Tail(more) \o rest)[n] = rest[n - (Len(more) - 1)]
              BY <5>1, <5>3, <6>3
            <7>3. n + 1 - Len(more) = n - (Len(more) - 1)
              BY <5>3
            <7> QED BY <6>1, <7>1, <7>2, <7>3
          <6> QED BY <5>3, <6>2, <6>3
        <5>7. Tail(more \o rest) = Tail(more) \o rest
          BY <5>3, <5>5, <5>6
        <5> QED BY <4>2, <5>4, <5>7
      <4> DEFINE x == [todo |-> more \o rest, visited |-> past]
      <4> DEFINE seen == Append(past, c)
      <4>4. Stepped(new, w) = x
        BY <3>1, <3>2, <3>7, <4>1
      <4>5. x.todo = more \o rest /\ x.visited = past
        OBVIOUS
      <4>6. c \notin ToSet(past)
        BY <1>3, <2>1, <3>5
      <4>7. Stepped(new, x) = [todo |-> <<>> \o (ch \o rest), visited |-> seen]
        <5> HIDE DEF x, past
        <5> QED BY <4>2, <4>3, <4>5, <4>6 DEF Stepped
      <4>8. <<>> \o (ch \o rest) = ch \o rest
        BY <3>4 DEF IsList
      <4>9. IsList(E, seen) /\ PutIn(past, seen, Len(visited) + 1, c)
        <5>1. IsList(E, past)
          BY <1>3, <3>5 DEF IsList
        <5>2. /\ IsList(E, seen) /\ Len(seen) = Len(past) + 1 /\ seen[Len(past) + 1] = c
              /\ \A n \in 1 .. Len(past) : seen[n] = past[n]
          <6> HIDE DEF past, E
          <6> QED BY <1>3, <5>1, ListAppended DEF E
        <5> HIDE DEF past, seen
        <5> QED BY <2>1, <3>5, <5>2 DEF PutIn
      <4>10. Len(visited) + 1 \in 0 .. Len(past) /\ AtPlace(past, Len(visited) + 1, a) /\ a \in ToSet(past)
        <5> HIDE DEF past, D, E
        <5>1. a # Root /\ Len(visited) + 1 # 0
          BY <1>1, <2>1
        <5> QED BY <2>1, <3>5, <3>7, <5>1 DEF AtPlace
      <4> HIDE DEF past, seen
      <4>11. Stepped(atoms, w) = [todo |-> ch \o rest, visited |-> past]
        BY <3>1, <3>2
      <4>12. Stepped(new, Stepped(new, w)) = [todo |-> ch \o rest, visited |-> seen]
        BY <4>4, <4>7, <4>8
      <4>13. Tracked(atoms, new, c, Stepped(atoms, w), Stepped(new, Stepped(new, w)))
        BY <3>4, <3>5, <4>9, <4>10, <4>11, <4>12 DEF Tracked
      <4> QED BY <4>13
    <3> QED BY <3>6, <3>7
  <2> QED BY <2>2, <2>3
<1> QED BY <1>4, <1>5
\* The new atom is shown directly behind its parent, and the others as before.
LEMMA TreeGrafted ==
  ASSUME NEW atoms, AtomMap(atoms), Rooted(atoms), NEW new, AtomMap(new), NEW c, Grafted(atoms, new, c)
  PROVE  /\ Rooted(new)
         /\ \E p \in 0 .. Len(TreeOrder(atoms)) :
              /\ AtPlace(TreeOrder(atoms), p, new[c].after)
              /\ PutIn(TreeOrder(atoms), TreeOrder(new), p, c)
<1> DEFINE D == DOMAIN atoms
<1> DEFINE E == DOMAIN new
<1> DEFINE a == new[c].after
<1>1. PICK start, more : start = Children(atoms, Root) /\ more = Children(new, Root)
  OBVIOUS
<1>2. PICK f, g : f = Walks(atoms, start, <<>>) /\ g = Walks(new, more, <<>>)
  OBVIOUS
<1>3. /\ Rooted(new) /\ E = D \cup {c} /\ c \notin D /\ Root \notin E /\ a \in D \cup {Root}
      /\ IsList(D, start) /\ IsList(E, more)
  BY <1>1, GraftBelow, ChildrenAre DEF Grafted
<1>4. Runs(f, atoms, start, <<>>) /\ Runs(g, new, more, <<>>)
  <2>1. start \in Seq(D) /\ <<>> \in Seq(D) /\ more \in Seq(E) /\ <<>> \in Seq(E)
    BY <1>3 DEF IsList
  <2> HIDE DEF D, E
  <2> QED BY <1>2, <2>1, WalksFacts DEF D, E
<1>5. /\ f[0] = [todo |-> start, visited |-> <<>>] /\ g[0] = [todo |-> more, visited |-> <<>>]
      /\ \A n \in Nat : f[n + 1] = Stepped(atoms, f[n]) /\ g[n + 1] = Stepped(new, g[n])
  BY <1>4 DEF Runs
<1> DEFINE k == Len(start) + Cardinality(D)
<1> DEFINE l == Len(more) + Cardinality(E)
<1>6. /\ k \in Nat /\ f[k].todo = <<>>
      /\ TreeOrder(atoms) = f[k].visited /\ TreeOrder(new) = g[l].visited
      /\ ToSet(f[k].visited) = D
  <2>1. k \in Nat /\ f[k].todo = <<>>
    BY <1>2, <1>3, WalkEnds
  <2>2. TreeOrder(atoms) = f[k].visited /\ TreeOrder(new) = g[l].visited
    BY <1>1, <1>2, <1>3, TreeWhole DEF Visit
  <2>3. ToSet(TreeOrder(atoms)) = D
    BY TreeWhole
  <2> QED BY <2>1, <2>2, <2>3
<1>7. IsList(D, <<>>) /\ IsList(E, <<>>) /\ ToSet(<<>>) = {} /\ Len(<<>>) = 0
  BY DEF IsList, ToSet
<1> DEFINE N == {n \in Nat : \/ Before(atoms, a, f[n]) /\ g[n] = f[n]
                             \/ Tracked(atoms, new, c, f[n], g[n + 1])}
<1>8. 0 \in N
  <2>1. CASE a = Root
    <3>1. more # <<>> /\ Head(more) = c /\ Tail(more) = start /\ Children(new, c) = <<>>
      BY <1>1, <2>1, GraftBelow
    <3>2. g[1] = Stepped(new, g[0])
      <4>1. 0 \in Nat /\ 0 + 1 = 1
        OBVIOUS
      <4> QED BY <1>5, <4>1
    <3>3. g[0].todo = more /\ g[0].visited = <<>>
      BY <1>5
    <3>4. g[1] = [todo |-> <<>> \o start, visited |-> Append(<<>>, c)]
      BY <1>7, <3>1, <3>2, <3>3 DEF Stepped
    <3>5. <<>> \o start = start
      BY <1>3 DEF IsList
    <3>6. PICK one : one = Append(<<>>, c)
      OBVIOUS
    <3>7. IsList(E, one) /\ Len(one) = 1 /\ one[1] = c
      BY <1>3, <3>6 DEF IsList
    <3>8. PutIn(<<>>, one, 0, c)
      BY <1>7, <3>7 DEF PutIn
    <3>9. AtPlace(<<>>, 0, a) /\ a \in ToSet(<<>>) \cup {Root} /\ 0 \in 0 .. Len(<<>>)
      BY <1>7, <2>1 DEF AtPlace
    <3>10. g[1] = [todo |-> start, visited |-> one]
      BY <3>4, <3>5, <3>6
    <3>11. Tracked(atoms, new, c, f[0], g[1])
      BY <1>3, <1>5, <1>7, <3>7, <3>8, <3>9, <3>10 DEF Tracked
    <3>12. 0 \in Nat /\ 0 + 1 = 1
      OBVIOUS
    <3> QED BY <3>11, <3>12
  <2>2. CASE a # Root
    <3>1. more = start
      BY <1>1, <2>2, GraftBelow
    <3>2. Before(atoms, a, f[0]) /\ g[0] = f[0]
      BY <1>3, <1>5, <1>7, <2>2, <3>1 DEF Before
    <3> QED BY <3>2
  <2> QED BY <2>1, <2>2
<1>9. ASSUME NEW n \in N PROVE n + 1 \in N
  <2>1. n \in Nat /\ n + 1 \in Nat
    OBVIOUS
  <2>2. /\ f[n + 1] = Stepped(atoms, f[n]) /\ g[n + 1] = Stepped(new, g[n])
        /\ g[(n + 1) + 1] = Stepped(new, g[n + 1])
    BY <1>5, <2>1
  <2>3. CASE Before(atoms, a, f[n]) /\ g[n] = f[n]
    <3>1. PICK w : w = f[n]
      OBVIOUS
    <3>2. \/ Before(atoms, a, Stepped(atoms, w)) /\ Stepped(new, w) = Stepped(atoms, w)
          \/ Tracked(atoms, new, c, Stepped(atoms, w), Stepped(new, Stepped(new, w)))
      BY <2>3, <3>1, GraftMeets
    <3> QED BY <2>1, <2>2, <2>3, <3>1, <3>2
  <2>4. CASE Tracked(atoms, new, c, f[n], g[n + 1])
    <3>1. PICK w, y : w = f[n] /\ y = g[n + 1]
      OBVIOUS
    <3>2. Tracked(atoms, new, c, Stepped(atoms, w), Stepped(new, y))
      BY <2>4, <3>1, GraftStays
    <3> QED BY <2>1, <2>2, <3>1, <3>2
  <2> QED BY <2>3, <2>4
<1>10. k \in N
  <2>1. N \subseteq Nat
    OBVIOUS
  <2> HIDE DEF N, k
  <2> QED BY <1>6, <1>8, <1>9, <2>1, AllNat
<1>11. Tracked(atoms, new, c, f[k], g[k + 1])
  <2>1. ~ Before(atoms, a, f[k])
    <3>1. ASSUME NEW todo, NEW visited, f[k] = [todo |-> todo, visited |-> visited] PROVE a \in ToSet(visited) \cup {Root}
      BY <1>3, <1>6, <3>1
    <3> HIDE DEF k, a
    <3> QED BY <3>1 DEF Before
  <2> QED BY <1>10, <2>1
<1>12. PICK visited, seen, p :
         /\ f[k].visited = visited /\ g[k + 1].todo = <<>> /\ g[k + 1].visited = seen
         /\ p \in 0 .. Len(visited) /\ PutIn(visited, seen, p, c) /\ AtPlace(visited, p, a)
  <2> HIDE DEF k
  <2>1. PICK todo, visited, seen, p :
         /\ f[k] = [todo |-> todo, visited |-> visited] /\ g[k + 1] = [todo |-> todo, visited |-> seen]
         /\ p \in 0 .. Len(visited) /\ PutIn(visited, seen, p, c) /\ AtPlace(visited, p, a)
    BY <1>11 DEF Tracked
  <2>2. f[k].todo = todo /\ f[k].visited = visited /\ g[k + 1].todo = todo /\ g[k + 1].visited = seen
    BY <2>1
  <2> QED BY <1>6, <2>1, <2>2 DEF k
<1>13. g[l] = g[k + 1]
  <2>1. Len(start) <= Len(more) /\ Len(start) \in Nat /\ Len(more) \in Nat
    <3>1. CASE a = Root
      <4>1. more # <<>> /\ Tail(more) = start
        BY <1>1, <3>1, GraftBelow
      <4> QED BY <1>3, <4>1, ListFacts
    <3>2. CASE a # Root
      <4>1. more = start
        BY <1>1, <3>2, GraftBelow
      <4> QED BY <1>3, <4>1, ListFacts
    <3> QED BY <3>1, <3>2
  <2>2. Cardinality(E) = Cardinality(D) + 1 /\ Cardinality(D) \in Nat
    BY <1>3, FS_AddElement, FS_CardinalityType DEF AtomMap
  <2>3. PICK m \in Nat : l = (k + 1) + m
    <3>1. Len(more) - Len(start) \in Nat /\ l = (k + 1) + (Len(more) - Len(start))
      <4> HIDE DEF D, E
      <4> QED BY <2>1, <2>2
    <3> QED BY <3>1
  <2>4. k + 1 \in Nat /\ g[k + 1].todo = <<>>
    BY <1>6, <1>12
  <2> HIDE DEF k, l
  <2>5. PICK i : i = k + 1
    OBVIOUS
  <2>6. g[i + m] = g[i]
    BY <1>4, <2>4, <2>5, WalkStops
  <2> QED BY <2>3, <2>5, <2>6
<1> QED BY <1>3, <1>6, <1>12, <1>13
-----------------------------------------------------------------------------
(* The atoms of a causally complete history. *)

\* No two insertions are of one atom.
Unique(ops) == \A a, b \in Insertions(ops) : a.edit.id = b.edit.id => a = b

\* What an insertion comes behind was inserted, and before it.
Parented(ops) ==
  \A op \in Insertions(ops) :
    \/ op.edit.after = Root
    \/ \E p \in Insertions(ops) : p.edit.id = op.edit.after /\ p.lamport < op.lamport

Coherent(ops) == OpSet(ops) /\ Founded(ops) /\ Unique(ops) /\ Parented(ops)

\* Without rivals an insertion makes the atom it says.
LEMMA LoneClaims ==
  ASSUME NEW F, NodeOps(F), NEW op \in Insertions(F), \A o \in Insertions(F) : o.edit.id = op.edit.id => o = op
  PROVE  Inserted(<<>>, F)[op.edit.id] = ClaimOf(op)
<1> DEFINE id == op.edit.id
<1>1. \A i : i \notin DOMAIN <<>>
  OBVIOUS
<1>2. id \in {o.edit.id : o \in Insertions(F)}
  OBVIOUS
<1>3. Inserted(<<>>, F) = [i \in {o.edit.id : o \in Insertions(F)} |-> Foremost(Claims(F, i))]
  BY <1>1 DEF Inserted
<1>4. Inserted(<<>>, F)[id] = Foremost(Claims(F, id))
  BY <1>2, <1>3
<1>5. Claims(F, id) = {ClaimOf(op)}
  BY DEF Claims, ClaimOf
<1>6. Claims(F, id) \in SUBSET Claim
  BY ClaimsFacts
<1>7. Foremost(Claims(F, id)) = ClaimOf(op)
  BY <1>5, <1>6, ForemostUnique
<1> QED BY <1>4, <1>7

\* The atoms are the insertions.
AtomsSay(ops, atoms) ==
  /\ DOMAIN atoms = {op.edit.id : op \in Insertions(ops)} /\ atoms = [id \in DOMAIN atoms |-> atoms[id]]
  /\ \A op \in Insertions(ops) :
       /\ op.edit.id \in DOMAIN atoms
       /\ atoms[op.edit.id].after = op.edit.after /\ atoms[op.edit.id].text = op.edit.text
       /\ atoms[op.edit.id].key = <<op.origin, Normal(op.origin, op.seq, BasesOf(ops))>>

\* A coherent history is applied whole: its atoms are its insertions.
LEMMA AtomsOf ==
  ASSUME NEW ops, Coherent(ops), NEW A, A = Assembled(ops).atoms
  PROVE  /\ AtomMap(A) /\ Rooted(A)
         /\ AtomsSay(ops, A) /\ Assembled(ops).elements = Elements(A, Deleted(ops))
<1> DEFINE F == Given(ops)
<1> DEFINE bases == BasesOf(ops)
<1> DEFINE Form(op) == Normalized(op, bases)
<1>1. OpSet(ops) /\ Founded(ops) /\ Unique(ops) /\ Parented(ops)
  BY DEF Coherent
<1>2. NodeOps(F) /\ F = {Form(op) : op \in ops}
  BY <1>1, GivenFacts DEF Given, NormalizedAll
<1>3. \A op \in ops : Form(op).edit = op.edit /\ Form(op).origin = op.origin
                      /\ Form(op).seq = Normal(op.origin, op.seq, bases)
  BY DEF Normalized
<1>4. Applied(ops) = F
  <2>1. Applied(ops) \subseteq F
    <3>1. {} \subseteq F /\ F \subseteq F
      OBVIOUS
    <3>2. LET G == Settle({}, F).applied IN G \subseteq F /\ Dense(G) /\ Ready(G, F) = {}
      BY <1>2, SettledFromNone
    <3> QED BY <3>2 DEF Applied
  <2> QED BY <1>1, <2>1, FoundedApplies
<1>5. A = Inserted(<<>>, F) /\ Assembled(ops).deleted = Deleted(F)
      /\ Assembled(ops).elements = Elements(Inserted(<<>>, F), Deleted(F))
  BY <1>4 DEF Assembled
<1> HIDE DEF F, Form
<1>6. AtomMap(A)
  BY <1>2, <1>5, AtomsTyped DEF AtomMap
<1>7. /\ Insertions(F) = {Form(op) : op \in Insertions(ops)}
      /\ {o.edit.id : o \in Insertions(F)} = {op.edit.id : op \in Insertions(ops)}
      /\ Deleted(F) = Deleted(ops)
  <2>1. Insertions(F) = {Form(op) : op \in Insertions(ops)}
    BY <1>2, <1>3 DEF Insertions
  <2>2. \A op \in Insertions(ops) : Form(op).edit = op.edit
    BY <1>3 DEF Insertions
  <2>3. {o.edit.id : o \in Insertions(F)} = {op.edit.id : op \in Insertions(ops)}
    BY <2>1, <2>2
  <2>4. Deleted(F) = Deleted(ops)
    BY <1>2, <1>3 DEF Deleted
  <2> QED BY <2>1, <2>3, <2>4
<1>8. DOMAIN A = {op.edit.id : op \in Insertions(ops)} /\ A = [id \in DOMAIN A |-> A[id]]
  <2>1. \A i : i \notin DOMAIN <<>>
    OBVIOUS
  <2>2. Inserted(<<>>, F) = [i \in {o.edit.id : o \in Insertions(F)} |-> Foremost(Claims(F, i))]
    BY <2>1 DEF Inserted
  <2> QED BY <1>5, <1>7, <2>2
<1>9. ASSUME NEW op \in Insertions(ops)
      PROVE  /\ A[op.edit.id].after = op.edit.after /\ A[op.edit.id].text = op.edit.text
             /\ A[op.edit.id].key = <<op.origin, Normal(op.origin, op.seq, bases)>>
  <2>1. op \in ops
    BY DEF Insertions
  <2>2. Form(op) \in Insertions(F) /\ Form(op).edit = op.edit
    BY <1>3, <1>7, <2>1
  <2>3. ASSUME NEW o \in Insertions(F), o.edit.id = Form(op).edit.id PROVE o = Form(op)
    <3>1. PICK b \in Insertions(ops) : o = Form(b)
      BY <1>7
    <3>2. b.edit.id = op.edit.id
      BY <1>3, <2>2, <2>3, <3>1 DEF Insertions
    <3>3. b = op
      BY <1>1, <3>2 DEF Unique
    <3> QED BY <3>1, <3>3
  <2>4. PICK n : n = Form(op)
    OBVIOUS
  <2>5. Inserted(<<>>, F)[n.edit.id] = ClaimOf(n)
    BY <1>2, <2>2, <2>3, <2>4, LoneClaims
  <2>6. A[op.edit.id] = ClaimOf(n)
    BY <1>5, <2>2, <2>4, <2>5
  <2> QED BY <1>3, <2>1, <2>2, <2>4, <2>6 DEF ClaimOf
<1>10. Rooted(A)
  <2> DEFINE Of1(id) == CHOOSE op \in Insertions(ops) : op.edit.id = id
  <2>1. \A op \in Insertions(ops) : Of1(op.edit.id) = op
    BY <1>1 DEF Unique
  <2>2. \A op \in Insertions(ops) : op.lamport \in Nat
    BY <1>1 DEF OpSet, IsOp, Insertions
  <2> DEFINE age == [id \in DOMAIN A |-> Of1(id).lamport]
  <2> HIDE DEF Of1
  <2>3. \A op \in Insertions(ops) : age[op.edit.id] = op.lamport
    BY <1>8, <2>1
  <2>4. age \in [DOMAIN A -> Nat]
    BY <1>8, <2>1, <2>2
  <2>5. ASSUME NEW id \in DOMAIN A
        PROVE  A[id].after = Root \/ (A[id].after \in DOMAIN A /\ age[A[id].after] < age[id])
    <3>1. PICK op \in Insertions(ops) : id = op.edit.id
      BY <1>8
    <3>2. A[id].after = op.edit.after
      BY <1>9, <3>1
    <3>3. CASE op.edit.after # Root
      <4>1. PICK p \in Insertions(ops) : p.edit.id = op.edit.after /\ p.lamport < op.lamport
        BY <1>1, <3>3 DEF Parented
      <4> HIDE DEF age
      <4> QED BY <1>8, <2>3, <3>1, <3>2, <4>1
    <3> QED BY <3>2, <3>3
  <2> HIDE DEF age
  <2> QED BY <2>4, <2>5 DEF Rooted
<1>11. AtomsSay(ops, A)
  BY <1>8, <1>9 DEF AtomsSay, bases
<1> QED BY <1>5, <1>6, <1>7, <1>10, <1>11
\* A part of a history that holds, with an operation, all before it by its writer.
DownIn(H, W) == H \subseteq W /\ \A op \in H, o \in W : o.origin = op.origin /\ o.seq < op.seq => o \in H

\* Such a part counts the operations it holds as the whole does.
LEMMA KeysStay ==
  ASSUME NEW W, OpSet(W), NEW H, DownIn(H, W), NEW op \in H
  PROVE  Normal(op.origin, op.seq, BasesOf(H)) = Normal(op.origin, op.seq, BasesOf(W))
<1> DEFINE o == op.origin
<1> DEFINE S == SeqsOf(H, o)
<1> DEFINE T == SeqsOf(W, o)
<1>1. /\ H \subseteq W /\ op.seq \in S /\ S \subseteq T /\ o \in Origins
      /\ \A w \in W : w.seq \in Nat
  BY DEF DownIn, SeqsOf, Of, OpSet, IsOp
<1>2. T \subseteq Nat
  BY <1>1 DEF SeqsOf, Of
<1>3. \A n \in T : n < op.seq => n \in S
  BY DEF DownIn, SeqsOf, Of
<1>4. BasesOf(H)[o] = Min(S) /\ BasesOf(W)[o] = Min(T)
  BY <1>1 DEF BasesOf
<1> HIDE DEF S, T
<1>5. Min(S) \in S /\ Min(T) \in T /\ (\A n \in S : Min(S) <= n) /\ \A n \in T : Min(T) <= n
  BY <1>1, <1>2, MinNat
<1>6. Min(T) \in S
  <2>1. Min(T) <= op.seq /\ Min(T) \in Nat /\ op.seq \in Nat
    BY <1>1, <1>2, <1>5
  <2>2. Min(T) < op.seq \/ Min(T) = op.seq
    BY <2>1
  <2> QED BY <1>1, <1>3, <1>5, <2>2
<1>7. Min(S) = Min(T)
  <2>1. Min(S) <= Min(T) /\ Min(T) <= Min(S) /\ Min(S) \in Nat /\ Min(T) \in Nat
    BY <1>1, <1>2, <1>5, <1>6
  <2> QED BY <2>1
<1> QED BY <1>4, <1>7 DEF Normal

\* A list with the first k of others put in after its first p.
Spliced(s, t, p, c, k) ==
  /\ Len(t) = Len(s) + k
  /\ \A n \in 1 .. p : t[n] = s[n]
  /\ \A n \in 1 .. k : t[p + n] = c[n]
  /\ \A n \in p + 1 .. Len(s) : t[k + n] = s[n]

\* A chain of new atoms, the first behind `a`, each other behind the one before it.
Chained(atoms, new, c, a) ==
  /\ IsList(AtomId, c) /\ OneEach(c) /\ ToSet(c) \cap DOMAIN atoms = {}
  /\ DOMAIN new = DOMAIN atoms \cup ToSet(c)
  /\ atoms = [id \in DOMAIN atoms |-> new[id]] /\ new = [id \in DOMAIN new |-> new[id]]
  /\ a \in DOMAIN atoms \cup {Root}
  /\ \A k \in 1 .. Len(c) : /\ new[c[k]].after = IF k = 1 THEN a ELSE c[k - 1]
                            /\ \A id \in DOMAIN atoms : IdBefore(c[k], id)

\* A chain of new atoms comes into the order in one piece, right behind its parent.
LEMMA TreeChained ==
  ASSUME NEW atoms, AtomMap(atoms), Rooted(atoms), NEW new, AtomMap(new), NEW c, NEW a, Chained(atoms, new, c, a)
  PROVE  \E p \in 0 .. Len(TreeOrder(atoms)) :
           AtPlace(TreeOrder(atoms), p, a) /\ Spliced(TreeOrder(atoms), TreeOrder(new), p, c, Len(c))
<1> DEFINE D == DOMAIN atoms
<1> DEFINE Upto(k) == [id \in D \cup {c[j] : j \in 1 .. k} |-> new[id]]
<1>1. /\ IsList(AtomId, c) /\ OneEach(c) /\ ToSet(c) \cap D = {} /\ DOMAIN new = D \cup ToSet(c)
      /\ atoms = [id \in D |-> new[id]] /\ new = [id \in DOMAIN new |-> new[id]]
      /\ a \in D \cup {Root}
      /\ \A k \in 1 .. Len(c) : /\ new[c[k]].after = IF k = 1 THEN a ELSE c[k - 1]
                                /\ \A id \in D : IdBefore(c[k], id)
  BY DEF Chained
<1>2. Len(c) \in Nat /\ ToSet(c) = {c[k] : k \in 1 .. Len(c)} /\ \A k \in 1 .. Len(c) : c[k] \in AtomId
  <2>1. IsList(AtomId, c)
    BY <1>1
  <2> QED BY <2>1, ListFacts
<1>3. \A id \in D : atoms[id].after \in D \cup {Root}
  BY DEF Rooted
<1>4. Root \notin D /\ Root \notin AtomId
  BY DEF AtomMap, AtomId, Root
<1>5. ASSUME NEW k \in 0 .. Len(c) PROVE AtomMap(Upto(k))
  <2>1. D \cup {c[j] : j \in 1 .. k} \subseteq DOMAIN new
    BY <1>1, <1>2
  <2> QED BY <2>1, FS_Subset DEF AtomMap
<1>6. Upto(0) = atoms
  <2>1. D \cup {c[j] : j \in 1 .. 0} = D
    OBVIOUS
  <2>2. atoms = [id \in D |-> new[id]]
    BY <1>1
  <2> QED BY <2>1, <2>2
<1>7. Upto(Len(c)) = new
  <2>1. D \cup {c[j] : j \in 1 .. Len(c)} = DOMAIN new
    BY <1>1, <1>2
  <2>2. new = [id \in DOMAIN new |-> new[id]]
    BY <1>1
  <2> QED BY <2>1, <2>2
<1>8. ASSUME NEW k \in 0 .. Len(c) - 1
      PROVE  Grafted(Upto(k), Upto(k + 1), c[k + 1]) /\ Upto(k + 1)[c[k + 1]].after = IF k = 0 THEN a ELSE c[k]
  <2>1. k + 1 \in 1 .. Len(c) /\ (\A j \in 1 .. k : j \in 1 .. Len(c)) /\ (\A j \in 1 .. k + 1 : j \in 1 .. k \/ j = k + 1)
        /\ (k + 1) - 1 = k /\ (k + 1 = 1 <=> k = 0) /\ (k # 0 => k \in 1 .. k)
        /\ (\A j \in 1 .. k : j \in 1 .. k + 1 /\ j # k + 1) /\ k + 1 \in 1 .. k + 1
    BY <1>2
  <2> DEFINE x == c[k + 1]
  <2> DEFINE E == D \cup {c[j] : j \in 1 .. k}
  <2>2. E \cup {x} = D \cup {c[j] : j \in 1 .. k + 1}
    BY <2>1
  <2>3. x \notin E
    <3>1. x \notin D
      BY <1>1, <1>2, <2>1
    <3>2. \A j \in 1 .. k : c[j] # x
      BY <1>1, <2>1 DEF OneEach
    <3> QED BY <3>1, <3>2
  <2>4. /\ DOMAIN Upto(k) = E /\ DOMAIN Upto(k + 1) = E \cup {x}
        /\ \A id \in E : Upto(k)[id] = new[id]
        /\ \A id \in E \cup {x} : Upto(k + 1)[id] = new[id]
    BY <2>2
  <2>5. Upto(k + 1)[x].after = IF k = 0 THEN a ELSE c[k]
    BY <1>1, <2>1, <2>4
  <2>6. (IF k = 0 THEN a ELSE c[k]) \in E \cup {Root}
    BY <1>1, <2>1
  <2>7. ASSUME NEW id \in Below(Upto(k), IF k = 0 THEN a ELSE c[k]) PROVE IdBefore(x, id)
    <3>1. id \in E /\ new[id].after = IF k = 0 THEN a ELSE c[k]
      BY <2>4 DEF Below
    <3>2. CASE id \in D
      BY <1>1, <2>1, <3>2
    <3>3. CASE id \notin D
      <4>1. PICK j \in 1 .. k : id = c[j]
        BY <3>1, <3>3
      <4>2. k # 0 /\ j \in 1 .. Len(c) /\ k \in 1 .. Len(c) /\ (j # 1 => j - 1 \in 1 .. Len(c) /\ j - 1 # k)
        BY <1>2, <2>1
      <4>3. c[k] = IF j = 1 THEN a ELSE c[j - 1]
        BY <1>1, <3>1, <4>1, <4>2
      <4>4. c[k] \notin D \cup {Root}
        BY <1>1, <1>2, <1>4, <4>2
      <4>5. j # 1
        BY <1>1, <4>3, <4>4
      <4>6. k = j - 1
        BY <1>1, <4>2, <4>3, <4>5 DEF OneEach
      <4> QED BY <4>2, <4>5, <4>6
    <3> QED BY <3>2, <3>3
  <2> HIDE DEF E, x, Upto
  <2>8. Grafted(Upto(k), Upto(k + 1), x)
    BY <2>3, <2>4, <2>5, <2>6, <2>7 DEF Grafted
  <2> QED BY <2>5, <2>8 DEF x
<1> DEFINE order == TreeOrder(atoms)
<1>9. IsList(D, order) /\ OneEach(order) /\ ToSet(order) = D /\ Len(order) \in Nat /\ ToSet(order) = {order[n] : n \in 1 .. Len(order)}
  BY TreeWhole, ListFacts
<1> HIDE DEF Upto, order
<1>10. PICK p \in 0 .. Len(order) : AtPlace(order, p, a)
  <2>1. CASE a = Root
    BY <1>9, <2>1 DEF AtPlace
  <2>2. CASE a # Root
    <3>1. a \in D
      BY <1>1, <2>2
    <3>2. PICK n \in 1 .. Len(order) : order[n] = a
      BY <1>9, <3>1
    <3> QED BY <1>9, <2>2, <3>2 DEF AtPlace
  <2> QED BY <2>1, <2>2
<1> DEFINE N == {k \in Nat : Rooted(Upto(k)) /\ Spliced(order, TreeOrder(Upto(k)), p, c, k)}
<1>11. 0 \in N
  <2>1. Spliced(order, order, p, c, 0)
    BY <1>9 DEF Spliced
  <2> QED BY <1>6, <2>1 DEF order
<1>12. ASSUME NEW k \in 0 .. Len(c) - 1, k \in N PROVE k + 1 \in N
  <2>0. k \in Nat /\ k \in 0 .. Len(c) /\ k + 1 \in 0 .. Len(c) /\ k + 1 \in Nat /\ p \in Nat
    BY <1>2
  <2>1. PICK x, y, z : x = Upto(k) /\ y = Upto(k + 1) /\ z = c[k + 1]
    OBVIOUS
  <2>2. AtomMap(x) /\ Rooted(x) /\ AtomMap(y) /\ Grafted(x, y, z) /\ y[z].after = IF k = 0 THEN a ELSE c[k]
    BY <1>5, <1>8, <1>12, <2>0, <2>1
  <2>3. PICK q \in 0 .. Len(TreeOrder(x)) : AtPlace(TreeOrder(x), q, y[z].after) /\ PutIn(TreeOrder(x), TreeOrder(y), q, z)
    BY <2>2, TreeGrafted
  <2>4. Rooted(y)
    BY <2>2, TreeGrafted
  <2> DEFINE s == TreeOrder(x)
  <2> DEFINE t == TreeOrder(y)
  <2>5. IsList(DOMAIN x, s) /\ OneEach(s)
    BY <2>2, TreeWhole
  <2>6. Spliced(order, s, p, c, k)
    BY <1>12, <2>1
  <2> HIDE DEF s, t
  <2>7. /\ Len(s) = Len(order) + k /\ (\A n \in 1 .. p : s[n] = order[n])
        /\ (\A n \in 1 .. k : s[p + n] = c[n]) /\ \A n \in p + 1 .. Len(order) : s[k + n] = order[n]
    BY <2>6 DEF Spliced
  <2>8. q = p + k
    <3>1. CASE k = 0 /\ a = Root
      BY <1>10, <2>2, <2>3, <3>1 DEF AtPlace, s
    <3>2. CASE k = 0 /\ a # Root
      <4>1. p # 0 /\ order[p] = a /\ q # 0 /\ s[q] = a
        BY <1>10, <2>2, <2>3, <3>2 DEF AtPlace, s
      <4>2. p \in 1 .. p /\ p \in 1 .. Len(s) /\ q \in 1 .. Len(s)
        BY <1>9, <2>0, <2>3, <2>7, <3>2, <4>1 DEF s
      <4>3. s[p] = a
        BY <2>7, <4>1, <4>2
      <4>4. q = p
        BY <2>5, <4>1, <4>2, <4>3 DEF OneEach
      <4> QED BY <2>0, <3>2, <4>4
    <3>3. CASE k # 0
      <4>1. k \in 1 .. k /\ k \in 1 .. Len(c)
        BY <2>0, <3>3
      <4>2. c[k] # Root
        BY <1>2, <1>4, <4>1
      <4>3. q # 0 /\ s[q] = c[k]
        BY <2>2, <2>3, <3>3, <4>2 DEF AtPlace, s
      <4>4. s[p + k] = c[k] /\ p + k \in 1 .. Len(s) /\ q \in 1 .. Len(s)
        <5>1. s[p + k] = c[k]
          BY <2>7, <4>1
        <5>2. q \in 0 .. Len(s)
          BY <2>3 DEF s
        <5> QED BY <1>9, <2>0, <2>7, <3>3, <4>3, <5>1, <5>2
      <4> QED BY <2>5, <4>3, <4>4 DEF OneEach
    <3> QED BY <3>1, <3>2, <3>3
  <2>9. /\ Len(t) = Len(s) + 1 /\ t[q + 1] = z
        /\ (\A n \in 1 .. q : t[n] = s[n])
        /\ \A n \in q + 1 .. Len(s) : t[n + 1] = s[n]
    BY <2>3 DEF PutIn, s, t
  <2>10. Spliced(order, t, p, c, k + 1)
    <3>1. Len(t) = Len(order) + (k + 1)
      BY <1>9, <2>0, <2>7, <2>9
    <3>2. ASSUME NEW n \in 1 .. p PROVE t[n] = order[n]
      <4>1. n \in 1 .. q
        BY <2>0, <2>8
      <4> QED BY <2>7, <2>9, <4>1
    <3>3. ASSUME NEW n \in 1 .. k + 1 PROVE t[p + n] = c[n]
      <4>1. CASE n = k + 1
        <5>1. p + n = q + 1
          BY <2>0, <2>8, <4>1
        <5> QED BY <2>1, <2>9, <4>1, <5>1
      <4>2. CASE n # k + 1
        <5>1. n \in 1 .. k /\ p + n \in 1 .. q
          BY <2>0, <2>8, <4>2
        <5> QED BY <2>7, <2>9, <5>1
      <4> QED BY <4>1, <4>2
    <3>4. ASSUME NEW n \in p + 1 .. Len(order) PROVE t[(k + 1) + n] = order[n]
      <4>1. k + n \in q + 1 .. Len(s) /\ (k + n) + 1 = (k + 1) + n
        BY <1>9, <2>0, <2>7, <2>8
      <4> QED BY <2>7, <2>9, <4>1
    <3> QED BY <3>1, <3>2, <3>3, <3>4 DEF Spliced
  <2> QED BY <2>0, <2>1, <2>4, <2>10 DEF t
<1>13. Len(c) \in N
  <2> HIDE DEF N
  <2>1. \A k \in 0 .. Len(c) : k \in N
    BY <1>2, <1>11, <1>12, AllUpto
  <2> QED BY <1>2, <2>1
<1> QED BY <1>7, <1>10, <1>13 DEF order
-----------------------------------------------------------------------------
(* The text that elements show. *)

\* How many elements are shown up to each.
Counts(elements, at) ==
  /\ at \in [0 .. Len(elements) -> 0 .. Len(Visible(elements))]
  /\ at[0] = 0 /\ at[Len(elements)] = Len(Visible(elements))
  /\ \A n \in 0 .. Len(elements) - 1 :
       IF elements[n + 1].deleted THEN at[n + 1] = at[n]
       ELSE at[n + 1] = at[n] + 1 /\ Visible(elements)[at[n + 1]] = elements[n + 1]
  /\ \A k \in 1 .. Len(Visible(elements)) : \E n \in 1 .. Len(elements) : ~ elements[n].deleted /\ at[n] = k
  /\ \A m, n \in 0 .. Len(elements) : m <= n => at[m] <= at[n]

\* Each element can be given the number of visible ones up to it.
LEMMA CountsExist ==
  ASSUME NEW elements, ElementList(elements)
  PROVE  \E at : Counts(elements, at)
<1> DEFINE N == Len(elements)
<1> DEFINE shown == {n \in 1 .. N : ~ elements[n].deleted}
<1> DEFINE Upto(n) == {m \in shown : m <= n}
<1> DEFINE at == [n \in 0 .. N |-> Cardinality(Upto(n))]
<1> DEFINE At(k) == CHOOSE n \in shown : Cardinality(Upto(n)) = k
<1>1. N \in Nat /\ DOMAIN elements = 1 .. N
  <2> HIDE DEF Element
  <2> QED BY DEF ElementList
<1>2. Visible(elements) = [k \in 1 .. Cardinality(shown) |-> elements[At(k)]]
  BY <1>1 DEF Visible
<1> HIDE DEF N
<1>3. shown \in SUBSET Nat /\ IsFiniteSet(shown) /\ shown \subseteq 1 .. N
  <2>1. IsFiniteSet(1 .. N) /\ 1 .. N \subseteq Nat
    BY <1>1, FS_Interval
  <2>2. shown \subseteq 1 .. N
    OBVIOUS
  <2> HIDE DEF shown
  <2> QED BY <2>1, <2>2, FS_Subset
<1>4. \A n \in 1 .. N : n \in shown <=> ~ elements[n].deleted
  OBVIOUS
<1> HIDE DEF shown
<1>5. /\ Cardinality(shown) \in Nat
      /\ \A i \in shown : Cardinality(Upto(i)) \in 1 .. Cardinality(shown)
      /\ \A i, k \in shown : Cardinality(Upto(i)) = Cardinality(Upto(k)) => i = k
      /\ \A n \in 1 .. Cardinality(shown) : \E i \in shown : Cardinality(Upto(i)) = n
  BY <1>3, CountedOut
<1>6. /\ \A n : IsFiniteSet(Upto(n)) /\ Cardinality(Upto(n)) \in 0 .. Cardinality(shown)
      /\ \A m, n \in 0 .. N : m <= n => Cardinality(Upto(m)) <= Cardinality(Upto(n))
  <2>1. ASSUME NEW n PROVE IsFiniteSet(Upto(n)) /\ Cardinality(Upto(n)) \in 0 .. Cardinality(shown)
    <3>1. Upto(n) \in SUBSET shown
      OBVIOUS
    <3>2. PICK U : U = Upto(n)
      OBVIOUS
    <3>3. IsFiniteSet(U) /\ Cardinality(U) <= Cardinality(shown) /\ Cardinality(U) \in Nat
      BY <1>3, <3>1, <3>2, FS_Subset, FS_CardinalityType
    <3> HIDE DEF Upto
    <3> QED BY <1>5, <3>2, <3>3
  <2>2. ASSUME NEW m \in 0 .. N, NEW n \in 0 .. N, m <= n PROVE Cardinality(Upto(m)) <= Cardinality(Upto(n))
    <3>1. Upto(m) \in SUBSET Upto(n)
      <4>1. \A x \in shown : x \in Nat
        BY <1>3
      <4>2. \A x \in Nat : x <= m => x <= n
        BY <1>1, <2>2
      <4> QED BY <4>1, <4>2
    <3> HIDE DEF Upto
    <3> QED BY <2>1, <3>1, FS_Subset
  <2> QED BY <2>1, <2>2
<1>7. Upto(0) = {} /\ Upto(N) = shown
  <2>1. \A x \in shown : x \in 1 .. N
    BY <1>3
  <2>2. \A x \in 1 .. N : ~ (x <= 0) /\ x <= N
    BY <1>1
  <2> QED BY <2>1, <2>2
<1>8. ASSUME NEW n \in 0 .. N - 1
      PROVE  Upto(n + 1) = IF n + 1 \in shown THEN Upto(n) \cup {n + 1} ELSE Upto(n)
  <2>1. \A m \in 1 .. N : m <= n + 1 <=> m <= n \/ m = n + 1
    BY <1>1
  <2> QED BY <1>3, <2>1
<1>9. \A n \in 0 .. N - 1 : n + 1 \notin Upto(n)
  BY <1>1
<1>10. Len(Visible(elements)) = Cardinality(shown)
  <2> HIDE DEF At, Upto
  <2> QED BY <1>2, <1>5
<1>11. \A n \in shown : At(Cardinality(Upto(n))) = n
  BY <1>5
<1>12. \A n \in shown : Visible(elements)[Cardinality(Upto(n))] = elements[n]
  <2> HIDE DEF At, Upto
  <2> QED BY <1>2, <1>5, <1>11
<1> HIDE DEF Upto, At
<1>13. \A n \in 0 .. N : at[n] = Cardinality(Upto(n))
  OBVIOUS
<1>14. at \in [0 .. N -> 0 .. Cardinality(shown)]
  BY <1>6
<1> HIDE DEF at
<1>15. at[0] = 0 /\ at[N] = Cardinality(shown)
  BY <1>1, <1>7, <1>13, FS_EmptySet
<1>16. ASSUME NEW n \in 0 .. N - 1
       PROVE  IF elements[n + 1].deleted THEN at[n + 1] = at[n]
              ELSE at[n + 1] = at[n] + 1 /\ Visible(elements)[at[n + 1]] = elements[n + 1]
  <2>1. n \in 0 .. N /\ n + 1 \in 0 .. N /\ n + 1 \in 1 .. N
    BY <1>1
  <2>2. CASE elements[n + 1].deleted
    <3>1. Upto(n + 1) = Upto(n)
      BY <1>4, <1>8, <2>1, <2>2
    <3> QED BY <1>13, <2>1, <2>2, <3>1
  <2>3. CASE ~ elements[n + 1].deleted
    <3>1. n + 1 \in shown /\ Upto(n + 1) = Upto(n) \cup {n + 1}
      BY <1>4, <1>8, <2>1, <2>3
    <3>2. Cardinality(Upto(n + 1)) = Cardinality(Upto(n)) + 1
      BY <1>6, <1>9, <3>1, FS_AddElement
    <3> QED BY <1>12, <1>13, <2>1, <2>3, <3>1, <3>2
  <2> QED BY <2>2, <2>3
<1>17. ASSUME NEW k \in 1 .. Cardinality(shown) PROVE \E n \in 1 .. N : ~ elements[n].deleted /\ at[n] = k
  <2>1. PICK n \in shown : Cardinality(Upto(n)) = k
    BY <1>5
  <2>2. n \in 1 .. N /\ n \in 0 .. N
    BY <1>1, <1>3
  <2> QED BY <1>4, <1>13, <2>1, <2>2
<1>18. \A m, n \in 0 .. N : m <= n => at[m] <= at[n]
  BY <1>6, <1>13
<1>19. Counts(elements, at)
  BY <1>10, <1>14, <1>15, <1>16, <1>17, <1>18 DEF Counts, N
<1> QED BY <1>19

\* The text that is shown up to each element.
ShownUpto(elements, f) ==
  /\ f[0] = <<>>
  /\ \A n \in 0 .. Len(elements) : f[n] \in Seq(Nat)
  /\ \A n \in 0 .. Len(elements) - 1 :
       f[n + 1] = IF elements[n + 1].deleted THEN f[n] ELSE f[n] \o elements[n + 1].text

\* The text of the first n elements ends where the last visible one of them does.
LEMMA TextsOf ==
  ASSUME NEW elements, ElementList(elements), NEW at, Counts(elements, at)
  PROVE  \E f : /\ ShownUpto(elements, f) /\ TextOf(elements) = f[Len(elements)]
                /\ \A n \in 0 .. Len(elements) : Len(f[n]) = EndAt(Visible(elements), at[n])
<1> DEFINE N == Len(elements)
<1>1. PICK shown : shown = Visible(elements)
  OBVIOUS
<1> DEFINE k == Len(shown)
<1>2. ElementList(shown)
  BY <1>1, VisibleTyped DEF ElementList
<1>3. k \in Nat /\ DOMAIN shown = 1 .. k /\ N \in Nat
  <2> HIDE DEF Element
  <2> QED BY <1>2 DEF ElementList
<1> DEFINE ss == [m \in 1 .. k |-> shown[m].text]
<1>4. TextList(ss) /\ Len(ss) = k /\ \A m \in 1 .. k : ss[m] = shown[m].text
  <2>1. \A e \in Element : e.text \in Seq(Nat)
    BY DEF Element
  <2>2. \A m \in 1 .. k : shown[m] \in Element
    <3> HIDE DEF Element
    <3> QED BY <1>2 DEF ElementList
  <2>3. \A m \in 1 .. k : shown[m].text \in Seq(Nat)
    BY <2>1, <2>2
  <2> HIDE DEF k
  <2> QED BY <1>3, <2>3 DEF TextList
<1>5. TextOf(elements) = FlattenSeq(ss)
  BY <1>1, <1>3 DEF TextOf
<1>6. ASSUME NEW n \in 0 .. k PROVE EndAt(shown, n) = Len(FlattenSeq([m \in 1 .. n |-> ss[m]]))
  <2>1. \A m \in 1 .. n : m \in 1 .. k
    BY <1>3
  <2>2. [m \in 1 .. n |-> ss[m]] = [m \in 1 .. n |-> shown[m].text]
    BY <2>1, <1>4
  <2> HIDE DEF ss
  <2> QED BY <2>2 DEF EndAt
<1> HIDE DEF ss
<1>7. PICK g : Joined(ss, g)
  BY <1>4, JoinedExists
<1>8. /\ g \in [Nat -> Seq(Nat)] /\ g[0] = <<>>
      /\ \A n \in 0 .. k - 1 : g[n + 1] = g[n] \o shown[n + 1].text
  <2>1. \A n \in 0 .. k - 1 : n + 1 \in 1 .. k
    BY <1>3
  <2> QED BY <1>4, <1>7, <2>1 DEF Joined
<1>9. \A n \in 0 .. k : EndAt(shown, n) = Len(g[n])
  <2>1. ASSUME NEW n \in 0 .. k PROVE EndAt(shown, n) = Len(g[n])
    <3>1. FlattenSeq([m \in 1 .. n |-> ss[m]]) = g[n]
      BY <1>4, <1>7, JoinedPart
    <3> QED BY <1>6, <3>1
  <2> QED BY <2>1
<1>10. TextOf(elements) = g[k]
  BY <1>4, <1>5, <1>7, FlattenIs
<1> HIDE DEF N, k
<1>11. /\ at \in [0 .. N -> 0 .. k] /\ at[0] = 0 /\ at[N] = k
       /\ \A n \in 0 .. N - 1 :
            IF elements[n + 1].deleted THEN at[n + 1] = at[n]
            ELSE at[n + 1] = at[n] + 1 /\ shown[at[n + 1]] = elements[n + 1]
  BY <1>1 DEF Counts, N, k
<1> DEFINE f == [n \in 0 .. N |-> g[at[n]]]
<1>12. \A n \in 0 .. N : f[n] = g[at[n]] /\ at[n] \in 0 .. k /\ at[n] \in Nat
  BY <1>3, <1>11
<1>13. 0 \in 0 .. N /\ N \in 0 .. N
  BY <1>3
<1> HIDE DEF f
<1>14. ASSUME NEW n \in 0 .. N - 1
       PROVE  f[n + 1] = IF elements[n + 1].deleted THEN f[n] ELSE f[n] \o elements[n + 1].text
  <2>1. n \in 0 .. N /\ n + 1 \in 0 .. N
    BY <1>3
  <2>2. CASE elements[n + 1].deleted
    BY <1>11, <1>12, <2>1, <2>2
  <2>3. CASE ~ elements[n + 1].deleted
    <3>1. at[n + 1] = at[n] + 1 /\ shown[at[n] + 1] = elements[n + 1]
      BY <1>11, <2>3
    <3>2. at[n] \in 0 .. k - 1
      BY <1>3, <1>12, <2>1, <3>1
    <3>3. g[at[n] + 1] = g[at[n]] \o shown[at[n] + 1].text
      BY <1>8, <3>2
    <3> QED BY <1>12, <2>1, <2>3, <3>1, <3>3
  <2> QED BY <2>2, <2>3
<1>15. ShownUpto(elements, f)
  <2>1. f[0] = <<>> /\ \A n \in 0 .. N : f[n] \in Seq(Nat)
    BY <1>8, <1>11, <1>12, <1>13
  <2> QED BY <1>14, <2>1 DEF ShownUpto, N
<1>16. TextOf(elements) = f[N]
  BY <1>10, <1>11, <1>12, <1>13
<1>17. \A n \in 0 .. N : Len(f[n]) = EndAt(Visible(elements), at[n])
  BY <1>1, <1>9, <1>12
<1> QED BY <1>15, <1>16, <1>17 DEF N
-----------------------------------------------------------------------------
(* What a plan does. *)

Solid(shown) == \A n \in 1 .. Len(shown) : shown[n].text # <<>>

\* Elements that are not empty end one behind the other.
Growing(shown) ==
  /\ EndAt(shown, 0) = 0 /\ EndAt(shown, Len(shown)) = Len(JoinedText(shown))
  /\ \A n \in 0 .. Len(shown) : EndAt(shown, n) \in Nat
  /\ \A m, n \in 0 .. Len(shown) : m < n => EndAt(shown, m) < EndAt(shown, n)

\* Elements that are not empty end one behind the other.
LEMMA EndsGrow ==
  ASSUME NEW shown, ElementList(shown), Solid(shown)
  PROVE  Growing(shown)
<1> DEFINE k == Len(shown)
<1> DEFINE ss == [m \in 1 .. k |-> shown[m].text]
<1>1. k \in Nat /\ DOMAIN shown = 1 .. k /\ \A m \in 1 .. k : shown[m].text \in Seq(Nat) /\ shown[m].text # <<>>
  <2>1. \A e \in Element : e.text \in Seq(Nat)
    BY DEF Element
  <2>2. k \in Nat /\ DOMAIN shown = 1 .. k /\ \A m \in 1 .. k : shown[m] \in Element
    <3> HIDE DEF Element
    <3> QED BY DEF ElementList
  <2> QED BY <2>1, <2>2 DEF Solid
<1> HIDE DEF k
<1>2. TextList(ss) /\ Len(ss) = k /\ \A m \in 1 .. k : ss[m] = shown[m].text
  BY <1>1 DEF TextList
<1>3. JoinedText(shown) = FlattenSeq(ss)
  BY <1>1 DEF JoinedText
<1>4. ASSUME NEW n \in 0 .. k PROVE EndAt(shown, n) = Len(FlattenSeq([m \in 1 .. n |-> ss[m]]))
  <2>1. \A m \in 1 .. n : m \in 1 .. k
    BY <1>1
  <2>2. [m \in 1 .. n |-> ss[m]] = [m \in 1 .. n |-> shown[m].text]
    BY <2>1, <1>2
  <2> HIDE DEF ss
  <2> QED BY <2>2 DEF EndAt
<1> HIDE DEF ss
<1>5. PICK f : Joined(ss, f)
  BY <1>2, JoinedExists
<1>6. /\ f \in [Nat -> Seq(Nat)] /\ f[0] = <<>>
      /\ \A n \in 0 .. k - 1 : f[n + 1] = f[n] \o ss[n + 1]
  BY <1>2, <1>5 DEF Joined
<1>7. FlattenSeq(ss) = f[k] /\ \A n \in 0 .. k : EndAt(shown, n) = Len(f[n])
  <2>1. FlattenSeq(ss) = f[k]
    BY <1>2, <1>5, FlattenIs
  <2>2. ASSUME NEW n \in 0 .. k PROVE EndAt(shown, n) = Len(f[n])
    <3>1. FlattenSeq([m \in 1 .. n |-> ss[m]]) = f[n]
      BY <1>2, <1>5, JoinedPart
    <3> QED BY <1>4, <3>1
  <2> QED BY <2>1, <2>2
<1> DEFINE E(n) == Len(f[n])
<1>8. \A n \in Nat : E(n) \in Nat
  BY <1>6
<1>9. ASSUME NEW n \in 0 .. k - 1 PROVE E(n) < E(n + 1)
  <2>1. n \in Nat /\ n + 1 \in 1 .. k
    BY <1>1
  <2>2. PICK s, t : s = f[n] /\ t = ss[n + 1]
    OBVIOUS
  <2>3. s \in Seq(Nat) /\ t \in Seq(Nat) /\ t # <<>>
    BY <1>1, <1>2, <1>6, <2>1, <2>2
  <2>4. Len(s \o t) = Len(s) + Len(t) /\ Len(s) \in Nat /\ Len(t) \in Nat \ {0}
    BY <2>3
  <2>5. f[n + 1] = s \o t
    BY <1>6, <2>2
  <2>6. E(n) = Len(s) /\ E(n + 1) = Len(s) + Len(t)
    BY <2>2, <2>4, <2>5
  <2> HIDE DEF E
  <2> QED BY <2>4, <2>6
<1>10. E(0) = 0
  BY <1>6
<1> HIDE DEF E
<1>11. ASSUME NEW m \in 0 .. k, NEW n \in 0 .. k, m < n PROVE E(m) < E(n)
  <2> DEFINE N == {i \in Nat : i <= m \/ E(m) < E(i)}
  <2>1. 0 \in N
    BY <1>1
  <2>2. \A i \in 0 .. k - 1 : i \in N => i + 1 \in N
    <3> SUFFICES ASSUME NEW i \in 0 .. k - 1, i \in N PROVE i + 1 \in N
      OBVIOUS
    <3>1. i \in Nat /\ i + 1 \in Nat /\ m \in Nat
      BY <1>1
    <3>2. E(i) < E(i + 1) /\ E(i) \in Nat /\ E(i + 1) \in Nat /\ E(m) \in Nat
      BY <1>8, <1>9, <3>1
    <3>3. CASE E(m) < E(i)
      BY <3>1, <3>2, <3>3
    <3>4. CASE i <= m /\ ~ (i + 1 <= m)
      <4>1. i = m
        BY <3>1, <3>4
      <4> QED BY <3>1, <3>2, <4>1
    <3>5. CASE i + 1 <= m
      BY <3>1, <3>5
    <3> QED BY <3>3, <3>4, <3>5
  <2> HIDE DEF N
  <2>3. \A i \in 0 .. k : i \in N
    BY <1>1, <2>1, <2>2, AllUpto
  <2>4. n \in N
    BY <2>3
  <2>5. n \in Nat /\ m \in Nat
    BY <1>1
  <2> QED BY <1>11, <2>4, <2>5 DEF N
<1>12. \A n \in 0 .. k : n \in Nat /\ EndAt(shown, n) = E(n)
  BY <1>1, <1>7 DEF E
<1>13. 0 \in 0 .. k /\ k \in 0 .. k
  BY <1>1
<1>14. EndAt(shown, k) = Len(JoinedText(shown))
  BY <1>3, <1>7, <1>13
<1> QED BY <1>8, <1>10, <1>11, <1>12, <1>13, <1>14 DEF Growing, k
\* Two texts agree as far as they have their start, or their end, in common.
LEMMA CommonStart ==
  ASSUME NEW s \in Seq(Nat), NEW t \in Seq(Nat)
  PROVE  \A i \in 1 .. Common(s, t) : s[i] = t[i]
<1> DEFINE N == {n \in 0 .. Len(s) : n <= Len(t) /\ SubSeq(s, 1, n) = SubSeq(t, 1, n)}
<1>1. Len(s) \in Nat /\ Len(t) \in Nat
  OBVIOUS
<1>2. 0 \in N
  <2>1. SubSeq(s, 1, 0) = <<>> /\ SubSeq(t, 1, 0) = <<>>
    OBVIOUS
  <2> QED BY <1>1, <2>1
<1>3. N \subseteq 0 .. Len(s) /\ \A n \in N : n \in Nat /\ n <= Len(s) /\ n <= Len(t) /\ SubSeq(s, 1, n) = SubSeq(t, 1, n)
  BY <1>1
<1>4. Common(s, t) = Max(N)
  BY DEF Common
<1> HIDE DEF N
<1>5. IsFiniteSet(N)
  <2>1. IsFiniteSet(0 .. Len(s))
    BY <1>1, FS_Interval
  <2> QED BY <1>3, <2>1, FS_Subset
<1>6. Max(N) \in N
  BY <1>2, <1>3, <1>5, MaxNat
<1>7. PICK c : c = Common(s, t)
  OBVIOUS
<1>8. c \in Nat /\ c <= Len(s) /\ c <= Len(t) /\ SubSeq(s, 1, c) = SubSeq(t, 1, c)
  BY <1>3, <1>4, <1>6, <1>7
<1>9. ASSUME NEW i \in 1 .. c PROVE s[i] = t[i]
  <2>1. SubSeq(s, 1, c)[i] = s[i] /\ SubSeq(t, 1, c)[i] = t[i]
    BY <1>8
  <2> QED BY <1>8, <2>1
<1> QED BY <1>7, <1>9

LEMMA Reversed ==
  ASSUME NEW s \in Seq(Nat)
  PROVE  /\ Reverse(s) \in Seq(Nat) /\ Len(Reverse(s)) = Len(s)
         /\ \A i \in 1 .. Len(s) : Reverse(s)[i] = s[Len(s) - i + 1]
<1>1. Len(s) \in Nat /\ \A i \in 1 .. Len(s) : Len(s) - i + 1 \in 1 .. Len(s)
  OBVIOUS
<1>2. \A i \in 1 .. Len(s) : s[Len(s) - i + 1] \in Nat
  BY <1>1
<1> QED BY <1>1, <1>2 DEF Reverse

LEMMA CommonEnd ==
  ASSUME NEW s \in Seq(Nat), NEW t \in Seq(Nat), NEW c, c = Common(Reverse(s), Reverse(t))
  PROVE  /\ c \in Nat /\ c <= Len(s) /\ c <= Len(t)
         /\ \A i \in 1 .. c : s[Len(s) - i + 1] = t[Len(t) - i + 1]
<1>1. PICK x, y : x = Reverse(s) /\ y = Reverse(t)
  OBVIOUS
<1>2. /\ x \in Seq(Nat) /\ Len(x) = Len(s) /\ \A i \in 1 .. Len(s) : x[i] = s[Len(s) - i + 1]
      /\ y \in Seq(Nat) /\ Len(y) = Len(t) /\ \A i \in 1 .. Len(t) : y[i] = t[Len(t) - i + 1]
  BY <1>1, Reversed
<1>3. /\ c \in Nat /\ c <= Len(x) /\ c <= Len(y) /\ \A i \in 1 .. c : x[i] = y[i]
  BY <1>1, <1>2, CommonFacts, CommonStart
<1>4. ASSUME NEW i \in 1 .. c PROVE s[Len(s) - i + 1] = t[Len(t) - i + 1]
  <2>1. Len(s) \in Nat /\ Len(t) \in Nat /\ c \in Nat /\ c <= Len(s) /\ c <= Len(t)
    <3>1. c <= Len(s) /\ c <= Len(t) /\ c \in Nat
      BY <1>2, <1>3
    <3> QED BY <3>1
  <2>2. i \in 1 .. Len(s) /\ i \in 1 .. Len(t)
    BY <2>1
  <2> QED BY <1>2, <1>3, <2>2
<1> QED BY <1>2, <1>3, <1>4

\* A text of which a span was replaced.
Reaches(old, next, s, e, new) ==
  /\ Len(next) = s + Len(new) + (Len(old) - e)
  /\ \A i \in 1 .. s : next[i] = old[i]
  /\ \A i \in 1 .. Len(new) : next[s + i] = new[i]
  /\ \A i \in e + 1 .. Len(old) : next[s + Len(new) + (i - e)] = old[i]

LEMMA PartIs ==
  ASSUME NEW s \in Seq(Nat), NEW a \in Nat, NEW b \in Nat, a <= b, b <= Len(s)
  PROVE  /\ SubSeq(s, a + 1, b) \in Seq(Nat) /\ Len(SubSeq(s, a + 1, b)) = b - a
         /\ \A i \in 1 .. b - a : SubSeq(s, a + 1, b)[i] = s[a + i]
<1>1. SubSeq(s, a + 1, b) \in Seq(Nat) /\ Len(SubSeq(s, a + 1, b)) = b - a
  OBVIOUS
<1>2. ASSUME NEW i \in 1 .. b - a PROVE SubSeq(s, a + 1, b)[i] = s[a + i]
  <2>1. SubSeq(s, a + 1, b)[i] = s[(a + 1) + i - 1] /\ (a + 1) + i - 1 = a + i
    OBVIOUS
  <2> QED BY <2>1
<1> QED BY <1>1, <1>2

\* Texts with so many characters in common at the start and, of the rest, at the end.
Alike(old, next, prefix, suffix) ==
  /\ prefix \in Nat /\ suffix \in Nat /\ prefix + suffix <= Len(old) /\ prefix + suffix <= Len(next)
  /\ \A i \in 1 .. prefix : next[i] = old[i]
  /\ \A i \in 0 .. suffix - 1 : next[Len(next) - i] = old[Len(old) - i]

\* The common ends of two texts do not overlap and are alike.
LEMMA CommonAlike ==
  ASSUME NEW old \in Seq(Nat), NEW next \in Seq(Nat)
  PROVE  LET prefix == Common(old, next) IN
         Alike(old, next, prefix,
               Common(Reverse(SubSeq(old, prefix + 1, Len(old))), Reverse(SubSeq(next, prefix + 1, Len(next)))))
<1>1. PICK p : p = Common(old, next)
  OBVIOUS
<1>2. p \in Nat /\ p <= Len(old) /\ p <= Len(next) /\ Len(old) \in Nat /\ Len(next) \in Nat
      /\ \A i \in 1 .. p : old[i] = next[i]
  BY <1>1, CommonFacts, CommonStart
<1>3. PICK x, y : x = SubSeq(old, p + 1, Len(old)) /\ y = SubSeq(next, p + 1, Len(next))
  OBVIOUS
<1>4. /\ x \in Seq(Nat) /\ Len(x) = Len(old) - p /\ \A i \in 1 .. Len(old) - p : x[i] = old[p + i]
      /\ y \in Seq(Nat) /\ Len(y) = Len(next) - p /\ \A i \in 1 .. Len(next) - p : y[i] = next[p + i]
  <2>1. ASSUME NEW s \in Seq(Nat), p <= Len(s)
        PROVE  LET z == SubSeq(s, p + 1, Len(s)) IN
               z \in Seq(Nat) /\ Len(z) = Len(s) - p /\ \A i \in 1 .. Len(s) - p : z[i] = s[p + i]
    <3>1. PICK b \in Nat : b = Len(s)
      OBVIOUS
    <3>2. p \in Nat /\ p <= b /\ b <= Len(s)
      BY <1>2, <2>1, <3>1
    <3> QED BY <3>1, <3>2, PartIs
  <2> QED BY <1>2, <1>3, <2>1
<1>5. PICK c : c = Common(Reverse(x), Reverse(y))
  OBVIOUS
<1>6. /\ c \in Nat /\ c <= Len(x) /\ c <= Len(y)
      /\ \A i \in 1 .. c : x[Len(x) - i + 1] = y[Len(y) - i + 1]
  <2>1. x \in Seq(Nat) /\ y \in Seq(Nat)
    BY <1>4
  <2> QED BY <1>5, <2>1, CommonEnd
<1>7. PICK n, m : n = Len(old) /\ m = Len(next)
  OBVIOUS
<1>8. n \in Nat /\ m \in Nat /\ Len(x) = n - p /\ Len(y) = m - p /\ p + c <= n /\ p + c <= m
  BY <1>2, <1>4, <1>6, <1>7
<1>9. ASSUME NEW i \in 0 .. c - 1 PROVE next[m - i] = old[n - i]
  <2>1. i + 1 \in 1 .. c /\ Len(x) - (i + 1) + 1 = n - p - i /\ Len(y) - (i + 1) + 1 = m - p - i
    BY <1>2, <1>6, <1>8
  <2>2. x[n - p - i] = y[m - p - i]
    BY <1>6, <2>1
  <2>3. n - p - i \in 1 .. n - p /\ m - p - i \in 1 .. m - p /\ p + (n - p - i) = n - i /\ p + (m - p - i) = m - i
    BY <1>2, <1>6, <1>8
  <2> QED BY <1>4, <1>7, <2>2, <2>3
<1>10. Alike(old, next, p, c)
  BY <1>2, <1>6, <1>7, <1>8, <1>9 DEF Alike
<1> QED BY <1>1, <1>3, <1>5, <1>10

\* What is between a common start and a common end may be replaced, and more.
LEMMA SpanReaches ==
  ASSUME NEW old \in Seq(Nat), NEW next \in Seq(Nat), NEW prefix, NEW suffix, Alike(old, next, prefix, suffix),
         NEW s \in Nat, NEW e \in Nat, s <= prefix, Len(old) - suffix <= e, e <= Len(old)
  PROVE  /\ SubSeq(next, s + 1, Len(next) - (Len(old) - e)) \in Seq(Nat)
         /\ Reaches(old, next, s, e, SubSeq(next, s + 1, Len(next) - (Len(old) - e)))
<1>1. PICK n, m : n = Len(old) /\ m = Len(next)
  OBVIOUS
<1>2. /\ prefix \in Nat /\ suffix \in Nat /\ prefix + suffix <= n /\ prefix + suffix <= m
      /\ n \in Nat /\ m \in Nat
      /\ \A i \in 1 .. prefix : next[i] = old[i]
      /\ \A i \in 0 .. suffix - 1 : next[m - i] = old[n - i]
  BY <1>1 DEF Alike
<1>3. n - suffix <= e /\ e <= n
  BY <1>1
<1>4. PICK l : l = m - (n - e)
  OBVIOUS
<1>5. l \in Nat /\ s <= l /\ l <= m
  BY <1>2, <1>3, <1>4
<1>6. PICK new : new = SubSeq(next, s + 1, l)
  OBVIOUS
<1>7. new \in Seq(Nat) /\ Len(new) = l - s /\ \A i \in 1 .. l - s : new[i] = next[s + i]
  BY <1>1, <1>5, <1>6, PartIs
<1>8. ASSUME NEW i \in e + 1 .. n PROVE next[s + Len(new) + (i - e)] = old[i]
  <2>1. n - i \in 0 .. suffix - 1 /\ m - (n - i) = s + Len(new) + (i - e) /\ n - (n - i) = i
    BY <1>2, <1>3, <1>4, <1>5, <1>7
  <2> QED BY <1>2, <2>1
<1>9. m = s + Len(new) + (n - e)
  BY <1>2, <1>4, <1>5, <1>7
<1>10. \A i \in 1 .. s : next[i] = old[i]
  BY <1>2
<1>11. \A i \in 1 .. Len(new) : next[s + i] = new[i]
  BY <1>7
<1>12. Reaches(old, next, s, e, new)
  BY <1>1, <1>8, <1>9, <1>10, <1>11 DEF Reaches
<1> QED BY <1>1, <1>4, <1>6, <1>7, <1>12
\* The elements a span of the text touches are those after one and up to another.
LEMMA SpanOf ==
  ASSUME NEW shown, ElementList(shown), Growing(shown), NEW p \in Nat, NEW q \in Nat,
         p <= q, q <= Len(JoinedText(shown))
  PROVE  \E h \in 0 .. Len(shown) : \E j \in h .. Len(shown) :
           /\ EndAt(shown, h) <= p /\ q <= EndAt(shown, j)
           /\ \A n \in 1 .. Len(shown) : EndAt(shown, n - 1) < q /\ p < EndAt(shown, n) <=> n \in h + 1 .. j
           /\ h = j => p = q /\ p = EndAt(shown, h)
<1> DEFINE E(n) == EndAt(shown, n)
<1>1. PICK k : k = Len(shown)
  OBVIOUS
<1>2. k \in Nat /\ Len(JoinedText(shown)) \in Nat
  BY <1>1, EndFacts
<1>3. /\ E(0) = 0 /\ E(k) = Len(JoinedText(shown))
      /\ \A n \in 0 .. k : E(n) \in Nat
      /\ \A m, n \in 0 .. k : m < n => E(m) < E(n)
  BY <1>1 DEF Growing
<1> HIDE DEF E
<1> DEFINE Lower == {n \in 0 .. k : E(n) <= p}
<1> DEFINE Upper == {n \in 0 .. k : q <= E(n)}
<1>4. 0 \in Lower /\ k \in Upper
  BY <1>2, <1>3
<1>5. Lower \in SUBSET Nat /\ Upper \in SUBSET Nat /\ IsFiniteSet(Lower)
  <2>1. 0 .. k \subseteq Nat /\ Lower \subseteq 0 .. k /\ Upper \subseteq 0 .. k
    BY <1>2
  <2>2. IsFiniteSet(0 .. k)
    BY <1>2, FS_Interval
  <2> HIDE DEF Lower, Upper
  <2> QED BY <2>1, <2>2, FS_Subset
<1>6. PICK h, j : h = Max(Lower) /\ j = Min(Upper)
  OBVIOUS
<1>7. h \in Lower /\ j \in Upper /\ (\A n \in Lower : n <= h) /\ \A n \in Upper : j <= n
  <2> HIDE DEF Lower, Upper
  <2>1. /\ Max(Lower) \in Lower /\ \A y \in Lower : Max(Lower) >= y
        /\ Min(Upper) \in Upper /\ \A y \in Upper : Min(Upper) <= y
    BY <1>4, <1>5, MaxNat, MinNat
  <2>2. h \in Nat /\ j \in Nat
    BY <1>5, <1>6, <2>1
  <2> QED BY <1>5, <1>6, <2>1, <2>2
<1>8. /\ h \in 0 .. k /\ j \in 0 .. k /\ E(h) <= p /\ q <= E(j)
      /\ \A n \in 0 .. k : (E(n) <= p => n <= h) /\ (q <= E(n) => j <= n)
  BY <1>7
<1> HIDE DEF Lower, Upper
<1>9. h \in Nat /\ j \in Nat /\ E(h) \in Nat /\ E(j) \in Nat
  BY <1>2, <1>3, <1>8
<1>10. h <= j
  <2>1. CASE j < h
    <3>1. E(j) < E(h)
      BY <1>3, <1>8, <2>1
    <3> QED BY <1>8, <1>9, <3>1
  <2> QED BY <1>9, <2>1
<1>11. h = j => p = q /\ p = E(h)
  BY <1>8, <1>9
<1>12. ASSUME NEW n \in 1 .. k PROVE E(n - 1) < q /\ p < E(n) <=> n \in h + 1 .. j
  <2>1. n \in 0 .. k /\ n - 1 \in 0 .. k /\ n \in Nat
    BY <1>2
  <2>2. E(n) \in Nat /\ E(n - 1) \in Nat
    BY <1>3, <2>1
  <2>3. p < E(n) <=> h < n
    <3>1. CASE h < n
      BY <1>8, <1>9, <2>1, <2>2, <3>1
    <3>2. CASE n < h
      <4>1. E(n) < E(h)
        BY <1>3, <1>8, <2>1, <3>2
      <4> QED BY <1>8, <1>9, <2>1, <2>2, <3>2, <4>1
    <3>3. CASE n = h
      BY <1>8, <1>9, <3>3
    <3> QED BY <1>9, <2>1, <3>1, <3>2, <3>3
  <2>4. E(n - 1) < q <=> n - 1 < j
    <3>1. CASE n - 1 < j
      BY <1>8, <1>9, <2>1, <2>2, <3>1
    <3>2. CASE j < n - 1
      <4>1. E(j) < E(n - 1)
        BY <1>3, <1>8, <2>1, <3>2
      <4> QED BY <1>8, <1>9, <2>1, <2>2, <3>2, <4>1
    <3>3. CASE n - 1 = j
      BY <1>8, <1>9, <3>3
    <3> QED BY <1>9, <2>1, <3>1, <3>2, <3>3
  <2> QED BY <1>9, <2>1, <2>3, <2>4
<1>13. h \in 0 .. k /\ j \in h .. k
  BY <1>8, <1>9, <1>10
<1>14. \A n \in 1 .. k : E(n - 1) < q /\ p < E(n) <=> n \in h + 1 .. j
  BY <1>12
<1> QED BY <1>1, <1>8, <1>11, <1>13, <1>14 DEF E

AtomAt(first, k) == <<first[1] + k - 1, first[2], first[3] + k - 1>>
Behind(shown, h) == IF h = 0 THEN Root ELSE shown[h].atom

\* The edits of a plan: elements h+1 to j go, and a chain of characters comes behind
\* element h.
PlanOf(shown, edits, first, h, j, new) ==
  /\ Len(edits) = (j - h) + Len(new)
  /\ \A k \in 1 .. j - h : edits[k] = [kind |-> "delete", id |-> shown[h + k].atom]
  /\ \A k \in 1 .. Len(new) :
       edits[(j - h) + k] = [kind |-> "insert", id |-> AtomAt(first, k), text |-> <<new[k]>>,
                             after |-> IF k = 1 THEN Behind(shown, h) ELSE AtomAt(first, k - 1)]

\* The element a change is anchored to is the last that ends before it.
LEMMA AnchorIs ==
  ASSUME NEW shown, ElementList(shown), Growing(shown), NEW h \in 0 .. Len(shown)
  PROVE  Anchor(shown, EndAt(shown, h)) = Behind(shown, h)
<1> DEFINE ends == {n \in DOMAIN shown : EndAt(shown, n) <= EndAt(shown, h)}
<1>1. PICK k : k = Len(shown)
  OBVIOUS
<1>2. k \in Nat /\ DOMAIN shown = 1 .. k
  <2> HIDE DEF Element
  <2> QED BY <1>1 DEF ElementList
<1>3. /\ \A n \in 0 .. k : EndAt(shown, n) \in Nat
      /\ \A m, n \in 0 .. k : m < n => EndAt(shown, m) < EndAt(shown, n)
  BY <1>1 DEF Growing
<1>4. ends = 1 .. h
  <2>1. ASSUME NEW n \in 1 .. k PROVE EndAt(shown, n) <= EndAt(shown, h) <=> n <= h
    <3>1. n \in 0 .. k /\ h \in 0 .. k /\ n \in Nat /\ h \in Nat
      BY <1>1, <1>2
    <3>2. EndAt(shown, n) \in Nat /\ EndAt(shown, h) \in Nat
      BY <1>3, <3>1
    <3>3. CASE n < h
      BY <1>3, <3>1, <3>2, <3>3
    <3>4. CASE h < n
      BY <1>3, <3>1, <3>2, <3>4
    <3>5. CASE n = h
      BY <3>1, <3>2, <3>5
    <3> QED BY <3>1, <3>3, <3>4, <3>5
  <2>2. \A n \in 1 .. h : n \in 1 .. k
    BY <1>1, <1>2
  <2>3. \A n \in 1 .. k : n <= h => n \in 1 .. h
    BY <1>2
  <2>4. \A n \in 1 .. h : n <= h
    BY <1>1, <1>2
  <2> QED BY <1>2, <2>1, <2>2, <2>3, <2>4
<1>5. Anchor(shown, EndAt(shown, h)) = IF ends = {} THEN Root ELSE shown[Max(ends)].atom
  BY DEF Anchor
<1> HIDE DEF ends
<1>6. CASE h = 0
  <2>1. ends = {}
    BY <1>4, <1>6
  <2> QED BY <1>5, <1>6, <2>1 DEF Behind
<1>7. CASE h # 0
  <2>1. h \in Nat /\ h \in 1 .. h /\ 1 .. h \in SUBSET Nat
    BY <1>1, <1>2, <1>7
  <2>2. IsFiniteSet(1 .. h)
    BY <2>1, FS_Interval
  <2>3. Max(1 .. h) \in 1 .. h /\ \A y \in 1 .. h : Max(1 .. h) >= y
    BY <2>1, <2>2, MaxNat
  <2>4. PICK m : m = Max(1 .. h)
    OBVIOUS
  <2>5. m = h
    <3>1. m \in 1 .. h /\ m >= h
      BY <2>1, <2>3, <2>4
    <3> QED BY <2>1, <3>1
  <2> QED BY <1>4, <1>5, <1>7, <2>1, <2>4, <2>5 DEF Behind
<1> QED BY <1>6, <1>7
\* A plan takes out a span of visible elements and chains characters in behind the
\* one before it, and with that the old text becomes the wanted one.
LEMMA PlanIs ==
  ASSUME NEW elements, ElementList(elements), Solid(Visible(elements)), NEW next \in Seq(Nat),
         next # TextOf(elements), NEW first
  PROVE  \E h \in 0 .. Len(Visible(elements)) : \E j \in h .. Len(Visible(elements)) : \E new \in Seq(Nat) :
           /\ PlanOf(Visible(elements), Plan(elements, next, first), first, h, j, new)
           /\ Reaches(TextOf(elements), next, EndAt(Visible(elements), h), EndAt(Visible(elements), j), new)
<1> DEFINE Atom(k) == <<first[1] + k - 1, first[2], first[3] + k - 1>>
<1> DEFINE shown == Visible(elements)
<1> DEFINE old == TextOf(elements)
<1> DEFINE prefix == Common(old, next)
<1> DEFINE suffix == Common(Reverse(SubSeq(old, prefix + 1, Len(old))), Reverse(SubSeq(next, prefix + 1, Len(next))))
<1> DEFINE oldEnd == Len(old) - suffix
<1> DEFINE touched == {n \in DOMAIN shown :
                    IF prefix = oldEnd THEN StartAt(shown, n) < prefix /\ prefix < EndAt(shown, n)
                    ELSE StartAt(shown, n) < oldEnd /\ prefix < EndAt(shown, n)}
<1> DEFINE start == IF touched = {} THEN prefix ELSE StartAt(shown, Min(touched))
<1> DEFINE end == IF touched = {} THEN oldEnd ELSE EndAt(shown, Max(touched))
<1> DEFINE new == SubSeq(next, start + 1, Len(next) - (Len(old) - end))
<1> DEFINE deletes == [k \in 1 .. Cardinality(touched) |->
                    [kind |-> "delete", id |-> shown[Min(touched) + k - 1].atom]]
<1> DEFINE inserts == [k \in DOMAIN new |->
                    [kind |-> "insert", id |-> Atom(k), text |-> <<new[k]>>,
                     after |-> IF k = 1 THEN Anchor(shown, start) ELSE Atom(k - 1)]]
<1>0. Plan(elements, next, first) = deletes \o inserts
  BY DEF Plan
<1>1. ElementList(shown) /\ old = JoinedText(shown)
  <2>1. ElementList(shown)
    BY VisibleTyped DEF ElementList
  <2>2. old = JoinedText(shown)
    BY DEF TextOf, JoinedText
  <2> QED BY <2>1, <2>2
<1>2. Growing(shown)
  BY <1>1, EndsGrow
<1> HIDE DEF shown, old
<1>3. PICK l : l = Len(shown)
  OBVIOUS
<1>4. /\ l \in Nat /\ DOMAIN shown = 1 .. l /\ old \in Seq(Nat) /\ Len(old) \in Nat /\ Len(next) \in Nat
      /\ \A n \in 0 .. l : EndAt(shown, n) \in Nat /\ EndAt(shown, n) <= Len(old)
  <2>1. old \in Seq(Nat) /\ l \in Nat /\ \A n \in 0 .. l : EndAt(shown, n) \in Nat /\ EndAt(shown, n) <= Len(old)
    BY <1>1, <1>3, EndFacts
  <2>2. DOMAIN shown = 1 .. l
    <3> HIDE DEF Element
    <3> QED BY <1>1, <1>3 DEF ElementList
  <2> QED BY <2>1, <2>2
<1>5. Alike(old, next, prefix, suffix)
  BY <1>4, CommonAlike
<1> HIDE DEF prefix, suffix
<1>6. prefix \in Nat /\ suffix \in Nat /\ oldEnd \in Nat /\ prefix <= oldEnd /\ oldEnd <= Len(old)
  <2>1. prefix \in Nat /\ suffix \in Nat /\ prefix + suffix <= Len(old)
    BY <1>5 DEF Alike
  <2> QED BY <1>4, <2>1
<1> HIDE DEF oldEnd
<1>6a. PICK h \in 0 .. l : \E j \in h .. l :
         /\ EndAt(shown, h) <= prefix /\ oldEnd <= EndAt(shown, j)
         /\ \A n \in 1 .. l : EndAt(shown, n - 1) < oldEnd /\ prefix < EndAt(shown, n) <=> n \in h + 1 .. j
         /\ h = j => prefix = oldEnd /\ prefix = EndAt(shown, h)
  BY <1>1, <1>2, <1>3, <1>6, SpanOf
<1>7. PICK j \in h .. l :
        /\ EndAt(shown, h) <= prefix /\ oldEnd <= EndAt(shown, j)
        /\ \A n \in 1 .. l : EndAt(shown, n - 1) < oldEnd /\ prefix < EndAt(shown, n) <=> n \in h + 1 .. j
        /\ h = j => prefix = oldEnd /\ prefix = EndAt(shown, h)
  BY <1>6a
<1>8. h \in Nat /\ j \in Nat /\ h <= j /\ j <= l /\ j \in 0 .. l
  BY <1>4
<1>9. touched = h + 1 .. j
  <2>1. \A n \in 1 .. l : n \in touched <=> n \in h + 1 .. j
    BY <1>4, <1>7 DEF StartAt
  <2>2. \A n \in touched : n \in 1 .. l
    BY <1>4
  <2>3. \A n \in h + 1 .. j : n \in 1 .. l
    BY <1>4, <1>8
  <2> HIDE DEF touched
  <2> QED BY <2>1, <2>2, <2>3
<1> HIDE DEF touched
<1>10. h # j => Min(touched) = h + 1 /\ Max(touched) = j
  <2> SUFFICES ASSUME h # j PROVE Min(touched) = h + 1 /\ Max(touched) = j
    OBVIOUS
  <2>1. touched \in SUBSET Nat /\ h + 1 \in touched /\ j \in touched /\ \A n \in touched : n \in Nat /\ h + 1 <= n /\ n <= j
    BY <1>8, <1>9
  <2>2. IsFiniteSet(touched)
    BY <1>8, <1>9, FS_Interval
  <2>3. /\ Min(touched) \in touched /\ \A y \in touched : Min(touched) <= y
        /\ Max(touched) \in touched /\ \A y \in touched : Max(touched) >= y
    BY <2>1, <2>2, MinNat, MaxNat
  <2>4. PICK a, b : a = Min(touched) /\ b = Max(touched)
    OBVIOUS
  <2>5. a \in Nat /\ b \in Nat /\ h + 1 <= a /\ b <= j /\ a <= h + 1 /\ b >= j
    BY <2>1, <2>3, <2>4
  <2> QED BY <1>8, <2>4, <2>5
<1>11. Cardinality(touched) = j - h /\ (touched = {} <=> h = j)
  <2>1. CASE h = j
    <3>1. touched = {}
      BY <1>8, <1>9, <2>1
    <3> QED BY <1>8, <2>1, <3>1, FS_EmptySet
  <2>2. CASE h # j
    <3>1. PICK a \in Int, b \in Int : a = h + 1 /\ b = j /\ a <= b
      BY <1>8, <2>2
    <3>2. Cardinality(a .. b) = b - a + 1
      BY <3>1, FS_Interval
    <3>3. h + 1 \in touched
      BY <1>8, <1>9, <2>2
    <3> QED BY <1>8, <1>9, <2>2, <3>1, <3>2, <3>3
  <2> QED BY <2>1, <2>2
<1>12. start = EndAt(shown, h) /\ end = EndAt(shown, j)
  <2>1. CASE h = j
    BY <1>7, <1>11, <2>1
  <2>2. CASE h # j
    <3>1. (h + 1) - 1 = h
      BY <1>8
    <3> QED BY <1>10, <1>11, <2>2, <3>1 DEF StartAt
  <2> QED BY <2>1, <2>2
<1> HIDE DEF start, end
<1>13. new \in Seq(Nat) /\ Reaches(old, next, start, end, new)
  <2>1. start \in Nat /\ end \in Nat /\ start <= prefix /\ Len(old) - suffix <= end /\ end <= Len(old)
    BY <1>4, <1>7, <1>8, <1>12 DEF oldEnd
  <2> QED BY <1>4, <1>5, <2>1, SpanReaches
<1> HIDE DEF new
<1>14. Len(new) \in Nat /\ DOMAIN new = 1 .. Len(new)
  BY <1>13
<1>15. Anchor(shown, start) = Behind(shown, h)
  BY <1>1, <1>2, <1>3, <1>12, AnchorIs
<1>16. PICK edits : edits = Plan(elements, next, first)
  OBVIOUS
<1> DEFINE T == {deletes[k] : k \in 1 .. j - h} \cup {inserts[k] : k \in 1 .. Len(new)}
<1>17. deletes \in Seq(T) /\ Len(deletes) = j - h /\ inserts \in Seq(T) /\ Len(inserts) = Len(new)
  <2>1. j - h \in Nat /\ DOMAIN deletes = 1 .. j - h /\ DOMAIN inserts = 1 .. Len(new)
    BY <1>8, <1>11, <1>14
  <2>2. deletes = [k \in DOMAIN deletes |-> deletes[k]] /\ inserts = [k \in DOMAIN inserts |-> inserts[k]]
    OBVIOUS
  <2>3. (\A k \in 1 .. j - h : deletes[k] \in T) /\ \A k \in 1 .. Len(new) : inserts[k] \in T
    OBVIOUS
  <2> HIDE DEF deletes, inserts, T
  <2>4. deletes \in [1 .. j - h -> T] /\ inserts \in [1 .. Len(new) -> T]
    BY <2>1, <2>2, <2>3
  <2>5. ASSUME NEW n \in Nat, NEW s \in [1 .. n -> T] PROVE s \in Seq(T) /\ Len(s) = n
    OBVIOUS
  <2> QED BY <1>14, <2>1, <2>4, <2>5
<1>18. /\ \A k \in 1 .. j - h : deletes[k] = [kind |-> "delete", id |-> shown[h + k].atom]
       /\ \A k \in 1 .. Len(new) : inserts[k] = [kind |-> "insert", id |-> Atom(k), text |-> <<new[k]>>,
                                      after |-> IF k = 1 THEN Behind(shown, h) ELSE Atom(k - 1)]
  <2>1. ASSUME NEW k \in 1 .. j - h PROVE deletes[k] = [kind |-> "delete", id |-> shown[h + k].atom]
    <3>1. h # j /\ (h + 1) + k - 1 = h + k
      BY <1>8
    <3>2. deletes[k] = [kind |-> "delete", id |-> shown[Min(touched) + k - 1].atom]
      BY <1>11
    <3> QED BY <1>10, <3>1, <3>2
  <2>2. ASSUME NEW k \in 1 .. Len(new)
        PROVE  inserts[k] = [kind |-> "insert", id |-> Atom(k), text |-> <<new[k]>>,
                                      after |-> IF k = 1 THEN Behind(shown, h) ELSE Atom(k - 1)]
    BY <1>14, <1>15
  <2> QED BY <2>1, <2>2
<1> HIDE DEF deletes, inserts, T
<1>19. /\ Len(edits) = (j - h) + Len(new)
       /\ \A k \in 1 .. j - h : edits[k] = deletes[k]
       /\ \A k \in 1 .. Len(new) : edits[(j - h) + k] = inserts[k]
  <2>1. PICK s, t : s = deletes /\ t = inserts
    OBVIOUS
  <2>2. /\ Len(s \o t) = Len(s) + Len(t)
        /\ \A n \in 1 .. Len(s) : (s \o t)[n] = s[n]
        /\ \A n \in 1 .. Len(t) : (s \o t)[Len(s) + n] = t[n]
    <3>1. IsList(T, s) /\ IsList(T, t)
      BY <1>17, <2>1 DEF IsList
    <3> QED BY <3>1, ListsJoined
  <2> QED BY <1>0, <1>16, <1>17, <2>1, <2>2
<1>20. PlanOf(shown, edits, first, h, j, new)
  BY <1>18, <1>19 DEF PlanOf, AtomAt
<1> QED BY <1>3, <1>12, <1>13, <1>16, <1>20 DEF shown, old
-----------------------------------------------------------------------------
(* The text of the elements when a chain of characters was put in and a span  *)
(* of elements is gone.                                                       *)

Text(s) == s \in Seq(Nat)

\* One text behind another.
Joins(u, s, t) ==
  /\ Len(u) = Len(s) + Len(t) /\ \A i \in 1 .. Len(s) : u[i] = s[i]
  /\ \A i \in 1 .. Len(t) : u[Len(s) + i] = t[i]

LEMMA TextsJoin ==
  ASSUME NEW s, Text(s), NEW t, Text(t)
  PROVE  Text(s \o t) /\ Joins(s \o t, s, t) /\ Len(s) \in Nat /\ Len(t) \in Nat
<1>1. IsList(Nat, s) /\ IsList(Nat, t)
  BY DEF IsList, Text
<1>2. IsList(Nat, s \o t) /\ Joins(s \o t, s, t)
  BY <1>1, ListsJoined DEF Joins
<1>3. Len(s) \in Nat /\ Len(t) \in Nat
  BY DEF Text
<1> QED BY <1>2, <1>3 DEF IsList, Text

LEMMA TextsEqual ==
  ASSUME NEW s, Text(s), NEW t, Text(t), Len(s) = Len(t), \A i \in 1 .. Len(s) : s[i] = t[i]
  PROVE  s = t
BY DEF Text

\* A text that starts with s characters of another, goes on with a chain of new ones
\* and ends with what the other has behind its first e characters.
Woven(u, old, s, e, new) ==
  LET d == IF Len(old) <= e THEN 0 ELSE Len(old) - e IN
  /\ s <= Len(old) /\ Len(u) = s + Len(new) + d
  /\ \A i \in 1 .. s : u[i] = old[i]
  /\ \A i \in 1 .. Len(new) : u[s + i] = new[i]
  /\ \A i \in 1 .. d : u[s + Len(new) + i] = old[e + i]

\* What is woven of the old text and the chain as a plan says is the wanted text.
LEMMA WovenEnds ==
  ASSUME NEW u, Text(u), NEW old, Text(old), NEW s \in Nat, NEW e \in Nat, NEW new, Text(new),
         NEW next, Text(next), e <= Len(old), Woven(u, old, s, e, new), Reaches(old, next, s, e, new)
  PROVE  u = next
<1>1. PICK l, m, n : l = Len(old) /\ m = Len(new) /\ n = l - e
  OBVIOUS
<1>2. l \in Nat /\ m \in Nat /\ n \in Nat /\ e <= l /\ l = e + n
  BY <1>1 DEF Text
<1>3. /\ Len(next) = s + m + n /\ \A i \in 1 .. s : next[i] = old[i]
      /\ \A i \in 1 .. m : next[s + i] = new[i]
      /\ \A i \in e + 1 .. l : next[s + m + (i - e)] = old[i]
  BY <1>1 DEF Reaches
<1>4. /\ Len(u) = s + m + n /\ \A i \in 1 .. s : u[i] = old[i]
      /\ \A i \in 1 .. m : u[s + i] = new[i]
      /\ \A i \in 1 .. n : u[s + m + i] = old[e + i]
  <2>1. (IF l <= e THEN 0 ELSE l - e) = n
    BY <1>1, <1>2
  <2> QED BY <1>1, <2>1 DEF Woven
<1>5. ASSUME NEW i \in 1 .. s + m + n PROVE u[i] = next[i]
  <2>1. CASE i <= s
    BY <1>2, <1>3, <1>4, <2>1
  <2>2. CASE s < i /\ i <= s + m
    <3>1. i - s \in 1 .. m /\ s + (i - s) = i
      BY <1>2, <2>2
    <3> QED BY <1>3, <1>4, <3>1
  <2>3. CASE s + m < i
    <3>1. /\ i - (s + m) \in 1 .. n /\ s + m + (i - (s + m)) = i
          /\ e + (i - (s + m)) \in e + 1 .. l /\ (e + (i - (s + m))) - e = i - (s + m)
      BY <1>2, <2>3
    <3>2. u[i] = old[e + (i - (s + m))]
      BY <1>4, <3>1
    <3>3. next[s + m + (i - (s + m))] = old[e + (i - (s + m))]
      BY <1>3, <3>1
    <3> QED BY <3>1, <3>2, <3>3
  <2> QED BY <1>2, <2>1, <2>2, <2>3
<1> QED BY <1>3, <1>4, <1>5, TextsEqual

\* Text behind the span is taken over on both sides; text in the span is dropped.
LEMMA WovenGrows ==
  ASSUME NEW u, Text(u), NEW old, Text(old), NEW s \in Nat, NEW e \in Nat, NEW new, Text(new), NEW t, Text(t),
         Woven(u, old, s, e, new)
  PROVE  /\ e <= Len(old) => Woven(u \o t, old \o t, s, e, new)
         /\ Len(old \o t) <= e => Woven(u, old \o t, s, e, new)
<1>1. PICK v, w : v = u \o t /\ w = old \o t
  OBVIOUS
<1>2. PICK l, m, k, x : l = Len(old) /\ m = Len(new) /\ k = Len(t) /\ x = Len(u)
  OBVIOUS
<1>3. l \in Nat /\ m \in Nat /\ k \in Nat /\ x \in Nat
  BY <1>2 DEF Text
<1>4. /\ Len(v) = x + k /\ (\A i \in 1 .. x : v[i] = u[i]) /\ (\A i \in 1 .. k : v[x + i] = t[i])
      /\ Len(w) = l + k /\ (\A i \in 1 .. l : w[i] = old[i]) /\ (\A i \in 1 .. k : w[l + i] = t[i])
  <2>1. Joins(v, u, t) /\ Joins(w, old, t)
    BY <1>1, TextsJoin
  <2> QED BY <1>2, <2>1 DEF Joins
<1> DEFINE d == IF l <= e THEN 0 ELSE l - e
<1>5. /\ s <= l /\ x = s + m + d
      /\ \A i \in 1 .. s : u[i] = old[i]
      /\ \A i \in 1 .. m : u[s + i] = new[i]
      /\ \A i \in 1 .. d : u[s + m + i] = old[e + i]
  BY <1>2 DEF Woven
<1>6. \A i \in 1 .. s : w[i] = old[i]
  BY <1>3, <1>4, <1>5
<1>7. ASSUME e <= l PROVE Woven(v, w, s, e, new)
  <2>1. d = l - e /\ l - e \in Nat /\ (IF l + k <= e THEN 0 ELSE (l + k) - e) = (l - e) + k
    BY <1>3, <1>7
  <2> HIDE DEF d
  <2>2. Len(v) = s + m + ((l - e) + k)
    BY <1>3, <1>4, <1>5, <2>1
  <2>3. ASSUME NEW i \in 1 .. s PROVE v[i] = w[i]
    <3>1. i \in 1 .. x
      BY <1>3, <1>5, <2>1
    <3> QED BY <1>4, <1>5, <1>6, <3>1
  <2>4. ASSUME NEW i \in 1 .. m PROVE v[s + i] = new[i]
    <3>1. s + i \in 1 .. x
      BY <1>3, <1>5, <2>1
    <3> QED BY <1>4, <1>5, <3>1
  <2>5. ASSUME NEW i \in 1 .. (l - e) + k PROVE v[s + m + i] = w[e + i]
    <3>1. CASE i <= l - e
      <4>1. i \in 1 .. d /\ s + m + i \in 1 .. x /\ e + i \in 1 .. l
        BY <1>3, <1>5, <2>1, <3>1
      <4> QED BY <1>4, <1>5, <4>1
    <3>2. CASE l - e < i
      <4>1. /\ i - (l - e) \in 1 .. k /\ x + (i - (l - e)) = s + m + i /\ l + (i - (l - e)) = e + i
        BY <1>3, <1>5, <2>1, <3>2
      <4>2. v[x + (i - (l - e))] = t[i - (l - e)] /\ w[l + (i - (l - e))] = t[i - (l - e)]
        BY <1>4, <4>1
      <4> QED BY <4>1, <4>2
    <3> QED BY <1>3, <2>1, <3>1, <3>2
  <2>6. s <= l + k
    BY <1>3, <1>5
  <2> QED BY <1>2, <1>4, <2>1, <2>2, <2>3, <2>4, <2>5, <2>6 DEF Woven
<1>8. ASSUME l + k <= e PROVE Woven(u, w, s, e, new)
  <2>1. d = 0 /\ (IF l + k <= e THEN 0 ELSE (l + k) - e) = 0
    BY <1>3, <1>8
  <2>2. s <= l + k
    BY <1>3, <1>5
  <2> HIDE DEF d
  <2>3. /\ Len(u) = s + m + 0 /\ (\A i \in 1 .. s : u[i] = w[i]) /\ \A i \in 1 .. m : u[s + i] = new[i]
    <3>1. Len(u) = s + m + 0
      BY <1>2, <1>5, <2>1
    <3>2. (\A i \in 1 .. s : u[i] = w[i]) /\ \A i \in 1 .. m : u[s + i] = new[i]
      BY <1>5, <1>6
    <3> QED BY <3>1, <3>2
  <2>4. \A i \in 1 .. 0 : u[s + m + i] = w[e + i]
    OBVIOUS
  <2>5. Len(w) = l + k
    BY <1>4
  <2> QED BY <1>2, <2>1, <2>2, <2>3, <2>4, <2>5 DEF Woven
<1> QED BY <1>1, <1>2, <1>4, <1>7, <1>8
\* Elements of which some are gone, and among which a chain of characters was put.
Rewritten(elements, at, after, p, h, j, new) ==
  LET Gone(n) == elements[n].deleted \/ at[n] \in h + 1 .. j IN
  /\ p \in 0 .. Len(elements) /\ at[p] = h /\ Len(after) = Len(elements) + Len(new)
  /\ \A n \in 1 .. p : after[n].text = elements[n].text /\ (after[n].deleted <=> Gone(n))
  /\ \A k \in 1 .. Len(new) : after[p + k].text = <<new[k]>> /\ ~ after[p + k].deleted
  /\ \A n \in p + 1 .. Len(elements) :
       after[Len(new) + n].text = elements[n].text /\ (after[Len(new) + n].deleted <=> Gone(n))

\* Elements rewritten as a plan says show the old text with the span exchanged.
LEMMA TextRewritten ==
  ASSUME NEW elements, ElementList(elements), NEW at, Counts(elements, at), Growing(Visible(elements)),
         NEW after, ElementList(after), NEW p, NEW h \in 0 .. Len(Visible(elements)),
         NEW j \in 0 .. Len(Visible(elements)), h <= j, NEW new, Text(new), Rewritten(elements, at, after, p, h, j, new)
  PROVE  Woven(TextOf(after), TextOf(elements), EndAt(Visible(elements), h), EndAt(Visible(elements), j), new)
<1> DEFINE shown == Visible(elements)
<1> DEFINE E(n) == EndAt(shown, n)
<1>1. PICK N, m, v : N = Len(elements) /\ m = Len(new) /\ v = Len(shown)
  OBVIOUS
<1>2. N \in Nat /\ m \in Nat /\ v \in Nat /\ Len(after) \in Nat
  <2>1. ElementList(shown)
    BY VisibleTyped DEF ElementList
  <2> HIDE DEF Element, shown
  <2> QED BY <1>1, <2>1 DEF ElementList, Text
<1>3. /\ at \in [0 .. N -> 0 .. v] /\ at[0] = 0 /\ at[N] = v
      /\ \A n \in 0 .. N - 1 : at[n + 1] = IF elements[n + 1].deleted THEN at[n] ELSE at[n] + 1
      /\ \A i, n \in 0 .. N : i <= n => at[i] <= at[n]
  BY <1>1 DEF Counts
<1>4. PICK f : /\ ShownUpto(elements, f) /\ TextOf(elements) = f[N]
               /\ \A n \in 0 .. N : Len(f[n]) = E(at[n])
  BY <1>1, TextsOf
<1>5. PICK g : ShownUpto(after, g) /\ TextOf(after) = g[Len(after)]
  <2>1. PICK b : Counts(after, b)
    BY CountsExist
  <2> QED BY <2>1, TextsOf
<1>6. /\ f[0] = <<>> /\ (\A n \in 0 .. N : Text(f[n]))
      /\ \A n \in 0 .. N - 1 : f[n + 1] = IF elements[n + 1].deleted THEN f[n] ELSE f[n] \o elements[n + 1].text
  BY <1>1, <1>4 DEF ShownUpto, Text
<1>7. /\ p \in 0 .. N /\ at[p] = h /\ Len(after) = N + m
      /\ \A n \in 1 .. p : after[n].text = elements[n].text
                           /\ (after[n].deleted <=> elements[n].deleted \/ at[n] \in h + 1 .. j)
      /\ \A k \in 1 .. m : after[p + k].text = <<new[k]>> /\ ~ after[p + k].deleted
      /\ \A n \in p + 1 .. N : after[m + n].text = elements[n].text
                               /\ (after[m + n].deleted <=> elements[n].deleted \/ at[n] \in h + 1 .. j)
  BY <1>1 DEF Rewritten
<1>8. /\ g[0] = <<>> /\ (\A n \in 0 .. N + m : Text(g[n]))
      /\ \A n \in 0 .. N + m - 1 : g[n + 1] = IF after[n + 1].deleted THEN g[n] ELSE g[n] \o after[n + 1].text
  <2>1. PICK l : l = Len(after)
    OBVIOUS
  <2>2. /\ g[0] = <<>> /\ (\A n \in 0 .. l : Text(g[n]))
        /\ \A n \in 0 .. l - 1 : g[n + 1] = IF after[n + 1].deleted THEN g[n] ELSE g[n] \o after[n + 1].text
    BY <1>5, <2>1 DEF ShownUpto, Text
  <2>3. l = N + m
    BY <1>7, <2>1
  <2>4. l - 1 = N + m - 1
    BY <1>2, <2>3
  <2>5. /\ g[0] = <<>> /\ (\A n \in 0 .. N + m : Text(g[n]))
        /\ \A n \in 0 .. l - 1 : g[n + 1] = IF after[n + 1].deleted THEN g[n] ELSE g[n] \o after[n + 1].text
    BY <2>2, <2>3
  <2> HIDE DEF Text
  <2> QED BY <2>4, <2>5
<1>9. /\ \A n \in 0 .. v : E(n) \in Nat
      /\ \A a, b \in 0 .. v : a < b => E(a) < E(b)
      /\ h \in 0 .. v /\ j \in 0 .. v /\ h \in Nat /\ j \in Nat
  BY <1>1, <1>2 DEF Growing
<1>10. \A n \in 1 .. N : Text(elements[n].text)
  <2>1. \A e \in Element : Text(e.text)
    BY DEF Element, Text
  <2>2. \A n \in 1 .. N : elements[n] \in Element
    <3> HIDE DEF Element
    <3> QED BY <1>1 DEF ElementList
  <2> QED BY <2>1, <2>2
<1> HIDE DEF E, shown
<1>11. \A a, b \in 0 .. v : a <= b => E(a) <= E(b)
  <2> SUFFICES ASSUME NEW a \in 0 .. v, NEW b \in 0 .. v, a <= b PROVE E(a) <= E(b)
    OBVIOUS
  <2>1. E(a) \in Nat /\ E(b) \in Nat /\ a \in Nat /\ b \in Nat
    BY <1>2, <1>9
  <2>2. CASE a = b
    BY <2>1, <2>2
  <2>3. CASE a < b
    <3>1. E(a) < E(b)
      BY <1>9, <2>3
    <3> QED BY <2>1, <3>1
  <2> QED BY <2>1, <2>2, <2>3
<1>12. \A n \in 0 .. N : at[n] \in 0 .. v /\ at[n] \in Nat /\ n \in Nat
  BY <1>2, <1>3
<1>13. p \in Nat /\ p <= N
  BY <1>2, <1>7
<1>14. ASSUME NEW n \in 0 .. p PROVE g[n] = f[n]
  <2> DEFINE S == {i \in Nat : i <= p => g[i] = f[i]}
  <2>1. 0 \in S
    BY <1>6, <1>8
  <2>2. \A i \in 0 .. p - 1 : i \in S => i + 1 \in S
    <3> SUFFICES ASSUME NEW i \in 0 .. p - 1, i \in S PROVE g[i + 1] = f[i + 1]
      OBVIOUS
    <3>1. i \in 0 .. N - 1 /\ i \in 0 .. N + m - 1 /\ i + 1 \in 1 .. p /\ i + 1 \in 0 .. N /\ p \in 0 .. N /\ i + 1 <= p
      BY <1>2, <1>13
    <3>2. at[i + 1] <= h
      BY <1>3, <1>7, <3>1
    <3>3. at[i + 1] \notin h + 1 .. j
      BY <1>9, <1>12, <3>1, <3>2
    <3>4. g[i] = f[i]
      BY <1>13
    <3> QED BY <1>6, <1>7, <1>8, <3>1, <3>3, <3>4
  <2> HIDE DEF S
  <2>3. \A i \in 0 .. p : i \in S
    BY <1>13, <2>1, <2>2, AllUpto
  <2>4. n \in S /\ n <= p
    BY <1>13, <2>3
  <2> QED BY <2>4 DEF S
<1>15. PICK s, e : s = E(h) /\ e = E(j)
  OBVIOUS
<1>16. s \in Nat /\ e \in Nat /\ s <= e /\ Len(f[p]) = s
  BY <1>4, <1>7, <1>9, <1>11, <1>15
\* The chain behind the first part.
<1>17. ASSUME NEW k \in 0 .. m
       PROVE  /\ Len(g[p + k]) = s + k /\ (\A i \in 1 .. s : g[p + k][i] = f[p][i])
              /\ \A i \in 1 .. k : g[p + k][s + i] = new[i]
  <2> DEFINE S == {n \in Nat : /\ Len(g[p + n]) = s + n /\ (\A i \in 1 .. s : g[p + n][i] = f[p][i])
                               /\ \A i \in 1 .. n : g[p + n][s + i] = new[i]}
  <2>1. 0 \in S
    <3>1. p + 0 = p /\ p \in 0 .. p /\ s + 0 = s
      BY <1>13, <1>16
    <3> QED BY <1>14, <1>16, <3>1
  <2>2. \A n \in 0 .. m - 1 : n \in S => n + 1 \in S
    <3> SUFFICES ASSUME NEW n \in 0 .. m - 1, n \in S PROVE n + 1 \in S
      OBVIOUS
    <3>1. p + n \in 0 .. N + m - 1 /\ n + 1 \in 1 .. m /\ (p + n) + 1 = p + (n + 1) /\ n \in Nat /\ n + 1 \in Nat
          /\ p + n \in 0 .. N + m
      BY <1>2, <1>13
    <3>2. PICK u, w, t : u = g[p + n] /\ w = g[p + (n + 1)] /\ t = <<new[n + 1]>>
      OBVIOUS
    <3>3. w = u \o t
      <4>1. after[p + (n + 1)].text = <<new[n + 1]>> /\ ~ after[p + (n + 1)].deleted
        BY <1>7, <3>1
      <4>2. PICK i : i = p + n
        OBVIOUS
      <4>3. g[i + 1] = IF after[i + 1].deleted THEN g[i] ELSE g[i] \o after[i + 1].text
        BY <1>8, <3>1, <4>2
      <4>4. i + 1 = p + (n + 1)
        BY <3>1, <4>2
      <4> QED BY <3>2, <4>1, <4>2, <4>3, <4>4
    <3>4. Text(u) /\ Text(t) /\ Len(t) = 1 /\ t[1] = new[n + 1]
      <4>1. Text(u)
        BY <1>8, <3>1, <3>2
      <4>2. new[n + 1] \in Nat
        BY <1>1, <3>1 DEF Text
      <4> QED BY <3>2, <4>1, <4>2 DEF Text
    <3>5. Joins(w, u, t)
      BY <3>3, <3>4, TextsJoin
    <3>6. Len(u) = s + n /\ (\A i \in 1 .. s : u[i] = f[p][i]) /\ \A i \in 1 .. n : u[s + i] = new[i]
      BY <3>2
    <3>7. Len(w) = (s + n) + 1 /\ (\A i \in 1 .. s + n : w[i] = u[i]) /\ w[(s + n) + 1] = new[n + 1]
      BY <3>4, <3>5, <3>6 DEF Joins
    <3>8. Len(w) = s + (n + 1) /\ (\A i \in 1 .. s : w[i] = f[p][i])
      BY <1>16, <3>1, <3>6, <3>7
    <3>9. ASSUME NEW i \in 1 .. n + 1 PROVE w[s + i] = new[i]
      <4>1. CASE i = n + 1
        <5>1. s + i = (s + n) + 1
          BY <1>16, <3>1, <4>1
        <5> QED BY <3>7, <4>1, <5>1
      <4>2. CASE i # n + 1
        <5>1. i \in 1 .. n /\ s + i \in 1 .. s + n
          BY <1>16, <3>1, <4>2
        <5> QED BY <3>6, <3>7, <5>1
      <4> QED BY <4>1, <4>2
    <3> QED BY <3>1, <3>2, <3>8, <3>9
  <2> HIDE DEF S
  <2>3. \A n \in 0 .. m : n \in S
    BY <1>2, <2>1, <2>2, AllUpto
  <2>4. k \in S
    BY <2>3
  <2> QED BY <2>4 DEF S
\* What was behind the span comes behind the chain.
<1>18. ASSUME NEW n \in 0 .. N, p <= n PROVE Woven(g[m + n], f[n], s, e, new)
  <2> DEFINE S == {i \in Nat : p <= i => Woven(g[m + i], f[i], s, e, new)}
  <2>1. Woven(g[m + p], f[p], s, e, new)
    <3>1. m \in 0 .. m /\ p + m = m + p
      BY <1>2, <1>13
    <3>2. /\ Len(g[m + p]) = s + m /\ (\A i \in 1 .. s : g[m + p][i] = f[p][i])
          /\ \A i \in 1 .. m : g[m + p][s + i] = new[i]
      BY <1>17, <3>1
    <3>3. PICK u, w : u = g[m + p] /\ w = f[p]
      OBVIOUS
    <3>4. /\ (IF Len(w) <= e THEN 0 ELSE Len(w) - e) = 0 /\ s <= Len(w) /\ Len(u) = s + m + 0
      BY <1>2, <1>16, <3>2, <3>3
    <3>5. \A i \in 1 .. 0 : u[s + m + i] = w[e + i]
      OBVIOUS
    <3>6. Woven(u, w, s, e, new)
      BY <1>1, <3>2, <3>3, <3>4, <3>5 DEF Woven
    <3> QED BY <3>3, <3>6
  <2>2. 0 \in S
    <3>1. CASE p = 0
      BY <2>1, <3>1
    <3>2. CASE p # 0
      BY <1>13, <3>2
    <3> QED BY <3>1, <3>2
  <2>3. \A i \in 0 .. N - 1 : i \in S => i + 1 \in S
    <3> SUFFICES ASSUME NEW i \in 0 .. N - 1, i \in S, p <= i + 1 PROVE Woven(g[m + (i + 1)], f[i + 1], s, e, new)
      <4>1. \A i \in 0 .. N - 1 : i + 1 \in Nat
        BY <1>2
      <4> QED BY <4>1
    <3>1. CASE p = i + 1
      BY <2>1, <3>1
    <3>2. CASE p # i + 1
      <4>1. /\ p <= i /\ i \in Nat /\ i + 1 \in p + 1 .. N /\ m + i \in 0 .. N + m - 1 /\ (m + i) + 1 = m + (i + 1)
            /\ i \in 0 .. N /\ i + 1 \in 0 .. N /\ i + 1 \in 1 .. N /\ m + i \in 0 .. N + m /\ p \in 0 .. N
        BY <1>2, <1>13, <3>2
      <4>2. Woven(g[m + i], f[i], s, e, new)
        BY <4>1
      <4>3. /\ g[m + (i + 1)] = IF after[m + (i + 1)].deleted THEN g[m + i] ELSE g[m + i] \o elements[i + 1].text
            /\ after[m + (i + 1)].deleted <=> elements[i + 1].deleted \/ at[i + 1] \in h + 1 .. j
        BY <1>7, <1>8, <4>1
      <4>4. f[i + 1] = IF elements[i + 1].deleted THEN f[i] ELSE f[i] \o elements[i + 1].text
        BY <1>6, <4>1
      <4>5. CASE elements[i + 1].deleted
        BY <4>2, <4>3, <4>4, <4>5
      <4>6. CASE ~ elements[i + 1].deleted
        <5>1. at[i + 1] = at[i] + 1 /\ h <= at[i] /\ at[i] \in 0 .. v /\ at[i + 1] \in 0 .. v /\ at[i] \in Nat
          BY <1>3, <1>7, <1>12, <4>1, <4>6
        <5>2. PICK u, w, t : u = g[m + i] /\ w = f[i] /\ t = elements[i + 1].text
          OBVIOUS
        <5>3. Text(u) /\ Text(w) /\ Text(t) /\ Woven(u, w, s, e, new)
          BY <1>6, <1>8, <1>10, <4>1, <4>2, <5>2
        <5>4. f[i + 1] = w \o t
          BY <4>4, <4>6, <5>2
        <5>5. CASE at[i + 1] <= j
          <6>1. at[i + 1] \in h + 1 .. j
            BY <1>9, <5>1, <5>5
          <6>2. g[m + (i + 1)] = u
            BY <4>3, <5>2, <6>1
          <6>3. Len(w \o t) <= e
            BY <1>4, <1>9, <1>11, <1>15, <4>1, <5>1, <5>4, <5>5
          <6>4. Woven(u, w \o t, s, e, new)
            BY <1>16, <5>3, <6>3, WovenGrows
          <6> QED BY <5>4, <6>2, <6>4
        <5>6. CASE j < at[i + 1]
          <6>1. at[i + 1] \notin h + 1 .. j /\ j <= at[i]
            BY <1>9, <5>1, <5>6
          <6>2. g[m + (i + 1)] = u \o t
            BY <4>3, <4>6, <5>2, <6>1
          <6>3. e <= Len(w)
            BY <1>4, <1>9, <1>11, <1>15, <4>1, <5>1, <5>2, <6>1
          <6>4. Woven(u \o t, w \o t, s, e, new)
            BY <1>16, <5>3, <6>3, WovenGrows
          <6> QED BY <5>4, <6>2, <6>4
        <5> QED BY <1>9, <5>1, <5>5, <5>6
      <4> QED BY <4>5, <4>6
    <3> QED BY <3>1, <3>2
  <2> HIDE DEF S
  <2>4. \A i \in 0 .. N : i \in S
    BY <1>2, <2>2, <2>3, AllUpto
  <2>5. n \in S
    BY <2>4
  <2> QED BY <1>18, <2>5 DEF S
<1>19. Woven(g[m + N], f[N], s, e, new)
  BY <1>2, <1>13, <1>18
<1>20. m + N = Len(after)
  BY <1>2, <1>7
<1> QED BY <1>4, <1>5, <1>15, <1>19, <1>20 DEF E, shown
-----------------------------------------------------------------------------
(* The part of a history that a replica holds where delivery is causal. *)

\* A part that holds what its operations refer to and what their writers wrote
\* before.
Causal(H, W) ==
  DownIn(H, W) /\ \A op \in H : \A ref \in op.refs : \E o \in H : o.origin = ref[1] /\ o.seq = ref[2]

\* A causal part holds what the writers of its operations had.
LEMMA KnownIsHeld ==
  ASSUME NEW W, OpSet(W), NEW H, Causal(H, W), NEW op \in H, NEW p \in W, Knows(op, p)
  PROVE  p \in H
<1>1. H \subseteq W /\ \A a \in H, o \in W : o.origin = a.origin /\ o.seq < a.seq => o \in H
  BY DEF Causal, DownIn
<1>2. CASE p.origin = op.origin /\ p.seq < op.seq
  BY <1>1, <1>2
<1>3. CASE \E ref \in op.refs : p.origin = ref[1] /\ p.seq <= ref[2]
  <2>1. PICK ref \in op.refs : p.origin = ref[1] /\ p.seq <= ref[2]
    BY <1>3
  <2>2. PICK o \in H : o.origin = ref[1] /\ o.seq = ref[2]
    BY DEF Causal
  <2>3. o \in W /\ o.origin = p.origin /\ p.seq <= o.seq /\ p.seq \in Nat /\ o.seq \in Nat
    BY <1>1, <2>1, <2>2 DEF OpSet, IsOp
  <2>4. CASE p.seq = o.seq
    BY <2>3, <2>4 DEF OpSet, Distinct
  <2>5. CASE p.seq < o.seq
    BY <1>1, <2>3, <2>5
  <2> QED BY <2>3, <2>4, <2>5
<1> QED BY <1>2, <1>3 DEF Knows

\* A causal part of an anchored history is coherent in itself.
LEMMA CausalPart ==
  ASSUME NEW W, OpSet(W), Founded(W), Anchored(W), NEW H, Causal(H, W)
  PROVE  Coherent(H)
<1>1. H \subseteq W /\ \A op \in H, o \in W : o.origin = op.origin /\ o.seq < op.seq => o \in H
  BY DEF Causal, DownIn
<1>2. OpSet(H)
  BY <1>1, OpSetPart
<1>3. \A op \in W : op.seq \in Nat
  BY DEF OpSet, IsOp
<1>4. Founded(H)
  <2>1. ASSUME NEW op \in H, NEW ref \in op.refs
        PROVE  \E o \in H : o.origin = ref[1] /\ o.seq = ref[2] /\ o.lamport < op.lamport
    <3>1. PICK o \in H : o.origin = ref[1] /\ o.seq = ref[2]
      BY DEF Causal
    <3>2. PICK p \in W : p.origin = ref[1] /\ p.seq = ref[2] /\ p.lamport < op.lamport
      BY <1>1 DEF Founded
    <3>3. o = p
      BY <1>1, <3>1, <3>2 DEF OpSet, Distinct
    <3> QED BY <3>1, <3>2, <3>3
  <2>2. ASSUME NEW op \in H, NEW below \in H, below.origin = op.origin, below.seq < op.seq
        PROVE  \E o \in H : o.origin = op.origin /\ o.seq + 1 = op.seq /\ o.lamport < op.lamport
    <3>1. PICK o \in W : o.origin = op.origin /\ o.seq + 1 = op.seq /\ o.lamport < op.lamport
      BY <1>1, <2>2 DEF Founded
    <3>2. o \in H
      BY <1>1, <1>3, <3>1
    <3> QED BY <3>1, <3>2
  <2> QED BY <2>1, <2>2 DEF Founded
<1>5. Insertions(H) \subseteq Insertions(W) /\ Insertions(H) \subseteq H /\ Insertions(W) \subseteq W
  BY <1>1 DEF Insertions
<1>6. Unique(H)
  BY <1>5 DEF Unique, Anchored
<1>7. Parented(H)
  <2> SUFFICES ASSUME NEW op \in Insertions(H), op.edit.after # Root
               PROVE  \E p \in Insertions(H) : p.edit.id = op.edit.after /\ p.lamport < op.lamport
    BY DEF Parented
  <2>1. PICK p \in Insertions(W) : p.edit.id = op.edit.after /\ p.lamport < op.lamport /\ Knows(op, p)
    BY <1>5 DEF Anchored
  <2>2. p \in H
    BY <1>5, <2>1, KnownIsHeld
  <2>3. p \in Insertions(H)
    BY <2>1, <2>2 DEF Insertions
  <2> QED BY <2>1, <2>3
<1> QED BY <1>2, <1>4, <1>6, <1>7 DEF Coherent

\* An element shows the text of an insertion of its atom.
InsertedBy(ops, e) == \E op \in Insertions(ops) : op.edit.id = e.atom /\ op.edit.text = e.text

\* Every element is that of an insertion that is held.
LEMMA ElementsHeld ==
  ASSUME NEW ops, OpSet(ops), NEW elements, elements = Assembled(ops).elements
  PROVE  ElementList(elements) /\ \A n \in 1 .. Len(elements) : InsertedBy(ops, elements[n])
<1> DEFINE A == Inserted(<<>>, Applied(ops))
<1> DEFINE F == Applied(ops)
<1> DEFINE order == TreeOrder(A)
<1>1. ElementList(elements)
  BY AssembledTyped
<1>2. NodeOps(Given(ops)) /\ F \subseteq Given(ops) /\ NodeOps(F)
  <2>1. NodeOps(Given(ops)) /\ Given(ops) \in SUBSET Given(ops)
    BY GivenFacts
  <2>2. F \subseteq Given(ops)
    BY <2>1, SettledFromNone DEF Applied
  <2> QED BY <2>1, <2>2, NodeOpsPart
<1>3. AtomMap(A)
  BY <1>2, AtomsTyped DEF AtomMap
<1>4. order \in Seq(DOMAIN A)
  BY <1>3, TreeOrderTyped
<1>5. elements = [n \in DOMAIN order |->
         [id |-> PublicId(order[n], A[order[n]].key), atom |-> order[n],
          text |-> A[order[n]].text, deleted |-> order[n] \in Deleted(F)]]
  BY DEF Assembled, Elements
<1>6. ASSUME NEW id \in DOMAIN A PROVE \E op \in Insertions(ops) : op.edit.id = id /\ op.edit.text = A[id].text
  <2>1. \A x : x \notin DOMAIN <<>>
    OBVIOUS
  <2>2. A = [x \in {op.edit.id : op \in Insertions(F)} |-> Foremost(Claims(F, x))]
    BY <2>1 DEF Inserted
  <2>3. id \in {op.edit.id : op \in Insertions(F)} /\ A[id] = Foremost(Claims(F, id))
    BY <2>2
  <2>4. Claims(F, id) \in SUBSET Claim /\ IsFiniteSet(Claims(F, id)) /\ Claims(F, id) # {}
    BY <1>2, <2>3, ClaimsFacts
  <2>5. A[id] \in Claims(F, id)
    BY <2>3, <2>4, ForemostIs
  <2>6. PICK n \in Insertions(F) : n.edit.id = id /\ A[id].text = n.edit.text
    BY <2>5 DEF Claims
  <2>7. PICK op \in ops : n = Normalized(op, BasesOf(ops))
    BY <1>2 DEF Insertions, Given, NormalizedAll
  <2>8. n.edit = op.edit
    BY <2>7 DEF Normalized
  <2>9. op \in Insertions(ops)
    BY <2>8 DEF Insertions
  <2> QED BY <2>6, <2>8, <2>9
<1> HIDE DEF A, F
<1>7. DOMAIN order = 1 .. Len(order) /\ \A n \in 1 .. Len(order) : order[n] \in DOMAIN A
  BY <1>4
<1> HIDE DEF order
<1>8. Len(elements) = Len(order)
  <2>1. Len(order) \in Nat
    BY <1>4
  <2> QED BY <1>5, <1>7, <2>1
<1>9. ASSUME NEW n \in 1 .. Len(elements) PROVE InsertedBy(ops, elements[n])
  <2>1. n \in DOMAIN order /\ order[n] \in DOMAIN A
    BY <1>7, <1>8
  <2>2. elements[n].atom = order[n] /\ elements[n].text = A[order[n]].text
    BY <1>5, <2>1
  <2> QED BY <1>6, <2>1, <2>2 DEF InsertedBy
<1> QED BY <1>1, <1>9

\* So is every visible one, and none is empty.
LEMMA ShownHeld ==
  ASSUME NEW ops, OpSet(ops), NEW elements, elements = Assembled(ops).elements
  PROVE  /\ ElementList(elements) /\ ElementList(Visible(elements)) /\ Solid(Visible(elements))
         /\ \A k \in 1 .. Len(Visible(elements)) : InsertedBy(ops, Visible(elements)[k])
<1>1. ElementList(elements) /\ \A n \in 1 .. Len(elements) : InsertedBy(ops, elements[n])
  BY ElementsHeld
<1>2. ElementList(Visible(elements))
  BY <1>1, VisibleTyped DEF ElementList
<1>3. PICK at : Counts(elements, at)
  BY <1>1, CountsExist
<1> DEFINE shown == Visible(elements)
<1>4. ASSUME NEW k \in 1 .. Len(shown) PROVE InsertedBy(ops, shown[k])
  <2>1. PICK n \in 1 .. Len(elements) : ~ elements[n].deleted /\ at[n] = k
    BY <1>3 DEF Counts
  <2>2. shown[k] = elements[n]
    <3>1. n - 1 \in 0 .. Len(elements) - 1 /\ (n - 1) + 1 = n
      BY <1>1 DEF ElementList
    <3> QED BY <1>3, <2>1, <3>1 DEF Counts
  <2> QED BY <1>1, <2>2
<1>5. Solid(shown)
  <2> SUFFICES ASSUME NEW k \in 1 .. Len(shown) PROVE shown[k].text # <<>>
    BY DEF Solid
  <2> HIDE DEF shown
  <2>1. PICK op \in Insertions(ops) : op.edit.text = shown[k].text
    BY <1>4 DEF InsertedBy
  <2>2. op.edit.kind = "insert" /\ IsEdit(op.edit)
    BY DEF Insertions, OpSet, IsOp
  <2> QED BY <2>1, <2>2 DEF IsEdit
<1> QED BY <1>1, <1>2, <1>4, <1>5
-----------------------------------------------------------------------------
(* What a replacement writes keeps the history anchored. *)

\* An id of a replica is the id of an insertion of that replica.
Signed(W) ==
  \A op \in W : op.edit.id[2] \in Replicas =>
    \E p \in Insertions(W) : p.edit.id = op.edit.id /\ p.origin = op.edit.id[2]

\* The operations for the first n edits of a plan.
Sends(r, held, minted, shown, first, h, j, new, n) ==
  /\ n \in 1 .. (j - h) + Len(new)
  /\ minted = {Mint(held, r, IF k <= j - h THEN [kind |-> "delete", id |-> shown[h + k].atom]
                             ELSE [kind |-> "insert", id |-> AtomAt(first, k - (j - h)), text |-> <<new[k - (j - h)]>>,
                                   after |-> IF k - (j - h) = 1 THEN Behind(shown, h) ELSE AtomAt(first, k - (j - h) - 1)],
                    k) : k \in 1 .. n}

\* The operations for the first n edits of a plan, edit by edit.
LEMMA PlanSends ==
  ASSUME NEW r, NEW held, NEW shown, NEW edits, Len(edits) \in Nat, NEW first, NEW h \in Nat, NEW j \in Nat, h <= j, NEW new, Text(new),
         PlanOf(shown, edits, first, h, j, new), NEW n \in 1 .. Len(edits)
  PROVE  Sends(r, held, MintedOf(held, r, SubSeq(edits, 1, n)), shown, first, h, j, new, n)
<1> DEFINE E(k) == IF k <= j - h THEN [kind |-> "delete", id |-> shown[h + k].atom]
                   ELSE [kind |-> "insert", id |-> AtomAt(first, k - (j - h)), text |-> <<new[k - (j - h)]>>,
                         after |-> IF k - (j - h) = 1 THEN Behind(shown, h) ELSE AtomAt(first, k - (j - h) - 1)]
<1>1. Len(new) \in Nat /\ j - h \in Nat /\ Len(edits) = (j - h) + Len(new)
  BY DEF Text, PlanOf
<1>2. ASSUME NEW k \in 1 .. n PROVE edits[k] = E(k)
  <2>1. CASE k <= j - h
    <3>1. k \in 1 .. j - h
      BY <1>1, <2>1
    <3> QED BY <2>1, <3>1 DEF PlanOf
  <2>2. CASE ~ k <= j - h
    <3>1. PICK i : i = k - (j - h)
      OBVIOUS
    <3>2. i \in 1 .. Len(new) /\ (j - h) + i = k
      BY <1>1, <2>2, <3>1
    <3>3. edits[(j - h) + i] = [kind |-> "insert", id |-> AtomAt(first, i), text |-> <<new[i]>>,
                                after |-> IF i = 1 THEN Behind(shown, h) ELSE AtomAt(first, i - 1)]
      BY <3>2 DEF PlanOf
    <3> QED BY <2>2, <3>1, <3>2, <3>3
  <2> QED BY <2>1, <2>2
<1> DEFINE part == SubSeq(edits, 1, n)
<1>3. part = [k \in 1 .. n |-> edits[k]]
  <2>1. part = [k \in 1 .. n - 1 + 1 |-> edits[k + 1 - 1]]
    OBVIOUS
  <2> QED BY <2>1
<1>4. DOMAIN part = 1 .. n /\ \A k \in 1 .. n : part[k] = E(k)
  BY <1>2, <1>3
<1> HIDE DEF part, E
<1>5. MintedOf(held, r, part) = {Mint(held, r, E(k), k) : k \in 1 .. n}
  BY <1>4 DEF MintedOf
<1>6. n \in 1 .. (j - h) + Len(new)
  BY <1>1
<1> QED BY <1>5, <1>6 DEF Sends, E, part

\* The operations one by one.
Sent(M, r, held, minted, shown, first, h, j, new, n) ==
  /\ minted = {M[k] : k \in 1 .. n}
  /\ \A k \in 1 .. n :
       /\ M[k].origin = r /\ M[k].seq = FirstOf(held, r) + k - 1 /\ M[k].lamport = InsertionOrder(held) - 1 + k
       /\ k = 1 => M[k].refs = Heads(held)
       /\ k # 1 => {ref \in Heads(held) : ref[1] # r} \subseteq M[k].refs
       /\ k <= j - h => M[k].edit.kind = "delete" /\ M[k].edit.id = shown[h + k].atom
       /\ k > j - h => /\ M[k].edit.kind = "insert" /\ M[k].edit.id = AtomAt(first, k - (j - h))
                       /\ M[k].edit.text = <<new[k - (j - h)]>>
                       /\ M[k].edit.after = IF k - (j - h) = 1 THEN Behind(shown, h) ELSE AtomAt(first, k - (j - h) - 1)

\* They are numbered, ranked and chained one on top of the other.
LEMMA SentOneByOne ==
  ASSUME NEW r, NEW held, NEW minted, NEW shown, NEW first, NEW h \in Nat, NEW j \in Nat, NEW new, NEW n,
         Sends(r, held, minted, shown, first, h, j, new, n)
  PROVE  \E M : Sent(M, r, held, minted, shown, first, h, j, new, n)
<1> DEFINE E(k) == IF k <= j - h THEN [kind |-> "delete", id |-> shown[h + k].atom]
                   ELSE [kind |-> "insert", id |-> AtomAt(first, k - (j - h)), text |-> <<new[k - (j - h)]>>,
                         after |-> IF k - (j - h) = 1 THEN Behind(shown, h) ELSE AtomAt(first, k - (j - h) - 1)]
<1> DEFINE M == [k \in 1 .. n |-> Mint(held, r, E(k), k)]
<1>1. minted = {Mint(held, r, E(k), k) : k \in 1 .. n}
  BY DEF Sends
<1>2. ASSUME NEW k \in Int
      PROVE  /\ k <= j - h => E(k).kind = "delete" /\ E(k).id = shown[h + k].atom
             /\ k > j - h => /\ E(k).kind = "insert" /\ E(k).id = AtomAt(first, k - (j - h))
                             /\ E(k).text = <<new[k - (j - h)]>>
                             /\ E(k).after = IF k - (j - h) = 1 THEN Behind(shown, h) ELSE AtomAt(first, k - (j - h) - 1)
  BY <1>2
<1> HIDE DEF E
<1>3. \A k \in 1 .. n : M[k] = Mint(held, r, E(k), k) /\ k \in Int
  OBVIOUS
<1>4. minted = {M[k] : k \in 1 .. n}
  BY <1>1
<1> HIDE DEF M
<1>5. ASSUME NEW k \in 1 .. n
      PROVE  /\ M[k].origin = r /\ M[k].seq = FirstOf(held, r) + k - 1 /\ M[k].lamport = InsertionOrder(held) - 1 + k
             /\ k = 1 => M[k].refs = Heads(held)
             /\ k # 1 => {ref \in Heads(held) : ref[1] # r} \subseteq M[k].refs
             /\ M[k].edit = E(k)
  <2>1. PICK m : m = M[k]
    OBVIOUS
  <2>2. m = Mint(held, r, E(k), k)
    BY <1>3, <2>1
  <2>3. m.origin = r /\ m.seq = FirstOf(held, r) + k - 1 /\ m.lamport = InsertionOrder(held) - 1 + k /\ m.edit = E(k)
    BY <2>2 DEF Mint
  <2>4. m.refs = IF k = 1 THEN Heads(held)
                 ELSE {ref \in Heads(held) : ref[1] # r} \cup {<<r, FirstOf(held, r) + k - 2>>}
    BY <2>2 DEF Mint
  <2> QED BY <2>1, <2>3, <2>4
<1>6. ASSUME NEW k \in 1 .. n
      PROVE  /\ k <= j - h => M[k].edit.kind = "delete" /\ M[k].edit.id = shown[h + k].atom
             /\ k > j - h => /\ M[k].edit.kind = "insert" /\ M[k].edit.id = AtomAt(first, k - (j - h))
                             /\ M[k].edit.text = <<new[k - (j - h)]>>
                             /\ M[k].edit.after = IF k - (j - h) = 1 THEN Behind(shown, h) ELSE AtomAt(first, k - (j - h) - 1)
  <2>1. M[k].edit = E(k) /\ k \in Int
    BY <1>3, <1>5
  <2> QED BY <1>2, <2>1
<1> QED BY <1>4, <1>5, <1>6 DEF Sent
\* What the insertions that are held say: ranks below the next one, and heads that
\* refer to each.
LEMMA HeldFacts ==
  ASSUME NEW W, OpSet(W), Anchored(W), Signed(W), NEW r \in Replicas, NEW held, held \subseteq W,
         \A op \in W : op.origin = r => op \in held, NEW R, R = InsertionOrder(held)
  PROVE  /\ R \in Nat \ {0} /\ Insertions(held) \subseteq Insertions(W)
         /\ \A o \in Insertions(held) : o.edit.id[1] \in Nat /\ o.edit.id[1] < R /\ o.lamport \in Nat /\ o.lamport < R
         /\ \A o \in Insertions(W) : o.edit.id[2] = r => o \in Insertions(held)
         /\ \A op \in W : op.edit.id[2] = r => \E p \in Insertions(held) : p.edit.id = op.edit.id
         /\ \A p \in held : p.origin # r => \E ref \in Heads(held) : ref[1] = p.origin /\ p.seq <= ref[2]
         /\ \A p \in held : \E ref \in Heads(held) : ref[1] = p.origin /\ p.seq <= ref[2]
         /\ \A p \in held : p.origin = r => p.seq < FirstOf(held, r)
         /\ FirstOf(held, r) \in Nat
<1>1. OpSet(held)
  BY OpSetPart
<1>2. R \in Nat \ {0} /\ \A o \in held : o.lamport < R
  BY <1>1, OrderFacts
<1>3. Insertions(held) \subseteq Insertions(W) /\ Insertions(held) \subseteq held /\ Insertions(W) \subseteq W
  BY DEF Insertions
<1>4. ASSUME NEW o \in Insertions(held)
      PROVE  o.edit.id[1] \in Nat /\ o.edit.id[1] < R /\ o.lamport \in Nat /\ o.lamport < R
  <2>1. o.lamport \in Nat /\ IsEdit(o.edit)
    BY <1>1, <1>3 DEF OpSet, IsOp
  <2>2. o.edit.id \in AtomId
    BY <2>1 DEF IsEdit
  <2>3. o.edit.id[1] \in Nat
    BY <2>2 DEF AtomId
  <2>4. o.edit.id[1] <= o.lamport /\ o.lamport < R
    BY <1>2, <1>3 DEF Anchored
  <2> QED BY <1>2, <2>1, <2>3, <2>4
<1>5. ASSUME NEW op \in W, op.edit.id[2] = r PROVE \E p \in Insertions(held) : p.edit.id = op.edit.id
  <2>1. PICK p \in Insertions(W) : p.edit.id = op.edit.id /\ p.origin = r
    BY <1>5 DEF Signed
  <2>2. p \in Insertions(held)
    BY <1>3, <2>1 DEF Insertions
  <2> QED BY <2>1, <2>2
<1>6. ASSUME NEW o \in Insertions(W), o.edit.id[2] = r PROVE o \in Insertions(held)
  <2>1. PICK p \in Insertions(held) : p.edit.id = o.edit.id
    BY <1>3, <1>5, <1>6
  <2>2. p = o
    BY <1>3, <2>1 DEF Anchored
  <2> QED BY <2>1, <2>2
<1>7. ASSUME NEW p \in held PROVE \E ref \in Heads(held) : ref[1] = p.origin /\ p.seq <= ref[2]
  <2>1. Of(held, p.origin) # {}
    BY DEF Of
  <2>2. p.seq <= Latest(held, p.origin)
    BY <1>1, <2>1, LatestFacts
  <2>3. <<p.origin, Latest(held, p.origin)>> \in Heads(held)
    BY DEF Heads
  <2> QED BY <2>2, <2>3
<1>8. FirstOf(held, r) \in Nat /\ \A p \in held : p.origin = r => p.seq < FirstOf(held, r)
  <2>1. CASE Of(held, r) = {}
    <3>1. FirstSeq[r] \in Nat
      BY ReplicasAssumption
    <3> QED BY <2>1, <3>1 DEF FirstOf, Of
  <2>2. CASE Of(held, r) # {}
    <3>1. Latest(held, r) \in Nat /\ \A p \in held : p.origin = r => p.seq <= Latest(held, r)
      BY <1>1, <2>2, LatestFacts
    <3>2. \A p \in held : p.seq \in Nat
      BY <1>1 DEF OpSet, IsOp
    <3>3. FirstOf(held, r) = Latest(held, r) + 1
      BY <2>2 DEF FirstOf
    <3> QED BY <3>1, <3>2, <3>3
  <2> QED BY <2>1, <2>2
<1> QED BY <1>2, <1>3, <1>4, <1>5, <1>6, <1>7, <1>8

\* With them the history is still anchored and signed.
LEMMA SentAnchors ==
  ASSUME NEW W, OpSet(W), Anchored(W), Signed(W), NEW r \in Replicas, NEW held, held \subseteq W,
         \A op \in W : op.origin = r => op \in held,
         NEW shown, NEW h \in Nat, NEW j \in Nat, h <= j, j <= Len(shown), Len(shown) \in Nat,
         \A k \in 1 .. Len(shown) : InsertedBy(held, shown[k]),
         NEW c \in Nat, NEW first, first = <<InsertionOrder(held), r, c>>, NEW new, NEW n \in Nat, NEW M, NEW minted,
         Sent(M, r, held, minted, shown, first, h, j, new, n)
  PROVE  Anchored(W \cup minted) /\ Signed(W \cup minted)
<1>1. PICK R : R = InsertionOrder(held)
  OBVIOUS
<1>2. PICK d : d = j - h
  OBVIOUS
<1>3. PICK F : F = FirstOf(held, r)
  OBVIOUS
<1>4. /\ R \in Nat \ {0} /\ Insertions(held) \subseteq Insertions(W)
      /\ \A o \in Insertions(held) : o.edit.id[1] \in Nat /\ o.edit.id[1] < R /\ o.lamport \in Nat /\ o.lamport < R
      /\ \A o \in Insertions(W) : o.edit.id[2] = r => o \in Insertions(held)
      /\ \A p \in held : \E ref \in Heads(held) : ref[1] = p.origin /\ p.seq <= ref[2]
      /\ \A p \in held : p.origin = r => p.seq < F
      /\ F \in Nat
  BY <1>1, <1>3, HeldFacts
<1>5. d \in Nat /\ h + d = j /\ \A k \in 1 .. n : k \in Nat \ {0}
  BY <1>2
<1>6. /\ minted = {M[k] : k \in 1 .. n}
      /\ \A k \in 1 .. n :
           /\ M[k].origin = r /\ M[k].seq = F + k - 1 /\ M[k].lamport = R - 1 + k
           /\ k = 1 => M[k].refs = Heads(held)
           /\ k # 1 => {ref \in Heads(held) : ref[1] # r} \subseteq M[k].refs
           /\ k <= d => M[k].edit.kind = "delete" /\ M[k].edit.id = shown[h + k].atom
           /\ k > d => /\ M[k].edit.kind = "insert" /\ M[k].edit.id = AtomAt(first, k - d)
                       /\ M[k].edit.after = IF k - d = 1 THEN Behind(shown, h) ELSE AtomAt(first, k - d - 1)
  BY <1>1, <1>2, <1>3 DEF Sent
<1>7. \A i : AtomAt(first, i) = <<R + i - 1, r, c + i - 1>>
  BY <1>1 DEF AtomAt
<1>8. ASSUME NEW op \in Insertions(minted) PROVE \E k \in 1 .. n : k > d /\ op = M[k]
  <2>1. PICK k \in 1 .. n : op = M[k]
    BY <1>6 DEF Insertions
  <2>2. op.edit.kind = "insert"
    BY DEF Insertions
  <2> QED BY <1>5, <1>6, <2>1, <2>2
<1>9. ASSUME NEW k \in 1 .. n, k > d PROVE M[k] \in Insertions(minted)
  BY <1>6, <1>9 DEF Insertions
<1>10. Insertions(W \cup minted) = Insertions(W) \cup Insertions(minted)
  BY DEF Insertions
<1>11. ASSUME NEW k \in 1 .. n, k > d
       PROVE  /\ M[k].edit.id[1] <= M[k].lamport /\ M[k].edit.id[1] \in Nat /\ M[k].edit.id[1] >= R
              /\ M[k].edit.id[1] = R + (k - d) - 1 /\ M[k].edit.id[2] = r
  <2>1. M[k].edit.id = <<R + (k - d) - 1, r, c + (k - d) - 1>> /\ M[k].lamport = R - 1 + k
    BY <1>6, <1>7, <1>11
  <2> QED BY <2>1, <1>4, <1>5, <1>11
<1>12. ASSUME NEW k \in 1 .. n, k > d, NEW o \in Insertions(W \cup minted), o.edit.id = M[k].edit.id PROVE o = M[k]
  <2>1. CASE o \in Insertions(W)
    <3>1. o.edit.id[2] = r /\ o.edit.id[1] >= R
      BY <1>11, <1>12
    <3>2. o.edit.id[1] < R /\ o.edit.id[1] \in Nat
      BY <1>4, <2>1, <3>1
    <3> QED BY <1>4, <3>1, <3>2
  <2>2. CASE o \in Insertions(minted)
    <3>1. PICK i \in 1 .. n : i > d /\ o = M[i]
      BY <1>8, <2>2
    <3>2. R + (i - d) - 1 = R + (k - d) - 1
      BY <1>11, <1>12, <3>1
    <3>3. i = k
      BY <1>4, <1>5, <3>2
    <3> QED BY <3>1, <3>3
  <2> QED BY <1>10, <2>1, <2>2
<1>13. ASSUME NEW k \in 1 .. n, NEW p \in held PROVE Knows(M[k], p)
  <2>1. PICK ref \in Heads(held) : ref[1] = p.origin /\ p.seq <= ref[2]
    BY <1>4
  <2>2. CASE p.origin = r
    <3>1. p \in W /\ p.seq \in Nat /\ p.seq < F
      BY <1>4, <2>2 DEF OpSet, IsOp
    <3>2. M[k].origin = r /\ M[k].seq = F + k - 1
      BY <1>6
    <3>3. p.seq < F + k - 1
      BY <1>4, <1>5, <3>1
    <3> QED BY <2>2, <3>2, <3>3 DEF Knows
  <2>3. CASE p.origin # r
    <3>1. ref \in M[k].refs
      BY <1>6, <2>1, <2>3
    <3> QED BY <2>1, <3>1 DEF Knows
  <2> QED BY <2>2, <2>3
<1>14. ASSUME NEW k \in 1 .. n, k > d
       PROVE  \/ M[k].edit.after = Root
              \/ \E p \in Insertions(W \cup minted) :
                   p.edit.id = M[k].edit.after /\ p.lamport < M[k].lamport /\ Knows(M[k], p)
  <2>1. CASE k - d = 1 /\ h = 0
    <3>1. M[k].edit.after = Behind(shown, h)
      BY <1>6, <1>14, <2>1
    <3> QED BY <2>1, <3>1 DEF Behind
  <2>2. CASE k - d = 1 /\ h # 0
    <3>1. M[k].edit.after = shown[h].atom /\ h \in 1 .. Len(shown)
      BY <1>6, <1>14, <2>2 DEF Behind
    <3>2. PICK p \in Insertions(held) : p.edit.id = shown[h].atom
      BY <3>1 DEF InsertedBy
    <3>3. p.lamport < R /\ p.lamport \in Nat /\ p \in held /\ p \in Insertions(W \cup minted)
      BY <1>4, <1>10 DEF Insertions
    <3>4. p.lamport < M[k].lamport
      <4>1. M[k].lamport = R - 1 + k
        BY <1>6
      <4> QED BY <1>4, <1>5, <3>3, <4>1
    <3> QED BY <1>13, <3>1, <3>2, <3>3, <3>4
  <2>3. CASE k - d # 1
    <3>1. PICK q : q = k - 1
      OBVIOUS
    <3>2. q \in 1 .. n /\ q > d /\ q - d = k - d - 1 /\ k = q + 1
      BY <1>5, <1>14, <2>3, <3>1
    <3>3. M[k].edit.after = AtomAt(first, q - d) /\ M[q].edit.id = AtomAt(first, q - d)
      BY <1>6, <1>14, <2>3, <3>2
    <3>4. M[q] \in Insertions(W \cup minted)
      BY <1>9, <1>10, <3>2
    <3>5. M[k].seq = F + k - 1 /\ M[q].seq = F + q - 1 /\ M[k].lamport = R - 1 + k /\ M[q].lamport = R - 1 + q
          /\ M[k].origin = r /\ M[q].origin = r
      BY <1>6, <3>2
    <3>6. M[q].lamport < M[k].lamport /\ M[q].seq < M[k].seq
      <4>1. q \in Nat /\ k \in Nat
        BY <1>5, <3>2
      <4>2. R - 1 + q < R - 1 + k /\ F + q - 1 < F + k - 1
        BY <1>4, <3>2, <4>1
      <4> QED BY <3>5, <4>2
    <3> QED BY <3>3, <3>4, <3>5, <3>6 DEF Knows
  <2> QED BY <2>1, <2>2, <2>3
<1>15. ASSUME NEW op \in Insertions(W), NEW o \in Insertions(W \cup minted), o.edit.id = op.edit.id PROVE o = op
  <2>1. CASE o \in Insertions(W)
    BY <1>15, <2>1 DEF Anchored
  <2>2. CASE o \in Insertions(minted)
    <3>1. PICK k \in 1 .. n : k > d /\ o = M[k]
      BY <1>8, <2>2
    <3>2. op \in Insertions(W \cup minted)
      BY <1>10
    <3> QED BY <1>12, <1>15, <3>1, <3>2
  <2> QED BY <1>10, <2>1, <2>2
<1>16. Anchored(W \cup minted)
  <2>1. ASSUME NEW op \in Insertions(W)
        PROVE  /\ op.edit.id[1] <= op.lamport
               /\ op.edit.after = Root
                  \/ \E p \in Insertions(W \cup minted) :
                       p.edit.id = op.edit.after /\ p.lamport < op.lamport /\ Knows(op, p)
    BY <1>10 DEF Anchored
  <2>2. ASSUME NEW op \in Insertions(W \cup minted)
        PROVE  /\ op.edit.id[1] <= op.lamport
               /\ \A o \in Insertions(W \cup minted) : o.edit.id = op.edit.id => o = op
               /\ op.edit.after = Root
                  \/ \E p \in Insertions(W \cup minted) :
                       p.edit.id = op.edit.after /\ p.lamport < op.lamport /\ Knows(op, p)
    <3>1. CASE op \in Insertions(W)
      BY <1>15, <2>1, <3>1
    <3>2. CASE op \in Insertions(minted)
      <4>1. PICK k \in 1 .. n : k > d /\ op = M[k]
        BY <1>8, <3>2
      <4> QED BY <1>11, <1>12, <1>14, <4>1
    <3> QED BY <1>10, <3>1, <3>2
  <2> QED BY <2>2 DEF Anchored
<1>17. Signed(W \cup minted)
  <2> SUFFICES ASSUME NEW op \in W \cup minted, op.edit.id[2] \in Replicas
               PROVE  \E p \in Insertions(W \cup minted) : p.edit.id = op.edit.id /\ p.origin = op.edit.id[2]
    BY DEF Signed
  <2>1. ASSUME NEW o \in W, o.edit.id[2] \in Replicas
        PROVE  \E p \in Insertions(W \cup minted) : p.edit.id = o.edit.id /\ p.origin = o.edit.id[2]
    BY <1>10, <2>1 DEF Signed
  <2>2. CASE op \in minted
    <3>1. PICK k \in 1 .. n : op = M[k]
      BY <1>6, <2>2
    <3>2. CASE k > d
      BY <1>6, <1>9, <1>10, <1>11, <3>1, <3>2
    <3>3. CASE ~ k > d
      <4>1. op.edit.id = shown[h + k].atom /\ h + k \in 1 .. Len(shown)
        BY <1>5, <1>6, <3>1, <3>3
      <4>2. PICK o \in Insertions(held) : o.edit.id = op.edit.id
        BY <4>1 DEF InsertedBy
      <4>3. o \in W
        BY <1>4 DEF Insertions
      <4> QED BY <2>1, <4>2, <4>3
    <3> QED BY <3>2, <3>3
  <2> QED BY <2>1, <2>2
<1> QED BY <1>16, <1>17
-----------------------------------------------------------------------------
(* What the elements are after a replacement. *)

LEMMA ElementsAre ==
  ASSUME NEW atoms, AtomMap(atoms), NEW deleted, NEW elements, elements = Elements(atoms, deleted),
         NEW order, order = TreeOrder(atoms)
  PROVE  /\ ElementList(elements) /\ Len(elements) = Len(order) /\ Len(order) \in Nat
         /\ \A n \in 1 .. Len(order) :
              /\ order[n] \in DOMAIN atoms /\ elements[n].id = PublicId(order[n], atoms[order[n]].key)
              /\ elements[n].atom = order[n] /\ elements[n].text = atoms[order[n]].text
              /\ elements[n].deleted <=> order[n] \in deleted
<1>1. order \in Seq(DOMAIN atoms)
  BY TreeOrderTyped
<1>2. ElementList(elements)
  BY ElementsTyped DEF ElementList
<1>3. elements = [n \in DOMAIN order |->
         [id |-> PublicId(order[n], atoms[order[n]].key), atom |-> order[n],
          text |-> atoms[order[n]].text, deleted |-> order[n] \in deleted]]
  BY DEF Elements
<1>4. Len(order) \in Nat /\ DOMAIN order = 1 .. Len(order) /\ \A n \in 1 .. Len(order) : order[n] \in DOMAIN atoms
  BY <1>1
<1>5. Len(elements) = Len(order)
  BY <1>3, <1>4
<1>6. ASSUME NEW n \in 1 .. Len(order)
      PROVE  /\ elements[n].id = PublicId(order[n], atoms[order[n]].key)
             /\ elements[n].atom = order[n] /\ elements[n].text = atoms[order[n]].text
             /\ elements[n].deleted <=> order[n] \in deleted
  <2>1. PICK x : x = order[n]
    OBVIOUS
  <2>2. elements[n] = [id |-> PublicId(x, atoms[x].key), atom |-> x, text |-> atoms[x].text, deleted |-> x \in deleted]
    BY <1>3, <1>4, <2>1
  <2>3. elements[n].deleted = (x \in deleted)
    BY SMT, <2>2
  <2>4. elements[n].deleted <=> order[n] \in deleted
    BY Zenon, <2>1, <2>3
  <2>5. elements[n].id = PublicId(x, atoms[x].key) /\ elements[n].atom = x /\ elements[n].text = atoms[x].text
    BY <2>2
  <2> QED BY <2>1, <2>4, <2>5
<1> QED BY <1>2, <1>4, <1>5, <1>6

\* The element that is the k-th to be shown is one.
LEMMA ShownOnce ==
  ASSUME NEW atoms, AtomMap(atoms), Rooted(atoms), NEW deleted, NEW elements, elements = Elements(atoms, deleted),
         NEW order, order = TreeOrder(atoms), NEW at, Counts(elements, at), NEW k \in 1 .. Len(Visible(elements))
  PROVE  \E n \in 1 .. Len(order) :
           /\ at[n] = k /\ ~ elements[n].deleted /\ order[n] = Visible(elements)[k].atom
           /\ \A m \in 1 .. Len(order) : order[m] = order[n] => m = n
<1>1. /\ Len(elements) = Len(order) /\ Len(order) \in Nat
      /\ \A n \in 1 .. Len(order) : elements[n].atom = order[n]
  BY ElementsAre
<1>2. PICK n \in 1 .. Len(elements) : ~ elements[n].deleted /\ at[n] = k
  BY DEF Counts
<1>3. Visible(elements)[k] = elements[n]
  <2>1. n - 1 \in 0 .. Len(elements) - 1 /\ (n - 1) + 1 = n
    BY <1>1
  <2> QED BY <1>2, <2>1 DEF Counts
<1>4. OneEach(order)
  BY TreeWhole
<1> QED BY <1>1, <1>2, <1>3, <1>4 DEF OneEach

\* A span of elements is exchanged for a chain: new atoms and tombstones.
Exchanged(atoms, now, c, D, E, elements, after, h, j, new) ==
  /\ elements = Elements(atoms, D) /\ after = Elements(now, E)
  /\ h \in 0 .. Len(Visible(elements)) /\ j \in 0 .. Len(Visible(elements)) /\ h <= j
  /\ Chained(atoms, now, c, Behind(Visible(elements), h))
  /\ E = D \cup {Visible(elements)[k].atom : k \in h + 1 .. j}
  /\ Text(new) /\ Len(c) = Len(new)
  /\ \A i \in 1 .. Len(c) : now[c[i]].text = <<new[i]>> /\ c[i] \notin E

\* A chain in the tree and tombstones for a span rewrite the elements.
LEMMA ChainRewrites ==
  ASSUME NEW atoms, AtomMap(atoms), Rooted(atoms), NEW now, AtomMap(now), NEW c, NEW D, NEW E,
         NEW elements, NEW after, NEW at, Counts(elements, at), NEW h, NEW j, NEW new,
         Exchanged(atoms, now, c, D, E, elements, after, h, j, new)
  PROVE  \E p : Rewritten(elements, at, after, p, h, j, new)
<1>lists. elements = Elements(atoms, D) /\ after = Elements(now, E)
  BY DEF Exchanged
<1>span. h \in 0 .. Len(Visible(elements)) /\ j \in 0 .. Len(Visible(elements)) /\ h <= j
  BY DEF Exchanged
<1>chain. Chained(atoms, now, c, Behind(Visible(elements), h))
  BY DEF Exchanged
<1>drops. E = D \cup {Visible(elements)[k].atom : k \in h + 1 .. j}
  BY DEF Exchanged
<1>texts. Text(new) /\ Len(c) = Len(new) /\ \A i \in 1 .. Len(c) : now[c[i]].text = <<new[i]>> /\ c[i] \notin E
  BY DEF Exchanged
<1> DEFINE shown == Visible(elements)
<1>1. PICK order : order = TreeOrder(atoms)
  OBVIOUS
<1>2. PICK order2 : order2 = TreeOrder(now)
  OBVIOUS
<1>3. /\ ElementList(elements) /\ Len(elements) = Len(order) /\ Len(order) \in Nat
      /\ \A n \in 1 .. Len(order) :
           /\ order[n] \in DOMAIN atoms /\ elements[n].atom = order[n] /\ elements[n].text = atoms[order[n]].text
           /\ elements[n].deleted <=> order[n] \in D
  BY <1>lists, <1>1, ElementsAre
<1>4. /\ ElementList(after) /\ Len(after) = Len(order2) /\ Len(order2) \in Nat
      /\ \A n \in 1 .. Len(order2) :
           after[n].text = now[order2[n]].text /\ (after[n].deleted <=> order2[n] \in E)
  BY <1>lists, <1>2, ElementsAre
<1>5. PICK p \in 0 .. Len(order) : AtPlace(order, p, Behind(shown, h)) /\ Spliced(order, order2, p, c, Len(c))
  BY <1>chain, <1>1, <1>2, TreeChained
<1>6. PICK v : v = Len(shown)
  OBVIOUS
<1>7. PICK l : l = Len(c)
  OBVIOUS
<1>8. v \in Nat /\ l \in Nat /\ l = Len(new) /\ h \in 0 .. v /\ j \in 0 .. v
  <2>1. ElementList(shown)
    BY <1>3, VisibleTyped DEF ElementList
  <2> HIDE DEF shown
  <2>2. Len(shown) \in Nat
    BY <2>1 DEF ElementList
  <2>3. Len(new) \in Nat
    BY <1>texts DEF Text
  <2>4. Len(shown) = Len(Visible(elements))
    BY DEF shown
  <2> QED BY <1>span, <1>texts, <1>6, <1>7, <2>2, <2>3, <2>4
<1>9. ASSUME NEW k \in 1 .. v
      PROVE  \E n \in 1 .. Len(order) : /\ at[n] = k /\ ~ elements[n].deleted /\ order[n] = shown[k].atom
                                       /\ \A m \in 1 .. Len(order) : order[m] = order[n] => m = n
  <2>1. k \in 1 .. Len(Visible(elements))
    BY <1>6
  <2>2. elements = Elements(atoms, D)
    BY <1>lists
  <2> QED BY <1>1, <2>1, <2>2, ShownOnce
<1>10. ASSUME NEW n \in 1 .. Len(order), ~ elements[n].deleted
       PROVE  at[n] \in 1 .. v /\ shown[at[n]].atom = order[n]
  <2>1. n - 1 \in 0 .. Len(elements) - 1 /\ (n - 1) + 1 = n
    BY <1>3
  <2>2. at[n] = at[n - 1] + 1 /\ shown[at[n]] = elements[n]
    BY <1>10, <2>1 DEF Counts
  <2>3. n \in 0 .. Len(elements) /\ n - 1 \in 0 .. Len(elements)
    BY <1>3
  <2>4. at[n] \in 0 .. v /\ at[n - 1] \in 0 .. v
    BY <1>6, <2>3 DEF Counts
  <2>5. at[n] \in 1 .. v
    BY <1>8, <2>2, <2>4
  <2> QED BY <1>3, <2>2, <2>5
<1>11. E = D \cup {shown[k].atom : k \in h + 1 .. j}
  BY <1>drops
<1> HIDE DEF shown
<1>12. ASSUME NEW n \in 1 .. Len(order) PROVE order[n] \in E <=> (elements[n].deleted \/ at[n] \in h + 1 .. j)
  <2>1. ASSUME order[n] \in E, ~ elements[n].deleted PROVE at[n] \in h + 1 .. j
    <3>1. order[n] \notin D
      BY <1>3, <2>1
    <3>2. PICK k \in h + 1 .. j : order[n] = shown[k].atom
      BY <1>11, <2>1, <3>1
    <3>3. k \in 1 .. v
      BY <1>8
    <3>4. PICK m \in 1 .. Len(order) : at[m] = k /\ order[m] = shown[k].atom
                                       /\ \A i \in 1 .. Len(order) : order[i] = order[m] => i = m
      BY <1>9, <3>3
    <3> QED BY <3>2, <3>4
  <2>2. ASSUME elements[n].deleted PROVE order[n] \in E
    BY <1>3, <1>11, <2>2
  <2>3. ASSUME at[n] \in h + 1 .. j, ~ elements[n].deleted PROVE order[n] \in E
    BY <1>10, <1>11, <2>3
  <2> QED BY <2>1, <2>2, <2>3
<1>13. p \in 0 .. Len(elements) /\ at[p] = h
  <2>1. CASE h = 0
    <3>1. p = 0
      BY <1>5, <2>1 DEF Behind, AtPlace
    <3> QED BY <1>3, <2>1, <3>1 DEF Counts
  <2>2. CASE h # 0
    <3>1. h \in 1 .. v
      BY <1>8, <2>2
    <3>2. PICK m \in 1 .. Len(order) : at[m] = h /\ order[m] = shown[h].atom
                                       /\ \A i \in 1 .. Len(order) : order[i] = order[m] => i = m
      BY <1>9, <3>1
    <3>3. shown[h].atom # Root
      <4>1. order[m] \in AtomId
        BY <1>3 DEF AtomMap
      <4>2. \A x \in AtomId : x[1] # Root[1]
        BY DEF AtomId, Root
      <4> QED BY <3>2, <4>1, <4>2
    <3>4. p # 0 /\ order[p] = shown[h].atom
      BY <1>5, <2>2, <3>3 DEF Behind, AtPlace
    <3> QED BY <1>3, <3>2, <3>4
  <2> QED BY <2>1, <2>2
<1>14. \A id \in DOMAIN atoms : now[id] = atoms[id]
  BY <1>chain DEF Chained
<1>15. /\ Len(order2) = Len(order) + l
       /\ \A n \in 1 .. p : order2[n] = order[n]
       /\ \A n \in 1 .. l : order2[p + n] = c[n]
       /\ \A n \in p + 1 .. Len(order) : order2[l + n] = order[n]
  BY <1>5, <1>7 DEF Spliced
<1>16. ASSUME NEW n \in 1 .. p
       PROVE  after[n].text = elements[n].text /\ (after[n].deleted <=> (elements[n].deleted \/ at[n] \in h + 1 .. j))
  <2>1. n \in 1 .. Len(order) /\ n \in 1 .. Len(order2)
    BY <1>3, <1>8, <1>15
  <2> QED BY <1>3, <1>4, <1>12, <1>14, <1>15, <2>1
<1>17. ASSUME NEW k \in 1 .. Len(new) PROVE after[p + k].text = <<new[k]>> /\ ~ after[p + k].deleted
  <2>1. k \in 1 .. l /\ p + k \in 1 .. Len(order2)
    BY <1>3, <1>8, <1>15
  <2>2. order2[p + k] = c[k]
    BY <1>15, <2>1
  <2> QED BY <1>texts, <1>4, <1>7, <2>1, <2>2
<1>18. ASSUME NEW n \in p + 1 .. Len(elements)
       PROVE  /\ after[Len(new) + n].text = elements[n].text
              /\ after[Len(new) + n].deleted <=> (elements[n].deleted \/ at[n] \in h + 1 .. j)
  <2>1. n \in 1 .. Len(order) /\ l + n \in 1 .. Len(order2) /\ n \in p + 1 .. Len(order)
    BY <1>3, <1>8, <1>15
  <2>2. order2[l + n] = order[n]
    BY <1>15, <2>1
  <2> QED BY <1>3, <1>4, <1>8, <1>12, <1>14, <2>1, <2>2
<1>19. Len(after) = Len(elements) + Len(new)
  BY <1>3, <1>4, <1>8, <1>15
<1> QED BY <1>13, <1>16, <1>17, <1>18, <1>19 DEF Rewritten

\* What a replica holds stays causal when a replica writes on top of what it holds.
LEMMA CausalGrows ==
  ASSUME NEW W, OpSet(W), NEW r, NEW held, held \subseteq W, \A op \in W : op.origin = r => op \in held,
         NEW minted, Atop(r, held, minted), NEW H, Causal(H, W)
  PROVE  Causal(H, W \cup minted) /\ (H = held => Causal(H \cup minted, W \cup minted))
<1>1. /\ H \subseteq W /\ \A op \in H, o \in W : o.origin = op.origin /\ o.seq < op.seq => o \in H
      /\ \A op \in H : \A ref \in op.refs : \E o \in H : o.origin = ref[1] /\ o.seq = ref[2]
  BY DEF Causal, DownIn
<1>2. /\ OpSet(minted) /\ \A op \in minted : op.origin = r
      /\ \A op \in minted, o \in held : o.origin = r => o.seq < op.seq
      /\ \A op \in minted : \A ref \in op.refs : \E o \in held \cup minted : o.origin = ref[1] /\ o.seq = ref[2]
  BY DEF Atop
<1>3. \A op \in W \cup minted : op.seq \in Nat
  BY <1>2 DEF OpSet, IsOp
<1>4. ASSUME NEW op \in H, NEW o \in W \cup minted, o.origin = op.origin, o.seq < op.seq PROVE o \in H
  <2>1. CASE o \in W
    BY <1>1, <1>4, <2>1
  <2>2. CASE o \in minted
    <3>1. op \in held
      BY <1>1, <1>2, <1>4, <2>2
    <3>2. op.seq < o.seq
      BY <1>2, <1>4, <2>2, <3>1
    <3> QED BY <1>1, <1>3, <1>4, <3>2
  <2> QED BY <2>1, <2>2
<1>5. Causal(H, W \cup minted)
  BY <1>1, <1>4 DEF Causal, DownIn
<1>6. ASSUME H = held PROVE Causal(H \cup minted, W \cup minted)
  <2>1. ASSUME NEW op \in H \cup minted, NEW o \in W \cup minted, o.origin = op.origin, o.seq < op.seq
        PROVE  o \in H \cup minted
    BY <1>1, <1>2, <1>6, <2>1
  <2>2. ASSUME NEW op \in H \cup minted, NEW ref \in op.refs
        PROVE  \E o \in H \cup minted : o.origin = ref[1] /\ o.seq = ref[2]
    BY <1>1, <1>2, <1>6
  <2>3. H \cup minted \subseteq W \cup minted
    BY <1>1
  <2> QED BY <2>1, <2>2, <2>3 DEF Causal, DownIn
<1> QED BY <1>5, <1>6

Keeps(atoms, now) == atoms = [id \in DOMAIN atoms |-> now[id]] /\ DOMAIN atoms \subseteq DOMAIN now

\* The atoms that are there stay as they are when more is written on top.
LEMMA AtomsStay ==
  ASSUME NEW r, NEW held, Coherent(held), NEW minted, Atop(r, held, minted), Coherent(held \cup minted),
         NEW atoms, atoms = Assembled(held).atoms, NEW now, now = Assembled(held \cup minted).atoms
  PROVE  Keeps(atoms, now)
<1>1. AtomMap(atoms) /\ AtomsSay(held, atoms)
  BY AtomsOf
<1>2. PICK all : all = held \cup minted
  OBVIOUS
<1>3. AtomMap(now) /\ AtomsSay(all, now)
  <2>1. Coherent(all) /\ now = Assembled(all).atoms
    BY <1>2
  <2> QED BY <2>1, AtomsOf
<1>4. OpSet(all) /\ Insertions(held) \subseteq Insertions(all) /\ Insertions(held) \subseteq held
  BY <1>2 DEF Coherent, Insertions
<1>5. DownIn(held, all)
  <2>1. \A op \in all : op.seq \in Nat
    BY <1>4 DEF OpSet, IsOp
  <2>2. ASSUME NEW op \in held, NEW o \in minted, o.origin = op.origin, o.seq < op.seq PROVE FALSE
    <3>1. op.seq < o.seq
      BY <2>2 DEF Atop
    <3> QED BY <1>2, <2>1, <2>2, <3>1
  <2> QED BY <1>2, <2>2 DEF DownIn
<1>6. ASSUME NEW id \in DOMAIN atoms PROVE id \in DOMAIN now /\ atoms[id] = now[id]
  <2>1. PICK op \in Insertions(held) : id = op.edit.id
    BY <1>1 DEF AtomsSay
  <2>2. op \in Insertions(all) /\ op \in held
    BY <1>4
  <2>3. Normal(op.origin, op.seq, BasesOf(held)) = Normal(op.origin, op.seq, BasesOf(all))
    BY <1>4, <1>5, <2>2, KeysStay
  <2>4. id \in DOMAIN now
    BY <1>3, <2>1, <2>2 DEF AtomsSay
  <2>5. atoms[id].after = now[id].after /\ atoms[id].text = now[id].text /\ atoms[id].key = now[id].key
    <3>1. /\ atoms[id].after = op.edit.after /\ atoms[id].text = op.edit.text
          /\ atoms[id].key = <<op.origin, Normal(op.origin, op.seq, BasesOf(held))>>
      BY <1>1, <2>1 DEF AtomsSay
    <3>2. /\ now[id].after = op.edit.after /\ now[id].text = op.edit.text
          /\ now[id].key = <<op.origin, Normal(op.origin, op.seq, BasesOf(all))>>
      BY <1>3, <2>1, <2>2 DEF AtomsSay
    <3> QED BY <2>3, <3>1, <3>2
  <2>6. atoms[id] \in Claim /\ now[id] \in Claim
    BY <1>1, <1>3, <2>4 DEF AtomMap
  <2> QED BY <2>4, <2>5, <2>6 DEF Claim
<1>7. atoms = [id \in DOMAIN atoms |-> atoms[id]]
  BY <1>1 DEF AtomsSay
<1> QED BY <1>6, <1>7 DEF Keeps

\* A replica that holds what is coherent writes a whole plan.
Replaces(W, r, held, minted, shown, c, first, h, j, new, M) ==
  /\ OpSet(W) /\ Anchored(W) /\ Signed(W) /\ r \in Replicas /\ held \subseteq W
  /\ \A op \in W : op.origin = r => op \in held
  /\ Coherent(held) /\ Atop(r, held, minted) /\ Coherent(held \cup minted)
  /\ shown = Visible(Assembled(held).elements) /\ h \in 0 .. Len(shown) /\ j \in 0 .. Len(shown) /\ h <= j
  /\ c \in Nat /\ first = <<InsertionOrder(held), r, c>> /\ Text(new)
  /\ Sent(M, r, held, minted, shown, first, h, j, new, (j - h) + Len(new))

\* All edits of a plan applied, the text is the one asked for.
LEMMA SentYields ==
  ASSUME NEW W, NEW r, NEW held, NEW minted, NEW shown, NEW c, NEW first, NEW h, NEW j, NEW new, NEW M,
         Replaces(W, r, held, minted, shown, c, first, h, j, new, M),
         NEW elements, elements = Assembled(held).elements, NEW next, Text(next),
         Reaches(TextOf(elements), next, EndAt(shown, h), EndAt(shown, j), new)
  PROVE  TextOf(Assembled(held \cup minted).elements) = next
<1>0. /\ OpSet(W) /\ Anchored(W) /\ Signed(W) /\ r \in Replicas /\ held \subseteq W
      /\ \A op \in W : op.origin = r => op \in held
      /\ Coherent(held) /\ Atop(r, held, minted) /\ Coherent(held \cup minted)
      /\ h \in 0 .. Len(shown) /\ j \in 0 .. Len(shown) /\ h <= j
      /\ c \in Nat /\ first = <<InsertionOrder(held), r, c>> /\ Text(new)
      /\ Sent(M, r, held, minted, shown, first, h, j, new, (j - h) + Len(new))
  BY DEF Replaces
<1>1. shown = Visible(elements)
  BY DEF Replaces
<1>2. PICK R : R = InsertionOrder(held)
  OBVIOUS
<1>3. PICK d : d = j - h
  OBVIOUS
<1>4. PICK all : all = held \cup minted
  OBVIOUS
<1>5. PICK atoms : atoms = Assembled(held).atoms
  OBVIOUS
<1>6. PICK now : now = Assembled(all).atoms
  OBVIOUS
<1>7. PICK after : after = Assembled(all).elements
  OBVIOUS
<1>8. Coherent(all) /\ OpSet(held) /\ OpSet(all)
  BY <1>0, <1>4 DEF Coherent
<1>9. /\ ElementList(elements) /\ ElementList(shown) /\ Solid(shown)
      /\ \A k \in 1 .. Len(shown) : InsertedBy(held, shown[k])
  BY <1>1, <1>8, ShownHeld
<1>10. PICK l : l = Len(new)
  OBVIOUS
<1>11. l \in Nat /\ Len(shown) \in Nat /\ h \in 0 .. Len(shown) /\ j \in 0 .. Len(shown) /\ d \in Nat /\ h + d = j
  <2>1. Len(shown) \in Nat
    BY <1>9 DEF ElementList
  <2> QED BY <1>0, <1>3, <1>10, <2>1 DEF Text
<1>12. /\ R \in Nat \ {0}
       /\ \A o \in Insertions(held) : o.edit.id[1] \in Nat /\ o.edit.id[1] < R
       /\ \A op \in W : op.edit.id[2] = r => \E p \in Insertions(held) : p.edit.id = op.edit.id
  BY <1>0, <1>2, HeldFacts
<1>13. /\ minted = {M[k] : k \in 1 .. d + l}
       /\ \A k \in 1 .. d + l :
            /\ k <= d => M[k].edit.kind = "delete" /\ M[k].edit.id = shown[h + k].atom
            /\ k > d => /\ M[k].edit.kind = "insert" /\ M[k].edit.id = AtomAt(first, k - d)
                        /\ M[k].edit.text = <<new[k - d]>>
                        /\ M[k].edit.after = IF k - d = 1 THEN Behind(shown, h) ELSE AtomAt(first, k - d - 1)
  BY <1>0, <1>3, <1>10 DEF Sent
<1>14. \A i : AtomAt(first, i) = <<R + i - 1, r, c + i - 1>>
  BY <1>0, <1>2 DEF AtomAt
<1> DEFINE chain == [i \in 1 .. l |-> AtomAt(first, i)]
<1>15. ASSUME NEW i \in 1 .. l
       PROVE  /\ chain[i] = AtomAt(first, i) /\ chain[i] \in AtomId /\ chain[i][1] = R + i - 1 /\ chain[i][2] = r
              /\ d + i \in 1 .. d + l /\ d + i > d /\ (d + i) - d = i
  <2>1. i \in Nat \ {0} /\ r \in Origins
    BY <1>0, <1>11, ReplicasAssumption
  <2>2. chain[i] = <<R + i - 1, r, c + i - 1>> /\ chain[i] = AtomAt(first, i)
    BY <1>14
  <2>3. R + i - 1 \in Nat \ {0} /\ c + i - 1 \in Nat
    BY <1>0, <1>12, <2>1
  <2>4. chain[i] \in AtomId
    BY <2>1, <2>2, <2>3 DEF AtomId
  <2> QED BY <1>11, <2>2, <2>4
<1>16. Len(chain) = l /\ IsList(AtomId, chain) /\ DOMAIN chain = 1 .. l /\ ToSet(chain) = {chain[i] : i \in 1 .. l}
  <2>1. \A i \in 1 .. l : AtomAt(first, i) \in AtomId
    BY <1>15
  <2>2. chain \in Seq(AtomId) /\ Len(chain) = l /\ DOMAIN chain = 1 .. l
    BY <1>11, <2>1
  <2>3. IsList(AtomId, chain)
    BY <2>2 DEF IsList
  <2> HIDE DEF chain
  <2> QED BY <2>2, <2>3, ListFacts
<1> HIDE DEF chain
<1>17. /\ AtomMap(atoms) /\ Rooted(atoms) /\ DOMAIN atoms = {op.edit.id : op \in Insertions(held)}
       /\ elements = Elements(atoms, Deleted(held))
  BY <1>0, <1>5, AtomsOf DEF AtomsSay
<1>18. /\ AtomMap(now) /\ DOMAIN now = {op.edit.id : op \in Insertions(all)} /\ now = [id \in DOMAIN now |-> now[id]]
       /\ \A op \in Insertions(all) : now[op.edit.id].after = op.edit.after /\ now[op.edit.id].text = op.edit.text
       /\ after = Elements(now, Deleted(all))
  <2>1. AtomMap(now) /\ AtomsSay(all, now) /\ after = Elements(now, Deleted(all))
    BY <1>6, <1>7, <1>8, AtomsOf
  <2> QED BY <2>1 DEF AtomsSay
<1>19. atoms = [id \in DOMAIN atoms |-> now[id]] /\ DOMAIN atoms \subseteq DOMAIN now
  <2>1. now = Assembled(held \cup minted).atoms
    BY <1>4, <1>6
  <2>2. Keeps(atoms, now)
    BY <1>0, <1>5, <2>1, AtomsStay
  <2> QED BY <2>2 DEF Keeps
<1>20. ASSUME NEW i \in 1 .. l PROVE M[d + i] \in Insertions(all) /\ M[d + i].edit.id = chain[i]
                                     /\ M[d + i].edit.text = <<new[i]>>
                                     /\ M[d + i].edit.after = IF i = 1 THEN Behind(shown, h) ELSE AtomAt(first, i - 1)
  <2>1. d + i \in 1 .. d + l /\ d + i > d /\ (d + i) - d = i
    BY <1>15
  <2>2. M[d + i] \in all /\ M[d + i].edit.kind = "insert"
    BY <1>4, <1>13, <2>1
  <2> QED BY <1>13, <1>15, <2>1, <2>2 DEF Insertions
<1>21. Insertions(all) = Insertions(held) \cup {M[d + i] : i \in 1 .. l}
  <2>1. ASSUME NEW op \in Insertions(all), op \notin Insertions(held) PROVE \E i \in 1 .. l : op = M[d + i]
    <3>1. PICK k \in 1 .. d + l : op = M[k]
      BY <1>4, <1>13, <2>1 DEF Insertions
    <3>2. op.edit.kind = "insert"
      BY DEF Insertions
    <3>3. k > d
      BY <1>11, <1>13, <3>1, <3>2
    <3>4. PICK i : i = k - d
      OBVIOUS
    <3>5. i \in 1 .. l /\ k = d + i
      BY <1>11, <3>3, <3>4
    <3> QED BY <3>1, <3>5
  <2>2. Insertions(held) \subseteq Insertions(all)
    BY <1>4 DEF Insertions
  <2> QED BY <1>20, <2>1, <2>2
<1>22. ToSet(chain) \cap DOMAIN atoms = {}
  <2> SUFFICES ASSUME NEW i \in 1 .. l, chain[i] \in DOMAIN atoms PROVE FALSE
    BY <1>16
  <2>1. PICK o \in Insertions(held) : o.edit.id = chain[i]
    BY <1>17
  <2>2. R + i - 1 < R
    BY <1>12, <1>15, <2>1
  <2> QED BY <1>11, <1>12, <2>2
<1>23. DOMAIN now = DOMAIN atoms \cup ToSet(chain)
  <2>1. \A i \in 1 .. l : M[d + i].edit.id = chain[i]
    BY <1>20
  <2>2. {op.edit.id : op \in Insertions(all)} = {op.edit.id : op \in Insertions(held)} \cup {chain[i] : i \in 1 .. l}
    BY <1>21, <2>1
  <2> QED BY <1>16, <1>17, <1>18, <2>2
<1>24. Behind(shown, h) \in DOMAIN atoms \cup {Root}
  <2>1. CASE h # 0
    <3>1. h \in 1 .. Len(shown)
      BY <1>11, <2>1
    <3>2. shown[h].atom \in DOMAIN atoms
      BY <1>9, <1>17, <3>1 DEF InsertedBy
    <3> QED BY <2>1, <3>2 DEF Behind
  <2> QED BY <2>1 DEF Behind
<1>25. OneEach(chain)
  <2> SUFFICES ASSUME NEW m \in 1 .. l, NEW i \in 1 .. l, chain[m] = chain[i] PROVE m = i
    BY <1>16 DEF OneEach
  <2>1. R + m - 1 = R + i - 1
    BY <1>15
  <2> QED BY <1>11, <1>12, <2>1
<1>26. ASSUME NEW i \in 1 .. l
       PROVE  /\ now[chain[i]].after = IF i = 1 THEN Behind(shown, h) ELSE chain[i - 1]
              /\ now[chain[i]].text = <<new[i]>>
              /\ \A id \in DOMAIN atoms : IdBefore(chain[i], id)
  <2>1. now[chain[i]].after = M[d + i].edit.after /\ now[chain[i]].text = <<new[i]>>
    <3>1. PICK m \in Insertions(all) : m = M[d + i]
      BY <1>20
    <3>2. now[m.edit.id].after = m.edit.after /\ now[m.edit.id].text = m.edit.text
      BY <1>18
    <3>3. m.edit.id = chain[i] /\ m.edit.text = <<new[i]>>
      BY <1>20, <3>1
    <3> QED BY <3>1, <3>2, <3>3
  <2>2. i # 1 => chain[i - 1] = AtomAt(first, i - 1)
    <3>1. i # 1 => i - 1 \in 1 .. l
      BY <1>11
    <3> QED BY <1>15, <3>1
  <2>3. ASSUME NEW id \in DOMAIN atoms PROVE IdBefore(chain[i], id)
    <3>1. id[1] \in Nat /\ id[1] < R
      BY <1>12, <1>17
    <3>2. chain[i][1] > id[1]
      BY <1>11, <1>12, <1>15, <3>1
    <3> QED BY <3>2 DEF IdBefore
  <2> QED BY <1>20, <2>1, <2>2, <2>3
<1>27. Chained(atoms, now, chain, Behind(shown, h))
  BY <1>16, <1>18, <1>19, <1>22, <1>23, <1>24, <1>25, <1>26 DEF Chained
<1>28. Deleted(all) = Deleted(held) \cup {shown[k].atom : k \in h + 1 .. j}
  <2>1. ASSUME NEW o \in minted, o.edit.kind = "delete" PROVE \E k \in h + 1 .. j : o.edit.id = shown[k].atom
    <3>1. PICK k \in 1 .. d + l : o = M[k]
      BY <1>13
    <3>2. k <= d /\ o.edit.id = shown[h + k].atom
      <4>1. k > d => M[k].edit.kind = "insert"
        BY <1>13
      <4>2. k <= d
        BY <1>11, <2>1, <3>1, <4>1
      <4> QED BY <1>13, <3>1, <4>2
    <3>3. h + k \in h + 1 .. j
      BY <1>11, <3>2
    <3> QED BY <3>2, <3>3
  <2>2. ASSUME NEW k \in h + 1 .. j PROVE \E o \in minted : o.edit.kind = "delete" /\ o.edit.id = shown[k].atom
    <3>1. PICK i : i = k - h
      OBVIOUS
    <3>2. i \in 1 .. d + l /\ i <= d /\ h + i = k
      BY <1>11, <3>1
    <3> QED BY <1>13, <3>2
  <2>3. Deleted(all) = Deleted(held) \cup Deleted(minted)
    BY <1>4 DEF Deleted
  <2>4. Deleted(minted) = {shown[k].atom : k \in h + 1 .. j}
    <3>1. \A x : x \in Deleted(minted) <=> \E o \in minted : o.edit.kind = "delete" /\ x = o.edit.id
      BY DEF Deleted
    <3>2. \A x : x \in {shown[k].atom : k \in h + 1 .. j} <=> \E k \in h + 1 .. j : x = shown[k].atom
      OBVIOUS
    <3>3. \A x \in Deleted(minted) : x \in {shown[k].atom : k \in h + 1 .. j}
      BY <2>1, <3>1, <3>2
    <3>4. \A x \in {shown[k].atom : k \in h + 1 .. j} : x \in Deleted(minted)
      BY <2>2, <3>1, <3>2
    <3> QED BY <3>3, <3>4
  <2> QED BY <2>3, <2>4
<1>29. ASSUME NEW i \in 1 .. l PROVE chain[i] \notin Deleted(all)
  <2>1. chain[i] \notin DOMAIN atoms
    BY <1>16, <1>22
  <2>2. ASSUME chain[i] \in Deleted(held) PROVE FALSE
    <3>1. PICK op \in held : op.edit.id = chain[i]
      BY <2>2 DEF Deleted
    <3>2. PICK p \in Insertions(held) : p.edit.id = chain[i]
      BY <1>0, <1>12, <1>15, <3>1
    <3> QED BY <1>17, <2>1, <3>2
  <2>3. ASSUME NEW k \in h + 1 .. j, chain[i] = shown[k].atom PROVE FALSE
    <3>1. k \in 1 .. Len(shown)
      BY <1>11
    <3> QED BY <1>9, <1>17, <2>1, <2>3, <3>1 DEF InsertedBy
  <2> QED BY <1>28, <2>2, <2>3
<1>30. PICK at : Counts(elements, at)
  BY <1>9, CountsExist
<1>31. \E p : Rewritten(elements, at, after, p, h, j, new)
  <2>1. /\ elements = Elements(atoms, Deleted(held)) /\ after = Elements(now, Deleted(all))
        /\ Chained(atoms, now, chain, Behind(Visible(elements), h))
        /\ Deleted(all) = Deleted(held) \cup {Visible(elements)[k].atom : k \in h + 1 .. j}
        /\ Len(chain) = Len(new)
        /\ \A i \in 1 .. Len(chain) : now[chain[i]].text = <<new[i]>> /\ chain[i] \notin Deleted(all)
    <3>1. elements = Elements(atoms, Deleted(held)) /\ after = Elements(now, Deleted(all))
      BY <1>17, <1>18
    <3>2. /\ Chained(atoms, now, chain, Behind(Visible(elements), h))
          /\ Deleted(all) = Deleted(held) \cup {Visible(elements)[k].atom : k \in h + 1 .. j}
      BY <1>1, <1>27, <1>28
    <3>3. Len(chain) = Len(new) /\ Len(chain) = l
      BY <1>10, <1>16
    <3>4. \A i \in 1 .. l : now[chain[i]].text = <<new[i]>> /\ chain[i] \notin Deleted(all)
      BY <1>26, <1>29
    <3> QED BY <3>1, <3>2, <3>3, <3>4
  <2>2. PICK D : D = Deleted(held)
    OBVIOUS
  <2>3. PICK E : E = Deleted(all)
    OBVIOUS
  <2>4. /\ elements = Elements(atoms, D) /\ after = Elements(now, E)
        /\ E = D \cup {Visible(elements)[k].atom : k \in h + 1 .. j}
        /\ \A i \in 1 .. Len(chain) : now[chain[i]].text = <<new[i]>> /\ chain[i] \notin E
    BY <2>1, <2>2, <2>3
  <2>5. AtomMap(atoms) /\ Rooted(atoms) /\ AtomMap(now) /\ Len(chain) = Len(new)
        /\ Chained(atoms, now, chain, Behind(Visible(elements), h))
    BY <1>17, <1>18, <2>1
  <2>6. Text(new) /\ h <= j /\ h \in 0 .. Len(Visible(elements)) /\ j \in 0 .. Len(Visible(elements))
    BY <1>0, <1>1
  <2>7. Exchanged(atoms, now, chain, D, E, elements, after, h, j, new)
    BY <2>4, <2>5, <2>6 DEF Exchanged
  <2> QED BY <1>30, <2>5, <2>7, ChainRewrites
<1>32. PICK p : Rewritten(elements, at, after, p, h, j, new)
  BY <1>31
<1>33. Growing(shown) /\ ElementList(after)
  BY <1>7, <1>8, <1>9, EndsGrow, AssembledTyped
<1>34. PICK s : s = EndAt(shown, h)
  OBVIOUS
<1>35. PICK e : e = EndAt(shown, j)
  OBVIOUS
<1>36. Woven(TextOf(after), TextOf(elements), s, e, new)
  BY <1>0, <1>1, <1>9, <1>30, <1>32, <1>33, <1>34, <1>35, TextRewritten
<1>37. /\ Text(TextOf(after)) /\ Text(TextOf(elements))
       /\ s \in Nat /\ e \in Nat /\ e <= Len(TextOf(elements))
  <2>1. TextOf(after) = JoinedText(Visible(after)) /\ TextOf(elements) = JoinedText(shown)
    BY <1>1 DEF TextOf, JoinedText
  <2>2. ElementList(Visible(after))
    BY <1>33, VisibleTyped DEF ElementList
  <2>3. JoinedText(Visible(after)) \in Seq(Nat) /\ JoinedText(shown) \in Seq(Nat)
    BY <1>9, <2>2, EndFacts
  <2>4. s \in Nat /\ e \in Nat /\ e <= Len(JoinedText(shown))
    BY <1>9, <1>11, <1>34, <1>35, EndFacts
  <2> QED BY <2>1, <2>3, <2>4 DEF Text
<1>38. Reaches(TextOf(elements), next, s, e, new)
  BY <1>34, <1>35
<1>39. TextOf(after) = next
  BY <1>0, <1>36, <1>37, <1>38, WovenEnds
<1> QED BY <1>4, <1>7, <1>39
-----------------------------------------------------------------------------
(* The names of elements. *)

\* The name of the element that an insertion makes.
NameOf(op) == PublicId(op.edit.id, <<op.origin, Normal(op.origin, op.seq, BasesOf(Legacy))>>)

\* The old content and what replicas wrote, who use no foreign ids.
Native(W) ==
  /\ OpSet(W) /\ Legacy \subseteq W /\ \A op \in W : op \in Legacy \/ op.origin \in Replicas
  /\ \A op \in Insertions(W) : op \in Legacy \/ (op.edit.id[3] > 0 /\ op.edit.id[2] \in Replicas)

\* No two insertions are named alike.
Named(W) == Native(W) /\ \A a, b \in Insertions(W) : NameOf(a) = NameOf(b) => a = b

\* The number a foreign id stands for is the same whatever part of the history is
\* held.
LEMMA NameStays ==
  ASSUME NEW W, Native(W), NEW K, DownIn(K, W), NEW op \in Insertions(K)
  PROVE  NameOf(op) = PublicId(op.edit.id, <<op.origin, Normal(op.origin, op.seq, BasesOf(K))>>)
<1>1. op \in K /\ op \in Insertions(W)
  BY DEF Insertions, DownIn
<1>2. CASE op.edit.id[3] > 0
  BY <1>2 DEF NameOf, PublicId
<1>3. CASE ~ op.edit.id[3] > 0
  <2>1. op \in Legacy
    BY <1>1, <1>3 DEF Native
  <2>2. DownIn(Legacy, W)
    BY LegacyAssumption DEF DownIn, Native
  <2>3. Normal(op.origin, op.seq, BasesOf(Legacy)) = Normal(op.origin, op.seq, BasesOf(W))
    BY <2>1, <2>2, KeysStay DEF Native
  <2>4. Normal(op.origin, op.seq, BasesOf(K)) = Normal(op.origin, op.seq, BasesOf(W))
    BY <1>1, KeysStay DEF Native
  <2> QED BY <2>3, <2>4 DEF NameOf
<1> QED BY <1>2, <1>3

\* Each element is that of one insertion and has its name, and each insertion has
\* one element.
LEMMA ElementNames ==
  ASSUME NEW W, Native(W), NEW K, DownIn(K, W), Coherent(K), NEW elements, elements = Assembled(K).elements
  PROVE  /\ ElementList(elements)
         /\ \A n \in 1 .. Len(elements) :
              \E op \in Insertions(K) : op.edit.id = elements[n].atom /\ NameOf(op) = elements[n].id
         /\ \A op \in Insertions(K) :
              \E n \in 1 .. Len(elements) : elements[n].atom = op.edit.id /\ elements[n].id = NameOf(op)
         /\ \A m, n \in 1 .. Len(elements) : elements[m].atom = elements[n].atom => m = n
<1>1. PICK atoms : atoms = Assembled(K).atoms
  OBVIOUS
<1>2. /\ AtomMap(atoms) /\ Rooted(atoms) /\ AtomsSay(K, atoms) /\ elements = Elements(atoms, Deleted(K))
  BY <1>1, AtomsOf
<1>3. PICK order : order = TreeOrder(atoms)
  OBVIOUS
<1>4. /\ ElementList(elements) /\ Len(elements) = Len(order)
      /\ \A n \in 1 .. Len(order) :
           /\ order[n] \in DOMAIN atoms /\ elements[n].id = PublicId(order[n], atoms[order[n]].key)
           /\ elements[n].atom = order[n]
  BY <1>2, <1>3, ElementsAre
<1>5. IsList(DOMAIN atoms, order) /\ OneEach(order) /\ ToSet(order) = DOMAIN atoms
  BY <1>2, <1>3, TreeWhole
<1>6. ASSUME NEW op \in Insertions(K)
      PROVE  op.edit.id \in DOMAIN atoms /\ PublicId(op.edit.id, atoms[op.edit.id].key) = NameOf(op)
  <2>1. op.edit.id \in DOMAIN atoms /\ atoms[op.edit.id].key = <<op.origin, Normal(op.origin, op.seq, BasesOf(K))>>
    BY <1>2 DEF AtomsSay
  <2> QED BY <2>1, NameStays
<1>7. ASSUME NEW n \in 1 .. Len(elements)
      PROVE  \E op \in Insertions(K) : op.edit.id = elements[n].atom /\ NameOf(op) = elements[n].id
  <2>1. DOMAIN atoms = {op.edit.id : op \in Insertions(K)}
    BY <1>2 DEF AtomsSay
  <2>2. order[n] \in DOMAIN atoms /\ elements[n].atom = order[n] /\ elements[n].id = PublicId(order[n], atoms[order[n]].key)
    BY <1>4
  <2>3. PICK op \in Insertions(K) : op.edit.id = order[n]
    BY <2>1, <2>2
  <2> QED BY <1>6, <2>2, <2>3
<1>8. ASSUME NEW op \in Insertions(K)
      PROVE  \E n \in 1 .. Len(elements) : elements[n].atom = op.edit.id /\ elements[n].id = NameOf(op)
  <2>1. ToSet(order) = {order[n] : n \in 1 .. Len(order)}
    BY <1>5, ListFacts
  <2>2. PICK n \in 1 .. Len(order) : order[n] = op.edit.id
    BY <1>5, <1>6, <2>1
  <2> QED BY <1>4, <1>6, <2>2
<1>9. ASSUME NEW m \in 1 .. Len(elements), NEW n \in 1 .. Len(elements), elements[m].atom = elements[n].atom PROVE m = n
  BY <1>4, <1>5, <1>9 DEF OneEach
<1> QED BY <1>4, <1>7, <1>8, <1>9

\* Elements of the old content that are named apart come of insertions that are.
LEMMA LegacyNamed == LegacyIsNamed => Named(Legacy)
<1> SUFFICES ASSUME LegacyIsNamed PROVE Named(Legacy)
  OBVIOUS
<1>1. Native(Legacy)
  BY LegacyAssumption DEF Native, OpSet, Insertions
<1>2. Causal(Legacy, Legacy)
  BY LegacyIsFounded DEF Causal, DownIn, Founded
<1>3. Coherent(Legacy) /\ DownIn(Legacy, Legacy)
  BY <1>1, <1>2, CausalPart, LegacyIsFounded, LegacyIsAnchored DEF Native, Causal
<1>4. PICK elements : elements = Assembled(Legacy).elements
  OBVIOUS
<1>5. AssembleText(Legacy).elements = elements
  BY <1>4, AssembledShows
<1>6. DOMAIN elements = 1 .. Len(elements)
  BY <1>1, <1>3, <1>4, ElementNames DEF ElementList
<1>7. ASSUME NEW a \in Insertions(Legacy), NEW b \in Insertions(Legacy), NameOf(a) = NameOf(b) PROVE a = b
  <2>1. PICK m \in 1 .. Len(elements) : elements[m].atom = a.edit.id /\ elements[m].id = NameOf(a)
    BY <1>1, <1>3, <1>4, ElementNames
  <2>2. PICK n \in 1 .. Len(elements) : elements[n].atom = b.edit.id /\ elements[n].id = NameOf(b)
    BY <1>1, <1>3, <1>4, ElementNames
  <2>3. m = n
    BY <1>5, <1>6, <1>7, <2>1, <2>2 DEF LegacyIsNamed
  <2>4. a.edit.id = b.edit.id
    BY <2>1, <2>2, <2>3
  <2> QED BY <1>3, <2>4 DEF Coherent, Unique
<1> QED BY <1>1, <1>7 DEF Named

\* The insertions of a replacement count on from a first id.
Numbered(minted, first) ==
  \A op \in Insertions(minted) : \E k \in Nat \ {0} : op.edit.id = AtomAt(first, k)

\* The counter of a replacement is above all that its replica used, so that the
\* names it gives are new.
LEMMA NamesGrow ==
  ASSUME NEW W, Named(W), Founded(W), Anchored(W), Signed(W), NEW r \in Replicas, NEW held, Causal(held, W),
         \A op \in W : op.origin = r => op \in held,
         NEW minted, OpSet(W \cup minted), Anchored(W \cup minted), \A op \in minted : op.origin = r,
         NEW c, c = NextCounter(Assembled(held).elements, r),
         NEW first, first = <<InsertionOrder(held), r, c>>, Numbered(minted, first)
  PROVE  Named(W \cup minted)
<1>1. Native(W) /\ OpSet(W) /\ DownIn(held, W) /\ held \subseteq W /\ Coherent(held)
  BY CausalPart DEF Named, Native, Causal, DownIn
<1>2. PICK elements : elements = Assembled(held).elements
  OBVIOUS
<1>3. c \in Nat \ {0} /\ \A n \in 1 .. Len(elements) : elements[n].id[1] = r => elements[n].id[2] < c
  BY <1>1, <1>2, ElementNames, CounterFacts
<1>4. PICK R : R = InsertionOrder(held)
  OBVIOUS
<1>5. Insertions(W) \subseteq W /\ Insertions(W \cup minted) = Insertions(W) \cup Insertions(minted)
  BY DEF Insertions
<1>6. ASSUME NEW o \in Insertions(W)
      PROVE  NameOf(o)[1] = r => NameOf(o)[2] < c
  <2>1. CASE o \in Legacy
    <3>1. o.origin # r /\ o.edit.id[2] # r
      BY <2>1, LegacyAssumption, LegacyIsAnchored
    <3>2. NameOf(o)[1] = o.edit.id[2] \/ NameOf(o)[1] = o.origin
      BY DEF NameOf, PublicId
    <3> QED BY <3>1, <3>2
  <2>2. CASE o \notin Legacy
    <3>1. o.edit.id[3] > 0
      BY <2>2, <1>1 DEF Native
    <3>2. NameOf(o) = <<o.edit.id[2], o.edit.id[3]>>
      BY <3>1 DEF NameOf, PublicId
    <3>3. CASE o.edit.id[2] = r
      <4>1. o \in Insertions(held)
        BY <1>1, <1>4, <3>3, HeldFacts
      <4>2. PICK n \in 1 .. Len(elements) : elements[n].id = NameOf(o)
        BY <1>1, <1>2, <4>1, ElementNames
      <4> QED BY <1>3, <3>2, <3>3, <4>2
    <3>4. CASE o.edit.id[2] # r
      BY <3>2, <3>4
    <3> QED BY <3>3, <3>4
  <2> QED BY <2>1, <2>2
<1>7. ASSUME NEW o \in Insertions(minted)
      PROVE  \E k \in Nat \ {0} : o.edit.id = <<R + k - 1, r, c + k - 1>> /\ NameOf(o) = <<r, c + k - 1>>
  <2>1. PICK k \in Nat \ {0} : o.edit.id = AtomAt(first, k)
    BY DEF Numbered
  <2>2. o.edit.id = <<R + k - 1, r, c + k - 1>>
    BY <1>4, <2>1 DEF AtomAt
  <2>3. o.edit.id[3] > 0
    BY <1>3, <2>2
  <2>4. NameOf(o) = <<o.edit.id[2], o.edit.id[3]>>
    BY <2>3 DEF NameOf, PublicId
  <2> QED BY <2>2, <2>4
<1>8. ASSUME NEW o \in Insertions(minted) PROVE o.edit.id[3] > 0 /\ o.edit.id[2] \in Replicas
  <2>1. PICK k \in Nat \ {0} : o.edit.id = <<R + k - 1, r, c + k - 1>>
    BY <1>7
  <2> QED BY <1>3, <2>1
<1>9. Native(W \cup minted)
  BY <1>1, <1>5, <1>8 DEF Native
<1>10. ASSUME NEW a \in Insertions(W), NEW b \in Insertions(minted) PROVE NameOf(a) # NameOf(b)
  <2>1. PICK k \in Nat \ {0} : NameOf(b) = <<r, c + k - 1>>
    BY <1>7
  <2>2. SUFFICES ASSUME NameOf(a) = NameOf(b) PROVE FALSE
    OBVIOUS
  <2>3. c + k - 1 < c
    BY <1>6, <2>1, <2>2
  <2> QED BY <1>3, <2>3
<1>11. ASSUME NEW a \in Insertions(minted), NEW b \in Insertions(minted), NameOf(a) = NameOf(b) PROVE a = b
  <2>1. PICK k \in Nat \ {0} : a.edit.id = <<R + k - 1, r, c + k - 1>> /\ NameOf(a) = <<r, c + k - 1>>
    BY <1>7
  <2>2. PICK l \in Nat \ {0} : b.edit.id = <<R + l - 1, r, c + l - 1>> /\ NameOf(b) = <<r, c + l - 1>>
    BY <1>7
  <2>3. k = l
    <3>1. NameOf(a)[2] = c + k - 1 /\ NameOf(b)[2] = c + l - 1
      BY <2>1, <2>2
    <3>2. c + k - 1 = c + l - 1
      BY <1>11, <3>1
    <3> QED BY <1>3, <3>2
  <2>4. a.edit.id = b.edit.id
    BY <2>1, <2>2, <2>3
  <2> QED BY <1>5, <2>4 DEF Anchored
<1>12. \A a, b \in Insertions(W \cup minted) : NameOf(a) = NameOf(b) => a = b
  BY <1>5, <1>10, <1>11 DEF Named
<1> QED BY <1>9, <1>12 DEF Named
-----------------------------------------------------------------------------
(* The history of replicas that edit. *)

Edited(H) ==
  /\ History(H) /\ Anchored(WorldOf(H)) /\ Signed(WorldOf(H))
  /\ \A r \in Ordered : Causal(H[r], WorldOf(H))
  /\ WritersAreOrdered /\ LegacyIsNamed => Named(WorldOf(H))

\* The old content is such a history.
LEMMA EditedBegins ==
  LET H == [r \in Replicas |-> IF r \in Holders THEN Legacy ELSE {}] IN Edited(H)
<1> DEFINE H == [r \in Replicas |-> IF r \in Holders THEN Legacy ELSE {}]
<1>1. History(H)
  BY HistoryBegins
<1>2. \A r \in Replicas : Of(H[r], r) = {} /\ (H[r] = Legacy \/ H[r] = {})
  BY LegacyAssumption DEF Of
<1> HIDE DEF H
<1>3. WorldOf(H) = Legacy
  BY <1>2 DEF WorldOf
<1>4. Anchored(Legacy) /\ Signed(Legacy)
  BY LegacyIsAnchored DEF Signed
<1>5. Causal(Legacy, Legacy) /\ Causal({}, Legacy)
  BY LegacyIsFounded DEF Causal, DownIn, Founded
<1>6. \A r \in Ordered : r \in Replicas
  BY ReplicasAssumption
<1>7. Edited(H)
  BY <1>1, <1>2, <1>3, <1>4, <1>5, <1>6, LegacyNamed DEF Edited
<1> QED BY <1>7 DEF H

\* What arrives or is lost in causal order leaves the history as it was.
LEMMA EditedStays ==
  ASSUME NEW H, Edited(H), NEW r \in Replicas, NEW K \in SUBSET WorldOf(H), Of(K, r) = Of(H[r], r),
         r \in Ordered => Causal(K, WorldOf(H))
  PROVE  Edited([H EXCEPT ![r] = K])
<1> DEFINE G == [H EXCEPT ![r] = K]
<1>1. History(G) /\ WorldOf(G) = WorldOf(H)
  BY HistoryStays DEF Edited
<1>2. G[r] = K /\ \A q \in Replicas : q # r => G[q] = H[q]
  BY DEF Edited, History
<1> HIDE DEF G
<1>3. ASSUME NEW q \in Ordered PROVE Causal(G[q], WorldOf(H))
  BY <1>2, ReplicasAssumption DEF Edited
<1>4. Edited(G)
  BY <1>1, <1>3 DEF Edited
<1> QED BY <1>4 DEF G

\* What a replacement writes of its plan, and what comes of it.
Writes(held, r, text, edits, sent, minted) ==
  /\ edits = Plan(Assembled(held).elements, text,
                  <<InsertionOrder(held), r, NextCounter(Assembled(held).elements, r)>>)
  /\ sent \in 1 .. Len(edits) /\ minted = MintedOf(held, r, SubSeq(edits, 1, sent))

Yields(held, r, text, edits, sent, minted) ==
  sent = Len(edits) /\ r \in Ordered => TextOf(Assembled(held \cup minted).elements) = text

\* A replacement makes such a history a longer one, and what it sent whole reaches
\* its text.
LEMMA EditedGrows ==
  ASSUME NEW H, Edited(H), NEW r \in Replicas, NEW text \in Texts, NEW edits, NEW sent, NEW minted,
         Writes(H[r], r, text, edits, sent, minted), WritersAreOrdered => r \in Ordered
  PROVE  /\ Edited([H EXCEPT ![r] = H[r] \cup minted]) /\ OpSet(H[r] \cup minted)
         /\ Yields(H[r], r, text, edits, sent, minted)
<1>1. PICK held : held = H[r]
  OBVIOUS
<1>2. PICK W : W = WorldOf(H)
  OBVIOUS
<1>3. PICK elements : elements = Assembled(held).elements
  OBVIOUS
<1>4. PICK c : c = NextCounter(elements, r)
  OBVIOUS
<1>5. PICK first : first = <<InsertionOrder(held), r, c>>
  OBVIOUS
<1>6. PICK shown : shown = Visible(elements)
  OBVIOUS
<1>7. PICK some : some = SubSeq(edits, 1, sent)
  OBVIOUS
<1>8. edits = Plan(elements, text, first) /\ minted = MintedOf(held, r, some) /\ sent \in 1 .. Len(edits)
  BY <1>1, <1>3, <1>4, <1>5, <1>7 DEF Writes
<1>9. /\ History(H) /\ Anchored(W) /\ Signed(W) /\ \A q \in Ordered : Causal(H[q], W)
      /\ OpSet(W) /\ Founded(W) /\ held \subseteq W
  BY <1>1, <1>2 DEF Edited, History
<1>10. OpSet(held) /\ \A op \in W : op.origin = r => op \in held
  BY <1>1, <1>2, <1>9, HistoryHolds
<1>11. /\ ElementList(elements) /\ ElementList(shown) /\ Solid(shown)
       /\ \A k \in 1 .. Len(shown) : InsertedBy(held, shown[k])
  BY <1>3, <1>6, <1>10, ShownHeld
<1>12. text \in Seq(Nat) /\ r \in Origins /\ c \in Nat
  BY <1>4, <1>11, CounterFacts, ReplicasAssumption
<1>13. edits \in Seq(Deletion \cup Insertion)
  <2>1. first \in AtomId
    BY <1>5, <1>10, <1>12, OrderFacts DEF AtomId
  <2> QED BY <1>8, <1>11, <1>12, <2>1, PlanTyped
<1>14. Len(edits) \in Nat /\ sent \in Nat /\ 1 <= sent /\ sent <= Len(edits)
  BY <1>8, <1>13
<1>15. some \in Seq(Deletion \cup Insertion)
  <2>1. \A i \in 1 .. sent : i \in 1 .. Len(edits)
    BY <1>14
  <2>2. \A i \in 1 .. Len(edits) : edits[i] \in Deletion \cup Insertion
    BY <1>13
  <2> QED BY <1>7, <1>13, <1>14, <2>1, <2>2
<1>16. text # TextOf(elements)
  <2>1. text = TextOf(elements) => edits = <<>>
    BY <1>8 DEF Plan
  <2> QED BY <1>14, <2>1
<1>17. PICK h \in 0 .. Len(shown), j \in 0 .. Len(shown), new \in Seq(Nat) :
         /\ h <= j /\ PlanOf(shown, edits, first, h, j, new)
         /\ Reaches(TextOf(elements), text, EndAt(shown, h), EndAt(shown, j), new)
  <2>1. Len(shown) \in Nat
    BY <1>11 DEF ElementList
  <2>2. \A h \in 0 .. Len(shown) : \A j \in h .. Len(shown) : j \in 0 .. Len(shown) /\ h <= j
    BY <2>1
  <2>3. \E h \in 0 .. Len(shown) : \E j \in h .. Len(shown) : \E new \in Seq(Nat) :
          /\ PlanOf(shown, edits, first, h, j, new)
          /\ Reaches(TextOf(elements), text, EndAt(shown, h), EndAt(shown, j), new)
    BY <1>6, <1>8, <1>11, <1>12, <1>16, PlanIs
  <2> QED BY <2>2, <2>3
<1>18. Text(new) /\ h \in Nat /\ j \in Nat /\ j <= Len(shown) /\ Len(shown) \in Nat /\ Len(edits) = (j - h) + Len(new)
  <2>1. Len(shown) \in Nat
    BY <1>11 DEF ElementList
  <2> QED BY <1>17, <2>1 DEF Text, PlanOf
<1>19. Sends(r, held, minted, shown, first, h, j, new, sent)
  BY <1>7, <1>8, <1>14, <1>17, <1>18, PlanSends
<1>20. PICK M : Sent(M, r, held, minted, shown, first, h, j, new, sent)
  BY <1>18, <1>19, SentOneByOne
<1>21. Anchored(W \cup minted) /\ Signed(W \cup minted)
  BY <1>5, <1>9, <1>10, <1>11, <1>12, <1>14, <1>17, <1>18, <1>20, SentAnchors
<1>22. Atop(r, held, minted)
  BY <1>8, <1>10, <1>15, MintFacts
<1> DEFINE G == [H EXCEPT ![r] = held \cup minted]
<1>23. History(G) /\ OpSet(held \cup minted) /\ WorldOf(G) = W \cup minted
  <2>1. minted = MintedOf(H[r], r, some) /\ held = H[r]
    BY <1>1, <1>8
  <2>2. /\ History([H EXCEPT ![r] = H[r] \cup MintedOf(H[r], r, some)])
        /\ OpSet(H[r] \cup MintedOf(H[r], r, some))
        /\ WorldOf([H EXCEPT ![r] = H[r] \cup MintedOf(H[r], r, some)]) = WorldOf(H) \cup MintedOf(H[r], r, some)
    BY <1>9, <1>15, HistoryGrows
  <2> QED BY <1>2, <2>1, <2>2
<1>24. G[r] = held \cup minted /\ \A q \in Replicas : q # r => G[q] = H[q]
  BY <1>9 DEF History
<1> HIDE DEF G
<1>25. ASSUME NEW q \in Ordered PROVE Causal(G[q], W \cup minted)
  <2>1. Causal(H[q], W) /\ q \in Replicas
    BY <1>9, ReplicasAssumption
  <2>2. Causal(H[q], W \cup minted) /\ (H[q] = held => Causal(H[q] \cup minted, W \cup minted))
    BY <1>9, <1>10, <1>22, <2>1, CausalGrows
  <2> QED BY <1>1, <1>24, <2>1, <2>2
<1>26. Edited(G)
  <2>1. ASSUME WritersAreOrdered, LegacyIsNamed PROVE Named(W \cup minted)
    <3>1. Numbered(minted, first)
      <4> SUFFICES ASSUME NEW op \in Insertions(minted) PROVE \E k \in Nat \ {0} : op.edit.id = AtomAt(first, k)
        BY DEF Numbered
      <4>1. PICK k \in 1 .. sent : op = M[k]
        BY <1>20 DEF Insertions, Sent
      <4>2. op.edit.kind = "insert" /\ k \in Nat /\ j - h \in Nat
        BY <1>14, <1>17, <1>18 DEF Insertions
      <4>3. CASE k > j - h
        <5>1. op.edit.id = AtomAt(first, k - (j - h)) /\ k - (j - h) \in Nat \ {0}
          BY <1>20, <4>1, <4>2, <4>3 DEF Sent
        <5> QED BY <5>1
      <4>4. CASE k <= j - h
        BY <1>20, <4>1, <4>2, <4>4 DEF Sent
      <4> QED BY <4>2, <4>3, <4>4
    <3>2. Named(W) /\ Causal(held, W) /\ Founded(W)
      BY <1>1, <1>2, <1>9, <2>1 DEF Edited
    <3>3. OpSet(W \cup minted) /\ \A op \in minted : op.origin = r
      BY <1>22, <1>23 DEF History, Atop
    <3>4. c = NextCounter(Assembled(held).elements, r)
      BY <1>3, <1>4
    <3> QED BY <1>5, <1>9, <1>10, <1>21, <3>1, <3>2, <3>3, <3>4, NamesGrow
  <2> QED BY <1>21, <1>23, <1>25, <2>1 DEF Edited
<1>27. ASSUME sent = Len(edits), r \in Ordered PROVE TextOf(Assembled(held \cup minted).elements) = text
  <2>1. Coherent(held)
    BY <1>1, <1>9, <1>27, CausalPart
  <2>2. Coherent(held \cup minted)
    <3>1. OpSet(W \cup minted) /\ Founded(W \cup minted)
      BY <1>23 DEF History
    <3>2. Causal(held \cup minted, W \cup minted)
      BY <1>24, <1>25, <1>27
    <3> QED BY <1>21, <3>1, <3>2, CausalPart
  <2>3. /\ h \in 0 .. Len(shown) /\ j \in 0 .. Len(shown) /\ sent = (j - h) + Len(new)
        /\ Reaches(TextOf(elements), text, EndAt(shown, h), EndAt(shown, j), new)
    BY <1>17, <1>18, <1>27
  <2>4. Text(text)
    BY <1>12 DEF Text
  <2>5. OpSet(W) /\ Anchored(W) /\ Signed(W) /\ held \subseteq W /\ h <= j
    BY <1>9, <1>17
  <2>6. \A op \in W : op.origin = r => op \in held
    BY <1>10
  <2>7. Text(new) /\ c \in Nat
    BY <1>12, <1>18
  <2>8. Sent(M, r, held, minted, shown, first, h, j, new, (j - h) + Len(new)) /\ shown = Visible(Assembled(held).elements)
    BY <1>3, <1>6, <1>20, <2>3
  <2>9. Replaces(W, r, held, minted, shown, c, first, h, j, new, M)
    BY <1>5, <1>22, <2>1, <2>2, <2>3, <2>5, <2>6, <2>7, <2>8 DEF Replaces
  <2> QED BY <1>3, <2>3, <2>4, <2>9, SentYields
<1>28. Yields(held, r, text, edits, sent, minted)
  BY <1>27 DEF Yields
<1> QED BY <1>1, <1>23, <1>26, <1>28 DEF G
-----------------------------------------------------------------------------
(* The invariant of the replicas that edit. *)

EditInv ==
  /\ \E H : Edited(H) /\ replica = [r \in Replicas |-> Assembled(H[r])]
  /\ ReplaceYields

\* Where no text was asked for, nothing is to be reached.
LEMMA NoneAsked ==
  ASSUME asked' = NoText
  PROVE  ReplaceYields'
<1>1. asked'.r \notin Ordered
  BY ReplicasAssumption DEF NoText
<1> QED BY <1>1 DEF ReplaceYields

LEMMA EditBegins == Init => EditInv
<1> SUFFICES ASSUME Init PROVE EditInv
  OBVIOUS
<1> DEFINE H == [r \in Replicas |-> IF r \in Holders THEN Legacy ELSE {}]
<1>1. Edited(H)
  BY EditedBegins
<1>2. \A r \in Replicas : Restored(NoCheckpoint, H[r]) = Assembled(H[r])
  <2> SUFFICES ASSUME NEW r \in Replicas PROVE Restored(NoCheckpoint, H[r]) = Assembled(H[r])
    OBVIOUS
  <2> HIDE DEF H
  <2>1. OpSet(H[r])
    BY <1>1, HistoryHolds DEF Edited
  <2> QED BY <2>1, RestoredReplays
<1>3. replica = [r \in Replicas |-> Assembled(H[r])]
  <2>1. replica = [r \in Replicas |-> Restored(NoCheckpoint, H[r])]
    BY DEF Init
  <2> HIDE DEF H
  <2> QED BY <2>1, <1>2
<1> HIDE DEF H
<1>4. ReplaceYields
  BY ReplicasAssumption DEF Init, NoText, ReplaceYields
<1> QED BY <1>1, <1>3, <1>4 DEF EditInv

\* One replica moves on to another part of the history.
LEMMA EditStep ==
  ASSUME NEW H, NEW r \in Replicas, NEW K, Edited(H), replica = [q \in Replicas |-> Assembled(H[q])],
         Edited([H EXCEPT ![r] = K]), replica' = [replica EXCEPT ![r] = Assembled(K)], ReplaceYields'
  PROVE  EditInv'
<1> DEFINE G == [H EXCEPT ![r] = K]
<1>1. replica' = [q \in Replicas |-> Assembled(G[q])]
  <2>1. G[r] = K /\ \A q \in Replicas : q # r => G[q] = H[q]
    BY DEF Edited, History
  <2> HIDE DEF G
  <2> QED BY <2>1
<1>2. Edited(G)
  OBVIOUS
<1> HIDE DEF G
<1>3. \E X : Edited(X) /\ replica' = [q \in Replicas |-> Assembled(X[q])]
  BY <1>1, <1>2
<1> QED BY <1>3 DEF EditInv

\* What an ordered replica holds after causal delivery, or after a crash that kept
\* the causal order.
LEMMA ClosedIsCausal ==
  ASSUME NEW H, History(H), replica = [q \in Replicas |-> Assembled(H[q])], NEW K \in SUBSET WorldOf(H), Closed(K)
  PROVE  Causal(K, WorldOf(H))
<1>1. World = WorldOf(H)
  BY WorldIs
<1>2. ASSUME NEW op \in K, NEW o \in WorldOf(H), o.origin = op.origin, o.seq < op.seq PROVE o \in K
  BY <1>1, <1>2 DEF Closed
<1>3. ASSUME NEW op \in K, NEW ref \in op.refs PROVE \E o \in K : o.origin = ref[1] /\ o.seq = ref[2]
  BY DEF Closed
<1> QED BY <1>2, <1>3 DEF Causal, DownIn

\* Each action keeps the invariant.
LEMMA IngestEdits ==
  ASSUME EditInv, NEW r \in Replicas, NEW batch \in SUBSET (World \ replica[r].ops), Ingest(r, batch)
  PROVE  EditInv'
<1>1. PICK H : Edited(H) /\ replica = [q \in Replicas |-> Assembled(H[q])]
  BY DEF EditInv
<1>2. replica[r].ops = H[r] /\ World = WorldOf(H) /\ History(H)
  BY <1>1, WorldIs DEF Edited
<1>3. H[r] \cup batch \in SUBSET WorldOf(H)
  BY <1>2 DEF History
<1>4. Of(H[r] \cup batch, r) = Of(H[r], r)
  <2>1. \A op \in batch : op.origin # r
    BY <1>2, HistoryHolds
  <2> QED BY <2>1 DEF Of
<1>5. r \in Ordered => Causal(H[r] \cup batch, WorldOf(H))
  BY <1>1, <1>2, <1>3, ClosedIsCausal DEF Ingest
<1>6. Edited([H EXCEPT ![r] = H[r] \cup batch])
  BY <1>1, <1>3, <1>4, <1>5, EditedStays
<1>7. OpSet(H[r] \cup batch)
  BY <1>2, <1>3, OpSetPart DEF History
<1>8. replica' = [replica EXCEPT ![r] = Assembled(H[r] \cup batch)]
  <2>1. replica[r] = Assembled(H[r])
    BY <1>1
  <2>2. Apply(replica[r], batch) = Assembled(H[r] \cup batch)
    BY <1>7, <2>1, ApplyReplays
  <2> QED BY <2>2 DEF Ingest, Fold
<1>9. ReplaceYields'
  BY NoneAsked DEF Ingest
<1> QED BY <1>1, <1>6, <1>8, <1>9, EditStep

LEMMA ReplaceEdits ==
  ASSUME EditInv, NEW r \in Replicas, NEW text \in Texts, NEW sent \in 1 .. MaxOps[r], Replace(r, text, sent)
  PROVE  EditInv'
<1>1. PICK H : Edited(H) /\ replica = [q \in Replicas |-> Assembled(H[q])]
  BY DEF EditInv
<1>2. replica[r].ops = H[r] /\ Own(r) = Of(H[r], r) /\ replica[r] = Assembled(H[r])
  BY <1>1, WorldIs DEF Edited
<1> DEFINE shown == Assembled(H[r]).elements
<1> DEFINE edits == Plan(shown, text, <<InsertionOrder(H[r]), r, NextCounter(shown, r)>>)
<1> DEFINE some == SubSeq(edits, 1, sent)
<1> DEFINE minted == MintedOf(H[r], r, some)
<1>3. Shown(r) = shown
  BY <1>2 DEF Shown
<1>4. /\ sent \in 1 .. Len(edits) /\ Fold(r, Minted(r, some))
      /\ asked' = IF sent = Len(edits) THEN [r |-> r, text |-> text] ELSE NoText
  <2> HIDE DEF shown
  <2> QED BY <1>2, <1>3 DEF Replace
<1>5. Minted(r, some) = minted
  <2> HIDE DEF some
  <2> QED BY <1>2 DEF Minted, MintedOf, Mint, FirstOf
<1>6. /\ Edited([H EXCEPT ![r] = H[r] \cup minted]) /\ OpSet(H[r] \cup minted)
      /\ sent = Len(edits) /\ r \in Ordered => TextOf(Assembled(H[r] \cup minted).elements) = text
  <2>1. Writes(H[r], r, text, edits, sent, minted) /\ Edited(H)
    BY <1>1, <1>4 DEF Writes
  <2>2. WritersAreOrdered => r \in Ordered
    BY ReplicasAssumption DEF WritersAreOrdered
  <2> HIDE DEF minted, some, edits, shown
  <2>3. /\ Edited([H EXCEPT ![r] = H[r] \cup minted]) /\ OpSet(H[r] \cup minted)
        /\ Yields(H[r], r, text, edits, sent, minted)
    BY <2>1, <2>2, EditedGrows
  <2> QED BY <2>3 DEF Yields
<1> HIDE DEF minted, some, edits, shown
<1>7. replica' = [replica EXCEPT ![r] = Assembled(H[r] \cup minted)]
  <2>1. Apply(replica[r], minted) = Assembled(H[r] \cup minted)
    BY <1>2, <1>6, ApplyReplays
  <2> QED BY <1>4, <1>5, <2>1 DEF Fold
<1>8. ReplaceYields'
  <2>1. CASE sent = Len(edits)
    <3>1. asked'.r = r /\ asked'.text = text
      BY <1>4, <2>1
    <3>2. replica'[r] = Assembled(H[r] \cup minted)
      BY <1>1, <1>7
    <3>3. r \in Ordered => TextOf(replica'[r].elements) = text
      BY <1>6, <2>1, <3>2
    <3> QED BY <3>1, <3>3 DEF ReplaceYields, Shown
  <2>2. CASE sent # Len(edits)
    BY <1>4, <2>2, NoneAsked
  <2> QED BY <2>1, <2>2
<1> QED BY <1>1, <1>6, <1>7, <1>8, EditStep

LEMMA RestartEdits ==
  ASSUME NEW H, NEW r \in Replicas, NEW K, NEW checkpoint,
         Edited(H), replica = [q \in Replicas |-> Assembled(H[q])],
         K \in SUBSET WorldOf(H), Of(K, r) = Of(H[r], r), r \in Ordered => Causal(K, WorldOf(H)),
         checkpoint = NoCheckpoint \/ \E ops : checkpoint = Assembled(ops),
         Restart(r, checkpoint, K)
  PROVE  EditInv'
<1>1. Edited([H EXCEPT ![r] = K])
  BY EditedStays
<1>2. OpSet(K)
  BY OpSetPart DEF Edited, History
<1>3. replica' = [replica EXCEPT ![r] = Assembled(K)]
  <2>1. Restored(checkpoint, K) = Assembled(K)
    BY <1>2, RestoredReplays
  <2> QED BY <2>1 DEF Restart
<1>4. ReplaceYields'
  BY NoneAsked DEF Restart
<1> QED BY <1>1, <1>3, <1>4, EditStep

LEMMA CrashEdits ==
  ASSUME TextInv, EditInv, NEW r \in Replicas, NEW kept \in SUBSET replica[r].ops,
         NEW checkpoint \in {saved[r], NoCheckpoint}, Crash(r, kept, checkpoint)
  PROVE  EditInv'
<1>1. PICK H : Edited(H) /\ replica = [q \in Replicas |-> Assembled(H[q])]
  BY DEF EditInv
<1>2. replica[r].ops = H[r] /\ Own(r) = Of(H[r], r) /\ History(H)
  BY <1>1, WorldIs DEF Edited
<1>3. kept \in SUBSET WorldOf(H) /\ Of(kept, r) = Of(H[r], r)
  <2>1. kept \subseteq H[r] /\ Of(H[r], r) \subseteq kept
    BY <1>2 DEF Crash
  <2>2. Of(kept, r) = Of(H[r], r)
    BY <2>1 DEF Of
  <2> QED BY <2>1, <2>2, <1>2 DEF History
<1>4. r \in Ordered => Causal(kept, WorldOf(H))
  BY <1>1, <1>2, <1>3, ClosedIsCausal DEF Crash
<1>5. checkpoint = NoCheckpoint \/ \E ops : checkpoint = Assembled(ops)
  BY DEF TextInv
<1>6. Restart(r, checkpoint, kept)
  BY DEF Crash
<1> QED BY <1>1, <1>3, <1>4, <1>5, <1>6, RestartEdits

LEMMA RemountEdits ==
  ASSUME EditInv, NEW r \in Replicas, Remount(r)
  PROVE  EditInv'
<1>1. PICK H : Edited(H) /\ replica = [q \in Replicas |-> Assembled(H[q])]
  BY DEF EditInv
<1>2. replica[r].ops = H[r] /\ replica[r] = Assembled(H[r])
  BY <1>1, WorldIs DEF Edited
<1>3. H[r] \in SUBSET WorldOf(H) /\ (r \in Ordered => Causal(H[r], WorldOf(H)))
  BY <1>1 DEF Edited, History
<1>4. Restart(r, Assembled(H[r]), H[r])
  BY <1>2 DEF Remount
<1> QED BY <1>1, <1>3, <1>4, RestartEdits

LEMMA EditKept == TextInv /\ EditInv /\ [Next]_vars => EditInv'
<1>1. ASSUME EditInv, NEW r \in Replicas, NEW batch \in SUBSET (World \ replica[r].ops), Ingest(r, batch)
      PROVE  EditInv'
  BY <1>1, IngestEdits
<1>2. ASSUME EditInv, NEW r \in Replicas, NEW text \in Texts, NEW sent \in 1 .. MaxOps[r], Replace(r, text, sent)
      PROVE  EditInv'
  BY <1>2, ReplaceEdits
<1>3. ASSUME EditInv, NEW r \in Replicas, Remount(r) PROVE EditInv'
  BY <1>3, RemountEdits
<1>4. ASSUME TextInv, EditInv, NEW r \in Replicas, NEW kept \in SUBSET replica[r].ops,
             NEW checkpoint \in {saved[r], NoCheckpoint}, Crash(r, kept, checkpoint)
      PROVE  EditInv'
  BY <1>4, CrashEdits
<1>5. ASSUME EditInv, UNCHANGED vars PROVE EditInv'
  BY <1>5 DEF EditInv, ReplaceYields, Shown, vars
<1> QED BY <1>1, <1>2, <1>3, <1>4, <1>5 DEF Next

\* ReplaceYields: where operations arrive in causal order, a replacement that was
\* sent whole reaches the text it was asked for, for any texts, any number of
\* editors and whatever elements, tombstones and foreign ids the old text is made
\* of, if the writer that is gone inserted each atom once, ranked within its clock
\* and behind an atom it had.
THEOREM ReplacementYields == Spec => []ReplaceYields
<1>1. EditInv => ReplaceYields
  BY DEF EditInv
<1>2. Spec => []EditInv
  BY EditBegins, EditKept, InvAlways, PTL DEF Spec
<1> QED BY <1>1, <1>2, PTL

-----------------------------------------------------------------------------
(* Cursors. *)

\* The first elements of a list show what comes first.
LEMMA PrefixShown ==
  ASSUME NEW elements, ElementList(elements), NEW at, Counts(elements, at), NEW n \in 0 .. Len(elements)
  PROVE  TextOf(SubSeq(elements, 1, n)) = FlattenSeq([m \in 1 .. at[n] |-> Visible(elements)[m].text])
<1>1. PICK part : part = SubSeq(elements, 1, n)
  OBVIOUS
<1>2. Len(elements) \in Nat /\ n \in Nat /\ n <= Len(elements)
  BY DEF ElementList
<1>3. ElementList(part) /\ Len(part) = n /\ \A i \in 1 .. n : part[i] = elements[i]
  <2> HIDE DEF Element
  <2>1. \A i \in 1 .. n : i \in 1 .. Len(elements)
    BY <1>2
  <2>2. part \in Seq(Element)
    BY <1>1, <1>2, <2>1 DEF ElementList
  <2> QED BY <1>1, <1>2, <2>2 DEF ElementList
<1>4. PICK ap : Counts(part, ap)
  BY <1>3, CountsExist
<1>5. ASSUME NEW i \in 0 .. n - 1, ap[i] = at[i] PROVE ap[i + 1] = at[i + 1]
  <2>1. i \in 0 .. Len(part) - 1 /\ i \in 0 .. Len(elements) - 1 /\ part[i + 1] = elements[i + 1]
    BY <1>2, <1>3
  <2>2. CASE elements[i + 1].deleted
    BY <1>4, <1>5, <2>1, <2>2 DEF Counts
  <2>3. CASE ~ elements[i + 1].deleted
    BY <1>4, <1>5, <2>1, <2>3 DEF Counts
  <2> QED BY <2>2, <2>3
<1>6. \A i \in 0 .. n : ap[i] = at[i]
  <2> DEFINE Bad == {i \in 0 .. n : ap[i] # at[i]}
  <2>1. SUFFICES ASSUME Bad # {} PROVE FALSE
    OBVIOUS
  <2>2. Bad \in SUBSET Nat
    BY <1>2
  <2>3. PICK i \in Bad : \A j \in Bad : i <= j
    BY <2>1, <2>2, LeastNat
  <2>4. i # 0
    BY <1>4, <2>3 DEF Counts
  <2>5. i - 1 \in 0 .. n - 1 /\ (i - 1) + 1 = i /\ i - 1 \in 0 .. n /\ ~ i <= i - 1
    BY <1>2, <2>4
  <2>6. ap[i - 1] = at[i - 1]
    BY <2>3, <2>5
  <2> QED BY <1>5, <2>3, <2>5, <2>6
<1>7. PICK shown : shown = Visible(elements)
  OBVIOUS
<1>8. PICK some : some = Visible(part)
  OBVIOUS
<1>9. ElementList(some) /\ ElementList(shown)
  BY <1>3, <1>7, <1>8, VisibleTyped DEF ElementList
<1>10. Len(some) = at[n] /\ DOMAIN some = 1 .. at[n]
  <2>1. Len(some) = at[n]
    BY <1>3, <1>4, <1>6, <1>8, <1>2 DEF Counts
  <2> QED BY <1>9, <2>1 DEF ElementList
<1>11. ASSUME NEW k \in 1 .. at[n] PROVE some[k] = shown[k]
  <2>1. PICK i \in 1 .. n : ~ part[i].deleted /\ ap[i] = k
    BY <1>3, <1>4, <1>8, <1>10 DEF Counts
  <2>2. /\ i - 1 \in 0 .. Len(part) - 1 /\ i - 1 \in 0 .. Len(elements) - 1 /\ (i - 1) + 1 = i
        /\ part[i] = elements[i] /\ at[i] = k
    BY <1>2, <1>3, <1>6, <2>1
  <2>3. some[k] = part[i]
    <3>1. i - 1 \in 0 .. Len(part) - 1 /\ (i - 1) + 1 = i
      BY <2>2
    <3> QED BY <1>4, <1>8, <2>1, <3>1 DEF Counts
  <2>4. shown[k] = elements[i]
    <3>1. i - 1 \in 0 .. Len(elements) - 1 /\ (i - 1) + 1 = i /\ ~ elements[i].deleted
      BY <2>1, <2>2
    <3> QED BY <1>7, <2>2, <3>1 DEF Counts
  <2> QED BY <2>2, <2>3, <2>4
<1>12. TextOf(part) = FlattenSeq([m \in 1 .. at[n] |-> some[m].text])
  BY <1>8, <1>10 DEF TextOf
<1>13. [m \in 1 .. at[n] |-> some[m].text] = [m \in 1 .. at[n] |-> shown[m].text]
  BY <1>11
<1> QED BY <1>1, <1>7, <1>12, <1>13

\* A cursor behind a visible element is anchored to its far side.
LEMMA CursorBehind ==
  ASSUME NEW elements, ElementList(elements), Solid(Visible(elements)),
         NEW n \in 1 .. Len(elements), ~ elements[n].deleted
  PROVE  CursorAt(elements, Len(TextOf(SubSeq(elements, 1, n)))) = [element |-> elements[n].id, affinity |-> "after"]
<1>1. PICK at : Counts(elements, at)
  BY CountsExist
<1>2. PICK shown : shown = Visible(elements)
  OBVIOUS
<1>3. ElementList(shown)
  BY <1>2, VisibleTyped DEF ElementList
<1>4. Len(elements) \in Nat /\ Len(shown) \in Nat /\ DOMAIN shown = 1 .. Len(shown)
  <2> HIDE DEF Element
  <2> QED BY <1>3 DEF ElementList
<1>5. Growing(shown)
  BY <1>2, <1>3, EndsGrow
<1>6. PICK k : k = at[n]
  OBVIOUS
<1>7. k \in 1 .. Len(shown) /\ shown[k] = elements[n]
  <2>1. n - 1 \in 0 .. Len(elements) - 1 /\ (n - 1) + 1 = n /\ n - 1 \in 0 .. Len(elements) /\ n \in 0 .. Len(elements)
    BY <1>4
  <2>2. at[n] = at[n - 1] + 1 /\ shown[at[n]] = elements[n]
    BY <1>1, <1>2, <2>1 DEF Counts
  <2>3. at[n - 1] \in 0 .. Len(shown) /\ at[n] \in 0 .. Len(shown)
    BY <1>1, <1>2, <2>1 DEF Counts
  <2> QED BY <1>4, <1>6, <2>2, <2>3
<1>8. PICK offset : offset = Len(TextOf(SubSeq(elements, 1, n)))
  OBVIOUS
<1>9. offset = EndAt(shown, k)
  <2>1. n \in 0 .. Len(elements)
    BY <1>4
  <2> QED BY <1>1, <1>2, <1>6, <1>8, <2>1, PrefixShown DEF EndAt
<1>10. /\ EndAt(shown, k) \in Nat /\ EndAt(shown, k - 1) \in Nat
       /\ \A m \in 1 .. Len(shown) : EndAt(shown, k) <= EndAt(shown, m) <=> k <= m
  <2>1. k - 1 \in 0 .. Len(shown) /\ k \in 0 .. Len(shown)
    BY <1>4, <1>7
  <2>2. ASSUME NEW m \in 1 .. Len(shown) PROVE EndAt(shown, k) <= EndAt(shown, m) <=> k <= m
    <3>1. m \in 0 .. Len(shown) /\ m \in Nat /\ k \in Nat /\ EndAt(shown, k) \in Nat /\ EndAt(shown, m) \in Nat
      BY <1>5, <2>1 DEF Growing
    <3>2. CASE k < m
      <4>1. EndAt(shown, k) < EndAt(shown, m)
        BY <1>5, <2>1, <3>1, <3>2 DEF Growing
      <4> QED BY <3>1, <3>2, <4>1
    <3>3. CASE m < k
      <4>1. EndAt(shown, m) < EndAt(shown, k)
        BY <1>5, <2>1, <3>1, <3>3 DEF Growing
      <4> QED BY <3>1, <3>3, <4>1
    <3>4. CASE m = k
      BY <3>1, <3>4
    <3> QED BY <1>7, <3>2, <3>3, <3>4
  <2> QED BY <1>5, <2>1, <2>2 DEF Growing
<1>11. Min({m \in DOMAIN shown : offset <= EndAt(shown, m)}) = k
  <2> DEFINE S == {m \in DOMAIN shown : offset <= EndAt(shown, m)}
  <2>1. S \in SUBSET Nat /\ k \in S /\ \A m \in S : k <= m
    BY <1>4, <1>7, <1>9, <1>10
  <2>2. Min(S) \in S /\ \A m \in S : Min(S) <= m
    BY <2>1, MinNat
  <2> HIDE DEF S
  <2>3. Min(S) = k
    <3>1. Min(S) \in Nat /\ k \in Nat /\ k <= Min(S) /\ Min(S) <= k
      BY <2>1, <2>2
    <3> QED BY <3>1
  <2> QED BY <2>3 DEF S
<1>12. ~ (offset - StartAt(shown, k) < EndAt(shown, k) - offset)
  <2>1. StartAt(shown, k) = EndAt(shown, k - 1) /\ EndAt(shown, k - 1) < EndAt(shown, k)
    <3>1. k - 1 \in 0 .. Len(shown) /\ k \in 0 .. Len(shown) /\ k - 1 < k
      BY <1>4, <1>7
    <3> QED BY <1>5, <3>1 DEF StartAt, Growing
  <2> QED BY <1>9, <1>10, <2>1
<1>13. shown # <<>>
  BY <1>4, <1>7
<1>14. CursorAt(elements, offset) = [element |-> shown[k].id, affinity |-> "after"]
  BY <1>2, <1>11, <1>12, <1>13 DEF CursorAt
<1> QED BY <1>7, <1>8, <1>14

\* Such a cursor is at the end of the only element of that name.
LEMMA ResolvesBehind ==
  ASSUME NEW elements, ElementList(elements), NEW m \in 1 .. Len(elements),
         \A n \in 1 .. Len(elements) : elements[n].id = elements[m].id => n = m
  PROVE  Resolve(elements, [element |-> elements[m].id, affinity |-> "after"]) = Len(TextOf(SubSeq(elements, 1, m)))
<1>1. PICK cursor : cursor = [element |-> elements[m].id, affinity |-> "after"]
  OBVIOUS
<1>2. cursor.element = elements[m].id /\ cursor.affinity = "after" /\ cursor # NoElement
  BY <1>1 DEF NoElement
<1>3. DOMAIN elements = 1 .. Len(elements) /\ m \in Nat
  <2> HIDE DEF Element
  <2> QED BY DEF ElementList
<1>4. {n \in DOMAIN elements : elements[n].id = cursor.element} = {m}
  BY <1>2, <1>3
<1>5. Min({m}) = m
  BY <1>3, MinNat
<1> QED BY <1>1, <1>2, <1>4, <1>5 DEF Resolve

\* What an ordered replica shows: its elements have the names of their insertions,
\* each its own.
Tells(elements, K) ==
  /\ ElementList(elements) /\ Solid(Visible(elements))
  /\ \A n \in 1 .. Len(elements) :
       \E op \in Insertions(K) : op.edit.id = elements[n].atom /\ NameOf(op) = elements[n].id
  /\ \A m, n \in 1 .. Len(elements) : elements[m].id = elements[n].id => m = n

Telling == \A r \in Ordered : \E W, K : Native(W) /\ K \subseteq W /\ Tells(Shown(r), K)

\* An ordered replica shows such elements, in every state of the invariant.
LEMMA ShownTells ==
  ASSUME EditInv, WritersAreOrdered, LegacyIsNamed
  PROVE  Telling
<1> SUFFICES ASSUME NEW r \in Ordered PROVE \E W, K : Native(W) /\ K \subseteq W /\ Tells(Shown(r), K)
  BY DEF Telling
<1>1. PICK H : Edited(H) /\ replica = [q \in Replicas |-> Assembled(H[q])]
  BY DEF EditInv
<1>2. PICK W : W = WorldOf(H)
  OBVIOUS
<1>3. PICK K : K = H[r]
  OBVIOUS
<1>4. /\ Named(W) /\ Native(W) /\ OpSet(W) /\ Founded(W) /\ Anchored(W) /\ Causal(K, W)
  BY <1>1, <1>2, <1>3 DEF Edited, History, Named
<1>5. DownIn(K, W) /\ K \subseteq W /\ Coherent(K) /\ OpSet(K)
  BY <1>4, CausalPart DEF Causal, DownIn, Coherent
<1>6. PICK elements : elements = Assembled(K).elements
  OBVIOUS
<1>7. Shown(r) = elements
  BY <1>1, <1>3, <1>6, ReplicasAssumption DEF Shown
<1>8. /\ ElementList(elements) /\ Solid(Visible(elements))
      /\ \A n \in 1 .. Len(elements) :
           \E op \in Insertions(K) : op.edit.id = elements[n].atom /\ NameOf(op) = elements[n].id
      /\ \A m, n \in 1 .. Len(elements) : elements[m].atom = elements[n].atom => m = n
  BY <1>4, <1>5, <1>6, ElementNames, ShownHeld
<1>9. ASSUME NEW m \in 1 .. Len(elements), NEW n \in 1 .. Len(elements), elements[m].id = elements[n].id PROVE m = n
  <2>1. PICK a \in Insertions(K) : a.edit.id = elements[m].atom /\ NameOf(a) = elements[m].id
    BY <1>8
  <2>2. PICK b \in Insertions(K) : b.edit.id = elements[n].atom /\ NameOf(b) = elements[n].id
    BY <1>8
  <2>3. a \in Insertions(W) /\ b \in Insertions(W)
    BY <1>5 DEF Insertions
  <2>4. a = b
    BY <1>4, <1>9, <2>1, <2>2, <2>3 DEF Named
  <2> QED BY <1>8, <2>1, <2>2, <2>4
<1>10. Tells(elements, K)
  BY <1>8, <1>9 DEF Tells
<1> QED BY <1>4, <1>5, <1>7, <1>10

\* An atom has one name, whenever and wherever it is inserted.
LEMMA NamesAgree ==
  ASSUME NEW W, Native(W), NEW a \in Insertions(W), NEW X, Native(X), NEW b \in Insertions(X), a.edit.id = b.edit.id
  PROVE  NameOf(a) = NameOf(b)
<1>1. CASE a.edit.id[3] > 0
  BY <1>1 DEF NameOf, PublicId
<1>2. CASE ~ a.edit.id[3] > 0
  <2>1. a \in Legacy /\ b \in Legacy
    BY <1>2 DEF Native
  <2>2. a \in Insertions(Legacy) /\ b \in Insertions(Legacy)
    BY <2>1 DEF Insertions
  <2> QED BY <2>2, LegacyIsAnchored DEF Anchored
<1> QED BY <1>1, <1>2

\* AnchorsHold: a cursor behind a visible element of an instance that receives in
\* causal order stays behind it, and at its tombstone's place, whatever is edited,
\* arrives or is restored, if those who write receive in causal order and no two
\* elements of the old content share a name. It says so of any two states, not
\* only of a step.
THEOREM AnchorsStay == WritersAreOrdered /\ LegacyIsNamed => (Spec => AnchorsHold)
<1> SUFFICES ASSUME WritersAreOrdered, LegacyIsNamed PROVE Spec => AnchorsHold
  OBVIOUS
<1>1. ASSUME Telling, Telling', NEW r \in Ordered, NEW n \in DOMAIN Shown(r), NEW m \in DOMAIN Shown(r)',
             ~ Shown(r)[n].deleted, Shown(r)[n].atom = Shown(r)'[m].atom
      PROVE  Resolve(Shown(r)', CursorAt(Shown(r), Len(TextOf(SubSeq(Shown(r), 1, n)))))
               = Len(TextOf(SubSeq(Shown(r)', 1, m)))
  <2>1. PICK W, K : Native(W) /\ K \subseteq W /\ Tells(Shown(r), K)
    BY <1>1 DEF Telling
  <2>2. PICK X, L : Native(X) /\ L \subseteq X /\ Tells(Shown(r)', L)
    BY <1>1 DEF Telling
  <2>3. PICK old : old = Shown(r)
    OBVIOUS
  <2>4. PICK new : new = Shown(r)'
    OBVIOUS
  <2>5. n \in 1 .. Len(old) /\ m \in 1 .. Len(new)
    BY <2>1, <2>2, <2>3, <2>4 DEF Tells, ElementList
  <2>6. PICK a \in Insertions(K) : a.edit.id = old[n].atom /\ NameOf(a) = old[n].id
    BY <2>1, <2>3, <2>5 DEF Tells
  <2>7. PICK b \in Insertions(L) : b.edit.id = new[m].atom /\ NameOf(b) = new[m].id
    BY <2>2, <2>4, <2>5 DEF Tells
  <2>8. old[n].id = new[m].id
    <3>1. a \in Insertions(W) /\ b \in Insertions(X)
      BY <2>1, <2>2 DEF Insertions
    <3> QED BY <1>1, <2>1, <2>2, <2>3, <2>4, <2>6, <2>7, <3>1, NamesAgree
  <2>9. CursorAt(old, Len(TextOf(SubSeq(old, 1, n)))) = [element |-> new[m].id, affinity |-> "after"]
    BY <1>1, <2>1, <2>3, <2>5, <2>8, CursorBehind DEF Tells
  <2>10. Resolve(new, [element |-> new[m].id, affinity |-> "after"]) = Len(TextOf(SubSeq(new, 1, m)))
    BY <2>2, <2>4, <2>5, ResolvesBehind DEF Tells
  <2> QED BY <2>3, <2>4, <2>9, <2>10
<1>2. Telling /\ Telling' =>
        [\A r \in Ordered : LET old == Shown(r)  new == Shown(r)' IN
           \A n \in DOMAIN old, m \in DOMAIN new :
             ~ old[n].deleted /\ old[n].atom = new[m].atom =>
               LET offset == Len(TextOf(SubSeq(old, 1, n))) IN
               Resolve(new, CursorAt(old, offset)) = Len(TextOf(SubSeq(new, 1, m)))]_vars
  BY <1>1
<1>3. Spec => []EditInv
  BY EditBegins, EditKept, InvAlways, PTL DEF Spec
<1>4. EditInv => Telling
  BY ShownTells
<1> QED BY <1>2, <1>3, <1>4, PTL DEF AnchorsHold
=============================================================================
