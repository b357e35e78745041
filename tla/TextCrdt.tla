------------------------------- MODULE TextCrdt -------------------------------
(***************************************************************************)
(* The text profile as functions: from operations to the applied part of   *)
(* the history, from applied operations to the tree of text elements, from *)
(* a wanted text to the edits that reach it, and from offsets to cursor    *)
(* anchors and back.                                                       *)
(*                                                                         *)
(* A character is a number and a text a sequence of characters. The id of  *)
(* an atom is a triple <<rank, actor, counter>>; counter 0 marks an id in  *)
(* a foreign format, which names no element. Root is the null of `after`.  *)
(***************************************************************************)
EXTENDS Integers, Sequences, FiniteSets, SequencesExt

CONSTANT Origins    \* the writers, numbered in their string order

ASSUME OriginsAssumption == Origins \subseteq Nat

Root == <<0, 0, 0>>
Unknown == -1       \* the base of an origin nothing is known of

-----------------------------------------------------------------------------
(* Operations and the CRDT node. *)

AtomId == (Nat \ {0}) \X Origins \X Nat

\* decodeTextEdit: the two edits there are.
IsEdit(edit) ==
  \/ edit.kind = "delete" /\ edit.id \in AtomId
  \/ /\ edit.kind = "insert" /\ edit.id \in AtomId /\ edit.after \in AtomId \cup {Root}
     /\ edit.text \in Seq(Nat) /\ edit.text # <<>>

IsOp(op) ==
  /\ op.origin \in Origins /\ {op.seq, op.lamport} \subseteq Nat
  /\ op.refs \subseteq Origins \X Nat /\ IsEdit(op.edit)

\* An origin and a number name one operation.
Distinct(ops) == \A a, b \in ops : a.origin = b.origin /\ a.seq = b.seq => a = b

\* Faulty version of Normal: numbers count from 0, which the node never takes.
NormalZero(origin, seq, bases) == seq - (IF bases[origin] = Unknown THEN 0 ELSE bases[origin])

\* Sequence numbers count from the lowest one known of their origin.
Normal(origin, seq, bases) == seq - (IF bases[origin] = Unknown THEN 0 ELSE bases[origin]) + 1

\* The operation as the node gets it, with the causal references as `deps`.
Normalized(op, bases) ==
  [origin |-> op.origin, seq |-> Normal(op.origin, op.seq, bases), edit |-> op.edit,
   deps |-> {<<ref[1], Normal(ref[1], ref[2], bases)>> : ref \in op.refs}]

\* The sequence number up to which the applied operations of an origin reach.
Reached(applied, origin) == Cardinality({op \in applied : op.origin = origin})

\* An operation is ready when it is the next of its origin and all it depends on
\* is applied.
Ready(applied, given) ==
  {op \in given \ applied :
     /\ op.seq = Reached(applied, op.origin) + 1
     /\ \A dep \in op.deps : dep[2] <= Reached(applied, dep[1])}

\* What is applied after so many rounds.
Rounds(applied, given) ==
  LET after[n \in Nat] ==
        IF n = 0 THEN applied
        ELSE LET before == after[n - 1] IN before \cup Ready(before, given)
  IN  after

\* CrdtNode: what is ready is applied until nothing is; what comes too early waits.
Settle(applied, pending) ==
  LET all == Rounds(applied, pending)[Cardinality(pending)]
  IN  [applied |-> all, pending |-> pending \ all]

-----------------------------------------------------------------------------
(* Atoms, the tree and the projection. *)

\* Siblings of a later rank come first, then by actor and counter.
IdBefore(x, y) ==
  \/ x[1] > y[1]
  \/ x[1] = y[1] /\ x[2] < y[2]
  \/ x[1] = y[1] /\ x[2] = y[2] /\ x[3] < y[3]

\* The rank of the next insertion: above every operation that is held.
InsertionOrder(ops) == Max({op.lamport : op \in ops} \cup {0}) + 1

\* An element is named by what its atom id says or, for a foreign id, by the
\* operation that inserted it.
PublicId(id, key) == IF id[3] > 0 THEN <<id[2], id[3]>> ELSE key

TextBefore(s, t) ==
  \E n \in 1 .. Len(t) :
    /\ n <= Len(s) + 1 /\ \A m \in 1 .. n - 1 : s[m] = t[m]
    /\ n <= Len(s) => s[n] < t[n]

\* Of two insertions of one atom, which one counts.
AtomBefore(a, b) ==
  \/ a.after # b.after /\ (a.after = Root \/ (b.after # Root /\ IdBefore(a.after, b.after)))
  \/ a.after = b.after /\ TextBefore(a.text, b.text)
  \/ a.after = b.after /\ a.text = b.text /\ a.key[1] < b.key[1]
  \/ a.after = b.after /\ a.text = b.text /\ a.key[1] = b.key[1] /\ a.key[2] < b.key[2]

\* The insertions of one atom, and the one of them that counts.
Insertions(ops) == {op \in ops : op.edit.kind = "insert"}
Claims(ops, id) ==
  {[after |-> op.edit.after, text |-> op.edit.text, key |-> <<op.origin, op.seq>>] :
     op \in {op \in Insertions(ops) : op.edit.id = id}}
Foremost(claims) == CHOOSE a \in claims : \A b \in claims : a = b \/ AtomBefore(a, b)

\* The atoms after more operations were applied.
Inserted(atoms, ops) ==
  [id \in DOMAIN atoms \cup {op.edit.id : op \in Insertions(ops)} |->
     Foremost(Claims(ops, id) \cup IF id \in DOMAIN atoms THEN {atoms[id]} ELSE {})]

Deleted(ops) == {op.edit.id : op \in {op \in ops : op.edit.kind = "delete"}}

\* The ids of a set in the order siblings are shown in.
Sorted(ids) ==
  [n \in 1 .. Cardinality(ids) |-> CHOOSE x \in ids : Cardinality({y \in ids : IdBefore(y, x)}) = n - 1]

Children(atoms, parent) == Sorted({id \in DOMAIN atoms : atoms[id].after = parent})

\* A step of the walk of the tree: each atom before its children, none twice.
Stepped(atoms, walk) ==
  LET id == Head(walk.todo) IN
  IF walk.todo = <<>> THEN walk
  ELSE IF id \in ToSet(walk.visited) THEN [walk EXCEPT !.todo = Tail(@)]
  ELSE [todo |-> Children(atoms, id) \o Tail(walk.todo), visited |-> Append(walk.visited, id)]

Walks(atoms, todo, visited) ==
  LET after[n \in Nat] ==
        IF n = 0 THEN [todo |-> todo, visited |-> visited] ELSE Stepped(atoms, after[n - 1])
  IN  after

\* The walk puts an atom on its way once as a child: it ends within these steps.
Visit(atoms, todo, visited) ==
  Walks(atoms, todo, visited)[Len(todo) + Cardinality(DOMAIN atoms)].visited

\* Tree order, tombstones included. An atom without its parent is not shown;
\* what hangs below it comes last.
TreeOrder(atoms) ==
  LET rooted == Visit(atoms, Children(atoms, Root), <<>>)
      left == {id \in DOMAIN atoms \ ToSet(rooted) : atoms[id].after \in DOMAIN atoms}
  IN  Visit(atoms, Sorted(left), rooted)

Elements(atoms, deleted) ==
  LET order == TreeOrder(atoms)
  IN  [n \in DOMAIN order |->
         [id |-> PublicId(order[n], atoms[order[n]].key), atom |-> order[n],
          text |-> atoms[order[n]].text, deleted |-> order[n] \in deleted]]

Visible(elements) ==
  LET shown == {n \in DOMAIN elements : ~ elements[n].deleted}
  IN  [k \in 1 .. Cardinality(shown) |->
         elements[CHOOSE n \in shown : Cardinality({m \in shown : m <= n}) = k]]
TextOf(elements) == LET shown == Visible(elements) IN FlattenSeq([n \in DOMAIN shown |-> shown[n].text])

\* assembleTextCrdt: a set of operations assembled from nothing.
AssembleText(ops) ==
  LET Seqs(origin) == {op.seq : op \in {op \in ops : op.origin = origin}}
      bases == [origin \in Origins |-> IF Seqs(origin) = {} THEN Unknown ELSE Min(Seqs(origin))]
      applied == Settle({}, {Normalized(op, bases) : op \in ops}).applied
  IN  [elements |-> Elements(Inserted(<<>>, applied), Deleted(applied)),
       clock |-> [origin \in Origins |-> Reached(applied, origin)]]

-----------------------------------------------------------------------------
(* Replacement plans. *)

\* How many characters two texts have in common at their start.
Common(s, t) ==
  Max({n \in 0 .. Len(s) : n <= Len(t) /\ SubSeq(s, 1, n) = SubSeq(t, 1, n)})

\* The offsets at which a visible element starts and ends.
EndAt(shown, n) == Len(FlattenSeq([m \in 1 .. n |-> shown[m].text]))
StartAt(shown, n) == EndAt(shown, n - 1)

\* Faulty version of Anchor: the element that ends where the change starts is
\* passed over.
AnchorEarlier(shown, start) ==
  LET ends == {n \in DOMAIN shown : EndAt(shown, n) < start}
  IN  IF ends = {} THEN Root ELSE shown[Max(ends)].atom

Anchor(shown, start) ==
  LET ends == {n \in DOMAIN shown : EndAt(shown, n) <= start}
  IN  IF ends = {} THEN Root ELSE shown[Max(ends)].atom

\* The edits that turn the elements into `next`; `first` is the id of the first
\* insertion, from which the others count on. An element the change touches is
\* deleted whole, and what it keeps of its text is inserted again.
Plan(elements, next, first) ==
  LET Atom(k) == <<first[1] + k - 1, first[2], first[3] + k - 1>>
      shown == Visible(elements)
      old == TextOf(elements)
      prefix == Common(old, next)
      suffix == Common(Reverse(SubSeq(old, prefix + 1, Len(old))), Reverse(SubSeq(next, prefix + 1, Len(next))))
      oldEnd == Len(old) - suffix
      touched == {n \in DOMAIN shown :
                    IF prefix = oldEnd THEN StartAt(shown, n) < prefix /\ prefix < EndAt(shown, n)
                    ELSE StartAt(shown, n) < oldEnd /\ prefix < EndAt(shown, n)}
      start == IF touched = {} THEN prefix ELSE StartAt(shown, Min(touched))
      end == IF touched = {} THEN oldEnd ELSE EndAt(shown, Max(touched))
      new == SubSeq(next, start + 1, Len(next) - (Len(old) - end))
      deletes == [k \in 1 .. Cardinality(touched) |->
                    [kind |-> "delete", id |-> shown[Min(touched) + k - 1].atom]]
      inserts == [k \in DOMAIN new |->
                    [kind |-> "insert", id |-> Atom(k), text |-> <<new[k]>>,
                     after |-> IF k = 1 THEN Anchor(shown, start) ELSE Atom(k - 1)]]
  IN  IF next = old THEN <<>> ELSE deletes \o inserts

\* Faulty version of NextCounter: deleted elements do not count.
NextCounterVisible(elements, actor) ==
  1 + Max({0} \cup {e.id[2] : e \in {e \in ToSet(Visible(elements)) : e.id[1] = actor}})
NextCounter(elements, actor) ==
  1 + Max({0} \cup {e.id[2] : e \in {e \in ToSet(elements) : e.id[1] = actor}})

-----------------------------------------------------------------------------
(* Cursors. *)

NoElement == [element |-> <<0, 0>>, affinity |-> "before"]

\* cursorAtOffset: the element an offset is anchored to, and its nearer side.
CursorAt(elements, offset) ==
  LET shown == Visible(elements)
      n == Min({m \in DOMAIN shown : offset <= EndAt(shown, m)})
      near == offset - StartAt(shown, n) < EndAt(shown, n) - offset
  IN  IF shown = <<>> THEN NoElement
      ELSE [element |-> shown[n].id, affinity |-> IF near THEN "before" ELSE "after"]

\* resolveCursor: where the anchored element is now, a tombstone included.
Resolve(elements, cursor) ==
  LET named == {n \in DOMAIN elements : elements[n].id = cursor.element}
      n == Min(named)
      Upto(m) == Len(TextOf(SubSeq(elements, 1, m)))
  IN  IF cursor = NoElement THEN 0
      ELSE IF named = {} THEN (IF cursor.affinity = "before" THEN 0 ELSE Len(TextOf(elements)))
      ELSE IF cursor.affinity = "before" THEN Upto(n - 1) ELSE Upto(n)
=============================================================================
