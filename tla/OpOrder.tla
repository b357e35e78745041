------------------------------- MODULE OpOrder -------------------------------
(***************************************************************************)
(* Stored operations and the order every replica folds them in.            *)
(*                                                                         *)
(* An operation is a record with the fields                                *)
(*   origin   the writer; origins are numbered in their string order       *)
(*   seq      the writer's own sequence number                             *)
(*   lamport  the logical clock it was minted at                           *)
(*   payload  what was written, a member of a small set                    *)
(*   wire     TRUE when the record carries its glade address, that is when *)
(*            a session minted it or the wire delivered it; FALSE when     *)
(*            BindingInstance.mintLocal made it                            *)
(* The pair (origin, seq) is the identity a store deduplicates by.         *)
(***************************************************************************)
EXTENDS Integers, FiniteSets, Sequences

Op == [origin : Nat, seq : Nat, lamport : Nat, payload : Nat, wire : BOOLEAN]

Id(op) == <<op.origin, op.seq>>
Ids(ops) == {Id(op) : op \in ops}

\* The comparator of sortedOps: lamport, then origin, then seq.
Precedes(a, b) ==
  \/ a.lamport < b.lamport
  \/ a.lamport = b.lamport /\ a.origin < b.origin
  \/ a.lamport = b.lamport /\ a.origin = b.origin /\ a.seq < b.seq

\* The position of an operation in the sorted whole, counted from 1: the number
\* LogBuffer.push gives its record when the whole log is rebuilt.
Place(op, ops) == 1 + Cardinality({o \in ops : Precedes(o, op)})

\* What InstanceStore.append adds when the operations of a batch reach it: those
\* whose identity it does not hold. The first one stored keeps the identity.
Missing(ops, held) == {o \in ops : Id(o) \notin Ids(held)}

OwnedBy(ops, who) == {o \in ops : o.origin = who}

\* The largest lamport of a set of operations, 0 for the empty set.
Top(ops) ==
  LET clocks == {o.lamport : o \in ops} \cup {0}
  IN  CHOOSE n \in clocks : \A m \in clocks : m <= n

Distinct(ops) == \A a, b \in ops : Id(a) = Id(b) => a = b
=============================================================================
