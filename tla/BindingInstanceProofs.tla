------------------------ MODULE BindingInstanceProofs ------------------------
(***************************************************************************)
(* Proofs about the order of operations and about BindingInstance, for     *)
(* every value of its constants.                                           *)
(***************************************************************************)
EXTENDS BindingInstance, NaturalFacts

-----------------------------------------------------------------------------
(* Operations, their clocks and their order. *)

\* A finite set of operations has a clock that none of them exceeds. Were it
\* not so, there would be a smallest set without one.
LEMMA FiniteBounded ==
  ASSUME NEW S \in SUBSET Op, IsFiniteSet(S)
  PROVE  \E n \in Nat : \A o \in S : o.lamport <= n
<1> DEFINE Bounded(A) == \E n \in Nat : \A o \in A : o.lamport <= n
<1> DEFINE Bad == {n \in Nat : \E A \in SUBSET Op :
                     IsFiniteSet(A) /\ Cardinality(A) = n /\ ~ Bounded(A)}
<1>1. SUFFICES ASSUME Bad # {} PROVE FALSE
  BY FS_CardinalityType
<1>2. PICK n \in Bad : \A m \in Bad : n <= m
  BY <1>1, LeastNat
<1>3. PICK A \in SUBSET Op : IsFiniteSet(A) /\ Cardinality(A) = n /\ ~ Bounded(A)
  BY <1>2
<1>4. PICK o \in A : TRUE
  BY <1>3
<1>5. IsFiniteSet(A \ {o}) /\ Cardinality(A \ {o}) = n - 1
  BY <1>3, <1>4, FS_RemoveElement
<1>6. n - 1 \in Nat
  BY <1>5, FS_CardinalityType
<1>7. n - 1 \notin Bad
  BY <1>2, <1>6
<1>8. Bounded(A \ {o})
  BY <1>5, <1>6, <1>7
<1>9. PICK k \in Nat : \A p \in A \ {o} : p.lamport <= k
  BY <1>8
<1>10. o.lamport \in Nat /\ \A p \in A : p.lamport \in Nat
  BY <1>4 DEF Op
<1>11. CASE o.lamport <= k
  BY <1>3, <1>9, <1>11
<1>12. CASE ~ (o.lamport <= k)
  <2>1. \A p \in A : p.lamport <= o.lamport
    BY <1>9, <1>10, <1>12
  <2> QED BY <2>1, <1>3, <1>10
<1> QED BY <1>11, <1>12

\* Top is a natural number, no clock of the set exceeds it, and it is 0 or the
\* clock of a member.
LEMMA TopType ==
  ASSUME NEW S \in SUBSET Op, IsFiniteSet(S)
  PROVE  /\ Top(S) \in Nat
         /\ \A o \in S : o.lamport <= Top(S)
<1> DEFINE clocks == {o.lamport : o \in S} \cup {0}
<1> DEFINE Caps == {n \in Nat : \A m \in clocks : m <= n}
<1>1. clocks \subseteq Nat
  BY DEF Op
<1>2. PICK k \in Nat : \A o \in S : o.lamport <= k
  BY FiniteBounded
<1>3. k \in Caps
  BY <1>2
<1>4. PICK x \in Caps : \A y \in Caps : x <= y
  BY <1>3, LeastNat
<1>5. x \in clocks
  <2>1. SUFFICES ASSUME x \notin clocks PROVE FALSE
    OBVIOUS
  <2>2. x \in Nat /\ x # 0
    BY <1>4, <2>1
  <2>3. \A m \in clocks : m \in Nat /\ m <= x /\ m # x
    BY <1>1, <1>4, <2>1
  <2>4. x - 1 \in Nat /\ \A m \in clocks : m <= x - 1
    <3> HIDE DEF clocks
    <3> QED BY <2>2, <2>3
  <2>5. x - 1 \in Caps
    BY <2>4
  <2> QED BY <1>4, <2>2, <2>5
<1>6. \A m \in clocks : m <= x
  BY <1>4
<1>7. Top(S) = CHOOSE n \in clocks : \A m \in clocks : m <= n
  BY DEF Top
<1>8. Top(S) \in clocks /\ \A m \in clocks : m <= Top(S)
  BY <1>5, <1>6, <1>7
<1> QED BY <1>1, <1>8

\* The comparator of sortedOps is a strict total order on operations with
\* distinct identities: every replica sorts the same set the same way.
THEOREM OrderIsTotal ==
  ASSUME NEW S \in SUBSET Op, Distinct(S)
  PROVE  /\ \A a \in S : ~ Precedes(a, a)
         /\ \A a, b \in S : a # b => (Precedes(a, b) <=> ~ Precedes(b, a))
         /\ \A a, b, c \in S : Precedes(a, b) /\ Precedes(b, c) => Precedes(a, c)
<1>1. \A a \in S : a.origin \in Nat /\ a.seq \in Nat /\ a.lamport \in Nat
  BY DEF Op
<1>2. \A a, b \in S : a # b => a.origin # b.origin \/ a.seq # b.seq
  BY DEF Distinct, Id
<1> QED BY <1>1, <1>2 DEF Precedes

\* Sets of operations with distinct identities have as many identities as members.
LEMMA AsManyIds ==
  ASSUME NEW S \in SUBSET Op, IsFiniteSet(S), Distinct(S)
  PROVE  IsFiniteSet(Ids(S)) /\ Cardinality(Ids(S)) = Cardinality(S)
<1> DEFINE f == [o \in S |-> Id(o)]
<1>1. f \in Bijection(S, Ids(S))
  BY DEF Bijection, Injection, Surjection, Ids, Distinct, IsInjective
<1>2. ExistsBijection(S, Ids(S))
  BY <1>1 DEF ExistsBijection
<1> QED BY <1>2, FS_Bijection

-----------------------------------------------------------------------------
(* Facts the proofs keep needing. *)

USE SelfAssumption

LEMMA SeqWidens ==
  ASSUME NEW A, NEW B, \A x \in A : x \in B, NEW s \in Seq(A)
  PROVE  s \in Seq(B)
OBVIOUS

LEMMA PutNat ==
  ASSUME NEW s \in Seq(Nat), NEW e \in 1 .. Len(s), NEW n \in Nat
  PROVE  [s EXCEPT ![e] = n] \in Seq(Nat) /\ Len([s EXCEPT ![e] = n]) = Len(s)
OBVIOUS

LEMMA AppendBoth ==
  ASSUME NEW A, NEW a \in A, NEW s \in Seq(A), NEW t \in Seq(Nat), Len(t) = Len(s)
  PROVE  /\ Append(s, a) \in Seq(A) /\ Append(t, 0) \in Seq(Nat)
         /\ Len(Append(t, 0)) = Len(Append(s, a))
OBVIOUS

-----------------------------------------------------------------------------
(* Types. The sets whose size or top clock numbers an operation are finite, *)
(* and every event has a position.                                          *)
TypeInv ==
  /\ TypeOK
  /\ IsFiniteSet(store) /\ IsFiniteSet(emitted)
  /\ IsFiniteSet(sess) /\ IsFiniteSet(sent)
  /\ Len(pos) = Len(events)

LEMMA IdsType ==
  ASSUME NEW S \in SUBSET Op, IsFiniteSet(S)
  PROVE  Ids(S) \in SUBSET (Nat \X Nat) /\ IsFiniteSet(Ids(S))
<1>1. Ids(S) \in SUBSET (Nat \X Nat)
  BY DEF Ids, Id, Op
<1>2. IsFiniteSet(Ids(S))
  <2> DEFINE f == [o \in S |-> Id(o)]
  <2>1. f \in Surjection(S, Ids(S))
    BY DEF Surjection, Ids
  <2> QED BY <2>1, FS_Surjection
<1> QED BY <1>1, <1>2

\* The calls that remain when the innermost one ends.
LEMMA OuterType ==
  ASSUME TypeOK, stack # <<>>
  PROVE  /\ Outer \in Seq(Frame)
         /\ Inner \in Frame
         /\ Len(stack) \in Nat \ {0}
         /\ \A i \in DOMAIN Outer : Outer[i] = stack[i]
<1>1. stack \in Seq(Frame)
  BY DEF TypeOK
<1> HIDE DEF Frame
<1> QED BY <1>1 DEF Outer, Inner

\* Land keeps the types, whatever finite batch it is given.
LEMMA LandType ==
  ASSUME TypeInv, NEW batch \in SUBSET Op, IsFiniteSet(batch),
         NEW rest \in Seq(Frame), Land(batch, rest)
  PROVE  /\ store' \subseteq Op /\ IsFiniteSet(store')
         /\ emitted' \subseteq Nat \X Nat /\ IsFiniteSet(emitted')
         /\ events' \in Seq(Event) /\ pos' \in Seq(Nat) /\ Len(pos') = Len(events')
         /\ stack' \in Seq(Frame')
<1> DEFINE ops == store \cup Missing(batch, store)
<1> DEFINE delta == IF Shape = "log" THEN Fresh(ops) ELSE {}
<1> DEFINE event == [base |-> BaseSeq,
                     delta |-> delta, whole |-> Assemble(ops)]
<1>1. ops \in SUBSET Op /\ IsFiniteSet(ops)
  <2>1. Missing(batch, store) \in SUBSET batch
    BY DEF Missing
  <2>2. IsFiniteSet(Missing(batch, store))
    BY <2>1, FS_Subset
  <2>3. store \in SUBSET Op /\ IsFiniteSet(store)
    BY DEF TypeInv, TypeOK
  <2> QED BY <2>1, <2>2, <2>3, FS_Union
<1>2. delta \in SUBSET Op /\ IsFiniteSet(delta)
  <2>1. delta \in SUBSET ops
    BY DEF Fresh
  <2> QED BY <1>1, <2>1, FS_Subset
<1>3. store' = ops
  BY DEF Land
<1>4. emitted' = emitted \/ emitted' = emitted \cup Ids(delta)
  BY DEF Land
<1>5. emitted' \subseteq Nat \X Nat /\ IsFiniteSet(emitted')
  <2>1. emitted \subseteq Nat \X Nat /\ IsFiniteSet(emitted)
    BY DEF TypeInv, TypeOK
  <2>2. Ids(delta) \in SUBSET (Nat \X Nat) /\ IsFiniteSet(Ids(delta))
    BY <1>2, IdsType
  <2> HIDE DEF delta
  <2>3. IsFiniteSet(emitted \cup Ids(delta))
    BY <2>1, <2>2, FS_Union
  <2> QED BY <1>4, <2>1, <2>2, <2>3
<1>6. event \in Event
  <2>1. BaseSeq \in Nat
    BY FS_CardinalityType DEF TypeInv, BaseSeq
  <2>2. Assemble(ops) \in SUBSET Op
    BY <1>1 DEF Assemble
  <2> HIDE DEF ops, delta
  <2> QED BY <1>2, <2>1, <2>2 DEF Event
<1>7. \/ /\ events' = Append(events, event) /\ pos' = Append(pos, 0)
         /\ stack' = Append(rest, Fan(Len(events) + 1))
      \/ events' = events /\ pos' = pos /\ stack' = rest
  BY DEF Land
<1> HIDE DEF event
<1>8. events \in Seq(Event) /\ pos \in Seq(Nat) /\ Len(pos) = Len(events)
  BY DEF TypeInv, TypeOK
<1>9. events' \in Seq(Event) /\ pos' \in Seq(Nat) /\ Len(pos') = Len(events')
  <2>1. CASE events' = Append(events, event) /\ pos' = Append(pos, 0)
    BY <1>6, <1>8, <2>1, AppendBoth
  <2>2. CASE events' = events /\ pos' = pos
    BY <1>8, <2>2
  <2> QED BY <1>7, <2>1, <2>2
<1>10. stack' \in Seq(Frame')
  <2>1. CASE events' = Append(events, event) /\ stack' = Append(rest, Fan(Len(events) + 1))
    <3>1. Len(events') = Len(events) + 1 /\ Len(events) \in Nat
      BY <1>6, <1>8, <2>1
    <3>2. \A f \in Frame : f \in Frame'
      BY <3>1 DEF Frame
    <3>3. Fan(Len(events) + 1) \in Frame'
      BY <3>1 DEF Frame, Fan
    <3>4. rest \in Seq(Frame')
      BY <3>2, SeqWidens
    <3> HIDE DEF Frame
    <3> QED BY <2>1, <3>3, <3>4
  <2>2. CASE events' = events /\ stack' = rest
    BY <2>2 DEF Frame
  <2> QED BY <1>7, <2>1, <2>2
<1> QED BY <1>1, <1>3, <1>5, <1>9, <1>10

\* What the session holds after it absorbed a finite batch.
LEMMA AbsorbedType ==
  ASSUME TypeInv, NEW batch \in SUBSET Op, IsFiniteSet(batch)
  PROVE  Absorbed(sess, batch) \in SUBSET Op /\ IsFiniteSet(Absorbed(sess, batch))
<1>1. sess \in SUBSET Op /\ IsFiniteSet(sess)
  BY DEF TypeInv, TypeOK
<1>2. PICK new \in SUBSET batch : Absorbed(sess, batch) = sess \cup new
  BY DEF Absorbed, Missing
<1>3. IsFiniteSet(new)
  BY FS_Subset
<1> QED BY <1>1, <1>2, <1>3, FS_Union

\* An operation numbered by a finite set of operations.
LEMMA MintedType ==
  ASSUME NEW S \in SUBSET Op, IsFiniteSet(S)
  PROVE  /\ Cardinality(OwnedBy(S, Self)) \in Nat
         /\ Top(S) \in Nat
<1>1. OwnedBy(S, Self) \in SUBSET S
  BY DEF OwnedBy
<1>2. IsFiniteSet(OwnedBy(S, Self))
  BY <1>1, FS_Subset
<1> QED BY <1>2, FS_CardinalityType, TopType

LEMMA BatchType ==
  ASSUME TypeInv, NEW batch \in Batches
  PROVE  batch \in SUBSET Op /\ IsFiniteSet(batch)
<1>1. Wire \in SUBSET Op /\ IsFiniteSet(Wire)
  BY RemoteAssumption, FS_Union DEF Wire, TypeInv, TypeOK
<1>2. batch \in SUBSET Wire
  BY DEF Batches
<1> QED BY <1>1, <1>2, FS_Subset

\* An action that lands a batch and otherwise touches the destination, the
\* counters and what was returned.
LEMMA LandingStep ==
  ASSUME TypeInv, NEW batch \in SUBSET Op, IsFiniteSet(batch),
         NEW rest \in Seq(Frame), Land(batch, rest), UNCHANGED fanVars,
         dest' \in {"none", "half", "on"},
         sess' \in SUBSET Op, IsFiniteSet(sess'), UNCHANGED sent,
         returned' \in SUBSET Op, writes' \in Nat, UNCHANGED lives
  PROVE  TypeInv'
<1>1. /\ store' \subseteq Op /\ IsFiniteSet(store')
      /\ emitted' \subseteq Nat \X Nat /\ IsFiniteSet(emitted')
      /\ events' \in Seq(Event) /\ pos' \in Seq(Nat) /\ Len(pos') = Len(events')
      /\ stack' \in Seq(Frame')
  BY LandType
<1> QED BY <1>1 DEF TypeInv, TypeOK, fanVars

LEMMA TypeInductive ==
  ASSUME TypeInv, [Next]_vars
  PROVE  TypeInv'
<1>0. /\ store \in SUBSET Op /\ sess \in SUBSET Op /\ sent \in SUBSET Op
      /\ returned \in SUBSET Op /\ writes \in Nat /\ lives \in Nat
      /\ IsFiniteSet(store) /\ IsFiniteSet(sess) /\ IsFiniteSet(sent)
      /\ stack \in Seq(Frame)
  BY DEF TypeInv, TypeOK
<1>1. CASE Attach
  <2>1. {o \in store : o.wire} \in SUBSET Op /\ IsFiniteSet({o \in store : o.wire})
    BY <1>0, FS_Subset
  <2>2. sess' \in SUBSET Op /\ IsFiniteSet(sess')
    BY <1>1, <2>1, AbsorbedType DEF Attach, Hydrated
  <2>3. Backfill(sess', store) \in SUBSET sess'
    BY DEF Backfill, Missing
  <2>4. IsFiniteSet(Backfill(sess', store)) /\ Backfill(sess', store) \in SUBSET Op
    BY <2>2, <2>3, FS_Subset
  <2>5. /\ Land(Backfill(sess', store), stack) /\ dest' = "on"
        /\ UNCHANGED <<sent, fanVars, writes, returned, lives>>
    BY <1>1 DEF Attach
  <2> HIDE DEF Land
  <2> QED BY <1>0, <2>2, <2>4, <2>5, LandingStep
<1>2. CASE AttachThrows
  BY <1>2 DEF AttachThrows, TypeInv, TypeOK, Frame, fanVars
<1>3. CASE \E l \in Listeners : Subscribe(l)
  <2>1. PICK l \in Listeners : Subscribe(l)
    BY <1>3
  <2>2. Assemble(store) \in SUBSET Op
    BY <1>0 DEF Assemble
  <2>3. slots' \in Seq(Listeners)
    <3>1. slots \in Seq(Listeners) /\ slots' = Append(slots, l)
      BY <2>1 DEF Subscribe, TypeInv, TypeOK
    <3> QED BY <3>1
  <2>4. base' \in [Listeners -> SUBSET Op] /\ view' \in [Listeners -> SUBSET Op]
    BY <1>0, <2>1, <2>2 DEF Subscribe, TypeInv, TypeOK
  <2>5. heard' \in [Listeners -> Seq(Nat)]
    <3>1. heard \in [Listeners -> Seq(Nat)] /\ heard' = [heard EXCEPT ![l] = <<>>]
      BY <2>1 DEF Subscribe, TypeInv, TypeOK
    <3> QED BY <3>1
  <2> QED BY <2>1, <2>3, <2>4, <2>5 DEF Subscribe, TypeInv, TypeOK, Frame, destVars
<1>4. CASE \E l \in Listeners : Unsubscribe(l)
  BY <1>4 DEF Unsubscribe, TypeInv, TypeOK, Frame, destVars
<1>5. CASE Tell
  <2>1. Inner \in Frame /\ Inner.kind = "fan"
    BY <1>5, OuterType DEF Tell, TypeInv
  <2>2. Inner.ev \in 1 .. Len(events)
    BY <2>1 DEF Frame
  <2>3. PICK i \in DOMAIN slots :
          /\ pos' = [pos EXCEPT ![Inner.ev] = i]
          /\ heard' = [heard EXCEPT ![slots[i]] = Append(@, Inner.ev)]
          /\ view' = [view EXCEPT ![slots[i]] = events[Inner.ev].whole]
    BY <1>5 DEF Tell
  <2>4. slots[i] \in Listeners /\ i \in Nat
    BY DEF TypeInv, TypeOK
  <2>5. events[Inner.ev].whole \in SUBSET Op
    <3>1. events \in Seq(Event) /\ Inner.ev \in DOMAIN events
      BY <2>2 DEF TypeInv, TypeOK
    <3>2. events[Inner.ev] \in Event
      BY <3>1
    <3> QED BY <3>2 DEF Event
  <2>6. pos' \in Seq(Nat) /\ Len(pos') = Len(pos)
    <3>1. pos \in Seq(Nat) /\ Inner.ev \in 1 .. Len(pos)
      BY <2>2 DEF TypeInv, TypeOK
    <3> HIDE DEF Inner
    <3>2. /\ [pos EXCEPT ![Inner.ev] = i] \in Seq(Nat)
          /\ Len([pos EXCEPT ![Inner.ev] = i]) = Len(pos)
      BY <2>4, <3>1, PutNat
    <3> QED BY <2>3, <3>2
  <2>7. view' \in [Listeners -> SUBSET Op]
    BY <2>3, <2>4, <2>5 DEF TypeInv, TypeOK
  <2>8. heard' \in [Listeners -> Seq(Nat)]
    <3>1. heard \in [Listeners -> Seq(Nat)] /\ Inner.ev \in Nat
      BY <2>2 DEF TypeInv, TypeOK
    <3>2. Append(heard[slots[i]], Inner.ev) \in Seq(Nat)
      BY <2>4, <3>1
    <3> QED BY <2>3, <2>4, <3>1, <3>2
  <2> QED BY <1>5, <2>6, <2>7, <2>8 DEF Tell, TypeInv, TypeOK, Frame, destVars
<1>6. CASE FanEnds
  <2>1. stack' \in Seq(Frame)
    BY <1>6, OuterType DEF FanEnds, TypeInv
  <2> QED BY <1>6, <2>1 DEF FanEnds, TypeInv, TypeOK, Frame, destVars, fanVars
<1>7. CASE WriteOffline
  <2>1. MintLocal(writes + 1) \in Op
    <3>1. /\ Cardinality(OwnedBy(store, Self)) + 1 \in Nat /\ Top(store) + 1 \in Nat
          /\ writes + 1 \in Nat /\ Self \in Nat
      BY <1>0, MintedType
    <3> QED BY <3>1 DEF MintLocal, Op
  <2>2. /\ Land({MintLocal(writes + 1)}, stack)
        /\ returned' = returned \cup {MintLocal(writes + 1)}
        /\ writes' = writes + 1 /\ UNCHANGED <<destVars, fanVars, lives>>
    BY <1>7 DEF WriteOffline
  <2>3. dest' \in {"none", "half", "on"} /\ sess' = sess /\ sent' = sent
    BY <2>2 DEF destVars, TypeInv, TypeOK
  <2>4. IsFiniteSet({MintLocal(writes + 1)})
    BY FS_Singleton
  <2> HIDE DEF Land, MintLocal
  <2> QED BY <1>0, <2>1, <2>2, <2>3, <2>4, LandingStep
<1>8. CASE WriteOnline
  <2> DEFINE op == SessionMint(sess, Self, writes + 1)
  <2>1. op \in Op
    BY <1>0, MintedType DEF SessionMint, Op
  <2>2. /\ sess' = sess \cup {op} /\ sent' = sent \cup {op}
        /\ stack' = Append(stack, Pending(op)) /\ writes' = writes + 1
        /\ UNCHANGED <<store, emitted, dest, fanVars, events, pos, returned, lives>>
    BY <1>8 DEF WriteOnline
  <2> HIDE DEF op
  <2>3. IsFiniteSet(sess') /\ IsFiniteSet(sent')
    BY <1>0, <2>2, FS_AddElement
  <2>4. Pending(op) \in Frame
    BY <2>1 DEF Pending, Frame
  <2>5. stack' \in Seq(Frame)
    BY <1>0, <2>2, <2>4
  <2> QED BY <1>0, <2>1, <2>2, <2>3, <2>5 DEF TypeInv, TypeOK, Frame, fanVars
<1>9. CASE WriteReturns
  <2>1. Outer \in Seq(Frame) /\ Inner \in Frame /\ Inner.kind = "write"
    BY <1>9, OuterType DEF WriteReturns, TypeInv
  <2>2. Inner.op \in Op
    BY <2>1 DEF Frame
  <2>3. /\ Land({Inner.op}, Outer) /\ returned' = returned \cup {Inner.op}
        /\ UNCHANGED <<destVars, fanVars, writes, lives>>
    BY <1>9 DEF WriteReturns
  <2>4. dest' \in {"none", "half", "on"} /\ sess' = sess /\ sent' = sent
    BY <2>3 DEF destVars, TypeInv, TypeOK
  <2>5. IsFiniteSet({Inner.op})
    BY FS_Singleton
  <2> HIDE DEF Land, Inner, Outer
  <2> QED BY <1>0, <2>1, <2>2, <2>3, <2>4, <2>5, LandingStep
<1>10. CASE WriteThrows
  <2>1. stack' \in Seq(Frame)
    BY <1>10, OuterType DEF WriteThrows, TypeInv
  <2> QED BY <1>10, <2>1 DEF WriteThrows, TypeInv, TypeOK, Frame, destVars, fanVars
<1>11. CASE \E batch \in Batches : Deliver(batch)
  <2>1. PICK batch \in Batches : Deliver(batch)
    BY <1>11
  <2>2. batch \in SUBSET Op /\ IsFiniteSet(batch)
    BY BatchType
  <2>3. sess' \in SUBSET Op /\ IsFiniteSet(sess')
    BY <2>1, <2>2, AbsorbedType DEF Deliver
  <2>4. /\ Land(batch, stack) /\ dest' = dest
        /\ UNCHANGED <<sent, fanVars, writes, returned, lives>>
    BY <2>1 DEF Deliver
  <2>5. dest' \in {"none", "half", "on"}
    BY <2>4 DEF TypeInv, TypeOK
  <2> HIDE DEF Land
  <2> QED BY <1>0, <2>2, <2>3, <2>4, <2>5, LandingStep
<1>12. CASE \E batch \in Batches : Feed(batch)
  <2>1. PICK batch \in Batches : Feed(batch)
    BY <1>12
  <2>2. sess' \in SUBSET Op /\ IsFiniteSet(sess')
    BY <2>1, BatchType, AbsorbedType DEF Feed
  <2> QED BY <2>1, <2>2 DEF Feed, TypeInv, TypeOK, Frame, fanVars
<1>13. CASE \E fresh \in BOOLEAN : Remount(fresh)
  <2>1. PICK fresh \in BOOLEAN : Remount(fresh)
    BY <1>13
  <2>2. store' \in SUBSET Op /\ IsFiniteSet(store') /\ returned' \in SUBSET Op
    BY <1>0, <2>1, FS_EmptySet DEF Remount
  <2>3. sess' \in SUBSET Op /\ IsFiniteSet(sess')
    BY <1>0, <2>1, FS_EmptySet DEF Remount
  <2>4. emitted' \in SUBSET (Nat \X Nat) /\ IsFiniteSet(emitted')
    BY <2>1, <2>2, IdsType, FS_EmptySet DEF Remount, Marked
  <2>5. stack = <<>> /\ stack' = <<>> /\ UNCHANGED <<sent, writes>>
    BY <2>1 DEF Remount
  <2>6. /\ slots' = <<>> /\ live' = {} /\ dest' = "none" /\ lives' = lives + 1
        /\ events' = <<>> /\ pos' = <<>>
        /\ base' = [l \in Listeners |-> {}]
        /\ since' = [l \in Listeners |-> 0]
        /\ view' = [l \in Listeners |-> {}]
        /\ heard' = [l \in Listeners |-> <<>>]
    BY <2>1 DEF Remount
  <2> QED BY <1>0, <2>2, <2>3, <2>4, <2>5, <2>6 DEF TypeInv, TypeOK
<1>14. CASE UNCHANGED vars
  BY <1>14 DEF vars, TypeInv, TypeOK, Frame
<1> QED
  BY <1>1, <1>2, <1>3, <1>4, <1>5, <1>6, <1>7, <1>8, <1>9, <1>10, <1>11, <1>12,
     <1>13, <1>14 DEF Next

LEMMA TypeInvariant == Spec => []TypeInv
<1>1. Init => TypeInv
  BY FS_EmptySet DEF Init, TypeInv, TypeOK
<1>2. TypeInv /\ [Next]_vars => TypeInv'
  BY TypeInductive
<1> QED BY <1>1, <1>2, PTL DEF Spec

\* Every variable keeps its type, whatever the numbers of writers, listeners,
\* writes, nested calls and remounts.
THEOREM TypeCorrect == Spec => []TypeOK
BY TypeInvariant, PTL DEF TypeInv

-----------------------------------------------------------------------------
(* Each operation is fanned once. The argument: an event's delta holds only *)
(* identities that were not emitted before it and are emitted from then on, *)
(* so two events share none; and the loop over an event only moves forward  *)
(* through slots that no two listeners share, so it calls a listener once.  *)
SlotsApart == \A i, j \in DOMAIN slots : slots[i] = slots[j] => i = j

DeltasEmitted == \A e \in DOMAIN events : Ids(events[e].delta) \subseteq emitted

DeltasApart ==
  \A e, f \in DOMAIN events : e # f => events[e].delta \cap events[f].delta = {}

\* A listener has heard an event only if the event's loop has passed its slot.
HeardPassed ==
  \A l \in Listeners : \A i \in DOMAIN heard[l] :
    /\ heard[l][i] \in DOMAIN events
    /\ \E s \in DOMAIN slots : slots[s] = l /\ s <= pos[heard[l][i]]

HeardOnce ==
  \A l \in Listeners : \A i, j \in DOMAIN heard[l] : i # j => heard[l][i] # heard[l][j]

FanInv == SlotsApart /\ DeltasEmitted /\ DeltasApart /\ HeardPassed /\ HeardOnce

\* Landing a batch adds at most one event, whose delta shares nothing with the
\* events before it.
LEMMA LandFans ==
  ASSUME TypeInv, FanInv, NEW batch \in SUBSET Op, IsFiniteSet(batch),
         NEW rest \in Seq(Frame), Land(batch, rest), UNCHANGED fanVars
  PROVE  FanInv'
<1> DEFINE ops == store \cup Missing(batch, store)
<1> DEFINE delta == IF Shape = "log" THEN Fresh(ops) ELSE {}
<1>1. CASE events' = events /\ pos' = pos /\ emitted' = emitted
  BY <1>1 DEF FanInv, fanVars, SlotsApart, DeltasEmitted, DeltasApart, HeardPassed, HeardOnce
<1>2. CASE \E event : /\ events' = Append(events, event) /\ event.delta = delta
                      /\ pos' = Append(pos, 0)
                      /\ emitted' = IF Shape = "log" THEN emitted \cup Ids(delta) ELSE emitted
  <2>1. PICK event : /\ events' = Append(events, event) /\ event.delta = delta
                     /\ pos' = Append(pos, 0)
                     /\ emitted' = IF Shape = "log" THEN emitted \cup Ids(delta) ELSE emitted
    BY <1>2
  <2>2. /\ events \in Seq(Event) /\ pos \in Seq(Nat) /\ Len(pos) = Len(events)
        /\ events' \in Seq(Event) /\ pos' \in Seq(Nat)
    BY LandType DEF TypeInv, TypeOK
  <2>3. /\ DOMAIN events' = DOMAIN events \cup {Len(events) + 1}
        /\ events'[Len(events) + 1] = event
        /\ \A e \in DOMAIN events : events'[e] = events[e] /\ pos'[e] = pos[e]
    BY <2>1, <2>2
  <2>4. \A o \in delta : Id(o) \notin emitted
    BY DEF Fresh
  <2>5. emitted \subseteq emitted' /\ Ids(delta) \subseteq emitted'
    BY <2>1 DEF Ids
  <2> HIDE DEF delta
  <2>6. DeltasEmitted'
    <3>1. \A e \in DOMAIN events : Ids(events[e].delta) \subseteq emitted
      BY DEF FanInv, DeltasEmitted
    <3>2. SUFFICES ASSUME NEW e \in DOMAIN events' PROVE Ids(events'[e].delta) \subseteq emitted'
      BY DEF DeltasEmitted, Ids
    <3>3. CASE e \in DOMAIN events
      BY <2>3, <2>5, <3>1, <3>3
    <3>4. CASE e = Len(events) + 1
      BY <2>1, <2>3, <2>5, <3>4
    <3> QED BY <2>3, <3>3, <3>4
  <2>7. DeltasApart'
    <3>1. \A e \in DOMAIN events : events[e].delta \cap delta = {}
      BY <2>4 DEF FanInv, DeltasEmitted, Ids
    <3>2. \A e, f \in DOMAIN events : e # f => events[e].delta \cap events[f].delta = {}
      BY DEF FanInv, DeltasApart
    <3> QED BY <2>1, <2>3, <3>1, <3>2 DEF DeltasApart
  <2>8. HeardPassed'
    <3>1. UNCHANGED <<slots, heard>>
      BY DEF fanVars
    <3>2. HeardPassed
      BY DEF FanInv
    <3> QED BY <2>3, <3>1, <3>2 DEF HeardPassed
  <2> QED BY <2>6, <2>7, <2>8 DEF FanInv, fanVars, SlotsApart, HeardOnce
<1>3. \/ events' = events /\ pos' = pos /\ emitted' = emitted
      \/ \E event : /\ events' = Append(events, event) /\ event.delta = delta
                    /\ pos' = Append(pos, 0)
                    /\ emitted' = IF Shape = "log" THEN emitted \cup Ids(delta) ELSE emitted
  <2> DEFINE event == [base |-> BaseSeq,
                       delta |-> delta, whole |-> Assemble(ops)]
  <2> DEFINE fans == Missing(batch, store) # {} /\ (Shape = "log" => delta # {})
  <2>1. /\ emitted' = IF Shape = "log" /\ fans THEN emitted \cup Ids(delta) ELSE emitted
        /\ events' = IF fans THEN Append(events, event) ELSE events
        /\ pos' = IF fans THEN Append(pos, 0) ELSE pos
    BY DEF Land
  <2>2. event.delta = delta
    OBVIOUS
  <2> HIDE DEF event, fans, delta
  <2>3. CASE fans
    BY <2>1, <2>2, <2>3
  <2>4. CASE ~ fans
    BY <2>1, <2>4
  <2> QED BY <2>3, <2>4
<1> QED BY <1>1, <1>2, <1>3

LEMMA FanInductive ==
  ASSUME TypeInv, FanInv, [Next]_vars
  PROVE  FanInv'
<1>0. /\ stack \in Seq(Frame) /\ writes \in Nat
      /\ store \in SUBSET Op /\ IsFiniteSet(store)
  BY DEF TypeInv, TypeOK
<1> USE DEF FanInv, SlotsApart, DeltasEmitted, DeltasApart, HeardPassed, HeardOnce
<1>1. CASE UNCHANGED <<emitted, slots, heard, events, pos>>
  BY <1>1
<1>2. CASE \E batch, rest : /\ batch \in SUBSET Op /\ IsFiniteSet(batch)
                            /\ rest \in Seq(Frame) /\ Land(batch, rest)
                            /\ UNCHANGED fanVars
  <2> HIDE DEF FanInv
  <2> QED BY <1>2, LandFans
<1>3. CASE \E l \in Listeners : Subscribe(l)
  <2>1. PICK l \in Listeners : Subscribe(l)
    BY <1>3
  <2>2. slots \in Seq(Listeners) /\ slots' = Append(slots, l)
    BY <2>1 DEF Subscribe, TypeInv, TypeOK
  <2>3. /\ DOMAIN slots' = DOMAIN slots \cup {Len(slots) + 1}
        /\ slots'[Len(slots) + 1] = l
        /\ \A i \in DOMAIN slots : slots'[i] = slots[i] /\ slots[i] # l
    BY <2>1, <2>2 DEF Subscribe
  <2>4. SlotsApart'
    BY <2>3
  <2>5. /\ UNCHANGED <<emitted, events, pos>>
        /\ heard \in [Listeners -> Seq(Nat)] /\ heard' = [heard EXCEPT ![l] = <<>>]
    BY <2>1 DEF Subscribe, TypeInv, TypeOK
  <2>6. \A m \in Listeners : \/ heard'[m] = heard[m]
                             \/ heard'[m] = <<>>
    BY <2>5
  <2>7. HeardPassed'
    BY <2>3, <2>5, <2>6
  <2>8. HeardOnce'
    BY <2>6
  <2> QED BY <2>4, <2>5, <2>7, <2>8
<1>4. CASE Tell
  <2>1. Inner \in Frame /\ Inner.kind = "fan"
    BY <1>4, OuterType DEF Tell, TypeInv
  <2> DEFINE e == Inner.ev
  <2>2. e \in DOMAIN events /\ e \in DOMAIN pos /\ e \in Nat
    BY <2>1 DEF Frame, TypeInv, TypeOK
  <2>3. PICK i \in DOMAIN slots :
          /\ i > pos[e]
          /\ pos' = [pos EXCEPT ![e] = i]
          /\ heard' = [heard EXCEPT ![slots[i]] = Append(@, e)]
    BY <1>4 DEF Tell, Reaches
  <2> DEFINE l == slots[i]
  <2>4. /\ l \in Listeners /\ i \in Nat /\ pos \in Seq(Nat)
        /\ heard \in [Listeners -> Seq(Nat)]
        /\ UNCHANGED <<emitted, slots, events>>
    <3>1. slots \in Seq(Listeners) /\ pos \in Seq(Nat) /\ heard \in [Listeners -> Seq(Nat)]
      BY DEF TypeInv, TypeOK
    <3>2. l \in Listeners /\ i \in Nat
      BY <3>1
    <3> QED BY <1>4, <3>1, <3>2 DEF Tell
  <2> HIDE DEF e
  <2>5. \A k \in DOMAIN heard[l] : heard[l][k] # e
    <3>1. SUFFICES ASSUME NEW k \in DOMAIN heard[l], heard[l][k] = e PROVE FALSE
      OBVIOUS
    <3>2. PICK s \in DOMAIN slots : slots[s] = l /\ s <= pos[e]
      BY <2>4, <3>1
    <3>3. s = i
      BY <3>2
    <3> QED BY <2>2, <2>3, <2>4, <3>2, <3>3
  <2>6. /\ heard'[l] = Append(heard[l], e)
        /\ \A m \in Listeners : m # l => heard'[m] = heard[m]
    BY <2>3, <2>4
  <2>7. /\ DOMAIN heard'[l] = DOMAIN heard[l] \cup {Len(heard[l]) + 1}
        /\ heard'[l][Len(heard[l]) + 1] = e
        /\ \A k \in DOMAIN heard[l] : heard'[l][k] = heard[l][k]
    BY <2>2, <2>4, <2>6
  <2>8. \A f \in DOMAIN pos : pos'[f] = (IF f = e THEN i ELSE pos[f]) /\ pos'[f] >= pos[f]
    BY <2>2, <2>3, <2>4
  <2>9. HeardOnce'
    <3>1. SUFFICES ASSUME NEW m \in Listeners,
                          NEW j \in DOMAIN heard'[m], NEW k \in DOMAIN heard'[m], j # k
                   PROVE  heard'[m][j] # heard'[m][k]
      OBVIOUS
    <3>2. CASE m # l
      BY <2>6, <3>1, <3>2
    <3>3. CASE m = l
      <4>1. \A a, b \in DOMAIN heard[l] : a # b => heard[l][a] # heard[l][b]
        BY <2>4
      <4> HIDE DEF l
      <4> QED BY <2>5, <2>7, <3>1, <3>3, <4>1
    <3> QED BY <3>2, <3>3
  <2>10. HeardPassed'
    <3>1. DOMAIN pos = DOMAIN events
      BY <2>4 DEF TypeInv, TypeOK
    <3>2. SUFFICES ASSUME NEW m \in Listeners, NEW k \in DOMAIN heard'[m]
                   PROVE  /\ heard'[m][k] \in DOMAIN events
                          /\ \E s \in DOMAIN slots : slots[s] = m /\ s <= pos'[heard'[m][k]]
      BY <2>4
    <3>3. CASE k \in DOMAIN heard[m] /\ heard'[m][k] = heard[m][k]
      <4>1. heard[m][k] \in DOMAIN events
        BY <3>3
      <4>2. PICK s \in DOMAIN slots : slots[s] = m /\ s <= pos[heard[m][k]]
        BY <3>3
      <4>3. s \in Nat /\ pos[heard[m][k]] \in Nat /\ pos'[heard[m][k]] \in Nat
        <5>0. heard[m][k] \in DOMAIN pos
          BY <3>1, <4>1
        <5>1. slots \in Seq(Listeners) /\ pos[heard[m][k]] \in Nat
          <6>1. slots \in Seq(Listeners)
            BY DEF TypeInv, TypeOK
          <6>2. pos[heard[m][k]] \in Nat
            BY <2>4, <5>0
          <6> QED BY <6>1, <6>2
        <5>2. pos'[heard[m][k]] \in {i, pos[heard[m][k]]}
          BY <2>8, <3>1, <4>1
        <5>3. s \in Nat /\ i \in Nat
          <6>1. s \in Nat
            BY <5>1
          <6> QED BY <2>4, <6>1
        <5> QED BY <5>1, <5>2, <5>3
      <4>4. s <= pos'[heard[m][k]]
        BY <2>8, <3>1, <4>1, <4>2, <4>3
      <4> QED BY <3>3, <4>1, <4>2, <4>4
    <3>4. CASE m = l /\ heard'[m][k] = e
      BY <2>2, <2>4, <2>8, <3>4
    <3>5. \/ k \in DOMAIN heard[m] /\ heard'[m][k] = heard[m][k]
          \/ m = l /\ heard'[m][k] = e
      BY <2>6, <2>7
    <3> QED BY <3>3, <3>4, <3>5
  <2> QED BY <2>4, <2>9, <2>10
<1>5. CASE \E fresh \in BOOLEAN : Remount(fresh)
  BY <1>5 DEF Remount
<1>6. \/ UNCHANGED <<emitted, slots, heard, events, pos>>
      \/ \E batch, rest : /\ batch \in SUBSET Op /\ IsFiniteSet(batch)
                          /\ rest \in Seq(Frame) /\ Land(batch, rest)
                          /\ UNCHANGED fanVars
      \/ \E l \in Listeners : Subscribe(l)
      \/ Tell
      \/ \E fresh \in BOOLEAN : Remount(fresh)
  <2> HIDE DEF Land, FanInv
  <2>1. CASE Attach
    <3>1. Backfill(sess', store) \in SUBSET Op /\ IsFiniteSet(Backfill(sess', store))
      <4>1. {o \in store : o.wire} \in SUBSET Op /\ IsFiniteSet({o \in store : o.wire})
        BY <1>0, FS_Subset
      <4>2. sess' \in SUBSET Op /\ IsFiniteSet(sess')
        BY <2>1, <4>1, AbsorbedType DEF Attach, Hydrated
      <4>3. Backfill(sess', store) \in SUBSET sess'
        BY DEF Backfill, Missing
      <4> QED BY <4>2, <4>3, FS_Subset
    <3> QED BY <1>0, <2>1, <3>1 DEF Attach
  <2>2. CASE WriteOffline
    <3>1. MintLocal(writes + 1) \in Op
      BY <1>0, MintedType DEF MintLocal, Op
    <3>2. IsFiniteSet({MintLocal(writes + 1)}) /\ {MintLocal(writes + 1)} \in SUBSET Op
      BY <3>1, FS_Singleton
    <3> QED BY <1>0, <2>2, <3>2 DEF WriteOffline
  <2>3. CASE WriteReturns
    <3>1. Outer \in Seq(Frame) /\ Inner \in Frame /\ Inner.kind = "write"
      BY <2>3, OuterType DEF WriteReturns, TypeInv
    <3>2. IsFiniteSet({Inner.op}) /\ {Inner.op} \in SUBSET Op
      BY <3>1, FS_Singleton DEF Frame
    <3> QED BY <2>3, <3>1, <3>2 DEF WriteReturns
  <2>4. CASE \E batch \in Batches : Deliver(batch)
    BY <1>0, <2>4, BatchType DEF Deliver
  <2>5. ASSUME \/ AttachThrows \/ FanEnds \/ WriteOnline \/ WriteThrows
               \/ \E l \in Listeners : Unsubscribe(l)
               \/ \E batch \in Batches : Feed(batch)
               \/ UNCHANGED vars
        PROVE  UNCHANGED <<emitted, slots, heard, events, pos>>
    BY <2>5 DEF AttachThrows, FanEnds, WriteOnline, WriteThrows, Unsubscribe, Feed, fanVars, vars
  <2> QED BY <2>1, <2>2, <2>3, <2>4, <2>5 DEF Next
<1> QED BY <1>1, <1>2, <1>3, <1>4, <1>5, <1>6

LEMMA FanInvariant == Spec => []FanInv
<1>1. Init => FanInv
  BY DEF Init, FanInv, SlotsApart, DeltasEmitted, DeltasApart, HeardPassed, HeardOnce
<1>2. TypeInv /\ FanInv /\ [Next]_vars => FanInv'
  BY FanInductive
<1> QED BY <1>1, <1>2, TypeInvariant, PTL DEF Spec

\* No listener is told of an operation twice by deltas, for any number of
\* writers, listeners, nested calls, redeliveries and remounts.
THEOREM EachOperationFannedOnce == Spec => []FannedOnce
<1>1. FanInv => FannedOnce
  BY DEF FanInv, FannedOnce, DeltasApart, HeardPassed, HeardOnce
<1> QED BY <1>1, FanInvariant, PTL

-----------------------------------------------------------------------------
(* What an instance tells its listeners, and what its store and its session hold *)
(* of one another. *)

USE SelfAssumption

-----------------------------------------------------------------------------
(* Sets of operations with distinct identities and chains without a gap. *)

Chained(ops) == \A o \in ops : \A k \in 0 .. o.seq - 1 : <<o.origin, k>> \in Ids(ops)

LEMMA IdsOfUnion == ASSUME NEW A, NEW B PROVE Ids(A \cup B) = Ids(A) \cup Ids(B)
BY DEF Ids

\* What a store is after it took a batch in.
LEMMA MissingFacts ==
  ASSUME NEW S, NEW B, Distinct(S), Distinct(B)
  PROVE  /\ Distinct(S \cup Missing(B, S)) /\ S \cap Missing(B, S) = {}
         /\ Ids(S \cup Missing(B, S)) = Ids(S) \cup Ids(B)
         /\ \A o \in S \cup Missing(B, S) : Id(o) \notin Ids(S) <=> o \in Missing(B, S)
<1>1. \A o \in S : Id(o) \in Ids(S)
  BY DEF Ids
<1>2. \A o \in Missing(B, S) : o \in B /\ Id(o) \notin Ids(S)
  BY DEF Missing
<1>3. \A o \in B : Id(o) \in Ids(S) \/ o \in Missing(B, S)
  BY DEF Missing
<1>4. Distinct(S \cup Missing(B, S))
  BY <1>1, <1>2 DEF Distinct
<1>5. Ids(S \cup Missing(B, S)) = Ids(S) \cup Ids(B)
  <2>1. Ids(Missing(B, S)) \subseteq Ids(B)
    BY <1>2 DEF Ids
  <2>2. Ids(B) \subseteq Ids(S) \cup Ids(Missing(B, S))
    BY <1>3 DEF Ids
  <2> QED BY <2>1, <2>2, IdsOfUnion
<1> QED BY <1>1, <1>2, <1>4, <1>5

LEMMA PartDistinct == ASSUME NEW S, NEW A \in SUBSET S, Distinct(S) PROVE Distinct(A)
BY DEF Distinct

\* A session that absorbs a batch keeps its chains.
LEMMA AbsorbedChains ==
  ASSUME NEW S \in SUBSET Op, NEW B \in SUBSET Op, Distinct(S), Distinct(B), Chained(S)
  PROVE  Distinct(Absorbed(S, B)) /\ Chained(Absorbed(S, B))
<1> DEFINE A == Absorbed(S, B)
           Continues(o) == \A k \in 0 .. o.seq - 1 : <<o.origin, k>> \in Ids(S \cup B)
<1>1. A = S \cup {o \in Missing(B, S) : Continues(o)}
  BY DEF Absorbed
<1>2. A \in SUBSET (S \cup Missing(B, S))
  BY <1>1
<1>3. Distinct(A)
  BY <1>2, MissingFacts, PartDistinct
<1>4. ASSUME NEW o \in Missing(B, S), Continues(o), NEW k \in 0 .. o.seq - 1
      PROVE  <<o.origin, k>> \in Ids(A)
  <2>1. PICK p \in S \cup B : <<o.origin, k>> = Id(p)
    BY <1>4 DEF Ids
  <2>2. CASE Id(p) \in Ids(S)
    BY <1>1, <2>1, <2>2, IdsOfUnion
  <2>3. CASE Id(p) \notin Ids(S)
    <3>1. p \in Missing(B, S)
      BY <2>1, <2>3 DEF Missing, Ids
    <3>2. p.origin = o.origin /\ p.seq = k
      BY <2>1 DEF Id
    <3>3. o \in Op /\ p \in Op
      BY <2>1 DEF Missing
    <3>4. \A j \in 0 .. k - 1 : j \in 0 .. o.seq - 1
      BY <3>3 DEF Op
    <3>5. Continues(p)
      BY <1>4, <3>2, <3>4
    <3> QED BY <1>1, <2>1, <3>1, <3>5 DEF Ids
  <2> QED BY <2>2, <2>3
<1>5. \A o \in S : \A k \in 0 .. o.seq - 1 : <<o.origin, k>> \in Ids(A)
  <2>1. Ids(S) \subseteq Ids(A)
    BY <1>1, IdsOfUnion
  <2> QED BY <2>1 DEF Chained
<1>6. Chained(A)
  BY <1>1, <1>4, <1>5 DEF Chained
<1> QED BY <1>3, <1>6

\* The sequence numbers of a writer whose chain has no gap are those below their
\* number.
LEMMA ChainCount ==
  ASSUME NEW S \in SUBSET Op, IsFiniteSet(S), Distinct(S), Chained(S), NEW who \in Nat
  PROVE  /\ Cardinality(OwnedBy(S, who)) \in Nat
         /\ \A k \in Nat : <<who, k>> \in Ids(S) <=> k < Cardinality(OwnedBy(S, who))
<1> DEFINE W == OwnedBy(S, who)
           n == Cardinality(W)
           K == {o.seq : o \in W}
<1>1. W \in SUBSET S /\ IsFiniteSet(W) /\ n \in Nat
  <2>1. W \in SUBSET S
    BY DEF OwnedBy
  <2> QED BY <2>1, FS_Subset, FS_CardinalityType
<1>2. IsFiniteSet(K) /\ Cardinality(K) = n
  <2> DEFINE f == [o \in W |-> o.seq]
  <2>1. ASSUME NEW a \in W, NEW b \in W, a.seq = b.seq PROVE a = b
    <3>1. a \in S /\ b \in S /\ a.origin = b.origin
      BY DEF OwnedBy
    <3>2. Id(a) = Id(b)
      BY <2>1, <3>1 DEF Id
    <3> QED BY <3>1, <3>2 DEF Distinct
  <2>2. f \in Bijection(W, K)
    BY <2>1 DEF Bijection, Injection, Surjection, IsInjective
  <2>3. ExistsBijection(W, K)
    BY <2>2 DEF ExistsBijection
  <2> HIDE DEF W, K
  <2> QED BY <1>1, <2>3, FS_Bijection
<1>3. \A k \in Nat : <<who, k>> \in Ids(S) <=> k \in K
  BY DEF Ids, Id, OwnedBy
<1>4. K \in SUBSET Nat
  BY <1>1 DEF Op
<1>5. ASSUME NEW m \in K PROVE 0 .. m \subseteq K
  <2>1. PICK o \in W : o.seq = m
    BY <1>5
  <2>2. \A k \in 0 .. m - 1 : <<who, k>> \in Ids(S)
    BY <2>1 DEF Chained, OwnedBy
  <2> HIDE DEF W, K
  <2>0. m \in Nat
    BY <1>4
  <2>3. ASSUME NEW k \in 0 .. m - 1 PROVE k \in K
    <3>1. k \in Nat
      BY <2>0
    <3>2. <<who, k>> \in Ids(S)
      BY <2>2
    <3> QED BY <1>3, <3>1, <3>2
  <2>4. \A k \in 0 .. m : k = m \/ k \in 0 .. m - 1
    BY <2>0
  <2> QED BY <2>3, <2>4
<1> HIDE DEF K, W, n
<1>6. ASSUME NEW m \in K PROVE m < n
  <2>1. m \in Nat /\ IsFiniteSet(0 .. m) /\ Cardinality(0 .. m) = m + 1
    <3>1. m \in Nat
      BY <1>4
    <3> QED BY <3>1, FS_Interval
  <2>2. Cardinality(0 .. m) <= n
    BY <1>2, <1>5, FS_Subset
  <2> QED BY <1>1, <2>1, <2>2
<1>7. K = 0 .. n - 1
  <2>1. K \subseteq 0 .. n - 1
    BY <1>1, <1>4, <1>6
  <2>2. IsFiniteSet(0 .. n - 1) /\ Cardinality(0 .. n - 1) = n
    BY <1>1, FS_Interval
  <2> QED BY <1>2, <2>1, <2>2, FS_Subset
<1>8. \A k \in Nat : k \in K <=> k < n
  BY <1>1, <1>7
<1> QED BY <1>1, <1>3, <1>8 DEF n, W

\* What the session mints continues its client's chain.
LEMMA MintContinues ==
  ASSUME NEW S \in SUBSET Op, IsFiniteSet(S), Distinct(S), Chained(S), NEW payload \in Nat
  PROVE  LET o == SessionMint(S, Self, payload)
         IN  Id(o) \notin Ids(S) /\ Distinct(S \cup {o}) /\ Chained(S \cup {o})
<1> DEFINE o == SessionMint(S, Self, payload)
           n == Cardinality(OwnedBy(S, Self))
<1>1. o.origin = Self /\ o.seq = n /\ Id(o) = <<Self, n>>
  BY DEF SessionMint, Id
<1>2. n \in Nat /\ \A k \in Nat : <<Self, k>> \in Ids(S) <=> k < n
  BY ChainCount
<1> HIDE DEF o, n
<1>3. Id(o) \notin Ids(S)
  BY <1>1, <1>2
<1>4. Distinct(S \cup {o})
  BY <1>3 DEF Distinct, Ids
<1>5. Ids(S) \subseteq Ids(S \cup {o})
  BY DEF Ids
<1>6. \A k \in 0 .. n - 1 : <<Self, k>> \in Ids(S)
  BY <1>2
<1>7. Chained(S \cup {o})
  BY <1>1, <1>5, <1>6 DEF Chained
<1> QED BY <1>3, <1>4, <1>7 DEF o

-----------------------------------------------------------------------------
(* The books of the instance: neither its store nor its session holds two     *)
(* operations of one identity, the session's chains have no gap, and a log    *)
(* has marked what it holds, and nothing else, as emitted.                    *)
Books ==
  /\ Distinct(store) /\ Distinct(sess) /\ Chained(sess)
  /\ Shape = "log" => emitted = Ids(store)

Inv == TypeInv /\ Books

LEMMA InvFacts ==
  ASSUME Inv
  PROVE  /\ store \in SUBSET Op /\ IsFiniteSet(store) /\ Distinct(store)
         /\ sess \in SUBSET Op /\ IsFiniteSet(sess) /\ Distinct(sess) /\ Chained(sess)
         /\ sent \in SUBSET Op /\ IsFiniteSet(sent) /\ returned \in SUBSET Op
         /\ stack \in Seq(Frame) /\ slots \in Seq(Listeners) /\ live \in SUBSET Listeners
         /\ events \in Seq(Event) /\ pos \in Seq(Nat) /\ Len(pos) = Len(events)
         /\ base \in [Listeners -> SUBSET Op] /\ since \in [Listeners -> Nat]
         /\ view \in [Listeners -> SUBSET Op] /\ heard \in [Listeners -> Seq(Nat)]
         /\ writes \in Nat /\ lives \in Nat
BY DEF Inv, Books, TypeInv, TypeOK

\* A batch lands, on top of the calls that remain.
Lands(batch) ==
  /\ batch \in SUBSET Op /\ IsFiniteSet(batch) /\ Distinct(batch)
  /\ InControl /\ UNCHANGED fanVars
  /\ \/ Land(batch, stack)
     \/ Land(batch, Outer) /\ stack # <<>> /\ Inner.kind = "write"

\* Nothing is fanned, and of the calls at most a write begins or ends.
Quiet ==
  /\ UNCHANGED <<store, emitted, events, pos, slots, base, since, view, heard>>
  /\ live' = live \/ \E l \in live : live' = live \ {l}
  /\ \/ stack' = stack
     \/ InControl /\ \E o \in Op : stack' = Append(stack, Pending(o))
     \/ stack' = Outer /\ stack # <<>> /\ Inner.kind = "write"

LEMMA AttachLands ==
  ASSUME Inv, Attach
  PROVE  /\ Lands(Backfill(sess', store)) /\ Land(Backfill(sess', store), stack)
         /\ sess' \in SUBSET Op /\ Distinct(sess') /\ Chained(sess')
<1> DEFINE wired == {o \in store : o.wire}
<1>1. wired \in SUBSET Op /\ IsFiniteSet(wired) /\ Distinct(wired)
  <2>1. wired \in SUBSET store
    OBVIOUS
  <2> HIDE DEF wired
  <2> QED BY <2>1, InvFacts, FS_Subset, PartDistinct
<1>2. sess' = Absorbed(sess, wired)
  BY DEF Attach, Hydrated
<1> HIDE DEF wired
<1>3. Distinct(Absorbed(sess, wired)) /\ Chained(Absorbed(sess, wired))
  BY <1>1, InvFacts, AbsorbedChains
<1>4. Absorbed(sess, wired) \in SUBSET Op /\ IsFiniteSet(Absorbed(sess, wired))
  BY <1>1, AbsorbedType DEF Inv
<1>5. Distinct(sess') /\ Chained(sess') /\ sess' \in SUBSET Op /\ IsFiniteSet(sess')
  <2> DEFINE a == Absorbed(sess, wired)
  <2>1. Distinct(a) /\ Chained(a) /\ a \in SUBSET Op /\ IsFiniteSet(a) /\ sess' = a
    BY <1>2, <1>3, <1>4
  <2> HIDE DEF a
  <2> QED BY <2>1 DEF Distinct, Chained, Ids, Id
<1>6. Backfill(sess', store) \in SUBSET sess'
  BY DEF Backfill, Missing
<1>7. /\ Backfill(sess', store) \in SUBSET Op /\ IsFiniteSet(Backfill(sess', store))
      /\ Distinct(Backfill(sess', store))
  BY <1>5, <1>6, FS_Subset, PartDistinct
<1>8. Land(Backfill(sess', store), stack) /\ UNCHANGED fanVars /\ InControl
  BY DEF Attach, MayCall
<1> QED BY <1>5, <1>7, <1>8 DEF Lands

LEMMA DeliverLands ==
  ASSUME Inv, NEW batch \in Batches, Deliver(batch)
  PROVE  Lands(batch)
<1>1. Distinct(batch)
  BY DEF Batches
<1>2. batch \in SUBSET Op /\ IsFiniteSet(batch)
  BY BatchType DEF Inv
<1> QED BY <1>1, <1>2 DEF Deliver, Lands, MayCall

LEMMA OneLands ==
  ASSUME Inv
  PROVE  /\ WriteOffline => Lands({MintLocal(writes + 1)})
         /\ WriteReturns => Lands({Inner.op}) /\ Inner.op \in Op
<1>1. ASSUME WriteOffline PROVE Lands({MintLocal(writes + 1)})
  <2>0. store \in SUBSET Op /\ IsFiniteSet(store) /\ writes \in Nat
    BY InvFacts
  <2>1. MintLocal(writes + 1) \in Op
    BY <2>0, MintedType DEF MintLocal, Op
  <2> DEFINE o == MintLocal(writes + 1)
  <2>2. Land({o}, stack) /\ UNCHANGED fanVars /\ o \in Op /\ InControl
    BY <1>1, <2>1 DEF WriteOffline, MayCall
  <2> HIDE DEF o
  <2>3. {o} \in SUBSET Op /\ IsFiniteSet({o}) /\ Distinct({o})
    BY <2>2, FS_Singleton DEF Distinct
  <2>4. Lands({o})
    BY <2>2, <2>3 DEF Lands
  <2> QED BY <2>4 DEF o
<1>2. ASSUME WriteReturns PROVE Lands({Inner.op}) /\ Inner.op \in Op
  <2>1. Inner \in Frame /\ Inner.kind = "write"
    BY <1>2, OuterType DEF WriteReturns, Inv, TypeInv
  <2>2. Inner.op \in Op
    BY <2>1 DEF Frame
  <2>3. Land({Inner.op}, Outer) /\ UNCHANGED fanVars /\ stack # <<>> /\ InControl
    BY <1>2 DEF WriteReturns, InControl
  <2>4. {Inner.op} \in SUBSET Op /\ IsFiniteSet({Inner.op}) /\ Distinct({Inner.op})
    BY <2>2, FS_Singleton DEF Distinct
  <2> QED BY <2>1, <2>2, <2>3, <2>4 DEF Lands
<1> QED BY <1>1, <1>2

\* Every step lands a batch, is quiet, or is the listeners' own.
LEMMA Kinds ==
  ASSUME Inv, [Next]_vars
  PROVE  \/ \E batch : Lands(batch)
         \/ Quiet
         \/ \E l \in Listeners : Subscribe(l)
         \/ Tell
         \/ FanEnds
         \/ \E fresh \in BOOLEAN : Remount(fresh)
<1>1. CASE WriteOnline
  <2>0. sess \in SUBSET Op /\ IsFiniteSet(sess) /\ writes \in Nat
    BY InvFacts
  <2>1. SessionMint(sess, Self, writes + 1) \in Op
    BY <2>0, MintedType DEF SessionMint, Op
  <2> QED BY <1>1, <2>1 DEF WriteOnline, Quiet, fanVars, MayCall
<1>2. CASE UNCHANGED vars
  BY <1>2 DEF vars, Quiet
<1>3. ASSUME \/ AttachThrows \/ WriteThrows
             \/ \E l \in Listeners : Unsubscribe(l)
             \/ \E batch \in Batches : Feed(batch)
      PROVE  Quiet
  BY <1>3 DEF AttachThrows, WriteThrows, Unsubscribe, Feed, Quiet, fanVars
<1> QED BY <1>1, <1>2, <1>3, AttachLands, DeliverLands, OneLands DEF Next

\* What landing does: nothing when the store has it all, otherwise one event
\* that holds exactly what the store lacked.
LEMMA Landed ==
  ASSUME Inv, NEW batch, Lands(batch)
  PROVE  /\ Distinct(store') /\ (Shape = "log" => emitted' = Ids(store'))
         /\ store \subseteq store' /\ Ids(store') = Ids(store) \cup Ids(batch)
         /\ store' \in SUBSET Op /\ store' \subseteq store \cup batch /\ IsFiniteSet(store')
         /\ \E rest :
              /\ rest = stack \/ (rest = Outer /\ stack # <<>> /\ Inner.kind = "write")
              /\ \/ UNCHANGED <<store, emitted, events, pos>> /\ stack' = rest
                 \/ \E event :
                      /\ events' = Append(events, event) /\ pos' = Append(pos, 0)
                      /\ stack' = Append(rest, Fan(Len(events) + 1))
                      /\ event.whole = Assemble(store')
                      /\ event.delta = IF Shape = "log" THEN store' \ store ELSE {}
                      /\ event.base = IF Shape = "log" THEN Cardinality(Ids(store)) ELSE 0
<1>1. PICK rest : /\ Land(batch, rest)
                  /\ rest = stack \/ (rest = Outer /\ stack # <<>> /\ Inner.kind = "write")
  BY DEF Lands
<1> DEFINE gain == Missing(batch, store)
           ops == store \cup gain
           delta == IF Shape = "log" THEN Fresh(ops) ELSE {}
           event == [base |-> BaseSeq, delta |-> delta, whole |-> Assemble(ops)]
           fans == gain # {} /\ (Shape = "log" => delta # {})
<1>2. /\ store' = ops
      /\ emitted' = IF Shape = "log" /\ fans THEN emitted \cup Ids(delta) ELSE emitted
      /\ events' = IF fans THEN Append(events, event) ELSE events
      /\ pos' = IF fans THEN Append(pos, 0) ELSE pos
      /\ stack' = IF fans THEN Append(rest, Fan(Len(events) + 1)) ELSE rest
  BY <1>1 DEF Land
<1>3. /\ Distinct(store) /\ Distinct(batch) /\ store \in SUBSET Op /\ batch \in SUBSET Op
      /\ IsFiniteSet(store) /\ IsFiniteSet(batch)
  BY InvFacts DEF Lands
<1>4. /\ Distinct(ops) /\ store \cap gain = {} /\ Ids(ops) = Ids(store) \cup Ids(batch)
      /\ \A o \in ops : Id(o) \notin Ids(store) <=> o \in gain
  BY <1>3, MissingFacts
<1>5. gain \in SUBSET batch
  BY DEF Missing
<1>6. Shape = "log" => delta = gain /\ emitted = Ids(store)
  <2>1. Shape = "log" => emitted = Ids(store)
    BY DEF Inv, Books
  <2> QED BY <1>4, <2>1 DEF Fresh
<1>7. fans <=> gain # {}
  BY <1>6
<1>8. ops \ store = gain
  BY <1>4
<1>9. IsFiniteSet(ops)
  BY <1>3, <1>5, FS_Subset, FS_Union
<1>10. Ids(ops) = Ids(store) \cup Ids(gain)
  BY IdsOfUnion
<1>11. BaseSeq = IF Shape = "log" THEN Cardinality(Ids(store)) ELSE 0
  BY <1>6 DEF BaseSeq
<1> DEFINE whole == Assemble(ops)
<1>12. /\ event.base = BaseSeq /\ event.delta = delta /\ event.whole = whole
  OBVIOUS
<1>13. whole = Assemble(store')
  BY <1>2
<1>14. Distinct(store') /\ Ids(store') = Ids(ops)
  BY <1>2, <1>4
<1> HIDE DEF event, fans, delta, gain, whole
<1>15. CASE gain = {}
  <2>1. ops = store /\ ~ fans
    BY <1>7, <1>15
  <2> QED BY <1>1, <1>2, <1>3, <1>4, <1>6, <1>9, <1>14, <1>15, <2>1
<1>16. CASE gain # {}
  <2>1. fans
    BY <1>7, <1>16
  <2>2. Shape = "log" => emitted' = Ids(store')
    BY <1>2, <1>6, <1>10, <1>14, <2>1
  <2>3. store' \ store = gain /\ store' \subseteq store \cup batch /\ store' \in SUBSET Op
    BY <1>2, <1>3, <1>5, <1>8
  <2>4. /\ event.whole = Assemble(store')
        /\ event.delta = IF Shape = "log" THEN store' \ store ELSE {}
        /\ event.base = IF Shape = "log" THEN Cardinality(Ids(store)) ELSE 0
    BY <1>6, <1>11, <1>12, <1>13, <2>3 DEF delta
  <2> QED BY <1>1, <1>2, <1>4, <1>9, <1>14, <2>1, <2>2, <2>3, <2>4
<1> QED BY <1>15, <1>16

LEMMA BooksInductive ==
  ASSUME Inv, [Next]_vars
  PROVE  Inv'
<1>0. TypeInv'
  BY TypeInductive DEF Inv
<1>1. ASSUME NEW batch, Lands(batch) PROVE Distinct(store') /\ (Shape = "log" => emitted' = Ids(store'))
  BY <1>1, Landed
<1>2. ASSUME UNCHANGED <<store, emitted>>
      PROVE  Distinct(store') /\ (Shape = "log" => emitted' = Ids(store'))
  BY <1>2, InvFacts DEF Inv, Books, Ids
<1>3. ASSUME NEW batch \in Batches, sess' = Absorbed(sess, batch)
      PROVE  Distinct(sess') /\ Chained(sess')
  <2>1. batch \in SUBSET Op /\ Distinct(batch)
    BY BatchType DEF Inv, Batches
  <2>2. Distinct(Absorbed(sess, batch)) /\ Chained(Absorbed(sess, batch))
    BY <2>1, InvFacts, AbsorbedChains
  <2> QED BY <1>3, <2>2
<1>4. ASSUME sess' = sess PROVE Distinct(sess') /\ Chained(sess')
  BY <1>4, InvFacts DEF Distinct, Chained, Ids, Id
<1>5. Distinct(store') /\ (Shape = "log" => emitted' = Ids(store'))
  <2>1. CASE \E fresh \in BOOLEAN : Remount(fresh)
    <3>1. store' = store \/ store' = {}
      BY <2>1 DEF Remount
    <3>2. Shape = "log" => emitted' = Ids(store')
      BY <2>1 DEF Remount, Marked
    <3>3. Distinct({})
      BY DEF Distinct
    <3> QED BY <3>1, <3>2, <3>3, InvFacts
  <2>2. CASE \/ \E l \in Listeners : Subscribe(l)
             \/ Tell \/ FanEnds \/ Quiet
    BY <1>2, <2>2 DEF Subscribe, Tell, FanEnds, Quiet
  <2> QED BY <1>1, <2>1, <2>2, Kinds
<1>6. Distinct(sess') /\ Chained(sess')
  <2>1. CASE Attach
    BY <2>1, AttachLands
  <2>2. CASE WriteOnline
    <3>1. writes + 1 \in Nat
      BY InvFacts
    <3> QED BY <2>2, <3>1, InvFacts, MintContinues DEF WriteOnline
  <2>3. CASE \E batch \in Batches : Deliver(batch) \/ Feed(batch)
    BY <1>3, <2>3 DEF Deliver, Feed
  <2>4. CASE \E fresh \in BOOLEAN : Remount(fresh)
    <3>1. sess' = sess \/ sess' = {}
      BY <2>4 DEF Remount
    <3>2. Distinct({}) /\ Chained({})
      BY DEF Distinct, Chained
    <3> QED BY <1>4, <3>1, <3>2
  <2>5. ASSUME \/ AttachThrows \/ Tell \/ FanEnds \/ WriteOffline \/ WriteReturns \/ WriteThrows
               \/ \E l \in Listeners : Subscribe(l) \/ Unsubscribe(l)
               \/ UNCHANGED vars
        PROVE  sess' = sess
    BY <2>5 DEF AttachThrows, Tell, FanEnds, WriteOffline, WriteReturns, WriteThrows, Subscribe,
                Unsubscribe, destVars, vars
  <2> QED BY <1>4, <2>1, <2>2, <2>3, <2>4, <2>5 DEF Next
<1>7. Books'
  BY <1>5, <1>6 DEF Books
<1> QED BY <1>0, <1>7 DEF Inv

LEMMA BooksInvariant == Spec => []Inv
<1>1. Init => Inv
  BY FS_EmptySet DEF Init, Inv, TypeInv, TypeOK, Books, Distinct, Chained, Ids
<1>2. Inv /\ [Next]_vars => Inv'
  BY BooksInductive
<1> QED BY <1>1, <1>2, PTL DEF Spec

-----------------------------------------------------------------------------
(* What a base_seq counts. When a log lands what it lacked, the identities it *)
(* marked as emitted are those of the store it had, and those are as many as  *)
(* the operations of that store.                                              *)

LEMMA AppendFacts ==
  ASSUME NEW A, NEW s \in Seq(A), NEW x
  PROVE  /\ DOMAIN Append(s, x) = DOMAIN s \cup {Len(s) + 1}
         /\ Append(s, x)[Len(s) + 1] = x /\ Len(Append(s, x)) = Len(s) + 1
         /\ \A i \in DOMAIN s : Append(s, x)[i] = s[i] /\ i <= Len(s) /\ i \in Nat
         /\ Len(s) \in Nat /\ DOMAIN s = 1 .. Len(s)
OBVIOUS

\* Of a set and a part of it: the rest has as many members as the difference.
LEMMA RestCount ==
  ASSUME NEW B, IsFiniteSet(B), NEW A \in SUBSET B
  PROVE  Cardinality(A) = Cardinality(B) - Cardinality(B \ A)
<1>1. IsFiniteSet(A) /\ IsFiniteSet(B \ A)
  BY FS_Subset
<1>2. A \cup (B \ A) = B /\ A \cap (B \ A) = {}
  OBVIOUS
<1>3. Cardinality(A \cup (B \ A)) = Cardinality(A) + Cardinality(B \ A) - Cardinality({})
  BY <1>1, <1>2, FS_Union
<1>4. Cardinality({}) = 0 /\ Cardinality(A) \in Nat /\ Cardinality(B \ A) \in Nat
  BY <1>1, FS_EmptySet, FS_CardinalityType
<1>5. Cardinality(A \cup (B \ A)) = Cardinality(B)
  BY <1>2
<1>6. Cardinality(B) = Cardinality(A) + Cardinality(B \ A) - Cardinality({}) /\ Cardinality(B) \in Nat
  BY <1>3, <1>5, FS_CardinalityType
<1> QED BY <1>4, <1>6

LEMMA PriorInductive ==
  ASSUME Inv, BaseIsPrior, [Next]_vars
  PROVE  BaseIsPrior'
<1>1. CASE \E batch : Lands(batch)
  <2>1. PICK batch : Lands(batch)
    BY <1>1
  <2>2. store \subseteq store' /\ IsFiniteSet(store')
    BY <2>1, Landed
  <2>3. CASE events' = events
    BY <2>3 DEF BaseIsPrior
  <2>4. CASE \E event : /\ events' = Append(events, event)
                        /\ event.whole = Assemble(store')
                        /\ event.delta = IF Shape = "log" THEN store' \ store ELSE {}
                        /\ event.base = IF Shape = "log" THEN Cardinality(Ids(store)) ELSE 0
    <3>1. PICK event : /\ events' = Append(events, event)
                       /\ event.whole = Assemble(store')
                       /\ event.delta = IF Shape = "log" THEN store' \ store ELSE {}
                       /\ event.base = IF Shape = "log" THEN Cardinality(Ids(store)) ELSE 0
      BY <2>4
    <3>2. /\ DOMAIN events' = DOMAIN events \cup {Len(events) + 1}
          /\ events'[Len(events) + 1] = event
          /\ \A e \in DOMAIN events : events'[e] = events[e]
      BY <3>1, InvFacts, AppendFacts
    <3>3. ASSUME Shape = "log"
          PROVE  event.base = Cardinality(event.whole) - Cardinality(event.delta)
      <4>1. event.whole = store' /\ event.delta = store' \ store
        BY <3>1, <3>3 DEF Assemble
      <4>2. event.base = Cardinality(store)
        BY <3>1, <3>3, InvFacts, AsManyIds
      <4>3. Cardinality(store) = Cardinality(store') - Cardinality(store' \ store)
        BY <2>2, RestCount
      <4> QED BY <4>1, <4>2, <4>3
    <3> QED BY <3>2, <3>3 DEF BaseIsPrior
  <2> QED BY <2>1, <2>3, <2>4, Landed
<1>2. CASE \E fresh \in BOOLEAN : Remount(fresh)
  BY <1>2 DEF Remount, BaseIsPrior
<1>3. CASE events' = events
  BY <1>3 DEF BaseIsPrior
<1>4. ASSUME \/ Quiet \/ Tell \/ FanEnds \/ \E l \in Listeners : Subscribe(l)
      PROVE  events' = events
  BY <1>4 DEF Quiet, Tell, FanEnds, Subscribe
<1> QED BY <1>1, <1>2, <1>3, <1>4, Kinds

(* instance.ts 360-362: the base_seq of a log event counts the records that were  *)
(* delivered before it, for any number of writers, redeliveries and remounts.     *)
THEOREM BaseCountsPrior == Spec => []BaseIsPrior
<1>1. Init => BaseIsPrior
  BY DEF Init, BaseIsPrior
<1>2. Inv /\ BaseIsPrior /\ [Next]_vars => BaseIsPrior'
  BY PriorInductive
<1> QED BY <1>1, <1>2, BooksInvariant, PTL DEF Spec

-----------------------------------------------------------------------------
(* What a listener is told. The store is the refresh a listener got and what  *)
(* was fanned since; and an event that was fanned since reaches it, because   *)
(* its loop is still on the stack, with the listener's slot ahead of it, for  *)
(* as long as the listener was not called.                                    *)

WasTold(l, e) == \E i \in DOMAIN heard[l] : heard[l][i] = e
Fanning(e) == \E f \in DOMAIN stack : stack[f] = Fan(e)
Ahead(l, e) == \E s \in DOMAIN slots : slots[s] = l /\ pos[e] < s

\* A subscribed listener has a slot, and events were fanned before it or since.
Seated ==
  \A l \in Listeners : since[l] <= Len(events) /\ (l \in live => \E s \in DOMAIN slots : slots[s] = l)

\* Refreshes and deltas hold nothing the store does not hold, and no operation
\* is both in a refresh and in a delta fanned after it.
Held ==
  /\ \A l \in Listeners : base[l] \subseteq store
  /\ \A e \in DOMAIN events : events[e].delta \subseteq store
  /\ \A l \in Listeners : \A e \in DOMAIN events :
       since[l] < e => events[e].delta \cap base[l] = {}

\* A subscribed listener's refresh and the deltas since are the store.
Complete ==
  Shape = "log" =>
    \A l \in live : \A o \in store :
      o \in base[l] \/ \E e \in DOMAIN events : since[l] < e /\ o \in events[e].delta

\* Every event fanned since was told or is going to be.
Owed ==
  \A l \in live : \A e \in DOMAIN events :
    since[l] < e => WasTold(l, e) \/ (Fanning(e) /\ Ahead(l, e))

FeedInv == Seated /\ Held /\ Complete /\ Owed

\* A loop that was in progress is so when a write ends or nothing does.
LEMMA FanningKept ==
  ASSUME Inv, NEW rest, rest = stack \/ (rest = Outer /\ stack # <<>> /\ Inner.kind = "write")
  PROVE  /\ rest \in Seq(Frame)
         /\ \A e : Fanning(e) => \E f \in DOMAIN rest : rest[f] = Fan(e)
<1>1. CASE rest = stack
  BY <1>1, InvFacts DEF Fanning
<1>2. CASE rest = Outer /\ stack # <<>> /\ Inner.kind = "write"
  <2>1. Outer \in Seq(Frame) /\ stack \in Seq(Frame) /\ Len(stack) \in Nat \ {0}
    BY <1>2, OuterType, InvFacts DEF Inv, TypeInv
  <2>2. /\ DOMAIN Outer = 1 .. Len(stack) - 1
        /\ \A i \in 1 .. Len(stack) - 1 : Outer[i] = stack[i]
    <3> HIDE DEF Frame
    <3> QED BY <2>1 DEF Outer
  <2>3. ASSUME NEW e, NEW f \in DOMAIN stack, stack[f] = Fan(e)
        PROVE  f \in DOMAIN Outer /\ Outer[f] = Fan(e)
    <3>1. stack[f].kind = "fan"
      BY <2>3 DEF Fan
    <3>2. f # Len(stack)
      BY <1>2, <3>1 DEF Inner
    <3>3. f \in 1 .. Len(stack)
      BY <2>1
    <3> QED BY <2>1, <2>2, <2>3, <3>2, <3>3
  <2> QED BY <1>2, <2>1, <2>3 DEF Fanning
<1> QED BY <1>1, <1>2

LEMMA LandFeeds ==
  ASSUME Inv, FanInv, FeedInv, NEW batch, Lands(batch)
  PROVE  FeedInv'
<1>1. store \subseteq store' /\ UNCHANGED <<slots, live, base, since, heard>>
  BY Landed DEF Lands, fanVars
<1>2. PICK rest :
        /\ rest = stack \/ (rest = Outer /\ stack # <<>> /\ Inner.kind = "write")
        /\ \/ UNCHANGED <<store, emitted, events, pos>> /\ stack' = rest
           \/ \E event :
                /\ events' = Append(events, event) /\ pos' = Append(pos, 0)
                /\ stack' = Append(rest, Fan(Len(events) + 1))
                /\ event.delta = IF Shape = "log" THEN store' \ store ELSE {}
  BY Landed
<1>3. rest \in Seq(Frame) /\ \A e : Fanning(e) => \E f \in DOMAIN rest : rest[f] = Fan(e)
  BY <1>2, FanningKept
<1>4. CASE UNCHANGED <<store, emitted, events, pos>> /\ stack' = rest
  <2>1. \A e : Fanning(e) => \E f \in DOMAIN stack' : stack'[f] = Fan(e)
    BY <1>3, <1>4
  <2>2. Owed'
    BY <1>1, <1>4, <2>1 DEF FeedInv, Owed, WasTold, Fanning, Ahead, Fan
  <2> QED BY <1>1, <1>4, <2>2 DEF FeedInv, Seated, Held, Complete
<1>5. CASE \E event :
             /\ events' = Append(events, event) /\ pos' = Append(pos, 0)
             /\ stack' = Append(rest, Fan(Len(events) + 1))
             /\ event.delta = IF Shape = "log" THEN store' \ store ELSE {}
  <2>1. PICK event :
          /\ events' = Append(events, event) /\ pos' = Append(pos, 0)
          /\ stack' = Append(rest, Fan(Len(events) + 1))
          /\ event.delta = IF Shape = "log" THEN store' \ store ELSE {}
    BY <1>5
  <2> DEFINE n == Len(events) + 1
  <2>2. /\ DOMAIN events' = DOMAIN events \cup {n} /\ events'[n] = event /\ Len(events') = n
        /\ \A e \in DOMAIN events : events'[e] = events[e] /\ e # n
        /\ Len(events) \in Nat
    BY <2>1, InvFacts, AppendFacts
  <2>3. pos'[n] = 0 /\ \A e \in DOMAIN events : pos'[e] = pos[e]
    BY <2>1, InvFacts, AppendFacts
  <2>4. /\ \E f \in DOMAIN stack' : stack'[f] = Fan(n)
        /\ \A e : Fanning(e) => \E f \in DOMAIN stack' : stack'[f] = Fan(e)
    <3>1. /\ DOMAIN stack' = DOMAIN rest \cup {Len(rest) + 1} /\ stack'[Len(rest) + 1] = Fan(n)
          /\ \A f \in DOMAIN rest : stack'[f] = rest[f]
      BY <1>3, <2>1, AppendFacts
    <3> QED BY <1>3, <3>1
  <2> HIDE DEF n
  <2>5. \A l \in Listeners : since[l] \in Nat /\ since[l] <= Len(events) /\ since[l] < n
    BY <2>2, InvFacts DEF FeedInv, Seated, n
  <2>6. Seated'
    BY <1>1, <2>2, <2>5 DEF FeedInv, Seated, n
  <2>7. Held'
    <3>1. event.delta \subseteq store' /\ event.delta \cap store = {}
      BY <2>1
    <3>2. /\ \A l \in Listeners : base[l] \subseteq store
          /\ \A e \in DOMAIN events : events[e].delta \subseteq store
          /\ \A l \in Listeners : \A e \in DOMAIN events :
               since[l] < e => events[e].delta \cap base[l] = {}
      BY DEF FeedInv, Held
    <3> QED BY <1>1, <2>2, <3>1, <3>2 DEF Held
  <2>8. Complete'
    <3>1. ASSUME Shape = "log", NEW l \in live, NEW o \in store'
          PROVE  o \in base[l] \/ \E e \in DOMAIN events' : since[l] < e /\ o \in events'[e].delta
      <4>1. CASE o \in store
        BY <2>2, <3>1, <4>1 DEF FeedInv, Complete
      <4>2. CASE o \notin store
        <5>1. l \in Listeners
          BY InvFacts
        <5> QED BY <2>1, <2>2, <2>5, <3>1, <4>2, <5>1
      <4> QED BY <4>1, <4>2
    <3> QED BY <1>1, <3>1 DEF Complete
  <2>9. Owed'
    <3>1. ASSUME NEW l \in live, NEW e \in DOMAIN events', since[l] < e
          PROVE  \/ WasTold(l, e)
                 \/ /\ \E f \in DOMAIN stack' : stack'[f] = Fan(e)
                    /\ \E s \in DOMAIN slots : slots[s] = l /\ pos'[e] < s
      <4>1. CASE e = n
        <5>1. PICK s \in DOMAIN slots : slots[s] = l
          BY InvFacts DEF FeedInv, Seated
        <5>2. 0 < s
          BY InvFacts
        <5> QED BY <2>3, <2>4, <4>1, <5>1, <5>2
      <4>2. CASE e \in DOMAIN events
        <5>1. WasTold(l, e) \/ (Fanning(e) /\ Ahead(l, e))
          BY <3>1, <4>2 DEF FeedInv, Owed
        <5> QED BY <2>3, <2>4, <4>2, <5>1 DEF Ahead
      <4> QED BY <2>2, <4>1, <4>2
    <3> QED BY <1>1, <3>1 DEF Owed, WasTold, Fanning, Ahead, Fan
  <2> QED BY <2>6, <2>7, <2>8, <2>9 DEF FeedInv
<1> QED BY <1>2, <1>4, <1>5

LEMMA QuietFeeds == ASSUME Inv, FeedInv, Quiet PROVE FeedInv'
<1>1. UNCHANGED <<store, events, pos, slots, base, since, heard>> /\ live' \subseteq live
  BY DEF Quiet
<1>2. \A e : Fanning(e) => \E f \in DOMAIN stack' : stack'[f] = Fan(e)
  <2>1. CASE stack' = stack
    BY <2>1 DEF Fanning
  <2>2. CASE \E o \in Op : stack' = Append(stack, Pending(o))
    <3>1. PICK o \in Op : stack' = Append(stack, Pending(o))
      BY <2>2
    <3>2. DOMAIN stack \subseteq DOMAIN stack' /\ \A f \in DOMAIN stack : stack'[f] = stack[f]
      BY <3>1, InvFacts, AppendFacts
    <3> QED BY <3>2 DEF Fanning
  <2>3. CASE stack' = Outer /\ stack # <<>> /\ Inner.kind = "write"
    BY <2>3, FanningKept
  <2> QED BY <2>1, <2>2, <2>3 DEF Quiet
<1>3. Owed'
  BY <1>1, <1>2 DEF FeedInv, Owed, WasTold, Fanning, Ahead, Fan
<1> QED BY <1>1, <1>3 DEF FeedInv, Seated, Held, Complete

LEMMA SubscribeFeeds ==
  ASSUME Inv, FeedInv, NEW l \in Listeners, Subscribe(l)
  PROVE  FeedInv'
<1>1. UNCHANGED <<store, events, pos, stack>> /\ live' = live \cup {l}
  BY DEF Subscribe, destVars
<1>2. /\ DOMAIN slots' = DOMAIN slots \cup {Len(slots) + 1} /\ slots'[Len(slots) + 1] = l
      /\ \A s \in DOMAIN slots : slots'[s] = slots[s] /\ s \in Nat
  BY InvFacts, AppendFacts DEF Subscribe
<1>3. /\ base'[l] = store /\ since'[l] = Len(events)
      /\ \A m \in Listeners \ {l} : base'[m] = base[m] /\ since'[m] = since[m] /\ heard'[m] = heard[m]
  BY InvFacts DEF Subscribe
<1>4. Len(events) \in Nat /\ \A e \in DOMAIN events : ~ (Len(events) < e)
  BY InvFacts
<1>5. Seated'
  <2>1. \A m \in Listeners : since'[m] <= Len(events)
    BY <1>3, <1>4 DEF FeedInv, Seated
  <2>2. \A m \in live' : \E s \in DOMAIN slots' : slots'[s] = m
    BY <1>1, <1>2, InvFacts DEF FeedInv, Seated
  <2> QED BY <1>1, <2>1, <2>2 DEF Seated
<1>6. Held'
  BY <1>1, <1>3, <1>4 DEF FeedInv, Held
<1>7. Complete'
  <2>1. ASSUME Shape = "log", NEW m \in live', NEW o \in store
        PROVE  o \in base'[m] \/ \E e \in DOMAIN events : since'[m] < e /\ o \in events[e].delta
    <3>1. CASE m = l
      BY <1>3, <3>1
    <3>2. CASE m # l
      <4>1. m \in live /\ m \in Listeners \ {l}
        BY <1>1, <3>2, InvFacts
      <4> QED BY <1>3, <2>1, <4>1 DEF FeedInv, Complete
    <3> QED BY <3>1, <3>2
  <2> QED BY <1>1, <2>1 DEF Complete
<1>8. Owed'
  <2>1. ASSUME NEW m \in live', NEW e \in DOMAIN events, since'[m] < e
        PROVE  \/ \E i \in DOMAIN heard'[m] : heard'[m][i] = e
               \/ Fanning(e) /\ \E s \in DOMAIN slots' : slots'[s] = m /\ pos[e] < s
    <3>1. m # l
      BY <1>3, <1>4, <2>1
    <3>2. m \in live /\ m \in Listeners \ {l}
      BY <1>1, <3>1, InvFacts
    <3>3. WasTold(m, e) \/ (Fanning(e) /\ Ahead(m, e))
      BY <1>3, <2>1, <3>2 DEF FeedInv, Owed
    <3> QED BY <1>2, <1>3, <3>2, <3>3 DEF WasTold, Ahead
  <2> QED BY <1>1, <2>1 DEF Owed, WasTold, Fanning, Ahead, Fan
<1> QED BY <1>5, <1>6, <1>7, <1>8 DEF FeedInv

\* The innermost loop and its place.
LEMMA InnerFan ==
  ASSUME Inv, stack # <<>>, Inner.kind = "fan"
  PROVE  /\ Inner.ev \in DOMAIN events /\ Inner.ev \in DOMAIN pos /\ Inner = Fan(Inner.ev)
         /\ pos[Inner.ev] \in Nat
         /\ Len(stack) \in Nat \ {0} /\ Outer \in Seq(Frame) /\ DOMAIN Outer = 1 .. Len(stack) - 1
         /\ \A f \in DOMAIN Outer : Outer[f] = stack[f]
<1>1. Inner \in Frame /\ Outer \in Seq(Frame) /\ Len(stack) \in Nat \ {0}
  BY OuterType DEF Inv, TypeInv
<1>2. Inner.ev \in 1 .. Len(events) /\ Inner = [kind |-> "fan", ev |-> Inner.ev]
  BY <1>1 DEF Frame
<1>3. Inner.ev \in DOMAIN events /\ Inner.ev \in DOMAIN pos /\ pos[Inner.ev] \in Nat
  <2> DEFINE e == Inner.ev
  <2>1. e \in 1 .. Len(events)
    BY <1>2
  <2> HIDE DEF e
  <2>2. e \in DOMAIN events /\ e \in DOMAIN pos /\ pos[e] \in Nat
    BY <2>1, InvFacts
  <2> QED BY <2>2 DEF e
<1>4. DOMAIN Outer = 1 .. Len(stack) - 1
  <2> HIDE DEF Frame
  <2> QED BY <1>1, InvFacts DEF Outer
<1>5. \A f \in DOMAIN Outer : Outer[f] = stack[f]
  BY OuterType DEF Inv, TypeInv
<1> QED BY <1>1, <1>2, <1>3, <1>4, <1>5 DEF Fan

LEMMA TellFeeds == ASSUME Inv, FeedInv, Tell PROVE FeedInv'
<1> DEFINE e == Inner.ev
<1>1. PICK i \in DOMAIN slots :
        /\ Reaches(e, i) /\ pos' = [pos EXCEPT ![e] = i]
        /\ heard' = [heard EXCEPT ![slots[i]] = Append(@, e)]
  BY DEF Tell
<1>2. UNCHANGED <<store, events, slots, live, base, since, stack>>
  BY DEF Tell, destVars
<1>3. e \in DOMAIN events /\ e \in DOMAIN pos /\ pos[e] \in Nat
  BY InnerFan DEF Tell
<1> HIDE DEF e
<1> DEFINE m == slots[i]
<1>4. /\ m \in Listeners /\ i \in Nat /\ heard[m] \in Seq(Nat)
      /\ heard'[m] = Append(heard[m], e) /\ \A l \in Listeners \ {m} : heard'[l] = heard[l]
  BY <1>1, InvFacts
<1>5. pos'[e] = i /\ \A d \in DOMAIN events : d # e => pos'[d] = pos[d]
  BY <1>1, <1>3, InvFacts
<1>6. \A s \in DOMAIN slots : slots[s] \in live /\ pos[e] < s => s = i \/ i < s
  <2>1. \A s \in DOMAIN slots : s \in Nat
    BY InvFacts
  <2>2. \A j \in pos[e] + 1 .. i - 1 : slots[j] \notin live
    BY <1>1 DEF Reaches
  <2> QED BY <1>3, <1>4, <2>1, <2>2
<1> HIDE DEF m
<1>7. \A l \in Listeners : \A d : WasTold(l, d) => \E k \in DOMAIN heard'[l] : heard'[l][k] = d
  <2>1. /\ DOMAIN heard[m] \subseteq DOMAIN heard'[m]
        /\ \A k \in DOMAIN heard[m] : heard'[m][k] = heard[m][k]
    BY <1>4, AppendFacts
  <2> QED BY <1>4, <2>1 DEF WasTold
<1>8. \E k \in DOMAIN heard'[m] : heard'[m][k] = e
  BY <1>4, AppendFacts
<1>9. ASSUME NEW l \in live, NEW d \in DOMAIN events, since[l] < d
      PROVE  \/ \E k \in DOMAIN heard'[l] : heard'[l][k] = d
             \/ Fanning(d) /\ \E s \in DOMAIN slots : slots[s] = l /\ pos'[d] < s
  <2>1. l \in Listeners
    BY InvFacts
  <2>2. CASE WasTold(l, d)
    BY <1>7, <2>1, <2>2
  <2>3. CASE Fanning(d) /\ Ahead(l, d)
    <3>1. PICK s \in DOMAIN slots : slots[s] = l /\ pos[d] < s
      BY <2>3 DEF Ahead
    <3>2. CASE d = e
      <4>1. s = i \/ i < s
        BY <1>6, <3>1, <3>2
      <4> QED BY <1>5, <1>8, <2>3, <3>1, <3>2, <4>1 DEF m
    <3>3. CASE d # e
      BY <1>5, <2>3, <3>1, <3>3
    <3> QED BY <3>2, <3>3
  <2> QED BY <1>9, <2>2, <2>3 DEF FeedInv, Owed
<1>10. Owed'
  BY <1>2, <1>9 DEF Owed, WasTold, Fanning, Ahead, Fan
<1> QED BY <1>2, <1>10 DEF FeedInv, Seated, Held, Complete

\* A loop ends when no subscribed listener has a slot ahead of it.
LEMMA NoneAhead ==
  ASSUME Inv, FanEnds, NEW l \in live
  PROVE  ~ Ahead(l, Inner.ev)
<1> DEFINE e == Inner.ev
           T == {s \in DOMAIN slots : slots[s] \in live /\ pos[e] < s}
<1>1. SUFFICES ASSUME Ahead(l, e) PROVE FALSE
  OBVIOUS
<1>2. T # {}
  BY <1>1 DEF Ahead
<1>3. T \in SUBSET Nat
  BY InvFacts
<1>4. PICK i \in T : \A s \in T : i <= s
  BY <1>2, <1>3, LeastNat
<1>5. pos[e] \in Nat /\ i \in DOMAIN slots /\ i \in 1 .. Len(slots) /\ Len(slots) \in Nat
  <2>1. pos[e] \in Nat
    BY InnerFan DEF FanEnds
  <2>2. DOMAIN slots = 1 .. Len(slots) /\ Len(slots) \in Nat
    BY InvFacts
  <2> QED BY <2>1, <2>2
<1> HIDE DEF e
<1>6. \A j \in pos[e] + 1 .. i - 1 : slots[j] \notin live
  <2>1. ASSUME NEW j \in pos[e] + 1 .. i - 1, slots[j] \in live PROVE FALSE
    <3>1. j \in Nat /\ pos[e] < j /\ j < i /\ j \in 1 .. Len(slots)
      BY <1>5
    <3>2. DOMAIN slots = 1 .. Len(slots)
      BY InvFacts
    <3>3. j \in T
      BY <2>1, <3>1, <3>2
    <3> QED BY <1>4, <1>5, <3>1, <3>3
  <2> QED BY <2>1
<1>7. Reaches(e, i)
  BY <1>4, <1>5, <1>6 DEF Reaches
<1> QED BY <1>5, <1>7 DEF FanEnds, e

LEMMA FanEndsFeeds == ASSUME Inv, FeedInv, FanEnds PROVE FeedInv'
<1> DEFINE e == Inner.ev
<1>1. UNCHANGED <<store, events, pos, slots, live, base, since, heard>> /\ stack' = Outer
  BY DEF FanEnds, fanVars
<1>2. \A d : d # e /\ Fanning(d) => \E f \in DOMAIN Outer : Outer[f] = Fan(d)
  <2>1. ASSUME NEW d, NEW f \in DOMAIN stack, stack[f] = Fan(d), d # e
        PROVE  f \in DOMAIN Outer /\ Outer[f] = Fan(d)
    <3>1. f \in 1 .. Len(stack) /\ Len(stack) \in Nat \ {0} /\ DOMAIN Outer = 1 .. Len(stack) - 1
      BY InvFacts, InnerFan DEF FanEnds
    <3>2. f # Len(stack)
      BY <2>1 DEF Fan, Inner
    <3>3. f \in DOMAIN Outer
      BY <3>1, <3>2
    <3>4. Outer[f] = stack[f]
      BY <3>3, InnerFan DEF FanEnds
    <3> QED BY <2>1, <3>3, <3>4
  <2> QED BY <2>1 DEF Fanning
<1>3. \A l \in live : ~ Ahead(l, e)
  BY NoneAhead
<1> HIDE DEF e
<1>4. ASSUME NEW l \in live, NEW d \in DOMAIN events, since[l] < d
      PROVE  WasTold(l, d) \/ ((\E f \in DOMAIN Outer : Outer[f] = Fan(d)) /\ Ahead(l, d))
  BY <1>2, <1>3, <1>4 DEF FeedInv, Owed
<1>5. Owed'
  BY <1>1, <1>4 DEF Owed, WasTold, Fanning, Ahead, Fan
<1> QED BY <1>1, <1>5 DEF FeedInv, Seated, Held, Complete

LEMMA RemountFeeds == ASSUME Inv, FeedInv, NEW fresh \in BOOLEAN, Remount(fresh) PROVE FeedInv'
<1>1. /\ events' = <<>> /\ live' = {}
      /\ \A l \in Listeners : base'[l] = {} /\ since'[l] = 0
  BY DEF Remount
<1>2. DOMAIN events' = {} /\ Len(events') = 0
  BY <1>1
<1> QED BY <1>1, <1>2 DEF FeedInv, Seated, Held, Complete, Owed

LEMMA FeedInductive ==
  ASSUME Inv, FanInv, FeedInv, [Next]_vars
  PROVE  FeedInv'
BY Kinds, LandFeeds, QuietFeeds, SubscribeFeeds, TellFeeds, FanEndsFeeds, RemountFeeds

LEMMA FeedInvariant == Spec => [](Inv /\ FanInv /\ FeedInv)
<1>1. Init => FeedInv
  BY DEF Init, FeedInv, Seated, Held, Complete, Owed
<1>2. Inv /\ FanInv /\ FeedInv /\ [Next]_vars => FeedInv'
  BY FeedInductive
<1> QED BY <1>1, <1>2, BooksInvariant, FanInvariant, PTL DEF Spec

(* A log consumer that merges deltas into its refresh has, whenever no call is in *)
(* progress, exactly the operations of the store: for any number of listeners     *)
(* that join, leave, write and deliver in the middle of a fan, and whatever       *)
(* throws (foldAndBroadcast, instance.ts 357).                                    *)
THEOREM MergersMissNothing == Spec => []NothingMissed
<1>1. Inv /\ FanInv /\ FeedInv => NothingMissed
  <2> SUFFICES ASSUME Inv, FanInv, FeedInv, Shape = "log", stack = <<>>, NEW l \in live
               PROVE  Told(l) = store
    BY DEF NothingMissed
  <2>1. l \in Listeners
    BY InvFacts
  <2>2. \A i \in DOMAIN heard[l] : heard[l][i] \in DOMAIN events
    BY <2>1 DEF FanInv, HeardPassed
  <2>3. \A o \in Told(l) : o \in store
    BY <2>1, <2>2 DEF Told, FeedInv, Held
  <2>4. \A e : ~ Fanning(e)
    BY DEF Fanning
  <2>5. ASSUME NEW o \in store PROVE o \in Told(l)
    <3>1. CASE o \in base[l]
      BY <3>1 DEF Told
    <3>2. CASE \E e \in DOMAIN events : since[l] < e /\ o \in events[e].delta
      <4>1. PICK e \in DOMAIN events : since[l] < e /\ o \in events[e].delta
        BY <3>2
      <4>2. PICK i \in DOMAIN heard[l] : heard[l][i] = e
        BY <2>4, <4>1 DEF FeedInv, Owed, WasTold
      <4> QED BY <4>1, <4>2 DEF Told
    <3> QED BY <3>1, <3>2 DEF FeedInv, Complete
  <2> QED BY <2>3, <2>5
<1> QED BY <1>1, FeedInvariant, PTL

(* instance.ts 189-191: no delta that was fanned after a listener subscribed holds *)
(* what the listener's refresh had, and so what the store kept over a mount.       *)
THEOREM DeltasAreNews == Spec => []DeltaIsNews
<1>1. Inv /\ FanInv /\ FeedInv => DeltaIsNews
  BY DEF FanInv, HeardPassed, FeedInv, Held, DeltaIsNews
<1> QED BY <1>1, FeedInvariant, PTL

-----------------------------------------------------------------------------
(* The instance implements ChangeFeed: each of its steps is one of the feed's *)
(* steps, or none.                                                            *)

\* What a listener was told stays as it is while only events are added.
LEMMA ToldKept ==
  ASSUME FanInv, NEW l \in Listeners, base'[l] = base[l], heard'[l] = heard[l],
         \A e \in DOMAIN events : events'[e] = events[e]
  PROVE  Told(l)' = Told(l)
<1>1. \A i \in DOMAIN heard[l] : heard[l][i] \in DOMAIN events
  BY DEF FanInv, HeardPassed
<1>2. \A i \in DOMAIN heard[l] : events'[heard'[l][i]] = events[heard[l][i]]
  BY <1>1
<1>3. Told(l)' = base'[l] \cup UNION {events'[heard'[l][i]].delta : i \in DOMAIN heard'[l]}
  BY DEF Told
<1> QED BY <1>2, <1>3 DEF Told

Shown == [l \in Listeners |-> Told(l)]

LEMMA ShownKept ==
  ASSUME FanInv, UNCHANGED <<base, heard>>, \A e \in DOMAIN events : events'[e] = events[e]
  PROVE  Shown' = Shown
<1>1. \A l \in Listeners : Told(l)' = Told(l)
  BY ToldKept
<1> QED BY <1>1 DEF Shown

LEMMA LandRefines ==
  ASSUME Inv, FanInv, NEW batch, Lands(batch)
  PROVE  Contract!Learn \/ UNCHANGED Contract!feed
<1>1. store \subseteq store' /\ UNCHANGED <<live, base, heard>>
  BY Landed DEF Lands, fanVars
<1>2. \A e \in DOMAIN events : events'[e] = events[e]
  <2>1. events' = events \/ \E event : events' = Append(events, event)
    BY Landed
  <2> QED BY <2>1, InvFacts, AppendFacts
<1>3. Shown' = Shown
  BY <1>1, <1>2, ShownKept
<1> QED BY <1>1, <1>3 DEF Contract!Learn, Contract!feed, Shown

LEMMA SubscribeRefines ==
  ASSUME Inv, FanInv, FeedInv, NEW l \in Listeners, Subscribe(l)
  PROVE  Contract!Join(l)
<1>1. l \notin live
  BY InvFacts DEF Subscribe, FeedInv, Seated
<1>2. UNCHANGED <<store, events>> /\ live' = live \cup {l}
  BY DEF Subscribe, destVars
<1>3. /\ base'[l] = store /\ heard'[l] = <<>>
      /\ \A m \in Listeners \ {l} : base'[m] = base[m] /\ heard'[m] = heard[m]
  BY InvFacts DEF Subscribe
<1>4. Told(l)' = store
  <2>1. Told(l)' = base'[l] \cup UNION {events'[heard'[l][i]].delta : i \in DOMAIN heard'[l]}
    BY DEF Told
  <2>2. DOMAIN heard'[l] = {}
    BY <1>3
  <2> QED BY <1>3, <2>1, <2>2
<1>5. \A m \in Listeners \ {l} : Told(m)' = Told(m)
  BY <1>2, <1>3, ToldKept
<1>6. Shown' = [Shown EXCEPT ![l] = store]
  BY <1>4, <1>5 DEF Shown
<1> QED BY <1>1, <1>2, <1>6 DEF Contract!Join, Shown

LEMMA TellRefines ==
  ASSUME Inv, FanInv, FeedInv, Tell
  PROVE  (\E l \in Listeners : Contract!Report(l)) \/ UNCHANGED Contract!feed
<1>1. PICK l \in live, e \in DOMAIN events : heard' = [heard EXCEPT ![l] = Append(@, e)]
  BY InnerFan DEF Tell, Reaches
<1> DEFINE delta == events[e].delta
           news == delta \ Told(l)
<1>2. UNCHANGED <<store, events, live, base>>
  BY DEF Tell, destVars
<1>3. delta \subseteq store
  BY DEF FeedInv, Held
<1>4. /\ l \in Listeners /\ heard[l] \in Seq(Nat) /\ heard'[l] = Append(heard[l], e)
      /\ \A m \in Listeners \ {l} : heard'[m] = heard[m]
  BY <1>1, InvFacts
<1>5. Told(l)' = Told(l) \cup delta
  <2>1. Told(l)' = base'[l] \cup UNION {events'[heard'[l][k]].delta : k \in DOMAIN heard'[l]}
    BY DEF Told
  <2>2. /\ DOMAIN heard'[l] = DOMAIN heard[l] \cup {Len(heard[l]) + 1}
        /\ heard'[l][Len(heard[l]) + 1] = e
        /\ \A k \in DOMAIN heard[l] : heard'[l][k] = heard[l][k]
    BY <1>4, AppendFacts
  <2>3. (UNION {events[heard'[l][k]].delta : k \in DOMAIN heard'[l]})
          = (UNION {events[heard[l][k]].delta : k \in DOMAIN heard[l]}) \cup delta
    BY <2>2
  <2>4. Told(l)' = base[l] \cup UNION {events[heard'[l][k]].delta : k \in DOMAIN heard'[l]}
    BY <1>2, <2>1
  <2> QED BY <2>3, <2>4 DEF Told
<1>6. \A m \in Listeners \ {l} : Told(m)' = Told(m)
  BY <1>2, <1>4, ToldKept
<1>7. Shown' = [Shown EXCEPT ![l] = Shown[l] \cup news]
  <2>1. Told(l)' = Told(l) \cup news
    BY <1>5
  <2> HIDE DEF news
  <2> QED BY <1>4, <1>6, <2>1 DEF Shown
<1> HIDE DEF delta
<1>8. CASE news = {}
  BY <1>2, <1>4, <1>7, <1>8 DEF Contract!feed, Shown
<1>9. CASE news # {}
  <2>1. news \in SUBSET (store \ Told(l)) /\ Told(l) # store
    BY <1>3, <1>9
  <2>2. Shown[l] = Told(l)
    BY <1>4 DEF Shown
  <2> HIDE DEF news
  <2>3. Contract!Report(l)
    BY <1>2, <1>7, <1>9, <2>1, <2>2 DEF Contract!Report, Shown
  <2> QED BY <1>4, <2>3
<1> QED BY <1>8, <1>9

LEMMA StepRefines ==
  ASSUME Inv, FanInv, FeedInv, [Next]_vars
  PROVE  [Contract!Next]_Contract!feed
<1>1. ASSUME Quiet PROVE (\E l \in Listeners : Contract!Leave(l)) \/ UNCHANGED Contract!feed
  <2>1. UNCHANGED <<store, events, base, heard>> /\ (live' = live \/ \E l \in live : live' = live \ {l})
    BY <1>1 DEF Quiet
  <2>2. Shown' = Shown
    BY <2>1, ShownKept
  <2> QED BY <2>1, <2>2, InvFacts DEF Contract!Leave, Contract!feed, Shown
<1>2. ASSUME FanEnds PROVE UNCHANGED Contract!feed
  <2>1. UNCHANGED <<store, events, base, heard, live>>
    BY <1>2 DEF FanEnds, fanVars
  <2>2. Shown' = Shown
    BY <2>1, ShownKept
  <2> QED BY <2>1, <2>2 DEF Contract!feed, Shown
<1>3. ASSUME NEW fresh \in BOOLEAN, Remount(fresh) PROVE Contract!Remount
  <2>1. /\ store' \in {store, {}} /\ live' = {}
        /\ \A l \in Listeners : base'[l] = {} /\ heard'[l] = <<>>
    BY <1>3 DEF Remount
  <2>2. ASSUME NEW l \in Listeners PROVE Told(l)' = {}
    <3>1. Told(l)' = base'[l] \cup UNION {events'[heard'[l][k]].delta : k \in DOMAIN heard'[l]}
      BY DEF Told
    <3>2. DOMAIN heard'[l] = {}
      BY <2>1
    <3> QED BY <2>1, <3>1, <3>2
  <2>3. Shown' = [l \in Listeners |-> {}]
    BY <2>2 DEF Shown
  <2> QED BY <2>1, <2>3 DEF Contract!Remount, Shown
<1> QED BY <1>1, <1>2, <1>3, Kinds, LandRefines, SubscribeRefines, TellRefines DEF Contract!Next

(* Without its fairness, the contract of ChangeFeed: a listener starts from        *)
(* everything the instance holds, is told only what is held, and nothing it was    *)
(* told is taken back while the instance stays mounted.                            *)
THEOREM FeedRefined == Spec => Contract!Spec
<1>1. Init => Contract!Init
  <2> SUFFICES ASSUME Init PROVE Contract!Init
    OBVIOUS
  <2>1. ASSUME NEW l \in Listeners PROVE Told(l) = {}
    <3>1. base[l] = {} /\ DOMAIN heard[l] = {}
      BY DEF Init
    <3> QED BY <3>1 DEF Told
  <2> QED BY <2>1 DEF Init, Contract!Init
<1>2. Inv /\ FanInv /\ FeedInv /\ [Next]_vars => [Contract!Next]_Contract!feed
  BY StepRefines
<1> QED BY <1>1, <1>2, FeedInvariant, PTL DEF Spec, Contract!Spec

-----------------------------------------------------------------------------
(* What a listener is shown, where listeners do not call back into the        *)
(* instance. Then a loop over the listeners is the innermost call while it    *)
(* runs, its event shows the whole store, and who was not called yet has a    *)
(* slot ahead of it.                                                          *)

FanOnTop == \A f \in DOMAIN stack : stack[f].kind = "fan" => f = Len(stack)
InFan == stack # <<>> /\ Inner.kind = "fan"

Current ==
  /\ ~ InFan => \A l \in live : view[l] = Assemble(store)
  /\ InFan =>
       /\ events[Inner.ev].whole = Assemble(store)
       /\ \A l \in live : view[l] = Assemble(store) \/ Ahead(l, Inner.ev)

\* No loop is in progress in what remains when a write ends.
LEMMA NoFanBelow ==
  ASSUME Inv, FanOnTop, stack # <<>>
  PROVE  \A f \in DOMAIN Outer : Outer[f].kind # "fan"
<1>1. Len(stack) \in Nat \ {0} /\ \A f \in DOMAIN Outer : Outer[f] = stack[f]
  BY OuterType DEF Inv, TypeInv
<1>2. DOMAIN Outer = 1 .. Len(stack) - 1 /\ DOMAIN stack = 1 .. Len(stack)
  <2>1. stack \in Seq(Frame)
    BY InvFacts
  <2> HIDE DEF Frame
  <2> QED BY <1>1, <2>1 DEF Outer
<1> QED BY <1>1, <1>2 DEF FanOnTop

LEMMA NoFanInControl ==
  ASSUME Inv, FanOnTop, InControl, ~ ListenersCall
  PROVE  ~ InFan /\ \A f \in DOMAIN stack : stack[f].kind # "fan"
<1>1. stack = <<>> \/ (stack # <<>> /\ Inner.kind = "write")
  BY DEF InControl
<1> QED BY <1>1 DEF FanOnTop, InFan, Inner

LEMMA LandCurrent ==
  ASSUME ~ ListenersCall, Inv, Seated, FanOnTop, Current, NEW batch, Lands(batch)
  PROVE  FanOnTop' /\ Current'
<1>1. UNCHANGED <<slots, live, view>>
  BY DEF Lands, fanVars
<1>2. PICK rest :
        /\ rest = stack \/ (rest = Outer /\ stack # <<>> /\ Inner.kind = "write")
        /\ \/ UNCHANGED <<store, emitted, events, pos>> /\ stack' = rest
           \/ \E event :
                /\ events' = Append(events, event) /\ pos' = Append(pos, 0)
                /\ stack' = Append(rest, Fan(Len(events) + 1))
                /\ event.whole = Assemble(store')
  BY Landed
<1>3. rest \in Seq(Frame) /\ \A f \in DOMAIN rest : rest[f].kind # "fan"
  BY <1>2, FanningKept, NoFanBelow, NoFanInControl DEF Lands
<1>4. \A l \in live : view[l] = Assemble(store)
  BY NoFanInControl DEF Lands, Current
<1>5. CASE UNCHANGED <<store, emitted, events, pos>> /\ stack' = rest
  <2>1. FanOnTop'
    BY <1>3, <1>5 DEF FanOnTop
  <2>2. ~ InFan'
    <3>1. rest # <<>> => Len(rest) \in DOMAIN rest
      BY <1>3
    <3> QED BY <1>3, <1>5, <3>1 DEF InFan, Inner
  <2> QED BY <1>1, <1>4, <1>5, <2>1, <2>2 DEF Current
<1>6. CASE \E event :
             /\ events' = Append(events, event) /\ pos' = Append(pos, 0)
             /\ stack' = Append(rest, Fan(Len(events) + 1))
             /\ event.whole = Assemble(store')
  <2> DEFINE n == Len(events) + 1
  <2>1. events'[n].whole = Assemble(store') /\ pos'[n] = 0
    BY <1>6, InvFacts, AppendFacts
  <2>2. /\ stack' # <<>> /\ stack'[Len(stack')] = Fan(n) /\ DOMAIN stack' = DOMAIN rest \cup {Len(stack')}
        /\ \A f \in DOMAIN rest : stack'[f] = rest[f]
    BY <1>3, <1>6, AppendFacts
  <2>3. Inner' = Fan(n) /\ Inner'.ev = n
    BY <2>2 DEF Inner, Fan
  <2> HIDE DEF n
  <2>4. FanOnTop'
    BY <1>3, <2>2 DEF FanOnTop
  <2>5. ASSUME NEW l \in live PROVE \E s \in DOMAIN slots' : slots'[s] = l /\ pos'[n] < s
    <3>1. PICK s \in DOMAIN slots : slots[s] = l
      BY InvFacts DEF Seated
    <3>2. 0 < s
      BY InvFacts
    <3> QED BY <1>1, <2>1, <3>1, <3>2
  <2>6. \A l \in live' : Ahead(l, Inner.ev)'
    BY <1>1, <2>3, <2>5 DEF Ahead
  <2>7. events'[Inner'.ev].whole = Assemble(store')
    BY <2>1, <2>3
  <2>8. InFan'
    BY <2>2, <2>3 DEF InFan, Fan
  <2> QED BY <2>4, <2>6, <2>7, <2>8 DEF Current
<1> QED BY <1>2, <1>5, <1>6

LEMMA QuietCurrent ==
  ASSUME ~ ListenersCall, Inv, FanOnTop, Current, Quiet
  PROVE  FanOnTop' /\ Current'
<1>1. UNCHANGED <<store, events, pos, slots, view>> /\ live' \subseteq live
  BY DEF Quiet
<1>2. CASE stack' = stack
  <2>1. Inner' = Inner /\ (InFan' <=> InFan)
    BY <1>2 DEF Inner, InFan
  <2> QED BY <1>1, <1>2, <2>1 DEF FanOnTop, Current, Ahead
<1>3. ASSUME stack' \in Seq(Frame), \A f \in DOMAIN stack' : stack'[f].kind # "fan", ~ InFan
      PROVE  FanOnTop' /\ Current'
  <2>1. ~ InFan'
    <3>1. stack' # <<>> => Len(stack') \in DOMAIN stack'
      BY <1>3
    <3> QED BY <1>3, <3>1 DEF InFan, Inner
  <2> QED BY <1>1, <1>3, <2>1 DEF FanOnTop, Current
<1>4. CASE InControl /\ \E o \in Op : stack' = Append(stack, Pending(o))
  <2>1. PICK o \in Op : stack' = Append(stack, Pending(o))
    BY <1>4
  <2>2. Pending(o) \in Frame /\ Pending(o).kind # "fan"
    BY DEF Pending, Frame
  <2>3. stack' \in Seq(Frame)
    <3>1. stack \in Seq(Frame)
      BY InvFacts
    <3> HIDE DEF Frame
    <3> QED BY <2>1, <2>2, <3>1
  <2>4. \A f \in DOMAIN stack' : stack'[f].kind # "fan"
    BY <1>4, <2>1, <2>2, InvFacts, AppendFacts, NoFanInControl
  <2> QED BY <1>3, <1>4, <2>3, <2>4, NoFanInControl
<1>5. CASE stack' = Outer /\ stack # <<>> /\ Inner.kind = "write"
  <2>1. Outer \in Seq(Frame)
    BY <1>5, OuterType DEF Inv, TypeInv
  <2>2. ~ InFan
    BY <1>5 DEF InFan
  <2> QED BY <1>3, <1>5, <2>1, <2>2, NoFanBelow
<1> QED BY <1>2, <1>4, <1>5 DEF Quiet

LEMMA TellCurrent ==
  ASSUME Inv, FanOnTop, Current, Tell
  PROVE  FanOnTop' /\ Current'
<1> DEFINE e == Inner.ev
<1>1. PICK i \in DOMAIN slots :
        /\ Reaches(e, i) /\ pos' = [pos EXCEPT ![e] = i]
        /\ view' = [view EXCEPT ![slots[i]] = events[e].whole]
  BY DEF Tell
<1>2. UNCHANGED <<store, events, slots, live, stack>>
  BY DEF Tell, destVars
<1>3. InFan /\ e \in DOMAIN pos /\ pos[e] \in Nat
  BY InnerFan DEF Tell, InFan
<1>4. events[e].whole = Assemble(store) /\ \A l \in live : view[l] = Assemble(store) \/ Ahead(l, e)
  BY <1>3 DEF Current
<1> HIDE DEF e
<1>5. i \in Nat /\ pos'[e] = i /\ \A s \in DOMAIN slots : s \in Nat
  <2>1. slots \in Seq(Listeners)
    BY InvFacts
  <2>2. \A s \in DOMAIN slots : s \in Nat
    BY <2>1
  <2>3. pos'[e] = i
    BY <1>1, <1>3
  <2> QED BY <2>2, <2>3
<1>6. \A l \in Listeners : view'[l] = IF l = slots[i] THEN Assemble(store) ELSE view[l]
  BY <1>1, <1>4, InvFacts
<1>7. \A s \in DOMAIN slots : slots[s] \in live /\ pos[e] < s => s = i \/ i < s
  <2>1. \A j \in pos[e] + 1 .. i - 1 : slots[j] \notin live
    BY <1>1 DEF Reaches
  <2> QED BY <1>3, <1>5, <2>1
<1>8. ASSUME NEW l \in live
      PROVE  view'[l] = Assemble(store) \/ \E s \in DOMAIN slots : slots[s] = l /\ pos'[e] < s
  <2>1. CASE view[l] = Assemble(store)
    BY <1>6, <2>1, InvFacts
  <2>2. CASE Ahead(l, e)
    <3>1. PICK s \in DOMAIN slots : slots[s] = l /\ pos[e] < s
      BY <2>2 DEF Ahead
    <3>2. l = slots[i] \/ pos'[e] < s
      BY <1>5, <1>7, <3>1
    <3> QED BY <1>6, <3>1, <3>2, InvFacts
  <2> QED BY <1>4, <2>1, <2>2
<1>9. Inner' = Inner /\ Inner'.ev = e /\ InFan'
  BY <1>2, <1>3 DEF Inner, InFan, e
<1>10. \A l \in live' : view'[l] = Assemble(store') \/ Ahead(l, Inner.ev)'
  BY <1>2, <1>8, <1>9 DEF Ahead
<1>11. events'[Inner'.ev].whole = Assemble(store')
  BY <1>2, <1>4, <1>9
<1> QED BY <1>2, <1>9, <1>10, <1>11 DEF FanOnTop, Current

LEMMA FanEndsCurrent ==
  ASSUME Inv, FanOnTop, Current, FanEnds
  PROVE  FanOnTop' /\ Current'
<1>1. UNCHANGED <<store, live, view>> /\ stack' = Outer /\ stack # <<>> /\ InFan
  BY DEF FanEnds, fanVars, InFan
<1>2. \A l \in live : view[l] = Assemble(store)
  BY <1>1, NoneAhead DEF Current
<1>3. Outer \in Seq(Frame) /\ \A f \in DOMAIN Outer : Outer[f].kind # "fan"
  BY <1>1, NoFanBelow, OuterType DEF Inv, TypeInv
<1>4. ~ InFan'
  <2>1. stack' # <<>> => Len(stack') \in DOMAIN stack'
    BY <1>1, <1>3
  <2> QED BY <1>1, <1>3, <2>1 DEF InFan, Inner
<1> QED BY <1>1, <1>2, <1>3, <1>4 DEF FanOnTop, Current

LEMMA CurrentInductive ==
  ASSUME ~ ListenersCall, Inv, Seated, FanOnTop, Current, [Next]_vars
  PROVE  FanOnTop' /\ Current'
<1>1. ASSUME NEW l \in Listeners, Subscribe(l) PROVE FanOnTop' /\ Current'
  <2>1. ~ InFan /\ UNCHANGED <<store, stack>> /\ live' = live \cup {l}
    BY <1>1, NoFanInControl DEF Subscribe, destVars
  <2>2. \A m \in live' : view'[m] = Assemble(store)
    BY <1>1, <2>1, InvFacts DEF Subscribe, Current
  <2>3. ~ InFan'
    BY <2>1 DEF InFan, Inner
  <2> QED BY <2>1, <2>2, <2>3 DEF FanOnTop, Current
<1>2. ASSUME NEW fresh \in BOOLEAN, Remount(fresh) PROVE FanOnTop' /\ Current'
  BY <1>2 DEF Remount, FanOnTop, Current, InFan
<1> QED BY <1>1, <1>2, Kinds, LandCurrent, QuietCurrent, TellCurrent, FanEndsCurrent

(* Where listeners do not call back into the instance, what each was shown last is *)
(* the assembly of the store whenever no call is in progress (GAP-8). Where they   *)
(* do, the loop of an outer event goes on after that of an inner one and shows the *)
(* listeners behind it an older assembly.                                          *)
THEOREM ViewsAreCurrent == ~ ListenersCall => (Spec => []ViewsCurrent)
<1> SUFFICES ASSUME ~ ListenersCall PROVE Spec => []ViewsCurrent
  OBVIOUS
<1>1. Init => FanOnTop /\ Current
  BY DEF Init, FanOnTop, Current, InFan
<1>2. Inv /\ FeedInv /\ FanOnTop /\ Current /\ [Next]_vars => FanOnTop' /\ Current'
  BY CurrentInductive DEF FeedInv
<1>3. Current => ViewsCurrent
  BY DEF Current, ViewsCurrent, InFan
<1> QED BY <1>1, <1>2, <1>3, FeedInvariant, PTL DEF Spec

-----------------------------------------------------------------------------
(* What the store and the session hold of one another. What the session       *)
(* minted and the store lacks is waiting for send() to return.                *)

Waiting(o) == \E f \in DOMAIN stack : stack[f] = Pending(o)

SessionHeld == dest = "on" => \A o \in sess : Id(o) \in Ids(store) \/ Waiting(o)

LEMMA OuterFrames ==
  ASSUME Inv, stack # <<>>
  PROVE  /\ Outer \in Seq(Frame) /\ \A f \in DOMAIN Outer : Outer[f] = stack[f]
         /\ DOMAIN stack = DOMAIN Outer \cup {Len(stack)} /\ Inner = stack[Len(stack)]
<1>1. /\ Outer \in Seq(Frame) /\ Len(stack) \in Nat \ {0}
      /\ \A f \in DOMAIN Outer : Outer[f] = stack[f] /\ stack \in Seq(Frame)
  BY OuterType, InvFacts DEF Inv, TypeInv
<1>2. DOMAIN Outer = 1 .. Len(stack) - 1 /\ DOMAIN stack = 1 .. Len(stack)
  <2> HIDE DEF Frame
  <2> QED BY <1>1, InvFacts DEF Outer
<1> QED BY <1>1, <1>2 DEF Inner

\* A write that waits does so until it returns or throws.
LEMMA WaitingKept ==
  ASSUME Inv
  PROVE  /\ (stack' = stack \/ \E x : stack' = Append(stack, x)) =>
              \A o : Waiting(o) => \E f \in DOMAIN stack' : stack'[f] = Pending(o)
         /\ stack # <<>> /\ (stack' = Outer \/ \E x : stack' = Append(Outer, x)) =>
              \A o : Waiting(o) =>
                 Inner = Pending(o) \/ \E f \in DOMAIN stack' : stack'[f] = Pending(o)
<1>1. ASSUME NEW x, stack' = Append(stack, x)
      PROVE  DOMAIN stack \subseteq DOMAIN stack' /\ \A f \in DOMAIN stack : stack'[f] = stack[f]
  <2>1. stack \in Seq(Frame)
    BY InvFacts
  <2> QED BY <1>1, <2>1, AppendFacts
<1>2. ASSUME NEW x, stack # <<>>, stack' = Append(Outer, x) \/ stack' = Outer
      PROVE  DOMAIN Outer \subseteq DOMAIN stack' /\ \A f \in DOMAIN Outer : stack'[f] = stack[f]
  BY <1>2, OuterFrames, AppendFacts
<1> QED BY <1>1, <1>2, OuterFrames DEF Waiting

LEMMA LandStack ==
  ASSUME NEW batch, NEW rest, Land(batch, rest)
  PROVE  stack' = rest \/ \E x : stack' = Append(rest, x)
BY DEF Land

LEMMA AbsorbedOf ==
  ASSUME NEW S, NEW B
  PROVE  S \subseteq Absorbed(S, B) /\ Absorbed(S, B) \subseteq S \cup B
BY DEF Absorbed, Missing

LEMMA SessionHeldInductive ==
  ASSUME "publish" \notin Faults, Inv, SessionHeld, [Next]_vars
  PROVE  SessionHeld'
<1> DEFINE Still(o) == \E f \in DOMAIN stack' : stack'[f] = Pending(o)
<1>0. ASSUME dest' = "on" => \A o \in sess' : Id(o) \in Ids(store') \/ Still(o)
      PROVE  SessionHeld'
  BY <1>0 DEF SessionHeld, Waiting, Pending, Ids, Id
<1> HIDE DEF Still
<1>1. CASE Attach
  <2>1. Ids(store') = Ids(store) \cup Ids(Backfill(sess', store))
    BY <1>1, AttachLands, Landed
  <2>2. \A o \in sess' : Id(o) \in Ids(store) \/ o \in Backfill(sess', store)
    BY DEF Backfill, Missing
  <2> QED BY <1>0, <2>1, <2>2 DEF Ids
<1>2. CASE WriteOnline
  <2>1. PICK op : sess' = sess \cup {op} /\ stack' = Append(stack, Pending(op))
    BY <1>2 DEF WriteOnline
  <2>2. store' = store /\ dest' = dest
    BY <1>2 DEF WriteOnline
  <2>3. Still(op) /\ \A o : Waiting(o) => Still(o)
    <3>1. \A o : Waiting(o) => Still(o)
      BY <2>1, WaitingKept DEF Still
    <3>2. stack \in Seq(Frame)
      BY InvFacts
    <3>3. Len(stack) + 1 \in DOMAIN stack' /\ stack'[Len(stack) + 1] = Pending(op)
      BY <2>1, <3>2, AppendFacts
    <3> QED BY <3>1, <3>3 DEF Still
  <2> QED BY <1>0, <2>1, <2>2, <2>3 DEF SessionHeld
<1>3. CASE WriteReturns
  <2>1. Ids(store') = Ids(store) \cup Ids({Inner.op})
    BY <1>3, OneLands, Landed
  <2>2. sess' = sess /\ dest' = dest /\ stack # <<>> /\ Land({Inner.op}, Outer)
    BY <1>3 DEF WriteReturns, destVars
  <2>3. \A o : Waiting(o) => Inner = Pending(o) \/ Still(o)
    BY <2>2, LandStack, WaitingKept DEF Still
  <2>4. \A o : Inner = Pending(o) => Inner.op = o
    BY DEF Pending
  <2>5. Id(Inner.op) \in Ids({Inner.op})
    BY DEF Ids
  <2> QED BY <1>0, <2>1, <2>2, <2>3, <2>4, <2>5 DEF SessionHeld
<1>4. CASE \E batch \in Batches : Deliver(batch)
  <2>1. PICK batch \in Batches : Deliver(batch)
    BY <1>4
  <2>2. Ids(store') = Ids(store) \cup Ids(batch)
    BY <2>1, DeliverLands, Landed
  <2>3. sess' \subseteq sess \cup batch /\ dest = "on" /\ Land(batch, stack)
    BY <2>1, AbsorbedOf DEF Deliver
  <2>4. \A o : Waiting(o) => Still(o)
    BY <2>3, LandStack, WaitingKept DEF Still
  <2>5. \A o \in batch : Id(o) \in Ids(batch)
    BY DEF Ids
  <2> QED BY <1>0, <2>2, <2>3, <2>4, <2>5 DEF SessionHeld
<1>5. CASE FanEnds
  <2>1. \A o : Waiting(o) => Still(o)
    <3>1. stack # <<>> /\ stack' = Outer /\ Inner.kind = "fan"
      BY <1>5 DEF FanEnds
    <3>2. \A o : Inner # Pending(o)
      BY <3>1 DEF Pending
    <3> QED BY <3>1, <3>2, WaitingKept DEF Still
  <2>2. UNCHANGED <<store, dest, sess>>
    BY <1>5 DEF FanEnds, destVars
  <2> QED BY <1>0, <2>1, <2>2 DEF SessionHeld
<1>6. ASSUME \/ AttachThrows \/ WriteOffline
             \/ \E batch \in Batches : Feed(batch)
             \/ \E fresh \in BOOLEAN : Remount(fresh)
      PROVE  dest' # "on"
  BY <1>6 DEF AttachThrows, WriteOffline, Feed, Remount, destVars
<1>7. ASSUME \/ \E l \in Listeners : Subscribe(l) \/ Unsubscribe(l)
             \/ Tell \/ UNCHANGED vars
      PROVE  UNCHANGED <<store, dest, sess, stack>>
  BY <1>7 DEF Subscribe, Unsubscribe, Tell, destVars, vars
<1>8. ASSUME UNCHANGED <<store, dest, sess, stack>> PROVE SessionHeld'
  BY <1>0, <1>8 DEF SessionHeld, Waiting, Still
<1>9. ~ WriteThrows
  BY DEF WriteThrows
<1> QED BY <1>0, <1>1, <1>2, <1>3, <1>4, <1>5, <1>6, <1>7, <1>8, <1>9 DEF Next

(* GAP-9: mount order does not matter. Where publishing does not throw, between   *)
(* calls an attached instance holds everything its session knows for the route.   *)
(* Where it throws, the session keeps an operation that the write did not store.  *)
THEOREM AttachedIsCaughtUp == "publish" \notin Faults => (Spec => []AttachedHoldsSession)
<1> SUFFICES ASSUME "publish" \notin Faults PROVE Spec => []AttachedHoldsSession
  OBVIOUS
<1>1. Init => SessionHeld
  BY DEF Init, SessionHeld
<1>2. Inv /\ SessionHeld /\ [Next]_vars => SessionHeld'
  BY SessionHeldInductive
<1>3. SessionHeld => AttachedHoldsSession
  BY DEF SessionHeld, AttachedHoldsSession, Waiting, Ids
<1> QED BY <1>1, <1>2, <1>3, BooksInvariant, PTL DEF Spec

-----------------------------------------------------------------------------
(* The client's own operations. They form one chain without a gap, each is in *)
(* the store or waits for send() to return, and whoever holds an operation of *)
(* this client's holds the one that was minted.                               *)

\* Nothing is lost or written aside: the store persists, the application writes
\* only while the instance is attached, and the calls out of it do not throw.
Dependable ==
  Retains /\ ~ OfflineWrites /\ "hydrate" \notin Faults /\ "publish" \notin Faults

Genuine(o) == o.wire /\ (o.origin = Self => o \in sent)

Own ==
  /\ Distinct(sent) /\ Chained(sent) /\ \A o \in sent : o.origin = Self /\ o.wire
  /\ \A o \in store \cup sess : Genuine(o)
  /\ dest \in {"none", "on"}
  /\ dest = "on" => sent \subseteq sess
  /\ \A o \in sent : o \in store \/ Waiting(o)
  /\ \A f \in DOMAIN stack : stack[f].kind = "write" => stack[f].op \in sent /\ dest = "on"
  /\ returned \subseteq store

LEMMA OwnFacts ==
  ASSUME Own
  PROVE  /\ Distinct(sent) /\ Chained(sent) /\ \A o \in sent : o.origin = Self /\ o.wire
         /\ \A o \in store \cup sess : o.wire /\ (o.origin = Self => o \in sent)
         /\ dest \in {"none", "on"}
         /\ dest = "on" => sent \subseteq sess
         /\ \A o \in sent : o \in store \/ Waiting(o)
         /\ \A f \in DOMAIN stack : stack[f].kind = "write" => stack[f].op \in sent /\ dest = "on"
         /\ returned \subseteq store
BY DEF Own, Genuine

\* The writes in progress after a batch landed were in progress before.
LEMMA LandFrames ==
  ASSUME Inv, NEW batch, NEW rest, Land(batch, rest),
         rest = stack \/ (rest = Outer /\ stack # <<>>)
  PROVE  \A f \in DOMAIN stack' : stack'[f].kind = "write" =>
           \E g \in DOMAIN stack : stack'[f] = stack[g]
<1>1. \A f \in DOMAIN rest : \E g \in DOMAIN stack : rest[f] = stack[g]
  BY OuterFrames
<1>2. stack' = rest \/ \E e : stack' = Append(rest, Fan(e))
  BY DEF Land
<1>3. CASE \E e : stack' = Append(rest, Fan(e))
  <2>1. PICK e : stack' = Append(rest, Fan(e))
    BY <1>3
  <2>2. rest \in Seq(Frame)
    BY InvFacts, OuterFrames
  <2>3. /\ DOMAIN stack' = DOMAIN rest \cup {Len(rest) + 1}
        /\ stack'[Len(rest) + 1] = Fan(e) /\ \A f \in DOMAIN rest : stack'[f] = rest[f]
    BY <2>1, <2>2, AppendFacts
  <2>4. Fan(e).kind # "write"
    BY DEF Fan
  <2> QED BY <1>1, <2>3, <2>4
<1> QED BY <1>1, <1>2, <1>3

\* A batch of genuine operations lands: the store stays genuine, and holds
\* every one of them that is the client's own.
LEMMA LandOwn ==
  ASSUME Inv, Own, NEW batch, Lands(batch),
         \A o \in batch : o.wire /\ (o.origin = Self => o \in sent)
  PROVE  /\ \A o \in store' : o.wire /\ (o.origin = Self => o \in sent)
         /\ \A o \in batch : o.origin = Self => o \in store'
         /\ store \subseteq store'
<1>1. store' \subseteq store \cup batch /\ store \subseteq store'
  BY Landed
<1>2. \A o \in store' : o.wire /\ (o.origin = Self => o \in sent)
  BY <1>1, OwnFacts
<1>3. Ids(batch) \subseteq Ids(store')
  <2>1. Ids(store') = Ids(store) \cup Ids(batch)
    BY Landed
  <2> QED BY <2>1
<1>4. ASSUME NEW o \in batch, o.origin = Self PROVE o \in store'
  <2>1. PICK p \in store' : Id(p) = Id(o)
    BY <1>3 DEF Ids
  <2>2. p.origin = Self
    BY <1>4, <2>1 DEF Id
  <2>3. p \in sent /\ o \in sent
    BY <1>2, <1>4, <2>2
  <2> QED BY <2>1, <2>3, OwnFacts DEF Distinct
<1> QED BY <1>1, <1>2, <1>4

\* Attaching gives the session every operation it ever minted.
LEMMA AttachOwn ==
  ASSUME Inv, Own, Attach
  PROVE  /\ sent \subseteq sess' /\ \A o \in sess' : o.wire /\ (o.origin = Self => o \in sent)
         /\ \A o \in Backfill(sess', store) : o \in sess'
<1> DEFINE wired == {o \in store : o.wire}
<1>1. sess' = Absorbed(sess, wired) /\ dest = "none"
  BY DEF Attach, Hydrated
<1>2. wired = store
  BY OwnFacts
<1> HIDE DEF wired
<1>3. sess' \subseteq sess \cup store /\ sess \subseteq sess'
  BY <1>1, <1>2, AbsorbedOf
<1>4. \A o \in sess' : o.wire /\ (o.origin = Self => o \in sent)
  BY <1>3, OwnFacts
<1>5. sent \subseteq store
  <2>1. \A o \in sent : ~ Waiting(o)
    BY <1>1, OwnFacts DEF Waiting, Pending
  <2> QED BY <2>1, OwnFacts
<1>6. ASSUME NEW o \in sent PROVE o \in sess'
  <2>1. o.origin = Self
    BY OwnFacts
  <2>2. CASE Id(o) \in Ids(sess)
    <3>1. PICK p \in sess : Id(p) = Id(o)
      BY <2>2 DEF Ids
    <3>2. p \in sent
      BY <2>1, <3>1, OwnFacts DEF Id
    <3>3. p = o
      BY <3>1, <3>2, OwnFacts DEF Distinct
    <3> QED BY <1>3, <3>3
  <2>3. CASE Id(o) \notin Ids(sess)
    <3>1. o \in Missing(store, sess)
      BY <1>5, <2>3 DEF Missing
    <3>2. Ids(sent) \subseteq Ids(sess \cup store)
      BY <1>5 DEF Ids
    <3>3. \A k \in 0 .. o.seq - 1 : <<o.origin, k>> \in Ids(sess \cup store)
      BY <3>2, OwnFacts DEF Chained
    <3>4. o \in Absorbed(sess, store)
      BY <3>1, <3>3 DEF Absorbed
    <3> QED BY <1>1, <1>2, <3>4
  <2> QED BY <2>2, <2>3
<1> QED BY <1>4, <1>6 DEF Backfill, Missing

\* What the session mints continues the one chain.
LEMMA MintOwn ==
  ASSUME Inv, Own, dest = "on"
  PROVE  LET op == SessionMint(sess, Self, writes + 1)
         IN  /\ op.origin = Self /\ op.wire
             /\ Distinct(sent \cup {op}) /\ Chained(sent \cup {op})
<1> DEFINE op == SessionMint(sess, Self, writes + 1)
<1>1. op.origin = Self /\ op.wire
  BY DEF SessionMint
<1>2. writes + 1 \in Nat
  BY InvFacts
<1>3. Id(op) \notin Ids(sess) /\ Distinct(sess \cup {op}) /\ Chained(sess \cup {op})
  BY <1>2, InvFacts, MintContinues
<1> HIDE DEF op
<1>4. sent \subseteq sess
  BY OwnFacts
<1>5. Distinct(sent \cup {op})
  BY <1>3, <1>4 DEF Distinct
<1>6. \A k : <<Self, k>> \in Ids(sess \cup {op}) => <<Self, k>> \in Ids(sent \cup {op})
  <2>1. ASSUME NEW k, NEW p \in sess \cup {op}, <<Self, k>> = Id(p)
        PROVE  p \in sent \cup {op}
    BY <2>1, OwnFacts DEF Id
  <2> QED BY <2>1 DEF Ids
<1>7. Chained(sent \cup {op})
  <2>1. ASSUME NEW o \in sent \cup {op}, NEW k \in 0 .. o.seq - 1
        PROVE  <<o.origin, k>> \in Ids(sent \cup {op})
    <3>1. o.origin = Self
      BY <1>1, OwnFacts
    <3>2. <<o.origin, k>> \in Ids(sess \cup {op})
      BY <1>3, <1>4 DEF Chained
    <3> QED BY <1>6, <3>1, <3>2
  <2> QED BY <2>1 DEF Chained
<1> QED BY <1>1, <1>5, <1>7 DEF op

LEMMA OwnInductive ==
  ASSUME Dependable, Inv, Own, [Next]_vars
  PROVE  Own'
<1> DEFINE Still(o) == \E f \in DOMAIN stack' : stack'[f] = Pending(o)
           Begun == \A f \in DOMAIN stack' : stack'[f].kind = "write" =>
                       stack'[f].op \in sent' /\ dest' = "on"
           Known == \A o \in store' \cup sess' : o.wire /\ (o.origin = Self => o \in sent')
           Kept == \A o \in sent' : o \in store' \/ Still(o)
<1>0. ASSUME sent' = sent, Known, dest' \in {"none", "on"}, dest' = "on" => sent \subseteq sess',
             Kept, Begun, returned' \subseteq store'
      PROVE  Own'
  BY <1>0, OwnFacts DEF Own, Genuine, Waiting, Pending, Distinct, Chained, Ids, Id
<1>w. ASSUME NEW g \in DOMAIN stack, stack[g].kind = "write"
      PROVE  stack[g].op \in sent /\ dest = "on"
  BY <1>w, OwnFacts
<1>1. CASE Attach
  <2>1. /\ sent \subseteq sess' /\ \A o \in sess' : o.wire /\ (o.origin = Self => o \in sent)
        /\ \A o \in Backfill(sess', store) : o \in sess'
    BY <1>1, AttachOwn
  <2> DEFINE back == Backfill(sess', store)
  <2>2. Lands(back) /\ Land(back, stack)
    BY <1>1, AttachLands
  <2>3. \A o \in back : o.wire /\ (o.origin = Self => o \in sent)
    BY <2>1
  <2> HIDE DEF back
  <2>4. /\ \A o \in store' : o.wire /\ (o.origin = Self => o \in sent)
        /\ store \subseteq store'
    BY <2>2, <2>3, LandOwn
  <2>5. sent' = sent /\ dest' = "on" /\ returned' = returned
    BY <1>1 DEF Attach
  <2>6. Begun
    BY <1>w, <2>2, <2>5, LandFrames
  <2>7. Kept
    BY <2>2, <2>4, <2>5, LandStack, WaitingKept, OwnFacts
  <2> HIDE DEF Begun, Kept
  <2> QED BY <1>0, <2>1, <2>4, <2>5, <2>6, <2>7, OwnFacts
<1>2. CASE WriteOnline
  <2> DEFINE op == SessionMint(sess, Self, writes + 1)
  <2>1. /\ dest = "on" /\ sess' = sess \cup {op} /\ sent' = sent \cup {op}
        /\ stack' = Append(stack, Pending(op)) /\ store' = store
        /\ dest' = dest /\ returned' = returned
    BY <1>2, OwnFacts DEF WriteOnline
  <2>2. op.origin = Self /\ op.wire /\ Distinct(sent \cup {op}) /\ Chained(sent \cup {op})
    BY <2>1, MintOwn
  <2> HIDE DEF op
  <2>3. stack \in Seq(Frame)
    BY InvFacts
  <2>4. /\ DOMAIN stack' = DOMAIN stack \cup {Len(stack) + 1}
        /\ stack'[Len(stack) + 1] = Pending(op) /\ \A f \in DOMAIN stack : stack'[f] = stack[f]
    BY <2>1, <2>3, AppendFacts
  <2>5. Pending(op).op = op
    BY DEF Pending
  <2>6. Begun
    BY <1>w, <2>1, <2>4, <2>5
  <2>7. Kept
    BY <2>1, <2>4, OwnFacts DEF Waiting
  <2>8. Known
    BY <2>1, <2>2, OwnFacts
  <2>9. Distinct(sent)' /\ Chained(sent)'
    BY <2>1, <2>2 DEF Distinct, Chained, Ids, Id
  <2>10. \A o \in sent' : o.origin = Self /\ o.wire
    BY <2>1, <2>2, OwnFacts
  <2>11. dest' = "on" /\ sent' \subseteq sess' /\ returned' \subseteq store'
    BY <2>1, OwnFacts
  <2> QED BY <2>6, <2>7, <2>8, <2>9, <2>10, <2>11 DEF Own, Genuine, Waiting, Pending
<1>3. CASE WriteReturns
  <2> DEFINE op == Inner.op
  <2>1. /\ Lands({op}) /\ Land({op}, Outer) /\ stack # <<>> /\ Inner.kind = "write"
        /\ sent' = sent /\ sess' = sess /\ dest' = dest /\ returned' = returned \cup {op}
    BY <1>3, OneLands DEF WriteReturns, destVars
  <2>2. Len(stack) \in DOMAIN stack /\ Inner = stack[Len(stack)]
    BY <2>1, OuterFrames
  <2>3. op \in sent
    BY <1>w, <2>1, <2>2
  <2>4. op.wire /\ op.origin = Self
    BY <2>3, OwnFacts
  <2>5. \A o : Inner = Pending(o) => op = o
    BY DEF Pending
  <2>6. \A o : Waiting(o) => Inner = Pending(o) \/ Still(o)
    BY <2>1, LandStack, WaitingKept
  <2> HIDE DEF op
  <2>7. /\ \A o \in store' : o.wire /\ (o.origin = Self => o \in sent)
        /\ op \in store' /\ store \subseteq store'
    BY <2>1, <2>3, <2>4, LandOwn
  <2>8. Begun
    BY <1>w, <2>1, LandFrames
  <2>9. Kept
    BY <2>1, <2>5, <2>6, <2>7, OwnFacts
  <2> HIDE DEF Begun, Kept
  <2> QED BY <1>0, <2>1, <2>7, <2>8, <2>9, OwnFacts
<1>4. ASSUME NEW batch \in Batches
      PROVE  \A o \in batch : o.wire /\ (o.origin = Self => o \in sent)
  <2>1. batch \subseteq RemoteOps \cup sent
    BY DEF Batches, Wire
  <2> QED BY <2>1, RemoteAssumption, OwnFacts
<1>5. CASE \E batch \in Batches : Deliver(batch)
  <2>1. PICK batch \in Batches : Deliver(batch)
    BY <1>5
  <2>2. /\ Land(batch, stack) /\ sess' = Absorbed(sess, batch) /\ dest = "on"
        /\ sent' = sent /\ dest' = dest /\ returned' = returned
    BY <2>1 DEF Deliver
  <2>3. Lands(batch)
    BY <2>1, DeliverLands
  <2>4. /\ \A o \in store' : o.wire /\ (o.origin = Self => o \in sent)
        /\ store \subseteq store'
    BY <1>4, <2>3, LandOwn
  <2>5. sess \subseteq sess' /\ sess' \subseteq sess \cup batch
    BY <2>2, AbsorbedOf
  <2>6. Begun
    BY <1>w, <2>2, LandFrames
  <2>7. Kept
    BY <2>2, <2>4, LandStack, WaitingKept, OwnFacts
  <2>8. Known
    BY <1>4, <2>2, <2>4, <2>5, OwnFacts
  <2> HIDE DEF Begun, Kept, Known
  <2> QED BY <1>0, <2>2, <2>4, <2>5, <2>6, <2>7, <2>8, OwnFacts
<1>6. CASE \E batch \in Batches : Feed(batch)
  <2>1. PICK batch \in Batches : Feed(batch)
    BY <1>6
  <2>2. /\ sess' = Absorbed(sess, batch) /\ dest # "on"
        /\ UNCHANGED <<store, sent, dest, returned, stack>>
    BY <2>1 DEF Feed
  <2>3. sess' \subseteq sess \cup batch
    BY <2>2, AbsorbedOf
  <2>4. Known
    BY <1>4, <2>2, <2>3, OwnFacts
  <2>5. Begun /\ Kept
    BY <1>w, <2>2, OwnFacts DEF Waiting
  <2> HIDE DEF Begun, Kept, Known
  <2> QED BY <1>0, <2>2, <2>4, <2>5, OwnFacts
<1>7. CASE FanEnds
  <2>1. /\ stack # <<>> /\ stack' = Outer /\ Inner.kind = "fan"
        /\ UNCHANGED <<store, sess, sent, dest, returned>>
    BY <1>7 DEF FanEnds, destVars
  <2>2. \A o : Inner # Pending(o)
    BY <2>1 DEF Pending
  <2>3. \A o : Waiting(o) => Still(o)
    BY <2>1, <2>2, WaitingKept
  <2>4. Begun
    BY <1>w, <2>1, OuterFrames
  <2>5. Kept /\ Known
    BY <2>1, <2>3, OwnFacts
  <2> HIDE DEF Begun, Kept, Known
  <2> QED BY <1>0, <2>1, <2>4, <2>5, OwnFacts
<1>8. CASE \E fresh \in BOOLEAN : Remount(fresh)
  <2>1. /\ stack = <<>> /\ stack' = <<>> /\ store' = store /\ returned' = returned
        /\ dest' = "none" /\ sess' \subseteq sess /\ sent' = sent
    BY <1>8 DEF Remount, Dependable
  <2>2. Kept /\ Known /\ Begun
    BY <2>1, OwnFacts DEF Waiting
  <2> HIDE DEF Begun, Kept, Known
  <2> QED BY <1>0, <2>1, <2>2, OwnFacts
<1>9. CASE UNCHANGED <<store, destVars, returned, stack>>
  <2>1. Kept /\ Known /\ Begun
    BY <1>w, <1>9, OwnFacts DEF Waiting, destVars
  <2> HIDE DEF Begun, Kept, Known
  <2> QED BY <1>0, <1>9, <2>1, OwnFacts DEF destVars
<1>10. ASSUME \/ \E l \in Listeners : Subscribe(l) \/ Unsubscribe(l)
              \/ Tell \/ UNCHANGED vars
       PROVE  UNCHANGED <<store, destVars, returned, stack>>
  BY <1>10 DEF Subscribe, Unsubscribe, Tell, destVars, vars
<1>11. ~ AttachThrows /\ ~ WriteOffline /\ ~ WriteThrows
  BY DEF AttachThrows, WriteOffline, WriteThrows, Dependable
<1> QED BY <1>1, <1>2, <1>3, <1>5, <1>6, <1>7, <1>8, <1>9, <1>10, <1>11 DEF Next

LEMMA OwnInvariant == ASSUME Dependable PROVE Spec => []Own
<1>1. Init => Own
  BY DEF Init, Own, Distinct, Chained
<1>2. Inv /\ Own /\ [Next]_vars => Own'
  BY OwnInductive
<1> QED BY <1>1, <1>2, BooksInvariant, PTL DEF Spec

(* session.ts 68-71: a session resumes its own chain from the instance's store.   *)
(* Where the store persists, the application writes only while attached and the   *)
(* calls out of the instance do not throw, no two operations this client ever     *)
(* minted share a place in its chain, however often it was mounted anew, with     *)
(* the session it had or a fresh one, and whatever echoes the bus brought.        *)
THEOREM ChainNeverForks == Dependable => (Spec => []NoFork)
<1> SUFFICES ASSUME Dependable PROVE Spec => []NoFork
  OBVIOUS
<1>1. Own => NoFork
  BY DEF Own, NoFork
<1> QED BY <1>1, OwnInvariant, PTL

(* instance.ts 135-138: what write() returned is in the store and stays there,    *)
(* under the same conditions: an echo that landed first is the same operation.    *)
THEOREM WritesAreHeld == Dependable => (Spec => []ReturnedHeld)
<1> SUFFICES ASSUME Dependable PROVE Spec => []ReturnedHeld
  OBVIOUS
<1>1. Own => ReturnedHeld
  BY DEF Own, ReturnedHeld
<1> QED BY <1>1, OwnInvariant, PTL

-----------------------------------------------------------------------------
(* The clock of a connected write. The session numbers it above what the       *)
(* session holds, so it comes last in the store if the session holds all the   *)
(* store holds. It does when the bus brings the operations of each writer in   *)
(* order: a session drops one whose predecessors it has not seen, and the      *)
(* instance keeps it.                                                          *)

InOrder ==
  \A batch \in Batches : Deliver(batch) =>
    \A o \in batch : \A k \in 0 .. o.seq - 1 : <<o.origin, k>> \in Ids(sess \cup batch)

Shared ==
  /\ \A o \in store \cup sess : o.origin # Self => o \in RemoteOps
  /\ \A o \in store : o.origin # Self =>
       \A k \in 0 .. o.seq - 1 : <<o.origin, k>> \in Ids(store)
  /\ dest = "on" => store \subseteq sess

\* The client's operations and those of the others are told apart by identity.
LEMMA OneOfAnId ==
  ASSUME Own, NEW o, NEW p, Id(o) = Id(p),
         o \in sent \cup RemoteOps, p \in sent \cup RemoteOps
  PROVE  o = p
<1>1. o.origin = p.origin
  BY DEF Id
<1>2. \A q \in sent : q.origin = Self
  BY OwnFacts
<1> QED BY <1>1, <1>2, OwnFacts, RemoteAssumption DEF Distinct

\* Whoever holds operations, they were minted here or are the others'.
LEMMA KnownOps ==
  ASSUME Own, Shared
  PROVE  store \cup sess \subseteq sent \cup RemoteOps
BY OwnFacts DEF Shared

LEMMA SharedInductive ==
  ASSUME Dependable, Inv, SessionHeld, Own, Shared, [Next]_vars, InOrder \/ UNCHANGED vars
  PROVE  Shared'
<1>0. ASSUME \A o \in store' \cup sess' : o.origin # Self => o \in RemoteOps,
             \A o \in store' : o.origin # Self =>
               \A k \in 0 .. o.seq - 1 : <<o.origin, k>> \in Ids(store'),
             dest' = "on" => store' \subseteq sess'
      PROVE  Shared'
  BY <1>0 DEF Shared, Ids, Id
<1>a. /\ \A o \in store \cup sess : o.origin # Self => o \in RemoteOps
      /\ \A o \in store : o.origin # Self =>
           \A k \in 0 .. o.seq - 1 : <<o.origin, k>> \in Ids(store)
      /\ dest = "on" => store \subseteq sess
  BY DEF Shared
<1>1. CASE Attach
  <2>1. sess' = Absorbed(sess, store) /\ sent \subseteq sess' /\ dest' = "on"
    <3>1. {o \in store : o.wire} = store
      BY OwnFacts
    <3> QED BY <1>1, <3>1, AttachOwn DEF Attach, Hydrated
  <2>2. ASSUME NEW o \in store PROVE o \in sess'
    <3>1. CASE o.origin = Self
      BY <2>1, <3>1, OwnFacts
    <3>2. CASE o.origin # Self /\ Id(o) \in Ids(sess)
      <4>1. PICK p \in sess : Id(p) = Id(o)
        BY <3>2 DEF Ids
      <4>2. p = o
        BY <4>1, KnownOps, OneOfAnId
      <4> QED BY <2>1, <4>2, AbsorbedOf
    <3>3. CASE o.origin # Self /\ Id(o) \notin Ids(sess)
      <4>1. o \in Missing(store, sess)
        BY <3>3 DEF Missing
      <4>2. \A k \in 0 .. o.seq - 1 : <<o.origin, k>> \in Ids(sess \cup store)
        BY <1>a, <3>3, IdsOfUnion
      <4>3. o \in Absorbed(sess, store)
        BY <4>1, <4>2 DEF Absorbed
      <4> QED BY <2>1, <4>3
    <3> QED BY <3>1, <3>2, <3>3
  <2> DEFINE back == Backfill(sess', store)
  <2>3. /\ Lands(back) /\ Chained(sess') /\ back \subseteq sess'
        /\ \A o \in sess' : Id(o) \in Ids(store) \/ o \in back
    BY <1>1, AttachLands DEF Backfill, Missing
  <2> HIDE DEF back
  <2>4. store' \subseteq store \cup back /\ Ids(store') = Ids(store) \cup Ids(back)
    BY <2>3, Landed
  <2>5. store' \subseteq sess'
    BY <2>2, <2>3, <2>4
  <2>6. \A o \in sess' : o.origin # Self => o \in RemoteOps
    <3>1. sess' \subseteq sess \cup store
      BY <2>1, AbsorbedOf
    <3> QED BY <1>a, <3>1
  <2>7. Ids(sess') \subseteq Ids(store')
    BY <2>3, <2>4 DEF Ids
  <2>8. \A o \in store' : \A k \in 0 .. o.seq - 1 : <<o.origin, k>> \in Ids(store')
    <3>1. \A o \in sess' : \A k \in 0 .. o.seq - 1 : <<o.origin, k>> \in Ids(sess')
      BY <2>3 DEF Chained
    <3> QED BY <2>5, <2>7, <3>1
  <2> QED BY <1>0, <2>5, <2>6, <2>8
<1>2. CASE WriteOnline
  <2> DEFINE op == SessionMint(sess, Self, writes + 1)
  <2>1. op.origin = Self
    BY DEF SessionMint
  <2>2. sess' = sess \cup {op} /\ store' = store /\ dest' = dest
    BY <1>2 DEF WriteOnline
  <2> HIDE DEF op
  <2> QED BY <1>0, <1>a, <2>1, <2>2
<1>3. CASE WriteReturns
  <2> DEFINE op == Inner.op
  <2>1. Lands({op}) /\ sess' = sess /\ dest' = dest /\ stack # <<>> /\ Inner.kind = "write"
    BY <1>3, OneLands DEF WriteReturns, destVars
  <2>2. op \in sent /\ dest = "on"
    <3>1. Len(stack) \in DOMAIN stack /\ Inner = stack[Len(stack)]
      BY <2>1, OuterFrames
    <3> QED BY <2>1, <3>1, OwnFacts
  <2>3. op.origin = Self /\ op \in sess
    BY <2>2, OwnFacts
  <2> HIDE DEF op
  <2>4. store' \subseteq store \cup {op} /\ Ids(store') = Ids(store) \cup Ids({op})
    BY <2>1, Landed
  <2> QED BY <1>0, <1>a, <2>1, <2>2, <2>3, <2>4
<1>4. ASSUME NEW batch \in Batches
      PROVE  batch \subseteq sent \cup RemoteOps /\ \A o \in batch : o.origin # Self => o \in RemoteOps
  <2>1. batch \subseteq RemoteOps \cup sent
    BY DEF Batches, Wire
  <2> QED BY <2>1, OwnFacts
<1>5. ASSUME InOrder, \E batch \in Batches : Deliver(batch) PROVE Shared'
  <2>1. PICK batch \in Batches : Deliver(batch)
    BY <1>5
  <2>2. sess' = Absorbed(sess, batch) /\ dest = "on" /\ dest' = dest
    BY <2>1 DEF Deliver
  <2>3. \A o \in batch : \A k \in 0 .. o.seq - 1 : <<o.origin, k>> \in Ids(sess \cup batch)
    BY <1>5, <2>1 DEF InOrder
  <2>4. store' \subseteq store \cup batch /\ Ids(store') = Ids(store) \cup Ids(batch)
    BY <2>1, DeliverLands, Landed
  <2>5. ASSUME NEW o \in batch PROVE o \in sess'
    <3>1. CASE Id(o) \in Ids(sess)
      <4>1. PICK p \in sess : Id(p) = Id(o)
        BY <3>1 DEF Ids
      <4>2. p = o
        BY <1>4, <4>1, KnownOps, OneOfAnId
      <4> QED BY <2>2, <4>2, AbsorbedOf
    <3>2. CASE Id(o) \notin Ids(sess)
      BY <2>2, <2>3, <3>2 DEF Absorbed, Missing
    <3> QED BY <3>1, <3>2
  <2>6. sess \subseteq sess' /\ sess' \subseteq sess \cup batch
    BY <2>2, AbsorbedOf
  <2>7. ASSUME NEW o \in store', o.origin # Self, NEW k \in 0 .. o.seq - 1
        PROVE  <<o.origin, k>> \in Ids(store')
    <3>1. CASE o \in store
      BY <1>a, <2>4, <2>7, <3>1
    <3>2. CASE o \in batch
      <4>1. PICK p \in sess \cup batch : <<o.origin, k>> = Id(p)
        BY <2>3, <3>2 DEF Ids
      <4>2. CASE p \in batch
        BY <2>4, <4>1, <4>2 DEF Ids
      <4>3. CASE p \in sess
        <5>1. p.origin # Self
          BY <2>7, <4>1 DEF Id
        <5>2. ~ Waiting(p)
          BY <5>1, OwnFacts DEF Waiting, Pending
        <5>3. Id(p) \in Ids(store)
          BY <2>2, <4>3, <5>2 DEF SessionHeld
        <5> QED BY <2>4, <4>1, <5>3
      <4> QED BY <4>2, <4>3
    <3> QED BY <2>4, <3>1, <3>2
  <2>8. store' \subseteq sess'
    BY <1>a, <2>2, <2>4, <2>5, <2>6
  <2>9. \A o \in store' \cup sess' : o.origin # Self => o \in RemoteOps
    BY <1>a, <1>4, <2>4, <2>6
  <2> QED BY <1>0, <2>7, <2>8, <2>9
<1>6. CASE \E batch \in Batches : Feed(batch)
  <2>1. PICK batch \in Batches : Feed(batch)
    BY <1>6
  <2>2. sess' \subseteq sess \cup batch /\ dest' # "on" /\ store' = store
    BY <2>1, AbsorbedOf DEF Feed
  <2> QED BY <1>0, <1>a, <1>4, <2>2
<1>7. CASE \E fresh \in BOOLEAN : Remount(fresh)
  <2>1. store' = store /\ dest' = "none" /\ sess' \subseteq sess
    BY <1>7 DEF Remount, Dependable
  <2> QED BY <1>0, <1>a, <2>1
<1>8. ASSUME \/ \E l \in Listeners : Subscribe(l) \/ Unsubscribe(l)
             \/ Tell \/ FanEnds \/ UNCHANGED vars
      PROVE  UNCHANGED <<store, sess, dest>>
  BY <1>8 DEF Subscribe, Unsubscribe, Tell, FanEnds, destVars, vars
<1>9. ASSUME UNCHANGED <<store, sess, dest>> PROVE Shared'
  BY <1>0, <1>a, <1>9
<1>10. ~ AttachThrows /\ ~ WriteOffline /\ ~ WriteThrows
  BY DEF AttachThrows, WriteOffline, WriteThrows, Dependable
<1> QED BY <1>1, <1>2, <1>3, <1>5, <1>6, <1>7, <1>8, <1>9, <1>10 DEF Next

LEMMA MintComesLast ==
  ASSUME Dependable, Inv, Own, Shared, [Next]_vars
  PROVE  \A o \in sent' \ sent : \A p \in store : Precedes(p, o)
<1>1. CASE WriteOnline
  <2>1. store \subseteq sess
    BY <1>1, OwnFacts DEF WriteOnline, Shared
  <2>2. Top(sess) \in Nat /\ \A p \in sess : p.lamport \in Nat /\ p.lamport <= Top(sess)
    <3>1. sess \in SUBSET Op /\ IsFiniteSet(sess)
      BY InvFacts
    <3> QED BY <3>1, TopType DEF Op
  <2>3. \A o \in sent' \ sent : o.lamport = Top(sess) + 1
    BY <1>1 DEF WriteOnline, SessionMint
  <2>4. ASSUME NEW o \in sent' \ sent, NEW p \in store PROVE p.lamport < o.lamport
    BY <2>1, <2>2, <2>3
  <2> QED BY <2>4 DEF Precedes
<1>2. ASSUME ~ WriteOnline PROVE sent' = sent
  BY <1>2 DEF Next, Attach, AttachThrows, Subscribe, Unsubscribe, Tell, FanEnds, WriteOffline,
     WriteReturns, WriteThrows, Deliver, Feed, Remount, destVars, vars
<1> QED BY <1>1, <1>2

(* A connected write comes last in the fold order of everything the instance holds *)
(* when it is minted, where nothing is lost and the bus brings the operations of   *)
(* each writer in order. Where it skips one the write may come before an operation *)
(* that the user has seen.                                                         *)
THEOREM WritesComeLast ==
  Dependable => (Spec /\ [][InOrder]_vars => WritesMoveForward)
<1> SUFFICES ASSUME Dependable PROVE Spec /\ [][InOrder]_vars => WritesMoveForward
  OBVIOUS
<1>1. Init => Shared /\ SessionHeld
  BY DEF Init, Shared, SessionHeld
<1>2. Inv /\ SessionHeld /\ [Next]_vars => SessionHeld'
  BY SessionHeldInductive DEF Dependable
<1>3. Inv /\ SessionHeld /\ Own /\ Shared /\ [Next]_vars /\ [InOrder]_vars => Shared'
  BY SharedInductive
<1>4. Inv /\ Own /\ Shared /\ [Next]_vars
        => [\A o \in sent' \ sent : \A p \in store : Precedes(p, o)]_vars
  BY MintComesLast
<1> QED BY <1>1, <1>2, <1>3, <1>4, BooksInvariant, OwnInvariant, PTL DEF Spec, WritesMoveForward
=============================================================================
