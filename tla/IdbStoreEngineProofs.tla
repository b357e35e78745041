------------------------- MODULE IdbStoreEngineProofs -------------------------
(***************************************************************************)
(* Proofs about IdbStoreEngine, for any number of pages, operations,       *)
(* transactions in progress, aborts and crashes.                           *)
(***************************************************************************)
EXTENDS IdbStoreEngine, NaturalFacts

Reads == {"readRows", "readChecks"}
Writes == {"put", "checkpoint"}
Transactions == [page : Pages, kind : Reads \cup Writes \cup {"purge", "refresh"},
                 ops : SUBSET AllRows]

-----------------------------------------------------------------------------
(* The inductive invariant. *)

\* A page that is not open has nothing mounted, cached, appended or awaited; one
\* that refreshes has nothing mounted, so that it appends nothing meanwhile.
PagesAtRest ==
  \A p \in Pages :
    /\ phase[p] # "open" => /\ ~ mounted[p] /\ ~ cached[p]
                            /\ mine[p] = {} /\ waiting[p] = "no"
    /\ waiting[p] = "refresh" => ~ mounted[p]

\* A page that loads has its one read in progress and nothing else; the others
\* have none.
QueueByPhase ==
  \A i \in DOMAIN queue :
    phase[queue[i].page] = IF queue[i].kind \in Reads THEN "loading" ELSE "open"

OneRead ==
  \A i, j \in DOMAIN queue :
    queue[i].kind \in Reads /\ queue[j].kind \in Reads /\ queue[i].page = queue[j].page => i = j

OneRefresh ==
  \A i, j \in DOMAIN queue :
    queue[i].kind = "refresh" /\ queue[j].kind = "refresh" /\ queue[i].page = queue[j].page => i = j

\* A page reads anew only after its writes have ended well, and waits for it.
RefreshSettled ==
  \A i \in DOMAIN queue :
    queue[i].kind = "refresh" =>
      /\ queue[i].ops = {} /\ waiting[queue[i].page] = "refresh"
      /\ ~ failed[queue[i].page]
      /\ \A j \in DOMAIN queue : queue[j].page = queue[i].page => queue[j].kind \notin Writes

\* What a page without a failure appended is committed or on its way.
MineOnItsWay ==
  \A p \in Pages : ~ failed[p] =>
    \A o \in mine[p] : o \in rows \/ \E i \in Pending(p) : o \in queue[i].ops

QueueInv == QueueByPhase /\ OneRead /\ OneRefresh /\ RefreshSettled

Inv ==
  /\ TypeOK /\ PagesAtRest /\ QueueInv /\ MineOnItsWay
  /\ CheckpointCovered /\ AckedDurable /\ NothingForgotten
-----------------------------------------------------------------------------
(* What the operations on the queue leave of it. *)

\* q2 holds the transactions of q but those at the positions `gone`, a read
\* perhaps in its second part, and no other.
Remains(q2, q, gone) ==
  \E at \in [DOMAIN q2 -> DOMAIN q \ gone] :
    /\ \A n \in DOMAIN q2 :
         \/ q2[n] = q[at[n]]
         \/ q2[n].kind \in Reads /\ q[at[n]].kind \in Reads /\ q2[n].page = q[at[n]].page
    /\ \A m, n \in DOMAIN q2 : at[m] = at[n] => m = n
    /\ \A i \in DOMAIN q \ gone : \E n \in DOMAIN q2 : at[n] = i

LEMMA NothingGone ==
  ASSUME NEW q
  PROVE  Remains(q, q, {})
<1> DEFINE at == [n \in DOMAIN q |-> n]
<1>1. at \in [DOMAIN q -> DOMAIN q \ {}]
  OBVIOUS
<1> QED BY <1>1 DEF Remains

LEMMA HeadGone ==
  ASSUME NEW T, NEW q \in Seq(T), q # <<>>
  PROVE  /\ 1 \in DOMAIN q /\ Head(q) = q[1] /\ Head(q) \in T
         /\ Tail(q) \in Seq(T)
         /\ Remains(Tail(q), q, {1})
<1>1. /\ 1 \in DOMAIN q /\ Head(q) = q[1] /\ Head(q) \in T /\ Tail(q) \in Seq(T)
      /\ Len(q) \in Nat /\ DOMAIN q = 1 .. Len(q) /\ DOMAIN Tail(q) = 1 .. Len(q) - 1
      /\ \A n \in DOMAIN Tail(q) : Tail(q)[n] = q[n + 1]
  OBVIOUS
<1> DEFINE at == [n \in DOMAIN Tail(q) |-> n + 1]
<1>2. at \in [DOMAIN Tail(q) -> DOMAIN q \ {1}]
  BY <1>1
<1>3. \A i \in DOMAIN q \ {1} : i - 1 \in DOMAIN Tail(q) /\ at[i - 1] = i
  BY <1>1
<1>4. \A m, n \in DOMAIN Tail(q) : at[m] = at[n] => m = n
  BY <1>1
<1>5. \A n \in DOMAIN Tail(q) : Tail(q)[n] = q[at[n]]
  BY <1>1
<1> HIDE DEF at
<1> QED BY <1>1, <1>2, <1>3, <1>4, <1>5 DEF Remains

\* The first transaction goes on as another read of its page, behind the others.
LEMMA HeadLast ==
  ASSUME NEW T, NEW q \in Seq(T), q # <<>>, NEW tx \in T,
         q[1].kind \in Reads, tx.kind \in Reads, tx.page = q[1].page
  PROVE  /\ Append(Tail(q), tx) \in Seq(T)
         /\ Remains(Append(Tail(q), tx), q, {})
<1> DEFINE q2 == Append(Tail(q), tx)
<1>1. /\ q2 \in Seq(T) /\ Len(q) \in Nat \ {0} /\ DOMAIN q = 1 .. Len(q)
      /\ DOMAIN q2 = 1 .. Len(q) /\ q2[Len(q)] = tx
      /\ \A n \in DOMAIN q2 : n # Len(q) => q2[n] = q[n + 1]
  OBVIOUS
<1> DEFINE at == [n \in DOMAIN q2 |-> IF n = Len(q) THEN 1 ELSE n + 1]
<1> HIDE DEF q2
<1>2. at \in [DOMAIN q2 -> DOMAIN q \ {}]
  BY <1>1
<1>3. \A i \in DOMAIN q \ {} : \E n \in DOMAIN q2 : at[n] = i
  <2>1. SUFFICES ASSUME NEW i \in DOMAIN q PROVE \E n \in DOMAIN q2 : at[n] = i
    OBVIOUS
  <2>2. CASE i = 1
    BY <1>1, <2>2
  <2>3. CASE i # 1
    <3>1. i - 1 \in DOMAIN q2 /\ at[i - 1] = i
      BY <1>1, <2>3
    <3> QED BY <3>1
  <2> QED BY <2>2, <2>3
<1>4. \A m, n \in DOMAIN q2 : at[m] = at[n] => m = n
  BY <1>1
<1>5. \A n \in DOMAIN q2 :
        \/ q2[n] = q[at[n]]
        \/ q2[n].kind \in Reads /\ q[at[n]].kind \in Reads /\ q2[n].page = q[at[n]].page
  BY <1>1
<1> HIDE DEF at
<1> QED BY <1>1, <1>2, <1>3, <1>4, <1>5 DEF Remains, q2

LEMMA Concatenation ==
  ASSUME NEW T, NEW a \in Seq(T), NEW b \in Seq(T)
  PROVE  /\ a \o b \in Seq(T) /\ Len(a) \in Nat /\ Len(b) \in Nat
         /\ Len(a \o b) = Len(a) + Len(b) /\ DOMAIN (a \o b) = 1 .. Len(a) + Len(b)
         /\ \A n \in 1 .. Len(a) + Len(b) :
              (a \o b)[n] = IF n <= Len(a) THEN a[n] ELSE b[n - Len(a)]
OBVIOUS

LEMMA OneGone ==
  ASSUME NEW T, NEW q \in Seq(T), NEW i \in DOMAIN q
  PROVE  /\ RemoveAt(q, i) \in Seq(T)
         /\ Remains(RemoveAt(q, i), q, {i})
<1> DEFINE q2 == RemoveAt(q, i)
<1>1. /\ Len(q) \in Nat \ {0} /\ DOMAIN q = 1 .. Len(q) /\ i \in 1 .. Len(q)
      /\ SubSeq(q, 1, i - 1) \in Seq(T) /\ SubSeq(q, i + 1, Len(q)) \in Seq(T)
      /\ Len(SubSeq(q, 1, i - 1)) = i - 1 /\ Len(SubSeq(q, i + 1, Len(q))) = Len(q) - i
      /\ \A n \in 1 .. i - 1 : SubSeq(q, 1, i - 1)[n] = q[n]
      /\ \A n \in 1 .. Len(q) - i : SubSeq(q, i + 1, Len(q))[n] = q[n + i]
  OBVIOUS
<1>2. /\ q2 \in Seq(T) /\ DOMAIN q2 = 1 .. Len(q) - 1
      /\ \A n \in DOMAIN q2 : q2[n] = q[IF n < i THEN n ELSE n + 1]
  <2> DEFINE a == SubSeq(q, 1, i - 1)
             b == SubSeq(q, i + 1, Len(q))
  <2>1. q2 = a \o b
    BY DEF RemoveAt
  <2> HIDE DEF a, b, q2
  <2>2. /\ a \in Seq(T) /\ b \in Seq(T) /\ Len(a) = i - 1 /\ Len(b) = Len(q) - i
        /\ \A n \in 1 .. i - 1 : a[n] = q[n]
        /\ \A n \in 1 .. Len(q) - i : b[n] = q[n + i]
    BY <1>1 DEF a, b
  <2>3. /\ q2 \in Seq(T) /\ DOMAIN q2 = 1 .. Len(a) + Len(b)
        /\ \A n \in 1 .. Len(a) + Len(b) : q2[n] = IF n <= Len(a) THEN a[n] ELSE b[n - Len(a)]
    BY <2>1, <2>2, Concatenation
  <2>4. Len(a) + Len(b) = Len(q) - 1 /\ i \in Nat /\ Len(q) \in Nat
    BY <1>1, <2>2
  <2>5. ASSUME NEW n \in 1 .. Len(q) - 1
        PROVE  q2[n] = q[IF n < i THEN n ELSE n + 1]
    <3>1. CASE n < i
      <4>1. n \in 1 .. i - 1 /\ n <= i - 1 /\ n \in 1 .. Len(q) - 1
        BY <2>4, <3>1
      <4>2. q2[n] = a[n]
        BY <2>2, <2>3, <2>4, <4>1
      <4> QED BY <2>2, <3>1, <4>1, <4>2
    <3>2. CASE ~ (n < i)
      <4>1. n - (i - 1) \in 1 .. Len(q) - i /\ (n - (i - 1)) + i = n + 1 /\ ~ (n <= i - 1)
        BY <2>4, <3>2
      <4>2. q2[n] = b[n - (i - 1)]
        BY <2>2, <2>3, <2>4, <4>1
      <4> QED BY <2>2, <3>2, <4>1, <4>2
    <3> QED BY <3>1, <3>2
  <2> QED BY <2>3, <2>4, <2>5
<1> DEFINE at == [n \in DOMAIN q2 |-> IF n < i THEN n ELSE n + 1]
<1> HIDE DEF q2
<1>3. at \in [DOMAIN q2 -> DOMAIN q \ {i}]
  BY <1>1, <1>2
<1>4. \A k \in DOMAIN q \ {i} : \E n \in DOMAIN q2 : at[n] = k
  <2>1. SUFFICES ASSUME NEW k \in DOMAIN q \ {i} PROVE \E n \in DOMAIN q2 : at[n] = k
    OBVIOUS
  <2>2. CASE k < i
    <3>1. k \in DOMAIN q2 /\ at[k] = k
      BY <1>1, <1>2, <2>2
    <3> QED BY <3>1
  <2>3. CASE k > i
    <3>1. k - 1 \in DOMAIN q2 /\ at[k - 1] = k
      BY <1>1, <1>2, <2>3
    <3> QED BY <3>1
  <2> QED BY <1>1, <2>2, <2>3
<1>5. \A m, n \in DOMAIN q2 : at[m] = at[n] => m = n
  BY <1>1, <1>2
<1>6. \A n \in DOMAIN q2 : q2[n] = q[at[n]]
  BY <1>2
<1> HIDE DEF at
<1> QED BY <1>2, <1>3, <1>4, <1>5, <1>6 DEF Remains, q2

\* What is left when a page goes away.
LEMMA PageGone ==
  ASSUME NEW T, queue \in Seq(T), NEW p
  PROVE  /\ Without(p) \in Seq(T)
         /\ Remains(Without(p), queue, {i \in DOMAIN queue : queue[i].page = p})
<1> DEFINE K == {i \in DOMAIN queue : queue[i].page # p}
           size == Cardinality(K)
           at == [n \in 1 .. size |-> CHOOSE i \in K : Cardinality({j \in K : j <= i}) = n]
<1>1. K \in SUBSET Nat /\ IsFiniteSet(K)
  <2>1. DOMAIN queue = 1 .. Len(queue) /\ Len(queue) \in Nat
    OBVIOUS
  <2>2. IsFiniteSet(DOMAIN queue)
    BY <2>1, FS_Interval
  <2> QED BY <2>1, <2>2, FS_Subset
<1>2. Without(p) = [n \in 1 .. size |-> queue[at[n]]]
  BY DEF Without
<1> HIDE DEF K
<1>3. /\ size \in Nat
      /\ \A i, k \in K :
           Cardinality({j \in K : j <= i}) = Cardinality({j \in K : j <= k}) => i = k
      /\ \A i \in K : Cardinality({j \in K : j <= i}) \in 1 .. size
      /\ \A n \in 1 .. size : \E i \in K : Cardinality({j \in K : j <= i}) = n
  BY <1>1, CountedOut
<1>4. \A n \in 1 .. size : at[n] \in K /\ Cardinality({j \in K : j <= at[n]}) = n
  BY <1>3
<1>5. \A i \in K : \E n \in 1 .. size : at[n] = i
  <2>1. SUFFICES ASSUME NEW i \in K PROVE \E n \in 1 .. size : at[n] = i
    OBVIOUS
  <2> DEFINE n == Cardinality({j \in K : j <= i})
  <2>2. n \in 1 .. size
    BY <1>3
  <2>3. at[n] = i
    BY <1>3, <1>4, <2>2
  <2> QED BY <2>2, <2>3
<1> HIDE DEF at, size
<1>6. \A m, n \in 1 .. size : at[m] = at[n] => m = n
  BY <1>4
<1>7. at \in [1 .. size -> K]
  BY <1>4 DEF at
<1>8. K = DOMAIN queue \ {i \in DOMAIN queue : queue[i].page = p}
  BY DEF K
<1>9. Without(p) \in Seq(T) /\ DOMAIN Without(p) = 1 .. size
  <2>1. \A n \in 1 .. size : queue[at[n]] \in T
    BY <1>7 DEF K
  <2> QED BY <1>2, <1>3, <2>1
<1> QED BY <1>2, <1>5, <1>6, <1>7, <1>8, <1>9 DEF Remains
-----------------------------------------------------------------------------
(* The queue part of the invariant, for a queue that shrinks and one that grows. *)

LEMMA QueueKept ==
  ASSUME Inv, NEW gone, Remains(queue', queue, gone),
         \A i \in DOMAIN queue \ gone :
           /\ phase'[queue[i].page] = phase[queue[i].page]
           /\ queue[i].kind = "refresh" =>
                /\ waiting'[queue[i].page] = waiting[queue[i].page]
                /\ failed'[queue[i].page] = failed[queue[i].page]
  PROVE  QueueInv'
<1>1. PICK at \in [DOMAIN queue' -> DOMAIN queue \ gone] :
        /\ \A n \in DOMAIN queue' :
             \/ queue'[n] = queue[at[n]]
             \/ /\ queue'[n].kind \in Reads /\ queue[at[n]].kind \in Reads
                /\ queue'[n].page = queue[at[n]].page
        /\ \A m, n \in DOMAIN queue' : at[m] = at[n] => m = n
  BY DEF Remains
<1>2. \A n \in DOMAIN queue' :
        /\ at[n] \in DOMAIN queue \ gone
        /\ queue'[n].page = queue[at[n]].page
        /\ queue'[n].kind \in Reads <=> queue[at[n]].kind \in Reads
        /\ queue'[n].kind \notin Reads => queue'[n] = queue[at[n]]
  BY <1>1
<1>3. QueueByPhase'
  BY <1>2 DEF Inv, QueueInv, QueueByPhase
<1>4. OneRead'
  BY <1>1, <1>2 DEF Inv, QueueInv, OneRead
<1>5. OneRefresh'
  BY <1>1, <1>2 DEF Inv, QueueInv, OneRefresh, Reads
<1>6. RefreshSettled'
  <2>1. SUFFICES ASSUME NEW n \in DOMAIN queue', queue'[n].kind = "refresh"
                 PROVE  /\ queue'[n].ops = {} /\ waiting'[queue'[n].page] = "refresh"
                        /\ ~ failed'[queue'[n].page]
                        /\ \A m \in DOMAIN queue' :
                             queue'[m].page = queue'[n].page => queue'[m].kind \notin Writes
    BY DEF RefreshSettled
  <2>2. at[n] \in DOMAIN queue \ gone /\ queue'[n] = queue[at[n]] /\ queue[at[n]].kind = "refresh"
    BY <1>2, <2>1 DEF Reads
  <2>3. /\ queue[at[n]].ops = {} /\ waiting[queue[at[n]].page] = "refresh"
        /\ ~ failed[queue[at[n]].page]
        /\ \A j \in DOMAIN queue : queue[j].page = queue[at[n]].page => queue[j].kind \notin Writes
    BY <2>2 DEF Inv, QueueInv, RefreshSettled
  <2>4. ASSUME NEW m \in DOMAIN queue', queue'[m].page = queue'[n].page, queue'[m].kind \in Writes
        PROVE  FALSE
    <3>1. queue'[m] = queue[at[m]] /\ at[m] \in DOMAIN queue
      BY <1>2, <2>4 DEF Reads, Writes
    <3> QED BY <2>2, <2>3, <2>4, <3>1
  <2> QED BY <2>2, <2>3, <2>4
<1> QED BY <1>3, <1>4, <1>5, <1>6 DEF QueueInv

LEMMA Appended ==
  ASSUME queue \in Seq(Transactions), NEW tx \in Transactions, queue' = Append(queue, tx)
  PROVE  /\ queue' \in Seq(Transactions)
         /\ DOMAIN queue' = DOMAIN queue \cup {Len(queue) + 1}
         /\ Len(queue) + 1 \notin DOMAIN queue
         /\ queue'[Len(queue) + 1] = tx
         /\ \A i \in DOMAIN queue : queue'[i] = queue[i]
<1> HIDE DEF Transactions
<1> QED OBVIOUS

LEMMA QueueGrown ==
  ASSUME Inv, queue \in Seq(Transactions), NEW tx \in Transactions, queue' = Append(queue, tx),
         phase'[tx.page] = (IF tx.kind \in Reads THEN "loading" ELSE "open"),
         \A i \in DOMAIN queue :
           /\ phase'[queue[i].page] = phase[queue[i].page]
           /\ queue[i].kind = "refresh" =>
                /\ waiting'[queue[i].page] = waiting[queue[i].page]
                /\ failed'[queue[i].page] = failed[queue[i].page]
           /\ tx.kind \in Reads => ~ (queue[i].kind \in Reads /\ queue[i].page = tx.page)
           /\ tx.kind \in Writes \cup {"refresh"} =>
                ~ (queue[i].kind = "refresh" /\ queue[i].page = tx.page),
         tx.kind = "refresh" =>
           /\ tx.ops = {} /\ waiting'[tx.page] = "refresh"
           /\ ~ failed'[tx.page] /\ Pending(tx.page) = {}
  PROVE  QueueInv'
<1> DEFINE last == Len(queue) + 1
<1>1. /\ DOMAIN queue' = DOMAIN queue \cup {last} /\ last \notin DOMAIN queue
      /\ queue'[last] = tx /\ \A i \in DOMAIN queue : queue'[i] = queue[i]
  BY Appended
<1> HIDE DEF last
<1>2. QueueByPhase'
  BY <1>1 DEF Inv, QueueInv, QueueByPhase
<1>3. OneRead'
  BY <1>1 DEF Inv, QueueInv, OneRead
<1>4. OneRefresh'
  BY <1>1 DEF Inv, QueueInv, OneRefresh
<1>5. RefreshSettled'
  <2>1. SUFFICES ASSUME NEW n \in DOMAIN queue', queue'[n].kind = "refresh"
                 PROVE  /\ queue'[n].ops = {} /\ waiting'[queue'[n].page] = "refresh"
                        /\ ~ failed'[queue'[n].page]
                        /\ \A m \in DOMAIN queue' :
                             queue'[m].page = queue'[n].page => queue'[m].kind \notin Writes
    BY DEF RefreshSettled
  <2>2. /\ queue'[n].ops = {} /\ waiting'[queue'[n].page] = "refresh"
        /\ ~ failed'[queue'[n].page]
        /\ \A j \in DOMAIN queue : queue[j].page = queue'[n].page => queue[j].kind \notin Writes
    <3>1. CASE n \in DOMAIN queue
      BY <1>1, <2>1, <3>1 DEF Inv, QueueInv, RefreshSettled
    <3>2. CASE n = last
      BY <1>1, <2>1, <3>2 DEF Pending, Writes
    <3> QED BY <1>1, <3>1, <3>2
  <2>3. ASSUME NEW m \in DOMAIN queue', queue'[m].page = queue'[n].page, queue'[m].kind \in Writes
        PROVE  FALSE
    <3>1. CASE m \in DOMAIN queue
      BY <1>1, <2>2, <2>3, <3>1
    <3>2. CASE m = last
      BY <1>1, <2>1, <2>3, <3>2 DEF Writes
    <3> QED BY <1>1, <3>1, <3>2
  <2> QED BY <2>2, <2>3
<1> QED BY <1>2, <1>3, <1>4, <1>5 DEF QueueInv

\* An operation on its way stays so while the transaction that has it remains.
LEMMA StillOnItsWay ==
  ASSUME NEW gone, Remains(queue', queue, gone), NEW p, NEW o,
         NEW i \in Pending(p), i \notin gone, o \in queue[i].ops
  PROVE  \E n \in Pending(p)' : o \in queue'[n].ops
<1>1. PICK n \in DOMAIN queue' : queue'[n] = queue[i]
  BY DEF Remains, Pending, Reads
<1> QED BY <1>1 DEF Pending

LEMMA StillOnItsWayBehind ==
  ASSUME queue \in Seq(Transactions), NEW tx \in Transactions, queue' = Append(queue, tx),
         NEW p, NEW o,
         \/ \E i \in Pending(p) : o \in queue[i].ops
         \/ tx.page = p /\ tx.kind \in Writes /\ o \in tx.ops
  PROVE  \E n \in Pending(p)' : o \in queue'[n].ops
BY Appended DEF Pending, Writes

\* What no failed page appended is still on its way or a row when transactions end.
LEMMA MineKept ==
  ASSUME Inv, NEW gone, Remains(queue', queue, gone),
         \A q \in Pages : ~ failed'[q] =>
           /\ mine'[q] = {} \/ (~ failed[q] /\ mine'[q] \subseteq mine[q])
           /\ \A i \in Pending(q) : i \in gone => queue[i].ops \cap mine'[q] \subseteq rows'
           /\ rows \cap mine'[q] \subseteq rows'
  PROVE  MineOnItsWay'
<1>1. SUFFICES ASSUME NEW q \in Pages, ~ failed'[q], NEW o \in mine'[q]
               PROVE  o \in rows' \/ \E i \in Pending(q)' : o \in queue'[i].ops
  BY DEF MineOnItsWay
<1>2. /\ ~ failed[q] /\ o \in mine[q]
      /\ \A i \in Pending(q) : i \in gone => queue[i].ops \cap mine'[q] \subseteq rows'
      /\ rows \cap mine'[q] \subseteq rows'
  BY <1>1
<1>3. CASE o \in rows
  BY <1>1, <1>2, <1>3
<1>4. CASE o \notin rows
  <2>1. PICK i \in Pending(q) : o \in queue[i].ops
    BY <1>2, <1>4 DEF Inv, MineOnItsWay
  <2>2. CASE i \in gone
    BY <1>1, <1>2, <2>1, <2>2
  <2>3. CASE i \notin gone
    BY <2>1, <2>3, StillOnItsWay
  <2> QED BY <2>2, <2>3
<1> QED BY <1>3, <1>4

\* The same when one begins.
LEMMA MineGrown ==
  ASSUME Inv, queue \in Seq(Transactions), NEW tx \in Transactions, queue' = Append(queue, tx),
         rows' = rows,
         \A q \in Pages : ~ failed'[q] =>
           /\ ~ failed[q]
           /\ mine'[q] \subseteq mine[q] \cup (IF tx.page = q /\ tx.kind \in Writes THEN tx.ops ELSE {})
  PROVE  MineOnItsWay'
<1>1. SUFFICES ASSUME NEW q \in Pages, ~ failed'[q], NEW o \in mine'[q]
               PROVE  o \in rows' \/ \E i \in Pending(q)' : o \in queue'[i].ops
  BY DEF MineOnItsWay
<1>2. ~ failed[q] /\ (o \in mine[q] \/ (tx.page = q /\ tx.kind \in Writes /\ o \in tx.ops))
  BY <1>1
<1>3. \/ o \in rows \/ \E i \in Pending(q) : o \in queue[i].ops
      \/ tx.page = q /\ tx.kind \in Writes /\ o \in tx.ops
  BY <1>2 DEF Inv, MineOnItsWay
<1>4. CASE o \in rows
  BY <1>4
<1>5. CASE o \notin rows
  BY <1>3, <1>5, StillOnItsWayBehind
<1> QED BY <1>4, <1>5

LEMMA QueueType ==
  ASSUME TypeOK
  PROVE  /\ queue \in Seq(Transactions)
         /\ \A i \in DOMAIN queue : queue[i] \in Transactions /\ queue[i].page \in Pages
<1>1. queue \in Seq(Transactions)
  BY DEF TypeOK, Transactions, Reads, Writes
<1>2. \A i \in DOMAIN queue : queue[i] \in Transactions
  <2> HIDE DEF Transactions
  <2> QED BY <1>1
<1> QED BY <1>1, <1>2 DEF Transactions
-----------------------------------------------------------------------------
(* Each step keeps the invariant. *)

\* The calls of a page that make no transaction.
LEMMA CallStep ==
  ASSUME Inv, NEW p \in Pages, Mount(p) \/ Flush(p) \/ Refresh(p) \/ CloseConnection(p)
  PROVE  Inv'
<1>1. TypeOK'
  <2>1. /\ mounted' \in [Pages -> BOOLEAN] /\ closing' \in [Pages -> BOOLEAN]
        /\ cached' \in [Pages -> BOOLEAN] /\ uses' \in [Pages -> Nat]
        /\ waiting' \in [Pages -> {"no", "flush", "refresh"}]
    <3> USE DEF Inv, TypeOK
    <3>1. CASE Mount(p)
      BY <3>1 DEF Mount
    <3>2. CASE Flush(p)
      BY <3>2 DEF Flush, pageVars
    <3>3. CASE Refresh(p)
      BY <3>3 DEF Refresh, pageVars
    <3>4. CASE CloseConnection(p)
      BY <3>4 DEF CloseConnection
    <3> QED BY <3>1, <3>2, <3>3, <3>4
  <2>2. UNCHANGED <<rows, check, queue, phase, cache, loaded, failed, mine, acked, purged>>
    BY DEF Mount, Flush, Refresh, CloseConnection, pageVars
  <2> QED BY <2>1, <2>2 DEF Inv, TypeOK
<1>2. PagesAtRest'
  BY DEF Inv, TypeOK, PagesAtRest, Mount, Flush, Refresh, CloseConnection, pageVars
<1>3. QueueInv'
  <2>1. Remains(queue', queue, {})
    BY NothingGone DEF Mount, Flush, Refresh, CloseConnection
  <2>2. \A i \in DOMAIN queue : queue[i].kind = "refresh" => waiting[queue[i].page] = "refresh"
    BY DEF Inv, QueueInv, RefreshSettled
  <2>3. \A i \in DOMAIN queue : queue[i].page \in Pages
    BY QueueType DEF Inv
  <2>4. /\ phase' = phase /\ failed' = failed
        /\ \A q \in Pages : waiting[q] = "refresh" => waiting'[q] = waiting[q]
    BY DEF Inv, TypeOK, Mount, Flush, Refresh, CloseConnection, pageVars
  <2>5. \A i \in DOMAIN queue \ {} :
          /\ phase'[queue[i].page] = phase[queue[i].page]
          /\ queue[i].kind = "refresh" =>
               /\ waiting'[queue[i].page] = waiting[queue[i].page]
               /\ failed'[queue[i].page] = failed[queue[i].page]
    BY <2>2, <2>3, <2>4
  <2> QED BY <2>1, <2>5, QueueKept
<1>4. MineOnItsWay' /\ CheckpointCovered' /\ AckedDurable' /\ NothingForgotten'
  BY DEF Inv, MineOnItsWay, Pending, CheckpointCovered, AckedDurable, NothingForgotten,
         Mount, Flush, Refresh, CloseConnection, pageVars
<1> QED BY <1>1, <1>2, <1>3, <1>4 DEF Inv

LEMMA OpenStep ==
  ASSUME Inv, NEW p \in Pages, Open(p)
  PROVE  Inv'
<1> DEFINE tx == Tx(p, "readRows", {})
<1>0. tx \in Transactions /\ queue' = Append(queue, tx) /\ queue \in Seq(Transactions)
  BY QueueType DEF Inv, Open, Enqueued, Tx, Transactions, Reads
<1>1. TypeOK'
  <2>1. queue' \in Seq(Transactions)
    BY <1>0, Appended
  <2> QED BY <2>1 DEF Inv, TypeOK, Open, Transactions, Reads, Writes
<1>2. PagesAtRest'
  BY DEF Inv, TypeOK, PagesAtRest, Open
<1>3. QueueInv'
  <2>1. \A i \in DOMAIN queue : queue[i].page # p
    BY DEF Inv, QueueInv, QueueByPhase, Open
  <2>2. phase' = [phase EXCEPT ![p] = "loading"] /\ UNCHANGED <<waiting, failed>>
    BY DEF Open
  <2>3. tx.page = p /\ tx.kind = "readRows"
    BY DEF Tx
  <2>4. phase'[p] = "loading" /\ \A q \in Pages : q # p => phase'[q] = phase[q]
    BY <2>2 DEF Inv, TypeOK
  <2>5. \A i \in DOMAIN queue : queue[i].page \in Pages
    BY QueueType DEF Inv
  <2> HIDE DEF tx
  <2> QED BY <1>0, <2>1, <2>2, <2>3, <2>4, <2>5, QueueGrown DEF Reads, Writes
<1>4. MineOnItsWay'
  BY <1>0, MineGrown DEF Open
<1>5. CheckpointCovered' /\ AckedDurable' /\ NothingForgotten'
  BY DEF Inv, TypeOK, CheckpointCovered, AckedDurable, NothingForgotten, Open
<1> QED BY <1>1, <1>2, <1>3, <1>4, <1>5 DEF Inv

\* A write made through: its transaction is made, or refused and noted.
LEMMA WriteThrough ==
  ASSUME Inv, NEW p \in Pages, mounted[p],
         NEW tx \in Transactions, tx.page = p, tx.kind \in Writes,
         queue' = IF closing[p] THEN queue ELSE Append(queue, tx),
         failed' = [failed EXCEPT ![p] = @ \/ closing[p]],
         UNCHANGED <<phase, waiting, rows>>,
         \A q \in Pages : mine'[q] \subseteq IF q = p THEN mine[q] \cup tx.ops ELSE mine[q]
  PROVE  QueueInv' /\ MineOnItsWay' /\ queue' \in Seq(Transactions)
<1>1. /\ queue \in Seq(Transactions) /\ \A i \in DOMAIN queue : queue[i].page \in Pages
      /\ phase[p] = "open" /\ closing[p] \in BOOLEAN
  BY QueueType DEF Inv, PagesAtRest, TypeOK
<1>2. \A i \in DOMAIN queue : ~ (queue[i].kind = "refresh" /\ queue[i].page = p)
  BY DEF Inv, PagesAtRest, QueueInv, RefreshSettled
<1>3. \A q \in Pages : failed'[q] = IF q = p THEN failed[q] \/ closing[q] ELSE failed[q]
  BY DEF Inv, TypeOK
<1>4. \A i \in DOMAIN queue : queue[i].kind = "refresh" =>
        failed'[queue[i].page] = failed[queue[i].page]
  BY <1>1, <1>2, <1>3
<1>5. CASE closing[p]
  <2>1. queue' = queue
    BY <1>5
  <2>2. Remains(queue', queue, {})
    BY <2>1, NothingGone
  <2>3. QueueInv'
    BY <1>4, <2>2, QueueKept
  <2>4. MineOnItsWay'
    <3>1. Remains(queue', queue, {})
      BY <2>1, NothingGone
    <3>2. \A q \in Pages : ~ failed'[q] => ~ failed[q] /\ mine'[q] \subseteq mine[q]
      BY <1>3, <1>5
    <3> QED BY <3>1, <3>2, MineKept
  <2> QED BY <1>1, <2>1, <2>3, <2>4
<1>6. CASE ~ closing[p]
  <2>1. queue' = Append(queue, tx)
    BY <1>6
  <2>2. QueueInv'
    BY <1>1, <1>2, <1>4, <2>1, QueueGrown DEF Reads, Writes
  <2>3. queue' \in Seq(Transactions)
    BY <1>1, <2>1, Appended
  <2>4. MineOnItsWay'
    <3>1. \A q \in Pages : ~ failed'[q] =>
            /\ ~ failed[q]
            /\ mine'[q] \subseteq mine[q] \cup (IF tx.page = q /\ tx.kind \in Writes THEN tx.ops ELSE {})
      BY <1>3
    <3> QED BY <1>1, <2>1, <3>1, MineGrown
  <2> QED BY <2>2, <2>3, <2>4
<1> QED BY <1>5, <1>6

LEMMA AppendStep ==
  ASSUME Inv, NEW p \in Pages, NEW o \in Rows[p], AppendRow(p, o)
  PROVE  Inv'
<1> DEFINE tx == Tx(p, "put", {o})
<1>0. /\ tx \in Transactions /\ tx.page = p /\ tx.kind = "put" /\ tx.ops = {o} /\ o \in AllRows
      /\ queue' = IF closing[p] THEN queue ELSE Append(queue, tx)
  BY DEF AppendRow, Enqueued, Tx, Transactions, Writes, AllRows
<1>1. /\ mine' = [mine EXCEPT ![p] = @ \cup {o}]
      /\ cache' = [cache EXCEPT ![p] = @ \cup {o}]
      /\ failed' = [failed EXCEPT ![p] = @ \/ closing[p]]
      /\ mounted[p] /\ purged' = FALSE
      /\ UNCHANGED <<rows, check, phase, mounted, closing, cached, uses, loaded, waiting, acked>>
  BY DEF AppendRow, pageVars
<1> HIDE DEF tx
<1>2. \A q \in Pages : mine'[q] \subseteq IF q = p THEN mine[q] \cup tx.ops ELSE mine[q]
  BY <1>0, <1>1 DEF Inv, TypeOK
<1>3. QueueInv' /\ MineOnItsWay' /\ queue' \in Seq(Transactions)
  BY <1>0, <1>1, <1>2, WriteThrough DEF Writes
<1>4. TypeOK'
  BY <1>0, <1>1, <1>3 DEF Inv, TypeOK, Transactions, Reads, Writes
<1>5. PagesAtRest' /\ CheckpointCovered' /\ AckedDurable' /\ NothingForgotten'
  BY <1>1 DEF Inv, TypeOK, PagesAtRest, CheckpointCovered, AckedDurable, NothingForgotten
<1> QED BY <1>3, <1>4, <1>5 DEF Inv

LEMMA SaveStep ==
  ASSUME Inv, NEW p \in Pages, SaveCheckpoint(p) \/ Unmount(p)
  PROVE  Inv'
<1> DEFINE tx == Tx(p, "checkpoint", cache[p])
<1>0. /\ tx \in Transactions /\ tx.page = p /\ tx.kind = "checkpoint" /\ tx.ops = cache[p]
      /\ queue' = IF closing[p] THEN queue ELSE Append(queue, tx)
  BY DEF Inv, TypeOK, SaveCheckpoint, Unmount, Save, Enqueued, Tx, Transactions, Writes
<1>1. /\ failed' = [failed EXCEPT ![p] = @ \/ closing[p]]
      /\ loaded' = [loaded EXCEPT ![p] = Checkpoint(cache[p])]
      /\ mounted[p]
      /\ mounted' = mounted \/ mounted' = [mounted EXCEPT ![p] = FALSE]
      /\ UNCHANGED <<rows, check, phase, closing, cached, uses, cache, waiting, mine, acked, purged>>
  BY DEF SaveCheckpoint, Unmount, Save, pageVars
<1> HIDE DEF tx
<1>2. QueueInv' /\ MineOnItsWay' /\ queue' \in Seq(Transactions)
  BY <1>0, <1>1, WriteThrough DEF Writes
<1>3. TypeOK'
  <2>1. Checkpoint(cache[p]) \in [saved : BOOLEAN, ops : SUBSET AllRows]
    BY DEF Inv, TypeOK, Checkpoint
  <2>2. /\ failed' \in [Pages -> BOOLEAN] /\ mounted' \in [Pages -> BOOLEAN]
        /\ loaded' \in [Pages -> [saved : BOOLEAN, ops : SUBSET AllRows]]
    BY <1>1, <2>1 DEF Inv, TypeOK
  <2> QED BY <1>1, <1>2, <2>2 DEF Inv, TypeOK, Transactions, Reads, Writes
<1>4. PagesAtRest' /\ CheckpointCovered' /\ AckedDurable' /\ NothingForgotten'
  BY <1>1 DEF Inv, TypeOK, PagesAtRest, CheckpointCovered, AckedDurable, NothingForgotten
<1> QED BY <1>2, <1>3, <1>4 DEF Inv

LEMMA PurgeStep ==
  ASSUME Inv, NEW p \in Pages, Purge(p)
  PROVE  Inv'
<1> DEFINE tx == Tx(p, "purge", cache[p])
<1>0. /\ tx \in Transactions /\ tx.page = p /\ tx.kind = "purge"
      /\ queue' = IF closing[p] THEN queue ELSE Append(queue, tx)
      /\ queue \in Seq(Transactions)
  BY QueueType DEF Inv, TypeOK, Purge, Enqueued, Tx, Transactions
<1>1. /\ cache' = [cache EXCEPT ![p] = {}]
      /\ loaded' = [loaded EXCEPT ![p] = NoCheckpoint]
      /\ mine' = [mine EXCEPT ![p] = {}]
      /\ cached[p]
      /\ UNCHANGED <<rows, check, phase, mounted, closing, cached, uses, failed, waiting, acked, purged>>
  BY DEF Purge, pageVars
<1> HIDE DEF tx
<1>2. phase[p] = "open"
  BY <1>1 DEF Inv, PagesAtRest
<1>3. \A q \in Pages : mine'[q] = IF q = p THEN {} ELSE mine[q]
  BY <1>1 DEF Inv, TypeOK
<1>4. QueueInv' /\ MineOnItsWay' /\ queue' \in Seq(Transactions)
  <2>1. CASE closing[p]
    <3>1. queue' = queue /\ Remains(queue', queue, {})
      BY <1>0, <2>1, NothingGone
    <3>2. QueueInv'
      BY <1>1, <3>1, QueueKept
    <3>3. MineOnItsWay'
      BY <1>1, <1>3, <3>1, NothingGone, MineKept
    <3> QED BY <1>0, <3>1, <3>2, <3>3
  <2>2. CASE ~ closing[p]
    <3>1. queue' = Append(queue, tx)
      BY <1>0, <2>2
    <3>2. QueueInv'
      BY <1>0, <1>1, <1>2, <3>1, QueueGrown DEF Reads, Writes
    <3>3. MineOnItsWay'
      <4>1. \A q \in Pages : mine'[q] \subseteq mine[q]
        BY <1>3
      <4> QED BY <1>0, <1>1, <3>1, <4>1, MineGrown
    <3> QED BY <1>0, <3>1, <3>2, <3>3, Appended
  <2> QED BY <2>1, <2>2
<1>5. TypeOK'
  <2>1. /\ NoCheckpoint \in [saved : BOOLEAN, ops : SUBSET AllRows]
        /\ cache' \in [Pages -> SUBSET AllRows] /\ mine' \in [Pages -> SUBSET AllRows]
    BY <1>1 DEF Inv, TypeOK, NoCheckpoint
  <2>2. loaded' \in [Pages -> [saved : BOOLEAN, ops : SUBSET AllRows]]
    BY <1>1, <2>1 DEF Inv, TypeOK
  <2> QED BY <1>1, <1>4, <2>1, <2>2 DEF Inv, TypeOK, Transactions, Reads, Writes
<1>6. PagesAtRest' /\ CheckpointCovered' /\ AckedDurable' /\ NothingForgotten'
  BY <1>1, <1>3 DEF Inv, TypeOK, PagesAtRest, CheckpointCovered, AckedDurable, NothingForgotten
<1> QED BY <1>4, <1>5, <1>6 DEF Inv

\* Nothing of a page without a failure is lost once it has no write in progress.
LEMMA AllCommitted ==
  ASSUME Inv, NEW p \in Pages, ~ failed[p], Pending(p) = {}
  PROVE  mine[p] \subseteq rows
BY DEF Inv, MineOnItsWay

LEMMA FlushedStep ==
  ASSUME Inv, NEW p \in Pages, Flushed(p)
  PROVE  Inv'
<1> DEFINE tx == Tx(p, "refresh", {})
<1>0. /\ tx \in Transactions /\ tx.page = p /\ tx.kind = "refresh" /\ tx.ops = {}
      /\ queue \in Seq(Transactions)
      /\ \A i \in DOMAIN queue : queue[i] \in Transactions /\ queue[i].page \in Pages
  BY QueueType DEF Inv, Tx, Transactions
<1>1. /\ Pending(p) = {} /\ waiting[p] # "no" /\ phase[p] = "open"
      /\ UNCHANGED <<rows, check, phase, mounted, closing, cached, uses, cache, loaded, failed, mine, purged>>
  BY DEF Inv, PagesAtRest, Flushed, Settled, pageVars
<1>2. \A i \in DOMAIN queue : ~ (queue[i].kind = "refresh" /\ queue[i].page = p)
  <2>1. SUFFICES ASSUME NEW i \in DOMAIN queue, queue[i].kind = "refresh", queue[i].page = p
                 PROVE  FALSE
    OBVIOUS
  <2>2. queue[i].ops = {}
    BY <2>1 DEF Inv, QueueInv, RefreshSettled
  <2>3. queue[i] = Tx(p, "refresh", {})
    BY <1>0, <2>1, <2>2 DEF Transactions, Tx
  <2> QED BY <2>3 DEF Flushed
<1>3. CASE /\ waiting' = [waiting EXCEPT ![p] = "no"]
           /\ queue' = queue
           /\ acked' = acked \/ (~ failed[p] /\ acked' = acked \cup (cache[p] \cap mine[p]))
  <2>1. \A i \in DOMAIN queue : queue[i].kind = "refresh" =>
          waiting'[queue[i].page] = waiting[queue[i].page]
    BY <1>0, <1>2, <1>3 DEF Inv, TypeOK
  <2>2. QueueInv'
    BY <1>1, <1>3, <2>1, NothingGone, QueueKept
  <2>3. acked' \subseteq rows
    BY <1>1, <1>3, AllCommitted DEF Inv, AckedDurable
  <2>4. TypeOK' /\ PagesAtRest' /\ CheckpointCovered' /\ AckedDurable' /\ NothingForgotten'
    BY <1>1, <1>3, <2>3 DEF Inv, TypeOK, PagesAtRest, CheckpointCovered, AckedDurable, NothingForgotten
  <2>5. MineOnItsWay'
    BY <1>1, <1>3, NothingGone, MineKept
  <2> QED BY <2>2, <2>4, <2>5 DEF Inv
<1>4. CASE /\ ~ failed[p] /\ waiting[p] = "refresh" /\ waiting' = waiting
           /\ queue' = Append(queue, tx)
           /\ acked' = acked \cup (cache[p] \cap mine[p])
  <2>1. queue' \in Seq(Transactions)
    BY <1>0, <1>4, Appended
  <2>2. acked' \subseteq rows
    BY <1>1, <1>4, AllCommitted DEF Inv, AckedDurable
  <2>3. TypeOK' /\ PagesAtRest' /\ CheckpointCovered' /\ AckedDurable' /\ NothingForgotten'
    BY <1>1, <1>4, <2>1, <2>2 DEF Inv, TypeOK, PagesAtRest, CheckpointCovered, AckedDurable,
       NothingForgotten, Transactions, Reads, Writes
  <2> HIDE DEF tx
  <2>4. QueueInv'
    BY <1>0, <1>1, <1>2, <1>4, QueueGrown DEF Reads, Writes
  <2>5. MineOnItsWay'
    BY <1>0, <1>1, <1>4, MineGrown
  <2> QED BY <2>3, <2>4, <2>5 DEF Inv
<1> QED BY <1>3, <1>4 DEF Flushed, Refused, Enqueued

-----------------------------------------------------------------------------
\* What the oldest transaction leaves behind it when it ends.
LEMMA HeadFacts ==
  ASSUME Inv, queue # <<>>
  PROVE  /\ 1 \in DOMAIN queue /\ Head(queue) = queue[1]
         /\ queue[1].page \in Pages /\ queue[1].ops \subseteq AllRows
         /\ Tail(queue) \in Seq(Transactions)
         /\ Remains(Tail(queue), queue, {1})
<1>1. queue \in Seq(Transactions)
  BY QueueType DEF Inv
<1>2. /\ 1 \in DOMAIN queue /\ Head(queue) = queue[1]
      /\ Tail(queue) \in Seq(Transactions) /\ Remains(Tail(queue), queue, {1})
  <2> HIDE DEF Transactions
  <2> QED BY <1>1, HeadGone
<1> QED BY <1>2, QueueType DEF Inv, Transactions

\* A write commits: its operations are rows.
LEMMA WriteCommits ==
  ASSUME Inv, PutCommits \/ CheckpointCommits
  PROVE  Inv'
<1>0. /\ queue # <<>> /\ Head(queue) = queue[1] /\ queue[1].ops \subseteq AllRows
      /\ queue' = Tail(queue) /\ queue' \in Seq(Transactions)
      /\ Remains(queue', queue, {1})
  BY HeadFacts DEF PutCommits, CheckpointCommits, Committed
<1>1. /\ rows' = rows \cup queue[1].ops
      /\ check' = check \/ check' = Checkpoint(queue[1].ops)
      /\ UNCHANGED <<phase, mounted, closing, cached, uses, cache, loaded, failed, waiting, mine, acked, purged>>
  BY <1>0 DEF PutCommits, CheckpointCommits, pageVars
<1>2. QueueInv'
  BY <1>0, <1>1, QueueKept
<1>3. MineOnItsWay'
  <2>1. \A i : i \in {1} => queue[i].ops \subseteq rows'
    BY <1>1
  <2>2. rows \subseteq rows'
    BY <1>1
  <2> QED BY <1>0, <1>1, <2>1, <2>2, MineKept
<1>4. TypeOK'
  <2>1. Checkpoint(queue[1].ops) \in [saved : BOOLEAN, ops : SUBSET AllRows]
    BY <1>0 DEF Checkpoint
  <2>2. check' \in [saved : BOOLEAN, ops : SUBSET AllRows]
    BY <1>1, <2>1 DEF Inv, TypeOK
  <2> QED BY <1>0, <1>1, <2>2 DEF Inv, TypeOK, Transactions, Reads, Writes
<1>5. PagesAtRest' /\ CheckpointCovered' /\ AckedDurable' /\ NothingForgotten'
  BY <1>1 DEF Inv, PagesAtRest, CheckpointCovered, AckedDurable, NothingForgotten, Checkpoint
<1> QED BY <1>2, <1>3, <1>4, <1>5 DEF Inv

\* A purge commits: what it deletes is nobody's any more.
LEMMA PurgeStepCommits ==
  ASSUME Inv, PurgeCommits
  PROVE  Inv'
<1>0. /\ queue # <<>> /\ Head(queue) = queue[1] /\ queue[1].kind = "purge"
      /\ queue' = Tail(queue) /\ queue' \in Seq(Transactions)
      /\ Remains(queue', queue, {1})
  BY HeadFacts DEF PurgeCommits, Committed
<1>1. /\ rows' = rows \ queue[1].ops
      /\ check' = NoCheckpoint
      /\ mine' = [p \in Pages |-> mine[p] \ queue[1].ops]
      /\ acked' = acked \ queue[1].ops
      /\ purged' \in BOOLEAN
      /\ UNCHANGED <<phase, mounted, closing, cached, uses, cache, loaded, failed, waiting>>
  BY <1>0 DEF PurgeCommits, Deleted, pageVars
<1>2. QueueInv'
  BY <1>0, <1>1, QueueKept
<1>3. MineOnItsWay'
  <2>1. \A q \in Pages : mine'[q] \subseteq mine[q] /\ rows \cap mine'[q] \subseteq rows'
    BY <1>1
  <2>2. \A q \in Pages : \A i \in Pending(q) : i \notin {1}
    BY <1>0 DEF Pending
  <2> QED BY <1>0, <1>1, <2>1, <2>2, MineKept
<1>4. TypeOK'
  <2>1. /\ check' \in [saved : BOOLEAN, ops : SUBSET AllRows]
        /\ mine' \in [Pages -> SUBSET AllRows]
    BY <1>1 DEF Inv, TypeOK, NoCheckpoint
  <2> QED BY <1>0, <1>1, <2>1 DEF Inv, TypeOK, Transactions, Reads, Writes
<1>5. PagesAtRest' /\ CheckpointCovered' /\ AckedDurable' /\ NothingForgotten'
  BY <1>1 DEF Inv, PagesAtRest, CheckpointCovered, AckedDurable, NothingForgotten, NoCheckpoint
<1> QED BY <1>2, <1>3, <1>4, <1>5 DEF Inv

\* The two reads of a page that loads.
LEMMA RowsStep ==
  ASSUME Inv, RowsRead
  PROVE  Inv'
<1> DEFINE p == queue[1].page
           tx == Tx(p, "readChecks", {})
<1>0. /\ queue # <<>> /\ 1 \in DOMAIN queue /\ queue[1].kind = "readRows" /\ p \in Pages
      /\ queue' = Append(Tail(queue), tx)
      /\ cache' = [cache EXCEPT ![p] = rows]
      /\ UNCHANGED <<rows, check, phase, mounted, closing, cached, uses, loaded, failed, waiting, mine, acked, purged>>
  BY HeadFacts DEF RowsRead, pageVars
<1>1. queue' \in Seq(Transactions) /\ Remains(queue', queue, {})
  <2>1. tx \in Transactions /\ tx.kind \in Reads /\ tx.page = queue[1].page /\ queue \in Seq(Transactions)
    BY <1>0, QueueType DEF Inv, Tx, Transactions, Reads
  <2> HIDE DEF tx
  <2> QED BY <1>0, <2>1, HeadLast DEF Reads
<1>2. phase[p] = "loading" /\ mine[p] = {}
  BY <1>0 DEF Inv, QueueInv, QueueByPhase, PagesAtRest, Reads
<1> HIDE DEF p
<1>3. QueueInv'
  BY <1>0, <1>1, QueueKept
<1>4. MineOnItsWay'
  BY <1>0, <1>1, MineKept
<1>5. TypeOK'
  <2>1. cache' \in [Pages -> SUBSET AllRows]
    BY <1>0 DEF Inv, TypeOK
  <2> QED BY <1>0, <1>1, <2>1 DEF Inv, TypeOK, Transactions, Reads, Writes
<1>6. PagesAtRest' /\ CheckpointCovered' /\ AckedDurable' /\ NothingForgotten'
  BY <1>0, <1>2 DEF Inv, TypeOK, PagesAtRest, CheckpointCovered, AckedDurable, NothingForgotten
<1> QED BY <1>3, <1>4, <1>5, <1>6 DEF Inv

LEMMA ChecksStep ==
  ASSUME Inv, ChecksRead
  PROVE  Inv'
<1>0. PICK i \in DOMAIN queue :
        /\ queue[i].kind = "readChecks"
        /\ queue' = RemoveAt(queue, i)
        /\ phase' = [phase EXCEPT ![queue[i].page] = "open"]
        /\ loaded' = [loaded EXCEPT ![queue[i].page] =
                       IF cache[queue[i].page] = {} THEN NoCheckpoint ELSE check]
        /\ cached' = [cached EXCEPT ![queue[i].page] = cache[queue[i].page] # {}]
        /\ UNCHANGED <<rows, check, mounted, closing, uses, cache, failed, waiting, mine, acked, purged>>
  BY DEF ChecksRead
<1> DEFINE p == queue[i].page
<1>1. p \in Pages /\ queue' \in Seq(Transactions) /\ Remains(queue', queue, {i})
  <2>1. queue \in Seq(Transactions) /\ p \in Pages
    BY QueueType DEF Inv
  <2> HIDE DEF Transactions
  <2> QED BY <1>0, <2>1, OneGone
<1>2. phase[p] = "loading" /\ ~ mounted[p] /\ mine[p] = {} /\ waiting[p] = "no"
  BY <1>0, <1>1 DEF Inv, QueueInv, QueueByPhase, PagesAtRest, Reads
<1>3. \A j \in DOMAIN queue \ {i} : queue[j].page # p
  <2>1. SUFFICES ASSUME NEW j \in DOMAIN queue, queue[j].page = p PROVE j = i
    OBVIOUS
  <2>2. queue[j].kind \in Reads
    BY <1>2, <2>1 DEF Inv, QueueInv, QueueByPhase
  <2> QED BY <1>0, <2>1, <2>2 DEF Inv, QueueInv, OneRead, Reads
<1>4. \A q \in Pages : phase'[q] = IF q = p THEN "open" ELSE phase[q]
  BY <1>0 DEF Inv, TypeOK
<1>5. QueueInv'
  <2>1. \A j \in DOMAIN queue : queue[j].page \in Pages
    BY QueueType DEF Inv
  <2> QED BY <1>0, <1>1, <1>3, <1>4, <2>1, QueueKept
<1>6. MineOnItsWay'
  <2>1. \A q \in Pages : \A k \in Pending(q) : k \notin {i}
    BY <1>0 DEF Pending
  <2> QED BY <1>0, <1>1, <2>1, MineKept
<1>7. TypeOK'
  <2>1. /\ phase' \in [Pages -> {"closed", "loading", "open"}]
        /\ cached' \in [Pages -> BOOLEAN]
    BY <1>0 DEF Inv, TypeOK
  <2>2. loaded' \in [Pages -> [saved : BOOLEAN, ops : SUBSET AllRows]]
    BY <1>0 DEF Inv, TypeOK, NoCheckpoint
  <2> QED BY <1>0, <1>1, <2>1, <2>2 DEF Inv, TypeOK, Transactions, Reads, Writes
<1>8. PagesAtRest'
  <2>1. \A q \in Pages : cached'[q] = IF q = p THEN cache[p] # {} ELSE cached[q]
    BY <1>0, <1>1 DEF Inv, TypeOK
  <2> QED BY <1>0, <1>2, <1>4, <2>1 DEF Inv, PagesAtRest
<1>9. CheckpointCovered' /\ AckedDurable' /\ NothingForgotten'
  BY <1>0, <1>2, <1>4 DEF Inv, CheckpointCovered, AckedDurable, NothingForgotten
<1> QED BY <1>5, <1>6, <1>7, <1>8, <1>9 DEF Inv

\* refresh replaces the live view only when everything the page appended is a row.
LEMMA RefreshStep ==
  ASSUME Inv, Refreshed
  PROVE  Inv'
<1> DEFINE p == queue[1].page
<1>0. /\ queue # <<>> /\ 1 \in DOMAIN queue /\ queue[1].kind = "refresh" /\ p \in Pages
      /\ queue' = Tail(queue) /\ queue' \in Seq(Transactions)
      /\ Remains(queue', queue, {1})
      /\ cached' = [cached EXCEPT ![p] = TRUE]
      /\ cache' = [cache EXCEPT ![p] = rows]
      /\ loaded' = [loaded EXCEPT ![p] = check]
      /\ waiting' = [waiting EXCEPT ![p] = "no"]
      /\ UNCHANGED <<rows, check, phase, mounted, closing, uses, failed, mine, acked, purged>>
  BY HeadFacts DEF Refreshed, Committed
<1>1. phase[p] = "open" /\ ~ mounted[p]
  BY <1>0 DEF Inv, QueueInv, QueueByPhase, RefreshSettled, PagesAtRest, Reads
<1>2. mine[p] \subseteq rows
  <2>1. ~ failed[p] /\ Pending(p) = {}
    BY <1>0 DEF Inv, QueueInv, RefreshSettled, Pending, Writes
  <2> QED BY <1>0, <2>1, AllCommitted
<1>3. \A j \in DOMAIN queue \ {1} : ~ (queue[j].kind = "refresh" /\ queue[j].page = p)
  BY <1>0 DEF Inv, QueueInv, OneRefresh
<1>4. \A q \in Pages : /\ waiting'[q] = IF q = p THEN "no" ELSE waiting[q]
                       /\ cached'[q] = IF q = p THEN TRUE ELSE cached[q]
                       /\ cache'[q] = IF q = p THEN rows ELSE cache[q]
  BY <1>0 DEF Inv, TypeOK
<1>5. QueueInv'
  <2>1. \A j \in DOMAIN queue : queue[j].page \in Pages
    BY QueueType DEF Inv
  <2> QED BY <1>0, <1>3, <1>4, <2>1, QueueKept
<1>6. MineOnItsWay'
  <2>1. \A q \in Pages : \A k \in Pending(q) : k \notin {1}
    BY <1>0 DEF Pending
  <2> QED BY <1>0, <2>1, MineKept
<1>7. TypeOK'
  <2>1. /\ cached' \in [Pages -> BOOLEAN] /\ cache' \in [Pages -> SUBSET AllRows]
        /\ waiting' \in [Pages -> {"no", "flush", "refresh"}]
        /\ loaded' \in [Pages -> [saved : BOOLEAN, ops : SUBSET AllRows]]
    BY <1>0 DEF Inv, TypeOK
  <2> QED BY <1>0, <2>1 DEF Inv, TypeOK, Transactions, Reads, Writes
<1> HIDE DEF p
<1>8. PagesAtRest' /\ CheckpointCovered' /\ AckedDurable' /\ NothingForgotten'
  BY <1>0, <1>1, <1>2, <1>4 DEF Inv, PagesAtRest, CheckpointCovered, AckedDurable, NothingForgotten
<1> QED BY <1>5, <1>6, <1>7, <1>8 DEF Inv

LEMMA AbortStep ==
  ASSUME Inv, Aborts
  PROVE  Inv'
<1> DEFINE p == queue[1].page
           kind == queue[1].kind
<1>0. /\ queue # <<>> /\ 1 \in DOMAIN queue /\ p \in Pages
      /\ queue' = Tail(queue) /\ queue' \in Seq(Transactions)
      /\ Remains(queue', queue, {1})
      /\ failed' = [failed EXCEPT ![p] = @ \/ kind \in Writes]
      /\ phase' = [phase EXCEPT ![p] = IF kind \in Reads THEN "closed" ELSE @]
      /\ cache' = [cache EXCEPT ![p] = IF kind \in Reads THEN {} ELSE @]
      /\ waiting' = [waiting EXCEPT ![p] = IF kind = "refresh" THEN "no" ELSE @]
      /\ UNCHANGED <<rows, check, mounted, closing, cached, uses, loaded, mine, acked, purged>>
  BY HeadFacts DEF Aborts, Reads, Writes
<1>1. phase[p] = (IF kind \in Reads THEN "loading" ELSE "open")
  BY <1>0 DEF Inv, QueueInv, QueueByPhase
<1>2. \A q \in Pages :
        /\ failed'[q] = IF q = p THEN failed[q] \/ kind \in Writes ELSE failed[q]
        /\ phase'[q] = IF q = p /\ kind \in Reads THEN "closed" ELSE phase[q]
        /\ cache'[q] = IF q = p /\ kind \in Reads THEN {} ELSE cache[q]
        /\ waiting'[q] = IF q = p /\ kind = "refresh" THEN "no" ELSE waiting[q]
  BY <1>0 DEF Inv, TypeOK
<1>3. \A j \in DOMAIN queue \ {1} :
        /\ kind \in Reads => queue[j].page # p
        /\ queue[j].kind = "refresh" /\ queue[j].page = p => kind # "refresh" /\ kind \notin Writes
  <2>1. SUFFICES ASSUME NEW j \in DOMAIN queue, j # 1, queue[j].page = p
                 PROVE  /\ kind \notin Reads
                        /\ queue[j].kind = "refresh" => kind # "refresh" /\ kind \notin Writes
    OBVIOUS
  <2>2. kind \notin Reads
    <3>1. SUFFICES ASSUME kind \in Reads PROVE FALSE
      OBVIOUS
    <3>2. queue[j].kind \in Reads
      BY <1>1, <2>1, <3>1 DEF Inv, QueueInv, QueueByPhase
    <3> QED BY <1>0, <2>1, <3>1, <3>2 DEF Inv, QueueInv, OneRead
  <2>3. queue[j].kind = "refresh" => kind # "refresh"
    BY <1>0, <2>1 DEF Inv, QueueInv, OneRefresh
  <2>4. queue[j].kind = "refresh" => kind \notin Writes
    BY <1>0, <2>1 DEF Inv, QueueInv, RefreshSettled
  <2> QED BY <2>2, <2>3, <2>4
<1>4. QueueInv'
  <2>1. \A j \in DOMAIN queue : queue[j].page \in Pages
    BY QueueType DEF Inv
  <2>2. \A j \in DOMAIN queue \ {1} :
          /\ phase'[queue[j].page] = phase[queue[j].page]
          /\ queue[j].kind = "refresh" =>
               /\ waiting'[queue[j].page] = waiting[queue[j].page]
               /\ failed'[queue[j].page] = failed[queue[j].page]
    <3> HIDE DEF p, kind
    <3>1. \A q \in Pages : failed[q] \in BOOLEAN
      BY DEF Inv, TypeOK
    <3> QED BY <1>2, <1>3, <2>1, <3>1
  <2> QED BY <1>0, <2>2, QueueKept
<1>5. MineOnItsWay'
  <2>1. \A q \in Pages : ~ failed'[q] => ~ failed[q] /\ ~ (q = p /\ kind \in Writes)
    <3> HIDE DEF p, kind
    <3> QED BY <1>2 DEF Inv, TypeOK
  <2>2. \A q \in Pages : \A k \in Pending(q) : k \in {1} => q = p /\ kind \in Writes
    BY DEF Pending, Writes
  <2> QED BY <1>0, <2>1, <2>2, MineKept
<1>6. TypeOK'
  <2>1. /\ failed' \in [Pages -> BOOLEAN] /\ cache' \in [Pages -> SUBSET AllRows]
        /\ waiting' \in [Pages -> {"no", "flush", "refresh"}]
        /\ phase' \in [Pages -> {"closed", "loading", "open"}]
    <3> HIDE DEF p, kind
    <3>1. \A q \in Pages : /\ failed[q] \in BOOLEAN /\ cache[q] \in SUBSET AllRows
                           /\ waiting[q] \in {"no", "flush", "refresh"}
                           /\ phase[q] \in {"closed", "loading", "open"}
      BY DEF Inv, TypeOK
    <3> QED BY <1>0, <3>1 DEF Inv, TypeOK
  <2> QED BY <1>0, <2>1 DEF Inv, TypeOK, Transactions, Reads, Writes
<1>7. PagesAtRest' /\ NothingForgotten'
  <2> HIDE DEF p, kind
  <2>1. \A q \in Pages : q = p /\ kind \in Reads => phase[q] # "open"
    BY <1>1
  <2>2. \A q \in Pages : ~ (q = p /\ kind \in Reads) => phase'[q] = phase[q] /\ cache'[q] = cache[q]
    BY <1>2
  <2>3. \A q \in Pages : waiting'[q] = waiting[q] \/ waiting'[q] = "no"
    BY <1>2
  <2> QED BY <1>0, <1>2, <2>1, <2>2, <2>3 DEF Inv, PagesAtRest, NothingForgotten
<1>8. CheckpointCovered' /\ AckedDurable'
  BY <1>0 DEF Inv, CheckpointCovered, AckedDurable
<1> QED BY <1>4, <1>5, <1>6, <1>7, <1>8 DEF Inv

LEMMA CrashStep ==
  ASSUME Inv, NEW p \in Pages, Crash(p)
  PROVE  Inv'
<1> DEFINE gone == {i \in DOMAIN queue : queue[i].page = p}
<1>0. /\ queue' \in Seq(Transactions) /\ Remains(queue', queue, gone)
      /\ phase' = [phase EXCEPT ![p] = "closed"]
      /\ mounted' = [mounted EXCEPT ![p] = FALSE]
      /\ closing' = [closing EXCEPT ![p] = FALSE]
      /\ cached' = [cached EXCEPT ![p] = FALSE]
      /\ cache' = [cache EXCEPT ![p] = {}]
      /\ loaded' = [loaded EXCEPT ![p] = NoCheckpoint]
      /\ failed' = [failed EXCEPT ![p] = FALSE]
      /\ waiting' = [waiting EXCEPT ![p] = "no"]
      /\ mine' = [mine EXCEPT ![p] = {}]
      /\ UNCHANGED <<rows, check, acked, purged, uses>>
  BY QueueType, PageGone DEF Inv, Crash
<1>1. \A q \in Pages :
        /\ phase'[q] = IF q = p THEN "closed" ELSE phase[q]
        /\ mounted'[q] = IF q = p THEN FALSE ELSE mounted[q]
        /\ cached'[q] = IF q = p THEN FALSE ELSE cached[q]
        /\ cache'[q] = IF q = p THEN {} ELSE cache[q]
        /\ failed'[q] = IF q = p THEN FALSE ELSE failed[q]
        /\ waiting'[q] = IF q = p THEN "no" ELSE waiting[q]
        /\ mine'[q] = IF q = p THEN {} ELSE mine[q]
  BY <1>0 DEF Inv, TypeOK
<1>2. QueueInv'
  <2>1. \A j \in DOMAIN queue : queue[j].page \in Pages
    BY QueueType DEF Inv
  <2> QED BY <1>0, <1>1, <2>1, QueueKept
<1>3. MineOnItsWay'
  <2>1. \A q \in Pages : q # p /\ ~ failed'[q] => ~ failed[q] /\ mine'[q] = mine[q]
    BY <1>1
  <2>2. \A q \in Pages : \A k \in Pending(q) : q # p => k \notin gone
    BY DEF Pending
  <2>3. mine'[p] = {}
    BY <1>1
  <2> HIDE DEF gone
  <2> QED BY <1>0, <2>1, <2>2, <2>3, MineKept
<1> HIDE DEF gone
<1>4. TypeOK'
  <2>1. NoCheckpoint \in [saved : BOOLEAN, ops : SUBSET AllRows]
    BY DEF NoCheckpoint
  <2>2. loaded' \in [Pages -> [saved : BOOLEAN, ops : SUBSET AllRows]]
    BY <1>0, <2>1 DEF Inv, TypeOK
  <2> QED BY <1>0, <2>2 DEF Inv, TypeOK, Transactions, Reads, Writes
<1>5. PagesAtRest' /\ NothingForgotten'
  BY <1>1 DEF Inv, PagesAtRest, NothingForgotten
<1>6. CheckpointCovered' /\ AckedDurable'
  BY <1>0 DEF Inv, CheckpointCovered, AckedDurable
<1> QED BY <1>2, <1>3, <1>4, <1>5, <1>6 DEF Inv

-----------------------------------------------------------------------------
LEMMA InitInv == Init => Inv
<1> SUFFICES ASSUME Init PROVE Inv
  OBVIOUS
<1>1. TypeOK
  <2>1. queue = <<>> /\ check = NoCheckpoint /\ loaded = [p \in Pages |-> NoCheckpoint]
    BY DEF Init
  <2>2. queue \in Seq(Transactions)
    BY <2>1
  <2>3. NoCheckpoint \in [saved : BOOLEAN, ops : SUBSET AllRows]
    BY DEF NoCheckpoint
  <2>4. loaded \in [Pages -> [saved : BOOLEAN, ops : SUBSET AllRows]]
    BY <2>1, <2>3
  <2> QED BY <2>1, <2>2, <2>3, <2>4 DEF Init, TypeOK, Transactions, Reads, Writes
<1>2. QueueInv
  <2>1. DOMAIN queue = {}
    BY DEF Init
  <2> QED BY <2>1 DEF QueueInv, QueueByPhase, OneRead, OneRefresh, RefreshSettled
<1>3. PagesAtRest /\ MineOnItsWay /\ CheckpointCovered /\ AckedDurable /\ NothingForgotten
  BY DEF Init, PagesAtRest, MineOnItsWay, CheckpointCovered, AckedDurable, NothingForgotten,
     NoCheckpoint
<1> QED BY <1>1, <1>2, <1>3 DEF Inv

LEMMA NextInv == Inv /\ [Next]_vars => Inv'
<1> SUFFICES ASSUME Inv, [Next]_vars PROVE Inv'
  OBVIOUS
<1>1. CASE UNCHANGED vars
  BY <1>1 DEF vars, pageVars, Inv, TypeOK, PagesAtRest, QueueInv, QueueByPhase, OneRead, OneRefresh,
     RefreshSettled, MineOnItsWay, Pending, CheckpointCovered, AckedDurable, NothingForgotten
<1>2. CASE \E p \in Pages :
             \/ Open(p) \/ Mount(p) \/ Unmount(p) \/ SaveCheckpoint(p)
             \/ \E o \in Rows[p] : AppendRow(p, o)
             \/ Purge(p) \/ Flush(p) \/ Refresh(p) \/ Flushed(p)
             \/ CloseConnection(p) \/ Crash(p)
  BY <1>2, OpenStep, CallStep, SaveStep, AppendStep, PurgeStep, FlushedStep, CrashStep
<1>3. CASE Finish
  BY <1>3, WriteCommits, PurgeStepCommits, RowsStep, ChecksStep, RefreshStep, AbortStep DEF Finish
<1> QED BY <1>1, <1>2, <1>3 DEF Next

LEMMA Invariant == Spec => []Inv
BY InitInv, NextInv, PTL DEF Spec

-----------------------------------------------------------------------------
(* Every variable has its type in every state.                              *)
THEOREM TypeCorrect == Spec => []TypeOK
<1>1. Inv => TypeOK
  BY DEF Inv
<1> QED BY <1>1, Invariant, PTL

(* store_idb.ts 182: the committed checkpoint names only committed rows,     *)
(* whatever writes aborted, whichever page went away and whoever purged:     *)
(* a checkpoint commits together with every operation it folds, and a purge  *)
(* deletes it together with the rows.                                        *)
THEOREM CheckpointsCovered == Spec => []CheckpointCovered
<1>1. Inv => CheckpointCovered
  BY DEF Inv
<1> QED BY <1>1, Invariant, PTL

(* store_idb.ts 160: what a page had appended when a flushChecked of it      *)
(* resolved is committed and stays so, through crashes, aborts and other     *)
(* pages' writes, until a purge that resolves deletes it.                    *)
THEOREM AcknowledgedIsDurable == Spec => []AckedDurable
<1>1. Inv => AckedDurable
  BY DEF Inv
<1> QED BY <1>1, Invariant, PTL

(* A page that is open never forgets what it appended and did not purge: a   *)
(* refresh, which replaces its live view by the rows, happens only when the  *)
(* page's writes all committed.                                              *)
THEOREM NothingIsForgotten == Spec => []NothingForgotten
<1>1. Inv => NothingForgotten
  BY DEF Inv
<1> QED BY <1>1, Invariant, PTL

-----------------------------------------------------------------------------
(* What a purge deletes. With one page and no transaction that aborts, each    *)
(* purge names every row there will be when its turn comes: the rows and the   *)
(* writes before it that no earlier purge takes away are in the live view that *)
(* it was made from.                                                           *)

Alone == (\E p : Pages = {p}) /\ MayAbort = {}

Purges == {j \in DOMAIN queue : queue[j].kind = "purge"}

\* The rows stand before the writes on their way.
Sources == {0} \cup {i \in DOMAIN queue : queue[i].kind \in Writes}
Held(i) == IF i = 0 THEN rows ELSE queue[i].ops

\* The live view was read.
Viewed(p) == phase[p] = "open" \/ \E i \in DOMAIN queue : queue[i].kind = "readChecks"

PurgesName ==
  \A i \in Sources, j \in Purges :
    i < j /\ (\A k \in Purges : k <= i \/ j <= k) => Held(i) \subseteq queue[j].ops

ViewHolds ==
  \A p \in Pages : Viewed(p) /\ ~ closing[p] =>
    \A i \in Sources : (\A k \in Purges : k <= i) => Held(i) \subseteq cache[p]

PurgesFirst == \A i \in DOMAIN queue, j \in Purges : queue[i].kind = "refresh" => j < i

NothingLeft ==
  purged => (\A i \in Sources : Held(i) = {}) /\ \A p \in Pages : cache[p] = {}

PurgeInv == PurgesName /\ ViewHolds /\ PurgesFirst /\ NothingLeft

\* The steps that leave the queue as it is.
LEMMA PurgeSame ==
  ASSUME NEW p, Pages = {p}, PurgeInv, UNCHANGED <<rows, queue>>,
         \/ closing'[p]
         \/ cache[p] \subseteq cache'[p] /\ closing'[p] = closing[p] /\ (Viewed(p)' => Viewed(p)),
         purged' => purged /\ cache'[p] = {}
  PROVE  PurgeInv'
<1>1. Sources' = Sources /\ Purges' = Purges /\ \A i : Held(i)' = Held(i)
  BY DEF Sources, Purges, Held
<1>2. PurgesName' /\ PurgesFirst'
  BY <1>1 DEF PurgeInv, PurgesName, PurgesFirst, Held, Purges
<1>3. ASSUME Viewed(p)', ~ closing'[p], NEW i \in Sources, \A k \in Purges : k <= i
      PROVE  Held(i) \subseteq cache'[p]
  BY <1>3 DEF PurgeInv, ViewHolds
<1>4. ViewHolds'
  BY <1>1, <1>3 DEF ViewHolds, Held, Sources, Purges, Viewed
<1>5. NothingLeft'
  BY <1>1 DEF PurgeInv, NothingLeft, Held
<1> QED BY <1>2, <1>4, <1>5 DEF PurgeInv

\* The steps that leave neither a write nor a purge in the queue.
LEMMA PurgeCalm ==
  ASSUME NEW p, Pages = {p}, rows' = rows,
         \A i \in DOMAIN queue' : queue'[i].kind \notin Writes \cup {"purge"},
         Viewed(p)' /\ ~ closing'[p] => rows \subseteq cache'[p],
         purged' => rows = {} /\ cache'[p] = {}
  PROVE  PurgeInv'
<1>1. Sources' = {0} /\ Purges' = {} /\ Held(0)' = rows
  BY DEF Sources, Purges, Held
<1> QED BY <1>1 DEF PurgeInv, PurgesName, ViewHolds, PurgesFirst, NothingLeft, Viewed, Held

\* The steps that put a transaction in the queue.
LEMMA PurgeGrown ==
  ASSUME Inv, NEW p, Pages = {p}, PurgeInv, NEW tx \in Transactions,
         queue' = Append(queue, tx), UNCHANGED <<rows, phase, closing>>, phase[p] = "open",
         \/ /\ tx.kind \in Writes /\ tx.ops \subseteq cache'[p] /\ cache[p] \subseteq cache'[p]
            /\ purged' => purged /\ cache'[p] = cache[p]
         \/ /\ tx.kind = "purge" /\ tx.ops = cache[p] /\ ~ closing[p] /\ cache'[p] = {}
            /\ \A i \in DOMAIN queue : queue[i].kind # "refresh"
            /\ purged' => purged
         \/ tx.kind = "refresh" /\ UNCHANGED <<cache, purged>>
  PROVE  PurgeInv'
<1>0. PICK n : n = Len(queue) + 1
  OBVIOUS
<1>1. /\ DOMAIN queue' = DOMAIN queue \cup {n} /\ n \notin DOMAIN queue
      /\ queue'[n] = tx /\ \A i \in DOMAIN queue : queue'[i] = queue[i]
  BY <1>0, Appended, QueueType DEF Inv
<1>2. n \in Nat \ {0} /\ \A i \in DOMAIN queue : i \in Nat /\ 0 < i /\ i < n
  <2>1. queue \in Seq(Transactions)
    BY QueueType DEF Inv
  <2> HIDE DEF Transactions
  <2> QED BY <1>0, <2>1
<1>3. /\ Sources' = Sources \cup (IF tx.kind \in Writes THEN {n} ELSE {})
      /\ Purges' = Purges \cup (IF tx.kind = "purge" THEN {n} ELSE {})
      /\ \A i \in Sources : i \in Nat /\ i < n /\ Held(i)' = Held(i)
      /\ Held(n)' = tx.ops
  <2>1. \A i \in Sources : i \in Nat /\ i < n /\ (i = 0 \/ i \in DOMAIN queue)
    BY <1>2 DEF Sources
  <2>2. \A i \in Sources : Held(i)' = Held(i)
    BY <1>1, <2>1 DEF Held
  <2>3. Held(n)' = tx.ops
    BY <1>1, <1>2 DEF Held
  <2>4. Sources' = Sources \cup (IF tx.kind \in Writes THEN {n} ELSE {})
    BY <1>1 DEF Sources
  <2>5. Purges' = Purges \cup (IF tx.kind = "purge" THEN {n} ELSE {})
    BY <1>1 DEF Purges
  <2> QED BY <2>1, <2>2, <2>3, <2>4, <2>5
<1>4. \A j \in Purges : j \in DOMAIN queue /\ j \in Nat /\ j < n /\ queue'[j] = queue[j]
  BY <1>1, <1>2 DEF Purges
<1>5. Viewed(p)
  BY DEF Viewed
<1>6. ~ closing[p] => \A i \in Sources : (\A k \in Purges : k <= i) => Held(i) \subseteq cache[p]
  BY <1>5 DEF PurgeInv, ViewHolds
<1>7. PurgesName'
  <2>1. SUFFICES ASSUME NEW i \in Sources', NEW j \in Purges', i < j,
                        \A k \in Purges' : k <= i \/ j <= k
                 PROVE  Held(i)' \subseteq queue'[j].ops
    BY DEF PurgesName, Held
  <2>2. i \in Sources
    BY <1>2, <1>3, <1>4, <2>1
  <2>3. CASE j \in Purges
    BY <1>3, <1>4, <2>1, <2>2, <2>3 DEF PurgeInv, PurgesName
  <2>4. CASE j \notin Purges
    <3>1. j = n /\ tx.kind = "purge" /\ tx.ops = cache[p] /\ ~ closing[p]
      BY <1>3, <2>4 DEF Writes
    <3>2. \A k \in Purges : k <= i
      BY <1>2, <1>3, <1>4, <2>1, <2>2, <3>1
    <3> QED BY <1>1, <1>3, <1>6, <2>2, <3>1, <3>2
  <2> QED BY <2>3, <2>4
<1>8. ViewHolds'
  <2>1. SUFFICES ASSUME ~ closing[p], NEW i \in Sources', \A k \in Purges' : k <= i
                 PROVE  Held(i)' \subseteq cache'[p]
    BY DEF ViewHolds, Held
  <2>2. CASE i \in Sources
    <3>1. tx.kind # "purge" /\ Purges' = Purges /\ cache[p] \subseteq cache'[p]
      BY <1>2, <1>3, <2>1, <2>2
    <3> QED BY <1>3, <1>6, <2>1, <2>2, <3>1
  <2>3. CASE i \notin Sources
    BY <1>3, <2>1, <2>3 DEF Writes
  <2> QED BY <2>2, <2>3
<1>9. PurgesFirst'
  <2>1. SUFFICES ASSUME NEW i \in DOMAIN queue', NEW j \in Purges', queue'[i].kind = "refresh"
                 PROVE  j < i
    BY DEF PurgesFirst
  <2>2. CASE i = n
    BY <1>1, <1>3, <1>4, <2>1, <2>2
  <2>3. CASE i \in DOMAIN queue
    <3>1. queue[i].kind = "refresh" /\ j \in Purges
      BY <1>1, <1>3, <2>1, <2>3 DEF Writes
    <3> QED BY <2>3, <3>1 DEF PurgeInv, PurgesFirst
  <2> QED BY <1>1, <2>2, <2>3
<1>10. NothingLeft'
  <2>1. SUFFICES ASSUME purged' PROVE (\A i \in Sources' : Held(i)' = {}) /\ cache'[p] = {}
    BY DEF NothingLeft, Held
  <2>2. purged /\ cache'[p] = {} /\ \A i \in Sources : Held(i) = {}
    BY <2>1 DEF PurgeInv, NothingLeft
  <2>3. n \in Sources' /\ n \notin Sources => tx.ops = {}
    BY <1>3, <2>1, <2>2 DEF Writes
  <2> QED BY <1>3, <2>2, <2>3
<1> QED BY <1>7, <1>8, <1>9, <1>10 DEF PurgeInv

\* A write or a purge commits.
LEMMA PurgeShrunk ==
  ASSUME Inv, NEW p, Pages = {p}, PurgeInv, queue # <<>>, queue' = Tail(queue),
         UNCHANGED <<phase, closing, cache>>,
         \/ /\ queue[1].kind \in Writes /\ rows' = rows \cup queue[1].ops
            /\ purged' = purged
         \/ /\ queue[1].kind = "purge" /\ rows' = rows \ queue[1].ops
            /\ purged' => cache[p] = {} /\ Pending(p) = {}
  PROVE  PurgeInv'
<1>1. /\ DOMAIN queue' = {i \in Nat : 0 < i /\ i + 1 \in DOMAIN queue} /\ 1 \in DOMAIN queue
      /\ \A i \in DOMAIN queue' : queue'[i] = queue[i + 1]
      /\ \A i \in DOMAIN queue : i \in Nat /\ 0 < i /\ queue[i].page = p
  <2>1. queue \in Seq(Transactions) /\ \A i \in DOMAIN queue : queue[i].page = p
    BY QueueType DEF Inv
  <2> HIDE DEF Transactions
  <2> QED BY <2>1
<1>2. \A j : j \in Purges' <=> j \in Nat /\ 0 < j /\ j + 1 \in Purges
  BY <1>1 DEF Purges
<1>3. \A i \in Sources' : i = 0 \/ (i \in Nat /\ 0 < i /\ i + 1 \in Sources /\ Held(i)' = Held(i + 1))
  BY <1>1 DEF Sources, Held
<1>4. 0 \in Sources /\ Held(0) = rows /\ Held(0)' = rows'
  BY DEF Sources, Held
<1>5. \A k \in Purges : k \in Nat /\ 0 < k
  BY <1>1 DEF Purges
<1>5a. \A k \in Purges : k # 1 => k - 1 \in Purges'
  <2>1. SUFFICES ASSUME NEW k \in Purges, k # 1 PROVE k - 1 \in Purges'
    OBVIOUS
  <2>2. k - 1 \in Nat /\ 0 < k - 1 /\ (k - 1) + 1 = k
    BY <1>5, <2>1
  <2> QED BY <1>2, <2>1, <2>2
<1>6. \A i \in Sources, j \in Purges :
        i < j /\ (\A k \in Purges : k <= i \/ j <= k) => Held(i) \subseteq queue[j].ops
  BY DEF PurgeInv, PurgesName
<1>7. queue[1].kind = "purge" => rows' = {}
  <2>1. SUFFICES ASSUME queue[1].kind = "purge" PROVE rows \subseteq queue[1].ops
    BY DEF Writes
  <2>2. 1 \in Purges /\ \A k \in Purges : 1 <= k
    BY <1>1, <1>5, <2>1 DEF Purges
  <2> QED BY <1>4, <1>6, <2>2
<1>8. queue[1].kind \in Writes => 1 \in Sources /\ Held(1) = queue[1].ops /\ 1 \notin Purges
  BY <1>1 DEF Sources, Held, Purges, Writes
<1>9. PurgesName'
  <2>1. SUFFICES ASSUME NEW i \in Sources', NEW j \in Purges', i < j,
                        \A k \in Purges' : k <= i \/ j <= k
                 PROVE  Held(i)' \subseteq queue'[j].ops
    BY DEF PurgesName, Held
  <2>2. j \in Nat /\ 0 < j /\ j + 1 \in Purges /\ queue'[j].ops = queue[j + 1].ops
    BY <1>1, <1>2 DEF Purges
  <2>3. i \in Nat
    BY <1>3
  <2>4. \A k \in Purges : k = 1 \/ k <= i + 1 \/ j + 1 <= k
    <3>1. ASSUME NEW k \in Purges, k # 1 PROVE k <= i + 1 \/ j + 1 <= k
      <4>1. k - 1 \in Purges' /\ k \in Nat
        BY <1>5, <1>5a, <3>1
      <4> QED BY <2>1, <2>2, <2>3, <4>1
    <3> QED BY <3>1
  <2>5. CASE i # 0
    <3>1. i + 1 \in Sources /\ Held(i)' = Held(i + 1)
      BY <1>3, <2>5
    <3>2. \A k \in Purges : k <= i + 1 \/ j + 1 <= k
      BY <2>3, <2>4
    <3>3. i + 1 < j + 1
      BY <2>1, <2>2, <2>3
    <3> QED BY <1>6, <2>2, <3>1, <3>2, <3>3
  <2>6. CASE i = 0 /\ queue[1].kind \in Writes
    <3>1. \A k \in Purges : j + 1 <= k
      BY <1>5, <1>8, <2>2, <2>4, <2>6
    <3>2. rows \subseteq queue[j + 1].ops
      BY <1>4, <1>6, <2>2, <3>1
    <3>3. queue[1].ops \subseteq queue[j + 1].ops
      BY <1>6, <1>8, <2>2, <2>6, <3>1
    <3> QED BY <1>4, <2>2, <2>6, <3>2, <3>3 DEF Writes
  <2>7. CASE i = 0 /\ queue[1].kind = "purge"
    BY <1>4, <1>7, <2>7
  <2> QED BY <2>5, <2>6, <2>7
<1>10. ViewHolds'
  <2>1. SUFFICES ASSUME Viewed(p)', ~ closing[p], NEW i \in Sources', \A k \in Purges' : k <= i
                 PROVE  Held(i)' \subseteq cache[p]
    BY DEF ViewHolds, Held, Viewed
  <2>2. Viewed(p)
    BY <1>1, <2>1 DEF Viewed
  <2>3. \A m \in Sources : (\A k \in Purges : k <= m) => Held(m) \subseteq cache[p]
    BY <2>1, <2>2 DEF PurgeInv, ViewHolds
  <2>4. i \in Nat
    BY <1>3
  <2>5. \A k \in Purges : k = 1 \/ k <= i + 1
    <3>1. ASSUME NEW k \in Purges, k # 1 PROVE k <= i + 1
      <4>1. k - 1 \in Purges' /\ k \in Nat
        BY <1>5, <1>5a, <3>1
      <4> QED BY <2>1, <2>4, <4>1
    <3> QED BY <3>1
  <2>6. CASE i # 0
    BY <1>3, <2>3, <2>4, <2>5, <2>6
  <2>7. CASE i = 0 /\ queue[1].kind \in Writes
    <3>1. Purges = {}
      <4>1. ASSUME NEW k \in Purges PROVE FALSE
        <5>1. k - 1 \in Purges' /\ k \in Nat /\ 1 < k
          BY <1>5, <1>5a, <1>8, <2>7
        <5> QED BY <2>1, <2>7, <5>1
      <4> QED BY <4>1
    <3>2. rows \subseteq cache[p] /\ queue[1].ops \subseteq cache[p]
      BY <1>4, <1>8, <2>3, <2>7, <3>1
    <3> QED BY <1>4, <2>7, <3>2 DEF Writes
  <2>8. CASE i = 0 /\ queue[1].kind = "purge"
    BY <1>4, <1>7, <2>8
  <2> QED BY <2>6, <2>7, <2>8
<1>11. PurgesFirst'
  <2>1. SUFFICES ASSUME NEW i \in DOMAIN queue', NEW j \in Purges', queue'[i].kind = "refresh"
                 PROVE  j < i
    BY DEF PurgesFirst
  <2>2. j + 1 < i + 1
    BY <1>1, <1>2, <2>1 DEF PurgeInv, PurgesFirst
  <2> QED BY <1>1, <1>2, <2>1, <2>2
<1>12. NothingLeft'
  <2>1. SUFFICES ASSUME purged' PROVE (\A i \in Sources' : Held(i)' = {}) /\ cache[p] = {}
    BY DEF NothingLeft, Held
  <2>2. CASE queue[1].kind \in Writes
    <3>1. purged /\ cache[p] = {} /\ \A i \in Sources : Held(i) = {}
      BY <2>1, <2>2 DEF PurgeInv, NothingLeft, Writes
    <3>2. rows' = {}
      BY <1>4, <1>8, <2>2, <3>1 DEF Writes
    <3> QED BY <1>3, <1>4, <3>1, <3>2
  <2>3. CASE queue[1].kind = "purge"
    <3>1. cache[p] = {} /\ \A i \in DOMAIN queue : queue[i].kind \notin Writes
      BY <1>1, <2>1, <2>3 DEF Pending, Writes
    <3>2. Sources' = {0}
      BY <1>1, <3>1 DEF Sources
    <3> QED BY <1>4, <1>7, <2>3, <3>1, <3>2
  <2> QED BY <2>2, <2>3
<1> QED BY <1>9, <1>10, <1>11, <1>12 DEF PurgeInv

LEMMA PurgeInductive ==
  ASSUME Alone, Inv, PurgeInv, [Next]_vars
  PROVE  PurgeInv'
<1>0. PICK p : Pages = {p}
  BY DEF Alone
<1>a. /\ queue \in Seq(Transactions) /\ cache \in [Pages -> SUBSET AllRows]
      /\ phase \in [Pages -> {"closed", "loading", "open"}] /\ closing \in [Pages -> BOOLEAN]
      /\ cached \in [Pages -> BOOLEAN] /\ failed \in [Pages -> BOOLEAN]
      /\ \A i \in DOMAIN queue : queue[i] \in Transactions /\ queue[i].page = p
  BY <1>0, QueueType DEF Inv, TypeOK
<1>b. purged => rows = {} /\ cache[p] = {}
  <2>1. 0 \in Sources /\ Held(0) = rows
    BY DEF Sources, Held
  <2> QED BY <1>0, <2>1 DEF PurgeInv, NothingLeft
<1>c. mounted[p] \/ cached[p] \/ waiting[p] # "no" => phase[p] = "open"
  BY <1>0 DEF Inv, PagesAtRest
<1>d. \A i \in DOMAIN queue : phase[p] = IF queue[i].kind \in Reads THEN "loading" ELSE "open"
  BY <1>a DEF Inv, QueueInv, QueueByPhase
<1>1. CASE UNCHANGED vars
  BY <1>0, <1>1, <1>b, PurgeSame DEF vars, pageVars, Viewed
<1>2. CASE Open(p)
  <2>1. queue = <<>>
    <3>1. ASSUME queue # <<>> PROVE FALSE
      <4>1. 1 \in DOMAIN queue
        BY <1>a, <3>1, HeadFacts
      <4> QED BY <1>2, <1>d, <4>1 DEF Open
    <3> QED BY <3>1
  <2> DEFINE tx == Tx(p, "readRows", {})
  <2>2. queue' = <<tx>> /\ tx.kind = "readRows"
    BY <1>2, <2>1 DEF Open, Enqueued, Tx
  <2>3. DOMAIN queue' = {1} /\ queue'[1].kind = "readRows"
    <3> HIDE DEF tx
    <3> QED BY <2>2
  <2>4. phase'[p] = "loading" /\ rows' = rows /\ cache' = cache /\ purged' = purged
    BY <1>0, <1>2, <1>a DEF Open
  <2>5. ~ Viewed(p)'
    BY <2>3, <2>4 DEF Viewed
  <2>6. \A i \in DOMAIN queue' : queue'[i].kind \notin Writes \cup {"purge"}
    BY <2>3 DEF Writes
  <2> QED BY <1>0, <1>b, <2>4, <2>5, <2>6, PurgeCalm
<1>3. CASE Mount(p) \/ Flush(p) \/ Refresh(p) \/ CloseConnection(p)
  <2>1. /\ UNCHANGED <<rows, queue, cache, purged, phase>>
        /\ closing' = closing \/ closing'[p]
    BY <1>0, <1>3, <1>a DEF Mount, Flush, Refresh, CloseConnection, pageVars
  <2>2. Viewed(p)' => Viewed(p)
    BY <2>1 DEF Viewed
  <2> QED BY <1>0, <1>b, <2>1, <2>2, PurgeSame
<1>4. ASSUME NEW o \in Rows[p], AppendRow(p, o) PROVE PurgeInv'
  <2> DEFINE tx == Tx(p, "put", {o})
  <2>1. /\ tx \in Transactions /\ tx.kind \in Writes /\ tx.ops = {o}
        /\ queue' = IF closing[p] THEN queue ELSE Append(queue, tx)
    BY <1>0, <1>4 DEF AppendRow, Enqueued, Tx, Transactions, Writes, AllRows
  <2>2. /\ cache'[p] = cache[p] \cup {o} /\ ~ purged' /\ phase[p] = "open"
        /\ UNCHANGED <<rows, phase, closing>>
    BY <1>0, <1>4, <1>a, <1>c DEF AppendRow, pageVars
  <2> HIDE DEF tx
  <2> QED BY <1>0, <2>1, <2>2, PurgeGrown, PurgeSame
<1>5. CASE SaveCheckpoint(p) \/ Unmount(p)
  <2> DEFINE tx == Tx(p, "checkpoint", cache[p])
  <2>1. /\ tx \in Transactions /\ tx.kind \in Writes /\ tx.ops = cache[p]
        /\ queue' = IF closing[p] THEN queue ELSE Append(queue, tx)
    BY <1>0, <1>5, <1>a DEF SaveCheckpoint, Unmount, Save, Enqueued, Tx, Transactions, Writes
  <2>2. phase[p] = "open" /\ UNCHANGED <<rows, phase, closing, cache, purged>>
    BY <1>5, <1>c DEF SaveCheckpoint, Unmount, pageVars
  <2> HIDE DEF tx
  <2> QED BY <1>0, <1>b, <2>1, <2>2, PurgeGrown, PurgeSame
<1>6. CASE Purge(p)
  <2> DEFINE tx == Tx(p, "purge", cache[p])
  <2>1. /\ tx \in Transactions /\ tx.kind = "purge" /\ tx.ops = cache[p]
        /\ queue' = IF closing[p] THEN queue ELSE Append(queue, tx)
    BY <1>0, <1>6, <1>a DEF Purge, Enqueued, Tx, Transactions
  <2>2. /\ cache'[p] = {} /\ purged' = purged /\ phase[p] = "open" /\ waiting[p] # "refresh"
        /\ UNCHANGED <<rows, phase, closing>>
    BY <1>0, <1>6, <1>a, <1>c DEF Purge, pageVars
  <2>3. \A i \in DOMAIN queue : queue[i].kind # "refresh"
    BY <1>a, <2>2 DEF Inv, QueueInv, RefreshSettled
  <2> HIDE DEF tx
  <2> QED BY <1>0, <2>1, <2>2, <2>3, PurgeGrown, PurgeSame
<1>7. CASE Flushed(p)
  <2> DEFINE tx == Tx(p, "refresh", {})
  <2>1. tx \in Transactions /\ tx.kind = "refresh"
    BY <1>0 DEF Tx, Transactions
  <2>2. /\ UNCHANGED <<rows, phase, closing, cache, purged>> /\ phase[p] = "open"
        /\ queue' = queue \/ queue' = Append(queue, tx)
    BY <1>7, <1>c DEF Flushed, pageVars, Enqueued
  <2>3. Viewed(p)
    BY <2>2 DEF Viewed
  <2> HIDE DEF tx
  <2>4. CASE queue' = queue
    BY <1>0, <1>b, <2>2, <2>3, <2>4, PurgeSame
  <2>5. CASE queue' = Append(queue, tx)
    BY <1>0, <2>1, <2>2, <2>5, PurgeGrown
  <2> QED BY <2>2, <2>4, <2>5
<1>8. CASE Crash(p)
  <2>1. /\ UNCHANGED <<rows, purged>> /\ phase'[p] = "closed" /\ cache'[p] = {}
        /\ queue' = Without(p)
    BY <1>0, <1>8, <1>a DEF Crash
  <2>2. DOMAIN queue' = {}
    <3>1. Remains(queue', queue, {i \in DOMAIN queue : queue[i].page = p})
      BY <1>a, <2>1, PageGone
    <3>2. {i \in DOMAIN queue : queue[i].page = p} = DOMAIN queue
      BY <1>a
    <3> QED BY <3>1, <3>2 DEF Remains
  <2>3. ~ Viewed(p)'
    BY <2>1, <2>2 DEF Viewed
  <2> QED BY <1>0, <1>b, <2>1, <2>2, <2>3, PurgeCalm
<1>9. CASE PutCommits \/ CheckpointCommits \/ PurgeCommits
  <2>1. /\ queue # <<>> /\ queue' = Tail(queue) /\ Head(queue) = queue[1]
        /\ UNCHANGED <<phase, closing, cache>>
    BY <1>9, HeadFacts DEF PutCommits, CheckpointCommits, PurgeCommits, Committed, pageVars
  <2>2. \/ /\ queue[1].kind \in Writes /\ rows' = rows \cup queue[1].ops
           /\ purged' = purged
        \/ /\ queue[1].kind = "purge" /\ rows' = rows \ queue[1].ops
           /\ purged' => cache[p] = {} /\ Pending(p) = {}
    BY <1>0, <1>9, <2>1 DEF PutCommits, CheckpointCommits, PurgeCommits, Committed, Deleted, Writes
  <2> QED BY <1>0, <2>1, <2>2, PurgeShrunk
<1>10. ASSUME NEW i \in DOMAIN queue, queue[i].kind \in Reads
       PROVE  \A j \in DOMAIN queue : queue[j].kind \in Reads
  BY <1>10, <1>d
<1>11. CASE RowsRead
  <2>1. 1 \in DOMAIN queue /\ queue[1].kind = "readRows" /\ Head(queue) = queue[1]
    BY <1>11, HeadFacts DEF RowsRead
  <2> DEFINE tx == Tx(p, "readChecks", {})
  <2>2. /\ queue' = Append(Tail(queue), tx) /\ tx.kind = "readChecks"
        /\ cache'[p] = rows /\ UNCHANGED <<rows, purged>>
    BY <1>0, <1>11, <1>a, <2>1 DEF RowsRead, Tx
  <2>3. tx \in Transactions /\ tx.page = p
    BY <1>0 DEF Tx, Transactions, Reads
  <2> HIDE DEF tx
  <2>4. Remains(queue', queue, {})
    <3>1. queue # <<>> /\ queue[1].kind \in Reads /\ tx.kind \in Reads /\ tx.page = queue[1].page
      BY <1>11, <1>a, <2>1, <2>2, <2>3 DEF RowsRead, Reads
    <3> HIDE DEF Transactions
    <3> QED BY <1>a, <2>2, <2>3, <3>1, HeadLast
  <2>5. \A j \in DOMAIN queue' : queue'[j].kind \in Reads
    <3>1. \A j \in DOMAIN queue : queue[j].kind \in Reads
      BY <1>10, <2>1 DEF Reads
    <3> QED BY <2>4, <3>1 DEF Remains
  <2>6. \A j \in DOMAIN queue' : queue'[j].kind \notin Writes \cup {"purge"}
    BY <2>5 DEF Reads, Writes
  <2> QED BY <1>0, <1>b, <2>2, <2>6, PurgeCalm
<1>12. CASE ChecksRead
  <2>1. PICK i \in DOMAIN queue : queue[i].kind = "readChecks" /\ queue' = RemoveAt(queue, i)
    BY <1>12 DEF ChecksRead
  <2>2. UNCHANGED <<rows, closing, cache, purged>>
    BY <1>12 DEF ChecksRead
  <2>3. Remains(queue', queue, {i})
    <3> HIDE DEF Transactions
    <3> QED BY <1>a, <2>1, OneGone
  <2>4. \A j \in DOMAIN queue' : queue'[j].kind \in Reads
    <3>1. \A j \in DOMAIN queue : queue[j].kind \in Reads
      BY <1>10, <2>1 DEF Reads
    <3> QED BY <2>3, <3>1 DEF Remains
  <2>5. \A j \in DOMAIN queue' : queue'[j].kind \notin Writes \cup {"purge"}
    BY <2>4 DEF Reads, Writes
  <2>6. ~ closing[p] => rows \subseteq cache[p]
    <3>1. Viewed(p)
      BY <2>1 DEF Viewed
    <3>2. Purges = {} /\ 0 \in Sources /\ Held(0) = rows
      BY <1>10, <2>1 DEF Purges, Reads, Sources, Held
    <3> QED BY <1>0, <3>1, <3>2 DEF PurgeInv, ViewHolds
  <2> QED BY <1>0, <1>b, <2>2, <2>5, <2>6, PurgeCalm
<1>13. CASE Refreshed
  <2>1. /\ queue # <<>> /\ 1 \in DOMAIN queue /\ queue[1].kind = "refresh"
        /\ queue' = Tail(queue) /\ Remains(queue', queue, {1}) /\ Head(queue) = queue[1]
    BY <1>13, HeadFacts DEF Refreshed, Committed
  <2>2. cache'[p] = rows /\ UNCHANGED <<rows, closing, purged>>
    BY <1>0, <1>13, <1>a, <2>1 DEF Refreshed
  <2>3. \A j \in DOMAIN queue : queue[j].kind \notin Writes \cup {"purge"}
    <3>1. \A j \in DOMAIN queue : queue[j].kind \notin Writes
      BY <1>a, <2>1 DEF Inv, QueueInv, RefreshSettled
    <3>2. \A j \in DOMAIN queue : 1 <= j
      <4> HIDE DEF Transactions
      <4> QED BY <1>a
    <3>3. \A j \in DOMAIN queue : queue[j].kind # "purge"
      <4>1. ASSUME NEW j \in DOMAIN queue, queue[j].kind = "purge" PROVE FALSE
        <5>1. j < 1
          BY <2>1, <4>1 DEF PurgeInv, PurgesFirst, Purges
        <5>2. j \in Nat
          <6> HIDE DEF Transactions
          <6> QED BY <1>a
        <5> QED BY <3>2, <5>1, <5>2
      <4> QED BY <4>1
    <3> QED BY <3>1, <3>3
  <2>4. \A j \in DOMAIN queue' : queue'[j].kind \notin Writes \cup {"purge"}
    BY <2>1, <2>3 DEF Remains, Reads, Writes
  <2> QED BY <1>0, <1>b, <2>2, <2>4, PurgeCalm
<1>14. ~ Aborts
  BY DEF Aborts, Alone
<1> QED
  BY <1>0, <1>1, <1>2, <1>3, <1>4, <1>5, <1>6, <1>7, <1>8, <1>9, <1>11, <1>12, <1>13, <1>14
     DEF Next, Finish

(* store_idb.ts 139-142: with one page and no transaction that aborts, a purge    *)
(* that resolves deleted every row of the instance, whatever writes, refreshes and *)
(* other purges were in progress when it was called. With a second page, or after  *)
(* a purge that aborted, it does not.                                              *)
THEOREM PurgeIsComplete == Alone => (Spec => []PurgeDeletes)
<1> SUFFICES ASSUME Alone PROVE Spec => []PurgeDeletes
  OBVIOUS
<1>1. Init => PurgeInv
  <2>1. Init => /\ Sources = {0} /\ Purges = {} /\ Held(0) = {} /\ DOMAIN queue = {} /\ ~ purged
                /\ \A p \in Pages : phase[p] = "closed"
    BY DEF Init, Sources, Purges, Held
  <2> QED BY <2>1 DEF PurgeInv, PurgesName, ViewHolds, PurgesFirst, NothingLeft, Viewed
<1>2. Inv /\ PurgeInv /\ [Next]_vars => PurgeInv'
  BY PurgeInductive
<1>3. PurgeInv => PurgeDeletes
  <2>1. 0 \in Sources /\ Held(0) = rows
    BY DEF Sources, Held
  <2> QED BY <2>1 DEF PurgeInv, NothingLeft, PurgeDeletes
<1> QED BY <1>1, <1>2, <1>3, Invariant, PTL DEF Spec
===============================================================================
