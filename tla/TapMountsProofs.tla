--------------------------- MODULE TapMountsProofs ---------------------------
(***************************************************************************)
(* Proofs about TapMounts, for any taps, fills, parameters and numbers of  *)
(* operations and failures.                                                *)
(***************************************************************************)
EXTENDS TapMounts, FiniteSetTheorems, TLAPS

MountType == [key : Keys \cup {NoFill}, live : BOOLEAN, instance : {"none", "up", "down", "down, lit"}]
TapType == [fill : Keys \cup {NoFill}, mount : MountType, current : SUBSET Nat]
InstanceType == [refcount : Nat, listeners : SUBSET Taps, lit : BOOLEAN, threw : BOOLEAN]
Tables == UNION {[K -> InstanceType] : K \in SUBSET Keys}
WorldType == [tap : [Taps -> TapType], table : Tables,
              stored : [Keys -> SUBSET Nat], known : [Keys -> SUBSET Nat]]

\* The taps of a runtime w that are mounted on the instance of a key.
On(w, key) == {t \in Taps : w.tap[t].mount = MountOf(key)}

\* How the taps and the instances of a runtime hang together.
TapLinked(w, t) ==
  /\ w.tap[t].mount.live =>
       /\ w.tap[t].mount = MountOf(w.tap[t].mount.key) /\ w.tap[t].fill = w.tap[t].mount.key
       /\ w.tap[t].current = w.stored[w.tap[t].mount.key]
  /\ w.tap[t].mount.instance = "up" => w.tap[t].mount.key \in DOMAIN w.table
  /\ w.tap[t].mount.key = NoFill => w.tap[t].mount = NoMount
  /\ w.tap[t].fill = NoFill => w.tap[t] = Idle

Counted(w, k) ==
  /\ IsFiniteSet(On(w, k))
  /\ w.table[k].listeners = On(w, k) /\ w.table[k].refcount = Cardinality(On(w, k))

Bounded(w, n) ==
  /\ \A k \in Keys : w.stored[k] \subseteq 1 .. n /\ w.known[k] \subseteq 1 .. n
  /\ \A t \in Taps : w.tap[t].current \subseteq 1 .. n

Linked(w, n) ==
  /\ w \in WorldType
  /\ \A t \in Taps : TapLinked(w, t)
  /\ \A k \in DOMAIN w.table : Counted(w, k)
  /\ Bounded(w, n)

\* No instance lives on unmounted but where a mount threw.
NoneLeft(w) == \A k \in DOMAIN w.table : w.table[k].refcount = 0 => w.table[k].threw

WorldOK(w, n) == Linked(w, n) /\ NoneLeft(w)

LEMMA Nothing ==
  /\ NoFill \notin Keys
  /\ NoMount \in MountType /\ Idle \in TapType
  /\ ~ NoMount.live /\ NoMount.instance = "none" /\ NoMount.key = NoFill
  /\ Idle.fill = NoFill /\ Idle.mount = NoMount /\ Idle.current = {}
  /\ \A k \in Keys : /\ MountOf(k) \in MountType /\ MountOf(k).key = k /\ MountOf(k).live
                     /\ MountOf(k).instance = "up"
<1>1. NoFill \notin Keys
  <2>1. \A k \in Keys : DOMAIN k = 1 .. 3
    BY DEF Keys
  <2>2. 1 \in 1 .. 3 /\ 1 \notin DOMAIN NoFill
    BY DEF NoFill
  <2> QED BY <2>1, <2>2
<1>2. NoMount \in MountType /\ Idle \in TapType
  BY DEF NoMount, Idle, MountType, TapType
<1> QED BY <1>1, <1>2 DEF NoMount, Idle, MountOf, MountType

LEMMA Tabled ==
  ASSUME NEW f
  PROVE  f \in Tables <=> DOMAIN f \subseteq Keys /\ f \in [DOMAIN f -> InstanceType]
<1>1. ASSUME f \in Tables PROVE DOMAIN f \subseteq Keys /\ f \in [DOMAIN f -> InstanceType]
  <2>1. PICK K \in SUBSET Keys : f \in [K -> InstanceType]
    BY <1>1 DEF Tables
  <2> QED BY <2>1
<1>2. ASSUME DOMAIN f \subseteq Keys, f \in [DOMAIN f -> InstanceType] PROVE f \in Tables
  BY <1>2 DEF Tables
<1> QED BY <1>1, <1>2

\* What is known of the parts of a runtime.
LEMMA WorldFacts ==
  ASSUME NEW w, w \in WorldType
  PROVE  /\ w.tap \in [Taps -> TapType] /\ w.stored \in [Keys -> SUBSET Nat]
         /\ w.known \in [Keys -> SUBSET Nat]
         /\ DOMAIN w.table \subseteq Keys /\ w.table \in [DOMAIN w.table -> InstanceType]
         /\ w = [tap |-> w.tap, table |-> w.table, stored |-> w.stored, known |-> w.known]
         /\ \A t \in Taps : /\ w.tap[t] \in TapType /\ w.tap[t].mount \in MountType
                            /\ w.tap[t].mount.live \in BOOLEAN
                            /\ w.tap[t].mount.key \in Keys \cup {NoFill}
                            /\ w.tap[t].fill \in Keys \cup {NoFill}
<1>1. w.tap \in [Taps -> TapType] /\ w.table \in Tables
  BY DEF WorldType
<1>2. \A t \in Taps : w.tap[t] \in TapType /\ w.tap[t].mount \in MountType
  BY <1>1 DEF TapType
<1> QED BY <1>1, <1>2, Tabled DEF WorldType, TapType, MountType

\* A runtime put together from its parts.
LEMMA WorldBuilt ==
  ASSUME NEW w, w \in WorldType
  PROVE  /\ \A f \in [Taps -> TapType] :
              /\ [w EXCEPT !.tap = f] \in WorldType /\ [w EXCEPT !.tap = f].tap = f
              /\ [w EXCEPT !.tap = f].table = w.table /\ [w EXCEPT !.tap = f].stored = w.stored
              /\ [w EXCEPT !.tap = f].known = w.known
         /\ \A f \in Tables :
              /\ [w EXCEPT !.table = f] \in WorldType /\ [w EXCEPT !.table = f].table = f
              /\ [w EXCEPT !.table = f].tap = w.tap /\ [w EXCEPT !.table = f].stored = w.stored
              /\ [w EXCEPT !.table = f].known = w.known
         /\ \A f \in [Keys -> SUBSET Nat] :
              /\ [w EXCEPT !.stored = f] \in WorldType /\ [w EXCEPT !.stored = f].stored = f
              /\ [w EXCEPT !.stored = f].tap = w.tap /\ [w EXCEPT !.stored = f].table = w.table
              /\ [w EXCEPT !.stored = f].known = w.known
         /\ \A f \in [Keys -> SUBSET Nat] :
              /\ [w EXCEPT !.known = f] \in WorldType /\ [w EXCEPT !.known = f].known = f
              /\ [w EXCEPT !.known = f].tap = w.tap /\ [w EXCEPT !.known = f].table = w.table
              /\ [w EXCEPT !.known = f].stored = w.stored
BY DEF WorldType

-----------------------------------------------------------------------------
(* What an instance takes in is shown by the taps that are mounted on it. *)

LEMMA FannedFacts ==
  ASSUME NEW w, w \in WorldType, NEW key \in DOMAIN w.table
  PROVE  /\ Fanned(w, key) \in WorldType /\ Fanned(w, key).table = w.table
         /\ Fanned(w, key).stored = w.stored /\ Fanned(w, key).known = w.known
         /\ \A t \in Taps :
              /\ Fanned(w, key).tap[t].fill = w.tap[t].fill
              /\ Fanned(w, key).tap[t].mount = w.tap[t].mount
              /\ Fanned(w, key).tap[t].current =
                   IF t \in w.table[key].listeners THEN w.stored[key] ELSE w.tap[t].current
<1> DEFINE f == [t \in Taps |-> IF t \in w.table[key].listeners
                                THEN [w.tap[t] EXCEPT !.current = w.stored[key]] ELSE w.tap[t]]
<1>1. w.stored[key] \in SUBSET Nat /\ \A t \in Taps : w.tap[t] \in TapType
  BY WorldFacts
<1>2. \A t \in Taps :
        /\ f[t] \in TapType /\ f[t].fill = w.tap[t].fill /\ f[t].mount = w.tap[t].mount
        /\ f[t].current = IF t \in w.table[key].listeners THEN w.stored[key] ELSE w.tap[t].current
  BY <1>1 DEF TapType
<1>3. f \in [Taps -> TapType] /\ Fanned(w, key) = [w EXCEPT !.tap = f]
  BY <1>2 DEF Fanned
<1> HIDE DEF f
<1> QED BY <1>2, <1>3, WorldBuilt

LEMMA IngestedOK ==
  ASSUME NEW w, NEW n \in Nat, Linked(w, n), NEW key \in DOMAIN w.table,
         NEW ops \in SUBSET (1 .. n)
  PROVE  /\ Linked(Ingested(w, key, ops), n)
         /\ Ingested(w, key, ops).table = w.table /\ Ingested(w, key, ops).known = w.known
         /\ \A t \in Taps : /\ Ingested(w, key, ops).tap[t].fill = w.tap[t].fill
                            /\ Ingested(w, key, ops).tap[t].mount = w.tap[t].mount
<1>1. CASE ops \subseteq w.stored[key]
  BY <1>1 DEF Ingested
<1>2. CASE ~ (ops \subseteq w.stored[key])
  <2> DEFINE s == [w.stored EXCEPT ![key] = @ \cup ops]
             x == [w EXCEPT !.stored = s]
             g == Fanned(x, key)
  <2>1. /\ w \in WorldType /\ key \in Keys /\ w.stored \in [Keys -> SUBSET Nat] /\ w.stored[key] \in SUBSET Nat
        /\ ops \in SUBSET Nat
    BY WorldFacts DEF Linked
  <2>2. /\ s \in [Keys -> SUBSET Nat] /\ s[key] = w.stored[key] \cup ops
        /\ \A k \in Keys \ {key} : s[k] = w.stored[k]
    BY <2>1
  <2>3. Ingested(w, key, ops) = g
    BY <1>2, <2>1 DEF Ingested, WorldType
  <2> HIDE DEF s
  <2>4. x \in WorldType /\ x.tap = w.tap /\ x.table = w.table /\ x.stored = s /\ x.known = w.known
    BY <2>1, <2>2, WorldBuilt
  <2> HIDE DEF x
  <2>5. /\ g \in WorldType /\ g.table = w.table /\ g.stored = s /\ g.known = w.known
        /\ \A t \in Taps :
             /\ g.tap[t].fill = w.tap[t].fill /\ g.tap[t].mount = w.tap[t].mount
             /\ g.tap[t].current = IF t \in w.table[key].listeners THEN s[key] ELSE w.tap[t].current
    BY <2>4, FannedFacts
  <2> HIDE DEF g
  <2>6. w.table[key].listeners = On(w, key)
    BY DEF Linked, Counted
  <2>7. ASSUME NEW t \in Taps PROVE TapLinked(g, t)
    <3>1. TapLinked(w, t) /\ g.tap[t] \in TapType /\ w.tap[t] \in TapType /\ w.tap[t].mount.key \in Keys \cup {NoFill}
      BY <2>1, <2>5, WorldFacts DEF Linked
    <3>2. w.tap[t].mount.live => g.tap[t].current = g.stored[w.tap[t].mount.key]
      <4>1. CASE t \in On(w, key)
        <5>1. w.tap[t].mount.key = key
          BY <2>1, <4>1, Nothing DEF On
        <5> QED BY <2>5, <2>6, <4>1, <5>1
      <4>2. CASE t \notin On(w, key)
        <5>1. w.tap[t].mount.live => w.tap[t].mount.key \in Keys \ {key}
          BY <3>1, <4>2, Nothing DEF TapLinked, On
        <5> QED BY <2>2, <2>5, <2>6, <3>1, <4>2, <5>1 DEF TapLinked
      <4> QED BY <4>1, <4>2
    <3>3. w.tap[t].fill = NoFill => g.tap[t] = Idle
      <4>1. w.tap[t].fill = NoFill => t \notin On(w, key)
        BY <2>1, <3>1, Nothing DEF TapLinked, On
      <4>2. \A a, b \in TapType : a.fill = b.fill /\ a.mount = b.mount /\ a.current = b.current => a = b
        BY DEF TapType
      <4> QED BY <2>5, <2>6, <3>1, <4>1, <4>2 DEF TapLinked
    <3> QED BY <2>5, <3>1, <3>2, <3>3 DEF TapLinked
  <2>8. \A k : On(g, k) = On(w, k)
    BY <2>5 DEF On
  <2>9. \A k \in DOMAIN g.table : Counted(g, k)
    BY <2>5, <2>8 DEF Linked, Counted
  <2>10. Bounded(g, n)
    BY <2>1, <2>2, <2>5 DEF Linked, Bounded
  <2> QED BY <2>3, <2>5, <2>7, <2>9, <2>10 DEF Linked
<1> QED BY <1>1, <1>2

-----------------------------------------------------------------------------
(* Mounting. *)

LEMMA WithFacts ==
  ASSUME NEW f \in Tables, NEW key \in Keys, NEW x \in InstanceType
  PROVE  /\ With(f, key, x) \in Tables /\ DOMAIN With(f, key, x) = DOMAIN f \cup {key}
         /\ \A k \in DOMAIN f \cup {key} : With(f, key, x)[k] = IF k = key THEN x ELSE f[k]
<1>1. DOMAIN f \subseteq Keys /\ f \in [DOMAIN f -> InstanceType]
  BY Tabled
<1> DEFINE g == With(f, key, x)
<1>2. g \in [DOMAIN f \cup {key} -> InstanceType]
  BY <1>1 DEF With
<1>3. DOMAIN g \subseteq Keys /\ g \in [DOMAIN g -> InstanceType]
  BY <1>1, <1>2
<1>4. g \in Tables
  BY <1>3, Tabled
<1> QED BY <1>4 DEF With

LEMMA InstanceFacts ==
  ASSUME NEW w, NEW n, Linked(w, n), NEW key \in Keys
  PROVE  /\ Instance(w, key) \in InstanceType
         /\ IsFiniteSet(On(w, key))
         /\ Instance(w, key).listeners = On(w, key)
         /\ Instance(w, key).refcount = Cardinality(On(w, key))
<1>1. w.table \in [DOMAIN w.table -> InstanceType] /\ w \in WorldType
  BY WorldFacts DEF Linked
<1>2. CASE key \in DOMAIN w.table
  BY <1>1, <1>2 DEF Instance, Linked, Counted
<1>3. CASE key \notin DOMAIN w.table
  <2>1. On(w, key) = {}
    <3>1. ASSUME NEW t \in Taps, w.tap[t].mount = MountOf(key) PROVE FALSE
      <4>1. w.tap[t].mount.instance = "up" /\ w.tap[t].mount.key = key
        BY <3>1, Nothing
      <4> QED BY <1>3, <4>1 DEF Linked, TapLinked
    <3> QED BY <3>1 DEF On
  <2> QED BY <1>3, <2>1, FS_EmptySet DEF Instance, InstanceType
<1> QED BY <1>2, <1>3

\* An instance that is lit, marked or new, and counted as before.
EntryIn(w, key, x) == [w EXCEPT !.table = With(@, key, x)]

LEMMA EntryOK ==
  ASSUME NEW w, NEW n, Linked(w, n), NEW key \in Keys, NEW x \in InstanceType,
         x.refcount = Instance(w, key).refcount, x.listeners = Instance(w, key).listeners
  PROVE  /\ Linked(EntryIn(w, key, x), n)
         /\ EntryIn(w, key, x).tap = w.tap /\ EntryIn(w, key, x).stored = w.stored
         /\ EntryIn(w, key, x).known = w.known
         /\ DOMAIN EntryIn(w, key, x).table = DOMAIN w.table \cup {key}
         /\ \A k \in DOMAIN w.table \cup {key} :
              EntryIn(w, key, x).table[k] = IF k = key THEN x ELSE w.table[k]
<1> DEFINE f == With(w.table, key, x)
           g == EntryIn(w, key, x)
<1>1. w \in WorldType /\ w.table \in Tables
  BY WorldFacts, Tabled DEF Linked
<1>2. /\ f \in Tables /\ DOMAIN f = DOMAIN w.table \cup {key}
      /\ \A k \in DOMAIN w.table \cup {key} : f[k] = IF k = key THEN x ELSE w.table[k]
  <2>1. w.table \in Tables
    BY <1>1
  <2> QED BY <2>1, WithFacts, ZenonT(30)
<1>3. g = [w EXCEPT !.table = f]
  BY <1>1 DEF EntryIn, WorldType
<1> HIDE DEF f
<1>4. g \in WorldType /\ g.table = f /\ g.tap = w.tap /\ g.stored = w.stored /\ g.known = w.known
  BY <1>1, <1>2, <1>3, WorldBuilt
<1> HIDE DEF g
<1>5. \A t \in Taps : TapLinked(g, t)
  BY <1>2, <1>4 DEF Linked, TapLinked
<1>6. \A k \in DOMAIN g.table : Counted(g, k)
  <2>1. \A k : On(g, k) = On(w, k)
    BY <1>4 DEF On
  <2>2. Counted(g, key)
    BY <1>2, <1>4, <2>1, InstanceFacts DEF Counted
  <2>3. \A k \in DOMAIN w.table \ {key} : Counted(g, k)
    BY <1>2, <1>4, <2>1 DEF Counted, Linked
  <2> QED BY <1>2, <1>4, <2>2, <2>3
<1>7. Bounded(g, n)
  BY <1>4 DEF Linked, Bounded
<1> QED BY <1>2, <1>4, <1>5, <1>6, <1>7 DEF Linked, g

LEMMA OpenedOK ==
  ASSUME NEW w, NEW n \in Nat, Linked(w, n), NEW t \in Taps, NEW key \in Keys
  PROVE  /\ Linked(Opened(w, t, key), n)
         /\ \A u \in Taps : /\ Opened(w, t, key).tap[u].fill = w.tap[u].fill
                            /\ Opened(w, t, key).tap[u].mount = w.tap[u].mount
         /\ DOMAIN Opened(w, t, key).table = DOMAIN w.table \cup {key}
         /\ \A k \in DOMAIN w.table \ {key} : Opened(w, t, key).table[k] = w.table[k]
<1> DEFINE old == Instance(w, key)
           x == [old EXCEPT !.lit = old.lit \/ t \in Lit]
           g == EntryIn(w, key, x)
<1>1. old \in InstanceType /\ w \in WorldType
  BY InstanceFacts DEF Linked
<1>2. x \in InstanceType /\ x.refcount = old.refcount /\ x.listeners = old.listeners
  <2> HIDE DEF old
  <2>1. old.lit \in BOOLEAN /\ (old.lit \/ t \in Lit) \in BOOLEAN
    BY <1>1 DEF InstanceType
  <2> QED BY <1>1, <2>1 DEF InstanceType
<1>3. Opened(w, t, key) \in {g, Ingested(g, key, w.known[key])}
  BY DEF Opened, EntryIn
<1> HIDE DEF x
<1>4. /\ Linked(g, n) /\ g.tap = w.tap /\ g.known = w.known
      /\ DOMAIN g.table = DOMAIN w.table \cup {key}
      /\ \A k \in DOMAIN w.table \ {key} : g.table[k] = w.table[k]
  BY <1>2, EntryOK
<1> HIDE DEF g
<1>5. w.known[key] \in SUBSET (1 .. n) /\ key \in DOMAIN g.table
  BY <1>4 DEF Linked, Bounded
<1>6. /\ Linked(Ingested(g, key, w.known[key]), n)
      /\ Ingested(g, key, w.known[key]).table = g.table
      /\ \A u \in Taps : /\ Ingested(g, key, w.known[key]).tap[u].fill = g.tap[u].fill
                         /\ Ingested(g, key, w.known[key]).tap[u].mount = g.tap[u].mount
  BY <1>4, <1>5, IngestedOK
<1> QED BY <1>3, <1>4, <1>6

\* The other taps keep what they are mounted on.
OthersKept(g, w, t) ==
  \A u \in Taps \ {t} : g.tap[u].fill = w.tap[u].fill /\ (g.tap[u].mount.live <=> w.tap[u].mount.live)

LEMMA MountedOK ==
  ASSUME NEW w, NEW n \in Nat, WorldOK(w, n), NEW t \in Taps, NEW key \in Keys,
         ~ w.tap[t].mount.live
  PROVE  /\ WorldOK(Mounted(w, t, key), n) /\ OthersKept(Mounted(w, t, key), w, t)
         /\ Mounted(w, t, key).tap[t].fill = key /\ Mounted(w, t, key).tap[t].mount = MountOf(key)
<1> DEFINE o == Opened(w, t, key)
           old == o.table[key]
           e == [old EXCEPT !.refcount = old.refcount + 1, !.listeners = old.listeners \cup {t}]
           f == [o.table EXCEPT ![key] = e]
           x == [fill |-> key, mount |-> MountOf(key), current |-> o.stored[key]]
           q == [o.tap EXCEPT ![t] = x]
           y == [o EXCEPT !.table = f]
           g == [y EXCEPT !.tap = q]
<1>1. /\ Linked(o, n) /\ DOMAIN o.table = DOMAIN w.table \cup {key}
      /\ \A u \in Taps : o.tap[u].fill = w.tap[u].fill /\ o.tap[u].mount = w.tap[u].mount
      /\ \A k \in DOMAIN w.table \ {key} : o.table[k] = w.table[k]
  BY OpenedOK DEF WorldOK
<1>2. Mounted(w, t, key) = g
  <2>1. o \in WorldType
    BY <1>1 DEF Linked
  <2> HIDE DEF o
  <2>2. [o EXCEPT !.table[key] = e, !.tap[t] = x] = g
    <3> HIDE DEF e, x
    <3> QED BY <2>1 DEF WorldType
  <2> QED BY <2>2 DEF Mounted, o
<1> HIDE DEF o
<1>3. /\ o \in WorldType /\ o.tap \in [Taps -> TapType] /\ o.stored[key] \in SUBSET Nat
      /\ DOMAIN o.table \subseteq Keys /\ o.table \in [DOMAIN o.table -> InstanceType]
      /\ o.table[key] \in InstanceType
  <2>1. /\ o \in WorldType /\ o.tap \in [Taps -> TapType] /\ o.stored \in [Keys -> SUBSET Nat]
        /\ DOMAIN o.table \subseteq Keys /\ o.table \in [DOMAIN o.table -> InstanceType]
    BY <1>1, WorldFacts DEF Linked
  <2>2. key \in DOMAIN o.table
    BY <1>1
  <2> QED BY <2>1, <2>2
<1>4. /\ e \in InstanceType /\ e.refcount = o.table[key].refcount + 1
      /\ e.listeners = o.table[key].listeners \cup {t}
  <2>1. old \in InstanceType /\ old.refcount + 1 \in Nat
    BY <1>3 DEF InstanceType
  <2> HIDE DEF old
  <2>2. e \in InstanceType /\ e.refcount = old.refcount + 1 /\ e.listeners = old.listeners \cup {t}
    BY <2>1 DEF InstanceType
  <2> QED BY <2>2 DEF old
<1> HIDE DEF e
<1>5. /\ f \in Tables /\ DOMAIN f = DOMAIN o.table /\ f[key] = e
      /\ \A k \in DOMAIN f \ {key} : f[k] = o.table[k]
  BY <1>1, <1>3, <1>4, Tabled
<1>6. x \in TapType /\ x.fill = key /\ x.mount = MountOf(key) /\ x.current = o.stored[key]
  BY <1>3, Nothing DEF TapType
<1> HIDE DEF x, f
<1>7. q \in [Taps -> TapType] /\ q[t] = x /\ \A u \in Taps \ {t} : q[u] = o.tap[u]
  BY <1>3, <1>6
<1> HIDE DEF q
<1>8. g \in WorldType /\ g.table = f /\ g.tap = q /\ g.stored = o.stored /\ g.known = o.known
  <2>1. y \in WorldType /\ y.table = f /\ y.stored = o.stored /\ y.known = o.known
    BY <1>3, <1>5, WorldBuilt
  <2> HIDE DEF y
  <2> QED BY <1>7, <2>1, WorldBuilt
<1> HIDE DEF g
<1>9. /\ On(g, key) = On(o, key) \cup {t} /\ t \notin On(o, key)
      /\ \A k \in Keys \ {key} : On(g, k) = On(o, k)
  <2>1. /\ g.tap[t].mount = MountOf(key) /\ ~ o.tap[t].mount.live
        /\ \A u \in Taps \ {t} : g.tap[u].mount = o.tap[u].mount
    BY <1>1, <1>6, <1>7, <1>8
  <2>2. \A k \in Keys : MountOf(k).live /\ MountOf(k).key = k
    BY Nothing
  <2>3. \A k \in Keys : t \notin On(o, k) /\ \A u \in Taps \ {t} : u \in On(g, k) <=> u \in On(o, k)
    BY <2>1, <2>2 DEF On
  <2>4. t \in On(g, key) /\ \A k \in Keys \ {key} : t \notin On(g, k)
    BY <2>1, <2>2 DEF On
  <2>5. \A k : \A u : u \in On(g, k) \/ u \in On(o, k) => u \in Taps
    BY DEF On
  <2>6. On(g, key) = On(o, key) \cup {t}
    BY <2>3, <2>4, <2>5
  <2>7. ASSUME NEW k \in Keys \ {key} PROVE On(g, k) = On(o, k)
    <3>1. t \notin On(o, k) /\ t \notin On(g, k)
      BY <2>3, <2>4
    <3>2. \A u : u \in On(g, k) <=> u \in On(o, k)
      BY <2>3, <2>5, <3>1
    <3> QED BY <3>2
  <2> QED BY <2>3, <2>6, <2>7
<1>10. \A u \in Taps : TapLinked(g, u)
  <2>1. TapLinked(g, t)
    BY <1>1, <1>5, <1>6, <1>7, <1>8, Nothing DEF TapLinked
  <2>2. ASSUME NEW u \in Taps \ {t} PROVE TapLinked(g, u)
    BY <1>5, <1>7, <1>8, <1>1 DEF TapLinked, Linked
  <2> QED BY <2>1, <2>2
<1>11. \A k \in DOMAIN g.table : Counted(g, k)
  <2>1. Counted(o, key) /\ IsFiniteSet(On(o, key))
    BY <1>1 DEF Linked, Counted
  <2>2. IsFiniteSet(On(g, key)) /\ Cardinality(On(g, key)) = Cardinality(On(o, key)) + 1
    BY <1>9, <2>1, FS_AddElement
  <2>3. Counted(g, key)
    BY <1>4, <1>5, <1>8, <1>9, <2>1, <2>2 DEF Counted
  <2>4. \A k \in DOMAIN g.table \ {key} : Counted(g, k)
    BY <1>1, <1>3, <1>5, <1>8, <1>9 DEF Counted, Linked
  <2> QED BY <2>3, <2>4
<1>12. Bounded(g, n)
  <2>1. Bounded(o, n)
    BY <1>1 DEF Linked
  <2> QED BY <1>6, <1>7, <1>8, <2>1 DEF Bounded
<1>13. NoneLeft(g)
  <2>1. g.table[key].refcount # 0
    BY <1>3, <1>4, <1>5, <1>8 DEF InstanceType
  <2>2. \A k \in DOMAIN g.table \ {key} : g.table[k] = w.table[k] /\ k \in DOMAIN w.table
    BY <1>1, <1>5, <1>8
  <2> QED BY <2>1, <2>2 DEF NoneLeft, WorldOK
<1>14. OthersKept(g, w, t)
  BY <1>1, <1>7, <1>8 DEF OthersKept
<1> QED BY <1>2, <1>6, <1>7, <1>8, <1>10, <1>11, <1>12, <1>13, <1>14 DEF WorldOK, Linked

\* A mount that throws leaves the tap with the fill it wanted; the instance may be
\* in the table already.
LEMMA FilledOK ==
  ASSUME NEW w, NEW n, Linked(w, n), NEW t \in Taps, NEW key \in Keys, ~ w.tap[t].mount.live
  PROVE  LET g == [w EXCEPT !.tap[t].fill = key] IN
         /\ Linked(g, n) /\ OthersKept(g, w, t) /\ g.table = w.table
         /\ g.tap[t].fill = key
<1> DEFINE x == [w.tap[t] EXCEPT !.fill = key]
           q == [w.tap EXCEPT ![t] = x]
           g == [w EXCEPT !.tap = q]
<1>1. w \in WorldType /\ w.tap \in [Taps -> TapType] /\ w.tap[t] \in TapType
  BY WorldFacts DEF Linked
<1>2. [w EXCEPT !.tap[t].fill = key] = g
  BY <1>1 DEF WorldType
<1>3. x \in TapType /\ x.fill = key /\ x.mount = w.tap[t].mount /\ x.current = w.tap[t].current
  BY <1>1 DEF TapType
<1> HIDE DEF x
<1>4. q \in [Taps -> TapType] /\ q[t] = x /\ \A u \in Taps \ {t} : q[u] = w.tap[u]
  BY <1>1, <1>3
<1> HIDE DEF q
<1>5. g \in WorldType /\ g.tap = q /\ g.table = w.table /\ g.stored = w.stored /\ g.known = w.known
  BY <1>1, <1>4, WorldBuilt
<1> HIDE DEF g
<1>6. \A u \in Taps : TapLinked(g, u)
  <2>1. TapLinked(g, t)
    BY <1>3, <1>4, <1>5, Nothing DEF TapLinked, Linked
  <2>2. ASSUME NEW u \in Taps \ {t} PROVE TapLinked(g, u)
    BY <1>4, <1>5 DEF TapLinked, Linked
  <2> QED BY <2>1, <2>2
<1>7. \A k \in DOMAIN g.table : Counted(g, k)
  <2>1. \A u \in Taps : g.tap[u].mount = w.tap[u].mount
    BY <1>3, <1>4, <1>5
  <2>2. \A k : On(g, k) = On(w, k)
    BY <2>1 DEF On
  <2> QED BY <1>5, <2>2 DEF Linked, Counted
<1>8. Bounded(g, n)
  BY <1>3, <1>4, <1>5 DEF Linked, Bounded
<1>9. OthersKept(g, w, t)
  BY <1>4, <1>5 DEF OthersKept
<1> QED BY <1>2, <1>3, <1>4, <1>5, <1>6, <1>7, <1>8, <1>9 DEF Linked

LEMMA MountRefusedOK ==
  ASSUME NEW w, NEW n, WorldOK(w, n), NEW t \in Taps, NEW key \in Keys, ~ w.tap[t].mount.live
  PROVE  /\ WorldOK(MountRefused(w, t, key), n) /\ OthersKept(MountRefused(w, t, key), w, t)
         /\ MountRefused(w, t, key).tap[t].fill = key
BY FilledOK DEF MountRefused, WorldOK, NoneLeft

LEMMA MountedHalfOK ==
  ASSUME NEW w, NEW n, WorldOK(w, n), NEW t \in Taps, NEW key \in Keys, ~ w.tap[t].mount.live
  PROVE  /\ WorldOK(MountedHalf(w, t, key), n) /\ OthersKept(MountedHalf(w, t, key), w, t)
         /\ MountedHalf(w, t, key).tap[t].fill = key
<1> DEFINE old == Instance(w, key)
           x == [old EXCEPT !.lit = TRUE, !.threw = TRUE]
           y == EntryIn(w, key, x)
           g == [y EXCEPT !.tap[t].fill = key]
<1>1. old \in InstanceType /\ w \in WorldType
  BY InstanceFacts DEF WorldOK, Linked
<1>2. x \in InstanceType /\ x.refcount = old.refcount /\ x.listeners = old.listeners /\ x.threw
  <2> HIDE DEF old
  <2> QED BY <1>1 DEF InstanceType
<1>3. MountedHalf(w, t, key) = g
  <2> HIDE DEF x
  <2> QED BY <1>1 DEF MountedHalf, EntryIn, WorldType, x
<1> HIDE DEF x, old
<1>4. /\ Linked(y, n) /\ y.tap = w.tap /\ DOMAIN y.table = DOMAIN w.table \cup {key}
      /\ \A k \in DOMAIN w.table \cup {key} : y.table[k] = IF k = key THEN x ELSE w.table[k]
  BY <1>2, EntryOK DEF WorldOK, old
<1> HIDE DEF y
<1>5. Linked(g, n) /\ OthersKept(g, y, t) /\ g.table = y.table /\ g.tap[t].fill = key
  BY <1>4, FilledOK
<1> HIDE DEF g
<1>6. NoneLeft(g)
  BY <1>2, <1>4, <1>5 DEF NoneLeft, WorldOK
<1> QED BY <1>3, <1>4, <1>5, <1>6 DEF WorldOK, OthersKept

-----------------------------------------------------------------------------
(* Unmounting. *)

\* The instance has other mounts: it is counted down.
CountedDown(w, t) ==
  LET key == w.tap[t].mount.key
      old == w.table[key]
  IN  [w EXCEPT
         !.tap[t].mount.live = FALSE,
         !.table[key] = [old EXCEPT !.refcount = old.refcount - 1, !.listeners = old.listeners \ {t}]]

LEMMA CountedDownOK ==
  ASSUME NEW w, NEW n, WorldOK(w, n), NEW t \in Taps, w.tap[t].mount.live,
         w.table[w.tap[t].mount.key].refcount > 1
  PROVE  /\ WorldOK(CountedDown(w, t), n) /\ OthersKept(CountedDown(w, t), w, t)
         /\ ~ CountedDown(w, t).tap[t].mount.live
<1> DEFINE key == w.tap[t].mount.key
           old == w.table[key]
           e == [old EXCEPT !.refcount = old.refcount - 1, !.listeners = old.listeners \ {t}]
           f == [w.table EXCEPT ![key] = e]
           x == [w.tap[t] EXCEPT !.mount.live = FALSE]
           q == [w.tap EXCEPT ![t] = x]
           y == [w EXCEPT !.tap = q]
           g == [y EXCEPT !.table = f]
<1>1. /\ w \in WorldType /\ Linked(w, n) /\ TapLinked(w, t)
      /\ w.tap \in [Taps -> TapType] /\ w.tap[t] \in TapType /\ w.tap[t].mount \in MountType
      /\ DOMAIN w.table \subseteq Keys /\ w.table \in [DOMAIN w.table -> InstanceType]
  BY WorldFacts DEF WorldOK, Linked
<1>2. w.tap[t].mount = MountOf(key) /\ key \in Keys /\ key \in DOMAIN w.table /\ w.tap[t].fill = key
  <2>1. w.tap[t].mount = MountOf(key) /\ w.tap[t].fill = key
    BY <1>1 DEF TapLinked
  <2>2. w.tap[t].mount.instance = "up"
    BY <2>1 DEF MountOf
  <2> QED BY <1>1, <2>1, <2>2 DEF TapLinked
<1>3. CountedDown(w, t) = g
  <2> HIDE DEF e
  <2>1. [w EXCEPT !.tap[t].mount.live = FALSE, !.table[key] = e] = g
    BY <1>1 DEF WorldType, TapType
  <2> QED BY <2>1 DEF CountedDown, e
<1>4. /\ old \in InstanceType /\ Counted(w, key) /\ old.refcount > 1
      /\ t \in On(w, key)
  BY <1>1, <1>2 DEF Linked, On
<1> HIDE DEF old
<1>5. e \in InstanceType /\ e.refcount = old.refcount - 1 /\ e.listeners = old.listeners \ {t}
  <2>1. old.refcount - 1 \in Nat
    BY <1>4 DEF InstanceType
  <2> QED BY <1>4, <2>1 DEF InstanceType
<1> HIDE DEF e
<1>6. f \in Tables /\ DOMAIN f = DOMAIN w.table /\ f[key] = e /\ \A k \in DOMAIN f \ {key} : f[k] = w.table[k]
  BY <1>1, <1>2, <1>5, Tabled
<1>7. /\ x \in TapType /\ x.fill = w.tap[t].fill /\ x.current = w.tap[t].current
      /\ ~ x.mount.live /\ x.mount.key = key /\ x.mount.instance = "up"
  <2>1. w.tap[t].mount.instance = "up"
    BY <1>2 DEF MountOf
  <2> QED BY <1>1, <2>1 DEF TapType, MountType
<1> HIDE DEF x, f
<1>8. q \in [Taps -> TapType] /\ q[t] = x /\ \A u \in Taps \ {t} : q[u] = w.tap[u]
  BY <1>1, <1>7
<1> HIDE DEF q
<1>9. g \in WorldType /\ g.table = f /\ g.tap = q /\ g.stored = w.stored /\ g.known = w.known
  <2>1. y \in WorldType /\ y.tap = q /\ y.table = w.table /\ y.stored = w.stored /\ y.known = w.known
    BY <1>1, <1>8, WorldBuilt
  <2> HIDE DEF y
  <2> QED BY <1>6, <2>1, WorldBuilt
<1> HIDE DEF g, key
<1>10. /\ On(g, key) = On(w, key) \ {t}
       /\ \A k \in Keys \ {key} : On(g, k) = On(w, k)
  <2>1. \A k \in Keys : MountOf(k).live /\ MountOf(k).key = k
    BY Nothing
  <2>2. \A k \in Keys : t \notin On(g, k) /\ \A u \in Taps \ {t} : u \in On(g, k) <=> u \in On(w, k)
    BY <1>7, <1>8, <1>9, <2>1 DEF On
  <2>3. \A k \in Keys \ {key} : t \notin On(w, k)
    BY <1>2, <2>1 DEF On
  <2>4. \A k : \A u : u \in On(g, k) \/ u \in On(w, k) => u \in Taps
    BY DEF On
  <2>5. On(g, key) = On(w, key) \ {t}
    BY <1>2, <2>2, <2>4
  <2>6. ASSUME NEW k \in Keys \ {key} PROVE On(g, k) = On(w, k)
    <3>1. \A u : u \in On(g, k) <=> u \in On(w, k)
      BY <2>2, <2>3, <2>4
    <3> QED BY <3>1
  <2> QED BY <2>5, <2>6
<1>11. \A u \in Taps : TapLinked(g, u)
  <2>1. TapLinked(g, t)
    BY <1>2, <1>6, <1>7, <1>8, <1>9, Nothing DEF TapLinked
  <2>2. ASSUME NEW u \in Taps \ {t} PROVE TapLinked(g, u)
    BY <1>1, <1>6, <1>8, <1>9 DEF TapLinked, Linked
  <2> QED BY <2>1, <2>2
<1>12. \A k \in DOMAIN g.table : Counted(g, k)
  <2>1. IsFiniteSet(On(g, key)) /\ Cardinality(On(g, key)) = Cardinality(On(w, key)) - 1
    BY <1>4, <1>10, FS_RemoveElement DEF Counted
  <2>2. Counted(g, key)
    BY <1>4, <1>5, <1>6, <1>9, <1>10, <2>1 DEF Counted, old
  <2>3. \A k \in DOMAIN g.table \ {key} : Counted(g, k)
    BY <1>1, <1>6, <1>9, <1>10 DEF Counted, Linked
  <2> QED BY <2>2, <2>3
<1>13. Bounded(g, n)
  BY <1>1, <1>7, <1>8, <1>9 DEF Linked, Bounded
<1>14. NoneLeft(g)
  <2>1. g.table[key].refcount # 0
    BY <1>4, <1>5, <1>6, <1>9 DEF InstanceType
  <2> QED BY <1>6, <1>9, <2>1 DEF NoneLeft, WorldOK
<1>15. OthersKept(g, w, t)
  BY <1>8, <1>9 DEF OthersKept
<1> QED BY <1>3, <1>7, <1>8, <1>9, <1>11, <1>12, <1>13, <1>14, <1>15 DEF WorldOK, Linked

\* The last mount goes: the instance is disposed of, and the taps that were mounted
\* on it keep it torn down.
TornDown(w, t) ==
  LET key == w.tap[t].mount.key
      down == IF w.table[key].lit THEN "down, lit" ELSE "down"
      left(u) == [key |-> key, live |-> w.tap[u].mount.live /\ u # t, instance |-> down]
  IN  [w EXCEPT
         !.tap = [u \in Taps |-> IF w.tap[u].mount.key = key /\ w.tap[u].mount.instance = "up"
                                 THEN [w.tap[u] EXCEPT !.mount = left(u)] ELSE w.tap[u]],
         !.table = [k \in DOMAIN @ \ {key} |-> @[k]],
         !.stored[key] = {}]

LEMMA TornDownOK ==
  ASSUME NEW w, NEW n, WorldOK(w, n), NEW t \in Taps, w.tap[t].mount.live,
         ~ (w.table[w.tap[t].mount.key].refcount > 1)
  PROVE  /\ WorldOK(TornDown(w, t), n) /\ OthersKept(TornDown(w, t), w, t)
         /\ ~ TornDown(w, t).tap[t].mount.live
<1> DEFINE key == w.tap[t].mount.key
           down == IF w.table[key].lit THEN "down, lit" ELSE "down"
           left(u) == [key |-> key, live |-> w.tap[u].mount.live /\ u # t, instance |-> down]
           Hit(u) == w.tap[u].mount.key = key /\ w.tap[u].mount.instance = "up"
           q == [u \in Taps |-> IF Hit(u) THEN [w.tap[u] EXCEPT !.mount = left(u)] ELSE w.tap[u]]
           f == [k \in DOMAIN w.table \ {key} |-> w.table[k]]
           s == [w.stored EXCEPT ![key] = {}]
           x == [w EXCEPT !.tap = q]
           y == [x EXCEPT !.table = f]
           g == [y EXCEPT !.stored = s]
<1>1. /\ w \in WorldType /\ Linked(w, n) /\ \A u \in Taps : TapLinked(w, u)
      /\ \A u \in Taps : w.tap[u] \in TapType /\ w.tap[u].mount.live \in BOOLEAN
      /\ DOMAIN w.table \subseteq Keys /\ w.table \in [DOMAIN w.table -> InstanceType]
      /\ w.stored \in [Keys -> SUBSET Nat]
  BY WorldFacts DEF WorldOK, Linked
<1>2. /\ w.tap[t].mount = MountOf(key) /\ key \in Keys /\ key \in DOMAIN w.table /\ Hit(t)
  <2>1. w.tap[t].mount = MountOf(key)
    BY <1>1 DEF TapLinked
  <2>2. w.tap[t].mount.instance = "up"
    BY <2>1 DEF MountOf
  <2> QED BY <1>1, <2>1, <2>2 DEF TapLinked
<1>3. TornDown(w, t) = g
  <2>1. [w EXCEPT !.tap = q, !.table = f, !.stored[key] = {}] = g
    <3> HIDE DEF q, f
    <3> QED BY <1>1 DEF WorldType
  <2> QED BY <2>1 DEF TornDown
<1>4. \A u \in Taps : Hit(u) /\ u # t => ~ w.tap[u].mount.live
  <2>1. Counted(w, key) /\ t \in On(w, key) /\ w.table[key] \in InstanceType
    BY <1>1, <1>2 DEF Linked, On
  <2>2. Cardinality(On(w, key)) <= 1 /\ Cardinality(On(w, key)) \in Nat /\ IsFiniteSet(On(w, key))
    BY <2>1 DEF Counted, InstanceType
  <2>3. ASSUME NEW u \in Taps, Hit(u), u # t, w.tap[u].mount.live PROVE FALSE
    <3>1. u \in On(w, key)
      BY <1>1, <2>3 DEF TapLinked, On
    <3>2. {t, u} \subseteq On(w, key)
      BY <2>1, <3>1
    <3>3. Cardinality({t, u}) = 2
      <4>1. IsFiniteSet({t}) /\ Cardinality({t}) = 1
        BY FS_Singleton
      <4>2. {t, u} = {t} \cup {u} /\ u \notin {t}
        BY <2>3
      <4>3. Cardinality({t} \cup {u}) = Cardinality({t}) + 1
        BY <4>1, <4>2, FS_AddElement
      <4> QED BY <4>1, <4>2, <4>3
    <3>4. Cardinality({t, u}) <= Cardinality(On(w, key))
      BY <2>2, <3>2, FS_Subset
    <3> QED BY <2>2, <3>3, <3>4
  <2> QED BY <2>3
<1> HIDE DEF Hit
<1>5. \A u \in Taps : left(u) \in MountType
  BY <1>1, <1>2 DEF MountType
<1>6. \A u \in Taps : ~ left(u).live \/ ~ Hit(u)
  BY <1>4
<1>7. \A u \in Taps : left(u).key = key /\ left(u).instance # "up"
  OBVIOUS
<1> HIDE DEF left
<1>8. q \in [Taps -> TapType] /\ \A u \in Taps :
        /\ q[u].fill = w.tap[u].fill /\ q[u].current = w.tap[u].current
        /\ q[u].mount = IF Hit(u) THEN left(u) ELSE w.tap[u].mount
        /\ ~ Hit(u) => q[u] = w.tap[u]
  <2>1. \A u \in Taps : /\ [w.tap[u] EXCEPT !.mount = left(u)] \in TapType
                        /\ [w.tap[u] EXCEPT !.mount = left(u)].fill = w.tap[u].fill
                        /\ [w.tap[u] EXCEPT !.mount = left(u)].current = w.tap[u].current
                        /\ [w.tap[u] EXCEPT !.mount = left(u)].mount = left(u)
    BY <1>1, <1>5 DEF TapType
  <2> QED BY <1>1, <2>1
<1>9. f \in Tables /\ DOMAIN f = DOMAIN w.table \ {key} /\ \A k \in DOMAIN f : f[k] = w.table[k]
  <2>1. f \in [DOMAIN w.table \ {key} -> InstanceType]
    BY <1>1
  <2>2. DOMAIN f \subseteq Keys /\ f \in [DOMAIN f -> InstanceType]
    BY <1>1, <2>1
  <2>3. f \in Tables
    BY <2>2, Tabled
  <2> QED BY <2>3
<1>10. s \in [Keys -> SUBSET Nat] /\ s[key] = {} /\ \A k \in Keys \ {key} : s[k] = w.stored[k]
  BY <1>1, <1>2
<1> HIDE DEF q, f, s
<1>11. g \in WorldType /\ g.table = f /\ g.tap = q /\ g.stored = s /\ g.known = w.known
  <2>1. x \in WorldType /\ x.tap = q /\ x.known = w.known
    BY <1>1, <1>8, WorldBuilt
  <2> HIDE DEF x
  <2>2. y \in WorldType /\ y.tap = q /\ y.table = f /\ y.known = w.known
    BY <1>9, <2>1, WorldBuilt
  <2> HIDE DEF y
  <2> QED BY <1>10, <2>2, WorldBuilt
<1> HIDE DEF g
<1>12. \A u \in Taps : ~ Hit(u) /\ w.tap[u].mount.live => w.tap[u].mount.key \in Keys \ {key}
  <2>1. ASSUME NEW u \in Taps, ~ Hit(u), w.tap[u].mount.live PROVE w.tap[u].mount.key \in Keys \ {key}
    <3>1. w.tap[u].mount = MountOf(w.tap[u].mount.key)
      BY <1>1, <2>1 DEF TapLinked
    <3>2. w.tap[u].mount.instance = "up"
      BY <3>1 DEF MountOf
    <3>3. w.tap[u].mount.key \in DOMAIN w.table
      BY <1>1, <3>2 DEF TapLinked
    <3> QED BY <1>1, <2>1, <3>2, <3>3 DEF Hit
  <2> QED BY <2>1
<1>13. \A u \in Taps : TapLinked(g, u)
  <2>1. ASSUME NEW u \in Taps, Hit(u) PROVE TapLinked(g, u)
    <3>1. ~ g.tap[u].mount.live /\ g.tap[u].mount.instance # "up" /\ g.tap[u].mount.key # NoFill
      BY <1>2, <1>6, <1>7, <1>8, <1>11, <2>1, Nothing
    <3>2. g.tap[u].fill # NoFill
      <4>1. w.tap[u].fill = NoFill => w.tap[u].mount.instance = "none"
        BY <1>1, Nothing DEF TapLinked
      <4> QED BY <1>8, <1>11, <2>1, <4>1 DEF Hit
    <3> QED BY <3>1, <3>2 DEF TapLinked
  <2>2. ASSUME NEW u \in Taps, ~ Hit(u) PROVE TapLinked(g, u)
    <3>1. g.tap[u] = w.tap[u]
      BY <1>8, <1>11, <2>2
    <3>2. w.tap[u].mount.live => g.stored[w.tap[u].mount.key] = w.stored[w.tap[u].mount.key]
      BY <1>10, <1>11, <1>12, <2>2
    <3>3. w.tap[u].mount.instance = "up" => w.tap[u].mount.key \in DOMAIN g.table
      BY <1>1, <1>9, <1>11, <2>2 DEF TapLinked, Hit
    <3> QED BY <1>1, <3>1, <3>2, <3>3 DEF TapLinked
  <2> QED BY <2>1, <2>2
<1>14. \A k \in DOMAIN g.table : Counted(g, k)
  <2>1. ASSUME NEW k \in Keys \ {key} PROVE On(g, k) = On(w, k)
    <3>1. \A u \in Taps : g.tap[u].mount = MountOf(k) <=> w.tap[u].mount = MountOf(k)
      BY <1>7, <1>8, <1>11, Nothing DEF Hit
    <3> QED BY <3>1 DEF On
  <2> QED BY <1>1, <1>9, <1>11, <2>1 DEF Counted, Linked
<1>15. Bounded(g, n)
  BY <1>1, <1>8, <1>10, <1>11 DEF Linked, Bounded
<1>16. NoneLeft(g)
  BY <1>9, <1>11 DEF NoneLeft, WorldOK
<1>17. OthersKept(g, w, t)
  <2>1. ASSUME NEW u \in Taps \ {t} PROVE g.tap[u].mount.live <=> w.tap[u].mount.live
    <3>1. CASE Hit(u)
      BY <1>4, <1>6, <1>8, <1>11, <3>1
    <3>2. CASE ~ Hit(u)
      BY <1>8, <1>11, <3>2
    <3> QED BY <3>1, <3>2
  <2> QED BY <1>8, <1>11, <2>1 DEF OthersKept
<1>18. ~ g.tap[t].mount.live
  BY <1>2, <1>6, <1>8, <1>11
<1> QED BY <1>3, <1>11, <1>13, <1>14, <1>15, <1>16, <1>17, <1>18 DEF WorldOK, Linked

LEMMA UnmountedOK ==
  ASSUME NEW w, NEW n, WorldOK(w, n), NEW t \in Taps
  PROVE  /\ WorldOK(Unmounted(w, t), n) /\ OthersKept(Unmounted(w, t), w, t)
         /\ ~ Unmounted(w, t).tap[t].mount.live
<1>1. CASE ~ w.tap[t].mount.live
  BY <1>1 DEF Unmounted, OthersKept
<1>2. CASE w.tap[t].mount.live /\ w.table[w.tap[t].mount.key].refcount > 1
  <2>1. Unmounted(w, t) = CountedDown(w, t)
    BY <1>2 DEF Unmounted, Released, CountedDown
  <2> QED BY <1>2, <2>1, CountedDownOK
<1>3. CASE w.tap[t].mount.live /\ ~ (w.table[w.tap[t].mount.key].refcount > 1)
  <2>1. Unmounted(w, t) = TornDown(w, t)
    BY <1>3 DEF Unmounted, Released, TornDown
  <2> QED BY <1>3, <2>1, TornDownOK
<1> QED BY <1>1, <1>2, <1>3

LEMMA ClearedOK ==
  ASSUME NEW w, NEW n, WorldOK(w, n), NEW t \in Taps, ~ w.tap[t].mount.live
  PROVE  /\ WorldOK(Cleared(w, t), n) /\ OthersKept(Cleared(w, t), w, t)
         /\ Cleared(w, t).tap[t] = Idle
<1> DEFINE q == [w.tap EXCEPT ![t] = Idle]
           g == [w EXCEPT !.tap = q]
<1>1. w \in WorldType /\ w.tap \in [Taps -> TapType] /\ Linked(w, n) /\ DOMAIN w.table \subseteq Keys
  BY WorldFacts DEF WorldOK, Linked
<1>2. Cleared(w, t) = g
  BY <1>1 DEF Cleared, WorldType
<1>3. q \in [Taps -> TapType] /\ q[t] = Idle /\ \A u \in Taps \ {t} : q[u] = w.tap[u]
  BY <1>1, Nothing
<1> HIDE DEF q
<1>4. g \in WorldType /\ g.tap = q /\ g.table = w.table /\ g.stored = w.stored /\ g.known = w.known
  BY <1>1, <1>3, WorldBuilt
<1> HIDE DEF g
<1>5. \A u \in Taps : TapLinked(g, u)
  <2>1. TapLinked(g, t)
    BY <1>3, <1>4, Nothing DEF TapLinked
  <2>2. ASSUME NEW u \in Taps \ {t} PROVE TapLinked(g, u)
    BY <1>1, <1>3, <1>4 DEF TapLinked, Linked
  <2> QED BY <2>1, <2>2
<1>6. \A k \in DOMAIN g.table : Counted(g, k)
  <2>1. ASSUME NEW k \in Keys PROVE On(g, k) = On(w, k)
    <3>1. \A u \in Taps : g.tap[u].mount = MountOf(k) <=> w.tap[u].mount = MountOf(k)
      BY <1>3, <1>4, Nothing
    <3> QED BY <3>1 DEF On
  <2> QED BY <1>1, <1>4, <2>1 DEF Linked, Counted
<1>7. Bounded(g, n) /\ NoneLeft(g)
  BY <1>1, <1>3, <1>4, Nothing DEF Linked, Bounded, NoneLeft, WorldOK
<1>8. OthersKept(g, w, t)
  BY <1>3, <1>4 DEF OthersKept
<1> QED BY <1>2, <1>3, <1>4, <1>5, <1>6, <1>7, <1>8 DEF WorldOK, Linked

-----------------------------------------------------------------------------
(* The taps follow their fills. *)

Following ==
  /\ param \in [Params -> Values \cup {NotReady}]
  /\ attached \subseteq Taps /\ notified \subseteq attached /\ failed \subseteq attached
  /\ \A t \in Taps \ attached : tap[t].fill = NoFill
  /\ \A t \in attached \ failed : tap[t].fill # NoFill => tap[t].mount.live
  /\ \A t \in attached \ (notified \cup failed) : Derivable(t) => tap[t].fill = Fill(t)

Inv == made \in Nat /\ WorldOK(World, made) /\ Following

LEMMA Became ==
  ASSUME NEW w, NEW n, WorldOK(w, n), Becomes(w)
  PROVE  World' = w /\ WorldOK(World', n)
<1>1. World' = [tap |-> w.tap, table |-> w.table, stored |-> w.stored, known |-> w.known]
  BY DEF World, Becomes
<1>2. w \in WorldType
  BY DEF WorldOK, Linked
<1>3. w = [tap |-> w.tap, table |-> w.table, stored |-> w.stored, known |-> w.known]
  BY <1>2, WorldFacts
<1>4. World' = w
  BY <1>1, <1>3
<1> QED BY <1>4

LEMMA FillIsKey ==
  ASSUME Following, NEW t \in Taps, Derivable(t)
  PROVE  Fill(t) \in Keys
<1>1. \A n \in 1 .. 3 : FillSpec[t][n] \in Params \cup Values \cup {""}
  BY SpecAssumption
<1>2. \A n \in 1 .. 3 : PartValue(FillSpec[t][n]) \in Values \cup {""}
  BY <1>1 DEF PartValue, Following, Derivable
<1> QED BY <1>2 DEF Fill, Keys

LEMMA SameParam ==
  ASSUME UNCHANGED param, NEW t
  PROVE  Fill(t)' = Fill(t) /\ (Derivable(t)' <=> Derivable(t))
BY DEF Fill, Derivable, PartValue

\* What syncMount does to its tap.
Synced(t) ==
  \/ /\ ~ (Derivable(t) /\ tap[t].fill # Fill(t))
     /\ tap'[t].fill = tap[t].fill /\ (tap'[t].mount.live <=> tap[t].mount.live)
     /\ failed' = failed
  \/ /\ Derivable(t) /\ tap'[t].fill = Fill(t)
     /\ \/ failed' = failed \ {t} /\ tap'[t].mount.live
        \/ failed' = failed \cup {t}

LEMMA SyncMountOK ==
  ASSUME Inv, NEW t \in Taps, SyncMount(t)
  PROVE  /\ WorldOK(World', made) /\ Synced(t)
         /\ \A u \in Taps \ {t} : /\ tap'[u].fill = tap[u].fill
                                  /\ tap'[u].mount.live <=> tap[u].mount.live
<1> DEFINE left == Unmounted(World, t)
           key == Fill(t)
           mounts == Derivable(t) /\ tap[t].fill # key
<1>1. WorldOK(World, made) /\ World.tap = tap /\ World.table = table /\ World.stored = stored /\ World.known = known
  BY DEF Inv, World
<1>2. WorldOK(left, made) /\ OthersKept(left, World, t) /\ ~ left.tap[t].mount.live
  BY <1>1, UnmountedOK
<1>3. mounts => key \in Keys
  BY FillIsKey DEF Inv
<1>4. CASE ~ mounts /\ UNCHANGED <<runtime, failed>>
  <2>1. World' = World /\ tap' = tap
    BY <1>4 DEF World, runtime
  <2> QED BY <1>1, <1>4, <2>1 DEF Synced
<1> HIDE DEF left
<1>5. ASSUME NEW w, WorldOK(w, made), OthersKept(w, left, t), Becomes(w)
      PROVE  /\ WorldOK(World', made) /\ tap' = w.tap
             /\ \A u \in Taps \ {t} : /\ tap'[u].fill = tap[u].fill
                                      /\ tap'[u].mount.live <=> tap[u].mount.live
  <2>1. WorldOK(World', made)
    BY <1>5, Became
  <2>2. tap' = w.tap
    BY <1>5 DEF Becomes
  <2> QED BY <1>1, <1>2, <1>5, <2>1, <2>2 DEF OthersKept
<1>6. CASE mounts /\ Becomes(Mounted(left, t, key)) /\ failed' = failed \ {t}
  <2> DEFINE w == Mounted(left, t, key)
  <2>1. /\ WorldOK(w, made) /\ OthersKept(w, left, t) /\ Becomes(w)
        /\ w.tap[t].fill = key /\ w.tap[t].mount.live
    <3>1. made \in Nat
      BY DEF Inv
    <3> QED BY <1>2, <1>3, <1>6, <3>1, MountedOK, Nothing
  <2> HIDE DEF w
  <2> QED BY <1>5, <1>6, <2>1 DEF Synced
<1>7. CASE mounts /\ failed' = failed \cup {t} /\ Becomes(MountRefused(left, t, key))
  <2> DEFINE w == MountRefused(left, t, key)
  <2>1. WorldOK(w, made) /\ OthersKept(w, left, t) /\ Becomes(w) /\ w.tap[t].fill = key
    BY <1>2, <1>3, <1>7, MountRefusedOK
  <2> HIDE DEF w
  <2> QED BY <1>5, <1>7, <2>1 DEF Synced
<1>8. CASE mounts /\ failed' = failed \cup {t} /\ Becomes(MountedHalf(left, t, key))
  <2> DEFINE w == MountedHalf(left, t, key)
  <2>1. WorldOK(w, made) /\ OthersKept(w, left, t) /\ Becomes(w) /\ w.tap[t].fill = key
    BY <1>2, <1>3, <1>8, MountedHalfOK
  <2> HIDE DEF w
  <2> QED BY <1>5, <1>8, <2>1 DEF Synced
<1> QED BY <1>4, <1>6, <1>7, <1>8 DEF SyncMount, SameFill, left

\* After syncMount the tap is as it should be.
LEMMA SyncedFollows ==
  ASSUME Following, NEW t \in Taps, Synced(t), UNCHANGED param,
         \A u \in Taps \ {t} : /\ tap'[u].fill = tap[u].fill
                               /\ tap'[u].mount.live <=> tap[u].mount.live,
         attached' = attached \cup {t}, notified' = notified \ {t},
         t \in attached \/ tap[t].fill = NoFill
  PROVE  Following'
<1>1. failed' \subseteq attached' /\ notified' \subseteq attached' /\ attached' \subseteq Taps
  BY DEF Following, Synced
<1>2. ASSUME NEW u \in Taps \ attached' PROVE tap'[u].fill = NoFill
  <2>1. u \in Taps \ {t} /\ u \notin attached
    OBVIOUS
  <2>2. tap[u].fill = NoFill
    BY <2>1 DEF Following
  <2> QED BY <2>1, <2>2
<1>3. ASSUME NEW u \in attached' \ failed', tap'[u].fill # NoFill PROVE tap'[u].mount.live
  <2>1. CASE u = t /\ failed' = failed
    <3>1. t \notin failed
      BY <1>3, <2>1
    <3>2. t \in Taps \ attached => tap[t].fill = NoFill
      BY DEF Following
    <3>3. t \in attached /\ tap[t].fill # NoFill => tap[t].mount.live
      BY <3>1 DEF Following
    <3>4. tap'[t].fill # NoFill
      BY <1>3, <2>1
    <3>5. CASE tap'[t].fill = tap[t].fill /\ (tap'[t].mount.live <=> tap[t].mount.live)
      BY <2>1, <3>2, <3>3, <3>4, <3>5
    <3>6. CASE tap'[t].mount.live
      BY <2>1, <3>6
    <3>7. t \notin failed \cup {t} => FALSE
      OBVIOUS
    <3> QED BY <2>1, <3>1, <3>5, <3>6, <3>7 DEF Synced
  <2>2. CASE u = t /\ failed' # failed
    <3>1. failed' # failed \cup {t}
      BY <1>3, <2>2
    <3> QED BY <2>2, <3>1 DEF Synced
  <2>3. CASE u # t
    <3>1. u \in Taps \ {t} /\ u \in attached \ failed
      BY <1>1, <1>3, <2>3 DEF Synced
    <3>2. tap[u].fill # NoFill => tap[u].mount.live
      BY <3>1 DEF Following
    <3> QED BY <1>3, <3>1, <3>2
  <2> QED BY <2>1, <2>2, <2>3
<1>4. ASSUME NEW u \in attached' \ (notified' \cup failed'), Derivable(u) PROVE tap'[u].fill = Fill(u)
  <2>1. CASE u = t
    <3>1. Derivable(t)
      BY <1>4, <2>1
    <3>2. tap'[t].fill = Fill(t)
      BY <3>1 DEF Synced
    <3> QED BY <2>1, <3>2
  <2>2. CASE u # t
    <3>1. u \notin notified
      BY <1>4, <2>2
    <3>2. u \in attached \ failed
      BY <1>1, <1>4, <2>2 DEF Synced
    <3>3. tap[u].fill = Fill(u)
      BY <1>4, <3>1, <3>2 DEF Following
    <3>4. u \in Taps \ {t}
      BY <1>1, <1>4, <2>2
    <3> QED BY <3>3, <3>4
  <2> QED BY <2>1, <2>2
<1>5. \A u \in attached' \ (notified' \cup failed') : Derivable(u)' => tap'[u].fill = Fill(u)'
  BY <1>4, SameParam
<1>6. param' \in [Params -> Values \cup {NotReady}]
  BY DEF Following
<1> QED BY <1>1, <1>2, <1>3, <1>5, <1>6 DEF Following

\* What a write, an operation from elsewhere and a replay do: the taps stay where they are.
LEMMA StayedFollows ==
  ASSUME Following, UNCHANGED <<param, attached, notified, failed>>,
         \A u \in Taps : /\ tap'[u].fill = tap[u].fill
                         /\ tap'[u].mount.live <=> tap[u].mount.live
  PROVE  Following'
<1>1. \A u \in Taps : Fill(u)' = Fill(u) /\ (Derivable(u)' <=> Derivable(u))
  BY SameParam
<1>2. \A u \in attached' \ (notified' \cup failed') : Derivable(u)' => tap'[u].fill = Fill(u)'
  BY <1>1 DEF Following
<1> QED BY <1>2 DEF Following

-----------------------------------------------------------------------------
(* What the session holds. *)

KnownIs(w, key, S) == [w EXCEPT !.known[key] = S]

LEMMA KnownOK ==
  ASSUME NEW w, NEW n \in Nat, WorldOK(w, n), NEW key \in Keys,
         NEW S \in SUBSET (1 .. n + 1)
  PROVE  /\ WorldOK(KnownIs(w, key, S), n + 1)
         /\ KnownIs(w, key, S).tap = w.tap /\ KnownIs(w, key, S).table = w.table
<1> DEFINE f == [w.known EXCEPT ![key] = S]
           g == [w EXCEPT !.known = f]
<1>1. w \in WorldType /\ w.known \in [Keys -> SUBSET Nat] /\ Linked(w, n)
  BY WorldFacts DEF WorldOK, Linked
<1>2. KnownIs(w, key, S) = g
  BY <1>1 DEF KnownIs, WorldType
<1>3. f \in [Keys -> SUBSET Nat] /\ f[key] = S /\ \A k \in Keys \ {key} : f[k] = w.known[k]
  <2>1. S \in SUBSET Nat
    OBVIOUS
  <2> QED BY <1>1, <2>1
<1> HIDE DEF f
<1>4. g \in WorldType /\ g.known = f /\ g.tap = w.tap /\ g.table = w.table /\ g.stored = w.stored
  BY <1>1, <1>3, WorldBuilt
<1> HIDE DEF g
<1>5. \A u \in Taps : TapLinked(g, u)
  BY <1>1, <1>4 DEF Linked, TapLinked
<1>6. \A k \in DOMAIN g.table : Counted(g, k)
  <2>1. \A k : On(g, k) = On(w, k)
    BY <1>4 DEF On
  <2> QED BY <1>1, <1>4, <2>1 DEF Linked, Counted
<1>7. Bounded(g, n + 1)
  <2>1. 1 .. n \subseteq 1 .. n + 1
    OBVIOUS
  <2>2. \A k \in Keys : f[k] \subseteq 1 .. n + 1
    BY <1>1, <1>3, <2>1 DEF Linked, Bounded
  <2> QED BY <1>1, <1>4, <2>1, <2>2 DEF Linked, Bounded
<1>8. NoneLeft(g)
  BY <1>4 DEF NoneLeft, WorldOK
<1> QED BY <1>2, <1>4, <1>5, <1>6, <1>7, <1>8 DEF WorldOK, Linked

\* An instance takes operations in, whether a mount waits for it or not.
LEMMA TakenIn ==
  ASSUME NEW w, NEW n \in Nat, WorldOK(w, n), NEW key \in DOMAIN w.table,
         NEW ops \in SUBSET (1 .. n)
  PROVE  /\ WorldOK(Ingested(w, key, ops), n)
         /\ \A t \in Taps : /\ Ingested(w, key, ops).tap[t].fill = w.tap[t].fill
                            /\ Ingested(w, key, ops).tap[t].mount = w.tap[t].mount
BY IngestedOK DEF WorldOK, NoneLeft

\* A step that leaves the taps where they are.
LEMMA StayOK ==
  ASSUME Inv, NEW n \in Nat, made' = n, NEW w, WorldOK(w, n), Becomes(w),
         \A u \in Taps : w.tap[u].fill = tap[u].fill /\ w.tap[u].mount = tap[u].mount,
         UNCHANGED <<param, attached, notified, failed>>
  PROVE  Inv'
<1>1. World' = w /\ WorldOK(World', n)
  BY Became
<1>2. WorldOK(World', made')
  BY <1>1
<1>3. tap' = w.tap
  BY DEF Becomes
<1>4. Following'
  BY <1>3, StayedFollows DEF Inv
<1>5. WorldOK(World, made)'
  BY <1>2 DEF World
<1> QED BY <1>4, <1>5 DEF Inv

-----------------------------------------------------------------------------
(* The steps. *)

LEMMA SyncStep ==
  ASSUME Inv, NEW t \in Taps, SyncMount(t), UNCHANGED <<param, made>>,
         attached' = attached \cup {t}, notified' = notified \ {t},
         t \in attached \/ tap[t].fill = NoFill
  PROVE  Inv'
<1>1. /\ WorldOK(World', made) /\ Synced(t)
      /\ \A u \in Taps \ {t} : /\ tap'[u].fill = tap[u].fill
                               /\ tap'[u].mount.live <=> tap[u].mount.live
  BY SyncMountOK
<1>2. Following'
  BY <1>1, SyncedFollows DEF Inv
<1>3. WorldOK(World', made')
  BY <1>1
<1> QED BY <1>2, <1>3 DEF Inv

LEMMA AttachOK == ASSUME Inv, NEW t \in Taps, Attach(t) PROVE Inv'
<1>1. tap[t].fill = NoFill /\ t \notin notified
  BY DEF Inv, Following, Attach
<1> QED BY <1>1, SyncStep DEF Attach

LEMMA NotifyOK == ASSUME Inv, NEW t \in Taps, Notify(t) PROVE Inv'
<1>1. t \in attached /\ attached' = attached \cup {t}
  BY DEF Inv, Following, Notify
<1> QED BY <1>1, SyncStep DEF Notify

LEMMA DetachOK == ASSUME Inv, NEW t \in Taps, Detach(t) PROVE Inv'
<1> DEFINE left == Unmounted(World, t)
           w == Cleared(left, t)
<1>1. WorldOK(World, made) /\ World.tap = tap
  BY DEF Inv, World
<1>2. WorldOK(left, made) /\ OthersKept(left, World, t) /\ ~ left.tap[t].mount.live
  BY <1>1, UnmountedOK
<1> HIDE DEF left
<1>3. WorldOK(w, made) /\ OthersKept(w, left, t) /\ w.tap[t] = Idle
  BY <1>2, ClearedOK
<1>4. Becomes(w)
  BY DEF Detach, left
<1> HIDE DEF w
<1>5. WorldOK(World', made)
  BY <1>3, <1>4, Became
<1>6. tap' = w.tap
  BY <1>4 DEF Becomes
<1>7. \A u \in Taps \ {t} : tap'[u].fill = tap[u].fill /\ (tap'[u].mount.live <=> tap[u].mount.live)
  BY <1>1, <1>2, <1>3, <1>6 DEF OthersKept
<1>8. tap'[t].fill = NoFill
  BY <1>3, <1>6, Nothing
<1>9. \A u \in Taps : Fill(u)' = Fill(u) /\ (Derivable(u)' <=> Derivable(u))
  BY SameParam DEF Detach
<1>10. Following'
  <2>1. /\ param' \in [Params -> Values \cup {NotReady}]
        /\ attached' \subseteq Taps /\ notified' \subseteq attached' /\ failed' \subseteq attached'
    BY DEF Inv, Following, Detach
  <2>2. \A u \in Taps \ attached' : tap'[u].fill = NoFill
    BY <1>7, <1>8 DEF Inv, Following, Detach
  <2>3. ASSUME NEW u \in attached' \ failed', tap'[u].fill # NoFill PROVE tap'[u].mount.live
    <3>1. u \in Taps \ {t} /\ u \in attached \ failed
      BY <2>3 DEF Inv, Following, Detach
    <3> QED BY <1>7, <2>3, <3>1 DEF Inv, Following
  <2>4. ASSUME NEW u \in attached' \ (notified' \cup failed'), Derivable(u)' PROVE tap'[u].fill = Fill(u)'
    <3>1. u \in Taps \ {t} /\ u \in attached \ (notified \cup failed)
      BY <2>4 DEF Inv, Following, Detach
    <3> QED BY <1>7, <1>9, <2>4, <3>1 DEF Inv, Following
  <2> QED BY <2>1, <2>2, <2>3, <2>4 DEF Following
<1>11. WorldOK(World', made')
  BY <1>5 DEF Detach
<1>12. made' \in Nat
  BY DEF Inv, Detach
<1> QED BY <1>10, <1>11, <1>12 DEF Inv

\* A parameter changes: whoever depends on it is to be told.
LEMMA SetParamOK ==
  ASSUME Inv, NEW p \in Params, NEW v \in Values \cup {NotReady}, SetParam(p, v)
  PROVE  Inv'
<1>1. World' = World
  BY DEF SetParam, World, runtime
<1>2. ASSUME NEW u \in attached' \ (notified' \cup failed')
      PROVE  Fill(u)' = Fill(u) /\ (Derivable(u)' <=> Derivable(u))
  <2>1. \A n \in 1 .. 3 : FillSpec[u][n] # p
    BY <1>2 DEF SetParam
  <2>2. param' = [param EXCEPT ![p] = v] /\ param \in [Params -> Values \cup {NotReady}]
    BY DEF SetParam, Inv, Following
  <2>3. \A part : part # p => (PartValue(part))' = PartValue(part)
    BY <2>2 DEF PartValue
  <2> QED BY <2>1, <2>2 DEF Fill, Derivable, PartValue
<1>3. /\ param' \in [Params -> Values \cup {NotReady}]
      /\ attached' \subseteq Taps /\ notified' \subseteq attached' /\ failed' \subseteq attached'
  BY DEF Inv, Following, SetParam
<1>4. attached' = attached /\ failed' = failed /\ tap' = tap /\ notified \subseteq notified'
  BY DEF SetParam, runtime
<1>5. \A u \in attached' \ (notified' \cup failed') : Derivable(u)' => tap'[u].fill = Fill(u)'
  BY <1>2, <1>4 DEF Inv, Following
<1>6. /\ \A u \in Taps \ attached' : tap'[u].fill = NoFill
      /\ \A u \in attached' \ failed' : tap'[u].fill # NoFill => tap'[u].mount.live
  BY <1>4 DEF Inv, Following
<1>7. Following'
  BY <1>3, <1>5, <1>6 DEF Following
<1>8. made' = made
  BY DEF SetParam
<1> QED BY <1>1, <1>7, <1>8 DEF Inv

LEMMA WriteOK == ASSUME Inv, NEW t \in Taps, Write(t) PROVE Inv'
<1> DEFINE key == tap[t].mount.key
           up == tap[t].mount.instance = "up"
           lit == IF up THEN table[key].lit ELSE tap[t].mount.instance = "down, lit"
           op == made + 1
           S == IF lit THEN known[key] \cup {op} ELSE known[key]
           sent == KnownIs(World, key, S)
           w == IF up THEN Ingested(sent, key, {op}) ELSE sent
<1>1. /\ WorldOK(World, made) /\ World.tap = tap /\ World.table = table /\ World.known = known
      /\ made \in Nat /\ op \in Nat
  BY DEF Inv, World
<1>2. TapLinked(World, t) /\ World \in WorldType /\ Bounded(World, made)
  BY <1>1 DEF WorldOK, Linked
<1>3. key \in Keys
  <2>1. key # NoFill
    BY <1>1, <1>2 DEF TapLinked, Write
  <2>2. key \in Keys \cup {NoFill}
    BY <1>1, <1>2, WorldFacts
  <2> QED BY <2>1, <2>2
<1>4. up => key \in DOMAIN table
  BY <1>1, <1>2 DEF TapLinked
<1>5. S \in SUBSET (1 .. made + 1)
  <2>1. known[key] \subseteq 1 .. made
    BY <1>1, <1>2, <1>3 DEF Bounded
  <2>2. 1 .. made \subseteq 1 .. made + 1 /\ made + 1 \in 1 .. made + 1
    BY <1>1
  <2> QED BY <2>1, <2>2
<1>6. made' = op /\ UNCHANGED <<param, attached, notified, failed>> /\ Becomes(w)
  <2>1. sent = [World EXCEPT !.known[key] = IF lit THEN @ \cup {op} ELSE @]
    BY <1>1 DEF KnownIs, World
  <2> HIDE DEF sent
  <2> QED BY <2>1 DEF Write
<1> HIDE DEF S
<1>7. WorldOK(sent, op) /\ sent.tap = tap /\ sent.table = table
  BY <1>1, <1>3, <1>5, KnownOK
<1> HIDE DEF sent
<1>8. WorldOK(w, op) /\ \A u \in Taps : w.tap[u].fill = tap[u].fill /\ w.tap[u].mount = tap[u].mount
  <2>1. CASE up
    <3>1. {op} \in SUBSET (1 .. op)
      BY <1>1
    <3> QED BY <1>1, <1>4, <1>7, <2>1, <3>1, TakenIn
  <2>2. CASE ~ up
    BY <1>7, <2>2
  <2> QED BY <2>1, <2>2
<1> HIDE DEF w, op
<1> QED BY <1>1, <1>6, <1>8, StayOK

LEMMA RemoteOK ==
  ASSUME Inv, NEW key \in DOMAIN table \cup {Fill(t) : t \in {t \in Taps : Derivable(t)}}, Remote(key)
  PROVE  Inv'
<1> DEFINE op == made + 1
           in == key \in DOMAIN table /\ table[key].lit
           heard == KnownIs(World, key, known[key] \cup {op})
           w == IF in THEN Ingested(heard, key, {op}) ELSE heard
<1>1. /\ WorldOK(World, made) /\ World.tap = tap /\ World.table = table /\ World.known = known
      /\ made \in Nat /\ op \in Nat
  BY DEF Inv, World
<1>2. World \in WorldType /\ Bounded(World, made)
  BY <1>1 DEF WorldOK, Linked
<1>3. key \in Keys
  <2>1. DOMAIN table \subseteq Keys
    BY <1>1, <1>2, WorldFacts
  <2>2. \A t \in Taps : Derivable(t) => Fill(t) \in Keys
    BY FillIsKey DEF Inv
  <2> QED BY <2>1, <2>2
<1>4. known[key] \cup {op} \in SUBSET (1 .. made + 1)
  <2>1. known[key] \subseteq 1 .. made
    BY <1>1, <1>2, <1>3 DEF Bounded
  <2>2. 1 .. made \subseteq 1 .. made + 1 /\ made + 1 \in 1 .. made + 1
    BY <1>1
  <2> QED BY <2>1, <2>2
<1>5. made' = op /\ UNCHANGED <<param, attached, notified, failed>> /\ Becomes(w)
  <2>1. heard = [World EXCEPT !.known[key] = @ \cup {op}]
    BY <1>1 DEF KnownIs, World
  <2> HIDE DEF heard
  <2> QED BY <2>1 DEF Remote
<1>6. WorldOK(heard, op) /\ heard.tap = tap /\ heard.table = table
  BY <1>1, <1>3, <1>4, KnownOK
<1> HIDE DEF heard
<1>7. WorldOK(w, op) /\ \A u \in Taps : w.tap[u].fill = tap[u].fill /\ w.tap[u].mount = tap[u].mount
  <2>1. CASE in
    <3>1. {op} \in SUBSET (1 .. op)
      BY <1>1
    <3> QED BY <1>1, <1>6, <2>1, <3>1, TakenIn
  <2>2. CASE ~ in
    BY <1>6, <2>2
  <2> QED BY <2>1, <2>2
<1> HIDE DEF w, op
<1> QED BY <1>1, <1>5, <1>7, StayOK

LEMMA ReplayOK == ASSUME Inv, NEW key \in DOMAIN table, Replay(key) PROVE Inv'
<1> DEFINE w == Ingested(World, key, known[key])
<1>1. /\ WorldOK(World, made) /\ World.tap = tap /\ World.table = table /\ World.known = known
      /\ made \in Nat
  BY DEF Inv, World
<1>2. World \in WorldType /\ Bounded(World, made)
  BY <1>1 DEF WorldOK, Linked
<1>3. known[key] \in SUBSET (1 .. made)
  <2>1. DOMAIN table \subseteq Keys
    BY <1>1, <1>2, WorldFacts
  <2> QED BY <1>1, <1>2, <2>1 DEF Bounded
<1>4. WorldOK(w, made) /\ \A u \in Taps : w.tap[u].fill = tap[u].fill /\ w.tap[u].mount = tap[u].mount
  BY <1>1, <1>3, TakenIn
<1>5. made' = made /\ UNCHANGED <<param, attached, notified, failed>> /\ Becomes(w)
  BY DEF Replay
<1> HIDE DEF w
<1> QED BY <1>1, <1>4, <1>5, StayOK

LEMMA InitOK == Init => Inv
<1> SUFFICES ASSUME Init PROVE Inv
  OBVIOUS
<1>1. World.tap = tap /\ World.table = table /\ World.stored = stored /\ World.known = known
  BY DEF World
<1>2. \A t \in Taps : tap[t] = Idle
  BY DEF Init
<1>3. DOMAIN table = {}
  BY DEF Init
<1>4. World \in WorldType
  <2>1. tap \in [Taps -> TapType]
    BY Nothing DEF Init
  <2>2. table \in Tables
    <3>1. table \in [DOMAIN table -> InstanceType]
      BY <1>3 DEF Init
    <3> QED BY <1>3, <3>1, Tabled
  <2>3. stored \in [Keys -> SUBSET Nat] /\ known \in [Keys -> SUBSET Nat]
    BY DEF Init
  <2> QED BY <2>1, <2>2, <2>3 DEF World, WorldType
<1>5. \A t \in Taps : TapLinked(World, t)
  BY <1>1, <1>2, Nothing DEF TapLinked
<1>6. made \in Nat /\ Bounded(World, made)
  <2>1. \A k \in Keys : stored[k] = {} /\ known[k] = {}
    BY DEF Init
  <2>2. \A t \in Taps : tap[t].current = {}
    BY <1>2, Nothing
  <2>3. made \in Nat
    BY DEF Init
  <2> QED BY <1>1, <2>1, <2>2, <2>3 DEF Bounded
<1>7. WorldOK(World, made)
  BY <1>1, <1>3, <1>4, <1>5, <1>6 DEF WorldOK, Linked, NoneLeft
<1>8. Following
  BY <1>2, Nothing DEF Following, Init
<1> QED BY <1>6, <1>7, <1>8 DEF Inv

LEMMA NextOK == Inv /\ [Next]_vars => Inv'
<1> SUFFICES ASSUME Inv, [Next]_vars PROVE Inv'
  OBVIOUS
<1>1. ASSUME NEW t \in Taps, Attach(t) PROVE Inv'
  BY <1>1, AttachOK
<1>2. ASSUME NEW t \in Taps, Detach(t) PROVE Inv'
  BY <1>2, DetachOK
<1>3. ASSUME NEW t \in Taps, Notify(t) PROVE Inv'
  BY <1>3, NotifyOK
<1>4. ASSUME NEW t \in Taps, Write(t) PROVE Inv'
  BY <1>4, WriteOK
<1>5. ASSUME NEW p \in Params, NEW v \in Values \cup {NotReady}, SetParam(p, v) PROVE Inv'
  BY <1>5, SetParamOK
<1>6. ASSUME NEW key \in DOMAIN table \cup {Fill(t) : t \in {t \in Taps : Derivable(t)}}, Remote(key)
      PROVE  Inv'
  BY <1>6, RemoteOK
<1>7. ASSUME NEW key \in DOMAIN table, Replay(key) PROVE Inv'
  BY <1>7, ReplayOK
<1>8. CASE UNCHANGED vars
  <2>1. World' = World
    BY <1>8 DEF World, vars, runtime
  <2>2. Following'
    <3>1. UNCHANGED <<param, attached, notified, failed>> /\ tap' = tap
      BY <1>8 DEF vars
    <3> QED BY <3>1, StayedFollows DEF Inv
  <2>3. made' = made
    BY <1>8 DEF vars
  <2> QED BY <2>1, <2>2, <2>3 DEF Inv
<1> QED BY <1>1, <1>2, <1>3, <1>4, <1>5, <1>6, <1>7, <1>8 DEF Next

LEMMA Invariant == Spec => []Inv
BY InitOK, NextOK, PTL DEF Spec

-----------------------------------------------------------------------------
(* What the invariant says of the state, in the words of TapMounts. *)

LEMMA InvFacts ==
  ASSUME Inv
  PROVE  /\ \A t \in Taps : TapLinked(World, t)
         /\ \A k \in DOMAIN table : Counted(World, k) /\ On(World, k) = MountedOn(k)
         /\ World.tap = tap /\ World.table = table /\ World.stored = stored /\ World.known = known
         /\ World \in WorldType /\ Bounded(World, made) /\ NoneLeft(World) /\ Following
<1>1. World.tap = tap /\ World.table = table /\ World.stored = stored /\ World.known = known
  BY DEF World
<1>2. \A k : On(World, k) = MountedOn(k)
  BY <1>1 DEF On, MountedOn
<1> QED BY <1>1, <1>2 DEF Inv, WorldOK, Linked

(* The type of the state, and that a tap that is not registered keeps neither fill  *)
(* nor mount nor value (onDetach): for any taps, fills, parameters and bounds.      *)
THEOREM TypeCorrect == Spec => []TypeOK
<1>1. Inv => TypeOK
  <2> SUFFICES ASSUME Inv PROVE TypeOK
    OBVIOUS
  <2>1. /\ \A t \in Taps : tap[t] \in TapType
        /\ DOMAIN table \subseteq Keys /\ table \in [DOMAIN table -> InstanceType]
        /\ stored \in [Keys -> SUBSET Nat] /\ known \in [Keys -> SUBSET Nat]
    BY InvFacts, WorldFacts
  <2>2. \A t \in Taps \ attached : tap[t] = Idle
    BY InvFacts DEF Following, TapLinked
  <2>3. \A t \in attached : tap[t].fill \in Keys \cup {NoFill} /\ tap[t].current \subseteq 1 .. made
    BY <2>1, InvFacts DEF Following, TapType, Bounded
  <2>4. \A k \in DOMAIN table : table[k].refcount \in Nat
    BY <2>1 DEF InstanceType
  <2>5. \A k \in Keys : stored[k] \in SUBSET (1 .. made) /\ known[k] \in SUBSET (1 .. made)
    BY InvFacts DEF Bounded
  <2>6. stored \in [Keys -> SUBSET (1 .. made)] /\ known \in [Keys -> SUBSET (1 .. made)]
    BY <2>1, <2>5
  <2> QED BY <2>1, <2>2, <2>3, <2>4, <2>6, InvFacts DEF TypeOK, Following
<1> QED BY <1>1, Invariant, PTL

(* An instance is counted once for each tap that is mounted on it and is listened  *)
(* to by these taps only; no tap is mounted on an instance that was torn down, and *)
(* none lives on unmounted but where attaching its destination threw: through any  *)
(* number of shared fills, changes of fill and mounts that throw (grip/index.ts    *)
(* 14, binder.ts 72).                                                              *)
THEOREM CountedOnce == Spec => []RefcountIsMounts
<1>1. Inv => RefcountIsMounts
  <2> SUFFICES ASSUME Inv PROVE RefcountIsMounts
    OBVIOUS
  <2>1. \A k \in DOMAIN table :
          /\ table[k].refcount = Cardinality(MountedOn(k)) /\ table[k].listeners = MountedOn(k)
          /\ table[k].refcount = 0 => table[k].threw
    BY InvFacts DEF Counted, NoneLeft
  <2>2. ASSUME NEW t \in Taps, tap[t].mount.live PROVE tap[t].mount.key \in DOMAIN table
    <3>1. tap[t].mount = MountOf(tap[t].mount.key)
      BY <2>2, InvFacts DEF TapLinked
    <3>2. tap[t].mount.instance = "up"
      BY <3>1 DEF MountOf
    <3> QED BY <3>2, InvFacts DEF TapLinked
  <2> QED BY <2>1, <2>2 DEF RefcountIsMounts
<1> QED BY <1>1, Invariant, PTL

(* A tap that was told of every change and whose last mount did not throw is       *)
(* mounted on exactly the fill its parameters derive; while they derive none it    *)
(* stays where it is (syncMount, grip/index.ts 281).                               *)
THEOREM MountsFollow == Spec => []TapFollowsFill
<1>1. Inv => TapFollowsFill
  <2> SUFFICES ASSUME Inv, NEW t \in attached \ (notified \cup failed)
               PROVE  IF Derivable(t) THEN tap[t].mount = MountOf(Fill(t))
                      ELSE tap[t].mount.live \/ tap[t] = Idle
    BY DEF TapFollowsFill
  <2>1. TapLinked(World, t) /\ World.tap = tap /\ Following /\ t \in Taps
    BY InvFacts DEF Following
  <2>2. CASE Derivable(t)
    <3>1. tap[t].fill = Fill(t) /\ Fill(t) # NoFill
      BY <2>1, <2>2, FillIsKey, Nothing DEF Following
    <3>2. tap[t].mount.live
      BY <2>1, <3>1 DEF Following
    <3> QED BY <2>1, <2>2, <3>1, <3>2 DEF TapLinked
  <2>3. CASE ~ Derivable(t)
    <3>1. tap[t].fill # NoFill => tap[t].mount.live
      BY <2>1 DEF Following
    <3> QED BY <2>1, <2>3, <3>1 DEF TapLinked
  <2> QED BY <2>2, <2>3
<1> QED BY <1>1, Invariant, PTL

(* Between calls a mounted tap shows the assembly of the instance it writes to and *)
(* of no other (grip/index.ts 296).                                                *)
THEOREM ShowsTheAssembly == Spec => []ShownIsAssembled
<1>1. Inv => ShownIsAssembled
  BY InvFacts DEF ShownIsAssembled, TapLinked
<1> QED BY <1>1, Invariant, PTL
=============================================================================
