------------------------------ MODULE TapMounts ------------------------------
(***************************************************************************)
(* The binder's table of live instances and the grip taps that mount them. *)
(* A tap derives the fill it wants from literals and parameters, follows   *)
(* it from instance to instance as the parameters change, shows what the   *)
(* instance assembled and writes through its mount. Instances of one fill  *)
(* are shared and counted; the stores are those of MemoryStoreEngine,      *)
(* which forgets at the last unmount.                                      *)
(*                                                                         *)
(* Operations and payloads are numbers, a fill is also its instance's key. *)
(* Grip's engine tells taps of changed parameters later and one at a time, *)
(* so calls do not nest, and two changes may be told as one.               *)
(***************************************************************************)
EXTENDS Naturals, FiniteSets, Sequences

CONSTANTS
  Taps, Params, Values,
  FillSpec,    \* FillSpec[t]: the domain, zone and key of the tap's fill, each a
               \* parameter or a literal ("" for a part that is absent)
  Lit,         \* the taps that configure a glade destination
  MaxOps,      \* bound on the operations written, here or elsewhere
  MaxFailures  \* bound on the mounts that throw

NotReady == "not ready"   \* a parameter without a value yet

ASSUME SpecAssumption ==
  /\ FillSpec \in [Taps -> [1 .. 3 -> Params \cup Values \cup {""}]]
  /\ Lit \subseteq Taps /\ {MaxOps, MaxFailures} \subseteq Nat
  /\ NotReady \notin Values /\ Params \cap (Values \cup {""}) = {}

VARIABLES
  param,      \* what each parameter holds
  attached,   \* the taps that are registered
  notified,   \* the taps that are still to be told of a changed parameter
  tap,        \* tap[t]: its currentFill, its mount and what it shows
  table,      \* the binder's instances by key
  stored,     \* stored[k]: what the instance's store holds
  known,      \* known[k]: what the session holds for the route
  made,       \* how many operations were made
  failed      \* history: the taps whose last mount threw

runtime == <<tap, table, stored, known>>
vars == <<param, attached, notified, tap, table, stored, known, made, failed>>

Keys == [1 .. 3 -> Values \cup {""}]
NoFill == <<>>
NoMount == [key |-> NoFill, live |-> FALSE, instance |-> "none"]
MountOf(key) == [key |-> key, live |-> TRUE, instance |-> "up"]
Idle == [fill |-> NoFill, mount |-> NoMount, current |-> {}]

-----------------------------------------------------------------------------
(* Fills. *)

PartValue(part) == IF part \in Params THEN param[part] ELSE part
Derivable(t) == \A n \in 1 .. 3 : PartValue(FillSpec[t][n]) # NotReady
Fill(t) == [n \in 1 .. 3 |-> PartValue(FillSpec[t][n])]

\* Faulty version of SameFill: only the domains are compared.
SameDomain(a, b) == a # NoFill /\ a[1] = b[1]
SameFill(a, b) == a = b

-----------------------------------------------------------------------------
(* The runtime `w` (tap, table, stored and known as a record) after a call. *)

World == [tap |-> tap, table |-> table, stored |-> stored, known |-> known]
Becomes(w) == tap' = w.tap /\ table' = w.table /\ stored' = w.stored /\ known' = w.known

\* Every listener of an instance is called with its assembly.
Fanned(w, key) ==
  [w EXCEPT !.tap = [t \in Taps |-> IF t \in w.table[key].listeners
                                    THEN [w.tap[t] EXCEPT !.current = w.stored[key]] ELSE w.tap[t]]]

\* ingest: what the store lacks is appended and, when any landed, fanned.
Ingested(w, key, ops) ==
  IF ops \subseteq w.stored[key] THEN w
  ELSE Fanned([w EXCEPT !.stored[key] = @ \cup ops], key)

Instance(w, key) ==
  IF key \in DOMAIN w.table THEN w.table[key]
  ELSE [refcount |-> 0, listeners |-> {}, lit |-> FALSE, threw |-> FALSE]

With(f, key, x) == [k \in DOMAIN f \cup {key} |-> IF k = key THEN x ELSE f[k]]

\* The instance of a key, opened on first interest and lit when the mount
\* brings the first destination; it then takes what the session holds.
Opened(w, t, key) ==
  LET old == Instance(w, key)
      lights == t \in Lit /\ ~ old.lit
      new == [w EXCEPT !.table = With(@, key, [old EXCEPT !.lit = old.lit \/ t \in Lit])]
  IN  IF lights THEN Ingested(new, key, w.known[key]) ELSE new

\* binder.mount, which calls the listener with a refresh before it returns.
Mounted(w, t, key) ==
  LET open == Opened(w, t, key)
      old == open.table[key]
  IN  [open EXCEPT
         !.table[key] = [old EXCEPT !.refcount = old.refcount + 1, !.listeners = old.listeners \cup {t}],
         !.tap[t] = [fill |-> key, mount |-> MountOf(key), current |-> open.stored[key]]]

\* binder.mount when the backfill is refused: the instance is in the table and
\* lit, and nobody is counted.
MountedHalf(w, t, key) ==
  [w EXCEPT !.table = With(@, key, [Instance(w, key) EXCEPT !.lit = TRUE, !.threw = TRUE]),
            !.tap[t].fill = key]

\* binder.mount when the profile is refused or the store cannot be opened: there
\* is no instance, and the tap has taken the fill for its own already.
MountRefused(w, t, key) == [w EXCEPT !.tap[t].fill = key]

\* The interest of t in its mount's instance ends, `off` stop listening; at zero
\* the instance is disposed of and its store dropped.
Released(w, t, off) ==
  LET key == w.tap[t].mount.key
      old == w.table[key]
      down == IF old.lit THEN "down, lit" ELSE "down"
      left(u) == [key |-> key, live |-> w.tap[u].mount.live /\ u # t, instance |-> down]
  IN  IF old.refcount > 1
      THEN [w EXCEPT
              !.tap[t].mount.live = FALSE,
              !.table[key] = [old EXCEPT !.refcount = old.refcount - 1, !.listeners = old.listeners \ off]]
      ELSE [w EXCEPT
              !.tap = [u \in Taps |-> IF w.tap[u].mount.key = key /\ w.tap[u].mount.instance = "up"
                                      THEN [w.tap[u] EXCEPT !.mount = left(u)] ELSE w.tap[u]],
              !.table = [k \in DOMAIN @ \ {key} |-> @[k]],
              !.stored[key] = {}]

\* Faulty versions of Unmounted: the listener stays; a mount releases twice.
UnmountedListening(w, t) == IF w.tap[t].mount.live THEN Released(w, t, {}) ELSE w
UnmountedAgain(w, t) == IF w.tap[t].mount.instance = "up" THEN Released(w, t, {t}) ELSE w

\* Mount.unmount: once per mount.
Unmounted(w, t) == IF w.tap[t].mount.live THEN Released(w, t, {t}) ELSE w

\* syncMount: nothing while the fill cannot be derived or has not changed;
\* otherwise the old mount is released, the fill taken and mounted. Of the
\* mounts that throw, those before and those after the instance is in the table.
SyncMount(t) ==
  LET left == Unmounted(World, t)
      mounts == Derivable(t) /\ ~ SameFill(tap[t].fill, Fill(t))
  IN  \/ ~ mounts /\ UNCHANGED <<runtime, failed>>
      \/ mounts /\ Becomes(Mounted(left, t, Fill(t))) /\ failed' = failed \ {t}
      \/ /\ mounts /\ Cardinality(failed) < MaxFailures /\ failed' = failed \cup {t}
         /\ \/ Becomes(MountRefused(left, t, Fill(t)))
            \/ /\ t \in Lit /\ ~ Instance(left, Fill(t)).lit
               /\ known[Fill(t)] \ left.stored[Fill(t)] # {}
               /\ Becomes(MountedHalf(left, t, Fill(t)))

-----------------------------------------------------------------------------
Init ==
  /\ param = [p \in Params |-> NotReady]
  /\ attached = {} /\ notified = {} /\ failed = {}
  /\ tap = [t \in Taps |-> Idle]
  /\ table = <<>>
  /\ stored = [k \in Keys |-> {}]
  /\ known = [k \in Keys |-> {}]
  /\ made = 0

\* onAttach
Attach(t) ==
  /\ t \notin attached
  /\ attached' = attached \cup {t}
  /\ SyncMount(t)
  /\ UNCHANGED <<param, notified, made>>

\* Faulty version of Cleared: the tap remembers the fill it was mounted on.
ClearedButFill(w, t) == [w EXCEPT !.tap[t] = [Idle EXCEPT !.fill = w.tap[t].fill]]
Cleared(w, t) == [w EXCEPT !.tap[t] = Idle]

\* onDetach
Detach(t) ==
  /\ t \in attached
  /\ attached' = attached \ {t}
  /\ notified' = notified \ {t}
  /\ Becomes(Cleared(Unmounted(World, t), t))
  /\ failed' = failed \ {t}
  /\ UNCHANGED <<param, made>>

\* A parameter gets another value, or loses it.
SetParam(p, v) ==
  /\ v # param[p]
  /\ param' = [param EXCEPT ![p] = v]
  /\ notified' = notified \cup {t \in attached : \E n \in 1 .. 3 : FillSpec[t][n] = p}
  /\ UNCHANGED <<attached, runtime, made, failed>>

\* produceOnParams
Notify(t) ==
  /\ t \in notified
  /\ notified' = notified \ {t}
  /\ SyncMount(t)
  /\ UNCHANGED <<param, attached, made>>

\* set, append, replaceText and their like: the mount's instance mints, sends
\* and stores. Without a mount they throw. A released mount still has its
\* instance; one that was torn down sends, but its store is nobody's any more.
Write(t) ==
  LET mount == tap[t].mount
      up == mount.instance = "up"
      lit == IF up THEN table[mount.key].lit ELSE mount.instance = "down, lit"
      op == made + 1
      sent == [World EXCEPT !.known[mount.key] = IF lit THEN @ \cup {op} ELSE @]
  IN  /\ mount # NoMount /\ made < MaxOps
      /\ made' = op
      /\ Becomes(IF up THEN Ingested(sent, mount.key, {op}) ELSE sent)
      /\ UNCHANGED <<param, attached, notified, failed>>

\* Another client's operation reaches the session, and the instance if it is lit.
Remote(key) ==
  LET op == made + 1
      heard == [World EXCEPT !.known[key] = @ \cup {op}]
  IN  /\ made < MaxOps
      /\ made' = op
      /\ Becomes(IF key \in DOMAIN table /\ table[key].lit THEN Ingested(heard, key, {op}) ELSE heard)
      /\ UNCHANGED <<param, attached, notified, failed>>

\* The node replays what the session holds already.
Replay(key) ==
  /\ key \in DOMAIN table /\ table[key].lit
  /\ ~ known[key] \subseteq stored[key]
  /\ Becomes(Ingested(World, key, known[key]))
  /\ UNCHANGED <<param, attached, notified, made, failed>>

Next ==
  \/ \E t \in Taps :
       Attach(t) \/ Detach(t) \/ Notify(t) \/ Write(t)
  \/ \E p \in Params, v \in Values \cup {NotReady} : SetParam(p, v)
  \/ \E key \in DOMAIN table \cup {Fill(t) : t \in {t \in Taps : Derivable(t)}} : Remote(key)
  \/ \E key \in DOMAIN table : Replay(key)

Spec == Init /\ [][Next]_vars

-----------------------------------------------------------------------------
MountedOn(key) == {t \in Taps : tap[t].mount = MountOf(key)}

(* The type of the state; a tap that is not registered keeps nothing (onDetach).  *)
TypeOK ==
  /\ param \in [Params -> Values \cup {NotReady}]
  /\ attached \subseteq Taps /\ notified \subseteq attached /\ failed \subseteq attached
  /\ \A t \in Taps \ attached : tap[t] = Idle
  /\ \A t \in attached : tap[t].fill \in Keys \cup {NoFill} /\ tap[t].current \subseteq 1 .. made
  /\ DOMAIN table \subseteq Keys
  /\ \A k \in DOMAIN table : table[k].refcount \in Nat
  /\ {stored, known} \subseteq [Keys -> SUBSET (1 .. made)]

(* "The tap's attach/detach lifecycle IS the instance refcount" (grip/index.ts     *)
(* 14): through shared fills, fills that change and mounts that throw, an instance *)
(* is counted once for each tap that is mounted on it and listened to by these     *)
(* taps only, no tap is mounted on an instance that was torn down, and none lives  *)
(* on unmounted but where attaching its destination threw (binder.ts 72).          *)
RefcountIsMounts ==
  /\ \A k \in DOMAIN table :
       /\ table[k].refcount = Cardinality(MountedOn(k))
       /\ table[k].listeners = MountedOn(k)
       /\ table[k].refcount = 0 => table[k].threw
  /\ \A t \in Taps : tap[t].mount.live => tap[t].mount.key \in DOMAIN table

(* A tap that was told of every change and whose mount did not throw is mounted on *)
(* exactly the fill its parameters derive, whatever happened in between; while     *)
(* they derive none it stays where it is (syncMount, grip/index.ts 281).           *)
TapFollowsFill ==
  \A t \in attached \ (notified \cup failed) :
    IF Derivable(t) THEN tap[t].mount = MountOf(Fill(t))
    ELSE tap[t].mount.live \/ tap[t] = Idle

(* Between calls a mounted tap shows the assembly of the instance it writes to,    *)
(* and of no other: also of operations that landed while another tap's mount lit   *)
(* the instance, and never those of an instance it left (grip/index.ts 296).       *)
ShownIsAssembled ==
  \A t \in Taps : tap[t].mount.live => tap[t].current = stored[tap[t].mount.key]
=============================================================================
