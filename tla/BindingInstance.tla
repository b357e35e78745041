--------------------------- MODULE BindingInstance ---------------------------
(***************************************************************************)
(* One mounted instance of a log or value binding: its operation store,    *)
(* the glade destination it may be attached to, and the synchronous fan of *)
(* change events to its listeners.                                         *)
(*                                                                         *)
(* Everything the runtime does here is synchronous, so what interleaves is *)
(* re-entrancy: a listener called in the middle of a fan may write,        *)
(* subscribe, unsubscribe, attach, or cause a delivery, and publishing an  *)
(* operation hands control to the bus before the write has stored it. The  *)
(* call stack is therefore part of the state. A frame is either the loop   *)
(* over the listeners for one event, or a write waiting for send() to      *)
(* return.                                                                 *)
(***************************************************************************)
EXTENDS SessionDestination

CONSTANTS
  Shape,          \* "log" or "value"
  Self,           \* the origin of this client, as a number
  RemoteOps,      \* operations other clients may put on the wire
  Listeners,      \* the listeners that may subscribe
  Retains,        \* TRUE for a persistent store engine, FALSE for memory
  OfflineWrites,  \* whether the application writes while nothing is attached
  ListenersCall,  \* whether listeners call back into the instance
  Faults,         \* which calls may throw: a subset of {"hydrate", "publish"}
  MaxWrites,      \* bound on local writes
  MaxDepth,       \* bound on nested calls
  MaxLives        \* bound on how often the instance is mounted anew

ASSUME SelfAssumption == Self \in Nat
ASSUME ShapeAssumption == Shape \in {"log", "value"}
ASSUME RemoteAssumption ==
  /\ RemoteOps \subseteq Op
  /\ IsFiniteSet(RemoteOps)
  /\ Distinct(RemoteOps)
  /\ \A o \in RemoteOps : o.origin # Self /\ o.wire

VARIABLES
  store,      \* the operations the instance holds
  emitted,    \* identities already fanned as a delta (log shape)
  dest,       \* "none", "on", or "half": set, but hydrate() threw
  sess,       \* what the session holds for this route
  sent,       \* operations the session minted and the bus was given
  slots,      \* listeners in subscription order; a removed one leaves a hole
  live,       \* the listeners still subscribed
  base,       \* base[l]: the operations in the refresh l got on subscribing
  since,      \* since[l]: how many events were fanned before l subscribed
  view,       \* view[l]: the assembly l was shown last
  heard,      \* heard[l]: the events l was called with, in order
  events,     \* the events fanned in this life
  pos,        \* pos[e]: the slot the loop over event e has reached
  stack,      \* the calls in progress, the innermost last
  writes,     \* how many local writes were begun
  returned,   \* operations write() returned to its caller
  lives       \* how many times the instance was mounted

fanVars == <<slots, live, base, since, view, heard>>
destVars == <<dest, sess, sent>>
vars == <<store, emitted, dest, sess, sent, slots, live, base, since, view, heard,
          events, pos, stack, writes, returned, lives>>

-----------------------------------------------------------------------------
Fan(e) == [kind |-> "fan", ev |-> e]
Pending(o) == [kind |-> "write", op |-> o]
Inner == stack[Len(stack)]
Outer == SubSeq(stack, 1, Len(stack) - 1)

\* Code outside the instance runs: nothing is in progress, or the bus that
\* send() called, or a listener that calls back, has control.
InControl ==
  \/ stack = <<>>
  \/ stack # <<>> /\ Inner.kind = "write"
  \/ ListenersCall /\ stack # <<>> /\ Inner.kind = "fan" /\ pos[Inner.ev] > 0

MayCall == InControl /\ Len(stack) < MaxDepth

\* What a listener is shown: the whole log, or the register's winner, the last
\* operation of the order (ValueRegister.read).
Assemble(ops) ==
  IF Shape = "log" THEN ops
  ELSE {w \in ops : \A o \in ops : o = w \/ Precedes(o, w)}

\* Faulty versions of Fresh: a positional cursor into the sorted whole, and a
\* cursor at the last operation delivered.
FreshByPosition(ops) == {o \in ops : Place(o, ops) > Cardinality(emitted)}
FreshByLast(ops) ==
  {o \in ops : \A p \in ops : Id(p) \in emitted => Precedes(p, o)}

Fresh(ops) == {o \in ops : Id(o) \notin emitted}

\* Faulty version of BaseSeq: it counts events, not records.
BaseByEvents == IF Shape = "log" THEN Len(events) ELSE 0

\* The base_seq of a log event: the records delivered before it.
BaseSeq == IF Shape = "log" THEN Cardinality(emitted) ELSE 0

\* Appends the operations the store lacks and, when any landed, folds once and
\* starts the fan; the calls in `rest` continue after it. A log event carries
\* the records not emitted before, and is not sent when there is none.
Land(batch, rest) ==
  LET ops == store \cup Missing(batch, store)
      delta == IF Shape = "log" THEN Fresh(ops) ELSE {}
      event == [base |-> BaseSeq, delta |-> delta, whole |-> Assemble(ops)]
      fans == Missing(batch, store) # {} /\ (Shape = "log" => delta # {})
  IN  /\ store' = ops
      /\ emitted' = IF Shape = "log" /\ fans THEN emitted \cup Ids(delta) ELSE emitted
      /\ events' = IF fans THEN Append(events, event) ELSE events
      /\ pos' = IF fans THEN Append(pos, 0) ELSE pos
      /\ stack' = IF fans THEN Append(rest, Fan(Len(events) + 1)) ELSE rest

-----------------------------------------------------------------------------
Init ==
  /\ store = {} /\ emitted = {}
  /\ dest = "none" /\ sess = {} /\ sent = {}
  /\ slots = <<>> /\ live = {}
  /\ base = [l \in Listeners |-> {}]
  /\ since = [l \in Listeners |-> 0]
  /\ view = [l \in Listeners |-> {}]
  /\ heard = [l \in Listeners |-> <<>>]
  /\ events = <<>> /\ pos = <<>> /\ stack = <<>>
  /\ writes = 0 /\ returned = {} /\ lives = 1

\* attachGlade: the destination is set first, then the session absorbs what the
\* store holds, then the instance subscribes and ingests the backfill.
Attach ==
  /\ MayCall
  /\ dest = "none"
  /\ dest' = "on"
  /\ sess' = Hydrated(sess, store)
  /\ Land(Backfill(sess', store), stack)
  /\ UNCHANGED <<sent, fanVars, writes, returned, lives>>

\* attachGlade when the destination's hydrate throws: the destination stays set
\* and is never subscribed to.
AttachThrows ==
  /\ "hydrate" \in Faults
  /\ MayCall
  /\ dest = "none"
  /\ dest' = "half"
  /\ UNCHANGED <<store, emitted, sess, sent, fanVars, events, pos, stack, writes, returned, lives>>

\* Faulty version of Subscribe: the listener gets no refresh.
SubscribeSilently(l) ==
  /\ InControl
  /\ \A i \in DOMAIN slots : slots[i] # l
  /\ slots' = Append(slots, l)
  /\ live' = live \cup {l}
  /\ UNCHANGED <<store, emitted, destVars, base, since, view, heard, events, pos, stack, writes, returned, lives>>

\* A listener joins and is handed a refresh.
Subscribe(l) ==
  /\ InControl
  /\ \A i \in DOMAIN slots : slots[i] # l
  /\ slots' = Append(slots, l)
  /\ live' = live \cup {l}
  /\ base' = [base EXCEPT ![l] = store]
  /\ since' = [since EXCEPT ![l] = Len(events)]
  /\ view' = [view EXCEPT ![l] = Assemble(store)]
  /\ heard' = [heard EXCEPT ![l] = <<>>]
  /\ UNCHANGED <<store, emitted, destVars, events, pos, stack, writes, returned, lives>>

Unsubscribe(l) ==
  /\ InControl
  /\ l \in live
  /\ live' = live \ {l}
  /\ UNCHANGED <<store, emitted, destVars, slots, base, since, view, heard, events, pos, stack, writes, returned, lives>>

\* Faulty version of Reaches: the loop stops at a listener that left.
ReachesUpToHole(e, i) == i = pos[e] + 1 /\ slots[i] \in live

\* The next listener the loop of the innermost fan reaches: a Set iterator skips
\* what was deleted and visits what was added while it runs.
Reaches(e, i) ==
  /\ i > pos[e]
  /\ slots[i] \in live
  /\ \A j \in pos[e] + 1 .. i - 1 : slots[j] \notin live

Tell ==
  /\ stack # <<>> /\ Inner.kind = "fan"
  /\ \E i \in DOMAIN slots :
       LET e == Inner.ev IN
       /\ Reaches(e, i)
       /\ pos' = [pos EXCEPT ![e] = i]
       /\ heard' = [heard EXCEPT ![slots[i]] = Append(@, e)]
       /\ view' = [view EXCEPT ![slots[i]] = events[e].whole]
  /\ UNCHANGED <<store, emitted, destVars, slots, live, base, since, events, stack, writes, returned, lives>>

FanEnds ==
  /\ stack # <<>> /\ Inner.kind = "fan"
  /\ \A i \in DOMAIN slots : ~ Reaches(Inner.ev, i)
  /\ stack' = Outer
  /\ UNCHANGED <<store, emitted, destVars, fanVars, events, pos, writes, returned, lives>>

-----------------------------------------------------------------------------
\* Faulty version of MintLocal: the sequence number is one too low.
MintLocalBefore(payload) ==
  [origin |-> Self, seq |-> Cardinality(OwnedBy(store, Self)) - 1,
   lamport |-> Top(store) + 1, payload |-> payload, wire |-> FALSE]

\* mintLocal: the sequence number counts the origin's stored operations.
MintLocal(payload) ==
  [origin |-> Self, seq |-> Cardinality(OwnedBy(store, Self)) + 1,
   lamport |-> Top(store) + 1, payload |-> payload, wire |-> FALSE]

WriteOffline ==
  /\ OfflineWrites
  /\ MayCall /\ writes < MaxWrites
  /\ dest = "none"
  /\ LET op == MintLocal(writes + 1) IN
       /\ Land({op}, stack)
       /\ returned' = returned \cup {op}
  /\ writes' = writes + 1
  /\ UNCHANGED <<destVars, fanVars, lives>>

\* send: the session mints the operation and the bus gets it. Whatever publish()
\* calls runs before the write goes on.
WriteOnline ==
  /\ MayCall /\ writes < MaxWrites
  /\ dest # "none"
  /\ LET op == SessionMint(sess, Self, writes + 1) IN
       /\ sess' = sess \cup {op}
       /\ sent' = sent \cup {op}
       /\ stack' = Append(stack, Pending(op))
  /\ writes' = writes + 1
  /\ UNCHANGED <<store, emitted, dest, fanVars, events, pos, returned, lives>>

\* send returned: append, and fold unless an echo has landed the operation.
WriteReturns ==
  /\ stack # <<>> /\ Inner.kind = "write"
  /\ Land({Inner.op}, Outer)
  /\ returned' = returned \cup {Inner.op}
  /\ UNCHANGED <<destVars, fanVars, writes, lives>>

\* publish threw after the session minted: write throws, nothing is stored.
WriteThrows ==
  /\ "publish" \in Faults
  /\ stack # <<>> /\ Inner.kind = "write"
  /\ stack' = Outer
  /\ UNCHANGED <<store, emitted, destVars, fanVars, events, pos, writes, returned, lives>>

-----------------------------------------------------------------------------
Wire == RemoteOps \cup sent

\* Faulty version of Deliver: the session is not given what the bus brings.
DeliverPastSession(batch) ==
  /\ MayCall
  /\ dest = "on"
  /\ Land(batch, stack)
  /\ UNCHANGED <<destVars, fanVars, writes, returned, lives>>

\* The bus brings operations of the route, any of them, in any order, again and
\* again. A subscribed instance has the session absorb them and ingests them.
Deliver(batch) ==
  /\ MayCall
  /\ dest = "on"
  /\ sess' = Absorbed(sess, batch)
  /\ Land(batch, stack)
  /\ UNCHANGED <<dest, sent, fanVars, writes, returned, lives>>

\* feedSession: what the bus brings reaches the session although the instance is
\* not subscribed.
Feed(batch) ==
  /\ InControl
  /\ dest # "on"
  /\ sess' = Absorbed(sess, batch)
  /\ UNCHANGED <<store, emitted, dest, sent, fanVars, events, pos, stack, writes, returned, lives>>

Batches == {b \in SUBSET Wire : b # {} /\ Cardinality(b) <= 2 /\ Distinct(b)}

\* What hydrate() marks as emitted when the instance is created; the faulty
\* version marks nothing.
MarkNothing(ops) == {}
Marked(ops) == IF Shape = "log" THEN Ids(ops) ELSE {}

\* The last unmount disposes the instance and the route is mounted again, in the
\* same page or, with a fresh session, after a reload. hydrate() marks what the
\* store kept as emitted.
Remount(fresh) ==
  /\ stack = <<>>
  /\ lives < MaxLives
  /\ lives' = lives + 1
  /\ store' = IF Retains THEN store ELSE {}
  /\ emitted' = Marked(store')
  /\ returned' = IF Retains THEN returned ELSE {}
  /\ dest' = "none"
  /\ sess' = IF fresh THEN {} ELSE sess
  /\ slots' = <<>> /\ live' = {}
  /\ base' = [l \in Listeners |-> {}]
  /\ since' = [l \in Listeners |-> 0]
  /\ view' = [l \in Listeners |-> {}]
  /\ heard' = [l \in Listeners |-> <<>>]
  /\ events' = <<>> /\ pos' = <<>>
  /\ UNCHANGED <<sent, stack, writes>>

Next ==
  \/ Attach
  \/ AttachThrows
  \/ \E l \in Listeners : Subscribe(l) \/ Unsubscribe(l)
  \/ Tell
  \/ FanEnds
  \/ WriteOffline
  \/ WriteOnline
  \/ WriteReturns
  \/ WriteThrows
  \/ \E batch \in Batches : Deliver(batch) \/ Feed(batch)
  \/ \E fresh \in BOOLEAN : Remount(fresh)

Spec == Init /\ [][Next]_vars

\* Calls are synchronous: a loop that has begun runs to its end and send()
\* returns or throws. Nothing else is ever obliged to happen.
Fairness == WF_vars(Tell) /\ WF_vars(FanEnds) /\ WF_vars(WriteReturns \/ WriteThrows)

FairSpec == Spec /\ Fairness

-----------------------------------------------------------------------------
Event == [base : Nat, delta : SUBSET Op, whole : SUBSET Op]
Frame == [kind : {"fan"}, ev : 1 .. Len(events)] \cup [kind : {"write"}, op : Op]

(* The type of every variable. *)
TypeOK ==
  /\ store \subseteq Op /\ sess \subseteq Op /\ sent \subseteq Op /\ returned \subseteq Op
  /\ emitted \subseteq Nat \X Nat
  /\ dest \in {"none", "half", "on"}
  /\ slots \in Seq(Listeners)
  /\ live \subseteq Listeners
  /\ base \in [Listeners -> SUBSET Op]
  /\ since \in [Listeners -> Nat]
  /\ view \in [Listeners -> SUBSET Op]
  /\ heard \in [Listeners -> Seq(Nat)]
  /\ events \in Seq(Event)
  /\ pos \in Seq(Nat)
  /\ stack \in Seq(Frame)
  /\ writes \in Nat /\ lives \in Nat

(* foldAndBroadcast, instance.ts 357-371: "emit each op exactly once, ever".   *)
(* No two events a listener was called with report the same operation, however *)
(* late it arrived, however often it was delivered and whatever calls nested.  *)
FannedOnce ==
  \A l \in Listeners : \A i, j \in DOMAIN heard[l] :
    i # j => events[heard[l][i]].delta \cap events[heard[l][j]].delta = {}

\* What a log consumer that merges deltas into its refresh has been told.
Told(l) == base[l] \cup UNION {events[heard[l][i]].delta : i \in DOMAIN heard[l]}

(* A log consumer that only merges deltas into its refresh misses nothing: when *)
(* no call is in progress, the refresh and the deltas each subscribed listener  *)
(* got hold every operation of the store.                                       *)
NothingMissed ==
  Shape = "log" /\ stack = <<>> =>
    \A l \in live : Told(l) = store

(* instance.ts 189-191: after a mount only genuinely new records are fanned. No  *)
(* delta fanned after a listener subscribed holds what its refresh had, nor, as  *)
(* the store of a persistent engine survives, what was held before the mount.    *)
DeltaIsNews ==
  \A l \in Listeners : \A i \in DOMAIN heard[l] :
    heard[l][i] > since[l] => events[heard[l][i]].delta \cap base[l] = {}

(* instance.ts 360-362: base_seq of a log event counts the records delivered    *)
(* before it, which is the length of the whole without the delta.               *)
BaseIsPrior ==
  Shape = "log" =>
    \A e \in DOMAIN events :
      events[e].base = Cardinality(events[e].whole) - Cardinality(events[e].delta)

(* GAP-9: mount order does not matter. Between calls, an attached instance holds *)
(* everything its session knows for the route, own operations included, whether *)
(* they came before the mount, after it, or by replay.                          *)
AttachedHoldsSession ==
  stack = <<>> /\ dest = "on" => Ids(sess) \subseteq Ids(store)

(* session.ts 68-71: a session resumes its own chain from the instance's store, *)
(* so no two operations it ever mints share a place in the chain.               *)
NoFork == Distinct(sent)

(* instance.ts 135-138: write "persists it, folds, and fans the change". Every  *)
(* operation write() returned is in the store.                                  *)
ReturnedHeld == returned \subseteq store

(* What a listener was shown last is the current assembly whenever no call is   *)
(* in progress (DecisionLog GAP-8: "a consumer always projects the full log").  *)
ViewsCurrent ==
  stack = <<>> => \A l \in live : view[l] = Assemble(store)

(* A connected write comes last in the fold order of everything the instance    *)
(* holds when it is minted, so a value the user sets is not at once overruled   *)
(* by one the user had seen.                                                    *)
WritesMoveForward ==
  [][\A o \in sent' \ sent : \A p \in store : Precedes(p, o)]_vars

(* The instance implements the feed a log consumer relies on (ChangeFeed): it is  *)
(* told only what is held, each thing is told at most once more than the refresh *)
(* it joined with, and a listener that stays is in the end told everything.      *)
Contract == INSTANCE ChangeFeed
  WITH Thing <- Op, Subscribers <- Listeners, known <- store, joined <- live,
       told <- [l \in Listeners |-> Told(l)]
IsChangeFeed == Contract!FairSpec
=============================================================================
