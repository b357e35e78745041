------------------------------- MODULE Supplier -------------------------------
(***************************************************************************)
(* The supplier of a share: it keeps every surface it serves subscribed on *)
(* the session, through lost links, refused subscriptions, and servings    *)
(* that are detached while a subscription is on its way.                   *)
(*                                                                         *)
(* A task is one call of attachOne or reattachAll and stands at one of     *)
(* their awaits: for hello, or for a subscription. What runs between two   *)
(* awaits is one step. The session is external: it answers a call when it  *)
(* likes, the calls of an earlier connection included.                     *)
(***************************************************************************)
EXTENDS Naturals, FiniteSets, FiniteSetsExt

CONSTANTS
  N,            \* how many surfaces are served; serving s is the s-th registered
  Refusing,     \* the surfaces whose subscription is always refused
  MaxDrops,     \* bound on lost links
  MaxFailures,  \* bound on refused subscriptions of the other surfaces
  MaxAttempt    \* the attempt from which the delay is at its ceiling

ASSUME SupplierAssumption ==
  /\ N \in Nat /\ Refusing \subseteq 1 .. N
  /\ MaxDrops \in Nat /\ MaxFailures \in Nat /\ MaxAttempt \in Nat

Surfaces == 1 .. N

VARIABLES
  next,      \* how many servings were registered
  servings,  \* those not detached since
  gen,       \* gen[s]: the generation of the serving
  off,       \* off[s]: the generation whose handler reqOff or opsOff removes, or 0
  hooks,     \* the handlers the session holds, as <<serving, generation>>
  helloed,   \* whether hello is taken to be said
  closed,    \* detachAll was called
  attempt,   \* consecutive failures of reattachAll, up to the ceiling
  timers,    \* scheduled reattachments
  latest,    \* whether the one cancelBackoff cancels is still scheduled
  tasks,     \* calls of attachOne and reattachAll in progress
  drops,     \* lost links
  said,      \* hello calls on this connection, counted up to 2
  failures   \* refused subscriptions of surfaces that accept in the end

timerVars == <<timers, latest>>
vars == <<next, servings, gen, off, hooks, helloed, closed, attempt, timers,
          latest, tasks, drops, said, failures>>

-----------------------------------------------------------------------------
\* A task waiting for hello is told apart by the number of its call, one waiting
\* for a subscription by the generation it belongs to.
Task(kind, at, s, call) == [kind |-> kind, at |-> at, s |-> s, call |-> call]

\* Generations and calls are only compared for equality, so the smallest number
\* nothing refers to any more stands for the next one.
Unused(used) == Min((1 .. Cardinality(used) + 1) \ used)

NextGen(s) ==
  Unused({gen[s], off[s]} \cup {h[2] : h \in {k \in hooks : k[1] = s}}
         \cup {t.call : t \in {u \in tasks : u.at = "sub" /\ u.s = s}})
NextCall == Unused({t.call : t \in {u \in tasks : u.at = "hello"}})

\* Faulty version of Current: any subscription of a registered serving counts.
CurrentAlways(t) == t.s \in servings
Current(t) == t.s \in servings /\ t.call = gen[t.s]

\* Faulty version of Wanted: a detached serving still subscribes.
WantedAlways(s) == TRUE
Wanted(s) == s \in servings

\* Faulty version of Later: off by one.
LaterButOne(s) == {n \in servings : n > s + 1}

\* The servings the loop of reattachAll has left after s.
Later(s) == {n \in servings : n > s}

\* Faulty version of Escalated: the delay has no ceiling.
EscalatedPast == attempt + 1
Escalated == IF attempt < MaxAttempt THEN attempt + 1 ELSE attempt

\* Faulty version of Retries: a failed attachOne is forgotten.
RetriesLoop(t) == t.kind = "all"

\* Which failures are followed by another attempt.
Retries(t) == t.s \in servings

\* scheduleReattach: a timer more; only the last one can be cancelled.
Schedule ==
  /\ timers' = IF closed THEN timers ELSE timers + 1
  /\ latest' = IF closed THEN latest ELSE TRUE

\* attach, up to its await: a new generation without a handler subscribes.
Begin(kind, s, h, o, rest) ==
  /\ gen' = [gen EXCEPT ![s] = NextGen(s)]
  /\ hooks' = h \ {<<s, o[s]>>}
  /\ off' = [o EXCEPT ![s] = 0]
  /\ tasks' = rest \cup {Task(kind, "sub", s, gen'[s])}
  /\ UNCHANGED attempt

Done(h, o, rest) ==
  /\ attempt' = 0
  /\ hooks' = h /\ off' = o /\ tasks' = rest
  /\ UNCHANGED gen

\* The loop of reattachAll goes on after serving s.
Loop(s, h, o, rest) ==
  IF Later(s) = {} THEN Done(h, o, rest) ELSE Begin("all", Min(Later(s)), h, o, rest)

\* ensureHello, when hello was not said: it is marked as said before the await.
Hello(kind, s) ==
  /\ helloed' = TRUE
  /\ said' = Min({said + 1, 2})
  /\ tasks' = tasks \cup {Task(kind, "hello", s, NextCall)}
  /\ UNCHANGED <<gen, hooks, off, attempt>>

-----------------------------------------------------------------------------
Init ==
  /\ next = 0 /\ servings = {}
  /\ gen = [s \in Surfaces |-> 0] /\ off = [s \in Surfaces |-> 0] /\ hooks = {}
  /\ helloed = FALSE /\ closed = FALSE
  /\ attempt = 0 /\ timers = 0 /\ latest = FALSE
  /\ tasks = {} /\ drops = 0 /\ said = 0 /\ failures = 0

\* serveExchange or serveShare: register, then attachOne up to its first await.
Serve ==
  /\ next < N
  /\ next' = next + 1
  /\ servings' = servings \cup {next'}
  /\ IF helloed
     THEN Begin("one", next', hooks, off, tasks) /\ UNCHANGED <<helloed, said>>
     ELSE Hello("one", next')
  /\ UNCHANGED <<closed, timerVars, drops, failures>>

\* A timer fires: reattachAll up to its first await.
Fire ==
  /\ timers > 0
  /\ timers' = timers - 1
  /\ latest' \in {FALSE} \cup {l \in {TRUE} : latest /\ timers > 1}
  /\ IF closed
     THEN UNCHANGED <<gen, hooks, off, tasks, attempt, helloed, said>>
     ELSE IF helloed
     THEN Loop(0, hooks, off, tasks) /\ UNCHANGED <<helloed, said>>
     ELSE Hello("all", 0)
  /\ UNCHANGED <<next, servings, closed, drops, failures>>

\* hello is answered, with success or failure.
HelloAnswered(t) ==
  /\ t.at = "hello"
  /\ LET rest == tasks \ {t} IN
     CASE t.kind = "all" -> Loop(0, hooks, off, rest)
       [] t.kind = "one" /\ Wanted(t.s) -> Begin("one", t.s, hooks, off, rest)
       [] OTHER -> Done(hooks, off, rest)
  /\ UNCHANGED <<next, servings, helloed, closed, timerVars, drops, said, failures>>

\* attach returns: its handler is registered if its generation is current.
Attached(t, h, o) ==
  LET rest == tasks \ {t} IN
  IF t.kind = "all" THEN Loop(t.s, h, o, rest) ELSE Done(h, o, rest)

Subscribed(t) ==
  /\ t.at = "sub" /\ t.s \notin Refusing
  /\ IF Current(t)
     THEN Attached(t, hooks \cup {<<t.s, t.call>>}, [off EXCEPT ![t.s] = t.call])
     ELSE Attached(t, hooks, off)
  /\ UNCHANGED <<next, servings, helloed, closed, timerVars, drops, said, failures>>

\* The subscription is refused: attach throws if its generation is current and
\* otherwise returns.
Refused(t) ==
  /\ t.at = "sub"
  /\ t.s \in Refusing \/ failures < MaxFailures
  /\ failures' = IF t.s \in Refusing THEN failures ELSE failures + 1
  /\ IF Current(t)
     THEN /\ tasks' = tasks \ {t}
          /\ attempt' = IF t.kind = "all" THEN Escalated ELSE attempt
          /\ helloed' = (helloed /\ t.kind # "all")
          /\ IF Retries(t) THEN Schedule ELSE UNCHANGED timerVars
          /\ UNCHANGED <<gen, hooks, off>>
     ELSE Attached(t, hooks, off) /\ UNCHANGED <<helloed, timerVars>>
  /\ UNCHANGED <<next, servings, closed, drops, said>>

\* The link is lost and with it the session's handlers. Unless it was closed,
\* the supplier hears of it.
Drop ==
  /\ drops < MaxDrops
  /\ drops' = drops + 1
  /\ said' = 0
  /\ hooks' = {}
  /\ IF closed
     THEN UNCHANGED <<gen, off, helloed, attempt>>
     ELSE /\ gen' = [s \in Surfaces |-> IF s \in servings THEN NextGen(s) ELSE gen[s]]
          /\ off' = [s \in Surfaces |-> IF s \in servings THEN 0 ELSE off[s]]
          /\ helloed' = FALSE /\ attempt' = 0
  /\ Schedule
  /\ UNCHANGED <<next, servings, closed, tasks, failures>>

\* Detaches a set of servings.
Detached(gone) ==
  /\ servings' = servings \ gone
  /\ gen' = [s \in Surfaces |-> IF s \in gone THEN NextGen(s) ELSE gen[s]]
  /\ hooks' = hooks \ {<<s, off[s]>> : s \in gone}
  /\ off' = [s \in Surfaces |-> IF s \in gone THEN 0 ELSE off[s]]
  /\ UNCHANGED <<next, helloed, attempt, tasks, drops, said, failures>>

Detach(s) == s \in servings /\ Detached({s}) /\ UNCHANGED <<closed, timerVars>>

DetachAll ==
  /\ ~ closed \/ servings # {}
  /\ closed' = TRUE
  /\ timers' = IF latest THEN timers - 1 ELSE timers
  /\ latest' = FALSE
  /\ Detached(servings)

Next ==
  \/ Serve \/ Fire \/ Drop \/ DetachAll
  \/ \E t \in tasks : HelloAnswered(t) \/ Subscribed(t) \/ Refused(t)
  \/ \E s \in Surfaces : Detach(s)

Spec == Init /\ [][Next]_vars

\* Timers fire, and the session answers every call made for a surface, and the
\* hello of a loop (s = 0), with success or failure.
Fairness ==
  /\ WF_vars(Fire)
  /\ \A s \in 0 .. N :
       WF_vars(\E t \in tasks : t.s = s /\ (HelloAnswered(t) \/ Subscribed(t) \/ Refused(t)))

FairSpec == Spec /\ Fairness

-----------------------------------------------------------------------------
(* The type of every variable. *)
TypeOK ==
  /\ next \in 0 .. N /\ servings \subseteq 1 .. next
  /\ gen \in [Surfaces -> Nat] /\ off \in [Surfaces -> Nat]
  /\ hooks \subseteq Surfaces \X Nat
  /\ helloed \in BOOLEAN /\ closed \in BOOLEAN /\ latest \in BOOLEAN
  /\ attempt \in 0 .. MaxAttempt /\ timers \in Nat
  /\ tasks \subseteq [kind : {"one", "all"}, at : {"hello", "sub"}, s : 0 .. N, call : Nat]
  /\ drops \in 0 .. MaxDrops /\ said \in 0 .. 2 /\ failures \in 0 .. MaxFailures

(* SupplierLifecycle-20261023.md: "Stale completion cannot install hooks". A      *)
(* serving never has two handlers on the session, so no request is answered      *)
(* twice, and a detached one has none, however attaches and drops overlap.       *)
OneHandler ==
  \A h \in hooks : h[1] \in servings /\ h[2] = gen[h[1]] /\ off[h[1]] = h[2]

(* No subscription is made for a serving after it was detached, by the loop or   *)
(* the attach that was waiting then.                                             *)
NoneAfterDetach ==
  [][\A t \in tasks' \ tasks : t.at = "sub" => t.s \in servings']_vars

Hooked(s) == <<s, gen[s]>> \in hooks

\* The task will still attach s, or fail and schedule another attempt.
Covers(t, s) ==
  \/ t.kind = "one" /\ t.s = s /\ (t.at = "hello" \/ Current(t))
  \/ t.kind = "all" /\ (t.at = "hello" \/ t.s < s \/ (t.s = s /\ Current(t)))

(* A registered serving is never left behind: it has its handler, or a task or a *)
(* timer will attach it, whatever failed or was superseded in between.           *)
NeverStranded ==
  ~ closed => \A s \in servings : Hooked(s) \/ timers > 0 \/ \E t \in tasks : Covers(t, s)

(* supplier/index.ts 366: the supplier "reattaches every serving on a link drop  *)
(* with backoff". A serving whose surface accepts subscriptions in the end gets  *)
(* its handler, unless it is detached.                                           *)
EverServed ==
  \A s \in Surfaces \ Refusing :
    s \in servings ~> (s \notin servings \/ closed \/ Hooked(s))

(* DecisionLog GAP-13: hello is "called ONCE per connection".                    *)
HelloOnce == said <= 1
===============================================================================
