---------------------------- MODULE SupplierProofs ----------------------------
(***************************************************************************)
(* Proofs about Supplier, for every number of servings, lost links and     *)
(* refused subscriptions.                                                  *)
(***************************************************************************)
EXTENDS Supplier, NaturalFacts

USE SupplierAssumption

Tasks == [kind : {"one", "all"}, at : {"hello", "sub"}, s : 0 .. N, call : Nat]

\* The type invariant needs the sets that the next free number is sought in to
\* be finite, and the timer that cancelBackoff cancels to be one that is pending.
TypeInv == TypeOK /\ IsFiniteSet(hooks) /\ IsFiniteSet(tasks) /\ (latest => timers > 0)

LEMMA LeastIn ==
  ASSUME NEW T \in SUBSET Nat, T # {}
  PROVE  Min(T) \in T
<1>1. PICK x \in T : \A y \in T : x <= y
  BY LeastNat
<1> QED BY <1>1 DEF Min

LEMMA UnusedType ==
  ASSUME NEW used, IsFiniteSet(used)
  PROVE  Unused(used) \in Nat /\ Unused(used) \notin used
<1>1. Cardinality(used) \in Nat
  BY FS_CardinalityType
<1> DEFINE T == (1 .. Cardinality(used) + 1) \ used
<1>2. T \in SUBSET Nat /\ T # {}
  BY <1>1, OneLeftOut
<1> HIDE DEF T
<1>3. Min(T) \in T
  BY <1>2, LeastIn
<1> QED BY <1>2, <1>3 DEF Unused, T

LEMMA CallsFinite ==
  ASSUME NEW T, IsFiniteSet(T)
  PROVE  IsFiniteSet({t.call : t \in T})
<1> DEFINE f == [t \in T |-> t.call]
<1>1. f \in Surjection(T, {t.call : t \in T})
  BY DEF Surjection
<1> QED BY <1>1, FS_Surjection

LEMMA SecondsFinite ==
  ASSUME NEW T, IsFiniteSet(T)
  PROVE  IsFiniteSet({h[2] : h \in T})
<1> DEFINE f == [h \in T |-> h[2]]
<1>1. f \in Surjection(T, {h[2] : h \in T})
  BY DEF Surjection
<1> QED BY <1>1, FS_Surjection

LEMMA UnionFinite ==
  ASSUME NEW A, NEW B, IsFiniteSet(A), IsFiniteSet(B)
  PROVE  IsFiniteSet(A \cup B)
BY FS_Union

\* A new generation is a number.
LEMMA NextGenType ==
  ASSUME TypeInv, NEW s \in Surfaces
  PROVE  NextGen(s) \in Nat
<1> DEFINE held == {k \in hooks : k[1] = s}
           waiting == {u \in tasks : u.at = "sub" /\ u.s = s}
<1>1. IsFiniteSet(held) /\ IsFiniteSet(waiting)
  BY FS_Subset DEF TypeInv
<1>2. IsFiniteSet({h[2] : h \in held}) /\ IsFiniteSet({t.call : t \in waiting})
  BY <1>1, SecondsFinite, CallsFinite
<1>3. IsFiniteSet({gen[s], off[s]})
  <2>1. {gen[s], off[s]} = {gen[s]} \cup {off[s]}
    OBVIOUS
  <2>2. IsFiniteSet({gen[s]}) /\ IsFiniteSet({off[s]})
    BY FS_Singleton
  <2>3. IsFiniteSet({gen[s]} \cup {off[s]})
    BY <2>2, UnionFinite
  <2> QED BY <2>1, <2>3
<1> HIDE DEF held, waiting
<1>4. IsFiniteSet({gen[s], off[s]} \cup {h[2] : h \in held})
  BY <1>2, <1>3, UnionFinite
<1>5. IsFiniteSet({gen[s], off[s]} \cup {h[2] : h \in held} \cup {t.call : t \in waiting})
  BY <1>2, <1>4, UnionFinite
<1> QED BY <1>5, UnusedType DEF NextGen, held, waiting

LEMMA NextCallType ==
  ASSUME TypeInv
  PROVE  NextCall \in Nat
<1>1. IsFiniteSet({u \in tasks : u.at = "hello"})
  BY FS_Subset DEF TypeInv
<1>2. IsFiniteSet({t.call : t \in {u \in tasks : u.at = "hello"}})
  BY <1>1, CallsFinite
<1> QED BY <1>2, UnusedType DEF NextCall

-----------------------------------------------------------------------------
\* What the parts of a step hand on: handlers h and removers o that agree with
\* the generations of registered servings.
Tidy(h, o) ==
  \A k \in h : k[1] \in servings /\ k[2] = gen[k[1]] /\ o[k[1]] = k[2]

Handed(h, o, rest) ==
  /\ h \subseteq Surfaces \X Nat /\ IsFiniteSet(h)
  /\ o \in [Surfaces -> Nat]
  /\ rest \subseteq Tasks /\ IsFiniteSet(rest)
  /\ Tidy(h, o)

\* What they leave behind.
Kept ==
  /\ gen \in [Surfaces -> Nat] /\ off \in [Surfaces -> Nat]
  /\ hooks \subseteq Surfaces \X Nat /\ IsFiniteSet(hooks)
  /\ tasks \subseteq Tasks /\ IsFiniteSet(tasks)
  /\ attempt \in 0 .. MaxAttempt
  /\ OneHandler

Inv == TypeInv /\ OneHandler

LEMMA HandedNow ==
  ASSUME Inv
  PROVE  /\ Handed(hooks, off, tasks)
         /\ \A t \in tasks : Handed(hooks, off, tasks \ {t})
<1>1. Handed(hooks, off, tasks)
  BY DEF Inv, TypeInv, TypeOK, OneHandler, Handed, Tidy, Tasks
<1>2. ASSUME NEW t \in tasks PROVE IsFiniteSet(tasks \ {t})
  BY FS_RemoveElement DEF Inv, TypeInv
<1> QED BY <1>1, <1>2 DEF Handed

LEMMA BeginKeeps ==
  ASSUME Inv, servings \subseteq servings',
         NEW kind \in {"one", "all"}, NEW s \in Surfaces, NEW h, NEW o, NEW rest,
         Handed(h, o, rest), Begin(kind, s, h, o, rest)
  PROVE  Kept'
<1>1. gen' = [gen EXCEPT ![s] = NextGen(s)] /\ NextGen(s) \in Nat /\ gen \in [Surfaces -> Nat]
  BY NextGenType DEF Inv, TypeInv, TypeOK, Begin
<1>2. /\ hooks' = h \ {<<s, o[s]>>}
      /\ off' = [o EXCEPT ![s] = 0]
      /\ tasks' = rest \cup {Task(kind, "sub", s, gen'[s])}
      /\ attempt' = attempt
  BY DEF Begin
<1>3. gen' \in [Surfaces -> Nat] /\ off' \in [Surfaces -> Nat]
  BY <1>1, <1>2 DEF Handed
<1>4. hooks' \subseteq Surfaces \X Nat /\ IsFiniteSet(hooks')
  BY <1>2, FS_RemoveElement DEF Handed
<1>5. tasks' \subseteq Tasks /\ IsFiniteSet(tasks')
  <2>1. Task(kind, "sub", s, gen'[s]) \in Tasks
    BY <1>3 DEF Task, Tasks, Surfaces
  <2>2. IsFiniteSet(rest \cup {Task(kind, "sub", s, gen'[s])})
    BY FS_AddElement DEF Handed
  <2> QED BY <1>2, <2>1, <2>2 DEF Handed
<1>6. OneHandler'
  <2>1. SUFFICES ASSUME NEW k \in hooks'
                 PROVE  k[1] \in servings' /\ k[2] = gen'[k[1]] /\ off'[k[1]] = k[2]
    BY DEF OneHandler
  <2>2. k \in h /\ k = <<k[1], k[2]>> /\ k[1] \in Surfaces
    BY <1>2, <1>4
  <2>3. k[1] \in servings /\ k[2] = gen[k[1]] /\ o[k[1]] = k[2]
    BY <2>2 DEF Handed, Tidy
  <2>4. k[1] # s
    BY <1>2, <2>2, <2>3
  <2> QED BY <1>1, <1>2, <2>2, <2>3, <2>4 DEF Handed
<1> QED BY <1>2, <1>3, <1>4, <1>5, <1>6 DEF Kept, Inv, TypeInv, TypeOK

LEMMA DoneKeeps ==
  ASSUME Inv, servings \subseteq servings', NEW h, NEW o, NEW rest,
         Handed(h, o, rest), Done(h, o, rest)
  PROVE  Kept'
<1>1. /\ attempt' = 0 /\ hooks' = h /\ off' = o /\ tasks' = rest /\ gen' = gen
      /\ gen \in [Surfaces -> Nat]
  BY DEF Done, Inv, TypeInv, TypeOK
<1>2. OneHandler'
  BY <1>1 DEF OneHandler, Handed, Tidy
<1>3. attempt' \in 0 .. MaxAttempt
  BY <1>1
<1> QED BY <1>1, <1>2, <1>3 DEF Kept, Handed

LEMMA ServingsType ==
  ASSUME Inv
  PROVE  servings \subseteq Surfaces /\ servings \subseteq Nat
<1>1. next \in 0 .. N /\ servings \subseteq 1 .. next
  BY DEF Inv, TypeInv, TypeOK
<1> QED BY <1>1 DEF Surfaces

LEMMA LoopKeeps ==
  ASSUME Inv, servings \subseteq servings', NEW s \in 0 .. N, NEW h, NEW o, NEW rest,
         Handed(h, o, rest), Loop(s, h, o, rest)
  PROVE  Kept'
<1>1. CASE Later(s) = {}
  BY <1>1, DoneKeeps DEF Loop
<1>2. CASE Later(s) # {}
  <2>1. Later(s) \in SUBSET Nat /\ Later(s) \subseteq Surfaces
    BY ServingsType DEF Later
  <2>2. Min(Later(s)) \in Surfaces
    BY <1>2, <2>1, LeastIn
  <2>3. Begin("all", Min(Later(s)), h, o, rest)
    BY <1>2 DEF Loop
  <2> QED BY <2>2, <2>3, BeginKeeps
<1> QED BY <1>1, <1>2

LEMMA HelloKeeps ==
  ASSUME Inv, servings \subseteq servings', NEW kind \in {"one", "all"}, NEW s \in 0 .. N,
         Hello(kind, s)
  PROVE  Kept' /\ helloed' \in BOOLEAN /\ said' \in 0 .. 2
<1>1. /\ helloed' = TRUE /\ said' = Min({said + 1, 2})
      /\ tasks' = tasks \cup {Task(kind, "hello", s, NextCall)}
      /\ UNCHANGED <<gen, hooks, off, attempt>>
  BY DEF Hello
<1>2. NextCall \in Nat
  BY NextCallType DEF Inv
<1>3. Task(kind, "hello", s, NextCall) \in Tasks
  BY <1>2 DEF Task, Tasks
<1>4. tasks' \subseteq Tasks /\ IsFiniteSet(tasks')
  BY <1>1, <1>3, FS_AddElement DEF Inv, TypeInv, TypeOK, Tasks
<1>5. said' \in 0 .. 2
  <2>1. said \in 0 .. 2
    BY DEF Inv, TypeInv, TypeOK
  <2>2. {said + 1, 2} \in SUBSET Nat /\ {said + 1, 2} # {}
    BY <2>1
  <2>3. PICK x \in {said + 1, 2} : \A y \in {said + 1, 2} : x <= y
    BY <2>2, LeastNat
  <2>4. Min({said + 1, 2}) \in {said + 1, 2} /\ Min({said + 1, 2}) <= 2
    BY <2>3 DEF Min
  <2> QED BY <1>1, <2>1, <2>4
<1>6. OneHandler'
  BY <1>1 DEF Inv, OneHandler
<1> QED BY <1>1, <1>4, <1>5, <1>6 DEF Kept, Inv, TypeInv, TypeOK

LEMMA AttachedKeeps ==
  ASSUME Inv, servings' = servings, NEW t \in tasks, NEW h, NEW o, t.s \in 0 .. N,
         Handed(h, o, tasks \ {t}), Attached(t, h, o)
  PROVE  Kept'
<1>1. Loop(t.s, h, o, tasks \ {t}) \/ Done(h, o, tasks \ {t})
  BY DEF Attached
<1>2. CASE Loop(t.s, h, o, tasks \ {t})
  BY <1>2, LoopKeeps
<1>3. CASE Done(h, o, tasks \ {t})
  BY <1>3, DoneKeeps
<1> QED BY <1>1, <1>2, <1>3

LEMMA TaskType ==
  ASSUME Inv, NEW t \in tasks
  PROVE  /\ t.kind \in {"one", "all"} /\ t.s \in 0 .. N /\ t.call \in Nat
         /\ Wanted(t.s) \/ Current(t) => t.s \in Surfaces
<1>1. t \in Tasks
  BY DEF Inv, TypeInv, TypeOK, Tasks
<1> QED BY <1>1, ServingsType DEF Tasks, Wanted, Current

\* What is left of the type invariant once the above is kept.
Rest ==
  /\ next \in 0 .. N /\ servings \subseteq 1 .. next
  /\ helloed \in BOOLEAN /\ closed \in BOOLEAN /\ latest \in BOOLEAN
  /\ timers \in Nat /\ (latest => timers > 0)
  /\ drops \in 0 .. MaxDrops /\ said \in 0 .. 2
  /\ failures \in 0 .. MaxFailures

LEMMA Together ==
  /\ Inv => Kept /\ Rest
  /\ Kept' /\ Rest' => Inv'
<1>1. Inv <=> Kept /\ Rest
  BY DEF Inv, Kept, Rest, TypeInv, TypeOK, Tasks
<1>2. Inv' <=> Kept' /\ Rest'
  BY DEF Inv, Kept, Rest, TypeInv, TypeOK, Tasks
<1> QED BY <1>1, <1>2

LEMMA ScheduleType ==
  ASSUME Inv, Schedule
  PROVE  timers' \in Nat /\ latest' \in BOOLEAN /\ (latest' => timers' > 0)
<1>1. timers \in Nat /\ latest \in BOOLEAN /\ (latest => timers > 0)
  BY DEF Inv, TypeInv, TypeOK
<1>2. CASE closed
  BY <1>1, <1>2 DEF Schedule
<1>3. CASE ~ closed
  <2>1. timers' = timers + 1 /\ latest' = TRUE
    BY <1>3 DEF Schedule
  <2> QED BY <1>1, <2>1
<1> QED BY <1>2, <1>3

LEMMA DetachedKeeps ==
  ASSUME Inv, NEW gone, gone \subseteq servings, Detached(gone)
  PROVE  Kept' /\ servings' \subseteq 1 .. next' /\ UNCHANGED <<next, helloed, drops, said, failures>>
<1>1. /\ servings' = servings \ gone
      /\ gen' = [s \in Surfaces |-> IF s \in gone THEN NextGen(s) ELSE gen[s]]
      /\ hooks' = hooks \ {<<s, off[s]>> : s \in gone}
      /\ off' = [s \in Surfaces |-> IF s \in gone THEN 0 ELSE off[s]]
      /\ UNCHANGED <<next, helloed, attempt, tasks, drops, said, failures>>
  BY DEF Detached
<1>2. \A s \in Surfaces : NextGen(s) \in Nat
  BY NextGenType DEF Inv
<1>3. gen' \in [Surfaces -> Nat] /\ off' \in [Surfaces -> Nat]
  BY <1>1, <1>2 DEF Inv, TypeInv, TypeOK
<1>4. hooks' \subseteq Surfaces \X Nat /\ IsFiniteSet(hooks')
  <2>1. hooks' \in SUBSET hooks
    BY <1>1
  <2> QED BY <2>1, FS_Subset DEF Inv, TypeInv, TypeOK
<1>5. OneHandler'
  <2>1. SUFFICES ASSUME NEW k \in hooks'
                 PROVE  k[1] \in servings' /\ k[2] = gen'[k[1]] /\ off'[k[1]] = k[2]
    BY DEF OneHandler
  <2>2. k \in hooks /\ k = <<k[1], k[2]>> /\ k[1] \in Surfaces
    BY <1>1, <1>4
  <2>3. k[1] \in servings /\ k[2] = gen[k[1]] /\ off[k[1]] = k[2]
    BY <2>2 DEF Inv, OneHandler
  <2>4. k[1] \notin gone
    BY <1>1, <2>2, <2>3
  <2> QED BY <1>1, <2>2, <2>3, <2>4
<1> QED BY <1>1, <1>3, <1>4, <1>5 DEF Kept, Inv, TypeInv, TypeOK, Tasks

LEMMA Inductive == Inv /\ [Next]_vars => Inv'
<1> SUFFICES ASSUME Inv, [Next]_vars PROVE Inv'
  OBVIOUS
<1>0. Rest
  BY Together
<1>1. CASE Serve
  <2>1. next' = next + 1 /\ next < N /\ servings' = servings \cup {next'}
        /\ UNCHANGED <<closed, timers, latest, drops, failures>>
    BY <1>1 DEF Serve, timerVars
  <2>2. next' \in 0 .. N /\ next' \in Surfaces /\ servings' \subseteq 1 .. next'
        /\ servings \subseteq servings'
    BY <1>0, <2>1 DEF Rest, Surfaces
  <2>3. CASE Begin("one", next', hooks, off, tasks) /\ UNCHANGED <<helloed, said>>
    <3>1. Kept'
      BY <2>2, <2>3, HandedNow, BeginKeeps
    <3> QED BY <1>0, <2>1, <2>2, <2>3, <3>1, Together DEF Rest
  <2>4. CASE Hello("one", next')
    <3>1. Kept' /\ helloed' \in BOOLEAN /\ said' \in 0 .. 2
      BY <2>2, <2>4, HelloKeeps
    <3> QED BY <1>0, <2>1, <2>2, <3>1, Together DEF Rest
  <2> QED BY <1>1, <2>3, <2>4 DEF Serve
<1>2. CASE Fire
  <2>0. /\ timers > 0 /\ timers' = timers - 1
        /\ latest' \in {FALSE} \cup {l \in {TRUE} : latest /\ timers > 1}
        /\ UNCHANGED <<next, servings, closed, drops, failures>>
    BY <1>2 DEF Fire
  <2>1. /\ timers' \in Nat /\ latest' \in BOOLEAN /\ (latest' => timers' > 0)
        /\ UNCHANGED <<next, servings, closed, drops, failures>>
    <3>1. timers \in Nat
      BY <1>0 DEF Rest
    <3>2. latest' \in BOOLEAN /\ (latest' => timers > 1)
      BY <2>0
    <3> QED BY <2>0, <3>1, <3>2
  <2>2. CASE UNCHANGED <<gen, hooks, off, tasks, attempt, helloed, said>>
    <3>1. Kept'
      BY <2>1, <2>2 DEF Inv, TypeInv, TypeOK, Kept, OneHandler, Tasks
    <3> QED BY <1>0, <2>1, <2>2, <3>1, Together DEF Rest
  <2>3. CASE Loop(0, hooks, off, tasks) /\ UNCHANGED <<helloed, said>>
    <3>1. Kept'
      BY <2>1, <2>3, HandedNow, LoopKeeps
    <3> QED BY <1>0, <2>1, <2>3, <3>1, Together DEF Rest
  <2>4. CASE Hello("all", 0)
    <3>1. Kept' /\ helloed' \in BOOLEAN /\ said' \in 0 .. 2
      BY <2>1, <2>4, HelloKeeps
    <3> QED BY <1>0, <2>1, <3>1, Together DEF Rest
  <2> QED BY <1>2, <2>2, <2>3, <2>4 DEF Fire
<1>3. CASE Drop
  <2>1. /\ drops' \in 0 .. MaxDrops /\ said' = 0 /\ hooks' = {}
        /\ UNCHANGED <<next, servings, closed, tasks, failures>>
    BY <1>0, <1>3 DEF Drop, Rest
  <2>2. timers' \in Nat /\ latest' \in BOOLEAN /\ (latest' => timers' > 0)
    BY <1>3, ScheduleType DEF Drop
  <2>3. \A s \in Surfaces : NextGen(s) \in Nat
    BY NextGenType DEF Inv
  <2>4. /\ gen' \in [Surfaces -> Nat] /\ off' \in [Surfaces -> Nat]
        /\ helloed' \in BOOLEAN /\ attempt' \in 0 .. MaxAttempt
    <3>1. /\ gen \in [Surfaces -> Nat] /\ off \in [Surfaces -> Nat]
          /\ helloed \in BOOLEAN /\ attempt \in 0 .. MaxAttempt
      BY DEF Inv, TypeInv, TypeOK
    <3>2. CASE closed
      BY <1>3, <3>1, <3>2 DEF Drop
    <3>3. CASE ~ closed
      <4>1. /\ gen' = [s \in Surfaces |-> IF s \in servings THEN NextGen(s) ELSE gen[s]]
            /\ off' = [s \in Surfaces |-> IF s \in servings THEN 0 ELSE off[s]]
            /\ attempt' = 0
        BY <1>3, <3>3 DEF Drop
      <4>2. helloed' = FALSE
        BY <1>3, <3>3 DEF Drop
      <4>3. attempt' \in 0 .. MaxAttempt
        BY <4>1
      <4>4. helloed' \in BOOLEAN
        BY <4>2
      <4>5. gen' \in [Surfaces -> Nat] /\ off' \in [Surfaces -> Nat]
        BY <2>3, <3>1, <4>1
      <4> QED BY <4>3, <4>4, <4>5
    <3> QED BY <3>2, <3>3
  <2>5. OneHandler' /\ IsFiniteSet(hooks')
    BY <2>1, FS_EmptySet DEF OneHandler
  <2>6. Kept'
    BY <2>1, <2>4, <2>5 DEF Kept, Inv, TypeInv, TypeOK, Tasks
  <2> QED BY <1>0, <2>1, <2>2, <2>4, <2>6, Together DEF Rest
<1>4. CASE DetachAll
  <2>1. Detached(servings) /\ closed' = TRUE /\ latest' = FALSE
        /\ timers' = IF latest THEN timers - 1 ELSE timers
    BY <1>4 DEF DetachAll
  <2>2. Kept' /\ servings' \subseteq 1 .. next'
        /\ UNCHANGED <<next, helloed, drops, said, failures>>
    BY <2>1, DetachedKeeps
  <2>3. timers' \in Nat /\ latest' \in BOOLEAN /\ (latest' => timers' > 0) /\ closed' \in BOOLEAN
    <3>1. timers \in Nat /\ (latest => timers > 0)
      BY <1>0 DEF Rest
    <3>2. timers' \in Nat
      BY <2>1, <3>1
    <3> QED BY <2>1, <3>2
  <2> QED BY <1>0, <2>1, <2>2, <2>3, Together DEF Rest
<1>5. CASE \E s \in Surfaces : Detach(s)
  <2>1. PICK s \in servings : Detached({s}) /\ UNCHANGED <<closed, timers, latest>>
    BY <1>5 DEF Detach, timerVars
  <2>2. Kept' /\ servings' \subseteq 1 .. next'
        /\ UNCHANGED <<next, helloed, drops, said, failures>>
    BY <2>1, DetachedKeeps
  <2> QED BY <1>0, <2>1, <2>2, Together DEF Rest
<1>6. ASSUME NEW t \in tasks, HelloAnswered(t) PROVE Inv'
  <2>1. UNCHANGED <<next, servings, helloed, closed, timers, latest, drops, said, failures>>
    BY <1>6 DEF HelloAnswered, timerVars
  <2>2. Kept'
    <3>1. \/ Loop(0, hooks, off, tasks \ {t})
          \/ Wanted(t.s) /\ Begin("one", t.s, hooks, off, tasks \ {t})
          \/ Done(hooks, off, tasks \ {t})
      BY <1>6, TaskType DEF HelloAnswered
    <3>2. CASE Loop(0, hooks, off, tasks \ {t})
      BY <2>1, <3>2, HandedNow, LoopKeeps
    <3>3. CASE Wanted(t.s) /\ Begin("one", t.s, hooks, off, tasks \ {t})
      BY <2>1, <3>3, HandedNow, TaskType, BeginKeeps
    <3>4. CASE Done(hooks, off, tasks \ {t})
      BY <2>1, <3>4, HandedNow, DoneKeeps
    <3> QED BY <3>1, <3>2, <3>3, <3>4
  <2> QED BY <1>0, <2>1, <2>2, Together DEF Rest
<1>7. ASSUME NEW t \in tasks, Subscribed(t) PROVE Inv'
  <2>1. UNCHANGED <<next, servings, helloed, closed, timers, latest, drops, said, failures>>
    BY <1>7 DEF Subscribed, timerVars
  <2>2. CASE Current(t)
    <3> DEFINE h == hooks \cup {<<t.s, t.call>>}
               o == [off EXCEPT ![t.s] = t.call]
    <3>1. Attached(t, h, o) /\ t.s \in servings /\ t.call = gen[t.s]
      BY <1>7, <2>2 DEF Subscribed, Current
    <3>2. Handed(hooks, off, tasks \ {t}) /\ t.s \in Surfaces /\ t.call \in Nat /\ t.s \in 0 .. N
      BY <2>2, HandedNow, TaskType
    <3>3. h \subseteq Surfaces \X Nat /\ IsFiniteSet(h) /\ o \in [Surfaces -> Nat]
      <4>1. hooks \subseteq Surfaces \X Nat /\ IsFiniteSet(hooks) /\ off \in [Surfaces -> Nat]
        BY <3>2 DEF Handed
      <4>2. IsFiniteSet(h)
        BY <4>1, FS_AddElement
      <4> QED BY <3>2, <4>1, <4>2
    <3>4. Tidy(h, o)
      BY <3>1, <3>2 DEF Handed, Tidy
    <3> HIDE DEF h, o
    <3>5. Handed(h, o, tasks \ {t})
      BY <3>2, <3>3, <3>4 DEF Handed
    <3>6. Kept'
      BY <2>1, <3>1, <3>2, <3>5, AttachedKeeps
    <3> QED BY <1>0, <2>1, <3>6, Together DEF Rest
  <2>3. CASE ~ Current(t)
    <3>1. Attached(t, hooks, off)
      BY <1>7, <2>3 DEF Subscribed
    <3>2. Kept'
      BY <2>1, <3>1, HandedNow, TaskType, AttachedKeeps
    <3> QED BY <1>0, <2>1, <3>2, Together DEF Rest
  <2> QED BY <2>2, <2>3
<1>8. ASSUME NEW t \in tasks, Refused(t) PROVE Inv'
  <2>1. UNCHANGED <<next, servings, closed, drops, said>> /\ failures' \in 0 .. MaxFailures
    BY <1>0, <1>8 DEF Refused, Rest
  <2>2. CASE Current(t)
    <3>1. /\ tasks' = tasks \ {t} /\ helloed' \in BOOLEAN
          /\ attempt' \in {attempt, Escalated}
          /\ Schedule \/ UNCHANGED <<timers, latest>>
          /\ UNCHANGED <<gen, hooks, off>>
      BY <1>8, <2>2 DEF Refused, timerVars
    <3>2. timers' \in Nat /\ latest' \in BOOLEAN /\ (latest' => timers' > 0)
      BY <1>0, <3>1, ScheduleType DEF Rest
    <3>3. attempt' \in 0 .. MaxAttempt
      BY <3>1 DEF Escalated, Inv, TypeInv, TypeOK
    <3>4. tasks' \subseteq Tasks /\ IsFiniteSet(tasks')
      BY <3>1, HandedNow DEF Handed
    <3>5. OneHandler'
      BY <2>1, <3>1 DEF Inv, OneHandler
    <3>6. Kept'
      BY <3>1, <3>3, <3>4, <3>5 DEF Kept, Inv, TypeInv, TypeOK
    <3> QED BY <1>0, <2>1, <3>1, <3>2, <3>6, Together DEF Rest
  <2>3. CASE ~ Current(t)
    <3>1. Attached(t, hooks, off) /\ UNCHANGED <<helloed, timers, latest>>
      BY <1>8, <2>3 DEF Refused, timerVars
    <3>2. Kept'
      BY <2>1, <3>1, HandedNow, TaskType, AttachedKeeps
    <3> QED BY <1>0, <2>1, <3>1, <3>2, Together DEF Rest
  <2> QED BY <2>2, <2>3
<1>9. CASE UNCHANGED vars
  BY <1>9 DEF vars, Inv, TypeInv, TypeOK, OneHandler
<1> QED
  BY <1>1, <1>2, <1>3, <1>4, <1>5, <1>6, <1>7, <1>8, <1>9 DEF Next

LEMMA Invariant == Spec => []Inv
<1>1. Init => Inv
  <2> SUFFICES ASSUME Init PROVE Inv
    OBVIOUS
  <2>1. Kept
    BY FS_EmptySet DEF Init, Kept, OneHandler
  <2>2. helloed \in BOOLEAN /\ closed \in BOOLEAN /\ latest \in BOOLEAN /\ ~ latest
    BY DEF Init
  <2>3. /\ next \in 0 .. N /\ servings \subseteq 1 .. next /\ timers \in Nat
        /\ drops \in 0 .. MaxDrops /\ said \in 0 .. 2 /\ failures \in 0 .. MaxFailures
    BY DEF Init
  <2>4. Rest
    BY <2>2, <2>3 DEF Rest
  <2> QED BY <2>1, <2>4 DEF Inv, Kept, Rest, TypeInv, TypeOK, Tasks
<1>2. Inv /\ [Next]_vars => Inv'
  BY Inductive
<1> QED BY <1>1, <1>2, PTL DEF Spec

\* Every variable keeps its type; the ceiling of the backoff holds.
THEOREM TypeCorrect == Spec => []TypeOK
<1>1. Inv => TypeOK
  BY DEF Inv, TypeInv
<1> QED BY <1>1, Invariant, PTL

\* However attaches, drops and detaches overlap, a stale completion never
\* leaves a second handler, or a handler of a detached serving, on the session.
THEOREM NoStaleHandler == Spec => []OneHandler
<1>1. Inv => OneHandler
  BY DEF Inv
<1> QED BY <1>1, Invariant, PTL

-----------------------------------------------------------------------------
NewSubscribersServed ==
  \A t \in tasks' \ tasks : t.at = "sub" => t.s \in servings'

LEMMA BeginServed ==
  ASSUME NEW kind, NEW s, NEW h, NEW o, NEW rest, rest \subseteq tasks,
         s \in servings', Begin(kind, s, h, o, rest)
  PROVE  NewSubscribersServed
BY DEF Begin, Task, NewSubscribersServed

LEMMA DoneServed ==
  ASSUME NEW h, NEW o, NEW rest, rest \subseteq tasks, Done(h, o, rest)
  PROVE  NewSubscribersServed
BY DEF Done, NewSubscribersServed

LEMMA LoopServed ==
  ASSUME Inv, servings' = servings,
         NEW s, NEW h, NEW o, NEW rest, rest \subseteq tasks, Loop(s, h, o, rest)
  PROVE  NewSubscribersServed
<1>1. CASE Later(s) = {}
  BY <1>1, DoneServed DEF Loop
<1>2. CASE Later(s) # {}
  <2>1. Later(s) \in SUBSET Nat /\ Later(s) \subseteq servings
    BY ServingsType DEF Later
  <2>2. Min(Later(s)) \in servings'
    BY <1>2, <2>1, LeastIn
  <2>3. Begin("all", Min(Later(s)), h, o, rest)
    BY <1>2 DEF Loop
  <2> QED BY <2>2, <2>3, BeginServed
<1> QED BY <1>1, <1>2

LEMMA HelloServed ==
  ASSUME NEW kind, NEW s, Hello(kind, s)
  PROVE  NewSubscribersServed
BY DEF Hello, Task, NewSubscribersServed

LEMMA AttachedServed ==
  ASSUME Inv, servings' = servings, NEW t \in tasks, NEW h, NEW o, Attached(t, h, o)
  PROVE  NewSubscribersServed
<1>1. Loop(t.s, h, o, tasks \ {t}) \/ Done(h, o, tasks \ {t})
  BY DEF Attached
<1> QED BY <1>1, LoopServed, DoneServed

LEMMA StepServed == Inv /\ [Next]_vars => NewSubscribersServed
<1> SUFFICES ASSUME Inv, [Next]_vars PROVE NewSubscribersServed
  OBVIOUS
<1>1. CASE Serve
  <2>1. next' \in servings'
    BY <1>1 DEF Serve
  <2>2. Begin("one", next', hooks, off, tasks) \/ Hello("one", next')
    BY <1>1 DEF Serve
  <2> QED BY <2>1, <2>2, BeginServed, HelloServed
<1>2. CASE Fire
  <2>1. tasks' = tasks \/ Loop(0, hooks, off, tasks) \/ Hello("all", 0)
    BY <1>2 DEF Fire
  <2>2. servings' = servings
    BY <1>2 DEF Fire
  <2>3. CASE tasks' = tasks
    BY <2>3 DEF NewSubscribersServed
  <2>4. CASE Loop(0, hooks, off, tasks)
    BY <2>2, <2>4, LoopServed
  <2>5. CASE Hello("all", 0)
    BY <2>5, HelloServed
  <2> QED BY <2>1, <2>3, <2>4, <2>5
<1>3. CASE tasks' = tasks
  BY <1>3 DEF NewSubscribersServed
<1>4. Drop \/ DetachAll \/ (\E s \in Surfaces : Detach(s)) \/ UNCHANGED vars => tasks' = tasks
  BY DEF Drop, DetachAll, Detach, Detached, vars
<1>5. ASSUME NEW t \in tasks, HelloAnswered(t) PROVE NewSubscribersServed
  <2>1. servings' = servings
    BY <1>5 DEF HelloAnswered
  <2>2. \/ Loop(0, hooks, off, tasks \ {t})
        \/ t.s \in servings /\ Begin("one", t.s, hooks, off, tasks \ {t})
        \/ Done(hooks, off, tasks \ {t})
    BY <1>5, TaskType DEF HelloAnswered, Wanted
  <2> QED BY <2>1, <2>2, LoopServed, BeginServed, DoneServed
<1>6. ASSUME NEW t \in tasks, Subscribed(t) PROVE NewSubscribersServed
  <2>1. servings' = servings /\ \E h, o : Attached(t, h, o)
    BY <1>6 DEF Subscribed
  <2> QED BY <2>1, AttachedServed
<1>7. ASSUME NEW t \in tasks, Refused(t) PROVE NewSubscribersServed
  <2>1. servings' = servings /\ (tasks' = tasks \ {t} \/ Attached(t, hooks, off))
    BY <1>7 DEF Refused
  <2>2. CASE tasks' = tasks \ {t}
    BY <2>2 DEF NewSubscribersServed
  <2> QED BY <2>1, <2>2, AttachedServed
<1> QED
  BY <1>1, <1>2, <1>3, <1>4, <1>5, <1>6, <1>7 DEF Next

\* No loop and no attach that was waiting subscribes a serving that was
\* detached in the meantime.
THEOREM DetachIsFinal == Spec => NoneAfterDetach
<1>1. Inv /\ [Next]_vars => [NewSubscribersServed]_vars
  BY StepServed
<1> QED BY <1>1, Invariant, PTL DEF Spec, NoneAfterDetach, NewSubscribersServed

-----------------------------------------------------------------------------
(* No serving is left behind. Between two awaits a step hands on handlers h and *)
(* tasks rest; what it must not lose of a serving is its handler or the task    *)
(* that will still attach it, unless it starts such a task or a timer.          *)
Tended(n, h, rest) == <<n, gen[n]>> \in h \/ \E t \in rest : Covers(t, n)

Looked(n) == Hooked(n) \/ \E t \in tasks : Covers(t, n)

LEMMA LeastBelow ==
  ASSUME NEW T \in SUBSET Nat, T # {}
  PROVE  \A y \in T : Min(T) <= y
<1>1. PICK x \in T : \A y \in T : x <= y
  BY LeastNat
<1> QED BY <1>1 DEF Min

\* A task that covers a serving does so as long as the serving is registered and
\* of the same generation.
LEMMA CoversOn ==
  ASSUME servings \subseteq servings', NEW n, gen'[n] = gen[n], NEW t, Covers(t, n)
  PROVE  Covers(t, n)'
BY DEF Covers, Current

LEMMA BeginTends ==
  ASSUME Inv, NEW kind \in {"one", "all"}, NEW s \in Surfaces, s \in servings',
         servings \subseteq servings', NEW h, NEW o, NEW rest, Begin(kind, s, h, o, rest),
         NEW n \in Surfaces, n = s \/ (kind = "all" /\ s < n) \/ Tended(n, h, rest)
  PROVE  Looked(n)'
<1>1. gen \in [Surfaces -> Nat]
  BY DEF Inv, TypeInv, TypeOK
<1>2. /\ gen' = [gen EXCEPT ![s] = NextGen(s)] /\ hooks' = h \ {<<s, o[s]>>}
      /\ tasks' = rest \cup {Task(kind, "sub", s, gen'[s])}
  BY DEF Begin
<1>3. CASE n = s \/ (kind = "all" /\ s < n)
  <2> DEFINE t == Task(kind, "sub", s, gen'[s])
  <2>1. t \in tasks' /\ t.kind = kind /\ t.s = s /\ t.call = gen'[s] /\ t.at = "sub"
    BY <1>2 DEF Task
  <2> HIDE DEF t
  <2>2. PICK u \in tasks' : u.kind = kind /\ u.s = s /\ u.call = gen'[s]
    BY <2>1
  <2>3. Current(u)'
    BY <2>2 DEF Current
  <2>4. Covers(u, n)'
    BY <1>3, <2>2, <2>3 DEF Covers
  <2> QED BY <2>4 DEF Looked
<1>4. CASE n # s /\ Tended(n, h, rest)
  <2>1. gen'[n] = gen[n]
    BY <1>1, <1>2, <1>4
  <2>2. CASE <<n, gen[n]>> \in h
    BY <1>2, <1>4, <2>1, <2>2 DEF Looked, Hooked
  <2>3. CASE \E t \in rest : Covers(t, n)
    <3>1. PICK t \in rest : Covers(t, n)
      BY <2>3
    <3>2. Covers(t, n)'
      BY <2>1, <3>1, CoversOn
    <3> QED BY <1>2, <3>2 DEF Looked
  <2> QED BY <1>4, <2>2, <2>3 DEF Tended
<1> QED BY <1>3, <1>4

LEMMA DoneTends ==
  ASSUME servings \subseteq servings', NEW h, NEW o, NEW rest, Done(h, o, rest),
         NEW n, Tended(n, h, rest)
  PROVE  Looked(n)'
<1>1. gen' = gen /\ hooks' = h /\ tasks' = rest
  BY DEF Done
<1>2. CASE <<n, gen[n]>> \in h
  BY <1>1, <1>2 DEF Looked, Hooked
<1>3. CASE \E t \in rest : Covers(t, n)
  <2>1. PICK t \in rest : Covers(t, n)
    BY <1>3
  <2>2. Covers(t, n)'
    BY <1>1, <2>1, CoversOn
  <2> QED BY <1>1, <2>2 DEF Looked
<1> QED BY <1>2, <1>3 DEF Tended

\* The loop goes on with the servings behind s and loses none of the others.
LEMMA LoopTends ==
  ASSUME Inv, servings' = servings, NEW s \in 0 .. N, NEW h, NEW o, NEW rest,
         Loop(s, h, o, rest), NEW n \in servings, s < n \/ Tended(n, h, rest)
  PROVE  Looked(n)'
<1>1. CASE Later(s) = {}
  <2>1. Tended(n, h, rest)
    BY <1>1 DEF Later
  <2> QED BY <1>1, <2>1, DoneTends DEF Loop
<1>2. CASE Later(s) # {}
  <2>1. Later(s) \in SUBSET Nat /\ Later(s) \subseteq Surfaces /\ Later(s) \subseteq servings
    BY ServingsType DEF Later
  <2>2. PICK m \in Later(s) : m = Min(Later(s)) /\ \A y \in Later(s) : m <= y
    BY <1>2, <2>1, LeastIn, LeastBelow
  <2>3. Begin("all", m, h, o, rest)
    BY <1>2, <2>2 DEF Loop
  <2>4. m \in Surfaces /\ n \in Surfaces /\ m \in servings' /\ m \in Nat /\ n \in Nat
    BY <2>1, ServingsType
  <2>5. s < n => n = m \/ m < n
    BY <2>2, <2>4 DEF Later
  <2> QED BY <2>3, <2>4, <2>5, BeginTends
<1> QED BY <1>1, <1>2

LEMMA HelloTends ==
  ASSUME servings \subseteq servings', NEW kind \in {"one", "all"}, NEW s, Hello(kind, s),
         NEW n, n = s \/ kind = "all" \/ Looked(n)
  PROVE  Looked(n)'
<1>1. gen' = gen /\ hooks' = hooks /\ tasks' = tasks \cup {Task(kind, "hello", s, NextCall)}
  BY DEF Hello
<1>2. CASE n = s \/ kind = "all"
  <2> DEFINE mine == Task(kind, "hello", s, NextCall)
  <2>0. mine \in tasks' /\ mine.kind = kind /\ mine.at = "hello" /\ mine.s = s
    BY <1>1 DEF Task
  <2> HIDE DEF mine
  <2>1. PICK t \in tasks' : t.kind = kind /\ t.at = "hello" /\ t.s = s
    BY <2>0
  <2>2. Covers(t, n)'
    BY <1>2, <2>1 DEF Covers
  <2> QED BY <2>2 DEF Looked
<1>3. CASE Looked(n)
  <2>1. CASE Hooked(n)
    BY <1>1, <2>1 DEF Looked, Hooked
  <2>2. CASE \E t \in tasks : Covers(t, n)
    <3>1. PICK t \in tasks : Covers(t, n)
      BY <2>2
    <3>2. Covers(t, n)'
      BY <1>1, <3>1, CoversOn
    <3> QED BY <1>1, <3>2 DEF Looked
  <2> QED BY <1>3, <2>1, <2>2 DEF Looked
<1> QED BY <1>2, <1>3

\* An attach that ends loses no serving but the one it was for.
LEMMA AttachedTends ==
  ASSUME Inv, servings' = servings, NEW t \in tasks, NEW h, NEW o, hooks \subseteq h,
         Attached(t, h, o), NEW n \in servings, Looked(n),
         t.at = "sub", Current(t) => <<t.s, gen[t.s]>> \in h
  PROVE  Looked(n)'
<1>1. (t.kind = "all" /\ t.s < n) \/ Tended(n, h, tasks \ {t})
  <2>1. CASE Hooked(n)
    BY <2>1 DEF Tended, Hooked
  <2>2. CASE \E u \in tasks : Covers(u, n)
    <3>1. PICK u \in tasks : Covers(u, n)
      BY <2>2
    <3>2. CASE u # t
      BY <3>1, <3>2 DEF Tended
    <3>3. CASE u = t
      BY <3>1, <3>3 DEF Covers, Tended
    <3> QED BY <3>2, <3>3
  <2> QED BY <2>1, <2>2 DEF Looked
<1>2. t.kind = "all" => Loop(t.s, h, o, tasks \ {t})
  BY DEF Attached
<1>3. t.kind # "all" => Done(h, o, tasks \ {t})
  BY DEF Attached
<1>4. t.s \in 0 .. N
  BY TaskType
<1> QED BY <1>1, <1>2, <1>3, <1>4, LoopTends, DoneTends

LEMMA StrandedInductive ==
  ASSUME Inv, NeverStranded, [Next]_vars
  PROVE  NeverStranded'
<1>a. closed \/ timers > 0 \/ \A n \in servings : Looked(n)
  BY DEF NeverStranded, Looked
<1>b. timers \in Nat
  BY DEF Inv, TypeInv, TypeOK
<1>c. servings \subseteq Surfaces /\ servings \subseteq Nat /\ next \in Nat /\ \A n \in servings : 0 < n
  <2>1. next \in 0 .. N /\ servings \subseteq 1 .. next
    BY DEF Inv, TypeInv, TypeOK
  <2> QED BY <2>1, ServingsType
<1>d. ASSUME closed' \/ timers' > 0 \/ \A n \in servings' : Looked(n)' PROVE NeverStranded'
  BY <1>d DEF NeverStranded, Looked
<1>1. CASE Serve
  <2>1. next' = next + 1 /\ next < N /\ servings' = servings \cup {next'}
        /\ UNCHANGED <<closed, timers>>
    BY <1>1 DEF Serve, timerVars
  <2>2. PICK m \in Surfaces : m = next'
    BY <1>c, <2>1 DEF Surfaces
  <2>3. ASSUME NEW n \in servings', n = m \/ Looked(n) PROVE Looked(n)'
    <3>1. n \in Surfaces /\ m \in servings' /\ servings \subseteq servings'
      BY <1>c, <2>1, <2>2
    <3>2. CASE Begin("one", m, hooks, off, tasks)
      <4>1. n = m \/ Tended(n, hooks, tasks)
        BY <2>3 DEF Tended, Looked, Hooked
      <4> QED BY <3>1, <3>2, <4>1, BeginTends
    <3>3. CASE Hello("one", m)
      BY <2>3, <3>1, <3>3, HelloTends
    <3> QED BY <1>1, <2>2, <3>2, <3>3 DEF Serve
  <2> QED BY <1>a, <1>d, <2>1, <2>2, <2>3
<1>2. CASE Fire
  <2>1. servings' = servings /\ closed' = closed
    BY <1>2 DEF Fire
  <2>2. ASSUME ~ closed, NEW n \in servings PROVE Looked(n)'
    <3>1. Loop(0, hooks, off, tasks) \/ Hello("all", 0)
      BY <1>2, <2>2 DEF Fire
    <3>2. CASE Loop(0, hooks, off, tasks)
      BY <1>c, <2>1, <3>2, LoopTends, SupplierAssumption
    <3>3. CASE Hello("all", 0)
      BY <2>1, <3>3, HelloTends
    <3> QED BY <3>1, <3>2, <3>3
  <2> QED BY <1>d, <2>1, <2>2
<1>3. CASE Drop
  <2>1. closed' = closed /\ Schedule
    BY <1>3 DEF Drop
  <2> QED BY <1>b, <1>d, <2>1 DEF Schedule
<1>4. CASE DetachAll
  BY <1>4, <1>d DEF DetachAll
<1>5. CASE \E s \in Surfaces : Detach(s)
  <2>1. PICK s \in Surfaces : Detached({s}) /\ UNCHANGED <<closed, timers>>
    BY <1>5 DEF Detach, timerVars
  <2>2. /\ servings' = servings \ {s} /\ hooks' = hooks \ {<<m, off[m]>> : m \in {s}}
        /\ gen' = [m \in Surfaces |-> IF m \in {s} THEN NextGen(m) ELSE gen[m]]
        /\ tasks' = tasks
    BY <2>1 DEF Detached
  <2>3. ASSUME NEW n \in servings', Looked(n) PROVE Looked(n)'
    <3>1. n \in servings /\ n # s /\ gen'[n] = gen[n]
      BY <1>c, <2>2
    <3>2. CASE Hooked(n)
      BY <2>2, <3>1, <3>2 DEF Looked, Hooked
    <3>3. CASE \E t \in tasks : Covers(t, n)
      <4>1. PICK t \in tasks : Covers(t, n)
        BY <3>3
      <4>2. Covers(t, n)'
        BY <2>2, <3>1, <4>1 DEF Covers, Current
      <4> QED BY <2>2, <4>2 DEF Looked
    <3> QED BY <2>3, <3>2, <3>3 DEF Looked
  <2> QED BY <1>a, <1>d, <2>1, <2>2, <2>3
<1>6. ASSUME NEW t \in tasks, HelloAnswered(t) PROVE NeverStranded'
  <2>1. UNCHANGED <<servings, closed, timers>> /\ t.at = "hello"
    BY <1>6 DEF HelloAnswered, timerVars
  <2>2. ASSUME NEW n \in servings, Looked(n) PROVE Looked(n)'
    <3>0. n \in Surfaces
      BY <1>c
    <3>1. CASE t.kind = "all"
      <4>1. Loop(0, hooks, off, tasks \ {t})
        BY <1>6, <3>1 DEF HelloAnswered
      <4> QED BY <1>c, <2>1, <4>1, LoopTends, SupplierAssumption
    <3>2. CASE t.kind = "one"
      <4>1. n = t.s \/ Tended(n, hooks, tasks \ {t})
        BY <2>2, <3>2 DEF Looked, Hooked, Tended, Covers
      <4>2. CASE Wanted(t.s)
        <5>1. Begin("one", t.s, hooks, off, tasks \ {t})
          BY <1>6, <3>2, <4>2 DEF HelloAnswered
        <5>2. t.s \in Surfaces /\ t.s \in servings'
          BY <2>1, <4>2, TaskType DEF Wanted
        <5> QED BY <2>1, <3>0, <4>1, <5>1, <5>2, BeginTends
      <4>3. CASE ~ Wanted(t.s)
        <5>1. Done(hooks, off, tasks \ {t})
          BY <1>6, <3>2, <4>3 DEF HelloAnswered
        <5>2. n # t.s
          BY <4>3 DEF Wanted
        <5> QED BY <2>1, <4>1, <5>1, <5>2, DoneTends
      <4> QED BY <4>2, <4>3
    <3> QED BY <3>1, <3>2, TaskType
  <2> QED BY <1>a, <1>d, <2>1, <2>2
<1>7. ASSUME NEW t \in tasks, Subscribed(t) PROVE NeverStranded'
  <2>1. UNCHANGED <<servings, closed, timers>> /\ t.at = "sub"
    BY <1>7 DEF Subscribed, timerVars
  <2>2. ASSUME NEW n \in servings, Looked(n) PROVE Looked(n)'
    <3>1. CASE Current(t)
      <4> DEFINE h == hooks \cup {<<t.s, t.call>>}
                 o == [off EXCEPT ![t.s] = t.call]
      <4>1. Attached(t, h, o)
        BY <1>7, <3>1 DEF Subscribed
      <4>2. hooks \subseteq h /\ <<t.s, gen[t.s]>> \in h
        BY <3>1 DEF Current
      <4> HIDE DEF h, o
      <4> QED BY <2>1, <2>2, <4>1, <4>2, AttachedTends
    <3>2. CASE ~ Current(t)
      <4>1. Attached(t, hooks, off)
        BY <1>7, <3>2 DEF Subscribed
      <4> QED BY <2>1, <2>2, <3>2, <4>1, AttachedTends
    <3> QED BY <3>1, <3>2
  <2> QED BY <1>a, <1>d, <2>1, <2>2
<1>8. ASSUME NEW t \in tasks, Refused(t) PROVE NeverStranded'
  <2>1. UNCHANGED <<servings, closed>> /\ t.at = "sub"
    BY <1>8 DEF Refused
  <2>2. CASE Current(t)
    <3>1. Retries(t)
      BY <2>2 DEF Current, Retries
    <3>2. Schedule
      BY <1>8, <2>2, <3>1 DEF Refused
    <3> QED BY <1>b, <1>d, <2>1, <3>2 DEF Schedule
  <2>3. CASE ~ Current(t)
    <3>1. Attached(t, hooks, off) /\ timers' = timers
      BY <1>8, <2>3 DEF Refused, timerVars
    <3>2. ASSUME NEW n \in servings, Looked(n) PROVE Looked(n)'
      BY <2>1, <2>3, <3>1, <3>2, AttachedTends
    <3> QED BY <1>a, <1>d, <2>1, <3>1, <3>2
  <2> QED BY <2>2, <2>3
<1>9. CASE UNCHANGED vars
  BY <1>9 DEF vars, NeverStranded, Hooked, Covers, Current
<1> QED
  BY <1>1, <1>2, <1>3, <1>4, <1>5, <1>6, <1>7, <1>8, <1>9 DEF Next

(* supplier/index.ts 366: the supplier "reattaches every serving on a link drop   *)
(* with backoff". Whatever failed, was superseded or was detached in between, a   *)
(* registered serving has its handler, or a task or a timer that will attach it:  *)
(* for every number of servings, and however many attempts overlap.               *)
THEOREM NoneLeftBehind == Spec => []NeverStranded
<1>1. Init => NeverStranded
  BY DEF Init, NeverStranded
<1>2. Inv /\ NeverStranded /\ [Next]_vars => NeverStranded'
  BY StrandedInductive
<1> QED BY <1>1, <1>2, Invariant, PTL DEF Spec
===============================================================================
