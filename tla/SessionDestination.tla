-------------------------- MODULE SessionDestination --------------------------
(***************************************************************************)
(* The adapter between an instance and a glade session, as functions of    *)
(* what the session holds for the instance's route. The session itself is  *)
(* the client library's: it numbers its own operations from 0, continues   *)
(* each writer's chain without a gap, and drops an operation whose place   *)
(* in the chain is already taken or not yet reached.                       *)
(***************************************************************************)
EXTENDS OpOrder

\* Session.append: the next operation of the chain of `who`.
SessionMint(sess, who, payload) ==
  [origin |-> who, seq |-> Cardinality(OwnedBy(sess, who)),
   lamport |-> Top(sess) + 1, payload |-> payload, wire |-> TRUE]

\* Session.applyRemote: of a batch in chain order, the operations that continue
\* a chain the session knows.
Absorbed(sess, batch) ==
  sess \cup {o \in Missing(batch, sess) :
               \A k \in 0 .. o.seq - 1 : <<o.origin, k>> \in Ids(sess \cup batch)}

\* Faulty versions of Hydrated: nothing is replayed, or the client's own
\* operations (origin 2 in the small instances) are held back.
HydratedNot(sess, store) == sess
HydratedOthers(sess, store) == Absorbed(sess, {o \in store : o.wire /\ o.origin # 2})

\* SessionDestination.hydrate, store to session: only operations that carry a
\* glade address are replayed.
Hydrated(sess, store) == Absorbed(sess, {o \in store : o.wire})

\* Faulty version of Backfill: a late mount is not caught up.
BackfillNone(sess, store) == {}

\* SessionDestination.hydrate, session to store: what the instance lacks.
Backfill(sess, store) == Missing(sess, store)
=============================================================================
