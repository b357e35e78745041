----------------------------- MODULE TextReplicas -----------------------------
(***************************************************************************)
(* Text instances that edit and exchange operations. Each keeps its        *)
(* operations in a store and a TextCrdtAssembler over them, which applies  *)
(* what is new and starts anew only when a sequence base moves; it saves   *)
(* a checkpoint from time to time and is rebuilt from it after a restart.  *)
(***************************************************************************)
EXTENDS TextCrdt

CONSTANTS
  Replicas,     \* the instances; each writes as the origin of its number
  Ordered,      \* those that receive operations in causal order
  Legacy,       \* operations of a writer that is gone
  Holders,      \* the instances whose stores hold them from the start
  FirstSeq,     \* FirstSeq[r]: 1 where r mints locally, 0 where a session mints
  Texts,        \* what an editor may ask for
  MaxOps,       \* MaxOps[r]: bound on the operations r writes
  MaxBatch,     \* bound on the operations that arrive at once
  MaxRestarts   \* MaxRestarts[r]: bound on the restarts of r

ASSUME ReplicasAssumption ==
  /\ Replicas \subseteq Origins /\ IsFiniteSet(Replicas) /\ Ordered \cup Holders \subseteq Replicas
  /\ 0 \notin Ordered    \* NoText is of nobody
  /\ FirstSeq \in [Replicas -> {0, 1}] /\ {MaxOps, MaxRestarts} \subseteq [Replicas -> Nat]
  /\ MaxBatch \in Nat \ {0} /\ Texts \subseteq Seq(Nat)

ASSUME LegacyAssumption ==
  /\ IsFiniteSet(Legacy) /\ Distinct(Legacy)
  /\ \A op \in Legacy : IsOp(op) /\ op.origin \notin Replicas

\* What an operation refers to and the one before it by its writer are there, and
\* older by their lamport clock.
Founded(ops) ==
  \A op \in ops :
    /\ \A ref \in op.refs : \E o \in ops : o.origin = ref[1] /\ o.seq = ref[2] /\ o.lamport < op.lamport
    /\ \A below \in ops : below.origin = op.origin /\ below.seq < op.seq =>
         \E o \in ops : o.origin = op.origin /\ o.seq + 1 = op.seq /\ o.lamport < op.lamport

ASSUME LegacyIsFounded == Founded(Legacy)

\* Whether the writer of an operation had another one when it wrote.
Knows(op, other) ==
  \/ other.origin = op.origin /\ other.seq < op.seq
  \/ \E ref \in op.refs : other.origin = ref[1] /\ other.seq <= ref[2]

\* An atom is inserted once, ranked no higher than the clock then was, and behind
\* one that its writer had.
Anchored(ops) ==
  \A op \in Insertions(ops) :
    /\ op.edit.id[1] <= op.lamport
    /\ \A o \in Insertions(ops) : o.edit.id = op.edit.id => o = op
    /\ \/ op.edit.after = Root
       \/ \E p \in Insertions(ops) : p.edit.id = op.edit.after /\ p.lamport < op.lamport /\ Knows(op, p)

\* What AnchorsHold needs: those who write receive in causal order, and no two
\* elements of the old content have one name.
WritersAreOrdered == \A r \in Replicas : MaxOps[r] > 0 => r \in Ordered
LegacyIsNamed ==
  LET old == AssembleText(Legacy).elements IN \A m, n \in DOMAIN old : old[m].id = old[n].id => m = n

ASSUME LegacyIsAnchored == Anchored(Legacy) /\ \A op \in Legacy : op.edit.id[2] \notin Replicas

VARIABLES
  replica,   \* the store and the assembler of each instance
  saved,     \* the checkpoint in its store
  asked,     \* history: the text a replacement just asked for, and where
  restarts

vars == <<replica, saved, asked, restarts>>

NoText == [r |-> 0, text |-> <<>>]

NewAssembler ==
  [ops |-> {}, bases |-> [origin \in Origins |-> Unknown], referenced |-> {},
   applied |-> {}, pending |-> {}, atoms |-> <<>>, deleted |-> {}, elements |-> <<>>]

NoCheckpoint == [NewAssembler EXCEPT !.ops = {NoText}]

Own(r) == {op \in replica[r].ops : op.origin = r}
World == Legacy \cup UNION {Own(r) : r \in Replicas}
Shown(r) == replica[r].elements

\* A causally complete set of operations.
Closed(ops) ==
  \A op \in ops :
    /\ \A ref \in op.refs : \E o \in ops : o.origin = ref[1] /\ o.seq = ref[2]
    /\ \A o \in World : o.origin = op.origin /\ o.seq < op.seq => o \in ops

-----------------------------------------------------------------------------
\* Faulty version of Moved: only a base that was known can move.
MovedKnown(old, new, referenced) == old # Unknown /\ new # old

\* Whether a base moved that operations were normalized with already.
Moved(old, new, referenced) ==
  IF old # Unknown THEN new # old ELSE referenced /\ new \notin {0, Unknown}

\* TextCrdtAssembler.apply and state.
Apply(a, fresh) ==
  LET Seqs(origin) == {op.seq : op \in {op \in fresh : op.origin = origin}}
                      \cup IF a.bases[origin] = Unknown THEN {} ELSE {a.bases[origin]}
      bases == [origin \in Origins |-> IF Seqs(origin) = {} THEN Unknown ELSE Min(Seqs(origin))]
      rebase == \E origin \in Origins : Moved(a.bases[origin], bases[origin], origin \in a.referenced)
      from == IF rebase THEN NewAssembler ELSE a
      todo == fresh \cup IF rebase THEN a.ops ELSE {}
      node == Settle(from.applied, from.pending \cup {Normalized(op, bases) : op \in todo})
      new == node.applied \ from.applied
      atoms == Inserted(from.atoms, new)
      deleted == from.deleted \cup Deleted(new)
  IN  IF fresh = {} THEN a
      ELSE [ops |-> a.ops \cup fresh, bases |-> bases,
            referenced |-> a.referenced \cup {ref[1] : ref \in UNION {op.refs : op \in fresh}},
            applied |-> node.applied, pending |-> node.pending,
            atoms |-> atoms, deleted |-> deleted, elements |-> Elements(atoms, deleted)]

\* The assembler of a mount: restored when the store holds all that the
\* checkpoint was made of, otherwise assembled from the log.
Restored(checkpoint, persisted) ==
  IF checkpoint = NoCheckpoint \/ ~ checkpoint.ops \subseteq persisted
  THEN Apply(NewAssembler, persisted)
  ELSE Apply(checkpoint, persisted \ checkpoint.ops)

\* ingest's fold: apply what is new. Whether the 256th operation since the last
\* checkpoint is among it is left open; a checkpoint that no restart of the
\* instance would read any more is left out.
Fold(r, fresh) ==
  LET a == Apply(replica[r], fresh) IN
  /\ replica' = [replica EXCEPT ![r] = a]
  /\ \/ UNCHANGED saved
     \/ restarts[r] < MaxRestarts[r] /\ saved' = [saved EXCEPT ![r] = a]

Init ==
  /\ replica = [r \in Replicas |-> Restored(NoCheckpoint, IF r \in Holders THEN Legacy ELSE {})]
  /\ saved = [r \in Replicas |-> NoCheckpoint]
  /\ asked = NoText
  /\ restarts = [r \in Replicas |-> 0]

\* Operations of others arrive, in one batch.
Ingest(r, batch) ==
  /\ Cardinality(batch) \in 1 .. MaxBatch /\ batch \cap replica[r].ops = {}
  /\ r \in Ordered => Closed(replica[r].ops \cup batch)
  /\ Fold(r, batch)
  /\ asked' = NoText
  /\ UNCHANGED restarts

\* Faulty version of Latest: the heads name the operation that is being written.
LatestNext(ops, origin) == 1 + Max({op.seq : op \in {op \in ops : op.origin = origin}})
Latest(ops, origin) == Max({op.seq : op \in {op \in ops : op.origin = origin}})

\* crdtHeads
Heads(ops) == {<<origin, Latest(ops, origin)>> : origin \in {op.origin : op \in ops}}

\* The operations of r for the edits of a plan, each on top of the one before.
Minted(r, edits) ==
  LET held == replica[r].ops
      first == IF Own(r) = {} THEN FirstSeq[r] ELSE Latest(held, r) + 1
      clock == InsertionOrder(held) - 1
  IN  {[origin |-> r, seq |-> first + k - 1, lamport |-> clock + k, edit |-> edits[k],
        refs |-> IF k = 1 THEN Heads(held)
                 ELSE {ref \in Heads(held) : ref[1] # r} \cup {<<r, first + k - 2>>}] :
         k \in DOMAIN edits}

\* replaceText. A destination that throws before it took an operation leaves
\* the edits sent so far.
Replace(r, text, sent) ==
  LET counter == NextCounter(Shown(r), r)
      rank == InsertionOrder(replica[r].ops)
      edits == Plan(Shown(r), text, <<rank, r, counter>>)
  IN  /\ Cardinality(Own(r)) + Len(edits) <= MaxOps[r]
      /\ sent \in 1 .. Len(edits)
      /\ Fold(r, Minted(r, SubSeq(edits, 1, sent)))
      /\ asked' = IF sent = Len(edits) THEN [r |-> r, text |-> text] ELSE NoText
      /\ UNCHANGED restarts

Restart(r, checkpoint, persisted) ==
  /\ restarts[r] < MaxRestarts[r]
  /\ restarts' = [restarts EXCEPT ![r] = @ + 1]
  /\ replica' = [replica EXCEPT ![r] = Restored(checkpoint, persisted)]
  /\ saved' = [saved EXCEPT ![r] = IF restarts'[r] < MaxRestarts[r] THEN checkpoint ELSE NoCheckpoint]
  /\ asked' = NoText

\* An orderly unmount saves a checkpoint; the next mount restores it.
Remount(r) == Restart(r, replica[r], replica[r].ops)

\* The page goes away: operations of others whose transactions had not committed
\* are lost, and perhaps the checkpoint.
Crash(r, kept, checkpoint) ==
  /\ Own(r) \subseteq kept
  /\ r \in Ordered => Closed(kept)
  /\ Restart(r, checkpoint, kept)

Next ==
  \E r \in Replicas :
    \/ \E batch \in SUBSET (World \ replica[r].ops) : Ingest(r, batch)
    \/ \E text \in Texts, sent \in 1 .. MaxOps[r] : Replace(r, text, sent)
    \/ Remount(r)
    \/ \E kept \in SUBSET replica[r].ops, checkpoint \in {saved[r], NoCheckpoint} : Crash(r, kept, checkpoint)

Spec == Init /\ [][Next]_vars

-----------------------------------------------------------------------------
(* The type of the state. What the node is given is numbered from 1 for each     *)
(* origin, whichever number its sequence starts with (CrdtNode takes no other).   *)
TypeOK ==
  /\ \A r \in Replicas : restarts[r] \in 0 .. MaxRestarts[r]
  /\ asked.text \in Texts \cup {<<>>}
  /\ \A r \in Replicas : LET a == replica[r] IN
       /\ a.ops \subseteq World
       /\ a.bases \in [Origins -> Nat \cup {Unknown}]
       /\ \A op \in a.applied \cup a.pending : op.seq \in Nat \ {0}
       /\ \A id \in DOMAIN a.atoms : id[1] \in Nat \ {0} /\ id[2] \in Origins /\ id[3] \in Nat

(* However operations arrive, in whatever batches, with bases that move and     *)
(* after whatever restarts, what an instance shows is what a full replay of its  *)
(* operations gives ("toEqual(assembleTextCrdt(reader.instance.operations()))",  *)
(* text_crdt_fuzz.test.ts 44). Replicas that hold the same show the same.        *)
IncrementalIsReplay ==
  \A r \in Replicas :
    [elements |-> Shown(r), clock |-> [origin \in Origins |-> Reached(replica[r].applied, origin)]]
      = AssembleText(replica[r].ops)

(* No edit waits for ever: an instance that has received everything shows        *)
(* everything.                                                                   *)
NothingStuck ==
  \A r \in Replicas : replica[r].ops = World => replica[r].pending = {}

(* Where operations arrive in causal order, replaceText reaches the text it was  *)
(* asked for, whatever tombstones, foreign ids and elements of several characters *)
(* the old text consists of, also as the retry of a replacement sent in part.     *)
ReplaceYields ==
  asked.r \in Ordered => TextOf(Shown(asked.r)) = asked.text

(* "Its editor-facing state retains element identities and tombstones so          *)
(* selections survive remote deltas" (README 53): a cursor behind a visible        *)
(* element is still behind it after any step that leaves it visible, and at its    *)
(* tombstone's place when the step deletes it.                                     *)
AnchorsHold ==
  [][\A r \in Ordered : LET old == Shown(r)  new == Shown(r)' IN
       \A n \in DOMAIN old, m \in DOMAIN new :
         ~ old[n].deleted /\ old[n].atom = new[m].atom =>
           LET offset == Len(TextOf(SubSeq(old, 1, n))) IN
           Resolve(new, CursorAt(old, offset)) = Len(TextOf(SubSeq(new, 1, m)))]_vars
=============================================================================
