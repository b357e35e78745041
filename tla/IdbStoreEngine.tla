---------------------------- MODULE IdbStoreEngine ----------------------------
(***************************************************************************)
(* The persistent store engine, for one instance key: pages of a browser   *)
(* share one database, each with a memory cache that is loaded when the    *)
(* page opens the database and written through without waiting. Write      *)
(* transactions overlap on the operations store, so the database runs them *)
(* in the order they were made; only a read of the checkpoints may pass    *)
(* them. A page can go away at any time and takes its unfinished           *)
(* transactions with it. As refresh and purge ask of their callers, they   *)
(* are called while the page has the instance unmounted.                   *)
(*                                                                         *)
(* An operation is the name of a row. Two pages may append the same one    *)
(* when both receive it, and then write the same row twice.                *)
(***************************************************************************)
EXTENDS Naturals, FiniteSets, SequencesExt

CONSTANTS
  Pages,       \* the pages (tabs) that share the database
  Rows,        \* Rows[p]: the operations page p may append, or receive
  MayAbort,    \* the pages whose transactions may abort (quota, private mode)
  MayCall,     \* what the application calls: a subset of {"purge", "refresh", "close"}
  MaxQueue,    \* bound on transactions in progress
  MaxUses      \* bound on how often a page opens the database or mounts

ASSUME BoundAssumption == MaxQueue \in Nat /\ MaxUses \in Nat

AllRows == UNION {Rows[p] : p \in Pages}

\* Faulty version of Checkpoint: it is saved without the field that marks it.
CheckpointUnmarked(ops) == [ops |-> ops]

NoCheckpoint == [saved |-> FALSE, ops |-> {}]
Checkpoint(ops) == [saved |-> TRUE, ops |-> ops]

VARIABLES
  rows,      \* rows of the instance the database has committed
  check,     \* the committed checkpoint: which operations it folds, if any
  queue,     \* transactions made and not finished, oldest first
  phase,     \* phase[p]: "closed", "loading" or "open"
  mounted,   \* mounted[p]: the page has the instance mounted
  closing,   \* closing[p]: close() was called on the page's connection
  cached,    \* cached[p]: the page has a live view of the instance
  cache,     \* cache[p]: the operations of the live view
  loaded,    \* loaded[p]: the checkpoint the live view was given
  failed,    \* failed[p]: durabilityFailure
  waiting,   \* waiting[p]: "no", "flush" or "refresh": a call awaiting flush()
  mine,      \* mine[p]: what the page appended and did not purge (history)
  acked,     \* what a flushChecked() that resolved covered, less purges (history)
  purged,    \* the last purge that resolved left nothing to keep (history)
  uses      \* uses[p]: how often the page opened the database

pageVars == <<phase, mounted, closing, cached, uses>>
vars == <<rows, check, queue, phase, mounted, closing, cached, cache, loaded, failed,
          waiting, mine, acked, purged, uses>>

-----------------------------------------------------------------------------
Tx(p, kind, ops) == [page |-> p, kind |-> kind, ops |-> ops]
Pending(p) == {i \in DOMAIN queue : queue[i].page = p /\ queue[i].kind \in {"put", "checkpoint"}}
Enqueued(tx) == Append(queue, tx)
HasRoom == Len(queue) < MaxQueue

Init ==
  /\ rows = {} /\ check = NoCheckpoint /\ queue = <<>>
  /\ phase = [p \in Pages |-> "closed"]
  /\ mounted = [p \in Pages |-> FALSE]
  /\ closing = [p \in Pages |-> FALSE]
  /\ cached = [p \in Pages |-> FALSE]
  /\ cache = [p \in Pages |-> {}]
  /\ loaded = [p \in Pages |-> NoCheckpoint]
  /\ failed = [p \in Pages |-> FALSE]
  /\ waiting = [p \in Pages |-> "no"]
  /\ mine = [p \in Pages |-> {}]
  /\ acked = {} /\ purged = FALSE
  /\ uses = [p \in Pages |-> 0]

\* IndexedDbStoreEngine.open: the rows are read in one transaction and, when
\* they are there, the checkpoints in a second one.
Open(p) ==
  /\ phase[p] = "closed" /\ uses[p] < MaxUses /\ HasRoom
  /\ phase' = [phase EXCEPT ![p] = "loading"]
  /\ uses' = [uses EXCEPT ![p] = @ + 1]
  /\ queue' = Enqueued(Tx(p, "readRows", {}))
  /\ UNCHANGED <<rows, check, mounted, closing, cached, cache, loaded, failed, waiting, mine, acked, purged>>

Mount(p) ==
  /\ phase[p] = "open" /\ ~ mounted[p] /\ waiting[p] # "refresh" /\ uses[p] < MaxUses
  /\ mounted' = [mounted EXCEPT ![p] = TRUE]
  /\ cached' = [cached EXCEPT ![p] = TRUE]
  /\ uses' = [uses EXCEPT ![p] = @ + 1]
  /\ UNCHANGED <<rows, check, queue, phase, closing, cache, loaded, failed, waiting, mine, acked, purged>>

\* append, then the write-through put: made at once, or refused when the
\* connection is closing, which is noted and otherwise ignored.
AppendRow(p, o) ==
  /\ mounted[p] /\ o \notin cache[p] /\ HasRoom
  /\ cache' = [cache EXCEPT ![p] = @ \cup {o}]
  /\ mine' = [mine EXCEPT ![p] = @ \cup {o}]
  /\ queue' = IF closing[p] THEN queue ELSE Enqueued(Tx(p, "put", {o}))
  /\ failed' = [failed EXCEPT ![p] = @ \/ closing[p]]
  /\ purged' = FALSE
  /\ UNCHANGED <<rows, check, pageVars, loaded, waiting, acked>>

\* saveCheckpoint: the checkpoint and every operation it folds, in one
\* transaction.
Save(p) ==
  /\ queue' = IF closing[p] THEN queue ELSE Enqueued(Tx(p, "checkpoint", cache[p]))
  /\ loaded' = [loaded EXCEPT ![p] = Checkpoint(cache[p])]
  /\ failed' = [failed EXCEPT ![p] = @ \/ closing[p]]

\* Every so many operations, while the instance is mounted.
SaveCheckpoint(p) ==
  /\ mounted[p] /\ HasRoom
  /\ loaded[p] # Checkpoint(cache[p])
  /\ Save(p)
  /\ UNCHANGED <<rows, check, pageVars, cache, waiting, mine, acked, purged>>

\* The last unmount forces a checkpoint; drop() retains rows and cache.
Unmount(p) ==
  /\ mounted[p] /\ HasRoom
  /\ mounted' = [mounted EXCEPT ![p] = FALSE]
  /\ Save(p)
  /\ UNCHANGED <<rows, check, phase, closing, cached, uses, cache, waiting, mine, acked, purged>>

\* purge: the live view is emptied first; the rows it had and the checkpoint are
\* deleted in one transaction, which a closing connection refuses. Without a live
\* view there is nothing to do.
Purge(p) ==
  /\ "purge" \in MayCall
  /\ cached[p] /\ ~ mounted[p] /\ waiting[p] # "refresh" /\ HasRoom
  /\ queue' = IF closing[p] THEN queue ELSE Enqueued(Tx(p, "purge", cache[p]))
  /\ cache' = [cache EXCEPT ![p] = {}]
  /\ loaded' = [loaded EXCEPT ![p] = NoCheckpoint]
  /\ mine' = [mine EXCEPT ![p] = {}]
  /\ UNCHANGED <<rows, check, pageVars, failed, waiting, acked, purged>>

-----------------------------------------------------------------------------
\* flushChecked, and refresh, which begins with it.
Flush(p) ==
  /\ phase[p] = "open" /\ waiting[p] = "no"
  /\ waiting' = [waiting EXCEPT ![p] = "flush"]
  /\ UNCHANGED <<rows, check, queue, pageVars, cache, loaded, failed, mine, acked, purged>>

Refresh(p) ==
  /\ "refresh" \in MayCall
  /\ phase[p] = "open" /\ waiting[p] = "no" /\ ~ mounted[p]
  /\ waiting' = [waiting EXCEPT ![p] = "refresh"]
  /\ UNCHANGED <<rows, check, queue, pageVars, cache, loaded, failed, mine, acked, purged>>

\* Faulty versions of Settled: flush() looks at the oldest write only, or also
\* waits for a write that the closing connection refused.
SettledHead(p) == 1 \notin Pending(p)
SettledUnrefused(p) == Pending(p) = {} /\ ~ (closing[p] /\ failed[p])

\* What flush() waits for.
Settled(p) == Pending(p) = {}

\* Whether flushChecked rejects; the faulty version never does.
RefusedNever(p) == FALSE
Refused(p) == failed[p]

\* flush() found nothing in flight: flushChecked rejects if any write ever
\* failed and otherwise resolves; refresh goes on to read.
Flushed(p) ==
  /\ waiting[p] # "no" /\ Settled(p)
  /\ \A i \in DOMAIN queue : queue[i] # Tx(p, "refresh", {})
  /\ IF Refused(p) \/ (waiting[p] = "refresh" /\ closing[p])
     THEN /\ waiting' = [waiting EXCEPT ![p] = "no"]
          /\ UNCHANGED <<queue, acked>>
     ELSE /\ acked' = acked \cup (cache[p] \cap mine[p])
          /\ IF waiting[p] = "refresh"
             THEN queue' = Enqueued(Tx(p, "refresh", {})) /\ UNCHANGED waiting
             ELSE waiting' = [waiting EXCEPT ![p] = "no"] /\ UNCHANGED queue
  /\ UNCHANGED <<rows, check, pageVars, cache, loaded, failed, mine, purged>>

-----------------------------------------------------------------------------
\* The database finishes the oldest transaction.
Committed(kind) == queue # <<>> /\ Head(queue).kind = kind /\ queue' = Tail(queue)

PutCommits ==
  /\ Committed("put")
  /\ rows' = rows \cup Head(queue).ops
  /\ UNCHANGED <<check, pageVars, cache, loaded, failed, waiting, mine, acked, purged>>

\* Faulty version of CheckpointCommits: the operations it folds are taken to be
\* there already.
CheckpointAlone ==
  /\ Committed("checkpoint")
  /\ check' = Checkpoint(Head(queue).ops)
  /\ UNCHANGED <<rows, pageVars, cache, loaded, failed, waiting, mine, acked, purged>>

CheckpointCommits ==
  /\ Committed("checkpoint")
  /\ rows' = rows \cup Head(queue).ops
  /\ check' = Checkpoint(Head(queue).ops)
  /\ UNCHANGED <<pageVars, cache, loaded, failed, waiting, mine, acked, purged>>

\* Faulty version of Deleted: the newest row of the live view is left out.
DeletedButOne(ops) == IF ops = {} THEN {} ELSE ops \ {CHOOSE o \in ops : TRUE}
Deleted(ops) == ops

\* The purge resolves. Nothing is to remain if no page appended anything since.
PurgeCommits ==
  /\ Committed("purge")
  /\ rows' = rows \ Deleted(Head(queue).ops)
  /\ check' = NoCheckpoint
  /\ mine' = [p \in Pages |-> mine[p] \ Head(queue).ops]
  /\ acked' = acked \ Head(queue).ops
  /\ purged' = (\A p \in Pages : cache[p] = {} /\ Pending(p) = {})
  /\ UNCHANGED <<pageVars, cache, loaded, failed, waiting>>

RowsRead ==
  /\ queue # <<>> /\ Head(queue).kind = "readRows"
  /\ cache' = [cache EXCEPT ![Head(queue).page] = rows]
  /\ queue' = Append(Tail(queue), Tx(Head(queue).page, "readChecks", {}))
  /\ UNCHANGED <<rows, check, pageVars, loaded, failed, waiting, mine, acked, purged>>

\* A checkpoint is kept only for an instance that has rows.
ChecksRead ==
  /\ \E i \in DOMAIN queue :
       /\ queue[i].kind = "readChecks"
       /\ \A j \in 1 .. i - 1 : queue[j].kind \notin {"checkpoint", "purge"}
       /\ queue' = RemoveAt(queue, i)
       /\ phase' = [phase EXCEPT ![queue[i].page] = "open"]
       /\ loaded' = [loaded EXCEPT ![queue[i].page] =
                      IF cache[queue[i].page] = {} THEN NoCheckpoint ELSE check]
       /\ cached' = [cached EXCEPT ![queue[i].page] = cache[queue[i].page] # {}]
  /\ UNCHANGED <<rows, check, mounted, closing, uses, cache, failed, waiting, mine, acked, purged>>

\* refresh replaces the live view by what one transaction read.
Refreshed ==
  /\ Committed("refresh")
  /\ LET p == Head(queue).page IN
       /\ cached' = [cached EXCEPT ![p] = TRUE]
       /\ cache' = [cache EXCEPT ![p] = rows]
       /\ loaded' = [loaded EXCEPT ![p] = check]
       /\ waiting' = [waiting EXCEPT ![p] = "no"]
  /\ UNCHANGED <<rows, check, phase, mounted, closing, uses, failed, mine, acked, purged>>

\* A transaction aborts and leaves the database as it was. A write notes the
\* failure, a read or a purge rejects its call.
Aborts ==
  /\ queue # <<>> /\ Head(queue).page \in MayAbort
  /\ queue' = Tail(queue)
  /\ LET p == Head(queue).page
         kind == Head(queue).kind
     IN  /\ failed' = [failed EXCEPT ![p] = @ \/ kind \in {"put", "checkpoint"}]
         /\ phase' = [phase EXCEPT ![p] = IF kind \in {"readRows", "readChecks"} THEN "closed" ELSE @]
         /\ cache' = [cache EXCEPT ![p] = IF kind \in {"readRows", "readChecks"} THEN {} ELSE @]
         /\ waiting' = [waiting EXCEPT ![p] = IF kind = "refresh" THEN "no" ELSE @]
  /\ UNCHANGED <<rows, check, mounted, closing, cached, uses, loaded, mine, acked, purged>>

-----------------------------------------------------------------------------
\* close(), or another page upgrades the database: no new transaction.
CloseConnection(p) ==
  /\ "close" \in MayCall
  /\ phase[p] = "open" /\ ~ closing[p]
  /\ closing' = [closing EXCEPT ![p] = TRUE]
  /\ UNCHANGED <<rows, check, queue, phase, mounted, cached, cache, loaded, failed, waiting, mine, acked, purged, uses>>

\* The transactions of the other pages, in their order.
Without(p) ==
  LET others == {i \in DOMAIN queue : queue[i].page # p}
      Nth(n) == CHOOSE i \in others : Cardinality({j \in others : j <= i}) = n
  IN  [n \in 1 .. Cardinality(others) |-> queue[Nth(n)]]

\* The page goes away.
Crash(p) ==
  /\ phase[p] # "closed"
  /\ queue' = Without(p)
  /\ phase' = [phase EXCEPT ![p] = "closed"]
  /\ mounted' = [mounted EXCEPT ![p] = FALSE]
  /\ closing' = [closing EXCEPT ![p] = FALSE]
  /\ cached' = [cached EXCEPT ![p] = FALSE]
  /\ cache' = [cache EXCEPT ![p] = {}]
  /\ loaded' = [loaded EXCEPT ![p] = NoCheckpoint]
  /\ failed' = [failed EXCEPT ![p] = FALSE]
  /\ waiting' = [waiting EXCEPT ![p] = "no"]
  /\ mine' = [mine EXCEPT ![p] = {}]
  /\ UNCHANGED <<rows, check, acked, purged, uses>>

Finish ==
  \/ PutCommits \/ CheckpointCommits \/ PurgeCommits
  \/ RowsRead \/ ChecksRead \/ Refreshed \/ Aborts

Next ==
  \/ \E p \in Pages :
       \/ Open(p) \/ Mount(p) \/ Unmount(p) \/ SaveCheckpoint(p)
       \/ \E o \in Rows[p] : AppendRow(p, o)
       \/ Purge(p) \/ Flush(p) \/ Refresh(p) \/ Flushed(p)
       \/ CloseConnection(p) \/ Crash(p)
  \/ Finish

Spec == Init /\ [][Next]_vars

\* The database finishes what it was given, and a call whose flush is over goes on.
Fairness == WF_vars(Finish) /\ \A p \in Pages : WF_vars(Flushed(p))

FairSpec == Spec /\ Fairness

-----------------------------------------------------------------------------
\* What a text mount starts from: a checkpoint that names only operations the
\* live view holds, and the view's tail; otherwise the whole view. The faulty
\* version trusts the checkpoint.
RestoredUnchecked(saved, ops) == saved.ops \cup ops
Restored(saved, ops) ==
  IF saved.saved /\ saved.ops \subseteq ops THEN saved.ops \cup (ops \ saved.ops) ELSE ops

(* The type of every variable. *)
TypeOK ==
  /\ rows \subseteq AllRows /\ acked \subseteq AllRows
  /\ check \in [saved : BOOLEAN, ops : SUBSET AllRows]
  /\ queue \in Seq([page : Pages,
                   kind : {"put", "checkpoint", "purge", "readRows", "readChecks", "refresh"},
                   ops : SUBSET AllRows])
  /\ phase \in [Pages -> {"closed", "loading", "open"}]
  /\ mounted \in [Pages -> BOOLEAN] /\ closing \in [Pages -> BOOLEAN]
  /\ cached \in [Pages -> BOOLEAN]
  /\ cache \in [Pages -> SUBSET AllRows] /\ mine \in [Pages -> SUBSET AllRows]
  /\ loaded \in [Pages -> [saved : BOOLEAN, ops : SUBSET AllRows]]
  /\ failed \in [Pages -> BOOLEAN]
  /\ waiting \in [Pages -> {"no", "flush", "refresh"}]
  /\ purged \in BOOLEAN
  /\ uses \in [Pages -> Nat]

(* store_idb.ts 182: "State and all operations it names commit in one           *)
(* transaction". The committed checkpoint names only committed rows, whatever    *)
(* writes aborted, whichever page went away and whoever purged.                  *)
CheckpointCovered == check.saved => check.ops \subseteq rows

(* store_idb.ts 160: flushChecked reports "any failure instead of claiming      *)
(* durability". What the page had appended when it resolved is committed and     *)
(* stays, through crashes and other pages' writes, until it is purged.           *)
AckedDurable == acked \subseteq rows

(* A page never forgets what it appended: a refresh that would replace the live *)
(* view by rows that lack an operation whose write failed does not happen.       *)
NothingForgotten == \A p \in Pages : phase[p] = "open" => mine[p] \subseteq cache[p]

(* The text a mount starts from folds exactly the operations of its live view,   *)
(* although rows and checkpoints are read in two transactions between which      *)
(* another page may commit.                                                      *)
AssembledIsLog ==
  \A p \in Pages : phase[p] = "open" => Restored(loaded[p], cache[p]) = cache[p]

(* store_idb.ts 139-142: purge deletes the instance's persisted operations, as   *)
(* the cache "is complete by construction" and "its keys enumerate every row".   *)
PurgeDeletes == purged => rows = {}

(* A flush the application waits for comes to an end, with success or failure.   *)
FlushEnds == \A p \in Pages : waiting[p] # "no" ~> waiting[p] = "no"
=============================================================================
