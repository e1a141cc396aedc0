----------------------------- MODULE IndexSync -----------------------------
(***************************************************************************)
(* Index synchronisation of the moderation bot.                            *)
(*                                                                         *)
(* A worker that handles /ban writes the ban and its outbox event in one   *)
(* PostgreSQL transaction and then adds the ban to the in-memory indexes   *)
(* of its own process.  Every other process learns of the ban by reading   *)
(* the outbox past its checkpoint and applying what it finds.  A process   *)
(* that starts loads its indexes from the tables and catches up before it  *)
(* serves.  The Python AI service runs the same reader, checkpoint and     *)
(* catch-up loop on its own index (index_events.py), so a replica of this  *)
(* module is a bot process or an AI service process.                       *)
(***************************************************************************)
EXTENDS Naturals, FiniteSets

CONSTANTS
  Writers,      \* workers able to run BlockOrchestrator.Block
  Replicas,     \* processes with a projection, one consumer_id each
  Indexes,      \* index names of a replica (exact, imagehash, videolike)
  HomeOf,       \* the process a writer belongs to
  Elsewhere,    \* home of a writer whose process is left out of the model
  BatchSize,    \* catch_up_batch_size
  MaxXid,       \* bound: ban transactions of a behaviour
  MaxFailures,  \* bound: failing database or index calls
  MaxCrashes    \* bound: process exits and subscriber exits

ASSUME ConstantsAssumption ==
  /\ HomeOf \in [Writers -> Replicas \cup {Elsewhere}]
  /\ Elsewhere \notin Replicas
  /\ BatchSize \in Nat \ {0}
  /\ MaxXid \in Nat
  /\ MaxFailures \in Nat
  /\ MaxCrashes \in Nat

VARIABLES
  nextXid,     \* next transaction id (xid8) PostgreSQL assigns
  nextOffset,  \* next value of the outbox offset sequence
  outbox,      \* committed rows of watermill_outbox_events
  wpc, txn,    \* per writer: where Block is, and the event it writes
  left,        \* per writer: prepared indexes ApplyBlock has still to update
  mode,        \* per replica: stage of app.Run
  loaded,      \* per replica: indexes built from the tables since the start
  index,       \* per replica and index: the bans it matches against
  ckpt, stale, \* index_checkpoints: position and stale flag
  sync,        \* per replica and index: stage of CatchUpIndex
  last,        \* position the running CatchUpIndex read or wrote last
  batch,       \* rows of the current batch not applied yet
  horizon,     \* position of the last row of the current batch
  full,        \* whether the current batch had BatchSize rows
  failures, crashes, \* counters of the two bounds
  late         \* history: <<replica, index, event>> that committed at a
               \* position the replica's reader had already passed

dbVars     == <<nextXid, nextOffset, outbox>>
writerVars == <<wpc, txn, left>>
procVars   == <<mode, loaded, index>>
ckptVars   == <<ckpt, stale>>
syncVars   == <<sync, last, batch, horizon, full>>
vars == <<dbVars, writerVars, procVars, ckptVars, syncVars, failures, crashes, late>>

-----------------------------------------------------------------------------
(* Events and positions of the outbox.                                     *)

Position == [xid : Nat, offset : Nat]
Zero == [xid |-> 0, offset |-> 0]

\* A row of the outbox.  arts are the indexes in which the ban of this
\* transaction owns an artifact row, which LoadByBanUID will find.
Event == [xid : Nat, offset : Nat, arts : SUBSET Indexes]
NoEvent == [xid |-> 0, offset |-> 0, arts |-> {}]

PositionOf(e) == [xid |-> e.xid, offset |-> e.offset]

\* p lies strictly after q in (transaction_id, offset) order.
After(p, q) == p.xid > q.xid \/ (p.xid = q.xid /\ p.offset > q.offset)

\* The committed rows after p, and the first BatchSize of them.
RowsAfter(p) == {e \in outbox : After(e, p)}
NewestRows(rows) ==
  {e \in rows : Cardinality({f \in rows : After(f, e)}) < BatchSize}
FirstRows(rows) ==
  {e \in rows : Cardinality({f \in rows : After(e, f)}) < BatchSize}
LoadAfter(p) == FirstRows(RowsAfter(p))

\* The bans whose artifact of index i is in the tables.
Artifacts(i) == {e \in outbox : i \in e.arts}

\* What an index holds after it is given the artifact of e, if e has one.
ReplaceArtifact(held, i, e) == IF i \in e.arts THEN {e} ELSE held
AddArtifact(held, i, e) == IF i \in e.arts THEN held \cup {e} ELSE held

CatchingUp(r) == \E i \in Indexes : sync[r][i] # "none"
Serving(r) == mode[r] \in {"ready", "detached"}
HomeServes(w) == HomeOf[w] \in {r \in Replicas : Serving(r)} \cup {Elsewhere}

\* How far the reader of r's index i has read: the last row of a batch it
\* holds, the checkpoint otherwise.
ReadUpTo(r, i) ==
  IF sync[r][i] \in {"apply", "update"} THEN horizon[r][i] ELSE ckpt[r][i]

SyncStage == {"none", "start", "load", "apply", "update", "ok", "failed"}

DbTypeOK ==
  /\ nextXid \in 1..(MaxXid + 1)
  /\ nextOffset \in Nat
  /\ outbox \subseteq Event /\ IsFiniteSet(outbox)
WriterTypeOK ==
  /\ wpc \in [Writers -> {"idle", "open", "saved", "apply"}]
  /\ txn \in [Writers -> Event]
  /\ left \in [Writers -> SUBSET Indexes]
ProcessTypeOK ==
  /\ mode \in [Replicas -> {"down", "load", "boot", "ready", "detached"}]
  /\ loaded \in [Replicas -> SUBSET Indexes]
  /\ index \in [Replicas -> [Indexes -> SUBSET Event]]
CheckpointTypeOK ==
  /\ ckpt \in [Replicas -> [Indexes -> Position]]
  /\ stale \in [Replicas -> [Indexes -> BOOLEAN]]
SyncTypeOK ==
  /\ sync \in [Replicas -> [Indexes -> SyncStage]]
  /\ last \in [Replicas -> [Indexes -> Position]]
  /\ batch \in [Replicas -> [Indexes -> SUBSET Event]]
  /\ horizon \in [Replicas -> [Indexes -> Position]]
  /\ full \in [Replicas -> [Indexes -> BOOLEAN]]
BoundsTypeOK ==
  /\ failures \in 0..MaxFailures
  /\ crashes \in 0..MaxCrashes
  /\ late \subseteq Replicas \X Indexes \X Event

TypeOK ==
  /\ DbTypeOK /\ WriterTypeOK /\ ProcessTypeOK
  /\ CheckpointTypeOK /\ SyncTypeOK /\ BoundsTypeOK

Init ==
  /\ nextXid = 1 /\ nextOffset = 1 /\ outbox = {}
  /\ wpc = [w \in Writers |-> "idle"]
  /\ txn = [w \in Writers |-> NoEvent]
  /\ left = [w \in Writers |-> {}]
  /\ mode = [r \in Replicas |-> "down"]
  /\ loaded = [r \in Replicas |-> {}]
  /\ index = [r \in Replicas |-> [i \in Indexes |-> {}]]
  /\ ckpt = [r \in Replicas |-> [i \in Indexes |-> Zero]]
  /\ stale = [r \in Replicas |-> [i \in Indexes |-> FALSE]]
  /\ sync = [r \in Replicas |-> [i \in Indexes |-> "none"]]
  /\ last = [r \in Replicas |-> [i \in Indexes |-> Zero]]
  /\ batch = [r \in Replicas |-> [i \in Indexes |-> {}]]
  /\ horizon = [r \in Replicas |-> [i \in Indexes |-> Zero]]
  /\ full = [r \in Replicas |-> [i \in Indexes |-> FALSE]]
  /\ failures = 0 /\ crashes = 0 /\ late = {}

-----------------------------------------------------------------------------
(* BlockOrchestrator.Block: one transaction, then the local indexes.       *)

\* insertMediaBan, the first write of the transaction: PostgreSQL assigns
\* the transaction id here, not at the commit.
BeginBan(w) ==
  /\ wpc[w] = "idle" /\ HomeServes(w) /\ nextXid <= MaxXid
  /\ wpc' = [wpc EXCEPT ![w] = "open"]
  /\ txn' = [txn EXCEPT ![w] = [NoEvent EXCEPT !.xid = nextXid]]
  /\ nextXid' = nextXid + 1
  /\ UNCHANGED <<nextOffset, outbox, left, procVars, ckptVars, syncVars, failures, crashes, late>>

\* The sets of handlers that prepared a block, and of those that created an
\* artifact row: the others found one a committed ban owns (ON CONFLICT).
PreparedAndCreated ==
  {p \in (SUBSET Indexes \ {{}}) \X SUBSET Indexes :
     p[2] \subseteq p[1] /\ \A i \in p[1] \ p[2] : Artifacts(i) # {}}

\* The indexes ApplyBlock will update: those of a modelled process.
LocalIndexes(w, prepared) == IF HomeOf[w] = Elsewhere THEN {} ELSE prepared

\* PersistBlock of every prepared handler, and saveBanCreatedEvent because
\* some handler created an artifact.
SaveBan(w) ==
  /\ wpc[w] = "open"
  /\ \E p \in PreparedAndCreated :
       /\ p[2] # {}
       /\ txn' = [txn EXCEPT ![w].offset = nextOffset, ![w].arts = p[2]]
       /\ left' = [left EXCEPT ![w] = LocalIndexes(w, p[1])]
  /\ wpc' = [wpc EXCEPT ![w] = "saved"]
  /\ nextOffset' = nextOffset + 1
  /\ UNCHANGED <<nextXid, outbox, procVars, ckptVars, syncVars, failures, crashes, late>>

\* No handler created anything: deleteEmptyMediaBan, a commit without an
\* event, and ApplyBlock of every prepared handler all the same.
SaveNothing(w) ==
  /\ wpc[w] = "open"
  /\ \E p \in PreparedAndCreated : p[2] = {} /\ left' = [left EXCEPT ![w] = LocalIndexes(w, p[1])]
  /\ wpc' = [wpc EXCEPT ![w] = "apply"]
  /\ txn' = [txn EXCEPT ![w] = NoEvent]
  /\ UNCHANGED <<dbVars, procVars, ckptVars, syncVars, failures, crashes, late>>

\* The readers already past the position at which txn[w] becomes visible.
OvertakenBy(w) ==
  {q \in Replicas \X Indexes :
     /\ q[2] \in txn[w].arts \cap loaded[q[1]]
     /\ ~After(txn[w], ReadUpTo(q[1], q[2]))}

\* The transaction commits: the row becomes visible at its old position.
Publish(w) ==
  /\ outbox' = outbox \cup {txn[w]}
  /\ late' = late \cup {<<q[1], q[2], txn[w]>> : q \in OvertakenBy(w)}
  /\ UNCHANGED <<nextXid, nextOffset, procVars, ckptVars, syncVars, crashes>>

CommitBan(w) ==
  /\ wpc[w] = "saved"
  /\ Publish(w)
  /\ wpc' = [wpc EXCEPT ![w] = "apply"]
  /\ UNCHANGED <<txn, left, failures>>

\* The commit took effect but its answer is lost: Block returns an error
\* and ApplyBlock is never called.
CommitAnswerLost(w) ==
  /\ wpc[w] = "saved" /\ failures < MaxFailures
  /\ Publish(w)
  /\ wpc' = [wpc EXCEPT ![w] = "idle"]
  /\ txn' = [txn EXCEPT ![w] = NoEvent]
  /\ left' = [left EXCEPT ![w] = {}]
  /\ failures' = failures + 1

\* A statement or the commit fails: nothing is left behind, the transaction
\* id is used up.
RollBackBan(w) ==
  /\ wpc[w] \in {"open", "saved"}
  /\ wpc' = [wpc EXCEPT ![w] = "idle"]
  /\ txn' = [txn EXCEPT ![w] = NoEvent]
  /\ left' = [left EXCEPT ![w] = {}]
  /\ UNCHANGED <<dbVars, procVars, ckptVars, syncVars, failures, crashes, late>>

\* ApplyBlock of one prepared handler on the in-memory index of the writer's
\* process: its own artifact, or the one it turned out to duplicate.
ApplyBlock(w) ==
  /\ wpc[w] = "apply"
  /\ \E i \in left[w] :
       /\ \E e \in IF i \in txn[w].arts THEN {txn[w]} ELSE Artifacts(i) :
            index' = [index EXCEPT ![HomeOf[w]][i] = AddArtifact(@, i, e)]
       /\ left' = [left EXCEPT ![w] = @ \ {i}]
  /\ UNCHANGED <<dbVars, wpc, txn, mode, loaded, ckptVars, syncVars, failures, crashes, late>>

BlockReturns(w) ==
  /\ wpc[w] = "apply" /\ left[w] = {}
  /\ wpc' = [wpc EXCEPT ![w] = "idle"]
  /\ txn' = [txn EXCEPT ![w] = NoEvent]
  /\ UNCHANGED <<dbVars, left, procVars, ckptVars, syncVars, failures, crashes, late>>

-----------------------------------------------------------------------------
(* The life of a process: app.Run, bootstrap.Build, newIndexSubscriber.    *)

StartProcess(r) ==
  /\ mode[r] = "down"
  /\ mode' = [mode EXCEPT ![r] = "load"]
  /\ UNCHANGED <<dbVars, writerVars, loaded, index, ckptVars, syncVars, failures, crashes, late>>

\* NewPostgresMatcher of one matcher: build the index from the active rows.
LoadIndex(r, i) ==
  /\ mode[r] = "load" /\ i \notin loaded[r]
  /\ index' = [index EXCEPT ![r][i] = Artifacts(i)]
  /\ loaded' = [loaded EXCEPT ![r] = @ \cup {i}]
  /\ UNCHANGED <<dbVars, writerVars, mode, ckptVars, syncVars, failures, crashes, late>>

\* Every matcher is built: bootstrap catch-up, before anything is served.
StartBootstrap(r) ==
  /\ mode[r] = "load" /\ loaded[r] = Indexes
  /\ mode' = [mode EXCEPT ![r] = "boot"]
  /\ sync' = [sync EXCEPT ![r] = [i \in Indexes |-> "start"]]
  /\ UNCHANGED <<dbVars, writerVars, loaded, index, ckptVars, last, batch, horizon, full,
                 failures, crashes, late>>

\* The process is gone: open transactions roll back, a Block that had
\* committed never updates the indexes, memory and goroutines are lost.
ProcessGone(r) ==
  /\ mode' = [mode EXCEPT ![r] = "down"]
  /\ loaded' = [loaded EXCEPT ![r] = {}]
  /\ index' = [index EXCEPT ![r] = [i \in Indexes |-> {}]]
  /\ sync' = [sync EXCEPT ![r] = [i \in Indexes |-> "none"]]
  /\ last' = [last EXCEPT ![r] = [i \in Indexes |-> Zero]]
  /\ batch' = [batch EXCEPT ![r] = [i \in Indexes |-> {}]]
  /\ horizon' = [horizon EXCEPT ![r] = [i \in Indexes |-> Zero]]
  /\ full' = [full EXCEPT ![r] = [i \in Indexes |-> FALSE]]
  /\ wpc' = [w \in Writers |-> IF HomeOf[w] = r THEN "idle" ELSE wpc[w]]
  /\ txn' = [w \in Writers |-> IF HomeOf[w] = r THEN NoEvent ELSE txn[w]]
  /\ left' = [w \in Writers |-> IF HomeOf[w] = r THEN {} ELSE left[w]]
  /\ late' = {t \in late : t[1] # r}
  /\ UNCHANGED <<dbVars, ckptVars, failures>>

Crash(r) ==
  /\ mode[r] # "down" /\ crashes < MaxCrashes
  /\ crashes' = crashes + 1
  /\ ProcessGone(r)

\* indexSubscriber.Run returns (RabbitMQ unreachable, or the message channel
\* closed): nothing in the process runs a catch-up again.
SubscriberExits(r) ==
  /\ mode[r] = "ready" /\ ~CatchingUp(r) /\ crashes < MaxCrashes
  /\ crashes' = crashes + 1
  /\ mode' = [mode EXCEPT ![r] = "detached"]
  /\ UNCHANGED <<dbVars, writerVars, loaded, index, ckptVars, syncVars, failures, late>>

-----------------------------------------------------------------------------
(* synchronizer: CatchUpAllIndexes, with one CatchUpIndex per index.       *)

\* The ticker or a RabbitMQ message reaches the select loop of Run.
CatchUpFreshIndexes(r) ==
  /\ mode[r] = "ready" /\ ~CatchingUp(r) /\ \A i \in Indexes : ~stale[r][i]
  /\ sync' = [sync EXCEPT ![r] = [i \in Indexes |-> "start"]]
  /\ UNCHANGED <<dbVars, writerVars, procVars, ckptVars, last, batch, horizon, full,
                 failures, crashes, late>>

CatchUpStaleIndexes(r) ==
  /\ mode[r] = "ready" /\ ~CatchingUp(r) /\ \E i \in Indexes : stale[r][i]
  /\ sync' = [sync EXCEPT ![r] = [i \in Indexes |-> "start"]]
  /\ UNCHANGED <<dbVars, writerVars, procVars, ckptVars, last, batch, horizon, full,
                 failures, crashes, late>>

CatchUpAllIndexes(r) ==
  /\ mode[r] = "ready" /\ ~CatchingUp(r)
  /\ sync' = [sync EXCEPT ![r] = [i \in Indexes |-> "start"]]
  /\ UNCHANGED <<dbVars, writerVars, procVars, ckptVars, last, batch, horizon, full,
                 failures, crashes, late>>

\* The goroutines joined: a bootstrap without error lets the process serve,
\* a bootstrap with an error ends it, any other result is only logged or
\* turned into an ack or nack.
CatchUpReturns(r) ==
  /\ CatchingUp(r)
  /\ \A i \in Indexes : sync[r][i] \in {"ok", "failed"}
  /\ IF mode[r] = "boot" /\ \E i \in Indexes : sync[r][i] = "failed"
     THEN ProcessGone(r) /\ UNCHANGED crashes
     ELSE /\ mode' = [mode EXCEPT ![r] = "ready"]
          /\ sync' = [sync EXCEPT ![r] = [i \in Indexes |-> "none"]]
          /\ UNCHANGED <<dbVars, writerVars, loaded, index, ckptVars, last, batch, horizon,
                         full, failures, crashes, late>>

\* CatchUpIndex returns: its local variables are gone.
Return(r, i, result) ==
  /\ sync' = [sync EXCEPT ![r][i] = result]
  /\ last' = [last EXCEPT ![r][i] = Zero]
  /\ batch' = [batch EXCEPT ![r][i] = {}]
  /\ horizon' = [horizon EXCEPT ![r][i] = Zero]
  /\ full' = [full EXCEPT ![r][i] = FALSE]

\* GetOrCreate: a missing row is a row at the zero position, not stale.
ReadCheckpoint(r, i) ==
  /\ sync[r][i] = "start"
  /\ last' = [last EXCEPT ![r][i] = ckpt[r][i]]
  /\ sync' = [sync EXCEPT ![r][i] = "load"]
  /\ UNCHANGED <<dbVars, writerVars, procVars, ckptVars, batch, horizon, full,
                 failures, crashes, late>>

LoadBatchKeepsEvent(r, i) ==
  /\ sync[r][i] = "load"
  /\ LET rows == LoadAfter(last[r][i])
     IN \E newest \in rows :
          /\ \A e \in rows : ~After(e, newest)
          /\ batch' = [batch EXCEPT ![r][i] = rows]
          /\ horizon' = [horizon EXCEPT ![r][i] = newest]
          /\ full' = [full EXCEPT ![r][i] = (Cardinality(rows) = BatchSize)]
  /\ sync' = [sync EXCEPT ![r][i] = "apply"]
  /\ UNCHANGED <<dbVars, writerVars, procVars, ckptVars, last, failures, crashes, late>>

\* LoadAfter returned rows: they will be applied in position order.
LoadBatch(r, i) ==
  /\ sync[r][i] = "load"
  /\ LET rows == LoadAfter(last[r][i])
     IN \E newest \in rows :
          /\ \A e \in rows : ~After(e, newest)
          /\ batch' = [batch EXCEPT ![r][i] = rows]
          /\ horizon' = [horizon EXCEPT ![r][i] = PositionOf(newest)]
          /\ full' = [full EXCEPT ![r][i] = (Cardinality(rows) = BatchSize)]
  /\ sync' = [sync EXCEPT ![r][i] = "apply"]
  /\ UNCHANGED <<dbVars, writerVars, procVars, ckptVars, last, failures, crashes, late>>

LoadNothing(r, i) ==
  /\ sync[r][i] = "load" /\ LoadAfter(last[r][i]) = {}
  /\ Return(r, i, "ok")
  /\ UNCHANGED <<dbVars, writerVars, procVars, ckptVars, failures, crashes, late>>

\* ApplyEvent on the oldest row left: LoadByBanUID finds the artifact of
\* this index or finds nothing, and a found artifact is added once.
ApplyEvent(r, i) ==
  /\ sync[r][i] = "apply"
  /\ \E e \in batch[r][i] :
       /\ \A f \in batch[r][i] : ~After(e, f)
       /\ index' = [index EXCEPT ![r][i] = AddArtifact(@, i, e)]
       /\ batch' = [batch EXCEPT ![r][i] = @ \ {e}]
       /\ sync' = [sync EXCEPT ![r][i] = IF batch[r][i] = {e} THEN "update" ELSE "apply"]
  /\ UNCHANGED <<dbVars, writerVars, mode, loaded, ckptVars, last, horizon, full,
                 failures, crashes, late>>

\* ApplyEvent fails: MarkStale, which may fail too, and the rest of the
\* batch is dropped with the checkpoint where it was.
ApplyEventFailsAndGoesOn(r, i) ==
  /\ sync[r][i] = "apply" /\ failures < MaxFailures
  /\ \E marked \in BOOLEAN : stale' = [stale EXCEPT ![r][i] = @ \/ marked]
  /\ batch' = [batch EXCEPT ![r][i] = {}]
  /\ sync' = [sync EXCEPT ![r][i] = "update"]
  /\ failures' = failures + 1
  /\ UNCHANGED <<dbVars, writerVars, procVars, ckpt, last, horizon, full, crashes, late>>

ApplyEventFails(r, i) ==
  /\ sync[r][i] = "apply" /\ failures < MaxFailures
  /\ \E marked \in BOOLEAN : stale' = [stale EXCEPT ![r][i] = @ \/ marked]
  /\ Return(r, i, "failed")
  /\ failures' = failures + 1
  /\ UNCHANGED <<dbVars, writerVars, procVars, ckpt, crashes, late>>

\* checkpoints.Update: the row moves only forward, and a row that moves is
\* fresh again.  A full batch is followed by another one.
UpdatePositionOnly(r, i) ==
  /\ sync[r][i] = "update"
  /\ ckpt' = [ckpt EXCEPT ![r][i] = horizon[r][i]]
  /\ Return(r, i, "ok")
  /\ UNCHANGED <<dbVars, writerVars, procVars, stale, failures, crashes, late>>

UpdateCheckpoint(r, i) ==
  /\ sync[r][i] = "update"
  /\ LET moves == ~After(ckpt[r][i], horizon[r][i])
     IN /\ ckpt' = [ckpt EXCEPT ![r][i] = IF moves THEN horizon[r][i] ELSE @]
        /\ stale' = [stale EXCEPT ![r][i] = IF moves THEN FALSE ELSE @]
  /\ IF full[r][i]
     THEN /\ sync' = [sync EXCEPT ![r][i] = "load"]
          /\ last' = [last EXCEPT ![r][i] = horizon[r][i]]
          /\ horizon' = [horizon EXCEPT ![r][i] = Zero]
          /\ full' = [full EXCEPT ![r][i] = FALSE]
          /\ UNCHANGED batch
     ELSE Return(r, i, "ok")
  /\ UNCHANGED <<dbVars, writerVars, procVars, failures, crashes, late>>

\* GetOrCreate, LoadAfter or Update fails: the error is returned, the row
\* is not marked stale.
DatabaseFails(r, i) ==
  /\ sync[r][i] \in {"start", "load", "update"} /\ failures < MaxFailures
  /\ Return(r, i, "failed")
  /\ failures' = failures + 1
  /\ UNCHANGED <<dbVars, writerVars, procVars, ckptVars, crashes, late>>

-----------------------------------------------------------------------------
WriterStep(w) ==
  \/ BeginBan(w) \/ SaveBan(w) \/ SaveNothing(w) \/ CommitBan(w)
  \/ CommitAnswerLost(w) \/ RollBackBan(w) \/ ApplyBlock(w) \/ BlockReturns(w)

ProcessStep(r) ==
  \/ StartProcess(r) \/ StartBootstrap(r) \/ CatchUpAllIndexes(r)
  \/ CatchUpReturns(r) \/ Crash(r) \/ SubscriberExits(r)

IndexStep(r, i) ==
  \/ LoadIndex(r, i) \/ ReadCheckpoint(r, i) \/ LoadBatch(r, i) \/ LoadNothing(r, i)
  \/ ApplyEvent(r, i) \/ ApplyEventFails(r, i) \/ UpdateCheckpoint(r, i)
  \/ DatabaseFails(r, i)

Next ==
  \/ \E w \in Writers : WriterStep(w)
  \/ \E r \in Replicas : ProcessStep(r)
  \/ \E r \in Replicas, i \in Indexes : IndexStep(r, i)

Spec == Init /\ [][Next]_vars

\* What the scheduling of the code guarantees: Kubernetes restarts a process,
\* the ticker of Run comes round, and a goroutine takes its next step.
Fairness ==
  /\ \A r \in Replicas :
       /\ WF_vars(StartProcess(r)) /\ WF_vars(StartBootstrap(r))
       /\ WF_vars(CatchUpAllIndexes(r)) /\ WF_vars(CatchUpReturns(r))
  /\ \A r \in Replicas, i \in Indexes :
       /\ WF_vars(LoadIndex(r, i)) /\ WF_vars(ReadCheckpoint(r, i))
       /\ WF_vars(LoadBatch(r, i) \/ LoadNothing(r, i))
       /\ WF_vars(ApplyEvent(r, i)) /\ WF_vars(UpdateCheckpoint(r, i))

FairSpec == Spec /\ Fairness

-----------------------------------------------------------------------------
(* Properties.                                                             *)

\* The checkpoint never stands past a ban the index does not hold, unless
\* the ban committed behind a reader that had already passed its position:
\* a failed batch, a lost commit answer, a crash or a restart skips nothing.
AppliedUpToCheckpoint ==
  \A r \in Replicas : \A i \in loaded[r] : \A e \in Artifacts(i) :
    ~After(e, ckpt[r][i]) => e \in index[r][i] \/ <<r, i, e>> \in late

\* The same without the exception: every event at or before the checkpoint
\* was applied, "strictly in order", as docs/tests.md says of the
\* synchronizer.
NothingSkipped ==
  \A r \in Replicas : \A i \in loaded[r] : \A e \in Artifacts(i) :
    ~After(e, ckpt[r][i]) => e \in index[r][i]

\* No index enforces a ban whose transaction did not commit, whatever
\* happens between the transaction, ApplyBlock and a crash.
IndexIsCommitted ==
  \A r \in Replicas, i \in Indexes : index[r][i] \subseteq Artifacts(i)

\* A stale flag is never left behind by a catch-up that succeeded: while the
\* flag is up there is a row after the checkpoint for the next catch-up to
\* read, so the flag can come down.
StaleHasPendingEvent ==
  \A r \in Replicas, i \in Indexes :
    stale[r][i] => \E e \in outbox : After(e, ckpt[r][i])

-----------------------------------------------------------------------------
(* Why the safety properties hold: the inductive invariant.                *)

\* A worker updates its indexes only with a ban that is in the tables.
ApplyBlockAfterCommit ==
  \A w \in Writers : wpc[w] = "apply" => txn[w] \in outbox \/ txn[w].arts = {}

\* A running CatchUpIndex reads on from the stored checkpoint; what it still
\* has to apply are committed rows after the checkpoint; and it never
\* stores a position before the checkpoint.
AheadOfCheckpoint(r, i) ==
  /\ sync[r][i] = "load" => last[r][i] = ckpt[r][i]
  /\ sync[r][i] = "apply" =>
       /\ batch[r][i] # {} /\ batch[r][i] \subseteq outbox
       /\ \A e \in batch[r][i] : After(e, ckpt[r][i])
  /\ sync[r][i] \in {"apply", "update"} => ~After(ckpt[r][i], horizon[r][i])
CatchUpAheadOfCheckpoint == \A r \in Replicas, i \in Indexes : AheadOfCheckpoint(r, i)

\* What a reader has read is in the index or still in its batch.
Covered(r, i) ==
  i \in loaded[r] => \A e \in Artifacts(i) :
    ~After(e, ReadUpTo(r, i)) =>
      \/ e \in index[r][i]
      \/ <<r, i, e>> \in late
      \/ sync[r][i] = "apply" /\ e \in batch[r][i]
ReadIsAppliedOrInBatch == \A r \in Replicas, i \in Indexes : Covered(r, i)

\* The invariant the proofs rest on.  It also says what a restart and a
\* failed batch rely on: the position a catch-up stores covers only rows
\* whose effect is already in the index.
SyncInvariant ==
  /\ TypeOK /\ ApplyBlockAfterCommit /\ CatchUpAheadOfCheckpoint
  /\ IndexIsCommitted /\ ReadIsAppliedOrInBatch /\ StaleHasPendingEvent

\* With a single worker no transaction overlaps another, so no ban commits
\* at a position already read.
NeverOvertaken ==
  /\ late = {}
  /\ \A e \in outbox : e.xid < nextXid
  /\ \A r \in Replicas, i \in Indexes :
       ckpt[r][i].xid < nextXid /\ horizon[r][i].xid < nextXid
  /\ \A w \in Writers : wpc[w] \in {"open", "saved"} =>
       /\ txn[w].xid < nextXid
       /\ \A e \in outbox : e.xid < txn[w].xid
       /\ \A r \in Replicas, i \in Indexes :
            ckpt[r][i].xid < txn[w].xid /\ horizon[r][i].xid < txn[w].xid

-----------------------------------------------------------------------------
(* Liveness and refinement.                                                *)

\* The ban of transaction x belongs in r's index i and is not there, and
\* nothing overtook it.
Missing(r, i, x) ==
  \E e \in Artifacts(i) : e.xid = x /\ e \notin index[r][i] /\ <<r, i, e>> \notin late

\* Every ban reaches every index of every replica, through failures, lost
\* commit answers and restarts, as long as the subscriber loop runs.
EventuallyApplied ==
  \A r \in Replicas, i \in Indexes, x \in 1..MaxXid :
    Missing(r, i, x) ~> (~Missing(r, i, x) \/ mode[r] = "detached")

\* The stale flag, and with it the 503 of the readiness probe, goes away by
\* itself once the failing calls succeed again.
StaleEventuallyCleared ==
  \A r \in Replicas, i \in Indexes :
    stale[r][i] ~> (~stale[r][i] \/ mode[r] = "detached")

\* The synchronisation implements the abstract blacklist: the outbox is the
\* set of bans, the in-memory indexes are what is enforced.
IndexesOf(e) == e.arts
Blacklist == INSTANCE ReplicatedBlacklist
  WITH Ban <- Event, Replica <- Replicas, Index <- Indexes, Covers <- IndexesOf,
       bans <- outbox, enforced <- index

\* Bans are durable, only committed bans are enforced, and a live process
\* never drops one, whatever Block, catch-up and crashes do in between.
ImplementsBlacklist == Blacklist!Spec

=============================================================================
