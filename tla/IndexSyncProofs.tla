-------------------------- MODULE IndexSyncProofs --------------------------
(***************************************************************************)
(* Proofs about IndexSync for every set of writers, replicas and indexes,  *)
(* every batch size and every bound: type correctness, the inductive       *)
(* invariant and the safety properties that follow from it, the            *)
(* installation with one worker, the refinement of the abstract blacklist, *)
(* and that no index forgets a ban, which follows from the refinement.     *)
(***************************************************************************)
EXTENDS IndexSync, FiniteSetTheorems, TLAPS

-----------------------------------------------------------------------------
(* Positions are totally ordered.                                          *)

\* After is transitive, also through positions that are not after another.
LEMMA AfterTransitive ==
  ASSUME NEW p, NEW q, NEW s,
         p.xid \in Nat, p.offset \in Nat, q.xid \in Nat, q.offset \in Nat,
         s.xid \in Nat, s.offset \in Nat
  PROVE  /\ After(p, q) /\ After(q, s) => After(p, s)
         /\ ~After(p, q) /\ ~After(q, s) => ~After(p, s)
         /\ After(p, q) /\ ~After(s, q) => After(p, s)
         /\ After(p, q) => ~After(q, p)
  BY DEF After

\* The position of an event orders like the event.
LEMMA PositionOrdersLikeEvent ==
  ASSUME NEW e \in Event, NEW p, p.xid \in Nat, p.offset \in Nat
  PROVE  /\ After(p, PositionOf(e)) <=> After(p, e)
         /\ After(PositionOf(e), p) <=> After(e, p)
<1>1. PositionOf(e).xid = e.xid /\ PositionOf(e).offset = e.offset
  BY DEF PositionOf
<1> QED
  BY <1>1 DEF After

\* LoadAfter returns committed rows after p, and when it returns a row it
\* returns every committed row before it: a batch has no holes.
LEMMA BatchHasNoHoles ==
  ASSUME outbox \subseteq Event, IsFiniteSet(outbox), BatchSize \in Nat,
         NEW p \in Position, NEW newest \in LoadAfter(p), NEW e \in outbox,
         After(e, p), ~After(e, newest)
  PROVE  e \in LoadAfter(p)
<1> DEFINE rows == RowsAfter(p)
           Before(x) == {f \in rows : After(x, f)}
<1>1. rows \subseteq outbox /\ newest \in rows /\ e \in rows
  BY DEF LoadAfter, FirstRows, RowsAfter
<1>2. IsFiniteSet(rows) /\ IsFiniteSet(Before(newest))
  <2>1. rows \subseteq outbox /\ Before(newest) \subseteq outbox
    BY <1>1
  <2> QED
    BY <2>1, FS_Subset
<1>3. Before(e) \subseteq Before(newest)
  <2> SUFFICES ASSUME NEW f \in rows, After(e, f)
               PROVE  After(newest, f)
    OBVIOUS
  <2>1. f \in Event /\ e \in Event /\ newest \in Event
    BY <1>1
  <2> QED
    BY <2>1 DEF After, Event
<1>4. Cardinality(Before(e)) <= Cardinality(Before(newest))
  BY <1>2, <1>3, FS_Subset
<1>5. Cardinality(Before(newest)) < BatchSize
  BY DEF LoadAfter, FirstRows
<1>6. Cardinality(Before(e)) \in Nat /\ Cardinality(Before(newest)) \in Nat
  BY <1>2, <1>3, FS_Subset, FS_CardinalityType
<1>7. Cardinality(Before(e)) < BatchSize
  BY <1>4, <1>5, <1>6
<1> QED
  BY <1>1, <1>7 DEF LoadAfter, FirstRows

-----------------------------------------------------------------------------
(* Type correctness.                                                       *)

\* A group of variables that does not change keeps its types.
LEMMA UnchangedTypes ==
  ASSUME TypeOK
  PROVE  /\ UNCHANGED dbVars => DbTypeOK'
         /\ UNCHANGED writerVars => WriterTypeOK'
         /\ UNCHANGED procVars => ProcessTypeOK'
         /\ UNCHANGED ckptVars => CheckpointTypeOK'
         /\ UNCHANGED syncVars => SyncTypeOK'
         /\ UNCHANGED <<failures, crashes, late>> => BoundsTypeOK'
<1>1. UNCHANGED dbVars => DbTypeOK'
  BY DEF TypeOK, dbVars, DbTypeOK
<1>2. UNCHANGED writerVars => WriterTypeOK'
  BY DEF TypeOK, writerVars, WriterTypeOK
<1>3. UNCHANGED procVars => ProcessTypeOK'
  BY DEF TypeOK, procVars, ProcessTypeOK
<1>4. UNCHANGED ckptVars => CheckpointTypeOK'
  BY DEF TypeOK, ckptVars, CheckpointTypeOK
<1>5. UNCHANGED syncVars => SyncTypeOK'
  BY DEF TypeOK, syncVars, SyncTypeOK
<1>6. UNCHANGED <<failures, crashes, late>> => BoundsTypeOK'
  BY DEF TypeOK, BoundsTypeOK
<1> QED
  BY <1>1, <1>2, <1>3, <1>4, <1>5, <1>6

LEMMA InitialValues == Zero \in Position /\ NoEvent \in Event
  BY DEF Zero, Position, NoEvent, Event

\* The variables of a CatchUpIndex that returns keep their types.
LEMMA ReturnType ==
  ASSUME TypeOK, NEW r \in Replicas, NEW i \in Indexes,
         NEW result \in {"ok", "failed"}, Return(r, i, result)
  PROVE  SyncTypeOK'
  BY InitialValues DEF TypeOK, SyncTypeOK, SyncStage, Return

LEMMA ProcessGoneType ==
  ASSUME TypeOK, NEW r \in Replicas, ProcessGone(r), crashes' \in 0..MaxCrashes
  PROVE  TypeOK'
<1>1. DbTypeOK' /\ CheckpointTypeOK'
  BY UnchangedTypes DEF ProcessGone
<1>2. WriterTypeOK'
  BY InitialValues DEF TypeOK, WriterTypeOK, ProcessGone
<1>3. ProcessTypeOK'
  BY DEF TypeOK, ProcessTypeOK, ProcessGone
<1>4. SyncTypeOK'
  BY InitialValues DEF TypeOK, SyncTypeOK, SyncStage, ProcessGone
<1>5. BoundsTypeOK'
  BY DEF TypeOK, BoundsTypeOK, ProcessGone
<1> QED
  BY <1>1, <1>2, <1>3, <1>4, <1>5 DEF TypeOK

\* A committed row keeps the outbox a finite set of events.
LEMMA PublishType ==
  ASSUME TypeOK, NEW w \in Writers, Publish(w), failures' \in 0..MaxFailures
  PROVE  DbTypeOK' /\ ProcessTypeOK' /\ CheckpointTypeOK' /\ SyncTypeOK' /\ BoundsTypeOK'
<1>1. txn[w] \in Event
  BY DEF TypeOK, WriterTypeOK
<1>2. DbTypeOK'
  BY <1>1, FS_AddElement DEF TypeOK, DbTypeOK, Publish
<1>3. \A q \in OvertakenBy(w) : <<q[1], q[2], txn[w]>> \in Replicas \X Indexes \X Event
  BY <1>1 DEF OvertakenBy
<1>4. late' \subseteq Replicas \X Indexes \X Event
  BY <1>3 DEF TypeOK, BoundsTypeOK, Publish
<1>5. BoundsTypeOK'
  BY <1>4 DEF TypeOK, BoundsTypeOK, Publish
<1> QED
  BY <1>2, <1>5, UnchangedTypes DEF Publish

LEMMA WriterTypeStep ==
  ASSUME TypeOK, NEW w \in Writers, WriterStep(w)
  PROVE  TypeOK'
<1> USE ConstantsAssumption, UnchangedTypes
<1>1. CASE BeginBan(w)
  <2>1. [NoEvent EXCEPT !.xid = nextXid] \in Event
    BY DEF NoEvent, Event, TypeOK, DbTypeOK
  <2>2. WriterTypeOK'
    BY <1>1, <2>1 DEF BeginBan, TypeOK, WriterTypeOK
  <2>3. DbTypeOK'
    BY <1>1 DEF BeginBan, TypeOK, DbTypeOK
  <2> QED
    BY <1>1, <2>2, <2>3 DEF BeginBan, TypeOK
<1>2. CASE SaveBan(w)
  <2>1. PICK p \in PreparedAndCreated :
          /\ txn' = [txn EXCEPT ![w].offset = nextOffset, ![w].arts = p[2]]
          /\ left' = [left EXCEPT ![w] = LocalIndexes(w, p[1])]
    BY <1>2 DEF SaveBan
  <2>2. p[2] \in SUBSET Indexes /\ LocalIndexes(w, p[1]) \in SUBSET Indexes
    BY DEF PreparedAndCreated, LocalIndexes
  <2>3. txn' \in [Writers -> Event]
    <3>1. txn[w] \in Event /\ nextOffset \in Nat
      BY DEF TypeOK, WriterTypeOK, DbTypeOK
    <3>2. txn' = [txn EXCEPT ![w] = [txn[w] EXCEPT !.offset = nextOffset, !.arts = p[2]]]
      BY <2>1, <3>1 DEF Event, TypeOK, WriterTypeOK
    <3>3. [txn[w] EXCEPT !.offset = nextOffset, !.arts = p[2]] \in Event
      BY <2>2, <3>1 DEF Event
    <3> QED
      BY <3>2, <3>3 DEF TypeOK, WriterTypeOK
  <2>4. WriterTypeOK'
    BY <1>2, <2>1, <2>2, <2>3 DEF SaveBan, TypeOK, WriterTypeOK
  <2>5. DbTypeOK'
    BY <1>2 DEF SaveBan, TypeOK, DbTypeOK
  <2> QED
    BY <1>2, <2>4, <2>5 DEF SaveBan, TypeOK
<1>7. CASE SaveNothing(w)
  <2>1. PICK p \in PreparedAndCreated : left' = [left EXCEPT ![w] = LocalIndexes(w, p[1])]
    BY <1>7 DEF SaveNothing
  <2>2. LocalIndexes(w, p[1]) \in SUBSET Indexes
    BY DEF PreparedAndCreated, LocalIndexes
  <2>3. WriterTypeOK'
    BY <1>7, <2>1, <2>2, InitialValues DEF SaveNothing, TypeOK, WriterTypeOK
  <2> QED
    BY <1>7, <2>3 DEF SaveNothing, TypeOK
<1>3. CASE CommitBan(w)
  <2>1. WriterTypeOK'
    BY <1>3 DEF CommitBan, TypeOK, WriterTypeOK
  <2>2. failures' \in 0..MaxFailures
    BY <1>3 DEF CommitBan, TypeOK, BoundsTypeOK
  <2> QED
    BY <1>3, <2>1, <2>2, PublishType DEF CommitBan, TypeOK
<1>4. CASE CommitAnswerLost(w)
  <2>1. WriterTypeOK'
    BY <1>4, InitialValues DEF CommitAnswerLost, TypeOK, WriterTypeOK
  <2>2. failures' \in 0..MaxFailures
    BY <1>4 DEF CommitAnswerLost, TypeOK, BoundsTypeOK
  <2> QED
    BY <1>4, <2>1, <2>2, PublishType DEF CommitAnswerLost, TypeOK
<1>5. CASE RollBackBan(w) \/ BlockReturns(w)
  <2>1. WriterTypeOK'
    BY <1>5, InitialValues DEF RollBackBan, BlockReturns, TypeOK, WriterTypeOK
  <2> QED
    BY <1>5, <2>1 DEF RollBackBan, BlockReturns, TypeOK
<1>6. CASE ApplyBlock(w)
  <2>1. PICK i \in left[w] :
          /\ \E e \in IF i \in txn[w].arts THEN {txn[w]} ELSE Artifacts(i) :
               index' = [index EXCEPT ![HomeOf[w]][i] = AddArtifact(@, i, e)]
          /\ left' = [left EXCEPT ![w] = @ \ {i}]
    BY <1>6 DEF ApplyBlock
  <2>2. WriterTypeOK'
    BY <1>6, <2>1 DEF ApplyBlock, TypeOK, WriterTypeOK
  <2>3. PICK e \in Event : index' = [index EXCEPT ![HomeOf[w]][i] = AddArtifact(@, i, e)]
    BY <2>1 DEF Artifacts, TypeOK, WriterTypeOK, DbTypeOK
  <2>4. index' \in [Replicas -> [Indexes -> SUBSET Event]]
    <3>1. AddArtifact(index[HomeOf[w]][i], i, e) \in SUBSET Event \/ HomeOf[w] \notin Replicas
      BY <2>1, <2>3 DEF AddArtifact, TypeOK, ProcessTypeOK, WriterTypeOK
    <3> QED
      BY <2>3, <3>1 DEF TypeOK, ProcessTypeOK
  <2>5. ProcessTypeOK'
    BY <1>6, <2>4 DEF ApplyBlock, TypeOK, ProcessTypeOK
  <2> QED
    BY <1>6, <2>2, <2>5 DEF ApplyBlock, TypeOK
<1> QED
  BY <1>1, <1>2, <1>3, <1>4, <1>5, <1>6, <1>7 DEF WriterStep

LEMMA ProcessTypeStep ==
  ASSUME TypeOK, NEW r \in Replicas, ProcessStep(r)
  PROVE  TypeOK'
<1> USE ConstantsAssumption, UnchangedTypes
<1>1. CASE StartProcess(r)
  <2>1. ProcessTypeOK'
    BY <1>1 DEF StartProcess, TypeOK, ProcessTypeOK
  <2> QED
    BY <1>1, <2>1 DEF StartProcess, TypeOK
<1>2. CASE StartBootstrap(r)
  <2>1. ProcessTypeOK' /\ SyncTypeOK'
    BY <1>2 DEF StartBootstrap, TypeOK, ProcessTypeOK, SyncTypeOK, SyncStage
  <2> QED
    BY <1>2, <2>1 DEF StartBootstrap, TypeOK
<1>3. CASE CatchUpAllIndexes(r)
  <2>1. SyncTypeOK'
    BY <1>3 DEF CatchUpAllIndexes, TypeOK, SyncTypeOK, SyncStage
  <2> QED
    BY <1>3, <2>1 DEF CatchUpAllIndexes, TypeOK
<1>4. CASE CatchUpReturns(r)
  <2>1. CASE mode[r] = "boot" /\ \E i \in Indexes : sync[r][i] = "failed"
    <3>1. crashes' \in 0..MaxCrashes
      BY <1>4, <2>1 DEF CatchUpReturns, TypeOK, BoundsTypeOK
    <3> QED
      BY <1>4, <2>1, <3>1, ProcessGoneType DEF CatchUpReturns
  <2>2. CASE ~(mode[r] = "boot" /\ \E i \in Indexes : sync[r][i] = "failed")
    <3>1. /\ mode' = [mode EXCEPT ![r] = "ready"]
          /\ sync' = [sync EXCEPT ![r] = [i \in Indexes |-> "none"]]
          /\ UNCHANGED <<dbVars, writerVars, loaded, index, ckptVars, last, batch, horizon,
                         full, failures, crashes, late>>
      BY <1>4, <2>2 DEF CatchUpReturns
    <3>2. ProcessTypeOK'
      BY <3>1 DEF TypeOK, ProcessTypeOK
    <3>3. SyncTypeOK'
      BY <3>1 DEF TypeOK, SyncTypeOK, SyncStage
    <3> QED
      BY <3>1, <3>2, <3>3 DEF TypeOK
  <2> QED
    BY <2>1, <2>2
<1>5. CASE Crash(r)
  <2>1. crashes' \in 0..MaxCrashes
    BY <1>5 DEF Crash, TypeOK, BoundsTypeOK
  <2> QED
    BY <1>5, <2>1, ProcessGoneType DEF Crash
<1>6. CASE SubscriberExits(r)
  <2>1. ProcessTypeOK'
    BY <1>6 DEF SubscriberExits, TypeOK, ProcessTypeOK
  <2>2. BoundsTypeOK'
    BY <1>6 DEF SubscriberExits, TypeOK, BoundsTypeOK
  <2> QED
    BY <1>6, <2>1, <2>2 DEF SubscriberExits, TypeOK
<1> QED
  BY <1>1, <1>2, <1>3, <1>4, <1>5, <1>6 DEF ProcessStep

LEMMA IndexTypeStep ==
  ASSUME TypeOK, NEW r \in Replicas, NEW i \in Indexes, IndexStep(r, i)
  PROVE  TypeOK'
<1> USE ConstantsAssumption, UnchangedTypes
<1>1. CASE LoadIndex(r, i)
  <2>1. Artifacts(i) \subseteq Event
    BY DEF TypeOK, DbTypeOK, Artifacts
  <2>2. ProcessTypeOK'
    BY <1>1, <2>1 DEF LoadIndex, TypeOK, ProcessTypeOK
  <2> QED
    BY <1>1, <2>2 DEF LoadIndex, TypeOK
<1>2. CASE ReadCheckpoint(r, i)
  <2>1. SyncTypeOK'
    BY <1>2 DEF ReadCheckpoint, TypeOK, SyncTypeOK, SyncStage, CheckpointTypeOK
  <2> QED
    BY <1>2, <2>1 DEF ReadCheckpoint, TypeOK
<1>3. CASE LoadBatch(r, i)
  <2> DEFINE rows == LoadAfter(last[r][i])
  <2>1. rows \subseteq Event
    BY DEF LoadAfter, FirstRows, RowsAfter, TypeOK, DbTypeOK
  <2>2. \A e \in Event : PositionOf(e) \in Position
    BY DEF PositionOf, Position, Event
  <2>3. PICK newest \in rows :
          /\ batch' = [batch EXCEPT ![r][i] = rows]
          /\ horizon' = [horizon EXCEPT ![r][i] = PositionOf(newest)]
          /\ full' = [full EXCEPT ![r][i] = (Cardinality(rows) = BatchSize)]
    BY <1>3 DEF LoadBatch
  <2> HIDE DEF rows
  <2>4. SyncTypeOK'
    BY <1>3, <2>1, <2>2, <2>3 DEF LoadBatch, TypeOK, SyncTypeOK, SyncStage
  <2> QED
    BY <1>3, <2>4 DEF LoadBatch, TypeOK
<1>4. CASE LoadNothing(r, i)
  BY <1>4, ReturnType DEF LoadNothing, TypeOK
<1>5. CASE ApplyEvent(r, i)
  <2>1. PICK e \in batch[r][i] :
          /\ index' = [index EXCEPT ![r][i] = AddArtifact(@, i, e)]
          /\ batch' = [batch EXCEPT ![r][i] = @ \ {e}]
    BY <1>5 DEF ApplyEvent
  <2>2. e \in Event
    BY <2>1 DEF TypeOK, SyncTypeOK
  <2>3. ProcessTypeOK'
    BY <1>5, <2>1, <2>2 DEF ApplyEvent, AddArtifact, TypeOK, ProcessTypeOK
  <2>4. SyncTypeOK'
    BY <1>5, <2>1 DEF ApplyEvent, TypeOK, SyncTypeOK, SyncStage
  <2> QED
    BY <1>5, <2>3, <2>4 DEF ApplyEvent, TypeOK
<1>6. CASE ApplyEventFails(r, i)
  <2>1. CheckpointTypeOK'
    BY <1>6 DEF ApplyEventFails, TypeOK, CheckpointTypeOK
  <2>2. BoundsTypeOK'
    BY <1>6 DEF ApplyEventFails, TypeOK, BoundsTypeOK
  <2> QED
    BY <1>6, <2>1, <2>2, ReturnType DEF ApplyEventFails, TypeOK
<1>7. CASE UpdateCheckpoint(r, i)
  <2>1. horizon[r][i] \in Position
    BY DEF TypeOK, SyncTypeOK
  <2>2. CheckpointTypeOK'
    BY <1>7, <2>1 DEF UpdateCheckpoint, TypeOK, CheckpointTypeOK
  <2>3. SyncTypeOK'
    <3>1. CASE full[r][i]
      <4>1. /\ sync' = [sync EXCEPT ![r][i] = "load"]
            /\ last' = [last EXCEPT ![r][i] = horizon[r][i]]
            /\ horizon' = [horizon EXCEPT ![r][i] = Zero]
            /\ full' = [full EXCEPT ![r][i] = FALSE]
            /\ batch' = batch
        BY <1>7, <3>1 DEF UpdateCheckpoint
      <4> QED
        BY <4>1, <2>1, InitialValues DEF TypeOK, SyncTypeOK, SyncStage
    <3>2. CASE ~full[r][i]
      BY <1>7, <3>2, ReturnType DEF UpdateCheckpoint
    <3> QED
      BY <3>1, <3>2
  <2> QED
    BY <1>7, <2>2, <2>3 DEF UpdateCheckpoint, TypeOK
<1>8. CASE DatabaseFails(r, i)
  <2>1. BoundsTypeOK'
    BY <1>8 DEF DatabaseFails, TypeOK, BoundsTypeOK
  <2> QED
    BY <1>8, <2>1, ReturnType DEF DatabaseFails, TypeOK
<1> QED
  BY <1>1, <1>2, <1>3, <1>4, <1>5, <1>6, <1>7, <1>8 DEF IndexStep

LEMMA TypeStep == TypeOK /\ [Next]_vars => TypeOK'
<1>1. ASSUME TypeOK, UNCHANGED vars
      PROVE  TypeOK'
  BY <1>1, UnchangedTypes DEF vars, TypeOK
<1> QED
  BY <1>1, WriterTypeStep, ProcessTypeStep, IndexTypeStep DEF Next

LEMMA TypeInit == Init => TypeOK
<1> SUFFICES ASSUME Init
             PROVE  TypeOK
  OBVIOUS
<1> USE InitialValues, ConstantsAssumption DEF Init
<1>1. DbTypeOK
  BY FS_EmptySet DEF DbTypeOK
<1>2. WriterTypeOK
  BY DEF WriterTypeOK
<1>3. ProcessTypeOK
  BY DEF ProcessTypeOK
<1>4. CheckpointTypeOK
  BY DEF CheckpointTypeOK
<1>5. SyncTypeOK
  BY DEF SyncTypeOK, SyncStage
<1>6. BoundsTypeOK
  BY DEF BoundsTypeOK
<1> QED
  BY <1>1, <1>2, <1>3, <1>4, <1>5, <1>6 DEF TypeOK

\* Every variable of the synchronisation stays in its type.
THEOREM TypeCorrect == Spec => []TypeOK
  BY TypeInit, TypeStep, PTL DEF Spec

-----------------------------------------------------------------------------
(* The inductive invariant: the checkpoint skips nothing but what was      *)
(* overtaken, the indexes hold only committed bans, and a stale flag can   *)
(* come down.                                                              *)

(* What the actions have in common.                                        *)

\* A catch-up touches neither the tables of bans nor a worker.
LEMMA IndexStepFrame ==
  ASSUME NEW r \in Replicas, NEW i \in Indexes, IndexStep(r, i)
  PROVE  UNCHANGED <<dbVars, writerVars>> /\ late' = late
  BY DEF IndexStep, LoadIndex, ReadCheckpoint, LoadBatch, LoadNothing, ApplyEvent,
         ApplyEventFails, UpdateCheckpoint, DatabaseFails

\* Nor does the life of a process, unless the process goes away.
LEMMA ProcessStepFrame ==
  ASSUME NEW r \in Replicas, ProcessStep(r)
  PROVE  UNCHANGED <<dbVars, ckptVars>> /\ (UNCHANGED writerVars \/ ProcessGone(r))
  BY DEF ProcessStep, StartProcess, StartBootstrap, CatchUpAllIndexes, CatchUpReturns, Crash,
         SubscriberExits, ProcessGone

\* A worker leaves checkpoints and catch-ups alone; rows of the outbox are
\* never removed.
LEMMA WriterStepFrame ==
  ASSUME NEW w \in Writers, WriterStep(w)
  PROVE  UNCHANGED <<mode, loaded, ckptVars, syncVars>> /\ outbox \subseteq outbox'
         /\ late \subseteq late'
  BY DEF WriterStep, BeginBan, SaveBan, SaveNothing, CommitBan, CommitAnswerLost, RollBackBan, ApplyBlock,
         BlockReturns, Publish, dbVars, procVars

LEMMA OutboxGrows == [Next]_vars => outbox \subseteq outbox'
  BY IndexStepFrame, ProcessStepFrame, WriterStepFrame DEF Next, vars, dbVars

\* Nothing of r's index i changes.
Untouched(r, i) ==
  /\ index'[r][i] = index[r][i] /\ (i \in loaded'[r] <=> i \in loaded[r])
  /\ ckpt'[r][i] = ckpt[r][i] /\ stale'[r][i] = stale[r][i]
  /\ sync'[r][i] = sync[r][i] /\ last'[r][i] = last[r][i]
  /\ batch'[r][i] = batch[r][i] /\ horizon'[r][i] = horizon[r][i]
  /\ \A e \in Event : <<r, i, e>> \in late' <=> <<r, i, e>> \in late

\* Only the stage of r's catch-up of i changes, to one without a batch.
CatchUpStartsOrEnds(r, i) ==
  /\ index'[r][i] = index[r][i] /\ (i \in loaded'[r] <=> i \in loaded[r])
  /\ sync'[r][i] \in {"start", "none"}
  /\ \A e \in Event : <<r, i, e>> \in late' <=> <<r, i, e>> \in late

\* r lost its memory.
MemoryLost(r, i) == loaded'[r] = {} /\ index'[r][i] = {} /\ sync'[r][i] = "none"

\* A step of a catch-up of one index leaves every other index alone.
LEMMA IndexStepElsewhere ==
  ASSUME TypeOK, NEW r \in Replicas, NEW i \in Indexes, IndexStep(r, i),
         NEW q \in Replicas, NEW j \in Indexes, q # r \/ j # i
  PROVE  Untouched(q, j)
<1> USE DEF TypeOK, ProcessTypeOK, CheckpointTypeOK, SyncTypeOK, Untouched, Return,
            procVars, ckptVars, syncVars
<1>1. CASE LoadIndex(r, i)
  BY <1>1 DEF LoadIndex
<1>2. CASE ReadCheckpoint(r, i)
  BY <1>2 DEF ReadCheckpoint
<1>3. CASE LoadBatch(r, i)
  <2> DEFINE rows == LoadAfter(last[r][i])
  <2>1. PICK newest \in rows :
          /\ batch' = [batch EXCEPT ![r][i] = rows]
          /\ horizon' = [horizon EXCEPT ![r][i] = PositionOf(newest)]
    BY <1>3 DEF LoadBatch
  <2> HIDE DEF rows
  <2> QED
    BY <1>3, <2>1 DEF LoadBatch
<1>4. CASE LoadNothing(r, i) \/ DatabaseFails(r, i)
  BY <1>4 DEF LoadNothing, DatabaseFails
<1>5. CASE ApplyEvent(r, i)
  BY <1>5 DEF ApplyEvent
<1>6. CASE ApplyEventFails(r, i)
  BY <1>6 DEF ApplyEventFails
<1>7. CASE UpdateCheckpoint(r, i)
  <2>1. ckpt'[q][j] = ckpt[q][j] /\ stale'[q][j] = stale[q][j]
    <3>1. PICK position, flag : /\ ckpt' = [ckpt EXCEPT ![r][i] = position]
                                /\ stale' = [stale EXCEPT ![r][i] = flag]
      BY <1>7 DEF UpdateCheckpoint
    <3> QED
      BY <3>1
  <2>2. /\ sync'[q][j] = sync[q][j] /\ last'[q][j] = last[q][j]
        /\ batch'[q][j] = batch[q][j] /\ horizon'[q][j] = horizon[q][j]
    <3>1. CASE full[r][i]
      BY <1>7, <3>1 DEF UpdateCheckpoint
    <3>2. CASE ~full[r][i]
      BY <1>7, <3>2 DEF UpdateCheckpoint
    <3> QED
      BY <3>1, <3>2
  <2> QED
    BY <1>7, <2>1, <2>2 DEF UpdateCheckpoint
<1> QED
  BY <1>1, <1>2, <1>3, <1>4, <1>5, <1>6, <1>7 DEF IndexStep

\* What the life of a process does to an index.
LEMMA ProcessStepEffect ==
  ASSUME TypeOK, NEW r \in Replicas, ProcessStep(r), NEW q \in Replicas, NEW j \in Indexes
  PROVE  Untouched(q, j) \/ CatchUpStartsOrEnds(q, j) \/ MemoryLost(q, j)
<1> USE DEF TypeOK, ProcessTypeOK, CheckpointTypeOK, SyncTypeOK
<1>1. ASSUME ProcessGone(r)
      PROVE  Untouched(q, j) \/ MemoryLost(q, j)
  <2>1. CASE q = r
    BY <1>1, <2>1 DEF ProcessGone, MemoryLost
  <2>2. CASE q # r
    BY <1>1, <2>2 DEF ProcessGone, Untouched, ckptVars
  <2> QED
    BY <2>1, <2>2
<1>2. CASE StartProcess(r) \/ SubscriberExits(r)
  <2>1. UNCHANGED <<loaded, index, ckptVars, syncVars, late>>
    BY <1>2 DEF StartProcess, SubscriberExits
  <2> QED
    BY <2>1 DEF Untouched, ckptVars, syncVars
<1>3. CASE StartBootstrap(r) \/ CatchUpAllIndexes(r)
  <2>1. /\ sync' = [sync EXCEPT ![r] = [i \in Indexes |-> "start"]]
        /\ UNCHANGED <<loaded, index, ckpt, stale, last, batch, horizon, late>>
    BY <1>3 DEF StartBootstrap, CatchUpAllIndexes, ckptVars, procVars
  <2> QED
    BY <2>1 DEF Untouched, CatchUpStartsOrEnds
<1>4. CASE CatchUpReturns(r)
  <2>1. CASE mode[r] = "boot" /\ \E i \in Indexes : sync[r][i] = "failed"
    <3>1. ProcessGone(r)
      BY <1>4, <2>1 DEF CatchUpReturns
    <3> QED
      BY <1>1, <3>1
  <2>2. CASE ~(mode[r] = "boot" /\ \E i \in Indexes : sync[r][i] = "failed")
    <3>1. /\ sync' = [sync EXCEPT ![r] = [i \in Indexes |-> "none"]]
          /\ UNCHANGED <<loaded, index, ckpt, stale, last, batch, horizon, late>>
      BY <1>4, <2>2 DEF CatchUpReturns, ckptVars
    <3> QED
      BY <3>1 DEF Untouched, CatchUpStartsOrEnds
  <2> QED
    BY <2>1, <2>2
<1>5. CASE Crash(r)
  BY <1>1, <1>5 DEF Crash
<1> QED
  BY <1>2, <1>3, <1>4, <1>5 DEF ProcessStep

-----------------------------------------------------------------------------
(* One lemma per conjunct of SyncInvariant.                                *)

LEMMA ApplyBlockAfterCommitStep ==
  ASSUME TypeOK, ApplyBlockAfterCommit, [Next]_vars
  PROVE  ApplyBlockAfterCommit'
<1> SUFFICES ASSUME NEW w \in Writers, wpc'[w] = "apply"
             PROVE  txn'[w] \in outbox' \/ txn'[w].arts = {}
  BY DEF ApplyBlockAfterCommit
<1>1. wpc[w] = "apply" => txn[w] \in outbox' \/ txn[w].arts = {}
  BY OutboxGrows DEF ApplyBlockAfterCommit
<1>2. ASSUME NEW v \in Writers, WriterStep(v)
      PROVE  txn'[w] \in outbox' \/ txn'[w].arts = {}
  <2> USE DEF TypeOK, WriterTypeOK
  <2>1. CASE BeginBan(v) \/ SaveBan(v) \/ RollBackBan(v) \/ BlockReturns(v)
    BY <1>1, <2>1 DEF BeginBan, SaveBan, RollBackBan, BlockReturns
  <2>2. CASE CommitBan(v)
    BY <1>1, <2>2 DEF CommitBan, Publish
  <2>3. CASE CommitAnswerLost(v)
    BY <1>1, <2>3 DEF CommitAnswerLost
  <2>4. CASE ApplyBlock(v)
    BY <1>1, <2>4 DEF ApplyBlock
  <2>5. CASE SaveNothing(v)
    BY <1>1, <2>5 DEF SaveNothing, NoEvent
  <2> QED
    BY <1>2, <2>1, <2>2, <2>3, <2>4, <2>5 DEF WriterStep
<1>3. ASSUME NEW r \in Replicas, ProcessGone(r)
      PROVE  txn'[w] \in outbox' \/ txn'[w].arts = {}
  BY <1>1, <1>3 DEF ProcessGone
<1>4. CASE UNCHANGED writerVars
  BY <1>1, <1>4 DEF writerVars
<1> QED
  BY <1>2, <1>3, <1>4, IndexStepFrame, ProcessStepFrame DEF Next, vars

LEMMA AheadStep ==
  ASSUME TypeOK, CatchUpAheadOfCheckpoint, [Next]_vars
  PROVE  CatchUpAheadOfCheckpoint'
<1> SUFFICES ASSUME NEW r \in Replicas, NEW i \in Indexes
             PROVE  AheadOfCheckpoint(r, i)'
  BY DEF CatchUpAheadOfCheckpoint
<1>1. AheadOfCheckpoint(r, i)
  BY DEF CatchUpAheadOfCheckpoint
<1>2. ASSUME Untouched(r, i)
      PROVE  AheadOfCheckpoint(r, i)'
  BY <1>1, <1>2, OutboxGrows DEF Untouched, AheadOfCheckpoint
<1>3. ASSUME CatchUpStartsOrEnds(r, i) \/ MemoryLost(r, i)
      PROVE  AheadOfCheckpoint(r, i)'
  BY <1>3 DEF CatchUpStartsOrEnds, MemoryLost, AheadOfCheckpoint
<1>4. ASSUME IndexStep(r, i)
      PROVE  AheadOfCheckpoint(r, i)'
  <2> USE DEF TypeOK, CheckpointTypeOK, SyncTypeOK
  <2>1. CASE LoadIndex(r, i)
    BY <1>1, <2>1, OutboxGrows DEF LoadIndex, AheadOfCheckpoint, ckptVars, syncVars
  <2>2. CASE ReadCheckpoint(r, i)
    BY <2>2 DEF ReadCheckpoint, AheadOfCheckpoint, ckptVars
  <2>3. CASE LoadBatch(r, i)
    <3> DEFINE rows == LoadAfter(last[r][i])
    <3>1. PICK newest \in rows :
            /\ batch' = [batch EXCEPT ![r][i] = rows]
            /\ horizon' = [horizon EXCEPT ![r][i] = PositionOf(newest)]
      BY <2>3 DEF LoadBatch
    <3>2. last[r][i] = ckpt[r][i]
      BY <1>1, <2>3 DEF LoadBatch, AheadOfCheckpoint
    <3>3. rows \subseteq outbox /\ \A e \in rows : After(e, ckpt[r][i])
      BY <3>2 DEF LoadAfter, FirstRows, RowsAfter
    <3>4. ~After(ckpt[r][i], PositionOf(newest))
      <4>1. newest \in Event /\ ckpt[r][i] \in Position
        BY <3>3 DEF DbTypeOK
      <4>2. /\ newest.xid \in Nat /\ newest.offset \in Nat
            /\ ckpt[r][i].xid \in Nat /\ ckpt[r][i].offset \in Nat
        BY <4>1 DEF Event, Position
      <4>3. ~After(ckpt[r][i], newest)
        BY <3>3, <4>2, AfterTransitive
      <4> QED
        BY <4>1, <4>2, <4>3, PositionOrdersLikeEvent
    <3>5. sync' = [sync EXCEPT ![r][i] = "apply"] /\ ckpt' = ckpt
      BY <2>3 DEF LoadBatch, ckptVars
    <3> HIDE DEF rows
    <3> QED
      BY <3>1, <3>3, <3>4, <3>5, OutboxGrows DEF AheadOfCheckpoint
  <2>4. CASE LoadNothing(r, i) \/ DatabaseFails(r, i) \/ ApplyEventFails(r, i)
    BY <2>4 DEF LoadNothing, DatabaseFails, ApplyEventFails, Return, AheadOfCheckpoint
  <2>5. CASE ApplyEvent(r, i)
    <3>1. PICK e \in batch[r][i] :
            /\ batch' = [batch EXCEPT ![r][i] = @ \ {e}]
            /\ sync' = [sync EXCEPT ![r][i] = IF batch[r][i] = {e} THEN "update" ELSE "apply"]
      BY <2>5 DEF ApplyEvent
    <3>2. UNCHANGED <<ckpt, horizon>> /\ sync[r][i] = "apply"
      BY <2>5 DEF ApplyEvent, ckptVars
    <3> QED
      BY <1>1, <3>1, <3>2, OutboxGrows DEF AheadOfCheckpoint
  <2>6. CASE UpdateCheckpoint(r, i)
    <3>1. ckpt' = [ckpt EXCEPT ![r][i] = horizon[r][i]]
      BY <1>1, <2>6 DEF UpdateCheckpoint, AheadOfCheckpoint
    <3>2. CASE full[r][i]
      BY <2>6, <3>1, <3>2 DEF UpdateCheckpoint, AheadOfCheckpoint
    <3>3. CASE ~full[r][i]
      BY <2>6, <3>3 DEF UpdateCheckpoint, Return, AheadOfCheckpoint
    <3> QED
      BY <3>2, <3>3
  <2> QED
    BY <1>4, <2>1, <2>2, <2>3, <2>4, <2>5, <2>6 DEF IndexStep
<1>5. ASSUME NEW w \in Writers, WriterStep(w)
      PROVE  AheadOfCheckpoint(r, i)'
  BY <1>1, <1>5, WriterStepFrame DEF AheadOfCheckpoint, ckptVars, syncVars
<1>6. CASE UNCHANGED vars
  BY <1>1, <1>6 DEF vars, dbVars, ckptVars, syncVars, AheadOfCheckpoint
<1> QED
  BY <1>2, <1>3, <1>4, <1>5, <1>6, IndexStepElsewhere, ProcessStepEffect DEF Next

LEMMA IndexIsCommittedStep ==
  ASSUME SyncInvariant, [Next]_vars
  PROVE  IndexIsCommitted'
<1> SUFFICES ASSUME NEW r \in Replicas, NEW i \in Indexes
             PROVE  index'[r][i] \subseteq Artifacts(i)'
  BY DEF IndexIsCommitted
<1> USE DEF SyncInvariant
<1>1. index[r][i] \subseteq Artifacts(i)' /\ Artifacts(i) \subseteq Artifacts(i)'
  BY OutboxGrows DEF IndexIsCommitted, Artifacts
<1>2. ASSUME Untouched(r, i) \/ CatchUpStartsOrEnds(r, i) \/ MemoryLost(r, i)
      PROVE  index'[r][i] \subseteq Artifacts(i)'
  BY <1>1, <1>2 DEF Untouched, CatchUpStartsOrEnds, MemoryLost
<1>3. ASSUME IndexStep(r, i)
      PROVE  index'[r][i] \subseteq Artifacts(i)'
  <2>1. CASE LoadIndex(r, i)
    BY <1>1, <2>1 DEF LoadIndex, TypeOK, ProcessTypeOK
  <2>2. CASE ApplyEvent(r, i)
    <3>1. PICK e \in batch[r][i] : index' = [index EXCEPT ![r][i] = AddArtifact(@, i, e)]
      BY <2>2 DEF ApplyEvent
    <3>2. e \in outbox
      BY <2>2 DEF ApplyEvent, CatchUpAheadOfCheckpoint, AheadOfCheckpoint
    <3> QED
      BY <1>1, <3>1, <3>2 DEF AddArtifact, Artifacts, TypeOK, ProcessTypeOK
  <2>3. CASE UNCHANGED index
    BY <1>1, <2>3
  <2> QED
    BY <1>3, <2>1, <2>2, <2>3
    DEF IndexStep, ReadCheckpoint, LoadBatch, LoadNothing, ApplyEventFails, UpdateCheckpoint,
        DatabaseFails, procVars
<1>4. ASSUME NEW w \in Writers, WriterStep(w)
      PROVE  index'[r][i] \subseteq Artifacts(i)'
  <2>1. CASE ApplyBlock(w)
    <3>0. ASSUME NEW j PROVE (IF j \in txn[w].arts THEN {txn[w]} ELSE Artifacts(j)) \subseteq outbox
      BY <2>1 DEF ApplyBlock, ApplyBlockAfterCommit, Artifacts
    <3>1. PICK j \in left[w], e \in outbox :
            index' = [index EXCEPT ![HomeOf[w]][j] = AddArtifact(@, j, e)]
      BY <2>1, <3>0, Zenon DEF ApplyBlock
    <3>2. e \in outbox'
      BY OutboxGrows
    <3> QED
      BY <1>1, <3>1, <3>2 DEF AddArtifact, Artifacts, TypeOK, ProcessTypeOK
  <2>2. CASE UNCHANGED index
    BY <1>1, <2>2
  <2> QED
    BY <1>4, <2>1, <2>2
    DEF WriterStep, BeginBan, SaveBan, SaveNothing, CommitBan, CommitAnswerLost, RollBackBan, BlockReturns,
        Publish, procVars
<1>5. CASE UNCHANGED vars
  BY <1>1, <1>5 DEF vars, procVars
<1> QED
  BY <1>2, <1>3, <1>4, <1>5, IndexStepElsewhere, ProcessStepEffect DEF Next

LEMMA StaleStep ==
  ASSUME SyncInvariant, [Next]_vars
  PROVE  StaleHasPendingEvent'
<1> SUFFICES ASSUME NEW r \in Replicas, NEW i \in Indexes, stale'[r][i]
             PROVE  \E e \in outbox' : After(e, ckpt'[r][i])
  BY DEF StaleHasPendingEvent
<1> USE DEF SyncInvariant, TypeOK, CheckpointTypeOK
<1>1. ckpt'[r][i] = ckpt[r][i] /\ stale[r][i] => \E e \in outbox' : After(e, ckpt'[r][i])
  BY OutboxGrows DEF StaleHasPendingEvent
<1>2. ASSUME IndexStep(r, i)
      PROVE  \E e \in outbox' : After(e, ckpt'[r][i])
  <2>1. CASE ApplyEventFails(r, i)
    <3>1. \E e \in outbox' : After(e, ckpt[r][i])
      BY <2>1, OutboxGrows
      DEF ApplyEventFails, CatchUpAheadOfCheckpoint, AheadOfCheckpoint
    <3> QED
      BY <2>1, <3>1 DEF ApplyEventFails
  <2>2. CASE UpdateCheckpoint(r, i)
    <3>1. ~After(ckpt[r][i], horizon[r][i])
      BY <2>2 DEF UpdateCheckpoint, CatchUpAheadOfCheckpoint, AheadOfCheckpoint
    <3>2. stale' = [stale EXCEPT ![r][i] = FALSE]
      BY <2>2, <3>1 DEF UpdateCheckpoint
    <3> QED
      BY <3>2
  <2>3. CASE UNCHANGED ckptVars
    BY <1>1, <2>3 DEF ckptVars
  <2> QED
    BY <1>2, <2>1, <2>2, <2>3
    DEF IndexStep, LoadIndex, ReadCheckpoint, LoadBatch, LoadNothing, ApplyEvent, DatabaseFails
<1>3. ASSUME Untouched(r, i)
      PROVE  \E e \in outbox' : After(e, ckpt'[r][i])
  BY <1>1, <1>3 DEF Untouched
<1>4. CASE UNCHANGED ckptVars
  BY <1>1, <1>4 DEF ckptVars
<1> QED
  BY <1>2, <1>3, <1>4, IndexStepElsewhere, ProcessStepFrame, WriterStepFrame DEF Next, vars

\* What is in the index up to the checkpoint follows from what is in it, or
\* in the batch, up to what the reader has read.
LEMMA CoveredUpToCheckpoint ==
  ASSUME TypeOK, NEW r \in Replicas, NEW i \in Indexes, AheadOfCheckpoint(r, i),
         Covered(r, i), i \in loaded[r], NEW e \in Artifacts(i), ~After(e, ckpt[r][i])
  PROVE  e \in index[r][i] \/ <<r, i, e>> \in late
<1>1. e \in Event /\ ckpt[r][i] \in Position /\ horizon[r][i] \in Position
  BY DEF TypeOK, DbTypeOK, CheckpointTypeOK, SyncTypeOK, Artifacts
<1>2. CASE sync[r][i] \in {"apply", "update"}
  <2>1. ~After(e, horizon[r][i])
    BY <1>1, <1>2 DEF AheadOfCheckpoint, After, Event, Position
  <2> QED
    BY <1>2, <2>1 DEF Covered, ReadUpTo, AheadOfCheckpoint
<1>3. CASE sync[r][i] \notin {"apply", "update"}
  BY <1>3 DEF Covered, ReadUpTo
<1> QED
  BY <1>2, <1>3

LEMMA CoveredStep ==
  ASSUME SyncInvariant, [Next]_vars
  PROVE  ReadIsAppliedOrInBatch'
<1> SUFFICES ASSUME NEW r \in Replicas, NEW i \in Indexes
             PROVE  Covered(r, i)'
  BY DEF ReadIsAppliedOrInBatch
<1>1. TypeOK /\ Covered(r, i) /\ AheadOfCheckpoint(r, i)
  BY DEF SyncInvariant, ReadIsAppliedOrInBatch, CatchUpAheadOfCheckpoint
<1>2. \A e \in outbox : e \in Event
  BY <1>1 DEF TypeOK, DbTypeOK
\* A step after which the reader has read up to the checkpoint only.
<1>3. ASSUME UNCHANGED dbVars, i \in loaded'[r] => i \in loaded[r],
             index'[r][i] = index[r][i], ckpt'[r][i] = ckpt[r][i],
             \A e \in Event : <<r, i, e>> \in late' <=> <<r, i, e>> \in late,
             sync'[r][i] \notin {"apply", "update"}
      PROVE  Covered(r, i)'
  <2> SUFFICES ASSUME i \in loaded'[r], NEW e \in Artifacts(i)', ~After(e, ReadUpTo(r, i)')
               PROVE  e \in index'[r][i] \/ <<r, i, e>> \in late'
    BY DEF Covered
  <2>1. ReadUpTo(r, i)' = ckpt[r][i] /\ e \in Artifacts(i) /\ e \in Event
    BY <1>2, <1>3 DEF ReadUpTo, Artifacts, dbVars
  <2>2. e \in index[r][i] \/ <<r, i, e>> \in late
    BY <1>1, <1>3, <2>1, CoveredUpToCheckpoint
  <2> QED
    BY <1>3, <2>1, <2>2
<1>4. ASSUME Untouched(r, i), UNCHANGED dbVars
      PROVE  Covered(r, i)'
  BY <1>1, <1>2, <1>4 DEF Untouched, Covered, ReadUpTo, Artifacts, dbVars
<1>5. ASSUME MemoryLost(r, i)
      PROVE  Covered(r, i)'
  BY <1>5 DEF MemoryLost, Covered
<1>6. ASSUME NEW q \in Replicas, ProcessStep(q)
      PROVE  Covered(r, i)'
  <2>1. CASE CatchUpStartsOrEnds(r, i)
    BY <1>3, <1>6, <2>1, ProcessStepFrame DEF CatchUpStartsOrEnds, ckptVars
  <2> QED
    BY <1>1, <1>4, <1>5, <1>6, <2>1, ProcessStepEffect, ProcessStepFrame
<1>7. ASSUME IndexStep(r, i)
      PROVE  Covered(r, i)'
  <2> USE DEF TypeOK, ProcessTypeOK, CheckpointTypeOK, SyncTypeOK
  <2>1. UNCHANGED dbVars /\ late' = late
    BY <1>7, IndexStepFrame
  <2>2. CASE LoadIndex(r, i)
    <3>1. index'[r][i] = Artifacts(i)
      BY <1>1, <2>2 DEF LoadIndex
    <3>2. Artifacts(i)' = Artifacts(i)
      BY <2>1 DEF Artifacts, dbVars
    <3> QED
      BY <3>1, <3>2 DEF Covered
  <2>3. CASE ReadCheckpoint(r, i)
    BY <1>1, <1>3, <2>1, <2>3 DEF ReadCheckpoint, ckptVars, procVars
  <2>4. CASE LoadNothing(r, i) \/ DatabaseFails(r, i) \/ ApplyEventFails(r, i)
    <3>1. sync'[r][i] \in {"ok", "failed"} /\ UNCHANGED <<ckpt, procVars>>
      BY <1>1, <2>4 DEF LoadNothing, DatabaseFails, ApplyEventFails, Return, ckptVars
    <3> QED
      BY <1>3, <2>1, <3>1 DEF procVars
  <2>5. CASE LoadBatch(r, i)
    <3> DEFINE rows == LoadAfter(last[r][i])
    <3>1. PICK newest \in rows :
            /\ batch' = [batch EXCEPT ![r][i] = rows]
            /\ horizon' = [horizon EXCEPT ![r][i] = PositionOf(newest)]
      BY <2>5 DEF LoadBatch
    <3>2. /\ UNCHANGED <<ckpt, procVars>> /\ sync' = [sync EXCEPT ![r][i] = "apply"]
          /\ last[r][i] = ckpt[r][i]
      BY <1>1, <2>5 DEF LoadBatch, AheadOfCheckpoint, ckptVars
    <3> SUFFICES ASSUME i \in loaded[r], NEW e \in Artifacts(i),
                        ~After(e, PositionOf(newest))
                 PROVE  e \in index[r][i] \/ <<r, i, e>> \in late \/ e \in rows
      BY <1>1, <2>1, <3>1, <3>2 DEF Covered, ReadUpTo, Artifacts, dbVars, procVars
    <3>3. CASE ~After(e, ckpt[r][i])
      BY <1>1, <3>3, CoveredUpToCheckpoint
    <3>4. CASE After(e, ckpt[r][i])
      <4>1. newest \in Event /\ e \in outbox /\ e \in Event /\ last[r][i] \in Position
        BY <1>1, <1>2, <3>1 DEF LoadAfter, FirstRows, RowsAfter, Artifacts
      <4>2. ~After(e, newest)
        BY <4>1, PositionOrdersLikeEvent DEF Event
      <4>3. BatchSize \in Nat /\ outbox \subseteq Event /\ IsFiniteSet(outbox)
        BY <1>1, ConstantsAssumption DEF DbTypeOK
      <4> QED
        BY <3>2, <3>4, <4>1, <4>2, <4>3, BatchHasNoHoles
    <3> QED
      BY <3>3, <3>4
  <2>6. CASE ApplyEvent(r, i)
    <3>1. PICK e \in batch[r][i] :
            /\ index' = [index EXCEPT ![r][i] = AddArtifact(@, i, e)]
            /\ batch' = [batch EXCEPT ![r][i] = @ \ {e}]
            /\ sync' = [sync EXCEPT ![r][i] = IF batch[r][i] = {e} THEN "update" ELSE "apply"]
      BY <2>6 DEF ApplyEvent
    <3>2. UNCHANGED <<ckpt, horizon, loaded>> /\ sync[r][i] = "apply"
      BY <2>6 DEF ApplyEvent, ckptVars
    <3> SUFFICES ASSUME i \in loaded[r], NEW f \in Artifacts(i), ~After(f, horizon[r][i])
                 PROVE  \/ f \in index'[r][i] \/ <<r, i, f>> \in late
                        \/ sync'[r][i] = "apply" /\ f \in batch'[r][i]
      BY <1>1, <2>1, <3>1, <3>2 DEF Covered, ReadUpTo, Artifacts, dbVars
    <3>3. f \in index[r][i] \/ <<r, i, f>> \in late \/ f \in batch[r][i]
      BY <1>1, <3>2 DEF Covered, ReadUpTo
    <3>4. index'[r][i] = AddArtifact(index[r][i], i, e) /\ i \in f.arts
      BY <1>1, <3>1 DEF Artifacts
    <3>5. CASE f = e
      BY <3>4, <3>5 DEF AddArtifact
    <3>6. CASE f # e
      BY <1>1, <3>1, <3>3, <3>4, <3>6 DEF AddArtifact
    <3> QED
      BY <3>5, <3>6
  <2>7. CASE UpdateCheckpoint(r, i)
    <3>1. /\ sync[r][i] = "update" /\ UNCHANGED procVars
          /\ ckpt' = [ckpt EXCEPT ![r][i] = horizon[r][i]]
      BY <1>1, <2>7 DEF UpdateCheckpoint, AheadOfCheckpoint
    <3>2. sync'[r][i] \in {"load", "ok"}
      BY <1>1, <2>7 DEF UpdateCheckpoint, Return
    <3>3. ReadUpTo(r, i)' = horizon[r][i] /\ ReadUpTo(r, i) = horizon[r][i]
      BY <1>1, <3>1, <3>2 DEF ReadUpTo
    <3> QED
      BY <1>1, <2>1, <3>1, <3>3 DEF Covered, Artifacts, procVars, dbVars
  <2> QED
    BY <1>7, <2>2, <2>3, <2>4, <2>5, <2>6, <2>7 DEF IndexStep
<1>8. ASSUME NEW w \in Writers, WriterStep(w)
      PROVE  Covered(r, i)'
  <2>1. UNCHANGED <<loaded, ckptVars, syncVars>> /\ late \subseteq late'
    BY <1>8, WriterStepFrame
  <2>2. index[r][i] \subseteq index'[r][i]
    <3>1. CASE ApplyBlock(w)
      BY <1>1, <3>1 DEF ApplyBlock, AddArtifact, TypeOK, ProcessTypeOK
    <3>2. CASE UNCHANGED index
      BY <3>2
    <3> QED
      BY <1>8, <3>1, <3>2
      DEF WriterStep, BeginBan, SaveBan, SaveNothing, CommitBan, CommitAnswerLost, RollBackBan,
          BlockReturns, Publish, procVars
  <2>3. CASE UNCHANGED outbox
    BY <1>1, <2>1, <2>2, <2>3 DEF Covered, ReadUpTo, Artifacts, ckptVars, syncVars
  <2>4. CASE Publish(w)
    <3> SUFFICES ASSUME i \in loaded[r], NEW e \in Artifacts(i)', ~After(e, ReadUpTo(r, i))
                 PROVE  \/ e \in index'[r][i] \/ <<r, i, e>> \in late'
                        \/ sync[r][i] = "apply" /\ e \in batch[r][i]
      BY <2>1 DEF Covered, ReadUpTo, ckptVars, syncVars
    <3>1. CASE e \in outbox
      BY <1>1, <2>1, <2>2, <3>1 DEF Covered, Artifacts
    <3>2. CASE e = txn[w]
      <4>1. <<r, i>> \in OvertakenBy(w)
        BY <3>2 DEF OvertakenBy, Artifacts
      <4> QED
        BY <2>4, <3>2, <4>1 DEF Publish
    <3> QED
      BY <2>4, <3>1, <3>2 DEF Publish, Artifacts
  <2> QED
    BY <1>8, <2>3, <2>4
    DEF WriterStep, BeginBan, SaveBan, SaveNothing, CommitBan, CommitAnswerLost, RollBackBan, ApplyBlock,
        BlockReturns, dbVars
<1>9. CASE UNCHANGED vars
  BY <1>1, <1>9 DEF vars, dbVars, procVars, ckptVars, syncVars, Covered, ReadUpTo, Artifacts
<1>10. ASSUME NEW q \in Replicas, NEW j \in Indexes, IndexStep(q, j)
       PROVE  Covered(r, i)'
  BY <1>1, <1>4, <1>7, <1>10, IndexStepElsewhere, IndexStepFrame
<1> QED
  BY <1>6, <1>8, <1>9, <1>10 DEF Next

-----------------------------------------------------------------------------
(* The theorems.                                                           *)

\* The invariant holds in every reachable state.
THEOREM SyncInvariantCorrect == Spec => []SyncInvariant
<1>1. Init => SyncInvariant
  <2> SUFFICES ASSUME Init
               PROVE  SyncInvariant
    OBVIOUS
  <2>1. TypeOK
    BY TypeInit
  <2>2. ApplyBlockAfterCommit
    BY DEF Init, ApplyBlockAfterCommit
  <2>3. CatchUpAheadOfCheckpoint
    BY DEF Init, CatchUpAheadOfCheckpoint, AheadOfCheckpoint
  <2>4. IndexIsCommitted /\ ReadIsAppliedOrInBatch /\ StaleHasPendingEvent
    BY DEF Init, IndexIsCommitted, ReadIsAppliedOrInBatch, Covered, Artifacts,
           StaleHasPendingEvent
  <2> QED
    BY <2>1, <2>2, <2>3, <2>4 DEF SyncInvariant
<1>2. SyncInvariant /\ [Next]_vars => SyncInvariant'
  BY TypeStep, ApplyBlockAfterCommitStep, AheadStep, IndexIsCommittedStep, CoveredStep,
     StaleStep DEF SyncInvariant
<1> QED
  BY <1>1, <1>2, PTL DEF Spec

\* A checkpoint never stands past a ban its index does not hold, except a ban
\* that committed behind the reader: failed batches, lost commit answers,
\* crashes and restarts skip nothing, whatever the batch size.
THEOREM CheckpointSkipsNothing == Spec => []AppliedUpToCheckpoint
<1>1. SyncInvariant => AppliedUpToCheckpoint
  <2> SUFFICES ASSUME SyncInvariant, NEW r \in Replicas, NEW i \in loaded[r],
                      NEW e \in Artifacts(i), ~After(e, ckpt[r][i])
               PROVE  e \in index[r][i] \/ <<r, i, e>> \in late
    BY DEF AppliedUpToCheckpoint
  <2>1. i \in Indexes
    BY DEF SyncInvariant, TypeOK, ProcessTypeOK
  <2> QED
    BY <2>1, CoveredUpToCheckpoint
    DEF SyncInvariant, CatchUpAheadOfCheckpoint, ReadIsAppliedOrInBatch
<1> QED
  BY <1>1, SyncInvariantCorrect, PTL

\* No process matches against a ban whose transaction did not commit.
THEOREM OnlyCommittedBans == Spec => []IndexIsCommitted
  BY SyncInvariantCorrect, PTL DEF SyncInvariant

\* A stale flag always has a row after the checkpoint that can clear it.
THEOREM StaleCanClear == Spec => []StaleHasPendingEvent
  BY SyncInvariantCorrect, PTL DEF SyncInvariant

-----------------------------------------------------------------------------
(* What the reader needs to skip nothing at all: ban transactions that do  *)
(* not overlap.  Shown for an installation with one worker;                *)
(* MCIndexSyncOvertaken.cfg shows what two of them can do.                 *)

\* Checkpoints and batches never run ahead of the transaction ids in use.
LEMMA ReadersBehind ==
  ASSUME TypeOK, NEW bound \in Nat, \A e \in outbox : e.xid < bound, 0 < bound,
         \A r \in Replicas, i \in Indexes : ckpt[r][i].xid < bound /\ horizon[r][i].xid < bound,
         \/ \E r \in Replicas : ProcessStep(r)
         \/ \E r \in Replicas, i \in Indexes : IndexStep(r, i)
  PROVE  \A r \in Replicas, i \in Indexes :
           ckpt'[r][i].xid < bound /\ horizon'[r][i].xid < bound
<1> USE DEF TypeOK, CheckpointTypeOK, SyncTypeOK
<1>1. Zero.xid < bound
  BY DEF Zero
<1>2. ASSUME NEW q \in Replicas, ProcessStep(q)
      PROVE  \A r \in Replicas, i \in Indexes :
               ckpt'[r][i].xid < bound /\ horizon'[r][i].xid < bound
  <2>1. ckpt' = ckpt
    BY <1>2, ProcessStepFrame DEF ckptVars
  <2>2. CASE UNCHANGED horizon
    BY <2>1, <2>2
  <2>3. CASE ProcessGone(q)
    BY <1>1, <2>1, <2>3 DEF ProcessGone
  <2> QED
    BY <1>2, <2>2, <2>3
    DEF ProcessStep, StartProcess, StartBootstrap, CatchUpAllIndexes, CatchUpReturns, Crash,
        SubscriberExits, syncVars
<1>3. ASSUME NEW q \in Replicas, NEW j \in Indexes, IndexStep(q, j)
      PROVE  \A r \in Replicas, i \in Indexes :
               ckpt'[r][i].xid < bound /\ horizon'[r][i].xid < bound
  <2>1. \A r \in Replicas, i \in Indexes : r # q \/ i # j =>
          ckpt'[r][i].xid < bound /\ horizon'[r][i].xid < bound
    BY <1>3, IndexStepElsewhere DEF Untouched
  <2>2. ckpt'[q][j].xid < bound
    <3>1. CASE UpdateCheckpoint(q, j)
      BY <3>1 DEF UpdateCheckpoint
    <3>2. CASE UNCHANGED ckpt
      BY <3>2, Zenon
    <3> QED
      BY <1>3, <3>1, <3>2
      DEF IndexStep, LoadIndex, ReadCheckpoint, LoadBatch, LoadNothing, ApplyEvent,
          ApplyEventFails, DatabaseFails, ckptVars
  <2>3. horizon'[q][j].xid < bound
    <3>1. CASE LoadBatch(q, j)
      <4>1. PICK newest \in LoadAfter(last[q][j]) :
              horizon' = [horizon EXCEPT ![q][j] = PositionOf(newest)]
        BY <3>1 DEF LoadBatch
      <4>2. newest \in outbox /\ PositionOf(newest).xid = newest.xid
        BY DEF LoadAfter, FirstRows, RowsAfter, PositionOf
      <4> QED
        BY <4>1, <4>2
    <3>2. CASE UNCHANGED horizon
      BY <3>2
    <3>3. CASE horizon' = [horizon EXCEPT ![q][j] = Zero]
      BY <1>1, <3>3
    <3> QED
      BY <1>3, <3>1, <3>2, <3>3, ZenonT(30)
      DEF IndexStep, LoadIndex, ReadCheckpoint, LoadNothing, ApplyEvent, ApplyEventFails,
          UpdateCheckpoint, DatabaseFails, Return, syncVars
  <2> QED
    BY <2>1, <2>2, <2>3
<1> QED
  BY <1>2, <1>3

LEMMA NeverOvertakenStep ==
  ASSUME \A v, w \in Writers : v = w, TypeOK, NeverOvertaken, [Next]_vars
  PROVE  NeverOvertaken'
<1>1. nextXid \in Nat /\ 0 < nextXid
  BY ConstantsAssumption DEF TypeOK, DbTypeOK
<1>2. CASE (\E r \in Replicas : ProcessStep(r)) \/ (\E r \in Replicas, i \in Indexes : IndexStep(r, i))
  <2>1. UNCHANGED dbVars /\ late' \subseteq late
    BY <1>2, ProcessStepFrame, IndexStepFrame
    DEF ProcessStep, StartProcess, StartBootstrap, CatchUpAllIndexes, CatchUpReturns, Crash,
        SubscriberExits, ProcessGone
  <2>2. \A r \in Replicas, i \in Indexes :
          ckpt'[r][i].xid < nextXid /\ horizon'[r][i].xid < nextXid
    BY <1>1, <1>2, ReadersBehind DEF NeverOvertaken
  <2>3. ASSUME NEW w \in Writers, wpc'[w] \in {"open", "saved"}
        PROVE  wpc[w] \in {"open", "saved"} /\ txn'[w] = txn[w]
    <3>1. CASE UNCHANGED writerVars
      BY <2>3, <3>1 DEF writerVars
    <3>2. CASE \E r \in Replicas : ProcessGone(r)
      BY <2>3, <3>2 DEF ProcessGone
    <3> QED
      BY <1>2, <3>1, <3>2, ProcessStepFrame, IndexStepFrame
  <2>4. ASSUME NEW w \in Writers, wpc'[w] \in {"open", "saved"}
        PROVE  \A r \in Replicas, i \in Indexes :
                 ckpt'[r][i].xid < txn[w].xid /\ horizon'[r][i].xid < txn[w].xid
    <3>1. wpc[w] \in {"open", "saved"} /\ txn[w].xid \in Nat
      BY <2>3, <2>4 DEF TypeOK, WriterTypeOK, Event
    <3>2. CASE txn[w].xid = 0
      BY <1>2, <3>1, <3>2 DEF NeverOvertaken, TypeOK, CheckpointTypeOK, Position
    <3>3. CASE 0 < txn[w].xid
      BY <1>2, <3>1, <3>3, ReadersBehind DEF NeverOvertaken
    <3> QED
      BY <3>1, <3>2, <3>3
  <2> QED
    BY <2>1, <2>2, <2>3, <2>4 DEF NeverOvertaken, dbVars
<1>3. ASSUME NEW w \in Writers, WriterStep(w)
      PROVE  NeverOvertaken'
  <2>1. \A v \in Writers : v = w
    OBVIOUS
  <2>2. UNCHANGED <<ckpt, horizon>>
    BY <1>3, WriterStepFrame DEF ckptVars, syncVars
  <2> USE DEF TypeOK, DbTypeOK, WriterTypeOK
  <2>3. CASE BeginBan(w)
    <3>1. /\ nextXid' = nextXid + 1 /\ UNCHANGED <<outbox, late>>
          /\ txn'[w].xid = nextXid
      BY <2>3 DEF BeginBan, NoEvent
    <3> QED
      BY <1>1, <2>1, <2>2, <3>1 DEF NeverOvertaken, Event, CheckpointTypeOK, SyncTypeOK, Position
  <2>4. CASE SaveBan(w)
    <3>1. /\ UNCHANGED <<nextXid, outbox, late>> /\ wpc[w] = "open"
          /\ txn'[w].xid = txn[w].xid
      BY <2>4 DEF SaveBan
    <3> QED
      BY <2>1, <2>2, <3>1 DEF NeverOvertaken
  <2>5. CASE Publish(w) /\ wpc[w] = "saved" /\ wpc'[w] \notin {"open", "saved"}
    <3>1. OvertakenBy(w) = {}
      <4>1. \A r \in Replicas, i \in Indexes : ReadUpTo(r, i).xid < txn[w].xid
        BY <2>5 DEF NeverOvertaken, ReadUpTo
      <4>2. \A r \in Replicas, i \in Indexes : After(txn[w], ReadUpTo(r, i))
        BY <4>1 DEF After
      <4> QED
        BY <4>2 DEF OvertakenBy
    <3> QED
      BY <2>1, <2>2, <2>5, <3>1 DEF NeverOvertaken, Publish
  <2>6. CASE UNCHANGED <<nextXid, outbox, late>> /\ wpc'[w] \notin {"open", "saved"}
    BY <2>1, <2>2, <2>6 DEF NeverOvertaken
  <2> QED
    BY <1>3, <2>3, <2>4, <2>5, <2>6
    DEF WriterStep, SaveNothing, CommitBan, CommitAnswerLost, RollBackBan, ApplyBlock, BlockReturns, dbVars
<1>4. CASE UNCHANGED vars
  BY <1>4 DEF vars, dbVars, writerVars, ckptVars, syncVars, NeverOvertaken
<1> QED
  BY <1>2, <1>3, <1>4 DEF Next

\* With one worker no row ever commits behind a reader.
THEOREM OneWorkerNeverOvertaken ==
  ASSUME \A v, w \in Writers : v = w
  PROVE  Spec => []NeverOvertaken
<1>1. Init => NeverOvertaken
  BY DEF Init, NeverOvertaken, Zero
<1>2. TypeOK /\ NeverOvertaken /\ [Next]_vars => NeverOvertaken'
  BY NeverOvertakenStep
<1> QED
  BY <1>1, <1>2, TypeCorrect, PTL DEF Spec

\* With one worker the promise of docs/tests.md holds to the letter: every
\* event up to the checkpoint has been applied.
THEOREM OneWorkerSkipsNothing ==
  ASSUME \A v, w \in Writers : v = w
  PROVE  Spec => []NothingSkipped
<1>1. AppliedUpToCheckpoint /\ NeverOvertaken => NothingSkipped
  BY DEF AppliedUpToCheckpoint, NeverOvertaken, NothingSkipped
<1> QED
  BY <1>1, OneWorkerNeverOvertaken, CheckpointSkipsNothing, PTL

-----------------------------------------------------------------------------
(* IndexSync implements ReplicatedBlacklist: every step of a worker, a     *)
(* process or a catch-up is a step of the abstract blacklist, or leaves    *)
(* the bans and the indexes alone.                                         *)

\* The initial states agree.
LEMMA RefinementInit == Init => Blacklist!Init
  BY DEF Init, Blacklist!Init

\* The end of a process is a restart of the replica.
LEMMA ProcessGoneRefines ==
  ASSUME NEW r \in Replicas, ProcessGone(r)
  PROVE  Blacklist!Next
  BY DEF ProcessGone, dbVars, Blacklist!Next, Blacklist!Restart

LEMMA RefinementStep ==
  ASSUME SyncInvariant, [Next]_vars
  PROVE  [Blacklist!Next]_<<outbox, index>>
<1> USE DEF SyncInvariant, TypeOK, ProcessTypeOK
<1>1. ASSUME NEW w \in Writers, WriterStep(w)
      PROVE  [Blacklist!Next]_<<outbox, index>>
  <2>1. CASE Publish(w)
    <3>1. txn[w] \in Event /\ txn[w] \in outbox' /\ outbox' = outbox \cup {txn[w]}
          /\ index' = index
      BY <2>1 DEF Publish, WriterTypeOK, procVars
    <3> QED
      BY <3>1 DEF Blacklist!Next, Blacklist!Commit
  <2>2. CASE ApplyBlock(w)
    <3>0. ASSUME NEW i PROVE (IF i \in txn[w].arts THEN {txn[w]} ELSE Artifacts(i)) \subseteq outbox
      BY <2>2 DEF ApplyBlock, ApplyBlockAfterCommit, Artifacts
    <3>1. PICK i \in left[w], e \in outbox :
            index' = [index EXCEPT ![HomeOf[w]][i] = AddArtifact(@, i, e)]
      BY <2>2, <3>0, Zenon DEF ApplyBlock
    <3>2. outbox' = outbox /\ i \in Indexes
      BY <2>2 DEF ApplyBlock, WriterTypeOK, dbVars
    <3>3. CASE HomeOf[w] \in Replicas /\ i \in e.arts
      <4>1. index' = [index EXCEPT ![HomeOf[w]][i] = @ \cup {e}]
        BY <3>1, <3>3 DEF AddArtifact
      <4>2. {e} \in SUBSET {b \in outbox : i \in IndexesOf(b)}
        BY <3>3 DEF IndexesOf
      <4> QED
        BY <3>2, <3>3, <4>1, <4>2 DEF Blacklist!Next, Blacklist!Enforce
    <3>4. CASE HomeOf[w] \notin Replicas \/ i \notin e.arts
      <4>1. index' = index
        BY <3>1, <3>4 DEF AddArtifact
      <4> QED
        BY <3>2, <4>1
    <3> QED
      BY <3>3, <3>4
  <2>3. CASE UNCHANGED <<outbox, index>>
    BY <2>3
  <2> QED
    BY <1>1, <2>1, <2>2, <2>3
    DEF WriterStep, BeginBan, SaveBan, SaveNothing, CommitBan, CommitAnswerLost, RollBackBan, BlockReturns,
        dbVars, procVars
<1>2. ASSUME NEW r \in Replicas, ProcessStep(r)
      PROVE  [Blacklist!Next]_<<outbox, index>>
  BY <1>2, ProcessGoneRefines
  DEF ProcessStep, StartProcess, StartBootstrap, CatchUpAllIndexes, CatchUpReturns, Crash,
      SubscriberExits, dbVars, procVars
<1>3. ASSUME NEW r \in Replicas, NEW i \in Indexes, IndexStep(r, i)
      PROVE  [Blacklist!Next]_<<outbox, index>>
  <2>1. outbox' = outbox
    BY <1>3, IndexStepFrame DEF dbVars
  <2>2. ASSUME NEW added \in SUBSET Artifacts(i),
               index' = [index EXCEPT ![r][i] = @ \cup added]
        PROVE  Blacklist!Next
    <3>1. added \in SUBSET {b \in outbox : i \in IndexesOf(b)}
      BY DEF Artifacts, IndexesOf
    <3> QED
      BY <2>1, <2>2, <3>1 DEF Blacklist!Next, Blacklist!Enforce
  <2>3. CASE LoadIndex(r, i)
    <3>1. index[r][i] \cup Artifacts(i) = Artifacts(i)
      BY DEF IndexIsCommitted
    <3>2. index' = [index EXCEPT ![r][i] = @ \cup Artifacts(i)]
      BY <2>3, <3>1 DEF LoadIndex
    <3> QED
      BY <2>2, <3>2
  <2>4. CASE ApplyEvent(r, i)
    <3>1. PICK e \in batch[r][i] : index' = [index EXCEPT ![r][i] = AddArtifact(@, i, e)]
      BY <2>4 DEF ApplyEvent
    <3>2. e \in outbox
      BY <2>4 DEF ApplyEvent, CatchUpAheadOfCheckpoint, AheadOfCheckpoint
    <3>3. CASE i \in e.arts
      <4>1. {e} \in SUBSET Artifacts(i)
        BY <3>2, <3>3 DEF Artifacts
      <4>2. index' = [index EXCEPT ![r][i] = @ \cup {e}]
        BY <3>1, <3>3 DEF AddArtifact
      <4> QED
        BY <2>2, <4>1, <4>2
    <3>4. CASE i \notin e.arts
      <4>1. index' = index
        BY <3>1, <3>4 DEF AddArtifact
      <4> QED
        BY <2>1, <4>1
    <3> QED
      BY <3>3, <3>4
  <2>5. CASE UNCHANGED index
    BY <2>1, <2>5
  <2> QED
    BY <1>3, <2>3, <2>4, <2>5
    DEF IndexStep, ReadCheckpoint, LoadBatch, LoadNothing, ApplyEventFails, UpdateCheckpoint,
        DatabaseFails, procVars
<1>4. CASE UNCHANGED vars
  BY <1>4 DEF vars, dbVars, procVars
<1> QED
  BY <1>1, <1>2, <1>3, <1>4 DEF Next

\* Bans are durable, an index holds only committed bans, and it drops one
\* only when its process goes away.
THEOREM SynchronisationImplementsBlacklist == Spec => ImplementsBlacklist
<1>1. SyncInvariant /\ [Next]_vars => [Blacklist!Next]_(Blacklist!vars)
  BY RefinementStep DEF Blacklist!vars
<1> QED
  BY <1>1, RefinementInit, SyncInvariantCorrect, PTL
  DEF Spec, ImplementsBlacklist, Blacklist!Spec

\* What the promise amounts to is proved of every implementation at once.
Promise == INSTANCE ReplicatedBlacklistProofs
  WITH Ban <- Event, Replica <- Replicas, Index <- Indexes, Covers <- IndexesOf,
       bans <- outbox, enforced <- index

LEMMA SynchronisationPromises == ImplementsBlacklist => Promise!Spec
<1>1. Blacklist!Init => Promise!Init BY DEF Blacklist!Init, Promise!Init
<1>2. [Blacklist!Next]_(Blacklist!vars) => [Promise!Next]_(Promise!vars)
  BY DEF Blacklist!vars, Promise!vars, Blacklist!Next, Promise!Next, Blacklist!Commit, Promise!Commit,
         Blacklist!Enforce, Promise!Enforce, Blacklist!Restart, Promise!Restart
<1> QED BY <1>1, <1>2, PTL DEF ImplementsBlacklist, Blacklist!Spec, Promise!Spec

\* Whatever Block, catch-ups, failed batches and restarts do to the indexes
\* of a replica at once: no index ever loses a single ban, only all of them
\* together with its process.
ForgetsOnlyWithProcess ==
  \A r \in Replicas, i \in Indexes :
    index[r][i] \subseteq index'[r][i] \/ index'[r] = [j \in Indexes |-> {}]
THEOREM NoBanIsForgotten == Spec => [][ForgetsOnlyWithProcess]_vars
<1>1. [Promise!ForgetsOnlyAsAWhole]_(Promise!vars) => [ForgetsOnlyWithProcess]_vars
  BY DEF Promise!ForgetsOnlyAsAWhole, Promise!vars, ForgetsOnlyWithProcess
<1> QED
  BY <1>1, SynchronisationImplementsBlacklist, SynchronisationPromises, Promise!NoBanForgotten, PTL

=============================================================================
