# A verification model of bastyle_blacklist

The repository is a Telegram moderation bot: an administrator answers a picture
or an animation with `/ban`, and from then on every replica of the bot deletes
whatever looks the same. This directory holds TLA+ models of its core, the TLC
runs that check them on small instances, and TLAPS proofs of the most important
results for every value of the constants. Paths below are relative to `src/`;
`bot/` stands for `services/bot/`, `ai/` for
`services/aimatcher/ai_vector_service/`.

Contents: 1 the system, 2 the modules, 3 the runs, 4 fairness, 5 the proofs,
6 the disagreements found, 7 what is abstracted or left out, 8 the plan.

## 1 The system

### Components, their state and their operations

| Component | State | Operations | What makes it correct |
|---|---|---|---|
| Ban transaction (`bot/internal/adapters/matching/orchestrator`, stores, `Pool.WithTx`, outbox writer; `ai/storage.py`) | tables `media_ban`, `blocked_exact`, `blocked_image`, `blocked_video_like`, `ai_vector_ban`, the outbox | `Block`: prepare, one transaction over all handlers, commit, `ApplyBlock`; `insert_ban_result` of the AI service | a successful ban is durable in every index that supports the media; no ban without an artifact; no deadlock among transactions; equivalent to atomic bans |
| Index synchronisation (`app/indexsync`, checkpoint store, event reader; `ai/index_events.py`) | `index_checkpoints` (position, stale), the running batch | bootstrap catch-up, catch-up on ticker or signal, `ApplyEvent`, `Update`, `MarkStale` | the checkpoint never passes an event that is not in the index; the stale flag can come down; every ban reaches every index |
| Matchers (exact, imagehash, videolike; AI-vector over HTTP) | an in-memory index each; the AI-vector matcher none | `PrepareBlock`, load at start, `ApplyBlock`, `ApplyEvent`, `IsBlocked` of the orchestrator | only committed bans, all that were applied, duplicates once per chat; a verdict rests on a similar ban of the chat; nothing recognisable slips through |
| Media path (`adapters/telegram/message.go`, `downloader.go`, `adapters/media`, media part of `config.go`) | none | convert, download, decode, cut into frames, each with a limit | which handler takes, refuses or fails on an upload |
| AI-vector service (`ai/api.py`, `index.py`, `storage.py`) | FAISS index in memory, its file, the row of `ai_vector_index_state` | `POST /ban`, `/search`, apply event, load or rebuild, save, deactivate | a vector is looked up under its own ban; a ban taken back is forgotten; events get applied although saving may be refused |
| Process life and update pipeline (`app/app.go`, `app/runtime/workers.go`, `app/bootstrap`, `cmd/main.go`) | ctx, pool, goroutines, two bounded channels, the offset at Telegram | start-up, dispatch, handle, SIGTERM, shutdown | updates are handled, or lost only with a process; the pool is closed last; shutdown ends |
| Moderation (`app/moderation/service.go`) | none of its own: the chat, and the step each worker is at | `HandleMessage`: refuse, ban, delete target, delete command, delete reposts | what is deleted is banned; the order of the effects; a message seen and banned is gone |
| RabbitMQ signals (`adapters/messaging/rabbitmq`, `app/outboxpublisher`, `app/bootstrap/messaging.go`; `ai/index_events.py`) | offset of the forwarder, a durable queue per replica | publish with confirm, bind, consume, ack, nack, tick | no signal is lost; an acknowledged one needs no further catch-up; every subscribed replica learns of every ban, both except bans that commit behind the reader |
| Readiness (`app/observability/health.go`; `IndexHealthCheck`) | none, reads the stale flags | probe | a ready process holds every ban older than itself |
| Metrics, the rest of the configuration, embedding model, Helm chart | none that a property is about | | |

### How they interact

    Telegram --updates--> poller -> dispatcher -> workers: HandleMessage
                                                     | IsBlocked        | Block
                                                     v                  v
                                          in-memory indexes <-ApplyBlock- one PostgreSQL transaction
                                                     ^                    tables + outbox event
                                                     | ApplyEvent              |
                               catch-up (ticker, signal, bootstrap) <--reads---+--> forwarder -> RabbitMQ signal
                               checkpoint row per replica and index                        (bot and AI service)

Processes share nothing but PostgreSQL, Telegram and RabbitMQ. A bot calls the
AI service over HTTP for embeddings and searches; `POST /ban` of that service is
its own way into the tables.

### What is hard about it

* Transactions of several processes write the same unique keys and get their
  event positions before they commit; readers see them in commit order.
* The in-memory index of the process that bans is updated after the commit, all
  others by catch-up; both may run at once, and a crash or a lost answer may
  come between any two steps.
* The AI service keeps a second copy of the truth in a file whose validity is
  described by a row in the database, shared by all services.
* The update pipeline consists of five kinds of goroutines and two bounded
  channels, and has to end in an orderly way at any moment.
* `HandleMessage` has several effects in a row in a chat other people use too.
* Whether a clip is recognised depends on a rounded ratio of the shorter of two
  clips, on limits that are configured apart, and on every handler before it.
* Signals are delivered at least once, and only to queues that exist by then.

PROJECT.json lists each hazard at its line with the properties aimed at it.

## 2 The modules

Every action stands for the whole of the handler or step named in the map of
PROJECT.json. Counters `Max...` are bounds of the model, named in the module and
enforced in guards, so that no state constraint interferes with liveness.

### IndexSync, and the promise it implements, ReplicatedBlacklist

State: the committed outbox rows (`outbox`), the ids PostgreSQL will hand out
(`nextXid`, `nextOffset`); per writer the step of `Block` (`wpc`), its event
(`txn`) and the indexes `ApplyBlock` has left; per replica the stage of
`app.Run` (`mode`), what is loaded, the indexes; per replica and index the
checkpoint row (`ckpt`, `stale`) and the local variables of `CatchUpIndex`
(`sync`, `last`, `batch`, `horizon`, `full`).

* `BeginBan` draws the transaction id with the first INSERT, `SaveBan` the
  offset with the INSERT into the outbox; `CommitBan` makes the row visible at
  that old position. `SaveNothing` is a ban whose artifacts all belong to others.
  `CommitAnswerLost` and `RollBackBan` are the two ways to fail; `ApplyBlock`
  updates one prepared index at a time, also those of handlers that created
  nothing.
* `StartProcess`, `LoadIndex`, `StartBootstrap`, `CatchUpAllIndexes`,
  `ReadCheckpoint`, `LoadBatch`/`LoadNothing`, `ApplyEvent`, `UpdateCheckpoint`,
  `Return`, `CatchUpReturns` follow the code statement by statement.
  `ApplyEventFails` marks the index stale, `DatabaseFails` returns without.
  `SubscriberExits` leaves a process that serves but never catches up again.
* `late` is a history variable: the events that committed behind a reader.

ReplicatedBlacklist says what this is for: bans are durable, an index enforces
committed bans only and never drops one while its process lives. `INSTANCE ...
WITH bans <- outbox, enforced <- index`. Four more modules implement the same
promise, each at its own grain: IndexSignals (a ban is an event, an index holds
what it has loaded and read since), Moderation (one process and its handlers), AIVectorIndex (the rows
committed in the tables, an index in memory is held or not), and MediaMatching
once for each matcher (`Table(h)`: the table and the index of `h`, artifacts in
the place of bans).

### BanTransaction, and AtomicBlacklist

State: committed `bans`, `rows`, `events`; per client (a bot worker or a request
thread of the AI service) the step, the content, the tables still to do, the row
it is inserting, the snapshot of keys its INSERT started with (`seen`), and its
uncommitted rows (`own`). PostgreSQL at READ COMMITTED is modelled by what its
documentation promises: an INSERT waits for an uncommitted owner of the key
(`Holders`), then inserts, or finds the conflict; `ON CONFLICT DO NOTHING` with
the SELECT of the same statement sees only the snapshot of the statement
(`FindRow`, `InsertFails`). Every row is an active one: the rows of
`ai_vector_ban` that the service has deactivated, which both SELECTs find as well,
are in AIVectorIndex alone. AtomicBlacklist has each ban in one step; the
refinement is the identity on the three tables.

### AIVectorIndex

`VectorIndexService._lock` makes its operations sequential, but each statement
inside commits on its own while bots go on committing. One action per statement
or call: `PostBan`, `PostSearch`, `ApplyEvent` take the lock; `ReadActiveBans`,
`LoadFile`/`Rebuild`, `WriteFile`/`SaveRefused`, `SaveIndexState` are
`load_or_rebuild` and `save`; `BanKnown`, `InsertBan`, `InsertFails`,
`AddToIndex`, `AlreadyApplied` the rest; `Raise` is the except branch. An index
is a pair of sequences, the vectors inside FAISS and the refs beside them: the
code keeps them in two places, and that they agree is a property. `Ascending`
is the ORDER BY of `load_active_bans`: the ascending sequence of a set. The content
of the file and the checksum in the state row are the sequence of bans whose
vectors were written. The log of events is read in commit order; the events a
reader never gets to see are the subject of IndexSync.

### AppLifecycle, and the promise it implements, UpdateDelivery

Telegram, the library's poller (external), the `updates` channel, dispatcher,
`jobs` channel, workers; `main` walks through Build, bootstrap, the metrics
server, serving, waiting in shutdown, exit. `StartIndexSubscriber` and
`StartTelegramWorkers` start goroutines on the way; `StartStepFails` ends a start
before, between and after them, and SIGTERM comes anywhere. Telegram forgets an update when a later getUpdates asks for
a higher offset: `SendGetUpdates` confirms. `Gone` is the end of a process, in
an orderly way (`Exit`), by panic (`BuildFails`) or by a crash; `dropped` is the
history of confirmed updates that went down with one.

UpdateDelivery has neither channels nor goroutines: a process takes over the
updates after the ones it has passed, each is handled once in that life of the
process, Telegram forgets only what somebody has taken over, and an update is
lost only with a process. `INSTANCE ... WITH hands <- InHand, passed <- Passed`:
what is in hand is the batch, both channels, the dispatcher and the workers
together, what is passed is the end of the batch or what lies before the offset.

### Moderation

The chat as a sequence of messages, what is deleted, the media banned in
PostgreSQL and the media this process matches; per worker the next call of
`HandleMessage`. A catch-up applies one event at a time (`CatchUp(c)`), handlers
run between two of them. `BannedElsewhere`, `CatchUp`, `DeletedByOthers` and
`TakeMessageAgain` are the environment as the other modules describe it; that a
message comes again only from another life of a process or another replica is
UpdateDelivery.

### MediaMatching

What the bot recognises. An upload is a file identity, a medium kind, its size
and duration and its perceptual hashes (`shots`): a hash is a set of bits, the
Hamming distance the size of the symmetric difference. `TypeOf`, `Downloadable`,
`Decodes`, `ClipFrames` and the `...Allowed` limits are the way from the Telegram
message to frames; `...Takes` and `...Fails` say of each handler whether it
compares an upload, fails on it, or answers `ErrUnsupportedContent`.
`WithinThreshold`, `ClipsMatch` (with the early exit of its loop) and
`VectorsMatch` are the match rules, `Add`, `AddMany` and `Hits` the linear
indexes with their signatures. The actions are the loop of
`BlockOrchestrator.IsBlocked` (`StartCheck`, `HandlerRefuses`, `HandlerMatches`,
`HandlerMatchesNot`, `HandlerFails`, `CallFails`), `Block` (`PrepareBan`,
`CommitBan`, `ApplyBlock`, one handler per step), bans by other replicas and
their events, and restarts of bot and service. `Similar`, `SamePicture` and
`SameClip` are the reference definitions the verdicts are compared with: no
loop, no rotation of the query, no handler order. What `Config.validate` accepts
is the assumption `ConfigAccepted`.

### IndexSignals

A ban, its event and its position are one number, drawn with the transaction id
(`BeginBan`) and visible with the commit (`CommitBan`), or never (`RollBackBan`):
events become visible in another order than that of their positions. The
forwarder goes by position and waits for whatever still runs before the next
event (`NextToPublish`; the SQL subscription of Watermill compares with
`pg_snapshot_xmin`), and its offset (`forwarded`) follows what the broker
confirmed (`published`). The readers of bot and service do not wait: `LoadAfter`
returns the first rows behind the checkpoint. `late` is the history of what
committed behind a reader, behind its checkpoint or behind the last row of its
running batch.

Beside these: the broker (`up`), per replica its queue, binding, session, the
signal in hand, and the process from start-up to the consumer loop (`pc`). A
message that was put back is delivered again or, a quorum queue delivering it
only so often, dropped (`PutBack`, `discarded`). A replica is a bot or an AI
service; they differ in when readiness answers, in what a lost broker does to the
loop (a bot whose first subscription fails is `detached`, a service tries again),
and in what a failed tick does. The service loads its index at its first event or
search; the model has it at the earliest moment, when it holds least.

A catch-up reads a batch and applies it, moves the checkpoint row if it moves at
all, and reads again after a full batch (`FinishFullBatch`); it may fail after any
part of a batch (`CatchUpFails`). IndexSync has it statement by statement, with
several indexes and with the workers of the same process. One replica is enough
for TLC: queues are independent, and `Delivered` treats all bound queues alike.
`since`, `acked` and `known` are history variables.

## 3 The runs

`tlc -workers 2 -config <run>.cfg <MC module>`. Sizes are distinct states.

| Run | Instance | What it shows |
|---|---|---|
| sync (160 k) | a worker in the replica and one elsewhere, one index, 3 ban transactions, batches of 2, 1 failure, 1 crash, fairness | the checkpoint passes nothing but overtaken bans (`AppliedUpToCheckpoint`), a raised stale flag has a row that can lower it, the inductive `SyncInvariant`, `ImplementsBlacklist`; every ban not overtaken reaches the index (`EventuallyApplied`), the stale flag comes down (`StaleEventuallyCleared`) |
| sync_overtaken | two workers, 2 transactions, nothing fails | `NothingSkipped` is violated: see 6 |
| ban (38 k) | two bots, one request thread; a photo, a second upload of it, a GIF; 3 bans, 1 failure, fairness | `SuccessMeansStored`, `BansHaveArtifacts`, `NoWaitCycle`, `ImplementsAtomicBlacklist`, and every ban ends |
| ban_duplicate | two bots, no failure | `BanSucceedsWithoutFailure` is violated: see 6 |
| vector (678 k) | two services sharing the state row, 2 bans, 1 event, 1 crash | `VectorsMatchRefs`, `AppliedInIndex` |
| vector_one (150 k) | one service, 2 bans, 2 events, 1 failure, 1 crash, fairness | a ban taken back is forgotten, an answered ban is enforced, every event is applied in the end |
| vector_retry, vector_batch | one service, 2 bans, no failure | `AnsweredIsActive`, `StaleOnlyAfterFailure` are violated: see 6 |
| lifecycle (116 k) | one replica, one worker, 3 updates, channels of 1, one SIGTERM, one failing start, one crash, fairness | `NoUpdateVanishes`, `PoolOutlivesItsUsers`, `PipelineDelivers` (the refinement of UpdateDelivery), every update is handled or lost with a process, `ShutdownCompletes` |
| moderation (1.2 M) | two workers, one medium, 3 messages of every shape, one handed over twice, one deleted by others, one failing call | `NothingRemovedUnbanned`, `CommandGoesLast`, `AcknowledgedIsEnforced`, `NothingBlockedRemains` |
| matching (372 k) | one worker and an environment; a picture, its rotation as a sticker, a clip, a cut of it, a one-frame video sticker, a clip above `MaxFiles`, one above the limits; 2 chats, 2 bans, 1 failing call or restart | `VerdictSound`: what is called blocked is similar to a ban of the chat; `RecognisableIsCaught`: what a rule recognises from an answered ban is not called clean; `BlockedStaysBlocked`; the inductive `MatchingInvariant` |
| signals (398 k) | a bot or an AI service, 2 ban transactions that may overlap, batches of 2, 2 faults (of crash, outage, failing catch-up, late confirm), fairness | `SignalsAreKept`; `AckedIsApplied`: an acknowledged event is behind the checkpoint, and in the index unless it is late; `ReadyHoldsOlderBans`; every replica that is not detached learns of every ban that is not late for it |

Why these bounds are enough. Overtaking needs two transactions and a reader
between them; the third makes a batch that is half overtaken, a second batch and
a full one; a failure and a crash can meet in one catch-up. Three tables of
conflicts between three clients contain every shape of a wait; a circle needs two. In the AI service the difference between a file, the
state row and the tables shows with two bans, since sets of equal size must be
told apart, and a second service to overwrite the row. Three updates fill two
channels of capacity one with one in a hand. Three messages are a target, its
command or repost, and a second one of either kind; two workers can then be
inside the same ban. The uploads of matching contain, for each match rule, a
pair on either side of its boundary (the cut clip has exactly the required
frames, the video sticker fewer than the minimum, the rotated picture differs by
one bit); a second chat and a second ban are what a mistaken key or comparison
needs, and concurrent bans come from the environment. Two events and two
faults let a signal be published twice, put back, or overtaken by a crash, and
any two of these meet on the way of the same signal; two overlapping transactions
let the first be overtaken, and both together fill a batch. The proofs of section 5
remove the bounds for what they cover.

Each property has a mutant in PROJECT.json, an operator beside the one it
replaces (`SendJobOrSkip` beside `SendJob`), a plausible mistake in that code
under which TLC finds the property violated. These operators are used by nothing
else.

## 4 Fairness

Only what the code or its platform does by itself is fair; failures, crashes,
signals and users never are.

* IndexSync: weak fairness of each step of a running goroutine, of the ticker
  (`CatchUpAllIndexes`) and of the restart of a process (Kubernetes). Nothing is
  assumed of RabbitMQ: the ticker is enough.
* BanTransaction: a statement that is not waiting is executed, a worker goes on.
* AIVectorIndex: weak fairness of the steps of an operation and of the end of
  bots' transactions; strong fairness of `ApplyEvent` and `SkipEvent`, because
  the catch-up waits for a blocking lock that others keep taking, and comes
  again with every interval.
* AppLifecycle: weak fairness of goroutines, start-up and shutdown steps; of the
  end of forwarder and subscriber once ctx is done; strong fairness of
  `GetUpdatesDelivers`: Telegram does not fail or refuse every single poll.
* IndexSignals: weak fairness of start-up, of the consumer loop and of the ticker,
  and of the end of a broker outage. Nothing is assumed of the forwarder: a
  signal is a help, not a condition.
* MediaMatching has no liveness property: a check is a loop over four handlers.
* Moderation has no liveness property: a message whose handler fails is not
  retried by anybody, so there is nothing the code promises.

`CHECK_DEADLOCK FALSE` is set in every run because the bounds get used up and
detached or stopped processes really do nothing any more; being stuck is
excluded by `NoWaitCycle`, `EveryBanReturns`, `EveryEventApplied`,
`ShutdownCompletes` and `EveryUpdateHandled` instead.

## 5 The proofs

All theorems hold for arbitrary sets of writers, replicas,
indexes, clients, contents, uploads, services and workers and for any bounds; the
assumptions on the constants are the named ASSUMEs of the modules. Each
safety proof has the same shape: the invariant holds initially, every action
preserves it (one step per action, one below for each conjunct it may disturb),
and the property follows from it.

* `IndexSyncProofs`: `SyncInvariant`. That the checkpoint
  passes nothing is not inductive: one has to know that the rows of the running
  batch lie after the stored checkpoint (`CatchUpAheadOfCheckpoint`), that
  everything read is in the index, in the batch or overtaken
  (`ReadIsAppliedOrInBatch`), and that a worker in `ApplyBlock` has committed.
  Results: `TypeCorrect`, `CheckpointSkipsNothing`, `OnlyCommittedBans`,
  `StaleCanClear`.
  With at most one writer nothing is overtaken (`NeverOvertaken`), so
  `NothingSkipped` holds without exception (`OneWorkerSkipsNothing`); together
  with the run sync_overtaken this says exactly when the checkpoint is right.
  `SynchronisationImplementsBlacklist`: every step is a step or a stutter of
  ReplicatedBlacklist.
* `BanTransactionProofs`: `BanInvariant`. A transaction goes through its tables
  in one order, and behind it every key is its own or committed (`Orderly`); a
  key has one owner (`KeyOwnedOnce`). `NoDeadlock` follows: among waiting
  clients the one at the largest table waits for nobody in the set.
  `TypeCorrect`, `SuccessIsDurable`, `NoEmptyBans`; `BansAreAtomic`: a commit
  maps to one atomic ban of AtomicBlacklist. Of termination everything but
  fairness: `SomeBanGoesOn` (among the open bans one waits for nobody) and
  `TransactionsAdvance` (a statement that returns leaves fewer to do).
  What a race can do to a ban: `BansInTurnSucceed`, with bans one after the
  other none fails unless the database does, so the run ban_duplicate needs
  two at once; and `LostBansAreEnforced`, the key a ban lost is stored.
* `AIVectorIndexProofs`: `VectorInvariant`. The state row pairs a set of bans
  with the checksum of a file of exactly these, in order, and so does a save
  that has not written its row yet; `NoVectorMisattributed` follows, with any
  number of services overwriting one row. Then `EnforcementInvariant`: what a
  service owes (`Owed`: the bans it answered for, the events it has counted) is
  in its index and what it has taken back (`TakenBack`) is not (`IndexEnforces`);
  a service without an index owes and forgets the same to the bans it has just
  read from the tables (`SnapshotEnforces`), which is what a rebuild and a
  trusted file bring back; which ban each stage of an operation is about
  (`OperationAtStep`) closes the induction, together with what the tables never
  do: an id beyond `nextId` is unused, an open transaction is a bot's, a logged
  ban is active. That `Ascending` of a finite set of ids is a sequence of exactly
  its elements rests on the rank of an id in the set (`RankIsPosition`). Results:
  `TypeCorrect`, `AppliedStaysInIndex`, `TakenBackIsForgotten`,
  `AnsweredStaysEnforced`. `ServicesKeepThePromise`: a transaction that commits
  is a Commit of ReplicatedBlacklist, an index loaded, rebuilt or extended an
  Enforce, an index dropped a Restart; a file written by another service is
  harmless because whatever is read from the tables or trusted beside them was
  committed (`ReadIsCommitted`). `IndexIsKeptOrDropped` follows.
* `AppLifecycleProofs`: `LifecycleInvariant`. What exists at each stage of a
  process (`ProcessState`), that the poller's answer continues where its offset
  or Telegram stands (`BatchIsNext`), and that everything below its offset and
  not confirmed is its own (`OffsetIsOwn`). Results: `TypeCorrect`,
  `UpdatesAccountedFor`, `PoolClosedLast`. That an update is at one place of a
  process only is a second invariant, `UpdatesInOrder`: from the workers over
  `jobs`, dispatcher and `channel` to the batch, every stage holds earlier
  updates than the next, the queues ascend, and the offset lies between channel
  and batch (`PipelineKeepsOrder`; lemma `GoesOn` is the step of one update to
  the next stage). With it a handler's return takes the update out of the hands
  of its process, and `PipelineKeepsThePromise` follows: delivery of a batch is
  TakeOver, a return Handle, the end of a process Die, a request that confirms
  is Forget, which `NoUpdateVanishes` allows. Who has been told to stop and
  who has stopped agree (`StagesAgree`), and so nobody waits in vain:
  `ShutdownNeverStuck` (all goroutines have ended, or one that `wg.Wait` waits
  for can take its next step) and `PipelineNeverStuck` (a serving process that
  holds an update can bring one further; it assumes a worker, which
  `bot/internal/config/config.go:405` sees to).
* `ModerationProofs`: `ModerationInvariant`. A reply points back to an earlier
  message (`RepliesGoBack`), an index entry is a committed ban, what a worker
  past `ApplyBlock` works on is enforced (`Enforced`, `Banning`), a worker about
  to delete a repost has seen it blocked (`Reposts`), and whatever is gone by a
  handler was banned or an obeyed command (`RemovalsAreEarned`). Results:
  `TypeCorrect`, `RemovedIsBanned`, `TargetGoesFirst`,
  `AcknowledgedBanIsEnforced`, `HandlerLeavesNothingBlocked`;
  `AcknowledgedBansAreCarriedOut`: once a `/ban` is acknowledged, no worker's
  check of the same media ends as clean; `HandlersKeepThePromise`: an `ApplyBlock` or an applied event is an Enforce of
  ReplicatedBlacklist, a committed `/ban` or one from elsewhere a Commit, every
  other step of a handler a stutter.
* `MediaMatchingProofs`: `MatchingInvariant`. Indexes hold only artifacts of the
  tables (`IndexBacked`), a ban being applied is stored and applied up to its
  handler (`AppliedIsStored`, `AppliedSoFar`), and what was answered is in every
  index of the bot that supports it (`AnsweredIsIndexed`), also after a restart,
  for `AddMany` keeps one artifact of every signature. `TypeCorrect`;
  `RecognitionIsLasting`: indexes only grow, so a hit stays a hit.
  `LoopDecidesRule`: the loop of `ClipsMatch`, with its early success and its
  early failure, says the same as the number of matching frames, for clips of
  any length; the count of the first n frames is a cardinality because no least
  n is a counterexample. With it `VerdictsAreSound`, and `BanRecognisesItself`:
  a local matcher recognises the very upload it banned, except a clip with fewer
  frames than the minimum, which is stored and never matches anything.
  `RecognisableIsAlwaysCaught` needs that a recognisable upload has the handler
  that will hit it still ahead (`DueIsAhead`): a hit before it would have ended
  the check as blocked, and the indexes do not shrink meanwhile.
  `MatchersKeepThePromise`: each matcher implements ReplicatedBlacklist; the one
  place where a matcher could break it, two artifacts of one signature, is
  excluded by `SignatureIsIdentity`.
* `IndexSignalsProofs`: `SignalInvariant`. The forwarder is behind every running
  transaction (`WithinOutbox`); what a reader has passed is in the index, in its
  batch or late (`ReadIsCovered`); a message in hand is answered by a catch-up
  whose last `LoadAfter` comes after its event (`AnsweredAfterRead`), so that an
  acknowledged event is behind the checkpoint (`AckedIsRead`); a published event
  is kept before the offset counts it (`PublishedIsKept`); and what a process
  holds covers what was committed when it started (`StartIsCovered`). Results:
  `TypeCorrect`, `AcknowledgedSignalsAreApplied`, `NoSignalIsLost`,
  `ReadyIsCurrent`. `BansInTurnAreEnforced` says when the exception of
  `AckedIsApplied` is empty: as long as ban transactions do not overlap, nothing
  is late and a live replica enforces every ban whose signal it acknowledged.
  `SignalsKeepThePromise`: what a load or a catch-up adds is a step of Enforce,
  the end of a process a Restart.
* `ReplicatedBlacklistProofs`: three lemmas about the abstract specification
  alone. They say nothing of the code until a refinement brings them into a
  module: `NoBanIsForgotten` of IndexSync and `IndexIsKeptOrDropped` of
  AIVectorIndex are the results that use them.

Every safety invariant and every action property of a passing run is a theorem.
The assumptions on the constants are those of the code: capacities and bounds
are numbers, a configuration is one `Config.validate` accepts, the three matchers
of the bot are always built (`bot/internal/app/bootstrap/matchers.go:20-90`; the
fourth is optional), and "not loaded" is no index.

The auxiliary invariants (`BanInvariant`, `VectorInvariant`,
`EnforcementInvariant`, `ReadIsCommitted`, `LifecycleInvariant`,
`UpdatesInOrder`, `StagesAgree`, `DueIsAhead`, `SignalInvariant`,
`ModerationInvariant`), the results about waiting, lost bans and acknowledged
bans, and the refinements of IndexSignals, Moderation, AIVectorIndex and
MediaMatching are in no .cfg, since each would repeat what the runs' properties
and the theorems say. TLC confirms them on the instances of section 3 when they
are named in the .cfg of their module, for example `UpdatesInOrder` in
MCAppLifecycle.cfg or `HandlersImplementBlacklist` in MCModeration.cfg; what is
defined in a proof module, as `StagesAgree` is, has to be copied into the MC
module first. `Table(h)` has a parameter, which TLC does not take in a PROPERTY;
an instance with a fixed matcher does.

Only model-checked: liveness, because it needs ENABLED and fairness, which the
prover does not handle. These are `EventuallyApplied`, `StaleEventuallyCleared`
(IndexSync), `EveryBanReturns` (BanTransaction), `EveryEventApplied`
(AIVectorIndex), `EveryUpdateHandled`, `ShutdownCompletes` (AppLifecycle) and
`EveryReplicaLearns` (IndexSignals). For the bans, the shutdown and the pipeline
the theorems named above prove what these rest on apart from fairness: that
somebody can always go on. A ranking of whole behaviours, from which TLC's
verdict would follow, is not proved.

## 6 Disagreements with what the repository says

Each is a run whose only property is what the repository states, and TLC's
counterexample is a behaviour of the code.

* sync_overtaken: the reader does not bound itself by the oldest running
  transaction, so of two overlapping bans the one with the smaller id may commit
  behind the checkpoint and stays unenforced in running replicas until they
  restart (`event_reader.go:159`). The forwarder, which does wait for running
  transactions, sends the signal of the overtaken ban later; it starts a catch-up
  that reads nothing and is acknowledged (IndexSignals: `late`).
* ban_duplicate: two concurrent bans of the same picture, one fails with
  `ErrNoRows` although nothing failed in the database
  (`imagehash/postgres_store.go:28` and its siblings).
* vector_retry: `POST /ban` fails because a bot's ban arrived in between, and
  its retry answers success for the row the first attempt deactivated
  (`storage.py:110`).
* vector_batch: a catch-up over two new bans is refused by `save` and marks the
  service stale, though nothing failed (`index.py:281`).

The lifecycle model also shows, without a run of its own, that an orderly
shutdown loses the confirmed updates still in its channels, and that the
shutdown cannot be faster than the library's long poll.

## 7 What is abstracted, and what is left out

* Bans carry one event type, `media.ban.created.v1`, so `Supports` is always
  true. A missing checkpoint row is the row (zero, not stale). The `continue` on
  an event not after the checkpoint never runs, the query being ordered. A pod
  that is replaced under a new name is another element of `Replicas`.
* An artifact is identified by the ban that owns it. Bans are fresh UUIDs.
  Deactivation happens only inside the AI service, to bans without an event; the
  bot's `Deactivate` has no caller.
* In IndexSync every replica may become detached; that the Python service
  reconnects to RabbitMQ for ever instead is in IndexSignals.
* IndexSignals has one index per replica and applies a batch as a whole or up to
  an event that fails; bans of the process's own workers (`ApplyBlock`) are in
  IndexSync and Moderation. It leaves out the queues of replicas that will never
  return. A bot that is detached stays ready; that and the bans that committed
  behind the reader are the two exceptions `EveryReplicaLearns` names.
* BanTransaction has active rows only; what a deactivated row does to a ban is in
  AIVectorIndex (`AnsweredIsActive`), and there stored need not be enforced.
* MediaMatching takes ratios as exact fractions (the float64 computation of the
  code agrees for ratios in hundredths of at most 20 frames), images as their
  hashes and embeddings as frames; image size and pixel limits are part of
  `Decodes`. `PrepareBlock` of all handlers is one step, since it reads only the
  upload; an upload that no handler takes cannot occur, `exact` takes all. The
  AI service's HNSW search and `top_k` are covered by `HandlerMatchesNot`, which
  lets the AI-vector handler miss any ban.
* AIVectorIndex has one dimension, one model revision, and a batch of one event
  in log order, which is commit order: its `EveryEventApplied` and
  `AppliedInIndex` speak of the events the catch-up reads, not of overtaken ones
  (IndexSync has positions and batches). A lost commit answer of
  `POST /ban` is not in it.
* AppLifecycle folds the shutdown of the HTTP servers and of the publisher into
  the step to `waiting`; publisher and subscriber are enabled; a handler is one
  step. Messages without content are handled like others.
* Moderation takes media up to what the matchers tell apart; a command is a
  text; deleting a message that is gone is an error of the Telegram API, as that
  API answers it. Private chats only answer.
* Not modelled: metrics, the parsing of the configuration, temporary directories
  and the ffmpeg command line, names and captions of messages, the embedding
  model, the chart: no state a property would be about, or pure input and output.

## 8 Plan

Done, in this order of importance: IndexSync with ReplicatedBlacklist,
BanTransaction with AtomicBlacklist, AIVectorIndex, AppLifecycle with
UpdateDelivery, Moderation, MediaMatching, IndexSignals, and a proof module for
each of them and for ReplicatedBlacklist.

Proved: every safety property of the runs, the refinements of section 5, and of
liveness that bans, pipeline and shutdown always have somebody who can go on.

Next:

1. IndexSignals shown to implement "a catch-up may start at any time" of
   IndexSync.
2. A composition of Moderation with two replicas of IndexSync: from an
   acknowledged `/ban` to the deletion of a repost by the other replica.
