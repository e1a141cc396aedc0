---------------------------- MODULE IndexSignals ----------------------------
(***************************************************************************)
(* How a process is woken up to catch up with the outbox.                  *)
(*                                                                         *)
(* A ban transaction draws its position in the outbox before it commits,   *)
(* so bans become visible in another order than that of their positions.   *)
(* The forwarder of a bot publishes the events in position order, an event *)
(* only when every transaction before it has ended, and moves its offset   *)
(* once the broker has confirmed.  Every bot and every AI service owns a   *)
(* durable queue; a message in it carries nothing the consumer uses: it    *)
(* starts CatchUpAllIndexes, and is acked when that succeeds and put back  *)
(* when it fails.  A ticker starts the same catch-up without a message.    *)
(* The catch-up reads what lies after its checkpoint and asks nobody about *)
(* running transactions: a ban that commits behind it (late) is read by no *)
(* catch-up, though its signal is delivered and acked.                     *)
(*                                                                         *)
(* A replica has one index here, fed by loading and catching up; IndexSync *)
(* has the indexes of a bot side by side, applied event by event, and what *)
(* its own workers add to them.                                            *)
(***************************************************************************)
EXTENDS Naturals, FiniteSets

CONSTANTS
  Replicas,   \* processes with an index and a queue, one consumer_id each
  BatchSize,  \* catch_up_batch_size
  MaxBans,    \* bound: ban transactions of a behaviour
  MaxFaults   \* bound: crashes, broker outages, failing calls, late confirms

ASSUME ConstantsAssumption ==
  BatchSize \in Nat \ {0} /\ MaxBans \in Nat /\ MaxFaults \in Nat

\* A ban, its event and its position are one number: the transaction id.
VARIABLES
  drawn,      \* last transaction id given to a ban
  open,       \* ban transactions that have an id and have not ended
  outbox,     \* committed events
  forwarded,  \* offset of the forwarder's consumer group
  published,  \* last event the broker confirmed to the forwarder at work
  kind,       \* whether a replica is a bot or an AI service
  up,         \* whether RabbitMQ answers
  session,    \* replicas whose channel to RabbitMQ is open
  bound,      \* replicas whose queue exists and is bound to the exchange
  since,      \* history: the last event published before the queue was bound
  queue,      \* signals that wait in the replica's queue
  hand,       \* the signal the replica was given and has not answered
  acked,      \* history: events whose signal the replica has acknowledged
  discarded,  \* history: events whose signal the broker gave up delivering
  pc,         \* where app.Run and the consumer loop are
  stage,      \* the running catch-up: before LoadAfter, or what it returned
  batch,      \* events that LoadAfter returned
  ckpt,       \* index_checkpoints: position
  stale,      \* index_checkpoints: stale flag
  seen,       \* events whose bans are in the index
  late,       \* history: events committed behind what the reader had read
  known,      \* history: events committed when the process started
  faults      \* counter of the bound

outboxVars == <<drawn, open, outbox, forwarded, published>>
brokerVars == <<up, session, bound, since, queue, hand, acked, discarded>>
indexVars == <<ckpt, stale, seen, late>>
birth == <<kind, known>>
vars == <<outboxVars, brokerVars, pc, stage, batch, indexVars, birth, faults>>

Event == 1..MaxBans

\* Copies of a signal differ in the number of faults before them.
Signal == [event : Event, copy : 0..MaxFaults]

Step == {"down", "load", "start", "boot", "connect", "wait", "handle", "tick", "detached"}

\* "apply" is what follows a batch with fewer rows than asked for, the last
\* one; "full" a batch after which LoadAfter is called again.
Stage == {"none", "read", "full", "apply"}

IsBot(r) == kind[r] = "bot"
Live(r) == pc[r] \notin {"down", "load"}

OutboxTypeOK ==
  /\ drawn \in 0..MaxBans /\ open \subseteq 1..drawn /\ outbox \subseteq (1..drawn) \ open
  /\ forwarded \in {0} \cup outbox /\ published \in {0} \cup outbox
BrokerTypeOK ==
  /\ up \in BOOLEAN /\ session \subseteq bound /\ bound \subseteq Replicas
  /\ since \in [Replicas -> 0..MaxBans]
  /\ queue \in [Replicas -> SUBSET Signal] /\ hand \in [Replicas -> SUBSET Signal]
  /\ acked \in [Replicas -> SUBSET Event] /\ discarded \in [Replicas -> SUBSET Event]
ProcessTypeOK ==
  /\ kind \in [Replicas -> {"bot", "service"}] /\ known \in [Replicas -> SUBSET Event]
  /\ pc \in [Replicas -> Step] /\ stage \in [Replicas -> Stage]
  /\ batch \in [Replicas -> SUBSET Event]
IndexTypeOK ==
  /\ ckpt \in [Replicas -> 0..MaxBans] /\ stale \in [Replicas -> BOOLEAN]
  /\ seen \in [Replicas -> SUBSET Event] /\ late \in [Replicas -> SUBSET Event]

TypeOK ==
  /\ OutboxTypeOK /\ BrokerTypeOK /\ ProcessTypeOK /\ IndexTypeOK
  /\ faults \in 0..MaxFaults

Nothing == [r \in Replicas |-> {}]

Init ==
  /\ drawn = 0 /\ open = {} /\ outbox = {} /\ forwarded = 0 /\ published = 0
  /\ kind \in [Replicas -> {"bot", "service"}]
  /\ up \in BOOLEAN /\ session = {} /\ bound = {}
  /\ since = [r \in Replicas |-> 0]
  /\ queue = Nothing /\ hand = Nothing /\ acked = Nothing /\ discarded = Nothing
  /\ pc = [r \in Replicas |-> "down"]
  /\ stage = [r \in Replicas |-> "none"] /\ batch = Nothing
  /\ ckpt = [r \in Replicas |-> 0] /\ stale = [r \in Replicas |-> FALSE]
  /\ seen = Nothing /\ late = Nothing /\ known = Nothing
  /\ faults = 0

-----------------------------------------------------------------------------
(* The outbox, its forwarder and the broker.                               *)

\* The first write of a ban's transaction, in whatever process: PostgreSQL
\* assigns the transaction id, and with it the position of the event.
BeginBan ==
  /\ drawn < MaxBans
  /\ drawn' = drawn + 1 /\ open' = open \cup {drawn + 1}
  /\ UNCHANGED <<outbox, forwarded, published, brokerVars, pc, stage, batch, indexVars, birth,
                 faults>>

\* The reader of r has read past position e: its batch or its checkpoint has.
HasReadPast(r, e) == e <= ckpt[r] \/ \E b \in batch[r] : e <= b

\* The commit makes the event that saveBanCreatedEvent wrote visible, at the
\* position drawn before.
CommitBan(e) ==
  /\ e \in open
  /\ open' = open \ {e} /\ outbox' = outbox \cup {e}
  /\ late' = [r \in Replicas |->
       IF Live(r) /\ HasReadPast(r, e) THEN late[r] \cup {e} ELSE late[r]]
  /\ UNCHANGED <<drawn, forwarded, published, brokerVars, pc, stage, batch, ckpt, stale, seen,
                 birth, faults>>

\* A statement or the commit fails; the position stays empty.
RollBackBan(e) ==
  /\ e \in open
  /\ open' = open \ {e}
  /\ UNCHANGED <<drawn, outbox, forwarded, published, brokerVars, pc, stage, batch, indexVars,
                 birth, faults>>

\* The event the forwarder reads next: the subscription bounds itself by the
\* oldest running transaction, so no event before it can still appear.
NextToPublish(e) ==
  /\ published < e
  /\ \A f \in outbox : published < f => e <= f
  /\ \A x \in open : e < x

Delivered(e) == [r \in Replicas |->
  IF r \in bound THEN queue[r] \cup {[event |-> e, copy |-> faults]} ELSE queue[r]]

PublishRunningTransactions ==
  /\ up
  /\ \E e \in outbox \cup open :
       /\ published < e /\ \A f \in outbox : published < f => e <= f
       /\ queue' = Delivered(e) /\ published' = e
  /\ UNCHANGED <<drawn, open, outbox, forwarded, up, session, bound, since, hand, acked,
                 discarded, pc, stage, batch, indexVars, birth, faults>>

PublishWithoutConfirm ==
  /\ \E e \in outbox :
       /\ NextToPublish(e)
       /\ queue' = (IF up THEN Delivered(e) ELSE queue) /\ published' = e
  /\ UNCHANGED <<drawn, open, outbox, forwarded, up, session, bound, since, hand, acked,
                 discarded, pc, stage, batch, indexVars, birth, faults>>

\* The forwarder of the bot that holds the offset row publishes the next
\* event; the broker puts it into the queues bound by now and confirms.  A
\* publish that fails changes nothing and is repeated.
Publish ==
  /\ up
  /\ \E e \in outbox : NextToPublish(e) /\ queue' = Delivered(e) /\ published' = e
  /\ UNCHANGED <<drawn, open, outbox, forwarded, up, session, bound, since, hand, acked,
                 discarded, pc, stage, batch, indexVars, birth, faults>>

\* The offset moves only after the confirmation, over one event or several.
AckOffset ==
  /\ forwarded < published /\ forwarded' = published
  /\ UNCHANGED <<drawn, open, outbox, published, brokerVars, pc, stage, batch, indexVars, birth,
                 faults>>

\* The confirmation comes after the ack deadline, or the bot dies before it
\* moves the offset: the events will be published once more.
AckDeadline ==
  /\ forwarded < published /\ faults < MaxFaults
  /\ published' = forwarded /\ faults' = faults + 1
  /\ UNCHANGED <<drawn, open, outbox, forwarded, brokerVars, pc, stage, batch, indexVars, birth>>

\* What the replicas R were given and have not answered goes back to their
\* queues, or is dropped: a quorum queue delivers a message only so often.
PutBack(R) ==
  \E kept \in SUBSET R :
    /\ queue' = [r \in Replicas |-> IF r \in kept THEN queue[r] \cup hand[r] ELSE queue[r]]
    /\ discarded' = [r \in Replicas |->
         IF r \in R \ kept THEN discarded[r] \cup {s.event : s \in hand[r]} ELSE discarded[r]]
    /\ hand' = [r \in Replicas |-> IF r \in R THEN {} ELSE hand[r]]

\* Queues and what waits in them survive an outage.
BrokerStops ==
  /\ up /\ faults < MaxFaults
  /\ up' = FALSE /\ session' = {} /\ faults' = faults + 1
  /\ PutBack(Replicas)
  /\ UNCHANGED <<outboxVars, bound, since, acked, pc, stage, batch, indexVars, birth>>

BrokerReturns ==
  /\ ~up /\ up' = TRUE
  /\ UNCHANGED <<outboxVars, session, bound, since, queue, hand, acked, discarded, pc, stage,
                 batch, indexVars, birth, faults>>

-----------------------------------------------------------------------------
(* The life of a process.                                                  *)

StartProcess(r) ==
  /\ pc[r] = "down"
  /\ pc' = [pc EXCEPT ![r] = "load"]
  /\ known' = [known EXCEPT ![r] = outbox]
  /\ UNCHANGED <<kind, outboxVars, brokerVars, stage, batch, indexVars, faults>>

BeginCatchUp(r, why) ==
  /\ pc' = [pc EXCEPT ![r] = why]
  /\ stage' = [stage EXCEPT ![r] = "read"]
  /\ UNCHANGED batch

ServiceTrustsItsFile(r) ==
  /\ pc[r] = "load"
  /\ \E file \in SUBSET outbox :
       seen' = [seen EXCEPT ![r] = IF IsBot(r) THEN outbox ELSE file]
  /\ IF IsBot(r)
     THEN pc' = [pc EXCEPT ![r] = "start"] /\ UNCHANGED <<stage, batch>>
     ELSE BeginCatchUp(r, "boot")
  /\ UNCHANGED <<outboxVars, brokerVars, ckpt, stale, late, birth, faults>>

\* The index is built from the tables, late bans included: a bot's Build
\* loads them, a service uses its file only if it holds exactly the active
\* bans of the tables.  A service does so at its first event or search; this
\* is the earliest, when it holds least.  A bot starts its health server
\* next, a service its bootstrap catch-up, before anything listens.
LoadIndexes(r) ==
  /\ pc[r] = "load"
  /\ seen' = [seen EXCEPT ![r] = outbox]
  /\ IF IsBot(r)
     THEN pc' = [pc EXCEPT ![r] = "start"] /\ UNCHANGED <<stage, batch>>
     ELSE BeginCatchUp(r, "boot")
  /\ UNCHANGED <<outboxVars, brokerVars, ckpt, stale, late, birth, faults>>

\* NewOutboxPublisher has connected: the forwarder runs, the bootstrap
\* catch-up of NewIndexSubscriber begins.
NewOutboxPublisher(r) ==
  /\ pc[r] = "start" /\ up
  /\ BeginCatchUp(r, "boot")
  /\ UNCHANGED <<outboxVars, brokerVars, indexVars, birth, faults>>

\* The process is gone and its index with it; its queue and its checkpoint
\* row stay.
ProcessGone(r) ==
  /\ pc' = [pc EXCEPT ![r] = "down"]
  /\ stage' = [stage EXCEPT ![r] = "none"] /\ batch' = [batch EXCEPT ![r] = {}]
  /\ seen' = [seen EXCEPT ![r] = {}] /\ late' = [late EXCEPT ![r] = {}]
  /\ session' = session \ {r}
  /\ PutBack({r})
  /\ UNCHANGED <<outboxVars, up, bound, since, acked, birth>>

\* RabbitMQ cannot be reached: NewOutboxPublisher, and with it Run, fails.
NewOutboxPublisherFails(r) ==
  /\ pc[r] = "start" /\ ~up
  /\ ProcessGone(r)
  /\ UNCHANGED <<ckpt, stale, faults>>

Crash(r) ==
  /\ pc[r] # "down" /\ faults < MaxFaults
  /\ faults' = faults + 1
  /\ ProcessGone(r)
  /\ UNCHANGED <<ckpt, stale>>

\* indexSubscriber.Run and _run_session declare the queue and bind it.
Subscribe(r) ==
  /\ pc[r] = "connect" /\ up
  /\ pc' = [pc EXCEPT ![r] = "wait"]
  /\ session' = session \cup {r} /\ bound' = bound \cup {r}
  /\ since' = IF r \in bound THEN since ELSE [since EXCEPT ![r] = published]
  /\ UNCHANGED <<outboxVars, up, queue, hand, acked, discarded, stage, batch, indexVars, birth,
                 faults>>

\* In a bot the error of NewSubscriber ends the goroutine and is logged: the
\* process goes on without consumer and ticker.  A service tries again.
SubscribeFails(r) ==
  /\ IsBot(r) /\ pc[r] = "connect" /\ ~up
  /\ pc' = [pc EXCEPT ![r] = "detached"]
  /\ UNCHANGED <<outboxVars, brokerVars, stage, batch, indexVars, birth, faults>>

\* Watermill reconnects under the running loop of a bot.
Reconnect(r) ==
  /\ IsBot(r) /\ pc[r] \in {"wait", "handle", "tick"} /\ up /\ r \notin session
  /\ session' = session \cup {r}
  /\ UNCHANGED <<outboxVars, up, bound, since, queue, hand, acked, discarded, pc, stage, batch,
                 indexVars, birth, faults>>

\* The next basic_get of a service fails: the session is closed.
SessionFails(r) ==
  /\ ~IsBot(r) /\ pc[r] = "wait" /\ r \notin session
  /\ pc' = [pc EXCEPT ![r] = "connect"]
  /\ UNCHANGED <<outboxVars, brokerVars, stage, batch, indexVars, birth, faults>>

-----------------------------------------------------------------------------
(* The consumer loop.                                                      *)

\* A signal is taken from the queue; the order does not matter, a returned
\* one may come before or after the others.
TakeMessage(r) ==
  /\ pc[r] = "wait" /\ r \in session
  /\ \E s \in queue[r] :
       /\ queue' = [queue EXCEPT ![r] = @ \ {s}]
       /\ hand' = [hand EXCEPT ![r] = {s}]
  /\ BeginCatchUp(r, "handle")
  /\ UNCHANGED <<outboxVars, up, session, bound, since, acked, discarded, indexVars, birth,
                 faults>>

TickWhenStale(r) ==
  /\ pc[r] = "wait" /\ stale[r]
  /\ BeginCatchUp(r, "tick")
  /\ UNCHANGED <<outboxVars, brokerVars, indexVars, birth, faults>>

\* The catch-up interval is over; a service looks at the clock only when its
\* queue had nothing for it.
Tick(r) ==
  /\ pc[r] = "wait" /\ (IsBot(r) \/ (r \in session /\ queue[r] = {}))
  /\ BeginCatchUp(r, "tick")
  /\ UNCHANGED <<outboxVars, brokerVars, indexVars, birth, faults>>

\* What is committed at a position after the checkpoint.
Pending(r) == {e \in outbox : ckpt[r] < e}

\* The first BatchSize rows after the checkpoint.  A position whose
\* transaction is still running has no row to return.
LoadAfter(r) ==
  /\ stage[r] = "read"
  /\ \E rows \in SUBSET Pending(r) :
       /\ \A e \in rows, f \in Pending(r) \ rows : e < f
       /\ batch' = [batch EXCEPT ![r] = rows]
       /\ \/ Cardinality(rows) = BatchSize
             /\ stage' = [stage EXCEPT ![r] = "full"]
          \/ Cardinality(rows) < BatchSize /\ rows = Pending(r)
             /\ stage' = [stage EXCEPT ![r] = "apply"]
  /\ UNCHANGED <<outboxVars, brokerVars, pc, indexVars, birth, faults>>

\* Every event of the batch is applied and the checkpoint row moves to the
\* last one: a row that moves is fresh again.
ApplyBatch(r) ==
  /\ seen' = [seen EXCEPT ![r] = @ \cup batch[r]]
  /\ \/ batch[r] = {} /\ UNCHANGED <<ckpt, stale>>
     \/ \E last \in batch[r] :
          /\ \A e \in batch[r] : e <= last
          /\ ckpt' = [ckpt EXCEPT ![r] = last]
          /\ stale' = [stale EXCEPT ![r] = FALSE]

\* A full batch is applied, and LoadAfter is called once more.
FinishFullBatch(r) ==
  /\ stage[r] = "full"
  /\ ApplyBatch(r)
  /\ stage' = [stage EXCEPT ![r] = "read"] /\ batch' = [batch EXCEPT ![r] = {}]
  /\ UNCHANGED <<outboxVars, brokerVars, pc, late, birth, faults>>

CatchUpSucceeds(r) ==
  /\ stage[r] = "apply"
  /\ ApplyBatch(r)
  /\ UNCHANGED <<late, faults>>

\* A statement fails, or an event cannot be applied and the row is marked
\* stale; the checkpoint stays before the batch.
CatchUpFails(r, applied) ==
  /\ stage[r] # "none" /\ faults < MaxFaults
  /\ applied \subseteq batch[r] /\ \A e \in applied, f \in batch[r] \ applied : e < f
  /\ \E marked \in BOOLEAN :
       /\ marked => applied # batch[r]
       /\ stale' = [stale EXCEPT ![r] = @ \/ marked]
  /\ faults' = faults + 1
  /\ UNCHANGED ckpt

\* The events before the one that failed are in the index all the same.
KeepApplied(r) ==
  \E applied \in SUBSET batch[r] :
    /\ CatchUpFails(r, applied)
    /\ seen' = [seen EXCEPT ![r] = @ \cup applied]
    /\ UNCHANGED late

CatchUpReturns(r, why, next) ==
  /\ pc[r] = why
  /\ pc' = [pc EXCEPT ![r] = next]
  /\ stage' = [stage EXCEPT ![r] = "none"] /\ batch' = [batch EXCEPT ![r] = {}]

BootstrapSucceeds(r) ==
  /\ CatchUpReturns(r, "boot", "connect")
  /\ CatchUpSucceeds(r)
  /\ UNCHANGED <<outboxVars, brokerVars, birth>>

\* newIndexSubscriber and start_background let no process go on.
BootstrapFails(r) ==
  /\ pc[r] = "boot"
  /\ \E applied \in SUBSET batch[r] : CatchUpFails(r, applied)
  /\ ProcessGone(r)

\* A service whose channel is lost finds out when it answers.
AfterAnswer(r) == IF ~IsBot(r) /\ r \notin session THEN "connect" ELSE "wait"

AckHand(r) ==
  /\ acked' = [acked EXCEPT ![r] = @ \cup {s.event : s \in hand[r]}]
  /\ hand' = [hand EXCEPT ![r] = {}]
  /\ UNCHANGED <<outboxVars, up, session, bound, since, queue, discarded, birth>>

Ack(r) ==
  /\ CatchUpReturns(r, "handle", AfterAnswer(r))
  /\ CatchUpSucceeds(r)
  /\ AckHand(r)

AckAnyway(r) ==
  /\ CatchUpReturns(r, "handle", AfterAnswer(r))
  /\ KeepApplied(r)
  /\ AckHand(r)

\* Put back, and handed out again at once, while the broker puts up with it.
Nack(r) ==
  /\ CatchUpReturns(r, "handle", AfterAnswer(r))
  /\ KeepApplied(r)
  /\ PutBack({r})
  /\ UNCHANGED <<outboxVars, up, session, bound, since, acked, birth>>

TickSucceeds(r) ==
  /\ CatchUpReturns(r, "tick", "wait")
  /\ CatchUpSucceeds(r)
  /\ UNCHANGED <<outboxVars, brokerVars, birth>>

\* A bot logs it; in a service the error closes the session.
TickFails(r) ==
  /\ CatchUpReturns(r, "tick", IF IsBot(r) THEN "wait" ELSE "connect")
  /\ KeepApplied(r)
  /\ session' = IF IsBot(r) THEN session ELSE session \ {r}
  /\ UNCHANGED <<outboxVars, up, bound, since, queue, hand, acked, discarded, birth>>

-----------------------------------------------------------------------------
BanStep == BeginBan \/ \E e \in open : CommitBan(e) \/ RollBackBan(e)

ForwarderStep == Publish \/ AckOffset \/ AckDeadline

LifeStep(r) ==
  \/ StartProcess(r) \/ LoadIndexes(r) \/ NewOutboxPublisher(r) \/ NewOutboxPublisherFails(r)
  \/ BootstrapSucceeds(r) \/ BootstrapFails(r) \/ Crash(r)

ConsumerStep(r) ==
  \/ Subscribe(r) \/ SubscribeFails(r) \/ Reconnect(r) \/ SessionFails(r)
  \/ TakeMessage(r) \/ Tick(r) \/ LoadAfter(r) \/ FinishFullBatch(r)
  \/ Ack(r) \/ Nack(r) \/ TickSucceeds(r) \/ TickFails(r)

Next ==
  \/ BanStep \/ ForwarderStep \/ BrokerStops \/ BrokerReturns
  \/ \E r \in Replicas : LifeStep(r) \/ ConsumerStep(r)

Spec == Init /\ [][Next]_vars

\* Processes are restarted, outages end, the loop takes its next step and
\* the ticker comes round.  Nothing is assumed of the transactions, nor of
\* the forwarder: a signal is a help, not a condition.
Fairness ==
  /\ WF_vars(BrokerReturns)
  /\ \A r \in Replicas :
       /\ WF_vars(StartProcess(r) \/ LoadIndexes(r))
       /\ WF_vars(NewOutboxPublisher(r) \/ NewOutboxPublisherFails(r))
       /\ WF_vars(Subscribe(r)) /\ WF_vars(SessionFails(r))
       /\ WF_vars(TakeMessage(r) \/ Tick(r))
       /\ WF_vars(LoadAfter(r) \/ FinishFullBatch(r))
       /\ WF_vars(BootstrapSucceeds(r) \/ Ack(r) \/ TickSucceeds(r))

FairSpec == Spec /\ Fairness

-----------------------------------------------------------------------------
(* Properties.                                                             *)

\* An acknowledged signal is gone for good: its event is behind the
\* checkpoint by then, so no catch-up will ever read it again, and therefore
\* in the index, through crashes and restarts.  The exception is a ban that
\* committed behind the checkpoint: its signal comes later, starts a
\* catch-up that reads nothing, and is acknowledged all the same.
AckedIsApplied ==
  \A r \in Replicas : \A e \in acked[r] :
    /\ e <= ckpt[r]
    /\ Live(r) => e \in seen[r] \/ e \in late[r]

Kept(r, e) ==
  \/ e \in acked[r] \cup discarded[r]
  \/ \E s \in queue[r] \cup hand[r] : s.event = e

\* Once the queue of a replica is bound, no event is forwarded past it, in
\* whatever order the transactions commit: its signal waits, is in hand, was
\* acknowledged, or was given up by the broker after it had been put back,
\* through outages, late confirmations, nacks and crashes of either side.
SignalsAreKept ==
  \A r \in bound, e \in outbox : since[r] < e /\ e <= forwarded => Kept(r, e)

\* What the readiness probe answers: the bot's as soon as its indexes are
\* loaded, the service's after its bootstrap; both look at the stale flag.
Answering(r) == pc[r] \notin (IF IsBot(r) THEN {"down", "load"} ELSE {"down", "load", "boot"})
Ready(r) == Answering(r) /\ ~stale[r]

\* A process that calls itself ready enforces every ban committed before it
\* was started, overtaken ones included, although the probe counts a missing
\* checkpoint as fresh and the bot's answers before the bootstrap catch-up.
ReadyHoldsOlderBans == \A r \in Replicas : Ready(r) => known[r] \subseteq seen[r]

\* Every replica learns of every ban, whether or not a signal ever reaches
\* it, unless its subscriber has given up or the ban committed behind what
\* the replica had read: that one it learns only by a restart.
EveryReplicaLearns ==
  \A r \in Replicas, e \in Event :
    e \in outbox ~> e \in seen[r] \/ e \in late[r] \/ pc[r] = "detached"

-----------------------------------------------------------------------------
(* Why the safety properties hold.                                         *)

\* The forwarder is behind every running transaction, and nothing runs ahead
\* of the outbox.
WithinOutbox ==
  /\ forwarded <= published
  /\ \A x \in open : published < x
  /\ \A r \in Replicas :
       /\ seen[r] \subseteq outbox /\ batch[r] \subseteq Pending(r)
       /\ \A s \in queue[r] \cup hand[r] : s.event \in outbox

\* What lies behind the checkpoint is in a live index, and what lies behind
\* the last row of a batch is in it or in the batch, late bans excepted.
ReadIsCovered ==
  \A r \in Replicas : Live(r) =>
    \A e \in outbox : HasReadPast(r, e) => e \in seen[r] \cup late[r] \cup batch[r]

\* A message in hand is answered by a catch-up whose last LoadAfter comes
\* after its event was published.
AnsweredAfterRead ==
  \A r \in Replicas :
    /\ stage[r] # "none" <=> pc[r] \in {"boot", "handle", "tick"}
    /\ stage[r] \in {"none", "read"} => batch[r] = {}
    /\ pc[r] \in {"wait", "handle", "tick"} => r \in bound
    /\ hand[r] # {} => pc[r] = "handle"
    /\ stage[r] = "apply" => \A s \in hand[r] : s.event <= ckpt[r] \/ s.event \in batch[r]

\* A published event is kept before the offset counts it.
PublishedIsKept ==
  \A r \in bound, e \in outbox : since[r] < e /\ e <= published => Kept(r, e)

\* An acknowledged event is behind the checkpoint.
AckedIsRead == \A r \in Replicas : \A e \in acked[r] : e \in outbox /\ e <= ckpt[r]

\* What a process holds since it loaded its indexes.
StartIsCovered ==
  \A r \in Replicas : known[r] \subseteq outbox /\ (Live(r) => known[r] \subseteq seen[r])

SignalInvariant ==
  /\ TypeOK /\ WithinOutbox /\ ReadIsCovered /\ AnsweredAfterRead
  /\ PublishedIsKept /\ AckedIsRead /\ StartIsCovered

\* Ban transactions do not overlap.
BansInTurn == \A x, y \in open : x = y

\* Then nothing is late, and an acknowledged ban is enforced.
NothingLate ==
  /\ \A r \in Replicas : late[r] = {}
  /\ \A x \in open, e \in outbox : e < x

AckedIsEnforced == \A r \in Replicas : Live(r) => acked[r] \subseteq seen[r]

-----------------------------------------------------------------------------
(* What the signals are for.                                               *)

TheIndex(e) == {"index"}

\* Publishing, waking up and catching up implement the blacklist that the
\* replicas promise together: an event is a ban, and what a live process
\* holds grows by committed events only, until the process goes away.
Blacklist == INSTANCE ReplicatedBlacklist
  WITH Ban <- Event, Replica <- Replicas, Index <- {"index"}, Covers <- TheIndex,
       bans <- outbox, enforced <- [r \in Replicas |-> [i \in {"index"} |-> seen[r]]]
SignalsImplementBlacklist == Blacklist!Spec

=============================================================================
