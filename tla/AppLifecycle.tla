---------------------------- MODULE AppLifecycle ----------------------------
(***************************************************************************)
(* The way of a Telegram update through a bot process, and the life of     *)
(* that process: start-up in app.Run, serving, SIGTERM and shutdown.       *)
(*                                                                         *)
(*   Telegram -> poller -> updates channel -> dispatcher -> jobs -> workers *)
(*                                                                         *)
(* The poller is a goroutine of the Telegram library, started by Build     *)
(* before the indexes are loaded.  Telegram forgets an update when a later *)
(* getUpdates asks for a higher offset, whoever of the replicas asks.      *)
(* What a handler does with its message is the subject of Moderation.      *)
(***************************************************************************)
EXTENDS Naturals, SequencesExt

CONSTANTS
  Replicas,          \* bot processes polling with the same token
  Workers,           \* cfg.Workers goroutines of a process
  UpdatesBuffer,     \* capacity of the library's channel
  JobsBuffer,        \* cfg.JobsBuffer
  MaxUpdates,        \* bound: updates posted
  MaxSignals,        \* bound: SIGTERMs
  MaxStartFailures,  \* bound: failures of Build or of the bootstrap
  MaxCrashes         \* bound: lost processes

ASSUME CapacityAssumption ==
  UpdatesBuffer \in Nat \ {0} /\ JobsBuffer \in Nat \ {0}
ASSUME BoundsAssumption ==
  {MaxUpdates, MaxSignals, MaxStartFailures, MaxCrashes} \subseteq Nat

Updates == 1..MaxUpdates
NoUpdate == 0
Runners == {"publisher", "subscriber"}

VARIABLES
  posted,      \* updates in the chats so far
  confirmed,   \* the last one Telegram has forgotten
  main,        \* per replica: where Run, and later shutdown, is
  cancelled,   \* per replica: ctx is done
  stopPolling, \* per replica: StopReceivingUpdates was called
  pool,        \* per replica: the PostgreSQL pool is open
  poller,      \* per replica: GetUpdatesChan goroutine
  offset,      \* per replica: config.Offset
  batch,       \* per replica: updates of the last answer still to push
  channel,     \* per replica: components.Updates
  dispatcher,  \* per replica: goroutine that feeds jobs
  held,        \* per replica: the update it is sending
  jobs,        \* per replica: jobs channel
  worker,      \* per replica and worker: its step
  job,         \* per replica and worker: the update it handles
  runners,     \* per replica: background goroutines running
  handled,     \* history: updates whose handler returned
  dropped,     \* history: forgotten by Telegram, lost by an exiting process
  signals, startFailures, crashes

telegramVars == <<posted, confirmed>>
pollerVars == <<poller, offset, batch>>
pipeVars == <<dispatcher, held, worker, job>>
processVars == <<main, cancelled, stopPolling, pool, runners>>
bounds == <<signals, startFailures, crashes>>
vars == <<telegramVars, pollerVars, channel, jobs, pipeVars, processVars,
          handled, dropped, bounds>>

TypeOK ==
  /\ posted \in 0..MaxUpdates /\ confirmed \in 0..posted
  /\ main \in [Replicas ->
       {"down", "build", "bootstrap", "metrics", "serving", "failed", "waiting", "exit"}]
  /\ cancelled \in [Replicas -> BOOLEAN]
  /\ stopPolling \in [Replicas -> BOOLEAN]
  /\ pool \in [Replicas -> BOOLEAN]
  /\ poller \in [Replicas -> {"off", "loop", "request", "push", "closed"}]
  /\ offset \in [Replicas -> 0..(MaxUpdates + 1)]
  /\ batch \in [Replicas -> Seq(Updates)]
  /\ channel \in [Replicas -> Seq(Updates)]
  /\ \A r \in Replicas : Len(channel[r]) <= UpdatesBuffer
  /\ dispatcher \in [Replicas -> {"off", "receive", "send", "done"}]
  /\ held \in [Replicas -> Updates \cup {NoUpdate}]
  /\ jobs \in [Replicas -> Seq(Updates)]
  /\ \A r \in Replicas : Len(jobs[r]) <= JobsBuffer
  /\ worker \in [Replicas -> [Workers -> {"off", "select", "handle", "done"}]]
  /\ job \in [Replicas -> [Workers -> Updates \cup {NoUpdate}]]
  /\ runners \in [Replicas -> SUBSET Runners]
  /\ handled \subseteq 1..posted /\ dropped \subseteq 1..posted
  /\ signals \in 0..MaxSignals
  /\ startFailures \in 0..MaxStartFailures /\ crashes \in 0..MaxCrashes

Init ==
  /\ posted = 0 /\ confirmed = 0
  /\ main = [r \in Replicas |-> "down"]
  /\ cancelled = [r \in Replicas |-> FALSE]
  /\ stopPolling = [r \in Replicas |-> FALSE]
  /\ pool = [r \in Replicas |-> FALSE]
  /\ poller = [r \in Replicas |-> "off"]
  /\ offset = [r \in Replicas |-> 0]
  /\ batch = [r \in Replicas |-> <<>>]
  /\ channel = [r \in Replicas |-> <<>>]
  /\ dispatcher = [r \in Replicas |-> "off"]
  /\ held = [r \in Replicas |-> NoUpdate]
  /\ jobs = [r \in Replicas |-> <<>>]
  /\ worker = [r \in Replicas |-> [w \in Workers |-> "off"]]
  /\ job = [r \in Replicas |-> [w \in Workers |-> NoUpdate]]
  /\ runners = [r \in Replicas |-> {}]
  /\ handled = {} /\ dropped = {}
  /\ signals = 0 /\ startFailures = 0 /\ crashes = 0

-----------------------------------------------------------------------------
(* Telegram and the poller of its library.                                 *)

PostUpdate ==
  /\ posted < MaxUpdates
  /\ posted' = posted + 1
  /\ UNCHANGED <<confirmed, pollerVars, channel, jobs, pipeVars, processVars,
                 handled, dropped, bounds>>

\* The request itself confirms what lies before its offset.
SendGetUpdates(r) ==
  /\ poller[r] = "loop" /\ ~stopPolling[r]
  /\ poller' = [poller EXCEPT ![r] = "request"]
  /\ confirmed' = IF offset[r] > confirmed + 1 THEN offset[r] - 1 ELSE confirmed
  /\ UNCHANGED <<posted, offset, batch, channel, jobs, pipeVars, processVars,
                 handled, dropped, bounds>>

\* The oldest update the answer may hold.
Oldest(r) == IF offset[r] > confirmed THEN offset[r] ELSE confirmed + 1

GetUpdatesDelivers(r) ==
  /\ poller[r] = "request" /\ Oldest(r) <= posted
  /\ batch' = [batch EXCEPT ![r] = [i \in 1..(posted + 1 - Oldest(r)) |-> Oldest(r) + i - 1]]
  /\ poller' = [poller EXCEPT ![r] = "push"]
  /\ UNCHANGED <<telegramVars, offset, channel, jobs, pipeVars, processVars,
                 handled, dropped, bounds>>

\* The long poll times out, fails, or is ended by the other replica's.
GetUpdatesReturnsNothing(r) ==
  /\ poller[r] = "request"
  /\ poller' = [poller EXCEPT ![r] = "loop"]
  /\ UNCHANGED <<telegramVars, offset, batch, channel, jobs, pipeVars, processVars,
                 handled, dropped, bounds>>

PushKeepsOffset(r) ==
  /\ poller[r] = "push" /\ Len(channel[r]) < UpdatesBuffer
  /\ channel' = [channel EXCEPT ![r] = Append(@, Head(batch[r]))]
  /\ batch' = [batch EXCEPT ![r] = Tail(@)]
  /\ poller' = [poller EXCEPT ![r] = IF Len(batch[r]) = 1 THEN "loop" ELSE "push"]
  /\ UNCHANGED <<telegramVars, offset, jobs, pipeVars, processVars, handled, dropped, bounds>>

PushUpdate(r) ==
  /\ poller[r] = "push" /\ Len(channel[r]) < UpdatesBuffer
  /\ channel' = [channel EXCEPT ![r] = Append(@, Head(batch[r]))]
  /\ offset' = [offset EXCEPT ![r] = Head(batch[r]) + 1]
  /\ batch' = [batch EXCEPT ![r] = Tail(@)]
  /\ poller' = [poller EXCEPT ![r] = IF Len(batch[r]) = 1 THEN "loop" ELSE "push"]
  /\ UNCHANGED <<telegramVars, jobs, pipeVars, processVars, handled, dropped, bounds>>

PollerStops(r) ==
  /\ poller[r] = "loop" /\ stopPolling[r]
  /\ poller' = [poller EXCEPT ![r] = "closed"]
  /\ UNCHANGED <<telegramVars, offset, batch, channel, jobs, pipeVars, processVars,
                 handled, dropped, bounds>>

-----------------------------------------------------------------------------
(* StartTelegramWorkers: the dispatcher and the workers.                   *)

ReceiveUpdate(r) ==
  /\ dispatcher[r] = "receive" /\ channel[r] # <<>>
  /\ held' = [held EXCEPT ![r] = Head(channel[r])]
  /\ channel' = [channel EXCEPT ![r] = Tail(@)]
  /\ dispatcher' = [dispatcher EXCEPT ![r] = "send"]
  /\ UNCHANGED <<telegramVars, pollerVars, jobs, worker, job, processVars,
                 handled, dropped, bounds>>

SendJobUnbounded(r) ==
  /\ dispatcher[r] = "send"
  /\ jobs' = [jobs EXCEPT ![r] = Append(@, held[r])]
  /\ held' = [held EXCEPT ![r] = NoUpdate]
  /\ dispatcher' = [dispatcher EXCEPT ![r] = "receive"]
  /\ UNCHANGED <<telegramVars, pollerVars, channel, worker, job, processVars,
                 handled, dropped, bounds>>

SendJobOrSkip(r) ==
  /\ dispatcher[r] = "send"
  /\ jobs' = [jobs EXCEPT ![r] = IF Len(@) < JobsBuffer THEN Append(@, held[r]) ELSE @]
  /\ held' = [held EXCEPT ![r] = NoUpdate]
  /\ dispatcher' = [dispatcher EXCEPT ![r] = "receive"]
  /\ UNCHANGED <<telegramVars, pollerVars, channel, worker, job, processVars,
                 handled, dropped, bounds>>

\* The select takes a ready send also when ctx is done.
SendJob(r) ==
  /\ dispatcher[r] = "send" /\ Len(jobs[r]) < JobsBuffer
  /\ jobs' = [jobs EXCEPT ![r] = Append(@, held[r])]
  /\ held' = [held EXCEPT ![r] = NoUpdate]
  /\ dispatcher' = [dispatcher EXCEPT ![r] = "receive"]
  /\ UNCHANGED <<telegramVars, pollerVars, channel, worker, job, processVars,
                 handled, dropped, bounds>>

\* ctx is seen only while sending; receiving ends with the channel.
DispatcherStops(r) ==
  /\ \/ dispatcher[r] = "send" /\ cancelled[r]
     \/ dispatcher[r] = "receive" /\ channel[r] = <<>> /\ poller[r] = "closed"
  /\ dispatcher' = [dispatcher EXCEPT ![r] = "done"]
  /\ UNCHANGED <<telegramVars, pollerVars, channel, held, jobs, worker, job, processVars,
                 handled, dropped, bounds>>

TakeJob(r, w) ==
  /\ worker[r][w] = "select" /\ jobs[r] # <<>>
  /\ job' = [job EXCEPT ![r][w] = Head(jobs[r])]
  /\ jobs' = [jobs EXCEPT ![r] = Tail(@)]
  /\ worker' = [worker EXCEPT ![r][w] = "handle"]
  /\ UNCHANGED <<telegramVars, pollerVars, channel, dispatcher, held, processVars,
                 handled, dropped, bounds>>

\* HandleMessage returns; its error is only logged.
HandlerReturns(r, w) ==
  /\ worker[r][w] = "handle"
  /\ handled' = handled \cup {job[r][w]}
  /\ job' = [job EXCEPT ![r][w] = NoUpdate]
  /\ worker' = [worker EXCEPT ![r][w] = "select"]
  /\ UNCHANGED <<telegramVars, pollerVars, channel, jobs, dispatcher, held, processVars,
                 dropped, bounds>>

WorkerStops(r, w) ==
  /\ worker[r][w] = "select"
  /\ cancelled[r] \/ (dispatcher[r] = "done" /\ jobs[r] = <<>>)
  /\ worker' = [worker EXCEPT ![r][w] = "done"]
  /\ UNCHANGED <<telegramVars, pollerVars, channel, jobs, dispatcher, held, job, processVars,
                 handled, dropped, bounds>>

-----------------------------------------------------------------------------
(* app.Run and the shutdown function it returns.                           *)

StartProcess(r) ==
  /\ main[r] = "down"
  /\ main' = [main EXCEPT ![r] = "build"]
  /\ pool' = [pool EXCEPT ![r] = TRUE]
  /\ poller' = [poller EXCEPT ![r] = "loop"]
  /\ UNCHANGED <<telegramVars, offset, batch, channel, jobs, pipeVars,
                 cancelled, stopPolling, runners, handled, dropped, bounds>>

StartPublisher(r) ==
  /\ main[r] = "build"
  /\ main' = [main EXCEPT ![r] = "bootstrap"]
  /\ runners' = [runners EXCEPT ![r] = {"publisher"}]
  /\ UNCHANGED <<telegramVars, pollerVars, channel, jobs, pipeVars,
                 cancelled, stopPolling, pool, handled, dropped, bounds>>

\* NewIndexSubscriber has caught up; what is left to fail is the metrics server.
StartIndexSubscriber(r) ==
  /\ main[r] = "bootstrap"
  /\ main' = [main EXCEPT ![r] = "metrics"]
  /\ runners' = [runners EXCEPT ![r] = @ \cup {"subscriber"}]
  /\ UNCHANGED <<telegramVars, pollerVars, channel, jobs, pipeVars,
                 cancelled, stopPolling, pool, handled, dropped, bounds>>

StartWithoutDispatcher(r) ==
  /\ main[r] = "metrics"
  /\ main' = [main EXCEPT ![r] = "serving"]
  /\ worker' = [worker EXCEPT ![r] = [w \in Workers |-> "select"]]
  /\ UNCHANGED <<telegramVars, pollerVars, channel, jobs, dispatcher, held, job,
                 cancelled, stopPolling, pool, runners, handled, dropped, bounds>>

StartTelegramWorkers(r) ==
  /\ main[r] = "metrics"
  /\ main' = [main EXCEPT ![r] = "serving"]
  /\ dispatcher' = [dispatcher EXCEPT ![r] = "receive"]
  /\ worker' = [worker EXCEPT ![r] = [w \in Workers |-> "select"]]
  /\ UNCHANGED <<telegramVars, pollerVars, channel, jobs, held, job,
                 cancelled, stopPolling, pool, runners, handled, dropped, bounds>>

\* A start-up step returns an error, or the error of its cancelled context.
StartFailure(r) ==
  \/ startFailures < MaxStartFailures /\ startFailures' = startFailures + 1
  \/ cancelled[r] /\ UNCHANGED startFailures

\* fail: the same shutdown, with what has been started so far: nothing yet
\* (health server, NewOutboxPublisher), the publisher (NewIndexSubscriber) or
\* the subscriber as well (metrics server).
StartStepFails(r) ==
  /\ main[r] \in {"build", "bootstrap", "metrics"} /\ StartFailure(r)
  /\ main' = [main EXCEPT ![r] = "failed"]
  /\ UNCHANGED <<telegramVars, pollerVars, channel, jobs, pipeVars, cancelled, stopPolling,
                 pool, runners, handled, dropped, signals, crashes>>

SigTerm(r) ==
  /\ main[r] \in {"build", "bootstrap", "metrics", "serving"} /\ ~cancelled[r]
  /\ signals < MaxSignals
  /\ signals' = signals + 1
  /\ cancelled' = [cancelled EXCEPT ![r] = TRUE]
  /\ UNCHANGED <<telegramVars, pollerVars, channel, jobs, pipeVars, main, stopPolling, pool,
                 runners, handled, dropped, startFailures, crashes>>

\* The forwarder or the subscriber ends with ctx, or earlier with an error.
RunnerReturns(r, x) ==
  /\ x \in runners[r]
  /\ runners' = [runners EXCEPT ![r] = @ \ {x}]
  /\ UNCHANGED <<telegramVars, pollerVars, channel, jobs, pipeVars, main, cancelled,
                 stopPolling, pool, handled, dropped, bounds>>

ShutdownKeepsPolling(r) ==
  /\ main[r] = "failed" \/ (main[r] = "serving" /\ cancelled[r])
  /\ main' = [main EXCEPT ![r] = "waiting"]
  /\ cancelled' = [cancelled EXCEPT ![r] = TRUE]
  /\ UNCHANGED <<telegramVars, pollerVars, channel, jobs, pipeVars, stopPolling, pool, runners,
                 handled, dropped, bounds>>

\* cancel, StopReceivingUpdates, then the servers and the publisher close.
Shutdown(r) ==
  /\ main[r] = "failed" \/ (main[r] = "serving" /\ cancelled[r])
  /\ main' = [main EXCEPT ![r] = "waiting"]
  /\ cancelled' = [cancelled EXCEPT ![r] = TRUE]
  /\ stopPolling' = [stopPolling EXCEPT ![r] = TRUE]
  /\ UNCHANGED <<telegramVars, pollerVars, channel, jobs, pipeVars, pool, runners,
                 handled, dropped, bounds>>

GoroutinesDone(r) ==
  /\ dispatcher[r] \in {"off", "done"} /\ runners[r] = {}
  /\ \A w \in Workers : worker[r][w] \in {"off", "done"}

ClosePoolAtOnce(r) ==
  /\ main[r] = "waiting"
  /\ pool' = [pool EXCEPT ![r] = FALSE]
  /\ main' = [main EXCEPT ![r] = "exit"]
  /\ UNCHANGED <<telegramVars, pollerVars, channel, jobs, pipeVars, cancelled, stopPolling,
                 runners, handled, dropped, bounds>>

\* wg.Wait has no deadline of its own.
ClosePool(r) ==
  /\ main[r] = "waiting" /\ GoroutinesDone(r)
  /\ pool' = [pool EXCEPT ![r] = FALSE]
  /\ main' = [main EXCEPT ![r] = "exit"]
  /\ UNCHANGED <<telegramVars, pollerVars, channel, jobs, pipeVars, cancelled, stopPolling,
                 runners, handled, dropped, bounds>>

\* Updates the process has received and not handled.
InHand(r) ==
  (ToSet(batch[r]) \cup ToSet(channel[r]) \cup ToSet(jobs[r]) \cup {held[r]}
     \cup {job[r][w] : w \in Workers}) \ {NoUpdate}

\* The process is gone with all its memory.
Gone(r) ==
  /\ main' = [main EXCEPT ![r] = "down"]
  /\ dropped' = dropped \cup {u \in InHand(r) : u <= confirmed}
  /\ cancelled' = [cancelled EXCEPT ![r] = FALSE]
  /\ stopPolling' = [stopPolling EXCEPT ![r] = FALSE]
  /\ pool' = [pool EXCEPT ![r] = FALSE]
  /\ poller' = [poller EXCEPT ![r] = "off"]
  /\ offset' = [offset EXCEPT ![r] = 0]
  /\ batch' = [batch EXCEPT ![r] = <<>>]
  /\ channel' = [channel EXCEPT ![r] = <<>>]
  /\ dispatcher' = [dispatcher EXCEPT ![r] = "off"]
  /\ held' = [held EXCEPT ![r] = NoUpdate]
  /\ jobs' = [jobs EXCEPT ![r] = <<>>]
  /\ worker' = [worker EXCEPT ![r] = [w \in Workers |-> "off"]]
  /\ job' = [job EXCEPT ![r] = [w \in Workers |-> NoUpdate]]
  /\ runners' = [runners EXCEPT ![r] = {}]
  /\ UNCHANGED <<telegramVars, handled>>

\* Build closes its pool itself and main panics.
BuildFails(r) ==
  /\ main[r] = "build" /\ StartFailure(r)
  /\ Gone(r)
  /\ UNCHANGED <<signals, crashes>>

Exit(r) ==
  /\ main[r] = "exit"
  /\ Gone(r)
  /\ UNCHANGED bounds

\* Also the SIGKILL that ends a shutdown which takes too long.
Crash(r) ==
  /\ main[r] # "down" /\ crashes < MaxCrashes
  /\ crashes' = crashes + 1
  /\ Gone(r)
  /\ UNCHANGED <<signals, startFailures>>

-----------------------------------------------------------------------------
PollerStep(r) ==
  SendGetUpdates(r) \/ GetUpdatesDelivers(r) \/ GetUpdatesReturnsNothing(r)
    \/ PushUpdate(r) \/ PollerStops(r)

DispatcherStep(r) == ReceiveUpdate(r) \/ SendJob(r) \/ DispatcherStops(r)

WorkerStep(r, w) == TakeJob(r, w) \/ HandlerReturns(r, w) \/ WorkerStops(r, w)

StartUp(r) ==
  StartProcess(r) \/ StartPublisher(r) \/ StartIndexSubscriber(r) \/ StartTelegramWorkers(r)

ShutDown(r) == Shutdown(r) \/ ClosePool(r) \/ Exit(r)

Next ==
  \/ PostUpdate
  \/ \E r \in Replicas :
       \/ PollerStep(r) \/ DispatcherStep(r)
       \/ \E w \in Workers : WorkerStep(r, w)
       \/ StartUp(r) \/ BuildFails(r) \/ StartStepFails(r)
       \/ \E x \in Runners : RunnerReturns(r, x)
       \/ SigTerm(r) \/ ShutDown(r) \/ Crash(r)

Spec == Init /\ [][Next]_vars

\* Goroutines are scheduled, calls return, a long poll ends, Telegram does not
\* refuse every poll, runners obey ctx, and Kubernetes restarts the pod.
Fairness ==
  \A r \in Replicas :
    /\ WF_vars(PollerStep(r)) /\ SF_vars(GetUpdatesDelivers(r))
    /\ WF_vars(DispatcherStep(r))
    /\ \A w \in Workers : WF_vars(WorkerStep(r, w))
    /\ WF_vars(StartUp(r)) /\ WF_vars(ShutDown(r))
    /\ \A x \in Runners : WF_vars(cancelled[r] /\ RunnerReturns(r, x))

FairSpec == Spec /\ Fairness

-----------------------------------------------------------------------------
(* Properties.                                                             *)

\* No handler, forwarder or subscriber of a process runs after its pool is
\* closed, whichever step of start-up the shutdown begins at.
PoolOutlivesItsUsers ==
  \A r \in Replicas : ~pool[r] => GoroutinesDone(r)

\* An update Telegram has forgotten was handled, is in the hands of a process
\* or was lost with one; the queues between lose nothing.
NoUpdateVanishes ==
  \A u \in 1..confirmed :
    u \in handled \cup dropped \cup UNION {InHand(r) : r \in Replicas}

\* Updates are lost only by processes that end, so none while all live on.
EveryUpdateHandled ==
  \A u \in Updates : posted >= u ~> u \in handled \cup dropped

\* SIGTERM ends the process from every state, with full queues as well as
\* with a long poll under way.
ShutdownCompletes == \A r \in Replicas : cancelled[r] ~> main[r] = "down"

-----------------------------------------------------------------------------
(* Why they hold: the inductive invariant.                                 *)

\* What of a process exists at each point of its life.
ProcessState ==
  \A r \in Replicas :
    /\ pool[r] <=> main[r] \notin {"down", "exit"}
    /\ main[r] \in {"down", "exit"} => GoroutinesDone(r)
    /\ main[r] = "down" => poller[r] = "off"
    /\ main[r] \in {"down", "build", "bootstrap", "metrics"} =>
         dispatcher[r] = "off" /\ \A w \in Workers : worker[r][w] = "off"
    /\ dispatcher[r] = "send" => held[r] # NoUpdate
    /\ dispatcher[r] \in {"off", "receive"} => held[r] = NoUpdate
    /\ \A w \in Workers : job[r][w] # NoUpdate <=> worker[r][w] = "handle"

HandsHoldPosted == \A r \in Replicas : InHand(r) \subseteq 1..posted

\* The answer being pushed goes on where the offset, or Telegram, stands.
BatchIsNext ==
  \A r \in Replicas :
    /\ offset[r] <= posted + 1
    /\ batch[r] # <<>> <=> poller[r] = "push"
    /\ \A i \in 1..Len(batch[r]) : batch[r][i] = batch[r][1] + i - 1
    /\ batch[r] # <<>> => \A u \in Updates :
         u >= offset[r] /\ u < batch[r][1] => u <= confirmed

\* What a process has put behind its offset and not yet confirmed is its own.
OffsetIsOwn ==
  \A r \in Replicas : \A u \in Updates :
    u < offset[r] /\ u > confirmed => u \in handled \cup InHand(r)

LifecycleInvariant ==
  /\ TypeOK /\ ProcessState /\ HandsHoldPosted
  /\ BatchIsNext /\ OffsetIsOwn /\ NoUpdateVanishes

\* An update is in one place of a process only, because its queues keep the
\* order of the chats: what is further on its way came first.
Before(A, B) == \A a \in A, b \in B : a < b
Ascends(q) == \A m, n \in 1..Len(q) : m < n => q[m] < q[n]
Stages(r) ==
  <<{job[r][w] : w \in Workers} \ {NoUpdate}, ToSet(jobs[r]), {held[r]} \ {NoUpdate},
    ToSet(channel[r]), ToSet(batch[r])>>
InStages(S) == \A m, n \in 1..5 : m < n => Before(S[m], S[n])

InOrder(r) ==
  /\ InStages(Stages(r)) /\ Ascends(jobs[r]) /\ Ascends(channel[r])
  /\ \A n \in 1..4 : \A u \in Stages(r)[n] : u < offset[r]
  /\ \A u \in Stages(r)[5] : u >= offset[r]
  /\ \A v, w \in Workers : v # w /\ job[r][v] = job[r][w] => job[r][v] = NoUpdate
UpdatesInOrder == \A r \in Replicas : InOrder(r)

\* The last update a process has asked for.
Passed(r) ==
  IF batch[r] # <<>> THEN batch[r][Len(batch[r])]
  ELSE IF offset[r] = 0 THEN 0 ELSE offset[r] - 1

\* The pipeline keeps the promise of UpdateDelivery: no process handles an
\* update twice in one life, whatever is confirmed, queued or answered late,
\* and what Telegram forgets is in the hands of a process by then.
Delivery == INSTANCE UpdateDelivery
  WITH Process <- Replicas, sent <- posted, forgotten <- confirmed, lost <- dropped,
       passed <- [r \in Replicas |-> Passed(r)], hands <- [r \in Replicas |-> InHand(r)]
PipelineDelivers == Delivery!Spec

=============================================================================
