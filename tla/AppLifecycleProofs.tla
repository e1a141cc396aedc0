------------------------- MODULE AppLifecycleProofs -------------------------
(***************************************************************************)
(* Proofs about AppLifecycle for any number of replicas and workers and    *)
(* any capacity of the queues: no update vanishes between Telegram and a   *)
(* handler, none is in two places of a process, the pipeline keeps the     *)
(* promise of UpdateDelivery, the pool of a process outlives those who use *)
(* it, and neither the pipeline nor a shutdown ever waits in vain.         *)
(***************************************************************************)
EXTENDS AppLifecycle, TLAPS

LEMMA BoundTypes ==
  MaxUpdates \in Nat /\ MaxSignals \in Nat /\ MaxStartFailures \in Nat /\ MaxCrashes \in Nat
BY BoundsAssumption

LEMMA InitLifecycleInvariant == Init => LifecycleInvariant
<1>. SUFFICES ASSUME Init PROVE LifecycleInvariant
  OBVIOUS
<1>. USE DEF Init
<1>1. TypeOK
  BY BoundTypes, CapacityAssumption DEF TypeOK, Updates, NoUpdate
<1>2. ProcessState
  BY DEF ProcessState, GoroutinesDone, NoUpdate
<1>3. \A r \in Replicas : InHand(r) = {}
  BY DEF InHand, ToSet, NoUpdate
<1>4. BatchIsNext
  BY DEF BatchIsNext
<1>5. OffsetIsOwn /\ NoUpdateVanishes /\ HandsHoldPosted
  BY <1>3 DEF OffsetIsOwn, NoUpdateVanishes, HandsHoldPosted, Updates
<1>. QED
  BY <1>1, <1>2, <1>4, <1>5 DEF LifecycleInvariant

-----------------------------------------------------------------------------
(* Queues.                                                                 *)

LEMMA ToSetAppend ==
  ASSUME NEW S, NEW q \in Seq(S), NEW x \in S
  PROVE  ToSet(Append(q, x)) = ToSet(q) \cup {x}
<1>. DEFINE a == Append(q, x)
<1>1. /\ Len(q) \in Nat /\ Len(a) = Len(q) + 1 /\ a[Len(q) + 1] = x
      /\ \A i \in 1..Len(q) : a[i] = q[i]
      /\ DOMAIN a = 1..Len(a) /\ DOMAIN q = 1..Len(q)
  OBVIOUS
<1>. HIDE DEF a
<1>2. ASSUME NEW i \in 1..Len(a) PROVE a[i] \in ToSet(q) \cup {x}
  BY <1>1 DEF ToSet
<1>3. x \in ToSet(a) /\ \A i \in 1..Len(q) : q[i] \in ToSet(a)
  <2>1. Len(q) + 1 \in DOMAIN a /\ \A i \in 1..Len(q) : i \in DOMAIN a
    BY <1>1
  <2>. QED
    BY <1>1, <2>1 DEF ToSet
<1>. QED
  BY <1>1, <1>2, <1>3 DEF ToSet, a

LEMMA FunctionIsSeq ==
  ASSUME NEW S, NEW n \in Nat, NEW f \in [1..n -> S]
  PROVE  f \in Seq(S) /\ Len(f) = n
OBVIOUS

LEMMA EmptySeq ==
  ASSUME NEW S, NEW t \in Seq(S)
  PROVE  t # <<>> <=> Len(t) # 0
OBVIOUS

LEMMA ToSetTail ==
  ASSUME NEW S, NEW q \in Seq(S), q # <<>>
  PROVE  /\ Head(q) \in S /\ Tail(q) \in Seq(S) /\ Len(Tail(q)) = Len(q) - 1
         /\ \A i \in 1..Len(Tail(q)) : Tail(q)[i] = q[i + 1]
         /\ ToSet(q) = {Head(q)} \cup ToSet(Tail(q))
<1>1. /\ Head(q) \in S /\ Tail(q) \in Seq(S) /\ Len(Tail(q)) = Len(q) - 1
      /\ Len(q) \in Nat \ {0} /\ Head(q) = q[1]
      /\ \A i \in 1..Len(Tail(q)) : Tail(q)[i] = q[i + 1]
      /\ DOMAIN q = 1..Len(q) /\ DOMAIN Tail(q) = 1..Len(Tail(q))
  OBVIOUS
<1>2. ASSUME NEW i \in 1..Len(q) PROVE q[i] \in {Head(q)} \cup ToSet(Tail(q))
  <2>1. CASE i = 1
    BY <2>1, <1>1
  <2>2. CASE i # 1
    <3>1. i - 1 \in 1..Len(Tail(q)) /\ Tail(q)[i - 1] = q[i]
      BY <2>2, <1>1
    <3>. QED
      BY <3>1, <1>1 DEF ToSet
  <2>. QED
    BY <2>1, <2>2
<1>3. ASSUME NEW i \in 1..Len(Tail(q)) PROVE Tail(q)[i] \in ToSet(q)
  <2>1. i + 1 \in 1..Len(q) /\ Tail(q)[i] = q[i + 1]
    BY <1>1
  <2>. QED
    BY <2>1, <1>1 DEF ToSet
<1>4. Head(q) \in ToSet(q)
  BY <1>1 DEF ToSet
<1>. QED
  BY <1>1, <1>2, <1>3, <1>4 DEF ToSet

-----------------------------------------------------------------------------
(* Types.                                                                  *)

LEMMA HandTypes ==
  ASSUME TypeOK, NEW r \in Replicas
  PROVE  InHand(r) \subseteq Updates
<1>1. ToSet(batch[r]) \subseteq Updates /\ ToSet(channel[r]) \subseteq Updates
      /\ ToSet(jobs[r]) \subseteq Updates
  BY DEF TypeOK, ToSet
<1>2. held[r] \in Updates \cup {NoUpdate}
      /\ \A w \in Workers : job[r][w] \in Updates \cup {NoUpdate}
  BY DEF TypeOK
<1>. QED
  BY <1>1, <1>2 DEF InHand

LEMMA PollerTypes ==
  ASSUME LifecycleInvariant, NEW r \in Replicas, PollerStep(r)
  PROVE  TypeOK'
<1>. USE DEF LifecycleInvariant, TypeOK, telegramVars, pollerVars, pipeVars, processVars, bounds
<1>1. CASE SendGetUpdates(r)
  <2>1. offset[r] \in Nat /\ offset[r] <= posted + 1
    BY BoundTypes DEF BatchIsNext
  <2>2. confirmed' \in 0..posted
    BY <1>1, <2>1 DEF SendGetUpdates
  <2>. QED
    BY <1>1, <2>2 DEF SendGetUpdates
<1>2. CASE GetUpdatesDelivers(r)
  <2>1. Oldest(r) \in 1..posted
    BY <1>2 DEF GetUpdatesDelivers, Oldest
  <2>. DEFINE o == Oldest(r)
              answer == [i \in 1..(posted + 1 - o) |-> o + i - 1]
  <2>2. answer \in Seq(Updates)
    <3>1. o \in 1..posted /\ posted \in 0..MaxUpdates
      BY <2>1
    <3>. HIDE DEF o
    <3>2. posted + 1 - o \in Nat /\ \A i \in 1..(posted + 1 - o) : o + i - 1 \in Updates
      BY <3>1, BoundTypes DEF Updates
    <3>3. answer \in [1..(posted + 1 - o) -> Updates]
      BY <3>2
    <3>. QED
      BY <3>2, <3>3, FunctionIsSeq
  <2>. QED
    BY <1>2, <2>2 DEF GetUpdatesDelivers
<1>3. CASE GetUpdatesReturnsNothing(r)
  BY <1>3 DEF GetUpdatesReturnsNothing
<1>4. CASE PushUpdate(r)
  <2>1. batch[r] # <<>> /\ batch[r] \in Seq(Updates)
    BY <1>4 DEF PushUpdate, BatchIsNext
  <2>2. Head(batch[r]) \in Updates /\ Tail(batch[r]) \in Seq(Updates)
    BY <2>1
  <2>3. Append(channel[r], Head(batch[r])) \in Seq(Updates)
        /\ Len(Append(channel[r], Head(batch[r]))) = Len(channel[r]) + 1
    BY <2>2
  <2>4. Len(channel'[r]) <= UpdatesBuffer
    BY <1>4, <2>3, CapacityAssumption DEF PushUpdate
  <2>5. Head(batch[r]) + 1 \in 0..(MaxUpdates + 1)
    BY <2>2, BoundTypes DEF Updates
  <2>. QED
    BY <1>4, <2>2, <2>3, <2>4, <2>5 DEF PushUpdate
<1>5. CASE PollerStops(r)
  BY <1>5 DEF PollerStops
<1>. QED
  BY <1>1, <1>2, <1>3, <1>4, <1>5 DEF PollerStep

LEMMA DispatcherTypes ==
  ASSUME LifecycleInvariant, NEW r \in Replicas, DispatcherStep(r)
  PROVE  TypeOK'
<1>. USE DEF LifecycleInvariant, TypeOK, telegramVars, pollerVars, pipeVars, processVars, bounds
<1>1. CASE ReceiveUpdate(r)
  <2>1. channel[r] # <<>> /\ channel[r] \in Seq(Updates)
    BY <1>1 DEF ReceiveUpdate
  <2>2. Head(channel[r]) \in Updates /\ Tail(channel[r]) \in Seq(Updates)
        /\ Len(Tail(channel[r])) = Len(channel[r]) - 1 /\ Len(channel[r]) \in Nat
    BY <2>1
  <2>3. Len(channel'[r]) <= UpdatesBuffer
    BY <1>1, <2>2, CapacityAssumption DEF ReceiveUpdate
  <2>. QED
    BY <1>1, <2>2, <2>3 DEF ReceiveUpdate
<1>2. CASE SendJob(r)
  <2>1. held[r] \in Updates
    BY <1>2 DEF SendJob, ProcessState
  <2>2. Append(jobs[r], held[r]) \in Seq(Updates)
        /\ Len(Append(jobs[r], held[r])) = Len(jobs[r]) + 1 /\ Len(jobs[r]) \in Nat
    BY <2>1
  <2>3. Len(jobs'[r]) <= JobsBuffer
    BY <1>2, <2>2, CapacityAssumption DEF SendJob
  <2>. QED
    BY <1>2, <2>2, <2>3 DEF SendJob
<1>3. CASE DispatcherStops(r)
  BY <1>3 DEF DispatcherStops
<1>. QED
  BY <1>1, <1>2, <1>3 DEF DispatcherStep

LEMMA WorkerTypes ==
  ASSUME LifecycleInvariant, NEW r \in Replicas, NEW w \in Workers, WorkerStep(r, w)
  PROVE  TypeOK'
<1>. USE DEF LifecycleInvariant, TypeOK, telegramVars, pollerVars, pipeVars, processVars, bounds
<1>1. CASE TakeJob(r, w)
  <2>1. jobs[r] # <<>> /\ jobs[r] \in Seq(Updates)
    BY <1>1 DEF TakeJob
  <2>2. Head(jobs[r]) \in Updates /\ Tail(jobs[r]) \in Seq(Updates)
        /\ Len(Tail(jobs[r])) = Len(jobs[r]) - 1 /\ Len(jobs[r]) \in Nat
    BY <2>1
  <2>3. Len(jobs'[r]) <= JobsBuffer
    BY <1>1, <2>2, CapacityAssumption DEF TakeJob
  <2>. QED
    BY <1>1, <2>2, <2>3 DEF TakeJob
<1>2. CASE HandlerReturns(r, w)
  <2>1. job[r][w] \in 1..posted
    <3>1. job[r][w] \in InHand(r)
      BY <1>2 DEF HandlerReturns, ProcessState, InHand
    <3>. QED
      BY <3>1 DEF HandsHoldPosted
  <2>. QED
    BY <1>2, <2>1 DEF HandlerReturns
<1>3. CASE WorkerStops(r, w)
  BY <1>3 DEF WorkerStops
<1>. QED
  BY <1>1, <1>2, <1>3 DEF WorkerStep

LEMMA GoneTypes ==
  ASSUME LifecycleInvariant, NEW r \in Replicas, Gone(r),
         signals' \in 0..MaxSignals, startFailures' \in 0..MaxStartFailures,
         crashes' \in 0..MaxCrashes
  PROVE  TypeOK'
<1>1. dropped' \subseteq 1..posted
  BY DEF LifecycleInvariant, TypeOK, HandsHoldPosted, Gone
<1>2. 0 <= UpdatesBuffer /\ 0 <= JobsBuffer
  BY CapacityAssumption
<1>3. <<>> \in Seq(Updates) /\ Len(<<>>) = 0
  OBVIOUS
<1>4. 0 \in 0..(MaxUpdates + 1)
  BY BoundTypes
<1>. QED
  BY <1>1, <1>2, <1>3, <1>4 DEF LifecycleInvariant, TypeOK, Gone, telegramVars

LEMMA ProcessTypes ==
  ASSUME LifecycleInvariant, NEW r \in Replicas,
         \/ StartUp(r) \/ BuildFails(r) \/ StartStepFails(r)
         \/ \E x \in Runners : RunnerReturns(r, x)
         \/ SigTerm(r) \/ ShutDown(r) \/ Crash(r)
  PROVE  TypeOK'
<1>. USE DEF LifecycleInvariant, TypeOK, telegramVars, pollerVars, pipeVars, processVars, bounds
<1>1. CASE StartProcess(r)
  BY <1>1 DEF StartProcess
<1>2. CASE StartPublisher(r)
  BY <1>2 DEF StartPublisher, Runners
<1>3. CASE StartIndexSubscriber(r)
  BY <1>3 DEF StartIndexSubscriber, Runners
<1>12. CASE StartTelegramWorkers(r)
  BY <1>12 DEF StartTelegramWorkers
<1>4. CASE BuildFails(r)
  <2>1. signals' \in 0..MaxSignals /\ crashes' \in 0..MaxCrashes
    BY <1>4 DEF BuildFails
  <2>2. startFailures' \in 0..MaxStartFailures
    BY <1>4, BoundTypes DEF BuildFails, StartFailure
  <2>. QED
    BY <1>4, <2>1, <2>2, GoneTypes DEF BuildFails
<1>5. CASE StartStepFails(r)
  BY <1>5, BoundTypes, SMTT(30) DEF StartStepFails, StartFailure
<1>6. CASE \E x \in Runners : RunnerReturns(r, x)
  BY <1>6, SMTT(30) DEF RunnerReturns, Runners
<1>7. CASE SigTerm(r)
  BY <1>7, BoundTypes DEF SigTerm
<1>8. CASE Shutdown(r)
  BY <1>8 DEF Shutdown
<1>9. CASE ClosePool(r)
  BY <1>9 DEF ClosePool
<1>10. CASE Exit(r)
  BY <1>10, GoneTypes DEF Exit
<1>11. CASE Crash(r)
  <2>1. signals' \in 0..MaxSignals /\ startFailures' \in 0..MaxStartFailures
    BY <1>11 DEF Crash
  <2>2. crashes' \in 0..MaxCrashes
    BY <1>11, BoundTypes DEF Crash
  <2>. QED
    BY <1>11, <2>1, <2>2, GoneTypes DEF Crash
<1>. QED
  BY <1>1, <1>2, <1>3, <1>4, <1>5, <1>6, <1>7, <1>8, <1>9, <1>10, <1>11, <1>12 DEF StartUp, ShutDown

LEMMA PostTypes ==
  ASSUME LifecycleInvariant, PostUpdate
  PROVE  TypeOK'
BY BoundTypes DEF LifecycleInvariant, TypeOK, PostUpdate, pollerVars, pipeVars, processVars, bounds

-----------------------------------------------------------------------------
(* The states of a process.                                                *)

\* A step of r leaves every other process as it is.
LEMMA OtherProcesses ==
  ASSUME LifecycleInvariant, NEW r \in Replicas, NEW q \in Replicas, q # r,
         \/ PollerStep(r) \/ DispatcherStep(r) \/ \E w \in Workers : WorkerStep(r, w)
         \/ StartUp(r) \/ BuildFails(r) \/ StartStepFails(r)
         \/ \E x \in Runners : RunnerReturns(r, x)
         \/ SigTerm(r) \/ ShutDown(r) \/ Crash(r)
  PROVE  /\ main'[q] = main[q] /\ pool'[q] = pool[q] /\ runners'[q] = runners[q]
         /\ poller'[q] = poller[q] /\ offset'[q] = offset[q] /\ batch'[q] = batch[q]
         /\ channel'[q] = channel[q] /\ jobs'[q] = jobs[q] /\ held'[q] = held[q]
         /\ dispatcher'[q] = dispatcher[q]
         /\ worker'[q] = worker[q] /\ job'[q] = job[q]
<1>. USE DEF LifecycleInvariant, TypeOK, telegramVars, pollerVars, pipeVars, processVars, bounds
<1>1. CASE PollerStep(r)
  BY <1>1, SMTT(30) DEF PollerStep, SendGetUpdates, GetUpdatesDelivers, GetUpdatesReturnsNothing,
              PushUpdate, PollerStops
<1>2. CASE DispatcherStep(r)
  BY <1>2, ZenonT(30) DEF DispatcherStep, ReceiveUpdate, SendJob, DispatcherStops
<1>3. CASE \E w \in Workers : WorkerStep(r, w)
  BY <1>3, SMTT(30) DEF WorkerStep, TakeJob, HandlerReturns, WorkerStops
<1>4. CASE StartUp(r)
  BY <1>4, SMTT(30) DEF StartUp, StartProcess, StartPublisher, StartIndexSubscriber,
                        StartTelegramWorkers
<1>5. CASE BuildFails(r) \/ Exit(r) \/ Crash(r)
  BY <1>5, SMTT(30) DEF BuildFails, Exit, Crash, Gone
<1>6. CASE StartStepFails(r) \/ SigTerm(r) \/ \E x \in Runners : RunnerReturns(r, x)
  BY <1>6 DEF StartStepFails, SigTerm, RunnerReturns
<1>7. CASE Shutdown(r) \/ ClosePool(r)
  BY <1>7 DEF Shutdown, ClosePool
<1>. QED
  BY <1>1, <1>2, <1>3, <1>4, <1>5, <1>6, <1>7 DEF ShutDown

\* ProcessState of one replica.
ProcessStateOf(r) ==
  /\ pool[r] <=> main[r] \notin {"down", "exit"}
  /\ main[r] \in {"down", "exit"} => GoroutinesDone(r)
  /\ main[r] = "down" => poller[r] = "off"
  /\ main[r] \in {"down", "build", "bootstrap", "metrics"} =>
       dispatcher[r] = "off" /\ \A w \in Workers : worker[r][w] = "off"
  /\ dispatcher[r] = "send" => held[r] # NoUpdate
  /\ dispatcher[r] \in {"off", "receive"} => held[r] = NoUpdate
  /\ \A w \in Workers : job[r][w] # NoUpdate <=> worker[r][w] = "handle"

LEMMA OwnProcessState ==
  ASSUME LifecycleInvariant, NEW r \in Replicas,
         \/ PollerStep(r) \/ DispatcherStep(r) \/ \E w \in Workers : WorkerStep(r, w)
         \/ StartUp(r) \/ BuildFails(r) \/ StartStepFails(r)
         \/ \E x \in Runners : RunnerReturns(r, x)
         \/ SigTerm(r) \/ ShutDown(r) \/ Crash(r)
  PROVE  ProcessStateOf(r)'
<1>. USE DEF TypeOK, ProcessStateOf, GoroutinesDone, telegramVars, pollerVars, pipeVars,
             processVars, bounds
<1>0. TypeOK /\ ProcessStateOf(r)
  BY DEF LifecycleInvariant, ProcessState
<1>1. CASE PollerStep(r)
  BY <1>0, <1>1 DEF PollerStep, SendGetUpdates, GetUpdatesDelivers, GetUpdatesReturnsNothing,
                    PushUpdate, PollerStops
<1>2. CASE ReceiveUpdate(r)
  <2>1. Head(channel[r]) \in Updates
    BY <1>0, <1>2 DEF ReceiveUpdate
  <2>2. Head(channel[r]) # NoUpdate
    BY <2>1 DEF Updates, NoUpdate
  <2>. QED
    BY <1>0, <1>2, <2>2 DEF ReceiveUpdate
<1>3. CASE SendJob(r) \/ DispatcherStops(r)
  BY <1>0, <1>3 DEF SendJob, DispatcherStops
<1>4. ASSUME NEW w \in Workers, TakeJob(r, w) PROVE ProcessStateOf(r)'
  <2>1. Head(jobs[r]) \in Updates
    BY <1>0, <1>4 DEF TakeJob
  <2>2. Head(jobs[r]) # NoUpdate
    BY <2>1 DEF Updates, NoUpdate
  <2>. QED
    BY <1>0, <1>4, <2>2 DEF TakeJob
<1>5. ASSUME NEW w \in Workers, HandlerReturns(r, w) \/ WorkerStops(r, w)
      PROVE ProcessStateOf(r)'
  <2>1. main[r] \notin {"down", "build", "bootstrap", "metrics", "exit"}
    BY <1>0, <1>5 DEF HandlerReturns, WorkerStops
  <2>2. CASE HandlerReturns(r, w)
    <3>1. /\ worker'[r][w] = "select" /\ job'[r][w] = NoUpdate
          /\ \A v \in Workers \ {w} : worker'[r][v] = worker[r][v] /\ job'[r][v] = job[r][v]
      BY <1>0, <2>2 DEF HandlerReturns
    <3>. QED
      BY <1>0, <2>1, <2>2, <3>1 DEF HandlerReturns
  <2>3. CASE WorkerStops(r, w)
    <3>1. /\ worker'[r][w] = "done" /\ worker[r][w] = "select"
          /\ \A v \in Workers \ {w} : worker'[r][v] = worker[r][v]
      BY <1>0, <2>3 DEF WorkerStops
    <3>. QED
      BY <1>0, <2>1, <2>3, <3>1 DEF WorkerStops
  <2>. QED
    BY <1>5, <2>2, <2>3
<1>6. CASE StartUp(r)
  <2>1. CASE StartProcess(r)
    BY <1>0, <2>1 DEF StartProcess
  <2>2. CASE StartPublisher(r)
    BY <1>0, <2>2 DEF StartPublisher
  <2>3. CASE StartIndexSubscriber(r) \/ StartTelegramWorkers(r)
    BY <1>0, <2>3 DEF StartIndexSubscriber, StartTelegramWorkers
  <2>. QED
    BY <1>6, <2>1, <2>2, <2>3 DEF StartUp
<1>7. CASE BuildFails(r) \/ Exit(r) \/ Crash(r)
  BY <1>0, <1>7 DEF BuildFails, Exit, Crash, Gone
<1>8. CASE StartStepFails(r) \/ SigTerm(r) \/ \E x \in Runners : RunnerReturns(r, x)
  BY <1>0, <1>8 DEF StartStepFails, SigTerm, RunnerReturns
<1>9. CASE Shutdown(r) \/ ClosePool(r)
  BY <1>0, <1>9 DEF Shutdown, ClosePool
<1>. QED
  BY <1>1, <1>2, <1>3, <1>4, <1>5, <1>6, <1>7, <1>8, <1>9
     DEF DispatcherStep, WorkerStep, ShutDown

-----------------------------------------------------------------------------
(* Updates in hand.                                                        *)

\* No step of a process that lives on loses an update.
LEMMA HandsKeep ==
  ASSUME LifecycleInvariant, NEW r \in Replicas,
         \/ PollerStep(r) \/ DispatcherStep(r) \/ \E w \in Workers : WorkerStep(r, w)
  PROVE  /\ InHand(r) \subseteq InHand(r)' \cup handled'
         /\ InHand(r)' \subseteq InHand(r) \cup 1..posted
<1>. USE DEF telegramVars, pollerVars, pipeVars, processVars, bounds
<1>0. TypeOK
  BY DEF LifecycleInvariant
<1>1. CASE SendGetUpdates(r) \/ GetUpdatesReturnsNothing(r) \/ PollerStops(r)
           \/ DispatcherStops(r) \/ \E w \in Workers : WorkerStops(r, w)
  <2>1. UNCHANGED <<batch, channel, jobs, held, job>>
    BY <1>1 DEF SendGetUpdates, GetUpdatesReturnsNothing, PollerStops, DispatcherStops, WorkerStops
  <2>. QED
    BY <2>1 DEF InHand
<1>2. CASE GetUpdatesDelivers(r)
  <2>1. batch[r] = <<>>
    BY <1>2 DEF GetUpdatesDelivers, LifecycleInvariant, BatchIsNext
  <2>2. ToSet(batch[r]) = {}
    BY <2>1 DEF ToSet
  <2>3. ToSet(batch'[r]) \subseteq 1..posted
    <3>1. Oldest(r) \in 1..posted /\ posted \in Nat
      BY <1>0, <1>2 DEF GetUpdatesDelivers, Oldest, TypeOK
    <3>. DEFINE o == Oldest(r)
    <3>2. batch'[r] = [i \in 1..(posted + 1 - o) |-> o + i - 1]
      BY <1>0, <1>2 DEF GetUpdatesDelivers, TypeOK
    <3>. HIDE DEF o
    <3>3. o \in 1..posted
      BY <3>1 DEF o
    <3>. QED
      BY <3>1, <3>2, <3>3 DEF ToSet
  <2>. QED
    BY <1>2, <2>2, <2>3 DEF GetUpdatesDelivers, InHand
<1>3. CASE PushUpdate(r)
  <2>. DEFINE x == Head(batch[r])
  <2>1. batch[r] # <<>> /\ batch[r] \in Seq(Updates) /\ channel[r] \in Seq(Updates)
    BY <1>0, <1>3 DEF PushUpdate, LifecycleInvariant, BatchIsNext, TypeOK
  <2>2. x \in Updates /\ ToSet(batch[r]) = {x} \cup ToSet(Tail(batch[r]))
    BY <2>1, ToSetTail
  <2>3. batch'[r] = Tail(batch[r]) /\ channel'[r] = Append(channel[r], x)
    BY <1>0, <1>3 DEF PushUpdate, TypeOK
  <2>4. ToSet(channel'[r]) = ToSet(channel[r]) \cup {x}
    BY <2>1, <2>2, <2>3, ToSetAppend
  <2>. QED
    BY <1>3, <2>2, <2>3, <2>4 DEF PushUpdate, InHand
<1>4. CASE ReceiveUpdate(r)
  <2>. DEFINE x == Head(channel[r])
  <2>1. channel[r] # <<>> /\ channel[r] \in Seq(Updates) /\ held[r] = NoUpdate
    BY <1>0, <1>4 DEF ReceiveUpdate, LifecycleInvariant, ProcessState, TypeOK
  <2>2. ToSet(channel[r]) = {x} \cup ToSet(Tail(channel[r]))
    BY <2>1, ToSetTail
  <2>3. channel'[r] = Tail(channel[r]) /\ held'[r] = x
    BY <1>0, <1>4 DEF ReceiveUpdate, TypeOK
  <2>. QED
    BY <1>4, <2>1, <2>2, <2>3 DEF ReceiveUpdate, InHand
<1>5. CASE SendJob(r)
  <2>1. held[r] \in Updates /\ jobs[r] \in Seq(Updates)
    BY <1>0, <1>5 DEF SendJob, LifecycleInvariant, ProcessState, TypeOK
  <2>2. jobs'[r] = Append(jobs[r], held[r]) /\ held'[r] = NoUpdate
    BY <1>0, <1>5 DEF SendJob, TypeOK
  <2>3. ToSet(jobs'[r]) = ToSet(jobs[r]) \cup {held[r]}
    BY <2>1, <2>2, ToSetAppend
  <2>. QED
    BY <1>5, <2>2, <2>3 DEF SendJob, InHand
<1>6. ASSUME NEW w \in Workers, TakeJob(r, w)
      PROVE  InHand(r)' = InHand(r)
  <2>. DEFINE x == Head(jobs[r])
  <2>1. jobs[r] # <<>> /\ jobs[r] \in Seq(Updates) /\ job[r][w] = NoUpdate
    BY <1>0, <1>6 DEF TakeJob, LifecycleInvariant, ProcessState, TypeOK
  <2>2. ToSet(jobs[r]) = {x} \cup ToSet(Tail(jobs[r]))
    BY <2>1, ToSetTail
  <2>3. /\ jobs'[r] = Tail(jobs[r]) /\ job'[r][w] = x
        /\ \A v \in Workers \ {w} : job'[r][v] = job[r][v]
    BY <1>0, <1>6 DEF TakeJob, TypeOK
  <2>4. {job'[r][v] : v \in Workers} \cup {NoUpdate}
          = {job[r][v] : v \in Workers} \cup {x, NoUpdate}
    BY <2>1, <2>3
  <2>. QED
    BY <1>6, <2>2, <2>3, <2>4 DEF TakeJob, InHand
<1>7. ASSUME NEW w \in Workers, HandlerReturns(r, w)
      PROVE  InHand(r) \subseteq InHand(r)' \cup handled' /\ InHand(r)' \subseteq InHand(r)
  <2>1. /\ job'[r][w] = NoUpdate /\ handled' = handled \cup {job[r][w]}
        /\ \A v \in Workers \ {w} : job'[r][v] = job[r][v]
    BY <1>0, <1>7 DEF HandlerReturns, TypeOK
  <2>. QED
    BY <1>7, <2>1 DEF HandlerReturns, InHand
<1>. QED
  BY <1>1, <1>2, <1>3, <1>4, <1>5, <1>6, <1>7 DEF PollerStep, DispatcherStep, WorkerStep

LEMMA StillHands ==
  ASSUME LifecycleInvariant, NEW r \in Replicas,
         \/ StartUp(r) \/ StartStepFails(r) \/ \E x \in Runners : RunnerReturns(r, x)
         \/ SigTerm(r) \/ Shutdown(r) \/ ClosePool(r)
  PROVE  /\ \A q \in Replicas : InHand(q)' = InHand(q)
         /\ UNCHANGED <<posted, confirmed, offset, batch, handled, dropped>>
<1>1. UNCHANGED <<posted, confirmed, offset, batch, channel, jobs, held, job, handled, dropped>>
  BY DEF StartUp, StartProcess, StartPublisher, StartIndexSubscriber, StartTelegramWorkers,
         StartStepFails,
         RunnerReturns, SigTerm, Shutdown, ClosePool, telegramVars, pollerVars, pipeVars
<1>. QED
  BY <1>1 DEF InHand

-----------------------------------------------------------------------------
(* Accounting.                                                             *)

\* What is accounted for stays so while hands lose nothing unhandled.
LEMMA Accounting ==
  ASSUME LifecycleInvariant, handled \subseteq handled', dropped \subseteq dropped',
         \A q \in Replicas : InHand(q) \subseteq InHand(q)' \cup handled',
         NEW u \in 1..confirmed
  PROVE  u \in handled' \cup dropped' \cup UNION {InHand(q)' : q \in Replicas}
<1>1. u \in handled \cup dropped \cup UNION {InHand(q) : q \in Replicas}
  BY DEF LifecycleInvariant, NoUpdateVanishes
<1>. QED
  BY <1>1

\* InHand' as a set of replicas' sets.
LEMMA VanishesPrime ==
  ASSUME \A u \in 1..confirmed' :
           u \in handled' \cup dropped' \cup UNION {InHand(q)' : q \in Replicas}
  PROVE  NoUpdateVanishes'
BY DEF NoUpdateVanishes

LEMMA HandsHoldPostedStep ==
  ASSUME LifecycleInvariant, posted' \in Nat, posted <= posted',
         \A q \in Replicas : InHand(q)' \subseteq InHand(q) \cup 1..posted
  PROVE  HandsHoldPosted'
<1>1. 1..posted \subseteq 1..posted'
  BY BoundTypes DEF LifecycleInvariant, TypeOK
<1>. QED
  BY <1>1 DEF LifecycleInvariant, HandsHoldPosted

\* BatchIsNext of one replica.
BatchIsNextOf(r) ==
  /\ offset[r] <= posted + 1
  /\ batch[r] # <<>> <=> poller[r] = "push"
  /\ \A i \in 1..Len(batch[r]) : batch[r][i] = batch[r][1] + i - 1
  /\ batch[r] # <<>> => \A u \in Updates :
       u >= offset[r] /\ u < batch[r][1] => u <= confirmed

LEMMA PushedBatch ==
  ASSUME LifecycleInvariant, NEW r \in Replicas, PushUpdate(r)
  PROVE  /\ Head(batch[r]) = batch[r][1] /\ Head(batch[r]) \in Updates
         /\ Head(batch[r]) \in InHand(r) /\ offset'[r] = Head(batch[r]) + 1
         /\ BatchIsNextOf(r)'
<1>. DEFINE b == batch[r]
            x == Head(b)
<1>1. b # <<>> /\ b \in Seq(Updates)
  BY DEF PushUpdate, LifecycleInvariant, BatchIsNext, TypeOK
<1>2. /\ x \in Updates /\ x = b[1] /\ ToSet(b) = {x} \cup ToSet(Tail(b))
      /\ Len(b) \in Nat \ {0} /\ Tail(b) \in Seq(Updates) /\ Len(Tail(b)) = Len(b) - 1
      /\ \A i \in 1..Len(Tail(b)) : Tail(b)[i] = b[i + 1]
  BY <1>1, ToSetTail
<1>3. x \in InHand(r)
  BY <1>2 DEF InHand, Updates, NoUpdate
<1>4. x <= posted
  BY <1>3 DEF LifecycleInvariant, HandsHoldPosted
<1>5. /\ batch'[r] = Tail(b) /\ offset'[r] = x + 1
      /\ poller'[r] = IF Len(b) = 1 THEN "loop" ELSE "push"
      /\ UNCHANGED <<posted, confirmed>>
  BY DEF PushUpdate, LifecycleInvariant, TypeOK, telegramVars
<1>6. \A i \in 1..Len(b) : b[i] = b[1] + i - 1
  BY DEF LifecycleInvariant, BatchIsNext
<1>. HIDE DEF b, x
<1>7. \A i \in 1..Len(Tail(b)) : Tail(b)[i] = x + i
  BY <1>2, <1>6 DEF Updates
<1>8. \A i \in 1..Len(Tail(b)) : Tail(b)[i] = Tail(b)[1] + i - 1
  BY <1>2, <1>7 DEF Updates
<1>9. Tail(b) # <<>> <=> Len(b) # 1
  <2>1. Tail(b) # <<>> <=> Len(Tail(b)) # 0
    BY <1>2, EmptySeq, Zenon
  <2>. QED
    BY <1>2, <2>1
<1>10. Tail(b) # <<>> => Tail(b)[1] = x + 1
  BY <1>2, <1>7, <1>9
<1>11. offset'[r] <= posted' + 1
  BY <1>2, <1>4, <1>5 DEF LifecycleInvariant, TypeOK, Updates
<1>12. batch'[r] # <<>> => \A u \in Updates :
          u >= offset'[r] /\ u < batch'[r][1] => u <= confirmed'
  BY <1>2, <1>5, <1>10 DEF Updates
<1>13. BatchIsNextOf(r)'
  BY <1>5, <1>8, <1>9, <1>11, <1>12 DEF BatchIsNextOf
<1>. QED
  BY <1>2, <1>3, <1>5, <1>13 DEF b, x

LEMMA OwnBatch ==
  ASSUME LifecycleInvariant, NEW r \in Replicas,
         \/ PollerStep(r) \/ DispatcherStep(r) \/ \E w \in Workers : WorkerStep(r, w)
         \/ StartUp(r) \/ BuildFails(r) \/ StartStepFails(r)
         \/ \E x \in Runners : RunnerReturns(r, x)
         \/ SigTerm(r) \/ ShutDown(r) \/ Crash(r)
  PROVE  BatchIsNextOf(r)'
<1>. USE DEF telegramVars, pollerVars, pipeVars, processVars, bounds
<1>0. TypeOK /\ BatchIsNextOf(r) /\ ProcessStateOf(r)
  BY DEF LifecycleInvariant, BatchIsNext, BatchIsNextOf, ProcessState, ProcessStateOf
<1>1. CASE UNCHANGED <<posted, confirmed, offset, batch, poller>>
  BY <1>0, <1>1 DEF BatchIsNextOf
<1>2. CASE SendGetUpdates(r)
  <2>1. batch'[r] = <<>> /\ offset'[r] = offset[r] /\ posted' = posted /\ poller'[r] = "request"
    BY <1>0, <1>2 DEF SendGetUpdates, BatchIsNextOf, TypeOK
  <2>. QED
    BY <1>0, <2>1 DEF BatchIsNextOf
<1>3. CASE GetUpdatesDelivers(r)
  <2>. DEFINE o == Oldest(r)
              n == posted + 1 - o
  <2>1. /\ o \in 1..posted /\ posted \in Nat /\ confirmed \in Nat /\ offset[r] \in Nat
        /\ o = IF offset[r] > confirmed THEN offset[r] ELSE confirmed + 1
    BY <1>0, <1>3 DEF GetUpdatesDelivers, Oldest, TypeOK
  <2>2. /\ batch'[r] = [i \in 1..n |-> o + i - 1] /\ poller'[r] = "push"
        /\ UNCHANGED <<posted, confirmed, offset>>
    BY <1>0, <1>3 DEF GetUpdatesDelivers, TypeOK
  <2>. HIDE DEF o
  <2>3. n \in Nat \ {0} /\ [i \in 1..n |-> o + i - 1] \in [1..n -> Nat]
    BY <2>1
  <2>. HIDE DEF n
  <2>. DEFINE answer == [i \in 1..n |-> o + i - 1]
  <2>4. Len(batch'[r]) = n /\ batch'[r][1] = o /\ batch'[r] # <<>>
        /\ \A i \in 1..n : batch'[r][i] = o + i - 1
    <3>1. answer \in Seq(Nat) /\ Len(answer) = n
      BY <2>3, FunctionIsSeq
    <3>2. answer # <<>>
      BY <2>3, <3>1, EmptySeq
    <3>3. answer[1] = o /\ \A i \in 1..n : answer[i] = o + i - 1
      BY <2>1, <2>3
    <3>. QED
      BY <2>2, <3>1, <3>2, <3>3
  <2>5. \A u \in Updates : u >= offset'[r] /\ u < batch'[r][1] => u <= confirmed'
    BY <2>1, <2>2, <2>4 DEF Updates
  <2>6. offset'[r] <= posted' + 1
    BY <1>0, <2>2 DEF BatchIsNextOf
  <2>. QED
    BY <2>2, <2>4, <2>5, <2>6 DEF BatchIsNextOf
<1>4. CASE GetUpdatesReturnsNothing(r) \/ PollerStops(r)
  <2>1. poller[r] # "push" /\ poller'[r] # "push" /\ UNCHANGED <<posted, confirmed, offset, batch>>
    BY <1>0, <1>4 DEF GetUpdatesReturnsNothing, PollerStops, TypeOK
  <2>. QED
    BY <1>0, <2>1 DEF BatchIsNextOf
<1>5. CASE PushUpdate(r)
  BY <1>5, PushedBatch
<1>6. CASE StartProcess(r)
  BY <1>0, <1>6 DEF StartProcess, BatchIsNextOf, ProcessStateOf, TypeOK
<1>7. CASE BuildFails(r) \/ Exit(r) \/ Crash(r)
  <2>1. offset'[r] = 0 /\ batch'[r] = <<>> /\ poller'[r] = "off" /\ posted' = posted
    BY <1>0, <1>7 DEF BuildFails, Exit, Crash, Gone, TypeOK
  <2>. QED
    BY <1>0, <2>1 DEF BatchIsNextOf, TypeOK
<1>8. CASE DispatcherStep(r) \/ \E w \in Workers : WorkerStep(r, w)
  BY <1>1, <1>8 DEF DispatcherStep, ReceiveUpdate, SendJob, DispatcherStops,
                    WorkerStep, TakeJob, HandlerReturns, WorkerStops
<1>9. CASE \/ StartPublisher(r) \/ StartIndexSubscriber(r) \/ StartTelegramWorkers(r)
           \/ StartStepFails(r)
           \/ (\E x \in Runners : RunnerReturns(r, x)) \/ SigTerm(r)
           \/ Shutdown(r) \/ ClosePool(r)
  BY <1>1, <1>9 DEF StartPublisher, StartIndexSubscriber, StartTelegramWorkers, StartStepFails,
                    RunnerReturns, SigTerm,
                    Shutdown, ClosePool
<1>. QED
  BY <1>2, <1>3, <1>4, <1>5, <1>6, <1>7, <1>8, <1>9 DEF PollerStep, StartUp, ShutDown

\* The numbers of updates the three accounting invariants compare.
LEMMA Numbers ==
  ASSUME LifecycleInvariant
  PROVE  /\ posted \in Nat /\ confirmed \in Nat /\ confirmed <= posted
         /\ 1..posted \subseteq Updates
         /\ \A r \in Replicas : offset[r] \in Nat /\ InHand(r) \subseteq 1..posted
BY BoundTypes DEF LifecycleInvariant, TypeOK, HandsHoldPosted, Updates

LEMMA PipelineAccounts ==
  ASSUME LifecycleInvariant, NEW r \in Replicas,
         \/ PollerStep(r) \/ DispatcherStep(r) \/ \E w \in Workers : WorkerStep(r, w)
  PROVE  HandsHoldPosted' /\ OffsetIsOwn' /\ NoUpdateVanishes'
<1>. USE DEF telegramVars, pollerVars, pipeVars, processVars, bounds
<1>1. \A q \in Replicas \ {r} : InHand(q)' = InHand(q) /\ offset'[q] = offset[q]
  BY OtherProcesses DEF InHand
<1>2. \A q \in Replicas : /\ InHand(q) \subseteq InHand(q)' \cup handled'
                          /\ InHand(q)' \subseteq InHand(q) \cup 1..posted
  BY <1>1, HandsKeep
<1>3. handled \subseteq handled' /\ dropped' = dropped /\ posted' = posted
  BY DEF PollerStep, DispatcherStep, WorkerStep, SendGetUpdates, GetUpdatesDelivers,
         GetUpdatesReturnsNothing, PushUpdate, PollerStops, ReceiveUpdate, SendJob,
         DispatcherStops, TakeJob, HandlerReturns, WorkerStops
<1>4. HandsHoldPosted'
  BY <1>2, <1>3, HandsHoldPostedStep, Numbers
<1>5. CASE SendGetUpdates(r)
  <2>1. offset' = offset /\ confirmed <= confirmed'
        /\ confirmed' = IF offset[r] > confirmed + 1 THEN offset[r] - 1 ELSE confirmed
    BY <1>5, Numbers DEF SendGetUpdates
  <2>2. OffsetIsOwn'
    BY <1>2, <1>3, <2>1, Numbers DEF OffsetIsOwn, LifecycleInvariant, Updates
  <2>3. ASSUME NEW u \in 1..confirmed'
        PROVE  u \in handled' \cup dropped' \cup UNION {InHand(q)' : q \in Replicas}
    <3>1. CASE u <= confirmed
      BY <3>1, <1>2, <1>3, Accounting, Numbers
    <3>2. CASE u > confirmed
      <4>1. offset[r] \in Nat /\ offset[r] <= posted + 1
        BY Numbers DEF LifecycleInvariant, BatchIsNext
      <4>3. confirmed' = offset[r] - 1
        BY <2>1, <3>2, <4>1, Numbers
      <4>4. u < offset[r] /\ u \in 1..posted
        BY <4>1, <4>3, Numbers
      <4>2. u \in handled \cup InHand(r)
        BY <4>4, <3>2, Numbers DEF LifecycleInvariant, OffsetIsOwn
      <4>. QED
        BY <4>2, <1>2, <1>3
    <3>. QED
      BY <3>1, <3>2, <2>1, Numbers
  <2>. QED
    BY <1>4, <2>2, <2>3, VanishesPrime
<1>6. CASE PushUpdate(r)
  <2>1. /\ Head(batch[r]) = batch[r][1] /\ Head(batch[r]) \in Updates
        /\ Head(batch[r]) \in InHand(r) /\ offset'[r] = Head(batch[r]) + 1
    BY <1>6, PushedBatch
  <2>2. batch[r] # <<>> /\ handled' = handled /\ confirmed' = confirmed
    BY <1>6 DEF PushUpdate, LifecycleInvariant, BatchIsNext
  <2>3. \A u \in Updates : u >= offset[r] /\ u < batch[r][1] => u <= confirmed
    BY <2>2 DEF LifecycleInvariant, BatchIsNext
  <2>4. ASSUME NEW u \in Updates, u < offset'[r], u > confirmed'
        PROVE  u \in handled' \cup InHand(r)'
    <3>1. CASE u < offset[r]
      BY <3>1, <2>2, <2>4, <1>2 DEF LifecycleInvariant, OffsetIsOwn
    <3>2. CASE u >= offset[r]
      <4>1. u = Head(batch[r])
        BY <3>2, <2>1, <2>2, <2>3, <2>4, Numbers DEF Updates
      <4>. QED
        BY <4>1, <2>1, <1>2
    <3>. QED
      BY <3>1, <3>2, Numbers DEF Updates
  <2>5. OffsetIsOwn'
    BY <1>1, <1>2, <1>3, <2>2, <2>4 DEF OffsetIsOwn, LifecycleInvariant
  <2>. QED
    BY <1>2, <1>3, <1>4, <2>2, <2>5, Accounting, VanishesPrime
<1>7. CASE UNCHANGED <<confirmed, offset>>
  <2>1. OffsetIsOwn'
    BY <1>2, <1>3, <1>7 DEF OffsetIsOwn, LifecycleInvariant
  <2>. QED
    BY <1>2, <1>3, <1>4, <1>7, <2>1, Accounting, VanishesPrime
<1>. QED
  BY <1>5, <1>6, <1>7 DEF PollerStep, DispatcherStep, WorkerStep, GetUpdatesDelivers,
     GetUpdatesReturnsNothing, PollerStops, ReceiveUpdate, SendJob,
     DispatcherStops, TakeJob, HandlerReturns, WorkerStops

\* A process that goes takes along what it has not handled; what Telegram has
\* forgotten of it is recorded as dropped.
LEMMA GoneAccounts ==
  ASSUME LifecycleInvariant, NEW r \in Replicas, BuildFails(r) \/ Exit(r) \/ Crash(r)
  PROVE  HandsHoldPosted' /\ OffsetIsOwn' /\ NoUpdateVanishes'
<1>1. Gone(r)
  BY DEF BuildFails, Exit, Crash
<1>2. \A q \in Replicas \ {r} : InHand(q)' = InHand(q) /\ offset'[q] = offset[q]
  BY OtherProcesses DEF InHand, ShutDown
<1>3. offset'[r] = 0 /\ InHand(r)' = {}
  BY <1>1 DEF Gone, InHand, LifecycleInvariant, TypeOK, ToSet
<1>4. /\ UNCHANGED <<posted, confirmed, handled>> /\ dropped \subseteq dropped'
      /\ \A u \in InHand(r) : u <= confirmed => u \in dropped'
  BY <1>1 DEF Gone, telegramVars
<1>5. HandsHoldPosted'
  BY <1>2, <1>3, <1>4, HandsHoldPostedStep, Numbers
<1>6. OffsetIsOwn'
  BY <1>2, <1>3, <1>4 DEF OffsetIsOwn, LifecycleInvariant, Updates
<1>7. NoUpdateVanishes'
  <2>1. ASSUME NEW u \in 1..confirmed
        PROVE  u \in handled' \cup dropped' \cup UNION {InHand(q)' : q \in Replicas}
    BY <1>2, <1>4 DEF LifecycleInvariant, NoUpdateVanishes
  <2>. QED
    BY <1>4, <2>1, VanishesPrime
<1>. QED
  BY <1>5, <1>6, <1>7

-----------------------------------------------------------------------------
(* The invariant, and the theorems.                                        *)

LEMMA ReplicaStep ==
  ASSUME LifecycleInvariant, NEW r \in Replicas,
         \/ PollerStep(r) \/ DispatcherStep(r) \/ \E w \in Workers : WorkerStep(r, w)
         \/ StartUp(r) \/ BuildFails(r) \/ StartStepFails(r)
         \/ \E x \in Runners : RunnerReturns(r, x)
         \/ SigTerm(r) \/ ShutDown(r) \/ Crash(r)
  PROVE  LifecycleInvariant'
<1>1. TypeOK'
  BY PollerTypes, DispatcherTypes, WorkerTypes, ProcessTypes
<1>2. ProcessState'
  <2>1. \A q \in Replicas \ {r} : ProcessStateOf(q)'
    BY OtherProcesses DEF ProcessStateOf, GoroutinesDone, LifecycleInvariant, ProcessState
  <2>. QED
    BY <2>1, OwnProcessState DEF ProcessStateOf, ProcessState
<1>3. posted' = posted /\ confirmed <= confirmed'
  BY Numbers DEF PollerStep, DispatcherStep, WorkerStep, SendGetUpdates, GetUpdatesDelivers,
     GetUpdatesReturnsNothing, PushUpdate, PollerStops, ReceiveUpdate, SendJob,
     DispatcherStops, TakeJob, HandlerReturns, WorkerStops,
     StartUp, StartProcess, StartPublisher, StartIndexSubscriber, StartTelegramWorkers,
     StartStepFails,
     RunnerReturns, SigTerm, ShutDown, Shutdown, ClosePool, BuildFails, Exit, Crash, Gone,
     telegramVars
<1>4. BatchIsNext'
  <2>1. confirmed' \in Nat /\ confirmed \in Nat
    BY <1>1 DEF LifecycleInvariant, TypeOK
  <2>2. \A q \in Replicas \ {r} : BatchIsNextOf(q)'
    BY <1>3, <2>1, OtherProcesses DEF BatchIsNextOf, LifecycleInvariant, BatchIsNext, Updates
  <2>. QED
    BY <2>2, OwnBatch DEF BatchIsNextOf, BatchIsNext
<1>5. HandsHoldPosted' /\ OffsetIsOwn' /\ NoUpdateVanishes'
  <2>1. CASE PollerStep(r) \/ DispatcherStep(r) \/ \E w \in Workers : WorkerStep(r, w)
    BY <2>1, PipelineAccounts
  <2>2. CASE BuildFails(r) \/ Exit(r) \/ Crash(r)
    BY <2>2, GoneAccounts
  <2>3. CASE \/ StartUp(r) \/ StartStepFails(r) \/ \E x \in Runners : RunnerReturns(r, x)
             \/ SigTerm(r) \/ Shutdown(r) \/ ClosePool(r)
    BY <2>3, StillHands
       DEF LifecycleInvariant, HandsHoldPosted, OffsetIsOwn, NoUpdateVanishes
  <2>. QED
    BY <2>1, <2>2, <2>3 DEF ShutDown
<1>. QED
  BY <1>1, <1>2, <1>4, <1>5 DEF LifecycleInvariant

LEMMA PostStep == LifecycleInvariant /\ PostUpdate => LifecycleInvariant'
<1>. SUFFICES ASSUME LifecycleInvariant, PostUpdate PROVE LifecycleInvariant'
  OBVIOUS
<1>. USE DEF pollerVars, pipeVars, processVars, bounds
<1>1. posted' = posted + 1 /\ UNCHANGED <<confirmed, handled, dropped, offset, batch, poller>>
      /\ \A r \in Replicas : InHand(r)' = InHand(r)
  BY DEF PostUpdate, InHand
<1>2. ProcessState'
  BY DEF PostUpdate, LifecycleInvariant, ProcessState, GoroutinesDone
<1>3. HandsHoldPosted'
  BY <1>1, HandsHoldPostedStep, Numbers
<1>4. BatchIsNext'
  BY <1>1, Numbers DEF LifecycleInvariant, BatchIsNext
<1>5. OffsetIsOwn' /\ NoUpdateVanishes'
  BY <1>1 DEF LifecycleInvariant, OffsetIsOwn, NoUpdateVanishes
<1>. QED
  BY <1>2, <1>3, <1>4, <1>5, PostTypes DEF LifecycleInvariant

LEMMA StutterStep == LifecycleInvariant /\ UNCHANGED vars => LifecycleInvariant'
<1>. SUFFICES ASSUME LifecycleInvariant, UNCHANGED vars PROVE LifecycleInvariant'
  OBVIOUS
<1>. USE DEF vars, telegramVars, pollerVars, pipeVars, processVars, bounds
<1>1. TypeOK'
  BY DEF LifecycleInvariant, TypeOK
<1>2. ProcessState' /\ BatchIsNext'
  BY DEF LifecycleInvariant, ProcessState, GoroutinesDone, BatchIsNext
<1>3. \A r \in Replicas : InHand(r)' = InHand(r)
  BY DEF InHand
<1>4. HandsHoldPosted' /\ OffsetIsOwn' /\ NoUpdateVanishes'
  BY <1>3 DEF LifecycleInvariant, HandsHoldPosted, OffsetIsOwn, NoUpdateVanishes
<1>. QED
  BY <1>1, <1>2, <1>4 DEF LifecycleInvariant

\* The life of the processes and the way of the updates through them keep the
\* inductive invariant, for any number of replicas, workers and updates.
THEOREM LifecycleInvariantHolds == Spec => []LifecycleInvariant
<1>1. LifecycleInvariant /\ [Next]_vars => LifecycleInvariant'
  BY ReplicaStep, PostStep, StutterStep DEF Next
<1>. QED
  BY <1>1, InitLifecycleInvariant, PTL DEF Spec

\* Every variable of the pipeline stays in its type; the queues never exceed
\* their capacity.
THEOREM TypeCorrect == Spec => []TypeOK
<1>1. LifecycleInvariant => TypeOK
  BY DEF LifecycleInvariant
<1>. QED
  BY <1>1, LifecycleInvariantHolds, PTL

\* An update forgotten by Telegram was handled, is held by a process or was
\* lost with one, for any number of replicas polling with one token.
THEOREM UpdatesAccountedFor == Spec => []NoUpdateVanishes
<1>1. LifecycleInvariant => NoUpdateVanishes
  BY DEF LifecycleInvariant
<1>. QED
  BY <1>1, LifecycleInvariantHolds, PTL

\* No goroutine of a process uses the pool after shutdown has closed it,
\* wherever in start-up the shutdown began.
THEOREM PoolClosedLast == Spec => []PoolOutlivesItsUsers
<1>1. LifecycleInvariant => PoolOutlivesItsUsers
  BY DEF LifecycleInvariant, ProcessState, PoolOutlivesItsUsers, TypeOK
<1>. QED
  BY <1>1, LifecycleInvariantHolds, PTL

-----------------------------------------------------------------------------
(* The order of the updates in a process.                                  *)

LEMMA AscendsTail ==
  ASSUME NEW q \in Seq(Updates), q # <<>>, Ascends(q)
  PROVE  Ascends(Tail(q)) /\ Before({Head(q)}, ToSet(Tail(q)))
<1>1. /\ Head(q) = q[1] /\ Len(q) \in Nat \ {0}
      /\ Tail(q) \in Seq(Updates) /\ Len(Tail(q)) = Len(q) - 1
      /\ \A i \in 1..Len(Tail(q)) : Tail(q)[i] = q[i + 1]
  BY ToSetTail
<1>. DEFINE t == Tail(q)
<1>2. DOMAIN t = 1..Len(t)
  BY <1>1
<1>. HIDE DEF t
<1>3. \A i \in 1..Len(t) : i + 1 \in 1..Len(q) /\ t[i] = q[i + 1]
  BY <1>1 DEF t
<1>4. Ascends(t)
  BY <1>1, <1>3 DEF Ascends, t
<1>5. \A i \in 1..Len(t) : q[1] < t[i]
  BY <1>1, <1>3 DEF Ascends, t
<1>. QED
  BY <1>1, <1>2, <1>4, <1>5 DEF Before, ToSet, t

LEMMA AscendsAppend ==
  ASSUME NEW q \in Seq(Updates), NEW x \in Updates, Ascends(q), Before(ToSet(q), {x})
  PROVE  Ascends(Append(q, x))
<1>. DEFINE a == Append(q, x)
<1>1. /\ Len(q) \in Nat /\ Len(a) = Len(q) + 1 /\ a[Len(q) + 1] = x
      /\ \A i \in 1..Len(q) : a[i] = q[i]
      /\ DOMAIN q = 1..Len(q)
  OBVIOUS
<1>2. \A i \in 1..Len(q) : q[i] < x
  BY <1>1 DEF Before, ToSet
<1>. HIDE DEF a
<1>3. Ascends(a)
  BY <1>1, <1>2 DEF Ascends
<1>. QED
  BY <1>3 DEF a

\* The updates at any stage.
Everywhere(S) == UNION {S[n] : n \in 1..5}

\* An update goes on to the next stage.
LEMMA GoesOn ==
  ASSUME NEW S, NEW T, NEW k \in 1..5, NEW l \in 1..5, l = k + 1, NEW x,
         InStages(S),
         S[l] = {x} \cup T[l], Before({x}, T[l]), T[k] = S[k] \cup {x},
         \A n \in 1..5 : n # k /\ n # l => T[n] = S[n]
  PROVE  InStages(T) /\ Everywhere(T) = Everywhere(S)
<1>0. k < l
  OBVIOUS
<1>1. ASSUME NEW m \in 1..5, NEW n \in 1..5, m < n PROVE Before(T[m], T[n])
  <2>1. CASE m = k /\ n = l
    BY <1>0, <2>1 DEF InStages, Before
  <2>2. CASE m = k /\ n # l
    <3>1. l < n /\ T[n] = S[n]
      BY <1>1, <2>2
    <3>. QED
      BY <1>0, <1>1, <2>2, <3>1 DEF InStages, Before
  <2>3. CASE n = k
    <3>1. m < l /\ T[m] = S[m]
      BY <1>1, <2>3
    <3>. QED
      BY <1>0, <1>1, <2>3, <3>1 DEF InStages, Before
  <2>4. CASE m # k /\ n # k
    <3>1. T[m] \subseteq S[m] /\ T[n] \subseteq S[n]
      BY <1>1, <2>4
    <3>. QED
      BY <1>1, <3>1 DEF InStages, Before
  <2>. QED
    BY <2>1, <2>2, <2>3, <2>4
<1>2. \A u : (\E n \in 1..5 : u \in T[n]) <=> (\E n \in 1..5 : u \in S[n])
  BY <1>0
<1>. QED
  BY <1>1, <1>2 DEF InStages, Everywhere

\* What a process has in hand is what stands at one of its stages, before a
\* step as well as after it.
LEMMA HandsOfStages ==
  ASSUME NEW b \in Seq(Updates), NEW c \in Seq(Updates), NEW j \in Seq(Updates),
         NEW h \in Updates \cup {NoUpdate}, NEW K \in SUBSET (Updates \cup {NoUpdate}),
         NEW S, S = <<K \ {NoUpdate}, ToSet(j), {h} \ {NoUpdate}, ToSet(c), ToSet(b)>>
  PROVE  /\ (ToSet(b) \cup ToSet(c) \cup ToSet(j) \cup {h} \cup K) \ {NoUpdate}
               = Everywhere(S)
         /\ \A n \in 1..5 : S[n] \subseteq Updates
<1>1. ToSet(b) \subseteq Updates /\ ToSet(c) \subseteq Updates /\ ToSet(j) \subseteq Updates
  BY DEF ToSet
<1>2. NoUpdate \notin Updates
  BY DEF NoUpdate, Updates
<1>3. /\ S[1] = K \ {NoUpdate} /\ S[2] = ToSet(j) /\ S[3] = {h} \ {NoUpdate}
      /\ S[4] = ToSet(c) /\ S[5] = ToSet(b)
  OBVIOUS
<1>4. \A n \in 1..5 : n = 1 \/ n = 2 \/ n = 3 \/ n = 4 \/ n = 5
  OBVIOUS
<1>5. \A n \in 1..5 : S[n] \subseteq Updates
  BY <1>1, <1>3, <1>4
<1>6. Everywhere(S) = S[1] \cup S[2] \cup S[3] \cup S[4] \cup S[5]
  BY <1>4 DEF Everywhere
<1>7. (ToSet(b) \cup ToSet(c) \cup ToSet(j) \cup {h} \cup K) \ {NoUpdate}
        = S[1] \cup S[2] \cup S[3] \cup S[4] \cup S[5]
  BY <1>1, <1>2, <1>3
<1>. QED
  BY <1>5, <1>6, <1>7, Zenon

LEMMA HandsAreStages ==
  ASSUME TypeOK, TypeOK', NEW r \in Replicas
  PROVE  /\ InHand(r) = Everywhere(Stages(r))
         /\ \A n \in 1..5 : Stages(r)[n] \subseteq Updates
         /\ InHand(r)' = Everywhere(Stages(r)')
         /\ \A n \in 1..5 : Stages(r)'[n] \subseteq Updates
<1>. DEFINE K == {job[r][w] : w \in Workers}
<1>1. /\ batch[r] \in Seq(Updates) /\ channel[r] \in Seq(Updates) /\ jobs[r] \in Seq(Updates)
      /\ held[r] \in Updates \cup {NoUpdate} /\ K \in SUBSET (Updates \cup {NoUpdate})
  <2>1. /\ batch[r] \in Seq(Updates) /\ channel[r] \in Seq(Updates) /\ jobs[r] \in Seq(Updates)
        /\ held[r] \in Updates \cup {NoUpdate}
    BY DEF TypeOK
  <2>2. \A w \in Workers : job[r][w] \in Updates \cup {NoUpdate}
    BY DEF TypeOK
  <2>. QED
    BY <2>1, <2>2, Zenon
<1>2. /\ batch'[r] \in Seq(Updates) /\ channel'[r] \in Seq(Updates)
      /\ jobs'[r] \in Seq(Updates)
      /\ held'[r] \in Updates \cup {NoUpdate} /\ K' \in SUBSET (Updates \cup {NoUpdate})
  <2>1. /\ batch'[r] \in Seq(Updates) /\ channel'[r] \in Seq(Updates)
        /\ jobs'[r] \in Seq(Updates) /\ held'[r] \in Updates \cup {NoUpdate}
    BY DEF TypeOK
  <2>2. \A w \in Workers : job'[r][w] \in Updates \cup {NoUpdate}
    BY SMTT(30) DEF TypeOK
  <2>. QED
    BY <2>1, <2>2, Zenon
<1>3. /\ InHand(r) = Everywhere(Stages(r))
      /\ \A n \in 1..5 : Stages(r)[n] \subseteq Updates
  BY <1>1, HandsOfStages DEF InHand, Stages
<1>4. /\ InHand(r)' = Everywhere(Stages(r)')
      /\ \A n \in 1..5 : Stages(r)'[n] \subseteq Updates
  BY <1>2, HandsOfStages DEF InHand, Stages
<1>. QED
  BY <1>3, <1>4

\* InOrder of a process from its next stages and queues.
LEMMA OrderPrime ==
  ASSUME NEW r \in Replicas, InStages(Stages(r)'), Ascends(jobs[r])', Ascends(channel[r])',
         \A n \in 1..4 : \A u \in Stages(r)'[n] : u < offset'[r],
         \A u \in Stages(r)'[5] : u >= offset'[r],
         \A v, w \in Workers : v # w /\ job'[r][v] = job'[r][w] => job'[r][v] = NoUpdate
  PROVE  InOrder(r)'
BY DEF InOrder, InStages, Before

LEMMA SameOrder ==
  ASSUME NEW r \in Replicas, InOrder(r),
         batch'[r] = batch[r], channel'[r] = channel[r], jobs'[r] = jobs[r], held'[r] = held[r],
         job'[r] = job[r], offset'[r] = offset[r]
  PROVE  InOrder(r)' /\ InHand(r)' = InHand(r) /\ Passed(r)' = Passed(r)
<1>1. Stages(r)' = Stages(r)
  BY DEF Stages
<1>. QED
  BY <1>1 DEF InOrder, InStages, Before, Ascends, InHand, Passed

LEMMA PushKeepsOrder ==
  ASSUME LifecycleInvariant, NEW r \in Replicas, InOrder(r), PushUpdate(r)
  PROVE  InOrder(r)' /\ InHand(r)' = InHand(r) /\ Passed(r)' = Passed(r)
<1>. DEFINE S == Stages(r)
            T == Stages(r)'
            b == batch[r]
            x == Head(b)
<1>0. TypeOK /\ TypeOK'
  BY PollerTypes DEF LifecycleInvariant, PollerStep
<1>1. b # <<>> /\ b \in Seq(Updates) /\ channel[r] \in Seq(Updates)
  BY <1>0 DEF PushUpdate, LifecycleInvariant, BatchIsNext, TypeOK
<1>2. /\ x \in Updates /\ x = b[1] /\ ToSet(b) = {x} \cup ToSet(Tail(b))
      /\ Len(b) \in Nat \ {0} /\ Tail(b) \in Seq(Updates) /\ Len(Tail(b)) = Len(b) - 1
      /\ \A i \in 1..Len(Tail(b)) : Tail(b)[i] = b[i + 1]
  BY <1>1, ToSetTail
<1>3. /\ batch'[r] = Tail(b) /\ channel'[r] = Append(channel[r], x) /\ offset'[r] = x + 1
      /\ UNCHANGED <<jobs, held, job>>
  BY <1>0, SMTT(30) DEF PushUpdate, TypeOK, pipeVars
<1>4. ToSet(channel'[r]) = ToSet(channel[r]) \cup {x}
  BY <1>1, <1>2, <1>3, ToSetAppend
<1>5. x \in Nat \ {0} /\ offset'[r] = x + 1
  <2>. HIDE DEF x
  <2>. QED
    BY <1>2, <1>3 DEF Updates
<1>6. \A i \in 1..Len(b) : b[i] = b[1] + i - 1
  BY DEF LifecycleInvariant, BatchIsNext
<1>7. \A i \in 1..Len(Tail(b)) : Tail(b)[i] = x + i
  <2>. HIDE DEF b, x
  <2>. QED
    BY <1>2, <1>6 DEF Updates
<1>8. Before({x}, ToSet(Tail(b)))
  <2>. DEFINE t == Tail(b)
  <2>1. DOMAIN t = 1..Len(t)
    BY <1>2
  <2>2. \A i \in 1..Len(t) : t[i] = x + i
    BY <1>7
  <2>. HIDE DEF t, x
  <2>3. \A i \in 1..Len(t) : x < t[i]
    BY <1>5, <2>2
  <2>4. \A u \in ToSet(t) : \E i \in 1..Len(t) : u = t[i]
    BY <2>1 DEF ToSet
  <2>. QED
    BY <2>3, <2>4, Zenon DEF Before, t
<1>9. /\ S[4] = ToSet(channel[r]) /\ S[5] = {x} \cup T[5] /\ T[4] = S[4] \cup {x}
      /\ T[5] = ToSet(Tail(b)) /\ T[1] = S[1] /\ T[2] = S[2] /\ T[3] = S[3]
  BY <1>2, <1>3, <1>4 DEF Stages
<1>10. InStages(S) /\ Ascends(jobs[r]) /\ Ascends(channel[r])
  BY DEF InOrder
<1>11. \A n \in 1..5 : S[n] \subseteq Updates /\ T[n] \subseteq Updates
  BY <1>0, HandsAreStages
<1>12. InHand(r) = Everywhere(S) /\ InHand(r)' = Everywhere(T)
  BY <1>0, HandsAreStages
<1>13. InStages(T) /\ Everywhere(T) = Everywhere(S)
  <2>. HIDE DEF S, T, x
  <2>1. \A n \in 1..5 : n # 4 /\ n # 5 => T[n] = S[n]
    BY <1>9
  <2>2. S[5] = {x} \cup T[5] /\ Before({x}, T[5]) /\ T[4] = S[4] \cup {x}
    BY <1>8, <1>9
  <2>3. 4 \in 1..5 /\ 5 \in 1..5 /\ 5 = 4 + 1
    OBVIOUS
  <2>. QED
    BY <1>10, <2>1, <2>2, <2>3, GoesOn
<1>14. Ascends(channel'[r])
  <2>1. Before(ToSet(channel[r]), {x})
    BY <1>9, <1>10 DEF InStages, Before
  <2>. QED
    BY <1>1, <1>2, <1>3, <1>10, <2>1, AscendsAppend
<1>15. \A n \in 1..4 : \A u \in T[n] : u < offset'[r]
  <2>1. offset[r] \in Nat /\ offset[r] <= x /\ \A n \in 1..4 : \A u \in S[n] : u < offset[r]
    <3>1. offset[r] \in Nat
      BY <1>0, BoundTypes DEF TypeOK
    <3>2. \A u \in S[5] : u >= offset[r]
      BY DEF InOrder
    <3>3. x \in S[5]
      BY <1>9
    <3>4. \A n \in 1..4 : \A u \in S[n] : u < offset[r]
      BY DEF InOrder
    <3>. HIDE DEF S, x
    <3>. QED
      BY <1>2, <3>1, <3>2, <3>3, <3>4 DEF Updates
  <2>. HIDE DEF S, T, x
  <2>2. \A n \in 1..4 : T[n] \subseteq S[n] \cup {x}
    BY <1>9
  <2>. QED
    BY <1>11, <1>5, <2>1, <2>2 DEF Updates
<1>16. \A u \in T[5] : u >= offset'[r]
  BY <1>2, <1>3, <1>8, <1>9, <1>11 DEF Before, Updates
<1>17. InOrder(r)'
  BY <1>3, <1>10, <1>13, <1>14, <1>15, <1>16, OrderPrime DEF InOrder
<1>18. Passed(r)' = Passed(r)
  <2>1. Passed(r) = b[Len(b)]
    BY <1>1 DEF Passed
  <2>2. Tail(b) # <<>> <=> Len(b) # 1
    <3>. HIDE DEF b
    <3>1. Tail(b) # <<>> <=> Len(Tail(b)) # 0
      BY <1>2, EmptySeq, Zenon
    <3>. QED
      BY <1>2, <3>1
  <2>3. CASE Len(b) = 1
    <3>1. batch'[r] = <<>>
      BY <1>3, <2>2, <2>3
    <3>. HIDE DEF b, x
    <3>2. offset'[r] # 0 /\ offset'[r] - 1 = x
      BY <1>5
    <3>. QED
      BY <1>2, <2>1, <2>3, <3>1, <3>2 DEF Passed
  <2>4. CASE Len(b) # 1
    <3>1. batch'[r] # <<>>
      BY <1>3, <2>2, <2>4
    <3>. HIDE DEF b, x
    <3>2. Tail(b)[Len(Tail(b))] = b[Len(b)]
      BY <1>2, <2>4
    <3>. QED
      BY <1>3, <2>1, <3>1, <3>2 DEF Passed
  <2>. QED
    BY <2>3, <2>4
<1>. QED
  BY <1>12, <1>13, <1>17, <1>18

\* What the process takes over is all that came after what it has passed and
\* that Telegram still has.
LEMMA DeliveryKeepsOrder ==
  ASSUME LifecycleInvariant, NEW r \in Replicas, InOrder(r), GetUpdatesDelivers(r)
  PROVE  /\ InOrder(r)' /\ Passed(r) < posted /\ Passed(r)' = posted
         /\ Passed(r) \in Nat
         /\ InHand(r)' = InHand(r) \cup {u \in (Passed(r) + 1)..posted : u > confirmed}
<1>. DEFINE S == Stages(r)
            T == Stages(r)'
            o == Oldest(r)
            n == posted + 1 - o
<1>0. TypeOK /\ TypeOK'
  BY PollerTypes DEF LifecycleInvariant, PollerStep
<1>1. /\ o \in 1..posted /\ posted \in Nat /\ confirmed \in Nat /\ offset[r] \in Nat
      /\ o = IF offset[r] > confirmed THEN offset[r] ELSE confirmed + 1
  BY <1>0, BoundTypes, SMTT(30) DEF GetUpdatesDelivers, Oldest, TypeOK
<1>2. batch[r] = <<>>
  BY DEF GetUpdatesDelivers, LifecycleInvariant, BatchIsNext
<1>3. /\ batch'[r] = [i \in 1..n |-> o + i - 1]
      /\ UNCHANGED <<posted, confirmed, offset, channel, jobs, held, job>>
  BY <1>0 DEF GetUpdatesDelivers, TypeOK, telegramVars, pipeVars
<1>4. /\ n \in Nat \ {0} /\ batch'[r] \in Seq(Nat) /\ Len(batch'[r]) = n /\ batch'[r] # <<>>
      /\ batch'[r][n] = posted /\ ToSet(batch'[r]) = o..posted
  <2>. HIDE DEF o
  <2>1. n \in Nat \ {0} /\ [i \in 1..n |-> o + i - 1] \in [1..n -> Nat] /\ o + n - 1 = posted
    BY <1>1
  <2>2. \A u \in o..posted : u - o + 1 \in 1..n /\ u = o + (u - o + 1) - 1
    BY <1>1
  <2>3. \A i \in 1..n : o + i - 1 \in o..posted
    BY <1>1
  <2>. HIDE DEF n
  <2>. DEFINE answer == [i \in 1..n |-> o + i - 1]
  <2>4. answer \in Seq(Nat) /\ Len(answer) = n
    BY <2>1, FunctionIsSeq
  <2>5. answer # <<>>
    BY <2>1, <2>4, EmptySeq
  <2>6. answer[n] = posted /\ DOMAIN answer = 1..n
    BY <2>1
  <2>7. ToSet(answer) = o..posted
    BY <2>2, <2>3, <2>6 DEF ToSet
  <2>. QED
    BY <1>3, <2>1, <2>4, <2>5, <2>6, <2>7
<1>5. /\ S[5] = {} /\ T[5] = o..posted
      /\ T[1] = S[1] /\ T[2] = S[2] /\ T[3] = S[3] /\ T[4] = S[4]
  BY <1>2, <1>3, <1>4 DEF Stages, ToSet
<1>6. /\ InStages(S) /\ Ascends(jobs[r]) /\ Ascends(channel[r])
      /\ \A m \in 1..4 : \A u \in S[m] : u < offset[r]
  BY DEF InOrder
<1>7. /\ InHand(r) = Everywhere(S) /\ InHand(r)' = Everywhere(T)
      /\ \A m \in 1..5 : S[m] \subseteq Updates
  BY <1>0, HandsAreStages
<1>. HIDE DEF S, T
<1>8. \A m \in 1..4 : T[m] = S[m]
  BY <1>5
<1>9. offset[r] <= o
  BY <1>1
<1>10. InStages(T)
  <2>1. ASSUME NEW m \in 1..5, NEW k \in 1..5, m < k PROVE Before(T[m], T[k])
    <3>1. m \in 1..4
      BY <2>1
    <3>2. CASE k = 5
      <4>1. \A a \in T[m], b \in o..posted : a < b
        <5>. HIDE DEF o
        <5>. QED
          BY <1>1, <1>6, <1>7, <1>8, <1>9, <3>1 DEF Updates
      <4>. QED
        BY <1>5, <3>2, <4>1 DEF Before
    <3>3. CASE k # 5
      BY <1>6, <1>8, <2>1, <3>1, <3>3 DEF InStages
    <3>. QED
      BY <3>2, <3>3
  <2>. QED
    BY <2>1 DEF InStages
<1>11. InOrder(r)'
  <2>1. \A u \in T[5] : u >= offset'[r]
    <3>. HIDE DEF o
    <3>. QED
      BY <1>1, <1>3, <1>5, <1>9
  <2>2. \A m \in 1..4 : \A u \in T[m] : u < offset'[r]
    BY <1>3, <1>6, <1>8
  <2>. QED
    BY <1>3, <1>6, <1>10, <2>1, <2>2, OrderPrime DEF InOrder, T
<1>12. Passed(r)' = posted
  BY <1>3, <1>4 DEF Passed
<1>13. Passed(r) = (IF offset[r] = 0 THEN 0 ELSE offset[r] - 1) /\ Passed(r) < posted
       /\ Passed(r) \in Nat
  <2>. HIDE DEF o
  <2>1. Passed(r) = IF offset[r] = 0 THEN 0 ELSE offset[r] - 1
    BY <1>2 DEF Passed
  <2>. QED
    BY <1>1, <1>9, <2>1
<1>14. o..posted = {u \in (Passed(r) + 1)..posted : u > confirmed}
  <2>. HIDE DEF o
  <2>. QED
    BY <1>1, <1>13
<1>15. Everywhere(T) = Everywhere(S) \cup (o..posted)
  <2>. DEFINE D == o..posted
  <2>1. T[5] = D /\ S[5] = {}
    BY <1>5
  <2>. HIDE DEF D
  <2>2. \A m \in 1..5 : m \in 1..4 \/ m = 5
    OBVIOUS
  <2>3. 5 \in 1..5 /\ \A m \in 1..4 : m \in 1..5
    OBVIOUS
  <2>4. \A u : (\E m \in 1..5 : u \in T[m]) <=> (\E m \in 1..5 : u \in S[m]) \/ u \in D
    BY <1>8, <2>1, <2>2, <2>3, Zenon
  <2>5. Everywhere(T) = Everywhere(S) \cup D
    BY <2>4 DEF Everywhere
  <2>. QED
    BY <2>5 DEF D
<1>. QED
  BY <1>7, <1>11, <1>12, <1>13, <1>14, <1>15

LEMMA ReceiveKeepsOrder ==
  ASSUME LifecycleInvariant, NEW r \in Replicas, InOrder(r), ReceiveUpdate(r)
  PROVE  InOrder(r)' /\ InHand(r)' = InHand(r) /\ Passed(r)' = Passed(r)
<1>. DEFINE S == Stages(r)
            T == Stages(r)'
            x == Head(channel[r])
<1>0. TypeOK /\ TypeOK'
  BY DispatcherTypes DEF LifecycleInvariant, DispatcherStep
<1>1. channel[r] # <<>> /\ channel[r] \in Seq(Updates) /\ held[r] = NoUpdate
  BY <1>0 DEF ReceiveUpdate, LifecycleInvariant, ProcessState, TypeOK
<1>2. x \in Updates /\ ToSet(channel[r]) = {x} \cup ToSet(Tail(channel[r]))
  BY <1>1, ToSetTail
<1>3. /\ channel'[r] = Tail(channel[r]) /\ held'[r] = x
      /\ UNCHANGED <<batch, jobs, job, offset>>
  BY <1>0 DEF ReceiveUpdate, TypeOK, pollerVars
<1>4. /\ InStages(S) /\ Ascends(jobs[r]) /\ Ascends(channel[r])
  BY DEF InOrder
<1>5. Ascends(Tail(channel[r])) /\ Before({x}, ToSet(Tail(channel[r])))
  BY <1>1, <1>4, AscendsTail
<1>6. x # NoUpdate
  BY <1>2 DEF Updates, NoUpdate
<1>7. /\ S[3] = {} /\ T[3] = {x} /\ S[4] = {x} \cup T[4] /\ Before({x}, T[4])
      /\ T[1] = S[1] /\ T[2] = S[2] /\ T[5] = S[5]
  BY <1>1, <1>2, <1>3, <1>5, <1>6 DEF Stages
<1>8. InHand(r) = Everywhere(S) /\ InHand(r)' = Everywhere(T)
  BY <1>0, HandsAreStages
<1>9. InStages(T) /\ Everywhere(T) = Everywhere(S)
  <2>. HIDE DEF S, T, x
  <2>1. \A n \in 1..5 : n # 3 /\ n # 4 => T[n] = S[n]
    BY <1>7
  <2>2. 3 \in 1..5 /\ 4 \in 1..5 /\ 4 = 3 + 1 /\ T[3] = S[3] \cup {x}
    BY <1>7
  <2>. QED
    BY <1>4, <1>7, <2>1, <2>2, GoesOn
<1>10. /\ \A n \in 1..4 : \A u \in T[n] : u < offset'[r]
       /\ \A u \in T[5] : u >= offset'[r]
  <2>1. /\ \A n \in 1..4 : \A u \in S[n] : u < offset[r]
        /\ \A u \in S[5] : u >= offset[r]
    BY DEF InOrder
  <2>. HIDE DEF S, T, x
  <2>2. x < offset[r]
    BY <1>7, <2>1
  <2>3. \A n \in 1..4 : \A u \in T[n] : u \in S[n] \/ u = x
    BY <1>7
  <2>. QED
    BY <1>3, <1>7, <2>1, <2>2, <2>3
<1>11. InOrder(r)'
  BY <1>3, <1>4, <1>5, <1>9, <1>10, OrderPrime DEF InOrder
<1>. QED
  BY <1>3, <1>8, <1>9, <1>11 DEF Passed

LEMMA SendKeepsOrder ==
  ASSUME LifecycleInvariant, NEW r \in Replicas, InOrder(r), SendJob(r)
  PROVE  InOrder(r)' /\ InHand(r)' = InHand(r) /\ Passed(r)' = Passed(r)
<1>. DEFINE S == Stages(r)
            T == Stages(r)'
            x == held[r]
<1>0. TypeOK /\ TypeOK'
  BY DispatcherTypes DEF LifecycleInvariant, DispatcherStep
<1>1. x \in Updates /\ jobs[r] \in Seq(Updates)
  BY <1>0 DEF SendJob, LifecycleInvariant, ProcessState, TypeOK
<1>2. /\ jobs'[r] = Append(jobs[r], x) /\ held'[r] = NoUpdate
      /\ UNCHANGED <<batch, channel, job, offset>>
  BY <1>0 DEF SendJob, TypeOK, pollerVars
<1>3. ToSet(jobs'[r]) = ToSet(jobs[r]) \cup {x}
  BY <1>1, <1>2, ToSetAppend
<1>4. /\ InStages(S) /\ Ascends(jobs[r]) /\ Ascends(channel[r])
  BY DEF InOrder
<1>5. x # NoUpdate
  BY <1>1 DEF Updates, NoUpdate
<1>6. /\ S[2] = ToSet(jobs[r]) /\ T[2] = S[2] \cup {x} /\ S[3] = {x} /\ T[3] = {}
      /\ T[1] = S[1] /\ T[4] = S[4] /\ T[5] = S[5]
  BY <1>2, <1>3, <1>5 DEF Stages
<1>7. InHand(r) = Everywhere(S) /\ InHand(r)' = Everywhere(T)
  BY <1>0, HandsAreStages
<1>8. InStages(T) /\ Everywhere(T) = Everywhere(S)
  <2>. HIDE DEF S, T, x
  <2>1. \A n \in 1..5 : n # 2 /\ n # 3 => T[n] = S[n]
    BY <1>6
  <2>2. /\ 2 \in 1..5 /\ 3 \in 1..5 /\ 3 = 2 + 1
        /\ S[3] = {x} \cup T[3] /\ Before({x}, T[3])
    BY <1>6 DEF Before
  <2>. QED
    BY <1>4, <1>6, <2>1, <2>2, GoesOn
<1>9. /\ \A n \in 1..4 : \A u \in T[n] : u < offset'[r]
      /\ \A u \in T[5] : u >= offset'[r]
  <2>1. /\ \A n \in 1..4 : \A u \in S[n] : u < offset[r]
        /\ \A u \in S[5] : u >= offset[r]
    BY DEF InOrder
  <2>. HIDE DEF S, T, x
  <2>2. x < offset[r]
    BY <1>6, <2>1
  <2>3. \A n \in 1..4 : \A u \in T[n] : u \in S[n] \/ u = x
    BY <1>6
  <2>. QED
    BY <1>2, <1>6, <2>1, <2>2, <2>3
<1>10. Ascends(jobs'[r])
  <2>1. Before(ToSet(jobs[r]), {x})
    <3>. HIDE DEF S, T, x
    <3>. QED
      BY <1>4, <1>6 DEF InStages
  <2>. QED
    BY <1>1, <1>2, <1>4, <2>1, AscendsAppend
<1>11. InOrder(r)'
  BY <1>2, <1>4, <1>8, <1>9, <1>10, OrderPrime DEF InOrder
<1>. QED
  BY <1>2, <1>7, <1>8, <1>11 DEF Passed

LEMMA TakeKeepsOrder ==
  ASSUME LifecycleInvariant, NEW r \in Replicas, NEW w \in Workers, InOrder(r), TakeJob(r, w)
  PROVE  InOrder(r)' /\ InHand(r)' = InHand(r) /\ Passed(r)' = Passed(r)
<1>. DEFINE S == Stages(r)
            T == Stages(r)'
            x == Head(jobs[r])
<1>0. TypeOK /\ TypeOK'
  BY WorkerTypes DEF LifecycleInvariant, WorkerStep
<1>1. jobs[r] # <<>> /\ jobs[r] \in Seq(Updates) /\ job[r][w] = NoUpdate
  BY <1>0 DEF TakeJob, LifecycleInvariant, ProcessState, TypeOK
<1>2. x \in Updates /\ ToSet(jobs[r]) = {x} \cup ToSet(Tail(jobs[r]))
  BY <1>1, ToSetTail
<1>3. /\ jobs'[r] = Tail(jobs[r]) /\ job'[r][w] = x
      /\ \A v \in Workers \ {w} : job'[r][v] = job[r][v]
      /\ UNCHANGED <<batch, channel, held, offset>>
  BY <1>0 DEF TakeJob, TypeOK, pollerVars
<1>4. /\ InStages(S) /\ Ascends(jobs[r]) /\ Ascends(channel[r])
  BY DEF InOrder
<1>5. Ascends(Tail(jobs[r])) /\ Before({x}, ToSet(Tail(jobs[r])))
  BY <1>1, <1>4, AscendsTail
<1>6. x # NoUpdate
  BY <1>2 DEF Updates, NoUpdate
<1>7. {job'[r][v] : v \in Workers} \ {NoUpdate} = ({job[r][v] : v \in Workers} \ {NoUpdate}) \cup {x}
  BY <1>1, <1>3, <1>6
<1>8. /\ T[1] = S[1] \cup {x} /\ S[2] = {x} \cup T[2] /\ Before({x}, T[2])
      /\ S[1] = {job[r][v] : v \in Workers} \ {NoUpdate}
      /\ T[3] = S[3] /\ T[4] = S[4] /\ T[5] = S[5]
  BY <1>2, <1>3, <1>5, <1>7 DEF Stages
<1>9. InHand(r) = Everywhere(S) /\ InHand(r)' = Everywhere(T)
  BY <1>0, HandsAreStages
<1>10. InStages(T) /\ Everywhere(T) = Everywhere(S)
  <2>. HIDE DEF S, T, x
  <2>1. \A n \in 1..5 : n # 1 /\ n # 2 => T[n] = S[n]
    BY <1>8
  <2>2. 1 \in 1..5 /\ 2 \in 1..5 /\ 2 = 1 + 1
    OBVIOUS
  <2>. QED
    BY <1>4, <1>8, <2>1, <2>2, GoesOn
<1>11. /\ \A n \in 1..4 : \A u \in T[n] : u < offset'[r]
       /\ \A u \in T[5] : u >= offset'[r]
  <2>1. /\ \A n \in 1..4 : \A u \in S[n] : u < offset[r]
        /\ \A u \in S[5] : u >= offset[r]
    BY DEF InOrder
  <2>. HIDE DEF S, T, x
  <2>2. x < offset[r]
    BY <1>8, <2>1
  <2>3. \A n \in 1..4 : \A u \in T[n] : u \in S[n] \/ u = x
    BY <1>8
  <2>. QED
    BY <1>3, <1>8, <2>1, <2>2, <2>3
<1>12. \A u, v \in Workers : u # v /\ job'[r][u] = job'[r][v] => job'[r][u] = NoUpdate
  <2>1. \A v \in Workers : job[r][v] # x
    <3>1. x \notin S[1]
      <4>. HIDE DEF S, T, x
      <4>1. 1 \in 1..5 /\ 2 \in 1..5 /\ 1 < 2
        OBVIOUS
      <4>2. Before(S[1], S[2]) /\ x \in S[2]
        BY <1>4, <1>8, <4>1 DEF InStages
      <4>. QED
        BY <1>2, <4>2 DEF Before, Updates
    <3>. QED
      BY <1>6, <1>8, <3>1
  <2>2. \A u, v \in Workers : u # v /\ job[r][u] = job[r][v] => job[r][u] = NoUpdate
    BY DEF InOrder
  <2>. HIDE DEF x
  <2>. QED
    BY <1>3, <2>1, <2>2
<1>13. InOrder(r)'
  BY <1>3, <1>4, <1>5, <1>10, <1>11, <1>12, OrderPrime
<1>. QED
  BY <1>3, <1>9, <1>10, <1>13 DEF Passed

\* The update a handler returns from was in its hands only.
LEMMA ReturnKeepsOrder ==
  ASSUME LifecycleInvariant, NEW r \in Replicas, NEW w \in Workers, InOrder(r),
         HandlerReturns(r, w)
  PROVE  /\ InOrder(r)' /\ Passed(r)' = Passed(r)
         /\ job[r][w] \in InHand(r) /\ InHand(r)' = InHand(r) \ {job[r][w]}
<1>. DEFINE S == Stages(r)
            T == Stages(r)'
            x == job[r][w]
<1>0. TypeOK /\ TypeOK'
  BY WorkerTypes DEF LifecycleInvariant, WorkerStep
<1>1. x \in Updates
  BY <1>0 DEF HandlerReturns, LifecycleInvariant, ProcessState, TypeOK
<1>2. x # NoUpdate
  BY <1>1 DEF Updates, NoUpdate
<1>3. /\ job'[r][w] = NoUpdate /\ \A v \in Workers \ {w} : job'[r][v] = job[r][v]
      /\ UNCHANGED <<batch, channel, jobs, held, offset>>
  BY <1>0 DEF HandlerReturns, TypeOK, pollerVars
<1>4. /\ InStages(S) /\ Ascends(jobs[r]) /\ Ascends(channel[r])
      /\ \A u, v \in Workers : u # v /\ job[r][u] = job[r][v] => job[r][u] = NoUpdate
      /\ \A n \in 1..4 : \A u \in S[n] : u < offset[r]
      /\ \A u \in S[5] : u >= offset[r]
  BY DEF InOrder
<1>5. {job'[r][v] : v \in Workers} \ {NoUpdate} = ({job[r][v] : v \in Workers} \ {NoUpdate}) \ {x}
  BY <1>2, <1>3, <1>4
<1>6. /\ T[1] = S[1] \ {x} /\ x \in S[1]
      /\ T[2] = S[2] /\ T[3] = S[3] /\ T[4] = S[4] /\ T[5] = S[5]
  BY <1>2, <1>3, <1>5 DEF Stages
<1>7. /\ InHand(r) = Everywhere(S) /\ InHand(r)' = Everywhere(T)
      /\ \A n \in 1..5 : S[n] \subseteq Updates
  BY <1>0, HandsAreStages
<1>8. \A u, v \in Workers : u # v /\ job'[r][u] = job'[r][v] => job'[r][u] = NoUpdate
  BY <1>3, <1>4
<1>. HIDE DEF S, T, x
<1>9. \A n \in 1..5 : T[n] = S[n] \ {x}
  <2>1. 1 \in 1..5
    OBVIOUS
  <2>2. ASSUME NEW n \in 1..5, n # 1 PROVE x \notin S[n] /\ T[n] = S[n]
    <3>1. Before(S[1], S[n])
      BY <1>4, <2>1, <2>2 DEF InStages
    <3>2. x \notin S[n]
      BY <1>1, <1>6, <3>1 DEF Before, Updates
    <3>. QED
      BY <1>6, <2>2, <3>2
  <2>. QED
    BY <1>6, <2>2
<1>10. InStages(T)
  BY <1>4, <1>9 DEF InStages, Before
<1>11. Everywhere(T) = Everywhere(S) \ {x} /\ x \in Everywhere(S)
  <2>1. 1 \in 1..5
    OBVIOUS
  <2>. QED
    BY <1>6, <1>9, <2>1 DEF Everywhere
<1>12. /\ \A n \in 1..4 : \A u \in T[n] : u < offset'[r]
       /\ \A u \in T[5] : u >= offset'[r]
  <2>1. \A n \in 1..4 : n \in 1..5
    OBVIOUS
  <2>. QED
    BY <1>3, <1>4, <1>6, <1>9, <2>1
<1>13. InOrder(r)'
  BY <1>3, <1>4, <1>8, <1>10, <1>12, OrderPrime DEF T
<1>. QED
  BY <1>3, <1>7, <1>11, <1>13 DEF Passed, x

LEMMA GoneKeepsOrder ==
  ASSUME LifecycleInvariant, NEW r \in Replicas, Gone(r)
  PROVE  InOrder(r)' /\ Passed(r)' = 0 /\ InHand(r)' = {}
<1>. DEFINE T == Stages(r)'
<1>1. /\ offset'[r] = 0 /\ batch'[r] = <<>> /\ channel'[r] = <<>> /\ jobs'[r] = <<>>
      /\ held'[r] = NoUpdate /\ \A w \in Workers : job'[r][w] = NoUpdate
  BY DEF Gone, LifecycleInvariant, TypeOK
<1>2. InHand(r)' = {}
  BY <1>1 DEF InHand, ToSet
<1>3. T[1] = {} /\ T[2] = {} /\ T[3] = {} /\ T[4] = {} /\ T[5] = {}
  BY <1>1 DEF Stages, ToSet
<1>4. \A n \in 1..5 : T[n] = {}
  <2>. HIDE DEF T
  <2>. QED
    BY <1>3
<1>5. InStages(T)
  BY <1>4 DEF InStages, Before
<1>6. Ascends(jobs[r])' /\ Ascends(channel[r])'
  BY <1>1 DEF Ascends
<1>7. InOrder(r)'
  <2>1. \A n \in 1..4 : n \in 1..5
    OBVIOUS
  <2>2. 5 \in 1..5
    OBVIOUS
  <2>. QED
    BY <1>1, <1>4, <1>5, <1>6, <2>1, <2>2, OrderPrime
<1>. QED
  BY <1>1, <1>2, <1>7 DEF Passed

LEMMA InitInOrder == Init => UpdatesInOrder
<1>. SUFFICES ASSUME Init, NEW r \in Replicas PROVE InOrder(r)
  BY DEF UpdatesInOrder
<1>. DEFINE S == Stages(r)
<1>1. /\ offset[r] = 0 /\ batch[r] = <<>> /\ channel[r] = <<>> /\ jobs[r] = <<>>
      /\ held[r] = NoUpdate /\ \A w \in Workers : job[r][w] = NoUpdate
  BY DEF Init
<1>2. S[1] = {} /\ S[2] = {} /\ S[3] = {} /\ S[4] = {} /\ S[5] = {}
  BY <1>1 DEF Stages, ToSet
<1>3. \A n \in 1..5 : S[n] = {}
  <2>. HIDE DEF S
  <2>. QED
    BY <1>2
<1>4. InStages(S)
  BY <1>3 DEF InStages, Before
<1>5. (\A n \in 1..4 : n \in 1..5) /\ 5 \in 1..5
  OBVIOUS
<1>. QED
  BY <1>1, <1>3, <1>4, <1>5 DEF InOrder, Ascends

\* A step of a process: its order, and where the promise sees it.
LEMMA ReplicaStepInOrder ==
  ASSUME LifecycleInvariant, UpdatesInOrder, NEW r \in Replicas,
         \/ PollerStep(r) \/ DispatcherStep(r) \/ \E w \in Workers : WorkerStep(r, w)
         \/ StartUp(r) \/ BuildFails(r) \/ StartStepFails(r)
         \/ \E x \in Runners : RunnerReturns(r, x)
         \/ SigTerm(r) \/ ShutDown(r) \/ Crash(r)
  PROVE  /\ InOrder(r)'
         /\ \/ GetUpdatesDelivers(r) \/ (\E w \in Workers : HandlerReturns(r, w)) \/ Gone(r)
            \/ InHand(r)' = InHand(r) /\ Passed(r)' = Passed(r)
<1>1. InOrder(r)
  BY DEF UpdatesInOrder
<1>2. CASE GetUpdatesDelivers(r)
  BY <1>1, <1>2, DeliveryKeepsOrder
<1>3. CASE PushUpdate(r)
  BY <1>1, <1>3, PushKeepsOrder
<1>4. CASE ReceiveUpdate(r)
  BY <1>1, <1>4, ReceiveKeepsOrder
<1>5. CASE SendJob(r)
  BY <1>1, <1>5, SendKeepsOrder
<1>6. CASE \E w \in Workers : TakeJob(r, w)
  BY <1>1, <1>6, TakeKeepsOrder
<1>7. CASE \E w \in Workers : HandlerReturns(r, w)
  BY <1>1, <1>7, ReturnKeepsOrder
<1>8. CASE BuildFails(r) \/ Exit(r) \/ Crash(r)
  BY <1>8, GoneKeepsOrder DEF BuildFails, Exit, Crash
<1>9. CASE \/ SendGetUpdates(r) \/ GetUpdatesReturnsNothing(r) \/ PollerStops(r)
           \/ DispatcherStops(r) \/ (\E w \in Workers : WorkerStops(r, w))
           \/ StartUp(r) \/ StartStepFails(r) \/ (\E x \in Runners : RunnerReturns(r, x))
           \/ SigTerm(r) \/ Shutdown(r) \/ ClosePool(r)
  <2>1. UNCHANGED <<batch, channel, jobs, held, job, offset>>
    BY <1>9 DEF SendGetUpdates, GetUpdatesReturnsNothing, PollerStops, DispatcherStops, WorkerStops,
       StartUp, StartProcess, StartPublisher, StartIndexSubscriber, StartTelegramWorkers,
       StartStepFails, RunnerReturns,
       SigTerm, Shutdown, ClosePool, telegramVars, pollerVars, pipeVars
  <2>. QED
    BY <1>1, <2>1, SameOrder
<1>. QED
  BY <1>2, <1>3, <1>4, <1>5, <1>6, <1>7, <1>8, <1>9
     DEF PollerStep, DispatcherStep, WorkerStep, ShutDown

LEMMA OthersInOrder ==
  ASSUME LifecycleInvariant, UpdatesInOrder, NEW r \in Replicas, NEW q \in Replicas, q # r,
         \/ PollerStep(r) \/ DispatcherStep(r) \/ \E w \in Workers : WorkerStep(r, w)
         \/ StartUp(r) \/ BuildFails(r) \/ StartStepFails(r)
         \/ \E x \in Runners : RunnerReturns(r, x)
         \/ SigTerm(r) \/ ShutDown(r) \/ Crash(r)
  PROVE  InOrder(q)' /\ InHand(q)' = InHand(q) /\ Passed(q)' = Passed(q)
BY OtherProcesses, SameOrder DEF UpdatesInOrder

LEMMA StepInOrder == LifecycleInvariant /\ UpdatesInOrder /\ [Next]_vars => UpdatesInOrder'
<1>. SUFFICES ASSUME LifecycleInvariant, UpdatesInOrder, [Next]_vars PROVE UpdatesInOrder'
  OBVIOUS
<1>1. CASE PostUpdate \/ UNCHANGED vars
  <2>1. UNCHANGED <<batch, channel, jobs, held, job, offset>>
    BY <1>1 DEF PostUpdate, vars, pollerVars, pipeVars
  <2>. QED
    BY <2>1, SameOrder DEF UpdatesInOrder
<1>2. ASSUME NEW r \in Replicas,
             \/ PollerStep(r) \/ DispatcherStep(r) \/ \E w \in Workers : WorkerStep(r, w)
             \/ StartUp(r) \/ BuildFails(r) \/ StartStepFails(r)
             \/ \E x \in Runners : RunnerReturns(r, x)
             \/ SigTerm(r) \/ ShutDown(r) \/ Crash(r)
      PROVE  UpdatesInOrder'
  BY <1>2, ReplicaStepInOrder, OthersInOrder DEF UpdatesInOrder
<1>. QED
  BY <1>1, <1>2 DEF Next

\* The updates of a process stand in the order of the chats, each at one place
\* only: the queues, the dispatcher and the handlers neither overtake nor
\* repeat one.
THEOREM PipelineKeepsOrder == Spec => []UpdatesInOrder
BY LifecycleInvariantHolds, InitInOrder, StepInOrder, PTL DEF Spec

-----------------------------------------------------------------------------
(* Nobody waits for ever: what is left of ShutdownCompletes and of         *)
(* EveryUpdateHandled without fairness.                                    *)

\* Who has been told to stop, and who has stopped for what reason.
StageAgrees(r) ==
  /\ main[r] # "down" => poller[r] # "off"
  /\ main[r] = "waiting" => cancelled[r] /\ stopPolling[r]
  /\ stopPolling[r] => main[r] \in {"waiting", "exit"}
  /\ poller[r] = "closed" => stopPolling[r]
  /\ dispatcher[r] = "done" => cancelled[r] \/ poller[r] = "closed"
  /\ main[r] = "serving" => dispatcher[r] # "off" /\ \A w \in Workers : worker[r][w] # "off"
  /\ \A w \in Workers : worker[r][w] = "done" => cancelled[r] \/ dispatcher[r] = "done"
StagesAgree == \A r \in Replicas : StageAgrees(r)

LEMMA OwnStage ==
  ASSUME LifecycleInvariant, NEW r \in Replicas, StageAgrees(r),
         \/ PollerStep(r) \/ DispatcherStep(r) \/ \E w \in Workers : WorkerStep(r, w)
         \/ StartUp(r) \/ BuildFails(r) \/ StartStepFails(r)
         \/ \E x \in Runners : RunnerReturns(r, x)
         \/ SigTerm(r) \/ ShutDown(r) \/ Crash(r)
  PROVE  StageAgrees(r)'
<1>. USE DEF LifecycleInvariant, TypeOK, StageAgrees, telegramVars, pollerVars, pipeVars,
             processVars
<1>1. CASE PollerStep(r)
  BY <1>1 DEF PollerStep, SendGetUpdates, GetUpdatesDelivers, GetUpdatesReturnsNothing,
              PushUpdate, PollerStops
<1>2. CASE DispatcherStep(r)
  BY <1>2 DEF DispatcherStep, ReceiveUpdate, SendJob, DispatcherStops
<1>3. ASSUME NEW w \in Workers, WorkerStep(r, w) PROVE StageAgrees(r)'
  <2>1. worker'[r][w] = "done" => cancelled[r] \/ dispatcher[r] = "done"
    BY <1>3 DEF WorkerStep, TakeJob, HandlerReturns, WorkerStops
  <2>2. \A v \in Workers \ {w} : worker'[r][v] = worker[r][v]
    BY <1>3 DEF WorkerStep, TakeJob, HandlerReturns, WorkerStops
  <2>3. worker'[r][w] # "off"
    BY <1>3 DEF WorkerStep, TakeJob, HandlerReturns, WorkerStops
  <2>4. UNCHANGED <<main, cancelled, stopPolling, poller, dispatcher>>
    BY <1>3 DEF WorkerStep, TakeJob, HandlerReturns, WorkerStops
  <2>. QED
    BY <2>1, <2>2, <2>3, <2>4
<1>4. CASE StartUp(r)
  BY <1>4 DEF StartUp, StartProcess, StartPublisher, StartIndexSubscriber,
              StartTelegramWorkers, ProcessState
<1>5. CASE BuildFails(r) \/ Exit(r) \/ Crash(r)
  BY <1>5 DEF BuildFails, Exit, Crash, Gone
<1>6. CASE StartStepFails(r) \/ SigTerm(r) \/ \E x \in Runners : RunnerReturns(r, x)
  BY <1>6 DEF StartStepFails, SigTerm, RunnerReturns
<1>7. CASE Shutdown(r) \/ ClosePool(r)
  BY <1>7 DEF Shutdown, ClosePool
<1>. QED
  BY <1>1, <1>2, <1>3, <1>4, <1>5, <1>6, <1>7 DEF ShutDown

LEMMA OthersKeepTheirSignals ==
  ASSUME LifecycleInvariant, NEW r \in Replicas, NEW q \in Replicas, q # r,
         \/ PollerStep(r) \/ DispatcherStep(r) \/ \E w \in Workers : WorkerStep(r, w)
         \/ StartUp(r) \/ BuildFails(r) \/ StartStepFails(r)
         \/ \E x \in Runners : RunnerReturns(r, x)
         \/ SigTerm(r) \/ ShutDown(r) \/ Crash(r)
  PROVE  cancelled'[q] = cancelled[q] /\ stopPolling'[q] = stopPolling[q]
<1>. USE DEF LifecycleInvariant, TypeOK, pollerVars, pipeVars, processVars
<1>1. CASE PollerStep(r) \/ DispatcherStep(r) \/ \E w \in Workers : WorkerStep(r, w)
  BY <1>1 DEF PollerStep, SendGetUpdates, GetUpdatesDelivers, GetUpdatesReturnsNothing,
              PushUpdate, PollerStops, DispatcherStep, ReceiveUpdate, SendJob, DispatcherStops,
              WorkerStep, TakeJob, HandlerReturns, WorkerStops
<1>2. CASE StartUp(r) \/ StartStepFails(r) \/ SigTerm(r) \/ \E x \in Runners : RunnerReturns(r, x)
  BY <1>2 DEF StartUp, StartProcess, StartPublisher, StartIndexSubscriber,
              StartTelegramWorkers, StartStepFails,
              SigTerm, RunnerReturns
<1>3. CASE BuildFails(r) \/ Crash(r) \/ ShutDown(r)
  BY <1>3 DEF BuildFails, ShutDown, Exit, Crash, Gone, Shutdown, ClosePool
<1>. QED
  BY <1>1, <1>2, <1>3

LEMMA StagesAgreeStep == LifecycleInvariant /\ StagesAgree /\ [Next]_vars => StagesAgree'
<1>. SUFFICES ASSUME LifecycleInvariant, StagesAgree, [Next]_vars PROVE StagesAgree'
  OBVIOUS
<1>1. CASE PostUpdate \/ UNCHANGED vars
  BY <1>1 DEF PostUpdate, vars, pollerVars, pipeVars, processVars, StagesAgree, StageAgrees
<1>2. ASSUME NEW r \in Replicas,
             \/ PollerStep(r) \/ DispatcherStep(r) \/ \E w \in Workers : WorkerStep(r, w)
             \/ StartUp(r) \/ BuildFails(r) \/ StartStepFails(r)
             \/ \E x \in Runners : RunnerReturns(r, x)
             \/ SigTerm(r) \/ ShutDown(r) \/ Crash(r)
      PROVE  StagesAgree'
  <2>. SUFFICES ASSUME NEW q \in Replicas PROVE StageAgrees(q)'
    BY DEF StagesAgree
  <2>1. StageAgrees(q)
    BY DEF StagesAgree
  <2>2. CASE q = r
    BY <1>2, <2>1, <2>2, OwnStage
  <2>3. CASE q # r
    BY <1>2, <2>1, <2>3, OtherProcesses, OthersKeepTheirSignals DEF StageAgrees
  <2>. QED
    BY <2>2, <2>3
<1>. QED
  BY <1>1, <1>2 DEF Next

LEMMA StagesAlwaysAgree == Spec => []StagesAgree
<1>1. Init => StagesAgree
  BY DEF Init, StagesAgree, StageAgrees
<1>. QED
  BY <1>1, StagesAgreeStep, LifecycleInvariantHolds, PTL DEF Spec

\* A step the poller can take at once: an answer of Telegram is awaited no
\* longer than its timeout.
PollerReady(r) ==
  \/ poller[r] = "request"
  \/ poller[r] = "loop" /\ stopPolling[r]
  \/ poller[r] = "push" /\ Len(channel[r]) < UpdatesBuffer

\* What shutdown may be waiting for: a goroutine that sees its context or has
\* work it can finish, or, for the dispatcher, the poller that feeds it.
ShutdownReady(r) ==
  \/ GoroutinesDone(r)
  \/ cancelled[r] /\ runners[r] # {}
  \/ \E w \in Workers : worker[r][w] = "handle" \/ (worker[r][w] = "select" /\ cancelled[r])
  \/ dispatcher[r] = "send" /\ cancelled[r]
  \/ dispatcher[r] = "receive" /\ (channel[r] # <<>> \/ poller[r] = "closed" \/ PollerReady(r))

\* wg.Wait never waits in vain: from every state a shutdown can be in, with
\* full queues, a long poll under way or an answer half pushed, either all
\* goroutines have ended or one that it waits for can take its next step.
THEOREM ShutdownNeverStuck ==
  Spec => [](\A r \in Replicas : main[r] = "waiting" => ShutdownReady(r))
<1>1. LifecycleInvariant /\ StagesAgree =>
        \A r \in Replicas : main[r] = "waiting" => ShutdownReady(r)
  <2>. SUFFICES ASSUME LifecycleInvariant, StagesAgree, NEW r \in Replicas, main[r] = "waiting",
                       ~GoroutinesDone(r)
                PROVE  ShutdownReady(r)
    BY DEF ShutdownReady
  <2>1. TypeOK /\ StageAgrees(r) /\ cancelled[r] /\ stopPolling[r]
    BY DEF LifecycleInvariant, StagesAgree, StageAgrees
  <2>2. CASE runners[r] # {}
    BY <2>1, <2>2 DEF ShutdownReady
  <2>3. CASE \E w \in Workers : worker[r][w] \notin {"off", "done"}
    BY <2>1, <2>3 DEF TypeOK, ShutdownReady
  <2>4. CASE dispatcher[r] \notin {"off", "done"}
    <3>1. CASE dispatcher[r] = "send" \/ channel[r] # <<>>
      BY <2>1, <2>4, <3>1 DEF TypeOK, ShutdownReady
    <3>2. CASE dispatcher[r] = "receive" /\ channel[r] = <<>>
      <4>1. Len(channel[r]) < UpdatesBuffer
        BY <3>2, CapacityAssumption
      <4>2. poller[r] \in {"loop", "request", "push", "closed"}
        BY <2>1 DEF TypeOK, StageAgrees
      <4>. QED
        BY <2>1, <3>2, <4>1, <4>2 DEF ShutdownReady, PollerReady
    <3>. QED
      BY <2>1, <2>4, <3>1, <3>2 DEF TypeOK
  <2>. QED
    BY <2>2, <2>3, <2>4 DEF GoroutinesDone
<1>. QED
  BY <1>1, LifecycleInvariantHolds, StagesAlwaysAgree, PTL

\* A step that brings an update of a serving process further.
PipelineReady(r) ==
  \/ poller[r] = "push" /\ Len(channel[r]) < UpdatesBuffer
  \/ dispatcher[r] = "receive" /\ channel[r] # <<>>
  \/ dispatcher[r] = "send" /\ Len(jobs[r]) < JobsBuffer
  \/ \E w \in Workers : worker[r][w] = "handle" \/ (worker[r][w] = "select" /\ jobs[r] # <<>>)

\* A queue that holds its capacity, or more, is not empty.
LEMMA FullIsNotEmpty ==
  ASSUME NEW S, NEW q \in Seq(S), NEW n \in Nat \ {0}, ~(Len(q) < n)
  PROVE  q # <<>>
BY EmptySeq

\* The goroutines of the pipeline never wait for each other in a circle,
\* whatever the capacities of the channels and the number of workers, which
\* Config.validate keeps above zero: while a process serves and holds an
\* update, one of them can bring an update further.
THEOREM PipelineNeverStuck ==
  ASSUME Workers # {}
  PROVE  Spec => [](\A r \in Replicas :
           main[r] = "serving" /\ ~cancelled[r] /\ InHand(r) # {} => PipelineReady(r))
<1>1. LifecycleInvariant /\ StagesAgree =>
        \A r \in Replicas :
          main[r] = "serving" /\ ~cancelled[r] /\ InHand(r) # {} => PipelineReady(r)
  <2>. SUFFICES ASSUME LifecycleInvariant, StagesAgree, NEW r \in Replicas,
                       main[r] = "serving", ~cancelled[r], InHand(r) # {}
                PROVE  PipelineReady(r)
    OBVIOUS
  <2>1. TypeOK /\ StageAgrees(r)
    BY DEF LifecycleInvariant, StagesAgree
  <2>2. /\ dispatcher[r] \in {"receive", "send"}
        /\ \A w \in Workers : worker[r][w] \in {"select", "handle"}
    BY <2>1 DEF TypeOK, StageAgrees
  <2>3. ASSUME jobs[r] # <<>> PROVE PipelineReady(r)
    <3>1. PICK w \in Workers : TRUE
      OBVIOUS
    <3>. QED
      BY <2>2, <2>3, <3>1 DEF PipelineReady
  <2>4. ASSUME dispatcher[r] = "send" PROVE PipelineReady(r)
    <3>1. CASE Len(jobs[r]) < JobsBuffer
      BY <2>4, <3>1 DEF PipelineReady
    <3>2. CASE ~(Len(jobs[r]) < JobsBuffer)
      <4>1. jobs[r] # <<>>
        BY <2>1, <3>2, FullIsNotEmpty, CapacityAssumption DEF TypeOK
      <4>. QED
        BY <4>1, <2>3
    <3>. QED
      BY <3>1, <3>2
  <2>5. ASSUME channel[r] # <<>> PROVE PipelineReady(r)
    BY <2>2, <2>4, <2>5 DEF PipelineReady
  <2>6. ASSUME batch[r] # <<>> PROVE PipelineReady(r)
    <3>1. poller[r] = "push"
      BY <2>6 DEF LifecycleInvariant, BatchIsNext
    <3>2. CASE Len(channel[r]) < UpdatesBuffer
      BY <3>1, <3>2 DEF PipelineReady
    <3>3. CASE ~(Len(channel[r]) < UpdatesBuffer)
      <4>1. channel[r] # <<>>
        BY <2>1, <3>3, FullIsNotEmpty, CapacityAssumption DEF TypeOK
      <4>. QED
        BY <4>1, <2>5
    <3>. QED
      BY <3>2, <3>3
  <2>7. CASE held[r] # NoUpdate
    BY <2>2, <2>4, <2>7 DEF LifecycleInvariant, ProcessState
  <2>8. ASSUME NEW w \in Workers, job[r][w] # NoUpdate PROVE PipelineReady(r)
    BY <2>8 DEF LifecycleInvariant, ProcessState, PipelineReady
  <2>9. CASE batch[r] = <<>> /\ channel[r] = <<>> /\ jobs[r] = <<>>
    <3>1. ToSet(batch[r]) = {} /\ ToSet(channel[r]) = {} /\ ToSet(jobs[r]) = {}
      BY <2>9 DEF ToSet
    <3>. QED
      BY <3>1, <2>7, <2>8 DEF InHand
  <2>. QED
    BY <2>3, <2>5, <2>6, <2>9
<1>. QED
  BY <1>1, LifecycleInvariantHolds, StagesAlwaysAgree, PTL

-----------------------------------------------------------------------------
(* The promise of UpdateDelivery.                                          *)

\* The mapped variables of the processes, before and after a step of r.
Hands == [q \in Replicas |-> InHand(q)]
PassedBy == [q \in Replicas |-> Passed(q)]

LEMMA MappedStep ==
  ASSUME NEW r \in Replicas, NEW H, NEW P,
         \A q \in Replicas \ {r} : InHand(q)' = InHand(q) /\ Passed(q)' = Passed(q),
         InHand(r)' = H, Passed(r)' = P
  PROVE  Hands' = [Hands EXCEPT ![r] = H] /\ PassedBy' = [PassedBy EXCEPT ![r] = P]
BY DEF Hands, PassedBy

LEMMA SameMapped ==
  ASSUME \A q \in Replicas : InHand(q)' = InHand(q) /\ Passed(q)' = Passed(q)
  PROVE  Hands' = Hands /\ PassedBy' = PassedBy
BY DEF Hands, PassedBy

\* Delivery of a batch takes over, a handler's return handles, the end of a
\* process is its death, a confirming request forgets; the rest is unseen.
LEMMA ReplicaStepRefines ==
  ASSUME LifecycleInvariant, LifecycleInvariant', UpdatesInOrder, NEW r \in Replicas,
         \/ PollerStep(r) \/ DispatcherStep(r) \/ \E w \in Workers : WorkerStep(r, w)
         \/ StartUp(r) \/ BuildFails(r) \/ StartStepFails(r)
         \/ \E x \in Runners : RunnerReturns(r, x)
         \/ SigTerm(r) \/ ShutDown(r) \/ Crash(r)
  PROVE  Delivery!Next \/ UNCHANGED Delivery!vars
<1>1. InOrder(r)
  BY DEF UpdatesInOrder
<1>2. \A q \in Replicas \ {r} : InHand(q)' = InHand(q) /\ Passed(q)' = Passed(q)
  BY OthersInOrder
<1>3. CASE GetUpdatesDelivers(r)
  <2>1. /\ posted \in (Passed(r) + 1)..posted /\ Passed(r)' = posted
        /\ InHand(r)' = InHand(r) \cup {u \in (Passed(r) + 1)..posted : u > confirmed}
    BY <1>1, <1>3, DeliveryKeepsOrder, Numbers
  <2>2. UNCHANGED <<posted, confirmed, handled, dropped>>
    BY <1>3 DEF GetUpdatesDelivers, telegramVars
  <2>3. /\ Hands' = [Hands EXCEPT ![r] = Hands[r] \cup
                        {u \in (PassedBy[r] + 1)..posted : u > confirmed}]
        /\ PassedBy' = [PassedBy EXCEPT ![r] = posted]
        /\ posted \in (PassedBy[r] + 1)..posted
    <3>1. Hands[r] = InHand(r) /\ PassedBy[r] = Passed(r)
      BY DEF Hands, PassedBy
    <3>. QED
      BY <1>2, <2>1, <3>1, MappedStep
  <2>4. Delivery!TakeOver(r)
    BY <2>2, <2>3 DEF Delivery!TakeOver, Hands, PassedBy
  <2>. QED
    BY <2>4 DEF Delivery!Next
<1>4. ASSUME NEW w \in Workers, HandlerReturns(r, w) PROVE Delivery!Next
  <2>1. /\ job[r][w] \in InHand(r) /\ InHand(r)' = InHand(r) \ {job[r][w]}
        /\ Passed(r)' = Passed(r)
    BY <1>1, <1>4, ReturnKeepsOrder
  <2>2. UNCHANGED <<posted, confirmed, dropped>> /\ handled' = handled \cup {job[r][w]}
    BY <1>4 DEF HandlerReturns, telegramVars
  <2>3. /\ Hands' = [Hands EXCEPT ![r] = Hands[r] \ {job[r][w]}] /\ PassedBy' = PassedBy
        /\ job[r][w] \in Hands[r]
    <3>1. Hands[r] = InHand(r)
      BY DEF Hands
    <3>2. PassedBy' = PassedBy
      BY <1>2, <2>1 DEF PassedBy
    <3>. QED
      BY <1>2, <2>1, <3>1, <3>2, MappedStep
  <2>4. Delivery!Handle(r)
    BY <2>2, <2>3 DEF Delivery!Handle, Hands, PassedBy
  <2>. QED
    BY <2>4 DEF Delivery!Next
<1>5. CASE Gone(r)
  <2>1. InHand(r)' = {} /\ Passed(r)' = 0
    BY <1>5, GoneKeepsOrder
  <2>2. /\ UNCHANGED <<posted, confirmed, handled>>
        /\ dropped' = dropped \cup {u \in InHand(r) : u <= confirmed}
    BY <1>5 DEF Gone, telegramVars
  <2>3. /\ Hands' = [Hands EXCEPT ![r] = {}] /\ PassedBy' = [PassedBy EXCEPT ![r] = 0]
        /\ Hands[r] = InHand(r)
    BY <1>2, <2>1, MappedStep DEF Hands
  <2>4. Delivery!Die(r)
    BY <2>2, <2>3 DEF Delivery!Die, Hands, PassedBy
  <2>. QED
    BY <2>4 DEF Delivery!Next
<1>6. ASSUME ~GetUpdatesDelivers(r), ~\E w \in Workers : HandlerReturns(r, w), ~Gone(r)
      PROVE  Delivery!Next \/ UNCHANGED Delivery!vars
  <2>1. Hands' = Hands /\ PassedBy' = PassedBy /\ \A q \in Replicas : InHand(q)' = InHand(q)
    BY <1>2, <1>6, ReplicaStepInOrder, SameMapped
  <2>2. UNCHANGED <<posted, handled, dropped>>
    BY <1>6 DEF PollerStep, DispatcherStep, WorkerStep, SendGetUpdates,
       GetUpdatesReturnsNothing, PushUpdate, PollerStops, ReceiveUpdate, SendJob,
       DispatcherStops, TakeJob, WorkerStops,
       StartUp, StartProcess, StartPublisher, StartIndexSubscriber, StartTelegramWorkers,
       StartStepFails,
       RunnerReturns, SigTerm, ShutDown, Shutdown, ClosePool, BuildFails, Exit, Crash, telegramVars
  <2>3. CASE SendGetUpdates(r) /\ confirmed' # confirmed
    <3>1. confirmed' \in (confirmed + 1)..posted
      <4>1. confirmed < confirmed'
        BY <2>3, Numbers DEF SendGetUpdates
      <4>2. confirmed' \in Nat /\ confirmed' <= posted'
        BY DEF LifecycleInvariant, TypeOK
      <4>. QED
        BY <2>2, <4>1, <4>2, Numbers
    <3>2. \A u \in 1..confirmed' : u \in handled \cup dropped \/ \E q \in Replicas : u \in Hands[q]
      <4>1. \A u \in 1..confirmed' :
               u \in handled' \cup dropped' \cup UNION {InHand(q)' : q \in Replicas}
        BY DEF LifecycleInvariant, NoUpdateVanishes
      <4>. QED
        BY <2>1, <2>2, <4>1 DEF Hands
    <3>3. Delivery!Forget
      BY <2>1, <2>2, <3>1, <3>2 DEF Delivery!Forget, Hands, PassedBy
    <3>. QED
      BY <3>3 DEF Delivery!Next
  <2>4. CASE UNCHANGED confirmed
    BY <2>1, <2>2, <2>4 DEF Delivery!vars, Hands, PassedBy
  <2>. QED
    BY <1>6, <2>3, <2>4
       DEF PollerStep, DispatcherStep, WorkerStep,
       GetUpdatesReturnsNothing, PushUpdate, PollerStops, ReceiveUpdate, SendJob,
       DispatcherStops, TakeJob, WorkerStops,
       StartUp, StartProcess, StartPublisher, StartIndexSubscriber, StartTelegramWorkers,
       StartStepFails,
       RunnerReturns, SigTerm, ShutDown, Shutdown, ClosePool, BuildFails, Exit, Crash, telegramVars
<1>. QED
  BY <1>3, <1>4, <1>5, <1>6

\* Whatever the capacities, the number of workers and replicas, and the ends
\* of processes, a process handles an update it has taken over once in its
\* life, and Telegram forgets only what some process has taken over.
THEOREM PipelineKeepsThePromise == Spec => PipelineDelivers
<1>1. Init => Delivery!Init
  <2>. SUFFICES ASSUME Init PROVE Delivery!Init
    OBVIOUS
  <2>1. \A r \in Replicas : InHand(r) = {} /\ Passed(r) = 0
    BY DEF Init, InHand, ToSet, Passed
  <2>. QED
    BY <2>1 DEF Init, Delivery!Init
<1>2. LifecycleInvariant /\ LifecycleInvariant' /\ UpdatesInOrder /\ [Next]_vars
        => [Delivery!Next]_(Delivery!vars)
  <2>. SUFFICES ASSUME LifecycleInvariant, LifecycleInvariant', UpdatesInOrder, [Next]_vars
                PROVE  Delivery!Next \/ UNCHANGED Delivery!vars
    OBVIOUS
  <2>1. CASE PostUpdate
    <3>1. /\ UNCHANGED <<batch, channel, jobs, held, job, offset, confirmed, handled, dropped>>
          /\ posted' = posted + 1
      BY <2>1 DEF PostUpdate, pollerVars, pipeVars
    <3>2. Hands' = Hands /\ PassedBy' = PassedBy
      BY <3>1 DEF Hands, PassedBy, InHand, Passed
    <3>3. Delivery!Send
      BY <3>1, <3>2 DEF Delivery!Send, Hands, PassedBy
    <3>. QED
      BY <3>3 DEF Delivery!Next
  <2>2. CASE UNCHANGED vars
    <3>1. UNCHANGED <<batch, channel, jobs, held, job, offset, posted, confirmed, handled, dropped>>
      BY <2>2 DEF vars, telegramVars, pollerVars, pipeVars
    <3>2. Hands' = Hands /\ PassedBy' = PassedBy
      BY <3>1 DEF Hands, PassedBy, InHand, Passed
    <3>. QED
      BY <3>1, <3>2 DEF Delivery!vars, Hands, PassedBy
  <2>3. CASE \E r \in Replicas :
               \/ PollerStep(r) \/ DispatcherStep(r) \/ \E w \in Workers : WorkerStep(r, w)
               \/ StartUp(r) \/ BuildFails(r) \/ StartStepFails(r)
               \/ \E x \in Runners : RunnerReturns(r, x)
               \/ SigTerm(r) \/ ShutDown(r) \/ Crash(r)
    BY <2>3, ReplicaStepRefines
  <2>. QED
    BY <2>1, <2>2, <2>3 DEF Next
<1>. QED
  BY <1>1, <1>2, LifecycleInvariantHolds, PipelineKeepsOrder, PTL
     DEF Spec, PipelineDelivers, Delivery!Spec

=============================================================================
