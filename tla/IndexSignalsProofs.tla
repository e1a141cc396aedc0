------------------------- MODULE IndexSignalsProofs -------------------------
(* Proofs about IndexSignals, in whatever order the ban transactions       *)
(* commit: a signal is acknowledged only once its event is behind the      *)
(* checkpoint and, unless it committed there, in the index; no forwarded   *)
(* event passes a bound queue; a process that calls itself ready enforces  *)
(* the bans older than itself; and together they keep the promise of a     *)
(* replicated blacklist.  Bans that do not overlap are enforced by every   *)
(* live replica that has acknowledged them.                                *)
EXTENDS IndexSignals, TLAPS

USE DEF brokerVars, outboxVars, indexVars, birth, Event

\* What goes back to its queue or is dropped is kept all the same; nobody is
\* given anything new.
LEMMA PutBackKeeps ==
  ASSUME TypeOK, NEW R \in SUBSET Replicas, PutBack(R), UNCHANGED acked
  PROVE  /\ queue' \in [Replicas -> SUBSET Signal] /\ hand' \in [Replicas -> SUBSET Signal]
         /\ discarded' \in [Replicas -> SUBSET Event]
         /\ \A q \in Replicas :
              /\ queue'[q] \cup hand'[q] \subseteq queue[q] \cup hand[q]
              /\ hand'[q] = IF q \in R THEN {} ELSE hand[q]
              /\ \A e : Kept(q, e) => Kept(q, e)'
<1>1. PICK kept \in SUBSET R :
        /\ queue' = [r \in Replicas |-> IF r \in kept THEN queue[r] \cup hand[r] ELSE queue[r]]
        /\ discarded' = [r \in Replicas |->
             IF r \in R \ kept THEN discarded[r] \cup {s.event : s \in hand[r]} ELSE discarded[r]]
        /\ hand' = [r \in Replicas |-> IF r \in R THEN {} ELSE hand[r]]
  BY DEF PutBack
<1>2. ASSUME NEW r \in Replicas PROVE {s.event : s \in hand[r]} \subseteq Event
  BY DEF TypeOK, BrokerTypeOK, Signal
<1>3. /\ queue' \in [Replicas -> SUBSET Signal] /\ hand' \in [Replicas -> SUBSET Signal]
      /\ discarded' \in [Replicas -> SUBSET Event]
  BY <1>1, <1>2 DEF TypeOK, BrokerTypeOK
<1>4. ASSUME NEW q \in Replicas PROVE
        /\ queue'[q] \cup hand'[q] \subseteq queue[q] \cup hand[q]
        /\ hand'[q] = IF q \in R THEN {} ELSE hand[q]
        /\ \A e : Kept(q, e) => Kept(q, e)'
  BY <1>1 DEF Kept
<1> QED BY <1>3, <1>4

\* A signal that waits or is in hand names an event.
LEMMA SignalTyped ==
  ASSUME TypeOK, NEW r \in Replicas, NEW s \in queue[r] \cup hand[r]
  PROVE  s \in Signal /\ s.event \in Event
BY DEF TypeOK, BrokerTypeOK, Signal

\* A batch that was applied is in the index, and the checkpoint at its end:
\* what was read stays covered.
LEMMA BatchIsApplied ==
  ASSUME SignalInvariant, NEW r \in Replicas, ApplyBatch(r), UNCHANGED <<outbox, late, known>>,
         batch' = [batch EXCEPT ![r] = {}], \A q \in Replicas : Live(q)' => Live(q)
  PROVE  /\ IndexTypeOK' /\ ReadIsCovered' /\ StartIsCovered'
         /\ \A q \in Replicas : /\ seen'[q] \subseteq outbox /\ batch'[q] \subseteq Pending(q)'
                                /\ ckpt[q] <= ckpt'[q]
         /\ \A q \in Replicas \ {r} : ckpt'[q] = ckpt[q]
         /\ \A b \in batch[r] : b <= ckpt'[r]
<1>t. /\ batch \in [Replicas -> SUBSET Event] /\ seen \in [Replicas -> SUBSET Event]
      /\ ckpt \in [Replicas -> 0..MaxBans] /\ stale \in [Replicas -> BOOLEAN]
      /\ late \in [Replicas -> SUBSET Event] /\ outbox \subseteq Event /\ MaxBans \in Nat
      /\ \A q \in Replicas : seen[q] \subseteq outbox /\ batch[q] \subseteq Pending(q)
  BY ConstantsAssumption
  DEF SignalInvariant, TypeOK, ProcessTypeOK, IndexTypeOK, OutboxTypeOK, WithinOutbox
<1>n. /\ \A q \in Replicas : ckpt[q] \in Nat /\ \A b \in batch[q] : b \in Nat
      /\ \A e \in outbox : e \in Nat
  BY <1>t
<1>s. seen' = [seen EXCEPT ![r] = @ \cup batch[r]] BY DEF ApplyBatch
<1>c. PICK c \in 0..MaxBans : /\ ckpt' = [ckpt EXCEPT ![r] = c] /\ ckpt[r] <= c
                              /\ \A b \in batch[r] : b <= c
                              /\ c = ckpt[r] \/ c \in batch[r]
  <2>1. CASE batch[r] = {} /\ UNCHANGED <<ckpt, stale>> BY <1>t, <2>1
  <2>2. ASSUME NEW last \in batch[r], \A e \in batch[r] : e <= last,
               ckpt' = [ckpt EXCEPT ![r] = last]
        PROVE  \E c \in 0..MaxBans : /\ ckpt' = [ckpt EXCEPT ![r] = c] /\ ckpt[r] <= c
                                     /\ \A b \in batch[r] : b <= c
                                     /\ c = ckpt[r] \/ c \in batch[r]
    <3>1. last \in Event /\ last \in Pending(r) BY <1>t
    <3>2. last \in 0..MaxBans /\ ckpt[r] <= last BY <1>t, <1>n, <3>1 DEF Pending
    <3> QED BY <2>2, <3>2
  <2> QED BY <2>1, <2>2 DEF ApplyBatch
<1>1. IndexTypeOK'
  <2>1. stale' \in [Replicas -> BOOLEAN] BY <1>t DEF ApplyBatch
  <2>2. seen' \in [Replicas -> SUBSET Event] BY <1>t, <1>s
  <2>3. ckpt' \in [Replicas -> 0..MaxBans] BY <1>t, <1>c
  <2> QED BY <1>t, <2>1, <2>2, <2>3 DEF IndexTypeOK
<1>2. ReadIsCovered'
  <2>1. ASSUME NEW q \in Replicas, Live(q)', NEW e \in outbox, HasReadPast(q, e)'
        PROVE  e \in seen'[q] \cup late[q] \cup batch'[q]
    <3>1. HasReadPast(q, e)
      <4>1. CASE q = r
        <5>1. ckpt'[r] = c /\ batch'[r] = {} BY <1>t, <1>c
        <5>2. e <= c BY <2>1, <4>1, <5>1 DEF HasReadPast
        <5>3. e <= ckpt[r] \/ \E b \in batch[r] : e <= b
          <6>1. CASE c = ckpt[r] BY <5>2, <6>1
          <6>2. CASE c \in batch[r] BY <5>2, <6>2, Zenon
          <6> QED BY <1>c, <6>1, <6>2, Zenon
        <5> QED BY <4>1, <5>3 DEF HasReadPast
      <4>2. CASE q # r BY <1>t, <1>c, <2>1, <4>2 DEF HasReadPast
      <4> QED BY <4>1, <4>2
    <3>2. e \in seen[q] \cup late[q] \cup batch[q]
      BY <2>1, <3>1 DEF SignalInvariant, ReadIsCovered
    <3> QED BY <1>t, <1>s, <3>2
  <2> QED BY <2>1 DEF ReadIsCovered
<1>3. StartIsCovered' BY <1>t, <1>s DEF SignalInvariant, StartIsCovered
<1>4. ASSUME NEW q \in Replicas
      PROVE  /\ seen'[q] \subseteq outbox /\ batch'[q] \subseteq Pending(q)' /\ ckpt[q] <= ckpt'[q]
  BY <1>t, <1>s, <1>c DEF Pending
<1>5. (\A b \in batch[r] : b <= ckpt'[r]) /\ \A q \in Replicas \ {r} : ckpt'[q] = ckpt[q]
  <2>1. ckpt'[r] = c BY <1>t, <1>c
  <2>2. ASSUME NEW b \in batch[r] PROVE b <= ckpt'[r]
    <3>1. b <= c BY <1>c, Zenon
    <3> QED BY <2>1, <3>1
  <2>3. \A q \in Replicas \ {r} : ckpt'[q] = ckpt[q] BY <1>t, <1>c
  <2> QED BY <2>2, <2>3
<1> QED BY <1>1, <1>2, <1>3, <1>4, <1>5

\* A batch that failed has left events in the index and nothing else.
LEMMA FailedBatchIsKept ==
  ASSUME SignalInvariant, NEW r \in Replicas, KeepApplied(r), UNCHANGED <<outbox, known>>,
         batch' = [batch EXCEPT ![r] = {}], \A q \in Replicas : Live(q)' => Live(q)
  PROVE  /\ IndexTypeOK' /\ ReadIsCovered' /\ StartIsCovered' /\ UNCHANGED ckpt
         /\ \A q \in Replicas : seen'[q] \subseteq outbox /\ batch'[q] \subseteq Pending(q)'
         /\ faults' \in 0..MaxFaults /\ stage[r] # "none"
<1>t. /\ batch \in [Replicas -> SUBSET Event] /\ seen \in [Replicas -> SUBSET Event]
      /\ ckpt \in [Replicas -> 0..MaxBans] /\ stale \in [Replicas -> BOOLEAN]
      /\ late \in [Replicas -> SUBSET Event] /\ outbox \subseteq Event /\ MaxBans \in Nat
      /\ \A q \in Replicas : seen[q] \subseteq outbox /\ batch[q] \subseteq Pending(q)
  BY ConstantsAssumption
  DEF SignalInvariant, TypeOK, ProcessTypeOK, IndexTypeOK, OutboxTypeOK, WithinOutbox
<1>s. PICK applied \in SUBSET batch[r] :
        CatchUpFails(r, applied) /\ seen' = [seen EXCEPT ![r] = @ \cup applied]
  BY DEF KeepApplied
<1>c. UNCHANGED <<ckpt, late>> BY DEF KeepApplied, CatchUpFails
<1>1. IndexTypeOK'
  <2>1. stale' \in [Replicas -> BOOLEAN] BY <1>t, <1>s DEF CatchUpFails
  <2>2. seen' \in [Replicas -> SUBSET Event] BY <1>t, <1>s
  <2> QED BY <1>t, <1>c, <2>1, <2>2 DEF IndexTypeOK
<1>2. ReadIsCovered'
  <2>1. ASSUME NEW q \in Replicas, Live(q)', NEW e \in outbox, HasReadPast(q, e)'
        PROVE  e \in seen'[q] \cup late[q] \cup batch'[q]
    <3>1. HasReadPast(q, e) BY <1>t, <1>c, <2>1 DEF HasReadPast
    <3>2. e \in seen[q] \cup late[q] \cup batch[q]
      BY <2>1, <3>1 DEF SignalInvariant, ReadIsCovered
    <3>3. q = r => e <= ckpt[r] BY <1>t, <1>c, <2>1 DEF HasReadPast
    <3>4. q = r => e \notin batch[r] BY <1>t, <3>3 DEF Pending
    <3> QED BY <1>t, <1>s, <3>2, <3>4
  <2> QED BY <1>c, <2>1 DEF ReadIsCovered
<1>3. StartIsCovered' BY <1>t, <1>s DEF SignalInvariant, StartIsCovered
<1>4. ASSUME NEW q \in Replicas
      PROVE  seen'[q] \subseteq outbox /\ batch'[q] \subseteq Pending(q)'
  BY <1>t, <1>s, <1>c DEF Pending
<1>5. faults' \in 0..MaxFaults /\ stage[r] # "none"
  BY <1>s, ConstantsAssumption DEF CatchUpFails, SignalInvariant, TypeOK
<1> QED BY <1>1, <1>2, <1>3, <1>4, <1>5, <1>c

\* BeginBan: the new position lies behind everything the forwarder has read.
LEMMA BeginBanKeeps ==
  ASSUME SignalInvariant, BeginBan
  PROVE  SignalInvariant'
<1> USE ConstantsAssumption DEF BeginBan, IsBot, Live, SignalInvariant, TypeOK
<1>1. OutboxTypeOK' BY DEF OutboxTypeOK
<1>2. BrokerTypeOK' BY DEF BrokerTypeOK
<1>3. ProcessTypeOK' BY DEF ProcessTypeOK, Step, Stage
<1>4. IndexTypeOK' BY DEF IndexTypeOK
<1>5. faults' \in 0..MaxFaults OBVIOUS
<1>6. WithinOutbox' BY DEF WithinOutbox, Pending, OutboxTypeOK
<1>7. ReadIsCovered' BY DEF ReadIsCovered, HasReadPast
<1>8. AnsweredAfterRead' BY DEF AnsweredAfterRead, ProcessTypeOK
<1>9. PublishedIsKept' BY DEF PublishedIsKept, Kept
<1>10. AckedIsRead' BY DEF AckedIsRead
<1>11. StartIsCovered' BY DEF StartIsCovered
<1> QED BY <1>1, <1>2, <1>3, <1>4, <1>5, <1>6, <1>7, <1>8, <1>9, <1>10, <1>11

\* RollBackBan: a running transaction less.
LEMMA RollBackBanKeeps ==
  ASSUME SignalInvariant, NEW x \in open, RollBackBan(x)
  PROVE  SignalInvariant'
<1> USE ConstantsAssumption DEF RollBackBan, IsBot, Live, SignalInvariant, TypeOK
<1>1. OutboxTypeOK' BY DEF OutboxTypeOK
<1>2. BrokerTypeOK' BY DEF BrokerTypeOK
<1>3. ProcessTypeOK' BY DEF ProcessTypeOK, Step, Stage
<1>4. IndexTypeOK' BY DEF IndexTypeOK
<1>5. faults' \in 0..MaxFaults OBVIOUS
<1>6. WithinOutbox' BY DEF WithinOutbox, Pending, OutboxTypeOK
<1>7. ReadIsCovered' BY DEF ReadIsCovered, HasReadPast
<1>8. AnsweredAfterRead' BY DEF AnsweredAfterRead, ProcessTypeOK
<1>9. PublishedIsKept' BY DEF PublishedIsKept, Kept
<1>10. AckedIsRead' BY DEF AckedIsRead
<1>11. StartIsCovered' BY DEF StartIsCovered
<1> QED BY <1>1, <1>2, <1>3, <1>4, <1>5, <1>6, <1>7, <1>8, <1>9, <1>10, <1>11

\* CommitBan: the event is after the offset, and late where it was overtaken.
LEMMA CommitBanKeeps ==
  ASSUME SignalInvariant, NEW x \in open, CommitBan(x)
  PROVE  SignalInvariant'
<1> USE ConstantsAssumption DEF CommitBan, IsBot, Live, SignalInvariant, TypeOK
<1>1. OutboxTypeOK' BY DEF OutboxTypeOK
<1>2. BrokerTypeOK' BY DEF BrokerTypeOK
<1>3. ProcessTypeOK' BY DEF ProcessTypeOK, Step, Stage
<1>4. IndexTypeOK' BY DEF IndexTypeOK, OutboxTypeOK
<1>5. faults' \in 0..MaxFaults OBVIOUS
<1>6. WithinOutbox' BY DEF WithinOutbox, Pending, OutboxTypeOK
<1>7. ReadIsCovered' BY DEF ReadIsCovered, HasReadPast
<1>8. AnsweredAfterRead' BY DEF AnsweredAfterRead, ProcessTypeOK
<1>9. PublishedIsKept' BY DEF PublishedIsKept, Kept, WithinOutbox, OutboxTypeOK
<1>10. AckedIsRead' BY DEF AckedIsRead
<1>11. StartIsCovered' BY DEF StartIsCovered
<1> QED BY <1>1, <1>2, <1>3, <1>4, <1>5, <1>6, <1>7, <1>8, <1>9, <1>10, <1>11

\* Publish: the bound queues gain the signal of the next event.
LEMMA PublishKeeps ==
  ASSUME SignalInvariant, Publish
  PROVE  SignalInvariant'
<1> DEFINE signal(e) == [event |-> e, copy |-> faults]
<1>e. PICK e \in outbox : NextToPublish(e) /\ queue' = Delivered(e) /\ published' = e BY DEF Publish
<1>n. signal(e) \in Signal /\ signal(e).event = e
  BY ConstantsAssumption DEF SignalInvariant, TypeOK, OutboxTypeOK, Signal
<1>q. queue' = [r \in Replicas |-> IF r \in bound THEN queue[r] \cup {signal(e)} ELSE queue[r]]
  BY <1>e DEF Delivered
<1>h. UNCHANGED <<drawn, open, outbox, forwarded, bound, since, hand, acked, discarded, pc, ckpt,
                  batch, seen>>
  BY DEF Publish
<1>k. ASSUME NEW q \in Replicas, NEW f, Kept(q, f) PROVE Kept(q, f)'
  BY <1>k, <1>q, <1>h DEF Kept
<1>b. ASSUME NEW q \in bound PROVE Kept(q, e)'
  <2>1. q \in Replicas BY DEF SignalInvariant, TypeOK, BrokerTypeOK
  <2>2. signal(e) \in queue'[q] BY <1>q, <2>1
  <2> QED BY <2>2, <1>n DEF Kept
<1> HIDE DEF signal
<1> USE ConstantsAssumption DEF Publish, IsBot, Live, SignalInvariant, TypeOK
<1>1. OutboxTypeOK' BY <1>e DEF OutboxTypeOK
<1>2. BrokerTypeOK'
  <2>1. queue' \in [Replicas -> SUBSET Signal] BY <1>n, <1>q DEF BrokerTypeOK
  <2> QED BY <2>1 DEF BrokerTypeOK
<1>3. ProcessTypeOK' BY DEF ProcessTypeOK, Step, Stage
<1>4. IndexTypeOK' BY DEF IndexTypeOK
<1>5. faults' \in 0..MaxFaults BY DEF Publish
<1>6. WithinOutbox'
  <2>1. published' \in outbox /\ forwarded <= published' /\ \A x \in open : published' < x
    BY <1>e DEF NextToPublish, WithinOutbox, OutboxTypeOK
  <2>2. ASSUME NEW q \in Replicas, NEW s \in (queue[q] \cup hand[q])' PROVE s.event \in outbox
    BY <1>n, <1>q, <1>h, <1>e DEF WithinOutbox
  <2> QED BY <1>h, <2>1, <2>2 DEF WithinOutbox, Pending
<1>7. ReadIsCovered' BY DEF ReadIsCovered, HasReadPast
<1>8. AnsweredAfterRead' BY DEF AnsweredAfterRead, ProcessTypeOK
<1>9. PublishedIsKept'
  <2>1. ASSUME NEW q \in bound, NEW f \in outbox, since[q] < f, f <= e PROVE Kept(q, f)'
    <3>1. q \in Replicas /\ f \in Nat /\ e \in Nat /\ published \in Nat
      BY DEF BrokerTypeOK, OutboxTypeOK
    <3>2. CASE f <= published BY <1>k, <2>1, <3>1, <3>2 DEF PublishedIsKept
    <3>3. CASE published < f
      <4>1. e <= f BY <1>e, <3>3 DEF NextToPublish
      <4> QED BY <1>b, <2>1, <3>1, <4>1
    <3> QED BY <3>1, <3>2, <3>3
  <2> QED BY <1>e, <1>h, <2>1 DEF PublishedIsKept
<1>10. AckedIsRead' BY DEF AckedIsRead
<1>11. StartIsCovered' BY DEF StartIsCovered
<1> QED BY <1>1, <1>2, <1>3, <1>4, <1>5, <1>6, <1>7, <1>8, <1>9, <1>10, <1>11

\* AckOffset: what was published is kept, so the offset may count it.
LEMMA AckOffsetKeeps ==
  ASSUME SignalInvariant, AckOffset
  PROVE  SignalInvariant'
<1> USE ConstantsAssumption DEF AckOffset, IsBot, Live, SignalInvariant, TypeOK
<1>1. OutboxTypeOK' BY DEF OutboxTypeOK
<1>2. BrokerTypeOK' BY DEF BrokerTypeOK
<1>3. ProcessTypeOK' BY DEF ProcessTypeOK, Step, Stage
<1>4. IndexTypeOK' BY DEF IndexTypeOK
<1>5. faults' \in 0..MaxFaults OBVIOUS
<1>6. WithinOutbox' BY DEF WithinOutbox, Pending, OutboxTypeOK
<1>7. ReadIsCovered' BY DEF ReadIsCovered, HasReadPast
<1>8. AnsweredAfterRead' BY DEF AnsweredAfterRead, ProcessTypeOK
<1>9. PublishedIsKept' BY DEF PublishedIsKept, Kept
<1>10. AckedIsRead' BY DEF AckedIsRead
<1>11. StartIsCovered' BY DEF StartIsCovered
<1> QED BY <1>1, <1>2, <1>3, <1>4, <1>5, <1>6, <1>7, <1>8, <1>9, <1>10, <1>11

\* AckDeadline: the events will be published once more.
LEMMA AckDeadlineKeeps ==
  ASSUME SignalInvariant, AckDeadline
  PROVE  SignalInvariant'
<1> USE ConstantsAssumption DEF AckDeadline, IsBot, Live, SignalInvariant, TypeOK
<1>1. OutboxTypeOK' BY DEF OutboxTypeOK
<1>2. BrokerTypeOK' BY DEF BrokerTypeOK
<1>3. ProcessTypeOK' BY DEF ProcessTypeOK, Step, Stage
<1>4. IndexTypeOK' BY DEF IndexTypeOK
<1>5. faults' \in 0..MaxFaults OBVIOUS
<1>6. WithinOutbox' BY DEF WithinOutbox, Pending, OutboxTypeOK
<1>7. ReadIsCovered' BY DEF ReadIsCovered, HasReadPast
<1>8. AnsweredAfterRead' BY DEF AnsweredAfterRead, ProcessTypeOK
<1>9. PublishedIsKept' BY DEF PublishedIsKept, Kept, OutboxTypeOK, BrokerTypeOK
<1>10. AckedIsRead' BY DEF AckedIsRead
<1>11. StartIsCovered' BY DEF StartIsCovered
<1> QED BY <1>1, <1>2, <1>3, <1>4, <1>5, <1>6, <1>7, <1>8, <1>9, <1>10, <1>11

\* BrokerStops: what was in hand goes back to its queue or is dropped.
LEMMA BrokerStopsKeeps ==
  ASSUME SignalInvariant, BrokerStops
  PROVE  SignalInvariant'
<1>p. /\ queue' \in [Replicas -> SUBSET Signal] /\ hand' \in [Replicas -> SUBSET Signal]
      /\ discarded' \in [Replicas -> SUBSET Event]
      /\ \A q \in Replicas :
           /\ queue'[q] \cup hand'[q] \subseteq queue[q] \cup hand[q]
           /\ hand'[q] = IF q \in Replicas THEN {} ELSE hand[q]
           /\ \A e : Kept(q, e) => Kept(q, e)'
  BY PutBackKeeps DEF BrokerStops, SignalInvariant, TypeOK
<1> USE ConstantsAssumption DEF BrokerStops, IsBot, Live, SignalInvariant, TypeOK
<1>1. OutboxTypeOK' BY DEF OutboxTypeOK
<1>2. BrokerTypeOK' BY <1>p DEF BrokerTypeOK
<1>3. ProcessTypeOK' BY DEF ProcessTypeOK, Step, Stage
<1>4. IndexTypeOK' BY DEF IndexTypeOK
<1>5. faults' \in 0..MaxFaults OBVIOUS
<1>6. WithinOutbox' BY <1>p DEF WithinOutbox, Pending, OutboxTypeOK
<1>7. ReadIsCovered' BY DEF ReadIsCovered, HasReadPast
<1>8. AnsweredAfterRead' BY <1>p DEF AnsweredAfterRead, ProcessTypeOK
<1>9. PublishedIsKept' BY <1>p DEF PublishedIsKept, BrokerTypeOK
<1>10. AckedIsRead' BY DEF AckedIsRead
<1>11. StartIsCovered' BY DEF StartIsCovered
<1> QED BY <1>1, <1>2, <1>3, <1>4, <1>5, <1>6, <1>7, <1>8, <1>9, <1>10, <1>11

\* BrokerReturns: nothing but the broker changes.
LEMMA BrokerReturnsKeeps ==
  ASSUME SignalInvariant, BrokerReturns
  PROVE  SignalInvariant'
<1> USE ConstantsAssumption DEF BrokerReturns, IsBot, Live, SignalInvariant, TypeOK
<1>1. OutboxTypeOK' BY DEF OutboxTypeOK
<1>2. BrokerTypeOK' BY DEF BrokerTypeOK
<1>3. ProcessTypeOK' BY DEF ProcessTypeOK, Step, Stage
<1>4. IndexTypeOK' BY DEF IndexTypeOK
<1>5. faults' \in 0..MaxFaults OBVIOUS
<1>6. WithinOutbox' BY DEF WithinOutbox, Pending, OutboxTypeOK
<1>7. ReadIsCovered' BY DEF ReadIsCovered, HasReadPast
<1>8. AnsweredAfterRead' BY DEF AnsweredAfterRead, ProcessTypeOK
<1>9. PublishedIsKept' BY DEF PublishedIsKept, Kept
<1>10. AckedIsRead' BY DEF AckedIsRead
<1>11. StartIsCovered' BY DEF StartIsCovered
<1> QED BY <1>1, <1>2, <1>3, <1>4, <1>5, <1>6, <1>7, <1>8, <1>9, <1>10, <1>11

\* StartProcess: nothing is held yet.
LEMMA StartProcessKeeps ==
  ASSUME SignalInvariant, NEW r \in Replicas, StartProcess(r)
  PROVE  SignalInvariant'
<1> USE ConstantsAssumption DEF StartProcess, IsBot, Live, SignalInvariant, TypeOK
<1>1. OutboxTypeOK' BY DEF OutboxTypeOK
<1>2. BrokerTypeOK' BY DEF BrokerTypeOK
<1>3. ProcessTypeOK'
  <2>1. known' \in [Replicas -> SUBSET Event] BY DEF ProcessTypeOK, OutboxTypeOK
  <2> QED BY <2>1 DEF ProcessTypeOK, Step, Stage
<1>4. IndexTypeOK' BY DEF IndexTypeOK
<1>5. faults' \in 0..MaxFaults OBVIOUS
<1>6. WithinOutbox' BY DEF WithinOutbox, Pending, OutboxTypeOK
<1>7. ReadIsCovered' BY DEF ReadIsCovered, HasReadPast
<1>8. AnsweredAfterRead' BY DEF AnsweredAfterRead, ProcessTypeOK
<1>9. PublishedIsKept' BY DEF PublishedIsKept, Kept
<1>10. AckedIsRead' BY DEF AckedIsRead
<1>11. StartIsCovered' BY DEF StartIsCovered, ProcessTypeOK
<1> QED BY <1>1, <1>2, <1>3, <1>4, <1>5, <1>6, <1>7, <1>8, <1>9, <1>10, <1>11

\* LoadIndexes: the tables hold every committed ban.
LEMMA LoadIndexesKeeps ==
  ASSUME SignalInvariant, NEW r \in Replicas, LoadIndexes(r)
  PROVE  SignalInvariant'
<1> USE ConstantsAssumption DEF LoadIndexes, BeginCatchUp, IsBot, Live, SignalInvariant, TypeOK
<1>1. OutboxTypeOK' BY DEF OutboxTypeOK
<1>2. BrokerTypeOK' BY DEF BrokerTypeOK
<1>3. ProcessTypeOK' BY DEF ProcessTypeOK, Step, Stage
<1>4. IndexTypeOK' BY DEF IndexTypeOK, OutboxTypeOK
<1>5. faults' \in 0..MaxFaults OBVIOUS
<1>6. WithinOutbox' BY DEF WithinOutbox, Pending, OutboxTypeOK, IndexTypeOK
<1>7. ReadIsCovered' BY DEF ReadIsCovered, HasReadPast, ProcessTypeOK, IndexTypeOK
<1>8. AnsweredAfterRead' BY DEF AnsweredAfterRead, ProcessTypeOK
<1>9. PublishedIsKept' BY DEF PublishedIsKept, Kept
<1>10. AckedIsRead' BY DEF AckedIsRead
<1>11. StartIsCovered' BY DEF StartIsCovered, ProcessTypeOK, IndexTypeOK
<1> QED BY <1>1, <1>2, <1>3, <1>4, <1>5, <1>6, <1>7, <1>8, <1>9, <1>10, <1>11

\* NewOutboxPublisher: the bootstrap catch-up of a bot begins.
LEMMA NewOutboxPublisherKeeps ==
  ASSUME SignalInvariant, NEW r \in Replicas, NewOutboxPublisher(r)
  PROVE  SignalInvariant'
<1> USE ConstantsAssumption DEF NewOutboxPublisher, BeginCatchUp, IsBot, Live, SignalInvariant,
                                TypeOK
<1>1. OutboxTypeOK' BY DEF OutboxTypeOK
<1>2. BrokerTypeOK' BY DEF BrokerTypeOK
<1>3. ProcessTypeOK' BY DEF ProcessTypeOK, Step, Stage
<1>4. IndexTypeOK' BY DEF IndexTypeOK
<1>5. faults' \in 0..MaxFaults OBVIOUS
<1>6. WithinOutbox' BY DEF WithinOutbox, Pending, OutboxTypeOK
<1>7. ReadIsCovered' BY DEF ReadIsCovered, HasReadPast
<1>8. AnsweredAfterRead' BY DEF AnsweredAfterRead, ProcessTypeOK
<1>9. PublishedIsKept' BY DEF PublishedIsKept, Kept
<1>10. AckedIsRead' BY DEF AckedIsRead
<1>11. StartIsCovered' BY DEF StartIsCovered
<1> QED BY <1>1, <1>2, <1>3, <1>4, <1>5, <1>6, <1>7, <1>8, <1>9, <1>10, <1>11

\* A process that ends keeps its queue and its checkpoint.
LEMMA ProcessGoneKeeps ==
  ASSUME SignalInvariant, NEW r \in Replicas, ProcessGone(r), UNCHANGED ckpt,
         stale' \in [Replicas -> BOOLEAN], faults' \in 0..MaxFaults
  PROVE  SignalInvariant'
<1>p. /\ queue' \in [Replicas -> SUBSET Signal] /\ hand' \in [Replicas -> SUBSET Signal]
      /\ discarded' \in [Replicas -> SUBSET Event]
      /\ \A q \in Replicas :
           /\ queue'[q] \cup hand'[q] \subseteq queue[q] \cup hand[q]
           /\ hand'[q] = IF q \in {r} THEN {} ELSE hand[q]
           /\ \A e : Kept(q, e) => Kept(q, e)'
  BY PutBackKeeps DEF ProcessGone, SignalInvariant, TypeOK
<1> USE ConstantsAssumption DEF ProcessGone, IsBot, Live, SignalInvariant, TypeOK
<1>1. OutboxTypeOK' BY DEF OutboxTypeOK
<1>2. BrokerTypeOK' BY <1>p DEF BrokerTypeOK
<1>3. ProcessTypeOK' BY DEF ProcessTypeOK, Step, Stage
<1>4. IndexTypeOK' BY DEF IndexTypeOK
<1>5. faults' \in 0..MaxFaults OBVIOUS
<1>6. WithinOutbox' BY <1>p DEF WithinOutbox, Pending, OutboxTypeOK, ProcessTypeOK, IndexTypeOK
<1>7. ReadIsCovered' BY DEF ReadIsCovered, HasReadPast, ProcessTypeOK, IndexTypeOK
<1>8. AnsweredAfterRead' BY <1>p DEF AnsweredAfterRead, ProcessTypeOK, BrokerTypeOK
<1>9. PublishedIsKept' BY <1>p DEF PublishedIsKept, BrokerTypeOK
<1>10. AckedIsRead' BY DEF AckedIsRead
<1>11. StartIsCovered' BY DEF StartIsCovered, ProcessTypeOK, IndexTypeOK
<1> QED BY <1>1, <1>2, <1>3, <1>4, <1>5, <1>6, <1>7, <1>8, <1>9, <1>10, <1>11

\* Subscribe: a queue that is bound now starts with the events not yet published.
LEMMA SubscribeKeeps ==
  ASSUME SignalInvariant, NEW r \in Replicas, Subscribe(r)
  PROVE  SignalInvariant'
<1> USE ConstantsAssumption DEF Subscribe, IsBot, Live, SignalInvariant, TypeOK
<1>1. OutboxTypeOK' BY DEF OutboxTypeOK
<1>2. BrokerTypeOK' BY DEF BrokerTypeOK, OutboxTypeOK
<1>3. ProcessTypeOK' BY DEF ProcessTypeOK, Step, Stage
<1>4. IndexTypeOK' BY DEF IndexTypeOK
<1>5. faults' \in 0..MaxFaults OBVIOUS
<1>6. WithinOutbox' BY DEF WithinOutbox, Pending, OutboxTypeOK
<1>7. ReadIsCovered' BY DEF ReadIsCovered, HasReadPast
<1>8. AnsweredAfterRead' BY DEF AnsweredAfterRead, ProcessTypeOK
<1>9. PublishedIsKept' BY DEF PublishedIsKept, Kept, BrokerTypeOK, OutboxTypeOK
<1>10. AckedIsRead' BY DEF AckedIsRead
<1>11. StartIsCovered' BY DEF StartIsCovered
<1> QED BY <1>1, <1>2, <1>3, <1>4, <1>5, <1>6, <1>7, <1>8, <1>9, <1>10, <1>11

\* SubscribeFails: the subscriber is gone, nothing else changes.
LEMMA SubscribeFailsKeeps ==
  ASSUME SignalInvariant, NEW r \in Replicas, SubscribeFails(r)
  PROVE  SignalInvariant'
<1> USE ConstantsAssumption DEF SubscribeFails, IsBot, Live, SignalInvariant, TypeOK
<1>1. OutboxTypeOK' BY DEF OutboxTypeOK
<1>2. BrokerTypeOK' BY DEF BrokerTypeOK
<1>3. ProcessTypeOK' BY DEF ProcessTypeOK, Step, Stage
<1>4. IndexTypeOK' BY DEF IndexTypeOK
<1>5. faults' \in 0..MaxFaults OBVIOUS
<1>6. WithinOutbox' BY DEF WithinOutbox, Pending, OutboxTypeOK
<1>7. ReadIsCovered' BY DEF ReadIsCovered, HasReadPast
<1>8. AnsweredAfterRead' BY DEF AnsweredAfterRead, ProcessTypeOK
<1>9. PublishedIsKept' BY DEF PublishedIsKept, Kept
<1>10. AckedIsRead' BY DEF AckedIsRead
<1>11. StartIsCovered' BY DEF StartIsCovered
<1> QED BY <1>1, <1>2, <1>3, <1>4, <1>5, <1>6, <1>7, <1>8, <1>9, <1>10, <1>11

\* Reconnect: the channel is open again.
LEMMA ReconnectKeeps ==
  ASSUME SignalInvariant, NEW r \in Replicas, Reconnect(r)
  PROVE  SignalInvariant'
<1> USE ConstantsAssumption DEF Reconnect, IsBot, Live, SignalInvariant, TypeOK
<1>1. OutboxTypeOK' BY DEF OutboxTypeOK
<1>2. BrokerTypeOK' BY DEF BrokerTypeOK, AnsweredAfterRead
<1>3. ProcessTypeOK' BY DEF ProcessTypeOK, Step, Stage
<1>4. IndexTypeOK' BY DEF IndexTypeOK
<1>5. faults' \in 0..MaxFaults OBVIOUS
<1>6. WithinOutbox' BY DEF WithinOutbox, Pending, OutboxTypeOK
<1>7. ReadIsCovered' BY DEF ReadIsCovered, HasReadPast
<1>8. AnsweredAfterRead' BY DEF AnsweredAfterRead, ProcessTypeOK
<1>9. PublishedIsKept' BY DEF PublishedIsKept, Kept
<1>10. AckedIsRead' BY DEF AckedIsRead
<1>11. StartIsCovered' BY DEF StartIsCovered
<1> QED BY <1>1, <1>2, <1>3, <1>4, <1>5, <1>6, <1>7, <1>8, <1>9, <1>10, <1>11

\* SessionFails: the service closes its session.
LEMMA SessionFailsKeeps ==
  ASSUME SignalInvariant, NEW r \in Replicas, SessionFails(r)
  PROVE  SignalInvariant'
<1> USE ConstantsAssumption DEF SessionFails, IsBot, Live, SignalInvariant, TypeOK
<1>1. OutboxTypeOK' BY DEF OutboxTypeOK
<1>2. BrokerTypeOK' BY DEF BrokerTypeOK
<1>3. ProcessTypeOK' BY DEF ProcessTypeOK, Step, Stage
<1>4. IndexTypeOK' BY DEF IndexTypeOK
<1>5. faults' \in 0..MaxFaults OBVIOUS
<1>6. WithinOutbox' BY DEF WithinOutbox, Pending, OutboxTypeOK
<1>7. ReadIsCovered' BY DEF ReadIsCovered, HasReadPast
<1>8. AnsweredAfterRead' BY DEF AnsweredAfterRead, ProcessTypeOK
<1>9. PublishedIsKept' BY DEF PublishedIsKept, Kept
<1>10. AckedIsRead' BY DEF AckedIsRead
<1>11. StartIsCovered' BY DEF StartIsCovered
<1> QED BY <1>1, <1>2, <1>3, <1>4, <1>5, <1>6, <1>7, <1>8, <1>9, <1>10, <1>11

\* TakeMessage: the signal moves from the queue to the hand of a new catch-up.
LEMMA TakeMessageKeeps ==
  ASSUME SignalInvariant, NEW r \in Replicas, TakeMessage(r)
  PROVE  SignalInvariant'
<1> USE ConstantsAssumption DEF TakeMessage, BeginCatchUp, IsBot, Live, SignalInvariant, TypeOK
<1>1. OutboxTypeOK' BY DEF OutboxTypeOK
<1>2. BrokerTypeOK' BY DEF BrokerTypeOK
<1>3. ProcessTypeOK' BY DEF ProcessTypeOK, Step, Stage
<1>4. IndexTypeOK' BY DEF IndexTypeOK
<1>5. faults' \in 0..MaxFaults OBVIOUS
<1>6. WithinOutbox' BY DEF WithinOutbox, Pending, OutboxTypeOK
<1>7. ReadIsCovered' BY DEF ReadIsCovered, HasReadPast
<1>8. AnsweredAfterRead' BY DEF AnsweredAfterRead, ProcessTypeOK, BrokerTypeOK
<1>9. PublishedIsKept'
  <2>1. ASSUME NEW q \in Replicas, NEW e, Kept(q, e) PROVE Kept(q, e)'
    BY <2>1 DEF Kept, AnsweredAfterRead, BrokerTypeOK
  <2> QED BY <2>1 DEF PublishedIsKept, BrokerTypeOK
<1>10. AckedIsRead' BY DEF AckedIsRead
<1>11. StartIsCovered' BY DEF StartIsCovered
<1> QED BY <1>1, <1>2, <1>3, <1>4, <1>5, <1>6, <1>7, <1>8, <1>9, <1>10, <1>11

\* Tick: a catch-up with nothing in hand.
LEMMA TickKeeps ==
  ASSUME SignalInvariant, NEW r \in Replicas, Tick(r)
  PROVE  SignalInvariant'
<1> USE ConstantsAssumption DEF Tick, BeginCatchUp, IsBot, Live, SignalInvariant, TypeOK
<1>1. OutboxTypeOK' BY DEF OutboxTypeOK
<1>2. BrokerTypeOK' BY DEF BrokerTypeOK
<1>3. ProcessTypeOK' BY DEF ProcessTypeOK, Step, Stage
<1>4. IndexTypeOK' BY DEF IndexTypeOK
<1>5. faults' \in 0..MaxFaults OBVIOUS
<1>6. WithinOutbox' BY DEF WithinOutbox, Pending, OutboxTypeOK
<1>7. ReadIsCovered' BY DEF ReadIsCovered, HasReadPast
<1>8. AnsweredAfterRead' BY DEF AnsweredAfterRead, ProcessTypeOK
<1>9. PublishedIsKept' BY DEF PublishedIsKept, Kept
<1>10. AckedIsRead' BY DEF AckedIsRead
<1>11. StartIsCovered' BY DEF StartIsCovered
<1> QED BY <1>1, <1>2, <1>3, <1>4, <1>5, <1>6, <1>7, <1>8, <1>9, <1>10, <1>11

\* LoadAfter: no committed event is passed over.
LEMMA LoadAfterKeeps ==
  ASSUME SignalInvariant, NEW r \in Replicas, LoadAfter(r)
  PROVE  SignalInvariant'
<1>r. PICK rows \in SUBSET Pending(r) :
        /\ \A e \in rows, f \in Pending(r) \ rows : e < f
        /\ batch' = [batch EXCEPT ![r] = rows]
        /\ \/ stage' = [stage EXCEPT ![r] = "full"]
           \/ rows = Pending(r) /\ stage' = [stage EXCEPT ![r] = "apply"]
  BY DEF LoadAfter
<1>o. \A q \in Replicas : Pending(q)' = Pending(q) BY DEF LoadAfter, Pending
<1> USE ConstantsAssumption DEF LoadAfter, IsBot, Live, SignalInvariant, TypeOK
<1>1. OutboxTypeOK' BY DEF OutboxTypeOK
<1>2. BrokerTypeOK' BY DEF BrokerTypeOK
<1>3. ProcessTypeOK'
  <2>1. batch' \in [Replicas -> SUBSET Event] BY <1>r DEF ProcessTypeOK, OutboxTypeOK, Pending
  <2>2. stage' \in [Replicas -> Stage] BY <1>r DEF ProcessTypeOK, Stage
  <2> QED BY <2>1, <2>2 DEF ProcessTypeOK
<1>4. IndexTypeOK' BY DEF IndexTypeOK
<1>5. faults' \in 0..MaxFaults OBVIOUS
<1>6. WithinOutbox' BY <1>r, <1>o DEF WithinOutbox, ProcessTypeOK
<1>7. ReadIsCovered'
  <2>1. ASSUME NEW q \in Replicas, Live(q), NEW e \in outbox, HasReadPast(q, e)'
        PROVE  e \in seen[q] \cup late[q] \cup batch'[q]
    <3>1. CASE HasReadPast(q, e)
      BY <1>r, <2>1, <3>1 DEF ReadIsCovered, AnsweredAfterRead, ProcessTypeOK
    <3>2. CASE q = r /\ \E b \in rows : e <= b
      <4>1. PICK b \in rows : e <= b BY <3>2
      <4>2. e \in Nat /\ b \in Nat /\ ckpt[r] \in Nat
        BY <4>1 DEF OutboxTypeOK, IndexTypeOK, Pending
      <4>3. CASE e <= ckpt[r] BY <2>1, <3>1, <3>2, <4>3 DEF HasReadPast
      <4>4. CASE ckpt[r] < e
        <5>1. e \in Pending(r) BY <4>4 DEF Pending
        <5>2. e \in rows BY <1>r, <4>1, <4>2, <5>1
        <5> QED BY <1>r, <3>2, <5>2 DEF ProcessTypeOK
      <4> QED BY <4>2, <4>3, <4>4
    <3> QED BY <1>r, <2>1, <3>1, <3>2 DEF HasReadPast, ProcessTypeOK
  <2> QED BY <2>1 DEF ReadIsCovered
<1>8. AnsweredAfterRead'
  <2>1. ASSUME NEW s \in hand[r] PROVE s.event <= ckpt[r] \/ s.event \in Pending(r)
    <3>1. s.event \in outbox BY DEF WithinOutbox
    <3>2. s.event \in 1..drawn /\ drawn \in 0..MaxBans BY <3>1 DEF OutboxTypeOK
    <3>3. ckpt[r] \in 0..MaxBans BY DEF IndexTypeOK
    <3> QED BY <3>1, <3>2, <3>3 DEF Pending
  <2> QED BY <1>r, <2>1 DEF AnsweredAfterRead, ProcessTypeOK
<1>9. PublishedIsKept' BY DEF PublishedIsKept, Kept
<1>10. AckedIsRead' BY DEF AckedIsRead
<1>11. StartIsCovered' BY DEF StartIsCovered
<1> QED BY <1>1, <1>2, <1>3, <1>4, <1>5, <1>6, <1>7, <1>8, <1>9, <1>10, <1>11

\* FinishFullBatch: the batch is in the index, the checkpoint at its end.
LEMMA FinishFullBatchKeeps ==
  ASSUME SignalInvariant, NEW r \in Replicas, FinishFullBatch(r)
  PROVE  SignalInvariant'
<1>a. /\ IndexTypeOK' /\ ReadIsCovered' /\ StartIsCovered'
      /\ \A q \in Replicas : /\ seen'[q] \subseteq outbox /\ batch'[q] \subseteq Pending(q)'
                             /\ ckpt[q] <= ckpt'[q]
      /\ \A q \in Replicas \ {r} : ckpt'[q] = ckpt[q]
      /\ \A b \in batch[r] : b <= ckpt'[r]
  BY BatchIsApplied DEF FinishFullBatch, SignalInvariant, TypeOK, ProcessTypeOK, Live
<1> USE ConstantsAssumption DEF FinishFullBatch, IsBot, Live, SignalInvariant, TypeOK
<1>1. OutboxTypeOK' BY DEF OutboxTypeOK
<1>2. BrokerTypeOK' BY DEF BrokerTypeOK
<1>3. ProcessTypeOK' BY DEF ProcessTypeOK, Step, Stage
<1>4. IndexTypeOK' BY <1>a
<1>5. faults' \in 0..MaxFaults OBVIOUS
<1>6. WithinOutbox' BY <1>a DEF WithinOutbox
<1>7. ReadIsCovered' BY <1>a
<1>8. AnsweredAfterRead' BY <1>a DEF AnsweredAfterRead, ProcessTypeOK
<1>9. PublishedIsKept' BY DEF PublishedIsKept, Kept
<1>10. AckedIsRead' BY <1>a DEF AckedIsRead, BrokerTypeOK, IndexTypeOK
<1>11. StartIsCovered' BY <1>a
<1> QED BY <1>1, <1>2, <1>3, <1>4, <1>5, <1>6, <1>7, <1>8, <1>9, <1>10, <1>11

\* BootstrapSucceeds: the process goes on to its queue.
LEMMA BootstrapSucceedsKeeps ==
  ASSUME SignalInvariant, NEW r \in Replicas, BootstrapSucceeds(r)
  PROVE  SignalInvariant'
<1>a. /\ IndexTypeOK' /\ ReadIsCovered' /\ StartIsCovered'
      /\ \A q \in Replicas : /\ seen'[q] \subseteq outbox /\ batch'[q] \subseteq Pending(q)'
                             /\ ckpt[q] <= ckpt'[q]
      /\ \A q \in Replicas \ {r} : ckpt'[q] = ckpt[q]
      /\ \A b \in batch[r] : b <= ckpt'[r]
  BY BatchIsApplied DEF BootstrapSucceeds, CatchUpSucceeds, CatchUpReturns, SignalInvariant,
                        TypeOK, ProcessTypeOK, Live
<1> USE ConstantsAssumption DEF BootstrapSucceeds, CatchUpSucceeds, CatchUpReturns, IsBot,
                                Live, SignalInvariant, TypeOK
<1>1. OutboxTypeOK' BY DEF OutboxTypeOK
<1>2. BrokerTypeOK' BY DEF BrokerTypeOK
<1>3. ProcessTypeOK' BY DEF ProcessTypeOK, Step, Stage
<1>4. IndexTypeOK' BY <1>a
<1>5. faults' \in 0..MaxFaults OBVIOUS
<1>6. WithinOutbox' BY <1>a DEF WithinOutbox
<1>7. ReadIsCovered' BY <1>a
<1>8. AnsweredAfterRead' BY <1>a DEF AnsweredAfterRead, ProcessTypeOK
<1>9. PublishedIsKept' BY DEF PublishedIsKept, Kept
<1>10. AckedIsRead' BY <1>a DEF AckedIsRead, BrokerTypeOK, IndexTypeOK
<1>11. StartIsCovered' BY <1>a
<1> QED BY <1>1, <1>2, <1>3, <1>4, <1>5, <1>6, <1>7, <1>8, <1>9, <1>10, <1>11

\* Ack: the event in hand is behind the checkpoint.
LEMMA AckKeeps ==
  ASSUME SignalInvariant, NEW r \in Replicas, Ack(r)
  PROVE  SignalInvariant'
<1>a. /\ IndexTypeOK' /\ ReadIsCovered' /\ StartIsCovered'
      /\ \A q \in Replicas : /\ seen'[q] \subseteq outbox /\ batch'[q] \subseteq Pending(q)'
                             /\ ckpt[q] <= ckpt'[q]
      /\ \A q \in Replicas \ {r} : ckpt'[q] = ckpt[q]
      /\ \A b \in batch[r] : b <= ckpt'[r]
  BY BatchIsApplied DEF Ack, CatchUpSucceeds, CatchUpReturns, AckHand, AfterAnswer,
                        SignalInvariant, TypeOK, ProcessTypeOK, Live
<1> USE ConstantsAssumption DEF Ack, AckHand, AfterAnswer, CatchUpSucceeds, CatchUpReturns,
                                IsBot, Live, SignalInvariant, TypeOK
<1>1. OutboxTypeOK' BY DEF OutboxTypeOK
<1>2. BrokerTypeOK'
  <2>1. acked' \in [Replicas -> SUBSET Event] BY SignalTyped DEF BrokerTypeOK
  <2>2. hand' \in [Replicas -> SUBSET Signal] BY DEF BrokerTypeOK
  <2> QED BY <2>1, <2>2 DEF BrokerTypeOK
<1>3. ProcessTypeOK' BY DEF ProcessTypeOK, Step, Stage
<1>4. IndexTypeOK' BY <1>a
<1>5. faults' \in 0..MaxFaults OBVIOUS
<1>6. WithinOutbox' BY <1>a DEF WithinOutbox, BrokerTypeOK
<1>7. ReadIsCovered' BY <1>a
<1>8. AnsweredAfterRead' BY <1>a DEF AnsweredAfterRead, ProcessTypeOK, BrokerTypeOK
<1>9. PublishedIsKept'
  <2>1. ASSUME NEW q \in Replicas, NEW e, Kept(q, e) PROVE Kept(q, e)'
    BY <2>1 DEF Kept, BrokerTypeOK
  <2> QED BY <2>1 DEF PublishedIsKept, BrokerTypeOK
<1>10. AckedIsRead'
  <2>1. ASSUME NEW s \in hand[r] PROVE s.event \in outbox /\ s.event <= ckpt'[r]
    <3>1. s.event <= ckpt[r] \/ s.event \in batch[r] BY DEF AnsweredAfterRead
    <3>2. s.event \in outbox BY DEF WithinOutbox
    <3>3. ckpt[r] \in Nat /\ ckpt'[r] \in Nat /\ s.event \in Nat
      <4>1. ckpt[r] \in 0..MaxBans /\ ckpt'[r] \in 0..MaxBans BY <1>a DEF IndexTypeOK
      <4>2. s.event \in 1..drawn BY <3>2 DEF OutboxTypeOK
      <4> QED BY <4>1, <4>2 DEF OutboxTypeOK
    <3> QED BY <1>a, <3>1, <3>2, <3>3
  <2>2. ASSUME NEW q \in Replicas, NEW e \in acked[q] PROVE e \in outbox /\ e <= ckpt'[q]
    <3>1. e \in outbox /\ e <= ckpt[q] /\ ckpt[q] <= ckpt'[q] BY <1>a DEF AckedIsRead
    <3>2. ckpt[q] \in 0..MaxBans /\ ckpt'[q] \in 0..MaxBans BY <1>a DEF IndexTypeOK
    <3>3. e \in 1..drawn BY <3>1 DEF OutboxTypeOK
    <3> QED BY <3>1, <3>2, <3>3 DEF OutboxTypeOK
  <2> QED BY <2>1, <2>2 DEF AckedIsRead, BrokerTypeOK
<1>11. StartIsCovered' BY <1>a
<1> QED BY <1>1, <1>2, <1>3, <1>4, <1>5, <1>6, <1>7, <1>8, <1>9, <1>10, <1>11

\* Nack: the signal is put back.
LEMMA NackKeeps ==
  ASSUME SignalInvariant, NEW r \in Replicas, Nack(r)
  PROVE  SignalInvariant'
<1>a. /\ IndexTypeOK' /\ ReadIsCovered' /\ StartIsCovered' /\ UNCHANGED ckpt
      /\ \A q \in Replicas : seen'[q] \subseteq outbox /\ batch'[q] \subseteq Pending(q)'
      /\ faults' \in 0..MaxFaults /\ stage[r] # "none"
  BY FailedBatchIsKept DEF Nack, CatchUpReturns, AfterAnswer, SignalInvariant, TypeOK,
                           ProcessTypeOK, Live
<1>p. /\ queue' \in [Replicas -> SUBSET Signal] /\ hand' \in [Replicas -> SUBSET Signal]
      /\ discarded' \in [Replicas -> SUBSET Event]
      /\ \A q \in Replicas :
           /\ queue'[q] \cup hand'[q] \subseteq queue[q] \cup hand[q]
           /\ hand'[q] = IF q \in {r} THEN {} ELSE hand[q]
           /\ \A e : Kept(q, e) => Kept(q, e)'
  BY PutBackKeeps DEF Nack, SignalInvariant, TypeOK
<1> USE ConstantsAssumption DEF Nack, AfterAnswer, CatchUpReturns, IsBot, Live,
                                SignalInvariant, TypeOK
<1>1. OutboxTypeOK' BY DEF OutboxTypeOK
<1>2. BrokerTypeOK' BY <1>p DEF BrokerTypeOK
<1>3. ProcessTypeOK' BY DEF ProcessTypeOK, Step, Stage
<1>4. IndexTypeOK' BY <1>a
<1>5. faults' \in 0..MaxFaults BY <1>a
<1>6. WithinOutbox' BY <1>a, <1>p DEF WithinOutbox
<1>7. ReadIsCovered' BY <1>a
<1>8. AnsweredAfterRead' BY <1>a, <1>p DEF AnsweredAfterRead, ProcessTypeOK
<1>9. PublishedIsKept' BY <1>p DEF PublishedIsKept, BrokerTypeOK
<1>10. AckedIsRead' BY <1>a DEF AckedIsRead, BrokerTypeOK, IndexTypeOK
<1>11. StartIsCovered' BY <1>a
<1> QED BY <1>1, <1>2, <1>3, <1>4, <1>5, <1>6, <1>7, <1>8, <1>9, <1>10, <1>11

\* TickSucceeds: nothing was in hand.
LEMMA TickSucceedsKeeps ==
  ASSUME SignalInvariant, NEW r \in Replicas, TickSucceeds(r)
  PROVE  SignalInvariant'
<1>a. /\ IndexTypeOK' /\ ReadIsCovered' /\ StartIsCovered'
      /\ \A q \in Replicas : /\ seen'[q] \subseteq outbox /\ batch'[q] \subseteq Pending(q)'
                             /\ ckpt[q] <= ckpt'[q]
      /\ \A q \in Replicas \ {r} : ckpt'[q] = ckpt[q]
      /\ \A b \in batch[r] : b <= ckpt'[r]
  BY BatchIsApplied DEF TickSucceeds, CatchUpSucceeds, CatchUpReturns, SignalInvariant, TypeOK,
                        ProcessTypeOK, Live
<1> USE ConstantsAssumption DEF TickSucceeds, CatchUpSucceeds, CatchUpReturns, IsBot, Live,
                                SignalInvariant, TypeOK
<1>1. OutboxTypeOK' BY DEF OutboxTypeOK
<1>2. BrokerTypeOK' BY DEF BrokerTypeOK
<1>3. ProcessTypeOK' BY DEF ProcessTypeOK, Step, Stage
<1>4. IndexTypeOK' BY <1>a
<1>5. faults' \in 0..MaxFaults OBVIOUS
<1>6. WithinOutbox' BY <1>a DEF WithinOutbox
<1>7. ReadIsCovered' BY <1>a
<1>8. AnsweredAfterRead' BY <1>a DEF AnsweredAfterRead, ProcessTypeOK
<1>9. PublishedIsKept' BY DEF PublishedIsKept, Kept
<1>10. AckedIsRead' BY <1>a DEF AckedIsRead, BrokerTypeOK, IndexTypeOK
<1>11. StartIsCovered' BY <1>a
<1> QED BY <1>1, <1>2, <1>3, <1>4, <1>5, <1>6, <1>7, <1>8, <1>9, <1>10, <1>11

\* TickFails: a service closes its session.
LEMMA TickFailsKeeps ==
  ASSUME SignalInvariant, NEW r \in Replicas, TickFails(r)
  PROVE  SignalInvariant'
<1>a. /\ IndexTypeOK' /\ ReadIsCovered' /\ StartIsCovered' /\ UNCHANGED ckpt
      /\ \A q \in Replicas : seen'[q] \subseteq outbox /\ batch'[q] \subseteq Pending(q)'
      /\ faults' \in 0..MaxFaults /\ stage[r] # "none"
  BY FailedBatchIsKept DEF TickFails, CatchUpReturns, SignalInvariant, TypeOK, ProcessTypeOK, Live
<1> USE ConstantsAssumption DEF TickFails, CatchUpReturns, IsBot, Live, SignalInvariant, TypeOK
<1>1. OutboxTypeOK' BY DEF OutboxTypeOK
<1>2. BrokerTypeOK' BY DEF BrokerTypeOK
<1>3. ProcessTypeOK' BY DEF ProcessTypeOK, Step, Stage
<1>4. IndexTypeOK' BY <1>a
<1>5. faults' \in 0..MaxFaults BY <1>a
<1>6. WithinOutbox' BY <1>a DEF WithinOutbox
<1>7. ReadIsCovered' BY <1>a
<1>8. AnsweredAfterRead' BY <1>a DEF AnsweredAfterRead, ProcessTypeOK
<1>9. PublishedIsKept' BY DEF PublishedIsKept, Kept
<1>10. AckedIsRead' BY <1>a DEF AckedIsRead, BrokerTypeOK, IndexTypeOK
<1>11. StartIsCovered' BY <1>a
<1> QED BY <1>1, <1>2, <1>3, <1>4, <1>5, <1>6, <1>7, <1>8, <1>9, <1>10, <1>11

-----------------------------------------------------------------------------
(* The invariant holds in every reachable state.                           *)

LEMMA SignalInvariantInit == Init => SignalInvariant
<1> SUFFICES ASSUME Init PROVE SignalInvariant OBVIOUS
<1> USE ConstantsAssumption DEF Init, Nothing, IsBot, Live
<1>1. OutboxTypeOK BY DEF OutboxTypeOK
<1>2. BrokerTypeOK BY DEF BrokerTypeOK
<1>3. ProcessTypeOK BY DEF ProcessTypeOK, Step, Stage
<1>4. IndexTypeOK BY DEF IndexTypeOK
<1>5. faults \in 0..MaxFaults OBVIOUS
<1>6. WithinOutbox BY DEF WithinOutbox, Pending
<1>7. ReadIsCovered BY DEF ReadIsCovered
<1>8. AnsweredAfterRead BY DEF AnsweredAfterRead
<1>9. PublishedIsKept BY DEF PublishedIsKept
<1>10. AckedIsRead BY DEF AckedIsRead
<1>11. StartIsCovered BY DEF StartIsCovered
<1> QED BY <1>1, <1>2, <1>3, <1>4, <1>5, <1>6, <1>7, <1>8, <1>9, <1>10, <1>11
        DEF SignalInvariant, TypeOK

\* The three ways in which a process ends.
LEMMA ProcessEndKeeps ==
  ASSUME SignalInvariant, NEW r \in Replicas,
         NewOutboxPublisherFails(r) \/ BootstrapFails(r) \/ Crash(r)
  PROVE  SignalInvariant'
<1>t. stale \in [Replicas -> BOOLEAN] /\ faults \in 0..MaxFaults
  BY DEF SignalInvariant, TypeOK, IndexTypeOK
<1>1. CASE NewOutboxPublisherFails(r)
  BY <1>t, <1>1, ProcessGoneKeeps DEF NewOutboxPublisherFails
<1>2. CASE BootstrapFails(r)
  <2>1. PICK applied \in SUBSET batch[r] : CatchUpFails(r, applied) BY <1>2 DEF BootstrapFails
  <2>2. UNCHANGED ckpt BY <2>1 DEF CatchUpFails
  <2>3. stale' \in [Replicas -> BOOLEAN] BY <1>t, <2>1 DEF CatchUpFails
  <2>4. faults' \in 0..MaxFaults BY <1>t, <2>1, ConstantsAssumption DEF CatchUpFails
  <2> QED BY <1>2, <2>2, <2>3, <2>4, ProcessGoneKeeps DEF BootstrapFails
<1>3. CASE Crash(r)
  <2>1. faults' \in 0..MaxFaults BY <1>t, <1>3, ConstantsAssumption DEF Crash
  <2> QED BY <1>t, <1>3, <2>1, ProcessGoneKeeps DEF Crash
<1> QED BY <1>1, <1>2, <1>3

LEMMA SignalInvariantStep ==
  ASSUME SignalInvariant, [Next]_vars
  PROVE  SignalInvariant'
<1>1. CASE BanStep BY <1>1, BeginBanKeeps, CommitBanKeeps, RollBackBanKeeps DEF BanStep
<1>2. CASE ForwarderStep
  BY <1>2, PublishKeeps, AckOffsetKeeps, AckDeadlineKeeps DEF ForwarderStep
<1>3. CASE BrokerStops \/ BrokerReturns BY <1>3, BrokerStopsKeeps, BrokerReturnsKeeps
<1>4. ASSUME NEW r \in Replicas, LifeStep(r) PROVE SignalInvariant'
  BY <1>4, StartProcessKeeps, LoadIndexesKeeps, NewOutboxPublisherKeeps, BootstrapSucceedsKeeps,
     ProcessEndKeeps
  DEF LifeStep
<1>5. ASSUME NEW r \in Replicas, ConsumerStep(r) PROVE SignalInvariant'
  BY <1>5, SubscribeKeeps, SubscribeFailsKeeps, ReconnectKeeps, SessionFailsKeeps,
     TakeMessageKeeps, TickKeeps, LoadAfterKeeps, FinishFullBatchKeeps, AckKeeps, NackKeeps,
     TickSucceedsKeeps, TickFailsKeeps
  DEF ConsumerStep
<1>6. CASE UNCHANGED vars
  BY <1>6
  DEF vars, SignalInvariant, TypeOK, OutboxTypeOK, BrokerTypeOK, ProcessTypeOK, IndexTypeOK,
      WithinOutbox, Pending, ReadIsCovered, HasReadPast, AnsweredAfterRead, PublishedIsKept,
      Kept, AckedIsRead, StartIsCovered, Live
<1> QED BY <1>1, <1>2, <1>3, <1>4, <1>5, <1>6 DEF Next

\* Whatever bans commit in whatever order, and whatever fails: the forwarder
\* stays behind running transactions, what a live reader has passed is in
\* the index, in the batch or late, and what was published to a bound queue
\* is kept there or was answered by a catch-up that had read past it.
THEOREM SignalInvariantHolds == Spec => []SignalInvariant
BY SignalInvariantInit, SignalInvariantStep, PTL DEF Spec

\* The state is well typed.
THEOREM TypeCorrect == Spec => []TypeOK
<1>1. SignalInvariant => TypeOK BY DEF SignalInvariant
<1> QED BY <1>1, SignalInvariantHolds, PTL

\* Behind the checkpoint means in the index, or late: the batch is ahead.
LEMMA BehindCheckpoint ==
  ASSUME SignalInvariant, NEW r \in Replicas, NEW e \in outbox, e <= ckpt[r], Live(r)
  PROVE  e \in seen[r] \/ e \in late[r]
<1>1. e \in seen[r] \cup late[r] \cup batch[r]
  BY DEF SignalInvariant, ReadIsCovered, HasReadPast
<1>2. e \in 1..drawn /\ drawn \in 0..MaxBans /\ ckpt[r] \in 0..MaxBans
  BY DEF SignalInvariant, TypeOK, OutboxTypeOK, IndexTypeOK
<1>3. ~(ckpt[r] < e) BY <1>2, ConstantsAssumption
<1>4. e \notin batch[r] BY <1>3 DEF SignalInvariant, WithinOutbox, Pending
<1> QED BY <1>1, <1>4

\* A signal that is acknowledged, and gone for good, has its event behind
\* the checkpoint and in the index, unless the ban committed behind what the
\* replica had read.
THEOREM AcknowledgedSignalsAreApplied == Spec => []AckedIsApplied
<1>1. SignalInvariant => AckedIsApplied
  BY BehindCheckpoint DEF SignalInvariant, AckedIsRead, AckedIsApplied
<1> QED BY <1>1, SignalInvariantHolds, PTL

\* No event is forwarded past a bound queue, in whatever order bans commit.
THEOREM NoSignalIsLost == Spec => []SignalsAreKept
<1>1. SignalInvariant => SignalsAreKept
  <2> SUFFICES ASSUME SignalInvariant, NEW r \in bound, NEW e \in outbox,
                      since[r] < e, e <= forwarded
               PROVE  Kept(r, e)
    BY DEF SignalsAreKept
  <2>1. e \in 1..drawn /\ drawn \in 0..MaxBans BY DEF SignalInvariant, TypeOK, OutboxTypeOK
  <2>2. forwarded \in 0..MaxBans /\ published \in 0..MaxBans
    BY <2>1, ConstantsAssumption DEF SignalInvariant, TypeOK, OutboxTypeOK
  <2>3. forwarded <= published BY DEF SignalInvariant, WithinOutbox
  <2>4. e <= published BY <2>1, <2>2, <2>3, ConstantsAssumption
  <2> QED BY <2>4 DEF SignalInvariant, PublishedIsKept
<1> QED BY <1>1, SignalInvariantHolds, PTL

\* A ready process enforces the bans older than itself, late ones included.
THEOREM ReadyIsCurrent == Spec => []ReadyHoldsOlderBans
<1>1. SignalInvariant => ReadyHoldsOlderBans
  BY DEF SignalInvariant, StartIsCovered, ReadyHoldsOlderBans, Ready, Answering, Live
<1> QED BY <1>1, SignalInvariantHolds, PTL

-----------------------------------------------------------------------------
(* Bans that do not overlap.                                               *)

\* A running transaction is ahead of every event and every checkpoint, so
\* that its event can commit behind neither.
TurnInvariant ==
  /\ NothingLate
  /\ \A r \in Replicas : ckpt[r] \in {0} \cup outbox

LEMMA CommitInTurn ==
  ASSUME SignalInvariant, TurnInvariant, BansInTurn, NEW x \in open, CommitBan(x)
  PROVE  TurnInvariant'
<1>1. x \in 1..drawn /\ drawn \in 0..MaxBans BY DEF SignalInvariant, TypeOK, OutboxTypeOK
<1>2. open' = {} BY DEF BansInTurn, CommitBan
<1>3. ASSUME NEW r \in Replicas PROVE ~HasReadPast(r, x)
  <2>1. ckpt[r] < x BY <1>1 DEF TurnInvariant, NothingLate
  <2>2. ckpt[r] \in 0..MaxBans BY DEF SignalInvariant, TypeOK, IndexTypeOK
  <2>3. ASSUME NEW b \in batch[r] PROVE ~(x <= b)
    <3>1. b \in outbox BY DEF SignalInvariant, WithinOutbox, Pending
    <3>2. b < x BY <3>1 DEF TurnInvariant, NothingLate
    <3>3. b \in 1..drawn BY <3>1 DEF SignalInvariant, TypeOK, OutboxTypeOK
    <3> QED BY <1>1, <3>2, <3>3, ConstantsAssumption
  <2>4. ~(x <= ckpt[r]) BY <1>1, <2>1, <2>2, ConstantsAssumption
  <2> QED BY <2>3, <2>4 DEF HasReadPast
<1>4. late \in [Replicas -> SUBSET Event] BY DEF SignalInvariant, TypeOK, IndexTypeOK
<1>5. ASSUME NEW r \in Replicas PROVE late'[r] = {}
  BY <1>3, <1>4 DEF CommitBan, TurnInvariant, NothingLate
<1>6. \A r \in Replicas : ckpt'[r] \in {0} \cup outbox' BY DEF CommitBan, TurnInvariant
<1> QED BY <1>2, <1>5, <1>6 DEF TurnInvariant, NothingLate

LEMMA OthersInTurn ==
  ASSUME SignalInvariant, TurnInvariant, [Next]_vars, \A x \in open : ~CommitBan(x)
  PROVE  TurnInvariant'
<1> USE DEF TurnInvariant, NothingLate
<1>1. ASSUME UNCHANGED <<open, outbox, late>>, \A r \in Replicas : ckpt'[r] \in {0} \cup outbox
      PROVE  TurnInvariant'
  BY <1>1
<1>2. ASSUME UNCHANGED <<open, outbox, late, ckpt>> PROVE TurnInvariant'
  BY <1>2
<1>3. CASE BeginBan
  <2>1. outbox \subseteq 1..drawn /\ drawn \in Nat /\ open \subseteq 1..drawn
    BY ConstantsAssumption DEF SignalInvariant, TypeOK, OutboxTypeOK
  <2>2. ASSUME NEW x \in open', NEW e \in outbox PROVE e < x BY <1>3, <2>1 DEF BeginBan
  <2> QED BY <1>3, <2>2 DEF BeginBan
<1>4. ASSUME NEW x \in open, RollBackBan(x) PROVE TurnInvariant' BY <1>4 DEF RollBackBan
<1>5. CASE ForwarderStep \/ BrokerStops \/ BrokerReturns
  BY <1>2, <1>5
  DEF ForwarderStep, Publish, AckOffset, AckDeadline, BrokerStops, BrokerReturns
<1>6. ASSUME NEW r \in Replicas, ProcessGone(r), UNCHANGED ckpt PROVE TurnInvariant'
  BY <1>6 DEF ProcessGone, SignalInvariant, TypeOK, IndexTypeOK
<1>7. ASSUME NEW r \in Replicas, ApplyBatch(r), UNCHANGED <<open, outbox, late>>
      PROVE  TurnInvariant'
  <2>1. batch[r] \subseteq outbox BY DEF SignalInvariant, WithinOutbox, Pending
  <2>2. \A q \in Replicas : ckpt'[q] \in {0} \cup outbox
    BY <1>7, <2>1 DEF ApplyBatch, SignalInvariant, TypeOK, IndexTypeOK
  <2> QED BY <1>1, <1>7, <2>2
<1>8. ASSUME NEW r \in Replicas, LifeStep(r) PROVE TurnInvariant'
  <2>1. CASE StartProcess(r) \/ LoadIndexes(r) \/ NewOutboxPublisher(r)
    BY <1>2, <2>1 DEF StartProcess, LoadIndexes, NewOutboxPublisher
  <2>2. CASE NewOutboxPublisherFails(r) \/ BootstrapFails(r) \/ Crash(r)
    BY <1>6, <2>2 DEF NewOutboxPublisherFails, BootstrapFails, CatchUpFails, Crash
  <2>3. CASE BootstrapSucceeds(r) BY <1>7, <2>3 DEF BootstrapSucceeds, CatchUpSucceeds
  <2> QED BY <1>8, <2>1, <2>2, <2>3 DEF LifeStep
<1>9. ASSUME NEW r \in Replicas, ConsumerStep(r) PROVE TurnInvariant'
  <2>1. CASE \/ Subscribe(r) \/ SubscribeFails(r) \/ Reconnect(r) \/ SessionFails(r)
             \/ TakeMessage(r) \/ Tick(r) \/ LoadAfter(r)
    BY <1>2, <2>1
    DEF Subscribe, SubscribeFails, Reconnect, SessionFails, TakeMessage, Tick, LoadAfter
  <2>2. CASE Nack(r) \/ TickFails(r)
    BY <1>2, <2>2 DEF Nack, TickFails, KeepApplied, CatchUpFails
  <2>3. CASE FinishFullBatch(r) \/ Ack(r) \/ TickSucceeds(r)
    BY <1>7, <2>3 DEF FinishFullBatch, Ack, AckHand, TickSucceeds, CatchUpSucceeds
  <2> QED BY <1>9, <2>1, <2>2, <2>3 DEF ConsumerStep
<1>10. CASE UNCHANGED vars BY <1>2, <1>10 DEF vars
<1> QED BY <1>3, <1>4, <1>5, <1>8, <1>9, <1>10 DEF Next, BanStep

\* While no two ban transactions overlap, nothing is late, and a live replica
\* enforces every ban whose signal it has acknowledged: overlapping bans are
\* the only way in which an acknowledged ban is missing from an index.
THEOREM BansInTurnAreEnforced == Spec /\ []BansInTurn => [](NothingLate /\ AckedIsEnforced)
<1>1. Init => TurnInvariant BY DEF Init, Nothing, TurnInvariant, NothingLate
<1>2. SignalInvariant /\ TurnInvariant /\ BansInTurn /\ [Next]_vars => TurnInvariant'
  BY CommitInTurn, OthersInTurn
<1>3. SignalInvariant /\ TurnInvariant => NothingLate /\ AckedIsEnforced
  <2> SUFFICES ASSUME SignalInvariant, TurnInvariant PROVE AckedIsEnforced
    BY DEF TurnInvariant
  <2>1. ASSUME NEW r \in Replicas, Live(r), NEW e \in acked[r] PROVE e \in seen[r]
    <3>1. e \in outbox /\ e <= ckpt[r] BY DEF SignalInvariant, AckedIsRead
    <3> QED BY <2>1, <3>1, BehindCheckpoint DEF TurnInvariant, NothingLate
  <2> QED BY <2>1 DEF AckedIsEnforced
<1> QED BY <1>1, <1>2, <1>3, SignalInvariantHolds, PTL DEF Spec

-----------------------------------------------------------------------------
(* IndexSignals implements ReplicatedBlacklist.                            *)

Enforced == [r \in Replicas |-> [i \in {"index"} |-> seen[r]]]

\* A step in which a replica comes to hold more committed events.
LEMMA HoldingMoreRefines ==
  ASSUME UNCHANGED outbox, outbox \subseteq Event, seen \in [Replicas -> SUBSET Event],
         NEW r \in Replicas, NEW S \in SUBSET outbox, seen' = [seen EXCEPT ![r] = @ \cup S]
  PROVE  Blacklist!Next
<1>1. S \in SUBSET {b \in outbox : "index" \in TheIndex(b)} BY DEF TheIndex
<1>2. Enforced' = [Enforced EXCEPT ![r]["index"] = @ \cup S] BY DEF Enforced
<1>3. Blacklist!Enforce(r, "index") BY <1>1, <1>2 DEF Blacklist!Enforce, Enforced
<1> QED BY <1>3 DEF Blacklist!Next

\* A step in which a process goes away.
LEMMA ProcessGoneRefines ==
  ASSUME SignalInvariant, NEW r \in Replicas, ProcessGone(r)
  PROVE  Blacklist!Next
<1>1. /\ UNCHANGED outbox /\ seen' = [seen EXCEPT ![r] = {}]
      /\ seen \in [Replicas -> SUBSET Event]
  BY DEF ProcessGone, SignalInvariant, TypeOK, IndexTypeOK
<1>2. Enforced' = [Enforced EXCEPT ![r] = [i \in {"index"} |-> {}]] BY <1>1 DEF Enforced
<1>3. Blacklist!Restart(r) BY <1>1, <1>2 DEF Blacklist!Restart, Enforced
<1> QED BY <1>3 DEF Blacklist!Next

\* A committed ban may be late for a replica, it is a ban all the same.
LEMMA CommitBanRefines ==
  ASSUME SignalInvariant, NEW x \in open, CommitBan(x)
  PROVE  Blacklist!Next
<1>1. x \in Event
  <2>1. x \in 1..drawn /\ drawn \in 0..MaxBans BY DEF SignalInvariant, TypeOK, OutboxTypeOK
  <2> QED BY <2>1, ConstantsAssumption
<1>2. outbox' = outbox \cup {x} /\ UNCHANGED seen BY DEF CommitBan
<1>3. x \in outbox' /\ UNCHANGED Enforced BY <1>2 DEF Enforced
<1>4. Blacklist!Commit BY <1>1, <1>2, <1>3 DEF Blacklist!Commit, Enforced
<1> QED BY <1>4 DEF Blacklist!Next

LEMMA LifeStepRefines ==
  ASSUME SignalInvariant, NEW r \in Replicas, LifeStep(r)
  PROVE  [Blacklist!Next]_(Blacklist!vars)
<1>t. /\ seen \in [Replicas -> SUBSET Event] /\ outbox \subseteq Event
      /\ batch[r] \subseteq outbox /\ seen[r] \subseteq outbox
  BY ConstantsAssumption
  DEF SignalInvariant, TypeOK, OutboxTypeOK, IndexTypeOK, WithinOutbox, Pending
<1>1. CASE StartProcess(r) \/ NewOutboxPublisher(r)
  BY <1>1 DEF StartProcess, NewOutboxPublisher, Blacklist!vars
<1>2. CASE LoadIndexes(r)
  <2>1. UNCHANGED outbox /\ seen' = [seen EXCEPT ![r] = @ \cup outbox]
    BY <1>t, <1>2 DEF LoadIndexes
  <2> QED BY <1>t, <2>1, HoldingMoreRefines
<1>3. CASE BootstrapSucceeds(r)
  BY <1>t, <1>3, HoldingMoreRefines DEF BootstrapSucceeds, CatchUpSucceeds, ApplyBatch
<1>4. CASE NewOutboxPublisherFails(r) \/ BootstrapFails(r) \/ Crash(r)
  BY <1>4, ProcessGoneRefines DEF NewOutboxPublisherFails, BootstrapFails, Crash
<1> QED BY <1>1, <1>2, <1>3, <1>4 DEF LifeStep

LEMMA ConsumerStepRefines ==
  ASSUME SignalInvariant, NEW r \in Replicas, ConsumerStep(r)
  PROVE  [Blacklist!Next]_(Blacklist!vars)
<1>t. /\ seen \in [Replicas -> SUBSET Event] /\ outbox \subseteq Event /\ batch[r] \subseteq outbox
  BY ConstantsAssumption
  DEF SignalInvariant, TypeOK, OutboxTypeOK, IndexTypeOK, WithinOutbox, Pending
<1>1. CASE \/ Subscribe(r) \/ SubscribeFails(r) \/ Reconnect(r) \/ SessionFails(r)
           \/ TakeMessage(r) \/ Tick(r) \/ LoadAfter(r)
  BY <1>1
  DEF Subscribe, SubscribeFails, Reconnect, SessionFails, TakeMessage, Tick, LoadAfter,
      Blacklist!vars
<1>2. CASE FinishFullBatch(r) \/ Ack(r) \/ TickSucceeds(r)
  BY <1>t, <1>2, HoldingMoreRefines
  DEF FinishFullBatch, Ack, AckHand, TickSucceeds, CatchUpSucceeds, ApplyBatch
<1>3. CASE Nack(r) \/ TickFails(r)
  <2>1. UNCHANGED outbox /\ KeepApplied(r) BY <1>3 DEF Nack, TickFails
  <2>2. PICK applied \in SUBSET batch[r] : seen' = [seen EXCEPT ![r] = @ \cup applied]
    BY <2>1 DEF KeepApplied
  <2> QED BY <1>t, <2>1, <2>2, HoldingMoreRefines
<1> QED BY <1>1, <1>2, <1>3 DEF ConsumerStep

\* What the forwarder, the broker and the consumers do together is what the
\* blacklist promises: bans are durable, a process holds committed bans only,
\* and it goes on holding them while it lives.
THEOREM SignalsKeepThePromise == Spec => SignalsImplementBlacklist
<1>1. Init => Blacklist!Init BY DEF Init, Nothing, Blacklist!Init
<1>2. SignalInvariant /\ [Next]_vars => [Blacklist!Next]_(Blacklist!vars)
  <2> SUFFICES ASSUME SignalInvariant, [Next]_vars PROVE [Blacklist!Next]_(Blacklist!vars)
    OBVIOUS
  <2>1. ASSUME NEW x \in open, CommitBan(x) PROVE Blacklist!Next BY <2>1, CommitBanRefines
  <2>2. ASSUME UNCHANGED <<outbox, seen>> PROVE UNCHANGED Blacklist!vars
    BY <2>2 DEF Blacklist!vars
  <2>3. CASE BeginBan \/ \E x \in open : RollBackBan(x)
    BY <2>2, <2>3 DEF BeginBan, RollBackBan
  <2>4. CASE ForwarderStep \/ BrokerStops \/ BrokerReturns
    BY <2>2, <2>4
    DEF ForwarderStep, Publish, AckOffset, AckDeadline, BrokerStops, BrokerReturns
  <2>5. CASE UNCHANGED vars BY <2>2, <2>5 DEF vars
  <2> QED BY <2>1, <2>3, <2>4, <2>5, LifeStepRefines, ConsumerStepRefines DEF Next, BanStep
<1> QED BY <1>1, <1>2, SignalInvariantHolds, PTL DEF Spec, SignalsImplementBlacklist, Blacklist!Spec

=============================================================================
