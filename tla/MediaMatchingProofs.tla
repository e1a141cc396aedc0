------------------------ MODULE MediaMatchingProofs ------------------------
(* Proofs about MediaMatching: the indexes of the bot hold only committed  *)
(* artifacts and every answered ban, and recognise for ever what they once *)
(* recognised; a verdict is what the rules of the reference definitions    *)
(* say; every matcher keeps the promise of a replicated blacklist.  The    *)
(* proofs hold for any uploads, frames, thresholds and ratios that         *)
(* Config.validate accepts.                                                *)
EXTENDS MediaMatching, FiniteSetTheorems, TLAPS

LEMMA HandlerFacts ==
  /\ Len(Handlers) \in Nat \ {0}
  /\ \A n \in 1..Len(Handlers) : Handlers[n] \in HandlerSet
BY ConstantsAssumption DEF HandlerSet

\* An artifact of an upload belongs to the table of its handler.
LEMMA ArtifactTyped ==
  ASSUME NEW h, NEW c \in Chats, NEW u \in Uploads
  PROVE  Artifact(h, c, u) \in Artifacts(h)
BY DEF Artifacts

\* The signature tells two artifacts of a handler apart.
LEMMA SignatureIsIdentity ==
  ASSUME NEW h, NEW a \in Artifacts(h), NEW b \in Artifacts(h), Signature(a) = Signature(b)
  PROVE  a = b
BY DEF Artifacts, Artifact, Signature

\* So an index loses nothing by keeping one artifact of a signature: adding
\* one is adding it to the set, loading several is holding all of them.
LEMMA AddIsUnion ==
  ASSUME NEW h, NEW held \in SUBSET Artifacts(h), NEW a \in Artifacts(h)
  PROVE  Add(held, a) = held \cup {a}
BY SignatureIsIdentity DEF Add

LEMMA AddManyIsAll ==
  ASSUME NEW h, NEW loaded \in SUBSET Artifacts(h)
  PROVE  AddMany(loaded) = loaded
<1>1. ASSUME NEW a \in loaded PROVE (CHOOSE b \in loaded : Signature(b) = Signature(a)) = a
  <2>1. \E b \in loaded : Signature(b) = Signature(a) OBVIOUS
  <2>2. /\ (CHOOSE b \in loaded : Signature(b) = Signature(a)) \in loaded
        /\ Signature(CHOOSE b \in loaded : Signature(b) = Signature(a)) = Signature(a)
    BY <2>1
  <2> QED BY <2>2, SignatureIsIdentity
<1>2. ASSUME NEW a \in AddMany(loaded) PROVE a \in loaded
  <2>1. PICK b \in loaded : a = CHOOSE d \in loaded : Signature(d) = Signature(b)
    BY DEF AddMany
  <2> QED BY <2>1, <1>1
<1>3. ASSUME NEW a \in loaded PROVE a \in AddMany(loaded)
  <2>1. Signature(a) \in {Signature(b) : b \in loaded} OBVIOUS
  <2> QED BY <2>1, <1>1 DEF AddMany
<1> QED BY <1>2, <1>3

LEMMA JobParts ==
  ASSUME TypeOK, NEW w \in Workers, pc[w] # "idle"
  PROVE  ChatOf(w) \in Chats /\ UploadOf(w) \in Uploads /\ job[w] \in Jobs
BY DEF TypeOK, Jobs, ChatOf, UploadOf

\* What a ban of u in c makes of the table of h.
Grown(hs, c, u, h) == IF h \in hs THEN rows[h] \cup {Artifact(h, c, u)} ELSE rows[h]

\* The tables grow by the artifacts of a ban.
LEMMA InsertedIsUnion ==
  ASSUME TypeOK, NEW hs, NEW c \in Chats, NEW u \in Uploads
  PROVE  /\ DOMAIN Inserted(hs, c, u) = HandlerSet
         /\ \A h \in HandlerSet : Inserted(hs, c, u)[h] = Grown(hs, c, u, h)
         /\ \A h \in HandlerSet : Inserted(hs, c, u)[h] \subseteq Artifacts(h)
<1>1. ASSUME NEW h \in HandlerSet
      PROVE  /\ Add(rows[h], Artifact(h, c, u)) = rows[h] \cup {Artifact(h, c, u)}
             /\ rows[h] \in SUBSET Artifacts(h) /\ Artifact(h, c, u) \in Artifacts(h)
  <2>1. rows[h] \in SUBSET Artifacts(h) BY DEF TypeOK
  <2>2. Artifact(h, c, u) \in Artifacts(h) BY ArtifactTyped
  <2> QED BY <2>1, <2>2, AddIsUnion
<1>2. Inserted(hs, c, u) = [h \in HandlerSet |->
        IF h \in hs THEN Add(rows[h], Artifact(h, c, u)) ELSE rows[h]]
  BY DEF Inserted
<1> QED BY <1>1, <1>2 DEF Grown

-----------------------------------------------------------------------------
(* Steps of IsBlocked and the end of a failed call: tables, indexes and    *)
(* answers stay, and the worker is in no ban.                              *)

LEMMA ReturnTyped ==
  ASSUME TypeOK, NEW w \in Workers, NEW answer \in {"idle", "blocked", "clean"},
         pc[w] # "idle", Return(w, answer)
  PROVE  /\ pc' \in [Workers -> {"idle", "check", "blocked", "clean", "commit", "apply"}]
         /\ job' \in [Workers -> Jobs \cup {NoJob}]
         /\ \A v \in Workers : pc'[v] # "idle" => job'[v] \in Jobs
         /\ at' \in [Workers -> 1..Len(Handlers)]
         /\ prepared' \in [Workers -> SUBSET HandlerSet]
         /\ due' \in [Workers -> BOOLEAN]
         /\ pc'[w] = answer /\ at'[w] = 1
         /\ \A v \in Workers \ {w} :
              pc'[v] = pc[v] /\ job'[v] = job[v] /\ at'[v] = at[v] /\ prepared'[v] = prepared[v]
<1>1. \A v \in Workers : due[v] \in BOOLEAN BY DEF TypeOK
<1>2. due' \in [Workers -> BOOLEAN] BY <1>1 DEF Return, TypeOK
<1> QED BY <1>2, HandlerFacts DEF Return, TypeOK

\* What a step has to leave alone for the rest of the invariant to stay.
LEMMA OtherWorkersKeep ==
  ASSUME MatchingInvariant, UNCHANGED stored, TypeOK', NEW w \in Workers,
         pc'[w] \notin {"commit", "apply"}, pc'[w] = "check" \/ at'[w] = 1,
         \A v \in Workers \ {w} :
           pc'[v] = pc[v] /\ job'[v] = job[v] /\ at'[v] = at[v] /\ prepared'[v] = prepared[v]
  PROVE  MatchingInvariant'
<1> USE DEF stored, ChatOf, UploadOf
<1>1. IndexBacked' BY DEF MatchingInvariant, IndexBacked
<1>2. AppliedIsStored' BY DEF MatchingInvariant, AppliedIsStored
<1>3. AppliedSoFar' BY DEF MatchingInvariant, AppliedSoFar
<1>4. PreparedByAll' BY DEF MatchingInvariant, PreparedByAll
<1>5. AnsweredIsIndexed' BY DEF MatchingInvariant, AnsweredIsIndexed
<1>6. NotYetApplied' BY DEF MatchingInvariant, NotYetApplied
<1> QED BY <1>1, <1>2, <1>3, <1>4, <1>5, <1>6 DEF MatchingInvariant

LEMMA ReturnKeeps ==
  ASSUME MatchingInvariant, NEW w \in Workers, NEW answer \in {"idle", "blocked", "clean"},
         pc[w] # "idle", Return(w, answer), UNCHANGED <<stored, bans>>,
         faults' \in 0..MaxFaults
  PROVE  MatchingInvariant'
<1>1. TypeOK BY DEF MatchingInvariant
<1>2. TypeOK' BY <1>1, ReturnTyped DEF TypeOK, stored
<1> QED BY <1>1, <1>2, ReturnTyped, OtherWorkersKeep

LEMMA GoOnKeeps ==
  ASSUME MatchingInvariant, NEW w \in Workers, pc[w] = "check", GoOn(w),
         UNCHANGED <<stored, bounds>>
  PROVE  MatchingInvariant'
<1>1. TypeOK BY DEF MatchingInvariant
<1>2. CASE at[w] < Len(Handlers)
  <2>1. at' \in [Workers -> 1..Len(Handlers)]
    <3>1. at[w] + 1 \in 1..Len(Handlers) BY <1>1, <1>2, HandlerFacts DEF TypeOK
    <3> QED BY <1>1, <1>2, <3>1 DEF GoOn, TypeOK
  <2>2. TypeOK' BY <1>1, <1>2, <2>1 DEF GoOn, TypeOK, stored, bounds
  <2> QED BY <1>1, <1>2, <2>2, OtherWorkersKeep DEF GoOn, TypeOK
<1>3. CASE ~(at[w] < Len(Handlers))
  BY <1>1, <1>3, ReturnKeeps DEF GoOn, bounds, TypeOK
<1> QED BY <1>2, <1>3

LEMMA StartCheckKeeps ==
  ASSUME MatchingInvariant, NEW w \in Workers, NEW c \in Chats, NEW u \in Uploads,
         StartCheck(w, c, u)
  PROVE  MatchingInvariant'
<1>1. TypeOK BY DEF MatchingInvariant
<1>2. due' \in [Workers -> BOOLEAN] BY <1>1 DEF StartCheck, TypeOK
<1>3. TypeOK' BY <1>1, <1>2 DEF StartCheck, Begin, TypeOK, Jobs, stored, bounds
<1> QED BY <1>1, <1>3, OtherWorkersKeep DEF StartCheck, Begin, TypeOK

LEMMA PrepareBanKeeps ==
  ASSUME MatchingInvariant, NEW w \in Workers, NEW c \in Chats, NEW u \in Uploads,
         PrepareBan(w, c, u)
  PROVE  MatchingInvariant'
<1>0. Resting(w) BY DEF PrepareBan, Begin
<1> USE DEF PrepareBan, Begin, ChatOf, UploadOf
<1>1. TypeOK BY DEF MatchingInvariant
<1>2. /\ UNCHANGED <<rows, index, answered, at, bans, faults>>
      /\ job'[w] = <<c, u>> /\ pc'[w] = "commit"
      /\ prepared'[w] = {h \in HandlerSet : Takes(h, u)}
      /\ \A v \in Workers \ {w} :
           pc'[v] = pc[v] /\ job'[v] = job[v] /\ at'[v] = at[v] /\ prepared'[v] = prepared[v]
  BY <1>1 DEF TypeOK, stored, bounds
<1>3. TypeOK'
  <2>1. job' \in [Workers -> Jobs \cup {NoJob}] BY <1>1 DEF TypeOK, Jobs
  <2>2. due' \in [Workers -> BOOLEAN] /\ prepared' \in [Workers -> SUBSET HandlerSet]
    BY <1>1 DEF TypeOK
  <2>3. \A v \in Workers : pc'[v] # "idle" => job'[v] \in Jobs
    BY <1>1, <1>2 DEF TypeOK, Jobs
  <2> QED BY <1>1, <1>2, <2>1, <2>2, <2>3 DEF TypeOK, stored, bounds
<1> HIDE DEF PrepareBan, Begin
<1>4. IndexBacked' BY <1>2 DEF MatchingInvariant, IndexBacked
<1>5. AppliedIsStored' BY <1>2 DEF MatchingInvariant, AppliedIsStored
<1>6. AppliedSoFar' BY <1>2 DEF MatchingInvariant, AppliedSoFar
<1>7. PreparedByAll'
  <2>1. UploadOf(w)' = u BY <1>2
  <2> QED BY <1>2, <2>1 DEF MatchingInvariant, PreparedByAll
<1>8. AnsweredIsIndexed' BY <1>2 DEF MatchingInvariant, AnsweredIsIndexed
<1>9. NotYetApplied' BY <1>0, <1>1, <1>2 DEF MatchingInvariant, NotYetApplied, Resting
<1> QED BY <1>3, <1>4, <1>5, <1>6, <1>7, <1>8, <1>9 DEF MatchingInvariant

-----------------------------------------------------------------------------
(* Steps that write tables or indexes: both only grow.                     *)

\* What the conjuncts about a ban under way survive: larger tables and
\* larger indexes, as long as no worker changes its place.
LEMMA GrowthKeeps ==
  ASSUME MatchingInvariant, TypeOK', IndexBacked', UNCHANGED <<answered, call>>,
         \A h \in HandlerSet : rows[h] \subseteq rows'[h] /\ index[h] \subseteq index'[h]
  PROVE  MatchingInvariant'
<1> USE DEF call, ChatOf, UploadOf
<1>0. TypeOK BY DEF MatchingInvariant
<1>1. AppliedIsStored' BY <1>0 DEF MatchingInvariant, AppliedIsStored, TypeOK
<1>2. AppliedSoFar'
  <2>1. ASSUME NEW w \in Workers, NEW n \in 1..(at[w] - 1) PROVE Handlers[n] \in HandlerSet
    BY <1>0, HandlerFacts DEF TypeOK
  <2> QED BY <2>1 DEF MatchingInvariant, AppliedSoFar
<1>3. PreparedByAll' BY DEF MatchingInvariant, PreparedByAll
<1>4. AnsweredIsIndexed' BY DEF MatchingInvariant, AnsweredIsIndexed, Local
<1>5. NotYetApplied' BY DEF MatchingInvariant, NotYetApplied
<1> QED BY <1>1, <1>2, <1>3, <1>4, <1>5 DEF MatchingInvariant

LEMMA BanElsewhereKeeps ==
  ASSUME MatchingInvariant, NEW c \in Chats, NEW u \in Uploads, BanElsewhere(c, u)
  PROVE  MatchingInvariant'
<1>1. TypeOK BY DEF MatchingInvariant
<1> DEFINE hs == {h \in HandlerSet : Takes(h, u)}
<1>2. rows' = Inserted(hs, c, u) /\ UNCHANGED <<index, answered, call, faults>>
  BY DEF BanElsewhere
<1>3. bans' \in 0..MaxBans BY <1>1, ConstantsAssumption DEF BanElsewhere, TypeOK
<1> HIDE DEF hs
<1>4. \A h \in HandlerSet : rows[h] \subseteq rows'[h] /\ rows'[h] \subseteq Artifacts(h)
  <2>1. \A h \in HandlerSet : Inserted(hs, c, u)[h] = Grown(hs, c, u, h)
    BY <1>1, InsertedIsUnion
  <2>2. \A h \in HandlerSet : Inserted(hs, c, u)[h] \subseteq Artifacts(h)
    BY <1>1, InsertedIsUnion
  <2> QED BY <1>2, <2>1, <2>2 DEF Grown
<1>5. TypeOK' BY <1>1, <1>2, <1>3, <1>4, InsertedIsUnion DEF TypeOK, call
<1>6. IndexBacked' BY <1>2, <1>4 DEF MatchingInvariant, IndexBacked
<1> QED BY <1>2, <1>4, <1>5, <1>6, GrowthKeeps

LEMMA ApplyEventKeeps ==
  ASSUME MatchingInvariant, NEW h \in HandlerSet, NEW a \in rows[h], ApplyEvent(h, a)
  PROVE  /\ MatchingInvariant'
         /\ \A g \in HandlerSet : index[g] \subseteq index'[g]
<1>1. TypeOK BY DEF MatchingInvariant
<1>2. Add(index[h], a) = index[h] \cup {a}
  <2>1. index[h] \in SUBSET Artifacts(h) /\ a \in Artifacts(h) BY <1>1 DEF TypeOK
  <2> QED BY <2>1, AddIsUnion
<1>3. /\ index' = [index EXCEPT ![h] = index[h] \cup {a}]
      /\ UNCHANGED <<rows, answered, call, bounds>>
  BY <1>2 DEF ApplyEvent
<1>4. TypeOK' BY <1>1, <1>3 DEF TypeOK, call, bounds
<1>5. IndexBacked' BY <1>1, <1>3 DEF MatchingInvariant, IndexBacked, TypeOK
<1>6. \A g \in HandlerSet : rows[g] \subseteq rows'[g] /\ index[g] \subseteq index'[g]
  BY <1>1, <1>3 DEF TypeOK
<1> QED BY <1>3, <1>4, <1>5, <1>6, GrowthKeeps

LEMMA RestartServiceKeeps ==
  ASSUME MatchingInvariant, RestartService
  PROVE  /\ MatchingInvariant'
         /\ \A g \in HandlerSet : index[g] \subseteq index'[g]
<1>1. TypeOK BY DEF MatchingInvariant
<1>2. /\ index' = [index EXCEPT !["aivector"] = rows["aivector"]]
      /\ UNCHANGED <<rows, answered, call, bans>>
  BY DEF RestartService
<1>3. faults' \in 0..MaxFaults BY <1>1, ConstantsAssumption DEF RestartService, TypeOK
<1>4. TypeOK' BY <1>1, <1>2, <1>3 DEF TypeOK, call
<1>5. IndexBacked' BY <1>1, <1>2 DEF MatchingInvariant, IndexBacked, TypeOK
<1>6. \A g \in HandlerSet : rows[g] \subseteq rows'[g] /\ index[g] \subseteq index'[g]
  BY <1>1, <1>2 DEF MatchingInvariant, IndexBacked, TypeOK
<1> QED BY <1>2, <1>4, <1>5, <1>6, GrowthKeeps

LEMMA CommitBanKeeps ==
  ASSUME MatchingInvariant, NEW w \in Workers, CommitBan(w)
  PROVE  MatchingInvariant'
<1> USE DEF ChatOf, UploadOf
<1> DEFINE c == ChatOf(w)
           u == UploadOf(w)
<1>1. TypeOK BY DEF MatchingInvariant
<1>2. /\ rows' = Inserted(prepared[w], c, u) /\ pc[w] = "commit"
      /\ pc' = [pc EXCEPT ![w] = "apply"]
      /\ UNCHANGED <<index, answered, job, at, prepared, due, faults>>
  BY DEF CommitBan
<1>3. bans' \in 0..MaxBans BY <1>1, ConstantsAssumption DEF CommitBan, TypeOK
<1>4. c \in Chats /\ u \in Uploads BY <1>1, <1>2, JobParts
<1> HIDE DEF c, u
<1>5. /\ DOMAIN rows' = HandlerSet
      /\ \A h \in HandlerSet : rows'[h] =
           IF h \in prepared[w] THEN rows[h] \cup {Artifact(h, c, u)} ELSE rows[h]
      /\ \A h \in HandlerSet : rows'[h] \subseteq Artifacts(h)
  <2>1. DOMAIN Inserted(prepared[w], c, u) = HandlerSet BY <1>1, <1>4, InsertedIsUnion
  <2>2. \A h \in HandlerSet : Inserted(prepared[w], c, u)[h] = Grown(prepared[w], c, u, h)
    BY <1>1, <1>4, InsertedIsUnion
  <2>3. \A h \in HandlerSet : Inserted(prepared[w], c, u)[h] \subseteq Artifacts(h)
    BY <1>1, <1>4, InsertedIsUnion
  <2> QED BY <1>2, <2>1, <2>2, <2>3 DEF Grown
<1>6. TypeOK'
  <2>1. /\ pc' \in [Workers -> {"idle", "check", "blocked", "clean", "commit", "apply"}]
        /\ \A v \in Workers : pc'[v] # "idle" => job'[v] \in Jobs
    BY <1>1, <1>2 DEF TypeOK
  <2> QED BY <1>1, <1>2, <1>3, <1>5, <2>1 DEF TypeOK
<1>7. IndexBacked' BY <1>2, <1>5 DEF MatchingInvariant, IndexBacked
<1>8. AppliedIsStored'
  <2>1. prepared[w] \subseteq HandlerSet BY <1>1 DEF TypeOK
  <2>2. \A h \in prepared[w] : Takes(h, u) /\ Artifact(h, c, u) \in rows'[h]
    BY <1>2, <1>5, <2>1 DEF MatchingInvariant, PreparedByAll, u
  <2>3. ASSUME NEW v \in Workers \ {w}, pc[v] = "apply", NEW h \in prepared[v]
        PROVE  Takes(h, UploadOf(v)) /\ Artifact(h, ChatOf(v), UploadOf(v)) \in rows'[h]
    <3>1. h \in HandlerSet BY <1>1 DEF TypeOK
    <3> QED BY <1>5, <2>3, <3>1 DEF MatchingInvariant, AppliedIsStored
  <2> QED BY <1>1, <1>2, <2>2, <2>3 DEF AppliedIsStored, TypeOK, c, u
<1>9. AppliedSoFar'
  <2>1. at[w] = 1
    BY <1>1, <1>2 DEF MatchingInvariant, NotYetApplied
  <2>2. \A n \in 1..(at[w] - 1) : FALSE BY <2>1
  <2> QED BY <1>1, <1>2, <2>2 DEF MatchingInvariant, AppliedSoFar, TypeOK
<1>10. PreparedByAll' BY <1>1, <1>2 DEF MatchingInvariant, PreparedByAll, TypeOK
<1>11. AnsweredIsIndexed' BY <1>2 DEF MatchingInvariant, AnsweredIsIndexed
<1>12. NotYetApplied' BY <1>1, <1>2 DEF MatchingInvariant, NotYetApplied, TypeOK
<1> QED BY <1>6, <1>7, <1>8, <1>9, <1>10, <1>11, <1>12 DEF MatchingInvariant

\* One more index of the bot holds the artifact of the ban; after the last
\* handler the ban is answered.
LEMMA ApplyBlockKeeps ==
  ASSUME MatchingInvariant, NEW w \in Workers, ApplyBlock(w)
  PROVE  /\ MatchingInvariant'
         /\ \A g \in HandlerSet : index[g] \subseteq index'[g]
<1> DEFINE c == ChatOf(w)
           u == UploadOf(w)
           h == HandlerAt(w)
<1>1. TypeOK BY DEF MatchingInvariant
<1>2. pc[w] = "apply" /\ UNCHANGED <<rows, bounds>> BY DEF ApplyBlock
<1>3. c \in Chats /\ u \in Uploads /\ job[w] = <<c, u>> /\ h \in HandlerSet /\ h = Handlers[at[w]]
  BY <1>1, <1>2, JobParts, HandlerFacts DEF TypeOK, HandlerAt, Jobs, ChatOf, UploadOf
<1>4. \A g \in HandlerSet : index'[g] =
        IF g = h /\ h \in prepared[w] \cap Local THEN index[g] \cup {Artifact(h, c, u)} ELSE index[g]
  <2>1. index[h] \in SUBSET Artifacts(h) /\ Artifact(h, c, u) \in Artifacts(h)
    BY <1>1, <1>3, ArtifactTyped DEF TypeOK
  <2>2. Add(index[h], Artifact(h, c, u)) = index[h] \cup {Artifact(h, c, u)}
    BY <2>1, AddIsUnion
  <2> QED BY <1>1, <1>3, <2>2 DEF ApplyBlock, TypeOK
<1>5. DOMAIN index' = HandlerSet BY <1>1 DEF ApplyBlock, TypeOK
<1>6. \A g \in HandlerSet : index'[g] \subseteq Artifacts(g)
  <2>1. Artifact(h, c, u) \in Artifacts(h) BY <1>3, ArtifactTyped
  <2>2. \A g \in HandlerSet : index[g] \subseteq Artifacts(g) BY <1>1 DEF TypeOK
  <2> HIDE DEF h, c, u
  <2> QED BY <1>4, <2>1, <2>2
<1>7. IndexBacked'
  <2>1. h \in prepared[w] => Artifact(h, c, u) \in rows[h]
    BY <1>2 DEF MatchingInvariant, AppliedIsStored
  <2> QED BY <1>2, <1>4, <2>1 DEF MatchingInvariant, IndexBacked
<1>g. \A g \in HandlerSet : index[g] \subseteq index'[g] BY <1>4
<1> HIDE DEF c, u, h
<1>8. CASE at[w] < Len(Handlers)
  <2>1. at' = [at EXCEPT ![w] = @ + 1] /\ UNCHANGED <<answered, pc, job, prepared, due>>
    BY <1>8 DEF ApplyBlock
  <2>2. at[w] + 1 \in 1..Len(Handlers) BY <1>1, <1>8, HandlerFacts DEF TypeOK
  <2>3. TypeOK'
    <3>1. at' \in [Workers -> 1..Len(Handlers)] BY <1>1, <2>1, <2>2 DEF TypeOK
    <3> QED BY <1>1, <1>2, <1>5, <1>6, <2>1, <3>1 DEF TypeOK, bounds
  <2>4. AppliedIsStored' BY <1>2, <2>1 DEF MatchingInvariant, AppliedIsStored, ChatOf, UploadOf
  <2>5. AppliedSoFar'
    <3>1. ASSUME NEW v \in Workers, pc[v] = "apply", NEW n \in 1..(at'[v] - 1),
                 Handlers[n] \in prepared[v] \cap Local
          PROVE  Artifact(Handlers[n], ChatOf(v), UploadOf(v)) \in index'[Handlers[n]]
      <4>1. Handlers[n] \in HandlerSet BY <3>1 DEF Local
      <4>2. CASE v = w /\ n = at[w]
        BY <1>3, <1>4, <3>1, <4>1, <4>2 DEF c, u
      <4>3. CASE ~(v = w /\ n = at[w])
        <5>1. n \in 1..(at[v] - 1) BY <1>1, <2>1, <4>3 DEF TypeOK
        <5>2. Artifact(Handlers[n], ChatOf(v), UploadOf(v)) \in index[Handlers[n]]
          BY <3>1, <5>1 DEF MatchingInvariant, AppliedSoFar
        <5> QED BY <1>g, <4>1, <5>2
      <4> QED BY <4>2, <4>3
    <3> QED BY <2>1, <3>1 DEF AppliedSoFar, ChatOf, UploadOf
  <2>6. PreparedByAll' BY <2>1 DEF MatchingInvariant, PreparedByAll, UploadOf
  <2>7. AnsweredIsIndexed' BY <1>g, <2>1 DEF MatchingInvariant, AnsweredIsIndexed, Local
  <2>8. NotYetApplied' BY <1>1, <1>2, <2>1 DEF MatchingInvariant, NotYetApplied, TypeOK
  <2> QED BY <1>7, <1>g, <2>3, <2>4, <2>5, <2>6, <2>7, <2>8 DEF MatchingInvariant
<1>9. CASE ~(at[w] < Len(Handlers))
  <2>1. answered' = answered \cup {job[w]} /\ Return(w, "idle")
    BY <1>9 DEF ApplyBlock
  <2>2. /\ pc'[w] = "idle" /\ at'[w] = 1
        /\ \A v \in Workers \ {w} :
             pc'[v] = pc[v] /\ job'[v] = job[v] /\ at'[v] = at[v] /\ prepared'[v] = prepared[v]
    BY <1>1, <1>2, <2>1, ReturnTyped
  <2>3. TypeOK'
    <3>1. answered' \subseteq Jobs BY <1>1, <1>2, <2>1, JobParts DEF TypeOK
    <3> QED BY <1>1, <1>2, <1>5, <1>6, <2>1, <3>1, ReturnTyped DEF TypeOK, bounds
  <2>4. AppliedIsStored'
    BY <1>2, <2>2 DEF MatchingInvariant, AppliedIsStored, ChatOf, UploadOf
  <2>5. AppliedSoFar'
    <3>1. ASSUME NEW v \in Workers \ {w}, pc[v] = "apply", NEW n \in 1..(at[v] - 1),
                 Handlers[n] \in prepared[v] \cap Local
          PROVE  Artifact(Handlers[n], ChatOf(v), UploadOf(v)) \in index'[Handlers[n]]
      BY <1>g, <3>1 DEF MatchingInvariant, AppliedSoFar, Local
    <3> QED BY <2>2, <3>1 DEF AppliedSoFar, ChatOf, UploadOf
  <2>6. PreparedByAll' BY <2>2 DEF MatchingInvariant, PreparedByAll, UploadOf
  <2>7. AnsweredIsIndexed'
    <3>1. ASSUME NEW g \in Local, Takes(g, u) PROVE Artifact(g, c, u) \in index'[g]
      <4>1. g \in HandlerSet /\ g \in prepared[w]
        BY <1>2, <3>1 DEF MatchingInvariant, PreparedByAll, Local, u
      <4>2. PICK n \in 1..Len(Handlers) : g = Handlers[n]
        BY <4>1, ConstantsAssumption DEF HandlerSet
      <4>3. CASE g = h BY <1>4, <3>1, <4>1, <4>3
      <4>4. CASE g # h
        <5>1. n \in 1..(at[w] - 1)
          BY <1>1, <1>3, <1>9, <4>2, <4>4, HandlerFacts DEF TypeOK
        <5>2. Artifact(g, c, u) \in index[g]
          BY <1>2, <3>1, <4>1, <4>2, <5>1 DEF MatchingInvariant, AppliedSoFar, c, u
        <5> QED BY <1>g, <4>1, <5>2
      <4> QED BY <4>3, <4>4
    <3>2. ASSUME NEW b \in answered, NEW g \in Local, Takes(g, b[2])
          PROVE  Artifact(g, b[1], b[2]) \in index'[g]
      BY <1>g, <3>2 DEF MatchingInvariant, AnsweredIsIndexed, Local
    <3>3. job[w][1] = c /\ job[w][2] = u BY DEF c, u, ChatOf, UploadOf
    <3> QED BY <2>1, <3>1, <3>2, <3>3 DEF AnsweredIsIndexed
  <2>8. NotYetApplied' BY <2>2 DEF MatchingInvariant, NotYetApplied
  <2> QED BY <1>7, <1>g, <2>3, <2>4, <2>5, <2>6, <2>7, <2>8 DEF MatchingInvariant
<1> QED BY <1>8, <1>9, <1>g

\* Loading the tables anew loses nothing the indexes held.
LEMMA RestartBotKeeps ==
  ASSUME MatchingInvariant, RestartBot
  PROVE  /\ MatchingInvariant'
         /\ \A g \in HandlerSet : index[g] \subseteq index'[g]
<1>1. TypeOK BY DEF MatchingInvariant
<1>2. index' = [h \in HandlerSet |-> IF h \in Local THEN rows[h] ELSE index[h]]
  <2>1. ASSUME NEW h \in HandlerSet PROVE AddMany(rows[h]) = rows[h]
    <3>1. rows[h] \in SUBSET Artifacts(h) BY <1>1 DEF TypeOK
    <3> QED BY <3>1, AddManyIsAll
  <2> QED BY <2>1 DEF RestartBot
<1>3. /\ pc' = [w \in Workers |-> "idle"] /\ job' = [w \in Workers |-> NoJob]
      /\ at' = [w \in Workers |-> 1] /\ prepared' = [w \in Workers |-> {}]
      /\ due' = [w \in Workers |-> FALSE] /\ UNCHANGED <<rows, answered, bans>>
  BY DEF RestartBot
<1>4. faults' \in 0..MaxFaults BY <1>1, ConstantsAssumption DEF RestartBot, TypeOK
<1>5. \A h \in HandlerSet : index[h] \subseteq index'[h] /\ index'[h] \subseteq rows[h]
  BY <1>2 DEF MatchingInvariant, IndexBacked
<1>6. TypeOK' BY <1>1, <1>2, <1>3, <1>4, HandlerFacts DEF TypeOK
<1>7. IndexBacked' BY <1>3, <1>5 DEF IndexBacked
<1>8. AppliedIsStored' /\ AppliedSoFar' /\ PreparedByAll' /\ NotYetApplied'
  BY <1>3 DEF AppliedIsStored, AppliedSoFar, PreparedByAll, NotYetApplied
<1>9. AnsweredIsIndexed' BY <1>3, <1>5 DEF MatchingInvariant, AnsweredIsIndexed, Local
<1> QED BY <1>5, <1>6, <1>7, <1>8, <1>9 DEF MatchingInvariant

-----------------------------------------------------------------------------

LEMMA MatchingInvariantInit == Init => MatchingInvariant
<1> SUFFICES ASSUME Init PROVE MatchingInvariant
  OBVIOUS
<1> USE DEF Init
<1>1. TypeOK
  <2>1. 0 \in 0..MaxBans /\ 0 \in 0..MaxFaults /\ 1 \in 1..Len(Handlers)
    BY ConstantsAssumption, HandlerFacts
  <2> QED BY <2>1 DEF TypeOK
<1>2. IndexBacked /\ AnsweredIsIndexed BY DEF IndexBacked, AnsweredIsIndexed
<1>3. AppliedIsStored /\ AppliedSoFar /\ PreparedByAll /\ NotYetApplied
  BY DEF AppliedIsStored, AppliedSoFar, PreparedByAll, NotYetApplied
<1> QED BY <1>1, <1>2, <1>3 DEF MatchingInvariant

LEMMA CallFailsKeeps ==
  ASSUME MatchingInvariant, NEW w \in Workers, CallFails(w)
  PROVE  MatchingInvariant'
<1>1. faults' \in 0..MaxFaults
  BY ConstantsAssumption DEF CallFails, MatchingInvariant, TypeOK
<1> QED BY <1>1, ReturnKeeps DEF CallFails

LEMMA HandlerStepsKeep ==
  ASSUME MatchingInvariant, NEW w \in Workers,
         \/ HandlerRefuses(w) \/ HandlerMatches(w) \/ HandlerMatchesNot(w) \/ HandlerFails(w)
  PROVE  MatchingInvariant'
<1>1. faults \in 0..MaxFaults BY DEF MatchingInvariant, TypeOK
<1>2. CASE HandlerRefuses(w) \/ HandlerMatchesNot(w)
  BY <1>2, GoOnKeeps DEF HandlerRefuses, HandlerMatchesNot
<1>3. CASE HandlerMatches(w) BY <1>1, <1>3, ReturnKeeps DEF HandlerMatches, bounds
<1>4. CASE HandlerFails(w) BY <1>1, <1>4, ReturnKeeps DEF HandlerFails, bounds
<1> QED BY <1>2, <1>3, <1>4

LEMMA MatchingInvariantStep == MatchingInvariant /\ [Next]_vars => MatchingInvariant'
<1> SUFFICES ASSUME MatchingInvariant, [Next]_vars PROVE MatchingInvariant'
  OBVIOUS
<1>1. ASSUME NEW w \in Workers, WorkerStep(w) PROVE MatchingInvariant'
  BY <1>1, StartCheckKeeps, PrepareBanKeeps, HandlerStepsKeep, CallFailsKeeps,
     CommitBanKeeps, ApplyBlockKeeps DEF WorkerStep
<1>2. ASSUME NEW c \in Chats, NEW u \in Uploads, BanElsewhere(c, u) PROVE MatchingInvariant'
  BY <1>2, BanElsewhereKeeps
<1>3. ASSUME NEW h \in HandlerSet, NEW a \in rows[h], ApplyEvent(h, a) PROVE MatchingInvariant'
  BY <1>3, ApplyEventKeeps
<1>4. CASE RestartBot BY <1>4, RestartBotKeeps
<1>5. CASE RestartService BY <1>5, RestartServiceKeeps
<1>6. CASE UNCHANGED vars
  BY <1>6 DEF vars, stored, call, bounds, MatchingInvariant, TypeOK, IndexBacked,
     AppliedIsStored, AppliedSoFar, PreparedByAll, NotYetApplied, AnsweredIsIndexed,
     ChatOf, UploadOf
<1> QED BY <1>1, <1>2, <1>3, <1>4, <1>5, <1>6 DEF Next

\* The invariant of checks, bans, events and restarts holds in every
\* reachable state, for any uploads, chats, workers, handlers and rules.
THEOREM MatchingInvariantHolds == Spec => []MatchingInvariant
BY MatchingInvariantInit, MatchingInvariantStep, PTL DEF Spec

\* The state is well typed.
THEOREM TypeCorrect == Spec => []TypeOK
<1>1. MatchingInvariant => TypeOK BY DEF MatchingInvariant
<1> QED BY <1>1, MatchingInvariantHolds, PTL

\* No step takes an artifact out of an index of the bot.
LEMMA IndexesOnlyGrow ==
  ASSUME MatchingInvariant, [Next]_vars
  PROVE  \A h \in HandlerSet : index[h] \subseteq index'[h]
<1>1. ASSUME NEW w \in Workers, WorkerStep(w)
      PROVE  \A h \in HandlerSet : index[h] \subseteq index'[h]
  <2>1. CASE ApplyBlock(w) BY <2>1, ApplyBlockKeeps
  <2>2. CASE ~ApplyBlock(w)
    <3>1. UNCHANGED index
      BY <1>1, <2>2 DEF WorkerStep, StartCheck, PrepareBan, HandlerRefuses, HandlerMatches,
         HandlerMatchesNot, HandlerFails, CallFails, CommitBan, stored
    <3> QED BY <3>1
  <2> QED BY <2>1, <2>2
<1>2. ASSUME NEW c \in Chats, NEW u \in Uploads, BanElsewhere(c, u)
      PROVE  \A h \in HandlerSet : index[h] \subseteq index'[h]
  BY <1>2 DEF BanElsewhere
<1>3. ASSUME NEW g \in HandlerSet, NEW a \in rows[g], ApplyEvent(g, a)
      PROVE  \A h \in HandlerSet : index[h] \subseteq index'[h]
  BY <1>3, ApplyEventKeeps
<1>4. CASE RestartBot BY <1>4, RestartBotKeeps
<1>5. CASE RestartService BY <1>5, RestartServiceKeeps
<1>6. CASE UNCHANGED vars BY <1>6 DEF vars, stored
<1> QED BY <1>1, <1>2, <1>3, <1>4, <1>5, <1>6 DEF Next

\* What the bot recognises it goes on recognising, whatever is banned later
\* and however often it restarts.
THEOREM RecognitionIsLasting == Spec => BlockedStaysBlocked
<1> DEFINE Lasting == \A h \in Local : index'[h] # index[h] =>
             \A c \in Chats, u \in Uploads :
               Takes(h, u) /\ Hits(h, c, u) => Hits(h, c, u)'
<1>1. MatchingInvariant /\ [Next]_vars => Lasting
  <2> SUFFICES ASSUME MatchingInvariant, [Next]_vars, NEW h \in Local, NEW c \in Chats,
                      NEW u \in Uploads, Hits(h, c, u)
               PROVE  Hits(h, c, u)'
    OBVIOUS
  <2>1. index[h] \subseteq index'[h] BY IndexesOnlyGrow DEF Local
  <2> QED BY <2>1 DEF Hits
<1>2. MatchingInvariant /\ [Next]_vars => [Lasting]_vars BY <1>1
<1> QED BY <1>2, MatchingInvariantHolds, PTL DEF Spec, BlockedStaysBlocked

-----------------------------------------------------------------------------
(* What the loop of the clip matcher computes.                             *)

\* Induction on a natural number, as the smallest counterexample.
LEMMA LeastElement ==
  ASSUME NEW T \in SUBSET Nat, T # {}
  PROVE  \E n \in T : \A m \in T : n <= m
<1>1. \E n \in T : \A m \in T : ~ (<<m, n>> \in OpToRel(<, Nat))
  BY WFMin, NatLessThanWellFounded
<1>2. \A m, n \in T : ~ (<<m, n>> \in OpToRel(<, Nat)) => ~(m < n)
  BY DEF OpToRel
<1>3. PICK n \in T : \A m \in T : ~(m < n)
  BY <1>1, <1>2
<1>4. \A m \in T : m \in Nat /\ n \in Nat
  OBVIOUS
<1> QED BY <1>3, <1>4

\* The frames among the first n of the query that match a frame held.
Matched(query, held, n) == {k \in 1..n : HasMatchingFrame("videolike", query[k], held)}

LEMMA MatchedFinite ==
  ASSUME NEW query, NEW held, NEW n \in Nat
  PROVE  /\ IsFiniteSet(Matched(query, held, n)) /\ Cardinality(Matched(query, held, n)) \in Nat
         /\ Cardinality(Matched(query, held, n)) <= n
<1>1. IsFiniteSet(1..n) /\ Cardinality(1..n) = n BY FS_Interval
<1>2. Matched(query, held, n) \in SUBSET (1..n) BY DEF Matched
<1> QED BY <1>1, <1>2, FS_Subset, FS_CardinalityType

LEMMA MatchedGrows ==
  ASSUME NEW query, NEW held, NEW n \in Nat \ {0}
  PROVE  Cardinality(Matched(query, held, n)) =
           Cardinality(Matched(query, held, n - 1)) +
             (IF HasMatchingFrame("videolike", query[n], held) THEN 1 ELSE 0)
<1> DEFINE before == Matched(query, held, n - 1)
<1>1. n - 1 \in Nat /\ n \notin before BY DEF Matched
<1>2. IsFiniteSet(before) /\ Cardinality(before) \in Nat BY <1>1, MatchedFinite
<1>3. \A k \in Int : k \in 1..n <=> k \in 1..(n - 1) \/ k = n OBVIOUS
<1>4. CASE HasMatchingFrame("videolike", query[n], held)
  <2>1. Matched(query, held, n) = before \cup {n} BY <1>3, <1>4 DEF Matched
  <2>2. Cardinality(before \cup {n}) = Cardinality(before) + 1 BY <1>1, <1>2, FS_AddElement
  <2> QED BY <1>4, <2>1, <2>2
<1>5. CASE ~HasMatchingFrame("videolike", query[n], held)
  <2>1. Matched(query, held, n) = before BY <1>3, <1>5 DEF Matched
  <2> QED BY <1>2, <1>5, <2>1
<1> QED BY <1>4, <1>5

\* The counter is the number of these frames.
LEMMA LoopCounts ==
  ASSUME NEW query, NEW held, Len(query) \in Nat, NEW n \in 0..Len(query)
  PROVE  MatchedSoFar(query, held)[n] = Cardinality(Matched(query, held, n))
<1> DEFINE D == 0..Len(query)
           one(k) == IF HasMatchingFrame("videolike", query[k], held) THEN 1 ELSE 0
           f == MatchedSoFar(query, held)
           g == [k \in D |-> Cardinality(Matched(query, held, k))]
<1>1. Cardinality(Matched(query, held, 0)) = 0
  BY FS_EmptySet, Matched(query, held, 0) = {} DEF Matched
<1>2. \A k \in D \ {0} : k - 1 \in D /\ k \in Nat /\ g[k] = g[k - 1] + one(k)
  BY MatchedGrows
<1>3. g = [k \in D |-> IF k = 0 THEN 0 ELSE g[k - 1] + one(k)]
  <2>1. \A k \in D : g[k] = IF k = 0 THEN 0 ELSE g[k - 1] + one(k) BY <1>1, <1>2
  <2> QED BY <2>1
<1>4. f = [k \in D |-> IF k = 0 THEN 0 ELSE f[k - 1] + one(k)]
  <2>1. \E h : h = [k \in D |-> IF k = 0 THEN 0 ELSE h[k - 1] + one(k)] BY <1>3
  <2> QED BY <2>1 DEF MatchedSoFar
<1> HIDE DEF f, g
<1>5. \A k \in D : f[k] = IF k = 0 THEN 0 ELSE f[k - 1] + one(k) BY <1>4
<1>6. \A k \in D : g[k] = IF k = 0 THEN 0 ELSE g[k - 1] + one(k) BY <1>3
<1>7. \A k \in D : f[k] = g[k]
  <2> SUFFICES ASSUME {k \in D : f[k] # g[k]} # {} PROVE FALSE OBVIOUS
  <2>1. PICK k \in D : f[k] # g[k] /\ \A j \in D : f[j] # g[j] => k <= j
    <3>1. {k \in D : f[k] # g[k]} \in SUBSET Nat OBVIOUS
    <3> QED BY <3>1, LeastElement
  <2>2. k # 0 BY <1>5, <1>6, <2>1
  <2>3. k - 1 \in D /\ ~(k <= k - 1) BY <2>2
  <2>4. f[k - 1] = g[k - 1] BY <2>1, <2>3
  <2> QED BY <1>5, <1>6, <2>1, <2>2, <2>4
<1> QED BY <1>7 DEF f, g

-----------------------------------------------------------------------------
(* The rule of the clip matcher.                                           *)

LEMMA TimesGrows ==
  ASSUME NEW a \in Int, NEW b \in Int, NEW d \in Nat, a <= b
  PROVE  a * d <= b * d
OBVIOUS

\* A ratio rounded up is met by the numbers that meet the ratio.
LEMMA RoundedUp ==
  ASSUME NEW x \in Nat, NEW d \in Nat \ {0}, NEW m \in Nat
  PROVE  /\ (x + d - 1) \div d \in Nat
         /\ (x + d - 1) \div d <= m <=> x <= m * d
<1> DEFINE q == (x + d - 1) \div d
<1>1. q \in Int /\ d * q <= x + d - 1 /\ x + d - 1 < d * (q + 1) OBVIOUS
<1>2. q \in Nat OBVIOUS
<1> HIDE DEF q
<1>3. ASSUME q <= m PROVE x <= m * d
  <2>1. q * d <= m * d BY <1>1, <1>3, TimesGrows
  <2>2. x <= q * d BY <1>1
  <2> QED BY <1>1, <2>1, <2>2
<1>4. ASSUME x <= m * d, ~(q <= m) PROVE FALSE
  <2>1. (m + 1) * d <= q * d BY <1>1, <1>4, TimesGrows
  <2>2. (m + 1) * d = m * d + d OBVIOUS
  <2> QED BY <1>1, <1>4, <2>1, <2>2
<1> QED BY <1>2, <1>3, <1>4 DEF q

Shorter(m, n) == IF m < n THEN m ELSE n

LEMMA RequiredMet ==
  ASSUME NEW m \in Nat, NEW n \in Nat, NEW k \in Nat,
         NEW r \in [frames : Nat, num : Nat, den : Nat], RuleAccepted(r)
  PROVE  /\ RequiredFrames(m, n, r) \in Nat /\ RequiredFrames(m, n, r) >= r.frames
         /\ RequiredFrames(m, n, r) <= k <=> r.frames <= k /\ r.num * Shorter(m, n) <= k * r.den
<1> DEFINE x == r.num * Shorter(m, n)
<1>1. /\ r.frames \in Nat /\ r.num \in Nat /\ r.den \in Nat \ {0} /\ Shorter(m, n) \in Nat
  BY DEF RuleAccepted, Shorter
<1>2. x \in Nat BY <1>1
<1> HIDE DEF x
<1> DEFINE byRatio == (x + r.den - 1) \div r.den
<1>3. byRatio \in Nat /\ (byRatio <= k <=> x <= k * r.den) BY <1>1, <1>2, RoundedUp
<1>4. RequiredFrames(m, n, r) = IF r.frames > byRatio THEN r.frames ELSE byRatio
  BY DEF RequiredFrames, Shorter, x
<1> HIDE DEF byRatio
<1> QED BY <1>1, <1>3, <1>4 DEF x

\* The loop, with its success before the end and its giving up, decides the
\* rule: both clips have the minimum of frames, and so many frames of the
\* query match that they meet the minimum and the ratio of the shorter clip.
THEOREM LoopDecidesRule ==
  ASSUME NEW query, NEW held, Len(query) \in Nat, Len(held) \in Nat, DOMAIN query = 1..Len(query)
  PROVE  ClipsMatch(query, held) <=>
           LongEnough(query) /\ LongEnough(held) /\ EnoughFrames("videolike", query, held)
<1> DEFINE r == Rule["videolike"]
           q == Len(query)
           l == Len(held)
           need == RequiredFrames(q, l, r)
           count(n) == Cardinality(Matched(query, held, n))
<1>1. r \in [frames : Nat, num : Nat, den : Nat] /\ RuleAccepted(r)
  BY ConstantsAssumption DEF ConfigAccepted
<1>2. /\ r.frames \in Nat \ {0} /\ r.num \in Nat /\ r.den \in Nat \ {0} /\ r.num <= r.den
      /\ q \in Nat /\ l \in Nat
  BY <1>1 DEF RuleAccepted
<1>3. \A n \in 0..q : count(n) \in Nat /\ count(n) <= n
  BY <1>2, MatchedFinite
<1>4. /\ need \in Nat /\ need >= r.frames
      /\ \A k \in Nat : need <= k <=> r.frames <= k /\ r.num * Shorter(q, l) <= k * r.den
  BY <1>1, <1>2, RequiredMet
<1>5. ClipsMatch(query, held) <=>
        /\ q >= need /\ l >= need
        /\ \E n \in 1..q : count(n) >= need /\ \A k \in 1..(n - 1) : count(k) + (q - k) >= need
  <2>1. \A n \in 1..q : MatchedSoFar(query, held)[n] = count(n)
    BY <1>2, LoopCounts
  <2>2. \A n \in 1..q : \A k \in 1..(n - 1) : MatchedSoFar(query, held)[k] = count(k)
    BY <1>2, <2>1
  <2> HIDE DEF count
  <2> QED BY <2>1, <2>2 DEF ClipsMatch
<1>6. EnoughFrames("videolike", query, held) <=>
        count(q) >= r.frames /\ \E size \in {q, l} : count(q) * r.den >= r.num * size
  <2>1. {n \in DOMAIN query : HasMatchingFrame("videolike", query[n], held)}
          = Matched(query, held, q)
    BY DEF Matched
  <2> QED BY <2>1 DEF EnoughFrames
<1>7. ASSUME NEW n \in 0..q PROVE count(n) <= count(q) /\ count(q) <= count(n) + (q - n)
  <2>1. n \in Nat /\ q \in Nat /\ n <= q BY <1>2
  <2>2. /\ IsFiniteSet(Matched(query, held, q)) /\ IsFiniteSet(Matched(query, held, n))
        /\ IsFiniteSet((n + 1)..q) /\ Cardinality((n + 1)..q) = q - n
    <3>1. IsFiniteSet((n + 1)..q) /\ Cardinality((n + 1)..q) = IF n + 1 > q THEN 0 ELSE q - (n + 1) + 1
      <4> HIDE DEF q
      <4>1. n + 1 \in Int /\ q \in Int BY <2>1
      <4> QED BY <4>1, FS_Interval, Zenon
    <3> QED BY <2>1, <3>1, MatchedFinite
  <2>3. Matched(query, held, n) \in SUBSET Matched(query, held, q) BY <2>1 DEF Matched
  <2>4. count(n) <= count(q) BY <2>2, <2>3, FS_Subset
  <2> DEFINE all == Matched(query, held, n) \cup ((n + 1)..q)
             common == Matched(query, held, n) \cap ((n + 1)..q)
  <2>5. Matched(query, held, q) \in SUBSET all BY <2>1 DEF Matched
  <2>6. IsFiniteSet(all) /\ Cardinality(all) = count(n) + (q - n) - Cardinality(common)
    BY <2>2, FS_Union
  <2>7. Cardinality(common) \in Nat BY <2>2, FS_Intersection, FS_CardinalityType
  <2>8. count(q) <= Cardinality(all) BY <2>5, <2>6, FS_Subset
  <2>9. count(n) \in Nat /\ count(q) \in Nat BY <1>2, <1>3
  <2> HIDE DEF all, common, count
  <2> QED BY <2>1, <2>4, <2>6, <2>7, <2>8, <2>9
<1>8. count(q) \in Nat /\ count(q) <= q BY <1>2, <1>3
<1> HIDE DEF count, need, r, q, l
<1>9. ASSUME q >= need, l >= need, NEW n \in 1..q, count(n) >= need
      PROVE  /\ r.frames <= q /\ r.frames <= l /\ count(q) >= r.frames
             /\ \E size \in {q, l} : count(q) * r.den >= r.num * size
  <2>1. need <= count(q)
    <3>1. n \in 0..q /\ count(n) \in Nat BY <1>2, <1>3
    <3> QED BY <1>4, <1>7, <1>8, <1>9, <3>1
  <2>2. r.num * Shorter(q, l) <= count(q) * r.den /\ r.frames <= count(q)
    BY <1>4, <1>8, <2>1
  <2>3. Shorter(q, l) \in {q, l} BY DEF Shorter
  <2>4. count(q) * r.den >= r.num * Shorter(q, l)
    <3>1. Shorter(q, l) \in Nat BY <1>2 DEF Shorter
    <3> QED BY <1>2, <1>8, <2>2, <3>1
  <2> QED BY <1>2, <1>4, <1>9, <2>2, <2>3, <2>4
<1>10. ASSUME r.frames <= q, r.frames <= l, count(q) >= r.frames,
              NEW size \in {q, l}, count(q) * r.den >= r.num * size
       PROVE  /\ q >= need /\ l >= need
              /\ \E n \in 1..q : count(n) >= need /\ \A k \in 1..(n - 1) : count(k) + (q - k) >= need
  <2>1. Shorter(q, l) \in Nat /\ Shorter(q, l) <= size /\ Shorter(q, l) <= l
    BY <1>2 DEF Shorter
  <2>2. r.num * Shorter(q, l) <= count(q) * r.den
    <3>1. size \in Nat BY <1>2
    <3>2. \A a, b \in Nat : a <= b => r.num * a <= r.num * b BY <1>2, TimesGrows
    <3>3. r.num * Shorter(q, l) <= r.num * size BY <2>1, <3>1, <3>2
    <3>4. r.num * Shorter(q, l) \in Nat /\ r.num * size \in Nat /\ count(q) * r.den \in Nat
      <4>1. \A a, b \in Nat : a * b \in Nat OBVIOUS
      <4> QED BY <1>2, <1>8, <2>1, <3>1, <4>1
    <3> QED BY <1>10, <3>3, <3>4
  <2>3. need <= count(q) BY <1>4, <1>8, <1>10, <2>2
  <2>4. need <= l
    <3>1. r.num * Shorter(q, l) <= r.den * Shorter(q, l) BY <1>2, <2>1, TimesGrows
    <3>2. r.den * Shorter(q, l) <= l * r.den BY <1>2, <2>1, TimesGrows, SMTT(30)
    <3>3. r.num * Shorter(q, l) <= l * r.den
      <4>1. /\ r.num * Shorter(q, l) \in Nat /\ r.den * Shorter(q, l) \in Nat
            /\ l * r.den \in Nat
        BY <1>2, <2>1, SMTT(30)
      <4> QED BY <3>1, <3>2, <4>1
    <3> QED BY <1>2, <1>4, <1>10, <3>3
  <2>5. q \in 1..q BY <1>2, <1>10
  <2>6. \A k \in 1..(q - 1) : count(k) + (q - k) >= need
    <3> TAKE k \in 1..(q - 1)
    <3>1. k \in 0..q /\ k \in Nat BY <1>2
    <3>2. count(k) \in Nat BY <1>3, <3>1
    <3> QED BY <1>2, <1>4, <1>7, <1>8, <2>3, <3>1, <3>2
  <2> QED BY <1>2, <1>4, <1>8, <2>3, <2>4, <2>5, <2>6
<1> QED BY <1>5, <1>6, <1>9, <1>10 DEF LongEnough, r, q, l

-----------------------------------------------------------------------------
(* From the upload to the comparison.                                      *)

\* The frames of a clip are a sequence.
LEMMA ClipTyped ==
  ASSUME NEW u \in Uploads
  PROVE  /\ u.shots \in Seq(Frame)
         /\ ClipFrames(u) \in Seq(Frame) /\ Len(ClipFrames(u)) \in Nat
         /\ DOMAIN ClipFrames(u) = 1..Len(ClipFrames(u))
<1>1. u.shots \in Seq(Frame) /\ MaxFrames \in 1..20
  BY ConstantsAssumption DEF Upload, ConfigAccepted, MediaAccepted
<1>2. ASSUME NEW n \in 0..Len(u.shots) PROVE SubSeq(u.shots, 1, n) \in Seq(Frame)
  BY <1>1, <1>2
<1>3. (IF Len(u.shots) > MaxFrames THEN MaxFrames ELSE Len(u.shots)) \in 0..Len(u.shots)
  BY <1>1
<1>4. ClipFrames(u) \in Seq(Frame) BY <1>2, <1>3 DEF ClipFrames
<1> QED BY <1>1, <1>4

\* A matcher answers by its rule.
LEMMA MatchIsSimilar ==
  ASSUME NEW h, NEW u \in Uploads, NEW v \in Uploads, Matches(h, Extract(h, u), Extract(h, v))
  PROVE  Similar(h, Extract(h, u), Extract(h, v))
<1>1. CASE h = "videolike"
  <2>1. Extract(h, u) = ClipFrames(u) /\ Extract(h, v) = ClipFrames(v) BY <1>1 DEF Extract
  <2>2. ClipsMatch(ClipFrames(u), ClipFrames(v)) BY <1>1, <2>1 DEF Matches
  <2> QED BY <1>1, <2>1, <2>2, ClipTyped, LoopDecidesRule DEF Similar
<1>2. CASE h = "imagehash"
  BY <1>2 DEF Matches, Similar, WithinThreshold, HasMatchingFrame
<1>3. CASE h = "exact" \/ h = "aivector"
  BY <1>3 DEF Matches, Similar
<1> QED BY <1>1, <1>2, <1>3 DEF Matches

\* What should be recognised is recognised by a matcher of the bot that takes
\* both contents.
LEMMA RecognisableMatches ==
  ASSUME NEW u \in Uploads, NEW v \in Uploads, Recognisable(u, v)
  PROVE  \E h \in Local :
           Takes(h, u) /\ Takes(h, v) /\ Matches(h, Extract(h, u), Extract(h, v))
<1>1. {"exact", "imagehash", "videolike"} \subseteq Local
  BY ConstantsAssumption DEF Local
<1>2. CASE u.file = v.file
  <2>1. Takes("exact", u) /\ Takes("exact", v) BY DEF Takes
  <2>2. Matches("exact", Extract("exact", u), Extract("exact", v))
    BY <1>2 DEF Matches, Extract
  <2> QED BY <1>1, <2>1, <2>2
<1>3. CASE SamePicture(u, v)
  <2>1. ImageHashTakes(u) /\ ImageHashTakes(v) BY <1>3 DEF SamePicture
  <2>2. 1 \in DOMAIN u.shots
    <3>1. u.shots # <<>> BY <2>1 DEF ImageHashTakes, ImageHashFails, Decodes
    <3> QED BY <3>1, ClipTyped
  <2>3. WithinThreshold(u.shots, v.shots) BY <1>3, <2>2 DEF SamePicture, WithinThreshold
  <2>4. Extract("imagehash", u) = u.shots /\ Extract("imagehash", v) = v.shots
    BY DEF Extract
  <2>5. Matches("imagehash", Extract("imagehash", u), Extract("imagehash", v))
    BY <2>3, <2>4 DEF Matches
  <2>6. Takes("imagehash", u) /\ Takes("imagehash", v) BY <2>1 DEF Takes
  <2> QED BY <1>1, <2>5, <2>6
<1>4. CASE SameClip(u, v)
  <2>1. ClipsMatch(ClipFrames(u), ClipFrames(v))
    BY <1>4, ClipTyped, LoopDecidesRule DEF SameClip
  <2>2. Extract("videolike", u) = ClipFrames(u) /\ Extract("videolike", v) = ClipFrames(v)
    BY DEF Extract
  <2>3. Matches("videolike", Extract("videolike", u), Extract("videolike", v))
    BY <2>1, <2>2 DEF Matches
  <2>4. Takes("videolike", u) /\ Takes("videolike", v) BY <1>4 DEF SameClip, Takes
  <2> QED BY <1>1, <2>3, <2>4
<1> QED BY <1>2, <1>3, <1>4 DEF Recognisable

\* A hash is near itself.
LEMMA NearItself ==
  ASSUME NEW h \in {"imagehash", "videolike"}, NEW f
  PROVE  Near(h, f, f)
<1>1. (f \ f) \cup (f \ f) = {} OBVIOUS
<1>2. Distance(f, f) = 0 BY <1>1, FS_EmptySet DEF Distance
<1>3. Threshold[h] >= 0 BY ConstantsAssumption DEF ConfigAccepted
<1> QED BY <1>2, <1>3 DEF Near

\* A ban recognises what was banned, by each matcher of the bot that takes
\* it.  One exception is in the code: a clip of fewer frames than the minimum
\* is stored, but matches nothing, not even itself.
THEOREM BanRecognisesItself ==
  ASSUME NEW h \in Local, NEW u \in Uploads, Takes(h, u)
  PROVE  Matches(h, Extract(h, u), Extract(h, u))
           <=> (h = "videolike" => LongEnough(ClipFrames(u)))
<1>1. h \in {"exact", "imagehash", "videolike"}
  BY ConstantsAssumption DEF Local, HandlerSet
<1>2. CASE h = "exact" BY <1>2 DEF Matches
<1>3. CASE h = "imagehash"
  <2>1. u.shots # <<>> BY <1>3 DEF Takes, ImageHashTakes, ImageHashFails, Decodes
  <2>2. 1 \in DOMAIN u.shots BY <2>1, ClipTyped
  <2>3. WithinThreshold(u.shots, u.shots)
    <3>1. Near("imagehash", u.shots[1], u.shots[1]) BY NearItself
    <3> QED BY <2>2, <3>1 DEF WithinThreshold
  <2>4. Extract(h, u) = u.shots BY <1>3 DEF Extract
  <2> QED BY <1>3, <2>3, <2>4 DEF Matches
<1>4. CASE h = "videolike"
  <2> DEFINE clip == ClipFrames(u)
             r == Rule["videolike"]
             same == {n \in DOMAIN clip : HasMatchingFrame("videolike", clip[n], clip)}
  <2>1. Len(clip) \in Nat /\ DOMAIN clip = 1..Len(clip) BY ClipTyped
  <2>2. Extract(h, u) = clip BY <1>4 DEF Extract
  <2>3. Matches(h, clip, clip) <=> LongEnough(clip) /\ EnoughFrames("videolike", clip, clip)
    BY <1>4, <2>1, LoopDecidesRule DEF Matches
  <2>4. same = 1..Len(clip)
    <3>1. \A n \in DOMAIN clip : HasMatchingFrame("videolike", clip[n], clip)
      BY NearItself DEF HasMatchingFrame
    <3> QED BY <2>1, <3>1
  <2>5. Cardinality(same) = Len(clip)
    <3> HIDE DEF clip, same
    <3>1. \A n \in Nat : Cardinality(1..n) = n BY FS_Interval
    <3> QED BY <2>1, <2>4, <3>1
  <2>6. r \in [frames : Nat, num : Nat, den : Nat] /\ r.num <= r.den
    BY ConstantsAssumption DEF ConfigAccepted, RuleAccepted
  <2> HIDE DEF clip, same
  <2>7. r.num * Len(clip) <= r.den * Len(clip) BY <2>1, <2>6, TimesGrows
  <2>8. r.den * Len(clip) = Len(clip) * r.den BY <2>1, <2>6
  <2>9. LongEnough(clip) => EnoughFrames("videolike", clip, clip)
    BY <2>1, <2>5, <2>7, <2>8 DEF LongEnough, EnoughFrames, same
  <2> QED BY <1>4, <2>2, <2>3, <2>9 DEF clip
<1> QED BY <1>1, <1>2, <1>3, <1>4

-----------------------------------------------------------------------------
(* Verdicts.                                                               *)

\* No step takes an artifact out of a table.
LEMMA TablesOnlyGrow ==
  ASSUME MatchingInvariant, [Next]_vars
  PROVE  \A h \in HandlerSet : rows[h] \subseteq rows'[h]
<1>1. TypeOK BY DEF MatchingInvariant
<1>2. ASSUME NEW hs, NEW c \in Chats, NEW u \in Uploads, rows' = Inserted(hs, c, u)
      PROVE  \A h \in HandlerSet : rows[h] \subseteq rows'[h]
  <2>1. \A h \in HandlerSet : Inserted(hs, c, u)[h] = Grown(hs, c, u, h)
    BY <1>1, InsertedIsUnion
  <2> QED BY <1>2, <2>1 DEF Grown
<1>3. ASSUME NEW w \in Workers, WorkerStep(w) PROVE \A h \in HandlerSet : rows[h] \subseteq rows'[h]
  <2>1. CASE CommitBan(w)
    <3>1. ChatOf(w) \in Chats /\ UploadOf(w) \in Uploads
      BY <1>1, <2>1, JobParts DEF CommitBan
    <3> QED BY <1>2, <2>1, <3>1 DEF CommitBan
  <2>2. CASE ~CommitBan(w)
    <3>1. UNCHANGED rows
      BY <1>3, <2>2 DEF WorkerStep, StartCheck, PrepareBan, HandlerRefuses, HandlerMatches,
         HandlerMatchesNot, HandlerFails, CallFails, ApplyBlock, stored
    <3> QED BY <3>1
  <2> QED BY <2>1, <2>2
<1>4. ASSUME NEW c \in Chats, NEW u \in Uploads, BanElsewhere(c, u)
      PROVE  \A h \in HandlerSet : rows[h] \subseteq rows'[h]
  BY <1>2, <1>4 DEF BanElsewhere
<1>5. CASE UNCHANGED rows BY <1>5
<1> QED BY <1>3, <1>4, <1>5 DEF Next, ApplyEvent, RestartBot, RestartService, vars, stored

\* A worker stands still while another one takes a step.
Stands(v) ==
  pc'[v] = pc[v] /\ job'[v] = job[v] /\ at'[v] = at[v] /\ due'[v] = due[v]

LEMMA OthersStand ==
  ASSUME TypeOK, NEW w \in Workers, WorkerStep(w), NEW v \in Workers \ {w}
  PROVE  Stands(v)
<1> USE DEF TypeOK, Stands
<1>1. ASSUME NEW answer, Return(w, answer) PROVE Stands(v) BY <1>1 DEF Return
<1>2. CASE HandlerRefuses(w) \/ HandlerMatchesNot(w)
  BY <1>1, <1>2 DEF HandlerRefuses, HandlerMatchesNot, GoOn
<1>3. CASE HandlerMatches(w) \/ HandlerFails(w) \/ CallFails(w)
  BY <1>1, <1>3 DEF HandlerMatches, HandlerFails, CallFails
<1>4. ASSUME NEW c \in Chats, NEW u \in Uploads, StartCheck(w, c, u) \/ PrepareBan(w, c, u)
      PROVE  Stands(v)
  BY <1>4 DEF StartCheck, PrepareBan, Begin
<1>5. CASE CommitBan(w) BY <1>5 DEF CommitBan
<1>6. CASE ApplyBlock(w) BY <1>1, <1>6 DEF ApplyBlock
<1> QED BY <1>2, <1>3, <1>4, <1>5, <1>6 DEF WorkerStep

\* What a verdict "blocked" rests on.
Founded(w) ==
  \E h \in HandlerSet : \E a \in rows[h] :
    Takes(h, UploadOf(w)) /\ a.chat = ChatOf(w) /\ Similar(h, Extract(h, UploadOf(w)), a.key)

\* The matcher that answered has found a stored artifact of the chat.
LEMMA MatchIsFounded ==
  ASSUME MatchingInvariant, NEW w \in Workers, HandlerMatches(w)
  PROVE  Founded(w)
<1>1. TypeOK /\ pc[w] = "check" BY DEF MatchingInvariant, HandlerMatches
<1>2. UploadOf(w) \in Uploads /\ HandlerAt(w) \in HandlerSet
  BY <1>1, JobParts, HandlerFacts DEF TypeOK, HandlerAt
<1> DEFINE h == HandlerAt(w)
           u == UploadOf(w)
<1>3. PICK a \in index[h] : a.chat = ChatOf(w) /\ Matches(h, Extract(h, u), a.key)
  BY DEF HandlerMatches, Hits
<1>4. a \in rows[h] /\ a \in Artifacts(h)
  BY <1>1, <1>2 DEF MatchingInvariant, IndexBacked, TypeOK
<1>5. PICK v \in Uploads : a.key = Extract(h, v)
  BY <1>4 DEF Artifacts, Artifact
<1>6. Similar(h, Extract(h, u), a.key)
  <2>1. u \in Uploads BY <1>2
  <2> HIDE DEF h, u
  <2> QED BY <2>1, <1>3, <1>5, MatchIsSimilar
<1>7. Takes(h, u) BY DEF HandlerMatches
<1> QED BY <1>2, <1>3, <1>4, <1>6, <1>7 DEF Founded

LEMMA FoundedStays ==
  ASSUME MatchingInvariant, [Next]_vars, NEW w \in Workers, Founded(w), job'[w] = job[w]
  PROVE  Founded(w)'
<1>0. PICK h \in HandlerSet : \E a \in rows[h] :
        Takes(h, UploadOf(w)) /\ a.chat = ChatOf(w) /\ Similar(h, Extract(h, UploadOf(w)), a.key)
  BY DEF Founded
<1>1. PICK a \in rows[h] :
        Takes(h, UploadOf(w)) /\ a.chat = ChatOf(w) /\ Similar(h, Extract(h, UploadOf(w)), a.key)
  BY <1>0
<1>2. a \in rows'[h] /\ UploadOf(w)' = UploadOf(w) /\ ChatOf(w)' = ChatOf(w)
  BY TablesOnlyGrow DEF UploadOf, ChatOf
<1> QED BY <1>1, <1>2 DEF Founded

LEMMA VerdictStep == MatchingInvariant /\ VerdictSound /\ [Next]_vars => VerdictSound'
<1> SUFFICES ASSUME MatchingInvariant, VerdictSound, [Next]_vars,
                    NEW w \in Workers, pc'[w] = "blocked"
             PROVE  Founded(w)'
  BY DEF VerdictSound, Founded
<1>1. TypeOK BY DEF MatchingInvariant
<1>2. CASE WorkerStep(w) /\ ~HandlerMatches(w)
  <2>1. pc[w] \in {"check", "commit", "apply"} => pc'[w] # "blocked"
    BY <1>1, <1>2 DEF WorkerStep, StartCheck, PrepareBan, Begin, HandlerRefuses, HandlerMatchesNot,
       GoOn, Return, HandlerFails, CallFails, CommitBan, ApplyBlock, TypeOK
  <2>2. Resting(w) => pc'[w] # "blocked"
    BY <1>1, <1>2 DEF WorkerStep, StartCheck, PrepareBan, Begin, HandlerRefuses, HandlerMatchesNot,
       HandlerFails, CallFails, CommitBan, ApplyBlock, TypeOK, Resting
  <2> QED BY <1>1, <2>1, <2>2 DEF TypeOK, Resting
<1>3. CASE HandlerMatches(w)
  <2>1. job'[w] = job[w] BY <1>1, <1>3 DEF HandlerMatches, Return, TypeOK
  <2> QED BY <1>3, <2>1, MatchIsFounded, FoundedStays
<1>4. CASE pc[w] = "blocked" /\ job'[w] = job[w]
  <2>1. Founded(w) BY <1>4 DEF VerdictSound, Founded
  <2> QED BY <1>4, <2>1, FoundedStays
<1>5. ASSUME NEW v \in Workers \ {w}, WorkerStep(v) PROVE Founded(w)'
  <2>1. Stands(w) BY <1>1, <1>5, OthersStand
  <2> QED BY <1>4, <2>1 DEF Stands
<1>6. CASE RestartBot
  <2>1. FALSE BY <1>6 DEF RestartBot
  <2> QED BY <2>1
<1>7. CASE UNCHANGED call BY <1>4, <1>7 DEF call
<1> QED BY <1>2, <1>3, <1>5, <1>6, <1>7 DEF Next, BanElsewhere, ApplyEvent, RestartService, vars

\* Nothing is removed by mistake: whatever is judged blocked is similar, by a
\* matcher that supports it, to something banned in the same chat.
THEOREM VerdictsAreSound == Spec => []VerdictSound
<1>1. Init => VerdictSound BY DEF Init, VerdictSound
<1> QED BY <1>1, VerdictStep, MatchingInvariantHolds, PTL DEF Spec

\* The upload of a worker stays recognisable by a handler it has not asked.
LEMMA HitAheadStays ==
  ASSUME MatchingInvariant, [Next]_vars, NEW w \in Workers, HitAhead(w), Stands(w)
  PROVE  HitAhead(w)'
<1>1. PICK n \in at[w]..Len(Handlers) :
        /\ Handlers[n] \in Local
        /\ Takes(Handlers[n], UploadOf(w)) /\ Hits(Handlers[n], ChatOf(w), UploadOf(w))
  BY DEF HitAhead
<1>2. UploadOf(w)' = UploadOf(w) /\ ChatOf(w)' = ChatOf(w) /\ at'[w] = at[w]
  BY DEF Stands, UploadOf, ChatOf
<1>3. index[Handlers[n]] \subseteq index'[Handlers[n]]
  BY <1>1, IndexesOnlyGrow DEF Local
<1>4. Hits(Handlers[n], ChatOf(w), UploadOf(w))' BY <1>1, <1>2, <1>3 DEF Hits
<1> QED BY <1>1, <1>2, <1>4 DEF HitAhead

\* A check that must recognise its upload begins before the handler that will.
LEMMA StartCheckSeesHit ==
  ASSUME MatchingInvariant, NEW w \in Workers, NEW c \in Chats, NEW u \in Uploads,
         StartCheck(w, c, u), due'[w]
  PROVE  pc'[w] = "check" /\ HitAhead(w)'
<1>1. TypeOK BY DEF MatchingInvariant
<1>2. /\ pc'[w] = "check" /\ job'[w] = <<c, u>> /\ at'[w] = at[w] /\ UNCHANGED index
      /\ \E b \in answered : b[1] = c /\ Recognisable(u, b[2])
  BY <1>1 DEF StartCheck, Begin, TypeOK, stored
<1>3. at[w] = 1
  BY DEF StartCheck, Begin, Resting, MatchingInvariant, NotYetApplied
<1>4. PICK b \in answered : b[1] = c /\ Recognisable(u, b[2]) BY <1>2
<1>5. b[2] \in Uploads BY <1>1, <1>4 DEF TypeOK, Jobs
<1>6. PICK h \in Local :
        Takes(h, u) /\ Takes(h, b[2]) /\ Matches(h, Extract(h, u), Extract(h, b[2]))
  BY <1>4, <1>5, RecognisableMatches
<1>7. Artifact(h, c, b[2]) \in index[h]
  BY <1>4, <1>6 DEF MatchingInvariant, AnsweredIsIndexed
<1>8. Artifact(h, c, b[2]).chat = c /\ Artifact(h, c, b[2]).key = Extract(h, b[2])
  BY DEF Artifact
<1>9. Hits(h, c, u)'
  <2>1. Hits(h, c, u) BY <1>6, <1>7, <1>8 DEF Hits
  <2> QED BY <1>2, <2>1 DEF Hits
<1>10. PICK n \in 1..Len(Handlers) : h = Handlers[n]
  BY <1>6, ConstantsAssumption DEF Local, HandlerSet
<1>11. ChatOf(w)' = c /\ UploadOf(w)' = u BY <1>2 DEF ChatOf, UploadOf
<1> QED BY <1>2, <1>3, <1>6, <1>9, <1>10, <1>11 DEF HitAhead

\* A handler that lets the check go on was not the one that recognises.
LEMMA GoOnKeepsHit ==
  ASSUME MatchingInvariant, NEW w \in Workers, HandlerRefuses(w) \/ HandlerMatchesNot(w),
         HitAhead(w)
  PROVE  pc'[w] = "check" /\ HitAhead(w)'
<1>1. TypeOK /\ pc[w] = "check" /\ GoOn(w) /\ UNCHANGED index
  BY DEF MatchingInvariant, HandlerRefuses, HandlerMatchesNot, stored
<1>2. PICK n \in at[w]..Len(Handlers) :
        /\ Handlers[n] \in Local
        /\ Takes(Handlers[n], UploadOf(w)) /\ Hits(Handlers[n], ChatOf(w), UploadOf(w))
  BY DEF HitAhead
<1>3. n # at[w]
  <2>1. ASSUME n = at[w] PROVE HandlerAt(w) = Handlers[n] BY <2>1 DEF HandlerAt
  <2> QED BY <1>2, <2>1 DEF HandlerRefuses, HandlerMatchesNot, Local
<1>4. at[w] \in Nat /\ Len(Handlers) \in Nat BY <1>1, HandlerFacts DEF TypeOK
<1>5. at[w] < Len(Handlers) /\ n \in (at[w] + 1)..Len(Handlers) BY <1>2, <1>3, <1>4
<1>6. at'[w] = at[w] + 1 /\ UNCHANGED <<pc, job>> BY <1>1, <1>5 DEF GoOn, TypeOK
<1>7. ChatOf(w)' = ChatOf(w) /\ UploadOf(w)' = UploadOf(w) BY <1>6 DEF ChatOf, UploadOf
<1>8. Hits(Handlers[n], ChatOf(w), UploadOf(w))' BY <1>1, <1>2, <1>7 DEF Hits
<1> QED BY <1>1, <1>2, <1>5, <1>6, <1>7, <1>8 DEF HitAhead

\* Whatever ends a call, only the answer "clean" leaves the mark; and no
\* check with a hit ahead ends with it.
LEMMA DueStep == MatchingInvariant /\ DueIsAhead /\ [Next]_vars => DueIsAhead'
<1> SUFFICES ASSUME MatchingInvariant, DueIsAhead, [Next]_vars, NEW w \in Workers, due'[w]
             PROVE  pc'[w] = "check" /\ HitAhead(w)'
  BY DEF DueIsAhead
<1>1. TypeOK BY DEF MatchingInvariant
<1>2. ASSUME Stands(w) PROVE pc'[w] = "check" /\ HitAhead(w)'
  <2>1. due[w] /\ pc'[w] = pc[w] BY <1>2 DEF Stands
  <2>2. pc[w] = "check" /\ HitAhead(w) BY <2>1 DEF DueIsAhead
  <2> QED BY <1>2, <2>1, <2>2, HitAheadStays
<1>3. ASSUME NEW c \in Chats, NEW u \in Uploads, StartCheck(w, c, u) \/ PrepareBan(w, c, u)
      PROVE  pc'[w] = "check" /\ HitAhead(w)'
  <2>1. ~PrepareBan(w, c, u)
    <3>1. ASSUME PrepareBan(w, c, u) PROVE due'[w] = FALSE BY <1>1, <3>1 DEF PrepareBan, TypeOK
    <3> QED BY <3>1
  <2> QED BY <1>3, <2>1, StartCheckSeesHit
<1>4. ASSUME HandlerRefuses(w) \/ HandlerMatchesNot(w) PROVE pc'[w] = "check" /\ HitAhead(w)'
  <2>1. due[w]
    BY <1>1, <1>4 DEF HandlerRefuses, HandlerMatchesNot, GoOn, Return, TypeOK
  <2> QED BY <1>4, <2>1, GoOnKeepsHit DEF DueIsAhead
<1>5. ASSUME NEW answer \in {"idle", "blocked"} PROVE ~Return(w, answer)
  <2>1. ASSUME Return(w, answer) PROVE due'[w] = FALSE
    <3>1. answer # "clean" OBVIOUS
    <3>2. due' = [due EXCEPT ![w] = FALSE] BY <2>1, <3>1 DEF Return
    <3> QED BY <1>1, <3>2 DEF TypeOK
  <2> QED BY <2>1
<1>6. ~(HandlerMatches(w) \/ HandlerFails(w) \/ CallFails(w))
  BY <1>5 DEF HandlerMatches, HandlerFails, CallFails
<1>7. ASSUME CommitBan(w) \/ ApplyBlock(w) PROVE FALSE
  <2>1. due[w]
    BY <1>1, <1>5, <1>7 DEF CommitBan, ApplyBlock
  <2> QED BY <1>7, <2>1 DEF DueIsAhead, CommitBan, ApplyBlock
<1>8. CASE WorkerStep(w) BY <1>3, <1>4, <1>6, <1>7, <1>8 DEF WorkerStep
<1>9. ASSUME NEW v \in Workers \ {w}, WorkerStep(v) PROVE pc'[w] = "check" /\ HitAhead(w)'
  BY <1>1, <1>2, <1>9, OthersStand
<1>10. ~RestartBot
  <2>1. ASSUME RestartBot PROVE due'[w] = FALSE BY <2>1 DEF RestartBot
  <2> QED BY <2>1
<1>11. CASE UNCHANGED call BY <1>2, <1>11 DEF call, Stands
<1> QED BY <1>8, <1>9, <1>10, <1>11 DEF Next, BanElsewhere, ApplyEvent, RestartService, vars

\* Nothing slips through: no upload that was recognisable from an answered
\* ban when its check began is judged clean.
THEOREM RecognisableIsAlwaysCaught == Spec => []RecognisableIsCaught
<1>1. Init => DueIsAhead
  <2> SUFFICES ASSUME Init, NEW w \in Workers, due[w] PROVE FALSE BY DEF DueIsAhead
  <2> QED BY DEF Init
<1>2. DueIsAhead => RecognisableIsCaught BY DEF DueIsAhead, RecognisableIsCaught
<1> QED BY <1>1, <1>2, DueStep, MatchingInvariantHolds, PTL DEF Spec

-----------------------------------------------------------------------------
(* Each matcher implements ReplicatedBlacklist.                            *)

Compared(h) == [r \in {"bot"} |-> [i \in {h} |-> index[h]]]

\* An index that grows within its table enforces more of it.
LEMMA IndexGrowthRefines ==
  ASSUME MatchingInvariant, [Next]_vars, NEW h \in HandlerSet, UNCHANGED rows
  PROVE  Table(h)!Next
<1>1. index[h] \subseteq index'[h] BY IndexesOnlyGrow
<1>2. index'[h] \subseteq rows[h]
  BY MatchingInvariantStep DEF MatchingInvariant, IndexBacked
<1>3. index'[h] \in SUBSET {a \in rows[h] : h \in {h}} BY <1>2
<1>4. Compared(h)' = [Compared(h) EXCEPT !["bot"][h] = @ \cup index'[h]]
  BY <1>1 DEF Compared
<1>5. Table(h)!Enforce("bot", h) BY <1>3, <1>4 DEF Table!Enforce, Compared
<1> QED BY <1>5 DEF Table!Next

\* A command that commits adds one artifact to the tables it has prepared.
LEMMA TableGrowthRefines ==
  ASSUME TypeOK, NEW h \in HandlerSet, NEW hs, NEW c \in Chats, NEW u \in Uploads,
         rows' = Inserted(hs, c, u), UNCHANGED index
  PROVE  [Table(h)!Next]_(Table(h)!vars)
<1>1. rows'[h] = Grown(hs, c, u, h) BY InsertedIsUnion
<1>2. CASE h \in hs
  <2>1. Artifact(h, c, u) \in rows'[h] /\ rows'[h] = rows[h] \cup {Artifact(h, c, u)}
    BY <1>1, <1>2 DEF Grown
  <2>2. Artifact(h, c, u) \in Artifacts(h) BY ArtifactTyped
  <2>3. Table(h)!Commit BY <2>1, <2>2 DEF Table!Commit
  <2> QED BY <2>3 DEF Table!Next
<1>3. CASE h \notin hs
  BY <1>1, <1>3 DEF Grown, Table!vars
<1> QED BY <1>2, <1>3

\* What a matcher compares with is, for every matcher, a blacklist: durable
\* artifacts, an index that holds nothing but them and never drops one.
THEOREM MatchersKeepThePromise ==
  ASSUME NEW h \in HandlerSet
  PROVE  Spec => Table(h)!Spec
<1>1. Init => Table(h)!Init BY DEF Init, Table!Init
<1>2. MatchingInvariant /\ [Next]_vars => [Table(h)!Next]_(Table(h)!vars)
  <2> SUFFICES ASSUME MatchingInvariant, [Next]_vars PROVE [Table(h)!Next]_(Table(h)!vars)
    OBVIOUS
  <2>1. TypeOK BY DEF MatchingInvariant
  <2>2. ASSUME NEW w \in Workers, CommitBan(w) PROVE [Table(h)!Next]_(Table(h)!vars)
    <3>1. ChatOf(w) \in Chats /\ UploadOf(w) \in Uploads BY <2>1, <2>2, JobParts DEF CommitBan
    <3> QED BY <2>1, <2>2, <3>1, TableGrowthRefines DEF CommitBan
  <2>3. ASSUME NEW c \in Chats, NEW u \in Uploads, BanElsewhere(c, u)
        PROVE  [Table(h)!Next]_(Table(h)!vars)
    BY <2>1, <2>3, TableGrowthRefines DEF BanElsewhere
  <2>4. CASE UNCHANGED rows BY <2>4, IndexGrowthRefines
  <2> QED
    BY <2>2, <2>3, <2>4
    DEF Next, WorkerStep, StartCheck, PrepareBan, HandlerRefuses, HandlerMatches, HandlerMatchesNot,
        HandlerFails, CallFails, ApplyBlock, ApplyEvent, RestartBot, RestartService, vars, stored
<1> QED BY <1>1, <1>2, MatchingInvariantHolds, PTL DEF Spec, Table!Spec

=============================================================================
