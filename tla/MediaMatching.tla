--------------------------- MODULE MediaMatching ---------------------------
(***************************************************************************)
(* What the bot recognises: from an uploaded file through download,        *)
(* extraction and the four matchers to the verdict of IsBlocked, and from  *)
(* /ban to the artifacts the later verdicts are made of.                   *)
(*                                                                         *)
(* BlockOrchestrator asks its handlers in order.  Each one refuses a       *)
(* content it does not support, fails, or compares what it extracts with   *)
(* its index.  Workers check and ban concurrently, indexes learn bans of   *)
(* other replicas event by event, and processes restart and load their     *)
(* indexes anew.  How events find their way is the subject of IndexSync,   *)
(* how concurrent transactions meet that of BanTransaction: here a ban     *)
(* commits in one step, and any committed artifact may be learned.         *)
(***************************************************************************)
EXTENDS Integers, Sequences, FiniteSets

CONSTANTS
  Chats, Workers,
  Uploads,     \* the files that may be sent: see Upload below
  Handlers,    \* names of the handlers, in the order of buildMatchers
  Threshold,   \* per matcher: largest distance of two frames that are alike
  Rule,        \* per frame matcher: min_matched_frames, min_matched_ratio
  Limits,      \* sizes and durations of media_config, and of a download
  MaxFrames,   \* media_config.max_frames
  MaxFiles,    \* matching.ai_vector.max_files
  MaxBans,     \* bound: committed /ban commands
  MaxFaults    \* bound: failing calls and restarts of the bot or the service

\* shots are the perceptual hashes of what there is to see: of a picture its
\* four rotations, of a clip one frame per second.  Nothing to see means a
\* file that does not decode.
Frame == SUBSET Nat
Upload == [file : STRING, shots : Seq(Frame), seconds : Nat, bytes : Nat,
  kind : {"photo", "animation", "sticker", "video_sticker", "animated_sticker"}]

HandlerSet == {Handlers[n] : n \in DOMAIN Handlers}

\* The indexes in the memory of the bot; the fourth one is the service's.
Local == HandlerSet \ {"aivector"}

\* What Config.validate accepts.
RuleAccepted(r) == r.frames > 0 /\ r.num > 0 /\ r.den > 0 /\ r.num <= r.den
MediaAccepted ==
  /\ MaxFrames \in 1..20
  /\ \A l \in DOMAIN Limits : Limits[l] \in Nat \ {0}
AIVectorAccepted == MaxFiles > 0 /\ Threshold["aivector"] >= 0
ConfigAccepted ==
  /\ MediaAccepted /\ AIVectorAccepted
  /\ \A h \in {"videolike", "aivector"} : RuleAccepted(Rule[h])
  /\ Threshold["imagehash"] >= 0 /\ Threshold["videolike"] >= 0

ASSUME ConstantsAssumption ==
  /\ ConfigAccepted
  /\ Uploads \subseteq Upload /\ Uploads # {} /\ Chats # {}
  /\ Handlers \in Seq({"exact", "imagehash", "videolike", "aivector"})
  /\ {"exact", "imagehash", "videolike"} \subseteq HandlerSet
  /\ \A h \in {"videolike", "aivector"} : Rule[h] \in [frames : Nat, num : Nat, den : Nat]
  /\ MaxBans \in Nat /\ MaxFaults \in Nat

VARIABLES
  rows,     \* per handler: artifacts in its table
  index,    \* per handler: artifacts it compares with
  answered, \* history: <<chat, upload>> this bot has answered /ban for
  pc, job, at, \* per worker: its call, its <<chat, upload>>, the handler it is at
  prepared, \* per worker: handlers whose PrepareBlock took the upload
  due,      \* history, per worker: the upload was recognisable at the start
  bans, faults \* counters of the two bounds

stored == <<rows, index, answered>>
call == <<pc, job, at, prepared, due>>
bounds == <<bans, faults>>
vars == <<stored, call, bounds>>

-----------------------------------------------------------------------------
(* From the upload to frames.                                              *)

\* contentFromTelegram: a video sticker is a static sticker to the bot until
\* it is downloaded, and the duration of a sticker is not taken over.
TypeOf(u) ==
  CASE u.kind \in {"sticker", "video_sticker"} -> "sticker_static"
    [] u.kind = "animated_sticker" -> "sticker_animated"
    [] OTHER -> u.kind
DurationOf(u) == IF u.kind = "animation" THEN u.seconds ELSE 0

Downloadable(u) == u.bytes <= Limits.download
IsVideoFile(u) == u.kind \in {"animation", "video_sticker"}
Decodes(u) == u.shots # <<>>

\* ffmpeg writes one frame per second, at most MaxFrames of them.
ClipFrames(u) ==
  SubSeq(u.shots, 1, IF Len(u.shots) > MaxFrames THEN MaxFrames ELSE Len(u.shots))

AnimationAllowed(u) ==
  DurationOf(u) <= Limits.animationSeconds /\ u.bytes <= Limits.animationBytes
VideoStickerAllowed(u) ==
  DurationOf(u) <= Limits.stickerSeconds /\ u.bytes <= Limits.stickerBytes

-----------------------------------------------------------------------------
(* Each handler fails on an upload, takes it, or does not support it.      *)

LooksLikeImage(u) == TypeOf(u) \in {"photo", "sticker_static"}
ImageHashFails(u) ==
  LooksLikeImage(u) /\ (~Downloadable(u) \/ (~IsVideoFile(u) /\ ~Decodes(u)))
ImageHashTakes(u) == LooksLikeImage(u) /\ ~IsVideoFile(u) /\ ~ImageHashFails(u)

VideoLikeFails(u) ==
  \/ /\ TypeOf(u) = "animation"
     /\ ~AnimationAllowed(u) \/ ~Downloadable(u) \/ ~Decodes(u)
  \/ /\ TypeOf(u) = "sticker_static"
     /\ ~Downloadable(u) \/ (IsVideoFile(u) /\ ~(VideoStickerAllowed(u) /\ Decodes(u)))
VideoLikeTakes(u) == IsVideoFile(u) /\ ~VideoLikeFails(u)

AIFrames(u) == IF IsVideoFile(u) THEN ClipFrames(u) ELSE SubSeq(u.shots, 1, 1)

\* The service answers 413 to more than max_files frames.
EmbedRefuses(frames) == Len(frames) > MaxFiles
AIVectorFails(u) ==
  /\ TypeOf(u) # "sticker_animated"
  /\ \/ ~Downloadable(u) \/ ~Decodes(u) \/ EmbedRefuses(AIFrames(u))
     \/ TypeOf(u) = "animation" /\ ~AnimationAllowed(u)
     \/ TypeOf(u) = "sticker_static" /\ IsVideoFile(u) /\ ~VideoStickerAllowed(u)
AIVectorTakes(u) == TypeOf(u) # "sticker_animated" /\ ~AIVectorFails(u)

\* By its type alone; a handler that supports the type downloads the file.
SupportsType(h, u) ==
  \/ h = "exact"
  \/ h = "imagehash" /\ LooksLikeImage(u)
  \/ h = "videolike" /\ TypeOf(u) \in {"animation", "sticker_static"}
  \/ h = "aivector" /\ TypeOf(u) # "sticker_animated"
Fails(h, u) ==
  \/ h = "imagehash" /\ ImageHashFails(u)
  \/ h = "videolike" /\ VideoLikeFails(u)
  \/ h = "aivector" /\ AIVectorFails(u)
Takes(h, u) ==
  \/ h = "exact"
  \/ h = "imagehash" /\ ImageHashTakes(u)
  \/ h = "videolike" /\ VideoLikeTakes(u)
  \/ h = "aivector" /\ AIVectorTakes(u)

\* What a handler extracts from an upload it takes: the identity of the file,
\* the four rotations, the frames.
Extract(h, u) ==
  CASE h = "exact" -> u.file
    [] h = "imagehash" -> u.shots
    [] h = "videolike" -> ClipFrames(u)
    [] OTHER -> AIFrames(u)
Artifact(h, c, u) == [chat |-> c, key |-> Extract(h, u)]
Artifacts(h) == {Artifact(h, c, u) : c \in Chats, u \in Uploads}

-----------------------------------------------------------------------------
(* Comparison.                                                             *)

Distance(f, g) == Cardinality((f \ g) \cup (g \ f))
Near(h, f, g) == Distance(f, g) <= Threshold[h]

WithinThreshold(query, held) ==
  \E i \in DOMAIN query, j \in DOMAIN held : Near("imagehash", query[i], held[j])

HasMatchingFrame(h, f, held) == \E j \in DOMAIN held : Near(h, f, held[j])

\* Mutant of RequiredFrames: the ratio of the longer clip.
RequiredOfLonger(m, n, r) ==
  LET byRatio == (r.num * (IF m > n THEN m ELSE n) + r.den - 1) \div r.den
  IN IF r.frames > byRatio THEN r.frames ELSE byRatio

\* The rounded ratio of the shorter clip, but not less than the minimum.
RequiredFrames(m, n, r) ==
  LET shorter == IF m < n THEN m ELSE n
      byRatio == (r.num * shorter + r.den - 1) \div r.den
  IN IF r.frames > byRatio THEN r.frames ELSE byRatio

\* The counter of the loop over the frames of the query.
MatchedSoFar(query, held) ==
  LET matched[n \in 0..Len(query)] ==
        IF n = 0 THEN 0
        ELSE matched[n - 1] + (IF HasMatchingFrame("videolike", query[n], held) THEN 1 ELSE 0)
  IN matched

\* The loop stops with success when enough frames have matched, and gives up
\* when the rest cannot make up for what is missing.
ClipsMatch(query, held) ==
  LET need == RequiredFrames(Len(query), Len(held), Rule["videolike"])
      matched == MatchedSoFar(query, held)
  IN /\ Len(query) >= need /\ Len(held) >= need
     /\ \E n \in 1..Len(query) :
          /\ matched[n] >= need
          /\ \A k \in 1..(n - 1) : matched[k] + (Len(query) - k) >= need

\* One frame matches a ban with any frame near it; several of them need the
\* minimum and the ratio of the frames asked about.
VectorsMatch(query, held) ==
  LET matched == {n \in DOMAIN query : HasMatchingFrame("aivector", query[n], held)}
      r == Rule["aivector"]
  IN IF Len(query) = 1
     THEN matched # {}
     ELSE /\ Cardinality(matched) >= r.frames
          /\ Cardinality(matched) * r.den >= r.num * Len(query)

Matches(h, query, held) ==
  \/ h = "exact" /\ query = held
  \/ h = "imagehash" /\ WithinThreshold(query, held)
  \/ h = "videolike" /\ ClipsMatch(query, held)
  \/ h = "aivector" /\ VectorsMatch(query, held)

\* Mutants of Signature and AddMany: the chat is left out of the key.
SignatureWithoutChat(a) == a.key
AddManyByKey(loaded) == {CHOOSE a \in loaded : a.key = k : k \in {a.key : a \in loaded}}

\* An index keeps one artifact of a signature.
Signature(a) == <<a.chat, a.key>>
Add(held, a) ==
  IF \E b \in held : Signature(b) = Signature(a) THEN held ELSE held \cup {a}
AddMany(loaded) ==
  {CHOOSE a \in loaded : Signature(a) = s : s \in {Signature(a) : a \in loaded}}

\* Mutant of Hits: bans of every chat are compared.
HitsOfAnyChat(h, c, u) == \E a \in index[h] : Matches(h, Extract(h, u), a.key)

\* Search: only the bans of the chat are compared.
Hits(h, c, u) ==
  \E a \in index[h] : a.chat = c /\ Matches(h, Extract(h, u), a.key)

-----------------------------------------------------------------------------
Jobs == Chats \X Uploads
NoJob == <<>>
ChatOf(w) == job[w][1]
UploadOf(w) == job[w][2]
HandlerAt(w) == Handlers[at[w]]

TypeOK ==
  /\ DOMAIN rows = HandlerSet /\ DOMAIN index = HandlerSet
  /\ \A h \in HandlerSet : rows[h] \subseteq Artifacts(h) /\ index[h] \subseteq Artifacts(h)
  /\ answered \subseteq Jobs
  /\ pc \in [Workers -> {"idle", "check", "blocked", "clean", "commit", "apply"}]
  /\ job \in [Workers -> Jobs \cup {NoJob}]
  /\ \A w \in Workers : pc[w] # "idle" => job[w] \in Jobs
  /\ at \in [Workers -> 1..Len(Handlers)]
  /\ prepared \in [Workers -> SUBSET HandlerSet]
  /\ due \in [Workers -> BOOLEAN]
  /\ bans \in 0..MaxBans /\ faults \in 0..MaxFaults

Init ==
  /\ rows = [h \in HandlerSet |-> {}] /\ index = [h \in HandlerSet |-> {}]
  /\ answered = {}
  /\ pc = [w \in Workers |-> "idle"] /\ job = [w \in Workers |-> NoJob]
  /\ at = [w \in Workers |-> 1]
  /\ prepared = [w \in Workers |-> {}]
  /\ due = [w \in Workers |-> FALSE]
  /\ bans = 0 /\ faults = 0

\* A worker between two messages; a verdict stays visible until the next one.
Resting(w) == pc[w] \in {"idle", "blocked", "clean"}

Begin(w, c, u, stage) ==
  /\ Resting(w)
  /\ pc' = [pc EXCEPT ![w] = stage]
  /\ job' = [job EXCEPT ![w] = <<c, u>>]
  /\ UNCHANGED at
Return(w, answer) ==
  /\ pc' = [pc EXCEPT ![w] = answer]
  /\ job' = [job EXCEPT ![w] = IF answer = "idle" THEN NoJob ELSE @]
  /\ at' = [at EXCEPT ![w] = 1]
  /\ prepared' = [prepared EXCEPT ![w] = {}]
  /\ due' = [due EXCEPT ![w] = @ /\ answer = "clean"]

\* What a reader of the documentation expects a ban of v to recognise: the
\* same file, a rotated or slightly changed picture, a clip that shares
\* enough frames with it.
SamePicture(u, v) ==
  /\ ImageHashTakes(u) /\ ImageHashTakes(v)
  /\ \E n \in DOMAIN v.shots : Near("imagehash", u.shots[1], v.shots[n])
EnoughFrames(h, query, held) ==
  LET matched == Cardinality({n \in DOMAIN query : HasMatchingFrame(h, query[n], held)})
      r == Rule[h]
  IN matched >= r.frames /\ \E size \in {Len(query), Len(held)} : matched * r.den >= r.num * size
LongEnough(clip) == Len(clip) >= Rule["videolike"].frames
SameClip(u, v) ==
  /\ VideoLikeTakes(u) /\ VideoLikeTakes(v)
  /\ LongEnough(ClipFrames(u)) /\ LongEnough(ClipFrames(v))
  /\ EnoughFrames("videolike", ClipFrames(u), ClipFrames(v))
Recognisable(u, v) == u.file = v.file \/ SamePicture(u, v) \/ SameClip(u, v)

-----------------------------------------------------------------------------
(* IsBlocked: handler after handler, until one of them has an answer.      *)

StartCheck(w, c, u) ==
  /\ Begin(w, c, u, "check")
  /\ prepared' = prepared
  /\ due' = [due EXCEPT ![w] = \E b \in answered : b[1] = c /\ Recognisable(u, b[2])]
  /\ UNCHANGED <<stored, bounds>>

\* Mutant of GoOn: one handler too many.
GoOnPast(w) ==
  IF at[w] <= Len(Handlers)
  THEN at' = [at EXCEPT ![w] = @ + 1] /\ UNCHANGED <<pc, job, prepared, due>>
  ELSE Return(w, "clean")

\* The next handler, or no handler is left and the content is not blocked.
GoOn(w) ==
  IF at[w] < Len(Handlers)
  THEN at' = [at EXCEPT ![w] = @ + 1] /\ UNCHANGED <<pc, job, prepared, due>>
  ELSE Return(w, "clean")

\* ErrUnsupportedContent counts as no match.
HandlerRefuses(w) ==
  /\ pc[w] = "check"
  /\ ~Takes(HandlerAt(w), UploadOf(w)) /\ ~Fails(HandlerAt(w), UploadOf(w))
  /\ GoOn(w)
  /\ UNCHANGED <<stored, bounds>>

HandlerMatches(w) ==
  /\ pc[w] = "check"
  /\ Takes(HandlerAt(w), UploadOf(w)) /\ Hits(HandlerAt(w), ChatOf(w), UploadOf(w))
  /\ Return(w, "blocked")
  /\ UNCHANGED <<stored, bounds>>

\* The service searches approximately (HNSW) and returns top_k vectors of a
\* frame: it may miss a ban that is near.
HandlerMatchesNot(w) ==
  /\ pc[w] = "check"
  /\ Takes(HandlerAt(w), UploadOf(w))
  /\ HandlerAt(w) = "aivector" \/ ~Hits(HandlerAt(w), ChatOf(w), UploadOf(w))
  /\ GoOn(w)
  /\ UNCHANGED <<stored, bounds>>

\* An error ends IsBlocked: the handlers after this one are not asked.
HandlerFails(w) ==
  /\ pc[w] = "check" /\ Fails(HandlerAt(w), UploadOf(w))
  /\ Return(w, "idle")
  /\ UNCHANGED <<stored, bounds>>

\* Download, ffmpeg, a request to the service or a statement fails.
CallFails(w) ==
  /\ faults < MaxFaults
  /\ \/ pc[w] = "check" /\ HandlerAt(w) # "exact" /\ SupportsType(HandlerAt(w), UploadOf(w))
     \/ pc[w] = "commit"
  /\ Return(w, "idle")
  /\ faults' = faults + 1
  /\ UNCHANGED <<stored, bans>>

-----------------------------------------------------------------------------
(* Block.                                                                  *)

\* PrepareBlock of all handlers: it reads only the upload.  A handler that
\* does not support the content is left out; one that fails fails the ban,
\* which then has changed nothing.
PrepareBan(w, c, u) ==
  /\ bans < MaxBans
  /\ \A h \in HandlerSet : ~Fails(h, u)
  /\ Begin(w, c, u, "commit")
  /\ prepared' = [prepared EXCEPT ![w] = {h \in HandlerSet : Takes(h, u)}]
  /\ due' = [due EXCEPT ![w] = FALSE]
  /\ UNCHANGED <<stored, bounds>>

\* INSERT ... ON CONFLICT DO NOTHING for every handler of the ban.
Inserted(handlers, c, u) ==
  [h \in HandlerSet |-> IF h \in handlers THEN Add(rows[h], Artifact(h, c, u)) ELSE rows[h]]

CommitBan(w) ==
  /\ pc[w] = "commit" /\ bans < MaxBans
  /\ rows' = Inserted(prepared[w], ChatOf(w), UploadOf(w))
  /\ bans' = bans + 1
  /\ pc' = [pc EXCEPT ![w] = "apply"]
  /\ UNCHANGED <<index, answered, job, at, prepared, due, faults>>

\* ApplyBlock of one handler after the other, also of those whose artifact
\* was there before.  The AI handler has no index of its own.
ApplyBlock(w) ==
  /\ pc[w] = "apply"
  /\ index' = IF HandlerAt(w) \in prepared[w] \cap Local
              THEN [index EXCEPT ![HandlerAt(w)] =
                      Add(@, Artifact(HandlerAt(w), ChatOf(w), UploadOf(w)))]
              ELSE index
  /\ IF at[w] < Len(Handlers)
     THEN /\ at' = [at EXCEPT ![w] = @ + 1]
          /\ UNCHANGED <<answered, pc, job, prepared, due>>
     ELSE /\ answered' = answered \cup {job[w]}
          /\ Return(w, "idle")
  /\ UNCHANGED <<rows, bounds>>

-----------------------------------------------------------------------------
(* Other replicas and restarts.                                            *)

BanElsewhere(c, u) ==
  /\ bans < MaxBans /\ \A h \in HandlerSet : ~Fails(h, u)
  /\ rows' = Inserted({h \in HandlerSet : Takes(h, u)}, c, u)
  /\ bans' = bans + 1
  /\ UNCHANGED <<index, answered, call, faults>>

\* An event of the outbox adds the artifact of its ban, in the bot and in
\* the service.
ApplyEvent(h, a) ==
  /\ a \in rows[h] \ index[h]
  /\ index' = [index EXCEPT ![h] = Add(@, a)]
  /\ UNCHANGED <<rows, answered, call, bounds>>

\* A new bot process loads its indexes from the tables; the calls of the old
\* one are gone.
RestartBot ==
  /\ faults < MaxFaults
  /\ index' = [h \in HandlerSet |-> IF h \in Local THEN AddMany(rows[h]) ELSE index[h]]
  /\ pc' = [w \in Workers |-> "idle"] /\ job' = [w \in Workers |-> NoJob]
  /\ at' = [w \in Workers |-> 1]
  /\ prepared' = [w \in Workers |-> {}]
  /\ due' = [w \in Workers |-> FALSE]
  /\ faults' = faults + 1
  /\ UNCHANGED <<rows, answered, bans>>

RestartService ==
  /\ faults < MaxFaults /\ "aivector" \in HandlerSet
  /\ index' = [index EXCEPT !["aivector"] = rows["aivector"]]
  /\ faults' = faults + 1
  /\ UNCHANGED <<rows, answered, call, bans>>

WorkerStep(w) ==
  \/ \E c \in Chats, u \in Uploads : StartCheck(w, c, u) \/ PrepareBan(w, c, u)
  \/ HandlerRefuses(w) \/ HandlerMatches(w) \/ HandlerMatchesNot(w)
  \/ HandlerFails(w) \/ CallFails(w) \/ CommitBan(w) \/ ApplyBlock(w)

Next ==
  \/ \E w \in Workers : WorkerStep(w)
  \/ \E c \in Chats, u \in Uploads : BanElsewhere(c, u)
  \/ \E h \in HandlerSet : \E a \in rows[h] : ApplyEvent(h, a)
  \/ RestartBot \/ RestartService

Spec == Init /\ [][Next]_vars

-----------------------------------------------------------------------------
(* Properties.                                                             *)

\* The rule of each matcher without its loops and rotations.
Similar(h, query, held) ==
  \/ h = "exact" /\ query = held
  \/ h = "imagehash" /\ \E n \in DOMAIN query : HasMatchingFrame(h, query[n], held)
  \/ h = "videolike" /\ LongEnough(query) /\ LongEnough(held) /\ EnoughFrames(h, query, held)
  \/ h = "aivector" /\ VectorsMatch(query, held)

\* Nothing is removed by mistake: a content judged blocked is similar to
\* something banned in the same chat, by a matcher that supports it,
\* whatever other chats, media and concurrent bans put into the indexes.
VerdictSound ==
  \A w \in Workers : pc[w] = "blocked" =>
    \E h \in HandlerSet : \E a \in rows[h] :
      Takes(h, UploadOf(w)) /\ a.chat = ChatOf(w) /\ Similar(h, Extract(h, UploadOf(w)), a.key)

\* Nothing slips through: a content judged clean was not recognisable from a
\* ban the bot had answered before the check began, neither as the same
\* file, nor as a rotated or similar picture, nor as a clip cut differently;
\* restarts and bans that found their artifacts owned do not change that.
RecognisableIsCaught ==
  \A w \in Workers : pc[w] = "clean" => ~due[w]

\* What the indexes of the bot recognise they go on recognising, across the
\* bans that follow and across a restart.
BlockedStaysBlocked ==
  [][\A h \in Local : index'[h] # index[h] =>
       \A c \in Chats, u \in Uploads :
         Takes(h, u) /\ Hits(h, c, u) => Hits(h, c, u)']_vars

\* The invariant behind them: indexes hold only artifacts of the tables, a
\* ban is applied after it is in the tables, and what was answered is in
\* every index of the bot that supports it.
IndexBacked == \A h \in HandlerSet : index[h] \subseteq rows[h]
AppliedIsStored ==
  \A w \in Workers : pc[w] = "apply" => \A h \in prepared[w] :
    /\ Takes(h, UploadOf(w))
    /\ Artifact(h, ChatOf(w), UploadOf(w)) \in rows[h]
AppliedSoFar ==
  \A w \in Workers : pc[w] = "apply" => \A n \in 1..(at[w] - 1) :
    Handlers[n] \in prepared[w] \cap Local =>
      Artifact(Handlers[n], ChatOf(w), UploadOf(w)) \in index[Handlers[n]]
NotYetApplied == \A w \in Workers : pc[w] \notin {"check", "apply"} => at[w] = 1
PreparedByAll ==
  \A w \in Workers : pc[w] \in {"commit", "apply"} =>
    prepared[w] = {h \in HandlerSet : Takes(h, UploadOf(w))}
AnsweredIsIndexed ==
  \A b \in answered : \A h \in Local :
    Takes(h, b[2]) => Artifact(h, b[1], b[2]) \in index[h]
MatchingInvariant ==
  /\ TypeOK /\ IndexBacked /\ AppliedIsStored /\ AppliedSoFar /\ PreparedByAll
  /\ NotYetApplied /\ AnsweredIsIndexed

\* Why RecognisableIsCaught holds: a recognisable upload has not been asked
\* of the handler yet that will recognise it.
HitAhead(w) ==
  \E n \in at[w]..Len(Handlers) :
    /\ Handlers[n] \in Local
    /\ Takes(Handlers[n], UploadOf(w)) /\ Hits(Handlers[n], ChatOf(w), UploadOf(w))
DueIsAhead == \A w \in Workers : due[w] => pc[w] = "check" /\ HitAhead(w)

\* Each matcher by itself, its table and its index, keeps the promise of the
\* blacklist, with artifacts in the place of bans, while commands fill several
\* tables at once.  The end of a process does not show: its successor loads
\* the whole table in the same step.
Table(h) == INSTANCE ReplicatedBlacklist
  WITH Ban <- Artifacts(h), Replica <- {"bot"}, Index <- {h}, Covers <- LAMBDA a : {h},
       bans <- rows[h], enforced <- [r \in {"bot"} |-> [i \in {h} |-> index[h]]]

=============================================================================
