-------------------------- MODULE ModerationProofs --------------------------
(* Proofs about Moderation: what the bot removes is banned and enforced,   *)
(* the handlers leave nothing blocked behind, carry out every acknowledged *)
(* ban and keep the promise of a replicated blacklist, for any number of   *)
(* workers, messages and media.                                            *)
EXTENDS Moderation, TLAPS

LEMMA BoundsAreNaturals ==
  MaxMessages \in Nat /\ MaxRepeats \in Nat /\ MaxDeletions \in Nat /\ MaxFailures \in Nat
BY BoundsAssumption

LEMMA MessageTyped ==
  ASSUME TypeOK, NEW m \in 1..Len(chat)
  PROVE  /\ chat[m] \in Message /\ m \in Nat /\ m # NoMessage
         /\ chat[m].reply \in Nat /\ chat[m].content \in Contents \cup {NoContent}
         /\ chat[m].command \in {"none", "ban", "hello"}
<1>1. chat \in Seq(Message) /\ Len(chat) \in Nat BY DEF TypeOK
<1>2. chat[m] \in Message BY <1>1
<1> QED BY <1>2, BoundsAreNaturals DEF Message, Messages, NoMessage

-----------------------------------------------------------------------------
(* What no step undoes, and a step of one worker only.                     *)

\* Messages stay as posted; deletions, bans and the index only grow.
Grows ==
  /\ Len(chat) <= Len(chat')
  /\ \A m \in 1..Len(chat) : chat'[m] = chat[m]
  /\ deleted \subseteq deleted' /\ banned \subseteq banned' /\ index \subseteq index'

SameHandler(w) ==
  pc'[w] = pc[w] /\ msg'[w] = msg[w] /\ target'[w] = target[w] /\ due'[w] = due[w]

\* A message that is enforced stays so.
LEMMA EnforcedStays ==
  ASSUME TypeOK, Grows, NEW m \in 1..Len(chat), Enforced(m)
  PROVE  Enforced(m)'
BY DEF Grows, Enforced

LEMMA HandlerKeeps ==
  ASSUME TypeOK, TypeOK', RepliesGoBack, Grows, NEW w \in Workers,
         Banning(w), Reposts(w), SameHandler(w)
  PROVE  Banning(w)' /\ Reposts(w)'
<1>1. /\ Len(chat) \in Nat /\ Len(chat') \in Nat
      /\ msg[w] \in 0..Len(chat) /\ target[w] \in 0..Len(chat) /\ due[w] \subseteq 1..Len(chat)
  BY DEF TypeOK
<1>2. 1..Len(chat) \subseteq 1..Len(chat') BY <1>1 DEF Grows
<1>3. ASSUME NEW m \in 1..Len(chat) PROVE chat'[m] = chat[m] BY DEF Grows
<1>4. target[w] # NoMessage => target[w] \in 1..Len(chat) BY <1>1 DEF NoMessage
<1>5. Banning(w)'
  <2>1. CASE pc[w] \in {"isAdmin", "block", "apply", "deleteTarget", "deleteCommand"}
    <3>1. msg[w] \in 1..Len(chat) /\ chat'[msg[w]] = chat[msg[w]] BY <2>1, <1>3 DEF Banning
    <3>2. CASE pc[w] = "isAdmin" BY <3>1, <3>2, <1>2 DEF Banning, SameHandler
    <3>3. CASE pc[w] # "isAdmin"
      <4>1. target[w] \in 1..Len(chat) BY <2>1, <3>3, <1>4 DEF Banning
      <4>2. Enforced(target[w]) => Enforced(target[w])' BY <4>1, <1>3 DEF Enforced, Grows, SameHandler
      <4> QED BY <2>1, <3>1, <3>3, <4>1, <4>2, <1>2, <1>3 DEF Banning, SameHandler, Grows, Enforced
    <3> QED BY <3>2, <3>3
  <2>2. CASE pc[w] \notin {"isAdmin", "block", "apply", "deleteTarget", "deleteCommand"}
    BY <2>2 DEF Banning, SameHandler
  <2> QED BY <2>1, <2>2
<1>6. Reposts(w)'
  <2>1. CASE pc[w] \in {"isBlocked", "delete"}
    <3>1. msg[w] \in 1..Len(chat) /\ chat'[msg[w]] = chat[msg[w]] BY <2>1, <1>3 DEF Reposts
    <3>2. Targets(msg[w])' = Targets(msg[w]) BY <3>1 DEF Targets, SameHandler
    <3>3. target[w] \in 1..Len(chat) BY <2>1, <1>4 DEF Reposts, Targets
    <3>4. \A t \in due[w] : chat'[t] = chat[t] BY <1>1, <1>3
    <3> QED BY <2>1, <3>1, <3>2, <3>3, <3>4, <1>2, <1>3 DEF Reposts, SameHandler, Grows, Enforced
  <2>2. CASE pc[w] \notin {"isBlocked", "delete"} BY <2>2 DEF Reposts, SameHandler
  <2> QED BY <2>1, <2>2
<1> QED BY <1>5, <1>6

\* A removal that was earned stays earned.
LEMMA RemovalsKeep ==
  ASSUME TypeOK, TypeOK', RepliesGoBack, Grows, RemovalsAreEarned, removed' = removed
  PROVE  RemovalsAreEarned'
<1> SUFFICES ASSUME NEW m \in removed
             PROVE  IF chat'[m].command = "ban"
                    THEN /\ chat'[m].admin /\ chat'[m].reply # NoMessage
                         /\ Enforced(chat[m].reply)' /\ chat'[m].reply \in deleted'
                    ELSE Enforced(m)'
  BY DEF RemovalsAreEarned
<1>1. m \in 1..Len(chat) /\ chat'[m] = chat[m] BY DEF TypeOK, Grows
<1>2. CASE chat[m].command = "ban"
  <2>1. /\ chat[m].admin /\ chat[m].reply # NoMessage
        /\ Enforced(chat[m].reply) /\ chat[m].reply \in deleted
    BY <1>2 DEF RemovalsAreEarned
  <2>2. chat[m].reply \in 1..Len(chat) BY <2>1 DEF TypeOK
  <2>3. Enforced(chat[m].reply)' BY <1>1, <2>1, <2>2, EnforcedStays DEF Enforced, Grows
  <2> QED BY <1>1, <1>2, <2>1, <2>3 DEF Grows
<1>3. CASE chat[m].command # "ban"
  <2>1. Enforced(m) BY <1>3 DEF RemovalsAreEarned
  <2> QED BY <1>1, <1>3, <2>1, EnforcedStays
<1> QED BY <1>2, <1>3

\* A step of the chat or of another process.
LEMMA EnvironmentKeeps ==
  ASSUME ModerationInvariant, TypeOK', RepliesGoBack', index' \subseteq banned', Grows,
         removed' = removed, UNCHANGED handlerVars
  PROVE  ModerationInvariant'
<1>1. \A w \in Workers : SameHandler(w) BY DEF handlerVars, SameHandler
<1>2. ASSUME NEW w \in Workers PROVE Banning(w)' /\ Reposts(w)'
  BY <1>1, HandlerKeeps DEF ModerationInvariant
<1>3. RemovalsAreEarned' BY RemovalsKeep DEF ModerationInvariant
<1> QED BY <1>2, <1>3 DEF ModerationInvariant

\* A step of worker w.
LEMMA WorkerKeeps ==
  ASSUME ModerationInvariant, TypeOK', chat' = chat, index' \subseteq banned', Grows,
         RemovalsAreEarned', NEW w \in Workers, Banning(w)', Reposts(w)',
         \A v \in Workers \ {w} : SameHandler(v)
  PROVE  ModerationInvariant'
<1>1. ASSUME NEW v \in Workers \ {w} PROVE Banning(v)' /\ Reposts(v)'
  BY HandlerKeeps DEF ModerationInvariant
<1>2. RepliesGoBack' BY DEF ModerationInvariant, RepliesGoBack
<1> QED BY <1>1, <1>2 DEF ModerationInvariant

-----------------------------------------------------------------------------
(* The chat and other processes.                                           *)

LEMMA PostKeeps ==
  ASSUME ModerationInvariant, NEW m \in Message, Post(m) PROVE ModerationInvariant'
<1>1. TypeOK BY DEF ModerationInvariant
<1>2. chat \in Seq(Message) /\ Len(chat) \in Nat BY <1>1 DEF TypeOK
<1>3. /\ chat' \in Seq(Message) /\ Len(chat') = Len(chat) + 1
      /\ \A i \in 1..Len(chat) : chat'[i] = chat[i]
      /\ chat'[Len(chat) + 1] = m
  BY <1>2 DEF Post
<1>4. 1..Len(chat) \subseteq 1..Len(chat') /\ 0..Len(chat) \subseteq 0..Len(chat')
  BY <1>2, <1>3
<1>5. Len(chat') <= MaxMessages BY <1>2, <1>3, BoundsAreNaturals DEF Post
<1>6. TypeOK'
  BY <1>1, <1>3, <1>4, <1>5 DEF TypeOK, Post, banVars, handlerVars, deleteVars
<1>7. RepliesGoBack'
  <2> SUFFICES ASSUME NEW i \in 1..Len(chat')
               PROVE  chat'[i].reply < i /\ (chat'[i].command # "none" => chat'[i].content = NoContent)
    BY DEF RepliesGoBack
  <2>1. CASE i \in 1..Len(chat) BY <2>1, <1>3 DEF ModerationInvariant, RepliesGoBack
  <2>2. CASE i = Len(chat) + 1
    <3>1. m.reply \in Nat BY BoundsAreNaturals DEF Message, Messages, NoMessage
    <3> QED BY <2>2, <3>1, <1>2, <1>3 DEF Post
  <2> QED BY <2>1, <2>2, <1>2, <1>3
<1>8. Grows BY <1>2, <1>3 DEF Grows, Post, banVars, deleteVars
<1>9. index' \subseteq banned' BY DEF Post, banVars, ModerationInvariant
<1>10. removed' = removed /\ UNCHANGED handlerVars BY DEF Post, deleteVars
<1> QED BY <1>6, <1>7, <1>8, <1>9, <1>10, EnvironmentKeeps

LEMMA OthersKeep ==
  ASSUME ModerationInvariant,
         \/ \E m \in Messages : DeletedByOthers(m)
         \/ \E c \in Contents : BannedElsewhere(c) \/ CatchUp(c)
  PROVE  ModerationInvariant'
<1> USE DEF chatVars, banVars, handlerVars, deleteVars
<1>1. TypeOK' BY DEF ModerationInvariant, TypeOK, DeletedByOthers, BannedElsewhere, CatchUp
<1>2. RepliesGoBack'
  BY DEF ModerationInvariant, RepliesGoBack, DeletedByOthers, BannedElsewhere, CatchUp
<1>3. index' \subseteq banned'
  BY DEF ModerationInvariant, DeletedByOthers, BannedElsewhere, CatchUp
<1>4. Len(chat) \in Nat BY DEF ModerationInvariant, TypeOK
<1>5. Grows
  BY <1>4 DEF Grows, ModerationInvariant, DeletedByOthers, BannedElsewhere, CatchUp
<1>6. removed' = removed /\ UNCHANGED handlerVars
  BY DEF DeletedByOthers, BannedElsewhere, CatchUp
<1> QED BY <1>1, <1>2, <1>3, <1>5, <1>6, EnvironmentKeeps

-----------------------------------------------------------------------------
(* Steps of a worker.                                                      *)

\* In a call, the worker has a message, and what it is at is in the chat.
LEMMA HandlerTyped ==
  ASSUME ModerationInvariant, NEW w \in Workers, pc[w] # "idle"
  PROVE  /\ TypeOK /\ msg[w] \in 1..Len(chat)
         /\ target[w] # NoMessage => target[w] \in 1..Len(chat)
<1>1. TypeOK BY DEF ModerationInvariant
<1>2. msg[w] \in 1..Len(chat) BY <1>1 DEF ModerationInvariant, Banning, Reposts, TypeOK
<1>3. target[w] \in 0..Len(chat) /\ Len(chat) \in Nat BY <1>1 DEF TypeOK
<1> QED BY <1>1, <1>2, <1>3 DEF NoMessage

LEMMA IdleHandler ==
  ASSUME TypeOK, NEW w \in Workers, Idle(w)
  PROVE  Banning(w)' /\ Reposts(w)' /\ \A v \in Workers \ {w} : SameHandler(v)
BY DEF TypeOK, Idle, Banning, Reposts, SameHandler

\* Leaving the handler, whatever was stored or deleted by that.
LEMMA LeaveKeeps ==
  ASSUME ModerationInvariant, NEW w \in Workers, pc[w] # "idle",
         Return(w) \/ ReturnError(w), chat' = chat, taken' = taken,
         deleted' \subseteq 1..Len(chat), removed' \subseteq deleted',
         banned' \subseteq Contents, index' \subseteq banned', Grows, RemovalsAreEarned',
         repeats' \in 0..MaxRepeats, failures' \in 0..MaxFailures
  PROVE  ModerationInvariant'
<1>1. Idle(w) /\ failed' \subseteq failed \cup {msg[w]} BY DEF Return, ReturnError
<1>2. TypeOK /\ msg[w] \in 1..Len(chat) BY HandlerTyped
<1>3. Len(chat) \in Nat BY <1>2 DEF TypeOK
<1>4. TypeOK' BY <1>1, <1>2, <1>3, SMTT(30) DEF TypeOK, Idle, NoMessage
<1> QED BY <1>1, <1>2, <1>4, IdleHandler, WorkerKeeps

\* A message deleted by the bot, once its media are enforced.
LEMMA RepostRemoved ==
  ASSUME ModerationInvariant, NEW m \in 1..Len(chat), chat' = chat, UNCHANGED banVars,
         Delete(m), Enforced(m), chat[m].command # "ban"
  PROVE  /\ RemovalsAreEarned' /\ Grows
         /\ deleted' \subseteq 1..Len(chat) /\ removed' \subseteq deleted'
<1>1. TypeOK /\ RemovalsAreEarned /\ Len(chat) \in Nat BY DEF ModerationInvariant, TypeOK
<1>2. RemovalsAreEarned'
  <2> SUFFICES ASSUME NEW i \in removed'
               PROVE  IF chat[i].command = "ban"
                      THEN /\ chat[i].admin /\ chat[i].reply # NoMessage
                           /\ Enforced(chat[i].reply) /\ chat[i].reply \in deleted'
                      ELSE Enforced(i)
    BY DEF RemovalsAreEarned, Enforced, banVars
  <2>1. CASE i \in removed BY <1>1, <2>1 DEF RemovalsAreEarned, Delete
  <2>2. CASE i = m BY <2>2
  <2> QED BY <2>1, <2>2 DEF Delete
<1> QED BY <1>1, <1>2 DEF Delete, TypeOK, Grows, banVars

LEMMA SameShared ==
  ASSUME ModerationInvariant, chat' = chat, UNCHANGED <<banVars, deleteVars>>
  PROVE  Grows /\ RemovalsAreEarned' /\ index' \subseteq banned'
BY DEF ModerationInvariant, TypeOK, RemovalsAreEarned, Enforced, Grows, banVars, deleteVars

LEMMA CallFailsKeeps ==
  ASSUME ModerationInvariant, NEW w \in Workers,
         CallFails(w) \/ DeleteFails(w) \/ RefuseBan(w) \/ BlockConflicts(w)
  PROVE  ModerationInvariant'
<1> USE DEF chatVars
<1>1. TypeOK BY DEF ModerationInvariant
<1>2. /\ chat' = chat /\ taken' = taken /\ repeats' = repeats
      /\ UNCHANGED <<banVars, deleteVars>>
      /\ pc[w] # "idle" /\ (Return(w) \/ ReturnError(w))
  BY DEF CallFails, DeleteFails, RefuseBan, BlockConflicts
<1>3. failures' \in 0..MaxFailures
  BY <1>1, BoundsAreNaturals DEF TypeOK, CallFails, DeleteFails, RefuseBan, BlockConflicts
<1>4. /\ deleted' \subseteq 1..Len(chat) /\ removed' \subseteq deleted'
      /\ banned' \subseteq Contents /\ repeats' \in 0..MaxRepeats
  BY <1>1, <1>2 DEF TypeOK, banVars, deleteVars
<1> QED BY <1>2, <1>3, <1>4, SameShared, LeaveKeeps

LEMMA HandleKeeps ==
  ASSUME ModerationInvariant, NEW w \in Workers, NEW m \in 1..Len(chat), Handle(w, m),
         taken' \in 0..Len(chat), repeats' \in 0..MaxRepeats
  PROVE  ModerationInvariant'
<1>1. TypeOK /\ RepliesGoBack /\ Len(chat) \in Nat BY SMTT(30) DEF ModerationInvariant, TypeOK
<1>2. chat' = chat /\ UNCHANGED <<banVars, deleteVars, failed, failures>> BY DEF Handle
<1>3. CASE Answer(w, m)
  <2>1. UNCHANGED handlerVars BY <1>3 DEF Answer
  <2>2. TypeOK' BY <1>1, <1>2, <2>1 DEF TypeOK, banVars, handlerVars, deleteVars
  <2>3. RepliesGoBack' /\ removed' = removed BY <1>1, <1>2 DEF RepliesGoBack, deleteVars
  <2> QED BY <1>2, <2>1, <2>2, <2>3, SameShared, EnvironmentKeeps
<1>4. CASE Dispatch(w, m)
  <2>1. /\ chat[m].command \in {"none", "ban"} /\ chat[m].reply \in Nat /\ chat[m].reply < m
    BY <1>1, <1>4, MessageTyped DEF Dispatch, RepliesGoBack
  <2>2. chat[m].reply \in 0..Len(chat) BY <1>1, <2>1
  <2>3. Due(m) \subseteq Targets(m) /\ Targets(m) \subseteq 1..Len(chat)
    BY <2>2 DEF Due, Targets, NoMessage
  <2>4. /\ msg'[w] = m /\ msg' \in [Workers -> 0..Len(chat)]
        /\ target'[w] = IF chat[m].command = "none" THEN m ELSE chat[m].reply
        /\ target' \in [Workers -> 0..Len(chat)]
    BY <1>1, <1>4, <2>2 DEF Dispatch, TypeOK
  <2>5. /\ pc'[w] = IF chat[m].command = "none" THEN "isBlocked" ELSE "isAdmin"
        /\ due'[w] = IF chat[m].command = "none" THEN Due(m) ELSE {}
        /\ due' \in [Workers -> SUBSET (1..Len(chat))]
    BY <1>1, <1>4, <2>3 DEF Dispatch, TypeOK
  <2>6. TypeOK'
    BY <1>1, <1>2, <1>4, <2>4, <2>5 DEF TypeOK, Dispatch, banVars, deleteVars
  <2>7. Banning(w)' BY <1>2, <2>1, <2>4, <2>5 DEF Banning
  <2>8. Reposts(w)'
    BY <1>2, <2>1, <2>3, <2>4, <2>5, MessageTyped, <1>1
    DEF Reposts, Targets, Due, banVars
  <2>9. \A v \in Workers \ {w} : SameHandler(v) BY <1>1, <1>4 DEF TypeOK, Dispatch, SameHandler
  <2> QED BY <1>2, <2>6, <2>7, <2>8, <2>9, SameShared, WorkerKeeps
<1> QED BY <1>3, <1>4 DEF Handle

LEMMA TakeKeeps ==
  ASSUME ModerationInvariant, NEW w \in Workers, TakeMessage(w) \/ TakeMessageAgain(w)
  PROVE  ModerationInvariant'
<1>1. TypeOK /\ taken \in 0..Len(chat) /\ Len(chat) \in Nat /\ repeats \in 0..MaxRepeats
  BY DEF ModerationInvariant, TypeOK
<1>2. CASE TakeMessage(w)
  <2>1. taken + 1 \in 1..Len(chat) /\ taken' \in 0..Len(chat) BY <1>1, <1>2 DEF TakeMessage
  <2> QED BY <1>1, <1>2, <2>1, HandleKeeps DEF TakeMessage
<1>3. CASE TakeMessageAgain(w)
  <2>1. PICK m \in 1..taken : Handle(w, m) BY <1>3 DEF TakeMessageAgain
  <2>2. m \in 1..Len(chat) BY <1>1
  <2>3. repeats' \in 0..MaxRepeats BY <1>1, <1>3, BoundsAreNaturals DEF TakeMessageAgain
  <2> QED BY <1>1, <1>3, <2>1, <2>2, <2>3, HandleKeeps DEF TakeMessageAgain
<1> QED BY <1>2, <1>3

-----------------------------------------------------------------------------
(* The stages of a /ban.                                                   *)

\* A call that leads to the next one for the same message.
LEMMA StageKeeps ==
  ASSUME ModerationInvariant, NEW w \in Workers, pc[w] # "idle",
         NEW s \in {"block", "apply", "deleteTarget", "deleteCommand", "delete"},
         pc' = [pc EXCEPT ![w] = s], UNCHANGED <<chatVars, msg, target, due, failed>>,
         deleted' \subseteq 1..Len(chat), removed' \subseteq deleted',
         banned' \subseteq Contents, index' \subseteq banned', Grows, RemovalsAreEarned',
         failures' \in 0..MaxFailures, Banning(w)', Reposts(w)'
  PROVE  ModerationInvariant'
<1>1. TypeOK BY DEF ModerationInvariant
<1>2. TypeOK' BY <1>1 DEF TypeOK, chatVars
<1>3. \A v \in Workers \ {w} : SameHandler(v) BY <1>1 DEF TypeOK, SameHandler
<1> QED BY <1>2, <1>3, WorkerKeeps DEF chatVars

\* The next stage with the database, the index and the deletions as they are.
LEMMA QuietStage ==
  ASSUME ModerationInvariant, NEW w \in Workers, pc[w] # "idle",
         NEW s \in {"block", "apply", "deleteTarget", "deleteCommand", "delete"},
         pc' = [pc EXCEPT ![w] = s],
         UNCHANGED <<chatVars, banVars, msg, target, due, deleteVars, failed, failures>>,
         Banning(w)', Reposts(w)'
  PROVE  ModerationInvariant'
<1>1. TypeOK BY DEF ModerationInvariant
<1>2. /\ deleted' \subseteq 1..Len(chat) /\ removed' \subseteq deleted'
      /\ banned' \subseteq Contents /\ failures' \in 0..MaxFailures
  BY <1>1 DEF TypeOK, banVars, deleteVars
<1> QED BY <1>2, SameShared, StageKeeps DEF chatVars

LEMMA AcceptBanKeeps ==
  ASSUME ModerationInvariant, NEW w \in Workers, AcceptBan(w) PROVE ModerationInvariant'
<1>1. TypeOK /\ Banning(w) /\ pc'[w] = "block" BY DEF ModerationInvariant, TypeOK, AcceptBan
<1>2. Banning(w)' /\ Reposts(w)' BY <1>1 DEF Banning, Reposts, AcceptBan, chatVars
<1> QED BY <1>2, QuietStage DEF AcceptBan

LEMMA BlockFindsBanKeeps ==
  ASSUME ModerationInvariant, NEW w \in Workers, BlockFindsBan(w) PROVE ModerationInvariant'
<1>1. TypeOK /\ Banning(w) /\ pc'[w] = "apply"
  BY DEF ModerationInvariant, TypeOK, BlockFindsBan
<1>2. Banning(w)' /\ Reposts(w)'
  BY <1>1 DEF Banning, Reposts, BlockFindsBan, chatVars, banVars
<1> QED BY <1>2, QuietStage DEF BlockFindsBan

\* Committing a ban grows the set of bans and nothing else.
LEMMA BanGrows ==
  ASSUME ModerationInvariant, NEW w \in Workers, pc[w] = "block", chat' = chat,
         banned' = banned \cup {chat[target[w]].content}, UNCHANGED <<index, deleteVars>>
  PROVE  /\ Grows /\ RemovalsAreEarned' /\ index' \subseteq banned'
         /\ banned' \subseteq Contents
         /\ deleted' \subseteq 1..Len(chat) /\ removed' \subseteq deleted'
<1>1. TypeOK /\ Banning(w) /\ RemovalsAreEarned /\ index \subseteq banned /\ Len(chat) \in Nat
  BY DEF ModerationInvariant, TypeOK
<1>2. chat[target[w]].content \in Contents
  BY <1>1, HandlerTyped, MessageTyped DEF Banning
<1>3. Grows BY <1>1 DEF Grows, deleteVars
<1>4. RemovalsAreEarned' BY <1>1 DEF RemovalsAreEarned, Enforced, deleteVars
<1> QED BY <1>1, <1>2, <1>3, <1>4 DEF TypeOK, deleteVars

LEMMA CommitKeeps ==
  ASSUME ModerationInvariant, NEW w \in Workers, BlockCommits(w) \/ CommitAnswerLost(w)
  PROVE  ModerationInvariant'
<1>1. TypeOK /\ Banning(w) BY DEF ModerationInvariant
<1>2. CASE BlockCommits(w)
  <2>1. pc'[w] = "apply" BY <1>1, <1>2 DEF BlockCommits, TypeOK
  <2>2. Banning(w)' /\ Reposts(w)'
    BY <1>1, <1>2, <2>1 DEF Banning, Reposts, BlockCommits, chatVars
  <2>3. failures' \in 0..MaxFailures BY <1>1, <1>2 DEF TypeOK, BlockCommits
  <2> QED BY <1>2, <2>2, <2>3, BanGrows, StageKeeps DEF BlockCommits, chatVars
<1>3. CASE CommitAnswerLost(w)
  <2>1. failures' \in 0..MaxFailures /\ repeats' \in 0..MaxRepeats
    BY <1>1, <1>3, BoundsAreNaturals DEF TypeOK, CommitAnswerLost, chatVars
  <2> QED BY <1>3, <2>1, BanGrows, LeaveKeeps DEF CommitAnswerLost, chatVars
<1> QED BY <1>2, <1>3

LEMMA ApplyBlockKeeps ==
  ASSUME ModerationInvariant, NEW w \in Workers, ApplyBlock(w) PROVE ModerationInvariant'
<1>1. TypeOK /\ Banning(w) /\ RemovalsAreEarned /\ index \subseteq banned /\ Len(chat) \in Nat
  BY DEF ModerationInvariant, TypeOK
<1>2. /\ pc'[w] = "deleteTarget" /\ UNCHANGED <<chatVars, msg, target, due, failed, failures>>
      /\ index' = index \cup {chat[target[w]].content} /\ UNCHANGED <<banned, deleteVars>>
  BY <1>1 DEF ApplyBlock, TypeOK
<1>3. chat[target[w]].content \in banned BY <1>1 DEF Banning, ApplyBlock
<1>4. Banning(w)' /\ Reposts(w)'
  BY <1>1, <1>2, <1>3 DEF Banning, Reposts, Enforced, ApplyBlock, chatVars
<1>5. Grows BY <1>1, <1>2 DEF Grows, chatVars, deleteVars
<1>6. RemovalsAreEarned' BY <1>1, <1>2 DEF RemovalsAreEarned, Enforced, chatVars, deleteVars
<1>7. /\ index' \subseteq banned' /\ banned' \subseteq Contents /\ failures' \in 0..MaxFailures
      /\ deleted' \subseteq 1..Len(chat) /\ removed' \subseteq deleted'
  BY <1>1, <1>2, <1>3 DEF TypeOK, deleteVars
<1> QED BY <1>2, <1>4, <1>5, <1>6, <1>7, StageKeeps DEF ApplyBlock

LEMMA DeleteTargetKeeps ==
  ASSUME ModerationInvariant, NEW w \in Workers, DeleteTarget(w) PROVE ModerationInvariant'
<1>1. TypeOK /\ RepliesGoBack /\ Banning(w) /\ index \subseteq banned
  BY DEF ModerationInvariant
<1>2. /\ pc'[w] = "deleteCommand" /\ Delete(target[w])
      /\ UNCHANGED <<chatVars, banVars, msg, target, due, failed, failures>>
  BY <1>1 DEF DeleteTarget, TypeOK
<1>3. /\ target[w] \in 1..Len(chat) /\ Enforced(target[w])
      /\ chat[target[w]].command # "ban"
  BY <1>1, HandlerTyped DEF Banning, DeleteTarget, RepliesGoBack
<1>4. /\ RemovalsAreEarned' /\ Grows
      /\ deleted' \subseteq 1..Len(chat) /\ removed' \subseteq deleted'
  BY <1>2, <1>3, RepostRemoved DEF chatVars
<1>5. Banning(w)' /\ Reposts(w)'
  BY <1>1, <1>2, <1>3 DEF Banning, Reposts, Enforced, Delete, DeleteTarget, chatVars, banVars
<1>6. index' \subseteq banned' /\ banned' \subseteq Contents /\ failures' \in 0..MaxFailures
  BY <1>1, <1>2 DEF TypeOK, banVars
<1> QED BY <1>2, <1>4, <1>5, <1>6, StageKeeps DEF DeleteTarget

\* The command goes when its ban is enforced and its target deleted.
LEMMA DeleteCommandKeeps ==
  ASSUME ModerationInvariant, NEW w \in Workers, DeleteCommand(w) PROVE ModerationInvariant'
<1>1. /\ TypeOK /\ Banning(w) /\ RemovalsAreEarned /\ index \subseteq banned
      /\ Len(chat) \in Nat /\ msg[w] \in 1..Len(chat)
  BY HandlerTyped, SMTT(30) DEF ModerationInvariant, TypeOK, DeleteCommand
<1>2. /\ Delete(msg[w]) /\ Return(w) /\ UNCHANGED <<chatVars, banVars, failures>>
  BY DEF DeleteCommand
<1>3. /\ chat[msg[w]].command = "ban" /\ chat[msg[w]].admin
      /\ chat[msg[w]].reply # NoMessage /\ Enforced(chat[msg[w]].reply)
      /\ chat[msg[w]].reply \in deleted
  BY <1>1 DEF Banning, DeleteCommand
<1>4. RemovalsAreEarned'
  <2> SUFFICES ASSUME NEW i \in removed'
               PROVE  IF chat[i].command = "ban"
                      THEN /\ chat[i].admin /\ chat[i].reply # NoMessage
                           /\ Enforced(chat[i].reply) /\ chat[i].reply \in deleted'
                      ELSE Enforced(i)
    BY <1>2 DEF RemovalsAreEarned, Enforced, chatVars, banVars
  <2>1. CASE i \in removed BY <1>1, <1>2, <2>1 DEF RemovalsAreEarned, Delete
  <2>2. CASE i = msg[w] BY <1>2, <1>3, <2>2 DEF Delete
  <2> QED BY <1>2, <2>1, <2>2 DEF Delete
<1>5. Grows BY <1>1, <1>2 DEF Grows, Delete, chatVars, banVars
<1>6. deleted' \subseteq 1..Len(chat) /\ removed' \subseteq deleted'
  BY <1>1, <1>2 DEF Delete, TypeOK
<1>7. /\ index' \subseteq banned' /\ banned' \subseteq Contents
      /\ failures' \in 0..MaxFailures /\ repeats' \in 0..MaxRepeats
  BY <1>1, <1>2 DEF TypeOK, chatVars, banVars
<1> QED BY <1>2, <1>4, <1>5, <1>6, <1>7, LeaveKeeps DEF DeleteCommand, chatVars

-----------------------------------------------------------------------------
(* The loop over targets.                                                  *)

\* Where the loop goes on, it goes on with what the message replies to.
LEMMA NextTargetKeeps ==
  ASSUME ModerationInvariant, NEW w \in Workers, pc[w] \in {"isBlocked", "delete"},
         NextTarget(w), UNCHANGED <<chatVars, banVars, failures>>,
         deleted' \subseteq 1..Len(chat), removed' \subseteq deleted', Grows, RemovalsAreEarned',
         target[w] \in due[w] => target[w] \in deleted'
  PROVE  ModerationInvariant'
<1>1. /\ TypeOK /\ RepliesGoBack /\ Reposts(w) /\ index \subseteq banned
      /\ msg[w] \in 1..Len(chat) /\ Len(chat) \in Nat
  BY HandlerTyped, SMTT(30) DEF ModerationInvariant, TypeOK
<1>2. /\ index' \subseteq banned' /\ banned' \subseteq Contents
      /\ failures' \in 0..MaxFailures /\ repeats' \in 0..MaxRepeats
  BY <1>1 DEF TypeOK, chatVars, banVars
<1>3. CASE target[w] = msg[w] /\ chat[msg[w]].reply # NoMessage
  <2>1. chat[msg[w]].reply \in 1..Len(chat)
    BY <1>1, <1>3, MessageTyped DEF RepliesGoBack, NoMessage
  <2>2. /\ target' = [target EXCEPT ![w] = chat[msg[w]].reply]
        /\ pc' = [pc EXCEPT ![w] = "isBlocked"] /\ UNCHANGED <<msg, due, failed>>
    BY <1>3 DEF NextTarget
  <2>3. target'[w] = chat[msg[w]].reply /\ pc'[w] = "isBlocked" BY <1>1, <2>2 DEF TypeOK
  <2>4. TypeOK' BY <1>1, <1>2, <2>1, <2>2, SMTT(30) DEF TypeOK, chatVars
  <2>5. Banning(w)' BY <2>3 DEF Banning
  <2>6. Reposts(w)'
    BY <1>1, <1>3, <2>2, <2>3 DEF Reposts, Targets, chatVars, banVars, NoMessage
  <2>7. \A v \in Workers \ {w} : SameHandler(v) BY <1>1, <2>2 DEF TypeOK, SameHandler
  <2> QED BY <1>2, <2>4, <2>5, <2>6, <2>7, WorkerKeeps DEF chatVars
<1>4. CASE ~(target[w] = msg[w] /\ chat[msg[w]].reply # NoMessage)
  BY <1>2, <1>4, LeaveKeeps DEF NextTarget, chatVars
<1> QED BY <1>3, <1>4

LEMMA NotBlockedKeeps ==
  ASSUME ModerationInvariant, NEW w \in Workers, NotBlocked(w) PROVE ModerationInvariant'
<1>1. TypeOK /\ Reposts(w) BY DEF ModerationInvariant
<1>2. target[w] \notin due[w] BY <1>1 DEF Reposts, NotBlocked
<1>3. /\ deleted' \subseteq 1..Len(chat) /\ removed' \subseteq deleted'
      /\ Grows /\ RemovalsAreEarned'
  BY <1>1, SameShared DEF NotBlocked, TypeOK, deleteVars, chatVars
<1> QED BY <1>2, <1>3, NextTargetKeeps DEF NotBlocked

LEMMA IsBlockedKeeps ==
  ASSUME ModerationInvariant, NEW w \in Workers, IsBlocked(w) PROVE ModerationInvariant'
<1>1. TypeOK /\ Banning(w) /\ Reposts(w) /\ index \subseteq banned BY DEF ModerationInvariant
<1>2. /\ pc'[w] = "delete"
      /\ UNCHANGED <<chatVars, banVars, msg, target, due, deleteVars, failed, failures>>
  BY <1>1 DEF IsBlocked, TypeOK
<1>3. Banning(w)' /\ Reposts(w)'
  BY <1>1, <1>2 DEF Banning, Reposts, Enforced, Targets, IsBlocked, chatVars, banVars, deleteVars
<1> QED BY <1>3, QuietStage DEF IsBlocked

LEMMA DeleteRepostKeeps ==
  ASSUME ModerationInvariant, NEW w \in Workers, DeleteRepost(w) PROVE ModerationInvariant'
<1>1. TypeOK /\ RepliesGoBack /\ Reposts(w) BY DEF ModerationInvariant
<1>2. target[w] \in 1..Len(chat) /\ Enforced(target[w])
  BY <1>1, HandlerTyped DEF Reposts, DeleteRepost, Targets
<1>3. chat[target[w]].command # "ban"
  BY <1>1, <1>2, ContentAssumption DEF RepliesGoBack, Enforced, TypeOK
<1>4. /\ RemovalsAreEarned' /\ Grows
      /\ deleted' \subseteq 1..Len(chat) /\ removed' \subseteq deleted'
  BY <1>2, <1>3, RepostRemoved DEF DeleteRepost, chatVars
<1>5. target[w] \in deleted' BY DEF DeleteRepost, Delete
<1> QED BY <1>4, <1>5, NextTargetKeeps DEF DeleteRepost

-----------------------------------------------------------------------------
(* The theorems.                                                           *)

LEMMA InitiallyInvariant == Init => ModerationInvariant
<1> SUFFICES ASSUME Init PROVE ModerationInvariant OBVIOUS
<1>1. TypeOK BY BoundsAreNaturals DEF Init, TypeOK, NoMessage
<1> QED BY <1>1 DEF Init, ModerationInvariant, RepliesGoBack, Banning, Reposts, RemovalsAreEarned

LEMMA StepKeepsInvariant == ModerationInvariant /\ [Next]_vars => ModerationInvariant'
<1> SUFFICES ASSUME ModerationInvariant, [Next]_vars PROVE ModerationInvariant' OBVIOUS
<1>1. CASE UNCHANGED vars
  BY <1>1 DEF vars, chatVars, banVars, handlerVars, deleteVars, ModerationInvariant, TypeOK,
     RepliesGoBack, Banning, Reposts, Targets, RemovalsAreEarned, Enforced
<1>2. CASE \E m \in Message : Post(m) BY <1>2, PostKeeps
<1>3. CASE \/ \E m \in Messages : DeletedByOthers(m)
           \/ \E c \in Contents : BannedElsewhere(c) \/ CatchUp(c)
  BY <1>3, OthersKeep
<1>4. ASSUME NEW w \in Workers, WorkerStep(w) PROVE ModerationInvariant'
  BY <1>4, TakeKeeps, CallFailsKeeps, AcceptBanKeeps, CommitKeeps, BlockFindsBanKeeps,
     ApplyBlockKeeps, DeleteTargetKeeps, DeleteCommandKeeps, NotBlockedKeeps,
     IsBlockedKeeps, DeleteRepostKeeps DEF WorkerStep
<1> QED BY <1>1, <1>2, <1>3, <1>4 DEF Next

\* The invariant of the workers of HandleMessage: the stage of a /ban tells
\* what is committed, applied and deleted, for any number of messages.
THEOREM ModerationInvariantHolds == Spec => []ModerationInvariant
BY InitiallyInvariant, StepKeepsInvariant, PTL DEF Spec

\* The state of chat, bans and handlers stays well-typed.
THEOREM TypeCorrect == Spec => []TypeOK
<1>1. ModerationInvariant => TypeOK BY DEF ModerationInvariant
<1> QED BY <1>1, ModerationInvariantHolds, PTL

\* Whatever the bot deletes is banned in PostgreSQL by then, and a command is
\* deleted only for an administrator's ban of media.
THEOREM RemovedIsBanned == Spec => []NothingRemovedUnbanned
<1>1. ModerationInvariant => NothingRemovedUnbanned
  BY DEF ModerationInvariant, RemovalsAreEarned, Enforced, NothingRemovedUnbanned
<1> QED BY <1>1, ModerationInvariantHolds, PTL

\* No command disappears while the media it banned are still in the chat.
THEOREM TargetGoesFirst == Spec => []CommandGoesLast
<1>1. ModerationInvariant => CommandGoesLast
  BY DEF ModerationInvariant, RemovalsAreEarned, CommandGoesLast
<1> QED BY <1>1, ModerationInvariantHolds, PTL

\* A command that disappeared is enforced by this process for ever.
THEOREM AcknowledgedBanIsEnforced == Spec => []AcknowledgedIsEnforced
<1>1. ModerationInvariant => AcknowledgedIsEnforced
  BY DEF ModerationInvariant, RemovalsAreEarned, Enforced, AcknowledgedIsEnforced
<1> QED BY <1>1, ModerationInvariantHolds, PTL

-----------------------------------------------------------------------------
(* What a handler leaves behind.                                           *)

\* A worker whose stage stays, or that goes on, has not returned.
LEMMA ReturnLeavesNothing ==
  ASSUME ModerationInvariant, NEW w \in Workers, WorkerStep(w), NEW v \in Workers,
         pc[v] # "idle", pc'[v] = "idle", msg[v] \notin failed'
  PROVE  due[v] \subseteq deleted'
<1>1. TypeOK /\ Banning(v) /\ Reposts(v) /\ msg[v] \in 1..Len(chat)
  BY HandlerTyped DEF ModerationInvariant
<1>2. CASE v # w
  BY <1>1, <1>2 DEF TypeOK, WorkerStep, TakeMessage, TakeMessageAgain, Handle, Answer, Dispatch,
     RefuseBan, AcceptBan, BlockCommits, CommitAnswerLost, BlockFindsBan, BlockConflicts, ApplyBlock,
     DeleteTarget, DeleteCommand, DeleteFails, NotBlocked, IsBlocked, DeleteRepost, CallFails,
     NextTarget, Return, ReturnError, Idle, handlerVars
<1>3. CASE v = w /\ pc[w] \notin {"isBlocked", "delete"}
  BY <1>1, <1>3 DEF TypeOK, Banning
<1>4. CASE v = w /\ NotBlocked(w)
  BY <1>1, <1>4 DEF NotBlocked, NextTarget, Reposts, Targets, TypeOK, deleteVars
<1>5. CASE v = w /\ DeleteRepost(w)
  BY <1>1, <1>5 DEF DeleteRepost, NextTarget, Reposts, Targets, TypeOK, Delete
<1>6. CASE v = w /\ (CallFails(w) \/ DeleteFails(w))
  BY <1>6 DEF CallFails, DeleteFails, ReturnError
<1>7. CASE v = w /\ IsBlocked(w)
  BY <1>1, <1>7 DEF IsBlocked, TypeOK
<1> QED
  BY <1>2, <1>3, <1>4, <1>5, <1>6, <1>7
  DEF WorkerStep, TakeMessage, TakeMessageAgain, Handle, Answer, Dispatch, RefuseBan, AcceptBan,
      BlockCommits, CommitAnswerLost, BlockFindsBan, BlockConflicts, ApplyBlock, DeleteTarget, DeleteCommand

\* A handler of a message that answers without an error has deleted every
\* target that was blocked when it started.
THEOREM HandlerLeavesNothingBlocked == Spec => NothingBlockedRemains
<1>1. ASSUME ModerationInvariant, [Next]_vars, NEW v \in Workers,
             pc[v] # "idle", pc'[v] = "idle", msg[v] \notin failed'
      PROVE  due[v] \subseteq deleted'
  <2>1. ASSUME NEW w \in Workers, WorkerStep(w) PROVE due[v] \subseteq deleted'
    BY <1>1, <2>1, ReturnLeavesNothing
  <2>2. pc' # pc BY <1>1
  <2> QED
    BY <1>1, <2>1, <2>2
    DEF Next, Post, DeletedByOthers, BannedElsewhere, CatchUp, vars, handlerVars
<1>2. ModerationInvariant /\ [Next]_vars =>
        [\A w \in Workers :
           pc[w] # "idle" /\ pc'[w] = "idle" /\ msg[w] \notin failed' => due[w] \subseteq deleted']_vars
  BY <1>1
<1> QED BY <1>2, ModerationInvariantHolds, PTL DEF Spec, NothingBlockedRemains

\* A /ban of the media has been carried out: the command is gone, which is all
\* an administrator sees of it.
Acknowledged(c) ==
  \E m \in removed : chat[m].command = "ban" /\ chat[chat[m].reply].content = c

\* A handler at a target whose media are banned so stays with it until it has
\* deleted it, or reports an error.
StaysWithBanned(w) ==
  pc[w] \in {"isBlocked", "delete"} /\ Acknowledged(chat[target[w]].content) =>
    \/ target'[w] = target[w] /\ pc'[w] \in {pc[w], "delete"}
    \/ target[w] \in removed'
    \/ msg[w] \in failed'

LEMMA WorkerStaysWithBanned ==
  ASSUME ModerationInvariant, AcknowledgedIsEnforced, NEW w \in Workers, WorkerStep(w),
         NEW v \in Workers
  PROVE  StaysWithBanned(v)
<1> SUFFICES ASSUME pc[v] \in {"isBlocked", "delete"}, chat[target[v]].content \in index
             PROVE  \/ target'[v] = target[v] /\ pc'[v] \in {pc[v], "delete"}
                    \/ target[v] \in removed'
                    \/ msg[v] \in failed'
  BY DEF StaysWithBanned, Acknowledged, AcknowledgedIsEnforced
<1>1. TypeOK BY DEF ModerationInvariant
<1>2. CASE v # w
  BY <1>1, <1>2 DEF TypeOK, WorkerStep, TakeMessage, TakeMessageAgain, Handle, Answer, Dispatch,
     RefuseBan, AcceptBan, BlockCommits, CommitAnswerLost, BlockFindsBan, BlockConflicts, ApplyBlock,
     DeleteTarget, DeleteCommand, DeleteFails, NotBlocked, IsBlocked, DeleteRepost, CallFails,
     NextTarget, Return, ReturnError, Idle, handlerVars
<1>3. CASE v = w /\ IsBlocked(w)
  BY <1>1, <1>3 DEF IsBlocked, TypeOK
<1>4. CASE v = w /\ DeleteRepost(w)
  BY <1>4 DEF DeleteRepost, Delete
<1>5. CASE v = w /\ (CallFails(w) \/ DeleteFails(w))
  BY <1>5 DEF CallFails, DeleteFails, ReturnError
<1> QED
  BY <1>2, <1>3, <1>4, <1>5
  DEF WorkerStep, TakeMessage, TakeMessageAgain, Handle, Answer, Dispatch, RefuseBan, AcceptBan,
      BlockCommits, CommitAnswerLost, BlockFindsBan, BlockConflicts, ApplyBlock, DeleteTarget,
      DeleteCommand, NotBlocked

\* Once a /ban has been carried out, no check of this replica overlooks its
\* media, whichever worker checks and whichever one banned: a repost that
\* comes before a handler leaves the chat, or its handler returns an error.
THEOREM AcknowledgedBansAreCarriedOut ==
  Spec => [][\A w \in Workers : StaysWithBanned(w)]_vars
<1>1. ModerationInvariant /\ AcknowledgedIsEnforced /\ [Next]_vars =>
        [\A w \in Workers : StaysWithBanned(w)]_vars
  <2> SUFFICES ASSUME ModerationInvariant, AcknowledgedIsEnforced, Next, NEW v \in Workers
               PROVE  StaysWithBanned(v)
    OBVIOUS
  <2>1. CASE UNCHANGED handlerVars BY <2>1 DEF StaysWithBanned, handlerVars
  <2> QED
    BY <2>1, WorkerStaysWithBanned DEF Next, Post, DeletedByOthers, BannedElsewhere, CatchUp
<1> QED BY <1>1, ModerationInvariantHolds, AcknowledgedBanIsEnforced, PTL DEF Spec

-----------------------------------------------------------------------------
(* Moderation implements ReplicatedBlacklist.                              *)

Known == [r \in {"bot"} |-> [i \in {"index"} |-> index]]

LEMMA BanRefines ==
  ASSUME NEW c \in Contents, banned' = banned \cup {c}, UNCHANGED index
  PROVE  Blacklist!Next
<1>1. Blacklist!Commit BY DEF Blacklist!Commit
<1> QED BY <1>1 DEF Blacklist!Next

LEMMA LearnRefines ==
  ASSUME NEW c \in banned, index' = index \cup {c}, UNCHANGED banned
  PROVE  Blacklist!Next
<1>1. {c} \in SUBSET {b \in banned : "index" \in AllIndexes(b)} BY DEF AllIndexes
<1>2. Known' = [Known EXCEPT !["bot"]["index"] = @ \cup {c}] BY DEF Known
<1>3. Blacklist!Enforce("bot", "index") BY <1>1, <1>2 DEF Blacklist!Enforce, Known
<1> QED BY <1>3 DEF Blacklist!Next

LEMMA HandlerRefines ==
  ASSUME ModerationInvariant, NEW w \in Workers, WorkerStep(w)
  PROVE  [Blacklist!Next]_(Blacklist!vars)
<1>1. TypeOK /\ Banning(w) BY DEF ModerationInvariant
<1>2. CASE BlockCommits(w) \/ CommitAnswerLost(w)
  <2>1. pc[w] = "block" /\ UNCHANGED index /\ banned' = banned \cup {chat[target[w]].content}
    BY <1>2 DEF BlockCommits, CommitAnswerLost
  <2>2. target[w] \in 1..Len(chat) /\ chat[target[w]].content # NoContent
    BY <1>1, <2>1 DEF Banning, TypeOK, NoMessage
  <2>3. chat[target[w]].content \in Contents BY <1>1, <2>2, MessageTyped
  <2> QED BY <2>1, <2>3, BanRefines
<1>3. CASE ApplyBlock(w)
  <2>1. /\ chat[target[w]].content \in banned /\ UNCHANGED banned
        /\ index' = index \cup {chat[target[w]].content}
    BY <1>1, <1>3 DEF Banning, ApplyBlock
  <2> QED BY <2>1, LearnRefines
<1>4. CASE UNCHANGED <<banned, index>> BY <1>4 DEF Blacklist!vars
<1> QED
  BY <1>2, <1>3, <1>4
  DEF WorkerStep, TakeMessage, TakeMessageAgain, Handle, RefuseBan, AcceptBan, BlockFindsBan,
      BlockConflicts, DeleteTarget, DeleteCommand, DeleteFails, NotBlocked, IsBlocked,
      DeleteRepost, CallFails, banVars

\* The blacklist seen by the handlers is the one the installation promises.
THEOREM HandlersKeepThePromise == Spec => HandlersImplementBlacklist
<1>1. Init => Blacklist!Init BY DEF Init, Blacklist!Init
<1>2. ModerationInvariant /\ [Next]_vars => [Blacklist!Next]_(Blacklist!vars)
  <2> SUFFICES ASSUME ModerationInvariant, [Next]_vars PROVE [Blacklist!Next]_(Blacklist!vars)
    OBVIOUS
  <2>1. ASSUME NEW c \in Contents, BannedElsewhere(c) PROVE Blacklist!Next
    BY <2>1, BanRefines DEF BannedElsewhere
  <2>2. ASSUME NEW c \in Contents, CatchUp(c) PROVE Blacklist!Next
    BY <2>2, LearnRefines DEF CatchUp
  <2>3. CASE UNCHANGED <<banned, index>> BY <2>3 DEF Blacklist!vars
  <2> QED
    BY <2>1, <2>2, <2>3, HandlerRefines DEF Next, Post, DeletedByOthers, vars, banVars
<1> QED BY <1>1, <1>2, ModerationInvariantHolds, PTL
        DEF Spec, HandlersImplementBlacklist, Blacklist!Spec

=============================================================================
