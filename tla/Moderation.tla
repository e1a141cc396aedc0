----------------------------- MODULE Moderation -----------------------------
(***************************************************************************)
(* HandleMessage, run by the workers of a process on the messages of a     *)
(* group chat: /ban of the media replied to, and the deletion of reposts.  *)
(*                                                                         *)
(* The matchers are seen through two sets: the media banned in PostgreSQL  *)
(* and the media the indexes of this process match (IndexSync and          *)
(* BanTransaction have the way from one to the other).  Media that a       *)
(* matcher takes for the same are one element of Contents.  A message may  *)
(* be handed over twice, after a restart or by two replicas: AppLifecycle. *)
(***************************************************************************)
EXTENDS Naturals, Sequences, FiniteSets

CONSTANTS
  Workers,       \* goroutines running HandleMessage
  Contents,      \* media, up to what the matchers tell apart
  NoContent,     \* of a message without media
  MaxMessages,   \* bound: messages posted
  MaxRepeats,    \* bound: messages handed over once more
  MaxDeletions,  \* bound: messages deleted by others
  MaxFailures    \* bound: calls to Telegram or to a matcher that fail

ASSUME ContentAssumption == NoContent \notin Contents
ASSUME BoundsAssumption == {MaxMessages, MaxRepeats, MaxDeletions, MaxFailures} \subseteq Nat

Messages == 1..MaxMessages
NoMessage == 0

\* domain.Message; a command is a text and carries no media ("none": no command).
Message ==
  [command : {"none", "ban", "hello"}, content : Contents \cup {NoContent},
   reply : Messages \cup {NoMessage}, admin : BOOLEAN]

VARIABLES
  chat,      \* messages posted, in order
  deleted,   \* messages no longer in the chat
  taken,     \* messages handed to a worker so far
  banned,    \* media with a committed ban
  index,     \* media the indexes of this process match
  pc,        \* per worker: next call of HandleMessage
  msg,       \* per worker: the message
  target,    \* per worker: the message of targets it is at
  removed,   \* history: messages deleted by the bot
  due,       \* history, per worker: messages to delete when it started
  failed,    \* history: messages whose handler returned an error
  repeats, failures

chatVars == <<chat, taken, repeats>>
banVars == <<banned, index>>
handlerVars == <<pc, msg, target, due>>
deleteVars == <<deleted, removed>>
vars == <<chatVars, banVars, handlerVars, deleteVars, failed, failures>>

TypeOK ==
  /\ chat \in Seq(Message) /\ Len(chat) <= MaxMessages
  /\ deleted \subseteq 1..Len(chat) /\ removed \subseteq deleted
  /\ taken \in 0..Len(chat)
  /\ banned \subseteq Contents /\ index \subseteq Contents
  /\ pc \in [Workers -> {"idle", "isAdmin", "block", "apply", "deleteTarget",
                         "deleteCommand", "isBlocked", "delete"}]
  /\ msg \in [Workers -> 0..Len(chat)] /\ target \in [Workers -> 0..Len(chat)]
  /\ due \in [Workers -> SUBSET (1..Len(chat))]
  /\ failed \subseteq 1..Len(chat)
  /\ repeats \in 0..MaxRepeats /\ failures \in 0..MaxFailures

Init ==
  /\ chat = <<>> /\ deleted = {} /\ taken = 0
  /\ banned = {} /\ index = {}
  /\ pc = [w \in Workers |-> "idle"]
  /\ msg = [w \in Workers |-> NoMessage]
  /\ target = [w \in Workers |-> NoMessage]
  /\ removed = {} /\ due = [w \in Workers |-> {}]
  /\ failed = {}
  /\ repeats = 0 /\ failures = 0

-----------------------------------------------------------------------------
(* The chat, and the bans of other processes.                              *)

Post(m) ==
  /\ Len(chat) < MaxMessages
  /\ m.reply <= Len(chat)
  /\ m.command # "none" => m.content = NoContent
  /\ m.command # "ban" => ~m.admin
  /\ m.command = "hello" => m.reply = NoMessage
  /\ chat' = Append(chat, m)
  /\ UNCHANGED <<taken, repeats, banVars, handlerVars, deleteVars, failed, failures>>

\* A member, an administrator or the other replica deletes a message.
DeletedByOthers(m) ==
  /\ m \in 1..Len(chat) /\ m \notin deleted
  /\ Cardinality(deleted \ removed) < MaxDeletions
  /\ deleted' = deleted \cup {m}
  /\ UNCHANGED <<chatVars, banVars, handlerVars, removed, failed, failures>>

BannedElsewhere(c) ==
  /\ c \notin banned
  /\ banned' = banned \cup {c}
  /\ UNCHANGED <<chatVars, index, handlerVars, deleteVars, failed, failures>>

\* A catch-up learns of one ban after the other.
CatchUp(c) ==
  /\ c \in banned \ index
  /\ index' = index \cup {c}
  /\ UNCHANGED <<chatVars, banned, handlerVars, deleteVars, failed, failures>>

-----------------------------------------------------------------------------
(* Leaving HandleMessage.                                                  *)

Idle(w) ==
  /\ pc' = [pc EXCEPT ![w] = "idle"]
  /\ msg' = [msg EXCEPT ![w] = NoMessage]
  /\ target' = [target EXCEPT ![w] = NoMessage]
  /\ due' = [due EXCEPT ![w] = {}]

Return(w) == Idle(w) /\ UNCHANGED failed
ReturnError(w) == Idle(w) /\ failed' = failed \cup {msg[w]}

\* A call of this worker fails.
CallFails(w) ==
  /\ pc[w] \in {"isAdmin", "block", "deleteTarget", "deleteCommand", "isBlocked", "delete"}
  /\ failures < MaxFailures
  /\ failures' = failures + 1
  /\ ReturnError(w)
  /\ UNCHANGED <<chatVars, banVars, deleteVars>>

\* The deletion of a message that is gone is an error of the Telegram API.
DeleteFails(w) ==
  /\ \/ pc[w] \in {"deleteTarget", "delete"} /\ target[w] \in deleted
     \/ pc[w] = "deleteCommand" /\ msg[w] \in deleted
  /\ ReturnError(w)
  /\ UNCHANGED <<chatVars, banVars, deleteVars, failures>>

DeleteNotSent(m) == UNCHANGED deleted /\ removed' = removed \cup {m}

\* DeleteMessage of the Telegram actions, answered with success.
Delete(m) == deleted' = deleted \cup {m} /\ removed' = removed \cup {m}

-----------------------------------------------------------------------------
(* The handler.                                                            *)

Targets(m) == {m, chat[m].reply} \ {NoMessage}
Due(m) == {t \in Targets(m) : chat[t].content \in index}

\* private chat and /hello: an answer, and nothing else.
Answer(w, m) ==
  /\ pc[w] = "idle" /\ chat[m].command = "hello"
  /\ UNCHANGED handlerVars

Dispatch(w, m) ==
  /\ pc[w] = "idle" /\ chat[m].command # "hello"
  /\ msg' = [msg EXCEPT ![w] = m]
  /\ target' = [target EXCEPT ![w] = IF chat[m].command = "none" THEN m ELSE chat[m].reply]
  /\ pc' = [pc EXCEPT ![w] = IF chat[m].command = "none" THEN "isBlocked" ELSE "isAdmin"]
  /\ due' = [due EXCEPT ![w] = IF chat[m].command = "none" THEN Due(m) ELSE {}]

Handle(w, m) ==
  /\ Answer(w, m) \/ Dispatch(w, m)
  /\ UNCHANGED <<chat, banVars, deleteVars, failed, failures>>

TakeMessage(w) ==
  /\ taken < Len(chat)
  /\ taken' = taken + 1 /\ UNCHANGED repeats
  /\ Handle(w, taken + 1)

TakeMessageAgain(w) ==
  /\ repeats < MaxRepeats
  /\ repeats' = repeats + 1 /\ UNCHANGED taken
  /\ \E m \in 1..taken : Handle(w, m)

\* /ban: not an administrator, no reply, or a reply to a text.
RefuseBan(w) ==
  /\ pc[w] = "isAdmin"
  /\ \/ ~chat[msg[w]].admin
     \/ target[w] = NoMessage
     \/ target[w] # NoMessage /\ chat[target[w]].content = NoContent
  /\ Return(w)
  /\ UNCHANGED <<chatVars, banVars, deleteVars, failures>>

AcceptBan(w) ==
  /\ pc[w] = "isAdmin" /\ chat[msg[w]].admin /\ target[w] # NoMessage
  /\ chat[target[w]].content # NoContent
  /\ pc' = [pc EXCEPT ![w] = "block"]
  /\ UNCHANGED <<chatVars, banVars, msg, target, due, deleteVars, failed, failures>>

BlockCommits(w) ==
  /\ pc[w] = "block" /\ chat[target[w]].content \notin banned
  /\ banned' = banned \cup {chat[target[w]].content}
  /\ pc' = [pc EXCEPT ![w] = "apply"]
  /\ UNCHANGED <<chatVars, index, msg, target, due, deleteVars, failed, failures>>

\* The commit is done, its answer does not arrive: no ApplyBlock.
CommitAnswerLost(w) ==
  /\ pc[w] = "block" /\ chat[target[w]].content \notin banned
  /\ failures < MaxFailures
  /\ failures' = failures + 1
  /\ banned' = banned \cup {chat[target[w]].content}
  /\ ReturnError(w)
  /\ UNCHANGED <<chatVars, index, deleteVars>>

BlockFindsNothing(w) ==
  /\ pc[w] = "block"
  /\ pc' = [pc EXCEPT ![w] = "apply"]
  /\ UNCHANGED <<chatVars, banVars, msg, target, due, deleteVars, failed, failures>>

AppliesOnlyCreated(w) ==
  /\ pc[w] = "block" /\ chat[target[w]].content \in banned
  /\ pc' = [pc EXCEPT ![w] = "deleteTarget"]
  /\ UNCHANGED <<chatVars, banVars, msg, target, due, deleteVars, failed, failures>>

\* Every artifact belongs to another ban already: a commit of nothing, and
\* ApplyBlock all the same.
BlockFindsBan(w) ==
  /\ pc[w] = "block" /\ chat[target[w]].content \in banned
  /\ pc' = [pc EXCEPT ![w] = "apply"]
  /\ UNCHANGED <<chatVars, banVars, msg, target, due, deleteVars, failed, failures>>

\* The ban lost the race against another one of the same media.
BlockConflicts(w) ==
  /\ pc[w] = "block" /\ chat[target[w]].content \in banned
  /\ ReturnError(w)
  /\ UNCHANGED <<chatVars, banVars, deleteVars, failures>>

ApplyBlock(w) ==
  /\ pc[w] = "apply"
  /\ index' = index \cup {chat[target[w]].content}
  /\ pc' = [pc EXCEPT ![w] = "deleteTarget"]
  /\ UNCHANGED <<chatVars, banned, msg, target, due, deleteVars, failed, failures>>

DeleteTargetIfPossible(w) ==
  /\ pc[w] = "deleteTarget"
  /\ Delete(target[w]) \/ UNCHANGED deleteVars
  /\ pc' = [pc EXCEPT ![w] = "deleteCommand"]
  /\ UNCHANGED <<chatVars, banVars, msg, target, due, failed, failures>>

DeleteTarget(w) ==
  /\ pc[w] = "deleteTarget" /\ target[w] \notin deleted
  /\ Delete(target[w])
  /\ pc' = [pc EXCEPT ![w] = "deleteCommand"]
  /\ UNCHANGED <<chatVars, banVars, msg, target, due, failed, failures>>

DeleteCommand(w) ==
  /\ pc[w] = "deleteCommand" /\ msg[w] \notin deleted
  /\ Delete(msg[w])
  /\ Return(w)
  /\ UNCHANGED <<chatVars, banVars, failures>>

\* The loop over targets: the message itself, then what it replies to.
OnlyFirstTarget(w) == Return(w)

NextTarget(w) ==
  IF target[w] = msg[w] /\ chat[msg[w]].reply # NoMessage
  THEN /\ target' = [target EXCEPT ![w] = chat[msg[w]].reply]
       /\ pc' = [pc EXCEPT ![w] = "isBlocked"]
       /\ UNCHANGED <<msg, due, failed>>
  ELSE Return(w)

NotBlocked(w) ==
  /\ pc[w] = "isBlocked" /\ chat[target[w]].content \notin index
  /\ NextTarget(w)
  /\ UNCHANGED <<chatVars, banVars, deleteVars, failures>>

IsBlocked(w) ==
  /\ pc[w] = "isBlocked" /\ chat[target[w]].content \in index
  /\ pc' = [pc EXCEPT ![w] = "delete"]
  /\ UNCHANGED <<chatVars, banVars, msg, target, due, deleteVars, failed, failures>>

DeleteRepost(w) ==
  /\ pc[w] = "delete" /\ target[w] \notin deleted
  /\ Delete(target[w])
  /\ NextTarget(w)
  /\ UNCHANGED <<chatVars, banVars, failures>>

-----------------------------------------------------------------------------
WorkerStep(w) ==
  \/ TakeMessage(w) \/ TakeMessageAgain(w)
  \/ RefuseBan(w) \/ AcceptBan(w)
  \/ BlockCommits(w) \/ CommitAnswerLost(w) \/ BlockFindsBan(w) \/ BlockConflicts(w)
  \/ ApplyBlock(w)
  \/ DeleteTarget(w) \/ DeleteCommand(w) \/ DeleteFails(w)
  \/ NotBlocked(w) \/ IsBlocked(w) \/ DeleteRepost(w)
  \/ CallFails(w)

Next ==
  \/ \E m \in Message : Post(m)
  \/ \E m \in Messages : DeletedByOthers(m)
  \/ \E c \in Contents : BannedElsewhere(c) \/ CatchUp(c)
  \/ \E w \in Workers : WorkerStep(w)

Spec == Init /\ [][Next]_vars

-----------------------------------------------------------------------------
(* The inductive invariant behind the properties.                          *)

\* A message replies to an earlier one, and a command carries no media.
RepliesGoBack ==
  \A m \in 1..Len(chat) :
    /\ chat[m].reply < m
    /\ chat[m].command # "none" => chat[m].content = NoContent

\* The media of a message are banned by now, and this index knows it.
Enforced(m) == chat[m].content \in banned \cap index

\* The stages of a /ban: who may, what is stored, applied and deleted.
Banning(w) ==
  /\ pc[w] \in {"isAdmin", "block", "apply", "deleteTarget", "deleteCommand"} =>
       msg[w] \in 1..Len(chat) /\ chat[msg[w]].command = "ban"
       /\ target[w] = chat[msg[w]].reply /\ due[w] = {}
  /\ pc[w] \in {"block", "apply", "deleteTarget", "deleteCommand"} =>
       chat[msg[w]].admin /\ target[w] # NoMessage /\ chat[target[w]].content # NoContent
  /\ pc[w] = "apply" => chat[target[w]].content \in banned
  /\ pc[w] \in {"deleteTarget", "deleteCommand"} => Enforced(target[w])
  /\ pc[w] = "deleteCommand" => target[w] \in deleted

\* The loop over targets: those behind it are deleted or were not blocked.
Reposts(w) ==
  /\ pc[w] \in {"isBlocked", "delete"} =>
       /\ msg[w] \in 1..Len(chat) /\ chat[msg[w]].command = "none"
       /\ target[w] \in Targets(msg[w])
       /\ due[w] \subseteq Targets(msg[w])
       /\ \A t \in due[w] : chat[t].content \in index
       /\ target[w] # msg[w] /\ msg[w] \in due[w] => msg[w] \in deleted
  /\ pc[w] = "delete" => Enforced(target[w])
  /\ pc[w] = "idle" => due[w] = {}

\* What the bot removed: a blocked message, or a /ban that is done.
RemovalsAreEarned ==
  \A m \in removed :
    IF chat[m].command = "ban"
    THEN /\ chat[m].admin /\ chat[m].reply # NoMessage
         /\ Enforced(chat[m].reply) /\ chat[m].reply \in deleted
    ELSE Enforced(m)

ModerationInvariant ==
  /\ TypeOK /\ RepliesGoBack /\ index \subseteq banned
  /\ \A w \in Workers : Banning(w) /\ Reposts(w)
  /\ RemovalsAreEarned

-----------------------------------------------------------------------------
(* Properties.                                                             *)

\* What the bot deletes is banned by then, durably; a command goes only with
\* its ban.
NothingRemovedUnbanned ==
  \A m \in removed :
    IF chat[m].command = "ban"
    THEN chat[m].admin /\ chat[chat[m].reply].content \in banned
    ELSE chat[m].content \in banned

\* The command disappears last: where it is gone, its target is.
CommandGoesLast ==
  \A m \in removed : chat[m].command = "ban" => chat[m].reply \in deleted

\* An acknowledged /ban is enforced by this process from then on, also when
\* the ban was another worker's or another replica's.
AcknowledgedIsEnforced ==
  \A m \in removed : chat[m].command = "ban" => chat[chat[m].reply].content \in index

\* A handler that returns without an error has left neither the message nor
\* what it replies to in the chat if their media was in the index before.
NothingBlockedRemains ==
  [][\A w \in Workers :
       pc[w] # "idle" /\ pc'[w] = "idle" /\ msg[w] \notin failed' => due[w] \subseteq deleted']_vars

\* What HandleMessage and its surroundings do to the two sets of media is
\* what the blacklist promises: bans are durable, and an index grows by
\* committed bans only.  So the synchronisation, which keeps that promise,
\* stands behind this module.
AllIndexes(c) == {"index"}
Blacklist == INSTANCE ReplicatedBlacklist
  WITH Ban <- Contents, Replica <- {"bot"}, Index <- {"index"}, Covers <- AllIndexes,
       bans <- banned, enforced <- [r \in {"bot"} |-> [i \in {"index"} |-> index]]
HandlersImplementBlacklist == Blacklist!Spec

=============================================================================
