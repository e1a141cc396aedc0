--------------------------- MODULE BanTransaction ---------------------------
(***************************************************************************)
(* Concurrent /ban transactions on PostgreSQL (READ COMMITTED).            *)
(*                                                                         *)
(* BlockOrchestrator.Block inserts one artifact row per prepared handler,  *)
(* in the order of buildMatchers, into tables with a unique key; an insert *)
(* meets a row of another transaction by waiting for that transaction to   *)
(* end.  POST /ban of the AI service writes the same AI-vector table in a  *)
(* transaction of its own, without an outbox event.  Rows the service has  *)
(* deactivated keep their key and enforce nothing; AIVectorIndex has them, *)
(* here every row is active.                                               *)
(***************************************************************************)
EXTENDS Naturals

CONSTANTS
  Workers,     \* workers of the bots, able to run Block
  Threads,     \* request threads of the AI service, able to run add_ban
  Contents,    \* media an admin may ban
  NoContent,   \* outside of a transaction
  Tables,      \* artifact tables, numbered in handler order
  Exact,       \* blocked_exact: its insert has no SELECT behind it
  AIVector,    \* ai_vector_ban
  Keys, NoKey, \* unique keys; NoKey: the handler does not support the content
  KeyOf,       \* key of a content in a table
  MaxBans,     \* bound: ban_uids handed out
  MaxFailures  \* bound: failing statements and lost processes

Clients == Workers \cup Threads

ASSUME ConstantsAssumption ==
  /\ Workers \cap Threads = {}
  /\ Tables \subseteq 1..4
  /\ Exact \in Tables /\ AIVector \in Tables /\ Exact # AIVector
  /\ NoKey \notin Keys
  /\ KeyOf \in [Contents -> [Tables -> Keys \cup {NoKey}]]
  /\ NoContent \notin Contents
  /\ MaxBans \in Nat
  /\ MaxFailures \in Nat

VARIABLES
  bans,     \* committed rows of media_ban
  rows,     \* committed artifact rows
  events,   \* bans announced by a committed outbox event
  nextBan,  \* uuid.New: ban_uids are fresh
  pc,       \* per client: where its transaction is
  content,  \* what it bans
  ban,      \* its ban_uid
  todo,     \* tables its remaining inserts go to
  at,       \* table of the running INSERT
  seen,     \* clients whose INSERT began when the key was committed already
  own,      \* artifact rows it inserted and has not committed
  acked,    \* history: contents whose Block returned without error
  lost,     \* history: contents whose Block failed though the database did not
  failures  \* counter of the bound

dbVars == <<bans, rows, events>>
txVars == <<pc, content, ban, todo, at, seen, own>>
vars == <<dbVars, nextBan, txVars, acked, lost, failures>>

-----------------------------------------------------------------------------
Row == [table : Tables, key : Keys, ban : 1..MaxBans]

Prepared(c) == {t \in Tables : KeyOf[c][t] # NoKey}

\* The tables a client's transaction is to cover.
Targets(x) == IF x \in Workers THEN Prepared(content[x]) ELSE {AIVector}

Stored(t, k) == \E r \in rows : r.table = t /\ r.key = k
KeyAt(x) == KeyOf[content[x]][at[x]]

\* The clients whose open transaction holds the key that x is inserting.
Holders(x) ==
  {y \in Clients \ {x} : \E r \in own[y] : r.table = at[x] /\ r.key = KeyAt(x)}

\* The handlers run one after another in a fixed order.
AnyTable(x) == todo[x]
NextTable(x) == {t \in todo[x] : \A u \in todo[x] : t <= u}

TypeOK ==
  /\ bans \subseteq 1..MaxBans /\ rows \subseteq Row /\ events \subseteq bans
  /\ nextBan \in 1..(MaxBans + 1)
  /\ pc \in [Clients -> {"idle", "ready", "inserting"}]
  /\ content \in [Clients -> Contents \cup {NoContent}]
  /\ ban \in [Clients -> 0..MaxBans]
  /\ todo \in [Clients -> SUBSET Tables]
  /\ at \in [Clients -> Tables]
  /\ seen \subseteq Clients
  /\ own \in [Clients -> SUBSET Row]
  /\ acked \subseteq Contents /\ lost \subseteq Contents
  /\ failures \in 0..MaxFailures

Init ==
  /\ bans = {} /\ rows = {} /\ events = {} /\ nextBan = 1
  /\ pc = [x \in Clients |-> "idle"]
  /\ content = [x \in Clients |-> NoContent]
  /\ ban = [x \in Clients |-> 0]
  /\ todo = [x \in Clients |-> {}]
  /\ at = [x \in Clients |-> Exact]
  /\ seen = {}
  /\ own = [x \in Clients |-> {}]
  /\ acked = {} /\ lost = {} /\ failures = 0

-----------------------------------------------------------------------------
\* Block: the handlers are prepared, those that do not support the content
\* are skipped, the transaction begins with insertMediaBan.
StartWithEveryHandler(w) ==
  /\ pc[w] = "idle" /\ nextBan <= MaxBans
  /\ \E c \in Contents : content' = [content EXCEPT ![w] = c]
  /\ todo' = [todo EXCEPT ![w] = Tables]
  /\ ban' = [ban EXCEPT ![w] = nextBan]
  /\ nextBan' = nextBan + 1
  /\ pc' = [pc EXCEPT ![w] = "ready"]
  /\ UNCHANGED <<dbVars, at, seen, own, acked, lost, failures>>

StartBlock(w) ==
  /\ pc[w] = "idle" /\ nextBan <= MaxBans
  /\ \E c \in Contents :
       /\ Prepared(c) # {}
       /\ content' = [content EXCEPT ![w] = c]
       /\ todo' = [todo EXCEPT ![w] = Prepared(c)]
  /\ ban' = [ban EXCEPT ![w] = nextBan]
  /\ nextBan' = nextBan + 1
  /\ pc' = [pc EXCEPT ![w] = "ready"]
  /\ UNCHANGED <<dbVars, at, seen, own, acked, lost, failures>>

\* insert_ban_result: its SELECT finds no row, so it inserts media_ban and
\* goes on to a plain INSERT into ai_vector_ban.
StartServiceBan(s) ==
  /\ pc[s] = "idle" /\ nextBan <= MaxBans
  /\ \E c \in Contents :
       /\ AIVector \in Prepared(c) /\ ~Stored(AIVector, KeyOf[c][AIVector])
       /\ content' = [content EXCEPT ![s] = c]
  /\ todo' = [todo EXCEPT ![s] = {AIVector}]
  /\ at' = [at EXCEPT ![s] = AIVector]
  /\ seen' = seen \ {s}
  /\ ban' = [ban EXCEPT ![s] = nextBan]
  /\ nextBan' = nextBan + 1
  /\ pc' = [pc EXCEPT ![s] = "inserting"]
  /\ UNCHANGED <<dbVars, own, acked, lost, failures>>

\* PersistBlock of the next handler: the statement takes its snapshot.
BeginInsert(w) ==
  /\ pc[w] = "ready"
  /\ \E t \in NextTable(w) :
       /\ at' = [at EXCEPT ![w] = t]
       /\ seen' = IF Stored(t, KeyOf[content[w]][t]) THEN seen \cup {w} ELSE seen
  /\ pc' = [pc EXCEPT ![w] = "inserting"]
  /\ UNCHANGED <<dbVars, nextBan, content, ban, todo, own, acked, lost, failures>>

Inserted(x) ==
  /\ pc' = [pc EXCEPT ![x] = "ready"]
  /\ todo' = [todo EXCEPT ![x] = @ \ {at[x]}]
  /\ at' = [at EXCEPT ![x] = Exact]
  /\ seen' = seen \ {x}
  /\ UNCHANGED <<dbVars, nextBan, content, ban, acked, lost, failures>>

\* Nobody owns the key: the row is created, visible to others as a lock.
InsertRow(x) ==
  /\ pc[x] = "inserting" /\ Holders(x) = {} /\ ~Stored(at[x], KeyAt(x))
  /\ own' = [own EXCEPT ![x] = @ \cup {[table |-> at[x], key |-> KeyAt(x), ban |-> ban[x]]}]
  /\ Inserted(x)

\* ON CONFLICT DO NOTHING: a committed ban owns the key.  Exact counts the
\* affected rows; the other handlers SELECT the owner from the snapshot.
FindRowOfOpenTransaction(x) ==
  /\ pc[x] = "inserting"
  /\ (Stored(at[x], KeyAt(x)) /\ (at[x] = Exact \/ x \in seen)) \/ Holders(x) # {}
  /\ Inserted(x) /\ UNCHANGED own

FindRow(x) ==
  /\ pc[x] = "inserting" /\ Stored(at[x], KeyAt(x))
  /\ at[x] = Exact \/ x \in seen
  /\ Inserted(x) /\ UNCHANGED own

\* The transaction of x is over.
Ended(x) ==
  /\ pc' = [pc EXCEPT ![x] = "idle"]
  /\ content' = [content EXCEPT ![x] = NoContent]
  /\ ban' = [ban EXCEPT ![x] = 0]
  /\ todo' = [todo EXCEPT ![x] = {}]
  /\ at' = [at EXCEPT ![x] = Exact]
  /\ seen' = seen \ {x}
  /\ own' = [own EXCEPT ![x] = {}]
  /\ UNCHANGED nextBan

InsertFailsKeepsLocks(x) ==
  /\ pc[x] = "inserting" /\ Stored(at[x], KeyAt(x))
  /\ at[x] # Exact /\ x \notin seen
  /\ lost' = IF x \in Workers THEN lost \cup {content[x]} ELSE lost
  /\ pc' = [pc EXCEPT ![x] = "lost"]
  /\ UNCHANGED <<dbVars, nextBan, own, content, ban, todo, at, seen, acked, failures>>

\* The owner committed after the snapshot was taken: the INSERT does nothing
\* and the SELECT finds nothing, so Scan returns pgx.ErrNoRows (the plain
\* INSERT of the service violates the unique key).  The transaction fails.
InsertFails(x) ==
  /\ pc[x] = "inserting" /\ Stored(at[x], KeyAt(x))
  /\ at[x] # Exact /\ x \notin seen
  /\ lost' = IF x \in Workers THEN lost \cup {content[x]} ELSE lost
  /\ Ended(x)
  /\ UNCHANGED <<dbVars, acked, failures>>

\* The database, the context or the process fails.
RollBack(x) ==
  /\ pc[x] # "idle" /\ failures < MaxFailures
  /\ failures' = failures + 1
  /\ Ended(x)
  /\ UNCHANGED <<dbVars, acked, lost>>

Committed(x) ==
  /\ pc[x] = "ready" /\ todo[x] = {}
  /\ rows' = rows \cup own[x]
  /\ Ended(x)
  /\ UNCHANGED <<lost, failures>>

CommitKeepsEmptyBan(w) ==
  /\ Committed(w)
  /\ bans' = bans \cup {ban[w]}
  /\ events' = IF own[w] = {} THEN events ELSE events \cup {ban[w]}
  /\ acked' = acked \cup {content[w]}

CommitAnnouncesWholeBans(w) ==
  /\ Committed(w)
  /\ bans' = IF own[w] = {} THEN bans ELSE bans \cup {ban[w]}
  /\ events' = IF \A t \in Targets(w) : \E r \in own[w] : r.table = t
               THEN events \cup {ban[w]} ELSE events
  /\ acked' = acked \cup {content[w]}

\* Every handler persisted: deleteEmptyMediaBan if none created a row,
\* saveBanCreatedEvent otherwise, and the commit.
CommitBlock(w) ==
  /\ Committed(w)
  /\ bans' = IF own[w] = {} THEN bans ELSE bans \cup {ban[w]}
  /\ events' = IF own[w] = {} THEN events ELSE events \cup {ban[w]}
  /\ acked' = acked \cup {content[w]}

\* insert_ban_result returns: the service writes no outbox event.
CommitServiceBan(s) ==
  /\ Committed(s)
  /\ bans' = bans \cup {ban[s]}
  /\ UNCHANGED <<events, acked>>

-----------------------------------------------------------------------------
WorkerStep(w) == StartBlock(w) \/ BeginInsert(w) \/ CommitBlock(w)
ThreadStep(s) == StartServiceBan(s) \/ CommitServiceBan(s)
ClientStep(x) == InsertRow(x) \/ FindRow(x) \/ InsertFails(x) \/ RollBack(x)

Next ==
  \/ \E w \in Workers : WorkerStep(w)
  \/ \E s \in Threads : ThreadStep(s)
  \/ \E x \in Clients : ClientStep(x)

Spec == Init /\ [][Next]_vars

\* A statement that does not wait returns, and the code goes on to the next.
Fairness ==
  /\ \A w \in Workers : WF_vars(BeginInsert(w)) /\ WF_vars(CommitBlock(w))
  /\ \A s \in Threads : WF_vars(CommitServiceBan(s))
  /\ \A x \in Clients : WF_vars(InsertRow(x) \/ FindRow(x) \/ InsertFails(x))

FairSpec == Spec /\ Fairness

-----------------------------------------------------------------------------
(* Properties.                                                             *)

\* A /ban that was answered with success has a committed row in every table
\* that supports the content, also when other bans own some of its keys.
\* The row another ban owns is taken to be active: one that the AI service
\* has deactivated (storage.py:249) is the subject of AIVectorIndex.
SuccessMeansStored ==
  \A c \in acked : \A t \in Prepared(c) : Stored(t, KeyOf[c][t])

\* No committed ban is without an artifact (deleteEmptyMediaBan), and no
\* artifact without its ban.
BansHaveArtifacts == bans = {r.ban : r \in rows}

\* The transactions never wait for each other in a circle: PostgreSQL never
\* has to abort a /ban as a deadlock victim.
NoWaitCycle ==
  \A S \in (SUBSET Clients) \ {{}} :
    \E x \in S : pc[x] # "inserting" \/ Holders(x) \cap S = {}

\* Every Block and every add_ban comes to an end.
EveryBanReturns == \A x \in Clients : pc[x] # "idle" ~> pc[x] = "idle"

\* A /ban fails only if the database does: docs/tests.md has a /ban of an
\* admin block the target and delete it together with the command.
BanSucceedsWithoutFailure == lost = {}

\* The interleaved transactions are equivalent to atomic bans.
ArtifactsOfContent(c) == {<<t, KeyOf[c][t]>> : t \in Prepared(c)}
VectorOfContent(c) == {<<t, KeyOf[c][t]>> : t \in Prepared(c) \cap {AIVector}}
Atomic == INSTANCE AtomicBlacklist
  WITH Ban <- 1..MaxBans, Content <- Contents,
       ArtifactsOf <- ArtifactsOfContent, VectorOf <- VectorOfContent

\* Each commit records, in one step, exactly the keys nobody owned, and the
\* event of a ban of the bot with them.
ImplementsAtomicBlacklist == Atomic!Spec

-----------------------------------------------------------------------------
(* Why they hold: the inductive invariant.                                 *)

Processed(x) == Targets(x) \ todo[x]
RowOf(x, t) == [table |-> t, key |-> KeyOf[content[x]][t], ban |-> ban[x]]

\* An open transaction goes through its tables upwards; behind it every key
\* is its own or committed; what it owns is among those keys.
Orderly(x) ==
  /\ content[x] \in Contents /\ Targets(x) \subseteq Prepared(content[x])
  /\ ban[x] \in 1..MaxBans /\ ban[x] < nextBan /\ ban[x] \notin bans
  /\ todo[x] \subseteq Targets(x)
  /\ \A t \in Processed(x), u \in todo[x] : t < u
  /\ pc[x] = "inserting" => at[x] \in NextTable(x)
  /\ own[x] \subseteq {RowOf(x, t) : t \in Processed(x)}
  /\ \A t \in Processed(x) :
       RowOf(x, t) \in own[x] \/ (x \in Workers /\ Stored(t, KeyOf[content[x]][t]))
  /\ x \in Threads => x \notin seen
OpenIsOrderly == \A x \in Clients : IF pc[x] = "idle" THEN own[x] = {} ELSE Orderly(x)

\* A key has one owner, committed or not; a ban_uid one transaction.
KeyOwnedOnce ==
  \A x \in Clients : \A r \in own[x] :
    /\ ~Stored(r.table, r.key)
    /\ \A y \in Clients \ {x} : \A s \in own[y] : ~(s.table = r.table /\ s.key = r.key)
BanUidsFresh ==
  /\ \A b \in bans : b < nextBan
  /\ \A x, y \in Clients : x # y /\ pc[x] # "idle" /\ pc[y] # "idle" => ban[x] # ban[y]

\* The invariant the proofs rest on: the locks of the unique keys, and the
\* order in which they are taken.
BanInvariant ==
  /\ TypeOK /\ OpenIsOrderly /\ KeyOwnedOnce /\ BanUidsFresh
  /\ BansHaveArtifacts /\ SuccessMeansStored

=============================================================================
