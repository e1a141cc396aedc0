--------------------------- MODULE AIVectorIndex ---------------------------
(***************************************************************************)
(* The AI-vector service: a FAISS index in memory, a file of it on the     *)
(* disk of the pod, and one row in PostgreSQL that says for which active   *)
(* bans the file was written and what its checksum is.                     *)
(*                                                                         *)
(* VectorIndexService runs one operation at a time (_lock): POST /ban      *)
(* (add_ban), a search, or a ban event handed over by the catch-up         *)
(* (apply_existing_ban).  Every statement inside commits on its own, while *)
(* the bots go on committing bans in the same tables.  IndexSync has the   *)
(* event positions and batches of the catch-up, BanTransaction the         *)
(* conflicts of the INSERTs; here a batch is one event and the log is in   *)
(* commit order.  An event whose ban commits behind the checkpoint is not  *)
(* in this log: the catch-up never reads it (run sync_overtaken).          *)
(***************************************************************************)
EXTENDS Naturals, SequencesExt

CONSTANTS
  Services,      \* processes of the AI service
  Signatures,    \* vector signatures of media
  Bot, Nobody,   \* owners of a ban row besides the services
  NoSignature,   \* of a ban id that is not used yet
  NotLoaded,     \* self._index is None
  NoFile, BadFile,
  NoState,       \* no row in ai_vector_index_state
  MaxBans,       \* bound: ids drawn from the BIGSERIAL
  MaxEvents,     \* bound: events in the outbox
  MaxFailures,   \* bound: failing statements
  MaxCrashes     \* bound: lost processes

Ids == 1..MaxBans
NoBan == 0  \* in an event: the AI-vector row belongs to another ban
Index == [vectors : Seq(Ids), refs : Seq(Ids)]

ASSUME ConstantsAssumption ==
  /\ Bot \notin Services /\ Nobody \notin Services \cup {Bot}
  /\ NoSignature \notin Signatures
  /\ NotLoaded \notin Index
  /\ {MaxBans, MaxEvents, MaxFailures, MaxCrashes} \subseteq Nat

VARIABLES
  status,     \* per id: ai_vector_ban row unused, uncommitted, active or not
  signature,  \* per id: its vector_signature
  creator,    \* per id: who inserted it
  nextId,     \* BIGSERIAL
  log,        \* ban events in the outbox
  state,      \* row of ai_vector_index_state
  file,       \* per service: the index file, the bans of its vectors in order
  index,      \* per service: self._index, vectors and the refs beside them
  cursor,     \* per service: events applied according to its checkpoint
  stale,      \* per service: stale flag of its checkpoint
  pc,         \* per service: next step of the operation under the lock
  op,         \* per service: its kind
  request,    \* per service: signature POST /ban was called with
  ban,        \* per service: ban of the event, or the one it created
  snapshot,   \* per service: active bans read last
  answered,   \* history: bans a POST /ban was answered with
  orphaned,   \* history: bans of a failed POST /ban that stayed active
  failures, crashes

dbVars == <<status, signature, creator, nextId, log, state>>
bounds == <<orphaned, failures, crashes>>
opVars == <<pc, op, request, ban, snapshot>>
vars == <<dbVars, file, index, cursor, stale, opVars, answered, bounds>>

-----------------------------------------------------------------------------
Committed == {i \in Ids : status[i] \in {"active", "inactive"}}
Active == {i \in Ids : status[i] = "active"}

\* ORDER BY b.id
Ascending(A) ==
  CHOOSE q \in [1..Cardinality(A) -> A] : \A m, n \in DOMAIN q : m < n => q[m] < q[n]
IndexOf(s) == [vectors |-> s, refs |-> s]

TypeOK ==
  /\ status \in [Ids -> {"unused", "open", "active", "inactive"}]
  /\ signature \in [Ids -> Signatures \cup {NoSignature}]
  /\ creator \in [Ids -> Services \cup {Bot, Nobody}]
  /\ nextId \in 1..(MaxBans + 1)
  /\ log \in Seq(Ids \cup {NoBan}) /\ Len(log) <= MaxEvents
  /\ state \in {NoState} \cup [vectors : SUBSET Ids, sha : Seq(Ids)]
  /\ file \in [Services -> {NoFile, BadFile} \cup Seq(Ids)]
  /\ index \in [Services -> {NotLoaded} \cup Index]
  /\ cursor \in [Services -> 0..Len(log)]
  /\ request \in [Services -> Signatures \cup {NoSignature}]
  /\ stale \in [Services -> BOOLEAN]
  /\ pc \in [Services ->
       {"idle", "load", "loaded", "save", "record", "insert", "add"}]
  /\ op \in [Services -> {"none", "ban", "apply", "search"}]
  /\ ban \in [Services -> Ids \cup {NoBan}]
  /\ snapshot \in [Services -> SUBSET Ids]
  /\ answered \subseteq Ids /\ orphaned \subseteq Ids
  /\ failures \in 0..MaxFailures /\ crashes \in 0..MaxCrashes

Init ==
  /\ status = [i \in Ids |-> "unused"]
  /\ signature = [i \in Ids |-> NoSignature]
  /\ creator = [i \in Ids |-> Nobody]
  /\ nextId = 1 /\ log = <<>> /\ state = NoState
  /\ file = [s \in Services |-> NoFile]
  /\ index = [s \in Services |-> NotLoaded]
  /\ cursor = [s \in Services |-> 0]
  /\ stale = [s \in Services |-> FALSE]
  /\ pc = [s \in Services |-> "idle"]
  /\ op = [s \in Services |-> "none"]
  /\ request = [s \in Services |-> NoSignature]
  /\ ban = [s \in Services |-> NoBan]
  /\ snapshot = [s \in Services |-> {}]
  /\ answered = {} /\ orphaned = {} /\ failures = 0 /\ crashes = 0

-----------------------------------------------------------------------------
(* The bots, writing the tables on their own (aivector PersistBlock).      *)

NewRow(i, g, who, how) ==
  /\ nextId <= MaxBans /\ i = nextId
  /\ \A j \in Ids : status[j] # "unused" => signature[j] # g
  /\ nextId' = nextId + 1
  /\ status' = [status EXCEPT ![i] = how]
  /\ signature' = [signature EXCEPT ![i] = g]
  /\ creator' = [creator EXCEPT ![i] = who]

BotInsert(g) ==
  /\ NewRow(nextId, g, Bot, "open")
  /\ UNCHANGED <<log, state, file, index, cursor, stale, opVars, answered, bounds>>

\* The position of the event was drawn before the commit; events the
\* catch-up reads come in the order of their positions.
BotCommit(i) ==
  /\ status[i] = "open" /\ Len(log) < MaxEvents
  /\ status' = [status EXCEPT ![i] = "active"]
  /\ log' = Append(log, i)
  /\ UNCHANGED <<signature, creator, nextId, state, file, index, cursor, stale, opVars,
                 answered, bounds>>

BotRollBack(i) ==
  /\ status[i] = "open"
  /\ status' = [status EXCEPT ![i] = "unused"]
  /\ UNCHANGED <<signature, creator, nextId, log, state, file, index, cursor, stale, opVars,
                 answered, bounds>>

\* Another artifact of the media is new, its vectors are known already.
BotBansKnownVectors ==
  /\ Committed # {} /\ Len(log) < MaxEvents
  /\ log' = Append(log, NoBan)
  /\ UNCHANGED <<status, signature, creator, nextId, state, file, index, cursor, stale, opVars,
                 answered, bounds>>

-----------------------------------------------------------------------------
(* An operation of the service, from the lock to its release.              *)

\* _index_for_dimension comes first, except that a new index is loaded.
Begin(s, kind, first) ==
  /\ pc[s] = "idle"
  /\ op' = [op EXCEPT ![s] = kind]
  /\ pc' = [pc EXCEPT ![s] = IF index[s] = NotLoaded THEN "load" ELSE first]
  /\ UNCHANGED <<dbVars, file, index, snapshot, answered, bounds>>

Released(s) ==
  /\ pc' = [pc EXCEPT ![s] = "idle"]
  /\ op' = [op EXCEPT ![s] = "none"]
  /\ request' = [request EXCEPT ![s] = NoSignature]
  /\ ban' = [ban EXCEPT ![s] = NoBan]
  /\ snapshot' = [snapshot EXCEPT ![s] = {}]

\* The operation returns normally.
Finish(s, b) ==
  /\ answered' = IF op[s] = "ban" THEN answered \cup {b} ELSE answered
  /\ cursor' = IF op[s] = "apply" THEN [cursor EXCEPT ![s] = @ + 1] ELSE cursor
  /\ stale' = IF op[s] = "apply" THEN [stale EXCEPT ![s] = FALSE] ELSE stale
  /\ Released(s)

\* The operation raises: add_ban takes the ban it created back and drops the
\* index, an event leaves the checkpoint stale.
RaiseAndKeepIndex(s) ==
  /\ status' = IF op[s] = "ban" /\ ban[s] # NoBan
               THEN [status EXCEPT ![ban[s]] = "inactive"] ELSE status
  /\ index' = index
  /\ stale' = IF op[s] = "apply" THEN [stale EXCEPT ![s] = TRUE] ELSE stale
  /\ Released(s)
  /\ UNCHANGED <<signature, creator, nextId, log, state, cursor, answered>>

Raise(s) ==
  /\ status' = IF op[s] = "ban" /\ ban[s] # NoBan
               THEN [status EXCEPT ![ban[s]] = "inactive"] ELSE status
  /\ index' = IF op[s] = "ban" /\ ban[s] # NoBan
              THEN [index EXCEPT ![s] = NotLoaded] ELSE index
  /\ stale' = IF op[s] = "apply" THEN [stale EXCEPT ![s] = TRUE] ELSE stale
  /\ Released(s)
  /\ UNCHANGED <<signature, creator, nextId, log, state, cursor, answered>>

PostBan(s) ==
  /\ \E g \in Signatures : request' = [request EXCEPT ![s] = g]
  /\ Begin(s, "ban", "insert")
  /\ UNCHANGED <<cursor, stale, ban>>

\* Only the first search loads the index; the others change nothing.
PostSearch(s) ==
  /\ index[s] = NotLoaded
  /\ Begin(s, "search", "load")
  /\ UNCHANGED <<cursor, stale, request, ban>>

\* apply_existing_ban of the next event; without an AI-vector row: "skipped".
ApplyEvent(s) ==
  /\ cursor[s] < Len(log) /\ log[cursor[s] + 1] # NoBan
  /\ ban' = [ban EXCEPT ![s] = log[cursor[s] + 1]]
  /\ Begin(s, "apply", "add")
  /\ UNCHANGED <<cursor, stale, request>>

SkipEventAndNext(s) ==
  /\ pc[s] = "idle"
  /\ cursor[s] < Len(log) /\ log[cursor[s] + 1] = NoBan
  /\ cursor' = [cursor EXCEPT ![s] = @ + 2]
  /\ stale' = [stale EXCEPT ![s] = FALSE]
  /\ UNCHANGED <<dbVars, file, index, opVars, answered, bounds>>

SkipEventAndWait(s) ==
  /\ pc[s] = "idle"
  /\ cursor[s] < Len(log) /\ log[cursor[s] + 1] = NoBan
  /\ stale' = [stale EXCEPT ![s] = FALSE]
  /\ UNCHANGED <<dbVars, file, index, cursor, opVars, answered, bounds>>

SkipEvent(s) ==
  /\ pc[s] = "idle"
  /\ cursor[s] < Len(log) /\ log[cursor[s] + 1] = NoBan
  /\ cursor' = [cursor EXCEPT ![s] = @ + 1]
  /\ stale' = [stale EXCEPT ![s] = FALSE]
  /\ UNCHANGED <<dbVars, file, index, opVars, answered, bounds>>

-----------------------------------------------------------------------------
(* load_or_rebuild.                                                        *)

ReadActiveBans(s) ==
  /\ pc[s] = "load"
  /\ snapshot' = [snapshot EXCEPT ![s] = Active]
  /\ pc' = [pc EXCEPT ![s] = "loaded"]
  /\ UNCHANGED <<dbVars, file, index, cursor, stale, op, request, ban, answered, bounds>>

StateMatchesCount(s) ==
  /\ state # NoState
  /\ Cardinality(state.vectors) = Cardinality(snapshot[s])
  /\ file[s] = state.sha

\* The state row is about these bans, and the file has its checksum.
StateMatches(s) ==
  /\ state # NoState
  /\ state.vectors = snapshot[s]
  /\ file[s] = state.sha

\* What follows on _index_for_dimension.
IndexReady(s) ==
  IF op[s] = "search" THEN Finish(s, NoBan)
  ELSE /\ pc' = [pc EXCEPT ![s] = IF op[s] = "ban" THEN "insert" ELSE "add"]
       /\ snapshot' = [snapshot EXCEPT ![s] = {}]
       /\ UNCHANGED <<cursor, stale, op, request, ban, answered>>

\* The vectors are those of the file, the refs those of the database.
LoadFile(s) ==
  /\ pc[s] = "loaded" /\ StateMatches(s)
  /\ index' = [index EXCEPT ![s] = [vectors |-> file[s], refs |-> Ascending(snapshot[s])]]
  /\ IndexReady(s)
  /\ UNCHANGED <<dbVars, file, bounds>>

Rebuild(s) ==
  /\ pc[s] = "loaded" /\ ~StateMatches(s)
  /\ pc' = [pc EXCEPT ![s] = "save"]
  /\ UNCHANGED <<dbVars, file, index, cursor, stale, op, request, ban, snapshot, answered, bounds>>

-----------------------------------------------------------------------------
(* save: of the rebuilt index, or of self._index after an addition.        *)

Saved(s) == IF index[s] = NotLoaded THEN IndexOf(Ascending(snapshot[s])) ELSE index[s]

WriteFileOfSameBans(s) ==
  /\ pc[s] = "save" /\ ToSet(Saved(s).refs) = Active
  /\ file' = [file EXCEPT ![s] = Saved(s).vectors]
  /\ snapshot' = [snapshot EXCEPT ![s] = Active]
  /\ pc' = [pc EXCEPT ![s] = "record"]
  /\ UNCHANGED <<dbVars, index, cursor, stale, op, request, ban, answered, bounds>>

\* The active bans are read once more; the file is written if they agree,
\* and their hash will go into the state row with the file's checksum.
WriteFile(s) ==
  /\ pc[s] = "save" /\ Saved(s).refs = Ascending(Active)
  /\ file' = [file EXCEPT ![s] = Saved(s).vectors]
  /\ snapshot' = [snapshot EXCEPT ![s] = Active]
  /\ pc' = [pc EXCEPT ![s] = "record"]
  /\ UNCHANGED <<dbVars, index, cursor, stale, op, request, ban, answered, bounds>>

SaveRefused(s) ==
  /\ pc[s] = "save" /\ Saved(s).refs # Ascending(Active)
  /\ Raise(s)
  /\ UNCHANGED <<file, bounds>>

SaveIndexState(s) ==
  /\ pc[s] = "record"
  /\ state' = [vectors |-> snapshot[s], sha |-> file[s]]
  /\ IF index[s] = NotLoaded
     THEN index' = [index EXCEPT ![s] = Saved(s)] /\ IndexReady(s)
     ELSE UNCHANGED index /\ Finish(s, ban[s])
  /\ UNCHANGED <<status, signature, creator, nextId, log, file, bounds>>

-----------------------------------------------------------------------------
(* add_ban and apply_existing_ban, once the index is there.                *)

\* insert_ban_result finds the signature, active or not.
BanKnown(s) ==
  /\ pc[s] = "insert"
  /\ \E i \in Committed : signature[i] = request[s] /\ Finish(s, i)
  /\ UNCHANGED <<dbVars, file, index, bounds>>

InsertBanWithoutIndex(s) ==
  /\ pc[s] = "insert"
  /\ NewRow(nextId, request[s], s, "active")
  /\ Finish(s, nextId)
  /\ UNCHANGED <<log, state, file, index, bounds>>

InsertBan(s) ==
  /\ pc[s] = "insert"
  /\ NewRow(nextId, request[s], s, "active")
  /\ ban' = [ban EXCEPT ![s] = nextId]
  /\ pc' = [pc EXCEPT ![s] = "add"]
  /\ UNCHANGED <<log, state, file, index, cursor, stale, op, request, snapshot, answered, bounds>>

\* Another transaction committed the signature between the SELECT and the
\* INSERT, which breaks the unique key (or the bound on ids is reached).
InsertFails(s) ==
  /\ pc[s] = "insert"
  /\ nextId > MaxBans \/ \E i \in Committed : signature[i] = request[s]
  /\ Raise(s)
  /\ UNCHANGED <<file, bounds>>

\* index.add_ban leaves out what is there: "already_applied".
AlreadyApplied(s) ==
  /\ pc[s] = "add" /\ op[s] = "apply" /\ ban[s] \in ToSet(index[s].refs)
  /\ Finish(s, ban[s])
  /\ UNCHANGED <<dbVars, file, index, bounds>>

AddToIndex(s) ==
  /\ pc[s] = "add" /\ ban[s] \notin ToSet(index[s].refs)
  /\ index' = [index EXCEPT ![s] = IndexOf(Append(@.refs, ban[s]))]
  /\ pc' = [pc EXCEPT ![s] = "save"]
  /\ UNCHANGED <<dbVars, file, cursor, stale, op, request, ban, snapshot, answered, bounds>>

-----------------------------------------------------------------------------
(* Failures.                                                               *)

StatementFails(s) ==
  /\ pc[s] # "idle" /\ failures < MaxFailures
  /\ failures' = failures + 1
  /\ Raise(s)
  /\ UNCHANGED <<file, orphaned, crashes>>

\* The database is gone for deactivate_ban as well: the ban stays active.
DeactivationFails(s) ==
  /\ op[s] = "ban" /\ ban[s] # NoBan /\ failures < MaxFailures
  /\ failures' = failures + 1
  /\ orphaned' = orphaned \cup {ban[s]}
  /\ Released(s)
  /\ UNCHANGED <<dbVars, file, index, cursor, stale, answered, crashes>>

\* The pod is replaced or the process restarts; a file that was being written
\* is cut off.
Crash(s) ==
  /\ crashes < MaxCrashes
  /\ crashes' = crashes + 1
  /\ index' = [index EXCEPT ![s] = NotLoaded]
  /\ \E f \in {file[s], NoFile} \cup (IF pc[s] = "save" THEN {BadFile} ELSE {}) :
       file' = [file EXCEPT ![s] = f]
  /\ Released(s)
  /\ UNCHANGED <<dbVars, cursor, stale, answered, orphaned, failures>>

-----------------------------------------------------------------------------
BotStep ==
  \/ \E g \in Signatures : BotInsert(g)
  \/ \E i \in Ids : BotCommit(i) \/ BotRollBack(i)
  \/ BotBansKnownVectors

Continue(s) ==
  \/ ReadActiveBans(s) \/ LoadFile(s) \/ Rebuild(s)
  \/ WriteFile(s) \/ SaveRefused(s) \/ SaveIndexState(s)
  \/ BanKnown(s) \/ InsertBan(s) \/ InsertFails(s) \/ AlreadyApplied(s) \/ AddToIndex(s)

ServiceStep(s) ==
  \/ PostBan(s) \/ PostSearch(s) \/ ApplyEvent(s) \/ SkipEvent(s)
  \/ Continue(s)
  \/ StatementFails(s) \/ DeactivationFails(s) \/ Crash(s)

Next == BotStep \/ \E s \in Services : ServiceStep(s)

Spec == Init /\ [][Next]_vars

\* A statement returns and the code goes on; the catch-up, started again by
\* its interval, gets the lock in the end; the bots' transactions end.
Fairness ==
  /\ \A i \in Ids : WF_vars(BotCommit(i) \/ BotRollBack(i))
  /\ \A s \in Services : WF_vars(Continue(s)) /\ SF_vars(ApplyEvent(s)) /\ SF_vars(SkipEvent(s))

FairSpec == Spec /\ Fairness

-----------------------------------------------------------------------------
(* Properties.                                                             *)

\* A vector is always looked up under the ban it was computed for, also when
\* the vectors come from a file of an earlier life and the refs from today's
\* tables, and when several services share the state row.
VectorsMatchRefs ==
  \A s \in Services : index[s] # NotLoaded => index[s].vectors = index[s].refs

\* What the checkpoint counts as applied is in the index, or will be loaded
\* with it; dropping and reloading the index loses nothing.
AppliedInIndex ==
  \A s \in Services : \A e \in 1..cursor[s] :
    log[e] # NoBan /\ index[s] # NotLoaded => log[e] \in ToSet(index[s].vectors)

\* A ban the service has taken back is not enforced by its index.
FailedBanForgotten ==
  \A s \in Services : \A i \in Ids :
    status[i] = "inactive" /\ creator[i] = s /\ index[s] # NotLoaded
      => i \notin ToSet(index[s].refs)

\* A POST /ban answered with success has its ban enforced by the service that
\* created it, once it has been added there: as long as the ban is active and
\* was not left behind by a failed request.
AnsweredIsEnforced ==
  \A s \in Services : \A i \in answered :
    creator[i] = s /\ status[i] = "active" /\ i \notin orphaned
        /\ i # ban[s] /\ index[s] # NotLoaded
      => i \in ToSet(index[s].refs)

\* Every ban event the catch-up reads is applied in the end, however often
\* saving is refused.  The log is in commit order: an event that commits
\* behind the checkpoint is never read and not covered here.
EveryEventApplied ==
  \A s \in Services : \A e \in 1..MaxEvents : Len(log) >= e ~> cursor[s] >= e

\* A ban POST /ban answers with is active: test_api.py expects so of a ban
\* that was known already.
AnsweredIsActive == \A i \in answered : status[i] = "active"

\* The catch-up over two new bans succeeds unless something fails:
\* test_index_events.py expects so of IndexSynchronizer.
StaleOnlyAfterFailure == failures = 0 => \A s \in Services : ~stale[s]

-----------------------------------------------------------------------------
(* Why VectorsMatchRefs holds: the inductive invariant.                    *)

\* The state row pairs a set of bans with the checksum of a file of exactly
\* these, in the order of their ids; so does every save before its row is
\* written.
StateDescribesFile == state # NoState => state.sha = Ascending(state.vectors)
SavingWhatWasRead ==
  \A s \in Services : pc[s] = "record" =>
    file[s] = Saved(s).vectors /\ Saved(s).refs = Ascending(snapshot[s])
PerService ==
  /\ DOMAIN index = Services /\ DOMAIN file = Services
  /\ DOMAIN pc = Services /\ DOMAIN snapshot = Services

VectorInvariant ==
  PerService /\ StateDescribesFile /\ SavingWhatWasRead /\ VectorsMatchRefs

-----------------------------------------------------------------------------
(* Why the index enforces what it should: the inductive invariant of       *)
(* AppliedInIndex, FailedBanForgotten and AnsweredIsEnforced.              *)

\* Ids are drawn once; only bots leave a row uncommitted, and only their bans
\* have events.
FreshIds == \A i \in Ids : i >= nextId => status[i] = "unused"
OpenIsBots == \A i \in Ids : status[i] = "open" => creator[i] = Bot
LoggedIsActive ==
  \A e \in DOMAIN log : log[e] # NoBan => status[log[e]] = "active" /\ creator[log[e]] = Bot

\* Which ban an operation is about, and when the index is there.
Loading(s) == pc[s] \in {"load", "loaded", "save", "record"} /\ index[s] = NotLoaded
AtStep(s) ==
  /\ pc[s] = "idle" <=> op[s] = "none"
  /\ op[s] \in {"none", "search"} => ban[s] = NoBan
  /\ op[s] = "search" => Loading(s)
  /\ op[s] = "apply" => cursor[s] < Len(log) /\ ban[s] = log[cursor[s] + 1] /\ ban[s] # NoBan
  /\ op[s] = "ban" /\ ban[s] # NoBan => creator[ban[s]] = s /\ status[ban[s]] = "active"
  /\ op[s] = "ban" /\ Loading(s) => ban[s] = NoBan
  /\ pc[s] \in {"load", "loaded"} => index[s] = NotLoaded
  /\ pc[s] = "insert" => op[s] = "ban" /\ ban[s] = NoBan /\ index[s] # NotLoaded
  /\ pc[s] = "add" => ban[s] # NoBan /\ index[s] # NotLoaded
  /\ pc[s] \in {"save", "record"} /\ index[s] # NotLoaded =>
       ban[s] # NoBan /\ ban[s] \in ToSet(index[s].refs)
OperationAtStep == \A s \in Services : AtStep(s)

\* The bans s answers for: those it created and did not fail to take back,
\* but for the one in progress, and those of the events it has counted.
Owed(s) ==
  {i \in Ids : status[i] = "active" /\ creator[i] = s /\ i \notin orphaned /\ i # ban[s]}
    \cup ({log[e] : e \in 1..cursor[s]} \ {NoBan})
TakenBack(s) == {i \in Ids : status[i] = "inactive" /\ creator[i] = s}
Enforces(s, bans) == Owed(s) \subseteq bans /\ TakenBack(s) \cap bans = {}

IndexEnforces ==
  \A s \in Services : index[s] # NotLoaded => Enforces(s, ToSet(index[s].refs))
SnapshotEnforces ==
  \A s \in Services : Loading(s) /\ pc[s] # "load" => Enforces(s, snapshot[s])

EnforcementInvariant ==
  /\ TypeOK /\ VectorInvariant
  /\ FreshIds /\ OpenIsBots /\ LoggedIsActive /\ OperationAtStep
  /\ IndexEnforces /\ SnapshotEnforces

-----------------------------------------------------------------------------
(* What the service is for.                                                *)

\* Rows a transaction was committed for, also those taken back since: what a
\* service has read or built its index from is among them.
ReadIsCommitted ==
  \A s \in Services :
    /\ snapshot[s] \subseteq Committed
    /\ index[s] # NotLoaded => ToSet(index[s].refs) \subseteq Committed

\* A service without an index enforces nothing until it has loaded one.
Held(s) == IF index[s] = NotLoaded THEN {} ELSE ToSet(index[s].refs)
TheIndex(i) == {"index"}

\* The services implement the blacklist the installation promises: an index
\* enforces committed rows and drops one only together with the whole index.
Blacklist == INSTANCE ReplicatedBlacklist
  WITH Ban <- Ids, Replica <- Services, Index <- {"index"}, Covers <- TheIndex,
       bans <- Committed, enforced <- [s \in Services |-> [i \in {"index"} |-> Held(s)]]
ServicesImplementBlacklist == Blacklist!Spec

=============================================================================
