------------------------- MODULE AIVectorIndexProofs -------------------------
(***************************************************************************)
(* Proofs about the AI-vector service, for any number of services, bans,   *)
(* events and failures.  First that it never attributes a vector to        *)
(* another ban: a file and the refs beside it are the same function of the *)
(* same set, whatever that function is.  Then what ORDER BY does, that the *)
(* index enforces the bans the service answers for, and that the services  *)
(* keep the promise of a replicated blacklist.                             *)
(***************************************************************************)
EXTENDS AIVectorIndex, FiniteSetTheorems, TLAPS

\* The parts of the state the argument is about, unchanged.
Untouched == UNCHANGED <<state, file, index, pc, snapshot>>

LEMMA InitVectorInvariant == Init => VectorInvariant
BY DEF Init, VectorInvariant, PerService, StateDescribesFile, SavingWhatWasRead, VectorsMatchRefs

LEMMA UntouchedInvariant == VectorInvariant /\ Untouched => VectorInvariant'
BY DEF Untouched, VectorInvariant, PerService, StateDescribesFile, SavingWhatWasRead,
       VectorsMatchRefs, Saved

\* What a step of s leaves alone of another service r.
Frame(r) ==
  pc'[r] = pc[r] /\ index'[r] = index[r] /\ snapshot'[r] = snapshot[r] /\ file'[r] = file[r]

\* A step of s: what has to be shown of s alone.
LEMMA OneService ==
  ASSUME VectorInvariant, NEW s \in Services, PerService', StateDescribesFile',
         \A r \in Services \ {s} : Frame(r),
         pc'[s] = "record" =>
           (file[s] = Saved(s).vectors /\ Saved(s).refs = Ascending(snapshot[s]))',
         index'[s] # NotLoaded => index'[s].vectors = index'[s].refs
  PROVE  VectorInvariant'
<1>1. ASSUME NEW r \in Services, pc'[r] = "record"
      PROVE  (file[r] = Saved(r).vectors /\ Saved(r).refs = Ascending(snapshot[r]))'
  <2>1. CASE r = s
    BY <2>1, <1>1
  <2>2. CASE r # s
    <3>1. Saved(r)' = Saved(r)
      BY <2>2 DEF Saved, Frame
    <3>. QED
      BY <3>1, <2>2, <1>1 DEF VectorInvariant, SavingWhatWasRead, Frame
  <2>. QED
    BY <2>1, <2>2
<1>2. SavingWhatWasRead'
  BY <1>1 DEF SavingWhatWasRead
<1>3. VectorsMatchRefs'
  BY DEF VectorInvariant, VectorsMatchRefs, Frame
<1>. QED
  BY <1>2, <1>3 DEF VectorInvariant

\* The steps between two saves: the state row and the file stay, the index
\* stays, grows by a ban together with its ref, or is dropped.
LEMMA BetweenSaves ==
  ASSUME VectorInvariant, NEW s \in Services, UNCHANGED <<state, file>>,
         NEW p, p # "record", pc' = [pc EXCEPT ![s] = p],
         snapshot' = snapshot \/ \E A : snapshot' = [snapshot EXCEPT ![s] = A],
         index' = index \/ index' = [index EXCEPT ![s] = NotLoaded]
                        \/ \E q : index' = [index EXCEPT ![s] = IndexOf(q)]
  PROVE  VectorInvariant'
<1>1. PerService' /\ \A r \in Services \ {s} : Frame(r)
  BY DEF VectorInvariant, PerService, Frame
<1>2. StateDescribesFile' /\ pc'[s] # "record"
  BY DEF VectorInvariant, StateDescribesFile, PerService
<1>3. index'[s] # NotLoaded => index'[s].vectors = index'[s].refs
  BY DEF VectorInvariant, VectorsMatchRefs, PerService, IndexOf
<1>. QED
  BY <1>1, <1>2, <1>3, OneService

-----------------------------------------------------------------------------
(* The steps that read or write the file and the state row.                *)

\* The file with the recorded checksum holds the vectors of the recorded
\* bans, which are those the refs come from.
LEMMA LoadFileInvariant ==
  ASSUME VectorInvariant, NEW s \in Services, LoadFile(s)
  PROVE  VectorInvariant'
<1>1. file[s] = Ascending(snapshot[s])
  BY DEF LoadFile, StateMatches, VectorInvariant, StateDescribesFile
<1>2. index' = [index EXCEPT ![s] = IndexOf(Ascending(snapshot[s]))]
  BY <1>1 DEF LoadFile, IndexOf
<1>3. /\ UNCHANGED <<state, file>>
      /\ \E p : p # "record" /\ pc' = [pc EXCEPT ![s] = p]
      /\ \E A : snapshot' = [snapshot EXCEPT ![s] = A]
  BY DEF LoadFile, IndexReady, Finish, Released, dbVars
<1>. QED
  BY <1>2, <1>3, BetweenSaves

\* The file is written from an index that agrees with what was just read.
LEMMA WriteFileInvariant ==
  ASSUME VectorInvariant, NEW s \in Services, WriteFile(s)
  PROVE  VectorInvariant'
<1>1. /\ file' = [file EXCEPT ![s] = Saved(s).vectors] /\ Saved(s).refs = Ascending(Active)
      /\ snapshot' = [snapshot EXCEPT ![s] = Active] /\ pc' = [pc EXCEPT ![s] = "record"]
      /\ UNCHANGED <<state, index>>
  BY DEF WriteFile, dbVars
<1>2. PerService' /\ \A r \in Services \ {s} : Frame(r)
  BY <1>1 DEF VectorInvariant, PerService, Frame
<1>3. file'[s] = Saved(s).vectors /\ snapshot'[s] = Active /\ index'[s] = index[s]
  BY <1>1 DEF VectorInvariant, PerService
<1>4. Saved(s).vectors = Saved(s).refs
  BY DEF Saved, IndexOf, VectorInvariant, VectorsMatchRefs
<1>5. Saved(s)'.vectors = Ascending(Active) /\ Saved(s)'.refs = Ascending(Active)
  BY <1>1, <1>3, <1>4 DEF Saved, IndexOf
<1>6. StateDescribesFile'
  BY <1>1 DEF VectorInvariant, StateDescribesFile
<1>. QED
  BY <1>1, <1>2, <1>3, <1>4, <1>5, <1>6, OneService DEF VectorInvariant, VectorsMatchRefs

\* The row pairs the bans read by save with the checksum of that file.
LEMMA SaveIndexStateInvariant ==
  ASSUME VectorInvariant, NEW s \in Services, SaveIndexState(s)
  PROVE  VectorInvariant'
<1>1. /\ state' = [vectors |-> snapshot[s], sha |-> file[s]] /\ file' = file
      /\ index' = index \/ index' = [index EXCEPT ![s] = Saved(s)]
      /\ pc[s] = "record"
  BY DEF SaveIndexState
<1>2. \E p : p # "record" /\ pc' = [pc EXCEPT ![s] = p]
  BY DEF SaveIndexState, IndexReady, Finish, Released
<1>3. \E A : snapshot' = [snapshot EXCEPT ![s] = A]
  BY DEF SaveIndexState, IndexReady, Finish, Released
<1>4. Saved(s).vectors = Saved(s).refs
  BY DEF Saved, IndexOf, VectorInvariant, VectorsMatchRefs
<1>5. file[s] = Ascending(snapshot[s])
  BY <1>1, <1>4 DEF VectorInvariant, SavingWhatWasRead
<1>6. StateDescribesFile'
  BY <1>1, <1>5 DEF StateDescribesFile
<1>7. PerService' /\ \A r \in Services \ {s} : Frame(r)
  BY <1>1, <1>2, <1>3 DEF VectorInvariant, PerService, Frame
<1>8. pc'[s] # "record"
  BY <1>2 DEF VectorInvariant, PerService
<1>9. index'[s] # NotLoaded => index'[s].vectors = index'[s].refs
  BY <1>1, <1>4 DEF VectorInvariant, VectorsMatchRefs, PerService
<1>. QED
  BY <1>6, <1>7, <1>8, <1>9, OneService

\* A crash may leave any file behind: its checksum decides later.
LEMMA CrashInvariant ==
  ASSUME VectorInvariant, NEW s \in Services, Crash(s)
  PROVE  VectorInvariant'
<1>1. /\ index' = [index EXCEPT ![s] = NotLoaded] /\ state' = state
      /\ \E f : file' = [file EXCEPT ![s] = f]
      /\ pc' = [pc EXCEPT ![s] = "idle"] /\ snapshot' = [snapshot EXCEPT ![s] = {}]
  BY DEF Crash, Released, dbVars
<1>2. PerService' /\ \A r \in Services \ {s} : Frame(r)
  BY <1>1 DEF VectorInvariant, PerService, Frame
<1>3. StateDescribesFile' /\ pc'[s] = "idle" /\ index'[s] = NotLoaded
  BY <1>1 DEF VectorInvariant, StateDescribesFile, PerService
<1>. QED
  BY <1>2, <1>3, OneService

-----------------------------------------------------------------------------
(* All the others lie between two saves.                                   *)

LEMMA RequestInvariant ==
  ASSUME VectorInvariant, NEW s \in Services,
         PostBan(s) \/ PostSearch(s) \/ ApplyEvent(s) \/ SkipEvent(s)
  PROVE  VectorInvariant'
<1>1. CASE SkipEvent(s)
  BY <1>1, UntouchedInvariant DEF SkipEvent, Untouched, dbVars, opVars
<1>2. CASE PostBan(s) \/ PostSearch(s) \/ ApplyEvent(s)
  <2>1. /\ UNCHANGED <<state, file, index, snapshot>>
        /\ \E p : p # "record" /\ pc' = [pc EXCEPT ![s] = p]
    BY <1>2 DEF PostBan, PostSearch, ApplyEvent, Begin, dbVars
  <2>. QED
    BY <2>1, BetweenSaves
<1>. QED
  BY <1>1, <1>2

LEMMA RaiseInvariant ==
  ASSUME VectorInvariant, NEW s \in Services, file' = file,
         Raise(s) \/ (Released(s) /\ UNCHANGED <<state, index>>)
  PROVE  VectorInvariant'
<1>1. /\ state' = state /\ pc' = [pc EXCEPT ![s] = "idle"]
      /\ snapshot' = [snapshot EXCEPT ![s] = {}]
      /\ index' = index \/ index' = [index EXCEPT ![s] = NotLoaded]
  BY DEF Raise, Released
<1>. QED
  BY <1>1, BetweenSaves

LEMMA OperationInvariant ==
  ASSUME VectorInvariant, NEW s \in Services,
         \/ ReadActiveBans(s) \/ Rebuild(s) \/ BanKnown(s) \/ InsertBan(s)
         \/ AlreadyApplied(s) \/ AddToIndex(s)
  PROVE  VectorInvariant'
<1>1. UNCHANGED <<state, file>>
  BY DEF ReadActiveBans, Rebuild, BanKnown, InsertBan, AlreadyApplied, AddToIndex, dbVars
<1>2. \E p : p # "record" /\ pc' = [pc EXCEPT ![s] = p]
  BY DEF ReadActiveBans, Rebuild, BanKnown, InsertBan, AlreadyApplied, AddToIndex, Finish, Released
<1>3. snapshot' = snapshot \/ \E A : snapshot' = [snapshot EXCEPT ![s] = A]
  BY DEF ReadActiveBans, Rebuild, BanKnown, InsertBan, AlreadyApplied, AddToIndex, Finish, Released
<1>4. index' = index \/ \E q : index' = [index EXCEPT ![s] = IndexOf(q)]
  BY DEF ReadActiveBans, Rebuild, BanKnown, InsertBan, AlreadyApplied, AddToIndex
<1>. QED
  BY <1>1, <1>2, <1>3, <1>4, BetweenSaves

LEMMA BotInvariant ==
  ASSUME VectorInvariant, BotStep
  PROVE  VectorInvariant'
<1>1. Untouched
  BY DEF BotStep, BotInsert, BotCommit, BotRollBack, BotBansKnownVectors, Untouched, opVars
<1>. QED
  BY <1>1, UntouchedInvariant

LEMMA NextVectorInvariant == VectorInvariant /\ [Next]_vars => VectorInvariant'
<1>. SUFFICES ASSUME VectorInvariant, [Next]_vars
              PROVE  VectorInvariant'
  OBVIOUS
<1>1. CASE BotStep
  BY <1>1, BotInvariant
<1>2. ASSUME NEW s \in Services, Continue(s)
      PROVE  VectorInvariant'
  <2>1. CASE SaveRefused(s) \/ InsertFails(s)
    BY <2>1, RaiseInvariant DEF SaveRefused, InsertFails
  <2>. QED
    BY <1>2, <2>1, OperationInvariant, LoadFileInvariant, WriteFileInvariant,
       SaveIndexStateInvariant DEF Continue
<1>3. ASSUME NEW s \in Services, StatementFails(s) \/ DeactivationFails(s) \/ Crash(s)
      PROVE  VectorInvariant'
  BY <1>3, RaiseInvariant, CrashInvariant DEF StatementFails, DeactivationFails, dbVars
<1>4. CASE UNCHANGED vars
  BY <1>4, UntouchedInvariant DEF vars, dbVars, opVars, Untouched
<1>. QED
  BY <1>1, <1>2, <1>3, <1>4, RequestInvariant DEF Next, ServiceStep

-----------------------------------------------------------------------------
\* The state row, the files and the indexes of all services agree about which
\* vector belongs to which ban.
THEOREM VectorInvariantHolds == Spec => []VectorInvariant
BY InitVectorInvariant, NextVectorInvariant, PTL DEF Spec

\* No search attributes a vector to a ban it was not computed for, whatever
\* file a service finds at its start and whoever wrote the state row.
THEOREM NoVectorMisattributed == Spec => []VectorsMatchRefs
<1>1. VectorInvariant => VectorsMatchRefs
  BY DEF VectorInvariant
<1>. QED
  BY <1>1, VectorInvariantHolds, PTL

-----------------------------------------------------------------------------
(* ORDER BY b.id: a set of ids has one ascending sequence, and it holds    *)
(* exactly these ids.                                                      *)

Rank(A, i) == Cardinality({j \in A : j <= i})

LEMMA IdsFinite ==
  ASSUME NEW A \in SUBSET Ids
  PROVE  A \subseteq Nat /\ IsFiniteSet(A) /\ Cardinality(A) \in Nat
<1>1. IsFiniteSet(1..MaxBans)
  BY ConstantsAssumption, FS_Interval
<1>2. IsFiniteSet(A)
  BY <1>1, FS_Subset DEF Ids
<1>. QED
  BY <1>2, FS_CardinalityType DEF Ids

\* The rank grows with the id.
LEMMA RankGrows ==
  ASSUME NEW A \in SUBSET Ids, NEW i \in A, NEW j \in A, i < j
  PROVE  Rank(A, i) < Rank(A, j)
<1> DEFINE below == {k \in A : k <= i}
           upto == {k \in A : k <= j}
<1>1. IsFiniteSet(upto)
  BY IdsFinite
<1>2. below \subseteq upto /\ below # upto
  <2>1. i \in Nat /\ j \in Nat /\ \A k \in A : k \in Nat
    BY <1>1, IdsFinite
  <2>2. \A k \in A : k <= i => k <= j
    BY <2>1
  <2>3. j \in upto /\ j \notin below
    BY <2>1
  <2>. QED
    BY <2>2, <2>3
<1>3. /\ Cardinality(below) <= Cardinality(upto)
      /\ Cardinality(below) # Cardinality(upto)
  BY <1>1, <1>2, FS_Subset
<1>4. Cardinality(below) \in Nat /\ Cardinality(upto) \in Nat
  BY IdsFinite
<1>. QED
  BY <1>3, <1>4 DEF Rank

LEMMA RankIsPosition ==
  ASSUME NEW A \in SUBSET Ids
  PROVE  [i \in A |-> Rank(A, i)] \in Bijection(A, 1..Cardinality(A))
<1> DEFINE r == [i \in A |-> Rank(A, i)]
           n == Cardinality(A)
<1>1. A \subseteq Nat /\ IsFiniteSet(A) /\ n \in Nat
  BY IdsFinite
<1>2. ASSUME NEW i \in A PROVE Rank(A, i) \in 1..n
  <2>1. {j \in A : j <= i} \in SUBSET A /\ i \in {j \in A : j <= i}
    BY <1>1
  <2>2. Cardinality({j \in A : j <= i}) <= n
    BY <1>1, <2>1, FS_Subset
  <2>3. IsFiniteSet({j \in A : j <= i}) /\ Cardinality({j \in A : j <= i}) \in Nat
    BY IdsFinite
  <2>4. Cardinality({j \in A : j <= i}) # 0
    BY <2>1, <2>3, FS_EmptySet
  <2>. QED
    BY <1>1, <2>2, <2>3, <2>4 DEF Rank
<1>3. ASSUME NEW i \in A, NEW j \in A, r[i] = r[j] PROVE i = j
  <2>1. ~(i < j) /\ ~(j < i)
    BY <1>1, <1>2, <1>3, RankGrows
  <2>. QED
    BY <1>1, <2>1
<1>4. r \in Injection(A, 1..n)
  BY <1>2, <1>3 DEF Injection, IsInjective
<1>5. IsFiniteSet(1..n) /\ Cardinality(1..n) = n
  BY <1>1, FS_Interval
<1>6. r \in Surjection(A, 1..n)
  BY <1>4, <1>5, FS_Injection
<1>. QED
  BY <1>4, <1>6 DEF Bijection

\* There is an ascending sequence: the one that holds at n the id of rank n.
LEMMA AscendingExists ==
  ASSUME NEW A \in SUBSET Ids
  PROVE  \E q \in [1..Cardinality(A) -> A] : \A m, n \in DOMAIN q : m < n => q[m] < q[n]
<1> DEFINE D == 1..Cardinality(A)
           q == [n \in D |-> CHOOSE i \in A : Rank(A, i) = n]
<1>1. \A n \in D : \E i \in A : Rank(A, i) = n
  BY RankIsPosition DEF Bijection, Surjection
<1>2. \A n \in D : q[n] \in A /\ Rank(A, q[n]) = n
  BY <1>1
<1>3. A \subseteq Nat /\ D \subseteq Nat
  BY IdsFinite
<1>4. ASSUME NEW m \in D, NEW n \in D, m < n PROVE q[m] < q[n]
  <2>1. q[m] \in Nat /\ q[n] \in Nat /\ m \in Nat /\ n \in Nat
    BY <1>2, <1>3
  <2>2. q[m] # q[n]
    BY <1>2, <1>4, <2>1
  <2>3. ~(q[n] < q[m])
    BY <1>2, <1>4, <2>1, RankGrows
  <2>. QED
    BY <2>1, <2>2, <2>3
<1>5. q \in [D -> A] /\ DOMAIN q = D
  BY <1>2
<1>. QED
  BY <1>4, <1>5

\* It is a sequence of exactly these ids.
LEMMA AscendingHolds ==
  ASSUME NEW A \in SUBSET Ids
  PROVE  Ascending(A) \in Seq(Ids) /\ ToSet(Ascending(A)) = A
<1> DEFINE D == 1..Cardinality(A)
           q == Ascending(A)
<1>1. /\ q \in [D -> A] /\ DOMAIN q = D
      /\ \A m, n \in D : m < n => q[m] < q[n]
  <2>1. q \in [D -> A] /\ \A m, n \in DOMAIN q : m < n => q[m] < q[n]
    BY AscendingExists DEF Ascending
  <2>. QED
    BY <2>1
<1> HIDE DEF q
<1>2. A \subseteq Nat /\ D \subseteq Nat /\ IsFiniteSet(A) /\ Cardinality(A) \in Nat
  BY IdsFinite
<1>3. ASSUME NEW m \in D, NEW n \in D, q[m] = q[n] PROVE m = n
  <2>1. m \in Nat /\ n \in Nat /\ q[m] \in Nat /\ q[n] \in Nat
    BY <1>1, <1>2
  <2>2. ~(m < n) /\ ~(n < m)
    BY <1>1, <1>3, <2>1
  <2>. QED
    BY <2>1, <2>2
<1>4. q \in Injection(D, A)
  BY <1>1, <1>3 DEF Injection, IsInjective
<1>5. Cardinality(D) = Cardinality(A)
  BY <1>2, FS_Interval
<1>6. q \in Surjection(D, A)
  BY <1>2, <1>4, <1>5, FS_Injection
<1>7. ToSet(q) = A
  BY <1>1, <1>6 DEF ToSet, Surjection
<1>8. q \in Seq(Ids)
  <2>1. q \in [1..Cardinality(A) -> Ids]
    BY <1>1
  <2>. QED
    BY <1>2, <2>1
<1>. QED
  BY <1>7, <1>8 DEF q

-----------------------------------------------------------------------------
(* Steps seen from the rows of ai_vector_ban: each changes rows of one     *)
(* owner only, and the services other than s stand still.                  *)

RowsOf(who) ==
  /\ FreshIds'
  /\ \A i \in Ids :
       \/ status'[i] = status[i] /\ creator'[i] = creator[i]
       \/ creator'[i] = who /\ (creator[i] = who \/ status[i] = "unused")

Still(r) ==
  /\ pc'[r] = pc[r] /\ op'[r] = op[r] /\ ban'[r] = ban[r] /\ snapshot'[r] = snapshot[r]
  /\ index'[r] = index[r] /\ cursor'[r] = cursor[r]

LEMMA SameRows ==
  ASSUME FreshIds, UNCHANGED <<status, creator, nextId>>, NEW who
  PROVE  RowsOf(who)
BY DEF RowsOf, FreshIds

\* The bans a service owes are active, so today's active bans enforce them.
LEMMA ActiveEnforces ==
  ASSUME TypeOK, LoggedIsActive, NEW s \in Services
  PROVE  Enforces(s, Active)
<1>1. \A e \in 1..cursor[s] : e \in DOMAIN log /\ log[e] \in Ids \cup {NoBan}
  BY DEF TypeOK
<1>. QED
  BY <1>1 DEF Enforces, Owed, TakenBack, Active, LoggedIsActive

\* Rows of another owner do not change what r owes or has taken back.
LEMMA OthersOwe ==
  ASSUME TypeOK, TypeOK', NEW r \in Services, NEW who, who # r, RowsOf(who), Still(r),
         \A e \in DOMAIN log : log'[e] = log[e], orphaned \subseteq orphaned'
  PROVE  Owed(r)' \subseteq Owed(r) /\ TakenBack(r)' \subseteq TakenBack(r)
<1>1. \A e \in 1..cursor[r] : log'[e] = log[e]
  BY DEF TypeOK
<1>2. cursor'[r] = cursor[r] /\ ban'[r] = ban[r]
  BY DEF Still
<1>3. {log'[e] : e \in 1..cursor'[r]} = {log[e] : e \in 1..cursor[r]}
  BY <1>1, <1>2
<1>. QED
  BY <1>2, <1>3 DEF Owed, TakenBack, RowsOf

LEMMA OthersKeep ==
  ASSUME EnforcementInvariant, TypeOK', NEW r \in Services, NEW who, who # r, RowsOf(who),
         Still(r), Len(log') >= Len(log), \A e \in DOMAIN log : log'[e] = log[e],
         orphaned \subseteq orphaned'
  PROVE  /\ AtStep(r)'
         /\ (index[r] # NotLoaded => Enforces(r, ToSet(index[r].refs)))'
         /\ (Loading(r) /\ pc[r] # "load" => Enforces(r, snapshot[r]))'
<1>1. TypeOK /\ AtStep(r)
  BY DEF EnforcementInvariant, OperationAtStep
<1>2. Owed(r)' \subseteq Owed(r) /\ TakenBack(r)' \subseteq TakenBack(r)
  BY <1>1, OthersOwe
<1>3. AtStep(r)'
  <2>1. op[r] = "ban" /\ ban[r] # NoBan => creator'[ban[r]] = r /\ status'[ban[r]] = "active"
    BY <1>1 DEF AtStep, RowsOf, TypeOK
  <2>2. op[r] = "apply" => cursor[r] < Len(log') /\ log'[cursor[r] + 1] = log[cursor[r] + 1]
    BY <1>1, SMTT(30) DEF AtStep, TypeOK
  <2>. QED
    BY <1>1, <2>1, <2>2 DEF AtStep, Still, Loading
<1>4. (index[r] # NotLoaded => Enforces(r, ToSet(index[r].refs)))'
  BY <1>2 DEF EnforcementInvariant, IndexEnforces, Enforces, Still
<1>5. (Loading(r) /\ pc[r] # "load" => Enforces(r, snapshot[r]))'
  BY <1>2 DEF EnforcementInvariant, SnapshotEnforces, Enforces, Still, Loading
<1>. QED
  BY <1>3, <1>4, <1>5

\* What is left to show for a step of s.
LEMMA ServiceKeeps ==
  ASSUME EnforcementInvariant, TypeOK', VectorInvariant', NEW s \in Services, RowsOf(s),
         log' = log, orphaned \subseteq orphaned', \A r \in Services \ {s} : Still(r),
         \A i \in Ids : status'[i] = "open" => status[i] = "open" /\ creator'[i] = creator[i],
         AtStep(s)', (index[s] # NotLoaded => Enforces(s, ToSet(index[s].refs)))',
         (Loading(s) /\ pc[s] # "load" => Enforces(s, snapshot[s]))'
  PROVE  EnforcementInvariant'
<1>1. TypeOK /\ OpenIsBots /\ LoggedIsActive
  BY DEF EnforcementInvariant
<1>2. \A r \in Services \ {s} :
        /\ AtStep(r)'
        /\ (index[r] # NotLoaded => Enforces(r, ToSet(index[r].refs)))'
        /\ (Loading(r) /\ pc[r] # "load" => Enforces(r, snapshot[r]))'
  <2>1. Len(log') >= Len(log)
    BY <1>1 DEF TypeOK
  <2>. QED
    BY <2>1, OthersKeep
<1>3. FreshIds' /\ OpenIsBots'
  BY <1>1 DEF RowsOf, OpenIsBots
<1>4. LoggedIsActive'
  <2>1. \A e \in DOMAIN log : log[e] # NoBan => log[e] \in Ids
    BY <1>1 DEF TypeOK
  <2>2. Bot # s
    BY ConstantsAssumption
  <2>. QED
    BY <1>1, <2>1, <2>2 DEF LoggedIsActive, RowsOf
<1>5. OperationAtStep' /\ IndexEnforces' /\ SnapshotEnforces'
  BY <1>2 DEF OperationAtStep, IndexEnforces, SnapshotEnforces
<1>. QED
  BY <1>3, <1>4, <1>5 DEF EnforcementInvariant

\* A step of s that leaves the rows of bans alone, and owes no more than s
\* owed before, or than what its index or snapshot now holds.
LEMMA QuietServiceKeeps ==
  ASSUME EnforcementInvariant, TypeOK', VectorInvariant', NEW s \in Services,
         UNCHANGED <<status, creator, nextId, log>>, orphaned \subseteq orphaned',
         \A r \in Services \ {s} : Still(r), AtStep(s)',
         index'[s] # NotLoaded =>
           Owed(s)' \subseteq ToSet(index'[s].refs) /\ TakenBack(s) \cap ToSet(index'[s].refs) = {},
         Loading(s)' /\ pc'[s] # "load" =>
           Owed(s)' \subseteq snapshot'[s] /\ TakenBack(s) \cap snapshot'[s] = {}
  PROVE  EnforcementInvariant'
<1>1. RowsOf(s)
  BY SameRows DEF EnforcementInvariant
<1>2. TakenBack(s)' = TakenBack(s)
  BY DEF TakenBack
<1>. QED
  BY <1>1, <1>2, ServiceKeeps DEF Enforces

-----------------------------------------------------------------------------
(* What the ends of an operation do, whichever step they belong to.        *)

LEMMA NoBanIsNoId == NoBan \notin Ids /\ \A s \in Services : s # Bot
BY ConstantsAssumption DEF NoBan, Ids

LEMMA ReleasedFacts ==
  ASSUME TypeOK, NEW s \in Services, Released(s)
  PROVE  /\ pc' \in [Services ->
              {"idle", "load", "loaded", "save", "record", "insert", "add"}]
         /\ op' \in [Services -> {"none", "ban", "apply", "search"}]
         /\ request' \in [Services -> Signatures \cup {NoSignature}]
         /\ ban' \in [Services -> Ids \cup {NoBan}]
         /\ snapshot' \in [Services -> SUBSET Ids]
         /\ pc'[s] = "idle" /\ op'[s] = "none" /\ ban'[s] = NoBan
         /\ \A r \in Services \ {s} :
              pc'[r] = pc[r] /\ op'[r] = op[r] /\ ban'[r] = ban[r] /\ snapshot'[r] = snapshot[r]
BY DEF Released, TypeOK

\* Without a ban in progress s may owe one ban more.
LEMMA OwedAfterRelease ==
  ASSUME TypeOK, NEW s \in Services, ban'[s] = NoBan, cursor'[s] = cursor[s],
         UNCHANGED <<status, creator, log>>, orphaned \subseteq orphaned',
         NEW b, ban[s] \in Ids /\ status[ban[s]] = "active" /\ creator[ban[s]] = s
                  => ban[s] \in orphaned' \/ ban[s] \in b,
         Owed(s) \subseteq b
  PROVE  Owed(s)' \subseteq b
<1>1. {log'[e] : e \in 1..cursor'[s]} = {log[e] : e \in 1..cursor[s]}
  OBVIOUS
<1>. QED
  BY <1>1 DEF Owed

\* The operation returned: its ban, or the ban of its event, is in the index.
LEMMA FinishKeeps ==
  ASSUME EnforcementInvariant, VectorInvariant', NEW s \in Services, NEW b \in Ids, Finish(s, b),
         UNCHANGED <<status, signature, creator, nextId, log, index, orphaned, failures, crashes>>,
         state' \in {NoState} \cup [vectors : SUBSET Ids, sha : Seq(Ids)],
         file' = file, pc[s] # "idle", index[s] # NotLoaded,
         ban[s] # NoBan => ban[s] \in ToSet(index[s].refs)
  PROVE  EnforcementInvariant'
<1>1. TypeOK /\ AtStep(s) /\ Enforces(s, ToSet(index[s].refs))
  BY DEF EnforcementInvariant, OperationAtStep, IndexEnforces
<1>2. Released(s) /\ answered' \in {answered, answered \cup {b}}
  BY DEF Finish
<1>3. op[s] = "apply" => cursor[s] < Len(log) /\ log[cursor[s] + 1] = ban[s] /\ ban[s] # NoBan
  BY <1>1 DEF AtStep
<1>4. /\ cursor' \in [Services -> 0..Len(log)] /\ stale' \in [Services -> BOOLEAN]
      /\ \A r \in Services \ {s} : cursor'[r] = cursor[r]
      /\ cursor'[s] = IF op[s] = "apply" THEN cursor[s] + 1 ELSE cursor[s]
  BY <1>1, <1>3 DEF Finish, TypeOK
<1>5. TypeOK'
  BY <1>1, <1>2, <1>4, ReleasedFacts DEF TypeOK
<1>6. \A r \in Services \ {s} : Still(r)
  BY <1>1, <1>2, <1>4, ReleasedFacts DEF Still
<1>7. AtStep(s)' /\ ~Loading(s)'
  BY <1>1, <1>2, ReleasedFacts DEF AtStep, Loading
<1>8. Owed(s)' \subseteq ToSet(index[s].refs)
  <2>1. \A e \in 1..cursor'[s] : log[e] \in {log[d] : d \in 1..cursor[s]} \cup {ban[s]}
    BY <1>1, <1>3, <1>4 DEF TypeOK
  <2>2. \A e \in 1..cursor'[s] : log[e] # NoBan => log[e] \in ToSet(index[s].refs)
    BY <1>1, <2>1 DEF Enforces, Owed
  <2>3. \A i \in Ids : status[i] = "active" /\ creator[i] = s /\ i \notin orphaned =>
          i \in ToSet(index[s].refs)
    BY <1>1, NoBanIsNoId DEF Enforces, Owed
  <2>. QED
    BY <2>2, <2>3 DEF Owed
<1>. QED
  BY <1>1, <1>5, <1>6, <1>7, <1>8, QuietServiceKeeps DEF Enforces

\* The operation raised: a ban it had created is inactive and the index is
\* dropped, or there was no ban of its own and the index stays.
LEMMA RaiseKeeps ==
  ASSUME EnforcementInvariant, VectorInvariant', NEW s \in Services, Raise(s), file' = file,
         orphaned' = orphaned, failures' \in 0..MaxFailures, crashes' = crashes
  PROVE  EnforcementInvariant'
<1>1. TypeOK /\ AtStep(s) /\ FreshIds /\ LoggedIsActive
  BY DEF EnforcementInvariant, OperationAtStep
<1>2. Released(s) /\ UNCHANGED <<signature, creator, nextId, log, state, cursor, answered>>
  BY DEF Raise
<1>3. /\ stale' \in [Services -> BOOLEAN]
      /\ status' \in [Ids -> {"unused", "open", "active", "inactive"}]
      /\ index' \in [Services -> {NotLoaded} \cup Index]
      /\ \A r \in Services \ {s} : index'[r] = index[r]
  BY <1>1 DEF Raise, TypeOK
<1>4. TypeOK'
  BY <1>1, <1>2, <1>3, ReleasedFacts DEF TypeOK
<1>5. \A r \in Services \ {s} : Still(r)
  BY <1>1, <1>2, <1>3, ReleasedFacts DEF Still
<1>6. AtStep(s)' /\ ~Loading(s)'
  BY <1>1, <1>2, ReleasedFacts DEF AtStep, Loading
<1>7. CASE op[s] = "ban" /\ ban[s] # NoBan
  <2>1. /\ ban[s] \in Ids /\ creator[ban[s]] = s /\ status[ban[s]] = "active"
        /\ status' = [status EXCEPT ![ban[s]] = "inactive"] /\ index'[s] = NotLoaded
    BY <1>1, <1>7 DEF Raise, AtStep, TypeOK
  <2>2. RowsOf(s)
    BY <1>1, <1>2, <2>1 DEF RowsOf, FreshIds, TypeOK
  <2>3. \A i \in Ids : status'[i] = "open" => status[i] = "open" /\ creator'[i] = creator[i]
    BY <1>1, <1>2, <2>1 DEF TypeOK
  <2>. QED
    BY <1>2, <1>4, <1>5, <1>6, <2>1, <2>2, <2>3, ServiceKeeps
<1>8. CASE ~(op[s] = "ban" /\ ban[s] # NoBan)
  <2>1. UNCHANGED <<status, index>>
    BY <1>8 DEF Raise
  <2>2. ban[s] # NoBan => op[s] = "apply"
    BY <1>1, <1>8 DEF AtStep, TypeOK
  <2>3. ban[s] \in Ids => creator[ban[s]] = Bot
    BY <1>1, <2>2, NoBanIsNoId DEF AtStep, LoggedIsActive, TypeOK
  <2>4. index[s] # NotLoaded => Enforces(s, ToSet(index[s].refs))
    BY DEF EnforcementInvariant, IndexEnforces
  <2>5. index'[s] # NotLoaded => Owed(s)' \subseteq ToSet(index[s].refs)
    BY <1>1, <1>2, <2>1, <2>3, <2>4, OwedAfterRelease, NoBanIsNoId, ReleasedFacts, ZenonT(30)
    DEF Enforces
  <2>. QED
    BY <1>2, <1>4, <1>5, <1>6, <2>1, <2>4, <2>5, QuietServiceKeeps DEF Enforces
<1>. QED
  BY <1>7, <1>8

\* The index was loaded for the bans read before: the operation goes on, or
\* was a search and returns.
LEMMA IndexReadyKeeps ==
  ASSUME EnforcementInvariant, VectorInvariant', NEW s \in Services, IndexReady(s),
         pc[s] \in {"loaded", "record"}, index[s] = NotLoaded, NEW x \in Index,
         ToSet(x.refs) = snapshot[s], index' = [index EXCEPT ![s] = x], file' = file,
         state' \in {NoState} \cup [vectors : SUBSET Ids, sha : Seq(Ids)],
         UNCHANGED <<status, signature, creator, nextId, log, orphaned, failures, crashes>>
  PROVE  EnforcementInvariant'
<1>1. TypeOK /\ AtStep(s) /\ Loading(s) /\ Enforces(s, snapshot[s])
  BY DEF EnforcementInvariant, OperationAtStep, SnapshotEnforces, Loading
<1>2. /\ index' \in [Services -> {NotLoaded} \cup Index] /\ index'[s] = x /\ x # NotLoaded
      /\ \A r \in Services \ {s} : index'[r] = index[r]
  BY <1>1, ConstantsAssumption DEF TypeOK
<1>3. CASE op[s] = "search"
  <2>1. Released(s) /\ UNCHANGED <<answered, cursor, stale>>
    BY <1>3 DEF IndexReady, Finish
  <2>2. TypeOK'
    BY <1>1, <1>2, <2>1, ReleasedFacts DEF TypeOK
  <2>3. \A r \in Services \ {s} : Still(r)
    BY <1>1, <1>2, <2>1, ReleasedFacts DEF Still
  <2>4. AtStep(s)' /\ ~Loading(s)'
    BY <1>1, <2>1, ReleasedFacts DEF AtStep, Loading
  <2>5. Owed(s)' \subseteq snapshot[s]
    <3>1. ban[s] = NoBan /\ ban'[s] = NoBan
      BY <1>1, <1>3, <2>1, ReleasedFacts DEF AtStep
    <3>. QED
      BY <1>1, <2>1, <3>1, NoBanIsNoId, OwedAfterRelease DEF Enforces
  <2>. QED
    BY <1>1, <1>2, <2>2, <2>3, <2>4, <2>5, QuietServiceKeeps DEF Enforces
<1>4. CASE op[s] # "search"
  <2>1. /\ pc' = [pc EXCEPT ![s] = IF op[s] = "ban" THEN "insert" ELSE "add"]
        /\ snapshot' = [snapshot EXCEPT ![s] = {}]
        /\ UNCHANGED <<cursor, stale, op, request, ban, answered>>
    BY <1>4 DEF IndexReady
  <2>2. op[s] \in {"ban", "apply"}
    BY <1>1, <1>4 DEF AtStep, TypeOK
  <2>3. pc'[s] = IF op[s] = "ban" THEN "insert" ELSE "add"
    BY <1>1, <2>1 DEF TypeOK
  <2>4. TypeOK'
    <3>1. pc' \in [Services -> {"idle", "load", "loaded", "save", "record", "insert", "add"}]
      BY <1>1, <2>1 DEF TypeOK
    <3>. QED
      BY <1>1, <1>2, <2>1, <3>1 DEF TypeOK
  <2>5. \A r \in Services \ {s} : Still(r)
    BY <1>1, <1>2, <2>1 DEF Still, TypeOK
  <2>6. AtStep(s)' /\ ~Loading(s)'
    BY <1>1, <1>2, <2>1, <2>2, <2>3 DEF AtStep, Loading
  <2>7. Owed(s)' = Owed(s)
    BY <2>1 DEF Owed
  <2>. QED
    BY <1>1, <1>2, <2>4, <2>5, <2>6, <2>7, QuietServiceKeeps DEF Enforces
<1>. QED
  BY <1>3, <1>4

\* A step within the operation: only the place, the index or the snapshot of
\* s change.
LEMMA WithinKeeps ==
  ASSUME EnforcementInvariant, VectorInvariant', NEW s \in Services,
         UNCHANGED <<dbVars, cursor, stale, op, request, ban, answered, bounds>>,
         NEW p \in {"loaded", "save", "record"}, pc' = [pc EXCEPT ![s] = p],
         NEW f \in {NoFile, BadFile} \cup Seq(Ids), file' = [file EXCEPT ![s] = f],
         NEW A \in SUBSET Ids, snapshot' = [snapshot EXCEPT ![s] = A],
         NEW x \in {NotLoaded} \cup Index, index' = [index EXCEPT ![s] = x],
         pc[s] # "idle", p = "loaded" => x = NotLoaded, x = NotLoaded => Loading(s) /\ Enforces(s, A),
         x # NotLoaded => /\ ban[s] # NoBan /\ ban[s] \in ToSet(x.refs)
                          /\ op[s] # "search" /\ Enforces(s, ToSet(x.refs))
  PROVE  EnforcementInvariant'
<1>1. TypeOK /\ AtStep(s)
  BY DEF EnforcementInvariant, OperationAtStep
<1>2. /\ pc' \in [Services -> {"idle", "load", "loaded", "save", "record", "insert", "add"}]
      /\ file' \in [Services -> {NoFile, BadFile} \cup Seq(Ids)]
      /\ snapshot' \in [Services -> SUBSET Ids]
      /\ index' \in [Services -> {NotLoaded} \cup Index]
      /\ pc'[s] = p /\ snapshot'[s] = A /\ index'[s] = x
      /\ \A r \in Services \ {s} :
           pc'[r] = pc[r] /\ snapshot'[r] = snapshot[r] /\ index'[r] = index[r]
  BY <1>1 DEF TypeOK
<1>3. TypeOK'
  BY <1>1, <1>2 DEF TypeOK, dbVars, bounds
<1>4. \A r \in Services \ {s} : Still(r)
  BY <1>2 DEF Still
<1>5. AtStep(s)'
  BY <1>1, <1>2 DEF AtStep, Loading, dbVars
<1>6. Owed(s)' = Owed(s)
  BY DEF Owed, dbVars, bounds
<1>7. Loading(s)' => x = NotLoaded
  BY <1>2 DEF Loading
<1>. QED
  BY <1>2, <1>3, <1>4, <1>5, <1>6, <1>7, QuietServiceKeeps DEF Enforces, dbVars, bounds

-----------------------------------------------------------------------------
(* The actions of a service.                                               *)

LEMMA BeginKeeps ==
  ASSUME EnforcementInvariant, VectorInvariant', NEW s \in Services,
         PostBan(s) \/ PostSearch(s) \/ ApplyEvent(s)
  PROVE  EnforcementInvariant'
<1>1. TypeOK /\ AtStep(s)
  BY DEF EnforcementInvariant, OperationAtStep
<1>2. pc[s] = "idle" /\ op[s] = "none" /\ ban[s] = NoBan
  BY <1>1 DEF PostBan, PostSearch, ApplyEvent, Begin, AtStep
<1>3. UNCHANGED <<dbVars, file, index, snapshot, answered, bounds, cursor, stale>>
  BY DEF PostBan, PostSearch, ApplyEvent, Begin
<1>4. \E k \in {"ban", "apply", "search"}, p \in {"load", "insert", "add"}, b \in Ids \cup {NoBan} :
        /\ op' = [op EXCEPT ![s] = k] /\ pc' = [pc EXCEPT ![s] = p]
        /\ ban' = [ban EXCEPT ![s] = b]
        /\ p = "load" <=> index[s] = NotLoaded
        /\ k = "search" => p = "load"
        /\ k # "apply" => b = NoBan
        /\ k = "apply" => cursor[s] < Len(log) /\ b = log[cursor[s] + 1] /\ b # NoBan
        /\ p = "insert" => k = "ban"
        /\ p = "add" => k = "apply"
  <2>1. CASE PostBan(s)
    <3>1. ban' = [ban EXCEPT ![s] = NoBan]
      BY <1>1, <1>2, <2>1 DEF PostBan, TypeOK
    <3>2. /\ op' = [op EXCEPT ![s] = "ban"]
          /\ pc' = [pc EXCEPT ![s] = IF index[s] = NotLoaded THEN "load" ELSE "insert"]
      BY <2>1 DEF PostBan, Begin
    <3>. QED
      BY <3>1, <3>2
  <2>2. CASE PostSearch(s)
    <3>1. ban' = [ban EXCEPT ![s] = NoBan]
      BY <1>1, <1>2, <2>2 DEF PostSearch, TypeOK
    <3>2. /\ op' = [op EXCEPT ![s] = "search"] /\ index[s] = NotLoaded
          /\ pc' = [pc EXCEPT ![s] = "load"]
      BY <2>2 DEF PostSearch, Begin
    <3>. QED
      BY <3>1, <3>2
  <2>3. CASE ApplyEvent(s)
    <3>1. /\ ban' = [ban EXCEPT ![s] = log[cursor[s] + 1]] /\ log[cursor[s] + 1] # NoBan
          /\ cursor[s] < Len(log)
          /\ op' = [op EXCEPT ![s] = "apply"]
          /\ pc' = [pc EXCEPT ![s] = IF index[s] = NotLoaded THEN "load" ELSE "add"]
      BY <2>3 DEF ApplyEvent, Begin
    <3>2. log[cursor[s] + 1] \in Ids
      BY <1>1, <3>1 DEF TypeOK
    <3>. QED
      BY <3>1, <3>2
  <2>. QED
    BY <2>1, <2>2, <2>3
<1>5. request' \in [Services -> Signatures \cup {NoSignature}]
  BY <1>1 DEF PostBan, PostSearch, ApplyEvent, TypeOK
<1>6. TypeOK'
  <2>1. /\ pc' \in [Services -> {"idle", "load", "loaded", "save", "record", "insert", "add"}]
        /\ op' \in [Services -> {"none", "ban", "apply", "search"}]
        /\ ban' \in [Services -> Ids \cup {NoBan}]
    BY <1>1, <1>4 DEF TypeOK
  <2>. QED
    BY <1>1, <1>3, <1>5, <2>1 DEF TypeOK, dbVars, bounds
<1>7. \A r \in Services \ {s} : Still(r)
  BY <1>1, <1>3, <1>4 DEF TypeOK, Still
<1>8. AtStep(s)' /\ (Loading(s)' => pc'[s] = "load")
  BY <1>1, <1>3, <1>4 DEF AtStep, Loading, TypeOK, dbVars
<1>9. Owed(s)' \subseteq Owed(s)
  BY <1>2, <1>3, NoBanIsNoId DEF Owed, dbVars, bounds
<1>. QED
  BY <1>3, <1>6, <1>7, <1>8, <1>9, QuietServiceKeeps
     DEF EnforcementInvariant, IndexEnforces, Enforces, dbVars, bounds

LEMMA SkipEventKeeps ==
  ASSUME EnforcementInvariant, VectorInvariant', NEW s \in Services, SkipEvent(s)
  PROVE  EnforcementInvariant'
<1>1. TypeOK /\ AtStep(s) /\ pc[s] = "idle"
  BY DEF EnforcementInvariant, OperationAtStep, SkipEvent
<1>2. /\ cursor' = [cursor EXCEPT ![s] = cursor[s] + 1] /\ cursor[s] < Len(log)
      /\ log[cursor[s] + 1] = NoBan /\ stale' = [stale EXCEPT ![s] = FALSE]
      /\ UNCHANGED <<dbVars, file, index, opVars, answered, bounds>>
  BY DEF SkipEvent
<1>3. TypeOK'
  <2>1. cursor' \in [Services -> 0..Len(log)] /\ stale' \in [Services -> BOOLEAN]
    BY <1>1, <1>2 DEF TypeOK
  <2>. QED
    BY <1>1, <1>2, <2>1 DEF TypeOK, dbVars, opVars, bounds
<1>4. \A r \in Services \ {s} : Still(r)
  BY <1>1, <1>2 DEF TypeOK, Still, opVars
<1>5. AtStep(s)' /\ ~Loading(s)'
  BY <1>1, <1>2 DEF AtStep, Loading, opVars
<1>6. Owed(s)' \subseteq Owed(s)
  <2>1. cursor'[s] = cursor[s] + 1 /\ cursor[s] \in Nat
    BY <1>1, <1>2 DEF TypeOK
  <2>2. \A e \in 1..cursor'[s] : e \in 1..cursor[s] \/ log[e] = NoBan
    BY <1>2, <2>1
  <2>. QED
    BY <1>2, <2>2 DEF Owed, dbVars, opVars, bounds
<1>. QED
  BY <1>2, <1>3, <1>4, <1>5, <1>6, QuietServiceKeeps
     DEF EnforcementInvariant, IndexEnforces, Enforces, dbVars, bounds

\* Reading the active bans, and deciding to rebuild.
LEMMA ReadKeeps ==
  ASSUME EnforcementInvariant, VectorInvariant', NEW s \in Services,
         ReadActiveBans(s) \/ Rebuild(s)
  PROVE  EnforcementInvariant'
<1>1. TypeOK /\ AtStep(s) /\ LoggedIsActive
  BY DEF EnforcementInvariant, OperationAtStep
<1>2. /\ UNCHANGED <<dbVars, cursor, stale, op, request, ban, answered, bounds>>
      /\ pc[s] \in {"load", "loaded"} /\ index[s] = NotLoaded /\ Loading(s)
  BY <1>1 DEF ReadActiveBans, Rebuild, AtStep, Loading
<1>3. /\ file' = [file EXCEPT ![s] = file[s]] /\ file[s] \in {NoFile, BadFile} \cup Seq(Ids)
      /\ index' = [index EXCEPT ![s] = NotLoaded]
      /\ Active \in SUBSET Ids /\ snapshot[s] \in SUBSET Ids
  BY <1>1, <1>2 DEF ReadActiveBans, Rebuild, TypeOK, Active
<1>4. CASE ReadActiveBans(s)
  <2>1. /\ pc' = [pc EXCEPT ![s] = "loaded"] /\ snapshot' = [snapshot EXCEPT ![s] = Active]
        /\ Enforces(s, Active)
    BY <1>1, <1>4, ActiveEnforces DEF ReadActiveBans
  <2>. QED
    BY <1>2, <1>3, <2>1, WithinKeeps
<1>5. CASE Rebuild(s)
  <2>1. /\ pc' = [pc EXCEPT ![s] = "save"] /\ snapshot' = [snapshot EXCEPT ![s] = snapshot[s]]
        /\ Enforces(s, snapshot[s])
    BY <1>1, <1>2, <1>5 DEF Rebuild, TypeOK, EnforcementInvariant, SnapshotEnforces
  <2>. QED
    BY <1>2, <1>3, <2>1, WithinKeeps
<1>. QED
  BY <1>4, <1>5

LEMMA LoadFileKeeps ==
  ASSUME EnforcementInvariant, VectorInvariant', NEW s \in Services, LoadFile(s)
  PROVE  EnforcementInvariant'
<1>1. TypeOK /\ AtStep(s)
  BY DEF EnforcementInvariant, OperationAtStep
<1>2. pc[s] = "loaded" /\ index[s] = NotLoaded /\ snapshot[s] \in SUBSET Ids
  BY <1>1 DEF LoadFile, AtStep, TypeOK
<1>3. file[s] \in Seq(Ids)
  BY <1>1 DEF LoadFile, StateMatches, TypeOK
<1> DEFINE x == [vectors |-> file[s], refs |-> Ascending(snapshot[s])]
<1>4. x \in Index /\ ToSet(x.refs) = snapshot[s]
  BY <1>2, <1>3, AscendingHolds DEF Index
<1>5. /\ index' = [index EXCEPT ![s] = x] /\ IndexReady(s)
      /\ UNCHANGED <<dbVars, file, bounds>>
  BY DEF LoadFile
<1>6. state' \in {NoState} \cup [vectors : SUBSET Ids, sha : Seq(Ids)]
  BY <1>1, <1>5 DEF TypeOK, dbVars
<1> HIDE DEF x
<1>. QED
  BY <1>2, <1>4, <1>5, <1>6, IndexReadyKeeps DEF dbVars, bounds

\* What save writes, of a rebuilt index or of the one in memory.
LEMMA SavedFacts ==
  ASSUME TypeOK, NEW s \in Services
  PROVE  /\ Saved(s) \in Index
         /\ index[s] = NotLoaded => ToSet(Saved(s).refs) = snapshot[s]
<1>1. CASE index[s] = NotLoaded
  <2>1. snapshot[s] \in SUBSET Ids
    BY DEF TypeOK
  <2>. QED
    BY <1>1, <2>1, AscendingHolds DEF Saved, IndexOf, Index
<1>2. CASE index[s] # NotLoaded
  BY <1>2 DEF Saved, TypeOK
<1>. QED
  BY <1>1, <1>2

LEMMA WriteFileKeeps ==
  ASSUME EnforcementInvariant, VectorInvariant', NEW s \in Services, WriteFile(s)
  PROVE  EnforcementInvariant'
<1>1. TypeOK /\ AtStep(s) /\ LoggedIsActive
  BY DEF EnforcementInvariant, OperationAtStep
<1>2. /\ UNCHANGED <<dbVars, cursor, stale, op, request, ban, answered, bounds>>
      /\ pc[s] = "save" /\ pc' = [pc EXCEPT ![s] = "record"]
      /\ file' = [file EXCEPT ![s] = Saved(s).vectors]
      /\ snapshot' = [snapshot EXCEPT ![s] = Active]
      /\ index' = [index EXCEPT ![s] = index[s]]
  BY <1>1 DEF WriteFile, TypeOK
<1>3. Saved(s).vectors \in Seq(Ids) /\ Active \in SUBSET Ids /\ index[s] \in {NotLoaded} \cup Index
  BY <1>1, SavedFacts DEF Index, Active, TypeOK
<1>4. Enforces(s, Active)
  BY <1>1, ActiveEnforces
<1>5. index[s] # NotLoaded =>
        ban[s] # NoBan /\ ban[s] \in ToSet(index[s].refs) /\ op[s] # "search"
  BY <1>1, <1>2 DEF AtStep
<1>6. index[s] # NotLoaded => Enforces(s, ToSet(index[s].refs))
  BY DEF EnforcementInvariant, IndexEnforces
<1>7. index[s] = NotLoaded => Loading(s)
  BY <1>2 DEF Loading
<1>. QED
  BY <1>2, <1>3, <1>4, <1>5, <1>6, <1>7, WithinKeeps

LEMMA SaveIndexStateKeeps ==
  ASSUME EnforcementInvariant, VectorInvariant', NEW s \in Services, SaveIndexState(s)
  PROVE  EnforcementInvariant'
<1>1. TypeOK /\ AtStep(s) /\ pc[s] = "record"
  BY DEF EnforcementInvariant, OperationAtStep, SaveIndexState
<1>2. /\ state' = [vectors |-> snapshot[s], sha |-> file[s]]
      /\ UNCHANGED <<status, signature, creator, nextId, log, file, bounds>>
  BY DEF SaveIndexState
<1>3. file[s] \in Seq(Ids)
  <2>1. file[s] = Saved(s).vectors
    BY <1>1 DEF EnforcementInvariant, VectorInvariant, SavingWhatWasRead
  <2>. QED
    BY <1>1, <2>1, SavedFacts DEF Index
<1>4. state' \in {NoState} \cup [vectors : SUBSET Ids, sha : Seq(Ids)]
  BY <1>1, <1>2, <1>3 DEF TypeOK
<1>5. CASE index[s] = NotLoaded
  <2>1. index' = [index EXCEPT ![s] = Saved(s)] /\ IndexReady(s)
    BY <1>5 DEF SaveIndexState
  <2>. QED
    BY <1>1, <1>2, <1>4, <1>5, <2>1, SavedFacts, IndexReadyKeeps DEF bounds
<1>6. CASE index[s] # NotLoaded
  <2>1. index' = index /\ Finish(s, ban[s])
    BY <1>6 DEF SaveIndexState
  <2>2. ban[s] \in Ids /\ ban[s] \in ToSet(index[s].refs)
    BY <1>1, <1>6 DEF AtStep, TypeOK
  <2>. QED
    BY <1>1, <1>2, <1>4, <1>6, <2>1, <2>2, FinishKeeps DEF bounds
<1>. QED
  BY <1>5, <1>6

\* Neither outcome of insert_ban_result touches the index.
LEMMA InsertKeeps ==
  ASSUME EnforcementInvariant, VectorInvariant', NEW s \in Services, InsertBan(s)
  PROVE  EnforcementInvariant'
<1>1. TypeOK /\ AtStep(s) /\ FreshIds
  BY DEF EnforcementInvariant, OperationAtStep
<1>2. /\ nextId \in Ids /\ nextId' = nextId + 1 /\ pc[s] = "insert"
      /\ status' = [status EXCEPT ![nextId] = "active"]
      /\ signature' = [signature EXCEPT ![nextId] = request[s]]
      /\ creator' = [creator EXCEPT ![nextId] = s]
      /\ ban' = [ban EXCEPT ![s] = nextId] /\ pc' = [pc EXCEPT ![s] = "add"]
      /\ UNCHANGED <<log, state, file, index, cursor, stale, op, request, snapshot, answered,
                     bounds>>
  BY <1>1, ConstantsAssumption DEF InsertBan, NewRow, TypeOK, Ids
<1>3. /\ op[s] = "ban" /\ ban[s] = NoBan /\ index[s] # NotLoaded /\ status[nextId] = "unused"
      /\ ban'[s] = nextId /\ pc'[s] = "add" /\ creator'[nextId] = s /\ status'[nextId] = "active"
      /\ nextId # NoBan
  BY <1>1, <1>2, NoBanIsNoId DEF AtStep, FreshIds, TypeOK, Ids
<1>4. TypeOK'
  <2>1. nextId' \in 1..(MaxBans + 1)
    BY <1>2, ConstantsAssumption DEF Ids
  <2>2. request[s] \in Signatures \cup {NoSignature}
    BY <1>1 DEF TypeOK
  <2>3. /\ status' \in [Ids -> {"unused", "open", "active", "inactive"}]
        /\ signature' \in [Ids -> Signatures \cup {NoSignature}]
        /\ creator' \in [Ids -> Services \cup {Bot, Nobody}]
    BY <1>1, <1>2, <2>2 DEF TypeOK
  <2>4. /\ pc' \in [Services -> {"idle", "load", "loaded", "save", "record", "insert", "add"}]
        /\ ban' \in [Services -> Ids \cup {NoBan}]
    BY <1>1, <1>2 DEF TypeOK
  <2>. QED
    BY <1>1, <1>2, <2>1, <2>3, <2>4 DEF TypeOK, bounds
<1>5. \A r \in Services \ {s} : Still(r)
  BY <1>1, <1>2 DEF Still, TypeOK
<1>6. RowsOf(s)
  <2>1. \A i \in Ids : i >= nextId' => i # nextId /\ i >= nextId
    BY <1>2 DEF Ids
  <2>2. \A i \in Ids : i # nextId => status'[i] = status[i] /\ creator'[i] = creator[i]
    BY <1>1, <1>2 DEF TypeOK
  <2>. QED
    BY <1>1, <1>2, <1>3, <2>1, <2>2 DEF RowsOf, FreshIds
<1>7. \A i \in Ids : status'[i] = "open" => status[i] = "open" /\ creator'[i] = creator[i]
  BY <1>1, <1>2 DEF TypeOK
<1>8. AtStep(s)' /\ ~Loading(s)'
  BY <1>1, <1>2, <1>3 DEF AtStep, Loading
<1>9. Owed(s)' \subseteq Owed(s) /\ TakenBack(s)' \subseteq TakenBack(s)
  BY <1>1, <1>2, <1>3, NoBanIsNoId DEF Owed, TakenBack, TypeOK, bounds
<1>. QED
  BY <1>2, <1>4, <1>5, <1>6, <1>7, <1>8, <1>9, ServiceKeeps
     DEF EnforcementInvariant, IndexEnforces, Enforces, bounds

LEMMA ReturnKeeps ==
  ASSUME EnforcementInvariant, VectorInvariant', NEW s \in Services,
         BanKnown(s) \/ AlreadyApplied(s)
  PROVE  EnforcementInvariant'
<1>1. TypeOK /\ AtStep(s)
  BY DEF EnforcementInvariant, OperationAtStep
<1>2. UNCHANGED <<dbVars, file, index, bounds>> /\ pc[s] # "idle"
  BY DEF BanKnown, AlreadyApplied
<1>3. state' \in {NoState} \cup [vectors : SUBSET Ids, sha : Seq(Ids)]
  BY <1>1, <1>2 DEF TypeOK, dbVars
<1>4. CASE BanKnown(s)
  <2>1. PICK i \in Ids : Finish(s, i)
    BY <1>4 DEF BanKnown, Committed
  <2>2. index[s] # NotLoaded /\ ban[s] = NoBan
    BY <1>1, <1>4 DEF BanKnown, AtStep
  <2>. QED
    BY <1>2, <1>3, <2>1, <2>2, FinishKeeps DEF dbVars, bounds
<1>5. CASE AlreadyApplied(s)
  <2>1. index[s] # NotLoaded /\ ban[s] \in Ids /\ ban[s] \in ToSet(index[s].refs)
    BY <1>1, <1>5 DEF AlreadyApplied, AtStep, TypeOK
  <2>2. Finish(s, ban[s])
    BY <1>5 DEF AlreadyApplied
  <2>. QED
    BY <1>2, <1>3, <2>1, <2>2, FinishKeeps DEF dbVars, bounds
<1>. QED
  BY <1>4, <1>5

\* Adding a ban to a list of bans adds it to the bans listed.
LEMMA AppendAdds ==
  ASSUME NEW q \in Seq(Ids), NEW b \in Ids
  PROVE  Append(q, b) \in Seq(Ids) /\ ToSet(Append(q, b)) = ToSet(q) \cup {b}
<1>1. /\ DOMAIN Append(q, b) = 1..(Len(q) + 1) /\ DOMAIN q = 1..Len(q) /\ Len(q) \in Nat
      /\ \A n \in 1..Len(q) : Append(q, b)[n] = q[n]
      /\ Append(q, b)[Len(q) + 1] = b
  OBVIOUS
<1>2. \A n \in 1..(Len(q) + 1) : n \in 1..Len(q) \/ n = Len(q) + 1
  BY <1>1
<1>3. Len(q) + 1 \in 1..(Len(q) + 1) /\ \A n \in 1..Len(q) : n \in 1..(Len(q) + 1)
  BY <1>1
<1>4. Append(q, b) \in Seq(Ids)
  OBVIOUS
<1> QED BY <1>1, <1>2, <1>3, <1>4 DEF ToSet

\* The ban that joins the index is not one that was taken back.
LEMMA AddToIndexKeeps ==
  ASSUME EnforcementInvariant, VectorInvariant', NEW s \in Services, AddToIndex(s)
  PROVE  EnforcementInvariant'
<1>1. TypeOK /\ AtStep(s) /\ LoggedIsActive
  BY DEF EnforcementInvariant, OperationAtStep
<1>2. /\ pc[s] = "add" /\ index[s] # NotLoaded /\ ban[s] \in Ids /\ ban[s] # NoBan
      /\ op[s] \in {"ban", "apply"} /\ index[s] \in Index
  BY <1>1 DEF AddToIndex, AtStep, TypeOK, Loading
<1> DEFINE q == index[s].refs
           x == IndexOf(Append(q, ban[s]))
<1>3. /\ UNCHANGED <<dbVars, cursor, stale, op, request, ban, answered, bounds>>
      /\ pc' = [pc EXCEPT ![s] = "save"]
      /\ file' = [file EXCEPT ![s] = file[s]] /\ file[s] \in {NoFile, BadFile} \cup Seq(Ids)
      /\ snapshot' = [snapshot EXCEPT ![s] = snapshot[s]] /\ snapshot[s] \in SUBSET Ids
      /\ index' = [index EXCEPT ![s] = x]
  BY <1>1 DEF AddToIndex, TypeOK
<1>4. q \in Seq(Ids)
  BY <1>2 DEF Index
<1>5. x \in Index /\ x.refs = Append(q, ban[s])
  BY <1>2, <1>4 DEF IndexOf, Index
<1>6. ToSet(x.refs) = ToSet(q) \cup {ban[s]}
  BY <1>2, <1>4, <1>5, AppendAdds
<1>7. ban[s] \notin TakenBack(s)
  BY <1>1, <1>2 DEF AtStep, LoggedIsActive, TakenBack, TypeOK
<1>8. Enforces(s, ToSet(x.refs))
  BY <1>2, <1>6, <1>7 DEF EnforcementInvariant, IndexEnforces, Enforces
<1>9. x # NotLoaded /\ ban[s] \in ToSet(x.refs)
  BY <1>5, <1>6, ConstantsAssumption
<1> HIDE DEF x
<1>. QED
  BY <1>2, <1>3, <1>5, <1>8, <1>9, WithinKeeps

\* The ban of the failed request is left behind, or the process is lost.
LEMMA LeftBehindKeeps ==
  ASSUME EnforcementInvariant, VectorInvariant', NEW s \in Services,
         DeactivationFails(s) \/ Crash(s)
  PROVE  EnforcementInvariant'
<1>1. TypeOK /\ AtStep(s)
  BY DEF EnforcementInvariant, OperationAtStep
<1>2. Released(s) /\ UNCHANGED <<dbVars, cursor, stale, answered>>
  BY DEF DeactivationFails, Crash
<1>3. /\ index' = index \/ index' = [index EXCEPT ![s] = NotLoaded]
      /\ file' \in [Services -> {NoFile, BadFile} \cup Seq(Ids)]
      /\ orphaned \subseteq orphaned' /\ orphaned' \subseteq Ids
      /\ failures' \in 0..MaxFailures /\ crashes' \in 0..MaxCrashes
  <2>1. CASE DeactivationFails(s)
    BY <1>1, <2>1, ConstantsAssumption DEF DeactivationFails, TypeOK
  <2>2. CASE Crash(s)
    <3>1. \E f \in {NoFile, BadFile} \cup Seq(Ids) : file' = [file EXCEPT ![s] = f]
      BY <1>1, <2>2 DEF Crash, TypeOK
    <3>2. file' \in [Services -> {NoFile, BadFile} \cup Seq(Ids)]
      BY <1>1, <3>1 DEF TypeOK
    <3>3. crashes' \in 0..MaxCrashes /\ UNCHANGED <<orphaned, failures>>
      BY <1>1, <2>2, ConstantsAssumption DEF Crash, TypeOK
    <3>4. index' = [index EXCEPT ![s] = NotLoaded]
      BY <2>2 DEF Crash
    <3>. QED
      BY <1>1, <3>2, <3>3, <3>4 DEF TypeOK
  <2>. QED
    BY <2>1, <2>2
<1>4. TypeOK'
  BY <1>1, <1>2, <1>3, ReleasedFacts DEF TypeOK, dbVars
<1>5. \A r \in Services \ {s} : Still(r)
  BY <1>1, <1>2, <1>3, ReleasedFacts DEF Still, TypeOK
<1>6. AtStep(s)' /\ ~Loading(s)'
  BY <1>1, <1>2, ReleasedFacts DEF AtStep, Loading
<1>7. index'[s] # NotLoaded =>
        Owed(s)' \subseteq ToSet(index'[s].refs) /\ TakenBack(s) \cap ToSet(index'[s].refs) = {}
  <2>1. CASE DeactivationFails(s)
    <3>1. ban[s] \in orphaned' /\ index' = index
      BY <2>1 DEF DeactivationFails
    <3>2. index[s] # NotLoaded => Enforces(s, ToSet(index[s].refs))
      BY DEF EnforcementInvariant, IndexEnforces
    <3>. QED
      BY <1>1, <1>2, <1>3, <3>1, <3>2, ReleasedFacts, OwedAfterRelease DEF Enforces, dbVars
  <2>2. CASE Crash(s)
    BY <1>1, <2>2 DEF Crash, TypeOK
  <2>. QED
    BY <2>1, <2>2
<1>. QED
  BY <1>2, <1>3, <1>4, <1>5, <1>6, <1>7, QuietServiceKeeps DEF dbVars

-----------------------------------------------------------------------------
(* The bots, and the invariant.                                            *)

\* The services stand still, the log at most grows by a ban of a bot.
LEMMA BotsKeep ==
  ASSUME EnforcementInvariant, VectorInvariant', TypeOK', RowsOf(Bot), OpenIsBots',
         UNCHANGED <<index, cursor, opVars, orphaned>>,
         log' = log \/ \E i \in Ids \cup {NoBan} :
           /\ log' = Append(log, i)
           /\ i # NoBan => status'[i] = "active" /\ creator'[i] = Bot,
         \A i \in Ids : status[i] = "active" => status'[i] = "active" /\ creator'[i] = creator[i]
  PROVE  EnforcementInvariant'
<1>1. TypeOK /\ LoggedIsActive
  BY DEF EnforcementInvariant
<1>2. /\ Len(log') >= Len(log) /\ DOMAIN log = 1..Len(log) /\ DOMAIN log' = 1..Len(log')
      /\ \A e \in DOMAIN log : log'[e] = log[e] /\ log[e] \in Ids \cup {NoBan}
  <2>1. log \in Seq(Ids \cup {NoBan})
    BY <1>1 DEF TypeOK
  <2>2. CASE log' = log
    BY <2>1, <2>2
  <2>3. ASSUME NEW i \in Ids \cup {NoBan}, log' = Append(log, i)
        PROVE  /\ Len(log') >= Len(log) /\ DOMAIN log = 1..Len(log) /\ DOMAIN log' = 1..Len(log')
               /\ \A e \in DOMAIN log : log'[e] = log[e] /\ log[e] \in Ids \cup {NoBan}
    BY <2>1, <2>3
  <2>. QED
    BY <2>2, <2>3
<1>3. \A r \in Services : Still(r) /\ Bot # r
  BY NoBanIsNoId, SMTT(30) DEF Still, opVars
<1>4. OperationAtStep' /\ IndexEnforces' /\ SnapshotEnforces'
  BY <1>2, <1>3, OthersKeep, ZenonT(30) DEF OperationAtStep, IndexEnforces, SnapshotEnforces
<1>5. LoggedIsActive'
  <2>1. \A e \in DOMAIN log : log[e] # NoBan => status'[log[e]] = "active" /\ creator'[log[e]] = Bot
    BY <1>1, <1>2, ZenonT(30) DEF LoggedIsActive
  <2>2. CASE log' = log
    BY <2>1, <2>2 DEF LoggedIsActive
  <2>3. ASSUME NEW i \in Ids \cup {NoBan}, log' = Append(log, i),
               i # NoBan => status'[i] = "active" /\ creator'[i] = Bot
        PROVE  LoggedIsActive'
    <3>1. \A e \in DOMAIN log' : e \in DOMAIN log \/ log'[e] = i
      BY <1>1, <2>3 DEF TypeOK
    <3>. QED
      BY <1>2, <2>1, <2>3, <3>1, ZenonT(30) DEF LoggedIsActive
  <2>. QED
    BY <2>2, <2>3
<1>. QED
  BY <1>4, <1>5 DEF EnforcementInvariant, RowsOf

LEMMA BotStepKeeps ==
  ASSUME EnforcementInvariant, VectorInvariant', BotStep
  PROVE  EnforcementInvariant'
<1>1. TypeOK /\ FreshIds /\ OpenIsBots /\ LoggedIsActive
  BY DEF EnforcementInvariant
<1>2. UNCHANGED <<index, cursor, stale, opVars, file, state, answered, bounds>>
  BY DEF BotStep, BotInsert, BotCommit, BotRollBack, BotBansKnownVectors
<1>3. ASSUME NEW g \in Signatures, BotInsert(g) PROVE EnforcementInvariant'
  <2>1. /\ nextId \in Ids /\ nextId' = nextId + 1 /\ log' = log
        /\ status' = [status EXCEPT ![nextId] = "open"]
        /\ signature' = [signature EXCEPT ![nextId] = g]
        /\ creator' = [creator EXCEPT ![nextId] = Bot]
    BY <1>1, <1>3, ConstantsAssumption DEF BotInsert, NewRow, TypeOK, Ids
  <2>2. status[nextId] = "unused"
    BY <1>1, <2>1 DEF FreshIds, TypeOK, Ids
  <2>3. TypeOK'
    <3>1. nextId' \in 1..(MaxBans + 1)
      BY <2>1, ConstantsAssumption DEF Ids
    <3>2. /\ status' \in [Ids -> {"unused", "open", "active", "inactive"}]
          /\ signature' \in [Ids -> Signatures \cup {NoSignature}]
          /\ creator' \in [Ids -> Services \cup {Bot, Nobody}]
      BY <1>1, <2>1 DEF TypeOK
    <3>. QED
      BY <1>1, <1>2, <2>1, <3>1, <3>2 DEF TypeOK, opVars, bounds
  <2>4. \A i \in Ids : i # nextId => status'[i] = status[i] /\ creator'[i] = creator[i]
    BY <1>1, <2>1 DEF TypeOK
  <2>5. status'[nextId] = "open" /\ creator'[nextId] = Bot
    BY <1>1, <2>1 DEF TypeOK
  <2>6. \A i \in Ids : i >= nextId' => i # nextId /\ i >= nextId
    BY <2>1 DEF Ids
  <2>7. RowsOf(Bot)
    BY <1>1, <2>2, <2>4, <2>5, <2>6 DEF RowsOf, FreshIds
  <2>8. OpenIsBots'
    BY <1>1, <2>4, <2>5 DEF OpenIsBots
  <2>9. \A i \in Ids : status[i] = "active" => status'[i] = "active" /\ creator'[i] = creator[i]
    BY <2>2, <2>4
  <2>. QED
    BY <1>2, <2>1, <2>3, <2>7, <2>8, <2>9, BotsKeep DEF bounds
<1>4. ASSUME NEW i \in Ids, BotCommit(i) \/ BotRollBack(i) PROVE EnforcementInvariant'
  <2>1. /\ UNCHANGED <<signature, creator, nextId>> /\ status[i] = "open" /\ creator[i] = Bot
        /\ \E v \in {"active", "unused"} :
             /\ status' = [status EXCEPT ![i] = v]
             /\ \/ log' = log
                \/ v = "active" /\ log' = Append(log, i) /\ Len(log) < MaxEvents
    BY <1>1, <1>4 DEF BotCommit, BotRollBack, OpenIsBots
  <2>2. TypeOK'
    <3>1. status' \in [Ids -> {"unused", "open", "active", "inactive"}]
      BY <1>1, <2>1 DEF TypeOK
    <3>2. /\ log' \in Seq(Ids \cup {NoBan}) /\ Len(log') <= MaxEvents /\ Len(log') >= Len(log)
      <4>1. log \in Seq(Ids \cup {NoBan}) /\ Len(log) <= MaxEvents /\ MaxEvents \in Nat
        BY <1>1, ConstantsAssumption DEF TypeOK
      <4>2. CASE log' = log
        BY <4>1, <4>2
      <4>3. CASE log' = Append(log, i) /\ Len(log) < MaxEvents
        BY <4>1, <4>3
      <4>. QED
        BY <2>1, <4>2, <4>3
    <3>3. cursor' \in [Services -> 0..Len(log')]
      BY <1>1, <1>2, <3>2 DEF TypeOK
    <3>. QED
      BY <1>1, <1>2, <2>1, <3>1, <3>2, <3>3 DEF TypeOK, opVars, bounds
  <2>3. /\ \A j \in Ids : j # i => status'[j] = status[j]
        /\ status'[i] \in {"active", "unused"}
    BY <1>1, <2>1 DEF TypeOK
  <2>4. RowsOf(Bot)
    BY <1>1, <2>1, <2>3 DEF RowsOf, FreshIds
  <2>5. OpenIsBots'
    BY <1>1, <2>1, <2>3 DEF OpenIsBots
  <2>6. log' = log \/ (log' = Append(log, i) /\ status'[i] = "active" /\ creator'[i] = Bot)
    BY <1>1, <2>1 DEF TypeOK
  <2>. QED
    BY <1>2, <2>1, <2>2, <2>3, <2>4, <2>5, <2>6, BotsKeep DEF bounds
<1>5. CASE BotBansKnownVectors
  <2>1. /\ log' = Append(log, NoBan) /\ Len(log) < MaxEvents
        /\ UNCHANGED <<status, signature, creator, nextId>>
    BY <1>5 DEF BotBansKnownVectors
  <2>2. TypeOK'
    <3>1. /\ log' \in Seq(Ids \cup {NoBan}) /\ Len(log') <= MaxEvents /\ Len(log') >= Len(log)
      BY <1>1, <2>1, ConstantsAssumption DEF TypeOK
    <3>2. cursor' \in [Services -> 0..Len(log')]
      BY <1>1, <1>2, <3>1 DEF TypeOK
    <3>. QED
      BY <1>1, <1>2, <2>1, <3>1, <3>2 DEF TypeOK, opVars, bounds
  <2>3. OpenIsBots' /\ RowsOf(Bot)
    BY <1>1, <2>1, SameRows DEF OpenIsBots
  <2>. QED
    BY <1>2, <2>1, <2>2, <2>3, BotsKeep DEF bounds
<1>. QED
  BY <1>3, <1>4, <1>5 DEF BotStep

LEMMA InitEnforcement == Init => EnforcementInvariant
<1>. SUFFICES ASSUME Init
              PROVE  EnforcementInvariant
  OBVIOUS
<1>1. TypeOK
  <2>1. /\ 0 \in 0..MaxFailures /\ 0 \in 0..MaxCrashes /\ 1 \in 1..(MaxBans + 1)
        /\ <<>> \in Seq(Ids \cup {NoBan}) /\ Len(<<>>) <= MaxEvents
    BY ConstantsAssumption
  <2>. QED
    BY <2>1 DEF Init, TypeOK
<1>2. FreshIds /\ OpenIsBots /\ LoggedIsActive
  BY DEF Init, FreshIds, OpenIsBots, LoggedIsActive
<1>3. OperationAtStep /\ IndexEnforces /\ SnapshotEnforces
  BY DEF Init, OperationAtStep, AtStep, IndexEnforces, SnapshotEnforces, Loading
<1>. QED
  BY <1>1, <1>2, <1>3, InitVectorInvariant DEF EnforcementInvariant

LEMMA NextEnforcement == EnforcementInvariant /\ [Next]_vars => EnforcementInvariant'
<1>. SUFFICES ASSUME EnforcementInvariant, [Next]_vars
              PROVE  EnforcementInvariant'
  OBVIOUS
<1>1. VectorInvariant'
  BY NextVectorInvariant DEF EnforcementInvariant
<1>2. ASSUME NEW s \in Services,
             SaveRefused(s) \/ InsertFails(s) \/ StatementFails(s)
      PROVE  EnforcementInvariant'
  <2>1. Raise(s) /\ UNCHANGED <<file, orphaned, crashes>>
    BY <1>2 DEF SaveRefused, InsertFails, StatementFails, bounds
  <2>2. failures' \in 0..MaxFailures
    BY <1>2, ConstantsAssumption
       DEF SaveRefused, InsertFails, StatementFails, bounds, EnforcementInvariant, TypeOK
  <2>. QED
    BY <1>1, <2>1, <2>2, RaiseKeeps
<1>3. ASSUME NEW s \in Services, Continue(s)
      PROVE  EnforcementInvariant'
  BY <1>1, <1>2, <1>3, ReadKeeps, LoadFileKeeps, WriteFileKeeps, SaveIndexStateKeeps,
     InsertKeeps, ReturnKeeps, AddToIndexKeeps DEF Continue
<1>4. ASSUME NEW s \in Services, ServiceStep(s)
      PROVE  EnforcementInvariant'
  BY <1>1, <1>2, <1>3, <1>4, BeginKeeps, SkipEventKeeps, LeftBehindKeeps DEF ServiceStep
<1>5. CASE UNCHANGED vars
  <2>1. RowsOf(Bot) /\ OpenIsBots'
    BY <1>5, SameRows DEF vars, dbVars, EnforcementInvariant, OpenIsBots
  <2>2. TypeOK'
    BY <1>5 DEF vars, dbVars, opVars, bounds, EnforcementInvariant, TypeOK
  <2>. QED
    BY <1>1, <1>5, <2>1, <2>2, BotsKeep DEF vars, dbVars, bounds
<1>. QED
  BY <1>1, <1>4, <1>5, BotStepKeeps DEF Next

\* The invariant of rows, operations, snapshots and indexes holds in every
\* reachable state, for any number of services, bans, events and failures.
THEOREM EnforcementInvariantHolds == Spec => []EnforcementInvariant
BY InitEnforcement, NextEnforcement, PTL DEF Spec

\* The state is well typed: files and the state row hold sequences of ids,
\* no checkpoint is ahead of the outbox.
THEOREM TypeCorrect == Spec => []TypeOK
<1>1. EnforcementInvariant => TypeOK
  BY DEF EnforcementInvariant
<1>. QED
  BY <1>1, EnforcementInvariantHolds, PTL

\* A ban whose event the checkpoint counts as applied is found by every
\* search of an index that is loaded.
THEOREM AppliedStaysInIndex == Spec => []AppliedInIndex
<1>1. EnforcementInvariant => AppliedInIndex
  <2>. SUFFICES ASSUME EnforcementInvariant, NEW s \in Services, NEW e \in 1..cursor[s],
                       log[e] # NoBan, index[s] # NotLoaded
                PROVE  log[e] \in ToSet(index[s].vectors)
    BY DEF AppliedInIndex
  <2>1. log[e] \in ToSet(index[s].refs)
    BY DEF EnforcementInvariant, IndexEnforces, Enforces, Owed
  <2>2. index[s].vectors = index[s].refs
    BY DEF EnforcementInvariant, VectorInvariant, VectorsMatchRefs
  <2>. QED
    BY <2>1, <2>2
<1>. QED
  BY <1>1, EnforcementInvariantHolds, PTL

\* A ban that add_ban took back is not found by the service that created it.
THEOREM TakenBackIsForgotten == Spec => []FailedBanForgotten
<1>1. EnforcementInvariant => FailedBanForgotten
  BY DEF EnforcementInvariant, IndexEnforces, Enforces, TakenBack, FailedBanForgotten
<1>. QED
  BY <1>1, EnforcementInvariantHolds, PTL

\* An answered ban is found by the service that created it as long as it is
\* active and was not left behind by a failed request.
THEOREM AnsweredStaysEnforced == Spec => []AnsweredIsEnforced
<1>1. EnforcementInvariant => AnsweredIsEnforced
  BY DEF EnforcementInvariant, IndexEnforces, Enforces, Owed, AnsweredIsEnforced, TypeOK
<1>. QED
  BY <1>1, EnforcementInvariantHolds, PTL

-----------------------------------------------------------------------------
(* AIVectorIndex implements ReplicatedBlacklist.                           *)

Served == [s \in Services |-> [i \in {"index"} |-> Held(s)]]

LEMMA SameServiceRefines ==
  ASSUME UNCHANGED index, Committed' = Committed
  PROVE  [Blacklist!Next]_(Blacklist!vars)
<1>1. \A s \in Services : Held(s)' = Held(s) BY DEF Held
<1> QED BY <1>1 DEF Blacklist!vars

LEMMA NewRowRefines ==
  ASSUME UNCHANGED index, NEW b \in Ids, Committed' = Committed \cup {b}
  PROVE  Blacklist!Next
<1>1. \A s \in Services : Held(s)' = Held(s) BY DEF Held
<1>2. Blacklist!Commit BY <1>1 DEF Blacklist!Commit
<1> QED BY <1>2 DEF Blacklist!Next

LEMMA DroppedIndexRefines ==
  ASSUME TypeOK, Committed' = Committed, NEW s \in Services,
         index' = [index EXCEPT ![s] = NotLoaded]
  PROVE  Blacklist!Next
<1>1. Held(s)' = {} /\ \A r \in Services \ {s} : Held(r)' = Held(r) BY DEF Held, TypeOK
<1>2. Served' = [Served EXCEPT ![s] = [i \in {"index"} |-> {}]] BY <1>1 DEF Served
<1>3. Blacklist!Restart(s) BY <1>2 DEF Blacklist!Restart, Served
<1> QED BY <1>3 DEF Blacklist!Next

LEMMA GrownIndexRefines ==
  ASSUME TypeOK, Committed' = Committed, NEW s \in Services, NEW x \in Index,
         index' = [index EXCEPT ![s] = x], NEW A \in SUBSET Committed,
         ToSet(x.refs) = Held(s) \cup A
  PROVE  Blacklist!Next
<1>1. Held(s)' = Held(s) \cup A /\ \A r \in Services \ {s} : Held(r)' = Held(r)
  BY ConstantsAssumption DEF Held, TypeOK
<1>2. A \in SUBSET {b \in Committed : "index" \in TheIndex(b)} BY DEF TheIndex
<1>3. Served' = [Served EXCEPT ![s]["index"] = @ \cup A] BY <1>1 DEF Served
<1>4. Blacklist!Enforce(s, "index") BY <1>2, <1>3 DEF Blacklist!Enforce, Served
<1> QED BY <1>4 DEF Blacklist!Next

\* What was read stays committed, whoever commits or takes back in between.
LEMMA ReadStaysCommitted ==
  ASSUME ReadIsCommitted, Committed \subseteq Committed',
         \A r \in Services :
           /\ snapshot'[r] = snapshot[r] \/ snapshot'[r] \subseteq Committed
           /\ \/ index'[r] = index[r] \/ index'[r] = NotLoaded
              \/ ToSet(index'[r].refs) \subseteq Committed
  PROVE  ReadIsCommitted'
<1>1. ASSUME NEW r \in Services PROVE snapshot'[r] \subseteq Committed'
  BY <1>1 DEF ReadIsCommitted
<1>2. ASSUME NEW r \in Services, index'[r] # NotLoaded
      PROVE  ToSet(index'[r].refs) \subseteq Committed'
  BY <1>2 DEF ReadIsCommitted
<1> QED BY <1>1, <1>2 DEF ReadIsCommitted

\* A step after which s has released its lock and kept or dropped its index.
LEMMA ReleaseRefines ==
  ASSUME TypeOK, ReadIsCommitted, NEW s \in Services, Released(s), Committed' = Committed,
         index' = index \/ index' = [index EXCEPT ![s] = NotLoaded]
  PROVE  ReadIsCommitted' /\ [Blacklist!Next]_(Blacklist!vars)
<1>1. ReadIsCommitted'
  <2>1. \A r \in Services : snapshot'[r] = snapshot[r] \/ snapshot'[r] = {}
    BY DEF Released, TypeOK
  <2>2. \A r \in Services : index'[r] = index[r] \/ index'[r] = NotLoaded BY DEF TypeOK
  <2> QED BY <2>1, <2>2, ReadStaysCommitted
<1> QED BY <1>1, SameServiceRefines, DroppedIndexRefines

\* A step of s that changes neither rows nor indexes.
LEMMA QuietRefines ==
  ASSUME TypeOK, ReadIsCommitted, NEW s \in Services, UNCHANGED <<status, index>>,
         NEW A \in SUBSET Committed, snapshot' = snapshot \/ snapshot' = [snapshot EXCEPT ![s] = A]
  PROVE  ReadIsCommitted' /\ [Blacklist!Next]_(Blacklist!vars)
<1>1. Committed' = Committed BY DEF Committed
<1>2. \A r \in Services : snapshot'[r] = snapshot[r] \/ snapshot'[r] \subseteq Committed
  BY DEF TypeOK
<1> QED BY <1>1, <1>2, ReadStaysCommitted, SameServiceRefines

LEMMA RaiseRefines ==
  ASSUME EnforcementInvariant, ReadIsCommitted, NEW s \in Services, Raise(s)
  PROVE  ReadIsCommitted' /\ [Blacklist!Next]_(Blacklist!vars)
<1>1. TypeOK /\ AtStep(s) BY DEF EnforcementInvariant, OperationAtStep
<1>2. Committed' = Committed
  BY <1>1 DEF Raise, Committed, AtStep, TypeOK
<1>3. Released(s) /\ (index' = index \/ index' = [index EXCEPT ![s] = NotLoaded])
  BY DEF Raise
<1> QED BY <1>1, <1>2, <1>3, ReleaseRefines

\* _index_for_dimension has the index, from a file or rebuilt.
LEMMA LoadedRefines ==
  ASSUME EnforcementInvariant, ReadIsCommitted, NEW s \in Services, IndexReady(s),
         UNCHANGED status, index[s] = NotLoaded, NEW x \in Index,
         ToSet(x.refs) = snapshot[s], index' = [index EXCEPT ![s] = x]
  PROVE  ReadIsCommitted' /\ [Blacklist!Next]_(Blacklist!vars)
<1>1. TypeOK /\ snapshot[s] \subseteq Committed BY DEF EnforcementInvariant, ReadIsCommitted
<1>2. Committed' = Committed BY DEF Committed
<1>3. snapshot' = [snapshot EXCEPT ![s] = {}] BY DEF IndexReady, Finish, Released
<1>4. /\ \A r \in Services : snapshot'[r] = snapshot[r] \/ snapshot'[r] = {}
      /\ \A r \in Services : index'[r] = index[r] \/ ToSet(index'[r].refs) \subseteq Committed
  BY <1>1, <1>3 DEF TypeOK
<1>5. ReadIsCommitted' BY <1>2, <1>4, ReadStaysCommitted
<1>6. ToSet(x.refs) = Held(s) \cup snapshot[s] BY DEF Held
<1>7. Blacklist!Next BY <1>1, <1>2, <1>6, GrownIndexRefines
<1> QED BY <1>5, <1>7

\* The steps between the lock and its release.
LEMMA ContinueRefines ==
  ASSUME EnforcementInvariant, ReadIsCommitted, NEW s \in Services, Continue(s)
  PROVE  ReadIsCommitted' /\ [Blacklist!Next]_(Blacklist!vars)
<1>1. TypeOK /\ AtStep(s) /\ FreshIds /\ LoggedIsActive
  BY DEF EnforcementInvariant, OperationAtStep
<1>2. Active \in SUBSET Committed /\ {} \in SUBSET Committed BY DEF Active, Committed
<1>3. CASE ReadActiveBans(s) \/ Rebuild(s)
  BY <1>1, <1>2, <1>3, QuietRefines DEF ReadActiveBans, Rebuild, dbVars
<1>4. CASE WriteFile(s)
  BY <1>1, <1>2, <1>4, QuietRefines DEF WriteFile, dbVars
<1>5. CASE SaveRefused(s) \/ InsertFails(s)
  BY <1>5, RaiseRefines DEF SaveRefused, InsertFails
<1>6. CASE BanKnown(s) \/ AlreadyApplied(s)
  <2>1. Released(s) /\ UNCHANGED <<status, index>>
    BY <1>6 DEF BanKnown, AlreadyApplied, Finish, dbVars
  <2>2. Committed' = Committed BY <2>1 DEF Committed
  <2> QED BY <1>1, <2>1, <2>2, ReleaseRefines
<1>7. CASE LoadFile(s)
  <2> DEFINE x == [vectors |-> file[s], refs |-> Ascending(snapshot[s])]
  <2>1. /\ IndexReady(s) /\ UNCHANGED status /\ index[s] = NotLoaded
        /\ index' = [index EXCEPT ![s] = x]
    BY <1>1, <1>7 DEF LoadFile, AtStep, dbVars
  <2>2. file[s] = Ascending(snapshot[s])
    BY <1>7 DEF LoadFile, StateMatches, EnforcementInvariant, VectorInvariant, StateDescribesFile
  <2>3. Ascending(snapshot[s]) \in Seq(Ids) /\ ToSet(Ascending(snapshot[s])) = snapshot[s]
    BY <1>1, AscendingHolds DEF TypeOK
  <2>4. x \in Index /\ ToSet(x.refs) = snapshot[s] BY <2>2, <2>3 DEF Index
  <2> HIDE DEF x
  <2> QED BY <2>1, <2>4, LoadedRefines
<1>8. CASE SaveIndexState(s)
  <2>1. CASE index[s] = NotLoaded
    <3>1. IndexReady(s) /\ UNCHANGED status /\ index' = [index EXCEPT ![s] = Saved(s)]
      BY <1>8, <2>1 DEF SaveIndexState
    <3>2. Saved(s) \in Index /\ ToSet(Saved(s).refs) = snapshot[s]
      BY <1>1, <2>1, SavedFacts
    <3> QED BY <2>1, <3>1, <3>2, LoadedRefines
  <2>2. CASE index[s] # NotLoaded
    <3>1. Released(s) /\ UNCHANGED <<status, index>> BY <1>8, <2>2 DEF SaveIndexState, Finish
    <3>2. Committed' = Committed BY <3>1 DEF Committed
    <3> QED BY <1>1, <3>1, <3>2, ReleaseRefines
  <2> QED BY <2>1, <2>2
<1>9. CASE InsertBan(s)
  <2>1. /\ nextId \in Ids /\ status' = [status EXCEPT ![nextId] = "active"]
        /\ UNCHANGED <<index, snapshot>>
    BY <1>1, <1>9, ConstantsAssumption DEF InsertBan, NewRow, TypeOK, Ids
  <2>2. Committed' = Committed \cup {nextId} BY <1>1, <2>1 DEF Committed, TypeOK
  <2>3. ReadIsCommitted' BY <2>1, <2>2, ReadStaysCommitted
  <2> QED BY <2>1, <2>2, <2>3, NewRowRefines
<1>10. CASE AddToIndex(s)
  <2> DEFINE q == Append(index[s].refs, ban[s])
  <2>1. /\ index[s] # NotLoaded /\ index[s] \in Index /\ ban[s] \in Ids /\ ban[s] # NoBan
        /\ op[s] \in {"ban", "apply"} /\ UNCHANGED <<status, snapshot>>
        /\ index' = [index EXCEPT ![s] = IndexOf(q)]
    BY <1>1, <1>10 DEF AddToIndex, AtStep, TypeOK, dbVars, Loading
  <2>2. status[ban[s]] = "active"
    BY <1>1, <2>1 DEF AtStep, LoggedIsActive, TypeOK
  <2>3. Committed' = Committed /\ {ban[s]} \in SUBSET Committed BY <2>1, <2>2 DEF Committed
  <2>4. index[s].refs \in Seq(Ids) BY <2>1 DEF Index
  <2>5. q \in Seq(Ids) /\ ToSet(q) = ToSet(index[s].refs) \cup {ban[s]}
    BY <2>1, <2>4, AppendAdds
  <2> HIDE DEF q
  <2>6. IndexOf(q) \in Index /\ ToSet(IndexOf(q).refs) = Held(s) \cup {ban[s]}
    BY <2>1, <2>5 DEF IndexOf, Index, Held
  <2>7. Blacklist!Next BY <1>1, <2>1, <2>3, <2>6, GrownIndexRefines
  <2>8. ToSet(IndexOf(q).refs) \subseteq Committed
    BY <2>1, <2>3, <2>6 DEF Held, ReadIsCommitted
  <2>9. ReadIsCommitted'
    <3>1. \A r \in Services : index'[r] = index[r] \/ ToSet(index'[r].refs) \subseteq Committed
      BY <1>1, <2>1, <2>8 DEF TypeOK
    <3> QED BY <2>1, <2>3, <3>1, ReadStaysCommitted
  <2> QED BY <2>7, <2>9
<1> QED BY <1>3, <1>4, <1>5, <1>6, <1>7, <1>8, <1>9, <1>10 DEF Continue

LEMMA ServiceStepRefines ==
  ASSUME EnforcementInvariant, ReadIsCommitted, NEW s \in Services, ServiceStep(s)
  PROVE  ReadIsCommitted' /\ [Blacklist!Next]_(Blacklist!vars)
<1>1. TypeOK /\ {} \in SUBSET Committed BY DEF EnforcementInvariant
<1>2. CASE PostBan(s) \/ PostSearch(s) \/ ApplyEvent(s) \/ SkipEvent(s)
  BY <1>1, <1>2, QuietRefines DEF PostBan, PostSearch, ApplyEvent, SkipEvent, Begin, dbVars, opVars
<1>3. CASE StatementFails(s)
  BY <1>3, RaiseRefines DEF StatementFails
<1>4. CASE DeactivationFails(s) \/ Crash(s)
  <2>1. /\ Released(s) /\ UNCHANGED status
        /\ index' = index \/ index' = [index EXCEPT ![s] = NotLoaded]
    BY <1>4 DEF DeactivationFails, Crash, dbVars
  <2>2. Committed' = Committed BY <2>1 DEF Committed
  <2> QED BY <1>1, <2>1, <2>2, ReleaseRefines
<1> QED BY <1>2, <1>3, <1>4, ContinueRefines DEF ServiceStep

\* A bot's commit is a commit of the blacklist; its open rows are nobody's yet.
LEMMA BotStepRefines ==
  ASSUME EnforcementInvariant, ReadIsCommitted, BotStep
  PROVE  ReadIsCommitted' /\ [Blacklist!Next]_(Blacklist!vars)
<1>1. TypeOK /\ FreshIds /\ UNCHANGED <<index, snapshot>>
  BY DEF EnforcementInvariant, BotStep, BotInsert, BotCommit, BotRollBack, BotBansKnownVectors, opVars
<1>2. Committed' = Committed \/ \E i \in Ids : Committed' = Committed \cup {i}
  <2>1. ASSUME NEW g \in Signatures, BotInsert(g) PROVE Committed' = Committed
    <3>1. nextId \in Ids /\ status[nextId] = "unused" /\ status' = [status EXCEPT ![nextId] = "open"]
      BY <1>1, <2>1, ConstantsAssumption DEF BotInsert, NewRow, TypeOK, Ids, FreshIds
    <3> QED BY <1>1, <3>1 DEF Committed, TypeOK
  <2>2. ASSUME NEW i \in Ids, BotCommit(i) PROVE Committed' = Committed \cup {i}
    BY <1>1, <2>2 DEF BotCommit, Committed, TypeOK
  <2>3. ASSUME NEW i \in Ids, BotRollBack(i) PROVE Committed' = Committed
    BY <1>1, <2>3 DEF BotRollBack, Committed, TypeOK
  <2>4. CASE BotBansKnownVectors
    BY <2>4 DEF BotBansKnownVectors, Committed
  <2> QED BY <2>1, <2>2, <2>3, <2>4 DEF BotStep
<1>3. Committed \subseteq Committed' BY <1>2
<1>4. ReadIsCommitted' BY <1>1, <1>3, ReadStaysCommitted
<1> QED BY <1>1, <1>2, <1>4, SameServiceRefines, NewRowRefines

\* The services, with their files, their shared state row and the bans they
\* take back, keep the promise of the blacklist: what an index matches was
\* committed, and it loses a ban only by being dropped as a whole.
THEOREM ServicesKeepThePromise == Spec => ServicesImplementBlacklist
<1>1. Init => Blacklist!Init /\ ReadIsCommitted
  BY DEF Init, Blacklist!Init, Held, Committed, ReadIsCommitted
<1>2. EnforcementInvariant /\ ReadIsCommitted /\ [Next]_vars
        => ReadIsCommitted' /\ [Blacklist!Next]_(Blacklist!vars)
  <2> SUFFICES ASSUME EnforcementInvariant, ReadIsCommitted, [Next]_vars
               PROVE  ReadIsCommitted' /\ [Blacklist!Next]_(Blacklist!vars)
    OBVIOUS
  <2>1. CASE UNCHANGED vars
    <3>1. UNCHANGED <<status, index, snapshot>> BY <2>1 DEF vars, dbVars, opVars
    <3>2. Committed' = Committed BY <3>1 DEF Committed
    <3> QED BY <3>1, <3>2, ReadStaysCommitted, SameServiceRefines
  <2> QED BY <2>1, BotStepRefines, ServiceStepRefines DEF Next
<1> QED
  BY <1>1, <1>2, EnforcementInvariantHolds, PTL DEF Spec, ServicesImplementBlacklist, Blacklist!Spec

\* What the promise amounts to is proved of every implementation at once.
Promise == INSTANCE ReplicatedBlacklistProofs
  WITH Ban <- Ids, Replica <- Services, Index <- {"index"}, Covers <- TheIndex,
       bans <- Committed, enforced <- [s \in Services |-> [i \in {"index"} |-> Held(s)]]

LEMMA ServicesPromise == ServicesImplementBlacklist => Promise!Spec
<1>1. Blacklist!Init => Promise!Init BY DEF Blacklist!Init, Promise!Init
<1>2. [Blacklist!Next]_(Blacklist!vars) => [Promise!Next]_(Promise!vars)
  BY DEF Blacklist!vars, Promise!vars, Blacklist!Next, Promise!Next, Blacklist!Commit, Promise!Commit,
         Blacklist!Enforce, Promise!Enforce, Blacklist!Restart, Promise!Restart
<1> QED BY <1>1, <1>2, PTL DEF ServicesImplementBlacklist, Blacklist!Spec, Promise!Spec

\* Rebuilt, loaded from a file or extended by a ban: an index matches only
\* committed bans and goes on matching each of them until it is dropped as a
\* whole, by a failed POST /ban or with its process.
MatchesOnlyCommitted == \A s \in Services : Held(s) \subseteq Committed
GoesOnMatching == \A s \in Services : Held(s) \subseteq Held(s)' \/ Held(s)' = {}
THEOREM IndexIsKeptOrDropped == Spec => []MatchesOnlyCommitted /\ [][GoesOnMatching]_vars
<1>1. Promise!EnforcedIsCommitted => MatchesOnlyCommitted
  BY DEF Promise!EnforcedIsCommitted, MatchesOnlyCommitted
<1>2. [Promise!ForgetsOnlyAsAWhole]_(Promise!vars) => [GoesOnMatching]_vars
  <2> SUFFICES ASSUME [Promise!ForgetsOnlyAsAWhole]_(Promise!vars), NEW s \in Services
               PROVE  Held(s) \subseteq Held(s)' \/ Held(s)' = {}
    BY DEF GoesOnMatching
  <2>1. CASE Promise!ForgetsOnlyAsAWhole
    BY <2>1 DEF Promise!ForgetsOnlyAsAWhole
  <2>2. CASE UNCHANGED Promise!vars
    <3>1. [r \in Services |-> [i \in {"index"} |-> Held(r)]]'
             = [r \in Services |-> [i \in {"index"} |-> Held(r)]]
      BY <2>2 DEF Promise!vars
    <3>2. Held(s)' = Held(s) BY <3>1
    <3> QED BY <3>2
  <2> QED BY <2>1, <2>2
<1> QED
  BY <1>1, <1>2, ServicesKeepThePromise, ServicesPromise, Promise!OnlyCommittedIsEnforced,
     Promise!NoBanForgotten, PTL

=============================================================================
