----------------------- MODULE BanTransactionProofs -----------------------
(***************************************************************************)
(* Proofs about BanTransaction for any number of workers, threads,         *)
(* contents and keys: its invariant, the absence of waiting circles, that  *)
(* bans come to an end and what becomes of those that lose a race, and     *)
(* that the interleaved transactions implement atomic bans.                *)
(***************************************************************************)
EXTENDS BanTransaction, FiniteSetTheorems, TLAPS

Frame(y) ==
  /\ pc'[y] = pc[y] /\ content'[y] = content[y] /\ ban'[y] = ban[y]
  /\ todo'[y] = todo[y] /\ at'[y] = at[y] /\ (y \in seen' <=> y \in seen) /\ own'[y] = own[y]

\* A step of another client leaves an open transaction orderly: committed
\* rows only grow, and nobody else commits its ban_uid.
LEMMA OrderlyFrame ==
  ASSUME BanInvariant, NEW y \in Clients, pc[y] # "idle", Frame(y),
         rows \subseteq rows', nextBan' \in Nat, nextBan <= nextBan', ban[y] \notin bans'
  PROVE  Orderly(y)'
<1>1. Orderly(y) /\ nextBan \in Nat /\ ban[y] \in Nat
  BY ConstantsAssumption DEF BanInvariant, OpenIsOrderly, TypeOK, Orderly
<1>2. Targets(y)' = Targets(y) /\ Processed(y)' = Processed(y) /\ NextTable(y)' = NextTable(y)
  BY DEF Frame, Targets, Processed, NextTable
<1>3. \A t : RowOf(y, t)' = RowOf(y, t)
  BY DEF Frame, RowOf
<1>4. \A t : Stored(t, KeyOf[content[y]][t]) => Stored(t, KeyOf[content[y]][t])'
  BY DEF Stored, Frame
<1>5. (\A t \in Processed(y) :
        RowOf(y, t) \in own[y] \/ (y \in Workers /\ Stored(t, KeyOf[content[y]][t])))'
  BY <1>1, <1>2, <1>3, <1>4 DEF Frame, Orderly
<1>6. (own[y] \subseteq {RowOf(y, t) : t \in Processed(y)})'
  BY <1>1, <1>2, <1>3 DEF Frame, Orderly
<1>. QED
  BY <1>1, <1>2, <1>5, <1>6, ConstantsAssumption DEF Frame, Orderly

\* What every step needs of the transactions it does not touch.
LEMMA OthersOrderly ==
  ASSUME BanInvariant, NEW x \in Clients, \A y \in Clients \ {x} : Frame(y),
         rows \subseteq rows', nextBan' \in Nat, nextBan <= nextBan',
         \A y \in Clients \ {x} : pc[y] # "idle" => ban[y] \notin bans',
         IF pc'[x] = "idle" THEN own'[x] = {} ELSE Orderly(x)'
  PROVE  OpenIsOrderly'
<1>. SUFFICES ASSUME NEW y \in Clients
              PROVE  (IF pc[y] = "idle" THEN own[y] = {} ELSE Orderly(y))'
  BY DEF OpenIsOrderly
<1>1. CASE y = x
  BY <1>1
<1>2. CASE y # x /\ pc[y] = "idle"
  BY <1>2 DEF BanInvariant, OpenIsOrderly, Frame
<1>3. CASE y # x /\ pc[y] # "idle"
  BY <1>3, OrderlyFrame DEF Frame
<1>. QED
  BY <1>1, <1>2, <1>3

LEMMA InitInvariant == Init => BanInvariant
BY ConstantsAssumption
   DEF Init, BanInvariant, TypeOK, OpenIsOrderly, KeyOwnedOnce, BanUidsFresh,
       BansHaveArtifacts, SuccessMeansStored, Clients

-----------------------------------------------------------------------------
(* One lemma per kind of step.                                             *)

\* StartBlock and StartServiceBan: a transaction begins with a fresh ban_uid
\* and no row.
LEMMA StartInvariant ==
  ASSUME BanInvariant,
         (\E w \in Workers : StartBlock(w)) \/ (\E s \in Threads : StartServiceBan(s))
  PROVE  BanInvariant'
<1>1. PICK x \in Clients : (x \in Workers /\ StartBlock(x)) \/ (x \in Threads /\ StartServiceBan(x))
  BY DEF Clients
<1>2. PICK c \in Contents :
        /\ content' = [content EXCEPT ![x] = c]
        /\ x \in Workers => todo' = [todo EXCEPT ![x] = Prepared(c)]
        /\ x \in Threads => todo' = [todo EXCEPT ![x] = {AIVector}] /\ AIVector \in Prepared(c)
  BY <1>1, ConstantsAssumption DEF StartBlock, StartServiceBan
<1>3. /\ pc[x] = "idle" /\ nextBan <= MaxBans
      /\ UNCHANGED <<dbVars, own, acked, lost, failures>>
      /\ ban' = [ban EXCEPT ![x] = nextBan] /\ nextBan' = nextBan + 1
      /\ x \in Workers =>
           pc' = [pc EXCEPT ![x] = "ready"] /\ at' = at /\ seen' = seen
      /\ x \in Threads =>
           /\ pc' = [pc EXCEPT ![x] = "inserting"]
           /\ at' = [at EXCEPT ![x] = AIVector] /\ seen' = seen \ {x}
  BY <1>1, ConstantsAssumption DEF StartBlock, StartServiceBan
<1>4. TypeOK /\ own[x] = {} /\ BanUidsFresh /\ x \notin Workers \cap Threads
  BY <1>3, ConstantsAssumption DEF BanInvariant, OpenIsOrderly
<1>5. TypeOK'
  <2>1. todo' \in [Clients -> SUBSET Tables]
    BY <1>2, <1>4, ConstantsAssumption DEF TypeOK, Prepared, Clients
  <2>2. pc' \in [Clients -> {"idle", "ready", "inserting"}]
    BY <1>3, <1>4 DEF TypeOK, Clients
  <2>3. at' \in [Clients -> Tables] /\ seen' \subseteq Clients
    <3>1. CASE x \in Workers
      BY <3>1, <1>3, <1>4 DEF TypeOK
    <3>2. CASE x \in Threads
      BY <3>2, <1>3, <1>4, ConstantsAssumption DEF TypeOK
    <3>. QED
      BY <3>1, <3>2 DEF Clients
  <2>4. nextBan' \in 1..(MaxBans + 1) /\ ban' \in [Clients -> 0..MaxBans]
    BY <1>3, <1>4, ConstantsAssumption DEF TypeOK
  <2>5. content' \in [Clients -> Contents \cup {NoContent}]
    BY <1>2, <1>4 DEF TypeOK
  <2>. QED
    BY <2>1, <2>2, <2>3, <2>4, <2>5, <1>3, <1>4 DEF TypeOK, dbVars
<1>6. \A y \in Clients \ {x} : Frame(y)
  BY <1>2, <1>3, <1>4, ConstantsAssumption DEF TypeOK, Frame, Clients
<1>7. content'[x] = c /\ ban'[x] = nextBan /\ own'[x] = {} /\ todo'[x] = Targets(x)'
  BY <1>2, <1>3, <1>4 DEF TypeOK, Targets, Clients
<1>8. Processed(x)' = {}
  BY <1>7 DEF Processed
<1>9. Targets(x)' \subseteq Prepared(content'[x])
  BY <1>2, <1>7, <1>4 DEF Targets, Clients
<1>10. nextBan \notin bans
  BY <1>4 DEF BanUidsFresh, TypeOK
<1>11. pc'[x] = "inserting" => at'[x] \in NextTable(x)'
  BY <1>2, <1>3, <1>4, ConstantsAssumption DEF TypeOK, NextTable, Clients
<1>12. x \in Threads => x \notin seen'
  BY <1>3, <1>4 DEF TypeOK
<1>13. Orderly(x)'
  BY <1>3, <1>4, <1>7, <1>8, <1>9, <1>10, <1>11, <1>12, ConstantsAssumption
  DEF Orderly, TypeOK, dbVars
<1>14. OpenIsOrderly'
  <2>1. \A y \in Clients \ {x} : pc[y] # "idle" => ban[y] \notin bans'
    BY <1>3 DEF BanInvariant, OpenIsOrderly, Orderly, dbVars
  <2>2. nextBan' \in Nat /\ nextBan <= nextBan' /\ rows \subseteq rows'
    BY <1>3, <1>4, ConstantsAssumption DEF TypeOK, dbVars
  <2>3. pc'[x] # "idle"
    BY <1>3, <1>4 DEF TypeOK, Clients
  <2>. QED
    BY <2>1, <2>2, <2>3, <1>6, <1>13, OthersOrderly
<1>15. KeyOwnedOnce'
  BY <1>3 DEF BanInvariant, KeyOwnedOnce, Stored, dbVars
<1>16. BanUidsFresh'
  <2>1. \A y \in Clients : pc[y] # "idle" => ban[y] < nextBan
    BY DEF BanInvariant, OpenIsOrderly, Orderly
  <2>. QED
    BY <2>1, <1>3, <1>4, <1>6, <1>7, ConstantsAssumption DEF BanUidsFresh, TypeOK, dbVars, Frame
<1>17. BansHaveArtifacts' /\ SuccessMeansStored'
  BY <1>3 DEF BanInvariant, BansHaveArtifacts, SuccessMeansStored, Stored, dbVars
<1>. QED
  BY <1>5, <1>14, <1>15, <1>16, <1>17 DEF BanInvariant

\* BeginInsert: the next statement is chosen and takes its snapshot.
LEMMA BeginInvariant ==
  ASSUME BanInvariant, NEW w \in Workers, BeginInsert(w)
  PROVE  BanInvariant'
<1>1. PICK t \in NextTable(w) :
        /\ at' = [at EXCEPT ![w] = t]
        /\ seen' = IF Stored(t, KeyOf[content[w]][t]) THEN seen \cup {w} ELSE seen
  BY DEF BeginInsert
<1>2. /\ pc[w] = "ready" /\ pc' = [pc EXCEPT ![w] = "inserting"]
      /\ UNCHANGED <<dbVars, nextBan, content, ban, todo, own, acked, lost, failures>>
  BY DEF BeginInsert
<1>3. TypeOK /\ w \in Clients /\ w \notin Threads /\ Orderly(w) /\ t \in Tables
  BY <1>1, <1>2, ConstantsAssumption DEF BanInvariant, OpenIsOrderly, Clients, NextTable, TypeOK
<1>4. TypeOK'
  <2>1. at' \in [Clients -> Tables] /\ seen' \subseteq Clients
    BY <1>1, <1>3 DEF TypeOK
  <2>2. pc' \in [Clients -> {"idle", "ready", "inserting"}]
    BY <1>2, <1>3 DEF TypeOK
  <2>. QED
    BY <2>1, <2>2, <1>2, <1>3 DEF TypeOK, dbVars
<1>5. \A y \in Clients \ {w} : Frame(y)
  BY <1>1, <1>2, <1>3 DEF TypeOK, Frame
<1>6. Orderly(w)'
  <2>1. /\ Targets(w)' = Targets(w) /\ Processed(w)' = Processed(w)
        /\ NextTable(w)' = NextTable(w) /\ \A u : RowOf(w, u)' = RowOf(w, u)
        /\ \A u, k : Stored(u, k)' = Stored(u, k)
    BY <1>2 DEF Targets, Processed, NextTable, RowOf, Stored, dbVars
  <2>2. at'[w] \in NextTable(w)
    BY <1>1, <1>3 DEF TypeOK
  <2>. QED
    BY <2>1, <2>2, <1>2, <1>3 DEF Orderly, dbVars
<1>7. OpenIsOrderly'
  <2>1. \A y \in Clients \ {w} : pc[y] # "idle" => ban[y] \notin bans'
    BY <1>2 DEF BanInvariant, OpenIsOrderly, Orderly, dbVars
  <2>2. nextBan' \in Nat /\ nextBan <= nextBan' /\ rows \subseteq rows'
    BY <1>2, <1>3, ConstantsAssumption DEF TypeOK, dbVars
  <2>3. pc'[w] # "idle"
    BY <1>2, <1>3 DEF TypeOK
  <2>. QED
    BY <2>1, <2>2, <2>3, <1>3, <1>5, <1>6, OthersOrderly
<1>8. KeyOwnedOnce' /\ BansHaveArtifacts' /\ SuccessMeansStored'
  BY <1>2 DEF BanInvariant, KeyOwnedOnce, BansHaveArtifacts, SuccessMeansStored, Stored, dbVars
<1>9. BanUidsFresh'
  <2>1. \A y \in Clients : pc'[y] # "idle" => pc[y] # "idle"
    BY <1>2, <1>3 DEF TypeOK
  <2>. QED
    BY <2>1, <1>2 DEF BanInvariant, BanUidsFresh, dbVars
<1>. QED
  BY <1>4, <1>7, <1>8, <1>9 DEF BanInvariant

\* InsertRow and FindRow: the key of the running INSERT is the client's own,
\* or a committed ban's.
LEMMA InsertedInvariant ==
  ASSUME BanInvariant, NEW x \in Clients, InsertRow(x) \/ FindRow(x)
  PROVE  BanInvariant'
<1>. DEFINE t == at[x]
            r == RowOf(x, t)
<1>1. /\ pc[x] = "inserting" /\ pc' = [pc EXCEPT ![x] = "ready"]
      /\ todo' = [todo EXCEPT ![x] = todo[x] \ {t}] /\ at' = [at EXCEPT ![x] = Exact]
      /\ seen' = seen \ {x}
      /\ UNCHANGED <<dbVars, nextBan, content, ban, acked, lost, failures>>
  BY DEF InsertRow, FindRow, Inserted
<1>2. TypeOK /\ Orderly(x) /\ t \in Tables /\ t \in todo[x] /\ t \in Targets(x)
      /\ t \in NextTable(x)
  BY <1>1 DEF BanInvariant, OpenIsOrderly, Orderly, NextTable, TypeOK
<1>3. \/ Holders(x) = {} /\ ~Stored(t, KeyAt(x)) /\ own' = [own EXCEPT ![x] = own[x] \cup {r}]
      \/ Stored(t, KeyAt(x)) /\ (t = Exact \/ x \in seen) /\ own' = own
  BY DEF InsertRow, FindRow, RowOf, KeyAt
<1>4. r \in Row /\ r.table = t /\ r.key = KeyAt(x) /\ KeyAt(x) = KeyOf[content[x]][t]
  <2>1. content[x] \in Contents /\ ban[x] \in 1..MaxBans /\ t \in Tables /\ KeyOf[content[x]][t] # NoKey
    BY <1>2 DEF Orderly, Prepared
  <2>2. KeyOf[content[x]][t] \in Keys
    BY <2>1, ConstantsAssumption
  <2>. QED
    BY <2>1, <2>2 DEF RowOf, Row, KeyAt
<1>5. TypeOK'
  <2>1. todo' \in [Clients -> SUBSET Tables]
    BY <1>1, <1>2 DEF TypeOK
  <2>2. pc' \in [Clients -> {"idle", "ready", "inserting"}]
    BY <1>1, <1>2 DEF TypeOK
  <2>3. at' \in [Clients -> Tables] /\ seen' \subseteq Clients
    BY <1>1, <1>2, ConstantsAssumption DEF TypeOK
  <2>4. own' \in [Clients -> SUBSET Row]
    BY <1>2, <1>3, <1>4 DEF TypeOK
  <2>. QED
    BY <2>1, <2>2, <2>3, <2>4, <1>1, <1>2 DEF TypeOK, dbVars
<1>6. \A y \in Clients \ {x} : Frame(y)
  BY <1>1, <1>2, <1>3 DEF TypeOK, Frame
<1>7. /\ Targets(x)' = Targets(x) /\ \A u : RowOf(x, u)' = RowOf(x, u)
      /\ \A u, k : Stored(u, k)' = Stored(u, k)
  BY <1>1 DEF Targets, RowOf, Stored, dbVars
<1>8. todo'[x] = todo[x] \ {t} /\ Processed(x)' = Processed(x) \cup {t}
  BY <1>1, <1>2, <1>7 DEF Processed, TypeOK
<1>9. Orderly(x)'
  <2>1. \A p \in Processed(x)', u \in todo'[x] : p < u
    BY <1>2, <1>8, ConstantsAssumption DEF Orderly, NextTable, TypeOK
  <2>2. own'[x] \subseteq {RowOf(x, p)' : p \in Processed(x)'}
    <3>1. own'[x] \subseteq own[x] \cup {RowOf(x, t)}
      BY <1>2, <1>3 DEF TypeOK
    <3>2. own[x] \subseteq {RowOf(x, p) : p \in Processed(x)}
      BY <1>2 DEF Orderly
    <3>. QED
      BY <3>1, <3>2, <1>7, <1>8
  <2>3. \A p \in Processed(x)' :
          RowOf(x, p)' \in own'[x] \/ (x \in Workers /\ Stored(p, KeyOf[content[x]][p])')
    <3>1. own[x] \subseteq own'[x] /\ content'[x] = content[x]
      BY <1>1, <1>2, <1>3 DEF TypeOK
    <3>2. RowOf(x, t) \in own'[x] \/ (x \in Workers /\ Stored(t, KeyOf[content[x]][t]))
      <4>1. CASE own' = [own EXCEPT ![x] = own[x] \cup {r}]
        BY <4>1, <1>2 DEF TypeOK
      <4>2. CASE Stored(t, KeyAt(x)) /\ (t = Exact \/ x \in seen)
        <5>1. x \in Threads => t # Exact /\ x \notin seen
          BY <1>2, ConstantsAssumption DEF Orderly, Targets
        <5>. QED
          BY <5>1, <4>2, <1>4 DEF Clients
      <4>. QED
        BY <4>1, <4>2, <1>3
    <3>. QED
      BY <3>1, <3>2, <1>2, <1>7, <1>8 DEF Orderly
  <2>4. pc'[x] = "ready" /\ x \notin seen' /\ content'[x] = content[x] /\ ban'[x] = ban[x]
    BY <1>1, <1>2 DEF TypeOK
  <2>. QED
    BY <2>1, <2>2, <2>3, <2>4, <1>1, <1>2, <1>7, <1>8 DEF Orderly, dbVars
<1>10. OpenIsOrderly'
  <2>1. \A y \in Clients \ {x} : pc[y] # "idle" => ban[y] \notin bans'
    BY <1>1 DEF BanInvariant, OpenIsOrderly, Orderly, dbVars
  <2>2. nextBan' \in Nat /\ nextBan <= nextBan' /\ rows \subseteq rows'
    BY <1>1, <1>2, ConstantsAssumption DEF TypeOK, dbVars
  <2>3. pc'[x] # "idle"
    BY <1>1, <1>2 DEF TypeOK
  <2>. QED
    BY <2>1, <2>2, <2>3, <1>6, <1>9, OthersOrderly
<1>11. KeyOwnedOnce'
  <2>1. CASE own' = own
    BY <2>1, <1>7 DEF BanInvariant, KeyOwnedOnce
  <2>2. CASE Holders(x) = {} /\ ~Stored(t, KeyAt(x)) /\ own' = [own EXCEPT ![x] = own[x] \cup {r}]
    <3>1. \A y \in Clients \ {x} : \A q \in own[y] : ~(q.table = t /\ q.key = KeyAt(x))
      BY <2>2 DEF Holders
    <3>2. own'[x] = own[x] \cup {r} /\ \A y \in Clients \ {x} : own'[y] = own[y]
      BY <2>2, <1>2 DEF TypeOK
    <3>3. KeyOwnedOnce
      BY DEF BanInvariant
    <3>4. ASSUME NEW y \in Clients, NEW q \in own'[y]
          PROVE  ~Stored(q.table, q.key)'
      BY <2>2, <3>2, <3>3, <1>4, <1>7 DEF KeyOwnedOnce
    <3>5. ASSUME NEW y \in Clients, NEW q \in own'[y], NEW z \in Clients \ {y}, NEW p \in own'[z]
          PROVE  ~(p.table = q.table /\ p.key = q.key)
      BY <3>1, <3>2, <3>3, <1>4 DEF KeyOwnedOnce
    <3>. QED
      BY <3>4, <3>5 DEF KeyOwnedOnce
  <2>. QED
    BY <2>1, <2>2, <1>3
<1>12. BansHaveArtifacts' /\ SuccessMeansStored'
  BY <1>1 DEF BanInvariant, BansHaveArtifacts, SuccessMeansStored, Stored, dbVars
<1>13. BanUidsFresh'
  <2>1. \A y \in Clients : pc'[y] # "idle" => pc[y] # "idle"
    BY <1>1, <1>2 DEF TypeOK
  <2>. QED
    BY <2>1, <1>1 DEF BanInvariant, BanUidsFresh, dbVars
<1>. QED
  BY <1>5, <1>10, <1>11, <1>12, <1>13 DEF BanInvariant

\* What is common to the ends of a transaction.
LEMMA EndedFacts ==
  ASSUME TypeOK, NEW x \in Clients, Ended(x)
  PROVE  /\ pc' \in [Clients -> {"idle", "ready", "inserting"}] /\ seen' \subseteq Clients
         /\ content' \in [Clients -> Contents \cup {NoContent}]
         /\ ban' \in [Clients -> 0..MaxBans] /\ todo' \in [Clients -> SUBSET Tables]
         /\ at' \in [Clients -> Tables] /\ own' \in [Clients -> SUBSET Row]
         /\ pc'[x] = "idle" /\ own'[x] = {} /\ nextBan' = nextBan
         /\ \A y \in Clients \ {x} : Frame(y)
<1>1. /\ pc' = [pc EXCEPT ![x] = "idle"] /\ content' = [content EXCEPT ![x] = NoContent]
      /\ ban' = [ban EXCEPT ![x] = 0] /\ todo' = [todo EXCEPT ![x] = {}]
      /\ at' = [at EXCEPT ![x] = Exact] /\ seen' = seen \ {x}
      /\ own' = [own EXCEPT ![x] = {}] /\ nextBan' = nextBan
  BY DEF Ended
<1>2. pc' \in [Clients -> {"idle", "ready", "inserting"}] /\ seen' \subseteq Clients
      /\ content' \in [Clients -> Contents \cup {NoContent}]
  BY <1>1 DEF TypeOK
<1>3. ban' \in [Clients -> 0..MaxBans] /\ todo' \in [Clients -> SUBSET Tables]
  BY <1>1, ConstantsAssumption DEF TypeOK
<1>4. at' \in [Clients -> Tables] /\ own' \in [Clients -> SUBSET Row]
  BY <1>1, ConstantsAssumption DEF TypeOK
<1>5. \A y \in Clients \ {x} : Frame(y)
  BY <1>1 DEF TypeOK, Frame
<1>6. pc'[x] = "idle" /\ own'[x] = {} /\ nextBan' = nextBan
  BY <1>1 DEF TypeOK
<1>. QED
  BY <1>2, <1>3, <1>4, <1>5, <1>6

\* InsertFails and RollBack: what the transaction did is undone.
LEMMA AbortInvariant ==
  ASSUME BanInvariant, NEW x \in Clients, InsertFails(x) \/ RollBack(x)
  PROVE  BanInvariant'
<1>1. Ended(x) /\ UNCHANGED <<dbVars, acked>> /\ pc[x] # "idle" /\ TypeOK /\ Orderly(x)
  BY DEF InsertFails, RollBack, BanInvariant, OpenIsOrderly
<1>2. lost' \subseteq Contents
  BY <1>1 DEF InsertFails, RollBack, TypeOK, Orderly
<1>3. failures' \in 0..MaxFailures
  BY <1>1, ConstantsAssumption DEF InsertFails, RollBack, TypeOK
<1>4. TypeOK'
  BY <1>1, <1>2, <1>3, EndedFacts DEF TypeOK, dbVars
<1>5. OpenIsOrderly'
  <2>1. \A y \in Clients \ {x} : pc[y] # "idle" => ban[y] \notin bans'
    BY <1>1 DEF BanInvariant, OpenIsOrderly, Orderly, dbVars
  <2>2. nextBan' \in Nat /\ nextBan <= nextBan' /\ rows \subseteq rows'
    BY <1>1, EndedFacts, ConstantsAssumption DEF TypeOK, dbVars
  <2>. QED
    BY <2>1, <2>2, <1>1, EndedFacts, OthersOrderly
<1>6. KeyOwnedOnce'
  <2>1. \A y \in Clients : own'[y] \subseteq own[y]
    BY <1>1, EndedFacts DEF Frame
  <2>. QED
    BY <2>1, <1>1 DEF BanInvariant, KeyOwnedOnce, Stored, dbVars
<1>7. BanUidsFresh'
  BY <1>1, EndedFacts DEF BanInvariant, BanUidsFresh, Frame, dbVars
<1>8. BansHaveArtifacts' /\ SuccessMeansStored'
  BY <1>1 DEF BanInvariant, BansHaveArtifacts, SuccessMeansStored, Stored, dbVars
<1>. QED
  BY <1>4, <1>5, <1>6, <1>7, <1>8 DEF BanInvariant

\* What a committing transaction owns.
LEMMA CommittedFacts ==
  ASSUME BanInvariant, NEW x \in Clients, Committed(x)
  PROVE  /\ Orderly(x) /\ Processed(x) = Targets(x)
         /\ own[x] \subseteq Row /\ \A r \in own[x] : r.ban = ban[x]
         /\ x \in Threads => own[x] # {}
<1>1. Orderly(x) /\ todo[x] = {} /\ own[x] \subseteq Row
  BY DEF Committed, BanInvariant, OpenIsOrderly, TypeOK
<1>2. Processed(x) = Targets(x)
  BY <1>1 DEF Processed
<1>3. \A r \in own[x] : r.ban = ban[x]
  BY <1>1 DEF Orderly, RowOf
<1>4. x \in Threads => own[x] # {}
  BY <1>1, <1>2, ConstantsAssumption DEF Orderly, Targets
<1>. QED
  BY <1>1, <1>2, <1>3, <1>4

\* CommitBlock and CommitServiceBan: the rows of the transaction become
\* everybody's, with their ban.
LEMMA CommitInvariant ==
  ASSUME BanInvariant, NEW x \in Clients,
         (x \in Workers /\ CommitBlock(x)) \/ (x \in Threads /\ CommitServiceBan(x))
  PROVE  BanInvariant'
<1>1. /\ Committed(x) /\ Ended(x) /\ rows' = rows \cup own[x] /\ pc[x] = "ready"
      /\ bans' = IF own[x] = {} THEN bans ELSE bans \cup {ban[x]}
      /\ events' = events \/ events' = IF own[x] = {} THEN events ELSE events \cup {ban[x]}
      /\ acked' = acked \/ (x \in Workers /\ acked' = acked \cup {content[x]})
      /\ UNCHANGED <<lost, failures>>
  BY CommittedFacts DEF CommitBlock, CommitServiceBan, Committed
<1>2. TypeOK /\ Orderly(x) /\ Processed(x) = Targets(x) /\ own[x] \subseteq Row
      /\ \A r \in own[x] : r.ban = ban[x]
  BY <1>1, CommittedFacts DEF BanInvariant
<1>3. TypeOK'
  <2>1. rows' \subseteq Row /\ bans' \subseteq 1..MaxBans /\ acked' \subseteq Contents
    BY <1>1, <1>2 DEF TypeOK, Orderly
  <2>2. events' \subseteq bans'
    BY <1>1, <1>2 DEF TypeOK
  <2>. QED
    BY <2>1, <2>2, <1>1, <1>2, EndedFacts DEF TypeOK
<1>4. \A y \in Clients \ {x} : pc[y] # "idle" => ban[y] \notin bans'
  BY <1>1 DEF BanInvariant, BanUidsFresh, OpenIsOrderly, Orderly
<1>5. OpenIsOrderly'
  <2>1. nextBan' \in Nat /\ nextBan <= nextBan' /\ rows \subseteq rows'
    BY <1>1, <1>2, EndedFacts, ConstantsAssumption DEF TypeOK
  <2>. QED
    BY <2>1, <1>1, <1>2, <1>4, EndedFacts, OthersOrderly
<1>6. KeyOwnedOnce'
  <2>1. own'[x] = {} /\ \A y \in Clients \ {x} : own'[y] = own[y]
    BY <1>1, <1>2, EndedFacts DEF Frame
  <2>2. KeyOwnedOnce
    BY DEF BanInvariant
  <2>3. ASSUME NEW y \in Clients, NEW r \in own'[y]
        PROVE  ~Stored(r.table, r.key)'
    BY <2>1, <2>2, <1>1 DEF KeyOwnedOnce, Stored
  <2>4. ASSUME NEW y \in Clients, NEW r \in own'[y], NEW z \in Clients \ {y}, NEW s \in own'[z]
        PROVE  ~(s.table = r.table /\ s.key = r.key)
    BY <2>1, <2>2 DEF KeyOwnedOnce
  <2>. QED
    BY <2>3, <2>4 DEF KeyOwnedOnce
<1>7. BanUidsFresh'
  <2>1. \A b \in bans' : b < nextBan'
    BY <1>1, <1>2, EndedFacts DEF BanInvariant, BanUidsFresh, Orderly
  <2>. QED
    BY <2>1, <1>1, <1>2, EndedFacts DEF BanInvariant, BanUidsFresh, Frame
<1>8. BansHaveArtifacts'
  <2>1. bans = {r.ban : r \in rows}
    BY DEF BanInvariant, BansHaveArtifacts
  <2>. QED
    BY <2>1, <1>1, <1>2 DEF BansHaveArtifacts
<1>9. SuccessMeansStored'
  <2>1. \A u, k : Stored(u, k) => Stored(u, k)'
    BY <1>1 DEF Stored
  <2>2. ASSUME NEW c \in Contents, x \in Workers, c = content[x], NEW u \in Prepared(c)
        PROVE  Stored(u, KeyOf[c][u])'
    <3>1. RowOf(x, u) \in own[x] \/ Stored(u, KeyOf[c][u])
      BY <2>2, <1>2 DEF Orderly, Targets
    <3>2. RowOf(x, u).table = u /\ RowOf(x, u).key = KeyOf[c][u]
      BY <2>2 DEF RowOf
    <3>3. CASE RowOf(x, u) \in own[x]
      BY <3>2, <3>3, <1>1 DEF Stored
    <3>. QED
      BY <2>1, <3>1, <3>3
  <2>3. \A c \in acked : \A u \in Prepared(c) : Stored(u, KeyOf[c][u])'
    BY <2>1 DEF BanInvariant, SuccessMeansStored
  <2>4. content[x] \in Contents
    BY <1>2 DEF Orderly
  <2>. QED
    BY <2>2, <2>3, <2>4, <1>1 DEF SuccessMeansStored, Prepared
<1>. QED
  BY <1>3, <1>5, <1>6, <1>7, <1>8, <1>9 DEF BanInvariant

LEMMA NextInvariant == BanInvariant /\ [Next]_vars => BanInvariant'
<1>. SUFFICES ASSUME BanInvariant, [Next]_vars
              PROVE  BanInvariant'
  OBVIOUS
<1>1. ASSUME NEW w \in Workers, WorkerStep(w)
      PROVE  BanInvariant'
  BY <1>1, StartInvariant, BeginInvariant, CommitInvariant DEF WorkerStep, Clients
<1>2. ASSUME NEW s \in Threads, ThreadStep(s)
      PROVE  BanInvariant'
  BY <1>2, StartInvariant, CommitInvariant DEF ThreadStep, Clients
<1>3. ASSUME NEW x \in Clients, ClientStep(x)
      PROVE  BanInvariant'
  BY <1>3, InsertedInvariant, AbortInvariant DEF ClientStep
<1>4. CASE UNCHANGED vars
  <2>1. /\ rows' = rows /\ bans' = bans /\ acked' = acked /\ own' = own /\ pc' = pc
        /\ ban' = ban /\ nextBan' = nextBan /\ events' = events
    BY <1>4 DEF vars, dbVars, txVars
  <2>2. TypeOK'
    BY <1>4 DEF BanInvariant, TypeOK, vars, dbVars, txVars
  <2>3. OpenIsOrderly'
    BY <1>4 DEF BanInvariant, OpenIsOrderly, Orderly, Processed, Targets, NextTable, RowOf,
                Stored, vars, dbVars, txVars
  <2>4. KeyOwnedOnce' /\ BanUidsFresh' /\ BansHaveArtifacts' /\ SuccessMeansStored'
    BY <2>1 DEF BanInvariant, KeyOwnedOnce, BanUidsFresh, BansHaveArtifacts,
                SuccessMeansStored, Stored
  <2>. QED
    BY <2>2, <2>3, <2>4 DEF BanInvariant
<1>. QED
  BY <1>1, <1>2, <1>3, <1>4 DEF Next

-----------------------------------------------------------------------------
(* The theorems.                                                           *)

\* The unique keys are owned once, open transactions are orderly, committed
\* bans own artifacts and successful ones are stored: in every state.
THEOREM BanInvariantHolds == Spec => []BanInvariant
BY InitInvariant, NextInvariant, PTL DEF Spec

\* The variables of the transactions keep their types.
THEOREM TypeCorrect == Spec => []TypeOK
<1>1. BanInvariant => TypeOK
  BY DEF BanInvariant
<1>. QED
  BY <1>1, BanInvariantHolds, PTL

\* Block returns success only when every supporting index has the content.
THEOREM SuccessIsDurable == Spec => []SuccessMeansStored
<1>1. BanInvariant => SuccessMeansStored
  BY DEF BanInvariant
<1>. QED
  BY <1>1, BanInvariantHolds, PTL

\* The committed bans are exactly those that own a committed artifact.
THEOREM NoEmptyBans == Spec => []BansHaveArtifacts
<1>1. BanInvariant => BansHaveArtifacts
  BY DEF BanInvariant
<1>. QED
  BY <1>1, BanInvariantHolds, PTL

\* A client waits for one that is past the same table, so its own table is
\* the higher one.
LEMMA WaitsUpwards ==
  ASSUME BanInvariant, NEW x \in Clients, NEW y \in Holders(x), pc[y] = "inserting"
  PROVE  at[y] \in 1..4 /\ at[x] < at[y]
<1>1. PICK r \in own[y] : r.table = at[x]
  BY DEF Holders
<1>2. y \in Clients /\ Orderly(y)
  BY DEF Holders, BanInvariant, OpenIsOrderly
<1>3. at[x] \in Processed(y)
  BY <1>1, <1>2 DEF Orderly, RowOf
<1>4. at[y] \in todo[y] /\ at[y] \in Tables
  BY <1>2 DEF Orderly, NextTable, BanInvariant, TypeOK
<1>. QED
  BY <1>2, <1>3, <1>4, ConstantsAssumption DEF Orderly

\* The fixed order of the handlers keeps transactions from waiting for each
\* other in a circle, however many run at once.
THEOREM NoDeadlock == Spec => []NoWaitCycle
<1>1. BanInvariant => NoWaitCycle
  <2>. SUFFICES ASSUME BanInvariant, NEW S \in (SUBSET Clients) \ {{}},
                       \A x \in S : pc[x] = "inserting" /\ Holders(x) \cap S # {}
                PROVE  FALSE
    BY DEF NoWaitCycle
  <2>1. \A x \in S : at[x] \in 1..4
    BY ConstantsAssumption DEF BanInvariant, TypeOK
  <2>2. \A x \in S : \E y \in S : at[x] < at[y]
    BY WaitsUpwards
  <2>3. PICK a \in S : TRUE
    OBVIOUS
  <2>4. PICK b \in S : at[a] < at[b]
    BY <2>2
  <2>5. PICK c \in S : at[b] < at[c]
    BY <2>2
  <2>6. PICK d \in S : at[c] < at[d]
    BY <2>2
  <2>7. PICK e \in S : at[d] < at[e]
    BY <2>2
  <2>. QED
    BY <2>1, <2>4, <2>5, <2>6, <2>7
<1>. QED
  BY <1>1, BanInvariantHolds, PTL

-----------------------------------------------------------------------------
(* Nobody waits for ever: what is left of EveryBanReturns without fairness. *)

\* A service thread inserts into one table: after its INSERT only the commit
\* is left.
ThreadsInsertOnce == \A s \in Threads : pc[s] = "ready" => todo[s] = {}

LEMMA ThreadsInsertOnceStep ==
  BanInvariant /\ ThreadsInsertOnce /\ [Next]_vars => ThreadsInsertOnce'
<1> SUFFICES ASSUME BanInvariant, ThreadsInsertOnce, [Next]_vars,
                    NEW s \in Threads, pc'[s] = "ready"
             PROVE  todo'[s] = {}
  BY DEF ThreadsInsertOnce
<1>1. TypeOK /\ s \in Clients /\ s \notin Workers
  BY ConstantsAssumption DEF BanInvariant, Clients
<1>2. CASE pc'[s] = pc[s] /\ todo'[s] = todo[s]
  BY <1>2 DEF ThreadsInsertOnce
<1>3. ASSUME NEW w \in Workers, WorkerStep(w)
      PROVE  pc'[s] = pc[s] /\ todo'[s] = todo[s]
  <2>1. w # s /\ w \in Clients BY <1>1 DEF Clients
  <2>2. CASE StartBlock(w) \/ BeginInsert(w) BY <2>1, <2>2, <1>1 DEF StartBlock, BeginInsert, TypeOK
  <2>3. CASE CommitBlock(w) BY <2>1, <2>3, <1>1, EndedFacts DEF CommitBlock, Committed, Frame
  <2> QED BY <1>3, <2>2, <2>3 DEF WorkerStep
<1>4. ASSUME NEW x \in Threads, ThreadStep(x)
      PROVE  pc'[s] = pc[s] /\ todo'[s] = todo[s]
  <2>1. x \in Clients BY DEF Clients
  <2>2. CASE StartServiceBan(x)
    <3>1. pc' = [pc EXCEPT ![x] = "inserting"] /\ todo' = [todo EXCEPT ![x] = {AIVector}]
      BY <2>2 DEF StartServiceBan
    <3> QED BY <3>1, <2>1, <1>1 DEF TypeOK
  <2>3. CASE CommitServiceBan(x)
    <3>1. pc'[x] = "idle" /\ (x # s => Frame(s))
      BY <2>1, <2>3, <1>1, EndedFacts DEF CommitServiceBan, Committed
    <3> QED BY <3>1 DEF Frame
  <2> QED BY <1>4, <2>2, <2>3 DEF ThreadStep
<1>5. ASSUME NEW x \in Clients, ClientStep(x)
      PROVE  todo'[s] = {}
  <2>1. CASE InsertRow(x) \/ FindRow(x)
    <3>1. /\ pc[x] = "inserting" /\ pc' = [pc EXCEPT ![x] = "ready"]
          /\ todo' = [todo EXCEPT ![x] = todo[x] \ {at[x]}]
      BY <2>1 DEF InsertRow, FindRow, Inserted
    <3>2. CASE x = s
      <4>1. Orderly(s) BY <3>1, <3>2 DEF BanInvariant, OpenIsOrderly
      <4>2. todo[s] \subseteq {AIVector} /\ at[s] \in todo[s]
        BY <4>1, <3>1, <3>2, <1>1 DEF Orderly, Targets, NextTable
      <4> QED BY <3>1, <3>2, <4>2, <1>1 DEF TypeOK
    <3>3. CASE x # s BY <3>1, <3>3, <1>1 DEF TypeOK, ThreadsInsertOnce
    <3> QED BY <3>2, <3>3
  <2>2. CASE InsertFails(x) \/ RollBack(x)
    <3>1. pc'[x] = "idle" /\ (x # s => Frame(s))
      BY <2>2, <1>1, EndedFacts DEF InsertFails, RollBack
    <3> QED BY <3>1 DEF Frame, ThreadsInsertOnce
  <2> QED BY <1>5, <2>1, <2>2 DEF ClientStep
<1>6. CASE UNCHANGED vars
  BY <1>6, <1>2 DEF vars, txVars
<1> QED BY <1>2, <1>3, <1>4, <1>5, <1>6 DEF Next

LEMMA LowestTable ==
  ASSUME NEW S \in SUBSET Tables, S # {}
  PROVE  {t \in S : \A u \in S : t <= u} # {}
<1>1. S \subseteq 1..4 BY ConstantsAssumption
<1> QED BY <1>1

\* What a client needs for its next statement to return: an INSERT whose key
\* no open transaction holds, or a statement that waits for nobody.
GoesOn(x) ==
  \/ pc[x] = "inserting" /\ Holders(x) = {}
  \/ pc[x] = "ready" /\ (todo[x] = {} \/ (x \in Workers /\ NextTable(x) # {}))

\* Whatever number of bans is under way, in whatever order their statements
\* came: one of them does not wait for any other.  With the finite number of
\* statements of a transaction, that is why /ban and POST /ban always return.
BansNeverStall == (\E x \in Clients : pc[x] # "idle") => \E x \in Clients : GoesOn(x)

THEOREM SomeBanGoesOn == Spec => []BansNeverStall
<1>1. Init => ThreadsInsertOnce
  BY DEF Init, ThreadsInsertOnce, Clients
<1>2. BanInvariant /\ NoWaitCycle /\ ThreadsInsertOnce => BansNeverStall
  <2> SUFFICES ASSUME BanInvariant, NoWaitCycle, ThreadsInsertOnce,
                      NEW z \in Clients, pc[z] # "idle"
               PROVE  \E x \in Clients : GoesOn(x)
    BY DEF BansNeverStall
  <2> DEFINE S == {x \in Clients : pc[x] # "idle"}
  <2>1. PICK x \in S : pc[x] # "inserting" \/ Holders(x) \cap S = {}
    <3>1. S \in (SUBSET Clients) \ {{}} OBVIOUS
    <3> HIDE DEF S
    <3> QED BY <3>1 DEF NoWaitCycle
  <2>2. Holders(x) \subseteq S
    BY DEF Holders, BanInvariant, OpenIsOrderly
  <2>3. CASE pc[x] = "inserting"
    BY <2>1, <2>2, <2>3 DEF GoesOn
  <2>4. CASE pc[x] = "ready"
    <3>1. todo[x] \in SUBSET Tables BY DEF BanInvariant, TypeOK
    <3>2. x \in Threads => todo[x] = {} BY <2>4 DEF ThreadsInsertOnce
    <3>3. todo[x] # {} => NextTable(x) # {} BY <3>1, LowestTable DEF NextTable
    <3> QED BY <2>4, <3>2, <3>3 DEF GoesOn, Clients
  <2> QED BY <2>1, <2>3, <2>4 DEF BanInvariant, TypeOK
<1> QED
  BY <1>1, <1>2, ThreadsInsertOnceStep, BanInvariantHolds, NoDeadlock, PTL DEF Spec

\* The statements before the commit: two for each table left, the one that
\* looks for the next table and the INSERT.
StatementsLeft(x) == 2 * Cardinality(todo[x]) + (IF pc[x] = "ready" THEN 1 ELSE 0)

\* A transaction does not go back: what another client does, and what it
\* meets in a table, never adds to the statements it has left.
Advances(x) ==
  \/ pc'[x] = "idle"
  \/ pc'[x] = pc[x] /\ todo'[x] = todo[x]
  \/ StatementsLeft(x)' < StatementsLeft(x)

LEMMA TodoIsFinite ==
  ASSUME TypeOK, NEW x \in Clients
  PROVE  IsFiniteSet(todo[x]) /\ Cardinality(todo[x]) \in Nat
<1>1. todo[x] \in SUBSET (1..4) BY ConstantsAssumption DEF TypeOK
<1>2. IsFiniteSet(1..4)
  <2>1. \A b \in Nat : IsFiniteSet(1..b) BY FS_Interval
  <2>2. 4 \in Nat OBVIOUS
  <2> QED BY <2>1, <2>2, Zenon
<1> QED BY <1>1, <1>2, FS_Subset, FS_CardinalityType

LEMMA InsertAdvances ==
  ASSUME BanInvariant, NEW x \in Clients, pc[x] = "inserting", Inserted(x)
  PROVE  StatementsLeft(x)' < StatementsLeft(x)
<1>1. TypeOK /\ Orderly(x) BY DEF BanInvariant, OpenIsOrderly
<1>2. at[x] \in todo[x] BY <1>1 DEF Orderly, NextTable
<1>3. pc'[x] = "ready" /\ todo'[x] = todo[x] \ {at[x]}
  BY <1>1 DEF Inserted, TypeOK
<1>4. Cardinality(todo[x] \ {at[x]}) = Cardinality(todo[x]) - 1
  BY <1>1, <1>2, TodoIsFinite, FS_RemoveElement
<1>5. Cardinality(todo[x]) \in Nat BY <1>1, TodoIsFinite
<1> QED BY <1>3, <1>4, <1>5 DEF StatementsLeft

\* A statement of an open transaction that returns brings it closer to its
\* end.  With SomeBanGoesOn: bans cannot keep each other busy for ever.
THEOREM TransactionsAdvance ==
  Spec => [][\A x \in Clients : pc[x] # "idle" => Advances(x)]_vars
<1>1. BanInvariant /\ [Next]_vars => [\A x \in Clients : pc[x] # "idle" => Advances(x)]_vars
  <2> SUFFICES ASSUME BanInvariant, Next, NEW x \in Clients, pc[x] # "idle"
               PROVE  Advances(x)
    OBVIOUS
  <2>1. TypeOK BY DEF BanInvariant
  <2>3. ASSUME NEW w \in Workers, WorkerStep(w) PROVE Advances(x)
    <3>1. CASE StartBlock(w)
      <4>1. w # x /\ pc'[x] = pc[x] BY <3>1, <2>1 DEF StartBlock, TypeOK
      <4>2. todo'[x] = todo[x] BY <3>1, <4>1, <2>1 DEF StartBlock, TypeOK
      <4> QED BY <4>1, <4>2 DEF Advances
    <3>2. CASE BeginInsert(w)
      <4>1. pc[w] = "ready" /\ pc' = [pc EXCEPT ![w] = "inserting"] /\ todo' = todo
        BY <3>2 DEF BeginInsert
      <4>2. CASE w = x
        <5>1. pc[x] = "ready" /\ pc'[x] = "inserting" /\ todo'[x] = todo[x]
          BY <4>1, <4>2, <2>1 DEF TypeOK
        <5>2. Cardinality(todo[x]) \in Nat BY <2>1, TodoIsFinite
        <5>3. StatementsLeft(x)' < StatementsLeft(x) BY <5>1, <5>2 DEF StatementsLeft
        <5> QED BY <5>3 DEF Advances
      <4>3. CASE w # x BY <4>1, <4>3, <2>1 DEF Advances, TypeOK
      <4> QED BY <4>2, <4>3
    <3>3. CASE CommitBlock(w)
      BY <3>3, <2>1, EndedFacts DEF CommitBlock, Committed, Clients, Frame, Advances
    <3> QED BY <2>3, <3>1, <3>2, <3>3 DEF WorkerStep
  <2>4. ASSUME NEW s \in Threads, ThreadStep(s) PROVE Advances(x)
    <3>1. CASE StartServiceBan(s)
      <4>1. /\ pc[s] = "idle" /\ pc' = [pc EXCEPT ![s] = "inserting"]
            /\ todo' = [todo EXCEPT ![s] = {AIVector}]
        BY <3>1 DEF StartServiceBan
      <4> QED BY <4>1, <2>1 DEF Advances, TypeOK
    <3>2. CASE CommitServiceBan(s)
      BY <3>2, <2>1, EndedFacts DEF CommitServiceBan, Committed, Clients, Frame, Advances
    <3> QED BY <2>4, <3>1, <3>2 DEF ThreadStep
  <2>5. ASSUME NEW y \in Clients, ClientStep(y) PROVE Advances(x)
    <3>1. CASE InsertRow(y) \/ FindRow(y)
      <4>1. pc[y] = "inserting" /\ Inserted(y) BY <3>1 DEF InsertRow, FindRow
      <4>2. CASE y = x BY <4>1, <4>2, InsertAdvances DEF Advances
      <4>3. CASE y # x BY <4>1, <4>3, <2>1 DEF Inserted, Advances, TypeOK
      <4> QED BY <4>2, <4>3
    <3>2. CASE InsertFails(y) \/ RollBack(y)
      BY <3>2, <2>1, EndedFacts DEF InsertFails, RollBack, Frame, Advances
    <3> QED BY <2>5, <3>1, <3>2 DEF ClientStep
  <2> QED BY <2>3, <2>4, <2>5 DEF Next
<1> QED BY <1>1, BanInvariantHolds, PTL DEF Spec

-----------------------------------------------------------------------------
(* A ban that fails though the database does not.                          *)

\* Bans that follow one another, however many clients there are.
OneAtATime == \A x, y \in Clients : pc[x] # "idle" /\ pc[y] # "idle" => x = y

\* A SELECT behind the INSERT finds the row the INSERT has met.
SnapshotIsCurrent ==
  \A x \in Clients :
    pc[x] = "inserting" /\ Stored(at[x], KeyAt(x)) => at[x] = Exact \/ x \in seen

\* Only a commit outdates the snapshot of a statement that waits.
LEMMA NobodyOutdatesAlone ==
  BanInvariant /\ OneAtATime /\ SnapshotIsCurrent /\ BanSucceedsWithoutFailure /\ [Next]_vars
    => SnapshotIsCurrent' /\ BanSucceedsWithoutFailure'
<1> SUFFICES ASSUME BanInvariant, OneAtATime, SnapshotIsCurrent, lost = {}, [Next]_vars
             PROVE  SnapshotIsCurrent' /\ lost' = {}
  BY DEF BanSucceedsWithoutFailure
<1>1. TypeOK BY DEF BanInvariant
<1>2. ASSUME NEW x \in Clients, \A y \in Clients \ {x} : Frame(y), rows' = rows,
             pc'[x] # "inserting"
      PROVE  SnapshotIsCurrent'
  <2> SUFFICES ASSUME NEW y \in Clients, pc'[y] = "inserting", Stored(at[y], KeyAt(y))'
               PROVE  at'[y] = Exact \/ y \in seen'
    BY DEF SnapshotIsCurrent
  <2>1. Frame(y) BY <1>2
  <2>2. pc[y] = "inserting" /\ Stored(at[y], KeyAt(y))
    BY <2>1, <1>2 DEF Frame, Stored, KeyAt
  <2> QED BY <2>1, <2>2 DEF SnapshotIsCurrent, Frame
<1>3. ASSUME NEW x \in Clients, Ended(x), lost' = lost,
             rows' = rows \/ pc[x] # "idle" PROVE SnapshotIsCurrent' /\ lost' = {}
  <2>1. pc'[x] = "idle" /\ \A y \in Clients \ {x} : Frame(y) BY <1>1, <1>3, EndedFacts
  <2>2. CASE rows' = rows BY <2>1, <2>2, <1>2, <1>3
  <2>3. CASE pc[x] # "idle"
    <3>1. \A y \in Clients \ {x} : pc[y] = "idle" BY <2>3 DEF OneAtATime
    <3>2. \A y \in Clients : pc'[y] = "idle" BY <2>1, <3>1 DEF Frame
    <3> QED BY <3>2, <1>3 DEF SnapshotIsCurrent
  <2> QED BY <1>3, <2>2, <2>3
<1>4. ASSUME NEW w \in Workers, WorkerStep(w) PROVE SnapshotIsCurrent' /\ lost' = {}
  <2>1. w \in Clients BY DEF Clients
  <2>2. CASE StartBlock(w)
    <3>1. /\ \A y \in Clients \ {w} : Frame(y)
          /\ rows' = rows /\ lost' = lost /\ pc'[w] = "ready"
      BY <2>1, <2>2, <1>1 DEF StartBlock, Frame, TypeOK, dbVars
    <3> QED BY <2>1, <3>1, <1>2
  <2>3. CASE BeginInsert(w)
    <3>1. PICK t \in NextTable(w) :
            /\ at' = [at EXCEPT ![w] = t]
            /\ seen' = IF Stored(t, KeyOf[content[w]][t]) THEN seen \cup {w} ELSE seen
      BY <2>3 DEF BeginInsert
    <3>2. /\ pc' = [pc EXCEPT ![w] = "inserting"]
          /\ UNCHANGED <<rows, content, ban, todo, own, lost>>
      BY <2>3 DEF BeginInsert, dbVars
    <3> SUFFICES ASSUME NEW y \in Clients, pc'[y] = "inserting", Stored(at[y], KeyAt(y))'
                 PROVE  at'[y] = Exact \/ y \in seen'
      BY <3>2 DEF SnapshotIsCurrent
    <3>3. CASE y = w
      BY <3>1, <3>2, <3>3, <1>1 DEF TypeOK, Stored, KeyAt
    <3>4. CASE y # w
      BY <3>1, <3>2, <3>4, <1>1 DEF TypeOK, Stored, KeyAt, SnapshotIsCurrent
    <3> QED BY <3>3, <3>4
  <2>4. CASE CommitBlock(w)
    BY <2>1, <2>4, <1>3 DEF CommitBlock, Committed
  <2> QED BY <1>4, <2>2, <2>3, <2>4 DEF WorkerStep
<1>5. ASSUME NEW s \in Threads, ThreadStep(s) PROVE SnapshotIsCurrent' /\ lost' = {}
  <2>1. s \in Clients BY DEF Clients
  <2>2. CASE StartServiceBan(s)
    <3>1. PICK c \in Contents :
            /\ ~Stored(AIVector, KeyOf[c][AIVector])
            /\ content' = [content EXCEPT ![s] = c]
      BY <2>2 DEF StartServiceBan
    <3>2. /\ at' = [at EXCEPT ![s] = AIVector] /\ seen' = seen \ {s}
          /\ pc' = [pc EXCEPT ![s] = "inserting"] /\ rows' = rows /\ lost' = lost
      BY <2>2 DEF StartServiceBan, dbVars
    <3> SUFFICES ASSUME NEW y \in Clients, pc'[y] = "inserting", Stored(at[y], KeyAt(y))'
                 PROVE  at'[y] = Exact \/ y \in seen'
      BY <3>2 DEF SnapshotIsCurrent
    <3>3. CASE y = s
      BY <2>1, <3>1, <3>2, <3>3, <1>1 DEF TypeOK, Stored, KeyAt
    <3>4. CASE y # s
      BY <3>1, <3>2, <3>4, <1>1 DEF TypeOK, Stored, KeyAt, SnapshotIsCurrent
    <3> QED BY <3>3, <3>4
  <2>3. CASE CommitServiceBan(s)
    BY <2>1, <2>3, <1>3 DEF CommitServiceBan, Committed
  <2> QED BY <1>5, <2>2, <2>3 DEF ThreadStep
<1>6. ASSUME NEW x \in Clients, ClientStep(x) PROVE SnapshotIsCurrent' /\ lost' = {}
  <2>1. CASE InsertRow(x) \/ FindRow(x)
    <3>1. /\ pc' = [pc EXCEPT ![x] = "ready"] /\ todo' = [todo EXCEPT ![x] = todo[x] \ {at[x]}]
          /\ at' = [at EXCEPT ![x] = Exact] /\ seen' = seen \ {x}
          /\ UNCHANGED <<rows, content, ban, lost>>
      BY <2>1 DEF InsertRow, FindRow, Inserted, dbVars
    <3>2. \A y \in Clients \ {x} : own'[y] = own[y]
      BY <2>1, <1>1 DEF InsertRow, FindRow, TypeOK
    <3>3. pc'[x] = "ready" /\ \A y \in Clients \ {x} : Frame(y)
      BY <3>1, <3>2, <1>1 DEF Frame, TypeOK
    <3> QED BY <3>1, <3>3, <1>2
  <2>2. CASE InsertFails(x)
    BY <2>2 DEF InsertFails, SnapshotIsCurrent
  <2>3. CASE RollBack(x)
    BY <2>3, <1>3 DEF RollBack, dbVars
  <2> QED BY <1>6, <2>1, <2>2, <2>3 DEF ClientStep
<1>7. CASE UNCHANGED vars
  BY <1>7 DEF vars, dbVars, txVars, SnapshotIsCurrent, Stored, KeyAt
<1> QED BY <1>4, <1>5, <1>6, <1>7 DEF Next

\* Bans that do not overlap fail only if the database does, also when another
\* ban owns their keys, wholly or in part: what the run ban_duplicate finds
\* takes two transactions under way at once.
THEOREM BansInTurnSucceed == Spec /\ []OneAtATime => []BanSucceedsWithoutFailure
<1>1. Init => SnapshotIsCurrent /\ BanSucceedsWithoutFailure
  BY DEF Init, SnapshotIsCurrent, BanSucceedsWithoutFailure
<1> QED
  BY <1>1, NobodyOutdatesAlone, BanInvariantHolds, PTL DEF Spec

\* A ban that lost its race against another one is not without effect: the
\* key it lost is stored, so an index enforces the content all the same.
LosersAreBanned ==
  \A c \in lost : \E t \in Prepared(c) \ {Exact} : Stored(t, KeyOf[c][t])

THEOREM LostBansAreEnforced == Spec => []LosersAreBanned
<1>1. Init => LosersAreBanned
  BY DEF Init, LosersAreBanned
<1>2. BanInvariant /\ LosersAreBanned /\ [Next]_vars => LosersAreBanned'
  <2> SUFFICES ASSUME BanInvariant, LosersAreBanned, [Next]_vars, NEW c \in lost'
               PROVE  \E t \in Prepared(c) \ {Exact} : Stored(t, KeyOf[c][t])'
    BY DEF LosersAreBanned, Prepared
  <2>1. rows \subseteq rows'
    BY DEF Next, WorkerStep, ThreadStep, ClientStep, StartBlock, BeginInsert, CommitBlock,
           StartServiceBan, CommitServiceBan, Committed, InsertRow, FindRow, Inserted,
           InsertFails, RollBack, vars, dbVars
  <2>2. CASE c \in lost
    BY <2>1, <2>2 DEF LosersAreBanned, Stored
  <2>3. CASE c \notin lost
    <3>1. PICK x \in Clients : InsertFails(x) /\ lost' = lost \cup {content[x]}
      BY <2>3 DEF Next, WorkerStep, ThreadStep, ClientStep, StartBlock, BeginInsert, CommitBlock,
           StartServiceBan, CommitServiceBan, Committed, InsertRow, FindRow, Inserted,
           InsertFails, RollBack, vars
    <3>2. c = content[x] BY <3>1, <2>3
    <3>3. /\ pc[x] = "inserting" /\ at[x] # Exact /\ Stored(at[x], KeyOf[c][at[x]])
          /\ rows' = rows
      BY <3>1, <3>2 DEF InsertFails, KeyAt, dbVars
    <3>4. Orderly(x) BY <3>3 DEF BanInvariant, OpenIsOrderly
    <3>5. at[x] \in Prepared(c)
      BY <3>2, <3>3, <3>4 DEF Orderly, NextTable
    <3> QED BY <3>3, <3>5 DEF Stored
  <2> QED BY <2>2, <2>3
<1> QED BY <1>1, <1>2, BanInvariantHolds, PTL DEF Spec

-----------------------------------------------------------------------------
(* The interleaved transactions of BanTransaction implement the atomic     *)
(* bans of AtomicBlacklist: a commit records exactly the keys of its       *)
(* content that nobody owns, every other step is invisible.                *)

Artifacts(x) == {<<t, KeyOf[content[x]][t]>> : t \in Targets(x)}

\* The rows of a committing transaction are those of its unowned keys.
LEMMA CommitTakesUnowned ==
  ASSUME BanInvariant, NEW x \in Clients, Committed(x)
  PROVE  own[x] = {Atomic!Row(a, ban[x]) : a \in Artifacts(x) \ Atomic!Owned}
<1>. DEFINE c == content[x]
<1>1. Orderly(x) /\ Processed(x) = Targets(x)
  BY CommittedFacts
<1>2. \A t, k : Stored(t, k) <=> <<t, k>> \in Atomic!Owned
  BY DEF Stored, Atomic!Owned
<1>3. \A t \in Targets(x) : RowOf(x, t) = Atomic!Row(<<t, KeyOf[c][t]>>, ban[x])
  BY DEF RowOf, Atomic!Row
<1>4. ASSUME NEW r \in own[x]
      PROVE  r \in {Atomic!Row(a, ban[x]) : a \in Artifacts(x) \ Atomic!Owned}
  <2>1. PICK t \in Targets(x) : r = RowOf(x, t)
    BY <1>1 DEF Orderly
  <2>2. ~Stored(t, KeyOf[c][t])
    BY <2>1 DEF BanInvariant, KeyOwnedOnce, RowOf
  <2>3. <<t, KeyOf[c][t]>> \in Artifacts(x) \ Atomic!Owned
    BY <2>2, <1>2 DEF Artifacts
  <2>. QED
    BY <2>1, <2>3, <1>3
<1>5. ASSUME NEW a \in Artifacts(x) \ Atomic!Owned
      PROVE  Atomic!Row(a, ban[x]) \in own[x]
  <2>1. PICK t \in Targets(x) : a = <<t, KeyOf[c][t]>>
    BY DEF Artifacts
  <2>2. ~Stored(t, KeyOf[c][t])
    BY <2>1, <1>2
  <2>3. RowOf(x, t) \in own[x]
    BY <2>2, <1>1 DEF Orderly
  <2>. QED
    BY <2>1, <2>3, <1>3
<1>. QED
  BY <1>4, <1>5

\* A commit that owns rows records them atomically.
LEMMA CommitRecords ==
  ASSUME BanInvariant, NEW x \in Clients, Committed(x), own[x] # {},
         bans' = bans \cup {ban[x]}
  PROVE  ban[x] \in 1..MaxBans /\ content[x] \in Contents
         /\ Atomic!Record(ban[x], Artifacts(x))
<1>1. ban[x] \in (1..MaxBans) \ bans /\ content[x] \in Contents
  BY CommittedFacts DEF Orderly
<1>2. rows' = rows \cup own[x]
  BY DEF Committed
<1>3. own[x] = {Atomic!Row(a, ban[x]) : a \in Artifacts(x) \ Atomic!Owned}
  BY CommitTakesUnowned
<1>4. Artifacts(x) \ Atomic!Owned # {}
  BY <1>3
<1>. QED
  BY <1>1, <1>2, <1>3, <1>4 DEF Atomic!Record

\* Block's commit is a ban of the bot, or leaves no trace.
LEMMA BlockIsBotBan ==
  ASSUME BanInvariant, NEW w \in Workers, CommitBlock(w)
  PROVE  Atomic!Next \/ UNCHANGED dbVars
<1>1. w \in Clients /\ Committed(w)
  BY DEF CommitBlock, Clients
<1>2. CASE own[w] = {}
  BY <1>2 DEF CommitBlock, Committed, dbVars
<1>3. CASE own[w] # {}
  <2>1. Artifacts(w) = ArtifactsOfContent(content[w])
    BY DEF Artifacts, ArtifactsOfContent, Targets
  <2>2. bans' = bans \cup {ban[w]} /\ events' = events \cup {ban[w]}
    BY <1>3 DEF CommitBlock
  <2>3. Atomic!BotBan(ban[w], content[w])
    BY <2>1, <2>2, <1>1, <1>3, CommitRecords DEF Atomic!BotBan
  <2>. QED
    BY <2>2, <2>3, <1>1, <1>3, CommitRecords DEF Atomic!Next
<1>. QED
  BY <1>2, <1>3

\* The commit of the AI service is a ban without an event.
LEMMA ServiceBanIsAtomic ==
  ASSUME BanInvariant, NEW s \in Threads, CommitServiceBan(s)
  PROVE  Atomic!Next
<1>1. s \in Clients /\ Committed(s) /\ own[s] # {} /\ Targets(s) \subseteq Prepared(content[s])
  BY CommittedFacts DEF CommitServiceBan, Clients, Orderly
<1>2. Artifacts(s) = VectorOfContent(content[s])
  BY <1>1, ConstantsAssumption DEF Artifacts, VectorOfContent, Targets
<1>3. bans' = bans \cup {ban[s]} /\ events' = events
  BY DEF CommitServiceBan
<1>4. Atomic!ServiceBan(ban[s], content[s])
  BY <1>1, <1>2, <1>3, CommitRecords DEF Atomic!ServiceBan
<1>. QED
  BY <1>1, <1>3, <1>4, CommitRecords DEF Atomic!Next

\* Seen from the committed tables, any number of concurrent Block calls and
\* add_ban requests behaves as if every ban were one atomic step.
THEOREM BansAreAtomic == Spec => ImplementsAtomicBlacklist
<1>1. Init => Atomic!Init
  BY DEF Init, Atomic!Init
<1>2. BanInvariant /\ [Next]_vars => [Atomic!Next]_(Atomic!vars)
  <2>. SUFFICES ASSUME BanInvariant, [Next]_vars
                PROVE  Atomic!Next \/ UNCHANGED dbVars
    BY DEF Atomic!vars, dbVars
  <2>1. ASSUME NEW w \in Workers, WorkerStep(w)
        PROVE  Atomic!Next \/ UNCHANGED dbVars
    BY <2>1, BlockIsBotBan DEF WorkerStep, StartBlock, BeginInsert
  <2>2. ASSUME NEW s \in Threads, ThreadStep(s)
        PROVE  Atomic!Next \/ UNCHANGED dbVars
    BY <2>2, ServiceBanIsAtomic DEF ThreadStep, StartServiceBan
  <2>3. ASSUME NEW x \in Clients, ClientStep(x)
        PROVE  UNCHANGED dbVars
    BY <2>3 DEF ClientStep, InsertRow, FindRow, Inserted, InsertFails, RollBack
  <2>. QED
    BY <2>1, <2>2, <2>3 DEF Next, vars
<1>. QED
  BY <1>1, <1>2, BanInvariantHolds, PTL DEF Spec, ImplementsAtomicBlacklist, Atomic!Spec

=============================================================================
