---------------------- MODULE ReplicatedBlacklistProofs ----------------------
(***************************************************************************)
(* What the promise of ReplicatedBlacklist amounts to, for any sets of     *)
(* bans, replicas and indexes.  These are lemmas about the abstraction     *)
(* alone: they say something of the code only where a module that          *)
(* implements the promise draws them through its refinement mapping, as    *)
(* IndexSyncProofs and AIVectorIndexProofs do.                             *)
(***************************************************************************)
EXTENDS ReplicatedBlacklist, TLAPS

\* What an index enforces was committed, with an artifact for that index.
EnforcedIsCommitted ==
  \A r \in Replica, i \in Index : enforced[r][i] \subseteq {b \in bans : i \in Covers(b)}

BlacklistTyped ==
  /\ bans \subseteq Ban
  /\ DOMAIN enforced = Replica /\ \A r \in Replica : DOMAIN enforced[r] = Index

BlacklistInvariant == BlacklistTyped /\ EnforcedIsCommitted

LEMMA InitPromise == Init => BlacklistInvariant
BY DEF Init, BlacklistInvariant, BlacklistTyped, EnforcedIsCommitted

\* What a step does to the index i of replica r.
LEMMA StepPromise ==
  ASSUME BlacklistInvariant, [Next]_vars, NEW r \in Replica, NEW i \in Index
  PROVE  /\ enforced'[r][i] \subseteq {b \in bans : i \in Covers(b)}
         /\ enforced[r][i] \subseteq enforced'[r][i] \/ enforced'[r] = [j \in Index |-> {}]
<1>1. CASE Commit \/ UNCHANGED vars
  BY <1>1 DEF Commit, vars, BlacklistInvariant, EnforcedIsCommitted
<1>2. ASSUME NEW q \in Replica, NEW j \in Index, Enforce(q, j)
      PROVE  enforced[r][i] \subseteq enforced'[r][i] /\
             enforced'[r][i] \subseteq {b \in bans : i \in Covers(b)}
  <2>1. PICK S \in SUBSET {b \in bans : j \in Covers(b)} :
          enforced' = [enforced EXCEPT ![q][j] = @ \cup S]
    BY <1>2 DEF Enforce
  <2>2. enforced'[r][i] = IF r = q /\ i = j THEN enforced[r][i] \cup S ELSE enforced[r][i]
    BY <2>1 DEF BlacklistInvariant, BlacklistTyped
  <2> QED BY <2>1, <2>2 DEF BlacklistInvariant, EnforcedIsCommitted
<1>3. ASSUME NEW q \in Replica, Restart(q)
      PROVE  IF r = q THEN enforced'[r] = [j \in Index |-> {}] ELSE enforced'[r] = enforced[r]
  BY <1>3 DEF Restart, BlacklistInvariant, BlacklistTyped
<1> QED BY <1>1, <1>2, <1>3 DEF Next, BlacklistInvariant, EnforcedIsCommitted

\* Committed bans stay.
LEMMA StepKeepsBans == BlacklistTyped /\ [Next]_vars => bans \subseteq bans' /\ bans' \subseteq Ban
BY DEF BlacklistTyped, Next, Commit, Enforce, Restart, vars

LEMMA NextPromise == BlacklistInvariant /\ [Next]_vars => BlacklistInvariant'
<1> SUFFICES ASSUME BlacklistInvariant, [Next]_vars PROVE BlacklistInvariant' OBVIOUS
<1>1. bans \subseteq bans' /\ bans' \subseteq Ban BY StepKeepsBans DEF BlacklistInvariant
<1>2. DOMAIN enforced' = Replica /\ \A r \in Replica : DOMAIN enforced'[r] = Index
  BY DEF BlacklistInvariant, BlacklistTyped, Next, Commit, Enforce, Restart, vars
<1>3. EnforcedIsCommitted'
  BY <1>1, StepPromise DEF EnforcedIsCommitted
<1> QED BY <1>1, <1>2, <1>3 DEF BlacklistInvariant, BlacklistTyped

\* No content is blocked for which no ban was committed.
LEMMA OnlyCommittedIsEnforced == Spec => []EnforcedIsCommitted
<1>1. BlacklistInvariant => EnforcedIsCommitted BY DEF BlacklistInvariant
<1> QED BY <1>1, InitPromise, NextPromise, PTL DEF Spec

\* A committed ban stays committed.
LEMMA BansAreDurable == Spec => [][bans \subseteq bans']_vars
<1>1. BlacklistInvariant /\ [Next]_vars => [bans \subseteq bans']_vars
  BY StepKeepsBans DEF BlacklistInvariant
<1> QED BY <1>1, InitPromise, NextPromise, PTL DEF Spec

\* An index forgets a ban only with the memory of its whole process: no single
\* ban is ever taken out of an index that lives on.
ForgetsOnlyAsAWhole ==
  \A r \in Replica, i \in Index :
    enforced[r][i] \subseteq enforced'[r][i] \/ enforced'[r] = [j \in Index |-> {}]
LEMMA NoBanForgotten == Spec => [][ForgetsOnlyAsAWhole]_vars
<1>1. BlacklistInvariant /\ [Next]_vars => [ForgetsOnlyAsAWhole]_vars
  BY StepPromise DEF ForgetsOnlyAsAWhole
<1> QED BY <1>1, InitPromise, NextPromise, PTL DEF Spec

=============================================================================
