------------------------ MODULE ReplicatedBlacklist ------------------------
(***************************************************************************)
(* What the installation promises about its blacklist, without outbox,     *)
(* checkpoints or signals: bans are durable, an index enforces bans that   *)
(* were committed and never drops one while its process lives, and a       *)
(* process that goes away starts again from nothing.                       *)
(***************************************************************************)
EXTENDS Naturals

CONSTANTS Ban, Replica, Index,
          Covers(_)  \* the indexes in which a ban has an artifact

VARIABLES bans,      \* committed bans
          enforced   \* per replica and index: the bans it matches against

vars == <<bans, enforced>>

Init ==
  /\ bans = {}
  /\ enforced = [r \in Replica |-> [i \in Index |-> {}]]

Commit ==
  /\ \E b \in bans' : b \in Ban /\ bans' = bans \cup {b}
  /\ UNCHANGED enforced

Enforce(r, i) ==
  /\ \E S \in SUBSET {b \in bans : i \in Covers(b)} :
       enforced' = [enforced EXCEPT ![r][i] = @ \cup S]
  /\ UNCHANGED bans

Restart(r) ==
  /\ enforced' = [enforced EXCEPT ![r] = [i \in Index |-> {}]]
  /\ UNCHANGED bans

Next ==
  \/ Commit
  \/ \E r \in Replica, i \in Index : Enforce(r, i)
  \/ \E r \in Replica : Restart(r)

Spec == Init /\ [][Next]_vars

=============================================================================
