-------------------------- MODULE AtomicBlacklist --------------------------
(***************************************************************************)
(* The blacklist tables as if every ban were recorded in one atomic step:  *)
(* a ban takes exactly the artifact keys nobody owns yet, a ban that would *)
(* own nothing leaves no trace, and a ban of the bot is announced by one   *)
(* event in the same step.                                                 *)
(***************************************************************************)
CONSTANTS Ban, Content,
          ArtifactsOf(_),   \* the <<table, key>> pairs of a content
          VectorOf(_)       \* those among them that the AI service records

VARIABLES bans,    \* committed media_ban rows
          rows,    \* committed artifact rows
          events   \* bans with an event in the outbox

vars == <<bans, rows, events>>

Row(a, b) == [table |-> a[1], key |-> a[2], ban |-> b]
Owned == {<<r.table, r.key>> : r \in rows}

Init == bans = {} /\ rows = {} /\ events = {}

Record(b, artifacts) ==
  /\ b \in Ban \ bans /\ artifacts \ Owned # {}
  /\ bans' = bans \cup {b}
  /\ rows' = rows \cup {Row(a, b) : a \in artifacts \ Owned}

BotBan(b, c) == Record(b, ArtifactsOf(c)) /\ events' = events \cup {b}
ServiceBan(b, c) == Record(b, VectorOf(c)) /\ UNCHANGED events

Next == \E b \in Ban, c \in Content : BotBan(b, c) \/ ServiceBan(b, c)

Spec == Init /\ [][Next]_vars

=============================================================================
