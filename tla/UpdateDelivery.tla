--------------------------- MODULE UpdateDelivery ---------------------------
(***************************************************************************)
(* What the way of an update promises, without channels and goroutines:    *)
(* a process takes over each update after the ones it has passed, hands it *)
(* to a handler once, and Telegram forgets only what somebody has taken    *)
(* over.  An update is handled twice only by two processes, or by two      *)
(* lives of one; it is lost only with a process.                           *)
(***************************************************************************)
EXTENDS Naturals

CONSTANT Process

VARIABLES sent,       \* updates so far, numbered
          forgotten,  \* those up to here are gone at Telegram
          passed,     \* per process: the last one it has asked for
          hands,      \* per process: those it has and has not handled
          handled, lost

vars == <<sent, forgotten, passed, hands, handled, lost>>

Init ==
  /\ sent = 0 /\ forgotten = 0
  /\ passed = [p \in Process |-> 0]
  /\ hands = [p \in Process |-> {}]
  /\ handled = {} /\ lost = {}

Send ==
  /\ sent' = sent + 1
  /\ UNCHANGED <<forgotten, passed, hands, handled, lost>>

\* All that is there, up to some update, and only what was never passed.
TakeOver(p) ==
  /\ \E n \in (passed[p] + 1)..sent :
       /\ passed' = [passed EXCEPT ![p] = n]
       /\ hands' = [hands EXCEPT ![p] = @ \cup {u \in (passed[p] + 1)..n : u > forgotten}]
  /\ UNCHANGED <<sent, forgotten, handled, lost>>

Handle(p) ==
  /\ \E u \in hands[p] :
       /\ hands' = [hands EXCEPT ![p] = @ \ {u}]
       /\ handled' = handled \cup {u}
  /\ UNCHANGED <<sent, forgotten, passed, lost>>

Forget ==
  /\ forgotten' \in (forgotten + 1)..sent
  /\ \A u \in 1..forgotten' : u \in handled \cup lost \/ \E p \in Process : u \in hands[p]
  /\ UNCHANGED <<sent, passed, hands, handled, lost>>

Die(p) ==
  /\ lost' = lost \cup {u \in hands[p] : u <= forgotten}
  /\ passed' = [passed EXCEPT ![p] = 0]
  /\ hands' = [hands EXCEPT ![p] = {}]
  /\ UNCHANGED <<sent, forgotten, handled>>

Next ==
  \/ Send \/ Forget
  \/ \E p \in Process : TakeOver(p) \/ Handle(p) \/ Die(p)

Spec == Init /\ [][Next]_vars

=============================================================================
