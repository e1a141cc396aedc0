--------------------------- MODULE MCIndexSignals ---------------------------
(* An instance of IndexSignals for TLC: one replica, a bot in one half of  *)
(* the behaviours and an AI service in the other.                          *)
EXTENDS IndexSignals

CONSTANT r1

=============================================================================
