--------------------------- MODULE MCAppLifecycle ---------------------------
(* Instances of AppLifecycle for TLC.                                      *)
EXTENDS AppLifecycle

CONSTANTS r1, r2, w1, w2

=============================================================================
