---------------------------- MODULE MCIndexSync ----------------------------
(* Instances of IndexSync for TLC.                                         *)
EXTENDS IndexSync, TLC

CONSTANTS w1, w2, r1, r2, exact, imagehash

\* One worker inside the modelled process, one in another process.
LocalAndRemote == w1 :> r1 @@ w2 :> Elsewhere

=============================================================================
