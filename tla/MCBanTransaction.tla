-------------------------- MODULE MCBanTransaction --------------------------
(* Instances of BanTransaction for TLC.                                    *)
EXTENDS BanTransaction, TLC

CONSTANTS w1, w2, w3, s1, photo, copy, gif, fa, fb, fc, ph, vh, av, bv

\* exact, imagehash, videolike, aivector
MCTables == {1, 2, 3, 4}

\* A photo, the same picture uploaded again under another file_unique_id,
\* and a GIF.
MCKeyOf ==
  photo :> <<fa, ph, NoKey, av>> @@ copy :> <<fb, ph, NoKey, av>> @@
  gif :> <<fc, NoKey, vh, bv>>

=============================================================================
