------------------------------- MODULE MCDesktop -------------------------------
(* Instances of Desktop for TLC.                                           *)
EXTENDS Desktop, TLC

CONSTANTS s1, s2, s3

MCSessions == {s1, s2, s3}
MCSymmetry == Permutations(MCSessions)
=============================================================================
