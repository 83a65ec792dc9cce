---------------------------- MODULE MCSealedMedia ----------------------------
(* Two receivers of a stream that crosses two wraps of a small wire number.*)
EXTENDS SealedMedia, TLC

CONSTANTS r1, r2

MCReceivers == {r1, r2}
MCFirstNumbers == {0, 4}
MCSymmetry == Permutations(MCReceivers)
=============================================================================
