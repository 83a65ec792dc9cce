------------------------------- MODULE MCUplink -------------------------------
(* Instances of Uplink for TLC.                                            *)
EXTENDS Uplink, TLC

CONSTANTS s1, s2, s3

MCSessions == {s1, s2, s3}
MCPair == {s1, s2}
MCSymmetry == Permutations(MCSessions)
=============================================================================
