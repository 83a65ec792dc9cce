---------------------------- MODULE MCJitterBuffer ----------------------------
(* The jitter buffer on a stream of a few packets that crosses the wrap of *)
(* the wire number (Modulus 8).                                            *)
EXTENDS JitterBuffer

MCNumbers == 5 .. 9
MCDemands == {0, 40}
=============================================================================
