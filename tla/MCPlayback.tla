------------------------------ MODULE MCPlayback ------------------------------
(* Instances of Playback for TLC.                                          *)
EXTENDS Playback

MCChoices == {1, 2}
=============================================================================
