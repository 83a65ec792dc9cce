------------------------------- MODULE MCClient -------------------------------
(* Instances of Client for TLC: frames of two samples, and ratios of a     *)
(* half, one and one and a half, so that a frame becomes between one and   *)
(* four samples.                                                           *)
EXTENDS Client

MCErrors == {-2, 0, 2}
MCTimes == 0 .. 1

(* A packet of the stream, one with every part a header may have, one of   *)
(* another stream, one of another payload type, and two that do not parse. *)
Packet ==
  [length |-> 16, version |-> 2, csrcs |-> 0, extension |-> Absent, padding |-> 0,
   ours |-> TRUE, ssrc |-> "own"]
MCDatagrams ==
  {Packet, [Packet EXCEPT !.length = 32, !.csrcs = 1, !.extension = 1, !.padding = 8],
   [Packet EXCEPT !.ssrc = "other"], [Packet EXCEPT !.ours = FALSE],
   [Packet EXCEPT !.extension = 2], [Packet EXCEPT !.padding = 5]}

(* What becomes of samples in the resampler is what its loop over them     *)
(* comes to.                                                               *)
ASSUME ResamplerLoop ==
  \A n \in Lengths, p \in 0 .. Unit + MaxCorrection - 1, r \in Ratios :
    Processed(n, p, r) = [position |-> Advanced(n, p, r), emitted |-> Emitted(n, p, r)]
=============================================================================
