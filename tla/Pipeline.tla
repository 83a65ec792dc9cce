------------------------------- MODULE Pipeline -------------------------------
(***************************************************************************)
(* core/src/pipeline.rs: datagrams go in, samples come out.  One thread    *)
(* owns it.  The frames its jitter buffer gives are modelled in            *)
(* JitterBuffer; here a pop gives a frame or none as it likes, once        *)
(* anything has been inserted.  Samples are counted per channel.  Of a     *)
(* datagram there is what its RTP header says: see Parses.                 *)
(*                                                                         *)
(* The ratio of drift.rs and the position of resample.rs are floats in the *)
(* code; here they are integers, Unit of which are 1.0.  All constants of  *)
(* drift.rs are whole numbers of millionths.                               *)
(***************************************************************************)
EXTENDS Integers

CONSTANTS
  Datagrams,        \* what the network may bring, opened
  FrameSamples,     \* samples of a frame of the length agreed on
  Lengths,          \* samples a packet may decode to
  Output,           \* samples asked for in a fill
  Unit,             \* the ratio 1.0
  MaxCorrection,    \* MAX_CORRECTION
  Slew,             \* SLEW
  Gain,             \* GAIN, per ms
  Deadband,         \* DEADBAND_MS
  Interval,         \* INTERVAL_US
  Errors,           \* depths less target, in ms, the buffer may have
  Times,            \* what the clock may say
  MaxSilence        \* bound: silence is counted up to here

ASSUME PipelineAssumption ==
  /\ FrameSamples \in Lengths /\ Lengths \subseteq Nat \ {0}
  /\ \A n \in Lengths : n <= FrameSamples
  /\ Output \in Nat \ {0}
  /\ Unit \in Nat \ {0} /\ MaxCorrection \in Nat /\ 2 * MaxCorrection <= Unit
  /\ Slew \in Nat /\ Gain \in Nat /\ Deadband \in Nat /\ Interval \in Nat \ {0}
  /\ Errors \subseteq Int /\ Times \subseteq Nat /\ MaxSilence \in Nat

VARIABLES
  ssrc,             \* ssrc: the stream that is played, or Unknown
  ready,            \* ready: samples on their way to the device
  position,         \* Resampler.position
  ratio,            \* DriftController.ratio
  updated,          \* DriftController.last_update_us, or Never
  started,          \* started
  silence           \* silence_frames

pipelineVars == <<ssrc, ready, position, ratio, updated, started, silence>>

Unknown == "unknown"
Never == -1

PipelineInit ==
  /\ ssrc = Unknown /\ ready = 0 /\ position = 0 /\ ratio = Unit
  /\ updated = Never /\ started = FALSE /\ silence = 0

Least(a, b) == IF a <= b THEN a ELSE b
Between(low, value, high) == IF value < low THEN low ELSE Least(value, high)

-----------------------------------------------------------------------------
(* rtp::parse.  A header may name contributing sources, carry an extension *)
(* of so many words and declare padding at the end.                        *)
HeaderLen == 12
Absent == -1

ExtensionAt(d) == HeaderLen + 4 * d.csrcs
Start(d) == ExtensionAt(d) + (IF d.extension = Absent THEN 0 ELSE 4 + 4 * d.extension)

Parses(d) ==
  /\ d.length >= HeaderLen /\ d.version = 2
  /\ d.extension # Absent => d.length >= ExtensionAt(d) + 4
  /\ d.padding <= d.length
  /\ Start(d) <= d.length - d.padding

(* on_datagram: the first stream heard is the one played.                  *)
Accepts(d) == Parses(d) /\ d.ours /\ ssrc \in {Unknown, d.ssrc}

OnDatagram == \E d \in Datagrams : ssrc' = IF Accepts(d) THEN d.ssrc ELSE ssrc

-----------------------------------------------------------------------------
(* Resampler::process on n samples: while the position is within the input *)
(* a sample is interpolated there and the position moves on by the ratio.  *)
Emitted(n, p, r) == (n * Unit - p + r - 1) \div r
Advanced(n, p, r) == p + Emitted(n, p, r) * r - n * Unit

(* The loop of process, one input sample at a time.                        *)
Processed(n, p, r) ==
  LET steps(q) == IF q < Unit THEN (Unit - q + r - 1) \div r ELSE 0
      loop[k \in 0 .. n] ==
        IF k = 0 THEN [position |-> p, emitted |-> 0]
        ELSE LET before == loop[k - 1]
                 more == steps(before.position)
             IN  [position |-> before.position + more * r - Unit,
                  emitted  |-> before.emitted + more]
  IN loop[n]

-----------------------------------------------------------------------------
(* DriftController::update.                                                *)
Wanted(error) ==
  IF -Deadband < error /\ error < Deadband THEN Unit
  ELSE Unit + Between(-MaxCorrection, error * Gain, MaxCorrection)

Slewed(wanted) ==
  Between(Unit - MaxCorrection, ratio + Between(-Slew, wanted - ratio, Slew),
          Unit + MaxCorrection)

Due(now) == updated = Never \/ now - updated >= Interval

Regulate(error, now) ==
  /\ updated' = IF Due(now) THEN now ELSE updated
  /\ ratio' = IF Due(now) THEN Slewed(Wanted(error)) ELSE ratio

-----------------------------------------------------------------------------
(* fill: frames are popped while there is not enough, whether they decode, *)
(* are recovered or concealed; one that does not decode is a silent frame. *)
MoreOnceFull == TRUE                                                  \* mutant

WantsMore == ready < Output

PopFrame ==
  /\ WantsMore /\ ssrc # Unknown
  /\ \E n \in Lengths :
       /\ ready' = ready + Emitted(n, position, ratio)
       /\ position' = Advanced(n, position, ratio)
  /\ UNCHANGED <<ssrc, ratio, updated, started, silence>>

(* Enough, or the buffer starves.  Silence before the first frame is not   *)
(* counted.                                                                *)
EndFill ==
  LET filled == Least(ready, Output) IN
  /\ ready' = ready - filled
  /\ \E error \in Errors, now \in Times : Regulate(error, now)
  /\ silence' = IF started THEN Least(silence + Output - filled, MaxSilence) ELSE silence
  /\ started' = (started \/ filled > 0)
  /\ UNCHANGED <<ssrc, position>>

-----------------------------------------------------------------------------
(* The most samples a frame becomes.                                       *)
MaxEmitted ==
  (FrameSamples * Unit + Unit - MaxCorrection - 1) \div (Unit - MaxCorrection)

Ratios == Unit - MaxCorrection .. Unit + MaxCorrection

PipelineTypes ==
  /\ ssrc \in {Unknown} \cup {d.ssrc : d \in Datagrams}
  /\ ready \in Nat /\ position \in Nat
  /\ ratio \in Ratios
  /\ updated \in Times \cup {Never}
  /\ started \in BOOLEAN
  /\ silence \in 0 .. MaxSilence
  /\ ~started => silence = 0
=============================================================================
