----------------------------- MODULE SeqExtender -----------------------------
(***************************************************************************)
(* core/src/rtp.rs, SequenceExtender: the lifting of wire sequence numbers *)
(* (u16) into a monotonic space, so that packets can be ordered across the *)
(* wraparound.  A pure module: an extender is a record                     *)
(*   [started, cycles, highest]                                            *)
(* and every operator takes the extender it works on.  The jitter buffer,  *)
(* the sealer and the opener each keep one.                                *)
(***************************************************************************)
EXTENDS Integers

CONSTANT Modulus     \* How many wire numbers there are: 2^16 in the code.

ASSUME ModulusAssumption == Modulus \in Nat /\ Modulus > 1

WireNumber == 0 .. Modulus - 1

Extender == [started : BOOLEAN, cycles : Nat, highest : WireNumber]

FreshExtender == [started |-> FALSE, cycles |-> 0, highest |-> 0]

(* The number that goes on the wire for the n-th packet of a stream.       *)
Wire(n) == n % Modulus

(* u16::wrapping_sub.                                                      *)
WrappingSub(a, b) == IF b <= a THEN a - b ELSE a - b + Modulus

AlwaysForward(e, seq) == TRUE                                         \* mutant

(* Closer ahead of the highest number seen than behind it; a number exactly*)
(* half the space away counts as ahead.                                    *)
MovesForward(e, seq) ==
  WrappingSub(seq, e.highest) <= WrappingSub(e.highest, seq)

Wraps(e, seq) == MovesForward(e, seq) /\ seq < e.highest

CycleUnwrapped(e, seq) == e.cycles                                    \* mutant

(* The cycle a number is taken to be from, in an extender that has started.*)
CycleOf(e, seq) ==
  IF Wraps(e, seq) THEN e.cycles + 1
  ELSE IF ~MovesForward(e, seq) /\ seq > e.highest /\ e.cycles > 0
       THEN e.cycles - 1
       ELSE e.cycles

Peek(e, seq) ==
  IF e.started THEN CycleOf(e, seq) * Modulus + seq ELSE seq

Commit(e, seq) ==
  IF ~e.started \/ MovesForward(e, seq)
  THEN [started |-> TRUE,
        cycles  |-> IF e.started /\ Wraps(e, seq) THEN e.cycles + 1 ELSE e.cycles,
        highest |-> seq]
  ELSE e
=============================================================================
