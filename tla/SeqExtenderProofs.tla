--------------------------- MODULE SeqExtenderProofs ---------------------------
(***************************************************************************)
(* What the extender computes: as long as packets stray less than half the *)
(* wire space from the newest one, and none precedes the cycle in which the*)
(* extender started, every packet is given its own number, less that of the*)
(* start of that cycle.                                                    *)
(***************************************************************************)
EXTENDS SeqExtender, TLAPS

(* The extender e has seen packet h and none newer, and started in the     *)
(* cycle that begins with packet base.                                     *)
Tracks(e, base, h) ==
  /\ e.started
  /\ e.highest = Wire(h)
  /\ e.cycles * Modulus + e.highest = h - base

CycleBase(base) == base \in Nat /\ \E b \in Nat : base = b * Modulus

Near(n, h) == 2 * (n - h) < Modulus /\ 2 * (h - n) < Modulus

-----------------------------------------------------------------------------
LEMMA Distributes ==
  ASSUME NEW a \in Int, NEW b \in Int, NEW m \in Int
  PROVE  /\ (a + b) * m = a * m + b * m
         /\ (a - b) * m = a * m - b * m
         /\ a * m \in Int
  OBVIOUS

LEMMA WireType ==
  ASSUME NEW n \in Nat
  PROVE  Wire(n) \in WireNumber
  BY ModulusAssumption DEF Wire, WireNumber

LEMMA WireDecomposition ==
  ASSUME NEW n \in Nat
  PROVE  \E c \in Nat : n = c * Modulus + Wire(n)
<1>1. n \div Modulus \in Nat
  BY ModulusAssumption
<1>2. n = (n \div Modulus) * Modulus + Wire(n)
  BY ModulusAssumption DEF Wire
<1> QED
  BY <1>1, <1>2

LEMMA CycleStartIsBase ==
  ASSUME NEW n \in Nat
  PROVE  CycleBase(n - Wire(n)) /\ n - Wire(n) <= n
<1>1. PICK c \in Nat : n = c * Modulus + Wire(n)
  BY WireDecomposition
<1>2. Wire(n) \in Nat /\ c * Modulus \in Nat
  BY WireType, ModulusAssumption DEF WireNumber
<1> QED
  BY <1>1, <1>2 DEF CycleBase

(* Whatever arrives, an extender stays one and gives out natural numbers.  *)
LEMMA ExtenderType ==
  ASSUME NEW e \in Extender, NEW seq \in WireNumber
  PROVE  Peek(e, seq) \in Nat /\ Commit(e, seq) \in Extender
<1> USE ModulusAssumption DEF Extender, WireNumber
<1>1. CycleOf(e, seq) \in Nat
  BY DEF CycleOf
<1>2. CycleOf(e, seq) * Modulus \in Nat
  BY <1>1
<1>3. Peek(e, seq) \in Nat
  BY <1>2 DEF Peek
<1>4. Commit(e, seq) \in Extender
  BY DEF Commit
<1> QED
  BY <1>3, <1>4

(* Two numbers near each other are in the same cycle or in adjacent ones.  *)
LEMMA AdjacentCycles ==
  ASSUME NEW k \in Int, NEW r \in WireNumber, NEW s \in WireNumber,
         NEW d \in Int, 2 * d < Modulus, -2 * d < Modulus,
         d = k * Modulus + r - s
  PROVE  k \in {-1, 0, 1}
<1> USE ModulusAssumption DEF WireNumber
<1>1. ASSUME k >= 2 PROVE FALSE
  <2>1. k * Modulus >= 2 * Modulus
    BY <1>1
  <2> QED
    BY <2>1
<1>2. ASSUME k <= -2 PROVE FALSE
  <2>1. k * Modulus <= -2 * Modulus
    BY <1>2
  <2> QED
    BY <2>1
<1> QED
  BY <1>1, <1>2

LEMMA PeekExact ==
  ASSUME NEW e \in Extender, NEW base, CycleBase(base),
         NEW h \in Nat, NEW n \in Nat, n >= base, Near(n, h),
         Tracks(e, base, h)
  PROVE  /\ Peek(e, Wire(n)) = n - base
         /\ MovesForward(e, Wire(n)) <=> n >= h
<1> DEFINE r == Wire(n)
           s == Wire(h)
           M == Modulus
<1>a. /\ M \in Nat /\ M > 1
      /\ r \in 0 .. M - 1 /\ s \in 0 .. M - 1
      /\ e.cycles \in Nat /\ e.started /\ e.highest = s
  BY ModulusAssumption, WireType DEF WireNumber, Extender, Tracks
<1>b. PICK c \in Nat : n = c * M + r
  BY WireDecomposition
<1>c. PICK b \in Nat : base = b * M
  BY DEF CycleBase
<1> DEFINE q == e.cycles
           k == c - b - q
           d == n - h
<1>c1. c \in Int /\ b \in Int /\ q \in Int /\ M \in Int /\ base \in Nat
  BY <1>a DEF CycleBase
<1>c2. /\ c * M \in Int /\ b * M \in Int /\ q * M \in Int
       /\ k * M = c * M - b * M - q * M
       /\ (q + k) * M = c * M - b * M
  <2>1. (c - b - q) * M = (c - b) * M - q * M
    BY <1>c1, Distributes
  <2>2. (c - b) * M = c * M - b * M
    BY <1>c1, Distributes
  <2>3. q + k = c - b
    BY <1>c1
  <2> QED
    BY <1>c1, <2>1, <2>2, <2>3, Distributes
<1>d. h = base + q * M + s
  BY <1>a, <1>c1, <1>c2 DEF Tracks
<1>e. d = k * M + r - s
  <2> HIDE DEF r, s, M, k
  <2> QED
    BY <1>a, <1>b, <1>c, <1>c1, <1>c2, <1>d
<1>f. 2 * d < M /\ -2 * d < M
  BY <1>a DEF Near
<1>g. k \in {-1, 0, 1}
  <2>1. k \in Int /\ d \in Int /\ r \in WireNumber /\ s \in WireNumber
    BY <1>a, <1>c1 DEF WireNumber
  <2> HIDE DEF r, s, k, d
  <2> QED
    BY <1>e, <1>f, <2>1, AdjacentCycles
<1>h. n - base = (q + k) * M + r
  <2> HIDE DEF r, s, M, k
  <2> QED
    BY <1>a, <1>b, <1>c, <1>c1, <1>c2
<1>i. Peek(e, r) = CycleOf(e, r) * M + r
  BY <1>a DEF Peek
<1>j. q + k >= 0
  <2>0. q + k \in Int /\ (q + k) * M \in Int
    BY <1>c1, <1>c2
  <2>1. (q + k) * M > -M
    <3> HIDE DEF r, s, M, k, q
    <3> QED
      BY <1>a, <1>h, <2>0, <1>c1
  <2>2. ASSUME NEW j \in Int, j <= -1 PROVE j * M <= -M
    BY <1>a, <2>2
  <2> HIDE DEF k, q, M
  <2> QED
    BY <1>c1, <2>0, <2>1, <2>2
<1> HIDE DEF r, s, M, k, d, q
<1>k. CASE k = 0
  <2>1. d = r - s
    BY <1>a, <1>e, <1>k
  <2>2. MovesForward(e, r) <=> d >= 0
    BY <1>a, <1>f, <2>1 DEF MovesForward, WrappingSub, M
  <2>3. CycleOf(e, r) = q
    BY <1>a, <2>1, <2>2 DEF CycleOf, Wraps, q
  <2> QED
    BY <1>a, <1>c1, <1>h, <1>i, <1>k, <2>2, <2>3 DEF d, r
<1>l. CASE k = 1
  <2>1. d = M + r - s
    BY <1>a, <1>e, <1>l
  <2>2. MovesForward(e, r) /\ d >= 0 /\ r < s
    BY <1>a, <1>f, <2>1 DEF MovesForward, WrappingSub, M
  <2>3. CycleOf(e, r) = q + 1
    BY <1>a, <2>2 DEF CycleOf, Wraps, q
  <2> QED
    BY <1>a, <1>c1, <1>h, <1>i, <1>l, <2>2, <2>3 DEF d, r
<1>m. CASE k = -1
  <2>1. d = r - s - M
    BY <1>a, <1>e, <1>m
  <2>2. ~MovesForward(e, r) /\ d < 0 /\ s < r
    BY <1>a, <1>f, <2>1 DEF MovesForward, WrappingSub, M
  <2>3. CycleOf(e, r) = q - 1
    BY <1>a, <1>j, <1>m, <2>2 DEF CycleOf, Wraps, q
  <2> QED
    BY <1>a, <1>c1, <1>h, <1>i, <1>m, <2>2, <2>3 DEF d, r
<1> QED
  BY <1>g, <1>k, <1>l, <1>m

(* Committing a packet leaves the extender tracking the newest one seen.   *)
LEMMA CommitTracks ==
  ASSUME NEW e \in Extender, NEW base, CycleBase(base),
         NEW h \in Nat, NEW n \in Nat, n >= base, Near(n, h),
         Tracks(e, base, h)
  PROVE  /\ Commit(e, Wire(n)) \in Extender
         /\ Tracks(Commit(e, Wire(n)), base, IF n >= h THEN n ELSE h)
<1>1. /\ Peek(e, Wire(n)) = n - base
      /\ MovesForward(e, Wire(n)) <=> n >= h
  BY PeekExact
<1>2. Wire(n) \in WireNumber
  BY WireType
<1>3. CASE n >= h
  <2>1. Commit(e, Wire(n)) = [started |-> TRUE, highest |-> Wire(n), cycles |->
                             IF Wraps(e, Wire(n)) THEN e.cycles + 1 ELSE e.cycles]
    BY <1>1, <1>3 DEF Commit, Tracks
  <2>2. CycleOf(e, Wire(n)) = IF Wraps(e, Wire(n)) THEN e.cycles + 1 ELSE e.cycles
    BY <1>1, <1>3 DEF CycleOf
  <2>3. CycleOf(e, Wire(n)) * Modulus + Wire(n) = n - base
    BY <1>1 DEF Peek, Tracks
  <2> QED
    BY <1>2, <1>3, <2>1, <2>2, <2>3 DEF Tracks, Extender
<1>4. CASE ~(n >= h)
  BY <1>1, <1>4 DEF Commit, Tracks
<1> QED
  BY <1>3, <1>4

(* The first packet an extender sees is numbered from its cycle's start.   *)
LEMMA FirstTracks ==
  ASSUME NEW n \in Nat, NEW e \in Extender, ~e.started, e.cycles = 0
  PROVE  /\ Peek(e, Wire(n)) = n - (n - Wire(n))
         /\ Commit(e, Wire(n)) \in Extender
         /\ Tracks(Commit(e, Wire(n)), n - Wire(n), n)
<1>1. Wire(n) \in WireNumber /\ Wire(n) \in Nat
  BY WireType, ModulusAssumption DEF WireNumber
<1>2. Commit(e, Wire(n)) = [started |-> TRUE, cycles |-> 0, highest |-> Wire(n)]
  BY DEF Commit
<1>3. 0 * Modulus = 0
  BY ModulusAssumption
<1> QED
  BY <1>1, <1>2, <1>3 DEF Peek, Tracks, Extender

(* An extender stands where it stood or at the packet just committed.      *)
LEMMA CommitStands ==
  ASSUME NEW e \in Extender, e.started \/ e.cycles = 0, NEW seq \in WireNumber,
         NEW c, c = Commit(e, seq)
  PROVE  /\ c.started
         /\ \/ c = e
            \/ c.cycles * Modulus + c.highest = Peek(e, seq)
<1>1. CASE e.started /\ MovesForward(e, seq)
  <2>1. c = [started |-> TRUE, highest |-> seq, cycles |->
             IF Wraps(e, seq) THEN e.cycles + 1 ELSE e.cycles]
    BY <1>1 DEF Commit
  <2>2. CycleOf(e, seq) = IF Wraps(e, seq) THEN e.cycles + 1 ELSE e.cycles
    BY <1>1 DEF CycleOf
  <2> QED
    BY <1>1, <2>1, <2>2 DEF Peek
<1>2. CASE e.started /\ ~MovesForward(e, seq)
  BY <1>2 DEF Commit
<1>3. CASE ~e.started
  <2>1. c = [started |-> TRUE, cycles |-> 0, highest |-> seq]
    BY <1>3 DEF Commit
  <2>2. 0 * Modulus + seq = seq
    BY ModulusAssumption DEF WireNumber
  <2> QED
    BY <1>3, <2>1, <2>2 DEF Peek
<1> QED
  BY <1>1, <1>2, <1>3
=============================================================================
