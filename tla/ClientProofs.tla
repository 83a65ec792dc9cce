----------------------------- MODULE ClientProofs -----------------------------
(***************************************************************************)
(* Proofs about Client and its Pipeline, for every frame length, device,   *)
(* regulation, timeout and bound.                                          *)
(***************************************************************************)
EXTENDS Client, SequenceTheorems, WellFoundedInduction, TLAPS

Parts == {"head", "tail"}

(* What the sender's pings have still to bring the keeper.                 *)
ToCome == IF halfway THEN <<"tail">> ELSE <<>>

(* The threads exist from a connect that succeeds, and until they end.     *)
Together ==
  /\ owner = "connecting" => receiver = "none" /\ keeper = "none"
  /\ keeper = "done" => goodbye /\ ~running
  /\ NothingOutlivesClient

ThreadInv ==
  /\ running \in BOOLEAN /\ goodbye \in BOOLEAN
  /\ owner \in {"connecting", "opening", "looping", "draining", "filling", "writing",
                "leaving", "joining", "gone", "leaked"}
  /\ receiver \in {"none", "receiving", "turning", "done"}
  /\ keeper \in {"none", "reading", "turning", "ending", "done"}
  /\ arrivals \in 0 .. MaxArrivals
  /\ Together

PipelineInv == PipelineTypes /\ LeftoverBounded

(* Also once the sender has closed, what is under way is whole pings.      *)
Whole ==
  \E n \in Nat : /\ pending \o wire \o ToCome = Pings(n)
                 /\ sender = "serving" => n = unanswered

ControlInv ==
  /\ sender \in {"serving", "closed"} /\ quiet \in 0 .. SessionTimeout + 1
  /\ wire \in Seq(Parts) /\ pending \in Seq(Parts)
  /\ halfway \in BOOLEAN /\ unanswered \in Nat
  /\ Whole

ClientInv == ThreadInv /\ PipelineInv /\ ControlInv

-----------------------------------------------------------------------------
(* Arithmetic: a frame through the resampler.                              *)
LEMMA DivFacts ==
  ASSUME NEW x \in Nat, NEW r \in Nat \ {0}
  PROVE  x \div r \in Nat /\ (x \div r) * r <= x /\ x < (x \div r) * r + r
  OBVIOUS

LEMMA ProductsOrdered ==
  ASSUME NEW a \in Nat, NEW b \in Nat, NEW c \in Nat, NEW d \in Nat, a <= b, c <= d
  PROVE  a * c <= b * d
<1>1. a * c <= b * c
  OBVIOUS
<1>2. b * c <= b * d
  OBVIOUS
<1>3. a * c \in Nat /\ b * c \in Nat /\ b * d \in Nat
  OBVIOUS
<1> QED
  BY <1>1, <1>2, <1>3

LEMMA RatioFacts ==
  ASSUME NEW r \in Ratios
  PROVE  r \in Nat \ {0} /\ Unit - MaxCorrection \in Nat \ {0} /\ Unit - MaxCorrection <= r
         /\ r <= Unit + MaxCorrection /\ Unit \in Nat /\ MaxCorrection \in Nat
  BY PipelineAssumption DEF Ratios

LEMMA Resampled ==
  ASSUME NEW n \in Lengths, NEW p \in Nat, p < Unit + MaxCorrection, NEW r \in Ratios
  PROVE  /\ Emitted(n, p, r) \in 0 .. MaxEmitted
         /\ Advanced(n, p, r) \in Nat /\ Advanced(n, p, r) < Unit + MaxCorrection
<1> DEFINE k == Unit - MaxCorrection
           q == Emitted(n, p, r)
           x == n * Unit - p + r - 1
           m == MaxEmitted
           y == FrameSamples * Unit + k - 1
<1>1. /\ r \in Nat \ {0} /\ k \in Nat \ {0} /\ k <= r /\ r <= Unit + MaxCorrection
      /\ Unit \in Nat /\ MaxCorrection \in Nat /\ 2 * MaxCorrection <= Unit
      /\ n \in Nat \ {0} /\ FrameSamples \in Nat /\ n <= FrameSamples
  BY RatioFacts, PipelineAssumption
<1>2. n * Unit \in Nat /\ Unit <= n * Unit /\ n * Unit <= FrameSamples * Unit
      /\ FrameSamples * Unit \in Nat
  <2>1. 1 * Unit <= n * Unit
    BY <1>1, ProductsOrdered
  <2>2. n * Unit <= FrameSamples * Unit
    BY <1>1, ProductsOrdered
  <2> QED
    BY <1>1, <2>1, <2>2
<1>3. x \in Nat
  BY <1>1, <1>2
<1>4. q = x \div r /\ q \in Nat /\ q * r <= x /\ x < q * r + r
  <2>1. q = x \div r
    BY DEF Emitted
  <2> HIDE DEF q, x
  <2> QED
    BY <1>1, <1>3, <2>1, DivFacts
<1>5. y \in Nat /\ m \in Nat /\ y < m * k + k
  <2>1. y \in Nat
    BY <1>1, <1>2
  <2>2. m = y \div k
    BY <1>1, <1>2 DEF MaxEmitted
  <2> HIDE DEF m, y, k
  <2> QED
    BY <1>1, <2>1, <2>2, DivFacts
<1>6. q * r \in Nat /\ m * k \in Nat
  <2> HIDE DEF q, m, k
  <2> QED BY <1>1, <1>4, <1>5
<1>7. Advanced(n, p, r) = p + q * r - n * Unit
  BY DEF Advanced
<1>8. Advanced(n, p, r) \in Nat /\ Advanced(n, p, r) < Unit + MaxCorrection
  <2> HIDE DEF q
  <2> QED
    BY <1>1, <1>2, <1>4, <1>6, <1>7
<1>9. q <= m
  <2> SUFFICES ASSUME m + 1 <= q PROVE FALSE
    BY <1>4, <1>5
  <2>1. (q - 1) * r = q * r - r
    <3> HIDE DEF q
    <3> QED BY <1>1, <1>4
  <2>2. m * k <= (q - 1) * r
    <3> HIDE DEF q, m, k
    <3> QED
      BY <1>1, <1>4, <1>5, ProductsOrdered
  <2>3. q * r <= n * Unit - p + r - 1
    BY <1>4
  <2>4. FrameSamples * Unit + k - 1 < m * k + k
    BY <1>5
  <2> HIDE DEF q, m, k
  <2> QED
    BY <1>1, <1>2, <1>6, <2>1, <2>2, <2>3, <2>4
<1> QED
  BY <1>4, <1>5, <1>8, <1>9

(* The regulation keeps the ratio in its range.                            *)
LEMMA RatioKept ==
  ASSUME ratio \in Ratios, NEW error \in Errors
  PROVE  Slewed(Wanted(error)) \in Ratios
<1>1. Wanted(error) \in Int
  BY PipelineAssumption DEF Wanted, Between, Least
<1>2. ratio \in Int
  BY RatioFacts
<1>3. ASSUME NEW x \in Int PROVE Between(Unit - MaxCorrection, x, Unit + MaxCorrection) \in Ratios
  BY PipelineAssumption DEF Between, Least, Ratios
<1>4. Between(-Slew, Wanted(error) - ratio, Slew) \in Int
  BY <1>1, <1>2, PipelineAssumption DEF Between, Least
<1> QED
  BY <1>2, <1>3, <1>4 DEF Slewed

LEMMA SomethingEmitted == MaxEmitted \in Nat \ {0}
<1> DEFINE k == Unit - MaxCorrection
           y == FrameSamples * Unit + k - 1
<1>1. k \in Nat \ {0} /\ Unit \in Nat /\ k <= Unit /\ FrameSamples \in Nat \ {0}
  BY PipelineAssumption
<1>2. Unit <= FrameSamples * Unit /\ FrameSamples * Unit \in Nat
  <2>1. 1 * Unit <= FrameSamples * Unit
    BY <1>1, ProductsOrdered
  <2> QED
    BY <1>1, <2>1
<1>3. y \in Nat /\ k <= y
  BY <1>1, <1>2
<1>4. MaxEmitted = y \div k
  BY <1>1, <1>2 DEF MaxEmitted
<1> HIDE DEF k, y
<1>5. MaxEmitted \in Nat /\ y < MaxEmitted * k + k
  BY <1>1, <1>3, <1>4, DivFacts
<1> QED
  BY <1>1, <1>3, <1>5

LEMMA PopTyped ==
  ASSUME PipelineTypes, position < Unit + MaxCorrection, PopFrame
  PROVE  /\ PipelineTypes'
         /\ position' < Unit + MaxCorrection
         /\ ready' < Output + MaxEmitted
<1>1. PICK n \in Lengths : /\ ready' = ready + Emitted(n, position, ratio)
                           /\ position' = Advanced(n, position, ratio)
  BY DEF PopFrame
<1>2. /\ Emitted(n, position, ratio) \in 0 .. MaxEmitted
      /\ position' \in Nat /\ position' < Unit + MaxCorrection
  BY <1>1, Resampled DEF PipelineTypes
<1>3. /\ ready \in Nat /\ ready < Output /\ Output \in Nat
      /\ UNCHANGED <<ssrc, ratio, updated, started, silence>>
  BY PipelineAssumption DEF PopFrame, WantsMore, PipelineTypes
<1>4. ready' \in Nat /\ ready' < Output + MaxEmitted
  <2> DEFINE e == Emitted(n, position, ratio)
  <2>1. e \in 0 .. MaxEmitted /\ ready' = ready + e
    BY <1>1, <1>2
  <2> HIDE DEF e
  <2> QED
    BY <1>3, <2>1, SomethingEmitted
<1> QED
  BY <1>2, <1>3, <1>4 DEF PipelineTypes

LEMMA FillTyped ==
  ASSUME PipelineTypes, position < Unit + MaxCorrection, ready < Output + MaxEmitted, EndFill
  PROVE  /\ PipelineTypes'
         /\ position' < Unit + MaxCorrection
         /\ ready' < MaxEmitted
<1>1. /\ ready \in Nat /\ Output \in Nat /\ silence \in 0 .. MaxSilence /\ MaxSilence \in Nat
      /\ MaxEmitted \in Nat \ {0}
  BY PipelineAssumption, SomethingEmitted DEF PipelineTypes
<1>2. Least(ready, Output) \in Nat /\ Least(ready, Output) <= Output
  BY <1>1 DEF Least
<1>3. ready' \in Nat /\ ready' < MaxEmitted
  BY <1>1 DEF EndFill, Least
<1>4. /\ silence' \in 0 .. MaxSilence /\ started' \in BOOLEAN
      /\ ~started' => silence' = 0
  <2>1. /\ silence' = IF started THEN Least(silence + Output - Least(ready, Output), MaxSilence)
                     ELSE silence
        /\ started' = (started \/ Least(ready, Output) > 0)
        /\ started \in BOOLEAN /\ (~started => silence = 0)
    BY DEF EndFill, PipelineTypes
  <2>2. Least(silence + Output - Least(ready, Output), MaxSilence) \in 0 .. MaxSilence
    BY <1>1, <1>2 DEF Least
  <2> QED
    BY <1>1, <2>1, <2>2
<1>5. ratio' \in Ratios /\ updated' \in Times \cup {Never}
  <2>1. PICK error \in Errors, now \in Times : Regulate(error, now)
    BY DEF EndFill
  <2>2. ratio \in Ratios /\ updated \in Times \cup {Never}
    BY DEF PipelineTypes
  <2> QED
    BY <2>1, <2>2, RatioKept DEF Regulate
<1>6. UNCHANGED <<ssrc, position>>
  BY DEF EndFill
<1> QED
  BY <1>3, <1>4, <1>5, <1>6 DEF PipelineTypes

-----------------------------------------------------------------------------
(* Sequences: the pings under way.                                         *)
PartOf(i) == IF i % 2 = 1 THEN "head" ELSE "tail"

LEMMA Parity ==
  /\ PartOf(1) = "head" /\ PartOf(2) = "tail"
  /\ \A i \in Nat : PartOf(i + 2) = PartOf(i) /\ PartOf(i) \in Parts
  /\ \A n \in Nat : PartOf(2 * n + 1) = "head" /\ PartOf(2 * n + 2) = "tail"
<1>1. 1 % 2 = 1 /\ 2 % 2 = 0
  OBVIOUS
<1>2. \A i \in Nat : (i + 2) % 2 = i % 2
  OBVIOUS
<1>3. \A n \in Nat : (2 * n + 1) % 2 = 1 /\ (2 * n + 2) % 2 = 0
  OBVIOUS
<1> QED
  BY <1>1, <1>2, <1>3 DEF PartOf, Parts

LEMMA OnePart ==
  ASSUME NEW p \in Parts
  PROVE  <<p>> \in Seq(Parts) /\ Len(<<p>>) = 1 /\ <<p>>[1] = p
  OBVIOUS

LEMMA PingFacts ==
  /\ Ping \in Seq(Parts) /\ Len(Ping) = 2 /\ Ping[1] = "head" /\ Ping[2] = "tail"
<1>1. "head" \in Parts /\ "tail" \in Parts
  BY DEF Parts
<1>2. \A a, b \in Parts : <<a, b>> \in Seq(Parts)
  OBVIOUS
<1>3. Ping \in Seq(Parts)
  BY <1>1, <1>2 DEF Ping
<1> QED
  BY <1>3 DEF Ping

LEMMA HeadAndTail == <<"head">> \o <<"tail">> = Ping
<1> DEFINE both == <<"head">> \o <<"tail">>
<1>1. "head" \in Parts /\ "tail" \in Parts
  BY DEF Parts
<1>2. /\ <<"head">> \in Seq(Parts) /\ Len(<<"head">>) = 1 /\ <<"head">>[1] = "head"
      /\ <<"tail">> \in Seq(Parts) /\ Len(<<"tail">>) = 1 /\ <<"tail">>[1] = "tail"
  BY <1>1, OnePart
<1>3. /\ both \in Seq(Parts) /\ Len(both) = 2
      /\ \A i \in 1 .. 2 : both[i] = IF i <= 1 THEN <<"head">>[i] ELSE <<"tail">>[i - 1]
  BY <1>2, ConcatProperties
<1> HIDE DEF both
<1>4. \A i \in 1 .. 2 : both[i] = Ping[i]
  BY <1>2, <1>3, PingFacts
<1>5. both = Ping
  BY <1>3, <1>4, PingFacts, SeqEqual
<1> QED
  BY <1>5 DEF both

LEMMA PingsFacts ==
  ASSUME NEW n \in Nat
  PROVE  /\ Pings(n) \in Seq(Parts) /\ Len(Pings(n)) = 2 * n
         /\ \A i \in 1 .. 2 * n : Pings(n)[i] = PartOf(i)
<1>1. Pings(n) = [i \in 1 .. 2 * n |-> PartOf(i)]
  BY DEF Pings, PartOf
<1>2. \A i \in 1 .. 2 * n : PartOf(i) \in Parts
  BY DEF PartOf, Parts
<1>3. 2 * n \in Nat
  OBVIOUS
<1> QED
  BY <1>1, <1>2, <1>3

(* Two sequences of as many parts, alike part for part.                    *)
LEMMA Concat ==
  ASSUME NEW s \in Seq(Parts), NEW t \in Seq(Parts)
  PROVE  /\ s \o t \in Seq(Parts) /\ Len(s \o t) = Len(s) + Len(t)
         /\ \A i \in 1 .. Len(s) : (s \o t)[i] = s[i]
         /\ \A i \in 1 .. Len(t) : (s \o t)[Len(s) + i] = t[i]
<1> DEFINE k == Len(s)
           l == Len(t)
<1>0. k \in Nat /\ l \in Nat
  BY LenProperties
<1>1. /\ s \o t \in Seq(Parts) /\ Len(s \o t) = k + l
      /\ \A i \in 1 .. k + l : (s \o t)[i] = IF i <= k THEN s[i] ELSE t[i - k]
  BY ConcatProperties
<1> DEFINE st == s \o t
<1> HIDE DEF k, l
<1>2. \A i \in 1 .. k + l : st[i] = IF i <= k THEN s[i] ELSE t[i - k]
  BY <1>1
<1> HIDE DEF st
<1>3. ASSUME NEW i \in 1 .. k PROVE st[i] = s[i]
  BY <1>0, <1>2
<1>4. ASSUME NEW i \in 1 .. l PROVE st[k + i] = t[i]
  <2>1. k + i \in 1 .. k + l /\ ~(k + i <= k) /\ (k + i) - k = i
    BY <1>0
  <2> QED
    BY <1>2, <2>1
<1> QED
  BY <1>1, <1>3, <1>4 DEF st, k, l

LEMMA Associative ==
  ASSUME NEW s \in Seq(Parts), NEW t \in Seq(Parts), NEW u \in Seq(Parts)
  PROVE  (s \o t) \o u = s \o (t \o u)
<1> DEFINE st == s \o t
           tu == t \o u
           l == st \o u
           r == s \o tu
<1>1. /\ Len(s) \in Nat /\ Len(t) \in Nat /\ Len(u) \in Nat
  BY LenProperties
<1>2. /\ st \in Seq(Parts) /\ Len(st) = Len(s) + Len(t)
      /\ \A i \in 1 .. Len(s) : st[i] = s[i]
      /\ \A i \in 1 .. Len(t) : st[Len(s) + i] = t[i]
  BY Concat
<1>3. /\ tu \in Seq(Parts) /\ Len(tu) = Len(t) + Len(u)
      /\ \A i \in 1 .. Len(t) : tu[i] = t[i]
      /\ \A i \in 1 .. Len(u) : tu[Len(t) + i] = u[i]
  BY Concat
<1> HIDE DEF st, tu
<1>4. /\ l \in Seq(Parts) /\ Len(l) = Len(st) + Len(u)
      /\ \A i \in 1 .. Len(st) : l[i] = st[i]
      /\ \A i \in 1 .. Len(u) : l[Len(st) + i] = u[i]
  BY <1>2, Concat
<1>5. /\ r \in Seq(Parts) /\ Len(r) = Len(s) + Len(tu)
      /\ \A i \in 1 .. Len(s) : r[i] = s[i]
      /\ \A i \in 1 .. Len(tu) : r[Len(s) + i] = tu[i]
  BY <1>3, Concat
<1> HIDE DEF l, r
<1> DEFINE a == Len(s)
           b == Len(t)
           c == Len(u)
<1>6. Len(l) = a + b + c /\ Len(r) = a + b + c
  BY <1>1, <1>2, <1>3, <1>4, <1>5
<1>7. ASSUME NEW i \in 1 .. a + b + c PROVE l[i] = r[i]
  <2>1. CASE i <= a
    BY <1>1, <1>2, <1>4, <1>5, <2>1
  <2>2. CASE i > a /\ i <= a + b
    <3>1. i - a \in 1 .. b /\ a + (i - a) = i /\ i \in 1 .. Len(st) /\ i - a \in 1 .. Len(tu)
      BY <1>1, <1>2, <1>3, <2>2
    <3>2. st[i] = t[i - a] /\ tu[i - a] = t[i - a]
      BY <1>2, <1>3, <3>1
    <3> QED
      BY <1>4, <1>5, <3>1, <3>2
  <2>3. CASE i > a + b
    <3>1. /\ i - a - b \in 1 .. c /\ Len(st) + (i - a - b) = i
          /\ i - a \in 1 .. Len(tu) /\ a + (i - a) = i /\ b + (i - a - b) = i - a
      BY <1>1, <1>2, <1>3, <2>3
    <3>2. l[i] = u[i - a - b] /\ tu[i - a] = u[i - a - b]
      BY <1>3, <1>4, <3>1
    <3> QED
      BY <1>5, <3>1, <3>2
  <2> QED
    BY <1>1, <2>1, <2>2, <2>3
<1>8. l = r
  BY <1>4, <1>5, <1>6, <1>7, SeqEqual
<1> QED
  BY <1>8 DEF l, r, st, tu

LEMMA OneMorePing ==
  ASSUME NEW n \in Nat
  PROVE  /\ Pings(n) \o Ping = Pings(n + 1)
         /\ Ping \o Pings(n) = Pings(n + 1)
<1> DEFINE old == Pings(n)
           new == Pings(n + 1)
           after == old \o Ping
           before == Ping \o old
<1>1. /\ old \in Seq(Parts) /\ Len(old) = 2 * n /\ 2 * n \in Nat
      /\ \A i \in 1 .. 2 * n : old[i] = PartOf(i)
  BY PingsFacts
<1>2. /\ new \in Seq(Parts) /\ Len(new) = 2 * n + 2
      /\ \A i \in 1 .. 2 * n + 2 : new[i] = PartOf(i)
  <2>1. n + 1 \in Nat /\ 2 * (n + 1) = 2 * n + 2
    OBVIOUS
  <2>2. /\ new \in Seq(Parts) /\ Len(new) = 2 * (n + 1)
        /\ \A i \in 1 .. 2 * (n + 1) : new[i] = PartOf(i)
    BY <2>1, PingsFacts
  <2> HIDE DEF new
  <2> QED
    BY <2>1, <2>2
<1> HIDE DEF old, new
<1>3. /\ after \in Seq(Parts) /\ Len(after) = 2 * n + 2
      /\ \A i \in 1 .. 2 * n : after[i] = old[i]
      /\ \A i \in 1 .. 2 : after[2 * n + i] = Ping[i]
  <2>1. /\ after \in Seq(Parts) /\ Len(after) = Len(old) + Len(Ping)
        /\ \A i \in 1 .. Len(old) : after[i] = old[i]
        /\ \A i \in 1 .. Len(Ping) : after[Len(old) + i] = Ping[i]
    <3>1. old \in Seq(Parts) /\ Ping \in Seq(Parts)
      BY <1>1, PingFacts
    <3> QED
      BY <3>1, Concat
  <2> HIDE DEF after
  <2> QED
    BY <2>1, <1>1, PingFacts
<1>4. /\ before \in Seq(Parts) /\ Len(before) = 2 + 2 * n
      /\ \A i \in 1 .. 2 : before[i] = Ping[i]
      /\ \A i \in 1 .. 2 * n : before[2 + i] = old[i]
  <2>1. /\ before \in Seq(Parts) /\ Len(before) = Len(Ping) + Len(old)
        /\ \A i \in 1 .. Len(Ping) : before[i] = Ping[i]
        /\ \A i \in 1 .. Len(old) : before[Len(Ping) + i] = old[i]
    <3>1. old \in Seq(Parts) /\ Ping \in Seq(Parts)
      BY <1>1, PingFacts
    <3> QED
      BY <3>1, Concat
  <2> HIDE DEF before
  <2> QED
    BY <2>1, <1>1, PingFacts
<1> HIDE DEF after, before
<1>5. ASSUME NEW i \in 1 .. 2 * n + 2 PROVE after[i] = PartOf(i)
  <2>1. CASE i <= 2 * n
    BY <1>1, <1>3, <2>1
  <2>2. CASE i = 2 * n + 1
    BY <1>3, <2>2, PingFacts, Parity
  <2>3. CASE i = 2 * n + 2
    BY <1>3, <2>3, PingFacts, Parity
  <2> QED
    BY <2>1, <2>2, <2>3
<1>6. ASSUME NEW i \in 1 .. 2 * n + 2 PROVE before[i] = PartOf(i)
  <2>1. CASE i = 1
    BY <1>4, <2>1, PingFacts, Parity
  <2>2. CASE i = 2
    BY <1>4, <2>2, PingFacts, Parity
  <2>3. CASE i > 2
    <3>1. PICK j \in 1 .. 2 * n : i = 2 + j
      <4>1. i - 2 \in 1 .. 2 * n /\ i = 2 + (i - 2)
        BY <2>3
      <4> QED BY <4>1
    <3>2. PartOf(j + 2) = PartOf(j)
      BY Parity
    <3>3. j + 2 = i
      BY <3>1
    <3> QED
      BY <1>1, <1>4, <3>1, <3>2, <3>3
  <2> QED
    BY <2>1, <2>2, <2>3
<1>7. after = new
  BY <1>2, <1>3, <1>5, SeqEqual
<1>8. before = new
  BY <1>2, <1>4, <1>6, SeqEqual
<1> QED
  BY <1>7, <1>8 DEF old, new, after, before

(* A line that has come is a whole ping, and the rest are whole pings.     *)
LEMMA FirstLine ==
  ASSUME NEW n \in Nat, NEW w \in Seq(Parts), pending \in Seq(Parts),
         pending \o w = Pings(n), HasLine
  PROVE  /\ n > 0 /\ LineEnd = 2
         /\ SubSeq(pending, 1, LineEnd) = Ping
         /\ SubSeq(pending, LineEnd + 1, Len(pending)) \in Seq(Parts)
         /\ SubSeq(pending, LineEnd + 1, Len(pending)) \o w = Pings(n - 1)
<1>1. /\ Len(pending) \in Nat /\ DOMAIN pending = 1 .. Len(pending)
      /\ Len(w) \in Nat
      /\ \A i \in 1 .. Len(pending) : pending[i] \in Parts
  BY LenProperties, ElementOfSeq
<1>2. /\ Len(pending) + Len(w) = 2 * n
      /\ \A i \in 1 .. Len(pending) : pending[i] = PartOf(i)
  <2> DEFINE all == pending \o w
  <2>1. /\ Len(all) = Len(pending) + Len(w)
        /\ \A i \in 1 .. Len(pending) : all[i] = pending[i]
    BY <1>1, Concat
  <2>2. Len(all) = 2 * n /\ \A i \in 1 .. 2 * n : all[i] = PartOf(i)
    BY PingsFacts
  <2> HIDE DEF all
  <2>3. Len(pending) + Len(w) = 2 * n
    BY <2>1, <2>2
  <2>4. ASSUME NEW i \in 1 .. Len(pending) PROVE pending[i] = PartOf(i)
    <3>1. i \in 1 .. 2 * n
      BY <1>1, <2>3
    <3> QED
      BY <2>1, <2>2, <3>1
  <2> QED
    BY <2>3, <2>4
<1>3. PICK i \in 1 .. Len(pending) : pending[i] = "tail"
  BY <1>1 DEF HasLine
<1>4. i # 1
  BY <1>2, <1>3, Parity
<1>5. Len(pending) \in Nat /\ Len(pending) >= 2 /\ n > 0
      /\ pending[1] = "head" /\ pending[2] = "tail"
  <2>1. Len(pending) >= 2
    BY <1>1, <1>3, <1>4
  <2>2. pending[1] = PartOf(1) /\ pending[2] = PartOf(2)
    BY <1>1, <1>2, <2>1
  <2> QED
    BY <1>1, <1>2, <2>1, <2>2, Parity
<1>6. LineEnd = 2
  <2> DEFINE P(j) == pending[j] = "tail" /\ \A k \in 1 .. j - 1 : pending[k] # "tail"
  <2>1. 2 \in DOMAIN pending /\ P(2)
    BY <1>1, <1>5
  <2>2. ASSUME NEW j \in DOMAIN pending, P(j) PROVE j = 2
    <3>1. j \in Nat /\ j >= 1
      BY <1>1, <2>2
    <3>2. j # 1
      BY <1>5, <2>2
    <3>3. ~(j > 2)
      <4> SUFFICES ASSUME j > 2 PROVE FALSE
        OBVIOUS
      <4>1. 2 \in 1 .. j - 1
        BY <3>1
      <4> QED
        BY <1>5, <2>2, <4>1
    <3> QED
      BY <3>1, <3>2, <3>3
  <2> QED
    BY <2>1, <2>2 DEF LineEnd
<1> DEFINE front == SubSeq(pending, 1, 2)
           rest == SubSeq(pending, 3, Len(pending))
<1>7. /\ front \in Seq(Parts) /\ Len(front) = 2
      /\ front[1] = pending[1] /\ front[2] = pending[2]
  BY <1>1, <1>5, SubSeqProperties, ElementOfSeq
<1>8. front = Ping
  <2>1. \A k \in 1 .. 2 : front[k] = Ping[k]
    BY <1>5, <1>7, PingFacts
  <2> QED
    BY <1>7, <2>1, PingFacts, SeqEqual
<1>9. rest \in Seq(Parts)
  BY <1>1, SubSeqProperties, ElementOfSeq
<1>10. front \o rest = pending
  <2>1. front \o rest = SubSeq(pending, 1, Len(pending))
    BY <1>1, <1>5, ConcatAdjacentSubSeq
  <2> QED
    BY <2>1, SubSeqFull
<1> HIDE DEF front, rest
<1>11. n - 1 \in Nat /\ (n - 1) + 1 = n
  BY <1>5
<1>12. rest \o w \in Seq(Parts) /\ Pings(n - 1) \in Seq(Parts)
  <2>1. rest \o w \in Seq(Parts)
    BY <1>9, ConcatProperties
  <2> QED
    BY <1>11, <2>1, PingsFacts
<1>13. Ping \o (rest \o w) = Pings(n)
  <2>1. (Ping \o rest) \o w = Ping \o (rest \o w)
    <3>1. Ping \in Seq(Parts)
      BY PingFacts
    <3> QED
      BY <1>9, <3>1, Associative
  <2> QED
    BY <1>8, <1>10, <2>1
<1>14. Ping \o Pings(n - 1) = Pings(n)
  BY <1>11, OneMorePing
<1>15. rest \o w = Pings(n - 1)
  <2>1. \A s, t, v \in Seq(Parts) : s \o t = s \o v => t = v
    BY ConcatSimplifications
  <2> QED
    BY <1>12, <1>13, <1>14, <2>1, PingFacts
<1> QED
  BY <1>5, <1>6, <1>8, <1>9, <1>15 DEF front, rest
LEMMA NoPings == Pings(0) = <<>> /\ <<>> \in Seq(Parts) /\ Len(<<>>) = 0
<1>1. Pings(0) \in Seq(Parts) /\ Len(Pings(0)) = 0
  <2>1. 0 \in Nat /\ 2 * 0 = 0
    OBVIOUS
  <2> QED
    BY <2>1, PingsFacts
<1>2. <<>> \in Seq(Parts) /\ Len(<<>>) = 0
  BY EmptySeq
<1> QED
  BY <1>1, <1>2, EmptySeq

-----------------------------------------------------------------------------
(* The invariant holds at first, and every step keeps it.                  *)
LEMMA InitClient == Init => ClientInv
<1> SUFFICES ASSUME Init PROVE ClientInv
  OBVIOUS
<1>1. ThreadInv
  <2>1. arrivals \in 0 .. MaxArrivals
    BY ClientAssumption DEF Init
  <2>2. /\ running = TRUE /\ goodbye = FALSE
        /\ owner = "connecting" /\ receiver = "none" /\ keeper = "none"
    BY DEF Init
  <2> QED
    BY <2>1, <2>2 DEF ThreadInv, Together, NothingOutlivesClient
<1>2. PipelineTypes
  <2>1. ratio \in Ratios /\ silence \in 0 .. MaxSilence
    BY PipelineAssumption DEF Init, PipelineInit, Ratios
  <2>2. /\ ssrc = Unknown /\ ready = 0 /\ position = 0 /\ updated = Never
        /\ started = FALSE /\ silence = 0
    BY DEF Init, PipelineInit
  <2> QED
    BY <2>1, <2>2 DEF PipelineTypes
<1>3. LeftoverBounded
  BY PipelineAssumption, SomethingEmitted DEF Init, PipelineInit, LeftoverBounded
<1>4. Whole
  <2>1. pending = <<>> /\ wire = <<>> /\ ToCome = <<>> /\ unanswered = 0
    BY DEF Init, ToCome
  <2>2. <<>> \o <<>> \o <<>> = Pings(0)
    BY NoPings, ConcatEmptySeq
  <2>3. pending \o wire \o ToCome = Pings(0) /\ 0 = unanswered /\ 0 \in Nat
    BY <2>1, <2>2
  <2> QED
    BY <2>3 DEF Whole
<1>5. ControlInv
  <2>1. wire \in Seq(Parts) /\ pending \in Seq(Parts)
    BY NoPings DEF Init
  <2>2. quiet \in 0 .. SessionTimeout + 1
    BY ClientAssumption DEF Init
  <2>3. sender = "serving" /\ halfway = FALSE /\ unanswered = 0
    BY DEF Init
  <2> QED
    BY <1>4, <2>1, <2>2, <2>3 DEF ControlInv
<1> QED
  BY <1>1, <1>2, <1>3, <1>5 DEF ClientInv, PipelineInv

LEMMA PipelineKept ==
  ASSUME PipelineInv, UNCHANGED pipelineVars, owner = "filling" => owner' = "filling"
  PROVE  PipelineInv'
<1>1. PipelineTypes'
  BY DEF PipelineInv, PipelineTypes, pipelineVars
<1>2. ready \in Nat /\ Output \in Nat /\ MaxEmitted \in Nat
  BY PipelineAssumption, SomethingEmitted DEF PipelineInv, PipelineTypes
<1>3. ready' = ready /\ position' = position
  BY DEF pipelineVars
<1>4. LeftoverBounded'
  BY <1>2, <1>3 DEF PipelineInv, LeftoverBounded
<1> QED
  BY <1>1, <1>4 DEF PipelineInv

LEMMA ControlKept ==
  ASSUME ControlInv, UNCHANGED control
  PROVE  ControlInv'
<1>1. Whole'
  BY DEF ControlInv, Whole, ToCome, control
<1> QED
  BY <1>1 DEF ControlInv, control

LEMMA OwnerSteps ==
  ASSUME ClientInv, OwnerStep
  PROVE  ClientInv'
<1> USE DEF ClientInv
<1>1. CASE Connect
  <2>1. ThreadInv'
    BY <1>1 DEF Connect, ThreadInv, Together, NothingOutlivesClient, control
  <2>2. PipelineInv'
    BY <1>1, PipelineKept DEF Connect
  <2> QED
    BY <1>1, <2>1, <2>2, ControlKept DEF Connect
<1>2. CASE OpenSink
  <2>1. ThreadInv'
    BY <1>2 DEF OpenSink, ThreadInv, Together, NothingOutlivesClient, control
  <2>2. PipelineInv'
    BY <1>2, PipelineKept DEF OpenSink
  <2> QED
    BY <1>2, <2>1, <2>2, ControlKept DEF OpenSink
<1>3. CASE Loop
  <2>1. ThreadInv'
    BY <1>3 DEF Loop, ThreadInv, Together, NothingOutlivesClient, control
  <2>2. PipelineInv'
    BY <1>3, PipelineKept DEF Loop
  <2> QED
    BY <1>3, <2>1, <2>2, ControlKept DEF Loop
<1>4. CASE TakeArrival
  <2>1. arrivals' \in 0 .. MaxArrivals
    BY <1>4, ClientAssumption DEF TakeArrival, ThreadInv
  <2>2. ThreadInv'
    BY <1>4, <2>1 DEF TakeArrival, ThreadInv, Together, NothingOutlivesClient, control
  <2>3. PipelineInv'
    <3>1. ssrc' \in {Unknown} \cup {d.ssrc : d \in Datagrams}
      BY <1>4 DEF TakeArrival, OnDatagram, PipelineInv, PipelineTypes
    <3>2. PipelineTypes'
      BY <1>4, <3>1 DEF TakeArrival, PipelineInv, PipelineTypes
    <3>3. ready' = ready /\ position' = position /\ owner' = owner
      BY <1>4 DEF TakeArrival
    <3>4. LeftoverBounded'
      BY <3>3 DEF PipelineInv, LeftoverBounded
    <3> QED
      BY <3>2, <3>4 DEF PipelineInv
  <2> QED
    BY <1>4, <2>2, <2>3, ControlKept DEF TakeArrival
<1>5. CASE Drained
  <2>1. ThreadInv'
    BY <1>5 DEF Drained, ThreadInv, Together, NothingOutlivesClient, control
  <2>2. PipelineInv'
    BY <1>5, PipelineKept DEF Drained
  <2> QED
    BY <1>5, <2>1, <2>2, ControlKept DEF Drained
<1>6. CASE FillPops
  <2>1. ThreadInv'
    BY <1>6 DEF FillPops, ThreadInv, Together, NothingOutlivesClient, control, threads
  <2>2. PipelineInv'
    <3>1. PipelineTypes' /\ position' < Unit + MaxCorrection /\ ready' < Output + MaxEmitted
      BY <1>6, PopTyped DEF FillPops, PipelineInv, LeftoverBounded
    <3>2. owner' = "filling"
      BY <1>6 DEF FillPops, threads
    <3> QED
      BY <3>1, <3>2 DEF PipelineInv, LeftoverBounded
  <2>3. UNCHANGED control
    BY <1>6 DEF FillPops
  <2> QED
    BY <2>1, <2>2, <2>3, ControlKept
<1>7. CASE FillEnds
  <2>1. ThreadInv'
    BY <1>7 DEF FillEnds, ThreadInv, Together, NothingOutlivesClient, control
  <2>2. PipelineInv'
    <3>1. PipelineTypes' /\ position' < Unit + MaxCorrection /\ ready' < MaxEmitted
      BY <1>7, FillTyped DEF FillEnds, PipelineInv, LeftoverBounded
    <3>2. owner' = "writing" /\ ready' \in Nat /\ MaxEmitted \in Nat
      BY <1>7, <3>1, SomethingEmitted DEF FillEnds, PipelineTypes
    <3>3. ready' < 0 + MaxEmitted
      BY <3>1, <3>2
    <3> QED
      BY <3>1, <3>2, <3>3 DEF PipelineInv, LeftoverBounded
  <2> QED
    BY <1>7, <2>1, <2>2, ControlKept DEF FillEnds
<1>8. CASE Write
  <2>1. ThreadInv'
    BY <1>8 DEF Write, ThreadInv, Together, NothingOutlivesClient, control
  <2>2. PipelineInv'
    BY <1>8, PipelineKept DEF Write
  <2> QED
    BY <1>8, <2>1, <2>2, ControlKept DEF Write
<1>9. CASE Drop
  <2>1. ThreadInv'
    BY <1>9 DEF Drop, ThreadInv, Together, NothingOutlivesClient, control
  <2>2. PipelineInv'
    BY <1>9, PipelineKept DEF Drop
  <2> QED
    BY <1>9, <2>1, <2>2, ControlKept DEF Drop
<1>10. CASE Leak
  <2>1. ThreadInv'
    BY <1>10 DEF Leak, ThreadInv, Together, NothingOutlivesClient, control
  <2>2. PipelineInv'
    BY <1>10, PipelineKept DEF Leak
  <2> QED
    BY <1>10, <2>1, <2>2, ControlKept DEF Leak
<1>11. CASE Join
  <2>1. ThreadInv'
    BY <1>11 DEF Join, Joins, ThreadInv, Together, NothingOutlivesClient, control
  <2>2. PipelineInv'
    BY <1>11, PipelineKept DEF Join
  <2> QED
    BY <1>11, <2>1, <2>2, ControlKept DEF Join
<1> QED
  BY <1>1, <1>2, <1>3, <1>4, <1>5, <1>6, <1>7, <1>8, <1>9, <1>10, <1>11 DEF OwnerStep

LEMMA ReceiverSteps ==
  ASSUME ClientInv, Arrive \/ ReceiveNothing \/ ReceiverTurn
  PROVE  ClientInv'
<1> USE DEF ClientInv
<1>1. UNCHANGED <<pipelineVars, running, owner, keeper, control>>
  BY DEF Arrive, ReceiveNothing, ReceiverTurn
<1>2. arrivals' \in 0 .. MaxArrivals
  BY ClientAssumption DEF Arrive, ReceiveNothing, ReceiverTurn, ThreadInv
<1>3. /\ receiver \in {"receiving", "turning"} /\ receiver' \in {"receiving", "turning", "done"}
  BY DEF Arrive, ReceiveNothing, ReceiverTurn, GoesOn
<1>4. ThreadInv'
  BY <1>1, <1>2, <1>3 DEF ThreadInv, Together, NothingOutlivesClient, control
<1>5. PipelineInv'
  BY <1>1, PipelineKept
<1> QED
  BY <1>1, <1>4, <1>5, ControlKept

LEMMA WholeKept ==
  ASSUME ControlInv, UNCHANGED <<wire, halfway, pending, unanswered>>,
         sender' = sender \/ sender' = "closed"
  PROVE  Whole'
BY DEF ControlInv, Whole, ToCome

LEMMA WholeAgain ==
  ASSUME NEW n \in Nat, (pending \o wire \o ToCome)' = Pings(n),
         sender' = "serving" => n = unanswered'
  PROVE  Whole'
BY DEF Whole

LEMMA ComingTyped == ToCome \in Seq(Parts)
<1>1. "tail" \in Parts
  BY DEF Parts
<1> QED
  BY <1>1, OnePart, NoPings DEF ToCome

LEMMA LineTaken ==
  ASSUME ControlInv, TakeLine
  PROVE  ControlInv'
<1>1. PICK n \in Nat : /\ pending \o wire \o ToCome = Pings(n)
                       /\ sender = "serving" => n = unanswered
  BY DEF ControlInv, Whole
<1> DEFINE w == wire \o ToCome
           rest == SubSeq(pending, LineEnd + 1, Len(pending))
<1>2. wire \in Seq(Parts) /\ pending \in Seq(Parts) /\ ToCome \in Seq(Parts)
  BY ComingTyped DEF ControlInv
<1>3. w \in Seq(Parts) /\ pending \o w = Pings(n)
  <2>1. w \in Seq(Parts)
    BY <1>2, Concat
  <2>2. (pending \o wire) \o ToCome = pending \o (wire \o ToCome)
    BY <1>2, Associative
  <2> QED
    BY <1>1, <2>1, <2>2
<1> HIDE DEF w
<1>4. /\ n > 0 /\ SubSeq(pending, 1, LineEnd) = Ping
      /\ rest \in Seq(Parts) /\ rest \o w = Pings(n - 1)
  <2>1. HasLine
    BY DEF TakeLine
  <2> HIDE DEF rest
  <2> QED
    BY <1>2, <1>3, <2>1, FirstLine DEF rest
<1>5. pending' = rest /\ UNCHANGED <<sender, wire, halfway>>
  BY DEF TakeLine
<1> HIDE DEF rest
<1>6. \/ sender = "serving" /\ unanswered' = unanswered - 1 /\ quiet' = 0
      \/ sender = "closed" /\ UNCHANGED <<unanswered, quiet>>
  BY <1>4 DEF TakeLine
<1>7. unanswered' \in Nat /\ (sender = "serving" => unanswered' = n - 1)
  <2>1. n - 1 \in Nat /\ unanswered \in Nat
    BY <1>4 DEF ControlInv
  <2> QED
    BY <1>1, <1>6, <2>1
<1>8. quiet' \in 0 .. SessionTimeout + 1
  BY <1>6, ClientAssumption DEF ControlInv
<1>9. pending' \o wire' \o ToCome' = Pings(n - 1)
  <2>1. wire' = wire /\ ToCome' = ToCome
    BY <1>5 DEF ToCome
  <2>2. (rest \o wire) \o ToCome = rest \o (wire \o ToCome)
    BY <1>2, <1>4, Associative
  <2> QED
    BY <1>4, <1>5, <2>1, <2>2 DEF w
<1>10. Whole'
  <2>1. n - 1 \in Nat
    BY <1>4
  <2> QED
    BY <1>5, <1>7, <1>9, <2>1 DEF Whole
<1> QED
  BY <1>2, <1>4, <1>5, <1>7, <1>8, <1>10 DEF ControlInv

LEMMA ChunkRead ==
  ASSUME ControlInv, ReadChunk
  PROVE  ControlInv'
<1>1. PICK n \in Nat : /\ pending \o wire \o ToCome = Pings(n)
                       /\ sender = "serving" => n = unanswered
  BY DEF ControlInv, Whole
<1>2. wire \in Seq(Parts) /\ pending \in Seq(Parts)
  BY DEF ControlInv
<1>3. /\ pending' = pending \o wire /\ wire' = <<>>
      /\ UNCHANGED <<sender, quiet, halfway, unanswered>>
  BY DEF ReadChunk
<1>4. pending' \in Seq(Parts) /\ wire' \in Seq(Parts) /\ pending' \o wire' = pending'
  BY <1>2, <1>3, Concat, NoPings, ConcatEmptySeq
<1>5. pending' \o wire' \o ToCome' = Pings(n)
  <2>1. ToCome' = ToCome
    BY <1>3 DEF ToCome
  <2>2. pending' \o wire' = pending \o wire
    BY <1>3, <1>4
  <2> QED
    BY <1>1, <2>1, <2>2
<1>6. Whole'
  BY <1>1, <1>3, <1>5, WholeAgain
<1> QED
  BY <1>3, <1>4, <1>6 DEF ControlInv

LEMMA KeeperSteps ==
  ASSUME ClientInv, KeeperStep
  PROVE  ClientInv'
<1> USE DEF ClientInv
<1>1. UNCHANGED <<pipelineVars, owner, receiver, arrivals>>
  BY DEF KeeperStep, TakeLine, ReadChunk, ReadIdle, ReadEnds, KeeperTurn, KeeperEnds, threads,
         control
<1>2. PipelineInv'
  BY <1>1, PipelineKept
<1>3. ThreadInv'
  <2>1. CASE TakeLine \/ ReadChunk \/ ReadIdle \/ ReadEnds \/ KeeperTurn
    <3>1. /\ UNCHANGED <<running, goodbye>>
          /\ keeper \in {"reading", "turning"} /\ keeper' \in {"reading", "turning", "ending"}
      BY <2>1 DEF TakeLine, ReadChunk, ReadIdle, ReadEnds, KeeperTurn, threads, control
    <3> QED
      BY <1>1, <3>1 DEF ThreadInv, Together, NothingOutlivesClient
  <2>2. CASE KeeperEnds
    BY <1>1, <2>2 DEF KeeperEnds, Stopped, ThreadInv, Together, NothingOutlivesClient
  <2> QED
    BY <2>1, <2>2 DEF KeeperStep
<1>4. ControlInv'
  <2>1. CASE TakeLine
    BY <2>1, LineTaken
  <2>2. CASE ReadChunk
    BY <2>2, ChunkRead
  <2>3. CASE ReadIdle \/ ReadEnds \/ KeeperTurn \/ KeeperEnds
    <3>1. UNCHANGED <<sender, wire, halfway, pending, unanswered>>
      BY <2>3 DEF ReadIdle, KeptWhenIdle, ReadEnds, KeeperTurn, KeeperEnds, control
    <3>2. quiet' = quiet \/ quiet' = 0
      BY <2>3 DEF ReadIdle, ReadEnds, KeeperTurn, KeeperEnds, control
    <3>3. quiet' \in 0 .. SessionTimeout + 1
      BY <3>2, ClientAssumption DEF ControlInv
    <3>4. Whole'
      BY <3>1, WholeKept
    <3> QED
      BY <3>1, <3>3, <3>4 DEF ControlInv
  <2> QED
    BY <2>1, <2>2, <2>3 DEF KeeperStep
<1> QED
  BY <1>2, <1>3, <1>4

LEMMA Ticked ==
  ASSUME ControlInv, Tick
  PROVE  ControlInv'
<1>1. sender = "serving" /\ ~halfway /\ quiet <= SessionTimeout
      /\ UNCHANGED <<sender, pending>>
      /\ quiet' = quiet + 1 /\ unanswered' = unanswered + 1
  BY DEF Tick
<1>2. wire \in Seq(Parts) /\ pending \in Seq(Parts) /\ unanswered \in Nat
  BY DEF ControlInv
<1>3. pending \o wire \in Seq(Parts) /\ pending \o wire = Pings(unanswered)
  <2>1. PICK n \in Nat : pending \o wire \o ToCome = Pings(n) /\ n = unanswered
    BY <1>1 DEF ControlInv, Whole
  <2>2. ToCome = <<>>
    BY <1>1 DEF ToCome
  <2>3. pending \o wire \in Seq(Parts)
    BY <1>2, Concat
  <2> QED
    BY <2>1, <2>2, <2>3, ConcatEmptySeq
<1>4. "head" \in Parts /\ "tail" \in Parts
  BY DEF Parts
<1>5. <<"head">> \in Seq(Parts) /\ <<"tail">> \in Seq(Parts) /\ Ping \in Seq(Parts)
  BY <1>4, OnePart, PingFacts
<1>6. quiet' \in 0 .. SessionTimeout + 1 /\ unanswered' \in Nat
  BY <1>1, <1>2, ClientAssumption DEF ControlInv
<1>7. (pending \o wire) \o Ping = Pings(unanswered + 1)
  BY <1>2, <1>3, OneMorePing
<1>8. CASE wire' = wire \o Ping /\ UNCHANGED halfway
  <2>1. wire' \in Seq(Parts)
    BY <1>2, <1>5, <1>8, Concat
  <2>2. pending' \o wire' = Pings(unanswered + 1)
    BY <1>1, <1>2, <1>5, <1>7, <1>8, Associative
  <2>3. pending' \o wire' \o ToCome' = Pings(unanswered + 1)
    <3>1. ToCome' = <<>> /\ pending' \o wire' \in Seq(Parts)
      BY <1>1, <1>2, <1>8, <2>1, Concat DEF ToCome
    <3> QED
      BY <2>2, <3>1, ConcatEmptySeq
  <2>4. Whole'
    BY <1>1, <1>6, <2>3 DEF Whole
  <2> QED
    BY <1>1, <1>2, <1>6, <1>8, <2>1, <2>4 DEF ControlInv
<1>9. CASE wire' = Append(wire, "head") /\ halfway' = TRUE
  <2>1. wire' = wire \o <<"head">>
    BY <1>2, <1>4, <1>9, AppendIsConcat
  <2>2. wire' \in Seq(Parts)
    BY <1>2, <1>5, <2>1, Concat
  <2>3. pending' \o wire' = (pending \o wire) \o <<"head">>
    BY <1>1, <1>2, <1>5, <2>1, Associative
  <2>4. ((pending \o wire) \o <<"head">>) \o <<"tail">>
          = (pending \o wire) \o (<<"head">> \o <<"tail">>)
    BY <1>3, <1>5, Associative
  <2>5. ToCome' = <<"tail">>
    BY <1>9 DEF ToCome
  <2>6. pending' \o wire' \o ToCome' = Pings(unanswered + 1)
    BY <1>7, <2>3, <2>4, <2>5, HeadAndTail
  <2>7. Whole'
    BY <1>1, <1>6, <2>6 DEF Whole
  <2> QED
    BY <1>1, <1>2, <1>6, <1>9, <2>2, <2>7 DEF ControlInv
<1> QED
  BY <1>8, <1>9 DEF Tick

LEMMA RestCame ==
  ASSUME ControlInv, Rest
  PROVE  ControlInv'
<1>1. PICK n \in Nat : /\ pending \o wire \o ToCome = Pings(n)
                       /\ sender = "serving" => n = unanswered
  BY DEF ControlInv, Whole
<1>2. wire \in Seq(Parts) /\ pending \in Seq(Parts)
  BY DEF ControlInv
<1>3. "tail" \in Parts
  BY DEF Parts
<1>4. <<"tail">> \in Seq(Parts)
  BY <1>3, OnePart
<1>5. /\ halfway /\ halfway' = FALSE /\ wire' = wire \o <<"tail">>
      /\ UNCHANGED <<sender, quiet, pending, unanswered>>
  BY <1>2, <1>3, AppendIsConcat DEF Rest
<1>6. wire' \in Seq(Parts)
  BY <1>2, <1>4, <1>5, Concat
<1>7. pending' \o wire' = (pending \o wire) \o <<"tail">>
  BY <1>2, <1>4, <1>5, Associative
<1>8. ToCome = <<"tail">> /\ ToCome' = <<>>
  BY <1>5 DEF ToCome
<1>9. pending' \o wire' \o ToCome' = pending' \o wire'
  <2>1. pending' \o wire' \in Seq(Parts)
    BY <1>2, <1>5, <1>6, Concat
  <2> QED
    BY <1>8, <2>1, ConcatEmptySeq
<1>10. Whole'
  <2>1. pending' \o wire' \o ToCome' = Pings(n)
    BY <1>1, <1>7, <1>8, <1>9
  <2>2. sender' = "serving" => n = unanswered'
    BY <1>1, <1>5
  <2> QED
    BY <2>1, <2>2, WholeAgain
<1> QED
  BY <1>2, <1>5, <1>6, <1>10 DEF ControlInv

LEMMA SenderSteps ==
  ASSUME ClientInv, SenderStep \/ SenderStops
  PROVE  ClientInv'
<1> USE DEF ClientInv
<1>1. UNCHANGED <<pipelineVars, running, owner, receiver, keeper, arrivals, goodbye>>
  BY DEF SenderStep, Tick, Rest, Reap, HearGoodbye, NeverCame, SenderStops, Close, threads
<1>2. PipelineInv'
  BY <1>1, PipelineKept
<1>3. ThreadInv'
  BY <1>1 DEF ThreadInv, Together, NothingOutlivesClient
<1>4. CASE Close
  <2>1. /\ sender' = "closed"
        /\ UNCHANGED <<quiet, wire, halfway, pending, unanswered>>
    BY <1>4 DEF Close
  <2>2. Whole'
    BY <2>1, WholeKept
  <2>3. ControlInv'
    BY <2>1, <2>2 DEF ControlInv
  <2> QED
    BY <1>2, <1>3, <2>3
<1>5. CASE Tick
  BY <1>2, <1>3, <1>5, Ticked
<1>6. CASE Rest
  BY <1>2, <1>3, <1>6, RestCame
<1> QED
  BY <1>4, <1>5, <1>6 DEF SenderStep, Reap, HearGoodbye, NeverCame, SenderStops

LEMMA ClientSteps == ClientInv /\ [Next]_vars => ClientInv'
<1> SUFFICES ASSUME ClientInv, [Next]_vars PROVE ClientInv'
  OBVIOUS
<1>1. CASE OwnerStep
  BY <1>1, OwnerSteps
<1>2. CASE Arrive \/ ReceiveNothing \/ ReceiverTurn
  BY <1>2, ReceiverSteps
<1>3. CASE KeeperStep
  BY <1>3, KeeperSteps
<1>4. CASE SenderStep \/ SenderStops
  BY <1>4, SenderSteps
<1>5. CASE UNCHANGED vars
  <2>1. PipelineInv'
    BY <1>5, PipelineKept DEF vars, threads, ClientInv
  <2>2. ControlInv'
    BY <1>5, ControlKept DEF vars, ClientInv
  <2>3. ThreadInv'
    BY <1>5 DEF vars, threads, control, ClientInv, ThreadInv, Together, NothingOutlivesClient
  <2> QED
    BY <2>1, <2>2, <2>3 DEF ClientInv
<1> QED
  BY <1>1, <1>2, <1>3, <1>4, <1>5 DEF Next

LEMMA ClientAlways == Spec => []ClientInv
BY InitClient, ClientSteps, PTL DEF Spec

-----------------------------------------------------------------------------
(* Every variable stays in its range and what a fill leaves over is less   *)
(* than a frame becomes, whatever the frame lengths, the device's buffer   *)
(* and the regulation (resample.rs:27-48, pipeline.rs:149-151).            *)
THEOREM ClientTyped == Spec => []TypeOK
<1>1. ClientInv => TypeOK
  BY DEF ClientInv, ThreadInv, PipelineInv, ControlInv, TypeOK, Types, Parts
<1> QED
  BY <1>1, ClientAlways, PTL

(* What the client started has ended when the client is gone, and it has   *)
(* said goodbye (lib.rs:184-191, 238-258).                                 *)
THEOREM NothingLeftRunning == Spec => []NothingOutlivesClient
<1>1. ClientInv => NothingOutlivesClient
  BY DEF ClientInv, ThreadInv, Together
<1> QED
  BY <1>1, ClientAlways, PTL

(* However a ping is cut up and wherever the keeper's read times out, it is*)
(* answered whole, once and in its turn (lines.rs:1-2, lib.rs:238-258).    *)
THEOREM EveryPingAnswered == Spec => []PingsKept
<1>1. ClientInv => PingsKept
  BY DEF ClientInv, ControlInv, Whole, ToCome, PingsKept
<1> QED
  BY <1>1, ClientAlways, PTL

-----------------------------------------------------------------------------
(* The resampler's loop.  First, induction for a set of natural numbers.   *)
LEMMA SetInduction ==
  ASSUME NEW S, 0 \in S, \A k \in Nat : k \in S => k + 1 \in S
  PROVE  Nat \subseteq S
<1> DEFINE R == OpToRel(<, Nat)
           T == Nat \ S
<1>1. \A x \in Nat, y \in Nat : y < x => <<y, x>> \in R
  BY DEF OpToRel
<1>2. IsWellFoundedOn(R, Nat)
  BY NatLessThanWellFounded
<1> HIDE DEF R
<1> SUFFICES ASSUME T # {} PROVE FALSE
  OBVIOUS
<1>3. PICK x \in T : \A y \in T : ~(<<y, x>> \in R)
  BY <1>2, WFMin
<1>4. x # 0 /\ x - 1 \in Nat /\ x - 1 < x
  BY <1>3
<1>5. x - 1 \notin T
  BY <1>1, <1>3, <1>4
<1> QED
  BY <1>3, <1>4, <1>5

LEMMA DivUnique ==
  ASSUME NEW x \in Nat, NEW r \in Nat \ {0}, NEW q \in Nat, q * r <= x, x < q * r + r
  PROVE  q = x \div r
<1> DEFINE d == x \div r
<1>1. d \in Nat /\ d * r <= x /\ x < d * r + r
  BY DivFacts
<1> HIDE DEF d
<1>2. q * r \in Nat /\ d * r \in Nat /\ q * r + r = (q + 1) * r /\ d * r + r = (d + 1) * r
  BY <1>1
<1>3. ASSUME d + 1 <= q PROVE FALSE
  <2>1. (d + 1) * r <= q * r
    BY <1>1, <1>3, ProductsOrdered
  <2> QED
    BY <1>1, <1>2, <2>1
<1>4. ASSUME q + 1 <= d PROVE FALSE
  <2>1. (q + 1) * r <= d * r
    BY <1>1, <1>4, ProductsOrdered
  <2> QED
    BY <1>1, <1>2, <2>1
<1> QED
  BY <1>1, <1>3, <1>4 DEF d

(* One more input sample: the position is within it or already past it.    *)
Steps(q, r) == IF q < Unit THEN (Unit - q + r - 1) \div r ELSE 0

(* Where the loop is after k samples: at q, with e emitted.                *)
Stands(q, e, k, p, r) ==
  /\ q \in Nat /\ e \in Nat /\ q < Unit + r
  /\ q = p + e * r - k * Unit

LEMMA OneMoreSample ==
  ASSUME NEW r \in Nat \ {0}, NEW p \in Nat, NEW k \in Nat, NEW e, NEW q,
         Stands(q, e, k, p, r)
  PROVE  /\ Steps(q, r) \in Nat
         /\ e + Steps(q, r) = Emitted(k + 1, p, r)
         /\ q + Steps(q, r) * r - Unit = Advanced(k + 1, p, r)
         /\ Advanced(k + 1, p, r) \in Nat /\ Advanced(k + 1, p, r) < Unit + r
<1> USE DEF Stands
<1> DEFINE more == Steps(q, r)
           x == (k + 1) * Unit - p + r - 1
           y == Unit - q + r - 1
<1>1. Unit \in Nat \ {0}
  BY PipelineAssumption
<1>2. /\ e * r \in Nat /\ k * Unit \in Nat
      /\ (k + 1) * Unit = k * Unit + Unit
  BY <1>1
<1>3. x = e * r + y
  <2> HIDE DEF more
  <2> QED
    BY <1>1, <1>2
<1>4. /\ more \in Nat /\ more * r \in Nat
      /\ more * r <= y /\ y < more * r + r
  <2>1. CASE q < Unit
    <3>1. y \in Nat
      BY <1>1, <2>1
    <3>2. more = y \div r
      BY <2>1 DEF Steps
    <3> HIDE DEF more, y
    <3>3. more \in Nat /\ more * r <= y /\ y < more * r + r
      BY <3>1, <3>2, DivFacts
    <3> QED
      BY <3>3
  <2>2. CASE ~(q < Unit)
    <3>1. more = 0
      BY <2>2 DEF Steps
    <3>2. more * r = 0
      BY <3>1
    <3> HIDE DEF more
    <3> QED
      BY <1>1, <2>2, <3>1, <3>2
  <2> QED
    BY <2>1, <2>2
<1> HIDE DEF more
<1>5. (e + more) * r = e * r + more * r
  BY <1>4
<1>6. x \in Nat /\ (e + more) * r <= x /\ x < (e + more) * r + r
  BY <1>1, <1>2, <1>3, <1>4, <1>5
<1>7. e + more = Emitted(k + 1, p, r)
  <2> DEFINE s == e + more
  <2>1. s \in Nat /\ x \in Nat /\ s * r <= x /\ x < s * r + r
    BY <1>4, <1>6
  <2> HIDE DEF x, s
  <2>2. s = x \div r
    BY <2>1, DivUnique
  <2> QED
    BY <2>2 DEF Emitted, s, x
<1>8. Advanced(k + 1, p, r) = p + (e + more) * r - (k + 1) * Unit
  BY <1>7 DEF Advanced
<1>9. Advanced(k + 1, p, r) = q + more * r - Unit
  <2> HIDE DEF x, y
  <2> QED
    BY <1>1, <1>2, <1>4, <1>5, <1>8
<1>10. q + more * r - Unit \in Nat /\ q + more * r - Unit < Unit + r
  <2>1. q + more * r - Unit >= 0
    BY <1>1, <1>4
  <2>2. q + more * r - Unit < r
    BY <1>1, <1>4
  <2> QED
    BY <1>1, <1>4, <2>1, <2>2
<1> QED
  BY <1>4, <1>7, <1>9, <1>10 DEF more

(* What becomes of a frame in Resampler::process, one input sample at a    *)
(* time, is what Emitted and Advanced say of it at once, for every length  *)
(* of frame, position and ratio (resample.rs:30-44).                       *)
THEOREM LoopComesTo ==
  ASSUME NEW n \in Lengths, NEW p \in Nat, p < Unit + MaxCorrection, NEW r \in Ratios
  PROVE  Processed(n, p, r)
           = [position |-> Advanced(n, p, r), emitted |-> Emitted(n, p, r)]
<1> DEFINE start == [position |-> p, emitted |-> 0]
           Turned(before) ==
             [position |-> before.position + Steps(before.position, r) * r - Unit,
              emitted  |-> before.emitted + Steps(before.position, r)]
           loop == CHOOSE f : f = [k \in 0 .. n |-> IF k = 0 THEN start ELSE Turned(f[k - 1])]
           result(k) == IF k = 0 THEN start
                        ELSE [position |-> Advanced(k, p, r), emitted |-> Emitted(k, p, r)]
           W == [k \in 0 .. n |-> result(k)]
           S == {k \in Nat : Stands(result(k).position, result(k).emitted, k, p, r)}
<1>0. /\ r \in Nat \ {0} /\ n \in Nat \ {0} /\ Unit \in Nat \ {0}
      /\ p < Unit + r
  BY RatioFacts, PipelineAssumption
<1>1. ASSUME NEW k \in S PROVE k + 1 \in S /\ result(k + 1) = Turned(result(k))
  <2> DEFINE q == result(k).position
             e == result(k).emitted
  <2>1. k \in Nat /\ Stands(q, e, k, p, r) /\ q \in Nat /\ e \in Nat
    BY DEF Stands
  <2>2. k + 1 # 0 /\ k + 1 \in Nat
    BY <2>1
  <2>3. /\ result(k + 1) = [position |-> Advanced(k + 1, p, r),
                            emitted |-> Emitted(k + 1, p, r)]
        /\ Turned(result(k)) = [position |-> q + Steps(q, r) * r - Unit,
                                emitted |-> e + Steps(q, r)]
    BY <2>2
  <2> HIDE DEF q, e, result, Turned
  <2>4. /\ Steps(q, r) \in Nat
        /\ e + Steps(q, r) = Emitted(k + 1, p, r)
        /\ q + Steps(q, r) * r - Unit = Advanced(k + 1, p, r)
        /\ Advanced(k + 1, p, r) \in Nat /\ Advanced(k + 1, p, r) < Unit + r
    BY <1>0, <2>1, OneMoreSample, Zenon
  <2>5. result(k + 1) = Turned(result(k))
    BY <2>3, <2>4
  <2>6. /\ result(k + 1).position = Advanced(k + 1, p, r)
        /\ result(k + 1).emitted = Emitted(k + 1, p, r)
        /\ Emitted(k + 1, p, r) \in Nat
        /\ Advanced(k + 1, p, r) = p + Emitted(k + 1, p, r) * r - (k + 1) * Unit
    BY <2>1, <2>3, <2>4 DEF Advanced
  <2> QED
    BY <2>2, <2>4, <2>5, <2>6 DEF Stands
<1>2. 0 \in S
  BY <1>0 DEF Stands
<1>3. Nat \subseteq S
  <2> HIDE DEF S, result
  <2> QED
    BY <1>1, <1>2, SetInduction
<1>4. W = [k \in 0 .. n |-> IF k = 0 THEN start ELSE Turned(W[k - 1])]
  <2>1. ASSUME NEW k \in 0 .. n, k # 0 PROVE result(k) = Turned(W[k - 1])
    <3>1. k - 1 \in 0 .. n /\ k - 1 \in Nat /\ (k - 1) + 1 = k
      BY <1>0, <2>1
    <3>2. W[k - 1] = result(k - 1)
      BY <3>1
    <3> HIDE DEF W, result, S, Turned
    <3>3. result((k - 1) + 1) = Turned(result(k - 1))
      BY <1>1, <1>3, <3>1
    <3> QED
      BY <3>1, <3>2, <3>3
  <2>2. ASSUME NEW k \in 0 .. n, k = 0 PROVE result(k) = start
    BY <2>2
  <2>3. ASSUME NEW k \in 0 .. n
        PROVE  W[k] = IF k = 0 THEN start ELSE Turned(W[k - 1])
    <3>1. W[k] = result(k)
      OBVIOUS
    <3> HIDE DEF W, result, Turned, start
    <3> QED
      BY <2>1, <2>2, <3>1
  <2>4. W \in [0 .. n -> {W[k] : k \in 0 .. n}]
    OBVIOUS
  <2> HIDE DEF W, result, Turned, start
  <2> QED
    BY <2>3, <2>4
<1>5. loop = [k \in 0 .. n |-> IF k = 0 THEN start ELSE Turned(loop[k - 1])]
  <2> HIDE DEF Turned, start, W
  <2> QED
    BY <1>4, Zenon
<1>6. Processed(n, p, r) = loop[n]
  BY Zenon DEF Processed, Steps
<1> HIDE DEF loop
<1> DEFINE A == {k \in Nat : k <= n => loop[k] = result(k)}
<1>7. 0 \in A
  <2>1. loop[0] = start /\ result(0) = start
    BY <1>0, <1>5
  <2> HIDE DEF start, result
  <2> QED
    BY <2>1
<1>8. ASSUME NEW k \in Nat, k \in A PROVE k + 1 \in A
  <2>1. ASSUME k + 1 <= n PROVE loop[k + 1] = result(k + 1)
    <3>1. k + 1 \in 0 .. n /\ k + 1 # 0 /\ (k + 1) - 1 = k
      BY <1>0, <2>1
    <3>2. loop[k] = result(k)
      BY <1>0, <1>8, <2>1
    <3> HIDE DEF result, S, Turned, start
    <3>3. loop[k + 1] = Turned(loop[k])
      BY <1>5, <3>1
    <3>4. result(k + 1) = Turned(result(k))
      BY <1>1, <1>3
    <3> QED
      BY <3>2, <3>3, <3>4
  <2> HIDE DEF result
  <2> QED
    BY <2>1
<1>9. n \in A
  <2> HIDE DEF A
  <2>1. Nat \subseteq A
    BY <1>7, <1>8, SetInduction
  <2> QED
    BY <1>0, <2>1
<1>10. loop[n] = result(n)
  BY <1>0, <1>9
<1> QED
  BY <1>0, <1>6, <1>10

-----------------------------------------------------------------------------
(* How much a fill has still to do at most, while it does not starve.      *)
FillLeft == (Output + MaxEmitted - ready) * (Unit + MaxCorrection) + position

LEMMA FillBounded ==
  ASSUME PipelineInv
  PROVE  FillLeft \in Nat
<1> DEFINE a == Output + MaxEmitted - ready
           b == Unit + MaxCorrection
<1>1. a \in Nat /\ b \in Nat /\ position \in Nat
  BY PipelineAssumption, SomethingEmitted DEF PipelineInv, PipelineTypes, LeftoverBounded
<1>2. FillLeft = a * b + position
  BY DEF FillLeft
<1> HIDE DEF a, b
<1>3. a * b \in Nat
  BY <1>1
<1> QED
  BY <1>1, <1>2, <1>3

(* A frame brings a sample, or the position has left it behind.            *)
LEMMA Progress ==
  ASSUME NEW n \in Lengths, NEW p \in Nat, p < Unit + MaxCorrection, NEW r \in Ratios
  PROVE  Emitted(n, p, r) > 0 \/ (Emitted(n, p, r) = 0 /\ Advanced(n, p, r) < p)
<1> DEFINE q == Emitted(n, p, r)
           x == n * Unit - p + r - 1
<1>1. /\ r \in Nat \ {0} /\ Unit \in Nat \ {0} /\ n \in Nat \ {0}
      /\ MaxCorrection \in Nat /\ 2 * MaxCorrection <= Unit /\ Unit - MaxCorrection <= r
  BY RatioFacts, PipelineAssumption
<1>2. n * Unit \in Nat /\ Unit <= n * Unit
  <2>1. 1 * Unit <= n * Unit
    BY <1>1, ProductsOrdered
  <2> QED
    BY <1>1, <2>1
<1>3. x \in Nat
  BY <1>1, <1>2
<1>4. q = x \div r /\ q \in Nat /\ x < q * r + r
  <2>1. q = x \div r
    BY DEF Emitted
  <2> HIDE DEF q, x
  <2> QED
    BY <1>1, <1>3, <2>1, DivFacts
<1>5. Emitted(n, p, r) = q /\ Advanced(n, p, r) = p + q * r - n * Unit
  BY DEF Advanced
<1> HIDE DEF q, x
<1>6. q = 0 => q * r = 0
  BY <1>1
<1> QED
  BY <1>1, <1>2, <1>4, <1>5, <1>6

LEMMA FewerOrNearer ==
  ASSUME NEW a \in Nat, NEW b \in Nat, NEW e \in Nat, NEW p \in Nat, NEW q \in Nat,
         p < b, q < b, e > 0 \/ q < p
  PROVE  (a - e) * b + q < a * b + p
<1> DEFINE more == a * b
           less == e * b
<1>1. (a - e) * b = more - less /\ more \in Nat /\ less \in Nat
  OBVIOUS
<1>2. e > 0 => b <= less
  <2>1. ASSUME e > 0 PROVE 1 * b <= e * b
    BY <2>1, ProductsOrdered
  <2> QED
    BY <2>1
<1> HIDE DEF more, less
<1>3. more - less + q < more + p
  BY <1>1, <1>2
<1> QED
  BY <1>1, <1>3 DEF more

LEMMA PopNearsEnd ==
  ASSUME PipelineInv, PopFrame
  PROVE  FillLeft' < FillLeft
<1>1. PICK n \in Lengths : /\ ready' = ready + Emitted(n, position, ratio)
                           /\ position' = Advanced(n, position, ratio)
  BY DEF PopFrame
<1> DEFINE e == Emitted(n, position, ratio)
           a == Output + MaxEmitted - ready
           b == Unit + MaxCorrection
<1>2. /\ e \in Nat /\ position \in Nat /\ position' \in Nat /\ position < b /\ position' < b
      /\ e > 0 \/ position' < position
  <2>1. position \in Nat /\ position < Unit + MaxCorrection /\ ratio \in Ratios
    BY DEF PipelineInv, PipelineTypes, LeftoverBounded
  <2> QED
    BY <1>1, <2>1, Resampled, Progress
<1>3. a \in Nat /\ b \in Nat /\ ready \in Nat /\ Output \in Nat /\ MaxEmitted \in Nat
  BY PipelineAssumption, SomethingEmitted DEF PipelineInv, PipelineTypes, LeftoverBounded
<1>4. ready' = ready + e
  BY <1>1
<1>5. FillLeft = a * b + position
  BY DEF FillLeft
<1>6. FillLeft' = (a - e) * b + position'
  <2>1. FillLeft' = (Output + MaxEmitted - ready') * b + position'
    BY DEF FillLeft
  <2>2. Output + MaxEmitted - ready' = a - e
    BY <1>2, <1>3, <1>4
  <2> QED
    BY <2>1, <2>2
<1> HIDE DEF a, b, e
<1>7. (a - e) * b + position' < a * b + position
  BY <1>2, <1>3, FewerOrNearer
<1> QED
  BY <1>5, <1>6, <1>7

(* The loop of a fill ends, however short its frames are and wherever the  *)
(* regulation has taken the ratio: each pop emits a sample, or leaves less *)
(* to skip (pipeline.rs:152-197, resample.rs:30-44).                       *)
THEOREM FillsEnd ==
  Spec => [](FillLeft \in Nat) /\ [][FillPops => FillLeft' < FillLeft]_vars
<1>1. ClientInv => FillLeft \in Nat
  BY FillBounded DEF ClientInv
<1>2. ClientInv /\ [Next]_vars => [FillPops => FillLeft' < FillLeft]_vars
  BY PopNearsEnd DEF ClientInv, FillPops
<1>3. Spec => [](FillLeft \in Nat)
  BY <1>1, ClientAlways, PTL
<1>4. Spec => [][FillPops => FillLeft' < FillLeft]_vars
  BY <1>2, ClientAlways, PTL DEF Spec
<1> QED
  BY <1>3, <1>4, PTL

-----------------------------------------------------------------------------
(* Stopping.  The threads begin together, while nothing has stopped yet.   *)
BegunInv ==
  /\ owner = "connecting" => running
  /\ receiver = "none" <=> keeper = "none"
  /\ receiver = "none" => owner \in {"connecting", "gone"}

LEMMA BegunAtFirst == Init => BegunInv
BY DEF Init, BegunInv

LEMMA BegunKept == ClientInv /\ BegunInv /\ [Next]_vars => BegunInv'
<1> SUFFICES ASSUME ClientInv, BegunInv, [Next]_vars PROVE BegunInv'
  OBVIOUS
<1> USE DEF BegunInv
<1>1. CASE OwnerStep
  <2>1. CASE Connect \/ OpenSink \/ Loop \/ TakeArrival \/ FillPops \/ FillEnds \/ Write
    BY <2>1 DEF Connect, OpenSink, Loop, TakeArrival, FillPops, FillEnds, Write, threads
  <2>2. CASE Drained \/ Drop \/ Leak \/ Join
    BY <2>2 DEF Drained, Drop, Leak, Join, Joins
  <2> QED
    BY <1>1, <2>1, <2>2 DEF OwnerStep
<1>2. CASE Arrive \/ ReceiveNothing \/ ReceiverTurn
  BY <1>2 DEF Arrive, ReceiveNothing, ReceiverTurn, GoesOn
<1>3. CASE KeeperStep
  <2>1. CASE TakeLine \/ ReadChunk \/ ReadIdle \/ ReadEnds \/ KeeperTurn
    BY <2>1 DEF TakeLine, ReadChunk, ReadIdle, ReadEnds, KeeperTurn, threads
  <2>2. CASE KeeperEnds
    BY <2>2 DEF KeeperEnds, ClientInv, ThreadInv, Together
  <2> QED
    BY <1>3, <2>1, <2>2 DEF KeeperStep
<1>4. CASE SenderStep \/ SenderStops \/ UNCHANGED vars
  BY <1>4 DEF SenderStep, SenderStops, Tick, Rest, Reap, HearGoodbye, NeverCame, Close, threads,
    vars
<1> QED
  BY <1>1, <1>2, <1>3, <1>4 DEF Next

LEMMA BegunAlways == Spec => []BegunInv
BY BegunAtFirst, BegunKept, ClientAlways, PTL DEF Spec

(* How many steps the threads of a stopped client have left at most.       *)
OwnerLeft ==
  CASE owner = "joining"  -> 1
    [] owner = "leaving"  -> 2
    [] owner = "looping"  -> 3
    [] owner \in {"opening", "writing"} -> 4
    [] owner = "filling"  -> 5 + FillLeft
    [] owner = "draining" -> 6 + FillLeft + arrivals
    [] OTHER -> 0

ReceiverLeft ==
  CASE receiver = "receiving" -> 3 [] receiver = "turning" -> 1 [] OTHER -> 0

KeeperLeft ==
  CASE keeper = "reading" -> IF HasLine THEN 3 ELSE IF pending # <<>> THEN 4 ELSE 5
    [] keeper = "turning" -> 2
    [] keeper = "ending"  -> 1
    [] OTHER -> 0

StepsLeft == OwnerLeft + ReceiverLeft + KeeperLeft

ThreadStep == OwnerStep \/ Arrive \/ ReceiveNothing \/ ReceiverTurn \/ KeeperStep

LeftTypes ==
  /\ FillLeft \in Nat /\ arrivals \in Nat
  /\ OwnerLeft \in Nat /\ ReceiverLeft \in Nat /\ KeeperLeft \in Nat

LEMMA LeftTyped == ClientInv => LeftTypes
<1> SUFFICES ASSUME ClientInv PROVE LeftTypes
  OBVIOUS
<1>1. FillLeft \in Nat /\ arrivals \in Nat
  BY FillBounded, ClientAssumption DEF ClientInv, ThreadInv
<1>2. OwnerLeft \in Nat
  BY <1>1 DEF OwnerLeft
<1>3. ReceiverLeft \in Nat /\ KeeperLeft \in Nat
  BY DEF ReceiverLeft, KeeperLeft
<1> QED
  BY <1>1, <1>2, <1>3 DEF LeftTypes

LEMMA OwnerFalls ==
  ASSUME ClientInv, LeftTypes, LeftTypes', ~running, owner # "connecting", OwnerStep
  PROVE  OwnerLeft' < OwnerLeft
<1>1. FillLeft \in Nat /\ arrivals \in Nat
  BY DEF LeftTypes
<1>2. arrivals' \in Nat /\ FillLeft' \in Nat
  BY DEF LeftTypes
<1>3. CASE OpenSink \/ Loop \/ Write \/ Drop \/ Leak \/ Join
  BY <1>3 DEF OpenSink, Loop, Write, Drop, Leak, Join, OwnerLeft
<1>4. CASE TakeArrival \/ Drained
  <2>1. FillLeft' = FillLeft
    BY <1>4 DEF TakeArrival, Drained, FillLeft, pipelineVars
  <2> QED
    BY <1>1, <1>2, <1>4, <2>1 DEF TakeArrival, Drained, OwnerLeft
<1>5. CASE FillPops
  <2>1. FillLeft' < FillLeft /\ owner = "filling" /\ owner' = "filling"
    BY <1>5, PopNearsEnd DEF FillPops, threads, ClientInv
  <2> QED
    BY <1>1, <1>2, <2>1 DEF OwnerLeft
<1>6. CASE FillEnds
  BY <1>1, <1>6 DEF FillEnds, OwnerLeft
<1> QED
  BY <1>3, <1>4, <1>5, <1>6 DEF OwnerStep, Connect

(* Of what is to be read, two parts hold a line.                           *)
LEMMA TwoParts ==
  ASSUME NEW n \in Nat, NEW s \in Seq(Parts), NEW t \in Seq(Parts), s \o t = Pings(n),
         Len(s) > 1
  PROVE  s[2] = "tail"
<1> DEFINE all == s \o t
<1>1. Len(s) \in Nat /\ Len(t) \in Nat /\ 2 \in 1 .. Len(s)
  BY LenProperties
<1>2. Len(all) = Len(s) + Len(t) /\ all[2] = s[2]
  BY <1>1, Concat
<1>3. all = Pings(n)
  OBVIOUS
<1> HIDE DEF all
<1>4. Len(all) = 2 * n /\ all[2] = PartOf(2)
  <2>1. 2 \in 1 .. 2 * n
    BY <1>1, <1>2, <1>3, PingsFacts
  <2> QED
    BY <1>3, <2>1, PingsFacts
<1> QED
  BY <1>2, <1>4, Parity

LEMMA ChunkCompletes ==
  ASSUME ControlInv, ReadChunk, pending # <<>>
  PROVE  HasLine'
<1>1. PICK n \in Nat : pending \o wire \o ToCome = Pings(n)
  BY DEF ControlInv, Whole
<1>2. /\ wire \in Seq(Parts) /\ pending \in Seq(Parts) /\ ToCome \in Seq(Parts)
      /\ wire # <<>> /\ pending' = pending \o wire
  BY ComingTyped DEF ControlInv, ReadChunk
<1> DEFINE both == pending \o wire
<1>3. both \in Seq(Parts) /\ Len(both) = Len(pending) + Len(wire)
  BY <1>2, Concat
<1>4. Len(pending) \in Nat \ {0} /\ Len(wire) \in Nat \ {0}
  BY <1>2, EmptySeq, LenProperties
<1>5. both \o ToCome = Pings(n) /\ pending' = both
  BY <1>1, <1>2
<1> HIDE DEF both
<1>6. Len(both) > 1
  BY <1>3, <1>4
<1>7. both[2] = "tail"
  BY <1>2, <1>3, <1>5, <1>6, TwoParts
<1>8. 2 \in DOMAIN both
  <2>1. DOMAIN both = 1 .. Len(both) /\ Len(both) \in Nat
    BY <1>3, LenProperties
  <2> QED
    BY <1>6, <2>1
<1> QED
  BY <1>5, <1>7, <1>8 DEF HasLine

LEMMA KeeperFalls ==
  ASSUME ControlInv, ~running, KeeperStep
  PROVE  KeeperLeft' < KeeperLeft
<1>1. CASE TakeLine \/ ReadIdle \/ ReadEnds \/ KeeperTurn \/ KeeperEnds
  <2>1. KeeperLeft' \in {0, 1, 2} /\ KeeperLeft' < KeeperLeft
    <3>1. /\ keeper = "reading" => keeper' \in {"turning", "ending"}
          /\ keeper = "turning" => keeper' = "ending"
          /\ keeper = "ending" => keeper' = "done"
          /\ keeper \in {"reading", "turning", "ending"}
      BY <1>1 DEF TakeLine, ReadIdle, ReadEnds, KeeperTurn, KeeperEnds
    <3> QED
      BY <3>1 DEF KeeperLeft
  <2> QED
    BY <2>1
<1>2. CASE ReadChunk
  <2>1. /\ keeper = "reading" /\ keeper' = "reading" /\ ~HasLine
        /\ pending' = pending \o wire /\ wire # <<>>
    BY <1>2 DEF ReadChunk, threads
  <2>2. pending # <<>> => HasLine'
    BY <1>2, ChunkCompletes
  <2>3. pending' # <<>>
    <3>1. wire \in Seq(Parts) /\ pending \in Seq(Parts)
      BY DEF ControlInv
    <3> QED
      BY <2>1, <3>1, ConcatEmptySeq, Concat, EmptySeq, LenProperties
  <2> QED
    BY <2>1, <2>2, <2>3 DEF KeeperLeft
<1> QED
  BY <1>1, <1>2 DEF KeeperStep

LEMMA StaysStopped ==
  ASSUME BegunInv, ~running, [Next]_vars
  PROVE  ~running'
<1>1. owner # "connecting"
  BY DEF BegunInv
<1>2. CASE OwnerStep
  <2>1. CASE Drained \/ Drop
    BY <2>1 DEF Drained, Drop
  <2>2. CASE ~(Drained \/ Drop)
    BY <1>1, <1>2, <2>2 DEF OwnerStep, Connect, OpenSink, Loop, TakeArrival, FillPops, FillEnds,
      Write, Leak, Join, threads
  <2> QED
    BY <2>1, <2>2
<1>3. CASE KeeperStep
  BY <1>3 DEF KeeperStep, TakeLine, ReadChunk, ReadIdle, ReadEnds, KeeperTurn, KeeperEnds,
    Stopped, threads
<1>4. CASE ~OwnerStep /\ ~KeeperStep
  BY <1>4 DEF Next, Arrive, ReceiveNothing, ReceiverTurn, SenderStep, SenderStops, Tick, Rest,
    Reap, HearGoodbye, NeverCame, Close, threads, vars
<1> QED
  BY <1>2, <1>3, <1>4

LEMMA SumsOrdered ==
  ASSUME NEW a \in Nat, NEW b \in Nat, NEW c \in Nat, NEW x \in Nat
  PROVE  /\ x < a => x + b + c < a + b + c /\ x + b + c <= a + b + c
         /\ x < b => a + x + c < a + b + c /\ a + x + c <= a + b + c
         /\ x < c => a + b + x < a + b + c /\ a + b + x <= a + b + c
         /\ x <= a + 1 => x + 1 + c < a + 3 + c /\ x + 1 + c <= a + 3 + c
         /\ a + b + c <= a + b + c
OBVIOUS

LEMMA StoppedSteps ==
  ASSUME ClientInv, BegunInv, LeftTypes, LeftTypes', ~running, [Next]_vars
  PROVE  /\ StepsLeft' <= StepsLeft
         /\ ThreadStep => StepsLeft' < StepsLeft
<1>1. /\ OwnerLeft \in Nat /\ ReceiverLeft \in Nat /\ KeeperLeft \in Nat
      /\ OwnerLeft' \in Nat /\ ReceiverLeft' \in Nat /\ KeeperLeft' \in Nat
  BY DEF LeftTypes
<1>2. /\ StepsLeft = OwnerLeft + ReceiverLeft + KeeperLeft
      /\ StepsLeft' = OwnerLeft' + ReceiverLeft' + KeeperLeft'
  BY DEF StepsLeft
<1>3. owner # "connecting"
  BY DEF BegunInv
<1>4. CASE OwnerStep
  <2>1. UNCHANGED <<receiver, keeper, pending>>
    BY <1>3, <1>4 DEF OwnerStep, Connect, OpenSink, Loop, TakeArrival, Drained, FillPops,
      FillEnds, Write, Drop, Leak, Join, threads, control
  <2>2. ReceiverLeft' = ReceiverLeft /\ KeeperLeft' = KeeperLeft
    BY <2>1 DEF ReceiverLeft, KeeperLeft, HasLine
  <2>3. OwnerLeft' < OwnerLeft
    BY <1>3, <1>4, OwnerFalls
  <2> QED
    BY <1>1, <1>2, <2>2, <2>3, SumsOrdered, Zenon
<1>5. CASE Arrive \/ ReceiveNothing \/ ReceiverTurn
  <2>1. UNCHANGED <<owner, keeper, pending, ready, position>>
    BY <1>5 DEF Arrive, ReceiveNothing, ReceiverTurn, control, pipelineVars
  <2>2. FillLeft' = FillLeft /\ KeeperLeft' = KeeperLeft
    BY <2>1 DEF FillLeft, KeeperLeft, HasLine
  <2>3. CASE Arrive
    <3>1. ReceiverLeft = 3 /\ ReceiverLeft' = 1 /\ arrivals' = arrivals + 1
      BY <2>3 DEF Arrive, ReceiverLeft
    <3>2. OwnerLeft' <= OwnerLeft + 1
      BY <1>1, <2>1, <2>2, <3>1 DEF OwnerLeft, LeftTypes
    <3> QED
      BY <1>1, <1>2, <2>2, <3>1, <3>2, SumsOrdered, Zenon
  <2>4. CASE ReceiveNothing \/ ReceiverTurn
    <3>1. ReceiverLeft' < ReceiverLeft /\ arrivals' = arrivals
      BY <2>4 DEF ReceiveNothing, ReceiverTurn, GoesOn, ReceiverLeft
    <3>2. OwnerLeft' = OwnerLeft
      BY <2>1, <2>2, <3>1 DEF OwnerLeft
    <3> QED
      BY <1>1, <1>2, <2>2, <3>1, <3>2, SumsOrdered, Zenon
  <2> QED
    BY <1>5, <2>3, <2>4
<1>6. CASE KeeperStep
  <2>1. UNCHANGED <<owner, receiver, arrivals, ready, position>>
    BY <1>6 DEF KeeperStep, TakeLine, ReadChunk, ReadIdle, ReadEnds, KeeperTurn, KeeperEnds,
      threads, control, pipelineVars
  <2>2. OwnerLeft' = OwnerLeft /\ ReceiverLeft' = ReceiverLeft
    BY <2>1 DEF FillLeft, OwnerLeft, ReceiverLeft
  <2>3. KeeperLeft' < KeeperLeft
    BY <1>6, KeeperFalls DEF ClientInv
  <2> QED
    BY <1>1, <1>2, <2>2, <2>3, SumsOrdered, Zenon
<1>7. CASE ~ThreadStep
  <2>1. UNCHANGED <<owner, receiver, keeper, arrivals, pending, ready, position>>
    BY <1>7 DEF ThreadStep, Next, SenderStep, SenderStops, Tick, Rest, Reap, HearGoodbye,
      NeverCame, Close, threads, pipelineVars, vars, control
  <2>2. /\ OwnerLeft' = OwnerLeft /\ ReceiverLeft' = ReceiverLeft
        /\ KeeperLeft' = KeeperLeft
    BY <2>1 DEF FillLeft, OwnerLeft, ReceiverLeft, KeeperLeft, HasLine
  <2> QED
    BY <1>1, <1>7, <1>2, <2>2, SumsOrdered, Zenon
<1> QED
  BY <1>4, <1>5, <1>6, <1>7 DEF ThreadStep

Ended ==
  /\ owner \in {"gone", "leaked"}
  /\ receiver \in {"none", "done"} /\ keeper \in {"none", "done"}

(* A thread that neither has ended nor waits for another to end.           *)
OnesTurn ==
  \/ owner \notin {"joining", "gone", "leaked"}
  \/ owner = "joining" /\ Joins
  \/ receiver \in {"receiving", "turning"} \/ keeper \in {"reading", "turning", "ending"}

(* Once a client has been stopped, from whichever side, it stays stopped;  *)
(* until it has ended one of its threads has a step to take, every step of *)
(* any of them brings the end nearer, and the sender's steps do not put it *)
(* off: what is buffered, half read or still to come is bounded            *)
(* (lib.rs:184-191, 205-258).  With threads that run that is why           *)
(* StopSpreads holds of the client.                                        *)
THEOREM StopRunsDown ==
  Spec => /\ [](~running => StepsLeft \in Nat /\ (Ended \/ OnesTurn))
          /\ [][~running => /\ ~running'
                            /\ StepsLeft' <= StepsLeft
                            /\ ThreadStep => StepsLeft' < StepsLeft]_vars
<1>1. ClientInv /\ BegunInv => (~running => StepsLeft \in Nat /\ (Ended \/ OnesTurn))
  <2> SUFFICES ASSUME ClientInv, BegunInv, ~running
               PROVE  StepsLeft \in Nat /\ (Ended \/ OnesTurn)
    OBVIOUS
  <2>1. StepsLeft \in Nat
    BY LeftTyped DEF LeftTypes, StepsLeft
  <2>2. Ended \/ OnesTurn
    BY DEF Ended, OnesTurn, Joins, BegunInv, ClientInv, ThreadInv, Together,
      NothingOutlivesClient
  <2> QED
    BY <2>1, <2>2
<1> DEFINE Nearer == /\ ~running'
                     /\ StepsLeft' <= StepsLeft
                     /\ ThreadStep => StepsLeft' < StepsLeft
<1>2. ClientInv /\ BegunInv /\ LeftTypes /\ LeftTypes' /\ [Next]_vars
      => [~running => Nearer]_vars
  BY StoppedSteps, StaysStopped
<1>3. Spec => []LeftTypes
  BY LeftTyped, ClientAlways, PTL
<1>4. Spec => [](~running => StepsLeft \in Nat /\ (Ended \/ OnesTurn))
  BY <1>1, ClientAlways, BegunAlways, PTL
<1>5. Spec => [][~running => Nearer]_vars
  BY <1>2, <1>3, ClientAlways, BegunAlways, PTL DEF Spec
<1> QED
  BY <1>4, <1>5, PTL

(* What the keeper has still to do once the sender has closed: the pings   *)
(* under way, each part of which it reads and takes, and its own turn.     *)
Turns ==
  CASE keeper = "turning" -> 3 [] keeper = "reading" -> 2 [] keeper = "ending" -> 1
    [] OTHER -> 0

Awaited == IF halfway THEN 1 ELSE 0

Unread == 2 * Len(pending) + 3 * Len(wire) + 4 * Awaited + Turns

LEMMA UnreadTyped ==
  ASSUME ControlInv
  PROVE  /\ wire \in Seq(Parts) /\ pending \in Seq(Parts)
         /\ Len(pending) \in Nat /\ Len(wire) \in Nat /\ Awaited \in Nat /\ Turns \in Nat
BY LenProperties DEF ControlInv, Awaited, Turns

LEMMA LineShortens ==
  ASSUME ControlInv, TakeLine
  PROVE  Len(pending') \in Nat /\ Len(pending) = Len(pending') + 2
<1>1. PICK n \in Nat : pending \o wire \o ToCome = Pings(n)
  BY DEF ControlInv, Whole
<1> DEFINE w == wire \o ToCome
           rest == SubSeq(pending, LineEnd + 1, Len(pending))
<1>2. wire \in Seq(Parts) /\ pending \in Seq(Parts) /\ ToCome \in Seq(Parts)
  BY ComingTyped DEF ControlInv
<1>3. w \in Seq(Parts) /\ pending \o w = Pings(n)
  <2>1. w \in Seq(Parts)
    BY <1>2, Concat
  <2>2. (pending \o wire) \o ToCome = pending \o (wire \o ToCome)
    BY <1>2, Associative
  <2> QED
    BY <1>1, <2>1, <2>2
<1> HIDE DEF w
<1>4. n > 0 /\ rest \in Seq(Parts) /\ rest \o w = Pings(n - 1)
  <2>1. HasLine
    BY DEF TakeLine
  <2> HIDE DEF rest
  <2> QED
    BY <1>2, <1>3, <2>1, FirstLine DEF rest
<1>5. pending' = rest
  BY DEF TakeLine
<1> HIDE DEF rest
<1>6. Len(pending) + Len(w) = 2 * n
  <2>1. Len(pending \o w) = Len(pending) + Len(w)
    BY <1>2, <1>3, Concat
  <2> QED
    BY <1>3, <2>1, PingsFacts
<1>7. Len(rest) + Len(w) = 2 * (n - 1)
  <2>1. n - 1 \in Nat
    BY <1>4
  <2>2. Len(rest \o w) = Len(rest) + Len(w)
    BY <1>3, <1>4, Concat
  <2> QED
    BY <1>4, <2>1, <2>2, PingsFacts
<1>8. Len(pending) \in Nat /\ Len(w) \in Nat /\ Len(rest) \in Nat
  BY <1>2, <1>3, <1>4, LenProperties
<1> QED
  BY <1>5, <1>6, <1>7, <1>8

LEMMA ClosedSteps ==
  ASSUME ControlInv, ThreadInv, sender = "closed", keeper # "none", [Next]_vars
  PROVE  /\ sender' = "closed"
         /\ Unread' <= Unread
         /\ KeeperStep => Unread' < Unread
<1>1. /\ Len(pending) \in Nat /\ Len(wire) \in Nat /\ Awaited \in Nat /\ Turns \in Nat
      /\ wire \in Seq(Parts) /\ pending \in Seq(Parts)
  BY UnreadTyped
<1>2. sender' = "closed"
  <2>1. CASE OwnerStep
    BY <2>1 DEF OwnerStep, Connect, OpenSink, Loop, TakeArrival, Drained, FillPops, FillEnds,
      Write, Drop, Leak, Join, control
  <2>2. CASE KeeperStep
    BY <2>2 DEF KeeperStep, TakeLine, ReadChunk, ReadIdle, ReadEnds, KeeperTurn, KeeperEnds,
      control
  <2>3. CASE ~OwnerStep /\ ~KeeperStep
    BY <2>3 DEF Next, Arrive, ReceiveNothing, ReceiverTurn, SenderStep, SenderStops, Tick, Rest,
      Reap, HearGoodbye, NeverCame, Close, control, vars
  <2> QED
    BY <2>1, <2>2, <2>3
<1>3. CASE TakeLine
  <2>1. Len(pending') \in Nat /\ Len(pending) = Len(pending') + 2
    BY <1>3, LineShortens
  <2>2. /\ wire' = wire /\ Awaited' = Awaited
        /\ Turns = 2 /\ Turns' \in {1, 3}
    BY <1>3 DEF TakeLine, Awaited, Turns
  <2>3. Unread' < Unread
    BY <1>1, <2>1, <2>2 DEF Unread
  <2> QED
    BY <1>1, <1>2, <2>1, <2>2, <2>3 DEF Unread
<1>4. CASE ReadChunk
  <2>1. /\ pending' = pending \o wire /\ wire # <<>> /\ wire' = <<>>
        /\ Awaited' = Awaited /\ Turns' = Turns
    BY <1>4 DEF ReadChunk, Awaited, Turns, threads
  <2>2. Len(pending') = Len(pending) + Len(wire) /\ Len(wire) > 0 /\ Len(wire') = 0
    BY <1>1, <2>1, Concat, EmptySeq, LenProperties
  <2>3. Unread' < Unread
    BY <1>1, <2>1, <2>2 DEF Unread
  <2> QED
    BY <1>1, <1>2, <2>1, <2>2, <2>3 DEF Unread
<1>5. CASE ReadIdle \/ ReadEnds \/ KeeperTurn \/ KeeperEnds
  <2>1. UNCHANGED <<pending, wire, halfway>> /\ ~ReadIdle
    BY <1>5 DEF ReadIdle, ReadEnds, KeeperTurn, KeeperEnds, KeptWhenIdle, control
  <2>2. Turns' \in Nat /\ Turns' < Turns
    BY <1>5, <2>1 DEF ReadEnds, KeeperTurn, KeeperEnds, Turns
  <2>3. Unread' < Unread
    BY <1>1, <2>1, <2>2 DEF Unread, Awaited
  <2> QED
    BY <1>1, <1>2, <2>1, <2>2, <2>3 DEF Unread, Awaited
<1>6. CASE Rest
  <2>1. /\ halfway /\ ~halfway' /\ wire' = Append(wire, "tail")
        /\ pending' = pending /\ keeper' = keeper /\ ~KeeperStep
    BY <1>6 DEF Rest, threads, KeeperStep, TakeLine, ReadChunk, ReadIdle, ReadEnds, KeeperTurn,
      KeeperEnds, control
  <2>2. Len(wire') = Len(wire) + 1 /\ Turns' = Turns /\ Awaited = 1 /\ Awaited' = 0
    BY <1>1, <2>1 DEF Turns, Awaited, Parts
  <2>3. Unread' <= Unread
    BY <1>1, <2>1, <2>2 DEF Unread
  <2> QED
    BY <1>2, <2>1, <2>3
<1>7. CASE ~KeeperStep /\ ~Rest
  <2>1. UNCHANGED <<keeper, pending, wire, halfway>>
    <3>1. CASE OwnerStep
      BY <3>1 DEF OwnerStep, Connect, OpenSink, Loop, TakeArrival, Drained, FillPops, FillEnds,
        Write, Drop, Leak, Join, control, threads, ThreadInv, Together
    <3>2. CASE ~OwnerStep
      BY <1>7, <3>2 DEF Next, Arrive, ReceiveNothing, ReceiverTurn, SenderStep, SenderStops,
        Tick, Reap, HearGoodbye, NeverCame, Close, control, threads, vars
    <3> QED
      BY <3>1, <3>2
  <2>2. Turns' = Turns /\ Awaited' = Awaited
    BY <2>1 DEF Turns, Awaited
  <2>3. Unread' <= Unread
    BY <1>1, <2>1, <2>2 DEF Unread
  <2> QED
    BY <1>2, <1>7, <2>3
<1> QED
  BY <1>3, <1>4, <1>5, <1>6, <1>7 DEF KeeperStep

(* A sender that closes stops its client: the keeper takes what had been   *)
(* sent before the end, of which there comes no more, each of its steps    *)
(* brings that end nearer whatever the others do, and when it has read it  *)
(* the client runs no longer (session.rs, lib.rs:238-258).  From there     *)
(* StopRunsDown has it.                                                    *)
THEOREM ClosedIsHeard ==
  Spec => /\ [](Unread \in Nat /\ (keeper = "done" => ~running))
          /\ [][sender = "closed" /\ keeper # "none" =>
                   /\ sender' = "closed"
                   /\ Unread' <= Unread
                   /\ KeeperStep => Unread' < Unread]_vars
<1> DEFINE Nearer == /\ sender' = "closed"
                     /\ Unread' <= Unread
                     /\ KeeperStep => Unread' < Unread
<1>1. ClientInv => Unread \in Nat /\ (keeper = "done" => ~running)
  <2>1. ClientInv => Unread \in Nat
    BY UnreadTyped DEF ClientInv, Unread
  <2>2. ClientInv => (keeper = "done" => ~running)
    BY DEF ClientInv, ThreadInv, Together
  <2> QED
    BY <2>1, <2>2
<1>2. ClientInv /\ [Next]_vars
      => [sender = "closed" /\ keeper # "none" => Nearer]_vars
  BY ClosedSteps DEF ClientInv
<1>3. Spec => [](Unread \in Nat /\ (keeper = "done" => ~running))
  BY <1>1, ClientAlways, PTL
<1>4. Spec => [][sender = "closed" /\ keeper # "none" => Nearer]_vars
  BY <1>2, ClientAlways, PTL DEF Spec
<1> QED
  BY <1>3, <1>4, PTL
=============================================================================
