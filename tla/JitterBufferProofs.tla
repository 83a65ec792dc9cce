-------------------------- MODULE JitterBufferProofs --------------------------
(***************************************************************************)
(* The jitter buffer's invariants, for every frame length, preset, network *)
(* and bound.                                                              *)
(***************************************************************************)
EXTENDS JitterBuffer, SeqExtenderProofs, FiniteSetTheorems, WellFoundedInduction, TLAPS

(* Every number accepted since the last underrun is still buffered or its  *)
(* slot has been walked.                                                   *)
AcceptedAccounted ==
  \A a \in history.accepted : a \in DOMAIN frames \/ (playing /\ a < next)

(* The inductive invariant.                                                *)
CoreInv ==
  /\ TypeOK
  /\ NothingBehindCursor
  /\ Conservation
  /\ SlotAccounting
  /\ AcceptedAccounted

-----------------------------------------------------------------------------
(* A set of natural numbers has a least element, and Min finds it.         *)
LEMMA MinOfNaturals ==
  ASSUME NEW S, S \subseteq Nat, S # {}
  PROVE  Min(S) \in S /\ \A y \in S : Min(S) <= y
<1> DEFINE R == OpToRel(<, Nat)
<1>1. \A x \in Nat, y \in Nat : y < x => <<y, x>> \in R
  BY DEF OpToRel
<1>2. IsWellFoundedOn(R, Nat)
  BY NatLessThanWellFounded
<1> HIDE DEF R
<1>3. PICK x \in S : \A y \in S : ~(<<y, x>> \in R)
  BY <1>2, WFMin
<1>4. \A y \in S : ~(y < x)
  BY <1>1, <1>3, Zenon
<1>5. \A y \in S : x <= y
  BY <1>4
<1> QED
  BY <1>5 DEF Min

LEMMA WithFacts ==
  ASSUME NEW f, IsFiniteSet(DOMAIN f), NEW key, NEW p
  PROVE  /\ DOMAIN With(f, key, p) = DOMAIN f \cup {key}
         /\ IsFiniteSet(DOMAIN With(f, key, p))
         /\ Cardinality(DOMAIN With(f, key, p)) =
              IF key \in DOMAIN f THEN Cardinality(DOMAIN f) ELSE Cardinality(DOMAIN f) + 1
         /\ \A k \in DOMAIN With(f, key, p) :
              With(f, key, p)[k] = IF k = key THEN p ELSE f[k]
  BY FS_AddElement DEF With

LEMMA WithoutFacts ==
  ASSUME NEW f, IsFiniteSet(DOMAIN f), NEW key
  PROVE  /\ DOMAIN Without(f, key) = DOMAIN f \ {key}
         /\ IsFiniteSet(DOMAIN Without(f, key))
         /\ Cardinality(DOMAIN Without(f, key)) =
              IF key \in DOMAIN f THEN Cardinality(DOMAIN f) - 1 ELSE Cardinality(DOMAIN f)
         /\ \A k \in DOMAIN Without(f, key) : Without(f, key)[k] = f[k]
  BY FS_RemoveElement DEF Without, Restrict

LEMMA WithoutType ==
  ASSUME NEW f, DOMAIN f \subseteq Nat, f \in [DOMAIN f -> Nat], NEW key
  PROVE  Without(f, key) \in [DOMAIN Without(f, key) -> Nat]
  BY DEF Without, Restrict

LEMMA DepthType ==
  ASSUME NEW f, IsFiniteSet(DOMAIN f)
  PROVE  Depth(f) \in Nat /\ (DOMAIN f = {} => Depth(f) = 0)
<1>1. Cardinality(DOMAIN f) \in Nat
  BY FS_CardinalityType
<1>2. DOMAIN f = {} => Cardinality(DOMAIN f) = 0
  BY FS_EmptySet
<1> QED
  BY <1>1, <1>2, JitterAssumption DEF Depth

LEMMA BumpedFacts ==
  ASSUME stats \in [Counters -> Nat], NEW names
  PROVE  /\ Bumped(names) \in [Counters -> Nat]
         /\ \A c \in Counters :
              Bumped(names)[c] = IF c \in names THEN stats[c] + 1 ELSE stats[c]
  BY DEF Bumped

-----------------------------------------------------------------------------
(* Playback starts with frames buffered.                                   *)
LEMMA StartsDeep ==
  ASSUME TypeOK, Ready, ~playing
  PROVE  DOMAIN frames # {}
<1>1. target \in Nat /\ IsFiniteSet(DOMAIN frames)
  BY JitterAssumption DEF TypeOK
<1>2. Depth(frames) >= target + FrameMs
  BY DEF Ready
<1>3. Depth(frames) # 0
  BY <1>1, <1>2, JitterAssumption
<1> QED
  BY <1>1, <1>3, DepthType, Zenon

(* What a pop looks at: the slot, and the frames left once it has shed.    *)
LEMMA SlotFacts ==
  ASSUME TypeOK, NothingBehindCursor, Ready
  PROVE  /\ Cursor \in Nat /\ Slot \in Nat
         /\ playing => Cursor = next
         /\ \A k \in DOMAIN frames : k >= Cursor
         /\ DOMAIN Held \subseteq DOMAIN frames
         /\ Held \in [DOMAIN Held -> Nat]
         /\ IsFiniteSet(DOMAIN Held)
         /\ \A k \in DOMAIN Held : k >= Slot /\ Held[k] = frames[k]
         /\ \A k \in DOMAIN frames : k \in DOMAIN Held \/ k < Slot
         /\ Cardinality(DOMAIN Held) + (Slot - Cursor) = Cardinality(DOMAIN frames)
         /\ (Sheds => Slot = Cursor + 1) /\ (~Sheds => Slot = Cursor)
<1>t. /\ frames \in [DOMAIN frames -> Nat] /\ DOMAIN frames \subseteq Nat
      /\ IsFiniteSet(DOMAIN frames)
      /\ target \in Nat
      /\ playing => next \in Nat
  BY JitterAssumption DEF TypeOK, Counters, NothingBehindCursor, None
<1>0. Cardinality(DOMAIN frames) \in Nat
  BY <1>t, FS_CardinalityType
<1>1. ~playing => DOMAIN frames # {}
  BY StartsDeep
<1>2. Cursor \in Nat /\ (playing => Cursor = next) /\ \A k \in DOMAIN frames : k >= Cursor
  <2>1. CASE playing
    BY <1>t, <2>1 DEF Cursor, NothingBehindCursor
  <2>2. CASE ~playing
    BY <1>t, <1>1, <2>2, MinOfNaturals DEF Cursor
  <2> QED
    BY <2>1, <2>2
<1>3. CASE Sheds
  <2>1. Held = Without(frames, Cursor) /\ Slot = Cursor + 1
        /\ Cursor \in DOMAIN frames
    BY <1>3 DEF Held, Slot, Sheds
  <2>2. /\ DOMAIN Held = DOMAIN frames \ {Cursor}
        /\ IsFiniteSet(DOMAIN Held)
        /\ Cardinality(DOMAIN Held) = Cardinality(DOMAIN frames) - 1
        /\ \A k \in DOMAIN Held : Held[k] = frames[k]
    BY <1>t, <2>1, WithoutFacts
  <2>3. Held \in [DOMAIN Held -> Nat]
    BY <1>t, <2>1, WithoutType
  <2>4. \A k \in DOMAIN frames : k \in Nat /\ (k = Cursor \/ k >= Cursor + 1)
    BY <1>t, <1>2
  <2> QED
    BY <1>0, <1>2, <1>3, <2>1, <2>2, <2>3, <2>4
<1>4. CASE ~Sheds
  <2>1. Held = frames /\ Slot = Cursor
    BY <1>4 DEF Held, Slot
  <2> QED
    BY <1>t, <1>0, <1>2, <1>4, <2>1
<1> QED
  BY <1>3, <1>4

-----------------------------------------------------------------------------
LEMMA CoreInit == Init => CoreInv
<1> SUFFICES ASSUME Init PROVE CoreInv
  OBVIOUS
<1> USE DEF Init
<1>1. DOMAIN frames = {}
  BY DEF Empty
<1>2. TypeOK
  <2>1. frames \in [DOMAIN frames -> Nat] /\ IsFiniteSet(DOMAIN frames)
    BY <1>1, FS_EmptySet DEF Empty
  <2>2. ext \in Extender
    BY ModulusAssumption DEF FreshExtender, Extender, WireNumber
  <2>3. target \in MinTarget .. MaxTarget
    BY JitterAssumption
  <2>4. history \in History
    BY DEF History, None
  <2>5. /\ burst \in [current : Nat, longest : Nat]
        /\ timers \in [clean : Nat, burst : Nat, overfull : Nat]
        /\ network \in [first : Nat \cup {None}, newest : Nat \cup {None}]
        /\ now \in Nat /\ next = None /\ playing \in BOOLEAN /\ shedding \in BOOLEAN
    OBVIOUS
  <2>6. stats \in [Counters -> Nat]
    BY DEF Counters
  <2> HIDE DEF Init
  <2> QED
    BY <1>1, <2>1, <2>2, <2>3, <2>4, <2>5, <2>6 DEF TypeOK
<1>3. NothingBehindCursor /\ SlotAccounting /\ AcceptedAccounted
  BY <1>1 DEF NothingBehindCursor, SlotAccounting, AcceptedAccounted
<1>4. Conservation
  BY <1>1, FS_EmptySet DEF Conservation, Counters
<1> QED
  BY <1>2, <1>3, <1>4 DEF CoreInv

(* Delivery keeps the extender and the record of the network well typed.   *)
LEMMA DeliverType ==
  ASSUME TypeOK, NEW n \in Numbers, Deliver(n)
  PROVE  /\ n \in Nat /\ Peek(ext, Wire(n)) \in Nat
         /\ ext' \in Extender
         /\ network' \in [first : Nat \cup {None}, newest : Nat \cup {None}]
<1>1. n \in Nat
  BY JitterAssumption
<1>2. Wire(n) \in WireNumber
  BY <1>1, WireType
<1>3. Peek(ext, Wire(n)) \in Nat /\ ext' \in Extender
  BY <1>2, ExtenderType DEF TypeOK, Deliver
<1>4. network' \in [first : Nat \cup {None}, newest : Nat \cup {None}]
  BY <1>1 DEF TypeOK, Deliver, Larger
<1> QED
  BY <1>1, <1>3, <1>4

LEMMA InsertLatePreserves ==
  ASSUME CoreInv, NEW n \in Numbers, InsertLate(n)
  PROVE  CoreInv'
<1> USE DEF CoreInv, InsertLate
<1>0. /\ stats \in [Counters -> Nat]
      /\ stats' \in [Counters -> Nat]
      /\ stats'.received = stats.received + 1 /\ stats'.late = stats.late + 1
      /\ \A c \in Counters \ {"received", "late"} : stats'[c] = stats[c]
  BY BumpedFacts DEF TypeOK, Counters
<1>1. TypeOK'
  <2>1. ext' \in Extender /\ network' \in [first : Nat \cup {None}, newest : Nat \cup {None}]
    BY DeliverType
  <2> QED
    BY <1>0, <2>1 DEF TypeOK
<1>2. NothingBehindCursor' /\ AcceptedAccounted'
  BY DEF NothingBehindCursor, AcceptedAccounted
<1>3. SlotAccounting'
  BY <1>0 DEF SlotAccounting, Slots, Counters
<1>4. Conservation'
  <2>1. Cardinality(DOMAIN frames) \in Nat /\ history.decoded \in Nat
    BY FS_CardinalityType DEF TypeOK, History
  <2> QED
    BY <1>0, <2>1 DEF Conservation, Counters
<1> QED
  BY <1>1, <1>2, <1>3, <1>4

LEMMA RetargetType ==
  ASSUME TypeOK, NEW demand \in JitterDemands, Retarget(demand)
  PROVE  /\ target' \in MinTarget .. MaxTarget
         /\ burst' \in [current : Nat, longest : Nat]
         /\ timers' \in [clean : Nat, burst : Nat, overfull : Nat]
         /\ shedding' \in BOOLEAN
<1>t. /\ target \in MinTarget .. MaxTarget /\ target \in Nat
      /\ burst.current \in Nat /\ burst.longest \in Nat
      /\ timers.clean \in Nat /\ timers.burst \in Nat /\ timers.overfull \in Nat
      /\ now \in Nat /\ demand \in Nat
  BY JitterAssumption DEF TypeOK
<1>1. Wanted(demand) \in MinTarget .. MaxTarget
  <2>1. (burst.longest + 2) * FrameMs \in Int /\ demand + FrameMs \in Int
    BY <1>t, JitterAssumption
  <2>2. Larger(demand + FrameMs, (burst.longest + 2) * FrameMs) \in Int
    BY <2>1 DEF Larger
  <2>3. ASSUME NEW ms \in Int PROVE Clamp(ms) \in MinTarget .. MaxTarget
    BY JitterAssumption DEF Clamp, Larger, Smaller
  <2> QED
    BY <2>2, <2>3 DEF Wanted
<1>2. ASSUME NEW w \in MinTarget .. MaxTarget, w <= target
      PROVE  Shrunk(w) \in MinTarget .. MaxTarget
  <2> DEFINE floor == Larger(w, MinTarget)
             step  == Larger(Monus(target, floor) \div ShrinkDivisor, ShrinkFloor)
  <2>1. floor = w
    BY JitterAssumption DEF Larger
  <2>2. Monus(target, floor) \in Nat
    BY <1>t, <2>1, JitterAssumption DEF Monus
  <2>3. Monus(target, floor) \div ShrinkDivisor \in Nat
    BY <2>2, JitterAssumption
  <2>4. step \in Nat
    BY <2>3, JitterAssumption DEF Larger
  <2> HIDE DEF floor, step
  <2>5. Larger(Monus(target, step), floor) \in w .. target
    BY <1>t, <1>2, <2>1, <2>4, JitterAssumption DEF Larger, Monus
  <2>6. Shrunk(w) = Larger(Monus(target, step), floor)
    BY DEF Shrunk, floor, step
  <2> QED
    BY <1>t, <1>2, <2>5, <2>6, JitterAssumption
<1>3. target' \in MinTarget .. MaxTarget
  BY <1>t, <1>1, <1>2, JitterAssumption DEF Retarget
<1>4. burst' \in [current : Nat, longest : Nat]
  BY <1>t DEF Retarget, TypeOK, Monus
<1>5. timers' \in [clean : Nat, burst : Nat, overfull : Nat]
  <2>1. OverfullSince(frames') \in Nat
    BY <1>t DEF OverfullSince
  <2> QED
    BY <1>t, <2>1 DEF Retarget
<1>6. shedding' \in BOOLEAN
  BY Zenon DEF Retarget, TypeOK
<1> QED
  BY <1>3, <1>4, <1>5, <1>6

LEMMA InsertFramePreserves ==
  ASSUME CoreInv, NEW n \in Numbers, NEW demand \in JitterDemands, InsertFrame(n, demand)
  PROVE  CoreInv'
<1> DEFINE key == Peek(ext, Wire(n))
<1>a. /\ TypeOK /\ NothingBehindCursor /\ Conservation /\ SlotAccounting /\ AcceptedAccounted
      /\ Deliver(n) /\ ~Late(n) /\ Retarget(demand)
      /\ frames' = With(frames, key, n)
      /\ stats' = Bumped({"received"} \cup
                         IF key \in DOMAIN frames THEN {"duplicates"} ELSE {})
      /\ history' = [history EXCEPT !.accepted = @ \cup {key}]
      /\ next' = next /\ playing' = playing /\ now' = now
  BY DEF CoreInv, InsertFrame
<1>b. /\ n \in Nat /\ key \in Nat /\ ext' \in Extender
      /\ network' \in [first : Nat \cup {None}, newest : Nat \cup {None}]
  BY <1>a, DeliverType
<1> HIDE DEF key
<1>c. /\ frames \in [DOMAIN frames -> Nat] /\ DOMAIN frames \subseteq Nat
      /\ IsFiniteSet(DOMAIN frames) /\ Cardinality(DOMAIN frames) \in Nat
      /\ history \in History /\ stats \in [Counters -> Nat]
  BY <1>a, FS_CardinalityType DEF TypeOK
<1>d. /\ DOMAIN frames' = DOMAIN frames \cup {key}
      /\ IsFiniteSet(DOMAIN frames')
      /\ Cardinality(DOMAIN frames') =
           IF key \in DOMAIN frames THEN Cardinality(DOMAIN frames)
                                    ELSE Cardinality(DOMAIN frames) + 1
  BY <1>a, <1>c, WithFacts
<1>e. /\ stats' \in [Counters -> Nat]
      /\ stats'.received = stats.received + 1
      /\ stats'.duplicates = IF key \in DOMAIN frames THEN stats.duplicates + 1
                                                     ELSE stats.duplicates
      /\ \A c \in Counters \ {"received", "duplicates"} : stats'[c] = stats[c]
  BY <1>a, <1>c, BumpedFacts DEF Counters
<1>f. /\ history' \in History /\ history'.accepted = history.accepted \cup {key}
      /\ history'.decoded = history.decoded /\ history'.origin = history.origin
      /\ history.decoded \in Nat
  BY <1>a, <1>b, <1>c DEF History
<1>1. TypeOK'
  <2>1. frames' \in [DOMAIN frames' -> Nat]
    BY <1>a, <1>b, <1>c DEF With
  <2>2. /\ target' \in MinTarget .. MaxTarget
        /\ burst' \in [current : Nat, longest : Nat]
        /\ timers' \in [clean : Nat, burst : Nat, overfull : Nat]
        /\ shedding' \in BOOLEAN
    BY <1>a, RetargetType
  <2>3. /\ next' \in Nat \cup {None} /\ playing' \in BOOLEAN /\ now' \in Nat
    BY <1>a DEF TypeOK
  <2> QED
    BY <1>b, <1>c, <1>d, <1>e, <1>f, <2>1, <2>2, <2>3 DEF TypeOK
<1>2. NothingBehindCursor'
  <2>1. playing => key >= next
    BY <1>a, <1>b DEF Late, NothingBehindCursor, TypeOK, None, key
  <2> QED
    BY <1>a, <1>d, <2>1 DEF NothingBehindCursor
<1>3. Conservation'
  <2>1. /\ stats.late \in Nat /\ stats.duplicates \in Nat /\ stats.dropped \in Nat
        /\ stats'.late = stats.late /\ stats'.dropped = stats.dropped
    BY <1>c, <1>e DEF Counters
  <2>2. CASE key \in DOMAIN frames
    BY <1>a, <1>c, <1>d, <1>e, <1>f, <2>1, <2>2 DEF Conservation
  <2>3. CASE key \notin DOMAIN frames
    BY <1>a, <1>c, <1>d, <1>e, <1>f, <2>1, <2>3 DEF Conservation
  <2> QED
    BY <2>2, <2>3
<1>4. SlotAccounting'
  BY <1>a, <1>e, <1>f DEF SlotAccounting, Slots, Counters
<1>5. AcceptedAccounted'
  BY <1>a, <1>d, <1>f DEF AcceptedAccounted
<1> QED
  BY <1>1, <1>2, <1>3, <1>4, <1>5 DEF CoreInv

-----------------------------------------------------------------------------
(* What a pop that counts the frames it sheds, and names besides, counts.  *)
LEMMA PopCounts ==
  ASSUME TypeOK, NothingBehindCursor, Ready,
         NEW names, "dropped" \notin names, stats' = Bumped(Dropped \cup names)
  PROVE  /\ stats' \in [Counters -> Nat]
         /\ stats'.dropped = stats.dropped + (Slot - Cursor)
         /\ \A c \in Counters \ {"dropped"} :
              stats'[c] = IF c \in names THEN stats[c] + 1 ELSE stats[c]
<1>1. /\ stats \in [Counters -> Nat]
      /\ Cursor \in Nat /\ Slot \in Nat
      /\ (Sheds => Slot = Cursor + 1) /\ (~Sheds => Slot = Cursor)
  BY SlotFacts DEF TypeOK
<1>2. /\ stats' \in [Counters -> Nat]
      /\ \A c \in Counters : stats'[c] = IF c \in Dropped \cup names THEN stats[c] + 1
                                                                     ELSE stats[c]
  BY <1>1, BumpedFacts
<1>3. CASE Sheds
  BY <1>1, <1>2, <1>3 DEF Dropped, Counters
<1>4. CASE ~Sheds
  BY <1>1, <1>2, <1>4 DEF Dropped, Counters
<1> QED
  BY <1>3, <1>4

(* At the start of a pop the cursor is where the period began plus the     *)
(* slots walked, whether the period is running or starts now.              *)
LEMMA OriginFacts ==
  ASSUME TypeOK, NothingBehindCursor, SlotAccounting, Ready
  PROVE  Origin \in Int /\ Slots \in Nat /\ Origin + Slots = Cursor
<1>1. /\ history.decoded \in Nat /\ history.origin \in Int
      /\ stats.dropped \in Nat /\ stats.lost \in Nat
  BY DEF TypeOK, History, Counters
<1>2. Cursor \in Nat /\ (playing => Cursor = next)
  BY SlotFacts
<1>3. Slots \in Nat
  BY <1>1 DEF Slots
<1> QED
  BY <1>1, <1>2, <1>3 DEF Origin, SlotAccounting

LEMMA PopTimers ==
  ASSUME TypeOK
  PROVE  /\ StillShedding \in BOOLEAN /\ OverfullAfter \in Nat
         /\ timers.clean \in Nat /\ timers.burst \in Nat
         /\ burst.current \in Nat /\ burst.longest \in Nat
<1>1. timers.overfull \in Nat
  BY DEF TypeOK
<1> QED
  BY <1>1 DEF TypeOK, StillShedding, OverfullAfter

LEMMA PopDecodePreserves ==
  ASSUME CoreInv, PopDecode
  PROVE  CoreInv'
<1>a. /\ TypeOK /\ NothingBehindCursor /\ Conservation /\ SlotAccounting /\ AcceptedAccounted
      /\ Ready /\ Slot \in DOMAIN Held
      /\ shedding' = StillShedding
      /\ timers' = [timers EXCEPT !.overfull = OverfullAfter]
      /\ frames' = Without(Held, Slot)
      /\ playing' = TRUE /\ next' = Slot + 1
      /\ burst' = [burst EXCEPT !.current = 0]
      /\ stats' = Bumped(Dropped \cup {})
      /\ history' = [decoded  |-> history.decoded + 1,
                     last     |-> Held[Slot],
                     played   |-> history.played \cup {Held[Slot]},
                     accepted |-> history.accepted,
                     origin   |-> Origin]
      /\ ext' = ext /\ target' = target /\ now' = now /\ network' = network
  BY DEF CoreInv, PopDecode
<1>b. /\ Cursor \in Nat /\ Slot \in Nat /\ Slot >= Cursor
      /\ playing => Cursor = next
      /\ DOMAIN Held \subseteq DOMAIN frames
      /\ Held \in [DOMAIN Held -> Nat]
      /\ IsFiniteSet(DOMAIN Held)
      /\ \A k \in DOMAIN Held : k >= Slot
      /\ \A k \in DOMAIN frames : k \in DOMAIN Held \/ k < Slot
      /\ Cardinality(DOMAIN Held) + (Slot - Cursor) = Cardinality(DOMAIN frames)
  BY <1>a, SlotFacts
<1>c. /\ stats' \in [Counters -> Nat]
      /\ stats'.dropped = stats.dropped + (Slot - Cursor)
      /\ \A c \in Counters \ {"dropped"} : stats'[c] = stats[c]
  <2> DEFINE names == {}
  <2>1. "dropped" \notin names /\ stats' = Bumped(Dropped \cup names)
    BY <1>a
  <2>2. \A c : c \notin names
    OBVIOUS
  <2> HIDE DEF names
  <2> QED
    BY <1>a, <2>1, <2>2, PopCounts
<1>d. Origin \in Int /\ Slots \in Nat /\ Origin + Slots = Cursor
  BY <1>a, OriginFacts
<1>e. /\ DOMAIN frames \subseteq Nat /\ history \in History /\ history.accepted \subseteq Nat
      /\ history.decoded \in Nat /\ history.played \subseteq Nat
      /\ stats \in [Counters -> Nat]
      /\ Cardinality(DOMAIN Held) \in Nat
      /\ playing => next \in Nat
  BY <1>a, <1>b, FS_CardinalityType DEF TypeOK, History, NothingBehindCursor
<1>f. DOMAIN Held \subseteq Nat
  BY <1>b, <1>e
<1>g. /\ DOMAIN frames' = DOMAIN Held \ {Slot}
      /\ IsFiniteSet(DOMAIN frames')
      /\ Cardinality(DOMAIN frames') = Cardinality(DOMAIN Held) - 1
      /\ frames' \in [DOMAIN frames' -> Nat]
  BY <1>a, <1>b, <1>f, WithoutFacts, WithoutType
<1>1. TypeOK'
  <2>1. history' \in History
    BY <1>a, <1>b, <1>d, <1>e DEF History
  <2>2. /\ timers' \in [clean : Nat, burst : Nat, overfull : Nat]
        /\ burst' \in [current : Nat, longest : Nat]
        /\ shedding' \in BOOLEAN
    BY <1>a, PopTimers DEF TypeOK
  <2> QED
    BY <1>a, <1>b, <1>c, <1>f, <1>g, <2>1, <2>2 DEF TypeOK
<1>2. NothingBehindCursor'
  BY <1>a, <1>b, <1>f, <1>g DEF NothingBehindCursor, None
<1>h. /\ stats.late \in Nat /\ stats.duplicates \in Nat /\ stats.dropped \in Nat
      /\ stats.received \in Nat /\ stats.lost \in Nat
      /\ stats'.late = stats.late /\ stats'.duplicates = stats.duplicates
      /\ stats'.received = stats.received /\ stats'.lost = stats.lost
  BY <1>c, <1>e DEF Counters
<1>i. history'.decoded = history.decoded + 1 /\ history'.origin = Origin
      /\ history'.accepted = history.accepted
  BY <1>a
<1>3. Conservation'
  BY <1>a, <1>b, <1>c, <1>e, <1>g, <1>h, <1>i DEF Conservation
<1>4. SlotAccounting'
  BY <1>a, <1>b, <1>c, <1>d, <1>e, <1>h, <1>i DEF SlotAccounting, Slots
<1>5. AcceptedAccounted'
  BY <1>a, <1>b, <1>e, <1>f, <1>g, <1>i DEF AcceptedAccounted
<1> QED
  BY <1>1, <1>2, <1>3, <1>4, <1>5 DEF CoreInv

LEMMA PopGapPreserves ==
  ASSUME CoreInv, PopGap
  PROVE  CoreInv'
<1> DEFINE outcome == IF Slot + 1 \in DOMAIN Held THEN "recovered" ELSE "concealed"
<1>a. /\ TypeOK /\ NothingBehindCursor /\ Conservation /\ SlotAccounting /\ AcceptedAccounted
      /\ Ready /\ Slot \notin DOMAIN Held
      /\ shedding' = StillShedding
      /\ timers' = [timers EXCEPT !.overfull = OverfullAfter]
      /\ frames' = Held
      /\ playing' = TRUE /\ next' = Slot + 1
      /\ burst' = [current |-> burst.current + 1,
                   longest |-> Larger(burst.longest, burst.current + 1)]
      /\ stats' = Bumped(Dropped \cup {"lost", outcome})
      /\ history' = [history EXCEPT !.origin = Origin]
      /\ ext' = ext /\ target' = target /\ now' = now /\ network' = network
  BY DEF CoreInv, PopGap
<1>0. outcome \in {"recovered", "concealed"}
  OBVIOUS
<1> HIDE DEF outcome
<1>b. /\ Cursor \in Nat /\ Slot \in Nat /\ Slot >= Cursor
      /\ playing => Cursor = next
      /\ DOMAIN Held \subseteq DOMAIN frames
      /\ Held \in [DOMAIN Held -> Nat]
      /\ IsFiniteSet(DOMAIN Held)
      /\ \A k \in DOMAIN Held : k >= Slot
      /\ \A k \in DOMAIN frames : k \in DOMAIN Held \/ k < Slot
      /\ Cardinality(DOMAIN Held) + (Slot - Cursor) = Cardinality(DOMAIN frames)
  BY <1>a, SlotFacts
<1>c. /\ stats' \in [Counters -> Nat]
      /\ stats'.dropped = stats.dropped + (Slot - Cursor)
      /\ \A c \in Counters \ {"dropped"} :
           stats'[c] = IF c \in {"lost", outcome} THEN stats[c] + 1 ELSE stats[c]
  <2> DEFINE names == {"lost", outcome}
  <2>1. "dropped" \notin names /\ stats' = Bumped(Dropped \cup names)
    BY <1>a, <1>0
  <2> HIDE DEF names
  <2>2. /\ stats' \in [Counters -> Nat]
        /\ stats'.dropped = stats.dropped + (Slot - Cursor)
        /\ \A c \in Counters \ {"dropped"} :
             stats'[c] = IF c \in names THEN stats[c] + 1 ELSE stats[c]
    BY <1>a, <2>1, PopCounts
  <2> QED
    BY <2>2 DEF names
<1>d. Origin \in Int /\ Slots \in Nat /\ Origin + Slots = Cursor
  BY <1>a, OriginFacts
<1>e. /\ DOMAIN frames \subseteq Nat /\ history \in History /\ history.accepted \subseteq Nat
      /\ history.decoded \in Nat
      /\ stats \in [Counters -> Nat]
      /\ Cardinality(DOMAIN Held) \in Nat
      /\ playing => next \in Nat
  BY <1>a, <1>b, FS_CardinalityType DEF TypeOK, History, NothingBehindCursor
<1>f. DOMAIN Held \subseteq Nat
  BY <1>b, <1>e
<1>h. /\ stats.late \in Nat /\ stats.duplicates \in Nat /\ stats.dropped \in Nat
      /\ stats.received \in Nat /\ stats.lost \in Nat
      /\ stats'.late = stats.late /\ stats'.duplicates = stats.duplicates
      /\ stats'.received = stats.received /\ stats'.lost = stats.lost + 1
      /\ stats'.dropped = stats.dropped + (Slot - Cursor)
  BY <1>0, <1>c, <1>e DEF Counters
<1>i. /\ history' \in History
      /\ history'.decoded = history.decoded /\ history'.origin = Origin
      /\ history'.accepted = history.accepted
  BY <1>a, <1>d, <1>e DEF History
<1>1. TypeOK'
  <2>1. timers' \in [clean : Nat, burst : Nat, overfull : Nat] /\ shedding' \in BOOLEAN
    BY <1>a, PopTimers DEF TypeOK
  <2>2. burst' \in [current : Nat, longest : Nat]
    BY <1>a, PopTimers DEF Larger
  <2>3. /\ ext' \in Extender /\ target' \in MinTarget .. MaxTarget /\ now' \in Nat
        /\ network' \in [first : Nat \cup {None}, newest : Nat \cup {None}]
    BY <1>a DEF TypeOK
  <2>4. frames' = Held /\ next' \in Nat /\ playing' \in BOOLEAN
    BY <1>a, <1>b
  <2> QED
    BY <1>b, <1>c, <1>f, <1>i, <2>1, <2>2, <2>3, <2>4 DEF TypeOK
<1>2. NothingBehindCursor'
  <2>1. \A k \in DOMAIN Held : k >= Slot + 1
    BY <1>a, <1>b, <1>f
  <2> QED
    BY <1>a, <1>b, <2>1 DEF NothingBehindCursor, None
<1>3. Conservation'
  BY <1>a, <1>b, <1>e, <1>h, <1>i DEF Conservation
<1>4. SlotAccounting'
  BY <1>a, <1>b, <1>d, <1>e, <1>h, <1>i DEF SlotAccounting, Slots
<1>5. AcceptedAccounted'
  BY <1>a, <1>b, <1>e, <1>f, <1>i DEF AcceptedAccounted
<1> QED
  BY <1>1, <1>2, <1>3, <1>4, <1>5 DEF CoreInv

LEMMA PopUnderrunPreserves ==
  ASSUME CoreInv, PopUnderrun
  PROVE  CoreInv'
<1>a. /\ TypeOK /\ NothingBehindCursor /\ Conservation
      /\ Ready /\ DOMAIN Held = {}
      /\ shedding' = StillShedding
      /\ frames' = Held
      /\ playing' = FALSE /\ next' = None
      /\ target' = Smaller(target + 2 * FrameMs, MaxTarget)
      /\ burst' = [burst EXCEPT !.longest = @ + 1]
      /\ timers' = [clean |-> 0, burst |-> timers.burst, overfull |-> OverfullAfter]
      /\ stats' = Bumped(Dropped \cup {"underruns"})
      /\ history' = [decoded  |-> history.decoded,
                     last     |-> None,
                     played   |-> history.played,
                     accepted |-> {},
                     origin   |-> history.origin]
      /\ ext' = ext /\ now' = now /\ network' = network
  BY DEF CoreInv, PopUnderrun
<1>b. /\ Cursor \in Nat /\ Slot \in Nat
      /\ Held \in [DOMAIN Held -> Nat]
      /\ IsFiniteSet(DOMAIN Held)
      /\ Cardinality(DOMAIN Held) + (Slot - Cursor) = Cardinality(DOMAIN frames)
  BY <1>a, SlotFacts
<1>c. /\ stats' \in [Counters -> Nat]
      /\ stats'.dropped = stats.dropped + (Slot - Cursor)
      /\ \A c \in Counters \ {"dropped"} :
           stats'[c] = IF c \in {"underruns"} THEN stats[c] + 1 ELSE stats[c]
  <2>1. "dropped" \notin {"underruns"}
    OBVIOUS
  <2> QED
    BY <1>a, <2>1, PopCounts
<1>d. /\ history \in History /\ history.decoded \in Nat
      /\ stats \in [Counters -> Nat]
      /\ Cardinality(DOMAIN Held) = 0 /\ Cardinality(DOMAIN frames) \in Nat
  BY <1>a, <1>b, FS_EmptySet, FS_CardinalityType DEF TypeOK, History
<1>e. /\ stats.late \in Nat /\ stats.duplicates \in Nat /\ stats.dropped \in Nat
      /\ stats.received \in Nat
      /\ stats'.late = stats.late /\ stats'.duplicates = stats.duplicates
      /\ stats'.received = stats.received
      /\ stats'.dropped = stats.dropped + (Slot - Cursor)
  BY <1>c, <1>d DEF Counters
<1>1. TypeOK'
  <2>1. timers' \in [clean : Nat, burst : Nat, overfull : Nat] /\ shedding' \in BOOLEAN
    BY <1>a, PopTimers
  <2>2. burst' \in [current : Nat, longest : Nat]
    BY <1>a DEF TypeOK
  <2>3. target' \in MinTarget .. MaxTarget
    <3>1. target \in MinTarget .. MaxTarget
      BY <1>a DEF TypeOK
    <3>2. target' = Smaller(target + 2 * FrameMs, MaxTarget)
      BY <1>a
    <3> QED
      BY <3>1, <3>2, JitterAssumption DEF Smaller
  <2>4. /\ ext' \in Extender /\ now' \in Nat
        /\ network' \in [first : Nat \cup {None}, newest : Nat \cup {None}]
    BY <1>a DEF TypeOK
  <2>5. history' \in History
    BY <1>a, <1>d DEF History, None
  <2> QED
    BY <1>a, <1>b, <1>c, <2>1, <2>2, <2>3, <2>4, <2>5 DEF TypeOK
<1>2. NothingBehindCursor' /\ SlotAccounting' /\ AcceptedAccounted'
  BY <1>a DEF NothingBehindCursor, SlotAccounting, AcceptedAccounted
<1>3. Conservation'
  <2>1. Cardinality(DOMAIN frames) = Slot - Cursor
    BY <1>b, <1>d
  <2>2. stats.received = stats.late + stats.duplicates + history.decoded
                         + stats.dropped + Cardinality(DOMAIN frames)
    BY <1>a DEF Conservation
  <2>3. frames' = Held /\ history'.decoded = history.decoded /\ Slot \in Nat /\ Cursor \in Nat
    BY <1>a, <1>b
  <2> QED
    BY <1>d, <1>e, <2>1, <2>2, <2>3 DEF Conservation
<1> QED
  BY <1>1, <1>2, <1>3 DEF CoreInv

LEMMA TickPreserves ==
  ASSUME CoreInv, Tick \/ UNCHANGED vars
  PROVE  CoreInv'
  BY DEF Tick, vars, bufferVars, CoreInv, TypeOK, NothingBehindCursor, SlotAccounting,
         Slots, Conservation, AcceptedAccounted

LEMMA CoreStep == CoreInv /\ [Next]_vars => CoreInv'
  BY InsertLatePreserves, InsertFramePreserves, PopDecodePreserves, PopGapPreserves,
     PopUnderrunPreserves, TickPreserves DEF Next

LEMMA CoreInvariant == Spec => []CoreInv
  BY CoreInit, CoreStep, PTL DEF Spec

-----------------------------------------------------------------------------
(* Whatever the network delivers and however pops interleave with it, the  *)
(* buffer's state stays well typed: in particular the target never leaves  *)
(* the range of the latency preset.                                        *)
THEOREM TypeCorrect == Spec => []TypeOK
<1>1. CoreInv => TypeOK
  BY DEF CoreInv
<1> QED
  BY <1>1, CoreInvariant, PTL

(* No packet received is lost from the books or counted twice, and within a*)
(* period of playback every slot is walked exactly once.                   *)
THEOREM AllAccounted == Spec => []Accounting
<1>1. CoreInv => Accounting
  BY DEF CoreInv, Accounting
<1> QED
  BY <1>1, CoreInvariant, PTL

(* Nothing is ever stranded behind the cursor.                             *)
THEOREM NothingStranded == Spec => []NothingBehindCursor
<1>1. CoreInv => NothingBehindCursor
  BY DEF CoreInv
<1> QED
  BY <1>1, CoreInvariant, PTL

(* The counters a step that is no pop may move.                            *)
LEMMA OtherStepsCount ==
  ASSUME CoreInv, UNCHANGED vars \/ Tick
                  \/ (\E n \in Numbers : InsertLate(n))
                  \/ (\E n \in Numbers, demand \in JitterDemands : InsertFrame(n, demand))
  PROVE  \A c \in Counters \ {"received", "late", "duplicates"} : stats'[c] = stats[c]
<1>1. stats \in [Counters -> Nat]
  BY DEF CoreInv, TypeOK
<1>2. CASE UNCHANGED vars \/ Tick
  BY <1>2 DEF vars, bufferVars, Tick
<1>3. CASE \E n \in Numbers : InsertLate(n)
  <2>1. stats' = Bumped({"received", "late"})
    BY <1>3 DEF InsertLate
  <2> QED
    BY <1>1, <2>1, BumpedFacts
<1>4. CASE \E n \in Numbers, demand \in JitterDemands : InsertFrame(n, demand)
  <2>1. PICK n \in Numbers :
          stats' = Bumped({"received"} \cup
                   IF Peek(ext, Wire(n)) \in DOMAIN frames THEN {"duplicates"} ELSE {})
    BY <1>4 DEF InsertFrame
  <2> QED
    BY <1>1, <2>1, BumpedFacts
<1> QED
  BY <1>2, <1>3, <1>4

(* A slot is filled as a gap only if its frame was not accepted in time,   *)
(* whatever the network did and however deep the buffer was.               *)
THEOREM GenuineGaps == Spec => GapsAreGenuine
<1>1. ASSUME CoreInv, [Next]_vars, stats'.lost > stats.lost
      PROVE  next' - 1 \notin history.accepted
  <2>0. /\ TypeOK /\ NothingBehindCursor /\ AcceptedAccounted
        /\ stats \in [Counters -> Nat] /\ stats.lost \in Nat
    BY <1>1 DEF CoreInv, TypeOK, Counters
  <2>1. ASSUME PopDecode PROVE FALSE
    <3> DEFINE names == {}
    <3>1. Ready /\ "dropped" \notin names /\ "lost" \notin names
          /\ stats' = Bumped(Dropped \cup names)
      BY <2>1 DEF PopDecode
    <3> HIDE DEF names
    <3> QED
      BY <1>1, <2>0, <3>1, PopCounts DEF Counters
  <2>2. ASSUME PopUnderrun PROVE FALSE
    <3>1. /\ Ready /\ "dropped" \notin {"underruns"}
          /\ stats' = Bumped(Dropped \cup {"underruns"})
      BY <2>2 DEF PopUnderrun
    <3>2. \A c \in Counters \ {"dropped"} :
            stats'[c] = IF c \in {"underruns"} THEN stats[c] + 1 ELSE stats[c]
      BY <2>0, <3>1, PopCounts
    <3> QED
      BY <1>1, <2>0, <3>2 DEF Counters
  <2>3. PopGap
    <3>1. stats'.lost # stats.lost
      BY <1>1, <2>0
    <3> QED
      BY <1>1, <2>1, <2>2, <3>1, OtherStepsCount DEF Next, Counters
  <2>4. Ready /\ Slot \notin DOMAIN Held /\ next' = Slot + 1
    BY <2>3 DEF PopGap
  <2>5. /\ Slot \in Nat /\ Cursor \in Nat /\ Slot >= Cursor
        /\ playing => Cursor = next
        /\ \A k \in DOMAIN frames : k \in DOMAIN Held \/ k < Slot
    BY <2>0, <2>4, SlotFacts
  <2>6. Slot \notin history.accepted
    BY <2>0, <2>4, <2>5 DEF AcceptedAccounted
  <2> QED
    BY <2>4, <2>5, <2>6
<1>2. CoreInv /\ [Next]_vars
        => [stats'.lost > stats.lost => next' - 1 \notin history.accepted]_vars
  BY <1>1
<1> QED
  BY <1>2, CoreInvariant, PTL DEF Spec, GapsAreGenuine

(* A buffer is shed only above a target that is at least one frame deep, so*)
(* that another frame is left.                                             *)
LEMMA ShedLeavesOne ==
  ASSUME CoreInv, Ready, Sheds
  PROVE  DOMAIN Held # {}
<1>1. /\ TypeOK /\ NothingBehindCursor
      /\ target >= FrameMs /\ target \in Nat
  BY JitterAssumption DEF CoreInv, TypeOK
<1>2. /\ Slot \in Nat /\ Cursor \in Nat
      /\ Cardinality(DOMAIN Held) + (Slot - Cursor) = Cardinality(DOMAIN frames)
      /\ Slot = Cursor + 1
  BY <1>1, SlotFacts
<1>3. ASSUME DOMAIN Held = {} PROVE FALSE
  <2>1. Cardinality(DOMAIN frames) = 1
    BY <1>2, <1>3, FS_EmptySet
  <2>2. Depth(frames) = FrameMs
    BY <2>1, JitterAssumption DEF Depth
  <2> QED
    BY <1>1, <2>2, JitterAssumption DEF Sheds
<1> QED
  BY <1>3

(* The pop that sheds a frame never runs the buffer dry, because a buffer  *)
(* is shed only above a target that is at least one frame deep.            *)
THEOREM SheddingSafe == Spec => SheddingNeverStarves
<1>1. ASSUME CoreInv, [Next]_vars, stats'.dropped > stats.dropped
      PROVE  stats'.underruns = stats.underruns
  <2>0. /\ TypeOK /\ NothingBehindCursor
        /\ stats \in [Counters -> Nat] /\ stats.dropped \in Nat
        /\ IsFiniteSet(DOMAIN frames)
        /\ target >= FrameMs /\ target \in Nat
    BY <1>1, JitterAssumption DEF CoreInv, TypeOK, Counters
  <2>1. CASE PopDecode
    <3> DEFINE names == {}
    <3>1. Ready /\ "dropped" \notin names /\ "underruns" \notin names
          /\ stats' = Bumped(Dropped \cup names)
      BY <2>1 DEF PopDecode
    <3> HIDE DEF names
    <3> QED
      BY <2>0, <3>1, PopCounts DEF Counters
  <2>2. CASE PopGap
    <3> DEFINE names == {"lost", IF Slot + 1 \in DOMAIN Held THEN "recovered" ELSE "concealed"}
    <3>1. Ready /\ "dropped" \notin names /\ "underruns" \notin names
          /\ stats' = Bumped(Dropped \cup names)
      BY <2>2 DEF PopGap
    <3> HIDE DEF names
    <3> QED
      BY <2>0, <3>1, PopCounts DEF Counters
  <2>3. ASSUME PopUnderrun PROVE FALSE
    <3>1. /\ Ready /\ DOMAIN Held = {} /\ "dropped" \notin {"underruns"}
          /\ stats' = Bumped(Dropped \cup {"underruns"})
      BY <2>3 DEF PopUnderrun
    <3>2. /\ Slot \in Nat /\ Cursor \in Nat
          /\ stats'.dropped = stats.dropped + (Slot - Cursor)
          /\ (Sheds => Slot = Cursor + 1) /\ (~Sheds => Slot = Cursor)
      BY <2>0, <3>1, PopCounts, SlotFacts
    <3>3. Sheds
      BY <1>1, <2>0, <3>2
    <3> QED
      BY <1>1, <3>1, <3>3, ShedLeavesOne
  <2>4. CASE ~(PopDecode \/ PopGap \/ PopUnderrun)
    BY <1>1, <2>4, OtherStepsCount DEF Next, Counters
  <2> QED
    BY <2>1, <2>2, <2>3, <2>4
<1>2. CoreInv /\ [Next]_vars
        => [stats'.dropped > stats.dropped => stats'.underruns = stats.underruns]_vars
  BY <1>1
<1> QED
  BY <1>2, CoreInvariant, PTL DEF Spec, SheddingNeverStarves

-----------------------------------------------------------------------------
(* How many turns of a playing buffer it takes at most to reach slot k.    *)
TurnsTo(k) == k - next + 1

(* The turn there is to take, whatever is buffered.                        *)
TurnDue ==
  \/ Ready /\ Slot \in DOMAIN Held
  \/ Ready /\ Slot \notin DOMAIN Held /\ DOMAIN Held # {}
  \/ Ready /\ DOMAIN Held = {}

(* What waits in a playing buffer is a turn nearer after every turn, or    *)
(* gone, and no arrival and no time that passes puts it off: a frame waits *)
(* for as many turns as there are slots up to its own, however many of     *)
(* those are gaps (pop, jitter.rs).  With turns that are taken sooner or   *)
(* later that is why BufferedFramesLeave holds.                            *)
THEOREM EveryTurnIsNearer ==
  Spec => /\ [](playing => TurnDue /\ \A k \in DOMAIN frames : TurnsTo(k) \in Nat \ {0})
          /\ [][\A k \in DOMAIN frames :
                  playing =>
                    \/ k \notin DOMAIN frames'
                    \/ /\ playing' /\ TurnsTo(k)' <= TurnsTo(k)
                       /\ Pop => TurnsTo(k)' < TurnsTo(k)]_vars
<1> DEFINE Nearer(k) == \/ k \notin DOMAIN frames'
                        \/ /\ playing' /\ TurnsTo(k)' <= TurnsTo(k)
                           /\ Pop => TurnsTo(k)' < TurnsTo(k)
<1>1. ASSUME CoreInv, playing
      PROVE  TurnDue /\ \A k \in DOMAIN frames : TurnsTo(k) \in Nat \ {0}
  <2>1. TurnDue
    BY <1>1 DEF TurnDue, Ready
  <2>2. next \in Nat /\ DOMAIN frames \subseteq Nat /\ \A k \in DOMAIN frames : k >= next
    BY <1>1 DEF CoreInv, TypeOK, NothingBehindCursor, None
  <2> QED
    BY <2>1, <2>2 DEF TurnsTo
<1>2. ASSUME CoreInv, [Next]_vars, NEW k \in DOMAIN frames, playing
      PROVE  Nearer(k)
  <2>0. /\ TypeOK /\ NothingBehindCursor /\ Ready
        /\ next \in Nat /\ k \in Nat /\ k >= next
    BY <1>2 DEF CoreInv, TypeOK, NothingBehindCursor, None, Ready
  <2>1. /\ Slot \in Nat /\ Cursor \in Nat /\ Slot >= Cursor /\ Cursor = next
    BY <2>0, <1>2, SlotFacts
  <2>2. CASE PopDecode \/ PopGap
    <3>1. playing' /\ next' = Slot + 1
      BY <2>2 DEF PopDecode, PopGap
    <3> QED
      BY <2>0, <2>1, <3>1 DEF TurnsTo
  <2>3. CASE PopUnderrun
    BY <2>3 DEF PopUnderrun
  <2>4. CASE UNCHANGED <<next, playing>> /\ ~Pop
    BY <1>2, <2>0, <2>4 DEF TurnsTo
  <2>5. \/ UNCHANGED <<next, playing>> /\ ~Pop
        \/ PopDecode \/ PopGap \/ PopUnderrun
    BY <1>2 DEF Next, Pop, InsertLate, InsertFrame, Tick, vars, bufferVars
  <2> QED
    BY <2>2, <2>3, <2>4, <2>5
<1>3. CoreInv /\ [Next]_vars => [\A k \in DOMAIN frames : playing => Nearer(k)]_vars
  BY <1>2
<1>4. Spec => [](playing => TurnDue /\ \A k \in DOMAIN frames : TurnsTo(k) \in Nat \ {0})
  BY <1>1, CoreInvariant, PTL
<1>5. Spec => [][\A k \in DOMAIN frames : playing => Nearer(k)]_vars
  BY <1>3, CoreInvariant, PTL DEF Spec
<1> QED
  BY <1>4, <1>5

-----------------------------------------------------------------------------
(* The number the keys of the buffer count from: the start of the cycle of *)
(* the first packet received.                                              *)
FirstCycle == CycleStart(network.first)

(* The extender follows the network,                                       *)
NetworkInv ==
  /\ network.first = None =>
       /\ network.newest = None
       /\ ~ext.started /\ ext.cycles = 0
       /\ DOMAIN frames = {} /\ ~playing
  /\ network.first # None =>
       /\ network.newest >= network.first
       /\ Tracks(ext, FirstCycle, network.newest)

(* so that a frame lies at its own number, less that start, and what was   *)
(* decoded last in the period lies behind the cursor.                      *)
NumberInv ==
  /\ \A k \in DOMAIN frames : frames[k] = k + FirstCycle
  /\ history.last # None => playing /\ history.last < next + FirstCycle

OrderInv == NetworkInv /\ NumberInv

LEMMA OrderInit == Init => OrderInv
  BY DEF Init, OrderInv, NetworkInv, NumberInv, Empty, FreshExtender, None

(* What delivery gives a packet, whether it is the first one or a later.   *)
LEMMA DeliverExact ==
  ASSUME LateAcrossFirstWrap = FALSE, TypeOK, OrderInv, NEW n \in Numbers, Deliver(n)
  PROVE  /\ n \in Nat /\ FirstCycle' \in Nat
         /\ Peek(ext, Wire(n)) = n - FirstCycle'
         /\ network'.first # None
         /\ network'.newest >= network'.first
         /\ Tracks(ext', FirstCycle', network'.newest)
         /\ network.first # None => FirstCycle' = FirstCycle
<1>1. /\ n \in Nat /\ ext \in Extender /\ ext' = Commit(ext, Wire(n))
      /\ network.first \in Nat \cup {None} /\ network.newest \in Nat \cup {None}
      /\ network'.first = IF network.first = None THEN n ELSE network.first
      /\ network'.newest = Larger(network.newest, n)
  BY JitterAssumption DEF TypeOK, Deliver
<1>2. CASE network.first = None
  <2>1. network'.first = n /\ network'.newest = n
    BY <1>1, <1>2 DEF OrderInv, NetworkInv, Larger, None
  <2>2. FirstCycle' = n - Wire(n)
    BY <2>1 DEF FirstCycle, CycleStart
  <2>3. /\ Peek(ext, Wire(n)) = n - (n - Wire(n))
        /\ Tracks(Commit(ext, Wire(n)), n - Wire(n), n)
    BY <1>1, <1>2, FirstTracks DEF OrderInv, NetworkInv
  <2>4. n - Wire(n) \in Nat
    BY <1>1, CycleStartIsBase DEF CycleBase
  <2> QED
    BY <1>1, <1>2, <2>1, <2>2, <2>3, <2>4 DEF None
<1>3. CASE network.first # None
  <2>1. /\ network'.first = network.first /\ network.first \in Nat
        /\ network.newest >= network.first /\ network.newest \in Nat
        /\ Tracks(ext, FirstCycle, network.newest)
    BY <1>1, <1>3 DEF OrderInv, NetworkInv, None
  <2>2. FirstCycle' = FirstCycle
    BY <2>1 DEF FirstCycle
  <2>3. CycleBase(FirstCycle) /\ FirstCycle \in Nat
    BY <2>1, CycleStartIsBase DEF FirstCycle, CycleStart, CycleBase
  <2>4. n >= FirstCycle /\ Near(n, network.newest)
    BY <1>1, <1>3, <2>1, JitterAssumption, ModulusAssumption
       DEF Deliver, Deliverable, Near, FirstCycle
  <2>5. Peek(ext, Wire(n)) = n - FirstCycle
    BY <1>1, <2>1, <2>3, <2>4, PeekExact
  <2>6. Tracks(Commit(ext, Wire(n)), FirstCycle,
               IF n >= network.newest THEN n ELSE network.newest)
    BY <1>1, <2>1, <2>3, <2>4, CommitTracks
  <2>7. network'.newest = IF n >= network.newest THEN n ELSE network.newest
    BY <1>1, <2>1 DEF Larger
  <2> QED
    BY <1>1, <1>3, <2>1, <2>2, <2>3, <2>5, <2>6, <2>7
<1> QED
  BY <1>2, <1>3

LEMMA OrderInsertLate ==
  ASSUME LateAcrossFirstWrap = FALSE, CoreInv, OrderInv,
         NEW n \in Numbers, InsertLate(n)
  PROVE  OrderInv'
<1>1. /\ Deliver(n) /\ TypeOK /\ next # None
      /\ frames' = frames /\ next' = next /\ playing' = playing /\ history' = history
  BY DEF InsertLate, Late, CoreInv
<1>2. /\ network'.first # None /\ network'.newest >= network'.first
      /\ Tracks(ext', FirstCycle', network'.newest)
      /\ network.first # None => FirstCycle' = FirstCycle
  BY <1>1, DeliverExact
<1>3. network.first # None
  BY <1>1 DEF OrderInv, NetworkInv, CoreInv, NothingBehindCursor
<1> QED
  BY <1>1, <1>2, <1>3 DEF OrderInv, NetworkInv, NumberInv

LEMMA OrderInsertFrame ==
  ASSUME LateAcrossFirstWrap = FALSE, CoreInv, OrderInv,
         NEW n \in Numbers, NEW demand \in JitterDemands, InsertFrame(n, demand)
  PROVE  OrderInv'
<1> DEFINE key == Peek(ext, Wire(n))
<1>1. /\ Deliver(n) /\ TypeOK /\ IsFiniteSet(DOMAIN frames)
      /\ frames' = With(frames, key, n)
      /\ next' = next /\ playing' = playing
      /\ history'.last = history.last
  BY DEF InsertFrame, CoreInv, TypeOK, History
<1>2. /\ n \in Nat /\ FirstCycle' \in Nat /\ key = n - FirstCycle'
      /\ network'.first # None /\ network'.newest >= network'.first
      /\ Tracks(ext', FirstCycle', network'.newest)
      /\ network.first # None => FirstCycle' = FirstCycle
  BY <1>1, DeliverExact
<1> HIDE DEF key
<1>3. /\ DOMAIN frames' = DOMAIN frames \cup {key}
      /\ \A k \in DOMAIN frames' : frames'[k] = IF k = key THEN n ELSE frames[k]
  <2>1. /\ DOMAIN With(frames, key, n) = DOMAIN frames \cup {key}
        /\ \A k \in DOMAIN With(frames, key, n) :
             With(frames, key, n)[k] = IF k = key THEN n ELSE frames[k]
    BY DEF With
  <2> QED
    BY <1>1, <2>1
<1>4. \A k \in DOMAIN frames : frames[k] = k + FirstCycle'
  BY <1>2 DEF OrderInv, NetworkInv, NumberInv
<1>5. \A k \in DOMAIN frames' : frames'[k] = k + FirstCycle'
  BY <1>2, <1>3, <1>4
<1>6. history'.last # None => playing' /\ history'.last < next' + FirstCycle'
  BY <1>1, <1>2 DEF OrderInv, NetworkInv, NumberInv
<1> QED
  BY <1>2, <1>5, <1>6 DEF OrderInv, NetworkInv, NumberInv

(* The network stands still during a pop: the frame decoded lies at the    *)
(* slot, which is not behind the cursor.                                   *)
LEMMA PopInOrder ==
  ASSUME CoreInv, OrderInv, Ready
  PROVE  /\ network.first # None /\ FirstCycle \in Nat /\ Slot \in Nat
         /\ \A k \in DOMAIN Held : k \in Nat /\ Held[k] = k + FirstCycle
         /\ history.last # None => history.last < Slot + FirstCycle
         /\ history.last \in Int
<1>1. /\ TypeOK /\ NothingBehindCursor /\ DOMAIN frames \subseteq Nat
      /\ history.last \in Int /\ network.first \in Nat \cup {None}
      /\ playing => next \in Nat
  BY DEF CoreInv, TypeOK, History, NothingBehindCursor
<1>2. /\ Cursor \in Nat /\ Slot \in Nat /\ Slot >= Cursor
      /\ playing => Cursor = next
      /\ DOMAIN Held \subseteq DOMAIN frames
      /\ \A k \in DOMAIN Held : Held[k] = frames[k]
  BY <1>1, SlotFacts
<1>3. network.first # None
  <2>1. ~playing => DOMAIN frames # {}
    BY <1>1, StartsDeep
  <2> QED
    BY <2>1 DEF OrderInv, NetworkInv
<1>4. FirstCycle \in Nat
  BY <1>1, <1>3, CycleStartIsBase DEF FirstCycle, CycleStart, CycleBase
<1>5. history.last # None => playing /\ history.last < next + FirstCycle
  BY DEF OrderInv, NumberInv
<1>6. \A k \in DOMAIN Held : k \in Nat /\ Held[k] = k + FirstCycle
  BY <1>1, <1>2 DEF OrderInv, NumberInv
<1> QED
  BY <1>1, <1>2, <1>3, <1>4, <1>5, <1>6

LEMMA OrderPop ==
  ASSUME CoreInv, OrderInv, PopDecode \/ PopGap \/ PopUnderrun
  PROVE  OrderInv'
<1>1. Ready /\ ext' = ext /\ network' = network /\ FirstCycle' = FirstCycle
  BY DEF PopDecode, PopGap, PopUnderrun, FirstCycle
<1>2. /\ network.first # None /\ FirstCycle \in Nat /\ Slot \in Nat
      /\ \A k \in DOMAIN Held : k \in Nat /\ Held[k] = k + FirstCycle
      /\ history.last # None => history.last < Slot + FirstCycle
      /\ history.last \in Int
  BY <1>1, PopInOrder
<1>3. NetworkInv'
  BY <1>1, <1>2 DEF OrderInv, NetworkInv
<1>4. CASE PopDecode
  <2>1. /\ Slot \in DOMAIN Held /\ frames' = Without(Held, Slot)
        /\ playing' = TRUE /\ next' = Slot + 1 /\ history'.last = Held[Slot]
    BY <1>4 DEF PopDecode
  <2>2. IsFiniteSet(DOMAIN Held)
    BY <1>1, SlotFacts DEF CoreInv
  <2>3. /\ DOMAIN frames' \subseteq DOMAIN Held
        /\ \A k \in DOMAIN frames' : frames'[k] = Held[k]
    <3>1. /\ DOMAIN Without(Held, Slot) = DOMAIN Held \ {Slot}
          /\ \A k \in DOMAIN Without(Held, Slot) : Without(Held, Slot)[k] = Held[k]
      BY <2>2, WithoutFacts
    <3> QED
      BY <2>1, <3>1
  <2>4. history'.last < next' + FirstCycle
    BY <1>2, <2>1
  <2> QED
    BY <1>1, <1>2, <1>3, <2>1, <2>3, <2>4 DEF OrderInv, NumberInv
<1>5. CASE PopGap
  <2>1. /\ frames' = Held /\ playing' = TRUE /\ next' = Slot + 1
        /\ history'.last = history.last
    BY <1>5 DEF PopGap, CoreInv, TypeOK, History
  <2> QED
    BY <1>1, <1>2, <1>3, <2>1 DEF OrderInv, NumberInv
<1>6. CASE PopUnderrun
  <2>1. frames' = Held /\ history'.last = None
    BY <1>6 DEF PopUnderrun
  <2> QED
    BY <1>1, <1>2, <1>3, <2>1 DEF OrderInv, NumberInv
<1> QED
  BY <1>4, <1>5, <1>6

LEMMA OrderStep ==
  ASSUME LateAcrossFirstWrap = FALSE, CoreInv, OrderInv, [Next]_vars
  PROVE  OrderInv'
<1>1. CASE Tick \/ UNCHANGED vars
  BY <1>1 DEF Tick, vars, bufferVars, OrderInv, NetworkInv, NumberInv, FirstCycle, Tracks
<1> QED
  BY <1>1, OrderInsertLate, OrderInsertFrame, OrderPop DEF Next

(* Within a period frames come out in the order the sender numbered them,  *)
(* whatever is lost, repeated or reordered and across any number of wraps, *)
(* if packets stray less than half the wire space from the newest and none *)
(* precedes the cycle of the first (insert and pop, jitter.rs).            *)
THEOREM PlayedInOrder ==
  ASSUME LateAcrossFirstWrap = FALSE
  PROVE  Spec => InOrderWithinPeriod
<1>1. ASSUME CoreInv, OrderInv, [Next]_vars,
             history'.decoded > history.decoded, history.last # None
      PROVE  history'.last > history.last
  <2>1. history.decoded \in Nat /\ history \in History
    BY <1>1 DEF CoreInv, TypeOK, History
  <2>2. history'.decoded # history.decoded
    BY <1>1, <2>1
  <2>3. PopDecode
    <3>1. ASSUME NEW n \in Numbers, NEW demand \in JitterDemands, InsertFrame(n, demand)
          PROVE  history'.decoded = history.decoded
      BY <2>1, <3>1 DEF InsertFrame, History
    <3>2. ASSUME NEW n \in Numbers, InsertLate(n)
          PROVE  history' = history
      BY <3>2 DEF InsertLate
    <3>3. PopGap \/ PopUnderrun => history'.decoded = history.decoded
      BY <2>1 DEF PopGap, PopUnderrun, History
    <3>4. Tick \/ UNCHANGED vars => history' = history
      BY DEF Tick, vars, bufferVars
    <3> QED
      BY <1>1, <2>2, <3>1, <3>2, <3>3, <3>4 DEF Next
  <2>4. Ready /\ Slot \in DOMAIN Held /\ history'.last = Held[Slot]
    BY <2>3 DEF PopDecode
  <2>5. /\ FirstCycle \in Nat /\ Slot \in Nat /\ Held[Slot] = Slot + FirstCycle
        /\ history.last < Slot + FirstCycle /\ history.last \in Int
    BY <1>1, <2>4, PopInOrder
  <2> QED
    BY <2>4, <2>5
<1>2. CoreInv /\ OrderInv /\ [Next]_vars
        => [history'.decoded > history.decoded /\ history.last # None
              => history'.last > history.last]_vars
  BY <1>1
<1>3. CoreInv /\ OrderInv /\ [Next]_vars => OrderInv'
  BY OrderStep
<1> QED
  BY <1>2, <1>3, OrderInit, CoreInvariant, PTL DEF Spec, InOrderWithinPeriod

(* A retarget leaves the target at what it wanted at least, and forgets no *)
(* more of the bursts than it wanted room for.                             *)
LEMMA RetargetCovers ==
  ASSUME TypeOK, NEW demand \in JitterDemands, Retarget(demand)
  PROVE  target' >= Clamp((burst'.longest + 2) * FrameMs)
<1>t. /\ target \in MinTarget .. MaxTarget /\ target \in Nat
      /\ burst.longest \in Nat /\ demand \in Nat /\ burst \in [current : Nat, longest : Nat]
  BY JitterAssumption DEF TypeOK
<1> DEFINE wanted == Wanted(demand)
           needed == (burst.longest + 2) * FrameMs
           needs  == (burst'.longest + 2) * FrameMs
<1>1. burst'.longest \in Nat /\ burst'.longest <= burst.longest
  BY <1>t DEF Retarget, Monus
<1>2. needed \in Nat /\ needs \in Nat /\ needs <= needed
  <2>1. ASSUME NEW a \in Nat, NEW b \in Nat, a <= b, NEW m \in Nat
        PROVE  (a + 2) * m <= (b + 2) * m /\ (a + 2) * m \in Nat /\ (b + 2) * m \in Nat
    <3>1. (b - a) * m \in Nat /\ (b + 2) * m = (a + 2) * m + (b - a) * m
      BY <2>1
    <3> QED
      BY <3>1
  <2> QED
    BY <1>t, <1>1, <2>1, JitterAssumption
<1> HIDE DEF needed, needs
<1>3. ASSUME NEW a \in Nat, NEW b \in Nat, a <= b PROVE Clamp(a) <= Clamp(b)
  BY <1>3, JitterAssumption DEF Clamp, Larger, Smaller
<1>4. wanted \in Nat /\ wanted >= MinTarget /\ wanted >= Clamp(needed)
  <2>1. demand + FrameMs \in Nat
    BY <1>t, JitterAssumption
  <2>2. wanted = Clamp(Larger(demand + FrameMs, needed))
    BY DEF Wanted, needed
  <2>3. Larger(demand + FrameMs, needed) \in Nat /\ Larger(demand + FrameMs, needed) >= needed
    BY <1>2, <2>1 DEF Larger
  <2>4. ASSUME NEW ms \in Nat PROVE Clamp(ms) \in Nat /\ Clamp(ms) >= MinTarget
    BY JitterAssumption DEF Clamp, Larger, Smaller
  <2> QED
    BY <1>2, <1>3, <2>2, <2>3, <2>4
<1>5. target' >= wanted
  <2>1. Shrunk(wanted) >= wanted
    <3> DEFINE floor == Larger(wanted, MinTarget)
               rest  == Monus(target, Larger(Monus(target, floor) \div ShrinkDivisor, ShrinkFloor))
    <3> HIDE DEF wanted
    <3>1. floor = wanted
      BY <1>4, JitterAssumption DEF Larger
    <3>2. Monus(target, floor) \in Nat
      BY <1>t, <1>4, <3>1 DEF Monus
    <3>3. Larger(Monus(target, floor) \div ShrinkDivisor, ShrinkFloor) \in Nat
      BY <3>2, JitterAssumption DEF Larger
    <3>4. rest \in Nat
      BY <1>t, <3>3 DEF Monus
    <3>5. Shrunk(wanted) = Larger(rest, floor)
      BY DEF Shrunk
    <3> HIDE DEF floor, rest
    <3> QED
      BY <1>4, <3>1, <3>4, <3>5 DEF Larger
  <2>2. target' = wanted \/ target' = Shrunk(wanted) \/ (target' = target /\ ~(wanted > target))
    BY DEF Retarget
  <2> HIDE DEF wanted
  <2> QED
    BY <1>t, <1>4, <2>1, <2>2
<1>6. Clamp(needs) <= Clamp(needed) /\ Clamp(needs) \in Nat /\ Clamp(needed) \in Nat
  BY <1>2, <1>3, JitterAssumption DEF Clamp, Larger, Smaller
<1>7. target' \in Nat
  BY RetargetType, JitterAssumption
<1> HIDE DEF wanted
<1> QED
  BY <1>4, <1>5, <1>6, <1>7 DEF needs

(* After every packet that is not late, a copy of a buffered one too, the  *)
(* target covers the worst run of losses remembered, as far as the preset  *)
(* allows, for every preset, loss pattern and pace of shrinking (retarget, *)
(* jitter.rs).                                                             *)
THEOREM BurstCovered == Spec => TargetCoversBurst
<1>1. ASSUME CoreInv, [Next]_vars,
             stats'.received > stats.received, stats'.late = stats.late
      PROVE  target' >= Clamp((burst'.longest + 2) * FrameMs)
  <2>1. PICK n \in Numbers, demand \in JitterDemands : InsertFrame(n, demand)
    <3>1. TypeOK /\ NothingBehindCursor /\ stats.received \in Nat /\ stats.late \in Nat
      BY <1>1 DEF CoreInv, TypeOK, Counters
    <3>2. ASSUME NEW names, names \cap {"dropped", "received"} = {}, Ready,
                 stats' = Bumped(Dropped \cup names)
          PROVE  FALSE
      <4>1. \A c \in Counters \ {"dropped"} :
              stats'[c] = IF c \in names THEN stats[c] + 1 ELSE stats[c]
        BY <3>1, <3>2, PopCounts
      <4>2. stats'.received = stats.received
        BY <3>2, <4>1 DEF Counters
      <4> QED
        BY <1>1, <3>1, <4>2
    <3>3. ~PopDecode
      <4>1. PopDecode => Ready /\ stats' = Bumped(Dropped \cup {})
        BY DEF PopDecode
      <4> QED
        BY <3>2, <4>1
    <3>4. ~PopGap
      <4> DEFINE names == {"lost", IF Slot + 1 \in DOMAIN Held THEN "recovered" ELSE "concealed"}
      <4>1. PopGap => Ready /\ stats' = Bumped(Dropped \cup names)
        BY DEF PopGap
      <4> QED
        BY <3>2, <4>1
    <3>5. ~PopUnderrun
      <4>1. PopUnderrun => Ready /\ stats' = Bumped(Dropped \cup {"underruns"})
        BY DEF PopUnderrun
      <4> QED
        BY <3>2, <4>1
    <3>6. ASSUME NEW n \in Numbers PROVE ~InsertLate(n)
      <4>1. \A c \in Counters : Bumped({"received", "late"})[c]
                                = IF c \in {"received", "late"} THEN stats[c] + 1 ELSE stats[c]
        BY <3>1, BumpedFacts DEF TypeOK
      <4>2. InsertLate(n) => stats'.late = stats.late + 1
        BY <4>1 DEF InsertLate, Counters
      <4> QED
        BY <1>1, <3>1, <4>2
    <3> QED
      BY <1>1, <3>1, <3>3, <3>4, <3>5, <3>6 DEF Next, Tick, vars, bufferVars
  <2> QED
    BY <1>1, <2>1, RetargetCovers DEF InsertFrame, CoreInv
<1>2. CoreInv /\ [Next]_vars
        => [stats'.received > stats.received /\ stats'.late = stats.late
              => target' >= Clamp((burst'.longest + 2) * FrameMs)]_vars
  BY <1>1
<1> QED
  BY <1>2, CoreInvariant, PTL DEF Spec, TargetCoversBurst

-----------------------------------------------------------------------------
(* The buffer as a Playout.                                                *)
Waiting == Range(frames)
CursorNumber == IF playing THEN next + CycleStart(network.first) ELSE None

LEMMA RangeShifted ==
  ASSUME NEW f, DOMAIN f \subseteq Nat, NEW c \in Nat,
         \A k \in DOMAIN f : f[k] = k + c
  PROVE  /\ \A n : n \in Range(f) <=> \E k \in DOMAIN f : n = k + c
         /\ \A k \in Nat : k + c \in Range(f) <=> k \in DOMAIN f
         /\ Range(f) = {} <=> DOMAIN f = {}
<1>1. \A n : n \in Range(f) <=> \E k \in DOMAIN f : n = k + c
  BY DEF Range
<1>2. ASSUME NEW k \in Nat, NEW j \in Nat, k + c = j + c PROVE k = j
  BY <1>2
<1>3. ASSUME NEW k \in Nat PROVE k + c \in Range(f) <=> k \in DOMAIN f
  <2>1. ASSUME k + c \in Range(f) PROVE k \in DOMAIN f
    <3>1. PICK j \in DOMAIN f : k + c = j + c
      BY <1>1, <2>1
    <3> QED
      BY <1>2, <3>1
  <2> QED
    BY <1>1, <2>1
<1>4. Range(f) = {} <=> DOMAIN f = {}
  BY DEF Range
<1> QED
  BY <1>1, <1>3, <1>4

(* What waits, in terms of the slots, and where a turn begins.             *)
LEMMA DueFacts ==
  ASSUME CoreInv, OrderInv, Ready
  PROVE  /\ FirstCycle \in Nat /\ Cursor \in Nat /\ Slot \in Nat
         /\ \A k \in Nat : k + FirstCycle \in Waiting <=> k \in DOMAIN frames
         /\ Waiting = {} <=> DOMAIN frames = {}
         /\ \A k \in Nat : k + FirstCycle \in Range(Held) <=> k \in DOMAIN Held
         /\ Range(Held) = {} <=> DOMAIN Held = {}
         /\ Waiting # {} => Promised!Due = Cursor + FirstCycle
         /\ playing => CursorNumber # None
<1>1. /\ TypeOK /\ NothingBehindCursor /\ DOMAIN frames \subseteq Nat
      /\ playing => next \in Nat
      /\ \A k \in DOMAIN frames : frames[k] = k + FirstCycle
  BY DEF CoreInv, OrderInv, NumberInv, TypeOK, NothingBehindCursor
<1>2. /\ FirstCycle \in Nat /\ Slot \in Nat
      /\ \A k \in DOMAIN Held : k \in Nat /\ Held[k] = k + FirstCycle
  BY PopInOrder
<1>3. /\ Cursor \in Nat /\ (playing => Cursor = next)
      /\ \A k \in DOMAIN frames : k >= Cursor
  BY <1>1, SlotFacts
<1>4. /\ \A n : n \in Waiting <=> \E k \in DOMAIN frames : n = k + FirstCycle
      /\ \A k \in Nat : k + FirstCycle \in Waiting <=> k \in DOMAIN frames
      /\ Waiting = {} <=> DOMAIN frames = {}
  BY <1>1, <1>2, RangeShifted DEF Waiting
<1>5. /\ \A k \in Nat : k + FirstCycle \in Range(Held) <=> k \in DOMAIN Held
      /\ Range(Held) = {} <=> DOMAIN Held = {}
  <2>1. DOMAIN Held \subseteq Nat
    BY <1>2
  <2> QED
    BY <1>2, <2>1, RangeShifted
<1>6. CursorNumber = IF playing THEN next + FirstCycle ELSE None
  BY DEF CursorNumber, FirstCycle
<1>7. playing => CursorNumber # None
  BY <1>1, <1>2, <1>6 DEF None
<1>8. ASSUME Waiting # {} PROVE Promised!Due = Cursor + FirstCycle
  <2>1. CASE playing
    BY <1>3, <1>6, <1>7, <2>1 DEF Promised!Due, Promised!None, CursorNumber, None
  <2>2. CASE ~playing
    <3>1. Cursor \in DOMAIN frames
      BY <1>1, <1>4, <1>8, <2>2, MinOfNaturals DEF Cursor
    <3>2. /\ Cursor + FirstCycle \in Waiting
          /\ \A m \in Waiting : m \in Nat /\ Cursor + FirstCycle <= m
      <4>1. Cursor + FirstCycle \in Waiting
        BY <1>3, <1>4, <3>1
      <4>2. ASSUME NEW m \in Waiting PROVE m \in Nat /\ Cursor + FirstCycle <= m
        <5>1. PICK k \in DOMAIN frames : m = k + FirstCycle
          BY <1>4
        <5>2. k \in Nat /\ k >= Cursor
          BY <1>1, <1>3
        <5> QED
          BY <1>2, <1>3, <5>1, <5>2
      <4> QED
        BY <4>1, <4>2
    <3>3. ASSUME NEW n \in Waiting, \A m \in Waiting : n <= m
          PROVE  n = Cursor + FirstCycle
      BY <1>2, <1>3, <3>2, <3>3
    <3>4. (CHOOSE n \in Waiting : \A m \in Waiting : n <= m) = Cursor + FirstCycle
      BY <3>2, <3>3
    <3> QED
      BY <2>2, <3>4 DEF Promised!Due, Promised!None, Waiting, None
  <2> QED
    BY <2>1, <2>2
<1> QED
  BY <1>2, <1>3, <1>4, <1>5, <1>7, <1>8

(* A pop that finds a frame or a gap is a turn: the slot it comes to and   *)
(* the frames it leaves are those of a turn that drops one packet or none. *)
LEMMA TurnMaps ==
  ASSUME CoreInv, OrderInv, Ready, DOMAIN Held # {},
         \/ Promised!Play(Slot + FirstCycle, Range(Held))
         \/ Promised!Gap(Slot + FirstCycle, Range(Held))
  PROVE  Promised!Walk
<1>1. /\ FirstCycle \in Nat /\ Cursor \in Nat /\ Slot \in Nat
      /\ \A k \in Nat : k + FirstCycle \in Waiting <=> k \in DOMAIN frames
      /\ Waiting = {} <=> DOMAIN frames = {}
      /\ Waiting # {} => Promised!Due = Cursor + FirstCycle
  BY DueFacts
<1>2. DOMAIN frames # {} /\ DOMAIN frames \subseteq Nat
  BY SlotFacts DEF CoreInv, TypeOK
<1>3. Waiting # {} /\ Promised!Due = Cursor + FirstCycle
  BY <1>1, <1>2
<1>4. CASE ~Sheds
  <2>1. Slot + FirstCycle = Promised!Due /\ Range(Held) = Waiting
    BY <1>3, <1>4 DEF Slot, Held, Waiting
  <2> QED
    BY <1>3, <2>1 DEF Promised!Walk, Waiting
<1>5. CASE Sheds
  <2>1. /\ Slot = Cursor + 1 /\ Held = Without(frames, Cursor) /\ Cursor \in DOMAIN frames
    BY <1>5 DEF Slot, Held, Sheds
  <2>2. Slot + FirstCycle = Promised!Due + 1
    BY <1>1, <1>3, <2>1
  <2>3. Promised!Due \in Waiting
    BY <1>1, <1>3, <2>1
  <2>4. Range(Held) = Waiting \ {Promised!Due}
    <3>1. /\ DOMAIN Held = DOMAIN frames \ {Cursor}
          /\ \A k \in DOMAIN Held : Held[k] = frames[k]
      BY <2>1 DEF Without, Restrict
    <3>2. \A k \in DOMAIN frames : frames[k] = k + FirstCycle
      BY DEF OrderInv, NumberInv
    <3>3. \A k \in DOMAIN frames : k # Cursor => frames[k] # Cursor + FirstCycle
      BY <1>1, <1>2, <3>2
    <3>4. frames[Cursor] = Cursor + FirstCycle
      BY <2>1, <3>2
    <3> QED
      BY <1>3, <3>1, <3>3, <3>4 DEF Range, Waiting
  <2> QED
    BY <1>3, <2>2, <2>3, <2>4 DEF Promised!Walk, Waiting
<1> QED
  BY <1>4, <1>5

LEMMA DecodeMaps ==
  ASSUME CoreInv, OrderInv, PopDecode
  PROVE  Promised!Walk
<1>1. /\ Ready /\ Slot \in DOMAIN Held /\ frames' = Without(Held, Slot)
      /\ playing' = TRUE /\ next' = Slot + 1 /\ history'.last = Held[Slot]
      /\ network' = network
  BY DEF PopDecode
<1>2. /\ FirstCycle \in Nat /\ Slot \in Nat /\ FirstCycle' = FirstCycle
      /\ \A k \in DOMAIN Held : k \in Nat /\ Held[k] = k + FirstCycle
  BY <1>1, PopInOrder DEF FirstCycle
<1>3. Held[Slot] = Slot + FirstCycle /\ Slot + FirstCycle \in Range(Held)
  BY <1>1, <1>2 DEF Range
<1>4. Waiting' = Range(Held) \ {Slot + FirstCycle}
  <2>1. /\ DOMAIN frames' = DOMAIN Held \ {Slot}
        /\ \A k \in DOMAIN frames' : frames'[k] = Held[k]
    BY <1>1 DEF Without, Restrict
  <2>2. ASSUME NEW k \in DOMAIN Held, k # Slot PROVE Held[k] # Slot + FirstCycle
    <3>1. k \in Nat /\ Held[k] = k + FirstCycle
      BY <1>2
    <3> QED
      BY <1>2, <2>2, <3>1
  <2>3. Waiting' = {frames'[k] : k \in DOMAIN frames'}
    BY DEF Waiting, Range
  <2>4. Range(Held) = {Held[k] : k \in DOMAIN Held}
    BY DEF Range
  <2> QED
    BY <1>3, <2>1, <2>2, <2>3, <2>4
<1>5. CursorNumber' = Slot + FirstCycle + 1
  BY <1>1, <1>2 DEF CursorNumber, FirstCycle
<1>6. Promised!Play(Slot + FirstCycle, Range(Held))
  BY <1>1, <1>3, <1>4, <1>5 DEF Promised!Play, Waiting, CursorNumber
<1> QED
  BY <1>1, <1>6, TurnMaps

LEMMA GapMaps ==
  ASSUME CoreInv, OrderInv, PopGap
  PROVE  Promised!Walk
<1>1. /\ Ready /\ Slot \notin DOMAIN Held /\ DOMAIN Held # {} /\ frames' = Held
      /\ playing' = TRUE /\ next' = Slot + 1 /\ history'.last = history.last
      /\ network' = network
  BY DEF PopGap, CoreInv, TypeOK, History
<1>2. /\ FirstCycle \in Nat /\ Slot \in Nat /\ FirstCycle' = FirstCycle
      /\ \A k \in Nat : k + FirstCycle \in Range(Held) <=> k \in DOMAIN Held
      /\ Range(Held) = {} <=> DOMAIN Held = {}
  BY <1>1, DueFacts DEF FirstCycle
<1>3. Slot + FirstCycle \notin Range(Held) /\ Range(Held) # {}
  BY <1>1, <1>2
<1>4. CursorNumber' = Slot + FirstCycle + 1
  BY <1>1, <1>2 DEF CursorNumber, FirstCycle
<1>5. Promised!Gap(Slot + FirstCycle, Range(Held))
  BY <1>1, <1>3, <1>4 DEF Promised!Gap, CursorNumber
<1> QED
  BY <1>1, <1>5, TurnMaps

LEMMA UnderrunMaps ==
  ASSUME CoreInv, OrderInv, PopUnderrun
  PROVE  Promised!RunDry
<1>1. /\ Ready /\ DOMAIN Held = {} /\ frames' = Held
      /\ playing' = FALSE /\ history'.last = None
  BY DEF PopUnderrun
<1>2. ~Sheds /\ Held = frames
  BY <1>1, ShedLeavesOne DEF Held
<1>3. Waiting = {} /\ (playing => CursorNumber # None)
  BY <1>1, <1>2, DueFacts
<1>4. playing
  BY <1>1, <1>2, StartsDeep DEF CoreInv
<1> QED
  BY <1>1, <1>2, <1>3, <1>4
     DEF Promised!RunDry, Promised!None, Waiting, CursorNumber, None

LEMMA InsertMaps ==
  ASSUME LateAcrossFirstWrap = FALSE, CoreInv, OrderInv,
         NEW n \in Numbers, NEW demand \in JitterDemands, InsertFrame(n, demand)
  PROVE  Promised!Accept(n)
<1> DEFINE key == Peek(ext, Wire(n))
<1>1. /\ Deliver(n) /\ ~Late(n) /\ TypeOK /\ NothingBehindCursor
      /\ frames' = With(frames, key, n)
      /\ next' = next /\ playing' = playing
      /\ history'.last = history.last
  BY DEF InsertFrame, CoreInv, TypeOK, History
<1>2. /\ n \in Nat /\ FirstCycle' \in Nat /\ key = n - FirstCycle'
      /\ network.first # None => FirstCycle' = FirstCycle
  BY <1>1, DeliverExact
<1>3. playing => network.first # None /\ next \in Nat /\ key >= next
  BY <1>1, <1>2 DEF OrderInv, NetworkInv, Late, NothingBehindCursor, TypeOK, None
<1> HIDE DEF key
<1>4. \A k \in DOMAIN frames : k \in Nat /\ frames[k] = k + FirstCycle'
  BY <1>1, <1>2 DEF OrderInv, NetworkInv, NumberInv, TypeOK
<1>5. Waiting' = Waiting \cup {n}
  <2>1. /\ DOMAIN frames' = DOMAIN frames \cup {key}
        /\ \A k \in DOMAIN frames' : frames'[k] = IF k = key THEN n ELSE frames[k]
    BY <1>1 DEF With
  <2>2. key \in DOMAIN frames => frames[key] = n
    BY <1>2, <1>4
  <2>3. Waiting' = {frames'[k] : k \in DOMAIN frames'}
    BY DEF Waiting, Range
  <2>4. Waiting = {frames[k] : k \in DOMAIN frames}
    BY DEF Waiting, Range
  <2> QED
    BY <2>1, <2>2, <2>3, <2>4
<1>6. CursorNumber' = CursorNumber
  BY <1>1, <1>2, <1>3 DEF CursorNumber, FirstCycle
<1>7. CursorNumber # None => n >= CursorNumber
  BY <1>2, <1>3 DEF CursorNumber, FirstCycle
<1> QED
  BY <1>1, <1>5, <1>6, <1>7 DEF Promised!Accept, Promised!None, Waiting, CursorNumber, None

(* Every step of the buffer is a step of Playout or leaves it as it is, for*)
(* every network that strays less than half the wire space, every preset   *)
(* and any number of wraps: order, lateness, gaps, shedding and underruns  *)
(* are those it promises (insert and pop, jitter.rs).                      *)
THEOREM PlayoutKept ==
  ASSUME LateAcrossFirstWrap = FALSE
  PROVE  Spec => Promised!Init /\ [][Promised!Next]_(Promised!vars)
<1>1. Init => Promised!Init
  BY DEF Init, Empty, Range, Promised!Init, Promised!None, None
<1>2. ASSUME CoreInv, OrderInv, [Next]_vars
      PROVE  [Promised!Next]_(Promised!vars)
  <2>1. CASE \E n \in Numbers : InsertLate(n)
    <3>1. PICK n \in Numbers : InsertLate(n)
      BY <2>1
    <3>2. /\ Deliver(n) /\ next # None /\ frames' = frames /\ next' = next
          /\ playing' = playing /\ history' = history
      BY <3>1 DEF InsertLate, Late
    <3>3. network.first # None
      BY <1>2, <3>2 DEF OrderInv, NetworkInv, CoreInv, NothingBehindCursor
    <3>4. network'.first = network.first
      BY <3>2, <3>3 DEF Deliver
    <3> QED
      BY <3>2, <3>4 DEF Promised!vars
  <2>2. CASE Tick \/ UNCHANGED vars
    BY <2>2 DEF Tick, vars, bufferVars, Promised!vars
  <2> QED
    BY <1>2, <2>1, <2>2, InsertMaps, DecodeMaps, GapMaps, UnderrunMaps
       DEF Next, Promised!Next
<1>3. CoreInv /\ OrderInv /\ [Next]_vars => OrderInv'
  BY OrderStep
<1> QED
  BY <1>1, <1>2, <1>3, OrderInit, CoreInvariant, PTL DEF Spec
=============================================================================
