----------------------------- MODULE JitterBuffer -----------------------------
(***************************************************************************)
(* core/src/jitter.rs: the buffer between the network, whose packets are   *)
(* inserted as they arrive, and the audio device, for which one frame per  *)
(* slot is popped.  One thread owns the buffer, so insert and pop are      *)
(* atomic, but how they alternate is up to the network and the device.     *)
(*                                                                         *)
(* The payload of a frame is the number the sender gave its packet, so that*)
(* what is played can be compared with what was sent.  The network may     *)
(* lose, duplicate, delay and reorder packets.  Time is in ticks; the RFC  *)
(* 3550 jitter estimate, a float, is left open: at each arrival it may ask *)
(* for any depth in JitterDemands.                                         *)
(***************************************************************************)
EXTENDS SeqExtender, FiniteSets, FiniteSetsExt, Functions

CONSTANTS
  FrameMs,          \* frame_ms, the packet time of the session
  MinTarget,        \* min_target_ms of the latency preset
  MaxTarget,        \* max_target_ms of the latency preset
  OverfillMs,       \* OVERFILL_MS
  OverfillFor,      \* OVERFILL_FOR_US, in ticks
  ShrinkAfter,      \* SHRINK_AFTER_US, in ticks
  ShrinkDivisor,    \* SHRINK_DIVISOR
  ShrinkFloor,      \* SHRINK_FLOOR_MS
  BurstMemory,      \* BURST_MEMORY_US, in ticks
  JitterDemands,    \* depths the jitter estimate may ask for, in ms
  Numbers,          \* numbers of the packets the sender sends
  Displacement,     \* how far behind the newest arrival a packet may come
  LateAcrossFirstWrap,
                    \* may a packet from before a wrap arrive although the
                    \* first one received was from after it?
  MaxReceived,      \* bound: packets delivered in a behaviour
  MaxTime           \* bound: ticks in a behaviour

ASSUME JitterAssumption ==
  /\ FrameMs \in Nat \ {0} /\ MinTarget \in Nat /\ MaxTarget \in Nat
  /\ FrameMs <= MinTarget /\ MinTarget <= MaxTarget
  /\ OverfillMs \in Nat /\ OverfillFor \in Nat
  /\ ShrinkAfter \in Nat /\ ShrinkDivisor \in Nat \ {0} /\ ShrinkFloor \in Nat
  /\ BurstMemory \in Nat /\ JitterDemands \subseteq Nat
  /\ Numbers \subseteq Nat
  /\ Displacement \in Nat /\ 2 * Displacement < Modulus
  /\ LateAcrossFirstWrap \in BOOLEAN
  /\ MaxReceived \in Nat /\ MaxTime \in Nat

VARIABLES
  frames,           \* frames: extended number -> payload
  ext,              \* extender
  next,             \* next, or None
  playing,          \* playing
  target,           \* target_ms
  burst,            \* [current, longest] = current_burst, longest_burst
  timers,           \* [clean, burst, overfull] = the *_since_us fields; 0 is unset
  shedding,         \* shedding
  stats,            \* stats
  now,              \* the clock
  network,          \* [first, newest]: first and newest number delivered, or None
  history           \* what was played: see below

bufferVars == <<frames, ext, next, playing, target, burst, timers, shedding, stats>>
vars == <<bufferVars, now, network, history>>

(* Observations the code does not keep.  A period runs from a start of     *)
(* playback to the underrun that ends it.                                  *)
(*   decoded   how many frames were handed to the decoder                  *)
(*   last      payload decoded last in this period, or None                *)
(*   played    payloads decoded, in all periods                            *)
(*   accepted  extended numbers accepted since the last underrun           *)
(*   origin    next at the start of the period, less the slots before it   *)
History == [decoded : Nat, last : Int, played : SUBSET Nat,
            accepted : SUBSET Nat, origin : Int]

Counters == {"received", "late", "duplicates", "dropped", "lost", "recovered",
             "concealed", "underruns"}

None == -1

-----------------------------------------------------------------------------
Larger(a, b)  == IF a >= b THEN a ELSE b
Smaller(a, b) == IF a <= b THEN a ELSE b
Monus(a, b)   == IF a >= b THEN a - b ELSE 0      \* saturating_sub
Clamp(ms)     == Larger(MinTarget, Smaller(ms, MaxTarget))

Depth(f) == FrameMs * Cardinality(DOMAIN f)

With(f, key, payload) ==
  [k \in DOMAIN f \cup {key} |-> IF k = key THEN payload ELSE f[k]]
Without(f, key) == Restrict(f, DOMAIN f \ {key})

Empty == [k \in {} |-> 0]

(* The counters, with those named one higher.                              *)
Bumped(names) == [c \in Counters |-> IF c \in names THEN stats[c] + 1 ELSE stats[c]]

(* Slots walked: one per frame decoded or shed, and one per gap.           *)
Slots == history.decoded + stats.dropped + stats.lost

Init ==
  /\ frames = Empty
  /\ ext = FreshExtender
  /\ next = None
  /\ playing = FALSE
  /\ target = MinTarget
  /\ burst = [current |-> 0, longest |-> 0]
  /\ timers = [clean |-> 0, burst |-> 0, overfull |-> 0]
  /\ shedding = FALSE
  /\ stats = [c \in Counters |-> 0]
  /\ now = 1
  /\ network = [first |-> None, newest |-> None]
  /\ history = [decoded |-> 0, last |-> None, played |-> {}, accepted |-> {},
                origin |-> 0]

-----------------------------------------------------------------------------
(* The network: what it may deliver next.                                  *)

CycleStart(n) == n - Wire(n)

Deliverable(n) ==
  \/ network.first = None
  \/ /\ n - network.newest <= Displacement
     /\ network.newest - n <= Displacement
     /\ n >= CycleStart(network.first) \/ LateAcrossFirstWrap

Deliver(n) ==
  /\ stats.received < MaxReceived
  /\ Deliverable(n)
  /\ network' = [first  |-> IF network.first = None THEN n ELSE network.first,
                 newest |-> Larger(network.newest, n)]
  /\ ext' = Commit(ext, Wire(n))

-----------------------------------------------------------------------------
(* insert                                                                  *)

(* watch_overfill: depth that stays well above target, with f buffered,    *)
(* starts shedding.                                                        *)
Overfull(f) == Depth(f) > target + OverfillMs

OverfullSince(f) ==
  IF ~Overfull(f) THEN 0 ELSE IF timers.overfull = 0 THEN now ELSE timers.overfull

StaysOverfull(f) ==
  /\ Overfull(f) /\ timers.overfull # 0
  /\ Monus(now, timers.overfull) >= OverfillFor

WantedForJitter(demand) == Clamp(demand + FrameMs)                    \* mutant

(* What the target should be: enough for the jitter seen and for the worst *)
(* run of losses remembered.                                               *)
Wanted(demand) == Clamp(Larger(demand + FrameMs, (burst.longest + 2) * FrameMs))

ShrunkPastFloor(wanted) ==                                            \* mutant
  Monus(target, Larger(Monus(target, wanted) \div ShrinkDivisor, ShrinkFloor))

Shrunk(wanted) ==
  LET floor == Larger(wanted, MinTarget)
      step  == Larger(Monus(target, floor) \div ShrinkDivisor, ShrinkFloor)
  IN  Larger(Monus(target, step), floor)

(* retarget: grow at once, forget bursts and shrink on their own clocks.   *)
Retarget(demand) ==
  LET wanted  == Wanted(demand)
      settle  == wanted > target \/ timers.clean = 0
      forgets == ~settle /\ Monus(now, timers.burst) >= BurstMemory
      shrinks == ~settle /\ Monus(now, timers.clean) >= ShrinkAfter
  IN
  /\ shedding' = (shedding \/ StaysOverfull(frames'))
  /\ target' = IF wanted > target THEN wanted
               ELSE IF shrinks THEN Shrunk(wanted) ELSE target
  /\ burst' = IF forgets THEN [burst EXCEPT !.longest = Monus(@, 1)] ELSE burst
  /\ timers' = [clean    |-> IF settle \/ shrinks THEN now ELSE timers.clean,
                burst    |-> IF settle \/ forgets THEN now ELSE timers.burst,
                overfull |-> OverfullSince(frames')]

NeverLate(n) == FALSE                                                 \* mutant

(* The slot of packet n has been walked.                                   *)
Late(n) == next # None /\ Peek(ext, Wire(n)) < next

(* A late packet is counted and not buffered, and the target is left alone.*)
InsertLate(n) ==
  /\ Deliver(n)
  /\ Late(n)
  /\ stats' = Bumped({"received", "late"})
  /\ UNCHANGED <<frames, next, playing, target, burst, timers, shedding, now, history>>

InsertFrame(n, demand) ==
  LET key == Peek(ext, Wire(n)) IN
  /\ Deliver(n)
  /\ ~Late(n)
  /\ frames' = With(frames, key, n)
  /\ stats' = Bumped({"received"} \cup
                     IF key \in DOMAIN frames THEN {"duplicates"} ELSE {})
  /\ Retarget(demand)
  /\ history' = [history EXCEPT !.accepted = @ \cup {key}]
  /\ UNCHANGED <<next, playing, now>>

-----------------------------------------------------------------------------
(* pop: one call per output slot.  A call that finds too little buffered to*)
(* start playing returns Starve and changes nothing, so it is no action.   *)

ReadyWhenDeep == Depth(frames) >= target + FrameMs                    \* mutant

Ready == playing \/ Depth(frames) >= target + FrameMs

(* The slot a pop looks at first.                                          *)
Cursor == IF playing THEN next ELSE Min(DOMAIN frames)

ShedsToTheEnd == shedding /\ Cursor \in DOMAIN frames                 \* mutant

(* Whether it sheds the frame there, and the slot and the frames it is left*)
(* with.                                                                   *)
Sheds == shedding /\ Depth(frames) > target /\ Cursor \in DOMAIN frames

SlotUnmoved == Cursor                                                 \* mutant

Slot == IF Sheds THEN Cursor + 1 ELSE Cursor
Held == IF Sheds THEN Without(frames, Cursor) ELSE frames

DroppedUncounted == {}                                                \* mutant

(* The counter a shed frame goes to.                                       *)
Dropped == IF Sheds THEN {"dropped"} ELSE {}

(* Shedding ends once the depth is back at the target.                     *)
StillShedding == shedding /\ Depth(frames) > target
OverfullAfter == IF shedding /\ ~StillShedding THEN 0 ELSE timers.overfull

Origin == IF playing THEN history.origin ELSE Cursor - Slots

PopDecode ==
  /\ Ready /\ Slot \in DOMAIN Held
  /\ shedding' = StillShedding
  /\ timers' = [timers EXCEPT !.overfull = OverfullAfter]
  /\ frames' = Without(Held, Slot)
  /\ playing' = TRUE /\ next' = Slot + 1
  /\ burst' = [burst EXCEPT !.current = 0]
  /\ stats' = Bumped(Dropped)
  /\ history' = [decoded  |-> history.decoded + 1,
                 last     |-> Held[Slot],
                 played   |-> history.played \cup {Held[Slot]},
                 accepted |-> history.accepted,
                 origin   |-> Origin]
  /\ UNCHANGED <<ext, target, now, network>>

(* A gap with frames behind it: rebuilt from the next frame's redundancy if*)
(* that frame is here, concealed otherwise.                                *)
PopGap ==
  LET run      == burst.current + 1
      recovers == Slot + 1 \in DOMAIN Held
  IN
  /\ Ready /\ Slot \notin DOMAIN Held /\ DOMAIN Held # {}
  /\ shedding' = StillShedding
  /\ timers' = [timers EXCEPT !.overfull = OverfullAfter]
  /\ frames' = Held
  /\ playing' = TRUE /\ next' = Slot + 1
  /\ burst' = [current |-> run, longest |-> Larger(burst.longest, run)]
  /\ stats' = Bumped(Dropped \cup {"lost", IF recovers THEN "recovered" ELSE "concealed"})
  /\ history' = [history EXCEPT !.origin = Origin]
  /\ UNCHANGED <<ext, target, now, network>>

(* Running dry: grow_after_underrun, and wait for the target depth again.  *)
PopUnderrun ==
  /\ Ready /\ DOMAIN Held = {}
  /\ shedding' = StillShedding
  /\ frames' = Held
  /\ playing' = FALSE /\ next' = None
  /\ target' = Smaller(target + 2 * FrameMs, MaxTarget)
  /\ burst' = [burst EXCEPT !.longest = @ + 1]
  /\ timers' = [clean |-> 0, burst |-> timers.burst, overfull |-> OverfullAfter]
  /\ stats' = Bumped(Dropped \cup {"underruns"})
  /\ history' = [decoded  |-> history.decoded,
                 last     |-> None,
                 played   |-> history.played,
                 accepted |-> {},
                 origin   |-> history.origin]
  /\ UNCHANGED <<ext, now, network>>

Pop == PopDecode \/ PopGap \/ PopUnderrun

Tick ==
  /\ now < MaxTime
  /\ now' = now + 1
  /\ UNCHANGED <<bufferVars, network, history>>

Next ==
  \/ \E n \in Numbers : InsertLate(n)
  \/ \E n \in Numbers, demand \in JitterDemands : InsertFrame(n, demand)
  \/ PopDecode \/ PopGap \/ PopUnderrun
  \/ Tick

(* The audio callback keeps asking for frames; nothing makes the network   *)
(* deliver.                                                                *)
Spec == Init /\ [][Next]_vars /\ WF_vars(Pop)

-----------------------------------------------------------------------------
(* Types.  The target never leaves the range of the latency preset, however*)
(* growth after an underrun, growth on insert and shrinking interleave.    *)
TypeOK ==
  /\ frames \in [DOMAIN frames -> Nat] /\ DOMAIN frames \subseteq Nat
  /\ IsFiniteSet(DOMAIN frames)
  /\ ext \in Extender
  /\ next \in Nat \cup {None}
  /\ playing \in BOOLEAN
  /\ target \in MinTarget .. MaxTarget
  /\ burst \in [current : Nat, longest : Nat]
  /\ timers \in [clean : Nat, burst : Nat, overfull : Nat]
  /\ shedding \in BOOLEAN
  /\ stats \in [Counters -> Nat]
  /\ now \in Nat
  /\ network \in [first : Nat \cup {None}, newest : Nat \cup {None}]
  /\ history \in History

(* Every packet received is accounted for exactly once: it was late, it    *)
(* replaced a copy of itself, it was decoded, it was shed, or it is still  *)
(* buffered.  (insert and pop, jitter.rs)                                  *)
Conservation ==
  stats.received = stats.late + stats.duplicates + history.decoded
                   + stats.dropped + Cardinality(DOMAIN frames)

(* Within a period of playback every slot is walked once: the cursor stands*)
(* where the period began plus one slot per frame decoded, frame shed or   *)
(* gap filled.  (pop, jitter.rs)                                           *)
SlotAccounting == playing => next = history.origin + Slots

(* Nothing received is lost or played twice within the books the buffer    *)
(* keeps: packets and slots alike.  (insert and pop, jitter.rs)            *)
Accounting == Conservation /\ SlotAccounting

(* Nothing is buffered behind the cursor, where no pop would reach it.     *)
(* (the late check of insert, jitter.rs)                                   *)
NothingBehindCursor ==
  (playing <=> next # None) /\ (playing => \A k \in DOMAIN frames : k >= next)

(* Within a period frames come out in the order the sender numbered them,  *)
(* across losses, reordering, duplicates and the wrap of the wire number.  *)
InOrderWithinPeriod ==
  [][history'.decoded > history.decoded /\ history.last # None
       => history'.last > history.last]_vars

(* A slot is filled as a gap only when its frame has not been accepted     *)
(* since the last underrun: what arrived in time is played or shed.        *)
GapsAreGenuine ==
  [][stats'.lost > stats.lost => next' - 1 \notin history.accepted]_vars

(* Giving delay back never runs the buffer dry: the pop that sheds a frame *)
(* still produces one.                                                     *)
SheddingNeverStarves ==
  [][stats'.dropped > stats.dropped => stats'.underruns = stats.underruns]_vars

(* After every packet that is not late, a copy of a buffered one too, the  *)
(* target covers the worst run of losses remembered, as far as the preset  *)
(* allows.  (retarget, jitter.rs)                                          *)
TargetCoversBurst ==
  [][stats'.received > stats.received /\ stats'.late = stats.late
       => target' >= Clamp((burst'.longest + 2) * FrameMs)]_vars

(* A frame in the buffer of a playing stream is played or shed, however    *)
(* many gaps lie before it.                                                *)
BufferedFramesLeave ==
  \A n \in Numbers :
    (playing /\ n \in Range(frames)) ~> (n \notin Range(frames))

(* The buffer is a Playout: what waits are the frames buffered, under the  *)
(* numbers their senders gave them, and its cursor counts from the start of*)
(* the cycle of the first packet received.  (insert and pop, jitter.rs)    *)
Promised == INSTANCE Playout WITH
  waiting <- Range(frames),
  cursor <- IF playing THEN next + CycleStart(network.first) ELSE None,
  last <- history.last

ImplementsPlayout == Promised!Spec

(* The order arch.md promises without the limit to one period: "Frames     *)
(* arriving before next are counted late and dropped rather than played out*)
(* of order.  Duplicates are counted and ignored."                         *)
NothingPlayedTwice ==
  [][history'.decoded > history.decoded => history'.last \notin history.played]_vars
=============================================================================
