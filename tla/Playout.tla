-------------------------------- MODULE Playout --------------------------------
(***************************************************************************)
(* What a jitter buffer promises: packets wait until their slot comes, one *)
(* slot a turn, oldest first.  A packet whose slot has passed is not let in*)
(* again while playback lasts; a turn plays what waits for its slot, after *)
(* dropping the frame before it at most, and leaves a gap only if nothing  *)
(* waits for the slot but something does behind it; when nothing waits,    *)
(* playback ends.                                                          *)
(***************************************************************************)
EXTENDS Integers

CONSTANT Numbers     \* numbers of the packets the sender sends

VARIABLES
  waiting,           \* numbers of the packets that wait
  cursor,            \* number of the slot due, or None between two periods
  last               \* number played last in this period, or None

vars == <<waiting, cursor, last>>

None == -1

Init == waiting = {} /\ cursor = None /\ last = None

Accept(n) ==
  /\ cursor # None => n >= cursor
  /\ waiting' = waiting \cup {n}
  /\ UNCHANGED <<cursor, last>>

Play(slot, left) ==
  /\ slot \in left
  /\ waiting' = left \ {slot}
  /\ cursor' = slot + 1
  /\ last' = slot

Gap(slot, left) ==
  /\ slot \notin left /\ left # {}
  /\ waiting' = left
  /\ cursor' = slot + 1
  /\ last' = last

(* The slot a turn begins at: the one due, or that of the oldest packet.   *)
Due ==
  IF cursor = None THEN CHOOSE n \in waiting : \A m \in waiting : n <= m ELSE cursor

Walk ==
  /\ waiting # {}
  /\ \/ Play(Due, waiting) \/ Gap(Due, waiting)
     \/ Due \in waiting /\ (Play(Due + 1, waiting \ {Due}) \/ Gap(Due + 1, waiting \ {Due}))

RunDry ==
  /\ cursor # None /\ waiting = {}
  /\ cursor' = None /\ last' = None
  /\ UNCHANGED waiting

Next == (\E n \in Numbers : Accept(n)) \/ Walk \/ RunDry

(* Turns keep coming once playback has begun.                              *)
Spec == Init /\ [][Next]_vars /\ WF_vars(cursor # None /\ (Walk \/ RunDry))
=============================================================================
