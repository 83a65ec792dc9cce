----------------------------- MODULE PlaybackProofs -----------------------------
(***************************************************************************)
(* The handle of a session outlives its microphone, for as many threads as *)
(* are ever started and whatever the service does with the engine, if none *)
(* is started before those before it have ended.  What the service keeps   *)
(* and gives back does not depend on that: its theorems do not assume it.  *)
(***************************************************************************)
EXTENDS Playback, SequenceTheorems, TLAPS

Works(t) == Alive(t) \/ MicAlive(t)

(* Only the thread that was started last is at work, it connects the one   *)
(* session there is a handle to, and its microphone was given that.        *)
ThreadInv(t) ==
  /\ Works(t) => t = started
  /\ t > started => engine[t] = "unborn"
  /\ engine[t] \in {"unborn", "connecting"} => mic[t] = "none" /\ session[t] = "none"
  /\ engine[t] = "connected" => mic[t] = "none" /\ handle = t /\ session[t] = "open"
  /\ MicAlive(t) => given[t] = t /\ session[t] = "open"
  /\ handle = t => session[t] = "open" \/ engine[t] = "clearing"
  /\ Alive(t) /\ session[t] = "open" => handle = t
  /\ engine[t] \in {"freeing", "clearing"} => capture # t

EngineInv == EngineTypes /\ \A t \in Threads : ThreadInv(t)

(* What the service, or the engine by itself, does to the engine.          *)
EngineStep ==
  \/ \E next \in Targets : StartEngine(next)
  \/ Halt \/ Join
  \/ EngineNext

-----------------------------------------------------------------------------
LEMMA ThreadsAreNumbered == /\ Threads \subseteq Nat \ {0} /\ MaxStarts \in Nat
                            /\ \A t \in Threads : t # 0 /\ t \in 0 .. MaxStarts
  BY EngineAssumption DEF Threads

LEMMA InitEngineInv == InitEngine => EngineInv
<1> SUFFICES ASSUME InitEngine PROVE EngineInv
  OBVIOUS
<1>1. EngineTypes
  <2>1. /\ engine = [t \in Threads |-> "unborn"] /\ mic = [t \in Threads |-> "none"]
        /\ session = [t \in Threads |-> "none"] /\ plays = [t \in Threads |-> "listen"]
        /\ given = [t \in Threads |-> 0] /\ woken = {} /\ running = FALSE
        /\ handle = 0 /\ capture = 0 /\ thread = 0 /\ started = 0
    BY DEF InitEngine
  <2>2. 0 \in 0 .. MaxStarts /\ "listen" \in Targets
    BY ThreadsAreNumbered DEF Targets
  <2>3. given \in [Threads -> 0 .. MaxStarts] /\ plays \in [Threads -> Targets]
    BY <2>1, <2>2
  <2>4. running \in BOOLEAN /\ started \in 0 .. MaxStarts /\ thread \in {0, started}
        /\ woken \subseteq Threads
    BY <2>1, <2>2
  <2> QED
    BY <2>1, <2>3, <2>4 DEF EngineTypes
<1>2. ASSUME NEW t \in Threads PROVE ThreadInv(t)
  BY ThreadsAreNumbered DEF InitEngine, ThreadInv, Works, Alive, MicAlive
<1> QED
  BY <1>1, <1>2 DEF EngineInv

(* A start finds nobody at work, and numbers a thread that never was.      *)
LEMMA StartKeeps ==
  ASSUME Overlaps = FALSE, EngineInv, NEW next \in Targets, StartEngine(next)
  PROVE  EngineInv'
<1>1. CASE UNCHANGED engineVars
  BY <1>1 DEF engineVars, EngineInv, EngineTypes, ThreadInv, Works, Alive, MicAlive
<1>2. CASE ~running
  <2>1. CASE UNCHANGED engineVars
    BY <1>1, <2>1
  <2>2. CASE ~UNCHANGED engineVars
    <3> DEFINE u == started + 1
    <3>1. /\ Ended /\ started < MaxStarts
          /\ running' = TRUE /\ started' = u /\ thread' = u
          /\ plays' = [plays EXCEPT ![u] = next]
          /\ engine' = [engine EXCEPT ![u] = "connecting"]
          /\ UNCHANGED <<handle, capture, mic, given, woken, session>>
      BY <2>2 DEF StartEngine, EngineAt
    <3>2. /\ u \in Threads /\ started \in Nat /\ u \in 0 .. MaxStarts /\ u > started
      BY <3>1, EngineAssumption DEF EngineInv, EngineTypes, Threads
    <3> HIDE DEF u
    <3>3. handle = 0 /\ capture = 0
      BY <3>1 DEF Ended, EngineInv, EngineTypes
    <3>4. EngineTypes'
      BY <3>1, <3>2, <3>3 DEF EngineInv, EngineTypes
    <3>5. engine[u] = "unborn"
      BY <3>2 DEF EngineInv, ThreadInv
    <3>6. ASSUME NEW t \in Threads PROVE ThreadInv(t)'
      <4>1. CASE t = u
        BY <3>1, <3>2, <3>3, <3>5, <4>1, ThreadsAreNumbered
        DEF EngineInv, EngineTypes, ThreadInv, Works, Alive, MicAlive
      <4>2. CASE t # u
        <5>1. engine'[t] = engine[t] /\ ~Alive(t) /\ ~MicAlive(t)
          BY <3>1, <4>2 DEF EngineInv, EngineTypes, Ended
        <5>2. t > started' => t > started
          BY <3>1, <3>2, ThreadsAreNumbered DEF u
        <5> QED
          BY <3>1, <3>3, <5>1, <5>2, ThreadsAreNumbered
          DEF EngineInv, ThreadInv, Works, Alive, MicAlive
      <4> QED
        BY <4>1, <4>2
    <3> QED
      BY <3>4, <3>6 DEF EngineInv
  <2> QED
    BY <2>1, <2>2
<1> QED
  BY <1>1, <1>2 DEF StartEngine

LEMMA HaltKeeps ==
  ASSUME EngineInv, Halt \/ Join
  PROVE  EngineInv'
<1>1. /\ running' \in BOOLEAN /\ thread' \in {0, thread}
      /\ UNCHANGED <<handle, capture, started, plays, engine, mic, given, woken, session>>
  BY DEF Halt, Join, EngineInv, EngineTypes
<1>2. EngineTypes'
  BY <1>1 DEF EngineInv, EngineTypes, Alive
<1>3. ASSUME NEW t \in Threads PROVE ThreadInv(t)'
  BY <1>1 DEF EngineInv, ThreadInv, Works, Alive, MicAlive
<1> QED
  BY <1>2, <1>3 DEF EngineInv

-----------------------------------------------------------------------------
(* The audio thread.  Whoever takes a step was started last.               *)
LEMMA AudioAlive ==
  ASSUME NEW t \in Threads, AudioStep(t)
  PROVE  Alive(t)
BY DEF AudioStep, Connect, StartMicrophone, NoMicrophone, Loop, Fill, Finish, JoinMicrophone,
       Free, Clear, Alive

LEMMA AudioTyped ==
  ASSUME EngineInv, NEW t \in Threads, AudioStep(t)
  PROVE  EngineTypes'
<1> USE ThreadsAreNumbered
<1>0. t = started /\ \A u \in {handle, capture} : u # 0 => u = t
  BY AudioAlive DEF EngineInv, EngineTypes, ThreadInv, Works
<1>1. CASE Connect(t)
  BY <1>0, <1>1 DEF Connect, EngineAt, EngineInv, EngineTypes, Alive
<1>2. CASE StartMicrophone(t)
  BY <1>0, <1>2 DEF StartMicrophone, EngineAt, MicAt, EngineInv, EngineTypes, Alive
<1>3. CASE NoMicrophone(t)
  BY <1>0, <1>3 DEF NoMicrophone, EngineAt, EngineInv, EngineTypes, Alive
<1>4. CASE Loop(t)
  BY <1>0, <1>4 DEF Loop, EngineAt, EngineInv, EngineTypes, Alive
<1>5. CASE Fill(t)
  BY <1>0, <1>5 DEF Fill, EngineAt, EngineInv, EngineTypes, Alive
<1>6. CASE Finish(t)
  BY <1>0, <1>6 DEF Finish, Wakes, Recording, EngineAt, EngineInv, EngineTypes, Alive
<1>7. CASE JoinMicrophone(t)
  BY <1>0, <1>7 DEF JoinMicrophone, EngineAt, EngineInv, EngineTypes, Alive
<1>8. CASE Free(t)
  BY <1>0, <1>8 DEF Free, Frees, EngineAt, EngineInv, EngineTypes, Alive
<1>9. CASE Clear(t)
  <2>1. engine[t] = "clearing"
    BY <1>9 DEF Clear
  <2>2. capture = 0
    BY <1>0, <2>1 DEF EngineInv, ThreadInv
  <2> QED
    BY <1>0, <1>9, <2>2 DEF Clear, HandleCleared, EngineAt, EngineInv, EngineTypes, Alive
<1> QED
  BY <1>1, <1>2, <1>3, <1>4, <1>5, <1>6, <1>7, <1>8, <1>9 DEF AudioStep

LEMMA AudioKeeps ==
  ASSUME EngineInv, NEW t \in Threads, AudioStep(t)
  PROVE  EngineInv'
<1> USE ThreadsAreNumbered
<1>0. /\ t = started /\ started' = started
      /\ \A u \in Threads : u # t =>
           /\ ~Alive(u) /\ ~MicAlive(u) /\ handle # u /\ capture # u
           /\ engine[u] \notin {"connected", "freeing", "clearing", "connecting"}
  <2>1. t = started
    BY AudioAlive DEF EngineInv, ThreadInv, Works
  <2>2. started' = started
    BY DEF AudioStep, Connect, StartMicrophone, NoMicrophone, Loop, Fill, Finish,
           JoinMicrophone, Free, Clear
  <2>3. ASSUME NEW u \in Threads, u # t PROVE ~Alive(u) /\ ~MicAlive(u)
    BY <2>1, <2>3 DEF EngineInv, ThreadInv, Works
  <2> QED
    BY <2>1, <2>2, <2>3 DEF EngineInv, EngineTypes, Alive
<1>1. /\ engine \in [Threads -> {"unborn", "connecting", "connected", "looping", "filling",
                                 "ending", "joining", "freeing", "clearing", "done"}]
      /\ mic \in [Threads -> {"none", "opening", "checking", "reading", "sending", "done"}]
      /\ given \in [Threads -> 0 .. MaxStarts]
      /\ session \in [Threads -> {"none", "open", "freed"}]
      /\ handle \in {0, t} /\ ThreadInv(t)
  BY <1>0 DEF EngineInv, EngineTypes
<1>2. EngineTypes'
  BY AudioTyped
<1>3. /\ \A u \in Threads : u # t =>
           /\ UNCHANGED <<engine[u], mic[u], given[u]>>
           /\ session'[u] = session[u]
           /\ handle' # u /\ capture' # u
  BY <1>0, <1>1 DEF AudioStep, Connect, StartMicrophone, NoMicrophone, Loop, Fill, Finish,
       JoinMicrophone, Free, Frees, Clear, HandleCleared, EngineAt, MicAt
<1>4. ASSUME NEW u \in Threads, u # t PROVE ThreadInv(u)'
  <2>1. ThreadInv(u)
    BY DEF EngineInv
  <2> QED
    BY <1>0, <1>3, <1>4, <2>1 DEF ThreadInv, Works, Alive, MicAlive
<1>5. ThreadInv(t)'
  <2>1. CASE Connect(t)
    BY <1>0, <1>1, <2>1 DEF Connect, EngineAt, ThreadInv, Works, Alive, MicAlive
  <2>2. CASE StartMicrophone(t)
    BY <1>0, <1>1, <2>2 DEF StartMicrophone, EngineAt, MicAt, ThreadInv, Works, Alive, MicAlive
  <2>3. CASE NoMicrophone(t)
    BY <1>0, <1>1, <2>3 DEF NoMicrophone, EngineAt, ThreadInv, Works, Alive, MicAlive
  <2>4. CASE Loop(t)
    BY <1>0, <1>1, <2>4 DEF Loop, EngineAt, ThreadInv, Works, Alive, MicAlive
  <2>5. CASE Fill(t)
    BY <1>0, <1>1, <2>5 DEF Fill, EngineAt, ThreadInv, Works, Alive, MicAlive
  <2>6. CASE Finish(t)
    BY <1>0, <1>1, <2>6 DEF Finish, EngineAt, ThreadInv, Works, Alive, MicAlive
  <2>7. CASE JoinMicrophone(t)
    BY <1>0, <1>1, <2>7 DEF JoinMicrophone, EngineAt, ThreadInv, Works, Alive, MicAlive
  <2>8. CASE Free(t)
    BY <1>0, <1>1, <2>8 DEF Free, Frees, EngineAt, ThreadInv, Works, Alive, MicAlive
  <2>9. CASE Clear(t)
    BY <1>0, <1>1, <2>9 DEF Clear, HandleCleared, EngineAt, ThreadInv, Works, Alive, MicAlive
  <2> QED
    BY <2>1, <2>2, <2>3, <2>4, <2>5, <2>6, <2>7, <2>8, <2>9 DEF AudioStep
<1> QED
  BY <1>2, <1>4, <1>5 DEF EngineInv

-----------------------------------------------------------------------------
(* The microphone thread ends, or goes from one place of its to another.   *)
LEMMA MicMoves ==
  ASSUME EngineTypes, NEW t \in Threads, MicStep(t) \/ Read(t)
  PROVE  /\ MicAlive(t) /\ MicUnchanged
         /\ woken' \subseteq Threads
         /\ \E state \in {"checking", "reading", "sending", "done"} :
              mic' = [mic EXCEPT ![t] = state]
<1>1. woken \subseteq Threads
  BY DEF EngineTypes
<1>2. MicAlive(t)
  BY DEF MicStep, Open, Check, Read, ReadEnds, Send, MicAlive
<1>3. PICK state \in {"checking", "reading", "sending", "done"} : MicGoes(t, state)
  BY DEF MicStep, Open, Check, Read, ReadEnds, Send
<1> QED
  BY <1>1, <1>2, <1>3 DEF MicGoes, MicAt

LEMMA MicKeeps ==
  ASSUME EngineInv, NEW t \in Threads, MicStep(t) \/ Read(t)
  PROVE  EngineInv'
<1>1. PICK state \in {"checking", "reading", "sending", "done"} :
         mic' = [mic EXCEPT ![t] = state]
  BY MicMoves DEF EngineInv
<1>2. MicAlive(t) /\ MicUnchanged /\ woken' \subseteq Threads
  BY MicMoves DEF EngineInv
<1>3. EngineTypes'
  BY <1>1, <1>2 DEF MicUnchanged, EngineInv, EngineTypes, Alive
<1>4. ASSUME NEW u \in Threads PROVE ThreadInv(u)'
  <2>1. ThreadInv(u) /\ ThreadInv(t) /\ mic \in [Threads -> {"none", "opening", "checking",
                                                            "reading", "sending", "done"}]
    BY DEF EngineInv, EngineTypes
  <2>2. CASE u = t
    BY <1>1, <1>2, <2>1, <2>2 DEF MicUnchanged, ThreadInv, Works, Alive, MicAlive
  <2>3. CASE u # t
    BY <1>1, <1>2, <2>1, <2>3 DEF MicUnchanged, ThreadInv, Works, Alive, MicAlive
  <2> QED
    BY <2>2, <2>3
<1> QED
  BY <1>3, <1>4 DEF EngineInv

-----------------------------------------------------------------------------
(* What is true however the threads overlap.  One that is ending may clear *)
(* the handle of another, but what handle and capture name is a thread, and*)
(* one that has not ended.                                                 *)
TypedInv ==
  /\ EngineTypes
  /\ \A t \in Threads :
       /\ t > started => engine[t] = "unborn"
       /\ engine[t] \in {"freeing", "clearing"} => capture # t

LEMMA StartTyped ==
  ASSUME TypedInv, NEW next \in Targets, StartEngine(next)
  PROVE  TypedInv'
<1>1. CASE UNCHANGED engineVars
  BY <1>1 DEF engineVars, TypedInv, EngineTypes, Alive
<1>2. CASE ~UNCHANGED engineVars
  <2> DEFINE u == started + 1
  <2>1. /\ started < MaxStarts
        /\ running' = TRUE /\ started' = u /\ thread' = u
        /\ plays' = [plays EXCEPT ![u] = next]
        /\ engine' = [engine EXCEPT ![u] = "connecting"]
        /\ UNCHANGED <<handle, capture, mic, given, woken, session>>
    BY <1>2 DEF StartEngine, EngineAt
  <2>2. u \in Threads /\ u \in 0 .. MaxStarts /\ u > started /\ started \in Nat
    BY <2>1, EngineAssumption DEF TypedInv, EngineTypes, Threads
  <2>3. \A t \in Threads : t > u => t > started
    BY <2>2, ThreadsAreNumbered
  <2> HIDE DEF u
  <2>4. EngineTypes'
    BY <2>1, <2>2 DEF TypedInv, EngineTypes, Alive
  <2>5. ASSUME NEW t \in Threads
        PROVE  /\ t > started' => engine'[t] = "unborn"
               /\ engine'[t] \in {"freeing", "clearing"} => capture' # t
    <3>1. t = u => ~(t > u)
      BY <2>2, ThreadsAreNumbered
    <3> QED
      BY <2>1, <2>3, <3>1 DEF TypedInv, EngineTypes
  <2> QED
    BY <2>4, <2>5 DEF TypedInv
<1> QED
  BY <1>1, <1>2

(* Only the last step of a thread ends it, and by then it has no capture.  *)
LEMMA AudioTypedToo ==
  ASSUME TypedInv, NEW t \in Threads, AudioStep(t)
  PROVE  TypedInv'
<1> USE ThreadsAreNumbered
<1>0. /\ engine \in [Threads -> {"unborn", "connecting", "connected", "looping", "filling",
                                 "ending", "joining", "freeing", "clearing", "done"}]
      /\ \A u \in {handle, capture} : u = 0 \/ (u \in Threads /\ Alive(u))
  BY DEF TypedInv, EngineTypes
<1>1. /\ EngineTypes /\ engine[t] # "unborn" /\ Alive(t)
      /\ \A u \in Threads : u > started => engine[u] = "unborn"
      /\ \A u \in Threads : engine[u] \in {"freeing", "clearing"} => capture # u
  BY AudioAlive DEF TypedInv, Alive
<1>2. UNCHANGED <<started, plays>>
  BY DEF AudioStep, Connect, StartMicrophone, NoMicrophone, Loop, Fill, Finish,
         JoinMicrophone, Free, Clear
<1>3. EngineTypes'
  <2>1. CASE Connect(t)
    <3>1. \A u \in {handle', capture'} : u = 0 \/ (u \in Threads /\ Alive(u)')
      <4>1. PICK state \in {"connected", "ending"} : engine' = [engine EXCEPT ![t] = state]
        BY <2>1 DEF Connect, EngineAt
      <4>2. \A u \in Threads : Alive(u) => Alive(u)'
        BY <1>0, <4>1 DEF Alive
      <4>3. handle' \in {handle, t} /\ capture' = capture
        BY <2>1 DEF Connect
      <4> QED
        BY <1>0, <1>1, <4>2, <4>3
    <3> QED
      BY <1>1, <2>1, <3>1 DEF Connect, EngineAt, EngineTypes
  <2>2. CASE StartMicrophone(t)
    <3>1. \A u \in {handle', capture'} : u = 0 \/ (u \in Threads /\ Alive(u)')
      <4>1. PICK state \in {"looping", "ending"} : engine' = [engine EXCEPT ![t] = state]
        BY <2>2 DEF StartMicrophone, EngineAt
      <4>2. \A u \in Threads : Alive(u) => Alive(u)'
        BY <1>0, <4>1 DEF Alive
      <4>3. handle' = handle /\ capture' = t
        BY <2>2 DEF StartMicrophone
      <4> QED
        BY <1>0, <1>1, <4>2, <4>3
    <3>2. handle \in 0 .. MaxStarts
      <4>1. handle = 0 \/ handle \in Threads
        BY <1>0, Zenon
      <4>2. 0 \in 0 .. MaxStarts
        BY EngineAssumption
      <4> QED
        BY <4>1, <4>2, Zenon
    <3>3. given' \in [Threads -> 0 .. MaxStarts] /\ mic' = [mic EXCEPT ![t] = "opening"]
      BY <1>1, <2>2, <3>2 DEF StartMicrophone, MicAt, EngineTypes
    <3> QED
      BY <1>1, <2>2, <3>1, <3>3 DEF StartMicrophone, EngineAt, EngineTypes
  <2>3. CASE NoMicrophone(t)
    BY <1>1, <2>3 DEF NoMicrophone, EngineAt, EngineTypes, Alive
  <2>4. CASE Loop(t)
    BY <1>1, <2>4 DEF Loop, EngineAt, EngineTypes, Alive
  <2>5. CASE Fill(t)
    BY <1>1, <2>5 DEF Fill, EngineAt, EngineTypes, Alive
  <2>6. CASE Finish(t)
    BY <1>1, <2>6 DEF Finish, Wakes, Recording, EngineAt, EngineTypes, Alive
  <2>7. CASE JoinMicrophone(t)
    BY <1>1, <2>7 DEF JoinMicrophone, EngineAt, EngineTypes, Alive
  <2>8. CASE Free(t)
    BY <1>1, <2>8 DEF Free, Frees, EngineAt, EngineTypes, Alive
  <2>9. CASE Clear(t)
    <3>1. capture # t
      BY <1>1, <2>9 DEF Clear
    <3> QED
      BY <1>1, <2>9, <3>1 DEF Clear, HandleCleared, EngineAt, EngineTypes, Alive
  <2> QED
    BY <2>1, <2>2, <2>3, <2>4, <2>5, <2>6, <2>7, <2>8, <2>9 DEF AudioStep
<1>4. ASSUME NEW u \in Threads PROVE u > started' => engine'[u] = "unborn"
  BY <1>1, <1>2 DEF AudioStep, Connect, StartMicrophone, NoMicrophone, Loop, Fill, Finish,
       JoinMicrophone, Free, Clear, EngineAt, EngineTypes
<1>5. ASSUME NEW u \in Threads, engine'[u] \in {"freeing", "clearing"} PROVE capture' # u
  <2>1. CASE JoinMicrophone(t)
    BY <2>1 DEF JoinMicrophone
  <2>2. CASE StartMicrophone(t)
    <3>1. u # t
      BY <1>1, <1>5, <2>2 DEF StartMicrophone, EngineAt, EngineTypes
    <3> QED
      BY <2>2, <3>1 DEF StartMicrophone
  <2>3. CASE Connect(t) \/ NoMicrophone(t) \/ Loop(t) \/ Fill(t) \/ Finish(t) \/ Free(t)
             \/ Clear(t)
    <3>1. capture' = capture /\ engine[u] \in {"freeing", "clearing"}
      BY <1>1, <1>5, <2>3 DEF Connect, NoMicrophone, Loop, Fill, Finish, Free, Clear, EngineAt,
           EngineTypes
    <3> QED
      BY <1>1, <3>1
  <2> QED
    BY <2>1, <2>2, <2>3 DEF AudioStep
<1> QED
  BY <1>3, <1>4, <1>5 DEF TypedInv

LEMMA EngineTyped ==
  ASSUME TypedInv, EngineStep \/ UNCHANGED engineVars
  PROVE  TypedInv'
<1>1. CASE UNCHANGED engineVars
  BY <1>1 DEF engineVars, TypedInv, EngineTypes, Alive
<1>2. CASE Halt \/ Join
  BY <1>2 DEF Halt, Join, TypedInv, EngineTypes, Alive
<1>3. ASSUME NEW t \in Threads, MicStep(t) \/ Read(t) PROVE TypedInv'
  <2>1. PICK state \in {"checking", "reading", "sending", "done"} :
           mic' = [mic EXCEPT ![t] = state]
    BY <1>3, MicMoves DEF TypedInv
  <2>2. MicUnchanged /\ woken' \subseteq Threads
    BY <1>3, MicMoves DEF TypedInv
  <2> QED
    BY <2>1, <2>2 DEF MicUnchanged, TypedInv, EngineTypes, Alive
<1>4. CASE EngineNext
  BY <1>3, <1>4, AudioTypedToo DEF EngineNext
<1> QED
  BY <1>1, <1>2, <1>4, StartTyped DEF EngineStep

LEMMA EngineKeeps ==
  ASSUME Overlaps = FALSE, EngineInv, EngineStep \/ UNCHANGED engineVars
  PROVE  EngineInv'
<1>1. CASE UNCHANGED engineVars
  BY <1>1 DEF engineVars, EngineInv, EngineTypes, ThreadInv, Works, Alive, MicAlive
<1>2. CASE EngineNext
  BY <1>2, AudioKeeps, MicKeeps DEF EngineNext
<1> QED
  BY <1>1, <1>2, StartKeeps, HaltKeeps DEF EngineStep

(* Whatever the service does, it does no more to the engine than that, and *)
(* starts it for one of the two things there are to play.                  *)
TargetInv == target \in {"none"} \cup Targets

LEMMA TargetKept == TargetInv /\ [Next]_vars => TargetInv'
<1> SUFFICES ASSUME TargetInv, [Next]_vars PROVE TargetInv'
  OBVIOUS
<1>1. UNCHANGED target \/ target' \in {"none"} \cup Targets
  BY DEF Next, vars, serviceVars, StartCommand, Woken, User, FocusLost, FocusLostForNow,
         FocusGained, CallsBack, Available, Lost, Destroy, SetVolume, HaltStep, JoinStep, RestoreStep,
         StartStep, MainStep, ChooseStep, RequestStep, PauseStep, UnpauseStep, GiveBackStep,
         WatchStep, StopSelfStep, DestroyedStep
<1> QED
  BY <1>1 DEF TargetInv

LEMMA ServiceStep ==
  ASSUME TargetInv, [Next]_vars
  PROVE  EngineStep \/ UNCHANGED engineVars
<1>1. CASE \E next \in Targets : StartCommand(next)
  BY <1>1 DEF StartCommand, Begins
<1>2. CASE Woken \/ User \/ FocusLost \/ FocusLostForNow \/ FocusGained
  BY <1>2 DEF Woken, User, FocusLost, FocusLostForNow, FocusGained, Begins
<1>3. CASE Available \/ Lost \/ Destroy \/ \E level \in Choices : SetVolume(level)
  BY <1>3 DEF Available, Lost, Destroy, SetVolume, Begins, CallsBack
<1>4. CASE \E c \in Callers : HaltStep(c) \/ JoinStep(c) \/ RestoreStep(c)
  BY <1>4 DEF HaltStep, JoinStep, RestoreStep, EngineStep
<1>5. CASE \E c \in Callers : StartStep(c)
  <2>1. UNCHANGED engineVars \/ (target # "none" /\ StartEngine(target))
    BY <1>5 DEF StartStep
  <2> QED
    BY <2>1 DEF TargetInv, EngineStep
<1>6. CASE MainStep
  BY <1>6 DEF MainStep, ChooseStep, RequestStep, PauseStep, UnpauseStep, GiveBackStep,
              WatchStep, StopSelfStep, DestroyedStep
<1>7. CASE EngineNext
  BY <1>7 DEF EngineStep
<1>8. CASE UNCHANGED vars
  BY <1>8 DEF vars
<1> QED
  BY <1>1, <1>2, <1>3, <1>4, <1>5, <1>6, <1>7, <1>8 DEF Next

LEMMA EngineAlways ==
  ASSUME Overlaps = FALSE
  PROVE  Spec => []EngineInv
<1>1. Init => EngineInv /\ TargetInv
  BY InitEngineInv DEF Init, TargetInv
<1>2. EngineInv /\ TargetInv /\ [Next]_vars => EngineInv' /\ TargetInv'
  BY EngineKeeps, ServiceStep, TargetKept
<1> QED
  BY <1>1, <1>2, PTL DEF Spec

-----------------------------------------------------------------------------
(* However often and in whatever order the service starts and stops the    *)
(* engine, and however long a microphone stays in its device, no handle is *)
(* freed under a microphone thread that has it (AudioEngine.kt:124-138).   *)
THEOREM HandleOutlivesMicrophone ==
  ASSUME Overlaps = FALSE
  PROVE  Spec => []MicrophoneHasHandle
<1>1. EngineInv => MicrophoneHasHandle
  BY DEF EngineInv, ThreadInv, MicrophoneHasHandle
<1> QED
  BY <1>1, EngineAlways, PTL

(* And none is kept that no microphone has: a thread gives its session back*)
(* as it ends, or leaks it to the microphone (AudioEngine.kt:131-140).     *)
THEOREM NoSessionForgotten ==
  ASSUME Overlaps = FALSE
  PROVE  Spec => SessionsGivenBack
<1> DEFINE A == \A t \in Threads :
                  engine[t] = "freeing" /\ engine'[t] = "clearing" =>
                    session'[t] # "open" \/ MicAlive(t)
<1>1. ASSUME EngineInv, EngineStep PROVE A
  <2> SUFFICES ASSUME NEW t \in Threads, engine[t] = "freeing", engine'[t] = "clearing",
                      ~MicAlive(t)
               PROVE  session'[t] # "open"
    OBVIOUS
  <2>1. /\ engine \in [Threads -> {"unborn", "connecting", "connected", "looping", "filling",
                                   "ending", "joining", "freeing", "clearing", "done"}]
        /\ session \in [Threads -> {"none", "open", "freed"}]
        /\ ThreadInv(t)
    BY <1>1 DEF EngineInv, EngineTypes
  <2>2. Free(t)
    BY <1>1, <2>1 DEF EngineStep, StartEngine, Halt, Join, EngineNext, AudioStep, Connect,
      StartMicrophone, NoMicrophone, Loop, Fill, Finish, JoinMicrophone, Free, Clear,
      MicStep, Open, Check, Read, ReadEnds, Send, MicGoes, MicUnchanged, EngineAt, engineVars
  <2>3. CASE handle = t
    BY <2>1, <2>2, <2>3, ThreadsAreNumbered DEF Free, Frees
  <2>4. CASE handle # t
    <3>1. session[t] # "open"
      BY <2>1, <2>4 DEF ThreadInv, Alive
    <3>2. session'[t] = session[t]
      BY <2>1, <2>2, <2>4 DEF Free
    <3> QED
      BY <3>1, <3>2
  <2> QED
    BY <2>3, <2>4
<1>2. EngineInv /\ TargetInv /\ [Next]_vars => [A]_engineVars
  BY <1>1, ServiceStep
<1>3. Init => TargetInv
  BY DEF Init, TargetInv
<1>4. Spec => []TargetInv
  BY <1>3, TargetKept, PTL DEF Spec
<1>5. Spec => [][Next]_vars
  BY DEF Spec
<1>6. Spec => [][A]_engineVars
  BY <1>2, <1>4, <1>5, EngineAlways, PTL
<1> QED
  BY <1>6 DEF SessionsGivenBack

-----------------------------------------------------------------------------
(* Scripts: which step may follow which, and which be the last.            *)
Steps == Targets \cup {"halt", "join", "restore", "request", "start", "pause", "giveBack",
                       "unpause", "stopSelf", "destroyed", "watch"}

Follows ==
  {<<"pause", "halt">>, <<"unpause", "halt">>, <<"halt", "join">>, <<"join", "restore">>,
   <<"restore", "giveBack">>, <<"restore", "stopSelf">>, <<"restore", "listen">>,
   <<"restore", "call">>, <<"restore", "idle">>, <<"listen", "request">>,
   <<"call", "request">>, <<"request", "start">>, <<"start", "watch">>, <<"start", "idle">>,
   <<"watch", "idle">>, <<"giveBack", "destroyed">>, <<"giveBack", "idle">>,
   <<"stopSelf", "idle">>, <<"destroyed", "idle">>}

Chain(s) ==
  /\ s \in Seq(Steps) /\ Len(s) \in Nat \ {0}
  /\ \A k \in 1 .. Len(s) - 1 : <<s[k], s[k + 1]>> \in Follows

(* A pause gives back last.                                                *)
Script(s) ==
  \/ s = <<>>
  \/ /\ Chain(s) /\ <<s[Len(s)], "idle">> \in Follows
     /\ s[1] = "pause" => s[Len(s)] = "giveBack"

(* At most n steps from a to b.                                            *)
Piece(s, a, b, n) == Chain(s) /\ s[1] = a /\ s[Len(s)] = b /\ Len(s) <= n

LEMMA Linked ==
  ASSUME NEW s, NEW u, NEW a, NEW b, NEW c, NEW d, NEW m \in Nat, NEW n \in Nat,
         Piece(s, a, b, m), Piece(u, c, d, n), <<b, c>> \in Follows
  PROVE  Piece(s \o u, a, d, m + n)
<1> DEFINE both == s \o u
           k == Len(s)
           l == Len(u)
<1>1. /\ k \in Nat \ {0} /\ l \in Nat \ {0} /\ k <= m /\ l <= n
      /\ s \in Seq(Steps) /\ u \in Seq(Steps)
      /\ s[1] = a /\ s[k] = b /\ u[1] = c /\ u[l] = d
      /\ \A i \in 1 .. k - 1 : <<s[i], s[i + 1]>> \in Follows
      /\ \A i \in 1 .. l - 1 : <<u[i], u[i + 1]>> \in Follows
  BY DEF Piece, Chain
<1>2. /\ both \in Seq(Steps) /\ Len(both) = k + l
      /\ \A i \in 1 .. k + l : both[i] = IF i <= k THEN s[i] ELSE u[i - k]
  BY <1>1, ConcatProperties
<1> HIDE DEF both, k, l
<1>6. ASSUME NEW i \in 1 .. l PROVE both[k + i] = u[i]
  <2>1. k + i \in 1 .. k + l /\ ~(k + i <= k) /\ (k + i) - k = i
    BY <1>1
  <2> QED
    BY <1>2, <2>1
<1>3. ASSUME NEW i \in 1 .. k + l - 1 PROVE <<both[i], both[i + 1]>> \in Follows
  <2>1. i \in 1 .. k + l /\ i + 1 \in 1 .. k + l
    BY <1>1
  <2>2. CASE i < k
    <3>1. i \in 1 .. k - 1 /\ i <= k /\ i + 1 <= k
      BY <1>1, <2>2
    <3> QED
      BY <1>1, <1>2, <2>1, <3>1
  <2>3. CASE i = k
    <3>1. both[i] = s[i] /\ s[i] = b
      <4>1. i <= k
        BY <1>1, <2>3
      <4> QED
        BY <1>1, <1>2, <2>1, <2>3, <4>1
    <3>2. both[i + 1] = u[1]
      <4>1. 1 \in 1 .. l /\ i + 1 = k + 1
        BY <1>1, <2>3
      <4> QED
        BY <1>6, <4>1
    <3> QED
      BY <1>1, <3>1, <3>2
  <2>4. CASE i > k
    <3>1. PICK j \in 1 .. l - 1 : i = k + j
      <4>1. i - k \in 1 .. l - 1 /\ i = k + (i - k)
        BY <1>1, <2>4
      <4> QED
        BY <4>1
    <3>2. j \in 1 .. l /\ j + 1 \in 1 .. l /\ i + 1 = k + (j + 1)
      BY <1>1, <3>1
    <3>3. both[i] = u[j] /\ both[i + 1] = u[j + 1]
      <4>1. both[k + j] = u[j] /\ both[k + (j + 1)] = u[j + 1]
        BY <1>6, <3>2
      <4> QED
        BY <3>1, <3>2, <4>1
    <3> QED
      BY <1>1, <3>3
  <2> QED
    BY <1>1, <2>2, <2>3, <2>4
<1>4. both[1] = a /\ both[k + l] = d
  <2>1. 1 \in 1 .. k + l /\ 1 <= k /\ k + l \in 1 .. k + l /\ ~(k + l <= k) /\ k + l - k = l
    BY <1>1
  <2>2. both[1] = s[1]
    BY <1>2, <2>1
  <2>3. both[k + l] = u[l]
    <3>1. l \in 1 .. l
      BY <1>1
    <3> QED
      BY <1>6, <3>1
  <2> QED
    BY <1>1, <2>2, <2>3
<1>5. Piece(both, a, d, m + n)
  BY <1>1, <1>2, <1>3, <1>4 DEF Piece, Chain
<1> QED
  BY <1>5 DEF both

LEMMA OneStep ==
  ASSUME NEW p \in Steps
  PROVE  Piece(<<p>>, p, p, 1)
BY DEF Piece, Chain

LEMMA PieceScript ==
  ASSUME NEW s, NEW a, NEW b, NEW n \in Nat, Piece(s, a, b, n), n <= 7,
         <<b, "idle">> \in Follows, a = "pause" => b = "giveBack"
  PROVE  Script(s) /\ s # <<>> /\ Len(s) <= 7 /\ s[1] = a /\ s[Len(s)] = b
<1>1. Len(s) # 0 /\ Len(<<>>) = 0
  BY EmptySeq DEF Piece, Chain
<1> QED
  BY <1>1 DEF Piece, Script, Chain

LEMMA TwoSteps ==
  ASSUME NEW a \in Steps, NEW b \in Steps, <<a, b>> \in Follows
  PROVE  Piece(<<a, b>>, a, b, 2)
<1>1. <<a, b>> \in Seq(Steps) /\ Len(<<a, b>>) = 2 /\ <<a, b>>[1] = a /\ <<a, b>>[2] = b
  OBVIOUS
<1> QED
  BY <1>1 DEF Piece, Chain

LEMMA StoppingPiece == Piece(Stopping, "halt", "restore", 3)
<1>1. \A a, b, c \in Steps : <<a, b, c>> \in Seq(Steps)
  OBVIOUS
<1>2. Stopping \in Seq(Steps)
  BY <1>1 DEF Stopping, Steps
<1>3. Len(Stopping) = 3 /\ Stopping[1] = "halt" /\ Stopping[2] = "join" /\ Stopping[3] = "restore"
  BY DEF Stopping
<1>4. ASSUME NEW k \in 1 .. 2 PROVE <<Stopping[k], Stopping[k + 1]>> \in Follows
  <2>1. CASE k = 1
    BY <1>3, <2>1 DEF Follows
  <2>2. CASE k = 2
    BY <1>3, <2>2 DEF Follows
  <2> QED
    BY <2>1, <2>2
<1> QED
  BY <1>2, <1>3, <1>4 DEF Piece, Chain

LEMMA PiecesBegun ==
  /\ Piece(PlayingOn, "request", "start", 2)
  /\ Piece(Pausing, "pause", "giveBack", 1 + 3 + 1)
  /\ Piece(StoppingSelf, "unpause", "stopSelf", 1 + 3 + 1)
  /\ Piece(Destroying, "halt", "destroyed", 3 + 2)
  /\ \A next \in Targets :
       Piece(Commanded(next), IF Switches(next) THEN "halt" ELSE next, "watch", 3 + 1 + 2 + 1)
<1>1. Steps = {"listen", "call", "halt", "join", "restore", "request", "start", "pause",
               "giveBack", "unpause", "stopSelf", "destroyed", "watch"}
  BY DEF Steps, Targets
<1>2. Piece(PlayingOn, "request", "start", 2)
  BY <1>1, TwoSteps DEF PlayingOn, Follows
<1>3. ASSUME NEW first \in {"pause", "unpause"}, NEW last \in {"giveBack", "stopSelf"}
      PROVE  Piece(<<first>> \o Stopping \o <<last>>, first, last, 1 + 3 + 1)
  <2>1. Piece(<<first>>, first, first, 1) /\ Piece(<<last>>, last, last, 1)
    BY <1>1, OneStep
  <2>2. <<first, "halt">> \in Follows /\ <<"restore", last>> \in Follows
    BY DEF Follows
  <2>3. Piece(<<first>> \o Stopping, first, "restore", 1 + 3)
    BY <2>1, <2>2, StoppingPiece, Linked
  <2> DEFINE begun == <<first>> \o Stopping
  <2> HIDE DEF begun
  <2>4. Piece(begun \o <<last>>, first, last, (1 + 3) + 1)
    BY <2>1, <2>2, <2>3, Linked DEF begun
  <2> QED
    BY <2>4 DEF begun
<1>4. Piece(Destroying, "halt", "destroyed", 3 + 2)
  <2>1. Piece(<<"giveBack", "destroyed">>, "giveBack", "destroyed", 2)
    BY <1>1, TwoSteps DEF Follows
  <2>2. <<"restore", "giveBack">> \in Follows
    BY DEF Follows
  <2> QED
    BY <2>1, <2>2, StoppingPiece, Linked DEF Destroying
<1>5. ASSUME NEW next \in Targets
      PROVE  Piece(Commanded(next), IF Switches(next) THEN "halt" ELSE next, "watch",
                   3 + 1 + 2 + 1)
  <2> DEFINE first == IF Switches(next) THEN "halt" ELSE next
             before == IF Switches(next) THEN Stopping ELSE <<>>
             chosen == before \o <<next>>
             on == chosen \o PlayingOn
             all == on \o <<"watch">>
  <2>1. Piece(<<next>>, next, next, 1) /\ Piece(<<"watch">>, "watch", "watch", 1)
    BY <1>1, OneStep DEF Targets
  <2>2. /\ <<"restore", next>> \in Follows /\ <<next, "request">> \in Follows
        /\ <<"start", "watch">> \in Follows
    BY DEF Follows, Targets
  <2>3. Piece(chosen, first, next, 3 + 1)
    <3>1. CASE Switches(next)
      <4>1. Piece(Stopping \o <<next>>, "halt", next, 3 + 1)
        BY <2>1, <2>2, StoppingPiece, Linked
      <4> QED
        BY <3>1, <4>1
    <3>2. CASE ~Switches(next)
      <4>1. <<next>> \in Seq(Steps)
        BY <2>1 DEF Piece, Chain
      <4>2. <<>> \o <<next>> = <<next>>
        BY <4>1, ConcatEmptySeq
      <4>3. chosen = <<next>> /\ first = next
        BY <3>2, <4>2
      <4>4. Piece(<<next>>, next, next, 3 + 1)
        BY <2>1 DEF Piece
      <4> QED
        BY <4>3, <4>4
    <3> QED
      BY <3>1, <3>2
  <2> HIDE DEF chosen, first
  <2>4. Piece(on, first, "start", (3 + 1) + 2)
    BY <1>2, <2>2, <2>3, Linked
  <2> HIDE DEF on
  <2>5. Piece(all, first, "watch", ((3 + 1) + 2) + 1)
    BY <2>1, <2>2, <2>4, Linked
  <2> QED
    BY <2>5 DEF all, on, chosen, first, Commanded
<1> QED
  BY <1>2, <1>3, <1>4, <1>5 DEF Pausing, StoppingSelf

(* Where a thread is, and where it will end.                               *)
FirstOf(s) == IF s = <<>> THEN "idle" ELSE s[1]
LastOf(s) == IF s = <<>> THEN "idle" ELSE s[Len(s)]

At(c) == FirstOf(script[c])
Ends(c) == LastOf(script[c])

LEMMA TailScript ==
  ASSUME NEW s, Script(s), s # <<>>, Len(s) <= 7
  PROVE  /\ Tail(s) \in Seq(Steps) /\ Script(Tail(s)) /\ Len(Tail(s)) <= 7
         /\ Head(s) = FirstOf(s)
         /\ <<FirstOf(s), FirstOf(Tail(s))>> \in Follows
         /\ LastOf(Tail(s)) = IF Tail(s) = <<>> THEN "idle" ELSE LastOf(s)
         /\ Tail(s) = <<>> => LastOf(s) = FirstOf(s)
<1> DEFINE rest == Tail(s)
           n == Len(s)
<1>1. /\ s \in Seq(Steps) /\ n \in Nat \ {0}
      /\ \A k \in 1 .. n - 1 : <<s[k], s[k + 1]>> \in Follows
      /\ <<s[n], "idle">> \in Follows /\ n <= 7
  BY DEF Script, Chain
<1>2. /\ rest \in Seq(Steps) /\ Len(rest) = n - 1
      /\ \A k \in 1 .. Len(rest) : rest[k] = s[k + 1]
  BY <1>1, HeadTailProperties
<1>3. Head(s) = s[1] /\ FirstOf(s) = s[1] /\ LastOf(s) = s[n]
  BY DEF FirstOf, LastOf
<1> HIDE DEF rest, n
<1>4. CASE n = 1
  <2>1. rest = <<>>
    BY <1>2, <1>4, EmptySeq
  <2>2. Script(rest) /\ FirstOf(rest) = "idle" /\ LastOf(rest) = "idle"
    BY <2>1 DEF Script, FirstOf, LastOf
  <2> QED
    BY <1>1, <1>2, <1>3, <1>4, <2>1, <2>2 DEF rest
<1>5. CASE n > 1
  <2>1. n - 1 \in Nat \ {0} /\ Len(rest) # 0
    BY <1>1, <1>2, <1>5
  <2>2. rest # <<>>
    BY <2>1, EmptySeq
  <2>3. rest[1] = s[2] /\ rest[n - 1] = s[n]
    <3>1. 1 \in 1 .. Len(rest) /\ n - 1 \in 1 .. Len(rest) /\ (n - 1) + 1 = n /\ 1 + 1 = 2
      BY <1>1, <1>2, <2>1
    <3> QED
      BY <1>2, <3>1
  <2>4. ASSUME NEW k \in 1 .. Len(rest) - 1 PROVE <<rest[k], rest[k + 1]>> \in Follows
    <3>1. k + 1 \in 1 .. n - 1 /\ k \in 1 .. Len(rest) /\ k + 1 \in 1 .. Len(rest)
      BY <1>1, <1>2
    <3>2. <<s[k + 1], s[k + 1 + 1]>> \in Follows
      BY <1>1, <3>1
    <3> QED
      BY <1>2, <3>1, <3>2
  <2>5. <<s[1], s[2]>> \in Follows
    <3>1. 1 \in 1 .. n - 1 /\ 1 + 1 = 2
      BY <1>1, <1>5
    <3> QED
      BY <1>1, <3>1
  <2>6. s[2] # "pause"
    BY <2>5 DEF Follows
  <2>7. FirstOf(rest) = s[2] /\ LastOf(rest) = s[n] /\ rest[Len(rest)] = s[n]
    BY <1>2, <2>2, <2>3 DEF FirstOf, LastOf
  <2>8. Script(rest)
    BY <1>1, <1>2, <2>1, <2>3, <2>4, <2>6, <2>7 DEF Script, Chain
  <2>9. Len(rest) <= 7
    BY <1>1, <1>2
  <2> QED
    BY <1>2, <1>3, <2>2, <2>5, <2>7, <2>8, <2>9 DEF rest
<1> QED
  BY <1>1, <1>4, <1>5

-----------------------------------------------------------------------------
(* The threads of the service.                                             *)
ScriptsInv ==
  /\ script \in [Callers -> Seq(Steps)]
  /\ \A c \in Callers : Script(script[c]) /\ Len(script[c]) <= 7

(* Thread c comes to have script s.                                        *)
Becomes(c, s) == script' = [script EXCEPT ![c] = s]

LEMMA ScriptsMove ==
  ASSUME ScriptsInv, NEW c \in Callers, NEW s, Becomes(c, s),
         Script(s), s \in Seq(Steps), Len(s) <= 7
  PROVE  /\ ScriptsInv'
         /\ At(c)' = FirstOf(s) /\ Ends(c)' = LastOf(s)
         /\ \A d \in Callers \ {c} : At(d)' = At(d) /\ Ends(d)' = Ends(d)
<1>1. script' \in [Callers -> Seq(Steps)] /\ script'[c] = s
      /\ \A d \in Callers \ {c} : script'[d] = script[d]
  BY DEF ScriptsInv, Becomes
<1>2. ASSUME NEW d \in Callers PROVE Script(script'[d]) /\ Len(script'[d]) <= 7
  <2>1. CASE d = c
    BY <1>1, <2>1
  <2>2. CASE d # c
    BY <1>1, <2>2 DEF ScriptsInv
  <2> QED
    BY <2>1, <2>2
<1> QED
  BY <1>1, <1>2 DEF ScriptsInv, At, Ends

(* A thread that begins was idle.                                          *)
LEMMA ScriptsBegin ==
  ASSUME ScriptsInv, NEW c \in Callers, NEW s, script[c] = <<>>, Becomes(c, s),
         NEW a, NEW b, NEW n \in Nat, Piece(s, a, b, n), n <= 7,
         <<b, "idle">> \in Follows, a = "pause" => b = "giveBack"
  PROVE  /\ ScriptsInv' /\ At(c) = "idle" /\ Ends(c) = "idle" /\ At(c)' = a /\ Ends(c)' = b
         /\ \A d \in Callers \ {c} : At(d)' = At(d) /\ Ends(d)' = Ends(d)
<1>1. Script(s) /\ s # <<>> /\ Len(s) <= 7 /\ s[1] = a /\ s[Len(s)] = b
  BY PieceScript
<1>2. s \in Seq(Steps)
  BY DEF Piece, Chain
<1>3. FirstOf(s) = a /\ LastOf(s) = b
  BY <1>1 DEF FirstOf, LastOf
<1>4. At(c) = "idle" /\ Ends(c) = "idle"
  BY DEF At, Ends, FirstOf, LastOf
<1> QED
  BY <1>1, <1>2, <1>3, <1>4, ScriptsMove

LEMMA ScriptsStay ==
  ASSUME ScriptsInv, script' = script
  PROVE  ScriptsInv' /\ \A c \in Callers : At(c)' = At(c) /\ Ends(c)' = Ends(c)
BY DEF ScriptsInv, At, Ends

(* A step is the first of its thread's, and what it leaves may follow.     *)
LEMMA ScriptsDo ==
  ASSUME ScriptsInv, NEW c \in Callers, NEW step, Does(c, step)
  PROVE  /\ ScriptsInv' /\ At(c) = step /\ <<step, At(c)'>> \in Follows
         /\ Ends(c)' = IF At(c)' = "idle" THEN "idle" ELSE Ends(c)
         /\ At(c)' = "idle" => Ends(c) = step
         /\ \A d \in Callers \ {c} : At(d)' = At(d) /\ Ends(d)' = Ends(d)
<1> DEFINE s == script[c]
           rest == Tail(s)
<1>1. Script(s) /\ Len(s) <= 7 /\ s # <<>> /\ Head(s) = step /\ Becomes(c, rest)
  BY DEF ScriptsInv, Does, Becomes
<1>2. At(c) = FirstOf(s) /\ Ends(c) = LastOf(s)
  BY DEF At, Ends
<1> HIDE DEF s
<1>3. /\ rest \in Seq(Steps) /\ Script(rest) /\ Len(rest) <= 7
      /\ Head(s) = FirstOf(s)
      /\ <<FirstOf(s), FirstOf(rest)>> \in Follows
      /\ LastOf(rest) = IF rest = <<>> THEN "idle" ELSE LastOf(s)
      /\ rest = <<>> => LastOf(s) = FirstOf(s)
  BY <1>1, TailScript
<1> HIDE DEF rest
<1>4. /\ ScriptsInv'
      /\ At(c)' = FirstOf(rest) /\ Ends(c)' = LastOf(rest)
      /\ \A d \in Callers \ {c} : At(d)' = At(d) /\ Ends(d)' = Ends(d)
  BY <1>1, <1>3, ScriptsMove
<1>5. rest # <<>> => FirstOf(rest) # "idle"
  <2> SUFFICES ASSUME rest # <<>> PROVE FirstOf(rest) # "idle"
    OBVIOUS
  <2>1. FirstOf(rest) = rest[1] /\ rest[1] \in Steps
    BY <1>3, EmptySeq, ElementOfSeq DEF FirstOf
  <2> QED
    BY <2>1 DEF Steps, Targets
<1>6. rest = <<>> => FirstOf(rest) = "idle"
  BY DEF FirstOf
<1> QED
  BY <1>1, <1>2, <1>3, <1>4, <1>5, <1>6

LEMMA Successors ==
  ASSUME NEW x
  PROVE  /\ <<"halt", x>> \in Follows => x = "join"
         /\ <<"join", x>> \in Follows => x = "restore"
         /\ <<"restore", x>> \in Follows => x \in {"giveBack", "stopSelf", "idle"} \cup Targets
         /\ <<"start", x>> \in Follows => x \in {"watch", "idle"}
         /\ <<"request", x>> \in Follows => x = "start"
         /\ <<"pause", x>> \in Follows => x = "halt"
         /\ <<"unpause", x>> \in Follows => x = "halt"
         /\ <<"giveBack", x>> \in Follows => x \in {"destroyed", "idle"}
         /\ \A y \in {"watch", "stopSelf", "destroyed"} : <<y, x>> \in Follows => x = "idle"
         /\ \A y \in Targets : <<y, x>> \in Follows => x = "request"
BY DEF Follows, Targets

(* A denied request skips the start that follows it.                       *)
LEMMA ScriptsSkip ==
  ASSUME ScriptsInv, Becomes("main", Tail(Tail(script["main"]))),
         script["main"] # <<>>, Head(script["main"]) = "request"
  PROVE  /\ ScriptsInv' /\ At("main") = "request" /\ At("main")' \in {"watch", "idle"}
         /\ At("network")' = At("network") /\ Ends("network")' = Ends("network")
<1> DEFINE s == script["main"]
           one == Tail(s)
           two == Tail(one)
<1>0. "main" \in Callers /\ "network" \in Callers \ {"main"}
  BY DEF Callers
<1>1. Script(s) /\ Len(s) <= 7 /\ s # <<>> /\ Head(s) = "request" /\ Becomes("main", two)
  BY <1>0 DEF ScriptsInv
<1>2. At("main") = FirstOf(s)
  BY DEF At
<1> HIDE DEF s
<1>3. /\ one \in Seq(Steps) /\ Script(one) /\ Len(one) <= 7
      /\ FirstOf(s) = "request" /\ <<"request", FirstOf(one)>> \in Follows
  BY <1>1, TailScript
<1> HIDE DEF one
<1>4. FirstOf(one) = "start"
  BY <1>3, Successors
<1>5. one # <<>>
  BY <1>4 DEF FirstOf
<1>6. /\ two \in Seq(Steps) /\ Script(two) /\ Len(two) <= 7
      /\ <<"start", FirstOf(two)>> \in Follows
  BY <1>3, <1>4, <1>5, TailScript
<1> HIDE DEF two
<1>7. FirstOf(two) \in {"watch", "idle"}
  BY <1>6, Successors
<1>8. /\ ScriptsInv' /\ At("main")' = FirstOf(two)
      /\ \A d \in Callers \ {"main"} : At(d)' = At(d) /\ Ends(d)' = Ends(d)
  BY <1>0, <1>1, <1>6, ScriptsMove
<1> QED
  BY <1>0, <1>2, <1>3, <1>7, <1>8

-----------------------------------------------------------------------------
(* The service's own variables.                                            *)
AudioInv ==
  /\ mode \in {"normal", "communication"}
  /\ volume \in Levels /\ own \in Levels /\ saved \in 0 .. Loudest - 1

HeldInv ==
  /\ service \in {"down", "up", "ending"} /\ paused \in BOOLEAN
  /\ locks \in BOOLEAN /\ watching \in BOOLEAN
  /\ focus \in {"none", "held", "lost", "denied"}
  /\ contested \subseteq Threads

(* What the service keeps, whatever its threads do at once.                *)
NothingHeld == ~locks /\ focus = "none"

GivesInv ==
  /\ paused => NothingHeld \/ Ends("main") = "giveBack"
  /\ At("main") = "destroyed" => NothingHeld
  /\ service = "down" => NothingHeld /\ ~watching /\ At("main") = "idle"

(* The network's callback is about to make a start, or within a stop.      *)
NetScripts == {<<>>, <<"start">>, Stopping, <<"join", "restore">>, <<"restore">>}

NetInv == script["network"] \in NetScripts

(* A start that was checked before a pause, and is made after it, is known.*)
MeetInv ==
  /\ At("main") = "start" => ~paused
  /\ Starting /\ (paused \/ At("main") = "pause") => NextStart \subseteq contested
  /\ paused /\ running => started \in contested \/ At("main") = "halt"

(* And if no callback goes on amid a method of the main thread.            *)
AloneInv ==
  /\ At("main") = "idle" \/ At("network") \in {"idle", "start"}
  /\ service = "down" => At("network") = "idle"

Stopped == {"join", "restore", "giveBack", "stopSelf", "destroyed"}

PausedInv ==
  /\ At("main") \in Stopped \/ At("network") \in Stopped => ~running
  /\ paused => \/ started \in contested \/ At("main") = "halt"
               \/ ~running /\ (At("main") = "join" \/ thread = 0)

ChosenInv ==
  /\ running => /\ thread # 0 /\ plays[thread] = target
                /\ mode = "communication" <=> target = "call"
  /\ At("main") \in Targets => ~running \/ At("main") = target

VolumeInv ==
  /\ own = Loudest \/ volume = own \/ (volume = Loudest /\ saved = own)
  /\ paused => \/ saved = 0 \/ started \in contested
               \/ At("main") \in {"halt", "join", "restore"}
  /\ At("main") \in {"giveBack", "stopSelf", "destroyed"} => saved = 0
  /\ service = "down" => saved = 0

FreeInv == AloneInv /\ PausedInv /\ ChosenInv /\ VolumeInv

ServiceInv == ScriptsInv /\ GivesInv /\ (~Races => FreeInv)

LEMMA CallersAre == /\ Callers = {"main", "network"}
                    /\ "main" \in Callers \ {"network"} /\ "network" \in Callers \ {"main"}
  BY DEF Callers

(* What is noted of the next start says nothing of the one before it.      *)
LEMMA NotesNext ==
  ASSUME TypedInv, NEW meets \in BOOLEAN, Notes(meets)
  PROVE  /\ started \in contested => started \in contested'
         /\ meets => NextStart \subseteq contested'
<1>1. started \notin NextStart
  BY EngineAssumption DEF NextStart, TypedInv, EngineTypes
<1> QED
  BY <1>1 DEF Notes

(* Where a callback may be when a method of the main thread begins.        *)
LEMMA NetworkWaits ==
  ASSUME NEW steps, Begins(steps)
  PROVE  /\ script["main"] = <<>> /\ Becomes("main", steps)
         /\ ~Races => At("network") \in {"idle", "start"}
         /\ UNCHANGED <<running, thread, plays, started>>
<1>1. Starting => At("network") = "start"
  <2>1. <<"start">> # <<>> /\ <<"start">>[1] = "start"
    BY EmptySeq
  <2> QED
    BY <2>1 DEF Starting, At, FirstOf
<1> QED
  BY <1>1 DEF Begins, Becomes, At, FirstOf, engineVars

LEMMA BeginsMain ==
  ASSUME ServiceInv, TypedInv, NEW s, Begins(s),
         NEW a, NEW b, NEW n \in Nat, Piece(s, a, b, n), n <= 7,
         <<b, "idle">> \in Follows, a = "pause" => b = "giveBack",
         a \in {"halt", "request", "start", "pause", "unpause"} \cup Targets,
         a \in Targets => ~running \/ a = target,
         UNCHANGED <<target, paused, locks, watching, audio>>,
         focus' = focus \/ focus # "none",
         service' # "down"
  PROVE  ServiceInv'
<1>1. /\ ScriptsInv' /\ At("main") = "idle" /\ Ends("main") = "idle"
      /\ At("main")' = a /\ Ends("main")' = b
      /\ At("network")' = At("network") /\ Ends("network")' = Ends("network")
      /\ ~Races => At("network") \in {"idle", "start"}
  BY NetworkWaits, ScriptsBegin, CallersAre DEF ServiceInv
<1>2. /\ UNCHANGED <<running, thread, plays, started>>
      /\ started \in contested => started \in contested'
  BY NetworkWaits, NotesNext DEF Begins, Starting
<1>3. UNCHANGED <<mode, volume, saved, own>>
  BY DEF audio
<1>4. /\ a \notin Stopped
      /\ At("network") \in {"idle", "start"} => At("network") \notin Stopped
  BY DEF Stopped, Targets
<1>5. GivesInv'
  BY <1>1 DEF ServiceInv, GivesInv, NothingHeld, Targets
<1>6. ASSUME ~Races PROVE FreeInv'
  <2>1. FreeInv
    BY <1>6 DEF ServiceInv
  <2>2. AloneInv'
    BY <1>1, <1>6 DEF AloneInv
  <2>3. PausedInv'
    BY <1>1, <1>2, <1>4, <1>6, <2>1 DEF FreeInv, PausedInv
  <2>4. ChosenInv'
    BY <1>1, <1>2, <1>3, <2>1 DEF FreeInv, ChosenInv
  <2>5. VolumeInv'
    BY <1>1, <1>2, <1>3, <2>1 DEF FreeInv, VolumeInv, Targets
  <2> QED
    BY <2>2, <2>3, <2>4, <2>5 DEF FreeInv
<1> QED
  BY <1>1, <1>5, <1>6 DEF ServiceInv

LEMMA BeginsNetwork ==
  ASSUME ServiceInv, TypedInv, NEW s, CallsBack(s),
         NEW a, NEW b, NEW n \in Nat, Piece(s, a, b, n), n <= 7,
         <<b, "idle">> \in Follows,
         a \in {"halt", "start"},
         started \in contested => started \in contested'
  PROVE  ServiceInv'
<1>0. script["network"] = <<>> /\ Becomes("network", s)
  BY DEF CallsBack, Becomes
<1>1. /\ ScriptsInv' /\ At("network")' = a
      /\ At("main")' = At("main") /\ Ends("main")' = Ends("main")
      /\ ~Races => At("main") = "idle"
  <2>1. ~Races => At("main") = "idle"
    BY DEF CallsBack, At, FirstOf
  <2>2. a # "pause"
    OBVIOUS
  <2> QED
    BY <1>0, <2>1, <2>2, ScriptsBegin, CallersAre DEF ServiceInv
<1>2. UNCHANGED <<running, thread, plays, started>>
  BY DEF CallsBack, engineVars
<1>3. /\ UNCHANGED <<mode, volume, saved, own, target, paused, locks, focus, watching, service>>
      /\ watching
  BY DEF CallsBack, held, audio
<1>4. a \notin Stopped
  BY DEF Stopped
<1>5. GivesInv'
  BY <1>1, <1>3 DEF ServiceInv, GivesInv, NothingHeld
<1>6. ASSUME ~Races PROVE FreeInv'
  <2>1. FreeInv
    BY <1>6 DEF ServiceInv
  <2>2. AloneInv'
    BY <1>1, <1>3, <1>6 DEF AloneInv, ServiceInv, GivesInv
  <2>3. PausedInv'
    BY <1>1, <1>2, <1>3, <1>4, <1>6, <2>1 DEF FreeInv, PausedInv, Stopped
  <2>4. ChosenInv'
    BY <1>1, <1>2, <1>3, <2>1 DEF FreeInv, ChosenInv
  <2>5. VolumeInv'
    BY <1>1, <1>2, <1>3, <2>1 DEF FreeInv, VolumeInv
  <2> QED
    BY <2>2, <2>3, <2>4, <2>5 DEF FreeInv
<1> QED
  BY <1>1, <1>5, <1>6 DEF ServiceInv

(* What happens while no script moves: the engine's own steps only ever    *)
(* stop it.                                                                *)
LEMMA EngineOnlyStops ==
  ASSUME EngineNext
  PROVE  (running' => running) /\ UNCHANGED <<thread, plays, started>>
BY DEF EngineNext, AudioStep, Connect, StartMicrophone, NoMicrophone, Loop, Fill, Finish,
       JoinMicrophone, Free, Clear, MicStep, Open, Check, Read, ReadEnds, Send, MicGoes,
       MicUnchanged

LEMMA ScriptsUnmoved ==
  ASSUME ServiceInv, script' = script,
         running' => running, UNCHANGED <<thread, plays, started>>,
         UNCHANGED <<target, paused, locks, watching, mode, saved>>,
         focus' = focus \/ (focus # "none" /\ At("main") = "idle" /\ Ends("main") = "idle"),
         service' = service \/ service' # "down",
         UNCHANGED <<volume, own>> \/ volume' = own',
         started \in contested => started \in contested'
  PROVE  ServiceInv'
<1>1. /\ ScriptsInv' /\ At("network")' = At("network")
      /\ At("main")' = At("main") /\ Ends("main")' = Ends("main")
  BY ScriptsStay, CallersAre DEF ServiceInv
<1>2. GivesInv'
  BY <1>1 DEF ServiceInv, GivesInv, NothingHeld
<1>3. ASSUME ~Races PROVE FreeInv'
  <2>1. FreeInv
    BY <1>3 DEF ServiceInv
  <2>2. AloneInv'
    BY <1>1, <2>1 DEF FreeInv, AloneInv
  <2>3. PausedInv'
    BY <1>1, <2>1 DEF FreeInv, PausedInv
  <2>4. ChosenInv'
    BY <1>1, <2>1 DEF FreeInv, ChosenInv
  <2>5. VolumeInv'
    BY <1>1, <2>1 DEF FreeInv, VolumeInv
  <2> QED
    BY <2>2, <2>3, <2>4, <2>5 DEF FreeInv
<1> QED
  BY <1>1, <1>2, <1>3 DEF ServiceInv

-----------------------------------------------------------------------------
(* A pause, and a start of the network's that did not see it.              *)
(* What the script of the network's callback says of where it is.          *)
LEMMA NetStarts == /\ NetInv /\ At("network") = "start" => Starting
                   /\ Starting => At("network") = "start"
<1>1. /\ <<"start">> # <<>> /\ <<"start">>[1] = "start"
      /\ Stopping # <<>> /\ Stopping[1] = "halt"
      /\ <<"join", "restore">> # <<>> /\ <<"join", "restore">>[1] = "join"
      /\ <<"restore">> # <<>> /\ <<"restore">>[1] = "restore"
  BY EmptySeq DEF Stopping
<1> QED
  BY <1>1 DEF NetInv, NetScripts, Starting, At, FirstOf

LEMMA NetKept ==
  ASSUME ScriptsInv, NetInv, [Next]_vars
  PROVE  NetInv'
<1>0. script \in [Callers -> Seq(Steps)] /\ "main" # "network" /\ "network" \in Callers
  BY DEF ScriptsInv, Callers
<1>1. CASE \E c \in Callers : HaltStep(c) \/ JoinStep(c) \/ RestoreStep(c) \/ StartStep(c)
  <2>1. PICK c \in Callers : script[c] # <<>> /\ script' = [script EXCEPT ![c] = Tail(@)]
    BY <1>1 DEF HaltStep, JoinStep, RestoreStep, StartStep, Does
  <2>2. CASE c # "network"
    BY <1>0, <2>1, <2>2 DEF NetInv
  <2>3. CASE c = "network"
    <3>1. /\ Tail(<<"start">>) = <<>> /\ Tail(Stopping) = <<"join", "restore">>
          /\ Tail(<<"join", "restore">>) = <<"restore">> /\ Tail(<<"restore">>) = <<>>
      BY DEF Stopping
    <3> QED
      BY <1>0, <2>1, <2>3, <3>1 DEF NetInv, NetScripts
  <2> QED
    BY <2>2, <2>3
<1>2. CASE Available \/ Lost
  BY <1>0, <1>2 DEF Available, Lost, CallsBack, NetInv, NetScripts
<1>3. CASE script' = script \/ \E s : Becomes("main", s)
  BY <1>0, <1>3 DEF Becomes, NetInv
<1>4. CASE \E next \in Targets : StartCommand(next)
  BY <1>3, <1>4 DEF StartCommand, Begins, Becomes
<1>5. CASE User \/ FocusLost \/ FocusLostForNow \/ FocusGained \/ Destroy
  BY <1>3, <1>5 DEF User, FocusLost, FocusLostForNow, FocusGained, Destroy, Begins, Becomes
<1>6. CASE MainStep
  BY <1>3, <1>6 DEF MainStep, ChooseStep, RequestStep, PauseStep, UnpauseStep, GiveBackStep,
    WatchStep, StopSelfStep, DestroyedStep, Does, Becomes
<1>7. CASE \/ Woken \/ \E level \in Choices : SetVolume(level)
           \/ EngineNext /\ UNCHANGED <<script, serviceVars>>
           \/ UNCHANGED vars
  BY <1>3, <1>7 DEF Woken, SetVolume, vars
<1> QED
  BY <1>1, <1>2, <1>4, <1>5, <1>6, <1>7 DEF Next

LEMMA BeginsMeets ==
  ASSUME ScriptsInv, TypedInv, MeetInv, NEW s, Begins(s), paused' = paused,
         FirstOf(s) = "start" => ~paused
  PROVE  MeetInv'
<1>1. /\ At("main") = "idle" /\ At("main")' = FirstOf(s)
      /\ script'["network"] = script["network"]
  BY CallersAre DEF Begins, At, FirstOf, ScriptsInv
<1>2. UNCHANGED <<running, started>>
  BY DEF Begins, engineVars
<1>3. /\ started \in contested => started \in contested'
      /\ Starting => NextStart \subseteq contested'
  BY NotesNext DEF Begins, Starting
<1> QED
  BY <1>1, <1>2, <1>3 DEF MeetInv, Starting, NextStart

(* How the scripts begin that the main thread may be given.                *)
LEMMA FirstSteps ==
  /\ FirstOf(PlayingOn) = "request" /\ FirstOf(Pausing) = "pause"
  /\ FirstOf(StoppingSelf) = "unpause" /\ FirstOf(Stopping) = "halt"
  /\ FirstOf(Destroying) = "halt" /\ FirstOf(<<>>) = "idle" /\ FirstOf(<<"start">>) = "start"
  /\ \A next \in Targets : FirstOf(Commanded(next)) # "start"
<1>1. ASSUME NEW s, NEW a, NEW b, NEW n \in Nat, Piece(s, a, b, n)
      PROVE  FirstOf(s) = a
  <2>1. s # <<>> /\ s[1] = a
    BY <1>1, EmptySeq DEF Piece, Chain
  <2> QED
    BY <2>1 DEF FirstOf
<1>2. 1 + 3 + 1 \in Nat /\ 3 + 2 \in Nat /\ 3 + 1 + 2 + 1 \in Nat /\ 2 \in Nat /\ 3 \in Nat
  OBVIOUS
<1>3. FirstOf(<<>>) = "idle" /\ FirstOf(<<"start">>) = "start"
  <2>1. <<"start">> # <<>> /\ <<"start">>[1] = "start"
    BY EmptySeq
  <2> QED
    BY <2>1 DEF FirstOf
<1>4. \A next \in Targets : FirstOf(Commanded(next)) = IF Switches(next) THEN "halt" ELSE next
  BY <1>1, <1>2, PiecesBegun
<1>5. \A next \in Targets : FirstOf(Commanded(next)) # "start"
  BY <1>4 DEF Targets
<1> QED
  BY <1>1, <1>2, <1>3, <1>5, PiecesBegun, StoppingPiece

LEMMA MethodsMeet ==
  ASSUME ScriptsInv, TypedInv, MeetInv,
         \/ \E next \in Targets : StartCommand(next)
         \/ User \/ FocusLost \/ FocusLostForNow \/ FocusGained \/ Destroy
  PROVE  MeetInv'
<1>1. PICK s : Begins(s) /\ paused' = paused /\ (FirstOf(s) = "start" => ~paused)
  <2>1. CASE \E next \in Targets : StartCommand(next)
    BY <2>1, FirstSteps DEF StartCommand
  <2>2. CASE User
    BY <2>2, FirstSteps DEF User
  <2>3. CASE FocusLost
    BY <2>3, FirstSteps DEF FocusLost
  <2>4. CASE FocusLostForNow
    BY <2>4, FirstSteps DEF FocusLostForNow
  <2>5. CASE FocusGained
    BY <2>5, FirstSteps DEF FocusGained, MayStart
  <2>6. CASE Destroy
    BY <2>6, FirstSteps DEF Destroy
  <2> QED
    BY <2>1, <2>2, <2>3, <2>4, <2>5, <2>6
<1> QED
  BY <1>1, BeginsMeets

LEMMA CallbacksMeet ==
  ASSUME ScriptsInv, TypedInv, NetInv, MeetInv, Available \/ Lost
  PROVE  MeetInv'
<1>1. /\ paused' = paused /\ UNCHANGED <<running, started>>
      /\ script'["main"] = script["main"] /\ At("main")' = At("main")
  BY CallersAre DEF Available, Lost, CallsBack, engineVars, At, ScriptsInv
<1>2. At("main") = "pause" => script["main"] # <<>>
  BY DEF At, FirstOf
<1>3. CASE Available
  <2>1. ~paused /\ Notes(script["main"] # <<>>)
    BY <1>3 DEF Available, MayStart
  <2>2. script["main"] # <<>> => NextStart \subseteq contested'
    BY <2>1, NotesNext
  <2> QED
    BY <1>1, <1>2, <2>1, <2>2 DEF MeetInv, NextStart
<1>4. CASE Lost
  <2>1. script'["network"] = Stopping /\ contested' = contested
    BY <1>4, CallersAre DEF Lost, CallsBack, ScriptsInv
  <2>2. ~Starting'
    BY <2>1, FirstSteps DEF Starting
  <2> QED
    BY <1>1, <2>1, <2>2 DEF MeetInv, NextStart
<1> QED
  BY <1>3, <1>4

(* A start amid a pause, or after it, is the network's, and is noted.      *)
LEMMA StartMeets ==
  ASSUME ScriptsInv, TypedInv, NetInv, MeetInv, NEW c \in Callers, StartStep(c), paused
  PROVE  /\ c = "network" /\ At("main")' = At("main")
         /\ \/ started' \in contested' \/ At("main") = "halt"
            \/ ~running /\ UNCHANGED <<running, thread, started, contested, volume, saved>>
<1>1. At(c) = "start" /\ \A d \in Callers \ {c} : At(d)' = At(d)
  BY ScriptsDo DEF StartStep
<1>2. c = "network"
  BY <1>1, CallersAre DEF MeetInv
<1>3. At("main")' = At("main")
  BY <1>1, <1>2, CallersAre
<1>4. NextStart \subseteq contested
  BY <1>1, <1>2, NetStarts DEF MeetInv
<1>5. CASE UNCHANGED <<engineVars, contested, audio>>
  BY <1>2, <1>3, <1>5 DEF MeetInv, engineVars, audio
<1>6. CASE StartEngine(target) /\ contested' = contested \cap {started', started' + 1}
  <2>1. CASE running /\ UNCHANGED engineVars
    BY <1>2, <1>3, <1>6, <2>1 DEF MeetInv, engineVars
  <2>2. CASE started < MaxStarts /\ started' = started + 1
    <3>1. started' \in NextStart
      BY <2>2, EngineAssumption DEF NextStart, Threads, TypedInv, EngineTypes
    <3> QED
      BY <1>2, <1>3, <1>4, <1>6, <3>1
  <2> QED
    BY <1>6, <2>1, <2>2 DEF StartEngine
<1> QED
  BY <1>5, <1>6 DEF StartStep

LEMMA StepsMeet ==
  ASSUME ScriptsInv, NetInv, MeetInv, NEW c \in Callers,
         HaltStep(c) \/ JoinStep(c) \/ RestoreStep(c)
  PROVE  MeetInv'
<1>1. /\ At(c) \in {"halt", "join", "restore"} /\ At(c)' \notin {"start", "pause", "halt"}
      /\ At(c) = "halt" => running' = FALSE
      /\ \A d \in Callers \ {c} : At(d)' = At(d)
  <2>1. CASE HaltStep(c)
    BY <2>1, ScriptsDo, Successors DEF HaltStep, Halt
  <2>2. CASE JoinStep(c)
    BY <2>2, ScriptsDo, Successors DEF JoinStep
  <2>3. CASE RestoreStep(c)
    BY <2>3, ScriptsDo, Successors DEF RestoreStep, Targets
  <2> QED
    BY <2>1, <2>2, <2>3
<1>2. /\ UNCHANGED <<started, contested, paused>> /\ (running' => running)
  BY DEF HaltStep, JoinStep, RestoreStep, Halt, Join, serviceVars, engineVars
<1>3. Starting' => Starting
  <2>1. Starting' => At("network")' = "start"
    BY FirstSteps DEF Starting, At
  <2>2. At("network")' = "start" => At("network") = "start"
    BY <1>1, CallersAre
  <2> QED
    BY <2>1, <2>2, NetStarts
<1> QED
  BY <1>1, <1>2, <1>3, CallersAre DEF MeetInv, NextStart

LEMMA StartsMeet ==
  ASSUME ScriptsInv, TypedInv, NetInv, MeetInv, NEW c \in Callers, StartStep(c)
  PROVE  MeetInv'
<1>1. /\ At(c)' \in {"watch", "idle"} /\ paused' = paused
      /\ \A d \in Callers \ {c} : At(d)' = At(d)
  BY ScriptsDo, Successors DEF StartStep
<1>2. Starting' => At("network")' = "start"
  BY FirstSteps DEF Starting, At
<1>3. CASE paused
  BY <1>1, <1>2, <1>3, StartMeets DEF MeetInv
<1>4. CASE ~paused
  BY <1>1, <1>2, <1>4, CallersAre DEF MeetInv
<1> QED
  BY <1>3, <1>4

LEMMA MainStepsMeet ==
  ASSUME ScriptsInv, TypedInv, MeetInv, MainStep
  PROVE  MeetInv'
<1>1. /\ UNCHANGED <<running, started>> /\ script'["network"] = script["network"]
      /\ contested' = contested \/ (contested' = contested \ {started} /\ PauseStep)
  BY CallersAre DEF MainStep, ChooseStep, RequestStep, PauseStep, UnpauseStep, GiveBackStep,
    WatchStep, StopSelfStep, DestroyedStep, Does, engineVars, ScriptsInv
<1>2. ASSUME NEW step, Does("main", step), step \notin {"halt", "request"}
      PROVE  /\ At("main") = step /\ At("main") # "halt"
             /\ At("main")' \notin {"start", "pause"}
  BY <1>2, ScriptsDo, CallersAre DEF Follows
<1>3. /\ At("main") # "halt" /\ At("main")' # "pause"
      /\ At("main")' = "start" => ~paused'
      /\ paused' => paused \/ (At("main") = "pause" /\ At("main")' = "halt")
  <2>1. CASE \E next \in Targets : ChooseStep(next)
    BY <1>2, <2>1 DEF ChooseStep, Targets
  <2>2. CASE RequestStep
    <3>1. CASE Does("main", "request")
      BY <2>2, <3>1, ScriptsDo, Successors, CallersAre DEF RequestStep
    <3>2. CASE Becomes("main", Tail(Tail(script["main"])))
      BY <2>2, <3>2, ScriptsSkip DEF RequestStep
    <3> QED
      BY <2>2, <3>1, <3>2 DEF RequestStep, Does, Becomes
  <2>3. CASE PauseStep
    BY <1>2, <2>3, ScriptsDo, Successors, CallersAre DEF PauseStep
  <2>4. CASE UnpauseStep \/ GiveBackStep \/ WatchStep
    BY <1>2, <2>4 DEF UnpauseStep, GiveBackStep, WatchStep
  <2>5. CASE StopSelfStep \/ DestroyedStep
    BY <1>2, <2>5 DEF StopSelfStep, DestroyedStep
  <2> QED
    BY <2>1, <2>2, <2>3, <2>4, <2>5 DEF MainStep
<1>4. PauseStep => At("main") = "pause" /\ At("main")' = "halt"
  BY ScriptsDo, Successors, CallersAre DEF PauseStep
<1>5. started \notin NextStart
  BY EngineAssumption DEF NextStart, TypedInv, EngineTypes
<1> QED
  BY <1>1, <1>3, <1>4, <1>5 DEF MeetInv, Starting, NextStart

LEMMA MeetKept ==
  ASSUME ScriptsInv, TypedInv, NetInv, MeetInv, [Next]_vars
  PROVE  MeetInv'
<1>1. CASE \/ Woken \/ \E level \in Choices : SetVolume(level)
           \/ EngineNext /\ UNCHANGED <<script, serviceVars>>
           \/ UNCHANGED vars
  <2>1. UNCHANGED <<script, paused, contested, started>> /\ (running' => running)
    BY <1>1, EngineOnlyStops DEF Woken, SetVolume, vars, serviceVars, engineVars
  <2> QED
    BY <2>1 DEF MeetInv, Starting, NextStart, At
<1> QED
  BY <1>1, MethodsMeet, CallbacksMeet, StepsMeet, StartsMeet, MainStepsMeet DEF Next

-----------------------------------------------------------------------------
(* The steps of a script.                                                  *)
LEMMA HaltStepKeeps ==
  ASSUME ServiceInv, NEW c \in Callers, HaltStep(c)
  PROVE  ServiceInv'
<1>1. /\ ScriptsInv' /\ At(c) = "halt" /\ At(c)' = "join" /\ Ends(c)' = Ends(c)
      /\ \A d \in Callers \ {c} : At(d)' = At(d) /\ Ends(d)' = Ends(d)
  BY ScriptsDo, Successors DEF HaltStep, ServiceInv
<1>2. running' = FALSE /\ UNCHANGED <<thread, plays, started>>
  BY DEF HaltStep, Halt
<1>3. UNCHANGED <<mode, volume, saved, own, target, paused, locks, focus, watching, service, contested>>
  BY DEF HaltStep, serviceVars, held, audio
<1>4. GivesInv'
  BY <1>1, <1>3, CallersAre DEF ServiceInv, GivesInv, NothingHeld
<1>5. ASSUME ~Races PROVE FreeInv'
  <2>1. FreeInv
    BY <1>5 DEF ServiceInv
  <2>2. AloneInv'
    BY <1>1, <1>3, <2>1, CallersAre DEF FreeInv, AloneInv
  <2>3. PausedInv'
    BY <1>1, <1>2, <1>3, <2>1, CallersAre DEF FreeInv, AloneInv, PausedInv
  <2>4. ChosenInv'
    BY <1>1, <1>2, <1>3, <2>1, CallersAre DEF FreeInv, ChosenInv
  <2>5. VolumeInv'
    BY <1>1, <1>2, <1>3, <2>1, CallersAre DEF FreeInv, VolumeInv
  <2> QED
    BY <2>2, <2>3, <2>4, <2>5 DEF FreeInv
<1> QED
  BY <1>1, <1>4, <1>5 DEF ServiceInv

LEMMA JoinStepKeeps ==
  ASSUME ServiceInv, NEW c \in Callers, JoinStep(c)
  PROVE  ServiceInv'
<1>1. /\ ScriptsInv' /\ At(c) = "join" /\ At(c)' = "restore" /\ Ends(c)' = Ends(c)
      /\ \A d \in Callers \ {c} : At(d)' = At(d) /\ Ends(d)' = Ends(d)
  BY ScriptsDo, Successors DEF JoinStep, ServiceInv
<1>2. thread' = 0 /\ UNCHANGED <<running, plays, started>>
  BY DEF JoinStep, Join
<1>3. UNCHANGED <<mode, volume, saved, own, target, paused, locks, focus, watching, service, contested>>
  BY DEF JoinStep, serviceVars, held, audio
<1>4. GivesInv'
  BY <1>1, <1>3, CallersAre DEF ServiceInv, GivesInv, NothingHeld
<1>5. ASSUME ~Races PROVE FreeInv'
  <2>1. FreeInv
    BY <1>5 DEF ServiceInv
  <2>2. ~running
    BY <1>1, <2>1, CallersAre DEF FreeInv, PausedInv, Stopped
  <2>3. AloneInv'
    BY <1>1, <1>3, <2>1, CallersAre DEF FreeInv, AloneInv
  <2>4. PausedInv'
    BY <1>1, <1>2, <1>3, <2>1, <2>2, CallersAre DEF FreeInv, PausedInv
  <2>5. ChosenInv'
    BY <1>1, <1>2, <1>3, <2>1, <2>2, CallersAre DEF FreeInv, ChosenInv
  <2>6. VolumeInv'
    BY <1>1, <1>2, <1>3, <2>1, CallersAre DEF FreeInv, VolumeInv
  <2> QED
    BY <2>3, <2>4, <2>5, <2>6 DEF FreeInv
<1> QED
  BY <1>1, <1>4, <1>5 DEF ServiceInv

LEMMA RestoreStepKeeps ==
  ASSUME ServiceInv, AudioInv, NEW c \in Callers, RestoreStep(c)
  PROVE  ServiceInv'
<1>1. /\ ScriptsInv' /\ At(c) = "restore"
      /\ At(c)' \in {"giveBack", "stopSelf", "idle"} \cup Targets
      /\ Ends(c)' = IF At(c)' = "idle" THEN "idle" ELSE Ends(c)
      /\ At(c)' = "idle" => Ends(c) # "giveBack"
      /\ \A d \in Callers \ {c} : At(d)' = At(d) /\ Ends(d)' = Ends(d)
  BY ScriptsDo, Successors DEF RestoreStep, ServiceInv
<1>2. UNCHANGED <<running, thread, plays, started>>
  BY DEF RestoreStep, engineVars
<1>3. /\ UNCHANGED <<own, target, paused, locks, focus, watching, service, contested>>
      /\ saved' = 0 /\ mode' = "normal"
      /\ volume' = IF saved # 0 /\ volume = Loudest THEN saved ELSE volume
  BY DEF RestoreStep, Restored, held
<1>4. GivesInv'
  BY <1>1, <1>3, CallersAre DEF ServiceInv, GivesInv, NothingHeld, Targets
<1>5. ASSUME ~Races PROVE FreeInv'
  <2>1. FreeInv
    BY <1>5 DEF ServiceInv
  <2>2. ~running
    BY <1>1, <2>1, CallersAre DEF FreeInv, PausedInv, Stopped
  <2>3. AloneInv'
    BY <1>1, <1>3, <2>1, CallersAre DEF FreeInv, AloneInv
  <2>4. PausedInv'
    BY <1>1, <1>2, <1>3, <2>1, <2>2, CallersAre DEF FreeInv, PausedInv, Targets
  <2>5. ChosenInv'
    BY <1>1, <1>2, <1>3, <2>1, <2>2, CallersAre DEF FreeInv, ChosenInv
  <2>6. VolumeInv'
    <3>1. own \in 1 .. Loudest
      BY DEF AudioInv, Levels
    <3>2. own' = Loudest \/ volume' = own'
      BY <1>3, <2>1, <3>1 DEF FreeInv, VolumeInv
    <3> QED
      BY <1>1, <1>3, <2>1, <3>2, CallersAre DEF FreeInv, VolumeInv
  <2> QED
    BY <2>3, <2>4, <2>5, <2>6 DEF FreeInv
<1> QED
  BY <1>1, <1>4, <1>5 DEF ServiceInv

LEMMA StartStepKeeps ==
  ASSUME ServiceInv, AudioInv, TypedInv, MeetInv, NetInv, NEW c \in Callers, StartStep(c)
  PROVE  ServiceInv'
<1>1. /\ ScriptsInv' /\ At(c) = "start" /\ At(c)' \in {"watch", "idle"}
      /\ Ends(c)' = IF At(c)' = "idle" THEN "idle" ELSE Ends(c)
      /\ At(c)' = "idle" => Ends(c) # "giveBack"
      /\ \A d \in Callers \ {c} : At(d)' = At(d) /\ Ends(d)' = Ends(d)
  BY ScriptsDo, Successors DEF StartStep, ServiceInv
<1>2. UNCHANGED <<target, paused, locks, focus, watching, service, own>>
  BY DEF StartStep, held, audio
<1>3. \/ UNCHANGED <<running, thread, plays, mode, volume, saved>>
      \/ /\ target # "none"
         /\ mode' = IF target = "call" THEN "communication" ELSE "normal"
         /\ IF target = "call" /\ saved = 0 /\ volume < Loudest
            THEN saved' = volume /\ volume' = Loudest
            ELSE UNCHANGED <<saved, volume>>
         /\ StartEngine(target)
  BY DEF StartStep, Raises, engineVars, audio
<1>4. GivesInv'
  BY <1>1, <1>2, CallersAre DEF ServiceInv, GivesInv, NothingHeld
<1>5. ASSUME ~Races PROVE FreeInv'
  <2>1. FreeInv
    BY <1>5 DEF ServiceInv
  <2>2. /\ service # "down"
        /\ paused => \/ started' \in contested' \/ At("main")' = "halt"
                     \/ ~running /\ UNCHANGED <<running, thread, started, contested, saved>>
                        /\ At("main")' = At("main")
    <3>1. service # "down"
      BY <1>1, <2>1, CallersAre DEF FreeInv, AloneInv, ServiceInv, GivesInv
    <3>2. ScriptsInv
      BY DEF ServiceInv
    <3> QED
      BY <3>1, <3>2, StartMeets
  <2>3. /\ At("main")' \in {"watch", "idle"} /\ At("network")' \in {"watch", "idle", "start"}
        /\ At("main")' = "idle" \/ At("network")' \in {"idle", "start"}
    <3>1. c = "network" => At("main") = "idle"
      BY <1>5 DEF StartStep, Does, At, FirstOf
    <3>2. c = "main" => At("network") \in {"idle", "start"}
      BY <1>1, <2>1, CallersAre DEF FreeInv, AloneInv
    <3> QED
      BY <1>1, <3>1, <3>2, CallersAre
  <2>4. AloneInv'
    BY <1>2, <2>2, <2>3 DEF AloneInv
  <2>5. PausedInv'
    <3>1. \A d \in Callers : At(d)' \notin Stopped
      BY <2>3, CallersAre DEF Stopped
    <3> QED
      BY <1>2, <2>1, <2>2, <3>1, CallersAre DEF FreeInv, PausedInv
  <2>6. ChosenInv'
    <3>1. At("main")' \notin Targets
      BY <2>3 DEF Targets
    <3>2. running' => /\ thread' # 0 /\ plays'[thread'] = target
                      /\ mode' = "communication" <=> target = "call"
      <4>1. CASE UNCHANGED <<running, thread, plays, mode>>
        BY <1>2, <2>1, <4>1 DEF FreeInv, ChosenInv
      <4>2. CASE /\ mode' = IF target = "call" THEN "communication" ELSE "normal"
                 /\ StartEngine(target)
        <5>1. CASE running /\ UNCHANGED engineVars
          BY <2>1, <4>2, <5>1 DEF FreeInv, ChosenInv, engineVars
        <5>2. CASE started < MaxStarts /\ started' = started + 1 /\ thread' = started'
                   /\ plays' = [plays EXCEPT ![started'] = target]
          <6>1. started' \in Threads /\ started' # 0 /\ plays \in [Threads -> Targets]
            BY <5>2, EngineAssumption DEF TypedInv, EngineTypes, Threads
          <6> QED
            BY <4>2, <5>2, <6>1
        <5> QED
          BY <4>2, <5>1, <5>2 DEF StartEngine
      <4> QED
        BY <1>3, <4>1, <4>2
    <3> QED
      BY <1>2, <3>1, <3>2 DEF ChosenInv
  <2>7. VolumeInv'
    <3>1. own \in 1 .. Loudest
      BY DEF AudioInv, Levels
    <3>2. own' = Loudest \/ volume' = own' \/ (volume' = Loudest /\ saved' = own')
      BY <1>2, <1>3, <2>1, <3>1 DEF FreeInv, VolumeInv
    <3>3. At("main")' \notin {"giveBack", "stopSelf", "destroyed"}
      BY <2>3
    <3> QED
      BY <1>2, <2>1, <2>2, <3>2, <3>3 DEF FreeInv, VolumeInv
  <2> QED
    BY <2>4, <2>5, <2>6, <2>7 DEF FreeInv
<1> QED
  BY <1>1, <1>4, <1>5 DEF ServiceInv

(* Those of the main thread leave the engine alone.                        *)
LEMMA ChooseStepKeeps ==
  ASSUME ServiceInv, NEW next \in Targets, ChooseStep(next)
  PROVE  ServiceInv'
<1>1. /\ ScriptsInv' /\ At("main") = next /\ At("main")' = "request"
      /\ Ends("main")' = Ends("main")
      /\ At("network")' = At("network") /\ Ends("network")' = Ends("network")
  <2>1. /\ ScriptsInv' /\ At("main") = next /\ <<next, At("main")'>> \in Follows
        /\ Ends("main")' = IF At("main")' = "idle" THEN "idle" ELSE Ends("main")
        /\ At("network")' = At("network") /\ Ends("network")' = Ends("network")
    BY ScriptsDo, CallersAre DEF ChooseStep, ServiceInv
  <2>2. At("main")' = "request"
    BY <2>1, Successors
  <2> QED
    BY <2>1, <2>2
<1>2. target' = next /\ UNCHANGED <<running, thread, plays, started>>
  BY DEF ChooseStep, engineVars
<1>3. UNCHANGED <<mode, volume, saved, own, paused, locks, focus, watching, service, contested>>
  BY DEF ChooseStep, held, audio
<1>4. GivesInv'
  BY <1>1, <1>3 DEF ServiceInv, GivesInv, NothingHeld, Targets
<1>5. ASSUME ~Races PROVE FreeInv'
  <2>1. FreeInv
    BY <1>5 DEF ServiceInv
  <2>2. AloneInv'
    BY <1>1, <1>3, <2>1 DEF FreeInv, AloneInv, Targets
  <2>3. PausedInv'
    BY <1>1, <1>2, <1>3, <2>1 DEF FreeInv, PausedInv, Stopped, Targets
  <2>4. ChosenInv'
    BY <1>1, <1>2, <1>3, <2>1 DEF FreeInv, ChosenInv, Targets
  <2>5. VolumeInv'
    BY <1>1, <1>2, <1>3, <2>1 DEF FreeInv, VolumeInv, Targets
  <2> QED
    BY <2>2, <2>3, <2>4, <2>5 DEF FreeInv
<1> QED
  BY <1>1, <1>4, <1>5 DEF ServiceInv

LEMMA RequestStepKeeps ==
  ASSUME ServiceInv, RequestStep
  PROVE  ServiceInv'
<1>1. /\ ScriptsInv' /\ At("main") = "request" /\ At("main")' \in {"start", "watch", "idle"}
      /\ At("network")' = At("network") /\ Ends("network")' = Ends("network")
  <2>1. CASE Does("main", "request")
    BY <2>1, ScriptsDo, Successors, CallersAre DEF ServiceInv
  <2>2. CASE Becomes("main", Tail(Tail(script["main"])))
    BY <2>2, ScriptsSkip DEF RequestStep, ServiceInv
  <2> QED
    BY <2>1, <2>2 DEF RequestStep, Does, Becomes
<1>2. ~paused' /\ paused' = FALSE /\ UNCHANGED <<running, thread, plays, started>>
  BY DEF RequestStep, engineVars
<1>3. UNCHANGED <<mode, volume, saved, own, target, watching, service, contested>>
  BY DEF RequestStep, audio
<1>4. GivesInv'
  BY <1>1, <1>2, <1>3 DEF ServiceInv, GivesInv, NothingHeld
<1>5. ASSUME ~Races PROVE FreeInv'
  <2>1. FreeInv
    BY <1>5 DEF ServiceInv
  <2>2. AloneInv'
    BY <1>1, <1>3, <2>1 DEF FreeInv, AloneInv
  <2>3. PausedInv'
    BY <1>1, <1>2, <2>1 DEF FreeInv, PausedInv, Stopped
  <2>4. ChosenInv'
    BY <1>1, <1>2, <1>3, <2>1 DEF FreeInv, ChosenInv, Targets
  <2>5. VolumeInv'
    BY <1>1, <1>2, <1>3, <2>1 DEF FreeInv, VolumeInv
  <2> QED
    BY <2>2, <2>3, <2>4, <2>5 DEF FreeInv
<1> QED
  BY <1>1, <1>4, <1>5 DEF ServiceInv

LEMMA PauseStepKeeps ==
  ASSUME ServiceInv, PauseStep
  PROVE  ServiceInv'
<1>1. /\ ScriptsInv' /\ At("main") = "pause" /\ At("main")' = "halt"
      /\ Ends("main")' = Ends("main")
      /\ At("network")' = At("network") /\ Ends("network")' = Ends("network")
  BY ScriptsDo, Successors, CallersAre DEF PauseStep, ServiceInv
<1>2. Ends("main") = "giveBack"
  <2>1. Script(script["main"])
    BY CallersAre DEF ServiceInv, ScriptsInv
  <2> QED
    BY <1>1, <2>1 DEF Script, At, Ends, FirstOf, LastOf
<1>3. paused' = TRUE /\ UNCHANGED <<running, thread, plays, started>>
  BY DEF PauseStep, engineVars
<1>4. UNCHANGED <<mode, volume, saved, own, target, locks, focus, watching, service>>
  BY DEF PauseStep, held, audio
<1>5. GivesInv'
  BY <1>1, <1>2, <1>4 DEF ServiceInv, GivesInv, NothingHeld
<1>6. ASSUME ~Races PROVE FreeInv'
  <2>1. FreeInv
    BY <1>6 DEF ServiceInv
  <2>2. AloneInv'
    BY <1>1, <1>4, <2>1 DEF FreeInv, AloneInv
  <2>3. At("network") \in {"idle", "start"}
    BY <1>1, <2>1 DEF FreeInv, AloneInv
  <2>4. PausedInv'
    BY <1>1, <2>3 DEF PausedInv, Stopped
  <2>5. ChosenInv'
    BY <1>1, <1>3, <1>4, <2>1 DEF FreeInv, ChosenInv, Targets
  <2>6. VolumeInv'
    BY <1>1, <1>3, <1>4, <2>1 DEF FreeInv, VolumeInv
  <2> QED
    BY <2>2, <2>4, <2>5, <2>6 DEF FreeInv
<1> QED
  BY <1>1, <1>5, <1>6 DEF ServiceInv

LEMMA UnpauseStepKeeps ==
  ASSUME ServiceInv, UnpauseStep
  PROVE  ServiceInv'
<1>1. /\ ScriptsInv' /\ At("main") = "unpause" /\ At("main")' = "halt"
      /\ At("network")' = At("network") /\ Ends("network")' = Ends("network")
  BY ScriptsDo, Successors, CallersAre DEF UnpauseStep, ServiceInv
<1>2. paused' = FALSE /\ UNCHANGED <<running, thread, plays, started>>
  BY DEF UnpauseStep, engineVars
<1>3. UNCHANGED <<mode, volume, saved, own, target, locks, focus, watching, service, contested>>
  BY DEF UnpauseStep, held, audio
<1>4. GivesInv'
  BY <1>1, <1>2, <1>3 DEF ServiceInv, GivesInv, NothingHeld
<1>5. ASSUME ~Races PROVE FreeInv'
  <2>1. FreeInv
    BY <1>5 DEF ServiceInv
  <2>2. AloneInv'
    BY <1>1, <1>3, <2>1 DEF FreeInv, AloneInv
  <2>3. PausedInv'
    BY <1>1, <1>2, <2>1 DEF FreeInv, PausedInv, Stopped
  <2>4. ChosenInv'
    BY <1>1, <1>2, <1>3, <2>1 DEF FreeInv, ChosenInv, Targets
  <2>5. VolumeInv'
    BY <1>1, <1>2, <1>3, <2>1 DEF FreeInv, VolumeInv
  <2> QED
    BY <2>2, <2>3, <2>4, <2>5 DEF FreeInv
<1> QED
  BY <1>1, <1>4, <1>5 DEF ServiceInv

LEMMA GiveBackStepKeeps ==
  ASSUME ServiceInv, GiveBackStep
  PROVE  ServiceInv'
<1>1. /\ ScriptsInv' /\ At("main") = "giveBack" /\ At("main")' \in {"destroyed", "idle"}
      /\ At("network")' = At("network") /\ Ends("network")' = Ends("network")
  BY ScriptsDo, Successors, CallersAre DEF GiveBackStep, ServiceInv
<1>2. ~locks' /\ focus' = "none" /\ UNCHANGED <<running, thread, plays, started>>
  BY DEF GiveBackStep, Released, engineVars
<1>3. UNCHANGED <<mode, volume, saved, own, target, paused, watching, service, contested>>
  BY DEF GiveBackStep, audio
<1>4. GivesInv'
  BY <1>1, <1>2, <1>3 DEF ServiceInv, GivesInv, NothingHeld
<1>5. ASSUME ~Races PROVE FreeInv'
  <2>1. FreeInv
    BY <1>5 DEF ServiceInv
  <2>2. AloneInv'
    BY <1>1, <1>3, <2>1 DEF FreeInv, AloneInv
  <2>3. PausedInv'
    BY <1>1, <1>2, <1>3, <2>1 DEF FreeInv, PausedInv, Stopped
  <2>4. ChosenInv'
    BY <1>1, <1>2, <1>3, <2>1 DEF FreeInv, ChosenInv, Targets
  <2>5. VolumeInv'
    BY <1>1, <1>2, <1>3, <2>1 DEF FreeInv, VolumeInv
  <2> QED
    BY <2>2, <2>3, <2>4, <2>5 DEF FreeInv
<1> QED
  BY <1>1, <1>4, <1>5 DEF ServiceInv

LEMMA WatchStepKeeps ==
  ASSUME ServiceInv, WatchStep
  PROVE  ServiceInv'
<1>1. /\ ScriptsInv' /\ At("main") = "watch" /\ At("main")' = "idle" /\ Ends("main") = "watch"
      /\ At("network")' = At("network") /\ Ends("network")' = Ends("network")
  BY ScriptsDo, Successors, CallersAre DEF WatchStep, ServiceInv
<1>2. UNCHANGED <<running, thread, plays, started>>
  BY DEF WatchStep, engineVars
<1>3. UNCHANGED <<mode, volume, saved, own, target, paused, locks, focus, service, contested>>
  BY DEF WatchStep, audio
<1>4. GivesInv'
  BY <1>1, <1>3 DEF ServiceInv, GivesInv, NothingHeld
<1>5. ASSUME ~Races PROVE FreeInv'
  <2>1. FreeInv
    BY <1>5 DEF ServiceInv
  <2>2. AloneInv'
    BY <1>1, <1>3, <2>1 DEF FreeInv, AloneInv
  <2>3. PausedInv'
    BY <1>1, <1>2, <1>3, <2>1 DEF FreeInv, PausedInv, Stopped
  <2>4. ChosenInv'
    BY <1>1, <1>2, <1>3, <2>1 DEF FreeInv, ChosenInv, Targets
  <2>5. VolumeInv'
    BY <1>1, <1>2, <1>3, <2>1 DEF FreeInv, VolumeInv
  <2> QED
    BY <2>2, <2>3, <2>4, <2>5 DEF FreeInv
<1> QED
  BY <1>1, <1>4, <1>5 DEF ServiceInv

LEMMA StopSelfStepKeeps ==
  ASSUME ServiceInv, StopSelfStep
  PROVE  ServiceInv'
<1>1. /\ ScriptsInv' /\ At("main") = "stopSelf" /\ At("main")' = "idle"
      /\ Ends("main") = "stopSelf"
      /\ At("network")' = At("network") /\ Ends("network")' = Ends("network")
  BY ScriptsDo, Successors, CallersAre DEF StopSelfStep, ServiceInv
<1>2. service' # "down" /\ UNCHANGED <<running, thread, plays, started>>
  BY DEF StopSelfStep, engineVars
<1>3. UNCHANGED <<mode, volume, saved, own, target, paused, locks, focus, watching, contested>>
  BY DEF StopSelfStep, held, audio
<1>4. GivesInv'
  BY <1>1, <1>2, <1>3 DEF ServiceInv, GivesInv, NothingHeld
<1>5. ASSUME ~Races PROVE FreeInv'
  <2>1. FreeInv
    BY <1>5 DEF ServiceInv
  <2>2. AloneInv'
    BY <1>1, <1>2, <2>1 DEF FreeInv, AloneInv
  <2>3. PausedInv'
    BY <1>1, <1>2, <1>3, <2>1 DEF FreeInv, PausedInv, Stopped
  <2>4. ChosenInv'
    BY <1>1, <1>2, <1>3, <2>1 DEF FreeInv, ChosenInv, Targets
  <2>5. VolumeInv'
    BY <1>1, <1>2, <1>3, <2>1 DEF FreeInv, VolumeInv
  <2> QED
    BY <2>2, <2>3, <2>4, <2>5 DEF FreeInv
<1> QED
  BY <1>1, <1>4, <1>5 DEF ServiceInv

LEMMA DestroyedStepKeeps ==
  ASSUME ServiceInv, DestroyedStep
  PROVE  ServiceInv'
<1>1. /\ ScriptsInv' /\ At("main") = "destroyed" /\ At("main")' = "idle"
      /\ At("network")' = At("network") /\ Ends("network")' = Ends("network")
  BY ScriptsDo, Successors, CallersAre DEF DestroyedStep, ServiceInv
<1>2. UNCHANGED <<running, thread, plays, started>>
  BY DEF DestroyedStep, engineVars
<1>3. /\ ~watching' /\ service' = "down" /\ target' = "none" /\ paused' = FALSE
      /\ UNCHANGED <<mode, volume, saved, own, locks, focus, contested>>
  BY DEF DestroyedStep, audio
<1>4. GivesInv'
  BY <1>1, <1>3 DEF ServiceInv, GivesInv, NothingHeld
<1>5. ASSUME ~Races PROVE FreeInv'
  <2>1. FreeInv
    BY <1>5 DEF ServiceInv
  <2>2. ~running /\ At("network") = "idle" /\ saved = 0
    BY <1>1, <2>1 DEF FreeInv, PausedInv, VolumeInv, Stopped, DestroyedStep, At, FirstOf
  <2>3. AloneInv'
    BY <1>1, <2>2 DEF AloneInv
  <2>4. PausedInv'
    BY <1>1, <1>2, <1>3, <2>2 DEF PausedInv, Stopped
  <2>5. ChosenInv'
    BY <1>1, <1>2, <2>2 DEF ChosenInv, Targets
  <2>6. VolumeInv'
    BY <1>1, <1>2, <1>3, <2>1, <2>2 DEF FreeInv, VolumeInv
  <2> QED
    BY <2>3, <2>4, <2>5, <2>6 DEF FreeInv
<1> QED
  BY <1>1, <1>4, <1>5 DEF ServiceInv

-----------------------------------------------------------------------------
(* All steps, and what sets the threads to work.                           *)
LEMMA InitService == Init => ServiceInv /\ AudioInv /\ HeldInv /\ NetInv /\ MeetInv
<1> SUFFICES ASSUME Init PROVE ServiceInv /\ AudioInv /\ HeldInv /\ NetInv /\ MeetInv
  OBVIOUS
<1>1. script = [c \in Callers |-> <<>>] /\ <<>> \in Seq(Steps) /\ Len(<<>>) = 0
  BY EmptySeq DEF Init
<1>2. ScriptsInv
  BY <1>1 DEF ScriptsInv, Script
<1>3. \A c \in Callers : At(c) = "idle"
  BY <1>1 DEF At, FirstOf
<1>4. /\ service = "down" /\ target = "none" /\ paused = FALSE /\ running = FALSE
      /\ locks = FALSE /\ focus = "none" /\ watching = FALSE /\ contested = {}
      /\ mode = "normal" /\ saved = 0 /\ volume \in Choices /\ own = volume
  BY DEF Init, InitEngine
<1>5. AudioInv
  <2>1. volume \in Levels /\ own \in Levels
    BY <1>4, PlaybackAssumption DEF Levels
  <2>2. saved \in 0 .. Loudest - 1
    BY <1>4, PlaybackAssumption
  <2> QED
    BY <1>4, <2>1, <2>2 DEF AudioInv
<1>6. GivesInv
  BY <1>3, <1>4, CallersAre DEF GivesInv, NothingHeld
<1>7. AloneInv /\ PausedInv /\ ChosenInv /\ VolumeInv
  BY <1>3, <1>4, CallersAre DEF AloneInv, PausedInv, ChosenInv, VolumeInv, Stopped, Targets
<1>8. NetInv
  BY <1>1, CallersAre DEF NetInv, NetScripts
<1>9. MeetInv
  <2>1. ~Starting
    BY <1>3, NetStarts, CallersAre
  <2> QED
    BY <1>3, <1>4, <2>1, CallersAre DEF MeetInv
<1> QED
  BY <1>2, <1>4, <1>5, <1>6, <1>7, <1>8, <1>9 DEF ServiceInv, FreeInv, HeldInv

LEMMA StartCommandKeeps ==
  ASSUME ServiceInv, TypedInv, NEW next \in Targets, StartCommand(next)
  PROVE  ServiceInv'
<1> DEFINE first == IF Switches(next) THEN "halt" ELSE next
<1>1. Piece(Commanded(next), first, "watch", 3 + 1 + 2 + 1)
  BY PiecesBegun
<1>2. first \in {"halt"} \cup Targets /\ (first \in Targets => ~running \/ first = target)
  BY DEF Switches, Targets
<1>3. first # "pause"
  BY <1>2 DEF Targets
<1> HIDE DEF first
<1>4. /\ Begins(Commanded(next)) /\ service' # "down"
      /\ UNCHANGED <<target, paused, locks, watching, focus, audio>>
  BY DEF StartCommand, held
<1>5. <<"watch", "idle">> \in Follows /\ 3 + 1 + 2 + 1 = 7 /\ 7 \in Nat /\ 7 <= 7
  BY DEF Follows
<1> QED
  BY <1>1, <1>2, <1>3, <1>4, <1>5, BeginsMain

LEMMA UserKeeps ==
  ASSUME ServiceInv, TypedInv, User
  PROVE  ServiceInv'
<1>1. /\ Begins(PlayingOn) \/ Begins(Pausing) \/ Begins(StoppingSelf)
      /\ service' # "down"
      /\ UNCHANGED <<target, paused, locks, watching, focus, audio>>
  BY DEF User, serviceVars, held
<1>2. \A last \in {"start", "giveBack", "stopSelf"} : <<last, "idle">> \in Follows
  BY DEF Follows
<1>3. 1 + 3 + 1 = 5 /\ 5 \in Nat /\ 5 <= 7 /\ 2 \in Nat /\ 2 <= 7
  OBVIOUS
<1>4. CASE Begins(PlayingOn)
  BY <1>1, <1>2, <1>3, <1>4, PiecesBegun, BeginsMain DEF Targets
<1>5. CASE Begins(Pausing)
  BY <1>1, <1>2, <1>3, <1>5, PiecesBegun, BeginsMain DEF Targets
<1>6. CASE Begins(StoppingSelf)
  BY <1>1, <1>2, <1>3, <1>6, PiecesBegun, BeginsMain DEF Targets
<1> QED
  BY <1>1, <1>4, <1>5, <1>6

LEMMA FocusKeeps ==
  ASSUME ServiceInv, TypedInv, FocusLost \/ FocusLostForNow \/ FocusGained
  PROVE  ServiceInv'
<1>1. /\ focus # "none" /\ focus' # "none"
      /\ UNCHANGED <<service, target, paused, locks, watching, audio>>
  BY DEF FocusLost, FocusLostForNow, FocusGained
<1>2. service' # "down"
  BY <1>1 DEF ServiceInv, GivesInv, NothingHeld
<1>3. 1 + 3 + 1 = 5 /\ 5 \in Nat /\ 5 <= 7 /\ 3 \in Nat /\ 3 <= 7 /\ 1 \in Nat /\ 1 <= 7
  OBVIOUS
<1>4. \A last \in {"restore", "start", "stopSelf"} : <<last, "idle">> \in Follows
  BY DEF Follows
<1>5. CASE FocusLost
  <2>1. Begins(StoppingSelf)
    BY <1>5 DEF FocusLost
  <2> QED
    BY <1>1, <1>2, <1>3, <1>4, <2>1, PiecesBegun, BeginsMain DEF Targets
<1>6. CASE FocusLostForNow
  <2>1. Begins(Stopping)
    BY <1>6 DEF FocusLostForNow
  <2> QED
    BY <1>1, <1>2, <1>3, <1>4, <2>1, StoppingPiece, BeginsMain DEF Targets
<1>7. CASE FocusGained
  <2>1. CASE MayStart
    <3>1. Begins(<<"start">>)
      BY <1>7, <2>1 DEF FocusGained
    <3>2. Piece(<<"start">>, "start", "start", 1)
      BY OneStep DEF Steps
    <3> QED
      BY <1>1, <1>2, <1>3, <1>4, <3>1, <3>2, BeginsMain DEF Targets
  <2>2. CASE ~MayStart
    <3>1. Begins(<<>>)
      BY <1>7, <2>2 DEF FocusGained
    <3>2. At("main") = "idle" /\ Ends("main") = "idle" /\ script' = script
      BY <3>1 DEF Begins, At, Ends, FirstOf, LastOf, ServiceInv, ScriptsInv
    <3>3. /\ UNCHANGED <<running, thread, plays, started>>
          /\ started \in contested => started \in contested'
      BY <3>1, NotesNext DEF Begins, Starting, engineVars
    <3>4. UNCHANGED <<mode, saved, volume, own>>
      BY <1>1 DEF audio
    <3> QED
      BY <1>1, <3>2, <3>3, <3>4, ScriptsUnmoved
  <2> QED
    BY <2>1, <2>2
<1> QED
  BY <1>5, <1>6, <1>7

LEMMA NetworkKeeps ==
  ASSUME ServiceInv, TypedInv, Available \/ Lost \/ Destroy
  PROVE  ServiceInv'
<1>1. 3 + 2 = 5 /\ 5 \in Nat /\ 5 <= 7 /\ 3 \in Nat /\ 3 <= 7 /\ 1 \in Nat /\ 1 <= 7
  OBVIOUS
<1>2. \A last \in {"restore", "start", "destroyed"} : <<last, "idle">> \in Follows
  BY DEF Follows
<1>3. CASE Available
  <2>1. /\ CallsBack(<<"start">>)
        /\ started \in contested => started \in contested'
    BY <1>3, NotesNext DEF Available
  <2>2. Piece(<<"start">>, "start", "start", 1)
    BY OneStep DEF Steps
  <2> QED
    BY <1>1, <1>2, <2>1, <2>2, BeginsNetwork
<1>4. CASE Lost
  <2>1. CallsBack(Stopping) /\ contested' = contested
    BY <1>4 DEF Lost
  <2> QED
    BY <1>1, <1>2, <2>1, StoppingPiece, BeginsNetwork
<1>5. CASE Destroy
  <2>1. /\ Begins(Destroying) /\ service' # "down"
        /\ UNCHANGED <<target, paused, locks, watching, focus, audio>>
    BY <1>5 DEF Destroy, serviceVars, held
  <2> QED
    BY <1>1, <1>2, <2>1, PiecesBegun, BeginsMain DEF Targets
<1> QED
  BY <1>3, <1>4, <1>5

LEMMA UnscriptedKeeps ==
  ASSUME ServiceInv,
         \/ Woken
         \/ \E level \in Choices : SetVolume(level)
         \/ EngineNext /\ UNCHANGED <<script, serviceVars>>
         \/ UNCHANGED vars
  PROVE  ServiceInv'
<1>1. /\ script' = script
      /\ running' => running
      /\ UNCHANGED <<thread, plays, started>>
  BY EngineOnlyStops DEF Woken, SetVolume, vars, engineVars
<1>2. UNCHANGED <<target, paused, locks, focus, watching, mode, saved, contested>>
  BY DEF Woken, SetVolume, vars, serviceVars, held, audio
<1>3. service' = service \/ service' # "down"
  BY DEF Woken, SetVolume, vars, serviceVars
<1>4. UNCHANGED <<volume, own>> \/ volume' = own'
  BY DEF Woken, SetVolume, vars, serviceVars, audio
<1> QED
  BY <1>1, <1>2, <1>3, <1>4, ScriptsUnmoved

LEMMA ServiceKept ==
  ASSUME ServiceInv, AudioInv, TypedInv, MeetInv, NetInv, [Next]_vars
  PROVE  ServiceInv'
<1>1. CASE \E next \in Targets : StartCommand(next)
  BY <1>1, StartCommandKeeps
<1>2. CASE User
  BY <1>2, UserKeeps
<1>3. CASE FocusLost \/ FocusLostForNow \/ FocusGained
  BY <1>3, FocusKeeps
<1>4. CASE Available \/ Lost \/ Destroy
  BY <1>4, NetworkKeeps
<1>5. CASE \E c \in Callers : HaltStep(c) \/ JoinStep(c) \/ RestoreStep(c) \/ StartStep(c)
  BY <1>5, HaltStepKeeps, JoinStepKeeps, RestoreStepKeeps, StartStepKeeps
<1>6. CASE MainStep
  BY <1>6, ChooseStepKeeps, RequestStepKeeps, PauseStepKeeps, UnpauseStepKeeps,
     GiveBackStepKeeps, WatchStepKeeps, StopSelfStepKeeps, DestroyedStepKeeps DEF MainStep
<1>7. CASE \/ Woken
           \/ \E level \in Choices : SetVolume(level)
           \/ EngineNext /\ UNCHANGED <<script, serviceVars>>
           \/ UNCHANGED vars
  BY <1>7, UnscriptedKeeps
<1> QED
  BY <1>1, <1>2, <1>3, <1>4, <1>5, <1>6, <1>7 DEF Next

LEMMA AudioKept == AudioInv /\ [Next]_vars => AudioInv'
<1> SUFFICES ASSUME AudioInv, [Next]_vars PROVE AudioInv'
  OBVIOUS
<1>0. /\ volume \in Levels /\ own \in Levels /\ saved \in 0 .. Loudest - 1
      /\ Loudest \in Nat \ {0} /\ Levels = 1 .. Loudest /\ Choices \subseteq Levels
  BY PlaybackAssumption DEF AudioInv, Levels
<1>1. CASE \E c \in Callers : RestoreStep(c)
  <2>1. /\ volume' = volume \/ (saved # 0 /\ volume' = saved)
        /\ saved' = 0 /\ mode' = "normal" /\ own' = own
    BY <1>1 DEF RestoreStep
  <2>2. volume' \in 1 .. Loudest /\ saved' \in 0 .. Loudest - 1
    BY <1>0, <2>1
  <2> QED
    BY <1>0, <2>1, <2>2 DEF AudioInv, Levels
<1>2. CASE \E c \in Callers : StartStep(c)
  <2>1. /\ own' = own
        /\ mode' \in {mode, "communication", "normal"}
        /\ \/ UNCHANGED <<saved, volume>>
           \/ saved' = volume /\ volume' = Loudest /\ volume < Loudest
    BY <1>2 DEF StartStep, Raises, audio
  <2>2. volume' \in 1 .. Loudest /\ saved' \in 0 .. Loudest - 1
    BY <1>0, <2>1
  <2> QED
    BY <1>0, <2>1, <2>2 DEF AudioInv, Levels
<1>3. CASE \E level \in Choices : SetVolume(level)
  <2>1. volume' \in Levels /\ own' \in Levels /\ UNCHANGED <<mode, saved>>
    BY <1>0, <1>3 DEF SetVolume
  <2> QED
    BY <2>1 DEF AudioInv, Levels
<1>4. CASE UNCHANGED audio
  BY <1>4 DEF AudioInv, audio, Levels
<1> QED
  BY <1>1, <1>2, <1>3, <1>4
  DEF Next, vars, serviceVars, StartCommand, Woken, User, FocusLost, FocusLostForNow,
      FocusGained, CallsBack, Available, Lost, Destroy, HaltStep, JoinStep, MainStep, ChooseStep,
      RequestStep, PauseStep, UnpauseStep, GiveBackStep, WatchStep, StopSelfStep, DestroyedStep

LEMMA HeldKept == HeldInv /\ [Next]_vars => HeldInv'
<1> SUFFICES ASSUME HeldInv, [Next]_vars PROVE HeldInv'
  OBVIOUS
<1>1. service' \in {"down", "up", "ending"}
  BY DEF HeldInv, Next, vars, serviceVars, StartCommand, Woken, User, FocusLost,
    FocusLostForNow, FocusGained, CallsBack, Available, Lost, Destroy, SetVolume, HaltStep, JoinStep,
    RestoreStep, StartStep, MainStep, ChooseStep, RequestStep, PauseStep, UnpauseStep,
    GiveBackStep, WatchStep, StopSelfStep, DestroyedStep
<1>2. paused' \in BOOLEAN
  BY DEF HeldInv, Next, vars, serviceVars, StartCommand, Woken, User, FocusLost,
    FocusLostForNow, FocusGained, CallsBack, Available, Lost, Destroy, SetVolume, HaltStep, JoinStep,
    RestoreStep, StartStep, MainStep, ChooseStep, RequestStep, PauseStep, UnpauseStep,
    GiveBackStep, WatchStep, StopSelfStep, DestroyedStep
<1>3. locks' \in BOOLEAN /\ watching' \in BOOLEAN
  BY DEF HeldInv, held, Next, vars, serviceVars, StartCommand, Woken, User, FocusLost,
    FocusLostForNow, FocusGained, CallsBack, Available, Lost, Destroy, SetVolume, HaltStep, JoinStep,
    RestoreStep, StartStep, MainStep, ChooseStep, RequestStep, PauseStep, UnpauseStep,
    GiveBackStep, Released, WatchStep, StopSelfStep, DestroyedStep
<1>4. focus' \in {"none", "held", "lost", "denied"}
  BY DEF HeldInv, held, Next, vars, serviceVars, StartCommand, Woken, User, FocusLost,
    FocusLostForNow, FocusGained, CallsBack, Available, Lost, Destroy, SetVolume, HaltStep, JoinStep,
    RestoreStep, StartStep, MainStep, ChooseStep, RequestStep, PauseStep, UnpauseStep,
    GiveBackStep, WatchStep, StopSelfStep, DestroyedStep
<1>5. contested' \subseteq Threads
  <2>1. \A meets \in BOOLEAN : Notes(meets) => contested' \subseteq Threads
    BY DEF Notes, NextStart, HeldInv
  <2>2. contested' \subseteq contested \/ \E meets \in BOOLEAN : Notes(meets)
    BY DEF Next, vars, serviceVars, Begins, Starting, StartCommand, Woken, User, FocusLost,
      FocusLostForNow, FocusGained, CallsBack, Available, Lost, Destroy, SetVolume, HaltStep, JoinStep,
      RestoreStep, StartStep, MainStep, ChooseStep, RequestStep, PauseStep, UnpauseStep,
      GiveBackStep, WatchStep, StopSelfStep, DestroyedStep
  <2> QED
    BY <2>1, <2>2 DEF HeldInv
<1> QED
  BY <1>1, <1>2, <1>3, <1>4, <1>5 DEF HeldInv

AllInv == TypedInv /\ TargetInv /\ AudioInv /\ HeldInv /\ ServiceInv /\ NetInv /\ MeetInv

LEMMA AllInitially == Init => AllInv
<1>1. EngineInv => TypedInv
  BY DEF EngineInv, ThreadInv, TypedInv
<1> QED
  BY <1>1, InitEngineInv, InitService DEF Init, TargetInv, AllInv

LEMMA AllKept == AllInv /\ [Next]_vars => AllInv'
<1> SUFFICES ASSUME AllInv, [Next]_vars PROVE AllInv'
  OBVIOUS
<1>1. TypedInv /\ TargetInv /\ AudioInv /\ HeldInv /\ ServiceInv /\ NetInv /\ MeetInv
      /\ ScriptsInv
  BY DEF AllInv, ServiceInv
<1>2. ServiceInv' /\ NetInv' /\ MeetInv'
  BY <1>1, ServiceKept, NetKept, MeetKept
<1>3. TypedInv' /\ TargetInv' /\ AudioInv' /\ HeldInv'
  BY <1>1, EngineTyped, ServiceStep, TargetKept, AudioKept, HeldKept
<1> QED
  BY <1>2, <1>3 DEF AllInv

LEMMA AllAlways == Spec => []AllInv
  BY AllInitially, AllKept, PTL DEF Spec

LEMMA IdleThreads == Idle => \A c \in Callers : At(c) = "idle" /\ Ends(c) = "idle"
  BY DEF Idle, At, Ends, FirstOf, LastOf

(* Every variable stays in its range, and no script grows, however many    *)
(* threads there are: the numbers of handles and threads are those of      *)
(* threads that exist, and what is saved of the call volume is a volume    *)
(* (PlaybackService.kt:225-248, AudioEngine.kt:37-60).                     *)
THEOREM PlaybackTyped == Spec => []TypeOK
<1>1. AllInv => TypeOK
  BY DEF AllInv, TypedInv, TargetInv, ServiceInv, ScriptsInv, AudioInv, HeldInv, TypeOK
<1> QED
  BY <1>1, AllAlways, PTL

(* A pause and the end of the service give back the locks and the focus,   *)
(* the end the network's callback too, also if the network's thread is     *)
(* busy meanwhile (PlaybackService.kt:145-167).                            *)
THEOREM NothingIsKept == Spec => []NothingKept
<1>1. ASSUME AllInv PROVE NothingKept
  <2>1. script["main"] = <<>> => At("main") = "idle" /\ Ends("main") = "idle"
    BY DEF At, Ends, FirstOf, LastOf
  <2> QED
    BY <1>1, <2>1 DEF AllInv, ServiceInv, GivesInv, NothingHeld, NothingKept
<1> QED
  BY <1>1, AllAlways, PTL

(* The call volume is its user's again after a pause that met no start and *)
(* after the end, whatever the loudest is, whatever the user chose         *)
(* meanwhile, and however many threads still live, where no callback goes  *)
(* on amid a method of the main thread (PlaybackService.kt:225-248).       *)
THEOREM VolumeIsGivenBack ==
  ASSUME Races = FALSE
  PROVE  Spec => []VolumeGivenBack
<1>1. ASSUME AllInv PROVE VolumeGivenBack
  <2> SUFFICES ASSUME Idle, (paused /\ started \notin contested) \/ service = "down"
               PROVE  volume = own \/ own = Loudest
    BY DEF VolumeGivenBack
  <2>1. At("main") = "idle"
    BY IdleThreads, CallersAre
  <2>2. own \in Levels /\ own # 0
    BY <1>1 DEF AllInv, AudioInv, Levels
  <2>3. VolumeInv
    BY <1>1 DEF AllInv, ServiceInv, FreeInv
  <2> QED
    BY <2>1, <2>2, <2>3 DEF VolumeInv
<1> QED
  BY <1>1, AllAlways, PTL

(* The newest start plays what was chosen last, on the path it needs,      *)
(* however often it is switched and also while older threads still live,   *)
(* which it says nothing of: their targets they keep.  A start may be      *)
(* pending on the network's thread across any methods of the main thread,  *)
(* but no callback goes on amid one of them, where its restore could undo  *)
(* the mode of a start (PlaybackService.kt:117-122, 185-198).              *)
THEOREM TheChosenPlays ==
  ASSUME Races = FALSE
  PROVE  Spec => []PlaysWhatWasChosen
<1>1. AllInv => PlaysWhatWasChosen
  BY DEF AllInv, ServiceInv, FreeInv, ChosenInv, PlaysWhatWasChosen
<1> QED
  BY <1>1, AllAlways, PTL

-----------------------------------------------------------------------------
(* A thread that has finished has told its microphone to stop, so that it  *)
(* reads no more, and no other thread runs until it has.                   *)
Past == {"joining", "freeing", "clearing", "done"}

Quiet(t) ==
  /\ mic[t] = "reading" => t \in woken
  /\ Works(t) => ~running

EndInv(t) ==
  /\ MicAlive(t) /\ engine[t] \in {"looping", "filling", "ending", "joining"} => capture = t
  /\ engine[t] \in Past => Quiet(t)

LEMMA InitEnd == InitEngine => \A t \in Threads : EndInv(t)
  BY DEF InitEngine, EndInv, Quiet, Works, Alive, MicAlive, Past

LEMMA StartKeepsEnd ==
  ASSUME Overlaps = FALSE, EngineInv, NEW next \in Targets, StartEngine(next),
         NEW t \in Threads, EndInv(t)
  PROVE  EndInv(t)'
<1>1. CASE UNCHANGED engineVars
  BY <1>1 DEF engineVars, EndInv, Quiet, Works, Alive, MicAlive
<1>2. CASE Ended /\ started < MaxStarts /\ started' = started + 1
           /\ engine' = [engine EXCEPT ![started'] = "connecting"]
           /\ UNCHANGED <<capture, mic, woken>>
  <2>1. ~Alive(t) /\ ~MicAlive(t) /\ engine'[t] \in {engine[t], "connecting"}
    BY <1>2 DEF Ended, EngineInv, EngineTypes
  <2>2. ~MicAlive(t)' /\ mic'[t] = mic[t]
    BY <1>2, <2>1 DEF MicAlive
  <2>3. engine'[t] \in Past => ~Alive(t)'
    BY <2>1 DEF Past, Alive
  <2> QED
    BY <2>1, <2>2, <2>3 DEF EndInv, Quiet, Works, MicAlive, Past
<1> QED
  BY <1>1, <1>2 DEF StartEngine, EngineAt

(* As it ends a thread wakes its microphone, if that is recording.         *)
LEMMA AudioKeepsEnd ==
  ASSUME EngineInv, NEW u \in Threads, AudioStep(u), NEW t \in Threads, EndInv(t)
  PROVE  EndInv(t)'
<1>0. /\ u = started /\ capture \in {0, u}
      /\ t # u => ~Alive(t) /\ ~MicAlive(t)
  BY AudioAlive DEF EngineInv, EngineTypes, ThreadInv, Works
<1>1. /\ engine \in [Threads -> {"unborn", "connecting", "connected", "looping", "filling",
                                 "ending", "joining", "freeing", "clearing", "done"}]
      /\ mic \in [Threads -> {"none", "opening", "checking", "reading", "sending", "done"}]
      /\ ThreadInv(u) /\ u # 0
  BY ThreadsAreNumbered DEF EngineInv, EngineTypes
<1>2. CASE t # u
  <2>1. engine'[t] = engine[t] /\ mic'[t] = mic[t] /\ ~Alive(t) /\ ~MicAlive(t)
    BY <1>0, <1>1, <1>2 DEF AudioStep, Connect, StartMicrophone, NoMicrophone, Loop, Fill,
      Finish, JoinMicrophone, Free, Clear, EngineAt, MicAt
  <2> QED
    BY <2>1 DEF EndInv, Quiet, Works, Alive, MicAlive, Past
<1>3. CASE t = u
  <2>1. CASE Connect(t)
    BY <1>1, <1>3, <2>1 DEF Connect, EngineAt, ThreadInv, EndInv, Quiet, Works, Alive, MicAlive, Past
  <2>2. CASE StartMicrophone(t)
    BY <1>1, <1>3, <2>2 DEF StartMicrophone, EngineAt, MicAt, EndInv, Quiet, Works, Alive, MicAlive, Past
  <2>3. CASE NoMicrophone(t)
    BY <1>1, <1>3, <2>3 DEF NoMicrophone, EngineAt, ThreadInv, EndInv, Quiet, Works, Alive, MicAlive, Past
  <2>4. CASE Loop(t) \/ Fill(t)
    BY <1>1, <1>3, <2>4 DEF Loop, Fill, EngineAt, EndInv, Quiet, Works, Alive, MicAlive, Past
  <2>5. CASE Finish(t)
    <3>1. mic[t] = "reading" => t \in woken'
      BY <1>1, <1>3, <2>5 DEF Finish, Wakes, Recording, EndInv, MicAlive
    <3> QED
      BY <1>1, <1>3, <2>5, <3>1 DEF Finish, EngineAt, EndInv, Quiet, Works, Alive, MicAlive, Past
  <2>6. CASE JoinMicrophone(t) \/ Free(t) \/ Clear(t)
    BY <1>1, <1>3, <2>6 DEF JoinMicrophone, Free, Clear, EngineAt, EndInv, Quiet, Works, Alive,
      MicAlive, Past
  <2> QED
    BY <1>3, <2>1, <2>2, <2>3, <2>4, <2>5, <2>6 DEF AudioStep
<1> QED
  BY <1>2, <1>3

(* Where a microphone thread goes: it begins to read only while its engine *)
(* runs, and to send only what a recording that goes on has given it.      *)
LEMMA MicGoesWhere ==
  ASSUME EngineInv, NEW u \in Threads, MicStep(u) \/ Read(u)
  PROVE  /\ MicAlive(u) /\ MicUnchanged
         /\ \E state \in {"checking", "reading", "sending", "done"} :
              /\ mic' = [mic EXCEPT ![u] = state]
              /\ woken' = IF state = "done" THEN woken \ {u} ELSE woken
              /\ state = "reading" => running
              /\ state = "sending" => mic[u] = "reading" /\ u \notin woken
<1>1. /\ mic \in [Threads -> {"none", "opening", "checking", "reading", "sending", "done"}]
      /\ MicAlive(u) /\ MicUnchanged
  BY MicMoves DEF EngineInv, EngineTypes
<1>2. CASE Open(u) \/ Send(u)
  <2>1. PICK state \in {"checking", "done"} : MicGoes(u, state)
    BY <1>2 DEF Open, Send
  <2> QED
    BY <1>1, <2>1 DEF MicGoes, MicAt
<1>3. CASE Check(u)
  <2>1. MicGoes(u, IF running THEN "reading" ELSE "done")
    BY <1>3 DEF Check, Records
  <2> QED
    BY <1>1, <2>1 DEF MicGoes, MicAt
<1>4. CASE Read(u)
  BY <1>1, <1>4 DEF Read, MicGoes, MicAt
<1>5. CASE ReadEnds(u)
  BY <1>1, <1>5 DEF ReadEnds, MicGoes, MicAt
<1> QED
  BY <1>2, <1>3, <1>4, <1>5 DEF MicStep

LEMMA MicKeepsEnd ==
  ASSUME EngineInv, NEW u \in Threads, MicStep(u) \/ Read(u), NEW t \in Threads, EndInv(t)
  PROVE  EndInv(t)'
<1>1. PICK state \in {"checking", "reading", "sending", "done"} :
        /\ mic' = [mic EXCEPT ![u] = state]
        /\ woken' = IF state = "done" THEN woken \ {u} ELSE woken
        /\ state = "reading" => running
  BY MicGoesWhere
<1>2. /\ mic \in [Threads -> {"none", "opening", "checking", "reading", "sending", "done"}]
      /\ MicAlive(u) /\ MicUnchanged
  BY MicGoesWhere DEF EngineInv, EngineTypes
<1>3. CASE t # u
  <2>1. mic'[t] = mic[t] /\ (t \in woken' <=> t \in woken)
    BY <1>1, <1>2, <1>3
  <2> QED
    BY <1>2, <2>1 DEF MicUnchanged, EndInv, Quiet, Works, Alive, MicAlive
<1>4. CASE t = u
  <2>1. mic'[t] = state /\ (state # "done" => (t \in woken' <=> t \in woken))
    BY <1>1, <1>2, <1>4
  <2> QED
    BY <1>1, <1>2, <1>4, <2>1 DEF MicUnchanged, EndInv, Quiet, Works, Alive, MicAlive, Past
<1> QED
  BY <1>3, <1>4

LEMMA EndKept ==
  ASSUME Overlaps = FALSE, EngineInv, EngineStep \/ UNCHANGED engineVars,
         NEW t \in Threads, EndInv(t)
  PROVE  EndInv(t)'
<1>1. CASE UNCHANGED engineVars
  BY <1>1 DEF engineVars, EndInv, Quiet, Works, Alive, MicAlive
<1>2. CASE Halt \/ Join
  BY <1>2 DEF Halt, Join, EndInv, Quiet, Works, Alive, MicAlive
<1>3. CASE EngineNext
  BY <1>3, AudioKeepsEnd, MicKeepsEnd DEF EngineNext
<1> QED
  BY <1>1, <1>2, <1>3, StartKeepsEnd DEF EngineStep

LEMMA EndAlways ==
  ASSUME Overlaps = FALSE
  PROVE  Spec => []\A t \in Threads : EndInv(t)
<1> DEFINE I == \A t \in Threads : EndInv(t)
<1>1. Init => I /\ TargetInv
  BY InitEnd DEF Init, TargetInv
<1>2. EngineInv /\ I /\ TargetInv /\ [Next]_vars => I' /\ TargetInv'
  BY EndKept, ServiceStep, TargetKept
<1> HIDE DEF I
<1>3. Spec => []I
  BY <1>1, <1>2, EngineAlways, PTL DEF Spec
<1> QED
  BY <1>3 DEF I

-----------------------------------------------------------------------------
(* How many steps a microphone thread that may not go on has left at most. *)
Left(state) == IF state = "checking" THEN 1
               ELSE IF state \in {"opening", "reading", "sending"} THEN 2 ELSE 0

(* A microphone that outlives its thread is told to stop, and nothing tells*)
(* it otherwise while it lives: every step it then takes brings it nearer  *)
(* its end, which is two steps away at most, and it never reads again      *)
(* (Microphone.kt:69-79, AudioEngine.kt:181-197).  With a microphone       *)
(* thread that runs that is why MicrophoneCloses holds.                    *)
THEOREM TheMicrophoneEnds ==
  ASSUME Overlaps = FALSE
  PROVE  Spec => [][\A t \in Threads :
                      engine[t] = "done" /\ MicAlive(t) =>
                        /\ engine'[t] = "done" /\ ~running'
                        /\ Left(mic'[t]) <= Left(mic[t])
                        /\ MicStep(t) => Left(mic'[t]) < Left(mic[t])
                        /\ ~Read(t)]_vars
<1> DEFINE Nearer(t) == /\ engine'[t] = "done" /\ ~running'
                        /\ Left(mic'[t]) <= Left(mic[t])
                        /\ MicStep(t) => Left(mic'[t]) < Left(mic[t])
                        /\ ~Read(t)
<1>1. ASSUME EngineInv, EngineStep \/ UNCHANGED engineVars, NEW t \in Threads, EndInv(t),
             engine[t] = "done", MicAlive(t)
      PROVE  Nearer(t)
  <2>1. ~running /\ (mic[t] = "reading" => t \in woken)
    BY <1>1 DEF EndInv, Past, Quiet, Works
  <2>2. /\ mic \in [Threads -> {"none", "opening", "checking", "reading", "sending", "done"}]
        /\ started = t /\ \A u \in Threads : u # t => ~Alive(u) /\ ~MicAlive(u)
    BY <1>1 DEF EngineInv, EngineTypes, ThreadInv, Works
  <2>3. ~Read(t)
    BY <2>1 DEF Read
  <2>4. ASSUME MicStep(t) PROVE Nearer(t)
    <3>1. /\ MicUnchanged
          /\ \/ mic[t] \in {"opening", "reading", "sending"} /\ mic'[t] \in {"checking", "done"}
             \/ mic[t] = "checking" /\ mic'[t] = "done"
      BY <2>1, <2>2, <2>4 DEF MicStep, Open, Check, Records, ReadEnds, Send, MicGoes, MicAt
    <3>2. Left(mic'[t]) < Left(mic[t])
      BY <3>1 DEF Left
    <3>3. Left(mic'[t]) <= Left(mic[t])
      BY <3>1 DEF Left
    <3>4. engine'[t] = "done" /\ ~running'
      BY <1>1, <2>1, <3>1 DEF MicUnchanged
    <3> QED
      BY <2>3, <3>2, <3>3, <3>4
  <2>5. ASSUME ~MicStep(t) PROVE Nearer(t)
    <3>1. ASSUME NEW u \in Threads, AudioStep(u) \/ MicStep(u) \/ Read(u) PROVE FALSE
      <4>1. Alive(u) \/ MicAlive(u)
        BY <1>1, <3>1, AudioAlive, MicGoesWhere
      <4>2. u = t
        BY <2>2, <4>1
      <4> QED
        BY <1>1, <2>3, <2>5, <3>1, <4>2, AudioAlive DEF Alive
    <3>2. ASSUME NEW next \in Targets, StartEngine(next) PROVE UNCHANGED engineVars
      BY <1>1, <2>1, <3>2 DEF StartEngine, Ended
    <3>3. UNCHANGED <<engine, mic>> /\ running' \in {running, FALSE}
      BY <1>1, <3>1, <3>2 DEF EngineStep, EngineNext, Halt, Join, engineVars
    <3>4. Left(mic'[t]) <= Left(mic[t])
      BY <3>3 DEF Left
    <3>5. engine'[t] = "done"
      BY <1>1, <3>3
    <3>6. ~running'
      BY <2>1, <3>3
    <3> QED
      BY <2>3, <2>5, <3>4, <3>5, <3>6
  <2> QED
    BY <2>4, <2>5
<1> DEFINE A == \A t \in Threads : engine[t] = "done" /\ MicAlive(t) => Nearer(t)
           I == \A t \in Threads : EndInv(t)
<1>2. EngineInv /\ TargetInv /\ I /\ [Next]_vars => [A]_vars
  BY <1>1, ServiceStep
<1>3. Init => TargetInv
  BY DEF Init, TargetInv
<1>4. Spec => []TargetInv
  BY <1>3, TargetKept, PTL DEF Spec
<1>5. Spec => []I
  BY EndAlways
<1> HIDE DEF I, A
<1>6. Spec => [][A]_vars
  BY <1>2, <1>4, <1>5, EngineAlways, PTL DEF Spec
<1> QED
  BY <1>6 DEF A

-----------------------------------------------------------------------------
(* A microphone that has been joined sends no more, and a thread that is no*)
(* longer the engine's is stuck where it can do no harm.                   *)
LateInv(t) ==
  /\ engine[t] \in {"freeing", "clearing", "done"} => mic[t] # "sending"
  /\ thread = 0 => engine[t] # "filling" /\ mic[t] # "sending" /\ Quiet(t)

LEMMA InitLate == InitEngine => \A t \in Threads : LateInv(t)
  BY DEF InitEngine, LateInv, EndInv, Quiet, Works, Alive, MicAlive, Past

LEMMA StartKeepsLate ==
  ASSUME Overlaps = FALSE, EngineInv, NEW next \in Targets, StartEngine(next),
         NEW t \in Threads, EndInv(t), LateInv(t)
  PROVE  LateInv(t)'
<1>1. CASE UNCHANGED engineVars
  BY <1>1 DEF engineVars, LateInv, EndInv, Quiet, Works, Alive, MicAlive
<1>2. CASE Ended /\ started < MaxStarts /\ started' = started + 1 /\ thread' = started'
           /\ engine' = [engine EXCEPT ![started'] = "connecting"]
           /\ UNCHANGED <<handle, capture, mic, given, woken, session>>
  <2>1. ~Alive(t) /\ ~MicAlive(t) /\ thread' # 0 /\ t # 0
    BY <1>2, ThreadsAreNumbered DEF Ended, EngineInv, EngineTypes
  <2>2. engine'[t] \in {engine[t], "connecting"}
    BY <1>2 DEF EngineInv, EngineTypes
  <2>3. ~MicAlive(t)' /\ mic'[t] = mic[t]
    BY <1>2, <2>1 DEF MicAlive
  <2>4. engine'[t] \in Past => ~Alive(t)'
    BY <2>1, <2>2 DEF Past, Alive
  <2> QED
    BY <2>1, <2>3, <2>4 DEF LateInv, EndInv, Quiet, Works, MicAlive, Past
<1> QED
  BY <1>1, <1>2 DEF StartEngine, EngineAt

LEMMA HaltKeepsLate ==
  ASSUME Halt, NEW t \in Threads, EndInv(t), LateInv(t)
  PROVE  LateInv(t)'
BY DEF Halt, LateInv, EndInv, Quiet, Works, Alive, MicAlive

(* A join waits for the thread, unless it is stuck.                        *)
LEMMA JoinKeepsLate ==
  ASSUME EngineInv, Join, ~running, NEW t \in Threads,
         \A u \in Threads : EndInv(u) /\ LateInv(u)
  PROVE  LateInv(t)'
<1>1. /\ UNCHANGED <<running, handle, capture, started, plays, engine, mic, given, woken, session>>
      /\ thread' = 0 /\ thread \in {0, started} /\ started \in 0 .. MaxStarts
      /\ EndInv(t) /\ LateInv(t) /\ ThreadInv(t)
  BY DEF Join, EngineInv, EngineTypes
<1>2. engine[t] # "filling" /\ mic[t] # "sending" /\ Quiet(t)
  <2>1. CASE thread = 0
    BY <1>1, <2>1 DEF LateInv, EndInv
  <2>2. CASE ~Works(t)
    BY <2>2 DEF Works, Quiet, Alive, MicAlive
  <2>3. CASE Works(t) /\ thread # 0
    <3>1. t = thread
      BY <1>1, <2>3 DEF ThreadInv
    <3>2. ~Alive(t) \/ Stuck(t)
      BY <2>3, <3>1 DEF Join
    <3>3. engine[t] \in {"unborn", "connecting", "freeing", "joining", "done"}
          /\ (engine[t] = "joining" => mic[t] \in {"opening", "reading"})
      BY <3>2 DEF Alive, Stuck
    <3>4. engine[t] \in {"unborn", "connecting"} => mic[t] = "none"
      BY <1>1 DEF ThreadInv
    <3> QED
      BY <1>1, <3>3, <3>4 DEF LateInv, EndInv, Quiet, Past
  <2> QED
    BY <2>1, <2>2, <2>3
<1> QED
  BY <1>1, <1>2 DEF LateInv, EndInv, Quiet, Works, Alive, MicAlive

LEMMA AudioKeepsLate ==
  ASSUME EngineInv, NEW u \in Threads, AudioStep(u), NEW t \in Threads, EndInv(t), LateInv(t)
  PROVE  LateInv(t)'
<1> USE ThreadsAreNumbered
<1>0. /\ u = started /\ capture \in {0, u} /\ handle \in {0, u}
      /\ t # u => ~Alive(t) /\ ~MicAlive(t)
  BY AudioAlive DEF EngineInv, EngineTypes, ThreadInv, Works
<1>1. /\ engine \in [Threads -> {"unborn", "connecting", "connected", "looping", "filling",
                                 "ending", "joining", "freeing", "clearing", "done"}]
      /\ mic \in [Threads -> {"none", "opening", "checking", "reading", "sending", "done"}]
      /\ ThreadInv(u)
  BY DEF EngineInv, EngineTypes
<1>2. CASE t # u
  <2>1. engine'[t] = engine[t] /\ mic'[t] = mic[t] /\ ~Alive(t) /\ ~MicAlive(t)
    BY <1>0, <1>1, <1>2 DEF AudioStep, Connect, StartMicrophone, NoMicrophone, Loop, Fill,
      Finish, JoinMicrophone, Free, Clear, EngineAt, MicAt
  <2> QED
    BY <2>1 DEF LateInv, EndInv, Quiet, Works, Alive, MicAlive, Past
<1>3. CASE t = u
  <2>1. CASE Connect(t)
    BY <1>1, <1>3, <2>1 DEF Connect, EngineAt, ThreadInv, LateInv, EndInv, Quiet, Works, Alive, MicAlive, Past
  <2>2. CASE StartMicrophone(t)
    BY <1>1, <1>3, <2>2 DEF StartMicrophone, EngineAt, MicAt, LateInv, EndInv, Quiet, Works, Alive, MicAlive, Past
  <2>3. CASE NoMicrophone(t)
    BY <1>1, <1>3, <2>3 DEF NoMicrophone, EngineAt, ThreadInv, LateInv, EndInv, Quiet, Works, Alive, MicAlive, Past
  <2>4. CASE Loop(t)
    BY <1>1, <1>3, <2>4 DEF Loop, GoesOn, EngineAt, LateInv, EndInv, Quiet, Works, Alive, MicAlive, Past
  <2>5. CASE Fill(t)
    BY <1>1, <1>3, <2>5 DEF Fill, EngineAt, LateInv, EndInv, Quiet, Works, Alive, MicAlive, Past
  <2>6. CASE Finish(t)
    <3>1. mic[t] = "reading" => t \in woken'
      BY <2>6 DEF Finish, Wakes, Recording, LateInv, EndInv, MicAlive
    <3> QED
      BY <1>1, <1>3, <2>6, <3>1 DEF Finish, EngineAt, LateInv, EndInv, Quiet, Works, Alive, MicAlive, Past
  <2>7. CASE JoinMicrophone(t)
    BY <1>1, <1>3, <2>7 DEF JoinMicrophone, EngineAt, LateInv, EndInv, Quiet, Works, Alive, MicAlive, Past
  <2>8. CASE Free(t)
    BY <1>1, <1>3, <2>8 DEF Free, EngineAt, LateInv, EndInv, Quiet, Works, Alive, MicAlive, Past
  <2>9. CASE Clear(t)
    BY <1>1, <1>3, <2>9 DEF Clear, EngineAt, LateInv, EndInv, Quiet, Works, Alive, MicAlive, Past
  <2> QED
    BY <1>3, <2>1, <2>2, <2>3, <2>4, <2>5, <2>6, <2>7, <2>8, <2>9 DEF AudioStep
<1> QED
  BY <1>2, <1>3

LEMMA MicKeepsLate ==
  ASSUME EngineInv, NEW u \in Threads, MicStep(u) \/ Read(u), NEW t \in Threads, EndInv(t), LateInv(t)
  PROVE  LateInv(t)'
<1>1. PICK state \in {"checking", "reading", "sending", "done"} :
        /\ mic' = [mic EXCEPT ![u] = state]
        /\ woken' = IF state = "done" THEN woken \ {u} ELSE woken
        /\ state = "reading" => running
        /\ state = "sending" => mic[u] = "reading" /\ u \notin woken
  BY MicGoesWhere
<1>2. /\ mic \in [Threads -> {"none", "opening", "checking", "reading", "sending", "done"}]
      /\ MicAlive(u) /\ MicUnchanged
  BY MicGoesWhere DEF EngineInv, EngineTypes
<1>3. CASE t # u
  <2>1. mic'[t] = mic[t] /\ (t \in woken' <=> t \in woken)
    BY <1>1, <1>2, <1>3
  <2> QED
    BY <1>2, <2>1 DEF MicUnchanged, LateInv, Quiet, Works, Alive, MicAlive
<1>4. CASE t = u
  <2>1. mic'[t] = state /\ (state # "done" => (t \in woken' <=> t \in woken))
    BY <1>1, <1>2, <1>4
  <2> QED
    BY <1>1, <1>2, <1>4, <2>1
    DEF MicUnchanged, LateInv, EndInv, Quiet, Works, Alive, MicAlive, Past
<1> QED
  BY <1>3, <1>4

LEMMA LateKept ==
  ASSUME Overlaps = FALSE, EngineInv, AllInv, [Next]_vars,
         \A c \in Callers : At(c) = "join" => ~running,
         \A t \in Threads : EndInv(t) /\ LateInv(t)
  PROVE  \A t \in Threads : LateInv(t)'
<1> SUFFICES ASSUME NEW t \in Threads PROVE LateInv(t)'
  OBVIOUS
<1>1. EngineInv /\ TargetInv /\ ScriptsInv
  BY DEF AllInv, ServiceInv
<1>2. CASE UNCHANGED engineVars
  BY <1>2 DEF engineVars, LateInv, EndInv, Quiet, Works, Alive, MicAlive
<1>3. CASE \E next \in Targets : StartEngine(next)
  BY <1>1, <1>3, StartKeepsLate
<1>4. CASE Halt
  BY <1>4, HaltKeepsLate
<1>5. CASE EngineNext
  BY <1>1, <1>5, AudioKeepsLate, MicKeepsLate DEF EngineNext
<1>6. CASE \E c \in Callers : JoinStep(c)
  <2>1. PICK c \in Callers : JoinStep(c)
    BY <1>6
  <2>2. At(c) = "join" /\ Join
    BY <1>1, <2>1, ScriptsDo DEF JoinStep
  <2> QED
    BY <1>1, <2>2, JoinKeepsLate
<1>7. \/ UNCHANGED engineVars \/ (\E next \in Targets : StartEngine(next)) \/ Halt
      \/ EngineNext \/ \E c \in Callers : JoinStep(c)
  <2>1. CASE \E c \in Callers : HaltStep(c) \/ RestoreStep(c)
    BY <2>1 DEF HaltStep, RestoreStep
  <2>2. CASE \E c \in Callers : StartStep(c)
    <3>1. UNCHANGED engineVars \/ (target # "none" /\ StartEngine(target))
      BY <2>2 DEF StartStep
    <3> QED
      BY <1>1, <3>1 DEF TargetInv
  <2>3. CASE MainStep
    BY <2>3 DEF MainStep, ChooseStep, RequestStep, PauseStep, UnpauseStep, GiveBackStep,
                WatchStep, StopSelfStep, DestroyedStep
  <2>4. CASE \E next \in Targets : StartCommand(next)
    BY <2>4 DEF StartCommand, Begins
  <2>5. CASE Woken \/ User \/ FocusLost \/ FocusLostForNow \/ FocusGained
    BY <2>5 DEF Woken, User, FocusLost, FocusLostForNow, FocusGained, Begins
  <2>6. CASE Available \/ Lost \/ Destroy \/ \E level \in Choices : SetVolume(level)
    BY <2>6 DEF Available, Lost, Destroy, SetVolume, Begins, CallsBack
  <2>7. CASE UNCHANGED vars
    BY <2>7 DEF vars
  <2> QED
    BY <2>1, <2>2, <2>3, <2>4, <2>5, <2>6, <2>7 DEF Next
<1> QED
  BY <1>2, <1>3, <1>4, <1>5, <1>6, <1>7

(* A pause keeps the engine stopped whatever the focus, the network and the*)
(* user do, in whatever order the two threads of the service interleave and*)
(* however many threads of the engine live at once: the one start that may *)
(* follow it is one that the network's callback had checked before it      *)
(* (PlaybackService.kt:145-156, 416-417, 443-449).                         *)
LEMMA PauseStopsEngine ==
  Spec => [](Idle /\ paused /\ started \notin contested => ~running)
<1>1. AllInv => (Idle /\ paused /\ started \notin contested => ~running)
  BY IdleThreads, CallersAre DEF AllInv, MeetInv
<1> QED
  BY <1>1, AllAlways, PTL

(* And no thread still plays or sends by then, if none overlaps another and*)
(* no callback came amid the method that stopped it.                       *)
LEMMA PauseSilences ==
  ASSUME Overlaps = FALSE, Races = FALSE
  PROVE  Spec => [](Idle /\ paused /\ started \notin contested =>
                      \A t \in Threads : engine[t] # "filling" /\ mic[t] # "sending")
<1> DEFINE I == /\ EngineInv /\ AllInv
                /\ \A t \in Threads : EndInv(t) /\ LateInv(t)
           P == Idle /\ paused /\ started \notin contested =>
                  \A t \in Threads : engine[t] # "filling" /\ mic[t] # "sending"
<1>1. AllInv => \A c \in Callers : At(c) = "join" => ~running
  BY CallersAre DEF AllInv, ServiceInv, FreeInv, PausedInv, Stopped
<1>2. Init => I
  BY InitEngineInv, AllInitially, InitEnd, InitLate DEF Init
<1>3. I /\ [Next]_vars => I'
  <2>1. I /\ [Next]_vars => EngineInv' /\ AllInv'
    BY EngineKeeps, ServiceStep, AllKept DEF AllInv
  <2>2. I /\ [Next]_vars => \A t \in Threads : LateInv(t)'
    BY <1>1, LateKept
  <2>3. I /\ [Next]_vars => \A t \in Threads : EndInv(t)'
    BY EndKept, ServiceStep DEF AllInv
  <2> QED
    BY <2>1, <2>2, <2>3
<1>4. I => P
  <2> SUFFICES ASSUME I, Idle, paused, started \notin contested
               PROVE  \A t \in Threads : engine[t] # "filling" /\ mic[t] # "sending"
    OBVIOUS
  <2>1. At("main") = "idle"
    BY IdleThreads, CallersAre
  <2>2. thread = 0
    BY <2>1 DEF AllInv, ServiceInv, FreeInv, PausedInv
  <2> QED
    BY <2>2 DEF LateInv
<1>5. Spec => []P
  <2> HIDE DEF I, P
  <2> QED
    BY <1>2, <1>3, <1>4, PTL DEF Spec
<1> QED
  BY <1>5

(* A pause is kept: both of these, and nothing assumed.                    *)
THEOREM PausesAreKept == Spec => []PauseIsKept
<1> DEFINE Silent == \A t \in Threads : engine[t] # "filling" /\ mic[t] # "sending"
           Stays == Idle /\ paused /\ started \notin contested => ~running
           Stills == Idle /\ paused /\ started \notin contested => Silent
<1>1. Spec => []Stays
  BY PauseStopsEngine
<1>2. CASE Overlaps \/ Races
  <2>1. Stays => PauseIsKept
    BY <1>2 DEF PauseIsKept
  <2> HIDE DEF Stays
  <2> QED
    BY <1>1, <2>1, PTL
<1>3. CASE Overlaps = FALSE /\ Races = FALSE
  <2>1. Spec => []Stills
    BY <1>3, PauseSilences
  <2>2. Stays /\ Stills => PauseIsKept
    BY DEF PauseIsKept
  <2> HIDE DEF Stays, Stills
  <2> QED
    BY <1>1, <2>1, <2>2, PTL
<1> QED
  BY <1>2, <1>3, EngineAssumption, PlaybackAssumption
=============================================================================
