-------------------------------- MODULE Engine --------------------------------
(***************************************************************************)
(* The phone's engine: the audio thread and the microphone thread of       *)
(* AudioEngine.kt, the device of Microphone.kt, and the handle of a native *)
(* session that both use (mobile/src/lib.rs).  There is one engine in the  *)
(* process; each start makes a thread, numbered, and a thread connects one *)
(* session, which has the thread's number.  The fields running, thread,    *)
(* handle and capture are shared by all threads.                           *)
(***************************************************************************)
EXTENDS Naturals

CONSTANTS
  MaxStarts,        \* bound: threads started
  Overlaps          \* may a start come before all earlier threads have ended?

ASSUME EngineAssumption == MaxStarts \in Nat /\ Overlaps \in BOOLEAN

VARIABLES
  running,          \* running
  thread,           \* thread, or 0
  handle,           \* handle: the thread that connected the session, or 0
  capture,          \* capture: the thread whose microphone it is, or 0
  started,          \* threads started so far
  plays,            \* thread -> what it was started with
  engine,           \* thread -> where it is
  mic,              \* thread -> where its microphone thread is
  given,            \* thread -> the handle its microphone thread was given
  woken,            \* threads whose recording has been stopped
  session           \* thread -> its native session: "none", "open", "freed"

engineVars == <<running, thread, handle, capture, started, plays, engine, mic, given,
                woken, session>>

Threads == 1 .. MaxStarts
Targets == {"listen", "call"}

InitEngine ==
  /\ running = FALSE /\ thread = 0 /\ handle = 0 /\ capture = 0 /\ started = 0
  /\ plays = [t \in Threads |-> "listen"]
  /\ engine = [t \in Threads |-> "unborn"]
  /\ mic = [t \in Threads |-> "none"]
  /\ given = [t \in Threads |-> 0]
  /\ woken = {}
  /\ session = [t \in Threads |-> "none"]

EngineAt(t, state) == engine' = [engine EXCEPT ![t] = state]
MicAt(t, state) == mic' = [mic EXCEPT ![t] = state]

MicAlive(t) == mic[t] \notin {"none", "done"}
Alive(t) == engine[t] \notin {"unborn", "done"}

-----------------------------------------------------------------------------
(* start and stop, called by the service.                                  *)

Ended == \A t \in Threads : ~Alive(t) /\ ~MicAlive(t)

StartEngine(target) ==
  \/ running /\ UNCHANGED engineVars
  \/ /\ ~running /\ started < MaxStarts
     /\ Overlaps \/ Ended
     /\ running' = TRUE
     /\ started' = started + 1
     /\ thread' = started'
     /\ plays' = [plays EXCEPT ![started'] = target]
     /\ EngineAt(started', "connecting")
     /\ UNCHANGED <<handle, capture, mic, given, woken, session>>

Halt ==
  /\ running' = FALSE
  /\ UNCHANGED <<thread, handle, capture, started, plays, engine, mic, given, woken, session>>

(* Where a thread may be for longer than the two seconds a join waits.     *)
Stuck(t) ==
  \/ engine[t] \in {"connecting", "freeing"}
  \/ engine[t] = "joining" /\ mic[t] \in {"opening", "reading"}

Join ==
  /\ thread # 0 => ~Alive(thread) \/ Stuck(thread)
  /\ thread' = 0
  /\ UNCHANGED <<running, handle, capture, started, plays, engine, mic, given, woken, session>>

-----------------------------------------------------------------------------
(* The audio thread.                                                       *)

Connect(t) ==
  /\ engine[t] = "connecting"
  /\ \/ /\ EngineAt(t, "connected")
        /\ handle' = t
        /\ session' = [session EXCEPT ![t] = "open"]
     \/ EngineAt(t, "ending") /\ UNCHANGED <<handle, session>>
  /\ UNCHANGED <<running, thread, capture, started, plays, mic, given, woken>>

(* A call has a microphone if the sender grants it; no track may be had.   *)
StartMicrophone(t) ==
  /\ engine[t] = "connected" /\ plays[t] = "call"
  /\ MicAt(t, "opening")
  /\ given' = [given EXCEPT ![t] = handle]
  /\ capture' = t
  /\ \E state \in {"looping", "ending"} : EngineAt(t, state)
  /\ UNCHANGED <<running, thread, handle, started, plays, woken, session>>

NoMicrophone(t) ==
  /\ engine[t] = "connected"
  /\ \E state \in {"looping", "ending"} : EngineAt(t, state)
  /\ UNCHANGED <<running, thread, handle, capture, started, plays, mic, given, woken, session>>

GoesOn(t) == running /\ handle # 0

(* The client may also have stopped, or the track fail.                    *)
Loop(t) ==
  /\ engine[t] = "looping"
  /\ \/ GoesOn(t) /\ EngineAt(t, "filling")
     \/ EngineAt(t, "ending")
  /\ UNCHANGED <<running, thread, handle, capture, started, plays, mic, given, woken, session>>

Fill(t) ==
  /\ engine[t] = "filling" /\ EngineAt(t, "looping")
  /\ UNCHANGED <<running, thread, handle, capture, started, plays, mic, given, woken, session>>

(* wake: nothing to stop before the recording began, or after it was closed*)
Recording(m) == m # 0 /\ mic[m] \in {"checking", "reading", "sending"}

WakesNone(m) == {}                                                    \* mutant
Wakes(m) == IF Recording(m) THEN {m} ELSE {}

Finish(t) ==
  /\ engine[t] = "ending" /\ EngineAt(t, "joining")
  /\ running' = FALSE
  /\ woken' = woken \cup Wakes(capture)
  /\ UNCHANGED <<thread, handle, capture, started, plays, mic, given, session>>

(* A microphone may be stuck in its device for longer than the join waits. *)
JoinMicrophone(t) ==
  /\ engine[t] = "joining" /\ EngineAt(t, "freeing")
  /\ mic[t] \notin {"checking", "sending"}
  /\ capture' = 0
  /\ UNCHANGED <<running, thread, handle, started, plays, mic, given, woken, session>>

FreesAnyway(t) == handle # 0                                          \* mutant
FreesNone(t) == FALSE                                                 \* mutant

(* A handle that a microphone still sends into is not freed but leaked.    *)
Frees(t) == handle # 0 /\ ~MicAlive(t)

Free(t) ==
  /\ engine[t] = "freeing"
  /\ EngineAt(t, "clearing")
  /\ session' = IF Frees(t) THEN [session EXCEPT ![handle] = "freed"] ELSE session
  /\ UNCHANGED <<running, thread, handle, capture, started, plays, mic, given, woken>>

HandleKept == handle                                                  \* mutant
HandleCleared == 0

Clear(t) ==
  /\ engine[t] = "clearing" /\ EngineAt(t, "done")
  /\ handle' = HandleCleared
  /\ UNCHANGED <<running, thread, capture, started, plays, mic, given, woken, session>>

AudioStep(t) ==
  \/ Connect(t) \/ StartMicrophone(t) \/ NoMicrophone(t) \/ Loop(t) \/ Fill(t)
  \/ Finish(t) \/ JoinMicrophone(t) \/ Free(t) \/ Clear(t)

-----------------------------------------------------------------------------
(* The microphone thread.                                                  *)
MicUnchanged == UNCHANGED <<running, thread, handle, capture, started, plays, engine, given,
                            session>>

(* close: the recording is gone.                                           *)
MicGoes(t, state) ==
  /\ MicAt(t, state)
  /\ woken' = IF state = "done" THEN woken \ {t} ELSE woken
  /\ MicUnchanged

Open(t) == mic[t] = "opening" /\ \E state \in {"checking", "done"} : MicGoes(t, state)

RecordsOn(t) == TRUE                                                  \* mutant
Records(t) == running

Check(t) == mic[t] = "checking" /\ MicGoes(t, IF Records(t) THEN "reading" ELSE "done")

(* The device delivers a frame, in its own time.                           *)
Read(t) == mic[t] = "reading" /\ t \notin woken /\ MicGoes(t, "sending")

(* A recording that has been stopped returns less than a frame.            *)
ReadEnds(t) == mic[t] = "reading" /\ t \in woken /\ MicGoes(t, "checking")

Send(t) == mic[t] = "sending" /\ \E state \in {"checking", "done"} : MicGoes(t, state)

MicStep(t) == Open(t) \/ Check(t) \/ ReadEnds(t) \/ Send(t)

EngineNext == \E t \in Threads : AudioStep(t) \/ MicStep(t) \/ Read(t)

(* A microphone thread runs when it can; a device need not deliver.        *)
EngineFairness == \A t \in Threads : WF_engineVars(MicStep(t))

-----------------------------------------------------------------------------
EngineTypes ==
  /\ running \in BOOLEAN /\ started \in 0 .. MaxStarts
  /\ thread \in {0, started} /\ woken \subseteq Threads
  /\ plays \in [Threads -> Targets]
  /\ engine \in [Threads -> {"unborn", "connecting", "connected", "looping", "filling",
                             "ending", "joining", "freeing", "clearing", "done"}]
  /\ mic \in [Threads -> {"none", "opening", "checking", "reading", "sending", "done"}]
  /\ given \in [Threads -> 0 .. MaxStarts]
  /\ session \in [Threads -> {"none", "open", "freed"}]
  /\ \A t \in {handle, capture} : t = 0 \/ (t \in Threads /\ Alive(t))

(* A microphone thread never has a handle that has been freed: "the        *)
(* microphone thread sends into the same handle, so it has to be gone      *)
(* before the handle is freed" (AudioEngine.kt:124-138).                   *)
MicrophoneHasHandle == \A t \in Threads : MicAlive(t) => session[given[t]] = "open"

(* A thread that ends leaves its session open only under a microphone that *)
(* did not stop (AudioEngine.kt:131-140).                                  *)
SessionsGivenBack ==
  [][\A t \in Threads :
       engine[t] = "freeing" /\ engine'[t] = "clearing" =>
         session'[t] # "open" \/ MicAlive(t)]_engineVars

(* Whatever ends a thread, its microphone closes, be it after the thread:  *)
(* none outlives its thread for ever (Microphone.kt:69-79).                *)
MicrophoneCloses == []<>(\A t \in Threads : engine[t] = "done" => ~MicAlive(t))

(* A handle is used by the thread that connected it, and while it is open: *)
(* "Kotlin promises to call fill from one thread only and to pass the      *)
(* handle back exactly as it was given" (mobile/src/lib.rs:16-17).         *)
SoleUser ==
  \A t \in Threads :
    engine[t] = "filling" /\ handle # 0 => handle = t /\ session[t] = "open"
=============================================================================
