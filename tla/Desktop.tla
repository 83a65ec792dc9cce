-------------------------------- MODULE Desktop --------------------------------
(***************************************************************************)
(* What the sender changes on the machine it runs on, and must give back:  *)
(* the mute of the sink it captures (player/src/speakers.rs) and the       *)
(* virtual microphone (player/src/pipesource.rs), from the start of a      *)
(* process to its end (player/src/main.rs, shutdown.rs).                   *)
(*                                                                         *)
(* Sessions mute and unmute from threads of their own.  Every call of      *)
(* pactl is a step and may fail; the user may change the mute between any  *)
(* two.  A process ends by a signal, by an error, or is killed; another    *)
(* may be started after it.  A run loads one microphone at most, so its    *)
(* number names the module.                                                *)
(***************************************************************************)
EXTENDS Naturals, FiniteSets

CONSTANTS
  Sessions,
  MaxRuns           \* bound: processes started

ASSUME DesktopAssumption == IsFiniteSet(Sessions) /\ MaxRuns \in Nat

VARIABLES
  main,             \* where the main thread is
  run,              \* processes started so far
  thread,           \* session -> where its thread is
  listeners,        \* Speakers.listeners
  MUTED,            \* has this process a sink to unmute?
  sink,             \* is the sink muted?
  modules,          \* the microphones the sound server has
  LOADED,           \* the module ids this process has to unload
  pump,             \* the pump, which owns the PipeSource: "none", "runs", "drops"
  wish,             \* the mute as this period of listening found it, or as
                    \* the user has changed it since
  touched,          \* has the user changed it since?
  failed,           \* has pactl failed in this run?
  killed,           \* was the last process killed?
  overtaken         \* did a session mute as main restored, or later?

speakers == <<thread, listeners, MUTED, sink>>
microphone == <<modules, LOADED, pump>>
ghosts == <<wish, touched, failed, killed, overtaken>>
vars == <<main, run, speakers, microphone, ghosts>>

Serving == {"running", "unloading", "restoring", "unmuting", "exiting"}
Ended == {"off", "gone"}

Init ==
  /\ main = "off" /\ run = 0
  /\ thread = [s \in Sessions |-> "away"] /\ listeners = 0 /\ MUTED = FALSE
  /\ sink \in BOOLEAN /\ wish = sink
  /\ modules = {} /\ LOADED = {} /\ pump = "none"
  /\ touched = FALSE /\ failed = FALSE /\ killed = FALSE
  /\ overtaken = FALSE

At(s, state) == thread' = [thread EXCEPT ![s] = state]

(* Who holds the locks of Speakers.listeners and of MUTED.                 *)
ListenersFree == \A s \in Sessions : thread[s] \in {"away", "listening"}
MutedFree == main # "unmuting" /\ \A s \in Sessions : thread[s] # "unmuting"

-----------------------------------------------------------------------------
(* A session's thread.                                                     *)

(* listen: the first one mutes.                                            *)
Listen(s) ==
  /\ main \in Serving /\ thread[s] = "away" /\ ListenersFree
  /\ listeners' = listeners + 1
  /\ At(s, IF listeners' = 1 THEN "asking" ELSE "listening")
  /\ IF listeners' = 1 THEN wish' = sink /\ touched' = FALSE ELSE UNCHANGED <<wish, touched>>
  /\ overtaken' = (overtaken \/ (listeners' = 1 /\ main \in {"unmuting", "exiting"}))
  /\ UNCHANGED <<main, run, MUTED, sink, microphone, failed, killed>>

AlwaysMutes == FALSE                                                  \* mutant

(* is_muted: a sink the user had already muted is left alone.              *)
AlreadyMuted == sink

Ask(s) ==
  /\ thread[s] = "asking"
  /\ \/ At(s, IF AlreadyMuted THEN "listening" ELSE "muting") /\ UNCHANGED failed
     \/ At(s, "listening") /\ failed' = TRUE
  /\ UNCHANGED <<main, run, listeners, MUTED, sink, microphone>>
  /\ UNCHANGED <<wish, touched, killed, overtaken>>

MuteSink(s) ==
  /\ thread[s] = "muting"
  /\ \/ sink' = TRUE /\ At(s, "recording") /\ UNCHANGED failed
     \/ failed' = TRUE /\ At(s, "listening") /\ UNCHANGED sink
  /\ UNCHANGED <<main, run, listeners, MUTED, microphone, wish, touched, killed, overtaken>>

Record(s) ==
  /\ thread[s] = "recording" /\ MutedFree
  /\ MUTED' = TRUE
  /\ At(s, "listening")
  /\ UNCHANGED <<main, run, listeners, sink, microphone, ghosts>>

Uncounted(n) == n                                                     \* mutant
Fewer(n) == n - 1

NeverLast(n) == FALSE                                                 \* mutant

LastLeave(n) == n = 0

(* leave, when the session ends: the last one restores.                    *)
Leave(s) ==
  /\ thread[s] = "listening" /\ ListenersFree
  /\ listeners' = Fewer(listeners)
  /\ At(s, IF LastLeave(listeners') THEN "leaving" ELSE "away")
  /\ UNCHANGED <<main, run, MUTED, sink, microphone, ghosts>>

(* restore: what was muted is forgotten, and its lock kept, before it is   *)
(* unmuted.                                                                *)
NothingToUnmute == FALSE                                              \* mutant

ToUnmute == MUTED

Unmute == \/ sink' = FALSE /\ UNCHANGED failed
          \/ failed' = TRUE /\ UNCHANGED sink

TakeMuted(s) ==
  /\ thread[s] = "leaving" /\ MutedFree
  /\ At(s, IF ToUnmute THEN "unmuting" ELSE "away")
  /\ MUTED' = FALSE
  /\ UNCHANGED <<main, run, listeners, sink, microphone, ghosts>>

Restore(s) ==
  /\ thread[s] = "unmuting"
  /\ Unmute /\ At(s, "away")
  /\ UNCHANGED <<main, run, listeners, MUTED, microphone, wish, touched, killed, overtaken>>

-----------------------------------------------------------------------------
(* The user mutes or unmutes the sink.                                     *)
Toggle ==
  /\ sink' = ~sink /\ wish' = sink' /\ touched' = TRUE
  /\ UNCHANGED <<main, run, thread, listeners, MUTED, microphone, failed, killed, overtaken>>

-----------------------------------------------------------------------------
(* The main thread.                                                        *)

(* A new process, with or without a microphone.                            *)
Start ==
  /\ main \in Ended /\ run < MaxRuns
  /\ run' = run + 1
  /\ main' \in {"sweeping", "preparing"}
  /\ wish' = sink /\ touched' = FALSE /\ failed' = FALSE /\ killed' = FALSE
  /\ overtaken' = FALSE
  /\ UNCHANGED <<speakers, microphone>>

Nothing == {}                                                         \* mutant

(* unload_stale: the modules on our pipe, whoever loaded them.             *)
Stale == modules

Sweep ==
  /\ main = "sweeping" /\ main' = "loading"
  /\ \/ modules' = modules \ Stale /\ UNCHANGED failed
     \/ failed' = TRUE /\ UNCHANGED modules
  /\ UNCHANGED <<run, speakers, LOADED, pump, wish, touched, killed, overtaken>>

Load ==
  /\ main = "loading"
  /\ \/ modules' = modules \cup {run} /\ main' = "noting" /\ UNCHANGED failed
     \/ failed' = TRUE /\ main' = "unloading" /\ UNCHANGED modules
  /\ UNCHANGED <<run, speakers, LOADED, pump, wish, touched, killed, overtaken>>

(* The id is noted and the pipe opened, or else the module unloaded.       *)
Note ==
  /\ main = "noting"
  /\ LOADED' = LOADED \cup {run}
  /\ \/ main' = "preparing" /\ pump' = "runs" /\ UNCHANGED <<modules, failed>>
     \/ /\ main' = "unloading" /\ UNCHANGED pump
        /\ modules' = modules \ {run} /\ UNCHANGED failed
     \/ main' = "unloading" /\ failed' = TRUE /\ UNCHANGED <<modules, pump>>
  /\ UNCHANGED <<run, speakers, wish, touched, killed, overtaken>>

(* The rest of the set-up may fail: then the Listener is dropped, which    *)
(* waits for the pump.                                                     *)
Prepared ==
  /\ main = "preparing" /\ main' = "running"
  /\ UNCHANGED <<run, speakers, microphone, ghosts>>

PrepareFails ==
  /\ main = "preparing" /\ main' = "joining"
  /\ UNCHANGED <<run, speakers, microphone, ghosts>>

Joined ==
  /\ main = "joining" /\ pump = "none" /\ main' = "unloading"
  /\ UNCHANGED <<run, speakers, microphone, ghosts>>

(* The pump ends, by a failure or because it is told to, and drops its     *)
(* PipeSource: first it forgets the id, then it unloads.                   *)
PumpEnds ==
  /\ pump = "runs" /\ pump' = "drops"
  /\ LOADED' = LOADED \ {run}
  /\ UNCHANGED <<main, run, speakers, modules, ghosts>>

PumpUnloads ==
  /\ pump = "drops" /\ pump' = "none"
  /\ \/ modules' = modules \ {run} /\ UNCHANGED failed
     \/ failed' = TRUE /\ UNCHANGED modules
  /\ UNCHANGED <<main, run, speakers, LOADED, wish, touched, killed, overtaken>>

(* A signal, or an error of the relay or of the encoder.                   *)
Stop ==
  /\ main = "running" /\ main' = "unloading"
  /\ UNCHANGED <<run, speakers, microphone, ghosts>>

UnloadNone == modules                                                 \* mutant

UnloadNoted == modules \ LOADED

UnloadAll ==
  /\ main = "unloading" /\ main' = "restoring"
  /\ LOADED' = {}
  /\ \/ modules' = UnloadNoted /\ UNCHANGED failed
     \/ LOADED # {} /\ failed' = TRUE /\ UNCHANGED modules
  /\ UNCHANGED <<run, speakers, pump, wish, touched, killed, overtaken>>

(* restore, from the main thread: sessions still come and go.              *)
RestoreMain ==
  /\ main = "restoring" /\ MutedFree
  /\ main' = IF ToUnmute THEN "unmuting" ELSE "exiting"
  /\ MUTED' = FALSE
  /\ overtaken' = \E s \in Sessions : thread[s] \in {"asking", "muting", "recording"}
  /\ UNCHANGED <<run, thread, listeners, sink, microphone, wish, touched, failed, killed>>

UnmuteMain ==
  /\ main = "unmuting" /\ main' = "exiting"
  /\ Unmute
  /\ UNCHANGED <<run, thread, listeners, MUTED, microphone, wish, touched, killed, overtaken>>

(* The process is gone, with its threads.  A pactl one of them has started *)
(* may still do what it was started for.                                   *)
Muting == \E s \in Sessions : thread[s] = "muting"
Unmuting == ~MutedFree

Vanish ==
  /\ main' = "gone"
  /\ thread' = [s \in Sessions |-> "away"] /\ listeners' = 0
  /\ MUTED' = FALSE /\ LOADED' = {} /\ pump' = "none"
  /\ \/ UNCHANGED sink
     \/ Muting /\ sink' = TRUE
     \/ Unmuting /\ sink' = FALSE
  /\ \/ UNCHANGED modules
     \/ pump = "drops" /\ modules' = modules \ {run}
  /\ UNCHANGED <<run, wish, touched, failed, overtaken>>

Exit == main = "exiting" /\ Vanish /\ UNCHANGED killed

Killed == main \notin Ended /\ Vanish /\ killed' = TRUE

Next ==
  \/ \E s \in Sessions :
       \/ Listen(s) \/ Ask(s) \/ MuteSink(s) \/ Record(s)
       \/ Leave(s) \/ TakeMuted(s) \/ Restore(s)
  \/ Toggle
  \/ Start \/ Sweep \/ Load \/ Note \/ Prepared \/ PrepareFails \/ Joined
  \/ PumpEnds \/ PumpUnloads
  \/ Stop \/ UnloadAll \/ RestoreMain \/ UnmuteMain \/ Exit \/ Killed

Spec == Init /\ [][Next]_vars

-----------------------------------------------------------------------------
Counted == {s \in Sessions : thread[s] \in {"asking", "muting", "recording", "listening"}}

TypeOK ==
  /\ main \in Ended \cup Serving \cup
             {"sweeping", "loading", "noting", "preparing", "joining"}
  /\ run \in 0 .. MaxRuns
  /\ thread \in [Sessions -> {"away", "asking", "muting", "recording", "listening",
                              "leaving", "unmuting"}]
  /\ listeners = Cardinality(Counted)
  /\ MUTED \in BOOLEAN /\ sink \in BOOLEAN /\ wish \in BOOLEAN
  /\ touched \in BOOLEAN /\ failed \in BOOLEAN /\ killed \in BOOLEAN
  /\ overtaken \in BOOLEAN
  /\ modules \subseteq 1 .. run /\ LOADED \subseteq {run}
  /\ pump \in {"none", "runs", "drops"}

Settled == main \in {"running", "unloading", "restoring"} /\ ListenersFree /\ ~failed

(* The desktop is silent exactly while somebody listens or its user had it *)
(* so, unless the user has interfered since (speakers.rs:44-45, 55-56).    *)
SilentWhileHeard == Settled /\ ~touched => (sink <=> wish \/ listeners > 0)

(* When nobody listens any more the sink is not left muted, whatever the   *)
(* user has done with it, unless that was what the user wanted             *)
(* (speakers.rs:72-79).                                                    *)
NeverLeftSilent == Settled /\ listeners = 0 => (sink => wish)

(* While it works the microphone of this process is the only one of its    *)
(* name, whatever earlier processes have left (pipesource.rs:42-45).       *)
OneMicrophone ==
  main \in {"preparing", "running"} /\ pump = "runs" /\ ~failed => modules = {run}

(* A process that ends in order takes its microphone with it, also when it *)
(* could not be set up (pipesource.rs:14-20, main.rs:37-39).               *)
ExitUnloads == main = "exiting" /\ pump # "drops" /\ ~failed => run \notin modules

(* A process that has been stopped does not leave the desktop silent unless*)
(* its user had it so: restore is "the backstop that keeps a stopped sender*)
(* from leaving the desktop silent" (speakers.rs:9-11).  A session that is *)
(* still about to mute as main restores escapes it, and only such a one.   *)
StopLeavesSound ==
  main = "gone" /\ ~killed /\ ~failed /\ ~overtaken => (sink => wish)
=============================================================================
