------------------------------- MODULE Playback -------------------------------
(***************************************************************************)
(* The phone's service, PlaybackService.kt, which starts and stops the     *)
(* engine for its user, for the audio focus and for the network.           *)
(*                                                                         *)
(* Its methods run on the main thread, the callbacks of the network on a   *)
(* thread of their own.  What a thread still has to do is its script, a    *)
(* sequence of named steps, each of them atomic.  onAvailable is two steps,*)
(* its check and its start: whole methods of the main thread may come in   *)
(* between.  The engine and the audio system outlive the service.          *)
(***************************************************************************)
EXTENDS Engine, Sequences

CONSTANTS
  Races,            \* may the network's callbacks go on amid a method of the main thread?
  Loudest,          \* the loudest the call volume can be
  Choices           \* the call volumes its user chooses

ASSUME PlaybackAssumption ==
  Races \in BOOLEAN /\ Loudest \in Nat \ {0} /\ Choices \subseteq 1 .. Loudest

VARIABLES
  script,           \* thread -> the steps it has yet to do
  service,          \* is there a service: "down", "up", "ending" after stopSelf
  target,           \* target, or "none"
  paused,           \* paused
  contested,        \* observed: the starts, by number, that the network's callback was
                    \* about to make while the main thread did something, less the
                    \* one that a pause then finds running
  locks,            \* are the locks held?
  focus,            \* focusRequest: "none", or made and "held", "lost" or "denied"
  watching,         \* is the network callback registered?
  mode,             \* the audio mode and routing: "normal", "communication"
  volume,           \* the call volume
  saved,            \* savedCallVolume, or 0
  own               \* the call volume the user set last

audio == <<mode, volume, saved, own>>
held == <<locks, focus, watching>>
serviceVars == <<service, target, paused, contested, held, audio>>
vars == <<engineVars, script, serviceVars>>

Callers == {"main", "network"}
Levels == 1 .. Loudest

Init ==
  /\ InitEngine
  /\ script = [c \in Callers |-> <<>>]
  /\ service = "down" /\ target = "none" /\ paused = FALSE /\ contested = {}
  /\ locks = FALSE /\ focus = "none" /\ watching = FALSE
  /\ mode = "normal" /\ saved = 0
  /\ volume \in Choices /\ own = volume

Idle == \A c \in Callers : script[c] = <<>>

-----------------------------------------------------------------------------
(* What each method does, in order.                                        *)
Stopping == <<"halt", "join", "restore">>

PlayingOn == <<"request", "start">>

Pausing == <<"pause">> \o Stopping \o <<"giveBack">>

StoppingSelf == <<"unpause">> \o Stopping \o <<"stopSelf">>
Destroying == Stopping \o <<"giveBack", "destroyed">>

NeverSwitches(next) == FALSE                                          \* mutant

(* A running engine is stopped to play something else.                     *)
Switches(next) == next # target /\ running
Commanded(next) ==
  (IF Switches(next) THEN Stopping ELSE <<>>) \o <<next>> \o PlayingOn \o <<"watch">>

-----------------------------------------------------------------------------
(* What sets a thread to work: it begins a script when it has none.        *)
Starting == script["network"] = <<"start">>

NextStart == {started + 1} \cap Threads
Notes(meets) == contested' = IF meets THEN contested \cup NextStart ELSE contested \ NextStart

Begins(steps) ==
  /\ script["main"] = <<>>
  /\ Races \/ Starting \/ script["network"] = <<>>
  /\ script' = [script EXCEPT !["main"] = steps]
  /\ Notes(Starting)
  /\ UNCHANGED engineVars

CallsBack(steps) ==
  /\ watching
  /\ script["network"] = <<>>
  /\ Races \/ script["main"] = <<>>
  /\ script' = [script EXCEPT !["network"] = steps]
  /\ UNCHANGED <<engineVars, service, target, paused, held, audio>>

(* onStartCommand, in a service that it may create.                        *)
StartCommand(next) ==
  /\ service \in {"down", "up"} /\ service' = "up"
  /\ Begins(Commanded(next))
  /\ UNCHANGED <<target, paused, held, audio>>

(* A media button, or a stop, creates a service that has nothing to play.  *)
Woken ==
  /\ service = "down" /\ service' = "ending"
  /\ UNCHANGED <<engineVars, script, target, paused, contested, held, audio>>

(* The media session, headphones that are unplugged, and the focus.        *)
User ==
  /\ service # "down"
  /\ \E steps \in {PlayingOn, Pausing, StoppingSelf} : Begins(steps)
  /\ UNCHANGED <<service, target, paused, held, audio>>

FocusLost ==
  /\ focus \in {"held", "lost"}
  /\ focus' = "denied"
  /\ Begins(StoppingSelf)
  /\ UNCHANGED <<service, target, paused, locks, watching, audio>>

FocusLostForNow ==
  /\ focus = "held" /\ focus' = "lost"
  /\ Begins(Stopping)
  /\ UNCHANGED <<service, target, paused, locks, watching, audio>>

StartsAlways == ~running                                              \* mutant

(* A pause the user asked for is kept.                                     *)
MayStart == ~paused /\ ~running

FocusGained ==
  /\ focus = "lost" /\ focus' = "held"
  /\ Begins(IF MayStart THEN <<"start">> ELSE <<>>)
  /\ UNCHANGED <<service, target, paused, locks, watching, audio>>

Available ==
  /\ MayStart /\ target # "none"
  /\ CallsBack(<<"start">>)
  /\ Notes(script["main"] # <<>>)

Lost == CallsBack(Stopping) /\ UNCHANGED contested

(* A callback that is under way is taken to end before the service does.   *)
Destroy ==
  /\ service = "ending" /\ script["network"] = <<>>
  /\ Begins(Destroying)
  /\ UNCHANGED <<service, target, paused, held, audio>>

(* The user sets the call volume.                                          *)
SetVolume(level) ==
  /\ volume' = level /\ own' = level
  /\ UNCHANGED <<engineVars, script, service, target, paused, contested, held, mode, saved>>

-----------------------------------------------------------------------------
(* The steps.                                                              *)
Does(caller, step) ==
  /\ caller = "network" => Races \/ script["main"] = <<>>
  /\ script[caller] # <<>> /\ Head(script[caller]) = step
  /\ script' = [script EXCEPT ![caller] = Tail(@)]

HaltStep(c) == Does(c, "halt") /\ Halt /\ UNCHANGED serviceVars
JoinStep(c) == Does(c, "join") /\ Join /\ UNCHANGED serviceVars

RestoredAlways == TRUE                                                \* mutant

(* The volume is put back only if it is still where it was raised to.      *)
Restored == volume = Loudest

RestoreStep(c) ==
  /\ Does(c, "restore")
  /\ volume' = IF saved # 0 /\ Restored THEN saved ELSE volume
  /\ saved' = 0 /\ mode' = "normal"
  /\ UNCHANGED <<engineVars, service, target, paused, contested, held, own>>

(* A call is raised to the loudest, unless that has been done.             *)
Raises == saved = 0 /\ volume < Loudest

StartStep(c) ==
  /\ Does(c, "start")
  /\ \/ target = "none" /\ UNCHANGED <<engineVars, contested, audio>>
     \/ /\ target # "none"
        /\ mode' = IF target = "call" THEN "communication" ELSE "normal"
        /\ IF target = "call" /\ Raises
           THEN saved' = volume /\ volume' = Loudest
           ELSE UNCHANGED <<saved, volume>>
        /\ StartEngine(target)
        /\ contested' = contested \cap {started', started' + 1}
        /\ UNCHANGED own
  /\ UNCHANGED <<service, target, paused, held>>

ChooseStep(next) ==
  /\ Does("main", next) /\ target' = next
  /\ UNCHANGED <<engineVars, service, paused, contested, held, audio>>

(* The locks, and the focus, without which playback is not started.        *)
RequestStep ==
  /\ script["main"] # <<>> /\ Head(script["main"]) = "request"
  /\ paused' = FALSE /\ locks' = TRUE
  /\ \/ focus' = "held" /\ script' = [script EXCEPT !["main"] = Tail(@)]
     \/ focus' = "denied" /\ script' = [script EXCEPT !["main"] = Tail(Tail(@))]
  /\ UNCHANGED <<engineVars, service, target, contested, watching, audio>>

PauseStep ==
  /\ Does("main", "pause") /\ paused' = TRUE
  /\ contested' = contested \ {started}
  /\ UNCHANGED <<engineVars, service, target, held, audio>>

UnpauseStep ==
  /\ Does("main", "unpause") /\ paused' = FALSE
  /\ UNCHANGED <<engineVars, service, target, contested, held, audio>>

KeepsLocks == locks                                                   \* mutant
Released == FALSE

(* releaseLocks and abandonFocus.                                          *)
GiveBackStep ==
  /\ Does("main", "giveBack") /\ locks' = Released /\ focus' = "none"
  /\ UNCHANGED <<engineVars, service, target, paused, contested, watching, audio>>

WatchStep ==
  /\ Does("main", "watch") /\ watching' = TRUE
  /\ UNCHANGED <<engineVars, service, target, paused, contested, locks, focus, audio>>

StopSelfStep ==
  /\ Does("main", "stopSelf") /\ service' = "ending"
  /\ UNCHANGED <<engineVars, target, paused, contested, held, audio>>

(* unwatchNetwork.  A new service begins with fresh fields.                *)
DestroyedStep ==
  /\ Does("main", "destroyed") /\ script["network"] = <<>>
  /\ watching' = FALSE
  /\ service' = "down" /\ target' = "none" /\ paused' = FALSE
  /\ UNCHANGED <<engineVars, contested, locks, focus, audio>>

MainStep ==
  \/ \E next \in Targets : ChooseStep(next)
  \/ RequestStep \/ PauseStep \/ UnpauseStep \/ GiveBackStep
  \/ WatchStep \/ StopSelfStep \/ DestroyedStep

Next ==
  \/ \E next \in Targets : StartCommand(next)
  \/ Woken \/ User \/ FocusLost \/ FocusLostForNow \/ FocusGained
  \/ Available \/ Lost \/ Destroy
  \/ \E level \in Choices : SetVolume(level)
  \/ \E c \in Callers : HaltStep(c) \/ JoinStep(c) \/ RestoreStep(c) \/ StartStep(c)
  \/ MainStep
  \/ EngineNext /\ UNCHANGED <<script, serviceVars>>

(* The microphone's threads run; nothing makes a user or a callback act.   *)
Spec == Init /\ [][Next]_vars /\ EngineFairness

-----------------------------------------------------------------------------
TypeOK ==
  /\ EngineTypes
  /\ \A c \in Callers : Len(script[c]) <= 7
  /\ service \in {"down", "up", "ending"} /\ target \in {"none"} \cup Targets
  /\ paused \in BOOLEAN /\ locks \in BOOLEAN /\ watching \in BOOLEAN
  /\ contested \subseteq Threads
  /\ focus \in {"none", "held", "lost", "denied"}
  /\ mode \in {"normal", "communication"}
  /\ volume \in Levels /\ own \in Levels /\ saved \in 0 .. Loudest - 1

(* A pause is kept: once it has been made the engine does not run, whatever*)
(* the focus does and the network too, but for a callback that had checked *)
(* before the pause and starts after it (contested).  Nothing still plays  *)
(* or sends by then either, unless stop missed a thread because threads    *)
(* overlap or a callback came amid it.  (PlaybackService.kt:55-59, arch.md:*)
(* "a paused call still transmitting the room is a privacy bug".)          *)
PauseIsKept ==
  Idle /\ paused /\ started \notin contested =>
    /\ ~running
    /\ \/ Overlaps \/ Races
       \/ \A t \in Threads : engine[t] # "filling" /\ mic[t] # "sending"

(* The newest start plays what was chosen last, and a call is on the       *)
(* communication path, where no callback goes on amid a method of the main *)
(* thread (PlaybackService.kt:117-122, 185-198).                           *)
PlaysWhatWasChosen ==
  Idle /\ running =>
    /\ thread # 0 /\ plays[thread] = target
    /\ mode = "communication" <=> target = "call"

(* The call volume is given back, unless its user has changed it since:    *)
(* then it is the user's (PlaybackService.kt:225-226, 244-248).  A start   *)
(* that a pause did not see raises it again.                               *)
VolumeGivenBack ==
  Idle /\ (service = "down" \/ (paused /\ started \notin contested)) =>
    volume = own \/ own = Loudest

(* A pause gives back the focus and the locks, the end of the service the  *)
(* network's callback too (PlaybackService.kt:145-167).                    *)
NothingKept ==
  script["main"] = <<>> =>
    /\ paused => ~locks /\ focus = "none"
    /\ service = "down" => ~locks /\ focus = "none" /\ ~watching
=============================================================================
