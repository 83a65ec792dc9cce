---------------------------- MODULE DesktopProofs -----------------------------
(***************************************************************************)
(* Proofs about Desktop, for every finite set of sessions and any number   *)
(* of processes.                                                           *)
(***************************************************************************)
EXTENDS Desktop, FiniteSetTheorems, TLAPS

States == {"away", "asking", "muting", "recording", "listening", "leaving", "unmuting"}
SettingUp == {"sweeping", "loading", "noting", "preparing", "joining"}
Settling == SettingUp \cup {"running", "unloading", "restoring"}
Leaving == {"restoring", "unmuting", "exiting"}

AllAway == \A s \in Sessions : thread[s] = "away"

(* A session that holds the lock of the listeners is the only one there.   *)
Alone ==
  \A s, t \in Sessions :
    thread[s] \notin {"away", "listening"} /\ s # t => thread[t] = "away"

(* Who has muted the sink is still there to unmute it.                     *)
Owed == MUTED => \E s \in Sessions : thread[s] \in {"listening", "leaving"}

(* No session outlives its process or comes before it serves.              *)
Idle ==
  /\ main \in Ended \cup SettingUp => AllAway
  /\ main \in Ended \cup {"sweeping", "loading", "noting"} => pump = "none" /\ LOADED = {}
  /\ main # "off" => run # 0

(* The sink, as long as the user leaves it alone.                          *)
Hush ==
  ~failed /\ ~touched /\ main \in Settling =>
    /\ AllAway => (sink <=> wish)
    /\ \A s \in Sessions :
         /\ thread[s] = "asking" => (sink <=> wish)
         /\ thread[s] = "muting" => ~sink /\ ~wish
         /\ thread[s] \in {"recording", "unmuting"} => sink /\ ~wish
         /\ thread[s] \in {"listening", "leaving"} => sink /\ (MUTED <=> ~wish)

(* The sink, whatever the user does: what is muted and not wished is to be *)
(* unmuted.                                                                *)
Sound ==
  ~failed =>
    /\ main \in Settling /\ ~MUTED /\ (\A s \in Sessions : thread[s] # "recording") /\ MutedFree
         => (sink => wish)
    /\ main \in {"unmuting", "exiting"} /\ ~overtaken =>
         /\ ~MUTED
         /\ \A s \in Sessions : thread[s] \in {"away", "listening", "leaving"}
    /\ main = "exiting" /\ ~overtaken => (sink => wish)
    /\ StopLeavesSound

(* The microphone.                                                         *)
Loaded ==
  ~failed =>
    /\ main = "sweeping" => run \notin modules
    /\ main = "loading" => modules = {}
    /\ main = "noting" => modules = {run}
    /\ pump = "runs" /\ main \in {"preparing", "running", "joining", "unloading"} =>
         modules = {run} /\ LOADED = {run}
    /\ pump = "none" /\ main \in {"preparing", "running", "joining", "unloading"} =>
         run \notin modules
    /\ main \in Leaving /\ pump # "drops" => run \notin modules

DesktopInv == TypeOK /\ Alone /\ Owed /\ Idle /\ Hush /\ Sound /\ Loaded

-----------------------------------------------------------------------------
(* The count of listeners is zero exactly when there is none.              *)
LEMMA CountFacts ==
  ASSUME TypeOK
  PROVE  /\ IsFiniteSet(Counted)
         /\ listeners \in Nat
         /\ listeners = 0 <=> Counted = {}
<1>1. IsFiniteSet(Counted)
  BY DesktopAssumption, FS_Subset DEF Counted
<1> QED
  BY <1>1, FS_CardinalityType, FS_EmptySet DEF TypeOK

LEMMA OneMore ==
  ASSUME TypeOK, NEW s \in Sessions, s \notin Counted
  PROVE  Cardinality(Counted \cup {s}) = listeners + 1
  BY CountFacts, FS_AddElement DEF TypeOK

LEMMA OneLess ==
  ASSUME TypeOK, NEW s \in Sessions, s \in Counted
  PROVE  /\ Cardinality(Counted \ {s}) = listeners - 1
         /\ listeners - 1 = 0 <=> Counted = {s}
<1>1. /\ Cardinality(Counted \ {s}) = listeners - 1
      /\ IsFiniteSet(Counted \ {s})
  BY CountFacts, FS_RemoveElement DEF TypeOK
<1> QED
  BY <1>1, FS_EmptySet

(* What thread' is when session s moves.                                   *)
LEMMA Moves ==
  ASSUME TypeOK, NEW s \in Sessions, NEW state \in States, At(s, state)
  PROVE  /\ thread' \in [Sessions -> States]
         /\ thread'[s] = state
         /\ \A t \in Sessions : t # s => thread'[t] = thread[t]
  BY DEF TypeOK, At, States

LEMMA InitDesktop == Init => DesktopInv
<1> SUFFICES ASSUME Init PROVE DesktopInv
  OBVIOUS
<1>1. Counted = {} /\ AllAway
  BY DEF Init, Counted, AllAway
<1>2. TypeOK
  <2>1. Cardinality(Counted) = 0
    BY <1>1, FS_EmptySet
  <2>2. run \in 0 .. MaxRuns /\ modules \subseteq 1 .. run /\ LOADED \subseteq {run}
    BY DesktopAssumption DEF Init
  <2> QED
    BY <2>1, <2>2 DEF Init, TypeOK, Ended
<1>3. Alone /\ Owed /\ Idle
  BY <1>1 DEF Init, Alone, Owed, Idle, AllAway
<1>4. Hush /\ Sound /\ Loaded
  BY DEF Init, Hush, Sound, Loaded, Settling, SettingUp, Leaving, StopLeavesSound
<1> QED
  BY <1>2, <1>3, <1>4 DEF DesktopInv

-----------------------------------------------------------------------------
(* The steps of a session.                                                 *)
LEMMA ListenKeeps ==
  ASSUME DesktopInv, NEW s \in Sessions, Listen(s)
  PROVE  DesktopInv'
<1> USE DEF DesktopInv
<1>1. /\ main \in Serving /\ thread[s] = "away" /\ ListenersFree
      /\ listeners' = listeners + 1
      /\ At(s, IF listeners' = 1 THEN "asking" ELSE "listening")
      /\ UNCHANGED <<main, run, MUTED, sink, microphone, failed, killed>>
      /\ listeners' = 1 => wish' = sink /\ touched' = FALSE
      /\ listeners' # 1 => UNCHANGED <<wish, touched>>
      /\ overtaken' = (overtaken \/ (listeners' = 1 /\ main \in {"unmuting", "exiting"}))
  BY DEF Listen
<1>2. /\ thread' \in [Sessions -> States]
      /\ thread'[s] = (IF listeners' = 1 THEN "asking" ELSE "listening")
      /\ \A t \in Sessions : t # s => thread'[t] = thread[t]
  BY <1>1, Moves DEF States
<1>3. s \notin Counted /\ Counted' = Counted \cup {s}
  BY <1>1, <1>2 DEF Counted
<1>4. listeners' = 1 <=> Counted = {}
  BY <1>1, CountFacts
<1>5. listeners' = 1 <=> AllAway
  BY <1>1, <1>4 DEF AllAway, Counted, ListenersFree
<1>6. TypeOK'
  BY <1>1, <1>2, <1>3, OneMore DEF TypeOK, States, microphone
<1>7. Alone' /\ Owed'
  BY <1>1, <1>2, <1>5 DEF Alone, Owed, AllAway, ListenersFree
<1>8. Idle'
  BY <1>1 DEF Idle, Serving, Ended, SettingUp, microphone
<1>9. Hush'
  <2>1. CASE listeners' = 1
    BY <2>1, <1>1, <1>2, <1>5 DEF Hush, AllAway
  <2>2. CASE listeners' # 1
    <3>1. PICK t \in Sessions : thread[t] = "listening"
      BY <2>2, <1>1, <1>5 DEF AllAway, ListenersFree
    <3> QED
      BY <2>2, <3>1, <1>1, <1>2 DEF Hush, AllAway
  <2> QED
    BY <2>1, <2>2
<1>10. Sound'
  <2>1. MutedFree' <=> MutedFree
    BY <1>1, <1>2 DEF MutedFree
  <2>2. StopLeavesSound'
    BY <1>1 DEF StopLeavesSound, Serving
  <2>3. ~failed /\ main \in {"unmuting", "exiting"} /\ ~overtaken' =>
          /\ ~MUTED'
          /\ \A t \in Sessions : thread'[t] \in {"away", "listening", "leaving"}
          /\ main' = "exiting" => (sink' => wish')
    <3> SUFFICES ASSUME ~failed, main \in {"unmuting", "exiting"}, ~overtaken'
                 PROVE  /\ ~MUTED'
                        /\ \A t \in Sessions : thread'[t] \in {"away", "listening", "leaving"}
                        /\ main' = "exiting" => (sink' => wish')
      OBVIOUS
    <3>1. ~overtaken /\ listeners' # 1 /\ thread'[s] = "listening"
      BY <1>1, <1>2
    <3> QED
      BY <3>1, <1>1, <1>2 DEF Sound
  <2>4. ~failed /\ main \in Settling /\ ~MUTED /\ MutedFree
        /\ (\A t \in Sessions : thread'[t] # "recording") => (sink' => wish')
    <3>1. CASE listeners' = 1
      BY <3>1, <1>1
    <3>2. CASE listeners' # 1
      <4>1. (\A t \in Sessions : thread'[t] # "recording") =>
              \A t \in Sessions : thread[t] # "recording"
        BY <1>1, <1>2
      <4> QED
        BY <3>2, <4>1, <1>1 DEF Sound
    <3> QED
      BY <3>1, <3>2
  <2> QED
    BY <2>1, <2>2, <2>3, <2>4, <1>1 DEF Sound
<1>11. Loaded'
  BY <1>1 DEF Loaded, microphone
<1> QED
  BY <1>6, <1>7, <1>8, <1>9, <1>10, <1>11

LEMMA AskKeeps ==
  ASSUME DesktopInv, NEW s \in Sessions, Ask(s)
  PROVE  DesktopInv'
<1> USE DEF DesktopInv
<1>1. /\ thread[s] = "asking"
      /\ UNCHANGED <<main, run, listeners, MUTED, sink, microphone, wish, touched, killed, overtaken>>
      /\ \/ At(s, IF sink THEN "listening" ELSE "muting") /\ UNCHANGED failed
         \/ At(s, "listening") /\ failed' = TRUE
  BY DEF Ask, AlreadyMuted
<1>2. /\ thread' \in [Sessions -> States]
      /\ thread'[s] \in {"listening", "muting"}
      /\ ~failed' => ~failed /\ thread'[s] = (IF sink THEN "listening" ELSE "muting")
      /\ \A t \in Sessions : t # s => thread'[t] = thread[t]
  BY <1>1, Moves DEF States
<1>3. Counted' = Counted
  BY <1>1, <1>2 DEF Counted
<1>4. \A t \in Sessions : t # s => thread[t] = "away"
  BY <1>1 DEF Alone
<1>5. ~MUTED
  BY <1>1, <1>4 DEF Owed
<1>6. failed' \in BOOLEAN
  BY <1>1 DEF TypeOK
<1>7. TypeOK'
  BY <1>1, <1>2, <1>3, <1>6 DEF TypeOK, States, microphone
<1>8. Alone' /\ Owed'
  BY <1>1, <1>2, <1>4, <1>5 DEF Alone, Owed
<1>9. Idle'
  BY <1>1, <1>2 DEF Idle, AllAway, microphone
<1>10. Hush'
  <2> SUFFICES ASSUME ~failed', ~touched', main' \in Settling
               PROVE  Hush'
    BY DEF Hush
  <2>1. sink <=> wish
    BY <1>1, <1>2 DEF Hush
  <2>2. ~AllAway'
    BY <1>2 DEF AllAway
  <2>3. \A t \in Sessions : t # s => thread'[t] = "away"
    BY <1>2, <1>4
  <2> QED
    BY <2>1, <2>2, <2>3, <1>1, <1>2, <1>5 DEF Hush
<1>11. Sound'
  <2> SUFFICES ASSUME ~failed' PROVE Sound'
    BY DEF Sound
  <2>1. StopLeavesSound'
    BY <1>1, <1>2 DEF StopLeavesSound, Sound
  <2>2. main \notin {"unmuting", "exiting"} \/ overtaken
    BY <1>1, <1>2 DEF Sound
  <2>3. main \in Settling /\ MutedFree' => (sink => wish)
    BY <1>1, <1>2, <1>4, <1>5 DEF Sound, MutedFree
  <2> QED
    BY <2>1, <2>2, <2>3, <1>1 DEF Sound
<1>12. Loaded'
  BY <1>1, <1>2 DEF Loaded, microphone
<1> QED
  BY <1>7, <1>8, <1>9, <1>10, <1>11, <1>12

LEMMA MuteSinkKeeps ==
  ASSUME DesktopInv, NEW s \in Sessions, MuteSink(s)
  PROVE  DesktopInv'
<1> USE DEF DesktopInv
<1>1. /\ thread[s] = "muting"
      /\ UNCHANGED <<main, run, listeners, MUTED, microphone, wish, touched, killed, overtaken>>
      /\ \/ sink' = TRUE /\ At(s, "recording") /\ UNCHANGED failed
         \/ failed' = TRUE /\ At(s, "listening") /\ UNCHANGED sink
  BY DEF MuteSink
<1>2. /\ thread' \in [Sessions -> States]
      /\ thread'[s] \in {"listening", "recording"}
      /\ ~failed' => ~failed /\ thread'[s] = "recording" /\ sink'
      /\ \A t \in Sessions : t # s => thread'[t] = thread[t]
  BY <1>1, Moves DEF States
<1>3. Counted' = Counted
  BY <1>1, <1>2 DEF Counted
<1>4. \A t \in Sessions : t # s => thread[t] = "away"
  BY <1>1 DEF Alone
<1>5. ~MUTED
  BY <1>1, <1>4 DEF Owed
<1>6. failed' \in BOOLEAN /\ sink' \in BOOLEAN
  BY <1>1 DEF TypeOK
<1>7. TypeOK'
  BY <1>1, <1>2, <1>3, <1>6 DEF TypeOK, States, microphone
<1>8. Alone' /\ Owed'
  BY <1>1, <1>2, <1>4, <1>5 DEF Alone, Owed
<1>9. Idle'
  BY <1>1, <1>2 DEF Idle, AllAway, microphone
<1>10. Hush'
  <2> SUFFICES ASSUME ~failed', ~touched', main' \in Settling
               PROVE  Hush'
    BY DEF Hush
  <2>1. ~wish
    BY <1>1, <1>2 DEF Hush
  <2>2. ~AllAway'
    BY <1>2 DEF AllAway
  <2>3. \A t \in Sessions : t # s => thread'[t] = "away"
    BY <1>2, <1>4
  <2> QED
    BY <2>1, <2>2, <2>3, <1>1, <1>2 DEF Hush
<1>11. Sound'
  <2> SUFFICES ASSUME ~failed' PROVE Sound'
    BY DEF Sound
  <2>1. main \notin Ended
    BY <1>1 DEF Idle, AllAway
  <2>2. main \notin {"unmuting", "exiting"} \/ overtaken
    BY <1>1, <1>2 DEF Sound
  <2> QED
    BY <2>1, <2>2, <1>1, <1>2 DEF Sound, StopLeavesSound, Ended
<1>12. Loaded'
  BY <1>1, <1>2 DEF Loaded, microphone
<1> QED
  BY <1>7, <1>8, <1>9, <1>10, <1>11, <1>12

LEMMA RecordKeeps ==
  ASSUME DesktopInv, NEW s \in Sessions, Record(s)
  PROVE  DesktopInv'
<1> USE DEF DesktopInv
<1>1. /\ thread[s] = "recording" /\ At(s, "listening") /\ MUTED' = TRUE
      /\ UNCHANGED <<main, run, listeners, sink, microphone, wish, touched, failed, killed, overtaken>>
  BY DEF Record, ghosts
<1>2. /\ thread' \in [Sessions -> States] /\ thread'[s] = "listening"
      /\ \A t \in Sessions : t # s => thread'[t] = thread[t]
  BY <1>1, Moves DEF States
<1>3. Counted' = Counted
  BY <1>1, <1>2 DEF Counted
<1>4. \A t \in Sessions : t # s => thread[t] = "away"
  BY <1>1 DEF Alone
<1>5. TypeOK'
  BY <1>1, <1>2, <1>3 DEF TypeOK, States, microphone
<1>6. Alone' /\ Owed'
  BY <1>1, <1>2, <1>4 DEF Alone, Owed
<1>7. main \notin Ended \cup SettingUp /\ Idle'
  BY <1>1, <1>2 DEF Idle, AllAway, microphone, Ended, SettingUp
<1>8. Hush'
  <2>1. ~AllAway'
    BY <1>2 DEF AllAway
  <2> QED
    BY <2>1, <1>1, <1>2, <1>4 DEF Hush
<1>9. Sound'
  <2>1. failed \/ main \notin {"unmuting", "exiting"} \/ overtaken
    BY <1>1, <1>2 DEF Sound
  <2> QED
    BY <2>1, <1>1, <1>7 DEF Sound, StopLeavesSound, Ended
<1>10. Loaded'
  BY <1>1 DEF Loaded, microphone
<1> QED
  BY <1>5, <1>6, <1>7, <1>8, <1>9, <1>10

LEMMA LeaveKeeps ==
  ASSUME DesktopInv, NEW s \in Sessions, Leave(s)
  PROVE  DesktopInv'
<1> USE DEF DesktopInv
<1>1. /\ thread[s] = "listening" /\ ListenersFree
      /\ listeners' = listeners - 1
      /\ At(s, IF listeners' = 0 THEN "leaving" ELSE "away")
      /\ UNCHANGED <<main, run, MUTED, sink, microphone, wish, touched, failed, killed, overtaken>>
  BY DEF Leave, Fewer, LastLeave, ghosts
<1>2. /\ thread' \in [Sessions -> States]
      /\ thread'[s] = (IF listeners' = 0 THEN "leaving" ELSE "away")
      /\ \A t \in Sessions : t # s => thread'[t] = thread[t]
  BY <1>1, Moves DEF States
<1>3. s \in Counted /\ Counted' = Counted \ {s}
  BY <1>1, <1>2 DEF Counted
<1>4. listeners' = 0 <=> Counted = {s}
  BY <1>1, <1>3, OneLess
<1>5. CASE listeners' = 0
  <2>1. \A t \in Sessions : t # s => thread[t] = "away"
    BY <1>1, <1>4, <1>5 DEF Counted, ListenersFree
  <2>2. TypeOK'
    BY <1>1, <1>2, <1>3, OneLess DEF TypeOK, States, microphone
  <2>3. Alone' /\ Owed'
    BY <1>1, <1>2, <1>5, <2>1 DEF Alone, Owed
  <2>4. Idle'
    BY <1>1 DEF Idle, AllAway, microphone
  <2>5. Hush'
    <3>1. ~AllAway'
      BY <1>2, <1>5 DEF AllAway
    <3> QED
      BY <3>1, <1>1, <1>2, <1>5, <2>1 DEF Hush
  <2>6. Sound'
    BY <1>1, <1>2, <1>5 DEF Sound, StopLeavesSound, MutedFree
  <2> QED
    BY <2>2, <2>3, <2>4, <2>5, <2>6, <1>1 DEF Loaded, microphone
<1>6. CASE listeners' # 0
  <2>1. PICK t \in Sessions : t # s /\ thread[t] = "listening" /\ thread'[t] = "listening"
    <3>1. PICK t \in Counted : t # s
      BY <1>3, <1>4, <1>6
    <3> QED
      BY <3>1, <1>1, <1>2 DEF Counted, ListenersFree
  <2>2. TypeOK'
    BY <1>1, <1>2, <1>3, OneLess DEF TypeOK, States, microphone
  <2>3. Alone' /\ Owed'
    BY <1>1, <1>2, <1>6, <2>1 DEF Alone, Owed, ListenersFree
  <2>4. Idle'
    BY <1>1, <1>2 DEF Idle, AllAway, microphone
  <2>5. Hush'
    BY <1>1, <1>2, <1>6, <2>1 DEF Hush, AllAway
  <2>6. Sound'
    BY <1>1, <1>2, <1>6 DEF Sound, StopLeavesSound, MutedFree
  <2> QED
    BY <2>2, <2>3, <2>4, <2>5, <2>6, <1>1 DEF Loaded, microphone
<1> QED
  BY <1>5, <1>6

LEMMA TakeMutedKeeps ==
  ASSUME DesktopInv, NEW s \in Sessions, TakeMuted(s)
  PROVE  DesktopInv'
<1> USE DEF DesktopInv
<1>1. /\ thread[s] = "leaving" /\ MutedFree /\ MUTED' = FALSE
      /\ At(s, IF MUTED THEN "unmuting" ELSE "away")
      /\ UNCHANGED <<main, run, listeners, sink, microphone, wish, touched, failed, killed, overtaken>>
  BY DEF TakeMuted, ToUnmute, ghosts
<1>2. /\ thread' \in [Sessions -> States]
      /\ thread'[s] = (IF MUTED THEN "unmuting" ELSE "away")
      /\ \A t \in Sessions : t # s => thread'[t] = thread[t]
  BY <1>1, Moves DEF States
<1>3. Counted' = Counted
  BY <1>1, <1>2 DEF Counted
<1>4. \A t \in Sessions : t # s => thread[t] = "away" /\ thread'[t] = "away"
  BY <1>1, <1>2 DEF Alone
<1>5. TypeOK'
  BY <1>1, <1>2, <1>3 DEF TypeOK, States, microphone
<1>6. Alone' /\ Owed'
  BY <1>1, <1>2, <1>4 DEF Alone, Owed
<1>7. main \notin Ended \cup SettingUp /\ Idle'
  BY <1>1, <1>2 DEF Idle, AllAway, microphone, Ended, SettingUp
<1>8. Hush'
  <2>1. AllAway' => ~MUTED
    BY <1>2 DEF AllAway
  <2> QED
    BY <2>1, <1>1, <1>2, <1>4 DEF Hush
<1>9. Sound'
  <2> SUFFICES ASSUME ~failed PROVE Sound'
    BY <1>1 DEF Sound
  <2>1. main \in Settling /\ MutedFree' => (sink => wish)
    <3> SUFFICES ASSUME main \in Settling, MutedFree' PROVE sink => wish
      OBVIOUS
    <3>1. ~MUTED
      BY <1>1, <1>2 DEF MutedFree
    <3>2. \A t \in Sessions : thread[t] # "recording"
      BY <1>1, <1>4
    <3> QED
      BY <3>1, <3>2, <1>1 DEF Sound
  <2>2. main \in {"unmuting", "exiting"} /\ ~overtaken =>
          \A t \in Sessions : thread'[t] \in {"away", "listening", "leaving"}
    BY <1>1, <1>2, <1>4 DEF Sound
  <2> QED
    BY <2>1, <2>2, <1>1, <1>7 DEF Sound, StopLeavesSound, Ended
<1>10. Loaded'
  BY <1>1 DEF Loaded, microphone
<1> QED
  BY <1>5, <1>6, <1>7, <1>8, <1>9, <1>10

LEMMA RestoreKeeps ==
  ASSUME DesktopInv, NEW s \in Sessions, Restore(s)
  PROVE  DesktopInv'
<1> USE DEF DesktopInv
<1>1. /\ thread[s] = "unmuting" /\ At(s, "away")
      /\ \/ sink' = FALSE /\ UNCHANGED failed
         \/ failed' = TRUE /\ UNCHANGED sink
      /\ UNCHANGED <<main, run, listeners, MUTED, microphone, wish, touched, killed, overtaken>>
  BY DEF Restore, Unmute
<1>2. /\ thread' \in [Sessions -> States] /\ thread'[s] = "away"
      /\ \A t \in Sessions : t # s => thread'[t] = thread[t]
  BY <1>1, Moves DEF States
<1>3. Counted' = Counted
  BY <1>1, <1>2 DEF Counted
<1>4. \A t \in Sessions : thread'[t] = "away" /\ (t # s => thread[t] = "away")
  BY <1>1, <1>2 DEF Alone
<1>5. ~MUTED
  BY <1>1, <1>4 DEF Owed
<1>6. /\ failed' \in BOOLEAN /\ sink' \in BOOLEAN
      /\ ~failed' => ~failed /\ ~sink'
  <2>1. CASE sink' = FALSE /\ UNCHANGED failed
    BY <2>1 DEF TypeOK
  <2>2. CASE failed' = TRUE /\ UNCHANGED sink
    BY <2>2 DEF TypeOK
  <2> QED
    BY <1>1, <2>1, <2>2
<1>7. TypeOK'
  BY <1>1, <1>2, <1>3, <1>6 DEF TypeOK, States, microphone
<1>8. Alone' /\ Owed'
  BY <1>1, <1>4, <1>5 DEF Alone, Owed
<1>9. main \notin Ended \cup SettingUp /\ Idle'
  BY <1>1, <1>2 DEF Idle, AllAway, microphone, Ended, SettingUp
<1>10. Hush'
  BY <1>1, <1>4, <1>6 DEF Hush
<1>11. Sound'
  BY <1>1, <1>4, <1>5, <1>6, <1>9 DEF Sound, StopLeavesSound, Ended
<1>12. Loaded'
  BY <1>1, <1>6 DEF Loaded, microphone
<1> QED
  BY <1>7, <1>8, <1>9, <1>10, <1>11, <1>12

LEMMA ToggleKeeps == ASSUME DesktopInv, Toggle PROVE DesktopInv'
<1> USE DEF DesktopInv
<1>1. /\ sink' = ~sink /\ wish' = sink' /\ touched' = TRUE
      /\ UNCHANGED <<main, run, thread, listeners, MUTED, microphone, failed, killed, overtaken>>
  BY DEF Toggle
<1>2. TypeOK'
  <2>1. Counted' = Counted
    BY <1>1 DEF Counted
  <2> QED
    BY <2>1, <1>1 DEF TypeOK, microphone
<1>3. Alone' /\ Owed' /\ Idle'
  BY <1>1 DEF Alone, Owed, Idle, AllAway, microphone
<1>4. Hush'
  BY <1>1 DEF Hush
<1>5. Sound'
  BY <1>1 DEF Sound, StopLeavesSound
<1>6. Loaded'
  BY <1>1 DEF Loaded, microphone
<1> QED
  BY <1>2, <1>3, <1>4, <1>5, <1>6

-----------------------------------------------------------------------------
(* Steps of the main thread and of the pump that leave the mute alone.     *)
LEMMA MuteLeftAlone ==
  ASSUME DesktopInv, UNCHANGED <<speakers, wish, touched, killed, overtaken>>,
         failed' \in {failed, TRUE},
         \/ main' = main
         \/ /\ main \in Settling /\ main' \in Settling
            /\ main' \in SettingUp => main \in SettingUp
  PROVE  /\ Alone' /\ Owed' /\ Hush' /\ Sound'
         /\ main' \in Ended \cup SettingUp => AllAway'
         /\ listeners' = Cardinality(Counted)'
         /\ thread' \in [Sessions -> States]
         /\ failed' \in BOOLEAN /\ (~failed' => ~failed)
<1> USE DEF DesktopInv
<1>1. /\ UNCHANGED <<thread, listeners, MUTED, sink, wish, touched, killed, overtaken>>
      /\ ~failed' => ~failed
      /\ failed' \in BOOLEAN
  BY DEF speakers, TypeOK
<1>2. Alone' /\ Owed'
  BY <1>1 DEF Alone, Owed
<1>3. Counted' = Counted
  BY <1>1 DEF Counted
<1>4. main' \in Settling => main' = main \/ main \in Settling
  OBVIOUS
<1>5. Hush'
  BY <1>1, <1>4 DEF Hush, AllAway
<1>6. Sound'
  <2>1. CASE main' = main
    BY <2>1, <1>1 DEF Sound, StopLeavesSound, MutedFree
  <2>2. CASE main \in Settling /\ main' \in Settling
    <3>1. main \notin {"gone", "unmuting", "exiting"} /\ main' \notin {"gone", "unmuting", "exiting"}
      BY <2>2 DEF Settling, SettingUp
    <3> QED
      BY <2>2, <3>1, <1>1 DEF Sound, StopLeavesSound, MutedFree
  <2> QED
    BY <2>1, <2>2
<1>7. main' \in Ended \cup SettingUp => AllAway'
  BY <1>1 DEF Idle, AllAway, Ended, Settling, SettingUp
<1>8. listeners' = Cardinality(Counted)' /\ thread' \in [Sessions -> States]
  BY <1>1, <1>3 DEF TypeOK, States
<1> QED
  BY <1>1, <1>2, <1>5, <1>6, <1>7, <1>8

(* What a step of the main thread or of the pump has to show besides.      *)
LEMMA MicrophoneSteps ==
  ASSUME DesktopInv, UNCHANGED <<run, speakers, wish, touched, killed, overtaken>>,
         failed' \in {failed, TRUE},
         \/ main' = main
         \/ /\ main \in Settling /\ main' \in Settling
            /\ main' \in SettingUp => main \in SettingUp,
         modules' \subseteq 1 .. run, LOADED' \subseteq {run},
         pump' \in {"none", "runs", "drops"},
         main' \in Ended \cup {"sweeping", "loading", "noting"} => pump' = "none" /\ LOADED' = {},
         Loaded'
  PROVE  DesktopInv'
<1> USE DEF DesktopInv
<1>1. /\ Alone' /\ Owed' /\ Hush' /\ Sound'
      /\ main' \in Ended \cup SettingUp => AllAway'
      /\ listeners' = Cardinality(Counted)'
      /\ thread' \in [Sessions -> States]
      /\ failed' \in BOOLEAN
  BY MuteLeftAlone
<1>2. Idle'
  BY <1>1 DEF Idle, Settling, SettingUp
<1>3. main' \in Ended \cup Serving \cup SettingUp
  BY DEF TypeOK, Settling, SettingUp, Serving
<1>4. TypeOK'
  BY <1>1, <1>3 DEF TypeOK, States, SettingUp, speakers
<1> QED
  BY <1>1, <1>2, <1>4

LEMMA SweepKeeps == ASSUME DesktopInv, Sweep PROVE DesktopInv'
<1>1. /\ main = "sweeping" /\ main' = "loading"
      /\ UNCHANGED <<run, speakers, LOADED, pump, wish, touched, killed, overtaken>>
      /\ \/ modules' = {} /\ UNCHANGED failed
         \/ failed' = TRUE /\ UNCHANGED modules
  BY DEF Sweep, Stale
<1>2. Loaded'
  BY <1>1 DEF Loaded, Leaving
<1>3. pump = "none" /\ LOADED = {} /\ modules \subseteq 1 .. run
  BY <1>1 DEF DesktopInv, Idle, TypeOK
<1> QED
  BY <1>1, <1>2, <1>3, MicrophoneSteps DEF Settling, SettingUp

LEMMA LoadKeeps == ASSUME DesktopInv, Load PROVE DesktopInv'
<1>1. /\ main = "loading" /\ main' \in {"noting", "unloading"}
      /\ UNCHANGED <<run, speakers, LOADED, pump, wish, touched, killed, overtaken>>
      /\ \/ modules' = modules \cup {run} /\ main' = "noting" /\ UNCHANGED failed
         \/ failed' = TRUE /\ main' = "unloading" /\ UNCHANGED modules
  BY DEF Load
<1>2. Loaded'
  BY <1>1 DEF DesktopInv, Loaded, Leaving
<1>3. /\ pump = "none" /\ LOADED = {} /\ modules \subseteq 1 .. run
      /\ run \in Nat /\ run # 0
  BY <1>1, DesktopAssumption DEF DesktopInv, Idle, TypeOK
<1>4. run \in 1 .. run
  BY <1>3
<1>5. modules' \subseteq 1 .. run
  BY <1>1, <1>3, <1>4
<1>6. failed' \in {failed, TRUE}
  BY <1>1
<1> QED
  BY <1>1, <1>2, <1>3, <1>5, <1>6, MicrophoneSteps DEF Settling, SettingUp

LEMMA NoteKeeps == ASSUME DesktopInv, Note PROVE DesktopInv'
<1>1. /\ main = "noting" /\ main' \in {"preparing", "unloading"}
      /\ UNCHANGED <<run, speakers, wish, touched, killed, overtaken>>
      /\ LOADED' = LOADED \cup {run}
      /\ \/ main' = "preparing" /\ pump' = "runs" /\ UNCHANGED <<modules, failed>>
         \/ /\ main' = "unloading" /\ UNCHANGED pump
            /\ modules' = modules \ {run} /\ UNCHANGED failed
         \/ main' = "unloading" /\ failed' = TRUE /\ UNCHANGED <<modules, pump>>
  BY DEF Note
<1>2. pump = "none" /\ LOADED = {} /\ modules \subseteq 1 .. run
  BY <1>1 DEF DesktopInv, Idle, TypeOK
<1>3. Loaded'
  BY <1>1, <1>2 DEF DesktopInv, Loaded, Leaving
<1>4. modules' \subseteq 1 .. run /\ LOADED' \subseteq {run} /\ pump' \in {"none", "runs", "drops"}
  BY <1>1, <1>2
<1>5. failed' \in {failed, TRUE}
  BY <1>1
<1> QED
  BY <1>1, <1>3, <1>4, <1>5, MicrophoneSteps DEF Settling, SettingUp, Ended

(* The set-up succeeds or fails, and the process is told to stop.          *)
LEMMA MainMovesOn ==
  ASSUME DesktopInv, Prepared \/ PrepareFails \/ Joined \/ Stop
  PROVE  DesktopInv'
<1>1. /\ main \in {"preparing", "joining", "running"}
      /\ main' \in {"running", "joining", "unloading"}
      /\ main' = "joining" => main = "preparing"
      /\ UNCHANGED <<run, speakers, modules, LOADED, pump, wish, touched, failed, killed, overtaken>>
  BY DEF Prepared, PrepareFails, Joined, Stop, microphone, ghosts
<1>2. Loaded'
  BY <1>1 DEF DesktopInv, Loaded, Leaving
<1>3. /\ modules \subseteq 1 .. run /\ LOADED \subseteq {run}
      /\ pump \in {"none", "runs", "drops"}
  BY DEF DesktopInv, TypeOK
<1> QED
  BY <1>1, <1>2, <1>3, MicrophoneSteps DEF Settling, SettingUp, Ended

LEMMA PumpKeeps == ASSUME DesktopInv, PumpEnds \/ PumpUnloads PROVE DesktopInv'
<1>1. /\ UNCHANGED <<main, run, speakers, wish, touched, killed, overtaken>>
      /\ \/ /\ pump = "runs" /\ pump' = "drops" /\ LOADED' = LOADED \ {run}
            /\ UNCHANGED <<modules, failed>>
         \/ /\ pump = "drops" /\ pump' = "none" /\ UNCHANGED LOADED
            /\ \/ modules' = modules \ {run} /\ UNCHANGED failed
               \/ failed' = TRUE /\ UNCHANGED modules
  BY DEF PumpEnds, PumpUnloads, ghosts
<1>2. /\ main \notin Ended \cup {"sweeping", "loading", "noting"}
      /\ modules \subseteq 1 .. run /\ LOADED \subseteq {run}
  BY <1>1 DEF DesktopInv, Idle, TypeOK
<1>3. Loaded'
  BY <1>1, <1>2 DEF DesktopInv, Loaded, Leaving
<1>4. modules' \subseteq 1 .. run /\ LOADED' \subseteq {run} /\ failed' \in {failed, TRUE}
  BY <1>1, <1>2
<1> QED
  BY <1>1, <1>2, <1>3, <1>4, MicrophoneSteps

LEMMA UnloadAllKeeps == ASSUME DesktopInv, UnloadAll PROVE DesktopInv'
<1>1. /\ main = "unloading" /\ main' = "restoring" /\ LOADED' = {}
      /\ UNCHANGED <<run, speakers, pump, wish, touched, killed, overtaken>>
      /\ \/ modules' = modules \ LOADED /\ UNCHANGED failed
         \/ failed' = TRUE /\ UNCHANGED modules
  BY DEF UnloadAll, UnloadNoted
<1>2. /\ modules \subseteq 1 .. run /\ LOADED \subseteq {run}
      /\ pump \in {"none", "runs", "drops"}
  BY DEF DesktopInv, TypeOK
<1>3. Loaded'
  BY <1>1, <1>2 DEF DesktopInv, Loaded, Leaving
<1>4. modules' \subseteq 1 .. run /\ failed' \in {failed, TRUE}
  BY <1>1, <1>2
<1> QED
  BY <1>1, <1>2, <1>3, <1>4, MicrophoneSteps DEF Settling, SettingUp, Ended

-----------------------------------------------------------------------------
(* The main thread gives the mute back, and the process begins and ends.   *)
LEMMA RestoreMainKeeps == ASSUME DesktopInv, RestoreMain PROVE DesktopInv'
<1> USE DEF DesktopInv
<1>1. /\ main = "restoring" /\ MutedFree /\ MUTED' = FALSE
      /\ main' = IF MUTED THEN "unmuting" ELSE "exiting"
      /\ overtaken' = \E s \in Sessions : thread[s] \in {"asking", "muting", "recording"}
      /\ UNCHANGED <<run, thread, listeners, sink, modules, LOADED, pump, wish, touched, failed, killed>>
  BY DEF RestoreMain, ToUnmute, microphone
<1>2. Counted' = Counted
  BY <1>1 DEF Counted
<1>3. overtaken' \in BOOLEAN
  BY <1>1
<1>4. TypeOK'
  BY <1>1, <1>2, <1>3 DEF TypeOK, Serving
<1>5. Alone' /\ Owed' /\ Idle'
  BY <1>1 DEF Alone, Owed, Idle, Ended, SettingUp
<1>6. Hush'
  BY <1>1 DEF Hush, Settling, SettingUp
<1>7. Sound'
  <2> SUFFICES ASSUME ~failed PROVE Sound'
    BY <1>1 DEF Sound
  <2>1. ~overtaken' => \A s \in Sessions : thread[s] \in {"away", "listening", "leaving"}
    <3>1. \A s \in Sessions : thread[s] \in States /\ thread[s] # "unmuting"
      BY <1>1 DEF TypeOK, States, MutedFree
    <3> QED
      BY <3>1, <1>1 DEF States
  <2>2. main' = "exiting" /\ ~overtaken' => (sink' => wish')
    BY <1>1, <2>1 DEF Sound, Settling
  <2> QED
    BY <1>1, <2>1, <2>2 DEF Sound, StopLeavesSound, Settling, SettingUp
<1>8. Loaded'
  BY <1>1 DEF Loaded, Leaving
<1> QED
  BY <1>4, <1>5, <1>6, <1>7, <1>8

LEMMA UnmuteMainKeeps == ASSUME DesktopInv, UnmuteMain PROVE DesktopInv'
<1> USE DEF DesktopInv
<1>1. /\ main = "unmuting" /\ main' = "exiting"
      /\ UNCHANGED <<run, thread, listeners, MUTED, modules, LOADED, pump, wish, touched, killed, overtaken>>
      /\ \/ sink' = FALSE /\ UNCHANGED failed
         \/ failed' = TRUE /\ UNCHANGED sink
  BY DEF UnmuteMain, Unmute, microphone
<1>2. Counted' = Counted
  BY <1>1 DEF Counted
<1>3. sink' \in BOOLEAN /\ failed' \in BOOLEAN
  <2>1. CASE sink' = FALSE /\ UNCHANGED failed
    BY <2>1 DEF TypeOK
  <2>2. CASE failed' = TRUE /\ UNCHANGED sink
    BY <2>2 DEF TypeOK
  <2> QED
    BY <1>1, <2>1, <2>2
<1>4. ~failed' => ~failed /\ ~sink'
  BY <1>1
<1>5. TypeOK'
  BY <1>1, <1>2, <1>3 DEF TypeOK, Serving
<1>6. Alone' /\ Owed' /\ Idle'
  BY <1>1 DEF Alone, Owed, Idle, Ended, SettingUp
<1>7. Hush'
  BY <1>1 DEF Hush, Settling, SettingUp
<1>8. Sound'
  BY <1>1, <1>4 DEF Sound, StopLeavesSound, Settling, SettingUp
<1>9. Loaded'
  BY <1>1, <1>4 DEF Loaded, Leaving
<1> QED
  BY <1>5, <1>6, <1>7, <1>8, <1>9

LEMMA StartKeeps == ASSUME DesktopInv, Start PROVE DesktopInv'
<1> USE DEF DesktopInv
<1>1. /\ main \in Ended /\ run < MaxRuns /\ run' = run + 1
      /\ main' \in {"sweeping", "preparing"}
      /\ wish' = sink /\ touched' = FALSE /\ failed' = FALSE /\ killed' = FALSE
      /\ overtaken' = FALSE
      /\ UNCHANGED <<thread, listeners, MUTED, sink, modules, LOADED, pump>>
  BY DEF Start, speakers, microphone
<1>2. AllAway /\ pump = "none" /\ LOADED = {}
  BY <1>1 DEF Idle
<1>3. Counted' = Counted
  BY <1>1 DEF Counted
<1>4. run \in Nat /\ modules \subseteq 1 .. run
  BY DesktopAssumption DEF TypeOK
<1>5. run' \in 0 .. MaxRuns /\ modules' \subseteq 1 .. run' /\ run' \notin modules' /\ run' # 0
  BY <1>1, <1>4, DesktopAssumption
<1>6. TypeOK'
  BY <1>1, <1>2, <1>3, <1>5 DEF TypeOK
<1>7. Alone' /\ Owed' /\ Idle'
  BY <1>1, <1>2, <1>5 DEF Alone, Owed, Idle, AllAway
<1>8. Hush'
  BY <1>1, <1>2 DEF Hush, AllAway
<1>9. Sound'
  BY <1>1 DEF Sound, StopLeavesSound
<1>10. Loaded'
  BY <1>1, <1>2, <1>5 DEF Loaded, Leaving
<1> QED
  BY <1>6, <1>7, <1>8, <1>9, <1>10

LEMMA VanishKeeps == ASSUME DesktopInv, Exit \/ Killed PROVE DesktopInv'
<1> USE DEF DesktopInv
<1>1. /\ main \notin Ended /\ main' = "gone"
      /\ thread' = [s \in Sessions |-> "away"] /\ listeners' = 0
      /\ MUTED' = FALSE /\ LOADED' = {} /\ pump' = "none"
      /\ sink' \in {sink, TRUE, FALSE}
      /\ modules' \subseteq modules
      /\ UNCHANGED <<run, wish, touched, failed, overtaken>>
  BY DEF Exit, Killed, Vanish, Ended
<1>2. killed' \in BOOLEAN /\ (~killed' => main = "exiting")
  BY DEF Exit, Killed, TypeOK
<1>3. Counted' = {} /\ AllAway'
  BY <1>1 DEF Counted, AllAway
<1>4. listeners' = Cardinality(Counted)'
  BY <1>1, <1>3, FS_EmptySet
<1>5. sink' \in BOOLEAN
  BY <1>1 DEF TypeOK
<1>6. TypeOK'
  BY <1>1, <1>2, <1>4, <1>5 DEF TypeOK, Ended
<1>7. Alone' /\ Owed' /\ Idle'
  <2>1. run # 0
    BY <1>1 DEF Idle, Ended
  <2> QED
    BY <1>1, <1>3, <2>1 DEF Alone, Owed, Idle, AllAway
<1>8. Hush' /\ Loaded'
  BY <1>1 DEF Hush, Loaded, Settling, SettingUp, Leaving
<1>9. Sound'
  <2>1. ~failed /\ ~killed' /\ ~overtaken => (sink' => wish)
    <3> SUFFICES ASSUME ~failed, ~killed', ~overtaken PROVE sink' => wish
      OBVIOUS
    <3>1. main = "exiting"
      BY <1>2
    <3>2. ~Muting /\ (sink => wish)
      BY <3>1 DEF Sound, Muting
    <3> QED
      BY <3>2 DEF Exit, Killed, Vanish
  <2> QED
    BY <2>1, <1>1 DEF Sound, StopLeavesSound, Settling, SettingUp
<1> QED
  BY <1>6, <1>7, <1>8, <1>9

LEMMA DesktopStep == DesktopInv /\ [Next]_vars => DesktopInv'
<1> SUFFICES ASSUME DesktopInv, [Next]_vars PROVE DesktopInv'
  OBVIOUS
<1>1. ASSUME NEW s \in Sessions,
             \/ Listen(s) \/ Ask(s) \/ MuteSink(s) \/ Record(s)
             \/ Leave(s) \/ TakeMuted(s) \/ Restore(s)
      PROVE  DesktopInv'
  BY <1>1, ListenKeeps, AskKeeps, MuteSinkKeeps, RecordKeeps, LeaveKeeps, TakeMutedKeeps,
     RestoreKeeps
<1>2. CASE UNCHANGED vars
  <2>1. Counted' = Counted
    BY <1>2 DEF Counted, vars, speakers
  <2> QED
    BY <1>2, <2>1
    DEF vars, speakers, microphone, ghosts, DesktopInv, TypeOK, Alone, Owed, Idle, AllAway, Hush,
        Sound, MutedFree, StopLeavesSound, Loaded
<1> QED
  BY <1>1, <1>2, ToggleKeeps, StartKeeps, SweepKeeps, LoadKeeps, NoteKeeps, MainMovesOn, PumpKeeps,
     UnloadAllKeeps, RestoreMainKeeps, UnmuteMainKeeps, VanishKeeps
  DEF Next

LEMMA DesktopInvariant == Spec => []DesktopInv
  BY InitDesktop, DesktopStep, PTL DEF Spec

-----------------------------------------------------------------------------
(* The registers of the desktop keep their types; the count of listeners is*)
(* that of the sessions which have begun to listen and not left            *)
(* (speakers.rs:42-53, 72-87).                                             *)
THEOREM DesktopTyped == Spec => []TypeOK
<1>1. DesktopInv => TypeOK
  BY DEF DesktopInv
<1> QED
  BY <1>1, DesktopInvariant, PTL

(* The desktop is silent exactly while somebody listens, if its user has   *)
(* not interfered and pactl has not failed (speakers.rs:44-45, 55-56).     *)
THEOREM SilentExactly == Spec => []SilentWhileHeard
<1>1. DesktopInv => SilentWhileHeard
  <2> SUFFICES ASSUME DesktopInv, Settled, ~touched PROVE sink <=> wish \/ listeners > 0
    BY DEF SilentWhileHeard
  <2> USE DEF DesktopInv
  <2>1. /\ main \in Settling /\ ~failed
        /\ \A s \in Sessions : thread[s] \in {"away", "listening"}
    BY DEF Settled, Settling, ListenersFree
  <2>2. listeners \in Nat /\ (listeners = 0 <=> AllAway)
    BY <2>1, CountFacts DEF Counted, AllAway
  <2>3. CASE AllAway
    BY <2>1, <2>2, <2>3 DEF Hush
  <2>4. CASE ~AllAway
    <3>1. PICK s \in Sessions : thread[s] = "listening"
      BY <2>1, <2>4 DEF AllAway
    <3>2. sink
      BY <2>1, <3>1 DEF Hush
    <3> QED
      BY <3>2, <2>2, <2>4
  <2> QED
    BY <2>3, <2>4
<1> QED
  BY <1>1, DesktopInvariant, PTL

(* When nobody listens the sink is muted only if its user wanted that,     *)
(* whatever the user has done with it meanwhile (speakers.rs:72-79).       *)
THEOREM NotLeftSilent == Spec => []NeverLeftSilent
<1>1. DesktopInv => NeverLeftSilent
  <2> SUFFICES ASSUME DesktopInv, Settled, listeners = 0 PROVE sink => wish
    BY DEF NeverLeftSilent
  <2> USE DEF DesktopInv
  <2>1. /\ main \in Settling /\ main # "unmuting" /\ ~failed
        /\ \A s \in Sessions : thread[s] \in {"away", "listening"}
    BY DEF Settled, Settling, ListenersFree
  <2>2. AllAway
    BY <2>1, CountFacts DEF Counted, AllAway
  <2>3. ~MUTED /\ MutedFree
    BY <2>1, <2>2 DEF Owed, AllAway, MutedFree
  <2> QED
    BY <2>1, <2>2, <2>3 DEF Sound, AllAway
<1> QED
  BY <1>1, DesktopInvariant, PTL

(* While it works the microphone of a process is the only one of its name, *)
(* whatever earlier processes have left (pipesource.rs:42-45).             *)
THEOREM MicrophoneAlone == Spec => []OneMicrophone
<1>1. DesktopInv => OneMicrophone
  BY DEF DesktopInv, Loaded, OneMicrophone
<1> QED
  BY <1>1, DesktopInvariant, PTL

(* A process that ends in order takes its microphone with it               *)
(* (pipesource.rs:14-20, main.rs:37-39).                                   *)
THEOREM MicrophoneUnloaded == Spec => []ExitUnloads
<1>1. DesktopInv => ExitUnloads
  BY DEF DesktopInv, Loaded, Leaving, ExitUnloads
<1> QED
  BY <1>1, DesktopInvariant, PTL

(* A process that is stopped does not leave the desktop silent, save by a  *)
(* session that mutes as main restores, or later (speakers.rs:9-11).       *)
THEOREM BackstopHolds == Spec => []StopLeavesSound
<1>1. DesktopInv => StopLeavesSound
  BY DEF DesktopInv, Sound, StopLeavesSound
<1> QED
  BY <1>1, DesktopInvariant, PTL
=============================================================================
