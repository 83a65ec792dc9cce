-------------------------------- MODULE Client --------------------------------
(***************************************************************************)
(* A receiver once it has connected (client/src/lib.rs): its owner, which  *)
(* pulls audio through the pipeline, and the two threads it starts, one    *)
(* for the media and one, the keeper, for the control connection.  The     *)
(* owner is receiver/src/main.rs or the phone's audio thread, and the sink *)
(* what it writes to.  The phone may leak its client (AudioEngine.kt)      *)
(* instead of dropping it.                                                 *)
(*                                                                         *)
(* Of the sender there is what the keeper has to do with: it pings, hears  *)
(* the answers, and closes the connection when its client has been quiet   *)
(* for too long, says goodbye or is gone, or when the sender itself ends.  *)
(* A ping is a line that TCP may deliver in two parts.                     *)
(***************************************************************************)
EXTENDS Pipeline, Sequences

CONSTANTS
  SessionTimeout,   \* ticks of quiet after which the sender gives up
  MaxArrivals,      \* bound: datagrams waiting for the owner
  MaxPings,         \* bound: parts of pings waiting for the keeper
  Leaks             \* may the owner leak its client?

ASSUME ClientAssumption ==
  /\ SessionTimeout \in Nat /\ MaxArrivals \in Nat /\ MaxPings \in Nat
  /\ Leaks \in BOOLEAN

VARIABLES
  running,          \* Monitor.running
  owner,            \* where the owner is
  receiver,         \* where receive_datagrams is
  keeper,           \* where keep_session_alive is
  arrivals,         \* datagrams received and not yet taken by the owner
  sender,           \* the sender's end of the connection: "serving", "closed"
  quiet,            \* ticks since the sender last heard a line
  wire,             \* delivered to the keeper's socket
  halfway,          \* is the second part of a ping under way?
  pending,          \* LineReader.pending
  unanswered,       \* pings sent and not answered
  goodbye           \* has the keeper said goodbye?

threads == <<running, owner, receiver, keeper, arrivals>>
control == <<sender, quiet, wire, halfway, pending, unanswered, goodbye>>
vars == <<pipelineVars, threads, control>>

Ping == <<"head", "tail">>
Pings(n) == [i \in 1 .. 2 * n |-> IF i % 2 = 1 THEN "head" ELSE "tail"]

Init ==
  /\ PipelineInit
  /\ running = TRUE /\ owner = "connecting" /\ receiver = "none" /\ keeper = "none"
  /\ arrivals = 0
  /\ sender = "serving" /\ quiet = 0 /\ wire = <<>> /\ halfway = FALSE
  /\ pending = <<>> /\ unanswered = 0 /\ goodbye = FALSE

-----------------------------------------------------------------------------
(* The owner.                                                              *)

(* connect: the threads are started last, so that a connect that fails     *)
(* leaves none.                                                            *)
Connect ==
  /\ owner = "connecting"
  /\ \/ owner' = "opening" /\ receiver' = "turning" /\ keeper' = "turning"
     \/ owner' = "gone" /\ UNCHANGED <<receiver, keeper>>
  /\ UNCHANGED <<pipelineVars, running, arrivals, control>>

(* The device is opened once there is a client to play.                    *)
OpenSink ==
  /\ owner = "opening"
  /\ owner' \in {"looping", "leaving"}
  /\ UNCHANGED <<pipelineVars, running, receiver, keeper, arrivals, control>>

(* is_running, before each fill.  The user, or a limit, may also end it.   *)
Loop ==
  /\ owner = "looping"
  /\ \/ running /\ owner' = "draining"
     \/ owner' = "leaving"
  /\ UNCHANGED <<pipelineVars, running, receiver, keeper, arrivals, control>>

(* Client::fill takes what has arrived,                                    *)
TakeArrival ==
  /\ owner = "draining" /\ arrivals > 0
  /\ arrivals' = arrivals - 1
  /\ OnDatagram
  /\ UNCHANGED <<ready, position, ratio, updated, started, silence>>
  /\ UNCHANGED <<running, owner, receiver, keeper, control>>

(* until there is nothing more, or nobody left to receive more,            *)
Drained ==
  /\ owner = "draining" /\ arrivals = 0
  /\ running' = (running /\ receiver # "done")
  /\ owner' = "filling"
  /\ UNCHANGED <<pipelineVars, receiver, keeper, arrivals, control>>

FillPops ==
  /\ owner = "filling" /\ PopFrame
  /\ UNCHANGED <<threads, control>>

(* and publishes the statistics, which the keeper reports.                 *)
FillEnds ==
  /\ owner = "filling" /\ EndFill
  /\ owner' = "writing"
  /\ UNCHANGED <<running, receiver, keeper, arrivals, control>>

(* The sink takes the samples in its own time, or fails.                   *)
Write ==
  /\ owner = "writing"
  /\ owner' \in {"looping", "leaving"}
  /\ UNCHANGED <<pipelineVars, running, receiver, keeper, arrivals, control>>

(* Drop for Client: stop, and wait for both threads.                       *)
Drop ==
  /\ owner = "leaving"
  /\ owner' = "joining" /\ running' = FALSE
  /\ UNCHANGED <<pipelineVars, receiver, keeper, arrivals, control>>

Leak ==
  /\ owner = "leaving" /\ Leaks
  /\ owner' = "leaked"
  /\ UNCHANGED <<pipelineVars, running, receiver, keeper, arrivals, control>>

JoinsReceiver == receiver = "done"                                    \* mutant

Joins == receiver = "done" /\ keeper = "done"

Join ==
  /\ owner = "joining" /\ Joins
  /\ owner' = "gone"
  /\ UNCHANGED <<pipelineVars, running, receiver, keeper, arrivals, control>>

OwnerStep ==
  \/ Connect \/ OpenSink \/ Loop
  \/ TakeArrival \/ Drained \/ FillPops \/ FillEnds \/ Write
  \/ Drop \/ Leak \/ Join

-----------------------------------------------------------------------------
(* receive_datagrams.  Its send never fails: the owner drops its end of    *)
(* the channel only after the join.                                        *)
GoesOn(state) == IF running THEN state ELSE "done"

Arrive ==
  /\ receiver = "receiving" /\ arrivals < MaxArrivals
  /\ arrivals' = arrivals + 1
  /\ receiver' = "turning"
  /\ UNCHANGED <<pipelineVars, running, owner, keeper, control>>

(* The read times out, or what came is lost or does not open.              *)
ReceiveNothing ==
  /\ receiver = "receiving"
  /\ receiver' = "turning"
  /\ UNCHANGED <<pipelineVars, running, owner, keeper, arrivals, control>>

ReceiverTurn ==
  /\ receiver = "turning"
  /\ receiver' = GoesOn("receiving")
  /\ UNCHANGED <<pipelineVars, running, owner, keeper, arrivals, control>>

-----------------------------------------------------------------------------
(* keep_session_alive, with Session::poll and LineReader::read.            *)
HasLine == \E i \in DOMAIN pending : pending[i] = "tail"
LineEnd == CHOOSE i \in DOMAIN pending :
             pending[i] = "tail" /\ \A j \in 1 .. i - 1 : pending[j] # "tail"

(* A line that is a ping is answered, any other is passed over.            *)
TakeLine ==
  /\ keeper = "reading" /\ HasLine
  /\ pending' = SubSeq(pending, LineEnd + 1, Len(pending))
  /\ IF SubSeq(pending, 1, LineEnd) = Ping
     THEN \/ /\ sender = "serving" /\ keeper' = "turning"
             /\ unanswered' = unanswered - 1 /\ quiet' = 0
          \/ /\ sender = "closed" /\ keeper' \in {"turning", "ending"}
             /\ UNCHANGED <<unanswered, quiet>>
     ELSE keeper' = "turning" /\ UNCHANGED <<unanswered, quiet>>
  /\ UNCHANGED <<pipelineVars, running, owner, receiver, arrivals, sender, wire,
                 halfway, goodbye>>

ReadChunk ==
  /\ keeper = "reading" /\ ~HasLine /\ wire # <<>>
  /\ pending' = pending \o wire
  /\ wire' = <<>>
  /\ UNCHANGED <<pipelineVars, threads, sender, quiet, halfway, unanswered, goodbye>>

Forgotten == <<>>                                                     \* mutant

(* What is kept when a read times out in the midst of a line.              *)
KeptWhenIdle == pending

ReadIdle ==
  /\ keeper = "reading" /\ ~HasLine /\ wire = <<>> /\ sender = "serving"
  /\ keeper' = "turning"
  /\ pending' = KeptWhenIdle
  /\ UNCHANGED <<pipelineVars, running, owner, receiver, arrivals, sender, quiet, wire,
                 halfway, unanswered, goodbye>>

(* The connection is closed, or broken.                                    *)
ReadEnds ==
  /\ keeper = "reading" /\ ~HasLine /\ sender = "closed"
  /\ keeper' = "ending"
  /\ UNCHANGED <<pipelineVars, running, owner, receiver, arrivals, control>>

(* A report of the statistics, now and then, which is a line like any other*)
(* to the sender.                                                          *)
KeeperTurn ==
  /\ keeper = "turning"
  /\ keeper' = IF running THEN "reading" ELSE "ending"
  /\ \/ UNCHANGED quiet
     \/ sender = "serving" /\ quiet' = 0
  /\ UNCHANGED <<pipelineVars, running, owner, receiver, arrivals, sender, wire,
                 halfway, pending, unanswered, goodbye>>

RunsOn == running                                                     \* mutant

Stopped == FALSE

KeeperEnds ==
  /\ keeper = "ending" /\ keeper' = "done"
  /\ running' = Stopped
  /\ goodbye' = TRUE
  /\ UNCHANGED <<pipelineVars, owner, receiver, arrivals, sender, quiet, wire, halfway,
                 pending, unanswered>>

KeeperStep == TakeLine \/ ReadChunk \/ ReadIdle \/ ReadEnds \/ KeeperTurn \/ KeeperEnds

-----------------------------------------------------------------------------
(* The sender.                                                             *)
Tick ==
  /\ sender = "serving" /\ keeper # "none" /\ ~halfway
  /\ quiet <= SessionTimeout /\ Len(wire) + 2 <= MaxPings
  /\ quiet' = quiet + 1
  /\ \/ wire' = wire \o Ping /\ UNCHANGED halfway
     \/ wire' = Append(wire, "head") /\ halfway' = TRUE
  /\ unanswered' = unanswered + 1
  /\ UNCHANGED <<pipelineVars, threads, sender, pending, goodbye>>

(* The rest of a ping comes, sooner or later.                              *)
Rest ==
  /\ halfway
  /\ halfway' = FALSE /\ wire' = Append(wire, "tail")
  /\ UNCHANGED <<pipelineVars, threads, sender, quiet, pending, unanswered, goodbye>>

Close ==
  /\ sender' = "closed"
  /\ UNCHANGED <<pipelineVars, threads, quiet, wire, halfway, pending, unanswered,
                 goodbye>>

(* The client is quiet for too long; it says goodbye; it never came to be. *)
Reap == sender = "serving" /\ quiet > SessionTimeout /\ Close
HearGoodbye == sender = "serving" /\ goodbye /\ Close
NeverCame == sender = "serving" /\ owner = "gone" /\ keeper = "none" /\ Close

SenderStops == sender = "serving" /\ Close

SenderStep == Tick \/ Rest \/ Reap \/ HearGoodbye \/ NeverCame

Next ==
  \/ OwnerStep
  \/ Arrive \/ ReceiveNothing \/ ReceiverTurn
  \/ KeeperStep
  \/ SenderStep \/ SenderStops

(* The threads run, the sink consumes, and time passes; nothing makes a    *)
(* packet arrive, its user stop the client or the sender end.              *)
Spec ==
  /\ Init /\ [][Next]_vars
  /\ WF_vars(OwnerStep) /\ WF_vars(ReceiveNothing \/ ReceiverTurn)
  /\ WF_vars(KeeperStep) /\ WF_vars(SenderStep)

-----------------------------------------------------------------------------
Types ==
  /\ PipelineTypes
  /\ running \in BOOLEAN
  /\ owner \in {"connecting", "opening", "looping", "draining", "filling", "writing",
                "leaving", "joining", "gone", "leaked"}
  /\ receiver \in {"none", "receiving", "turning", "done"}
  /\ keeper \in {"none", "reading", "turning", "ending", "done"}
  /\ arrivals \in 0 .. MaxArrivals
  /\ sender \in {"serving", "closed"} /\ quiet \in 0 .. SessionTimeout + 1
  /\ wire \in Seq({"head", "tail"}) /\ pending \in Seq({"head", "tail"})
  /\ halfway \in BOOLEAN /\ unanswered \in Nat /\ goodbye \in BOOLEAN

(* What a fill leaves over is less than a frame becomes, so that the       *)
(* scratch buffers stop growing: fill "never allocates once the scratch    *)
(* buffers have grown" (pipeline.rs:149-151).                              *)
LeftoverBounded ==
  /\ position < Unit + MaxCorrection
  /\ ready < (IF owner = "filling" THEN Output ELSE 0) + MaxEmitted

TypeOK == Types /\ LeftoverBounded

(* A client that is gone has left no thread behind, and its sender has     *)
(* been told (lib.rs:184-191, 238-258).                                    *)
NothingOutlivesClient ==
  owner = "gone" =>
    /\ receiver = keeper /\ keeper \in {"none", "done"}
    /\ keeper = "done" => goodbye /\ ~running

(* What the keeper has still to read is the pings it has not answered, each*)
(* of them whole and in order, wherever a timeout has fallen: reading goes *)
(* on "without losing bytes when a timeout lands mid-message"              *)
(* (lines.rs:1-2).                                                         *)
PingsKept ==
  sender = "serving" =>
    pending \o wire \o (IF halfway THEN <<"tail">> ELSE <<>>) = Pings(unanswered)

(* Whichever side stops, everything stops: the owner leaves its loop, both *)
(* threads end and the sender lets the session go (lib.rs:238).            *)
Over ==
  /\ owner \in {"gone", "leaked"} /\ sender = "closed"
  /\ receiver \in {"none", "done"} /\ keeper \in {"none", "done"}

StopSpreads == (sender = "closed" \/ ~running) ~> Over

(* A leaked session does not stay for ever: "Leaking one session is the    *)
(* lesser fault; the sender reaps it when the keepalive times out."        *)
(* (AudioEngine.kt:134-136).                                               *)
LeakedIsReaped == owner = "leaked" ~> sender = "closed"
=============================================================================
