------------------------------- MODULE Sessions -------------------------------
(***************************************************************************)
(* The control channel: the handlers and the registry of the sender        *)
(* (player/src/control.rs, registry.rs, the punch listener of relay.rs)    *)
(* and the clients (client/src/session.rs and keep_session_alive of        *)
(* lib.rs).  A client is one attempt to connect; a phone that reconnects is*)
(* another client.                                                         *)
(*                                                                         *)
(* TCP is a queue each way, ended by a close; a client may also fall silent*)
(* without one (a phone that leaves the network).  The one UDP punch may be*)
(* lost, delayed or duplicated.  A tick of the clock is one PING_INTERVAL; *)
(* whatever the threads can do at once they do before the next tick.       *)
(***************************************************************************)
EXTENDS Naturals, Sequences

CONSTANTS
  Clients,
  Trusted,          \* clients that present the pairing token
  SessionTimeout,   \* SESSION_TIMEOUT, in ticks
  PunchTimeout      \* PUNCH_TIMEOUT, in ticks

ASSUME SessionsAssumption ==
  /\ Trusted \subseteq Clients
  /\ SessionTimeout \in Nat /\ PunchTimeout \in Nat
  /\ SessionTimeout > 0 /\ PunchTimeout > 0

VARIABLES
  handler,          \* client -> where its handler thread is
  media,            \* client -> its registry entry: "none", "unknown" address, "known"
  signal,           \* clients whose punch their handler has been sent
  quiet,            \* client -> ticks since its handler began to wait or heard a line
  pingDue,          \* clients to be pinged
  client,           \* client -> where its control thread is
  waited,           \* client -> ticks since it began to wait for a reply
  reported,         \* clients that sent their statistics in this tick
  toServer,         \* client -> lines on their way to the handler
  toClient,         \* client -> lines on their way to the client
  punched,          \* clients whose punch is under way
  down              \* has the sender's process ended?

serverVars == <<handler, media, signal, quiet, pingDue>>
clientVars == <<client, waited, reported>>
wires == <<toServer, toClient>>
vars == <<serverVars, clientVars, wires, punched, down>>

Connecting == {"accepting", "punching"}
Alive == Connecting \cup {"playing"}
Waiting == {"hello", "punch", "serving"}
Open == {"opened", "punch", "serving", "closing"}

Init ==
  /\ handler = [c \in Clients |-> "none"]
  /\ media = [c \in Clients |-> "none"]
  /\ signal = {}
  /\ quiet = [c \in Clients |-> 0]
  /\ pingDue = {}
  /\ client = [c \in Clients |-> "idle"]
  /\ waited = [c \in Clients |-> 0]
  /\ reported = {}
  /\ toServer = [c \in Clients |-> <<>>]
  /\ toClient = [c \in Clients |-> <<>>]
  /\ punched = {}
  /\ down = FALSE

-----------------------------------------------------------------------------
At(pc, c, state) == pc' = [pc EXCEPT ![c] = state]
Reset(ages, c) == ages' = [ages EXCEPT ![c] = 0]

(* The handler's side of a connection is closed when handle returns, the   *)
(* client's when its process or its session ends.                          *)
ServerClosed(c) == down \/ handler[c] = "done"
ClientClosed(c) == client[c] = "left"

Receives(wire, c, line) ==
  /\ wire[c] # <<>> /\ Head(wire[c]) = line
  /\ wire' = [wire EXCEPT ![c] = Tail(@)]

(* Nobody reads what is sent to an end that is gone.                       *)
Send(wire, c, line, gone) ==
  wire' = IF gone THEN wire ELSE [wire EXCEPT ![c] = Append(@, line)]
ToServer(c, line) == Send(toServer, c, line, ServerClosed(c))
ToClient(c, line) == Send(toClient, c, line, client[c] \in {"left", "silent"})

-----------------------------------------------------------------------------
(* The client.                                                             *)

(* connect, up to the hello, unless it goes before it has said that.       *)
Connect(c) ==
  /\ client[c] = "idle" /\ ~down
  /\ \/ At(client, c, "accepting") /\ toServer' = [toServer EXCEPT ![c] = <<"hello">>]
     \/ \E gone \in {"left", "silent"} : At(client, c, gone) /\ UNCHANGED toServer
  /\ At(handler, c, "hello")
  /\ UNCHANGED <<media, signal, quiet, pingDue, waited, reported, toClient, punched, down>>

(* The accept names the session; the client punches once, and waits.       *)
Accepted(c) ==
  /\ client[c] = "accepting" /\ Receives(toClient, c, "accept")
  /\ At(client, c, "punching")
  /\ Reset(waited, c)
  /\ punched' = punched \cup {c}
  /\ UNCHANGED <<serverVars, reported, toServer, down>>

Readied(c) ==
  /\ client[c] = "punching" /\ Receives(toClient, c, "ready")
  /\ At(client, c, "playing")
  /\ Reset(waited, c)
  /\ UNCHANGED <<serverVars, reported, toServer, punched, down>>

(* The client ends, with all that was kept for it.                         *)
Ends(c, state) ==
  /\ At(client, c, state)
  /\ Reset(waited, c)
  /\ reported' = reported \ {c}
  /\ toClient' = [toClient EXCEPT ![c] = <<>>]
Leaves(c) == Ends(c, "left") /\ UNCHANGED <<serverVars, toServer, punched, down>>

(* expect fails: rejected, or no reply in time.                            *)
ConnectFails(c) ==
  /\ client[c] \in Connecting
  /\ \/ toClient[c] # <<>> /\ Head(toClient[c]) = "error"
     \/ toClient[c] = <<>> /\ waited[c] >= PunchTimeout
  /\ Leaves(c)

FindsClosedConnecting(c) ==                                           \* mutant
  client[c] \in Connecting /\ toClient[c] = <<>> /\ ServerClosed(c) /\ Leaves(c)

(* A reader finds the connection closed once it has read what came before. *)
FindsClosed(c) ==
  client[c] \in Alive /\ toClient[c] = <<>> /\ ServerClosed(c) /\ Leaves(c)

(* poll.                                                                   *)
AnswerPing(c) ==
  /\ client[c] = "playing" /\ Receives(toClient, c, "ping")
  /\ ToServer(c, "pong")
  /\ UNCHANGED <<serverVars, clientVars, punched, down>>

(* report, less often than once a tick.                                    *)
Report(c) ==
  /\ client[c] = "playing" /\ c \notin reported
  /\ ToServer(c, "stats")
  /\ reported' = reported \cup {c}
  /\ UNCHANGED <<serverVars, client, waited, toClient, punched, down>>

(* Stopped by its user: say_goodbye, then the session is dropped.          *)
SayGoodbye(c) ==
  /\ client[c] = "playing"
  /\ Ends(c, "left")
  /\ ToServer(c, "bye")
  /\ UNCHANGED <<serverVars, punched, down>>

(* Killed, or unable to play what it was offered: the connection closes.   *)
Killed(c) == client[c] \in Alive /\ Leaves(c)

(* Off the network, or suspended: nothing more comes from it.              *)
FallSilent(c) ==
  /\ client[c] \in Alive
  /\ Ends(c, "silent")
  /\ UNCHANGED <<serverVars, toServer, punched, down>>

ClientStep(c) ==
  Accepted(c) \/ Readied(c) \/ ConnectFails(c) \/ FindsClosed(c) \/ AnswerPing(c)

-----------------------------------------------------------------------------
(* The handler of a connection.                                            *)

(* handle: a hello with the right token opens a session.                   *)
ReadHello(c) ==
  /\ handler[c] = "hello" /\ Receives(toServer, c, "hello")
  /\ IF c \in Trusted
     THEN /\ At(handler, c, "opened")
          /\ media' = [media EXCEPT ![c] = "unknown"]
          /\ UNCHANGED toClient
     ELSE /\ At(handler, c, "done")
          /\ ToClient(c, "error")
          /\ UNCHANGED media
  /\ UNCHANGED <<signal, quiet, pingDue, clientVars, punched, down>>

(* read_hello ends without one.                                            *)
NoHello(c) ==
  /\ handler[c] = "hello" /\ toServer[c] = <<>>
  /\ ClientClosed(c) \/ quiet[c] >= SessionTimeout
  /\ At(handler, c, "done")
  /\ UNCHANGED <<media, signal, quiet, pingDue, clientVars, wires, punched, down>>

(* A write to a client that has closed may fail, and ends the session.     *)
WriteFails(c) ==
  /\ ClientClosed(c)
  /\ At(handler, c, "closing")
  /\ UNCHANGED <<quiet, toClient>>

(* run_session, up to the accept.                                          *)
SendAccept(c) ==
  /\ handler[c] = "opened"
  /\ \/ At(handler, c, "punch") /\ ToClient(c, "accept") /\ Reset(quiet, c) /\ UNCHANGED pingDue
     \/ WriteFails(c) /\ UNCHANGED pingDue
  /\ UNCHANGED <<media, signal, clientVars, toServer, punched, down>>

Ready(c) ==
  /\ \/ At(handler, c, "serving") /\ ToClient(c, "ready") /\ Reset(quiet, c) /\ UNCHANGED pingDue
     \/ WriteFails(c) /\ UNCHANGED pingDue
  /\ signal' = signal \ {c}
  /\ UNCHANGED <<media, clientVars, toServer, punched, down>>

ReadyUnpunched(c) == handler[c] = "punch" /\ Ready(c)                 \* mutant

(* The punch has come.                                                     *)
SendReady(c) == handler[c] = "punch" /\ c \in signal /\ Ready(c)

(* While it waits for the punch the handler does not read its connection.  *)
PunchOverdue(c) ==
  /\ handler[c] = "punch" /\ c \notin signal /\ quiet[c] >= PunchTimeout
  /\ At(handler, c, "closing")
  /\ UNCHANGED <<media, signal, quiet, pingDue, clientVars, wires, punched, down>>

EndTurnUntimed(c, q) ==                                               \* mutant
  /\ pingDue' = pingDue \ {c}
  /\ quiet' = [quiet EXCEPT ![c] = q]
  /\ IF c \in pingDue THEN ToClient(c, "ping") ELSE UNCHANGED toClient
  /\ UNCHANGED handler

(* The end of a turn of the serving loop, with the time since the last line*)
(* at q: give the client up, or ping it when a ping is due.                *)
EndTurn(c, q) ==
  /\ pingDue' = pingDue \ {c}
  /\ \/ /\ q > SessionTimeout
        /\ At(handler, c, "closing")
        /\ UNCHANGED <<quiet, toClient>>
     \/ /\ q <= SessionTimeout
        /\ quiet' = [quiet EXCEPT ![c] = q]
        /\ IF c \in pingDue THEN ToClient(c, "ping") ELSE UNCHANGED toClient
        /\ UNCHANGED handler
     \/ q <= SessionTimeout /\ c \in pingDue /\ WriteFails(c)

OnlyStats(c, line) == IF line = "stats" THEN 0 ELSE quiet[c]          \* mutant

(* Any line counts as a sign of life.                                      *)
QuietAfter(c, line) == 0

ServeLine(c) ==
  /\ handler[c] = "serving"
  /\ \E line \in {"pong", "stats"} :
       Receives(toServer, c, line) /\ EndTurn(c, QuietAfter(c, line))
  /\ UNCHANGED <<media, signal, clientVars, punched, down>>

ServeIdle(c) ==
  /\ handler[c] = "serving" /\ toServer[c] = <<>> /\ ~ClientClosed(c)
  /\ c \in pingDue
  /\ EndTurn(c, quiet[c])
  /\ UNCHANGED <<media, signal, clientVars, toServer, punched, down>>

(* A bye, or the end of the connection.                                    *)
ServeEnd(c) ==
  /\ handler[c] = "serving"
  /\ \/ Receives(toServer, c, "bye")
     \/ toServer[c] = <<>> /\ ClientClosed(c) /\ UNCHANGED toServer
  /\ At(handler, c, "closing")
  /\ pingDue' = pingDue \ {c}
  /\ UNCHANGED <<media, signal, quiet, clientVars, toClient, punched, down>>

Forgetful(c) == media                                                 \* mutant

(* The registry without the session of c.                                  *)
Without(c) == [media EXCEPT ![c] = "none"]

(* However run_session ended, the session is closed.                       *)
Close(c) ==
  /\ handler[c] = "closing"
  /\ At(handler, c, "done")
  /\ media' = Without(c)
  /\ signal' = signal \ {c}
  /\ Reset(quiet, c)
  /\ toServer' = [toServer EXCEPT ![c] = <<>>]
  /\ UNCHANGED <<pingDue, clientVars, toClient, punched, down>>

HandlerStep(c) ==
  /\ ~down
  /\ \/ ReadHello(c) \/ NoHello(c) \/ SendAccept(c) \/ SendReady(c) \/ PunchOverdue(c)
     \/ ServeLine(c) \/ ServeIdle(c) \/ ServeEnd(c) \/ Close(c)

-----------------------------------------------------------------------------
Resurrecting(c) == TRUE                                               \* mutant

(* attach_media takes a punch only for a session it knows.                 *)
Known(c) == media[c] # "none"

(* The punch listener: the first punch of a session wakes its handler.     *)
PunchArrives(c) ==
  /\ ~down /\ c \in punched
  /\ Known(c)
  /\ media' = [media EXCEPT ![c] = "known"]
  /\ signal' = IF media[c] = "unknown" THEN signal \cup {c} ELSE signal
  /\ UNCHANGED <<handler, quiet, pingDue, clientVars, wires, punched, down>>

(* The sender's process ends.                                              *)
ServerStops ==
  /\ ~down /\ down' = TRUE
  /\ handler' = [c \in Clients |-> "done"]
  /\ media' = [c \in Clients |-> "none"]
  /\ toServer' = [c \in Clients |-> <<>>]
  /\ signal' = {} /\ pingDue' = {}
  /\ UNCHANGED <<quiet, clientVars, toClient, punched>>

(* A thread that has something to do does it before the next tick.         *)
ClientBusy(c) ==
  /\ client[c] \in Alive
  /\ \/ toClient[c] # <<>> \/ ServerClosed(c)
     \/ client[c] \in Connecting /\ waited[c] >= PunchTimeout
HandlerBusy(c) ==
  /\ ~down
  /\ \/ handler[c] \in {"opened", "closing"}
     \/ handler[c] \in {"hello", "serving"} /\ (toServer[c] # <<>> \/ ClientClosed(c))
     \/ handler[c] = "hello" /\ quiet[c] >= SessionTimeout
     \/ handler[c] = "punch" /\ (c \in signal \/ quiet[c] >= PunchTimeout)
     \/ handler[c] = "serving" /\ c \in pingDue

Aged(ages, pc, waits) == [c \in Clients |-> IF pc[c] \in waits THEN ages[c] + 1 ELSE ages[c]]

Tick ==
  /\ \A c \in Clients : ~ClientBusy(c) /\ ~HandlerBusy(c)
  /\ ~down
  /\ quiet' = Aged(quiet, handler, Waiting)
  /\ pingDue' = {c \in Clients : handler[c] = "serving"}
  /\ waited' = Aged(waited, client, Connecting)
  /\ reported' = {}
  /\ UNCHANGED <<handler, media, signal, client, wires, punched, down>>

Next ==
  \/ \E c \in Clients :
       \/ Connect(c) \/ Accepted(c) \/ Readied(c) \/ ConnectFails(c) \/ FindsClosed(c)
       \/ AnswerPing(c) \/ Report(c) \/ SayGoodbye(c) \/ Killed(c) \/ FallSilent(c)
       \/ HandlerStep(c) \/ PunchArrives(c)
  \/ ServerStops
  \/ Tick

(* The threads run and time passes; nothing makes a user act, a packet     *)
(* arrive or a phone leave.                                                *)
Spec ==
  /\ Init /\ [][Next]_vars
  /\ \A c \in Clients : WF_vars(ClientStep(c)) /\ WF_vars(HandlerStep(c))
  /\ WF_vars(Tick)

-----------------------------------------------------------------------------
Handlers == {"none", "hello", "done"} \cup Open
ToServerLines == {"hello", "pong", "stats", "bye"}
ToClientLines == {"accept", "ready", "ping", "error"}

Types ==
  /\ handler \in [Clients -> Handlers]
  /\ media \in [Clients -> {"none", "unknown", "known"}]
  /\ signal \subseteq Clients /\ pingDue \subseteq Clients
  /\ reported \subseteq Clients /\ punched \subseteq Clients
  /\ client \in [Clients -> {"idle", "left", "silent"} \cup Alive]
  /\ quiet \in [Clients -> Nat] /\ waited \in [Clients -> Nat]
  /\ toServer \in [Clients -> Seq(ToServerLines)]
  /\ toClient \in [Clients -> Seq(ToClientLines)]
  /\ down \in BOOLEAN

NoWaitOverruns(c) ==
  /\ waited[c] <= PunchTimeout
  /\ handler[c] = "hello" => quiet[c] <= SessionTimeout
  /\ handler[c] = "punch" => quiet[c] <= PunchTimeout
  /\ handler[c] = "serving" => quiet[c] <= SessionTimeout + 1

TypeOK == Types /\ \A c \in Clients : NoWaitOverruns(c)

(* The registry holds a client exactly while a handler of its connection   *)
(* lives, however the session ends and however late a punch comes          *)
(* (registry.rs:49-68, control.rs:88-90).                                  *)
EntryOutlivesNothing ==
  \A c \in Clients : media[c] # "none" <=> (handler[c] \in Open /\ ~down)

(* A client that has connected is being sent media: its address is known   *)
(* and its handler serves it, unless the sender is gone (lib.rs:76-77).    *)
PlayingIsServed ==
  \A c \in Clients :
    client[c] = "playing" /\ ~down => handler[c] = "serving" /\ media[c] = "known"

(* When the sender ends, every client that can hear of it stops, so that   *)
(* none plays on into silence (lib.rs:238-258).                            *)
StopReachesClients == \A c \in Clients : down ~> client[c] \notin Alive

(* What is promised of membership: nobody is admitted without the token,   *)
(* nobody who listens is dropped while it is there, and who departs is     *)
(* dropped (control.rs:108-168, registry.rs).                              *)
Phase(c) ==
  CASE down \/ handler[c] \in {"closing", "done"} -> "removed"
    [] ~down /\ handler[c] \in {"none", "hello"} -> "outside"
    [] ~down /\ handler[c] \in {"opened", "punch"} -> "admitted"
    [] ~down /\ handler[c] = "serving" -> "listening"

Abstract == INSTANCE Membership WITH
  phase <- [c \in Clients |-> Phase(c)],
  departed <- {c \in Clients : client[c] \in {"left", "silent"}},
  stopped <- down

ImplementsMembership == Abstract!Spec
=============================================================================
