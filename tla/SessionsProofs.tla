---------------------------- MODULE SessionsProofs ----------------------------
(***************************************************************************)
(* Proofs about Sessions, for every set of clients and every timeout.      *)
(***************************************************************************)
EXTENDS Sessions, TLAPS

(* The registry and the handler of a client agree.                         *)
Registered(c) ==
  /\ media[c] # "none" <=> handler[c] \in Open
  /\ c \in signal => media[c] = "known" /\ c \in punched
  /\ client[c] \in {"idle", "accepting"} => c \notin punched
  /\ handler[c] = "serving" => media[c] = "known"
  /\ down => handler[c] = "done"

(* What a handler has waited, and whom it is about to ping.                *)
Timed(c) ==
  /\ handler[c] = "none" => quiet[c] = 0
  /\ c \in pingDue => handler[c] = "serving"
  /\ handler[c] = "serving" /\ quiet[c] > SessionTimeout => c \in pingDue

(* While the sender runs, where a client is tells where its handler is and *)
(* what is on the way between them.                                        *)
IdleOk(c) == handler[c] = "none" /\ toClient[c] = <<>>
AcceptingOk(c) ==
  \/ handler[c] = "hello" /\ toServer[c] = <<"hello">> /\ toClient[c] = <<>>
  \/ handler[c] = "opened" /\ toServer[c] = <<>> /\ toClient[c] = <<>>
  \/ handler[c] = "punch" /\ toServer[c] = <<>> /\ toClient[c] = <<"accept">> /\ quiet[c] = 0
  \/ handler[c] = "done" /\ toClient[c] = <<"error">>
PunchingOk(c) ==
  /\ toServer[c] = <<>>
  /\ \/ handler[c] \in {"punch", "closing", "done"} /\ toClient[c] = <<>>
     \/ handler[c] = "serving" /\ toClient[c] = <<"ready">> /\ quiet[c] = 0 /\ c \notin pingDue
PlayingOk(c) ==
  /\ handler[c] = "serving"
  /\ toServer[c] \in Seq({"pong", "stats"}) /\ toClient[c] \in Seq({"ping"})
  /\ quiet[c] <= 1
  /\ quiet[c] = 1 => c \in pingDue \/ toClient[c] # <<>> \/ toServer[c] # <<>>
InStep(c) ==
  ~down =>
    /\ client[c] = "idle" => IdleOk(c)
    /\ client[c] = "accepting" => AcceptingOk(c)
    /\ client[c] = "punching" => PunchingOk(c)
    /\ client[c] = "playing" => PlayingOk(c)

Local(c) == NoWaitOverruns(c) /\ Registered(c) /\ Timed(c) /\ InStep(c)

SessInv == Types /\ \A c \in Clients : Local(c)
-----------------------------------------------------------------------------
LEMMA Singles ==
  ASSUME NEW S, NEW x \in S
  PROVE  /\ <<x>> \in Seq(S) /\ <<x>> # <<>>
         /\ Head(<<x>>) = x /\ Tail(<<x>>) = <<>> /\ Append(<<>>, x) = <<x>>
  OBVIOUS

LEMMA Queues ==
  ASSUME NEW S, NEW q \in Seq(S), NEW x \in S
  PROVE  /\ Append(q, x) \in Seq(S) /\ Append(q, x) # <<>>
         /\ q # <<>> => Head(q) \in S /\ Tail(q) \in Seq(S)
  OBVIOUS

LEMMA EmptyQueue == ASSUME NEW S PROVE <<>> \in Seq(S)
  OBVIOUS

(* A step of one client leaves what is known of the others.                *)
Others(c) ==
  /\ down' = down
  /\ \A d \in Clients \ {c} :
       /\ handler'[d] = handler[d] /\ media'[d] = media[d]
       /\ d \in signal' <=> d \in signal
       /\ d \in pingDue' <=> d \in pingDue
       /\ d \in punched' <=> d \in punched
       /\ quiet'[d] = quiet[d] /\ waited'[d] = waited[d] /\ client'[d] = client[d]
       /\ toServer'[d] = toServer[d] /\ toClient'[d] = toClient[d]

LEMMA OthersKeep ==
  ASSUME SessInv, NEW c \in Clients, Others(c), Types', Local(c)'
  PROVE  SessInv'
<1> SUFFICES ASSUME NEW d \in Clients, d # c
             PROVE  Local(d)'
  BY DEF SessInv
<1>1. Local(d)
  BY DEF SessInv
<1>2. NoWaitOverruns(d)' /\ Registered(d)' /\ Timed(d)'
  BY <1>1 DEF Others, Local, NoWaitOverruns, Registered, Timed
<1>3. InStep(d)'
  BY <1>1 DEF Others, Local, InStep, IdleOk, AcceptingOk, PunchingOk, PlayingOk
<1> QED
  BY <1>2, <1>3 DEF Local

LEMMA InitSess == Init => SessInv
<1> SUFFICES ASSUME Init
             PROVE  SessInv
  OBVIOUS
<1>1. Types
  BY EmptyQueue DEF Init, Types, Handlers
<1>2. ASSUME NEW c \in Clients
      PROVE  Local(c)
  BY SessionsAssumption
  DEF Init, Local, NoWaitOverruns, Registered, Timed, InStep, IdleOk, Open
<1> QED
  BY <1>1, <1>2 DEF SessInv

-----------------------------------------------------------------------------
LEMMA ConnectStep ==
  ASSUME SessInv, NEW c \in Clients, Connect(c)
  PROVE  SessInv'
<1>1. /\ Types /\ ~down
      /\ handler[c] = "none" /\ client[c] = "idle" /\ toClient[c] = <<>> /\ quiet[c] = 0
      /\ media[c] = "none" /\ c \notin signal /\ c \notin pingDue /\ c \notin punched
      /\ waited[c] <= PunchTimeout
  BY DEF SessInv, Local, Registered, Timed, InStep, IdleOk, NoWaitOverruns, Connect, Open, Types
<1>2. /\ handler' = [handler EXCEPT ![c] = "hello"]
      /\ client'[c] \in {"accepting", "left", "silent"}
      /\ client'[c] = "accepting" => toServer'[c] = <<"hello">>
      /\ UNCHANGED <<media, signal, quiet, pingDue, waited, reported, toClient, punched, down>>
  BY <1>1 DEF Connect, At, Types
<1>3. Types'
  <2>1. <<"hello">> \in Seq(ToServerLines)
    BY Singles DEF ToServerLines
  <2>2. toServer' \in [Clients -> Seq(ToServerLines)]
    BY <1>1, <2>1 DEF Connect, Types
  <2>3. /\ handler' \in [Clients -> Handlers]
        /\ client' \in [Clients -> {"idle", "left", "silent"} \cup Alive]
    BY <1>1 DEF Connect, At, Types, Handlers, Alive, Connecting
  <2> QED
    BY <1>1, <1>2, <2>2, <2>3 DEF Types
<1>4. Others(c)
  BY <1>1 DEF Connect, At, Others, Types
<1>5. (NoWaitOverruns(c) /\ Timed(c))'
  BY <1>1, <1>2, SessionsAssumption DEF NoWaitOverruns, Timed, Types
<1>6. (Registered(c) /\ InStep(c))'
  BY <1>1, <1>2 DEF Registered, InStep, AcceptingOk, Open, Types
<1> QED
  BY <1>3, <1>4, <1>5, <1>6, OthersKeep DEF Local

LEMMA AcceptedStep ==
  ASSUME SessInv, NEW c \in Clients, Accepted(c)
  PROVE  SessInv'
<1>1. Types /\ Local(c)
  BY DEF SessInv
<1>2. /\ client[c] = "accepting" /\ toClient[c] # <<>> /\ Head(toClient[c]) = "accept"
      /\ client' = [client EXCEPT ![c] = "punching"]
      /\ waited' = [waited EXCEPT ![c] = 0]
      /\ toClient' = [toClient EXCEPT ![c] = Tail(@)]
      /\ punched' = punched \cup {c}
      /\ UNCHANGED <<handler, media, signal, quiet, pingDue, reported, toServer, down>>
  BY DEF Accepted, At, Receives, Reset, serverVars
<1>3. Types'
  BY <1>1, <1>2, Queues DEF Types, Alive, Connecting
<1>4. Others(c)
  BY <1>1, <1>2 DEF Others, Types
<1>5. ASSUME ~down
      PROVE  handler[c] = "punch" /\ toServer[c] = <<>> /\ toClient[c] = <<"accept">>
  BY <1>1, <1>2, <1>5, Singles DEF Local, InStep, AcceptingOk
<1>6. /\ ~down => toClient'[c] = <<>>
      /\ client'[c] = "punching" /\ waited'[c] = 0
  BY <1>1, <1>2, <1>5, Singles DEF Types
<1>7. InStep(c)'
  BY <1>2, <1>5, <1>6 DEF InStep, PunchingOk
<1>8. (NoWaitOverruns(c) /\ Registered(c) /\ Timed(c))'
  BY <1>1, <1>2, <1>6, SessionsAssumption DEF Local, NoWaitOverruns, Registered, Timed
<1>9. Local(c)'
  BY <1>7, <1>8 DEF Local
<1> QED
  BY <1>3, <1>4, <1>9, OthersKeep

LEMMA ReadiedStep ==
  ASSUME SessInv, NEW c \in Clients, Readied(c)
  PROVE  SessInv'
<1>1. Types /\ Local(c)
  BY DEF SessInv
<1>2. /\ client[c] = "punching" /\ toClient[c] # <<>> /\ Head(toClient[c]) = "ready"
      /\ client' = [client EXCEPT ![c] = "playing"]
      /\ waited' = [waited EXCEPT ![c] = 0]
      /\ toClient' = [toClient EXCEPT ![c] = Tail(@)]
      /\ UNCHANGED <<handler, media, signal, quiet, pingDue, reported, toServer, punched, down>>
  BY DEF Readied, At, Receives, Reset, serverVars
<1>3. Types'
  BY <1>1, <1>2, Queues DEF Types, Alive, Connecting
<1>4. Others(c)
  BY <1>1, <1>2 DEF Others, Types
<1>5. ASSUME ~down
      PROVE  /\ handler[c] = "serving" /\ toServer[c] = <<>> /\ toClient[c] = <<"ready">>
             /\ quiet[c] = 0
  BY <1>1, <1>2, <1>5 DEF Local, InStep, PunchingOk
<1>6. /\ ~down => toClient'[c] = <<>>
      /\ client'[c] = "playing" /\ waited'[c] = 0
  BY <1>1, <1>2, <1>5, Singles DEF Types
<1>7. InStep(c)'
  <2>1. <<>> \in Seq({"pong", "stats"}) /\ <<>> \in Seq({"ping"})
    BY EmptyQueue
  <2>2. ASSUME ~down
        PROVE  /\ handler'[c] = "serving" /\ toServer'[c] = <<>> /\ toClient'[c] = <<>>
               /\ quiet'[c] <= 1 /\ quiet'[c] # 1
    BY <1>2, <1>5, <1>6, <2>2
  <2>3. ~down => PlayingOk(c)'
    BY <2>1, <2>2 DEF PlayingOk
  <2> QED
    BY <1>2, <1>6, <2>3 DEF InStep
<1>8. (NoWaitOverruns(c) /\ Registered(c) /\ Timed(c))'
  BY <1>1, <1>2, <1>6, SessionsAssumption DEF Local, NoWaitOverruns, Registered, Timed
<1>9. Local(c)'
  BY <1>7, <1>8 DEF Local
<1> QED
  BY <1>3, <1>4, <1>9, OthersKeep

(* However a client ends, nothing is asked of it any more.                 *)
LEMMA EndsStep ==
  ASSUME SessInv, NEW c \in Clients, NEW state \in {"left", "silent"}, Ends(c, state),
         UNCHANGED <<serverVars, punched, down>>,
         toServer' \in [Clients -> Seq(ToServerLines)],
         \A d \in Clients \ {c} : toServer'[d] = toServer[d]
  PROVE  SessInv'
<1>1. Types /\ Local(c)
  BY DEF SessInv
<1>2. /\ client' = [client EXCEPT ![c] = state]
      /\ waited' = [waited EXCEPT ![c] = 0]
      /\ reported' = reported \ {c}
      /\ toClient' = [toClient EXCEPT ![c] = <<>>]
      /\ UNCHANGED <<handler, media, signal, quiet, pingDue, punched, down>>
  BY DEF Ends, At, Reset, serverVars
<1>3. Types'
  BY <1>1, <1>2, EmptyQueue DEF Types
<1>4. Others(c)
  BY <1>1, <1>2 DEF Others, Types
<1>5. Local(c)'
  BY <1>1, <1>2, SessionsAssumption DEF Local, NoWaitOverruns, Registered, Timed, InStep, Types
<1> QED
  BY <1>3, <1>4, <1>5, OthersKeep

LEMMA LeavesStep ==
  ASSUME SessInv, NEW c \in Clients, Leaves(c) \/ SayGoodbye(c) \/ FallSilent(c)
  PROVE  SessInv'
<1>1. Types
  BY DEF SessInv
<1>2. CASE Leaves(c) \/ FallSilent(c)
  BY <1>1, <1>2, EndsStep DEF Leaves, FallSilent, Types
<1>3. CASE SayGoodbye(c)
  <2>1. /\ toServer' \in [Clients -> Seq(ToServerLines)]
        /\ \A d \in Clients \ {c} : toServer'[d] = toServer[d]
    BY <1>1, <1>3, Queues DEF SayGoodbye, ToServer, Send, Types, ToServerLines
  <2> QED
    BY <1>3, <2>1, EndsStep DEF SayGoodbye
<1> QED
  BY <1>2, <1>3

(* What a playing client sends, and what it reads.                         *)
LEMMA PlayingStep ==
  ASSUME SessInv, NEW c \in Clients, AnswerPing(c) \/ Report(c)
  PROVE  SessInv'
<1>1. Types /\ Local(c) /\ client[c] = "playing"
  BY DEF SessInv, AnswerPing, Report
<1>2. /\ \E line \in {"pong", "stats"} : ToServer(c, line)
      /\ \/ UNCHANGED toClient
         \/ toClient[c] # <<>> /\ toClient' = [toClient EXCEPT ![c] = Tail(@)]
      /\ reported' \subseteq Clients
      /\ UNCHANGED <<handler, media, signal, quiet, pingDue, client, waited, punched, down>>
  BY <1>1 DEF AnswerPing, Report, Receives, serverVars, clientVars, Types
<1>3. PICK line \in {"pong", "stats"} : ToServer(c, line)
  BY <1>2
<1>4. toServer' \in [Clients -> Seq(ToServerLines)] /\ toClient' \in [Clients -> Seq(ToClientLines)]
  <2>1. line \in ToServerLines
    BY DEF ToServerLines
  <2>2. toServer' \in [Clients -> Seq(ToServerLines)]
    BY <1>1, <1>3, <2>1, Queues DEF ToServer, Send, Types
  <2>3. toClient[c] # <<>> => Tail(toClient[c]) \in Seq(ToClientLines)
    BY <1>1, Queues DEF Types
  <2> QED
    BY <1>1, <1>2, <2>2, <2>3 DEF Types
<1>5. Types'
  BY <1>1, <1>2, <1>4 DEF Types
<1>6. Others(c)
  BY <1>1, <1>2, <1>3 DEF Others, Types, ToServer, Send
<1>7. ASSUME ~down
      PROVE  PlayingOk(c)'
  <2>1. PlayingOk(c)
    BY <1>1, <1>7 DEF Local, InStep
  <2>2. toServer'[c] \in Seq({"pong", "stats"}) /\ toServer'[c] # <<>>
    BY <1>1, <1>3, <1>7, <2>1, Queues DEF PlayingOk, ToServer, Send, ServerClosed, Types
  <2>3. toClient'[c] \in Seq({"ping"})
    <3>1. toClient[c] \in Seq({"ping"}) /\ toClient \in [Clients -> Seq(ToClientLines)]
      BY <1>1, <2>1 DEF PlayingOk, Types
    <3>2. toClient[c] # <<>> => Tail(toClient[c]) \in Seq({"ping"})
      BY <3>1, Queues
    <3> QED
      BY <1>2, <3>1, <3>2
  <2> QED
    BY <1>2, <2>1, <2>2, <2>3 DEF PlayingOk
<1>8. Local(c)'
  BY <1>1, <1>2, <1>7 DEF Local, NoWaitOverruns, Registered, Timed, InStep
<1> QED
  BY <1>5, <1>6, <1>8, OthersKeep

-----------------------------------------------------------------------------
(* The handler's steps.  What each changes of its client is named first.   *)
LEMMA ReadHelloStep ==
  ASSUME SessInv, NEW c \in Clients, ReadHello(c), ~down
  PROVE  SessInv'
<1>1. Types /\ Local(c)
  BY DEF SessInv
<1>2. /\ handler[c] = "hello" /\ toServer[c] # <<>> /\ Head(toServer[c]) = "hello"
      /\ toServer' = [toServer EXCEPT ![c] = Tail(@)]
      /\ UNCHANGED <<signal, quiet, pingDue, client, waited, reported, punched, down>>
  BY DEF ReadHello, Receives, clientVars
<1>3. \/ /\ handler' = [handler EXCEPT ![c] = "opened"]
         /\ media' = [media EXCEPT ![c] = "unknown"]
         /\ UNCHANGED toClient
      \/ /\ handler' = [handler EXCEPT ![c] = "done"]
         /\ ToClient(c, "error")
         /\ UNCHANGED media
  BY DEF ReadHello, At
<1>4. Types'
  <2>1. Tail(toServer[c]) \in Seq(ToServerLines)
    BY <1>1, <1>2, Queues DEF Types
  <2>2. toClient' \in [Clients -> Seq(ToClientLines)]
    <3>1. "error" \in ToClientLines
      BY DEF ToClientLines
    <3>2. Append(toClient[c], "error") \in Seq(ToClientLines)
      BY <1>1, <3>1, Queues DEF Types
    <3>3. toClient' \in {toClient, [toClient EXCEPT ![c] = Append(@, "error")]}
      BY <1>3 DEF ToClient, Send
    <3> QED
      BY <1>1, <3>2, <3>3 DEF Types
  <2> QED
    BY <1>1, <1>2, <1>3, <2>1, <2>2 DEF Types, Handlers, Open
<1>5. Others(c)
  BY <1>1, <1>2, <1>3 DEF Others, Types, ToClient, Send
<1>6. InStep(c)'
  <2>1. client[c] \in {"accepting", "left", "silent"}
    BY <1>1, <1>2 DEF Local, InStep, IdleOk, PunchingOk, PlayingOk, Types, Alive, Connecting
  <2>2. ASSUME client[c] = "accepting"
        PROVE  AcceptingOk(c)'
    <3>1. toServer[c] = <<"hello">> /\ toClient[c] = <<>>
      BY <1>1, <1>2, <2>2 DEF Local, InStep, AcceptingOk
    <3>2. toServer'[c] = <<>> /\ Append(<<>>, "error") = <<"error">>
      BY <1>1, <1>2, <3>1, Singles DEF Types
    <3> QED
      BY <1>1, <1>3, <2>2, <3>1, <3>2 DEF AcceptingOk, ToClient, Send, Types
  <2> QED
    BY <1>2, <2>1, <2>2 DEF InStep
<1>7. (NoWaitOverruns(c) /\ Registered(c) /\ Timed(c))'
  BY <1>1, <1>2, <1>3 DEF Local, NoWaitOverruns, Registered, Timed, Types, Open
<1> QED
  BY <1>4, <1>5, <1>6, <1>7, OthersKeep DEF Local

(* A handler that has given its client up, for good reason.                *)
LEMMA GiveUpStep ==
  ASSUME SessInv, NEW c \in Clients, ~down,
         client[c] \notin {"accepting", "playing"},
         NEW state \in {"closing", "done"},
         state = "closing" => handler[c] \in {"opened", "punch", "serving"},
         state = "done" => handler[c] = "hello",
         client[c] = "punching" => toClient[c] = <<>>,
         handler' = [handler EXCEPT ![c] = state],
         signal' \in {signal, signal \ {c}}, pingDue' \in {pingDue, pingDue \ {c}},
         handler[c] = "serving" => pingDue' = pingDue \ {c},
         toServer' \in [Clients -> Seq(ToServerLines)],
         \A d \in Clients \ {c} : toServer'[d] = toServer[d],
         toServer'[c] = toServer[c] \/ client[c] # "punching",
         UNCHANGED <<media, quiet, clientVars, toClient, punched, down>>
  PROVE  SessInv'
<1>1. Types /\ Local(c)
  BY DEF SessInv
<1>2. UNCHANGED <<client, waited, reported>>
  BY DEF clientVars
<1>3. Types'
  BY <1>1, <1>2 DEF Types, Handlers, Open
<1>4. Others(c)
  BY <1>1, <1>2 DEF Others, Types
<1>5. (NoWaitOverruns(c) /\ Registered(c) /\ Timed(c))'
  BY <1>1, <1>2 DEF Local, NoWaitOverruns, Registered, Timed, Types, Open
<1>6. InStep(c)'
  <2>1. client[c] # "idle" /\ (client[c] = "punching" => toServer[c] = <<>>)
    BY <1>1 DEF Local, InStep, IdleOk, PunchingOk
  <2>2. handler'[c] = state
    BY <1>1 DEF Types
  <2> QED
    BY <1>1, <1>2, <2>1, <2>2 DEF InStep, PunchingOk
<1> QED
  BY <1>3, <1>4, <1>5, <1>6, OthersKeep DEF Local

LEMMA NoHelloStep ==
  ASSUME SessInv, NEW c \in Clients, NoHello(c) \/ PunchOverdue(c), ~down
  PROVE  SessInv'
<1>1. Types /\ Local(c)
  BY DEF SessInv
<1>2. /\ client[c] \notin {"accepting", "playing"}
      /\ client[c] = "punching" => toClient[c] = <<>>
  <2>1. CASE NoHello(c)
    BY <1>1, <2>1, Singles DEF NoHello, Local, InStep, AcceptingOk, PunchingOk, PlayingOk
  <2>2. CASE PunchOverdue(c)
    BY <1>1, <2>2, SessionsAssumption
    DEF PunchOverdue, Local, InStep, AcceptingOk, PunchingOk, PlayingOk
  <2> QED
    BY <2>1, <2>2
<1>3. CASE NoHello(c)
  BY <1>1, <1>2, <1>3, GiveUpStep DEF NoHello, At, wires, Types
<1>4. CASE PunchOverdue(c)
  BY <1>1, <1>2, <1>4, GiveUpStep DEF PunchOverdue, At, wires, Types
<1> QED
  BY <1>3, <1>4

(* A write that fails.                                                     *)
LEMMA WriteFailsStep ==
  ASSUME SessInv, NEW c \in Clients, ~down, WriteFails(c),
         handler[c] \in {"opened", "punch", "serving"},
         signal' \in {signal, signal \ {c}}, pingDue' \in {pingDue, pingDue \ {c}},
         handler[c] = "serving" => pingDue' = pingDue \ {c},
         toServer' \in [Clients -> Seq(ToServerLines)],
         \A d \in Clients \ {c} : toServer'[d] = toServer[d],
         UNCHANGED <<media, clientVars, punched, down>>
  PROVE  SessInv'
  BY GiveUpStep DEF WriteFails, ClientClosed, At

LEMMA SendAcceptStep ==
  ASSUME SessInv, NEW c \in Clients, SendAccept(c), ~down
  PROVE  SessInv'
<1>1. Types /\ Local(c) /\ handler[c] = "opened" /\ c \notin pingDue
  BY DEF SessInv, Local, Timed, SendAccept
<1>2. CASE WriteFails(c)
  BY <1>1, <1>2, WriteFailsStep DEF SendAccept, Types
<1>3. CASE /\ handler' = [handler EXCEPT ![c] = "punch"]
           /\ ToClient(c, "accept")
           /\ quiet' = [quiet EXCEPT ![c] = 0]
  <2>1. UNCHANGED <<media, signal, pingDue, client, waited, reported, toServer, punched, down>>
    BY <1>3 DEF SendAccept, clientVars, WriteFails
  <2>2. Types'
    <3>1. Append(toClient[c], "accept") \in Seq(ToClientLines)
      BY <1>1, Queues DEF Types, ToClientLines
    <3>2. toClient' \in {toClient, [toClient EXCEPT ![c] = Append(@, "accept")]}
      BY <1>3 DEF ToClient, Send
    <3>3. toClient' \in [Clients -> Seq(ToClientLines)]
      BY <1>1, <3>1, <3>2 DEF Types
    <3>4. handler' \in [Clients -> Handlers] /\ quiet' \in [Clients -> Nat]
      BY <1>1, <1>3 DEF Types, Handlers, Open
    <3> QED
      BY <1>1, <2>1, <3>3, <3>4 DEF Types
  <2>3. Others(c)
    BY <1>1, <1>3, <2>1 DEF Others, Types, ToClient, Send
  <2>4. (NoWaitOverruns(c) /\ Registered(c) /\ Timed(c))'
    BY <1>1, <1>3, <2>1, SessionsAssumption
    DEF Local, NoWaitOverruns, Registered, Timed, Types, Open
  <2>5. InStep(c)'
    <3>1. client[c] \in {"accepting", "left", "silent"}
      BY <1>1 DEF Local, InStep, IdleOk, PunchingOk, PlayingOk, Types, Alive, Connecting
    <3>2. client[c] = "accepting" => toServer[c] = <<>> /\ toClient[c] = <<>>
      BY <1>1 DEF Local, InStep, AcceptingOk
    <3>3. client[c] = "accepting" => toClient'[c] = <<"accept">>
      BY <1>1, <1>3, <3>2, Singles DEF ToClient, Send, Types
    <3>4. handler'[c] = "punch" /\ quiet'[c] = 0
      BY <1>1, <1>3 DEF Types
    <3> QED
      BY <2>1, <3>1, <3>2, <3>3, <3>4 DEF InStep, AcceptingOk
  <2> QED
    BY <2>2, <2>3, <2>4, <2>5, OthersKeep DEF Local
<1> QED
  BY <1>2, <1>3 DEF SendAccept, At, Reset

LEMMA SendReadyStep ==
  ASSUME SessInv, NEW c \in Clients, SendReady(c), ~down
  PROVE  SessInv'
<1>1. Types /\ Local(c) /\ handler[c] = "punch" /\ c \notin pingDue /\ media[c] = "known"
  BY DEF SessInv, Local, Timed, Registered, SendReady
<1>2. CASE WriteFails(c)
  BY <1>1, <1>2, WriteFailsStep DEF SendReady, Ready, Types
<1>3. CASE /\ handler' = [handler EXCEPT ![c] = "serving"]
           /\ ToClient(c, "ready")
           /\ quiet' = [quiet EXCEPT ![c] = 0]
  <2>1. /\ UNCHANGED <<media, pingDue, client, waited, reported, toServer, punched, down>>
        /\ signal' = signal \ {c}
    BY <1>3 DEF SendReady, Ready, clientVars, WriteFails
  <2>2. Types'
    <3>1. Append(toClient[c], "ready") \in Seq(ToClientLines)
      BY <1>1, Queues DEF Types, ToClientLines
    <3>2. toClient' \in {toClient, [toClient EXCEPT ![c] = Append(@, "ready")]}
      BY <1>3 DEF ToClient, Send
    <3>3. toClient' \in [Clients -> Seq(ToClientLines)]
      BY <1>1, <3>1, <3>2 DEF Types
    <3>4. handler' \in [Clients -> Handlers] /\ quiet' \in [Clients -> Nat]
      BY <1>1, <1>3 DEF Types, Handlers, Open
    <3> QED
      BY <1>1, <2>1, <3>3, <3>4 DEF Types
  <2>3. Others(c)
    BY <1>1, <1>3, <2>1 DEF Others, Types, ToClient, Send
  <2>4. (NoWaitOverruns(c) /\ Registered(c) /\ Timed(c))'
    BY <1>1, <1>3, <2>1, SessionsAssumption
    DEF Local, NoWaitOverruns, Registered, Timed, Types, Open
  <2>5. InStep(c)'
    <3>1. client[c] \in {"accepting", "punching", "left", "silent"}
      BY <1>1 DEF Local, InStep, IdleOk, PlayingOk, Types, Alive, Connecting
    <3>2. handler'[c] = "serving" /\ quiet'[c] = 0 /\ c \notin pingDue'
      BY <1>1, <1>3, <2>1 DEF Types
    <3>3. client[c] = "punching" => PunchingOk(c)'
      <4>1. client[c] = "punching" => toServer[c] = <<>> /\ toClient[c] = <<>>
        BY <1>1 DEF Local, InStep, PunchingOk
      <4>2. client[c] = "punching" => toClient'[c] = <<"ready">>
        BY <1>1, <1>3, <4>1, Singles DEF ToClient, Send, Types
      <4> QED
        BY <2>1, <3>2, <4>1, <4>2 DEF PunchingOk
    <3>4. client[c] # "accepting"
      BY <1>1 DEF Local, Registered, SendReady
    <3> QED
      BY <2>1, <3>1, <3>3, <3>4 DEF InStep
  <2> QED
    BY <2>2, <2>3, <2>4, <2>5, OthersKeep DEF Local
<1> QED
  BY <1>2, <1>3 DEF SendReady, Ready, At, Reset

(* A turn of the serving loop.                                             *)
LEMMA EndTurnStep ==
  ASSUME SessInv, NEW c \in Clients, ~down, handler[c] = "serving",
         client[c] \notin {"idle", "accepting", "punching"},
         NEW q \in Nat, EndTurn(c, q),
         client[c] = "playing" => q <= 1 /\ (q = 1 => c \in pingDue),
         client[c] = "playing" => toServer'[c] \in Seq({"pong", "stats"}),
         toServer' \in [Clients -> Seq(ToServerLines)],
         \A d \in Clients \ {c} : toServer'[d] = toServer[d],
         UNCHANGED <<media, signal, clientVars, punched, down>>
  PROVE  SessInv'
<1>1. Types /\ Local(c)
  BY DEF SessInv
<1>2. pingDue' = pingDue \ {c}
  BY DEF EndTurn
<1>3. CASE q > SessionTimeout /\ At(handler, c, "closing") /\ UNCHANGED <<quiet, toClient>>
  <2>1. client[c] # "playing"
    BY <1>3, SessionsAssumption
  <2> QED
    BY <1>2, <1>3, <2>1, GiveUpStep DEF At
<1>4. CASE /\ q <= SessionTimeout
           /\ quiet' = [quiet EXCEPT ![c] = q]
           /\ IF c \in pingDue THEN ToClient(c, "ping") ELSE UNCHANGED toClient
           /\ UNCHANGED handler
  <2>1. UNCHANGED <<client, waited, reported>>
    BY DEF clientVars
  <2>2. toClient' \in {toClient, [toClient EXCEPT ![c] = Append(@, "ping")]}
    BY <1>4 DEF ToClient, Send
  <2>3. Types'
    <3>1. Append(toClient[c], "ping") \in Seq(ToClientLines)
      BY <1>1, Queues DEF Types, ToClientLines
    <3>2. toClient' \in [Clients -> Seq(ToClientLines)] /\ quiet' \in [Clients -> Nat]
      BY <1>1, <1>4, <2>2, <3>1 DEF Types
    <3> QED
      BY <1>1, <1>2, <1>4, <2>1, <3>2 DEF Types
  <2>4. Others(c)
    BY <1>1, <1>2, <1>4, <2>1, <2>2 DEF Others, Types
  <2>5. (NoWaitOverruns(c) /\ Registered(c) /\ Timed(c))'
    <3>1. quiet'[c] = q /\ ~(q > SessionTimeout) /\ q <= SessionTimeout + 1
      BY <1>1, <1>4, SessionsAssumption DEF Types
    <3> QED
      BY <1>1, <1>2, <1>4, <2>1, <3>1 DEF Local, NoWaitOverruns, Registered, Timed
  <2>6. InStep(c)'
    <3>1. ASSUME client[c] = "playing"
          PROVE  PlayingOk(c)'
      <4>1. toClient[c] \in Seq({"ping"})
        BY <1>1, <3>1 DEF Local, InStep, PlayingOk
      <4>2. /\ Append(toClient[c], "ping") \in Seq({"ping"})
            /\ Append(toClient[c], "ping") # <<>>
        BY <4>1, Queues
      <4>3. /\ toClient'[c] \in Seq({"ping"})
            /\ c \in pingDue => toClient'[c] # <<>>
        BY <1>1, <1>4, <3>1, <4>1, <4>2 DEF ToClient, Send, Types
      <4>4. quiet'[c] = q
        BY <1>1, <1>4 DEF Types
      <4> QED
        BY <1>4, <3>1, <4>3, <4>4 DEF PlayingOk
    <3> QED
      BY <2>1, <3>1 DEF InStep
  <2> QED
    BY <2>3, <2>4, <2>5, <2>6, OthersKeep DEF Local
<1>5. CASE WriteFails(c)
  BY <1>2, <1>5, WriteFailsStep
<1> QED
  BY <1>3, <1>4, <1>5 DEF EndTurn

LEMMA ServeStep ==
  ASSUME SessInv, NEW c \in Clients, ServeLine(c) \/ ServeIdle(c), ~down
  PROVE  SessInv'
<1>1. /\ Types /\ Local(c) /\ handler[c] = "serving"
      /\ UNCHANGED <<media, signal, clientVars, punched, down>>
  BY DEF SessInv, ServeLine, ServeIdle
<1>2. CASE ServeLine(c)
  <2>1. PICK line \in {"pong", "stats"} :
          Receives(toServer, c, line) /\ EndTurn(c, 0)
    BY <1>2 DEF ServeLine, QuietAfter
  <2>2. toServer[c] # <<>> /\ toServer' = [toServer EXCEPT ![c] = Tail(@)]
    BY <2>1 DEF Receives
  <2>3. client[c] \notin {"idle", "accepting", "punching"}
    BY <1>1, <2>2 DEF Local, InStep, IdleOk, AcceptingOk, PunchingOk
  <2>4. toServer' \in [Clients -> Seq(ToServerLines)]
    BY <1>1, <2>2, Queues DEF Types
  <2>5. ASSUME client[c] = "playing"
        PROVE  toServer'[c] \in Seq({"pong", "stats"})
    <3>1. toServer[c] \in Seq({"pong", "stats"})
      BY <1>1, <2>5 DEF Local, InStep, PlayingOk
    <3>2. Tail(toServer[c]) \in Seq({"pong", "stats"})
      BY <2>2, <3>1, Queues
    <3> QED
      BY <1>1, <2>2, <3>2 DEF Types
  <2>6. \A d \in Clients \ {c} : toServer'[d] = toServer[d]
    BY <1>1, <2>2 DEF Types
  <2> QED
    BY <1>1, <2>1, <2>3, <2>4, <2>5, <2>6, EndTurnStep
<1>3. CASE ServeIdle(c)
  <2>1. /\ c \in pingDue /\ EndTurn(c, quiet[c])
        /\ UNCHANGED toServer
    BY <1>3 DEF ServeIdle
  <2>2. client[c] \notin {"idle", "accepting", "punching"}
    BY <1>1, <2>1 DEF Local, InStep, IdleOk, AcceptingOk, PunchingOk
  <2>3. client[c] = "playing" => quiet[c] <= 1 /\ toServer[c] \in Seq({"pong", "stats"})
    BY <1>1 DEF Local, InStep, PlayingOk
  <2>4. quiet[c] \in Nat /\ toServer' \in [Clients -> Seq(ToServerLines)]
    BY <1>1, <2>1 DEF Types
  <2> QED
    BY <1>1, <2>1, <2>2, <2>3, <2>4, EndTurnStep
<1> QED
  BY <1>2, <1>3

(* A handler gives up a client it serves only when that client has gone.   *)
LEMMA ServedDeparts ==
  ASSUME SessInv, NEW c \in Clients, ~down, handler[c] = "serving",
         \/ ServeEnd(c)
         \/ WriteFails(c)
         \/ ServeIdle(c) /\ quiet[c] > SessionTimeout
  PROVE  client[c] \in {"left", "silent"}
<1>1. Types /\ Local(c)
  BY DEF SessInv
<1>2. client[c] \notin {"idle", "accepting"}
  BY <1>1 DEF Local, InStep, IdleOk, AcceptingOk
<1>3. CASE ClientClosed(c)
  BY <1>3 DEF ClientClosed
<1>4. CASE toServer[c] # <<>> /\ Head(toServer[c]) = "bye"
  <2>1. client[c] # "punching"
    BY <1>1, <1>4 DEF Local, InStep, PunchingOk
  <2>2. ASSUME client[c] = "playing"
        PROVE  FALSE
    <3>1. toServer[c] \in Seq({"pong", "stats"})
      BY <1>1, <2>2 DEF Local, InStep, PlayingOk
    <3>2. Head(toServer[c]) \in {"pong", "stats"}
      BY <1>4, <3>1, Queues
    <3> QED
      BY <1>4, <3>2
  <2> QED
    BY <1>1, <1>2, <2>1, <2>2 DEF Types, Alive, Connecting
<1>5. CASE c \in pingDue /\ quiet[c] > SessionTimeout
  <2>1. client[c] # "punching"
    BY <1>1, <1>5 DEF Local, InStep, PunchingOk
  <2>2. client[c] = "playing" => quiet[c] <= 1
    BY <1>1 DEF Local, InStep, PlayingOk
  <2>3. quiet[c] \in Nat
    BY <1>1 DEF Types
  <2>4. client[c] # "playing"
    BY <1>5, <2>2, <2>3, SessionsAssumption
  <2> QED
    BY <1>1, <1>2, <2>1, <2>4 DEF Types, Alive, Connecting
<1> QED
  BY <1>3, <1>4, <1>5 DEF ServeEnd, WriteFails, ServeIdle, Receives

LEMMA ServeEndStep ==
  ASSUME SessInv, NEW c \in Clients, ServeEnd(c), ~down
  PROVE  SessInv'
<1>1. Types /\ Local(c) /\ handler[c] = "serving"
  BY DEF SessInv, ServeEnd
<1>2. /\ handler' = [handler EXCEPT ![c] = "closing"]
      /\ pingDue' = pingDue \ {c}
      /\ UNCHANGED <<media, signal, quiet, clientVars, toClient, punched, down>>
  BY DEF ServeEnd, At
<1>3. \/ /\ toServer[c] # <<>> /\ Head(toServer[c]) = "bye"
         /\ toServer' = [toServer EXCEPT ![c] = Tail(@)]
      \/ ClientClosed(c) /\ toServer' = toServer
  BY DEF ServeEnd, Receives
<1>4. client[c] \in {"left", "silent"}
  BY <1>1, ServedDeparts
<1>5. /\ toServer' \in [Clients -> Seq(ToServerLines)]
      /\ \A d \in Clients \ {c} : toServer'[d] = toServer[d]
  <2>1. toServer[c] # <<>> => Tail(toServer[c]) \in Seq(ToServerLines)
    BY <1>1, Queues DEF Types
  <2>2. toServer \in [Clients -> Seq(ToServerLines)]
    BY <1>1 DEF Types
  <2> QED
    BY <1>3, <2>1, <2>2
<1> QED
  BY <1>1, <1>2, <1>4, <1>5, GiveUpStep

LEMMA CloseStep ==
  ASSUME SessInv, NEW c \in Clients, Close(c), ~down
  PROVE  SessInv'
<1>1. Types /\ Local(c)
  BY DEF SessInv
<1>2. /\ handler[c] = "closing" /\ handler' = [handler EXCEPT ![c] = "done"]
      /\ media' = [media EXCEPT ![c] = "none"]
      /\ signal' = signal \ {c}
      /\ quiet' = [quiet EXCEPT ![c] = 0]
      /\ toServer' = [toServer EXCEPT ![c] = <<>>]
      /\ UNCHANGED <<pingDue, client, waited, reported, toClient, punched, down>>
  BY DEF Close, At, Reset, Without, clientVars
<1>3. Types'
  <2>1. toServer' \in [Clients -> Seq(ToServerLines)]
    BY <1>1, <1>2, EmptyQueue DEF Types
  <2> QED
    BY <1>1, <1>2, <2>1 DEF Types, Handlers
<1>4. Others(c)
  BY <1>1, <1>2 DEF Others, Types
<1>5. (NoWaitOverruns(c) /\ Registered(c) /\ Timed(c))'
  BY <1>1, <1>2 DEF Local, NoWaitOverruns, Registered, Timed, Types, Open
<1>6. InStep(c)'
  <2>1. client[c] \in {"punching", "left", "silent"}
    BY <1>1, <1>2 DEF Local, InStep, IdleOk, AcceptingOk, PlayingOk, Types, Alive, Connecting
  <2>2. client[c] = "punching" => toClient[c] = <<>>
    BY <1>1, <1>2 DEF Local, InStep, PunchingOk
  <2>3. handler'[c] = "done" /\ toServer'[c] = <<>>
    BY <1>1, <1>2 DEF Types
  <2> QED
    BY <1>2, <2>1, <2>2, <2>3 DEF InStep, PunchingOk
<1> QED
  BY <1>3, <1>4, <1>5, <1>6, OthersKeep DEF Local

-----------------------------------------------------------------------------
LEMMA PunchStep ==
  ASSUME SessInv, NEW c \in Clients, PunchArrives(c)
  PROVE  SessInv'
<1>1. Types /\ Local(c)
  BY DEF SessInv
<1>2. /\ c \in punched /\ media[c] # "none"
      /\ media' = [media EXCEPT ![c] = "known"]
      /\ signal' \in {signal, signal \cup {c}}
      /\ UNCHANGED <<handler, quiet, pingDue, client, waited, reported,
                     toServer, toClient, punched, down>>
  BY DEF PunchArrives, Known, clientVars, wires
<1>3. Types'
  BY <1>1, <1>2 DEF Types
<1>4. Others(c)
  BY <1>1, <1>2 DEF Others, Types
<1>5. (NoWaitOverruns(c) /\ Registered(c) /\ Timed(c))'
  BY <1>1, <1>2 DEF Local, NoWaitOverruns, Registered, Timed, Types
<1>6. InStep(c)'
  BY <1>1, <1>2 DEF Local, InStep, IdleOk, AcceptingOk, PunchingOk, PlayingOk
<1> QED
  BY <1>3, <1>4, <1>5, <1>6, OthersKeep DEF Local

LEMMA StopStep ==
  ASSUME SessInv, ServerStops
  PROVE  SessInv'
<1>1. /\ down' = TRUE /\ signal' = {} /\ pingDue' = {}
      /\ handler' = [c \in Clients |-> "done"]
      /\ media' = [c \in Clients |-> "none"]
      /\ toServer' = [c \in Clients |-> <<>>]
      /\ UNCHANGED <<quiet, client, waited, reported, toClient, punched>>
  BY DEF ServerStops, clientVars
<1>2. Types /\ \A c \in Clients : Local(c)
  BY DEF SessInv
<1>3. Types'
  <2>1. toServer' \in [Clients -> Seq(ToServerLines)]
    BY <1>1, EmptyQueue
  <2> QED
    BY <1>1, <1>2, <2>1 DEF Types, Handlers
<1>4. ASSUME NEW c \in Clients
      PROVE  Local(c)'
  BY <1>1, <1>2 DEF Local, NoWaitOverruns, Registered, Timed, InStep, Open
<1> QED
  BY <1>3, <1>4 DEF SessInv

(* Time passes only when no thread has anything to do.                     *)
LEMMA TickStep ==
  ASSUME SessInv, Tick
  PROVE  SessInv'
<1>1. /\ quiet' = Aged(quiet, handler, Waiting)
      /\ pingDue' = {c \in Clients : handler[c] = "serving"}
      /\ waited' = Aged(waited, client, Connecting)
      /\ reported' = {} /\ ~down
      /\ UNCHANGED <<handler, media, signal, client, toServer, toClient, punched, down>>
  BY DEF Tick, wires
<1>2. Types /\ \A c \in Clients : Local(c) /\ ~ClientBusy(c) /\ ~HandlerBusy(c)
  BY DEF SessInv, Tick
<1>3. Types'
  <2>1. quiet' \in [Clients -> Nat] /\ waited' \in [Clients -> Nat]
    BY <1>1, <1>2 DEF Types, Aged
  <2> QED
    BY <1>1, <1>2, <2>1 DEF Types
<1>4. ASSUME NEW c \in Clients
      PROVE  Local(c)'
  <2>1. /\ Local(c) /\ ~ClientBusy(c) /\ ~HandlerBusy(c)
        /\ quiet[c] \in Nat /\ waited[c] \in Nat
    BY <1>2 DEF Types
  <2>2. /\ quiet'[c] = IF handler[c] \in Waiting THEN quiet[c] + 1 ELSE quiet[c]
        /\ waited'[c] = IF client[c] \in Connecting THEN waited[c] + 1 ELSE waited[c]
        /\ c \in pingDue' <=> handler[c] = "serving"
    BY <1>1, <1>2 DEF Aged, Types
  <2>3. handler[c] = "serving" => quiet[c] <= SessionTimeout
    <3>1. handler[c] = "serving" => ~(quiet[c] > SessionTimeout)
      BY <1>1, <2>1 DEF HandlerBusy, Local, Timed
    <3> QED
      BY <2>1, <3>1, SessionsAssumption
  <2>4. NoWaitOverruns(c)'
    <3>1. waited'[c] <= PunchTimeout
      BY <1>1, <2>1, <2>2, SessionsAssumption
      DEF ClientBusy, Alive, Connecting, Local, NoWaitOverruns
    <3>2. handler[c] = "hello" => quiet'[c] <= SessionTimeout
      BY <1>1, <2>1, <2>2, SessionsAssumption DEF HandlerBusy, Waiting
    <3>3. handler[c] = "punch" => quiet'[c] <= PunchTimeout
      BY <1>1, <2>1, <2>2, SessionsAssumption DEF HandlerBusy, Waiting
    <3>4. handler[c] = "serving" => quiet'[c] <= SessionTimeout + 1
      BY <1>1, <2>1, <2>2, <2>3, SessionsAssumption DEF Waiting
    <3> QED
      BY <1>1, <3>1, <3>2, <3>3, <3>4 DEF NoWaitOverruns
  <2>5. Registered(c)'
    BY <1>1, <2>1 DEF Local, Registered
  <2>6. Timed(c)'
    BY <1>1, <2>1, <2>2 DEF Local, Timed, Waiting
  <2>7. InStep(c)'
    <3>1. client[c] = "idle" => IdleOk(c)'
      BY <1>1, <2>1 DEF Local, InStep, IdleOk
    <3>2. client[c] # "accepting"
      <4>1. client[c] = "accepting" => AcceptingOk(c) /\ toClient[c] = <<>>
        BY <1>1, <2>1 DEF Local, InStep, ClientBusy, Alive, Connecting
      <4>2. handler[c] = "hello" => toServer[c] = <<>>
        BY <1>1, <2>1 DEF HandlerBusy
      <4>3. handler[c] # "opened"
        BY <1>1, <2>1 DEF HandlerBusy
      <4> QED
        BY <4>1, <4>2, <4>3, Singles DEF AcceptingOk
    <3>3. ASSUME client[c] = "punching"
          PROVE  PunchingOk(c)'
      <4>1. PunchingOk(c) /\ toClient[c] = <<>>
        BY <1>1, <2>1, <3>3 DEF Local, InStep, ClientBusy, Alive, Connecting
      <4>2. toServer[c] = <<>> /\ handler[c] \in {"punch", "closing", "done"}
        BY <4>1, Singles DEF PunchingOk
      <4> QED
        BY <1>1, <4>1, <4>2 DEF PunchingOk
    <3>4. ASSUME client[c] = "playing"
          PROVE  PlayingOk(c)'
      <4>1. PlayingOk(c) /\ toClient[c] = <<>> /\ toServer[c] = <<>> /\ c \notin pingDue
        BY <1>1, <2>1, <3>4 DEF Local, InStep, PlayingOk, ClientBusy, HandlerBusy, Alive
      <4>2. quiet[c] <= 1 /\ quiet[c] # 1
        BY <4>1 DEF PlayingOk
      <4>3. quiet'[c] <= 1 /\ c \in pingDue'
        BY <2>1, <2>2, <4>1, <4>2 DEF PlayingOk, Waiting
      <4> QED
        BY <1>1, <4>1, <4>3 DEF PlayingOk
    <3> QED
      BY <1>1, <3>1, <3>2, <3>3, <3>4 DEF InStep
  <2> QED
    BY <2>4, <2>5, <2>6, <2>7 DEF Local
<1> QED
  BY <1>3, <1>4 DEF SessInv

-----------------------------------------------------------------------------
LEMMA HandlerKeeps ==
  ASSUME SessInv, NEW c \in Clients, HandlerStep(c)
  PROVE  SessInv'
BY ReadHelloStep, NoHelloStep, SendAcceptStep, SendReadyStep, ServeStep, ServeEndStep, CloseStep
DEF HandlerStep

LEMMA StepSess == SessInv /\ [Next]_vars => SessInv'
<1> SUFFICES ASSUME SessInv, [Next]_vars
             PROVE  SessInv'
  OBVIOUS
<1>1. CASE UNCHANGED vars
  <2>1. UNCHANGED <<handler, media, signal, quiet, pingDue, client, waited, reported,
                    toServer, toClient, punched, down>>
    BY <1>1 DEF vars, serverVars, clientVars, wires
  <2>2. Types'
    BY <2>1 DEF SessInv, Types
  <2>3. ASSUME NEW c \in Clients
        PROVE  Local(c)'
    BY <2>1 DEF SessInv, Local, NoWaitOverruns, Registered, Timed, InStep,
                IdleOk, AcceptingOk, PunchingOk, PlayingOk
  <2> QED
    BY <2>2, <2>3 DEF SessInv
<1>2. ASSUME NEW c \in Clients, Connect(c) \/ Accepted(c) \/ Readied(c)
      PROVE  SessInv'
  BY <1>2, ConnectStep, AcceptedStep, ReadiedStep
<1>3. ASSUME NEW c \in Clients,
             \/ ConnectFails(c) \/ FindsClosed(c) \/ Killed(c)
             \/ SayGoodbye(c) \/ FallSilent(c)
      PROVE  SessInv'
  BY <1>3, LeavesStep DEF ConnectFails, FindsClosed, Killed
<1>4. ASSUME NEW c \in Clients, AnswerPing(c) \/ Report(c)
      PROVE  SessInv'
  BY <1>4, PlayingStep
<1>5. ASSUME NEW c \in Clients, HandlerStep(c) \/ PunchArrives(c)
      PROVE  SessInv'
  BY <1>5, HandlerKeeps, PunchStep
<1>6. CASE ServerStops \/ Tick
  BY <1>6, StopStep, TickStep
<1> QED
  BY <1>1, <1>2, <1>3, <1>4, <1>5, <1>6 DEF Next

THEOREM AlwaysInStep == Spec => []SessInv
  BY InitSess, StepSess, PTL DEF Spec

-----------------------------------------------------------------------------
(* Every variable keeps its type and no wait its bound overruns: a thread  *)
(* with a timeout acts on it (control.rs:122-166, session.rs expect).      *)
THEOREM SessionsTyped == Spec => []TypeOK
<1>1. SessInv => TypeOK
  BY DEF SessInv, Local, TypeOK
<1> QED
  BY <1>1, AlwaysInStep, PTL

(* The registry never forgets an open session nor keeps a closed one, even *)
(* when a punch arrives after the session it names was closed.             *)
THEOREM EntriesOwned == Spec => []EntryOutlivesNothing
<1>1. SessInv => EntryOutlivesNothing
  BY DEF SessInv, Local, Registered, EntryOutlivesNothing, Open
<1> QED
  BY <1>1, AlwaysInStep, PTL

(* While the sender runs, a client that plays is served and its address    *)
(* known: it hears ready only after its punch came, and a handler gives up *)
(* no client that still answers.                                           *)
THEOREM PlayersServed == Spec => []PlayingIsServed
<1>1. SessInv => PlayingIsServed
  BY DEF SessInv, Local, Registered, InStep, PlayingOk, PlayingIsServed
<1> QED
  BY <1>1, AlwaysInStep, PTL

-----------------------------------------------------------------------------
(* Where a handler may go from where it is.                                *)
Moves(c, new) ==
  \/ handler[c] = "hello" /\ new = "opened" /\ c \in Trusted
  \/ handler[c] = "hello" /\ new = "done"
  \/ handler[c] = "opened" /\ new \in {"punch", "closing"}
  \/ handler[c] = "punch" /\ new \in {"serving", "closing"}
  \/ handler[c] = "serving" /\ new = "serving"
  \/ handler[c] = "serving" /\ new = "closing" /\ client[c] \in {"left", "silent"}
  \/ handler[c] = "closing" /\ new = "done"

LEMMA HandlerMoves ==
  ASSUME SessInv, NEW c \in Clients, HandlerStep(c)
  PROVE  /\ client' = client /\ down' = down
         /\ \E new \in Handlers : Moves(c, new) /\ handler' = [handler EXCEPT ![c] = new]
<1>1. Types /\ ~down
  BY DEF SessInv, HandlerStep
<1>2. CASE \/ ReadHello(c) \/ NoHello(c) \/ SendAccept(c) \/ SendReady(c) \/ PunchOverdue(c)
          \/ Close(c)
  BY <1>2
  DEF ReadHello, NoHello, SendAccept, SendReady, Ready, PunchOverdue, Close, WriteFails, At,
      clientVars, Moves, Handlers, Open
<1>3. ASSUME handler[c] = "serving", client' = client, down' = down,
             handler' = handler \/ (client[c] \in {"left", "silent"} /\ At(handler, c, "closing"))
      PROVE  /\ client' = client /\ down' = down
             /\ \E new \in Handlers : Moves(c, new) /\ handler' = [handler EXCEPT ![c] = new]
  <2>1. "serving" \in Handlers /\ "closing" \in Handlers
    BY DEF Handlers, Open
  <2>2. CASE handler' = handler
    <3>1. handler' = [handler EXCEPT ![c] = "serving"]
      BY <1>1, <1>3, <2>2 DEF Types
    <3> QED
      BY <1>3, <2>1, <3>1 DEF Moves
  <2> QED
    BY <1>3, <2>1, <2>2 DEF Moves, At
<1>4. CASE ServeEnd(c)
  BY <1>1, <1>3, <1>4, ServedDeparts DEF ServeEnd, clientVars
<1>5. CASE ServeLine(c)
  <2>1. ~(0 > SessionTimeout)
    BY SessionsAssumption
  <2> QED
    BY <1>1, <1>3, <1>5, <2>1, ServedDeparts DEF ServeLine, EndTurn, QuietAfter, WriteFails, clientVars
<1>6. CASE ServeIdle(c)
  BY <1>1, <1>3, <1>6, ServedDeparts DEF ServeIdle, EndTurn, WriteFails, clientVars
<1> QED
  BY <1>2, <1>4, <1>5, <1>6 DEF HandlerStep

ClientActs(c) ==
  \/ Connect(c) \/ Accepted(c) \/ Readied(c) \/ ConnectFails(c) \/ FindsClosed(c)
  \/ AnswerPing(c) \/ Report(c) \/ SayGoodbye(c) \/ Killed(c) \/ FallSilent(c)

(* A client moves no handler beyond opening the connection, and departs    *)
(* for good.                                                               *)
LEMMA ClientMoves ==
  ASSUME SessInv, NEW c \in Clients, ClientActs(c)
  PROVE  /\ down' = down
         /\ \/ handler' = handler
            \/ handler[c] = "none" /\ handler' = [handler EXCEPT ![c] = "hello"]
         /\ \/ client' = client
            \/ /\ client[c] \notin {"left", "silent"}
               /\ \E new : client' = [client EXCEPT ![c] = new]
<1>1. CASE Connect(c)
  <2>1. handler[c] = "none"
    BY <1>1 DEF SessInv, Local, InStep, IdleOk, Connect
  <2> QED
    BY <1>1, <2>1 DEF Connect, At
<1>2. CASE Accepted(c) \/ Readied(c)
  BY <1>2 DEF Accepted, Readied, At, serverVars
<1>3. CASE ConnectFails(c) \/ FindsClosed(c) \/ Killed(c) \/ SayGoodbye(c) \/ FallSilent(c)
  <2>1. client[c] \in Alive /\ down' = down /\ handler' = handler
    BY <1>3
    DEF ConnectFails, FindsClosed, Killed, SayGoodbye, FallSilent, Leaves, Alive, serverVars
  <2>2. \E new : At(client, c, new)
    BY <1>3 DEF ConnectFails, FindsClosed, Killed, SayGoodbye, FallSilent, Leaves, Ends
  <2> QED
    BY <2>1, <2>2 DEF At, Alive, Connecting
<1>4. CASE AnswerPing(c) \/ Report(c)
  BY <1>4 DEF AnswerPing, Report, serverVars, clientVars
<1> QED
  BY <1>1, <1>2, <1>3, <1>4 DEF ClientActs

(* The phases and the departed, as Abstract sees them.                     *)
Phases == [c \in Clients |-> Phase(c)]
Departed == {c \in Clients : client[c] \in {"left", "silent"}}

LEMMA ClientMaps ==
  ASSUME SessInv, NEW c \in Clients, ClientActs(c)
  PROVE  [Abstract!Next]_(Abstract!vars)
<1>1. Types
  BY DEF SessInv
<1>2. /\ down' = down
      /\ \/ handler' = handler
         \/ handler[c] = "none" /\ handler' = [handler EXCEPT ![c] = "hello"]
      /\ \/ client' = client
         \/ /\ client[c] \notin {"left", "silent"}
            /\ \E new : client' = [client EXCEPT ![c] = new]
  BY ClientMoves
<1>3. Phases' = Phases
  <2>1. ASSUME NEW d \in Clients
        PROVE  Phase(d)' = Phase(d)
    BY <1>1, <1>2 DEF Phase, Types
  <2> QED
    BY <2>1 DEF Phases
<1>4. Departed' \in {Departed, Departed \cup {c}}
  BY <1>1, <1>2 DEF Departed, Types
<1> QED
  BY <1>2, <1>3, <1>4 DEF Abstract!Next, Abstract!Depart, Abstract!vars, Phases, Departed

LEMMA HandlerMaps ==
  ASSUME SessInv, NEW c \in Clients, HandlerStep(c)
  PROVE  [Abstract!Next]_(Abstract!vars)
<1>1. Types /\ ~down /\ client' = client /\ down' = down
  BY HandlerMoves DEF SessInv, HandlerStep
<1>2. PICK new \in Handlers : Moves(c, new) /\ handler' = [handler EXCEPT ![c] = new]
  BY HandlerMoves
<1>3. Departed' = Departed
  BY <1>1 DEF Departed
<1>4. Phases' = [Phases EXCEPT ![c] = Phase(c)']
  <2>1. ASSUME NEW d \in Clients, d # c
        PROVE  Phase(d)' = Phase(d)
    BY <1>1, <1>2, <2>1 DEF Phase, Types
  <2> QED
    BY <2>1 DEF Phases
<1>5. handler'[c] = new
  BY <1>1, <1>2 DEF Types
<1>6. Phases[c] = Phase(c)
  BY DEF Phases
<1>7. ASSUME handler[c] = "hello", new = "opened", c \in Trusted
      PROVE  Abstract!Admit(c)
  <2>1. Phase(c) = "outside" /\ Phase(c)' = "admitted"
    BY <1>1, <1>5, <1>7 DEF Phase
  <2> QED
    BY <1>1, <1>3, <1>4, <1>6, <1>7, <2>1 DEF Abstract!Admit, Phases, Departed
<1>8. ASSUME handler[c] = "punch", new = "serving"
      PROVE  Abstract!Listen(c)
  <2>1. Phase(c) = "admitted" /\ Phase(c)' = "listening"
    BY <1>1, <1>5, <1>8 DEF Phase
  <2> QED
    BY <1>1, <1>3, <1>4, <1>6, <2>1 DEF Abstract!Listen, Phases, Departed
<1>9. ASSUME \/ handler[c] = "hello" /\ new = "done"
             \/ handler[c] \in {"opened", "punch"} /\ new = "closing"
             \/ handler[c] = "serving" /\ new = "closing" /\ c \in Departed
      PROVE  Abstract!Remove(c)
  <2>1. /\ \/ Phase(c) \in {"outside", "admitted"}
           \/ Phase(c) = "listening" /\ c \in Departed
        /\ Phase(c)' = "removed"
    BY <1>1, <1>5, <1>9 DEF Phase
  <2> QED
    BY <1>1, <1>3, <1>4, <1>6, <2>1 DEF Abstract!Remove, Phases, Departed
<1>10. ASSUME \/ handler[c] = "opened" /\ new = "punch"
              \/ handler[c] = "serving" /\ new = "serving"
              \/ handler[c] = "closing" /\ new = "done"
       PROVE  Phases' = Phases
  <2>1. Phase(c)' = Phase(c)
    BY <1>1, <1>5, <1>10 DEF Phase
  <2> QED
    BY <1>4, <1>6, <2>1 DEF Phases
<1>11. \/ Abstract!Admit(c) \/ Abstract!Listen(c) \/ Abstract!Remove(c)
       \/ Phases' = Phases /\ Departed' = Departed /\ down' = down
  BY <1>1, <1>2, <1>3, <1>7, <1>8, <1>9, <1>10 DEF Moves, Departed
<1>12. CASE Phases' = Phases /\ Departed' = Departed /\ down' = down
  BY <1>12 DEF Abstract!vars, Phases, Departed
<1> QED
  BY <1>11, <1>12 DEF Abstract!Next

(* Every step of the control channel is a step of Membership: nobody is    *)
(* admitted without the token, none who listens is removed while it is     *)
(* there, and who is removed stays so.                                     *)
THEOREM MembershipKept == Spec => Abstract!Init /\ [][Abstract!Next]_(Abstract!vars)
<1>1. Init => Abstract!Init
  BY DEF Init, Abstract!Init, Phase
<1>2. SessInv /\ [Next]_vars => [Abstract!Next]_(Abstract!vars)
  <2> SUFFICES ASSUME SessInv, [Next]_vars
               PROVE  [Abstract!Next]_(Abstract!vars)
    OBVIOUS
  <2>1. ASSUME NEW c \in Clients, ClientActs(c) \/ HandlerStep(c)
        PROVE  [Abstract!Next]_(Abstract!vars)
    BY <2>1, ClientMaps, HandlerMaps
  <2>2. CASE \/ Tick \/ UNCHANGED vars
            \/ \E c \in Clients : PunchArrives(c)
    <3>1. handler' = handler /\ client' = client /\ down' = down
      BY <2>2 DEF Tick, PunchArrives, vars, serverVars, clientVars
    <3> QED
      BY <3>1 DEF Abstract!vars, Phase
  <2>3. CASE ServerStops
    <3>1. /\ down' = TRUE /\ client' = client
      BY <2>3 DEF ServerStops, clientVars
    <3> QED
      BY <3>1 DEF Abstract!Next, Abstract!Stop, Phase
  <2> QED
    BY <2>1, <2>2, <2>3 DEF Next, ClientActs
<1> QED
  BY <1>1, <1>2, AlwaysInStep, PTL DEF Spec

-----------------------------------------------------------------------------
(* Nobody without the pairing token is ever in the registry, so that no    *)
(* media are sent to it, however its lines and its punch are timed         *)
(* (control.rs:64-90).                                                     *)
NoStranger == \A c \in Clients : media[c] # "none" => c \in Trusted

THEOREM StrangersGetNothing == Spec => []NoStranger
<1> DEFINE Admitted == \A c \in Clients : handler[c] \in Open => c \in Trusted
<1>1. Init => Admitted
  BY DEF Init, Open
<1>2. ASSUME SessInv, Admitted, [Next]_vars PROVE Admitted'
  <2>0. handler \in [Clients -> Handlers]
    BY <1>2 DEF SessInv, Types
  <2>1. ASSUME NEW c \in Clients, ClientActs(c) PROVE Admitted'
    <3>1. \/ handler' = handler
          \/ handler' = [handler EXCEPT ![c] = "hello"]
      BY <1>2, <2>1, ClientMoves
    <3> QED
      BY <1>2, <2>0, <3>1 DEF Open
  <2>2. ASSUME NEW c \in Clients, HandlerStep(c) PROVE Admitted'
    <3>1. PICK new \in Handlers : Moves(c, new) /\ handler' = [handler EXCEPT ![c] = new]
      BY <1>2, <2>2, HandlerMoves
    <3>2. new \in Open => c \in Trusted
      BY <1>2, <3>1 DEF Moves, Open
    <3> QED
      BY <1>2, <2>0, <3>1, <3>2
  <2>3. CASE \/ Tick \/ UNCHANGED vars
             \/ \E c \in Clients : PunchArrives(c)
    <3>1. handler' = handler
      BY <2>3 DEF Tick, PunchArrives, vars, serverVars
    <3> QED
      BY <1>2, <3>1
  <2>4. CASE ServerStops
    BY <2>4 DEF ServerStops, Open
  <2> QED
    BY <1>2, <2>1, <2>2, <2>3, <2>4 DEF Next, ClientActs
<1>3. SessInv /\ Admitted => NoStranger
  BY DEF SessInv, Local, Registered, NoStranger
<1>4. SessInv /\ Admitted /\ [Next]_vars => Admitted'
  BY <1>2
<1> HIDE DEF Admitted
<1> QED
  BY <1>1, <1>3, <1>4, AlwaysInStep, PTL DEF Spec

-----------------------------------------------------------------------------
(* What a client that is alive may still have to read: no more than one    *)
(* line it waits for, or pings.  It stays so once the sender has ended.    *)
Replies(c) ==
  /\ client[c] = "accepting" => toClient[c] \in {<<>>, <<"accept">>, <<"error">>}
  /\ client[c] = "punching" => toClient[c] \in {<<>>, <<"ready">>}
  /\ client[c] = "playing" => toClient[c] \in Seq({"ping"})

LEMMA OneLine ==
  ASSUME NEW line, NEW q, q = <<line>>
  PROVE  q # <<>> /\ Head(q) = line /\ Tail(q) = <<>> /\ Len(q) = 1 /\ Len(<<>>) = 0
  OBVIOUS

LEMMA OneLess ==
  ASSUME NEW S, NEW q \in Seq(S), q # <<>>
  PROVE  /\ Tail(q) \in Seq(S) /\ Head(q) \in S
         /\ Len(Tail(q)) < Len(q) /\ Len(Tail(q)) \in Nat
  OBVIOUS

(* A client takes a line off its queue, or ends.                           *)
LEMMA ClientReads ==
  ASSUME SessInv, down, NEW c \in Clients, ClientActs(c), client[c] \in Alive
  PROVE  \/ client'[c] \notin Alive
         \/ /\ client' = client /\ toClient' = toClient /\ ~ClientStep(c)
         \/ /\ toClient[c] # <<>> /\ toClient' = [toClient EXCEPT ![c] = Tail(@)]
            /\ \/ client[c] = "accepting" /\ client' = [client EXCEPT ![c] = "punching"]
               \/ client[c] = "punching" /\ client' = [client EXCEPT ![c] = "playing"]
               \/ client[c] = "playing" /\ client' = client
<1>1. Types /\ client \in [Clients -> {"idle", "left", "silent"} \cup Alive]
  BY DEF SessInv, Types
<1>2. CASE Connect(c)
  BY <1>2 DEF Connect
<1>3. CASE Accepted(c) \/ Readied(c) \/ AnswerPing(c)
  BY <1>3 DEF Accepted, Readied, AnswerPing, Receives, At, clientVars
<1>4. CASE ConnectFails(c) \/ FindsClosed(c) \/ SayGoodbye(c) \/ Killed(c) \/ FallSilent(c)
  BY <1>1, <1>4
  DEF ConnectFails, FindsClosed, SayGoodbye, Killed, FallSilent, Leaves, Ends, At, Alive, Connecting
<1>5. CASE ClientStep(c)
  BY <1>3, <1>4, <1>5 DEF ClientStep
<1>6. CASE Report(c) /\ ~ClientStep(c)
  BY <1>6 DEF Report
<1>7. CASE Report(c) /\ ClientStep(c)
  BY <1>5, <1>7
<1> QED
  BY <1>2, <1>3, <1>4, <1>5, <1>6, <1>7 DEF ClientActs
(* Only clients act once the sender has ended.                             *)
LEMMA WhileDown ==
  ASSUME SessInv, down, [Next]_vars
  PROVE  /\ down'
         /\ \/ \E c \in Clients : ClientActs(c)
            \/ client' = client /\ toClient' = toClient
<1>1. CASE \E c \in Clients : ClientActs(c)
  BY <1>1, ClientMoves
<1>2. CASE \/ Tick \/ ServerStops
           \/ \E c \in Clients : HandlerStep(c) \/ PunchArrives(c)
  BY <1>2 DEF Tick, ServerStops, HandlerStep, PunchArrives
<1>3. CASE UNCHANGED vars
  BY <1>3 DEF vars, clientVars, wires
<1> QED
  BY <1>1, <1>2, <1>3 DEF Next, ClientActs

(* What a client does while the sender is down changes nothing of another. *)
LEMMA ClientAlone ==
  ASSUME SessInv, NEW c \in Clients, ClientActs(c), NEW d \in Clients, d # c
  PROVE  client'[d] = client[d] /\ toClient'[d] = toClient[d]
<1>1. Types
  BY DEF SessInv
<1> QED
  BY <1>1
  DEF ClientActs, Connect, Accepted, Readied, ConnectFails, FindsClosed, AnswerPing, Report,
      SayGoodbye, Killed, FallSilent, Leaves, Ends, Receives, At, ToServer, Send, clientVars, Types

LEMMA RepliesKept ==
  ASSUME SessInv, SessInv', \A c \in Clients : down => Replies(c), [Next]_vars, down'
  PROVE  \A c \in Clients : Replies(c)'
<1> SUFFICES ASSUME NEW c \in Clients PROVE Replies(c)'
  OBVIOUS
<1>1. CASE ~down
  <2>1. client' = client /\ toClient' = toClient
    <3>1. ASSUME NEW d \in Clients, ClientActs(d) \/ HandlerStep(d) \/ PunchArrives(d)
          PROVE  FALSE
      <4>1. down' = down
        BY <3>1, ClientMoves, HandlerMoves DEF PunchArrives
      <4> QED
        BY <1>1, <4>1
    <3>2. CASE Tick \/ UNCHANGED vars
      BY <1>1, <3>2 DEF Tick, vars
    <3>3. CASE ServerStops
      BY <3>3 DEF ServerStops, clientVars
    <3> QED
      BY <3>1, <3>2, <3>3 DEF Next, ClientActs
  <2>2. InStep(c)
    BY DEF SessInv, Local
  <2>3. Replies(c)
    BY <1>1, <2>2 DEF InStep, AcceptingOk, PunchingOk, PlayingOk, Replies
  <2> QED
    BY <2>1, <2>3 DEF Replies
<1>2. CASE down
  <2>1. Replies(c)
    BY <1>2
  <2>2. CASE client'[c] = client[c] /\ toClient'[c] = toClient[c]
    BY <2>1, <2>2 DEF Replies
  <2>3. CASE ClientActs(c) /\ client[c] \in Alive /\ client'[c] \in Alive
    <3>1. CASE client' = client /\ toClient' = toClient
      BY <2>2, <3>1
    <3>2. CASE /\ toClient[c] # <<>> /\ toClient' = [toClient EXCEPT ![c] = Tail(@)]
               /\ \/ client[c] = "accepting" /\ client' = [client EXCEPT ![c] = "punching"]
                  \/ client[c] = "punching" /\ client' = [client EXCEPT ![c] = "playing"]
                  \/ client[c] = "playing" /\ client' = client
      <4>0. Types
        BY DEF SessInv
      <4>1. toClient'[c] = Tail(toClient[c])
        BY <3>2, <4>0 DEF Types
      <4>2. CASE client[c] = "accepting" /\ client'[c] = "punching"
        BY <2>1, <3>2, <4>1, <4>2, OneLine DEF Replies
      <4>3. CASE client[c] = "punching" /\ client'[c] = "playing"
        <5>1. toClient'[c] = <<>>
          BY <2>1, <3>2, <4>1, <4>3, OneLine DEF Replies
        <5> QED
          BY <4>3, <5>1, EmptyQueue DEF Replies
      <4>4. CASE client[c] = "playing" /\ client'[c] = "playing"
        BY <2>1, <3>2, <4>1, <4>4, OneLess DEF Replies
      <4> QED
        BY <3>2, <4>0, <4>2, <4>3, <4>4 DEF Types
    <3> QED
      BY <1>2, <2>3, <3>1, <3>2, ClientReads
  <2>4. CASE client'[c] \notin Alive
    BY <2>4 DEF Replies, Alive, Connecting
  <2>5. CASE ClientActs(c) /\ client[c] \notin Alive
    <3>1. client' = client /\ toClient' = toClient
      BY <1>2, <2>5 DEF ClientActs, Connect, Accepted, Readied, ConnectFails, FindsClosed,
        AnswerPing, Report, SayGoodbye, Killed, FallSilent, Alive, Connecting
    <3> QED
      BY <2>2, <3>1
  <2> QED
    BY <1>2, <2>2, <2>3, <2>4, <2>5, WhileDown, ClientAlone
<1> QED
  BY <1>1, <1>2
(* The step a client that is alive has to take when the sender has ended.  *)
EndDue(c) ==
  \/ client[c] = "accepting" /\ toClient[c] # <<>> /\ Head(toClient[c]) \in {"accept", "error"}
  \/ client[c] = "punching" /\ toClient[c] # <<>> /\ Head(toClient[c]) = "ready"
  \/ client[c] = "playing" /\ toClient[c] # <<>> /\ Head(toClient[c]) = "ping"
  \/ toClient[c] = <<>> /\ ServerClosed(c)

LEMMA DueWhileDown ==
  ASSUME SessInv, down, NEW c \in Clients, Replies(c), client[c] \in Alive
  PROVE  EndDue(c)
<1>1. CASE client[c] = "accepting"
  BY <1>1, OneLine DEF Replies, EndDue, ServerClosed
<1>2. CASE client[c] = "punching"
  BY <1>2, OneLine DEF Replies, EndDue, ServerClosed
<1>3. CASE client[c] = "playing"
  <2>1. CASE toClient[c] = <<>>
    BY <2>1 DEF EndDue, ServerClosed
  <2>2. CASE toClient[c] # <<>>
    BY <1>3, <2>2, OneLess DEF Replies, EndDue
  <2> QED
    BY <2>1, <2>2
<1> QED
  BY <1>1, <1>2, <1>3 DEF Alive, Connecting

(* Once the sender has ended, a client that is alive always has a step to  *)
(* take, which takes a line off a queue that nobody adds to or ends the    *)
(* client, and none begins: so it stops after as many steps as there were  *)
(* lines on the way to it, and one more (lib.rs:238-258).  With threads    *)
(* that run that is why StopReachesClients holds.                          *)
THEOREM TheEndIsNear ==
  Spec => /\ [](down => \A c \in Clients : client[c] \in Alive => EndDue(c))
          /\ [][down =>
                  /\ down'
                  /\ \A c \in Clients :
                       /\ client[c] \notin Alive => client'[c] \notin Alive
                       /\ client[c] \in Alive =>
                            \/ client'[c] \notin Alive
                            \/ /\ Len(toClient'[c]) <= Len(toClient[c])
                               /\ ClientStep(c) => Len(toClient'[c]) < Len(toClient[c])]_vars
<1> DEFINE Heard == \A c \in Clients : down => Replies(c)
           Less(c) == /\ client[c] \notin Alive => client'[c] \notin Alive
                      /\ client[c] \in Alive =>
                           \/ client'[c] \notin Alive
                           \/ /\ Len(toClient'[c]) <= Len(toClient[c])
                              /\ ClientStep(c) => Len(toClient'[c]) < Len(toClient[c])
<1>1. Init => Heard
  BY DEF Init
<1>2. SessInv /\ SessInv' /\ Heard /\ [Next]_vars => Heard'
  BY RepliesKept
<1>3. Spec => []Heard
  BY <1>1, <1>2, AlwaysInStep, PTL DEF Spec
<1>4. SessInv /\ Heard => (down => \A c \in Clients : client[c] \in Alive => EndDue(c))
  BY DueWhileDown
<1>5. ASSUME SessInv, Heard, [Next]_vars, down
      PROVE  down' /\ \A c \in Clients : Less(c)
  <2>1. down'
    BY <1>5, WhileDown
  <2>2. ASSUME NEW c \in Clients PROVE Less(c)
    <3>1. Types /\ toClient[c] \in Seq(ToClientLines) /\ Len(toClient[c]) \in Nat
      BY <1>5 DEF SessInv, Types
    <3>2. ASSUME ClientActs(c), client[c] \in Alive PROVE Less(c)
      <4>1. CASE toClient[c] # <<>> /\ toClient' = [toClient EXCEPT ![c] = Tail(@)]
        <5>1. toClient'[c] = Tail(toClient[c])
          BY <3>1, <4>1 DEF Types
        <5>2. Len(toClient'[c]) < Len(toClient[c]) /\ Len(toClient'[c]) \in Nat
          BY <3>1, <4>1, <5>1, OneLess, Zenon
        <5> HIDE DEF Less
        <5>3. Len(toClient'[c]) <= Len(toClient[c])
          BY <3>1, <5>2
        <5> QED
          BY <3>2, <5>2, <5>3, Zenon DEF Less
      <4>2. CASE toClient' = toClient /\ ~ClientStep(c)
        BY <3>1, <3>2, <4>2
      <4>3. CASE client'[c] \notin Alive
        BY <3>2, <4>3
      <4> QED
        BY <1>5, <3>2, <4>1, <4>2, <4>3, ClientReads
    <3>3. ASSUME ClientActs(c), client[c] \notin Alive PROVE Less(c)
      <4>1. client' = client
        BY <1>5, <3>3 DEF ClientActs, Connect, Accepted, Readied, ConnectFails, FindsClosed,
          AnswerPing, Report, SayGoodbye, Killed, FallSilent, Alive, Connecting
      <4> QED
        BY <3>3, <4>1
    <3>4. CASE ClientStep(c)
      BY <3>2, <3>3, <3>4 DEF ClientStep, ClientActs
    <3>5. CASE ~ClientStep(c) /\ client'[c] = client[c] /\ toClient'[c] = toClient[c]
      BY <3>1, <3>5
    <3> QED
      BY <1>5, <3>2, <3>3, <3>4, <3>5, WhileDown, ClientAlone
  <2> QED
    BY <2>1, <2>2
<1>6. SessInv /\ Heard /\ [Next]_vars => [down => down' /\ \A c \in Clients : Less(c)]_vars
  BY <1>5
<1>7. Spec => [](down => \A c \in Clients : client[c] \in Alive => EndDue(c))
  BY <1>3, <1>4, AlwaysInStep, PTL
<1>8. Spec => [][down => down' /\ \A c \in Clients : Less(c)]_vars
  BY <1>3, <1>6, AlwaysInStep, PTL DEF Spec
<1> QED
  BY <1>7, <1>8, PTL
=============================================================================
