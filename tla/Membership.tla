------------------------------ MODULE Membership ------------------------------
(***************************************************************************)
(* What the control server and its registry promise: a client is admitted  *)
(* only if it holds the pairing token, listens once its address is known,  *)
(* is removed for good, is not removed while it listens unless it departed *)
(* or the sender stopped, and is removed eventually when it has.           *)
(***************************************************************************)
CONSTANTS Clients, Trusted

VARIABLES
  phase,            \* client -> "outside", "admitted", "listening", "removed"
  departed,         \* clients that have left or fallen silent
  stopped           \* has the sender stopped?

vars == <<phase, departed, stopped>>

Init ==
  /\ phase = [c \in Clients |-> "outside"]
  /\ departed = {}
  /\ stopped = FALSE

Admit(c) ==
  /\ c \in Trusted /\ phase[c] = "outside"
  /\ phase' = [phase EXCEPT ![c] = "admitted"]
  /\ UNCHANGED <<departed, stopped>>

Listen(c) ==
  /\ phase[c] = "admitted"
  /\ phase' = [phase EXCEPT ![c] = "listening"]
  /\ UNCHANGED <<departed, stopped>>

(* A handshake may be given up; a listener only when it has departed.      *)
Remove(c) ==
  /\ phase[c] \in {"outside", "admitted"} \/ (phase[c] = "listening" /\ c \in departed)
  /\ phase' = [phase EXCEPT ![c] = "removed"]
  /\ UNCHANGED <<departed, stopped>>

Depart(c) ==
  /\ departed' = departed \cup {c}
  /\ UNCHANGED <<phase, stopped>>

(* The sender's process ends, and every session with it.                   *)
Stop ==
  /\ stopped' = TRUE
  /\ phase' = [c \in Clients |-> "removed"]
  /\ UNCHANGED departed

Next ==
  \/ \E c \in Clients : Admit(c) \/ Listen(c) \/ Remove(c) \/ Depart(c)
  \/ Stop

Spec ==
  /\ Init /\ [][Next]_vars
  /\ \A c \in Clients : WF_vars(c \in departed /\ Remove(c))
=============================================================================
