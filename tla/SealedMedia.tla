------------------------------ MODULE SealedMedia ------------------------------
(***************************************************************************)
(* core/src/crypto.rs with the loops that drive it: the sender's relay     *)
(* (player/src/relay.rs) seals every packet of the encoder once and sends  *)
(* it to all receivers; each receiver (client/src/lib.rs) opens what it    *)
(* gets.  Sealer and opener extend the 16-bit sequence number separately   *)
(* and must agree on it, because it is the nonce.                          *)
(*                                                                         *)
(* A cipher is modelled by its contract: a datagram opens exactly when it  *)
(* was sealed under the nonce the opener takes.  A datagram nobody sealed  *)
(* has no nonce and never opens.  The SSRC half of the nonce is constant   *)
(* within a stream and left out.                                           *)
(***************************************************************************)
EXTENDS SeqExtender, FiniteSets

CONSTANTS
  Receivers,
  FirstNumbers,     \* numbers the encoder may begin with
  MaxNumber,        \* bound: the last number sealed
  MaxSkip,          \* packets the ingest socket may lose in a row
  Displacement,     \* how far a packet may stray from the newest one received
  JoinAfterWrap     \* may the first packet a receiver gets be one sealed
                    \* after the sender's number wrapped?

ASSUME SealedAssumption ==
  /\ FirstNumbers \subseteq Nat /\ MaxNumber \in Nat
  /\ MaxSkip \in Nat /\ 2 * (MaxSkip + 1) < Modulus
  /\ Displacement \in Nat /\ 2 * Displacement < Modulus
  /\ JoinAfterWrap \in BOOLEAN

VARIABLES
  first,            \* number the encoder began with
  newest,           \* number sealed last, or None
  sealer,           \* Sealer.sequence
  sealed,           \* number -> nonce it was sealed under
  opener,           \* receiver -> Opener.sequence, or a fresh one
  heard             \* receiver -> newest number received, or None

vars == <<first, newest, sealer, sealed, opener, heard>>

None == -1

Init ==
  /\ first \in FirstNumbers
  /\ newest = None
  /\ sealer = FreshExtender
  /\ sealed = [n \in {} |-> 0]
  /\ opener = [r \in Receivers |-> FreshExtender]
  /\ heard = [r \in Receivers |-> None]

-----------------------------------------------------------------------------
WireNonce(e, seq) == seq                                              \* mutant

(* The sequence half of the nonce taken for a packet.                      *)
Nonce(e, seq) == Peek(e, seq)

(* Sealer::seal, on the next packet the ingest socket delivers.            *)
Seal(n) ==
  /\ n <= MaxNumber
  /\ IF newest = None THEN n = first ELSE n > newest /\ n <= newest + 1 + MaxSkip
  /\ newest' = n
  /\ sealed' = [m \in DOMAIN sealed \cup {n} |->
                  IF m = n THEN Nonce(sealer, Wire(n)) ELSE sealed[m]]
  /\ sealer' = Commit(sealer, Wire(n))
  /\ UNCHANGED <<first, opener, heard>>

CommitAnyway(e, seq, nonce) == Commit(e, seq)                         \* mutant

(* Opener::open: the extender moves only for a packet that opens.          *)
AfterOpening(e, seq, nonce) == IF nonce = Nonce(e, seq) THEN Commit(e, seq) ELSE e

(* What the network may bring receiver r.                                  *)
Deliverable(r, n) ==
  \/ /\ heard[r] = None
     /\ n - Wire(n) = first - Wire(first) \/ JoinAfterWrap
  \/ /\ heard[r] # None
     /\ n - heard[r] <= Displacement /\ heard[r] - n <= Displacement

Receive(r, n) ==
  /\ n \in DOMAIN sealed
  /\ Deliverable(r, n)
  /\ opener' = [opener EXCEPT ![r] = AfterOpening(@, Wire(n), sealed[n])]
  /\ heard' = [heard EXCEPT ![r] = IF n > @ THEN n ELSE @]
  /\ UNCHANGED <<first, newest, sealer, sealed>>

(* A datagram nobody sealed.                                               *)
ReceiveForeign(r, seq) ==
  /\ opener' = [opener EXCEPT ![r] = AfterOpening(@, seq, None)]
  /\ UNCHANGED <<first, newest, sealer, sealed, heard>>

(* Connecting makes a new opener (Client::connect).                        *)
Reconnect(r) ==
  /\ heard[r] # None
  /\ opener' = [opener EXCEPT ![r] = FreshExtender]
  /\ heard' = [heard EXCEPT ![r] = None]
  /\ UNCHANGED <<first, newest, sealer, sealed>>

Next ==
  \/ \E n \in 0 .. MaxNumber : Seal(n)
  \/ \E r \in Receivers, n \in DOMAIN sealed : Receive(r, n)
  \/ \E r \in Receivers, seq \in WireNumber : ReceiveForeign(r, seq)
  \/ \E r \in Receivers : Reconnect(r)

Spec == Init /\ [][Next]_vars

-----------------------------------------------------------------------------
(* Types.  Only a packet of the sender's starts an opener.                 *)
TypeOK ==
  /\ first \in FirstNumbers
  /\ newest \in Nat \cup {None}
  /\ sealer \in Extender
  /\ sealed \in [DOMAIN sealed -> Nat] /\ DOMAIN sealed \subseteq Nat
  /\ opener \in [Receivers -> Extender]
  /\ heard \in [Receivers -> Nat \cup {None}]
  /\ \A r \in Receivers : opener[r].started => heard[r] # None

(* No two packets of a stream are sealed under one nonce, across any number*)
(* of wraps of the wire number and whatever the ingest socket loses.       *)
NonceNeverRepeats ==
  \A m, n \in DOMAIN sealed : sealed[m] = sealed[n] => m = n

(* Every genuine packet that may reach a receiver opens there, whatever    *)
(* reached it before: nothing foreign walks its counter away from the      *)
(* sender's.                                                               *)
GenuineOpens ==
  \A r \in Receivers, n \in DOMAIN sealed :
    Deliverable(r, n) => Nonce(opener[r], Wire(n)) = sealed[n]

(* A receiver's counter never runs ahead of the sender's.                  *)
OpenerNeverAhead ==
  \A r \in Receivers :
    opener[r].started =>
      /\ sealer.started
      /\ opener[r].cycles * Modulus + opener[r].highest
           <= sealer.cycles * Modulus + sealer.highest
=============================================================================
