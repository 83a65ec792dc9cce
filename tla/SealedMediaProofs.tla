--------------------------- MODULE SealedMediaProofs ---------------------------
(***************************************************************************)
(* Nonces never repeat, and genuine packets open, for every wire space and *)
(* every stream length.                                                    *)
(***************************************************************************)
EXTENDS SealedMedia, SeqExtenderProofs, TLAPS

Base == first - Wire(first)

(* The sender: every packet is sealed under its distance from the start of *)
(* the cycle the stream began in.                                          *)
SenderInv ==
  /\ first \in Nat /\ newest \in Nat \cup {None} /\ sealer \in Extender
  /\ DOMAIN sealed \subseteq Nat
  /\ newest = None => ~sealer.started /\ sealer.cycles = 0 /\ DOMAIN sealed = {}
  /\ newest # None => newest >= first /\ Tracks(sealer, Base, newest)
  /\ \A n \in DOMAIN sealed : n >= first /\ n <= newest /\ sealed[n] = n - Base

(* The receivers: an opener that started stands no further than the sealer,*)
ReceiverInv ==
  /\ heard \in [Receivers -> Nat \cup {None}]
  /\ opener \in [Receivers -> Extender]
  /\ \A r \in Receivers :
       /\ ~opener[r].started => opener[r].cycles = 0
       /\ opener[r].started =>
            /\ newest # None
            /\ opener[r].cycles * Modulus + opener[r].highest <= newest - Base

(* and if it heard the stream before the number wrapped, it tracks what it *)
(* receives.                                                               *)
FollowsInv ==
  \A r \in Receivers :
    /\ heard[r] = None => ~opener[r].started /\ opener[r].cycles = 0
    /\ heard[r] # None => heard[r] >= first /\ Tracks(opener[r], Base, heard[r])

-----------------------------------------------------------------------------
LEMMA BaseFacts ==
  ASSUME first \in Nat
  PROVE  CycleBase(Base) /\ Base \in Nat /\ Base <= first
  BY CycleStartIsBase DEF Base, CycleBase

LEMMA InitInv == Init => SenderInv /\ ReceiverInv /\ FollowsInv
  BY SealedAssumption, ModulusAssumption
  DEF Init, SenderInv, ReceiverInv, FollowsInv, FreshExtender, Extender, WireNumber, None

(* What sealing a packet gives it, and where it leaves the sealer.         *)
LEMMA SealExact ==
  ASSUME SenderInv, NEW n \in Nat, Seal(n)
  PROVE  /\ Nonce(sealer, Wire(n)) = n - Base
         /\ n >= first /\ n \notin DOMAIN sealed
         /\ sealer' \in Extender /\ Tracks(sealer', Base, n)
<1>1. CASE newest = None
  <2>1. n = first /\ sealer' = Commit(sealer, Wire(n)) /\ DOMAIN sealed = {}
    BY <1>1 DEF Seal, SenderInv
  <2>2. /\ Peek(sealer, Wire(n)) = n - (n - Wire(n))
        /\ Commit(sealer, Wire(n)) \in Extender
        /\ Tracks(Commit(sealer, Wire(n)), n - Wire(n), n)
    BY <1>1, FirstTracks DEF SenderInv
  <2> QED
    BY <2>1, <2>2 DEF Base, Nonce
<1>2. CASE newest # None
  <2>1. /\ newest \in Nat /\ newest >= first /\ first \in Nat
        /\ n > newest /\ n <= newest + 1 + MaxSkip
        /\ sealer' = Commit(sealer, Wire(n))
        /\ sealer \in Extender /\ Tracks(sealer, Base, newest)
    BY <1>2 DEF Seal, SenderInv, None
  <2>2. Near(n, newest)
    BY <2>1, SealedAssumption, ModulusAssumption DEF Near
  <2>3. CycleBase(Base) /\ Base \in Nat /\ n >= Base /\ n >= first
    BY <2>1, BaseFacts
  <2>4. Peek(sealer, Wire(n)) = n - Base
    BY <2>1, <2>2, <2>3, PeekExact
  <2>5. /\ Commit(sealer, Wire(n)) \in Extender
        /\ Tracks(Commit(sealer, Wire(n)), Base, n)
    BY <2>1, <2>2, <2>3, CommitTracks
  <2>6. n \notin DOMAIN sealed
    BY <2>1 DEF SenderInv
  <2> QED
    BY <2>1, <2>3, <2>4, <2>5, <2>6 DEF Nonce
<1> QED
  BY <1>1, <1>2

LEMMA SenderStep == SenderInv /\ [Next]_vars => SenderInv'
<1> SUFFICES ASSUME SenderInv, [Next]_vars PROVE SenderInv'
  OBVIOUS
<1>1. ASSUME NEW n \in 0 .. MaxNumber, Seal(n) PROVE SenderInv'
  <2>0. n \in Nat /\ first' = first /\ newest' = n /\ Base' = Base
    BY <1>1, SealedAssumption DEF Seal, Base
  <2>1. /\ Nonce(sealer, Wire(n)) = n - Base
        /\ n >= first /\ n \notin DOMAIN sealed
        /\ sealer' \in Extender /\ Tracks(sealer', Base, n)
    BY <1>1, <2>0, SealExact
  <2>2. newest # None => newest \in Nat /\ n >= newest
    BY <1>1, <2>0 DEF Seal, SenderInv
  <2>3. sealed' = [m \in DOMAIN sealed \cup {n} |->
                     IF m = n THEN n - Base ELSE sealed[m]]
    BY <1>1, <2>1 DEF Seal
  <2>4. \A m \in DOMAIN sealed' : m \in Nat /\ m >= first /\ m <= n /\ sealed'[m] = m - Base
    BY <2>0, <2>1, <2>2, <2>3 DEF SenderInv
  <2>5. newest' # None
    BY <2>0 DEF None
  <2> QED
    BY <2>0, <2>1, <2>4, <2>5 DEF SenderInv
<1>2. ASSUME UNCHANGED <<first, newest, sealer, sealed>> PROVE SenderInv'
  BY <1>2 DEF SenderInv, Base, Tracks
<1> QED
  BY <1>1, <1>2 DEF Next, Receive, ReceiveForeign, Reconnect, vars

LEMMA SenderInvariant == Spec => []SenderInv
  BY InitInv, SenderStep, PTL DEF Spec

(* No nonce is ever used twice in a stream.                                *)
THEOREM NonceUnique == Spec => []NonceNeverRepeats
<1>1. SenderInv => NonceNeverRepeats
  <2> SUFFICES ASSUME SenderInv, NEW m \in DOMAIN sealed, NEW n \in DOMAIN sealed,
                      sealed[m] = sealed[n]
               PROVE  m = n
    BY DEF NonceNeverRepeats
  <2>1. m \in Nat /\ n \in Nat /\ Base \in Nat
    BY BaseFacts DEF SenderInv
  <2>2. m - Base = n - Base
    BY DEF SenderInv
  <2> HIDE DEF Base
  <2> QED
    BY <2>1, <2>2
<1> QED
  BY <1>1, SenderInvariant, PTL

-----------------------------------------------------------------------------
(* However an opener answers a datagram it stays an extender, and stands at*)
(* the packet opened if it moved.                                          *)
LEMMA OpenerMoves ==
  ASSUME NEW e \in Extender, ~e.started => e.cycles = 0,
         NEW seq \in WireNumber, NEW nonce, NEW c, c = AfterOpening(e, seq, nonce)
  PROVE  /\ c \in Extender
         /\ ~c.started => c.cycles = 0
         /\ \/ c = e
            \/ nonce = Peek(e, seq) /\ c.cycles * Modulus + c.highest = nonce
<1>1. CASE nonce = Nonce(e, seq)
  <2>1. c = Commit(e, seq) /\ nonce = Peek(e, seq)
    BY <1>1 DEF AfterOpening, Nonce
  <2> QED
    BY <2>1, ExtenderType, CommitStands
<1>2. CASE nonce # Nonce(e, seq)
  BY <1>2 DEF AfterOpening
<1> QED
  BY <1>1, <1>2

LEMMA ReceiverStep ==
  ASSUME SenderInv, SenderInv', ReceiverInv, [Next]_vars
  PROVE  ReceiverInv'
<1>0. first \in Nat /\ Base \in Nat
  BY BaseFacts DEF SenderInv
<1>1. ASSUME NEW n \in 0 .. MaxNumber, Seal(n) PROVE ReceiverInv'
  <2>1. /\ newest' = n /\ n \in Nat /\ first' = first /\ Base' = Base
        /\ opener' = opener /\ heard' = heard /\ newest' # None
        /\ newest # None => newest \in Nat /\ n > newest
    BY <1>1, SealedAssumption DEF Seal, Base, None, SenderInv
  <2>2. ASSUME NEW r \in Receivers, opener[r].started
        PROVE  opener[r].cycles * Modulus + opener[r].highest <= n - Base
    <3>1. opener[r].cycles * Modulus + opener[r].highest \in Int
      BY ModulusAssumption DEF ReceiverInv, Extender, WireNumber
    <3>2. /\ opener[r].cycles * Modulus + opener[r].highest <= newest - Base
          /\ newest # None
      BY <2>2 DEF ReceiverInv
    <3> HIDE DEF Base
    <3> QED
      BY <1>0, <2>1, <3>1, <3>2
  <2> QED
    BY <2>1, <2>2 DEF ReceiverInv
<1>2. ASSUME NEW r \in Receivers, NEW seq \in WireNumber, NEW nonce,
             opener' = [opener EXCEPT ![r] = AfterOpening(@, seq, nonce)],
             nonce = None \/ (newest # None /\ nonce <= newest - Base),
             heard' \in [Receivers -> Nat \cup {None}],
             UNCHANGED <<first, newest, sealer, sealed>>
      PROVE  ReceiverInv'
  <2> DEFINE c == AfterOpening(opener[r], seq, nonce)
  <2>1. opener[r] \in Extender /\ (~opener[r].started => opener[r].cycles = 0)
    BY DEF ReceiverInv
  <2>2. /\ c \in Extender
        /\ ~c.started => c.cycles = 0
        /\ \/ c = opener[r]
           \/ nonce = Peek(opener[r], seq) /\ c.cycles * Modulus + c.highest = nonce
    BY <2>1, OpenerMoves
  <2>3. Peek(opener[r], seq) # None
    BY <2>1, ExtenderType DEF None
  <2>4. opener' \in [Receivers -> Extender] /\ opener'[r] = c
        /\ \A s \in Receivers \ {r} : opener'[s] = opener[s]
    BY <1>2, <2>2 DEF ReceiverInv
  <2>5. Base' = Base /\ newest' = newest
    BY <1>2 DEF Base
  <2> HIDE DEF c
  <2>6. c.started => newest # None /\ c.cycles * Modulus + c.highest <= newest - Base
    BY <1>2, <2>2, <2>3 DEF ReceiverInv
  <2> QED
    BY <1>2, <2>2, <2>4, <2>5, <2>6 DEF ReceiverInv
<1>3. ASSUME NEW r \in Receivers, NEW n \in DOMAIN sealed, Receive(r, n)
      PROVE  ReceiverInv'
  <2>1. /\ n \in Nat /\ sealed[n] = n - Base /\ n <= newest /\ newest # None
        /\ newest \in Nat
    BY DEF SenderInv, None
  <2>2. Wire(n) \in WireNumber
    BY <2>1, WireType
  <2>3. sealed[n] <= newest - Base
    <3> HIDE DEF Base
    <3> QED
      BY <1>0, <2>1
  <2>4. heard' \in [Receivers -> Nat \cup {None}]
    BY <1>3, <2>1 DEF Receive, ReceiverInv
  <2> QED
    BY <1>2, <1>3, <2>1, <2>2, <2>3, <2>4 DEF Receive
<1>4. ASSUME NEW r \in Receivers, NEW seq \in WireNumber, ReceiveForeign(r, seq)
      PROVE  ReceiverInv'
  BY <1>2, <1>4 DEF ReceiveForeign, ReceiverInv
<1>5. ASSUME NEW r \in Receivers, Reconnect(r) PROVE ReceiverInv'
  <2>1. FreshExtender \in Extender
    BY ModulusAssumption DEF FreshExtender, Extender, WireNumber
  <2>2. Base' = Base
    BY <1>5 DEF Reconnect, Base
  <2> QED
    BY <1>5, <2>1, <2>2 DEF Reconnect, ReceiverInv, FreshExtender
<1>6. CASE UNCHANGED vars
  BY <1>6 DEF vars, ReceiverInv, Base
<1> QED
  BY <1>1, <1>3, <1>4, <1>5, <1>6 DEF Next

(* No opener ever stands ahead of the sealer, late joiners included.       *)
THEOREM NeverAhead == Spec => []OpenerNeverAhead
<1>1. SenderInv /\ ReceiverInv => OpenerNeverAhead
  <2> SUFFICES ASSUME SenderInv, ReceiverInv, NEW r \in Receivers, opener[r].started
               PROVE  /\ sealer.started
                      /\ opener[r].cycles * Modulus + opener[r].highest
                           <= sealer.cycles * Modulus + sealer.highest
    BY DEF OpenerNeverAhead
  <2> QED
    BY DEF SenderInv, ReceiverInv, Tracks
<1> QED
  BY <1>1, InitInv, SenderInvariant, ReceiverStep, PTL DEF Spec

-----------------------------------------------------------------------------
(* What the network may bring a receiver that heard the stream before its  *)
(* number wrapped opens, and the opener tracks it.                         *)
LEMMA HeardExact ==
  ASSUME JoinAfterWrap = FALSE, SenderInv, ReceiverInv, FollowsInv,
         NEW r \in Receivers, NEW n \in DOMAIN sealed, Deliverable(r, n)
  PROVE  /\ n \in Nat /\ n >= first
         /\ Nonce(opener[r], Wire(n)) = sealed[n]
         /\ Tracks(Commit(opener[r], Wire(n)), Base, IF n > heard[r] THEN n ELSE heard[r])
<1>1. /\ n \in Nat /\ n >= first /\ sealed[n] = n - Base /\ first \in Nat
      /\ opener[r] \in Extender /\ heard[r] \in Nat \cup {None}
  BY DEF SenderInv, ReceiverInv
<1>2. CycleBase(Base) /\ Base \in Nat /\ Base <= first
  BY <1>1, BaseFacts
<1>3. CASE heard[r] = None
  <2>1. n - Wire(n) = Base
    BY <1>3 DEF Deliverable, Base
  <2>2. ~opener[r].started /\ opener[r].cycles = 0
    BY <1>3 DEF FollowsInv
  <2>3. /\ Peek(opener[r], Wire(n)) = n - (n - Wire(n))
        /\ Tracks(Commit(opener[r], Wire(n)), n - Wire(n), n)
    BY <1>1, <2>2, FirstTracks
  <2>4. n > heard[r]
    BY <1>1, <1>3 DEF None
  <2> QED
    BY <1>1, <2>1, <2>3, <2>4 DEF Nonce
<1>4. CASE heard[r] # None
  <2>1. /\ heard[r] \in Nat /\ heard[r] >= first
        /\ Tracks(opener[r], Base, heard[r])
    BY <1>1, <1>4 DEF FollowsInv
  <2>2. Near(n, heard[r])
    BY <1>1, <1>4, <2>1, SealedAssumption, ModulusAssumption DEF Deliverable, Near
  <2>3. n >= Base
    <3> HIDE DEF Base
    <3> QED
      BY <1>1, <1>2
  <2>4. Peek(opener[r], Wire(n)) = n - Base
    BY <1>1, <1>2, <2>1, <2>2, <2>3, PeekExact
  <2>5. Tracks(Commit(opener[r], Wire(n)), Base, IF n >= heard[r] THEN n ELSE heard[r])
    BY <1>1, <1>2, <2>1, <2>2, <2>3, CommitTracks
  <2>6. (IF n >= heard[r] THEN n ELSE heard[r]) = (IF n > heard[r] THEN n ELSE heard[r])
    BY <1>1, <2>1
  <2> QED
    BY <1>1, <2>4, <2>5, <2>6 DEF Nonce
<1> QED
  BY <1>3, <1>4

LEMMA FollowsStep ==
  ASSUME JoinAfterWrap = FALSE, SenderInv, ReceiverInv, FollowsInv, [Next]_vars
  PROVE  FollowsInv'
<1>1. ASSUME NEW n \in 0 .. MaxNumber, Seal(n) PROVE FollowsInv'
  BY <1>1 DEF Seal, FollowsInv, Base, Tracks
<1>2. ASSUME NEW r \in Receivers, NEW n \in DOMAIN sealed, Receive(r, n) PROVE FollowsInv'
  <2>1. /\ n \in Nat /\ n >= first
        /\ Nonce(opener[r], Wire(n)) = sealed[n]
        /\ Tracks(Commit(opener[r], Wire(n)), Base, IF n > heard[r] THEN n ELSE heard[r])
    BY <1>2, HeardExact DEF Receive
  <2>2. /\ first' = first /\ Base' = Base /\ first \in Nat
        /\ heard \in [Receivers -> Nat \cup {None}] /\ opener \in [Receivers -> Extender]
        /\ opener' = [opener EXCEPT ![r] = Commit(@, Wire(n))]
        /\ heard' = [heard EXCEPT ![r] = IF n > @ THEN n ELSE @]
    BY <1>2, <2>1 DEF Receive, AfterOpening, Base, SenderInv, ReceiverInv
  <2>3. /\ Tracks(opener'[r], Base', heard'[r]) /\ heard'[r] >= first'
    BY <2>1, <2>2 DEF FollowsInv, None
  <2>4. heard'[r] # None
    BY <2>1, <2>2, <2>3 DEF None
  <2>5. \A s \in Receivers \ {r} : opener'[s] = opener[s] /\ heard'[s] = heard[s]
    BY <2>2
  <2> QED
    BY <2>2, <2>3, <2>4, <2>5 DEF FollowsInv
<1>3. ASSUME NEW r \in Receivers, NEW seq \in WireNumber, ReceiveForeign(r, seq)
      PROVE  FollowsInv'
  <2>1. Nonce(opener[r], seq) # None
    BY ExtenderType DEF Nonce, None, ReceiverInv
  <2>2. opener' = opener /\ heard' = heard /\ first' = first /\ Base' = Base
    BY <1>3, <2>1 DEF ReceiveForeign, AfterOpening, ReceiverInv, Base
  <2> QED
    BY <2>2 DEF FollowsInv
<1>4. ASSUME NEW r \in Receivers, Reconnect(r) PROVE FollowsInv'
  <2>1. /\ opener' = [opener EXCEPT ![r] = FreshExtender]
        /\ heard' = [heard EXCEPT ![r] = None]
        /\ first' = first /\ Base' = Base
        /\ heard \in [Receivers -> Nat \cup {None}] /\ opener \in [Receivers -> Extender]
    BY <1>4 DEF Reconnect, Base, ReceiverInv
  <2>2. ~opener'[r].started /\ opener'[r].cycles = 0 /\ heard'[r] = None
    BY <2>1 DEF FreshExtender
  <2>3. \A s \in Receivers \ {r} : opener'[s] = opener[s] /\ heard'[s] = heard[s]
    BY <2>1
  <2> QED
    BY <2>1, <2>2, <2>3 DEF FollowsInv
<1>5. CASE UNCHANGED vars
  BY <1>5 DEF vars, FollowsInv, Base, Tracks
<1> QED
  BY <1>1, <1>2, <1>3, <1>4, <1>5 DEF Next

(* A receiver whose first packet is from before the sender's number wrapped*)
(* opens every genuine packet that reaches it, for as long as it stays,    *)
(* whatever foreign datagrams reach it besides.                            *)
THEOREM GenuineHeard ==
  ASSUME JoinAfterWrap = FALSE
  PROVE  Spec => []GenuineOpens
<1>1. SenderInv /\ ReceiverInv /\ FollowsInv => GenuineOpens
  BY HeardExact DEF GenuineOpens
<1>2. /\ SenderInv /\ SenderInv' /\ ReceiverInv /\ FollowsInv /\ [Next]_vars
      => ReceiverInv' /\ FollowsInv'
  BY ReceiverStep, FollowsStep
<1> QED
  BY <1>1, <1>2, InitInv, SenderInvariant, PTL DEF Spec

-----------------------------------------------------------------------------
(* What is sealed keeps its type, with the rest.                           *)
SealedTyped == first \in FirstNumbers /\ sealed \in [DOMAIN sealed -> Nat]

LEMMA SealedTypedStep ==
  ASSUME SenderInv, SenderInv', SealedTyped, [Next]_vars
  PROVE  SealedTyped'
<1>1. ASSUME NEW n \in 0 .. MaxNumber, Seal(n) PROVE SealedTyped'
  <2>1. n \in Nat /\ first' = first
    BY <1>1, SealedAssumption DEF Seal
  <2>2. /\ Nonce(sealer, Wire(n)) = n - Base /\ n >= first
    BY <1>1, <2>1, SealExact
  <2>3. Base \in Nat /\ Base <= first /\ first \in Nat
    BY BaseFacts DEF SenderInv
  <2>4. n - Base \in Nat
    <3> HIDE DEF Base
    <3> QED
      BY <2>1, <2>2, <2>3
  <2> DEFINE more == DOMAIN sealed \cup {n}
             value(m) == IF m = n THEN n - Base ELSE sealed[m]
  <2>5. sealed' = [m \in more |-> value(m)]
    BY <1>1, <2>2 DEF Seal
  <2>6. \A m \in more : value(m) \in Nat
    BY <2>4 DEF SealedTyped
  <2> HIDE DEF more, value
  <2>7. sealed' \in [more -> Nat] /\ DOMAIN sealed' = more
    BY <2>5, <2>6
  <2> QED
    BY <2>1, <2>7 DEF SealedTyped
<1>2. ASSUME UNCHANGED <<first, sealed>> PROVE SealedTyped'
  BY <1>2 DEF SealedTyped
<1> QED
  BY <1>1, <1>2 DEF Next, Receive, ReceiveForeign, Reconnect, vars

(* Nothing but a packet of the sender's starts an opener.                  *)
StartedInv == \A r \in Receivers : opener[r].started => heard[r] # None

LEMMA StartedStep ==
  ASSUME SenderInv, ReceiverInv, StartedInv, [Next]_vars
  PROVE  StartedInv'
<1>1. heard \in [Receivers -> Nat \cup {None}] /\ opener \in [Receivers -> Extender]
  BY DEF ReceiverInv
<1>2. ASSUME NEW r \in Receivers, NEW n \in DOMAIN sealed, Receive(r, n) PROVE StartedInv'
  <2>1. n \in Nat
    BY DEF SenderInv
  <2>2. heard'[r] # None
    BY <1>1, <1>2, <2>1 DEF Receive, None
  <2> QED
    BY <1>1, <1>2, <2>2 DEF Receive, StartedInv
<1>3. ASSUME NEW r \in Receivers, NEW seq \in WireNumber, ReceiveForeign(r, seq)
      PROVE  StartedInv'
  <2>1. Nonce(opener[r], seq) # None
    BY <1>1, ExtenderType DEF Nonce, None
  <2>2. opener' = opener /\ heard' = heard
    BY <1>1, <1>3, <2>1 DEF ReceiveForeign, AfterOpening
  <2> QED
    BY <2>2 DEF StartedInv
<1>4. ASSUME NEW r \in Receivers, Reconnect(r) PROVE StartedInv'
  BY <1>1, <1>4 DEF Reconnect, StartedInv, FreshExtender
<1>5. ASSUME UNCHANGED <<opener, heard>> PROVE StartedInv'
  BY <1>5 DEF StartedInv
<1> QED
  BY <1>2, <1>3, <1>4, <1>5 DEF Next, Seal, vars

(* Counters, openers and nonces keep their types, for every wire space: no *)
(* extended number is ever negative, and no foreign datagram starts an     *)
(* opener (crypto.rs:111-176).                                             *)
THEOREM SealedMediaTyped == Spec => []TypeOK
<1>1. Init => SealedTyped
  BY DEF Init, SealedTyped
<1>2. SenderInv /\ SenderInv' /\ SealedTyped /\ [Next]_vars => SealedTyped'
  BY SealedTypedStep
<1>3. Init => StartedInv
  BY DEF Init, StartedInv, FreshExtender
<1>4. SenderInv /\ ReceiverInv /\ SealedTyped /\ StartedInv => TypeOK
  BY DEF SenderInv, ReceiverInv, SealedTyped, StartedInv, TypeOK
<1> QED
  BY <1>1, <1>2, <1>3, <1>4, InitInv, SenderInvariant, ReceiverStep, StartedStep, PTL DEF Spec
=============================================================================
