----------------------------- MODULE UplinkProofs -----------------------------
(***************************************************************************)
(* Proofs about Uplink, for every set of sessions and every bound.         *)
(***************************************************************************)
EXTENDS Uplink, TLAPS

(* A session takes its claim number once, and it is never 0.               *)
Numbered ==
  \A s \in Sessions :
    /\ handler[s] \in {"numbered", "granted"} => claim[s] # 0
    /\ handler[s] \in {"idle", "owner"} => claim[s] = 0

(* What is installed, and what the pipeline was given, are of real claims. *)
RealClaims ==
  /\ live # Nothing => live.session \in Sessions /\ live.claim # 0
  /\ \A heard \in fed : heard[1] # 0

UplinkInv == TypeOK /\ Numbered /\ RealClaims /\ HolderIsThere /\ OnlyHolderHeard

LEMMA InitUplink == Init => UplinkInv
  BY ModulusAssumption, UplinkAssumption
  DEF Init, UplinkInv, TypeOK, Numbered, RealClaims, HolderIsThere, OnlyHolderHeard,
      HandlerStates, Nothing, FreshExtender, Extender, WireNumber

LEMMA FreshIsExtender == FreshExtender \in Extender
  BY ModulusAssumption DEF FreshExtender, Extender, WireNumber

(* Committing a wire number to an extender leaves one.                     *)
LEMMA CommitIsExtender ==
  ASSUME NEW e \in Extender, NEW n \in Nat
  PROVE  Commit(e, Wire(n)) \in Extender
<1>1. Wire(n) \in WireNumber
  BY ModulusAssumption DEF Wire, WireNumber
<1> QED
  BY <1>1 DEF Commit, Extender

-----------------------------------------------------------------------------
(* Steps of a handler that leave the installed stream alone.               *)
LEMMA ClaimStep ==
  ASSUME UplinkInv, NEW s \in Sessions, ClaimUplink(s) \/ NoPipeline(s) \/ CloseSession(s)
  PROVE  UplinkInv'
<1> USE DEF UplinkInv
<1>1. /\ handler' \in [Sessions -> HandlerStates]
      /\ owner' \in Sessions \cup {Nobody}
      /\ \A t \in Sessions : t # s => handler'[t] = handler[t]
      /\ handler[s] \in {"idle", "owner", "released"}
      /\ handler'[s] \in {"owner", "released", "closed"}
      /\ handler'[s] = "owner" => handler[s] = "idle"
      /\ UNCHANGED <<encrypted, claims, claim, live, opener, pumping, fed, sent>>
  BY DEF ClaimUplink, NoPipeline, CloseSession, Goto, TypeOK, HandlerStates
<1>2. TypeOK'
  BY <1>1 DEF TypeOK
<1>3. Numbered' /\ RealClaims'
  BY <1>1 DEF Numbered, RealClaims
<1>4. HolderIsThere' /\ OnlyHolderHeard'
  BY <1>1 DEF HolderIsThere, RealClaims, OnlyHolderHeard
<1> QED
  BY <1>2, <1>3, <1>4

LEMMA NumberStep ==
  ASSUME UplinkInv, NEW s \in Sessions, TakeNumber(s)
  PROVE  UplinkInv'
<1> USE DEF UplinkInv
<1>1. /\ handler[s] = "owner" /\ claim[s] = 0
      /\ handler' = [handler EXCEPT ![s] = "numbered"]
      /\ claims' = claims + 1 /\ claims \in Nat
      /\ claim' = [claim EXCEPT ![s] = claims + 1]
      /\ UNCHANGED <<encrypted, owner, live, opener, pumping, fed, sent>>
  BY DEF TakeNumber, Goto, NextClaim, Numbered, TypeOK
<1>2. TypeOK'
  <2>1. claim' \in [Sessions -> 0 .. claims']
    BY <1>1 DEF TypeOK
  <2>2. \A t, u \in Sessions : claim'[t] = claim'[u] /\ claim'[t] # 0 => t = u
    BY <1>1 DEF TypeOK
  <2> QED
    BY <1>1, <2>1, <2>2 DEF TypeOK, HandlerStates
<1>3. Numbered'
  BY <1>1 DEF Numbered, TypeOK
<1>4. RealClaims'
  BY <1>1 DEF RealClaims
<1>5. HolderIsThere'
  BY <1>1 DEF HolderIsThere, RealClaims, TypeOK
<1>6. OnlyHolderHeard'
  BY <1>1 DEF OnlyHolderHeard, RealClaims, TypeOK
<1> QED
  BY <1>2, <1>3, <1>4, <1>5, <1>6

LEMMA InstallStep ==
  ASSUME UplinkInv, NEW s \in Sessions, Install(s)
  PROVE  UplinkInv'
<1> USE DEF UplinkInv
<1>1. /\ handler[s] = "numbered" /\ claim[s] # 0 /\ claim[s] \in Nat
      /\ handler' = [handler EXCEPT ![s] = "granted"]
      /\ live' = [session |-> s, claim |-> claim[s]] /\ live' # Nothing
      /\ opener' \in Extender
      /\ UNCHANGED <<encrypted, owner, claims, claim, pumping, fed, sent>>
  BY FreshIsExtender DEF Install, Goto, Numbered, TypeOK, Nothing
<1>2. TypeOK'
  BY <1>1 DEF TypeOK, HandlerStates
<1>3. Numbered'
  BY <1>1 DEF Numbered, TypeOK
<1>4. RealClaims' /\ HolderIsThere' /\ OnlyHolderHeard'
  BY <1>1 DEF RealClaims, HolderIsThere, OnlyHolderHeard, TypeOK
<1> QED
  BY <1>2, <1>3, <1>4

(* A released stream is its own, because no two sessions share a number.   *)
LEMMA ReleasesOwn ==
  ASSUME UplinkInv, NEW s \in Sessions, Release(s), live # Nothing
  PROVE  IF live.session = s THEN live' = Nothing ELSE live' = live
<1>1. handler[s] = "granted" /\ claim[s] # 0
  BY DEF UplinkInv, Release, Numbered
<1>2. live.session \in Sessions /\ live.claim = claim[live.session]
  BY DEF UplinkInv, RealClaims, HolderIsThere
<1>3. StillLive(s) <=> live.session = s
  BY <1>1, <1>2 DEF StillLive, UplinkInv, TypeOK
<1> QED
  BY <1>3 DEF Release

LEMMA ReleaseStep ==
  ASSUME UplinkInv, NEW s \in Sessions, Release(s)
  PROVE  UplinkInv'
<1> USE DEF UplinkInv
<1>1. /\ handler' = [handler EXCEPT ![s] = "released"]
      /\ live' \in {live, Nothing}
      /\ opener' \in Extender
      /\ UNCHANGED <<encrypted, owner, claims, claim, pumping, fed, sent>>
  BY FreshIsExtender DEF Release, Goto, TypeOK
<1>2. live' # Nothing => live' = live /\ live.session # s
  BY <1>1, ReleasesOwn DEF Nothing
<1>3. TypeOK'
  BY <1>1 DEF TypeOK, HandlerStates, Nothing
<1>4. Numbered' /\ RealClaims'
  BY <1>1 DEF Numbered, RealClaims, TypeOK
<1>5. HolderIsThere' /\ OnlyHolderHeard'
  BY <1>1, <1>2 DEF HolderIsThere, RealClaims, OnlyHolderHeard, TypeOK
<1> QED
  BY <1>3, <1>4, <1>5

(* What the pump is given changes nothing but its opener and what it has   *)
(* passed on, which is the holder's.                                       *)
LEMMA PumpStep ==
  ASSUME UplinkInv, NEW s \in Sessions, NEW n \in InFlight(s), PumpReceives(s, n)
  PROVE  UplinkInv'
<1> USE DEF UplinkInv
<1>1. n \in Nat
  BY DEF InFlight, TypeOK
<1>2. opener' \in Extender
  BY <1>1, CommitIsExtender DEF PumpReceives, TypeOK
<1>3. /\ live # Nothing
      /\ fed' \in {fed, fed \cup {<<live.claim, s>>}}
      /\ fed' # fed => s = live.session
      /\ UNCHANGED <<encrypted, handlerVars, live, pumping, sent>>
  BY DEF PumpReceives, Expected
<1>4. TypeOK'
  BY <1>2, <1>3 DEF TypeOK, handlerVars
<1>5. Numbered' /\ RealClaims' /\ HolderIsThere'
  BY <1>3 DEF Numbered, RealClaims, HolderIsThere, handlerVars
<1>6. OnlyHolderHeard'
  BY <1>3 DEF OnlyHolderHeard, HolderIsThere, handlerVars
<1> QED
  BY <1>4, <1>5, <1>6

LEMMA OtherStep ==
  ASSUME UplinkInv, (\E s \in Sessions : SendFrame(s)) \/ PumpFails \/ UNCHANGED vars
  PROVE  UplinkInv'
<1> USE DEF UplinkInv
<1>1. /\ sent' \in [Sessions -> Nat] /\ pumping' \in BOOLEAN
      /\ UNCHANGED <<encrypted, handlerVars, live, opener, fed>>
  <2>1. ASSUME NEW s \in Sessions, SendFrame(s)
        PROVE  /\ sent' \in [Sessions -> Nat] /\ UNCHANGED pumping
               /\ UNCHANGED <<encrypted, handlerVars, live, opener, fed>>
    BY <2>1 DEF SendFrame, TypeOK
  <2>2. CASE PumpFails \/ UNCHANGED vars
    BY <2>2 DEF PumpFails, vars, handlerVars, TypeOK
  <2> QED
    BY <2>1, <2>2 DEF TypeOK
<1> QED
  BY <1>1 DEF TypeOK, Numbered, RealClaims, HolderIsThere, OnlyHolderHeard, handlerVars

LEMMA StepUplink == UplinkInv /\ [Next]_vars => UplinkInv'
  BY ClaimStep, NumberStep, InstallStep, ReleaseStep, PumpStep, OtherStep DEF Next

LEMMA AlwaysUplink == Spec => []UplinkInv
  BY InitUplink, StepUplink, PTL DEF Spec

(* No two sessions ever hold one claim number.                             *)
THEOREM UplinkTyped == Spec => []TypeOK
  BY AlwaysUplink, PTL DEF UplinkInv

(* Once every session has ended, the microphone is silent.                 *)
THEOREM HolderStays == Spec => []HolderIsThere
  BY AlwaysUplink, PTL DEF UplinkInv

(* Nobody but the holder of the microphone is heard.                       *)
THEOREM HolderAlone == Spec => []OnlyHolderHeard
  BY AlwaysUplink, PTL DEF UplinkInv

(* A session that leaves does not silence the one that replaced it.        *)
THEOREM SuccessorSafe == Spec => SuccessorKeepsMicrophone
<1> DEFINE Safe ==
      live # Nothing /\ live' = Nothing =>
        handler[live.session] = "granted" /\ handler'[live.session] = "released"
<1>1. ASSUME UplinkInv, [Next]_vars
      PROVE  Safe
  <2>1. ASSUME NEW s \in Sessions, Release(s)
        PROVE  Safe
    BY <1>1, <2>1, ReleasesOwn DEF Release, Goto, UplinkInv, TypeOK
  <2>2. ASSUME NEW s \in Sessions, Install(s)
        PROVE  Safe
    BY <2>2, UplinkAssumption DEF Install, Nothing
  <2>3. CASE UNCHANGED live
    BY <2>3
  <2> QED
    BY <1>1, <2>1, <2>2, <2>3
    DEF Next, ClaimUplink, NoPipeline, TakeNumber, CloseSession, SendFrame, PumpReceives,
        PumpFails, vars
<1>2. UplinkInv /\ [Next]_vars => [Safe]_vars
  BY <1>1
<1> QED
  BY <1>2, AlwaysUplink, PTL DEF Spec, SuccessorKeepsMicrophone
-----------------------------------------------------------------------------
(* While phones send no more than half the wire space, every packet any of *)
(* them sends is within the opener's first cycle.                          *)
FirstCycle ==
  /\ sent \in [Sessions -> 0 .. MaxFrames]
  /\ opener \in Extender /\ opener.cycles = 0
  /\ opener.started => opener.highest < MaxFrames

(* Within the first half of the wire space an extender is the identity, and*)
(* stays in its first cycle.                                               *)
LEMMA FirstHalf ==
  ASSUME 2 * MaxFrames <= Modulus,
         NEW e \in Extender, e.cycles = 0, e.started => e.highest < MaxFrames,
         NEW n \in Nat, n < MaxFrames
  PROVE  /\ Peek(e, Wire(n)) = n
         /\ Commit(e, Wire(n)).cycles = 0
         /\ Commit(e, Wire(n)).highest = n \/ Commit(e, Wire(n)) = e
<1>1. Wire(n) = n /\ MaxFrames \in Nat /\ Modulus \in Nat
  BY ModulusAssumption, UplinkAssumption DEF Wire
<1>2. e.highest \in Nat /\ e.highest < Modulus /\ e.started \in BOOLEAN
  BY ModulusAssumption DEF Extender, WireNumber
<1>3. ASSUME e.started
      PROVE  MovesForward(e, n) <=> n >= e.highest
  BY <1>1, <1>2, <1>3 DEF MovesForward, WrappingSub
<1>4. CASE ~e.started
  BY <1>1, <1>4 DEF Peek, Commit
<1>5. CASE e.started
  <2>1. ~Wraps(e, n) /\ CycleOf(e, n) = 0
    BY <1>1, <1>2, <1>3, <1>5 DEF Wraps, CycleOf
  <2> QED
    BY <1>1, <1>2, <1>5, <2>1 DEF Peek, Commit
<1> QED
  BY <1>2, <1>4, <1>5

LEMMA InitFirstCycle == Init => FirstCycle
  BY ModulusAssumption, UplinkAssumption, FreshIsExtender DEF Init, FirstCycle, FreshExtender

LEMMA StepFirstCycle ==
  ASSUME 2 * MaxFrames <= Modulus, FirstCycle, [Next]_vars
  PROVE  FirstCycle'
<1>1. ASSUME NEW s \in Sessions, SendFrame(s)
      PROVE  FirstCycle'
  BY <1>1, UplinkAssumption DEF SendFrame, FirstCycle
<1>2. ASSUME NEW s \in Sessions, NEW n \in InFlight(s), PumpReceives(s, n)
      PROVE  FirstCycle'
  <2>1. n \in Nat /\ n < MaxFrames
    BY UplinkAssumption DEF FirstCycle, InFlight
  <2>2. /\ Commit(opener, Wire(n)) \in Extender
        /\ Commit(opener, Wire(n)).cycles = 0
        /\ Commit(opener, Wire(n)).highest = n \/ Commit(opener, Wire(n)) = opener
    BY <2>1, FirstHalf, CommitIsExtender DEF FirstCycle
  <2>3. sent' = sent /\ opener' \in {opener, Commit(opener, Wire(n))}
    BY <1>2 DEF PumpReceives
  <2> QED
    BY <2>1, <2>2, <2>3 DEF FirstCycle
<1>3. CASE sent' = sent /\ opener' \in {opener, FreshExtender}
  <2>1. CASE opener' = opener
    BY <1>3, <2>1 DEF FirstCycle
  <2>2. CASE opener' = FreshExtender
    <3>1. FreshExtender.cycles = 0 /\ ~FreshExtender.started
      BY DEF FreshExtender
    <3> QED
      BY <1>3, <2>2, <3>1, FreshIsExtender DEF FirstCycle
  <2> QED
    BY <1>3, <2>1, <2>2
<1>4. ASSUME NEW s \in Sessions, Install(s) \/ Release(s)
      PROVE  sent' = sent /\ opener' \in {opener, FreshExtender}
  BY <1>4 DEF Install, Release
<1>5. ASSUME \/ \E s \in Sessions : ClaimUplink(s) \/ NoPipeline(s) \/ TakeNumber(s) \/ CloseSession(s)
             \/ PumpFails \/ UNCHANGED vars
      PROVE  sent' = sent /\ opener' = opener
  BY <1>5 DEF ClaimUplink, NoPipeline, TakeNumber, CloseSession, PumpFails, vars
<1> QED
  BY <1>1, <1>2, <1>3, <1>4, <1>5 DEF Next

(* While no phone sends more than half the wire space, whatever the holder *)
(* sends opens; beyond that it need not.                                   *)
THEOREM HolderHeard == 2 * MaxFrames <= Modulus /\ Spec => []HolderOpens
<1> SUFFICES ASSUME 2 * MaxFrames <= Modulus
             PROVE  Spec => []HolderOpens
  OBVIOUS
<1>1. FirstCycle /\ UplinkInv => HolderOpens
  <2> SUFFICES ASSUME FirstCycle, UplinkInv, live # Nothing, NEW n \in InFlight(live.session)
               PROVE  Opens(n)
    BY DEF HolderOpens
  <2>1. n \in Nat /\ n < MaxFrames
    BY UplinkAssumption DEF FirstCycle, InFlight, UplinkInv, RealClaims
  <2> QED
    BY <2>1, FirstHalf DEF FirstCycle, Opens
<1>2. FirstCycle /\ [Next]_vars => FirstCycle'
  BY StepFirstCycle
<1> QED
  BY <1>1, <1>2, InitFirstCycle, AlwaysUplink, PTL DEF Spec
=============================================================================
