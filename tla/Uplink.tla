-------------------------------- MODULE Uplink --------------------------------
(***************************************************************************)
(* The microphone: open_uplink of player/src/control.rs, the claim in      *)
(* registry.rs, the listener and its pump in player/src/uplink.rs, and the *)
(* phones that send to it (client/src/uplink.rs).                          *)
(*                                                                         *)
(* Every session's handler runs in a thread of its own and claims in three *)
(* steps, each atomic under a lock or an atomic counter; the pump opens    *)
(* whatever reaches its port.  All phones seal with one key; a packet's    *)
(* nonce is its SSRC, one per session, and its extended number, which at a *)
(* phone is the number itself (SealedMedia: Builder and Sealer begin at 0).*)
(***************************************************************************)
EXTENDS SeqExtender

CONSTANTS
  Sessions,
  MaxFrames,        \* bound: frames a phone sends in a session
  Displacement      \* packets that may overtake one on the way

Nobody == "nobody"

ASSUME UplinkAssumption ==
  /\ Nobody \notin Sessions
  /\ MaxFrames \in Nat /\ Displacement \in Nat
  /\ 2 * Displacement < Modulus

VARIABLES
  encrypted,        \* was the sender started with encryption?
  handler,          \* session -> how far its handler is
  owner,            \* Inner.uplink_owner
  claims,           \* Listener.claims
  claim,            \* session -> its claim number, 0 before it has one
  live,             \* the installed Stream: its session and claim, or Nothing
  opener,           \* the Stream's opener
  pumping,          \* does the pump run?
  fed,              \* whose packets the pipeline of which claim was given
  sent              \* session -> frames its phone has sent

handlerVars == <<handler, owner, claims, claim>>
vars == <<encrypted, handlerVars, live, opener, pumping, fed, sent>>

Nothing == [session |-> Nobody, claim |-> 0]

Init ==
  /\ encrypted \in BOOLEAN
  /\ handler = [s \in Sessions |-> "idle"]
  /\ owner = Nobody
  /\ claims = 0
  /\ claim = [s \in Sessions |-> 0]
  /\ live = Nothing
  /\ opener = FreshExtender
  /\ pumping = TRUE
  /\ fed = {}
  /\ sent = [s \in Sessions |-> 0]

Goto(s, state) == handler' = [handler EXCEPT ![s] = state]

-----------------------------------------------------------------------------
(* claim_uplink: the registry's owner is whoever claimed last.             *)
ClaimUplink(s) ==
  /\ handler[s] = "idle"
  /\ Goto(s, "owner")
  /\ owner' = s
  /\ UNCHANGED <<encrypted, claims, claim, live, opener, pumping, fed, sent>>

(* No decoder: the session goes on without the microphone.                 *)
NoPipeline(s) ==
  /\ handler[s] = "owner"
  /\ Goto(s, "released")
  /\ UNCHANGED <<encrypted, owner, claims, claim, live, opener, pumping, fed, sent>>

FirstClaim(k) == 1                                                    \* mutant

NextClaim(k) == k + 1

TakeNumber(s) ==
  /\ handler[s] = "owner"
  /\ Goto(s, "numbered")
  /\ claims' = NextClaim(claims)
  /\ claim' = [claim EXCEPT ![s] = claims']
  /\ UNCHANGED <<encrypted, owner, live, opener, pumping, fed, sent>>

Install(s) ==
  /\ handler[s] = "numbered"
  /\ Goto(s, "granted")
  /\ live' = [session |-> s, claim |-> claim[s]]
  /\ opener' = FreshExtender
  /\ UNCHANGED <<encrypted, owner, claims, claim, pumping, fed, sent>>

AnyClaim(s) == live # Nothing                                         \* mutant
NoClaim(s) == FALSE                                                   \* mutant

(* Is the installed stream still the one this session's claim installed?   *)
StillLive(s) == live.claim = claim[s]

(* Dropping the session's Active.                                          *)
Release(s) ==
  /\ handler[s] = "granted"
  /\ Goto(s, "released")
  /\ live' = IF StillLive(s) THEN Nothing ELSE live
  /\ opener' = IF StillLive(s) THEN FreshExtender ELSE opener
  /\ UNCHANGED <<encrypted, owner, claims, claim, pumping, fed, sent>>

(* Registry::close, once the Active has been dropped.                      *)
CloseSession(s) ==
  /\ handler[s] = "released"
  /\ Goto(s, "closed")
  /\ owner' = IF owner = s THEN Nobody ELSE owner
  /\ UNCHANGED <<encrypted, claims, claim, live, opener, pumping, fed, sent>>

-----------------------------------------------------------------------------
(* A phone that was granted the microphone sends, whoever has taken it     *)
(* over since: nothing tells it.                                           *)
SendFrame(s) ==
  /\ claim[s] # 0 /\ handler[s] # "numbered"
  /\ sent[s] < MaxFrames
  /\ sent' = [sent EXCEPT ![s] = @ + 1]
  /\ UNCHANGED <<encrypted, handlerVars, live, opener, pumping, fed>>

(* UDP may lose, repeat and reorder what was sent.                         *)
InFlight(s) == {n \in 0 .. sent[s] - 1 : sent[s] - 1 - n <= Displacement}

Opens(n) == ~encrypted \/ Peek(opener, Wire(n)) = n

AnySsrc(s) == TRUE                                                    \* mutant

(* The SSRC the sender handed out is what identifies the holder.           *)
Expected(s) == s = live.session

(* pump: open, then compare the SSRC.                                      *)
PumpReceives(s, n) ==
  /\ pumping /\ live # Nothing
  /\ n \in InFlight(s) /\ Opens(n)
  /\ opener' = IF encrypted THEN Commit(opener, Wire(n)) ELSE opener
  /\ fed' = IF Expected(s) THEN fed \cup {<<live.claim, s>>} ELSE fed
  /\ UNCHANGED <<encrypted, handlerVars, live, pumping, sent>>

(* The pipe fails: the pump returns, and the device goes with it.          *)
PumpFails ==
  /\ pumping /\ pumping' = FALSE
  /\ UNCHANGED <<encrypted, handlerVars, live, opener, fed, sent>>

Next ==
  \/ \E s \in Sessions :
       \/ ClaimUplink(s) \/ NoPipeline(s) \/ TakeNumber(s) \/ Install(s)
       \/ Release(s) \/ CloseSession(s) \/ SendFrame(s)
       \/ \E n \in InFlight(s) : PumpReceives(s, n)
  \/ PumpFails

Spec == Init /\ [][Next]_vars

-----------------------------------------------------------------------------
HandlerStates == {"idle", "owner", "numbered", "granted", "released", "closed"}

TypeOK ==
  /\ encrypted \in BOOLEAN /\ pumping \in BOOLEAN
  /\ handler \in [Sessions -> HandlerStates]
  /\ owner \in Sessions \cup {Nobody}
  /\ claims \in Nat
  /\ claim \in [Sessions -> 0 .. claims]
  /\ \A s, t \in Sessions : claim[s] = claim[t] /\ claim[s] # 0 => s = t
  /\ live \in [session : Sessions \cup {Nobody}, claim : Nat]
  /\ opener \in Extender
  /\ fed \subseteq Nat \X Sessions
  /\ sent \in [Sessions -> Nat]

(* A session that leaves never silences the one that took the microphone   *)
(* over from it (uplink.rs:122-132).                                       *)
SuccessorKeepsMicrophone ==
  [][live # Nothing /\ live' = Nothing =>
       handler[live.session] = "granted" /\ handler'[live.session] = "released"]_vars

(* The microphone is never left with a session that is gone: once every    *)
(* session has ended it is silent (registry.rs:70-71, uplink.rs:46-47).    *)
HolderIsThere ==
  live # Nothing => handler[live.session] = "granted" /\ live.claim = claim[live.session]

(* Nobody but the holder is ever heard (uplink.rs:188-200).                *)
OnlyHolderHeard == \A heard \in fed : heard[1] = claim[heard[2]]

(* What the holder's phone sends can be opened, whatever else has reached  *)
(* the port (uplink.rs:188-200).                                           *)
HolderOpens ==
  live # Nothing => \A n \in InFlight(live.session) : Opens(n)
=============================================================================
