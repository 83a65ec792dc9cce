# Ausha in TLA+

Ausha sends a computer's audio to phones over the local network and the phone's
microphone back to the computer. This directory holds TLA+ models of its logic,
the TLC runs that check them and the TLAPS proofs about them. Paths below are
relative to the repository's root.

## The system

| Component | Source | State it keeps | Operations |
|---|---|---|---|
| Sequence extender | `core/src/rtp.rs` | cycles, highest number seen | `peek`, `commit`, `extend` |
| Jitter buffer | `core/src/jitter.rs` | frames by extended number, cursor, target depth, burst memory, three timers, counters | `insert`, `pop` |
| Receive pipeline | `core/src/pipeline.rs`, `decode.rs`, `resample.rs`, `drift.rs` | stream, jitter buffer, decoder, resampler position, ratio, leftover samples | `on_datagram`, `fill` |
| Sealed media | `core/src/crypto.rs` | sealing counter (extender) and opening extender, per-direction keys | `Sealer::seal`, `Opener::open` |
| Control protocol | `core/src/protocol.rs`, `lines.rs` | JSON lines; a reader that survives read timeouts | `read`, `Message` |
| Control server | `player/src/control.rs` | one thread per connection | `handle`, `run_session`, `open_uplink` |
| Session registry | `player/src/registry.rs` | sessions with token, media address, uplink claim | `open`, `attach_media`, `close`, `claim_uplink`, `for_each_target` |
| Media relay | `player/src/relay.rs` | punch listener, sealer per process | `listen_for_punch`, `forward` |
| Uplink (computer side) | `player/src/uplink.rs` | who holds the microphone, a clocked pump | `claim`, `pump`, `Clock` |
| Speakers | `player/src/speakers.rs` | how many listeners, what was muted | `listen`, `leave`, `restore` |
| Microphone device | `player/src/pipesource.rs` | loaded pulse modules, the fifo | `open`, `write`, `unload_stale` |
| Process | `player/src/main.rs`, `shutdown.rs`, `capture/` | ffmpeg child, signal handler | start, pump, stop |
| Client | `client/src/lib.rs`, `session.rs`, `uplink.rs` | control thread, receive thread, monitor | `connect`, `fill`, `drop` |
| Desktop receiver | `receiver/src` | output device, client | play loop |
| Phone app | `android/`, `mobile/src/lib.rs` | foreground service, audio engine, microphone | play, pause, stop, network and focus callbacks |
| Discovery and pairing | `player/src/advertise.rs`, `pairing.rs`, `Discovery.kt`, `QrScanner.kt` | mDNS record, QR code | I/O only |

How they interact. A client opens a TCP control connection and sends `Hello`
with the pairing token; the server opens a registry entry and answers `Accept`
with a session id and token. The client then sends one UDP punch carrying the
session token; the relay's listener attaches the address it came from to the
session, the control thread notices, answers `Ready`, and from then on the relay
seals every RTP packet once and sends it to each attached address. The control
thread pings every 2 s and gives a silent client up after 10 s. Uplink packets
travel the other way over a socket of their own; whichever session claimed the
uplink last is heard. On the client one thread reads datagrams into the
pipeline, one keeps the session alive, and the audio callback pulls frames.

What is hard. Packets are lost, duplicated, delayed and reordered, across the
wrap of a 16-bit number that also seeds encryption nonces. A playout buffer has
to trade delay against gaps with five clocks that interact. Sessions are taken
over, dropped and timed out by threads that share a registry, a microphone and
the machine's mute state with a signal handler. The phone's service is driven
by callbacks from several threads.

What makes each part correct:

- *Extender and jitter buffer*: every packet is accounted for once; frames of one
  period of playback come out in order; gaps are genuine; giving delay back never
  starves playback; the target follows the losses and stays in its range.
- *Sealed media*: no nonce is used twice under a key; an authentic packet opens,
  whatever else arrives; a packet that fails to open changes nothing.
- *Sessions*: only authenticated clients are sent media, only while their handler
  lives; a client that vanishes is forgotten; a live one is not given up.
- *Uplink*: one session at a time is heard, its stream opens whoever held the
  microphone before it, and a session that leaves never silences its successor.
- *Speakers and microphone device*: what was muted is unmuted exactly when the last
  listener leaves or the program ends; no module outlives the program.
- *Phone app*: at most one engine plays; a pause the user asked for is kept; wake
  locks, focus and the network callback are given back.
- *Client*: what a fill leaves over stays bounded; no ping is lost to a timeout; no
  thread outlives its client; when one side stops everything does.

## Plan

| Order | Modules | Models | Composes | State |
|---|---|---|---|---|
| 1 | `SeqExtender` | the extender, as operators on a record | | done, proved |
| 2 | `Playout`, `JitterBuffer` | what a jitter buffer promises; insert and pop on a lossy network | `JitterBuffer` extends `SeqExtender`, implements `Playout` | done, safety proved |
| 3 | `SealedMedia` | one sealer, many openers | extends `SeqExtender` | done, proved |
| 4 | `Membership`, `Sessions` | what the control channel promises; the handlers, registry, punch listener and client threads that keep it | `Sessions` implements `Membership` | done, safety proved |
| 5 | `Uplink` | claims of the microphone and the pump that hears one | extends `SeqExtender` | done, proved |
| 6 | `Desktop` | the mute and the virtual microphone across processes | | done, proved |
| 7 | `Engine`, `Playback` | the phone's audio and microphone threads; the service that starts and stops them | `Playback` extends `Engine` | done, safety proved |
| 8 | `Pipeline`, `Client` | datagrams to samples, with the resampler and the drift regulation; the threads of a client, its line reader and its end | `Client` extends `Pipeline` | done, safety proved |

The most important behaviour comes first: that what was sent is what is played,
in order, and that nothing else can be heard or sent. Each component is written
with its parameters as constants, one action per operation and no `RECURSIVE`
operator, so that it can be proved about as it is checked. `MC*` modules give the
constants values; `*Proofs` modules hold the theorems.

What could come next: `JitterBuffer` under `Pipeline`, instead of the pops it allows
itself; the clock of the uplink's pump, which catches up after a stall; a `Sessions`
whose clients are those of `Client`.

## Modules and the code

**SeqExtender** is `SequenceExtender` of `core/src/rtp.rs`. `Peek` and `Commit` are
its methods of the same names, with the wrapping subtraction of `u16` as
`WrappingSub` and the width as `Modulus`, 2^16 in the code. Jitter buffer, sealer,
opener and pump use it.

**JitterBuffer** is `core/src/jitter.rs`. One thread owns the buffer, so `insert`
and `pop` are atomic; the network decides what is inserted and the device when a
frame is popped. `insert` is `InsertLate` or `InsertFrame` (which includes
`retarget` and `watch_overfill`), `pop` is `PopDecode`, `PopGap` or `PopUnderrun`,
each with the shedding before it. A pop that returns `Starve` changes nothing and
is no action. A frame's payload is the number its sender gave it; `history` holds
what was played, which the code does not keep. The network may lose, duplicate,
delay and reorder by up to `Displacement`. The RFC 3550 estimate is a float: at
each arrival it may ask for any depth of `JitterDemands`. The `reordered` counter and
the number it is compared with feed only the statistics and are left out.

**Playout** is what a jitter buffer promises, without numbers that wrap, targets or
clocks: packets wait until their slot comes, and each turn plays or leaves out one
slot, oldest first. `JitterBuffer` implements it: what waits are the frames buffered, under
their sender's numbers, and the cursor is `next`, counted from the start of the first
packet's cycle (`Promised`). It need not shed a frame when the buffer does and never says
when, only that no more than one goes in a turn.

**SealedMedia** is `core/src/crypto.rs` with the relay's `forward` and the client's
receive loop. The cipher is its contract: a datagram opens exactly if it was
sealed under the nonce the opener takes. `sealed` records the nonce of each packet.
The SSRC half of the nonce does not change within a stream and is left out.

**Sessions** is the control channel: `handle` and `run_session` of
`player/src/control.rs`, the registry, `listen_for_punch`, and on the other end
`connect`, `poll` and `keep_session_alive`. `handler[c]` and `client[c]` say where the
two threads of a connection are, `media[c]` is its registry entry, `signal` the channel
through which the punch listener wakes the handler. TCP is a queue each way with
a close; UDP carries one punch, which may be lost, late or repeated. The handler's
`opened` state is the time between the registry's `open` and the accept; the
serving loop is `ServeLine`, `ServeIdle` and `ServeEnd`, whose turns end in `EndTurn`,
where a quiet client is given up and a ping sent. A `Client` of the model is one
attempt to connect.

**Membership** is what the control channel promises. `Sessions` maps its handlers to
the phases outside, admitted, listening, removed, and implements it.

**Uplink** is the microphone: `open_uplink`, the owner in the registry, the three
steps of `Listener::claim` (owner, number, stream, each under a lock of its own), the
drop of `Active`, and `pump` as far as it opens a packet and compares its SSRC. Each
phone numbers its packets from 0 and may go on sending after it was replaced.

**Desktop** is what the sender changes on the computer: `speakers.rs` (the count of
listeners, the mute and its record), `pipesource.rs` (the module it loads, those
that others have left) and `main.rs` from start to end. Every pactl call is a step
and may fail; the user may change the mute between any two; the process may be
killed anywhere, and then a pactl it had started may still act. `overtaken` is no
state of the code: it says that a session was muting, or has begun to, as `main`
gave the mute back. Such a session escapes `restore`, and the model lets it.

**Engine** is the phone's `AudioEngine.kt` with the device of `Microphone.kt` and
the handle of `mobile/src/lib.rs`. `running`, `thread`, `handle` and `capture` are
the fields of the engine, which all its threads share; `engine[t]` and `mic[t]` say
where the audio thread and the microphone thread of start `t` are. A session is
named by the thread that connected it. `stop` is `Halt` and `Join`, which may give
up after two seconds if the thread is `Stuck`: connecting, freeing, or waiting for a
microphone that its device holds. The microphone thread checks, reads and sends in a
loop; the device may keep a read for ever unless the recording has been stopped.

**Playback** is `PlaybackService.kt`. Each method and callback is a script of named steps
which its thread works off; so `onPause` is pause, halt, join, restore, give back.
The steps are the accesses that another thread can see. The focus may be denied,
lost for good, lost for now and gained; the network may come and go; the user may
play, pause, stop, choose something else and set the call volume. `onAvailable` is its
check (`Available`) and its start, with whole methods of the main thread between them
if need be; a start itself is one step. `contested` is no state of the code: it
names the starts that were pending so, or checked, while the main thread was at
work, until a pause finds one of them running. A focus request
that replaces an earlier one may cost that one its focus, which is a loss like any
other here. What the service has only for show is left out.

**Pipeline** is `core/src/pipeline.rs` with the RTP parser, the resampler and the drift
controller. A datagram is what its header says; `Parses` is the parser's chain of
length checks. A decoded frame is its number of samples: `Emitted` and `Advanced` are
what the resampler's loop over them comes to, and `ResamplerLoop` in `MCClient` compares
them with that loop (`Processed`) for the instance, and `LoopComesTo` proves it for every frame. `Regulate` is the controller's deadband, gain,
clamp and slew; ratios are whole parts of `Unit`, as the code's constants are
millionths. The depth that it is told is any of `Errors`.

**Client** is `client/src/lib.rs` with `LineReader` and `Session::poll`: the owner (the loop of
`receiver/src/main.rs`, or the phone's audio thread), `receive_datagrams`,
`keep_session_alive` and, in few steps, the sender's end of the connection. A ping
comes whole or in two parts, with a read that times out between them. `Drop` stops
and joins; `Leak` is what the phone does with a client whose handle a microphone
still has. `unanswered` counts what the sender has asked and not been told; the code
keeps no such number.

## Runs

| Run | Instance | Shows |
|---|---|---|
| `jitter_playout` | 5 numbers over a wire space of 8, crossing its wrap; 7 deliveries, 3 ticks | accounting of packets and slots, order, genuine gaps, safe shedding, the target, that frames leave, and `Playout` |
| `jitter_replay` | the same | *violated*: after an underrun frames are played again |
| `secure_media` | 2 receivers, wire space 5, 12 packets: two wraps | nonces are unique, genuine packets open |
| `secure_late_join` | the same, receivers may join after a wrap | *violated*: they open nothing |
| `sessions` | 2 clients with the token, 1 without; timeouts of 2 and 1 ticks | registry and handlers agree, a playing client is served, a stop reaches the clients, `Membership` |
| `uplink` | 3 sessions, 3 frames each, wire space 6 | the successor keeps the microphone, only the holder is heard, and it can be |
| `uplink_taken_over` | 2 sessions, 5 frames each | *violated*: past half the wire space the holder's packets no longer open |
| `desktop` | 3 sessions, 3 processes | the mute follows the listeners and the user, a stop restores it, one microphone, none left behind |
| `playback` | 2 starts, call volumes 1 to 3 | a pause is kept, what was chosen plays, handles, microphones, locks, focus and volume are given back |
| `playback_overlap` | the same, and a start need not wait for earlier threads | *violated*: one thread frees another's handle |
| `client` | frames of 2 samples, ratios of ½, 1 and 1½; one ping on its way, one datagram waiting | leftovers stay bounded, no ping is lost, no thread outlives its client, a stop spreads |
| `client_leaked` | the same | *violated*: a leaked client is never given up |

Each property of a passing run is violated by a mutant of the code's definitions,
defined beside the original and marked `\* mutant`.

Why the bounds are enough. The extender's cases depend on where a number falls in
relation to the wrap and to half the wire space, so a small space that is crossed
reaches them all; the proofs hold for every space. Five packets with seven
deliveries reach every counter, a duplicate, a gap of two, an underrun and a
shed frame; three ticks pass both the overfill and the shrink clocks, which are
one tick, and burst memory, two. Two receivers are as many as are needed for one
to be heard while another reconnects; two wraps, to tell a counter from a flag.
Two trusted clients and a stranger interfere in the registry only, through
entries of their own; timeouts of two ticks and of one make the order in which the
two ends give up vary. Three sessions are needed for a claim to be released
between two others, and for a listener to leave while one stays and one joins.
Three processes let a killed one leave a module for a second and the second for
a third. Two starts are enough for what one engine leaves to the next; three volumes, for a
user's choice that is neither the level raised to nor the one saved.
A frame of two samples at the three ratios becomes between one and four, more or
less than the two that a fill asks for; a ping in two parts lets a timeout fall
before, between and after them; with one datagram waiting, the owner finds some
and none, and with a timeout of one tick the sender gives up before or after it is
answered. The proofs about `Client` hold for every value of these numbers.

`playback` assumes two things of the order of events, each a constant of the model,
which the code does not guarantee. `Overlaps = FALSE`: a start comes only when earlier
threads have ended. The code waits for two seconds at most; `playback_overlap` shows what
happens otherwise. `Races = FALSE`: the network's callbacks, which have a thread of their
own and take no lock, do nothing between two steps of one method of the main thread.
What remains of the race is in the run: between its check and its start
`onAvailable` may wait while the main thread does whole methods. If the user
pauses then, the start comes after the pause and the stream plays on.
`PauseIsKept` and `VolumeGivenBack` except the starts in `contested`, and no others. With
`Races = TRUE` and `Overlaps = TRUE` the run has too many states; what holds there is
proved: `PauseIsKept`, which then says of the engine only that it is not running, `TypeOK`
and `NothingKept`. `PlaysWhatWasChosen` and `VolumeGivenBack` are not claimed with `Races = TRUE`:
the restore of one thread may then fall amid the start of the other.

`CHECK_DEADLOCK FALSE` stands in a configuration whose model may stop. In the jitter
buffer and the uplink the bounds on deliveries, time and frames are reached. In
the sessions and in the client everything may have ended, as
`StopReachesClients` and `StopSpreads` ask. In the other configurations nothing stops:
a receiver may always reconnect, and a user may always change the mute or the volume.

### Fairness

*JitterBuffer*: weak fairness of `Pop`. The audio device calls back for as long as
it is open; nothing makes the network deliver or time advance.

*Sessions*: weak fairness of each client's and each handler's thread, and of `Tick`.
The threads block only on sockets with a read timeout, so they run, and time
passes. Nothing makes a user act, a punch arrive, or a phone leave or stay; a
report is not assumed either. `Tick` waits for the threads that have something to
do at once: a tick is the 2 s between pings, and the timeouts of 10 s are several
of them, so what is modelled is a computer that runs a ready thread within that
time. Without it a live client could be given up, and the code promises nothing.

*Engine*: weak fairness of each microphone thread alone, and there a read ends only by
a frame, which the device need not deliver, or by the stop of its recording. So
`MicrophoneCloses` says that while an audio thread has ended its microphone does in the
end. The audio threads and the service's have no fairness: nothing that is
promised depends on them.

*Client*: weak fairness of the owner, of the receiver's turns and timeouts, of the
keeper, and of the sender's clock and its end of the connection. Both sockets have
read timeouts (`session.rs:13`, `session.rs:64`), so a read that brings nothing ends; the sink
consumes what it is given or fails. Nothing makes a datagram arrive, a user stop or
the sender end.

*SealedMedia*, *Uplink*, *Desktop*: safety only.

## Where code and documents disagree

- `jitter_replay` (`jitter.rs:198`). An underrun forgets the cursor, so an older packet or a
  duplicate that comes next is played again. `arch.md` promises without this
  exception that such frames are counted and dropped. Within one period the
  order does hold (`InOrderWithinPeriod`).
- `secure_late_join` (`crypto.rs:158`). An opener begins in the first cycle; a client
  that connects after 65536 packets takes other nonces than the sealer.
- `uplink_taken_over` (`uplink.rs:191`). The pump's opener follows packets of a phone
  that no longer holds the microphone, because the SSRC is compared afterwards.
- `playback_overlap` (`AudioEngine.kt:121`). The audio thread clears `running` before it has freed
  its session, and `stop` does not wait for a slow connection: a thread started
  meanwhile shares `handle` with it.
- `client_leaked` (`AudioEngine.kt:134`). A session under a stuck microphone is leaked for
  the sender to reap "when the keepalive times out". Its keeper goes on answering
  pings, so the keepalive never does.

More, which no run shows:

- A packet of the cycle before the first one seen has nowhere to go in an extender
  and is placed most of a cycle ahead (`rtp.rs:134`). The proofs exclude it; a
  network with `LateAcrossFirstWrap = TRUE` brings it.
- A session that mutes while `main` restores leaves the sink muted (`speakers.rs:61`).
  `StopLeavesSound` excepts it.
- The service asks for the audio focus so as to "pause for calls and other apps
  rather than talking over them" (`PlaybackService.kt:404`), but keeps no record of a
  focus it was denied or has lost for now, and `onAvailable` starts the engine all the
  same (lines 444-448).
- `onAvailable` starts the engine after a pause that came between its check and its
  start (`PlaybackService.kt:444-446`), although a pause is to outlive the network's
  return (lines 55-59). `PauseIsKept` excepts it; the shortest case is `Available`, a
  whole pause, and the start.
- `control.rs:170-175` says the uplink is granted if no other session holds it, while
  `registry.rs:73-76` lets the latest claim win, which is what happens and what `Uplink`
  models.
- Two claims at once may leave the registry naming one session while the pump hears
  the other, which has no effect because nothing reads the registry's owner.

## Proofs

All are checked by TLAPS for every value of the constants that their modules'
assumptions allow. The assumptions are those of the code or of the network:
timeouts are positive, the packet time is at most the minimum target and that at
most the maximum, and packets stray by less than half the wire space.

**SeqExtenderProofs.** `PeekExact`: an extender that has followed a stream gives each
packet its own number less the start of its first cycle, as long as it strays less
than half the space and is not from before that cycle. The other proofs cite it.

**JitterBufferProofs.** Types, `Accounting`, `NothingBehindCursor`, and from them the
action properties `GapsAreGenuine` and `SheddingNeverStarves`. The invariant is
`CoreInv`: the types, these, and, as the strengthening that `GapsAreGenuine` needs,
that each number accepted since the last underrun is buffered or behind the cursor
(`AcceptedAccounted`). Shedding is safe because it takes a frame only while the depth
is above the target, which is at least one frame, so that another remains.
`BurstCovered` is about the arithmetic of `retarget`: a target that gives depth back
stops at what the worst burst still remembered needs, clamped to the preset. `PlayedInOrder` and `PlayoutKept` need `OrderInv`: the extender follows the
network (`NetworkInv`, to which `PeekExact` applies), so that each frame lies at its
own number less the start of the first cycle, and what was decoded last is behind the
cursor (`NumberInv`). Both assume `LateAcrossFirstWrap = FALSE`, that no packet precedes
the cycle of the first one received; otherwise they do not hold (see above).

**SealedMediaProofs.** `NonceUnique` needs that the nonces sealed so far are the
packets' own numbers, less a constant (`SenderInv`). `NeverAhead` holds wherever a
receiver joins: its opener stands no further than the sealer (`ReceiverInv`),
because only what opens is committed and only what was sealed opens. `GenuineHeard`
assumes that no receiver joins after a wrap; then each opener is the extender of the
newest number heard (`FollowsInv`), to which `PeekExact` applies. `SealedMediaTyped`
needs of `SenderInv` that no extended number is negative, and that an opener which started
has heard the stream (`StartedInv`).

**UplinkProofs.** `UplinkInv`: the installed claim is that of a session which still
holds it, claim numbers are distinct and never reach past the counter (`Numbered`),
and a pipeline was fed by the session of its claim. `HolderHeard` assumes that
`Modulus` is at least twice `MaxFrames` and adds `FirstCycle`: while no phone has
sent half the space, the opener stays in its first cycle whoever moves it, and in
that cycle every number opens. It is exactly this that `uplink_taken_over` breaks.

**SessionsProofs.** `SessInv` is the types and, for each client, that no wait overruns, that
entry and handler agree (`Registered`), that whatever is to be timed out is (`Timed`), and
`InStep`: the lines under way in both directions fit where the two threads are.
Without `InStep` a stale `ready` could make an unserved client play. `StrangersGetNothing`
adds that a handler that has an entry is a trusted client's.
`MembershipKept` says that
every step is a step of `Membership` or leaves it unchanged; a listener is dropped
only if it departed because a client that is there has a pong or is due a ping
before its quiet time exceeds the timeout (`Timed`).

**DesktopProofs.** For every finite set of sessions and any number of processes.
`DesktopInv` adds to the types that one session at a time has the listeners' lock
(`Alone`), that who has muted the sink is still there to unmute it (`Owed`), that no
session is there before its process serves (`Idle`), and what the sink is at each
step of a session and of `main`: `Hush` as long as its user leaves it alone, `Sound`
whatever its user does. `Loaded` says which modules there are at each step of the
microphone's life. All six properties of the run follow. They except failures of
pactl (`failed`), as the code does.

**ClientProofs.** `ClientInv` is `ThreadInv` (which states of owner, receiver, keeper and flag
go together), `PipelineInv` (the ratio stays within the correction, the position within
a ratio, and a frame becomes at most `MaxEmitted`) and `ControlInv`: what the keeper has
still to read, what is on the wire and what is to come are whole pings in order, and
those not answered while the sender serves. `ClientTyped` rests on the arithmetic of
the resampler's rounding, for every ratio above half. Taking one line is the hard step
of `EveryPingAnswered`: the first line of a run of pings is a ping, wherever its parts lie.
`LoopComesTo` is an induction over the frame, which the library's theorems do not
offer here; it is done by hand, from the least number at which it would fail
(`SetInduction`). `FillsEnd` has the rest of the arithmetic: a pop that emits nothing
lowers the position.

**PlaybackProofs.** For any number of starts, and with no more assumed of the order of
events than each theorem needs:

| Theorem | Threads may overlap | Callbacks go on amid a method |
|---|---|---|
| `PlaybackTyped`, `NothingIsKept`, `PausesAreKept` | yes | yes |
| `VolumeIsGivenBack`, `TheChosenPlays` | yes | no |
| `HandleOutlivesMicrophone`, `NoSessionForgotten`, `TheMicrophoneEnds` | no | yes |

`TypedInv` is what is left to say of the engine when threads overlap: what `handle` and
`capture` name is a thread that has not ended. Without overlaps `EngineInv` says that
only the thread started last is at work, that it owns the handle, and that its
microphone was given that. The service's part is an invariant of its scripts: `ScriptsInv`
says which step may follow which (`Follows`), so that where a thread is (`At`) and
how it will end (`Ends`) tell what it has still to do; `GivesInv` says so for the
locks, the focus and the callback. `PausesAreKept` rests on `MeetInv`: the main thread
starts nothing while paused, a start that the network's thread still has to make then is
in `contested` (`NetInv` says what that thread may have to do), and so is one that runs
after the pause has halted the engine. Where no callback goes on amid a method,
whenever the main thread is busy the network's has at most a start to make (`AloneInv`);
nothing runs once a stop has halted it (`PausedInv`), the newest start's target is the
one chosen last (`ChosenInv`), and a raised volume is either its user's or saved
(`VolumeInv`). Older threads keep their targets while they live, and
`TheChosenPlays` says nothing of them. `EndInv` follows a microphone from the end of
its thread's loop: it is the one `capture` names until it has been told to stop, after
which a read that has begun is one that will end. The second half of `PausesAreKept`, that
nothing still fills or sends, holds under both assumptions only, as the property says;
it adds `LateInv`: a thread
for which `stop` did not wait is stuck where it neither fills nor sends.

**What comes to an end.** The prover has no fairness and no ENABLED, so the liveness
properties stay with TLC. What they rest on besides fairness is proved: while the end is
due some step can be taken, each of the steps that fairness grants brings it nearer
by a count, and nothing else puts it off.

| Property TLC checks | Proved | What falls |
|---|---|---|
| `BufferedFramesLeave` | `EveryTurnIsNearer` | turns until the frame's slot |
| `StopReachesClients` | `TheEndIsNear` | lines on their way to the client |
| `MicrophoneCloses` | `TheMicrophoneEnds` | steps left to the microphone, two at most |
| `StopSpreads` | `ClosedIsHeard`, `StopRunsDown`, `FillsEnd` | parts of pings the keeper has to read; then the steps left to all three threads together |

The count of `StopRunsDown` is bounded because the owner fills at most once more, and
because what is half read holds no more than two chunks without a line. That a step
can be taken is stated by the guards of the code, since ENABLED cannot be, and for the
microphone only TLC shows it. That the sender hears the goodbye in the end (`HearGoodbye`)
is left to TLC too.

Only model-checked: those four properties themselves, and the fairness halves of
`ImplementsMembership` and `ImplementsPlayout`, of which `MembershipKept` and `PlayoutKept` are
the safety halves.

## Not modelled

What samples are: decoding, interpolation and the jitter estimate are arithmetic on
floats, of which the models keep what decides how many there are and when. The
counters of `Pipeline` that only feed statistics are left out; so is the jitter
buffer under it, whose pops `Client` lets come as they like. The client reads the
wall clock (`lib.rs:267`), which may be set back; that is in `Pipeline`, but time
only advances in `JitterBuffer`. JSON is a format: a line that does not parse ends a
session like a closed connection, and the handshake's lines are in `Sessions`. Key
derivation and the cipher are taken for what they promise. Static targets of the
registry never change after the start. `forward_compat` copies packets. The write to
the microphone's pipe discards what does not fit and counts it; the clock that paces
the pump is not modelled. Two senders at the same time on one computer are not.
A network callback still under way as the phone's service is destroyed is left
out: the service waits for it in the model. Pairing, discovery, SDP and the command line are I/O without state. A restart of the
phone's service by the system without an intent finds nothing to play. The phone's
screens send intents.
