# AudioRouter: TLA+ models and proofs

AudioRouter captures the sound of a Windows PC and plays it on an Android phone.
The server (`src/src/server`) captures, cuts the PCM into packets, sends them over
UDP or through a USB tunnel, and silences the PC speaker while a client is attached.
The client (`src/src/client`) connects, keeps the session alive, reorders and buffers
the packets and feeds one of several audio backends.

This directory holds TLA+ modules that model the parts of the program where threads,
messages, timeouts and failures meet, the TLC configurations that check them on small
instances, and proofs, checked by TLAPS, of the properties that matter most.
`PROJECT.json` maps every definition to the source lines it models and lists the
runs, mutants, hazards, findings and theorems. File names below are relative to
`src/src/`.

To check: `tlc -config <name>.cfg <Module>` for a run, `tlapm <Module>.tla` for the
proofs.

## 1. Inventory

| part | state | operations | who else touches it | modelled in |
|---|---|---|---|---|
| Jitter buffer (`client/jitter_buffer`) | ring of 256 slots, playhead, offset into the playhead's packet, buffering and startup flags, gap-free run, drain clock | `push_packet`, `pop_frames`, `available_frames`, `configure` | network thread pushes, playback thread pops, heartbeat reads; one mutex held throughout | `JitterBuffer`, fed in `AudioPath` |
| Server session (`server/server`) | `state_`, `active_client_`, last activity, `sequence_number_`, `chunk_buffer_` | CONNECT, DISCONNECT, PING, CONTROL and DISCOVERY handlers, watchdog, USB relay, capture callback, `start`, `stop` | network, watchdog, relay, capture and main threads; `client_mutex_` covers some of them | `AudioServer`; the capture callback in `AudioPath`; discovery left out |
| PC speaker (`server/audio_endpoint_control`) | COM interface, silenced flag, saved mute and volume | `init`, `mute_pc_speaker`, `unmute_pc_speaker`, `set_mute`, `set_volume`, `shutdown` | all server threads; own mutex | `EndpointControl` |
| Device supervisor (`client/client.cpp`, first part) | the player slot, result, shutdown and per-attempt flags of `DeviceOpenShared` | supervisor, attempt threads, `open_player_with_timeout`, playback, `stop` | all of these | `DeviceOpen` |
| Client session (`client/client.cpp`) | socket, running and stop flags, time of the last packet | `perform_handshake`, network and heartbeat threads, `stop` | `socket_mutex_`, which the handshake does not take | `Session` |
| USB tunnel (`common/usb_tunnel.hpp`, both relays) | TCP socket, loopback UDP socket, reassembly buffer | `read_frame`, `write_frame`, the relay loops | engines at both ends | `UsbTunnel` |
| PulseAudio backend (`client/pulse_player`) | `pa_simple` stream, failure count, reconnect time | `open`, `write_frames`, `close` | playback and closing thread; mutex | `PulsePlayer` |
| AAudio backend (`client/aaudio_player`) | FIFO, stream handle, stall and rebuild counters, pump flags | pump thread, `write_frames`, `close`, rebuild | pump, playback and closing thread | `AaudioPlayer` |
| Termux:API backend (`client/termux_api_player`) | pool of WAV files, hand-over slot, player status | recorder, issuer, watchdog, `close` | four threads, three mutexes, an app | `TermuxApiPlayer` |
| Ring buffer (`common/ring_buffer.hpp`) | cells, head, tail, count | `write`, `try_write`, `write_overwrite`, `read`, `peek`, `skip`, `clear`, `resize` | own mutex; only the tests use it | `RingBuffer` |
| Sockets (`common/socket_util`) | descriptor, timeouts | send, receive, select, TCP read and write | not thread-safe | through `Session`, `UsbTunnel` and `AudioPath` |
| Capture engines (`server/wasapi_capture`, `server/dummy_capture`) | running flag, thread, COM pointers | `start`, the capture thread, `stop`, destructor | network thread starts, main thread stops; no lock | `Capture` |
| AGM backend (`client/agm_fifo_player`) | `agmplay` process, FIFO, speaker route, stall and recovery times | `open`, `respawn_subprocess`, `write_frames`, watcher, `recover`, `close` | playback, watcher and closing thread; `io_mutex_` covers some of it | `AgmFifoPlayer` |
| ALSA backends (`client/alsa_player`, `client/direct_alsa`) | descriptor or libasound handle, staging buffer | `open` with its fallbacks, `write_frames`, `close` | playback and closing thread; an atomic descriptor, no lock | `AlsaPlayer` |
| Wire protocol (`common/protocol.hpp`) | | header layout, message types | both engines | message types and sequence numbers only |
| Dummy player, most Android helpers, `main`, stream daemon, scripts | | | | not modelled, see section 8 |

How they interact. The engines speak a small UDP protocol (CONNECT_REQ/ACK, AUDIO_DATA,
HEARTBEAT_PING/PONG, CONTROL_CMD, DISCONNECT_REQ/ACK). With USB both sides put a
relay in front of a loopback UDP socket, so the engines do not notice. On the client
the network thread pushes into the jitter buffer and the playback thread pops from it
and calls `write_frames` of whatever player the supervisor has put into the slot. On
the server every handler ends in the speaker control.

What is hard: handlers that share a session but only partly a lock; values read before
a lock and used after it; opens that hang in a kernel and come back late; sockets closed
under a thread that uses them; a byte stream cut anywhere; a daemon or an app that
disappears; processes and COM objects that one thread makes while another tears down;
condition variables notified without their mutex; sequence numbers that wrap.
The `hazards` of `PROJECT.json` list these at their lines.

## 2. Modules

All modules interleave at the points where the code can be interleaved: a region under
a mutex is one action, unless it blocks or its loops are themselves the subject; an
atomic read before a lock is an action of its own. Names follow the source.

- **`JitterBuffer`**. `slots[i]` holds a valid flag, a sequence number and a frame count;
  the other variables are the members of the class. `PushDropped` and `PushStored` are
  `push_packet`; `PopSilence`, `PopStart`, `DrainWithin`, `DrainPast`, `PlayWithin`,
  `PlayPast`, `PlayConceal` and `PlayDry` are `pop_frames` and `advance_playhead_locked`,
  one action per loop iteration with `pc` as the proof that the mutex is held, so that
  termination is something the model could get wrong. Sequence numbers wrap at `SEQ_MOD`
  (2^32 in the code). The statistics and the jitter estimate are left out, no branch reads
  them.
- **`AudioPath`** extends it with the way the sound takes: `on_audio_captured` in single
  steps (its two unlocked checks, the append, the number, the send) against the handlers
  that change the session under another lock, a network that loses and reorders, and the
  client's network thread. Every packet carries an identity and the session its first frame
  was captured in, as history, so that "late", "twice" and "from before" can be said. With
  `source = "any"` arbitrary sequence numbers arrive instead, so that the properties of the
  jitter buffer do not rest on what this server happens to send.
- **`EndpointControl`** holds the operations of the speaker as operators over its state;
  **`AudioServer`** extends it with the session and the threads "net", "watchdog", "usb" and
  "stop". `disconnect_client` is one set of actions with the thread as parameter.
  `client_mutex` is explicit, because only some callers take it. Relocking the `std::mutex`
  in `mute_pc_speaker` is undefined behaviour: `ConnectMuteReinit` may block or go on.
  `user_speaker` and `commanded` are history: what the user last set, and whether a client's
  control command has changed the speaker since.
- **`Capture`** has the COM calls of `start()` as one step each, any of which may fail, the
  loop of the capture thread, and `stop()` as called by the server, the server's destructor
  and the engine's own.
- **`DeviceOpen`** has a program counter for the supervisor, for each attempt, for the main
  thread and for playback. The return of a backend's `open()` has no fairness.
- **`Session`** puts the client's main, network and heartbeat threads, a network that is a
  set of messages (or, when `Reliable`, in-order requests) and the server as one process
  with its watchdog and its outages side by side.
- **`UsbTunnel`** moves bytes: base-`ByteBase` digits make the length header, `recv` takes
  any number of bytes, a write may be partial or stall. `MCUsbTunnel` gives it datagrams
  whose bytes look like headers, so that a lost alignment shows. **`OrderedDatagrams`** is
  the promise to one engine: at most once, whole, in order.
- **`PulsePlayer`**, **`AlsaPlayer`**, **`AgmFifoPlayer`**, **`AaudioPlayer`**,
  **`TermuxApiPlayer`** model the threads of one backend each against a daemon, kernel
  device, process, HAL or app that fails when it likes. **`Players`** puts the first three
  behind the common interface (`client/audio_player.hpp`): which one the device supervisor
  has made is chosen at the start, and what `stop()` relies on is asked of each.
- **`RingBuffer`** and its abstract specification **`BoundedQueue`**.
- **`JitterBufferProofs`** (which covers `AudioPath` and `Capture` too), **`AudioServerProofs`**,
  **`DeviceOpenProofs`**, **`UsbTunnelProofs`**, **`PlayersProofs`**, **`AaudioProofs`**,
  **`TermuxProofs`** and **`RingBufferProofs`** hold the theorems.

An operator with the comment "Mutant" is a variant of the definition after it with a
plausible mistake; no specification uses it. `PROJECT.json` names, for every property of
a passing run, a variant under which TLC refutes the property.

## 3. Runs that pass

| run (cfg) | what it shows |
|---|---|
| `audio_path` (`AudioPath`) | Whatever order packets come in, lost, doubled, jumping or wrapping: packets held are within the window and in their slots (`WindowInv`), the offset is inside the playhead's packet (`OffsetInv`), a drain never goes below target (`DrainKeepsTarget`), a waiting packet is only lost to a resync that empties the ring (`NoLiveOverwrite`), a dry-out means an empty ring (`DryMeansEmpty`), every pop returns (`PopReturns`). With the server as the source, through a network that loses and reorders: nothing is played after what was made later, within a session with fewer than `MAX_SLOTS - 1` packets lost or overtaken (further behind, `push_packet` goes back to a packet) and, while the network is faultless, over a reconnection (`NeverPlayedBack`); each restart of the numbers costs less than two windows of refused packets, and each fault of the network one, before the new session is heard (`NewSessionHeard`). |
| `server` (`AudioServer`) | Two Wi-Fi clients that connect, take over, ping, command, disconnect and vanish, or a phone behind a tunnel that drops; the watchdog, `stop()` and an endpoint that may be missing: the user's setting is never lost (`UserSettingKept`), between critical sections the Wi-Fi server's speaker is silent exactly while a client is served (`MuteMatchesSession`), it comes back when clients are gone (`WifiSpeakerComesBack`), `stop()` leaves it restored (`StoppedRestores`) and returns (`StopReturns`). |
| `device_open` (`DeviceOpen`) | At most one backend stays open whatever the order in which attempts return (`OneBackend`), a playing one is never replaced (`LiveBackendKept`), a device that opens is used (`OpenedDeviceIsUsed`), `stop()` does not wait for hung opens (`StopReturns`). |
| `players` (`Players`) | `close()` of the ALSA and AGM players returns whatever the playback thread, a process or a device does, and that of the PulseAudio player unless the daemon takes no samples for good (`CloseReturns`); the playback thread then leaves `write_frames` (`CloseUnblocksWriter`), so that the client's `stop()` can join it. A PulseAudio player survives any restart or stall of the daemon (`RestartSurvived`). No failure inside the ALSA `open()` leaks a descriptor or handle (`NothingLeaks`). No agmplay outlives `close()` (`NoOrphanAgmplay`), and a preempted AGM stream is restored as long as respawns succeed and the phone has the mixer controls (`PreemptionRecovered`). |
| `capture` (`Capture`) | Although `start()` and `stop()` share no lock, the capture thread never uses a client that `stop()` has released (`ClientHeldWhileUsed`), and the server's shutdown ends (`ShutdownEnds`); both except for a CONNECT_REQ that arrives while `stop()` joins. |
| `usb_tunnel` (`UsbTunnel`) | Both directions implement `OrderedDatagrams`; without a break nothing is lost inside (`NothingLostInside`); after a break or a stall the ends find each other again (`TunnelRecovers`). |
| `session` (`Session`) | A running client gets back to a restarted server over a lossy network, unless a capture engine that did not start has left a session half set up (`Reconnects`); the server lets go of a client that is gone (`ServerFreed`). |
| `aaudio` (`AaudioPlayer`) | On a device that stalls, hangs, disconnects and refuses: no stream left behind (`NoStreamLeak`), `close()` returns (`CloseReturns`). Where streams can be recreated, a dead device is given up (`ReopenableStreamGivenUp`) and the writer never blocks for good (`WriterReturns`). A device that renders deep-buffer streams is never given up (`DeepDeviceKept`). |
| `termux` (`TermuxApiPlayer`) | With an app and a disk that fail at will, no handed-over file is slept through (`HandoverNotMissed`); with reliable ones no file in use is recycled as long as commands keep pace with the pool, whatever the watchdog discards (`ReliableFilesIntact`), and a killed or paused player plays again if they do in the end (`PlaybackRecovers`). |
| `ring_buffer` (`RingBuffer`) | The buffer implements `BoundedQueue` (`IsQueue`). |

The runs leave out the type invariants. Those of `JitterBuffer`, `AudioServer` and
`DeviceOpen` are proved for all values of the constants, and so is `SuccessHasPlayer` of
`DeviceOpen`; the others can be added to their configurations as `INVARIANT TypeOK`.
Section 7 says which of the properties above are proved as well.

## 4. Runs that show a disagreement

Two runs check a statement the repository makes and find a behaviour of the code that
contradicts it; `PROJECT.json` quotes the line.

- `server_usb_race` (`AudioServerUsbRace`), `SpeakerComesBack`: `usb_relay_thread` calls
  `disconnect_client` without `client_mutex_` (`server/server.cpp:469`). Mixed with the
  handler of a CONNECT_REQ that was relayed just before, the unmute comes first, the
  handler's mute and STREAMING next, and the relay's LISTENING last: the speaker stays silent
  with no session, and the watchdog only looks at STREAMING.
- `aaudio_rebuild` (`AaudioPlayerRebuild`), `DeadStreamGivenUp`: a rebuild that fails leaves
  `stream_` null, which the pump takes for a shutdown (`client/aaudio_player.cpp:506`): it ends
  with `is_open_` still true, and the device is never given up.

## 5. Further configurations

These configurations are kept beside the listed runs. Each checks one property that a
comment or document claims or a reader would expect, and TLC answers with a counterexample;
they record what the code does today and are to be turned into passing runs when it changes.

| configuration | property | what happens |
|---|---|---|
| `JitterBufferGate` | `RebufferGate` | After the first fill the escape target equals the fill target (`client/jitter_buffer.cpp:215`), so the stability gate of line 218 never decides on a re-buffer. |
| `AudioPathOrder` (module `AudioPath`) | `PlayedInOrder` | After a reconnection old packets waiting behind a hole are mixed with new ones of the same numbers (`server/server.cpp:271`): `configure` is not called again. |
| `AudioPathOrder`, asked for `FreshAudio` instead | `FreshAudio` | `chunk_buffer_` is never cleared (`server/server.cpp:541`): a session begins with the tail of the one before. |
| `CaptureJoin` (module `Capture`) | `ThreadJoined` | `stop()` between `is_running_ = true` and the assignment of `capture_thread_` (`server/wasapi_capture.cpp:158`) joins nothing; the destructor meets a joinable thread. |
| `CaptureJoin`, asked for `ClientHeldAlways` instead | `ClientHeldAlways` | A CONNECT_REQ while `stop()` joins starts the engine again, whose client `stop()` then releases (`server/wasapi_capture.cpp:181`). |
| `CaptureJoin`, asked for `NothingLeaks` instead | `NothingLeaks` | A `start()` that fails half way keeps what it acquired and the next one overwrites it; `stop()` returns at once when `is_running_` is false (`server/wasapi_capture.cpp:63`, 181). |
| `CaptureDevice` (module `Capture`) | `LostDeviceReplaced` | A lost endpoint fails for ever (`server/wasapi_capture.cpp:245`), and a new CONNECT_REQ finds the engine running. |
| `AudioServerWatchdog` | `WatchdogDropsOnlySilent` | A timeout read before the lock is applied to a client that has come back (`server/server.cpp:517`). |
| `AudioServerControl` | `UnmuteIsExact` | A volume command under EndpointMute survives the disconnect, against "exact pre-connection state" (`server/audio_endpoint_control.hpp:26`). |
| `DeviceOpenStop` | `StoppedClosesDevice` | A device that opens just before `stop()` is installed after it and stays open (`client/client.cpp:155`). |
| `DeviceOpenDead` | `DeadBackendReplaced` | A backend that dies after installation has no successor: the supervisor has returned (`client/client.cpp:364`), against "so the client falls back" (`client/aaudio_player.cpp:582`). |
| `PulsePlayerClose` | `ClosedHasNoStream` | A writer waiting behind `close()` takes the missing stream for a lost connection and reconnects (`client/pulse_player.cpp:616`). |
| `PulseStalled` (module `PulsePlayer`) | `ClosePlayerUnblocksPlayback` | `stop()` closes the player "to unblock playback thread immediately" (`client/client.cpp:784`), but `close()` needs the mutex (`client/pulse_player.cpp:605`) that the playback thread holds over `pa_simple_write` (line 638), which has no timeout: a suspended sink or a wedged daemon blocks both, and `stop()` with them. |
| `AgmRetry` (module `AgmFifoPlayer`) | `RespawnRetried` | "will retry shortly" (`client/agm_fifo_player.cpp:216`): with no descriptor `write_frames` drops its frames, nothing notices and nothing retries. |
| `AgmRetry`, asked for `SoundComesBack` instead | `SoundComesBack` | A HAL that was restarted once is not restarted when a second preemption leaves it stale (`client/agm_fifo_player.cpp:348`). |
| `AgmRetry`, asked for `StreamSettles` instead | `StreamSettles` | On a phone without those mixer controls, for which routing is "best effort", the watcher finds the route missing for ever and agmplay is killed and respawned again and again. |
| `AgmRetry`, asked for `ClosedHasNoFifo` (an `INVARIANT`) instead | `ClosedHasNoFifo` | A respawn that is under way when `close()` comes leaves the FIFO behind. |
| `AlsaClose` (module `AlsaPlayer`) | `OpenDeviceUsed` | The descriptor loaded by the playback thread is closed before its ioctl (`client/direct_alsa.cpp:410`), and a libasound handle before its write. |
| `AlsaClose`, asked for `NoBacklog` instead | `NoBacklog` | Packets are staged also while the device takes none (`client/direct_alsa.cpp:384`), without a bound. |
| `UsbTunnelStuck` (module `MCUsbTunnel`) | `CompleteFrameDelivered` | The second of two frames in one `recv()` waits in the reassembly buffer for the next byte (`common/usb_tunnel.hpp:98`). |
| `SessionStop` | `StopReturns` | A re-handshake reopens the socket that `stop()` closed (`client/client.cpp:920`, `common/socket_util.cpp:235`), without a receive timeout; with the server gone `stop()` waits for good. |
| `SessionDisconnect` | `StopDisconnects` | In the same window a CONNECT_REQ follows the DISCONNECT_REQ and the server silences the PC again. |
| `SessionCapture` | `SilentServerLeft` | A CONNECT_REQ whose capture start fails (`server/server.cpp:284`) leaves the client the active one (line 269) in LISTENING. It pings on and is answered, so it never notices that the server streams nothing, against "re-handshakes when the server goes silent" (`src/README.md:343`). |
| `AaudioPlayerStale` | `WritesCurrentStream` | The pump writes to a handle that its own start call has replaced (`client/aaudio_player.cpp:507`). |
| `AaudioPlayerTeardown` | `TeardownExcludesWrite` | `close()` closes the stream between the pump's unlock and its announcement of a write (line 511). |
| `AaudioPlayerGiveUp` | `GivesUpOnlyUnrendered` | `stall_rebuilds_` is never reset by a success, so recovered stalls add up over a session (line 580). |
| `TermuxPool` (module `TermuxApiPlayer`) | `RingNeverCollides` | Segments may be 2 s long (`client/termux_api_player.cpp:55`) and a command may take 5 s (line 79), against "so the file ring never collides" (line 51). Two successful commands of 4.5 s: file 1 is played from 0.6 to 5.1 s; file 3, which replaced 2 in the slot, from 5.1 to 9.6 s; the truncation of file 1 that follows (line 1118) hits file 5, which has its place in the pool of four, is being recorded and waits in the slot. |
| `TermuxPool`, asked for `CloseReturns` instead | `CloseReturns` | The notification of `stop_issuer_`, sent without the mutex, is lost (line 1210). |

One more deviation is an exception inside a passing property: `mute_pc_speaker` without an
endpoint locks its own mutex twice (`server/audio_endpoint_control.cpp:126`), the only way
in which the server's `stop()` fails to return (`StopReturns` of `AudioServer`).

## 6. Bounds, fairness, abstraction

**Bounds.** Every bound is a constant or a named guard.

- Audio path: 3 slots and 12 sequence numbers, so that the range is a multiple of the ring
  and more than twice its size, as in the code, and all three regions of the signed
  difference, collisions and wraps occur; packets of 1 and 2 frames and pops of 2 and 3, so
  that a pop ends inside, at the end of and beyond a packet; captures of 3 frames for
  packets of 2, so that a rest stays in `chunk_buffer_`; 12 packets, two sessions, one
  fault, two packets in flight. The proofs about `JitterBuffer` lift these bounds, for the
  path as well. With `source = "server"` the drain clock stands still, so that `pop_frames`
  drains (`client/jitter_buffer.cpp:275`) only with `source = "any"`. A drain does nothing but
  move the playhead forward, past packets that are then never played.
- Players: PulseAudio's real failure threshold of 3; two candidates in each loop of the ALSA
  `open()`, so that one fails before another succeeds; a staging buffer of 4 packets; two
  faults of the phone (preemption, crash, failed respawn), so that one can hit the recovery
  from the other.
- Capture: no bound but the three calls of `stop()`; `held` is a set, so start-ups repeat
  for ever.
- Server: two clients are enough for a takeover, timeout 1 with ages capped just above it,
  two volumes, one volume and one unmute command. The proofs hold for any set of clients and
  any timeout.
- Device: two attempts (one abandoned or late, one current), one per strategy; the proofs
  are for any number of attempts and any budgets.
- Tunnel: two datagrams each way of different lengths, 4-digit headers of base 3, a kernel
  buffer of 7 digits (a frame and a part of the next, so that writes stall), one break; the
  proofs are for any of these.
- Session: two retries per handshake, one outage, an old and a new source address. A capture
  start may fail every time until it has succeeded once. The two clocks only run while
  somebody will read them before they are set again.
- AAudio: FIFO of one chunk, two handles (one in use, one being made), two failed writes for
  a stall; `kMaxStallRebuilds` has its real value 3, since the deep retry is one of them.
- PulseAudio: no other bound than the failure threshold; the daemon restarts, stalls and
  resumes for ever.
- Termux: the code's pool of 4 files of two chunks; a file is handed over with its first
  chunk, so that it is recorded, waits or is played at the same time. The theorem of section
  7 covers other lengths and a file discarded before its handover. What is in the files is
  only kept for the reliable app: an unreliable one may play any of them or none. How long a
  command takes is not bounded in the model. Time is the number of files begun meanwhile, and `KeepsPace(n)`, a premise in the text of the
  properties that need it, says that a file that waits or is told to be played is overtaken
  by at most `n` others, and that the issuer gets the next one before the last is more than
  `CommandSlack + 1` files behind. `CommandSlack` is 1 for the code's pool. With segments of
  2 s, and as long as nothing is discarded, that means commands of 2 s, and one of up to
  3.4 s now and then (the handover comes after 600 ms); with the default of ten minutes, any
  command. `TermuxPool` relaxes the premise to 2.
- Ring buffer: capacities 1 to 3, blocks of up to 4, so that blocks wrap, fit exactly and
  exceed the buffer.

**Fairness.** A thread that can go on does (weak fairness of its steps); time passes. Strong
fairness stands only where a thread competes for a mutex or a message that is available
again and again: the server's watchdog on `client_mutex_`, the client's heartbeat thread on
`socket_mutex_` (released every 200 ms by the network thread), a CONNECT_REQ that is sent
again and again through a lossy network, the Termux watchdog, whose query must at some
time meet the player in the state it asks about, and the two threads of the PulseAudio
player, which share a mutex and a daemon that may take samples only now and again. Nothing makes a
write or a drain return while the daemon takes none. No fairness for the environment:
packets, clients, users, cables, daemons, the app, the AAudio device, the return of a
device's `open()`, a file reaching its end, a preemption of the DSP, the COM calls of a
capture engine succeeding, and CONNECT_REQs. An ALSA device may stall for good; agmplay,
when it is not wedged, does read its FIFO.

**Abstraction.** Server and speaker are the Windows build. Results of COM calls after
`init` reach only the log and an ACK field. Replies of the server are not in
`AudioServer` (nothing there reads them) but are in `Session`. A write through a closed
AAudio handle is modelled by an error, its gentlest outcome. What the environment may do at all
is fixed at the start of a behaviour: `platform` of `AaudioPlayer` ("hostile" may refuse to
recreate a stream, "reopens" may not, "deep" renders deep-buffer streams and keeps its
routing) and `reliable` of `TermuxApiPlayer`. A property that needs the better environment
says so in its own text, and `AaudioPlayerRebuild` shows why it does. A premise on the length
of a stall or a command is written there too (`CloseReturns` of `PulsePlayer`, `KeepsPace`).
`size_t` counters are 64 bits wide and cannot overflow in a
session; the 32-bit sequence number can and does in the model.
`CHECK_DEADLOCK FALSE` stands in the modules whose system really ends: the client after
`stop()`, a closed player, a tunnel with nothing left to send.

## 7. Proofs

Assumptions on the constants are named `ASSUME`s in the modules that declare them
(`RingAssumption`, `FramesAssumption`, `DrainAssumption`, `PathAssumption`,
`EndpointAssumption`, `ServerAssumption`, `DeviceAssumption`, `PlayersAssumption`,
`AaudioAssumption`, `TermuxAssumption`, `RingBufferAssumption`, `TunnelAssumption`); TLC
evaluates them in every run. One theorem has a hypothesis of its own, named below. The
inductive invariants beyond types were checked with TLC before they were proved.

- **`JitterBufferProofs`** begins with the facts on `%` that rings rest on, above all
  `CongruentClose`: two numbers less than the ring size apart with the same remainder are
  equal. Then `TypeCorrect`, `WindowCorrect`, `OffsetCorrect`, `LiveNotOverwritten`,
  `DryOnlyWhenEmpty`, for every ring size, sequence range that is a multiple of it and more
  than twice as large, and every fill and drain setting. The
  inductive invariant is `TypeOK /\ WindowInv /\ OffsetInv /\ FirstInv`. The offset is only
  inside the playhead's packet because no other packet can take its slot, which is the
  window; the window is only preserved because slots of two packets within it differ, which
  is `CongruentClose` across the wrap; `FirstInv` (nothing is held before the first packet)
  makes the first push safe. `LiveNotOverwritten` and `DryOnlyWhenEmpty` are action
  properties that follow from it, the latter because the scan visits every slot of the
  window. `DrainLeavesTarget` (`DrainKeepsTarget`) needs what the source counts: the frames
  buffered without a hole are a sum over the run of packets at the playhead
  (`ContiguousIsSum`), of which a drain step takes the first term (`RunAfterLeaving`). That a
  sum obeys its recursion is induction over the sets summed, done by the smallest set for
  which it were wrong (`LeastSet`, from the well-foundedness of the numbers), since no
  prover here can use an induction rule. The invariant then adds that a drain under way has
  something left to shed (`DrainInv`).
- Its next part is about **`AudioPath`**: `PathImplementsBuffer` shows that every step of the
  path is a step of the buffer or leaves it alone, so that `PathBufferCorrect` and
  `PathLosesNothing` follow for any number of packets, sessions and faults. It needs
  `PathTypes`: whatever was cut off the chunk buffer, lost or overtaken, what the client
  receives has a sequence number and the frame count of the session.
- `PlayedForward` (`NeverPlayedBack`) is about the same path and has the longest proof. Its
  invariant takes the packets held and those to come together, the next one the callback
  will make included (`Coming`). `ComingInv`: ids grow, with at most one gap per fault; in the
  first session a number is the id less one, wrapped; while nothing was lost each number is
  followed by the next or by 0. From these, `HeardInv` has one part for each premise of the
  property. In one session the playhead stands for an id `H` and what is held is as far
  ahead of it in ids as in numbers (`InStep`), so a packet of an older id always looks late
  as long as the faults cannot bring it `MAX_SLOTS` behind (`ArrivalIsNear`): that is where
  the bound of the property comes from. Over sessions without a fault the ids held are
  sorted as their numbers are (`Sorted`), the only holes lie between the last number of one
  session and the 0 of the next, and no number that can still arrive falls into them
  (`Fits`). `StartInv` says that nothing is made or heard before the first CONNECT_REQ
  is through. TLC checked the three as invariants
  first, with the constants of `AudioPath.cfg` and on a ring of two slots with three connections.
- Its last part is about the thread that path begins in, **`Capture`**: `ClientAlwaysHeld`
  (`ClientHeldWhileUsed`). No lock orders `start()` and `stop()`; what does is `is_running_` (`OrderInv`: a `start()` under way has not set it,
  and `stop()` goes on only after it has seen it set and cleared it), so that the client is
  there as long as the flag is set or the capture thread is past its check of it
  (`ClientInv`), and `stop()` releases it after the thread was joined.
- **`AudioServerProofs`**: `ServerTypeCorrect`; `SpeakerAlwaysRestorable` (`UserSettingKept`)
  and `StopAlwaysRestores` (`StoppedRestores`), for Wi-Fi and USB, any clients, commands and
  mute method, from
  `SpeakerInv` (while silenced, the speaker is the user's setting silenced, which restoring
  undoes) and `JoinInv` (past its joins `stop()` is alone); `WifiMuteMatchesSession`, for
  any control commands, from an invariant that says which thread holds `client_mutex_` at
  which program point and what it has done so far. It needs `usb_mode = FALSE`:
  `server_usb_race` shows the race that breaks it otherwise.
- **`DeviceOpenProofs`**: `DeviceTypeCorrect`, `AtMostOneBackend`, `SuccessAlwaysHasPlayer`,
  `PlayingBackendKept`, for any number of attempts and any budgets. The inductive invariant
  adds to the type that attempts are started in order (`SpawnInv`) and within budget
  (`BudgetInv`), that an open device outside the slot belongs to an attempt still at one of
  four program points (`SlotInv`), and that every flag that means success was set with the
  slot filled (`SuccessInv`).
- **`UsbTunnelProofs`**, for any datagrams, kernel buffers and number of breaks:
  `NothingIsLostInside` (`NothingLostInside`), and the refinement of `OrderedDatagrams` in
  both directions, `PcGetsOrdered` (`PcGetsOrderedDatagrams`) and `PhoneGetsOrdered`
  (`PhoneGetsOrderedDatagrams`). `HeaderDecodes` shows that `FrameLen` undoes `Header` for
  every length that fits four digits; that the cap fits is the assumption
  `kMaxFramePayload < ByteBase * ByteBase * ByteBase * ByteBase`, 65536 < 256^4 in the code.
  The inductive invariant is about what is in transit from one relay to the other, that is
  the rest of its write buffer, the connection and the other's reassembly buffer, in this
  order: these bytes are the frames of the datagrams put on the connection and not read
  yet (`BytesInv`). A `recv()` or `send()` of any length moves the borders between the three
  but not the bytes. After a write that was given up they only begin those frames
  (`FramesPrefix`), and then that end must not write again, which is why the code has to
  close the connection; and a new connection begins with empty buffers, which is why it has
  to clear `rx`. So the bytes at the front of the reassembly buffer always begin a frame
  (`NextFrame`), and no decoded length is beyond the cap (`NeverOversize`): on a connection
  between two relays the error path for it is never taken. `NumbersInv` keeps the datagrams
  of one engine in order over its socket and all connections, and `ConnInv` says that each
  end holds its last one, so that what is extracted is later than everything before it
  (`ExtractsLater`).
- **`PlayersProofs`**, for any number of nodes, names and faults: `NothingEverLeaks`
  (`NothingLeaks` of the ALSA player) from an invariant that says that the open descriptors
  are those of three variables, the opener's, the player's and the closer's, which of them
  are in use at which program point (`OpenerInv`, `CloserInv`), and that there is one
  libasound handle from its open to its close (`HandleInv`); and `NoAgmplayOrphaned`
  (`NoOrphanAgmplay`) from `PidInv` (a process is recorded, or about to be by the thread that
  forked it) and `ReapInv` (`close()` clears `is_open_` before it reaps, so that a process
  recorded later is killed at once).
- **`AaudioProofs`**, for any FIFO and thresholds: `NoStreamEverLeaks` (`NoStreamLeak`) from
  `StreamInv` (the open streams are `stream_`, and there is none from the moment `close()`
  has closed it, wherever the pump is); `DeepDeviceNeverGivenUp` (`DeepDeviceKept`) from
  `DeepPlatformInv` (the pump writes to the current stream, and nothing is disconnected) and
  `DeepStreamInv` (from the second stall rebuild on the stream is a deep-buffer one, and a
  write to one does not fail). Its hypothesis `kMaxStallRebuilds >= 2` is what the code's 3
  provides; with 0 or 1 the device would be given up before the deep retry.
- **`TermuxProofs`**: `HandoverNeverMissed` (`HandoverNotMissed`), which is inductive as it
  stands, because the issuer holds `handoff_mutex_` from its look at the slot until it sleeps;
  `FilesStayIntact` (`ReliableFilesIntact`), for every pool of three files or more, every
  length of a file and every prefill; its only premises are those in the text of the
  property, that the app and the disk are reliable and commands keep pace with the pool. The
  invariant orders the files by `Age`, the number of files begun since: the one that waits is
  newer than the one that is played, and both are newer than the one to be truncated, which
  was no more than `CommandSlack + 1` files ahead of the played one (`OrderInv`); the file that
  is recorded is the newest and nobody else's before its handover (`RecordingInv`). A file
  that keeps pace before and after a rotation is then never the one to be opened next
  (`NeededFilesSurvive`): for the file before last that takes the slack of two commands and
  two files, which is how `CommandSlack` follows from the size of the pool.
- **`RingBufferProofs`**: `RingBufferIsQueue` (`IsQueue`), the refinement of `BoundedQueue`,
  for any items, capacities and block lengths. The inductive invariant is the type and
  `HeadInv`, which ties `head_` to `tail_` and `count_`. The two chunks of a copy are
  characterised once (`FilledAt`, `CopiedIsFront`), by position counted from `head_` or
  `tail_` instead of by index, and each method is then one equation on the contents.

Only model-checked: liveness under fairness (out of the prover's reach), which is every
property of `Session` and `PulsePlayer`; and one safety invariant, `NewSessionHeard` of
`AudioPath`. It bounds a count that goes back to the last packet stored, over packets of
several sessions, and neither a packet nor the buffer says which session it is of: an
inductive invariant would have to reconstruct that. It also rests on more than the ring's
assumption, that a session does not come round to the window again with all that lies
between lost (`SEQ_MOD` of at least `4 * MAX_SLOTS - 2`; 2^32 against 256 in the code).

## 8. Not modelled

- Samples: conversion and resampling in the capture engine, concealment, the AGM downmix,
  volume. No branch depends on them.
- The header layout and the validation of `protocol.hpp`, pure functions over bytes which
  every packet of these engines passes; the contents of replies.
- In which thread COM is initialised: `start()` runs on the network thread and `stop()`,
  with `CoUninitialize`, on the main thread. What a call does then is a matter of the COM
  runtime.
- Discovery, the USB branch of the client's start, sending control commands, the privilege
  drop, finding the PulseAudio socket and cookie, the transport of Termux:API commands.
- The dummy player, the command lines, and those Android helpers whose answer nobody looks
  at: sequential wrappers around system calls.
- `stream_daemon`, a stand-alone tool with one thread that no engine talks to.
- `flush()` of the players, which the client never calls, and delay queries, which only feed
  statistics.

## 9. Plan

Modelled and checked: jitter buffer and the path of the sound into it, server with speaker
and capture, device supervisor, tunnel, session, five backends, ring buffer; proved: every
safety property of these except the one named at the end of section 7.

Next, proofs in this order:

1. `NewSessionHeard`, from a history variable that holds the session of each packet.
2. The type invariants of the backends.

Models worth adding: packet validation against a reference definition; a client's discovery.
