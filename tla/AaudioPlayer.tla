---------------------------- MODULE AaudioPlayer ----------------------------
(***************************************************************************)
(* The AAudio backend (client/aaudio_player.cpp): the playback thread      *)
(* writes PCM into a FIFO, a pump thread moves it into an AAudio stream,   *)
(* watches over that stream and recreates it, and close() tears both down  *)
(* while they may be at any point.  A section under stream_mutex_ is one   *)
(* action; everything between two sections is interleaved.                 *)
(*                                                                         *)
(* AAudio itself is external.  A stream is a handle; the device behind it  *)
(* renders, renders only deep-buffer streams, stalls (a write times out),  *)
(* or hangs (a write does not even time out), and may change its mind.  A  *)
(* write through a closed handle is modelled by its gentlest outcome, an   *)
(* error; on a real device it may crash.                                   *)
(***************************************************************************)
EXTENDS Naturals, FiniteSets

CONSTANTS
    FifoChunks,             \* capacity of the FIFO, in pump chunks
    kStallRebuildThreshold, \* failed writes in a row that make a stall
    kMaxStallRebuilds,      \* stall rebuilds before giving up
    Platforms               \* the kinds of AAudio the player may meet

ASSUME AaudioAssumption ==
    /\ FifoChunks \in Nat \ {0}
    /\ kStallRebuildThreshold \in Nat \ {0}
    /\ kMaxStallRebuilds \in Nat
    /\ Platforms \subseteq {"hostile", "reopens", "deep"}

Handles == {1, 2}
None == 0

VARIABLES
    is_open, stop_pump, pump_writing, stream,      \* members of the player
    fails, stall_rebuilds, deep_retry,             \* the watchdog's members
    recent,    \* last_rebuild_ms_ is less than kMinRebuildIntervalMs ago
    young,     \* stream_opened_ms_ is less than kNeverRenderThresholdMs ago
    fifo,      \* chunks in the FIFO
    pump,      \* where the pump thread is
    held,      \* the pump's local copy of stream_
    closer,    \* where close() is
    writer,    \* where write_frames() is
    opened,    \* AAudio: the handles that are open
    hal,       \* AAudio: what the device does now
    cut,       \* AAudio: the current stream is DISCONNECTED
    played,    \* AAudio: the current stream has read frames
    deep,      \* AAudio: the current stream is a deep-buffer one
    platform   \* AAudio: what may happen at all, fixed for a behaviour

player == <<is_open, stop_pump, pump_writing, stream>>
watchdog == <<fails, stall_rebuilds, deep_retry>>
times == <<recent, young>>
threads == <<pump, held, closer, writer>>
aaudio == <<opened, hal, cut, played, deep, platform>>
vars == <<player, watchdog, times, fifo, threads, aaudio>>

\* A device of the platform "deep" renders at least deep-buffer streams, and its
\* routing never changes.  Elsewhere the device may do anything: one that renders
\* only some streams is one that stalls for the others.
Hals == IF platform = "deep" THEN {"renders", "deepOnly"} ELSE {"renders", "stalls", "hangs"}

\* May a stream be disconnected by a routing change?
MayDisconnect == platform /= "deep"

\* May openStream fail when a stream is recreated?
RebuildMayFail == platform = "hostile"

TypeOK ==
    /\ is_open \in BOOLEAN /\ stop_pump \in BOOLEAN /\ pump_writing \in BOOLEAN
    /\ stream \in Handles \cup {None} /\ held \in Handles \cup {None}
    /\ fails \in 0 .. kStallRebuildThreshold
    /\ stall_rebuilds \in 0 .. kMaxStallRebuilds + 1
    /\ deep_retry \in BOOLEAN /\ recent \in BOOLEAN /\ young \in BOOLEAN
    /\ fifo \in 0 .. FifoChunks
    /\ pump \in {"poll", "resolve", "enter", "writing", "failed", "cut", "wrote", "exited"}
    /\ closer \in {"idle", "wait", "lock", "lockLate", "join", "joinLate", "closed"}
    /\ writer \in {"idle", "writing"}
    /\ opened \subseteq Handles
    /\ platform \in Platforms /\ hal \in Hals /\ cut \in BOOLEAN /\ played \in BOOLEAN /\ deep \in BOOLEAN

Init ==
    /\ is_open = FALSE /\ stop_pump = FALSE /\ pump_writing = FALSE /\ stream = None
    /\ fails = 0 /\ stall_rebuilds = 0 /\ deep_retry = FALSE
    /\ recent = FALSE /\ young = FALSE
    /\ fifo = 0
    /\ pump = "exited" /\ held = None /\ closer = "closed" /\ writer = "idle"
    /\ platform \in Platforms
    /\ opened = {} /\ hal \in Hals /\ cut = FALSE /\ played = FALSE /\ deep = FALSE

Fresh(h) == h \notin opened \cup {stream}

Renders == ~cut /\ (hal = "renders" \/ (hal = "deepOnly" /\ deep))

\* The stream a successful openStream leaves in stream_, built deep or not.
NewStream(h, isDeep) ==
    /\ stream' = h
    /\ cut' = FALSE /\ played' = FALSE /\ deep' = isDeep
    /\ young' = TRUE

\* open(): a failing builder or FIFO leaves the player as it was.
Open ==
    /\ closer = "closed" /\ pump = "exited"
    /\ \E h \in Handles :
         /\ Fresh(h)
         /\ NewStream(h, FALSE)
         /\ opened' = opened \cup {h}
    /\ fails' = 0 /\ stall_rebuilds' = 0 /\ deep_retry' = FALSE
    /\ fifo' = 0
    /\ stop_pump' = FALSE /\ is_open' = TRUE
    /\ pump' = "poll" /\ closer' = "idle"
    /\ UNCHANGED <<pump_writing, recent, held, writer, hal, platform>>

-----------------------------------------------------------------------------
(* write_frames(), one chunk: it leaves when the player is no longer open, *)
(* and otherwise polls until the pump has made room.                       *)

WriteBegin ==
    /\ writer = "idle" /\ is_open
    /\ writer' = "writing"
    /\ UNCHANGED <<player, watchdog, times, fifo, pump, held, closer, aaudio>>

WriteStep ==
    /\ writer = "writing"
    /\ \/ ~is_open /\ UNCHANGED fifo
       \/ is_open /\ fifo < FifoChunks /\ fifo' = fifo + 1
    /\ writer' = "idle"
    /\ UNCHANGED <<player, watchdog, times, pump, held, closer, aaudio>>

-----------------------------------------------------------------------------
(* close()                                                                 *)

CloseBegin ==
    /\ closer = "idle"
    /\ stop_pump' = TRUE
    /\ closer' = "wait"
    /\ UNCHANGED <<is_open, pump_writing, stream, watchdog, times, fifo, pump, held,
                   writer, aaudio>>

\* At most 60 looks, 10 ms apart, at pump_writing_; then it goes on anyway.
CloseWait ==
    /\ closer = "wait"
    /\ closer' = IF pump_writing THEN "lockLate" ELSE "lock"
    /\ UNCHANGED <<player, watchdog, times, fifo, pump, held, writer, aaudio>>

\* Mutant: close() insists on a pump that is not inside a write.
CloseStreamPolite ==
    /\ closer \in {"lock", "lockLate"} /\ ~pump_writing
    /\ closer' = IF closer = "lock" THEN "join" ELSE "joinLate"
    /\ opened' = opened \ {stream}
    /\ stream' = None
    /\ UNCHANGED <<is_open, stop_pump, pump_writing, watchdog, times, fifo, pump, held,
                   writer, hal, cut, played, deep, platform>>

CloseStream ==
    /\ closer \in {"lock", "lockLate"}
    /\ closer' = IF closer = "lock" THEN "join" ELSE "joinLate"
    /\ opened' = opened \ {stream}
    /\ stream' = None
    /\ UNCHANGED <<is_open, stop_pump, pump_writing, watchdog, times, fifo, pump, held,
                   writer, hal, cut, played, deep, platform>>

CloseJoin ==
    /\ closer \in {"join", "joinLate"}
    /\ pump = "exited"
    /\ closer' = "closed"
    /\ fifo' = 0
    /\ is_open' = FALSE
    /\ UNCHANGED <<stop_pump, pump_writing, stream, watchdog, times, pump, held, writer,
                   aaudio>>

-----------------------------------------------------------------------------
(* pump_loop()                                                             *)

\* rebuild_stream_locked() except fails: the old stream goes; a new one, if
\* any, takes its place.
Rebuild(isDeep) ==
    /\ recent' = TRUE
    /\ \/ \E h \in Handles :
            /\ Fresh(h)
            /\ NewStream(h, isDeep)
            /\ opened' = (opened \ {stream}) \cup {h}
       \/ /\ RebuildMayFail
          /\ stream' = None
          /\ opened' = opened \ {stream}
          /\ UNCHANGED <<young, cut, played, deep>>

NoRebuild == UNCHANGED <<stream, times, opened, cut, played, deep>>

PumpPoll ==
    /\ pump = "poll"
    /\ \/ stop_pump /\ pump' = "exited" /\ UNCHANGED fifo
       \/ ~stop_pump /\ fifo > 0 /\ fifo' = fifo - 1 /\ pump' = "resolve"
    /\ UNCHANGED <<player, watchdog, times, held, closer, writer, aaudio>>

\* The stream is copied before ensure_stream_started_locked(), which may
\* close it and put another one in its place.
PumpResolve ==
    /\ pump = "resolve"
    /\ \/ /\ stream = None
          /\ pump' = "exited"
          /\ UNCHANGED <<held, fails>> /\ NoRebuild
       \/ /\ stream /= None
          /\ \/ cut /\ ~recent /\ Rebuild(deep_retry) /\ fails' = 0
             \/ (~cut \/ recent) /\ NoRebuild /\ UNCHANGED fails
          /\ IF stream' = None
             THEN pump' = "poll" /\ UNCHANGED held
             ELSE pump' = "enter" /\ held' = stream
    /\ UNCHANGED <<is_open, stop_pump, pump_writing, stall_rebuilds, deep_retry, fifo,
                   closer, writer, hal, platform>>

PumpWriteBegin ==
    /\ pump = "enter"
    /\ pump_writing' = TRUE
    /\ pump' = "writing"
    /\ UNCHANGED <<is_open, stop_pump, stream, watchdog, times, fifo, held, closer,
                   writer, aaudio>>

\* AAudioStream_write() returns, and the pump asks whether the stream was
\* disconnected.  On a device that hangs it returns once its stream is closed.
PumpWriteEnd ==
    /\ pump = "writing"
    /\ hal /= "hangs" \/ cut \/ held \notin opened
    /\ pump_writing' = FALSE
    /\ held' = None
    /\ \/ held \in opened /\ Renders /\ pump' = "wrote" /\ played' = TRUE
       \/ held \in opened /\ cut /\ pump' = "cut" /\ UNCHANGED played
       \/ held \in opened /\ ~cut /\ ~Renders /\ pump' = "failed" /\ UNCHANGED played
       \/ held \notin opened /\ pump' \in {"cut", "failed"} /\ UNCHANGED played
    /\ UNCHANGED <<is_open, stop_pump, stream, watchdog, times, fifo, closer,
                   writer, opened, hal, cut, deep, platform>>

NeverRendered == pump = "failed" /\ ~played /\ ~young

\* consecutive_write_failures_ after this failure, capped at the threshold.
Failures ==
    IF NeverRendered \/ fails + 1 >= kStallRebuildThreshold
    THEN kStallRebuildThreshold ELSE fails + 1

PumpClosed ==
    /\ pump \in {"failed", "cut", "wrote"}
    /\ stream = None
    /\ pump' = "exited"
    /\ UNCHANGED <<player, watchdog, times, fifo, held, closer, writer, aaudio>>

\* Mutant: the stream may have been closed meanwhile, and nobody looks.
PumpCutUnchecked ==
    /\ pump = "cut"
    /\ ~recent /\ Rebuild(deep_retry) /\ fails' = 0 /\ fifo' = 0
    /\ pump' = "poll"
    /\ UNCHANGED <<is_open, stop_pump, pump_writing, stall_rebuilds, deep_retry, held,
                   closer, writer, hal, platform>>

PumpCut ==
    /\ pump = "cut" /\ stream /= None
    /\ \/ ~recent /\ Rebuild(deep_retry) /\ fails' = 0 /\ fifo' = 0
       \/ recent /\ NoRebuild /\ fails' = Failures /\ UNCHANGED fifo
    /\ pump' = "poll"
    /\ UNCHANGED <<is_open, stop_pump, pump_writing, stall_rebuilds, deep_retry, held,
                   closer, writer, hal, platform>>

\* A failed write that is no stall yet, or one too soon after a rebuild.
PumpFailed ==
    /\ pump = "failed" /\ stream /= None
    /\ Failures < kStallRebuildThreshold \/ recent
    /\ fails' = Failures
    /\ deep_retry' = (deep_retry \/ NeverRendered)
    /\ pump' = "poll"
    /\ UNCHANGED <<player, stall_rebuilds, times, fifo, held, closer, writer, aaudio>>

Stalled ==
    /\ pump = "failed" /\ stream /= None
    /\ Failures >= kStallRebuildThreshold /\ ~recent

DeepRetry == deep_retry \/ NeverRendered \/ stall_rebuilds > 0

\* The stream is recreated and the FIFO drained.
RebuildAndDrain(isDeep) ==
    /\ Rebuild(isDeep)
    /\ fails' = 0
    /\ fifo' = 0
    /\ pump' = "poll"
    /\ UNCHANGED <<is_open, stop_pump, pump_writing, held, closer, writer, hal, platform>>

\* Mutants: the rebuild is not counted, or no rebuild asks for a deep-buffer stream.
PumpStallUncounted ==
    /\ Stalled
    /\ stall_rebuilds < kMaxStallRebuilds
    /\ deep_retry' = DeepRetry
    /\ RebuildAndDrain(DeepRetry)
    /\ UNCHANGED stall_rebuilds

PumpStallNeverDeep ==
    /\ Stalled
    /\ stall_rebuilds < kMaxStallRebuilds
    /\ stall_rebuilds' = stall_rebuilds + 1
    /\ RebuildAndDrain(FALSE)
    /\ UNCHANGED deep_retry

PumpStall ==
    /\ Stalled
    /\ stall_rebuilds < kMaxStallRebuilds
    /\ stall_rebuilds' = stall_rebuilds + 1
    /\ deep_retry' = DeepRetry
    /\ RebuildAndDrain(DeepRetry)

\* One stall too many: the stream is closed and the pump ends, with is_open_
\* as given.
EndPump(open) ==
    /\ Stalled
    /\ stall_rebuilds >= kMaxStallRebuilds
    /\ stall_rebuilds' = stall_rebuilds + 1
    /\ deep_retry' = DeepRetry
    /\ fails' = Failures
    /\ opened' = opened \ {stream}
    /\ stream' = None
    /\ recent' = TRUE
    /\ is_open' = open
    /\ pump' = "exited"
    /\ UNCHANGED <<stop_pump, pump_writing, young, fifo, held, closer, writer, hal, cut,
                   played, deep, platform>>

\* Mutant: the player is not marked as dead.
PumpGiveUpStaysOpen == EndPump(is_open)

PumpGiveUp == EndPump(FALSE)

\* A full write: after a stall, what piled up in the FIFO is dropped.
PumpWrote ==
    /\ pump = "wrote" /\ stream /= None
    /\ fifo' = IF fails > 0 THEN 0 ELSE fifo
    /\ fails' = 0
    /\ pump' = "poll"
    /\ UNCHANGED <<player, stall_rebuilds, deep_retry, times, held, closer, writer, aaudio>>

Pump ==
    \/ PumpPoll \/ PumpResolve \/ PumpWriteBegin \/ PumpWriteEnd
    \/ PumpClosed \/ PumpCut \/ PumpFailed \/ PumpStall \/ PumpGiveUp \/ PumpWrote

-----------------------------------------------------------------------------
(* The device and the clock.                                               *)

HalChanges ==
    /\ hal' \in Hals \ {hal}
    /\ UNCHANGED <<player, watchdog, times, fifo, threads, opened, cut, played, deep,
                   platform>>

Disconnect ==
    /\ MayDisconnect /\ stream \in opened /\ ~cut
    /\ cut' = TRUE
    /\ UNCHANGED <<player, watchdog, times, fifo, threads, opened, hal, played, deep,
                   platform>>

\* kMinRebuildIntervalMs is the shorter of the two, and a stream is never
\* older than the last rebuild.
TimePasses ==
    /\ \/ recent /\ recent' = FALSE /\ UNCHANGED young
       \/ ~recent /\ young /\ young' = FALSE /\ UNCHANGED recent
    /\ UNCHANGED <<player, watchdog, fifo, threads, aaudio>>

Close == CloseWait \/ CloseStream \/ CloseJoin
Writer == WriteBegin \/ WriteStep

Next ==
    \/ Open \/ WriteBegin \/ WriteStep
    \/ CloseBegin \/ CloseWait \/ CloseStream \/ CloseJoin
    \/ PumpPoll \/ PumpResolve \/ PumpWriteBegin \/ PumpWriteEnd
    \/ PumpClosed \/ PumpCut \/ PumpFailed \/ PumpStall \/ PumpGiveUp \/ PumpWrote
    \/ HalChanges \/ Disconnect \/ TimePasses

\* The threads run, and the client's playback thread goes on writing; the
\* device promises nothing, and nobody has to close or to open.
Fairness ==
    /\ WF_vars(Pump) /\ WF_vars(Close) /\ WF_vars(Writer) /\ WF_vars(TimePasses)

Spec == Init /\ [][Next]_vars /\ Fairness

-----------------------------------------------------------------------------
(* Properties                                                              *)

\* Every AAudio stream that is open is the one the player knows, whatever the
\* pump was doing when close() came: none is left behind by a rebuild that
\* races with the teardown, and after close() or a give-up there is none.
NoStreamLeak ==
    /\ opened = {stream} \ {None}
    /\ closer = "closed" => opened = {}

\* close() returns on any device, one whose write never returns included: it
\* closes the stream under the pump before it waits for the pump.
CloseReturns == closer = "wait" ~> closer = "closed"

\* A device that has stopped rendering for good and is not disconnected is
\* given up: the player says that it is no longer open, so that the client
\* falls back to another backend.
DeadStreamGivenUp == <>[](hal = "stalls" /\ ~cut) => []<>(~is_open)

\* The same where a stream can always be recreated.
ReopenableStreamGivenUp == platform /= "hostile" => DeadStreamGivenUp

\* There the playback thread never stays inside write_frames() for good either,
\* unless the device itself hangs: the pump makes room or the player closes.
WriterReturns ==
    platform /= "hostile" /\ <>[](hal /= "hangs") => (writer = "writing" ~> writer = "idle")

\* A device that renders deep-buffer streams, and whose routing does not
\* change, is never given up: the stall rebuilds try one before they run out,
\* so the player stays open until somebody closes it.
DeepDeviceKept == platform = "deep" => is_open \/ closer = "closed"

\* close() that found no write in flight closes a stream nobody is writing to.
TeardownExcludesWrite == closer = "join" => pump /= "writing"

\* The pump writes to the stream that is current, not to one it has closed.
WritesCurrentStream == pump = "writing" /\ closer = "idle" => held = stream

\* The player is given up on a device that never renders only: a stream that
\* has played is not its last.
GivesUpOnlyUnrendered == [][PumpGiveUp => ~played]_vars
=============================================================================
