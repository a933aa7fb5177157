----------------------------- MODULE PulsePlayer -----------------------------
(***************************************************************************)
(* The PulseAudio backend (src/client/pulse_player.cpp): the playback      *)
(* thread's write_frames(), which rebuilds a broken connection in place,   *)
(* against close() from another thread and a daemon that restarts or stops *)
(* taking samples: a wedged daemon, or a sink that is suspended.           *)
(*                                                                         *)
(* is_open_ is an atomic read before mutex_ is taken.  The calls that may  *)
(* block with mutex_ held are steps of their own: the connection and the   *)
(* write made inside write_frames(), and the drain inside close().         *)
(***************************************************************************)
EXTENDS Integers

CONSTANT kWriteFailuresBeforeReconnect

VARIABLES
    is_open,
    stream,         \* "none", "good", or "broken": its daemon is gone
    mutex,          \* who holds mutex_: "writer", "closer", or "free"
    consecutive_write_failures,
    may_reconnect,  \* kReconnectIntervalMs have passed since last_reconnect_ms_
    writer, closer, \* where the two threads are
    daemon          \* "absent", "stalled" (takes no samples), or "playing"

vars == <<is_open, stream, mutex, consecutive_write_failures, may_reconnect,
          writer, closer, daemon>>

TypeOK ==
    /\ is_open \in BOOLEAN
    /\ stream \in {"none", "good", "broken"}
    /\ mutex \in {"free", "writer", "closer"}
    /\ consecutive_write_failures \in 0..kWriteFailuresBeforeReconnect - 1
    /\ may_reconnect \in BOOLEAN
    /\ writer \in {"idle", "lock", "connect", "write"}
    /\ closer \in {"idle", "lock", "drain", "free", "done"}
    /\ daemon \in {"absent", "stalled", "playing"}

\* open() has succeeded; last_reconnect_ms_ is still 0.
Init ==
    /\ is_open = TRUE /\ stream = "good" /\ mutex = "free"
    /\ consecutive_write_failures = 0 /\ may_reconnect = TRUE
    /\ writer = "idle" /\ closer = "idle"
    /\ daemon = "playing"

-----------------------------------------------------------------------------
(* write_frames                                                            *)

WriteEnter ==
    /\ writer = "idle"
    /\ is_open
    /\ writer' = "lock"
    /\ UNCHANGED <<is_open, stream, mutex, consecutive_write_failures, may_reconnect,
                   closer, daemon>>

\* The connection died earlier and the last attempt is too recent: returns 0.
WriteTooSoon ==
    /\ writer = "lock" /\ mutex = "free"
    /\ stream = "none" /\ ~may_reconnect
    /\ writer' = "idle"
    /\ UNCHANGED <<is_open, stream, mutex, consecutive_write_failures, may_reconnect,
                   closer, daemon>>

WriteLock ==
    /\ writer = "lock" /\ mutex = "free"
    /\ stream = "none" => may_reconnect
    /\ mutex' = "writer"
    /\ writer' = IF stream = "none" THEN "connect" ELSE "write"
    /\ may_reconnect' = (may_reconnect /\ stream # "none")
    /\ UNCHANGED <<is_open, stream, consecutive_write_failures, closer, daemon>>

\* connect_locked() from write_frames() always returns: a wedged daemon makes it time
\* out, a suspended sink accepts the stream.
Reconnect ==
    /\ writer = "connect"
    /\ \/ /\ daemon # "absent"
          /\ stream' = "good" /\ consecutive_write_failures' = 0
          /\ writer' = "write" /\ UNCHANGED mutex
       \/ /\ daemon # "playing"
          /\ writer' = "idle" /\ mutex' = "free"
          /\ UNCHANGED <<stream, consecutive_write_failures>>
    /\ UNCHANGED <<is_open, may_reconnect, closer, daemon>>

\* pa_simple_write() returns when the daemon has taken every byte, and has no timeout:
\* with a stalled daemon it may still find room in the buffer, and may never return.
WriteOk ==
    /\ writer = "write" /\ stream = "good"
    /\ consecutive_write_failures' = 0
    /\ writer' = "idle" /\ mutex' = "free"
    /\ UNCHANGED <<is_open, stream, may_reconnect, closer, daemon>>

\* Mutant: the broken stream is never dropped.
WriteFailsKeeps ==
    /\ writer = "write" /\ stream = "broken"
    /\ UNCHANGED <<stream, consecutive_write_failures, may_reconnect>>
    /\ writer' = "idle" /\ mutex' = "free"
    /\ UNCHANGED <<is_open, closer, daemon>>

\* After enough failures in a row the stream is dropped, to be rebuilt later; the drain
\* of a stream whose daemon is gone fails at once.
WriteFails ==
    /\ writer = "write" /\ stream = "broken"
    /\ IF consecutive_write_failures + 1 >= kWriteFailuresBeforeReconnect
       THEN stream' = "none" /\ consecutive_write_failures' = 0 /\ may_reconnect' = FALSE
       ELSE /\ consecutive_write_failures' = consecutive_write_failures + 1
            /\ UNCHANGED <<stream, may_reconnect>>
    /\ writer' = "idle" /\ mutex' = "free"
    /\ UNCHANGED <<is_open, closer, daemon>>

WriteStep == \/ WriteEnter \/ WriteTooSoon \/ WriteLock \/ Reconnect
             \/ WriteOk \/ WriteFails

\* The steps write_frames() is sure to take: nothing bounds a write to a stalled daemon.
WriteGoesOn == WriteStep /\ (writer = "write" /\ stream = "good" => daemon = "playing")

-----------------------------------------------------------------------------
(* close                                                                   *)

CloseExchange ==
    /\ closer = "idle"
    /\ is_open' = FALSE
    /\ closer' = "lock"
    /\ UNCHANGED <<stream, mutex, consecutive_write_failures, may_reconnect, writer, daemon>>

\* disconnect_locked() takes the stream out first.  A later close(), the destructor's
\* too, sees is_open_ false and returns.
CloseLock ==
    /\ closer = "lock" /\ mutex = "free"
    /\ stream' = "none"
    /\ mutex' = "closer"
    /\ closer' = IF stream = "good" THEN "drain" ELSE "free"
    /\ UNCHANGED <<is_open, consecutive_write_failures, may_reconnect, writer, daemon>>

\* pa_simple_drain() returns when what is queued has been played.
CloseDrain ==
    /\ closer = "drain" /\ daemon = "playing"
    /\ closer' = "free"
    /\ UNCHANGED <<is_open, stream, mutex, consecutive_write_failures, may_reconnect,
                   writer, daemon>>

CloseFree ==
    /\ closer = "free"
    /\ mutex' = "free"
    /\ closer' = "done"
    /\ UNCHANGED <<is_open, stream, consecutive_write_failures, may_reconnect, writer, daemon>>

CloseStep == CloseLock \/ CloseDrain \/ CloseFree

-----------------------------------------------------------------------------
\* A blocked write or drain fails when the daemon goes away.
DaemonStops ==
    /\ daemon # "absent"
    /\ daemon' = "absent"
    /\ stream' = IF stream = "good" THEN "broken" ELSE stream
    /\ closer' = IF closer = "drain" THEN "free" ELSE closer
    /\ UNCHANGED <<is_open, mutex, consecutive_write_failures, may_reconnect, writer>>

DaemonStarts ==
    /\ daemon = "absent"
    /\ daemon' = "playing"
    /\ UNCHANGED <<is_open, stream, mutex, consecutive_write_failures, may_reconnect,
                   writer, closer>>

\* The daemon's main loop wedges or its sink is suspended, and recovers from that.
DaemonStalls ==
    /\ daemon = "playing"
    /\ daemon' = "stalled"
    /\ UNCHANGED <<is_open, stream, mutex, consecutive_write_failures, may_reconnect,
                   writer, closer>>

DaemonResumes ==
    /\ daemon = "stalled"
    /\ daemon' = "playing"
    /\ UNCHANGED <<is_open, stream, mutex, consecutive_write_failures, may_reconnect,
                   writer, closer>>

Tick ==
    /\ ~may_reconnect
    /\ may_reconnect' = TRUE
    /\ UNCHANGED <<is_open, stream, mutex, consecutive_write_failures, writer, closer, daemon>>

Next == \/ WriteStep \/ CloseExchange \/ CloseStep
        \/ DaemonStops \/ DaemonStarts \/ DaemonStalls \/ DaemonResumes \/ Tick

\* The playback thread writes on as long as its writes return, time passes, and close()
\* goes on when mutex_ is free; samples that wait are taken in the end by a daemon that
\* plays now and again (the strong fairness).  Nobody need call close(), and no daemon
\* need start or resume.
Spec == /\ Init /\ [][Next]_vars
        /\ SF_vars(WriteGoesOn) /\ SF_vars(CloseStep) /\ WF_vars(Tick)

-----------------------------------------------------------------------------
(* Properties                                                              *)

\* "A PulseAudio restart does not take the client down": once a daemon is there to
\* stay and plays, an open player ends up on a working stream for good.
RestartSurvived == <>[](daemon = "playing" /\ is_open) => <>[](stream = "good")

\* close() is neither starved of mutex_ by a playback thread that writes on, nor held up
\* by a reconnection or a drain, unless a daemon stops taking samples for good.
CloseReturns == []<>(daemon # "stalled") => (closer = "lock") ~> (closer = "done")

\* The playback thread leaves write_frames() too, where it may be in the middle of a
\* reconnection, unless a daemon stops taking samples for good.
CloseUnblocksWriter == []<>(daemon # "stalled") => (closer = "done") ~> (writer = "idle")

\* What Client::stop() says of the close() it makes: "Close audio player to unblock
\* playback thread immediately".  Not so when a daemon has stopped taking samples: the
\* write waits with mutex_ held, and close() waits for mutex_, or drains.
ClosePlayerUnblocksPlayback == (closer = "lock") ~> (writer = "idle")

\* mutex_ "serializes stream_ across write/close/reconnect": a closed player that
\* nobody is writing to has no stream.
ClosedHasNoStream == closer = "done" /\ writer = "idle" => stream = "none"
=============================================================================
