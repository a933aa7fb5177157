---------------------------- MODULE AgmFifoPlayer ----------------------------
(***************************************************************************)
(* The AGM backend (src/client/agm_fifo_player.cpp): an agmplay process    *)
(* fed through a FIFO.  Another sound may preempt its session on the DSP;  *)
(* the watcher thread sees the codec's speaker route cleared, or the FIFO  *)
(* stays full, and the playback thread's recover() kills agmplay, restarts *)
(* the audio HAL and spawns a fresh one, while close() may come from the   *)
(* thread that stops the client.                                           *)
(*                                                                         *)
(* io_mutex_ is held over more than one step only by close(), from         *)
(* CloseLock to CloseUnlink.  recovering_ is true while the playback       *)
(* thread is inside recover(), past its rate limit (Recovering below).     *)
(***************************************************************************)
EXTENDS Integers

CONSTANT MaxFaults \* how often the phone misbehaves: preemptions, failures, crashes

VARIABLES
    is_open, opening,   \* opening: open() has not returned
    fifo_fd,            \* is fifo_fd_ an open descriptor?
    agmplay_pid,        \* is a process recorded in agmplay_pid_?
    session_closed,
    last_recover,       \* since last_recover_ms_: 0 settling, 1 settled, 2 may recover
    stall,              \* stall_start_ms_: 0 unset, 1 set, 2 set kStallTriggerMs ago
    writer, watcher, closer,
    agmplay,            \* the agmplay process
    fifo, full,         \* does kFifoPath exist; is the FIFO full?
    routing, mixer,     \* the speaker route; does tinymix know its controls?
    hal_restarted,      \* is the running HAL the one of restarted_hal_pid_?
    stale,              \* does the DSP hold a session that renders no sound?
    faults

playerVars == <<is_open, opening, fifo_fd, agmplay_pid, session_closed, last_recover, stall>>
processVars == <<agmplay, fifo, full>>
phoneVars == <<routing, mixer, hal_restarted, stale>>
vars == <<playerVars, processVars, phoneVars, writer, watcher, closer, faults>>

Recovering == writer \in {"hal", "route", "spawn", "record", "wait", "store", "header", "failed"}
              /\ ~opening
HasReader == agmplay \in {"reading", "wedged"}
MutexFree == closer \notin {"wait", "interrupt", "unlink"}

\* open() has routed the speaker (best effort) and set is_open_; respawn_subprocess()
\* comes next.
Init ==
    /\ is_open = TRUE /\ opening = TRUE
    /\ fifo_fd = FALSE /\ agmplay_pid = FALSE
    /\ session_closed = FALSE /\ last_recover = 2 /\ stall = 0
    /\ writer = "spawn" /\ watcher = "none" /\ closer = "idle"
    /\ agmplay = "none" /\ fifo = FALSE /\ full = FALSE
    /\ mixer \in BOOLEAN /\ routing = mixer
    /\ hal_restarted = FALSE /\ stale = FALSE
    /\ faults = 0

Fault == faults < MaxFaults /\ faults' = faults + 1

-----------------------------------------------------------------------------
(* respawn_subprocess, from open() and from recover()                      *)

\* A fresh FIFO and a forked agmplay.
Spawn ==
    /\ writer = "spawn"
    /\ fifo' = TRUE /\ full' = FALSE
    /\ agmplay' = "starting"
    /\ writer' = "record"
    /\ UNCHANGED <<playerVars, phoneVars, watcher, closer, faults>>

\* mkfifo() or fork() fails: the old path is gone, and no new one is left.
SpawnFails ==
    /\ writer = "spawn"
    /\ Fault
    /\ fifo' = FALSE
    /\ writer' = "failed"
    /\ UNCHANGED <<playerVars, agmplay, full, phoneVars, watcher, closer>>

\* Mutant: the process is recorded whether or not the player was closed meanwhile.
RecordAlways ==
    /\ writer = "record" /\ MutexFree
    /\ agmplay_pid' = TRUE
    /\ writer' = "wait"
    /\ UNCHANGED <<is_open, opening, fifo_fd, session_closed, last_recover, stall,
                   processVars, phoneVars, watcher, closer, faults>>

\* "Shutdown raced the spawn; don't leave an orphan agmplay behind."
Record ==
    /\ writer = "record" /\ MutexFree
    /\ IF is_open
       THEN agmplay_pid' = TRUE /\ writer' = "wait" /\ UNCHANGED agmplay
       ELSE agmplay' = "none" /\ writer' = "failed" /\ UNCHANGED agmplay_pid
    /\ UNCHANGED <<is_open, opening, fifo_fd, session_closed, last_recover, stall,
                   fifo, full, phoneVars, watcher, closer, faults>>

\* wait_for_reader(): the open succeeds once agmplay has the other end.
ReaderFound ==
    /\ writer = "wait"
    /\ fifo /\ HasReader
    /\ writer' = "store"
    /\ UNCHANGED <<playerVars, processVars, phoneVars, watcher, closer, faults>>

\* close() has removed the path: an error other than ENXIO.
PathGone ==
    /\ writer = "wait"
    /\ ~fifo
    /\ writer' = "failed"
    /\ UNCHANGED <<playerVars, processVars, phoneVars, watcher, closer, faults>>

\* Nobody opens the FIFO for kRecoveryReaderTimeoutMs; agmplay stays recorded.
ReaderTimeout ==
    /\ writer = "wait"
    /\ fifo /\ ~HasReader
    /\ \/ agmplay = "exited" /\ UNCHANGED faults
       \/ agmplay # "exited" /\ Fault
    /\ writer' = "failed"
    /\ UNCHANGED <<playerVars, processVars, phoneVars, watcher, closer>>

\* Without io_mutex_.
StoreFd ==
    /\ writer = "store"
    /\ fifo_fd' = TRUE
    /\ writer' = "header"
    /\ UNCHANGED <<is_open, opening, agmplay_pid, session_closed, last_recover, stall,
                   processVars, phoneVars, watcher, closer, faults>>

\* write_wav_header(), then what open() or recover() does after a respawn: the
\* first starts the watcher if it can, the second routes the speaker again.
Respawned ==
    /\ writer = "header"
    /\ writer' = "idle" /\ opening' = FALSE
    /\ IF opening
       THEN watcher' \in {"none", "poll"} /\ UNCHANGED <<stall, routing>>
       ELSE stall' = 0 /\ routing' = (routing \/ mixer) /\ UNCHANGED watcher
    /\ UNCHANGED <<is_open, fifo_fd, agmplay_pid, session_closed, last_recover,
                   processVars, mixer, hal_restarted, stale, closer, faults>>

\* recover() gives up; open() closes the player and fails.
RespawnFailed ==
    /\ writer = "failed"
    /\ IF opening THEN writer' = "ended" /\ closer' = "join"
                  ELSE writer' = "idle" /\ UNCHANGED closer
    /\ opening' = FALSE
    /\ UNCHANGED <<is_open, fifo_fd, agmplay_pid, session_closed, last_recover, stall,
                   processVars, phoneVars, watcher, faults>>

-----------------------------------------------------------------------------
(* write_frames                                                            *)

\* A closed player and a player without a FIFO return 0.
WriteEnter ==
    /\ writer = "idle" /\ MutexFree
    /\ is_open /\ fifo_fd
    /\ session_closed' = FALSE
    /\ writer' = IF session_closed THEN "recover" ELSE "write"
    /\ UNCHANGED <<is_open, opening, fifo_fd, agmplay_pid, last_recover, stall,
                   processVars, phoneVars, watcher, closer, faults>>

WriteClosed ==
    /\ writer = "write" /\ MutexFree
    /\ ~is_open \/ ~fifo_fd
    /\ writer' = "idle"
    /\ UNCHANGED <<playerVars, processVars, phoneVars, watcher, closer, faults>>

\* The whole packet; it may be the one that fills the FIFO, and is if nobody reads.
WriteOk ==
    /\ writer = "write" /\ MutexFree
    /\ is_open /\ fifo_fd /\ ~full
    /\ HasReader
    /\ full' \in {TRUE, agmplay = "wedged"}
    /\ stall' = 0
    /\ writer' = "idle"
    /\ UNCHANGED <<is_open, opening, fifo_fd, agmplay_pid, session_closed, last_recover,
                   agmplay, fifo, phoneVars, watcher, closer, faults>>

\* Mutant: a FIFO that stays full is waited for, whatever the time.
WriteFullWaits ==
    /\ writer = "write" /\ MutexFree
    /\ is_open /\ fifo_fd /\ full
    /\ HasReader
    /\ stall = 0 /\ stall' = 1
    /\ UNCHANGED <<is_open, opening, fifo_fd, agmplay_pid, session_closed, last_recover,
                   processVars, phoneVars, writer, watcher, closer, faults>>

\* EAGAIN: the stall is timed, and recovered from after kStallTriggerMs.
WriteFull ==
    /\ writer = "write" /\ MutexFree
    /\ is_open /\ fifo_fd /\ full
    /\ HasReader
    /\ \/ stall = 0 /\ stall' = 1 /\ UNCHANGED writer
       \/ stall = 2 /\ writer' = "recover" /\ UNCHANGED stall
    /\ UNCHANGED <<is_open, opening, fifo_fd, agmplay_pid, session_closed, last_recover,
                   processVars, phoneVars, watcher, closer, faults>>

\* EPIPE: agmplay exited.
WriteFails ==
    /\ writer = "write" /\ MutexFree
    /\ is_open /\ fifo_fd
    /\ ~HasReader
    /\ writer' = "recover"
    /\ UNCHANGED <<playerVars, processVars, phoneVars, watcher, closer, faults>>

-----------------------------------------------------------------------------
(* recover                                                                 *)

\* kMinRecoverIntervalMs have not passed.
RecoverTooSoon ==
    /\ writer = "recover"
    /\ last_recover < 2
    /\ writer' = "idle"
    /\ UNCHANGED <<playerVars, processVars, phoneVars, watcher, closer, faults>>

\* Kills and reaps agmplay, removes the FIFO; a closed player is left alone.
Teardown ==
    /\ writer = "recover" /\ MutexFree
    /\ last_recover = 2 /\ last_recover' = 0
    /\ IF is_open
       THEN /\ fifo_fd' = FALSE /\ agmplay_pid' = FALSE
            /\ agmplay' = IF agmplay_pid THEN "none" ELSE agmplay
            /\ fifo' = FALSE /\ full' = FALSE
            /\ writer' = "hal"
       ELSE writer' = "idle" /\ UNCHANGED <<fifo_fd, agmplay_pid, processVars>>
    /\ UNCHANGED <<is_open, opening, session_closed, stall, phoneVars, watcher, closer, faults>>

\* restart_audio_hal(): a HAL that this player has restarted is not killed again.
HalKept ==
    /\ writer = "hal"
    /\ hal_restarted
    /\ writer' = "route"
    /\ UNCHANGED <<playerVars, processVars, phoneVars, watcher, closer, faults>>

\* The HAL is killed, and may take the speaker route with it; the new one is not
\* always up in 3 s, and then its pid is not remembered.
HalRestarted ==
    /\ writer = "hal"
    /\ ~hal_restarted
    /\ \/ hal_restarted' = TRUE /\ UNCHANGED faults
       \/ Fault /\ UNCHANGED hal_restarted
    /\ stale' = FALSE
    /\ routing' \in {routing, FALSE}
    /\ writer' = "route"
    /\ UNCHANGED <<playerVars, processVars, mixer, watcher, closer>>

\* Its pid cannot be read: nothing is restarted.
HalUnknown ==
    /\ writer = "hal"
    /\ Fault
    /\ writer' = "route"
    /\ UNCHANGED <<playerVars, processVars, phoneVars, watcher, closer>>

\* apply_speaker_routing(), then the flag of the old session is dropped.
Route ==
    /\ writer = "route"
    /\ routing' = (routing \/ mixer)
    /\ session_closed' = FALSE
    /\ writer' = "spawn"
    /\ UNCHANGED <<is_open, opening, fifo_fd, agmplay_pid, last_recover, stall, processVars,
                   mixer, hal_restarted, stale, watcher, closer, faults>>

Recover == RecoverTooSoon \/ Teardown \/ HalKept \/ HalRestarted \/ HalUnknown \/ Route
Respawn == \/ Spawn \/ SpawnFails \/ Record \/ ReaderFound \/ PathGone \/ ReaderTimeout
           \/ StoreFd \/ Respawned \/ RespawnFailed
WriteFrames == WriteEnter \/ WriteClosed \/ WriteOk \/ WriteFull \/ WriteFails

-----------------------------------------------------------------------------
(* logcat_watch_loop                                                       *)

\* Not told to stop, it sees that speaker_routing_intact() says no, outside the
\* settling time of a recovery.
RouteSeenLost ==
    /\ watcher = "poll" /\ closer = "idle"
    /\ last_recover > 0 /\ is_open /\ ~Recovering
    /\ ~routing
    /\ watcher' = "lost"
    /\ UNCHANGED <<playerVars, processVars, phoneVars, writer, closer, faults>>

ReportLost ==
    /\ watcher = "lost"
    /\ session_closed' = TRUE
    /\ watcher' = "poll"
    /\ UNCHANGED <<is_open, opening, fifo_fd, agmplay_pid, last_recover, stall, processVars,
                   phoneVars, writer, closer, faults>>

\* stop_logcat_watcher() was called, or logcat exited by itself.
WatcherEnds ==
    /\ watcher = "poll"
    /\ \/ closer = "join" /\ UNCHANGED faults
       \/ Fault
    /\ watcher' = "ended"
    /\ UNCHANGED <<playerVars, processVars, phoneVars, writer, closer>>

Watch == RouteSeenLost \/ ReportLost \/ (closer = "join" /\ WatcherEnds)

-----------------------------------------------------------------------------
(* close                                                                   *)

CloseStart ==
    /\ closer = "idle" /\ ~opening
    /\ closer' = "join"
    /\ UNCHANGED <<playerVars, processVars, phoneVars, writer, watcher, faults>>

\* Once the watcher is joined.  Closing the FIFO ends agmplay's read loop.
CloseLock ==
    /\ closer = "join"
    /\ watcher \in {"none", "ended"}
    /\ is_open' = FALSE /\ fifo_fd' = FALSE
    /\ closer' = IF agmplay_pid THEN "wait" ELSE "unlink"
    /\ UNCHANGED <<opening, agmplay_pid, session_closed, last_recover, stall, processVars,
                   phoneVars, writer, watcher, faults>>

CloseReap ==
    /\ closer \in {"wait", "interrupt"}
    /\ agmplay = "exited"
    /\ agmplay' = "none" /\ agmplay_pid' = FALSE
    /\ closer' = "unlink"
    /\ UNCHANGED <<is_open, opening, fifo_fd, session_closed, last_recover, stall, fifo, full,
                   phoneVars, writer, watcher, faults>>

\* After a second, SIGINT.
CloseInterrupt ==
    /\ closer = "wait"
    /\ agmplay # "exited"
    /\ closer' = "interrupt"
    /\ UNCHANGED <<playerVars, processVars, phoneVars, writer, watcher, faults>>

\* Mutant: waits for agmplay to leave instead.
CloseNoKill ==
    /\ closer = "interrupt"
    /\ agmplay = "exited"
    /\ agmplay' = "none" /\ agmplay_pid' = FALSE
    /\ closer' = "unlink"
    /\ UNCHANGED <<is_open, opening, fifo_fd, session_closed, last_recover, stall, fifo, full,
                   phoneVars, writer, watcher, faults>>

\* After another second, SIGKILL.
CloseKill ==
    /\ closer = "interrupt"
    /\ agmplay' = "none" /\ agmplay_pid' = FALSE
    /\ closer' = "unlink"
    /\ UNCHANGED <<is_open, opening, fifo_fd, session_closed, last_recover, stall, fifo, full,
                   phoneVars, writer, watcher, faults>>

CloseUnlink ==
    /\ closer = "unlink"
    /\ fifo' = FALSE
    /\ closer' = "done"
    /\ UNCHANGED <<playerVars, agmplay, full, phoneVars, writer, watcher, faults>>

Close == CloseLock \/ CloseReap \/ CloseInterrupt \/ CloseKill \/ CloseUnlink

-----------------------------------------------------------------------------
(* agmplay, the phone and the clock                                        *)

\* Opens the path, or finds it gone and exits.
AgmplayOpens ==
    /\ agmplay = "starting"
    /\ agmplay' = IF fifo THEN "reading" ELSE "exited"
    /\ UNCHANGED <<playerVars, fifo, full, phoneVars, writer, watcher, closer, faults>>

AgmplayDrains ==
    /\ agmplay = "reading" /\ full
    /\ full' = FALSE
    /\ UNCHANGED <<playerVars, agmplay, fifo, phoneVars, writer, watcher, closer, faults>>

\* End of file, or SIGINT.
AgmplayEnds ==
    /\ agmplay = "reading"
    /\ closer \in {"wait", "interrupt"}
    /\ agmplay' = "exited"
    /\ UNCHANGED <<playerVars, fifo, full, phoneVars, writer, watcher, closer, faults>>

AgmplayCrashes ==
    /\ agmplay \in {"starting", "reading", "wedged"}
    /\ Fault
    /\ agmplay' = "exited"
    /\ UNCHANGED <<playerVars, fifo, full, phoneVars, writer, watcher, closer>>

\* Another sound takes the DSP: it clears the route, wedges agmplay, or both, and
\* leaves agmplay's session without sound.
Preempt ==
    /\ Fault
    /\ stale' = (stale \/ HasReader)
    /\ \/ routing' = FALSE /\ UNCHANGED agmplay
       \/ agmplay = "reading" /\ agmplay' = "wedged" /\ routing' \in {routing, FALSE}
    /\ UNCHANGED <<playerVars, fifo, full, mixer, hal_restarted, writer, watcher, closer>>

\* Time since last_recover_ms_.
RecoverTick ==
    /\ last_recover < 2
    /\ last_recover' = last_recover + 1
    /\ UNCHANGED <<is_open, opening, fifo_fd, agmplay_pid, session_closed, stall, processVars,
                   phoneVars, writer, watcher, closer, faults>>

\* Time since stall_start_ms_.  An agmplay that reads makes room in less than
\* kStallTriggerMs.
StallTick ==
    /\ stall = 1
    /\ ~(agmplay = "reading" /\ full)
    /\ stall' = 2
    /\ UNCHANGED <<is_open, opening, fifo_fd, agmplay_pid, session_closed, last_recover,
                   processVars, phoneVars, writer, watcher, closer, faults>>

Agmplay == AgmplayOpens \/ AgmplayDrains \/ AgmplayEnds

Next == \/ WriteFrames \/ Recover \/ Respawn \/ RouteSeenLost \/ ReportLost \/ WatcherEnds
        \/ CloseStart \/ Close \/ Agmplay \/ AgmplayCrashes \/ Preempt
        \/ RecoverTick \/ StallTick

\* The playback thread writes on, the watcher polls, close() and agmplay get on and
\* time passes.  Nobody need call close(); faults need not happen.
Fairness == /\ WF_vars(WriteFrames \/ Recover \/ Respawn) /\ WF_vars(Watch)
            /\ WF_vars(Close) /\ WF_vars(Agmplay)
            /\ WF_vars(RecoverTick) /\ WF_vars(StallTick)

Spec == Init /\ [][Next]_vars /\ Fairness

-----------------------------------------------------------------------------
(* Properties                                                              *)

TypeOK ==
    /\ {is_open, opening, fifo_fd, agmplay_pid, session_closed} \subseteq BOOLEAN
    /\ {fifo, full, routing, mixer, hal_restarted, stale} \subseteq BOOLEAN
    /\ last_recover \in 0..2 /\ stall \in 0..2 /\ faults \in 0..MaxFaults
    /\ writer \in {"spawn", "record", "wait", "store", "header", "failed", "ended", "idle",
                   "write", "recover", "hal", "route"}
    /\ watcher \in {"none", "poll", "lost", "ended"}
    /\ closer \in {"idle", "join", "wait", "interrupt", "unlink", "done"}
    /\ agmplay \in {"none", "starting", "reading", "wedged", "exited"}

\* "Don't leave an orphan agmplay behind": once close() has returned, the only
\* agmplay is one that the playback thread has forked and is about to look at.
NoOrphanAgmplay == closer = "done" => agmplay = "none" \/ writer = "record"

\* close() returns, whatever agmplay, the watcher and recover() are doing.
CloseReturns == (closer = "join") ~> (closer = "done")

\* After close() the playback thread leaves write_frames() and whatever recovery it is
\* in the middle of.
CloseUnblocksWriter == (closer = "done") ~> (writer \in {"idle", "ended"})

\* As long as the watcher lives, no respawn fails and the route can be set, an open
\* player survives preemptions: in the end agmplay reads and the speaker is routed.
PreemptionRecovered ==
    mixer /\ [](writer # "failed") /\ <>[](is_open /\ watcher \in {"poll", "lost"})
        => <>[](fifo_fd /\ agmplay = "reading" /\ routing)

\* What the log says of a failed respawn, "will retry shortly": a player that stays
\* open gets its agmplay back.
RespawnRetried ==
    mixer /\ <>[](is_open /\ watcher \in {"poll", "lost"})
        => <>[](fifo_fd /\ agmplay = "reading" /\ routing)

\* The restart of the HAL is there so that no "respawned agmplay gets a session that
\* consumes the FIFO but renders no sound".
SoundComesBack ==
    mixer /\ [](writer # "failed") /\ <>[](is_open /\ watcher \in {"poll", "lost"})
        => <>[]~stale

\* The routing of open() is "best effort": a phone without those mixer controls keeps
\* its agmplay too.
StreamSettles ==
    [](writer # "failed") /\ <>[](is_open /\ watcher \in {"poll", "lost"})
        => <>[](writer \in {"idle", "write"})

\* A closed player that nobody is writing to has no FIFO left, open or on disk.
ClosedHasNoFifo == closer = "done" /\ writer \in {"idle", "ended"} => ~fifo_fd /\ ~fifo
=============================================================================
