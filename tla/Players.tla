------------------------------- MODULE Players -------------------------------
(***************************************************************************)
(* One IAudioPlayer (src/client/audio_player.hpp) that the client has made *)
(* for the device it was asked for: PulseAudio, ALSA or AGM.  What is said *)
(* here holds of each of them; the AAudio and Termux:API players, which    *)
(* have threads of their own, are specified apart.                         *)
(***************************************************************************)
EXTENDS Integers

CONSTANTS kWriteFailuresBeforeReconnect, Nodes, LibNames, MaxStaging, MaxFaults

ASSUME PlayersAssumption ==
    /\ {Nodes, LibNames, MaxFaults} \subseteq Nat
    /\ {kWriteFailuresBeforeReconnect, MaxStaging} \subseteq Nat \ {0}

VARIABLES
    kind,   \* which player the device supervisor made
    pulse_open, stream, mutex, consecutive_write_failures, may_reconnect,
    pulse_writer, pulse_closer, daemon,
    alsa_open, opener, todo, attempt, using_direct, fd, opened_fd, old_fd, active_fd,
    descriptors, pcm_handle, handles, staging, chunk, device, alsa_writer, alsa_closer,
    agm_open, opening, fifo_fd, agmplay_pid, session_closed, last_recover, stall,
    agm_writer, watcher, agm_closer, agmplay, fifo, full, routing, mixer, hal_restarted,
    stale, faults

Pulse == INSTANCE PulsePlayer
         WITH is_open <- pulse_open, writer <- pulse_writer, closer <- pulse_closer
Alsa == INSTANCE AlsaPlayer
        WITH is_open <- alsa_open, writer <- alsa_writer, closer <- alsa_closer
Agm == INSTANCE AgmFifoPlayer
       WITH is_open <- agm_open, writer <- agm_writer, closer <- agm_closer

pulseVars == <<pulse_open, stream, mutex, consecutive_write_failures, may_reconnect,
               pulse_writer, pulse_closer, daemon>>
alsaVars == <<alsa_open, opener, todo, attempt, using_direct, fd, opened_fd, old_fd,
              active_fd, descriptors, pcm_handle, handles, staging, chunk, device,
              alsa_writer, alsa_closer>>
agmVars == <<agm_open, opening, fifo_fd, agmplay_pid, session_closed, last_recover, stall,
             agm_writer, watcher, agm_closer, agmplay, fifo, full, routing, mixer,
             hal_restarted, stale, faults>>
vars == <<kind, pulseVars, alsaVars, agmVars>>

Init ==
    /\ kind \in {"pulse", "alsa", "agm"}
    /\ Pulse!Init /\ Alsa!Init /\ Agm!Init

\* The player that was made takes a step; the others do not exist.
PulseOnly == kind = "pulse" /\ UNCHANGED <<kind, alsaVars, agmVars>>
AlsaOnly == kind = "alsa" /\ UNCHANGED <<kind, pulseVars, agmVars>>
AgmOnly == kind = "agm" /\ UNCHANGED <<kind, pulseVars, alsaVars>>

Next == \/ PulseOnly /\ Pulse!Next
        \/ AlsaOnly /\ Alsa!Next
        \/ AgmOnly /\ Agm!Next

\* The fairness that each player's module states.
Fairness ==
    /\ SF_vars(PulseOnly /\ Pulse!WriteGoesOn) /\ SF_vars(PulseOnly /\ Pulse!CloseStep)
    /\ WF_vars(PulseOnly /\ Pulse!Tick)
    /\ WF_vars(AlsaOnly /\ Alsa!Open) /\ WF_vars(AlsaOnly /\ Alsa!Write)
    /\ WF_vars(AlsaOnly /\ Alsa!Close)
    /\ WF_vars(AgmOnly /\ (Agm!WriteFrames \/ Agm!Recover \/ Agm!Respawn))
    /\ WF_vars(AgmOnly /\ Agm!Watch) /\ WF_vars(AgmOnly /\ Agm!Close)
    /\ WF_vars(AgmOnly /\ Agm!Agmplay)
    /\ WF_vars(AgmOnly /\ Agm!RecoverTick) /\ WF_vars(AgmOnly /\ Agm!StallTick)

Spec == Init /\ [][Next]_vars /\ Fairness

-----------------------------------------------------------------------------
(* Properties                                                              *)

\* close() of any player returns, whatever the playback thread, a process or a device
\* is doing, with one exception: a PulseAudio daemon that stops taking samples for good.
CloseReturns == Pulse!CloseReturns /\ Alsa!CloseReturns /\ Agm!CloseReturns

\* "Close audio player to unblock playback thread immediately", which stop() then
\* joins: after close() the playback thread leaves write_frames(), with a connection
\* being rebuilt, a device that takes no frames or a recovery half done; with the same
\* exception.
CloseUnblocksWriter ==
    Pulse!CloseUnblocksWriter /\ Alsa!CloseUnblocksWriter /\ Agm!CloseUnblocksWriter

\* "A PulseAudio restart does not take the client down."
RestartSurvived == Pulse!RestartSurvived

\* Descriptors and libasound handles across the failures of open() and close().
NothingLeaks == Alsa!NothingLeaks

\* No agmplay outlives close().
NoOrphanAgmplay == Agm!NoOrphanAgmplay

\* An AGM stream that another sound preempts is restored.
PreemptionRecovered == kind = "agm" => Agm!PreemptionRecovered
=============================================================================
