----------------------------- MODULE DeviceOpen -----------------------------
(***************************************************************************)
(* How the client gets an audio backend (src/client/client.cpp): the open  *)
(* supervisor, the attempt threads it spawns and may abandon, the playback *)
(* thread, and the main thread in open_player_with_timeout and stop().     *)
(*                                                                         *)
(* They share DeviceOpenShared.  Its mutex is held for single steps only,  *)
(* so a locked region is one action; the atomics are read in actions of    *)
(* their own.  An attempt may hang in the kernel for ever: the return of   *)
(* open() is an action without fairness.                                   *)
(***************************************************************************)
EXTENDS Integers, Sequences

CONSTANTS
    device_kind,            \* what is_..._device says of the device's name
    pulse_worth_trying,
    kMaxPulseOpenAttempts, kMaxAaudioOpenAttempts, kMaxTermuxOpenAttempts,
    kMaxAgmOpenAttempts, kMaxNodeOpenAttempts,
    MaxSpawned              \* bound: attempts the supervisor starts in all

DeviceKinds == {"pulse", "aaudio", "termux", "agm", "node", "alsa"}

ASSUME DeviceAssumption ==
    /\ device_kind \in DeviceKinds
    /\ pulse_worth_trying \in BOOLEAN
    /\ {kMaxPulseOpenAttempts, kMaxAaudioOpenAttempts, kMaxTermuxOpenAttempts,
        kMaxAgmOpenAttempts, kMaxNodeOpenAttempts} \subseteq Nat
    /\ MaxSpawned \in Nat

Attempts == 1..MaxSpawned      \* also names the player each attempt creates
NoPlayer == 0

build_open_strategies ==
    CASE device_kind = "pulse"  -> <<"PULSE", "AAUDIO", "TERMUXAPI", "AGM", "NODES", "LEGACY">>
      [] device_kind = "aaudio" -> <<"AAUDIO", "TERMUXAPI", "AGM", "NODES", "LEGACY">>
      [] device_kind = "termux" -> <<"TERMUXAPI", "AAUDIO", "AGM", "NODES", "LEGACY">>
      [] device_kind = "agm"    -> <<"AGM", "NODES", "LEGACY">>
      [] device_kind = "node"   -> <<"NODES">>
      [] OTHER -> IF pulse_worth_trying
                  THEN <<"PULSE", "AAUDIO", "TERMUXAPI", "LEGACY">>
                  ELSE <<"LEGACY">>

\* LEGACY is tried without limit.
max_attempts(strategy) ==
    CASE strategy = "PULSE"     -> kMaxPulseOpenAttempts
      [] strategy = "AAUDIO"    -> kMaxAaudioOpenAttempts
      [] strategy = "TERMUXAPI" -> kMaxTermuxOpenAttempts
      [] strategy = "AGM"       -> kMaxAgmOpenAttempts
      [] strategy = "NODES"     -> kMaxNodeOpenAttempts
      [] OTHER                  -> MaxSpawned + 1

VARIABLES
    shutdown, pending, result, player,      \* DeviceOpenShared
    device,                                 \* each player's is_open()
    backend,                                \* the strategy each player is of
    attempt_pc, displaced,                  \* the attempt threads
    supervisor_pc, strategy_index, attempts_in_strategy, attempt, ok,
    main_pc, opened_ok,                     \* the main thread
    playback_pc                             \* the playback thread

sharedVars     == <<shutdown, pending, result, player>>
attemptVars    == <<attempt_pc, displaced>>
supervisorVars == <<supervisor_pc, strategy_index, attempts_in_strategy, attempt, ok>>
mainVars       == <<main_pc, opened_ok>>
vars == <<sharedVars, device, backend, attemptVars, supervisorVars, mainVars, playback_pc>>

\* What the current strategy may spend; none when they have all been tried.
Budget == IF strategy_index \in 1..Len(build_open_strategies)
          THEN max_attempts(build_open_strategies[strategy_index])
          ELSE 0

AttemptPcs == {"unborn", "start", "opening", "opened", "install", "superseded", "raced",
               "displace", "failed", "finish", "done"}

TypeOK ==
    /\ shutdown \in BOOLEAN /\ pending \in BOOLEAN /\ result \in BOOLEAN
    /\ ok \in BOOLEAN /\ opened_ok \in BOOLEAN
    /\ player \in Attempts \cup {NoPlayer}
    /\ device \in [Attempts -> {"new", "open", "closed"}]
    /\ backend \in [Attempts -> {"none", "PULSE", "AAUDIO", "TERMUXAPI", "AGM", "NODES", "LEGACY"}]
    /\ attempt_pc \in [Attempts -> AttemptPcs]
    /\ displaced \in [Attempts -> Attempts \cup {NoPlayer}]
    /\ supervisor_pc \in {"loop", "look", "wait", "judge", "decide", "playing", "exit"}
    /\ strategy_index \in 1..Len(build_open_strategies) + 1
    /\ attempts_in_strategy \in 0..Budget
    /\ attempt \in 0..MaxSpawned
    /\ main_pc \in {"wait", "run", "close", "join", "stopped"}
    /\ playback_pc \in {"loop", "take", "write", "exit"}

\* open_player_with_timeout has started the supervisor; the playback thread
\* already runs.
Init ==
    /\ shutdown = FALSE /\ pending = TRUE /\ result = FALSE
    /\ player = NoPlayer
    /\ device = [a \in Attempts |-> "new"]
    /\ backend = [a \in Attempts |-> "none"]
    /\ attempt_pc = [a \in Attempts |-> "unborn"]
    /\ displaced = [a \in Attempts |-> NoPlayer]
    /\ supervisor_pc = "loop" /\ strategy_index = 1 /\ attempts_in_strategy = 0
    /\ attempt = 0 /\ ok = FALSE
    /\ main_pc = "wait" /\ opened_ok = FALSE
    /\ playback_pc = "loop"

IsOpen(p) == p # NoPlayer /\ device[p] = "open"

\* A real backend holds the slot.  No placeholder is ever installed beside a
\* supervisor: the dummy player is opened instead of starting one.
Occupied == IsOpen(player)

finished(a) == attempt_pc[a] = "done"

-----------------------------------------------------------------------------
(* attempt_device_open                                                     *)

GotoAttempt(a, label) == attempt_pc' = [attempt_pc EXCEPT ![a] = label]

AttemptStart(a) ==
    /\ attempt_pc[a] = "start"
    /\ GotoAttempt(a, IF shutdown THEN "failed" ELSE "opening")
    /\ UNCHANGED <<sharedVars, device, backend, displaced, supervisorVars, mainVars, playback_pc>>

\* open_fn() returns, if ever.
OpenSucceeds(a) ==
    /\ attempt_pc[a] = "opening"
    /\ device' = [device EXCEPT ![a] = "open"]
    /\ GotoAttempt(a, "opened")
    /\ UNCHANGED <<sharedVars, backend, displaced, supervisorVars, mainVars, playback_pc>>

OpenFails(a) ==
    /\ attempt_pc[a] = "opening"
    /\ GotoAttempt(a, "failed")
    /\ UNCHANGED <<sharedVars, device, backend, displaced, supervisorVars, mainVars, playback_pc>>

\* shutdown is read before the lock is taken.
AttemptOpened(a) ==
    /\ attempt_pc[a] = "opened"
    /\ GotoAttempt(a, IF shutdown THEN "raced" ELSE "install")
    /\ UNCHANGED <<sharedVars, device, backend, displaced, supervisorVars, mainVars, playback_pc>>

\* Mutant: a late attempt takes the slot whoever holds it.
AttemptInstallAlways(a) ==
    /\ attempt_pc[a] = "install"
    /\ displaced' = [displaced EXCEPT ![a] = player]
    /\ player' = a /\ result' = TRUE /\ pending' = FALSE
    /\ GotoAttempt(a, "displace")
    /\ UNCHANGED <<shutdown, device, backend, supervisorVars, mainVars, playback_pc>>

\* Mutant: an attempt nobody waits for any more gives its device up.
AttemptInstallPending(a) ==
    /\ attempt_pc[a] = "install"
    /\ IF Occupied \/ ~pending
       THEN GotoAttempt(a, "superseded") /\ UNCHANGED <<player, result, pending, displaced>>
       ELSE /\ displaced' = [displaced EXCEPT ![a] = player]
            /\ player' = a /\ result' = TRUE /\ pending' = FALSE
            /\ GotoAttempt(a, "displace")
    /\ UNCHANGED <<shutdown, device, backend, supervisorVars, mainVars, playback_pc>>

AttemptInstall(a) ==
    /\ attempt_pc[a] = "install"
    /\ IF Occupied
       THEN GotoAttempt(a, "superseded") /\ UNCHANGED <<player, result, pending, displaced>>
       ELSE /\ displaced' = [displaced EXCEPT ![a] = player]
            /\ player' = a /\ result' = TRUE /\ pending' = FALSE
            /\ GotoAttempt(a, "displace")
    /\ UNCHANGED <<shutdown, device, backend, supervisorVars, mainVars, playback_pc>>

\* The displaced player is closed, outside the lock.
AttemptDisplace(a) ==
    /\ attempt_pc[a] = "displace"
    /\ device' = IF displaced[a] = NoPlayer THEN device
                 ELSE [device EXCEPT ![displaced[a]] = "closed"]
    /\ displaced' = [displaced EXCEPT ![a] = NoPlayer]
    /\ GotoAttempt(a, "finish")
    /\ UNCHANGED <<sharedVars, backend, supervisorVars, mainVars, playback_pc>>

\* Mutant: a duplicate stream is left running.
AttemptKeepOwn(a) ==
    /\ attempt_pc[a] \in {"superseded", "raced"}
    /\ GotoAttempt(a, "failed")
    /\ UNCHANGED <<sharedVars, device, backend, displaced, supervisorVars, mainVars, playback_pc>>

\* A duplicate stream, or one opened across the shutdown, is closed.
AttemptCloseOwn(a) ==
    /\ attempt_pc[a] \in {"superseded", "raced"}
    /\ device' = [device EXCEPT ![a] = "closed"]
    /\ GotoAttempt(a, "failed")
    /\ UNCHANGED <<sharedVars, backend, displaced, supervisorVars, mainVars, playback_pc>>

AttemptFailed(a) ==
    /\ attempt_pc[a] = "failed"
    /\ result' = FALSE /\ pending' = FALSE
    /\ GotoAttempt(a, "finish")
    /\ UNCHANGED <<shutdown, player, device, backend, displaced, supervisorVars, mainVars,
                   playback_pc>>

\* cv.notify_all and finished->store(true).
AttemptFinish(a) ==
    /\ attempt_pc[a] = "finish"
    /\ GotoAttempt(a, "done")
    /\ UNCHANGED <<sharedVars, device, backend, displaced, supervisorVars, mainVars, playback_pc>>

AttemptStep(a) == \/ AttemptStart(a) \/ AttemptOpened(a) \/ AttemptInstall(a)
                  \/ AttemptDisplace(a) \/ AttemptCloseOwn(a) \/ AttemptFailed(a)
                  \/ AttemptFinish(a)

OpenReturns(a) == OpenSucceeds(a) \/ OpenFails(a)

\* The AAudio pump gives up on a stream that keeps stalling on what the playback
\* thread feeds it, and marks the player dead.
AaudioGivesUp(a) ==
    /\ player = a /\ backend[a] = "AAUDIO"
    /\ device[a] = "open"
    /\ device' = [device EXCEPT ![a] = "closed"]
    /\ UNCHANGED <<sharedVars, backend, attemptVars, supervisorVars, mainVars, playback_pc>>

-----------------------------------------------------------------------------
(* device_open_supervisor                                                  *)

Exhausted == attempts_in_strategy >= Budget

\* The conditions of both loops.  A spent budget moves on to the next strategy.
SupervisorLoop ==
    /\ supervisor_pc = "loop"
    /\ IF shutdown \/ strategy_index > Len(build_open_strategies)
       THEN supervisor_pc' = "exit" /\ UNCHANGED <<strategy_index, attempts_in_strategy>>
       ELSE IF Exhausted
       THEN /\ strategy_index' = strategy_index + 1
            /\ attempts_in_strategy' = 0
            /\ UNCHANGED supervisor_pc
       ELSE /\ supervisor_pc' = "look"
            /\ UNCHANGED <<strategy_index, attempts_in_strategy>>
    /\ UNCHANGED <<sharedVars, device, backend, attemptVars, attempt, ok, mainVars, playback_pc>>

\* An abandoned attempt has filled the slot meanwhile.
SupervisorFindsDevice ==
    /\ supervisor_pc = "look"
    /\ Occupied
    /\ supervisor_pc' = "playing"
    /\ UNCHANGED <<sharedVars, device, backend, attemptVars, strategy_index,
                   attempts_in_strategy, attempt, ok, mainVars, playback_pc>>

SupervisorSpawns ==
    /\ supervisor_pc = "look"
    /\ ~Occupied
    /\ attempt < MaxSpawned
    /\ attempt' = attempt + 1
    /\ attempts_in_strategy' = attempts_in_strategy + 1
    /\ GotoAttempt(attempt + 1, "start")
    /\ backend' = [backend EXCEPT ![attempt + 1] = build_open_strategies[strategy_index]]
    /\ supervisor_pc' = "wait"
    /\ UNCHANGED <<sharedVars, device, displaced, strategy_index, ok, mainVars, playback_pc>>

\* The attempt has finished, the shutdown has come or the time is up.
SupervisorWaited ==
    /\ supervisor_pc = "wait"
    /\ supervisor_pc' = "judge"
    /\ UNCHANGED <<sharedVars, device, backend, attemptVars, strategy_index,
                   attempts_in_strategy, attempt, ok, mainVars, playback_pc>>

SupervisorJudge ==
    /\ supervisor_pc = "judge"
    /\ ok' = (~shutdown /\ result)
    /\ supervisor_pc' = "decide"
    /\ UNCHANGED <<sharedVars, device, backend, attemptVars, strategy_index,
                   attempts_in_strategy, attempt, mainVars, playback_pc>>

\* Returns, or joins or abandons the attempt and backs off.
SupervisorDecide ==
    /\ supervisor_pc = "decide"
    /\ supervisor_pc' = IF finished(attempt) /\ ok THEN "playing" ELSE "loop"
    /\ ok' = FALSE
    /\ UNCHANGED <<sharedVars, device, backend, attemptVars, strategy_index,
                   attempts_in_strategy, attempt, mainVars, playback_pc>>

SupervisorStep == \/ SupervisorLoop \/ SupervisorFindsDevice \/ SupervisorSpawns
                  \/ SupervisorWaited \/ SupervisorJudge \/ SupervisorDecide

-----------------------------------------------------------------------------
(* The main thread: open_player_with_timeout and stop()                    *)

\* The wait ends on !pending or after the timeout.
OpenWaited ==
    /\ main_pc = "wait"
    /\ opened_ok' = (~pending /\ result)
    /\ main_pc' = "run"
    /\ UNCHANGED <<sharedVars, device, backend, attemptVars, supervisorVars, playback_pc>>

StopBegin ==
    /\ main_pc = "run"
    /\ shutdown' = TRUE
    /\ main_pc' = "close"
    /\ UNCHANGED <<pending, result, player, device, backend, attemptVars, supervisorVars,
                   opened_ok, playback_pc>>

StopClosePlayer ==
    /\ main_pc = "close"
    /\ device' = IF player = NoPlayer THEN device ELSE [device EXCEPT ![player] = "closed"]
    /\ main_pc' = "join"
    /\ UNCHANGED <<sharedVars, backend, attemptVars, supervisorVars, opened_ok, playback_pc>>

\* Mutant: waits for the attempts too.
StopJoinAttempts ==
    /\ main_pc = "join"
    /\ playback_pc = "exit"
    /\ \A a \in Attempts : attempt_pc[a] \in {"unborn", "done"}
    /\ main_pc' = "stopped"
    /\ UNCHANGED <<sharedVars, device, backend, attemptVars, supervisorVars, opened_ok,
                   playback_pc>>

\* Joins the playback thread, detaches the supervisor.
StopJoin ==
    /\ main_pc = "join"
    /\ playback_pc = "exit"
    /\ main_pc' = "stopped"
    /\ UNCHANGED <<sharedVars, device, backend, attemptVars, supervisorVars, opened_ok,
                   playback_pc>>

MainStep == OpenWaited \/ StopClosePlayer \/ StopJoin

-----------------------------------------------------------------------------
(* audio_playback_thread                                                   *)

\* while (is_running_), which stop() clears with shutdown; then frames are popped.
PlaybackLoop ==
    /\ playback_pc = "loop"
    /\ playback_pc' = IF shutdown THEN "exit" ELSE "take"
    /\ UNCHANGED <<sharedVars, device, backend, attemptVars, supervisorVars, mainVars>>

\* Without an open player the thread sleeps and goes on.
PlaybackTakesPlayer ==
    /\ playback_pc = "take"
    /\ playback_pc' = IF Occupied THEN "write" ELSE "loop"
    /\ UNCHANGED <<sharedVars, device, backend, attemptVars, supervisorVars, mainVars>>

\* write_frames() on the player that was taken, which may be closed by now.
PlaybackWritten ==
    /\ playback_pc = "write"
    /\ playback_pc' = "loop"
    /\ UNCHANGED <<sharedVars, device, backend, attemptVars, supervisorVars, mainVars>>

PlaybackStep == PlaybackLoop \/ PlaybackTakesPlayer \/ PlaybackWritten

-----------------------------------------------------------------------------
Next ==
    \/ \E a \in Attempts : AttemptStep(a) \/ OpenReturns(a) \/ AaudioGivesUp(a)
    \/ SupervisorStep
    \/ MainStep \/ StopBegin
    \/ PlaybackStep

Spec == Init /\ [][Next]_vars

\* The threads run; open() need not return, stop() need not be called.
FairSpec ==
    /\ Spec
    /\ \A a \in Attempts : WF_vars(AttemptStep(a))
    /\ WF_vars(SupervisorStep)
    /\ WF_vars(MainStep)
    /\ WF_vars(PlaybackStep)

-----------------------------------------------------------------------------
(* Properties                                                              *)

\* An attempt that is over has left no stream running beside the one in the slot:
\* never "two engines both feeding the Android HAL".
OneBackend ==
    \A a \in Attempts : finished(a) /\ device[a] = "open" => player = a

\* open_player_with_timeout dereferences open_->player on success, and the
\* supervisor stops on it: success is never reported for an empty slot, whichever
\* attempts overwrite the shared result.
SuccessHasPlayer ==
    result \/ opened_ok \/ supervisor_pc = "playing" => player # NoPlayer

\* A backend that plays is never taken out of the slot by a late attempt.
LiveBackendKept == [][Occupied => player' = player]_vars

\* A device whose open succeeds before the shutdown is not lost: the slot is
\* filled, by it or by another, even if the attempt had been abandoned.
OpenedDeviceIsUsed ==
    \A a \in Attempts : attempt_pc[a] = "opened" ~> (shutdown \/ player # NoPlayer)

\* "A hung ALSA / kernel driver must never block the main thread or stall
\* shutdown": stop() returns although opens hang.
StopReturns == (main_pc = "close") ~> (main_pc = "stopped")

\* What stop() says of the open threads it does not wait for: each "closes whatever
\* it opened".
StoppedClosesDevice ==
    main_pc = "stopped" => \A a \in Attempts : finished(a) => device[a] # "open"

\* A player that is marked dead "so the client falls back to AGM/ALSA": some open
\* is under way again, unless the client stops.
DeadBackendReplaced ==
    (player # NoPlayer /\ ~Occupied) ~> (shutdown \/ Occupied \/ supervisor_pc # "playing")
=============================================================================
