---------------------------- MODULE PlayersProofs ----------------------------
(***************************************************************************)
(* Theorems about Players: what open() of the ALSA player acquires is      *)
(* given back, and close() of the AGM player leaves no process behind, for *)
(* any number of candidates and of faults.                                 *)
(***************************************************************************)
EXTENDS Players, TLAPS

USE DEF pulseVars, alsaVars, agmVars

-----------------------------------------------------------------------------
(* ALSA: the invariant                                                     *)

\* Which of the two players open() is trying, and that the other one and close()
\* have nothing yet.
OpenerInv ==
    /\ opener \in {"node", "configure"} => using_direct
    /\ opener \in {"start", "load", "lib", "lib_configure"} => ~using_direct
    /\ opener # "opened" => fd = Alsa!NoFd /\ alsa_closer = "idle"
    /\ opener # "configure" => opened_fd = Alsa!NoFd
    /\ opener = "configure" => opened_fd # Alsa!NoFd
    /\ ~using_direct => fd = Alsa!NoFd

\* There is one handle from the open of a libasound name to its close.
HandleInv ==
    /\ handles = IF pcm_handle \/ alsa_closer = "free" THEN 1 ELSE 0
    /\ pcm_handle => opener \in {"lib_configure", "opened"} /\ ~using_direct
    /\ opener = "lib_configure" => pcm_handle

\* close() works on the player that open() has chosen, and has let go of the
\* descriptor before it closes it.
CloserInv ==
    /\ alsa_closer \in {"exchange", "close", "clear"} => using_direct
    /\ alsa_closer \in {"drop", "free"} => ~using_direct
    /\ alsa_closer # "close" => old_fd = Alsa!NoFd
    /\ alsa_closer \in {"close", "clear", "done"} => fd = Alsa!NoFd
    /\ alsa_closer \in {"free", "done"} => ~pcm_handle

AlsaInv ==
    /\ descriptors = {fd, opened_fd, old_fd} \ {Alsa!NoFd}
    /\ OpenerInv /\ HandleInv /\ CloserInv

\* The first descriptor is 0.
LEMMA FirstFd ==
    ASSUME descriptors = {}
    PROVE  Alsa!NewFd = 0
<1>1. 0 \in 0..3 /\ 0 \notin descriptors /\ 0..0 - 1 \subseteq descriptors
  OBVIOUS
<1>2. /\ Alsa!NewFd \in 0..3 /\ 0..Alsa!NewFd - 1 \subseteq descriptors
  BY <1>1 DEF Alsa!NewFd
<1>3. Alsa!NewFd > 0 => 0 \in 0..Alsa!NewFd - 1
  BY <1>2
<1> QED
  BY <1>2, <1>3

\* open() of the direct player.
LEMMA NodeStep ==
    ASSUME AlsaInv, Alsa!NodeOpens \/ Alsa!NodeRejected \/ Alsa!NodeConfigured
    PROVE  AlsaInv'
<1> USE DEF AlsaInv, OpenerInv, HandleInv, CloserInv, Alsa!libVars, Alsa!NoFd
<1>1. CASE Alsa!NodeOpens
  <2>1. descriptors = {}
    BY <1>1 DEF Alsa!NodeOpens
  <2> QED
    BY <1>1, <2>1, FirstFd DEF Alsa!NodeOpens
<1>2. CASE Alsa!NodeRejected
  BY <1>2 DEF Alsa!NodeRejected
<1>3. CASE Alsa!NodeConfigured
  BY <1>3 DEF Alsa!NodeConfigured
<1> QED
  BY <1>1, <1>2, <1>3

\* The rest of open(): which player is tried next, and the libasound names.
LEMMA LibStep ==
    ASSUME AlsaInv,
           \/ Alsa!OpenStart \/ Alsa!OpenCandidate \/ Alsa!NodesExhausted
           \/ Alsa!LibLoads \/ Alsa!LibOpens \/ Alsa!LibConfigured \/ Alsa!LibExhausted
    PROVE  AlsaInv'
<1> USE DEF AlsaInv, OpenerInv, HandleInv, CloserInv, Alsa!libVars, Alsa!directVars,
        Alsa!NoFd
<1>1. CASE Alsa!OpenStart \/ Alsa!OpenCandidate
  BY <1>1 DEF Alsa!OpenStart, Alsa!OpenCandidate
<1>2. CASE Alsa!NodesExhausted
  <2>1. /\ opener = "node" /\ opener' \in {"load", "failed"}
        /\ opener' = "load" => ~using_direct'
    BY <1>2 DEF Alsa!NodesExhausted
  <2>2. UNCHANGED <<fd, opened_fd, old_fd, descriptors, pcm_handle, handles, alsa_closer>>
    BY <1>2 DEF Alsa!NodesExhausted
  <2> QED
    BY <2>1, <2>2
<1>3. CASE Alsa!LibLoads
  <2>1. /\ opener = "load" /\ opener' \in {"lib", "node"}
        /\ opener' = "lib" => using_direct' = using_direct
        /\ opener' = "node" => using_direct'
    BY <1>3 DEF Alsa!LibLoads
  <2>2. UNCHANGED <<fd, opened_fd, old_fd, descriptors, pcm_handle, handles, alsa_closer>>
    BY <1>3 DEF Alsa!LibLoads
  <2> QED
    BY <2>1, <2>2
<1>4. CASE Alsa!LibOpens
  BY <1>4 DEF Alsa!LibOpens
<1>5. CASE Alsa!LibConfigured
  <2>1. UNCHANGED <<fd, opened_fd, old_fd, descriptors, using_direct, alsa_closer>>
    BY <1>5 DEF Alsa!LibConfigured
  <2>2. CASE opener' = "opened"
    BY <1>5, <2>1, <2>2 DEF Alsa!LibConfigured
  <2>3. CASE opener' = "lib"
    <3>1. /\ opener = "lib_configure" /\ handles' = handles - 1
          /\ ~pcm_handle'
      BY <1>5, <2>3 DEF Alsa!LibConfigured
    <3>2. handles = 1 /\ alsa_closer = "idle" /\ ~using_direct
      BY <3>1
    <3> QED
      BY <2>1, <2>3, <3>1, <3>2
  <2> QED
    BY <1>5, <2>2, <2>3 DEF Alsa!LibConfigured
<1>6. CASE Alsa!LibExhausted
  BY <1>6 DEF Alsa!LibExhausted
<1> QED
  BY <1>1, <1>2, <1>3, <1>4, <1>5, <1>6

LEMMA AlsaCloseStep ==
    ASSUME AlsaInv, Alsa!CloseMark \/ Alsa!Close
    PROVE  AlsaInv'
<1> USE DEF AlsaInv, OpenerInv, HandleInv, CloserInv, Alsa!libVars, Alsa!directVars,
        Alsa!openVars, Alsa!NoFd
<1>1. CASE Alsa!CloseMark
  BY <1>1 DEF Alsa!CloseMark
<1>2. CASE Alsa!CloseExchange \/ Alsa!CloseDescriptor
  BY <1>2 DEF Alsa!CloseExchange, Alsa!CloseDescriptor
<1>3. CASE Alsa!CloseClear
  BY <1>3 DEF Alsa!CloseClear
<1>4. CASE Alsa!CloseDrop \/ Alsa!CloseFree
  BY <1>4 DEF Alsa!CloseDrop, Alsa!CloseFree
<1> QED
  BY <1>1, <1>2, <1>3, <1>4 DEF Alsa!Close

\* write_frames() and the device acquire and release nothing.
LEMMA AlsaWriteStep ==
    ASSUME AlsaInv, Alsa!Write \/ Alsa!DeviceStalls
    PROVE  AlsaInv'
<1>1. UNCHANGED <<opener, using_direct, fd, opened_fd, old_fd, descriptors, pcm_handle,
                  handles, alsa_closer>>
  BY DEF Alsa!Write, Alsa!WriteEnter, Alsa!WriteReturns, Alsa!Poll, Alsa!LoadFd, Alsa!Ioctl,
     Alsa!Writei, Alsa!DeviceStalls, Alsa!libVars, Alsa!directVars, Alsa!openVars
<1> QED
  BY <1>1 DEF AlsaInv, OpenerInv, HandleInv, CloserInv, Alsa!NoFd

LEMMA AlsaStep ==
    ASSUME AlsaInv, [Next]_vars
    PROVE  AlsaInv'
<1>1. CASE AlsaOnly /\ Alsa!Next
  BY <1>1, NodeStep, LibStep, AlsaCloseStep, AlsaWriteStep DEF Alsa!Next, Alsa!Open
<1>2. CASE PulseOnly \/ AgmOnly \/ UNCHANGED vars
  <2>1. UNCHANGED alsaVars
    BY <1>2 DEF PulseOnly, AgmOnly, vars
  <2> QED
    BY <2>1 DEF AlsaInv, OpenerInv, HandleInv, CloserInv, Alsa!NoFd
<1> QED
  BY <1>1, <1>2 DEF Next

\* Whatever candidate of the ALSA open() fails at whatever step, and wherever close()
\* comes, no descriptor and no libasound handle is lost.
THEOREM NothingEverLeaks == Spec => []NothingLeaks
<1>1. Init => AlsaInv
  BY DEF Init, Alsa!Init, AlsaInv, OpenerInv, HandleInv, CloserInv, Alsa!NoFd
<1>2. AlsaInv /\ [Next]_vars => AlsaInv'
  BY AlsaStep
<1>3. AlsaInv => NothingLeaks
  BY DEF AlsaInv, OpenerInv, HandleInv, CloserInv, Alsa!NoFd, NothingLeaks,
     Alsa!NothingLeaks
<1> QED
  BY <1>1, <1>2, <1>3, PTL DEF Spec

-----------------------------------------------------------------------------
(* AGM: the invariant                                                      *)

\* A process is recorded or about to be; while one is being made none is recorded.
PidInv ==
    /\ agmplay # "none" => agmplay_pid \/ agm_writer = "record"
    /\ agm_writer \in {"hal", "route", "spawn", "record"} => ~agmplay_pid

\* close() waits for the recorded process only, and none is recorded after it.
ReapInv ==
    /\ agm_closer \in {"wait", "interrupt"} => agmplay_pid
    /\ agm_closer \in {"unlink", "done"} => ~agmplay_pid
    /\ agm_closer \in {"wait", "interrupt", "unlink", "done"} => ~agm_open

AgmInv == PidInv /\ ReapInv

LEMMA RespawnStep ==
    ASSUME AgmInv, Agm!Respawn
    PROVE  AgmInv'
<1> USE DEF AgmInv, PidInv, ReapInv, Agm!playerVars, Agm!processVars
<1>1. CASE Agm!Spawn \/ Agm!SpawnFails
  BY <1>1 DEF Agm!Spawn, Agm!SpawnFails
<1>2. CASE Agm!Record
  BY <1>2 DEF Agm!Record, Agm!MutexFree
<1>3. CASE \/ Agm!ReaderFound \/ Agm!PathGone \/ Agm!ReaderTimeout \/ Agm!StoreFd
           \/ Agm!Respawned \/ Agm!RespawnFailed
  BY <1>3 DEF Agm!ReaderFound, Agm!PathGone, Agm!ReaderTimeout, Agm!StoreFd, Agm!Respawned,
     Agm!RespawnFailed
<1> QED
  BY <1>1, <1>2, <1>3 DEF Agm!Respawn

LEMMA RecoverStep ==
    ASSUME AgmInv, Agm!Recover \/ Agm!WriteFrames
    PROVE  AgmInv'
<1> USE DEF AgmInv, PidInv, ReapInv, Agm!playerVars, Agm!processVars
<1>1. CASE Agm!Teardown
  BY <1>1 DEF Agm!Teardown, Agm!MutexFree
<1>2. CASE \/ Agm!RecoverTooSoon \/ Agm!HalKept \/ Agm!HalRestarted \/ Agm!HalUnknown
           \/ Agm!Route
  <2>1. /\ UNCHANGED <<agm_open, agmplay_pid, agmplay, agm_closer>>
        /\ \/ agm_writer = "recover" /\ agm_writer' = "idle"
           \/ agm_writer \in {"hal", "route"} /\ agm_writer' \in {"route", "spawn"}
    BY <1>2 DEF Agm!RecoverTooSoon, Agm!HalKept, Agm!HalRestarted, Agm!HalUnknown, Agm!Route
  <2> QED
    BY <2>1
<1>3. CASE Agm!WriteFrames
  <2>1. UNCHANGED <<agm_open, agmplay_pid, agmplay, agm_closer>>
    BY <1>3 DEF Agm!WriteFrames, Agm!WriteEnter, Agm!WriteClosed, Agm!WriteOk, Agm!WriteFull,
       Agm!WriteFails
  <2>2. /\ agm_writer \in {"idle", "write"}
        /\ agm_writer' \in {"idle", "write", "recover"}
    BY <1>3 DEF Agm!WriteFrames, Agm!WriteEnter, Agm!WriteClosed, Agm!WriteOk, Agm!WriteFull,
       Agm!WriteFails
  <2> QED
    BY <2>1, <2>2
<1> QED
  BY <1>1, <1>2, <1>3 DEF Agm!Recover

LEMMA AgmCloseStep ==
    ASSUME AgmInv, Agm!CloseStart \/ Agm!Close
    PROVE  AgmInv'
<1> USE DEF AgmInv, PidInv, ReapInv, Agm!playerVars, Agm!processVars
<1>1. CASE Agm!CloseStart \/ Agm!CloseLock
  BY <1>1 DEF Agm!CloseStart, Agm!CloseLock
<1>2. CASE Agm!CloseReap \/ Agm!CloseKill
  BY <1>2 DEF Agm!CloseReap, Agm!CloseKill
<1>3. CASE Agm!CloseInterrupt \/ Agm!CloseUnlink
  BY <1>3 DEF Agm!CloseInterrupt, Agm!CloseUnlink
<1> QED
  BY <1>1, <1>2, <1>3 DEF Agm!Close

\* The watcher, agmplay, the phone and the clock.
LEMMA PhoneStep ==
    ASSUME AgmInv,
           \/ Agm!RouteSeenLost \/ Agm!ReportLost \/ Agm!WatcherEnds
           \/ Agm!Agmplay \/ Agm!AgmplayCrashes \/ Agm!Preempt
           \/ Agm!RecoverTick \/ Agm!StallTick
    PROVE  AgmInv'
<1>1. UNCHANGED <<agm_open, agmplay_pid, agm_writer, agm_closer>>
  BY DEF Agm!RouteSeenLost, Agm!ReportLost, Agm!WatcherEnds, Agm!Agmplay, Agm!AgmplayOpens,
     Agm!AgmplayDrains, Agm!AgmplayEnds, Agm!AgmplayCrashes, Agm!Preempt, Agm!RecoverTick,
     Agm!StallTick, Agm!playerVars
<1>2. agmplay' # "none" => agmplay # "none"
  BY DEF Agm!RouteSeenLost, Agm!ReportLost, Agm!WatcherEnds, Agm!Agmplay, Agm!AgmplayOpens,
     Agm!AgmplayDrains, Agm!AgmplayEnds, Agm!AgmplayCrashes, Agm!Preempt, Agm!RecoverTick,
     Agm!StallTick, Agm!processVars
<1> QED
  BY <1>1, <1>2 DEF AgmInv, PidInv, ReapInv

LEMMA AgmStep ==
    ASSUME AgmInv, [Next]_vars
    PROVE  AgmInv'
<1>1. CASE AgmOnly /\ Agm!Next
  BY <1>1, RespawnStep, RecoverStep, AgmCloseStep, PhoneStep DEF Agm!Next
<1>2. CASE PulseOnly \/ AlsaOnly \/ UNCHANGED vars
  BY <1>2 DEF PulseOnly, AlsaOnly, vars, AgmInv, PidInv, ReapInv
<1> QED
  BY <1>1, <1>2 DEF Next

\* close() of the AGM player leaves no agmplay, whatever respawn it races with: one
\* that is forked too late is killed by the thread that forked it.
THEOREM NoAgmplayOrphaned == Spec => []NoOrphanAgmplay
<1>1. Init => AgmInv
  BY DEF Init, Agm!Init, AgmInv, PidInv, ReapInv
<1>2. AgmInv /\ [Next]_vars => AgmInv'
  BY AgmStep
<1>3. AgmInv => NoOrphanAgmplay
  BY DEF AgmInv, PidInv, ReapInv, NoOrphanAgmplay, Agm!NoOrphanAgmplay
<1> QED
  BY <1>1, <1>2, <1>3, PTL DEF Spec
=============================================================================
