---------------------------- MODULE AaudioProofs -----------------------------
(***************************************************************************)
(* Theorems about AaudioPlayer: no stream is left open by a rebuild that   *)
(* races with close(), and a device that renders deep-buffer streams is    *)
(* never given up, for any FIFO and any threshold of the watchdog.         *)
(***************************************************************************)
EXTENDS AaudioPlayer, TLAPS

-----------------------------------------------------------------------------
(* No stream is left behind                                                *)

\* Once close() has closed the stream there is none, and the pump, which may be
\* anywhere, does not make another one.
StreamInv ==
    /\ stream \in Handles \cup {None}
    /\ opened = {stream} \ {None}
    /\ closer \in {"join", "joinLate", "closed"} => stream = None

\* What the threads do without touching a stream.
Bystander ==
    \/ WriteBegin \/ WriteStep \/ CloseBegin \/ CloseWait \/ PumpPoll \/ PumpWriteBegin
    \/ PumpWriteEnd \/ PumpClosed \/ PumpFailed \/ PumpWrote
    \/ HalChanges \/ Disconnect \/ TimePasses

LEMMA BystanderStep ==
    ASSUME Bystander
    PROVE  /\ UNCHANGED <<stream, opened, deep, platform, stall_rebuilds, is_open>>
           /\ closer' = closer \/ closer' \in {"wait", "lock", "lockLate"}
<1>1. UNCHANGED <<stream, opened, deep, platform, stall_rebuilds, is_open>>
  BY DEF Bystander, WriteBegin, WriteStep, CloseBegin, CloseWait, PumpPoll, PumpWriteBegin,
     PumpWriteEnd, PumpClosed, PumpFailed, PumpWrote, HalChanges, Disconnect, TimePasses,
     player, watchdog, aaudio
<1>2. closer' = closer \/ closer' \in {"wait", "lock", "lockLate"}
  BY DEF Bystander, WriteBegin, WriteStep, CloseBegin, CloseWait, PumpPoll, PumpWriteBegin,
     PumpWriteEnd, PumpClosed, PumpFailed, PumpWrote, HalChanges, Disconnect, TimePasses,
     threads
<1> QED
  BY <1>1, <1>2

\* A rebuild closes the stream that it replaces.
LEMMA RebuildStep ==
    ASSUME StreamInv, NEW isDeep, Rebuild(isDeep)
    PROVE  stream' \in Handles \cup {None} /\ opened' = {stream'} \ {None}
  BY DEF StreamInv, Rebuild, NewStream, Fresh, Handles, None

LEMMA StreamStep ==
    ASSUME StreamInv, [Next]_vars
    PROVE  StreamInv'
<1>1. CASE Bystander
  BY <1>1, BystanderStep DEF StreamInv
<1>2. CASE Open
  BY <1>2 DEF Open, NewStream, StreamInv, Handles, None
<1>3. CASE CloseStream
  BY <1>3 DEF CloseStream, StreamInv
<1>4. CASE CloseJoin
  BY <1>4 DEF CloseJoin, StreamInv, aaudio
<1>5. CASE PumpResolve
  <2>1. CASE stream # None /\ Rebuild(deep_retry)
    <3>1. closer' = closer
      BY <1>5 DEF PumpResolve
    <3> QED
      BY <2>1, <3>1, RebuildStep DEF StreamInv
  <2>2. CASE NoRebuild
    BY <1>5, <2>2 DEF PumpResolve, NoRebuild, StreamInv
  <2> QED
    BY <1>5, <2>1, <2>2 DEF PumpResolve
<1>6. CASE PumpCut
  <2>1. CASE Rebuild(deep_retry)
    BY <1>6, <2>1, RebuildStep DEF PumpCut, StreamInv
  <2>2. CASE NoRebuild
    BY <1>6, <2>2 DEF PumpCut, NoRebuild, StreamInv
  <2> QED
    BY <1>6, <2>1, <2>2 DEF PumpCut
<1>7. CASE PumpStall
  <2>1. stream # None /\ Rebuild(DeepRetry) /\ closer' = closer
    BY <1>7 DEF PumpStall, Stalled, RebuildAndDrain
  <2> QED
    BY <2>1, RebuildStep DEF StreamInv
<1>8. CASE PumpGiveUp
  BY <1>8 DEF PumpGiveUp, EndPump, StreamInv
<1>9. CASE UNCHANGED vars
  BY <1>9 DEF vars, player, threads, aaudio, StreamInv
<1> QED
  BY <1>1, <1>2, <1>3, <1>4, <1>5, <1>6, <1>7, <1>8, <1>9 DEF Next, Bystander

\* Whatever the pump is doing when close() comes, every AAudio stream that is open is
\* stream_ itself, and after close() there is none.
THEOREM NoStreamEverLeaks == Spec => []NoStreamLeak
<1>1. Init => StreamInv
  BY DEF Init, StreamInv, None
<1>2. StreamInv /\ [Next]_vars => StreamInv'
  BY StreamStep
<1>3. StreamInv => NoStreamLeak
  BY DEF StreamInv, NoStreamLeak
<1> QED
  BY <1>1, <1>2, <1>3, PTL DEF Spec
-----------------------------------------------------------------------------
(* A deep-buffer device is kept                                            *)

\* The platform: the device renders at least the deep-buffer streams, and nothing is
\* ever disconnected, so that the pump writes to the current stream.
DeepPlatformInv ==
    /\ hal \in {"renders", "deepOnly"} /\ ~cut
    /\ pump \in {"enter", "writing"} /\ stream # None => held = stream
    /\ pump = "cut" => stream = None

\* A write to a deep-buffer stream does not fail, and the second stall rebuild, at the
\* latest, makes one.
DeepStreamInv ==
    /\ stall_rebuilds \in Nat
    /\ pump = "failed" /\ stream # None => ~deep
    /\ stall_rebuilds >= 2 /\ stream # None => deep

DeepInv == platform = "deep" => DeepPlatformInv /\ DeepStreamInv /\ DeepDeviceKept

LEMMA PlatformStep ==
    ASSUME [Next]_vars
    PROVE  platform' = platform
  BY DEF Next, Open, WriteBegin, WriteStep, CloseBegin, CloseWait, CloseStream, CloseJoin,
     PumpPoll, PumpResolve, PumpWriteBegin, PumpWriteEnd, PumpClosed, PumpCut, PumpFailed,
     PumpStall, RebuildAndDrain, PumpGiveUp, EndPump, PumpWrote, HalChanges, Disconnect,
     TimePasses, vars, aaudio

\* The steps that leave the stream alone.
LEMMA DeepBystander ==
    ASSUME StreamInv, DeepPlatformInv, DeepStreamInv, DeepDeviceKept, platform = "deep",
           Bystander
    PROVE  DeepPlatformInv' /\ DeepStreamInv' /\ DeepDeviceKept'
<1>1. /\ UNCHANGED <<stream, opened, deep, platform, stall_rebuilds, is_open>>
      /\ closer' = closer \/ closer' \in {"wait", "lock", "lockLate"}
  BY BystanderStep
<1>2. DeepDeviceKept'
  BY <1>1 DEF Bystander, WriteBegin, WriteStep, CloseBegin, CloseWait, PumpPoll,
     PumpWriteBegin, PumpWriteEnd, PumpClosed, PumpFailed, PumpWrote, HalChanges, Disconnect,
     TimePasses, threads, DeepDeviceKept
<1>3. CASE \/ WriteBegin \/ WriteStep \/ CloseBegin \/ CloseWait \/ PumpPoll \/ PumpWriteBegin
           \/ PumpClosed \/ PumpFailed \/ PumpWrote \/ TimePasses
  <2>1. UNCHANGED <<hal, cut, held>>
    BY <1>3 DEF WriteBegin, WriteStep, CloseBegin, CloseWait, PumpPoll, PumpWriteBegin,
       PumpClosed, PumpFailed, PumpWrote, TimePasses, threads, aaudio
  <2>2. \/ pump' = pump
        \/ pump' \in {"poll", "resolve", "exited"}
        \/ pump = "enter" /\ pump' = "writing"
    BY <1>3 DEF WriteBegin, WriteStep, CloseBegin, CloseWait, PumpPoll, PumpWriteBegin,
       PumpClosed, PumpFailed, PumpWrote, TimePasses, threads
  <2> QED
    BY <1>1, <1>2, <2>1, <2>2 DEF DeepPlatformInv, DeepStreamInv
<1>4. CASE PumpWriteEnd
  <2>1. /\ pump = "writing" /\ UNCHANGED <<hal, cut>>
        /\ pump' \in {"wrote", "cut", "failed"}
    BY <1>4 DEF PumpWriteEnd
  <2>2. CASE stream = None
    BY <1>1, <1>2, <2>1, <2>2 DEF DeepPlatformInv, DeepStreamInv
  <2>3. CASE stream # None
    <3>1. held \in opened
      BY <2>1, <2>3 DEF DeepPlatformInv, StreamInv
    <3>2. pump' = "wrote" \/ (pump' = "failed" /\ ~Renders)
      BY <1>4, <3>1 DEF PumpWriteEnd, DeepPlatformInv
    <3>3. ~Renders => ~deep
      BY DEF Renders, DeepPlatformInv
    <3> QED
      BY <1>1, <1>2, <2>1, <3>2, <3>3 DEF DeepPlatformInv, DeepStreamInv
  <2> QED
    BY <2>2, <2>3
<1>5. CASE HalChanges
  BY <1>1, <1>2, <1>5 DEF HalChanges, Hals, threads, DeepPlatformInv, DeepStreamInv
<1>6. ~Disconnect
  BY DEF Disconnect, MayDisconnect
<1> QED
  BY <1>3, <1>4, <1>5, <1>6 DEF Bystander

\* The steps that make, recreate or close the stream.
LEMMA DeepStreamStep ==
    ASSUME kMaxStallRebuilds >= 2,
           DeepPlatformInv, DeepStreamInv, DeepDeviceKept, platform = "deep",
           Open \/ CloseStream \/ CloseJoin \/ PumpResolve \/ PumpCut \/ PumpStall \/ PumpGiveUp
    PROVE  DeepPlatformInv' /\ DeepStreamInv' /\ DeepDeviceKept'
<1> USE DEF DeepPlatformInv, DeepStreamInv, DeepDeviceKept
<1>1. CASE Open
  <2>1. /\ ~cut' /\ UNCHANGED hal /\ pump' = "poll" /\ stall_rebuilds' = 0
        /\ is_open'
    BY <1>1 DEF Open, NewStream
  <2> QED
    BY <2>1
<1>2. CASE CloseStream
  <2>1. /\ stream' = None /\ closer # "closed"
        /\ UNCHANGED <<is_open, stall_rebuilds, pump, hal, cut>>
    BY <1>2 DEF CloseStream, watchdog
  <2> QED
    BY <2>1
<1>3. CASE CloseJoin
  <2>1. /\ closer' = "closed"
        /\ UNCHANGED <<stream, stall_rebuilds, pump, held, hal, cut, deep>>
    BY <1>3 DEF CloseJoin, aaudio, watchdog
  <2> QED
    BY <2>1
<1>4. CASE PumpResolve
  <2>1. NoRebuild /\ UNCHANGED <<stall_rebuilds, is_open, closer, hal, platform>>
    BY <1>4 DEF PumpResolve
  <2>2. \/ pump' \in {"poll", "exited"}
        \/ pump' = "enter" /\ held' = stream
    BY <1>4 DEF PumpResolve
  <2> QED
    BY <2>1, <2>2 DEF NoRebuild
<1>5. ~PumpCut
  BY DEF PumpCut
<1>6. CASE PumpStall
  <2>1. /\ Rebuild(DeepRetry) /\ pump' = "poll"
        /\ UNCHANGED <<is_open, closer, hal, platform>>
    BY <1>6 DEF PumpStall, RebuildAndDrain
  <2>2. ~cut' /\ deep' = DeepRetry
    BY <2>1 DEF Rebuild, NewStream, RebuildMayFail
  <2>3. stall_rebuilds' = stall_rebuilds + 1
    BY <1>6 DEF PumpStall
  <2>4. stall_rebuilds' >= 2 => deep'
    <3>1. stall_rebuilds' >= 2 => stall_rebuilds > 0
      BY <2>3
    <3>2. stall_rebuilds > 0 => DeepRetry = TRUE
      BY DEF DeepRetry
    <3> QED
      BY <2>2, <3>1, <3>2
  <2> QED
    BY <2>1, <2>2, <2>3, <2>4
<1>7. ~PumpGiveUp
  <2>1. PumpGiveUp => /\ pump = "failed" /\ stream # None
                      /\ stall_rebuilds >= kMaxStallRebuilds
    BY DEF PumpGiveUp, EndPump, Stalled
  <2> QED
    BY <2>1, AaudioAssumption DEF AaudioAssumption
<1> QED
  BY <1>1, <1>2, <1>3, <1>4, <1>5, <1>6, <1>7

LEMMA DeepStep ==
    ASSUME kMaxStallRebuilds >= 2, StreamInv, DeepInv, [Next]_vars
    PROVE  DeepInv'
<1> SUFFICES ASSUME platform = "deep"
             PROVE  DeepPlatformInv' /\ DeepStreamInv' /\ DeepDeviceKept'
  BY PlatformStep DEF DeepInv
<1>1. DeepPlatformInv /\ DeepStreamInv /\ DeepDeviceKept
  BY DEF DeepInv
<1>2. CASE Bystander
  BY <1>1, <1>2, DeepBystander
<1>3. CASE Open \/ CloseStream \/ CloseJoin \/ PumpResolve \/ PumpCut \/ PumpStall \/ PumpGiveUp
  BY <1>1, <1>3, DeepStreamStep
<1>4. CASE UNCHANGED vars
  BY <1>1, <1>4 DEF vars, player, watchdog, threads, aaudio, DeepPlatformInv, DeepStreamInv,
     DeepDeviceKept
<1> QED
  BY <1>2, <1>3, <1>4 DEF Next, Bystander

\* With two stall rebuilds or more (the code has three) a device that renders
\* deep-buffer streams is never given up: the rebuilds come to one before they run out.
THEOREM DeepDeviceNeverGivenUp ==
    ASSUME kMaxStallRebuilds >= 2
    PROVE  Spec => []DeepDeviceKept
<1>1. Init => StreamInv /\ DeepInv
  BY DEF Init, StreamInv, None, DeepInv, DeepPlatformInv, DeepStreamInv, DeepDeviceKept, Hals
<1>2. StreamInv /\ DeepInv /\ [Next]_vars => (StreamInv /\ DeepInv)'
  BY StreamStep, DeepStep
<1>3. DeepInv => DeepDeviceKept
  BY DEF DeepInv, DeepDeviceKept
<1> QED
  BY <1>1, <1>2, <1>3, PTL DEF Spec
=============================================================================
