----------------------------- MODULE AlsaPlayer ------------------------------
(***************************************************************************)
(* The ALSA backends (src/client/alsa_player.cpp, direct_alsa.cpp): open() *)
(* tries kernel PCM nodes and libasound names in turn, write_frames() runs *)
(* on the playback thread, close() on the thread that stops the client.    *)
(* No mutex orders the last two; the descriptor is an atomic.              *)
(*                                                                         *)
(* is_open stands for is_open_ of AlsaPlayer and of its DirectAlsaPlayer,  *)
(* set and cleared together.  staging counts packets of frames_per_packet  *)
(* frames in staging_buffer_, chunk the packets in the period the kernel   *)
(* chose.                                                                  *)
(***************************************************************************)
EXTENDS Integers

CONSTANTS
    Nodes,          \* how many kernel PCM nodes DirectAlsaPlayer::open() tries
    LibNames,       \* how many libasound names AlsaPlayer::open() tries
    MaxStaging      \* bound: packets that the staging buffer may hold

NoFd == -1

VARIABLES
    opener, todo,   \* open(): where it is, candidates left in its current loop
    attempt,        \* the direct attempt: "first" and "last", or "only" (a named node)
    is_open, using_direct,
    fd, opened_fd, old_fd, active_fd,   \* fd_; the locals of open, close and write
    descriptors,    \* the descriptors that are open in the kernel
    pcm_handle, handles,    \* impl_->pcm_handle is set; libasound handles not closed
    staging, chunk,
    device,         \* "runs", or "stalled": it takes no more frames
    writer, closer

openVars == <<opener, todo, attempt>>
directVars == <<fd, opened_fd, old_fd, active_fd, descriptors, staging, chunk>>
libVars == <<pcm_handle, handles>>
vars == <<openVars, directVars, libVars, is_open, using_direct, device, writer, closer>>

Init ==
    /\ opener = "start" /\ todo = 0 /\ attempt = "only"
    /\ is_open = FALSE /\ using_direct = FALSE
    /\ fd = NoFd /\ opened_fd = NoFd /\ old_fd = NoFd /\ active_fd = NoFd
    /\ descriptors = {} /\ pcm_handle = FALSE /\ handles = 0
    /\ staging = 0 /\ chunk = 1 /\ device = "runs"
    /\ writer = "idle" /\ closer = "idle"

\* The lowest number that is free; fd_ and the locals of open() and close() hold
\* three at most.
NewFd == CHOOSE n \in 0..3 : n \notin descriptors /\ 0..n - 1 \subseteq descriptors

-----------------------------------------------------------------------------
(* open                                                                    *)

\* open_candidate_only(), with which the supervisor tries one node after another.
OpenCandidate ==
    /\ opener = "start"
    /\ opener' = "node" /\ todo' = 1 /\ attempt' = "only" /\ using_direct' = TRUE
    /\ UNCHANGED <<directVars, libVars, is_open, device, writer, closer>>

\* A named node is tried with its fallbacks; "default" prefers the nodes that
\* exist and then libasound, any other name starts with libasound.
OpenStart ==
    /\ opener = "start"
    /\ \/ opener' = "node" /\ todo' = Nodes /\ using_direct' = TRUE
          /\ attempt' \in {"only", "first"}
       \/ opener' = "load" /\ UNCHANGED <<todo, using_direct, attempt>>
    /\ UNCHANGED <<directVars, libVars, is_open, device, writer, closer>>

\* try_open_candidate(): open() of the node.
NodeOpens ==
    /\ opener = "node" /\ todo > 0
    /\ \/ /\ opened_fd' = NewFd /\ descriptors' = descriptors \union {NewFd}
          /\ opener' = "configure" /\ UNCHANGED todo
       \/ todo' = todo - 1 /\ UNCHANGED <<opened_fd, descriptors, opener>>
    /\ UNCHANGED <<attempt, fd, old_fd, active_fd, staging, chunk, libVars, is_open,
                   using_direct, device, writer, closer>>

\* Mutant: a node that cannot be configured is left open.
NodeRejectedOpen ==
    /\ opener = "configure"
    /\ opened_fd' = NoFd
    /\ todo' = todo - 1 /\ opener' = "node"
    /\ UNCHANGED <<attempt, fd, old_fd, active_fd, descriptors, staging, chunk, libVars,
                   is_open, using_direct, device, writer, closer>>

\* The hardware parameters are refused twice, constrained and relaxed, or the device
\* cannot be prepared.
NodeRejected ==
    /\ opener = "configure"
    /\ descriptors' = descriptors \ {opened_fd} /\ opened_fd' = NoFd
    /\ todo' = todo - 1 /\ opener' = "node"
    /\ UNCHANGED <<attempt, fd, old_fd, active_fd, staging, chunk, libVars, is_open,
                   using_direct, device, writer, closer>>

\* With the period asked for, or the larger one the relaxed parameters gave.
NodeConfigured ==
    /\ opener = "configure"
    /\ fd' = opened_fd /\ opened_fd' = NoFd
    /\ chunk' \in 1..2 /\ staging' = 0
    /\ is_open' = TRUE
    /\ opener' = "opened"
    /\ UNCHANGED <<todo, attempt, old_fd, active_fd, descriptors, libVars, using_direct,
                   device, writer, closer>>

\* Mutant: goes on to libasound and still says that the direct player is in use.
NodesExhaustedKeepsDirect ==
    /\ opener = "node" /\ todo = 0
    /\ opener' = IF attempt = "first" THEN "load" ELSE "failed"
    /\ UNCHANGED <<todo, attempt, directVars, libVars, is_open, using_direct, device,
                   writer, closer>>

\* No node works; log_device_capabilities() opens the first one and closes it.
NodesExhausted ==
    /\ opener = "node" /\ todo = 0
    /\ opener' = IF attempt = "first" THEN "load" ELSE "failed"
    /\ using_direct' = (using_direct /\ attempt # "first")
    /\ UNCHANGED <<todo, attempt, directVars, libVars, is_open, device, writer, closer>>

\* load_libasound() finds the library and all its symbols, or nothing is left but
\* the last direct attempt.
LibLoads ==
    /\ opener = "load"
    /\ \/ opener' = "lib" /\ todo' = LibNames /\ UNCHANGED <<attempt, using_direct>>
       \/ /\ opener' = "node" /\ todo' = Nodes
          /\ attempt' = "last" /\ using_direct' = TRUE
    /\ UNCHANGED <<directVars, libVars, is_open, device, writer, closer>>

\* try_open_via_libasound(): cannot be opened, or opened but not configured.
LibOpens ==
    /\ opener = "lib" /\ todo > 0
    /\ \/ /\ pcm_handle' = TRUE /\ handles' = handles + 1
          /\ opener' = "lib_configure" /\ UNCHANGED todo
       \/ todo' = todo - 1 /\ UNCHANGED <<libVars, opener>>
    /\ UNCHANGED <<attempt, directVars, is_open, using_direct, device, writer, closer>>

LibConfigured ==
    /\ opener = "lib_configure"
    /\ \/ is_open' = TRUE /\ opener' = "opened" /\ UNCHANGED <<todo, libVars>>
       \/ /\ pcm_handle' = FALSE /\ handles' = handles - 1
          /\ todo' = todo - 1 /\ opener' = "lib" /\ UNCHANGED is_open
    /\ UNCHANGED <<attempt, directVars, using_direct, device, writer, closer>>

LibExhausted ==
    /\ opener = "lib" /\ todo = 0
    /\ opener' = "node" /\ todo' = Nodes
    /\ attempt' = "last" /\ using_direct' = TRUE
    /\ UNCHANGED <<directVars, libVars, is_open, device, writer, closer>>

Open == \/ OpenStart \/ OpenCandidate
        \/ NodeOpens \/ NodeRejected \/ NodeConfigured \/ NodesExhausted
        \/ LibLoads \/ LibOpens \/ LibConfigured \/ LibExhausted

-----------------------------------------------------------------------------
(* write_frames                                                            *)

\* The direct player stages the packet whatever the device does.
WriteEnter ==
    /\ writer = "idle"
    /\ is_open
    /\ IF using_direct
       THEN /\ fd # NoFd
            /\ staging < MaxStaging /\ staging' = staging + 1
            /\ writer' = "loop"
       ELSE /\ pcm_handle
            /\ writer' = "writei" /\ UNCHANGED staging
    /\ UNCHANGED <<openVars, fd, opened_fd, old_fd, active_fd, descriptors, chunk, libVars,
                   is_open, using_direct, device, closer>>

\* Less than a period is staged, or the player was closed: the packet counts as written.
WriteReturns ==
    /\ writer = "loop"
    /\ staging < chunk \/ ~is_open \/ fd = NoFd
    /\ writer' = "idle"
    /\ UNCHANGED <<openVars, directVars, libVars, is_open, using_direct, device, closer>>

\* Mutant: poll() without a timeout; nothing wakes it.
PollWaits ==
    /\ writer = "loop"
    /\ staging >= chunk /\ is_open /\ fd # NoFd
    /\ writer' = IF device = "runs" THEN "ready" ELSE "poll"
    /\ UNCHANGED <<openVars, directVars, libVars, is_open, using_direct, device, closer>>

\* poll() of at most 50 ms; a device that takes nothing ends the call, as does an error.
Poll ==
    /\ writer = "loop"
    /\ staging >= chunk /\ is_open /\ fd # NoFd
    /\ writer' \in {"idle", IF device = "runs" THEN "ready" ELSE "idle"}
    /\ UNCHANGED <<openVars, directVars, libVars, is_open, using_direct, device, closer>>

\* The descriptor is loaded again after poll().
LoadFd ==
    /\ writer = "ready"
    /\ active_fd' = fd
    /\ writer' = IF is_open /\ fd # NoFd THEN "ioctl" ELSE "idle"
    /\ UNCHANGED <<openVars, fd, opened_fd, old_fd, descriptors, staging, chunk, libVars,
                   is_open, using_direct, device, closer>>

\* WRITEI_FRAMES: the period or part of it is written, at once or after PREPARE on an
\* underrun, a suspend or an error; if that fails too, what was staged is dropped.  A
\* failure that close() has caused ends the call.
Ioctl ==
    /\ writer = "ioctl"
    /\ \/ /\ \E n \in 1..chunk : staging' = IF staging > n THEN staging - n ELSE 0
          /\ writer' = "loop"
       \/ staging' = 0 /\ writer' = "idle"
       \/ ~is_open /\ writer' = "idle" /\ UNCHANGED staging
    /\ UNCHANGED <<openVars, fd, opened_fd, old_fd, active_fd, descriptors, chunk, libVars,
                   is_open, using_direct, device, closer>>

\* snd_pcm_writei() blocks until the device takes the frames or snd_pcm_drop() ends
\* it; snd_pcm_recover() and one more try are part of the call.
Writei ==
    /\ writer = "writei"
    /\ device = "runs" \/ ~pcm_handle
    /\ writer' = "idle"
    /\ UNCHANGED <<openVars, directVars, libVars, is_open, using_direct, device, closer>>

Write == WriteEnter \/ WriteReturns \/ Poll \/ LoadFd \/ Ioctl \/ Writei

-----------------------------------------------------------------------------
(* close, of a player that was opened                                      *)

CloseMark ==
    /\ closer = "idle" /\ opener = "opened"
    /\ is_open' = FALSE
    /\ closer' = IF using_direct THEN "exchange" ELSE "drop"
    /\ UNCHANGED <<openVars, directVars, libVars, using_direct, device, writer>>

CloseExchange ==
    /\ closer = "exchange"
    /\ old_fd' = fd /\ fd' = NoFd
    /\ closer' = "close"
    /\ UNCHANGED <<openVars, opened_fd, active_fd, descriptors, staging, chunk, libVars,
                   is_open, using_direct, device, writer>>

CloseDescriptor ==
    /\ closer = "close"
    /\ descriptors' = descriptors \ {old_fd} /\ old_fd' = NoFd
    /\ closer' = "clear"
    /\ UNCHANGED <<openVars, fd, opened_fd, active_fd, staging, chunk, libVars, is_open,
                   using_direct, device, writer>>

CloseClear ==
    /\ closer = "clear"
    /\ staging' = 0
    /\ closer' = "done"
    /\ UNCHANGED <<openVars, fd, opened_fd, old_fd, active_fd, descriptors, chunk, libVars,
                   is_open, using_direct, device, writer>>

\* snd_pcm_drop() ends a write that is under way.
CloseDrop ==
    /\ closer = "drop"
    /\ pcm_handle' = FALSE
    /\ closer' = IF pcm_handle THEN "free" ELSE "done"
    /\ UNCHANGED <<openVars, directVars, handles, is_open, using_direct, device, writer>>

CloseFree ==
    /\ closer = "free"
    /\ handles' = handles - 1
    /\ closer' = "done"
    /\ UNCHANGED <<openVars, directVars, pcm_handle, is_open, using_direct, device, writer>>

Close == CloseExchange \/ CloseDescriptor \/ CloseClear \/ CloseDrop \/ CloseFree

-----------------------------------------------------------------------------
DeviceStalls ==
    /\ device' = IF device = "runs" THEN "stalled" ELSE "runs"
    /\ UNCHANGED <<openVars, directVars, libVars, is_open, using_direct, writer, closer>>

Next == Open \/ Write \/ CloseMark \/ Close \/ DeviceStalls

\* open(), write_frames() and close() get on once called.  A device may stall for good.
Fairness == WF_vars(Open) /\ WF_vars(Write) /\ WF_vars(Close)

Spec == Init /\ [][Next]_vars /\ Fairness

-----------------------------------------------------------------------------
(* Properties                                                              *)

\* Whatever candidate failed where, every open descriptor is in the hands of the
\* player or of a thread inside open() or close(), and close() leaves nothing open.
NothingLeaks ==
    /\ descriptors = {fd, opened_fd, old_fd} \ {NoFd}
    /\ closer = "done" \/ opener = "failed" => descriptors = {} /\ handles = 0

\* close() gets through its steps.
CloseReturns == (closer \in {"exchange", "drop"}) ~> (closer = "done")

\* "Close audio player to unblock playback thread immediately": after close() the
\* playback thread leaves write_frames(), however long the device has stalled.
CloseUnblocksWriter == (closer = "done") ~> (writer = "idle")

\* The playback thread writes to descriptors and handles that are open.
OpenDeviceUsed ==
    /\ writer = "ioctl" => active_fd \in descriptors
    /\ writer = "writei" => handles > 0

\* A backend without playback pacing is one "whose write_frames() blocks until the
\* device consumes the samples": it holds no more than a period and a packet back.
NoBacklog == staging <= chunk + 1
=============================================================================
