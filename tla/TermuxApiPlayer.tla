-------------------------- MODULE TermuxApiPlayer --------------------------
(***************************************************************************)
(* The Termux:API backend (client/termux_api_player.cpp).  The playback    *)
(* thread records the stream into a small pool of WAV files; a file that   *)
(* holds its prefill is handed through a one-place slot to the issuer      *)
(* thread, which tells the Termux:API app to play it; a watchdog thread    *)
(* asks the app how it is and restarts the recording at live audio when    *)
(* the app has no track.  write_frames() and every discard run under       *)
(* io_mutex_, so each is one action.                                       *)
(*                                                                         *)
(* The app is external: a command may be lost, be executed without an      *)
(* answer, or take as long as it likes.  Time is the number of files that  *)
(* the recorder opens meanwhile; nothing here bounds it, and KeepsPace     *)
(* says for which commands a property is claimed.                          *)
(***************************************************************************)
EXTENDS Integers

CONSTANTS
    kPoolSize,      \* files in the pool
    Prefill,        \* chunks that a file holds before it is handed over
    SegmentChunks,  \* chunks in a full file
    Reliability     \* may the app and the disk be reliable, unreliable, or either?

ASSUME TermuxAssumption ==
    /\ kPoolSize \in Nat \ (0 .. 2)
    /\ SegmentChunks \in Nat
    /\ Prefill \in 1 .. SegmentChunks
    /\ Reliability \subseteq BOOLEAN

Slots == 0 .. kPoolSize - 1
None == -1

VARIABLES
    is_open, stop_issuer, stop_watchdog, result_channel,
    no_result,    \* consecutive_no_result_, at most 2
    seg,          \* the file being recorded, None when seg_fd_ < 0
    seg_index,    \* modulo kPoolSize
    seg_frames, seg_issued,
    pending,      \* the slot between recorder and issuer
    issuer, job,  \* the issuer thread and the file it plays
    prev_path,    \* the file of its previously confirmed play
    watchdog, closer,
    issued,       \* issued_frames_ > 0
    recorded,     \* of each file: chunks in it, None when it has no header
    track,        \* the app: "none", "playing", or "paused"
    reliable      \* do the app and the disk do what they are told? fixed for a behaviour

recorder == <<seg, seg_index, seg_frames, seg_issued>>
flags == <<is_open, stop_issuer, stop_watchdog>>
channel == <<result_channel, no_result>>
app == <<track, reliable>>
vars == <<flags, channel, recorder, pending, issuer, job, prev_path, watchdog, closer,
          issued, recorded, app>>

TypeOK ==
    /\ is_open \in BOOLEAN /\ stop_issuer \in BOOLEAN /\ stop_watchdog \in BOOLEAN
    /\ result_channel \in BOOLEAN /\ no_result \in 0 .. 2
    /\ seg \in Slots \cup {None} /\ seg_index \in Slots
    /\ seg_frames \in 0 .. SegmentChunks /\ seg_issued \in BOOLEAN
    /\ pending \in Slots \cup {None}
    /\ issuer \in {"check", "deciding", "asleep", "play", "exited"}
    /\ job \in Slots \cup {None} /\ prev_path \in Slots \cup {None}
    /\ watchdog \in {"sleep", "info", "exited"}
    /\ closer \in {"idle", "joinWatchdog", "notify", "joinIssuer", "closed"}
    /\ issued \in BOOLEAN
    /\ recorded \in [Slots -> {None} \cup (0 .. SegmentChunks)]
    /\ track \in {"none", "playing", "paused"} /\ reliable \in Reliability

Init ==
    /\ is_open = FALSE /\ stop_issuer = FALSE /\ stop_watchdog = FALSE
    /\ result_channel = TRUE /\ no_result = 0
    /\ seg = None /\ seg_index = 0 /\ seg_frames = 0 /\ seg_issued = FALSE
    /\ pending = None
    /\ issuer = "exited" /\ job = None /\ prev_path = None
    /\ watchdog = "exited" /\ closer = "closed"
    /\ issued = FALSE
    /\ recorded = [s \in Slots |-> None]
    /\ track = "none" /\ reliable \in Reliability

\* open(): the probe decides whether there is a result channel, and so
\* whether there is a watchdog.  A failing probe leaves the player closed.
Open ==
    /\ closer = "closed"
    /\ is_open' = TRUE /\ stop_issuer' = FALSE /\ stop_watchdog' = FALSE
    /\ result_channel' \in {TRUE, reliable}
    /\ no_result' = 0
    /\ seg' = None /\ seg_index' = 0 /\ seg_frames' = 0
    /\ pending' = None
    /\ issuer' = "check" /\ prev_path' = None
    /\ watchdog' = IF result_channel' THEN "sleep" ELSE "exited"
    /\ closer' = "idle"
    /\ issued' = FALSE
    /\ UNCHANGED <<seg_issued, job, recorded, app>>

-----------------------------------------------------------------------------
(* Recording: write_frames() under io_mutex_.                              *)

NextSlot(i) == (i + 1) % kPoolSize

\* The contents of the files.  They decide nothing but what the app plays, and an
\* unreliable app may play any of them or none: so they are only kept for the reliable one.
Files(files) == IF reliable THEN files ELSE recorded

\* handoff_mutex_ is the issuer's from its predicate until it sleeps.
HandoffFree == issuer /= "deciding"

\* Mutant: the slot is filled without handoff_mutex_.
HandOverUnlocked(file) ==
    /\ pending' = file
    /\ issuer' = IF issuer = "asleep" THEN "check" ELSE issuer

\* finalize_segment_locked(): a fresher file replaces one still waiting.
HandOver(file) ==
    /\ HandoffFree
    /\ pending' = file
    /\ issuer' = IF issuer = "asleep" THEN "check" ELSE issuer

\* The handover of this file, if it is due; it happens once per file.
HandOverIfReady(file, frames, done) ==
    IF ~done /\ frames >= Prefill
    THEN HandOver(file)
    ELSE UNCHANGED <<pending, issuer>>

\* A chunk for the file that is open; it stays open.
WriteOn ==
    /\ is_open /\ seg /= None /\ seg_frames + 1 < SegmentChunks
    /\ seg_frames' = seg_frames + 1
    /\ recorded' = Files([recorded EXCEPT ![seg] = IF @ = None THEN None ELSE seg_frames + 1])
    /\ HandOverIfReady(seg, seg_frames + 1, seg_issued)
    /\ seg_issued' = (seg_issued \/ seg_frames + 1 >= Prefill)
    /\ UNCHANGED <<flags, channel, seg, seg_index, job, prev_path, watchdog, closer, issued,
                   app>>

\* open_next_segment_locked(), after the writes that left the files and the fields so.
\* It may fail when it has moved on to the next file.
OpenNext(files, frames, handed) ==
    /\ seg_index' = NextSlot(seg_index)
    /\ \/ seg' = seg_index' /\ seg_frames' = 0 /\ seg_issued' = FALSE
       \/ ~reliable /\ seg' = None /\ seg_frames' = frames /\ seg_issued' = handed
    /\ recorded' = Files([files EXCEPT ![seg_index'] = 0])

\* The chunk that completes the file: the next one is opened.
WriteFull ==
    /\ is_open /\ seg /= None /\ seg_frames + 1 >= SegmentChunks
    /\ HandOverIfReady(seg, SegmentChunks, seg_issued)
    /\ OpenNext([recorded EXCEPT ![seg] = IF @ = None THEN None ELSE SegmentChunks],
                SegmentChunks, TRUE)
    /\ UNCHANGED <<flags, channel, job, prev_path, watchdog, closer, issued, app>>

\* Mutant: after a discard the same file is opened again.
OpenFileSame ==
    /\ is_open /\ seg = None
    /\ UNCHANGED seg_index
    /\ seg' = seg_index /\ seg_frames' = 0 /\ seg_issued' = FALSE
    /\ recorded' = Files([recorded EXCEPT ![seg_index] = 0])
    /\ UNCHANGED <<flags, channel, pending, issuer, job, prev_path, watchdog, closer, issued,
                   app>>

\* The first chunk after an open(), a discard or a failed rotation opens a
\* file; the chunk itself is WriteOn's.
OpenFile ==
    /\ is_open /\ seg = None
    /\ OpenNext(recorded, seg_frames, seg_issued)
    /\ UNCHANGED <<flags, channel, pending, issuer, job, prev_path, watchdog, closer, issued,
                   app>>

\* discard_segment_locked(): the next write opens a fresh file.
Discard == seg' = None /\ seg_frames' = 0 /\ seg_issued' = FALSE /\ UNCHANGED seg_index

WriteFails ==
    /\ ~reliable
    /\ is_open /\ seg /= None
    /\ Discard
    /\ UNCHANGED <<flags, channel, pending, issuer, job, prev_path, watchdog, closer, issued,
                   recorded, app>>

-----------------------------------------------------------------------------
(* issuer_loop()                                                           *)

\* The wait's predicate, under handoff_mutex_.
IssuerCheck ==
    /\ issuer = "check"
    /\ \/ /\ stop_issuer
          /\ issuer' = "exited"
          /\ UNCHANGED <<pending, job>>
       \/ /\ ~stop_issuer /\ pending /= None
          /\ job' = pending /\ pending' = None
          /\ issuer' = "play"
       \/ /\ ~stop_issuer /\ pending = None
          /\ issuer' = "deciding"
          /\ UNCHANGED <<pending, job>>
    /\ UNCHANGED <<flags, channel, recorder, prev_path, watchdog, closer, issued, recorded,
                   app>>

\* Only now can a notification reach it.
IssuerSleep ==
    /\ issuer = "deciding"
    /\ issuer' = "asleep"
    /\ UNCHANGED <<flags, channel, recorder, pending, job, prev_path, watchdog, closer,
                   issued, recorded, app>>

\* What the app makes of the play command: the file, or nothing if the file
\* has no header or the app fails.
AppPlays ==
    \/ track' = "playing" /\ (reliable => recorded[job] /= None)
    \/ track' = "none" /\ (reliable => recorded[job] = None)

\* The app confirmed: the file before this one is no longer needed.
PlayConfirmed ==
    /\ issuer = "play" /\ result_channel
    /\ AppPlays
    /\ issued' = TRUE /\ no_result' = 0
    /\ recorded' = IF prev_path \in Slots \ {job}
                   THEN Files([recorded EXCEPT ![prev_path] = None]) ELSE recorded
    /\ prev_path' = job
    /\ issuer' = "check" /\ job' = None
    /\ UNCHANGED <<flags, result_channel, recorder, pending, watchdog, closer, reliable>>

\* Delivered without a result, always so in blind mode; the second time in a
\* row the result channel is given up.
PlayUnconfirmed ==
    /\ issuer = "play" /\ (~reliable \/ ~result_channel)
    /\ AppPlays
    /\ issued' = TRUE
    /\ no_result' = IF no_result < 2 THEN no_result + 1 ELSE 2
    /\ result_channel' = (result_channel /\ no_result' < 2)
    /\ issuer' = "check" /\ job' = None
    /\ UNCHANGED <<flags, recorder, pending, prev_path, watchdog, closer, recorded,
                   reliable>>

\* Not delivered: recording restarts at live audio.
PlayFailed ==
    /\ issuer = "play" /\ ~reliable
    /\ IF is_open /\ seg_frames > 0 THEN Discard ELSE UNCHANGED recorder
    /\ issuer' = "check" /\ job' = None
    /\ UNCHANGED <<flags, channel, pending, prev_path, watchdog, closer, issued, recorded,
                   app>>

-----------------------------------------------------------------------------
(* watchdog_loop()                                                         *)

WatchdogWakes ==
    /\ watchdog = "sleep"
    /\ \/ (stop_watchdog \/ ~is_open) /\ watchdog' = "exited"
       \/ ~stop_watchdog /\ is_open /\ result_channel /\ issued /\ watchdog' = "info"
    /\ UNCHANGED <<flags, channel, recorder, pending, issuer, job, prev_path, closer, issued,
                   recorded, app>>

WatchdogResume ==
    /\ watchdog = "info" /\ track = "paused"
    /\ \/ track' = "playing"
       \/ ~reliable /\ UNCHANGED track
    /\ watchdog' = "sleep"
    /\ UNCHANGED <<flags, channel, recorder, pending, issuer, job, prev_path, closer, issued,
                   recorded, reliable>>

\* Mutant: a file already handed over is left alone, so nothing restarts.
WatchdogRecoverUnissued ==
    /\ watchdog = "info" /\ track = "none"
    /\ IF is_open /\ seg_frames > 0 /\ ~seg_issued THEN Discard ELSE UNCHANGED recorder
    /\ watchdog' = "sleep"
    /\ UNCHANGED <<flags, channel, pending, issuer, job, prev_path, closer, issued, recorded,
                   app>>

\* "No track": recording restarts at live audio, so that a file is handed
\* over again.
WatchdogRecover ==
    /\ watchdog = "info" /\ track = "none"
    /\ IF is_open /\ seg_frames > 0 THEN Discard ELSE UNCHANGED recorder
    /\ watchdog' = "sleep"
    /\ UNCHANGED <<flags, channel, pending, issuer, job, prev_path, closer, issued, recorded,
                   app>>

\* The app plays, does not answer, or was restarted less than 3 s ago.
WatchdogNothing ==
    /\ watchdog = "info"
    /\ watchdog' = "sleep"
    /\ UNCHANGED <<flags, channel, recorder, pending, issuer, job, prev_path, closer, issued,
                   recorded, app>>

-----------------------------------------------------------------------------
(* close()                                                                 *)

CloseBegin ==
    /\ closer = "idle"
    /\ stop_watchdog' = TRUE
    /\ closer' = "joinWatchdog"
    /\ UNCHANGED <<is_open, stop_issuer, channel, recorder, pending, issuer, job, prev_path,
                   watchdog, issued, recorded, app>>

\* stop_issuer_ is set without handoff_mutex_.
CloseStopIssuer ==
    /\ closer = "joinWatchdog" /\ watchdog = "exited"
    /\ stop_issuer' = TRUE
    /\ closer' = "notify"
    /\ UNCHANGED <<is_open, stop_watchdog, channel, recorder, pending, issuer, job,
                   prev_path, watchdog, issued, recorded, app>>

CloseNotify ==
    /\ closer = "notify"
    /\ issuer' = IF issuer = "asleep" THEN "check" ELSE issuer
    /\ closer' = "joinIssuer"
    /\ UNCHANGED <<flags, channel, recorder, pending, job, prev_path, watchdog, issued,
                   recorded, app>>

CloseJoinIssuer ==
    /\ closer = "joinIssuer" /\ issuer = "exited"
    /\ is_open' = FALSE
    /\ track' \in IF issued THEN {"none", track} ELSE {track}
    /\ seg' = None /\ seg_frames' = 0
    /\ issued' = FALSE
    /\ pending' = None
    /\ closer' = "closed"
    /\ UNCHANGED <<stop_issuer, stop_watchdog, channel, seg_index, seg_issued, issuer, job,
                   prev_path, watchdog, recorded, reliable>>

-----------------------------------------------------------------------------
(* The app: killed, at the end of its file, or without audio focus.        *)

AppLosesTrack ==
    /\ track /= "none"
    /\ track' = "none"
    /\ UNCHANGED <<flags, channel, recorder, pending, issuer, job, prev_path, watchdog,
                   closer, issued, recorded, reliable>>

AppPauses ==
    /\ track = "playing"
    /\ track' = "paused"
    /\ UNCHANGED <<flags, channel, recorder, pending, issuer, job, prev_path, watchdog,
                   closer, issued, recorded, reliable>>

Write == WriteOn \/ OpenFile
Issuer == IssuerCheck \/ IssuerSleep \/ PlayConfirmed \/ PlayUnconfirmed \/ PlayFailed
Watchdog == WatchdogWakes \/ WatchdogResume \/ WatchdogRecover \/ WatchdogNothing
Close == CloseStopIssuer \/ CloseNotify \/ CloseJoinIssuer

Next ==
    \/ Open \/ WriteOn \/ WriteFull \/ OpenFile \/ WriteFails
    \/ IssuerCheck \/ IssuerSleep \/ PlayConfirmed \/ PlayUnconfirmed \/ PlayFailed
    \/ WatchdogWakes \/ WatchdogResume \/ WatchdogRecover \/ WatchdogNothing
    \/ CloseBegin \/ CloseStopIssuer \/ CloseNotify \/ CloseJoinIssuer
    \/ AppLosesTrack \/ AppPauses

\* The threads run and every command ends; the playback thread may stop
\* writing once the player is being closed, as it does when the client stops,
\* and nothing counts on the end of a file, ten minutes away.
\* The watchdog looks once a second: an app that is paused or without a track
\* is found so, and the 3 s between two recoveries pass.
Fairness ==
    /\ WF_vars(closer = "idle" /\ Write)
    /\ WF_vars(Issuer) /\ WF_vars(Watchdog) /\ WF_vars(Close)
    /\ SF_vars(WatchdogResume) /\ SF_vars(WatchdogRecover)

Spec == Init /\ [][Next]_vars /\ Fairness

-----------------------------------------------------------------------------
(* Properties                                                              *)

\* The issuer never sleeps through a handover: while a file waits for it, it
\* is awake or busy, although it takes its decision to sleep first and sleeps
\* later.
HandoverNotMissed == pending /= None => issuer \notin {"deciding", "asleep"}

\* How many files the recorder has opened since it opened this one.
Age(index, file) == IF file <= index THEN index - file ELSE index - file + kPoolSize

\* What the pool has room for, of every two commands in a row: 1 for the code's 4 files.
CommandSlack == (kPoolSize - 2) \div 2

\* Time, as a premise: while a file waits or is told to be played the recorder opens at
\* most so many files after it; and the issuer soon gets and takes the next one, before
\* the recorder is that of the pool's room and one file more ahead of the last.
KeepsPace(files) ==
    /\ \A f \in {pending, job} \ {None} : Age(seg_index, f) <= files
    /\ job = None /\ prev_path /= None => Age(seg_index, prev_path) <= CommandSlack + 1

\* The file that is recorded, the one that waits and the one that the app is told to
\* play are intact: nobody has truncated them, and the last two hold their prefill.
FilesIntact ==
    /\ seg /= None => recorded[seg] = seg_frames
    /\ pending /= None => recorded[pending] >= Prefill
    /\ issuer = "play" => recorded[job] >= Prefill

\* They are so as long as the app and the disk do what they are told, and commands are
\* not slower than the pool has room for.
ReliableFilesIntact == reliable /\ []KeepsPace(CommandSlack) => []FilesIntact

\* "The segment must comfortably exceed prefill + command latency so the file ring never
\* collides", but kMinSegmentMs allows 2 s and kPlayTimeoutMs a command of 5 s, which
\* outlasts two files.  Not so: the second such command truncates the file that is
\* recorded.
RingNeverCollides == reliable /\ []KeepsPace(2) => []FilesIntact

\* With an app that answers, and in the end fast enough, playback that was lost or paused
\* comes back, as long as the player is open and its files are being written: the
\* watchdog resumes or restarts it, whatever was in the handoff slot at that moment.
PlaybackRecovers ==
    reliable /\ <>[]KeepsPace(CommandSlack) =>
        (closer = "idle" ~> (track = "playing" \/ closer /= "idle"))

\* close() returns.
CloseReturns == closer = "joinWatchdog" ~> closer = "closed"
=============================================================================
