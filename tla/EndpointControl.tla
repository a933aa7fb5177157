--------------------------- MODULE EndpointControl ---------------------------
(***************************************************************************)
(* The PC speaker control of the server                                    *)
(* (src/server/audio_endpoint_control.{hpp,cpp}, the Windows branches).    *)
(*                                                                         *)
(* Every operation holds the object's mutex_ from start to end and is one  *)
(* action.  The mutex is not recursive and mute_pc_speaker calls init()    *)
(* while holding it; endpoint_stuck says that a thread has blocked there,  *)
(* after which no operation can start.  Failing COM calls other than init  *)
(* are left out: their results only reach the log and an ACK field.        *)
(***************************************************************************)
EXTENDS Integers

CONSTANTS
    mute_method,    \* "EndpointMute", "VolumeZero" or "Both" (--mute-mode)
    Volumes,        \* master volume levels, 0 being silence
    FullVolume      \* 1.0, what prev_volume_level_ starts with

ASSUME EndpointAssumption ==
    /\ mute_method \in {"EndpointMute", "VolumeZero", "Both"}
    /\ Volumes \subseteq Nat
    /\ 0 \in Volumes
    /\ FullVolume \in Volumes

VARIABLES
    endpoint_volume,    \* is the COM interface held?
    endpoint_stuck,     \* has a thread locked mutex_ a second time?
    is_silenced_by_us,
    prev,               \* prev_mute_state_ and prev_volume_level_
    speaker,            \* what Windows holds: [mute, volume]
    user_speaker,       \* history: what the user last set, us apart
    commanded           \* history: has a client set the speaker since then?

endpointVars == <<endpoint_volume, endpoint_stuck, is_silenced_by_us, prev,
                  speaker, user_speaker, commanded>>

Settings == [mute : BOOLEAN, volume : Volumes]

EndpointTypeOK ==
    /\ endpoint_volume \in BOOLEAN
    /\ endpoint_stuck \in BOOLEAN
    /\ is_silenced_by_us \in BOOLEAN
    /\ prev \in Settings
    /\ speaker \in Settings
    /\ user_speaker \in Settings
    /\ commanded \in BOOLEAN

\* The constructor, then init() with the given result.
EndpointInit(ready) ==
    /\ endpoint_volume = ready
    /\ endpoint_stuck = FALSE
    /\ is_silenced_by_us = FALSE
    /\ speaker \in Settings
    /\ user_speaker = speaker
    /\ commanded = FALSE
    /\ prev = [mute |-> FALSE, volume |-> FullVolume]

UsesMute   == mute_method \in {"EndpointMute", "Both"}
UsesVolume == mute_method \in {"VolumeZero", "Both"}

Silenced(s) == [mute   |-> s.mute \/ UsesMute,
                volume |-> IF UsesVolume THEN 0 ELSE s.volume]

\* Only what the method changed is put back.
Restored(s) == [mute   |-> IF UsesMute THEN prev.mute ELSE s.mute,
                volume |-> IF UsesVolume THEN prev.volume ELSE s.volume]

\* Mutant: every call saves, so a repeated connect saves the silenced state.
SaveAlways == speaker

\* The state to come back to is read once per silenced period.
SavedState == IF is_silenced_by_us THEN prev ELSE speaker

mute_pc_speaker ==
    /\ ~endpoint_stuck
    /\ prev' = SavedState
    /\ speaker' = Silenced(speaker)
    /\ is_silenced_by_us' = TRUE
    /\ UNCHANGED <<endpoint_stuck, user_speaker, commanded>>

unmute_pc_speaker ==
    /\ ~endpoint_stuck
    /\ IF is_silenced_by_us /\ endpoint_volume
       THEN speaker' = Restored(speaker) /\ is_silenced_by_us' = FALSE
       ELSE UNCHANGED <<speaker, is_silenced_by_us>>
    /\ UNCHANGED <<endpoint_volume, endpoint_stuck, prev, user_speaker, commanded>>

set_mute(mute) ==
    /\ ~endpoint_stuck
    /\ speaker' = IF endpoint_volume THEN [speaker EXCEPT !.mute = mute] ELSE speaker
    /\ commanded' = TRUE
    /\ UNCHANGED <<endpoint_volume, endpoint_stuck, is_silenced_by_us, prev, user_speaker>>

set_volume(volume) ==
    /\ ~endpoint_stuck
    /\ speaker' = IF endpoint_volume THEN [speaker EXCEPT !.volume = volume] ELSE speaker
    /\ commanded' = TRUE
    /\ UNCHANGED <<endpoint_volume, endpoint_stuck, is_silenced_by_us, prev, user_speaker>>

\* stop() calls unmute_pc_speaker() and then shutdown(), which restores again if
\* still silenced and releases the interface.
unmute_and_shutdown ==
    /\ ~endpoint_stuck
    /\ speaker' = IF is_silenced_by_us /\ endpoint_volume THEN Restored(speaker) ELSE speaker
    /\ is_silenced_by_us' = FALSE
    /\ endpoint_volume' = FALSE
    /\ UNCHANGED <<endpoint_stuck, prev, user_speaker, commanded>>

\* The user turns the PC's volume knob while the speaker is theirs.
UserAdjusts ==
    /\ ~is_silenced_by_us
    /\ speaker' \in Settings
    /\ user_speaker' = speaker'
    /\ commanded' = FALSE
    /\ UNCHANGED <<endpoint_volume, endpoint_stuck, is_silenced_by_us, prev>>

\* The user's setting is never lost: the speaker is as the user set it, or is
\* silenced by the server and what unmute_pc_speaker will put back is what the
\* user had set, also after repeated or overlapping connects.  Only a client's
\* control command makes a difference, until the user's next change.
UserSettingKept ==
    ~commanded => user_speaker = IF is_silenced_by_us THEN prev ELSE speaker

\* What audio_endpoint_control.hpp promises of unmute_pc_speaker: it "restores PC
\* speaker to its exact pre-connection state".
UnmuteIsExact ==
    [][is_silenced_by_us /\ ~is_silenced_by_us' => speaker' = user_speaker]_endpointVars
=============================================================================
