-------------------------- MODULE AudioServerProofs --------------------------
(***************************************************************************)
(* Proofs about AudioServer for any number of clients, any timeout and any *)
(* way of muting.                                                          *)
(***************************************************************************)
EXTENDS AudioServer, TLAPS

USE DEF sessionVars, threadVars, endpointVars

-----------------------------------------------------------------------------
(* The type                                                                *)

\* The actions that touch the speaker or what is known of it.
LEMMA EndpointActions ==
    ASSUME [Next]_vars
    PROVE  \/ UNCHANGED endpointVars
           \/ \E t \in Threads : DisconnectUnmute(t)
           \/ ConnectMute \/ ConnectMuteReinit \/ ControlApply \/ StopRestore \/ User
BY DEF Next, vars, DisconnectStep, DisconnectCheck, DisconnectClear, DisconnectListen,
   NetReceive, NetStep, StopStep, ConnectRejected, ConnectAccepted, ConnectCapture,
   ConnectStream, DisconnectReq, PingCheck, PingStamp, ControlCheck, NetExit,
   WatchdogExpired, WatchdogLock, WatchdogExit, UsbAccept, UsbClosed, UsbExit,
   StopBegin, StopCapture, StopJoin, Tick

\* The parts of the type that concern the speaker.
LEMMA EndpointTypeStep ==
    ASSUME TypeOK, [Next]_vars
    PROVE  EndpointTypeOK'
<1> USE EndpointAssumption, ServerAssumption
        DEF TypeOK, EndpointTypeOK, Settings
<1>1. Silenced(speaker) \in Settings /\ Restored(speaker) \in Settings /\ SavedState \in Settings
  BY DEF Silenced, Restored, SavedState
<1>2. CASE \E t \in Threads : DisconnectUnmute(t)
  <2>1. /\ speaker' \in {Restored(speaker), speaker}
        /\ is_silenced_by_us' \in {FALSE, is_silenced_by_us}
        /\ UNCHANGED <<endpoint_volume, endpoint_stuck, prev, user_speaker, commanded>>
    BY <1>2 DEF DisconnectUnmute, unmute_pc_speaker, endpointVars
  <2> QED
    BY <1>1, <2>1
<1>3. CASE ConnectMute
  BY <1>1, <1>3 DEF ConnectMute, mute_pc_speaker
<1>4. CASE ConnectMuteReinit
  BY <1>1, <1>4 DEF ConnectMuteReinit, mute_pc_speaker
<1>5. CASE ControlApply
  <2>1. CASE command \in [kind : {"mute"}, value : ControlMutes]
    <3>1. command.kind = "mute" /\ command.value \in BOOLEAN
      BY <2>1
    <3> QED
      BY <1>5, <3>1 DEF ControlApply, set_mute
  <2>2. CASE command \in [kind : {"volume"}, value : ControlVolumes]
    <3>1. command.kind = "volume" /\ command.value \in Volumes
      BY <2>2
    <3> QED
      BY <1>5, <3>1 DEF ControlApply, set_volume
  <2>3. CASE command = NoCommand
    BY <1>5, <2>3 DEF ControlApply, NoCommand
  <2> QED
    BY <2>1, <2>2, <2>3 DEF Commands
<1>6. CASE StopRestore
  BY <1>1, <1>6 DEF StopRestore, unmute_and_shutdown
<1>7. CASE User
  BY <1>7 DEF User, UserAdjusts
<1>8. CASE UNCHANGED endpointVars
  BY <1>8
<1> QED
  BY <1>2, <1>3, <1>4, <1>5, <1>6, <1>7, <1>8, EndpointActions

\* The parts of the type that concern the session.
LEMMA SessionTypeStep ==
    ASSUME TypeOK, [Next]_vars
    PROVE  /\ is_running' \in BOOLEAN
           /\ state' \in {"LISTENING", "STREAMING", "STOPPED"}
           /\ active_client' \in Clients \cup {None}
           /\ idle_age' \in 0..AgeCap
           /\ capturing' \in BOOLEAN
<1> USE ServerAssumption DEF TypeOK, AgeCap
<1>1. CASE \E t \in Threads : DisconnectStep(t)
  BY <1>1 DEF DisconnectStep, DisconnectCheck, DisconnectUnmute, DisconnectClear,
     DisconnectListen
<1>2. ASSUME NEW c \in Clients, NetReceive(c)
      PROVE  /\ is_running' = is_running /\ state' = state /\ capturing' = capturing
             /\ active_client' \in {active_client, c}
             /\ idle_age' \in {idle_age, 0}
  BY <1>2 DEF NetReceive, ConnectRejected, ConnectAccepted, DisconnectReq, PingCheck,
     ControlCheck, vars
<1>3. CASE NetStep
  <2>1. CASE ConnectCapture
    BY <2>1, Zenon DEF ConnectCapture
  <2>2. CASE ConnectMute \/ ConnectMuteReinit \/ ControlApply \/ NetExit
    BY <2>2 DEF ConnectMute, ConnectMuteReinit, ControlApply, NetExit
  <2>3. CASE ConnectStream \/ PingStamp
    BY <2>3 DEF ConnectStream, PingStamp
  <2> QED
    BY <1>3, <2>1, <2>2, <2>3 DEF NetStep
<1>4. CASE WatchdogExpired \/ WatchdogLock \/ WatchdogExit \/ UsbAccept \/ UsbClosed \/ UsbExit
  BY <1>4 DEF WatchdogExpired, WatchdogLock, WatchdogExit, UsbAccept, UsbClosed, UsbExit
<1>5. CASE StopBegin \/ StopStep
  BY <1>5 DEF StopBegin, StopStep, StopCapture, StopJoin, StopRestore
<1>6. CASE Tick
  BY <1>6 DEF Tick
<1>7. CASE User \/ UNCHANGED vars
  BY <1>7 DEF User, vars
<1> QED
  BY <1>1, <1>2, <1>3, <1>4, <1>5, <1>6, <1>7 DEF Next

\* The parts of the type that concern the threads.
LEMMA ThreadTypeStep ==
    ASSUME TypeOK, [Next]_vars
    PROVE  /\ client_mutex' \in {"net", "watchdog", None}
           /\ tunnel' \in {"wifi", "none", "up", "down"}
           /\ command' \in Commands \cup {NoCommand}
           /\ pc' \in [Threads -> Labels]
<1> USE DEF TypeOK, Goto
<1>0. \A t, l : t \in Threads /\ l \in Labels => [pc EXCEPT ![t] = l] \in [Threads -> Labels]
  OBVIOUS
<1> DEFINE Go == \E t \in Threads, l \in Labels : Goto(t, l)
<1>a. Go => pc' \in [Threads -> Labels]
  BY <1>0
<1>1. CASE \E t \in Threads : DisconnectStep(t)
  <2>1. PICK t \in Threads : DisconnectStep(t)
    BY <1>1
  <2>2. Go
    BY <2>1 DEF DisconnectStep, DisconnectCheck, DisconnectUnmute, DisconnectClear,
       DisconnectListen, AfterDisconnect, Labels, DisconnectPcs
  <2> HIDE DEF Go
  <2> QED
    BY <1>a, <2>1, <2>2 DEF DisconnectStep, DisconnectCheck, DisconnectUnmute, DisconnectClear,
       DisconnectListen, Unlock
<1>2. CASE \E c \in Clients : NetReceive(c)
  <2>1. Go \/ UNCHANGED pc
    BY <1>2 DEF NetReceive, ConnectRejected, ConnectAccepted, DisconnectReq, PingCheck,
       ControlCheck, vars, Labels, DisconnectPcs, Threads
  <2> HIDE DEF Go
  <2> QED
    BY <1>a, <1>2, <2>1 DEF NetReceive, ConnectRejected, ConnectAccepted, DisconnectReq,
       PingCheck, ControlCheck, vars
<1>3. CASE NetStep
  <2>1. Go
    BY <1>3 DEF NetStep, ConnectCapture, ConnectMute, ConnectMuteReinit, ConnectStream,
       PingStamp, ControlApply, NetExit, Labels, DisconnectPcs, Threads
  <2> HIDE DEF Go
  <2> QED
    BY <1>a, <1>3, <2>1 DEF NetStep, ConnectCapture, ConnectMute, ConnectMuteReinit,
       ConnectStream, PingStamp, ControlApply, NetExit, Unlock
<1>4. CASE WatchdogExpired \/ WatchdogLock \/ WatchdogExit \/ UsbAccept \/ UsbClosed \/ UsbExit
  <2>1. Go
    BY <1>4 DEF WatchdogExpired, WatchdogLock, WatchdogExit, UsbAccept, UsbClosed, UsbExit,
       Labels, DisconnectPcs, Threads
  <2> HIDE DEF Go
  <2> QED
    BY <1>a, <1>4, <2>1 DEF WatchdogExpired, WatchdogLock, WatchdogExit, UsbAccept,
       UsbClosed, UsbExit
<1>5. CASE StopBegin \/ StopStep
  <2>1. Go
    BY <1>5 DEF StopBegin, StopStep, StopCapture, StopJoin, StopRestore,
       Labels, DisconnectPcs, Threads
  <2> HIDE DEF Go
  <2> QED
    BY <1>a, <1>5, <2>1 DEF StopBegin, StopStep, StopCapture, StopJoin, StopRestore
<1>6. CASE Tick \/ User \/ UNCHANGED vars
  BY <1>6 DEF Tick, User, vars
<1> QED
  BY <1>1, <1>2, <1>3, <1>4, <1>5, <1>6 DEF Next

\* The server's state keeps its type whatever the constants: a thread is always
\* at one of its program points and client_mutex_ has one owner or none.
THEOREM ServerTypeCorrect == Spec => []TypeOK
<1>1. Init => TypeOK
  <2> SUFFICES ASSUME Init PROVE TypeOK
    OBVIOUS
  <2> USE EndpointAssumption, ServerAssumption
  <2>1. EndpointTypeOK
    <3>1. PICK ready \in BOOLEAN : EndpointInit(ready)
      BY DEF Init
    <3>2. [mute |-> FALSE, volume |-> FullVolume] \in Settings
      BY DEF Settings
    <3> QED
      BY <3>1, <3>2, Zenon DEF EndpointInit, EndpointTypeOK
  <2>2. pc \in [Threads -> Labels]
    BY DEF Init, Labels
  <2>3. 0 \in 0..AgeCap
    BY DEF AgeCap
  <2> QED
    BY <2>1, <2>2, <2>3, Zenon DEF Init, TypeOK
<1>2. TypeOK /\ [Next]_vars => TypeOK'
  <2> SUFFICES ASSUME TypeOK, [Next]_vars PROVE TypeOK'
    OBVIOUS
  <2>1. /\ EndpointTypeOK'
        /\ AgeCap' = AgeCap
    BY EndpointTypeStep DEF AgeCap
  <2> QED
    BY <2>1, SessionTypeStep, ThreadTypeStep DEF TypeOK, Commands, NoCommand
<1> QED
  BY <1>1, <1>2, PTL DEF Spec

-----------------------------------------------------------------------------
(* Inductive invariants                                                    *)

\* What the server has silenced can be put back: it holds the interface, and the
\* speaker is the user's setting silenced, which Restored undoes.
SpeakerInv ==
    /\ is_silenced_by_us => auto_mute_pc_speaker /\ endpoint_volume
    /\ ~commanded =>
         IF is_silenced_by_us
         THEN prev = user_speaker /\ speaker = Silenced(user_speaker)
         ELSE speaker = user_speaker

\* stop() passes its joins only when the other threads have ended.
JoinInv ==
    /\ pc["stop"] \in {"restore", "done"} => \A t \in Threads \ {"stop"} : pc[t] = "exit"
    /\ state = "STOPPED" => pc["stop"] = "done" /\ ~is_silenced_by_us

\* client_mutex_ is held exactly where the code holds it.
LockInv ==
    /\ client_mutex = "net" <=>
         pc["net"] \in {"capture", "mute", "stream", "stuck"} \cup DisconnectPcs
    /\ client_mutex = "watchdog" <=> pc["watchdog"] \in DisconnectPcs
    /\ tunnel = "wifi" => pc["usb"] = "exit"
    /\ is_running <=> pc["stop"] = "idle"

\* What holds of the session and the speaker at each point of a critical section.
Matches == /\ endpoint_volume => (is_silenced_by_us <=> state = "STREAMING")
           /\ state = "STREAMING" => active_client # None

StageInv ==
    /\ is_silenced_by_us => endpoint_volume
    /\ is_running /\ tunnel = "wifi" =>
         /\ client_mutex = None => Matches
         /\ pc["net"] \in {"capture", "mute"} => Matches
         /\ pc["net"] \in {"capture", "mute", "stream"} => active_client # None
         /\ pc["net"] = "stream" => (endpoint_volume => is_silenced_by_us)
         /\ \A t \in {"net", "watchdog"} :
              /\ pc[t] = "dis_check"  => Matches
              /\ pc[t] = "dis_clear"  => ~is_silenced_by_us
              /\ pc[t] = "dis_listen" => ~is_silenced_by_us /\ active_client = None

-----------------------------------------------------------------------------
(* The speaker                                                             *)

\* Putting back undoes silencing, whatever the method of muting.
LEMMA RestoredUndoesSilenced ==
    ASSUME EndpointTypeOK, prev = user_speaker
    PROVE  Restored(Silenced(user_speaker)) = user_speaker
BY EndpointAssumption DEF EndpointTypeOK, Settings, Restored, Silenced, UsesMute, UsesVolume

LEMMA SpeakerStep ==
    ASSUME TypeOK, SpeakerInv, [Next]_vars
    PROVE  SpeakerInv'
<1>t. EndpointTypeOK
  BY DEF TypeOK
<1>r. is_silenced_by_us /\ ~commanded => Restored(speaker) = user_speaker
  BY <1>t, RestoredUndoesSilenced DEF SpeakerInv
<1>m. mute_pc_speaker /\ auto_mute_pc_speaker /\ endpoint_volume' => SpeakerInv'
  <2> SUFFICES ASSUME mute_pc_speaker, auto_mute_pc_speaker, endpoint_volume'
               PROVE  SpeakerInv'
    OBVIOUS
  <2>1. Silenced(Silenced(user_speaker)) = Silenced(user_speaker)
    BY <1>t, EndpointAssumption DEF EndpointTypeOK, Settings, Silenced, UsesMute, UsesVolume
  <2>2. ~commanded => speaker' = Silenced(user_speaker) /\ prev' = user_speaker
    BY <2>1 DEF mute_pc_speaker, SavedState, SpeakerInv
  <2> QED
    BY <2>2 DEF mute_pc_speaker, SpeakerInv, Silenced, UsesMute, UsesVolume
<1>1. CASE \E t \in Threads : DisconnectUnmute(t)
  BY <1>1, <1>r DEF DisconnectUnmute, unmute_pc_speaker, SpeakerInv, Silenced, UsesMute,
     UsesVolume
<1>2. CASE ConnectMute
  BY <1>2, <1>m DEF ConnectMute, SpeakerInv, Silenced, UsesMute, UsesVolume
<1>3. CASE ConnectMuteReinit
  BY <1>3, <1>m DEF ConnectMuteReinit, SpeakerInv, Silenced, UsesMute, UsesVolume
<1>4. CASE ControlApply
  BY <1>4 DEF ControlApply, set_mute, set_volume, SpeakerInv
<1>5. CASE StopRestore
  BY <1>5, <1>r DEF StopRestore, unmute_and_shutdown, SpeakerInv, Silenced, UsesMute, UsesVolume
<1>6. CASE User
  BY <1>6 DEF User, UserAdjusts, SpeakerInv, Silenced
<1>7. CASE UNCHANGED endpointVars
  BY <1>7 DEF SpeakerInv, Silenced, UsesMute, UsesVolume
<1> QED
  BY <1>1, <1>2, <1>3, <1>4, <1>5, <1>6, <1>7, EndpointActions

-----------------------------------------------------------------------------
(* stop() against the other threads                                        *)

LEMMA JoinStep ==
    ASSUME TypeOK, SpeakerInv, JoinInv, [Next]_vars
    PROVE  JoinInv'
<1> USE DEF TypeOK, JoinInv, Threads, Goto
<1>1. CASE \E t \in Threads : DisconnectStep(t)
  BY <1>1 DEF DisconnectStep, DisconnectCheck, DisconnectUnmute, DisconnectClear,
     DisconnectListen, AfterDisconnect, unmute_pc_speaker
<1>2. CASE \E c \in Clients : NetReceive(c)
  BY <1>2 DEF NetReceive, ConnectRejected, ConnectAccepted, DisconnectReq, PingCheck,
     ControlCheck, Receives, vars
<1>3. CASE NetStep
  <2>1. CASE ConnectMute \/ ConnectMuteReinit
    BY <2>1 DEF ConnectMute, ConnectMuteReinit
  <2>2. CASE ControlApply
    BY <2>2 DEF ControlApply, set_mute, set_volume
  <2>3. CASE ConnectCapture \/ ConnectStream \/ PingStamp \/ NetExit
    BY <2>3 DEF ConnectCapture, ConnectStream, PingStamp, NetExit
  <2> QED
    BY <1>3, <2>1, <2>2, <2>3 DEF NetStep
<1>4. CASE WatchdogExpired \/ WatchdogLock \/ WatchdogExit
  BY <1>4 DEF WatchdogExpired, WatchdogLock, WatchdogExit
<1>5. CASE UsbAccept \/ UsbClosed \/ UsbExit
  BY <1>5 DEF UsbAccept, UsbClosed, UsbExit
<1>6. CASE StopBegin \/ StopCapture \/ StopJoin
  BY <1>6 DEF StopBegin, StopCapture, StopJoin
<1>7. CASE StopRestore
  BY <1>7 DEF StopRestore, unmute_and_shutdown, SpeakerInv
<1>8. CASE Tick \/ UNCHANGED vars
  BY <1>8 DEF Tick, vars
<1>9. CASE User
  BY <1>9 DEF User, UserAdjusts
<1> QED
  BY <1>1, <1>2, <1>3, <1>4, <1>5, <1>6, <1>7, <1>8, <1>9 DEF Next, StopStep

LEMMA SpecSpeakerInv == Spec => [](SpeakerInv /\ JoinInv)
<1>1. Init => SpeakerInv /\ JoinInv
  BY DEF Init, EndpointInit, SpeakerInv, JoinInv, Threads
<1>2. TypeOK /\ SpeakerInv /\ JoinInv /\ [Next]_vars => SpeakerInv' /\ JoinInv'
  BY SpeakerStep, JoinStep
<1> QED
  BY <1>1, <1>2, ServerTypeCorrect, PTL DEF Spec

\* Unless a client's control command has changed it since, the speaker is the
\* user's whenever the server does not silence it, and what mute_pc_speaker has
\* saved is the user's setting - for any number of clients, any way of muting, over
\* Wi-Fi and over USB (where the relay disconnects without client_mutex_), and with
\* an endpoint that comes and goes.
THEOREM SpeakerAlwaysRestorable == Spec => []UserSettingKept
<1>1. SpeakerInv /\ JoinInv => UserSettingKept
  BY DEF SpeakerInv, JoinInv, UserSettingKept
<1> QED
  BY <1>1, SpecSpeakerInv, PTL

\* When stop() has returned, whichever thread it has joined and whatever that one was
\* doing, the speaker is no longer silenced, and it is the user's again unless a client has
\* set it.
THEOREM StopAlwaysRestores == Spec => []StoppedRestores
<1>1. SpeakerInv /\ JoinInv => StoppedRestores
  BY DEF SpeakerInv, JoinInv, StoppedRestores
<1> QED
  BY <1>1, SpecSpeakerInv, PTL

-----------------------------------------------------------------------------
(* The session against the speaker, over Wi-Fi                             *)

LEMMA LockStep ==
    ASSUME TypeOK, LockInv, [Next]_vars
    PROVE  LockInv'
<1> USE ServerAssumption DEF TypeOK, LockInv, Threads, Goto, DisconnectPcs
<1>1. ASSUME NEW t \in Threads, DisconnectCheck(t) \/ DisconnectListen(t)
      PROVE  LockInv'
  BY <1>1 DEF DisconnectCheck, DisconnectListen, AfterDisconnect, Unlock
<1>2. ASSUME NEW t \in Threads, DisconnectUnmute(t) \/ DisconnectClear(t)
      PROVE  LockInv'
  BY <1>2 DEF DisconnectUnmute, DisconnectClear
<1>3. CASE \E c \in Clients : NetReceive(c)
  BY <1>3 DEF NetReceive, ConnectRejected, ConnectAccepted, DisconnectReq, PingCheck,
     ControlCheck, Receives, vars
<1>4. CASE ConnectMute \/ ConnectMuteReinit
  BY <1>4 DEF ConnectMute, ConnectMuteReinit
<1>5. CASE ConnectCapture \/ ConnectStream
  BY <1>5 DEF ConnectCapture, ConnectStream, Unlock
<1>6. CASE PingStamp \/ ControlApply \/ NetExit
  BY <1>6 DEF PingStamp, ControlApply, NetExit
<1>7. CASE WatchdogExpired \/ WatchdogLock \/ WatchdogExit
  BY <1>7 DEF WatchdogExpired, WatchdogLock, WatchdogExit
<1>8. CASE UsbAccept \/ UsbClosed \/ UsbExit
  BY <1>8 DEF UsbAccept, UsbClosed, UsbExit
<1>9. CASE StopBegin \/ StopStep
  BY <1>9 DEF StopBegin, StopStep, StopCapture, StopJoin, StopRestore
<1>10. CASE Tick \/ User \/ UNCHANGED vars
  BY <1>10 DEF Tick, User, vars
<1> QED
  BY <1>1, <1>2, <1>3, <1>4, <1>5, <1>6, <1>7, <1>8, <1>9, <1>10
     DEF Next, DisconnectStep, NetStep

LEMMA StageStep ==
    ASSUME auto_mute_pc_speaker, TypeOK, LockInv, StageInv, [Next]_vars
    PROVE  StageInv'
<1> USE ServerAssumption DEF TypeOK, LockInv, StageInv, Matches, Threads, Goto, DisconnectPcs
<1>1. ASSUME NEW t \in Threads, DisconnectCheck(t)
      PROVE  StageInv'
  BY <1>1 DEF DisconnectCheck, AfterDisconnect, Unlock
<1>2. ASSUME NEW t \in Threads, DisconnectUnmute(t)
      PROVE  StageInv'
  BY <1>2 DEF DisconnectUnmute, unmute_pc_speaker
<1>3. ASSUME NEW t \in Threads, DisconnectClear(t)
      PROVE  StageInv'
  BY <1>3 DEF DisconnectClear
<1>4. ASSUME NEW t \in Threads, DisconnectListen(t)
      PROVE  StageInv'
  BY <1>4 DEF DisconnectListen, AfterDisconnect, Unlock
<1>5. ASSUME NEW c \in Clients, NetReceive(c)
      PROVE  StageInv'
  <2>1. CASE ConnectAccepted(c)
    BY <2>1 DEF ConnectAccepted, Receives
  <2>2. CASE DisconnectReq(c)
    BY <2>2 DEF DisconnectReq, Receives
  <2>3. CASE PingCheck(c) \/ ControlCheck(c) \/ ConnectRejected(c)
    BY <2>3 DEF PingCheck, ControlCheck, ConnectRejected, Receives, vars
  <2> QED
    BY <1>5, <2>1, <2>2, <2>3 DEF NetReceive
<1>6. CASE ConnectCapture
  BY <1>6 DEF ConnectCapture, Unlock
<1>7. CASE ConnectMute
  BY <1>7 DEF ConnectMute, mute_pc_speaker
<1>8. CASE ConnectMuteReinit
  BY <1>8 DEF ConnectMuteReinit, mute_pc_speaker
<1>9. CASE ConnectStream
  BY <1>9 DEF ConnectStream, Unlock
<1>10. CASE PingStamp \/ NetExit
  BY <1>10 DEF PingStamp, NetExit
<1>11. CASE ControlApply
  BY <1>11 DEF ControlApply, set_mute, set_volume
<1>12. CASE WatchdogExpired \/ WatchdogLock \/ WatchdogExit
  BY <1>12 DEF WatchdogExpired, WatchdogLock, WatchdogExit
<1>13. CASE UsbAccept \/ UsbClosed \/ UsbExit
  BY <1>13 DEF UsbAccept, UsbClosed, UsbExit
<1>14. CASE StopBegin \/ StopCapture \/ StopJoin
  BY <1>14 DEF StopBegin, StopCapture, StopJoin
<1>15. CASE StopRestore
  BY <1>15 DEF StopRestore, unmute_and_shutdown
<1>16. CASE Tick \/ UNCHANGED vars
  BY <1>16 DEF Tick, vars
<1>17. CASE User
  BY <1>17 DEF User, UserAdjusts
<1> QED
  BY <1>1, <1>2, <1>3, <1>4, <1>5, <1>6, <1>7, <1>8, <1>9, <1>10, <1>11, <1>12, <1>13,
     <1>14, <1>15, <1>16, <1>17
     DEF Next, DisconnectStep, NetStep, StopStep

\* Over Wi-Fi client_mutex_ is enough: between two critical sections of a running
\* server the speaker is silenced exactly while a client is being served, for any
\* number of clients and any control commands.
THEOREM WifiMuteMatchesSession == Spec => []MuteMatchesSession
<1>1. CASE ~auto_mute_pc_speaker
  <2>1. ~auto_mute_pc_speaker => MuteMatchesSession
    BY DEF MuteMatchesSession
  <2> QED
    BY <1>1, <2>1, PTL
<1>2. CASE auto_mute_pc_speaker
  <2>1. Init => LockInv /\ StageInv
    BY ServerAssumption DEF Init, EndpointInit, LockInv, StageInv, Matches, DisconnectPcs,
       Threads, usb_mode
  <2>2. TypeOK /\ LockInv /\ StageInv /\ [Next]_vars => LockInv' /\ StageInv'
    BY <1>2, LockStep, StageStep
  <2>3. StageInv => MuteMatchesSession
    BY DEF StageInv, Matches, MuteMatchesSession, usb_mode
  <2> QED
    BY <2>1, <2>2, <2>3, ServerTypeCorrect, PTL DEF Spec
<1> QED
  BY <1>1, <1>2
=============================================================================
