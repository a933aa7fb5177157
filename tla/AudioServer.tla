----------------------------- MODULE AudioServer -----------------------------
(***************************************************************************)
(* The server's session control (src/server/server.{hpp,cpp}): the network *)
(* thread's handlers, the watchdog, the USB relay's disconnect and stop(), *)
(* interleaved at every access to the session state they share.            *)
(*                                                                         *)
(* client_mutex_ protects handle_connect_req, handle_disconnect_req and    *)
(* the watchdog's disconnect; the pings, the control commands, the USB     *)
(* relay and stop() touch the same state without it.  disconnect_client is *)
(* one set of actions that any thread runs.                                *)
(*                                                                         *)
(* The network thread takes any message of any client at any time: UDP     *)
(* loses, repeats and delays.  Replies are not modelled, nothing here      *)
(* reads them.                                                             *)
(***************************************************************************)
EXTENDS EndpointControl

CONSTANTS
    Clients,            \* addresses that send datagrams
    None,               \* the invalid SocketAddress
    client_timeout,     \* client_timeout_ms in clock ticks
    Transports,         \* initial values of tunnel: "wifi", or "none" with --usb
    Relay,              \* the relay's own socket, the only sender with --usb
    auto_mute_pc_speaker,
    EndpointReady,      \* results init() may have in start()
    Controllers,        \* the clients that send control commands
    ControlVolumes,     \* volumes clients may ask for
    ControlMutes        \* mute states clients may ask for

Threads == {"net", "watchdog", "usb", "stop"}

ASSUME ServerAssumption ==
    /\ None \notin Clients /\ None \notin Threads
    /\ client_timeout \in Nat
    /\ Transports \subseteq {"wifi", "none"}
    /\ Relay \in Clients /\ Controllers \subseteq Clients
    /\ auto_mute_pc_speaker \in BOOLEAN
    /\ EndpointReady \subseteq BOOLEAN
    /\ ControlVolumes \subseteq Volumes
    /\ ControlMutes \subseteq BOOLEAN

VARIABLES
    is_running,
    state,
    active_client,
    idle_age,       \* ticks since last_client_activity_time_ms_, capped
    capturing,      \* capture_engine_->is_capturing()
    client_mutex,   \* the thread that holds it, or None
    tunnel,         \* the relay's TCP connection: "none" yet, "up", "down"; or "wifi"
    command,        \* the control command it is about to apply
    pc

sessionVars == <<state, active_client, idle_age>>
threadVars  == <<client_mutex, tunnel, command>>
vars == <<is_running, sessionVars, capturing, threadVars, pc, endpointVars>>

usb_mode == tunnel # "wifi"

\* idle_age is compared with client_timeout only.
AgeCap == client_timeout + 1

NoCommand == [kind |-> "none"]
Commands == [kind : {"mute"}, value : ControlMutes]
              \cup [kind : {"volume"}, value : ControlVolumes]

DisconnectPcs == {"dis_check", "dis_unmute", "dis_clear", "dis_listen"}

\* Where a thread may be: waiting in its loop, in a handler, or in disconnect_client.
Labels == {"idle", "exit"} \cup DisconnectPcs
            \cup {"capture", "mute", "stream", "ping", "control", "stuck"}   \* net
            \cup {"lock"}                                                    \* watchdog
            \cup {"relay"}                                                   \* usb
            \cup {"capture_stop", "join", "restore", "done"}                 \* stop

TypeOK ==
    /\ EndpointTypeOK
    /\ is_running \in BOOLEAN
    /\ state \in {"LISTENING", "STREAMING", "STOPPED"}
    /\ active_client \in Clients \cup {None}
    /\ idle_age \in 0..AgeCap
    /\ capturing \in BOOLEAN
    /\ client_mutex \in {"net", "watchdog", None}
    /\ tunnel \in {"wifi", "none", "up", "down"}
    /\ command \in Commands \cup {NoCommand}
    /\ pc \in [Threads -> Labels]

\* The state start() leaves behind.
Init ==
    /\ \E ready \in EndpointReady : EndpointInit(ready)
    /\ is_running = TRUE
    /\ state = "LISTENING"
    /\ active_client = None
    /\ idle_age = 0
    /\ capturing = FALSE
    /\ client_mutex = None
    /\ tunnel \in Transports
    /\ command = NoCommand
    /\ pc = [t \in Threads |-> IF t = "usb" /\ ~usb_mode THEN "exit" ELSE "idle"]

Goto(t, label) == pc' = [pc EXCEPT ![t] = label]

\* What receive_from may deliver: in USB mode all datagrams come from the relay,
\* once a tunnel has been up.
Receives(c) ==
    /\ pc["net"] = "idle"
    /\ is_running
    /\ c \in Clients
    /\ usb_mode => tunnel # "none" /\ c = Relay

-----------------------------------------------------------------------------
(* disconnect_client, run by any thread                                    *)

\* Where the caller continues.
AfterDisconnect(t) == IF t = "stop" THEN "capture_stop" ELSE "idle"

\* The locked callers release client_mutex_ on return.
Unlock(t) == client_mutex' = IF client_mutex = t THEN None ELSE client_mutex

DisconnectCheck(t) ==
    /\ pc[t] = "dis_check"
    /\ IF state = "STREAMING" /\ active_client # None
       THEN Goto(t, "dis_unmute") /\ UNCHANGED client_mutex
       ELSE Goto(t, AfterDisconnect(t)) /\ Unlock(t)
    /\ UNCHANGED <<is_running, sessionVars, capturing, tunnel, command, endpointVars>>

\* Mutant: the session ends and the speaker is forgotten.
DisconnectForgetsSpeaker(t) ==
    /\ pc[t] = "dis_unmute"
    /\ Goto(t, "dis_clear")
    /\ UNCHANGED <<is_running, sessionVars, capturing, threadVars, endpointVars>>

DisconnectUnmute(t) ==
    /\ pc[t] = "dis_unmute"
    /\ IF auto_mute_pc_speaker THEN unmute_pc_speaker ELSE UNCHANGED endpointVars
    /\ Goto(t, "dis_clear")
    /\ UNCHANGED <<is_running, sessionVars, capturing, threadVars>>

DisconnectClear(t) ==
    /\ pc[t] = "dis_clear"
    /\ active_client' = None
    /\ Goto(t, "dis_listen")
    /\ UNCHANGED <<is_running, state, idle_age, capturing, threadVars, endpointVars>>

DisconnectListen(t) ==
    /\ pc[t] = "dis_listen"
    /\ state' = "LISTENING"
    /\ Goto(t, AfterDisconnect(t))
    /\ Unlock(t)
    /\ UNCHANGED <<is_running, active_client, idle_age, capturing, tunnel, command,
                   endpointVars>>

DisconnectStep(t) == \/ DisconnectCheck(t) \/ DisconnectUnmute(t)
                     \/ DisconnectClear(t) \/ DisconnectListen(t)

-----------------------------------------------------------------------------
(* The network thread: handle_connect_req                                  *)

\* Another client is being served and was heard of in time.
BusyWithOther(c) ==
    /\ state = "STREAMING"
    /\ active_client # None /\ active_client # c
    /\ idle_age < client_timeout

ConnectRejected(c) ==
    /\ Receives(c)
    /\ client_mutex = None
    /\ BusyWithOther(c)
    /\ UNCHANGED vars

ConnectAccepted(c) ==
    /\ Receives(c)
    /\ client_mutex = None
    /\ ~BusyWithOther(c)
    /\ client_mutex' = "net"
    /\ active_client' = c
    /\ idle_age' = 0
    /\ Goto("net", "capture")
    /\ UNCHANGED <<is_running, state, capturing, tunnel, command, endpointVars>>

\* capture_engine_->start, if it is not capturing; when it fails the handler
\* returns at once.
ConnectCapture ==
    /\ pc["net"] = "capture"
    /\ \/ capturing' = TRUE /\ Goto("net", "mute") /\ UNCHANGED client_mutex
       \/ ~capturing /\ UNCHANGED capturing /\ Goto("net", "idle") /\ Unlock("net")
    /\ UNCHANGED <<is_running, sessionVars, tunnel, command, endpointVars>>

ConnectMute ==
    /\ pc["net"] = "mute"
    /\ auto_mute_pc_speaker => endpoint_volume
    /\ IF auto_mute_pc_speaker
       THEN mute_pc_speaker /\ UNCHANGED endpoint_volume
       ELSE UNCHANGED endpointVars
    /\ Goto("net", "stream")
    /\ UNCHANGED <<is_running, sessionVars, capturing, threadVars>>

\* mute_pc_speaker without an interface calls init(), which locks mutex_ again:
\* undefined for std::mutex.  Either the thread blocks for good, or the lock is
\* let through and init() fails again or succeeds.
ConnectMuteReinit ==
    /\ pc["net"] = "mute"
    /\ auto_mute_pc_speaker
    /\ ~endpoint_volume /\ ~endpoint_stuck
    /\ \/ /\ endpoint_stuck' = TRUE
          /\ Goto("net", "stuck")
          /\ UNCHANGED <<endpoint_volume, is_silenced_by_us, prev, speaker, user_speaker,
                         commanded>>
       \/ Goto("net", "stream") /\ UNCHANGED endpointVars
       \/ mute_pc_speaker /\ endpoint_volume' = TRUE /\ Goto("net", "stream")
    /\ UNCHANGED <<is_running, sessionVars, capturing, threadVars>>

ConnectStream ==
    /\ pc["net"] = "stream"
    /\ state' = "STREAMING"
    /\ Goto("net", "idle")
    /\ Unlock("net")
    /\ UNCHANGED <<is_running, active_client, idle_age, capturing, tunnel, command,
                   endpointVars>>

-----------------------------------------------------------------------------
(* The network thread: the other handlers                                  *)

\* handle_disconnect_req
DisconnectReq(c) ==
    /\ Receives(c)
    /\ client_mutex = None
    /\ c = active_client
    /\ client_mutex' = "net"
    /\ Goto("net", "dis_check")
    /\ UNCHANGED <<is_running, sessionVars, capturing, tunnel, command, endpointVars>>

\* handle_heartbeat_ping reads active_client_ without the lock ...
PingCheck(c) ==
    /\ Receives(c)
    /\ c = active_client
    /\ Goto("net", "ping")
    /\ UNCHANGED <<is_running, sessionVars, capturing, threadVars, endpointVars>>

\* ... and stores the time after it.
PingStamp ==
    /\ pc["net"] = "ping"
    /\ idle_age' = 0
    /\ Goto("net", "idle")
    /\ UNCHANGED <<is_running, state, active_client, capturing, threadVars, endpointVars>>

\* handle_control_cmd, checked against active_client_ without the lock ...
ControlCheck(c) ==
    /\ Receives(c)
    /\ c \in Controllers /\ c = active_client
    /\ command' \in Commands
    /\ Goto("net", "control")
    /\ UNCHANGED <<is_running, sessionVars, capturing, client_mutex, tunnel, endpointVars>>

\* ... and applied after it.
ControlApply ==
    /\ pc["net"] = "control"
    /\ \/ command.kind = "mute" /\ set_mute(command.value)
       \/ command.kind = "volume" /\ set_volume(command.value)
    /\ command' = NoCommand
    /\ Goto("net", "idle")
    /\ UNCHANGED <<is_running, sessionVars, capturing, client_mutex, tunnel>>

\* Discovery probes, datagrams of strangers and invalid ones change nothing;
\* while (is_running_) ends the thread.
NetExit ==
    /\ pc["net"] = "idle"
    /\ ~is_running
    /\ Goto("net", "exit")
    /\ UNCHANGED <<is_running, sessionVars, capturing, threadVars, endpointVars>>

NetStep == \/ ConnectCapture \/ ConnectMute \/ ConnectMuteReinit
           \/ ConnectStream \/ PingStamp \/ ControlApply \/ NetExit

NetReceive(c) == \/ ConnectRejected(c) \/ ConnectAccepted(c) \/ DisconnectReq(c)
                 \/ PingCheck(c) \/ ControlCheck(c)

-----------------------------------------------------------------------------
(* watchdog_thread                                                         *)

\* The state and the times are read without the lock ...
WatchdogExpired ==
    /\ pc["watchdog"] = "idle"
    /\ is_running
    /\ state = "STREAMING"
    /\ idle_age > client_timeout
    /\ Goto("watchdog", "lock")
    /\ UNCHANGED <<is_running, sessionVars, capturing, threadVars, endpointVars>>

\* Mutant: disconnects without taking client_mutex_.
WatchdogNoLock ==
    /\ pc["watchdog"] = "lock"
    /\ Goto("watchdog", "dis_check")
    /\ UNCHANGED <<is_running, sessionVars, capturing, threadVars, endpointVars>>

\* ... which is then waited for.
WatchdogLock ==
    /\ pc["watchdog"] = "lock"
    /\ client_mutex = None
    /\ client_mutex' = "watchdog"
    /\ Goto("watchdog", "dis_check")
    /\ UNCHANGED <<is_running, sessionVars, capturing, tunnel, command, endpointVars>>

WatchdogExit ==
    /\ pc["watchdog"] = "idle"
    /\ ~is_running
    /\ Goto("watchdog", "exit")
    /\ UNCHANGED <<is_running, sessionVars, capturing, threadVars, endpointVars>>

-----------------------------------------------------------------------------
(* usb_relay_thread, as far as it touches the session                      *)

UsbAccept ==
    /\ pc["usb"] = "idle"
    /\ is_running
    /\ tunnel' = "up"
    /\ Goto("usb", "relay")
    /\ UNCHANGED <<is_running, sessionVars, capturing, client_mutex, command, endpointVars>>

\* The tunnel closes or fails: disconnect_client without client_mutex_.
UsbClosed ==
    /\ pc["usb"] = "relay"
    /\ is_running
    /\ tunnel' = "down"
    /\ Goto("usb", "dis_check")
    /\ UNCHANGED <<is_running, sessionVars, capturing, client_mutex, command, endpointVars>>

UsbExit ==
    /\ pc["usb"] \in {"idle", "relay"}
    /\ ~is_running
    /\ Goto("usb", "exit")
    /\ UNCHANGED <<is_running, sessionVars, capturing, threadVars, endpointVars>>

-----------------------------------------------------------------------------
(* stop()                                                                  *)

\* Mutant: is_running_ is left set.
StopBeginRunning ==
    /\ pc["stop"] = "idle"
    /\ Goto("stop", "dis_check")
    /\ UNCHANGED <<is_running, sessionVars, capturing, threadVars, endpointVars>>

StopBegin ==
    /\ pc["stop"] = "idle"
    /\ is_running' = FALSE
    /\ Goto("stop", "dis_check")
    /\ UNCHANGED <<sessionVars, capturing, threadVars, endpointVars>>

StopCapture ==
    /\ pc["stop"] = "capture_stop"
    /\ capturing' = FALSE
    /\ Goto("stop", "join")
    /\ UNCHANGED <<is_running, sessionVars, threadVars, endpointVars>>

\* Mutant: the network thread is not joined.
StopJoinNotNet ==
    /\ pc["stop"] = "join"
    /\ \A t \in Threads \ {"stop", "net"} : pc[t] = "exit"
    /\ Goto("stop", "restore")
    /\ UNCHANGED <<is_running, sessionVars, capturing, threadVars, endpointVars>>

StopJoin ==
    /\ pc["stop"] = "join"
    /\ \A t \in Threads \ {"stop"} : pc[t] = "exit"
    /\ Goto("stop", "restore")
    /\ UNCHANGED <<is_running, sessionVars, capturing, threadVars, endpointVars>>

StopRestore ==
    /\ pc["stop"] = "restore"
    /\ IF auto_mute_pc_speaker THEN unmute_and_shutdown ELSE UNCHANGED endpointVars
    /\ state' = "STOPPED"
    /\ Goto("stop", "done")
    /\ UNCHANGED <<is_running, active_client, idle_age, capturing, threadVars>>

StopStep == StopCapture \/ StopJoin \/ StopRestore

-----------------------------------------------------------------------------
Tick ==
    /\ idle_age' = IF idle_age < AgeCap THEN idle_age + 1 ELSE AgeCap
    /\ UNCHANGED <<is_running, state, active_client, capturing, threadVars, pc, endpointVars>>

User ==
    /\ UserAdjusts
    /\ UNCHANGED <<is_running, sessionVars, capturing, threadVars, pc>>

Next ==
    \/ \E t \in Threads : DisconnectStep(t)
    \/ \E c \in Clients : NetReceive(c)
    \/ NetStep
    \/ WatchdogExpired \/ WatchdogLock \/ WatchdogExit
    \/ UsbAccept \/ UsbClosed \/ UsbExit
    \/ StopBegin \/ StopStep
    \/ Tick \/ User

Spec == Init /\ [][Next]_vars

\* Every thread that is not waiting for a message or a connection runs, time
\* passes, and the watchdog is not passed over for ever at client_mutex_ (the
\* network thread holds it only while it handles one datagram).
FairSpec ==
    /\ Spec
    /\ \A t \in Threads : WF_vars(DisconnectStep(t))
    /\ WF_vars(NetStep)
    /\ WF_vars(WatchdogExpired) /\ SF_vars(WatchdogLock) /\ WF_vars(WatchdogExit)
    /\ WF_vars(UsbExit)
    /\ WF_vars(StopStep)
    /\ WF_vars(Tick)

-----------------------------------------------------------------------------
(* Properties                                                              *)

\* Over Wi-Fi, between two critical sections of a running server the speaker is silenced
\* exactly while a client is being served: no interleaving of the handlers and
\* the watchdog leaves the PC mute without a client, or loud with one.
MuteMatchesSession ==
    /\ ~usb_mode
    /\ auto_mute_pc_speaker /\ endpoint_volume
    /\ is_running /\ client_mutex = None
    => (is_silenced_by_us <=> state = "STREAMING" /\ active_client # None)

\* When stop() has returned the speaker is no longer silenced, whatever the other
\* threads were doing when it was called, and is the user's again unless a client
\* has set it.
StoppedRestores ==
    state = "STOPPED" => ~is_silenced_by_us /\ (commanded \/ speaker = user_speaker)

\* "The client is disconnected and the speaker restored" when its traffic ends:
\* if from some time on no client is heard of, the speaker comes back for good.
SpeakerComesBack == <>[](idle_age > 0) => <>[](~is_silenced_by_us)

\* ... which holds over Wi-Fi.
WifiSpeakerComesBack == ~usb_mode => SpeakerComesBack

\* stop() returns: no thread it joins can be waiting for something stop() holds.
\* The one exception is a network thread that has locked the endpoint's mutex_
\* twice, in mute_pc_speaker without an endpoint.
StopReturns == (pc["stop"] # "idle") ~> (state = "STOPPED" \/ endpoint_stuck)

\* The watchdog disconnects a client "if no client traffic arrives within
\* client_timeout_ms": never one that has just been heard of.
WatchdogDropsOnlySilent ==
    [][pc["watchdog"] = "dis_check" /\ pc'["watchdog"] = "dis_unmute"
         => idle_age > client_timeout]_vars
=============================================================================
