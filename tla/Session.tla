------------------------------- MODULE Session -------------------------------
(***************************************************************************)
(* A client and the server over UDP: the handshake with its retries, the   *)
(* client's network and heartbeat threads, its re-handshake after a silent *)
(* server, and stop() (src/client/client.cpp); the server's replies and    *)
(* its restarts (src/server/server.cpp, whose own threads AudioServer      *)
(* models and which is one process here).                                  *)
(*                                                                         *)
(* A message that is in flight already and is sent again counts once, and  *)
(* replies overtake each other.  Unless Reliable, requests do too, and     *)
(* messages get lost.  Of the packets of a stream nothing here tells one   *)
(* of AUDIO_DATA from a HEARTBEAT_PONG; both are "STREAM".                 *)
(***************************************************************************)
EXTENDS Integers, Sequences, SequencesExt

CONSTANTS
    MaxRetry,           \* attempts of perform_handshake()
    reconnect_timeout,  \* the client's watchdog, in ticks
    client_timeout,     \* the server's watchdog, in ticks
    Reliable,           \* does the network keep every message, and requests in order?
    MaxOutages          \* how often the server goes away

ASSUME SessionAssumption ==
    /\ MaxRetry \in Nat \ {0} /\ reconnect_timeout \in Nat /\ client_timeout \in Nat
    /\ Reliable \in BOOLEAN /\ MaxOutages \in Nat

VARIABLES
    phase,          \* of the client process
    is_running, stop_requested,
    sock,           \* socket_: 0 when closed, else its local address
    has_timeout,    \* SO_RCVTIMEO is set on it
    socket_mutex,   \* is the network thread holding it?
    net, hb, stop,  \* where the threads are; stop() runs on the main thread
    hs, retry,      \* where perform_handshake() is, on the main thread or hb
    packet_age,     \* ticks since last_packet_time_ms_, capped
    to_server, to_client,
    up,             \* the server process runs
    active,         \* the server's active_client_, 0 when there is none
    streaming,      \* state_ is STREAMING, not LISTENING
    capturing,      \* capture_engine_->is_capturing(): once started, it runs on
    idle_age,       \* ticks since the server's last_client_activity_time_ms_, capped
    outages

clientVars == <<phase, is_running, stop_requested, sock, has_timeout, socket_mutex,
                net, hb, stop, hs, retry, packet_age>>
serverVars == <<up, active, streaming, capturing, idle_age, outages>>
vars == <<clientVars, to_server, to_client, serverVars>>

\* A client opens its socket in start(), and once more if send_to() finds it closed.
Addresses == 1..2

Requests == [kind : {"CONNECT_REQ", "HEARTBEAT_PING", "DISCONNECT_REQ"}, addr : Addresses]
Replies  == [kind : {"CONNECT_ACK", "CONNECT_NAK", "STREAM", "DISCONNECT_ACK"}, addr : Addresses]

TypeOK ==
    /\ phase \in {"connecting", "running", "failed", "stopped"}
    /\ is_running \in BOOLEAN /\ stop_requested \in BOOLEAN
    /\ sock \in Addresses \cup {0} /\ has_timeout \in BOOLEAN
    /\ socket_mutex \in BOOLEAN /\ (socket_mutex <=> net = "recv")
    /\ net \in {"off", "loop", "recv", "exit"}
    /\ hb \in {"off", "loop", "check", "handshake", "sleep", "exit"}
    /\ stop \in {"idle", "send", "close", "join", "done", "killed"}
    /\ hs \in {"off", "check", "send", "recv"} /\ retry \in 0..MaxRetry
    /\ (hs # "off") <=> (phase = "connecting" \/ hb = "handshake")
    /\ packet_age \in 0..reconnect_timeout + 1
    /\ idle_age \in 0..client_timeout + 1
    /\ ToSet(to_server) \subseteq Requests /\ to_client \subseteq Replies
    /\ up \in BOOLEAN /\ active \in Addresses \cup {0} /\ (~up => active = 0)
    /\ streaming \in BOOLEAN /\ capturing \in BOOLEAN
    /\ (streaming => capturing /\ active # 0) /\ (capturing => up)
    /\ outages \in 0..MaxOutages

\* start() has opened the socket and enters perform_handshake().
Init ==
    /\ phase = "connecting" /\ is_running = FALSE /\ stop_requested = FALSE
    /\ sock = 1 /\ has_timeout = TRUE /\ socket_mutex = FALSE
    /\ net = "off" /\ hb = "off" /\ stop = "idle" /\ hs = "check" /\ retry = 0
    /\ packet_age = 0
    /\ to_server = <<>> /\ to_client = {}
    /\ up \in BOOLEAN /\ active = 0 /\ streaming = FALSE /\ capturing = FALSE
    /\ idle_age = 0 /\ outages = 0

-----------------------------------------------------------------------------
(* The network                                                             *)

Msg(kind, addr) == [kind |-> kind, addr |-> addr]
Put(queue, m) == IF m \in ToSet(queue) THEN queue ELSE Append(queue, m)

\* The server may get the request at position i.
MayArrive(i) == i \in DOMAIN to_server /\ (Reliable => i = 1)

\* What the client's socket may get.
Incoming == {m \in to_client : m.addr = sock}

Lose ==
    /\ \/ \E i \in DOMAIN to_server :
            /\ ~Reliable \/ ~up
            /\ to_server' = RemoveAt(to_server, i) /\ UNCHANGED to_client
       \/ \E m \in to_client :
            /\ ~Reliable \/ m \notin Incoming
            /\ to_client' = to_client \ {m} /\ UNCHANGED to_server
    /\ UNCHANGED <<clientVars, serverVars>>

-----------------------------------------------------------------------------
(* perform_handshake, by start() or by the heartbeat thread                *)

\* The socket has a receive timeout or is closed: receive_from() comes back.
ReceiveEnds == has_timeout \/ sock = 0

HandshakeOver(ok) ==
    /\ hs' = "off" /\ retry' = 0
    /\ IF phase = "connecting"
       THEN /\ phase' = IF ok THEN "running" ELSE "failed"
            /\ is_running' = ok
            /\ sock' = IF ok THEN sock ELSE 0
            /\ net' = IF ok THEN "loop" ELSE "off"
            /\ hb' = IF ok THEN "loop" ELSE "off"
       ELSE hb' = "sleep" /\ UNCHANGED <<phase, is_running, sock, net>>
    /\ packet_age' = 0

HandshakeCheck ==
    /\ hs = "check"
    /\ IF stop_requested \/ retry = MaxRetry
       THEN HandshakeOver(FALSE)
       ELSE /\ hs' = "send"
            /\ UNCHANGED <<phase, is_running, sock, net, hb, retry, packet_age>>
    /\ UNCHANGED <<stop_requested, has_timeout, socket_mutex, stop, to_server, to_client,
                   serverVars>>

\* send_to() opens a new socket, without a timeout, when stop() has closed the old one.
HandshakeSend ==
    /\ hs = "send"
    /\ sock' = IF sock = 0 THEN 2 ELSE sock
    /\ has_timeout' = (has_timeout /\ sock # 0)
    /\ to_server' = Put(to_server, Msg("CONNECT_REQ", sock'))
    /\ hs' = "recv"
    /\ UNCHANGED <<phase, is_running, stop_requested, socket_mutex, net, hb, stop, retry,
                   packet_age, to_client, serverVars>>

\* Whatever arrives is taken, also what the network thread is waiting for.
HandshakeReceive ==
    /\ hs = "recv"
    /\ \E m \in Incoming :
         /\ to_client' = to_client \ {m}
         /\ CASE m.kind = "CONNECT_ACK" -> HandshakeOver(TRUE)
              [] m.kind = "CONNECT_NAK" -> HandshakeOver(FALSE)
              [] OTHER -> /\ hs' = "check" /\ retry' = retry + 1
                          /\ UNCHANGED <<phase, is_running, sock, net, hb, packet_age>>
    /\ UNCHANGED <<stop_requested, has_timeout, socket_mutex, stop, to_server, serverVars>>

HandshakeTimeout ==
    /\ hs = "recv" /\ ReceiveEnds
    /\ hs' = "check" /\ retry' = retry + 1
    /\ UNCHANGED <<phase, is_running, stop_requested, sock, has_timeout, socket_mutex, net,
                   hb, stop, packet_age, to_server, to_client, serverVars>>

HandshakeStep == HandshakeCheck \/ HandshakeSend \/ HandshakeReceive \/ HandshakeTimeout

-----------------------------------------------------------------------------
(* network_receive_thread                                                  *)

Ended == ~is_running \/ stop_requested

NetLoop ==
    /\ net = "loop"
    /\ net' = IF Ended THEN "exit" ELSE "recv"
    /\ socket_mutex' = ~Ended
    /\ UNCHANGED <<phase, is_running, stop_requested, sock, has_timeout, hb, stop, hs, retry,
                   packet_age, to_server, to_client, serverVars>>

NetReceive ==
    /\ net = "recv"
    /\ \E m \in Incoming :
         /\ to_client' = to_client \ {m}
         /\ IF m.kind = "DISCONNECT_ACK"
            THEN net' = "exit" /\ is_running' = FALSE
            ELSE net' = "loop" /\ UNCHANGED is_running
    /\ packet_age' = 0
    /\ socket_mutex' = FALSE
    /\ UNCHANGED <<phase, stop_requested, sock, has_timeout, hb, stop, hs, retry, to_server,
                   serverVars>>

NetTimeout ==
    /\ net = "recv" /\ ReceiveEnds
    /\ net' = "loop" /\ socket_mutex' = FALSE
    /\ UNCHANGED <<phase, is_running, stop_requested, sock, has_timeout, hb, stop, hs, retry,
                   packet_age, to_server, to_client, serverVars>>

-----------------------------------------------------------------------------
(* heartbeat_thread                                                        *)

HeartbeatPing ==
    /\ hb = "loop" /\ (Ended \/ ~socket_mutex)
    /\ IF Ended
       THEN hb' = "exit" /\ UNCHANGED to_server
       ELSE hb' = "check" /\ to_server' = Put(to_server, Msg("HEARTBEAT_PING", sock))
    /\ UNCHANGED <<phase, is_running, stop_requested, sock, has_timeout, socket_mutex, net,
                   stop, hs, retry, packet_age, to_client, serverVars>>

\* Mutant: a ping counts as a sign of life of the server.
HeartbeatCheckPings ==
    /\ hb = "check"
    /\ hb' = "sleep" /\ packet_age' = 0
    /\ UNCHANGED <<phase, is_running, stop_requested, sock, has_timeout, socket_mutex, net,
                   stop, hs, retry, to_server, to_client, serverVars>>

HeartbeatCheck ==
    /\ hb = "check"
    /\ IF ~stop_requested /\ packet_age > reconnect_timeout
       THEN hb' = "handshake" /\ hs' = "check"
       ELSE hb' = "sleep" /\ UNCHANGED hs
    /\ UNCHANGED <<phase, is_running, stop_requested, sock, has_timeout, socket_mutex, net,
                   stop, retry, packet_age, to_server, to_client, serverVars>>

HeartbeatSleep ==
    /\ hb = "sleep"
    /\ hb' = "loop"
    /\ UNCHANGED <<phase, is_running, stop_requested, sock, has_timeout, socket_mutex, net,
                   stop, hs, retry, packet_age, to_server, to_client, serverVars>>

-----------------------------------------------------------------------------
(* stop                                                                    *)

StopBegin ==
    /\ phase = "running" /\ stop = "idle"
    /\ stop_requested' = TRUE /\ is_running' = FALSE
    /\ stop' = "send"
    /\ UNCHANGED <<phase, sock, has_timeout, socket_mutex, net, hb, hs, retry, packet_age,
                   to_server, to_client, serverVars>>

StopSend ==
    /\ stop = "send" /\ ~socket_mutex
    /\ to_server' = IF sock # 0 THEN Put(to_server, Msg("DISCONNECT_REQ", sock)) ELSE to_server
    /\ stop' = "close"
    /\ UNCHANGED <<phase, is_running, stop_requested, sock, has_timeout, socket_mutex, net,
                   hb, hs, retry, packet_age, to_client, serverVars>>

StopClose ==
    /\ stop = "close" /\ ~socket_mutex
    /\ sock' = 0
    /\ stop' = "join"
    /\ UNCHANGED <<phase, is_running, stop_requested, has_timeout, socket_mutex, net, hb, hs,
                   retry, packet_age, to_server, to_client, serverVars>>

StopJoin ==
    /\ stop = "join" /\ net = "exit" /\ hb = "exit"
    /\ stop' = "done" /\ phase' = "stopped"
    /\ UNCHANGED <<is_running, stop_requested, sock, has_timeout, socket_mutex, net, hb, hs,
                   retry, packet_age, to_server, to_client, serverVars>>

\* The process is killed.
ClientDies ==
    /\ phase = "running"
    /\ phase' = "stopped" /\ is_running' = FALSE
    /\ sock' = 0 /\ socket_mutex' = FALSE
    /\ net' = "exit" /\ hb' = "exit" /\ hs' = "off" /\ retry' = 0 /\ stop' = "killed"
    /\ UNCHANGED <<stop_requested, has_timeout, packet_age, to_server, to_client, serverVars>>

-----------------------------------------------------------------------------
(* The server                                                              *)

\* handle_connect_req(): another client is turned away while the present one is alive.
Busy(a) == streaming /\ active # a /\ idle_age < client_timeout

\* handle_connect_req() otherwise.  When the capture engine does not start, the client is
\* the active one all the same, without an answer, and the server stays LISTENING.
Accept(a) ==
    /\ active' = a /\ idle_age' = 0
    /\ \/ /\ capturing' = TRUE /\ streaming' = TRUE
          /\ to_client' = to_client \cup {Msg("CONNECT_ACK", a)}
       \/ /\ ~capturing
          /\ UNCHANGED <<capturing, streaming, to_client>>

\* disconnect_client() does nothing unless STREAMING.
Disconnect(send_ack) ==
    IF streaming
    THEN /\ active' = 0 /\ streaming' = FALSE
         /\ to_client' = IF send_ack THEN to_client \cup {Msg("DISCONNECT_ACK", active)}
                                     ELSE to_client
    ELSE UNCHANGED <<active, streaming, to_client>>

\* The PONG does not depend on STREAMING.
ServerReceive(m) ==
    /\ up
    /\ \E i \in DOMAIN to_server :
         /\ MayArrive(i) /\ to_server[i] = m
         /\ to_server' = RemoveAt(to_server, i)
    /\ \/ /\ m.kind = "CONNECT_REQ" /\ Busy(m.addr)
          /\ to_client' = to_client \cup {Msg("CONNECT_NAK", m.addr)}
          /\ UNCHANGED <<active, streaming, capturing, idle_age>>
       \/ /\ m.kind = "CONNECT_REQ" /\ ~Busy(m.addr)
          /\ Accept(m.addr)
       \/ /\ m.kind = "HEARTBEAT_PING" /\ active = m.addr
          /\ idle_age' = 0
          /\ to_client' = to_client \cup {Msg("STREAM", m.addr)}
          /\ UNCHANGED <<active, streaming, capturing>>
       \/ /\ m.kind = "DISCONNECT_REQ" /\ active = m.addr
          /\ Disconnect(TRUE)
          /\ UNCHANGED <<capturing, idle_age>>
       \/ /\ m.kind # "CONNECT_REQ" /\ active # m.addr
          /\ UNCHANGED <<active, streaming, capturing, idle_age, to_client>>
    /\ UNCHANGED <<clientVars, up, outages>>

\* Mutant: sending audio counts as activity of the client.
ServerAudioRefreshes ==
    /\ streaming
    /\ to_client' = to_client \cup {Msg("STREAM", active)}
    /\ idle_age' = 0
    /\ UNCHANGED <<clientVars, to_server, up, active, streaming, capturing, outages>>

ServerAudio ==
    /\ streaming
    /\ to_client' = to_client \cup {Msg("STREAM", active)}
    /\ UNCHANGED <<clientVars, to_server, serverVars>>

ServerWatchdog ==
    /\ streaming /\ idle_age > client_timeout
    /\ Disconnect(FALSE)
    /\ UNCHANGED <<clientVars, to_server, up, capturing, idle_age, outages>>

\* stop() tells a client it streams to; a server that is killed does not.
ServerGoes ==
    /\ up /\ outages < MaxOutages
    /\ up' = FALSE /\ active' = 0 /\ streaming' = FALSE /\ capturing' = FALSE
    /\ outages' = outages + 1
    /\ \/ streaming /\ to_client' = to_client \cup {Msg("DISCONNECT_ACK", active)}
       \/ UNCHANGED to_client
    /\ UNCHANGED <<clientVars, to_server, idle_age>>

ServerComes ==
    /\ ~up
    /\ up' = TRUE /\ idle_age' = 0
    /\ UNCHANGED <<clientVars, to_server, to_client, active, streaming, capturing, outages>>

\* The two clocks run when somebody will read them before they are set again: the client's
\* outside a handshake, the server's while it streams.
PacketAges == hb \in {"loop", "check", "sleep"} /\ ~stop_requested /\ packet_age <= reconnect_timeout
Idles == streaming /\ idle_age <= client_timeout

Tick ==
    /\ PacketAges \/ Idles
    /\ packet_age' = IF PacketAges THEN packet_age + 1 ELSE packet_age
    /\ idle_age' = IF Idles THEN idle_age + 1 ELSE idle_age
    /\ UNCHANGED <<phase, is_running, stop_requested, sock, has_timeout, socket_mutex, net, hb,
                   stop, hs, retry, to_server, to_client, up, active, streaming, capturing,
                   outages>>

-----------------------------------------------------------------------------
NetStep == NetLoop \/ NetReceive \/ NetTimeout
HeartbeatStep == HeartbeatPing \/ HeartbeatCheck \/ HeartbeatSleep
StopStep == StopSend \/ StopClose \/ StopJoin
ServerReceives == \E m \in Requests : ServerReceive(m)

Next == \/ HandshakeStep \/ NetStep \/ HeartbeatStep \/ StopBegin \/ StopStep \/ ClientDies
        \/ ServerReceives \/ ServerAudio \/ ServerWatchdog \/ ServerGoes \/ ServerComes
        \/ Lose \/ Tick

\* Threads run on and time passes; the heartbeat thread gets socket_mutex_ in the end
\* although the network thread takes it again and again; of a message sent over and
\* over some copy arrives (it matters for CONNECT_REQ).  Nobody need stop the client or start the server.
Spec == /\ Init /\ [][Next]_vars
        /\ WF_vars(HandshakeStep) /\ WF_vars(NetStep) /\ SF_vars(HeartbeatStep)
        /\ WF_vars(StopStep) /\ WF_vars(ServerReceives) /\ WF_vars(ServerWatchdog) /\ WF_vars(Tick)
        /\ SF_vars(\E a \in Addresses : ServerReceive(Msg("CONNECT_REQ", a)))

-----------------------------------------------------------------------------
(* Properties                                                              *)

\* A client that is gone, killed or never told of its connection, is not streamed to
\* for ever, whatever of its messages come late (the server's heartbeat watchdog).
ServerFreed == <>[](phase \in {"failed", "stopped"}) => <>[]~streaming

Streamed == streaming /\ active = sock

\* The server keeps the client and answers its pings but streams nothing: what is left
\* of a CONNECT_REQ that could not start the capture engine.
HalfSetUp == ~streaming /\ sock # 0 /\ active = sock

\* A running client gets back to a server that was restarted or dropped it (the
\* re-handshake of the heartbeat thread); nothing but the half set up session of a
\* capture engine that did not start can keep it away.
Reconnects == <>[](up /\ is_running) => []<>Streamed \/ <>[]HalfSetUp

\* The same without the exception, as the README has it: the client "re-handshakes when
\* the server goes silent".  Not so: the PONGs of a half set up session keep it content.
SilentServerLeft == <>[](up /\ is_running) => []<>Streamed

\* "Send DISCONNECT_REQ to Windows server so it un-mutes PC speaker immediately": when
\* stop() is over and the server has seen all the client sent, nobody is streamed to.
StopDisconnects == stop = "done" /\ to_server = <<>> => ~streaming

\* stop() comes back ("keeps Ctrl+C responsive"; it joins the heartbeat thread).
StopReturns == (stop = "send") ~> (stop \in {"done", "killed"})
=============================================================================
