------------------------------ MODULE UsbTunnel ------------------------------
(***************************************************************************)
(* Voice over USB: the relay on the PC (server.cpp, usb_relay_thread) and  *)
(* the relay on the phone (client.cpp, usb_relay_thread_fn) carry the      *)
(* engines' UDP datagrams as length-prefixed frames over a TCP connection  *)
(* that adb forwards (usb_tunnel.hpp).                                     *)
(*                                                                         *)
(* Bytes are digits of base ByteBase.  A connection is a number; the phone *)
(* makes it and the PC accepts it later.  TCP loses nothing while the      *)
(* connection is up; once it is down an end may see that at any moment,    *)
(* with bytes left unread or not.                                          *)
(***************************************************************************)
EXTENDS Integers, Sequences, SequencesExt, FiniteSetsExt

CONSTANTS
    Payload,            \* per relay, the datagrams its engine sends, in order
    ByteBase, kMaxFramePayload,
    Capacity,           \* kernel buffer of one direction of a connection
    MaxBreaks           \* how often the cable is pulled

Bytes == 0..ByteBase - 1

Relays == {"pc", "phone"}
Other(r) == IF r = "pc" THEN "phone" ELSE "pc"

ASSUME TunnelAssumption ==
    /\ ByteBase \in Nat \ {0, 1} /\ Capacity \in Nat \ {0} /\ MaxBreaks \in Nat
    /\ kMaxFramePayload \in Nat
    /\ kMaxFramePayload < ByteBase * ByteBase * ByteBase * ByteBase
    /\ Payload \in [Relays -> Seq(Seq(Bytes))]
    /\ \A r \in Relays : \A i \in 1..Len(Payload[r]) :
         Len(Payload[r][i]) \in 1..kMaxFramePayload

VARIABLES
    offered,        \* datagrams the engine of r has sent
    udp,            \* the relay's UDP socket: numbers of datagrams not yet read
    conn,           \* the connection r holds, 0 for none
    stream,         \* stream[c][r]: bytes r wrote on c that are not yet read
    down,           \* connections that are over
    accepted,       \* connections the PC has accepted
    breaks,
    rx,             \* reassembly buffers
    wr,             \* the bytes write_frame() has still to send
    pc,             \* where the relay thread is
    udp_ready,      \* m & 2 of the last select2()
    closing,        \* tunnel_closed / the socket was closed in this iteration
    peer_known,     \* the phone's usb_engine_peer_ is valid
    received,       \* payloads handed to the engine of r
    sent, read      \* history: numbers of the datagrams r put on each connection, and
                    \* the payloads it got from it

tcpVars == <<conn, stream, down, accepted, breaks>>
histVars == <<received, sent, read>>
vars == <<offered, udp, tcpVars, rx, wr, pc, udp_ready, closing, peer_known, histVars>>

opened == Len(stream)

TypeOK ==
    /\ \A r \in Relays :
         /\ offered[r] \in 0..Len(Payload[r])
         /\ \A i \in 1..Len(udp[r]) : udp[r][i] \in 1..offered[r]
         /\ conn[r] \in 0..opened
         /\ pc[r] \in {"connect", "select", "read", "udp", "write", "close"}
         /\ (conn[r] = 0) <=> (pc[r] = "connect")
         /\ (wr[r] # <<>>) <=> (pc[r] = "write")
         /\ closing[r] => pc[r] \in {"udp", "write", "close"}
         /\ \A c \in 1..opened : Len(stream[c][r]) <= Capacity
    /\ down \subseteq 1..opened /\ accepted \in 0..opened /\ breaks \in 0..MaxBreaks
    /\ udp_ready \in [Relays -> BOOLEAN] /\ peer_known \in BOOLEAN

Init ==
    /\ offered = [r \in Relays |-> 0] /\ udp = [r \in Relays |-> <<>>]
    /\ conn = [r \in Relays |-> 0] /\ stream = <<>> /\ down = {} /\ accepted = 0
    /\ breaks = 0
    /\ rx = [r \in Relays |-> <<>>] /\ wr = [r \in Relays |-> <<>>]
    /\ pc = [r \in Relays |-> "connect"]
    /\ udp_ready = [r \in Relays |-> FALSE] /\ closing = [r \in Relays |-> FALSE]
    /\ peer_known = FALSE
    /\ received = [r \in Relays |-> <<>>] /\ sent = <<>> /\ read = <<>>

-----------------------------------------------------------------------------
(* Framing                                                                 *)

kFrameHeaderSize == 4

\* Little-endian; Shifted(n) is n >> 8.
Shifted(n) == n \div ByteBase
Header(len) ==
    <<len % ByteBase, Shifted(len) % ByteBase, Shifted(Shifted(len)) % ByteBase,
      Shifted(Shifted(Shifted(len))) % ByteBase>>

\* A length-prefixed payload.
Frame(p) == Header(Len(p)) \o p

FrameLen(b) ==
    b[1] + ByteBase * b[2] + ByteBase * ByteBase * b[3] + ByteBase * ByteBase * ByteBase * b[4]

HasHeader(b) == Len(b) >= kFrameHeaderSize
Oversize(b) == HasHeader(b) /\ FrameLen(b) > kMaxFramePayload
HasFrame(b) == HasHeader(b) /\ ~Oversize(b) /\ Len(b) >= kFrameHeaderSize + FrameLen(b)

-----------------------------------------------------------------------------
(* Making a connection                                                     *)

\* Mutant: a partial frame of the previous connection stays.
ConnectKeepsRx ==
    /\ pc["phone"] = "connect"
    /\ conn' = [conn EXCEPT !["phone"] = opened + 1]
    /\ stream' = Append(stream, [r \in Relays |-> <<>>])
    /\ sent' = Append(sent, [r \in Relays |-> <<>>])
    /\ read' = Append(read, [r \in Relays |-> <<>>])
    /\ pc' = [pc EXCEPT !["phone"] = "select"]
    /\ UNCHANGED <<offered, udp, down, accepted, breaks, rx, wr, udp_ready, closing,
                   peer_known, received>>

\* The phone: adb's listener takes the connection before the PC accepts it.
Connect ==
    /\ pc["phone"] = "connect"
    /\ conn' = [conn EXCEPT !["phone"] = opened + 1]
    /\ stream' = Append(stream, [r \in Relays |-> <<>>])
    /\ sent' = Append(sent, [r \in Relays |-> <<>>])
    /\ read' = Append(read, [r \in Relays |-> <<>>])
    /\ rx' = [rx EXCEPT !["phone"] = <<>>]
    /\ pc' = [pc EXCEPT !["phone"] = "select"]
    /\ UNCHANGED <<offered, udp, down, accepted, breaks, wr, udp_ready, closing,
                   peer_known, received>>

\* Mutant: the same on the PC.
AcceptKeepsRx ==
    /\ pc["pc"] = "connect" /\ accepted < opened
    /\ accepted' = accepted + 1
    /\ conn' = [conn EXCEPT !["pc"] = accepted + 1]
    /\ udp' = [udp EXCEPT !["pc"] = <<>>]
    /\ pc' = [pc EXCEPT !["pc"] = "select"]
    /\ UNCHANGED <<offered, stream, down, breaks, rx, wr, udp_ready, closing,
                   peer_known, histVars>>

\* The PC: also drops what the engine sent to the previous connection.
Accept ==
    /\ pc["pc"] = "connect" /\ accepted < opened
    /\ accepted' = accepted + 1
    /\ conn' = [conn EXCEPT !["pc"] = accepted + 1]
    /\ rx' = [rx EXCEPT !["pc"] = <<>>]
    /\ udp' = [udp EXCEPT !["pc"] = <<>>]
    /\ pc' = [pc EXCEPT !["pc"] = "select"]
    /\ UNCHANGED <<offered, stream, down, breaks, wr, udp_ready, closing,
                   peer_known, histVars>>

-----------------------------------------------------------------------------
(* One iteration of a relay                                                *)

Incoming(r) == stream[conn[r]][Other(r)]
TcpReady(r) == Incoming(r) # <<>> \/ conn[r] \in down

Select(r) ==
    /\ pc[r] = "select"
    /\ TcpReady(r) \/ udp[r] # <<>>
    /\ udp_ready' = [udp_ready EXCEPT ![r] = udp[r] # <<>>]
    /\ pc' = [pc EXCEPT ![r] = IF TcpReady(r) THEN "read" ELSE "udp"]
    /\ UNCHANGED <<offered, udp, tcpVars, rx, wr, closing, peer_known, histVars>>

\* Where the relay goes after read_frame().
AfterRead(r, closed) == IF udp_ready[r] THEN "udp" ELSE IF closed THEN "close" ELSE "select"

\* The phone has nobody to give a frame to before its own engine has spoken.
ReadExtract(r) ==
    /\ pc[r] = "read" /\ HasFrame(rx[r])
    /\ LET end == kFrameHeaderSize + FrameLen(rx[r])
           p == SubSeq(rx[r], kFrameHeaderSize + 1, end)
       IN  /\ rx' = [rx EXCEPT ![r] = SubSeq(@, end + 1, Len(@))]
           /\ read' = [read EXCEPT ![conn[r]][r] = Append(@, p)]
           /\ received' = [received EXCEPT ![r] =
                             IF r = "pc" \/ peer_known THEN Append(@, p) ELSE @]
    /\ pc' = [pc EXCEPT ![r] = AfterRead(r, FALSE)]
    /\ UNCHANGED <<offered, udp, tcpVars, wr, udp_ready, closing, peer_known, sent>>

\* recv(): some of the bytes have arrived.
ReadRecv(r) ==
    /\ pc[r] = "read" /\ ~HasFrame(rx[r]) /\ ~Oversize(rx[r])
    /\ \E k \in 1..Len(Incoming(r)) :
         /\ rx' = [rx EXCEPT ![r] = @ \o SubSeq(Incoming(r), 1, k)]
         /\ stream' = [stream EXCEPT ![conn[r]][Other(r)] = SubSeq(@, k + 1, Len(@))]
    /\ UNCHANGED <<offered, udp, conn, down, accepted, breaks, wr, pc, udp_ready, closing,
                   peer_known, histVars>>

\* 20 ms without another byte.
ReadTimeout(r) ==
    /\ pc[r] = "read" /\ ~HasFrame(rx[r]) /\ ~Oversize(rx[r])
    /\ Incoming(r) = <<>> /\ conn[r] \notin down
    /\ pc' = [pc EXCEPT ![r] = AfterRead(r, FALSE)]
    /\ UNCHANGED <<offered, udp, tcpVars, rx, wr, udp_ready, closing, peer_known, histVars>>

\* Mutant: takes the end of the connection for a timeout.
ReadClosedIgnored(r) ==
    /\ pc[r] = "read" /\ ~HasFrame(rx[r])
    /\ Oversize(rx[r]) \/ conn[r] \in down
    /\ pc' = [pc EXCEPT ![r] = AfterRead(r, FALSE)]
    /\ UNCHANGED <<offered, udp, tcpVars, rx, wr, udp_ready, closing, peer_known, histVars>>

\* EOF, a socket error, or a length beyond the cap.
ReadClosed(r) ==
    /\ pc[r] = "read" /\ ~HasFrame(rx[r])
    /\ Oversize(rx[r]) \/ conn[r] \in down
    /\ rx' = [rx EXCEPT ![r] = IF Oversize(@) THEN <<>> ELSE @]
    /\ closing' = [closing EXCEPT ![r] = TRUE]
    /\ pc' = [pc EXCEPT ![r] = AfterRead(r, TRUE)]
    /\ UNCHANGED <<offered, udp, tcpVars, wr, udp_ready, peer_known, histVars>>

UdpTake(r) ==
    /\ pc[r] = "udp"
    /\ wr' = [wr EXCEPT ![r] = Frame(Payload[r][Head(udp[r])])]
    /\ sent' = [sent EXCEPT ![conn[r]][r] = Append(@, Head(udp[r]))]
    /\ udp' = [udp EXCEPT ![r] = Tail(@)]
    /\ peer_known' = (peer_known \/ r = "phone")
    /\ pc' = [pc EXCEPT ![r] = "write"]
    /\ UNCHANGED <<offered, tcpVars, rx, udp_ready, closing, received, read>>

Full(r) == Len(stream[conn[r]][r]) >= Capacity

\* send() takes as much as there is room for.  The phone has closed its socket
\* already when closing; the PC has not.
WriteSome(r) ==
    /\ pc[r] = "write" /\ ~Full(r)
    /\ closing[r] => r = "pc"
    /\ LET k == Min({Len(wr[r]), Capacity - Len(stream[conn[r]][r])})
       IN  /\ stream' = [stream EXCEPT ![conn[r]][r] = @ \o SubSeq(wr[r], 1, k)]
           /\ wr' = [wr EXCEPT ![r] = SubSeq(@, k + 1, Len(@))]
           /\ pc' = [pc EXCEPT ![r] = IF k < Len(wr[r]) THEN "write"
                                      ELSE IF closing[r] THEN "close" ELSE "select"]
    /\ UNCHANGED <<offered, udp, conn, down, accepted, breaks, rx, udp_ready, closing,
                   peer_known, histVars>>

\* Mutant: a frame that could not be written whole is given up, the connection is not.
WriteFailsGoesOn(r) ==
    /\ pc[r] = "write"
    /\ Full(r) \/ conn[r] \in down \/ closing[r]
    /\ wr' = [wr EXCEPT ![r] = <<>>]
    /\ pc' = [pc EXCEPT ![r] = IF closing[r] THEN "close" ELSE "select"]
    /\ UNCHANGED <<offered, udp, tcpVars, rx, udp_ready, closing, peer_known, histVars>>

\* No room for 100 ms, or the connection is gone.
WriteFails(r) ==
    /\ pc[r] = "write"
    /\ Full(r) \/ conn[r] \in down \/ closing[r]
    /\ wr' = [wr EXCEPT ![r] = <<>>]
    /\ closing' = [closing EXCEPT ![r] = TRUE]
    /\ pc' = [pc EXCEPT ![r] = "close"]
    /\ UNCHANGED <<offered, udp, tcpVars, rx, udp_ready, peer_known, histVars>>

Close(r) ==
    /\ pc[r] = "close"
    /\ down' = down \cup {conn[r]}
    /\ conn' = [conn EXCEPT ![r] = 0]
    /\ closing' = [closing EXCEPT ![r] = FALSE]
    /\ pc' = [pc EXCEPT ![r] = "connect"]
    /\ UNCHANGED <<offered, udp, stream, accepted, breaks, rx, wr, udp_ready, peer_known,
                   histVars>>

Iterate(r) == \/ Select(r) \/ ReadExtract(r) \/ ReadRecv(r) \/ ReadTimeout(r) \/ ReadClosed(r)
              \/ UdpTake(r) \/ WriteSome(r) \/ WriteFails(r) \/ Close(r)

-----------------------------------------------------------------------------
(* The engines and the cable                                               *)

Offer(r) ==
    /\ offered[r] < Len(Payload[r])
    /\ offered' = [offered EXCEPT ![r] = @ + 1]
    /\ udp' = [udp EXCEPT ![r] = Append(@, offered[r] + 1)]
    /\ UNCHANGED <<tcpVars, rx, wr, pc, udp_ready, closing, peer_known, histVars>>

CableBreak ==
    /\ breaks < MaxBreaks
    /\ \E c \in (1..opened) \ down : down' = down \cup {c}
    /\ breaks' = breaks + 1
    /\ UNCHANGED <<offered, udp, conn, stream, accepted, rx, wr, pc, udp_ready, closing,
                   peer_known, histVars>>

Next == \/ Connect \/ Accept \/ CableBreak
        \/ \E r \in Relays : Iterate(r) \/ Offer(r)

\* Both threads run on; the engines need not send anything.
Spec == /\ Init /\ [][Next]_vars
        /\ WF_vars(Connect) /\ WF_vars(Accept)
        /\ \A r \in Relays : WF_vars(Iterate(r))

-----------------------------------------------------------------------------
(* Properties                                                              *)

ToPc == INSTANCE OrderedDatagrams
        WITH Payload <- Payload["phone"], offered <- offered["phone"],
             delivered <- received["pc"]
ToPhone == INSTANCE OrderedDatagrams
           WITH Payload <- Payload["pc"], offered <- offered["pc"],
                delivered <- received["phone"]

\* The tunnel implements OrderedDatagrams in both directions, whatever breaks and
\* stalls: read_frame() never takes bytes of two frames or of two connections for one.
PcGetsOrderedDatagrams == ToPc!Spec
PhoneGetsOrderedDatagrams == ToPhone!Spec

\* What r put on connection c.
Put(c, r) == [i \in 1..Len(sent[c][r]) |-> Payload[r][sent[c][r][i]]]

\* On one connection nothing is lost in the middle: what a relay got from it is a
\* prefix of what the other put on it (write_frame() gives up only with the connection).
NothingLostInside ==
    \A c \in 1..opened, r \in Relays : IsPrefix(read[c][r], Put(c, Other(r)))

\* Pulled cables and stalled writes, of both ends at once too, end with both relays on
\* one live connection: "retrying here is enough to ride through unplug/replug".
TunnelRecovers ==
    <>[](conn["pc"] # 0 /\ conn["pc"] = conn["phone"] /\ conn["pc"] \notin down)

\* "The protocol engines above them keep speaking plain UDP": a frame that is in the
\* reassembly buffer as a whole goes to the engine.
CompleteFrameDelivered == \A r \in Relays : HasFrame(rx[r]) ~> ~HasFrame(rx[r])
=============================================================================
