------------------------------ MODULE AudioPath ------------------------------
(***************************************************************************)
(* The way of the sound, from the capture callback of the server to the    *)
(* playback of the client: on_audio_captured cuts the captured frames into *)
(* packets and numbers them, the network loses and reorders some, the      *)
(* client's network thread pushes them into the jitter buffer and playback *)
(* pops them.                                                              *)
(*                                                                         *)
(* The callback runs in the capture thread and holds only chunk_mutex_: a  *)
(* CONNECT_REQ handled by the network thread, or a disconnect by the       *)
(* watchdog, changes active_client_, sequence_number_ and state_ between   *)
(* any two of its steps.  A client that connects again (a repeated         *)
(* CONNECT_REQ, a re-handshake) gets a stream numbered from 0 while its    *)
(* jitter buffer, configured once, goes on from where it was.              *)
(*                                                                         *)
(* One client; takeover by another one is in AudioServer.  A second mode   *)
(* feeds the jitter buffer with every sequence number in every order, so   *)
(* that its own properties do not rest on what this server sends.          *)
(***************************************************************************)
EXTENDS JitterBuffer, Sequences, SequencesExt

CONSTANTS
    MaxPackets,         \* bound: packets the server sends
    MaxConnects,        \* bound: CONNECT_REQs the server handles
    MaxFaults,          \* bound: packets lost or overtaken
    NetLimit,           \* bound: packets in flight
    CaptureFrames       \* frames one call of the callback brings

\* The server's packets and playback's requests are all of frames_per_packet frames.
ASSUME PathAssumption ==
    /\ {MaxPackets, MaxConnects, MaxFaults, NetLimit, CaptureFrames} \subseteq Nat
    /\ frames_per_packet \in FrameCounts \cap PopSizes

VARIABLES
    source,             \* "server", or "any" for the arbitrary sequence numbers
    streaming,          \* state_ = STREAMING
    active_client,      \* active_client_.is_valid()
    sequence_number,
    chunk_buffer,       \* the session in which each frame of it was captured
    net_pc,             \* where the thread that holds client_mutex_ is
    capture_pc,         \* where on_audio_captured is
    packet,             \* packet_buf: [seq, id, born], id counts the packets made
    session,            \* number of CONNECT_REQs accepted
    net,                \* packets in flight
    faults,             \* packets not sent, lost or overtaken so far
    content,            \* id of the packet in each slot, 0 if none
    last_played,        \* id of the packet played last
    refused             \* packets the buffer refused since the last it stored

serverVars == <<streaming, active_client, sequence_number, chunk_buffer,
                net_pc, capture_pc, packet, session>>
netVars    == <<net, faults>>
heardVars  == <<content, last_played, refused>>
pathVars   == <<vars, source, serverVars, netVars, heardVars>>

NoPacket == [seq |-> 0, id |-> 0, born |-> 0]

\* The state after start(), with no session yet.
PathInit ==
    /\ Init
    /\ source \in {"server", "any"}
    /\ streaming = FALSE
    /\ active_client = FALSE
    /\ sequence_number = 0
    /\ chunk_buffer = <<>>
    /\ net_pc = "idle"
    /\ capture_pc = "out"
    /\ packet = NoPacket
    /\ session = 0
    /\ net = <<>>
    /\ faults = 0
    /\ content = [i \in Indices |-> 0]
    /\ last_played = 0
    /\ refused = 0

-----------------------------------------------------------------------------
(* The session: handle_connect_req and disconnect_client, under            *)
(* client_mutex_, which the callback does not take.                        *)

ConnectAccept ==
    /\ source = "server" /\ net_pc = "idle"
    /\ session < MaxConnects
    /\ active_client' = TRUE
    /\ session' = session + 1
    /\ net_pc' = "accepted"
    /\ UNCHANGED <<streaming, sequence_number, chunk_buffer, capture_pc, packet>>

ConnectReset ==
    /\ net_pc = "accepted"
    /\ sequence_number' = 0
    /\ net_pc' = "numbered"
    /\ UNCHANGED <<streaming, active_client, chunk_buffer, capture_pc, packet, session>>

\* capture_engine_->start() fails: the session is left half set up.
CaptureRefused ==
    /\ net_pc = "numbered"
    /\ ~streaming
    /\ net_pc' = "idle"
    /\ UNCHANGED <<streaming, active_client, sequence_number, chunk_buffer, capture_pc,
                   packet, session>>

ConnectStream ==
    /\ net_pc = "numbered"
    /\ streaming' = TRUE
    /\ net_pc' = "idle"
    /\ UNCHANGED <<active_client, sequence_number, chunk_buffer, capture_pc, packet, session>>

\* The client's DISCONNECT_REQ or the watchdog; sequence_number_ and
\* chunk_buffer_ stay as they are.
DisconnectClear ==
    /\ net_pc = "idle"
    /\ streaming /\ active_client
    /\ active_client' = FALSE
    /\ net_pc' = "cleared"
    /\ UNCHANGED <<streaming, sequence_number, chunk_buffer, capture_pc, packet, session>>

DisconnectListen ==
    /\ net_pc = "cleared"
    /\ streaming' = FALSE
    /\ net_pc' = "idle"
    /\ UNCHANGED <<active_client, sequence_number, chunk_buffer, capture_pc, packet, session>>

SessionStep ==
    /\ \/ ConnectAccept \/ ConnectReset \/ CaptureRefused \/ ConnectStream
       \/ DisconnectClear \/ DisconnectListen
    /\ UNCHANGED <<vars, source, netVars, heardVars>>

-----------------------------------------------------------------------------
(* on_audio_captured                                                       *)

CaptureEnter ==
    /\ source = "server" /\ capture_pc = "out"
    /\ streaming /\ active_client
    /\ packet.id < MaxPackets
    /\ capture_pc' = "entered"
    /\ UNCHANGED <<chunk_buffer, sequence_number, packet, netVars>>

\* while (chunk_buffer_.size() >= target_chunk_bytes)
AfterChunking == IF Len(chunk_buffer') >= frames_per_packet THEN "chunking" ELSE "out"

CaptureAppend ==
    /\ capture_pc = "entered"
    /\ chunk_buffer' = chunk_buffer \o [i \in 1..CaptureFrames |-> session]
    /\ capture_pc' = AfterChunking
    /\ UNCHANGED <<sequence_number, packet, netVars>>

\* A whole packet: it takes its number and leaves the buffer.
PacketTake ==
    /\ capture_pc = "chunking"
    /\ packet' = [seq |-> sequence_number, id |-> packet.id + 1, born |-> Head(chunk_buffer)]
    /\ sequence_number' = SeqInc(sequence_number)
    /\ chunk_buffer' = SubSeq(chunk_buffer, frames_per_packet + 1, Len(chunk_buffer))
    /\ capture_pc' = "sending"
    /\ UNCHANGED netVars

\* send_to refuses an address that was cleared meanwhile; the packet is gone.
PacketSend ==
    /\ capture_pc = "sending"
    /\ Len(net) < NetLimit
    /\ IF active_client THEN net' = Append(net, packet) /\ UNCHANGED faults
                        ELSE faults' = faults + 1 /\ UNCHANGED net
    /\ UNCHANGED <<chunk_buffer, sequence_number, packet>>
    /\ capture_pc' = AfterChunking

CaptureStep ==
    /\ CaptureEnter \/ CaptureAppend \/ PacketTake \/ PacketSend
    /\ UNCHANGED <<vars, source, streaming, active_client, net_pc, session, heardVars>>

-----------------------------------------------------------------------------
(* The network, the client's network thread and playback.                  *)

\* A packet is lost, or read by the handshake, which drops it.
Lose ==
    /\ net # <<>> /\ faults < MaxFaults
    /\ net' = Tail(net)
    /\ faults' = faults + 1
    /\ UNCHANGED <<vars, source, serverVars, heardVars>>

\* What the slots hold after a push or a pop of the jitter buffer.
ContentWith(new) == [i \in Indices |-> IF slots'[i].valid THEN new[i] ELSE 0]

PushReceived(p) ==
    \/ /\ PushDropped(p.seq)
       /\ refused' = refused + 1
       /\ UNCHANGED <<content, last_played>>
    \/ /\ PushStored(p.seq, frames_per_packet)
       /\ content' = ContentWith([content EXCEPT ![SlotOf(p.seq)] = p.id])
       /\ refused' = 0
       /\ UNCHANGED last_played

\* network_receive_thread: AUDIO_DATA goes to push_packet.
Receive ==
    /\ net # <<>>
    /\ net' = Tail(net)
    /\ PushReceived(Head(net))
    /\ UNCHANGED <<source, serverVars, faults>>

\* The same for a packet that has overtaken the one before it.
ReceiveOvertaking ==
    /\ Len(net) > 1 /\ faults < MaxFaults
    /\ net' = RemoveAt(net, 2)
    /\ faults' = faults + 1
    /\ PushReceived(net[2])
    /\ UNCHANGED <<source, serverVars>>

\* Every sequence number, in any order.
ReceiveAny ==
    /\ source = "any"
    /\ Push
    /\ UNCHANGED <<source, serverVars, netVars, heardVars>>

\* One step of pop_frames, with what is heard of it.
Play ==
    /\ PopStep
    /\ content' = ContentWith(content)
    /\ last_played' = IF pc = "play" /\ PlayheadLive THEN content[SlotOf(next_play_seq)]
                                                     ELSE last_played
    /\ UNCHANGED <<source, serverVars, netVars, refused>>

\* audio_playback_thread asks for frames_per_packet frames at a time.  With the server as
\* the source the drain clock stands still, so its drain is only taken with source = "any":
\* it moves the playhead forward, which can put no packet in front of one made earlier.
PlayAsks ==
    /\ \/ source = "any" /\ (Pop \/ Tick)
       \/ source = "server" /\ PopSilence
       \/ source = "server" /\ PopStart(frames_per_packet)
    /\ UNCHANGED <<source, serverVars, netVars, heardVars>>

PathNext ==
    \/ SessionStep \/ CaptureStep
    \/ Lose \/ Receive \/ ReceiveOvertaking \/ ReceiveAny
    \/ Play \/ PlayAsks

\* As in JitterBuffer: a thread inside pop_frames waits for nothing.
PathSpec == PathInit /\ [][PathNext]_pathVars /\ WF_pathVars(Play)

-----------------------------------------------------------------------------
(* Properties                                                              *)

\* The sound is never played backwards or twice: a packet is not played after
\* one the server made later.  In one session this holds whatever the network loses
\* or overtakes, as long as it is fewer than MAX_SLOTS - 1 packets: a packet that is
\* further behind makes push_packet go back to it.  Over the restart of the numbers
\* in a repeated CONNECT_REQ it holds as long as nothing is lost or overtaken
\* (PlayedInOrder asks for both).
NeverPlayedBack ==
    [][(session <= 1 /\ faults < MAX_SLOTS - 1) \/ faults = 0
          => last_played' >= last_played]_pathVars

\* The same without the restriction.  Old packets that wait behind a hole are
\* mixed with new ones of the same numbers.
PlayedInOrder == [][last_played' >= last_played]_pathVars

\* The client, whose jitter buffer is not told of a new session, takes the
\* restarted numbers for late packets or duplicates.  Each restart costs at most
\* two windows of refused packets in a row, and each fault of the network one
\* late packet, before the buffer stores the new session's.  (A session must not visit
\* the windows twice without a store between: it would, if SEQ_MOD were less than
\* 4 * MAX_SLOTS - 2 and all the other numbers were lost.)
NewSessionHeard ==
    session > 0 => refused <= (session - 1) * (2 * MAX_SLOTS - 1) + faults

\* A session is not begun with sound captured in an earlier one.
FreshAudio == [][packet'.id > packet.id => packet'.born = session]_pathVars
=============================================================================
