------------------------------- MODULE Capture -------------------------------
(***************************************************************************)
(* The capture engine (src/server/wasapi_capture.cpp, dummy_capture.cpp)   *)
(* and the three threads that use it: the network thread starts it when a  *)
(* CONNECT_REQ is handled, its own thread reads packets and calls the      *)
(* callback, and the main thread stops it in AudioRouterServer::stop(),    *)
(* which main() calls once, the server's destructor again, followed by the *)
(* stop() of the engine's own destructor.                                  *)
(*                                                                         *)
(* start() and stop() share no lock: is_running_ is an atomic,             *)
(* capture_thread_ and the COM pointers are plain members.  The samples    *)
(* and their conversion are left out; what the callback does with them is  *)
(* in AudioPath.                                                           *)
(***************************************************************************)
EXTENDS Naturals, Sequences

VARIABLES
    engine,             \* "wasapi", or "dummy" for the test tone
    server_running,     \* is_running_ of the server
    is_running,         \* is_running_ of the engine
    held,               \* what start() has acquired and stop() would release
    leaked,             \* something acquired was overwritten
    device,             \* "ok", or "lost" once the endpoint has gone
    network_pc,         \* the network thread: "loop", "recv", "gone", or in
                        \* start(): the call it makes next, "spawn" at last
    thread,             \* capture_thread_: "none" if not joinable, "ended",
                        \* or where it is
    main_pc,            \* the main thread
    stops,              \* calls of stop() that have returned
    restarted           \* a CONNECT_REQ has called start() after stop() began

captureVars == <<engine, server_running, is_running, held, leaked, device,
                 network_pc, thread, main_pc, stops, restarted>>

\* The calls of start(), in order, and what each acquires.
Calls == <<"CoInitializeEx", "CoCreateInstance", "GetDefaultAudioEndpoint", "Activate",
           "GetMixFormat", "Initialize", "GetService", "Start">>
Resource == [c \in {"CoInitializeEx", "CoCreateInstance", "GetDefaultAudioEndpoint",
                    "Activate", "GetMixFormat", "GetService"} |->
               CASE c = "CoInitializeEx"          -> "com"
                 [] c = "CoCreateInstance"        -> "enumerator"
                 [] c = "GetDefaultAudioEndpoint" -> "device"
                 [] c = "Activate"                -> "audio_client"
                 [] c = "GetMixFormat"            -> "wave_format"
                 [] c = "GetService"              -> "capture_client"]

Index(call) == CHOOSE i \in DOMAIN Calls : Calls[i] = call

CaptureInit ==
    /\ engine \in {"wasapi", "dummy"}
    /\ server_running = TRUE
    /\ is_running = FALSE
    /\ held = {}
    /\ leaked = FALSE
    /\ device = "ok"
    /\ network_pc = "loop"
    /\ thread = "none"
    /\ main_pc = "run"
    /\ stops = 0
    /\ restarted = FALSE

-----------------------------------------------------------------------------
(* The network thread                                                      *)

NetLoop ==
    /\ network_pc = "loop"
    /\ network_pc' = IF server_running THEN "recv" ELSE "gone"
    /\ UNCHANGED <<engine, server_running, is_running, held, leaked, device, thread,
                   main_pc, stops, restarted>>

\* The 200 ms of receive_from pass, or another message comes.
NetOther ==
    /\ network_pc = "recv"
    /\ network_pc' = "loop"
    /\ UNCHANGED <<engine, server_running, is_running, held, leaked, device, thread,
                   main_pc, stops, restarted>>

\* A CONNECT_REQ: start() unless is_capturing().
ConnectReq ==
    /\ network_pc = "recv"
    /\ network_pc' = IF is_running THEN "loop"
                 ELSE IF engine = "dummy" THEN "spawn" ELSE Calls[1]
    /\ is_running' = (is_running \/ engine = "dummy")
    /\ restarted' = (restarted \/ ~(is_running \/ server_running))
    /\ UNCHANGED <<engine, server_running, held, leaked, device, thread, main_pc,
                   stops>>

\* The next call succeeds.  What it returns overwrites what a start() that
\* failed has left.  After Start() the engine is running, without a thread yet.
StartCall ==
    /\ network_pc \in {Calls[i] : i \in DOMAIN Calls}
    /\ IF network_pc \in DOMAIN Resource
       THEN /\ held' = held \cup {Resource[network_pc]}
            /\ leaked' = (leaked \/ Resource[network_pc] \in held)
       ELSE UNCHANGED <<held, leaked>>
    /\ IF network_pc = "Start"
       THEN network_pc' = "spawn" /\ is_running' = TRUE
       ELSE network_pc' = Calls[Index(network_pc) + 1] /\ UNCHANGED is_running
    /\ UNCHANGED <<engine, server_running, device, thread, main_pc, stops, restarted>>

\* It fails: start() returns false and releases nothing.
StartFails ==
    /\ network_pc \in {Calls[i] : i \in DOMAIN Calls}
    /\ network_pc' = "loop"
    /\ UNCHANGED <<engine, server_running, is_running, held, leaked, device, thread,
                   main_pc, stops, restarted>>

\* capture_thread_ = std::thread(...), which ends the program if the old one has
\* not been joined.
StartSpawn ==
    /\ network_pc = "spawn"
    /\ thread' = IF thread = "none" THEN "check" ELSE "terminate"
    /\ network_pc' = "loop"
    /\ UNCHANGED <<engine, server_running, is_running, held, leaked, device,
                   main_pc, stops, restarted>>

Net == NetLoop \/ NetOther \/ ConnectReq \/ StartCall \/ StartFails \/ StartSpawn

-----------------------------------------------------------------------------
(* The capture thread                                                      *)

engineVars == <<engine, server_running, is_running, held, leaked, network_pc, main_pc, stops,
                restarted>>

\* while (is_running_)
ThreadCheck ==
    /\ thread = "check"
    /\ thread' = IF ~is_running THEN "ended"
                 ELSE IF engine = "dummy" THEN "callback" ELSE "size"
    /\ UNCHANGED <<engineVars, device>>

\* GetNextPacketSize: nothing there, or it fails, as it always does once the
\* device has gone; the thread sleeps and tries again.
ThreadSizeNone ==
    /\ thread = "size"
    /\ thread' = "check"
    /\ UNCHANGED <<engineVars, device>>

ThreadSizeSome ==
    /\ thread = "size" /\ device = "ok"
    /\ thread' = "inner"
    /\ UNCHANGED <<engineVars, device>>

\* Mutant: the inner loop does not look at is_running_.
ThreadInnerBlind ==
    /\ thread = "inner"
    /\ \/ thread' = "callback" /\ device = "ok"
       \/ thread' = "check" /\ device = "lost"
    /\ UNCHANGED <<engineVars, device>>

\* while (packet_length > 0 && is_running_): GetBuffer, which may fail.
ThreadInner ==
    /\ thread = "inner"
    /\ \/ thread' = "callback" /\ is_running /\ device = "ok"
       \/ thread' = "check" /\ (~is_running \/ device = "lost")
    /\ UNCHANGED <<engineVars, device>>

\* callback_ under callback_mutex_; it returns.
ThreadCallback ==
    /\ thread = "callback"
    /\ thread' = IF engine = "dummy" THEN "check" ELSE "releasing"
    /\ UNCHANGED <<engineVars, device>>

\* ReleaseBuffer, and GetNextPacketSize for the next turn of the inner loop.
ThreadRelease ==
    /\ thread = "releasing"
    /\ \/ thread' = "inner" /\ device = "ok"
       \/ thread' = "check"
    /\ UNCHANGED <<engineVars, device>>

Thread ==
    \/ ThreadCheck \/ ThreadSizeNone \/ ThreadSizeSome
    \/ ThreadInner \/ ThreadCallback \/ ThreadRelease

-----------------------------------------------------------------------------
(* The main thread: stop(), stop() in the destructor, and the destructor of *)
(* the engine, which calls its stop() once more.                            *)

\* A signal, or the destructor of the server.
StopBegin ==
    /\ main_pc = "run"
    /\ server_running' = FALSE
    /\ main_pc' = "test"
    /\ UNCHANGED <<engine, is_running, held, leaked, device, network_pc, thread, stops,
                   restarted>>

\* if (!is_running_) return;
StopTest ==
    /\ main_pc = "test"
    /\ main_pc' = IF is_running THEN "mark" ELSE "stopped"
    /\ UNCHANGED <<engine, server_running, is_running, held, leaked, device, network_pc,
                   thread, stops, restarted>>

\* Mutant: the thread is not waited for.
StopMarkNoJoin ==
    /\ main_pc = "mark"
    /\ is_running' = FALSE
    /\ main_pc' = "release"
    /\ UNCHANGED <<engine, server_running, held, leaked, device, network_pc, thread,
                   stops, restarted>>

\* is_running_ = false, and the thread is joined if there is one by now.
StopMark ==
    /\ main_pc = "mark"
    /\ is_running' = FALSE
    /\ main_pc' = "joinable"
    /\ UNCHANGED <<engine, server_running, held, leaked, device, network_pc, thread,
                   stops, restarted>>

StopJoinable ==
    /\ main_pc = "joinable"
    /\ main_pc' = IF thread = "none" THEN "release" ELSE "join"
    /\ UNCHANGED <<engine, server_running, is_running, held, leaked, device, network_pc,
                   thread, stops, restarted>>

StopJoin ==
    /\ main_pc = "join"
    /\ thread = "ended"
    /\ thread' = "none"
    /\ main_pc' = "release"
    /\ UNCHANGED <<engine, server_running, is_running, held, leaked, device,
                   network_pc, stops, restarted>>

StopRelease ==
    /\ main_pc = "release"
    /\ held' = {}
    /\ main_pc' = "stopped"
    /\ UNCHANGED <<engine, server_running, is_running, leaked, device, network_pc,
                   thread, stops, restarted>>

\* The rest of the server's stop() joins the network thread.  The third stop()
\* is that of the engine's destructor; the engine is gone after it.
StopReturn ==
    /\ main_pc = "stopped"
    /\ network_pc = "gone"
    /\ stops' = stops + 1
    /\ main_pc' = IF stops' = 3 THEN "destroyed" ELSE "test"
    /\ UNCHANGED <<engine, server_running, is_running, held, leaked, device,
                   network_pc, thread, restarted>>

Main == \/ StopBegin \/ StopTest \/ StopMark \/ StopJoinable \/ StopJoin
        \/ StopRelease \/ StopReturn

\* The endpoint is unplugged, or the default changes and it is invalidated.
DeviceLost ==
    /\ device = "ok" /\ engine = "wasapi"
    /\ device' = "lost"
    /\ UNCHANGED <<engineVars, thread>>

CaptureNext ==
    /\ thread # "terminate"
    /\ Net \/ Thread \/ Main \/ DeviceLost

\* The threads are scheduled; the user need not ever stop the server.
CaptureSpec ==
    /\ CaptureInit /\ [][CaptureNext]_captureVars
    /\ WF_captureVars(Net) /\ WF_captureVars(Thread) /\ WF_captureVars(Main /\ ~StopBegin)

-----------------------------------------------------------------------------
(* Properties                                                              *)

CaptureTypeOK ==
    /\ network_pc \in {"loop", "recv", "gone", "spawn"} \cup {Calls[i] : i \in DOMAIN Calls}
    /\ thread \in {"none", "check", "size", "inner", "callback", "releasing", "ended",
                  "terminate"}
    /\ main_pc \in {"run", "test", "mark", "joinable", "join", "release", "stopped", "destroyed"}
    /\ held \subseteq {Resource[c] : c \in DOMAIN Resource}
    /\ stops \in 0..3

\* The capture thread calls methods of capture_client only while it is held,
\* although a start() under way and stop() share no lock: stop() waits for the
\* thread or, when it comes too early to see one, has cleared is_running_ before
\* the thread first looks at it.  (A start() that a CONNECT_REQ begins during
\* stop() is another matter, ClientHeldAlways.)
ClientHeldWhileUsed ==
    /\ engine = "wasapi" /\ ~restarted
    /\ thread \in {"size", "inner", "releasing"}
    => "capture_client" \in held

\* The same without the exception: violated, a CONNECT_REQ handled while stop()
\* joins the thread sees is_running_ cleared and starts a new one, whose client
\* stop() then releases.
ClientHeldAlways ==
    engine = "wasapi" /\ thread \in {"size", "inner", "releasing"} => "capture_client" \in held

\* Once begun, the shutdown of the server ends, whatever the capture thread is
\* doing and although packets go on arriving: nothing stop() waits for waits.
ShutdownEnds == (main_pc # "run") ~> (main_pc = "destroyed" \/ restarted)

\* What start() has acquired is released: violated by a start() that fails half
\* way, as the next one overwrites the pointers it left.
NothingLeaks == ~leaked /\ (main_pc = "destroyed" => held = {})

\* No thread is left when the engine is destroyed (the destructor of a joinable
\* std::thread ends the program): violated when stop() comes between
\* is_running_ = true and the assignment of capture_thread_.
ThreadJoined == thread # "terminate" /\ (main_pc = "destroyed" => thread = "none")

\* A lost endpoint is replaced: violated, GetNextPacketSize fails for ever and a
\* new CONNECT_REQ finds the engine running.
LostDeviceReplaced == (device = "lost" /\ thread # "none") ~> (thread = "none" \/ ~is_running)
=============================================================================
