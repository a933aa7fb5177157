---------------------------- MODULE JitterBuffer ----------------------------
(***************************************************************************)
(* The client's jitter buffer (src/client/jitter_buffer.{hpp,cpp}).        *)
(*                                                                         *)
(* The network thread pushes packets in whatever order UDP delivers them,  *)
(* the playback thread pops frames in sequence order.  Both hold mutex_    *)
(* for the whole call.  push_packet is one action; the loops of pop_frames *)
(* and advance_playhead_locked are one action per iteration, with pc       *)
(* different from "idle" while the mutex is held, so that their            *)
(* termination is something the model can get wrong.                       *)
(*                                                                         *)
(* Sample data, the statistics counters and the jitter estimate are left   *)
(* out: no branch of the code reads them.  Sequence numbers keep the wrap  *)
(* of uint32_t, at SEQ_MOD.                                                *)
(***************************************************************************)
EXTENDS Integers, FiniteSets, FiniteSetsExt

CONSTANTS
    MAX_SLOTS,                  \* slots of the ring (256)
    SEQ_MOD,                    \* number of sequence numbers (2^32)
    target_buffer_frames,       \* steady-state fill target
    startup_target_frames,      \* fill target of the first fill
    kStableArrivalCount,        \* length of the stability gate (24)
    frames_per_packet,          \* frames concealed for a lost packet
    FrameCounts,                \* num_frames a packet may carry
    PopSizes,                   \* num_frames the player may ask for
    DrainMargin,                \* kDrainMarginMs in frames
    LargeBacklog,               \* the 100 ms of a "large" backlog, in frames
    kDrainChunkFrames, kDrainFastChunkFrames,
    kDrainInterval, kDrainFastInterval, kDrainStartGrace    \* in clock ticks

ASSUME RingAssumption ==
    /\ MAX_SLOTS \in Nat \ {0}
    /\ SEQ_MOD \in Nat
    /\ SEQ_MOD % MAX_SLOTS = 0
    /\ SEQ_MOD > 2 * MAX_SLOTS

ASSUME FramesAssumption ==
    /\ target_buffer_frames \in Nat
    /\ startup_target_frames \in Nat
    /\ kStableArrivalCount \in Nat \ {0}
    /\ frames_per_packet \in Nat \ {0}
    /\ FrameCounts \subseteq Nat \ {0}
    /\ PopSizes \subseteq Nat \ {0}

ASSUME DrainAssumption ==
    /\ DrainMargin \in Nat
    /\ LargeBacklog \in Nat
    /\ kDrainChunkFrames \in Nat \ {0}
    /\ kDrainFastChunkFrames \in Nat \ {0}
    /\ kDrainInterval \in Nat
    /\ kDrainFastInterval \in 0..kDrainInterval
    /\ kDrainStartGrace \in Nat

VARIABLES
    slots,              \* the ring: [valid, seq, frames] per index
    next_play_seq,      \* the playhead
    has_first_packet,
    is_buffering,
    startup_pending,
    hole_free_run,      \* capped at kStableArrivalCount, the only value compared
    last_arrived_seq,   \* NoSeq while has_last_arrived_seq_ is false
    slot_frame_offset,  \* frames of the playhead's packet already consumed
    drain_age,          \* ticks since last_drain_ms_, capped at kDrainInterval
    startup_age,        \* ticks since startup_complete_ms_, capped at the grace
    pc,                 \* "idle", or where pop_frames is: "drain", "play"
    want,               \* num_frames - frames_delivered
    to_drop             \* frames of advance_playhead_locked still to shed

ringVars  == <<slots, next_play_seq, slot_frame_offset>>
gateVars  == <<has_first_packet, startup_pending, hole_free_run, last_arrived_seq>>
clockVars == <<drain_age, startup_age>>
popVars   == <<pc, want, to_drop>>
vars == <<ringVars, gateVars, is_buffering, clockVars, popVars>>

SeqNums   == 0..(SEQ_MOD - 1)
Indices   == 0..(MAX_SLOTS - 1)
NoSeq     == -1
EmptySlot == [valid |-> FALSE, seq |-> 0, frames |-> 0]

-----------------------------------------------------------------------------
(* uint32_t arithmetic on sequence numbers, and the ring.                  *)

SeqInc(s) == IF s = SEQ_MOD - 1 THEN 0 ELSE s + 1

\* seq - base in unsigned arithmetic.
Ahead(seq, base) == IF seq >= base THEN seq - base ELSE seq - base + SEQ_MOD

\* Mutant: the difference stays unsigned.
SeqDiffUnsigned(seq, base) == Ahead(seq, base)

\* int32_t diff = static_cast<int32_t>(seq - base)
SeqDiff(seq, base) ==
    IF 2 * Ahead(seq, base) >= SEQ_MOD THEN Ahead(seq, base) - SEQ_MOD
                                       ELSE Ahead(seq, base)

SlotOf(seq) == seq % MAX_SLOTS

Live(ring, seq) == ring[SlotOf(seq)].valid /\ ring[SlotOf(seq)].seq = seq

ValidSlots(ring) == {i \in Indices : ring[i].valid}

\* Distances from the playhead of the packets it can play without a hole.  The
\* source adds a size_t to the uint32_t playhead, so the comparison does not
\* wrap: the run ends at the last sequence number.
ContiguousRun(ring, head) ==
    {i \in Indices : \A j \in 0..i : head + j < SEQ_MOD /\ Live(ring, head + j)}

ContiguousFrames(ring, head) ==
    MapThenSumSet(LAMBDA i : ring[SlotOf(head + i)].frames, ContiguousRun(ring, head))

TotalValidFrames(ring) == MapThenSumSet(LAMBDA i : ring[i].frames, ValidSlots(ring))

available_frames ==
    LET total == ContiguousFrames(slots, next_play_seq)
    IN  IF total >= slot_frame_offset THEN total - slot_frame_offset ELSE total

-----------------------------------------------------------------------------
TypeOK ==
    /\ slots \in [Indices -> [valid : BOOLEAN, seq : SeqNums, frames : Nat]]
    /\ \A i \in Indices : slots[i].valid => slots[i].frames \in FrameCounts
    /\ next_play_seq \in SeqNums
    /\ has_first_packet \in BOOLEAN
    /\ is_buffering \in BOOLEAN
    /\ startup_pending \in BOOLEAN
    /\ hole_free_run \in 0..kStableArrivalCount
    /\ last_arrived_seq \in SeqNums \cup {NoSeq}
    /\ slot_frame_offset \in Nat
    /\ drain_age \in 0..kDrainInterval
    /\ startup_age \in 0..kDrainStartGrace
    /\ pc \in {"idle", "drain", "play"}
    /\ want \in Nat
    /\ to_drop \in Nat

\* The state configure() leaves; last_drain_ms_ = 0 makes the first drain due.
Init ==
    /\ slots = [i \in Indices |-> EmptySlot]
    /\ next_play_seq = 0
    /\ has_first_packet = FALSE
    /\ is_buffering = TRUE
    /\ startup_pending = TRUE
    /\ hole_free_run = 0
    /\ last_arrived_seq = NoSeq
    /\ slot_frame_offset = 0
    /\ drain_age = kDrainInterval
    /\ startup_age = 0
    /\ pc = "idle"
    /\ want = 0
    /\ to_drop = 0

-----------------------------------------------------------------------------
(* push_packet                                                             *)

\* The first packet of a stream sets the playhead.
HeadFor(seq) == IF has_first_packet THEN next_play_seq ELSE seq

\* Mutant: every packet behind the playhead is late, however far.
IsLateAnyAge(seq) == SeqDiff(seq, HeadFor(seq)) < 0

IsLate(seq) == SeqDiff(seq, HeadFor(seq)) \in (1 - MAX_SLOTS)..(-1)

\* Mutant: off by one, a packet MAX_SLOTS ahead still counts as in the window.
NeedsResyncOffByOne(seq) == SeqDiff(seq, HeadFor(seq)) \notin (1 - MAX_SLOTS)..MAX_SLOTS

\* Mutant: only a forward jump flushes, a server restart does not.
NeedsResyncForwardOnly(seq) == SeqDiff(seq, HeadFor(seq)) >= MAX_SLOTS

\* Too far behind or ahead for the ring: flush it and restart at this packet.
NeedsResync(seq) == SeqDiff(seq, HeadFor(seq)) \notin (1 - MAX_SLOTS)..(MAX_SLOTS - 1)

IsDuplicate(seq) == ~NeedsResync(seq) /\ Live(slots, seq)

RingAfterResync(seq) ==
    IF NeedsResync(seq) THEN [i \in Indices |-> EmptySlot] ELSE slots

HeadAfterResync(seq) == IF NeedsResync(seq) THEN seq ELSE HeadFor(seq)

\* Mutant: a resync keeps the offset into the packet it flushed.
OffsetNotReset(seq) == slot_frame_offset

OffsetAfterResync(seq) == IF NeedsResync(seq) THEN 0 ELSE slot_frame_offset

BufferingAfterResync(seq) == is_buffering \/ NeedsResync(seq) \/ ~has_first_packet

\* A packet no later than the window behind the playhead, or one already held.
PushDropped(seq) ==
    /\ pc = "idle"
    /\ IsLate(seq) \/ IsDuplicate(seq)
    /\ UNCHANGED vars

\* Is the fill deep enough to start playing?
FillComplete(ring, head, run) ==
    LET fill   == IF startup_pending THEN startup_target_frames ELSE target_buffer_frames
        escape == IF startup_pending THEN 2 * fill ELSE fill
    IN  \/ ContiguousFrames(ring, head) >= fill /\ run >= kStableArrivalCount
        \/ TotalValidFrames(ring) >= escape

\* The run of consecutive arrivals that ends with seq.
RunWith(seq) ==
    IF last_arrived_seq # NoSeq /\ seq = SeqInc(last_arrived_seq)
    THEN IF hole_free_run < kStableArrivalCount THEN hole_free_run + 1
                                                ELSE kStableArrivalCount
    ELSE 1

PushStored(seq, frames) ==
    /\ pc = "idle"
    /\ ~IsLate(seq) /\ ~IsDuplicate(seq)
    /\ has_first_packet' = TRUE
    /\ next_play_seq' = HeadAfterResync(seq)
    /\ slot_frame_offset' = OffsetAfterResync(seq)
    /\ slots' = [RingAfterResync(seq) EXCEPT
                   ![SlotOf(seq)] = [valid |-> TRUE, seq |-> seq, frames |-> frames]]
    /\ hole_free_run' = RunWith(seq)
    /\ last_arrived_seq' = seq
    /\ LET done == BufferingAfterResync(seq)
                     /\ FillComplete(slots', next_play_seq', hole_free_run')
       IN  /\ is_buffering' = (BufferingAfterResync(seq) /\ ~done)
           /\ startup_pending' = (startup_pending /\ ~done)
           /\ startup_age' = IF startup_pending /\ done THEN 0 ELSE startup_age
    /\ UNCHANGED <<drain_age, popVars>>

-----------------------------------------------------------------------------
(* pop_frames and advance_playhead_locked                                  *)

\* While buffering the player is handed silence and nothing changes.
PopSilence ==
    /\ pc = "idle"
    /\ is_buffering \/ ~has_first_packet
    /\ UNCHANGED vars

LargeExcess == available_frames > target_buffer_frames + LargeBacklog

DrainDue ==
    /\ ~startup_pending
    /\ startup_age >= kDrainStartGrace
    /\ available_frames > target_buffer_frames + DrainMargin
    /\ drain_age >= IF LargeExcess THEN kDrainFastInterval ELSE kDrainInterval

\* Mutant: sheds a whole chunk however small the excess.
DrainWholeChunk == IF LargeExcess THEN kDrainFastChunkFrames ELSE kDrainChunkFrames

\* Frames one drain sheds: a chunk, never below target + margin.
DrainAmount ==
    LET excess == available_frames - target_buffer_frames - DrainMargin
        chunk  == IF LargeExcess THEN kDrainFastChunkFrames ELSE kDrainChunkFrames
    IN  IF excess \in 0..chunk THEN excess ELSE chunk

PopStart(num_frames) ==
    /\ pc = "idle"
    /\ ~is_buffering /\ has_first_packet
    /\ want' = num_frames
    /\ IF DrainDue
       THEN pc' = "drain" /\ to_drop' = DrainAmount /\ drain_age' = 0
       ELSE pc' = "play"  /\ UNCHANGED <<to_drop, drain_age>>
    /\ UNCHANGED <<ringVars, gateVars, is_buffering, startup_age>>

PlayheadLive == Live(slots, next_play_seq)

\* size_t available_in_slot = slot.num_frames - slot_frame_offset_
Remaining == slots[SlotOf(next_play_seq)].frames - slot_frame_offset

\* The playhead leaves its slot, which is invalidated.
LeaveSlot ==
    /\ slots' = [slots EXCEPT ![SlotOf(next_play_seq)] = EmptySlot]
    /\ slot_frame_offset' = 0
    /\ next_play_seq' = SeqInc(next_play_seq)

\* The last frames to shed end inside the playhead's packet.
DrainWithin ==
    /\ pc = "drain"
    /\ PlayheadLive /\ to_drop < Remaining
    /\ slot_frame_offset' = slot_frame_offset + to_drop
    /\ to_drop' = 0
    /\ pc' = "play"
    /\ UNCHANGED <<slots, next_play_seq, gateVars, is_buffering, clockVars, want>>

\* A whole packet is shed, or a hole skipped, which counts for no frames.
DrainPast ==
    /\ pc = "drain"
    /\ ~(PlayheadLive /\ to_drop < Remaining)
    /\ LeaveSlot
    /\ to_drop' = IF PlayheadLive THEN to_drop - Remaining ELSE to_drop
    /\ pc' = IF to_drop' = 0 THEN "play" ELSE "drain"
    /\ UNCHANGED <<gateVars, is_buffering, clockVars, want>>

Deliver(n) ==
    /\ want' = want - n
    /\ pc' = IF want' = 0 THEN "idle" ELSE "play"

\* The player takes the last frames it needs and stays in the packet.
PlayWithin ==
    /\ pc = "play"
    /\ PlayheadLive /\ want < Remaining
    /\ slot_frame_offset' = slot_frame_offset + want
    /\ Deliver(want)
    /\ UNCHANGED <<slots, next_play_seq, gateVars, is_buffering, clockVars, to_drop>>

\* The player takes the rest of the packet.
PlayPast ==
    /\ pc = "play"
    /\ PlayheadLive /\ want >= Remaining
    /\ LeaveSlot
    /\ Deliver(Remaining)
    /\ UNCHANGED <<gateVars, is_buffering, clockVars, to_drop>>

\* Mutant: the scan stops one slot early.
HasFuturePacketsShort ==
    \E i \in 1..(MAX_SLOTS - 2) : slots[SlotOf(next_play_seq + i)].valid

HasFuturePackets ==
    \E i \in 1..(MAX_SLOTS - 1) : slots[SlotOf(next_play_seq + i)].valid

\* A lost packet is replaced by at most frames_per_packet frames of silence.
PlayConceal ==
    /\ pc = "play"
    /\ ~PlayheadLive /\ HasFuturePackets
    /\ LeaveSlot
    /\ Deliver(IF want < frames_per_packet THEN want ELSE frames_per_packet)
    /\ UNCHANGED <<gateVars, is_buffering, clockVars, to_drop>>

\* Mutant: waits for packets inside the loop instead of filling with silence.
PlayDrySpins ==
    /\ pc = "play"
    /\ ~PlayheadLive /\ ~HasFuturePackets
    /\ is_buffering' = TRUE
    /\ UNCHANGED <<ringVars, gateVars, clockVars, popVars>>

\* Nothing left to play: silence, and back to buffering.
PlayDry ==
    /\ pc = "play"
    /\ ~PlayheadLive /\ ~HasFuturePackets
    /\ is_buffering' = TRUE
    /\ Deliver(want)
    /\ UNCHANGED <<ringVars, gateVars, clockVars, to_drop>>

-----------------------------------------------------------------------------
\* get_time_ms() advances; both ages are compared with constants only.
Tick ==
    /\ pc = "idle"
    /\ drain_age' = IF drain_age < kDrainInterval THEN drain_age + 1 ELSE drain_age
    /\ startup_age' = IF ~startup_pending /\ startup_age < kDrainStartGrace
                      THEN startup_age + 1 ELSE startup_age
    /\ UNCHANGED <<ringVars, gateVars, is_buffering, popVars>>

Push == \E seq \in SeqNums :
            \/ PushDropped(seq)
            \/ \E frames \in FrameCounts : PushStored(seq, frames)

PopStep == \/ DrainWithin \/ DrainPast
           \/ PlayWithin \/ PlayPast \/ PlayConceal \/ PlayDry

Pop == PopSilence \/ \E n \in PopSizes : PopStart(n)

Next == Push \/ Pop \/ PopStep \/ Tick

Spec == Init /\ [][Next]_vars

\* A thread inside pop_frames is scheduled: the loop does not wait for anything.
FairSpec == Spec /\ WF_vars(PopStep)

-----------------------------------------------------------------------------
(* Safety                                                                  *)

\* Every packet held lies in its own slot and less than MAX_SLOTS ahead of the
\* playhead, whatever the order of arrival, the resyncs and the wrap of
\* seq_num: no packet already passed is left to be played as a future one, and
\* no two packets of the window compete for a slot.
WindowInv ==
    \A i \in Indices :
        slots[i].valid => /\ SlotOf(slots[i].seq) = i
                          /\ Ahead(slots[i].seq, next_play_seq) < MAX_SLOTS

\* slot_frame_offset_ only ever points inside the packet at the playhead, so
\* slot.num_frames - slot_frame_offset_ cannot wrap below zero and the memcpy in
\* pop_frames reads inside pcm_data: the offset does not outlive its packet.
OffsetInv ==
    slot_frame_offset > 0 =>
        /\ Live(slots, next_play_seq)
        /\ slot_frame_offset < slots[SlotOf(next_play_seq)].frames

\* While advance_playhead_locked sheds frames, the packets it has still to shed
\* and the target plus margin are buffered without a hole: draining never eats
\* into the configured latency.
DrainKeepsTarget ==
    pc = "drain" =>
        available_frames >= to_drop + target_buffer_frames + DrainMargin

\* A packet waiting to be played is not replaced by another one: it leaves the
\* buffer when the playhead passes it or when a resync empties the buffer.
NoLiveOverwrite ==
    [][\A i \in Indices :
          slots[i].valid /\ slots'[i] # slots[i] =>
             \/ next_play_seq' = SeqInc(slots[i].seq) /\ ~slots'[i].valid
             \/ \A j \in Indices : slots'[j].valid => slots'[j].seq = next_play_seq']_vars

\* pop_frames goes back to buffering after a dry-out only when the buffer is
\* empty: no packet is stranded behind the silence it then plays.
DryMeansEmpty ==
    [][pc = "play" /\ is_buffering' => ValidSlots(slots) = {}]_vars

\* Every call of pop_frames returns: advance_playhead_locked, whose loop counts
\* no frames for a hole, is never given more frames than it can shed.
PopReturns == (pc # "idle") ~> (pc = "idle")

\* What jitter_buffer.cpp says of a re-buffer: "the stability gate in push_packet
\* restarts playback only once delivery is steady again", the escape being for
\* lossy delivery.  So when nothing is missing from the buffer, playback restarts
\* after kStableArrivalCount consecutive arrivals and not before.
RebufferGate ==
    [][/\ is_buffering /\ ~is_buffering' /\ ~startup_pending
       /\ ContiguousFrames(slots', next_play_seq') = TotalValidFrames(slots')
       => hole_free_run' >= kStableArrivalCount]_vars
=============================================================================
