---------------------------- MODULE TermuxProofs -----------------------------
(***************************************************************************)
(* Theorems about TermuxApiPlayer: the issuer never sleeps through a       *)
(* handover, and as long as commands are not slower than the pool has room *)
(* for, the recorder never catches up with a file that is still needed.    *)
(***************************************************************************)
EXTENDS TermuxApiPlayer, TLAPS

-----------------------------------------------------------------------------
(* The handover                                                            *)

\* What neither fills nor empties the slot between the recorder and the issuer, and
\* does not put the issuer to sleep.
SlotKept ==
    \/ OpenFile \/ WriteFails \/ PlayConfirmed \/ PlayUnconfirmed \/ PlayFailed
    \/ WatchdogWakes \/ WatchdogResume \/ WatchdogRecover \/ WatchdogNothing
    \/ CloseBegin \/ CloseStopIssuer \/ CloseNotify \/ AppLosesTrack \/ AppPauses

LEMMA HandoverStep ==
    ASSUME HandoverNotMissed, [Next]_vars
    PROVE  HandoverNotMissed'
<1> USE DEF HandoverNotMissed
<1>1. CASE SlotKept
  <2>1. pending' = pending
    BY <1>1 DEF SlotKept, OpenFile, WriteFails, PlayConfirmed, PlayUnconfirmed, PlayFailed,
       WatchdogWakes, WatchdogResume, WatchdogRecover, WatchdogNothing, CloseBegin,
       CloseStopIssuer, CloseNotify, AppLosesTrack, AppPauses
  <2>2. issuer' = issuer \/ issuer' = "check"
    BY <1>1 DEF SlotKept, OpenFile, WriteFails, PlayConfirmed, PlayUnconfirmed, PlayFailed,
       WatchdogWakes, WatchdogResume, WatchdogRecover, WatchdogNothing, CloseBegin,
       CloseStopIssuer, CloseNotify, AppLosesTrack, AppPauses
  <2> QED
    BY <2>1, <2>2
<1>2. CASE WriteOn \/ WriteFull
  <2>1. (\E file : HandOver(file)) \/ UNCHANGED <<pending, issuer>>
    BY <1>2 DEF WriteOn, WriteFull, HandOverIfReady
  <2> QED
    BY <2>1 DEF HandOver, HandoffFree
<1>3. CASE Open \/ CloseJoinIssuer
  BY <1>3 DEF Open, CloseJoinIssuer
<1>4. CASE IssuerCheck
  BY <1>4 DEF IssuerCheck
<1>5. CASE IssuerSleep
  BY <1>5 DEF IssuerSleep
<1>6. CASE UNCHANGED vars
  BY <1>6 DEF vars
<1> QED
  BY <1>1, <1>2, <1>3, <1>4, <1>5, <1>6 DEF Next, SlotKept

\* handoff_mutex_ is held from the issuer's look at the slot until it sleeps, so a file
\* is handed over before the look or wakes it.
THEOREM HandoverNeverMissed == Spec => []HandoverNotMissed
<1>1. Init => HandoverNotMissed
  BY DEF Init, HandoverNotMissed
<1>2. HandoverNotMissed /\ [Next]_vars => HandoverNotMissed'
  BY HandoverStep
<1> QED
  BY <1>1, <1>2, PTL DEF Spec

-----------------------------------------------------------------------------
(* The pool as a ring                                                      *)

LEMMA NextSlotWraps ==
    ASSUME NEW i \in Slots
    PROVE  NextSlot(i) = IF i + 1 = kPoolSize THEN 0 ELSE i + 1
  BY TermuxAssumption DEF TermuxAssumption, Slots, NextSlot

\* A file that is not the oldest survives the opening of the next one, and ages.
LEMMA Rotation ==
    ASSUME NEW i \in Slots, NEW f \in Slots, Age(i, f) < kPoolSize - 1
    PROVE  /\ NextSlot(i) # f
           /\ Age(NextSlot(i), f) = Age(i, f) + 1
  BY NextSlotWraps, TermuxAssumption DEF TermuxAssumption, Slots, Age

LEMMA Ages ==
    ASSUME NEW i \in Slots, NEW f \in Slots
    PROVE  /\ Age(i, f) \in Nat /\ (Age(i, f) = 0 <=> f = i)
           /\ NextSlot(i) \in Slots
  BY NextSlotWraps, TermuxAssumption DEF TermuxAssumption, Slots, Age

LEMMA NewestSurvives ==
    ASSUME NEW i \in Slots
    PROVE  /\ Age(i, i) = 0 /\ NextSlot(i) \in Slots /\ NextSlot(i) # i
           /\ Age(NextSlot(i), i) = 1
  BY NextSlotWraps, TermuxAssumption DEF TermuxAssumption, Slots, Age

\* Two commands of the slack, and the file before them, fit into the pool.
LEMMA Slack ==
    /\ CommandSlack \in Nat
    /\ 2 * CommandSlack + 2 <= kPoolSize
    /\ CommandSlack + 3 <= kPoolSize
  BY TermuxAssumption DEF TermuxAssumption, CommandSlack

LEMMA NoSlot == None \notin Slots /\ None \in Int /\ None < Prefill
  BY TermuxAssumption DEF TermuxAssumption, Slots, None

-----------------------------------------------------------------------------
(* The files, as long as the app and the disk are reliable                 *)

PoolTypes ==
    /\ seg_index \in Slots /\ seg_frames \in Nat
    /\ {pending, job, prev_path} \subseteq Slots \cup {None}
    /\ recorded \in [Slots -> Int]
    /\ result_channel
    /\ job # None <=> issuer = "play"
    /\ closer = "closed" => issuer = "exited"

\* The file that is recorded is intact, and nobody else's before it is handed over.
RecordingInv ==
    seg # None =>
        /\ seg = seg_index /\ recorded[seg] = seg_frames
        /\ ~seg_issued => seg \notin {pending, job, prev_path}

\* The files that wait and are played hold their prefill.
HandedOverInv ==
    \A f \in {pending, job} \ {None} : recorded[f] >= Prefill

\* The file that waits is newer than the one that is played, and both are newer than the
\* one to be truncated next, which the recorder had not left far behind when the command
\* began.
OrderInv ==
    /\ pending # None /\ job # None => Age(seg_index, pending) < Age(seg_index, job)
    /\ pending # None /\ prev_path # None =>
          Age(seg_index, pending) < Age(seg_index, prev_path)
    /\ job # None /\ prev_path # None =>
          /\ Age(seg_index, job) < Age(seg_index, prev_path)
          /\ Age(seg_index, prev_path) <= CommandSlack + 1 + Age(seg_index, job)

PoolInv == PoolTypes /\ RecordingInv /\ HandedOverInv /\ OrderInv

\* What leaves the files and those who need them alone.
FilesKept ==
    \/ IssuerSleep \/ WatchdogWakes \/ WatchdogResume \/ WatchdogNothing
    \/ CloseBegin \/ CloseStopIssuer \/ CloseNotify \/ AppLosesTrack \/ AppPauses

LEMMA FilesKeptStep ==
    ASSUME PoolInv, FilesKept \/ UNCHANGED vars
    PROVE  PoolInv'
<1>1. UNCHANGED <<seg_index, seg_frames, seg, seg_issued, pending, job, prev_path, recorded>>
  BY DEF FilesKept, IssuerSleep, WatchdogWakes, WatchdogResume, WatchdogNothing, CloseBegin,
     CloseStopIssuer, CloseNotify, AppLosesTrack, AppPauses, vars, recorder
<1>2. UNCHANGED result_channel /\ (closer' = closer \/ closer' # "closed")
  BY DEF FilesKept, IssuerSleep, WatchdogWakes, WatchdogResume, WatchdogNothing, CloseBegin,
     CloseStopIssuer, CloseNotify, AppLosesTrack, AppPauses, vars, channel
<1>3. \/ issuer' = issuer
      \/ issuer \in {"deciding", "asleep"} /\ issuer' \in {"asleep", "check"}
  BY DEF FilesKept, IssuerSleep, WatchdogWakes, WatchdogResume, WatchdogNothing, CloseBegin,
     CloseStopIssuer, CloseNotify, AppLosesTrack, AppPauses, vars
<1> QED
  BY <1>1, <1>2, <1>3 DEF PoolInv, PoolTypes, RecordingInv, HandedOverInv, OrderInv

\* None of the files that somebody needs is the one to be opened next: for the file of
\* the last play it takes the slack of two commands, the one that has begun and the one
\* that keeps pace after the step.
LEMMA NeededFilesSurvive ==
    ASSUME PoolInv, KeepsPace(CommandSlack), KeepsPace(CommandSlack)',
           seg_index' = NextSlot(seg_index), UNCHANGED <<job, prev_path>>,
           NEW f \in {pending, job, prev_path} \ {None}
    PROVE  /\ f \in Slots /\ f # seg_index'
           /\ Age(seg_index', f) = Age(seg_index, f) + 1
<1> USE DEF PoolInv, PoolTypes
<1>1. /\ seg_index \in Slots /\ f \in Slots /\ kPoolSize \in Nat
      /\ CommandSlack \in Nat /\ Age(seg_index, f) \in Nat
  BY Ages, Slack, TermuxAssumption DEF TermuxAssumption
<1>2. CASE f \in {pending, job}
  <2>1. Age(seg_index, f) <= CommandSlack
    BY <1>2 DEF KeepsPace
  <2> QED
    BY <1>1, <2>1, Rotation, Slack
<1>3. CASE f = prev_path /\ job = None
  <2>1. Age(seg_index, f) <= CommandSlack + 1
    BY <1>3 DEF KeepsPace
  <2> QED
    BY <1>1, <2>1, Rotation, Slack
<1>4. CASE f = prev_path /\ job # None
  <2>1. job \in Slots /\ Age(seg_index, job) \in Nat /\ Age(seg_index, job) <= CommandSlack
    BY <1>1, <1>4, Ages DEF KeepsPace
  <2>2. Age(NextSlot(seg_index), job) = Age(seg_index, job) + 1
    BY <1>1, <2>1, Rotation, Slack
  <2>3. Age(seg_index, job) + 1 <= CommandSlack
    BY <1>4, <2>2 DEF KeepsPace, Age
  <2>4. Age(seg_index, f) <= 2 * CommandSlack
    BY <1>1, <1>4, <2>1, <2>3 DEF OrderInv
  <2> QED
    BY <1>1, <2>4, Rotation, Slack
<1> QED
  BY <1>2, <1>3, <1>4

\* The next file is opened, perhaps after the one before it was handed over: every other
\* one ages.
LEMMA NextFileStep ==
    ASSUME PoolInv, KeepsPace(CommandSlack), KeepsPace(CommandSlack)',
           seg_index' = NextSlot(seg_index), seg' = seg_index', seg_frames' = 0,
           recorded' \in [Slots -> Int], recorded'[seg_index'] = 0,
           \A f \in Slots \ {seg_index'} :
               recorded'[f] = recorded[f] \/ recorded'[f] >= Prefill,
           \/ pending' = pending
           \/ /\ pending' = seg_index /\ seg_index \notin {job, prev_path}
              /\ recorded'[seg_index] >= Prefill,
           issuer' = issuer \/ (issuer' = "check" /\ issuer = "asleep"),
           UNCHANGED <<closer, result_channel, job, prev_path>>
    PROVE  PoolInv'
<1> USE DEF PoolInv, PoolTypes
<1>1. PoolTypes'
  BY Ages
<1>2. \A f \in {pending, job, prev_path} \ {None} :
         /\ f \in Slots /\ f # seg_index'
         /\ Age(seg_index', f) = Age(seg_index, f) + 1 /\ Age(seg_index, f) \in Nat
  BY NeededFilesSurvive, Ages
<1>3. seg_index' # None
  BY <1>1, NoSlot
<1>4. CASE pending' = pending
  <2>1. RecordingInv'
    BY <1>2, <1>3, <1>4 DEF RecordingInv
  <2>2. HandedOverInv'
    BY <1>2, <1>4 DEF HandedOverInv
  <2>3. OrderInv'
    BY <1>2, <1>4, Slack DEF OrderInv
  <2> QED
    BY <1>1, <2>1, <2>2, <2>3
<1>5. CASE /\ pending' = seg_index /\ seg_index \notin {job, prev_path}
           /\ recorded'[seg_index] >= Prefill
  <2>1. /\ Age(seg_index, seg_index) = 0 /\ seg_index # seg_index'
        /\ Age(seg_index', seg_index) = 1
    BY NewestSurvives
  <2>2. \A f \in {job, prev_path} \ {None} : Age(seg_index, f) > 0
    BY <1>2, <1>5, Ages
  <2>3. RecordingInv'
    BY <1>2, <1>3, <1>5, <2>1 DEF RecordingInv
  <2>4. HandedOverInv'
    BY <1>2, <1>5 DEF HandedOverInv
  <2>5. OrderInv'
    BY <1>2, <1>5, <2>1, <2>2, Slack DEF OrderInv
  <2> QED
    BY <1>1, <2>3, <2>4, <2>5
<1> QED
  BY <1>4, <1>5

\* The two that open a file.
LEMMA OpenFileStep ==
    ASSUME PoolInv, KeepsPace(CommandSlack), KeepsPace(CommandSlack)', reliable, OpenFile
    PROVE  PoolInv'
<1>1. /\ seg_index' = NextSlot(seg_index) /\ seg' = seg_index' /\ seg_frames' = 0
      /\ recorded' = [recorded EXCEPT ![seg_index'] = 0]
  BY DEF OpenFile, OpenNext, Files
<1>2. /\ recorded' \in [Slots -> Int] /\ recorded'[seg_index'] = 0
      /\ \A f \in Slots \ {seg_index'} : recorded'[f] = recorded[f]
  BY <1>1, Ages DEF PoolInv, PoolTypes
<1>3. UNCHANGED <<closer, result_channel, pending, issuer, job, prev_path>>
  BY DEF OpenFile, channel
<1> QED
  BY <1>1, <1>2, <1>3, NextFileStep

LEMMA WriteFullStep ==
    ASSUME PoolInv, KeepsPace(CommandSlack), KeepsPace(CommandSlack)', reliable, WriteFull
    PROVE  PoolInv'
<1> USE DEF PoolInv, PoolTypes
<1>1. /\ seg # None /\ seg = seg_index /\ seg_index \in Slots /\ recorded[seg] # None
      /\ NextSlot(seg_index) \in Slots /\ NextSlot(seg_index) # seg_index
  <2>1. seg # None /\ seg = seg_index /\ recorded[seg] \in Nat
    BY DEF WriteFull, RecordingInv
  <2> QED
    BY <2>1, NewestSurvives DEF None
<1>2. /\ seg_index' = NextSlot(seg_index) /\ seg' = seg_index' /\ seg_frames' = 0
      /\ recorded' = [recorded EXCEPT ![seg] = SegmentChunks, ![seg_index'] = 0]
      /\ UNCHANGED <<closer, result_channel, job, prev_path>>
  BY <1>1 DEF WriteFull, OpenNext, Files, channel
<1>3. /\ recorded' \in [Slots -> Int] /\ recorded'[seg_index'] = 0
      /\ recorded'[seg_index] >= Prefill
      /\ \A f \in Slots \ {seg_index'} :
            recorded'[f] = recorded[f] \/ recorded'[f] >= Prefill
  BY <1>1, <1>2, TermuxAssumption DEF TermuxAssumption
<1>4. /\ \/ pending' = pending
         \/ pending' = seg_index /\ seg_index \notin {job, prev_path}
      /\ issuer' = "play" <=> issuer = "play"
      /\ issuer' = issuer \/ (issuer' = "check" /\ issuer = "asleep")
  BY <1>1 DEF WriteFull, HandOverIfReady, HandOver, RecordingInv
<1> QED
  BY <1>2, <1>3, <1>4, NextFileStep

\* A file that grows to its prefill is handed over, and is then the newest one.
LEMMA WriteOnStep ==
    ASSUME PoolInv, reliable, WriteOn
    PROVE  PoolInv'
<1> USE DEF PoolInv, PoolTypes
<1>1. /\ seg = seg_index /\ seg # None /\ seg_index \in Slots
      /\ recorded[seg] = seg_frames /\ seg_frames \in Nat
  BY DEF WriteOn, RecordingInv
<1>2. /\ seg_frames' = seg_frames + 1
      /\ recorded' = [recorded EXCEPT ![seg] = seg_frames + 1]
      /\ UNCHANGED <<seg, seg_index, closer, result_channel, job, prev_path>>
  <2>1. recorded[seg] # None
    BY <1>1 DEF None
  <2> QED
    BY <2>1 DEF WriteOn, Files, channel
<1>3. /\ recorded' \in [Slots -> Int] /\ recorded'[seg] = seg_frames'
      /\ \A f \in Slots : recorded[f] >= Prefill => recorded'[f] >= Prefill
  BY <1>1, <1>2, TermuxAssumption DEF TermuxAssumption
<1>4. CASE UNCHANGED <<pending, issuer>> /\ (seg_issued => seg_issued')
  <2>1. HandedOverInv'
    BY <1>2, <1>3, <1>4 DEF HandedOverInv
  <2>2. RecordingInv'
    BY <1>2, <1>3, <1>4 DEF RecordingInv
  <2>3. OrderInv'
    BY <1>2, <1>4 DEF OrderInv
  <2>4. PoolTypes'
    BY <1>1, <1>2, <1>3, <1>4
  <2> QED
    BY <2>1, <2>2, <2>3, <2>4
<1>5. CASE ~seg_issued /\ seg_issued' /\ seg_frames + 1 >= Prefill /\ HandOver(seg)
  <2>1. /\ pending' = seg /\ seg \notin {job, prev_path}
        /\ issuer' = "play" <=> issuer = "play"
        /\ issuer' = issuer \/ (issuer' = "check" /\ issuer = "asleep")
    BY <1>1, <1>5 DEF HandOver, RecordingInv
  <2>2. /\ Age(seg_index, seg) = 0
        /\ \A f \in {job, prev_path} \ {None} : Age(seg_index, f) > 0
    BY <1>1, <2>1, Ages
  <2>3. HandedOverInv'
    BY <1>1, <1>2, <1>3, <1>5, <2>1 DEF HandedOverInv
  <2>4. OrderInv'
    BY <1>1, <1>2, <2>1, <2>2 DEF OrderInv
  <2>5. RecordingInv'
    BY <1>2, <1>3, <1>5 DEF RecordingInv
  <2>6. PoolTypes'
    BY <1>1, <1>2, <1>3, <2>1
  <2> QED
    BY <2>3, <2>4, <2>5, <2>6
<1>6. CASE ~seg_issued /\ seg_frames + 1 >= Prefill
  BY <1>5, <1>6 DEF WriteOn, HandOverIfReady
<1>7. CASE seg_issued \/ ~(seg_frames + 1 >= Prefill)
  BY <1>4, <1>7 DEF WriteOn, HandOverIfReady
<1> QED
  BY <1>6, <1>7

\* The issuer takes the file that waits.
LEMMA IssuerCheckStep ==
    ASSUME PoolInv, KeepsPace(CommandSlack), IssuerCheck
    PROVE  PoolInv'
<1> USE DEF PoolInv, PoolTypes
<1>1. /\ issuer = "check" /\ job = None
      /\ UNCHANGED <<seg_index, seg_frames, seg, seg_issued, prev_path, recorded, closer,
                     result_channel>>
  BY DEF IssuerCheck, recorder, channel
<1>2. CASE pending # None /\ job' = pending /\ pending' = None /\ issuer' = "play"
  <2>1. RecordingInv' /\ HandedOverInv'
    BY <1>1, <1>2, NoSlot DEF RecordingInv, HandedOverInv
  <2>2. prev_path # None =>
          /\ Age(seg_index, pending) < Age(seg_index, prev_path)
          /\ Age(seg_index, prev_path) <= CommandSlack + 1
          /\ Age(seg_index, prev_path) \in Nat /\ Age(seg_index, pending) \in Nat
    BY <1>1, <1>2, Ages DEF OrderInv, KeepsPace
  <2>3. OrderInv'
    BY <1>1, <1>2, <2>2, Slack DEF OrderInv
  <2> QED
    BY <1>1, <1>2, <2>1, <2>3
<1>3. CASE UNCHANGED <<pending, job>> /\ issuer' \in {"exited", "deciding"}
  BY <1>1, <1>3 DEF RecordingInv, HandedOverInv, OrderInv
<1> QED
  BY <1>2, <1>3 DEF IssuerCheck

\* The file that is truncated when the next play is confirmed is neither recorded nor
\* waiting to be played.
LEMMA PlayConfirmedStep ==
    ASSUME PoolInv, reliable, PlayConfirmed
    PROVE  PoolInv'
<1> USE DEF PoolInv, PoolTypes
<1>1. /\ issuer = "play" /\ issuer' = "check" /\ prev_path' = job /\ job' = None
      /\ UNCHANGED <<seg_index, seg_frames, seg, seg_issued, pending, closer,
                     result_channel>>
  BY DEF PlayConfirmed, recorder
<1>2. /\ job # None /\ job \in Slots /\ Age(seg_index, job) \in Nat
  BY <1>1, Ages
<1>3. recorded' = IF prev_path \in Slots \ {job}
                  THEN [recorded EXCEPT ![prev_path] = None] ELSE recorded
  BY DEF PlayConfirmed, Files
<1>4. prev_path # None => prev_path # seg_index /\ prev_path # pending
  <2>1. prev_path # None => Age(seg_index, prev_path) > Age(seg_index, job)
    BY <1>2, Ages DEF OrderInv
  <2>2. pending # None /\ prev_path # None => Age(seg_index, pending) < Age(seg_index, prev_path)
    BY DEF OrderInv
  <2>3. prev_path # None => Age(seg_index, prev_path) \in Nat
    BY Ages
  <2> QED
    BY <1>2, <2>1, <2>2, <2>3, Ages
<1>5. /\ recorded' \in [Slots -> Int]
      /\ seg_index # prev_path => recorded'[seg_index] = recorded[seg_index]
      /\ pending # None /\ pending # prev_path => recorded'[pending] = recorded[pending]
  BY <1>3, NoSlot
<1>6. RecordingInv'
  BY <1>1, <1>2, <1>4, <1>5, NoSlot DEF RecordingInv
<1>7. HandedOverInv'
  BY <1>1, <1>4, <1>5, NoSlot DEF HandedOverInv
<1>8. OrderInv'
  BY <1>1, <1>2 DEF OrderInv
<1> QED
  BY <1>1, <1>2, <1>5, <1>6, <1>7, <1>8

\* The recording restarts at live audio.
LEMMA RecoverStep ==
    ASSUME PoolInv, WatchdogRecover
    PROVE  PoolInv'
<1>1. UNCHANGED <<seg_index, pending, issuer, job, prev_path, recorded, closer,
                  result_channel>>
  BY DEF WatchdogRecover, Discard, recorder, channel
<1>2. \/ UNCHANGED <<seg, seg_frames, seg_issued>>
      \/ seg' = None /\ seg_frames' = 0
  BY DEF WatchdogRecover, Discard, recorder
<1> QED
  BY <1>1, <1>2 DEF PoolInv, PoolTypes, RecordingInv, HandedOverInv, OrderInv

LEMMA OpenCloseStep ==
    ASSUME PoolInv, Open \/ CloseJoinIssuer, reliable
    PROVE  PoolInv'
<1> USE DEF PoolInv, PoolTypes
<1>1. CASE Open
  <2>1. /\ closer' = "idle" /\ seg' = None /\ seg_index' = 0 /\ seg_frames' = 0 /\ pending' = None
        /\ issuer' = "check" /\ prev_path' = None /\ result_channel'
        /\ UNCHANGED <<job, recorded>>
    BY <1>1 DEF Open
  <2>2. 0 \in Slots
    BY TermuxAssumption DEF TermuxAssumption, Slots
  <2>3. job = None
    BY <1>1 DEF Open
  <2> QED
    BY <2>1, <2>2, <2>3 DEF RecordingInv, HandedOverInv, OrderInv
<1>2. CASE CloseJoinIssuer
  <2>1. /\ seg' = None /\ seg_frames' = 0 /\ pending' = None
        /\ issuer = "exited"
        /\ UNCHANGED <<result_channel, seg_index, issuer, job, prev_path, recorded>>
    BY <1>2 DEF CloseJoinIssuer, channel
  <2> QED
    BY <2>1 DEF RecordingInv, HandedOverInv, OrderInv
<1> QED
  BY <1>1, <1>2

LEMMA PoolStep ==
    ASSUME reliable, PoolInv, [Next]_vars, KeepsPace(CommandSlack), KeepsPace(CommandSlack)'
    PROVE  reliable' /\ PoolInv'
<1>1. CASE FilesKept \/ UNCHANGED vars
  BY <1>1, FilesKeptStep DEF FilesKept, IssuerSleep, WatchdogWakes, WatchdogResume,
     WatchdogNothing, CloseBegin, CloseStopIssuer, CloseNotify, AppLosesTrack, AppPauses,
     vars, app
<1>2. CASE Open \/ CloseJoinIssuer
  BY <1>2, OpenCloseStep DEF Open, CloseJoinIssuer, app
<1>3. CASE WriteOn
  BY <1>3, WriteOnStep DEF WriteOn, app
<1>4. CASE WriteFull
  BY <1>4, WriteFullStep DEF WriteFull, app
<1>5. CASE OpenFile
  BY <1>5, OpenFileStep DEF OpenFile, app
<1>6. CASE IssuerCheck
  BY <1>6, IssuerCheckStep DEF IssuerCheck, app
<1>7. CASE PlayConfirmed
  BY <1>7, PlayConfirmedStep DEF PlayConfirmed
<1>8. CASE WatchdogRecover
  BY <1>8, RecoverStep DEF WatchdogRecover, app
<1>9. CASE WriteFails \/ PlayFailed \/ PlayUnconfirmed
  BY <1>9 DEF WriteFails, PlayFailed, PlayUnconfirmed, PoolInv, PoolTypes
<1> QED
  BY <1>1, <1>2, <1>3, <1>4, <1>5, <1>6, <1>7, <1>8, <1>9 DEF Next, FilesKept

\* With an app and a disk that do what they are told, and commands that are not slower
\* than the pool has room for, rotation and the truncation after a confirmed play
\* (finalize_segment_locked(), issuer_loop()) never reach a file that is recorded, waits
\* or is played: for every size of the pool and of its files, without a bound on time.
THEOREM FilesStayIntact == Spec => ReliableFilesIntact
<1> DEFINE Pace == KeepsPace(CommandSlack)
<1>1. Init /\ reliable => PoolInv
  BY TermuxAssumption, NoSlot DEF TermuxAssumption, Slots, Init, PoolInv, PoolTypes,
     RecordingInv, HandedOverInv, OrderInv
<1>2. reliable /\ PoolInv /\ [Next]_vars /\ Pace /\ Pace' => reliable' /\ PoolInv'
  BY PoolStep
<1>3. PoolInv => FilesIntact
  BY DEF PoolInv, PoolTypes, RecordingInv, HandedOverInv, FilesIntact
<1> QED
  BY <1>1, <1>2, <1>3, PTL DEF Spec, ReliableFilesIntact
=============================================================================
