-------------------------- MODULE DeviceOpenProofs --------------------------
(***************************************************************************)
(* Proofs about DeviceOpen for any number of attempts, any budgets and any *)
(* device.                                                                 *)
(***************************************************************************)
EXTENDS DeviceOpen, TLAPS

USE DEF sharedVars, attemptVars, supervisorVars, mainVars

-----------------------------------------------------------------------------
(* The inductive invariant                                                 *)

\* An attempt is only started within the budget.
BudgetInv == supervisor_pc = "look" => attempts_in_strategy < Budget

\* Attempts are started in order, each once.
SpawnInv == \A a \in Attempts : a > attempt => attempt_pc[a] = "unborn"

\* The attempts that may hold a device outside the slot.
Holding == {"opened", "install", "superseded", "raced"}

SlotInv ==
    \A a \in Attempts : device[a] = "open" /\ attempt_pc[a] \notin Holding => player = a

\* Every flag that stands for success was set when the slot was filled.
SuccessInv ==
    result \/ ok \/ opened_ok \/ supervisor_pc = "playing" => player # NoPlayer

IInv == TypeOK /\ BudgetInv /\ SpawnInv /\ SlotInv /\ SuccessInv

-----------------------------------------------------------------------------
(* The type                                                                *)

\* A budget is a number, whatever the strategy.
LEMMA MaxAttemptsIsNat == \A s : max_attempts(s) \in Nat
BY DeviceAssumption DEF max_attempts

LEMMA BudgetIsNat == Budget \in Nat
BY MaxAttemptsIsNat DEF Budget

LEMMA StrategiesType ==
    /\ Len(build_open_strategies) \in Nat \ {0}
    /\ \A i \in 1..Len(build_open_strategies) :
         build_open_strategies[i] \in
           {"PULSE", "AAUDIO", "TERMUXAPI", "AGM", "NODES", "LEGACY"}
BY DEF build_open_strategies

\* Moving a thread keeps the program counters' type.
LEMMA GotoType ==
    ASSUME TypeOK, NEW a \in Attempts, NEW l \in AttemptPcs, GotoAttempt(a, l)
    PROVE  attempt_pc' \in [Attempts -> AttemptPcs]
BY DEF TypeOK, GotoAttempt

LEMMA TypeInit == Init => TypeOK
<1> SUFFICES ASSUME Init PROVE TypeOK
  OBVIOUS
<1>1. NoPlayer \in Attempts \cup {NoPlayer} /\ "unborn" \in AttemptPcs
  BY DEF AttemptPcs
<1>2. 0 \in 0..Budget /\ 0 \in 0..MaxSpawned /\ 1 \in 1..Len(build_open_strategies) + 1
  BY BudgetIsNat, StrategiesType, DeviceAssumption
<1> QED
  BY <1>1, <1>2, Zenon DEF Init, TypeOK

\* The flags stay Boolean.
LEMMA FlagStep ==
    ASSUME TypeOK, [Next]_vars
    PROVE  /\ shutdown' \in BOOLEAN /\ pending' \in BOOLEAN /\ result' \in BOOLEAN
           /\ ok' \in BOOLEAN /\ opened_ok' \in BOOLEAN
<1>0. /\ shutdown \in BOOLEAN /\ pending \in BOOLEAN /\ result \in BOOLEAN
      /\ ok \in BOOLEAN /\ opened_ok \in BOOLEAN
  BY DEF TypeOK
<1>1. /\ shutdown' = shutdown \/ shutdown' = TRUE
      /\ pending' = pending \/ pending' = FALSE
      /\ result' = result \/ result' = TRUE \/ result' = FALSE
  BY DEF Next, vars, AttemptStep, AttemptStart, AttemptOpened, AttemptInstall, AttemptDisplace,
     AttemptCloseOwn, AttemptFailed, AttemptFinish, OpenReturns, OpenSucceeds, OpenFails,
     AaudioGivesUp, SupervisorStep, SupervisorLoop, SupervisorFindsDevice, SupervisorSpawns,
     SupervisorWaited, SupervisorJudge, SupervisorDecide, MainStep, OpenWaited,
     StopClosePlayer, StopJoin, StopBegin, PlaybackStep, PlaybackLoop, PlaybackTakesPlayer,
     PlaybackWritten
<1>2. /\ ok' = ok \/ ok' = (~shutdown /\ result) \/ ok' = FALSE
      /\ opened_ok' = opened_ok \/ opened_ok' = (~pending /\ result)
  BY DEF Next, vars, AttemptStep, AttemptStart, AttemptOpened, AttemptInstall, AttemptDisplace,
     AttemptCloseOwn, AttemptFailed, AttemptFinish, OpenReturns, OpenSucceeds, OpenFails,
     AaudioGivesUp, SupervisorStep, SupervisorLoop, SupervisorFindsDevice, SupervisorSpawns,
     SupervisorWaited, SupervisorJudge, SupervisorDecide, MainStep, OpenWaited,
     StopClosePlayer, StopJoin, StopBegin, PlaybackStep, PlaybackLoop, PlaybackTakesPlayer,
     PlaybackWritten
<1>3. ok' \in BOOLEAN
  BY <1>0, <1>2, Zenon
<1>4. opened_ok' \in BOOLEAN
  BY <1>0, <1>2, Zenon
<1> QED
  BY <1>0, <1>1, <1>3, <1>4, Zenon

LEMMA TypeStep ==
    ASSUME TypeOK, BudgetInv, [Next]_vars
    PROVE  TypeOK'
<1>f. /\ shutdown' \in BOOLEAN /\ pending' \in BOOLEAN /\ result' \in BOOLEAN
      /\ ok' \in BOOLEAN /\ opened_ok' \in BOOLEAN
  BY FlagStep
<1> USE <1>f DEF TypeOK
<1>b. UNCHANGED strategy_index => Budget' = Budget
  BY DEF Budget
<1>1. ASSUME NEW a \in Attempts, AttemptStep(a) \/ OpenReturns(a) \/ AaudioGivesUp(a)
      PROVE  TypeOK'
  <2> USE GotoType, <1>b DEF AttemptPcs
  <2>1. CASE AttemptStart(a)
    BY <2>1 DEF AttemptStart
  <2>2. CASE AttemptOpened(a)
    BY <2>2 DEF AttemptOpened
  <2>3. CASE AttemptInstall(a)
    BY <2>3 DEF AttemptInstall
  <2>4. CASE AttemptDisplace(a)
    BY <2>4 DEF AttemptDisplace
  <2>5. CASE AttemptCloseOwn(a)
    BY <2>5 DEF AttemptCloseOwn
  <2>6. CASE AttemptFailed(a)
    BY <2>6 DEF AttemptFailed
  <2>7. CASE AttemptFinish(a)
    BY <2>7 DEF AttemptFinish
  <2>8. CASE OpenSucceeds(a) \/ OpenFails(a)
    BY <2>8 DEF OpenSucceeds, OpenFails
  <2>9. CASE AaudioGivesUp(a)
    BY <2>9 DEF AaudioGivesUp
  <2> QED
    BY <1>1, <2>1, <2>2, <2>3, <2>4, <2>5, <2>6, <2>7, <2>8, <2>9 DEF AttemptStep, OpenReturns
<1>2. CASE SupervisorStep
  <2>1. CASE SupervisorLoop
    <3>1. Budget' \in Nat
      BY MaxAttemptsIsNat DEF Budget
    <3>2. CASE strategy_index' = strategy_index
      BY <2>1, <3>2, <1>b DEF SupervisorLoop
    <3>3. CASE strategy_index' # strategy_index
      BY <2>1, <3>1, <3>3, StrategiesType DEF SupervisorLoop
    <3> QED
      BY <3>2, <3>3
  <2>2. CASE SupervisorSpawns
    <3>1. supervisor_pc = "look" /\ attempts_in_strategy < Budget
      BY <2>2 DEF SupervisorSpawns, BudgetInv
    <3>2. attempts_in_strategy' \in 0..Budget'
      BY <2>2, <3>1, <1>b, BudgetIsNat DEF SupervisorSpawns
    <3>3. attempt + 1 \in Attempts
      BY <2>2, DeviceAssumption DEF SupervisorSpawns, Attempts
    <3>4. strategy_index \in 1..Len(build_open_strategies)
      BY <3>1 DEF Budget
    <3>5. attempt_pc' \in [Attempts -> AttemptPcs]
      BY <2>2, <3>3, GotoType DEF SupervisorSpawns, AttemptPcs
    <3>6. backend' \in [Attempts -> {"none", "PULSE", "AAUDIO", "TERMUXAPI", "AGM", "NODES",
                                    "LEGACY"}]
      BY <2>2, <3>4, StrategiesType DEF SupervisorSpawns
    <3>7. attempt' \in 0..MaxSpawned
      BY <2>2, DeviceAssumption DEF SupervisorSpawns
    <3> QED
      BY <2>2, <3>2, <3>5, <3>6, <3>7 DEF SupervisorSpawns
  <2>3. CASE SupervisorFindsDevice \/ SupervisorWaited \/ SupervisorJudge \/ SupervisorDecide
    BY <2>3, <1>b DEF SupervisorFindsDevice, SupervisorWaited, SupervisorJudge, SupervisorDecide
  <2> QED
    BY <1>2, <2>1, <2>2, <2>3 DEF SupervisorStep
<1>3. CASE MainStep \/ StopBegin
  BY <1>3, <1>b DEF MainStep, OpenWaited, StopClosePlayer, StopJoin, StopBegin
<1>4. CASE PlaybackStep
  BY <1>4, <1>b DEF PlaybackStep, PlaybackLoop, PlaybackTakesPlayer, PlaybackWritten
<1>5. CASE UNCHANGED vars
  BY <1>5, <1>b DEF vars
<1> QED
  BY <1>1, <1>2, <1>3, <1>4, <1>5 DEF Next

LEMMA BudgetStep ==
    ASSUME TypeOK, BudgetInv, [Next]_vars
    PROVE  BudgetInv'
<1> USE DEF TypeOK, BudgetInv
<1>b. UNCHANGED strategy_index => Budget' = Budget
  BY DEF Budget
<1>1. CASE SupervisorLoop
  BY <1>1, <1>b, BudgetIsNat DEF SupervisorLoop, Exhausted
<1>2. CASE SupervisorFindsDevice \/ SupervisorSpawns \/ SupervisorWaited \/ SupervisorJudge
           \/ SupervisorDecide
  BY <1>2 DEF SupervisorFindsDevice, SupervisorSpawns, SupervisorWaited, SupervisorJudge,
     SupervisorDecide
<1>3. CASE UNCHANGED <<supervisor_pc, strategy_index, attempts_in_strategy>>
  BY <1>3, <1>b
<1>4. \/ SupervisorStep
      \/ UNCHANGED <<supervisor_pc, strategy_index, attempts_in_strategy>>
  BY DEF Next, vars, AttemptStep, AttemptStart, AttemptOpened, AttemptInstall, AttemptDisplace,
     AttemptCloseOwn, AttemptFailed, AttemptFinish, OpenReturns, OpenSucceeds, OpenFails,
     AaudioGivesUp, MainStep, OpenWaited, StopClosePlayer, StopJoin, StopBegin, PlaybackStep,
     PlaybackLoop, PlaybackTakesPlayer, PlaybackWritten
<1> QED
  BY <1>1, <1>2, <1>3, <1>4 DEF SupervisorStep

-----------------------------------------------------------------------------
(* The slot                                                                *)

LEMMA SpawnStep ==
    ASSUME TypeOK, SpawnInv, [Next]_vars
    PROVE  SpawnInv'
<1> USE DEF TypeOK, SpawnInv, GotoAttempt
<1>1. ASSUME NEW a \in Attempts, AttemptStep(a) \/ OpenReturns(a) \/ AaudioGivesUp(a)
      PROVE  SpawnInv'
  BY <1>1 DEF AttemptStep, AttemptStart, AttemptOpened, AttemptInstall, AttemptDisplace,
     AttemptCloseOwn, AttemptFailed, AttemptFinish, OpenReturns, OpenSucceeds, OpenFails,
     AaudioGivesUp
<1>2. CASE SupervisorSpawns
  <2>1. SUFFICES ASSUME NEW b \in Attempts, b > attempt + 1 PROVE attempt_pc'[b] = "unborn"
    BY <1>2 DEF SupervisorSpawns
  <2>2. b \in Nat /\ attempt \in Nat
    BY DEF Attempts
  <2> QED
    BY <1>2, <2>1, <2>2 DEF SupervisorSpawns
<1>3. CASE UNCHANGED <<attempt, attempt_pc>>
  BY <1>3
<1>4. \/ \E a \in Attempts : AttemptStep(a) \/ OpenReturns(a) \/ AaudioGivesUp(a)
      \/ SupervisorSpawns
      \/ UNCHANGED <<attempt, attempt_pc>>
  BY DEF Next, vars, SupervisorStep, SupervisorLoop, SupervisorFindsDevice, SupervisorWaited,
     SupervisorJudge, SupervisorDecide, MainStep, OpenWaited, StopClosePlayer, StopJoin,
     StopBegin, PlaybackStep, PlaybackLoop, PlaybackTakesPlayer, PlaybackWritten
<1> QED
  BY <1>1, <1>2, <1>3, <1>4

LEMMA SlotStep ==
    ASSUME TypeOK, SpawnInv, SlotInv, [Next]_vars
    PROVE  SlotInv'
<1> USE DEF TypeOK, SlotInv, Holding, GotoAttempt
<1>1. ASSUME NEW a \in Attempts, AttemptStep(a) \/ OpenReturns(a) \/ AaudioGivesUp(a)
      PROVE  SlotInv'
  <2>1. CASE AttemptInstall(a)
    <3>1. CASE Occupied
      BY <2>1, <3>1 DEF AttemptInstall
    <3>2. CASE ~Occupied
      <4>1. \A b \in Attempts : player = b => device[b] # "open"
        BY <3>2 DEF Occupied, IsOpen, Attempts, NoPlayer
      <4> QED
        BY <2>1, <3>2, <4>1 DEF AttemptInstall
    <3> QED
      BY <3>1, <3>2
  <2>2. CASE AttemptDisplace(a)
    BY <2>2 DEF AttemptDisplace
  <2>3. CASE AttemptCloseOwn(a)
    BY <2>3 DEF AttemptCloseOwn
  <2>4. CASE AttemptStart(a) \/ AttemptOpened(a) \/ AttemptFailed(a) \/ AttemptFinish(a)
    BY <2>4 DEF AttemptStart, AttemptOpened, AttemptFailed, AttemptFinish
  <2>5. CASE OpenSucceeds(a) \/ OpenFails(a)
    BY <2>5 DEF OpenSucceeds, OpenFails
  <2>6. CASE AaudioGivesUp(a)
    BY <2>6 DEF AaudioGivesUp
  <2> QED
    BY <1>1, <2>1, <2>2, <2>3, <2>4, <2>5, <2>6 DEF AttemptStep, OpenReturns
<1>2. CASE SupervisorSpawns
  <2>1. attempt + 1 \in Attempts /\ attempt + 1 > attempt
    BY <1>2, DeviceAssumption DEF SupervisorSpawns, Attempts
  <2>2. attempt_pc[attempt + 1] = "unborn"
    BY <2>1 DEF SpawnInv
  <2> QED
    BY <1>2, <2>1, <2>2 DEF SupervisorSpawns
<1>3. CASE StopClosePlayer
  BY <1>3 DEF StopClosePlayer
<1>4. CASE UNCHANGED <<player, device, attempt_pc>>
  BY <1>4
<1>5. \/ \E a \in Attempts : AttemptStep(a) \/ OpenReturns(a) \/ AaudioGivesUp(a)
      \/ SupervisorSpawns \/ StopClosePlayer
      \/ UNCHANGED <<player, device, attempt_pc>>
  BY DEF Next, vars, SupervisorStep, SupervisorLoop, SupervisorFindsDevice, SupervisorWaited,
     SupervisorJudge, SupervisorDecide, MainStep, OpenWaited, StopJoin, StopBegin,
     PlaybackStep, PlaybackLoop, PlaybackTakesPlayer, PlaybackWritten
<1> QED
  BY <1>1, <1>2, <1>3, <1>4, <1>5

LEMMA SuccessStep ==
    ASSUME TypeOK, SuccessInv, [Next]_vars
    PROVE  SuccessInv'
<1> USE DEF TypeOK, SuccessInv
<1>1. ASSUME NEW a \in Attempts, AttemptStep(a) \/ OpenReturns(a) \/ AaudioGivesUp(a)
      PROVE  SuccessInv'
  BY <1>1 DEF AttemptStep, AttemptStart, AttemptOpened, AttemptInstall, AttemptDisplace,
     AttemptCloseOwn, AttemptFailed, AttemptFinish, OpenReturns, OpenSucceeds, OpenFails,
     AaudioGivesUp, Attempts, NoPlayer
<1>2. CASE SupervisorStep
  BY <1>2 DEF SupervisorStep, SupervisorLoop, SupervisorFindsDevice, SupervisorSpawns,
     SupervisorWaited, SupervisorJudge, SupervisorDecide, Occupied, IsOpen
<1>3. CASE MainStep \/ StopBegin \/ PlaybackStep \/ UNCHANGED vars
  BY <1>3 DEF MainStep, OpenWaited, StopClosePlayer, StopJoin, StopBegin, PlaybackStep,
     PlaybackLoop, PlaybackTakesPlayer, PlaybackWritten, vars
<1> QED
  BY <1>1, <1>2, <1>3 DEF Next

\* The attempts, the slot and the success flags stay consistent in every behaviour.
LEMMA Inductive == Spec => []IInv
<1>1. Init => IInv
  <2> SUFFICES ASSUME Init PROVE IInv
    OBVIOUS
  <2>1. BudgetInv /\ SpawnInv /\ SlotInv /\ SuccessInv
    BY DEF Init, BudgetInv, SpawnInv, SlotInv, SuccessInv
  <2> QED
    BY <2>1, TypeInit DEF IInv
<1>2. IInv /\ [Next]_vars => IInv'
  BY TypeStep, BudgetStep, SpawnStep, SlotStep, SuccessStep DEF IInv
<1> QED
  BY <1>1, <1>2, PTL DEF Spec

\* The state keeps its type, and no strategy is tried beyond its budget.
THEOREM DeviceTypeCorrect == Spec => []TypeOK
<1>1. IInv => TypeOK
  BY DEF IInv
<1> QED
  BY <1>1, Inductive, PTL

\* However many attempts hang, return late or race each other, an attempt that is
\* over leaves no stream open beside the one in the slot.
THEOREM AtMostOneBackend == Spec => []OneBackend
<1>1. IInv => OneBackend
  BY DEF IInv, SlotInv, OneBackend, finished, Holding
<1> QED
  BY <1>1, Inductive, PTL

\* Success is never reported for an empty slot, so the pointer that
\* open_player_with_timeout follows is not null.
THEOREM SuccessAlwaysHasPlayer == Spec => []SuccessHasPlayer
<1>1. IInv => SuccessHasPlayer
  BY DEF IInv, SuccessInv, SuccessHasPlayer
<1> QED
  BY <1>1, Inductive, PTL

\* No step takes a backend that plays out of the slot.
THEOREM PlayingBackendKept == Spec => LiveBackendKept
<1>1. [Next]_vars => (Occupied => player' = player) \/ UNCHANGED vars
  <2> SUFFICES ASSUME Next, Occupied PROVE player' = player
    BY DEF vars
  <2> QED
    BY DEF Next, vars, AttemptStep, AttemptStart, AttemptOpened, AttemptInstall,
       AttemptDisplace, AttemptCloseOwn, AttemptFailed, AttemptFinish, OpenReturns,
       OpenSucceeds, OpenFails, AaudioGivesUp, SupervisorStep, SupervisorLoop,
       SupervisorFindsDevice, SupervisorSpawns, SupervisorWaited, SupervisorJudge,
       SupervisorDecide, MainStep, OpenWaited, StopClosePlayer, StopJoin, StopBegin,
       PlaybackStep, PlaybackLoop, PlaybackTakesPlayer, PlaybackWritten
<1>2. [Next]_vars => [Occupied => player' = player]_vars
  BY <1>1
<1> QED
  BY <1>2, PTL DEF Spec, LiveBackendKept
=============================================================================
