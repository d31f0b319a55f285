---------------------------- MODULE MachineProofs ----------------------------
(***************************************************************************)
(* The state machines and their engines.  The pen and its bench, for every *)
(* delay and whatever numbers are drawn: a pen is sure of nothing but the  *)
(* state it is in, it begins to shut down exactly when it is told, and     *)
(* every step of it and of its bench brings the end of a boot and the next *)
(* restart nearer. The two engines of StateMachine.c, for every table: a   *)
(* run does not read what is not there.  The machines of the buttons, for  *)
(* every number of them and all thresholds in the order of the defaults:   *)
(* every gesture is earned, they come in turn, and silence settles them.   *)
(* The reader of scripts, for every file: the program is run as its writer *)
(* is told, down to its end.                                               *)
(***************************************************************************)
EXTENDS PowerSaving, NaturalsInduction, SequenceTheorems, WellFoundedInduction,
        TLAPS

CONSTANTS AllStateNum, MaxHopTimes, MAX_STATE_NUMBER, USE_VARIABLE_STATE_FLAG,
          StateNumber,
          p_hop, p_Action,     \* the tables of the general and the simple engine
          ButtonNumber, ClickTimeThreshold, ReleaseTimeThreshold,
          LongPushTimeThreshold, ReleaseAllTimeThreshold, CounterMax,
          Files, MaxCommandReadTimes, MaxParam

VARIABLES stored, running, current_state, hop, question, answer,
          buttonState, push, release, latest, value, report, held, wasLong,
          presses, longHeld, open,
          CmdLine, isCommandReadFinished, rs, commandLineNum, command,
          wait_time, wait_time_counter, param, buf0, buf1, said, calls

Run    == INSTANCE StateMachine WITH j <- hop, i <- question
Simple == INSTANCE SimpleStateMachine WITH i <- hop
Button == INSTANCE ButtonModule WITH state <- buttonState
Reading == INSTANCE ReadScripts WITH answer <- said, asked <- calls

(* The pen. *)

(* What the lines of the script have in common, a fact about the 21 of     *)
(* them: they lead to a line, and the loop has five turns.                 *)
LEMMA ScriptLines ==
  ASSUME NEW n \in DOMAIN Script
  PROVE  /\ Script[n].aa \in DOMAIN Script
         /\ Script[n].bb \in DOMAIN Script
         /\ Script[n].condition = 0 => n + 1 \in DOMAIN Script
         /\ Script[n].function = "LoopSpecificTimes" => Script[n].param = 5
<1>1. n \in 1 .. 21
  BY DEF Script
<1>2. n \in 1 .. 7 \/ n \in 8 .. 14 \/ n \in 15 .. 21
  BY <1>1
<1>3. CASE n \in 1 .. 7
  BY <1>3 DEF Script, Do, JumpOn, Command
<1>4. CASE n \in 8 .. 14
  BY <1>4 DEF Script, Do, JumpOn, Command
<1>5. CASE n \in 15 .. 21
  BY <1>5 DEF Script, Do, JumpOn, Command
<1> QED
  BY <1>2, <1>3, <1>4, <1>5

(* A call of the script leads to a line of the script. *)
LEMMA CallLeadsOn ==
  ASSUME line \in DOMAIN Script, NEW f, NEW ok, Call(f, ok)
  PROVE  line' \in DOMAIN Script /\ turn' = "pen"
BY ScriptLines DEF Call, Reader!Following

(* A handler decides for a state of the pen that it may be in. *)
LEMMA DecisionInPBS ==
  ASSUME NEW state \in PBS \ Booting, NEW f
  PROVE  PenBasicStateGetUnderCertainState(state, f) \in PBS \ Booting
BY DEF PenBasicStateGetUnderCertainState, PBS, Booting, Awake

(* So does the first decision after waking up. *)
LEMMA FirstDecisionInPBS ==
  ASSUME NEW f PROVE PenBasicStateGet(f) \in PBS \ Booting
BY DEF PenBasicStateGet, PBS, Booting, Awake

(* Collecting keeps Factor a set of bits. *)
LEMMA CollectedBits ==
  ASSUME Factor \subseteq Bits, sensed \subseteq Conditions, NEW asked
  PROVE  Collected(asked) \subseteq Bits
BY DEF Collected, Bits

IInv == TypeOK /\ SureIsThere

(* A handler that is not sure yet leaves its state or stays in it, and is  *)
(* then certain of no other.                                               *)
LEMMA HandlerKeeps ==
  ASSUME PenTypeOK, sure = {}, sensed' = sensed,
         NEW state \in PBS \ Booting, NEW certain \in SUBSET (Last \cap {state}),
         StateHandle(state, certain)
  PROVE  PenTypeOK' /\ SureIsThere'
<1> DEFINE next == PenBasicStateGetUnderCertainState(state, Factor')
<1>1. Factor' \subseteq Bits
  BY CollectedBits DEF StateHandle, PenTypeOK
<1>2. next \in PBS
  BY DecisionInPBS
<1>3. CASE next = state
  <2>1. CurrentState' = state /\ sure' = certain
    BY <1>3 DEF StateHandle
  <2> QED
    BY <1>1, <2>1 DEF StateHandle, PenTypeOK, SureIsThere
<1>4. CASE next # state
  <2>1. CurrentState' = next /\ sure' = {}
    BY <1>4 DEF StateHandle, SetCurrentBasicState
  <2> QED
    BY <1>1, <1>2, <2>1 DEF StateHandle, PenTypeOK, SureIsThere
<1> QED
  BY <1>3, <1>4

(* A handler that is sure changes nothing. *)
LEMMA SureKeeps ==
  ASSUME PenTypeOK, SureIsThere, sensed' = sensed, NEW state, Sure(state)
  PROVE  PenTypeOK' /\ SureIsThere'
BY DEF Sure, pen, PenTypeOK, SureIsThere

(* A tick of the pen keeps its types and its certainty. *)
LEMMA TickKeeps ==
  ASSUME PenTypeOK, SureIsThere, sensed' = sensed, PenBasicStateHandle
  PROVE  PenTypeOK' /\ SureIsThere'
<1> USE PenStateAssumption
<1>0. ASSUME CurrentState \notin sure PROVE sure = {}
  BY <1>0 DEF SureIsThere
<1>1. CASE JustWakeUpAction
  <2>1. sure = {}
    BY <1>1 DEF JustWakeUpAction, PenTypeOK, SureIsThere, Last
  <2>2. CurrentState' \in PBS
    BY <1>1 DEF JustWakeUpAction, PBS, Booting
  <2>3. delay_counter' \in 0 .. WAKE_UP_DELAY
    BY <1>1 DEF JustWakeUpAction, PenTypeOK
  <2> QED
    BY <1>1, <2>1, <2>2, <2>3 DEF JustWakeUpAction, PenTypeOK, SureIsThere
<1>2. CASE GetGlobalStateAction
  <2>1. sure = {}
    BY <1>2 DEF GetGlobalStateAction, PenTypeOK, SureIsThere, Last
  <2>2. Factor' \subseteq Bits
    BY <1>2, CollectedBits DEF GetGlobalStateAction, PenTypeOK
  <2>3. CurrentState' \in PBS /\ sure' = {}
    BY <1>2, <2>1, FirstDecisionInPBS
       DEF GetGlobalStateAction, SetCurrentBasicState
  <2> QED
    BY <1>2, <2>2, <2>3 DEF GetGlobalStateAction, PenTypeOK, SureIsThere
<1>3. ASSUME NEW state \in PBS \ (Booting \cup Last), StateHandle(state, {})
      PROVE  PenTypeOK' /\ SureIsThere'
  <2>1. sure = {}
    BY <1>3 DEF StateHandle, PenTypeOK, SureIsThere
  <2> QED
    BY <1>3, <2>1, HandlerKeeps
<1>4. ASSUME NEW state \in Last, state \notin sure, StateHandle(state, {state})
      PROVE  PenTypeOK' /\ SureIsThere'
  <2>1. sure = {}
    BY <1>0, <1>4 DEF StateHandle
  <2>2. state \in PBS \ Booting
    BY DEF Last, PBS, Booting, Awake
  <2> QED
    BY <1>4, <2>1, <2>2, HandlerKeeps
<1>5. CASE PenChargeWhenShutDownStateHandle \/ PenDisconnectedStateHandle
           \/ PenConnectedStateHandle
  BY <1>3, <1>5 DEF PenChargeWhenShutDownStateHandle, PenDisconnectedStateHandle,
                    PenConnectedStateHandle, PBS, Booting, Awake, Last
<1>6. CASE PenQuietStateHandle \/ PenShutDownStateHandle
  BY <1>4, <1>6, SureKeeps DEF PenQuietStateHandle, PenShutDownStateHandle, Last
<1> QED
  BY <1>1, <1>2, <1>5, <1>6 DEF PenBasicStateHandle

(* The restart forgets what the pen was sure of. *)
LEMMA RestartKeeps ==
  ASSUME PenTypeOK, AllPeripheralInit, sensed' \subseteq Conditions
  PROVE  PenTypeOK' /\ SureIsThere'
<1>1. Factor' \subseteq Bits
  BY DEF AllPeripheralInit, PenTypeOK, Bits
<1>2. CurrentState' \in PBS
  BY DEF AllPeripheralInit, PBS, Booting
<1>3. delay_counter' \in 0 .. WAKE_UP_DELAY
  BY PenStateAssumption DEF AllPeripheralInit
<1> QED
  BY <1>1, <1>2, <1>3 DEF AllPeripheralInit, PenTypeOK, SureIsThere

(* The generators: each changes what is sensed, and nothing else of the pen *)
(* and of the bench.                                                        *)
Generators ==
  \/ ForNow \/ UserShutDownGenerator \/ PenMoveStateGenerator
  \/ BleStateGenerator \/ PenChargeStateGenerator
  \/ QuickPenChargeStateGenerator \/ PenDistanceFromMagneticGenerator
  \/ QuickPenDistanceFromMagneticGenerator \/ PenPowerStateGenerator

LEMMA WorldKeeps ==
  ASSUME IInv, NEW f, World(f), sensed' \subseteq Conditions
  PROVE  IInv'
<1>1. line' \in DOMAIN Script /\ turn' = "pen"
  BY CallLeadsOn DEF World, IInv, TypeOK
<1> QED
  BY <1>1 DEF World, IInv, TypeOK, PenTypeOK, SureIsThere, pen

LEMMA GeneratorsKeep == ASSUME IInv, Generators PROVE IInv'
<1> USE DEF IInv, TypeOK, PenTypeOK
<1>1. CASE ForNow
  BY <1>1, WorldKeeps DEF ForNow, Conditions
<1>2. CASE UserShutDownGenerator
  <2>1. sensed' \subseteq Conditions
    BY <1>2 DEF UserShutDownGenerator, Conditions
  <2> QED
    BY <1>2, <2>1, WorldKeeps DEF UserShutDownGenerator
<1>3. CASE PenMoveStateGenerator
  <2>1. sensed' \subseteq Conditions
    BY <1>3 DEF PenMoveStateGenerator, Conditions
  <2> QED
    BY <1>3, <2>1, WorldKeeps DEF PenMoveStateGenerator
<1>4. CASE BleStateGenerator
  <2>1. sensed' \subseteq Conditions
    BY <1>4 DEF BleStateGenerator, Switched, Conditions
  <2> QED
    BY <1>4, <2>1, WorldKeeps DEF BleStateGenerator
<1>5. CASE PenChargeStateGenerator
  <2>1. sensed' \subseteq Conditions
    BY <1>5 DEF PenChargeStateGenerator, ChargeToggled, Switched, Conditions
  <2> QED
    BY <1>5, <2>1, WorldKeeps DEF PenChargeStateGenerator
<1>6. CASE QuickPenChargeStateGenerator
  <2>1. sensed' \subseteq Conditions
    BY <1>6 DEF QuickPenChargeStateGenerator, ChargeToggled, Switched, Conditions
  <2> QED
    BY <1>6, <2>1, WorldKeeps DEF QuickPenChargeStateGenerator
<1>7. CASE PenDistanceFromMagneticGenerator
  <2>1. sensed' \subseteq Conditions
    BY <1>7 DEF PenDistanceFromMagneticGenerator, Switched, Conditions
  <2> QED
    BY <1>7, <2>1, WorldKeeps DEF PenDistanceFromMagneticGenerator
<1>8. CASE QuickPenDistanceFromMagneticGenerator
  <2>1. sensed' \subseteq Conditions
    BY <1>8 DEF QuickPenDistanceFromMagneticGenerator, Switched, Conditions
  <2> QED
    BY <1>8, <2>1, WorldKeeps DEF QuickPenDistanceFromMagneticGenerator
<1>9. CASE PenPowerStateGenerator
  BY <1>9, WorldKeeps DEF PenPowerStateGenerator
<1> QED
  BY <1>1, <1>2, <1>3, <1>4, <1>5, <1>6, <1>7, <1>8, <1>9 DEF Generators

LEMMA InitIInv == Init => IInv
<1> SUFFICES ASSUME Init PROVE IInv
  OBVIOUS
<1>1. PenTypeOK
  BY PenStateAssumption DEF Init, PenInit, PenTypeOK, PBS, Booting
<1>2. line \in DOMAIN Script
  BY DEF Init, Script
<1>3. loop \in 0 .. 4
  BY DEF Init
<1>4. sure = {} /\ isUserAppLocked \in BOOLEAN
  BY DEF Init, PenInit
<1> QED
  BY <1>1, <1>2, <1>3, <1>4, Zenon DEF Init, IInv, TypeOK, SureIsThere

LEMMA NextIInv == IInv /\ [Next]_vars => IInv'
<1> SUFFICES ASSUME IInv, [Next]_vars PROVE IInv'
  OBVIOUS
<1> USE DEF IInv, TypeOK
<1>1. ASSUME NEW f, NEW ok, Call(f, ok)
      PROVE  line' \in DOMAIN Script /\ turn' = "pen"
  BY <1>1, CallLeadsOn
<1>2. CASE ScriptsFunctionInitial
  <2>1. loop' \in 0 .. 4 /\ random_num' = 0
    BY <1>2 DEF ScriptsFunctionInitial
  <2>2. PenTypeOK' /\ SureIsThere'
    BY <1>2 DEF ScriptsFunctionInitial, PenTypeOK, SureIsThere, pen
  <2>3. line' \in DOMAIN Script /\ turn' = "pen"
    BY <1>1, <1>2 DEF ScriptsFunctionInitial
  <2>4. isUserAppLocked' \in BOOLEAN
    BY <1>2 DEF ScriptsFunctionInitial
  <2> QED
    BY <2>1, <2>2, <2>3, <2>4, Zenon
<1>3. CASE UserAppLock
  BY <1>1, <1>3 DEF UserAppLock, PenTypeOK, SureIsThere, pen
<1>4. CASE UserAppUnlock
  BY <1>1, <1>4 DEF UserAppUnlock, PenTypeOK, SureIsThere, pen
<1>5. CASE StartAgain
  <2>1. sensed' \subseteq Conditions
    BY <1>5 DEF StartAgain, PenTypeOK, Conditions
  <2>2. PenTypeOK' /\ SureIsThere'
    BY <1>5, <2>1, RestartKeeps DEF StartAgain
  <2> QED
    BY <1>1, <1>5, <2>2 DEF StartAgain
<1>6. CASE RandomNumberGenerator
  <2>1. random_num' \in Numbers
    BY <1>6 DEF RandomNumberGenerator
  <2> QED
    BY <1>1, <1>6, <2>1 DEF RandomNumberGenerator, PenTypeOK, SureIsThere, pen
<1>7. CASE Generators
  BY <1>7, GeneratorsKeep
<1>8. CASE DoesPowerOff
  BY <1>1, <1>8 DEF DoesPowerOff, PenTypeOK, SureIsThere, pen
<1>9. CASE PowerOff
  <2>1. sensed' \subseteq Conditions /\ sure' = {}
    BY <1>9 DEF PowerOff, PenTypeOK
  <2> QED
    BY <1>1, <1>9, <2>1 DEF PowerOff, PenTypeOK, SureIsThere
<1>10. CASE LoopSpecificTimes
  <2>1. Script[line].param = 5
    BY <1>10, ScriptLines DEF LoopSpecificTimes, Call
  <2>2. loop' \in 0 .. 4
    BY <1>10, <2>1 DEF LoopSpecificTimes
  <2>3. line' \in DOMAIN Script /\ turn' = "pen"
    BY <1>1, <1>10 DEF LoopSpecificTimes
  <2> QED
    BY <1>10, <2>2, <2>3 DEF LoopSpecificTimes, PenTypeOK, SureIsThere, pen
<1>11. CASE onTick
  <2>1. PenTypeOK' /\ SureIsThere'
    <3>1. CASE isUserAppLocked
      BY <1>11, <3>1 DEF onTick, PenTypeOK, SureIsThere, pen
    <3>2. CASE ~isUserAppLocked
      BY <1>11, <3>2, TickKeeps DEF onTick
    <3> QED
      BY <3>1, <3>2
  <2> QED
    BY <1>11, <2>1 DEF onTick
<1>12. CASE UNCHANGED vars
  BY <1>12 DEF vars, pen, bench, PenTypeOK, SureIsThere
<1> QED
  BY <1>2, <1>3, <1>4, <1>5, <1>6, <1>7, <1>8, <1>9, <1>10, <1>11, <1>12
     DEF Next, CallFunction, Generators

(* The state of the pen and of the bench stays well typed. *)
THEOREM PenTypeCorrect == Spec => []TypeOK
<1>1. IInv /\ [Next]_vars => IInv'
  BY NextIInv
<1>2. IInv => TypeOK
  BY DEF IInv
<1> QED
  BY InitIInv, <1>1, <1>2, PTL DEF Spec

(* A pen is sure of nothing but the state it is in, whatever the bench     *)
(* does to it and however long it waits after waking up.                   *)
THEOREM SureCorrect == Spec => []SureIsThere
<1>1. IInv /\ [Next]_vars => IInv'
  BY NextIInv
<1>2. IInv => SureIsThere
  BY DEF IInv
<1> QED
  BY InitIInv, <1>1, <1>2, PTL DEF Spec

(* What an awake pen asks includes both reasons to end, so that a bit of   *)
(* an earlier tick does not decide.                                        *)
LEMMA FreshReasons ==
  ASSUME NEW state \in Awake PROVE Ends(Collected(Asked(state))) <=> Ends(sensed)
BY DEF Awake, Asked, Collected, Ends, ReasonsToEnd, Conditions

(* An awake pen decides to end exactly when there is a reason. *)
LEMMA AwakeEnds ==
  ASSUME NEW state \in Awake, NEW f
  PROVE  PenBasicStateGetUnderCertainState(state, f) = "GoingToShutDown" <=> Ends(f)
BY DEF PenBasicStateGetUnderCertainState, Awake

LEMMA TickObeys ==
  ASSUME CurrentState \in Awake, sure = {}, PenBasicStateHandle
  PROVE  CurrentState' = "GoingToShutDown" <=> Ends(sensed)
<1> DEFINE f    == Collected(Asked(CurrentState))
           next == PenBasicStateGetUnderCertainState(CurrentState, f)
<1>1. PICK certain \in {{}, {"Quiet"}} : StateHandle(CurrentState, certain)
  BY DEF PenBasicStateHandle, JustWakeUpAction, GetGlobalStateAction,
         PenChargeWhenShutDownStateHandle, PenDisconnectedStateHandle,
         PenConnectedStateHandle, PenShutDownStateHandle, PenQuietStateHandle,
         StateHandle, Sure, Awake
<1>2. Factor' = f
  BY <1>1 DEF StateHandle
<1>3. CurrentState' = next
  BY <1>1, <1>2 DEF StateHandle, SetCurrentBasicState
<1> QED
  BY <1>3, AwakeEnds, FreshReasons

LEMMA TickStaysDown ==
  ASSUME CurrentState = "GoingToShutDown", PenBasicStateHandle
  PROVE  CurrentState' = "GoingToShutDown"
<1>1. PenShutDownStateHandle
  BY DEF PenBasicStateHandle, JustWakeUpAction, GetGlobalStateAction,
         PenChargeWhenShutDownStateHandle, PenDisconnectedStateHandle,
         PenConnectedStateHandle, PenQuietStateHandle, StateHandle, Sure
<1>2. CASE Sure("GoingToShutDown")
  BY <1>2 DEF Sure, pen
<1>3. CASE StateHandle("GoingToShutDown", {"GoingToShutDown"})
  BY <1>3 DEF StateHandle, PenBasicStateGetUnderCertainState, Awake,
              SetCurrentBasicState
<1> QED
  BY <1>1, <1>2, <1>3 DEF PenShutDownStateHandle

(* Only the pen's own tick and the restart move the pen. *)
LEMMA ScriptLeavesThePen ==
  ASSUME CallFunction PROVE StartAgain \/ CurrentState' = CurrentState
BY DEF CallFunction, ScriptsFunctionInitial, UserAppLock, UserAppUnlock,
       RandomNumberGenerator, ForNow, UserShutDownGenerator,
       PenMoveStateGenerator, BleStateGenerator, PenChargeStateGenerator,
       QuickPenChargeStateGenerator, PenDistanceFromMagneticGenerator,
       QuickPenDistanceFromMagneticGenerator, PenPowerStateGenerator,
       DoesPowerOff, PowerOff, LoopSpecificTimes, World, pen

LEMMA CallIsNoTick == ASSUME CallFunction PROVE turn = "script"
BY DEF CallFunction, ScriptsFunctionInitial, UserAppLock, UserAppUnlock,
       StartAgain, RandomNumberGenerator, ForNow, UserShutDownGenerator,
       PenMoveStateGenerator, BleStateGenerator, PenChargeStateGenerator,
       QuickPenChargeStateGenerator, PenDistanceFromMagneticGenerator,
       QuickPenDistanceFromMagneticGenerator, PenPowerStateGenerator,
       DoesPowerOff, PowerOff, LoopSpecificTimes, World, Call

LEMMA NextEnds == [Next]_vars => [BeginsToEnd /\ EndsForGood]_vars
<1> SUFFICES ASSUME Next PROVE BeginsToEnd /\ EndsForGood
  OBVIOUS
<1>1. CASE CallFunction
  BY <1>1, ScriptLeavesThePen, CallIsNoTick DEF BeginsToEnd, EndsForGood, Obeys
<1>2. CASE onTick
  <2>1. CASE isUserAppLocked
    BY <1>2, <2>1 DEF onTick, pen, BeginsToEnd, EndsForGood, Obeys
  <2>2. CASE ~isUserAppLocked
    <3>1. PenBasicStateHandle
      BY <1>2, <2>2 DEF onTick
    <3>2. BeginsToEnd
      BY <3>1, TickObeys DEF BeginsToEnd, Obeys
    <3>3. EndsForGood
      BY <3>1, TickStaysDown DEF EndsForGood
    <3> QED
      BY <3>2, <3>3
  <2> QED
    BY <2>1, <2>2
<1> QED
  BY <1>1, <1>2 DEF Next

(* The pen begins to shut down exactly when it is told, and for good.      *)
THEOREM EndsCorrect == Spec => EndsWhenTold
<1>1. [Next]_vars => [BeginsToEnd /\ EndsForGood]_vars
  BY NextEnds
<1> QED
  BY <1>1, PTL DEF Spec, EndsWhenTold

-----------------------------------------------------------------------------
(* The lines of the script one by one: what they call, and where they lead. *)
Plain == 1 .. 21 \ {12, 13, 20, 21}

(* Which lines jump and where, and which call what. *)
LEMMA ScriptIs ==
  /\ DOMAIN Script = 1 .. 21
  /\ \A n \in Plain : Script[n].condition = 0
  /\ \A n \in {12, 13, 20, 21} : Script[n].condition = 1
  /\ Script[12].aa = 14 /\ Script[12].bb = 13
  /\ Script[13].aa = 5
  /\ Script[20].aa = 21 /\ Script[20].bb = 20 /\ Script[20].param = 5
  /\ Script[21].aa = 4
  /\ \A n \in 1 .. 21 :
       /\ Script[n].function = "StartAgain" <=> n = 4
       /\ Script[n].function = "DoesPowerOff" <=> n = 12
       /\ Script[n].function = "PowerOff" <=> n = 15
       /\ Script[n].function = "LoopSpecificTimes" <=> n = 20
       /\ Script[n].function = "UserAppLock" <=> n \in {3, 14}
       /\ Script[n].function = "UserAppUnlock" <=> n \in {13, 21}
<1>1. DOMAIN Script = 1 .. 21
  BY DEF Script
<1>2. ASSUME NEW n \in 1 .. 21
      PROVE  /\ n \notin {12, 13, 20, 21} => Script[n].condition = 0
             /\ Script[n].function = "StartAgain" <=> n = 4
             /\ Script[n].function = "DoesPowerOff" <=> n = 12
             /\ Script[n].function = "PowerOff" <=> n = 15
             /\ Script[n].function = "LoopSpecificTimes" <=> n = 20
             /\ Script[n].function = "UserAppLock" <=> n \in {3, 14}
             /\ Script[n].function = "UserAppUnlock" <=> n \in {13, 21}
  <2>1. CASE n \in 1 .. 7
    BY <2>1 DEF Script, Do, JumpOn, Command
  <2>2. CASE n \in 8 .. 14
    BY <2>2 DEF Script, Do, JumpOn, Command
  <2>3. CASE n \in 15 .. 21
    BY <2>3 DEF Script, Do, JumpOn, Command
  <2> QED
    BY <2>1, <2>2, <2>3
<1>3. /\ Script[12].condition = 1 /\ Script[12].aa = 14 /\ Script[12].bb = 13
      /\ Script[13].condition = 1 /\ Script[13].aa = 5
  BY DEF Script, Do, JumpOn, Command
<1>4. /\ Script[20].condition = 1 /\ Script[20].aa = 21 /\ Script[20].bb = 20
      /\ Script[20].param = 5 /\ Script[21].condition = 1 /\ Script[21].aa = 4
  BY DEF Script, Do, JumpOn, Command
<1> QED
  BY <1>1, <1>2, <1>3, <1>4 DEF Plain

(* A call of a function on its line. *)
LEMMA CallIs ==
  ASSUME line \in DOMAIN Script, CallFunction
  PROVE  /\ turn = "script" /\ turn' = "pen" /\ line \in 1 .. 21
         /\ line \in Plain => line' = line + 1
         /\ line = 12 => line' = IF sure # {} THEN 14 ELSE 13
         /\ line = 13 => line' = 5
         /\ line = 20 => \/ loop + 1 >= 5 /\ line' = 21
                         \/ line' = 20 /\ loop' = loop + 1
         /\ line = 21 => line' = 4
         /\ IF line = 4 THEN StartAgain ELSE UNCHANGED <<CurrentState, delay_counter>>
         /\ line \notin {4, 15} => sure' = sure
         /\ isUserAppLocked' = IF line \in {3, 14} THEN TRUE
                               ELSE IF line \in {13, 21} THEN FALSE
                               ELSE isUserAppLocked
<1>1. line \in 1 .. 21 /\ turn = "script"
  BY ScriptIs, CallIsNoTick
<1>2. ASSUME NEW f, NEW ok, Call(f, ok)
      PROVE  /\ turn' = "pen" /\ Script[line].function = f
             /\ line \in Plain => line' = line + 1
             /\ line = 12 => line' = IF ok THEN 14 ELSE 13
             /\ line = 13 /\ ok => line' = 5
             /\ line = 20 => line' = IF ok THEN 21 ELSE 20
             /\ line = 21 /\ ok => line' = 4
  <2>1. /\ turn' = "pen" /\ Script[line].function = f
        /\ line' = IF Script[line].condition = 0 THEN line + 1
                   ELSE IF ok THEN Script[line].aa ELSE Script[line].bb
    BY <1>2 DEF Call, Reader!Following
  <2>2. line \in {12, 13, 20, 21} => Script[line].condition # 0
    BY ScriptIs
  <2>3. line \in Plain => Script[line].condition = 0
    BY ScriptIs
  <2> QED
    BY <2>1, <2>2, <2>3, ScriptIs
<1>11. ASSUME NEW f, Call(f, TRUE)
       PROVE  /\ turn' = "pen" /\ Script[line].function = f
              /\ line \in Plain => line' = line + 1
              /\ line = 13 => line' = 5
              /\ line = 21 => line' = 4
  BY <1>2, <1>11, Zenon
<1>3. CASE StartAgain
  <2>0. Call("StartAgain", TRUE)
    BY <1>3 DEF StartAgain
  <2>9. /\ turn' = "pen" /\ Script[line].function = "StartAgain"
        /\ line \in Plain => line' = line + 1
        /\ line = 13 => line' = 5
        /\ line = 21 => line' = 4
    BY <1>11, <2>0, Zenon
  <2>1. line = 4
    BY <1>1, <2>9, ScriptIs
  <2>2. turn' = "pen" /\ line' = line + 1 /\ isUserAppLocked' = isUserAppLocked
    BY <1>3, <2>9, <2>1 DEF StartAgain, Plain
  <2> QED
    BY <1>1, <1>3, <2>1, <2>2
<1>4. CASE DoesPowerOff
  <2>1. line = 12
    BY <1>1, <1>2, <1>4, ScriptIs DEF DoesPowerOff
  <2>2. turn' = "pen" /\ line' = IF sure # {} THEN 14 ELSE 13
    BY <1>2, <1>4, <2>1 DEF DoesPowerOff
  <2> QED
    BY <1>1, <1>4, <2>1, <2>2 DEF DoesPowerOff, pen, Plain
<1>5. CASE PowerOff
  <2>0. Call("PowerOff", TRUE)
    BY <1>5 DEF PowerOff
  <2>9. /\ turn' = "pen" /\ Script[line].function = "PowerOff"
        /\ line \in Plain => line' = line + 1
        /\ line = 13 => line' = 5
        /\ line = 21 => line' = 4
    BY <1>11, <2>0, Zenon
  <2>1. line = 15
    BY <1>1, <2>9, ScriptIs
  <2>2. turn' = "pen" /\ line' = line + 1
    BY <1>5, <2>9, <2>1 DEF PowerOff, Plain
  <2> QED
    BY <1>1, <1>5, <2>1, <2>2 DEF PowerOff
<1>6. CASE LoopSpecificTimes
  <2>0. PICK last \in BOOLEAN : /\ last <=> loop + 1 >= Script[line].param
                                /\ Call("LoopSpecificTimes", last)
                                /\ loop' = IF last THEN 0 ELSE loop + 1
                                /\ UNCHANGED <<pen, sensed, isUserAppLocked, random_num>>
    <3>1. LET last == loop + 1 >= Script[line].param
          IN  /\ Call("LoopSpecificTimes", last)
              /\ loop' = IF last THEN 0 ELSE loop + 1
              /\ UNCHANGED <<pen, sensed, isUserAppLocked, random_num>>
      BY <1>6 DEF LoopSpecificTimes
    <3>2. (loop + 1 >= Script[line].param) \in BOOLEAN
      OBVIOUS
    <3> QED
      BY <3>1, <3>2, Zenon
  <2>1. line = 20 /\ Script[line].param = 5
    BY <1>1, <1>2, <2>0, ScriptIs
  <2>2. turn' = "pen" /\ line' = IF last THEN 21 ELSE 20
    BY <1>2, <2>0, <2>1
  <2> QED
    BY <1>1, <2>0, <2>1, <2>2 DEF pen, Plain
<1>7. CASE UserAppLock
  <2>0. Call("UserAppLock", TRUE)
    BY <1>7 DEF UserAppLock
  <2>9. /\ turn' = "pen" /\ Script[line].function = "UserAppLock"
        /\ line \in Plain => line' = line + 1
        /\ line = 13 => line' = 5
        /\ line = 21 => line' = 4
    BY <1>11, <2>0, Zenon
  <2>1. line \in {3, 14}
    BY <1>1, <2>9, ScriptIs
  <2>2. turn' = "pen" /\ line' = line + 1
    BY <1>7, <2>9, <2>1 DEF UserAppLock, Plain
  <2> QED
    BY <1>1, <1>7, <2>1, <2>2 DEF UserAppLock, pen, Plain
<1>8. CASE UserAppUnlock
  <2>0. Call("UserAppUnlock", TRUE)
    BY <1>8 DEF UserAppUnlock
  <2>9. /\ turn' = "pen" /\ Script[line].function = "UserAppUnlock"
        /\ line \in Plain => line' = line + 1
        /\ line = 13 => line' = 5
        /\ line = 21 => line' = 4
    BY <1>11, <2>0, Zenon
  <2>1. line \in {13, 21}
    BY <1>1, <2>9, ScriptIs
  <2>2. turn' = "pen" /\ (line = 13 => line' = 5) /\ (line = 21 => line' = 4)
    BY <1>8, <2>9, <2>1 DEF UserAppUnlock
  <2>3. line \notin Plain /\ line \notin {3, 4, 12, 14, 15, 20}
    BY <2>1 DEF Plain
  <2>4. /\ UNCHANGED <<CurrentState, delay_counter, sure>>
        /\ isUserAppLocked' = FALSE
    BY <1>8 DEF UserAppUnlock, pen
  <2> QED
    BY <1>1, <2>1, <2>2, <2>3, <2>4
<1>9. ASSUME NEW f, f \notin {"StartAgain", "DoesPowerOff", "PowerOff",
                             "LoopSpecificTimes", "UserAppLock", "UserAppUnlock"},
             Call(f, TRUE), UNCHANGED <<pen, isUserAppLocked>>
      PROVE  /\ line \in Plain \ {3, 4, 14, 15} /\ turn' = "pen" /\ line' = line + 1
             /\ UNCHANGED <<CurrentState, delay_counter, sure, isUserAppLocked>>
  <2>1. Script[line].function = f
    BY <1>9 DEF Call
  <2>2. line \in Plain \ {3, 4, 14, 15}
    BY <1>1, <1>9, <2>1, ScriptIs DEF Plain
  <2> QED
    BY <1>2, <1>9, <2>2 DEF pen
<1>10. CASE \/ ScriptsFunctionInitial \/ RandomNumberGenerator \/ Generators
  <2>1. \E f : /\ f \notin {"StartAgain", "DoesPowerOff", "PowerOff",
                            "LoopSpecificTimes", "UserAppLock", "UserAppUnlock"}
               /\ Call(f, TRUE) /\ UNCHANGED <<pen, isUserAppLocked>>
    BY <1>10 DEF ScriptsFunctionInitial, RandomNumberGenerator, Generators, World,
       ForNow, UserShutDownGenerator, PenMoveStateGenerator, BleStateGenerator,
       PenChargeStateGenerator, QuickPenChargeStateGenerator,
       PenDistanceFromMagneticGenerator, QuickPenDistanceFromMagneticGenerator,
       PenPowerStateGenerator
  <2> QED
    BY <1>1, <1>9, <2>1 DEF Plain
<1> QED
  BY <1>3, <1>4, <1>5, <1>6, <1>7, <1>8, <1>10 DEF CallFunction, Generators

(* Where a call locks the pen out, and where it lets it in again. *)
LEMMA CallLocks ==
  ASSUME line \in DOMAIN Script, CallFunction
  PROVE  /\ line \in {13, 21} => ~isUserAppLocked'
         /\ line \notin {3, 13, 14, 21} => isUserAppLocked' = isUserAppLocked
<1>1. isUserAppLocked' = IF line \in {3, 14} THEN TRUE
                         ELSE IF line \in {13, 21} THEN FALSE
                         ELSE isUserAppLocked
  BY CallIs, Zenon
<1>2. CASE line \in {13, 21}
  <2>1. line \notin {3, 14}
    BY <1>2
  <2>2. isUserAppLocked' = FALSE
    BY <1>1, <1>2, <2>1, Zenon
  <2> QED
    BY <1>2, <2>2
<1>3. CASE line \notin {3, 13, 14, 21}
  <2>1. line \notin {3, 14} /\ line \notin {13, 21}
    BY <1>3
  <2> QED
    BY <1>1, <2>1, Zenon
<1> QED
  BY <1>2, <1>3

(* The way to the restart: a pen that is sure of its state is on it, and   *)
(* so is a bench that has switched the pen off.  Lines counts the calls    *)
(* left, the restart among them.                                           *)
Going == sure # {} \/ line \in 14 .. 21 \/ line = 4
Lines ==
  CASE line \in 1 .. 4   -> 5 - line
    [] line \in 5 .. 12  -> 28 - line
    [] line = 13         -> 24
    [] line \in 14 .. 19 -> 28 - line
    [] line = 20         -> 7 - loop
    [] line = 21         -> 2
ToRestart == 2 * Lines + IF turn = "pen" THEN 1 ELSE 0

(* A handler that is sure of its state keeps the pen as it is. *)
LEMMA TickKeepsSure ==
  ASSUME SureIsThere, PenTypeOK, sure # {}, PenBasicStateHandle
  PROVE  UNCHANGED pen
<1>1. CurrentState \in sure /\ CurrentState \in Last
  BY DEF SureIsThere, PenTypeOK
<1> QED
  BY <1>1
  DEF PenBasicStateHandle, JustWakeUpAction, GetGlobalStateAction,
      PenChargeWhenShutDownStateHandle, PenDisconnectedStateHandle,
      PenConnectedStateHandle, PenShutDownStateHandle, PenQuietStateHandle,
      StateHandle, Sure, Last

(* The calls left are a positive number. *)
LEMMA LinesIs == ASSUME TypeOK PROVE Lines \in Nat \ {0}
BY ScriptIs DEF TypeOK, Lines

(* A call on the way leads on, or is the restart. *)
LEMMA CallLeadsToRestart ==
  ASSUME TypeOK, TypeOK', Going, CallFunction, ~StartAgain
  PROVE  Going' /\ Lines' < Lines
<1>1. line \in 1 .. 21 /\ loop \in 0 .. 4 /\ loop' \in 0 .. 4
  BY ScriptIs DEF TypeOK
<1>2. line # 4
  BY CallIs DEF TypeOK
<1>3. CASE line = 12
  <2>1. line' = 14
    BY <1>3, CallIs DEF TypeOK, Going
  <2> QED
    BY <1>3, <2>1 DEF Going, Lines
<1>4. CASE line = 13
  <2>1. line' = 5 /\ sure' = sure
    BY <1>4, CallIs DEF TypeOK
  <2> QED
    BY <1>4, <2>1 DEF Going, Lines
<1>5. CASE line = 20
  <2>1. \/ loop + 1 >= 5 /\ line' = 21
        \/ line' = 20 /\ loop' = loop + 1
    BY <1>5, CallIs DEF TypeOK
  <2> QED
    BY <1>1, <1>5, <2>1 DEF Going, Lines
<1>6. CASE line = 21
  <2>1. line' = 4
    BY <1>6, CallIs DEF TypeOK
  <2> QED
    BY <1>6, <2>1 DEF Going, Lines
<1>7. CASE line \in 14 .. 19
  <2>1. line' = line + 1
    BY <1>7, CallIs DEF TypeOK, Plain
  <2> QED
    BY <1>1, <1>7, <2>1 DEF Going, Lines
<1>8. CASE line \in 1 .. 3 \cup 5 .. 11
  <2>1. line' = line + 1 /\ sure' = sure
    BY <1>8, CallIs DEF TypeOK, Plain
  <2>2. sure # {}
    BY <1>8 DEF Going
  <2> QED
    BY <1>8, <2>1, <2>2 DEF Going, Lines
<1> QED
  BY <1>1, <1>2, <1>3, <1>4, <1>5, <1>6, <1>7, <1>8

(* A step on the way is the restart, or one step less is left. *)
LEMMA NextToRestart ==
  IInv /\ IInv' /\ [Next]_vars
    => [Going => StartAgain \/ (Going' /\ ToRestart' < ToRestart)]_vars
<1> SUFFICES ASSUME IInv, IInv', Next, Going, ~StartAgain
             PROVE  Going' /\ ToRestart' < ToRestart
  OBVIOUS
<1>1. Lines \in Nat /\ Lines' \in Nat
  <2>1. Lines \in Nat
    BY LinesIs DEF IInv
  <2>2. TypeOK => Lines \in Nat
    BY LinesIs
  <2>3. line' \in 1 .. 21 /\ loop' \in 0 .. 4
    BY ScriptIs DEF IInv, TypeOK
  <2>4. Lines' \in Nat
    BY <2>3 DEF Lines
  <2> QED
    BY <2>1, <2>4
<1>2. CASE CallFunction
  <2>1. Going' /\ Lines' < Lines
    BY <1>2, CallLeadsToRestart DEF IInv
  <2>2. turn = "script" /\ turn' = "pen"
    BY <1>2, CallIs DEF IInv, TypeOK
  <2>3. ToRestart = 2 * Lines /\ ToRestart' = 2 * Lines' + 1
    BY <1>1, <2>2 DEF ToRestart
  <2>4. ToRestart' < ToRestart
    <3>1. PICK n \in Nat : n = Lines
      BY <1>1
    <3>2. PICK m \in Nat : m = Lines'
      BY <1>1
    <3>3. m < n
      BY <2>1, <3>1, <3>2, Zenon
    <3>4. 2 * m + 1 < 2 * n
      BY <3>3
    <3> QED
      BY <2>3, <3>1, <3>2, <3>4, Zenon
  <2> QED
    BY <2>1, <2>4
<1>3. CASE onTick
  <2>1. line' = line /\ loop' = loop /\ turn = "pen" /\ turn' = "script"
    BY <1>3 DEF onTick
  <2>2. sure # {} => sure' = sure
    BY <1>3, TickKeepsSure DEF onTick, pen, IInv, TypeOK
  <2>3. Going' /\ Lines' = Lines
    BY <2>1, <2>2 DEF Going, Lines
  <2>4. ToRestart = 2 * Lines + 1 /\ ToRestart' = 2 * Lines'
    BY <1>1, <2>1 DEF ToRestart
  <2> QED
    BY <1>1, <2>3, <2>4
<1> QED
  BY <1>2, <1>3 DEF Next

(* A pen that is sure of its state is switched off and started again: from *)
(* then on every step of timer1_callback is the restart or brings it one   *)
(* closer, and it never was further than the script is long.               *)
THEOREM RestartComesUp ==
  Spec => /\ [](ToRestart \in 0 .. 49)
          /\ [][Going => StartAgain \/ (Going' /\ ToRestart' < ToRestart)]_vars
<1>1. IInv /\ [Next]_vars => IInv'
  BY NextIInv
<1>2. IInv => ToRestart \in 0 .. 49
  <2> SUFFICES ASSUME IInv PROVE ToRestart \in 0 .. 49
    OBVIOUS
  <2>1. line \in 1 .. 21 /\ loop \in 0 .. 4
    BY ScriptIs DEF IInv, TypeOK
  <2>2. Lines \in 1 .. 24
    BY <2>1 DEF Lines
  <2> QED
    BY <2>2 DEF ToRestart
<1> QED
  BY InitIInv, <1>1, <1>2, NextToRestart, PTL DEF Spec

(* The way out of waking up: the lines before the bench settles down to    *)
(* its long loop, the ticks the pen still needs, and the calls to its next *)
(* tick, which the script may have locked out.                             *)
Before    == IF line < 5 THEN 5 - line ELSE 0
TicksLeft == IF CurrentState = "JustWakeUp"
             THEN 2 + (WAKE_UP_DELAY - delay_counter) ELSE 1
ToTick    == IF isUserAppLocked
             THEN 2 * (14 - line) + IF turn = "pen" THEN 1 ELSE 0
             ELSE IF turn = "pen" THEN 0 ELSE 1

BootsDown ==
  \/ Before' < Before
  \/ Before' = Before /\ TicksLeft' < TicksLeft
  \/ Before' = Before /\ TicksLeft' = TicksLeft /\ ToTick' < ToTick

ComesOut ==
  CurrentState \in Booting => CurrentState' \notin Booting \/ BootsDown

(* The script comes to the lines that switch the pen off only when the pen *)
(* is sure of its state, and locks it out only from its third line on.     *)
BootIInv == /\ IInv
            /\ CurrentState \in Booting => line \in 1 .. 13
            /\ isUserAppLocked => line >= 4

(* A tick of the pen does not take it back to waking up, and the ticks to  *)
(* the first decision are counted down.                                    *)
LEMMA TickBoots ==
  ASSUME IInv, PenBasicStateHandle
  PROVE  /\ CurrentState' \in Booting => CurrentState \in Booting
         /\ CurrentState \in Booting
              => CurrentState' \notin Booting \/ TicksLeft' < TicksLeft
<1>1. ASSUME NEW state \in PBS \ Booting, NEW certain, StateHandle(state, certain)
      PROVE  CurrentState \notin Booting /\ CurrentState' \notin Booting
  <2> DEFINE next == PenBasicStateGetUnderCertainState(state, Factor')
  <2>1. next \in PBS \ Booting
    BY DecisionInPBS
  <2> QED
    BY <1>1, <2>1 DEF StateHandle, SetCurrentBasicState
<1>2. ASSUME NEW state \in PBS \ Booting, Sure(state)
      PROVE  CurrentState \notin Booting /\ CurrentState' \notin Booting
  BY <1>2 DEF Sure, pen
<1>3. CASE JustWakeUpAction
  <2>1. CurrentState = "JustWakeUp"
    BY <1>3 DEF JustWakeUpAction
  <2>2. delay_counter \in 0 .. WAKE_UP_DELAY /\ WAKE_UP_DELAY \in Nat
    BY PenStateAssumption DEF IInv, TypeOK, PenTypeOK
  <2>3. CASE delay_counter < WAKE_UP_DELAY
    BY <1>3, <2>1, <2>2, <2>3 DEF JustWakeUpAction, TicksLeft, Booting
  <2>4. CASE ~(delay_counter < WAKE_UP_DELAY)
    BY <1>3, <2>1, <2>2, <2>4 DEF JustWakeUpAction, TicksLeft, Booting
  <2> QED
    BY <2>3, <2>4
<1>4. CASE GetGlobalStateAction
  <2>1. CurrentState' \notin Booting
    BY <1>4, FirstDecisionInPBS DEF GetGlobalStateAction, SetCurrentBasicState
  <2> QED
    BY <2>1
<1>5. CASE \/ PenChargeWhenShutDownStateHandle \/ PenDisconnectedStateHandle
           \/ PenConnectedStateHandle
  BY <1>1, <1>5 DEF PenChargeWhenShutDownStateHandle, PenDisconnectedStateHandle,
                    PenConnectedStateHandle, PBS, Booting, Awake
<1>6. CASE PenQuietStateHandle \/ PenShutDownStateHandle
  BY <1>1, <1>2, <1>6 DEF PenQuietStateHandle, PenShutDownStateHandle,
                          PBS, Booting, Awake
<1> QED
  BY <1>3, <1>4, <1>5, <1>6 DEF PenBasicStateHandle

(* A pen that is waking up is not sure of its state. *)
LEMMA NotSureWhileBooting ==
  ASSUME IInv, CurrentState \in Booting PROVE sure = {}
BY DEF IInv, TypeOK, PenTypeOK, SureIsThere, Booting, Last

(* Where a call leads that does not leave the lines before the long loop   *)
(* or in it.                                                               *)
LEMMA BootCall ==
  ASSUME BootIInv, CurrentState \in Booting, CallFunction
  PROVE  /\ (line \in 1 .. 12 /\ line' = line + 1) \/ (line = 13 /\ line' = 5)
         /\ line # 4 => UNCHANGED <<CurrentState, delay_counter>>
<1>1. line \in 1 .. 13 /\ line \in DOMAIN Script /\ sure = {}
  BY NotSureWhileBooting DEF BootIInv, IInv, TypeOK
<1>2. CASE line = 12
  BY <1>1, <1>2, CallIs
<1>3. CASE line = 13
  BY <1>1, <1>3, CallIs
<1>4. CASE line \in 1 .. 11
  <2>1. line' = line + 1
    BY <1>1, <1>4, CallIs DEF Plain
  <2>2. line # 4 => UNCHANGED <<CurrentState, delay_counter>>
    BY <1>1, CallIs
  <2> QED
    BY <1>4, <2>1, <2>2
<1> QED
  BY <1>1, <1>2, <1>3, <1>4

(* The script and the pen stay in step. *)
LEMMA BootNextIInv == BootIInv /\ [Next]_vars => BootIInv'
<1> SUFFICES ASSUME BootIInv, [Next]_vars PROVE BootIInv'
  OBVIOUS
<1>1. IInv'
  BY NextIInv DEF BootIInv
<1>2. line \in 1 .. 21 /\ line \in DOMAIN Script
  BY ScriptIs DEF BootIInv, IInv, TypeOK
<1>3. CASE CallFunction
  <2>1. CurrentState' \in Booting => line' \in 1 .. 13
    <3>1. CASE StartAgain
      <4>1. line = 4
        BY <1>2, <3>1, ScriptIs DEF StartAgain, Call
      <4>2. line' = line + 1
        BY <1>2, <1>3, <4>1, CallIs DEF Plain
      <4> QED
        BY <4>1, <4>2
    <3>2. CASE CurrentState' = CurrentState
      <4> SUFFICES ASSUME CurrentState \in Booting PROVE line' \in 1 .. 13
        BY <3>2
      <4> QED
        BY <1>3, BootCall
    <3> QED
      BY <1>3, <3>1, <3>2, ScriptLeavesThePen
  <2>2. isUserAppLocked' => line' >= 4
    <3> SUFFICES ASSUME isUserAppLocked' PROVE line' >= 4
      OBVIOUS
    <3>1. line \notin {13, 21} /\ (line \in {3, 14} \/ isUserAppLocked)
      BY <1>2, <1>3, CallLocks
    <3>2. line >= 3
      <4>1. isUserAppLocked => line >= 4
        BY DEF BootIInv
      <4> QED
        BY <1>2, <3>1, <4>1
    <3>3. line = 12 => line' \in {13, 14}
      BY <1>2, <1>3, CallIs
    <3>4. line = 20 => line' \in {20, 21}
      BY <1>2, <1>3, CallIs
    <3>5. line \in Plain => line' = line + 1
      BY <1>2, <1>3, CallIs
    <3> QED
      BY <1>2, <3>1, <3>2, <3>3, <3>4, <3>5 DEF Plain
  <2> QED
    BY <1>1, <2>1, <2>2 DEF BootIInv
<1>4. CASE onTick
  <2>1. line' = line /\ isUserAppLocked' = isUserAppLocked
    BY <1>4 DEF onTick
  <2>2. CurrentState' \in Booting => CurrentState \in Booting
    <3>1. CASE isUserAppLocked
      BY <1>4, <3>1 DEF onTick, pen
    <3>2. CASE ~isUserAppLocked
      BY <1>4, <3>2, TickBoots DEF onTick, BootIInv
    <3> QED
      BY <3>1, <3>2
  <2> QED
    BY <1>1, <2>1, <2>2 DEF BootIInv
<1>5. CASE UNCHANGED vars
  BY <1>1, <1>5 DEF BootIInv, vars, pen, bench
<1> QED
  BY <1>3, <1>4, <1>5 DEF Next

(* While the pen wakes up every step takes it out, or counts down.         *)
LEMMA NextBoots ==
  BootIInv /\ BootIInv' /\ [Next]_vars
    => [ComesOut]_vars
<1> SUFFICES ASSUME BootIInv, BootIInv', Next, CurrentState \in Booting
             PROVE  CurrentState' \notin Booting \/ BootsDown
  BY DEF ComesOut
<1>1. line \in 1 .. 13
  BY DEF BootIInv
<1>2. CASE CallFunction
  <2>1. /\ (line \in 1 .. 12 /\ line' = line + 1) \/ (line = 13 /\ line' = 5)
        /\ line # 4 => UNCHANGED <<CurrentState, delay_counter>>
    BY <1>2, BootCall
  <2>2. turn = "script" /\ turn' = "pen"
    BY <1>2, CallIs DEF BootIInv, IInv, TypeOK
  <2>3. /\ line = 13 => ~isUserAppLocked'
        /\ line \in 5 .. 12 => isUserAppLocked' = isUserAppLocked
    BY <1>2, CallLocks DEF BootIInv, IInv, TypeOK
  <2>4. CASE line < 5
    <3>1. Before' < Before
      BY <1>1, <2>1, <2>4 DEF Before
    <3> QED
      BY <3>1 DEF BootsDown
  <2>5. CASE line \in 5 .. 13
    <3>1. Before' = Before
      BY <2>1, <2>5 DEF Before
    <3>2. TicksLeft' = TicksLeft
      BY <2>1, <2>5 DEF TicksLeft
    <3>3. ToTick' < ToTick
      <4>1. CASE isUserAppLocked /\ line # 13
        <5>0. line \in 5 .. 12
          BY <2>5, <4>1
        <5>11. isUserAppLocked'
          BY <2>3, <4>1, <5>0, Zenon
        <5>12. line' = line + 1
          BY <2>1, <4>1
        <5>1. isUserAppLocked' /\ line' = line + 1
          BY <5>11, <5>12
        <5>2. ToTick = 2 * (14 - line) + 0 /\ ToTick' = 2 * (14 - line') + 1
          BY <2>2, <4>1, <5>1 DEF ToTick
        <5> QED
          BY <1>1, <5>1, <5>2
      <4>2. CASE isUserAppLocked /\ line = 13
        <5>1. ~isUserAppLocked'
          BY <2>3, <2>5, <4>2
        <5>2. ToTick = 2 * (14 - line) + 0 /\ ToTick' = 0
          BY <2>2, <4>2, <5>1 DEF ToTick
        <5> QED
          BY <4>2, <5>2
      <4>3. CASE ~isUserAppLocked
        <5>1. ~isUserAppLocked'
          BY <2>3, <2>5, <4>3
        <5>2. ToTick = 1 /\ ToTick' = 0
          BY <2>2, <4>3, <5>1 DEF ToTick
        <5> QED
          BY <5>2
      <4> QED
        BY <4>1, <4>2, <4>3
    <3> QED
      BY <3>1, <3>2, <3>3 DEF BootsDown
  <2> QED
    BY <1>1, <2>4, <2>5
<1>3. CASE onTick
  <2>1. /\ line' = line /\ isUserAppLocked' = isUserAppLocked
        /\ turn = "pen" /\ turn' = "script"
    BY <1>3 DEF onTick
  <2>2. Before' = Before
    BY <2>1 DEF Before
  <2>3. CASE isUserAppLocked
    <3>1. CurrentState' = CurrentState /\ delay_counter' = delay_counter
      BY <1>3, <2>3 DEF onTick, pen
    <3>2. TicksLeft' = TicksLeft
      BY <3>1 DEF TicksLeft
    <3>3. ToTick' < ToTick
      <4>1. ToTick = 2 * (14 - line) + 1 /\ ToTick' = 2 * (14 - line) + 0
        BY <2>1, <2>3 DEF ToTick
      <4> QED
        BY <1>1, <4>1
    <3> QED
      BY <2>2, <3>2, <3>3 DEF BootsDown
  <2>4. CASE ~isUserAppLocked
    BY <1>3, <2>2, <2>4, TickBoots DEF onTick, BootIInv, BootsDown
  <2> QED
    BY <2>3, <2>4
<1> QED
  BY <1>2, <1>3 DEF Next

(* A pen that wakes up comes to a state of its own: every step of          *)
(* timer1_callback takes it there or lowers a triple of numbers, first     *)
(* things first, although the script locks the pen out now and then.       *)
THEOREM BootComesToAnEnd ==
  Spec => /\ [](CurrentState \in Booting
                  => Before \in Nat /\ TicksLeft \in Nat /\ ToTick \in Nat)
          /\ [][ComesOut]_vars
<1>1. Init => BootIInv
  <2> SUFFICES ASSUME Init PROVE BootIInv
    OBVIOUS
  <2>1. line = 1 /\ ~isUserAppLocked
    BY DEF Init
  <2> QED
    BY <2>1, InitIInv DEF BootIInv
<1>2. BootIInv => (CurrentState \in Booting
                     => Before \in Nat /\ TicksLeft \in Nat /\ ToTick \in Nat)
  <2> SUFFICES ASSUME BootIInv, CurrentState \in Booting
               PROVE  Before \in Nat /\ TicksLeft \in Nat /\ ToTick \in Nat
    OBVIOUS
  <2>1. line \in 1 .. 13
    BY DEF BootIInv
  <2>2. delay_counter \in 0 .. WAKE_UP_DELAY /\ WAKE_UP_DELAY \in Nat
    BY PenStateAssumption DEF BootIInv, IInv, TypeOK, PenTypeOK
  <2>3. Before \in Nat
    BY <2>1 DEF Before
  <2>4. TicksLeft \in Nat
    BY <2>2 DEF TicksLeft
  <2>5. ToTick \in Nat
    BY <2>1 DEF ToTick
  <2> QED
    BY <2>3, <2>4, <2>5
<1> QED
  BY <1>1, <1>2, BootNextIInv, NextBoots, PTL DEF Spec

-----------------------------------------------------------------------------
\* The general engine: StateMachineRun.
RunIInv == Run!TypeOK /\ Run!InTable

\* The state StateMachineRun falls back to is one of the table.
LEMMA RunDefaultInTable ==
  ASSUME Run!TableGiven
  PROVE  /\ Run!DEFAULT_STATE_NUMBER \in Run!State
         /\ Run!DEFAULT_STATE_NUMBER \in StateNumber
<1>1. 0 \in 0 .. AllStateNum - 1 BY DEF Run!TableGiven
<1> QED BY <1>1 DEF Run!DEFAULT_STATE_NUMBER, Run!State, Run!TableGiven

\* A hop begins, or the state has none and the run ends.
LEMMA BeginHopKeeps ==
  ASSUME Run!TableGiven, RunIInv,
         NEW state \in StateNumber, NEW count \in 1 .. MaxHopTimes,
         Run!BeginHop(state, count)
  PROVE  RunIInv'
<1>1. CASE state \in Run!State /\ p_hop[state] # <<>>
  <2>1. p_hop[state] \in Seq(Run!Hop) BY <1>1 DEF Run!TableGiven
  <2>2. Len(p_hop[state]) \in Nat \ {0} BY <2>1, <1>1
  <2> QED BY <1>1, <2>2
    DEF Run!BeginHop, RunIInv, Run!TypeOK, Run!InTable, Run!TableGiven
<1>2. CASE ~(state \in Run!State /\ p_hop[state] # <<>>)
  BY <1>2, RunDefaultInTable
    DEF Run!BeginHop, Run!Ended, RunIInv, Run!TypeOK, Run!InTable
<1> QED BY <1>1, <1>2

\* A hop ends: the last one, the state stays, or the next one begins.
LEMMA EndHopKeeps ==
  ASSUME Run!TableGiven, RunIInv, NEW state \in StateNumber, Run!EndHop(state)
  PROVE  RunIInv'
<1>1. CASE Run!Ended(state, "APP_SUCCESSED")
  BY <1>1 DEF Run!Ended, RunIInv, Run!TypeOK, Run!InTable
<1>2. CASE hop < MaxHopTimes /\ Run!BeginHop(state, hop + 1)
  <2>1. hop + 1 \in 1 .. MaxHopTimes
    BY <1>2 DEF RunIInv, Run!TypeOK, Run!TableGiven
  <2> QED BY <1>2, <2>1, BeginHopKeeps
<1> QED BY <1>1, <1>2 DEF Run!EndHop

LEMMA StaysKeeps ==
  ASSUME Run!TableGiven, RunIInv, running, Run!Stays
  PROVE  RunIInv'
<1>1. current_state \in Run!State /\ current_state \in StateNumber
  BY DEF RunIInv, Run!TypeOK, Run!TableGiven
<1>2. Len(p_hop[current_state]) \in Nat BY <1>1 DEF Run!TableGiven
<1>3. CASE Run!NextQuestion
  BY <1>2, <1>3 DEF Run!NextQuestion, RunIInv, Run!TypeOK, Run!InTable
<1>4. CASE Run!EndHop(current_state) BY <1>1, <1>4, EndHopKeeps
<1> QED BY <1>3, <1>4 DEF Run!Stays

LEMMA RunNextIInv ==
  ASSUME Run!TableGiven, RunIInv, [Run!Next]_(Run!vars)
  PROVE RunIInv'
<1>1. CASE Run!Start
  <2>1. CASE stored > MAX_STATE_NUMBER
    BY <1>1, <2>1, RunDefaultInTable
      DEF Run!Start, Run!Ended, RunIInv, Run!TypeOK, Run!InTable
  <2>2. CASE ~(stored > MAX_STATE_NUMBER)
    <3>1. stored \in StateNumber /\ 1 \in 1 .. MaxHopTimes
      BY DEF RunIInv, Run!TypeOK, Run!TableGiven
    <3> QED BY <1>1, <2>2, <3>1, BeginHopKeeps DEF Run!Start
  <2> QED BY <2>1, <2>2
<1>2. CASE Run!Ask
  <2>1. CASE Run!Stays BY <1>2, <2>1, StaysKeeps DEF Run!Ask
  <2>2. ASSUME NEW own \in StateNumber, NEW next \in Run!Leads(own),
               p_hop[current_state][question].onHop, Run!EndHop(next)
        PROVE  RunIInv'
    <3>1. /\ p_hop[current_state] \in Seq(Run!Hop)
          /\ question \in 1 .. Len(p_hop[current_state])
      BY <1>2 DEF Run!Ask, RunIInv, Run!TypeOK, Run!InTable, Run!TableGiven
    <3>2. p_hop[current_state][question] \in Run!Hop BY <3>1
    <3>3. next \in StateNumber BY <3>2 DEF Run!Leads, Run!Hop
    <3> QED BY <2>2, <3>3, EndHopKeeps
  <2> QED BY <1>2, <2>1, <2>2 DEF Run!Ask
<1>3. ASSUME NEW state \in StateNumber, Run!StateMachineStateSet(state)
  PROVE RunIInv'
  BY <1>3 DEF Run!StateMachineStateSet, RunIInv, Run!TypeOK, Run!InTable
<1>4. CASE UNCHANGED Run!vars
  BY <1>4 DEF Run!vars, RunIInv, Run!TypeOK, Run!InTable
<1> QED BY <1>1, <1>2, <1>3, <1>4 DEF Run!Next

(* A run never reads beyond the table, whatever states the hops answer and *)
(* whatever StateMachineStateSet is given; the price is a run that may     *)
(* answer APP_SUCCESSED and leave a state that only the next one rejects.  *)
THEOREM HopsInTable == ASSUME Run!TableGiven
  PROVE Run!Spec => [](Run!TypeOK /\ Run!InTable)
<1>1. Run!Init => RunIInv
  <2>1. MaxHopTimes \in Nat \ {0} BY DEF Run!TableGiven
  <2>2. 1 \in 1 .. MaxHopTimes BY <2>1
  <2> SUFFICES ASSUME Run!Init PROVE RunIInv OBVIOUS
  <2>3. stored \in StateNumber /\ current_state \in Run!State
    BY RunDefaultInTable DEF Run!Init
  <2>4. hop \in 1 .. MaxHopTimes BY <2>2 DEF Run!Init
  <2>5. question \in Nat \ {0} BY DEF Run!Init
  <2>6. running \in BOOLEAN /\ Run!InTable BY DEF Run!Init, Run!InTable
  <2>7. answer = "none" BY DEF Run!Init
  <2> QED BY <2>3, <2>4, <2>5, <2>6, <2>7 DEF RunIInv, Run!TypeOK
<1>2. RunIInv /\ [Run!Next]_(Run!vars) => RunIInv' BY RunNextIInv
<1>3. RunIInv => Run!TypeOK /\ Run!InTable BY DEF RunIInv
<1> QED BY <1>1, <1>2, <1>3, PTL DEF Run!Spec

-----------------------------------------------------------------------------
\* The simple engine: SimpleStateMachineRun.
SimpleIInv == Simple!TypeOK /\ Simple!NeverBeyondScope

\* So is that of SimpleStateMachineRun.
LEMMA SimpleDefaultInTable ==
  ASSUME Simple!TableGiven
  PROVE  Simple!DEFAULT_STATE_NUMBER \in Simple!State
BY DEF Simple!TableGiven, Simple!DEFAULT_STATE_NUMBER, Simple!State

LEMMA SimpleNextIInv ==
  ASSUME Simple!TableGiven, SimpleIInv, [Simple!Next]_(Simple!vars)
  PROVE  SimpleIInv'
<1> USE DEF SimpleIInv, Simple!TypeOK, Simple!NeverBeyondScope
<1>1. CASE Simple!Start
  <2>1. ~(stored > MAX_STATE_NUMBER) BY DEF Simple!State, Simple!TableGiven
  <2>2. 0 \in 0 .. MaxHopTimes BY DEF Simple!TableGiven
  <2> QED BY <1>1, <2>1, <2>2 DEF Simple!Start
<1>2. CASE Simple!Act
  <2>1. hop + 1 \in 0 .. MaxHopTimes BY <1>2 DEF Simple!Act, Simple!TableGiven
  <2>2. PICK next \in StateNumber : Simple!Answers(next) BY <1>2 DEF Simple!Act
  <2>3. CASE next \in Simple!State
    BY <2>1, <2>2, <2>3 DEF Simple!Answers, Simple!Finish, Simple!Ended
  <2>4. CASE next \notin Simple!State
    BY <2>1, <2>2, <2>4, SimpleDefaultInTable
       DEF Simple!Answers, Simple!Ended
  <2> QED BY <2>3, <2>4
<1>3. CASE Simple!NoAction
  <2>1. hop + 1 \in 0 .. MaxHopTimes
    BY <1>3 DEF Simple!NoAction, Simple!TableGiven
  <2> QED BY <1>3, <2>1 DEF Simple!NoAction, Simple!Finish, Simple!Ended
<1>4. CASE Simple!NoMoreHops
  BY <1>4 DEF Simple!NoMoreHops, Simple!Finish, Simple!Ended
<1>5. ASSUME NEW state \in Simple!State, Simple!SimpleStateMachineStateSet(state)
      PROVE  SimpleIInv'
  BY <1>5 DEF Simple!SimpleStateMachineStateSet
<1>6. CASE UNCHANGED Simple!vars BY <1>6 DEF Simple!vars
<1> QED BY <1>1, <1>2, <1>3, <1>4, <1>5, <1>6 DEF Simple!Next

(* If only states of the table are set from outside, a run looks up only   *)
(* states of the table, although it does not check where it starts, and    *)
(* whatever states the actions answer.                                     *)
THEOREM ActionsInTable == ASSUME Simple!TableGiven
  PROVE Simple!Spec => [](Simple!TypeOK /\ Simple!NeverBeyondScope)
<1>1. Simple!Init => SimpleIInv
  <2>1. 0 \in 0 .. MaxHopTimes BY DEF Simple!TableGiven
  <2> QED BY <2>1, SimpleDefaultInTable
    DEF Simple!Init, SimpleIInv, Simple!TypeOK, Simple!NeverBeyondScope
<1>2. SimpleIInv /\ [Simple!Next]_(Simple!vars) => SimpleIInv' BY SimpleNextIInv
<1>3. SimpleIInv => Simple!TypeOK /\ Simple!NeverBeyondScope BY DEF SimpleIInv
<1> QED BY <1>1, <1>2, <1>3, PTL DEF Simple!Spec

-----------------------------------------------------------------------------
(* The buttons. *)

(* The thresholds come in the order of the defaults, and each takes a      *)
(* sample at least.                                                        *)
ThresholdsInOrder ==
  /\ ButtonNumber \in Nat \ {0}
  /\ ReleaseTimeThreshold \in Nat \ {0} /\ ReleaseAllTimeThreshold \in Nat
  /\ ClickTimeThreshold \in Nat /\ LongPushTimeThreshold \in Nat
  /\ CounterMax \in Nat
  /\ ReleaseTimeThreshold < ReleaseAllTimeThreshold
  /\ ReleaseAllTimeThreshold <= ClickTimeThreshold
  /\ ClickTimeThreshold < LongPushTimeThreshold
  /\ LongPushTimeThreshold <= CounterMax

\* What the counters know of the contact: a clear makes them know less.
Contact(b) ==
  /\ release[b] # 0 => push[b] = 0
  /\ push[b] = 0 <=> held[b] = 0
  /\ push[b] <= held[b] \/ held[b] = LongPushTimeThreshold

(* What a state of the machine has behind it: the full presses since the   *)
(* last report, of which the one that is under way counts only once.       *)
Earned(b) ==
  /\ buttonState[b] \in {"Start", "ClickDetect"}
       => (held[b] >= ClickTimeThreshold => presses[b] >= 1)
  /\ buttonState[b] \in {"LongPushDetect", "ClickReleaseDetect", "SureClick"}
       => presses[b] >= 1
  /\ buttonState[b] = "ClickReleaseDetect"
       => (held[b] >= ClickTimeThreshold => presses[b] = 2)
  /\ buttonState[b] \in {"DoubleClickDetect", "SureDoubleClick"}
       => presses[b] = 2
  /\ buttonState[b] \in {"Init", "SureClick", "SureDoubleClick",
                         "SureLongPushRelease"}
       => held[b] <= 1
  /\ buttonState[b] = "SureLongPush" => b \in longHeld
  /\ buttonState[b] \in {"Start", "ClickDetect", "LongPushDetect",
                         "ClickReleaseDetect", "DoubleClickDetect"}
       => (held[b] = LongPushTimeThreshold => b \in longHeld)

(* From a long push to its release the counter is the length of the        *)
(* contact, and what is kept of it says whether the one before was long.   *)
Kept(b) ==
  buttonState[b] \in {"SureLongPush", "LongPushReleaseDetect",
                      "SureLongPushRelease"}
    => /\ held[b] = IF push[b] >= LongPushTimeThreshold THEN LongPushTimeThreshold
                                                        ELSE push[b]
       /\ push[b] = 0 \/ buttonState[b] = "SureLongPushRelease"
            => /\ latest[b] >= 1
               /\ latest[b] >= LongPushTimeThreshold <=> b \in wasLong

Owed(b) ==
  b \in open <=> buttonState[b] \in {"LongPushReleaseDetect", "SureLongPushRelease"}

\* All machines leave their first state in the same call.
Together == \/ \A b \in Button!Buttons : buttonState[b] = "Init"
            \/ \A b \in Button!Buttons : buttonState[b] # "Init"

Pressed(b) == Contact(b) /\ Earned(b) /\ Kept(b) /\ Owed(b)

ButtonIInv == /\ Button!TypeOK /\ Together
              /\ \A b \in Button!Buttons : Pressed(b)

\* The table of actions, state by state.
LEMMA ActionIs ==
  ASSUME NEW b, buttonState[b] \in Button!States
  PROVE  /\ buttonState[b] = "Init" =>
              Button!Action(b) = Button!Clear({"push", "release"}, "Start")
         /\ buttonState[b] = "Start" => Button!Action(b) = Button!Goto("ClickDetect")
         /\ buttonState[b] = "ClickDetect" =>
              Button!Action(b) = Button!ClickDetect(b)
         /\ buttonState[b] = "LongPushDetect" =>
              Button!Action(b) = Button!LongPushDetect(b)
         /\ buttonState[b] = "SureLongPush" =>
              Button!Action(b) = Button!Tell("longpush", "LongPushReleaseDetect")
         /\ buttonState[b] = "LongPushReleaseDetect" =>
              Button!Action(b) = Button!LongPushReleaseDetect(b)
         /\ buttonState[b] = "SureLongPushRelease" =>
              Button!Action(b) = Button!Tell("longpushrelease", "Start")
         /\ buttonState[b] = "ClickReleaseDetect" =>
              Button!Action(b) = Button!ClickReleaseDetect(b)
         /\ buttonState[b] = "DoubleClickDetect" =>
              Button!Action(b) = Button!DoubleClickDetect(b)
         /\ buttonState[b] = "SureClick" =>
              Button!Action(b) = Button!Tell("click", "Start")
         /\ buttonState[b] = "SureDoubleClick" =>
              Button!Action(b) = Button!Tell("doubleclick", "Start")
BY DEF Button!Action, Button!States, Button!SureLongPush

(* The gestures told are those the actions flag: InitAction, which takes   *)
(* all flags back, runs before any other action or not at all.             *)
LEMMA FlaggedIs ==
  ASSUME ThresholdsInOrder, Button!TypeOK, Together, NEW g \in Button!Gestures,
         NEW b \in Button!Buttons
  PROVE  b \in Button!Flagged(g) <=> g \in Button!Action(b).flags
<1>1. ButtonNumber \in Nat /\ b \in 0 .. ButtonNumber - 1
  BY DEF ThresholdsInOrder, Button!Buttons
<1>2. CASE \A c \in Button!Buttons : buttonState[c] # "Init"
  <2>1. \A later \in b + 1 .. ButtonNumber - 1 : later \in Button!Buttons
    BY <1>1 DEF Button!Buttons
  <2> QED
    BY <1>2, <2>1 DEF Button!Flagged
<1>3. CASE \A c \in Button!Buttons : buttonState[c] = "Init"
  <2>1. buttonState[b] = "Init" /\ buttonState[b] \in Button!States
    BY <1>3 DEF Button!States
  <2>2. Button!Action(b) = Button!Clear({"push", "release"}, "Start")
    BY <2>1, ActionIs
  <2>3. Button!Action(b).flags = {}
    BY <2>2 DEF Button!Clear
  <2> QED
    BY <2>3 DEF Button!Flagged
<1> QED
  BY <1>2, <1>3 DEF Together

(* What one call does to a button: a is its action, x and y are what the   *)
(* action leaves of the counters.                                          *)
Called(b, down, a, x, y) ==
  /\ a = Button!Action(b)
  /\ x = (IF "push" \in a.clears THEN 0 ELSE push[b])
  /\ y = (IF "release" \in a.clears THEN 0 ELSE release[b])
  /\ buttonState'[b] = a.to
  /\ IF b \in down
     THEN /\ push'[b] = (IF x >= CounterMax THEN x ELSE x + 1)
          /\ release'[b] = 0
          /\ held'[b] = IF held[b] = LongPushTimeThreshold THEN held[b] ELSE held[b] + 1
     ELSE /\ push'[b] = 0
          /\ release'[b] = (IF y >= CounterMax THEN y ELSE y + 1)
          /\ held'[b] = 0
  /\ latest'[b] = IF buttonState[b] = "Init" THEN 0
                  ELSE IF "push" \in a.clears \/ (b \notin down /\ push[b] # 0)
                       THEN push[b] ELSE latest[b]
  /\ b \in wasLong' <=> IF b \in down \/ held[b] = 0 THEN b \in wasLong
                        ELSE held[b] = LongPushTimeThreshold
  /\ LET before == IF a.flags # {} THEN 0 ELSE presses[b]
     IN  presses'[b] = IF held[b] + 1 = ClickTimeThreshold /\ b \in down /\ before < 2
                       THEN before + 1 ELSE before
  /\ b \in longHeld' <=> \/ b \in longHeld /\ a.flags = {}
                         \/ b \in down /\ held[b] + 1 = LongPushTimeThreshold
  /\ b \in open' <=> \/ b \in open /\ "longpushrelease" \notin a.flags
                     \/ "longpush" \in a.flags

\* An action flags gestures and leads to a state.
LEMMA FlagsAreGestures ==
  ASSUME NEW b, buttonState[b] \in Button!States
  PROVE  /\ Button!Action(b).flags \subseteq Button!Gestures
         /\ Button!Action(b).to \in Button!States
BY ActionIs
   DEF Button!States, Button!Gestures, Button!Clear, Button!Goto, Button!Tell,
       Button!ClickDetect, Button!LongPushDetect, Button!LongPushReleaseDetect,
       Button!ClickReleaseDetect, Button!DoubleClickDetect

\* The monitor does it to every button.
LEMMA CalledIs ==
  ASSUME ThresholdsInOrder, Button!TypeOK, Together,
         NEW down \in SUBSET Button!Buttons, Button!ButtonStateMonitor(down),
         NEW b \in Button!Buttons
  PROVE  \E a, x, y : Called(b, down, a, x, y)
<1>1. PICK a : a = Button!Action(b)
  OBVIOUS
<1>2. PICK x, y : /\ x = (IF "push" \in a.clears THEN 0 ELSE push[b])
                  /\ y = (IF "release" \in a.clears THEN 0 ELSE release[b])
  OBVIOUS
<1>3. buttonState'[b] = a.to
  BY <1>1 DEF Button!ButtonStateMonitor
<1>4. IF b \in down
      THEN /\ push'[b] = (IF x >= CounterMax THEN x ELSE x + 1)
           /\ release'[b] = 0
      ELSE /\ push'[b] = 0
           /\ release'[b] = (IF y >= CounterMax THEN y ELSE y + 1)
  BY <1>1, <1>2 DEF Button!ButtonStateMonitor, Button!TimeManager,
     Button!After, Button!CountUp
<1>5. latest'[b] = IF buttonState[b] = "Init" THEN 0
                   ELSE IF "push" \in a.clears \/ (b \notin down /\ push[b] # 0)
                        THEN push[b] ELSE latest[b]
  BY <1>1 DEF Button!ButtonStateMonitor, Button!LatestLength
<1>6. \A g \in Button!Gestures : b \in Button!Flagged(g) <=> g \in a.flags
  BY <1>1, FlaggedIs
<1>7. PICK told : told = UNION {Button!Flagged(g) : g \in Button!Gestures}
  OBVIOUS
<1>8. b \in told <=> a.flags # {}
  <2>1. a.flags \subseteq Button!Gestures
    BY <1>1, FlagsAreGestures DEF Button!TypeOK
  <2> QED
    BY <1>6, <1>7, <2>1
<1>9. /\ held' = [c \in Button!Buttons |->
                    IF c \notin down THEN 0
                    ELSE IF held[c] = LongPushTimeThreshold THEN held[c]
                    ELSE held[c] + 1]
      /\ wasLong' = {c \in Button!Buttons :
                      IF c \in down \/ held[c] = 0 THEN c \in wasLong
                      ELSE held[c] = LongPushTimeThreshold}
      /\ presses' = [c \in Button!Buttons |->
           LET before == IF c \in told THEN 0 ELSE presses[c]
           IN  IF held[c] + 1 = ClickTimeThreshold /\ c \in down /\ before < 2
               THEN before + 1 ELSE before]
      /\ longHeld' = (longHeld \ told)
                       \cup {c \in down : held[c] + 1 = LongPushTimeThreshold}
      /\ open' = (open \ Button!Flagged("longpushrelease"))
                   \cup Button!Flagged("longpush")
  BY <1>7 DEF Button!ButtonStateMonitor, Button!Observe
<1>10. "longpush" \in Button!Gestures /\ "longpushrelease" \in Button!Gestures
  BY DEF Button!Gestures
<1>11. Called(b, down, a, x, y)
  BY <1>1, <1>2, <1>3, <1>4, <1>5, <1>6, <1>8, <1>9, <1>10 DEF Called
<1> QED
  BY <1>11

\* What the types say of one button.
Scalars(b) ==
  /\ buttonState[b] \in Button!States
  /\ push[b] \in 0 .. CounterMax /\ release[b] \in 0 .. CounterMax
  /\ latest[b] \in 0 .. CounterMax
  /\ held[b] \in 0 .. LongPushTimeThreshold /\ presses[b] \in 0 .. 2

(* A call keeps what a button has behind it: one case for each action. *)
LEMMA CallKeeps ==
  ASSUME ThresholdsInOrder, NEW b, NEW down, NEW a, NEW x, NEW y,
         Called(b, down, a, x, y), Scalars(b), Pressed(b)
  PROVE  Pressed(b)' /\ Scalars(b)' /\ buttonState'[b] # "Init"
<1> USE DEF ThresholdsInOrder, Scalars, Pressed, Called
<1>1. x \in {0, push[b]} /\ y \in {0, release[b]} /\ x <= push[b]
  OBVIOUS
<1>2. Contact(b)'
  BY <1>1 DEF Contact
<1>3. Scalars(b)'
  <2>1. a.to \in Button!States
    BY FlagsAreGestures
  <2>2. /\ push'[b] \in 0 .. CounterMax /\ release'[b] \in 0 .. CounterMax
        /\ latest'[b] \in 0 .. CounterMax
        /\ held'[b] \in 0 .. LongPushTimeThreshold
    BY <1>1
  <2>3. presses'[b] \in 0 .. 2
    OBVIOUS
  <2> QED
    BY <2>1, <2>2, <2>3
<1> SUFFICES Earned(b)' /\ Kept(b)' /\ Owed(b)' /\ buttonState'[b] # "Init"
  BY <1>2, <1>3
<1>4. CASE buttonState[b] = "Init"
  <2>1. a = Button!Clear({"push", "release"}, "Start")
    BY <1>4, ActionIs
  <2>2. a.to = "Start" /\ a.flags = {}
    BY <2>1 DEF Button!Clear
  <2>3. held'[b] <= 2 /\ held'[b] # LongPushTimeThreshold
    BY <1>4 DEF Earned
  <2>4. held'[b] >= ClickTimeThreshold => presses'[b] >= 1
    BY <1>4, <2>2 DEF Earned
  <2> QED
    BY <1>4, <2>2, <2>3, <2>4 DEF Earned, Kept, Owed
<1>5. CASE buttonState[b] \in {"Start", "ClickDetect"}
  <2>1. a.flags = {} /\ a.to \in {"Start", "ClickDetect", "LongPushDetect"}
    BY <1>5, ActionIs DEF Button!Goto, Button!Clear, Button!ClickDetect
  <2>2. a.to = "LongPushDetect" => push[b] >= ClickTimeThreshold
    BY <1>5, ActionIs DEF Button!Goto, Button!Clear, Button!ClickDetect, Button!DoesValidPush
  <2>3. a.to = "LongPushDetect" => presses[b] >= 1
    BY <1>5, <2>2 DEF Earned, Contact
  <2>4. held'[b] >= ClickTimeThreshold \/ a.to = "LongPushDetect" => presses'[b] >= 1
    BY <1>5, <2>1, <2>3 DEF Earned
  <2>5. held'[b] = LongPushTimeThreshold => b \in longHeld'
    BY <1>5, <2>1 DEF Earned
  <2> QED
    BY <1>5, <2>1, <2>4, <2>5 DEF Earned, Kept, Owed
<1>6. ASSUME push[b] >= LongPushTimeThreshold, a.flags = {}, a.clears = {},
             a.to = "SureLongPush", b \in longHeld \/ held[b] # LongPushTimeThreshold,
             buttonState[b] \notin {"Init", "LongPushReleaseDetect",
                                    "SureLongPushRelease"}
      PROVE  Earned(b)' /\ Kept(b)' /\ Owed(b)'
  <2>1. held[b] = LongPushTimeThreshold
    BY <1>6 DEF Contact
  <2>2. held'[b] = IF push'[b] >= LongPushTimeThreshold THEN LongPushTimeThreshold
                                                        ELSE push'[b]
    BY <1>6, <2>1
  <2>3. push'[b] = 0 => /\ latest'[b] >= 1
                        /\ latest'[b] >= LongPushTimeThreshold <=> b \in wasLong'
    <3> SUFFICES ASSUME push'[b] = 0
                 PROVE  /\ latest'[b] >= 1
                        /\ latest'[b] >= LongPushTimeThreshold <=> b \in wasLong'
      OBVIOUS
    <3>1. b \notin down
      BY <1>6
    <3>2. latest'[b] = push[b] /\ b \in wasLong'
      BY <1>6, <2>1, <3>1
    <3> QED
      BY <1>6, <3>2
  <2>4. b \in longHeld'
    BY <1>6, <2>1
  <2> QED
    BY <1>6, <2>2, <2>3, <2>4 DEF Earned, Kept, Owed
<1>7. CASE buttonState[b] = "LongPushDetect"
  <2>1. a = Button!LongPushDetect(b)
    BY <1>7, ActionIs
  <2>2. CASE push[b] >= LongPushTimeThreshold
    <3>1. a.flags = {} /\ a.clears = {} /\ a.to = "SureLongPush"
      BY <2>1, <2>2 DEF Button!LongPushDetect, Button!Goto, Button!DoesValidLongPush
    <3> QED
      BY <1>6, <1>7, <2>2, <3>1 DEF Earned
  <2>3. CASE ~(push[b] >= LongPushTimeThreshold)
    <3>1. a.flags = {} /\ a.to \in {"LongPushDetect", "ClickReleaseDetect"}
      BY <2>1, <2>3 DEF Button!LongPushDetect, Button!Goto, Button!Clear,
                        Button!DoesValidLongPush
    <3>2. a.to = "ClickReleaseDetect" => release[b] # 0
      BY <2>1, <2>3 DEF Button!LongPushDetect, Button!Goto, Button!Clear,
                        Button!DoesValidLongPush, Button!DoesValidRelease
    <3>3. a.to = "ClickReleaseDetect" => held'[b] <= 1
      BY <3>2 DEF Contact
    <3>4. presses'[b] >= 1
      BY <1>7, <3>1 DEF Earned
    <3>5. held'[b] = LongPushTimeThreshold => b \in longHeld'
      BY <1>7, <3>1 DEF Earned
    <3> QED
      BY <1>7, <3>1, <3>3, <3>4, <3>5 DEF Earned, Kept, Owed
  <2> QED
    BY <2>2, <2>3
<1>8. CASE buttonState[b] = "ClickReleaseDetect"
  <2>1. /\ a.flags = {}
        /\ a.to \in {"SureClick", "DoubleClickDetect", "ClickReleaseDetect"}
    BY <1>8, ActionIs DEF Button!Goto, Button!Clear, Button!ClickReleaseDetect
  <2>2. /\ a.to = "SureClick" => release[b] # 0
        /\ a.to = "DoubleClickDetect" => push[b] >= ClickTimeThreshold
    BY <1>8, ActionIs
       DEF Button!Goto, Button!Clear, Button!ClickReleaseDetect,
           Button!DoesValidLongRelease, Button!DoesValidPush
  <2>3. presses'[b] >= 1 /\ (a.to = "SureClick" => held'[b] <= 1)
    BY <1>8, <2>1, <2>2 DEF Earned, Contact
  <2>4. held[b] >= ClickTimeThreshold => presses[b] = 2
    BY <1>8 DEF Earned
  <2>5. a.to = "DoubleClickDetect" => presses'[b] = 2
    BY <2>1, <2>2, <2>4 DEF Contact
  <2>6. held'[b] >= ClickTimeThreshold => presses'[b] = 2
    <3>1. presses[b] \in {1, 2}
      BY <1>8 DEF Earned
    <3> QED
      BY <2>1, <2>4, <3>1
  <2>7. held'[b] = LongPushTimeThreshold => b \in longHeld'
    BY <1>8, <2>1 DEF Earned
  <2> QED
    BY <1>8, <2>1, <2>3, <2>5, <2>6, <2>7 DEF Earned, Kept, Owed
<1>9. CASE buttonState[b] = "DoubleClickDetect"
  <2>1. a = Button!DoubleClickDetect(b) /\ presses[b] = 2
    BY <1>9, ActionIs DEF Earned
  <2>2. CASE a.to = "SureLongPush"
    <3>1. a.flags = {} /\ a.clears = {} /\ push[b] >= LongPushTimeThreshold
      BY <2>1, <2>2
         DEF Button!DoubleClickDetect, Button!Goto, Button!DoesValidLongPush
    <3> QED
      BY <1>6, <1>9, <2>2, <3>1 DEF Earned
  <2>3. CASE a.to # "SureLongPush"
    <3>1. a.flags = {} /\ a.to \in {"DoubleClickDetect", "SureDoubleClick"}
      BY <2>1, <2>3 DEF Button!DoubleClickDetect, Button!Goto
    <3>2. a.to = "SureDoubleClick" => release[b] # 0
      BY <2>1, <2>3
         DEF Button!DoubleClickDetect, Button!Goto, Button!DoesValidRelease
    <3>3. a.to = "SureDoubleClick" => held'[b] <= 1
      BY <3>2 DEF Contact
    <3>4. presses'[b] = 2
      BY <2>1, <3>1
    <3>5. held'[b] = LongPushTimeThreshold => b \in longHeld'
      BY <1>9, <3>1 DEF Earned
    <3> QED
      BY <1>9, <3>1, <3>3, <3>4, <3>5 DEF Earned, Kept, Owed
  <2> QED
    BY <2>2, <2>3
<1>10. CASE buttonState[b] \in {"SureClick", "SureDoubleClick",
                               "SureLongPushRelease"}
  <2>1. a.to = "Start" /\ a.flags # {} /\ "longpush" \notin a.flags
    BY <1>10, ActionIs DEF Button!Tell
  <2>2. buttonState[b] = "SureLongPushRelease" <=> "longpushrelease" \in a.flags
    BY <1>10, ActionIs DEF Button!Tell
  <2>3. held'[b] <= 2 /\ held'[b] # LongPushTimeThreshold
    BY <1>10 DEF Earned
  <2>4. held'[b] >= ClickTimeThreshold => presses'[b] >= 1
    <3>1. held[b] <= 1
      BY <1>10 DEF Earned
    <3> QED
      BY <2>1, <3>1
  <2>5. b \notin open'
    BY <1>10, <2>1, <2>2 DEF Owed
  <2> QED
    BY <1>10, <2>1, <2>3, <2>4, <2>5 DEF Earned, Kept, Owed
<1>11. CASE buttonState[b] = "SureLongPush"
  <2>1. a.to = "LongPushReleaseDetect" /\ a.flags = {"longpush"} /\ a.clears = {}
    BY <1>11, ActionIs DEF Button!Tell
  <2>2. b \in open'
    BY <2>1
  <2> QED
    BY <1>11, <2>1, <2>2 DEF Earned, Kept, Owed
<1>12. CASE buttonState[b] = "LongPushReleaseDetect"
  <2>1. a.flags = {} /\ a.clears = {}
    BY <1>12, ActionIs DEF Button!LongPushReleaseDetect, Button!Goto
  <2>2. a.to \in {"LongPushReleaseDetect", "SureLongPushRelease"}
    BY <1>12, ActionIs DEF Button!LongPushReleaseDetect, Button!Goto
  <2>3. a.to = "SureLongPushRelease" => release[b] # 0
    BY <1>12, ActionIs
       DEF Button!LongPushReleaseDetect, Button!Goto, Button!DoesValidRelease
  <2> QED
    BY <1>12, <2>1, <2>2, <2>3 DEF Earned, Kept, Owed, Contact
<1> QED
  BY <1>4, <1>5, <1>7, <1>8, <1>9, <1>10, <1>11, <1>12 DEF Button!States

\* CUSTOM_BUTTON_MONITOR_DEF
LEMMA ButtonInit == ASSUME ThresholdsInOrder, Button!Init PROVE ButtonIInv
<1>1. \A b \in Button!Buttons :
         /\ buttonState[b] = "Init" /\ push[b] = 0 /\ release[b] = 0
         /\ held[b] = 0 /\ presses[b] = 0 /\ b \notin open
  BY DEF Button!Init
<1>2. \A b \in Button!Buttons : Pressed(b)
  BY <1>1 DEF Pressed, Contact, Earned, Kept, Owed, ThresholdsInOrder
<1>3. Button!TypeOK
  BY DEF Button!Init, Button!TypeOK, Button!States, ThresholdsInOrder
<1> QED
  BY <1>1, <1>2, <1>3 DEF ButtonIInv, Together

\* Every call of the monitor.
LEMMA ButtonNext ==
  ASSUME ThresholdsInOrder, ButtonIInv, [Button!Next]_(Button!vars)
  PROVE  ButtonIInv'
<1>1. CASE UNCHANGED Button!vars
  BY <1>1
     DEF Button!vars, Button!machine, Button!history, ButtonIInv, Button!TypeOK,
         Together, Pressed, Contact, Earned, Kept, Owed
<1>2. ASSUME NEW down \in SUBSET Button!Buttons, Button!ButtonStateMonitor(down)
      PROVE  ButtonIInv'
  <2>1. \A b \in Button!Buttons : Scalars(b) /\ Pressed(b)
    BY DEF ButtonIInv, Button!TypeOK, Scalars
  <2>2. ASSUME NEW b \in Button!Buttons
        PROVE  Pressed(b)' /\ Scalars(b)' /\ buttonState'[b] # "Init"
    <3>1. PICK a, x, y : Called(b, down, a, x, y)
      BY <1>2, CalledIs DEF ButtonIInv
    <3> QED
      BY <2>1, <3>1, CallKeeps
  <2>3. Together'
    BY <2>2 DEF Together
  <2>4. /\ buttonState' \in [Button!Buttons -> Button!States]
        /\ push' \in [Button!Buttons -> 0 .. CounterMax]
        /\ release' \in [Button!Buttons -> 0 .. CounterMax]
        /\ latest' \in [Button!Buttons -> 0 .. CounterMax]
        /\ held' \in [Button!Buttons -> 0 .. LongPushTimeThreshold]
        /\ presses' \in [Button!Buttons -> 0 .. 2]
    BY <1>2, <2>2
       DEF Scalars, Button!ButtonStateMonitor, Button!TimeManager, Button!Observe
  <2>5. /\ value' \subseteq Button!Buttons
        /\ report' \in [Button!Gestures -> SUBSET Button!Buttons]
    BY <1>2 DEF Button!ButtonStateMonitor, Button!Flagged
  <2>6. \A g \in Button!Gestures : Button!Flagged(g) \subseteq Button!Buttons
    BY DEF Button!Flagged
  <2>7. wasLong' \cup longHeld' \subseteq Button!Buttons /\ open' \subseteq Button!Buttons
    BY <1>2, <2>6
       DEF Button!ButtonStateMonitor, Button!Observe, Button!Gestures,
           ButtonIInv, Button!TypeOK
  <2> QED
    BY <2>2, <2>3, <2>4, <2>5, <2>7 DEF ButtonIInv, Button!TypeOK
<1> QED
  BY <1>1, <1>2 DEF Button!Next

(* What the callbacks tell of a button says what state it was in. *)
LEMMA ReportedBy ==
  ASSUME ThresholdsInOrder, ButtonIInv,
         NEW down \in SUBSET Button!Buttons, Button!ButtonStateMonitor(down),
         NEW b
  PROVE  /\ b \in report'["click"] =>
              b \in Button!Buttons /\ buttonState[b] = "SureClick"
         /\ b \in report'["doubleclick"] =>
              b \in Button!Buttons /\ buttonState[b] = "SureDoubleClick"
         /\ b \in report'["longpush"] =>
              b \in Button!Buttons /\ buttonState[b] = "SureLongPush"
         /\ b \in report'["longpushrelease"] =>
              b \in Button!Buttons /\ buttonState[b] = "SureLongPushRelease"
<1>1. \A g \in Button!Gestures : report'[g] = Button!Flagged(g)
  BY DEF Button!ButtonStateMonitor
<1>2. \A g \in Button!Gestures : b \in report'[g] =>
         b \in Button!Buttons /\ g \in Button!Action(b).flags
  BY <1>1 DEF Button!Flagged
<1>3. b \in Button!Buttons => buttonState[b] \in Button!States
  BY DEF ButtonIInv, Button!TypeOK
<1>4. ASSUME b \in Button!Buttons
      PROVE  /\ "click" \in Button!Action(b).flags => buttonState[b] = "SureClick"
             /\ "doubleclick" \in Button!Action(b).flags
                  => buttonState[b] = "SureDoubleClick"
             /\ "longpush" \in Button!Action(b).flags => buttonState[b] = "SureLongPush"
             /\ "longpushrelease" \in Button!Action(b).flags
                  => buttonState[b] = "SureLongPushRelease"
  BY <1>3, <1>4, ActionIs
     DEF Button!States, Button!Clear, Button!Goto, Button!Tell,
         Button!ClickDetect, Button!LongPushDetect, Button!LongPushReleaseDetect,
         Button!ClickReleaseDetect, Button!DoubleClickDetect
<1> QED
  BY <1>2, <1>4 DEF Button!Gestures

(* The samples and counters of every button stay well typed. *)
THEOREM ButtonTypeCorrect == ASSUME ThresholdsInOrder
  PROVE Button!Spec => []Button!TypeOK
<1>1. Button!Init => ButtonIInv
  BY ButtonInit
<1>2. ButtonIInv /\ [Button!Next]_(Button!vars) => ButtonIInv'
  BY ButtonNext
<1>3. ButtonIInv => Button!TypeOK
  BY DEF ButtonIInv
<1> QED
  BY <1>1, <1>2, <1>3, PTL DEF Button!Spec

(* Between a long push and its release nothing else is told of a button,   *)
(* and no release is told without its long push (SureLongPushAction and    *)
(* its like, on the flags of all buttons), however contacts bounce.        *)
THEOREM GesturesAlternate == ASSUME ThresholdsInOrder
  PROVE Button!Spec => Button!GesturesInTurn
<1>1. Button!Init => ButtonIInv
  BY ButtonInit
<1>2. ButtonIInv /\ [Button!Next]_(Button!vars) => ButtonIInv'
  BY ButtonNext
<1>3. ButtonIInv /\ [Button!Next]_(Button!vars) =>
        [/\ (report'["click"] \cup report'["doubleclick"] \cup report'["longpush"])
              \cap open = {}
         /\ report'["longpushrelease"] \subseteq open]_(Button!vars)
  BY ReportedBy DEF Button!Next, ButtonIInv, Pressed, Owed
<1> QED
  BY <1>1, <1>2, <1>3, PTL DEF Button!Spec, Button!GesturesInTurn

(* A click takes a full press since the last report, a double click two, a *)
(* long push a long one: whatever the thresholds, bounces never add up to  *)
(* a gesture.                                                              *)
THEOREM ReportsEarned == ASSUME ThresholdsInOrder
  PROVE Button!Spec => Button!EveryReportEarned
<1>1. Button!Init => ButtonIInv
  BY ButtonInit
<1>2. ButtonIInv /\ [Button!Next]_(Button!vars) => ButtonIInv'
  BY ButtonNext
<1>3. ButtonIInv /\ [Button!Next]_(Button!vars) =>
        [/\ \A b \in report'["click"] : presses[b] >= 1
         /\ \A b \in report'["doubleclick"] : presses[b] = 2
         /\ report'["longpush"] \subseteq longHeld]_(Button!vars)
  BY ReportedBy DEF Button!Next, ButtonIInv, Pressed, Earned
<1> QED
  BY <1>1, <1>2, <1>3, PTL DEF Button!Spec, Button!EveryReportEarned

(* When the last contact of a long push was long, a long length is told    *)
(* with its release (LongPushLastCycle), never one saved before it.        *)
THEOREM LengthCorrect == ASSUME ThresholdsInOrder
  PROVE Button!Spec => Button!LongToldLong
<1>1. Button!Init => ButtonIInv
  BY ButtonInit
<1>2. ButtonIInv /\ [Button!Next]_(Button!vars) => ButtonIInv'
  BY ButtonNext
<1>3. ButtonIInv /\ [Button!Next]_(Button!vars) =>
        [\A b \in report'["longpushrelease"] \cap wasLong :
           latest[b] >= LongPushTimeThreshold]_(Button!vars)
  BY ReportedBy DEF Button!Next, ButtonIInv, Pressed, Kept
<1> QED
  BY <1>1, <1>2, <1>3, PTL DEF Button!Spec, Button!LongToldLong
-----------------------------------------------------------------------------
\* The samples the release counter of a button lacks of a threshold.
Lacking(b, threshold) ==
  IF release[b] >= threshold THEN 0 ELSE threshold - release[b]

(* The calls of the monitor in which a button that is let go has told      *)
(* everything: 0 when it has nothing to tell.                              *)
SettlesIn(b) ==
  CASE buttonState[b] \in {"Init", "Start", "ClickDetect"} -> 0
    [] buttonState[b] \in {"SureClick", "SureDoubleClick", "SureLongPushRelease"} -> 1
    [] buttonState[b] = "ClickReleaseDetect" -> Lacking(b, ReleaseAllTimeThreshold) + 2
    [] buttonState[b] \in {"DoubleClickDetect", "LongPushReleaseDetect"} ->
         Lacking(b, ReleaseTimeThreshold) + 2
    [] buttonState[b] = "SureLongPush" -> Lacking(b, ReleaseTimeThreshold) + 3
    [] buttonState[b] = "LongPushDetect" ->
         Lacking(b, ReleaseTimeThreshold) + ReleaseAllTimeThreshold + 2

(* A machine that waits for a press has seen all of the one there is: what *)
(* it has not told by then is still under way.                             *)
Heard(b) ==
  /\ buttonState[b] \in {"Init", "Start", "ClickDetect", "SureClick",
                         "SureDoubleClick", "SureLongPushRelease"}
       => held[b] = IF push[b] >= LongPushTimeThreshold THEN LongPushTimeThreshold
                                                        ELSE push[b]
  /\ buttonState[b] = "Init" => held[b] = 0
  /\ buttonState[b] \in {"Init", "Start"} => presses[b] = 0
  /\ buttonState[b] = "Start" => push[b] <= 2
  /\ buttonState[b] = "ClickDetect" /\ presses[b] # 0 => push[b] >= ClickTimeThreshold

\* A button that is up in the last sample has no push counted.
SettleIInv == /\ ButtonIInv
              /\ \A b \in Button!Buttons :
                   Heard(b) /\ (b \notin value => push[b] = 0)

(* A press needs more samples than the call that reports and the one that  *)
(* starts again take: 100 ms are 33 of them.                               *)
PressesAreLong == ThresholdsInOrder /\ ClickTimeThreshold >= 3

\* A call keeps what a button has heard.
LEMMA CallHears ==
  ASSUME PressesAreLong, NEW b, NEW down, NEW a, NEW x, NEW y,
         Called(b, down, a, x, y), Scalars(b), Pressed(b), Heard(b)
  PROVE  Heard(b)' /\ (b \notin down => push'[b] = 0)
<1> USE DEF PressesAreLong, ThresholdsInOrder, Scalars, Called
<1>1. x \in {0, push[b]} /\ x <= push[b]
  OBVIOUS
<1>2. b \notin down => push'[b] = 0
  OBVIOUS
<1> SUFFICES Heard(b)'
  BY <1>2
<1>3. CASE buttonState[b] = "Init"
  <2>1. a.to = "Start" /\ a.flags = {} /\ "push" \in a.clears
    BY <1>3, ActionIs DEF Button!Clear
  <2>2. held[b] = 0 /\ presses[b] = 0
    BY <1>3 DEF Heard
  <2> QED
    BY <2>1, <2>2 DEF Heard
<1>4. CASE buttonState[b] = "Start"
  <2>1. a.to = "ClickDetect" /\ a.flags = {} /\ a.clears = {}
    BY <1>4, ActionIs DEF Button!Goto
  <2> QED
    BY <1>4, <2>1 DEF Heard
<1>5. CASE buttonState[b] = "ClickDetect"
  <2>1. a = Button!ClickDetect(b)
    BY <1>5, ActionIs
  <2>2. CASE push[b] >= ClickTimeThreshold
    <3>1. a.to = "LongPushDetect"
      BY <2>1, <2>2 DEF Button!ClickDetect, Button!DoesValidPush, Button!Clear
    <3> QED
      BY <3>1 DEF Heard
  <2>3. CASE ~(push[b] >= ClickTimeThreshold)
    <3>1. /\ a.to \in {"Start", "ClickDetect"} /\ a.flags = {} /\ a.clears = {}
          /\ a.to = "Start" => release[b] >= ReleaseAllTimeThreshold
      BY <2>1, <2>3 DEF Button!ClickDetect, Button!DoesValidPush, Button!Goto,
                        Button!DoesValidLongRelease
    <3>2. presses[b] = 0 /\ held[b] = push[b]
      BY <1>5, <2>3 DEF Heard
    <3>3. a.to = "Start" => push[b] = 0
      BY <3>1 DEF Pressed, Contact
    <3>4. held'[b] = push'[b] \/ held'[b] = LongPushTimeThreshold
      BY <2>3, <3>1, <3>2
    <3> QED
      BY <2>3, <3>1, <3>2, <3>3 DEF Heard
  <2> QED
    BY <2>2, <2>3
<1>6. CASE buttonState[b] \in {"SureClick", "SureDoubleClick", "SureLongPushRelease"}
  <2>1. a.to = "Start" /\ a.flags # {} /\ a.clears = {}
    BY <1>6, ActionIs DEF Button!Tell
  <2>2. held[b] <= 1 /\ push[b] = held[b]
    BY <1>6 DEF Heard, Pressed, Earned
  <2> QED
    BY <2>1, <2>2 DEF Heard
<1>7. CASE buttonState[b] \in {"LongPushDetect", "SureLongPush"}
  <2>1. a.to \in {"LongPushDetect", "SureLongPush", "ClickReleaseDetect",
                 "LongPushReleaseDetect"}
    BY <1>7, ActionIs DEF Button!LongPushDetect, Button!Goto, Button!Clear, Button!Tell
  <2> QED
    BY <2>1 DEF Heard
<1>8. CASE buttonState[b] = "LongPushReleaseDetect"
  <2>1. a.to \in {"LongPushReleaseDetect", "SureLongPushRelease"} /\ a.clears = {}
    BY <1>8, ActionIs DEF Button!LongPushReleaseDetect, Button!Goto
  <2>2. held[b] = IF push[b] >= LongPushTimeThreshold THEN LongPushTimeThreshold
                                                      ELSE push[b]
    BY <1>8 DEF Pressed, Kept
  <2>3. held'[b] = IF push'[b] >= LongPushTimeThreshold THEN LongPushTimeThreshold
                                                        ELSE push'[b]
    BY <2>1, <2>2
  <2> QED
    BY <2>1, <2>3 DEF Heard
<1>9. CASE buttonState[b] \in {"ClickReleaseDetect", "DoubleClickDetect"}
  <2>1. a.to \in {"ClickReleaseDetect", "DoubleClickDetect", "SureClick",
                 "SureDoubleClick", "SureLongPush"}
    BY <1>9, ActionIs DEF Button!ClickReleaseDetect, Button!DoubleClickDetect,
                          Button!Goto, Button!Clear
  <2>2. a.to \in {"SureClick", "SureDoubleClick"} => release[b] # 0 /\ a.clears = {}
    BY <1>9, ActionIs DEF Button!ClickReleaseDetect, Button!DoubleClickDetect,
                          Button!Goto, Button!Clear, Button!DoesValidRelease,
                          Button!DoesValidLongRelease
  <2>3. a.to \in {"SureClick", "SureDoubleClick"} => push[b] = 0 /\ held[b] = 0
    BY <2>2 DEF Pressed, Contact
  <2> QED
    BY <2>1, <2>2, <2>3 DEF Heard
<1> QED
  BY <1>3, <1>4, <1>5, <1>6, <1>7, <1>8, <1>9 DEF Button!States

(* A button that is up and stays up: one call less until it has told       *)
(* everything.                                                             *)
LEMMA CallSettles ==
  ASSUME PressesAreLong, NEW b, NEW down, NEW a, NEW x, NEW y,
         Called(b, down, a, x, y), Scalars(b), push[b] = 0, b \notin down
  PROVE  SettlesIn(b)' < SettlesIn(b) \/ SettlesIn(b)' = 0
<1> USE DEF PressesAreLong, ThresholdsInOrder, Scalars, Called
<1>1. CASE buttonState[b] \in {"Init", "Start", "SureClick", "SureDoubleClick",
                              "SureLongPushRelease"}
  <2>1. a.to \in {"Start", "ClickDetect"}
    BY <1>1, ActionIs DEF Button!Clear, Button!Goto, Button!Tell
  <2> QED
    BY <2>1 DEF SettlesIn
<1>2. CASE buttonState[b] = "ClickDetect"
  <2>1. a.to \in {"Start", "ClickDetect"}
    BY <1>2, ActionIs DEF Button!Clear, Button!Goto, Button!ClickDetect, Button!DoesValidPush
  <2> QED
    BY <2>1 DEF SettlesIn
<1>3. CASE buttonState[b] = "ClickReleaseDetect"
  <2>1. a = IF release[b] >= ReleaseAllTimeThreshold THEN Button!Goto("SureClick")
            ELSE Button!Goto("ClickReleaseDetect")
    BY <1>3, ActionIs DEF Button!ClickReleaseDetect, Button!DoesValidPush,
                          Button!DoesValidLongRelease
  <2>2. SettlesIn(b) = Lacking(b, ReleaseAllTimeThreshold) + 2
    BY <1>3 DEF SettlesIn
  <2>3. CASE release[b] >= ReleaseAllTimeThreshold
    <3>1. a.to = "SureClick"
      BY <2>1, <2>3 DEF Button!Goto
    <3>2. SettlesIn(b)' = 1
      BY <3>1 DEF SettlesIn
    <3> QED
      BY <2>2, <2>3, <3>2 DEF Lacking
  <2>4. CASE ~(release[b] >= ReleaseAllTimeThreshold)
    <3>1. a.to = "ClickReleaseDetect" /\ a.clears = {}
      BY <2>1, <2>4 DEF Button!Goto
    <3>2. SettlesIn(b)' = Lacking(b, ReleaseAllTimeThreshold)' + 2
      BY <3>1 DEF SettlesIn
    <3>3. release'[b] = release[b] + 1
      BY <2>4, <3>1
    <3> QED
      BY <2>2, <2>4, <3>2, <3>3 DEF Lacking
  <2> QED
    BY <2>3, <2>4
<1>4. CASE buttonState[b] \in {"DoubleClickDetect", "LongPushReleaseDetect"}
  <2>1. /\ a.clears = {}
        /\ IF release[b] >= ReleaseTimeThreshold
           THEN a.to \in {"SureDoubleClick", "SureLongPushRelease"}
           ELSE a.to \in {"DoubleClickDetect", "LongPushReleaseDetect"}
    BY <1>4, ActionIs DEF Button!DoubleClickDetect, Button!LongPushReleaseDetect,
       Button!Goto, Button!DoesValidRelease, Button!DoesValidLongPush
  <2>2. SettlesIn(b) = Lacking(b, ReleaseTimeThreshold) + 2
    BY <1>4 DEF SettlesIn
  <2>3. CASE release[b] >= ReleaseTimeThreshold
    <3>1. SettlesIn(b)' = 1
      BY <2>1, <2>3 DEF SettlesIn
    <3> QED
      BY <2>2, <2>3, <3>1 DEF Lacking
  <2>4. CASE ~(release[b] >= ReleaseTimeThreshold)
    <3>1. SettlesIn(b)' = Lacking(b, ReleaseTimeThreshold)' + 2
      BY <2>1, <2>4 DEF SettlesIn
    <3>2. release'[b] = release[b] + 1
      BY <2>1, <2>4
    <3> QED
      BY <2>2, <2>4, <3>1, <3>2 DEF Lacking
  <2> QED
    BY <2>3, <2>4
<1>5. CASE buttonState[b] = "SureLongPush"
  <2>1. a.to = "LongPushReleaseDetect" /\ a.clears = {}
    BY <1>5, ActionIs DEF Button!Tell
  <2>2. SettlesIn(b) = Lacking(b, ReleaseTimeThreshold) + 3
    BY <1>5 DEF SettlesIn
  <2>3. SettlesIn(b)' = Lacking(b, ReleaseTimeThreshold)' + 2
    BY <2>1 DEF SettlesIn
  <2> QED
    BY <2>1, <2>2, <2>3 DEF Lacking
<1>6. CASE buttonState[b] = "LongPushDetect"
  <2>1. a = IF release[b] >= ReleaseTimeThreshold
            THEN Button!Clear({"release"}, "ClickReleaseDetect")
            ELSE Button!Goto("LongPushDetect")
    BY <1>6, ActionIs DEF Button!LongPushDetect, Button!DoesValidRelease,
                          Button!DoesValidLongPush
  <2>2. SettlesIn(b) = Lacking(b, ReleaseTimeThreshold) + ReleaseAllTimeThreshold + 2
    BY <1>6 DEF SettlesIn
  <2>3. CASE release[b] >= ReleaseTimeThreshold
    <3>1. a.to = "ClickReleaseDetect" /\ "release" \in a.clears
      BY <2>1, <2>3 DEF Button!Clear
    <3>2. SettlesIn(b)' = Lacking(b, ReleaseAllTimeThreshold)' + 2
      BY <3>1 DEF SettlesIn
    <3>3. release'[b] = 1
      BY <3>1
    <3> QED
      BY <2>2, <2>3, <3>2, <3>3 DEF Lacking
  <2>4. CASE ~(release[b] >= ReleaseTimeThreshold)
    <3>1. a.to = "LongPushDetect" /\ a.clears = {}
      BY <2>1, <2>4 DEF Button!Goto
    <3>2. SettlesIn(b)' = Lacking(b, ReleaseTimeThreshold)' + ReleaseAllTimeThreshold + 2
      BY <3>1 DEF SettlesIn
    <3>3. release'[b] = release[b] + 1
      BY <2>4, <3>1
    <3> QED
      BY <2>2, <2>4, <3>2, <3>3 DEF Lacking
  <2> QED
    BY <2>3, <2>4
<1> QED
  BY <1>1, <1>2, <1>3, <1>4, <1>5, <1>6 DEF Button!States

(* Nothing is pressed to begin with. *)
LEMMA SettleInit == ASSUME PressesAreLong, Button!Init PROVE SettleIInv
<1>1. ButtonIInv
  BY ButtonInit DEF PressesAreLong
<1>2. \A b \in Button!Buttons :
         buttonState[b] = "Init" /\ push[b] = 0 /\ held[b] = 0 /\ presses[b] = 0
  BY DEF Button!Init
<1> QED
  BY <1>1, <1>2 DEF SettleIInv, Heard, PressesAreLong, ThresholdsInOrder

\* A call does to every button what the lemmas above say of one.
LEMMA SettleStep ==
  ASSUME PressesAreLong, SettleIInv, NEW down \in SUBSET Button!Buttons,
         Button!ButtonStateMonitor(down), NEW b \in Button!Buttons
  PROVE  /\ Heard(b)' /\ (b \notin value' => push'[b] = 0)
         /\ b \notin value /\ b \notin value'
              => SettlesIn(b)' < SettlesIn(b) \/ SettlesIn(b)' = 0
<1>1. PICK a, x, y : Called(b, down, a, x, y)
  BY CalledIs DEF SettleIInv, ButtonIInv, PressesAreLong
<1>2. value' = down
  BY DEF Button!ButtonStateMonitor
<1>3. Scalars(b) /\ Pressed(b) /\ Heard(b) /\ (b \notin value => push[b] = 0)
  BY DEF SettleIInv, ButtonIInv, Button!TypeOK, Scalars
<1> QED
  BY <1>1, <1>2, <1>3, CallHears, CallSettles

(* SettleIInv is inductive. *)
LEMMA SettleNext ==
  ASSUME PressesAreLong, SettleIInv, [Button!Next]_(Button!vars)
  PROVE  SettleIInv'
<1>1. ButtonIInv'
  BY ButtonNext DEF SettleIInv, PressesAreLong
<1>2. CASE UNCHANGED Button!vars
  BY <1>1, <1>2 DEF Button!vars, Button!machine, Button!history, SettleIInv, Heard
<1>3. CASE Button!Next
  BY <1>1, <1>3, SettleStep DEF Button!Next, SettleIInv
<1> QED
  BY <1>2, <1>3

(* When a button is let go, every call of the monitor brings it nearer to  *)
(* the state in which nothing is left to tell, and keeps it there: the     *)
(* part of SilentIsSettled that holds without fairness, with a bound on    *)
(* the samples it takes.                                                   *)
THEOREM SilenceSettles == ASSUME PressesAreLong
  PROVE Button!Spec =>
          /\ [](\A b \in Button!Buttons : SettlesIn(b) \in Nat)
          /\ [][\A b \in Button!Buttons : b \notin value /\ b \notin value'
                  => SettlesIn(b)' < SettlesIn(b) \/ SettlesIn(b)' = 0]_(Button!vars)
<1>1. Button!Init => SettleIInv
  BY SettleInit
<1>2. SettleIInv /\ [Button!Next]_(Button!vars) => SettleIInv'
  BY SettleNext
<1>3. SettleIInv /\ [Button!Next]_(Button!vars) =>
        [\A b \in Button!Buttons : b \notin value /\ b \notin value'
               => SettlesIn(b)' < SettlesIn(b) \/ SettlesIn(b)' = 0]_(Button!vars)
  BY SettleStep DEF Button!Next
<1>4. ASSUME SettleIInv, NEW b \in Button!Buttons PROVE SettlesIn(b) \in Nat
  <2>1. buttonState[b] \in Button!States /\ release[b] \in Nat
    BY <1>4 DEF SettleIInv, ButtonIInv, Button!TypeOK, PressesAreLong, ThresholdsInOrder
  <2>2. /\ Lacking(b, ReleaseTimeThreshold) \in Nat
        /\ Lacking(b, ReleaseAllTimeThreshold) \in Nat
        /\ ReleaseAllTimeThreshold \in Nat
    BY <2>1 DEF Lacking, PressesAreLong, ThresholdsInOrder
  <2> QED
    BY <2>1, <2>2 DEF SettlesIn, Button!States
<1>5. SettleIInv => \A b \in Button!Buttons : SettlesIn(b) \in Nat
  BY <1>4
<1> QED
  BY <1>1, <1>2, <1>3, <1>5, PTL DEF Button!Spec

(* A button that has nothing left to tell and is up has had every full     *)
(* press answered and every long push released.                            *)
THEOREM SettledIsAnswered == ASSUME PressesAreLong
  PROVE Button!Spec =>
          [](\A b \in Button!Buttons : b \notin value /\ SettlesIn(b) = 0
               => presses[b] = 0 /\ b \notin open)
<1>1. Button!Init => SettleIInv
  BY SettleInit
<1>2. SettleIInv /\ [Button!Next]_(Button!vars) => SettleIInv'
  BY SettleNext
<1>3. ASSUME SettleIInv, NEW b \in Button!Buttons, b \notin value, SettlesIn(b) = 0
      PROVE  presses[b] = 0 /\ b \notin open
  <2>1. Scalars(b) /\ Pressed(b) /\ Heard(b) /\ push[b] = 0
    BY <1>3 DEF SettleIInv, ButtonIInv, Button!TypeOK, Scalars
  <2>2. buttonState[b] \in {"Init", "Start", "ClickDetect"}
    BY <1>3, <2>1
       DEF SettlesIn, Lacking, Scalars, Button!States, PressesAreLong, ThresholdsInOrder
  <2>3. b \notin open
    BY <2>1, <2>2 DEF Pressed, Owed
  <2>4. presses[b] = 0
    BY <2>1, <2>2 DEF Heard, PressesAreLong, ThresholdsInOrder
  <2> QED
    BY <2>3, <2>4
<1>4. SettleIInv => \A b \in Button!Buttons : b \notin value /\ SettlesIn(b) = 0
                      => presses[b] = 0 /\ b \notin open
  BY <1>3
<1> QED
  BY <1>1, <1>2, <1>4, PTL DEF Button!Spec

-----------------------------------------------------------------------------
(* The script reader. *)

\* What CommandAnalysis makes of a line.
LineRecord == [kind : {"wait", "unknown", "other", "call", "end"},
               time : 0 .. MaxParam,
               function : STRING, condition : Nat,
               aa : 0 .. MaxParam, bb : 0 .. MaxParam, param : 0 .. MaxParam]

FilesGiven == /\ Files \subseteq Seq(LineRecord)
              /\ MaxCommandReadTimes \in Nat \ {0, 1} /\ MaxParam \in Nat

(* The loop counter is the number of calls since the loop began, and it    *)
(* has not yet come to its end.                                            *)
LoopInv == /\ calls = buf0
           /\ buf0 = 0 \/ buf0 < buf1

\* A wait has not yet lasted its time.
WaitInv == rs = "Wait" => wait_time_counter = 0 \/ wait_time_counter < wait_time

ScriptIInv == /\ Reading!TypeOK /\ LoopInv /\ WaitInv
              /\ CmdLine \in Seq(LineRecord)

\* A set of numbers that is not empty has a least one.
LEMMA LeastElement ==
  ASSUME NEW S \in SUBSET Nat, S # {}
  PROVE  \E m \in S : \A n \in S : m <= n
<1> DEFINE R == OpToRel(<, Nat)
<1>1. IsWellFoundedOn(R, Nat)
  BY NatLessThanWellFounded, Zenon
<1>2. \A x, y \in Nat : <<y, x>> \in R <=> y < x
  BY Zenon DEF OpToRel
<1> HIDE DEF R
<1>3. PICK m \in S : \A n \in S : <<n, m>> \notin R
  BY <1>1, WFMin
<1>4. \A n \in S : ~(n < m) /\ n \in Nat /\ m \in Nat
  BY <1>2, <1>3
<1>5. \A n \in S : m <= n
  BY <1>4
<1> QED
  BY <1>5

\* The table takes no more lines than it has places.
LEMMA LoadedFits ==
  ASSUME FilesGiven, NEW f \in Files
  PROVE  /\ Reading!Loaded(f) \in Seq(LineRecord)
         /\ Len(Reading!Loaded(f)) <= MaxCommandReadTimes
<1>1. f \in Seq(LineRecord) /\ DOMAIN f = 1 .. Len(f) /\ Len(f) \in Nat
  BY DEF FilesGiven
<1>2. Reading!EndOf(f) \subseteq 1 .. Len(f)
  BY <1>1 DEF Reading!EndOf
<1>3. MaxCommandReadTimes \in 1 .. Len(f) => MaxCommandReadTimes \in Reading!EndOf(f)
  BY <1>1 DEF Reading!EndOf
<1>4. MaxCommandReadTimes \in Nat \ {0, 1}
  BY DEF FilesGiven
<1>5. CASE Reading!EndOf(f) = {}
  BY <1>1, <1>3, <1>4, <1>5 DEF Reading!Loaded
<1>6. CASE Reading!EndOf(f) # {}
  <2>1. PICK l : l = CHOOSE n \in Reading!EndOf(f) : \A m \in Reading!EndOf(f) : n <= m
    OBVIOUS
  <2>2. l \in Reading!EndOf(f) /\ \A m \in Reading!EndOf(f) : l <= m
    <3>1. Reading!EndOf(f) \in SUBSET Nat
      BY <1>2
    <3>2. \E m \in Reading!EndOf(f) : \A k \in Reading!EndOf(f) : m <= k
      BY <1>6, <3>1, LeastElement
    <3> QED
      BY <2>1, <3>2
  <2>3. l \in 1 .. Len(f) /\ l <= MaxCommandReadTimes
    BY <1>1, <1>2, <1>3, <1>4, <2>2
  <2>4. Reading!Loaded(f) = SubSeq(f, 1, l)
    BY <1>6, <2>1 DEF Reading!Loaded
  <2> QED
    BY <1>1, <2>3, <2>4
<1> QED
  BY <1>5, <1>6

\* A file that is loaded meets the invariant.
LEMMA ScriptInit == ASSUME FilesGiven, Reading!Init PROVE ScriptIInv
<1>1. CmdLine \in Seq(LineRecord) /\ Len(CmdLine) <= MaxCommandReadTimes
  BY LoadedFits DEF Reading!Init
<1>2. isCommandReadFinished \in BOOLEAN
  BY DEF Reading!Init
<1>3. /\ rs = "Idle" /\ commandLineNum = 0
      /\ command = "UnknowCommand" /\ wait_time = 0 /\ wait_time_counter = 0
      /\ param = 0 /\ buf0 = 0 /\ buf1 = 0 /\ said = FALSE /\ calls = 0
  BY DEF Reading!Init
<1>4. MaxParam \in Nat /\ MaxCommandReadTimes \in Nat
  BY DEF FilesGiven
<1>5. Reading!TypeOK
  <2>1. /\ 0 \in 0 .. MaxCommandReadTimes + MaxParam
        /\ 0 \in 0 .. MaxParam /\ 0 \in 0 .. MaxParam + 1
    BY <1>4
  <2>2. Reading!MaxcommandLineNum <= MaxCommandReadTimes
    BY <1>1 DEF Reading!MaxcommandLineNum
  <2> QED
    BY <1>2, <1>3, <2>1, <2>2, Zenon DEF Reading!TypeOK
<1> QED
  BY <1>1, <1>3, <1>5 DEF ScriptIInv, LoopInv, WaitInv

\* The line that is read is one of the file.
LEMMA LineIs ==
  ASSUME FilesGiven, ScriptIInv, ~Reading!NoLineAnyMore
  PROVE  /\ commandLineNum \in Nat
         /\ commandLineNum + 1 < Len(CmdLine)
         /\ commandLineNum + 1 < MaxCommandReadTimes
         /\ Reading!Line \in LineRecord
         /\ Reading!Line = CmdLine[commandLineNum + 1]
<1>1. commandLineNum \in Nat /\ Len(CmdLine) \in Nat /\ MaxCommandReadTimes \in Nat
  BY DEF FilesGiven, ScriptIInv, Reading!TypeOK
<1>2. commandLineNum + 1 < Len(CmdLine) /\ commandLineNum + 1 < MaxCommandReadTimes
  BY <1>1 DEF Reading!NoLineAnyMore, Reading!MaxcommandLineNum
<1>3. CmdLine[commandLineNum + 1] \in LineRecord
  BY <1>1, <1>2 DEF ScriptIInv
<1> QED
  BY <1>1, <1>2, <1>3 DEF Reading!Line

\* The lines a command names.
LEMMA LineNumbers ==
  ASSUME FilesGiven, ScriptIInv, ~Reading!NoLineAnyMore
  PROVE  /\ Reading!Line.aa \in Nat /\ Reading!Line.bb \in Nat
         /\ Reading!Line.aa <= MaxParam /\ Reading!Line.bb <= MaxParam
<1>1. Reading!Line \in LineRecord
  BY LineIs
<1>2. Reading!Line.aa \in 0 .. MaxParam /\ Reading!Line.bb \in 0 .. MaxParam
  BY <1>1, Zenon DEF LineRecord
<1>3. MaxParam \in Nat
  BY DEF FilesGiven
<1> QED
  BY <1>2, <1>3

\* A function keeps its parameters in their bounds, and the loop's counter.
LEMMA FunctionKeeps ==
  ASSUME FilesGiven, ScriptIInv, ~Reading!NoLineAnyMore, Reading!CallFunction
  PROVE  /\ {param', buf0', buf1'} \subseteq 0 .. MaxParam
         /\ said' \in BOOLEAN /\ calls' \in 0 .. MaxParam
         /\ LoopInv'
<1>1. Reading!Line.param \in 0 .. MaxParam
  BY LineIs, Zenon DEF LineRecord
<1>2. /\ param \in 0 .. MaxParam /\ buf0 \in 0 .. MaxParam /\ buf1 \in 0 .. MaxParam
      /\ calls = buf0 /\ (buf0 = 0 \/ buf0 < buf1) /\ MaxParam \in Nat
  BY DEF ScriptIInv, Reading!TypeOK, LoopInv, FilesGiven
<1>3. CASE Reading!LoopSpecificTimes
  <2>1. /\ param' \in 0 .. MaxParam /\ buf1' = buf1
        /\ said' = (buf0 + 1 >= buf1)
        /\ buf0' = IF buf0 + 1 >= buf1 THEN 0 ELSE buf0 + 1
        /\ calls' = IF buf0 + 1 >= buf1 THEN 0 ELSE buf0 + 1
    BY <1>1, <1>2, <1>3 DEF Reading!LoopSpecificTimes
  <2>2. CASE buf0 + 1 >= buf1
    BY <1>2, <2>1, <2>2 DEF LoopInv
  <2>3. CASE ~(buf0 + 1 >= buf1)
    BY <1>2, <2>1, <2>3 DEF LoopInv
  <2> QED
    BY <2>2, <2>3
<1>4. CASE Reading!ScriptsFunctionInitial
  BY <1>2, <1>4 DEF Reading!ScriptsFunctionInitial, LoopInv
<1>5. CASE Reading!ForNow
  BY <1>1, <1>2, <1>5 DEF Reading!ForNow, LoopInv
<1>6. CASE Reading!Function4
  BY <1>1, <1>2, <1>6 DEF Reading!Function4, LoopInv
<1> QED
  BY <1>3, <1>4, <1>5, <1>6 DEF Reading!CallFunction

\* Where the reader goes is a line that there may be.
LEMMA GoesOn ==
  ASSUME FilesGiven, ScriptIInv, ~Reading!NoLineAnyMore
  PROVE  /\ commandLineNum + 1 \in 0 .. MaxCommandReadTimes + MaxParam
         /\ \A ok : Reading!Line.aa >= 1 /\ Reading!Line.bb >= 1
              => Reading!JumpTo(ok) \in 0 .. MaxCommandReadTimes + MaxParam
<1>1. /\ Reading!Line.aa \in Nat /\ Reading!Line.bb \in Nat
      /\ Reading!Line.aa <= MaxParam /\ Reading!Line.bb <= MaxParam
  BY LineNumbers
<1>3. MaxParam \in Nat /\ MaxCommandReadTimes \in Nat
  BY DEF FilesGiven
<1>2. commandLineNum \in Nat /\ commandLineNum + 1 < MaxCommandReadTimes
  BY LineIs
<1> QED
  BY <1>1, <1>2, <1>3 DEF Reading!JumpTo

\* Every tick keeps the invariant.
LEMMA ScriptNext ==
  ASSUME FilesGiven, ScriptIInv, [Reading!Next]_(Reading!vars)
  PROVE  ScriptIInv'
<1> USE DEF ScriptIInv
<1>0. MaxParam \in Nat /\ MaxCommandReadTimes \in Nat
  BY DEF FilesGiven
<1>1. CASE UNCHANGED Reading!vars
  BY <1>1
     DEF Reading!vars, Reading!file, Reading!reader, Reading!SFP, LoopInv,
         WaitInv, Reading!TypeOK, Reading!MaxcommandLineNum
<1>2. CASE Reading!StateIdle \/ Reading!ReadEnd
  BY <1>2
     DEF Reading!StateIdle, Reading!ReadEnd, Reading!file, Reading!SFP, LoopInv,
         WaitInv, Reading!TypeOK, Reading!MaxcommandLineNum
<1>3. CASE Reading!StateWait
  <2>0. /\ wait_time_counter \in Nat /\ wait_time \in Nat /\ wait_time <= MaxParam
        /\ wait_time_counter = 0 \/ wait_time_counter < wait_time
    BY <1>0, <1>3 DEF Reading!StateWait, Reading!At, Reading!TypeOK, WaitInv
  <2>1. wait_time_counter' \in 0 .. MaxParam + 1
    BY <1>0, <1>3, <2>0 DEF Reading!StateWait
  <2>2. WaitInv'
    BY <1>3, <2>0 DEF Reading!StateWait, WaitInv
  <2> QED
    BY <1>3, <2>1, <2>2
       DEF Reading!StateWait, Reading!file, Reading!SFP, LoopInv,
           Reading!TypeOK, Reading!MaxcommandLineNum
<1>4. CASE Reading!ReadWait \/ Reading!ReadUnknown \/ Reading!ReadOther
  <2>1. ~Reading!NoLineAnyMore
    BY <1>4
       DEF Reading!ReadWait, Reading!ReadUnknown, Reading!ReadOther,
           Reading!ReadCommand, Reading!ReadLine
  <2>2. commandLineNum' \in 0 .. MaxCommandReadTimes + MaxParam
    BY <1>4, <2>1, GoesOn DEF Reading!ReadWait, Reading!ReadUnknown, Reading!ReadOther
  <2>3. wait_time' \in 0 .. MaxParam /\ wait_time_counter' \in 0 .. MaxParam + 1
    <3>1. Reading!Line.time \in 0 .. MaxParam
      BY <2>1, LineIs DEF LineRecord
    <3> QED
      BY <1>0, <1>4, <3>1
         DEF Reading!ReadWait, Reading!ReadUnknown, Reading!ReadOther,
             Reading!ReadCommand, Reading!TypeOK
  <2>4. /\ rs' \in {"Idle", "Read", "Wait", "Stop"}
        /\ command' \in {"UnknowCommand", "KnowCommand", "Wait", "NoCommandAnyMore"}
    BY <1>4
       DEF Reading!ReadWait, Reading!ReadUnknown, Reading!ReadOther,
           Reading!ReadCommand, Reading!TypeOK
  <2>6. WaitInv'
    BY <1>4
       DEF Reading!ReadWait, Reading!ReadUnknown, Reading!ReadOther, WaitInv,
           Reading!ReadCommand, Reading!ReadLine, Reading!At
  <2>5. UNCHANGED <<Reading!file, Reading!SFP, said, calls>>
    BY <1>4
       DEF Reading!ReadWait, Reading!ReadUnknown, Reading!ReadOther,
           Reading!ReadCommand, Reading!ReadLine
  <2> QED
    BY <2>2, <2>3, <2>4, <2>5, <2>6
       DEF Reading!file, Reading!SFP, LoopInv, Reading!TypeOK,
           Reading!MaxcommandLineNum
<1>5. CASE Reading!ReadCall
  <2>1. ~Reading!NoLineAnyMore /\ Reading!CallFunction
    BY <1>5 DEF Reading!ReadCall, Reading!ReadCommand, Reading!ReadLine
  <2>2. commandLineNum' \in 0 .. MaxCommandReadTimes + MaxParam
    BY <1>5, <2>1, GoesOn DEF Reading!ReadCall
  <2>3. /\ command' = "KnowCommand" /\ rs' = rs /\ rs = "Read" /\ UNCHANGED Reading!file
        /\ wait_time' = wait_time /\ wait_time_counter' = wait_time_counter
    BY <1>5 DEF Reading!ReadCall, Reading!ReadCommand, Reading!ReadLine, Reading!At
  <2>4. /\ {param', buf0', buf1'} \subseteq 0 .. MaxParam
        /\ said' \in BOOLEAN /\ calls' \in 0 .. MaxParam
        /\ LoopInv'
    BY <2>1, FunctionKeeps
  <2> QED
    BY <2>2, <2>3, <2>4
       DEF Reading!file, WaitInv, Reading!TypeOK, Reading!MaxcommandLineNum
<1>6. CASE Reading!StateStop \/ Reading!NotReady
  BY <1>1, <1>6 DEF Reading!StateStop, Reading!NotReady
<1> QED
  BY <1>1, <1>2, <1>3, <1>4, <1>5, <1>6 DEF Reading!Next

-----------------------------------------------------------------------------
\* The lines that may be read are those of the program.
LEMMA LineOfProgram ==
  ASSUME FilesGiven, ScriptIInv, isCommandReadFinished, ~Reading!NoLineAnyMore
  PROVE  /\ commandLineNum + 1 \in DOMAIN Reading!Program
         /\ Reading!Program[commandLineNum + 1] = Reading!Line
<1>1. /\ commandLineNum \in Nat /\ commandLineNum + 1 < Len(CmdLine)
      /\ Reading!Line = CmdLine[commandLineNum + 1]
  BY LineIs
<1>2. CmdLine \in Seq(LineRecord) /\ Len(CmdLine) \in Nat
  BY DEF ScriptIInv
<1>3. PICK n : n = Len(CmdLine) - 1
  OBVIOUS
<1>4. n \in 0 .. Len(CmdLine) /\ commandLineNum + 1 \in 1 .. n
  BY <1>1, <1>2, <1>3
<1>5. Reading!Program = SubSeq(CmdLine, 1, n)
  BY <1>3 DEF Reading!Program, Reading!MaxcommandLineNum
<1>6. /\ DOMAIN SubSeq(CmdLine, 1, n) = 1 .. n
      /\ \A k \in 1 .. n : SubSeq(CmdLine, 1, n)[k] = CmdLine[k]
  BY <1>2, <1>4
<1> QED
  BY <1>1, <1>4, <1>5, <1>6

(* A tick runs the next line of the program, or none: an idle reader, one  *)
(* that waits and one that has stopped leave the program where it is.      *)
LEMMA ReadsAsProgram ==
  ASSUME FilesGiven, ScriptIInv, [Reading!Next]_(Reading!vars)
  PROVE  [Reading!Refinement!Next]_<<Reading!Program, commandLineNum + 1, said>>
<1>1. UNCHANGED Reading!file
  BY DEF Reading!Next, Reading!vars, Reading!StateIdle, Reading!ReadEnd,
         Reading!ReadWait, Reading!ReadUnknown, Reading!ReadOther,
         Reading!ReadCall, Reading!ReadCommand, Reading!ReadLine,
         Reading!StateWait, Reading!StateStop, Reading!NotReady
<1>2. UNCHANGED Reading!Program
  BY <1>1 DEF Reading!Program, Reading!file, Reading!MaxcommandLineNum
<1>3. CASE Reading!ReadCall
  <2>1. /\ ~Reading!NoLineAnyMore /\ isCommandReadFinished
        /\ Reading!Line.kind = "call" /\ Reading!Line.aa >= 1 /\ Reading!Line.bb >= 1
        /\ Reading!CallFunction
        /\ commandLineNum' = IF Reading!Line.condition = 0 THEN commandLineNum + 1
                                                           ELSE Reading!JumpTo(said')
    BY <1>3 DEF Reading!ReadCall, Reading!ReadCommand, Reading!ReadLine, Reading!At
  <2>2. /\ commandLineNum + 1 \in DOMAIN Reading!Program
        /\ Reading!Program[commandLineNum + 1] = Reading!Line
    BY <2>1, LineOfProgram
  <2>3. said' \in BOOLEAN
    BY <2>1, FunctionKeeps
  <2>4. /\ Reading!Line.aa \in Nat /\ Reading!Line.bb \in Nat /\ commandLineNum \in Nat
    BY <2>1, LineIs, LineNumbers
  <2>5. commandLineNum' + 1 =
          Reading!Refinement!Following(Reading!Line, commandLineNum + 1, said')
    BY <2>1, <2>4 DEF Reading!Refinement!Following, Reading!JumpTo
  <2> QED
    BY <1>2, <2>1, <2>2, <2>3, <2>5
       DEF Reading!Refinement!Next, Reading!Refinement!Call,
           Reading!Refinement!IsCall
<1>4. CASE Reading!ReadWait \/ Reading!ReadUnknown \/ Reading!ReadOther
  <2>1. /\ ~Reading!NoLineAnyMore /\ isCommandReadFinished
        /\ said' = said /\ commandLineNum' = commandLineNum + 1
        /\ ~Reading!Refinement!IsCall(Reading!Line)
    <3>1. /\ ~Reading!NoLineAnyMore /\ isCommandReadFinished
          /\ said' = said /\ commandLineNum' = commandLineNum + 1
      BY <1>4
         DEF Reading!ReadWait, Reading!ReadUnknown, Reading!ReadOther,
             Reading!ReadCommand, Reading!ReadLine, Reading!At
    <3>2. /\ Reading!Line.aa \in Nat /\ Reading!Line.bb \in Nat
      BY <3>1, LineNumbers
    <3> QED
      BY <1>4, <3>1, <3>2
         DEF Reading!ReadWait, Reading!ReadUnknown, Reading!ReadOther,
             Reading!Refinement!IsCall
  <2>2. /\ commandLineNum + 1 \in DOMAIN Reading!Program
        /\ Reading!Program[commandLineNum + 1] = Reading!Line
    BY <2>1, LineOfProgram
  <2> QED
    BY <1>2, <2>1, <2>2 DEF Reading!Refinement!Next, Reading!Refinement!Pass
<1>5. CASE UNCHANGED <<commandLineNum, said>>
  BY <1>2, <1>5
<1> QED
  BY <1>3, <1>4, <1>5
     DEF Reading!Next, Reading!vars, Reading!reader, Reading!StateIdle,
         Reading!ReadEnd, Reading!StateWait, Reading!StateStop, Reading!NotReady

(* The reader stays well typed: it loads no more lines than the table      *)
(* takes, counts a wait no further than its time and a loop no further     *)
(* than its turns, and stands behind the table only after a jump.          *)
THEOREM ScriptTypeCorrect == ASSUME FilesGiven
  PROVE Reading!Spec => []Reading!TypeOK
<1>1. Reading!Init => ScriptIInv
  BY ScriptInit
<1>2. ScriptIInv /\ [Reading!Next]_(Reading!vars) => ScriptIInv'
  BY ScriptNext
<1>3. ScriptIInv => Reading!TypeOK
  BY DEF ScriptIInv
<1> QED
  BY <1>1, <1>2, <1>3, PTL DEF Reading!Spec

(* Whatever is in the file, its lines before ":end" are run as the comment *)
(* at HexCommand.c:17 says: in order, with jumps to the lines it names.    *)
THEOREM ProgramRun == ASSUME FilesGiven
  PROVE Reading!Spec => Reading!ImplementsProgram
<1>1. Reading!Init => ScriptIInv
  BY ScriptInit
<1>4. Reading!Init => Reading!Refinement!Init
  BY DEF Reading!Init, Reading!Refinement!Init
<1>2. ScriptIInv /\ [Reading!Next]_(Reading!vars) => ScriptIInv'
  BY ScriptNext
<1>3. ScriptIInv /\ [Reading!Next]_(Reading!vars)
        => [Reading!Refinement!Next]_<<Reading!Program, commandLineNum + 1, said>>
  BY ReadsAsProgram
<1> QED
  BY <1>1, <1>2, <1>3, <1>4, PTL
     DEF Reading!Spec, Reading!ImplementsProgram, Reading!Refinement!Spec

(* A loop ends with the call its ForNow said, the first one for 0 and 1,   *)
(* wherever the script jumps in between (LoopSpecificTimes, whose counter  *)
(* all loops share).                                                       *)
THEOREM LoopCorrect == ASSUME FilesGiven
  PROVE Reading!Spec => Reading!LoopRunsItsTimes
<1>1. Reading!Init => ScriptIInv
  BY ScriptInit
<1>2. ScriptIInv /\ [Reading!Next]_(Reading!vars) => ScriptIInv'
  BY ScriptNext
<1>3. ASSUME ScriptIInv, [Reading!Next]_(Reading!vars)
      PROVE  [Reading!LoopCalled =>
                (said' <=> calls + 1 = IF buf1 = 0 THEN 1 ELSE buf1)]_(Reading!vars)
  <2> SUFFICES ASSUME Reading!Next, Reading!LoopCalled
               PROVE  said' <=> calls + 1 = IF buf1 = 0 THEN 1 ELSE buf1
    BY <1>3
  <2>1. /\ ~Reading!NoLineAnyMore /\ rs = "Read"
        /\ isCommandReadFinished
        /\ Reading!Line.kind = "call" /\ Reading!Line.aa >= 1 /\ Reading!Line.bb >= 1
        /\ Reading!Line.function = "Loop"
    BY DEF Reading!LoopCalled, Reading!At, Reading!Refinement!IsCall
  <2>2. Reading!Line.aa \in Nat /\ Reading!Line.bb \in Nat
    BY <1>3, <2>1, LineNumbers
  <2>3. Reading!LoopSpecificTimes
    BY <2>1, <2>2
       DEF Reading!Next, Reading!NotReady, Reading!StateIdle, Reading!ReadEnd,
           Reading!ReadWait, Reading!ReadUnknown, Reading!ReadOther,
           Reading!ReadCall, Reading!StateWait, Reading!StateStop, Reading!At,
           Reading!CallFunction
  <2>4. /\ calls = buf0 /\ buf0 \in Nat /\ buf1 \in Nat /\ (buf0 = 0 \/ buf0 < buf1)
    BY <1>3 DEF ScriptIInv, LoopInv, Reading!TypeOK, FilesGiven
  <2>5. said' = (buf0 + 1 >= buf1)
    BY <2>3 DEF Reading!LoopSpecificTimes
  <2>6. (buf0 + 1 >= buf1) <=> (calls + 1 = IF buf1 = 0 THEN 1 ELSE buf1)
    BY <2>4
  <2> QED
    BY <2>5, <2>6
<1> QED
  BY <1>1, <1>2, <1>3, PTL DEF Reading!Spec, Reading!LoopRunsItsTimes
-----------------------------------------------------------------------------
(* What is ahead of a script that ends.  Its loops do not overlap; a line  *)
(* in one is as far as the loop's own line, any other as far as it is.     *)
Here == commandLineNum + 1
LoopLine(n) == Reading!Jump(n) /\ ~Reading!Forward(n)
LoopsAt(h) == {n \in DOMAIN Reading!Program :
                 LoopLine(n) /\ Reading!Program[n].bb <= h /\ h <= n}
Reached(h) == IF LoopsAt(h) = {} THEN h ELSE CHOOSE n \in LoopsAt(h) : TRUE

Minus(m, n) == IF m > n THEN m - n ELSE 0

\* The lines outside loops, the turns of a loop, its lines, the ticks of one.
LinesAhead == Minus(Len(Reading!Program) + 1, Reached(Here))
TurnsAhead == Minus(buf1, buf0)
LoopAhead  == Minus(Len(Reading!Program) + 1, Here)
TicksAhead == CASE rs = "Idle" -> 2 [] rs = "Read" -> 1 [] rs = "Stop" -> 0
                [] rs = "Wait" -> 3 + Minus(wait_time, wait_time_counter)

RunsDown ==
  \/ LinesAhead' < LinesAhead
  \/ /\ LinesAhead' = LinesAhead
     /\ \/ TurnsAhead' < TurnsAhead
        \/ /\ TurnsAhead' = TurnsAhead
           /\ \/ LoopAhead' < LoopAhead
              \/ LoopAhead' = LoopAhead /\ TicksAhead' < TicksAhead

\* The scripts of ScriptEnds.
EndingScript ==
  /\ isCommandReadFinished
  /\ \A n \in DOMAIN Reading!Program :
       Reading!Jump(n) => Reading!Forward(n) \/ Reading!ProperLoop(n)

\* The program is a sequence of lines.
LEMMA ProgramIs == ASSUME ScriptIInv
  PROVE  /\ Reading!Program \in Seq(LineRecord)
         /\ Len(Reading!Program) \in Nat
         /\ DOMAIN Reading!Program = 1 .. Len(Reading!Program)
         /\ \A n \in DOMAIN Reading!Program :
              /\ Reading!Program[n].aa \in Nat
              /\ Reading!Program[n].bb \in Nat
<1>1. CmdLine \in Seq(LineRecord) /\ Len(CmdLine) \in Nat
  BY DEF ScriptIInv
<1>2. PICK l : l = Len(CmdLine) - 1
  OBVIOUS
<1>3. l \in Int /\ l <= Len(CmdLine)
  BY <1>1, <1>2
<1>4. SubSeq(CmdLine, 1, l) \in Seq(LineRecord)
  BY <1>1, <1>3
<1>5. << >> \in Seq(LineRecord)
  OBVIOUS
<1>6. Reading!Program \in Seq(LineRecord)
  BY <1>2, <1>4, <1>5 DEF Reading!Program, Reading!MaxcommandLineNum
<1>7. \A n \in DOMAIN Reading!Program : Reading!Program[n] \in LineRecord
  BY <1>6
<1>8. \A r \in LineRecord : r.aa \in 0 .. MaxParam /\ r.bb \in 0 .. MaxParam
  BY DEF LineRecord
<1> QED
  BY <1>6, <1>7, <1>8

\* A loop has no other in it: a line is in one loop at most.
LEMMA LoopsApart ==
  ASSUME ScriptIInv, EndingScript, NEW h \in Nat, NEW n \in LoopsAt(h)
  PROVE  /\ Reached(h) = n
         /\ Reading!ProperLoop(n) /\ Reading!Program[n].bb <= n
<1>1. ASSUME NEW m \in LoopsAt(h)
      PROVE  /\ m \in DOMAIN Reading!Program /\ m \in Nat
             /\ Reading!ProperLoop(m) /\ Reading!Refinement!IsCall(Reading!Program[m])
             /\ Reading!Program[m].bb \in Nat /\ Reading!Program[m].bb <= h /\ h <= m
             /\ Reading!Program[m].function = "Loop"
  <2>1. m \in DOMAIN Reading!Program /\ LoopLine(m)
    BY DEF LoopsAt
  <2>2. Reading!ProperLoop(m)
    BY <2>1 DEF EndingScript, LoopLine
  <2> QED
    BY <2>1, <2>2, ProgramIs DEF LoopsAt, LoopLine, Reading!Jump, Reading!ProperLoop
<1>2. ASSUME NEW m \in LoopsAt(h), NEW k \in LoopsAt(h), m < k PROVE FALSE
  <2>1. m \in Reading!Program[k].bb .. k - 1
    BY <1>1, <1>2
  <2>2. Reading!Program[m].function = "Function4"
    BY <1>1, <2>1 DEF Reading!ProperLoop
  <2> QED
    BY <1>1, <2>2
<1>3. \A m \in LoopsAt(h) : m = n
  BY <1>1, <1>2
<1> QED
  BY <1>1, <1>3 DEF Reached

(* What one line that is read does: it leads to line g, and only a         *)
(* function of the loop counter touches that.                              *)
LineRead(h, g) ==
  /\ h \in DOMAIN Reading!Program /\ g \in Nat
  /\ \/ ~Reading!Jump(h) /\ g = h + 1
     \/ /\ Reading!Jump(h)
        /\ g = IF said' THEN Reading!Program[h].aa ELSE Reading!Program[h].bb
  /\ (Reading!Refinement!IsCall(Reading!Program[h]) =>
         Reading!Program[h].function = "Function4")
       => UNCHANGED <<buf0, buf1>>
  /\ Reading!Jump(h) /\ Reading!Program[h].function = "Loop" =>
       /\ buf1' = buf1 /\ said' = (buf0 + 1 >= buf1)
       /\ buf0' = IF buf0 + 1 >= buf1 THEN 0 ELSE buf0 + 1

(* Where the reader goes from the line it has read. *)
LEMMA ReadLeads ==
  ASSUME FilesGiven, ScriptIInv, isCommandReadFinished,
         \/ Reading!ReadWait \/ Reading!ReadUnknown \/ Reading!ReadOther
         \/ Reading!ReadCall
  PROVE  LineRead(Here, Here') /\ Reading!Program' = Reading!Program
<1>1. ~Reading!NoLineAnyMore /\ UNCHANGED Reading!file
  BY DEF Reading!ReadWait, Reading!ReadUnknown, Reading!ReadOther, Reading!ReadCall,
         Reading!ReadCommand, Reading!ReadLine
<1>2. /\ Here \in DOMAIN Reading!Program /\ Reading!Program[Here] = Reading!Line
      /\ Reading!Line.aa \in Nat /\ Reading!Line.bb \in Nat
  BY <1>1, LineOfProgram, LineNumbers DEF Here
<1>3. Reading!Program' = Reading!Program
  BY <1>1 DEF Reading!file, Reading!Program, Reading!MaxcommandLineNum
<1>4. commandLineNum \in Nat
  BY <1>1, LineIs
<1>5. CASE Reading!ReadCall
  <2>1. /\ Reading!Line.kind = "call" /\ Reading!Line.aa >= 1 /\ Reading!Line.bb >= 1
        /\ Reading!CallFunction
        /\ commandLineNum' = IF Reading!Line.condition = 0 THEN commandLineNum + 1
                                                           ELSE Reading!JumpTo(said')
    BY <1>5 DEF Reading!ReadCall
  <2>2. Reading!Refinement!IsCall(Reading!Program[Here])
    BY <1>2, <2>1 DEF Reading!Refinement!IsCall
  <2>3. Reading!Jump(Here) <=> Reading!Line.condition # 0
    BY <1>2, <2>2 DEF Reading!Jump
  <2>4. /\ Here' \in Nat
        /\ Reading!Line.condition = 0 => Here' = Here + 1
        /\ Reading!Line.condition # 0 =>
             Here' = IF said' THEN Reading!Line.aa ELSE Reading!Line.bb
    BY <1>2, <1>4, <2>1 DEF Reading!JumpTo, Here
  <2>5. Reading!Line.function = "Function4" => UNCHANGED <<buf0, buf1>>
    BY <2>1 DEF Reading!CallFunction, Reading!Function4
  <2>6. Reading!Line.function = "Loop" =>
          /\ buf1' = buf1 /\ said' = (buf0 + 1 >= buf1)
          /\ buf0' = IF buf0 + 1 >= buf1 THEN 0 ELSE buf0 + 1
    BY <2>1 DEF Reading!CallFunction, Reading!LoopSpecificTimes
  <2> QED
    BY <1>2, <1>3, <2>2, <2>3, <2>4, <2>5, <2>6 DEF LineRead
<1>6. CASE Reading!ReadWait \/ Reading!ReadUnknown \/ Reading!ReadOther
  <2>1. /\ commandLineNum' = commandLineNum + 1 /\ UNCHANGED <<buf0, buf1>>
        /\ ~Reading!Refinement!IsCall(Reading!Line)
    BY <1>2, <1>6 DEF Reading!ReadWait, Reading!ReadUnknown, Reading!ReadOther,
       Reading!ReadCommand, Reading!SFP, Reading!Refinement!IsCall
  <2>2. ~Reading!Jump(Here) /\ Here' = Here + 1 /\ Here' \in Nat
    BY <1>2, <1>4, <2>1 DEF Reading!Jump, Here
  <2> QED
    BY <1>2, <1>3, <2>1, <2>2 DEF LineRead
<1> QED
  BY <1>5, <1>6

\* The reached line after a step that leaves the program alone.
LEMMA ReachedNext ==
  ASSUME Reading!Program' = Reading!Program, NEW g, g = Here'
  PROVE  LinesAhead' = Minus(Len(Reading!Program) + 1, Reached(g))
<1>1. LoopsAt(Here)' = LoopsAt(g)
  BY DEF LoopsAt, LoopLine, Reading!Jump, Reading!Forward
<1>2. Reached(Here)' = Reached(g)
  BY <1>1 DEF Reached
<1> QED
  BY <1>2 DEF LinesAhead, Minus

\* No line that is reached is behind the one that is read.
LEMMA ReachedAhead ==
  ASSUME ScriptIInv, EndingScript, NEW h \in Nat
  PROVE  Reached(h) \in Nat /\ h <= Reached(h)
<1>1. CASE LoopsAt(h) = {}
  BY <1>1 DEF Reached
<1>2. ASSUME NEW n \in LoopsAt(h) PROVE Reached(h) \in Nat /\ h <= Reached(h)
  BY LoopsApart, ProgramIs DEF LoopsAt
<1> QED
  BY <1>1, <1>2

(* Every line that is read leaves less ahead: it leads past all that was   *)
(* reached, or is the loop's own line and takes one of its turns, or is    *)
(* one within a loop.                                                      *)
LEMMA LineRunsDown ==
  ASSUME ScriptIInv, EndingScript, NEW h, NEW g, LineRead(h, g)
  PROVE  \/ Reached(h) < Reached(g) /\ Reached(h) <= Len(Reading!Program)
         \/ Reached(h) = Reached(g) /\ TurnsAhead' < TurnsAhead
         \/ /\ Reached(h) = Reached(g) /\ UNCHANGED <<buf0, buf1>>
            /\ h < g /\ h <= Len(Reading!Program)
<1> DEFINE line_h == Reading!Program[h]
<1>1. /\ h \in Nat /\ g \in Nat /\ h \in DOMAIN Reading!Program
      /\ h <= Len(Reading!Program) /\ Len(Reading!Program) \in Nat
      /\ line_h.aa \in Nat /\ line_h.bb \in Nat
  BY ProgramIs DEF LineRead
<1>2. g <= Reached(g) /\ Reached(g) \in Nat
  BY <1>1, ReachedAhead
<1>3. CASE LoopLine(h)
  <2>1. Reading!Jump(h) /\ Reading!ProperLoop(h) /\ line_h.bb <= h /\ line_h.aa > h
    BY <1>1, <1>3 DEF LoopLine, EndingScript, Reading!ProperLoop, Reading!Forward
  <2>2. h \in LoopsAt(h)
    BY <1>1, <1>3, <2>1 DEF LoopsAt
  <2>3. Reached(h) = h
    BY <1>1, <2>2, LoopsApart
  <2>4. /\ buf1' = buf1 /\ said' = (buf0 + 1 >= buf1)
        /\ buf0' = IF buf0 + 1 >= buf1 THEN 0 ELSE buf0 + 1
        /\ g = IF said' THEN line_h.aa ELSE line_h.bb
    BY <2>1 DEF LineRead, Reading!ProperLoop
  <2>5. CASE said'
    BY <1>1, <1>2, <2>1, <2>3, <2>4, <2>5
  <2>6. CASE ~said'
    <3>1. h \in LoopsAt(g)
      BY <1>1, <1>3, <2>1, <2>4, <2>6 DEF LoopsAt
    <3>2. Reached(g) = h
      BY <1>1, <3>1, LoopsApart
    <3>3. buf0 \in Nat /\ buf1 \in Nat
      BY DEF ScriptIInv, Reading!TypeOK
    <3>4. ~(buf0 + 1 >= buf1)
      BY <2>4, <2>6, Zenon
    <3>6. buf0' = buf0 + 1 /\ buf1' = buf1
      BY <2>4, <3>4
    <3>5. TurnsAhead' < TurnsAhead
      BY <3>3, <3>4, <3>6 DEF TurnsAhead, Minus
    <3> QED
      BY <2>3, <3>2, <3>5
  <2> QED
    BY <2>5, <2>6
<1>4. CASE ~LoopLine(h)
  <2>1. h < g
    <3>1. Reading!Jump(h) => line_h.aa > h /\ line_h.bb > h
      BY <1>4 DEF LoopLine, Reading!Forward
    <3> QED
      BY <1>1, <3>1 DEF LineRead
  <2>2. CASE LoopsAt(h) = {}
    BY <1>1, <1>2, <2>1, <2>2 DEF Reached
  <2>3. ASSUME NEW n \in LoopsAt(h)
        PROVE  \/ Reached(h) < Reached(g) /\ Reached(h) <= Len(Reading!Program)
               \/ /\ Reached(h) = Reached(g) /\ UNCHANGED <<buf0, buf1>>
                  /\ h < g /\ h <= Len(Reading!Program)
    <3>1. /\ Reached(h) = n /\ Reading!ProperLoop(n) /\ LoopLine(n)
          /\ n \in DOMAIN Reading!Program /\ Reading!Program[n].bb <= h /\ h <= n
      BY <1>1, LoopsApart DEF LoopsAt
    <3>2. n \in Nat /\ n <= Len(Reading!Program) /\ Reading!Program[n].bb \in Nat
      BY <3>1, ProgramIs
    <3>3. h # n
      BY <1>4, <3>1
    <3>4. Reading!Refinement!IsCall(line_h) => line_h.function = "Function4"
      BY <1>1, <3>1, <3>2, <3>3 DEF Reading!ProperLoop
    <3>5. UNCHANGED <<buf0, buf1>>
      BY <3>4 DEF LineRead
    <3>6. CASE g <= n
      <4>1. n \in LoopsAt(g)
        BY <1>1, <2>1, <3>1, <3>2, <3>6 DEF LoopsAt
      <4>2. Reached(g) = n
        BY <1>1, <4>1, LoopsApart
      <4> QED
        BY <1>1, <2>1, <3>1, <3>5, <4>2
    <3>7. CASE n < g
      BY <1>2, <1>1, <3>1, <3>2, <3>7
    <3> QED
      BY <1>1, <3>2, <3>6, <3>7
  <2> QED
    BY <2>2, <2>3
<1> QED
  BY <1>3, <1>4

\* Every tick of a reader that has not stopped.
LEMMA TickRunsDown ==
  ASSUME FilesGiven, ScriptIInv, EndingScript, rs # "Stop", Reading!Next
  PROVE  RunsDown
<1>1. isCommandReadFinished
  BY DEF EndingScript
<1>2. CASE \/ Reading!ReadWait \/ Reading!ReadUnknown \/ Reading!ReadOther
           \/ Reading!ReadCall
  <2>1. PICK h, g : h = Here /\ g = Here'
    OBVIOUS
  <2>2. LineRead(h, g) /\ Reading!Program' = Reading!Program
    BY <1>1, <1>2, <2>1, ReadLeads
  <2>3. PICK n : n = Len(Reading!Program)
    OBVIOUS
  <2>4. n \in Nat /\ h \in Nat /\ g \in Nat
    BY <2>2, <2>3, ProgramIs DEF LineRead
  <2>5. Reached(h) \in Nat /\ Reached(g) \in Nat
    BY <2>4, ReachedAhead
  <2>6. /\ LinesAhead = Minus(n + 1, Reached(h)) /\ LinesAhead' = Minus(n + 1, Reached(g))
        /\ LoopAhead = Minus(n + 1, h) /\ LoopAhead' = Minus(n + 1, g)
    BY <2>1, <2>2, <2>3, ReachedNext DEF LinesAhead, LoopAhead, Minus
  <2>7. CASE Reached(h) < Reached(g) /\ Reached(h) <= n
    BY <2>4, <2>5, <2>6, <2>7 DEF RunsDown, Minus
  <2>8. CASE Reached(h) = Reached(g) /\ TurnsAhead' < TurnsAhead
    BY <2>6, <2>8 DEF RunsDown
  <2>9. CASE Reached(h) = Reached(g) /\ UNCHANGED <<buf0, buf1>> /\ h < g /\ h <= n
    <3>1. TurnsAhead' = TurnsAhead
      BY <2>9 DEF TurnsAhead, Minus
    <3>2. LoopAhead' < LoopAhead
      BY <2>4, <2>6, <2>9 DEF Minus
    <3> QED
      BY <2>6, <2>9, <3>1, <3>2 DEF RunsDown
  <2> QED
    BY <2>2, <2>3, <2>7, <2>8, <2>9, LineRunsDown
<1>3. CASE Reading!StateIdle \/ Reading!ReadEnd \/ Reading!StateWait
  <2>1. UNCHANGED <<Reading!file, commandLineNum, buf0, buf1, wait_time>>
    BY <1>3 DEF Reading!StateIdle, Reading!ReadEnd, Reading!StateWait, Reading!SFP
  <2>2. Here' = Here /\ Reading!Program' = Reading!Program
    BY <2>1 DEF Here, Reading!file, Reading!Program, Reading!MaxcommandLineNum
  <2>3. LinesAhead' = LinesAhead
    <3>1. PICK g : g = Here
      OBVIOUS
    <3> QED
      BY <2>2, <3>1, ReachedNext DEF LinesAhead
  <2>4. LoopAhead' = LoopAhead /\ TurnsAhead' = TurnsAhead
    BY <2>1, <2>2 DEF LoopAhead, TurnsAhead, Minus
  <2>5. TicksAhead' < TicksAhead
    <3>1. CASE Reading!StateIdle
      BY <3>1 DEF Reading!StateIdle, Reading!At, TicksAhead
    <3>2. CASE Reading!ReadEnd
      BY <3>2 DEF Reading!ReadEnd, Reading!At, TicksAhead
    <3>3. CASE Reading!StateWait
      <4>1. PICK w, c : w = wait_time /\ c = wait_time_counter
        OBVIOUS
      <4>2. w \in Nat /\ c \in Nat
        BY <4>1 DEF ScriptIInv, Reading!TypeOK
      <4>3. /\ rs = "Wait" /\ wait_time' = w /\ wait_time_counter' = c + 1
            /\ rs' = IF c + 1 >= w THEN "Idle" ELSE "Wait"
        BY <3>3, <4>1 DEF Reading!StateWait, Reading!At
      <4>4. TicksAhead = 3 + Minus(w, c)
        BY <4>1, <4>3 DEF TicksAhead
      <4>5. CASE c + 1 >= w
        <5>1. TicksAhead' = 2
          BY <4>3, <4>5 DEF TicksAhead
        <5> QED
          BY <4>2, <4>4, <5>1 DEF Minus
      <4>6. CASE ~(c + 1 >= w)
        <5>1. TicksAhead' = 3 + Minus(w, c + 1)
          BY <4>3, <4>6 DEF TicksAhead
        <5> QED
          BY <4>2, <4>4, <4>6, <5>1 DEF Minus
      <4> QED
        BY <4>5, <4>6
    <3> QED
      BY <1>3, <3>1, <3>2, <3>3
  <2> QED
    BY <2>3, <2>4, <2>5 DEF RunsDown
<1> QED
  BY <1>1, <1>2, <1>3 DEF Reading!Next, Reading!NotReady, Reading!StateStop, Reading!At

(* A script whose jumps lead forward, except for loops without another     *)
(* function of the loop counter in them, has less before it with every     *)
(* tick until it has stopped: lines it has not reached, turns of the loop  *)
(* it is in, lines of that loop, ticks of the line it is at.  This is      *)
(* ScriptEnds for every file, but for the tick that has to come.           *)
THEOREM ScriptRunsDown == ASSUME FilesGiven
  PROVE Reading!Spec =>
          /\ [](/\ LinesAhead \in Nat /\ TurnsAhead \in Nat
                /\ LoopAhead \in Nat /\ TicksAhead \in Nat)
          /\ [][EndingScript /\ rs # "Stop" => RunsDown]_(Reading!vars)
<1>1. Reading!Init => ScriptIInv
  BY ScriptInit
<1>2. ScriptIInv /\ [Reading!Next]_(Reading!vars) => ScriptIInv'
  BY ScriptNext
<1>3. ScriptIInv /\ [Reading!Next]_(Reading!vars) =>
        [EndingScript /\ rs # "Stop" => RunsDown]_(Reading!vars)
  BY TickRunsDown
<1>4. ASSUME ScriptIInv
      PROVE  /\ LinesAhead \in Nat /\ TurnsAhead \in Nat
             /\ LoopAhead \in Nat /\ TicksAhead \in Nat
  <2>1. ASSUME NEW m \in Nat, NEW n \in Nat PROVE Minus(m, n) \in Nat
    BY <2>1 DEF Minus
  <2>2. /\ Len(Reading!Program) + 1 \in Nat
        /\ DOMAIN Reading!Program = 1 .. Len(Reading!Program)
    BY <1>4, ProgramIs
  <2>3. /\ Here \in Nat /\ buf0 \in Nat /\ buf1 \in Nat
        /\ wait_time \in Nat /\ wait_time_counter \in Nat
        /\ rs \in {"Idle", "Read", "Wait", "Stop"}
    BY <1>4 DEF ScriptIInv, Reading!TypeOK, FilesGiven, Here
  <2>4. Reached(Here) \in Nat
    BY <2>2, <2>3 DEF Reached, LoopsAt
  <2>5. LinesAhead \in Nat /\ LoopAhead \in Nat
    BY <2>1, <2>2, <2>3, <2>4 DEF LinesAhead, LoopAhead
  <2>6. TurnsAhead \in Nat
    BY <2>1, <2>3 DEF TurnsAhead
  <2>7. Minus(wait_time, wait_time_counter) \in Nat
    BY <2>1, <2>3
  <2>8. TicksAhead \in Nat
    BY <2>3, <2>7 DEF TicksAhead
  <2> QED
    BY <2>5, <2>6, <2>8
<1>5. ScriptIInv => /\ LinesAhead \in Nat /\ TurnsAhead \in Nat
                    /\ LoopAhead \in Nat /\ TicksAhead \in Nat
  BY <1>4
<1> QED
  BY <1>1, <1>2, <1>3, <1>5, PTL DEF Reading!Spec
==============================================================================
