------------------------------ MODULE PenState ------------------------------
(***************************************************************************)
(* The basic state of the pen: PenState.c with the five Emark*.c handlers. *)
(* A tick collects conditions of the world into the bits of Factor and     *)
(* moves the pen.  The tick runs PenBasicStateHandle, which PenState.c:468 *)
(* has as a comment beside the engine that was to replace it.              *)
(* PowerLow is left out: USE_POWER_LOW_SHUTDOWN is 0 and nothing reads it. *)
(***************************************************************************)
EXTENDS Naturals, FiniteSets

CONSTANT WAKE_UP_DELAY   \* ticks a pen that has just woken up waits

ASSUME PenStateAssumption == WAKE_UP_DELAY \in Nat

VARIABLES CurrentState, delay_counter,
          Factor,        \* the bits that are set
          sure,          \* "Quiet" in it: isSureQuiet; likewise isSureShutDown
          sensed         \* what PowerSaving.c answers true for

pen == <<CurrentState, delay_counter, Factor, sure>>

Conditions == {"UserShutDown", "BleConnected", "PenMove", "PenCharge",
               "NearMagnetic", "WakeUpButtonPush"}
Bits       == Conditions \cup {"ChargeWhenShutDown"}

Awake        == {"Quiet", "DisConnected", "Connected"}
Last         == {"Quiet", "GoingToShutDown"}
Booting      == {"JustWakeUp", "GetGlobalState"}
PBS          == Booting \cup Awake \cup {"ChargeWhenShutDown", "GoingToShutDown"}
ReasonsToEnd == {"UserShutDown", "NearMagnetic"}

PenTypeOK == /\ CurrentState \in PBS
             /\ delay_counter \in 0 .. WAKE_UP_DELAY
             /\ Factor \subseteq Bits
             /\ sure \subseteq Last
             /\ sensed \subseteq Conditions

\* Static variables; nothing calls AllPeripheralInit before the bench does.
PenInit == /\ CurrentState = "JustWakeUp" /\ delay_counter = 0
           /\ Factor = {} /\ sure = {} /\ sensed = {}

-----------------------------------------------------------------------------
\* The checks ask for some of the conditions; the other bits stay.
Collected(asked) == (Factor \ asked) \cup (sensed \cap asked)

\* What a handler asks before it decides; a slip forgets the user.
ForgottenUser(state) ==
  CASE state = "ChargeWhenShutDown" -> {"PenCharge", "WakeUpButtonPush"}
    [] state \in {"Quiet", "DisConnected"} -> Conditions \ {"WakeUpButtonPush"}
    [] state = "Connected" -> {"BleConnected", "NearMagnetic", "PenCharge"}
    [] state = "GoingToShutDown" -> {}
Asked(state) ==
  CASE state = "ChargeWhenShutDown" -> {"PenCharge", "WakeUpButtonPush"}
    [] state \in {"Quiet", "DisConnected"} -> Conditions \ {"WakeUpButtonPush"}
    [] state = "Connected" -> Conditions \ {"WakeUpButtonPush", "PenMove"}
    [] state = "GoingToShutDown" -> {}

Ends(f) == f \cap ReasonsToEnd # {}

PenBasicStateGet(f) ==
  CASE "ChargeWhenShutDown" \in f -> "ChargeWhenShutDown"
    [] "ChargeWhenShutDown" \notin f /\ Ends(f) -> "GoingToShutDown"
    [] "ChargeWhenShutDown" \notin f /\ ~Ends(f) ->
         IF "BleConnected" \in f THEN "Connected" ELSE "DisConnected"

PenBasicStateGetUnderCertainState(state, f) ==
  CASE state = "ChargeWhenShutDown" ->
         IF "WakeUpButtonPush" \in f THEN "DisConnected"
         ELSE IF "PenCharge" \in f THEN "ChargeWhenShutDown" ELSE "GoingToShutDown"
    [] state \in Awake /\ Ends(f) -> "GoingToShutDown"
    [] state \in Awake /\ ~Ends(f) ->
         IF "BleConnected" \in f THEN "Connected"
         ELSE IF state = "Connected" \/ "PenMove" \in f THEN "DisConnected" ELSE "Quiet"
    [] state = "GoingToShutDown" -> "GoingToShutDown"

\* Only PenQuietStateInit and PenShutDownStateInit do anything.
SetCurrentBasicState(state) ==
  /\ CurrentState' = state
  /\ sure' = IF state = CurrentState THEN sure ELSE sure \ {state}

-----------------------------------------------------------------------------
\* A slip: one tick too many.
WaitsOneMore ==
  /\ CurrentState = "JustWakeUp"
  /\ IF delay_counter <= WAKE_UP_DELAY
     THEN delay_counter' = delay_counter + 1 /\ UNCHANGED CurrentState
     ELSE delay_counter' = 0 /\ CurrentState' = "GetGlobalState"
  /\ UNCHANGED <<Factor, sure>>

JustWakeUpAction ==
  /\ CurrentState = "JustWakeUp"
  /\ IF delay_counter < WAKE_UP_DELAY
     THEN delay_counter' = delay_counter + 1 /\ UNCHANGED CurrentState
     ELSE delay_counter' = 0 /\ CurrentState' = "GetGlobalState"
  /\ UNCHANGED <<Factor, sure>>

GetGlobalStateAction ==
  /\ CurrentState = "GetGlobalState"
  /\ Factor' = Collected(Conditions \ {"WakeUpButtonPush"})
  /\ SetCurrentBasicState(PenBasicStateGet(Factor'))
  /\ UNCHANGED delay_counter

(* One call of a handler, from PS_StateJumpDetected to PS_TheEnd: the pen  *)
(* leaves, or stays and PS_Get makes it certain of the state.              *)
StateHandle(state, certain) ==
  /\ CurrentState = state
  /\ Factor' = Collected(Asked(state))
  /\ LET next == PenBasicStateGetUnderCertainState(state, Factor')
     IN  IF next = state THEN sure' = sure \cup certain /\ UNCHANGED CurrentState
                         ELSE SetCurrentBasicState(next)
  /\ UNCHANGED delay_counter

\* A handler that is sure begins at PS_Config, which keeps the pen as it is.
Sure(state) == CurrentState = state /\ state \in sure /\ UNCHANGED pen

PenChargeWhenShutDownStateHandle == StateHandle("ChargeWhenShutDown", {})
PenDisconnectedStateHandle       == StateHandle("DisConnected", {})
PenConnectedStateHandle          == StateHandle("Connected", {})
PenQuietStateHandle ==
  \/ Sure("Quiet")
  \/ "Quiet" \notin sure /\ StateHandle("Quiet", {"Quiet"})
PenShutDownStateHandle ==
  \/ Sure("GoingToShutDown")
  \/ "GoingToShutDown" \notin sure /\ StateHandle("GoingToShutDown", {"GoingToShutDown"})

PenBasicStateHandle == \/ JustWakeUpAction
                       \/ GetGlobalStateAction
                       \/ PenChargeWhenShutDownStateHandle
                       \/ PenDisconnectedStateHandle
                       \/ PenConnectedStateHandle
                       \/ PenShutDownStateHandle
                       \/ PenQuietStateHandle

\* A slip: being sure outlives the restart.
StillSure == /\ CurrentState' = "JustWakeUp" /\ delay_counter' = 0
             /\ UNCHANGED sure
             /\ Factor' = IF "PenCharge" \in sensed
                          THEN Factor \cup {"ChargeWhenShutDown"}
                          ELSE Factor \ {"ChargeWhenShutDown"}

\* With PenStateInit: the charger has woken up the pen if it is in now.
AllPeripheralInit == /\ CurrentState' = "JustWakeUp" /\ delay_counter' = 0
                     /\ sure' = {}
                     /\ Factor' = IF "PenCharge" \in sensed
                                  THEN Factor \cup {"ChargeWhenShutDown"}
                                  ELSE Factor \ {"ChargeWhenShutDown"}
=============================================================================
