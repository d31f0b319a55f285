------------------------- MODULE SimpleStateMachine -------------------------
(***************************************************************************)
(* SimpleStateMachineRun of StateMachine.c: in each state one action that  *)
(* answers the next state.  Unlike StateMachineRun it checks a state when  *)
(* the action answers it and never when a run begins, beyond the limit for *)
(* all machines: it relies on what is stored.  One step is one hop.        *)
(***************************************************************************)
EXTENDS Naturals

CONSTANTS AllStateNum, MaxHopTimes,
          MAX_STATE_NUMBER,  \* 20
          StateNumber,       \* 0 .. 255
          p_Action           \* the states that have an action

DEFAULT_STATE_NUMBER == 0
State == 0 .. AllStateNum - 1

\* MaxHopTimes may be 0: then a run does nothing.
TableGiven == /\ AllStateNum \in Nat \ {0} /\ MaxHopTimes \in Nat
              /\ MAX_STATE_NUMBER \in Nat /\ AllStateNum <= MAX_STATE_NUMBER
              /\ StateNumber \subseteq Nat /\ State \subseteq StateNumber

VARIABLES stored,         \* *p_CurrentStateNum
          running,
          current_state,
          i,              \* hops of the run so far
          answer          \* of the last run

vars == <<stored, running, current_state, i, answer>>

Init == /\ stored = DEFAULT_STATE_NUMBER
        /\ running = FALSE
        /\ current_state = DEFAULT_STATE_NUMBER
        /\ i = 0
        /\ answer = "none"

Ended(state, result) == /\ running' = FALSE
                        /\ stored' = state
                        /\ answer' = result

Start ==
  /\ ~running
  /\ IF stored > MAX_STATE_NUMBER
     THEN Ended(DEFAULT_STATE_NUMBER, "APP_BEYOND_SCOPE") /\ UNCHANGED <<current_state, i>>
     ELSE /\ running' = TRUE
          /\ current_state' = stored
          /\ i' = 0
          /\ UNCHANGED <<stored, answer>>

\* The loop is over, or DoesBreak says so, or there is no DoesBreak.
Finish(state) == Ended(state, "APP_SUCCESSED")

NoMoreHops == /\ running /\ i = MaxHopTimes
              /\ Finish(current_state)
              /\ UNCHANGED <<current_state, i>>

(* The state of a hop is stored before its action runs, so that the action *)
(* and whoever interrupts it can see it.                                   *)
Answers(next) ==
  /\ i' = i + 1
  /\ IF next \in State
     THEN /\ current_state' = next
          /\ \/ stored' = current_state /\ UNCHANGED <<running, answer>>
             \/ Finish(next)
     ELSE Ended(DEFAULT_STATE_NUMBER, "APP_ERROR") /\ UNCHANGED current_state

Act == /\ running /\ i < MaxHopTimes /\ current_state \in p_Action
       /\ \E next \in StateNumber : Answers(next)

NoAction == /\ running /\ i < MaxHopTimes /\ current_state \notin p_Action
            /\ i' = i + 1
            /\ UNCHANGED current_state
            /\ \/ UNCHANGED <<stored, running, answer>>
               \/ Finish(current_state)

(* SimpleStateMachineStateSet, and ResetNotifyEventState which stores a    *)
(* state itself, at any time: a run that is under way overwrites it.       *)
SimpleStateMachineStateSet(state) ==
  stored' = state /\ UNCHANGED <<running, current_state, i, answer>>

Next == \/ Start \/ Act \/ NoAction \/ NoMoreHops
        \/ \E state \in State : SimpleStateMachineStateSet(state)
Spec == Init /\ [][Next]_vars

-----------------------------------------------------------------------------
TypeOK == /\ stored \in State
          /\ running \in BOOLEAN
          /\ current_state \in State
          /\ i \in 0 .. MaxHopTimes
          /\ answer \in {"none", "APP_SUCCESSED", "APP_ERROR", "APP_BEYOND_SCOPE"}

(* The check at the start never refuses: the state stored is always one of *)
(* the table, also while a run is interrupted.                             *)
NeverBeyondScope == answer # "APP_BEYOND_SCOPE"
=============================================================================
