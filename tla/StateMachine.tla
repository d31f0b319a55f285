---------------------------- MODULE StateMachine ----------------------------
(***************************************************************************)
(* StateMachineRun of StateMachine.c.  In each state a list of hops is     *)
(* asked in turn until one leads to another state; a run makes at most a   *)
(* fixed number of hops.  The states that hops lead to are not checked     *)
(* where they are taken from the table or from the hop itself, but where   *)
(* the next hop, or the next run, begins.  One step is one question, so    *)
(* that StateMachineStateSet may come in between.                          *)
(***************************************************************************)
EXTENDS Naturals, Sequences

CONSTANTS AllStateNum, MaxHopTimes,
          MAX_STATE_NUMBER,        \* 20
          USE_VARIABLE_STATE_FLAG, \* 16rff
          StateNumber,             \* 0 .. 255
          p_hop  \* the hops of each state: whether there is an onHop, and the
                 \* next states.  No hops stands for none declared.

DEFAULT_STATE_NUMBER == 0
State == 0 .. AllStateNum - 1
Hop   == [onHop : BOOLEAN, NextStateWhenTrue : StateNumber,
          NextStateWhenFalse : StateNumber]

\* What the code needs of a table; it does not check the hops themselves.
TableGiven == /\ AllStateNum \in Nat \ {0} /\ MaxHopTimes \in Nat \ {0}
              /\ MAX_STATE_NUMBER \in Nat /\ AllStateNum <= MAX_STATE_NUMBER
              /\ StateNumber \subseteq Nat /\ State \subseteq StateNumber
              /\ p_hop \in [State -> Seq(Hop)]

VARIABLES stored,        \* *p_CurrentStateNum
          running,
          current_state,
          j, i,          \* the hop of the run and the question of the hop, from 1
          answer         \* of the last run

vars == <<stored, running, current_state, j, i, answer>>

Init == /\ stored = DEFAULT_STATE_NUMBER
        /\ running = FALSE
        /\ current_state = DEFAULT_STATE_NUMBER
        /\ j = 1 /\ i = 1
        /\ answer = "none"

Ended(state, result) == /\ running' = FALSE
                        /\ stored' = state
                        /\ answer' = result
                        /\ UNCHANGED <<current_state, j, i>>

\* The checks at the beginning of a hop.
BeginHop(state, count) ==
  IF state \in State /\ p_hop[state] # <<>>
  THEN /\ running' = TRUE
       /\ current_state' = state
       /\ j' = count /\ i' = 1
       /\ UNCHANGED <<stored, answer>>
  ELSE Ended(DEFAULT_STATE_NUMBER, "APP_ERROR")

Start == /\ ~running
         /\ IF stored > MAX_STATE_NUMBER
            THEN Ended(DEFAULT_STATE_NUMBER, "APP_BEYOND_SCOPE")
            ELSE BeginHop(stored, 1)

\* DoesBreak is the caller's; without one every run ends here.
EndHop(state) == \/ Ended(state, "APP_SUCCESSED")
                 \/ j < MaxHopTimes /\ BeginHop(state, j + 1)

NextQuestion == /\ i < Len(p_hop[current_state])
                /\ i' = i + 1
                /\ UNCHANGED <<stored, running, current_state, j, answer>>

Stays == \/ NextQuestion
         \/ i = Len(p_hop[current_state]) /\ EndHop(current_state)

\* Where the question leads; own is what onHop leaves in p_smp.
Leads(own) ==
  LET hop == p_hop[current_state][i]
  IN  {IF next = USE_VARIABLE_STATE_FLAG THEN own ELSE next :
         next \in {hop.NextStateWhenTrue, hop.NextStateWhenFalse}}

Ask == /\ running
       /\ IF p_hop[current_state][i].onHop
          THEN \E own \in StateNumber : \E next \in Leads(own) :
                 IF next = current_state THEN Stays ELSE EndHop(next)
          ELSE Stays

\* Also in a run, from a callback or an interrupt: the end of the run wins.
StateMachineStateSet(state) == /\ stored' = state
                               /\ UNCHANGED <<running, current_state, j, i, answer>>

Next == Start \/ Ask \/ \E state \in StateNumber : StateMachineStateSet(state)
Spec == Init /\ [][Next]_vars

-----------------------------------------------------------------------------
TypeOK == /\ stored \in StateNumber
          /\ running \in BOOLEAN
          /\ current_state \in State
          /\ j \in 1 .. MaxHopTimes
          /\ i \in Nat \ {0}
          /\ answer \in {"none", "APP_SUCCESSED", "APP_ERROR", "APP_BEYOND_SCOPE"}

(* Whatever the table leads to and whoever sets the state, a run asks only *)
(* hops that are there, of states of the table.                            *)
InTable == running => current_state \in State /\ i \in 1 .. Len(p_hop[current_state])
=============================================================================
