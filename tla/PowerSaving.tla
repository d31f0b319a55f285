---------------------------- MODULE PowerSaving -----------------------------
(***************************************************************************)
(* The bench of TB_PowerSaving: timer1_callback runs one line of a script, *)
(* whose functions (PowerSaving.c) move the world about the pen, and then  *)
(* the tick of the pen, which a script can lock out.  The script is the    *)
(* one PowerSaving.c and PenState.c end with.  The sums of random numbers  *)
(* that move link, charger and magnet are left open: such a condition may  *)
(* come, go or stay.                                                       *)
(***************************************************************************)
EXTENDS PenState, Sequences

CONSTANT Numbers    \* bound: the random numbers that are drawn

ASSUME PowerSavingAssumption == /\ Numbers \subseteq Nat
                                /\ \E n \in Numbers : n \in 1 .. 10

VARIABLES isUserAppLocked, line, turn, random_num, loop

bench == <<isUserAppLocked, line, turn, random_num, loop>>
vars  == <<pen, sensed, bench>>

Command(function, condition, aa, bb, param) ==
  [function |-> function, condition |-> condition,
   aa |-> aa, bb |-> bb, param |-> param]
Do(function, param)      == Command(function, 0, 1, 1, param)
JumpOn(function, aa, bb, param) == Command(function, 1, aa, bb, param)

Script == << Do("ScriptsFunctionInitial", 0),
             Do("ForNow", 0),
             Do("UserAppLock", 0),
             Do("StartAgain", 0),
             Do("RandomNumberGenerator", 20),
             Do("UserShutDown", 0),
             Do("PenMove", 0),
             Do("BleState", 0),
             Do("PenCharge", 100),
             Do("PenPower", 0),
             Do("Magnetic", 0),
             JumpOn("DoesPowerOff", 14, 13, 0),
             JumpOn("UserAppUnlock", 5, 13, 0),
             Do("UserAppLock", 0),
             Do("PowerOff", 0),
             Do("RandomNumberGenerator", 10),
             Do("QuickPenCharge", 8),
             Do("QuickMagnetic", 0),
             Do("PenPower", 0),
             JumpOn("LoopSpecificTimes", 21, 20, 5),
             JumpOn("UserAppUnlock", 4, 21, 0) >>

Reader == INSTANCE ScriptProgram WITH program <- Script, at <- line, answer <- FALSE

TypeOK == /\ PenTypeOK
          /\ isUserAppLocked \in BOOLEAN
          /\ line \in DOMAIN Script
          /\ turn \in {"script", "pen"}
          /\ random_num \in Numbers \cup {0}
          /\ loop \in 0 .. 4

\* The first call of the reader does not come to a line.
Init == /\ PenInit
        /\ isUserAppLocked = FALSE
        /\ line = 1 /\ turn = "pen"
        /\ random_num = 0 /\ loop = 0

-----------------------------------------------------------------------------
\* CallFunction on a line of the script and what it answers.
Call(function, ok) ==
  /\ turn = "script" /\ Script[line].function = function
  /\ turn' = "pen"
  /\ line' = Reader!Following(Script[line], line, ok)

World(function) == /\ Call(function, TRUE)
                   /\ UNCHANGED <<pen, isUserAppLocked, random_num, loop>>

Switched(condition, on) == IF on THEN sensed \cup {condition} ELSE sensed \ {condition}

ScriptsFunctionInitial ==
  /\ Call("ScriptsFunctionInitial", TRUE)
  /\ random_num' = 0 /\ loop' = 0
  /\ UNCHANGED <<pen, sensed, isUserAppLocked>>

ForNow == World("ForNow") /\ sensed' = {"PenMove"}

UserAppLock == /\ Call("UserAppLock", TRUE)
               /\ isUserAppLocked' = TRUE
               /\ UNCHANGED <<pen, sensed, random_num, loop>>

UserAppUnlock == /\ Call("UserAppUnlock", TRUE)
                 /\ isUserAppLocked' = FALSE
                 /\ UNCHANGED <<pen, sensed, random_num, loop>>

StartAgain ==
  /\ Call("StartAgain", TRUE)
  /\ sensed' = (sensed \cap {"PenCharge", "NearMagnetic"}) \cup {"PenMove"}
  /\ AllPeripheralInit
  /\ UNCHANGED <<isUserAppLocked, random_num, loop>>

RandomNumberGenerator ==
  /\ Call("RandomNumberGenerator", TRUE)
  /\ random_num' \in {n \in Numbers : n \in 1 .. Script[line].param}
  /\ UNCHANGED <<pen, sensed, isUserAppLocked, loop>>

UserShutDownGenerator ==
  /\ World("UserShutDown")
  /\ sensed' = (sensed \ {"UserShutDown", "WakeUpButtonPush"})
                 \cup (IF random_num = 20 THEN {"UserShutDown"} ELSE {})
                 \cup (IF random_num % 2 = 0 /\ random_num < 10
                       THEN {"WakeUpButtonPush"} ELSE {})

Still == random_num % 4 = 0 \/ random_num % 6 = 0
PenMoveStateGenerator ==
  /\ World("PenMove")
  /\ sensed' = IF Still THEN sensed \ {"PenMove"}
               ELSE IF random_num % 3 = 0 \/ random_num % 5 = 0
                    THEN sensed \cup {"PenMove"} ELSE sensed

BleStateGenerator ==
  /\ World("BleState")
  /\ sensed' \in {sensed} \cup {Switched("BleConnected", on) : on \in BOOLEAN}

ChargeToggled == Switched("PenCharge", "PenCharge" \notin sensed)
PenChargeStateGenerator == World("PenCharge") /\ sensed' \in {sensed, ChargeToggled}

QuickPenChargeStateGenerator ==
  /\ World("QuickPenCharge")
  /\ sensed' = IF random_num >= Script[line].param THEN ChargeToggled ELSE sensed

PenDistanceFromMagneticGenerator ==
  /\ World("Magnetic")
  /\ sensed' \in {sensed} \cup {Switched("NearMagnetic", on) : on \in BOOLEAN}

QuickPenDistanceFromMagneticGenerator ==
  /\ World("QuickMagnetic")
  /\ sensed' = Switched("NearMagnetic", random_num % 4 = 0)

\* Both of them set isPowerLow, which is left out.
PenPowerStateGenerator == World("PenPower") /\ UNCHANGED sensed

\* A slip: only a pen that shuts down is switched off.
AsksShutDownOnly == /\ Call("DoesPowerOff", "GoingToShutDown" \in sure)
                    /\ UNCHANGED <<pen, sensed, isUserAppLocked, random_num, loop>>
DoesPowerOff == /\ Call("DoesPowerOff", sure # {})
                /\ UNCHANGED <<pen, sensed, isUserAppLocked, random_num, loop>>

PowerOff == /\ Call("PowerOff", TRUE)
            /\ sure' = {}
            /\ sensed' = sensed \ {"UserShutDown"}
            /\ UNCHANGED <<CurrentState, delay_counter, Factor,
                           isUserAppLocked, random_num, loop>>

LoopSpecificTimes ==
  LET last == loop + 1 >= Script[line].param
  IN  /\ Call("LoopSpecificTimes", last)
      /\ loop' = IF last THEN 0 ELSE loop + 1
      /\ UNCHANGED <<pen, sensed, isUserAppLocked, random_num>>

CallFunction ==
  \/ ScriptsFunctionInitial \/ ForNow \/ UserAppLock \/ UserAppUnlock
  \/ StartAgain \/ RandomNumberGenerator \/ UserShutDownGenerator
  \/ PenMoveStateGenerator \/ BleStateGenerator \/ PenChargeStateGenerator
  \/ QuickPenChargeStateGenerator \/ PenDistanceFromMagneticGenerator
  \/ QuickPenDistanceFromMagneticGenerator \/ PenPowerStateGenerator
  \/ DoesPowerOff \/ PowerOff \/ LoopSpecificTimes

onTick == /\ turn = "pen"
          /\ turn' = "script"
          /\ IF isUserAppLocked THEN UNCHANGED pen ELSE PenBasicStateHandle
          /\ UNCHANGED <<sensed, isUserAppLocked, line, random_num, loop>>

\* timer1_callback
Next == CallFunction \/ onTick

Spec == Init /\ [][Next]_vars

\* The timer thread calls timer1_callback over and over.
FairSpec == Spec /\ WF_vars(Next)

-----------------------------------------------------------------------------
(* A pen is sure of the state it is in and of no other, so DoesPowerOff    *)
(* never takes an old pen for the one that has started again.              *)
SureIsThere == sure \subseteq {CurrentState}

(* A pen that is awake begins to shut down exactly when the user or a      *)
(* magnet says so at that very tick, whichever state it was in and         *)
(* whatever it had collected before; and nothing but a restart brings it   *)
(* back.                                                                   *)
Obeys == turn = "pen" /\ ~isUserAppLocked /\ CurrentState \in Awake /\ sure = {}
BeginsToEnd == Obeys => (CurrentState' = "GoingToShutDown" <=> Ends(sensed))
EndsForGood == CurrentState = "GoingToShutDown"
                 => CurrentState' = "GoingToShutDown" \/ StartAgain
EndsWhenTold == [][BeginsToEnd /\ EndsForGood]_vars

(* The bench goes round: a pen that is sure is switched off and started    *)
(* again, and one that has started comes to a state of its own.            *)
BenchGoesRound == /\ sure # {} ~> CurrentState = "JustWakeUp"
                  /\ CurrentState \in Booting ~> CurrentState \notin Booting
=============================================================================
