---------------------------- MODULE ButtonLength ----------------------------
(***************************************************************************)
(* ButtonModule with what the finger does during a long push.  The length  *)
(* told with its release (LongPushLastCycle) is printed as the time the    *)
(* long push lasted.  The history here counts the samples for which it     *)
(* went on without a break after it was told, and nothing else: a length   *)
(* of the push is no shorter, from wherever it is counted.                 *)
(***************************************************************************)
EXTENDS ButtonModule

VARIABLES unbroken,   \* history: buttons down ever since their long push
          lasted      \* history: samples they were down since it was told

lengthVars == <<vars, unbroken, lasted>>

LengthInit == Init /\ unbroken = {} /\ lasted = [b \in Buttons |-> 0]

Lengthen(down) ==
  /\ unbroken' = (unbroken \cup Flagged("longpush")) \cap down
  /\ lasted' = [b \in Buttons |->
                  IF b \in Flagged("longpush") THEN 0
                  ELSE IF b \in unbroken \cap down THEN CountUp(lasted[b])
                  ELSE lasted[b]]

LengthNext ==
  \E down \in SUBSET Buttons : ButtonStateMonitor(down) /\ Lengthen(down)

LengthSpec == LengthInit /\ [][LengthNext]_lengthVars

(* The length told with the release of a long push is that of the push:    *)
(* Button.c:75-78 prints it as "Button One LongPush Release; last %d ms :  *)
(* %d + %d", the time to the long push and the time after it.              *)
LengthOfPush ==
  [][\A b \in report'["longpushrelease"] : latest[b] >= lasted[b]]_lengthVars
=============================================================================
