---------------------------- MODULE ButtonModule ----------------------------
(***************************************************************************)
(* ButtonModule.c: one state machine per button tells clicks, double       *)
(* clicks and long pushes from the samples ButtonStateMonitor takes.  A    *)
(* monitor call runs one action of every button's machine, which sees the  *)
(* counters of the samples before, then counts the new sample, and at last *)
(* reports the gestures of all buttons.  Thresholds are in samples.  What  *)
(* is told as the length of a long push (LongPushLastCycle) is what latest *)
(* holds of the button when the release is told.                           *)
(***************************************************************************)
EXTENDS Naturals

CONSTANTS ButtonNumber,
          ClickTimeThreshold, ReleaseTimeThreshold,
          LongPushTimeThreshold, ReleaseAllTimeThreshold,
          CounterMax                  \* TIMER_COUNTER_MAX

(* The order of the defaults, 100, 40, 1000 and 80 ms; a sample every 3 ms *)
(* makes each of them many samples.                                        *)
ASSUME ButtonAssumption ==
  /\ ButtonNumber \in Nat \ {0}
  /\ {ClickTimeThreshold, ReleaseTimeThreshold, LongPushTimeThreshold,
      ReleaseAllTimeThreshold, CounterMax} \subseteq Nat \ {0}
  /\ ReleaseTimeThreshold < ReleaseAllTimeThreshold
  /\ ReleaseAllTimeThreshold <= ClickTimeThreshold
  /\ ClickTimeThreshold < LongPushTimeThreshold
  /\ LongPushTimeThreshold <= CounterMax

VARIABLES state, push, release,   \* of every button
          latest,                 \* latest_push_time_counter_backup
          value,                  \* the buttons down in the last sample
          report,                 \* history: the callbacks of the last call
          held,                   \* history: samples the button is down now
          wasLong,                \* history: the contact before was long
          presses,                \* history: full presses since a report
          longHeld,               \* history: held for long since a report
          open                    \* history: long pushes not yet released

machine == <<state, push, release, latest, value>>
history == <<report, held, wasLong, presses, longHeld, open>>
vars    == <<machine, history>>

Buttons == 0 .. ButtonNumber - 1
States  == {"Init", "Start", "ClickDetect", "LongPushDetect", "SureLongPush",
            "LongPushReleaseDetect", "SureLongPushRelease",
            "ClickReleaseDetect", "DoubleClickDetect", "SureClick",
            "SureDoubleClick"}
Gestures == {"click", "doubleclick", "longpush", "longpushrelease"}

TypeOK == /\ state \in [Buttons -> States]
          /\ push \in [Buttons -> 0 .. CounterMax]
          /\ release \in [Buttons -> 0 .. CounterMax]
          /\ latest \in [Buttons -> 0 .. CounterMax]
          /\ value \subseteq Buttons
          /\ report \in [Gestures -> SUBSET Buttons]
          /\ held \in [Buttons -> 0 .. LongPushTimeThreshold]
          /\ presses \in [Buttons -> 0 .. 2]
          /\ wasLong \cup longHeld \subseteq Buttons /\ open \subseteq Buttons

\* The static objects of CUSTOM_BUTTON_MONITOR_DEF.
Init == /\ state = [b \in Buttons |-> "Init"]
        /\ push = [b \in Buttons |-> 0] /\ release = [b \in Buttons |-> 0]
        /\ latest = [b \in Buttons |-> 0]
        /\ value = {}
        /\ report = [g \in Gestures |-> {}]
        /\ held = [b \in Buttons |-> 0] /\ wasLong = {}
        /\ presses = [b \in Buttons |-> 0]
        /\ longHeld = {} /\ open = {}

-----------------------------------------------------------------------------
DoesValidPush(b)        == push[b] >= ClickTimeThreshold
DoesValidRelease(b)     == release[b] >= ReleaseTimeThreshold
DoesValidLongPush(b)    == push[b] >= LongPushTimeThreshold
DoesValidLongRelease(b) == release[b] >= ReleaseAllTimeThreshold

(* What an action does: the state it returns, the counters it clears and   *)
(* the flag it sets.                                                       *)
Goto(s)            == [to |-> s, clears |-> {}, flags |-> {}]
Clear(counters, s) == [to |-> s, clears |-> counters, flags |-> {}]
Tell(gesture, s)   == [to |-> s, clears |-> {}, flags |-> {gesture}]

ClickDetect(b) ==
  IF DoesValidPush(b) THEN Clear({"push"}, "LongPushDetect")
  ELSE IF DoesValidLongRelease(b) THEN Goto("Start")
  ELSE Goto("ClickDetect")

LongPushDetect(b) ==
  IF DoesValidLongPush(b) THEN Goto("SureLongPush")
  ELSE IF DoesValidRelease(b) THEN Clear({"release"}, "ClickReleaseDetect")
  ELSE Goto("LongPushDetect")

\* A slip: back to the start without waiting for the release.
LongPushOver(b) == Tell("longpush", "Start")
SureLongPush(b) == Tell("longpush", "LongPushReleaseDetect")

LongPushReleaseDetect(b) ==
  IF DoesValidRelease(b) THEN Goto("SureLongPushRelease")
                         ELSE Goto("LongPushReleaseDetect")

\* A slip: only a second press leads on.
WaitForSecond(b) ==
  IF DoesValidPush(b) THEN Clear({"push"}, "DoubleClickDetect")
  ELSE Goto("ClickReleaseDetect")

ClickReleaseDetect(b) ==
  IF DoesValidLongRelease(b) THEN Goto("SureClick")
  ELSE IF DoesValidPush(b) THEN Clear({"push"}, "DoubleClickDetect")
  ELSE Goto("ClickReleaseDetect")

DoubleClickDetect(b) ==
  IF DoesValidRelease(b) THEN Goto("SureDoubleClick")
  ELSE IF DoesValidLongPush(b) THEN Goto("SureLongPush")
  ELSE Goto("DoubleClickDetect")

\* The table of ButtonStateAction.
Action(b) ==
  CASE state[b] = "Init"        -> Clear({"push", "release"}, "Start")
    [] state[b] = "Start"       -> Goto("ClickDetect")
    [] state[b] = "ClickDetect" -> ClickDetect(b)
    [] state[b] = "LongPushDetect"        -> LongPushDetect(b)
    [] state[b] = "SureLongPush"          -> SureLongPush(b)
    [] state[b] = "LongPushReleaseDetect" -> LongPushReleaseDetect(b)
    [] state[b] = "SureLongPushRelease"   -> Tell("longpushrelease", "Start")
    [] state[b] = "ClickReleaseDetect"    -> ClickReleaseDetect(b)
    [] state[b] = "DoubleClickDetect"     -> DoubleClickDetect(b)
    [] state[b] = "SureClick"             -> Tell("click", "Start")
    [] state[b] = "SureDoubleClick"       -> Tell("doubleclick", "Start")

(* InitAction clears the flags of all buttons, also those set before it in *)
(* the same call.                                                          *)
Flagged(gesture) ==
  {b \in Buttons : /\ gesture \in Action(b).flags
                   /\ \A later \in b + 1 .. ButtonNumber - 1 : state[later] # "Init"}

-----------------------------------------------------------------------------
After(b, counter, n) == IF counter \in Action(b).clears THEN 0 ELSE n
CountUp(n) == IF n >= CounterMax THEN n ELSE n + 1

\* Slips of the counting: no limit; a release leaves the push counter alone.
CountWithoutLimit(down) ==
  /\ push' = [b \in Buttons |->
                IF b \in down THEN After(b, "push", push[b]) + 1 ELSE 0]
  /\ release' = [b \in Buttons |->
                   IF b \in down THEN 0 ELSE CountUp(After(b, "release", release[b]))]

PushesAddUp(down) ==
  /\ push' = [b \in Buttons |-> IF b \in down THEN CountUp(After(b, "push", push[b]))
                                              ELSE After(b, "push", push[b])]
  /\ release' = [b \in Buttons |->
                   IF b \in down THEN 0 ELSE CountUp(After(b, "release", release[b]))]

TimeManager(down) ==
  /\ push' = [b \in Buttons |->
                IF b \in down THEN CountUp(After(b, "push", push[b])) ELSE 0]
  /\ release' = [b \in Buttons |->
                   IF b \in down THEN 0 ELSE CountUp(After(b, "release", release[b]))]

\* Slip: a release saves nothing.
SavedWhenCleared(b, down) ==
  IF state[b] = "Init" THEN 0
  ELSE IF "push" \in Action(b).clears THEN push[b] ELSE latest[b]

(* InitAction clears the saved length; ClearPushCounter saves the counter, *)
(* and so does every release of a button that was down.                    *)
LatestLength(b, down) ==
  IF state[b] = "Init" THEN 0
  ELSE IF "push" \in Action(b).clears \/ (b \notin down /\ push[b] # 0)
       THEN push[b] ELSE latest[b]

\* What the environment saw: the samples as they are and the callbacks.
Observe(down) ==
  LET told == UNION {Flagged(g) : g \in Gestures}
  IN  /\ held' = [b \in Buttons |->
                    IF b \notin down THEN 0
                    ELSE IF held[b] = LongPushTimeThreshold THEN held[b]
                    ELSE held[b] + 1]
      /\ wasLong' = {b \in Buttons :
                      IF b \in down \/ held[b] = 0 THEN b \in wasLong
                      ELSE held[b] = LongPushTimeThreshold}
      /\ presses' = [b \in Buttons |->
           LET before == IF b \in told THEN 0 ELSE presses[b]
           IN  IF held[b] + 1 = ClickTimeThreshold /\ b \in down /\ before < 2
               THEN before + 1 ELSE before]
      /\ longHeld' = (longHeld \ told)
                       \cup {b \in down : held[b] + 1 = LongPushTimeThreshold}
      /\ open' = (open \ Flagged("longpushrelease")) \cup Flagged("longpush")

ButtonStateMonitor(down) ==
  /\ value' = down
  /\ state' = [b \in Buttons |-> Action(b).to]
  /\ TimeManager(down)
  /\ latest' = [b \in Buttons |-> LatestLength(b, down)]
  /\ report' = [g \in Gestures |-> Flagged(g)]
  /\ Observe(down)

Next == \E down \in SUBSET Buttons : ButtonStateMonitor(down)

Spec == Init /\ [][Next]_vars

\* The monitor is called from a repeated timer.
FairSpec == Spec /\ WF_vars(Next)

-----------------------------------------------------------------------------
(* Between a long push and its release nothing else is told of a button,   *)
(* and no release is told of a button without a long push.                 *)
GesturesInTurn ==
  [][/\ (report'["click"] \cup report'["doubleclick"] \cup report'["longpush"])
            \cap open = {}
     /\ report'["longpushrelease"] \subseteq open]_vars

(* Bounces never add up: a click takes a full press of its button since    *)
(* the last report, a double click two, a long push one long one.          *)
EveryReportEarned ==
  [][/\ \A b \in report'["click"] : presses[b] >= 1
     /\ \A b \in report'["doubleclick"] : presses[b] = 2
     /\ report'["longpush"] \subseteq longHeld]_vars

(* When the contact of a long push, or one behind it, was long and no      *)
(* shorter one followed, a long length is told with the release, never the *)
(* one saved at the click before.  What is told when the contact bounces   *)
(* at the end is the question of ButtonLength.                             *)
LongToldLong ==
  [][\A b \in report'["longpushrelease"] \cap wasLong :
       latest[b] >= LongPushTimeThreshold]_vars

(* Nor is a press lost: when a button is let go for good, every full press *)
(* has been answered and every long push has had its release.              *)
SilentIsSettled ==
  \A b \in Buttons :
    <>[](b \notin value) => <>[](presses[b] = 0 /\ b \notin open)
=============================================================================
