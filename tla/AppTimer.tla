------------------------------ MODULE AppTimer ------------------------------
(***************************************************************************)
(* The software timers of IrqAndTimer/app_timer.c.  main creates the       *)
(* timers, AppTimerModuleStart takes the least common multiple of their    *)
(* dividers as the wrap point of one shared counter, and the thread of     *)
(* user_irq.c, the program's stand-in for a timer interrupt, calls the     *)
(* hook, which counts and runs the callback of every timer whose divider   *)
(* divides the counter.  main may stop and start timers, and lock the      *)
(* hook out, at any moment, also while the hook is walking the timers.     *)
(***************************************************************************)
EXTENDS SequencesExt

CONSTANTS Dividers,      \* the intervals timers are created with
          MaxTimers,     \* how many timers a program creates at most
          Limit,         \* MAX_TIME_SCOPE_IN_MS
          MaxLocks       \* bound: how often the hook is locked out

ASSUME AppTimerAssumption == /\ Dividers \subseteq Nat \ {0}
                             /\ MaxTimers \in Nat \ {0, 1}
                             /\ Limit \in Nat /\ \A d \in Dividers : d < Limit
                             /\ MaxLocks \in Nat

VARIABLES phase,             \* how far main() has come
          divider, started,  \* the entries of pEntryBuf, in order of creation
          isTimerStart, isTimerLocked, isTimerJustBegin,
          counter, threshold,
          pos,               \* the timer the hook looks at next, 0 outside it
          locks,             \* AppTimerLocked calls so far
          age                \* history: hooks since the timer's last callback,
                             \* Unknown when it was stopped or never ran

entries == <<divider, started>>
module  == <<isTimerStart, isTimerJustBegin, counter, threshold>>
vars    == <<phase, entries, module, isTimerLocked, pos, locks, age>>

Timers  == 1 .. Len(divider)
Unknown == Limit

TypeOK == /\ phase \in {"config", "ready", "running"}
          /\ divider \in BoundedSeq(Dividers, MaxTimers)
          /\ started \in [Timers -> BOOLEAN]
          /\ age \in [Timers -> 0 .. Limit]
          /\ {isTimerStart, isTimerLocked, isTimerJustBegin} \subseteq BOOLEAN
          /\ threshold \in 0 .. Limit
          /\ counter \in 0 .. IF threshold = 0 THEN 1 ELSE threshold
          /\ pos \in 0 .. Len(divider)
          /\ locks \in 0 .. MaxLocks

\* AppTimerInit, at the head of AppTimerModuleStart
Init == /\ phase = "config"
        /\ divider = << >> /\ started = << >> /\ age = << >>
        /\ isTimerStart = FALSE /\ isTimerLocked = FALSE
        /\ isTimerJustBegin = FALSE
        /\ counter = 0 /\ threshold = 0
        /\ pos = 0 /\ locks = 0

\* AppTimerCreated; start says whether timer_config starts it at once.
Create(d, start) ==
  /\ phase = "config"
  /\ Len(divider) < MaxTimers
  /\ divider' = Append(divider, d)
  /\ started' = Append(started, start)
  /\ age' = Append(age, Unknown)
  /\ UNCHANGED <<phase, module, isTimerLocked, pos, locks>>

-----------------------------------------------------------------------------
\* A slip: the product in place of the least common multiple.
ProductOfTwo(m, n) == IF m * n < Limit THEN m * n ELSE 0

(* GetLcmBetweenTwoNumber tries the numbers from m up to the limit; 0 when *)
(* none is a multiple of both.                                             *)
LcmOfTwo(m, n) ==
  LET common == {t \in m .. Limit - 1 : t % m = 0 /\ t % n = 0}
  IN  IF m = 0 \/ common = {} THEN 0 ELSE Min(common)

(* GetLCM: the multiple of the first i dividers; once there is none it     *)
(* gives up with 0.                                                        *)
GetLCM(ds) ==
  LET Pre_Result[i \in 1 .. Len(ds)] ==
        IF i = 1 THEN ds[1] ELSE LcmOfTwo(Pre_Result[i - 1], ds[i])
  IN  Pre_Result[Len(ds)]

\* The rest of AppTimerModuleStart, once the timers are there.
Started(ok, t) ==
  /\ isTimerStart' = ok
  /\ threshold' = t
  /\ IF ok THEN isTimerJustBegin' = TRUE /\ counter' = t
           ELSE UNCHANGED <<isTimerJustBegin, counter>>
  /\ phase' = "ready"
  /\ UNCHANGED <<entries, isTimerLocked, pos, locks, age>>

ModuleStart ==
  /\ phase = "config" /\ Len(divider) >= 2
  /\ Started(GetLCM(divider) # 0, GetLCM(divider))

(* With fewer than two timers GetLCM's loop does not run and it answers    *)
(* two variables it never wrote: any answer, any threshold.                *)
ModuleStartUnwritten ==
  /\ phase = "config" /\ Len(divider) < 2
  /\ \E ok \in BOOLEAN, t \in 0 .. Limit : Started(ok, t)

\* StartTimer: from here on the timer thread calls the hook.
StartTimer == /\ phase = "ready"
              /\ phase' = "running"
              /\ UNCHANGED <<entries, module, isTimerLocked, pos, locks, age>>

-----------------------------------------------------------------------------
HookReturns == /\ phase = "running" /\ pos = 0
               /\ isTimerLocked \/ ~isTimerStart
               /\ UNCHANGED vars

\* Slips of the wrap and of the walk.
CountWhileLocked ==
  /\ phase = "running" /\ pos = 0 /\ isTimerStart
  /\ counter' = IF counter < threshold THEN counter + 1
                ELSE IF isTimerJustBegin THEN 0 ELSE 1
  /\ isTimerJustBegin' = FALSE
  /\ IF isTimerLocked
     THEN UNCHANGED <<pos, age>>
     ELSE /\ pos' = IF Timers = {} THEN 0 ELSE 1
          /\ age' = [i \in Timers |-> IF age[i] < Unknown THEN age[i] + 1
                                                          ELSE Unknown]
  /\ UNCHANGED <<phase, entries, isTimerStart, threshold, isTimerLocked, locks>>

WrapTooLate ==
  /\ phase = "running" /\ pos = 0 /\ ~isTimerLocked /\ isTimerStart
  /\ counter' = IF counter <= threshold THEN counter + 1 ELSE 1
  /\ isTimerJustBegin' = FALSE
  /\ pos' = IF Timers = {} THEN 0 ELSE 1
  /\ age' = [i \in Timers |-> IF age[i] < Unknown THEN age[i] + 1 ELSE Unknown]
  /\ UNCHANGED <<phase, entries, isTimerStart, threshold, isTimerLocked, locks>>

\* AppTimerHook up to the loop: the counter moves.
HookCounts ==
  /\ phase = "running" /\ pos = 0
  /\ ~isTimerLocked /\ isTimerStart
  /\ IF counter >= threshold
     THEN IF isTimerJustBegin THEN counter' = 0 ELSE counter' = 1
     ELSE counter' = counter + 1
  /\ isTimerJustBegin' = IF counter >= threshold THEN FALSE
                                                 ELSE isTimerJustBegin
  /\ pos' = IF Timers = {} THEN 0 ELSE 1
  /\ age' = [i \in Timers |-> IF age[i] < Unknown THEN age[i] + 1 ELSE Unknown]
  /\ UNCHANGED <<phase, entries, isTimerStart, threshold, isTimerLocked, locks>>

Due(i) == started[i] /\ counter % divider[i] = 0

\* A slip: the walk ends at the first timer that is stopped.
WalkEndsAtStopped ==
  /\ pos # 0
  /\ age' = IF Due(pos) THEN [age EXCEPT ![pos] = 0] ELSE age
  /\ pos' = IF pos = Len(divider) \/ ~started[pos] THEN 0 ELSE pos + 1
  /\ UNCHANGED <<phase, entries, module, isTimerLocked, locks>>

\* One turn of the loop; the callback is a matter of other modules.
HookLooks ==
  /\ pos # 0
  /\ age' = IF Due(pos) THEN [age EXCEPT ![pos] = 0] ELSE age
  /\ pos' = IF pos = Len(divider) THEN 0 ELSE pos + 1
  /\ UNCHANGED <<phase, entries, module, isTimerLocked, locks>>

-----------------------------------------------------------------------------
\* AppTimerStart and AppTimerStop, by main or by a callback.
Start(i) == /\ phase = "running" /\ ~started[i]
            /\ started' = [started EXCEPT ![i] = TRUE]
            /\ UNCHANGED <<phase, divider, module, isTimerLocked, pos, locks, age>>

Stop(i) == /\ phase = "running" /\ started[i]
           /\ started' = [started EXCEPT ![i] = FALSE]
           /\ age' = [age EXCEPT ![i] = Unknown]
           /\ UNCHANGED <<phase, divider, module, isTimerLocked, pos, locks>>

Lock == /\ phase = "running" /\ locks < MaxLocks
        /\ isTimerLocked' = TRUE /\ locks' = locks + 1
        /\ UNCHANGED <<phase, entries, module, pos, age>>

Unlock == /\ isTimerLocked
          /\ isTimerLocked' = FALSE
          /\ UNCHANGED <<phase, entries, module, pos, locks, age>>

Next == \/ \E d \in Dividers, start \in BOOLEAN : Create(d, start)
        \/ ModuleStart
        \/ ModuleStartUnwritten
        \/ StartTimer
        \/ HookReturns
        \/ HookCounts
        \/ HookLooks
        \/ \E i \in Timers : Start(i) \/ Stop(i)
        \/ Lock
        \/ Unlock

Spec == Init /\ [][Next]_vars

(* The timer thread never stops and main leaves the sections it enters.    *)
FairSpec == Spec /\ WF_vars(HookCounts) /\ WF_vars(HookLooks)
                 /\ WF_vars(Unlock) /\ WF_vars(StartTimer)

-----------------------------------------------------------------------------
(* The module is at work, and on a threshold GetLCM has written. *)
Counting == phase # "config" /\ isTimerStart /\ Len(divider) >= 2

(* The wrap point is the least common multiple of all the dividers, and    *)
(* the module refuses to start exactly when that reaches the limit.        *)
Multiples == {t \in 1 .. Limit - 1 : \A i \in Timers : t % divider[i] = 0}
ThresholdIsLcm ==
  phase # "config" /\ Len(divider) >= 2 =>
    /\ isTimerStart <=> Multiples # {}
    /\ isTimerStart => threshold = Min(Multiples)

(* A timer that stays started is never late: between two of its callbacks  *)
(* lie at most divider hooks, also across the wrap of the counter and      *)
(* across hooks that were locked out.                                      *)
NeverLate ==
  Counting => \A i \in Timers : age[i] # Unknown => age[i] <= divider[i]

(* Nor is it early: a callback comes exactly divider hooks after the last. *)
NeverEarly ==
  [][Counting /\ pos # 0 /\ HookLooks /\ Due(pos) /\ age[pos] # Unknown
       => age[pos] = divider[pos]]_vars

(* A timer that is started for good runs for ever. *)
StartedRuns ==
  \A i \in 1 .. MaxTimers :
    <>[](Counting /\ i \in Timers /\ started[i])
      => []<>(i \in Timers /\ age[i] = 0)
=============================================================================
