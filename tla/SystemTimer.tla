----------------------------- MODULE SystemTimer -----------------------------
(***************************************************************************)
(* The timer thread of user_irq.c and the list of timers it serves before  *)
(* it calls TIMER_HOOK.  The thread runs beside main without a lock, so a  *)
(* hook is cut between what it reads of a timer and what it does about it, *)
(* and a creation between the list and the fields of the new entry.  A     *)
(* timer fires when its counter EQUALS its divider: one that got past it   *)
(* would count through all 32 bits before it fires again.                  *)
(***************************************************************************)
EXTENDS Naturals, Sequences

CONSTANTS Entries,      \* one for each SYS_TIMER_DEF
          MAX_SYS_TIMER_ENTRY_NUMBER,
          Intervals,    \* those accepted: all of uint32_t but 16rffffffff
          None

VARIABLES isTimerStart, \* of the thread
          pEntryBuf,    \* its length is current_entry_number
          divider, current_counter,
          running,      \* the entries whose own isTimerStart is set
          creating,     \* the entry main has linked and not yet filled in
          made,         \* the entries whose creation has returned
          i,            \* the place the hook is at, 0 outside of the hook
          seen          \* what it saw there

vars == <<isTimerStart, pEntryBuf, divider, current_counter, running,
          creating, made, i, seen>>
main   == <<creating, made>>
fields == <<divider, current_counter>>

Init == /\ isTimerStart = FALSE
        /\ pEntryBuf = <<>>
        /\ divider = [e \in Entries |-> 0]
        /\ current_counter = [e \in Entries |-> 0]
        /\ running = {}
        /\ creating = None
        /\ made = {}
        /\ i = 0
        /\ seen = "nothing"

StartTimer == /\ isTimerStart' = TRUE
              /\ UNCHANGED <<pEntryBuf, fields, running, main, i, seen>>

(* SystemTimerCreated, once for each entry.  The check lets one entry more *)
(* pass than the array has places.                                         *)
Link(e) == /\ creating = None /\ e \notin made
           /\ Len(pEntryBuf) <= MAX_SYS_TIMER_ENTRY_NUMBER
           /\ pEntryBuf' = Append(pEntryBuf, e)
           /\ creating' = e
           /\ UNCHANGED <<isTimerStart, fields, running, made, i, seen>>

Fill(interval) == /\ creating # None
                  /\ current_counter' = [current_counter EXCEPT ![creating] = 0]
                  /\ divider' = [divider EXCEPT ![creating] = interval]
                  /\ running' = running \ {creating}
                  /\ made' = made \cup {creating}
                  /\ creating' = None
                  /\ UNCHANGED <<isTimerStart, pEntryBuf, i, seen>>

\* SystemTimerStart and SystemTimerStop, by main: the counter is kept.
StartOrStop(e) == /\ e \in made
                  /\ running' \in {running \cup {e}, running \ {e}}
                  /\ UNCHANGED <<isTimerStart, pEntryBuf, fields, main, i, seen>>

HookBegins == /\ isTimerStart /\ i = 0
              /\ i' = 1
              /\ UNCHANGED <<isTimerStart, pEntryBuf, fields, running, main, seen>>

\* The hook looks at place i and leaves it, or goes on to act.
Look == /\ i \in 1 .. Len(pEntryBuf) /\ seen = "nothing"
        /\ LET e == pEntryBuf[i]
           IN  IF e \notin running THEN i' = i + 1 /\ UNCHANGED seen
               ELSE /\ seen' = IF current_counter[e] = divider[e] THEN "due" ELSE "counting"
                    /\ UNCHANGED i
        /\ UNCHANGED <<isTimerStart, pEntryBuf, fields, running, main>>

\* The callback may start and stop timers; it runs even if main has
\* stopped this one since it was looked at.
Fire == /\ seen = "due"
        /\ current_counter' = [current_counter EXCEPT ![pEntryBuf[i]] = 0]
        /\ running' \in SUBSET made
        /\ i' = i + 1 /\ seen' = "nothing"
        /\ UNCHANGED <<isTimerStart, pEntryBuf, divider, main>>

Count == /\ seen = "counting"
         /\ current_counter' = [current_counter EXCEPT ![pEntryBuf[i]] = @ + 1]
         /\ i' = i + 1 /\ seen' = "nothing"
         /\ UNCHANGED <<isTimerStart, pEntryBuf, divider, running, main>>

HookEnds == /\ i > Len(pEntryBuf)
            /\ i' = 0
            /\ UNCHANGED <<isTimerStart, pEntryBuf, fields, running, main, seen>>

SystemTimerHook == HookBegins \/ Look \/ Fire \/ Count \/ HookEnds

Next == \/ StartTimer
        \/ \E e \in Entries : Link(e) \/ StartOrStop(e)
        \/ \E interval \in Intervals : Fill(interval)
        \/ SystemTimerHook

Spec == Init /\ [][Next]_vars

-----------------------------------------------------------------------------
TypeOK == /\ isTimerStart \in BOOLEAN
          /\ pEntryBuf \in Seq(Entries)
          /\ divider \in [Entries -> Nat]
          /\ current_counter \in [Entries -> Nat]
          /\ running \subseteq made
          /\ creating \in Entries \cup {None}
          /\ made \subseteq Entries
          /\ i \in Nat
          /\ seen \in {"nothing", "due", "counting"}

\* An entry that is being created has not been made yet.
NotYetMade == creating \notin made

\* What the hook saw still holds when it acts.
Looking == seen # "nothing" => /\ i \in 1 .. Len(pEntryBuf)
                               /\ pEntryBuf[i] \in made
StillCounting ==
  seen = "counting" => current_counter[pEntryBuf[i]] < divider[pEntryBuf[i]]

(* What the check of SystemTimerCreated leaves: the list outgrows its      *)
(* array of MAX_SYS_TIMER_ENTRY_NUMBER places, but by one entry at most.   *)
OneTooMany == Len(pEntryBuf) <= MAX_SYS_TIMER_ENTRY_NUMBER + 1

(* No counter passes its divider, where it would be silent for 2^32 hooks. *)
NotPassed == \A e \in made : current_counter[e] <= divider[e]
=============================================================================
