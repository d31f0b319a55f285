----------------------------- MODULE StringDebug -----------------------------
(***************************************************************************)
(* The debug-string queue of CharStringDebugModule.c between its two       *)
(* users: main() and the callbacks that AppTimerHook runs on the thread of *)
(* user_irq.c.  Its critical section is AppTimerLocked/AppTimerUnlocked, a *)
(* plain flag the hook reads once, before it runs the callbacks.  A queue  *)
(* operation takes effect in the step that leaves it; a thread is inside   *)
(* it from the step before.                                                *)
(***************************************************************************)
EXTENDS LoopQueue, SequencesExt

CONSTANTS Interrupt,    \* TRUE: the hook is an interrupt, which runs to its
                        \* end before main goes on; FALSE: a thread
          MaxStrings    \* bound: how many strings are pushed

ASSUME StringDebugAssumption == Interrupt \in BOOLEAN /\ MaxStrings \in Nat

VARIABLES q, CharBuf,      \* the queue and its strings
          isTimerLocked,
          pc,              \* where each thread is
          slot,            \* the bufnumber each thread has been given
          flushing,        \* whether the thread is in StringDebugFlush
          pushed,          \* strings offered so far; they are numbered
          accepted, log    \* history: strings stored, strings printed

queue == <<q, CharBuf>>
vars  == <<queue, isTimerLocked, pc, slot, flushing, pushed, accepted, log>>

Threads == {"main", "timer"}
Inside  == {"push", "fill", "pop", "print", "release"}
Strings == 0 .. MaxStrings        \* 0 is the empty string of StringDebugInit

TypeOK == /\ q \in Queue
          /\ CharBuf \in [Slots -> Strings]
          /\ isTimerLocked \in BOOLEAN
          /\ pc \in [Threads -> Inside \cup {"out", "asked", "sleep", "debug"}]
          /\ slot \in [Threads -> Slots]
          /\ flushing \in [Threads -> BOOLEAN]
          /\ pushed \in Strings
          /\ accepted \in BoundedSeq(Strings, MaxStrings)
          /\ log \in BoundedSeq(Strings, MaxStrings)

\* After StringDebugInit and StartTimer.
Init == /\ q = Cleared /\ CharBuf = [s \in Slots |-> 0]
        /\ isTimerLocked = FALSE
        /\ pc = [main |-> "out", timer |-> "sleep"]
        /\ slot = [t \in Threads |-> 0]
        /\ flushing = [t \in Threads |-> FALSE]
        /\ pushed = 0 /\ accepted = << >> /\ log = << >>

MayRun(t) == Interrupt /\ t = "main" => pc["timer"] = "sleep"

Goto(t, place) == pc' = [pc EXCEPT ![t] = place]

-----------------------------------------------------------------------------
\* PushStringIntoCharBuf with a length in range, up to the queue operation
EnterPush(t) ==
  /\ MayRun(t) /\ pc[t] = "out" /\ pushed < MaxStrings
  /\ isTimerLocked' = TRUE
  /\ pushed' = pushed + 1
  /\ Goto(t, "push")
  /\ UNCHANGED <<queue, slot, flushing, accepted, log>>

\* A slip: the section is left before the string is stored.
UnlockedBeforeFill(t) ==
  /\ MayRun(t) /\ pc[t] = "push" /\ CanFirstIn(q)
  /\ q' = FirstIn(q, FALSE)
  /\ slot' = [slot EXCEPT ![t] = q.first_in]
  /\ isTimerLocked' = FALSE
  /\ Goto(t, "fill")
  /\ UNCHANGED <<CharBuf, flushing, pushed, accepted, log>>

QueueIn(t) ==
  /\ MayRun(t) /\ pc[t] = "push" /\ CanFirstIn(q)
  /\ q' = FirstIn(q, FALSE)
  /\ slot' = [slot EXCEPT ![t] = q.first_in]
  /\ Goto(t, "fill")
  /\ UNCHANGED <<CharBuf, isTimerLocked, flushing, pushed, accepted, log>>

QueueInRefused(t) ==
  /\ MayRun(t) /\ pc[t] = "push" /\ ~CanFirstIn(q)
  /\ isTimerLocked' = FALSE
  /\ Goto(t, "out")
  /\ UNCHANGED <<queue, slot, flushing, pushed, accepted, log>>

Fill(t) ==
  /\ MayRun(t) /\ pc[t] = "fill"
  /\ CharBuf' = [CharBuf EXCEPT ![slot[t]] = pushed]
  /\ accepted' = Append(accepted, pushed)
  /\ isTimerLocked' = FALSE
  /\ Goto(t, "out")
  /\ UNCHANGED <<q, slot, flushing, pushed, log>>

-----------------------------------------------------------------------------
(* StringDebugProcess, or StringDebugFlush when flush: nothing happens on  *)
(* an empty queue, which is asked before the section is entered.           *)
BeginProcess(t, flush) ==
  /\ MayRun(t)
  /\ pc[t] = "out" \/ (pc[t] = "debug" /\ ~flush)
  /\ q.state # "Empty"
  /\ flushing' = [flushing EXCEPT ![t] = flush]
  /\ Goto(t, "asked")
  /\ UNCHANGED <<queue, isTimerLocked, slot, pushed, accepted, log>>

EnterProcess(t) ==
  /\ MayRun(t) /\ pc[t] = "asked"
  /\ isTimerLocked' = TRUE
  /\ Goto(t, "pop")
  /\ UNCHANGED <<queue, slot, flushing, pushed, accepted, log>>

QueueOut(t) ==
  /\ MayRun(t) /\ pc[t] = "pop" /\ CanFirstOut(q)
  /\ q' = FirstOut(q)
  /\ slot' = [slot EXCEPT ![t] = q.first_out]
  /\ Goto(t, "print")
  /\ UNCHANGED <<CharBuf, isTimerLocked, flushing, pushed, accepted, log>>

QueueOutEmpty(t) ==
  /\ MayRun(t) /\ pc[t] = "pop" /\ ~CanFirstOut(q)
  /\ isTimerLocked' = FALSE
  /\ Goto(t, "out")
  /\ UNCHANGED <<queue, slot, flushing, pushed, accepted, log>>

PopString(t) ==
  /\ MayRun(t) /\ pc[t] = "print"
  /\ log' = Append(log, CharBuf[slot[t]])
  /\ Goto(t, "release")
  /\ UNCHANGED <<queue, isTimerLocked, slot, flushing, pushed, accepted>>

\* A slip: one way out of the section does not unlock.
ReleaseStaysLocked(t) ==
  /\ MayRun(t) /\ pc[t] = "release"
  /\ q' = ReleaseBuf(q, slot[t])
  /\ Goto(t, IF flushing[t] THEN "pop" ELSE "out")
  /\ UNCHANGED <<CharBuf, isTimerLocked, slot, flushing, pushed, accepted, log>>

Release(t) ==
  /\ MayRun(t) /\ pc[t] = "release"
  /\ q' = ReleaseBuf(q, slot[t])
  /\ IF flushing[t]
     THEN Goto(t, "pop") /\ UNCHANGED isTimerLocked
     ELSE Goto(t, "out") /\ isTimerLocked' = FALSE
  /\ UNCHANGED <<CharBuf, slot, flushing, pushed, accepted, log>>

-----------------------------------------------------------------------------
HookStartsAnyway ==
  /\ pc["timer"] = "sleep"
  /\ Goto("timer", "debug")
  /\ UNCHANGED <<queue, isTimerLocked, slot, flushing, pushed, accepted, log>>

(* AppTimerHook: a locked hook returns; otherwise DebugTimer, which every  *)
(* program creates first and with divider 1, runs StringDebugProcess.      *)
HookStarts ==
  /\ pc["timer"] = "sleep" /\ ~isTimerLocked
  /\ Goto("timer", "debug")
  /\ UNCHANGED <<queue, isTimerLocked, slot, flushing, pushed, accepted, log>>

\* StringDebugProcess returned at once; the other callbacks follow.
NothingToPrint ==
  /\ pc["timer"] = "debug" /\ q.state = "Empty"
  /\ Goto("timer", "out")
  /\ UNCHANGED <<queue, isTimerLocked, slot, flushing, pushed, accepted, log>>

HookEnds ==
  /\ pc["timer"] = "out"
  /\ Goto("timer", "sleep")
  /\ UNCHANGED <<queue, isTimerLocked, slot, flushing, pushed, accepted, log>>

Step(t) == \/ QueueIn(t) \/ QueueInRefused(t) \/ Fill(t)
           \/ EnterProcess(t) \/ QueueOut(t) \/ QueueOutEmpty(t) \/ PopString(t) \/ Release(t)

Call(t) == EnterPush(t) \/ \E flush \in BOOLEAN : BeginProcess(t, flush)

Next == \/ \E t \in Threads : Call(t) \/ Step(t)
        \/ HookStarts
        \/ NothingToPrint
        \/ HookEnds

Spec == Init /\ [][Next]_vars

(* A thread leaves a section it is in, and the timer thread wakes up, runs *)
(* DebugTimer and comes to the end of the hook; no one has to push.        *)
FairSpec == /\ Spec
            /\ \A t \in Threads : WF_vars(Step(t))
            /\ WF_vars(HookStarts) /\ WF_vars(HookEnds)
            /\ WF_vars(NothingToPrint \/ BeginProcess("timer", FALSE))

-----------------------------------------------------------------------------
(* loop_queues.h:5 "the loop queue can't be interrupt by an irq !!!": no   *)
(* thread is inside a critical section while the other is.                 *)
QueueNotInterrupted == \E t \in Threads : pc[t] \notin Inside

Stored == [i \in 1 .. q.used |-> CharBuf[SlotAt(q, i - 1)]]
Filled == IF \E t \in Threads : pc[t] = "fill" THEN Front(Stored) ELSE Stored
InHand == IF \E t \in Threads : pc[t] = "print"
          THEN <<CharBuf[slot[CHOOSE t \in Threads : pc[t] = "print"]]>>
          ELSE << >>

(* What has been accepted is what has been printed, what is about to be    *)
(* and what is stored, in that order: no string is lost, printed twice,    *)
(* overtaken or overwritten before it is printed.                          *)
LogInOrder == TypeOK /\ accepted = log \o InHand \o Filled

(* Every string that is accepted is printed, in the end. *)
EveryStringPrinted ==
  \A k \in 1 .. MaxStrings : Len(accepted) >= k ~> Len(log) >= k
=============================================================================
