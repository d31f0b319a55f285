---------------------------- MODULE UserEndPoint ----------------------------
(***************************************************************************)
(* The endpoint of DongleTask: every tick runs the six-state machine of    *)
(* UserEndPoint.c, at most three times, through SimpleStateMachineRun,     *)
(* which takes at most five steps a run.  The machine takes notifications  *)
(* out of the loop queues of DataFlow.c.  Pushes come from interrupts:     *)
(* they fall between any two steps, also between a pop and its release.    *)
(* What the notifications say is left out here (see DataFlow).             *)
(***************************************************************************)
EXTENDS LoopQueue, Sequences

CONSTANTS Slow,       \* the entries of CheckOtherNotify, in the order asked
          MaxHops,    \* MaxStateHopTimesInSignalProcess of p_ep_state
          MaxRuns,    \* how often AllEventHandle calls the machine in a tick
          Nothing

Fast        == {"AirMouse", "Key", "PenTip"}
SlowEntries == {Slow[i] : i \in 1 .. Len(Slow)}
Entries     == Fast \cup SlowEntries

ASSUME UserEndPointAssumption == /\ Len(Slow) \in Nat \ {0}
                                 /\ SlowEntries \cap Fast = {}
                                 /\ Nothing \notin Entries
                                 /\ MaxHops \in Nat \ {0} /\ MaxRuns \in Nat \ {0}

VARIABLES q,            \* the loop queue of each entry
          current,      \* current_used_buf_number
          state,        \* the machine's state, the one that is run next
          hop,          \* the step of this run, 0 outside a run
          run,          \* the run of this tick, 0 outside a tick
          isBreak,
          fast,         \* fast_notify_entry_counter
          look,         \* the entry of Slow CheckOtherNotify asks next
          using,        \* the entry popped and not yet released
          waiting       \* history: the fast entries that had something when
                        \* the tick began and have not been served in it

machine == <<state, hop, run, isBreak, fast, look>>
vars    == <<q, current, machine, using, waiting>>

States == {"Idle", "AirMouse", "Key", "PenTip", "Other", "TheEnd"}

TypeOK == /\ q \in [Entries -> Queue]
          /\ current \in Slots
          /\ state \in States /\ hop \in 0 .. MaxHops /\ run \in 0 .. MaxRuns
          /\ isBreak \in BOOLEAN /\ fast \in 0 .. 2
          /\ look \in 1 .. Len(Slow)
          /\ using \in Entries \cup {Nothing}
          /\ waiting \subseteq Fast

Init == /\ q = [e \in Entries |-> Cleared] /\ current = 0
        /\ state = "Idle" /\ hop = 0 /\ run = 0
        /\ isBreak = FALSE /\ fast = 0 /\ look = 1
        /\ using = Nothing /\ waiting = {}

Push(e) == /\ CanFirstIn(q[e])
           /\ q' = [q EXCEPT ![e] = FirstIn(@, FALSE)]
           /\ UNCHANGED <<current, machine, using, waiting>>

\* DongleTaskInit, from a script command: between two ticks.
Reset == /\ run = 0
         /\ q' = [e \in Entries |-> Cleared] /\ current' = 0
         /\ UNCHANGED <<machine, using, waiting>>

\* onTick
Tick == /\ run = 0
        /\ run' = 1 /\ hop' = 1
        /\ waiting' = {e \in Fast : CanFirstOut(q[e])}
        /\ UNCHANGED <<q, current, state, isBreak, fast, look, using>>

-----------------------------------------------------------------------------
\* A slip: the run is broken off after a notification was sent.
BreakOnFlag(next, flag) ==
  /\ state' = next /\ isBreak' = flag
  /\ IF ~flag /\ hop < MaxHops
     THEN hop' = hop + 1 /\ UNCHANGED run
     ELSE IF flag \/ run = MaxRuns THEN hop' = 0 /\ run' = 0
                                   ELSE hop' = 1 /\ run' = run + 1

(* The machine's action of this state is over.  The run breaks off after   *)
(* TheEnd (DoesBreakSimple) or MaxHops steps; AllEventHandle stops when    *)
(* the run leaves isBreak set.                                             *)
Goto(next, flag) ==
  /\ state' = next /\ isBreak' = flag
  /\ IF state # "TheEnd" /\ hop < MaxHops
     THEN hop' = hop + 1 /\ UNCHANGED run
     ELSE IF flag \/ run = MaxRuns THEN hop' = 0 /\ run' = 0
                                   ELSE hop' = 1 /\ run' = run + 1

At(s) == hop # 0 /\ state = s /\ using = Nothing

After == [AirMouse |-> "Key", Key |-> "PenTip"]

IdleAction ==
  /\ At("Idle")
  /\ fast' = 0
  /\ Goto("AirMouse", FALSE)
  /\ UNCHANGED <<q, current, look, using, waiting>>

\* A slip: the number of an earlier pop is released.
TakeKeepsNumber(e) ==
  /\ q' = [q EXCEPT ![e] = FirstOut(@)]
  /\ UNCHANGED current
  /\ using' = e
  /\ waiting' = waiting \ {e}
  /\ UNCHANGED machine

\* DataFlowPop of entry e found something.
Take(e) ==
  /\ q' = [q EXCEPT ![e] = FirstOut(@)]
  /\ current' = q[e].first_out
  /\ using' = e
  /\ waiting' = waiting \ {e}
  /\ UNCHANGED machine

\* DataFlowReleaseCurrentBuf
ReleaseCurrent(e) ==
  /\ q' = [q EXCEPT ![e] = ReleaseBuf(@, current)]
  /\ using' = Nothing

TakeFast(e) == At(e) /\ CanFirstOut(q[e]) /\ Take(e)

\* A slip: one fast notification is enough for a round.
EndAfterFirst(e) ==
  /\ using = e
  /\ ReleaseCurrent(e)
  /\ fast' = fast + 1
  /\ Goto("TheEnd", TRUE)
  /\ UNCHANGED <<current, look, waiting>>

\* CheckAirMouseNotifyAction and CheckKeyNotifyAction, second half
SentFast(e) ==
  /\ using = e
  /\ ReleaseCurrent(e)
  /\ fast' = fast + 1
  /\ Goto(After[e], TRUE)
  /\ UNCHANGED <<current, look, waiting>>

NoFast(e) ==
  /\ At(e) /\ ~CanFirstOut(q[e])
  /\ Goto(After[e], FALSE)
  /\ UNCHANGED <<q, current, fast, look, using, waiting>>

SentPenTip ==
  /\ using = "PenTip"
  /\ ReleaseCurrent("PenTip")
  /\ Goto("TheEnd", FALSE)
  /\ UNCHANGED <<current, fast, look, waiting>>

NoPenTip ==
  /\ At("PenTip") /\ ~CanFirstOut(q["PenTip"])
  /\ Goto(IF fast > 0 THEN "TheEnd" ELSE "Other", FALSE)
  /\ UNCHANGED <<q, current, fast, look, using, waiting>>

TakeSlow == At("Other") /\ CanFirstOut(q[Slow[look]]) /\ Take(Slow[look])

SentSlow ==
  /\ using \in SlowEntries
  /\ ReleaseCurrent(using)
  /\ look' = 1
  /\ Goto("TheEnd", FALSE)
  /\ UNCHANGED <<current, fast, waiting>>

\* A slip: only the first slow entry is asked.
AskOnlyFirst ==
  /\ At("Other") /\ ~CanFirstOut(q[Slow[look]])
  /\ look' = 1
  /\ Goto("TheEnd", FALSE)
  /\ UNCHANGED <<q, current, fast, using, waiting>>

NoSlow ==
  /\ At("Other") /\ ~CanFirstOut(q[Slow[look]])
  /\ IF look < Len(Slow)
     THEN look' = look + 1 /\ UNCHANGED <<state, hop, run, isBreak>>
     ELSE look' = 1 /\ Goto("TheEnd", FALSE)
  /\ UNCHANGED <<q, current, fast, using, waiting>>

TheEndAction ==
  /\ At("TheEnd")
  /\ Goto("Idle", TRUE)
  /\ UNCHANGED <<q, current, fast, look, using, waiting>>

MachineStep ==
  \/ IdleAction
  \/ \E e \in Fast : TakeFast(e)
  \/ \E e \in {"AirMouse", "Key"} : SentFast(e) \/ NoFast(e)
  \/ SentPenTip \/ NoPenTip
  \/ TakeSlow \/ SentSlow \/ NoSlow
  \/ TheEndAction

Next == \/ \E e \in Entries : Push(e)
        \/ Reset
        \/ Tick
        \/ MachineStep

Spec == Init /\ [][Next]_vars

(* The tick is a repeated timer and a tick comes to its end. *)
FairSpec == Spec /\ WF_vars(Tick) /\ WF_vars(MachineStep)

-----------------------------------------------------------------------------
InUse(e) == Queued(q[e]) \cup IF using = e THEN {current} ELSE {}

(* One buffer number serves all entries: it is the slot the entry in hand  *)
(* popped, nobody else can have it, and no other slot stays marked.        *)
SlotsAccounted ==
  /\ TypeOK
  /\ using # Nothing => current \notin Queued(q[using])
  /\ \A e \in Entries : {s \in Slots : q[e].buf[s] = "used"} = InUse(e)

(* Five steps a run and three runs a tick are enough: every tick takes the *)
(* machine round, back to Idle.                                            *)
TickGoesRound == run = 0 => state = "Idle" /\ using = Nothing

(* DongleTask.c:60 "key ,air mouse ,pentip notify come together , function *)
(* :AllEventHandle have to sent them out in 7.5ms": a tick serves every    *)
(* fast entry that had something when it began.                            *)
AllFastInOneTick == run = 0 => waiting = {}

(* When the fast entries fall silent the slow ones are served, each as     *)
(* soon as those before it in the order have fallen silent too.            *)
SlowServedWhenQuiet ==
  \A i \in 1 .. Len(Slow) :
    <>[](\A e \in Fast \cup {Slow[j] : j \in 1 .. i - 1} : ~CanFirstOut(q[e]))
      => (q[Slow[i]].state = "Full" ~> q[Slow[i]].state # "Full")
=============================================================================
