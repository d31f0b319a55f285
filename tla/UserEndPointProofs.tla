-------------------------- MODULE UserEndPointProofs --------------------------
(***************************************************************************)
(* The endpoint's machine accounts for every slot of its queues, whatever  *)
(* the limits of hops and runs; with the limits the code sets, every tick  *)
(* goes round and serves every fast entry that was waiting; and the        *)
(* entries that share the last state come up in it in turn. Of the bytes   *)
(* below, for the same entries: what the byte too far may spoil.           *)
(***************************************************************************)
EXTENDS UserEndPoint, LoopQueueProofs

CONSTANTS Values, Length
VARIABLE store

Flow == INSTANCE DataFlow

(* A notification is in hand only in a tick, in the state that took it;    *)
(* and the counter of fast entries fits the place in the round.            *)
InTick ==
  /\ hop = 0 <=> run = 0
  /\ using # Nothing => run # 0
  /\ state = "AirMouse" => fast = 0
  /\ state = "Key" => fast <= 1
  /\ using \in Fast => state = using
  /\ using \in SlowEntries => state = "Other"

Rings == \A e \in Entries : RingConsistent(q[e])

(* With five hops a run goes from Idle to the end of the round, or to its  *)
(* last state but one; that one is left to a second run.                   *)
Round == /\ run \in 0 .. 2
         /\ run = 0 => state = "Idle"
         /\ run = 1 => \/ state = "Idle" /\ hop = 1
                       \/ state = "AirMouse" /\ hop = 2
                       \/ state = "Key" /\ hop = 3
                       \/ state = "PenTip" /\ hop = 4
                       \/ state \in {"Other", "TheEnd"} /\ hop = 5
         /\ run = 2 => state = "TheEnd" /\ hop = 1

(* A fast entry that waits has something to take, and those the round has  *)
(* passed wait no longer.                                                  *)
Passed == CASE state = "Idle" -> IF run = 0 THEN Fast ELSE {}
            [] state = "AirMouse" -> {}
            [] state = "Key" -> {"AirMouse"}
            [] state = "PenTip" -> {"AirMouse", "Key"}
            [] OTHER -> Fast
Served == /\ \A e \in waiting : CanFirstOut(q[e])
          /\ waiting \cap Passed = {}
          /\ using \notin waiting

RoundInv == Round /\ Served

-----------------------------------------------------------------------------
(* All queues together: the slot in hand belongs to the entry in hand. *)
InHand(e)  == IF using = e THEN {current} ELSE {}
AllAccounts == \A e \in Entries : Account(q[e], InHand(e))

LEMMA AccountsAreSlots ==
  TypeOK => (AllAccounts <=> Rings /\ SlotsAccounted)
<1> SUFFICES ASSUME TypeOK PROVE AllAccounts <=> Rings /\ SlotsAccounted
  OBVIOUS
<1>1. \A e \in Entries : q[e] \in Queue
  BY DEF TypeOK
<1>2. using # Nothing => using \in Entries
  BY DEF TypeOK
<1>3. \A e \in Entries : InUse(e) = Queued(q[e]) \cup InHand(e) /\ e # Nothing
  BY UserEndPointAssumption DEF InUse, InHand
<1>4. ASSUME AllAccounts PROVE Rings /\ SlotsAccounted
  <2>1. using # Nothing => current \notin Queued(q[using])
    BY <1>2, <1>4 DEF AllAccounts, Account, InHand
  <2> QED
    BY <1>3, <1>4, <2>1 DEF AllAccounts, Account, Rings, SlotsAccounted
<1>5. ASSUME Rings, SlotsAccounted PROVE AllAccounts
  <2>1. \A e \in Entries : InHand(e) \cap Queued(q[e]) = {}
    BY <1>3, <1>5 DEF SlotsAccounted, InHand
  <2> QED
    BY <1>1, <1>3, <1>5, <2>1 DEF AllAccounts, Account, Rings, SlotsAccounted
<1> QED
  BY <1>4, <1>5

LEMMA AccountsAreSlotsNext ==
  TypeOK' => (AllAccounts' <=> Rings' /\ SlotsAccounted')
<1>1. (TypeOK => (AllAccounts <=> Rings /\ SlotsAccounted))'
  BY AccountsAreSlots, PTL
<1> QED
  BY <1>1

-----------------------------------------------------------------------------
SlotsInv == TypeOK /\ AllAccounts /\ InTick

LEMMA InitSlotsInv == Init => SlotsInv
<1> SUFFICES ASSUME Init PROVE SlotsInv
  OBVIOUS
<1>1. Cleared \in Queue
  BY ClearedProps
<1>2. 0 \in Slots /\ 1 \in 1 .. Len(Slow) /\ 0 \in 0 .. MaxHops /\ 0 \in 0 .. MaxRuns
  BY LoopQueueAssumption, UserEndPointAssumption DEF Slots
<1>3. q \in [Entries -> Queue] /\ current \in Slots
  BY <1>1, <1>2 DEF Init
<1>4. hop \in 0 .. MaxHops /\ run \in 0 .. MaxRuns /\ look \in 1 .. Len(Slow)
  BY <1>2 DEF Init
<1>5. TypeOK
  <2>1. state \in States /\ fast \in 0 .. 2
    BY DEF Init, States
  <2>2. isBreak \in BOOLEAN
    BY DEF Init
  <2>3. using \in Entries \cup {Nothing} /\ waiting \subseteq Fast
    BY DEF Init
  <2> QED
    BY <1>3, <1>4, <2>1, <2>2, <2>3 DEF TypeOK
<1>6. AllAccounts
  BY ClearedAccount, UserEndPointAssumption DEF Init, AllAccounts, InHand
<1>7. InTick
  BY UserEndPointAssumption DEF Init, InTick, Entries
<1> QED
  BY <1>5, <1>6, <1>7 DEF SlotsInv

(* The step after an action is over stays within the limits, and a tick    *)
(* ends when its last run does.                                            *)
LEMMA GotoTypes ==
  ASSUME TypeOK, InTick, hop # 0, NEW next \in States, NEW flag \in BOOLEAN,
         Goto(next, flag)
  PROVE  /\ state' = next /\ isBreak' = flag
         /\ hop' \in 0 .. MaxHops /\ run' \in 0 .. MaxRuns
         /\ hop' = 0 <=> run' = 0
<1>1. /\ MaxHops \in Nat \ {0} /\ MaxRuns \in Nat \ {0}
      /\ hop \in 1 .. MaxHops /\ run \in 1 .. MaxRuns
  BY UserEndPointAssumption DEF TypeOK, InTick
<1>2. state' = next /\ isBreak' = flag
  BY DEF Goto
<1>3. \/ hop < MaxHops /\ hop' = hop + 1 /\ run' = run
      \/ hop' = 0 /\ run' = 0
      \/ run # MaxRuns /\ hop' = 1 /\ run' = run + 1
  BY DEF Goto
<1> QED
  BY <1>1, <1>2, <1>3

(* A step that changes one queue, or none. *)
LEMMA OneQueue ==
  ASSUME q \in [Entries -> Queue], AllAccounts, NEW e \in Entries, NEW r,
         q' = [q EXCEPT ![e] = r], Account(r, InHand(e)'),
         \A d \in Entries \ {e} : InHand(d)' = InHand(d)
  PROVE  q' \in [Entries -> Queue] /\ AllAccounts'
<1>1. q \in [Entries -> Queue] /\ r \in Queue
  BY DEF Account
<1>2. q' \in [Entries -> Queue] /\ q'[e] = r /\ \A d \in Entries \ {e} : q'[d] = q[d]
  BY <1>1
<1>3. ASSUME NEW d \in Entries PROVE Account(q'[d], InHand(d)')
  BY <1>2 DEF AllAccounts
<1>4. AllAccounts'
  BY <1>3 DEF AllAccounts, Account, Queued, Offset, RingConsistent, SlotAt
<1> QED
  BY <1>2, <1>4

LEMMA NoQueue ==
  ASSUME AllAccounts, UNCHANGED <<q, current, using>>
  PROVE  AllAccounts'
BY DEF AllAccounts, InHand

LEMMA TakeKeeps ==
  ASSUME TypeOK, AllAccounts, using = Nothing, NEW e \in Entries,
         CanFirstOut(q[e]), Take(e)
  PROVE  /\ q' \in [Entries -> Queue] /\ AllAccounts'
         /\ current' \in Slots /\ using' = e
         /\ UNCHANGED machine /\ waiting' \subseteq waiting
<1>1. e # Nothing /\ \A d \in Entries : d # Nothing
  BY UserEndPointAssumption
<1>2. PICK r : r = q[e]
  OBVIOUS
<1>3. /\ q' = [q EXCEPT ![e] = FirstOut(r)] /\ current' = r.first_out /\ using' = e
      /\ UNCHANGED machine /\ waiting' \subseteq waiting
  BY <1>2 DEF Take
<1>4. Account(r, {})
  BY <1>1, <1>2 DEF AllAccounts, InHand
<1>5. Account(FirstOut(r), {r.first_out}) /\ r.first_out \in Slots
  BY <1>2, <1>4, TakeAccount
<1>6. InHand(e)' = {r.first_out} /\ \A d \in Entries \ {e} : InHand(d)' = InHand(d)
  BY <1>1, <1>3 DEF InHand
<1> QED
  BY <1>3, <1>5, <1>6, OneQueue DEF TypeOK

LEMMA ReleaseKeeps ==
  ASSUME SlotsFitAByte, TypeOK, AllAccounts, NEW e \in Entries, using = e,
         ReleaseCurrent(e), current' = current
  PROVE  q' \in [Entries -> Queue] /\ AllAccounts' /\ using' = Nothing
<1>1. \A d \in Entries : d # Nothing
  BY UserEndPointAssumption
<1>0. PICK r : r = q[e]
  OBVIOUS
<1>2. PICK s \in Slots : s = current
  BY DEF TypeOK
<1>3. q' = [q EXCEPT ![e] = ReleaseBuf(r, s)] /\ using' = Nothing
  BY <1>0, <1>2 DEF ReleaseCurrent
<1>4. Account(r, {s})
  BY <1>0, <1>2 DEF AllAccounts, InHand
<1>5. Account(ReleaseBuf(r, s), {})
  BY <1>4, ReleaseAccount
<1>6. InHand(e)' = {} /\ \A d \in Entries \ {e} : InHand(d)' = InHand(d)
  BY <1>1, <1>3 DEF InHand
<1> QED
  BY <1>3, <1>5, <1>6, OneQueue DEF TypeOK

(* The actions of a state: the queues as the lemmas above say, the machine *)
(* as Goto does, and the counter of fast entries.                          *)
LEMMA ActionKeeps ==
  ASSUME SlotsInv, hop # 0, NEW next \in States, NEW flag \in BOOLEAN, Goto(next, flag),
         q' \in [Entries -> Queue], AllAccounts', current' = current,
         using' = Nothing, waiting' = waiting, look' \in 1 .. Len(Slow),
         fast' \in 0 .. 2, next = "AirMouse" => fast' = 0, next = "Key" => fast' <= 1
  PROVE  SlotsInv'
<1>1. TypeOK /\ InTick
  BY DEF SlotsInv
<1>2. /\ state' = next /\ isBreak' = flag
      /\ hop' \in 0 .. MaxHops /\ run' \in 0 .. MaxRuns
      /\ hop' = 0 <=> run' = 0
  BY <1>1, GotoTypes
<1>3. current' \in Slots /\ waiting' \subseteq Fast
  BY <1>1 DEF TypeOK
<1>4. isBreak' \in BOOLEAN
  BY <1>2
<1>5. TypeOK'
  BY <1>2, <1>3, <1>4 DEF TypeOK
<1>6. InTick'
  <2>1. Nothing \notin Fast /\ Nothing \notin SlowEntries
    BY UserEndPointAssumption DEF Entries
  <2> QED
    BY <1>2, <2>1 DEF InTick
<1> QED
  BY <1>5, <1>6 DEF SlotsInv

LEMMA NextSlotsInv == SlotsFitAByte /\ SlotsInv /\ [Next]_vars => SlotsInv'
<1> SUFFICES ASSUME SlotsFitAByte, SlotsInv, [Next]_vars PROVE SlotsInv'
  OBVIOUS
<1>0. /\ TypeOK /\ AllAccounts /\ InTick
      /\ q \in [Entries -> Queue] /\ current \in Slots /\ state \in States
      /\ fast \in 0 .. 2 /\ look \in 1 .. Len(Slow) /\ Len(Slow) \in Nat
      /\ using \in Entries \cup {Nothing} /\ waiting \subseteq Fast
      /\ Fast \subseteq Entries /\ SlowEntries \subseteq Entries
  BY UserEndPointAssumption DEF SlotsInv, TypeOK, Entries
<1>1. ASSUME NEW e \in Entries, Push(e) PROVE SlotsInv'
  <2>1. PICK r : r = q[e]
    OBVIOUS
  <2>2. /\ q' = [q EXCEPT ![e] = FirstIn(r, FALSE)] /\ CanFirstIn(r)
        /\ UNCHANGED <<current, machine, using, waiting>>
    BY <1>1, <2>1 DEF Push
  <2>3. \A d \in Entries : InHand(d)' = InHand(d)
    BY <2>2 DEF InHand
  <2>4. Account(r, InHand(e))
    BY <1>0, <2>1 DEF AllAccounts
  <2>5. Account(FirstIn(r, FALSE), InHand(e)')
    BY <2>2, <2>3, <2>4, PushAccount
  <2>6. q' \in [Entries -> Queue] /\ AllAccounts'
    BY <1>0, <2>2, <2>3, <2>5, OneQueue DEF TypeOK
  <2> QED
    BY <1>0, <2>2, <2>6 DEF SlotsInv, TypeOK, InTick, machine
<1>2. CASE Reset
  <2>1. using = Nothing
    BY <1>0, <1>2 DEF Reset, InTick
  <2>2. /\ q' = [e \in Entries |-> Cleared] /\ current' = 0
        /\ UNCHANGED <<machine, using, waiting>>
    BY <1>2 DEF Reset
  <2>3. \A e \in Entries : InHand(e)' = {} /\ q'[e] = Cleared
    BY <2>1, <2>2, UserEndPointAssumption DEF InHand
  <2>4. \A e \in Entries : Account(q'[e], InHand(e)')
    BY <2>3, ClearedAccount
  <2>5. AllAccounts'
    BY <2>4 DEF AllAccounts, Account, Queued, Offset, RingConsistent, SlotAt
  <2>6. q' \in [Entries -> Queue] /\ current' \in Slots
    BY <2>2, ClearedProps, LoopQueueAssumption DEF Slots
  <2> QED
    BY <1>0, <2>2, <2>5, <2>6 DEF SlotsInv, TypeOK, InTick, machine
<1>3. CASE Tick
  <2>1. /\ run = 0 /\ run' = 1 /\ hop' = 1
        /\ UNCHANGED <<q, current, state, isBreak, fast, look, using>>
    BY <1>3 DEF Tick
  <2>2. waiting' \subseteq Fast
    BY <1>3 DEF Tick
  <2>3. 1 \in 0 .. MaxHops /\ 1 \in 0 .. MaxRuns
    BY UserEndPointAssumption
  <2>4. AllAccounts'
    BY <1>0, <2>1, NoQueue
  <2>5. TypeOK'
    BY <1>0, <2>1, <2>2, <2>3 DEF TypeOK
  <2> QED
    BY <1>0, <2>1, <2>4, <2>5 DEF SlotsInv, InTick
<1>4. CASE IdleAction
  <2>1. /\ hop # 0 /\ fast' = 0 /\ Goto("AirMouse", FALSE) /\ using = Nothing
        /\ UNCHANGED <<q, current, look, using, waiting>>
    BY <1>4 DEF IdleAction, At
  <2>2. AllAccounts'
    BY <1>0, <2>1, NoQueue
  <2>3. /\ "AirMouse" \in States /\ fast' \in 0 .. 2
        /\ q' \in [Entries -> Queue] /\ look' \in 1 .. Len(Slow)
    BY <1>0, <2>1 DEF States
  <2> QED
    BY <2>1, <2>2, <2>3, ActionKeeps
<1>5. ASSUME NEW e \in Entries, using = Nothing, hop # 0, CanFirstOut(q[e]), Take(e),
             IF e \in Fast THEN state = e ELSE state = "Other"
      PROVE  SlotsInv'
  <2>1. /\ q' \in [Entries -> Queue] /\ AllAccounts' /\ current' \in Slots
        /\ using' = e /\ UNCHANGED machine /\ waiting' \subseteq Fast
    BY <1>0, <1>5, TakeKeeps
  <2>2. run # 0
    BY <1>0, <1>5 DEF InTick
  <2>3. e \in SlowEntries => e \notin Fast
    BY UserEndPointAssumption
  <2>4. TypeOK'
    BY <1>0, <2>1 DEF TypeOK, machine
  <2>5. InTick'
    BY <1>0, <1>5, <2>1, <2>2, <2>3 DEF InTick, machine
  <2> QED
    BY <2>1, <2>4, <2>5 DEF SlotsInv
<1>6. ASSUME NEW e \in Fast, TakeFast(e) PROVE SlotsInv'
  BY <1>0, <1>5, <1>6 DEF TakeFast, At
<1>7. CASE TakeSlow
  <2>1. Slow[look] \in SlowEntries
    BY <1>0 DEF SlowEntries
  <2>2. Slow[look] \notin Fast
    BY <2>1, UserEndPointAssumption
  <2> QED
    BY <1>0, <1>5, <1>7, <2>1, <2>2 DEF TakeSlow, At
<1>8. ASSUME NEW e \in {"AirMouse", "Key"}, SentFast(e) PROVE SlotsInv'
  <2>1. /\ e \in Fast /\ e \in Entries /\ using = e /\ e # Nothing
    BY <1>0, <1>8, UserEndPointAssumption DEF SentFast, Fast
  <2>2. /\ ReleaseCurrent(e) /\ fast' = fast + 1 /\ Goto(After[e], TRUE)
        /\ UNCHANGED <<current, look, waiting>>
    BY <1>8 DEF SentFast
  <2>3. hop # 0 /\ state = e
    BY <1>0, <2>1 DEF InTick
  <2>4. q' \in [Entries -> Queue] /\ AllAccounts' /\ using' = Nothing
    BY <1>0, <2>1, <2>2, ReleaseKeeps
  <2>5. CASE e = "AirMouse"
    <3>1. After[e] = "Key" /\ fast' = 1
      BY <1>0, <2>2, <2>3, <2>5 DEF After, InTick
    <3>2. Goto("Key", TRUE) /\ "Key" \in States
      BY <2>2, <3>1 DEF States
    <3>3. /\ fast' \in 0 .. 2 /\ fast' <= 1
          /\ look' \in 1 .. Len(Slow)
      BY <1>0, <2>2, <3>1
    <3> QED
      BY <2>2, <2>3, <2>4, <3>2, <3>3, ActionKeeps
  <2>6. CASE e = "Key"
    <3>1. After[e] = "PenTip" /\ fast' \in 0 .. 2
      BY <1>0, <2>2, <2>3, <2>6 DEF After, InTick
    <3>2. Goto("PenTip", TRUE) /\ "PenTip" \in States
      BY <2>2, <3>1 DEF States
    <3> QED
      BY <1>0, <2>2, <2>3, <2>4, <3>1, <3>2, ActionKeeps
  <2> QED
    BY <2>5, <2>6
<1>9. ASSUME NEW e \in {"AirMouse", "Key"}, NoFast(e) PROVE SlotsInv'
  <2>1. /\ hop # 0 /\ state = e /\ using = Nothing /\ Goto(After[e], FALSE)
        /\ UNCHANGED <<q, current, fast, look, using, waiting>>
    BY <1>9 DEF NoFast, At
  <2>2. AllAccounts'
    BY <1>0, <2>1, NoQueue
  <2>3. CASE e = "AirMouse"
    <3>1. After[e] = "Key" /\ fast' = 0
      BY <1>0, <2>1, <2>3 DEF After, InTick
    <3>2. Goto("Key", FALSE) /\ "Key" \in States
      BY <2>1, <3>1 DEF States
    <3>3. /\ fast' \in 0 .. 2 /\ fast' <= 1
          /\ q' \in [Entries -> Queue] /\ look' \in 1 .. Len(Slow)
      BY <1>0, <2>1, <3>1
    <3> QED
      BY <2>1, <2>2, <3>2, <3>3, ActionKeeps
  <2>4. CASE e = "Key"
    <3>1. After[e] = "PenTip"
      BY <2>4 DEF After
    <3>2. Goto("PenTip", FALSE) /\ "PenTip" \in States
      BY <2>1, <3>1 DEF States
    <3> QED
      BY <1>0, <2>1, <2>2, <3>2, ActionKeeps
  <2> QED
    BY <2>3, <2>4
<1>10. CASE SentPenTip
  <2>1. /\ "PenTip" \in Entries /\ using = "PenTip" /\ ReleaseCurrent("PenTip")
        /\ Goto("TheEnd", FALSE) /\ UNCHANGED <<current, fast, look, waiting>>
    BY <1>0, <1>10 DEF SentPenTip, Fast
  <2>2. hop # 0
    BY <1>0, <2>1, UserEndPointAssumption DEF InTick
  <2>3. q' \in [Entries -> Queue] /\ AllAccounts' /\ using' = Nothing
    BY <1>0, <2>1, ReleaseKeeps
  <2> QED
    BY <1>0, <2>1, <2>2, <2>3, ActionKeeps DEF States
<1>11. CASE NoPenTip
  <2>1. /\ hop # 0 /\ using = Nothing
        /\ UNCHANGED <<q, current, fast, look, using, waiting>>
        /\ Goto("TheEnd", FALSE) \/ Goto("Other", FALSE)
    BY <1>11 DEF NoPenTip, At
  <2>2. AllAccounts'
    BY <1>0, <2>1, NoQueue
  <2> QED
    BY <1>0, <2>1, <2>2, ActionKeeps DEF States
<1>12. CASE SentSlow
  <2>1. /\ using \in SlowEntries /\ ReleaseCurrent(using) /\ look' = 1
        /\ Goto("TheEnd", FALSE) /\ UNCHANGED <<current, fast, waiting>>
    BY <1>12 DEF SentSlow
  <2>2. PICK e \in Entries : using = e /\ e # Nothing
    BY <1>0, <2>1, UserEndPointAssumption
  <2>3. hop # 0 /\ ReleaseCurrent(e)
    BY <1>0, <2>1, <2>2 DEF InTick
  <2>4. q' \in [Entries -> Queue] /\ AllAccounts' /\ using' = Nothing
    BY <1>0, <2>1, <2>2, <2>3, ReleaseKeeps
  <2>5. 1 \in 1 .. Len(Slow)
    BY UserEndPointAssumption
  <2> QED
    BY <1>0, <2>1, <2>3, <2>4, <2>5, ActionKeeps DEF States
<1>13. CASE NoSlow
  <2>1. /\ hop # 0 /\ using = Nothing /\ state = "Other"
        /\ UNCHANGED <<q, current, fast, using, waiting>>
    BY <1>13 DEF NoSlow, At
  <2>2. AllAccounts'
    BY <1>0, <2>1, NoQueue
  <2>3. CASE look < Len(Slow)
    <3>1. look' = look + 1 /\ UNCHANGED <<state, hop, run, isBreak>>
      BY <1>13, <2>3 DEF NoSlow
    <3>2. look' \in 1 .. Len(Slow)
      BY <1>0, <2>3, <3>1
    <3>3. TypeOK'
      BY <1>0, <2>1, <3>1, <3>2 DEF TypeOK
    <3> QED
      BY <1>0, <2>1, <2>2, <3>1, <3>3 DEF SlotsInv, InTick
  <2>4. CASE ~(look < Len(Slow))
    <3>1. look' = 1 /\ Goto("TheEnd", FALSE)
      BY <1>13, <2>4 DEF NoSlow
    <3>2. 1 \in 1 .. Len(Slow)
      BY UserEndPointAssumption
    <3> QED
      BY <1>0, <2>1, <2>2, <3>1, <3>2, ActionKeeps DEF States
  <2> QED
    BY <2>3, <2>4
<1>14. CASE TheEndAction
  <2>1. /\ hop # 0 /\ using = Nothing /\ Goto("Idle", TRUE)
        /\ UNCHANGED <<q, current, fast, look, using, waiting>>
    BY <1>14 DEF TheEndAction, At
  <2>2. AllAccounts'
    BY <1>0, <2>1, NoQueue
  <2> QED
    BY <1>0, <2>1, <2>2, ActionKeeps DEF States
<1>15. CASE UNCHANGED vars
  <2>1. AllAccounts'
    BY <1>0, <1>15, NoQueue DEF vars
  <2> QED
    BY <1>0, <1>15, <2>1 DEF vars, machine, SlotsInv, TypeOK, InTick
<1> QED
  BY <1>1, <1>2, <1>3, <1>4, <1>6, <1>7, <1>8, <1>9, <1>10, <1>11, <1>12, <1>13, <1>14,
     <1>15 DEF Next, MachineStep

(* One buffer number serves all entries, and it is the right one: for any  *)
(* number of entries and slots, and however pushes fall between a pop and  *)
(* its release, the marked slots of an entry are those that are queued and *)
(* the one in hand, so that every release frees the slot its pop gave out. *)
THEOREM SlotsCorrect == ASSUME SlotsFitAByte PROVE Spec => []SlotsAccounted
<1>1. Init => SlotsInv
  BY InitSlotsInv
<1>2. SlotsInv /\ [Next]_vars => SlotsInv'
  BY NextSlotsInv
<1>3. SlotsInv => SlotsAccounted
  BY AccountsAreSlots DEF SlotsInv
<1> QED
  BY <1>1, <1>2, <1>3, PTL DEF Spec

-----------------------------------------------------------------------------
(* The limits of the code: MaxStateHopTimesInSignalProcess of p_ep_state   *)
(* and MAX_HANDLE_TIMES leave room for a round.                            *)
FiveHops == MaxHops = 5 /\ MaxRuns \in Nat /\ MaxRuns >= 2

(* What an action leads to, and whether it sends and so sets isBreak. *)
Leads(next, flag) == \/ state = "Idle" /\ next = "AirMouse" /\ flag = FALSE
                     \/ state = "AirMouse" /\ next = "Key" /\ flag \in BOOLEAN
                     \/ state = "Key" /\ next = "PenTip" /\ flag \in BOOLEAN
                     \/ state = "PenTip" /\ next \in {"Other", "TheEnd"} /\ flag = FALSE
                     \/ state = "Other" /\ next = "TheEnd" /\ flag = FALSE
                     \/ state = "TheEnd" /\ next = "Idle" /\ flag = TRUE

LEMMA GotoRound ==
  ASSUME FiveHops, TypeOK, InTick, Round, hop # 0, NEW next, NEW flag,
         Leads(next, flag), Goto(next, flag)
  PROVE  Round' /\ state' = next
<1>0. /\ run \in 1 .. 2 /\ hop \in Nat /\ MaxHops = 5 /\ MaxRuns \in Nat /\ MaxRuns >= 2
      /\ state' = next
  BY DEF FiveHops, TypeOK, InTick, Round, Goto
<1>1. CASE run = 2
  <2>1. state = "TheEnd" /\ next = "Idle" /\ flag = TRUE
    BY <1>1 DEF Round, Leads
  <2>2. hop' = 0 /\ run' = 0
    BY <2>1 DEF Goto
  <2> QED
    BY <1>0, <2>1, <2>2 DEF Round
<1>2. CASE run = 1 /\ state = "Other"
  <2>1. hop = 5 /\ next = "TheEnd" /\ flag = FALSE
    BY <1>2 DEF Round, Leads
  <2>2. hop' = 1 /\ run' = 2
    BY <1>0, <1>2, <2>1 DEF Goto
  <2> QED
    BY <1>0, <2>1, <2>2 DEF Round
<1>3. CASE run = 1 /\ state = "TheEnd"
  <2>1. next = "Idle" /\ flag = TRUE
    BY <1>3 DEF Leads
  <2>2. hop' = 0 /\ run' = 0
    BY <1>3, <2>1 DEF Goto
  <2> QED
    BY <1>0, <2>1, <2>2 DEF Round
<1>4. CASE run = 1 /\ state \notin {"Other", "TheEnd"}
  <2>1. hop < 5
    BY <1>0, <1>4 DEF Round
  <2>2. hop' = hop + 1 /\ run' = 1
    BY <1>0, <1>4, <2>1 DEF Goto
  <2>3. \/ hop' = 2 /\ next = "AirMouse"
        \/ hop' = 3 /\ next = "Key"
        \/ hop' = 4 /\ next = "PenTip"
        \/ hop' = 5 /\ next \in {"Other", "TheEnd"}
    BY <1>0, <1>4, <2>2 DEF Round, Leads
  <2> QED
    BY <1>0, <2>2, <2>3 DEF Round
<1> QED
  BY <1>0, <1>1, <1>2, <1>3, <1>4

(* The end of an action: the entry of the state it leaves does not wait. *)
LEMMA GotoServed ==
  ASSUME FiveHops, SlotsInv, RoundInv, hop # 0, NEW next, NEW flag,
         Leads(next, flag), Goto(next, flag), state \notin waiting,
         waiting' = waiting, using' = Nothing,
         \A e \in waiting : CanFirstOut(q'[e])
  PROVE  RoundInv'
<1>1. Round' /\ state' = next
  BY GotoRound DEF SlotsInv, RoundInv
<1>2. waiting \subseteq Fast /\ Nothing \notin Fast /\ Fast = {"AirMouse", "Key", "PenTip"}
  BY UserEndPointAssumption DEF SlotsInv, TypeOK, Entries, Fast
<1>3. waiting \cap Passed = {}
  BY DEF RoundInv, Served
<1>4. waiting \cap Passed' = {}
  <2>1. CASE state \in {"Other", "TheEnd", "PenTip"}
    <3>1. waiting = {}
      BY <1>2, <1>3, <2>1 DEF Passed
    <3> QED
      BY <3>1
  <2>2. CASE state = "Idle"
    <3>1. state' = "AirMouse"
      BY <1>1, <2>2 DEF Leads
    <3> QED
      BY <3>1 DEF Passed
  <2>3. CASE state = "AirMouse"
    <3>1. state' = "Key"
      BY <1>1, <2>3 DEF Leads
    <3> QED
      BY <2>3, <3>1 DEF Passed
  <2>4. CASE state = "Key"
    <3>1. state' = "PenTip"
      BY <1>1, <2>4 DEF Leads
    <3> QED
      BY <1>3, <2>4, <3>1 DEF Passed
  <2> QED
    BY <2>1, <2>2, <2>3, <2>4 DEF Leads
<1>5. \A e \in waiting' : CanFirstOut(q[e])'
  BY DEF CanFirstOut
<1> QED
  BY <1>1, <1>2, <1>4, <1>5 DEF RoundInv, Served

(* Only a Take that serves the entry empties a queue in a tick. *)
LEMMA PushServes ==
  ASSUME NEW r \in Queue PROVE CanFirstOut(FirstIn(r, FALSE))
<1>1. /\ N \in Nat \ {0} /\ r.used \in 0 .. N
  BY LoopQueueAssumption DEF Queue
<1>2. StateOf(r.used + 1) # "Empty"
  BY <1>1 DEF StateOf
<1> QED
  BY <1>2 DEF CanFirstOut, FirstIn

LEMMA ReleaseServes ==
  ASSUME NEW e \in Entries, NEW d \in Entries, TypeOK, ReleaseCurrent(e),
         CanFirstOut(q[d])
  PROVE  CanFirstOut(q'[d])
<1>1. \A s : ReleaseBuf(q[e], s).state = q[e].state
  BY DEF ReleaseBuf, TypeOK, Queue
<1>2. q' = [q EXCEPT ![e] = ReleaseBuf(q[e], current)]
  BY DEF ReleaseCurrent
<1>3. q'[d] = q[d] \/ (d = e /\ q'[d] = ReleaseBuf(q[e], current))
  BY <1>2 DEF TypeOK
<1> QED
  BY <1>1, <1>3 DEF CanFirstOut

LEMMA NextRoundInv ==
  FiveHops /\ SlotsInv /\ RoundInv /\ [Next]_vars => RoundInv'
<1> SUFFICES ASSUME FiveHops, SlotsInv, RoundInv, [Next]_vars PROVE RoundInv'
  OBVIOUS
<1>0. /\ TypeOK /\ InTick /\ Round /\ Served
      /\ q \in [Entries -> Queue] /\ waiting \subseteq Fast
      /\ Fast \subseteq Entries /\ SlowEntries \cap Fast = {} /\ Nothing \notin Entries
      /\ \A e \in waiting : e \in Entries /\ CanFirstOut(q[e])
      /\ using \notin waiting
  BY UserEndPointAssumption DEF SlotsInv, TypeOK, Entries, RoundInv, Served
<1>1. ASSUME NEW e \in Entries, Push(e) PROVE RoundInv'
  <2>1. /\ q' = [q EXCEPT ![e] = FirstIn(q[e], FALSE)]
        /\ UNCHANGED <<machine, using, waiting>>
    BY <1>1 DEF Push
  <2>2. CanFirstOut(FirstIn(q[e], FALSE))
    BY <1>0, PushServes
  <2>3. \A d \in waiting : CanFirstOut(q'[d])
    BY <1>0, <2>1, <2>2
  <2>4. \A d \in waiting' : CanFirstOut(q[d])'
    BY <2>1, <2>3 DEF CanFirstOut
  <2> QED
    BY <1>0, <2>1, <2>4 DEF RoundInv, Round, Served, Passed, machine
<1>2. CASE Reset
  <2>1. /\ run = 0 /\ UNCHANGED <<machine, using, waiting>>
    BY <1>2 DEF Reset
  <2>2. waiting = {}
    BY <1>0, <2>1 DEF Round, Served, Passed
  <2> QED
    BY <1>0, <2>1, <2>2 DEF RoundInv, Round, Served, Passed, machine
<1>3. CASE Tick
  <2>1. /\ run = 0 /\ run' = 1 /\ hop' = 1
        /\ UNCHANGED <<q, state, using>>
        /\ waiting' = {e \in Fast : CanFirstOut(q[e])}
    BY <1>3 DEF Tick
  <2>2. state' = "Idle" /\ using' = Nothing /\ Nothing \notin Fast
    BY <1>0, <2>1 DEF Round, InTick
  <2>3. Round'
    BY <2>1, <2>2 DEF Round
  <2>4. Passed' = {}
    BY <2>1, <2>2 DEF Passed
  <2>5. \A d \in waiting' : CanFirstOut(q[d])'
    BY <2>1 DEF CanFirstOut
  <2> QED
    BY <2>1, <2>2, <2>3, <2>4, <2>5 DEF RoundInv, Served
<1>4. CASE IdleAction
  <2>1. /\ hop # 0 /\ state = "Idle" /\ using = Nothing /\ Goto("AirMouse", FALSE)
        /\ UNCHANGED <<q, using, waiting>>
    BY <1>4 DEF IdleAction, At
  <2>2. Leads("AirMouse", FALSE) /\ state \notin waiting
    BY <1>0, <2>1 DEF Leads, Fast
  <2> QED
    BY <1>0, <2>1, <2>2, GotoServed
<1>5. ASSUME NEW e \in Entries, Take(e) PROVE RoundInv'
  <2>1. /\ q' = [q EXCEPT ![e] = FirstOut(q[e])] /\ using' = e
        /\ waiting' = waiting \ {e} /\ UNCHANGED machine
    BY <1>5 DEF Take
  <2>2. \A d \in waiting' : q'[d] = q[d]
    BY <1>0, <2>1
  <2>3. \A d \in waiting' : CanFirstOut(q[d])'
    BY <1>0, <2>1, <2>2 DEF CanFirstOut
  <2> QED
    BY <1>0, <2>1, <2>3 DEF RoundInv, Round, Served, Passed, machine
<1>6. ASSUME NEW e \in Fast, TakeFast(e) PROVE RoundInv'
  BY <1>0, <1>5, <1>6 DEF TakeFast
<1>7. CASE TakeSlow
  <2>1. Slow[look] \in Entries
    BY <1>0 DEF SlowEntries, Entries, TypeOK
  <2> QED
    BY <1>5, <1>7, <2>1 DEF TakeSlow
<1>8. ASSUME NEW e \in {"AirMouse", "Key"}, SentFast(e) PROVE RoundInv'
  <2>1. /\ e \in Fast /\ e \in Entries /\ using = e /\ e # Nothing
        /\ ReleaseCurrent(e) /\ Goto(After[e], TRUE) /\ waiting' = waiting
    BY <1>0, <1>8 DEF SentFast, Fast
  <2>2. hop # 0 /\ state = e /\ using' = Nothing
    BY <1>0, <2>1 DEF InTick, ReleaseCurrent
  <2>3. Leads(After[e], TRUE)
    BY <2>2 DEF Leads, After
  <2>4. \A d \in waiting : CanFirstOut(q'[d])
    BY <1>0, <2>1, ReleaseServes
  <2> QED
    BY <1>0, <2>1, <2>2, <2>3, <2>4, GotoServed
<1>9. ASSUME NEW e \in {"AirMouse", "Key"}, NoFast(e) PROVE RoundInv'
  <2>1. /\ hop # 0 /\ state = e /\ using = Nothing /\ Goto(After[e], FALSE)
        /\ ~CanFirstOut(q[e]) /\ UNCHANGED <<q, using, waiting>>
    BY <1>9 DEF NoFast, At
  <2>2. Leads(After[e], FALSE)
    BY <2>1 DEF Leads, After
  <2>3. state \notin waiting /\ using' = Nothing
    BY <1>0, <2>1
  <2> QED
    BY <1>0, <2>1, <2>2, <2>3, GotoServed
<1>10. CASE SentPenTip
  <2>1. /\ "PenTip" \in Fast /\ "PenTip" \in Entries /\ using = "PenTip"
        /\ "PenTip" # Nothing /\ ReleaseCurrent("PenTip") /\ Goto("TheEnd", FALSE)
        /\ waiting' = waiting
    BY <1>0, <1>10 DEF SentPenTip, Fast
  <2>2. hop # 0 /\ state = "PenTip" /\ using' = Nothing
    BY <1>0, <2>1 DEF InTick, ReleaseCurrent
  <2>3. Leads("TheEnd", FALSE)
    BY <2>2 DEF Leads
  <2>4. \A d \in waiting : CanFirstOut(q'[d])
    BY <1>0, <2>1, ReleaseServes
  <2> QED
    BY <1>0, <2>1, <2>2, <2>3, <2>4, GotoServed
<1>11. CASE NoPenTip
  <2>1. /\ hop # 0 /\ state = "PenTip" /\ using = Nothing /\ ~CanFirstOut(q["PenTip"])
        /\ UNCHANGED <<q, using, waiting>>
    BY <1>11 DEF NoPenTip, At
  <2>2. PICK next \in {"Other", "TheEnd"} : Goto(next, FALSE)
    BY <1>11 DEF NoPenTip
  <2>3. Leads(next, FALSE)
    BY <2>1 DEF Leads
  <2>4. state \notin waiting /\ using' = Nothing
    BY <1>0, <2>1
  <2> QED
    BY <1>0, <2>1, <2>2, <2>3, <2>4, GotoServed
<1>12. CASE SentSlow
  <2>1. PICK e \in Entries : using = e /\ e \in SlowEntries /\ e # Nothing
    BY <1>0, <1>12 DEF SentSlow, Entries
  <2>2. ReleaseCurrent(e) /\ Goto("TheEnd", FALSE) /\ waiting' = waiting
    BY <1>12, <2>1 DEF SentSlow
  <2>3. hop # 0 /\ state = "Other" /\ using' = Nothing
    BY <1>0, <2>1, <2>2 DEF InTick, ReleaseCurrent
  <2>4. Leads("TheEnd", FALSE) /\ state \notin waiting
    BY <1>0, <2>3 DEF Leads, Fast
  <2>5. \A d \in waiting : CanFirstOut(q'[d])
    BY <1>0, <2>1, <2>2, ReleaseServes
  <2> QED
    BY <2>2, <2>3, <2>4, <2>5, GotoServed
<1>13. CASE NoSlow
  <2>1. /\ hop # 0 /\ state = "Other" /\ using = Nothing
        /\ UNCHANGED <<q, using, waiting>>
        /\ \/ UNCHANGED <<state, hop, run>>
           \/ Goto("TheEnd", FALSE)
    BY <1>13 DEF NoSlow, At
  <2>2. CASE UNCHANGED <<state, hop, run>>
    BY <1>0, <2>1, <2>2 DEF RoundInv, Round, Served, Passed, CanFirstOut
  <2>3. CASE Goto("TheEnd", FALSE)
    <3>1. Leads("TheEnd", FALSE) /\ state \notin waiting
      BY <1>0, <2>1 DEF Leads, Fast
    <3> QED
      BY <1>0, <2>1, <2>3, <3>1, GotoServed
  <2> QED
    BY <2>1, <2>2, <2>3
<1>14. CASE TheEndAction
  <2>1. /\ hop # 0 /\ state = "TheEnd" /\ using = Nothing /\ Goto("Idle", TRUE)
        /\ UNCHANGED <<q, using, waiting>>
    BY <1>14 DEF TheEndAction, At
  <2>2. Leads("Idle", TRUE) /\ state \notin waiting
    BY <1>0, <2>1 DEF Leads, Fast
  <2> QED
    BY <1>0, <2>1, <2>2, GotoServed
<1>15. CASE UNCHANGED vars
  BY <1>0, <1>15 DEF vars, machine, RoundInv, Round, Served, Passed, CanFirstOut
<1> QED
  BY <1>1, <1>2, <1>3, <1>4, <1>6, <1>7, <1>8, <1>9, <1>10, <1>11, <1>12, <1>13, <1>14,
     <1>15 DEF Next, MachineStep

LEMMA InitRoundInv == Init => RoundInv
<1> SUFFICES ASSUME Init PROVE RoundInv
  OBVIOUS
<1>1. Round
  BY DEF Init, Round
<1>2. Served
  BY DEF Init, Served
<1> QED
  BY <1>1, <1>2 DEF RoundInv

LEMMA BetweenTicks ==
  SlotsInv /\ RoundInv => TickGoesRound /\ AllFastInOneTick
<1> SUFFICES ASSUME SlotsInv, RoundInv, run = 0
             PROVE  state = "Idle" /\ using = Nothing /\ waiting = {}
  BY DEF TickGoesRound, AllFastInOneTick
<1>1. state = "Idle" /\ waiting \cap Passed = {} /\ waiting \subseteq Fast
  BY DEF SlotsInv, TypeOK, RoundInv, Round, Served
<1>2. Passed = Fast
  BY <1>1 DEF Passed
<1>3. using = Nothing
  BY DEF SlotsInv, InTick
<1> QED
  BY <1>1, <1>2, <1>3

(* Five hops a run and two runs a tick are enough for the whole round,     *)
(* whichever of its actions send something: between two ticks the machine  *)
(* is idle and holds nothing.                                              *)
THEOREM RoundComplete ==
  ASSUME SlotsFitAByte, FiveHops PROVE Spec => []TickGoesRound
<1>1. Init => SlotsInv /\ RoundInv
  BY InitSlotsInv, InitRoundInv
<1>2. SlotsInv /\ RoundInv /\ [Next]_vars => (SlotsInv /\ RoundInv)'
  BY NextSlotsInv, NextRoundInv
<1>3. SlotsInv /\ RoundInv => TickGoesRound
  BY BetweenTicks
<1> QED
  BY <1>1, <1>2, <1>3, PTL DEF Spec

(* What DongleTask.c:60 asks for: air mouse, key and pen tip that come     *)
(* together are sent in one tick, whatever is pushed meanwhile and however *)
(* many slow entries there are.                                            *)
THEOREM FastServed ==
  ASSUME SlotsFitAByte, FiveHops PROVE Spec => []AllFastInOneTick
<1>1. Init => SlotsInv /\ RoundInv
  BY InitSlotsInv, InitRoundInv
<1>2. SlotsInv /\ RoundInv /\ [Next]_vars => (SlotsInv /\ RoundInv)'
  BY NextSlotsInv, NextRoundInv
<1>3. SlotsInv /\ RoundInv => AllFastInOneTick
  BY BetweenTicks
<1> QED
  BY <1>1, <1>2, <1>3, PTL DEF Spec
-----------------------------------------------------------------------------
(* The bytes of the slots (DataFlow). *)

\* The rings are those of the endpoint.
LEMMA SameRing ==
  /\ Flow!Queue = Queue /\ Flow!Slots = Slots /\ Flow!Cleared = Cleared
  /\ \A r, p : Flow!FirstIn(r, p) = FirstIn(r, p)
  /\ \A r : Flow!FirstOut(r) = FirstOut(r)
  /\ \A r, s : Flow!ReleaseBuf(r, s) = ReleaseBuf(r, s)
  /\ \A r : Flow!CanFirstIn(r) <=> CanFirstIn(r)
  /\ \A r : Flow!CanFirstOut(r) <=> CanFirstOut(r)
BY DEF Flow!Queue, Queue, Flow!Slots, Slots, Flow!Cleared, Cleared, Flow!FirstIn,
       FirstIn, Flow!FirstOut, FirstOut, Flow!ReleaseBuf, ReleaseBuf,
       Flow!CanFirstIn, CanFirstIn, Flow!CanFirstOut, CanFirstOut,
       Flow!Marks, Marks, Flow!ListState, ListState, Flow!StateOf, StateOf,
       Flow!NextNode, NextNode

(* The slot in hand lies right before the oldest one queued: only the      *)
(* entry in hand could pop the next one, and it may not yet.               *)
JustPopped == using # Nothing => q[using].first_out = NextNode(current)

FlowInv == Flow!TypeOK /\ AllAccounts /\ JustPopped

\* At the start nothing waits and nothing is in hand.
LEMMA FlowInit == Flow!Init => FlowInv
<1> SUFFICES ASSUME Flow!Init PROVE FlowInv
  OBVIOUS
<1>1. Flow!Cleared = Cleared /\ Flow!Queue = Queue /\ Flow!Slots = Slots
  BY SameRing
<1>2. q = [e \in Entries |-> Cleared] /\ current = 0 /\ using = Nothing
  BY <1>1 DEF Flow!Init
<1>3. Cleared \in Queue /\ 0 \in Slots
  BY ClearedProps, LoopQueueAssumption DEF Slots
<1>4. q \in [Entries -> Queue] /\ current \in Slots /\ using \in Entries \cup {Nothing}
  BY <1>2, <1>3
<1>5. store \in [Entries -> [Slots -> [first : Values \cup {Length}, rest : Values]]]
  BY <1>1 DEF Flow!Init
<1>6. AllAccounts
  BY <1>2, ClearedAccount, UserEndPointAssumption DEF AllAccounts, InHand
<1> QED
  BY <1>1, <1>2, <1>4, <1>5, <1>6 DEF FlowInv, Flow!TypeOK, JustPopped

(* A push: the slot it takes is nobody's, the byte too far goes to the     *)
(* slot behind it.                                                         *)
LEMMA FlowPushIs ==
  ASSUME FlowInv, NEW e \in Entries, NEW v \in Values, Flow!Push(e, v)
  PROVE  /\ CanFirstIn(q[e]) /\ q[e].first_in \in Slots
         /\ q' = [q EXCEPT ![e] = FirstIn(q[e], FALSE)]
         /\ UNCHANGED <<current, using>>
         /\ \A d \in Entries : d # e => store'[d] = store[d]
         /\ \A s \in Slots : s # q[e].first_in =>
              store'[e][s] = IF s = q[e].first_in + 1
                             THEN [store[e][s] EXCEPT !.first = Length]
                             ELSE store[e][s]
         /\ store' \in [Entries -> [Slots -> [first : Values \cup {Length},
                                              rest  : Values]]]
<1>1. /\ Flow!Queue = Queue /\ Flow!Slots = Slots
      /\ Flow!FirstIn(q[e], FALSE) = FirstIn(q[e], FALSE)
      /\ Flow!CanFirstIn(q[e]) <=> CanFirstIn(q[e])
  BY SameRing
<1>2. /\ q \in [Entries -> Queue]
      /\ store \in [Entries -> [Slots -> [first : Values \cup {Length}, rest : Values]]]
  BY <1>1 DEF FlowInv, Flow!TypeOK
<1>3. PICK k \in Slots : k = q[e].first_in
  BY <1>2 DEF Queue
<1>4. PICK c : c = [store[e] EXCEPT ![k] = [first |-> v, rest |-> v]]
  OBVIOUS
<1>5. c \in [Slots -> [first : Values \cup {Length}, rest : Values]]
      /\ \A s \in Slots : s # k => c[s] = store[e][s]
  BY <1>2, <1>4
<1>6. PICK f : f = IF k + 1 \in Slots THEN [c EXCEPT ![k + 1].first = Length] ELSE c
  OBVIOUS
<1>7. /\ f \in [Slots -> [first : Values \cup {Length}, rest : Values]]
      /\ \A s \in Slots : s # k =>
           f[s] = IF s = k + 1 THEN [store[e][s] EXCEPT !.first = Length]
                               ELSE store[e][s]
  <2>1. k + 1 # k
    BY DEF Slots
  <2>2. CASE k + 1 \in Slots
    <3>1. f = [c EXCEPT ![k + 1] = [c[k + 1] EXCEPT !.first = Length]]
      BY <1>6, <2>2
    <3>2. [c[k + 1] EXCEPT !.first = Length] \in [first : Values \cup {Length}, rest : Values]
      BY <1>5, <2>2
    <3> QED
      BY <1>5, <2>1, <2>2, <3>1, <3>2
  <2>3. CASE k + 1 \notin Slots
    BY <1>5, <1>6, <2>3
  <2> QED
    BY <2>2, <2>3
<1>8. store' = [store EXCEPT ![e] = f]
  BY <1>1, <1>3, <1>4, <1>6 DEF Flow!Push
<1>9. /\ CanFirstIn(q[e]) /\ q' = [q EXCEPT ![e] = FirstIn(q[e], FALSE)]
      /\ UNCHANGED <<current, using>>
  BY <1>1 DEF Flow!Push
<1> QED
  BY <1>2, <1>3, <1>7, <1>8, <1>9

(* A ring whose next slot is free is not full, though its state may be any. *)
LEMMA NotFullWhenFree ==
  ASSUME NEW r, NEW x, Account(r, x), CanFirstIn(r)
  PROVE  /\ r \in Queue /\ r.used \in 0 .. N - 1 /\ r.first_in \notin Queued(r) \cup x
         /\ FirstIn(r, FALSE).first_out = r.first_out
<1>1. /\ r \in Queue /\ RingConsistent(r) /\ r.first_in \in Slots /\ r.used \in 0 .. N
      /\ r.buf[r.first_in] = "free"
  BY DEF Account, Queue, CanFirstIn
<1>2. r.first_in \notin Queued(r) \cup x
  BY <1>1 DEF Account
<1>3. r.first_in \in Queued(r) <=> r.used = N
  BY <1>1, FirstInProps
<1>4. r.used \in 0 .. N - 1
  BY <1>1, <1>2, <1>3, LoopQueueAssumption
<1>5. r.state # "Full"
  BY <1>1, <1>4, StateOfProps, LoopQueueAssumption DEF RingConsistent
<1> QED
  BY <1>1, <1>2, <1>4, <1>5 DEF FirstIn

\* A push keeps the accounts.
LEMMA FlowPushKeeps ==
  ASSUME FlowInv, NEW e \in Entries, NEW v \in Values, Flow!Push(e, v)
  PROVE  FlowInv'
<1>1. PICK r : r = q[e]
  OBVIOUS
<1>2. /\ CanFirstIn(r) /\ q' = [q EXCEPT ![e] = FirstIn(r, FALSE)]
      /\ UNCHANGED <<current, using>>
      /\ store' \in [Entries -> [Slots -> [first : Values \cup {Length},
                                           rest  : Values]]]
  BY <1>1, FlowPushIs
<1>3. /\ q \in [Entries -> Queue] /\ current \in Slots
      /\ using \in Entries \cup {Nothing}
  BY SameRing DEF FlowInv, Flow!TypeOK
<1>4. Account(r, InHand(e))
  BY <1>1 DEF FlowInv, AllAccounts
<1>5. Account(FirstIn(r, FALSE), InHand(e))
  BY <1>2, <1>4, PushAccount
<1>6. q' \in [Entries -> Queue] /\ AllAccounts'
  <2>1. \A d \in Entries : InHand(d)' = InHand(d)
    BY <1>2 DEF InHand
  <2> QED
    BY <1>2, <1>3, <1>5, <2>1, OneQueue DEF FlowInv
<1>7. FirstIn(r, FALSE).first_out = r.first_out
  BY <1>2, <1>4, NotFullWhenFree
<1>8. JustPopped'
  BY <1>1, <1>2, <1>3, <1>7 DEF FlowInv, JustPopped
<1> QED
  BY <1>2, <1>3, <1>6, <1>8, SameRing DEF FlowInv, Flow!TypeOK

\* So does a pop, which puts its slot in hand.
LEMMA FlowPopKeeps ==
  ASSUME FlowInv, NEW e \in Entries, Flow!Pop(e)
  PROVE  FlowInv' /\ store' = store /\ using = Nothing /\ using' = e
<1>1. PICK r : r = q[e]
  OBVIOUS
<1>2. /\ using = Nothing /\ CanFirstOut(r) /\ q' = [q EXCEPT ![e] = FirstOut(r)]
      /\ current' = r.first_out /\ using' = e /\ store' = store
  BY <1>1, SameRing DEF Flow!Pop
<1>3. q \in [Entries -> Queue]
  BY SameRing DEF FlowInv, Flow!TypeOK
<1>4. Account(r, {})
  BY <1>1, <1>2, UserEndPointAssumption DEF FlowInv, AllAccounts, InHand
<1>5. Account(FirstOut(r), {r.first_out}) /\ r.first_out \in Slots
  BY <1>2, <1>4, TakeAccount
<1>6. q' \in [Entries -> Queue] /\ AllAccounts'
  <2>1. InHand(e)' = {r.first_out} /\ \A d \in Entries \ {e} : InHand(d)' = InHand(d)
    BY <1>2, UserEndPointAssumption DEF InHand
  <2> QED
    BY <1>2, <1>3, <1>5, <2>1, OneQueue DEF FlowInv
<1>7. JustPopped'
  <2>1. q'[e] = FirstOut(r)
    BY <1>2, <1>3
  <2> QED
    BY <1>2, <2>1 DEF JustPopped, FirstOut
<1> QED
  BY <1>2, <1>5, <1>6, <1>7, SameRing DEF FlowInv, Flow!TypeOK

\* And a release.
LEMMA FlowReleaseKeeps ==
  ASSUME SlotsFitAByte, FlowInv, Flow!Release
  PROVE  FlowInv' /\ store' = store
<1>1. using \in Entries /\ current \in Slots /\ q \in [Entries -> Queue]
  BY SameRing DEF Flow!Release, FlowInv, Flow!TypeOK
<1>2. PICK e \in Entries : e = using
  BY <1>1
<1>3. PICK r : r = q[e]
  OBVIOUS
<1>4. PICK s \in Slots : s = current
  BY <1>1
<1>5. /\ q' = [q EXCEPT ![e] = ReleaseBuf(r, s)] /\ using' = Nothing
      /\ UNCHANGED <<store, current>>
  BY <1>2, <1>3, <1>4, SameRing DEF Flow!Release
<1>6. Account(r, {s})
  BY <1>2, <1>3, <1>4 DEF FlowInv, AllAccounts, InHand
<1>7. Account(ReleaseBuf(r, s), {})
  BY <1>6, ReleaseAccount
<1>8. InHand(e)' = {} /\ \A d \in Entries \ {e} : InHand(d)' = InHand(d)
  BY <1>2, <1>5, UserEndPointAssumption DEF InHand
<1>9. q' \in [Entries -> Queue] /\ AllAccounts'
  BY <1>1, <1>5, <1>7, <1>8, OneQueue DEF FlowInv
<1> QED
  BY <1>1, <1>5, <1>9, SameRing DEF FlowInv, Flow!TypeOK, JustPopped

\* Every step of an entry keeps all of it.
LEMMA FlowNext ==
  ASSUME SlotsFitAByte, FlowInv, [Flow!Next]_(Flow!vars)
  PROVE  FlowInv'
<1>1. CASE UNCHANGED Flow!vars
  <2>1. UNCHANGED <<q, store, current, using>>
    BY <1>1 DEF Flow!vars
  <2>2. AllAccounts'
    BY <2>1, NoQueue DEF FlowInv
  <2> QED
    BY <2>1, <2>2 DEF FlowInv, Flow!TypeOK, JustPopped
<1>2. ASSUME NEW e \in Entries, NEW v \in Values, Flow!Push(e, v) PROVE FlowInv'
  BY <1>2, FlowPushKeeps
<1>3. ASSUME NEW e \in Entries, Flow!Pop(e) PROVE FlowInv'
  BY <1>3, FlowPopKeeps
<1>4. CASE Flow!Release
  BY <1>4, FlowReleaseKeeps
<1> QED
  BY <1>1, <1>2, <1>3, <1>4 DEF Flow!Next

-----------------------------------------------------------------------------
(* A free slot right before a queued one is the only one that is left.     *)
LEMMA LastBeforeQueued ==
  ASSUME NEW r \in Queue, RingConsistent(r), r.used \in 0 .. N - 1,
         r.first_in + 1 \in Queued(r)
  PROVE  \A t \in Slots : t # r.first_in => t \in Queued(r)
<1>1. r.first_in \in Slots /\ r.first_out \in Slots
  BY DEF Queue
<1>2. r.first_in = SlotAt(r, r.used)
  BY LoopQueueAssumption DEF RingConsistent
<1>3. r.used = N - 1
  BY <1>1, <1>2, LoopQueueAssumption DEF SlotAt, Queued, Offset, Slots
<1>4. ASSUME NEW t \in Slots, t # r.first_in PROVE Offset(r, t) < r.used
  BY <1>1, <1>2, <1>3, <1>4, LoopQueueAssumption DEF SlotAt, Offset, Slots
<1> QED
  BY <1>4 DEF Queued

(* And so is one right before the slot in hand, if that is the last one    *)
(* popped.                                                                 *)
LEMMA LastBeforeHand ==
  ASSUME NEW r \in Queue, RingConsistent(r), r.used \in 0 .. N - 1,
         NEW c \in Slots, r.first_out = NextNode(c), c = r.first_in + 1
  PROVE  \A t \in Slots : t # r.first_in => t \in Queued(r) \cup {c}
<1>1. r.first_in \in Slots /\ r.first_out \in Slots
  BY DEF Queue
<1>2. r.first_in = SlotAt(r, r.used)
  BY LoopQueueAssumption DEF RingConsistent
<1>3. r.first_out = IF c + 1 >= N THEN 0 ELSE c + 1
  BY DEF NextNode
<1>4. r.used = N - 2
  <2>1. CASE c + 1 >= N
    BY <1>1, <1>2, <1>3, <2>1, LoopQueueAssumption DEF SlotAt, Slots
  <2>2. CASE ~(c + 1 >= N)
    BY <1>1, <1>2, <1>3, <2>2, LoopQueueAssumption DEF SlotAt, Slots
  <2> QED
    BY <2>1, <2>2
<1>5. ASSUME NEW t \in Slots, t # r.first_in, t # c PROVE Offset(r, t) < r.used
  <2>1. CASE c + 1 >= N
    BY <1>1, <1>3, <1>4, <1>5, <2>1, LoopQueueAssumption DEF Offset, Slots
  <2>2. CASE ~(c + 1 >= N)
    BY <1>1, <1>3, <1>4, <1>5, <2>2, LoopQueueAssumption DEF Offset, Slots
  <2> QED
    BY <2>1, <2>2
<1> QED
  BY <1>5 DEF Queued

(* A push changes what waits or is being read only with the byte too far,  *)
(* and only when it takes the last free slot of its entry.                 *)
LEMMA SpoiltByLastOnly ==
  ASSUME FlowInv, NEW d \in Entries, NEW v \in Values, Flow!Push(d, v),
         NEW e \in Entries, NEW s \in InUse(e), store'[e][s] # store[e][s]
  PROVE  /\ s # 0 /\ store'[e][s] = [store[e][s] EXCEPT !.first = Length]
         /\ InUse(e)' = Slots
<1>1. PICK r : r = q[d]
  OBVIOUS
<1>2. /\ q \in [Entries -> Queue] /\ current \in Slots
      /\ using \in Entries \cup {Nothing}
  BY SameRing DEF FlowInv, Flow!TypeOK
<1>3. \A b \in Entries : InUse(b) = Queued(q[b]) \cup InHand(b)
  BY DEF InUse, InHand
<1>4. s \in Slots
  BY <1>2 DEF InUse, Queued
<1>5. e = d
  BY FlowPushIs
<1>6. Account(r, InHand(d)) /\ CanFirstIn(r)
  BY <1>1, FlowPushIs DEF FlowInv, AllAccounts
<1>7. /\ r \in Queue /\ RingConsistent(r) /\ r.used \in 0 .. N - 1
      /\ r.first_in \in Slots /\ r.first_in \notin Queued(r) \cup InHand(d)
  BY <1>6, NotFullWhenFree DEF Account, Queue
<1>8. s # r.first_in
  BY <1>1, <1>3, <1>5, <1>7
<1>9. s = r.first_in + 1 /\ store'[e][s] = [store[e][s] EXCEPT !.first = Length]
  BY <1>1, <1>4, <1>5, <1>8, FlowPushIs
<1>10. \A t \in Slots : t # r.first_in => t \in Queued(r) \cup InHand(d)
  <2>1. CASE s \in Queued(r)
    BY <1>7, <1>9, <2>1, LastBeforeQueued
  <2>2. CASE s \in InHand(d)
    <3>1. using = d /\ s = current
      BY <2>2 DEF InHand
    <3>2. d # Nothing
      BY UserEndPointAssumption
    <3>3. r.first_out = NextNode(s)
      BY <1>1, <3>1, <3>2 DEF FlowInv, JustPopped
    <3> QED
      BY <1>4, <1>7, <1>9, <2>2, <3>1, <3>3, LastBeforeHand DEF InHand
  <2> QED
    BY <1>1, <1>3, <1>5, <2>1, <2>2
<1>11. InUse(d)' = Queued(r) \cup {r.first_in} \cup InHand(d)
  <2>1. q'[d] = FirstIn(r, FALSE) /\ UNCHANGED <<current, using>>
    BY <1>1, <1>2, FlowPushIs
  <2>2. InUse(d)' = Queued(q'[d]) \cup InHand(d)
    BY <2>1 DEF InUse, InHand, Queued, Offset
  <2>3. Queued(FirstIn(r, FALSE)) = Queued(r) \cup {r.first_in}
    BY <1>7, FirstInProps
  <2> QED
    BY <2>1, <2>2, <2>3
<1>12. InUse(d)' = Slots
  BY <1>2, <1>7, <1>10, <1>11 DEF Queued, InHand
<1> QED
  BY <1>4, <1>5, <1>7, <1>9, <1>12, LoopQueueAssumption DEF Slots

(* DataFlow.c keeps its slots apart: the marks of an entry are those of    *)
(* what waits in it and of what is being read, and no push takes a slot    *)
(* of either.                                                              *)
THEOREM FlowAccounts == ASSUME SlotsFitAByte
  PROVE Flow!Spec => [](Flow!TypeOK /\ AllAccounts)
<1>1. Flow!Init => FlowInv
  BY FlowInit
<1>2. FlowInv /\ [Flow!Next]_(Flow!vars) => FlowInv'
  BY FlowNext
<1>3. FlowInv => Flow!TypeOK /\ AllAccounts
  BY DEF FlowInv
<1> QED
  BY <1>1, <1>2, <1>3, PTL DEF Flow!Spec

(* How far the byte too far of DataFlowPush reaches (DataFlow.c:163, the   *)
(* run data_flow_overwrite): of what waits or is being read nothing but    *)
(* the first byte of a slot other than the first is lost, and only to a    *)
(* push that leaves its entry without a free slot.                         *)
THEOREM SpoiltWhenFull == ASSUME SlotsFitAByte
  PROVE Flow!Spec =>
          [][\A e \in Entries : \A s \in InUse(e) :
               store'[e][s] # store[e][s] =>
                 /\ s # 0 /\ store'[e][s] = [store[e][s] EXCEPT !.first = Length]
                 /\ InUse(e)' = Slots]_(Flow!vars)
<1>1. Flow!Init => FlowInv
  BY FlowInit
<1>2. FlowInv /\ [Flow!Next]_(Flow!vars) => FlowInv'
  BY FlowNext
<1>3. ASSUME FlowInv, [Flow!Next]_(Flow!vars)
      PROVE  [\A e \in Entries : \A s \in InUse(e) :
                store'[e][s] # store[e][s] =>
                  /\ s # 0 /\ store'[e][s] = [store[e][s] EXCEPT !.first = Length]
                  /\ InUse(e)' = Slots]_(Flow!vars)
  <2> SUFFICES ASSUME Flow!Next, NEW e \in Entries, NEW s \in InUse(e),
                      store'[e][s] # store[e][s]
               PROVE  /\ s # 0
                      /\ store'[e][s] = [store[e][s] EXCEPT !.first = Length]
                      /\ InUse(e)' = Slots
    BY <1>3
  <2>1. ~Flow!Release
    BY <1>3, FlowReleaseKeeps
  <2>2. \A d \in Entries : ~Flow!Pop(d)
    BY <1>3, FlowPopKeeps
  <2>3. PICK d \in Entries, v \in Values : Flow!Push(d, v)
    BY <2>1, <2>2 DEF Flow!Next
  <2> QED
    BY <1>3, <2>3, SpoiltByLastOnly
<1> QED
  BY <1>1, <1>2, <1>3, PTL DEF Flow!Spec
-----------------------------------------------------------------------------
(* The machine's actions until CheckOtherNotify asks the i-th slow entry,  *)
(* when neither a fast entry nor one before it has anything: a round that  *)
(* is under way may have to end first.                                     *)
Dist(i) ==
  CASE state = "Idle"     -> i + 4
    [] state = "TheEnd"   -> i + 5
    [] state = "AirMouse" -> IF using = Nothing THEN i + 3 ELSE i + 8
    [] state = "Key"      -> IF using = Nothing /\ fast = 0 THEN i + 2 ELSE i + 7
    [] state = "PenTip"   -> IF using = Nothing /\ fast = 0 THEN i + 1 ELSE i + 6
    [] state = "Other"    -> IF using # Nothing THEN i + 6
                             ELSE IF look <= i THEN i - look
                             ELSE i + 7 + (Len(Slow) - look)

\* With the tick that has to come when none is under way; 0 when it is asked.
Comes(i) == 2 * Dist(i) + IF run = 0 THEN 1 ELSE 0

Quiet(i) == \A e \in Fast \cup {Slow[j] : j \in 1 .. i - 1} : ~CanFirstOut(q[e])

Serves(i) ==
  Quiet(i) =>
    IF Comes(i) = 0
    THEN /\ MachineStep /\ CanFirstOut(q[Slow[i]]) => Take(Slow[i])
         /\ ~MachineStep => Comes(i)' = 0
    ELSE /\ Comes(i)' <= Comes(i)
         /\ Tick \/ MachineStep => Comes(i)' < Comes(i)

\* CheckOtherNotify begins with the first entry.
LookInv == state # "Other" => look = 1

(* LookInv is inductive. *)
LEMMA NextLook == SlotsInv /\ LookInv /\ [Next]_vars => LookInv'
<1> SUFFICES ASSUME SlotsInv, LookInv, [Next]_vars PROVE LookInv'
  OBVIOUS
<1>1. CASE \/ \E e \in Entries : Push(e)
           \/ Reset \/ Tick \/ UNCHANGED vars
  BY <1>1 DEF Push, Reset, Tick, vars, machine, LookInv
<1>2. CASE (\E e \in Fast : TakeFast(e)) \/ TakeSlow
  BY <1>2 DEF TakeFast, TakeSlow, Take, machine, LookInv
<1>3. CASE \/ IdleAction \/ SentPenTip \/ NoPenTip \/ TheEndAction
           \/ \E e \in {"AirMouse", "Key"} : SentFast(e) \/ NoFast(e)
  <2>1. state # "Other" /\ look' = look
    BY <1>3 DEF IdleAction, SentPenTip, NoPenTip, TheEndAction, SentFast, NoFast,
                At, SlotsInv, InTick, Fast
  <2> QED
    BY <2>1 DEF LookInv
<1>4. CASE SentSlow \/ NoSlow
  BY <1>4 DEF SentSlow, NoSlow, At, LookInv
<1> QED
  BY <1>1, <1>2, <1>3, <1>4 DEF Next, MachineStep

(* The distance is a number. *)
LEMMA DistIs ==
  ASSUME SlotsInv, LookInv, NEW i \in 1 .. Len(Slow)
  PROVE  /\ Dist(i) \in Nat
         /\ Dist(i) = 0 <=> state = "Other" /\ using = Nothing /\ look = i
<1>1. /\ look \in Nat /\ look >= 1 /\ look <= Len(Slow) /\ Len(Slow) \in Nat
      /\ i \in Nat /\ i >= 1
  BY UserEndPointAssumption DEF SlotsInv, TypeOK
<1>2. state \in States
  BY DEF SlotsInv, TypeOK
<1>3. CASE state = "Other"
  <2>1. Dist(i) = IF using # Nothing THEN i + 6
                  ELSE IF look <= i THEN i - look ELSE i + 7 + (Len(Slow) - look)
    BY <1>3 DEF Dist
  <2> QED
    BY <1>1, <1>3, <2>1
<1>4. CASE state # "Other"
  <2>1. Dist(i) \in {i + 1, i + 2, i + 3, i + 4, i + 5, i + 6, i + 7, i + 8}
    BY <1>2, <1>4 DEF Dist, States
  <2> QED
    BY <1>1, <1>4, <2>1
<1> QED
  BY <1>3, <1>4

\* The same of the next state.
LEMMA DistNext ==
  (SlotsInv /\ LookInv => \A i \in 1 .. Len(Slow) : Dist(i) \in Nat)'
<1>1. SlotsInv /\ LookInv => \A i \in 1 .. Len(Slow) : Dist(i) \in Nat
  BY DistIs
<1> QED
  BY <1>1, PTL

(* What a step of the machine leads to. *)
LEMMA StepDown ==
  ASSUME SlotsInv, LookInv, NEW i \in 1 .. Len(Slow), Quiet(i), MachineStep,
         ~(state = "Other" /\ using = Nothing /\ look = i)
  PROVE  Dist(i)' < Dist(i)
<1>0. /\ look \in Nat /\ look >= 1 /\ look <= Len(Slow) /\ Len(Slow) \in Nat
      /\ i \in Nat /\ i >= 1 /\ i <= Len(Slow) /\ fast \in Nat
  BY UserEndPointAssumption DEF SlotsInv, TypeOK
<1>1. \A e \in Fast : ~CanFirstOut(q[e])
  BY DEF Quiet
<1>2. Nothing \notin Fast /\ Nothing \notin SlowEntries
  BY UserEndPointAssumption DEF Entries
<1>3. CASE IdleAction
  <2>1. state = "Idle" /\ state' = "AirMouse" /\ using' = Nothing
    BY <1>3 DEF IdleAction, At, Goto
  <2> QED
    BY <1>0, <2>1 DEF Dist
<1>4. ASSUME NEW e \in Fast, TakeFast(e) PROVE FALSE
  BY <1>1, <1>4 DEF TakeFast
<1>5. CASE NoFast("AirMouse")
  <2>1. /\ state = "AirMouse" /\ using = Nothing /\ state' = "Key" /\ using' = Nothing
        /\ fast' = 0
    BY <1>5 DEF NoFast, At, Goto, After, SlotsInv, InTick
  <2> QED
    BY <1>0, <2>1 DEF Dist
<1>6. CASE SentFast("AirMouse")
  <2>1. /\ state = "AirMouse" /\ using # Nothing /\ state' = "Key"
    BY <1>2, <1>6 DEF SentFast, Goto, After, SlotsInv, InTick, Fast
  <2> QED
    BY <1>0, <2>1 DEF Dist
<1>7. CASE NoFast("Key")
  <2>1. /\ state = "Key" /\ using = Nothing /\ state' = "PenTip" /\ using' = Nothing
        /\ fast' = fast
    BY <1>7 DEF NoFast, At, Goto, After
  <2> QED
    BY <1>0, <2>1 DEF Dist
<1>8. CASE SentFast("Key")
  <2>1. /\ state = "Key" /\ using # Nothing /\ state' = "PenTip"
    BY <1>2, <1>8 DEF SentFast, Goto, After, SlotsInv, InTick, Fast
  <2> QED
    BY <1>0, <2>1 DEF Dist
<1>9. CASE SentPenTip
  <2>1. state = "PenTip" /\ using # Nothing /\ state' = "TheEnd"
    BY <1>2, <1>9 DEF SentPenTip, Goto, SlotsInv, InTick, Fast
  <2> QED
    BY <1>0, <2>1 DEF Dist
<1>10. CASE NoPenTip
  <2>1. /\ state = "PenTip" /\ using = Nothing /\ look' = look /\ using' = Nothing
        /\ state' = IF fast > 0 THEN "TheEnd" ELSE "Other"
    BY <1>10 DEF NoPenTip, At, Goto
  <2>2. look = 1
    BY <2>1 DEF LookInv
  <2>3. CASE fast > 0
    BY <1>0, <2>1, <2>3 DEF Dist
  <2>4. CASE fast = 0
    <3>1. state' = "Other"
      BY <2>1, <2>4
    <3>2. Dist(i)' = i - 1
      BY <1>0, <2>1, <2>2, <3>1 DEF Dist
    <3>3. Dist(i) = i + 1
      BY <2>1, <2>4 DEF Dist
    <3> QED
      BY <1>0, <3>2, <3>3
  <2> QED
    BY <1>0, <2>3, <2>4
<1>11. CASE TakeSlow
  <2>1. /\ state = "Other" /\ using = Nothing /\ CanFirstOut(q[Slow[look]])
        /\ using' = Slow[look] /\ state' = "Other"
    BY <1>11 DEF TakeSlow, At, Take, machine
  <2>2. ~(look < i)
    BY <1>0, <2>1 DEF Quiet
  <2>3. look > i
    BY <1>0, <2>1, <2>2
  <2>4. using' # Nothing
    BY <1>0, <1>2, <2>1 DEF SlowEntries
  <2>5. Dist(i) = i + 7 + (Len(Slow) - look) /\ Dist(i)' = i + 6
    BY <1>0, <2>1, <2>3, <2>4 DEF Dist
  <2> QED
    BY <1>0, <2>5
<1>12. CASE SentSlow
  <2>1. state = "Other" /\ using # Nothing /\ state' = "TheEnd"
    BY <1>2, <1>12 DEF SentSlow, Goto, SlotsInv, InTick
  <2> QED
    BY <1>0, <2>1 DEF Dist
<1>13. CASE NoSlow
  <2>1. state = "Other" /\ using = Nothing /\ using' = Nothing /\ look # i
    BY <1>13 DEF NoSlow, At
  <2>2. CASE look < Len(Slow)
    <3>1. look' = look + 1 /\ state' = "Other"
      BY <1>13, <2>1, <2>2 DEF NoSlow
    <3>2. Dist(i) = IF look <= i THEN i - look ELSE i + 7 + (Len(Slow) - look)
      BY <2>1 DEF Dist
    <3>3. Dist(i)' = IF look + 1 <= i THEN i - (look + 1)
                     ELSE i + 7 + (Len(Slow) - (look + 1))
      BY <2>1, <3>1 DEF Dist
    <3> QED
      BY <1>0, <2>1, <3>2, <3>3
  <2>3. CASE ~(look < Len(Slow))
    <3>1. state' = "TheEnd" /\ look = Len(Slow) /\ look > i
      BY <1>0, <1>13, <2>1, <2>3 DEF NoSlow, Goto
    <3> QED
      BY <1>0, <2>1, <3>1 DEF Dist
  <2> QED
    BY <2>2, <2>3
<1>14. CASE TheEndAction
  <2>1. state = "TheEnd" /\ state' = "Idle"
    BY <1>14 DEF TheEndAction, At, Goto
  <2> QED
    BY <1>0, <2>1 DEF Dist
<1> QED
  BY <1>3, <1>4, <1>5, <1>6, <1>7, <1>8, <1>9, <1>10, <1>11, <1>12, <1>13, <1>14
     DEF MachineStep

(* A step of the machine serves the entry or comes closer to it. *)
LEMMA NextServes ==
  ASSUME SlotsInv, SlotsInv', LookInv, LookInv', [Next]_vars, NEW i \in 1 .. Len(Slow)
  PROVE  Serves(i)
<1> SUFFICES ASSUME Quiet(i)
             PROVE  IF Comes(i) = 0
                    THEN /\ MachineStep /\ CanFirstOut(q[Slow[i]]) => Take(Slow[i])
                         /\ ~MachineStep => Comes(i)' = 0
                    ELSE /\ Comes(i)' <= Comes(i)
                         /\ Tick \/ MachineStep => Comes(i)' < Comes(i)
  BY DEF Serves
<1>1. /\ Dist(i) \in Nat
      /\ Dist(i) = 0 <=> state = "Other" /\ using = Nothing /\ look = i
  BY DistIs
<1>2. Dist(i)' \in Nat
  BY DistNext
<1>3. Comes(i) = 0 <=> Dist(i) = 0 /\ run # 0
  BY <1>1 DEF Comes
<1>4. CASE MachineStep
  <2>1. run # 0
    <3>1. hop # 0 \/ using # Nothing
      <4>1. Nothing \notin Entries
        BY UserEndPointAssumption
      <4> QED
        BY <1>4, <4>1
           DEF MachineStep, IdleAction, TakeFast, SentFast, NoFast, SentPenTip, NoPenTip,
               TakeSlow, SentSlow, NoSlow, TheEndAction, At, Entries, Fast
    <3> QED
      BY <3>1 DEF SlotsInv, InTick
  <2>2. CASE Dist(i) = 0
    <3>1. state = "Other" /\ using = Nothing /\ look = i
      BY <1>1, <2>2
    <3>2. CanFirstOut(q[Slow[i]]) => TakeSlow
      <4>1. Nothing \notin Fast /\ Nothing \notin SlowEntries
        BY UserEndPointAssumption DEF Entries
      <4> QED
        BY <1>4, <3>1, <4>1
           DEF MachineStep, IdleAction, TakeFast, SentFast, NoFast, SentPenTip, NoPenTip,
               SentSlow, NoSlow, TheEndAction, At, Fast
    <3> QED
      BY <1>3, <1>4, <2>1, <2>2, <3>1, <3>2 DEF TakeSlow
  <2>3. CASE Dist(i) # 0
    <3>1. Dist(i)' < Dist(i)
      BY <1>1, <1>4, <2>3, StepDown
    <3>2. Comes(i)' < Comes(i)
      BY <1>1, <1>2, <2>1, <3>1 DEF Comes
    <3>3. Comes(i) # 0 /\ Comes(i)' <= Comes(i)
      BY <1>1, <1>2, <1>3, <2>3, <3>2 DEF Comes
    <3> QED
      BY <3>2, <3>3
  <2> QED
    BY <2>2, <2>3
<1>5. CASE Tick
  <2>1. run = 0 /\ run' = 1 /\ UNCHANGED <<state, using, fast, look>>
    BY <1>5 DEF Tick
  <2>2. Dist(i)' = Dist(i)
    BY <2>1 DEF Dist
  <2>3. Comes(i) # 0 /\ Comes(i)' < Comes(i) /\ Comes(i)' <= Comes(i)
    BY <1>1, <2>1, <2>2 DEF Comes
  <2>4. ~MachineStep \/ MachineStep
    OBVIOUS
  <2> QED
    BY <2>3
<1>6. CASE (\E e \in Entries : Push(e)) \/ Reset \/ UNCHANGED vars
  <2>1. UNCHANGED <<state, using, fast, look, run>>
    BY <1>6 DEF Push, Reset, vars, machine
  <2>5. Dist(i)' = Dist(i)
    BY <2>1 DEF Dist
  <2>2. Comes(i)' = Comes(i) /\ Comes(i) \in Nat
    BY <1>1, <2>1, <2>5 DEF Comes
  <2>3. CASE Tick \/ MachineStep
    BY <1>4, <1>5, <2>3
  <2>4. CASE ~(Tick \/ MachineStep)
    BY <2>2, <2>4
  <2> QED
    BY <2>3, <2>4
<1> QED
  BY <1>4, <1>5, <1>6 DEF Next

(* When the fast entries and the slow ones before it have fallen silent,   *)
(* every step of the machine and every tick brings the turn of a slow      *)
(* entry nearer, however many steps a run and runs a tick has, and when it *)
(* is its turn and it has something, the next step takes that: it is       *)
(* SlowServedWhenQuiet for any number of entries, but for the tick that    *)
(* has to come.                                                            *)
THEOREM SlowComesUp == ASSUME SlotsFitAByte
  PROVE Spec => /\ [](\A i \in 1 .. Len(Slow) : Comes(i) \in Nat)
                /\ [][\A i \in 1 .. Len(Slow) : Serves(i)]_vars
<1>1. Init => SlotsInv /\ LookInv
  BY InitSlotsInv DEF Init, LookInv
<1>2. SlotsInv /\ LookInv /\ [Next]_vars => (SlotsInv /\ LookInv)'
  BY NextSlotsInv, NextLook
<1>3. SlotsInv /\ LookInv /\ (SlotsInv /\ LookInv)' /\ [Next]_vars
        => [\A i \in 1 .. Len(Slow) : Serves(i)]_vars
  BY NextServes
<1>4. SlotsInv /\ LookInv => \A i \in 1 .. Len(Slow) : Comes(i) \in Nat
  BY DistIs DEF Comes
<1> QED
  BY <1>1, <1>2, <1>3, <1>4, PTL DEF Spec
==============================================================================
