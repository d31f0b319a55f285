-------------------------- MODULE StringDebugProofs --------------------------
(***************************************************************************)
(* The debug strings when the timer hook is an interrupt: the plain flag   *)
(* is then a critical section, the queue is never entered twice, the log   *)
(* is what was accepted, in order, for every length of the queue and every *)
(* number of strings, and nothing goes round without printing. With a      *)
(* thread instead (string_debug_threads) the first of these is refuted.    *)
(***************************************************************************)
EXTENDS StringDebug, LoopQueueProofs

(* While main is in its section the flag is set and the hook not running. *)
Excl == pc["main"] \in Inside => isTimerLocked /\ pc["timer"] = "sleep"

(* The slots that have been popped and not yet released. *)
InPrint   == {"print", "release"}
HandSlots == {slot[t] : t \in {u \in Threads : pc[u] \in InPrint}}

(* A string that is being stored is the youngest of the queue. *)
LastFilled ==
  \A t \in Threads : pc[t] = "fill" => q.used # 0 /\ slot[t] = SlotAt(q, q.used - 1)

(* A string is accepted once at most after it was offered. *)
Offered == Len(accepted) + (IF \E t \in Threads : pc[t] \in {"push", "fill"}
                            THEN 1 ELSE 0) <= pushed

Slotted == Account(q, HandSlots) /\ LastFilled
InOrder == accepted = log \o InHand \o Filled
IInv    == TypeOK /\ Excl /\ Slotted /\ Offered /\ InOrder

-----------------------------------------------------------------------------
(* One thread at a time is inside: what the definitions say of all threads *)
(* is then said of the one that runs.                                      *)
Alone(t) == \A u \in Threads \ {t} : pc[u] \notin Inside

LEMMA RunsAlone ==
  ASSUME TypeOK, Excl, Interrupt, NEW t \in Threads, MayRun(t), pc[t] # "sleep"
  PROVE  Alone(t)
BY DEF Alone, Excl, MayRun, Threads, Inside

LEMMA StepAlone ==
  ASSUME TypeOK, Excl, Interrupt, NEW t \in Threads, MayRun(t), Alone(t),
         NEW place, Goto(t, place), t = "main" /\ place \in Inside => isTimerLocked',
         t = "timer" \/ pc["timer"] = "sleep"
  PROVE  Excl' /\ Alone(t)' /\ pc'[t] = place
<1>1. pc' = [pc EXCEPT ![t] = place] /\ pc \in [Threads -> Inside \cup {"out", "asked", "sleep", "debug"}]
  BY DEF Goto, TypeOK
<1>2. pc'[t] = place /\ \A u \in Threads \ {t} : pc'[u] = pc[u]
  BY <1>1
<1>3. Alone(t)'
  BY <1>2 DEF Alone
<1>4. Excl'
  <2>1. CASE t = "timer"
    <3>1. pc'["main"] = pc["main"] /\ pc["main"] \notin Inside
      BY <1>2, <2>1 DEF Alone, Threads
    <3> QED
      BY <3>1 DEF Excl
  <2>2. CASE t = "main"
    <3>1. pc'["timer"] = "sleep"
      BY <1>2, <2>2 DEF Threads
    <3> QED
      BY <1>2, <2>2, <3>1 DEF Excl
  <2> QED
    BY <2>1, <2>2 DEF Threads
<1> QED
  BY <1>2, <1>3, <1>4

LEMMA Views ==
  \A t \in Threads : Alone(t) =>
    /\ HandSlots = IF pc[t] \in InPrint THEN {slot[t]} ELSE {}
    /\ InHand = IF pc[t] = "print" THEN <<CharBuf[slot[t]]>> ELSE << >>
    /\ Filled = IF pc[t] = "fill" THEN Front(Stored) ELSE Stored
    /\ LastFilled <=> (pc[t] = "fill" => q.used # 0 /\ slot[t] = SlotAt(q, q.used - 1))
    /\ (\E u \in Threads : pc[u] \in {"push", "fill"}) <=> pc[t] \in {"push", "fill"}
<1> SUFFICES ASSUME NEW t \in Threads, Alone(t)
    PROVE /\ HandSlots = IF pc[t] \in InPrint THEN {slot[t]} ELSE {}
          /\ InHand = IF pc[t] = "print" THEN <<CharBuf[slot[t]]>> ELSE << >>
          /\ Filled = IF pc[t] = "fill" THEN Front(Stored) ELSE Stored
          /\ LastFilled <=> (pc[t] = "fill" => q.used # 0 /\ slot[t] = SlotAt(q, q.used - 1))
          /\ (\E u \in Threads : pc[u] \in {"push", "fill"}) <=> pc[t] \in {"push", "fill"}
  OBVIOUS
<1>1. \A u \in Threads : u = t \/ pc[u] \notin Inside
  BY DEF Alone
<1>2. \A u \in Threads : pc[u] \in InPrint \cup {"push", "fill"} => u = t
  BY <1>1 DEF Inside, InPrint
<1>3. HandSlots = IF pc[t] \in InPrint THEN {slot[t]} ELSE {}
  BY <1>2 DEF HandSlots
<1>4. InHand = IF pc[t] = "print" THEN <<CharBuf[slot[t]]>> ELSE << >>
  <2>1. CASE pc[t] = "print"
    <3>1. (CHOOSE u \in Threads : pc[u] = "print") = t
      BY <1>2, <2>1 DEF InPrint
    <3> QED
      BY <2>1, <3>1 DEF InHand
  <2>2. CASE pc[t] # "print"
    <3>1. ~ \E u \in Threads : pc[u] = "print"
      BY <1>2, <2>2 DEF InPrint
    <3> QED
      BY <2>2, <3>1 DEF InHand
  <2> QED
    BY <2>1, <2>2
<1>5. Filled = IF pc[t] = "fill" THEN Front(Stored) ELSE Stored
  BY <1>2 DEF Filled
<1>6. LastFilled <=> (pc[t] = "fill" => q.used # 0 /\ slot[t] = SlotAt(q, q.used - 1))
  BY <1>2 DEF LastFilled
<1> QED
  BY <1>2, <1>3, <1>4, <1>5, <1>6

LEMMA ViewsNext ==
  \A t \in Threads : Alone(t)' =>
    /\ HandSlots' = IF pc'[t] \in InPrint THEN {slot'[t]} ELSE {}
    /\ InHand' = IF pc'[t] = "print" THEN <<CharBuf'[slot'[t]]>> ELSE << >>
    /\ Filled' = IF pc'[t] = "fill" THEN Front(Stored') ELSE Stored'
    /\ LastFilled' <=> (pc'[t] = "fill" => q'.used # 0 /\ slot'[t] = SlotAt(q', q'.used - 1))
    /\ (\E u \in Threads : pc'[u] \in {"push", "fill"}) <=> pc'[t] \in {"push", "fill"}
<1>1. (\A t \in Threads : Alone(t) =>
        /\ HandSlots = IF pc[t] \in InPrint THEN {slot[t]} ELSE {}
        /\ InHand = IF pc[t] = "print" THEN <<CharBuf[slot[t]]>> ELSE << >>
        /\ Filled = IF pc[t] = "fill" THEN Front(Stored) ELSE Stored
        /\ LastFilled <=> (pc[t] = "fill" => q.used # 0 /\ slot[t] = SlotAt(q, q.used - 1))
        /\ (\E u \in Threads : pc[u] \in {"push", "fill"}) <=> pc[t] \in {"push", "fill"})'
  BY Views, PTL
<1> QED
  BY <1>1 DEF SlotAt, Front

-----------------------------------------------------------------------------
(* Histories are bounded, and the strings stored are those of the slots.   *)
LEMMA BoundedProps ==
  ASSUME NEW s
  PROVE  s \in BoundedSeq(Strings, MaxStrings) <=> s \in Seq(Strings) /\ Len(s) <= MaxStrings
<1>0. MaxStrings \in Nat
  BY StringDebugAssumption
<1>1. ASSUME s \in BoundedSeq(Strings, MaxStrings)
      PROVE  s \in Seq(Strings) /\ Len(s) <= MaxStrings
  <2>1. PICK m \in 0 .. MaxStrings : s \in [1 .. m -> Strings]
    BY <1>1 DEF BoundedSeq, SeqOf
  <2>2. m \in Nat
    BY <1>0
  <2> QED
    BY <1>0, <2>1, <2>2, SeqOfElements
<1>2. ASSUME s \in Seq(Strings), Len(s) <= MaxStrings
      PROVE  s \in BoundedSeq(Strings, MaxStrings)
  <2>1. Len(s) \in 0 .. MaxStrings /\ s \in [1 .. Len(s) -> Strings]
    BY <1>0, <1>2, LenProperties
  <2> QED
    BY <2>1 DEF BoundedSeq, SeqOf
<1> QED
  BY <1>1, <1>2

LEMMA StoredIsSeq ==
  TypeOK => /\ q.used \in 0 .. N /\ Stored \in [1 .. q.used -> Strings]
            /\ Stored \in Seq(Strings) /\ Len(Stored) = q.used
<1> SUFFICES ASSUME TypeOK
             PROVE  /\ q.used \in 0 .. N /\ Stored \in [1 .. q.used -> Strings]
                    /\ Stored \in Seq(Strings) /\ Len(Stored) = q.used
  OBVIOUS
<1>1. q \in Queue /\ q.used \in 0 .. N /\ CharBuf \in [Slots -> Strings] /\ N \in Nat
  BY LoopQueueAssumption DEF TypeOK, Queue
<1>2. ASSUME NEW i \in 1 .. q.used PROVE CharBuf[SlotAt(q, i - 1)] \in Strings
  <2>1. i - 1 \in 0 .. N - 1
    BY <1>1
  <2> QED
    BY <1>1, <2>1, SlotAtProps
<1>3. Stored \in [1 .. q.used -> Strings]
  BY <1>2 DEF Stored
<1>4. q.used \in Nat
  BY <1>1
<1> QED
  BY <1>1, <1>3, <1>4, SeqOfElements

LEMMA StoredIsSeqNext ==
  TypeOK' => /\ q'.used \in 0 .. N /\ Stored' \in [1 .. q'.used -> Strings]
             /\ Stored' \in Seq(Strings) /\ Len(Stored') = q'.used
<1>1. (TypeOK => /\ q.used \in 0 .. N /\ Stored \in [1 .. q.used -> Strings]
                 /\ Stored \in Seq(Strings) /\ Len(Stored) = q.used)'
  BY StoredIsSeq, PTL
<1> QED
  BY <1>1

LEMMA FrontOfElements ==
  ASSUME NEW S, NEW n \in Nat, NEW f \in [1 .. n -> S],
         NEW g \in [1 .. n + 1 -> S], \A i \in 1 .. n : g[i] = f[i]
  PROVE  Front(g) = f
<1>1. f \in Seq(S) /\ Len(f) = n /\ g \in Seq(S) /\ Len(g) = n + 1
  BY SeqOfElements
<1>2. Front(g) = SubSeq(g, 1, n)
  BY <1>1 DEF Front
<1>3. 1 \in Int /\ n \in Int /\ \A i \in 1 .. n : g[i] \in S
  OBVIOUS
<1>4. /\ SubSeq(g, 1, n) \in Seq(S)
      /\ Len(SubSeq(g, 1, n)) = IF 1 <= n THEN n - 1 + 1 ELSE 0
      /\ \A i \in 1 .. n - 1 + 1 : SubSeq(g, 1, n)[i] = g[1 + i - 1]
  BY <1>3, SubSeqProperties
<1>5. Len(SubSeq(g, 1, n)) = n /\ \A i \in 1 .. n : SubSeq(g, 1, n)[i] = f[i]
  BY <1>4
<1> QED
  BY <1>1, <1>2, <1>4, <1>5, SeqEqual

LEMMA HeadIsFirst ==
  ASSUME NEW S, NEW s \in Seq(S), s # << >>
  PROVE  s = <<Head(s)>> \o Tail(s)
<1>1. /\ Head(s) \in S /\ Head(s) = s[1] /\ Len(s) \in Nat \ {0}
      /\ <<Head(s)>> \in Seq(S) /\ Len(<<Head(s)>>) = 1
      /\ Tail(s) \in Seq(S) /\ Len(Tail(s)) = Len(s) - 1
      /\ \A i \in 1 .. Len(s) - 1 : Tail(s)[i] = s[i + 1]
  BY HeadTailProperties, EmptySeq
<1>2. /\ <<Head(s)>> \o Tail(s) \in Seq(S)
      /\ Len(<<Head(s)>> \o Tail(s)) = 1 + (Len(s) - 1)
      /\ \A i \in 1 .. 1 + (Len(s) - 1) :
           (<<Head(s)>> \o Tail(s))[i] = IF i <= 1 THEN <<Head(s)>>[i] ELSE Tail(s)[i - 1]
  BY <1>1, ConcatProperties
<1>3. \A i \in 1 .. Len(s) : (<<Head(s)>> \o Tail(s))[i] = s[i]
  BY <1>1, <1>2
<1> QED
  BY <1>1, <1>2, <1>3, SeqEqual

(* A step that leaves the queue and the histories alone, of a thread that  *)
(* has nothing in hand before and after.                                   *)
LEMMA QuietKeeps ==
  ASSUME IInv, Interrupt, NEW t \in Threads, MayRun(t), Alone(t),
         NEW place \in {"out", "asked", "sleep", "debug", "push", "pop"}, Goto(t, place),
         pc[t] \notin InPrint \cup {"fill"},
         UNCHANGED <<queue, slot, accepted, log>>,
         place \in Inside => isTimerLocked',
         isTimerLocked' \in BOOLEAN, flushing' \in [Threads -> BOOLEAN],
         pushed' \in Strings,
         IF place = "push" THEN pc[t] = "out" /\ pushed' = pushed + 1 ELSE pushed' = pushed
  PROVE  IInv'
<1>1. TypeOK /\ Excl /\ Account(q, HandSlots) /\ LastFilled /\ Offered /\ InOrder
  BY DEF IInv, Slotted
<1>2. t = "timer" \/ pc["timer"] = "sleep"
  BY DEF MayRun, Threads
<1>3. Excl' /\ Alone(t)' /\ pc'[t] = place
  BY <1>1, <1>2, StepAlone
<1>4. q' = q /\ CharBuf' = CharBuf /\ slot' = slot /\ accepted' = accepted /\ log' = log
  BY DEF queue
<1>5. HandSlots = {} /\ InHand = << >> /\ Filled = Stored
  BY Views DEF InPrint
<1>6. HandSlots' = {} /\ InHand' = << >> /\ Filled' = Stored' /\ LastFilled'
  BY <1>3, ViewsNext DEF InPrint
<1>7. Stored' = Stored
  BY <1>4 DEF Stored
<1>8. InOrder'
  BY <1>1, <1>4, <1>5, <1>6, <1>7 DEF InOrder
<1>9. Slotted'
  BY <1>1, <1>4, <1>5, <1>6
     DEF Slotted, Account, Queued, Offset, RingConsistent, SlotAt
<1>10. TypeOK'
  <2>1. pc' \in [Threads -> Inside \cup {"out", "asked", "sleep", "debug"}]
    BY <1>1 DEF Goto, TypeOK, Inside
  <2> QED
    BY <1>1, <1>4, <2>1 DEF TypeOK
<1>11. Offered'
  <2>1. Len(accepted) \in Nat /\ pushed \in Nat
    BY <1>1, BoundedProps, LenProperties, StringDebugAssumption DEF TypeOK, Strings
  <2>2. (\E u \in Threads : pc'[u] \in {"push", "fill"}) <=> place = "push"
    BY <1>3, ViewsNext
  <2>3. (\E u \in Threads : pc[u] \in {"push", "fill"}) <=> pc[t] = "push"
    BY Views
  <2>4. Offered' <=> Len(accepted) + (IF place = "push" THEN 1 ELSE 0) <= pushed'
    BY <1>4, <2>2 DEF Offered
  <2>5. Len(accepted) + (IF pc[t] = "push" THEN 1 ELSE 0) <= pushed
    BY <1>1, <2>3 DEF Offered
  <2> QED
    BY <2>1, <2>4, <2>5
<1> QED
  BY <1>3, <1>8, <1>9, <1>10, <1>11 DEF IInv

-----------------------------------------------------------------------------
(* What every action inside the section starts from, and what is left to   *)
(* show of it.                                                             *)
LEMMA InsideStart ==
  ASSUME IInv, Interrupt, NEW t \in Threads, MayRun(t), pc[t] \in Inside,
         NEW place, Goto(t, place), place \in Inside \cup {"out"},
         place \in Inside => isTimerLocked' = isTimerLocked
  PROVE  /\ Alone(t) /\ Alone(t)' /\ Excl' /\ pc'[t] = place
         /\ pc' \in [Threads -> Inside \cup {"out", "asked", "sleep", "debug"}]
         /\ q \in Queue /\ RingConsistent(q) /\ q.used \in 0 .. N
         /\ q.first_in \in Slots /\ q.first_out \in Slots
         /\ CharBuf \in [Slots -> Strings] /\ slot \in [Threads -> Slots]
         /\ slot[t] \in Slots /\ pushed \in Strings /\ pushed \in Nat
         /\ accepted \in Seq(Strings) /\ Len(accepted) \in Nat
         /\ log \in Seq(Strings) /\ Len(log) \in Nat
<1>1. TypeOK /\ Excl /\ Account(q, HandSlots)
  BY DEF IInv, Slotted
<1>2. Alone(t) /\ (t = "timer" \/ pc["timer"] = "sleep")
  BY <1>1, RunsAlone DEF MayRun, Inside, Threads
<1>3. t = "main" => isTimerLocked
  BY <1>1 DEF Excl
<1>4. Alone(t)' /\ Excl' /\ pc'[t] = place
  BY <1>1, <1>2, <1>3, StepAlone
<1>5. pc' \in [Threads -> Inside \cup {"out", "asked", "sleep", "debug"}]
  BY <1>1 DEF Goto, TypeOK
<1>6. q \in Queue /\ RingConsistent(q)
  BY <1>1 DEF Account
<1>7. q.used \in 0 .. N /\ q.first_in \in Slots /\ q.first_out \in Slots
  BY <1>6 DEF Queue
<1>8. /\ CharBuf \in [Slots -> Strings] /\ slot \in [Threads -> Slots]
      /\ slot[t] \in Slots /\ pushed \in Strings
  BY <1>1 DEF TypeOK
<1>9. pushed \in Nat
  BY <1>8, StringDebugAssumption DEF Strings
<1>10. /\ accepted \in Seq(Strings) /\ Len(accepted) \in Nat
       /\ log \in Seq(Strings) /\ Len(log) \in Nat
  BY <1>1, BoundedProps, LenProperties DEF TypeOK
<1> QED
  BY <1>2, <1>4, <1>5, <1>6, <1>7, <1>8, <1>9, <1>10

(* Storing the string into a queue that has room: a new place, and the     *)
(* strings before it as they were.                                         *)
LEMMA QueueInKeeps ==
  ASSUME IInv, Interrupt, NEW t \in Threads, QueueIn(t)
  PROVE  IInv'
<1>0. TypeOK /\ Account(q, HandSlots) /\ Offered /\ InOrder
  BY DEF IInv, Slotted
<1>1. /\ MayRun(t) /\ pc[t] = "push" /\ CanFirstIn(q) /\ q' = FirstIn(q, FALSE)
      /\ slot' = [slot EXCEPT ![t] = q.first_in] /\ Goto(t, "fill")
      /\ UNCHANGED <<CharBuf, isTimerLocked, flushing, pushed, accepted, log>>
  BY DEF QueueIn
<1>2. /\ Alone(t) /\ Alone(t)' /\ Excl' /\ pc'[t] = "fill"
      /\ pc' \in [Threads -> Inside \cup {"out", "asked", "sleep", "debug"}]
      /\ q \in Queue /\ RingConsistent(q) /\ q.used \in 0 .. N
      /\ q.first_in \in Slots
      /\ slot \in [Threads -> Slots] /\ CharBuf \in [Slots -> Strings]
  BY <1>1, InsideStart DEF Inside
<1>3. /\ HandSlots = {} /\ HandSlots' = {} /\ InHand = << >> /\ InHand' = << >>
      /\ Filled = Stored /\ Filled' = Front(Stored')
      /\ LastFilled' <=> q'.used # 0 /\ slot'[t] = SlotAt(q', q'.used - 1)
  BY <1>1, <1>2, Views, ViewsNext DEF InPrint
<1>4. Account(q', {})
  BY <1>0, <1>1, <1>3, PushAccount
<1>5. q.used # N
  <2>1. q.used = N => q.first_in \in Queued(q)
    BY <1>2, FirstInProps
  <2>2. q.first_in \notin Queued(q)
    BY <1>0, <1>1, <1>2 DEF Account, CanFirstIn
  <2> QED
    BY <2>1, <2>2
<1>6. /\ q'.used = q.used + 1
      /\ \A i \in 0 .. N - 1 : SlotAt(q', i) = SlotAt(q, i)
      /\ SlotAt(q, q.used) = q.first_in
  BY <1>1, <1>2, <1>5, FirstInOrder
<1>7. LastFilled'
  <2>1. q'.used # 0 /\ q'.used - 1 = q.used /\ q.used \in 0 .. N - 1
    BY <1>2, <1>5, <1>6, LoopQueueAssumption
  <2>2. slot'[t] = q.first_in
    BY <1>1, <1>2
  <2> QED
    BY <1>3, <1>6, <2>1, <2>2
<1>8. TypeOK'
  <2>1. q' \in Queue /\ slot' \in [Threads -> Slots]
    BY <1>1, <1>2, <1>4 DEF Account
  <2> QED
    BY <1>0, <1>1, <1>2, <2>1 DEF TypeOK
<1>9. Front(Stored') = Stored
  <2>1. /\ Stored \in [1 .. q.used -> Strings]
        /\ Stored' \in [1 .. q.used + 1 -> Strings]
    BY <1>0, <1>6, <1>8, StoredIsSeq, StoredIsSeqNext
  <2>2. ASSUME NEW i \in 1 .. q.used PROVE Stored'[i] = Stored[i]
    <3>1. i - 1 \in 0 .. N - 1 /\ i \in 1 .. q.used + 1
      BY <1>2, LoopQueueAssumption
    <3>2. CharBuf'[SlotAt(q', i - 1)] = CharBuf[SlotAt(q, i - 1)]
      BY <1>1, <1>6, <3>1
    <3> QED
      BY <1>6, <3>1, <3>2 DEF Stored
  <2>3. q.used \in Nat
    BY <1>2
  <2> QED
    BY <2>1, <2>2, <2>3, FrontOfElements
<1>10. InOrder'
  BY <1>0, <1>1, <1>3, <1>9 DEF InOrder
<1>11. Slotted'
  BY <1>3, <1>4, <1>7
     DEF Slotted, Account, Queued, Offset, RingConsistent, SlotAt
<1>12. Offered'
  BY <1>0, <1>1, <1>2, Views, ViewsNext DEF Offered
<1> QED
  BY <1>2, <1>8, <1>10, <1>11, <1>12 DEF IInv

(* The string goes to its place, and is accepted as the youngest. *)
LEMMA FillKeeps ==
  ASSUME IInv, Interrupt, NEW t \in Threads, Fill(t)
  PROVE  IInv'
<1>0. TypeOK /\ Account(q, HandSlots) /\ LastFilled /\ Offered /\ InOrder
  BY DEF IInv, Slotted
<1>1. /\ MayRun(t) /\ pc[t] = "fill"
      /\ CharBuf' = [CharBuf EXCEPT ![slot[t]] = pushed]
      /\ accepted' = Append(accepted, pushed) /\ isTimerLocked' = FALSE
      /\ Goto(t, "out")
      /\ UNCHANGED <<q, slot, flushing, pushed, log>>
  BY DEF Fill
<1>2. /\ Alone(t) /\ Alone(t)' /\ Excl' /\ pc'[t] = "out"
      /\ pc' \in [Threads -> Inside \cup {"out", "asked", "sleep", "debug"}]
      /\ q \in Queue /\ q.used \in 0 .. N
      /\ slot[t] \in Slots /\ CharBuf \in [Slots -> Strings]
      /\ pushed \in Strings /\ pushed \in Nat
      /\ accepted \in Seq(Strings) /\ Len(accepted) \in Nat
      /\ log \in Seq(Strings)
  BY <1>1, InsideStart DEF Inside
<1>3. /\ HandSlots = {} /\ HandSlots' = {} /\ InHand = << >> /\ InHand' = << >>
      /\ Filled = Front(Stored) /\ Filled' = Stored' /\ LastFilled'
      /\ q.used # 0 /\ slot[t] = SlotAt(q, q.used - 1)
  BY <1>0, <1>1, <1>2, Views, ViewsNext DEF InPrint
<1>4. Len(accepted) + 1 <= pushed
  BY <1>0, <1>1 DEF Offered
<1>5. TypeOK'
  <2>1. CharBuf' \in [Slots -> Strings]
    BY <1>1, <1>2
  <2>2. accepted' \in Seq(Strings) /\ Len(accepted') = Len(accepted) + 1
    BY <1>1, <1>2, AppendProperties
  <2>3. pushed <= MaxStrings
    BY <1>2, StringDebugAssumption DEF Strings
  <2>4. accepted' \in BoundedSeq(Strings, MaxStrings)
    BY <1>2, <1>4, <2>2, <2>3, BoundedProps, StringDebugAssumption
  <2>5. isTimerLocked' \in BOOLEAN
    BY <1>1
  <2> QED
    BY <1>0, <1>1, <1>2, <2>1, <2>4, <2>5 DEF TypeOK
<1>6. PICK n \in Nat : n + 1 = q.used
  <2>1. q.used - 1 \in Nat /\ (q.used - 1) + 1 = q.used
    BY <1>2, <1>3, LoopQueueAssumption
  <2> QED
    BY <2>1
<1> DEFINE front == [i \in 1 .. n |-> Stored[i]]
<1>7. /\ Stored \in [1 .. n + 1 -> Strings] /\ Stored' \in [1 .. n + 1 -> Strings]
      /\ front \in [1 .. n -> Strings]
  BY <1>0, <1>1, <1>5, <1>6, StoredIsSeq, StoredIsSeqNext
<1>8. ASSUME NEW i \in 1 .. n PROVE Stored'[i] = front[i]
  <2>1. /\ i - 1 \in 0 .. N - 1 /\ n \in 0 .. N - 1 /\ i - 1 # n
        /\ i \in 1 .. q.used /\ q.used - 1 = n
    BY <1>2, <1>6, LoopQueueAssumption
  <2>2. SlotAt(q, i - 1) \in Slots /\ SlotAt(q, i - 1) # slot[t]
    BY <1>2, <1>3, <2>1, SlotAtProps
  <2>3. CharBuf'[SlotAt(q, i - 1)] = CharBuf[SlotAt(q, i - 1)]
    BY <1>1, <1>2, <2>2
  <2> QED
    BY <1>1, <2>1, <2>3 DEF Stored
<1>9. Stored'[n + 1] = pushed
  <2>1. n + 1 \in 1 .. q.used /\ (n + 1) - 1 = q.used - 1
    BY <1>6
  <2>2. CharBuf'[slot[t]] = pushed
    BY <1>1, <1>2
  <2> QED
    BY <1>1, <1>3, <2>1, <2>2 DEF Stored
<1>10. Front(Stored) = front
  <2>1. \A i \in 1 .. n : Stored[i] = front[i]
    OBVIOUS
  <2> HIDE DEF front
  <2> QED
    BY <1>7, <2>1, FrontOfElements
<1> HIDE DEF front
<1>11. Stored' = Append(front, pushed) /\ front \in Seq(Strings)
  BY <1>7, <1>8, <1>9, AppendOfElements, SeqOfElements
<1>12. InOrder'
  <2>1. accepted = log \o front
    BY <1>0, <1>2, <1>3, <1>10, ConcatEmptySeq DEF InOrder
  <2>2. <<pushed>> \in Seq(Strings)
    BY <1>2
  <2>3. Append(accepted, pushed) = accepted \o <<pushed>>
        /\ Append(front, pushed) = front \o <<pushed>>
    BY <1>2, <1>11, AppendIsConcat
  <2>4. (log \o front) \o <<pushed>> = log \o (front \o <<pushed>>)
    BY <1>2, <1>11, <2>2, ConcatAssociative
  <2>5. log \o << >> = log
    BY <1>2, ConcatEmptySeq
  <2>6. log' = log
    BY <1>1
  <2> QED
    BY <1>1, <1>3, <1>11, <2>1, <2>3, <2>4, <2>5, <2>6 DEF InOrder
<1>13. Slotted'
  BY <1>0, <1>1, <1>3
     DEF Slotted, Account, Queued, Offset, RingConsistent, SlotAt
<1>14. Offered'
  <2>1. ~ \E u \in Threads : pc'[u] \in {"push", "fill"}
    BY <1>2, ViewsNext
  <2>2. Len(accepted') = Len(accepted) + 1
    BY <1>1, <1>2, AppendProperties
  <2> QED
    BY <1>1, <1>2, <1>4, <2>1, <2>2 DEF Offered
<1> QED
  BY <1>2, <1>5, <1>12, <1>13, <1>14 DEF IInv

(* The oldest string is taken in hand. *)
LEMMA QueueOutKeeps ==
  ASSUME IInv, Interrupt, NEW t \in Threads, QueueOut(t)
  PROVE  IInv'
<1>0. TypeOK /\ Account(q, HandSlots) /\ Offered /\ InOrder
  BY DEF IInv, Slotted
<1>1. /\ MayRun(t) /\ pc[t] = "pop" /\ CanFirstOut(q) /\ q' = FirstOut(q)
      /\ slot' = [slot EXCEPT ![t] = q.first_out] /\ Goto(t, "print")
      /\ UNCHANGED <<CharBuf, isTimerLocked, flushing, pushed, accepted, log>>
  BY DEF QueueOut
<1>2. /\ Alone(t) /\ Alone(t)' /\ Excl' /\ pc'[t] = "print"
      /\ pc' \in [Threads -> Inside \cup {"out", "asked", "sleep", "debug"}]
      /\ q \in Queue /\ RingConsistent(q) /\ q.used \in 0 .. N
      /\ q.first_out \in Slots
      /\ slot \in [Threads -> Slots] /\ CharBuf \in [Slots -> Strings]
      /\ log \in Seq(Strings)
  BY <1>1, InsideStart DEF Inside
<1>3. slot'[t] = q.first_out
  BY <1>1, <1>2
<1>4. /\ HandSlots = {} /\ HandSlots' = {q.first_out}
      /\ InHand = << >> /\ InHand' = <<CharBuf[q.first_out]>>
      /\ Filled = Stored /\ Filled' = Stored' /\ LastFilled'
  BY <1>1, <1>2, <1>3, Views, ViewsNext DEF InPrint
<1>5. Account(q', {q.first_out})
  BY <1>0, <1>1, <1>4, TakeAccount
<1>6. TypeOK'
  <2>1. q' \in Queue /\ slot' \in [Threads -> Slots]
    BY <1>1, <1>2, <1>5 DEF Account
  <2> QED
    BY <1>0, <1>1, <1>2, <2>1 DEF TypeOK
<1>7. /\ q.used \in 1 .. N /\ SlotAt(q, 0) = q.first_out /\ q'.used = q.used - 1
      /\ \A i \in 0 .. N - 2 : SlotAt(q', i) = SlotAt(q, i + 1)
  BY <1>1, <1>2, FirstOutOrder
<1>8. /\ Stored \in [1 .. q.used -> Strings] /\ Stored \in Seq(Strings)
      /\ Stored' \in [1 .. q.used - 1 -> Strings] /\ Stored' \in Seq(Strings)
      /\ q.used \in Nat \ {0}
  BY <1>0, <1>6, <1>7, StoredIsSeq, StoredIsSeqNext
<1>9. ASSUME NEW i \in 1 .. q.used - 1 PROVE Stored'[i] = Stored[i + 1]
  <2>1. /\ i - 1 \in 0 .. N - 2 /\ (i - 1) + 1 = i /\ (i + 1) - 1 = i
        /\ i + 1 \in 1 .. q.used
    BY <1>7, LoopQueueAssumption
  <2>2. SlotAt(q', i - 1) = SlotAt(q, (i + 1) - 1)
    BY <1>7, <2>1
  <2> QED
    BY <1>1, <1>7, <2>1, <2>2 DEF Stored
<1>10. Stored # << >> /\ Head(Stored) = Stored[1] /\ Stored' = Tail(Stored)
  BY <1>8, <1>9, TailOfElements
<1>11. Stored[1] = CharBuf[q.first_out]
  BY <1>7, <1>8 DEF Stored
<1>12. Stored = InHand' \o Stored'
  BY <1>4, <1>8, <1>10, <1>11, HeadIsFirst
<1>13. InOrder'
  <2>1. InHand' \in Seq(Strings)
    BY <1>2, <1>4
  <2>2. accepted = log \o Stored
    BY <1>0, <1>2, <1>4, ConcatEmptySeq DEF InOrder
  <2>3. PICK hand, rest : hand = InHand' /\ rest = Stored'
    OBVIOUS
  <2>4. hand \in Seq(Strings) /\ rest \in Seq(Strings) /\ log \in Seq(Strings)
    BY <1>2, <1>8, <2>1, <2>3
  <2>5. (log \o hand) \o rest = log \o (hand \o rest)
    BY <2>4, ConcatAssociative
  <2>6. accepted = (log \o InHand') \o Stored'
    BY <1>12, <2>2, <2>3, <2>5
  <2> QED
    BY <1>1, <1>4, <2>6 DEF InOrder
<1>14. Slotted'
  BY <1>4, <1>5
     DEF Slotted, Account, Queued, Offset, RingConsistent, SlotAt
<1>15. Offered'
  BY <1>0, <1>1, <1>2, Views, ViewsNext DEF Offered
<1> QED
  BY <1>2, <1>6, <1>13, <1>14, <1>15 DEF IInv

(* What is in hand is printed. *)
LEMMA PopStringKeeps ==
  ASSUME IInv, Interrupt, NEW t \in Threads, PopString(t)
  PROVE  IInv'
<1>0. TypeOK /\ Account(q, HandSlots) /\ Offered /\ InOrder
  BY DEF IInv, Slotted
<1>1. /\ MayRun(t) /\ pc[t] = "print" /\ log' = Append(log, CharBuf[slot[t]])
      /\ Goto(t, "release")
      /\ UNCHANGED <<queue, isTimerLocked, slot, flushing, pushed, accepted>>
  BY DEF PopString
<1>2. /\ Alone(t) /\ Alone(t)' /\ Excl' /\ pc'[t] = "release"
      /\ pc' \in [Threads -> Inside \cup {"out", "asked", "sleep", "debug"}]
      /\ CharBuf \in [Slots -> Strings] /\ slot[t] \in Slots
      /\ accepted \in Seq(Strings) /\ Len(accepted) \in Nat
      /\ log \in Seq(Strings) /\ Len(log) \in Nat
  BY <1>1, InsideStart DEF Inside
<1>3. /\ HandSlots' = HandSlots
      /\ InHand = <<CharBuf[slot[t]]>> /\ InHand' = << >>
      /\ Filled = Stored /\ Filled' = Stored' /\ LastFilled'
  BY <1>1, <1>2, Views, ViewsNext DEF InPrint, queue
<1>4. Stored' = Stored /\ Stored \in Seq(Strings) /\ Len(Stored) \in Nat
  BY <1>0, <1>1, StoredIsSeq, LenProperties DEF Stored, queue
<1>5. log' = log \o InHand /\ log' \in Seq(Strings) /\ Len(log') \in Nat
  <2>1. PICK string \in Strings : string = CharBuf[slot[t]]
    BY <1>2
  <2>2. Append(log, string) = log \o <<string>>
    BY <1>2, <2>1, AppendIsConcat
  <2>3. Append(log, string) \in Seq(Strings) /\ Len(Append(log, string)) = Len(log) + 1
    BY <1>2, <2>1, AppendProperties
  <2> QED
    BY <1>1, <1>2, <1>3, <2>1, <2>2, <2>3
<1>6. accepted = log' \o Stored'
  BY <1>0, <1>3, <1>4, <1>5 DEF InOrder
<1>7. InOrder'
  BY <1>1, <1>3, <1>5, <1>6, ConcatEmptySeq DEF InOrder
<1>8. TypeOK'
  <2>1. Len(accepted) = Len(log') + Len(Stored)
    BY <1>4, <1>5, <1>6, ConcatProperties
  <2>2. Len(accepted) <= MaxStrings
    BY <1>0, BoundedProps DEF TypeOK
  <2>3. Len(log') <= MaxStrings
    BY <1>2, <1>4, <1>5, <2>1, <2>2, StringDebugAssumption
  <2>4. log' \in BoundedSeq(Strings, MaxStrings)
    BY <1>5, <2>3, BoundedProps
  <2> QED
    BY <1>0, <1>1, <1>2, <2>4 DEF TypeOK, queue
<1>9. Slotted'
  BY <1>0, <1>1, <1>3
     DEF Slotted, Account, Queued, Offset, RingConsistent, SlotAt, queue
<1>10. Offered'
  BY <1>0, <1>1, <1>2, Views, ViewsNext DEF Offered
<1> QED
  BY <1>2, <1>7, <1>8, <1>9, <1>10 DEF IInv

(* The slot is given back; the queue behind it stays. *)
LEMMA ReleaseKeeps ==
  ASSUME SlotsFitAByte, IInv, Interrupt, NEW t \in Threads, Release(t)
  PROVE  IInv'
<1>0. TypeOK /\ Account(q, HandSlots) /\ Offered /\ InOrder
  BY DEF IInv, Slotted
<1>1. /\ MayRun(t) /\ pc[t] = "release" /\ q' = ReleaseBuf(q, slot[t])
      /\ UNCHANGED <<CharBuf, slot, flushing, pushed, accepted, log>>
  BY DEF Release
<1>2. PICK place \in {"pop", "out"} :
        /\ Goto(t, place)
        /\ isTimerLocked' = IF place = "pop" THEN isTimerLocked ELSE FALSE
  BY DEF Release
<1>3. /\ Alone(t) /\ Alone(t)' /\ Excl' /\ pc'[t] = place
      /\ pc' \in [Threads -> Inside \cup {"out", "asked", "sleep", "debug"}]
      /\ q \in Queue /\ RingConsistent(q) /\ slot[t] \in Slots
  BY <1>1, <1>2, InsideStart DEF Inside
<1>4. /\ HandSlots = {slot[t]} /\ HandSlots' = {}
      /\ InHand = << >> /\ InHand' = << >>
      /\ Filled = Stored /\ Filled' = Stored' /\ LastFilled'
  BY <1>1, <1>3, Views, ViewsNext DEF InPrint
<1>5. Account(q', {})
  BY <1>0, <1>1, <1>3, <1>4, ReleaseAccount
<1>6. q'.used = q.used /\ q'.first_out = q.first_out
  BY <1>1, <1>3, ReleaseBufProps
<1>7. Stored' = Stored
  BY <1>1, <1>6 DEF Stored, SlotAt
<1>8. InOrder'
  BY <1>0, <1>1, <1>4, <1>7 DEF InOrder
<1>9. TypeOK'
  <2>1. q' \in Queue
    BY <1>5 DEF Account
  <2>2. isTimerLocked' \in BOOLEAN
    BY <1>0, <1>2 DEF TypeOK
  <2> QED
    BY <1>0, <1>1, <1>3, <2>1, <2>2 DEF TypeOK
<1>10. Slotted'
  BY <1>4, <1>5
     DEF Slotted, Account, Queued, Offset, RingConsistent, SlotAt
<1>11. Offered'
  BY <1>0, <1>1, <1>3, Views, ViewsNext DEF Offered
<1> QED
  BY <1>3, <1>8, <1>9, <1>10, <1>11 DEF IInv

-----------------------------------------------------------------------------
LEMMA InitIInv == Init => IInv
<1> SUFFICES ASSUME Init
             PROVE  IInv
  OBVIOUS
<1>1. /\ q = Cleared /\ CharBuf = [s \in Slots |-> 0] /\ isTimerLocked = FALSE
      /\ pc = [main |-> "out", timer |-> "sleep"] /\ slot = [t \in Threads |-> 0]
      /\ flushing = [t \in Threads |-> FALSE]
      /\ pushed = 0 /\ accepted = << >> /\ log = << >>
  BY DEF Init
<1>2. /\ N \in Nat \ {0} /\ MaxStrings \in Nat /\ 0 \in Slots /\ 0 \in Strings
  BY LoopQueueAssumption, StringDebugAssumption DEF Slots, Strings
<1>3. pc["main"] = "out" /\ pc["timer"] = "sleep" /\ \A t \in Threads : pc[t] \in {"out", "sleep"}
  BY <1>1 DEF Threads
<1>4. Account(q, {})
  BY <1>1, ClearedAccount
<1>5. TypeOK
  <2>1. << >> \in Seq(Strings) /\ Len(<< >>) <= MaxStrings
    BY <1>2
  <2>2. << >> \in BoundedSeq(Strings, MaxStrings)
    BY <1>2, <2>1, BoundedProps
  <2>3. pc \in [Threads -> Inside \cup {"out", "asked", "sleep", "debug"}]
    BY <1>1 DEF Threads
  <2>4. slot \in [Threads -> Slots] /\ flushing \in [Threads -> BOOLEAN]
        /\ CharBuf \in [Slots -> Strings]
    BY <1>1, <1>2
  <2> QED
    BY <1>1, <1>2, <1>4, <2>2, <2>3, <2>4 DEF TypeOK, Account
<1>6. Excl
  BY <1>3 DEF Excl, Inside
<1>7. Alone("main") /\ "main" \in Threads
  BY <1>3 DEF Alone, Threads, Inside
<1>8. HandSlots = {} /\ InHand = << >> /\ Filled = Stored /\ LastFilled
  BY <1>3, <1>7, Views DEF InPrint
<1>9. Slotted
  BY <1>4, <1>8 DEF Slotted
<1>10. Offered
  BY <1>1, <1>3 DEF Offered
<1>11. InOrder
  <2>1. q.used = 0
    BY <1>1 DEF Cleared
  <2>2. Stored \in Seq(Strings) /\ Len(Stored) = 0
    BY <1>5, <2>1, StoredIsSeq
  <2>3. Stored = << >>
    BY <2>2, EmptySeq
  <2> QED
    BY <1>1, <1>8, <2>3 DEF InOrder
<1> QED
  BY <1>5, <1>6, <1>9, <1>10, <1>11 DEF IInv

LEMMA NextIInv ==
  ASSUME SlotsFitAByte, Interrupt, IInv, [Next]_vars
  PROVE  IInv'
<1>0. TypeOK /\ Excl
  BY DEF IInv
<1>1. ASSUME NEW t \in Threads, MayRun(t), pc[t] # "sleep" PROVE Alone(t)
  BY <1>0, <1>1, RunsAlone
<1>2. ASSUME NEW t \in Threads, EnterPush(t) PROVE IInv'
  <2>1. /\ MayRun(t) /\ pc[t] = "out" /\ isTimerLocked' = TRUE /\ pushed' = pushed + 1
        /\ pushed < MaxStrings /\ Goto(t, "push")
        /\ UNCHANGED <<queue, slot, flushing, accepted, log>>
    BY <1>2 DEF EnterPush
  <2>2. pushed' \in Strings
    BY <1>0, <2>1, StringDebugAssumption DEF TypeOK, Strings
  <2> QED
    BY <1>0, <1>1, <2>1, <2>2, QuietKeeps DEF TypeOK, Inside, InPrint
<1>3. ASSUME NEW t \in Threads, QueueInRefused(t) PROVE IInv'
  <2>1. /\ MayRun(t) /\ pc[t] = "push" /\ isTimerLocked' = FALSE /\ Goto(t, "out")
        /\ UNCHANGED <<queue, slot, flushing, pushed, accepted, log>>
    BY <1>3 DEF QueueInRefused
  <2> QED
    BY <1>0, <1>1, <1>2, <2>1, QuietKeeps DEF TypeOK, Inside, InPrint
<1>4. ASSUME NEW t \in Threads, NEW flush \in BOOLEAN, BeginProcess(t, flush) PROVE IInv'
  <2>1. /\ MayRun(t) /\ pc[t] \in {"out", "debug"} /\ Goto(t, "asked")
        /\ flushing' = [flushing EXCEPT ![t] = flush]
        /\ UNCHANGED <<queue, isTimerLocked, slot, pushed, accepted, log>>
    BY <1>4 DEF BeginProcess
  <2>2. flushing' \in [Threads -> BOOLEAN]
    BY <1>0, <2>1 DEF TypeOK
  <2> QED
    BY <1>0, <1>1, <2>1, <2>2, QuietKeeps DEF TypeOK, Inside, InPrint
<1>5. ASSUME NEW t \in Threads, EnterProcess(t) PROVE IInv'
  <2>1. /\ MayRun(t) /\ pc[t] = "asked" /\ isTimerLocked' = TRUE /\ Goto(t, "pop")
        /\ UNCHANGED <<queue, slot, flushing, pushed, accepted, log>>
    BY <1>5 DEF EnterProcess
  <2> QED
    BY <1>0, <1>1, <2>1, QuietKeeps DEF TypeOK, Inside, InPrint
<1>6. ASSUME NEW t \in Threads, QueueOutEmpty(t) PROVE IInv'
  <2>1. /\ MayRun(t) /\ pc[t] = "pop" /\ isTimerLocked' = FALSE /\ Goto(t, "out")
        /\ UNCHANGED <<queue, slot, flushing, pushed, accepted, log>>
    BY <1>6 DEF QueueOutEmpty
  <2> QED
    BY <1>0, <1>1, <2>1, QuietKeeps DEF TypeOK, Inside, InPrint
<1>7. "timer" \in Threads /\ MayRun("timer")
  BY DEF Threads, MayRun
<1>8. ASSUME HookStarts PROVE IInv'
  <2>1. /\ pc["timer"] = "sleep" /\ ~isTimerLocked /\ Goto("timer", "debug")
        /\ UNCHANGED <<queue, isTimerLocked, slot, flushing, pushed, accepted, log>>
    BY <1>8 DEF HookStarts
  <2>2. Alone("timer")
    BY <1>0, <2>1 DEF Excl, Alone, Threads
  <2> QED
    BY <1>0, <1>7, <2>1, <2>2, QuietKeeps DEF TypeOK, Inside, InPrint
<1>9. ASSUME NothingToPrint PROVE IInv'
  <2>1. /\ pc["timer"] = "debug" /\ Goto("timer", "out")
        /\ UNCHANGED <<queue, isTimerLocked, slot, flushing, pushed, accepted, log>>
    BY <1>9 DEF NothingToPrint
  <2> QED
    BY <1>0, <1>1, <1>7, <2>1, QuietKeeps DEF TypeOK, Inside, InPrint
<1>10. ASSUME HookEnds PROVE IInv'
  <2>1. /\ pc["timer"] = "out" /\ Goto("timer", "sleep")
        /\ UNCHANGED <<queue, isTimerLocked, slot, flushing, pushed, accepted, log>>
    BY <1>10 DEF HookEnds
  <2> QED
    BY <1>0, <1>1, <1>7, <2>1, QuietKeeps DEF TypeOK, Inside, InPrint
<1>11. ASSUME UNCHANGED vars PROVE IInv'
  <2>1. UNCHANGED <<q, CharBuf, isTimerLocked, pc, slot, flushing, pushed, accepted, log>>
    BY <1>11 DEF vars, queue
  <2>2. /\ HandSlots' = HandSlots /\ InHand' = InHand /\ Stored' = Stored
        /\ TypeOK' /\ Excl'
    BY <1>0, <2>1 DEF HandSlots, InHand, Stored, TypeOK, Excl
  <2>3. Filled' = Filled
    BY <2>1, <2>2 DEF Filled, Front
  <2>4. Slotted' /\ Offered' /\ InOrder'
    BY <2>1, <2>2, <2>3
       DEF IInv, Slotted, LastFilled, Account, Queued, Offset, RingConsistent, SlotAt,
           Offered, InOrder
  <2> QED
    BY <2>2, <2>4 DEF IInv
<1>12. CASE \E t \in Threads : Call(t) \/ Step(t)
  <2>1. PICK t \in Threads : Call(t) \/ Step(t)
    BY <1>12
  <2>2. CASE Call(t)
    BY <1>2, <1>4, <2>2 DEF Call
  <2>3. CASE Step(t)
    BY <1>3, <1>5, <1>6, <2>3, QueueInKeeps, FillKeeps, QueueOutKeeps,
       PopStringKeeps, ReleaseKeeps DEF Step
  <2> QED
    BY <2>1, <2>2, <2>3
<1> QED
  BY <1>8, <1>9, <1>10, <1>11, <1>12 DEF Next

-----------------------------------------------------------------------------
(* With a hook that is an interrupt, no thread is ever inside a critical   *)
(* section while the other is: the flag is enough to keep the queue from   *)
(* being interrupted, as loop_queues.h:5 asks.                             *)
THEOREM NotInterrupted ==
  ASSUME SlotsFitAByte, Interrupt
  PROVE  Spec => []QueueNotInterrupted
<1>1. Init => IInv
  BY InitIInv
<1>2. IInv /\ [Next]_vars => IInv'
  BY NextIInv
<1>3. IInv => QueueNotInterrupted
  BY DEF IInv, TypeOK, Excl, QueueNotInterrupted, Threads, Inside
<1> QED
  BY <1>1, <1>2, <1>3, PTL DEF Spec

(* And every string that was accepted is printed, in hand or stored, once  *)
(* and in the order of the calls, whatever the length of the queue and the *)
(* number of strings.                                                      *)
THEOREM NothingLost ==
  ASSUME SlotsFitAByte, Interrupt
  PROVE  Spec => []LogInOrder
<1>1. Init => IInv
  BY InitIInv
<1>2. IInv /\ [Next]_vars => IInv'
  BY NextIInv
<1>3. IInv => LogInOrder
  BY DEF IInv, InOrder, LogInOrder
<1> QED
  BY <1>1, <1>2, <1>3, PTL DEF Spec
-----------------------------------------------------------------------------
(* A string waits to be printed; what each thread, and both of them, still *)
(* go through before the next one is.                                      *)
Waiting == Len(log) < Len(accepted)
Left(t) == CASE pc[t] = "print"   -> 1
             [] pc[t] = "pop"     -> 2
             [] pc[t] = "asked"   -> 3
             [] pc[t] = "debug"   -> 4
             [] pc[t] = "sleep"   -> 5
             [] pc[t] = "out"     -> IF t = "timer" THEN 6 ELSE 4
             [] pc[t] \in {"release", "fill"} -> 7
             [] pc[t] = "push"    -> 8
ToPrint == Left("main") + Left("timer")

PrintNears == Waiting => \/ Len(log') > Len(log)
                         \/ pushed' > pushed
                         \/ pushed' = pushed /\ ToPrint' < ToPrint

(* The flag is set exactly while a thread is in its section. *)
FlagIsSection == isTimerLocked <=> \E t \in Threads : pc[t] \in Inside

(* Where a step takes its thread, and what becomes of the flag. *)
Moves(t, from, to) == pc[t] = from /\ pc' = [pc EXCEPT ![t] = to]
Enters(t)   == Moves(t, "asked", "pop") /\ isTimerLocked'
Offers(t)   == Moves(t, "out", "push") /\ isTimerLocked' /\ pushed' = pushed + 1
GoesOn(t)   == /\ UNCHANGED isTimerLocked
               /\ \/ Moves(t, "push", "fill") \/ Moves(t, "pop", "print")
                  \/ Moves(t, "release", "pop")
Prints(t)   == /\ UNCHANGED isTimerLocked
               /\ Moves(t, "print", "release") /\ Len(log') > Len(log)
Leaves(t)   == /\ ~isTimerLocked'
               /\ \/ Moves(t, "push", "out") \/ Moves(t, "fill", "out")
                  \/ Moves(t, "release", "out")
                  \/ Moves(t, "pop", "out") /\ q.state = "Empty"
StaysOut(t) == /\ UNCHANGED isTimerLocked
               /\ \/ Moves(t, "out", "asked") \/ Moves(t, "debug", "asked")
                  \/ t = "timer" /\ Moves(t, "sleep", "debug")
                  \/ t = "timer" /\ Moves(t, "debug", "out") /\ q.state = "Empty"
                  \/ t = "timer" /\ Moves(t, "out", "sleep")

(* Every step is the step of one thread, and no other is in its section.   *)
LEMMA OneMoves ==
  ASSUME IInv, Interrupt, Next
  PROVE  \E t \in Threads :
           /\ Alone(t)
           /\ \/ Offers(t)
              \/ /\ pushed' = pushed
                 /\ \/ Enters(t) \/ GoesOn(t) \/ Prints(t) \/ Leaves(t) \/ StaysOut(t)
<1>0. TypeOK /\ Excl
  BY DEF IInv
<1>1. ASSUME NEW t \in Threads, MayRun(t), pc[t] # "sleep" PROVE Alone(t)
  BY <1>0, <1>1, RunsAlone
<1>2. "timer" \in Threads /\ MayRun("timer")
  BY DEF Threads, MayRun
<1>3. ASSUME NEW t \in Threads, Call(t) \/ Step(t)
      PROVE  Alone(t)
  <2>1. MayRun(t) /\ pc[t] # "sleep"
    BY <1>3 DEF Call, Step, EnterPush, BeginProcess, QueueIn, QueueInRefused, Fill,
       EnterProcess, QueueOut, QueueOutEmpty, PopString, Release
  <2> QED
    BY <1>1, <2>1
<1>4. ASSUME NEW t \in Threads, Call(t)
      PROVE  Offers(t) \/ (pushed' = pushed /\ StaysOut(t))
  BY <1>4 DEF Call, EnterPush, BeginProcess, Goto, Moves, Offers, StaysOut
<1>5. ASSUME NEW t \in Threads, Step(t)
      PROVE  /\ pushed' = pushed
             /\ Enters(t) \/ GoesOn(t) \/ Prints(t) \/ Leaves(t)
  <2>1. CASE QueueIn(t) \/ QueueOut(t)
    BY <2>1 DEF QueueIn, QueueOut, Goto, Moves, GoesOn
  <2>2. CASE QueueInRefused(t) \/ Fill(t)
    BY <2>2 DEF QueueInRefused, Fill, Goto, Moves, Leaves
  <2>3. CASE QueueOutEmpty(t)
    BY <2>3 DEF QueueOutEmpty, CanFirstOut, Goto, Moves, Leaves
  <2>4. CASE EnterProcess(t)
    BY <2>4 DEF EnterProcess, Goto, Moves, Enters
  <2>5. CASE PopString(t)
    <3>1. log \in Seq(Strings) /\ CharBuf[slot[t]] \in Strings
      BY <1>0, BoundedProps DEF TypeOK
    <3>2. Len(log) \in Nat /\ Len(Append(log, CharBuf[slot[t]])) = Len(log) + 1
      BY <3>1, AppendProperties, LenProperties
    <3>3. Len(log') > Len(log)
      BY <2>5, <3>2 DEF PopString
    <3> QED
      BY <2>5, <3>3 DEF PopString, Goto, Moves, Prints
  <2>6. CASE Release(t)
    BY <2>6 DEF Release, Goto, Moves, GoesOn, Leaves
  <2> QED
    BY <1>5, <2>1, <2>2, <2>3, <2>4, <2>5, <2>6 DEF Step
<1>6. CASE HookStarts
  <2>1. /\ pc["timer"] = "sleep" /\ ~isTimerLocked
        /\ pushed' = pushed /\ StaysOut("timer")
    BY <1>6 DEF HookStarts, Goto, Moves, StaysOut
  <2>2. Alone("timer")
    BY <1>0, <2>1 DEF Excl, Alone, Threads
  <2> QED
    BY <1>2, <2>1, <2>2
<1>7. CASE NothingToPrint \/ HookEnds
  <2>1. /\ pc["timer"] # "sleep"
        /\ pushed' = pushed /\ StaysOut("timer")
    BY <1>7 DEF NothingToPrint, HookEnds, Goto, Moves, StaysOut
  <2> QED
    BY <1>1, <1>2, <2>1
<1> QED
  BY <1>3, <1>4, <1>5, <1>6, <1>7 DEF Next

(* What is true of the thread that moves is true of its section. *)
LEMMA FlagNext ==
  ASSUME IInv, Interrupt, FlagIsSection, [Next]_vars PROVE FlagIsSection'
<1>1. CASE UNCHANGED vars
  BY <1>1 DEF vars, FlagIsSection
<1>2. CASE Next
  <2>1. PICK t \in Threads :
          /\ Alone(t)
          /\ \/ Offers(t)
             \/ /\ pushed' = pushed
                /\ \/ Enters(t) \/ GoesOn(t) \/ Prints(t) \/ Leaves(t) \/ StaysOut(t)
    BY <1>2, OneMoves
  <2>2. pc \in [Threads -> Inside \cup {"out", "asked", "sleep", "debug"}]
    BY DEF IInv, TypeOK
  <2>3. \E from, to : Moves(t, from, to)
    BY <2>1 DEF Offers, Enters, GoesOn, Prints, Leaves, StaysOut
  <2>4. \A u \in Threads \ {t} : pc'[u] \notin Inside
    BY <2>1, <2>2, <2>3 DEF Moves, Alone
  <2>5. isTimerLocked <=> pc[t] \in Inside
    BY <2>1 DEF FlagIsSection, Alone
  <2>6. isTimerLocked' <=> pc'[t] \in Inside
    <3>1. CASE Offers(t) \/ Enters(t)
      BY <2>2, <3>1 DEF Offers, Enters, Moves, Inside
    <3>2. CASE GoesOn(t) \/ Prints(t)
      BY <2>2, <2>5, <3>2 DEF GoesOn, Prints, Moves, Inside
    <3>3. CASE Leaves(t)
      BY <2>2, <3>3 DEF Leaves, Moves, Inside
    <3>4. CASE StaysOut(t)
      BY <2>2, <2>5, <3>4 DEF StaysOut, Moves, Inside
    <3> QED
      BY <2>1, <3>1, <3>2, <3>3, <3>4
  <2> QED
    BY <2>4, <2>6 DEF FlagIsSection
<1> QED
  BY <1>1, <1>2

(* A thread that finds the queue empty when no other is in its section     *)
(* finds everything printed.                                               *)
LEMMA EmptyIsPrinted ==
  ASSUME IInv, NEW t \in Threads, Alone(t), pc[t] \in {"pop", "debug"},
         q.state = "Empty"
  PROVE  ~Waiting
<1>1. TypeOK /\ Account(q, HandSlots) /\ accepted = log \o InHand \o Filled
  BY DEF IInv, Slotted, InOrder
<1>2. InHand = << >> /\ Filled = Stored
  BY Views
<1>3. q.used \in 0 .. N /\ q.state = StateOf(q.used)
  BY <1>1 DEF Account, RingConsistent, TypeOK, Queue
<1>4. q.used = 0
  BY <1>3, StateOfProps
<1>5. Stored = << >>
  BY <1>1, <1>4, StoredIsSeq, EmptySeq
<1>6. log \in Seq(Strings) /\ Len(log) \in Nat
  BY <1>1, BoundedProps, LenProperties DEF TypeOK
<1>7. accepted = log
  BY <1>1, <1>2, <1>5, <1>6, ConcatEmptySeq
<1> QED
  BY <1>6, <1>7 DEF Waiting

(* A thread always has a number of places to go through. *)
LEMMA LeftIs ==
  IInv => \A t \in Threads : Left(t) \in 1 .. 8
BY DEF IInv, TypeOK, Inside, Left

\* The same of the next state.
LEMMA LeftIsNext == IInv' => \A t \in Threads : Left(t)' \in 1 .. 8
<1>1. (IInv => \A t \in Threads : Left(t) \in 1 .. 8)'
  BY LeftIs, PTL
<1> QED
  BY <1>1

(* Every step while a string waits prints, or offers another one, or       *)
(* brings the next to be printed one place closer.                         *)
LEMMA NextNearsPrint ==
  ASSUME SlotsFitAByte, IInv, Interrupt, Next PROVE PrintNears
<1> SUFFICES ASSUME Waiting
             PROVE  \/ Len(log') > Len(log) \/ pushed' > pushed
                    \/ pushed' = pushed /\ ToPrint' < ToPrint
  BY DEF PrintNears
<1>1. PICK t \in Threads :
        /\ Alone(t)
        /\ \/ Offers(t)
           \/ /\ pushed' = pushed
              /\ \/ Enters(t) \/ GoesOn(t) \/ Prints(t) \/ Leaves(t) \/ StaysOut(t)
  BY OneMoves
<1>2. pc \in [Threads -> Inside \cup {"out", "asked", "sleep", "debug"}]
  BY DEF IInv, TypeOK
<1>3. CASE Offers(t)
  <2>1. pushed \in Nat
    BY StringDebugAssumption DEF IInv, TypeOK, Strings
  <2> QED
    BY <1>3, <2>1 DEF Offers
<1>4. CASE Prints(t)
  BY <1>4 DEF Prints
<1>5. CASE /\ pushed' = pushed
           /\ Enters(t) \/ GoesOn(t) \/ Leaves(t) \/ StaysOut(t)
  <2>1. \E from, to : Moves(t, from, to)
    BY <1>5 DEF Enters, GoesOn, Leaves, StaysOut
  <2>2. \A u \in Threads \ {t} : Left(u)' = Left(u)
    BY <1>2, <2>1 DEF Moves, Left
  <2>3. Left(t)' < Left(t)
    <3>1. ~(pc[t] \in {"pop", "debug"} /\ q.state = "Empty")
      BY <1>1, EmptyIsPrinted
    <3>2. CASE Enters(t) \/ GoesOn(t)
      BY <1>2, <3>2 DEF Enters, GoesOn, Moves, Left
    <3>3. CASE Leaves(t)
      BY <1>2, <3>1, <3>3 DEF Leaves, Moves, Left
    <3>4. CASE StaysOut(t)
      BY <1>2, <3>1, <3>4 DEF StaysOut, Moves, Left
    <3> QED
      BY <1>5, <3>2, <3>3, <3>4
  <2>4. ToPrint' < ToPrint
    <3>1. PICK a \in 1 .. 8 : a = Left("main")
      BY LeftIs DEF Threads
    <3>2. PICK b \in 1 .. 8 : b = Left("timer")
      BY LeftIs DEF Threads
    <3>3. ToPrint = a + b
      BY <3>1, <3>2 DEF ToPrint
    <3>4. CASE t = "main"
      <4>1. Left("timer")' = b /\ Left("main")' < a
        BY <2>2, <2>3, <3>1, <3>2, <3>4 DEF Threads
      <4>2. Left("main")' \in 1 .. 8
        BY LeftIsNext, NextIInv DEF Threads
      <4> QED
        BY <3>3, <4>1, <4>2 DEF ToPrint
    <3>5. CASE t = "timer"
      <4>1. Left("main")' = a /\ Left("timer")' < b
        BY <2>2, <2>3, <3>1, <3>2, <3>5 DEF Threads
      <4>2. Left("timer")' \in 1 .. 8
        BY LeftIsNext, NextIInv DEF Threads
      <4> QED
        BY <3>3, <4>1, <4>2 DEF ToPrint
    <3> QED
      BY <3>4, <3>5 DEF Threads
  <2> QED
    BY <1>5, <2>4
<1> QED
  BY <1>1, <1>3, <1>4, <1>5

(* With a hook that is an interrupt the flag is set exactly while a thread *)
(* is in its section, and never left set behind it; and as long as an      *)
(* accepted string waits, every step of either thread prints one, offers   *)
(* another, or brings the next to be printed closer: nothing goes round    *)
(* without printing.                                                       *)
THEOREM PrintComesUp ==
  ASSUME SlotsFitAByte, Interrupt
  PROVE  Spec => /\ [](FlagIsSection /\ ToPrint \in Nat)
                 /\ [][PrintNears]_vars
<1>1. Init => IInv /\ FlagIsSection
  <2> SUFFICES ASSUME Init PROVE IInv /\ FlagIsSection
    OBVIOUS
  <2>1. ~isTimerLocked /\ \A t \in Threads : pc[t] \notin Inside
    BY DEF Init, Threads, Inside
  <2> QED
    BY <2>1, InitIInv DEF FlagIsSection
<1>2. IInv /\ FlagIsSection /\ [Next]_vars => IInv' /\ FlagIsSection'
  BY NextIInv, FlagNext
<1>3. IInv => ToPrint \in Nat
  <2> SUFFICES ASSUME IInv PROVE ToPrint \in Nat
    OBVIOUS
  <2>1. Left("main") \in 1 .. 8 /\ Left("timer") \in 1 .. 8
    BY LeftIs DEF Threads
  <2> QED
    BY <2>1 DEF ToPrint
<1>4. IInv /\ [Next]_vars => [PrintNears]_vars
  BY NextNearsPrint
<1> QED
  BY <1>1, <1>2, <1>3, <1>4, PTL DEF Spec
=============================================================================
