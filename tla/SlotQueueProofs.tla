--------------------------- MODULE SlotQueueProofs ---------------------------
(***************************************************************************)
(* A loop queue with its clients is right for every length N: who owns a   *)
(* slot, that the clients see a bounded FIFO, and that what waits in it    *)
(* comes up.                                                               *)
(***************************************************************************)
EXTENDS SlotQueue, LoopQueueProofs, FiniteSetTheorems

(* What the proof carries from step to step.  Ownership alone is not       *)
(* inductive: that FirstIn is never given a held slot needs the ring       *)
(* arithmetic, and that it is free needs the mark to tell who owns it.     *)
IInv == TypeOK /\ RingInv /\ Ownership

LEMMA InitIInv == Init => IInv
BY ClearedProps
   DEF Init, IInv, TypeOK, RingInv, Ownership, HeldNotQueued, NoSlotLeak,
       InUseMarked, Cleared

LEMMA NextIInv == SlotsFitAByte /\ IInv /\ [Next]_vars => IInv'
<1> SUFFICES ASSUME SlotsFitAByte, IInv, [Next]_vars PROVE IInv'
  OBVIOUS
<1> USE DEF IInv
<1>0. /\ q \in Queue /\ RingConsistent(q) /\ held \in SUBSET Slots
      /\ permit \in BOOLEAN /\ q.first_in \in Slots /\ q.first_out \in Slots
      /\ q.buf \in [Slots -> Marks]
  BY DEF TypeOK, RingInv, Queue
<1>1. ASSUME NEW d \in Data, Push(d) PROVE IInv'
  <2>1. /\ q' = FirstIn(q, permit) /\ held' = held /\ permit' = permit
        /\ q.buf[q.first_in] = "free"
    BY <1>1 DEF Push, CanFirstIn
  <2>2. TypeOK' /\ RingInv'
    <3>1. q' \in Queue /\ RingConsistent(q')
      BY <1>0, <2>1, FirstInProps
    <3>2. store' \in [Slots -> Data \cup {NoData}]
      BY <1>1 DEF Push, TypeOK
    <3> QED
      BY <1>0, <2>1, <3>1, <3>2 DEF TypeOK, RingInv
  <2>3. q.first_in \notin held
    BY <1>0, <1>1, <2>1 DEF Push, Ownership, InUseMarked
  <2>4. /\ q'.buf = [q.buf EXCEPT ![q.first_in] = IF permit THEN "free" ELSE "used"]
        /\ Queued(q') = Queued(q) \cup {q.first_in}
    BY <1>0, <2>1, FirstInProps
  <2>5. HeldNotQueued'
    BY <2>1, <2>3, <2>4 DEF Ownership, HeldNotQueued
  <2>6. NoSlotLeak'
    BY <1>0, <2>1, <2>4 DEF Ownership, NoSlotLeak
  <2>7. InUseMarked'
    BY <1>0, <2>1, <2>4 DEF Ownership, InUseMarked, Queued
  <2> QED
    BY <2>2, <2>5, <2>6, <2>7 DEF Ownership
<1>2. CASE Pop
  <2>1. /\ q' = FirstOut(q) /\ held' = held \cup {q.first_out}
        /\ permit' = permit /\ store' = store /\ CanFirstOut(q)
    BY <1>2 DEF Pop
  <2>2. /\ q' \in Queue /\ RingConsistent(q') /\ q'.buf = q.buf
        /\ q.first_out \in Queued(q) /\ Queued(q') = Queued(q) \ {q.first_out}
    BY <1>0, <2>1, FirstOutProps
  <2>3. TypeOK' /\ RingInv'
    BY <1>0, <2>1, <2>2 DEF TypeOK, RingInv
  <2> QED
    BY <2>1, <2>2, <2>3
       DEF Ownership, HeldNotQueued, NoSlotLeak, InUseMarked
<1>3. ASSUME NEW s \in Slots, Release(s) PROVE IInv'
  <2>1. /\ q' = ReleaseBuf(q, s) /\ held' = held \ {s} /\ s \in held
        /\ permit' = permit /\ store' = store
    BY <1>3 DEF Release
  <2>2. /\ q' \in Queue /\ RingConsistent(q') /\ Queued(q') = Queued(q)
        /\ q'.buf = [q.buf EXCEPT ![s] = "free"]
    BY <1>0, <2>1, ReleaseBufProps
  <2>3. TypeOK' /\ RingInv'
    BY <1>0, <2>1, <2>2 DEF TypeOK, RingInv
  <2>4. s \notin Queued(q)
    BY <2>1 DEF Ownership, HeldNotQueued
  <2>5. HeldNotQueued' /\ NoSlotLeak'
    BY <1>0, <2>1, <2>2, <2>4 DEF Ownership, HeldNotQueued, NoSlotLeak
  <2>6. InUseMarked'
    BY <1>0, <2>1, <2>2, <2>4 DEF Ownership, InUseMarked, Queued
  <2> QED
    BY <2>3, <2>5, <2>6 DEF Ownership
<1>4. CASE Clear
  BY <1>4, <1>0, ClearedProps
     DEF Clear, TypeOK, RingInv, Ownership, HeldNotQueued, NoSlotLeak,
         InUseMarked, Cleared
<1>5. CASE UNCHANGED vars
  BY <1>5 DEF vars, TypeOK, RingInv, Ownership, HeldNotQueued, NoSlotLeak,
              InUseMarked
<1> QED
  BY <1>1, <1>2, <1>3, <1>4, <1>5 DEF Next, PushRefused

(* The slots, marks, counts and owners stay within their types. *)
THEOREM TypeCorrect == ASSUME SlotsFitAByte PROVE Spec => []TypeOK
<1>1. IInv /\ [Next]_vars => IInv'
  BY NextIInv
<1>2. IInv => TypeOK
  BY DEF IInv
<1> QED
  BY InitIInv, <1>1, <1>2, PTL DEF Spec

(* first_in, first_out, used and state agree for ever (loop_queues.c       *)
(* updates the four in separate helpers).                                  *)
THEOREM RingCorrect == ASSUME SlotsFitAByte PROVE Spec => []RingInv
<1>1. IInv /\ [Next]_vars => IInv'
  BY NextIInv
<1>2. IInv => RingInv
  BY DEF IInv
<1> QED
  BY InitIInv, <1>1, <1>2, PTL DEF Spec

(* A slot has one owner: a popped slot is not queued, a marked one is in   *)
(* use, and where producers may not occupy, a slot in use is marked.       *)
THEOREM OwnershipCorrect == ASSUME SlotsFitAByte PROVE Spec => []Ownership
<1>1. IInv /\ [Next]_vars => IInv'
  BY NextIInv
<1>2. IInv => Ownership
  BY DEF IInv
<1> QED
  BY InitIInv, <1>1, <1>2, PTL DEF Spec

LEMMA SlotsFinite ==
  ASSUME NEW h \in SUBSET Slots
  PROVE  IsFiniteSet(h) /\ Cardinality(h) \in Nat
<1>1. 0 \in Int /\ N - 1 \in Int
  BY LoopQueueAssumption
<1>2. IsFiniteSet(Slots)
  BY <1>1, FS_Interval DEF Slots
<1>3. IsFiniteSet(h)
  BY <1>2, FS_Subset
<1> QED
  BY <1>3, FS_CardinalityType

(* If the consumers hold every slot from an offset on, the slots nobody    *)
(* holds are no more than the offset: the slots from there on are counted. *)
LEMMA HeldFromOffset ==
  ASSUME NEW r \in Queue, NEW h \in SUBSET Slots, NEW u \in 0 .. N,
         \A t \in Slots : Offset(r, t) >= u => t \in h
  PROVE  Cardinality(h) \in Nat /\ N <= u + Cardinality(h)
<1>1. IsFiniteSet(h) /\ Cardinality(h) \in Nat
  BY SlotsFinite
<1>2. IsFiniteSet(u .. N - 1) /\ Cardinality(u .. N - 1) = N - u
  BY FS_Interval, LoopQueueAssumption
<1> DEFINE f == [i \in u .. N - 1 |-> SlotAt(r, i)]
<1>3. ASSUME NEW i \in u .. N - 1
      PROVE  SlotAt(r, i) \in h /\ Offset(r, SlotAt(r, i)) = i
  BY <1>3, SlotAtProps, LoopQueueAssumption
<1>4. f \in [u .. N - 1 -> h]
  BY <1>3
<1>5. \A i, k \in u .. N - 1 : f[i] = f[k] => i = k
  BY <1>3
<1>6. ASSUME Cardinality(h) < Cardinality(u .. N - 1) PROVE FALSE
  <2> HIDE DEF f
  <2>1. \E i, k \in u .. N - 1 : i # k /\ f[i] = f[k]
    BY <1>1, <1>2, <1>4, <1>6, FS_PigeonHole
  <2> QED
    BY <1>5, <2>1
<1> QED
  BY <1>1, <1>2, <1>6, LoopQueueAssumption

(* A push is refused only if the ring is full, or if a slot is given back  *)
(* out of its turn: as long as consumers give slots back in the order they *)
(* took them, a slot that nobody uses is the one that first_in points at.  *)
THEOREM RefusalCorrect == ASSUME SlotsFitAByte PROVE Spec => []NoSpuriousRefusal
<1>1. IInv => NoSpuriousRefusal
  <2> SUFFICES ASSUME IInv, HeldInOrder, q.used + Cardinality(held) < N
               PROVE  CanFirstIn(q)
    BY DEF NoSpuriousRefusal
  <2>1. /\ q \in Queue /\ RingConsistent(q) /\ held \in SUBSET Slots
        /\ q.first_in \in Slots /\ q.used \in 0 .. N
        /\ q.buf \in [Slots -> Marks]
    BY DEF IInv, TypeOK, RingInv, Queue
  <2>2. Cardinality(held) \in Nat
    BY <2>1, SlotsFinite
  <2>3. q.used # N
    BY <2>1, <2>2, LoopQueueAssumption
  <2>4. q.first_in \notin Queued(q)
    BY <2>1, <2>3, FirstInProps
  <2>5. ASSUME q.first_in \in held PROVE FALSE
    <3>1. Offset(q, q.first_in) = q.used
      <4>1. q.used \in 0 .. N - 1 /\ q.first_in = SlotAt(q, q.used)
        BY <2>1, <2>3, LoopQueueAssumption DEF RingConsistent
      <4> QED
        BY <2>1, <4>1, SlotAtProps
    <3>2. \A t \in Slots : Offset(q, t) >= q.used => t \in held
      BY <2>5, <3>1 DEF HeldInOrder
    <3> QED
      BY <2>1, <3>2, HeldFromOffset, LoopQueueAssumption
  <2>6. q.buf[q.first_in] # "used"
    BY <2>1, <2>4, <2>5 DEF IInv, Ownership, NoSlotLeak
  <2> QED
    BY <2>1, <2>6 DEF CanFirstIn, Marks
<1>2. IInv /\ [Next]_vars => IInv'
  BY NextIInv
<1> QED
  BY InitIInv, <1>1, <1>2, PTL DEF Spec

-----------------------------------------------------------------------------
(* The refinement needs to know besides that a slot in use has been        *)
(* filled: an element taken out is never mistaken for an empty hand.       *)
Contents == \A s \in Queued(q) \cup held : store[s] \in Data
FInv     == IInv /\ Contents
Node     == [datum : Data, lose : BOOLEAN]

LEMMA InitFInv == Init => FInv
BY InitIInv, ClearedProps DEF Init, FInv, Contents

LEMMA NextFInv == SlotsFitAByte /\ FInv /\ [Next]_vars => FInv'
<1> SUFFICES ASSUME SlotsFitAByte, FInv, [Next]_vars PROVE Contents'
  BY NextIInv DEF FInv
<1>0. /\ q \in Queue /\ RingConsistent(q) /\ held \in SUBSET Slots
      /\ permit \in BOOLEAN /\ store \in [Slots -> Data \cup {NoData}]
      /\ q.first_in \in Slots
  BY DEF FInv, IInv, TypeOK, RingInv, Queue
<1>1. ASSUME NEW d \in Data, Push(d) PROVE Contents'
  <2>1. Queued(q') = Queued(q) \cup {q.first_in} /\ held' = held
    BY <1>0, <1>1, FirstInProps DEF Push
  <2>2. store' = [store EXCEPT ![q.first_in] = d]
    BY <1>1 DEF Push
  <2> QED
    BY <1>0, <2>1, <2>2 DEF FInv, Contents, Queued
<1>2. CASE Pop
  <2>1. /\ q.first_out \in Queued(q) /\ Queued(q') = Queued(q) \ {q.first_out}
        /\ held' = held \cup {q.first_out} /\ store' = store
    BY <1>0, <1>2, FirstOutProps DEF Pop
  <2> QED
    BY <2>1 DEF FInv, Contents
<1>3. ASSUME NEW s \in Slots, Release(s) PROVE Contents'
  <2>1. Queued(q') = Queued(q) /\ held' = held \ {s} /\ store' = store
    BY <1>0, <1>3, ReleaseBufProps DEF Release
  <2> QED
    BY <2>1 DEF FInv, Contents
<1>4. CASE Clear
  BY <1>4, ClearedProps DEF Clear, Contents
<1>5. CASE UNCHANGED vars
  BY <1>5 DEF vars, FInv, Contents
<1> QED
  BY <1>1, <1>2, <1>3, <1>4, <1>5 DEF Next, PushRefused

(* What the mapping gives is a queue of nodes, oldest first. *)
LEMMA WaitingIsQueue ==
  FInv => /\ q.used \in 0 .. N
          /\ Waiting \in [1 .. q.used -> Node]
          /\ Waiting \in Seq(Node) /\ Len(Waiting) = q.used
<1> SUFFICES ASSUME FInv
             PROVE  /\ q.used \in 0 .. N
                    /\ Waiting \in [1 .. q.used -> Node]
                    /\ Waiting \in Seq(Node) /\ Len(Waiting) = q.used
  OBVIOUS
<1>1. q \in Queue /\ q.used \in 0 .. N /\ permit \in BOOLEAN
  BY DEF FInv, IInv, TypeOK, Queue
<1>2. ASSUME NEW i \in 1 .. q.used PROVE store[SlotAt(q, i - 1)] \in Data
  <2>1. i - 1 \in 0 .. N - 1 /\ i - 1 < q.used
    BY <1>1, LoopQueueAssumption
  <2> QED
    BY <1>1, <2>1, SlotAtProps DEF FInv, Contents
<1>3. Waiting \in [1 .. q.used -> Node]
  BY <1>1, <1>2 DEF Waiting, Node
<1> QED
  BY <1>1, <1>3, SeqOfElements

LEMMA WaitingIsQueueNext ==
  FInv' => /\ q'.used \in 0 .. N
           /\ Waiting' \in [1 .. q'.used -> Node]
           /\ Waiting' \in Seq(Node) /\ Len(Waiting') = q'.used
<1>1. (FInv => /\ q.used \in 0 .. N
               /\ Waiting \in [1 .. q.used -> Node]
               /\ Waiting \in Seq(Node) /\ Len(Waiting) = q.used)'
  BY WaitingIsQueue, PTL
<1> QED
  BY <1>1

(* A push puts a node in while there is room, and replaces the oldest when *)
(* there is none, which is then one that may be lost.                      *)
LEMMA PushImplements ==
  ASSUME FInv, FInv', NEW d \in Data, Push(d)
  PROVE  Fifo!Put(d, permit) \/ Fifo!Replace(d, permit)
<1>1. /\ q \in Queue /\ RingConsistent(q) /\ held \in SUBSET Slots
      /\ permit \in BOOLEAN /\ store \in [Slots -> Data \cup {NoData}]
      /\ q.first_in \in Slots /\ q.first_out \in Slots /\ q.used \in 0 .. N
  BY DEF FInv, IInv, TypeOK, RingInv, Queue
<1>2. /\ q' = FirstIn(q, permit) /\ held' = held /\ permit' = permit
      /\ store' = [store EXCEPT ![q.first_in] = d]
      /\ q.buf[q.first_in] = "free" /\ (permit => held = {})
  BY DEF Push, CanFirstIn
<1>3. q.first_in \notin held
  BY <1>1, <1>2 DEF FInv, IInv, Ownership, InUseMarked
<1>4. InHands' = InHands
  BY <1>1, <1>2, <1>3 DEF InHands
<1>5. /\ Waiting \in [1 .. q.used -> Node] /\ Waiting \in Seq(Node)
      /\ Len(Waiting) = q.used
      /\ Waiting' \in [1 .. q'.used -> Node]
  BY WaitingIsQueue, WaitingIsQueueNext
<1>6. CASE q.used # N
  <2>1. /\ q'.used = q.used + 1
        /\ \A i \in 0 .. N - 1 : SlotAt(q', i) = SlotAt(q, i)
        /\ SlotAt(q, q.used) = q.first_in
    BY <1>1, <1>2, <1>6, FirstInOrder
  <2>2. ASSUME NEW i \in 1 .. q.used PROVE Waiting'[i] = Waiting[i]
    <3>1. i - 1 \in 0 .. N - 1 /\ q.used \in 0 .. N - 1 /\ i - 1 # q.used
      BY <1>1, <1>6, LoopQueueAssumption
    <3>2. SlotAt(q, i - 1) \in Slots /\ SlotAt(q, i - 1) # q.first_in
      BY <1>1, <2>1, <3>1, SlotAtProps
    <3>3. store'[SlotAt(q', i - 1)] = store[SlotAt(q, i - 1)]
      BY <1>1, <1>2, <2>1, <3>1, <3>2
    <3>4. i \in 1 .. q.used + 1
      BY <1>1
    <3> QED
      BY <1>2, <2>1, <3>3, <3>4 DEF Waiting
  <2>3. Waiting'[q.used + 1] = [datum |-> d, lose |-> permit]
    <3>1. q.used \in 0 .. N - 1 /\ (q.used + 1) - 1 = q.used
          /\ q.used + 1 \in 1 .. q.used + 1
      BY <1>1, <1>6, LoopQueueAssumption
    <3>2. store'[SlotAt(q', (q.used + 1) - 1)] = d
      BY <1>1, <1>2, <2>1, <3>1
    <3> QED
      BY <1>2, <2>1, <3>1, <3>2 DEF Waiting
  <2>4. Waiting' = Append(Waiting, [datum |-> d, lose |-> permit])
    BY <1>1, <1>5, <2>1, <2>2, <2>3, AppendOfElements
  <2>5. Len(Waiting) < N
    BY <1>1, <1>5, <1>6, LoopQueueAssumption
  <2> QED
    BY <1>4, <2>4, <2>5 DEF Fifo!Put
<1>7. CASE q.used = N
  <2>1. /\ q'.used = N
        /\ \A i \in 0 .. N - 2 : SlotAt(q', i) = SlotAt(q, i + 1)
        /\ SlotAt(q', N - 1) = q.first_in
    BY <1>1, <1>2, <1>7, FirstInOrder
  <2>2. permit = TRUE
    <3>1. q.first_in \in Queued(q)
      BY <1>1, <1>7, FirstInProps
    <3> QED
      BY <1>1, <1>2, <3>1 DEF FInv, IInv, Ownership, InUseMarked
  <2> DEFINE rest == [i \in 1 .. N - 1 |-> Waiting[i + 1]]
  <2>3. rest \in [1 .. N - 1 -> Node]
    BY <1>5, <1>7, LoopQueueAssumption
  <2>4. Waiting # << >> /\ Head(Waiting) = Waiting[1] /\ rest = Tail(Waiting)
    <3>1. N \in Nat \ {0} /\ Waiting \in [1 .. N -> Node]
      BY <1>5, <1>7, LoopQueueAssumption
    <3>2. \A i \in 1 .. N - 1 : rest[i] = Waiting[i + 1]
      OBVIOUS
    <3> HIDE DEF rest
    <3> QED
      BY <2>3, <3>1, <3>2, TailOfElements
  <2>5. Head(Waiting).lose
    BY <1>7, <2>2, <2>4, LoopQueueAssumption DEF Waiting
  <2>6. ASSUME NEW i \in 1 .. N - 1 PROVE Waiting'[i] = rest[i]
    <3>1. /\ i - 1 \in 0 .. N - 2 /\ i \in 1 .. N /\ i + 1 \in 1 .. N
          /\ i \in 0 .. N - 1 /\ 0 \in 0 .. N - 1 /\ (i - 1) + 1 = i
          /\ (i + 1) - 1 = i /\ i # 0
      BY LoopQueueAssumption
    <3>2. SlotAt(q', i - 1) = SlotAt(q, i)
      BY <2>1, <3>1
    <3>3. SlotAt(q, 0) = q.first_in
      BY <1>1, <1>7 DEF SlotAt, RingConsistent
    <3>4. SlotAt(q, i) \in Slots /\ SlotAt(q, i) # q.first_in
      BY <1>1, <3>1, <3>3, SlotAtProps
    <3>5. store'[SlotAt(q', i - 1)] = store[SlotAt(q, i)]
      BY <1>1, <1>2, <3>2, <3>4
    <3> QED
      BY <1>2, <1>7, <2>1, <3>1, <3>5 DEF Waiting
  <2>7. Waiting'[N] = [datum |-> d, lose |-> permit]
    <3>1. store'[SlotAt(q', N - 1)] = d
      BY <1>1, <1>2, <2>1
    <3> QED
      BY <1>2, <2>1, <3>1, LoopQueueAssumption DEF Waiting
  <2>8. Waiting' = Append(rest, [datum |-> d, lose |-> permit])
    <3>1. N - 1 \in Nat /\ (N - 1) + 1 = N
      BY LoopQueueAssumption
    <3> QED
      BY <1>5, <2>1, <2>3, <2>6, <2>7, <3>1, AppendOfElements
  <2>9. Len(Waiting) = N
    BY <1>5, <1>7
  <2> QED
    BY <1>4, <2>4, <2>5, <2>8, <2>9 DEF Fifo!Replace
<1> QED
  BY <1>6, <1>7

(* A pop takes the head of the queue into a hand that was empty.           *)
LEMMA PopImplements ==
  ASSUME FInv, FInv', Pop
  PROVE  Fifo!Take(q.first_out)
<1>1. /\ q \in Queue /\ RingConsistent(q) /\ held \in SUBSET Slots
      /\ q.first_out \in Slots /\ CanFirstOut(q)
  BY DEF FInv, IInv, TypeOK, RingInv, Queue, Pop
<1>2. /\ q' = FirstOut(q) /\ held' = held \cup {q.first_out}
      /\ permit' = permit /\ store' = store
  BY DEF Pop
<1>3. q.first_out \notin held
  BY <1>1, FirstOutProps DEF FInv, IInv, Ownership, HeldNotQueued
<1>4. /\ Waiting \in [1 .. q.used -> Node]
      /\ Waiting' \in [1 .. q'.used -> Node]
  BY WaitingIsQueue, WaitingIsQueueNext
<1>5. /\ q.used \in 1 .. N /\ SlotAt(q, 0) = q.first_out
      /\ q'.used = q.used - 1
      /\ \A i \in 0 .. N - 2 : SlotAt(q', i) = SlotAt(q, i + 1)
  BY <1>1, <1>2, FirstOutOrder
<1>6. ASSUME NEW i \in 1 .. q.used - 1 PROVE Waiting'[i] = Waiting[i + 1]
  <2>1. /\ i - 1 \in 0 .. N - 2 /\ (i - 1) + 1 = i /\ (i + 1) - 1 = i
        /\ i + 1 \in 1 .. q.used
    BY <1>5, LoopQueueAssumption
  <2>2. SlotAt(q', i - 1) = SlotAt(q, (i + 1) - 1)
    BY <1>5, <2>1
  <2> QED
    BY <1>2, <1>5, <2>1, <2>2 DEF Waiting
<1>7. Waiting # << >> /\ Head(Waiting) = Waiting[1] /\ Waiting' = Tail(Waiting)
  BY <1>4, <1>5, <1>6, TailOfElements, LoopQueueAssumption
<1>8. Head(Waiting).datum = store[q.first_out]
  BY <1>5, <1>7, LoopQueueAssumption DEF Waiting
<1>9. InHands[q.first_out] = NoData
  BY <1>1, <1>3 DEF InHands
<1>10. InHands' = [InHands EXCEPT ![q.first_out] = Head(Waiting).datum]
  BY <1>1, <1>2, <1>8 DEF InHands
<1> QED
  BY <1>7, <1>9, <1>10 DEF Fifo!Take

(* Releasing a slot, and clearing the queue. *)
LEMMA ReleaseImplements ==
  ASSUME SlotsFitAByte, FInv, NEW s \in Slots, Release(s)
  PROVE  Fifo!PutDown(s)
<1>1. q \in Queue /\ RingConsistent(q)
  BY DEF FInv, IInv, TypeOK, RingInv
<1>2. /\ q' = ReleaseBuf(q, s) /\ held' = held \ {s} /\ s \in held
      /\ permit' = permit /\ store' = store
  BY DEF Release
<1>3. q'.used = q.used /\ q'.first_out = q.first_out
  BY <1>1, <1>2, ReleaseBufProps
<1>4. Waiting' = Waiting
  BY <1>2, <1>3 DEF Waiting, SlotAt
<1>5. InHands[s] # NoData
  BY <1>2, SlotQueueAssumption DEF InHands, FInv, Contents
<1>6. InHands' = [InHands EXCEPT ![s] = NoData]
  BY <1>2 DEF InHands
<1> QED
  BY <1>4, <1>5, <1>6 DEF Fifo!PutDown

LEMMA ClearImplements == ASSUME FInv, Clear PROVE Fifo!Empty
<1>1. q'.used = 0 /\ held' = held /\ store' = store
  BY DEF Clear, Cleared
<1>2. Waiting' = << >>
  BY <1>1 DEF Waiting
<1> QED
  BY <1>1, <1>2 DEF Fifo!Empty, InHands

(* The clients of a loop queue of any length see a bounded FIFO: data come *)
(* out in the order they went in, none is lost but the oldest of a full    *)
(* queue whose producers may occupy it, and what a consumer has taken out  *)
(* stays as it is until the consumer gives the slot back.                  *)
THEOREM FifoCorrect == ASSUME SlotsFitAByte PROVE Spec => ImplementsFifo
<1>1. Init => Fifo!Init
  <2> SUFFICES ASSUME Init PROVE Fifo!Init
    OBVIOUS
  <2>1. q.used = 0 /\ held = {}
    BY DEF Init, Cleared
  <2>2. Waiting = << >>
    BY <2>1 DEF Waiting
  <2> QED
    BY <2>1, <2>2 DEF Fifo!Init, InHands
<1>2. FInv /\ FInv' /\ [Next]_vars => [Fifo!Next]_<<Waiting, InHands>>
  <2> SUFFICES ASSUME FInv, FInv', [Next]_vars PROVE [Fifo!Next]_<<Waiting, InHands>>
    OBVIOUS
  <2>1. ASSUME NEW d \in Data, Push(d) PROVE Fifo!Next
    <3>1. permit \in BOOLEAN
      BY DEF FInv, IInv, TypeOK
    <3> QED
      BY <2>1, <3>1, PushImplements DEF Fifo!Next
  <2>2. ASSUME Pop PROVE Fifo!Next
    <3>1. q.first_out \in Slots
      BY DEF FInv, IInv, TypeOK, Queue
    <3> QED
      BY <2>2, <3>1, PopImplements DEF Fifo!Next
  <2>3. ASSUME NEW s \in Slots, Release(s) PROVE Fifo!Next
    BY <2>3, ReleaseImplements DEF Fifo!Next
  <2>4. ASSUME Clear PROVE Fifo!Next
    BY <2>4, ClearImplements DEF Fifo!Next
  <2>5. CASE UNCHANGED vars
    BY <2>5 DEF vars, Waiting, InHands
  <2> QED
    BY <2>1, <2>2, <2>3, <2>4, <2>5 DEF Next, PushRefused
<1>3. FInv /\ [Next]_vars => FInv'
  BY NextFInv
<1> QED
  BY InitFInv, <1>1, <1>2, <1>3, PTL DEF Spec, ImplementsFifo, Fifo!Spec, Fifo!vars
-----------------------------------------------------------------------------
(* How many pops and releases are before a marked slot until a consumer    *)
(* has it in its hands: a pop and a release for every older node, and the  *)
(* release of what the consumers hold now.                                 *)
WaitsFor(s) == IF s \in held THEN 0 ELSE 1 + 2 * Offset(q, s) + Cardinality(held)

ComesUp(s) ==
  q.buf[s] = "used" /\ q'.buf[s] = "used" =>
    /\ WaitsFor(s)' <= WaitsFor(s)
    /\ s \notin held /\ (Pop \/ \E t \in Slots : Release(t))
         => WaitsFor(s)' < WaitsFor(s)

(* No step takes a marked slot further from its consumer. *)
LEMMA NextComesUp ==
  ASSUME SlotsFitAByte, IInv, [Next]_vars, NEW s \in Slots
  PROVE  ComesUp(s)
<1> SUFFICES ASSUME q.buf[s] = "used", q'.buf[s] = "used"
             PROVE  /\ WaitsFor(s)' <= WaitsFor(s)
                    /\ s \notin held /\ (Pop \/ \E t \in Slots : Release(t))
                         => WaitsFor(s)' < WaitsFor(s)
  BY DEF ComesUp
<1>0. /\ q \in Queue /\ RingConsistent(q) /\ held \in SUBSET Slots
      /\ q.first_out \in Slots /\ permit \in BOOLEAN /\ q.buf \in [Slots -> Marks]
      /\ q.first_in \in Slots
  BY DEF IInv, TypeOK, RingInv, Queue
<1> DEFINE c == Cardinality(held)
           o == Offset(q, s)
<1>1. IsFiniteSet(held) /\ c \in Nat /\ o \in 0 .. N - 1
  BY <1>0, SlotsFinite, OffsetInRing
<1>2. WaitsFor(s) = IF s \in held THEN 0 ELSE 1 + 2 * o + c
  BY DEF WaitsFor
<1>3. ASSUME NEW t \in Slots, Release(t)
      PROVE  WaitsFor(s)' <= WaitsFor(s) /\ (s \notin held => WaitsFor(s)' < WaitsFor(s))
  <2>1. t \in held /\ held' = held \ {t} /\ q' = ReleaseBuf(q, t)
    BY <1>3 DEF Release
  <2>2. q'.first_out = q.first_out /\ q'.buf = [q.buf EXCEPT ![t] = "free"]
    BY <1>0, <2>1, ReleaseBufProps
  <2>3. s # t
    BY <1>0, <2>2
  <2>4. Cardinality(held') = c - 1
    BY <1>1, <2>1, FS_RemoveElement
  <2>5. Offset(q', s) = o
    BY <2>2 DEF Offset
  <2>6. WaitsFor(s)' = IF s \in held THEN 0 ELSE 1 + 2 * o + (c - 1)
    BY <2>1, <2>3, <2>4, <2>5 DEF WaitsFor
  <2> QED
    BY <1>1, <1>2, <2>6
<1>4. ASSUME Pop
      PROVE  WaitsFor(s)' <= WaitsFor(s) /\ (s \notin held => WaitsFor(s)' < WaitsFor(s))
  <2>1. held' = held \cup {q.first_out} /\ q' = FirstOut(q) /\ CanFirstOut(q)
    BY <1>4 DEF Pop
  <2>2. q.first_out \notin held
    BY <1>0, <2>1, FirstOutProps DEF IInv, Ownership, HeldNotQueued
  <2>3. q'.first_out = NextNode(q.first_out)
    BY <2>1 DEF FirstOut
  <2>4. Cardinality(held') = c + 1
    BY <1>1, <2>1, <2>2, FS_AddElement
  <2>5. Offset(q', s) = IF s = q.first_out THEN N - 1 ELSE o - 1
    BY <1>0, <2>3, PlacesBehindNext DEF Offset
  <2>6. WaitsFor(s)' = IF s \in held \/ s = q.first_out THEN 0
                       ELSE 1 + 2 * (o - 1) + (c + 1)
    BY <2>1, <2>4, <2>5 DEF WaitsFor
  <2> QED
    BY <1>1, <1>2, <2>6
<1>5. ASSUME NEW d \in Data, Push(d) PROVE WaitsFor(s)' <= WaitsFor(s)
  <2>1. /\ q' = FirstIn(q, permit) /\ held' = held /\ q.buf[q.first_in] = "free"
    BY <1>5 DEF Push, CanFirstIn
  <2>2. s # q.first_in
    BY <2>1
  <2>3. CASE q.used = N
    <3>1. q.first_out = q.first_in
      BY <1>0, <2>3, LoopQueueAssumption DEF RingConsistent, SlotAt, Slots
    <3>2. q'.first_out = NextNode(q.first_out)
      BY <1>0, <2>1, <2>3, StateOfProps, LoopQueueAssumption DEF FirstIn, RingConsistent
    <3>3. Offset(q', s) = o - 1
      BY <1>0, <2>2, <3>1, <3>2, PlacesBehindNext DEF Offset
    <3>4. WaitsFor(s)' = IF s \in held THEN 0 ELSE 1 + 2 * (o - 1) + c
      BY <2>1, <3>3 DEF WaitsFor
    <3> QED
      BY <1>1, <1>2, <3>4
  <2>4. CASE q.used # N
    <3>1. q.used \in 0 .. N
      BY <1>0 DEF Queue
    <3>2. q.state # "Full"
      BY <1>0, <2>4, <3>1, StateOfProps DEF RingConsistent
    <3>3. q'.first_out = q.first_out
      BY <2>1, <3>2 DEF FirstIn
    <3>4. WaitsFor(s)' = WaitsFor(s)
      BY <2>1, <3>3 DEF WaitsFor, Offset
    <3> QED
      BY <1>1, <1>2, <3>4
  <2> QED
    BY <2>3, <2>4
<1>6. ~Clear
  BY DEF Clear, Cleared
<1>7. ASSUME UNCHANGED vars PROVE WaitsFor(s)' <= WaitsFor(s)
  <2>1. WaitsFor(s)' = WaitsFor(s)
    BY <1>7 DEF vars, WaitsFor
  <2> QED
    BY <1>1, <1>2, <2>1
<1>8. WaitsFor(s)' <= WaitsFor(s)
  BY <1>3, <1>4, <1>5, <1>6, <1>7 DEF Next, PushRefused
<1> QED
  BY <1>3, <1>4, <1>8

(* A slot that is marked is on its way: no step takes it further from a    *)
(* consumer's hands, every pop and every release brings it nearer, and as  *)
(* long as it is queued a pop or a release is possible.  It is             *)
(* EverySlotRecycled for every length, but for the step that has to come.  *)
THEOREM SlotComesUp == ASSUME SlotsFitAByte
  PROVE Spec => /\ [](\A s \in Slots : q.buf[s] = "used" =>
                        \/ s \in held
                        \/ CanFirstOut(q) /\ (held # {} \/ Cardinality(held) < MaxHeld))
                /\ [](\A s \in Slots : WaitsFor(s) \in Nat)
                /\ [][\A s \in Slots : ComesUp(s)]_vars
<1>1. IInv /\ [Next]_vars => IInv'
  BY NextIInv
<1>2. IInv /\ [Next]_vars => [\A s \in Slots : ComesUp(s)]_vars
  BY NextComesUp
<1>3. IInv => \A s \in Slots : q.buf[s] = "used" =>
        \/ s \in held
        \/ CanFirstOut(q) /\ (held # {} \/ Cardinality(held) < MaxHeld)
  <2> SUFFICES ASSUME IInv, NEW s \in Slots, q.buf[s] = "used", s \notin held
               PROVE  CanFirstOut(q) /\ (held # {} \/ Cardinality(held) < MaxHeld)
    OBVIOUS
  <2>1. s \in Queued(q) /\ q \in Queue /\ RingConsistent(q)
    BY DEF IInv, TypeOK, RingInv, Ownership, NoSlotLeak
  <2>2. q.used \in 0 .. N /\ Offset(q, s) \in 0 .. N - 1 /\ Offset(q, s) < q.used
    BY <2>1, OffsetInRing DEF Queue, Queued
  <2>3. q.used # 0
    BY <2>2
  <2>4. CanFirstOut(q)
    BY <2>1, <2>2, <2>3, StateOfProps DEF CanFirstOut, RingConsistent
  <2>5. held = {} => Cardinality(held) < MaxHeld
    BY FS_EmptySet, SlotQueueAssumption
  <2> QED
    BY <2>4, <2>5
<1>4. IInv => \A s \in Slots : WaitsFor(s) \in Nat
  <2> SUFFICES ASSUME IInv, NEW s \in Slots PROVE WaitsFor(s) \in Nat
    OBVIOUS
  <2>1. q \in Queue /\ held \in SUBSET Slots
    BY DEF IInv, TypeOK, RingInv
  <2>2. Offset(q, s) \in 0 .. N - 1 /\ Cardinality(held) \in Nat
    BY <2>1, SlotsFinite, OffsetInRing
  <2> QED
    BY <2>2 DEF WaitsFor
<1> QED
  BY InitIInv, <1>1, <1>2, <1>3, <1>4, PTL DEF Spec
=============================================================================
