--------------------------- MODULE LoopQueueProofs ---------------------------
(***************************************************************************)
(* The ring arithmetic of loop_queues.c for every length N: one lemma per  *)
(* operation, which says what it does to the slots that are queued, so     *)
(* that the proofs of the client modules need not open it up.              *)
(***************************************************************************)
EXTENDS LoopQueue, SequenceTheorems, TLAPS

(* Every queue of the program whose slots are released has at most 20      *)
(* slots, so that the uint8_t argument of RealseSimpleQueueBuf names them  *)
(* all.  Longer ones would release the wrong slot.                         *)
SlotsFitAByte == N <= ByteRange

(* The index helper stays in the ring. *)
LEMMA NextNodeInSlots == ASSUME NEW k \in Slots PROVE NextNode(k) \in Slots
BY LoopQueueAssumption DEF NextNode, Slots

(* The slot after the one u places behind o is u + 1 places behind o. *)
LEMMA NextSlotAt ==
  ASSUME NEW o \in Slots, NEW u \in 0 .. N - 1
  PROVE  NextNode(IF o + u >= N THEN o + u - N ELSE o + u) =
           IF u + 1 = N THEN o
           ELSE IF o + (u + 1) >= N THEN o + (u + 1) - N ELSE o + (u + 1)
<1> USE LoopQueueAssumption DEF NextNode, Slots
<1>1. CASE o + u >= N
  BY <1>1
<1>2. CASE o + u < N /\ o + u + 1 >= N
  BY <1>2
<1>3. CASE o + u + 1 < N
  BY <1>3
<1> QED
  BY <1>1, <1>2, <1>3

(* The slot u - 1 places behind the next of o is u places behind o.        *)
LEMMA SlotFromNext ==
  ASSUME NEW o \in Slots, NEW u \in 1 .. N
  PROVE  (IF NextNode(o) + (u - 1) >= N THEN NextNode(o) + (u - 1) - N
                                        ELSE NextNode(o) + (u - 1))
           = IF u = N THEN o ELSE IF o + u >= N THEN o + u - N ELSE o + u
<1> USE LoopQueueAssumption DEF NextNode, Slots
<1>1. CASE o + 1 >= N
  BY <1>1
<1>2. CASE o + 1 < N /\ o + u >= N
  BY <1>2
<1>3. CASE o + 1 < N /\ o + u < N
  BY <1>3
<1> QED
  BY <1>1, <1>2, <1>3

(* A slot is u places behind o exactly when it is the slot SlotAt says. *)
LEMMA PlacesBehind ==
  ASSUME NEW o \in Slots, NEW s \in Slots, NEW u \in 0 .. N - 1
  PROVE  LET d == IF s >= o THEN s - o ELSE s - o + N
         IN  /\ d \in 0 .. N - 1
             /\ d = u <=> s = IF o + u >= N THEN o + u - N ELSE o + u
<1> USE LoopQueueAssumption DEF Slots
<1>1. CASE s >= o
  BY <1>1
<1>2. CASE s < o
  BY <1>2
<1> QED
  BY <1>1, <1>2

(* Seen from the next node every other slot is one place nearer.           *)
LEMMA PlacesBehindNext ==
  ASSUME NEW o \in Slots, NEW s \in Slots
  PROVE  LET d == IF s >= o THEN s - o ELSE s - o + N
             e == IF s >= NextNode(o) THEN s - NextNode(o) ELSE s - NextNode(o) + N
         IN  e = IF s = o THEN N - 1 ELSE d - 1
<1> USE LoopQueueAssumption DEF Slots, NextNode
<1>1. CASE s > o
  BY <1>1
<1>2. CASE s = o
  BY <1>2
<1>3. CASE s < o
  BY <1>3
<1> QED
  BY <1>1, <1>2, <1>3

LEMMA OffsetInRing ==
  ASSUME NEW r \in Queue, NEW s \in Slots
  PROVE  Offset(r, s) \in 0 .. N - 1
BY LoopQueueAssumption DEF Offset, Queue, Slots

(* A fresh or cleared queue is well formed and holds nothing. *)
LEMMA ClearedProps ==
  /\ Cleared \in Queue
  /\ RingConsistent(Cleared)
  /\ Queued(Cleared) = {}
BY LoopQueueAssumption
   DEF Cleared, Queue, RingConsistent, Queued, Offset, SlotAt, StateOf, Slots,
       Marks, ListState

(* The list state read as a comparison of the count. *)
LEMMA StateOfProps ==
  ASSUME NEW u \in 0 .. N
  PROVE  /\ StateOf(u) \in ListState
         /\ StateOf(u) = "Empty" <=> u = 0
         /\ StateOf(u) = "Full" <=> u = N
BY LoopQueueAssumption DEF StateOf, ListState

(* FirstIn keeps the queue well formed: on a full ring both indices move   *)
(* and the count stays, otherwise the count grows by one.                  *)
LEMMA FirstInProps ==
  ASSUME NEW r \in Queue, RingConsistent(r), NEW p \in BOOLEAN
  PROVE  /\ FirstIn(r, p) \in Queue
         /\ RingConsistent(FirstIn(r, p))
         /\ FirstIn(r, p).buf = [r.buf EXCEPT ![r.first_in] =
                                   IF p THEN "free" ELSE "used"]
         /\ Queued(FirstIn(r, p)) = Queued(r) \cup {r.first_in}
         /\ r.first_in \in Queued(r) <=> r.used = N
<1> USE LoopQueueAssumption
<1> DEFINE b == [r.buf EXCEPT ![r.first_in] = IF p THEN "free" ELSE "used"]
<1>1. /\ r.first_in \in Slots /\ r.first_out \in Slots /\ r.used \in 0 .. N
      /\ r.buf \in [Slots -> Marks] /\ r.state = StateOf(r.used)
  BY DEF Queue, RingConsistent
<1>2. b \in [Slots -> Marks]
  BY <1>1 DEF Marks
<1>3. r.first_in \in Queued(r) <=> r.used = N
  BY <1>1 DEF RingConsistent, Queued, Offset, SlotAt, Slots
<1>4. CASE r.used = N
  <2>1. r.state = "Full"
    BY <1>1, <1>4, StateOfProps
  <2>2. FirstIn(r, p) = [state |-> "Full", first_in |-> NextNode(r.first_in),
                         first_out |-> NextNode(r.first_out),
                         used |-> r.used, buf |-> b]
    BY <2>1 DEF FirstIn
  <2>3. r.first_in = r.first_out
    BY <1>1, <1>4 DEF RingConsistent, SlotAt, Slots
  <2>4. FirstIn(r, p) \in Queue
    BY <1>1, <1>2, <2>2, NextNodeInSlots DEF Queue, ListState
  <2>5. RingConsistent(FirstIn(r, p))
    <3>1. NextNode(r.first_in) = NextNode(r.first_out) /\ StateOf(r.used) = "Full"
      BY <1>1, <2>1, <2>3
    <3> QED
      BY <1>1, <1>4, <2>2, <3>1, NextNodeInSlots DEF RingConsistent, SlotAt, Slots
  <2>6. Queued(FirstIn(r, p)) = Slots /\ Queued(r) = Slots
    <3>1. FirstIn(r, p).used = N
      BY <1>4, <2>2
    <3>2. \A s \in Slots : Offset(r, s) < N /\ Offset(FirstIn(r, p), s) < N
      BY <2>4, OffsetInRing
    <3> QED
      BY <1>4, <3>1, <3>2 DEF Queued
  <2> QED
    BY <1>1, <1>3, <2>2, <2>4, <2>5, <2>6
<1>5. CASE r.used # N
  <2>1. r.state # "Full" /\ r.used + 1 \in 0 .. N
    BY <1>1, <1>5, StateOfProps
  <2>2. FirstIn(r, p) = [state |-> StateOf(r.used + 1),
                         first_in |-> NextNode(r.first_in),
                         first_out |-> r.first_out,
                         used |-> r.used + 1, buf |-> b]
    BY <2>1 DEF FirstIn
  <2>3. FirstIn(r, p) \in Queue
    BY <1>1, <1>2, <2>1, <2>2, NextNodeInSlots, StateOfProps DEF Queue
  <2>4. RingConsistent(FirstIn(r, p))
    <3>1. r.used \in 0 .. N - 1
      BY <1>1, <1>5
    <3>2. r.first_in = IF r.first_out + r.used >= N
                       THEN r.first_out + r.used - N ELSE r.first_out + r.used
      BY <1>5 DEF RingConsistent, SlotAt
    <3>3. NextNode(r.first_in) =
            IF r.used + 1 = N THEN r.first_out
            ELSE IF r.first_out + (r.used + 1) >= N
                 THEN r.first_out + (r.used + 1) - N ELSE r.first_out + (r.used + 1)
      BY <1>1, <3>1, <3>2, NextSlotAt
    <3>4. r.first_out + 0 = r.first_out /\ ~(r.first_out >= N)
      BY <1>1 DEF Slots
    <3> QED
      BY <1>1, <2>2, <3>3, <3>4 DEF RingConsistent, SlotAt
  <2>5. Queued(FirstIn(r, p)) = Queued(r) \cup {r.first_in}
    <3>1. \A s \in Slots : Offset(FirstIn(r, p), s) = Offset(r, s)
      BY <2>2 DEF Offset
    <3>2. r.first_in = IF r.first_out + r.used >= N
                       THEN r.first_out + r.used - N ELSE r.first_out + r.used
      BY <1>5 DEF RingConsistent, SlotAt
    <3>3. \A s \in Slots : /\ Offset(r, s) \in Nat
                           /\ Offset(r, s) = r.used <=> s = r.first_in
      <4>1. r.used \in 0 .. N - 1
        BY <1>1, <1>5
      <4> QED
        BY <1>1, <3>2, <4>1, PlacesBehind DEF Offset
    <3>4. \A s \in Slots : Offset(r, s) < r.used + 1
                             <=> Offset(r, s) < r.used \/ s = r.first_in
      BY <1>1, <3>3
    <3>5. FirstIn(r, p).used = r.used + 1
      BY <2>2
    <3> QED
      BY <1>1, <3>1, <3>4, <3>5 DEF Queued
  <2> QED
    BY <1>3, <2>2, <2>3, <2>4, <2>5
<1> QED
  BY <1>4, <1>5

(* FirstOut takes exactly the slot first_out off the queue. *)
LEMMA FirstOutProps ==
  ASSUME NEW r \in Queue, RingConsistent(r), CanFirstOut(r)
  PROVE  /\ FirstOut(r) \in Queue
         /\ RingConsistent(FirstOut(r))
         /\ FirstOut(r).buf = r.buf
         /\ r.first_out \in Queued(r)
         /\ Queued(FirstOut(r)) = Queued(r) \ {r.first_out}
<1> USE LoopQueueAssumption
<1>1. /\ r.first_in \in Slots /\ r.first_out \in Slots /\ r.used \in 1 .. N
      /\ r.buf \in [Slots -> Marks]
  BY StateOfProps DEF Queue, RingConsistent, CanFirstOut
<1>2. r.used - 1 \in 0 .. N
  BY <1>1
<1>3. FirstOut(r) = [state |-> StateOf(r.used - 1), first_in |-> r.first_in,
                     first_out |-> NextNode(r.first_out),
                     used |-> r.used - 1, buf |-> r.buf]
  BY <1>1 DEF FirstOut
<1>4. FirstOut(r) \in Queue
  BY <1>1, <1>2, <1>3, NextNodeInSlots, StateOfProps DEF Queue
<1>5. RingConsistent(FirstOut(r))
  <2>1. r.first_in = IF r.used = N THEN r.first_out
                     ELSE IF r.first_out + r.used >= N
                          THEN r.first_out + r.used - N ELSE r.first_out + r.used
    BY <1>1 DEF RingConsistent, SlotAt, Slots
  <2>2. r.first_in = IF NextNode(r.first_out) + (r.used - 1) >= N
                     THEN NextNode(r.first_out) + (r.used - 1) - N
                     ELSE NextNode(r.first_out) + (r.used - 1)
    BY <1>1, <2>1, SlotFromNext
  <2>3. r.used - 1 # N
    BY <1>1
  <2> QED
    BY <1>3, <2>2, <2>3 DEF RingConsistent, SlotAt
<1>6. Queued(FirstOut(r)) = Queued(r) \ {r.first_out}
  <2>1. \A s \in Slots : Offset(FirstOut(r), s) =
                             IF s = r.first_out THEN N - 1 ELSE Offset(r, s) - 1
    BY <1>1, <1>3, PlacesBehindNext DEF Offset
  <2>2. \A s \in Slots : Offset(r, s) \in Nat
    BY OffsetInRing
  <2>3. \A s \in Slots : Offset(FirstOut(r), s) < r.used - 1
                           <=> Offset(r, s) < r.used /\ s # r.first_out
    BY <1>1, <2>1, <2>2
  <2>4. FirstOut(r).used = r.used - 1
    BY <1>3
  <2> QED
    BY <2>3, <2>4 DEF Queued
<1>7. r.first_out \in Queued(r)
  BY <1>1 DEF Queued, Offset, Slots
<1> QED
  BY <1>3, <1>4, <1>5, <1>6, <1>7

(* ReleaseBuf clears the mark of its slot and nothing else. *)
LEMMA ReleaseBufProps ==
  ASSUME NEW r \in Queue, RingConsistent(r), NEW s \in Slots, SlotsFitAByte
  PROVE  /\ ReleaseBuf(r, s) \in Queue
         /\ RingConsistent(ReleaseBuf(r, s))
         /\ ReleaseBuf(r, s).buf = [r.buf EXCEPT ![s] = "free"]
         /\ Queued(ReleaseBuf(r, s)) = Queued(r)
         /\ ReleaseBuf(r, s).used = r.used
         /\ ReleaseBuf(r, s).first_out = r.first_out
<1> USE LoopQueueAssumption
<1>1. s % ByteRange = s /\ ~(s >= N)
  BY DEF SlotsFitAByte, Slots
<1>2. ReleaseBuf(r, s) = [r EXCEPT !.buf = [@ EXCEPT ![s] = "free"]]
  BY <1>1 DEF ReleaseBuf
<1> QED
  BY <1>2 DEF Queue, RingConsistent, Queued, Offset, SlotAt, Marks

-----------------------------------------------------------------------------
(* The queued slots in their order. *)
LEMMA SlotAtProps ==
  ASSUME NEW r \in Queue, NEW i \in 0 .. N - 1
  PROVE  /\ SlotAt(r, i) \in Slots
         /\ Offset(r, SlotAt(r, i)) = i
         /\ i < r.used => SlotAt(r, i) \in Queued(r)
<1>1. r.first_out \in Slots
  BY DEF Queue
<1> QED
  BY <1>1, LoopQueueAssumption DEF SlotAt, Offset, Slots, Queued

(* When the oldest node goes, every other one moves up by one place, and   *)
(* its slot becomes the last.                                              *)
LEMMA MovesUp ==
  ASSUME NEW r \in Queue, NEW t, t.first_out = NextNode(r.first_out)
  PROVE  /\ \A i \in 0 .. N - 2 : SlotAt(t, i) = SlotAt(r, i + 1)
         /\ SlotAt(t, N - 1) = r.first_out
<1>1. r.first_out \in Slots
  BY DEF Queue
<1>2. ASSUME NEW i \in 0 .. N - 1
      PROVE  SlotAt(t, i) = IF i = N - 1 THEN r.first_out ELSE SlotAt(r, i + 1)
  <2>1. i + 1 \in 1 .. N /\ (i + 1) - 1 = i /\ (i + 1 = N <=> i = N - 1)
    BY LoopQueueAssumption
  <2> QED
    BY <1>1, <2>1, SlotFromNext DEF SlotAt
<1>3. N - 1 \in 0 .. N - 1 /\ \A i \in 0 .. N - 2 : i \in 0 .. N - 1 /\ i # N - 1
  BY LoopQueueAssumption
<1> QED
  BY <1>2, <1>3

(* FirstIn puts its slot behind the queued ones; on a full ring the oldest *)
(* of these has gone.                                                      *)
LEMMA FirstInOrder ==
  ASSUME NEW r \in Queue, RingConsistent(r), NEW p \in BOOLEAN
  PROVE  /\ r.used # N =>
              /\ FirstIn(r, p).used = r.used + 1
              /\ \A i \in 0 .. N - 1 : SlotAt(FirstIn(r, p), i) = SlotAt(r, i)
              /\ SlotAt(r, r.used) = r.first_in
         /\ r.used = N =>
              /\ FirstIn(r, p).used = N
              /\ \A i \in 0 .. N - 2 : SlotAt(FirstIn(r, p), i) = SlotAt(r, i + 1)
              /\ SlotAt(FirstIn(r, p), N - 1) = r.first_in
<1>1. r.used \in 0 .. N /\ r.first_out \in Slots /\ r.state = StateOf(r.used)
  BY DEF Queue, RingConsistent
<1>2. CASE r.used # N
  <2>1. r.state # "Full"
    BY <1>1, <1>2, StateOfProps
  <2>2. FirstIn(r, p).first_out = r.first_out /\ FirstIn(r, p).used = r.used + 1
    BY <2>1 DEF FirstIn
  <2> QED
    BY <1>2, <2>2 DEF SlotAt, RingConsistent
<1>3. CASE r.used = N
  <2>1. r.state = "Full"
    BY <1>1, <1>3, StateOfProps
  <2>2. FirstIn(r, p).first_out = NextNode(r.first_out) /\ FirstIn(r, p).used = r.used
    BY <2>1 DEF FirstIn
  <2>3. r.first_in = r.first_out
    BY <1>1, <1>3, LoopQueueAssumption DEF RingConsistent, SlotAt, Slots
  <2> QED
    BY <1>3, <2>2, <2>3, MovesUp
<1> QED
  BY <1>2, <1>3

(* FirstOut takes the first of the queued slots and keeps the others in    *)
(* their order.                                                            *)
LEMMA FirstOutOrder ==
  ASSUME NEW r \in Queue, RingConsistent(r), CanFirstOut(r)
  PROVE  /\ r.used \in 1 .. N
         /\ SlotAt(r, 0) = r.first_out
         /\ FirstOut(r).used = r.used - 1
         /\ \A i \in 0 .. N - 2 : SlotAt(FirstOut(r), i) = SlotAt(r, i + 1)
<1>1. r.used \in 1 .. N /\ r.first_out \in Slots
  BY StateOfProps DEF Queue, RingConsistent, CanFirstOut
<1>2. FirstOut(r).first_out = NextNode(r.first_out) /\ FirstOut(r).used = r.used - 1
  BY <1>1 DEF FirstOut
<1>3. SlotAt(r, 0) = r.first_out
  BY <1>1, LoopQueueAssumption DEF SlotAt, Slots
<1> QED
  BY <1>1, <1>2, <1>3, MovesUp

-----------------------------------------------------------------------------
(* One queue: its marks are those of the queued slots and of the slots x   *)
(* that are in hand.                                                       *)
Account(r, x) == /\ r \in Queue /\ RingConsistent(r)
                 /\ {s \in Slots : r.buf[s] = "used"} = Queued(r) \cup x
                 /\ x \cap Queued(r) = {}

LEMMA ClearedAccount == Account(Cleared, {})
BY ClearedProps DEF Account, Cleared

LEMMA PushAccount ==
  ASSUME NEW r, NEW x, Account(r, x), CanFirstIn(r)
  PROVE  Account(FirstIn(r, FALSE), x)
<1>1. /\ r \in Queue /\ RingConsistent(r) /\ r.first_in \in Slots
      /\ r.buf \in [Slots -> Marks] /\ r.buf[r.first_in] = "free"
  BY DEF Account, Queue, CanFirstIn
<1>2. /\ FirstIn(r, FALSE) \in Queue /\ RingConsistent(FirstIn(r, FALSE))
      /\ FirstIn(r, FALSE).buf = [r.buf EXCEPT ![r.first_in] = "used"]
      /\ Queued(FirstIn(r, FALSE)) = Queued(r) \cup {r.first_in}
  BY <1>1, FirstInProps
<1>3. {s \in Slots : FirstIn(r, FALSE).buf[s] = "used"}
        = {s \in Slots : r.buf[s] = "used"} \cup {r.first_in}
  BY <1>1, <1>2
<1>4. r.first_in \notin x
  <2>1. x \subseteq {s \in Slots : r.buf[s] = "used"}
    BY DEF Account
  <2> QED
    BY <1>1, <2>1
<1>5. /\ {s \in Slots : r.buf[s] = "used"} = Queued(r) \cup x
      /\ x \cap Queued(r) = {}
  BY DEF Account
<1>6. /\ {s \in Slots : FirstIn(r, FALSE).buf[s] = "used"} = Queued(FirstIn(r, FALSE)) \cup x
      /\ x \cap Queued(FirstIn(r, FALSE)) = {}
  <2> DEFINE Q == Queued(r)
             U == {s \in Slots : r.buf[s] = "used"}
  <2>1. U = Q \cup x /\ x \cap Q = {}
    BY <1>5
  <2> HIDE DEF Q, U
  <2>2. /\ U \cup {r.first_in} = (Q \cup {r.first_in}) \cup x
        /\ x \cap (Q \cup {r.first_in}) = {}
    BY <2>1, <1>4
  <2> QED
    BY <1>2, <1>3, <2>2 DEF Q, U
<1> QED
  BY <1>2, <1>6 DEF Account

LEMMA TakeAccount ==
  ASSUME NEW r, Account(r, {}), CanFirstOut(r)
  PROVE  Account(FirstOut(r), {r.first_out}) /\ r.first_out \in Slots
<1>1. r \in Queue /\ RingConsistent(r) /\ r.first_out \in Slots
  BY DEF Account, Queue
<1>2. /\ FirstOut(r) \in Queue /\ RingConsistent(FirstOut(r))
      /\ FirstOut(r).buf = r.buf /\ r.first_out \in Queued(r)
      /\ Queued(FirstOut(r)) = Queued(r) \ {r.first_out}
  BY <1>1, FirstOutProps
<1> QED
  BY <1>1, <1>2 DEF Account

LEMMA ReleaseAccount ==
  ASSUME SlotsFitAByte, NEW r, NEW s \in Slots, Account(r, {s})
  PROVE  Account(ReleaseBuf(r, s), {})
<1>1. r \in Queue /\ RingConsistent(r) /\ r.buf \in [Slots -> Marks]
  BY DEF Account, Queue
<1>2. /\ ReleaseBuf(r, s) \in Queue /\ RingConsistent(ReleaseBuf(r, s))
      /\ ReleaseBuf(r, s).buf = [r.buf EXCEPT ![s] = "free"]
      /\ Queued(ReleaseBuf(r, s)) = Queued(r)
  BY <1>1, ReleaseBufProps
<1>3. {t \in Slots : ReleaseBuf(r, s).buf[t] = "used"}
        = {t \in Slots : r.buf[t] = "used"} \ {s}
  BY <1>1, <1>2
<1> QED
  BY <1>2, <1>3 DEF Account

-----------------------------------------------------------------------------
(* Sequences given by their elements, as the contents of the queued slots are. *)
LEMMA SeqOfElements ==
  ASSUME NEW S, NEW n \in Nat, NEW f \in [1 .. n -> S]
  PROVE  f \in Seq(S) /\ Len(f) = n
<1>1. f \in Seq(S)
  BY SeqDef
<1>2. DOMAIN f = 1 .. n /\ DOMAIN f = 1 .. Len(f) /\ Len(f) \in Nat
  BY <1>1, LenProperties
<1> QED
  BY <1>1, <1>2

LEMMA AppendOfElements ==
  ASSUME NEW S, NEW n \in Nat, NEW f \in [1 .. n -> S],
         NEW g \in [1 .. n + 1 -> S], \A i \in 1 .. n : g[i] = f[i]
  PROVE  g = Append(f, g[n + 1])
<1>1. f \in Seq(S) /\ Len(f) = n /\ g \in Seq(S) /\ Len(g) = n + 1
  BY SeqOfElements
<1>2. g[n + 1] \in S
  OBVIOUS
<1>3. /\ Append(f, g[n + 1]) \in Seq(S)
      /\ Len(Append(f, g[n + 1])) = n + 1
      /\ \A i \in 1 .. n + 1 : Append(f, g[n + 1])[i] = IF i <= n THEN f[i] ELSE g[n + 1]
  BY <1>1, <1>2
<1>4. \A i \in 1 .. n + 1 : Append(f, g[n + 1])[i] = g[i]
  BY <1>3
<1> QED
  BY <1>1, <1>3, <1>4, SeqEqual

LEMMA TailOfElements ==
  ASSUME NEW S, NEW n \in Nat \ {0}, NEW f \in [1 .. n -> S],
         NEW g \in [1 .. n - 1 -> S], \A i \in 1 .. n - 1 : g[i] = f[i + 1]
  PROVE  f # << >> /\ Head(f) = f[1] /\ g = Tail(f)
<1>1. f \in Seq(S) /\ Len(f) = n /\ g \in Seq(S) /\ Len(g) = n - 1
  BY SeqOfElements
<1>2. f # << >> /\ Head(f) = f[1]
  BY <1>1
<1>3. /\ Tail(f) \in Seq(S) /\ Len(Tail(f)) = n - 1
      /\ \A i \in 1 .. n - 1 : Tail(f)[i] = f[i + 1]
  BY <1>1, <1>2, HeadTailProperties
<1> QED
  BY <1>1, <1>2, <1>3, SeqEqual
=============================================================================
