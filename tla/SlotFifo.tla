------------------------------- MODULE SlotFifo -------------------------------
(***************************************************************************)
(* What a client of a loop queue is promised: a bounded first-in first-out *)
(* queue of data, and that a datum it has taken out stays in its hand,     *)
(* untouched, until it puts it down.  An element that was put in as        *)
(* losable may be dropped, oldest first, to make room; no other may.       *)
(***************************************************************************)
EXTENDS Sequences, Integers

CONSTANTS Capacity,  \* the number of elements that fit
          Data,      \* what can be put in
          Hands,     \* the places an element taken out can be kept
          NoData     \* an empty hand

VARIABLES queue,     \* sequence of [datum, lose]
          hand       \* what each hand holds

vars == <<queue, hand>>

Init == queue = << >> /\ hand = [h \in Hands |-> NoData]

Put(d, lose) ==
  /\ Len(queue) < Capacity
  /\ queue' = Append(queue, [datum |-> d, lose |-> lose])
  /\ UNCHANGED hand

Replace(d, lose) ==
  /\ Len(queue) = Capacity
  /\ Head(queue).lose
  /\ queue' = Append(Tail(queue), [datum |-> d, lose |-> lose])
  /\ UNCHANGED hand

Take(h) ==
  /\ queue # << >>
  /\ hand[h] = NoData
  /\ hand' = [hand EXCEPT ![h] = Head(queue).datum]
  /\ queue' = Tail(queue)

PutDown(h) ==
  /\ hand[h] # NoData
  /\ hand' = [hand EXCEPT ![h] = NoData]
  /\ UNCHANGED queue

Empty == queue' = << >> /\ UNCHANGED hand

Next == \/ \E d \in Data, lose \in BOOLEAN : Put(d, lose) \/ Replace(d, lose)
        \/ \E h \in Hands : Take(h) \/ PutDown(h)
        \/ Empty

Spec == Init /\ [][Next]_vars
=============================================================================
