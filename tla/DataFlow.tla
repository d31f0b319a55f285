------------------------------ MODULE DataFlow ------------------------------
(***************************************************************************)
(* The bytes of DongleTask/DataFlow.c: each entry has a loop queue and an  *)
(* array of N slots, one after the other in memory.  A slot has the bytes  *)
(* of one notification and one more for their number.  DataFlowPush writes *)
(* that number one byte too far, at buf_pointer[buf_length], which is the  *)
(* first byte of the next slot.                                            *)
(*                                                                         *)
(* A notification is one value: the slot's first byte and the rest of it   *)
(* are kept apart, because only the first byte is in reach of the slot     *)
(* before it.                                                              *)
(***************************************************************************)
EXTENDS LoopQueue

CONSTANTS Entries,   \* the DataFlowEntry values
          Values,    \* what is notified
          Length,    \* a first byte that holds a number of bytes, not in Values
          Nothing    \* no entry

VARIABLES q,         \* the loop queue of each entry
          store,     \* the slots of each entry
          current,   \* current_used_buf_number, shared by all entries
          using      \* the entry popped and not yet released

vars == <<q, store, current, using>>

TypeOK == /\ q \in [Entries -> Queue]
          /\ store \in [Entries -> [Slots -> [first : Values \cup {Length},
                                              rest  : Values]]]
          /\ current \in Slots
          /\ using \in Entries \cup {Nothing}

\* DataFlowInit; the arrays are static.
Init == /\ q = [e \in Entries |-> Cleared]
        /\ \E v \in Values :
             store = [e \in Entries |-> [s \in Slots |-> [first |-> v, rest |-> v]]]
        /\ current = 0
        /\ using = Nothing

(* DataFlowPush.  What lies behind the last slot is some other object and  *)
(* is left out.                                                            *)
Push(e, v) ==
  /\ CanFirstIn(q[e])
  /\ q' = [q EXCEPT ![e] = FirstIn(@, FALSE)]
  /\ LET s == q[e].first_in
         copied == [store[e] EXCEPT ![s] = [first |-> v, rest |-> v]]
     IN  store' = [store EXCEPT ![e] =
                     IF s + 1 \in Slots
                     THEN [copied EXCEPT ![s + 1].first = Length] ELSE copied]
  /\ UNCHANGED <<current, using>>

\* DataFlowPop; the caller reads the slot until it releases it.
Pop(e) ==
  /\ using = Nothing
  /\ CanFirstOut(q[e])
  /\ q' = [q EXCEPT ![e] = FirstOut(@)]
  /\ current' = q[e].first_out
  /\ using' = e
  /\ UNCHANGED store

\* DataFlowReleaseCurrentBuf
Release ==
  /\ using # Nothing
  /\ q' = [q EXCEPT ![using] = ReleaseBuf(@, current)]
  /\ using' = Nothing
  /\ UNCHANGED <<store, current>>

Next == \/ \E e \in Entries, v \in Values : Push(e, v)
        \/ \E e \in Entries : Pop(e)
        \/ Release

Spec == Init /\ [][Next]_vars

(* DongleTask.c:58 "so that data buf will not be overwriten": a slot that  *)
(* waits or is being read holds the notification it was given.             *)
DataNotOverwritten ==
  \A e \in Entries, s \in Slots :
    s \in Queued(q[e]) \/ (using = e /\ s = current)
      => store[e][s].first = store[e][s].rest
=============================================================================
