------------------------------ MODULE LoopQueue ------------------------------
(***************************************************************************)
(* The index ring of MulLoopQueue/loop_queues.c as operators on a queue    *)
(* record.  The ring hands out slot numbers; the clients keep the data in  *)
(* arrays of their own, indexed by the slot number they were given.        *)
(*                                                                         *)
(* loop_queues.h:5 says the queue "can't be interrupt by an irq": each     *)
(* operation is one step, which is how every client module uses it.        *)
(***************************************************************************)
EXTENDS Integers

CONSTANTS N,         \* ValidNodeNumber, the number of slots
          ByteRange  \* 2^8 in the code: RealseSimpleQueueBuf takes a uint8_t

ASSUME LoopQueueAssumption == /\ N \in Nat /\ 1 <= N /\ N < 65535
                              /\ ByteRange \in Nat \ {0}

Slots     == 0 .. N - 1
Marks     == {"free", "used"}                  \* BUF_FREE, BUF_USED
ListState == {"Empty", "Normal", "Full"}

(* sListManagerParam together with the byte array p_buf. *)
Queue == [state : ListState, first_in : Slots, first_out : Slots,
          used : 0 .. N, buf : [Slots -> Marks]]

\* UpdataListState
StateOf(used) == CASE used = 0 -> "Empty"
                   [] used >= N -> "Full"
                   [] OTHER -> "Normal"

\* A slip of NextNode: the comparison is made before the increment.
LateNextNode(k) == IF k >= N THEN 0 ELSE k + 1

\* NodeMoveForward
NextNode(k) == IF k + 1 >= N THEN 0 ELSE k + 1

(* Forms of operators below with one slip each; the properties of          *)
(* SlotQueue tell every one of them from the code.                         *)
OutNotMovedWhenFull(q, permit) ==
  [state |-> StateOf(q.used), first_in |-> NextNode(q.first_in),
   first_out |-> q.first_out,
   used |-> IF q.state = "Full" THEN q.used ELSE q.used + 1,
   buf |-> [q.buf EXCEPT ![q.first_in] = IF permit THEN "free" ELSE "used"]]
FreedByFirstOut(q) ==
  [state |-> StateOf(q.used - 1), first_in |-> q.first_in,
   first_out |-> NextNode(q.first_out), used |-> q.used - 1,
   buf |-> [q.buf EXCEPT ![q.first_out] = "free"]]
LastSlotNotReleased(q, slot) ==
  IF slot >= N - 1 THEN q ELSE [q EXCEPT !.buf = [@ EXCEPT ![slot] = "free"]]

\* SimpleQueueInitialize and ClearSimpleQueue
Cleared == [state |-> "Empty", first_in |-> 0, first_out |-> 0, used |-> 0,
            buf |-> [s \in Slots |-> "free"]]

(* SimpleQueueFirstIn answers isOK and the slot first_in exactly when that *)
(* slot is free, in every state of the list.                               *)
CanFirstIn(q) == q.buf[q.first_in] = "free"

(* The state after a successful SimpleQueueFirstIn.  On a full ring the    *)
(* oldest node is dropped: both indices move and the count stays.          *)
FirstIn(q, permit) ==
  LET full == q.state = "Full"
      used == IF full THEN q.used ELSE q.used + 1
  IN  [state     |-> IF full THEN "Full" ELSE StateOf(used),
       first_in  |-> NextNode(q.first_in),
       first_out |-> IF full THEN NextNode(q.first_out) ELSE q.first_out,
       used      |-> used,
       buf       |-> [q.buf EXCEPT ![q.first_in] =
                        IF permit THEN "free" ELSE "used"]]

\* SimpleQueueFirstOut answers isOK and the slot first_out.
CanFirstOut(q) == q.state # "Empty"

\* The slot keeps its mark: the client returns it with ReleaseBuf.
FirstOut(q) ==
  LET used == IF q.used > 0 THEN q.used - 1 ELSE q.used
  IN  [state |-> StateOf(used), first_in |-> q.first_in,
       first_out |-> NextNode(q.first_out), used |-> used, buf |-> q.buf]

\* RealseSimpleQueueBuf: the slot number is cut to eight bits by the call.
ReleaseBuf(q, slot) ==
  LET buf_num == slot % ByteRange
  IN  IF buf_num >= N THEN q ELSE [q EXCEPT !.buf = [@ EXCEPT ![buf_num] = "free"]]

-----------------------------------------------------------------------------
(* How far a slot lies behind the oldest queued one; the queued slots are  *)
(* those that lie less than used behind it.                                *)
Offset(q, s) == IF s >= q.first_out THEN s - q.first_out
                                    ELSE s - q.first_out + N

Queued(q) == {s \in Slots : Offset(q, s) < q.used}

\* The slot of the i-th oldest queued node, i counted from 0.
SlotAt(q, i) == IF q.first_out + i >= N THEN q.first_out + i - N
                                        ELSE q.first_out + i

(* The two indices, the count and the state name agree. *)
RingConsistent(q) == /\ q.first_in = SlotAt(q, IF q.used = N THEN 0 ELSE q.used)
                     /\ q.state = StateOf(q.used)
=============================================================================
