------------------------------ MODULE SlotQueue ------------------------------
(***************************************************************************)
(* One loop queue with its clients, as DataFlow.c, command.c,              *)
(* CharStringDebugModule.c and UserFlash.c use it: a producer asks for a   *)
(* slot and fills the array element of that number in the same critical    *)
(* region; a consumer takes the oldest slot, reads the element and gives   *)
(* the slot back.  Several consumers may each hold a slot, and give them   *)
(* back in any order.                                                      *)
(***************************************************************************)
EXTENDS LoopQueue, Sequences, FiniteSets

CONSTANTS Data,      \* what the clients store in a slot
          NoData,    \* the contents of a slot nobody has filled
          MaxHeld    \* how many slots the consumers hold at most

ASSUME SlotQueueAssumption == NoData \notin Data /\ MaxHeld \in Nat \ {0}

VARIABLES q,         \* the queue record
          permit,    \* the is_OccupyPermit this queue's producers pass
          store,     \* the clients' array, one element per slot
          held       \* the slots taken out and not yet given back

vars == <<q, permit, store, held>>

TypeOK == /\ q \in Queue
          /\ permit \in BOOLEAN
          /\ store \in [Slots -> Data \cup {NoData}]
          /\ held \in SUBSET Slots

(* Every queue of the program has one kind of producer: X_True in          *)
(* UserFlash.c's parameter trace, X_False everywhere else.                 *)
Init == /\ q = Cleared
        /\ permit \in BOOLEAN
        /\ store = [s \in Slots |-> NoData]
        /\ held = {}

(* The trace pops, reads and releases in one call (DebugParamCollect), so  *)
(* where occupation is permitted nothing is held when a producer pushes.   *)
Push(d) ==
  /\ permit => held = {}
  /\ CanFirstIn(q)
  /\ q' = FirstIn(q, permit)
  /\ store' = [store EXCEPT ![q.first_in] = d]
  /\ UNCHANGED <<permit, held>>

\* isOK is X_False and nothing has changed: the producer drops the datum.
PushRefused == ~CanFirstIn(q) /\ UNCHANGED vars

Pop ==
  /\ CanFirstOut(q)
  /\ Cardinality(held) < MaxHeld
  /\ q' = FirstOut(q)
  /\ held' = held \cup {q.first_out}
  /\ UNCHANGED <<permit, store>>

Release(s) ==
  /\ s \in held
  /\ q' = ReleaseBuf(q, s)
  /\ held' = held \ {s}
  /\ UNCHANGED <<permit, store>>

ClearInUse == q' = Cleared /\ UNCHANGED <<permit, store, held>>

\* Clients clear a queue between calls, never with a popped slot in use.
Clear == held = {} /\ q' = Cleared /\ UNCHANGED <<permit, store, held>>

Next == \/ \E d \in Data : Push(d)
        \/ PushRefused
        \/ Pop
        \/ \E s \in Slots : Release(s)
        \/ Clear

Spec == Init /\ [][Next]_vars

(* The consumers run from the periodic timer, so a queued node is popped   *)
(* and a popped slot released; nothing makes a producer push.              *)
FairSpec == Spec /\ WF_vars(Pop) /\ \A s \in Slots : WF_vars(Release(s))

-----------------------------------------------------------------------------
(* The indices never drift from the count, whatever the order of pushes,   *)
(* overwrites, pops and clears (loop_queues.c moves each on its own).      *)
RingInv == RingConsistent(q)

(* A slot a consumer has taken is not in the queue: no producer can have   *)
(* been given it again.                                                    *)
HeldNotQueued == held \cap Queued(q) = {}

(* A marked slot is queued or held: a mark nobody will ever clear would    *)
(* refuse every later push when first_in comes round to it.                *)
NoSlotLeak == \A s \in Slots : q.buf[s] = "used" => s \in Queued(q) \cup held

(* Where producers may not occupy, a slot in use is marked, so that a push *)
(* can neither overwrite queued data nor data being read.                  *)
InUseMarked == ~permit => \A s \in Queued(q) \cup held : q.buf[s] = "used"

(* Who owns a slot: its mark, the queue and the consumers agree. *)
Ownership == HeldNotQueued /\ NoSlotLeak /\ InUseMarked

(* Consumers that give slots back in the order they took them are never    *)
(* refused while the ring has a slot nobody uses: first_in then points at  *)
(* a free slot.                                                            *)
HeldInOrder == \A s \in held, t \in Slots :
                 Offset(q, t) >= Offset(q, s) => t \in held
NoSpuriousRefusal ==
  HeldInOrder /\ q.used + Cardinality(held) < N => CanFirstIn(q)

(* Every marked slot is free again at some later time, so a refusal is     *)
(* never for ever.                                                         *)
EverySlotRecycled == \A s \in Slots : q.buf[s] = "used" ~> q.buf[s] = "free"

(* The clients see a bounded FIFO whose taken elements stay as they are.   *)
Waiting == [i \in 1 .. q.used |->
              [datum |-> store[SlotAt(q, i - 1)], lose |-> permit]]
InHands == [s \in Slots |-> IF s \in held THEN store[s] ELSE NoData]
Fifo == INSTANCE SlotFifo WITH Capacity <- N, Hands <- Slots,
                               queue <- Waiting, hand <- InHands
ImplementsFifo == Fifo!Spec
=============================================================================
