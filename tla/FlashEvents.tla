---------------------------- MODULE FlashEvents ----------------------------
(***************************************************************************)
(* FlashEventHandle.c: requests to read, write and erase the flash wait in *)
(* a loop queue, writes of user sectors in a priority queue, of which only *)
(* the map it keeps (PriorityMap, PushUnlessFull) is used here.  A request *)
(* takes its slot or node inside the critical region and fills the         *)
(* parameters in after it, so callers on the main thread and on the        *)
(* timer's can be half way at the same time.  The table of the handler's   *)
(* own state machine is empty: nothing takes an event out, and only a new  *)
(* start empties the queues.                                               *)
(***************************************************************************)
EXTENDS LoopQueue

CONSTANTS Callers,       \* the threads that make requests
          Base, Total, EraseUnit, ProgramUnit,    \* sMyFlashEventBasicParam
          SectorSize, SectorCount,                \* sMyFlashEventUserParam
          Align,         \* 4: does_addr_is_aligned32
          AddressRange,  \* 2^32: addresses and lengths are uint32_t
          PriorityRange, \* 2^16: a priority is a uint16_t
          Nodes,         \* M_FLASH_MAX_REQUEST_HOLD_COUNT of them
          Requests,      \* the [op, addr, length] the callers ask for
          SectorCalls,   \* and the [page, sector, length] of user sectors
          None

SectorsPerPage == EraseUnit \div SectorSize  \* sector_count_in_erase_unit
Sectors        == 0 .. SectorCount - 1

Events == [op : {"read", "write", "erase"}, addr : 0 .. AddressRange - 1,
           length : 1 .. AddressRange - 1, who : Callers \cup {None}]

\* A call that has left the critical region with a slot, or with a node.
SlotCalls == [slot : Slots, event : Events]
NodeCalls == [node : Nodes, event : Events, rest : BOOLEAN]

(* What mFlashEventInit demands of the parameters, and widths in which a   *)
(* page whose address wraps has the priority of the page it wraps to.      *)
ASSUME FlashEventsAssumption ==
  /\ {Total, EraseUnit, ProgramUnit, SectorSize, Align} \subseteq Nat \ {0}
  /\ Base \in Nat /\ Base % EraseUnit = 0
  /\ EraseUnit % SectorSize = 0
  /\ SectorCount \in Nat /\ Total = SectorSize * SectorCount
  /\ AddressRange \in Nat /\ Base + Total < AddressRange
  /\ PriorityRange \in Nat /\ SectorCount <= PriorityRange
  /\ AddressRange % SectorSize = 0
  /\ (AddressRange \div SectorSize) % PriorityRange = 0

\* The widths of the arguments, and that None is none of the other values.
ASSUME FlashCallsAssumption ==
  /\ Requests \subseteq [op : {"read", "write", "erase"},
                         addr : 0 .. AddressRange - 1, length : 0 .. AddressRange - 1]
  /\ SectorCalls \subseteq [page : Nat, sector : Nat, length : Nat]
  /\ None \notin Nodes \cup Events \cup SlotCalls \cup NodeCalls

VARIABLES inited,   \* isInitOK
          q,        \* the loop queue of the simple requests
          fop,      \* the event in each slot of the queue
          ready, owner, reply,  \* the priority queue, see PriorityMap
          simul,    \* simul_write_param: the write at each node
          at,       \* where each caller is in its call, or None
          given,    \* history: the event each slot was taken for
          latest,   \* history: the last write accepted for each sector
          clashed   \* history: sectors that two calls filled in at once

priorityQueue == <<ready, owner, reply>>
history       == <<given, latest, clashed>>
vars == <<inited, q, fop, priorityQueue, simul, at, history>>

Event(op, addr, length, who) ==
  [op |-> op, addr |-> addr, length |-> length, who |-> who]

InSlot(slot, event)      == [slot |-> slot, event |-> event]
AtNode(node, event, rest) == [node |-> node, event |-> event, rest |-> rest]

\* FromSmall: the smaller sector number is written first.
Earlier(p, r) == p < r
Pending == INSTANCE PriorityMap WITH Priorities <- Sectors, NoNode <- None,
                                     Before <- Earlier

Present == {s \in Sectors : owner[s] # None}
Filling(c)    == at[c] # None
FillingNode(n) == {c \in Callers : Filling(c) /\ "node" \in DOMAIN at[c] /\ at[c].node = n}
FillingSlot(s) == {c \in Callers : Filling(c) /\ "slot" \in DOMAIN at[c] /\ at[c].slot = s}

-----------------------------------------------------------------------------
\* Slip: only the end is compared.
EndWithinBounds(addr, length) == (addr + length) % AddressRange <= Base + Total

\* does_addr_is_within_bounds; the sum is cut to 32 bits.
WithinBounds(addr, length) ==
  addr >= Base /\ (addr + length) % AddressRange <= Base + Total

Legal(r) ==
  /\ r.length # 0
  /\ CASE r.op = "read"  -> r.addr % Align = 0
       [] r.op = "write" -> r.length % ProgramUnit = 0 /\ r.addr % Align = 0
       [] r.op = "erase" -> r.addr % EraseUnit = 0
  /\ WithinBounds(r.addr, r.length)

SectorAddress(page, sector) ==
  (SectorSize * sector + EraseUnit * page) % AddressRange

\* Slip: a page is a priority, whichever of its sectors is written.
PagePriority(page, sector)   == (page + sector) % PriorityRange
SectorPriority(page, sector) == (page * SectorsPerPage + sector) % PriorityRange

LegalSector(r) ==
  /\ r.length \in 1 .. SectorSize
  /\ r.sector < SectorsPerPage
  /\ SectorAddress(r.page, r.sector) < Total

-----------------------------------------------------------------------------
Init == /\ inited = FALSE
        /\ q = Cleared
        /\ fop = [s \in Slots |-> None]
        /\ Pending!Init
        /\ simul = [n \in Nodes |-> None]
        /\ at = [c \in Callers |-> None]
        /\ given = [s \in Slots |-> None]
        /\ latest = [s \in Sectors |-> None]
        /\ clashed = {}

(* The code leaves the old parameters in the two arrays.  An element is    *)
(* not read before it has been filled again, so they are forgotten here.   *)
Emptied == /\ q' = Cleared
           /\ Pending!Empty
           /\ given' = [s \in Slots |-> None]
           /\ latest' = [s \in Sectors |-> None]
           /\ clashed' = {}
           /\ fop' = [s \in Slots |-> None]
           /\ simul' = [n \in Nodes |-> None]
           /\ UNCHANGED at

(* The handler is started and stopped by the owner of the callers, between *)
(* their calls; neither function looks at what is queued.                  *)
Quiet == \A c \in Callers : ~Filling(c)

FlashEventInit   == Quiet /\ inited' = TRUE /\ Emptied
FlashEventUnInit == Quiet /\ inited /\ inited' = FALSE /\ Emptied

\* The critical region of a request that goes to the loop queue.
Enqueue(c, event) ==
  /\ inited /\ ~Filling(c) /\ CanFirstIn(q)
  /\ q' = FirstIn(q, FALSE)
  /\ at' = [at EXCEPT ![c] = InSlot(q.first_in, event)]
  /\ given' = [given EXCEPT ![q.first_in] = event]
  /\ UNCHANGED <<inited, fop, priorityQueue, simul, latest, clashed>>

\* mFlashReadRequest, mFlashWriteRequest and mFlashEraseRequest
Request(c, r) == Legal(r) /\ Enqueue(c, Event(r.op, r.addr, r.length, c))

SectorRead(c, r) ==
  /\ LegalSector(r)
  /\ Enqueue(c, Event("read", SectorAddress(r.page, r.sector), r.length, c))

\* Slip: the slot looked up again when it is filled.
FillLatestSlot(c) ==
  /\ Filling(c) /\ "slot" \in DOMAIN at[c]
  /\ fop' = [fop EXCEPT ![IF q.first_in = 0 THEN N - 1 ELSE q.first_in - 1] = at[c].event]
  /\ at' = [at EXCEPT ![c] = None]
  /\ UNCHANGED <<inited, q, priorityQueue, simul, history>>

\* The assignments behind the critical region.
FillSlot(c) ==
  /\ Filling(c) /\ "slot" \in DOMAIN at[c]
  /\ fop' = [fop EXCEPT ![at[c].slot] = at[c].event]
  /\ at' = [at EXCEPT ![c] = None]
  /\ UNCHANGED <<inited, q, priorityQueue, simul, history>>

\* The critical region of mFlashSectorWriteRequest.
SectorWrite(c, r) ==
  LET p     == SectorPriority(r.page, r.sector)
      event == Event("write", SectorAddress(r.page, r.sector), r.length, c)
  IN  /\ LegalSector(r)
      /\ inited /\ ~Filling(c)
      /\ Pending!PushUnlessFull(p)
      /\ IF reply'.ok
         THEN /\ at' = [at EXCEPT ![c] = AtNode(reply'.node, event, TRUE)]
              /\ latest' = [latest EXCEPT ![event.addr \div SectorSize] = event]
              /\ clashed' = IF FillingNode(reply'.node) = {} THEN clashed \ {p}
                                                             ELSE clashed \cup {p}
         ELSE UNCHANGED <<at, latest, clashed>>
      /\ UNCHANGED <<inited, q, fop, simul, given>>

(* Address and length, then source and callback: with two calls at one     *)
(* node the halves may come from different calls.                          *)
FillRange(c) ==
  /\ Filling(c) /\ "node" \in DOMAIN at[c] /\ at[c].rest
  /\ LET w == at[c].event
         who == IF simul[at[c].node] = None THEN None ELSE simul[at[c].node].who
     IN  simul' = [simul EXCEPT ![at[c].node] = Event("write", w.addr, w.length, who)]
  /\ at' = [at EXCEPT ![c] = AtNode(at[c].node, at[c].event, FALSE)]
  /\ UNCHANGED <<inited, q, fop, priorityQueue, history>>

FillSource(c) ==
  /\ Filling(c) /\ "node" \in DOMAIN at[c] /\ ~at[c].rest
  /\ LET w == simul[at[c].node]
     IN  simul' = [simul EXCEPT ![at[c].node] = Event("write", w.addr, w.length, c)]
  /\ at' = [at EXCEPT ![c] = None]
  /\ UNCHANGED <<inited, q, fop, priorityQueue, history>>

Next == \/ FlashEventInit
        \/ FlashEventUnInit
        \/ \E c \in Callers :
             \/ \E r \in Requests : Request(c, r)
             \/ \E r \in SectorCalls : SectorRead(c, r) \/ SectorWrite(c, r)
             \/ FillSlot(c)
             \/ FillRange(c)
             \/ FillSource(c)

Spec == Init /\ [][Next]_vars

-----------------------------------------------------------------------------
TypeOK == /\ inited \in BOOLEAN
          /\ q \in Queue /\ RingConsistent(q)
          /\ fop \in [Slots -> Events \cup {None}]
          /\ ready \in BOOLEAN /\ (inited => ready)
          /\ owner \in [Sectors -> Nodes \cup {None}]
          /\ simul \in [Nodes -> Events \cup {None}]
          /\ at \in [Callers -> SlotCalls \cup NodeCalls \cup {None}]
          /\ given \in [Slots -> Events \cup {None}]
          /\ latest \in [Sectors -> Events \cup {None}]
          /\ clashed \subseteq Sectors

(* Calls at the same time never mix in the loop queue: a queued slot       *)
(* either has one caller that is still filling it in, or holds exactly the *)
(* event it was taken for.                                                 *)
CallsKeptApart ==
  /\ TypeOK
  /\ \A s \in Queued(q) :
       IF FillingSlot(s) = {} THEN fop[s] = given[s]
       ELSE \E c \in Callers : FillingSlot(s) = {c} /\ at[c].event = given[s]

(* A write that was accepted waits until the next one of its sector: two   *)
(* sectors never share a node.  What waits has the address of its sector   *)
(* and is the write accepted last, whole, unless two calls have filled in  *)
(* the node at the same time.                                              *)
LatestWriteWaits ==
  \A s \in Sectors :
    /\ latest[s] # None => s \in Present
    /\ s \in Present /\ FillingNode(owner[s]) = {} =>
         /\ simul[owner[s]].addr = s * SectorSize
         /\ s \in clashed \/ simul[owner[s]] = latest[s]

(* No queued event reaches beyond the flash, unless its end wraps round;   *)
(* events of sectors count from 0 and not from the base address.           *)
InFlash(e) ==
  \/ e.addr >= Base /\ e.addr + e.length <= Base + Total
  \/ e.addr + e.length >= AddressRange
  \/ e.op = "read" /\ (e.addr % SectorSize) + e.length <= SectorSize /\ e.addr < Total
EventsInFlash ==
  \A s \in Queued(q) : FillingSlot(s) = {} => InFlash(fop[s])
=============================================================================
