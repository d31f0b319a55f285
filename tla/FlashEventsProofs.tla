-------------------------- MODULE FlashEventsProofs --------------------------
(***************************************************************************)
(* Requests from several threads at the same time never mix, for any       *)
(* number of callers, length of the queue, number of nodes and layout of   *)
(* the flash that mFlashEventInit accepts.                                 *)
(***************************************************************************)
EXTENDS FlashEvents, LoopQueueProofs

(* Division with a remainder, in the form the sector arithmetic needs. *)
LEMMA DivisionUnique ==
  ASSUME NEW a \in Int, NEW b \in Nat \ {0}, NEW k \in Int, NEW r \in 0 .. b - 1,
         a = b * k + r
  PROVE  a % b = r /\ a \div b = k
<1> DEFINE d == a \div b
           m == a % b
<1>1. d \in Int /\ m \in 0 .. b - 1 /\ a = b * d + m
  OBVIOUS
<1> HIDE DEF d, m
<1>2. b * (k - d) = m - r
  BY <1>1
<1>3. ~(k - d >= 1)
  <2> SUFFICES ASSUME k - d >= 1 PROVE FALSE
    OBVIOUS
  <2>1. b * (k - d) >= b
    BY <1>1
  <2> QED
    BY <1>1, <1>2, <2>1
<1>4. ~(k - d <= -1)
  <2> SUFFICES ASSUME k - d <= -1 PROVE FALSE
    OBVIOUS
  <2>1. b * (k - d) <= -b
    BY <1>1
  <2> QED
    BY <1>1, <1>2, <2>1
<1>5. k = d
  BY <1>1, <1>3, <1>4
<1>6. r = m
  BY <1>1, <1>5
<1> QED
  BY <1>5, <1>6 DEF d, m

(* A multiple of b, reduced by a multiple of b. *)
LEMMA ScaledRemainder ==
  ASSUME NEW b \in Nat \ {0}, NEW l \in Nat, NEW k \in Nat \ {0}
  PROVE  (b * l) % (b * k) = b * (l % k)
<1> DEFINE d == l \div k
           m == l % k
<1>1. d \in Int /\ m \in 0 .. k - 1 /\ l = k * d + m
  OBVIOUS
<1> HIDE DEF d, m
<1>2. b * l = (b * k) * d + b * m
  BY <1>1
<1>3. b * k \in Nat \ {0} /\ b * l \in Int
  OBVIOUS
<1>4. b * m \in 0 .. (b * k) - 1
  <2>1. b * m >= 0 /\ b * m \in Int
    BY <1>1
  <2>2. m + 1 <= k
    BY <1>1
  <2>3. b * (m + 1) <= b * k
    BY <1>1, <2>2
  <2>4. b * (m + 1) = b * m + b
    BY <1>1
  <2> QED
    BY <1>3, <2>1, <2>3, <2>4
<1>5. (b * l) % (b * k) = b * m
  BY <1>1, <1>2, <1>3, <1>4, DivisionUnique
<1> QED
  BY <1>5 DEF m

(* Reducing by a multiple first changes nothing. *)
LEMMA RemainderOfRemainder ==
  ASSUME NEW l \in Nat, NEW p \in Nat \ {0}, NEW k \in Nat \ {0}, k % p = 0
  PROVE  (l % k) % p = l % p
<1> DEFINE c == k \div p
           d == l \div k
           m == l % k
           e == m \div p
           n == m % p
<1>1. c \in Int /\ k = p * c
  OBVIOUS
<1>2. d \in Int /\ m \in Nat /\ l = k * d + m
  OBVIOUS
<1> HIDE DEF c, d, m
<1>3. e \in Int /\ n \in 0 .. p - 1 /\ m = p * e + n
  BY <1>2
<1> HIDE DEF e, n
<1>4. l = p * (c * d + e) + n
  <2>1. k * d = p * (c * d)
    BY <1>1, <1>2
  <2>2. p * (c * d + e) = p * (c * d) + p * e
    BY <1>1, <1>2, <1>3
  <2> QED
    BY <1>2, <1>3, <2>1, <2>2
<1>5. c * d + e \in Int
  BY <1>1, <1>2, <1>3
<1>6. l % p = n
  BY <1>3, <1>4, <1>5, DivisionUnique
<1> QED
  BY <1>6 DEF n, m

(* A sector that passes the check of its address has the priority it is    *)
(* counted by, also when its page wraps: the 32 bits of the address and    *)
(* the 16 bits of the priority are cut at the same sector.                 *)
LEMMA SectorNumbers ==
  ASSUME NEW page \in Nat, NEW sector \in Nat, SectorAddress(page, sector) < Total
  PROVE  /\ SectorPriority(page, sector) \in Sectors
         /\ SectorAddress(page, sector) = SectorPriority(page, sector) * SectorSize
         /\ SectorAddress(page, sector) \div SectorSize = SectorPriority(page, sector)
         /\ SectorAddress(page, sector) % SectorSize = 0
         /\ SectorAddress(page, sector) \in 0 .. AddressRange - 1
<1> DEFINE spp == SectorsPerPage
           k == AddressRange \div SectorSize
           l == page * spp + sector
           p == l % k
<1>1. /\ Total \in Nat \ {0} /\ EraseUnit \in Nat \ {0} /\ SectorSize \in Nat \ {0}
      /\ Base \in Nat /\ SectorCount \in Nat /\ AddressRange \in Nat
      /\ PriorityRange \in Nat
  BY FlashEventsAssumption
<1>2. spp \in Nat /\ EraseUnit = SectorSize * spp
  BY <1>1, FlashEventsAssumption DEF SectorsPerPage
<1>3. AddressRange \in Nat \ {0}
  BY <1>1, FlashEventsAssumption
<1>4. k \in Nat /\ AddressRange = SectorSize * k
  BY <1>1, FlashEventsAssumption
<1> HIDE DEF spp, k
<1>5. k \in Nat \ {0}
  BY <1>1, <1>3, <1>4
<1>6. SectorCount \in Nat \ {0}
  BY <1>1, FlashEventsAssumption
<1>7. PriorityRange \in Nat \ {0} /\ SectorCount <= PriorityRange
  BY <1>1, <1>6, FlashEventsAssumption
<1>8. l \in Nat
  BY <1>2
<1>9. SectorSize * sector + EraseUnit * page = SectorSize * l
  <2>1. EraseUnit * page = SectorSize * (page * spp)
    BY <1>1, <1>2
  <2>2. SectorSize * l = SectorSize * (page * spp) + SectorSize * sector
    BY <1>1, <1>2
  <2> QED
    BY <1>1, <1>2, <2>1, <2>2
<1>10. SectorPriority(page, sector) = l % PriorityRange
  BY DEF SectorPriority, spp
<1> HIDE DEF l
<1>11. SectorAddress(page, sector) = SectorSize * p
  <2>1. SectorAddress(page, sector) = (SectorSize * l) % (SectorSize * k)
    BY ONLY <1>4, <1>9, Zenon DEF SectorAddress
  <2>2. (SectorSize * l) % (SectorSize * k) = SectorSize * (l % k)
    BY <1>1, <1>5, <1>8, ScaledRemainder
  <2> QED
    BY <2>1, <2>2
<1>12. p \in 0 .. k - 1
  BY <1>5, <1>8
<1> HIDE DEF p
<1>13. p < SectorCount
  <2> SUFFICES ASSUME p >= SectorCount PROVE FALSE
    BY <1>6, <1>12
  <2>1. SectorSize * p >= SectorSize * SectorCount
    BY <1>1, <1>6, <1>12
  <2>2. Total = SectorSize * SectorCount
    BY FlashEventsAssumption
  <2> QED
    BY <1>1, <1>6, <1>11, <1>12, <2>1, <2>2
<1>14. p % PriorityRange = p
  <2>1. p \in Int /\ p = PriorityRange * 0 + p /\ p \in 0 .. PriorityRange - 1
    BY <1>6, <1>7, <1>12, <1>13
  <2> QED
    BY <1>7, <2>1, DivisionUnique
<1>15. k % PriorityRange = 0
  BY FlashEventsAssumption DEF k
<1>16. l % PriorityRange = p
  BY <1>5, <1>7, <1>8, <1>14, <1>15, RemainderOfRemainder DEF p
<1>17. SectorAddress(page, sector) = SectorSize * p + 0 /\ SectorSize * p = p * SectorSize
  BY <1>1, <1>11, <1>12
<1>18. 0 \in 0 .. SectorSize - 1 /\ SectorAddress(page, sector) \in Int
  BY <1>1, <1>11, <1>12
<1>19. /\ SectorAddress(page, sector) % SectorSize = 0
       /\ SectorAddress(page, sector) \div SectorSize = p
  BY <1>1, <1>12, <1>17, <1>18, DivisionUnique
<1>20. SectorAddress(page, sector) \in 0 .. AddressRange - 1
  <2>1. SectorSize * sector + EraseUnit * page \in Int
    BY <1>1
  <2> QED
    BY <1>3, <2>1 DEF SectorAddress
<1>21. p \in Sectors
  BY <1>6, <1>12, <1>13 DEF Sectors
<1>22. SectorAddress(page, sector) = p * SectorSize
  BY <1>11, <1>17
<1> QED
  BY ONLY <1>10, <1>16, <1>19, <1>20, <1>21, <1>22, Zenon

-----------------------------------------------------------------------------
(* The loop queue: a queued slot is marked, so that the next request gets  *)
(* another one; a slot that is being filled is still queued; and the event *)
(* a slot was taken for is one that passed the checks.                     *)
QueueInv ==
  /\ \A s \in Queued(q) : q.buf[s] = "used"
  /\ \A c \in Callers : at[c] \in SlotCalls => at[c].slot \in Queued(q)
  /\ \A s \in Queued(q) : InFlash(given[s])

SlotInv == CallsKeptApart /\ QueueInv

(* The priority queue: no two sectors share a node; a call at a node       *)
(* writes the sector the node stands for; once it has filled in the range, *)
(* the node has the address of that sector; and unless another call has    *)
(* come in between, it is alone there and writes what was accepted last.   *)
CallAtNode(c, s) ==
  /\ owner[s] = at[c].node
  /\ at[c].event = Event("write", s * SectorSize, at[c].event.length, c)
  /\ ~at[c].rest => /\ simul[at[c].node] # None
                    /\ simul[at[c].node].op = "write"
                    /\ simul[at[c].node].addr = s * SectorSize
  /\ s \notin clashed =>
       /\ FillingNode(at[c].node) = {c}
       /\ latest[s] = at[c].event
       /\ ~at[c].rest => simul[at[c].node].length = at[c].event.length

NodeInv ==
  /\ \A s, t \in Present : owner[s] = owner[t] => s = t
  /\ \A c \in Callers : at[c] \in NodeCalls => \E s \in Present : CallAtNode(c, s)

IInv == SlotInv /\ NodeInv /\ LatestWriteWaits

-----------------------------------------------------------------------------
(* Where a caller is tells which of the two queues it has been to. *)
LEMMA Places ==
  TypeOK => \A c \in Callers :
              /\ at[c] = None \/ at[c] \in SlotCalls \/ at[c] \in NodeCalls
              /\ Filling(c) /\ "slot" \in DOMAIN at[c] <=> at[c] \in SlotCalls
              /\ Filling(c) /\ "node" \in DOMAIN at[c] <=> at[c] \in NodeCalls
<1> SUFFICES ASSUME TypeOK, NEW c \in Callers
             PROVE  /\ at[c] = None \/ at[c] \in SlotCalls \/ at[c] \in NodeCalls
                    /\ Filling(c) /\ "slot" \in DOMAIN at[c] <=> at[c] \in SlotCalls
                    /\ Filling(c) /\ "node" \in DOMAIN at[c] <=> at[c] \in NodeCalls
  OBVIOUS
<1>1. at[c] = None \/ at[c] \in SlotCalls \/ at[c] \in NodeCalls
  BY DEF TypeOK
<1>2. None \notin SlotCalls /\ None \notin NodeCalls
  BY FlashCallsAssumption
<1>3. \A x \in SlotCalls : DOMAIN x = {"slot", "event"}
  BY DEF SlotCalls
<1>4. \A x \in NodeCalls : DOMAIN x = {"node", "event", "rest"}
  BY DEF NodeCalls
<1> QED
  BY <1>1, <1>2, <1>3, <1>4 DEF Filling

LEMMA PlacesNext ==
  TypeOK' => \A c \in Callers :
               /\ at'[c] = None \/ at'[c] \in SlotCalls \/ at'[c] \in NodeCalls
               /\ Filling(c)' /\ "slot" \in DOMAIN at'[c] <=> at'[c] \in SlotCalls
               /\ Filling(c)' /\ "node" \in DOMAIN at'[c] <=> at'[c] \in NodeCalls
<1>1. (TypeOK => \A c \in Callers :
              /\ at[c] = None \/ at[c] \in SlotCalls \/ at[c] \in NodeCalls
              /\ Filling(c) /\ "slot" \in DOMAIN at[c] <=> at[c] \in SlotCalls
              /\ Filling(c) /\ "node" \in DOMAIN at[c] <=> at[c] \in NodeCalls)'
  BY Places, PTL
<1> QED
  BY <1>1

LEMMA FillingSets ==
  TypeOK => /\ \A s : FillingSlot(s) = {c \in Callers : at[c] \in SlotCalls /\ at[c].slot = s}
            /\ \A n : FillingNode(n) = {c \in Callers : at[c] \in NodeCalls /\ at[c].node = n}
BY Places DEF FillingSlot, FillingNode

LEMMA FillingSetsNext ==
  TypeOK' => /\ \A s : FillingSlot(s)' = {c \in Callers : at'[c] \in SlotCalls /\ at'[c].slot = s}
             /\ \A n : FillingNode(n)' = {c \in Callers : at'[c] \in NodeCalls /\ at'[c].node = n}
BY PlacesNext DEF FillingSlot, FillingNode

(* What passes the checks is an event within the flash, or one whose end   *)
(* wraps round.                                                            *)
LEMMA RequestEvent ==
  ASSUME NEW r \in Requests, Legal(r), NEW c \in Callers
  PROVE  /\ Event(r.op, r.addr, r.length, c) \in Events
         /\ InFlash(Event(r.op, r.addr, r.length, c))
<1>1. /\ r.op \in {"read", "write", "erase"} /\ r.addr \in 0 .. AddressRange - 1
      /\ r.length \in 0 .. AddressRange - 1 /\ r.length # 0
      /\ WithinBounds(r.addr, r.length)
  BY FlashCallsAssumption DEF Legal
<1>2. Event(r.op, r.addr, r.length, c) \in Events
  BY <1>1, FlashEventsAssumption DEF Event, Events
<1>3. ASSUME r.addr + r.length < AddressRange
      PROVE  r.addr >= Base /\ r.addr + r.length <= Base + Total
  <2>1. (r.addr + r.length) % AddressRange = r.addr + r.length
    <3>1. /\ AddressRange \in Nat /\ r.addr + r.length \in Int
          /\ r.addr + r.length = AddressRange * 0 + (r.addr + r.length)
          /\ r.addr + r.length \in 0 .. AddressRange - 1
      BY <1>1, <1>3, FlashEventsAssumption
    <3>2. AddressRange \in Nat \ {0}
      BY <3>1
    <3> QED
      BY <3>1, <3>2, DivisionUnique
  <2> QED
    BY <1>1, <2>1 DEF WithinBounds
<1>4. r.addr + r.length < AddressRange \/ r.addr + r.length >= AddressRange
  BY <1>1, FlashEventsAssumption
<1> QED
  BY <1>2, <1>3, <1>4 DEF InFlash, Event

LEMMA SectorEvent ==
  ASSUME NEW r \in SectorCalls, LegalSector(r), NEW c \in Callers,
         NEW op \in {"read", "write"}
  PROVE  LET a == SectorAddress(r.page, r.sector)
         IN  /\ SectorPriority(r.page, r.sector) \in Sectors
             /\ a = SectorPriority(r.page, r.sector) * SectorSize
             /\ a \div SectorSize = SectorPriority(r.page, r.sector)
             /\ Event(op, a, r.length, c) \in Events
             /\ op = "read" => InFlash(Event(op, a, r.length, c))
<1> DEFINE a == SectorAddress(r.page, r.sector)
<1>1. r.page \in Nat /\ r.sector \in Nat /\ r.length \in Nat
  BY FlashCallsAssumption
<1>2. r.length \in 1 .. SectorSize /\ a < Total
  BY DEF LegalSector
<1>3. /\ SectorPriority(r.page, r.sector) \in Sectors
      /\ a = SectorPriority(r.page, r.sector) * SectorSize
      /\ a \div SectorSize = SectorPriority(r.page, r.sector)
      /\ a % SectorSize = 0
      /\ a \in 0 .. AddressRange - 1
  BY <1>1, <1>2, SectorNumbers
<1> HIDE DEF a
<1>4. SectorSize \in Nat \ {0} /\ SectorSize <= Total /\ Total < AddressRange
      /\ AddressRange \in Nat /\ Total \in Nat
  <2>1. /\ SectorSize \in Nat \ {0} /\ SectorCount \in Nat /\ Total \in Nat \ {0}
        /\ Total = SectorSize * SectorCount /\ Base \in Nat /\ AddressRange \in Nat
        /\ Base + Total < AddressRange
    BY FlashEventsAssumption
  <2>2. SectorCount >= 1
    BY <2>1
  <2>3. SectorSize * SectorCount >= SectorSize
    BY <2>1, <2>2
  <2> QED
    BY <2>1, <2>3
<1>5. r.length \in 1 .. AddressRange - 1
  BY <1>1, <1>2, <1>4
<1>6. Event(op, a, r.length, c) \in Events
  BY <1>3, <1>5 DEF Event, Events
<1>7. (a % SectorSize) + r.length <= SectorSize
  BY <1>1, <1>2, <1>3, <1>4
<1>8. op = "read" => InFlash(Event(op, a, r.length, c))
  BY <1>2, <1>7 DEF InFlash, Event
<1> QED
  BY <1>3, <1>6, <1>8 DEF a

-----------------------------------------------------------------------------
(* The initial and the emptied handler: nothing is queued and nobody is    *)
(* filling anything in.                                                    *)
LEMMA EmptyIInv ==
  ASSUME TypeOK, q = Cleared, \A c \in Callers : at[c] = None,
         owner = [p \in Sectors |-> None], latest = [s \in Sectors |-> None]
  PROVE  IInv
<1>1. Queued(q) = {}
  BY ClearedProps
<1>2. \A c \in Callers : at[c] \notin SlotCalls /\ at[c] \notin NodeCalls
  BY FlashCallsAssumption
<1>3. Present = {}
  BY DEF Present
<1>4. SlotInv
  BY <1>1, <1>2 DEF SlotInv, QueueInv, CallsKeptApart
<1>5. NodeInv /\ LatestWriteWaits
  BY <1>2, <1>3 DEF NodeInv, LatestWriteWaits
<1> QED
  BY <1>4, <1>5 DEF IInv

LEMMA InitIInv == Init => IInv
<1> SUFFICES ASSUME Init PROVE IInv
  OBVIOUS
<1>1. q \in Queue /\ RingConsistent(q)
  BY ClearedProps DEF Init
<1>2. TypeOK
  BY <1>1 DEF Init, TypeOK, Pending!Init, Pending!NoOwners
<1> QED
  BY <1>2, EmptyIInv DEF Init, Pending!Init, Pending!NoOwners

LEMMA EmptiedKeeps ==
  ASSUME IInv, Quiet, Emptied, inited' \in BOOLEAN
  PROVE  IInv'
<1>1. TypeOK /\ \A c \in Callers : at[c] = None
  BY DEF IInv, SlotInv, CallsKeptApart, Quiet, Filling
<1>2. q' \in Queue /\ RingConsistent(q')
  BY ClearedProps DEF Emptied
<1>3. /\ ready' = TRUE /\ owner' = [p \in Sectors |-> None] /\ at' = at
      /\ latest' = [s \in Sectors |-> None] /\ q' = Cleared
  BY DEF Emptied, Pending!Empty, Pending!NoOwners
<1>4. TypeOK'
  BY <1>1, <1>2, <1>3 DEF TypeOK, Emptied
<1>5. (TypeOK /\ q = Cleared /\ (\A c \in Callers : at[c] = None)
       /\ owner = [p \in Sectors |-> None] /\ latest = [s \in Sectors |-> None]
         => IInv)'
  BY EmptyIInv, PTL
<1> QED
  BY <1>1, <1>3, <1>4, <1>5

(* A step of one caller that leaves one of the two queues and its calls    *)
(* alone keeps what holds of it.                                           *)
LEMMA SlotsAside ==
  ASSUME SlotInv, TypeOK', UNCHANGED <<q, fop, given>>, NEW c \in Callers,
         \A d \in Callers \ {c} : at'[d] = at[d],
         at[c] \notin SlotCalls, at'[c] \notin SlotCalls
  PROVE  SlotInv'
<1>1. TypeOK
  BY DEF SlotInv, CallsKeptApart
<1>2. ASSUME NEW s PROVE FillingSlot(s)' = FillingSlot(s)
  <2>1. \A d \in Callers : at'[d] \in SlotCalls /\ at'[d].slot = s
                             <=> at[d] \in SlotCalls /\ at[d].slot = s
    OBVIOUS
  <2>2. FillingSlot(s) = {d \in Callers : at[d] \in SlotCalls /\ at[d].slot = s}
    BY <1>1, FillingSets
  <2>3. FillingSlot(s)' = {d \in Callers : at'[d] \in SlotCalls /\ at'[d].slot = s}
    BY FillingSetsNext
  <2> QED
    BY <2>1, <2>2, <2>3
<1>3. \A s, d : d \in FillingSlot(s) => at'[d] = at[d]
  BY <1>1, FillingSets
<1>4. CallsKeptApart'
  BY <1>2, <1>3 DEF SlotInv, CallsKeptApart
<1>5. QueueInv'
  BY DEF SlotInv, QueueInv, InFlash
<1> QED
  BY <1>4, <1>5 DEF SlotInv

LEMMA NodesAside ==
  ASSUME TypeOK, TypeOK', NodeInv, LatestWriteWaits,
         UNCHANGED <<owner, simul, latest, clashed>>, NEW c \in Callers,
         \A d \in Callers \ {c} : at'[d] = at[d],
         at[c] \notin NodeCalls, at'[c] \notin NodeCalls
  PROVE  NodeInv' /\ LatestWriteWaits'
<1>1. ASSUME NEW n PROVE FillingNode(n)' = FillingNode(n)
  <2>1. \A d \in Callers : at'[d] \in NodeCalls /\ at'[d].node = n
                             <=> at[d] \in NodeCalls /\ at[d].node = n
    OBVIOUS
  <2>2. FillingNode(n) = {d \in Callers : at[d] \in NodeCalls /\ at[d].node = n}
    BY FillingSets
  <2>3. FillingNode(n)' = {d \in Callers : at'[d] \in NodeCalls /\ at'[d].node = n}
    BY FillingSetsNext
  <2> QED
    BY <2>1, <2>2, <2>3
<1>2. Present' = Present
  BY DEF Present
<1>3. NodeInv'
  <2>1. \A s, t \in Present' : owner'[s] = owner'[t] => s = t
    BY <1>2 DEF NodeInv
  <2>2. ASSUME NEW d \in Callers, at'[d] \in NodeCalls
        PROVE  \E s \in Present' : CallAtNode(d, s)'
    <3>1. at'[d] = at[d] /\ at[d] \in NodeCalls
      BY <2>2
    <3>2. PICK s \in Present : CallAtNode(d, s)
      BY <3>1 DEF NodeInv
    <3>3. CallAtNode(d, s)'
      BY <1>1, <3>1, <3>2 DEF CallAtNode
    <3> QED
      BY <1>2, <3>3
  <2> QED
    BY <2>1, <2>2 DEF NodeInv
<1>4. LatestWriteWaits'
  BY <1>1, <1>2 DEF LatestWriteWaits
<1> QED
  BY <1>3, <1>4

(* A request takes a slot that nobody else has: the ring cannot be full,   *)
(* and every caller that is still filling has a slot that is queued.       *)
LEMMA EnqueueKeeps ==
  ASSUME IInv, NEW c \in Callers, NEW event \in Events, InFlash(event),
         Enqueue(c, event)
  PROVE  IInv'
<1>0. PICK t \in Slots : t = q.first_in
  BY DEF IInv, SlotInv, CallsKeptApart, TypeOK, Queue
<1>1. /\ TypeOK /\ q \in Queue /\ RingConsistent(q)
      /\ at \in [Callers -> SlotCalls \cup NodeCalls \cup {None}]
  BY DEF IInv, SlotInv, CallsKeptApart, TypeOK, Queue
<1>2. /\ q' = FirstIn(q, FALSE) /\ q.buf[t] = "free" /\ at[c] = None
      /\ at' = [at EXCEPT ![c] = InSlot(t, event)]
      /\ given' = [given EXCEPT ![t] = event]
      /\ UNCHANGED <<inited, fop, ready, owner, simul, latest, clashed>>
  BY <1>0 DEF Enqueue, Filling, CanFirstIn, priorityQueue
<1>3. /\ q' \in Queue /\ RingConsistent(q')
      /\ q'.buf = [q.buf EXCEPT ![t] = "used"]
      /\ Queued(q') = Queued(q) \cup {t}
  BY <1>0, <1>1, <1>2, FirstInProps
<1>4. InSlot(t, event) \in SlotCalls /\ InSlot(t, event) \notin NodeCalls
  <2>1. InSlot(t, event) \in SlotCalls /\ DOMAIN InSlot(t, event) = {"slot", "event"}
    BY <1>1 DEF InSlot, SlotCalls
  <2>2. \A x \in NodeCalls : DOMAIN x = {"node", "event", "rest"}
    BY DEF NodeCalls
  <2> QED
    BY <2>1, <2>2
<1>5. /\ at'[c] = InSlot(t, event) /\ \A d \in Callers \ {c} : at'[d] = at[d]
      /\ at' \in [Callers -> SlotCalls \cup NodeCalls \cup {None}]
  BY <1>1, <1>2, <1>4
<1>6. TypeOK'
  BY <1>1, <1>2, <1>3, <1>5 DEF TypeOK
<1>7. t \notin Queued(q)
  BY <1>2 DEF IInv, SlotInv, QueueInv
<1>8. FillingSlot(t) = {}
  BY <1>1, <1>7, FillingSets DEF IInv, SlotInv, QueueInv
<1>9. ASSUME NEW s \in Slots, s # t PROVE FillingSlot(s)' = FillingSlot(s)
  <2>1. \A d \in Callers : at'[d] \in SlotCalls /\ at'[d].slot = s
                             <=> at[d] \in SlotCalls /\ at[d].slot = s
    BY <1>2, <1>4, <1>5, <1>9, FlashCallsAssumption DEF InSlot
  <2>2. FillingSlot(s) = {d \in Callers : at[d] \in SlotCalls /\ at[d].slot = s}
    BY <1>1, FillingSets
  <2>3. FillingSlot(s)' = {d \in Callers : at'[d] \in SlotCalls /\ at'[d].slot = s}
    BY <1>6, FillingSetsNext
  <2> QED
    BY <2>1, <2>2, <2>3
<1>10. FillingSlot(t)' = {c}
  <2>1. \A d \in Callers : at'[d] \in SlotCalls /\ at'[d].slot = t <=> d = c
    <3>1. \A d \in Callers : ~(at[d] \in SlotCalls /\ at[d].slot = t)
      BY <1>1, <1>8, FillingSets
    <3>2. InSlot(t, event).slot = t
      BY DEF InSlot
    <3> QED
      BY <1>4, <1>5, <3>1, <3>2
  <2>2. FillingSlot(t)' = {d \in Callers : at'[d] \in SlotCalls /\ at'[d].slot = t}
    BY <1>6, FillingSetsNext
  <2> QED
    BY <2>1, <2>2
<1>11. ASSUME NEW s \in Queued(q')
       PROVE  /\ FillingSlot(s)' = {} => fop'[s] = given'[s]
              /\ FillingSlot(s)' # {} =>
                   \E d \in Callers : FillingSlot(s)' = {d} /\ at'[d].event = given'[s]
  <2>1. CASE s = t
    <3>1. given'[t] = event
      <4>1. t \in DOMAIN given
        BY <1>1 DEF TypeOK
      <4> QED
        BY <1>2, <4>1
    <3>2. at'[c].event = event
      BY <1>5 DEF InSlot
    <3> QED
      BY <1>10, <2>1, <3>1, <3>2
  <2>2. CASE s # t
    <3>1. s \in Queued(q) /\ s \in Slots
      BY <1>3, <2>2 DEF Queued
    <3>2. given'[s] = given[s] /\ fop'[s] = fop[s]
      BY <1>2, <2>2
    <3>3. FillingSlot(s)' = FillingSlot(s)
      BY <1>9, <2>2, <3>1
    <3>4. \A d \in Callers : FillingSlot(s) = {d} => at'[d] = at[d]
      BY <1>1, <1>2, <1>5, FillingSets, FlashCallsAssumption
    <3> QED
      BY <3>1, <3>2, <3>3, <3>4 DEF IInv, SlotInv, CallsKeptApart
  <2> QED
    BY <2>1, <2>2
<1>12. CallsKeptApart'
  BY <1>6, <1>11 DEF CallsKeptApart
<1>13. QueueInv'
  <2>1. \A s \in Queued(q') : q'.buf[s] = "used"
    BY <1>1, <1>3 DEF IInv, SlotInv, QueueInv, Queue, Queued
  <2>2. ASSUME NEW d \in Callers, at'[d] \in SlotCalls PROVE at'[d].slot \in Queued(q')
    <3>1. CASE d = c
      BY <1>3, <1>5, <3>1 DEF InSlot
    <3>2. CASE d # c
      BY <1>3, <1>5, <2>2, <3>2 DEF IInv, SlotInv, QueueInv
    <3> QED
      BY <3>1, <3>2
  <2>3. ASSUME NEW s \in Queued(q') PROVE InFlash(given'[s])
    <3>1. CASE s = t
      BY <1>1, <1>2, <3>1 DEF TypeOK
    <3>2. CASE s # t
      <4>1. s \in Queued(q) /\ s \in Slots
        BY <1>3, <2>3, <3>2 DEF Queued
      <4>2. given'[s] = given[s]
        BY <1>1, <1>2, <3>2, <4>1 DEF TypeOK
      <4> QED
        BY <4>1, <4>2 DEF IInv, SlotInv, QueueInv
    <3> QED
      BY <3>1, <3>2
  <2> QED
    BY <2>1, <2>2, <2>3 DEF QueueInv, InFlash
<1>14. NodeInv' /\ LatestWriteWaits'
  <2>1. at[c] \notin NodeCalls /\ at'[c] \notin NodeCalls
    BY <1>2, <1>4, <1>5, FlashCallsAssumption
  <2> QED
    BY <1>1, <1>2, <1>5, <1>6, <2>1, NodesAside DEF IInv
<1> QED
  BY <1>12, <1>13, <1>14 DEF IInv, SlotInv

(* Filling in touches the slot the call was given, where it is alone. *)
LEMMA FillSlotKeeps ==
  ASSUME IInv, NEW c \in Callers, FillSlot(c)
  PROVE  IInv'
<1>1. /\ TypeOK /\ fop \in [Slots -> Events \cup {None}]
      /\ at \in [Callers -> SlotCalls \cup NodeCalls \cup {None}]
  BY DEF IInv, SlotInv, CallsKeptApart, TypeOK
<1>2. /\ at[c] \in SlotCalls
      /\ at' = [at EXCEPT ![c] = None]
      /\ UNCHANGED <<inited, q, ready, owner, simul, given, latest, clashed>>
  BY <1>1, Places DEF FillSlot, priorityQueue, history
<1>3. PICK t \in Slots, e \in Events : at[c].slot = t /\ at[c].event = e
  BY <1>2 DEF SlotCalls
<1>4. fop' = [fop EXCEPT ![t] = e]
  BY <1>3 DEF FillSlot
<1>5. /\ at'[c] = None /\ \A d \in Callers \ {c} : at'[d] = at[d]
      /\ at' \in [Callers -> SlotCalls \cup NodeCalls \cup {None}]
  BY <1>1, <1>2
<1>6. TypeOK'
  BY <1>1, <1>2, <1>4, <1>5 DEF TypeOK
<1>7. None \notin SlotCalls /\ None \notin NodeCalls
  BY FlashCallsAssumption
<1>8. t \in Queued(q)
  BY <1>2, <1>3 DEF IInv, SlotInv, QueueInv
<1>9. FillingSlot(t) = {c} /\ e = given[t]
  <2>1. c \in FillingSlot(t)
    BY <1>1, <1>2, <1>3, FillingSets
  <2>2. PICK d \in Callers : FillingSlot(t) = {d} /\ at[d].event = given[t]
    BY <1>8, <2>1 DEF IInv, SlotInv, CallsKeptApart
  <2> QED
    BY <1>3, <2>1, <2>2
<1>10. FillingSlot(t)' = {}
  <2>1. \A d \in Callers : at[d] \in SlotCalls /\ at[d].slot = t => d = c
    BY <1>1, <1>9, FillingSets
  <2>2. FillingSlot(t)' = {d \in Callers : at'[d] \in SlotCalls /\ at'[d].slot = t}
    BY <1>6, FillingSetsNext
  <2> QED
    BY <1>5, <1>7, <2>1, <2>2
<1>11. ASSUME NEW s \in Slots, s # t PROVE FillingSlot(s)' = FillingSlot(s)
  <2>1. \A d \in Callers : at'[d] \in SlotCalls /\ at'[d].slot = s
                             <=> at[d] \in SlotCalls /\ at[d].slot = s
    BY <1>2, <1>3, <1>5, <1>7, <1>11
  <2>2. FillingSlot(s) = {d \in Callers : at[d] \in SlotCalls /\ at[d].slot = s}
    BY <1>1, FillingSets
  <2>3. FillingSlot(s)' = {d \in Callers : at'[d] \in SlotCalls /\ at'[d].slot = s}
    BY <1>6, FillingSetsNext
  <2> QED
    BY <2>1, <2>2, <2>3
<1>12. CallsKeptApart'
  <2>1. ASSUME NEW s \in Queued(q')
        PROVE  /\ FillingSlot(s)' = {} => fop'[s] = given'[s]
               /\ FillingSlot(s)' # {} =>
                    \E d \in Callers : FillingSlot(s)' = {d} /\ at'[d].event = given'[s]
    <3>1. s \in Queued(q) /\ s \in Slots /\ given' = given
      BY <1>2, <2>1 DEF Queued
    <3>2. CASE s = t
      BY <1>1, <1>4, <1>9, <1>10, <3>1, <3>2
    <3>3. CASE s # t
      <4>1. FillingSlot(s)' = FillingSlot(s) /\ fop'[s] = fop[s]
        BY <1>1, <1>4, <1>11, <3>1, <3>3
      <4>2. c \notin FillingSlot(s)
        BY <1>1, <1>3, <3>3, FillingSets
      <4>3. \A d \in Callers : FillingSlot(s) = {d} => at'[d] = at[d]
        BY <1>5, <4>2
      <4> QED
        BY <3>1, <4>1, <4>3 DEF IInv, SlotInv, CallsKeptApart
    <3> QED
      BY <3>2, <3>3
  <2> QED
    BY <1>6, <2>1 DEF CallsKeptApart
<1>13. QueueInv'
  BY <1>2, <1>5, <1>7 DEF IInv, SlotInv, QueueInv, InFlash
<1>14. NodeInv' /\ LatestWriteWaits'
  <2>1. at[c] \notin NodeCalls /\ at'[c] \notin NodeCalls
    <3>1. (\A x \in SlotCalls : DOMAIN x = {"slot", "event"})
          /\ \A x \in NodeCalls : DOMAIN x = {"node", "event", "rest"}
      BY DEF SlotCalls, NodeCalls
    <3> QED
      BY <1>2, <1>5, <1>7, <3>1
  <2> QED
    BY <1>1, <1>2, <1>5, <1>6, <2>1, NodesAside DEF IInv
<1> QED
  BY <1>12, <1>13, <1>14 DEF IInv, SlotInv

-----------------------------------------------------------------------------
(* What a push of the priority queue gives, from its promise. *)
LEMMA PushGives ==
  ASSUME TypeOK, \A s, t \in Present : owner[s] = owner[t] => s = t,
         NEW p \in Sectors, Pending!PushUnlessFull(p)
  PROVE  /\ ready' = ready
         /\ ~reply'.ok => owner' = owner
         /\ reply'.ok => \E n \in Nodes :
              /\ reply'.node = n
              /\ owner' = [owner EXCEPT ![p] = n]
              /\ \A s \in Present \ {p} : owner[s] # n
              /\ p \in Present => owner[p] = n
<1>1. owner \in [Sectors -> Nodes \cup {None}]
  BY DEF TypeOK
<1>2. Pending!Present = Present
  BY DEF Pending!Present, Present
<1>3. CASE Pending!Refuse(p)
  BY <1>3 DEF Pending!Refuse, Pending!Answer
<1>4. CASE Pending!Replace(p)
  <2>1. /\ p \in Present /\ owner' = owner /\ ready' = ready
        /\ reply'.ok /\ reply'.node = owner[p]
    BY <1>2, <1>4 DEF Pending!Replace, Pending!Answer
  <2>2. owner[p] \in Nodes /\ owner' = [owner EXCEPT ![p] = owner[p]]
    BY <1>1, <2>1 DEF Present
  <2> QED
    BY <2>1, <2>2
<1>5. ASSUME NEW n \in Nodes, Pending!Insert(p, n)
      PROVE  /\ ready' = ready /\ reply'.ok /\ reply'.node = n
             /\ owner' = [owner EXCEPT ![p] = n]
             /\ p \notin Present /\ \A s \in Present : owner[s] # n
  BY <1>2, <1>5 DEF Pending!Insert, Pending!Answer, Pending!Taken
<1> QED
  BY <1>3, <1>4, <1>5 DEF Pending!PushUnlessFull, Pending!Push

LEMMA CallShape ==
  ASSUME NEW n \in Nodes, NEW e \in Events, NEW b \in BOOLEAN
  PROVE  /\ AtNode(n, e, b) \in NodeCalls /\ AtNode(n, e, b) \notin SlotCalls
         /\ AtNode(n, e, b) # None
         /\ AtNode(n, e, b).node = n /\ AtNode(n, e, b).event = e
         /\ AtNode(n, e, b).rest = b
<1>1. AtNode(n, e, b) \in NodeCalls /\ DOMAIN AtNode(n, e, b) = {"node", "event", "rest"}
  BY DEF AtNode, NodeCalls
<1>2. \A x \in SlotCalls : DOMAIN x = {"slot", "event"}
  BY DEF SlotCalls
<1>3. AtNode(n, e, b) \notin SlotCalls
  BY <1>1, <1>2
<1> QED
  BY <1>1, <1>3, FlashCallsAssumption DEF AtNode

(* The calls at one node after one caller has moved: the others have not.  *)
LEMMA OtherNodes ==
  ASSUME TypeOK, TypeOK', NEW c \in Callers,
         \A d \in Callers \ {c} : at'[d] = at[d], NEW n
  PROVE  /\ FillingNode(n)' \ {c} = FillingNode(n) \ {c}
         /\ c \in FillingNode(n) <=> at[c] \in NodeCalls /\ at[c].node = n
         /\ c \in FillingNode(n)' <=> at'[c] \in NodeCalls /\ at'[c].node = n
<1>1. FillingNode(n) = {d \in Callers : at[d] \in NodeCalls /\ at[d].node = n}
  BY FillingSets
<1>2. FillingNode(n)' = {d \in Callers : at'[d] \in NodeCalls /\ at'[d].node = n}
  BY FillingSetsNext
<1> QED
  BY <1>1, <1>2

LEMMA SectorWriteKeeps ==
  ASSUME IInv, NEW c \in Callers, NEW r \in SectorCalls, SectorWrite(c, r)
  PROVE  IInv'
<1>1. /\ TypeOK /\ owner \in [Sectors -> Nodes \cup {None}]
      /\ latest \in [Sectors -> Events \cup {None}]
      /\ at \in [Callers -> SlotCalls \cup NodeCalls \cup {None}]
      /\ \A s, t \in Present : owner[s] = owner[t] => s = t
  BY DEF IInv, SlotInv, CallsKeptApart, TypeOK, NodeInv
<1>2. PICK p \in Sectors, e \in Events :
        /\ p = SectorPriority(r.page, r.sector)
        /\ e = Event("write", SectorAddress(r.page, r.sector), r.length, c)
        /\ SectorAddress(r.page, r.sector) = p * SectorSize
        /\ SectorAddress(r.page, r.sector) \div SectorSize = p
  BY SectorEvent DEF SectorWrite
<1>3. e = Event("write", p * SectorSize, e.length, c) /\ e.addr \div SectorSize = p
  BY <1>2 DEF Event
<1>4. /\ Pending!PushUnlessFull(p) /\ at[c] = None
      /\ UNCHANGED <<inited, q, fop, simul, given>>
  BY <1>2 DEF SectorWrite, Filling
<1>5. ready' = ready
  BY <1>1, <1>4, PushGives
<1>6. CASE ~reply'.ok
  <2>1. owner' = owner /\ UNCHANGED <<at, latest, clashed>>
    BY <1>1, <1>4, <1>6, PushGives DEF SectorWrite
  <2> QED
    BY <1>4, <1>5, <2>1
       DEF IInv, SlotInv, CallsKeptApart, TypeOK, QueueInv, InFlash, NodeInv,
           LatestWriteWaits, FillingSlot, FillingNode, Filling, Present, CallAtNode
<1>7. CASE reply'.ok
  <2>1. PICK n \in Nodes : /\ reply'.node = n /\ owner' = [owner EXCEPT ![p] = n]
                           /\ \A s \in Present \ {p} : owner[s] # n
                           /\ p \in Present => owner[p] = n
    BY <1>1, <1>4, <1>7, PushGives
  <2>2. /\ at' = [at EXCEPT ![c] = AtNode(n, e, TRUE)]
        /\ latest' = [latest EXCEPT ![p] = e]
        /\ clashed' = IF FillingNode(n) = {} THEN clashed \ {p} ELSE clashed \cup {p}
    BY <1>2, <1>3, <1>7, <2>1 DEF SectorWrite
  <2>3. /\ AtNode(n, e, TRUE) \in NodeCalls /\ AtNode(n, e, TRUE) \notin SlotCalls
        /\ AtNode(n, e, TRUE).node = n /\ AtNode(n, e, TRUE).event = e
        /\ AtNode(n, e, TRUE).rest = TRUE
    BY CallShape
  <2>4. /\ at'[c] = AtNode(n, e, TRUE) /\ \A d \in Callers \ {c} : at'[d] = at[d]
        /\ at' \in [Callers -> SlotCalls \cup NodeCalls \cup {None}]
    BY <1>1, <2>2, <2>3
  <2>5. TypeOK'
    <3>1. owner' \in [Sectors -> Nodes \cup {None}]
      BY <1>1, <2>1
    <3>2. latest' \in [Sectors -> Events \cup {None}]
      BY <1>1, <2>2
    <3>3. clashed' \subseteq Sectors
      BY <1>1, <2>2 DEF TypeOK
    <3> QED
      BY <1>1, <1>4, <1>5, <2>4, <3>1, <3>2, <3>3 DEF TypeOK
  <2>6. at[c] \notin SlotCalls /\ at[c] \notin NodeCalls
    BY <1>4, FlashCallsAssumption
  <2>7. SlotInv'
    BY <1>4, <2>3, <2>4, <2>5, <2>6, SlotsAside DEF IInv
  <2>8. None \notin Nodes
    BY FlashCallsAssumption
  <2>9. Present' = Present \cup {p}
    BY <1>1, <2>1, <2>8 DEF Present
  <2>10. /\ owner'[p] = n
         /\ \A s \in Present \ {p} : s \in Sectors /\ owner'[s] = owner[s] /\ owner[s] # n
    BY <1>1, <2>1 DEF Present
  <2>11. ASSUME NEW m, m # n PROVE FillingNode(m)' = FillingNode(m)
    <3>1. /\ FillingNode(m)' \ {c} = FillingNode(m) \ {c}
          /\ c \in FillingNode(m) <=> at[c] \in NodeCalls /\ at[c].node = m
          /\ c \in FillingNode(m)' <=> at'[c] \in NodeCalls /\ at'[c].node = m
      BY <1>1, <2>4, <2>5, OtherNodes
    <3>2. c \notin FillingNode(m) /\ c \notin FillingNode(m)'
      BY <2>3, <2>4, <2>6, <2>11, <3>1
    <3> QED
      BY <3>1, <3>2
  <2>12. FillingNode(n)' = FillingNode(n) \cup {c}
    <3>1. /\ FillingNode(n)' \ {c} = FillingNode(n) \ {c}
          /\ c \in FillingNode(n)' <=> at'[c] \in NodeCalls /\ at'[c].node = n
      BY <1>1, <2>4, <2>5, OtherNodes
    <3>2. c \in FillingNode(n)'
      BY <2>3, <2>4, <3>1
    <3> QED
      BY <3>1, <3>2
  <2>13. \A s \in Sectors : s # p => latest'[s] = latest[s] /\ (s \in clashed' <=> s \in clashed)
    BY <1>1, <2>2
  <2>14. latest'[p] = e
    BY <1>1, <2>2
  <2>15. CallAtNode(c, p)'
    <3>1. p \notin clashed' => FillingNode(n) = {}
      BY <2>2
    <3> QED
      BY <1>3, <2>3, <2>4, <2>10, <2>12, <2>14, <3>1 DEF CallAtNode
  <2>16. ASSUME NEW d \in Callers, d # c, NEW s \in Present, CallAtNode(d, s),
                at[d] \in NodeCalls
         PROVE  CallAtNode(d, s)'
    <3>1. at'[d] = at[d] /\ simul' = simul
      BY <1>4, <2>4, <2>16
    <3>2. CASE s = p
      <4>1. at[d].node = n
        BY <2>1, <2>16, <3>2 DEF CallAtNode
      <4>2. s \in clashed'
        <5>1. FillingNode(n) # {}
          BY <1>1, <2>16, <4>1, FillingSets
        <5> QED
          BY <2>2, <3>2, <5>1
      <4> QED
        BY <2>10, <2>16, <3>1, <3>2, <4>1, <4>2 DEF CallAtNode
    <3>3. CASE s # p
      <4>1. /\ owner'[s] = owner[s] /\ at[d].node # n /\ latest'[s] = latest[s]
            /\ s \in clashed' <=> s \in clashed
        BY <2>10, <2>13, <2>16, <3>3 DEF CallAtNode
      <4>2. PICK m : m = at[d].node
        OBVIOUS
      <4>3. FillingNode(m)' = FillingNode(m)
        BY <2>11, <4>1, <4>2
      <4>4. FillingNode(at[d].node)' = FillingNode(m)
        BY <3>1, <4>2, <4>3 DEF FillingNode
      <4> QED
        BY <2>16, <3>1, <4>1, <4>2, <4>4 DEF CallAtNode
    <3> QED
      BY <3>2, <3>3
  <2>17. NodeInv'
    <3>1. \A s, t \in Present' : owner'[s] = owner'[t] => s = t
      BY <1>1, <2>9, <2>10
    <3>2. ASSUME NEW d \in Callers, at'[d] \in NodeCalls
          PROVE  \E s \in Present' : CallAtNode(d, s)'
      <4>1. CASE d = c
        BY <2>9, <2>15, <4>1
      <4>2. CASE d # c
        <5>1. at[d] \in NodeCalls
          BY <2>4, <3>2, <4>2
        <5>2. PICK s \in Present : CallAtNode(d, s)
          BY <5>1 DEF IInv, NodeInv
        <5> QED
          BY <2>9, <2>16, <4>2, <5>1, <5>2
      <4> QED
        BY <4>1, <4>2
    <3> QED
      BY <3>1, <3>2 DEF NodeInv
  <2>18. LatestWriteWaits'
    <3> SUFFICES ASSUME NEW s \in Sectors
                 PROVE  /\ latest'[s] # None => s \in Present'
                        /\ s \in Present' /\ FillingNode(owner[s])' = {} =>
                             /\ simul'[owner'[s]].addr = s * SectorSize
                             /\ s \in clashed' \/ simul'[owner'[s]] = latest'[s]
      BY DEF LatestWriteWaits
    <3>1. CASE s = p
      <4>1. FillingNode(owner[s])' = FillingNode(n)'
        BY <2>10, <3>1 DEF FillingNode
      <4> QED
        BY <2>9, <2>12, <3>1, <4>1
    <3>2. CASE s # p
      <4>1. s \in Present' <=> s \in Present
        BY <2>9, <3>2
      <4>2. latest'[s] = latest[s] /\ (s \in clashed' <=> s \in clashed)
        BY <2>13, <3>2
      <4>3. CASE s \in Present
        <5>1. PICK m : m = owner[s] /\ m = owner'[s] /\ m # n
          BY <2>10, <3>2, <4>3
        <5>2. FillingNode(owner[s])' = FillingNode(m)'
          BY <5>1 DEF FillingNode
        <5>3. FillingNode(m)' = FillingNode(m)
          BY <2>11, <5>1
        <5> QED
          BY <1>4, <4>1, <4>2, <4>3, <5>1, <5>2, <5>3 DEF IInv, LatestWriteWaits
      <4>4. CASE s \notin Present
        BY <4>1, <4>2, <4>4 DEF IInv, LatestWriteWaits
      <4> QED
        BY <4>3, <4>4
    <3> QED
      BY <3>1, <3>2
  <2> QED
    BY <2>7, <2>17, <2>18 DEF IInv
<1> QED
  BY <1>6, <1>7

(* A call that fills in the node n of sector s: whatever it writes has the *)
(* address of the sector, so that it does no harm to others that fill in   *)
(* the same node; and when it has done, what waits is the latest write or  *)
(* the sector is known to be clashed.                                      *)
LEMMA FillNodeKeeps ==
  ASSUME IInv, TypeOK', NEW c \in Callers, NEW s \in Present, NEW n \in Nodes, NEW w,
         at[c] \in NodeCalls, at[c].node = n, CallAtNode(c, s),
         UNCHANGED <<q, fop, owner, given, latest, clashed>>,
         simul' = [simul EXCEPT ![n] = w],
         w # None, w.op = "write", w.addr = s * SectorSize,
         \A d \in Callers \ {c} : at'[d] = at[d], at'[c] \notin SlotCalls,
         at'[c] \in NodeCalls => at'[c].node = n /\ CallAtNode(c, s)',
         at'[c] \notin NodeCalls => s \in clashed \/ w = latest[s]
  PROVE  IInv'
<1>1. /\ TypeOK /\ simul \in [Nodes -> Events \cup {None}]
      /\ \A x, y \in Present : owner[x] = owner[y] => x = y
  BY DEF IInv, SlotInv, CallsKeptApart, TypeOK, NodeInv
<1>2. owner[s] = n /\ s \in Sectors /\ Present' = Present
  BY DEF CallAtNode, Present
<1>3. simul'[n] = w /\ \A m \in Nodes : m # n => simul'[m] = simul[m]
  BY <1>1
<1>4. at[c] \notin SlotCalls
  <2>1. (\A x \in SlotCalls : DOMAIN x = {"slot", "event"})
        /\ \A x \in NodeCalls : DOMAIN x = {"node", "event", "rest"}
    BY DEF SlotCalls, NodeCalls
  <2> QED
    BY <2>1
<1>5. SlotInv'
  BY <1>4, SlotsAside DEF IInv
<1>6. ASSUME NEW m, m # n PROVE FillingNode(m)' = FillingNode(m)
  <2>1. /\ FillingNode(m)' \ {c} = FillingNode(m) \ {c}
        /\ c \in FillingNode(m) <=> at[c] \in NodeCalls /\ at[c].node = m
        /\ c \in FillingNode(m)' <=> at'[c] \in NodeCalls /\ at'[c].node = m
    BY <1>1, OtherNodes
  <2>2. c \notin FillingNode(m) /\ c \notin FillingNode(m)'
    BY <1>6, <2>1
  <2> QED
    BY <2>1, <2>2
<1>7. ASSUME NEW d \in Callers, d # c, at[d] \in NodeCalls, NEW t \in Present,
             CallAtNode(d, t)
      PROVE  CallAtNode(d, t)'
  <2>1. at'[d] = at[d]
    BY <1>7
  <2>2. CASE at[d].node = n
    <3>1. t = s
      BY <1>1, <1>2, <1>7, <2>2 DEF CallAtNode
    <3>2. s \in clashed
      <4>1. c \in FillingNode(n) /\ d \in FillingNode(n)
        BY <1>1, <1>7, <2>2, FillingSets
      <4> QED
        BY <1>7, <4>1 DEF CallAtNode
    <3> QED
      BY <1>3, <1>7, <2>1, <2>2, <3>1, <3>2 DEF CallAtNode
  <2>3. CASE at[d].node # n
    <3>1. PICK m \in Nodes : m = at[d].node
      BY <1>7 DEF NodeCalls
    <3>2. FillingNode(m)' = FillingNode(m) /\ simul'[m] = simul[m]
      BY <1>3, <1>6, <2>3, <3>1
    <3>3. FillingNode(at[d].node)' = FillingNode(m)'
      BY <2>1, <3>1 DEF FillingNode
    <3> QED
      BY <1>7, <2>1, <3>1, <3>2, <3>3 DEF CallAtNode
  <2> QED
    BY <2>2, <2>3
<1>8. NodeInv'
  <2>1. \A x, y \in Present' : owner'[x] = owner'[y] => x = y
    BY <1>1, <1>2
  <2>2. ASSUME NEW d \in Callers, at'[d] \in NodeCalls
        PROVE  \E t \in Present' : CallAtNode(d, t)'
    <3>1. CASE d = c
      BY <1>2, <2>2, <3>1
    <3>2. CASE d # c
      <4>1. at[d] \in NodeCalls
        BY <2>2, <3>2
      <4>2. PICK t \in Present : CallAtNode(d, t)
        BY <4>1 DEF IInv, NodeInv
      <4> QED
        BY <1>2, <1>7, <3>2, <4>1, <4>2
    <3> QED
      BY <3>1, <3>2
  <2> QED
    BY <2>1, <2>2 DEF NodeInv
<1>9. LatestWriteWaits'
  <2> SUFFICES ASSUME NEW t \in Sectors
               PROVE  /\ latest'[t] # None => t \in Present'
                      /\ t \in Present' /\ FillingNode(owner[t])' = {} =>
                           /\ simul'[owner'[t]].addr = t * SectorSize
                           /\ t \in clashed' \/ simul'[owner'[t]] = latest'[t]
    BY DEF LatestWriteWaits
  <2>1. CASE t \notin Present
    BY <1>2, <2>1 DEF IInv, LatestWriteWaits
  <2>2. CASE t = s
    <3>1. FillingNode(owner[t])' = FillingNode(n)'
      BY <1>2, <2>2 DEF FillingNode
    <3>2. at'[c] \in NodeCalls => c \in FillingNode(n)'
      BY <1>1, OtherNodes
    <3> QED
      BY <1>2, <1>3, <2>2, <3>1, <3>2
  <2>3. CASE t \in Present /\ t # s
    <3>1. PICK m \in Nodes : m = owner[t] /\ m = owner'[t] /\ m # n
      BY <1>1, <1>2, <2>3 DEF TypeOK, Present
    <3>2. FillingNode(m)' = FillingNode(m) /\ simul'[m] = simul[m]
      BY <1>3, <1>6, <3>1
    <3>3. FillingNode(owner[t])' = FillingNode(m)'
      BY <3>1 DEF FillingNode
    <3> QED
      BY <1>2, <2>3, <3>1, <3>2, <3>3 DEF IInv, LatestWriteWaits
  <2> QED
    BY <2>1, <2>2, <2>3
<1> QED
  BY <1>5, <1>8, <1>9 DEF IInv

LEMMA FillRangeKeeps ==
  ASSUME IInv, NEW c \in Callers, FillRange(c)
  PROVE  IInv'
<1>1. /\ TypeOK /\ simul \in [Nodes -> Events \cup {None}]
      /\ at \in [Callers -> SlotCalls \cup NodeCalls \cup {None}]
  BY DEF IInv, SlotInv, CallsKeptApart, TypeOK
<1>2. at[c] \in NodeCalls /\ at[c].rest
  BY <1>1, Places DEF FillRange
<1>3. PICK s \in Present : CallAtNode(c, s)
  BY <1>2 DEF IInv, NodeInv
<1>4. PICK n \in Nodes, e \in Events : at[c].node = n /\ at[c].event = e
  BY <1>2 DEF NodeCalls
<1>5. e = Event("write", s * SectorSize, e.length, c) /\ owner[s] = n
  BY <1>3, <1>4 DEF CallAtNode
<1>6. PICK who \in Callers \cup {None} :
        simul' = [simul EXCEPT ![n] = Event("write", e.addr, e.length, who)]
  <2>1. (IF simul[n] = None THEN None ELSE simul[n].who) \in Callers \cup {None}
    BY <1>1 DEF Events
  <2> QED
    BY <1>4, <2>1 DEF FillRange
<1> DEFINE w == Event("write", e.addr, e.length, who)
<1>7. w \in Events /\ w # None /\ w.op = "write" /\ w.addr = s * SectorSize
      /\ w.length = e.length
  <2>1. w \in Events
    BY DEF Event, Events
  <2>2. e.addr = s * SectorSize
    BY <1>5 DEF Event
  <2> QED
    BY <2>1, <2>2, FlashCallsAssumption DEF Event
<1> HIDE DEF w
<1>8. /\ UNCHANGED <<inited, q, fop, ready, owner, given, latest, clashed>>
      /\ at' = [at EXCEPT ![c] = AtNode(n, e, FALSE)]
  BY <1>4 DEF FillRange, priorityQueue, history
<1>9. /\ AtNode(n, e, FALSE) \in NodeCalls /\ AtNode(n, e, FALSE) \notin SlotCalls
      /\ AtNode(n, e, FALSE).node = n /\ AtNode(n, e, FALSE).event = e
  BY CallShape
<1>10. /\ at'[c] = AtNode(n, e, FALSE) /\ \A d \in Callers \ {c} : at'[d] = at[d]
       /\ at' \in [Callers -> SlotCalls \cup NodeCalls \cup {None}]
  BY <1>1, <1>8, <1>9
<1>11. simul' = [simul EXCEPT ![n] = w]
  BY <1>6 DEF w
<1>12. TypeOK'
  BY <1>1, <1>7, <1>8, <1>10, <1>11 DEF TypeOK
<1>13. CallAtNode(c, s)'
  <2>1. simul'[n] = w
    BY <1>1, <1>11
  <2>2. s \notin clashed => FillingNode(n)' = {c} /\ latest[s] = e
    <3>1. /\ FillingNode(n)' \ {c} = FillingNode(n) \ {c} /\ c \in FillingNode(n)'
      <4>1. at'[c] \in NodeCalls /\ at'[c].node = n
        BY <1>9, <1>10
      <4>2. /\ FillingNode(n)' \ {c} = FillingNode(n) \ {c}
            /\ c \in FillingNode(n)' <=> at'[c] \in NodeCalls /\ at'[c].node = n
        BY <1>1, <1>10, <1>12, OtherNodes
      <4> QED
        BY <4>1, <4>2
    <3>2. s \notin clashed => FillingNode(n) = {c} /\ latest[s] = e
      BY <1>3, <1>4 DEF CallAtNode
    <3> QED
      BY <3>1, <3>2
  <2>3. FillingNode(at[c].node)' = FillingNode(n)'
    BY <1>9, <1>10 DEF FillingNode
  <2> QED
    BY <1>5, <1>7, <1>8, <1>9, <1>10, <2>1, <2>2, <2>3 DEF CallAtNode
<1> QED
  BY <1>2, <1>3, <1>4, <1>7, <1>8, <1>9, <1>10, <1>11, <1>12, <1>13, FillNodeKeeps

LEMMA FillSourceKeeps ==
  ASSUME IInv, NEW c \in Callers, FillSource(c)
  PROVE  IInv'
<1>1. /\ TypeOK /\ simul \in [Nodes -> Events \cup {None}]
      /\ at \in [Callers -> SlotCalls \cup NodeCalls \cup {None}]
  BY DEF IInv, SlotInv, CallsKeptApart, TypeOK
<1>2. at[c] \in NodeCalls /\ ~at[c].rest
  BY <1>1, Places DEF FillSource
<1>3. PICK s \in Present : CallAtNode(c, s)
  BY <1>2 DEF IInv, NodeInv
<1>4. PICK n \in Nodes, e \in Events : at[c].node = n /\ at[c].event = e
  BY <1>2 DEF NodeCalls
<1>5. e = Event("write", s * SectorSize, e.length, c) /\ owner[s] = n
  BY <1>3, <1>4 DEF CallAtNode
<1>6. PICK v \in Events : simul[n] = v /\ v.addr = s * SectorSize
  BY <1>1, <1>2, <1>3, <1>4 DEF CallAtNode
<1> DEFINE w == Event("write", v.addr, v.length, c)
<1>7. w \in Events /\ w # None /\ w.op = "write" /\ w.addr = s * SectorSize
  <2>1. w \in Events
    BY DEF Event, Events
  <2> QED
    BY <1>6, <2>1, FlashCallsAssumption DEF Event
<1>8. s \notin clashed => w = latest[s]
  BY <1>2, <1>3, <1>4, <1>5, <1>6 DEF CallAtNode
<1> HIDE DEF w
<1>9. /\ UNCHANGED <<inited, q, fop, ready, owner, given, latest, clashed>>
      /\ at' = [at EXCEPT ![c] = None]
  BY DEF FillSource, priorityQueue, history
<1>10. /\ at'[c] = None /\ \A d \in Callers \ {c} : at'[d] = at[d]
       /\ at' \in [Callers -> SlotCalls \cup NodeCalls \cup {None}]
  BY <1>1, <1>9
<1>11. simul' = [simul EXCEPT ![n] = w]
  BY <1>4, <1>6 DEF FillSource, w
<1>12. TypeOK'
  BY <1>1, <1>7, <1>9, <1>10, <1>11 DEF TypeOK
<1>13. None \notin SlotCalls /\ None \notin NodeCalls
  BY FlashCallsAssumption
<1> QED
  BY <1>2, <1>3, <1>4, <1>7, <1>8, <1>9, <1>10, <1>11, <1>12, <1>13, FillNodeKeeps

LEMMA NextIInv == IInv /\ [Next]_vars => IInv'
<1> SUFFICES ASSUME IInv, [Next]_vars PROVE IInv'
  OBVIOUS
<1>1. CASE FlashEventInit
  BY <1>1, EmptiedKeeps DEF FlashEventInit
<1>2. CASE FlashEventUnInit
  BY <1>2, EmptiedKeeps DEF FlashEventUnInit
<1>3. ASSUME NEW c \in Callers, NEW r \in Requests, Request(c, r) PROVE IInv'
  BY <1>3, RequestEvent, EnqueueKeeps DEF Request
<1>4. ASSUME NEW c \in Callers, NEW r \in SectorCalls, SectorRead(c, r) PROVE IInv'
  BY <1>4, SectorEvent, EnqueueKeeps DEF SectorRead
<1>5. ASSUME NEW c \in Callers, NEW r \in SectorCalls, SectorWrite(c, r) PROVE IInv'
  BY <1>5, SectorWriteKeeps
<1>6. ASSUME NEW c \in Callers, FillSlot(c) PROVE IInv'
  BY <1>6, FillSlotKeeps
<1>7. ASSUME NEW c \in Callers, FillRange(c) PROVE IInv'
  BY <1>7, FillRangeKeeps
<1>8. ASSUME NEW c \in Callers, FillSource(c) PROVE IInv'
  BY <1>8, FillSourceKeeps
<1>9. CASE UNCHANGED vars
  BY <1>9
     DEF vars, priorityQueue, history, IInv, SlotInv, CallsKeptApart, TypeOK, QueueInv,
         InFlash, NodeInv, LatestWriteWaits, FillingSlot, FillingNode, Filling, Present,
         CallAtNode
<1> QED
  BY <1>1, <1>2, <1>3, <1>4, <1>5, <1>6, <1>7, <1>8, <1>9 DEF Next

-----------------------------------------------------------------------------
(* Requests that are half way at the same time never mix in the loop       *)
(* queue, although they fill in their parameters outside the critical      *)
(* region (mFlashReadRequest and its like).                                *)
THEOREM CallsApart == Spec => []CallsKeptApart
<1>1. IInv /\ [Next]_vars => IInv'
  BY NextIInv
<1>2. IInv => CallsKeptApart
  BY DEF IInv, SlotInv
<1> QED
  BY InitIInv, <1>1, <1>2, PTL DEF Spec

(* Of the writes of one sector the last one accepted is what waits, whole  *)
(* and at the address of the sector, unless two threads were filling in    *)
(* the node at once (mFlashSectorWriteRequest); for every layout, also     *)
(* with pages whose address wraps.                                         *)
THEOREM LatestWaits == Spec => []LatestWriteWaits
<1>1. IInv /\ [Next]_vars => IInv'
  BY NextIInv
<1>2. IInv => LatestWriteWaits
  BY DEF IInv
<1> QED
  BY InitIInv, <1>1, <1>2, PTL DEF Spec

(* No request reaches beyond the flash but those whose end wraps at 2^32   *)
(* (does_addr_is_within_bounds), and no sector read leaves its sector.     *)
THEOREM RequestsInFlash == Spec => []EventsInFlash
<1>1. IInv /\ [Next]_vars => IInv'
  BY NextIInv
<1>2. IInv => EventsInFlash
  BY DEF IInv, SlotInv, CallsKeptApart, QueueInv, EventsInFlash
<1> QED
  BY InitIInv, <1>1, <1>2, PTL DEF Spec
=============================================================================
