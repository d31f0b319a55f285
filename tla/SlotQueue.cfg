\* Four slots and three held ones: the ring wraps, fills, overwrites, and
\* slots come back out of order.
CONSTANTS
  N = 4
  ByteRange = 256
  Data = {d1, d2}
  NoData = NoData
  MaxHeld = 3
SPECIFICATION FairSpec
INVARIANTS TypeOK RingInv Ownership NoSpuriousRefusal
PROPERTIES EverySlotRecycled ImplementsFifo
