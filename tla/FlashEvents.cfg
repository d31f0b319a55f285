\* Four sectors in two pages and two nodes, so that writes are refused with
\* sectors pending; pages up to the one whose address wraps to page 0.
CONSTANTS
  N = 2
  ByteRange = 256
  Callers = {main, timer}
  Base = 4
  Total = 8
  EraseUnit = 4
  ProgramUnit = 2
  SectorSize = 2
  SectorCount = 4
  Align = 2
  AddressRange = 16
  PriorityRange = 8
  Nodes = {n1, n2}
  Requests <- MCRequests
  SectorCalls <- MCSectorCalls
  None = None
SYMMETRY Alike
SPECIFICATION Spec
INVARIANTS CallsKeptApart LatestWriteWaits EventsInFlash
