\* Two buckets for five priorities, so that chains can hold the whole pool, and
\* words of two bits, so that the scans cross words; the largest value first.
CONSTANTS
  W = 2
  MaxPriority = 4
  FromSmall = FALSE
  MaxNodeCount = 3
  NodeLimit = 20
  Buckets = 2
  NoNode = NoNode
SPECIFICATION Spec
PROPERTY ImplementsMap
