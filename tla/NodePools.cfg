\* Two buckets for five priorities, so that chains can hold the whole pool, and
\* words of two bits, so that the scans cross words; the largest value first.
\* Four nodes in the list: head, tail and two places between, in every order.
CONSTANTS
  W = 2
  MaxPriority = 4
  FromSmall = FALSE
  MaxNodeCount = 3
  NodeLimit = 20
  Buckets = 2
  NoNode = NoNode
  ValidNodeNumber = 4
  ListLimit = 100
  Values = {0, 1}
  Null = Null
SPECIFICATION PoolSpec
INVARIANTS ChainsWellFormed BooksAgree LookupComplete PoolAndChain
PROPERTIES ImplementsMapUnlessFull ImplementsList
