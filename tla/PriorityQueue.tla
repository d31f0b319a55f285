---------------------------- MODULE PriorityQueue ----------------------------
(***************************************************************************)
(* The priority queue of MulLoopQueue/m_priority_queues.c: a pool of nodes,*)
(* each free or linked in the bucket of its priority, a count, and the bit *)
(* table.  Every push and release touches all three, in that order:        *)
(* table, chain, count.                                                    *)
(***************************************************************************)
EXTENDS PriorityTable

CONSTANTS MaxNodeCount,  \* the nodes of this queue
          NodeLimit,     \* MY_PRIORITY_QUEUE_MAX_NODE_NUMBER
          Buckets,       \* LIST_NODE_TABLE_SIZE
          NoNode         \* X_Null

Nodes == 0 .. MaxNodeCount - 1

ASSUME PriorityQueueAssumption == /\ MaxNodeCount \in Nat \ {0}
                                  /\ NodeLimit \in Nat
                                  /\ Buckets \in Nat \ {0}
                                  /\ NoNode \notin Nodes

VARIABLES isInit, head, isFree, priority, next, used, table,
          reply          \* what the last call answered
queue == <<isInit, head, isFree, priority, next, used, table>>
vars  == <<queue, reply>>

TypeOK == /\ isInit \in BOOLEAN
          /\ head \in [0 .. Buckets - 1 -> Nodes \cup {NoNode}]
          /\ isFree \in [Nodes -> BOOLEAN]
          /\ priority \in [Nodes -> Priorities]
          /\ next \in [Nodes -> Nodes \cup {NoNode}]
          /\ used \in 0 .. MaxNodeCount
          /\ table \in Table

\* The static objects before mPriorityQueueInitialize: all zero.
Init == /\ isInit = FALSE
        /\ head = [b \in 0 .. Buckets - 1 |-> NoNode]
        /\ isFree = [i \in Nodes |-> FALSE]
        /\ priority = [i \in Nodes |-> 0]
        /\ next = [i \in Nodes |-> NoNode]
        /\ used = 0
        /\ table = ZeroTable
        /\ reply = [ok |-> TRUE, priority |-> 0, node |-> NoNode]

Answer(ok, p, n) == reply' = [ok |-> ok, priority |-> p, node |-> n]
Refuse(p)        == Answer(FALSE, p, NoNode) /\ UNCHANGED queue

(* The k-th node a walk from a bucket's head visits, NoNode past the end.  *)
(* No loop of the code takes more than max_node_count steps.               *)
Visit(p) ==
  LET at[k \in 0 .. MaxNodeCount] ==
        IF k = 0 THEN head[p % Buckets]
        ELSE IF at[k - 1] = NoNode THEN NoNode ELSE next[at[k - 1]]
  IN  at

StepsTo(p, Stop(_)) ==
  {k \in 0 .. MaxNodeCount - 1 : Visit(p)[k] # NoNode /\ Stop(Visit(p)[k])}
StepsToPriority(p) == StepsTo(p, LAMBDA i : priority[i] = p)

FreeNodes == {i \in Nodes : isFree[i]}

-----------------------------------------------------------------------------
\* Slips of the operations below.
ReturnLeavesCount(p, k) ==
  LET at == Visit(p)
  IN  /\ IF k = 0
         THEN /\ head' = [head EXCEPT ![p % Buckets] = next[at[0]]]
              /\ next' = [next EXCEPT ![at[0]] = NoNode]
         ELSE next' = [next EXCEPT ![at[k - 1]] = next[at[k]], ![at[k]] = NoNode]
              /\ UNCHANGED head
      /\ isFree' = [isFree EXCEPT ![at[k]] = TRUE]
      /\ UNCHANGED used
LeftStaysLinked(p, k) ==
  LET at == Visit(p)
  IN  /\ IF k = 0
         THEN /\ head' = [head EXCEPT ![p % Buckets] = next[at[0]]]
              /\ next' = [next EXCEPT ![at[0]] = NoNode]
         ELSE UNCHANGED <<head, next>>
      /\ isFree' = [isFree EXCEPT ![at[k]] = TRUE]
      /\ used' = used - 1
ReplaceGivesNewNode(p, i) ==
  /\ isFree' = [isFree EXCEPT ![i] = TRUE]
  /\ priority' = [priority EXCEPT ![i] = p]
  /\ next' = [next EXCEPT ![i] = NoNode]
  /\ Answer(TRUE, p, i)
  /\ UNCHANGED <<head, used>>
ScopeWithoutLast ==
  IF MaxPriority \div Buckets > MaxNodeCount THEN MaxNodeCount
                                             ELSE MaxPriority \div Buckets

\* mPriorityQueueInitialize and ClearMyPriorityQueue
Initialize ==
  /\ MaxNodeCount < NodeLimit
  /\ isFree' = [i \in Nodes |-> TRUE]
  /\ priority' = [i \in Nodes |-> IF FromSmall THEN MaxPriority ELSE 0]
  /\ next' = [i \in Nodes |-> NoNode]
  /\ head' = [b \in 0 .. Buckets - 1 |-> NoNode]
  /\ used' = 0
  /\ IF MaxPriority = 0 THEN UNCHANGED <<table, isInit>>
                        ELSE table' = ZeroTable /\ isInit' = TRUE
  /\ Answer(TRUE, 0, NoNode)

(* The walk of NodeTailAdd met the priority it is to add: the borrowed     *)
(* node i goes back, with the new priority left in it, and the old node    *)
(* is the answer.                                                          *)
AddAgain(p, i) ==
  /\ priority' = [priority EXCEPT ![i] = p]
  /\ next' = [next EXCEPT ![i] = NoNode]
  /\ Answer(TRUE, p, Visit(p)[Min(StepsToPriority(p))])
  /\ UNCHANGED <<head, isFree, used>>

\* The walk ended on the last node of the bucket, or the bucket is empty.
AddLast(p, i) ==
  LET b == p % Buckets
      last == Visit(p)[Min(StepsTo(p, LAMBDA n : next[n] = NoNode))]
  IN  /\ IF head[b] = NoNode
         THEN /\ head' = [head EXCEPT ![b] = i]
              /\ next' = [next EXCEPT ![i] = NoNode]
         ELSE /\ next' = [next EXCEPT ![i] = NoNode, ![last] = i]
              /\ UNCHANGED head
      /\ priority' = [priority EXCEPT ![i] = p]
      /\ isFree' = [isFree EXCEPT ![i] = FALSE]
      /\ used' = used + 1
      /\ Answer(TRUE, p, i)

(* mPriorityQueuePush.  The table is written before the node is borrowed;  *)
(* with no free node the bit would stay.                                   *)
Push(p) ==
  IF ~isInit \/ used >= MaxNodeCount
  THEN Refuse(p)
  ELSE /\ table' = TableInsert(table, p)
       /\ UNCHANGED isInit
       /\ IF FreeNodes = {}
          THEN /\ Answer(FALSE, p, NoNode)
               /\ UNCHANGED <<head, isFree, priority, next, used>>
          ELSE LET i == Min(FreeNodes)
               IN  IF StepsToPriority(p) # {} THEN AddAgain(p, i)
                                              ELSE AddLast(p, i)

\* NodePullAway, with the node found at step k of the walk
Unlink(p, k) ==
  LET at == Visit(p)
  IN  /\ IF k = 0
         THEN /\ head' = [head EXCEPT ![p % Buckets] = next[at[0]]]
              /\ next' = [next EXCEPT ![at[0]] = NoNode]
         ELSE /\ next' = [next EXCEPT ![at[k - 1]] = next[at[k]],
                                      ![at[k]] = NoNode]
              /\ UNCHANGED head
      /\ isFree' = [isFree EXCEPT ![at[k]] = TRUE]
      /\ used' = used - 1

\* RealseMyPriorityQueueNodeByPriority
Release(p) ==
  IF ~isInit \/ used = 0
  THEN Refuse(p)
  ELSE /\ table' = TableRemove(table, p)
       /\ UNCHANGED <<isInit, priority>>
       /\ IF StepsToPriority(p) = {}
          THEN /\ Answer(FALSE, p, NoNode)
               /\ UNCHANGED <<head, isFree, next, used>>
          ELSE LET k == Min(StepsToPriority(p))
               IN  Unlink(p, k) /\ Answer(TRUE, p, Visit(p)[k])

\* mPriorityQueuePop
Pop == IF ~isInit \/ ~HasHighest(table) THEN Refuse(0)
                                        ELSE Release(Highest(table))

Next == \/ Initialize
        \/ \E p \in Priorities : Push(p)
        \/ \E p \in Priorities : Release(p)
        \/ Pop

Spec == Init /\ [][Next]_vars

-----------------------------------------------------------------------------
\* GetNodeNumberByPriority: the number of nodes it looks at, and its answer
CheckScope ==
  LET scope == MaxPriority \div Buckets + 1
  IN  IF scope > MaxNodeCount THEN MaxNodeCount ELSE scope

NodeNumberOf(p) ==
  LET found == {k \in StepsToPriority(p) : k < CheckScope}
  IN  IF found = {} THEN NoNode ELSE Visit(p)[Min(found)]

-----------------------------------------------------------------------------
Chain(b)     == {Visit(b)[k] : k \in 0 .. MaxNodeCount} \ {NoNode}
LinkedNodes  == UNION {Chain(b) : b \in 0 .. Buckets - 1}

(* Every chain ends, holds only nodes of its bucket that are not free, and *)
(* no two nodes in use have the same priority.                             *)
ChainsWellFormed ==
  /\ TypeOK
  /\ \A b \in 0 .. Buckets - 1 :
       /\ Visit(b)[MaxNodeCount] = NoNode
       /\ \A i \in Chain(b) : ~isFree[i] /\ priority[i] % Buckets = b
  /\ \A i, j \in LinkedNodes : priority[i] = priority[j] => i = j

(* The three books agree on what is in the queue: the nodes that are not   *)
(* free are the linked ones, the count counts them and the table has the   *)
(* bits of their priorities.                                               *)
BooksAgree ==
  isInit => /\ Nodes \ FreeNodes = LinkedNodes
            /\ used = Cardinality(LinkedNodes)
            /\ InTable(table) = {priority[i] : i \in LinkedNodes}

(* GetCurrentUsedPriorityScope: the word scans and zero counts answer the  *)
(* most and the least urgent priorities pushed and not yet released.       *)
ScopeRight ==
  LET S == {priority[i] : i \in LinkedNodes}
  IN  S # {} => /\ HasHighest(table) /\ Highest(table) = MostUrgent(S)
                /\ HasLowest(table)  /\ Lowest(table) = LeastUrgent(S)

(* The scans are right, and the search by priority, which looks at no more *)
(* nodes than a bucket has priorities, finds every node in use and no      *)
(* other: also the last node of a bucket with all its priorities in it.    *)
LookupComplete ==
  isInit => /\ ScopeRight
            /\ \A p \in Priorities :
                 NodeNumberOf(p) # NoNode <=> \E i \in Nodes : ~isFree[i] /\ priority[i] = p

Owner == [p \in Priorities |-> IF StepsToPriority(p) = {} THEN NoNode
                                ELSE Visit(p)[Min(StepsToPriority(p))]]
Map == INSTANCE PriorityMap WITH Before <- MoreUrgent, ready <- isInit, owner <- Owner

(* Seen from outside the queue is a map from priorities to nodes that pops *)
(* the most urgent first and answers the node the push answered; only with *)
(* every node taken it does not replace (mPriorityQueuePush looks at the   *)
(* count before it looks for the priority).                                *)
ImplementsMapUnlessFull == Map!UnlessFullSpec

(* The map the comments promise, m_priority_queues.c:5: "if same priority  *)
(* is pushed ,the previous one will be replace by the new one", and so     *)
(* with a full queue: "Node count max , only replace can be done",         *)
(* priority_queue_list_node_test.txt:194.  The code refuses that push.     *)
ImplementsMap == Map!Spec
=============================================================================
