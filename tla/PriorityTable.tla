---------------------------- MODULE PriorityTable ----------------------------
(***************************************************************************)
(* The bit table of MulLoopQueue/m_priority_queues.c: one bit for each     *)
(* priority, in words of W bits, the first priority in the most            *)
(* significant bit of word 0.  A word is the set of the bit numbers that   *)
(* are 1, counted from the most significant one.  Priorities are stored    *)
(* the other way round when the larger value is the more urgent.           *)
(***************************************************************************)
EXTENDS FiniteSetsExt

CONSTANTS W,             \* BIT_COUNT_IN_UINT32
          MaxPriority,   \* MaxPriorityValue
          FromSmall      \* isHighPriorityFromSmall

ASSUME PriorityTableAssumption == /\ W \in Nat \ {0}
                                  /\ MaxPriority \in Nat
                                  /\ FromSmall \in BOOLEAN

Priorities == 0 .. MaxPriority
Words      == 0 .. MaxPriority \div W   \* GET_PRIORITY_TABLE_SIZE_BY_...
Table      == [Words -> SUBSET (0 .. W - 1)]

ZeroTable == [i \in Words |-> {}]       \* PriorityTableInit

\* priority_convert, its own inverse
Converted(p) == IF FromSmall THEN p ELSE MaxPriority - p

TableInsert(table, p) ==
  [table EXCEPT ![Converted(p) \div W] = @ \cup {Converted(p) % W}]

TableRemove(table, p) ==
  [table EXCEPT ![Converted(p) \div W] = @ \ {Converted(p) % W}]

\* GetLeadZeroCount and GetRearZeroCount of a word that is not 0
LeadZeros(word) == Min(word)
RearZeros(word) == W - 1 - Max(word)

NonZero(table) == {i \in Words : table[i] # {}}

(* PriorityTableGetHighest: X_False when every word is 0 or when the bit   *)
(* found is beyond the largest priority.                                   *)
HighestIndex(table) ==
  LET i == Min(NonZero(table)) IN i * W + LeadZeros(table[i])
HasHighest(table) ==
  NonZero(table) # {} /\ HighestIndex(table) <= MaxPriority
Highest(table) == Converted(HighestIndex(table))

\* PriorityTableGetLowest, which scans from the last word down
LowestIndex(table) ==
  LET i == Max(NonZero(table)) IN i * W + (W - RearZeros(table[i])) - 1
HasLowest(table) ==
  NonZero(table) # {} /\ LowestIndex(table) <= MaxPriority
Lowest(table) == Converted(LowestIndex(table))

\* The priorities whose bit is set.
InTable(table) ==
  {p \in Priorities : Converted(p) % W \in table[Converted(p) \div W]}

\* The order of urgency: what pops first.
MoreUrgent(p, r) == IF FromSmall THEN p < r ELSE p > r
MostUrgent(S)    == CHOOSE p \in S : \A r \in S \ {p} : MoreUrgent(p, r)
LeastUrgent(S)   == CHOOSE p \in S : \A r \in S \ {p} : MoreUrgent(r, p)
=============================================================================
