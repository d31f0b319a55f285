---------------------------- MODULE NodePoolProofs ----------------------------
(***************************************************************************)
(* The two pools of nodes.  The priority queue for every number of nodes,  *)
(* buckets and priorities: its chains, its books and its search, and that  *)
(* it implements the map of PriorityMap.  The single list for every number *)
(* of nodes: its pool and chain, and that it implements the sequence of    *)
(* SequenceList.  A chain is walked by a recursive function; what it       *)
(* visits is shown with the least element of a set of numbers, the one     *)
(* form of induction that needs no operator as a parameter.                *)
(***************************************************************************)
EXTENDS PriorityQueue, FiniteSetTheorems, SequenceTheorems, TLAPS

-----------------------------------------------------------------------------
(* Numbers: least elements, induction over sets, division.                 *)
LEMMA LeastElement ==
  ASSUME NEW S \in SUBSET Nat, S # {}
  PROVE  \E m \in S : \A n \in S : m <= n
<1> DEFINE R == OpToRel(<, Nat)
<1>1. IsWellFoundedOn(R, Nat)
  BY NatLessThanWellFounded, Zenon
<1>2. \A x, y \in Nat : <<y, x>> \in R <=> y < x
  BY Zenon DEF OpToRel
<1> HIDE DEF R
<1>3. PICK m \in S : \A n \in S : <<n, m>> \notin R
  BY <1>1, WFMin
<1>4. \A n \in S : ~(n < m) /\ n \in Nat /\ m \in Nat
  BY <1>2, <1>3
<1>5. \A n \in S : m <= n
  BY <1>4
<1> QED
  BY <1>5

LEMMA InductionInSet ==
  ASSUME NEW S, 0 \in S, \A n \in Nat : n \in S => n + 1 \in S
  PROVE  Nat \subseteq S
<1> DEFINE Out == {n \in Nat : n \notin S}
<1> SUFFICES ASSUME Out # {} PROVE FALSE
  OBVIOUS
<1>1. PICK m \in Out : \A n \in Out : m <= n
  BY LeastElement
<1>2. m # 0 /\ m - 1 \in Nat
  BY <1>1
<1>3. m - 1 \in S
  BY <1>1, <1>2
<1> QED
  BY <1>1, <1>2, <1>3

LEMMA MinProps ==
  ASSUME NEW S \in SUBSET Nat, S # {}
  PROVE  Min(S) \in S /\ \A n \in S : Min(S) <= n
BY LeastElement DEF Min

LEMMA DivMod ==
  ASSUME NEW D \in Nat \ {0}, NEW x \in Nat
  PROVE  /\ x \div D \in Nat /\ x % D \in 0 .. D - 1
         /\ x = ((x \div D) * D) + (x % D)
OBVIOUS

LEMMA DivModOf ==
  ASSUME NEW D \in Nat \ {0}, NEW i \in Nat, NEW c \in 0 .. D - 1
  PROVE  (i * D) + c \in Nat /\ ((i * D) + c) \div D = i /\ ((i * D) + c) % D = c
OBVIOUS

LEMMA DivGrows ==
  ASSUME NEW D \in Nat \ {0}, NEW x \in Nat, NEW y \in Nat, x <= y
  PROVE  x \div D <= y \div D
OBVIOUS

-----------------------------------------------------------------------------
(* Walks: the nodes from a head on, NoNode from the end of the chain on.   *)
Steps == 0 .. MaxNodeCount

\* A walk of n steps; IsWalk is one as long as those of the code can be.
PartWalk(f, n, h, nx) ==
  f = [k \in 0 .. n |-> IF k = 0 THEN h
                        ELSE IF f[k - 1] = NoNode THEN NoNode ELSE nx[f[k - 1]]]

IsWalk(f, h, nx) == PartWalk(f, MaxNodeCount, h, nx)

LEMMA StepsAreNumbers ==
  MaxNodeCount \in Nat \ {0} /\ Steps \subseteq Nat
BY PriorityQueueAssumption DEF Steps

LEMMA PartUnique ==
  ASSUME NEW n \in Nat, NEW f, NEW g, NEW h, NEW nx,
         PartWalk(f, n, h, nx), PartWalk(g, n, h, nx)
  PROVE  f = g
<1> DEFINE Same == {k \in Nat : k \in 0 .. n => f[k] = g[k]}
<1>1. 0 \in Same
  BY DEF PartWalk
<1>2. ASSUME NEW k \in Nat, k \in Same PROVE k + 1 \in Same
  <2>1. CASE k + 1 \in 0 .. n
    <3>1. k \in 0 .. n /\ f[k] = g[k] /\ k + 1 # 0 /\ (k + 1) - 1 = k
      BY <1>2, <2>1
    <3>2. f[k + 1] = IF f[k] = NoNode THEN NoNode ELSE nx[f[k]]
      BY <2>1, <3>1 DEF PartWalk
    <3>3. g[k + 1] = IF g[k] = NoNode THEN NoNode ELSE nx[g[k]]
      BY <2>1, <3>1 DEF PartWalk
    <3> QED
      BY <3>1, <3>2, <3>3
  <2> QED
    BY <2>1
<1>3. Nat \subseteq Same
  <2> HIDE DEF Same
  <2> QED
    BY <1>1, <1>2, InductionInSet
<1>4. \A k \in 0 .. n : f[k] = g[k]
  BY <1>3
<1> QED
  BY <1>4 DEF PartWalk

(* There is a walk from every head: shorter ones are continued. *)
LEMMA PartExists ==
  ASSUME NEW h, NEW nx
  PROVE  \A n \in Nat : \E f : PartWalk(f, n, h, nx)
<1> DEFINE Part(f, n) == PartWalk(f, n, h, nx)
           Long == {n \in Nat : \E f : Part(f, n)}
<1>1. 0 \in Long
  <2>1. Part([k \in 0 .. 0 |-> h], 0)
    BY DEF PartWalk
  <2> QED
    BY <2>1
<1>2. ASSUME NEW n \in Nat, n \in Long PROVE n + 1 \in Long
  <2>1. PICK f : Part(f, n)
    BY <1>2
  <2> DEFINE g == [k \in 0 .. n + 1 |-> IF k <= n THEN f[k]
                     ELSE IF f[n] = NoNode THEN NoNode ELSE nx[f[n]]]
  <2>2. ASSUME NEW k \in 0 .. n + 1
        PROVE  g[k] = IF k = 0 THEN h
                      ELSE IF g[k - 1] = NoNode THEN NoNode ELSE nx[g[k - 1]]
    <3>1. CASE k = 0
      BY <2>1, <3>1 DEF PartWalk
    <3>2. CASE k # 0 /\ k <= n
      <4>1. k \in 0 .. n /\ k - 1 \in 0 .. n + 1 /\ k - 1 <= n
        BY <3>2
      <4>2. g[k] = f[k] /\ g[k - 1] = f[k - 1]
        BY <3>2, <4>1
      <4>3. f[k] = IF f[k - 1] = NoNode THEN NoNode ELSE nx[f[k - 1]]
        BY <2>1, <3>2, <4>1 DEF PartWalk
      <4> QED
        BY <3>2, <4>2, <4>3
    <3>3. CASE k = n + 1
      <4>1. k - 1 = n /\ n \in 0 .. n + 1 /\ n <= n /\ ~(n + 1 <= n) /\ k # 0
        BY <3>3
      <4> QED
        BY <3>3, <4>1
    <3> QED
      BY <3>1, <3>2, <3>3
  <2>3. Part(g, n + 1)
    BY <2>2 DEF PartWalk
  <2>4. \E e : Part(e, n + 1)
    <3> HIDE DEF Part, g
    <3> QED
      BY <2>3
  <2> QED
    BY <2>4
<1>3. Nat \subseteq Long
  <2> HIDE DEF Long
  <2> QED
    BY <1>1, <1>2, InductionInSet
<1> QED
  BY <1>3

LEMMA WalkUnique ==
  ASSUME NEW f, NEW g, NEW h, NEW nx, IsWalk(f, h, nx), IsWalk(g, h, nx)
  PROVE  f = g
BY PartUnique, StepsAreNumbers DEF IsWalk

LEMMA WalkExists ==
  ASSUME NEW h, NEW nx
  PROVE  \E f : IsWalk(f, h, nx)
BY PartExists, StepsAreNumbers DEF IsWalk


LEMMA VisitIsWalk == \A p : IsWalk(Visit(p), head[p % Buckets], next)
<1> SUFFICES ASSUME NEW p PROVE IsWalk(Visit(p), head[p % Buckets], next)
  OBVIOUS
<1>1. PICK f : IsWalk(f, head[p % Buckets], next)
  BY WalkExists
<1> QED
  BY <1>1 DEF Visit, IsWalk, PartWalk

LEMMA WalkSteps ==
  ASSUME NEW f, NEW h, NEW nx, IsWalk(f, h, nx)
  PROVE  /\ f = [k \in Steps |-> f[k]] /\ f[0] = h
         /\ \A k \in Steps : k # 0 =>
              /\ k - 1 \in Steps
              /\ f[k] = IF f[k - 1] = NoNode THEN NoNode ELSE nx[f[k - 1]]
<1>1. 0 \in Steps /\ \A k \in Steps : k # 0 => k - 1 \in Steps
  BY StepsAreNumbers DEF Steps
<1> QED
  BY <1>1 DEF IsWalk, PartWalk, Steps

LEMMA WalkBySteps ==
  ASSUME NEW f, NEW h, NEW nx, f = [k \in Steps |-> f[k]], f[0] = h,
         \A k \in Steps : k # 0 =>
            f[k] = IF f[k - 1] = NoNode THEN NoNode ELSE nx[f[k - 1]]
  PROVE  IsWalk(f, h, nx)
<1>1. \A k \in Steps : f[k] = IF k = 0 THEN h
                       ELSE IF f[k - 1] = NoNode THEN NoNode ELSE nx[f[k - 1]]
  OBVIOUS
<1> QED
  BY <1>1 DEF IsWalk, PartWalk, Steps

MaybeNode == Nodes \cup {NoNode}

LEMMA WalkTyped ==
  ASSUME NEW f, NEW h \in MaybeNode, NEW nx \in [Nodes -> MaybeNode], IsWalk(f, h, nx)
  PROVE  f \in [Steps -> MaybeNode]
<1> DEFINE Typed == {n \in Nat : n \in Steps => f[n] \in MaybeNode}
<1>1. 0 \in Typed
  BY WalkSteps
<1>2. ASSUME NEW n \in Nat, n \in Typed PROVE n + 1 \in Typed
  <2>1. CASE n + 1 \in Steps
    <3>1. n + 1 # 0 /\ (n + 1) - 1 = n
      OBVIOUS
    <3>2. n \in Steps /\ f[n + 1] = IF f[n] = NoNode THEN NoNode ELSE nx[f[n]]
      BY <2>1, <3>1, WalkSteps
    <3>3. f[n] \in MaybeNode
      BY <1>2, <3>2
    <3> QED
      BY <3>2, <3>3 DEF MaybeNode
  <2> QED
    BY <2>1
<1>3. Nat \subseteq Typed
  <2> HIDE DEF Typed
  <2> QED
    BY <1>1, <1>2, InductionInSet
<1>4. \A k \in Steps : f[k] \in MaybeNode
  BY <1>3, StepsAreNumbers
<1> QED
  BY <1>4, WalkSteps

(* Behind the end of a chain there is nothing. *)
LEMMA WalkStops ==
  ASSUME NEW f, NEW h, NEW nx, IsWalk(f, h, nx),
         NEW j \in Steps, NEW k \in Steps, j <= k, f[j] = NoNode
  PROVE  f[k] = NoNode
<1> DEFINE Over == {n \in Nat : j + n \in Steps => f[j + n] = NoNode}
<1>0. j \in Nat /\ k \in Nat
  BY StepsAreNumbers
<1>1. 0 \in Over
  BY <1>0
<1>2. ASSUME NEW n \in Nat, n \in Over PROVE n + 1 \in Over
  <2>1. CASE j + (n + 1) \in Steps
    <3>1. j + (n + 1) # 0 /\ (j + (n + 1)) - 1 = j + n
      BY <1>0
    <3>2. /\ j + n \in Steps
          /\ f[j + (n + 1)] = IF f[j + n] = NoNode THEN NoNode ELSE nx[f[j + n]]
      BY <2>1, <3>1, WalkSteps
    <3> QED
      BY <1>2, <3>2
  <2> QED
    BY <2>1
<1>3. Nat \subseteq Over
  <2> HIDE DEF Over
  <2> QED
    BY <1>1, <1>2, InductionInSet
<1>4. k - j \in Nat /\ j + (k - j) = k
  BY <1>0
<1> QED
  BY <1>3, <1>4

(* A chain that ends passes no node twice: else it would go round. *)
LEMMA WalkOnce ==
  ASSUME NEW f, NEW h, NEW nx, IsWalk(f, h, nx), f[MaxNodeCount] = NoNode,
         NEW j \in Steps, NEW k \in Steps, f[j] # NoNode, f[j] = f[k]
  PROVE  j = k
<1>0. Steps \subseteq Nat /\ MaxNodeCount \in Steps /\ MaxNodeCount \in Nat
  BY StepsAreNumbers DEF Steps
<1>1. ASSUME NEW a \in Steps, NEW b \in Steps, a < b, f[a] # NoNode, f[a] = f[b]
      PROVE  FALSE
  <2> DEFINE Round == {n \in Nat : b + n \in Steps => f[a + n] = f[b + n]}
             End   == {n \in Steps : f[n] = NoNode}
  <2>0. a \in Nat /\ b \in Nat
    BY <1>0
  <2>1. 0 \in Round
    BY <1>1, <2>0
  <2>2. ASSUME NEW n \in Nat, n \in Round PROVE n + 1 \in Round
    <3>1. CASE b + (n + 1) \in Steps
      <4>1. /\ b + (n + 1) # 0 /\ (b + (n + 1)) - 1 = b + n
            /\ a + (n + 1) # 0 /\ (a + (n + 1)) - 1 = a + n
        BY <2>0
      <4>2. a + (n + 1) \in Steps
        BY <1>1, <2>0, <3>1, <1>0 DEF Steps
      <4>3. /\ b + n \in Steps
            /\ f[b + (n + 1)] = IF f[b + n] = NoNode THEN NoNode ELSE nx[f[b + n]]
        BY <3>1, <4>1, WalkSteps
      <4>4. f[a + (n + 1)] = IF f[a + n] = NoNode THEN NoNode ELSE nx[f[a + n]]
        BY <4>1, <4>2, WalkSteps
      <4> QED
        BY <2>2, <4>3, <4>4
    <3> QED
      BY <3>1
  <2>3. Nat \subseteq Round
    <3> HIDE DEF Round
    <3> QED
      BY <2>1, <2>2, InductionInSet
  <2>4. PICK e \in End : \A n \in End : e <= n
    <3>1. End \in SUBSET Nat /\ End # {}
      BY <1>0
    <3> HIDE DEF End
    <3> QED
      BY <3>1, LeastElement
  <2>5. e \in Nat /\ f[e] = NoNode
    BY <1>0, <2>4
  <2>6. ~(e <= b)
    BY <1>1, <2>4, <2>5, WalkStops
  <2>7. e - b \in Nat /\ b + (e - b) = e
    BY <2>0, <2>5, <2>6
  <2>8. f[a + (e - b)] = NoNode
    BY <2>3, <2>4, <2>5, <2>7
  <2>9. a + (e - b) \in Steps /\ a + (e - b) < e
    BY <1>0, <1>1, <2>0, <2>4, <2>5, <2>7 DEF Steps
  <2>10. e <= a + (e - b)
    BY <2>4, <2>8, <2>9
  <2> QED
    BY <2>0, <2>5, <2>9, <2>10
<1>2. j < k \/ k < j \/ j = k
  BY <1>0
<1> QED
  BY <1>1, <1>2

(* What is done behind other chains leaves a walk as it is. *)
LEMMA WalkElsewhere ==
  ASSUME NEW f, NEW h, NEW nx, NEW mx, IsWalk(f, h, nx),
         \A k \in Steps : f[k] # NoNode => mx[f[k]] = nx[f[k]]
  PROVE  IsWalk(f, h, mx)
<1>1. \A k \in Steps : k # 0 =>
        f[k] = IF f[k - 1] = NoNode THEN NoNode ELSE mx[f[k - 1]]
  BY WalkSteps
<1> QED
  BY <1>1, WalkSteps, WalkBySteps

-----------------------------------------------------------------------------
(* Chains that grow at the end and lose one of their nodes.                *)
Visited(f) == {f[k] : k \in Steps} \ {NoNode}

LEMMA PoolSize == IsFiniteSet(Nodes) /\ Cardinality(Nodes) = MaxNodeCount
<1>1. MaxNodeCount \in Nat \ {0} /\ 0 \in Int /\ MaxNodeCount - 1 \in Int
      /\ ~(0 > MaxNodeCount - 1) /\ (MaxNodeCount - 1) - 0 + 1 = MaxNodeCount
  BY PriorityQueueAssumption
<1> QED
  BY <1>1, FS_Interval DEF Nodes

(* A chain that misses one node ends two places before the last step. *)
LEMMA RoomForOne ==
  ASSUME NEW f \in [Steps -> MaybeNode], NEW h, NEW nx, IsWalk(f, h, nx),
         f[MaxNodeCount] = NoNode,
         NEW i \in Nodes, i \notin Visited(f), NEW m \in Steps, f[m] # NoNode
  PROVE  m + 2 <= MaxNodeCount
<1> DEFINE r == [k \in 0 .. m |-> f[k]]
<1>0. m \in Nat /\ MaxNodeCount \in Nat /\ NoNode \notin Nodes
  BY StepsAreNumbers, PriorityQueueAssumption
<1>1. ASSUME NEW k \in 0 .. m PROVE k \in Steps /\ f[k] \in Nodes \ {i} /\ f[k] # NoNode
  <2>1. k \in Steps /\ k <= m
    BY <1>0 DEF Steps
  <2>2. f[k] # NoNode
    BY <2>1, WalkStops
  <2> QED
    BY <2>1, <2>2 DEF Visited, MaybeNode
<1>2. r \in [0 .. m -> Nodes \ {i}]
  BY <1>1
<1>3. IsFiniteSet(0 .. m) /\ Cardinality(0 .. m) = m + 1
  <2>1. ~(0 > m) /\ m - 0 + 1 = m + 1 /\ 0 \in Int /\ m \in Int
    BY <1>0
  <2> QED
    BY <2>1, FS_Interval
<1>4. IsFiniteSet(Nodes \ {i}) /\ Cardinality(Nodes \ {i}) = MaxNodeCount - 1
  BY PoolSize, FS_RemoveElement
<1>5. ASSUME MaxNodeCount - 1 < m + 1 PROVE FALSE
  <2>1. Cardinality(Nodes \ {i}) < Cardinality(0 .. m)
    BY <1>3, <1>4, <1>5
  <2>2. \E x, y \in 0 .. m : x # y /\ r[x] = r[y]
    <3>1. PICK S, T : S = 0 .. m /\ T = Nodes \ {i}
      OBVIOUS
    <3> HIDE DEF r
    <3>2. /\ IsFiniteSet(S) /\ IsFiniteSet(T) /\ Cardinality(T) < Cardinality(S)
          /\ r \in [S -> T]
      BY <1>2, <1>3, <1>4, <2>1, <3>1
    <3>3. \E x, y \in S : x # y /\ r[x] = r[y]
      BY <3>2, FS_PigeonHole
    <3> QED
      BY <3>1, <3>3
  <2>3. PICK x, y \in 0 .. m : x # y /\ f[x] = f[y]
    BY <2>2
  <2> QED
    BY <1>1, <2>3, WalkOnce
<1> QED
  BY <1>0, <1>5

Linking(f, h, nx, i, m, mx) ==
  /\ h \in MaybeNode /\ nx \in [Nodes -> MaybeNode]
  /\ IsWalk(f, h, nx) /\ f[MaxNodeCount] = NoNode
  /\ i \in Nodes /\ i \notin Visited(f)
  /\ m \in Steps /\ f[m] # NoNode /\ nx[f[m]] = NoNode
  /\ mx = [nx EXCEPT ![i] = NoNode, ![f[m]] = i]

LEMMA LinkAtEnd ==
  ASSUME NEW f, NEW h, NEW nx, NEW i, NEW m, NEW mx, Linking(f, h, nx, i, m, mx)
  PROVE  \E g : /\ IsWalk(g, h, mx) /\ g[MaxNodeCount] = NoNode
                /\ Visited(g) = Visited(f) \cup {i}
<1> USE DEF Linking
<1> DEFINE g == [k \in Steps |-> IF k <= m THEN f[k] ELSE IF k = m + 1 THEN i ELSE NoNode]
<1>0. /\ m \in Nat /\ MaxNodeCount \in Nat /\ NoNode \notin Nodes
      /\ \A k \in Steps : k \in Nat /\ k <= MaxNodeCount
  BY StepsAreNumbers, PriorityQueueAssumption DEF Steps
<1>1. f \in [Steps -> MaybeNode]
  BY WalkTyped
<1>2. m + 2 <= MaxNodeCount /\ m + 1 \in Steps /\ MaxNodeCount \in Steps
  BY <1>0, <1>1, RoomForOne DEF Steps
<1>3. \A k \in Steps : f[k] # i
  BY <1>0 DEF Visited
<1>4. f[m] \in Nodes /\ f[m] # i
  BY <1>1, <1>3 DEF MaybeNode
<1>5. /\ mx[i] = NoNode /\ mx[f[m]] = i
      /\ \A n \in Nodes : n # i /\ n # f[m] => mx[n] = nx[n]
  BY <1>4
<1>6. \A k \in Steps : k > m => f[k] = NoNode
  <2> SUFFICES ASSUME NEW k \in Steps, k > m PROVE f[k] = NoNode
    OBVIOUS
  <2>1. f[m + 1] = NoNode
    <3>1. m + 1 # 0 /\ (m + 1) - 1 = m
      BY <1>0
    <3> QED
      BY <1>2, <3>1, WalkSteps
  <2>2. m + 1 <= k
    BY <1>0
  <2> QED
    BY <1>2, <2>1, <2>2, WalkStops
<1>7. ASSUME NEW k \in Steps, k # 0
      PROVE  g[k] = IF g[k - 1] = NoNode THEN NoNode ELSE mx[g[k - 1]]
  <2>0. k - 1 \in Steps /\ k \in Nat
        /\ f[k] = IF f[k - 1] = NoNode THEN NoNode ELSE nx[f[k - 1]]
    BY <1>0, <1>7, WalkSteps
  <2>1. CASE k <= m
    <3>1. g[k] = f[k] /\ g[k - 1] = f[k - 1] /\ k - 1 # m /\ k - 1 <= m
      BY <1>0, <2>0, <2>1
    <3>2. f[k - 1] # NoNode
      BY <2>0, <3>1, WalkStops
    <3>3. f[k - 1] # f[m] /\ f[k - 1] \in Nodes
      BY <1>1, <2>0, <3>1, <3>2, WalkOnce DEF MaybeNode
    <3> QED
      BY <1>3, <1>5, <2>0, <3>1, <3>2, <3>3
  <2>2. CASE k = m + 1
    <3>1. g[k] = i /\ g[k - 1] = f[m]
      BY <1>0, <2>0, <2>2
    <3> QED
      BY <1>5, <3>1
  <2>3. CASE k = m + 2
    <3>1. g[k] = NoNode /\ g[k - 1] = i
      BY <1>0, <2>0, <2>3
    <3> QED
      BY <1>5, <3>1
  <2>4. CASE k > m + 2
    <3>1. g[k] = NoNode /\ g[k - 1] = NoNode
      BY <1>0, <2>0, <2>4
    <3> QED
      BY <3>1
  <2> QED
    BY <1>0, <2>0, <2>1, <2>2, <2>3, <2>4
<1>8. g[0] = h /\ g = [k \in Steps |-> g[k]] /\ g[MaxNodeCount] = NoNode
  <2>1. 0 \in Steps /\ 0 <= m
    BY <1>0 DEF Steps
  <2>2. g[0] = h
    BY <2>1, WalkSteps
  <2>3. ~(MaxNodeCount <= m) /\ MaxNodeCount # m + 1
    BY <1>0, <1>2
  <2> QED
    BY <1>2, <2>2, <2>3
<1>9. Visited(g) = Visited(f) \cup {i}
  <2>1. \A k \in Steps : g[k] \in {f[k], i, NoNode}
    OBVIOUS
  <2>2. \A k \in Steps : f[k] # NoNode => g[k] = f[k]
    BY <1>0, <1>6
  <2>3. g[m + 1] = i
    BY <1>0, <1>2
  <2> HIDE DEF g
  <2> QED
    BY <1>0, <1>2, <2>1, <2>2, <2>3 DEF Visited
<1>10. IsWalk(g, h, mx)
  <2> HIDE DEF g
  <2> QED
    BY <1>7, <1>8, WalkBySteps
<1> HIDE DEF g
<1> QED
  BY <1>8, <1>9, <1>10

(* A chain of one node, in a bucket that was empty. *)
LEMMA LinkFirst ==
  ASSUME NEW i \in Nodes, NEW mx, mx[i] = NoNode
  PROVE  \E g : /\ IsWalk(g, i, mx) /\ g[MaxNodeCount] = NoNode
                /\ Visited(g) = {i}
<1> DEFINE g == [k \in Steps |-> IF k = 0 THEN i ELSE NoNode]
<1>1. 0 \in Steps /\ MaxNodeCount \in Steps /\ MaxNodeCount # 0 /\ i # NoNode
  BY StepsAreNumbers, PriorityQueueAssumption DEF Steps
<1>2. ASSUME NEW k \in Steps, k # 0
      PROVE  g[k] = IF g[k - 1] = NoNode THEN NoNode ELSE mx[g[k - 1]]
  <2>1. k - 1 \in Steps
    BY <1>2, StepsAreNumbers DEF Steps
  <2> QED
    BY <1>2, <2>1
<1>3. g = [k \in Steps |-> g[k]] /\ g[0] = i /\ g[MaxNodeCount] = NoNode
  BY <1>1
<1>4. Visited(g) = {i}
  BY <1>1 DEF Visited
<1>5. IsWalk(g, i, mx)
  <2> HIDE DEF g
  <2> QED
    BY <1>2, <1>3, WalkBySteps
<1> HIDE DEF g
<1> QED
  BY <1>3, <1>4, <1>5

Unlinking(f, h, nx, k, h2, mx) ==
  /\ h \in MaybeNode /\ nx \in [Nodes -> MaybeNode]
  /\ IsWalk(f, h, nx) /\ f[MaxNodeCount] = NoNode
  /\ k \in Steps /\ f[k] # NoNode
  /\ IF k = 0 THEN h2 = nx[f[0]] /\ mx = [nx EXCEPT ![f[0]] = NoNode]
     ELSE h2 = h /\ mx = [nx EXCEPT ![f[k - 1]] = nx[f[k]], ![f[k]] = NoNode]

LEMMA UnlinkAt ==
  ASSUME NEW f, NEW h, NEW nx, NEW k, NEW h2, NEW mx, Unlinking(f, h, nx, k, h2, mx)
  PROVE  \E g : /\ IsWalk(g, h2, mx) /\ g[MaxNodeCount] = NoNode
                /\ Visited(g) = Visited(f) \ {f[k]}
                /\ \A a \in Steps : g[a] = IF a < k THEN f[a]
                                    ELSE IF a < MaxNodeCount THEN f[a + 1] ELSE NoNode
<1> USE DEF Unlinking
<1> DEFINE g == [a \in Steps |-> IF a < k THEN f[a]
                                 ELSE IF a < MaxNodeCount THEN f[a + 1] ELSE NoNode]
<1>0. /\ k \in Nat /\ MaxNodeCount \in Nat \ {0} /\ NoNode \notin Nodes
      /\ 0 \in Steps /\ MaxNodeCount \in Steps
      /\ \A a \in Steps : a \in Nat /\ a <= MaxNodeCount
  BY StepsAreNumbers, PriorityQueueAssumption DEF Steps
<1>1. f \in [Steps -> MaybeNode]
  BY WalkTyped
<1>2. k < MaxNodeCount /\ f[k] \in Nodes
  BY <1>0, <1>1 DEF MaybeNode
<1>3. k # 0 => k - 1 \in Steps /\ f[k - 1] \in Nodes /\ f[k - 1] # f[k] /\ f[k - 1] # NoNode
  <2> SUFFICES ASSUME k # 0
      PROVE  k - 1 \in Steps /\ f[k - 1] \in Nodes /\ f[k - 1] # f[k] /\ f[k - 1] # NoNode
    OBVIOUS
  <2>1. k - 1 \in Steps /\ f[k - 1] # NoNode
    BY WalkSteps
  <2>2. f[k - 1] # f[k]
    BY <1>0, <2>1, WalkOnce
  <2> QED
    BY <1>1, <2>1, <2>2 DEF MaybeNode
<1>4. /\ mx[f[k]] = NoNode
      /\ k # 0 => mx[f[k - 1]] = nx[f[k]]
      /\ \A n \in Nodes : n # f[k] /\ (k # 0 => n # f[k - 1]) => mx[n] = nx[n]
  BY <1>2, <1>3
<1>5. \A a \in Steps : a < MaxNodeCount =>
        a + 1 \in Steps /\ f[a + 1] = IF f[a] = NoNode THEN NoNode ELSE nx[f[a]]
  <2> SUFFICES ASSUME NEW a \in Steps, a < MaxNodeCount
      PROVE  a + 1 \in Steps /\ f[a + 1] = IF f[a] = NoNode THEN NoNode ELSE nx[f[a]]
    OBVIOUS
  <2>1. a + 1 \in Steps /\ a + 1 # 0 /\ (a + 1) - 1 = a
    BY <1>0 DEF Steps
  <2> QED
    BY <2>1, WalkSteps
<1>6. ASSUME NEW a \in Steps, a # 0
      PROVE  g[a] = IF g[a - 1] = NoNode THEN NoNode ELSE mx[g[a - 1]]
  <2>0. a - 1 \in Steps /\ a \in Nat /\ a - 1 < MaxNodeCount
        /\ f[a] = IF f[a - 1] = NoNode THEN NoNode ELSE nx[f[a - 1]]
    BY <1>0, <1>6, WalkSteps
  <2>1. CASE a < k
    <3>1. g[a] = f[a] /\ g[a - 1] = f[a - 1] /\ a - 1 # k /\ a - 1 # k - 1 /\ a - 1 <= k
      BY <1>0, <2>0, <2>1
    <3>2. f[a - 1] # NoNode
      BY <2>0, <3>1, WalkStops
    <3>3. f[a - 1] # f[k] /\ f[a - 1] \in Nodes /\ (k # 0 => f[a - 1] # f[k - 1])
      BY <1>1, <1>3, <2>0, <3>1, <3>2, WalkOnce DEF MaybeNode
    <3> QED
      BY <1>4, <2>0, <3>1, <3>2, <3>3
  <2>2. CASE a = k
    <3>1. g[a] = f[k + 1] /\ g[a - 1] = f[k - 1]
      BY <1>0, <1>2, <2>0, <2>2
    <3>2. f[k + 1] = nx[f[k]]
      BY <1>2, <1>5
    <3> QED
      BY <1>3, <1>4, <1>6, <2>2, <3>1, <3>2
  <2>3. CASE a > k
    <3>1. g[a - 1] = f[a]
      BY <1>0, <2>0, <2>3
    <3>2. CASE f[a] = NoNode
      <4>1. a < MaxNodeCount => f[a + 1] = NoNode
        BY <1>5, <3>2
      <4>2. g[a] = NoNode
        BY <1>0, <2>0, <2>3, <4>1
      <4> QED
        BY <3>1, <3>2, <4>2
    <3>3. CASE f[a] # NoNode
      <4>1. a # MaxNodeCount
        BY <3>3
      <4>2. a < MaxNodeCount /\ g[a] = f[a + 1]
        BY <1>0, <2>0, <2>3, <4>1
      <4>3. f[a + 1] = nx[f[a]]
        BY <1>5, <3>3, <4>2
      <4>4. f[a] # f[k] /\ f[a] \in Nodes /\ (k # 0 => f[a] # f[k - 1])
        <5>1. a # k /\ (k # 0 => a # k - 1)
          BY <1>0, <2>0, <2>3
        <5> QED
          BY <1>1, <1>3, <3>3, <5>1, WalkOnce DEF MaybeNode
      <4> QED
        BY <1>4, <3>1, <3>3, <4>2, <4>3, <4>4
    <3> QED
      BY <3>2, <3>3
  <2> QED
    BY <1>0, <2>0, <2>1, <2>2, <2>3
<1>7. g[0] = h2 /\ g = [a \in Steps |-> g[a]] /\ g[MaxNodeCount] = NoNode
  <2>1. CASE k = 0
    <3>1. g[0] = f[1] /\ f[1] = nx[f[0]]
      BY <1>0, <1>5, <2>1
    <3> QED
      BY <1>0, <2>1, <3>1
  <2>2. CASE k # 0
    <3>1. g[0] = f[0] /\ f[0] = h
      BY <1>0, <2>2, WalkSteps
    <3> QED
      BY <1>0, <1>2, <2>2, <3>1
  <2> QED
    BY <2>1, <2>2
<1>8. Visited(g) = Visited(f) \ {f[k]}
  <2>1. ASSUME NEW a \in Steps, f[a] # NoNode, f[a] # f[k] PROVE \E b \in Steps : g[b] = f[a]
    <3>1. CASE a < k
      <4>1. g[a] = f[a]
        BY <3>1
      <4> QED
        BY <4>1
    <3>2. CASE a > k
      <4>1. a - 1 \in Steps /\ g[a - 1] = f[a]
        BY <1>0, <3>2 DEF Steps
      <4> QED
        BY <4>1
    <3> QED
      BY <1>0, <2>1, <3>1, <3>2
  <2>2. ASSUME NEW b \in Steps, g[b] # NoNode
        PROVE  g[b] # f[k] /\ \E a \in Steps : g[b] = f[a]
    <3>1. CASE b < k
      <4>1. g[b] = f[b] /\ b # k
        BY <1>0, <3>1
      <4> QED
        BY <2>2, <4>1, WalkOnce
    <3>2. CASE ~(b < k)
      <4>1. b < MaxNodeCount
        BY <1>0, <2>2, <3>2
      <4>2. b + 1 \in Steps /\ g[b] = f[b + 1] /\ b + 1 # k
        BY <1>0, <1>5, <3>2, <4>1
      <4> QED
        BY <2>2, <4>2, WalkOnce
    <3> QED
      BY <3>1, <3>2
  <2> HIDE DEF g
  <2> QED
    BY <2>1, <2>2 DEF Visited
<1>9. IsWalk(g, h2, mx)
  <2> HIDE DEF g
  <2> QED
    BY <1>6, <1>7, WalkBySteps
<1>10. \A a \in Steps : g[a] = IF a < k THEN f[a]
                        ELSE IF a < MaxNodeCount THEN f[a + 1] ELSE NoNode
  OBVIOUS
<1> HIDE DEF g
<1> QED
  BY <1>7, <1>8, <1>9, <1>10

-----------------------------------------------------------------------------
(* The bit table: an index of a bit is word * W + bit, and no bit beyond   *)
(* the largest priority is ever set.                                       *)
Clean(t) == t \in Table /\ \A i \in Words : \A c \in t[i] : (i * W) + c <= MaxPriority
Bits(t)  == {x \in Priorities : x % W \in t[x \div W]}

LEMMA MaxProps ==
  ASSUME NEW b \in Nat, NEW S \in SUBSET (0 .. b), S # {}
  PROVE  Max(S) \in S /\ \A n \in S : n <= Max(S)
<1> DEFINE Below == {n \in 0 .. b : b - n \in S}
<1>1. Below \in SUBSET Nat /\ Below # {}
  <2>1. PICK s \in S : TRUE
    OBVIOUS
  <2>2. s \in 0 .. b /\ b - s \in 0 .. b /\ b - (b - s) = s
    OBVIOUS
  <2>3. b - s \in Below
    BY <2>2
  <2>4. 0 .. b \subseteq Nat
    OBVIOUS
  <2> QED
    BY <2>3, <2>4
<1>2. PICK m \in Below : \A n \in Below : m <= n
  <2> HIDE DEF Below
  <2> QED
    BY <1>1, LeastElement
<1>3. ASSUME NEW n \in S PROVE n <= b - m
  <2>1. n \in 0 .. b /\ b - n \in 0 .. b /\ b - (b - n) = n
    OBVIOUS
  <2>2. m <= b - n
    BY <1>2, <2>1
  <2> QED
    BY <1>2, <2>1, <2>2
<1>4. b - m \in S /\ \A n \in S : b - m >= n
  BY <1>2, <1>3
<1> QED
  BY <1>4 DEF Max

LEMMA WordSizes ==
  /\ W \in Nat \ {0} /\ MaxPriority \in Nat /\ Priorities \subseteq Nat
  /\ MaxPriority \div W \in Nat /\ Words \subseteq Nat
<1>1. W \in Nat \ {0} /\ MaxPriority \in Nat
  BY PriorityTableAssumption
<1> QED
  BY <1>1, DivMod DEF Priorities, Words

LEMMA PlaceOfBit ==
  ASSUME NEW x \in Priorities
  PROVE  /\ x \div W \in Words /\ x % W \in 0 .. W - 1
         /\ x = ((x \div W) * W) + (x % W)
<1>1. x \in Nat /\ x <= MaxPriority
  BY WordSizes DEF Priorities
<1>2. x \div W \in Nat /\ x \div W <= MaxPriority \div W
  BY <1>1, WordSizes, DivMod, DivGrows
<1>3. x \div W \in Words
  BY <1>2, WordSizes DEF Words
<1> QED
  BY <1>1, <1>3, WordSizes, DivMod

LEMMA ConvertedProps ==
  /\ \A p \in Priorities : Converted(p) \in Priorities /\ Converted(Converted(p)) = p
  /\ \A p, r \in Priorities : MoreUrgent(p, r) <=> Converted(p) < Converted(r)
BY WordSizes DEF Converted, Priorities, MoreUrgent

LEMMA InTableByBits ==
  ASSUME NEW t
  PROVE  /\ InTable(t) \subseteq Priorities
         /\ \A p \in Priorities : p \in InTable(t) <=> Converted(p) \in Bits(t)
BY ConvertedProps DEF InTable, Bits

LEMMA TableInsertProps ==
  ASSUME NEW t, Clean(t), NEW p \in Priorities
  PROVE  Clean(TableInsert(t, p)) /\ InTable(TableInsert(t, p)) = InTable(t) \cup {p}
<1> DEFINE u == TableInsert(t, p)
<1>1. PICK x \in Priorities, w \in Words, b \in 0 .. W - 1 :
        /\ x = Converted(p) /\ w = x \div W /\ b = x % W /\ x = (w * W) + b
  BY ConvertedProps, PlaceOfBit
<1>2. u = [t EXCEPT ![w] = t[w] \cup {b}] /\ t \in Table
  BY <1>1 DEF TableInsert, Clean
<1>3. u \in Table /\ \A i \in Words : u[i] = IF i = w THEN t[w] \cup {b} ELSE t[i]
  <2>1. t \in [Words -> SUBSET (0 .. W - 1)] /\ t[w] \cup {b} \in SUBSET (0 .. W - 1)
    BY <1>1, <1>2 DEF Table
  <2>2. PICK word \in SUBSET (0 .. W - 1) : word = t[w] \cup {b}
    BY <2>1
  <2>3. u = [t EXCEPT ![w] = word]
    BY <1>2, <2>2
  <2> HIDE DEF u
  <2>4. u \in [Words -> SUBSET (0 .. W - 1)] /\ \A i \in Words : u[i] = IF i = w THEN word ELSE t[i]
    BY <1>1, <2>1, <2>3
  <2> QED
    BY <2>2, <2>4 DEF Table
<1>4. x <= MaxPriority
  BY WordSizes DEF Priorities
<1>5. Clean(u)
  BY <1>1, <1>3, <1>4 DEF Clean
<1>6. Bits(u) = Bits(t) \cup {x}
  <2> SUFFICES ASSUME NEW y \in Priorities
               PROVE  y \in Bits(u) <=> y \in Bits(t) \/ y = x
    BY DEF Bits
  <2>1. y \div W \in Words /\ y = ((y \div W) * W) + (y % W)
    BY PlaceOfBit
  <2>2. y \div W = w /\ y % W = b <=> y = x
    BY <1>1, <2>1
  <2> QED
    BY <1>3, <2>1, <2>2 DEF Bits
<1>7. \A r \in Priorities : Converted(r) = x <=> r = p
  BY <1>1, ConvertedProps
<1>8. InTable(u) = InTable(t) \cup {p}
  <2> HIDE DEF u
  <2>1. InTable(u) \subseteq Priorities /\ InTable(t) \subseteq Priorities
    BY InTableByBits
  <2>2. ASSUME NEW r \in Priorities PROVE r \in InTable(u) <=> r \in InTable(t) \/ r = p
    <3>1. /\ r \in InTable(u) <=> Converted(r) \in Bits(u)
          /\ r \in InTable(t) <=> Converted(r) \in Bits(t)
      BY InTableByBits
    <3> QED
      BY <3>1, <1>6, <1>7
  <2> QED
    BY <2>1, <2>2
<1> QED
  BY <1>5, <1>8

LEMMA TableRemoveProps ==
  ASSUME NEW t, Clean(t), NEW p \in Priorities
  PROVE  Clean(TableRemove(t, p)) /\ InTable(TableRemove(t, p)) = InTable(t) \ {p}
<1> DEFINE u == TableRemove(t, p)
<1>1. PICK x \in Priorities, w \in Words, b \in 0 .. W - 1 :
        /\ x = Converted(p) /\ w = x \div W /\ b = x % W /\ x = (w * W) + b
  BY ConvertedProps, PlaceOfBit
<1>2. u = [t EXCEPT ![w] = t[w] \ {b}] /\ t \in Table
  BY <1>1 DEF TableRemove, Clean
<1>3. u \in Table /\ \A i \in Words : u[i] = IF i = w THEN t[w] \ {b} ELSE t[i]
  BY <1>1, <1>2 DEF Table
<1>4. Clean(u)
  BY <1>3 DEF Clean
<1>5. Bits(u) = Bits(t) \ {x}
  <2> SUFFICES ASSUME NEW y \in Priorities
               PROVE  y \in Bits(u) <=> y \in Bits(t) /\ y # x
    BY DEF Bits
  <2>1. y \div W \in Words /\ y = ((y \div W) * W) + (y % W)
    BY PlaceOfBit
  <2>2. y \div W = w /\ y % W = b <=> y = x
    BY <1>1, <2>1
  <2> QED
    BY <1>3, <2>1, <2>2 DEF Bits
<1>6. \A r \in Priorities : Converted(r) = x <=> r = p
  BY <1>1, ConvertedProps
<1>7. InTable(u) = InTable(t) \ {p}
  <2> HIDE DEF u
  <2>1. InTable(u) \subseteq Priorities /\ InTable(t) \subseteq Priorities
    BY InTableByBits
  <2>2. ASSUME NEW r \in Priorities PROVE r \in InTable(u) <=> r \in InTable(t) /\ r # p
    <3>1. /\ r \in InTable(u) <=> Converted(r) \in Bits(u)
          /\ r \in InTable(t) <=> Converted(r) \in Bits(t)
      BY InTableByBits
    <3> QED
      BY <3>1, <1>5, <1>6
  <2> QED
    BY <2>1, <2>2
<1> QED
  BY <1>4, <1>7

LEMMA ZeroTableProps == Clean(ZeroTable) /\ InTable(ZeroTable) = {}
<1>1. ZeroTable \in Table /\ \A i \in Words : ZeroTable[i] = {}
  BY DEF ZeroTable, Table
<1>2. \A p \in Priorities : Converted(p) \div W \in Words
  BY ConvertedProps, PlaceOfBit
<1> QED
  BY <1>1, <1>2 DEF Clean, InTable

(* A bit in an earlier word, or earlier in the same word, has the smaller  *)
(* index.                                                                  *)
LEMMA EarlierBit ==
  ASSUME NEW i \in Nat, NEW c \in 0 .. W - 1, NEW y \in Nat,
         i < y \div W \/ (i = y \div W /\ c <= y % W)
  PROVE  (i * W) + c <= y
<1>1. (i * W) + c \in Nat /\ ((i * W) + c) \div W = i
  BY WordSizes, DivModOf
<1>2. y \div W \in Nat /\ y % W \in 0 .. W - 1 /\ y = ((y \div W) * W) + (y % W)
  BY WordSizes, DivMod
<1>3. CASE i < y \div W
  <2>1. PICK e \in Nat : e = (i * W) + c
    BY <1>1
  <2>2. ASSUME y <= e PROVE FALSE
    <3>1. y \div W <= i
      BY <1>1, <2>1, <2>2, WordSizes, DivGrows
    <3> QED
      BY <1>2, <1>3, <3>1
  <2>3. e <= y
    BY <2>2
  <2> QED
    BY <2>1, <2>3
<1>4. CASE i = y \div W /\ c <= y % W
  <2>1. PICK m, b : m = i * W /\ b = y % W
    OBVIOUS
  <2>2. m \in Nat /\ b \in Nat /\ c \in Nat /\ y = m + b
    BY <1>2, <1>4, <2>1, WordSizes
  <2> QED
    BY <1>4, <2>1, <2>2
<1> QED
  BY <1>3, <1>4

LEMMA LaterBit ==
  ASSUME NEW i \in Nat, NEW c \in 0 .. W - 1, NEW y \in Nat,
         y \div W < i \/ (i = y \div W /\ y % W <= c)
  PROVE  y <= (i * W) + c
<1>1. (i * W) + c \in Nat /\ ((i * W) + c) \div W = i
  BY WordSizes, DivModOf
<1>2. y \div W \in Nat /\ y % W \in 0 .. W - 1 /\ y = ((y \div W) * W) + (y % W)
  BY WordSizes, DivMod
<1>3. CASE y \div W < i
  <2>1. PICK e \in Nat : e = (i * W) + c
    BY <1>1
  <2>2. ASSUME e <= y PROVE FALSE
    <3>1. i <= y \div W
      BY <1>1, <2>1, <2>2, WordSizes, DivGrows
    <3> QED
      BY <1>2, <1>3, <3>1
  <2>3. y <= e
    BY <2>2
  <2> QED
    BY <2>1, <2>3
<1>4. CASE i = y \div W /\ y % W <= c
  <2>1. PICK m, b : m = i * W /\ b = y % W
    OBVIOUS
  <2>2. m \in Nat /\ b \in Nat /\ c \in Nat /\ y = m + b
    BY <1>2, <1>4, <2>1, WordSizes
  <2> QED
    BY <1>4, <2>1, <2>2
<1> QED
  BY <1>3, <1>4

(* The scans from both ends come to the first and the last bit. *)
LEMMA ScanBits ==
  ASSUME NEW t, Clean(t), Bits(t) # {} \/ NonZero(t) # {}
  PROVE  /\ NonZero(t) # {} /\ Bits(t) # {}
         /\ HighestIndex(t) \in Bits(t) /\ HighestIndex(t) <= MaxPriority
         /\ LowestIndex(t) \in Bits(t) /\ LowestIndex(t) <= MaxPriority
         /\ \A y \in Bits(t) : HighestIndex(t) <= y /\ y <= LowestIndex(t)
<1>1. /\ \A i \in Words : t[i] \in SUBSET (0 .. W - 1)
      /\ NonZero(t) \in SUBSET (0 .. MaxPriority \div W)
      /\ \A y \in Bits(t) : y \in Nat /\ y \div W \in NonZero(t) /\ y % W \in t[y \div W]
      /\ W - 1 \in Nat /\ NonZero(t) \in SUBSET Nat
  <2>1. \A i \in Words : t[i] \in SUBSET (0 .. W - 1)
    BY DEF Clean, Table
  <2>2. NonZero(t) \in SUBSET (0 .. MaxPriority \div W) /\ NonZero(t) \in SUBSET Nat
    BY WordSizes DEF NonZero, Words
  <2>3. \A y \in Bits(t) : y \in Nat /\ y \div W \in NonZero(t) /\ y % W \in t[y \div W]
    BY PlaceOfBit, WordSizes DEF Bits, NonZero
  <2> QED
    BY <2>1, <2>2, <2>3, WordSizes
<1>2. NonZero(t) # {}
  BY <1>1
<1>3. PICK i \in NonZero(t) : i = Min(NonZero(t)) /\ \A n \in NonZero(t) : i <= n
  BY <1>1, <1>2, MinProps
<1>4. PICK j \in NonZero(t) : j = Max(NonZero(t)) /\ \A n \in NonZero(t) : n <= j
  BY <1>1, <1>2, WordSizes, MaxProps
<1>5. /\ i \in Words /\ i \in Nat /\ t[i] # {} /\ t[i] \in SUBSET (0 .. W - 1)
      /\ j \in Words /\ j \in Nat /\ t[j] # {} /\ t[j] \in SUBSET (0 .. W - 1)
      /\ t[i] \in SUBSET Nat
  BY <1>1, WordSizes DEF NonZero
<1>6. PICK c \in t[i] : c = Min(t[i]) /\ \A n \in t[i] : c <= n
  BY <1>5, MinProps
<1>7. PICK d \in t[j] : d = Max(t[j]) /\ \A n \in t[j] : n <= d
  BY <1>1, <1>5, MaxProps
<1>8. c \in 0 .. W - 1 /\ d \in 0 .. W - 1
  BY <1>5
<1>9. HighestIndex(t) = (i * W) + c
  BY <1>3, <1>6 DEF HighestIndex, LeadZeros
<1>10. LowestIndex(t) = (j * W) + d
  <2>1. LowestIndex(t) = (j * W) + (W - (W - 1 - d)) - 1
    BY <1>4, <1>7 DEF LowestIndex, RearZeros
  <2>2. (W - (W - 1 - d)) - 1 = d /\ j * W \in Nat
    BY <1>5, <1>8, WordSizes
  <2> QED
    BY <1>5, <1>8, <2>1, <2>2, WordSizes
<1>11. /\ (i * W) + c \in Nat /\ ((i * W) + c) \div W = i /\ ((i * W) + c) % W = c
       /\ (j * W) + d \in Nat /\ ((j * W) + d) \div W = j /\ ((j * W) + d) % W = d
  BY <1>5, <1>8, WordSizes, DivModOf
<1>12. (i * W) + c <= MaxPriority /\ (j * W) + d <= MaxPriority
  BY <1>5 DEF Clean
<1>13. (i * W) + c \in Bits(t) /\ (j * W) + d \in Bits(t)
  BY <1>11, <1>12, WordSizes DEF Bits, Priorities
<1>14. ASSUME NEW y \in Bits(t) PROVE (i * W) + c <= y /\ y <= (j * W) + d
  <2>1. y \in Nat /\ y \div W \in NonZero(t) /\ y % W \in t[y \div W]
    BY <1>1
  <2>2. i <= y \div W /\ y \div W <= j /\ y \div W \in Nat
    BY <1>1, <1>3, <1>4, <2>1
  <2>3. i < y \div W \/ (i = y \div W /\ c <= y % W)
    BY <1>5, <1>6, <2>1, <2>2
  <2>4. y \div W < j \/ (j = y \div W /\ y % W <= d)
    BY <1>5, <1>7, <2>1, <2>2
  <2> QED
    BY <1>5, <1>8, <2>1, <2>3, <2>4, EarlierBit, LaterBit
<1> QED
  BY <1>2, <1>9, <1>10, <1>12, <1>13, <1>14

LEMMA ScanTable ==
  ASSUME NEW t, Clean(t), InTable(t) # {} \/ HasHighest(t)
  PROVE  /\ InTable(t) # {}
         /\ HasHighest(t) /\ Highest(t) \in InTable(t) /\ Highest(t) = MostUrgent(InTable(t))
         /\ HasLowest(t) /\ Lowest(t) = LeastUrgent(InTable(t))
         /\ \A r \in InTable(t) \ {Highest(t)} : MoreUrgent(Highest(t), r)
<1>1. Bits(t) # {} \/ NonZero(t) # {}
  BY InTableByBits DEF HasHighest
<1>2. PICK x \in Bits(t), z \in Bits(t) :
        /\ x = HighestIndex(t) /\ z = LowestIndex(t) /\ x <= MaxPriority /\ z <= MaxPriority
        /\ \A y \in Bits(t) : x <= y /\ y <= z
  BY <1>1, ScanBits
<1>3. /\ HasHighest(t) /\ HasLowest(t)
      /\ Highest(t) = Converted(x) /\ Lowest(t) = Converted(z)
  BY <1>1, <1>2, ScanBits DEF HasHighest, HasLowest, Highest, Lowest
<1>4. x \in Priorities /\ z \in Priorities
  BY DEF Bits
<1>5. PICK p \in Priorities, q \in Priorities :
        p = Converted(x) /\ q = Converted(z) /\ Converted(p) = x /\ Converted(q) = z
  BY <1>4, ConvertedProps
<1>6. p \in InTable(t) /\ q \in InTable(t)
  BY <1>5, InTableByBits
<1>7. ASSUME NEW r \in InTable(t) \ {p} PROVE MoreUrgent(p, r) /\ ~MoreUrgent(r, p)
  <2>1. r \in Priorities /\ Converted(r) \in Bits(t) /\ Converted(r) # x
    BY <1>5, InTableByBits, ConvertedProps
  <2>2. Converted(r) \in Nat /\ x \in Nat /\ x <= Converted(r)
    BY <1>2, <1>4, <2>1, WordSizes, ConvertedProps
  <2> QED
    BY <1>5, <2>1, <2>2, ConvertedProps
<1>8. ASSUME NEW r \in InTable(t) \ {q} PROVE MoreUrgent(r, q) /\ ~MoreUrgent(q, r)
  <2>1. r \in Priorities /\ Converted(r) \in Bits(t) /\ Converted(r) # z
    BY <1>5, InTableByBits, ConvertedProps
  <2>2. Converted(r) \in Nat /\ z \in Nat /\ Converted(r) <= z
    BY <1>2, <1>4, <2>1, WordSizes, ConvertedProps
  <2> QED
    BY <1>5, <2>1, <2>2, ConvertedProps
<1>9. MostUrgent(InTable(t)) = p
  <2>1. \A s \in InTable(t) : (\A r \in InTable(t) \ {s} : MoreUrgent(s, r)) => s = p
    BY <1>6, <1>7
  <2> QED
    BY <1>6, <1>7, <2>1 DEF MostUrgent
<1>10. LeastUrgent(InTable(t)) = q
  <2>1. \A s \in InTable(t) : (\A r \in InTable(t) \ {s} : MoreUrgent(r, s)) => s = q
    BY <1>6, <1>8
  <2> QED
    BY <1>6, <1>8, <2>1 DEF LeastUrgent
<1> QED
  BY <1>3, <1>5, <1>6, <1>7, <1>9, <1>10

-----------------------------------------------------------------------------
(* The chains of all buckets together.  Tidy is said of constants, so that *)
(* a state and the next one are two instances of it.                       *)
BucketNumbers == 0 .. Buckets - 1

WalksOf(w, hd, nx) == /\ w = [b \in BucketNumbers |-> w[b]]
                      /\ \A b \in BucketNumbers : IsWalk(w[b], hd[b], nx)
In(w) == UNION {Visited(w[b]) : b \in BucketNumbers}

Tidy(w, hd, nx, fr, pr) ==
  /\ hd \in [BucketNumbers -> MaybeNode] /\ nx \in [Nodes -> MaybeNode]
  /\ fr \in [Nodes -> BOOLEAN] /\ pr \in [Nodes -> Priorities]
  /\ WalksOf(w, hd, nx)
  /\ \A b \in BucketNumbers :
       /\ w[b][MaxNodeCount] = NoNode
       /\ \A n \in Visited(w[b]) : n \in Nodes /\ ~fr[n] /\ pr[n] % Buckets = b
  /\ \A m, n \in In(w) : pr[m] = pr[n] => m = n

LEMMA BucketOf ==
  /\ Buckets \in Nat \ {0}
  /\ \A p \in Nat : p % Buckets \in BucketNumbers
  /\ \A b \in BucketNumbers : b \in Nat /\ b % Buckets = b
<1>1. Buckets \in Nat \ {0}
  BY PriorityQueueAssumption
<1>2. \A p \in Nat : p % Buckets \in BucketNumbers
  BY <1>1, DivMod DEF BucketNumbers
<1>3. ASSUME NEW b \in BucketNumbers PROVE b \in Nat /\ b % Buckets = b
  BY <1>1 DEF BucketNumbers
<1> QED
  BY <1>1, <1>2, <1>3

LEMMA SomeVisited ==
  ASSUME NEW f, NEW n
  PROVE  n \in Visited(f) <=> n # NoNode /\ \E k \in Steps : f[k] = n
BY DEF Visited

LEMMA SomeIn ==
  ASSUME NEW w, NEW n
  PROVE  n \in In(w) <=> \E b \in BucketNumbers : n \in Visited(w[b])
BY DEF In

(* A change of one chain, from f to g, with the others left alone. *)
Changing(b, f, g, w, hd, nx, fr, pr, hd2, mx, fr2, pr2) ==
  /\ Tidy(w, hd, nx, fr, pr) /\ b \in BucketNumbers /\ f = w[b]
  /\ hd2 \in [BucketNumbers -> MaybeNode] /\ mx \in [Nodes -> MaybeNode]
  /\ fr2 \in [Nodes -> BOOLEAN] /\ pr2 \in [Nodes -> Priorities]
  /\ IsWalk(g, hd2[b], mx) /\ g[MaxNodeCount] = NoNode
  /\ \A c \in BucketNumbers \ {b} :
       /\ hd2[c] = hd[c]
       /\ \A n \in Visited(w[c]) : mx[n] = nx[n] /\ fr2[n] = fr[n] /\ pr2[n] = pr[n]
  /\ \A n \in Visited(g) : n \in Nodes /\ ~fr2[n] /\ pr2[n] % Buckets = b
  /\ \A m, n \in Visited(g) : pr2[m] = pr2[n] => m = n

LEMMA OneChainChanges ==
  ASSUME NEW b, NEW f, NEW g, NEW w, NEW hd, NEW nx, NEW fr, NEW pr,
         NEW hd2, NEW mx, NEW fr2, NEW pr2,
         Changing(b, f, g, w, hd, nx, fr, pr, hd2, mx, fr2, pr2)
  PROVE  \E w2 : /\ Tidy(w2, hd2, mx, fr2, pr2)
                 /\ In(w2) = (In(w) \ Visited(f)) \cup Visited(g)
<1> USE DEF Changing
<1> DEFINE w2 == [w EXCEPT ![b] = g]
<1>1. /\ w2 = [c \in BucketNumbers |-> w2[c]] /\ w2[b] = g
      /\ \A c \in BucketNumbers \ {b} : w2[c] = w[c]
  BY DEF Tidy, WalksOf
<1> HIDE DEF w2
<1>2. ASSUME NEW c \in BucketNumbers \ {b}
      PROVE  /\ IsWalk(w2[c], hd2[c], mx) /\ w2[c][MaxNodeCount] = NoNode
             /\ \A n \in Visited(w2[c]) : /\ n \in Visited(w[c]) /\ n \in Nodes
                                          /\ ~fr2[n] /\ pr2[n] = pr[n] /\ pr2[n] % Buckets = c
  <2>1. /\ IsWalk(w[c], hd[c], nx) /\ w[c][MaxNodeCount] = NoNode
        /\ \A n \in Visited(w[c]) : n \in Nodes /\ ~fr[n] /\ pr[n] % Buckets = c
    BY DEF Tidy, WalksOf
  <2>2. \A k \in Steps : w[c][k] # NoNode => mx[w[c][k]] = nx[w[c][k]]
    BY DEF Visited
  <2>3. IsWalk(w[c], hd[c], mx)
    BY <2>1, <2>2, WalkElsewhere
  <2> QED
    BY <1>1, <2>1, <2>3
<1>3. WalksOf(w2, hd2, mx)
  BY <1>1, <1>2 DEF WalksOf
<1>4. ASSUME NEW c \in BucketNumbers
      PROVE  /\ w2[c][MaxNodeCount] = NoNode
             /\ \A n \in Visited(w2[c]) : n \in Nodes /\ ~fr2[n] /\ pr2[n] % Buckets = c
  BY <1>1, <1>2
<1>5. ASSUME NEW m \in In(w2), NEW n \in In(w2), pr2[m] = pr2[n] PROVE m = n
  <2>1. PICK c \in BucketNumbers, d \in BucketNumbers :
          m \in Visited(w2[c]) /\ n \in Visited(w2[d])
    BY <1>5, SomeIn
  <2>2. c = d
    BY <1>4, <1>5, <2>1
  <2>3. CASE c = b
    BY <1>1, <1>5, <2>1, <2>2, <2>3
  <2>4. CASE c # b
    <3>1. /\ m \in Visited(w[c]) /\ n \in Visited(w[c])
          /\ pr2[m] = pr[m] /\ pr2[n] = pr[n]
      BY <1>2, <2>1, <2>2, <2>4
    <3>2. m \in In(w) /\ n \in In(w)
      BY <3>1, SomeIn
    <3> QED
      BY <1>5, <3>1, <3>2 DEF Tidy
  <2> QED
    BY <2>3, <2>4
<1>6. Tidy(w2, hd2, mx, fr2, pr2)
  BY <1>3, <1>4, <1>5 DEF Tidy
<1>7. In(w2) = (In(w) \ Visited(w[b])) \cup Visited(g)
  <2>1. ASSUME NEW c \in BucketNumbers \ {b}, NEW n \in Visited(w[c]) PROVE n \notin Visited(w[b])
    <3>1. pr[n] % Buckets = c
      BY DEF Tidy
    <3> QED
      BY <3>1 DEF Tidy
  <2>2. ASSUME NEW n PROVE n \in In(w2) <=> (n \in In(w) /\ n \notin Visited(w[b])) \/ n \in Visited(g)
    BY <1>1, <2>1, SomeIn
  <2> QED
    BY <2>2
<1> QED
  BY <1>6, <1>7

(* A node from the pool, at the end of the chain of its priority. *)
Adding(p, i, b, f, w, hd, nx, fr, pr, hd2, mx, fr2, pr2) ==
  /\ Tidy(w, hd, nx, fr, pr)
  /\ p \in Priorities /\ \A n \in In(w) : pr[n] # p
  /\ i \in Nodes /\ fr[i] /\ b = p % Buckets /\ f = w[b]
  /\ fr2 = [fr EXCEPT ![i] = FALSE] /\ pr2 = [pr EXCEPT ![i] = p]
  /\ \/ hd[b] = NoNode /\ hd2 = [hd EXCEPT ![b] = i] /\ mx = [nx EXCEPT ![i] = NoNode]
     \/ /\ hd2 = hd
        /\ \E m \in Steps : /\ f[m] # NoNode /\ nx[f[m]] = NoNode
                            /\ mx = [nx EXCEPT ![i] = NoNode, ![f[m]] = i]

LEMMA AddTidy ==
  ASSUME NEW p, NEW i, NEW b, NEW f, NEW w, NEW hd, NEW nx, NEW fr, NEW pr,
         NEW hd2, NEW mx, NEW fr2, NEW pr2,
         Adding(p, i, b, f, w, hd, nx, fr, pr, hd2, mx, fr2, pr2)
  PROVE  \E w2 : Tidy(w2, hd2, mx, fr2, pr2) /\ In(w2) = In(w) \cup {i}
<1> USE DEF Adding
<1>0. b \in BucketNumbers /\ p \in Nat
  BY BucketOf, WordSizes
<1>a. PICK h, h2 : h = hd[b] /\ h2 = hd2[b]
  OBVIOUS
<1>1. /\ hd \in [BucketNumbers -> MaybeNode] /\ nx \in [Nodes -> MaybeNode]
      /\ fr \in [Nodes -> BOOLEAN] /\ pr \in [Nodes -> Priorities]
      /\ IsWalk(f, h, nx) /\ f[MaxNodeCount] = NoNode /\ h \in MaybeNode
  BY <1>0, <1>a DEF Tidy, WalksOf
<1>2. \A n \in In(w) : n \in Nodes /\ n # i
  <2>1. \A c \in BucketNumbers : \A n \in Visited(w[c]) : n \in Nodes /\ ~fr[n]
    BY DEF Tidy
  <2> QED
    BY <2>1, SomeIn
<1>3. \A c \in BucketNumbers : \A n \in Visited(w[c]) : n \in In(w)
  BY SomeIn
<1>4. i \notin Visited(f)
  BY <1>0, <1>2, <1>3
<1> DEFINE Grown(g) == /\ IsWalk(g, h2, mx) /\ g[MaxNodeCount] = NoNode
                       /\ Visited(g) = Visited(f) \cup {i}
                       /\ hd2 \in [BucketNumbers -> MaybeNode]
                       /\ mx \in [Nodes -> MaybeNode]
                       /\ \A c \in BucketNumbers \ {b} : hd2[c] = hd[c]
                       /\ \A n \in Nodes : n # i /\ n \notin Visited(f) => mx[n] = nx[n]
<1>5. PICK g : Grown(g)
  <2>1. CASE hd[b] = NoNode /\ hd2 = [hd EXCEPT ![b] = i] /\ mx = [nx EXCEPT ![i] = NoNode]
    <3>1. h2 = i /\ mx[i] = NoNode
      BY <1>0, <1>1, <1>a, <2>1
    <3>2. PICK g : /\ IsWalk(g, i, mx) /\ g[MaxNodeCount] = NoNode /\ Visited(g) = {i}
      BY <3>1, LinkFirst
    <3>3. Visited(f) = {}
      <4>1. f[0] = NoNode /\ 0 \in Steps /\ \A k \in Steps : 0 <= k
        BY <1>1, <1>a, <2>1, WalkSteps, StepsAreNumbers DEF Steps
      <4>2. \A k \in Steps : f[k] = NoNode
        BY <1>1, <4>1, WalkStops
      <4> QED
        BY <4>2 DEF Visited
    <3>4. hd2 \in [BucketNumbers -> MaybeNode] /\ mx \in [Nodes -> MaybeNode]
      BY <1>1, <2>1 DEF MaybeNode
    <3>5. \A n \in Nodes : n # i => mx[n] = nx[n]
      BY <1>1, <2>1
    <3>6. \A c \in BucketNumbers \ {b} : hd2[c] = hd[c]
      BY <1>1, <2>1
    <3>7. Grown(g)
      BY <3>1, <3>2, <3>3, <3>4, <3>5, <3>6
    <3> QED
      BY <3>7
  <2>2. ASSUME hd2 = hd, NEW m \in Steps, f[m] # NoNode, nx[f[m]] = NoNode,
               mx = [nx EXCEPT ![i] = NoNode, ![f[m]] = i]
        PROVE  \E g : Grown(g)
    <3>1. PICK g : /\ IsWalk(g, h, mx) /\ g[MaxNodeCount] = NoNode
                   /\ Visited(g) = Visited(f) \cup {i}
      <4>1. Linking(f, h, nx, i, m, mx)
        BY <1>1, <1>4, <2>2 DEF Linking
      <4> QED
        BY <4>1, LinkAtEnd
    <3>2. f[m] \in Visited(f)
      BY <2>2, SomeVisited
    <3>3. mx \in [Nodes -> MaybeNode]
      BY <1>1, <2>2 DEF MaybeNode
    <3>4. \A n \in Nodes : n # i /\ n \notin Visited(f) => mx[n] = nx[n]
      BY <1>1, <2>2, <3>2
    <3>5. Grown(g)
      BY <1>1, <1>a, <2>2, <3>1, <3>3, <3>4
    <3> QED
      BY <3>5
  <2> HIDE DEF Grown
  <2> QED
    BY <2>1, <2>2
<1>6. /\ fr2 \in [Nodes -> BOOLEAN] /\ fr2[i] = FALSE
      /\ \A n \in Nodes : n # i => fr2[n] = fr[n]
  BY <1>1
<1>7. /\ pr2 \in [Nodes -> Priorities] /\ pr2[i] = p
      /\ \A n \in Nodes : n # i => pr2[n] = pr[n]
  BY <1>1
<1>8. \A n \in Visited(f) : n \in Nodes /\ n # i /\ ~fr[n] /\ pr[n] % Buckets = b
  BY <1>0, <1>2, <1>3 DEF Tidy
<1>9. \A n \in Visited(g) : n \in Nodes /\ ~fr2[n] /\ pr2[n] % Buckets = b
  BY <1>5, <1>6, <1>7, <1>8
<1>10. \A m, n \in Visited(g) : pr2[m] = pr2[n] => m = n
  <2>1. \A n \in Visited(f) : n \in In(w) /\ pr2[n] = pr[n] /\ pr[n] # p
    BY <1>0, <1>3, <1>7, <1>8
  <2> QED
    BY <1>5, <1>7, <2>1 DEF Tidy
<1>11. \A c \in BucketNumbers \ {b} : \A n \in Visited(w[c]) :
         mx[n] = nx[n] /\ fr2[n] = fr[n] /\ pr2[n] = pr[n]
  <2> SUFFICES ASSUME NEW c \in BucketNumbers \ {b}, NEW n \in Visited(w[c])
      PROVE mx[n] = nx[n] /\ fr2[n] = fr[n] /\ pr2[n] = pr[n]
    OBVIOUS
  <2>1. n \in Nodes /\ n # i /\ pr[n] % Buckets = c
    BY <1>2, <1>3 DEF Tidy
  <2>2. n \notin Visited(f)
    BY <1>8, <2>1
  <2> QED
    BY <1>5, <1>6, <1>7, <2>1, <2>2
<1>12. /\ hd2 \in [BucketNumbers -> MaybeNode] /\ mx \in [Nodes -> MaybeNode]
       /\ IsWalk(g, h2, mx) /\ g[MaxNodeCount] = NoNode
       /\ \A c \in BucketNumbers \ {b} : hd2[c] = hd[c]
       /\ Visited(g) = Visited(f) \cup {i}
  BY <1>5
<1> HIDE DEF Grown
<1>13. PICK w2 : /\ Tidy(w2, hd2, mx, fr2, pr2)
                 /\ In(w2) = (In(w) \ Visited(f)) \cup Visited(g)
  <2>1. Changing(b, f, g, w, hd, nx, fr, pr, hd2, mx, fr2, pr2)
    BY <1>0, <1>a, <1>6, <1>7, <1>9, <1>10, <1>11, <1>12 DEF Changing
  <2> QED
    BY <2>1, OneChainChanges
<1>14. \A n \in Visited(f) : n \in In(w)
  BY <1>0, <1>3
<1>15. In(w2) = In(w) \cup {i}
  BY <1>12, <1>13, <1>14
<1> QED
  BY <1>13, <1>15

(* A node that leaves its chain, from the head or from behind another one. *)
Removing(k, i, b, f, w, hd, nx, fr, pr, hd2, mx, fr2) ==
  /\ Tidy(w, hd, nx, fr, pr) /\ b \in BucketNumbers /\ f = w[b]
  /\ k \in Steps /\ i = f[k] /\ i # NoNode
  /\ fr2 = [fr EXCEPT ![i] = TRUE]
  /\ IF k = 0 THEN hd2 = [hd EXCEPT ![b] = nx[i]] /\ mx = [nx EXCEPT ![i] = NoNode]
     ELSE hd2 = hd /\ mx = [nx EXCEPT ![f[k - 1]] = nx[i], ![i] = NoNode]

LEMMA RemoveTidy ==
  ASSUME NEW k, NEW i, NEW b, NEW f, NEW w, NEW hd, NEW nx, NEW fr, NEW pr,
         NEW hd2, NEW mx, NEW fr2, Removing(k, i, b, f, w, hd, nx, fr, pr, hd2, mx, fr2)
  PROVE  \E w2 : Tidy(w2, hd2, mx, fr2, pr) /\ In(w2) = In(w) \ {i}
<1> USE DEF Removing
<1>a. PICK h, h2, pr2 : h = hd[b] /\ h2 = hd2[b] /\ pr2 = pr
  OBVIOUS
<1>1. /\ hd \in [BucketNumbers -> MaybeNode] /\ nx \in [Nodes -> MaybeNode]
      /\ fr \in [Nodes -> BOOLEAN] /\ pr2 \in [Nodes -> Priorities]
      /\ IsWalk(f, h, nx) /\ f[MaxNodeCount] = NoNode /\ h \in MaybeNode
  BY <1>a DEF Tidy, WalksOf
<1>2. i \in Visited(f) /\ 0 \in Steps
  BY SomeVisited, StepsAreNumbers DEF Steps
<1>3. \A n \in Visited(f) : n \in Nodes /\ ~fr[n] /\ pr[n] % Buckets = b
  BY DEF Tidy
<1>4. i \in Nodes /\ nx[i] \in MaybeNode
  BY <1>1, <1>2, <1>3
<1>5. k # 0 => f[k - 1] \in Visited(f)
  <2>1. k # 0 => k - 1 \in Steps /\ f[k - 1] # NoNode
    BY <1>1, WalkSteps
  <2> QED
    BY <2>1, SomeVisited
<1>6. /\ hd2 \in [BucketNumbers -> MaybeNode] /\ mx \in [Nodes -> MaybeNode]
      /\ \A c \in BucketNumbers \ {b} : hd2[c] = hd[c]
      /\ \A n \in Nodes : n \notin Visited(f) => mx[n] = nx[n]
  <2>1. CASE k = 0
    <3>1. hd2 = [hd EXCEPT ![b] = nx[i]] /\ mx = [nx EXCEPT ![i] = NoNode]
      BY <2>1
    <3> QED
      BY <1>1, <1>2, <1>4, <3>1 DEF MaybeNode
  <2>2. CASE k # 0
    <3>1. hd2 = hd /\ mx = [nx EXCEPT ![f[k - 1]] = nx[i], ![i] = NoNode]
      BY <2>2
    <3>2. PICK j \in Nodes : j = f[k - 1] /\ j \in Visited(f)
      BY <1>3, <1>5, <2>2
    <3> QED
      BY <1>1, <1>2, <1>4, <3>1, <3>2 DEF MaybeNode
  <2> QED
    BY <2>1, <2>2
<1>7. PICK g : /\ IsWalk(g, h2, mx) /\ g[MaxNodeCount] = NoNode
               /\ Visited(g) = Visited(f) \ {i}
  <2>1. IF k = 0 THEN h2 = nx[f[0]] /\ mx = [nx EXCEPT ![f[0]] = NoNode]
        ELSE h2 = h /\ mx = [nx EXCEPT ![f[k - 1]] = nx[f[k]], ![f[k]] = NoNode]
    <3>1. CASE k = 0
      <4>1. hd2 = [hd EXCEPT ![b] = nx[i]] /\ mx = [nx EXCEPT ![i] = NoNode]
        BY <3>1
      <4> QED
        BY <1>1, <1>a, <3>1, <4>1
    <3>2. CASE k # 0
      BY <1>a, <3>2
    <3> QED
      BY <3>1, <3>2
  <2>2. f[k] # NoNode
    OBVIOUS
  <2>3. \E g : /\ IsWalk(g, h2, mx) /\ g[MaxNodeCount] = NoNode
               /\ Visited(g) = Visited(f) \ {f[k]}
    <3>1. Unlinking(f, h, nx, k, h2, mx)
      BY <1>1, <2>1, <2>2 DEF Unlinking
    <3> QED
      BY <3>1, UnlinkAt
  <2> QED
    BY <2>3
<1>8. /\ fr2 \in [Nodes -> BOOLEAN] /\ \A n \in Nodes : n # i => fr2[n] = fr[n]
  BY <1>1
<1>9. \A n \in Visited(g) : n \in Nodes /\ ~fr2[n] /\ pr2[n] % Buckets = b
  BY <1>a, <1>3, <1>7, <1>8
<1>10. \A m, n \in Visited(g) : pr2[m] = pr2[n] => m = n
  <2>1. \A n \in Visited(g) : n \in In(w)
    BY <1>7, SomeIn
  <2> QED
    BY <1>a, <2>1 DEF Tidy
<1>11. \A c \in BucketNumbers \ {b} : \A n \in Visited(w[c]) :
         mx[n] = nx[n] /\ fr2[n] = fr[n] /\ pr2[n] = pr[n]
  <2> SUFFICES ASSUME NEW c \in BucketNumbers \ {b}, NEW n \in Visited(w[c])
      PROVE mx[n] = nx[n] /\ fr2[n] = fr[n]
    BY <1>a
  <2>1. n \in Nodes /\ pr[n] % Buckets = c
    BY DEF Tidy
  <2>2. n \notin Visited(f)
    BY <1>3, <2>1
  <2> QED
    BY <1>2, <1>6, <1>8, <2>1, <2>2
<1>12. PICK w2 : /\ Tidy(w2, hd2, mx, fr2, pr2)
                 /\ In(w2) = (In(w) \ Visited(f)) \cup Visited(g)
  <2>1. Changing(b, f, g, w, hd, nx, fr, pr, hd2, mx, fr2, pr2)
    BY <1>a, <1>1, <1>6, <1>7, <1>8, <1>9, <1>10, <1>11 DEF Changing
  <2> QED
    BY <2>1, OneChainChanges
<1>13. In(w2) = In(w) \ {i}
  <2>1. \A n \in Visited(f) : n \in In(w)
    BY SomeIn
  <2> QED
    BY <1>2, <1>7, <1>12, <2>1
<1> QED
  BY <1>a, <1>12, <1>13

(* A node that is borrowed and given back: no chain goes through it. *)
LEMMA AgainTidy ==
  ASSUME NEW w, NEW hd, NEW nx, NEW fr, NEW pr, Tidy(w, hd, nx, fr, pr),
         NEW p \in Priorities, NEW i \in Nodes, fr[i]
  PROVE  Tidy(w, hd, [nx EXCEPT ![i] = NoNode], fr, [pr EXCEPT ![i] = p])
<1> DEFINE mx == [nx EXCEPT ![i] = NoNode]
           pr2 == [pr EXCEPT ![i] = p]
<1>1. /\ nx \in [Nodes -> MaybeNode] /\ pr \in [Nodes -> Priorities]
      /\ \A c \in BucketNumbers : /\ IsWalk(w[c], hd[c], nx)
                                  /\ \A n \in Visited(w[c]) : n \in Nodes /\ n # i
  BY DEF Tidy, WalksOf
<1>2. /\ mx \in [Nodes -> MaybeNode] /\ \A n \in Nodes : n # i => mx[n] = nx[n]
      /\ pr2 \in [Nodes -> Priorities] /\ \A n \in Nodes : n # i => pr2[n] = pr[n]
  BY <1>1 DEF MaybeNode
<1> HIDE DEF mx, pr2
<1>3. ASSUME NEW c \in BucketNumbers PROVE IsWalk(w[c], hd[c], mx)
  <2>1. \A k \in Steps : w[c][k] # NoNode => mx[w[c][k]] = nx[w[c][k]]
    BY <1>1, <1>2 DEF Visited
  <2> QED
    BY <1>1, <2>1, WalkElsewhere
<1>4. \A n \in In(w) : n \in Nodes /\ n # i /\ pr2[n] = pr[n]
  BY <1>1, <1>2, SomeIn
<1>5. WalksOf(w, hd, mx)
  BY <1>3 DEF Tidy, WalksOf
<1>6. \A c \in BucketNumbers : \A n \in Visited(w[c]) : pr2[n] = pr[n]
  BY <1>1, <1>2
<1>7. \A m, n \in In(w) : pr2[m] = pr2[n] => m = n
  BY <1>4 DEF Tidy
<1>8. Tidy(w, hd, mx, fr, pr2)
  BY <1>2, <1>5, <1>6, <1>7 DEF Tidy
<1> QED
  BY <1>8 DEF mx, pr2

LEMMA LastOfWalk ==
  ASSUME NEW f, NEW h, NEW nx, IsWalk(f, h, nx), f[MaxNodeCount] = NoNode, h # NoNode
  PROVE  \E k \in 0 .. MaxNodeCount - 1 : f[k] # NoNode /\ nx[f[k]] = NoNode
<1> DEFINE End == {n \in Steps : f[n] = NoNode}
<1>1. MaxNodeCount \in Nat /\ MaxNodeCount \in Steps /\ Steps \subseteq Nat
  BY StepsAreNumbers DEF Steps
<1>2. End \in SUBSET Nat /\ End # {}
  BY <1>1
<1>3. PICK e \in End : \A n \in End : e <= n
  <2> HIDE DEF End
  <2> QED
    BY <1>2, LeastElement
<1>4. e # 0 /\ e \in Steps
  BY <1>3, WalkSteps
<1>5. /\ e - 1 \in Steps /\ e - 1 \in 0 .. MaxNodeCount - 1 /\ ~(e <= e - 1)
      /\ f[e] = IF f[e - 1] = NoNode THEN NoNode ELSE nx[f[e - 1]]
  BY <1>1, <1>4, WalkSteps DEF Steps
<1>6. f[e - 1] # NoNode
  BY <1>3, <1>5
<1> QED
  BY <1>3, <1>5, <1>6

(* Where the search for a priority ends: at the one node that has it. *)
StepsOf(f, pr, p) == {k \in 0 .. MaxNodeCount - 1 : f[k] # NoNode /\ pr[f[k]] = p}

Owns(o, w, pr) ==
  /\ o = [p \in Priorities |-> o[p]]
  /\ \A n \in In(w) : o[pr[n]] = n
  /\ \A p \in Priorities : o[p] # NoNode => o[p] \in In(w) /\ pr[o[p]] = p

LEMMA SearchFinds ==
  ASSUME NEW w, NEW hd, NEW nx, NEW fr, NEW pr, Tidy(w, hd, nx, fr, pr),
         NEW p \in Priorities, NEW f, f = w[p % Buckets],
         NEW n, n \in In(w), pr[n] = p
  PROVE  /\ StepsOf(f, pr, p) # {}
         /\ Min(StepsOf(f, pr, p)) \in StepsOf(f, pr, p)
         /\ \A k \in StepsOf(f, pr, p) : f[k] = n
<1>0. p \in Nat /\ p % Buckets \in BucketNumbers /\ MaxNodeCount \in Nat
      /\ Steps \subseteq Nat
  BY WordSizes, BucketOf, StepsAreNumbers
<1>1. PICK c \in BucketNumbers : n \in Visited(w[c])
  BY SomeIn
<1>2. c = p % Buckets
  BY <1>1 DEF Tidy
<1>3. PICK k \in Steps : f[k] = n /\ n # NoNode
  BY <1>1, <1>2, SomeVisited
<1>4. k # MaxNodeCount
  BY <1>0, <1>3 DEF Tidy
<1>5. k \in StepsOf(f, pr, p)
  BY <1>0, <1>3, <1>4 DEF Steps, StepsOf
<1>6. ASSUME NEW j \in StepsOf(f, pr, p) PROVE f[j] = n
  <2>1. j \in Steps /\ f[j] # NoNode /\ pr[f[j]] = p
    BY <1>0 DEF Steps, StepsOf
  <2>2. f[j] \in In(w)
    BY <1>0, <2>1, SomeVisited, SomeIn
  <2> QED
    BY <2>1, <2>2 DEF Tidy
<1>7. StepsOf(f, pr, p) \in SUBSET Nat
  BY <1>0 DEF StepsOf
<1> QED
  BY <1>5, <1>6, <1>7, MinProps

LEMMA SearchFindsNothing ==
  ASSUME NEW w, NEW hd, NEW nx, NEW fr, NEW pr, Tidy(w, hd, nx, fr, pr),
         NEW p \in Priorities, NEW f, f = w[p % Buckets],
         \A n \in In(w) : pr[n] # p
  PROVE  StepsOf(f, pr, p) = {}
<1>0. p \in Nat /\ p % Buckets \in BucketNumbers /\ MaxNodeCount \in Nat
  BY WordSizes, BucketOf, StepsAreNumbers
<1>1. ASSUME NEW j \in StepsOf(f, pr, p) PROVE FALSE
  <2>1. j \in Steps /\ f[j] # NoNode /\ pr[f[j]] = p
    BY <1>0 DEF Steps, StepsOf
  <2>2. f[j] \in In(w)
    BY <1>0, <2>1, SomeVisited, SomeIn
  <2> QED
    BY <2>1, <2>2
<1> QED
  BY <1>1

LEMMA OwnsOnly ==
  ASSUME NEW o, NEW o2, NEW w, NEW pr, Owns(o, w, pr), Owns(o2, w, pr)
  PROVE  o = o2
<1>1. \A p \in Priorities : o[p] = o2[p]
  BY DEF Owns
<1> QED
  BY <1>1 DEF Owns

LEMMA InNodes ==
  ASSUME NEW w, NEW hd, NEW nx, NEW fr, NEW pr, Tidy(w, hd, nx, fr, pr)
  PROVE  /\ In(w) \subseteq Nodes /\ IsFiniteSet(In(w)) /\ Cardinality(In(w)) \in 0 .. MaxNodeCount
         /\ \A n \in In(w) : n \in Nodes /\ n # NoNode /\ ~fr[n] /\ pr[n] \in Priorities
         /\ Cardinality(In(w)) = MaxNodeCount <=> In(w) = Nodes
<1>1. \A n \in In(w) : n \in Nodes /\ ~fr[n] /\ pr[n] \in Priorities
  BY SomeIn DEF Tidy
<1>2. IsFiniteSet(Nodes) /\ Cardinality(Nodes) = MaxNodeCount /\ MaxNodeCount \in Nat
      /\ NoNode \notin Nodes
  BY PoolSize, PriorityQueueAssumption
<1>3. In(w) \subseteq Nodes
  BY <1>1
<1>4. IsFiniteSet(In(w)) /\ Cardinality(In(w)) <= Cardinality(Nodes)
      /\ (Cardinality(In(w)) = Cardinality(Nodes) => In(w) = Nodes)
  BY <1>2, <1>3, FS_Subset
<1>5. Cardinality(In(w)) \in Nat
  BY <1>4, FS_CardinalityType
<1> QED
  BY <1>1, <1>2, <1>3, <1>4, <1>5

-----------------------------------------------------------------------------
(* The walks of a state. *)
Walks == [b \in BucketNumbers |-> Visit(b)]

LEMMA WalksOnly ==
  /\ WalksOf(Walks, head, next)
  /\ \A w : WalksOf(w, head, next) => w = Walks
<1>1. \A b \in BucketNumbers : IsWalk(Visit(b), head[b], next)
  BY VisitIsWalk, BucketOf, Zenon
<1>2. WalksOf(Walks, head, next)
  BY <1>1 DEF WalksOf, Walks
<1>3. ASSUME NEW w, WalksOf(w, head, next) PROVE w = Walks
  <2>1. PICK v, hd, nx : v = Walks /\ hd = head /\ nx = next
    OBVIOUS
  <2>2. WalksOf(v, hd, nx) /\ WalksOf(w, hd, nx)
    BY <1>2, <1>3, <2>1
  <2>3. \A b \in BucketNumbers : w[b] = v[b]
    BY <2>2, WalkUnique DEF WalksOf
  <2> QED
    BY <2>1, <2>2, <2>3 DEF WalksOf
<1> QED
  BY <1>2, <1>3

LEMMA VisitWalks == \A p \in Nat : Visit(p) = Walks[p % Buckets]
<1> SUFFICES ASSUME NEW p \in Nat PROVE Visit(p) = Walks[p % Buckets]
  OBVIOUS
<1>1. PICK f, g, h, nx, b : /\ f = Visit(p) /\ b = p % Buckets /\ g = Visit(b)
                            /\ h = head[b] /\ nx = next
  OBVIOUS
<1>2. b \in BucketNumbers /\ b % Buckets = b
  BY <1>1, BucketOf
<1>3. IsWalk(f, h, nx)
  BY <1>1, VisitIsWalk
<1>4. IsWalk(Visit(b), head[b % Buckets], next)
  BY VisitIsWalk
<1>5. IsWalk(g, h, nx)
  BY <1>1, <1>2, <1>4
<1>6. f = g
  BY <1>3, <1>5, WalkUnique
<1> QED
  BY <1>1, <1>2, <1>6 DEF Walks

LEMMA LinkedNodesAre == LinkedNodes = In(Walks)
<1>1. \A b \in BucketNumbers : Chain(b) = Visited(Walks[b])
  BY DEF Chain, Visited, Walks, Steps
<1> QED
  BY <1>1 DEF LinkedNodes, In, BucketNumbers

LEMMA StepsToPriorityAre ==
  \A p \in Priorities : StepsToPriority(p) = StepsOf(Walks[p % Buckets], priority, p)
<1> SUFFICES ASSUME NEW p \in Priorities
             PROVE  StepsToPriority(p) = StepsOf(Walks[p % Buckets], priority, p)
  OBVIOUS
<1>1. Visit(p) = Walks[p % Buckets]
  BY VisitWalks, WordSizes
<1> QED
  BY <1>1 DEF StepsToPriority, StepsTo, StepsOf

LEMMA OwnerIs ==
  Tidy(Walks, head, next, isFree, priority) => Owns(Owner, Walks, priority)
<1> SUFFICES ASSUME Tidy(Walks, head, next, isFree, priority)
             PROVE  Owns(Owner, Walks, priority)
  OBVIOUS
<1>1. PICK w, hd, nx, fr, pr, o :
        w = Walks /\ hd = head /\ nx = next /\ fr = isFree /\ pr = priority /\ o = Owner
  OBVIOUS
<1>2. Tidy(w, hd, nx, fr, pr)
  BY <1>1
<1>3. /\ o = [p \in Priorities |-> o[p]]
      /\ \A p \in Priorities : o[p] = IF StepsOf(w[p % Buckets], pr, p) = {} THEN NoNode
                                      ELSE w[p % Buckets][Min(StepsOf(w[p % Buckets], pr, p))]
  <2>1. \A p \in Priorities : /\ Visit(p) = w[p % Buckets]
                              /\ StepsToPriority(p) = StepsOf(w[p % Buckets], pr, p)
    BY <1>1, VisitWalks, StepsToPriorityAre, WordSizes
  <2> QED
    BY <1>1, <2>1 DEF Owner
<1>4. ASSUME NEW n \in In(w) PROVE o[pr[n]] = n
  <2>1. PICK p, f : p \in Priorities /\ p = pr[n] /\ f = w[p % Buckets]
    BY <1>2, InNodes
  <2>2. /\ StepsOf(f, pr, p) # {} /\ Min(StepsOf(f, pr, p)) \in StepsOf(f, pr, p)
        /\ \A k \in StepsOf(f, pr, p) : f[k] = n
    BY <1>2, <2>1, SearchFinds
  <2> QED
    BY <1>3, <2>1, <2>2
<1>5. ASSUME NEW p \in Priorities, o[p] # NoNode PROVE o[p] \in In(w) /\ pr[o[p]] = p
  <2>1. PICK f : f = w[p % Buckets]
    OBVIOUS
  <2>2. PICK n \in In(w) : pr[n] = p
    <3>1. StepsOf(f, pr, p) # {}
      BY <1>3, <1>5, <2>1
    <3> QED
      BY <1>2, <2>1, <3>1, SearchFindsNothing
  <2>3. o[p] = n
    BY <1>4, <2>2
  <2> QED
    BY <2>2, <2>3
<1> QED
  BY <1>1, <1>3, <1>4, <1>5 DEF Owns

-----------------------------------------------------------------------------
(* The inductive invariant.                                                *)
Books(w, ini, fr, pr, u, t) ==
  ini => /\ {i \in Nodes : ~fr[i]} = In(w)
         /\ u = Cardinality(In(w))
         /\ InTable(t) = {pr[n] : n \in In(w)}

Good(w, ini, hd, nx, fr, pr, u, t) ==
  /\ ini \in BOOLEAN /\ (ini => MaxPriority # 0)
  /\ u \in 0 .. MaxNodeCount
  /\ Tidy(w, hd, nx, fr, pr)
  /\ Clean(t)
  /\ Books(w, ini, fr, pr, u, t)

IInv == Good(Walks, isInit, head, next, isFree, priority, used, table)

(* A state is good with the only walks it has. *)
LEMMA GoodByAnyWalks ==
  \A w : Good(w, isInit, head, next, isFree, priority, used, table) => IInv /\ w = Walks
BY WalksOnly DEF Good, Tidy, IInv

LEMMA OwnerOnly ==
  \A w, o : Good(w, isInit, head, next, isFree, priority, used, table) /\ Owns(o, w, priority)
              => o = Owner
<1> SUFFICES ASSUME NEW w, NEW o, Owns(o, w, priority),
                    Good(w, isInit, head, next, isFree, priority, used, table)
             PROVE  o = Owner
  OBVIOUS
<1>1. w = Walks /\ IInv
  BY GoodByAnyWalks
<1>2. Owns(Owner, w, priority)
  BY <1>1, OwnerIs DEF IInv, Good
<1>3. PICK o2, pr : o2 = Owner /\ pr = priority
  OBVIOUS
<1> QED
  BY <1>2, <1>3, OwnsOnly

(* What the invariant says of the map and of the search. *)
LEMMA Taking ==
  ASSUME IInv
  PROVE  /\ Map!Present = {priority[n] : n \in In(Walks)}
         /\ Map!Taken = In(Walks)
         /\ isInit => /\ Map!Present = InTable(table)
                      /\ Map!Taken = Nodes <=> used = MaxNodeCount
                      /\ Map!Present = {} <=> used = 0
<1>1. PICK w, hd, nx, fr, pr, o :
        w = Walks /\ hd = head /\ nx = next /\ fr = isFree /\ pr = priority /\ o = Owner
  OBVIOUS
<1>2. Tidy(w, hd, nx, fr, pr)
  BY <1>1 DEF IInv, Good
<1>3. Owns(o, w, pr)
  BY <1>1, <1>2, OwnerIs
<1>4. \A n \in In(w) : n \in Nodes /\ n # NoNode /\ pr[n] \in Priorities
  BY <1>2, InNodes
<1>5. {p \in Priorities : o[p] # NoNode} = {pr[n] : n \in In(w)}
  BY <1>3, <1>4 DEF Owns
<1>6. {o[p] : p \in {q \in Priorities : o[q] # NoNode}} = In(w)
  BY <1>3, <1>4 DEF Owns
<1>7. Map!Present = {pr[n] : n \in In(w)} /\ Map!Taken = In(w)
  BY <1>1, <1>5, <1>6 DEF Map!Present, Map!Taken
<1>8. /\ IsFiniteSet(In(w)) /\ (Cardinality(In(w)) = MaxNodeCount <=> In(w) = Nodes)
      /\ Cardinality(In(w)) = 0 <=> In(w) = {}
  BY <1>2, InNodes, FS_EmptySet
<1>9. {pr[n] : n \in In(w)} = {} <=> In(w) = {}
  OBVIOUS
<1>10. isInit => used = Cardinality(In(w)) /\ InTable(table) = {pr[n] : n \in In(w)}
  BY <1>1 DEF IInv, Good, Books
<1> QED
  BY <1>1, <1>7, <1>8, <1>9, <1>10

(* The same of the next state. *)
LEMMA OwnerOnlyNext ==
  \A w, o : Good(w, isInit', head', next', isFree', priority', used', table')
            /\ Owns(o, w, priority')
              => IInv' /\ w = Walks' /\ o = Owner'
<1>1. \A w, o : Good(w, isInit, head, next, isFree, priority, used, table)
                 /\ Owns(o, w, priority) => IInv /\ w = Walks /\ o = Owner
  BY GoodByAnyWalks, OwnerOnly
<1>2. (\A w, o : Good(w, isInit, head, next, isFree, priority, used, table)
                 /\ Owns(o, w, priority) => IInv /\ w = Walks /\ o = Owner)'
  BY <1>1, PTL
<1> QED
  BY <1>2

(* Chains that are all empty. *)
LEMMA EmptyTidy ==
  ASSUME NEW fr \in [Nodes -> BOOLEAN], NEW pr \in [Nodes -> Priorities],
         NEW hd, hd = [b \in BucketNumbers |-> NoNode],
         NEW nx, nx = [i \in Nodes |-> NoNode]
  PROVE  \E w, o : /\ Tidy(w, hd, nx, fr, pr) /\ In(w) = {}
                   /\ o = [p \in Priorities |-> NoNode] /\ Owns(o, w, pr)
<1>1. PICK f : f = [k \in Steps |-> NoNode]
  OBVIOUS
<1>2. PICK w, o : w = [b \in BucketNumbers |-> f] /\ o = [p \in Priorities |-> NoNode]
  OBVIOUS
<1>3. 0 \in Steps /\ MaxNodeCount \in Steps /\ \A k \in Steps : k # 0 => k - 1 \in Steps
  BY StepsAreNumbers DEF Steps
<1>4. IsWalk(f, NoNode, nx) /\ f[MaxNodeCount] = NoNode
  BY <1>1, <1>3 DEF IsWalk, PartWalk, Steps
<1>5. Visited(f) = {}
  BY <1>1 DEF Visited
<1>6. In(w) = {}
  BY <1>2, <1>5, SomeIn
<1>7. WalksOf(w, hd, nx)
  BY <1>2, <1>4 DEF WalksOf
<1>8. hd \in [BucketNumbers -> MaybeNode] /\ nx \in [Nodes -> MaybeNode]
  BY DEF MaybeNode
<1>9. Tidy(w, hd, nx, fr, pr)
  BY <1>2, <1>4, <1>5, <1>6, <1>7, <1>8 DEF Tidy
<1>10. Owns(o, w, pr)
  BY <1>2, <1>6 DEF Owns
<1> QED
  BY <1>2, <1>6, <1>9, <1>10

LEMMA InitGood == Init => IInv /\ Map!Init
<1> SUFFICES ASSUME Init PROVE IInv /\ Map!Init
  OBVIOUS
<1>1. PICK hd, nx, fr, pr : hd = head /\ nx = next /\ fr = isFree /\ pr = priority
  OBVIOUS
<1>2. /\ hd = [b \in BucketNumbers |-> NoNode] /\ nx = [i \in Nodes |-> NoNode]
      /\ fr = [i \in Nodes |-> FALSE] /\ pr = [i \in Nodes |-> 0]
      /\ isInit = FALSE /\ used = 0 /\ table = ZeroTable
  BY <1>1 DEF Init, BucketNumbers
<1>3. fr \in [Nodes -> BOOLEAN] /\ pr \in [Nodes -> Priorities]
  BY <1>2, PriorityTableAssumption DEF Priorities
<1>4. PICK w, o : /\ Tidy(w, hd, nx, fr, pr) /\ In(w) = {}
                  /\ o = [p \in Priorities |-> NoNode] /\ Owns(o, w, pr)
  BY <1>2, <1>3, EmptyTidy
<1>5. Good(w, isInit, head, next, isFree, priority, used, table)
  <2>1. isInit \in BOOLEAN /\ ~isInit
    BY <1>2
  <2>2. used \in 0 .. MaxNodeCount /\ Clean(table)
    BY <1>2, ZeroTableProps, PriorityQueueAssumption
  <2> QED
    BY <1>1, <1>4, <2>1, <2>2 DEF Good, Books
<1>6. IInv /\ o = Owner
  BY <1>1, <1>4, <1>5, GoodByAnyWalks, OwnerOnly
<1>7. Map!Init
  BY <1>4, <1>6 DEF Init, Map!Init, Map!NoOwners
<1> QED
  BY <1>6, <1>7

LEMMA InitializeGood ==
  ASSUME IInv, Initialize
  PROVE  IInv' /\ (MaxPriority # 0 => Map!Empty)
<1>1. PICK hd, nx, fr, pr : hd = head' /\ nx = next' /\ fr = isFree' /\ pr = priority'
  OBVIOUS
<1>2. /\ hd = [b \in BucketNumbers |-> NoNode] /\ nx = [i \in Nodes |-> NoNode]
      /\ fr = [i \in Nodes |-> TRUE]
      /\ pr = [i \in Nodes |-> IF FromSmall THEN MaxPriority ELSE 0]
      /\ used' = 0 /\ reply' = [ok |-> TRUE, priority |-> 0, node |-> NoNode]
  BY <1>1 DEF Initialize, BucketNumbers, Answer
<1>3. /\ fr \in [Nodes -> BOOLEAN] /\ pr \in [Nodes -> Priorities]
      /\ \A i \in Nodes : fr[i]
  BY <1>2, PriorityTableAssumption DEF Priorities
<1>4. PICK w, o : /\ Tidy(w, hd, nx, fr, pr) /\ In(w) = {}
                  /\ o = [p \in Priorities |-> NoNode] /\ Owns(o, w, pr)
  BY <1>2, <1>3, EmptyTidy
<1>5. isInit' \in BOOLEAN /\ (isInit' => MaxPriority # 0) /\ Clean(table')
      /\ (isInit' => InTable(table') = {}) /\ (MaxPriority # 0 => isInit')
  <2>1. CASE MaxPriority = 0
    BY <2>1 DEF Initialize, IInv, Good
  <2>2. CASE MaxPriority # 0
    <3>1. table' = ZeroTable /\ isInit' = TRUE
      BY <2>2 DEF Initialize
    <3> QED
      BY <2>2, <3>1, ZeroTableProps
  <2> QED
    BY <2>1, <2>2
<1>6. used' \in 0 .. MaxNodeCount /\ used' = Cardinality(In(w))
  BY <1>2, <1>4, PriorityQueueAssumption, FS_EmptySet
<1>7. Good(w, isInit', head', next', isFree', priority', used', table')
  <2>1. Books(w, isInit', fr, pr, used', table')
    BY <1>3, <1>4, <1>5, <1>6 DEF Books
  <2> QED
    BY <1>1, <1>4, <1>5, <1>6, <2>1 DEF Good
<1>8. IInv' /\ o = Owner'
  BY <1>1, <1>4, <1>7, OwnerOnlyNext
<1>9. MaxPriority # 0 => Map!Empty
  BY <1>2, <1>4, <1>5, <1>8 DEF Map!Empty, Map!NoOwners, Map!Answer
<1> QED
  BY <1>8, <1>9

LEMMA UnchangedGood ==
  ASSUME IInv, UNCHANGED queue
  PROVE  IInv' /\ Owner' = Owner /\ isInit' = isInit
<1>1. PICK w, o : w = Walks /\ o = Owner
  OBVIOUS
<1>2. Good(w, isInit, head, next, isFree, priority, used, table)
  BY <1>1 DEF IInv
<1>3. Owns(o, w, priority)
  BY <1>1, OwnerIs DEF IInv, Good
<1>4. Good(w, isInit', head', next', isFree', priority', used', table')
      /\ Owns(o, w, priority')
  BY <1>2, <1>3 DEF queue
<1> QED
  BY <1>1, <1>4, OwnerOnlyNext DEF queue

LEMMA FreeNodeThere ==
  ASSUME IInv, isInit, used < MaxNodeCount
  PROVE  FreeNodes # {} /\ Min(FreeNodes) \in Nodes /\ isFree[Min(FreeNodes)]
<1>1. Map!Taken = In(Walks) /\ Map!Taken # Nodes /\ used \in Nat
  BY Taking DEF IInv, Good
<1>2. {i \in Nodes : ~isFree[i]} = In(Walks) /\ In(Walks) \subseteq Nodes
  <2>1. PICK w, hd, nx, fr, pr :
          w = Walks /\ hd = head /\ nx = next /\ fr = isFree /\ pr = priority
    OBVIOUS
  <2>2. Tidy(w, hd, nx, fr, pr) /\ {i \in Nodes : ~fr[i]} = In(w)
    BY <2>1 DEF IInv, Good, Books
  <2> QED
    BY <2>1, <2>2, InNodes
<1>3. FreeNodes # {}
  BY <1>1, <1>2 DEF FreeNodes
<1>4. FreeNodes \in SUBSET Nat
  BY PriorityQueueAssumption DEF FreeNodes, Nodes
<1> QED
  BY <1>3, <1>4, MinProps DEF FreeNodes

(* A priority that is there: its node is the answer, nothing else is seen. *)
LEMMA AddAgainGood ==
  ASSUME IInv, isInit, NEW p \in Priorities, NEW i \in Nodes, isFree[i],
         StepsToPriority(p) # {}, AddAgain(p, i), table' = TableInsert(table, p),
         isInit' = isInit
  PROVE  IInv' /\ p \in Map!Present /\ Map!Replace(p)
<1>1. PICK w, hd, nx, fr, pr, o, mx, pr2, t, t2 :
        /\ w = Walks /\ hd = head /\ nx = next /\ fr = isFree /\ pr = priority /\ o = Owner
        /\ mx = next' /\ pr2 = priority' /\ t = table /\ t2 = table'
  OBVIOUS
<1>2. /\ Tidy(w, hd, nx, fr, pr) /\ Clean(t)
      /\ {n \in Nodes : ~fr[n]} = In(w) /\ used = Cardinality(In(w))
      /\ InTable(t) = {pr[n] : n \in In(w)} /\ used \in 0 .. MaxNodeCount /\ MaxPriority # 0
  BY <1>1 DEF IInv, Good, Books
<1>3. /\ mx = [nx EXCEPT ![i] = NoNode] /\ pr2 = [pr EXCEPT ![i] = p]
      /\ head' = hd /\ isFree' = fr /\ used' = used
      /\ reply' = [ok |-> TRUE, priority |-> p, node |-> o[p]]
  BY <1>1 DEF AddAgain, Answer, Owner
<1>4. Tidy(w, hd, mx, fr, pr2)
  <2>1. Tidy(w, hd, [nx EXCEPT ![i] = NoNode], fr, [pr EXCEPT ![i] = p])
    BY <1>1, <1>2, AgainTidy
  <2> QED
    BY <1>3, <2>1
<1>5. \A n \in In(w) : n # i /\ n \in Nodes /\ pr2[n] = pr[n] /\ pr[n] \in Priorities
  <2>1. pr \in [Nodes -> Priorities] /\ \A n \in In(w) : n # i /\ n \in Nodes
    BY <1>1, <1>2 DEF Tidy
  <2> QED
    BY <1>3, <2>1
<1>6. Owns(o, w, pr)
  BY <1>1, <1>2, OwnerIs
<1>7. Owns(o, w, pr2)
  BY <1>5, <1>6 DEF Owns
<1>8. o[p] # NoNode /\ p \in InTable(t)
  <2>1. PICK f : f = w[p % Buckets]
    OBVIOUS
  <2>2. StepsOf(f, pr, p) # {}
    BY <1>1, <2>1, StepsToPriorityAre
  <2>3. PICK n \in In(w) : pr[n] = p
    BY <1>2, <2>1, <2>2, SearchFindsNothing
  <2>4. o[p] = n /\ n # NoNode
    BY <1>2, <1>6, <2>3, PriorityQueueAssumption DEF Owns
  <2> QED
    BY <1>2, <2>3, <2>4
<1>9. Clean(t2) /\ InTable(t2) = {pr2[n] : n \in In(w)}
  <2>1. t2 = TableInsert(t, p)
    BY <1>1
  <2>2. Clean(t2) /\ InTable(t2) = InTable(t) \cup {p}
    BY <1>2, <2>1, TableInsertProps
  <2>3. {pr2[n] : n \in In(w)} = {pr[n] : n \in In(w)}
    BY <1>5
  <2> QED
    BY <1>2, <1>8, <2>2, <2>3
<1>10. Good(w, isInit', head', next', isFree', priority', used', table')
  <2>1. Books(w, isInit', fr, pr2, used', t2)
    BY <1>2, <1>3, <1>9 DEF Books
  <2> QED
    BY <1>1, <1>2, <1>3, <1>4, <1>9, <2>1 DEF Good
<1>11. IInv' /\ o = Owner'
  <2>1. Owns(o, w, priority')
    BY <1>1, <1>7
  <2> QED
    BY ONLY <1>10, <2>1, OwnerOnlyNext
<1>12. p \in Map!Present
  BY <1>1, <1>8 DEF Map!Present
<1>13. Map!Replace(p)
  BY <1>1, <1>3, <1>11, <1>12 DEF Map!Replace, Map!Answer
<1> QED
  BY <1>11, <1>12, <1>13

(* A priority that is new: a node of the pool stands for it. *)
LEMMA AddLastGood ==
  ASSUME IInv, isInit, NEW p \in Priorities, NEW i \in Nodes, isFree[i],
         StepsToPriority(p) = {}, AddLast(p, i), table' = TableInsert(table, p),
         isInit' = isInit
  PROVE  IInv' /\ p \notin Map!Present /\ Map!Insert(p, i)
<1>1. PICK w, hd, nx, fr, pr, o, hd2, mx, fr2, pr2, t, t2, f, b :
        /\ w = Walks /\ hd = head /\ nx = next /\ fr = isFree /\ pr = priority /\ o = Owner
        /\ hd2 = head' /\ mx = next' /\ fr2 = isFree' /\ pr2 = priority'
        /\ t = table /\ t2 = table' /\ b = p % Buckets /\ f = w[b]
  OBVIOUS
<1>2. /\ Tidy(w, hd, nx, fr, pr) /\ Clean(t)
      /\ {n \in Nodes : ~fr[n]} = In(w) /\ used = Cardinality(In(w))
      /\ InTable(t) = {pr[n] : n \in In(w)} /\ used \in 0 .. MaxNodeCount /\ MaxPriority # 0
  BY <1>1 DEF IInv, Good, Books
<1>3. f = Visit(p) /\ b \in BucketNumbers
  BY <1>1, VisitWalks, BucketOf, WordSizes
<1>4. Owns(o, w, pr)
  BY <1>1, <1>2, OwnerIs
<1>5. \A n \in In(w) : n # i /\ n \in Nodes /\ pr[n] \in Priorities /\ n # NoNode
  BY <1>1, <1>2, InNodes
<1>6. \A n \in In(w) : pr[n] # p
  <2> SUFFICES ASSUME NEW n \in In(w), pr[n] = p PROVE FALSE
    OBVIOUS
  <2>1. StepsOf(f, pr, p) # {}
    BY <1>1, <1>2, SearchFinds
  <2> QED
    BY <1>1, <2>1, StepsToPriorityAre
<1>7. /\ fr2 = [fr EXCEPT ![i] = FALSE] /\ pr2 = [pr EXCEPT ![i] = p]
      /\ used' = used + 1 /\ reply' = [ok |-> TRUE, priority |-> p, node |-> i]
  BY <1>1 DEF AddLast, Answer
<1>8. \/ hd[b] = NoNode /\ hd2 = [hd EXCEPT ![b] = i] /\ mx = [nx EXCEPT ![i] = NoNode]
      \/ /\ hd2 = hd
         /\ \E m \in Steps : /\ f[m] # NoNode /\ nx[f[m]] = NoNode
                             /\ mx = [nx EXCEPT ![i] = NoNode, ![f[m]] = i]
  <2>1. CASE hd[b] = NoNode
    BY <1>1, <2>1 DEF AddLast
  <2>2. CASE hd[b] # NoNode
    <3>1. PICK S : S = {k \in 0 .. MaxNodeCount - 1 : f[k] # NoNode /\ nx[f[k]] = NoNode}
      OBVIOUS
    <3>2. IsWalk(f, hd[b], nx) /\ f[MaxNodeCount] = NoNode
      BY <1>1, <1>2, <1>3 DEF Tidy, WalksOf
    <3>3. S # {}
      <4>1. PICK h : h = hd[b]
        OBVIOUS
      <4> QED
        BY <2>2, <3>1, <3>2, <4>1, LastOfWalk
    <3>4. S \in SUBSET Nat /\ S \subseteq Steps
      BY <3>1, StepsAreNumbers DEF Steps
    <3>5. PICK m \in S : m = Min(S)
      BY <3>3, <3>4, MinProps
    <3>6. StepsTo(p, LAMBDA n : next[n] = NoNode) = S
      BY <1>1, <1>3, <3>1 DEF StepsTo
    <3>7. hd2 = hd /\ mx = [nx EXCEPT ![i] = NoNode, ![f[m]] = i]
      BY <1>1, <1>3, <2>2, <3>5, <3>6 DEF AddLast
    <3> QED
      BY <3>1, <3>4, <3>5, <3>7
  <2> QED
    BY <2>1, <2>2
<1>9. PICK w2 : Tidy(w2, hd2, mx, fr2, pr2) /\ In(w2) = In(w) \cup {i}
  <2>1. Adding(p, i, b, f, w, hd, nx, fr, pr, hd2, mx, fr2, pr2)
    BY <1>1, <1>2, <1>6, <1>7, <1>8 DEF Adding
  <2> QED
    BY <2>1, AddTidy
<1>10. /\ pr \in [Nodes -> Priorities] /\ fr \in [Nodes -> BOOLEAN]
       /\ pr2[i] = p /\ \A n \in In(w) : pr2[n] = pr[n]
  <2>1. pr \in [Nodes -> Priorities] /\ fr \in [Nodes -> BOOLEAN]
    BY <1>2 DEF Tidy
  <2> QED
    BY <1>5, <1>7, <2>1
<1>11. PICK o2 : o2 = [o EXCEPT ![p] = i]
  OBVIOUS
<1>12. Owns(o2, w2, pr2)
  <2>1. /\ o2 = [q \in Priorities |-> o2[q]] /\ o2[p] = i
        /\ \A q \in Priorities : q # p => o2[q] = o[q]
    BY <1>4, <1>11 DEF Owns
  <2>2. \A n \in In(w2) : o2[pr2[n]] = n
    BY <1>4, <1>5, <1>6, <1>9, <1>10, <2>1 DEF Owns
  <2>3. \A q \in Priorities : o2[q] # NoNode => o2[q] \in In(w2) /\ pr2[o2[q]] = q
    BY <1>4, <1>9, <1>10, <2>1 DEF Owns
  <2> QED
    BY <2>1, <2>2, <2>3 DEF Owns
<1>13. {n \in Nodes : ~fr2[n]} = In(w2)
  <2>1. \A n \in Nodes : fr2[n] = IF n = i THEN FALSE ELSE fr[n]
    BY <1>7, <1>10
  <2> QED
    BY <1>2, <1>9, <2>1
<1>14. used' = Cardinality(In(w2)) /\ used' \in 0 .. MaxNodeCount
  <2>1. IsFiniteSet(In(w)) /\ i \notin In(w)
    BY <1>2, <1>5, InNodes
  <2>2. Cardinality(In(w2)) = used + 1
    BY <1>2, <1>9, <2>1, FS_AddElement
  <2>3. Cardinality(In(w2)) \in 0 .. MaxNodeCount
    BY <1>9, InNodes
  <2> QED
    BY <1>7, <2>2, <2>3
<1>15. Clean(t2) /\ InTable(t2) = {pr2[n] : n \in In(w2)}
  <2>1. Clean(t2) /\ InTable(t2) = InTable(t) \cup {p}
    BY <1>1, <1>2, TableInsertProps
  <2>2. {pr2[n] : n \in In(w2)} = {pr[n] : n \in In(w)} \cup {p}
    BY <1>9, <1>10
  <2> QED
    BY <1>2, <2>1, <2>2
<1>16. Good(w2, isInit', head', next', isFree', priority', used', table')
  <2>1. Books(w2, isInit', fr2, pr2, used', t2)
    BY <1>13, <1>14, <1>15 DEF Books
  <2>2. isInit' \in BOOLEAN
    BY DEF IInv, Good
  <2> QED
    BY <1>1, <1>2, <1>9, <1>14, <1>15, <2>1, <2>2 DEF Good
<1>17. IInv' /\ o2 = Owner'
  <2>1. Owns(o2, w2, priority')
    BY <1>1, <1>12
  <2> QED
    BY ONLY <1>16, <2>1, OwnerOnlyNext
<1>18. p \notin Map!Present /\ i \in Nodes \ Map!Taken
  <2>1. Map!Present = {pr[n] : n \in In(w)} /\ Map!Taken = In(w)
    BY <1>1, Taking
  <2> QED
    BY <1>5, <1>6, <2>1
<1>19. Map!Insert(p, i)
  BY <1>1, <1>7, <1>11, <1>17, <1>18 DEF Map!Insert, Map!Answer
<1> QED
  BY <1>17, <1>18, <1>19

(* A priority that is there goes, and its node is free again. *)
LEMMA UnlinkGood ==
  ASSUME IInv, isInit, NEW p \in Priorities, StepsToPriority(p) # {}, Release(p), used # 0
  PROVE  IInv' /\ p \in Map!Present /\ Map!Remove(p)
<1>1. PICK w, hd, nx, fr, pr, o, hd2, mx, fr2, t, t2, f, b :
        /\ w = Walks /\ hd = head /\ nx = next /\ fr = isFree /\ pr = priority /\ o = Owner
        /\ hd2 = head' /\ mx = next' /\ fr2 = isFree'
        /\ t = table /\ t2 = table' /\ b = p % Buckets /\ f = w[b]
  OBVIOUS
<1>2. /\ Tidy(w, hd, nx, fr, pr) /\ Clean(t)
      /\ {n \in Nodes : ~fr[n]} = In(w) /\ used = Cardinality(In(w))
      /\ InTable(t) = {pr[n] : n \in In(w)} /\ used \in 0 .. MaxNodeCount /\ MaxPriority # 0
  BY <1>1 DEF IInv, Good, Books
<1>3. f = Visit(p) /\ b \in BucketNumbers
  BY <1>1, VisitWalks, BucketOf, WordSizes
<1>4. Owns(o, w, pr)
  BY <1>1, <1>2, OwnerIs
<1>5. \A n \in In(w) : n \in Nodes /\ pr[n] \in Priorities /\ n # NoNode
  BY <1>1, <1>2, InNodes
<1>6. StepsToPriority(p) = StepsOf(f, pr, p)
  BY <1>1, StepsToPriorityAre
<1>7. PICK i \in In(w) : pr[i] = p
  BY <1>1, <1>2, <1>6, SearchFindsNothing
<1>8. PICK k \in StepsOf(f, pr, p) : k = Min(StepsToPriority(p)) /\ f[k] = i
  BY <1>1, <1>2, <1>6, <1>7, SearchFinds
<1>9. /\ k \in Steps /\ i # NoNode /\ o[p] = i /\ i \in Nodes
      /\ \A n \in In(w) : pr[n] = p => n = i
  BY <1>2, <1>4, <1>5, <1>7, StepsAreNumbers DEF StepsOf, Steps, Owns, Tidy
<1>10. Unlink(p, k) /\ Answer(TRUE, p, Visit(p)[k]) /\ t2 = TableRemove(t, p)
       /\ isInit' = isInit /\ priority' = pr
  BY <1>1, <1>8 DEF Release
<1>11. /\ fr2 = [fr EXCEPT ![i] = TRUE] /\ used' = used - 1
       /\ reply' = [ok |-> TRUE, priority |-> p, node |-> i]
       /\ IF k = 0 THEN hd2 = [hd EXCEPT ![b] = nx[i]] /\ mx = [nx EXCEPT ![i] = NoNode]
          ELSE hd2 = hd /\ mx = [nx EXCEPT ![f[k - 1]] = nx[i], ![i] = NoNode]
  <2>1. CASE k = 0
    BY <1>1, <1>3, <1>8, <1>10, <2>1 DEF Unlink, Answer
  <2>2. CASE k # 0
    BY <1>1, <1>3, <1>8, <1>10, <2>2 DEF Unlink, Answer
  <2> QED
    BY <2>1, <2>2
<1>12. PICK w2 : Tidy(w2, hd2, mx, fr2, pr) /\ In(w2) = In(w) \ {i}
  <2>1. Removing(k, i, b, f, w, hd, nx, fr, pr, hd2, mx, fr2)
    BY <1>1, <1>2, <1>3, <1>8, <1>9, <1>11 DEF Removing
  <2> QED
    BY <2>1, RemoveTidy
<1>13. PICK o2 : o2 = [o EXCEPT ![p] = NoNode]
  OBVIOUS
<1>14. Owns(o2, w2, pr)
  <2>1. /\ o2 = [q \in Priorities |-> o2[q]] /\ o2[p] = NoNode
        /\ \A q \in Priorities : q # p => o2[q] = o[q]
    BY <1>4, <1>13 DEF Owns
  <2>2. \A n \in In(w2) : o2[pr[n]] = n
    BY <1>4, <1>5, <1>9, <1>12, <2>1 DEF Owns
  <2>3. \A q \in Priorities : o2[q] # NoNode => o2[q] \in In(w2) /\ pr[o2[q]] = q
    BY <1>4, <1>7, <1>12, <2>1 DEF Owns
  <2> QED
    BY <2>1, <2>2, <2>3 DEF Owns
<1>15. {n \in Nodes : ~fr2[n]} = In(w2)
  <2>1. \A n \in Nodes : fr2[n] = IF n = i THEN TRUE ELSE fr[n]
    BY <1>2, <1>11 DEF Tidy
  <2> QED
    BY <1>2, <1>12, <2>1
<1>16. used' = Cardinality(In(w2)) /\ used' \in 0 .. MaxNodeCount
  <2>1. IsFiniteSet(In(w))
    BY <1>2, InNodes
  <2>2. Cardinality(In(w2)) = used - 1
    BY <1>2, <1>12, <2>1, FS_RemoveElement
  <2>3. Cardinality(In(w2)) \in 0 .. MaxNodeCount
    BY <1>12, InNodes
  <2> QED
    BY <1>11, <2>2, <2>3
<1>17. Clean(t2) /\ InTable(t2) = {pr[n] : n \in In(w2)}
  <2>1. Clean(t2) /\ InTable(t2) = InTable(t) \ {p}
    BY <1>2, <1>10, TableRemoveProps
  <2>2. {pr[n] : n \in In(w2)} = {pr[n] : n \in In(w)} \ {p}
    BY <1>7, <1>9, <1>12
  <2> QED
    BY <1>2, <2>1, <2>2
<1>18. Good(w2, isInit', head', next', isFree', priority', used', table')
  <2>1. Books(w2, isInit', fr2, pr, used', t2)
    BY <1>15, <1>16, <1>17 DEF Books
  <2>2. isInit' \in BOOLEAN
    BY <1>10 DEF IInv, Good
  <2> QED
    BY <1>1, <1>2, <1>10, <1>12, <1>16, <1>17, <2>1, <2>2 DEF Good
<1>19. IInv' /\ o2 = Owner'
  <2>1. Owns(o2, w2, priority')
    BY <1>10, <1>14
  <2> QED
    BY ONLY <1>18, <2>1, OwnerOnlyNext
<1>20. p \in Map!Present
  BY <1>1, <1>9 DEF Map!Present
<1>21. Map!Remove(p)
  BY <1>1, <1>9, <1>10, <1>11, <1>13, <1>19, <1>20 DEF Map!Remove, Map!Answer
<1> QED
  BY <1>19, <1>20, <1>21

(* A release of a priority that is not there finds no bit to clear. *)
LEMMA NothingToUnlink ==
  ASSUME IInv, isInit, NEW p \in Priorities, StepsToPriority(p) = {}, Release(p), used # 0
  PROVE  IInv' /\ p \notin Map!Present /\ Map!Refuse(p)
<1>1. PICK w, hd, nx, fr, pr, o, t, t2, f :
        /\ w = Walks /\ hd = head /\ nx = next /\ fr = isFree /\ pr = priority /\ o = Owner
        /\ t = table /\ t2 = table' /\ f = w[p % Buckets]
  OBVIOUS
<1>2. /\ Tidy(w, hd, nx, fr, pr) /\ Clean(t)
      /\ {n \in Nodes : ~fr[n]} = In(w) /\ used = Cardinality(In(w))
      /\ InTable(t) = {pr[n] : n \in In(w)} /\ used \in 0 .. MaxNodeCount /\ MaxPriority # 0
  BY <1>1 DEF IInv, Good, Books
<1>3. \A n \in In(w) : pr[n] # p
  <2> SUFFICES ASSUME NEW n \in In(w), pr[n] = p PROVE FALSE
    OBVIOUS
  <2>1. StepsOf(f, pr, p) # {}
    BY <1>1, <1>2, SearchFinds
  <2> QED
    BY <1>1, <2>1, StepsToPriorityAre
<1>4. /\ t2 = TableRemove(t, p) /\ isInit' = isInit /\ priority' = pr
      /\ reply' = [ok |-> FALSE, priority |-> p, node |-> NoNode]
      /\ head' = hd /\ isFree' = fr /\ next' = nx /\ used' = used
  BY <1>1 DEF Release, Answer
<1>5. Clean(t2) /\ InTable(t2) = InTable(t)
  <2>1. Clean(t2) /\ InTable(t2) = InTable(t) \ {p}
    BY <1>2, <1>4, TableRemoveProps
  <2> QED
    BY <1>2, <1>3, <2>1
<1>6. Owns(o, w, pr)
  BY <1>1, <1>2, OwnerIs
<1>7. Good(w, isInit', head', next', isFree', priority', used', table')
  <2>1. Books(w, isInit', fr, pr, used', t2)
    BY <1>2, <1>4, <1>5 DEF Books
  <2>2. isInit' \in BOOLEAN
    BY <1>4 DEF IInv, Good
  <2> QED
    BY <1>1, <1>2, <1>4, <1>5, <2>1, <2>2 DEF Good
<1>8. IInv' /\ o = Owner'
  <2>1. Owns(o, w, priority')
    BY <1>4, <1>6
  <2> QED
    BY ONLY <1>7, <2>1, OwnerOnlyNext
<1>9. p \notin Map!Present
  BY <1>1, <1>3, Taking
<1>10. Map!Refuse(p)
  BY <1>1, <1>4, <1>8 DEF Map!Refuse, Map!Answer
<1> QED
  BY <1>8, <1>9, <1>10

LEMMA PushGood ==
  ASSUME IInv, NEW p \in Priorities, Push(p)
  PROVE  IInv' /\ Map!PushUnlessFull(p)
<1>1. isInit \in BOOLEAN /\ used \in 0 .. MaxNodeCount /\ MaxNodeCount \in Nat
  BY PriorityQueueAssumption DEF IInv, Good
<1>2. CASE ~isInit \/ used >= MaxNodeCount
  <2>1. Refuse(p)
    BY <1>2 DEF Push
  <2>2. IInv' /\ Owner' = Owner /\ isInit' = isInit
    BY <2>1, UnchangedGood DEF Refuse
  <2>3. Map!Refuse(p)
    BY <2>1, <2>2 DEF Refuse, Answer, Map!Refuse, Map!Answer
  <2>4. ~(isInit /\ Map!Taken # Nodes)
    BY <1>1, <1>2, Taking
  <2> QED
    BY <2>2, <2>3, <2>4 DEF Map!PushUnlessFull, Map!Push
<1>3. CASE isInit /\ used < MaxNodeCount
  <2>1. PICK i \in Nodes : i = Min(FreeNodes) /\ isFree[i] /\ FreeNodes # {}
    BY <1>3, FreeNodeThere
  <2>2. Map!Taken # Nodes
    BY <1>1, <1>3, Taking
  <2>3. ~(~isInit \/ used >= MaxNodeCount)
    BY <1>1, <1>3
  <2>4. /\ table' = TableInsert(table, p) /\ isInit' = isInit
        /\ IF StepsToPriority(p) # {} THEN AddAgain(p, i) ELSE AddLast(p, i)
    BY <2>1, <2>3 DEF Push
  <2>5. CASE StepsToPriority(p) # {}
    <3>1. AddAgain(p, i)
      BY <2>4, <2>5
    <3>2. IInv' /\ Map!Replace(p)
      BY <1>3, <2>1, <2>4, <2>5, <3>1, AddAgainGood
    <3> QED
      BY <1>3, <2>2, <3>2 DEF Map!PushUnlessFull, Map!Push
  <2>6. CASE StepsToPriority(p) = {}
    <3>1. AddLast(p, i)
      BY <2>4, <2>6
    <3>2. IInv' /\ Map!Insert(p, i)
      BY <1>3, <2>1, <2>4, <2>6, <3>1, AddLastGood
    <3> QED
      BY <1>3, <2>2, <3>2 DEF Map!PushUnlessFull, Map!Push
  <2> QED
    BY <2>5, <2>6
<1> QED
  BY <1>1, <1>2, <1>3

LEMMA ReleaseGood ==
  ASSUME IInv, NEW p \in Priorities, Release(p)
  PROVE  /\ IInv' /\ Map!Release(p)
         /\ isInit /\ p \in Map!Present => Map!Remove(p)
<1>1. isInit \in BOOLEAN /\ used \in 0 .. MaxNodeCount
  BY DEF IInv, Good
<1>2. CASE ~isInit \/ used = 0
  <2>1. Refuse(p)
    BY <1>2 DEF Release
  <2>2. IInv' /\ Owner' = Owner /\ isInit' = isInit
    BY <2>1, UnchangedGood DEF Refuse
  <2>3. Map!Refuse(p)
    BY <2>1, <2>2 DEF Refuse, Answer, Map!Refuse, Map!Answer
  <2>4. ~(isInit /\ p \in Map!Present)
    BY <1>1, <1>2, Taking
  <2> QED
    BY <2>2, <2>3, <2>4 DEF Map!Release
<1>3. CASE isInit /\ used # 0 /\ StepsToPriority(p) # {}
  <2>1. IInv' /\ p \in Map!Present /\ Map!Remove(p)
    BY <1>3, UnlinkGood
  <2> QED
    BY <1>3, <2>1 DEF Map!Release
<1>4. CASE isInit /\ used # 0 /\ StepsToPriority(p) = {}
  <2>1. IInv' /\ p \notin Map!Present /\ Map!Refuse(p)
    BY <1>4, NothingToUnlink
  <2> QED
    BY <2>1 DEF Map!Release
<1> QED
  BY <1>1, <1>2, <1>3, <1>4

LEMMA PopGood ==
  ASSUME IInv, Pop
  PROVE  IInv' /\ Map!Pop
<1>1. isInit \in BOOLEAN /\ Clean(table) /\ (isInit => Map!Present = InTable(table))
  BY Taking DEF IInv, Good
<1>2. PICK t : t = table
  OBVIOUS
<1>3. CASE ~isInit \/ ~HasHighest(table)
  <2>1. Refuse(0)
    BY <1>3 DEF Pop
  <2>2. IInv' /\ Owner' = Owner /\ isInit' = isInit
    BY <2>1, UnchangedGood DEF Refuse
  <2>3. Map!Refuse(0)
    BY <2>1, <2>2 DEF Refuse, Answer, Map!Refuse, Map!Answer
  <2>4. ~(isInit /\ Map!Present # {})
    BY <1>1, <1>2, <1>3, ScanTable
  <2> QED
    BY <2>2, <2>3, <2>4 DEF Map!Pop
<1>4. CASE isInit /\ HasHighest(table)
  <2>1. Release(Highest(table))
    BY <1>4 DEF Pop
  <2>2. PICK p : p = Highest(t)
    OBVIOUS
  <2>3. p \in InTable(t) /\ \A r \in InTable(t) \ {p} : MoreUrgent(p, r)
    BY <1>1, <1>2, <1>4, <2>2, ScanTable
  <2>4. p \in Priorities /\ p \in Map!Present
    BY <1>1, <1>2, <1>4, <2>3, InTableByBits
  <2>5. Release(p)
    BY <1>2, <2>1, <2>2
  <2>6. IInv' /\ Map!Remove(p)
    BY <1>4, <2>4, <2>5, ReleaseGood
  <2>7. \A r \in Map!Present \ {p} : MoreUrgent(p, r)
    BY <1>1, <1>2, <1>4, <2>3
  <2> QED
    BY <1>4, <2>4, <2>6, <2>7 DEF Map!Pop
<1> QED
  BY <1>1, <1>3, <1>4

LEMMA NextGood ==
  ASSUME IInv, [Next]_vars
  PROVE  IInv' /\ (MaxPriority # 0 => [Map!NextUnlessFull]_(Map!vars))
<1>1. CASE Initialize
  <2>1. IInv' /\ (MaxPriority # 0 => Map!Empty)
    BY <1>1, InitializeGood
  <2> QED
    BY <2>1 DEF Map!NextUnlessFull, Map!OtherCalls
<1>2. ASSUME NEW p \in Priorities, Push(p) PROVE IInv' /\ Map!NextUnlessFull
  BY <1>2, PushGood DEF Map!NextUnlessFull, Map!OtherCalls
<1>3. ASSUME NEW p \in Priorities, Release(p) PROVE IInv' /\ Map!NextUnlessFull
  BY <1>3, ReleaseGood DEF Map!NextUnlessFull, Map!OtherCalls
<1>4. CASE Pop
  BY <1>4, PopGood DEF Map!NextUnlessFull, Map!OtherCalls
<1>5. CASE UNCHANGED vars
  <2>1. IInv' /\ Owner' = Owner /\ isInit' = isInit /\ reply' = reply
    BY <1>5, UnchangedGood DEF vars
  <2> QED
    BY <2>1 DEF Map!vars
<1> QED
  BY <1>1, <1>2, <1>3, <1>4, <1>5 DEF Next

-----------------------------------------------------------------------------
(* The search is cut off only behind the last node a chain can have: the   *)
(* priorities of a bucket differ in their quotients.                       *)
LEMMA ShortChains ==
  ASSUME NEW w, NEW hd, NEW nx, NEW fr, NEW pr, Tidy(w, hd, nx, fr, pr),
         NEW b \in BucketNumbers, NEW f, f = w[b], NEW k \in Steps, f[k] # NoNode
  PROVE  k < MaxPriority \div Buckets + 1
<1> DEFINE q == [j \in 0 .. k |-> pr[f[j]] \div Buckets]
<1>0. /\ Buckets \in Nat \ {0} /\ MaxPriority \in Nat /\ k \in Nat /\ Steps \subseteq Nat
      /\ MaxPriority \div Buckets \in Nat
  BY BucketOf, WordSizes, StepsAreNumbers, DivMod
<1>1. PICK h : IsWalk(f, h, nx) /\ f[MaxNodeCount] = NoNode
  BY DEF Tidy, WalksOf
<1>2. ASSUME NEW j \in 0 .. k
      PROVE  /\ j \in Steps /\ f[j] # NoNode /\ f[j] \in In(w) /\ pr[f[j]] \in Priorities
             /\ pr[f[j]] % Buckets = b
  <2>1. j \in Steps /\ j <= k
    BY <1>0, StepsAreNumbers DEF Steps
  <2>2. f[j] # NoNode
    BY <1>1, <2>1, WalkStops
  <2>3. f[j] \in Visited(w[b])
    BY <2>1, <2>2, SomeVisited
  <2>4. f[j] \in In(w) /\ f[j] \in Nodes /\ pr \in [Nodes -> Priorities]
    BY <2>3, SomeIn DEF Tidy
  <2> QED
    BY <2>1, <2>2, <2>3, <2>4 DEF Tidy
<1>3. q \in [0 .. k -> 0 .. MaxPriority \div Buckets]
  <2> SUFFICES ASSUME NEW j \in 0 .. k PROVE q[j] \in 0 .. MaxPriority \div Buckets
    OBVIOUS
  <2>1. PICK x \in Nat : x = pr[f[j]] /\ x <= MaxPriority
    BY <1>2, WordSizes DEF Priorities
  <2>2. x \div Buckets \in Nat /\ x \div Buckets <= MaxPriority \div Buckets
    BY <1>0, <2>1, DivMod, DivGrows
  <2> QED
    BY <1>0, <2>1, <2>2
<1>4. ASSUME NEW i \in 0 .. k, NEW j \in 0 .. k, q[i] = q[j] PROVE i = j
  <2>1. PICK x \in Nat, y \in Nat : x = pr[f[i]] /\ y = pr[f[j]]
    BY <1>2, WordSizes
  <2>2. x \div Buckets = y \div Buckets /\ x % Buckets = y % Buckets
    BY <1>2, <1>4, <2>1
  <2>3. x = y
    BY <1>0, <2>2, DivMod
  <2>4. f[i] = f[j]
    <3>1. \A m, n \in In(w) : pr[m] = pr[n] => m = n
      BY DEF Tidy
    <3>2. f[i] \in In(w) /\ f[j] \in In(w) /\ pr[f[i]] = pr[f[j]]
      BY <1>2, <2>1, <2>3
    <3> QED
      BY <3>1, <3>2
  <2> QED
    BY <1>1, <1>2, <2>4, WalkOnce
<1>5. PICK m \in Nat : m = MaxPriority \div Buckets
  BY <1>0
<1>6. /\ IsFiniteSet(0 .. k) /\ Cardinality(0 .. k) = k + 1
      /\ IsFiniteSet(0 .. m) /\ Cardinality(0 .. m) = m + 1
  <2>1. ~(0 > k) /\ k - 0 + 1 = k + 1 /\ 0 \in Int /\ k \in Int
        /\ ~(0 > m) /\ m - 0 + 1 = m + 1 /\ m \in Int
    BY <1>0
  <2> QED
    BY <2>1, FS_Interval
<1>7. ASSUME m + 1 <= k PROVE FALSE
  <2>1. PICK S, T, e : S = 0 .. k /\ T = 0 .. m /\ e = q
    OBVIOUS
  <2> HIDE DEF q
  <2>2. /\ IsFiniteSet(S) /\ IsFiniteSet(T) /\ Cardinality(T) < Cardinality(S)
        /\ e \in [S -> T]
    BY <1>0, <1>3, <1>5, <1>6, <1>7, <2>1
  <2>3. \E x, y \in S : x # y /\ e[x] = e[y]
    BY <2>2, FS_PigeonHole
  <2> QED
    BY <1>4, <2>1, <2>3
<1> QED
  BY <1>0, <1>5, <1>7

LEMMA ChainsFromInv == IInv => ChainsWellFormed
<1> SUFFICES ASSUME IInv PROVE ChainsWellFormed
  OBVIOUS
<1>1. Tidy(Walks, head, next, isFree, priority) /\ Clean(table)
      /\ isInit \in BOOLEAN /\ used \in 0 .. MaxNodeCount
  BY DEF IInv, Good
<1>2. TypeOK
  BY <1>1 DEF TypeOK, Tidy, Clean, BucketNumbers, MaybeNode
<1>3. ASSUME NEW b \in 0 .. Buckets - 1
      PROVE  /\ Visit(b)[MaxNodeCount] = NoNode
             /\ \A i \in Chain(b) : ~isFree[i] /\ priority[i] % Buckets = b
  <2>1. b \in BucketNumbers /\ Walks[b] = Visit(b) /\ Chain(b) = Visited(Walks[b])
    BY DEF BucketNumbers, Walks, Chain, Visited, Steps
  <2> QED
    BY <1>1, <2>1 DEF Tidy
<1>4. \A i, j \in LinkedNodes : priority[i] = priority[j] => i = j
  BY <1>1, LinkedNodesAre DEF Tidy
<1> QED
  BY <1>2, <1>3, <1>4 DEF ChainsWellFormed

LEMMA BooksFromInv == IInv => BooksAgree
<1> SUFFICES ASSUME IInv, isInit
             PROVE  /\ Nodes \ FreeNodes = LinkedNodes
                    /\ used = Cardinality(LinkedNodes)
                    /\ InTable(table) = {priority[i] : i \in LinkedNodes}
  BY DEF BooksAgree
<1>1. /\ {i \in Nodes : ~isFree[i]} = In(Walks) /\ used = Cardinality(In(Walks))
      /\ InTable(table) = {priority[n] : n \in In(Walks)}
  BY DEF IInv, Good, Books
<1> QED
  BY <1>1, LinkedNodesAre DEF FreeNodes

LEMMA LookupFromInv == IInv => LookupComplete
<1> SUFFICES ASSUME IInv, isInit
             PROVE  /\ ScopeRight
                    /\ \A p \in Priorities : NodeNumberOf(p) # NoNode <=>
                         \E i \in Nodes : ~isFree[i] /\ priority[i] = p
  BY DEF LookupComplete
<1>1. PICK w, hd, nx, fr, pr, t :
        w = Walks /\ hd = head /\ nx = next /\ fr = isFree /\ pr = priority /\ t = table
  OBVIOUS
<1>2. /\ Tidy(w, hd, nx, fr, pr) /\ Clean(t)
      /\ {n \in Nodes : ~fr[n]} = In(w) /\ InTable(t) = {pr[n] : n \in In(w)}
  BY <1>1 DEF IInv, Good, Books
<1>3. ScopeRight
  <2>1. {priority[i] : i \in LinkedNodes} = InTable(t)
    BY <1>1, <1>2, LinkedNodesAre
  <2>2. InTable(t) # {} => /\ HasHighest(t) /\ Highest(t) = MostUrgent(InTable(t))
                           /\ HasLowest(t) /\ Lowest(t) = LeastUrgent(InTable(t))
    BY <1>2, ScanTable
  <2> QED
    BY <1>1, <2>1, <2>2 DEF ScopeRight
<1>4. ASSUME NEW p \in Priorities
      PROVE  NodeNumberOf(p) # NoNode <=> \E i \in Nodes : ~isFree[i] /\ priority[i] = p
  <2>1. PICK f, b, S, F :
          /\ b = p % Buckets /\ f = w[b] /\ S = StepsOf(f, pr, p)
          /\ F = {k \in S : k < CheckScope}
    OBVIOUS
  <2>2. b \in BucketNumbers /\ StepsToPriority(p) = S /\ Visit(p) = f
    BY <1>1, <2>1, BucketOf, WordSizes, StepsToPriorityAre, VisitWalks
  <2>3. S \in SUBSET Nat /\ F \subseteq S /\ \A k \in S : k \in Steps /\ k < MaxNodeCount /\ f[k] # NoNode
    BY <2>1, StepsAreNumbers DEF StepsOf, Steps
  <2>4. F = S
    <3>1. ASSUME NEW k \in S PROVE k < CheckScope
      <4>1. k < MaxPriority \div Buckets + 1 /\ k < MaxNodeCount
        BY <1>2, <2>1, <2>2, <2>3, ShortChains
      <4> QED
        BY <4>1 DEF CheckScope
    <3> QED
      BY <2>1, <3>1
  <2>5. NodeNumberOf(p) = IF S = {} THEN NoNode ELSE f[Min(S)]
    BY <2>1, <2>2, <2>4 DEF NodeNumberOf
  <2>6. S # {} => f[Min(S)] # NoNode
    BY <2>3, MinProps
  <2>7. S # {} <=> \E n \in In(w) : pr[n] = p
    BY <1>2, <2>1, SearchFinds, SearchFindsNothing
  <2>8. (\E n \in In(w) : pr[n] = p) <=> \E i \in Nodes : ~isFree[i] /\ priority[i] = p
    BY <1>1, <1>2
  <2> QED
    BY <2>5, <2>6, <2>7, <2>8
<1> QED
  BY <1>3, <1>4

-----------------------------------------------------------------------------
(* Pushes and releases in any order leave chains that end, that hold only  *)
(* nodes of their bucket that are in use, and no priority twice: NodeAdd   *)
(* and NodePullAway never tie a knot, whatever the sizes.                  *)
THEOREM ChainsCorrect == Spec => []ChainsWellFormed
<1>1. Init => IInv
  BY InitGood
<1>2. IInv /\ [Next]_vars => IInv'
  BY NextGood
<1>3. IInv => ChainsWellFormed
  BY ChainsFromInv
<1> QED
  BY <1>1, <1>2, <1>3, PTL DEF Spec

(* The free marks, the count and the bit table say the same as the chains  *)
(* after every call: no push leaves a bit without a node, no release       *)
(* leaves a node without a bit.                                            *)
THEOREM BooksCorrect == Spec => []BooksAgree
<1>1. Init => IInv
  BY InitGood
<1>2. IInv /\ [Next]_vars => IInv'
  BY NextGood
<1>3. IInv => BooksAgree
  BY BooksFromInv
<1> QED
  BY <1>1, <1>2, <1>3, PTL DEF Spec

(* The scans of the table answer the most and the least urgent priority in *)
(* the queue, and the search of GetNodeNumberByPriority, cut off by the    *)
(* number of priorities a bucket can have, never misses a node.            *)
THEOREM LookupCorrect == Spec => []LookupComplete
<1>1. Init => IInv
  BY InitGood
<1>2. IInv /\ [Next]_vars => IInv'
  BY NextGood
<1>3. IInv => LookupComplete
  BY LookupFromInv
<1> QED
  BY <1>1, <1>2, <1>3, PTL DEF Spec

(* Every push, release and pop is one of PriorityMap's, with the same      *)
(* answer, except that mPriorityQueuePush refuses the replacements while   *)
(* every node is taken: the one exception, however large the queue.  With  *)
(* a largest priority of 0 PriorityTableInit answers FALSE and the queue   *)
(* never becomes ready: that case is excluded.                             *)
THEOREM MapCorrect ==
  ASSUME MaxPriority # 0
  PROVE  Spec => ImplementsMapUnlessFull
<1>1. Init => IInv /\ Map!Init
  BY InitGood
<1>2. IInv /\ [Next]_vars => IInv' /\ [Map!NextUnlessFull]_(Map!vars)
  BY NextGood
<1> QED
  BY <1>1, <1>2, PTL DEF Spec, ImplementsMapUnlessFull, Map!UnlessFullSpec

-----------------------------------------------------------------------------
(* The single list: a pool of as many nodes, with one chain in the order   *)
(* of the list.  Its users see the sequence of what the nodes hold.        *)
CONSTANTS ListLimit, Values
VARIABLES isInitOK, current_head_node_number, used_node_num,
          isFreeInList, NextPtr, extern_information, request, result

List == INSTANCE ListNode WITH ValidNodeNumber <- MaxNodeCount, NodeLimit <- ListLimit,
                               Null <- NoNode, isFree <- isFreeInList

\* What ListNodeAssumption asks besides what PriorityQueueAssumption does.
ListGiven == ListLimit \in Nat /\ 0 \in Values

(* The walk without end that NodeAt is: the last places of all walks. *)
EndlessWalk(f, h, nx) ==
  f = [k \in Nat |-> IF k = 0 THEN h
                     ELSE IF f[k - 1] = NoNode THEN NoNode ELSE nx[f[k - 1]]]

LEMMA EndlessExists ==
  ASSUME NEW h, NEW nx
  PROVE  \E f : EndlessWalk(f, h, nx)
<1> DEFINE P(n) == CHOOSE f : PartWalk(f, n, h, nx)
           F == [n \in Nat |-> P(n)[n]]
<1>1. ASSUME NEW n \in Nat PROVE PartWalk(P(n), n, h, nx)
  BY PartExists
<1>2. ASSUME NEW n \in Nat PROVE P(n + 1)[n] = P(n)[n]
  <2>1. PICK f, g : f = P(n) /\ g = P(n + 1)
    OBVIOUS
  <2>2. PartWalk(f, n, h, nx) /\ PartWalk(g, n + 1, h, nx)
    BY <1>1, <2>1
  <2>3. PICK e : e = [k \in 0 .. n |-> g[k]]
    OBVIOUS
  <2>4. \A k \in 0 .. n + 1 : g[k] = IF k = 0 THEN h
                       ELSE IF g[k - 1] = NoNode THEN NoNode ELSE nx[g[k - 1]]
    BY <2>2 DEF PartWalk
  <2>5. \A k \in 0 .. n : e[k] = IF k = 0 THEN h
                       ELSE IF e[k - 1] = NoNode THEN NoNode ELSE nx[e[k - 1]]
    <3>1. \A k \in 0 .. n : k \in 0 .. n + 1 /\ (k # 0 => k - 1 \in 0 .. n)
      OBVIOUS
    <3> QED
      BY <2>3, <2>4, <3>1
  <2>6. PartWalk(e, n, h, nx)
    BY <2>3, <2>5 DEF PartWalk
  <2>7. e = f
    BY <2>2, <2>6, PartUnique
  <2>8. n \in 0 .. n /\ e[n] = g[n]
    BY <2>3
  <2> HIDE DEF P
  <2> QED
    BY <2>1, <2>7, <2>8
<1>3. ASSUME NEW k \in Nat
      PROVE  F[k] = IF k = 0 THEN h
                    ELSE IF F[k - 1] = NoNode THEN NoNode ELSE nx[F[k - 1]]
  <2>1. CASE k = 0
    <3>1. PICK f : f = P(0)
      OBVIOUS
    <3>2. PartWalk(f, 0, h, nx)
      BY <1>1, <3>1
    <3>3. f[0] = h
      BY <3>2 DEF PartWalk
    <3> QED
      BY <2>1, <3>1, <3>3
  <2>2. CASE k # 0
    <3>1. PICK m \in Nat : m = k - 1 /\ k = m + 1
      BY <2>2
    <3>2. PICK f : f = P(k)
      OBVIOUS
    <3>3. PartWalk(f, k, h, nx)
      BY <1>1, <3>2
    <3>4. f[k] = IF f[k - 1] = NoNode THEN NoNode ELSE nx[f[k - 1]]
      <4>1. k \in 0 .. k
        OBVIOUS
      <4> QED
        BY <2>2, <3>3, <4>1 DEF PartWalk
    <3>5. f[m] = F[m] /\ F[k] = f[k]
      BY <1>2, <3>1, <3>2
    <3> HIDE DEF F
    <3> QED
      BY <2>2, <3>1, <3>4, <3>5
  <2> QED
    BY <2>1, <2>2
<1>4. EndlessWalk(F, h, nx)
  <2>1. F = [k \in Nat |-> F[k]]
    OBVIOUS
  <2> HIDE DEF F
  <2> QED
    BY <1>3, <2>1 DEF EndlessWalk
<1> HIDE DEF F
<1> QED
  BY <1>4

LEMMA NodeAtIs ==
  /\ List!NodeAt[0] = current_head_node_number
  /\ \A k \in Nat : List!NodeAt[k + 1] = IF List!NodeAt[k] = NoNode THEN NoNode
                                         ELSE NextPtr[List!NodeAt[k]]
<1>1. PICK f : EndlessWalk(f, current_head_node_number, NextPtr)
  BY EndlessExists
<1>2. EndlessWalk(List!NodeAt, current_head_node_number, NextPtr)
  BY <1>1 DEF List!NodeAt, EndlessWalk
<1>3. PICK g : g = List!NodeAt
  OBVIOUS
<1>4. EndlessWalk(g, current_head_node_number, NextPtr)
  BY <1>2, <1>3
<1>5. \A k \in Nat : g[k] = IF k = 0 THEN current_head_node_number
                     ELSE IF g[k - 1] = NoNode THEN NoNode ELSE NextPtr[g[k - 1]]
  BY <1>4 DEF EndlessWalk
<1>6. \A k \in Nat : k + 1 \in Nat /\ k + 1 # 0 /\ (k + 1) - 1 = k
  OBVIOUS
<1> QED
  BY <1>3, <1>5, <1>6

(* NodeAt goes as a walk does, as far as the walk goes. *)
LEMMA NodeAtByWalk ==
  \A f : IsWalk(f, current_head_node_number, NextPtr)
           => \A k \in Steps : List!NodeAt[k] = f[k]
<1> SUFFICES ASSUME NEW f, IsWalk(f, current_head_node_number, NextPtr)
             PROVE  \A k \in Steps : List!NodeAt[k] = f[k]
  OBVIOUS
<1>1. PICK g, h, nx : g = List!NodeAt /\ h = current_head_node_number /\ nx = NextPtr
  OBVIOUS
<1>2. g[0] = h /\ \A k \in Nat : g[k + 1] = IF g[k] = NoNode THEN NoNode ELSE nx[g[k]]
  BY <1>1, NodeAtIs
<1>3. IsWalk(f, h, nx)
  BY <1>1
<1> DEFINE Same == {k \in Nat : k \in Steps => g[k] = f[k]}
<1>4. 0 \in Same
  BY <1>2, <1>3, WalkSteps
<1>5. ASSUME NEW k \in Nat, k \in Same PROVE k + 1 \in Same
  <2>1. CASE k + 1 \in Steps
    <3>1. k + 1 # 0 /\ (k + 1) - 1 = k
      OBVIOUS
    <3>2. k \in Steps /\ f[k + 1] = IF f[k] = NoNode THEN NoNode ELSE nx[f[k]]
      BY <1>3, <2>1, <3>1, WalkSteps
    <3> QED
      BY <1>2, <1>5, <3>2
  <2> QED
    BY <2>1
<1>6. Nat \subseteq Same
  <2> HIDE DEF Same
  <2> QED
    BY <1>4, <1>5, InductionInSet
<1> QED
  BY <1>1, <1>6, StepsAreNumbers

(* A list of u nodes: the nodes that are not free, in the order of f.  The *)
(* head of an empty list is any node.                                      *)
Linked(f, hd, nx, fr, u) ==
  /\ hd \in Nodes /\ nx \in [Nodes -> MaybeNode]
  /\ fr \in [Nodes -> BOOLEAN] /\ u \in 0 .. MaxNodeCount
  /\ IsWalk(f, IF u = 0 THEN NoNode ELSE hd, nx)
  /\ \A k \in Steps : f[k] # NoNode <=> k < u
  /\ Visited(f) = {n \in Nodes : ~fr[n]} /\ Cardinality(Visited(f)) = u
  /\ \A n \in Nodes : fr[n] => nx[n] = NoNode

LEMMA LinkedProps ==
  ASSUME NEW f, NEW hd, NEW nx, NEW fr, NEW u, Linked(f, hd, nx, fr, u)
  PROVE  /\ f \in [Steps -> MaybeNode] /\ f[MaxNodeCount] = NoNode /\ f[u] = NoNode
         /\ MaxNodeCount \in Nat \ {0} /\ u \in Steps /\ u \in Nat /\ u <= MaxNodeCount
         /\ \A k \in Steps : k \in Nat /\ k <= MaxNodeCount
         /\ \A k \in Steps : k < u => f[k] \in Nodes /\ ~fr[f[k]]
         /\ \A j, k \in Steps : j < u /\ f[j] = f[k] => j = k
<1>1. MaxNodeCount \in Nat \ {0} /\ MaxNodeCount \in Steps /\ u \in Steps /\ u \in Nat
      /\ u <= MaxNodeCount /\ \A k \in Steps : k \in Nat /\ k <= MaxNodeCount
  BY StepsAreNumbers DEF Linked, Steps
<1>2. PICK h : h \in MaybeNode /\ h = (IF u = 0 THEN NoNode ELSE hd)
  BY DEF Linked, MaybeNode
<1>3. IsWalk(f, h, nx) /\ nx \in [Nodes -> MaybeNode]
  BY <1>2 DEF Linked
<1>4. f \in [Steps -> MaybeNode]
  BY <1>2, <1>3, WalkTyped
<1>5. f[MaxNodeCount] = NoNode /\ f[u] = NoNode
  BY <1>1 DEF Linked
<1>6. \A k \in Steps : k < u => f[k] \in Nodes /\ ~fr[f[k]]
  <2>1. \A k \in Steps : k < u => f[k] \in Visited(f)
    BY SomeVisited DEF Linked
  <2> QED
    BY <2>1 DEF Linked
<1>7. \A j, k \in Steps : j < u /\ f[j] = f[k] => j = k
  BY <1>3, <1>5, WalkOnce DEF Linked
<1> QED
  BY <1>1, <1>4, <1>5, <1>6, <1>7

Inserting(f, hd, nx, fr, u, i, place, hd2, mx, fr2) ==
  /\ Linked(f, hd, nx, fr, u) /\ u < MaxNodeCount /\ place \in 0 .. u
  /\ i \in Nodes /\ fr[i] /\ fr2 = [fr EXCEPT ![i] = FALSE]
  /\ hd2 = IF place = 0 THEN i ELSE hd
  /\ mx = [n \in Nodes |-> IF n = i THEN f[place]
                           ELSE IF place > 0 /\ n = f[place - 1] THEN i ELSE nx[n]]

ShiftedUp(f, place, i, g) ==
  \A k \in Steps : g[k] = IF k < place THEN f[k] ELSE IF k = place THEN i ELSE f[k - 1]

LEMMA InsertLinked ==
  ASSUME NEW f, NEW hd, NEW nx, NEW fr, NEW u, NEW i, NEW place, NEW hd2, NEW mx, NEW fr2,
         Inserting(f, hd, nx, fr, u, i, place, hd2, mx, fr2)
  PROVE  \E g : Linked(g, hd2, mx, fr2, u + 1) /\ ShiftedUp(f, place, i, g)
<1> DEFINE g == [k \in Steps |-> IF k < place THEN f[k] ELSE IF k = place THEN i ELSE f[k - 1]]
<1>0. /\ Linked(f, hd, nx, fr, u) /\ u < MaxNodeCount /\ place \in 0 .. u /\ place \in Nat
      /\ i \in Nodes /\ fr[i] /\ fr2 = [fr EXCEPT ![i] = FALSE]
      /\ i # NoNode
  BY PriorityQueueAssumption, LinkedProps DEF Inserting
<1>1. /\ f \in [Steps -> MaybeNode] /\ f[MaxNodeCount] = NoNode /\ f[u] = NoNode
      /\ MaxNodeCount \in Nat \ {0} /\ u \in Steps /\ u \in Nat
      /\ \A k \in Steps : k \in Nat /\ k <= MaxNodeCount
      /\ \A k \in Steps : k < u => f[k] \in Nodes /\ ~fr[f[k]]
      /\ \A j, k \in Steps : j < u /\ f[j] = f[k] => j = k
  BY <1>0, LinkedProps
<1>2. PICK h : h = (IF u = 0 THEN NoNode ELSE hd) /\ IsWalk(f, h, nx)
  BY <1>0 DEF Linked
<1>3. /\ f[0] = h /\ \A k \in Steps : k # 0 =>
           k - 1 \in Steps /\ f[k] = IF f[k - 1] = NoNode THEN NoNode ELSE nx[f[k - 1]]
  BY <1>2, WalkSteps
<1>4. /\ nx \in [Nodes -> MaybeNode] /\ fr \in [Nodes -> BOOLEAN] /\ hd \in Nodes
      /\ \A k \in Steps : f[k] # NoNode <=> k < u
      /\ Visited(f) = {n \in Nodes : ~fr[n]} /\ Cardinality(Visited(f)) = u
      /\ \A n \in Nodes : fr[n] => nx[n] = NoNode
  BY <1>0 DEF Linked
<1>5. place \in Steps /\ place <= u /\ place + 1 \in Steps
      /\ (place # 0 => place - 1 \in Steps /\ f[place - 1] \in Nodes /\ f[place - 1] # i
                       /\ f[place - 1] # NoNode)
  BY <1>0, <1>1, <1>3, PriorityQueueAssumption DEF Steps
<1>6. \A k \in Steps : f[k] # i
  BY <1>0, <1>1, <1>4
<1>7. /\ mx[i] = f[place] /\ (place # 0 => mx[f[place - 1]] = i)
      /\ \A n \in Nodes : n # i /\ (place # 0 => n # f[place - 1]) => mx[n] = nx[n]
  <2>1. mx = [n \in Nodes |-> IF n = i THEN f[place]
                              ELSE IF place > 0 /\ n = f[place - 1] THEN i ELSE nx[n]]
    BY DEF Inserting
  <2> QED
    BY <1>0, <1>5, <2>1
<1>8. ASSUME NEW k \in Steps, k # 0
      PROVE  g[k] = IF g[k - 1] = NoNode THEN NoNode ELSE mx[g[k - 1]]
  <2>0. k - 1 \in Steps /\ k \in Nat /\ f[k] = IF f[k - 1] = NoNode THEN NoNode ELSE nx[f[k - 1]]
    BY <1>1, <1>3, <1>8
  <2>1. CASE k < place
    <3>1. g[k] = f[k] /\ g[k - 1] = f[k - 1] /\ k - 1 # place - 1 /\ k - 1 < u
      BY <1>0, <1>1, <2>0, <2>1
    <3>2. f[k - 1] # f[place - 1] /\ f[k - 1] \in Nodes /\ f[k - 1] # i /\ f[k - 1] # NoNode
      BY <1>0, <1>1, <1>4, <1>5, <1>6, <2>0, <2>1, <3>1
    <3> QED
      BY <1>7, <2>0, <3>1, <3>2
  <2>2. CASE k = place
    <3>1. g[k] = i /\ g[k - 1] = f[place - 1]
      BY <1>0, <2>0, <2>2
    <3> QED
      BY <1>5, <1>7, <1>8, <2>2, <3>1
  <2>3. CASE k = place + 1
    <3>1. g[k] = f[place] /\ g[k - 1] = i
      BY <1>0, <2>0, <2>3
    <3> QED
      BY <1>0, <1>7, <3>1
  <2>4. CASE k > place + 1
    <3>1. g[k] = f[k - 1] /\ g[k - 1] = f[(k - 1) - 1] /\ k - 1 # 0 /\ (k - 1) - 1 \in Nat
      BY <1>0, <2>0, <2>4
    <3>2. /\ (k - 1) - 1 \in Steps
          /\ f[k - 1] = IF f[(k - 1) - 1] = NoNode THEN NoNode ELSE nx[f[(k - 1) - 1]]
      BY <1>3, <2>0, <3>1
    <3>3. CASE f[(k - 1) - 1] = NoNode
      BY <3>1, <3>2, <3>3
    <3>4. CASE f[(k - 1) - 1] # NoNode
      <4>1. (k - 1) - 1 < u /\ (k - 1) - 1 # place - 1
        BY <1>0, <1>4, <2>0, <2>4, <3>2, <3>4
      <4>2. /\ f[(k - 1) - 1] \in Nodes /\ f[(k - 1) - 1] # i
            /\ (place # 0 => f[(k - 1) - 1] # f[place - 1])
        BY <1>1, <1>5, <1>6, <3>2, <4>1
      <4> QED
        BY <1>7, <3>1, <3>2, <3>4, <4>2
    <3> QED
      BY <3>3, <3>4
  <2> QED
    BY <1>0, <2>0, <2>1, <2>2, <2>3, <2>4
<1>9. g[0] = hd2 /\ g = [k \in Steps |-> g[k]]
  <2>1. 0 \in Steps
    BY <1>1 DEF Steps
  <2>2. place # 0 => u # 0 /\ f[0] = hd
    BY <1>0, <1>1, <1>2, <1>3
  <2> QED
    BY <1>0, <2>1, <2>2 DEF Inserting
<1>10. ASSUME NEW k \in Steps PROVE g[k] # NoNode <=> k < u + 1
  <2>1. CASE k < place
    BY <1>0, <1>1, <1>4, <2>1
  <2>2. CASE k = place
    BY <1>0, <1>1, <2>2
  <2>3. CASE k > place
    <3>1. k - 1 \in Steps /\ k \in Nat /\ g[k] = f[k - 1]
      BY <1>0, <1>1, <1>3, <2>3
    <3> QED
      BY <1>1, <1>4, <3>1
  <2> QED
    BY <1>0, <1>1, <2>1, <2>2, <2>3
<1>11. Visited(g) = Visited(f) \cup {i}
  <2>1. \A k \in Steps : g[k] \in {i, f[k]} \/ \E j \in Steps : g[k] = f[j]
    BY <1>0, <1>1, <1>3
  <2>2. g[place] = i
    BY <1>0, <1>5
  <2>3. ASSUME NEW k \in Steps, f[k] # NoNode PROVE \E j \in Steps : g[j] = f[k]
    <3>1. CASE k < place
      <4>1. g[k] = f[k]
        BY <3>1
      <4> QED
        BY <4>1
    <3>2. CASE k >= place
      <4>1. k + 1 \in Steps /\ ~(k + 1 < place) /\ k + 1 # place /\ (k + 1) - 1 = k
        <5>1. k < u /\ k \in Nat
          BY <1>1, <1>4, <2>3
        <5> QED
          BY <1>0, <1>1, <3>2, <5>1 DEF Steps
      <4>2. g[k + 1] = f[k]
        BY <4>1
      <4> QED
        BY <4>1, <4>2
    <3> QED
      BY <1>0, <1>1, <3>1, <3>2
  <2> HIDE DEF g
  <2> QED
    BY <1>0, <1>5, <2>1, <2>2, <2>3 DEF Visited
<1>12. \A k \in Steps : g[k] = IF k < place THEN f[k] ELSE IF k = place THEN i ELSE f[k - 1]
  OBVIOUS
<1> HIDE DEF g
<1>13. IsWalk(g, hd2, mx)
  BY <1>8, <1>9, WalkBySteps
<1>14. /\ fr2 \in [Nodes -> BOOLEAN]
       /\ \A n \in Nodes : fr2[n] = IF n = i THEN FALSE ELSE fr[n]
  BY <1>0, <1>4
<1>15. Visited(g) = {n \in Nodes : ~fr2[n]}
  BY <1>0, <1>4, <1>11, <1>14
<1>16. Cardinality(Visited(g)) = u + 1
  <2>1. i \notin Visited(f) /\ Visited(f) \subseteq Nodes
    BY <1>0, <1>4
  <2>2. IsFiniteSet(Visited(f))
    BY <2>1, PoolSize, FS_Subset
  <2> QED
    BY <1>4, <1>11, <2>1, <2>2, FS_AddElement
<1>17. \A n \in Nodes : fr2[n] => mx[n] = NoNode
  <2>1. place # 0 => ~fr[f[place - 1]]
    BY <1>0, <1>1, <1>5
  <2> QED
    BY <1>4, <1>7, <1>14, <2>1
<1>18. hd2 \in Nodes /\ mx \in [Nodes -> MaybeNode] /\ u + 1 \in 0 .. MaxNodeCount /\ u + 1 # 0
  <2>1. mx = [n \in Nodes |-> IF n = i THEN f[place]
                              ELSE IF place > 0 /\ n = f[place - 1] THEN i ELSE nx[n]]
    BY DEF Inserting
  <2>2. f[place] \in MaybeNode /\ i \in MaybeNode
    BY <1>0, <1>1, <1>5 DEF MaybeNode
  <2>3. mx \in [Nodes -> MaybeNode]
    BY <1>4, <2>1, <2>2
  <2> QED
    BY <1>0, <1>1, <1>4, <2>3 DEF Inserting
<1>19. Linked(g, hd2, mx, fr2, u + 1)
  BY <1>10, <1>13, <1>14, <1>15, <1>16, <1>17, <1>18 DEF Linked
<1> QED
  BY <1>12, <1>19 DEF ShiftedUp

Dropping(f, hd, nx, fr, u, place, hd2, mx, fr2) ==
  /\ Linked(f, hd, nx, fr, u) /\ u # 0 /\ place \in 0 .. u - 1
  /\ fr2 = [fr EXCEPT ![f[place]] = TRUE]
  /\ hd2 = IF place = 0 /\ f[1] # NoNode THEN f[1] ELSE hd
  /\ mx = [n \in Nodes |-> IF n = f[place] THEN NoNode
                           ELSE IF place > 0 /\ n = f[place - 1] THEN f[place + 1] ELSE nx[n]]

ShiftedDown(f, place, u, g) ==
  \A k \in 0 .. u - 2 : g[k] = IF k < place THEN f[k] ELSE f[k + 1]

LEMMA DropLinked ==
  ASSUME NEW f, NEW hd, NEW nx, NEW fr, NEW u, NEW place, NEW hd2, NEW mx, NEW fr2,
         Dropping(f, hd, nx, fr, u, place, hd2, mx, fr2)
  PROVE  \E g : Linked(g, hd2, mx, fr2, u - 1) /\ ShiftedDown(f, place, u, g)
<1>0. /\ Linked(f, hd, nx, fr, u) /\ u # 0 /\ place \in 0 .. u - 1 /\ place \in Nat
      /\ fr2 = [fr EXCEPT ![f[place]] = TRUE]
  BY LinkedProps DEF Dropping
<1>1. /\ f \in [Steps -> MaybeNode] /\ f[MaxNodeCount] = NoNode /\ f[u] = NoNode
      /\ MaxNodeCount \in Nat \ {0} /\ u \in Steps /\ u \in Nat /\ u <= MaxNodeCount
      /\ \A k \in Steps : k \in Nat /\ k <= MaxNodeCount
      /\ \A k \in Steps : k < u => f[k] \in Nodes /\ ~fr[f[k]]
      /\ \A j, k \in Steps : j < u /\ f[j] = f[k] => j = k
  BY <1>0, LinkedProps
<1>2. IsWalk(f, hd, nx)
  BY <1>0 DEF Linked
<1>3. /\ f[0] = hd /\ \A k \in Steps : k # 0 =>
           k - 1 \in Steps /\ f[k] = IF f[k - 1] = NoNode THEN NoNode ELSE nx[f[k - 1]]
  BY <1>2, WalkSteps
<1>4. /\ nx \in [Nodes -> MaybeNode] /\ fr \in [Nodes -> BOOLEAN] /\ hd \in Nodes
      /\ \A k \in Steps : f[k] # NoNode <=> k < u
      /\ Visited(f) = {n \in Nodes : ~fr[n]} /\ Cardinality(Visited(f)) = u
      /\ \A n \in Nodes : fr[n] => nx[n] = NoNode
  BY <1>0 DEF Linked
<1>5. /\ 0 \in Steps /\ place \in Steps /\ place < u /\ place + 1 \in Steps /\ 1 \in Steps
      /\ f[place] \in Nodes /\ f[place] # NoNode /\ f[place + 1] = nx[f[place]]
      /\ f[1] = nx[f[0]]
  <2>1. 0 \in Steps /\ place \in Steps /\ place < u /\ place + 1 \in Steps /\ 1 \in Steps
    BY <1>0, <1>1 DEF Steps
  <2>2. f[place] \in Nodes /\ f[place] # NoNode /\ f[0] # NoNode
    BY <1>1, <1>4, <2>1
  <2>3. place + 1 # 0 /\ (place + 1) - 1 = place /\ 1 # 0 /\ 1 - 1 = 0
    BY <1>0
  <2> QED
    BY <1>3, <2>1, <2>2, <2>3
<1>6. place # 0 => /\ place - 1 \in Steps /\ place - 1 < u
                   /\ f[place - 1] \in Nodes /\ f[place - 1] # f[place]
  <2> SUFFICES ASSUME place # 0
      PROVE  /\ place - 1 \in Steps /\ place - 1 < u
             /\ f[place - 1] \in Nodes /\ f[place - 1] # f[place]
    OBVIOUS
  <2>1. place - 1 \in Steps /\ place - 1 < u /\ place - 1 # place
    BY <1>0, <1>1, <1>3, <1>5
  <2> QED
    BY <1>1, <1>5, <2>1
<1>7. mx = [n \in Nodes |-> IF n = f[place] THEN NoNode
                           ELSE IF place > 0 /\ n = f[place - 1] THEN f[place + 1] ELSE nx[n]]
  BY DEF Dropping
<1>8. PICK h2 : IF place = 0 THEN h2 = nx[f[0]] ELSE h2 = hd
  OBVIOUS
<1>9. Unlinking(f, hd, nx, place, h2, mx)
  <2>1. CASE place = 0
    <3>1. mx = [nx EXCEPT ![f[0]] = NoNode]
      <4>1. PICK y : y = f[place] /\ y = f[0] /\ y \in Nodes
        BY <1>5, <2>1
      <4>2. mx = [n \in Nodes |-> IF n = y THEN NoNode ELSE nx[n]]
        BY <1>7, <2>1, <4>1
      <4>3. mx = [nx EXCEPT ![y] = NoNode]
        BY <1>4, <4>1, <4>2
      <4> QED
        BY <4>1, <4>3
    <3> QED
      BY <1>1, <1>2, <1>4, <1>5, <1>8, <2>1, <3>1 DEF Unlinking, MaybeNode
  <2>2. CASE place # 0
    <3>1. mx = [nx EXCEPT ![f[place - 1]] = nx[f[place]], ![f[place]] = NoNode]
      <4>1. PICK x, y : x = f[place - 1] /\ y = f[place]
        OBVIOUS
      <4>2. x \in Nodes /\ y \in Nodes /\ x # y /\ place > 0 /\ f[place + 1] = nx[y]
        BY <1>0, <1>5, <1>6, <2>2, <4>1
      <4>3. mx = [n \in Nodes |-> IF n = y THEN NoNode ELSE IF n = x THEN nx[y] ELSE nx[n]]
        BY <1>7, <4>1, <4>2
      <4>4. mx = [nx EXCEPT ![x] = nx[y], ![y] = NoNode]
        BY <1>4, <4>2, <4>3
      <4> QED
        BY <4>1, <4>4
    <3> QED
      BY <1>1, <1>2, <1>4, <1>5, <1>8, <2>2, <3>1 DEF Unlinking, MaybeNode
  <2> QED
    BY <2>1, <2>2
<1>10. PICK g : /\ IsWalk(g, h2, mx) /\ g[MaxNodeCount] = NoNode
                /\ Visited(g) = Visited(f) \ {f[place]}
                /\ \A a \in Steps : g[a] = IF a < place THEN f[a]
                                    ELSE IF a < MaxNodeCount THEN f[a + 1] ELSE NoNode
  BY <1>9, UnlinkAt
<1>11. ASSUME NEW k \in Steps PROVE g[k] # NoNode <=> k < u - 1
  <2>0. k \in Nat /\ k <= MaxNodeCount
    BY <1>1
  <2>1. CASE k < place
    BY <1>0, <1>1, <1>4, <1>10, <2>0, <2>1
  <2>2. CASE k >= place /\ k < MaxNodeCount
    <3>1. k + 1 \in Steps /\ g[k] = f[k + 1]
      BY <1>0, <1>1, <1>10, <2>0, <2>2 DEF Steps
    <3> QED
      BY <1>1, <1>4, <2>0, <3>1
  <2>3. CASE k = MaxNodeCount
    BY <1>1, <1>10, <2>3
  <2> QED
    BY <1>0, <1>1, <2>0, <2>1, <2>2, <2>3
<1>12. /\ fr2 \in [Nodes -> BOOLEAN]
       /\ \A n \in Nodes : fr2[n] = IF n = f[place] THEN TRUE ELSE fr[n]
  BY <1>0, <1>4, <1>5
<1>13. Visited(g) = {n \in Nodes : ~fr2[n]}
  BY <1>4, <1>10, <1>12
<1>14. Cardinality(Visited(g)) = u - 1
  <2>1. f[place] \in Visited(f) /\ Visited(f) \subseteq Nodes
    BY <1>4, <1>5, SomeVisited
  <2>2. IsFiniteSet(Visited(f))
    BY <2>1, PoolSize, FS_Subset
  <2> QED
    BY <1>4, <1>10, <2>1, <2>2, FS_RemoveElement
<1>15. \A n \in Nodes : fr2[n] => mx[n] = NoNode
  <2>1. place # 0 => ~fr2[f[place - 1]]
    BY <1>1, <1>6, <1>12
  <2> QED
    BY <1>0, <1>4, <1>7, <1>12, <2>1
<1>16. h2 = IF u - 1 = 0 THEN NoNode ELSE hd2
  <2>1. CASE place = 0
    <3>1. h2 = f[1] /\ (f[1] # NoNode <=> 1 < u)
      BY <1>4, <1>5, <1>8, <2>1
    <3>2. f[1] # NoNode => hd2 = f[1]
      BY <2>1 DEF Dropping
    <3>3. u - 1 = 0 <=> ~(1 < u)
      BY <1>0, <1>1
    <3> QED
      BY <3>1, <3>2, <3>3
  <2>2. CASE place # 0
    <3>1. u - 1 # 0
      BY <1>0, <1>1, <2>2
    <3> QED
      BY <1>8, <2>2, <3>1 DEF Dropping
  <2> QED
    BY <2>1, <2>2
<1>17. hd2 \in Nodes /\ mx \in [Nodes -> MaybeNode] /\ u - 1 \in 0 .. MaxNodeCount
  <2>1. f[1] \in MaybeNode /\ f[place + 1] \in MaybeNode
    BY <1>1, <1>5
  <2>2. mx \in [Nodes -> MaybeNode]
    BY <1>4, <1>7, <2>1 DEF MaybeNode
  <2>3. hd2 \in Nodes
    BY <1>4, <2>1 DEF Dropping, MaybeNode
  <2> QED
    BY <1>0, <1>1, <2>2, <2>3
<1>18. Linked(g, hd2, mx, fr2, u - 1)
  BY <1>10, <1>11, <1>12, <1>13, <1>14, <1>15, <1>16, <1>17 DEF Linked
<1>19. ASSUME NEW k \in 0 .. u - 2 PROVE g[k] = IF k < place THEN f[k] ELSE f[k + 1]
  <2>1. k \in Steps /\ k < MaxNodeCount
    BY <1>1 DEF Steps
  <2> QED
    BY <1>10, <2>1
<1> QED
  BY <1>18, <1>19 DEF ShiftedDown

(* The sequence that users see. *)
Contents(f, u, info) == [i \in 1 .. u |-> info[f[i - 1]]]
ListOf == [i \in 1 .. used_node_num |-> extern_information[List!NodeAt[i - 1]]]

LEMMA ListIs ==
  /\ used_node_num = 0 => ListOf = << >>
  /\ \A f : Linked(f, current_head_node_number, NextPtr, isFreeInList, used_node_num)
              => ListOf = Contents(f, used_node_num, extern_information)
<1>1. used_node_num = 0 => ListOf = << >>
  BY DEF ListOf
<1>2. ASSUME NEW f,
             Linked(f, current_head_node_number, NextPtr, isFreeInList, used_node_num)
      PROVE  ListOf = Contents(f, used_node_num, extern_information)
  <2>1. PICK u : u = used_node_num /\ u \in 0 .. MaxNodeCount
    BY <1>2 DEF Linked
  <2>2. CASE u = 0
    <3>1. Contents(f, 0, extern_information) = << >>
      BY DEF Contents
    <3> QED
      BY <1>1, <2>1, <2>2, <3>1
  <2>3. CASE u # 0
    <3>1. IsWalk(f, current_head_node_number, NextPtr)
      BY <1>2, <2>1, <2>3 DEF Linked
    <3>2. \A k \in Steps : List!NodeAt[k] = f[k]
      BY <3>1, NodeAtByWalk
    <3>3. \A i \in 1 .. u : i - 1 \in Steps
      BY <2>1, StepsAreNumbers DEF Steps
    <3>4. \A i \in 1 .. u : List!NodeAt[i - 1] = f[i - 1]
      BY <3>2, <3>3
    <3> QED
      BY <2>1, <3>4 DEF ListOf, Contents
  <2> QED
    BY <2>2, <2>3
<1> QED
  BY <1>1, <1>2

LEMMA ListIsNext ==
  /\ used_node_num' = 0 => ListOf' = << >>
  /\ \A f : Linked(f, current_head_node_number', NextPtr', isFreeInList', used_node_num')
              => ListOf' = Contents(f, used_node_num', extern_information')
<1>1. (/\ used_node_num = 0 => ListOf = << >>
       /\ \A f : Linked(f, current_head_node_number, NextPtr, isFreeInList, used_node_num)
                   => ListOf = Contents(f, used_node_num, extern_information))'
  BY ListIs, PTL
<1> QED
  BY <1>1

LEMMA InsertAtIs ==
  ASSUME NEW s \in Seq(Values), NEW p \in 1 .. Len(s) + 1, NEW e \in Values
  PROVE  List!Refinement!InsertAt(s, p, e)
           = [j \in 1 .. Len(s) + 1 |-> IF j < p THEN s[j] ELSE IF j = p THEN e ELSE s[j - 1]]
<1>1. PICK n \in Nat : n = Len(s)
  OBVIOUS
<1>2. PICK a, b, c : a = SubSeq(s, 1, p - 1) /\ b = SubSeq(s, p, n) /\ c = a \o <<e>>
  OBVIOUS
<1>3. /\ p \in Nat /\ p # 0 /\ p <= n + 1 /\ \A j \in 1 .. n : s[j] \in Values
      /\ p - 1 \in Nat /\ n + 1 - p \in Nat
  BY <1>1
<1>4. /\ a \in Seq(Values) /\ Len(a) = p - 1 /\ \A j \in 1 .. p - 1 : a[j] = s[j]
  <2>1. \A j \in 1 .. p - 1 : s[j] \in Values
    BY <1>3
  <2> QED
    BY <1>2, <1>3, <2>1, SubSeqProperties
<1>5. /\ b \in Seq(Values) /\ Len(b) = n + 1 - p /\ \A j \in 1 .. n + 1 - p : b[j] = s[p + j - 1]
  <2>1. \A j \in p .. n : s[j] \in Values
    BY <1>3
  <2> QED
    BY <1>2, <1>3, <2>1, SubSeqProperties
<1>6. PICK e1 : e1 = <<e>> /\ e1 \in Seq(Values) /\ Len(e1) = 1 /\ e1[1] = e
  <2>1. <<e>> \in Seq(Values)
    OBVIOUS
  <2>2. Len(<<e>>) = 1 /\ <<e>>[1] = e
    OBVIOUS
  <2> QED
    BY <2>1, <2>2
<1>7. /\ c \in Seq(Values) /\ Len(c) = p
      /\ \A j \in 1 .. p : c[j] = IF j < p THEN s[j] ELSE e
  <2>1. /\ c \in Seq(Values) /\ Len(c) = Len(a) + Len(e1)
        /\ \A j \in 1 .. Len(a) + Len(e1) :
             c[j] = IF j <= Len(a) THEN a[j] ELSE e1[j - Len(a)]
    <3>1. c = a \o e1
      BY <1>2, <1>6
    <3> QED
      BY <1>4, <1>6, <3>1, ConcatProperties
  <2>2. (p - 1) + 1 = p
    BY <1>3
  <2>3. ASSUME NEW j \in 1 .. p PROVE c[j] = IF j < p THEN s[j] ELSE e
    <3>1. CASE j < p
      <4>1. j <= p - 1 /\ j \in 1 .. p - 1
        BY <1>3, <3>1
      <4> QED
        BY <1>4, <1>6, <2>1, <2>2, <3>1, <4>1
    <3>2. CASE j = p
      <4>1. ~(j <= p - 1) /\ j - (p - 1) = 1
        BY <1>3, <3>2
      <4> QED
        BY <1>4, <1>6, <2>1, <2>2, <3>2, <4>1
    <3> QED
      BY <1>3, <3>1, <3>2
  <2> QED
    BY <1>4, <1>6, <2>1, <2>2, <2>3
<1>8. PICK d : d = c \o b
  OBVIOUS
<1>9. /\ d \in Seq(Values) /\ Len(d) = n + 1
      /\ \A j \in 1 .. n + 1 : d[j] = IF j < p THEN s[j] ELSE IF j = p THEN e ELSE s[j - 1]
  <2>0. /\ d \in Seq(Values) /\ Len(d) = Len(c) + Len(b)
        /\ \A j \in 1 .. Len(c) + Len(b) :
             d[j] = IF j <= Len(c) THEN c[j] ELSE b[j - Len(c)]
    BY <1>5, <1>7, <1>8, ConcatProperties
  <2>1. /\ d \in Seq(Values) /\ Len(d) = p + (n + 1 - p)
        /\ \A j \in 1 .. p + (n + 1 - p) : d[j] = IF j <= p THEN c[j] ELSE b[j - p]
    BY ONLY <1>5, <1>7, <2>0
  <2>2. p + (n + 1 - p) = n + 1
    BY <1>3
  <2>3. ASSUME NEW j \in 1 .. n + 1
        PROVE  d[j] = IF j < p THEN s[j] ELSE IF j = p THEN e ELSE s[j - 1]
    <3>1. CASE j <= p
      <4>1. j \in 1 .. p
        BY <1>3, <3>1
      <4>2. d[j] = IF j < p THEN s[j] ELSE e
        BY <1>7, <2>1, <2>2, <3>1, <4>1
      <4> QED
        BY <1>3, <3>1, <4>2
    <3>2. CASE ~(j <= p)
      <4>1. j - p \in 1 .. n + 1 - p /\ p + (j - p) - 1 = j - 1 /\ ~(j < p) /\ j # p
        BY <1>3, <3>2
      <4>2. d[j] = b[j - p] /\ b[j - p] = s[p + (j - p) - 1]
        BY <1>5, <2>1, <2>2, <3>2, <4>1
      <4> QED
        BY <4>1, <4>2
    <3> QED
      BY <3>1, <3>2
  <2> QED
    BY <2>1, <2>2, <2>3
<1>10. List!Refinement!InsertAt(s, p, e) = d
  BY <1>1, <1>2, <1>8 DEF List!Refinement!InsertAt
<1>11. d = [j \in 1 .. n + 1 |-> d[j]]
  BY <1>9
<1> QED
  BY <1>1, <1>9, <1>10, <1>11

LEMMA RemoveAtIs ==
  ASSUME NEW s \in Seq(Values), NEW p \in 1 .. Len(s)
  PROVE  List!Refinement!RemoveAt(s, p)
           = [j \in 1 .. Len(s) - 1 |-> IF j < p THEN s[j] ELSE s[j + 1]]
<1>1. PICK n \in Nat : n = Len(s)
  OBVIOUS
<1>2. PICK a, b : a = SubSeq(s, 1, p - 1) /\ b = SubSeq(s, p + 1, n)
  OBVIOUS
<1>3. /\ p \in Nat /\ p # 0 /\ p <= n /\ \A j \in 1 .. n : s[j] \in Values
      /\ p - 1 \in Nat /\ n - p \in Nat
  BY <1>1
<1>4. /\ a \in Seq(Values) /\ Len(a) = p - 1 /\ \A j \in 1 .. p - 1 : a[j] = s[j]
  <2>1. \A j \in 1 .. p - 1 : s[j] \in Values
    BY <1>3
  <2> QED
    BY <1>2, <1>3, <2>1, SubSeqProperties
<1>5. /\ b \in Seq(Values) /\ Len(b) = n - p /\ \A j \in 1 .. n - p : b[j] = s[p + j]
  <2>1. \A j \in p + 1 .. n : s[j] \in Values
    BY <1>3
  <2>2. /\ b \in Seq(Values) /\ Len(b) = IF p + 1 <= n THEN n - (p + 1) + 1 ELSE 0
        /\ \A j \in 1 .. n - (p + 1) + 1 : b[j] = s[(p + 1) + j - 1]
    BY <1>2, <1>3, <2>1, SubSeqProperties
  <2>3. n - (p + 1) + 1 = n - p /\ \A j \in 1 .. n - p : (p + 1) + j - 1 = p + j
    BY <1>3
  <2>4. (IF p + 1 <= n THEN n - (p + 1) + 1 ELSE 0) = n - p
    BY <1>3
  <2> QED
    BY <2>2, <2>3, <2>4
<1>6. PICK d : d = a \o b
  OBVIOUS
<1>7. /\ d \in Seq(Values) /\ Len(d) = n - 1
      /\ \A j \in 1 .. n - 1 : d[j] = IF j < p THEN s[j] ELSE s[j + 1]
  <2>0. /\ d \in Seq(Values) /\ Len(d) = Len(a) + Len(b)
        /\ \A j \in 1 .. Len(a) + Len(b) :
             d[j] = IF j <= Len(a) THEN a[j] ELSE b[j - Len(a)]
    BY <1>4, <1>5, <1>6, ConcatProperties
  <2>1. /\ d \in Seq(Values) /\ Len(d) = (p - 1) + (n - p)
        /\ \A j \in 1 .. (p - 1) + (n - p) :
             d[j] = IF j <= p - 1 THEN a[j] ELSE b[j - (p - 1)]
    BY ONLY <1>4, <1>5, <2>0
  <2>2. (p - 1) + (n - p) = n - 1
    BY <1>3
  <2>3. ASSUME NEW j \in 1 .. n - 1 PROVE d[j] = IF j < p THEN s[j] ELSE s[j + 1]
    <3>1. CASE j < p
      <4>1. j <= p - 1 /\ j \in 1 .. p - 1
        BY <1>3, <3>1
      <4> QED
        BY <1>4, <2>1, <2>2, <3>1, <4>1
    <3>2. CASE ~(j < p)
      <4>1. ~(j <= p - 1) /\ j - (p - 1) \in 1 .. n - p /\ p + (j - (p - 1)) = j + 1
        BY <1>3, <3>2
      <4>2. d[j] = b[j - (p - 1)] /\ b[j - (p - 1)] = s[p + (j - (p - 1))]
        BY <1>5, <2>1, <2>2, <4>1
      <4> QED
        BY <3>2, <4>1, <4>2
    <3> QED
      BY <3>1, <3>2
  <2> QED
    BY <2>1, <2>2, <2>3
<1>8. List!Refinement!RemoveAt(s, p) = d
  BY <1>1, <1>2, <1>6 DEF List!Refinement!RemoveAt
<1>9. d = [j \in 1 .. n - 1 |-> d[j]]
  BY <1>7
<1> QED
  BY <1>1, <1>7, <1>8, <1>9

\* The list is as it should be, before and after every call.
ListGood(ok, hd, u, fr, nx, info) ==
  /\ ok \in BOOLEAN /\ hd \in Nodes /\ u \in 0 .. MaxNodeCount
  /\ fr \in [Nodes -> BOOLEAN] /\ nx \in [Nodes -> MaybeNode]
  /\ info \in [Nodes -> Values]
  /\ IF ok THEN \E f : Linked(f, hd, nx, fr, u) ELSE u = 0

LState == ListGood(isInitOK, current_head_node_number, used_node_num,
                   isFreeInList, NextPtr, extern_information)

LEMMA ListStays ==
  ASSUME LState, UNCHANGED <<List!manager, List!space>>
  PROVE  LState' /\ ListOf' = ListOf
<1>1. /\ isInitOK' = isInitOK /\ current_head_node_number' = current_head_node_number
      /\ used_node_num' = used_node_num /\ isFreeInList' = isFreeInList
      /\ NextPtr' = NextPtr /\ extern_information' = extern_information
  BY DEF List!manager, List!space
<1>2. LState'
  BY <1>1 DEF LState
<1>3. CASE isInitOK
  <2>1. PICK f : Linked(f, current_head_node_number, NextPtr, isFreeInList, used_node_num)
    BY <1>3 DEF LState, ListGood
  <2>2. Linked(f, current_head_node_number', NextPtr', isFreeInList', used_node_num')
    BY <1>1, <2>1
  <2>3. /\ ListOf = Contents(f, used_node_num, extern_information)
        /\ ListOf' = Contents(f, used_node_num', extern_information')
    BY <2>1, <2>2, ListIs, ListIsNext
  <2> QED
    BY <1>1, <1>2, <2>3
<1>4. CASE ~isInitOK
  <2>1. used_node_num = 0
    BY <1>4 DEF LState, ListGood
  <2> QED
    BY <1>1, <1>2, <2>1, ListIs, ListIsNext
<1> QED
  BY <1>3, <1>4

\* What a linked list shows: as many values as it has nodes.
LEMMA ContentsTyped ==
  ASSUME NEW f, NEW hd, NEW nx, NEW fr, NEW u, Linked(f, hd, nx, fr, u),
         NEW info \in [Nodes -> Values]
  PROVE  /\ Contents(f, u, info) \in Seq(Values) /\ Len(Contents(f, u, info)) = u
         /\ \A i \in 1 .. u : Contents(f, u, info)[i] = info[f[i - 1]]
<1>1. u \in Nat /\ \A i \in 1 .. u : i - 1 \in Steps /\ i - 1 < u /\ f[i - 1] \in Nodes
  <2>1. u \in Nat /\ u <= MaxNodeCount /\ MaxNodeCount \in Nat
    BY LinkedProps
  <2>2. \A i \in 1 .. u : i - 1 \in Steps /\ i - 1 < u
    BY <2>1 DEF Steps
  <2> QED
    BY <2>1, <2>2, LinkedProps
<1>2. \A i \in 1 .. u : info[f[i - 1]] \in Values
  BY <1>1
<1> QED
  BY <1>1, <1>2 DEF Contents

Storing(info, v) == info \in [Nodes -> Values] /\ v \in Values

LEMMA InsertContents ==
  ASSUME NEW f, NEW hd, NEW nx, NEW fr, NEW u, NEW i, NEW place, NEW hd2, NEW mx, NEW fr2,
         Inserting(f, hd, nx, fr, u, i, place, hd2, mx, fr2),
         NEW info, NEW v, Storing(info, v), NEW g, ShiftedUp(f, place, i, g)
  PROVE  Contents(g, u + 1, [info EXCEPT ![i] = v])
           = List!Refinement!InsertAt(Contents(f, u, info), place + 1, v)
<1>1. PICK s, info2 : s = Contents(f, u, info) /\ info2 = [info EXCEPT ![i] = v]
  OBVIOUS
<1>0. /\ Linked(f, hd, nx, fr, u) /\ i \in Nodes /\ fr[i] /\ place \in 0 .. u
      /\ u < MaxNodeCount /\ info \in [Nodes -> Values] /\ v \in Values
  BY DEF Inserting, Storing
<1>2. s \in Seq(Values) /\ Len(s) = u /\ \A j \in 1 .. u : s[j] = info[f[j - 1]]
  BY <1>0, <1>1, ContentsTyped
<1>3. u \in Nat /\ place \in Nat /\ place <= u /\ MaxNodeCount \in Nat
      /\ \A k \in Steps : k < u => f[k] \in Nodes /\ ~fr[f[k]]
  BY <1>0, LinkedProps
<1>4. /\ info2[i] = v /\ \A k \in Steps : k < u => info2[f[k]] = info[f[k]]
  BY <1>0, <1>1, <1>3
<1>5. ASSUME NEW j \in 1 .. u + 1
      PROVE  info2[g[j - 1]] = IF j < place + 1 THEN s[j]
                               ELSE IF j = place + 1 THEN v ELSE s[j - 1]
  <2>0. j - 1 \in Steps /\ j \in Nat
    BY <1>0, <1>3 DEF Steps
  <2>1. CASE j < place + 1
    <3>1. j \in 1 .. u /\ j - 1 < place /\ j - 1 < u
      BY <1>3, <2>1
    <3>2. g[j - 1] = f[j - 1]
      BY <2>0, <3>1 DEF ShiftedUp
    <3> QED
      BY <1>2, <1>4, <2>0, <2>1, <3>1, <3>2
  <2>2. CASE j = place + 1
    <3>1. ~(j < place + 1) /\ j - 1 = place /\ ~(j - 1 < place)
      BY <1>3, <2>2
    <3>2. g[j - 1] = i
      BY <2>0, <3>1 DEF ShiftedUp
    <3> QED
      BY <1>4, <2>2, <3>1, <3>2
  <2>3. CASE j > place + 1
    <3>1. /\ j - 1 \in 1 .. u /\ (j - 1) - 1 \in Steps /\ (j - 1) - 1 < u
          /\ ~(j - 1 < place) /\ j - 1 # place /\ ~(j < place + 1) /\ j # place + 1
      BY <1>0, <1>3, <2>3 DEF Steps
    <3>2. g[j - 1] = f[(j - 1) - 1] /\ s[j - 1] = info[f[(j - 1) - 1]]
      BY <1>2, <2>0, <3>1 DEF ShiftedUp
    <3> QED
      BY <1>4, <3>1, <3>2
  <2> QED
    BY <1>3, <2>0, <2>1, <2>2, <2>3
<1>6. List!Refinement!InsertAt(s, place + 1, v)
        = [j \in 1 .. u + 1 |-> IF j < place + 1 THEN s[j]
                                ELSE IF j = place + 1 THEN v ELSE s[j - 1]]
  <2>1. PICK p : p = place + 1 /\ p \in 1 .. u + 1
    BY <1>3
  <2>2. p \in 1 .. Len(s) + 1
    BY <1>2, <2>1
  <2>3. List!Refinement!InsertAt(s, p, v)
          = [j \in 1 .. Len(s) + 1 |-> IF j < p THEN s[j] ELSE IF j = p THEN v ELSE s[j - 1]]
    BY <1>0, <1>2, <2>2, InsertAtIs
  <2> QED
    BY <1>2, <2>1, <2>3
<1>7. Contents(g, u + 1, info2)
        = [j \in 1 .. u + 1 |-> IF j < place + 1 THEN s[j]
                                ELSE IF j = place + 1 THEN v ELSE s[j - 1]]
  BY <1>5 DEF Contents
<1> QED
  BY <1>1, <1>6, <1>7

LEMMA RemoveContents ==
  ASSUME NEW f, NEW hd, NEW nx, NEW fr, NEW u, NEW place, NEW hd2, NEW mx, NEW fr2,
         Dropping(f, hd, nx, fr, u, place, hd2, mx, fr2),
         NEW info \in [Nodes -> Values], NEW g, ShiftedDown(f, place, u, g)
  PROVE  Contents(g, u - 1, info)
           = List!Refinement!RemoveAt(Contents(f, u, info), place + 1)
<1>1. PICK s : s = Contents(f, u, info)
  OBVIOUS
<1>0. Linked(f, hd, nx, fr, u) /\ place \in 0 .. u - 1
  BY DEF Dropping
<1>2. s \in Seq(Values) /\ Len(s) = u /\ \A j \in 1 .. u : s[j] = info[f[j - 1]]
  BY <1>0, <1>1, ContentsTyped
<1>3. u \in Nat /\ place \in Nat /\ place < u
  BY <1>0, LinkedProps
<1>4. ASSUME NEW j \in 1 .. u - 1
      PROVE  info[g[j - 1]] = IF j < place + 1 THEN s[j] ELSE s[j + 1]
  <2>0. j - 1 \in 0 .. u - 2 /\ (j - 1) + 1 = (j + 1) - 1 /\ j \in 1 .. u /\ j + 1 \in 1 .. u
        /\ (j - 1 < place <=> j < place + 1)
    BY <1>3
  <2>1. g[j - 1] = IF j < place + 1 THEN f[j - 1] ELSE f[(j + 1) - 1]
    BY <2>0 DEF ShiftedDown
  <2> QED
    BY <1>2, <2>0, <2>1
<1>5. List!Refinement!RemoveAt(s, place + 1)
        = [j \in 1 .. u - 1 |-> IF j < place + 1 THEN s[j] ELSE s[j + 1]]
  <2>1. PICK p : p = place + 1 /\ p \in 1 .. u
    BY <1>3
  <2> QED
    BY <1>2, <2>1, RemoveAtIs
<1>6. Contents(g, u - 1, info)
        = [j \in 1 .. u - 1 |-> IF j < place + 1 THEN s[j] ELSE s[j + 1]]
  BY <1>4 DEF Contents
<1> QED
  BY <1>1, <1>5, <1>6

\* Somewhere there is a free node, and BorrowNode finds the first one.
LEMMA CanBorrow ==
  ASSUME NEW f, NEW hd, NEW nx, NEW u,
         Linked(f, hd, nx, isFreeInList, u), u < MaxNodeCount
  PROVE  /\ List!FreeNodes # {} /\ List!Borrowed \in Nodes
         /\ isFreeInList[List!Borrowed]
<1>1. List!FreeNodes = {n \in Nodes : isFreeInList[n]}
  BY DEF List!FreeNodes, List!Nodes, Nodes
<1>2. List!FreeNodes # {}
  <2>1. SUFFICES ASSUME List!FreeNodes = {} PROVE FALSE
    OBVIOUS
  <2>2. Visited(f) = Nodes /\ Cardinality(Visited(f)) = u /\ u \in 0 .. MaxNodeCount
    BY <1>1, <2>1 DEF Linked
  <2>3. Cardinality(Nodes) = MaxNodeCount
    BY PoolSize
  <2> QED
    BY <2>2, <2>3, StepsAreNumbers
<1>3. PICK m \in List!FreeNodes : \A n \in List!FreeNodes : m <= n
  <2>1. List!FreeNodes \in SUBSET Nat
    BY <1>1, StepsAreNumbers DEF Nodes
  <2> QED
    BY <1>2, <2>1, LeastElement
<1>4. List!Borrowed \in List!FreeNodes
  BY <1>3 DEF List!Borrowed
<1> QED
  BY <1>1, <1>2, <1>4

LEMMA LinkStep ==
  ASSUME LState, isInitOK, NEW place \in 0 .. used_node_num, NEW v \in Values,
         used_node_num < MaxNodeCount, List!Link(place, v)
  PROVE  /\ LState' /\ isInitOK' /\ result' = "APP_SUCCESSED"
         /\ ListOf' = List!Refinement!InsertAt(ListOf, place + 1, v)
<1>1. PICK f : Linked(f, current_head_node_number, NextPtr, isFreeInList, used_node_num)
  BY DEF LState, ListGood
<1>2. PICK hd, nx, fr, u, info :
        /\ hd = current_head_node_number /\ nx = NextPtr /\ fr = isFreeInList
        /\ u = used_node_num /\ info = extern_information
  OBVIOUS
<1>3. PICK hd2, mx, fr2, u2, info2 :
        /\ hd2 = current_head_node_number' /\ mx = NextPtr' /\ fr2 = isFreeInList'
        /\ u2 = used_node_num' /\ info2 = extern_information'
  OBVIOUS
<1>4. /\ Linked(f, hd, nx, fr, u) /\ info \in [Nodes -> Values] /\ u < MaxNodeCount
      /\ place \in 0 .. u
  BY <1>1, <1>2 DEF LState, ListGood
<1>5. /\ f \in [Steps -> MaybeNode] /\ f[u] = NoNode /\ u \in Nat /\ 0 \in Steps
      /\ place \in Nat /\ place <= u /\ place \in Steps
      /\ (place # 0 => place - 1 \in Steps /\ place - 1 < u)
      /\ \A k \in Steps : k < u => f[k] \in Nodes
  BY <1>4, LinkedProps DEF Steps
<1>6. u # 0 => IsWalk(f, hd, nx) /\ \A k \in Steps : List!NodeAt[k] = f[k]
  BY <1>2, <1>4, NodeAtByWalk DEF Linked
<1>7. PICK new : new = List!Borrowed /\ new \in Nodes /\ fr[new]
  BY <1>2, <1>4, CanBorrow
<1>8. PICK left : left = List!NodeAt[place - 1]
  OBVIOUS
<1>9. place > 0 => left = f[place - 1] /\ left \in Nodes /\ left # NoNode
                   /\ f[place] = nx[left]
  <2> SUFFICES ASSUME place > 0
      PROVE  left = f[place - 1] /\ left \in Nodes /\ left # NoNode /\ f[place] = nx[left]
    OBVIOUS
  <2>1. u # 0 /\ place # 0 /\ place - 1 \in Steps /\ place - 1 < u
    BY <1>5
  <2>2. left = f[place - 1] /\ left \in Nodes /\ left # NoNode
    BY <1>5, <1>6, <1>8, <2>1, PriorityQueueAssumption
  <2> QED
    BY <1>5, <1>6, <2>1, <2>2, WalkSteps
<1>10. PICK right : /\ right = IF place = u THEN NoNode
                               ELSE IF place = 0 THEN hd ELSE nx[left]
  OBVIOUS
<1>11. right = f[place]
  <2>1. CASE place = u
    BY <1>5, <1>10, <2>1
  <2>2. CASE place # u /\ place = 0
    BY <1>5, <1>6, <1>10, <2>2, WalkSteps
  <2>3. CASE place # u /\ place # 0
    <3>1. place > 0
      BY <1>5, <2>3
    <3> QED
      BY <1>9, <1>10, <2>3, <3>1
  <2> QED
    BY <2>1, <2>2, <2>3
<1>12. /\ fr2 = [fr EXCEPT ![new] = FALSE] /\ info2 = [info EXCEPT ![new] = v]
       /\ mx = [n \in List!Nodes |-> IF n = new THEN right
                                ELSE IF place > 0 /\ n = left THEN new ELSE nx[n]]
       /\ hd2 = (IF place = 0 THEN new ELSE hd)
       /\ u2 = u + 1 /\ result' = "APP_SUCCESSED" /\ isInitOK' = isInitOK
  <2>1. ~(place > 0 /\ left = NoNode)
    BY <1>9
  <2> QED
    BY <1>2, <1>3, <1>7, <1>8, <1>10, <2>1 DEF List!Link
<1>13. mx = [n \in Nodes |-> IF n = new THEN f[place]
                             ELSE IF place > 0 /\ n = f[place - 1] THEN new ELSE nx[n]]
  <2>1. List!Nodes = Nodes
    BY DEF List!Nodes, Nodes
  <2>2. CASE place > 0
    BY <1>9, <1>11, <1>12, <2>1, <2>2
  <2>3. CASE ~(place > 0)
    BY <1>11, <1>12, <2>1, <2>3
  <2> QED
    BY <2>2, <2>3
<1>14. Inserting(f, hd, nx, fr, u, new, place, hd2, mx, fr2)
  BY <1>4, <1>7, <1>12, <1>13 DEF Inserting
<1>15. PICK g : Linked(g, hd2, mx, fr2, u + 1) /\ ShiftedUp(f, place, new, g)
  BY <1>14, InsertLinked
<1>16. Contents(g, u + 1, info2)
         = List!Refinement!InsertAt(Contents(f, u, info), place + 1, v)
  <2>1. Storing(info, v) /\ ShiftedUp(f, place, new, g)
    BY <1>4, <1>15 DEF Storing
  <2>2. Contents(g, u + 1, [info EXCEPT ![new] = v])
          = List!Refinement!InsertAt(Contents(f, u, info), place + 1, v)
    BY ONLY <1>14, <2>1, InsertContents
  <2> QED
    BY <1>12, <2>2
<1>17. ListOf = Contents(f, u, info)
  BY <1>1, <1>2, ListIs
<1>18. ListOf' = Contents(g, u2, info2)
  BY <1>3, <1>12, <1>15, ListIsNext
<1>19. info2 \in [Nodes -> Values]
  BY <1>4, <1>7, <1>12
<1>20. ListGood(isInitOK', hd2, u2, fr2, mx, info2)
  BY <1>12, <1>15, <1>19 DEF Linked, ListGood
<1>21. LState'
  BY <1>3, <1>20 DEF LState
<1> QED
  BY <1>12, <1>16, <1>17, <1>18, <1>21

LEMMA UnlinkStep ==
  ASSUME LState, isInitOK, used_node_num # 0, NEW place \in 0 .. used_node_num - 1,
         List!Unlink(place)
  PROVE  /\ LState' /\ isInitOK' /\ result' = "APP_SUCCESSED"
         /\ ListOf' = List!Refinement!RemoveAt(ListOf, place + 1)
<1>1. PICK f : Linked(f, current_head_node_number, NextPtr, isFreeInList, used_node_num)
  BY DEF LState, ListGood
<1>2. PICK hd, nx, fr, u, info :
        /\ hd = current_head_node_number /\ nx = NextPtr /\ fr = isFreeInList
        /\ u = used_node_num /\ info = extern_information
  OBVIOUS
<1>3. PICK hd2, mx, fr2, u2, info2 :
        /\ hd2 = current_head_node_number' /\ mx = NextPtr' /\ fr2 = isFreeInList'
        /\ u2 = used_node_num' /\ info2 = extern_information'
  OBVIOUS
<1>4. /\ Linked(f, hd, nx, fr, u) /\ info \in [Nodes -> Values] /\ u # 0
      /\ place \in 0 .. u - 1
  BY <1>1, <1>2 DEF LState, ListGood
<1>5. /\ f \in [Steps -> MaybeNode] /\ f[u] = NoNode /\ u \in Nat /\ u <= MaxNodeCount
      /\ MaxNodeCount \in Nat /\ place \in Nat /\ place < u
      /\ \A k \in Steps : k < u => f[k] \in Nodes /\ f[k] # NoNode
      /\ \A j, k \in Steps : j < u /\ f[j] = f[k] => j = k
      /\ \A k \in Steps : f[k] # NoNode <=> k < u
  BY <1>4, LinkedProps DEF Linked
<1>6. /\ place \in Steps /\ place + 1 \in Steps /\ place + 1 <= u /\ 1 \in Steps
      /\ (place # 0 => place - 1 \in Steps /\ place - 1 < u /\ place - 1 # place)
  BY <1>5 DEF Steps
<1>7. IsWalk(f, hd, nx) /\ \A k \in Steps : List!NodeAt[k] = f[k]
  BY <1>2, <1>4, NodeAtByWalk DEF Linked
<1>8. PICK dropped, left, right :
        /\ dropped = List!NodeAt[place]
        /\ left = IF place = 0 THEN NoNode ELSE List!NodeAt[place - 1]
        /\ right = IF place + 1 = u THEN NoNode ELSE List!NodeAt[place + 1]
  OBVIOUS
<1>9. /\ dropped = f[place] /\ dropped \in Nodes /\ dropped # NoNode
      /\ right = f[place + 1] /\ (place + 1 # u => right # NoNode)
  <2>1. place + 1 # u => place + 1 < u
    BY <1>5
  <2> QED
    BY <1>5, <1>6, <1>7, <1>8, <2>1
<1>10. /\ place = 0 => left = NoNode
       /\ place # 0 => left = f[place - 1] /\ left \in Nodes /\ left # NoNode
                       /\ left # dropped
  BY <1>5, <1>6, <1>7, <1>8, <1>9
<1>11. /\ mx = [n \in List!Nodes |-> IF n = dropped THEN NoNode
                                     ELSE IF n = left THEN right ELSE nx[n]]
       /\ fr2 = [fr EXCEPT ![dropped] = TRUE]
       /\ hd2 = (IF place = 0 /\ right # NoNode THEN right ELSE hd)
       /\ u2 = u - 1 /\ result' = "APP_SUCCESSED"
       /\ isInitOK' = isInitOK /\ info2 = info
  <2>1. ~(dropped = NoNode \/ (place > 0 /\ left = NoNode)
                           \/ (place + 1 # u /\ right = NoNode))
    BY <1>5, <1>9, <1>10
  <2> QED
    BY <1>2, <1>3, <1>8, <2>1 DEF List!Unlink
<1>12. mx = [n \in Nodes |-> IF n = f[place] THEN NoNode
                             ELSE IF place > 0 /\ n = f[place - 1] THEN f[place + 1]
                             ELSE nx[n]]
  <2>1. List!Nodes = Nodes
    BY DEF List!Nodes, Nodes
  <2>2. CASE place > 0
    BY <1>5, <1>9, <1>10, <1>11, <2>1, <2>2
  <2>3. CASE ~(place > 0)
    <3>1. \A n \in Nodes : n # left
      BY <1>5, <1>10, <2>3, PriorityQueueAssumption
    <3> QED
      BY <1>9, <1>11, <2>1, <2>3, <3>1
  <2> QED
    BY <2>2, <2>3
<1>13. hd2 = IF place = 0 /\ f[1] # NoNode THEN f[1] ELSE hd
  <2>1. CASE place = 0
    <3>1. right = f[1]
      BY <1>9, <2>1
    <3> QED
      BY <1>11, <2>1, <3>1
  <2>2. CASE place # 0
    BY <1>11, <2>2
  <2> QED
    BY <2>1, <2>2
<1>14. Dropping(f, hd, nx, fr, u, place, hd2, mx, fr2)
  BY <1>4, <1>9, <1>11, <1>12, <1>13 DEF Dropping
<1>15. PICK g : Linked(g, hd2, mx, fr2, u - 1) /\ ShiftedDown(f, place, u, g)
  BY <1>14, DropLinked
<1>16. Contents(g, u - 1, info) = List!Refinement!RemoveAt(Contents(f, u, info), place + 1)
  BY <1>4, <1>14, <1>15, RemoveContents
<1>17. ListOf = Contents(f, u, info)
  BY <1>1, <1>2, ListIs
<1>18. ListOf' = Contents(g, u2, info2)
  BY <1>3, <1>11, <1>15, ListIsNext
<1>19. ListGood(isInitOK', hd2, u2, fr2, mx, info2)
  BY <1>4, <1>11, <1>15 DEF Linked, ListGood
<1>20. LState'
  BY <1>3, <1>19 DEF LState
<1> QED
  BY <1>11, <1>16, <1>17, <1>18, <1>20

\* mSingleListClear: every node is free again.
LEMMA ClearStep ==
  ASSUME LState, ListGiven, List!Initialize, ~(MaxNodeCount > ListLimit)
  PROVE  LState' /\ isInitOK' /\ ListOf' = << >> /\ result' = "APP_SUCCESSED"
<1>1. PICK hd2, mx, fr2, u2, info2 :
        /\ hd2 = current_head_node_number' /\ mx = NextPtr' /\ fr2 = isFreeInList'
        /\ u2 = used_node_num' /\ info2 = extern_information'
  OBVIOUS
<1>2. List!Nodes = Nodes /\ 0 \in Nodes /\ MaxNodeCount \in Nat \ {0}
      /\ 0 \in 0 .. MaxNodeCount
  BY StepsAreNumbers DEF List!Nodes, Nodes
<1>3. /\ isInitOK' = TRUE /\ hd2 = 0 /\ u2 = 0 /\ fr2 = [n \in Nodes |-> TRUE]
      /\ mx = [n \in Nodes |-> NoNode] /\ info2 = [n \in Nodes |-> 0]
      /\ result' = "APP_SUCCESSED"
  BY <1>1, <1>2 DEF List!Initialize
<1>4. PICK f : f = [k \in Steps |-> NoNode]
  OBVIOUS
<1>5. IsWalk(f, NoNode, mx)
  <2>1. 0 \in Steps /\ \A k \in Steps : k # 0 => k - 1 \in Steps
    BY StepsAreNumbers DEF Steps
  <2>2. \A k \in Steps : f[k] = IF k = 0 THEN NoNode
                                ELSE IF f[k - 1] = NoNode THEN NoNode ELSE mx[f[k - 1]]
    BY <1>4, <2>1
  <2>3. f = [k \in Steps |-> f[k]]
    BY <1>4
  <2> QED
    BY <2>2, <2>3 DEF IsWalk, PartWalk, Steps
<1>6. Visited(f) = {}
  BY <1>4 DEF Visited
<1>7. Visited(f) = {n \in Nodes : ~fr2[n]} /\ Cardinality(Visited(f)) = 0
  BY <1>3, <1>6, FS_EmptySet
<1>8. \A k \in Steps : f[k] # NoNode <=> k < 0
  BY <1>4, StepsAreNumbers
<1>9. mx \in [Nodes -> MaybeNode] /\ fr2 \in [Nodes -> BOOLEAN] /\ info2 \in [Nodes -> Values]
  BY <1>3 DEF MaybeNode, ListGiven
<1>10. Linked(f, hd2, mx, fr2, 0)
  BY <1>2, <1>3, <1>5, <1>7, <1>8, <1>9 DEF Linked
<1>11. ListGood(isInitOK', hd2, u2, fr2, mx, info2)
  BY <1>2, <1>3, <1>9, <1>10 DEF ListGood
<1>12. LState'
  BY <1>1, <1>11 DEF LState
<1>13. ListOf' = << >>
  BY <1>1, <1>3, ListIsNext
<1> QED
  BY <1>3, <1>12, <1>13

LEMMA UpdateStep ==
  ASSUME LState, NEW order \in Nat, NEW v \in Values, List!UpdataValue(order, v)
  PROVE  /\ LState' /\ isInitOK' /\ result' = "APP_SUCCESSED" /\ order < used_node_num
         /\ ListOf' = [ListOf EXCEPT ![order + 1] = v]
<1>1. PICK f : Linked(f, current_head_node_number, NextPtr, isFreeInList, used_node_num)
  BY DEF LState, ListGood, List!UpdataValue
<1>2. PICK hd, nx, fr, u, info :
        /\ hd = current_head_node_number /\ nx = NextPtr /\ fr = isFreeInList
        /\ u = used_node_num /\ info = extern_information
  OBVIOUS
<1>3. PICK info2 : info2 = extern_information'
  OBVIOUS
<1>4. Linked(f, hd, nx, fr, u) /\ info \in [Nodes -> Values] /\ order < u
  BY <1>1, <1>2 DEF LState, ListGood, List!UpdataValue
<1>5. /\ u \in Nat /\ u # 0 /\ u <= MaxNodeCount /\ MaxNodeCount \in Nat /\ order \in Steps
      /\ \A k \in Steps : k < u => f[k] \in Nodes
      /\ \A j, k \in Steps : j < u /\ f[j] = f[k] => j = k
  BY <1>4, LinkedProps DEF Steps
<1>6. List!NodeAt[order] = f[order]
  <2>1. IsWalk(f, hd, nx)
    BY <1>4, <1>5 DEF Linked
  <2> QED
    BY <1>2, <1>5, <2>1, NodeAtByWalk
<1>7. /\ info2 = [info EXCEPT ![f[order]] = v] /\ isInitOK /\ result' = "APP_SUCCESSED"
      /\ isInitOK' = isInitOK /\ current_head_node_number' = hd /\ used_node_num' = u
      /\ isFreeInList' = fr /\ NextPtr' = nx
  BY <1>2, <1>3, <1>6 DEF List!UpdataValue, List!manager
<1>8. info2 \in [Nodes -> Values]
  BY <1>4, <1>5, <1>7
<1>9. ListGood(isInitOK', hd, u, fr, nx, info2)
  BY <1>4, <1>7, <1>8 DEF Linked, ListGood
<1>10. LState'
  BY <1>3, <1>7, <1>9 DEF LState
<1>11. /\ ListOf = Contents(f, u, info) /\ ListOf' = Contents(f, u, info2)
  <2>1. ListOf = Contents(f, u, info)
    BY <1>1, <1>2, ListIs
  <2>2. Linked(f, current_head_node_number', NextPtr', isFreeInList', used_node_num')
    BY <1>4, <1>7
  <2> QED
    BY <1>3, <1>7, <2>1, <2>2, ListIsNext
<1>12. Contents(f, u, info2) = [Contents(f, u, info) EXCEPT ![order + 1] = v]
  <2>1. PICK p : p = order + 1 /\ p \in 1 .. u /\ p - 1 = order
    BY <1>4, <1>5
  <2>2. ASSUME NEW j \in 1 .. u
        PROVE  info2[f[j - 1]] = IF j = p THEN v ELSE info[f[j - 1]]
    <3>1. j - 1 \in Steps /\ j - 1 < u /\ (j - 1 = order <=> j = p)
      BY <1>5, <2>1 DEF Steps
    <3>2. f[j - 1] = f[order] <=> j = p
      BY <1>5, <2>1, <3>1
    <3> QED
      BY <1>4, <1>5, <1>7, <3>1, <3>2
  <2>3. Contents(f, u, info2) = [j \in 1 .. u |-> IF j = p THEN v ELSE info[f[j - 1]]]
    BY <2>2 DEF Contents
  <2>4. [Contents(f, u, info) EXCEPT ![p] = v]
          = [j \in 1 .. u |-> IF j = p THEN v ELSE info[f[j - 1]]]
    BY <2>1 DEF Contents
  <2> QED
    BY <2>1, <2>3, <2>4
<1> QED
  BY <1>2, <1>4, <1>7, <1>10, <1>11, <1>12

\* An answer that leaves the list alone.
LEMMA AnswerStep ==
  ASSUME LState, NEW code, List!Answer(code)
  PROVE  /\ LState' /\ isInitOK' = isInitOK /\ ListOf' = ListOf /\ result' = code
<1>1. result' = code /\ UNCHANGED <<List!manager, List!space>>
  BY DEF List!Answer
<1>2. LState' /\ ListOf' = ListOf
  BY <1>1, ListStays
<1> QED
  BY <1>1, <1>2 DEF List!manager

LEMMA LengthIs ==
  ASSUME LState
  PROVE  /\ ListOf \in Seq(Values) /\ Len(ListOf) = used_node_num
         /\ (ListOf = << >> <=> used_node_num = 0)
<1>1. CASE isInitOK
  <2>1. PICK f : Linked(f, current_head_node_number, NextPtr, isFreeInList, used_node_num)
    BY <1>1 DEF LState, ListGood
  <2>2. ListOf = Contents(f, used_node_num, extern_information)
    BY <2>1, ListIs
  <2>3. extern_information \in [Nodes -> Values]
    BY DEF LState, ListGood
  <2>4. ListOf \in Seq(Values) /\ Len(ListOf) = used_node_num
    BY <2>1, <2>2, <2>3, ContentsTyped
  <2>5. used_node_num = 0 => ListOf = << >>
    BY ListIs
  <2> QED
    BY <2>4, <2>5
<1>2. CASE ~isInitOK
  <2>1. used_node_num = 0 /\ ListOf = << >>
    BY <1>2, ListIs DEF LState, ListGood
  <2> QED
    BY <2>1
<1> QED
  BY <1>1, <1>2

LEMMA AddStep ==
  ASSUME LState, NEW place \in 0 .. MaxNodeCount, NEW v \in Values,
         isInitOK /\ used_node_num < MaxNodeCount => place <= used_node_num,
         List!Request("add", place, v), List!Add(place, v)
  PROVE  LState' /\ List!Refinement!Add(place, v)
<1>0. /\ used_node_num \in Nat /\ used_node_num <= MaxNodeCount /\ MaxNodeCount \in Nat \ {0}
      /\ place \in Nat /\ (~isInitOK => used_node_num = 0)
      /\ Len(ListOf) = used_node_num
  BY StepsAreNumbers, LengthIs DEF LState, ListGood
<1>1. CASE used_node_num >= MaxNodeCount
  <2>1. List!Answer("APP_BEYOND_SCOPE")
    BY <1>1 DEF List!Add
  <2>2. LState' /\ isInitOK' = isInitOK /\ ListOf' = ListOf /\ result' = "APP_BEYOND_SCOPE"
    BY <2>1, AnswerStep
  <2>3. isInitOK /\ Len(ListOf) = MaxNodeCount
    BY <1>0, <1>1
  <2> QED
    BY <2>2, <2>3 DEF List!Request, List!Refinement!Add, List!Refinement!Request,
                      List!Refinement!Refuse, ListOf
<1>2. CASE ~(used_node_num >= MaxNodeCount) /\ ~isInitOK
  <2>1. List!Answer("APP_UNEXPECT_STATE")
    BY <1>2 DEF List!Add
  <2>2. LState' /\ isInitOK' = isInitOK /\ ListOf' = ListOf /\ result' = "APP_UNEXPECT_STATE"
    BY <2>1, AnswerStep
  <2> QED
    BY <1>2, <2>2 DEF List!Request, List!Refinement!Add, List!Refinement!Request,
                      List!Refinement!Refuse, ListOf
<1>3. CASE ~(used_node_num >= MaxNodeCount) /\ isInitOK
  <2>1. used_node_num < MaxNodeCount
    BY <1>0, <1>3
  <2>2. List!FreeNodes # {}
    <3>1. PICK f : Linked(f, current_head_node_number, NextPtr, isFreeInList, used_node_num)
      BY <1>3 DEF LState, ListGood
    <3> QED
      BY <2>1, <3>1, CanBorrow
  <2>3. List!Link(place, v)
    BY <1>3, <2>2 DEF List!Add
  <2>4. /\ LState' /\ isInitOK' /\ result' = "APP_SUCCESSED"
        /\ ListOf' = List!Refinement!InsertAt(ListOf, place + 1, v)
    <3>1. place \in 0 .. used_node_num
      BY <1>0, <1>3, <2>1
    <3> QED
      BY <1>3, <2>1, <2>3, <3>1, LinkStep
  <2>5. isInitOK' = isInitOK
    BY <1>3, <2>4 DEF LState, ListGood
  <2> QED
    BY <1>0, <1>3, <2>1, <2>4, <2>5 DEF List!Request, List!Refinement!Add,
         List!Refinement!Request, List!Refinement!Change, ListOf
<1> QED
  BY <1>1, <1>2, <1>3

LEMMA RemoveStep ==
  ASSUME LState, NEW place \in Nat, isInitOK /\ used_node_num # 0 => place < used_node_num,
         List!Request("remove", place, 0), List!Remove(place)
  PROVE  LState' /\ List!Refinement!Delete(place)
<1>0. /\ used_node_num \in Nat /\ (~isInitOK => used_node_num = 0)
      /\ Len(ListOf) = used_node_num /\ (ListOf = << >> <=> used_node_num = 0)
  BY LengthIs DEF LState, ListGood
<1>1. CASE ~isInitOK
  <2>1. List!Answer("APP_UNEXPECT_STATE")
    BY <1>1 DEF List!Remove
  <2>2. LState' /\ isInitOK' = isInitOK /\ ListOf' = ListOf /\ result' = "APP_UNEXPECT_STATE"
    BY <2>1, AnswerStep
  <2> QED
    BY <1>1, <2>2 DEF List!Request, List!Refinement!Delete, List!Refinement!Request,
                      List!Refinement!Refuse, ListOf
<1>2. CASE isInitOK /\ used_node_num = 0
  <2>1. List!Answer("APP_ALREADY_DONE_BEFORE")
    BY <1>2 DEF List!Remove
  <2>2. /\ LState' /\ isInitOK' = isInitOK /\ ListOf' = ListOf
        /\ result' = "APP_ALREADY_DONE_BEFORE"
    BY <2>1, AnswerStep
  <2>3. ListOf = << >>
    BY <1>0, <1>2
  <2> QED
    BY <2>2, <2>3 DEF List!Request, List!Refinement!Delete, List!Refinement!Request,
                      List!Refinement!Refuse, ListOf
<1>3. CASE isInitOK /\ used_node_num # 0
  <2>1. List!Unlink(place) /\ place \in 0 .. used_node_num - 1
    BY <1>0, <1>3 DEF List!Remove
  <2>2. /\ LState' /\ isInitOK' /\ result' = "APP_SUCCESSED"
        /\ ListOf' = List!Refinement!RemoveAt(ListOf, place + 1)
    BY <1>3, <2>1, UnlinkStep
  <2>3. isInitOK' = isInitOK /\ place < Len(ListOf)
    BY <1>0, <1>3, <2>2 DEF LState, ListGood
  <2> QED
    BY <2>2, <2>3 DEF List!Request, List!Refinement!Delete, List!Refinement!Request,
                      List!Refinement!Change, ListOf
<1> QED
  BY <1>1, <1>2, <1>3

\* A place behind the end is refused.
LEMMA BeyondStep ==
  ASSUME LState, isInitOK, NEW place \in 0 .. MaxNodeCount, List!Answer("APP_PARAM_ERROR")
  PROVE  /\ LState'
         /\ \A v \in Values : List!Request("add", place, v) /\ place > used_node_num
                                => List!Refinement!Add(place, v)
         /\ List!Request("remove", place, 0) /\ place >= used_node_num
              => List!Refinement!Delete(place)
<1>1. LState' /\ isInitOK' = isInitOK /\ ListOf' = ListOf /\ result' = "APP_PARAM_ERROR"
  BY AnswerStep
<1>2. /\ Len(ListOf) = used_node_num /\ used_node_num \in Nat /\ place \in Nat
      /\ MaxNodeCount \in Nat /\ place <= MaxNodeCount
  BY LengthIs, StepsAreNumbers DEF LState, ListGood
<1>3. ASSUME NEW v \in Values, List!Request("add", place, v), place > used_node_num
      PROVE  List!Refinement!Add(place, v)
  <2>1. Len(ListOf) < place /\ place <= MaxNodeCount
    BY <1>2, <1>3
  <2> QED
    BY <1>1, <1>3, <2>1 DEF List!Request, List!Refinement!Add, List!Refinement!Request,
                            List!Refinement!Refuse, ListOf
<1>4. ASSUME List!Request("remove", place, 0), place >= used_node_num
      PROVE  List!Refinement!Delete(place)
  <2>1. Len(ListOf) <= place
    BY <1>2, <1>4
  <2> QED
    BY <1>1, <1>4, <2>1 DEF List!Request, List!Refinement!Delete, List!Refinement!Request,
                            List!Refinement!Refuse, ListOf
<1> QED
  BY <1>1, <1>3, <1>4

SeqVars == <<isInitOK, ListOf, request, result>>

(* Every call leaves the list as it should be and is one of SequenceList's; *)
(* only clearing a list with more nodes than the limit is not.              *)
LEMMA ListCallStep ==
  ASSUME LState, ListGiven, List!Next
  PROVE  LState' /\ (MaxNodeCount <= ListLimit => List!Refinement!Next)
<1>0. /\ MaxNodeCount \in Nat \ {0} /\ used_node_num \in 0 .. MaxNodeCount
      /\ used_node_num \in Nat /\ used_node_num <= MaxNodeCount
      /\ (~isInitOK => used_node_num = 0) /\ isInitOK \in BOOLEAN
      /\ ListLimit \in Nat /\ 0 \in Values
  BY StepsAreNumbers DEF LState, ListGood, ListGiven
<1>1. CASE List!Initialize
  <2>1. CASE MaxNodeCount > ListLimit
    <3>1. List!Answer("APP_BEYOND_SCOPE")
      BY <1>1, <2>1 DEF List!Initialize
    <3> QED
      BY <1>0, <2>1, <3>1, AnswerStep
  <2>2. CASE ~(MaxNodeCount > ListLimit)
    <3>1. LState' /\ isInitOK' /\ ListOf' = << >> /\ result' = "APP_SUCCESSED"
      BY <1>1, <2>2, ClearStep
    <3>2. isInitOK' = TRUE
      BY <3>1 DEF LState, ListGood
    <3>3. List!Refinement!Clear
      BY <1>1, <3>1, <3>2 DEF List!Initialize, List!Request, List!Refinement!Clear,
                             List!Refinement!Request, ListOf
    <3> QED
      BY <3>1, <3>3 DEF List!Refinement!Next
  <2> QED
    BY <2>1, <2>2
<1>2. ASSUME NEW place \in 0 .. MaxNodeCount, NEW v \in Values,
             List!Refinement!Add(place, v) \/ List!Refinement!Update(place, v)
      PROVE  List!Refinement!Next
  BY <1>2 DEF List!Refinement!Next
<1>3. ASSUME NEW place \in 0 .. MaxNodeCount, List!Refinement!Delete(place)
      PROVE  List!Refinement!Next
  BY <1>3 DEF List!Refinement!Next
<1>4. ASSUME NEW v \in Values, List!TailAdd(v)
      PROVE  LState' /\ List!Refinement!Next
  <2>1. used_node_num <= used_node_num
    BY <1>0
  <2>2. LState' /\ List!Refinement!Add(used_node_num, v)
    BY <1>0, <1>4, <2>1, AddStep DEF List!TailAdd
  <2> QED
    BY <1>0, <1>2, <2>2
<1>5. ASSUME NEW v \in Values, List!HeadAdd(v)
      PROVE  LState' /\ List!Refinement!Next
  <2>1. 0 \in 0 .. MaxNodeCount /\ 0 <= used_node_num
    BY <1>0
  <2>2. LState' /\ List!Refinement!Add(0, v)
    BY <1>5, <2>1, AddStep DEF List!HeadAdd
  <2> QED
    BY <1>2, <2>1, <2>2
<1>6. ASSUME NEW order \in 0 .. MaxNodeCount, NEW v \in Values, List!Insert(order, v)
      PROVE  LState' /\ List!Refinement!Next
  <2>1. CASE isInitOK /\ used_node_num < MaxNodeCount /\ order > used_node_num
    <3>1. List!Request("add", order, v) /\ List!Answer("APP_PARAM_ERROR")
      BY <1>6, <2>1 DEF List!Insert
    <3>2. LState' /\ List!Refinement!Add(order, v)
      BY <2>1, <3>1, BeyondStep
    <3> QED
      BY <1>2, <3>2
  <2>2. CASE ~(isInitOK /\ used_node_num < MaxNodeCount /\ order > used_node_num)
    <3>1. List!Request("add", order, v) /\ List!Add(order, v)
      BY <1>6, <2>2 DEF List!Insert
    <3>2. isInitOK /\ used_node_num < MaxNodeCount => order <= used_node_num
      BY <1>0, <2>2
    <3>3. LState' /\ List!Refinement!Add(order, v)
      BY <3>1, <3>2, AddStep
    <3> QED
      BY <1>2, <3>3
  <2> QED
    BY <2>1, <2>2
<1>7. CASE List!TailRemove
  <2>1. PICK last : /\ last = List!Last /\ last \in 0 .. MaxNodeCount /\ last \in Nat
                    /\ (used_node_num # 0 => last < used_node_num)
    BY <1>0 DEF List!Last
  <2>2. LState' /\ List!Refinement!Delete(last)
    BY <1>7, <2>1, RemoveStep DEF List!TailRemove
  <2> QED
    BY <1>3, <2>1, <2>2
<1>8. CASE List!HeadRemove
  <2>1. 0 \in 0 .. MaxNodeCount /\ (used_node_num # 0 => 0 < used_node_num)
    BY <1>0
  <2>2. LState' /\ List!Refinement!Delete(0)
    BY <1>8, <2>1, RemoveStep DEF List!HeadRemove
  <2> QED
    BY <1>3, <2>1, <2>2
<1>9. ASSUME NEW order \in 0 .. MaxNodeCount, List!PullAway(order)
      PROVE  LState' /\ List!Refinement!Next
  <2>1. CASE isInitOK /\ order >= used_node_num
    <3>1. List!Request("remove", order, 0) /\ List!Answer("APP_PARAM_ERROR")
      BY <1>9, <2>1 DEF List!PullAway
    <3>2. LState' /\ List!Refinement!Delete(order)
      BY <2>1, <3>1, BeyondStep
    <3> QED
      BY <1>3, <3>2
  <2>2. CASE ~(isInitOK /\ order >= used_node_num)
    <3>1. List!Request("remove", order, 0) /\ List!Remove(order)
      BY <1>9, <2>2 DEF List!PullAway
    <3>2. order \in Nat /\ (isInitOK /\ used_node_num # 0 => order < used_node_num)
      BY <1>0, <2>2
    <3>3. LState' /\ List!Refinement!Delete(order)
      BY <3>1, <3>2, RemoveStep
    <3> QED
      BY <1>3, <3>3
  <2> QED
    BY <2>1, <2>2
<1>10. ASSUME NEW order \in 0 .. MaxNodeCount, NEW v \in Values, List!UpdataValue(order, v)
       PROVE  LState' /\ List!Refinement!Next
  <2>1. /\ LState' /\ isInitOK' /\ result' = "APP_SUCCESSED" /\ order < used_node_num
        /\ ListOf' = [ListOf EXCEPT ![order + 1] = v]
    BY <1>0, <1>10, UpdateStep
  <2>2. isInitOK' = isInitOK /\ order < Len(ListOf)
    BY <1>10, <2>1, LengthIs DEF List!UpdataValue, List!manager
  <2>3. List!Refinement!Update(order, v)
    BY <1>10, <2>1, <2>2 DEF List!UpdataValue, List!Request, List!Refinement!Update,
         List!Refinement!Request, List!Refinement!Change, ListOf
  <2> QED
    BY <1>2, <2>1, <2>3
<1> QED
  BY <1>1, <1>4, <1>5, <1>6, <1>7, <1>8, <1>9, <1>10 DEF List!Next

Asked == /\ request \in {"none", "clear", "add", "remove", "update"}
                          \X (0 .. MaxNodeCount) \X Values
         /\ result \in List!Answers

LInv == LState /\ Asked

LEMMA AskedStep ==
  ASSUME LState, ListGiven, List!Next
  PROVE  Asked'
<1>0. /\ used_node_num \in 0 .. MaxNodeCount /\ MaxNodeCount \in Nat \ {0}
      /\ 0 \in 0 .. MaxNodeCount /\ 0 \in Values
  BY StepsAreNumbers DEF LState, ListGood, ListGiven
<1>1. ASSUME NEW what \in {"clear", "add", "remove", "update"},
             NEW place \in 0 .. MaxNodeCount, NEW v \in Values, List!Request(what, place, v)
      PROVE  request' \in {"none", "clear", "add", "remove", "update"}
                            \X (0 .. MaxNodeCount) \X Values
  BY <1>1 DEF List!Request
<1>2. ASSUME NEW code \in List!Answers, List!Answer(code) PROVE result' \in List!Answers
  BY <1>2 DEF List!Answer
<1>3. ASSUME NEW place, NEW v, List!Add(place, v) PROVE result' \in List!Answers
  BY <1>3 DEF List!Add, List!Link, List!Answer, List!Answers
<1>4. ASSUME NEW place, List!Remove(place) PROVE result' \in List!Answers
  BY <1>4 DEF List!Remove, List!Unlink, List!Answer, List!Answers
<1>5. CASE List!Initialize
  BY <1>0, <1>1, <1>5 DEF List!Initialize, List!Answer, List!Answers, Asked
<1>6. ASSUME NEW v \in Values, List!TailAdd(v) \/ List!HeadAdd(v) PROVE Asked'
  BY <1>0, <1>1, <1>3, <1>6 DEF List!TailAdd, List!HeadAdd, Asked
<1>7. ASSUME NEW order \in 0 .. MaxNodeCount, NEW v \in Values, List!Insert(order, v)
      PROVE  Asked'
  BY <1>1, <1>3, <1>7 DEF List!Insert, List!Answer, List!Answers, Asked
<1>8. CASE List!TailRemove \/ List!HeadRemove
  <2>1. List!Last \in 0 .. MaxNodeCount
    BY <1>0 DEF List!Last
  <2> QED
    BY <1>0, <1>1, <1>4, <1>8, <2>1 DEF List!TailRemove, List!HeadRemove, Asked
<1>9. ASSUME NEW order \in 0 .. MaxNodeCount, List!PullAway(order) PROVE Asked'
  BY <1>0, <1>1, <1>4, <1>9 DEF List!PullAway, List!Answer, List!Answers, Asked
<1>10. ASSUME NEW order \in 0 .. MaxNodeCount, NEW v \in Values, List!UpdataValue(order, v)
       PROVE  Asked'
  BY <1>1, <1>10 DEF List!UpdataValue, List!Answers, Asked
<1> QED
  BY <1>5, <1>6, <1>7, <1>8, <1>9, <1>10 DEF List!Next

LEMMA ListInit ==
  ASSUME ListGiven, List!Init
  PROVE  LInv /\ List!Refinement!Init
<1>1. 0 \in Nodes /\ 0 \in 0 .. MaxNodeCount /\ List!Nodes = Nodes /\ 0 \in Values
  BY StepsAreNumbers DEF Nodes, List!Nodes, ListGiven
<1>2. ListOf = << >>
  BY ListIs DEF List!Init
<1>3. LState
  BY <1>1 DEF List!Init, LState, ListGood, MaybeNode
<1>4. Asked
  BY <1>1 DEF List!Init, Asked, List!Answers
<1>5. List!Refinement!Init
  BY <1>2 DEF List!Init, List!Refinement!Init, ListOf
<1> QED
  BY <1>3, <1>4, <1>5 DEF LInv

LEMMA ListStep ==
  ASSUME LInv, ListGiven, [List!Next]_(List!vars)
  PROVE  /\ LInv'
         /\ MaxNodeCount <= ListLimit => [List!Refinement!Next]_SeqVars
<1>1. CASE List!Next
  BY <1>1, ListCallStep, AskedStep DEF LInv
<1>2. CASE UNCHANGED List!vars
  <2>1. UNCHANGED <<List!manager, List!space>> /\ request' = request /\ result' = result
    BY <1>2 DEF List!vars
  <2>2. LState' /\ ListOf' = ListOf
    BY <2>1, ListStays DEF LInv
  <2>3. Asked'
    BY <2>1 DEF LInv, Asked
  <2>4. UNCHANGED SeqVars
    BY <2>1, <2>2 DEF SeqVars, List!manager
  <2> QED
    BY <2>2, <2>3, <2>4 DEF LInv
<1> QED
  BY <1>1, <1>2

LEMMA PoolFromState ==
  ASSUME LInv
  PROVE  List!PoolAndChain
<1>1. List!Nodes = Nodes
  BY DEF List!Nodes, Nodes
<1>2. List!TypeOK
  BY <1>1 DEF LInv, LState, ListGood, Asked, List!TypeOK, MaybeNode
<1>3. ASSUME isInitOK
      PROVE  /\ List!Chain = {n \in Nodes : ~isFreeInList[n]}
             /\ Cardinality(List!Chain) = used_node_num
             /\ used_node_num > 0 => NextPtr[List!NodeAt[used_node_num - 1]] = NoNode
             /\ \A n \in List!FreeNodes : NextPtr[n] = NoNode
  <2>1. PICK f : Linked(f, current_head_node_number, NextPtr, isFreeInList, used_node_num)
    BY <1>3 DEF LInv, LState, ListGood
  <2>2. PICK hd, nx, u : hd = current_head_node_number /\ nx = NextPtr /\ u = used_node_num
    OBVIOUS
  <2>3. Linked(f, hd, nx, isFreeInList, u)
    BY <2>1, <2>2
  <2>4. /\ f[u] = NoNode /\ u \in Steps /\ u \in Nat /\ u <= MaxNodeCount
        /\ \A k \in Steps : k \in Nat /\ (k < u => f[k] \in Nodes)
    BY <2>3, LinkedProps
  <2>5. u # 0 => IsWalk(f, hd, nx) /\ \A k \in Steps : List!NodeAt[k] = f[k]
    BY <2>2, <2>3, NodeAtByWalk DEF Linked
  <2>6. \A k \in 0 .. u - 1 : k \in Steps /\ k < u /\ u # 0
    BY <2>4, StepsAreNumbers DEF Steps
  <2>7. List!Chain = Visited(f)
    <3>1. List!Chain = {List!NodeAt[k] : k \in 0 .. u - 1}
      BY <2>2 DEF List!Chain
    <3>2. \A k \in 0 .. u - 1 : List!NodeAt[k] = f[k]
      BY <2>5, <2>6
    <3>3. \A k \in Steps : f[k] # NoNode <=> k < u
      BY <2>3 DEF Linked
    <3>4. \A k \in Steps : f[k] # NoNode => k \in 0 .. u - 1
      BY <2>4, <3>3
    <3> QED
      BY <2>6, <3>1, <3>2, <3>3, <3>4 DEF Visited
  <2>8. u > 0 => nx[List!NodeAt[u - 1]] = NoNode
    <3> SUFFICES ASSUME u > 0 PROVE nx[List!NodeAt[u - 1]] = NoNode
      OBVIOUS
    <3>1. u # 0 /\ u - 1 \in Steps /\ u - 1 < u
      BY <2>4, StepsAreNumbers DEF Steps
    <3>2. List!NodeAt[u - 1] = f[u - 1] /\ f[u - 1] \in Nodes /\ f[u - 1] # NoNode
      BY <2>4, <2>5, <3>1, PriorityQueueAssumption
    <3>3. f[u] = IF f[u - 1] = NoNode THEN NoNode ELSE nx[f[u - 1]]
      BY <2>4, <2>5, <3>1, WalkSteps
    <3> QED
      BY <2>4, <3>2, <3>3
  <2>9. \A n \in List!FreeNodes : nx[n] = NoNode
    BY <1>1, <2>3 DEF Linked, List!FreeNodes
  <2> QED
    BY <2>2, <2>3, <2>7, <2>8, <2>9 DEF Linked
<1>4. {n \in Nodes : ~isFreeInList[n]} = {n \in List!Nodes : ~isFreeInList[n]}
  BY <1>1
<1>5. List!Cardinality(List!Chain) = Cardinality(List!Chain)
  BY DEF Cardinality, List!Cardinality
<1> QED
  BY <1>2, <1>3, <1>4, <1>5 DEF List!PoolAndChain

(* The single list neither loses a node nor has one twice, whatever is     *)
(* called in whatever order: the used nodes are those the chain runs       *)
(* through, as many as are counted, and the last points nowhere.           *)
THEOREM ListCorrect ==
  ASSUME ListGiven
  PROVE  List!Spec => []List!PoolAndChain
<1>1. List!Init => LInv
  BY ListInit
<1>2. LInv /\ [List!Next]_(List!vars) => LInv'
  BY ListStep
<1>3. LInv => List!PoolAndChain
  BY PoolFromState
<1> QED
  BY <1>1, <1>2, <1>3, PTL DEF List!Spec

(* The single list is a sequence to its users: each call changes the place *)
(* it names and no other, and APP_ERROR is never answered.  A list with    *)
(* more nodes than MY_MAX_NODE_COUNT is never initialised and refuses      *)
(* clearing with a code of its own: that case is excluded.                 *)
THEOREM SequenceCorrect ==
  ASSUME ListGiven, MaxNodeCount <= ListLimit
  PROVE  List!Spec => List!ImplementsList
<1>1. List!Init => LInv /\ List!Refinement!Init
  BY ListInit
<1>2. LInv /\ [List!Next]_(List!vars) => LInv' /\ [List!Refinement!Next]_SeqVars
  BY ListStep
<1> QED
  BY <1>1, <1>2, PTL DEF List!Spec, List!ImplementsList, List!Refinement!Spec, SeqVars, ListOf
=============================================================================
