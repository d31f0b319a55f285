----------------------------- MODULE PriorityMap -----------------------------
(***************************************************************************)
(* What m_priority_queues.c promises its users: at most one node stands    *)
(* for a priority, no node for two, a push of a priority that is present   *)
(* replaces the one before, and a pop takes the most urgent priority       *)
(* present and gives the very node its push was given.  Spec is the map of *)
(* the comment at the head of that file.  The code keeps less of it, with  *)
(* a full queue: UnlessFullSpec is the map with that one exception.        *)
(***************************************************************************)
EXTENDS Naturals, FiniteSets

CONSTANTS Priorities, Nodes, NoNode, Before(_, _)

VARIABLES ready,   \* the queue has been initialised
          owner,   \* the node that stands for a priority, or NoNode
          reply    \* the answer to the last call

vars == <<ready, owner, reply>>

Present == {p \in Priorities : owner[p] # NoNode}
Taken   == {owner[p] : p \in Present}

Answer(ok, p, n) == reply' = [ok |-> ok, priority |-> p, node |-> n]

NoOwners == [p \in Priorities |-> NoNode]

Init == /\ ready = FALSE
        /\ owner = NoOwners
        /\ reply = [ok |-> TRUE, priority |-> 0, node |-> NoNode]

Refuse(p) == Answer(FALSE, p, NoNode) /\ UNCHANGED <<ready, owner>>

Insert(p, n) ==
  /\ p \notin Present
  /\ n \in Nodes \ Taken
  /\ owner' = [owner EXCEPT ![p] = n]
  /\ Answer(TRUE, p, n)
  /\ UNCHANGED ready

Replace(p) ==
  p \in Present /\ Answer(TRUE, p, owner[p]) /\ UNCHANGED <<ready, owner>>

Remove(p) ==
  /\ p \in Present
  /\ owner' = [owner EXCEPT ![p] = NoNode]
  /\ Answer(TRUE, p, owner[p])
  /\ UNCHANGED ready

\* A push is refused only before the initialisation, or when it needs a node
\* of its own and every node is taken.
Push(p) == IF ready /\ (p \in Present \/ Taken # Nodes)
           THEN Replace(p) \/ \E n \in Nodes : Insert(p, n)
           ELSE Refuse(p)

\* The exception: with every node taken not even a replacement is done.
PushUnlessFull(p) == IF Taken = Nodes THEN Refuse(p) ELSE Push(p)

Release(p) == IF ready /\ p \in Present THEN Remove(p) ELSE Refuse(p)

Pop == IF ready /\ Present # {}
       THEN \E p \in Present :
              (\A r \in Present \ {p} : Before(p, r)) /\ Remove(p)
       ELSE Refuse(0)

Empty == ready' = TRUE /\ owner' = NoOwners /\ Answer(TRUE, 0, NoNode)

OtherCalls == \/ \E p \in Priorities : Release(p)
              \/ Pop
              \/ Empty

Next           == (\E p \in Priorities : Push(p)) \/ OtherCalls
NextUnlessFull == (\E p \in Priorities : PushUnlessFull(p)) \/ OtherCalls

Spec           == Init /\ [][Next]_vars
UnlessFullSpec == Init /\ [][NextUnlessFull]_vars
=============================================================================
