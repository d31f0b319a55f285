------------------------------ MODULE ListNode ------------------------------
(***************************************************************************)
(* The single list of MulLoopQueue/m_list_node.c: a pool of nodes, a chain *)
(* of next pointers through the used ones, a head and a count.  One action *)
(* per call.                                                               *)
(***************************************************************************)
EXTENDS Naturals, FiniteSets

CONSTANTS ValidNodeNumber,   \* the nodes of the pool
          NodeLimit,         \* MY_MAX_NODE_COUNT
          Values,            \* the extern_information, 0 among them
          Null               \* X_Null

\* What is asked of the constants.
ListNodeAssumption == /\ ValidNodeNumber \in Nat \ {0}
                      /\ NodeLimit \in Nat
                      /\ 0 \in Values
                      /\ Null \notin 0 .. ValidNodeNumber - 1

VARIABLES isInitOK, current_head_node_number, used_node_num,
          isFree, NextPtr, extern_information,     \* the node space
          request, result                          \* the last call, its answer

manager == <<isInitOK, current_head_node_number, used_node_num>>
space   == <<isFree, NextPtr, extern_information>>
vars    == <<manager, space, request, result>>

Nodes   == 0 .. ValidNodeNumber - 1
Answers == {"none", "APP_SUCCESSED", "APP_BEYOND_SCOPE", "APP_UNEXPECT_STATE",
            "APP_NO_ENOUGH_SPACE", "APP_PARAM_ERROR", "APP_ALREADY_DONE_BEFORE",
            "APP_ERROR"}

TypeOK == /\ isInitOK \in BOOLEAN
          /\ current_head_node_number \in Nodes
          /\ used_node_num \in 0 .. ValidNodeNumber
          /\ isFree \in [Nodes -> BOOLEAN]
          /\ NextPtr \in [Nodes -> Nodes \cup {Null}]
          /\ extern_information \in [Nodes -> Values]
          /\ request \in {"none", "clear", "add", "remove", "update"}
                          \X (0 .. ValidNodeNumber) \X Values
          /\ result \in Answers

\* The static objects of APP_SINGLE_LIST_DEF; free is 0 in a node never set.
Init == /\ isInitOK = FALSE
        /\ current_head_node_number = 0 /\ used_node_num = 0
        /\ isFree = [n \in Nodes |-> FALSE]
        /\ NextPtr = [n \in Nodes |-> Null]
        /\ extern_information = [n \in Nodes |-> 0]
        /\ request = <<"none", 0, 0>> /\ result = "none"

Request(what, place, v) == request' = <<what, place, v>>

Answer(code) == result' = code /\ UNCHANGED <<manager, space>>

(* mSingleListInit, which mSingleListClear calls.                          *)
Initialize ==
  /\ Request("clear", 0, 0)
  /\ IF ValidNodeNumber > NodeLimit
     THEN Answer("APP_BEYOND_SCOPE")
     ELSE /\ isInitOK' = TRUE
          /\ current_head_node_number' = 0 /\ used_node_num' = 0
          /\ isFree' = [n \in Nodes |-> TRUE]
          /\ NextPtr' = [n \in Nodes |-> Null]
          /\ extern_information' = [n \in Nodes |-> 0]
          /\ result' = "APP_SUCCESSED"

-----------------------------------------------------------------------------
\* BorrowNode takes the first free node.
FreeNodes == {n \in Nodes : isFree[n]}
Borrowed  == CHOOSE n \in FreeNodes : \A m \in FreeNodes : n <= m

(* NodePointerGetByNodeOrderNumber: the node so many pointers behind the   *)
(* head; Null when the chain ends before.                                  *)
NodeAt[order \in Nat] ==
  IF order = 0 THEN current_head_node_number
  ELSE LET left == NodeAt[order - 1] IN IF left = Null THEN Null ELSE NextPtr[left]

\* mSingleListTailAdd, mSingleListHeadAdd and mSingleListInsert between two
\* nodes, once a node can be borrowed: place nodes come before the new one.
Link(place, v) ==
  LET new   == Borrowed
      left  == NodeAt[place - 1]
      right == IF place = used_node_num THEN Null
               ELSE IF place = 0 THEN current_head_node_number ELSE NextPtr[left]
  IN  IF place > 0 /\ left = Null
      THEN Answer("APP_ERROR")                     \* the node is returned
      ELSE /\ isFree' = [isFree EXCEPT ![new] = FALSE]
           /\ extern_information' = [extern_information EXCEPT ![new] = v]
           /\ NextPtr' = [n \in Nodes |-> IF n = new THEN right
                                          ELSE IF place > 0 /\ n = left THEN new
                                          ELSE NextPtr[n]]
           /\ current_head_node_number' =
                IF place = 0 THEN new ELSE current_head_node_number
           /\ used_node_num' = used_node_num + 1
           /\ result' = "APP_SUCCESSED"
           /\ UNCHANGED isInitOK

\* The checks before it; a list that is not initialised is empty.
Add(place, v) ==
  IF used_node_num >= ValidNodeNumber THEN Answer("APP_BEYOND_SCOPE")
  ELSE IF ~isInitOK THEN Answer("APP_UNEXPECT_STATE")
  ELSE IF FreeNodes = {} THEN Answer("APP_NO_ENOUGH_SPACE")
  ELSE Link(place, v)

TailAdd(v) == Request("add", used_node_num, v) /\ Add(used_node_num, v)
HeadAdd(v) == Request("add", 0, v) /\ Add(0, v)

\* A slip: the new node comes behind the one whose place it should take.
InsertBehind(order, v) ==
  /\ Request("add", order, v)
  /\ IF isInitOK /\ used_node_num < ValidNodeNumber /\ order > used_node_num
     THEN Answer("APP_PARAM_ERROR")
     ELSE Add(IF order < used_node_num THEN order + 1 ELSE order, v)

Insert(order, v) ==
  /\ Request("add", order, v)
  /\ IF isInitOK /\ used_node_num < ValidNodeNumber /\ order > used_node_num
     THEN Answer("APP_PARAM_ERROR")
     ELSE Add(order, v)

-----------------------------------------------------------------------------
\* Slip: the node is not returned.
NotReturned(place) ==
  LET left  == IF place = 0 THEN Null ELSE NodeAt[place - 1]
      right == NodeAt[place + 1]
  IN  /\ NextPtr' = [n \in Nodes |-> IF n = left THEN right ELSE NextPtr[n]]
      /\ current_head_node_number' =
           IF place = 0 /\ right # Null THEN right ELSE current_head_node_number
      /\ used_node_num' = used_node_num - 1
      /\ result' = "APP_SUCCESSED"
      /\ UNCHANGED <<isInitOK, isFree, extern_information>>

(* mSingleListTailRemove, mSingleListHeadRemove and mSingleListPullAway    *)
(* between two nodes, with ReturnNode.  The head stays where it is when    *)
(* the only node goes.                                                     *)
Unlink(place) ==
  LET dropped == NodeAt[place]
      left    == IF place = 0 THEN Null ELSE NodeAt[place - 1]
      right   == IF place + 1 = used_node_num THEN Null ELSE NodeAt[place + 1]
      broken  == dropped = Null \/ (place > 0 /\ left = Null)
                                \/ (place + 1 # used_node_num /\ right = Null)
  IN  IF broken
      THEN Answer("APP_ERROR")
      ELSE /\ NextPtr' = [n \in Nodes |-> IF n = dropped THEN Null
                                          ELSE IF n = left THEN right
                                          ELSE NextPtr[n]]
           /\ isFree' = [isFree EXCEPT ![dropped] = TRUE]
           /\ current_head_node_number' =
                IF place = 0 /\ right # Null THEN right
                                             ELSE current_head_node_number
           /\ used_node_num' = used_node_num - 1
           /\ result' = "APP_SUCCESSED"
           /\ UNCHANGED <<isInitOK, extern_information>>

Remove(place) ==
  IF ~isInitOK THEN Answer("APP_UNEXPECT_STATE")
  ELSE IF used_node_num = 0 THEN Answer("APP_ALREADY_DONE_BEFORE")
  ELSE Unlink(place)

Last       == IF used_node_num = 0 THEN 0 ELSE used_node_num - 1
TailRemove == Request("remove", Last, 0) /\ Remove(Last)
HeadRemove == Request("remove", 0, 0) /\ Remove(0)

PullAway(order) ==
  /\ Request("remove", order, 0)
  /\ IF isInitOK /\ order >= used_node_num
     THEN Answer("APP_PARAM_ERROR")
     ELSE Remove(order)

(* mSingleListUpdataValueByNodeNumber, which answers a Boolean.            *)
UpdataValue(order, v) ==
  /\ Request("update", order, v)
  /\ isInitOK /\ order < used_node_num /\ NodeAt[order] # Null
  /\ extern_information' = [extern_information EXCEPT ![NodeAt[order]] = v]
  /\ result' = "APP_SUCCESSED"
  /\ UNCHANGED <<manager, isFree, NextPtr>>

Next == \/ Initialize
        \/ \E v \in Values : TailAdd(v)
        \/ \E v \in Values : HeadAdd(v)
        \/ \E order \in 0 .. ValidNodeNumber, v \in Values : Insert(order, v)
        \/ TailRemove
        \/ HeadRemove
        \/ \E order \in 0 .. ValidNodeNumber : PullAway(order)
        \/ \E order \in 0 .. ValidNodeNumber, v \in Values : UpdataValue(order, v)

Spec == Init /\ [][Next]_vars

-----------------------------------------------------------------------------
Chain == {NodeAt[k] : k \in 0 .. used_node_num - 1}

(* The used nodes are the ones the chain runs through, each once, the      *)
(* chain ends with the last of them, and a free node points nowhere: no    *)
(* node is lost to the pool and none is in the list twice.                 *)
PoolAndChain ==
  /\ TypeOK
  /\ isInitOK => /\ Chain = {n \in Nodes : ~isFree[n]}
                 /\ Cardinality(Chain) = used_node_num
                 /\ used_node_num > 0 => NextPtr[NodeAt[used_node_num - 1]] = Null
                 /\ \A n \in FreeNodes : NextPtr[n] = Null

(* The list is a sequence to its users: every call changes the place it    *)
(* names and no other, and is refused only for the reason it gives.        *)
Refinement == INSTANCE SequenceList
  WITH Size  <- ValidNodeNumber,
       Zero  <- 0,
       ready <- isInitOK,
       list  <- [i \in 1 .. used_node_num |-> extern_information[NodeAt[i - 1]]]
ImplementsList == Refinement!Spec
=============================================================================
