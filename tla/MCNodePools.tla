---------------------------- MODULE MCNodePools -----------------------------
(* The two pools of linked nodes of MulLoopQueue in one run.  They share   *)
(* no state: a behaviour is one of the priority queue, or one of the       *)
(* single list, while the other stays as it was initialised.               *)
EXTENDS PriorityQueue

CONSTANTS ValidNodeNumber, ListLimit, Values, Null

VARIABLES pool,     \* the pool of this behaviour
          isInitOK, current_head_node_number, used_node_num,
          isFreeInList, NextPtr, extern_information, request, result

List == INSTANCE ListNode WITH NodeLimit <- ListLimit, isFree <- isFreeInList

ASSUME ListNodeAssumption == List!ListNodeAssumption

listVars == <<isInitOK, current_head_node_number, used_node_num,
              isFreeInList, NextPtr, extern_information, request, result>>
poolVars == <<pool, vars, listVars>>

PoolInit == pool \in {"priority queue", "list"} /\ Init /\ List!Init

PoolNext == \/ pool = "priority queue" /\ Next /\ UNCHANGED <<pool, listVars>>
            \/ pool = "list" /\ List!Next /\ UNCHANGED <<pool, vars>>

PoolSpec == PoolInit /\ [][PoolNext]_poolVars

PoolAndChain   == List!PoolAndChain
ImplementsList == List!ImplementsList
=============================================================================
