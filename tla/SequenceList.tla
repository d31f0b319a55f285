---------------------------- MODULE SequenceList ----------------------------
(***************************************************************************)
(* What a list of m_list_node.h promises its users: a sequence of at most  *)
(* Size values, changed at the place a call names and nowhere else, and a  *)
(* reason for each refusal.  APP_ERROR and APP_NO_ENOUGH_SPACE, the codes  *)
(* for a list that is broken inside, are never answered.                   *)
(***************************************************************************)
EXTENDS SequencesExt

CONSTANTS Size,      \* the longest list
          Values,
          Zero       \* the value no request names

VARIABLES ready,     \* whether it has been initialised
          list,
          request,   \* the last call: what, at which place, with which value
          result     \* its answer

Init == /\ ready = FALSE /\ list = << >>
        /\ request = <<"none", 0, Zero>> /\ result = "none"

Request(what, place, v) == request' = <<what, place, v>>

Refuse(answer) == result' = answer /\ UNCHANGED <<ready, list>>

Change(new) == /\ list' = new
               /\ result' = "APP_SUCCESSED"
               /\ UNCHANGED ready

Clear == /\ Request("clear", 0, Zero)
         /\ ready' = TRUE /\ list' = << >> /\ result' = "APP_SUCCESSED"

Add(place, v) ==
  /\ Request("add", place, v)
  /\ \/ ~ready /\ Refuse("APP_UNEXPECT_STATE")
     \/ ready /\ Len(list) = Size /\ Refuse("APP_BEYOND_SCOPE")
     \/ Len(list) < place /\ place <= Size /\ Refuse("APP_PARAM_ERROR")
     \/ /\ ready /\ Len(list) < Size /\ place <= Len(list)
        /\ Change(InsertAt(list, place + 1, v))

Delete(place) ==
  /\ Request("remove", place, Zero)
  /\ \/ ~ready /\ Refuse("APP_UNEXPECT_STATE")
     \/ list = << >> /\ Refuse("APP_ALREADY_DONE_BEFORE")
     \/ ready /\ Len(list) <= place /\ Refuse("APP_PARAM_ERROR")
     \/ place < Len(list) /\ Change(RemoveAt(list, place + 1))

Update(place, v) == /\ Request("update", place, v)
                    /\ place < Len(list)
                    /\ Change([list EXCEPT ![place + 1] = v])

Next == \/ Clear
        \/ \E place \in 0 .. Size : Delete(place)
        \/ \E place \in 0 .. Size, v \in Values : Add(place, v) \/ Update(place, v)

Spec == Init /\ [][Next]_<<ready, list, request, result>>
=============================================================================
