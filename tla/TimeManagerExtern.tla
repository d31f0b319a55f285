-------------------------- MODULE TimeManagerExtern --------------------------
(***************************************************************************)
(* TimeManagerExtern.c: a table of counters that count down at every       *)
(* handle.  A client owns a counter and keeps the identifier of its place  *)
(* in the table, which Add writes and nothing ever takes back: a client    *)
(* may hold the identifier of a place that is another one's by now, and    *)
(* NewPenState.c releases a place by a number it was not given.            *)
(***************************************************************************)
EXTENDS Naturals, FiniteSets

CONSTANTS TM_MAX,   \* places of the table
          Clients,  \* each with an object of its own
          Values,   \* what counters are set to
          None

ID == 0 .. TM_MAX - 1

VARIABLES p_sTMB,        \* whose object is at each place, or None
          EntryCounter,
          counter,       \* of each object
          ToDo,          \* the objects with a function of their own
          counterExtern, \* what these functions count
          mTM_ID         \* of each client; TM_MAX for none

vars == <<p_sTMB, EntryCounter, counter, ToDo, counterExtern, mTM_ID>>

Used         == {i \in ID : p_sTMB[i] # None}
PlacesOf(c)  == {i \in ID : p_sTMB[i] = c}
Managed(c)   == PlacesOf(c) # {}
FirstFree(i) == i \in ID \ Used /\ \A j \in ID \ Used : i <= j

Init == /\ p_sTMB = [i \in ID |-> None]
        /\ EntryCounter = 0
        /\ counter = [c \in Clients |-> 0]
        /\ ToDo = {}
        /\ counterExtern = [c \in Clients |-> 0]
        /\ mTM_ID = [c \in Clients |-> TM_MAX]

\* TimeManagerExternInit leaves the objects and the clients' identifiers.
ExternInit == /\ p_sTMB' = [i \in ID |-> None]
              /\ EntryCounter' = 0
              /\ UNCHANGED <<counter, ToDo, counterExtern, mTM_ID>>

(* The identifier is given up before anything is checked, and each of the  *)
(* refusals leaves it so.                                                  *)
AddRefused(c) ==
  /\ EntryCounter >= TM_MAX \/ Managed(c) \/ Used = ID
  /\ mTM_ID' = [mTM_ID EXCEPT ![c] = TM_MAX]
  /\ UNCHANGED <<p_sTMB, EntryCounter, counter, ToDo, counterExtern>>

\* withToDo: whether the client passes a function.
Add(c, withToDo) ==
  /\ EntryCounter < TM_MAX /\ ~Managed(c)
  /\ \E i \in ID : /\ FirstFree(i)
                   /\ mTM_ID' = [mTM_ID EXCEPT ![c] = i]
                   /\ p_sTMB' = [p_sTMB EXCEPT ![i] = c]
  /\ counter' = [counter EXCEPT ![c] = 0]
  /\ ToDo' = IF withToDo THEN ToDo \cup {c} ELSE ToDo \ {c}
  /\ EntryCounter' = EntryCounter + 1
  /\ UNCHANGED counterExtern

\* The caller's identifier is a parameter: it keeps it.
Release(id) ==
  /\ id \in Used
  /\ p_sTMB' = [p_sTMB EXCEPT ![id] = None]
  /\ EntryCounter' = IF EntryCounter > 0 THEN EntryCounter - 1 ELSE 0
  /\ UNCHANGED <<counter, ToDo, counterExtern, mTM_ID>>

SetBasicValue(id, value) ==
  /\ id \in Used
  /\ counter' = [counter EXCEPT ![p_sTMB[id]] = value]
  /\ UNCHANGED <<p_sTMB, EntryCounter, ToDo, counterExtern, mTM_ID>>

(* An object without a function counts down in the handle, the others in   *)
(* theirs: CounterDrease of NewPenState.c, which also counts up.           *)
Less(n) == IF n > 0 THEN n - 1 ELSE n
CountedUp(c) == Managed(c) /\ c \in ToDo

Handle ==
  /\ EntryCounter # 0
  /\ counter' = [c \in Clients |-> IF Managed(c) THEN Less(counter[c]) ELSE counter[c]]
  /\ counterExtern' = [c \in Clients |-> IF CountedUp(c) THEN counterExtern[c] + 1
                                                         ELSE counterExtern[c]]
  /\ UNCHANGED <<p_sTMB, EntryCounter, ToDo, mTM_ID>>

Next == \/ ExternInit
        \/ \E c \in Clients, withToDo \in BOOLEAN : Add(c, withToDo)
        \/ \E c \in Clients : AddRefused(c)
        \/ \E id \in ID : Release(id)
        \/ \E id \in ID, value \in Values : SetBasicValue(id, value)
        \/ Handle

Spec == Init /\ [][Next]_vars

-----------------------------------------------------------------------------
TypeOK == /\ p_sTMB \in [ID -> Clients \cup {None}]
          /\ EntryCounter \in Nat
          /\ counter \in [Clients -> Nat]
          /\ ToDo \subseteq Clients
          /\ counterExtern \in [Clients -> Nat]
          /\ mTM_ID \in [Clients -> ID \cup {TM_MAX}]

\* The number that Add and Handle decide on is the number of used places.
EntriesCounted == EntryCounter = Cardinality(Used)

(* The last return of Add, APP_ERROR for a table that is full although the *)
(* number says otherwise, is never reached.                                *)
AddFindsPlace == EntryCounter < TM_MAX => Used # ID

(* No object is handled twice in one round: it has one place at most. *)
OnePlace == \A i, j \in Used : p_sTMB[i] = p_sTMB[j] => i = j

(* A client whose object is in the table has the identifier of its place,  *)
(* or none when it added the object again; never another one's.  Whoever   *)
(* is not in the table may hold any.                                       *)
IdentifierLeadsHome ==
  \A c \in Clients : \A i \in PlacesOf(c) : mTM_ID[c] \in {i, TM_MAX}
=============================================================================
