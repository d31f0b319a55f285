----------------------------- MODULE TimerProofs -----------------------------
(***************************************************************************)
(* Everything that counts hooks, for every number of timers, of clients    *)
(* and of places, and for every limit and interval: the timers of          *)
(* app_timer.c, whose walk meets main at every step and whose threshold is *)
(* a least common multiple; the time managers of TimeManagerExtern.c and   *)
(* the timers of user_irq.c, whose tables are changed while they are       *)
(* walked.  A running timer's next call comes nearer with every step of    *)
(* the thread.                                                             *)
(***************************************************************************)
EXTENDS AppTimer, FiniteSetTheorems, SequenceTheorems, TLAPS

CONSTANTS TM_MAX, Clients, Values, None,
          Entries, MAX_SYS_TIMER_ENTRY_NUMBER, Intervals

\* What AppTimer has a variable for already goes by another name here.
VARIABLES p_sTMB, EntryCounter, waiting, ToDo, counterExtern, mTM_ID,
          threadStarted, pEntryBuf, period, current_counter, running,
          creating, made, place, seen

Table  == INSTANCE TimeManagerExtern WITH counter <- waiting
Thread == INSTANCE SystemTimer
            WITH isTimerStart <- threadStarted, divider <- period, i <- place

\* The table counts with the Cardinality the library's theorems are about.
LEMMA SameCardinality ==
  ASSUME NEW S
  PROVE  Table!Cardinality(S) = Cardinality(S)
BY DEF Table!Cardinality, Cardinality

-----------------------------------------------------------------------------
(* The table of time managers, whoever releases or sets whatever place.    *)

\* The constants are what their names say.
TableGiven == TM_MAX \in Nat /\ Values \subseteq Nat /\ None \notin Clients

TableIInv == Table!TypeOK
  /\ Table!EntriesCounted /\ Table!OnePlace /\ Table!IdentifierLeadsHome

(* The places are finitely many, and so are the used ones. *)
LEMMA FinitePlaces ==
  ASSUME TableGiven
  PROVE  /\ IsFiniteSet(Table!ID) /\ Cardinality(Table!ID) = TM_MAX
         /\ IsFiniteSet(Table!Used) /\ Cardinality(Table!Used) \in Nat
<1>1. IsFiniteSet(Table!ID) /\ Cardinality(Table!ID) = TM_MAX
  <2>1. CASE TM_MAX = 0
    <3>1. Table!ID = {}
      BY <2>1 DEF Table!ID
    <3> QED
      BY <2>1, <3>1, FS_EmptySet
  <2>2. CASE TM_MAX # 0
    <3>1. TM_MAX \in Nat /\ 0 \in Int /\ TM_MAX - 1 \in Int /\ 0 <= TM_MAX - 1
      BY <2>2 DEF TableGiven
    <3>2. TM_MAX - 1 - 0 + 1 = TM_MAX
      BY <3>1
    <3> QED
      BY <3>1, <3>2, FS_Interval DEF Table!ID
  <2> QED
    BY <2>1, <2>2
<1>2. Table!Used \subseteq Table!ID
  BY DEF Table!Used
<1> QED
  BY <1>1, <1>2, FS_Subset, FS_CardinalityType

(* A place that is taken is counted, and so is one that is given back. *)
LEMMA OneMoreUsed ==
  ASSUME TableGiven, p_sTMB \in [Table!ID -> Clients \cup {None}],
         NEW k \in Table!ID \ Table!Used, NEW c \in Clients,
         p_sTMB' = [p_sTMB EXCEPT ![k] = c]
  PROVE  /\ Table!Used' = Table!Used \cup {k}
         /\ Cardinality(Table!Used') = Cardinality(Table!Used) + 1
<1>1. Table!Used' = Table!Used \cup {k}
  BY DEF Table!Used, TableGiven
<1> QED
  BY <1>1, FinitePlaces, FS_AddElement

LEMMA OneLessUsed ==
  ASSUME TableGiven, p_sTMB \in [Table!ID -> Clients \cup {None}],
         NEW k \in Table!Used, p_sTMB' = [p_sTMB EXCEPT ![k] = None]
  PROVE  /\ Table!Used' = Table!Used \ {k}
         /\ Cardinality(Table!Used') = Cardinality(Table!Used) - 1
<1>1. Table!Used' = Table!Used \ {k}
  BY DEF Table!Used
<1> QED
  BY <1>1, FinitePlaces, FS_RemoveElement

LEMMA TableInitIInv == TableGiven /\ Table!Init => TableIInv
<1> SUFFICES ASSUME TableGiven, Table!Init PROVE TableIInv
  OBVIOUS
<1>1. Table!Used = {}
  BY DEF Table!Init, Table!Used
<1>2. Table!EntriesCounted
  BY <1>1, FS_EmptySet, SameCardinality DEF Table!Init, Table!EntriesCounted
<1>3. Table!TypeOK
  BY DEF Table!Init, Table!TypeOK
<1>4. Table!OnePlace /\ Table!IdentifierLeadsHome
  BY <1>1
     DEF Table!OnePlace, Table!IdentifierLeadsHome, Table!PlacesOf, Table!Init,
         TableGiven
<1> QED
  BY <1>2, <1>3, <1>4 DEF TableIInv

\* A removal keeps what is said of the clients in the table.
LEMMA FewerPlacesKeep ==
  ASSUME TableGiven, Table!OnePlace, Table!IdentifierLeadsHome,
         mTM_ID' = mTM_ID,
         \A k \in Table!ID : p_sTMB'[k] \in {p_sTMB[k], None}
  PROVE  Table!OnePlace' /\ Table!IdentifierLeadsHome'
<1>1. Table!OnePlace'
  BY DEF Table!OnePlace, Table!Used
<1>2. Table!IdentifierLeadsHome'
  BY DEF Table!IdentifierLeadsHome, Table!PlacesOf, TableGiven
<1> QED
  BY <1>1, <1>2

LEMMA AddKeeps ==
  ASSUME TableGiven, TableIInv, NEW c \in Clients, NEW withToDo \in BOOLEAN,
         Table!Add(c, withToDo)
  PROVE  TableIInv'
<1> USE DEF TableIInv, Table!TypeOK
<1>1. PICK k \in Table!ID \ Table!Used : /\ mTM_ID' = [mTM_ID EXCEPT ![c] = k]
                             /\ p_sTMB' = [p_sTMB EXCEPT ![k] = c]
  BY DEF Table!Add, Table!FirstFree
<1>2. Table!Used' = Table!Used \cup {k}
  /\ Cardinality(Table!Used') = Cardinality(Table!Used) + 1
  BY <1>1, OneMoreUsed
<1>3. Table!EntriesCounted'
  BY <1>2, SameCardinality DEF Table!Add, Table!EntriesCounted
<1>4. \A h \in Table!ID : p_sTMB[h] # c
  BY DEF Table!Add, Table!Managed, Table!PlacesOf
<1>5. Table!OnePlace'
  BY <1>1, <1>2, <1>4 DEF Table!OnePlace, Table!Used
<1>6. Table!IdentifierLeadsHome'
  <2> SUFFICES ASSUME NEW d \in Clients, NEW h \in Table!PlacesOf(d)'
               PROVE  mTM_ID'[d] \in {h, TM_MAX}
    BY DEF Table!IdentifierLeadsHome
  <2>1. CASE d = c
    BY <1>1, <1>4, <2>1 DEF Table!PlacesOf
  <2>2. CASE d # c
    BY <1>1, <2>2 DEF Table!PlacesOf, Table!IdentifierLeadsHome
  <2> QED
    BY <2>1, <2>2
<1>7. EntryCounter' \in Nat /\ waiting' \in [Clients -> Nat]
  BY DEF Table!Add
<1>8. ToDo' \subseteq Clients /\ counterExtern' \in [Clients -> Nat]
  BY DEF Table!Add
<1>9. /\ p_sTMB' \in [Table!ID -> Clients \cup {None}]
      /\ mTM_ID' \in [Clients -> Table!ID \cup {TM_MAX}]
  BY <1>1
<1> QED
  BY <1>3, <1>5, <1>6, <1>7, <1>8, <1>9

LEMMA AddRefusedKeeps ==
  ASSUME TableGiven, TableIInv, NEW c \in Clients, Table!AddRefused(c)
  PROVE  TableIInv'
<1> USE DEF TableIInv, Table!TypeOK
<1>1. Table!TypeOK'
  BY DEF Table!AddRefused
<1>2. Table!Used' = Table!Used
  BY DEF Table!AddRefused, Table!Used
<1>3. Table!EntriesCounted' /\ Table!OnePlace'
  BY <1>2 DEF Table!AddRefused, Table!EntriesCounted, Table!OnePlace
<1>4. Table!IdentifierLeadsHome'
  BY DEF Table!AddRefused, Table!IdentifierLeadsHome, Table!PlacesOf
<1> QED
  BY <1>1, <1>3, <1>4

LEMMA ReleaseKeeps ==
  ASSUME TableGiven, TableIInv, NEW id \in Table!ID, Table!Release(id)
  PROVE  TableIInv'
<1> USE DEF TableIInv, Table!TypeOK
<1>1. Cardinality(Table!Used') = Cardinality(Table!Used) - 1
  BY OneLessUsed DEF Table!Release
<1>2. Cardinality(Table!Used) \in Nat /\ Cardinality(Table!Used) # 0
  BY FinitePlaces, FS_EmptySet DEF Table!Release
<1>3. EntryCounter' = EntryCounter - 1
  BY <1>2, SameCardinality DEF Table!Release, Table!EntriesCounted
<1>4. Table!EntriesCounted' /\ EntryCounter' \in Nat
  BY <1>1, <1>2, <1>3, SameCardinality DEF Table!EntriesCounted
<1>5. Table!OnePlace' /\ Table!IdentifierLeadsHome'
  BY FewerPlacesKeep DEF Table!Release
<1>6. p_sTMB' \in [Table!ID -> Clients \cup {None}]
  BY DEF Table!Release
<1> QED
  BY <1>4, <1>5, <1>6 DEF Table!Release

LEMMA TableNextIInv == TableGiven
  /\ TableIInv /\ [Table!Next]_(Table!vars) => TableIInv'
<1> SUFFICES ASSUME TableGiven, TableIInv, [Table!Next]_(Table!vars)
  PROVE TableIInv'
  OBVIOUS
<1> USE DEF TableIInv, Table!TypeOK
<1>1. CASE Table!ExternInit
  <2>1. Table!Used' = {}
    BY <1>1 DEF Table!ExternInit, Table!Used
  <2>2. Table!EntriesCounted'
    BY <1>1, <2>1, FS_EmptySet, SameCardinality
       DEF Table!ExternInit, Table!EntriesCounted
  <2>3. Table!OnePlace' /\ Table!IdentifierLeadsHome'
    BY <1>1, FewerPlacesKeep DEF Table!ExternInit
  <2> QED
    BY <1>1, <2>2, <2>3 DEF Table!ExternInit
<1>2. CASE \E c \in Clients, withToDo \in BOOLEAN : Table!Add(c, withToDo)
  BY <1>2, AddKeeps
<1>3. CASE \E c \in Clients : Table!AddRefused(c)
  BY <1>3, AddRefusedKeeps
<1>4. CASE \E id \in Table!ID : Table!Release(id)
  BY <1>4, ReleaseKeeps
<1>5. ASSUME p_sTMB' = p_sTMB, EntryCounter' = EntryCounter, mTM_ID' = mTM_ID
      PROVE  Table!EntriesCounted'
        /\ Table!OnePlace' /\ Table!IdentifierLeadsHome'
  BY <1>5
     DEF Table!EntriesCounted, Table!OnePlace, Table!IdentifierLeadsHome,
         Table!Used, Table!PlacesOf
<1>6. CASE \E id \in Table!ID, value \in Values : Table!SetBasicValue(id, value)
  <2>1. waiting' \in [Clients -> Nat]
    BY <1>6 DEF Table!SetBasicValue, Table!Used, TableGiven
  <2> QED
    BY <1>5, <1>6, <2>1 DEF Table!SetBasicValue
<1>7. CASE Table!Handle
  <2>1. waiting' \in [Clients -> Nat] /\ counterExtern' \in [Clients -> Nat]
    BY <1>7 DEF Table!Handle, Table!Less
  <2> QED
    BY <1>5, <1>7, <2>1 DEF Table!Handle
<1>8. CASE UNCHANGED Table!vars
  BY <1>5, <1>8 DEF Table!vars
<1> QED
  BY <1>1, <1>2, <1>3, <1>4, <1>6, <1>7, <1>8 DEF Table!Next

(* Table, objects and identifiers stay well typed. *)
THEOREM TableTypeCorrect == ASSUME TableGiven PROVE Table!Spec => []Table!TypeOK
<1>1. TableGiven /\ TableIInv /\ [Table!Next]_(Table!vars) => TableIInv'
  BY TableNextIInv
<1>2. TableIInv => Table!TypeOK
  BY DEF TableIInv
<1> QED
  BY TableInitIInv, <1>1, <1>2, PTL DEF Table!Spec

(* TimeManagerExternAdd never ends with APP_ERROR: below the limit there   *)
(* is a free place.                                                        *)
THEOREM AddCorrect == ASSUME TableGiven
  PROVE Table!Spec => []Table!AddFindsPlace
<1>1. TableGiven /\ TableIInv /\ [Table!Next]_(Table!vars) => TableIInv'
  BY TableNextIInv
<1>2. TableIInv => Table!AddFindsPlace
  <2> SUFFICES ASSUME TableIInv, EntryCounter < TM_MAX
    PROVE Table!Used # Table!ID
    BY DEF Table!AddFindsPlace
  <2>1. Cardinality(Table!Used) < TM_MAX
    BY SameCardinality DEF TableIInv, Table!EntriesCounted
  <2> QED
    BY <2>1, FinitePlaces DEF TableGiven
<1> QED
  BY TableInitIInv, <1>1, <1>2, PTL DEF Table!Spec

(* No counter counts down twice in one TimeManagerExternHandle. *)
THEOREM OnePlaceCorrect == ASSUME TableGiven
  PROVE Table!Spec => []Table!OnePlace
<1>1. TableGiven /\ TableIInv /\ [Table!Next]_(Table!vars) => TableIInv'
  BY TableNextIInv
<1>2. TableIInv => Table!OnePlace
  BY DEF TableIInv
<1> QED
  BY TableInitIInv, <1>1, <1>2, PTL DEF Table!Spec

(* A client in the table sets and releases its own place or none, whatever *)
(* numbers the others release.                                             *)
THEOREM IdentifierCorrect == ASSUME TableGiven
  PROVE Table!Spec => []Table!IdentifierLeadsHome
<1>1. TableGiven /\ TableIInv /\ [Table!Next]_(Table!vars) => TableIInv'
  BY TableNextIInv
<1>2. TableIInv => Table!IdentifierLeadsHome
  BY DEF TableIInv
<1> QED
  BY TableInitIInv, <1>1, <1>2, PTL DEF Table!Spec

-----------------------------------------------------------------------------
(* The list of timers and the thread that walks it.  NotPassed needs to    *)
(* know that what the hook saw of a timer still holds when it counts.      *)
\* There are no more timers than places, as SYS_TIMER_DEF cannot ensure;
\* what a program does that has written behind the array is not defined.
FewTimers == /\ IsFiniteSet(Entries)
             /\ MAX_SYS_TIMER_ENTRY_NUMBER \in Nat
             /\ Cardinality(Entries) <= MAX_SYS_TIMER_ENTRY_NUMBER
             /\ Intervals \subseteq Nat
             /\ None \notin Entries

ThreadIInv == Thread!TypeOK
  /\ Thread!NotYetMade /\ Thread!Looking /\ Thread!StillCounting /\ Thread!NotPassed

\* SystemTimerCreated links an entry before it fills it in.
LEMMA LinkKeeps ==
  ASSUME FewTimers, ThreadIInv, NEW e \in Entries, Thread!Link(e)
  PROVE  ThreadIInv'
<1>1. pEntryBuf \in Seq(Entries) /\ place \in Nat BY DEF ThreadIInv, Thread!TypeOK
<1>2. /\ pEntryBuf' \in Seq(Entries)
      /\ Len(pEntryBuf') = Len(pEntryBuf) + 1
      /\ Len(pEntryBuf) \in Nat
      /\ \A k \in 1 .. Len(pEntryBuf) : pEntryBuf'[k] = pEntryBuf[k]
  BY <1>1 DEF Thread!Link
<1>3. Thread!TypeOK'
  BY <1>2 DEF Thread!Link, ThreadIInv, Thread!TypeOK, Thread!main, Thread!fields
<1>4. Thread!NotYetMade'
  BY DEF Thread!Link, Thread!NotYetMade
<1>5. Thread!Looking'
  BY <1>2 DEF Thread!Link, ThreadIInv, Thread!Looking, Thread!main
<1>6. Thread!StillCounting'
  BY <1>2
     DEF Thread!Link, ThreadIInv, Thread!Looking, Thread!StillCounting,
         Thread!fields
<1>7. Thread!NotPassed'
  BY DEF Thread!Link, ThreadIInv, Thread!NotPassed, Thread!fields
<1> QED BY <1>3, <1>4, <1>5, <1>6, <1>7 DEF ThreadIInv

\* The entry main is creating is not yet among the made ones.
LEMMA FillKeeps ==
  ASSUME FewTimers, ThreadIInv, NEW interval \in Intervals,
         Thread!Fill(interval)
  PROVE  ThreadIInv'
<1>1. creating \in Entries /\ creating \notin made /\ interval \in Nat
  BY DEF Thread!Fill, ThreadIInv, Thread!TypeOK, Thread!NotYetMade, FewTimers
<1>2. Thread!TypeOK' BY <1>1 DEF Thread!Fill, ThreadIInv, Thread!TypeOK
<1>3. \A e \in made : current_counter'[e] = current_counter[e]
  /\ period'[e] = period[e]
  BY <1>1 DEF Thread!Fill, ThreadIInv, Thread!TypeOK
<1>4. current_counter'[creating] = 0 /\ period'[creating] = interval
  BY <1>1 DEF Thread!Fill, ThreadIInv, Thread!TypeOK
<1>5. Thread!NotYetMade'
  BY <1>1 DEF Thread!Fill, Thread!NotYetMade, FewTimers, ThreadIInv, Thread!TypeOK
<1>6. Thread!Looking' BY DEF Thread!Fill, ThreadIInv, Thread!Looking
<1>7. Thread!StillCounting'
  BY <1>3 DEF Thread!Fill, ThreadIInv, Thread!Looking, Thread!StillCounting
<1>8. Thread!NotPassed'
  BY <1>1, <1>3, <1>4 DEF Thread!Fill, ThreadIInv, Thread!NotPassed
<1> QED BY <1>2, <1>5, <1>6, <1>7, <1>8 DEF ThreadIInv

\* One turn of SystemTimerHook, whatever main did since the last.
LEMMA HookKeeps == ASSUME FewTimers, ThreadIInv, Thread!SystemTimerHook
  PROVE ThreadIInv'
<1>1. Len(pEntryBuf) \in Nat /\ place \in Nat BY DEF ThreadIInv, Thread!TypeOK
<1>2. CASE Thread!HookBegins
  <2>1. Thread!TypeOK' /\ Thread!NotYetMade' /\ Thread!NotPassed'
    BY <1>2
       DEF Thread!HookBegins, ThreadIInv, Thread!TypeOK, Thread!NotYetMade,
           Thread!NotPassed, Thread!main, Thread!fields
  <2>2. seen = "nothing" /\ seen' = "nothing"
    BY <1>2 DEF Thread!HookBegins, ThreadIInv, Thread!TypeOK, Thread!Looking
  <2> QED BY <2>1, <2>2 DEF ThreadIInv, Thread!Looking, Thread!StillCounting
<1>3. CASE Thread!Look
  <2>1. /\ pEntryBuf[place] \in Entries
        /\ current_counter[pEntryBuf[place]] \in Nat
          /\ period[pEntryBuf[place]] \in Nat
    BY <1>3 DEF Thread!Look, ThreadIInv, Thread!TypeOK
  <2>2. Thread!TypeOK' /\ Thread!NotYetMade' /\ Thread!NotPassed'
    BY <1>1, <1>3
       DEF Thread!Look, ThreadIInv, Thread!TypeOK, Thread!NotYetMade,
           Thread!NotPassed, Thread!main, Thread!fields
  <2>3. CASE pEntryBuf[place] \notin running
    BY <1>3, <2>2, <2>3
       DEF Thread!Look, ThreadIInv, Thread!Looking, Thread!StillCounting
  <2>4. CASE pEntryBuf[place] \in running
    <3>1. pEntryBuf[place] \in made BY <2>4 DEF ThreadIInv, Thread!TypeOK
    <3>2. current_counter[pEntryBuf[place]] <= period[pEntryBuf[place]]
      BY <3>1 DEF ThreadIInv, Thread!NotPassed
    <3>3. Thread!Looking'
      BY <1>3, <2>4, <3>1 DEF Thread!Look, Thread!Looking, Thread!main
    <3>4. Thread!StillCounting'
      BY <1>3, <2>1, <2>4, <3>2
         DEF Thread!Look, Thread!StillCounting, Thread!fields
    <3> QED BY <2>2, <3>3, <3>4 DEF ThreadIInv
  <2> QED BY <2>3, <2>4
<1>4. CASE Thread!Fire
  <2>1. pEntryBuf[place] \in made /\ pEntryBuf[place] \in Entries
    BY <1>4 DEF Thread!Fire, ThreadIInv, Thread!Looking, Thread!TypeOK
  <2>2. Thread!TypeOK'
    BY <1>1, <1>4, <2>1 DEF Thread!Fire, ThreadIInv, Thread!TypeOK, Thread!main
  <2>3. Thread!NotYetMade'
    BY <1>4
       DEF Thread!Fire, ThreadIInv, Thread!NotYetMade, Thread!main
  <2>4. Thread!NotPassed'
    BY <1>4, <2>1
       DEF Thread!Fire, ThreadIInv, Thread!TypeOK, Thread!NotPassed, Thread!main
  <2> QED
    BY <1>4, <2>2, <2>3, <2>4
       DEF Thread!Fire, ThreadIInv, Thread!Looking, Thread!StillCounting
<1>5. CASE Thread!Count
  <2>1. /\ pEntryBuf[place] \in made /\ pEntryBuf[place] \in Entries
        /\ current_counter[pEntryBuf[place]] < period[pEntryBuf[place]]
    BY <1>5
       DEF Thread!Count, ThreadIInv, Thread!Looking, Thread!StillCounting,
           Thread!TypeOK
  <2>2. Thread!TypeOK'
    BY <1>1, <1>5, <2>1 DEF Thread!Count, ThreadIInv, Thread!TypeOK, Thread!main
  <2>3. Thread!NotYetMade'
    BY <1>5
       DEF Thread!Count, ThreadIInv, Thread!NotYetMade, Thread!main
  <2>4. Thread!NotPassed'
    BY <1>5, <2>1
       DEF Thread!Count, ThreadIInv, Thread!TypeOK, Thread!NotPassed,
           Thread!main
  <2> QED
    BY <1>5, <2>2, <2>3, <2>4
       DEF Thread!Count, ThreadIInv, Thread!Looking, Thread!StillCounting
<1>6. CASE Thread!HookEnds
  <2>1. Thread!TypeOK' /\ Thread!NotYetMade' /\ Thread!NotPassed'
    BY <1>6
       DEF Thread!HookEnds, ThreadIInv, Thread!TypeOK, Thread!NotYetMade,
           Thread!NotPassed, Thread!main, Thread!fields
  <2>2. seen = "nothing" /\ seen' = "nothing"
    BY <1>1, <1>6 DEF Thread!HookEnds, ThreadIInv, Thread!TypeOK, Thread!Looking
  <2> QED BY <2>1, <2>2 DEF ThreadIInv, Thread!Looking, Thread!StillCounting
<1> QED BY <1>2, <1>3, <1>4, <1>5, <1>6 DEF Thread!SystemTimerHook

LEMMA ThreadNextIInv ==
  ASSUME FewTimers, ThreadIInv, [Thread!Next]_(Thread!vars) PROVE ThreadIInv'
<1>1. CASE Thread!StartTimer
  BY <1>1
     DEF Thread!StartTimer, ThreadIInv, Thread!TypeOK, Thread!NotYetMade,
         Thread!Looking, Thread!StillCounting, Thread!NotPassed,
         Thread!main, Thread!fields
<1>2. ASSUME NEW e \in Entries, Thread!StartOrStop(e) PROVE ThreadIInv'
  BY <1>2
     DEF Thread!StartOrStop, ThreadIInv, Thread!TypeOK, Thread!NotYetMade,
         Thread!Looking, Thread!StillCounting, Thread!NotPassed,
         Thread!main, Thread!fields
<1>3. CASE UNCHANGED Thread!vars
  BY <1>3
     DEF Thread!vars, Thread!main, Thread!fields, ThreadIInv, Thread!TypeOK,
         Thread!NotYetMade, Thread!Looking, Thread!StillCounting,
         Thread!NotPassed
<1> QED BY <1>1, <1>2, <1>3, LinkKeeps, FillKeeps, HookKeeps DEF Thread!Next

LEMMA ThreadInitIInv == ASSUME FewTimers, Thread!Init PROVE ThreadIInv
<1>1. Thread!TypeOK
  <2>1. <<>> \in Seq(Entries) /\ 0 \in Nat OBVIOUS
  <2>2. /\ period \in [Entries -> Nat] /\ current_counter \in [Entries -> Nat]
        /\ threadStarted \in BOOLEAN
    BY <2>1 DEF Thread!Init
  <2> QED BY <2>1, <2>2 DEF Thread!Init, Thread!TypeOK
<1>2. Thread!NotYetMade BY DEF Thread!Init, Thread!NotYetMade
<1>3. Thread!Looking /\ Thread!StillCounting /\ Thread!NotPassed
  BY DEF Thread!Init, Thread!Looking, Thread!StillCounting, Thread!NotPassed
<1> QED BY <1>1, <1>2, <1>3 DEF ThreadIInv

(* The check of SystemTimerCreated compares with > where >= is meant:      *)
(* however many timers a program creates, it writes one behind the array   *)
(* and no second one, as long as their number, a byte, can be counted.     *)
THEOREM OneBehindTheArray == ASSUME MAX_SYS_TIMER_ENTRY_NUMBER \in 0 .. 254
  PROVE Thread!Spec => []Thread!OneTooMany
<1> DEFINE Bounded == pEntryBuf \in Seq(Entries) /\ Thread!OneTooMany
<1>1. Thread!Init => Bounded
  <2> SUFFICES ASSUME Thread!Init PROVE Bounded
    OBVIOUS
  <2>1. pEntryBuf = <<>> BY DEF Thread!Init
  <2> QED BY <2>1 DEF Thread!OneTooMany
<1>2. Bounded /\ [Thread!Next]_(Thread!vars) => Bounded'
  <2> SUFFICES ASSUME Bounded, [Thread!Next]_(Thread!vars) PROVE Bounded'
    OBVIOUS
  <2>1. ASSUME NEW e \in Entries, Thread!Link(e) PROVE Bounded'
    BY <2>1 DEF Thread!Link, Thread!OneTooMany
  <2>2. CASE pEntryBuf' = pEntryBuf
    BY <2>2 DEF Thread!OneTooMany
  <2>3. (\E e \in Entries : Thread!Link(e)) \/ pEntryBuf' = pEntryBuf
    BY DEF Thread!Next, Thread!vars, Thread!StartTimer, Thread!StartOrStop,
           Thread!Fill, Thread!SystemTimerHook, Thread!HookBegins, Thread!Look,
           Thread!Fire, Thread!Count, Thread!HookEnds
  <2> QED BY <2>1, <2>2, <2>3
<1>3. Bounded => Thread!OneTooMany
  OBVIOUS
<1> QED BY <1>1, <1>2, <1>3, PTL DEF Thread!Spec

(* A timer never gets past its divider, whatever main starts, stops and    *)
(* creates while the hook is at it, as long as each is created once.       *)
THEOREM CountersCorrect == ASSUME FewTimers
  PROVE Thread!Spec => []Thread!NotPassed
<1>1. Thread!Init => ThreadIInv BY ThreadInitIInv
<1>2. ThreadIInv /\ [Thread!Next]_(Thread!vars) => ThreadIInv' BY ThreadNextIInv
<1>3. ThreadIInv => Thread!NotPassed BY DEF ThreadIInv
<1> QED BY <1>1, <1>2, <1>3, PTL DEF Thread!Spec

-----------------------------------------------------------------------------
(* The timers of app_timer.c. *)

\* Well-founded induction over Nat, in the two forms used below.
LEMMA LeastElement ==
  ASSUME NEW S \in SUBSET Nat, S # {}
  PROVE  \E m \in S : \A n \in S : m <= n
<1> DEFINE R == OpToRel(<, Nat)
<1>1. IsWellFoundedOn(R, Nat)
  BY NatLessThanWellFounded, Zenon
<1>2. \A x, y \in Nat : <<y, x>> \in R <=> y < x
  BY Zenon DEF OpToRel
<1> HIDE DEF R
<1>3. PICK m \in S : \A n \in S : <<n, m>> \notin R
  BY <1>1, WFMin
<1>4. \A n \in S : ~(n < m) /\ n \in Nat /\ m \in Nat
  BY <1>2, <1>3
<1>5. \A n \in S : m <= n
  BY <1>4
<1> QED
  BY <1>5

LEMMA InductionInSet ==
  ASSUME NEW S, 0 \in S, \A n \in Nat : n \in S => n + 1 \in S
  PROVE  Nat \subseteq S
<1> DEFINE Out == {n \in Nat : n \notin S}
<1> SUFFICES ASSUME Out # {} PROVE FALSE
  OBVIOUS
<1>1. PICK m \in Out : \A n \in Out : m <= n
  BY LeastElement
<1>2. m # 0 /\ m - 1 \in Nat
  BY <1>1
<1>3. m - 1 \in S
  BY <1>1, <1>2
<1> QED
  BY <1>1, <1>2, <1>3

\* Division with remainder, and what it says of multiples.
LEMMA DivMod ==
  ASSUME NEW D \in Nat \ {0}, NEW x \in Nat
  PROVE  /\ x \div D \in Nat /\ x % D \in 0 .. D - 1
         /\ x = ((x \div D) * D) + (x % D)
OBVIOUS

LEMMA MultipleOf ==
  ASSUME NEW D \in Nat \ {0}, NEW x \in Nat
  PROVE  x % D = 0 <=> \E a \in Nat : x = a * D
<1>1. ASSUME x % D = 0 PROVE \E a \in Nat : x = a * D
  <2>1. x \div D \in Nat /\ x = ((x \div D) * D) + (x % D)
    BY DivMod
  <2>2. PICK a : a = x \div D
    OBVIOUS
  <2>3. a \in Nat /\ x = a * D
    BY <1>1, <2>1, <2>2
  <2> QED
    BY <2>3
<1>2. ASSUME NEW a \in Nat, x = a * D PROVE x % D = 0
  BY <1>2
<1> QED
  BY <1>1, <1>2

LEMMA DividesMultiple ==
  ASSUME NEW d \in Nat \ {0}, NEW m \in Nat \ {0}, NEW t \in Nat,
         m % d = 0, t % m = 0
  PROVE  t % d = 0
<1>1. PICK a \in Nat : m = a * d
  BY MultipleOf
<1>2. PICK b \in Nat : t = b * m
  BY MultipleOf
<1>3. b * a \in Nat /\ t = (b * a) * d
  BY <1>1, <1>2
<1> QED
  BY <1>3, MultipleOf

LEMMA RemainderDivides ==
  ASSUME NEW d \in Nat \ {0}, NEW m \in Nat \ {0}, NEW t \in Nat,
         m % d = 0, t % d = 0
  PROVE  (t % m) % d = 0
<1>1. PICK a \in Nat : m = a * d
  BY MultipleOf
<1>2. PICK b \in Nat : t = b * d
  BY MultipleOf
<1>3. PICK q, r : q = t \div m /\ r = t % m
  OBVIOUS
<1>4. q \in Nat /\ r \in Nat /\ t = (q * m) + r
  BY <1>3, DivMod
<1>5. PICK p : p = q * a
  OBVIOUS
<1>6. p \in Nat /\ q * m = p * d
  BY <1>1, <1>4, <1>5
<1>7. r = (b * d) - (p * d)
  BY <1>2, <1>4, <1>6
<1>8. b >= p
  <2>1. ASSUME b < p PROVE FALSE
    <3>1. PICK c : c = p - b
      OBVIOUS
    <3>2. c \in Nat /\ c >= 1 /\ p = b + c
      BY <1>6, <2>1, <3>1
    <3>3. p * d = (b * d) + (c * d) /\ c * d \in Nat /\ b * d \in Nat
      BY <3>2
    <3>4. c * d >= 1
      BY <3>2
    <3> QED
      BY <1>4, <1>7, <3>3, <3>4
  <2> QED
    BY <1>6, <2>1
<1>9. b - p \in Nat
  BY <1>6, <1>8
<1>10. r = (b - p) * d
  BY <1>6, <1>7
<1> QED
  BY <1>3, <1>4, <1>9, <1>10, MultipleOf

(* The multiples that the first k dividers have in common, and the least. *)
Common(ds, k) == {t \in 1 .. Limit - 1 : \A i \in 1 .. k : t % ds[i] = 0}
Least(ds, k)  == IF Common(ds, k) = {} THEN 0 ELSE Min(Common(ds, k))

\* What the constants of app_timer.c are assumed to be.
LEMMA TimersGiven ==
  /\ Limit \in Nat /\ MaxTimers \in Nat /\ MaxLocks \in Nat
  /\ \A d \in Dividers : d \in Nat \ {0} /\ d < Limit
BY AppTimerAssumption

\* Min finds the least element of a set of numbers.
LEMMA MinProps ==
  ASSUME NEW S \in SUBSET Nat, S # {}
  PROVE  Min(S) \in S /\ \A n \in S : Min(S) <= n
BY LeastElement DEF Min

\* What all common multiples have in common is a multiple of the least.
LEMMA LeastDivides ==
  ASSUME NEW ds, NEW k \in Nat, \A i \in 1 .. k : ds[i] \in Nat \ {0},
         Common(ds, k) # {}
  PROVE  /\ Least(ds, k) \in 1 .. Limit - 1 /\ Least(ds, k) \in Common(ds, k)
         /\ \A t \in Common(ds, k) : t % Least(ds, k) = 0 /\ Least(ds, k) <= t
<1>0. Limit \in Nat
  BY AppTimerAssumption
<1>1. PICK m : m = Least(ds, k)
  OBVIOUS
<1>2. Common(ds, k) \in SUBSET Nat
  BY <1>0 DEF Common
<1>3. m \in Common(ds, k) /\ \A t \in Common(ds, k) : m <= t
  BY <1>1, <1>2, MinProps DEF Least
<1>4. m \in 1 .. Limit - 1 /\ \A i \in 1 .. k : m % ds[i] = 0
  BY <1>3 DEF Common
<1>5. ASSUME NEW t \in Common(ds, k) PROVE t % m = 0
  <2>1. t \in 1 .. Limit - 1 /\ \A i \in 1 .. k : t % ds[i] = 0
    BY DEF Common
  <2>2. PICK r : r = t % m
    OBVIOUS
  <2>3. r \in 0 .. m - 1 /\ m \in Nat \ {0} /\ t \in Nat
    BY <1>0, <1>4, <2>1, <2>2, DivMod
  <2>4. \A i \in 1 .. k : r % ds[i] = 0
    BY <1>4, <2>1, <2>2, <2>3, RemainderDivides
  <2>5. ASSUME r # 0 PROVE FALSE
    <3>1. r \in 1 .. Limit - 1 /\ r < m
      BY <1>0, <1>4, <2>3, <2>5
    <3>2. r \in Common(ds, k)
      BY <2>4, <3>1 DEF Common
    <3> QED
      BY <1>3, <2>3, <3>1, <3>2
  <2> QED
    BY <2>2, <2>5
<1> QED
  BY <1>1, <1>3, <1>4, <1>5

\* One turn of GetLCM's loop.
LEMMA LeastNext ==
  ASSUME NEW ds, NEW k \in Nat, k # 0, \A i \in 1 .. k + 1 : ds[i] \in Dividers
  PROVE  Least(ds, k + 1) = LcmOfTwo(Least(ds, k), ds[k + 1])
<1>0. /\ Limit \in Nat /\ \A i \in 1 .. k + 1 : ds[i] \in Nat \ {0}
      /\ \A i \in 1 .. k : i \in 1 .. k + 1 /\ ds[i] \in Nat \ {0}
      /\ k + 1 \in 1 .. k + 1
  <2>1. \A i \in 1 .. k : i \in 1 .. k + 1
    OBVIOUS
  <2> QED
    BY <2>1, TimersGiven
<1>1. PICK m, n : m = Least(ds, k) /\ n = ds[k + 1]
  OBVIOUS
<1>2. Common(ds, k + 1) = {t \in Common(ds, k) : t % n = 0}
  <2>1. \A i \in 1 .. k + 1 : i \in 1 .. k \/ i = k + 1
    OBVIOUS
  <2> QED
    BY <1>0, <1>1, <2>1 DEF Common
<1>3. CASE Common(ds, k) = {}
  <2>1. m = 0 /\ Least(ds, k + 1) = 0
    BY <1>1, <1>2, <1>3 DEF Least
  <2>2. LcmOfTwo(m, n) = 0
    BY <2>1 DEF LcmOfTwo
  <2> QED
    BY <1>1, <2>1, <2>2
<1>4. CASE Common(ds, k) # {}
  <2>1. /\ m \in 1 .. Limit - 1 /\ m \in Common(ds, k)
        /\ \A t \in Common(ds, k) : t % m = 0 /\ m <= t
    BY <1>0, <1>1, <1>4, LeastDivides
  <2>2. \A i \in 1 .. k : m % ds[i] = 0
    BY <2>1 DEF Common
  <2>3. {t \in m .. Limit - 1 : t % m = 0 /\ t % n = 0} = Common(ds, k + 1)
    <3>1. ASSUME NEW t \in Common(ds, k + 1)
          PROVE  t \in m .. Limit - 1 /\ t % m = 0 /\ t % n = 0
      <4>1. t \in Common(ds, k) /\ t % n = 0
        BY <1>2
      <4>2. t \in 1 .. Limit - 1
        BY DEF Common
      <4> QED
        BY <1>0, <2>1, <4>1, <4>2
    <3>2. ASSUME NEW t \in m .. Limit - 1, t % m = 0, t % n = 0
          PROVE  t \in Common(ds, k + 1)
      <4>1. t \in 1 .. Limit - 1 /\ t \in Nat /\ m \in Nat \ {0}
        BY <1>0, <2>1
      <4>2. \A i \in 1 .. k : t % ds[i] = 0
        BY <1>0, <2>2, <3>2, <4>1, DividesMultiple
      <4>3. t \in Common(ds, k)
        BY <4>1, <4>2 DEF Common
      <4> QED
        BY <1>2, <3>2, <4>3
    <3> QED
      BY <3>1, <3>2
  <2>4. LcmOfTwo(m, n) =
          IF Common(ds, k + 1) = {} THEN 0 ELSE Min(Common(ds, k + 1))
    <3>1. m # 0
      BY <1>0, <2>1
    <3> QED
      BY <2>3, <3>1 DEF LcmOfTwo
  <2> QED
    BY <1>1, <2>4 DEF Least
<1> QED
  BY <1>3, <1>4

(* GetLCM computes the least common multiple below the limit, if any.      *)
LEMMA LcmIsLeast ==
  ASSUME NEW ds \in Seq(Dividers), Len(ds) >= 1
  PROVE  GetLCM(ds) = Least(ds, Len(ds))
<1>1. PICK n \in Nat : n = Len(ds) /\ n >= 1 /\ \A i \in 1 .. n : ds[i] \in Dividers
  OBVIOUS
<1> DEFINE Loop(f) == f = [i \in 1 .. n |-> IF i = 1 THEN ds[1]
                                          ELSE LcmOfTwo(f[i - 1], ds[i])]
<1>2. PICK g : g = [i \in 1 .. n |-> Least(ds, i)]
  OBVIOUS
<1>3. Least(ds, 1) = ds[1]
  <2>1. ds[1] \in Nat \ {0} /\ ds[1] < Limit /\ Limit \in Nat
    BY <1>1, TimersGiven
  <2>2. PICK d : d = ds[1]
    OBVIOUS
  <2>3. Common(ds, 1) = {t \in 1 .. Limit - 1 : t % d = 0}
    BY <2>2 DEF Common
  <2>4. d \in Common(ds, 1)
    BY <2>1, <2>2, <2>3
  <2>5. \A t \in Common(ds, 1) : d <= t
    <3> SUFFICES ASSUME NEW t \in 1 .. Limit - 1, t % d = 0, t < d PROVE FALSE
      BY <2>1, <2>2, <2>3
    <3>1. t % d = t
      BY <2>1, <2>2
    <3> QED
      BY <3>1
  <2>6. /\ Min(Common(ds, 1)) \in Common(ds, 1)
        /\ \A t \in Common(ds, 1) : Min(Common(ds, 1)) <= t
    <3>1. Common(ds, 1) \in SUBSET Nat
      BY <2>1 DEF Common
    <3> QED
      BY <2>4, <3>1, MinProps
  <2>7. Common(ds, 1) \subseteq Nat
    BY <2>1 DEF Common
  <2>8. Min(Common(ds, 1)) = d
    BY <2>4, <2>5, <2>6, <2>7
  <2> QED
    BY <2>2, <2>4, <2>8 DEF Least
<1>4. Loop(g)
  <2>1. ASSUME NEW i \in 1 .. n
        PROVE  g[i] = IF i = 1 THEN ds[1] ELSE LcmOfTwo(g[i - 1], ds[i])
    <3>1. CASE i = 1
      BY <1>2, <1>3, <3>1
    <3>2. CASE i # 1
      <4>1. PICK k \in Nat : k = i - 1 /\ k # 0 /\ k + 1 = i /\ k \in 1 .. n
        BY <3>2
      <4>2. \A a \in 1 .. k + 1 : ds[a] \in Dividers
        BY <1>1, <4>1
      <4>3. Least(ds, k + 1) = LcmOfTwo(Least(ds, k), ds[k + 1])
        BY <4>1, <4>2, LeastNext
      <4> QED
        BY <1>2, <3>2, <4>1, <4>3
    <3> QED
      BY <3>1, <3>2
  <2>2. g = [i \in 1 .. n |-> g[i]]
    BY <1>2
  <2> QED
    BY <2>1, <2>2
<1>5. ASSUME NEW f, Loop(f) PROVE f[n] = g[n]
  <2> DEFINE Same == {i \in Nat : i \in 1 .. n => f[i] = g[i]}
  <2>1. 0 \in Same
    OBVIOUS
  <2>2. ASSUME NEW i \in Nat, i \in Same PROVE i + 1 \in Same
    <3>1. CASE i + 1 \in 1 .. n
      <4>1. f[i + 1] = IF i + 1 = 1 THEN ds[1]
                       ELSE LcmOfTwo(f[(i + 1) - 1], ds[i + 1])
        BY <1>5, <3>1
      <4>2. g[i + 1] = IF i + 1 = 1 THEN ds[1]
                       ELSE LcmOfTwo(g[(i + 1) - 1], ds[i + 1])
        BY <1>4, <3>1
      <4>3. i + 1 = 1 \/ (i \in 1 .. n /\ (i + 1) - 1 = i)
        BY <3>1
      <4>4. i + 1 = 1 \/ f[(i + 1) - 1] = g[(i + 1) - 1]
        BY <2>2, <4>3
      <4> QED
        BY <4>1, <4>2, <4>4
    <3> QED
      BY <3>1
  <2>3. Nat \subseteq Same
    <3> HIDE DEF Same
    <3> QED
      BY <2>1, <2>2, InductionInSet
  <2> QED
    BY <1>1, <2>3
<1>6. PICK h : h = CHOOSE f : Loop(f)
  OBVIOUS
<1>7. Loop(h)
  <2> HIDE DEF Loop
  <2> QED
    BY <1>4, <1>6
<1>8. GetLCM(ds) = h[n]
  BY <1>1, <1>6 DEF GetLCM
<1>9. h[n] = g[n]
  BY <1>5, <1>7
<1> QED
  BY <1>1, <1>2, <1>8, <1>9

-----------------------------------------------------------------------------
\* Where the hook is in its walk, an age says how far the counter has come.
AgesFit ==
  /\ isTimerJustBegin =>
       counter = threshold /\ pos = 0 /\ \A i \in Timers : age[i] = Unknown
  /\ \A i \in Timers : age[i] # Unknown =>
       IF pos # 0 /\ i >= pos
       THEN counter # 0 /\ age[i] = ((counter - 1) % divider[i]) + 1
       ELSE age[i] = counter % divider[i]

Phases == /\ phase = "config" => /\ ~isTimerStart /\ pos = 0 /\ counter = 0
                                 /\ \A i \in Timers : age[i] = Unknown
          /\ phase = "ready" => pos = 0
          /\ \A i \in Timers : ~started[i] => age[i] = Unknown

TimerInv == TypeOK /\ ThresholdIsLcm /\ Phases /\ (Counting => AgesFit)

(* What the type invariant says, without sequences. *)
Typed(n) ==
  /\ n \in 0 .. MaxTimers /\ Len(divider) = n /\ divider \in Seq(Dividers)
  /\ divider \in [1 .. n -> Dividers] /\ Timers = 1 .. n
  /\ started \in [1 .. n -> BOOLEAN] /\ age \in [1 .. n -> 0 .. Limit]
  /\ phase \in {"config", "ready", "running"}
  /\ isTimerStart \in BOOLEAN /\ isTimerLocked \in BOOLEAN
  /\ isTimerJustBegin \in BOOLEAN
  /\ threshold \in 0 .. Limit
  /\ counter \in 0 .. (IF threshold = 0 THEN 1 ELSE threshold)
  /\ pos \in 0 .. n /\ locks \in 0 .. MaxLocks

\* With the number of timers named, the types are those of functions.
LEMMA TypedIs == TypeOK <=> \E n \in Nat : Typed(n)
<1>0. MaxTimers \in Nat
  BY TimersGiven
<1>1. ASSUME TypeOK PROVE \E n \in Nat : Typed(n)
  <2>1. PICK n \in 0 .. MaxTimers : divider \in [1 .. n -> Dividers]
    BY <1>1 DEF TypeOK, BoundedSeq, SeqOf
  <2>2. divider \in Seq(Dividers) /\ Len(divider) = n /\ n \in Nat
    BY <1>0, <2>1
  <2> QED
    BY <1>1, <2>1, <2>2 DEF TypeOK, Typed, Timers
<1>2. ASSUME NEW n \in Nat, Typed(n) PROVE TypeOK
  <2>1. divider \in BoundedSeq(Dividers, MaxTimers)
    BY <1>2 DEF Typed, BoundedSeq, SeqOf
  <2> QED
    BY <1>2, <2>1 DEF TypeOK, Typed
<1> QED
  BY <1>1, <1>2

LEMMA TypedIsNext == TypeOK' <=> \E n \in Nat : Typed(n)'
<1>1. (TypeOK <=> \E n \in Nat : Typed(n))'
  BY TypedIs, PTL
<1> QED
  BY <1>1

(* With at least two timers the threshold is a multiple of every divider.  *)
LEMMA ThresholdProps ==
  ASSUME TimerInv, Counting
  PROVE  /\ threshold \in Nat \ {0} /\ counter \in Nat /\ counter <= threshold
         /\ \A i \in Timers : /\ divider[i] \in Nat \ {0} /\ divider[i] < Limit
                              /\ threshold % divider[i] = 0
<1>1. PICK n \in Nat : Typed(n)
  BY TypedIs DEF TimerInv
<1>2. /\ Limit \in Nat /\ n >= 2
      /\ counter \in 0 .. (IF threshold = 0 THEN 1 ELSE threshold)
      /\ \A i \in Timers : divider[i] \in Dividers
  BY <1>1, TimersGiven DEF Typed, Counting
<1>3. threshold = Min(Multiples) /\ Multiples # {}
  BY DEF TimerInv, ThresholdIsLcm, Counting
<1>4. Multiples \in SUBSET Nat
  BY <1>2 DEF Multiples
<1>5. threshold \in Multiples
  BY <1>3, <1>4, MinProps
<1>6. threshold \in 1 .. Limit - 1 /\ \A i \in Timers : threshold % divider[i] = 0
  BY <1>5 DEF Multiples
<1> QED
  BY <1>2, <1>6, TimersGiven

\* AppTimerInit
LEMMA InitTimer == Init => TimerInv
<1> SUFFICES ASSUME Init PROVE TimerInv
  OBVIOUS
<1>1. divider = << >> /\ started = << >> /\ age = << >> /\ Len(divider) = 0
  BY DEF Init
<1>2. divider \in [1 .. 0 -> Dividers] /\ started \in [1 .. 0 -> BOOLEAN]
      /\ age \in [1 .. 0 -> 0 .. Limit]
  BY <1>1
<1>3. Typed(0)
  <2>1. 0 \in 0 .. MaxTimers /\ divider \in Seq(Dividers) /\ Timers = 1 .. 0
    BY <1>1, TimersGiven DEF Timers
  <2>2. /\ threshold \in 0 .. Limit
        /\ counter \in 0 .. (IF threshold = 0 THEN 1 ELSE threshold)
        /\ pos \in 0 .. 0 /\ locks \in 0 .. MaxLocks
    BY TimersGiven DEF Init
  <2>3. /\ phase \in {"config", "ready", "running"}
        /\ isTimerStart \in BOOLEAN /\ isTimerLocked \in BOOLEAN
        /\ isTimerJustBegin \in BOOLEAN
    BY DEF Init
  <2> QED
    BY <1>1, <1>2, <2>1, <2>2, <2>3 DEF Typed
<1>4. TypeOK
  BY <1>3, TypedIs
<1>5. Timers = {}
  BY <1>1 DEF Timers
<1> QED
  BY <1>4, <1>5 DEF Init, TimerInv, ThresholdIsLcm, Phases, Counting

Appended(S, n, s, e, a) ==
  n \in Nat /\ s \in [1 .. n -> S] /\ e \in S /\ a = Append(s, e)

\* A function on 1 .. n, read as a sequence, and one place more.
LEMMA AppendTo ==
  ASSUME NEW S, NEW n, NEW s, NEW e, NEW a, Appended(S, n, s, e, a)
  PROVE  /\ a \in Seq(S) /\ Len(a) = n + 1 /\ a \in [1 .. n + 1 -> S]
         /\ a[n + 1] = e /\ \A i \in 1 .. n : a[i] = s[i]
<1>1. n \in Nat /\ s \in [1 .. n -> S] /\ e \in S /\ a = Append(s, e)
  BY DEF Appended
<1>2. s \in Seq(S) /\ Len(s) = n
  BY <1>1
<1>3. /\ a \in Seq(S) /\ Len(a) = Len(s) + 1
      /\ \A i \in 1 .. Len(s) : a[i] = s[i]
      /\ a[Len(s) + 1] = e
  BY <1>1, <1>2, AppendProperties
<1>4. a \in [1 .. n + 1 -> S]
  BY <1>2, <1>3
<1> QED
  BY <1>2, <1>3, <1>4

\* A new timer is put behind the others.
LEMMA CreateTimer ==
  ASSUME TimerInv, NEW d \in Dividers, NEW start \in BOOLEAN, Create(d, start)
  PROVE  TimerInv'
<1>1. PICK n \in Nat : Typed(n)
  BY TypedIs DEF TimerInv
<1>2. /\ n < MaxTimers /\ divider' = Append(divider, d)
      /\ started' = Append(started, start)
      /\ age' = Append(age, Unknown) /\ phase = "config" /\ phase' = "config"
      /\ isTimerStart' = isTimerStart /\ isTimerJustBegin' = isTimerJustBegin
      /\ counter' = counter /\ threshold' = threshold
      /\ isTimerLocked' = isTimerLocked
      /\ pos' = pos /\ locks' = locks
  BY <1>1 DEF Create, Typed, module
<1>3. /\ started \in [1 .. n -> BOOLEAN] /\ age \in [1 .. n -> 0 .. Limit]
      /\ divider \in [1 .. n -> Dividers] /\ Limit \in Nat
  BY <1>1, TimersGiven DEF Typed
<1>4. /\ divider' \in Seq(Dividers) /\ Len(divider') = n + 1
      /\ divider' \in [1 .. n + 1 -> Dividers]
  <2>1. Appended(Dividers, n, divider, d, divider')
    BY <1>2, <1>3 DEF Appended
  <2> QED
    BY <2>1, AppendTo
<1>5. /\ started' \in [1 .. n + 1 -> BOOLEAN] /\ started'[n + 1] = start
      /\ \A i \in 1 .. n : started'[i] = started[i]
  <2>1. Appended(BOOLEAN, n, started, start, started')
    BY <1>2, <1>3 DEF Appended
  <2> QED
    BY <2>1, AppendTo
<1>6. /\ age' \in [1 .. n + 1 -> 0 .. Limit] /\ age'[n + 1] = Unknown
      /\ \A i \in 1 .. n : age'[i] = age[i]
  <2>1. Unknown \in 0 .. Limit
    BY <1>3 DEF Unknown
  <2>2. PICK S : S = 0 .. Limit
    OBVIOUS
  <2>3. Appended(S, n, age, Unknown, age')
    BY <1>2, <1>3, <2>1, <2>2 DEF Appended
  <2>4. /\ age' \in [1 .. n + 1 -> S] /\ age'[n + 1] = Unknown
        /\ \A i \in 1 .. n : age'[i] = age[i]
    BY <2>3, AppendTo
  <2> QED
    BY <2>2, <2>4
<1>7. n + 1 \in Nat /\ Typed(n + 1)'
  BY <1>1, <1>2, <1>4, <1>5, <1>6, TimersGiven DEF Typed, Timers
<1>8. TypeOK'
  BY <1>7, TypedIsNext
<1>9. Phases'
  <2>1. Timers' = 1 .. n + 1 /\ Timers = 1 .. n
    BY <1>1, <1>7 DEF Typed
  <2>2. \A i \in Timers' : i \in Timers \/ i = n + 1
    BY <2>1
  <2>3. \A i \in Timers' : age'[i] = Unknown
    BY <1>2, <1>6, <2>1, <2>2 DEF TimerInv, Phases
  <2> QED
    BY <1>2, <2>3 DEF TimerInv, Phases, Unknown
<1> QED
  BY <1>2, <1>8, <1>9 DEF TimerInv, ThresholdIsLcm, Counting

\* AppTimerModuleStart, whatever GetLCM found.
LEMMA ModuleStarts ==
  ASSUME TimerInv, NEW ok, NEW t, phase = "config", Started(ok, t),
         ok \in BOOLEAN, t \in 0 .. Limit,
         Len(divider) >= 2 => /\ ok <=> Multiples # {}
                              /\ ok => t = Min(Multiples)
  PROVE  TimerInv'
<1>1. PICK n \in Nat : Typed(n)
  BY TypedIs DEF TimerInv
<1>2. /\ isTimerStart' = ok /\ threshold' = t /\ phase' = "ready"
      /\ IF ok THEN isTimerJustBegin' = TRUE /\ counter' = t
               ELSE isTimerJustBegin' = isTimerJustBegin /\ counter' = counter
      /\ divider' = divider /\ started' = started /\ age' = age
      /\ isTimerLocked' = isTimerLocked /\ pos' = pos /\ locks' = locks
  BY DEF Started, entries
<1>3. Timers' = Timers /\ Multiples' = Multiples
  BY <1>2 DEF Timers, Multiples
<1>4. pos = 0 /\ \A i \in Timers : age[i] = Unknown
  BY DEF TimerInv, Phases
<1>5. TypeOK'
  <2>1. Limit \in Nat /\ counter = 0
    BY TimersGiven DEF TimerInv, Phases
  <2>2. /\ threshold' \in 0 .. Limit
        /\ counter' \in 0 .. (IF threshold' = 0 THEN 1 ELSE threshold')
    BY <1>2, <2>1
  <2>3. isTimerJustBegin' \in BOOLEAN
    BY <1>1, <1>2 DEF Typed
  <2>4. Typed(n)'
    BY <1>1, <1>2, <1>3, <2>2, <2>3 DEF Typed
  <2> QED
    BY <2>4, TypedIsNext
<1>6. ThresholdIsLcm'
  BY <1>2, <1>3 DEF ThresholdIsLcm
<1>7. Phases'
  BY <1>2, <1>3, <1>4 DEF TimerInv, Phases, Unknown
<1>8. ASSUME Counting' PROVE AgesFit'
  <2>1. ok
    BY <1>2, <1>8 DEF Counting
  <2> QED
    BY <1>2, <1>3, <1>4, <2>1 DEF AgesFit, Unknown
<1> QED
  BY <1>5, <1>6, <1>7, <1>8 DEF TimerInv

LEMMA ModuleStartStep ==
  ASSUME TimerInv, ModuleStart \/ ModuleStartUnwritten
  PROVE  TimerInv'
<1>1. PICK n \in Nat : Typed(n)
  BY TypedIs DEF TimerInv
<1>2. CASE ModuleStart
  <2>1. PICK t : t = GetLCM(divider)
    OBVIOUS
  <2>2. phase = "config" /\ n >= 2 /\ Started(t # 0, t)
    BY <1>1, <1>2, <2>1 DEF ModuleStart, Typed
  <2>3. t = Least(divider, n)
    BY <1>1, <2>1, <2>2, LcmIsLeast DEF Typed
  <2>4. Common(divider, n) = Multiples
    BY <1>1 DEF Common, Multiples, Typed
  <2>5. /\ t \in 0 .. Limit /\ (t # 0 <=> Multiples # {})
        /\ (t # 0 => t = Min(Multiples))
    <3>1. Limit \in Nat /\ \A i \in 1 .. n : divider[i] \in Nat \ {0}
      BY <1>1, TimersGiven DEF Typed
    <3>2. CASE Multiples = {}
      BY <2>3, <2>4, <3>1, <3>2 DEF Least
    <3>3. CASE Multiples # {}
      <4>1. t \in 1 .. Limit - 1
        BY <2>3, <2>4, <3>1, <3>3, LeastDivides
      <4> QED
        BY <2>3, <2>4, <3>1, <3>3, <4>1 DEF Least
    <3> QED
      BY <3>2, <3>3
  <2> QED
    BY <2>2, <2>5, ModuleStarts
<1>3. CASE ModuleStartUnwritten
  <2>1. PICK ok \in BOOLEAN, t \in 0 .. Limit : Started(ok, t)
    BY <1>3 DEF ModuleStartUnwritten
  <2>2. phase = "config" /\ ~(Len(divider) >= 2)
    BY <1>1, <1>3 DEF ModuleStartUnwritten, Typed
  <2> QED
    BY <2>1, <2>2, ModuleStarts
<1> QED
  BY <1>2, <1>3

\* main goes on, takes the lock or gives it back.
LEMMA MainStep ==
  ASSUME TimerInv, StartTimer \/ Lock \/ Unlock
  PROVE  TimerInv'
<1>1. PICK n \in Nat : Typed(n)
  BY TypedIs DEF TimerInv
<1>2. /\ divider' = divider /\ started' = started /\ age' = age /\ pos' = pos
      /\ isTimerStart' = isTimerStart /\ isTimerJustBegin' = isTimerJustBegin
      /\ counter' = counter /\ threshold' = threshold
  BY DEF StartTimer, Lock, Unlock, entries, module
<1>3. /\ phase' \in {"config", "ready", "running"} /\ isTimerLocked' \in BOOLEAN
      /\ locks' \in 0 .. MaxLocks
  <2>1. /\ phase \in {"config", "ready", "running"} /\ isTimerLocked \in BOOLEAN
        /\ locks \in 0 .. MaxLocks /\ MaxLocks \in Nat
    BY <1>1, TimersGiven DEF Typed
  <2>2. CASE StartTimer
    BY <2>1, <2>2 DEF StartTimer
  <2>3. CASE Lock
    BY <2>1, <2>3 DEF Lock
  <2>4. CASE Unlock
    BY <2>1, <2>4 DEF Unlock
  <2> QED
    BY <2>2, <2>3, <2>4
<1>4. phase' = phase \/ (phase = "ready" /\ phase' = "running")
  BY DEF StartTimer, Lock, Unlock
<1>5. Timers' = Timers /\ Multiples' = Multiples
  BY <1>2 DEF Timers, Multiples
<1>6. TypeOK'
  <2>1. Typed(n)'
    BY <1>1, <1>2, <1>3, <1>5 DEF Typed
  <2> QED
    BY <2>1, TypedIsNext
<1>7. ThresholdIsLcm'
  BY <1>2, <1>4, <1>5 DEF TimerInv, ThresholdIsLcm
<1>8. Phases'
  BY <1>2, <1>4, <1>5 DEF TimerInv, Phases, Unknown
<1>9. Counting' => Counting
  BY <1>2, <1>4 DEF Counting
<1>10. Counting' => AgesFit'
  BY <1>2, <1>5, <1>9 DEF TimerInv, AgesFit, Unknown
<1> QED
  BY <1>6, <1>7, <1>8, <1>10 DEF TimerInv

\* A timer that is stopped forgets its age.
LEMMA StartStopStep ==
  ASSUME TimerInv, NEW i \in Timers, Start(i) \/ Stop(i)
  PROVE  TimerInv'
<1>1. PICK n \in Nat : Typed(n)
  BY TypedIs DEF TimerInv
<1>2. /\ divider' = divider /\ pos' = pos /\ phase = "running" /\ phase' = phase
      /\ isTimerStart' = isTimerStart /\ isTimerJustBegin' = isTimerJustBegin
      /\ counter' = counter /\ threshold' = threshold /\ locks' = locks
      /\ isTimerLocked' = isTimerLocked
  BY DEF Start, Stop, module
<1>3. /\ started' \in [1 .. n -> BOOLEAN] /\ age' \in [1 .. n -> 0 .. Limit]
      /\ \A k \in Timers : /\ age'[k] = age[k] \/ age'[k] = Unknown
                           /\ ~started'[k] => age'[k] = Unknown
  <2>1. /\ i \in 1 .. n /\ Unknown \in 0 .. Limit /\ Timers = 1 .. n
        /\ started \in [1 .. n -> BOOLEAN] /\ age \in [1 .. n -> 0 .. Limit]
        /\ \A k \in Timers : ~started[k] => age[k] = Unknown
    BY <1>1, TimersGiven DEF Typed, Unknown, TimerInv, Phases
  <2>2. CASE Start(i)
    <3>1. started' = [started EXCEPT ![i] = TRUE] /\ age' = age
      BY <2>2 DEF Start
    <3> QED
      BY <2>1, <3>1
  <2>3. CASE Stop(i)
    <3>1. started' = [started EXCEPT ![i] = FALSE] /\ age' = [age EXCEPT ![i] = Unknown]
      BY <2>3 DEF Stop
    <3> QED
      BY <2>1, <3>1
  <2> QED
    BY <2>2, <2>3
<1>4. Timers' = Timers /\ Multiples' = Multiples
  BY <1>2 DEF Timers, Multiples
<1>5. TypeOK'
  <2>1. Typed(n)'
    BY <1>1, <1>2, <1>3, <1>4 DEF Typed
  <2> QED
    BY <2>1, TypedIsNext
<1>6. ThresholdIsLcm'
  BY <1>2, <1>4 DEF TimerInv, ThresholdIsLcm
<1>7. Phases'
  BY <1>2, <1>3, <1>4 DEF Phases, Unknown
<1>8. Counting' => Counting
  BY <1>2 DEF Counting
<1>9. Counting' => AgesFit'
  BY <1>2, <1>3, <1>4, <1>8 DEF TimerInv, AgesFit, Unknown
<1> QED
  BY <1>5, <1>6, <1>7, <1>9 DEF TimerInv

\* The remainders of two numbers that follow each other.
LEMMA NextRemainder ==
  ASSUME NEW d \in Nat \ {0}, NEW c \in Nat \ {0}
  PROVE  /\ (c - 1) % d \in 0 .. d - 1 /\ c % d \in 0 .. d - 1
         /\ c % d # 0 => c % d = ((c - 1) % d) + 1
         /\ c % d = 0 => ((c - 1) % d) + 1 = d
<1>1. PICK a, r : a = (c - 1) \div d /\ r = (c - 1) % d
  OBVIOUS
<1>2. a \in Nat /\ r \in 0 .. d - 1 /\ c - 1 = (a * d) + r
  <2>1. PICK b : b = c - 1 /\ b \in Nat
    OBVIOUS
  <2>2. b \div d \in Nat /\ b % d \in 0 .. d - 1 /\ b = ((b \div d) * d) + (b % d)
    BY <2>1, DivMod
  <2> QED
    BY <1>1, <2>1, <2>2
<1>3. CASE r + 1 = d
  <2>1. c = (a + 1) * d /\ a + 1 \in Nat
    BY <1>2, <1>3
  <2>2. c % d = 0
    BY <2>1, MultipleOf
  <2> QED
    BY <1>1, <1>2, <1>3, <2>2
<1>4. CASE r + 1 # d
  <2>1. PICK e : e = r + 1
    OBVIOUS
  <2>2. e \in 0 .. d - 1 /\ e # 0 /\ c = (a * d) + e
    BY <1>2, <1>4, <2>1
  <2>3. c % d = e
    BY <1>2, <2>2
  <2> QED
    BY <1>1, <1>2, <2>1, <2>2, <2>3
<1> QED
  BY <1>3, <1>4

\* One more hook: the counter moves and all ages with it.
LEMMA HookCountsStep ==
  ASSUME TimerInv, HookCounts
  PROVE  TimerInv'
<1>1. PICK n \in Nat : Typed(n)
  BY TypedIs DEF TimerInv
<1>2. /\ divider' = divider /\ started' = started /\ phase = "running"
      /\ phase' = phase
      /\ isTimerStart' = isTimerStart /\ threshold' = threshold
      /\ locks' = locks
      /\ isTimerLocked' = isTimerLocked /\ pos = 0
      /\ pos' = (IF Timers = {} THEN 0 ELSE 1)
      /\ age' = [i \in Timers |-> IF age[i] < Unknown THEN age[i] + 1 ELSE Unknown]
  BY DEF HookCounts, entries
<1>3. /\ counter' = IF counter >= threshold THEN IF isTimerJustBegin THEN 0 ELSE 1
                    ELSE counter + 1
      /\ isTimerJustBegin' = IF counter >= threshold THEN FALSE ELSE isTimerJustBegin
  BY DEF HookCounts
<1>4. /\ n \in Nat /\ Timers = 1 .. n /\ Limit \in Nat /\ Unknown = Limit
      /\ counter \in 0 .. (IF threshold = 0 THEN 1 ELSE threshold)
      /\ threshold \in 0 .. Limit /\ isTimerJustBegin \in BOOLEAN
      /\ \A i \in Timers : age[i] \in 0 .. Limit
  BY <1>1, TimersGiven DEF Typed, Unknown
<1>5. Timers' = Timers /\ Multiples' = Multiples
  BY <1>2 DEF Timers, Multiples
<1>6. age' \in [1 .. n -> 0 .. Limit]
  <2>1. \A i \in Timers :
          (IF age[i] < Unknown THEN age[i] + 1 ELSE Unknown) \in 0 .. Limit
    BY <1>4
  <2> QED
    BY <1>2, <1>4, <2>1
<1>7. counter' \in 0 .. (IF threshold = 0 THEN 1 ELSE threshold)
      /\ isTimerJustBegin' \in BOOLEAN
  <2>1. isTimerJustBegin' \in BOOLEAN
    BY <1>3, <1>4
  <2>2. threshold \in Nat /\ counter \in Nat
    BY <1>4
  <2>3. CASE counter >= threshold
    <3>1. counter' = 0 \/ counter' = 1
      BY <1>3, <2>3
    <3> QED
      BY <2>1, <2>2, <3>1
  <2>4. CASE ~(counter >= threshold)
    <3>1. counter' = counter + 1
      BY <1>3, <2>4
    <3> QED
      BY <2>1, <2>2, <2>4, <3>1
  <2> QED
    BY <2>3, <2>4
<1>8. pos' \in 0 .. n
  BY <1>2, <1>4
<1>9. TypeOK'
  <2>1. Typed(n)'
    BY <1>1, <1>2, <1>5, <1>6, <1>7, <1>8 DEF Typed
  <2> QED
    BY <2>1, TypedIsNext
<1>10. ThresholdIsLcm'
  BY <1>2, <1>5 DEF TimerInv, ThresholdIsLcm
<1>11. \A i \in Timers : age[i] = Unknown => age'[i] = Unknown
  BY <1>2, <1>4
<1>12. Phases'
  BY <1>2, <1>4, <1>5, <1>11 DEF TimerInv, Phases
<1>13. ASSUME Counting' PROVE AgesFit'
  <2>1. Counting
    BY <1>2, <1>13 DEF Counting
  <2>2. /\ threshold \in Nat \ {0} /\ counter \in Nat /\ counter <= threshold
        /\ \A i \in Timers : /\ divider[i] \in Nat \ {0} /\ divider[i] < Limit
                             /\ threshold % divider[i] = 0
    BY <2>1, ThresholdProps
  <2>3. AgesFit
    BY <2>1 DEF TimerInv
  <2>4. pos' = 1
    BY <1>2, <1>4, <2>1, <1>1 DEF Counting, Typed
  <2>5. ~isTimerJustBegin'
    BY <1>3, <1>4, <2>2, <2>3 DEF AgesFit
  <2>6. ASSUME NEW i \in Timers, age'[i] # Unknown
        PROVE  counter' # 0 /\ age'[i] = ((counter' - 1) % divider[i]) + 1
    <3>1. age[i] # Unknown /\ age[i] = counter % divider[i]
      BY <1>2, <1>11, <2>3, <2>6 DEF AgesFit
    <3>2. ~isTimerJustBegin
      BY <2>3, <3>1 DEF AgesFit
    <3>3. PICK d \in Nat \ {0} : d = divider[i] /\ threshold % d = 0
      BY <2>2
    <3>4. age[i] < Unknown /\ age'[i] = (counter % d) + 1
      BY <1>2, <1>4, <3>1, <3>3
    <3>5. CASE counter >= threshold
      <4>1. counter = threshold /\ counter' = 1 /\ counter % d = 0
        BY <1>3, <2>2, <3>2, <3>3, <3>5
      <4>2. 0 % d = 0
        BY <3>3
      <4> QED
        BY <3>3, <3>4, <4>1, <4>2
    <3>6. CASE ~(counter >= threshold)
      <4>1. counter' = counter + 1 /\ counter' # 0 /\ counter' - 1 = counter
        BY <1>3, <2>2, <3>6
      <4> QED
        BY <3>3, <3>4, <4>1
    <3> QED
      BY <3>5, <3>6
  <2>7. \A i \in Timers : i >= 1
    BY <1>4
  <2> QED
    BY <1>2, <1>4, <1>5, <2>4, <2>5, <2>6, <2>7 DEF AgesFit, Unknown
<1> QED
  BY <1>9, <1>10, <1>12, <1>13 DEF TimerInv

\* The hook looks at a timer and runs its callback if it is due.
LEMMA HookLooksStep ==
  ASSUME TimerInv, HookLooks
  PROVE  TimerInv'
<1>1. PICK n \in Nat : Typed(n)
  BY TypedIs DEF TimerInv
<1>2. /\ divider' = divider /\ started' = started /\ phase' = phase
      /\ isTimerStart' = isTimerStart /\ threshold' = threshold
      /\ locks' = locks
      /\ isTimerLocked' = isTimerLocked /\ isTimerJustBegin' = isTimerJustBegin
      /\ counter' = counter /\ pos # 0
      /\ pos' = (IF pos = Len(divider) THEN 0 ELSE pos + 1)
      /\ age' = IF Due(pos) THEN [age EXCEPT ![pos] = 0] ELSE age
  BY DEF HookLooks, entries, module
<1>3. /\ n \in Nat /\ Timers = 1 .. n /\ Len(divider) = n /\ Limit \in Nat
      /\ Unknown = Limit
      /\ pos \in 1 .. n /\ age \in [1 .. n -> 0 .. Limit]
  BY <1>1, <1>2, TimersGiven DEF Typed, Unknown
<1>4. Timers' = Timers /\ Multiples' = Multiples
  BY <1>2 DEF Timers, Multiples
<1>5. /\ age' \in [1 .. n -> 0 .. Limit]
      /\ \A i \in Timers : age'[i] = IF i = pos /\ Due(pos) THEN 0 ELSE age[i]
  BY <1>2, <1>3
<1>6. pos' \in 0 .. n
  BY <1>2, <1>3
<1>7. TypeOK'
  <2>1. Typed(n)'
    BY <1>1, <1>2, <1>4, <1>5, <1>6 DEF Typed
  <2> QED
    BY <2>1, TypedIsNext
<1>8. ThresholdIsLcm'
  BY <1>2, <1>4 DEF TimerInv, ThresholdIsLcm
<1>9. phase = "running"
  BY <1>1, <1>2 DEF TimerInv, Phases, Typed
<1>10. Phases'
  <2>1. \A i \in Timers : ~started[i] => age[i] = Unknown
    BY DEF TimerInv, Phases
  <2>2. \A i \in Timers : ~started'[i] => age'[i] = Unknown
    BY <1>2, <1>5, <2>1 DEF Due
  <2> QED
    BY <1>2, <1>4, <1>9, <2>2 DEF Phases, Unknown
<1>11. ASSUME Counting' PROVE AgesFit'
  <2>1. Counting
    BY <1>2, <1>11 DEF Counting
  <2>2. /\ counter \in Nat
        /\ \A i \in Timers : divider[i] \in Nat \ {0} /\ divider[i] < Limit
    BY <2>1, ThresholdProps
  <2>3. AgesFit
    BY <2>1 DEF TimerInv
  <2>4. ~isTimerJustBegin
    BY <1>2, <2>3 DEF AgesFit
  <2>5. ASSUME NEW i \in Timers, age'[i] # Unknown
        PROVE  IF pos' # 0 /\ i >= pos'
               THEN counter # 0 /\ age'[i] = ((counter - 1) % divider[i]) + 1
               ELSE age'[i] = counter % divider[i]
    <3>0. i \in 1 .. n
      BY <1>3
    <3>1. CASE i = pos
      <4>1. ~(pos' # 0 /\ i >= pos')
        BY <1>2, <1>3, <3>1
      <4>2. CASE Due(pos)
        <5>1. age'[i] = 0 /\ counter % divider[i] = 0
          BY <1>5, <3>1, <4>2 DEF Due
        <5> QED
          BY <4>1, <5>1
      <4>3. CASE ~Due(pos)
        <5>1. age'[i] = age[i] /\ age[i] # Unknown
          BY <1>5, <2>5, <4>3
        <5>2. started[i] /\ counter % divider[i] # 0
          BY <3>1, <4>3, <5>1 DEF Due, TimerInv, Phases
        <5>3. counter # 0 /\ age[i] = ((counter - 1) % divider[i]) + 1
          BY <1>2, <1>3, <2>3, <3>1, <5>1 DEF AgesFit
        <5>4. PICK d \in Nat \ {0} : d = divider[i]
          BY <2>2
        <5>5. counter % d = ((counter - 1) % d) + 1
          BY <2>2, <5>2, <5>3, <5>4, NextRemainder
        <5> QED
          BY <4>1, <5>1, <5>3, <5>4, <5>5
      <4> QED
        BY <4>2, <4>3
    <3>2. CASE i # pos
      <4>1. age'[i] = age[i] /\ age[i] # Unknown
        BY <1>5, <2>5, <3>2
      <4>2. (pos' # 0 /\ i >= pos') <=> i >= pos
        BY <1>2, <1>3, <3>0, <3>2
      <4>3. IF i >= pos THEN counter # 0 /\ age[i] = ((counter - 1) % divider[i]) + 1
                        ELSE age[i] = counter % divider[i]
        BY <1>2, <2>3, <4>1 DEF AgesFit
      <4> QED
        BY <4>1, <4>2, <4>3
    <3> QED
      BY <3>1, <3>2
  <2> QED
    BY <1>2, <1>4, <2>4, <2>5 DEF AgesFit, Unknown
<1> QED
  BY <1>7, <1>8, <1>10, <1>11 DEF TimerInv

(* TimerInv is inductive. *)
LEMMA NextTimer == TimerInv /\ [Next]_vars => TimerInv'
<1> SUFFICES ASSUME TimerInv, [Next]_vars PROVE TimerInv'
  OBVIOUS
<1>1. ASSUME NEW d \in Dividers, NEW start \in BOOLEAN, Create(d, start)
      PROVE  TimerInv'
  BY <1>1, CreateTimer
<1>2. CASE ModuleStart \/ ModuleStartUnwritten
  BY <1>2, ModuleStartStep
<1>3. CASE StartTimer \/ Lock \/ Unlock
  BY <1>3, MainStep
<1>4. CASE HookReturns \/ UNCHANGED vars
  <2>1. /\ divider' = divider /\ started' = started /\ age' = age /\ pos' = pos
        /\ isTimerStart' = isTimerStart /\ isTimerJustBegin' = isTimerJustBegin
        /\ counter' = counter /\ threshold' = threshold /\ phase' = phase
        /\ isTimerLocked' = isTimerLocked /\ locks' = locks
    BY <1>4 DEF HookReturns, vars, entries, module
  <2> QED
    BY <2>1 DEF TimerInv, TypeOK, ThresholdIsLcm, Phases, Counting, AgesFit, Timers,
                Multiples, Unknown
<1>5. CASE HookCounts
  BY <1>5, HookCountsStep
<1>6. CASE HookLooks
  BY <1>6, HookLooksStep
<1>7. ASSUME NEW i \in Timers, Start(i) \/ Stop(i) PROVE TimerInv'
  BY <1>7, StartStopStep
<1> QED
  BY <1>1, <1>2, <1>3, <1>4, <1>5, <1>6, <1>7 DEF Next

\* What the ages are worth.
LEMMA AgesBounded ==
  ASSUME TimerInv
  PROVE  /\ NeverLate
         /\ Counting /\ pos # 0 /\ Due(pos) /\ age[pos] # Unknown
              => age[pos] = divider[pos]
<1>1. PICK n \in Nat : Typed(n)
  BY TypedIs DEF TimerInv
<1>2. SUFFICES ASSUME Counting
               PROVE  /\ \A i \in Timers : age[i] # Unknown => age[i] <= divider[i]
                      /\ pos # 0 /\ Due(pos) /\ age[pos] # Unknown
                           => age[pos] = divider[pos]
  BY DEF NeverLate
<1>3. /\ counter \in Nat
      /\ \A i \in Timers : divider[i] \in Nat \ {0} /\ divider[i] < Limit
  BY <1>2, ThresholdProps
<1>4. ASSUME NEW i \in Timers, age[i] # Unknown PROVE age[i] <= divider[i]
  <2>1. PICK d \in Nat \ {0} : d = divider[i]
    BY <1>3
  <2>2. \/ counter # 0 /\ age[i] = ((counter - 1) % d) + 1
        \/ age[i] = counter % d
    BY <1>2, <1>4, <2>1 DEF TimerInv, AgesFit
  <2>3. CASE counter # 0
    <3>1. (counter - 1) % d \in 0 .. d - 1 /\ counter % d \in 0 .. d - 1
      BY <1>3, <2>3, NextRemainder
    <3> QED
      BY <2>1, <2>2, <3>1
  <2>4. CASE counter = 0
    <3>1. counter % d \in 0 .. d - 1
      BY <1>3, DivMod
    <3> QED
      BY <2>1, <2>2, <2>4, <3>1
  <2> QED
    BY <2>3, <2>4
<1>5. ASSUME pos # 0, Due(pos), age[pos] # Unknown PROVE age[pos] = divider[pos]
  <2>1. pos \in Timers /\ pos \in Nat
    BY <1>1, <1>5 DEF Typed
  <2>2. PICK d \in Nat \ {0} : d = divider[pos]
    BY <1>3, <2>1
  <2>3. counter # 0 /\ age[pos] = ((counter - 1) % d) + 1
    <3>1. pos >= pos
      BY <2>1
    <3> QED
      BY <1>2, <1>5, <2>1, <2>2, <3>1 DEF TimerInv, AgesFit
  <2>4. counter % d = 0
    BY <1>5, <2>2 DEF Due
  <2>5. ((counter - 1) % d) + 1 = d
    BY <1>3, <2>3, <2>4, NextRemainder
  <2> QED
    BY <2>2, <2>3, <2>5
<1> QED
  BY <1>4, <1>5

(* The timer module stays well typed: its walk never leaves the entries,   *)
(* and its counter never passes the threshold.                             *)
THEOREM TimerTypeCorrect == Spec => []TypeOK
<1>1. TimerInv => TypeOK
  BY DEF TimerInv
<1> QED
  BY <1>1, InitTimer, NextTimer, PTL DEF Spec

(* For any number of timers and any intervals AppTimerModuleStart takes    *)
(* the least common multiple of the dividers, and refuses to start exactly *)
(* when there is none below the limit.                                     *)
THEOREM ThresholdCorrect == Spec => []ThresholdIsLcm
<1>1. TimerInv => ThresholdIsLcm
  BY DEF TimerInv
<1> QED
  BY <1>1, InitTimer, NextTimer, PTL DEF Spec

(* No started timer is ever late, whatever the dividers, across the wrap   *)
(* of the counter, hooks that were locked out, and stops and starts in the *)
(* middle of a walk.                                                       *)
THEOREM LateNever == Spec => []NeverLate
<1>1. TimerInv => NeverLate
  BY AgesBounded
<1> QED
  BY <1>1, InitTimer, NextTimer, PTL DEF Spec

(* Nor early: a callback comes exactly divider hooks after the last one.   *)
THEOREM EarlyNever == Spec => NeverEarly
<1>1. TimerInv /\ [Next]_vars =>
        [Counting /\ pos # 0 /\ HookLooks /\ Due(pos) /\ age[pos] # Unknown
           => age[pos] = divider[pos]]_vars
  BY AgesBounded
<1> QED
  BY <1>1, InitTimer, NextTimer, PTL DEF Spec, NeverEarly
-----------------------------------------------------------------------------
(* How many hooks it takes to the next callback of timer i, none when the  *)
(* hook is on its way to it, and how many entries the hook still looks at. *)
HooksTo(i) == IF pos \in 1 .. i /\ counter % divider[i] = 0 THEN 0
              ELSE divider[i] - (counter % divider[i])
LooksLeft  == IF pos = 0 THEN 0 ELSE Len(divider) + 1 - pos

(* A step stops the timer, runs its callback, or takes it nearer: a hook   *)
(* that counts lowers the first number, a look keeps it and lowers the     *)
(* second one, and nothing raises either.                                  *)
CallbackNears(i) ==
  Counting /\ started[i] =>
    \/ ~started'[i]
    \/ HookLooks /\ age'[i] = 0
    \/ /\ Counting'
       /\ HooksTo(i)' <= HooksTo(i)
       /\ HookCounts => HooksTo(i)' < HooksTo(i)
       /\ HooksTo(i)' = HooksTo(i) => LooksLeft' <= LooksLeft
       /\ HookLooks => HooksTo(i)' = HooksTo(i) /\ LooksLeft' < LooksLeft

(* What is fixed once the module counts. *)
LEMMA CountingProps ==
  ASSUME TimerInv, Counting
  PROVE  /\ Len(divider) \in Nat /\ Timers = 1 .. Len(divider) /\ pos \in 0 .. Len(divider)
         /\ counter \in Nat /\ threshold \in Nat \ {0} /\ counter <= threshold
         /\ isTimerJustBegin \in BOOLEAN
         /\ \A i \in Timers : /\ divider[i] \in Nat \ {0}
                              /\ threshold % divider[i] = 0
                              /\ counter % divider[i] \in 0 .. divider[i] - 1
<1>1. PICK n \in Nat : Typed(n)
  BY TypedIs DEF TimerInv
<1>2. /\ counter \in Nat /\ threshold \in Nat \ {0} /\ counter <= threshold
      /\ \A i \in Timers : divider[i] \in Nat \ {0} /\ threshold % divider[i] = 0
  BY ThresholdProps
<1>3. \A i \in Timers : counter % divider[i] \in 0 .. divider[i] - 1
  BY <1>2, DivMod
<1> QED
  BY <1>1, <1>2, <1>3 DEF Typed

(* The two numbers are numbers, and the first is no greater than the       *)
(* divider.                                                                *)
LEMMA NearBounds ==
  TimerInv /\ Counting
    => LooksLeft \in Nat /\ \A i \in Timers : HooksTo(i) \in 0 .. divider[i]
<1> SUFFICES ASSUME TimerInv, Counting
             PROVE  LooksLeft \in Nat /\ \A i \in Timers : HooksTo(i) \in 0 .. divider[i]
  OBVIOUS
<1>1. LooksLeft \in Nat
  BY CountingProps DEF LooksLeft
<1>2. ASSUME NEW i \in Timers PROVE HooksTo(i) \in 0 .. divider[i]
  <2>0. PICK d \in Nat \ {0} : d = divider[i]
    BY CountingProps
  <2>1. PICK r \in 0 .. d - 1 : d = divider[i] /\ r = counter % divider[i]
    BY <2>0, CountingProps
  <2>2. HooksTo(i) = 0 \/ HooksTo(i) = d - r
    BY <2>1 DEF HooksTo
  <2> QED
    BY <2>1, <2>2
<1> QED
  BY <1>1, <1>2

\* The same of the next state.
LEMMA NearBoundsNext ==
  TimerInv' /\ Counting'
    => \A i \in Timers' : HooksTo(i)' \in 0 .. divider'[i]
<1>1. (TimerInv /\ Counting
         => LooksLeft \in Nat /\ \A i \in Timers : HooksTo(i) \in 0 .. divider[i])'
  BY NearBounds, PTL
<1> QED
  BY <1>1

(* A hook that counts is one hook nearer. *)
LEMMA CountNears ==
  ASSUME TimerInv, Counting, HookCounts, NEW i \in Timers
  PROVE  HooksTo(i)' < HooksTo(i) /\ Counting'
<1>1. /\ divider' = divider /\ pos = 0 /\ pos' = (IF Timers = {} THEN 0 ELSE 1)
      /\ counter' = IF counter >= threshold THEN IF isTimerJustBegin THEN 0 ELSE 1
                    ELSE counter + 1
  BY DEF HookCounts, entries
<1>2. Counting'
  BY DEF HookCounts, Counting, entries
<1>3. PICK d \in Nat \ {0} : /\ d = divider[i] /\ threshold % d = 0
                             /\ counter % d \in 0 .. d - 1
  BY CountingProps
<1>4. /\ counter \in Nat /\ threshold \in Nat \ {0} /\ counter <= threshold
      /\ i \in Nat \ {0} /\ isTimerJustBegin \in BOOLEAN
  BY CountingProps
<1>5. pos' = 1 /\ pos' \in 1 .. i
  BY <1>1, <1>4
<1>6. isTimerJustBegin => counter = threshold
  BY DEF TimerInv, AgesFit
<1>7. HooksTo(i) = d - (counter % d)
  BY <1>1, <1>3 DEF HooksTo
<1>8. HooksTo(i)' = IF counter' % d = 0 THEN 0 ELSE d - (counter' % d)
  BY <1>1, <1>3, <1>5 DEF HooksTo
<1>9. counter' % d = 0 \/ counter' % d = (counter % d) + 1
  <2>1. CASE counter < threshold
    <3>1. PICK c \in Nat \ {0} : c = counter + 1 /\ counter' = c /\ c - 1 = counter
      BY <1>1, <1>4, <2>1
    <3>2. c % d # 0 => c % d = ((c - 1) % d) + 1
      BY NextRemainder
    <3> QED
      BY <3>1, <3>2
  <2>2. CASE counter = threshold
    <3>1. counter' = 0 \/ counter' = 1
      BY <1>1, <1>4, <2>2
    <3>2. 0 % d = 0 /\ counter % d = 0
      BY <1>3, <2>2
    <3>3. PICK c \in Nat \ {0} : c = 1
      OBVIOUS
    <3>4. CASE counter' = 0
      BY <3>2, <3>4
    <3>5. CASE counter' = 1
      <4>1. c % d # 0 => c % d = ((c - 1) % d) + 1
        BY NextRemainder
      <4>2. c - 1 = 0
        BY <3>3
      <4> QED
        BY <3>2, <3>3, <3>5, <4>1, <4>2
    <3> QED
      BY <3>1, <3>4, <3>5
  <2> QED
    BY <1>4, <2>1, <2>2
<1>10. PICK r \in 0 .. d - 1 : r = counter % d
  BY <1>3
<1>11. CASE counter' % d = 0
  <2>1. HooksTo(i)' = 0 /\ HooksTo(i) = d - r
    BY <1>7, <1>8, <1>10, <1>11
  <2> QED
    BY <1>2, <1>10, <2>1
<1>12. CASE counter' % d # 0
  <2>1. counter' % d = r + 1
    BY <1>9, <1>10, <1>12
  <2>2. HooksTo(i)' = d - (r + 1) /\ HooksTo(i) = d - r
    BY <1>7, <1>8, <1>10, <1>12, <2>1
  <2> QED
    BY <1>2, <1>10, <2>2
<1> QED
  BY <1>11, <1>12

(* A look of the hook runs the callback that is due, or goes on. *)
LEMMA LookNears ==
  ASSUME TimerInv, Counting, HookLooks, NEW i \in Timers, started[i]
  PROVE  \/ age'[i] = 0
         \/ /\ Counting' /\ HooksTo(i)' = HooksTo(i)
            /\ LooksLeft' < LooksLeft /\ LooksLeft' <= LooksLeft
<1>1. /\ divider' = divider /\ counter' = counter /\ pos # 0
      /\ pos' = (IF pos = Len(divider) THEN 0 ELSE pos + 1)
      /\ age' = IF Due(pos) THEN [age EXCEPT ![pos] = 0] ELSE age
  BY DEF HookLooks, entries, module
<1>2. Counting'
  BY DEF HookLooks, Counting, entries, module
<1>3. PICK n \in Nat : Typed(n)
  BY TypedIs DEF TimerInv
<1>4. /\ Len(divider) = n /\ pos \in 1 .. n /\ i \in 1 .. n /\ Timers = 1 .. n
      /\ age \in [1 .. n -> 0 .. Limit]
  BY <1>1, <1>3 DEF Typed
<1>5. LooksLeft' < LooksLeft /\ LooksLeft' <= LooksLeft
  <2>1. LooksLeft = n + 1 - pos
    BY <1>1, <1>4 DEF LooksLeft
  <2>2. LooksLeft' = IF pos = n THEN 0 ELSE n + 1 - (pos + 1)
    BY <1>1, <1>4 DEF LooksLeft
  <2> QED
    BY <1>4, <2>1, <2>2
<1>6. CASE i = pos /\ counter % divider[i] = 0
  <2>1. age' = [age EXCEPT ![i] = 0]
    BY <1>1, <1>6 DEF Due
  <2> QED
    BY <1>4, <2>1
<1>7. CASE ~(i = pos /\ counter % divider[i] = 0)
  <2>1. /\ pos \in 1 .. i /\ counter % divider[i] = 0
        <=> pos' \in 1 .. i /\ counter % divider[i] = 0
    BY <1>1, <1>4, <1>7
  <2>2. HooksTo(i)' = HooksTo(i)
    BY <1>1, <2>1 DEF HooksTo
  <2> QED
    BY <1>2, <1>5, <2>2
<1> QED
  BY <1>6, <1>7

(* Whatever else goes on does not touch the numbers. *)
LEMMA OthersLeave ==
  ASSUME TimerInv, Counting, [Next]_vars, ~HookCounts, ~HookLooks
  PROVE  /\ divider' = divider /\ counter' = counter /\ pos' = pos
         /\ Counting'
<1>1. phase # "config"
  BY DEF Counting
<1>2. CASE UNCHANGED vars
  BY <1>2 DEF vars, entries, module, Counting
<1>3. CASE StartTimer \/ Lock \/ Unlock \/ HookReturns
  BY <1>1, <1>3 DEF StartTimer, Lock, Unlock, HookReturns, vars, entries, module, Counting
<1>4. ASSUME NEW k \in Timers, Start(k) \/ Stop(k)
      PROVE  divider' = divider /\ counter' = counter /\ pos' = pos /\ Counting'
  BY <1>1, <1>4 DEF Start, Stop, module, Counting
<1> QED
  BY <1>1, <1>2, <1>3, <1>4 DEF Next, Create, ModuleStart, ModuleStartUnwritten

(* Every step of a timer that is started takes its callback nearer. *)
LEMMA NextNears ==
  TimerInv /\ [Next]_vars => [\A i \in Timers : CallbackNears(i)]_vars
<1> SUFFICES ASSUME TimerInv, [Next]_vars, NEW i \in Timers, Counting, started[i]
             PROVE  CallbackNears(i)
  BY DEF CallbackNears
<1>1. PICK h : h = HooksTo(i)
  OBVIOUS
<1>2. PICK l : l = LooksLeft
  OBVIOUS
<1>3. h \in Nat /\ l \in Nat
  <2>1. divider[i] \in Nat
    BY CountingProps
  <2>2. h \in 0 .. divider[i] /\ l \in Nat
    BY <1>1, <1>2, NearBounds
  <2> QED
    BY <2>1, <2>2
<1>4. CASE HookCounts
  <2>1. HooksTo(i)' < h /\ Counting'
    BY <1>1, <1>4, CountNears
  <2>2. ~HookLooks
    BY <1>4 DEF HookCounts, HookLooks
  <2>3. HooksTo(i)' \in Nat
    <3>1. TimerInv'
      BY NextTimer
    <3>2. TimerInv' /\ Counting'
            => \A k \in Timers' : HooksTo(k)' \in 0 .. divider'[k]
      BY NearBoundsNext
    <3>3. Timers' = Timers /\ divider' = divider
      BY <1>4 DEF HookCounts, entries, Timers
    <3>4. HooksTo(i)' \in 0 .. divider[i]
      BY <2>1, <3>1, <3>2, <3>3
    <3>5. divider[i] \in Nat
      BY CountingProps
    <3> QED
      BY <3>4, <3>5
  <2>4. PICK g \in Nat : g = HooksTo(i)'
    BY <2>3
  <2>5. g < h /\ g <= h /\ g # h
    BY <1>3, <2>1, <2>4
  <2> QED
    BY <1>1, <2>1, <2>2, <2>4, <2>5 DEF CallbackNears
<1>5. CASE HookLooks
  <2>1. ~HookCounts
    BY <1>5 DEF HookCounts, HookLooks
  <2>2. CASE age'[i] = 0
    BY <1>5, <2>2 DEF CallbackNears
  <2>3. CASE /\ Counting' /\ HooksTo(i)' = HooksTo(i)
             /\ LooksLeft' < LooksLeft /\ LooksLeft' <= LooksLeft
    <3>1. HooksTo(i)' = h /\ h <= h
      BY <1>1, <1>3, <2>3
    <3>2. LooksLeft' < l /\ LooksLeft' <= l
      BY <1>2, <2>3
    <3> QED
      BY <1>1, <1>2, <2>1, <2>3, <3>1, <3>2 DEF CallbackNears
  <2> QED
    BY <1>5, <2>2, <2>3, LookNears
<1>6. CASE ~HookCounts /\ ~HookLooks
  <2>1. divider' = divider /\ counter' = counter /\ pos' = pos /\ Counting'
    BY <1>6, OthersLeave
  <2>2. HooksTo(i)' = h /\ LooksLeft' = l
    BY <1>1, <1>2, <2>1 DEF HooksTo, LooksLeft
  <2>3. h <= h /\ l <= l
    BY <1>3
  <2> QED
    BY <1>1, <1>2, <1>6, <2>1, <2>2, <2>3 DEF CallbackNears
<1> QED
  BY <1>4, <1>5, <1>6

(* The callback of a timer that stays started comes up: it is at most      *)
(* divider hooks away, every hook that counts takes it one hook nearer,    *)
(* and every look of the hook after that brings it to its entry.           *)
THEOREM CallbackComesUp ==
  Spec => /\ [](Counting => LooksLeft \in Nat
                            /\ \A i \in Timers : HooksTo(i) \in 0 .. divider[i])
          /\ [][\A i \in Timers : CallbackNears(i)]_vars
<1>1. TimerInv => (Counting => LooksLeft \in Nat
                               /\ \A i \in Timers : HooksTo(i) \in 0 .. divider[i])
  BY NearBounds
<1> QED
  BY <1>1, InitTimer, NextTimer, NextNears, PTL DEF Spec
=============================================================================
