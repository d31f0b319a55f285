# Verification of the EclipseCode modules

EclipseCode is a collection of C modules for small devices (queues, lists,
timers, a string log, a flash event handler, buttons, state machines) with
benches that run them on a PC under Eclipse: one thread plays the interrupts, and
text files with commands play the outside world. This directory holds TLA+
models of these modules, the TLC runs that check them and proofs, which say of any
number of slots, nodes, timers, callers and buttons what the runs show of a few:
for the loop queue and the string log, the dongle's endpoint and the flash requests
that stand on it, for the priority queue and the single list, for all that counts
hooks, for the state machines of pen and buttons and their engines, and for the reader
of scripts.

## Inventory

### Parts, state and interaction

| Part | Code | State | Operations |
|---|---|---|---|
| Loop queue | `CommonSource/MulLoopQueue/loop_queues.c` | marks of the slots, `first_in`, `first_out`, `used_node_num`, state | first in (permitted to occupy or not), first out, release, clear |
| Priority queue | `m_priority_queues.c` | bit table, node pool, bucket chains, heads, count | push, pop, release by priority, clear, scope |
| Single list | `m_list_node.c` | node pool, head, count, next pointers | add, insert, remove, pull away, update, find |
| Application timers | `IrqAndTimer/app_timer.c`, `Math/lcm_gcd.c` | entries, counter, threshold, three flags | create, module start, hook, start, stop, lock, unlock |
| Timer thread | `IrqAndTimer/user_irq.c` | "start" flag, list of entries | start, create, hook |
| Time managers | `IrqAndTimer/TimeManagerExtern.c` | table of clients' counters, number of entries | add, release, set, handle |
| String debug | `CharStringDebug/CharStringDebugModule.c` | a loop queue and its lines of text | push, process, flush |
| Scripts | `FileOperation/read_scripts.c`, `command.c`, `ScriptsCommandModule/` | lines, line number, state, function parameters | read the file, run one tick, call a function |
| State machine engine | `StateMachine/StateMachine.c` | current state | run with a bound on hops and a break, set the state |
| Buttons | `CustomizedModule/ButtonModule/` | state, two counters and the length saved last of every button | monitor (once per sample) |
| Dongle | `TB_TinyDancer/DongleTask/` | a queue with data per kind of notification, current slot, endpoint state | push from an interrupt, endpoint tick |
| Flash events | `CustomizedModule/FlashReadWrite/` | queue of requests and their parameters, priority queue of sector writes and theirs, machine | init, requests, run |
| Power saving | `TB_PowerSaving/` | pen state, bits of its conditions, "sure" flags, the bench's world | tick, initialisation, one script function per change of the world |

Everything that waits for something goes through the loop queue: the string log,
the commands, the notifications, the flash requests. The timer thread calls
`AppTimerHook`, this calls the callbacks of the timers, and these run the string
log (`StringDebugProcess`), the script (`ConditionalScriptCommandHandle`), the
button monitor and the dongle's task. A script line calls functions of the bench,
which push notifications or press buttons. `AppTimerLocked` is both the way to
hold the timers back and what the string log and the flash handler use for a
critical section.

### What is hard in it

* A slot goes through four hands: index, mark, data and consumer, each changed
  by a statement of its own, over wraps, overwrites and clears.
* `loop_queues.h` forbids that an interrupt enters the queue. Whether that holds
  depends on the lock flag of another module.
* The priority queue keeps four books of the same nodes.
* One counter drives timers of all periods and wraps.
* Interrupts push while the endpoint machine works with one shared slot number
  and a bound on its hops.
* Scripts jump, loop and wait with counters shared by all functions.
* Contacts bounce, at any time in a machine of eleven states.
* A flash request is queued in a critical region and filled in behind it.
* Clients keep numbers of places in a table that may be another one's by now.
* The engines of the state machines take the next state from a table, an action or
  the outside, and check it somewhere else.
* The pen decides on bits it collected at different ticks, is locked out of some
  of them, and stops looking once it is sure.

The hazards are listed with their lines in `PROJECT.json`.

### What makes each part correct

Loop queue: a bounded FIFO in which no slot has two users and none is lost.
Priority queue: a map that hands out the most urgent priority. List: a sequence.
Timers: a started timer fires exactly every `divider` hooks. String log: accepted
strings are printed once, in order, all of them. Scripts: the program the
comment in `HexCommand.c` describes. Buttons: each report is earned and each
press is answered. Dongle: all fast notifications go out within a tick, with the
data that was pushed. Flash: a queued event is the one that was asked for, inside
the flash. Time managers and timers: no counter has two places, none is counted
past its end. Engines: only hops and actions of the table are run. Pen: it shuts down when told and only then, and whoever
switches it off has not mistaken its state.

## Modules

| Module | Models | Abstract specification |
|---|---|---|
| `LoopQueue` | the operations of `loop_queues.c` as operators on a record, for all that use one | |
| `SlotQueue` | a loop queue with producers, consumers and the data array | `SlotFifo` |
| `LoopQueueProofs` | lemmas on the ring, for all proofs about its clients | |
| `SlotQueueProofs` | the theorems about `SlotQueue` | |
| `PriorityTable` | bit table and scans, as operators on words of `W` bits | |
| `PriorityQueue` | node pool and bucket chains over the table | `PriorityMap` |
| `ListNode` | the single list | `SequenceList` |
| `MCNodePools` | the two of them, for one run | |
| `NodePoolProofs` | the theorems about `PriorityQueue` and `ListNode` | |
| `AppTimer` | configuration, hook and lock of the timers | |
| `StringDebug` | the string log on two threads, over `LoopQueue` | |
| `StringDebugProofs` | the theorems about `StringDebug` | |
| `DataFlow` | the data arrays of the dongle's queues, over `LoopQueue` | |
| `UserEndPoint` (`MCUserEndPoint`) | the endpoint machine, over `LoopQueue` | |
| `UserEndPointProofs` | the theorems about `UserEndPoint` and `DataFlow` | |
| `FlashEvents` (`MCFlashEvents`) | the flash requests of several threads, over `LoopQueue` and `PriorityMap` | |
| `FlashEventsProofs` | the theorems about `FlashEvents` | |
| `StateMachine` | `StateMachineRun` | |
| `SimpleStateMachine` | `SimpleStateMachineRun` | |
| `TimeManagerExtern` | the table of counters and the identifiers of its clients | |
| `SystemTimer` | the timer thread and its list, beside main | |
| `TimerProofs` | the theorems about `AppTimer`, `TimeManagerExtern` and `SystemTimer` | |
| `ButtonModule` | the machines of all buttons, one monitor call an action | |
| `ButtonLength` | what the finger does during a long push, beside `ButtonModule` | |
| `ReadScripts` | reader, interpreter and functions of a script | `ScriptProgram` |
| `PenState` | the pen's basic state, its bits and handlers | |
| `PowerSaving` | bench and script about the pen, over `PenState` and `ScriptProgram` | |
| `MCScripts` | the reader with files, or the bench with its script, for one run | |
| `MachineProofs` | the theorems about `PowerSaving`, `ButtonModule`, `ReadScripts` and the two engines | |

`LoopQueue` is a library: `SlotQueue`, `StringDebug`, `DataFlow`, `FlashEvents` and
`UserEndPoint` extend it and each has the queue as a variable of its own. The
`map` in `PROJECT.json` gives the lines of every definition.

### How state and actions correspond to the code

* **LoopQueue.** The record `[buf, first_in, first_out, used, state]` is
  `sListManager`. `FirstIn(q, permit)` is `SimpleQueueFirstIn` with all it calls;
  `permit` is `is_OccupyPermit`: such a slot stays marked free and may be given
  again when the queue is full. `ReleaseBuf` takes the slot modulo 256
  (`uint8_t buf_num`).
* **SlotQueue.** One action per call. `store` is the array a client keeps beside
  the queue (`CharBuf`, `param_buf`, ...), `held` what consumers have popped and
  not released. Clients clear only with nothing held, as the code does.
* **PriorityQueue.** Bit tables are functions on words, the chains go by the
  same pointers and steps as `NodeTailAdd` and `NodePullAway`; pop is the search
  in the table followed by the release by priority. `PriorityMap` has the map as it is
  documented (`Spec`) and one that differs in a single case, a push into a full queue
  (`UnlessFullSpec`); the second is what the code implements (finding 3).
* **ListNode.** The seven ways of adding and removing are reduced to `Link` and
  `Unlink` at a place, with the checks and their order in `Add` and `Remove`.
  The branches for a broken list are there (`APP_ERROR`, `APP_NO_ENOUGH_SPACE`);
  the refinement shows that they are never taken.
* **AppTimer.** `GetLCM` is the function of the length that its loop computes. The
  hook is cut where another thread can see a difference: the
  check of the lock, the counting, and one step per timer. `age` is a history
  variable, the hooks counted since the last callback.
* **StringDebug.** Each call is cut at the lock, the queue operation, the text
  and the unlock. `Interrupt` chooses between a hook that is an interrupt (it
  begins only outside a hook and ends before main goes on) and one that is a
  thread of its own.
* **DataFlow.** The data of one slot is its first byte and the byte behind its
  row, since only these two meet; `Length` stands for the length that is stored.
* **UserEndPoint.** `Tick` is the timer's call, then each action of the machine
  is one or two steps (look and take, then send and release), so that pushes
  interleave. `hop` and `run` are the loop counters of `SimpleStateMachineRun`
  and of the task.
* **ButtonModule.** A monitor call is one action for all buttons: the action of
  the machine on the old counters, the counting of the new sample, the report.
  Thresholds count samples. `held`, `presses`, `longHeld` and `open` are history
  variables of the samples and the reports, `wasLong` of the contact before. `latest`
  is the length kept for the report of a long push, which the code saves in
  `TimeManager` whenever the contact opens. Whether it is the length of the push is
  asked in `ButtonLength`, whose history counts the samples a long push goes on
  without a break (finding 4).
* **ReadScripts.** A line is what `CommandAnalysis` makes of it. A tick is one
  action: the state of the reader, and with a command its execution, its function
  and the jump.
* **PenState.** `Factor` is the set of bits that are 1, `sensed` the set of
  conditions the bench answers true for; `sure` has "Quiet" in it when
  `isSureQuiet`, and likewise for the shut down. A handler of `Emark*.c` runs from
  its first to its last state in one call, so that it is one action; each of the five
  is an operator of its own over `StateHandle` (collect, decide, set) and `Sure`
  (the part that stops looking). The tick
  runs `PenBasicStateHandle`. In the sources that call is a comment
  (`PenState.c:468`) beside the call of `NewPenState.c`, whose states only print.
* **FlashEvents.** A request is two or three actions of its caller: the critical
  region, then the assignments behind it (`FillSlot`; for a sector's write the range
  and the source apart, since two callers can be at one node). The critical-region
  macros are empty by default; the operation on the queue is taken as one step, as
  their use intends. Of the priority queue only `PriorityMap` is used, with the
  pushes that `node_pools` shows it implements (`PushUnlessFull`). Init and uninit come between calls. Events of
  sectors count from 0 and not from the base address, as the code has it (`:231`).
  The handler is one whose table of actions and of user information is there;
  `UserFlash.c` passes `X_Null`, so that its init answers `APP_POINTER_NULL` and every
  request is refused. `Hold` and `BeginProcessing` write a flag that nothing reads,
  and `Run` goes through a table of `X_Null`: neither changes anything.
* **StateMachine, SimpleStateMachine.** One step is one question of the general
  engine (`onHop`) or one hop of the simple one. What functions answer, and whether
  `DoesBreak` breaks, is free; the table is a constant. `stored` is
  `*p_CurrentStateNum`, which may be set while a run is under way.
* **TimeManagerExtern.** `mTM_ID` is what the clients keep: `Add` writes it before it
  checks anything, nothing else does. Release and set take any number, as
  `NewPenState.c` releases one that is not its own. `counterExtern` is what its
  `CounterDrease` counts.
* **SystemTimer.** Main links an entry and then fills it in; the hook looks at an entry
  and then fires or counts. Each entry is created once. Callbacks start and stop any.
* **PowerSaving.** `timer1_callback` is two actions in turn: a line of the script,
  then `onTick`. The reader is taken at its word (`ScriptProgram!Following`), which
  `scripts` checks. Sums of random numbers (link, charger, magnet) are
  replaced by any outcome they can have; the random number itself is kept where
  functions decide on it. `buf_8[SECOND_CONDITION_JUMP_ADDRESS]` lies behind the
  array and falls on a part of `buf_16` that no function reads: left out.

## Runs and bounds

| Run | Checks | Bounds |
|---|---|---|
| `slot_queue` | types, ring, ownership, refusals, recycling, refinement of `SlotFifo` | 4 slots, 3 held, 2 data: wraps, overwrites, clears, slots back out of order |
| `node_pools` | queue: chains, books, search and where it stops, refinement of `PriorityMap` but for full queues; list: pool and chain, refinement of `SequenceList` | 5 priorities in words of 2 bits, 3 nodes, 2 buckets: a chain may hold the whole pool, scans cross words; a list of 4 nodes: head, tail and two places between |
| `priority_queue_full` | finding 3 | the same queue |
| `app_timer` | threshold, never late, never early, never stopped | 3 timers of 4, 5, 6 and a limit of 13: some sets have no threshold below it; counters wrap |
| `string_debug` | critical section, order, completeness | 3 slots, 5 strings: wraps and refusals |
| `string_debug_threads` | finding 1 | the same |
| `user_endpoint` | slots, round of the machine, all fast entries in a tick, slow ones when quiet | 3 fast and 2 slow entries of 2 slots; hops and runs as in the code |
| `data_flow_overwrite` | finding 2 | 2 entries of 2 slots |
| `flash_events` | calls kept apart, the latest write of each sector, bounds of the flash | 2 callers, 2 slots, 2 nodes for 4 sectors in 2 pages; requests on both sides of every check, a page whose address wraps |
| `button` | gestures in turn, earned, answered, a long contact told as one | 2 buttons; thresholds 3, 2, 4, 3 samples in the order of the defaults |
| `button_length` | finding 4 | 1 button, the same thresholds, a counter for a push twice as long |
| `scripts` | reader: types, refinement of `ScriptProgram`, loops, end; bench: types, certainty, shut down when told, rounds | every file of up to 4 lines over 12 lines, a table of 4; the delay of the code (3) and seven random numbers, one for every case the functions tell apart |

`node_pools` and `scripts` each hold two parts that share no state. Their behaviours
are those of the one and those of the other, chosen at the beginning: a property
of one part holds trivially of the behaviours of the other, and is checked in full on
its own. A program has either the functions of `CalledByScripts.c` or those of
`PowerSaving.c`; two pools that no caller joins do not see each other's calls.

Each run checks the type invariant of its module: by name where theorems or mutants
of the code refer to it, elsewhere as the first part of its main invariant.

Counters that only grow in the code are history variables with a named limit
(`MaxStrings`, `MaxHeld`, `MaxLocks`, `MaxParam`). The buttons' thresholds are
tens or hundreds of samples in the code; what matters to the properties is their
order, which `ButtonAssumption` states, and that each takes more than the one or
two samples the machine spends in `Start`.

### Fairness

* `SlotQueue`: consumers run from a repeated timer (weak fairness of pop and
  release); nothing makes a producer push.
* `AppTimer`, `StringDebug`: the timer thread sleeps and calls the hook for ever
  (`user_irq.c:41-50`), and a call that has begun goes on. Main owes nothing but
  to end the calls it began; that it unlocks what it locked is part of it.
* `UserEndPoint`: the tick is a repeated timer and ends. Pushes are free.
* `ButtonModule`, `ReadScripts`: the monitor and the reader are called from a
  repeated timer. Contacts do what they like.
* `PowerSaving`: the timer's callback is called for ever; which random numbers
  come is not assumed.

### Findings

1. `loop_queues.h:5` says that the queue cannot be interrupted. With the hook on
   the timer thread, as `user_irq.c` starts it, `AppTimerLocked` does not keep it
   out: the hook reads the flag once (`app_timer.c:31`) and goes on. The
   `[T]FileCommandSystem` main pushes a string after `StartTimer`; the other
   mains happen to leave the queue alone by then.
2. `DongleTask.c:58` promises that data buffers are not overwritten. `DataFlowPush`
   writes the length one row too far (`DataFlow.c:163`), on the first byte of the
   next slot. It costs a notification only when the entry fills up (`SpoiltWhenFull`);
   what lies behind the last row of an array is not modelled.
3. `m_priority_queues.c:5` says "if same priority is pushed ,the previous one will be
   replace by the new one", and the test in `priority_queue_list_node_test.txt:194`
   prints "Node count max , only replace can be done". When all nodes are in use
   `mPriorityQueuePush` answers FALSE before it looks for the priority (`:309`), so
   that just then nothing is replaced. `ImplementsMap` states what is documented and
   is violated by a queue that is filled up and pushed a priority it holds;
   `ImplementsMapUnlessFull` says that this is the only difference. For the flash
   handler it means that a newer write of a sector that waits is refused when all its
   nodes are taken: the write that waits is the last one accepted (`LatestWriteWaits`).
4. `Button.c:75` prints the number that comes with the release of a long push
   (`LongPushLastCycle`) as "LongPush Release; last %d ms : %d + %d", the time the push
   lasted. `TimeManager` saves the counter whenever a contact opens
   (`ButtonModule.c:112`), and only an opening that lasts is a release: a contact that
   bounces at the end of a push of any length is told as the length of the
   bounce. `LengthOfPush` asks no more than that the number is at least the samples
   for which the push went on without a break after it was told, and is violated.
   What holds without bounces is `LongToldLong`.

Seen in the reading and not run:

* `mSingleListFindByValue` writes the place of the node in the pool where its header
  (`m_list_node.h:112`) speaks of an order number. Nothing calls it.
* `DataFlowPop` answers the byte before the one `DataFlowPush` writes as the length
  (`DataFlow.c:194`), which is always 0; no client uses it.
* `GetLCM` with fewer than two timers answers what was never written; the model
  leaves that to chance and the properties ask for two timers.
* The requests of the host (`UsbFeatureTB.c:52`) are pushed and never popped.
* A new start of the dongle's script leaves the machine of the USB features as it was
  (`DongleTaskTB.c:122`).
* Nested loops of a script share one counter (`CalledByScripts.c:48`), and a command
  shorter than its declared length keeps the tail of the one before (`command.c:87`).
* `SystemTimerCreated` lets one timer more pass than its array has places
  (`user_irq.c:113`). Nothing creates one at present: the calls are comments.
* The end of a flash request is a sum of 32 bits: one that wraps passes the check
  of the bounds (`FlashEventHandle.c:22`). `EventsInFlash` exempts it and says that
  nothing else gets past the end.

## Proofs

What a run shows of a few slots, nodes, timers or buttons, the theorems say of any
number of them. Three things are needed from outside and stand as hypotheses or as
assumptions, never hidden in an invariant: the assumptions on constants of the modules
of the runs, which TLC evaluates; those same assumptions for a module that is reached
by `INSTANCE` (`ListNode`, `ButtonModule`, `ReadScripts`, the tables), restated as a hypothesis
(`ListGiven`, `ThresholdsInOrder`, `TableGiven`, `FilesGiven`), since no run extends
the proof module; and, where the code has a limit of its own, that limit.

| Module | Theorems | Hypotheses beyond the assumptions of the modules |
|---|---|---|
| `SlotQueueProofs` | `TypeCorrect`, `RingCorrect`, `OwnershipCorrect`, `RefusalCorrect`, `FifoCorrect`, `SlotComesUp` | `SlotsFitAByte` |
| `StringDebugProofs` | `NotInterrupted`, `NothingLost`, `PrintComesUp` | `Interrupt`: the hook is an interrupt; `SlotsFitAByte` |
| `UserEndPointProofs` | `SlotsCorrect` | `SlotsFitAByte` |
| | `FlowAccounts`, `SpoiltWhenFull`, `SlowComesUp` | `SlotsFitAByte` |
| | `RoundComplete`, `FastServed` | and `FiveHops`: five hops a run, at least two runs a tick |
| `FlashEventsProofs` | `CallsApart`, `LatestWaits`, `RequestsInFlash` | |
| `NodePoolProofs` | `ChainsCorrect`, `BooksCorrect`, `LookupCorrect`, `MapCorrect` | for `MapCorrect`, `MaxPriority # 0` |
| | `ListCorrect`, `SequenceCorrect` | `ListGiven`; for `SequenceCorrect`, `MaxNodeCount <= ListLimit` |
| `TimerProofs` | `TimerTypeCorrect`, `ThresholdCorrect`, `LateNever`, `EarlyNever`, `CallbackComesUp` | |
| | `TableTypeCorrect`, `AddCorrect`, `OnePlaceCorrect`, `IdentifierCorrect` | `TableGiven` |
| | `CountersCorrect` | `FewTimers`: each timer is created once, and no more of them than places |
| | `OneBehindTheArray` | at most 254 places, so that a byte counts the entries |
| `MachineProofs` | `PenTypeCorrect`, `SureCorrect`, `EndsCorrect`, `RestartComesUp`, `BootComesToAnEnd` | |
| | `HopsInTable`, `ActionsInTable` | `TableGiven` of the engine |
| | `ButtonTypeCorrect`, `GesturesAlternate`, `ReportsEarned`, `LengthCorrect` | `ThresholdsInOrder` |
| | `SilenceSettles`, `SettledIsAnswered` | `PressesAreLong`: these, and a click takes three samples at least |
| | `ScriptTypeCorrect`, `ProgramRun`, `LoopCorrect`, `ScriptRunsDown` | `FilesGiven`: lines are records, a table of two lines at least |

### The loop queue and its clients

`LoopQueueProofs` has one lemma per operation (`FirstInProps`, `FirstOutProps`,
`ReleaseBufProps`), which says what it does to the queued slots and the marks. The
arithmetic of the ring is below them, in `NextNodeInSlots`, `NextSlotAt`,
`SlotFromNext`, `PlacesBehind` and `PlacesBehindNext`, which know nothing of queues.
`FirstInOrder` and `FirstOutOrder` add what becomes of the order. `Account(q, hands)`
is what the clients have in common: the marked slots are those that are queued and
those in somebody's hands.

`SlotsFitAByte` says that slot numbers fit the byte of `RealseSimpleQueueBuf`. It is
needed: with more slots the release of slot 256 frees slot 0, which `OwnershipCorrect`
would contradict.

* **SlotQueue.** `IInv` is types, ring and ownership together: ownership alone is not
  inductive, since which slots are queued is computed from the indices, and a push
  takes a slot that nobody holds only if the count says where the queue ends.
  `RefusalCorrect` follows from it: while slots come back in the order they were taken,
  the held ones lie right before the queued ones, and the slot `first_in` points at has
  a user only if all have. `FifoCorrect` shows each operation to be one of
  `SlotFifo` or a stutter. It needs `FInv`, by which what lies in queued and held slots
  are data that were pushed.
* **StringDebug.** `Excl` is the critical section: main is inside only with the flag
  set and the hook asleep. With it each step finds the other thread outside
  (`RunsAlone`), so that a call that is cut in four is one call after all. `InOrder`
  then says what the property of the run leaves to the end of a call: accepted strings
  are those printed, the one in hand and the stored ones, in this order. With a hook
  that is a thread `Excl` is false (finding 1), which is why `Interrupt` is a hypothesis.
* **UserEndPoint.** `SlotsInv` keeps an `Account` for every entry, of which only the one
  in turn may have a slot in hand. `RoundInv` counts: where the machine is in its
  second run, how many hops it has made, and which fast entries it has passed
  (`Passed`). An entry that waited when the tick began and is not passed still has
  something (`Served`), as pushes only add.
* **DataFlow.** What finding 2 costs. The queues are those of the endpoint
  (`SameRing`). The slot in hand lies right before the oldest queued one
  (`JustPopped`), since no other can be popped meanwhile. So when a push takes the slot
  before one that waits (`LastBeforeQueued`) or is being read (`LastBeforeHand`), it
  takes the last free slot of its entry, and what it spoils is the first byte of a slot
  other than slot 0 (`SpoiltWhenFull`): an entry that never fills up loses none of its notifications.
* **FlashEvents.** `SlotInv` ties each queued slot to its event or to the one caller that
  is filling it in. `NodeInv` does so for the nodes of the priority queue, and that no
  two waiting sectors share one; `LatestWriteWaits` is inductive only with it, since a
  caller fills in a node by its number after the critical region.

### The pools of nodes

A chain is a recursive function in the model, the walk from the head. What a walk
visits needs induction, and the library's induction theorems take an operator as a
parameter, which the provers cannot instantiate. `LeastElement` (a set of numbers that
is not empty has a least one) comes from well-foundedness without such a parameter, and
`InductionInSet` from it; both speak of sets only.

* **PriorityQueue.** `IInv` has three parts over the walks `w`: `Tidy` (walks end, hold
  used nodes of their bucket, and have nothing in common), `Clean` (the table has no bit
  beyond the largest priority) and `Books` (free marks, count and table say the same as
  the walks). A walk cannot be longer than the pool by the pigeonhole principle
  (`ShortChains`), and a pool that is not full has a free node (`RoomForOne`). Adding
  and unlinking are lemmas on walks (`Linking`, `Unlinking`), and all the actions go
  through `Changing`, which changes one bucket and leaves the others. The scans
  are the least or the largest element of the table; a priority determines its bucket,
  so that the search misses nothing although it stops after as many nodes as a bucket can
  have priorities. `MapCorrect` is about the map but for full queues (finding 3), and
  excludes a largest priority of 0, for which `PriorityTableInit` answers
  FALSE and the queue is never ready.
* **ListNode.** `LInv` is `Linked` (one walk, with as many nodes as are counted, all
  others free) and what is asked. Adding moves the rest of the walk up by one, removing
  moves it down (`ShiftedUp`, `ShiftedDown`), which is what `SequenceList` does to its
  sequence. A list beyond the limit is never initialised and answers clearing with a
  code of its own (`APP_BEYOND_SCOPE`), hence the hypothesis. The codes for a broken
  list are never answered.

### Timers and tables

* **AppTimer.** `LcmIsLeast`: the turns of `GetLCM`'s loop compute the least common
  multiple below the limit, or 0 when there is none; the step is `LeastDivides` (the
  least common multiple divides all others) on top of lemmas about remainders. For the
  ages the invariant is `TimerInv`: the threshold is that multiple, and where the hook
  is in its walk an age is the remainder of the counter by the divider (`AgesFit`):
  of the counter after this hook for timers looked at, of the one before for the
  others. When the counter wraps, remainders go on as if it did not, since the
  threshold is a multiple of every divider. `LateNever` and `EarlyNever` are then what
  it says at a callback.
* **TimeManagerExtern.** The number of entries is the number of used places
  (`EntriesCounted`), by the library's theorems on finite sets, and so the last error
  return of `Add` is never taken; a client in the table holds the identifier of its own
  place or none because an object has one place.
* **SystemTimer.** The check of the array's size is off by one. That a list of no more
  timers than places fits needs no check at all and is not claimed of it;
  `OneBehindTheArray` says what the check leaves, whatever main creates: one entry
  behind the array and no second one. `CountersCorrect` is about programs that do not
  come to that. There `StillCounting` says that what the hook saw still holds when it counts, and so no
  counter passes its divider while main and the thread interleave.

### Machines

* **PowerSaving.** Certainty is inductive together with the types, in particular the
  script never leaves its 21 lines (`ScriptLines`): a handler that changes the state was
  not sure of the old one, so it was sure of nothing, and states that cannot be sure
  (`Last`) come from the type. `EndsCorrect` rests on `FreshReasons`: what an awake
  handler collects includes both reasons to end, whatever else is in the bits.
* **Engines.** Whatever the hops answer and whatever state is set from outside, a run of
  the general engine looks up only hops that are there, because each hop begins with a
  check (`HopsInTable`). The simple engine checks only what actions answer: there it
  needs that states set from outside are in the table, and then its own check at the
  start never refuses (`ActionsInTable`).
* **ButtonModule.** `Pressed(b)` says of one button what its state has behind it. `Contact`:
  the counter of pushes knows at most the present contact. `Earned`: in which states a
  full press, two or a long one must have come since the last report, where the press
  under way counts once although the counter is cleared in its middle. `Kept`: from a
  long push to its release the counter is the length of the contact, so that what
  `TimeManager` saves at the end of a long contact is long (`LengthCorrect`). `Together`: all
  buttons leave their first state in one call, so that `InitAction`, which takes the
  flags of all buttons back, never takes one back that was set before it.
* **ReadScripts.** For every set of files, whatever their length and the numbers in
  their lines. `LoopInv`: `buf0` is the number of calls since the loop began and below
  the times of its `ForNow`, wherever the script went in between; `LoopCorrect` is what
  it says at a call. `WaitInv`: a wait has not yet lasted its time, without which the
  bound of its counter is not inductive. `LineOfProgram`: a line that is read is a line
  before ":end", since the last one loaded never is; with it each tick is a step of
  `ScriptProgram` or a stutter (`ReadsAsProgram`).

### What brings the awaited step nearer

A liveness property has two parts: steps keep coming (fairness, and a step that is
enabled), and each of them gets somewhere. The second part is safety, and it is proved
here for every size: a measure in the natural numbers, shown to be one by the
theorem itself, that no step of the part in question leaves as it was. The runs check
the two together on small instances. What a run cannot show is the bound the measure
gives, and that sizes do not matter.

| Theorem | Property of a run | Measure |
|---|---|---|
| `SlotComesUp` | `EverySlotRecycled` | `WaitsFor(s)`: a pop and a release for each slot queued before s, a release for each held, and its own pop |
| `PrintComesUp` | `EveryStringPrinted` | `ToPrint`: steps each thread has left in the call it is in |
| `SlowComesUp` | `SlowServedWhenQuiet` | `Comes(i)`: actions of the machine until the entry is asked, with a tick before each |
| `CallbackComesUp` | `StartedRuns` | `HooksTo(i)`: hooks up to the next multiple of the divider; `LooksLeft` of the walk |
| `RestartComesUp` | `BenchRounds`, first part | `ToRestart`: calls of the script, with the turns of its loop, and the ticks between, at most 49 |
| `BootComesToAnEnd` | `BenchRounds`, second part | `Before`, `TicksLeft`, `ToTick`: lines before the loop, ticks of the boot, steps to the next tick |
| `SilenceSettles`, `SettledIsAnswered` | `SilentIsSettled` | `SettlesIn(b)`: samples the button has to be up yet |
| `ScriptRunsDown` | `ScriptEnds` | `LinesAhead`, `TurnsAhead`, `LoopAhead`, `TicksAhead`: the first that changes is lowered |

* **SlotQueue.** A push queues behind whatever is marked already, so it raises nothing. A
  pop moves the oldest slot from the queue into a hand, where it counts one less. That
  is `ComesUp`; the theorem adds that while a slot waits the queue can be popped, and
  that some client has a hand free or a slot to give back.
* **StringDebug.** `FlagIsSection`: the flag is set exactly while a thread is inside, so
  no way out of a section leaves it set, which would silence the hook for good. While
  it is set the thread inside goes on to the end of its call; while it is not, the next hook finds the string,
  since a queue that is empty has none waiting. `PrintNears` has a third outcome: main
  offers another string, whose push has to end before a hook gets in.
* **UserEndPoint.** `Dist` counts the actions of the machine around the round. An entry
  of the last state that the loop of `CheckOtherNotify` has passed (`look`) has to wait for
  the next round. `Serves(i)` has the condition of the run's property, that the fast
  entries and the slow ones before it are silent. It needs no limit of hops or runs,
  since the machine goes on where a run left it.
* **AppTimer.** `HooksTo(i)` is 0 when the hook is on its way to the entry and finds it
  due. Only a hook that counts moves it, by one, across the wrap as well (as in `AgesFit`);
  a hook that is locked out and main's calls for other timers raise neither number.
* **PowerSaving.** The bench locks the pen out until line 13 and again from line 14 to
  21, so that not every call is a tick: `ToTick` counts up to the next one. `Before`
  stands first since at line 4 the bench starts the pen again, and a boot with it;
  after that it stays in its long loop as long as the pen boots (`BootIInv`), because a
  booting pen is not sure of anything.
* **ButtonModule.** `Heard(b)`: a machine that waits for a press has seen all of the one
  under way. For that a press has to be longer than the call that reports and the one
  that starts again, hence `PressesAreLong`; the 100 ms of the code are 33 samples.
* **ReadScripts.** `EndingScript` is the condition of `ScriptEnds`: jumps lead forward,
  except for loops without another function of the loop counter in them. A script
  with other jumps need not end, and the one of the power saving bench does not.

### What is only model-checked

That the awaited step does come (`EverySlotRecycled`, `StartedRuns`, `SilentIsSettled`
and the others), as ENABLED and fairness are out of the prover's reach; what is
proved of it stands above. The modules that only
proofs are about (`StateMachine`, `SimpleStateMachine`, `TimeManagerExtern`,
`SystemTimer`) have no run of their own: what the theorems say of them holds for every
size.

## Not modelled

* The machine of the flash handler: its action table is empty in the code.
* `NewPenState.c` but for its use of the time managers: placeholders that print. It
  calls the engine with three arguments, as an earlier engine had it, and so do
  `UserEndPoint.c:149` and the benches of the dongle; buttons and flash events use the
  present one with four. Their actions take the current state itself, which is what
  the module `UserEndPoint` gives them. `TB_PowerSaving`, buttons and dongle are excluded from the build of
  `[T]LogicLab` (`.cproject`), which has one bench at a time.
* The benches that generate USB, BLE and user events: what they push at random is the
  free pushes of `UserEndPoint`. `DataFlowClear` is reached by no path
  (`NotifyEventTB.c:209` returns before the handlers that call it).
* `isPowerLow`: `USE_POWER_LOW_SHUTDOWN` is 0 and nothing reads it.
* The queued path of the scripts (`ScriptCommandHandle`), which nothing calls.
* The callbacks of the buttons (`Button.c`), the bytes of commands, all output.
* Console, log file, IDE data, older copies of the modules, printing tests.

## Plan

1. `SlotQueue` and its proofs, then the parts that stand on the loop queue:
   `StringDebug`, `DataFlow`, `UserEndPoint`. Done.
2. The other data structures with their abstract specifications: `PriorityQueue`,
   `ListNode`. Done.
3. `AppTimer`, `ReadScripts`, `ButtonModule` with the length of a long push. Done.
4. `FlashEvents`: the requests over `LoopQueue` and the promise of the priority queue,
   with parameters that are filled in after the critical region. Done.
5. Power saving: the pen's states with the bench and its script, and its proofs.
   Done.
6. The tables: `TimeManagerExtern`, `SystemTimer`, the two engines, with proofs. Done.
7. Proofs for every size: the clients of the loop queue, the pools of nodes, the timers,
   the buttons. Done.
8. Proofs about `ReadScripts` (that the reader runs the program of `ScriptProgram`)
   and about `DataFlow` (what finding 2 can spoil). Done.
9. The safety part of every liveness property: measures that each step lowers. Done.
