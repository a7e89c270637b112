# Verification of artdaq_core

artdaq_core is the library that the processes of an artdaq data acquisition system share: the
shared memory through which they hand events to each other, the objects that are handed over
(fragments), and the monitoring of what happens. This directory holds TLA+ models of the parts
whose correctness depends on the order of things, TLC configurations that check them on small
instances, and theorems about them that TLAPS proves for every value of the constants.

Line numbers refer to files under `src/artdaq-core/`. `PROJECT.json` maps every definition to the
lines it stands for, lists the hazards the properties are aimed at, and names for each property a
plausible bug (a *mutant*) that breaks it.

## 1. Inventory

### 1.1 Components

| Component | State | Operations | Modelled |
|---|---|---|---|
| `SharedMemoryManager`, buffer protocol (Core/SharedMemoryManager.cc) | per buffer in the segment: the atomics `sem` (Empty, Writing, Full, Reading), `sem_id` (owner or -1), `sequence_id`, `writePos`, `readPos`, `last_touch_time`; per segment: `reader_pos`, `writer_pos`, `next_sequence_id`, `reader_count`, modes; per process: `last_seen_id_`, `registered_reader_` | `GetBufferForWriting`, `GetBufferForReading`, `Write`, `Read`, `MarkBufferFull`, `MarkBufferEmpty`, `ResetBuffer`, the ready tests, `Detach`, the signal handler | `SharedMemoryManager` |
| Threads in one manager (same file) | `search_mutex_`, `buffer_mutexes_`, each thread's call | the same functions, called by several threads of a process | `ManagerThreads` |
| Positions within a buffer (same file) | `writePos`, `readPos` of each buffer | `Write`, `IncrementWritePos`, `ResetWritePos`, `Read`, `IncrementReadPos`, `ResetReadPos`, `MoreDataInBuffer` | `BufferPositions` |
| Round robin among readers (`GetBufferForReading`, lines 337-372) | `last_seen_id_`, `reader_count`, `lowest_seq_id_read` | the test on sequence ids that decides whose turn a buffer is; registering, leaving | `ReaderRoundRobin`; the test also in `SharedMemoryManager` (`NotMyTurn`) |
| Life cycle of the segment (`Attach`, `GetNewId`, `ResetAttachedCount`, `Detach`, end of data) | `next_id`, `ready_magic_bytes`, the list of instances | create, attach, attach again, take an id, remove; a signal that is survived; an owner that is killed and starts again on its old segment | `SharedMemorySegment`, but for the list |
| `SharedMemoryFragmentManager` | `active_buffer_` | `WriteFragment` with its retry and reconnect loop, `ReadFragment` and its header and data halves | `SharedMemoryFragmentManager` |
| `SharedMemoryEventReceiver` | `current_read_buffer_`, its cached header and data source, `init_fragment_` | `ReadyForRead` over two segments, `ReadHeader`, `GetFragmentsByType`, `ReleaseBuffer` | `SharedMemoryEventReceiver` |
| `MonitoredQuantity` | working values, `_lastCalculationTime` (atomic), full and recent results, bins, `enabled` (atomic), two mutexes | `addSample`, `calculateStatistics`, `reset`, `enable`, `disable`, `setNewTimeWindowForRecentResults`, the getters and the wait | `MonitoredQuantity` |
| `StatisticsCollection` | the map of quantities and its mutex, the thread, the stop flag | `run`, `addMonitoredQuantity`, `reset`, `requestStop`, constructor and destructor | `StatisticsCollection` |
| `QuickVec` (Core/QuickVec.hh) | data, size, capacity | reserve, resize, insert, erase, push_back, swap, copy, move | `QuickVec` (operators) |
| `Fragment`, its headers and their upgrade | payload and metadata in a QuickVec | resize, setMetadata, updateMetadata, copy, move, swap | `Fragment` |
| `ContainerFragment`, `ContainerFragmentLoader` | the metadata and the index at the end of the container | addFragment, addFragments, appendFragment, resizeLastFragment, at | `ContainerFragmentLoader` |
| `RawEvent` | the list of fragments and the complete flag | insertFragment, markComplete, releaseProduct | `RawEvent`, but for the flag |
| Exceptions and stack traces (Utilities/ExceptionStackTrace, ExceptionHandler) | `stack_traces_` by thread, `stack_traces_mutex_` | the replaced `__cxa_throw`, `collect_stacktrace`, `print_stacktrace`, `ExceptionHandler` | `ExceptionStackTrace`, `Utilities` |
| Message facility (configureMessageFacility.cc, GenFile_mfPlugin.cc) | the log's file pattern and position while it is expanded | the loop over the directives, opening the file | `GenFile`, `Utilities`, but for the text of the configuration |
| Lookup, time, plugins, build information | none that evolves | formatting, files, factories, constants | no: pure I/O or generated |

### 1.2 Interactions

* Processes meet in the segment and nowhere else. `search_mutex_` and `buffer_mutexes_` are members
  of one manager object and order the threads of one process; between processes there are only the
  atomics of the buffers and plain words in the segment.
* `SharedMemoryFragmentManager` and `SharedMemoryEventReceiver` are clients of one and of two
  managers. They call a buffer function, keep the buffer number, and use it later: between two
  calls other processes may have taken the buffer (overwrite, timeout, owner restart).
* The signal handler calls `Detach` on every instance, wherever its threads are. `Detach` is also
  called by the destructor and, with an exception, by the checks of a buffer's owner and state.
* `StatisticsCollection` calls every quantity under `map_mutex_`; other threads add samples to the
  quantities without it, and may call a quantity's functions directly.
* A process sets its log up first (`configureMessageFacility` starts the message facility, which
  constructs the GenFile destination); every exception that its threads throw afterwards, also from a
  library, goes through the replaced `__cxa_throw` and takes one mutex.
* The containers build on each other: `RawEvent` owns fragments, a container fragment is a
  fragment, a fragment is a `QuickVec`.

### 1.3 What is hard, and what has to be right

| Component | Hard | Properties that make it correct |
|---|---|---|
| buffer protocol | two compare-exchanges on two atomics; the second may fail; ids read before and used after; processes that die or are signalled in between; timeouts; overwrite | one owner per buffer; an event is given out once, none is lost, none is torn; broadcasts in order, as far as they were chosen; buffers come back; a dead reader's event is offered again |
| threads in one manager | the owner on a buffer is a manager and does not tell its threads apart; `next_sequence_id` and the flags are plain words | no two threads are given one buffer; no thread's exception detaches the others; ids of events differ; no call waits for ever |
| round robin | signed and unsigned arithmetic, readers that join and leave | somebody's turn it always is; no two readers' turn at once with the same count |
| life cycle | ids and positions reset under attached processes, a restarted owner | ids are unique among live managers; a manager never acts on a segment it did not attach to |
| fragment manager | retries with time limits, reconnects with a buffer number kept | no fragment is acknowledged and lost; every buffer is given back |
| event receiver | cached header of a buffer that is taken away, two sources | header and data are from one event; the loop ends |
| `MonitoredQuantity` | one calculation is two critical sections with an atomic outside both; bins that change size | no sample counted twice or lost; the recent results are those of the last calculations; durations and times are real |
| `StatisticsCollection` | a mutex held over many calls, a stop flag polled, a join | samples are counted in the end; a stop request ends the thread; a reset is a fresh start |
| positions | calls in any order, portions of any size, the buffer given back in the middle | a position stays in the buffer; what is published was finished by one writer and does not change |
| exceptions | a mutex taken by every throw, also by one that is thrown while it is held | a throw arrives at its handler; a trace is printed |
| log file | a loop that changes the text it searches, unsigned positions | the name documented for the pattern; the loop ends |
| containers | sizes, capacities and an index that is kept at the end | contents preserved by growth; index and sizes agree, also when a step throws |

## 2. Modules

```
SharedMemoryManager                     BufferPool
            \                             |
             SharedMemoryManagerRefinement  (Pool == INSTANCE BufferPool)
                  |             \
            MCSharedMemoryManager |         SharedMemoryManager --- BroadcastOrder
                                  |                                   |
                     SharedMemoryManagerProofs ------------------------

ManagerThreads --- MCManagerThreads
   |
ManagerThreadsProofs

BufferPositions --- MCBufferPositions
   |
BufferPositionsProofs

ReaderRoundRobin --- MCReaderRoundRobin
   |
ReaderRoundRobinProofs

SharedMemorySegment
   |
SharedMemoryFragmentManager --- MCSharedMemoryFragmentManager
   |
SharedMemoryFragmentManagerProofs

SharedMemoryEventReceiver --- MCSharedMemoryEventReceiver
   |
SharedMemoryEventReceiverProofs

MonitoredQuantity --- StatisticsCollection --- MCStatisticsCollection
                         |
                      MonitoredQuantityProofs

QuickVec --- Fragment --- ContainerFragmentLoader --- RawEvent --- MCRawEvent
                                                     |
                                               RawEventProofs

GenFile, ExceptionStackTrace --- Utilities --- MCUtilities
```

A line downwards or to the right is EXTENDS. `SharedMemorySegment`, `SharedMemoryFragmentManager`,
`ReaderRoundRobin`, `BufferPositions` and `SharedMemoryEventReceiver` use buffers as `BufferPool` promises them, one atomic step of the holder
per move, which `SharedMemoryManager` is proved to implement in the mode they need; composing them
with every access to the atomics is beyond what can be explored.

### 2.1 SharedMemoryManager

The manager of process `p` makes one call at a time; `frame[p]` is that call: the function, the
point reached, and its locals. Every action is one access to the shared atomics with the local work
that follows, so all processes interleave between any two accesses.

| Actions | Code (Core/SharedMemoryManager.cc) |
|---|---|
| `GetBufferForReading`, `ScanForReading`, `NotMyTurn`, `ReloadForReading`, `CasId`, `CasSem`, `CheckReading` | `GetBufferForReading`: the scan for the buffer with the best sequence id, the round robin test, the two compare-exchanges, the check and the retry |
| `GetBufferForWriting`, `LoadSemForWriting`, `LoadIdForWriting`, `CasId`, `CasSem`, `CheckWriting`, `StoreSequenceId` | `GetBufferForWriting`: the passes for Empty and, with overwrite, Full and Reading buffers; `++next_sequence_id` is a load and a store |
| `Write`, `WriteEnd`, `Read`, `ReadEnd` | the copies, between the check before and (for `Read`) the check after |
| `MarkBufferFull`, `MarkBufferEmpty`, `MarkBufferEmptyForced`, `ReleaseStoreSem`, `ReleaseStoreId` | the releases: the state is stored first, the owner after it |
| `ResetBuffer`, `ResetRecheck`, `ResetStoreFull`, `ResetStoreEmpty`, `ResetStoreId` | `ResetBuffer`, which every scan calls on every buffer it visits |
| `Poll`, `PollEnd` | `ReadyForRead`, `ReadyForWrite` and the two counts, one visit of one buffer |
| `Detach`, `DetachStoreSem`, `DetachStoreId`, `DetachEnd` | `Detach` from the destructor, from the signal handler at any point of a call, and from a failed check |
| `Crash`, `Expire` | environment: a kill without a handler; `buffer_timeout_us` passes without a touch |

Abstractions, each of which keeps every order the properties can tell apart:

* An event's data is one bit, `writePos`; `readPos` and sizes within a buffer are in `BufferPositions`.
* `last_touch_time` is the flag `stale`. `Expire` sets it at any time for a buffer that nobody
  works on; a manager in `SlowOwners` may also leave a buffer it works on untouched for too long.
* `lowest_seq_id_read`, which nothing reads but its own update and a getter, is in `ReaderRoundRobin`;
  `writer_count` is a diagnostic and left out.
* Adjacent loads whose results are used together are one action: the reader's loads of one
  buffer in its scan, the two of `checkBuffer_`, those with which `ResetBuffer` begins. The ownership
  test of `MarkBufferFull` and its store of the state are one action.
* The round robin test (`NotMyTurn`) is computed from `last_seen_id_`, `reader_count` and the sequence
  ids as the code does; none of them is near its limit in any instance.
* `MarkBufferEmpty` is called with `detachOnException` set, its default. A forced release is
  called by a holder or by the segment's owner.
* A manager makes one call at a time: several threads in one manager are in `ManagerThreads`.
* Clients keep to the protocol of the class: they copy and release only what they were given.

Bounds: `MaxRetry` (the code retries 4 times; a retry starts again from nothing, so 1 reaches the
same states of the segment), `MaxHeld` buffers per client, and `MaxSeq`: a writer starts no new
event after so many sequence ids. With 2 buffers, `MaxSeq` of 2 or 3 lets a buffer be filled,
released and filled again, which every hazard of reuse needs.

`BroadcastOrder` adds the history variable `met` to every step: the id of the last event that each reader was given
as the one it had chosen. `last_seen_id_` does not tell that: it is the id by which the buffer was chosen, loaded before
the compare-exchanges. TLC checks `NewerThanSeen`, which relates the event really given to `last_seen_id_` before and after;
the order of what was chosen and got (`ChosenInOrder`) is proved over the history.

### 2.2 BufferPool

What the buffers promise to their clients: each buffer is empty, being written, full or being read;
one atomic step moves it on; only its holder moves a buffer that is being written or read.
The refinement maps the state to `sem`, and `sem_id` to the holder only while the state is Writing
or Reading: between a store of the state and the store of the owner the implementation has an owner
that the pool does not show.

### 2.3 MonitoredQuantity

A sample is the number of its rank. The counts, sums and extremes that the code accumulates are
functions of the set of samples accumulated, so an accumulator is that set: `working` stands for the
working values, `full`, `bins` and `recent` for the results. Rates, averages, deviations and the
duration of the recent window are not computed. A critical section is one action, but for the second
one of `calculateStatistics`, which reads the atomic `_lastCalculationTime` twice while the other
mutex guards it: `PublishTime` and `PublishBins`. The test of that time before the first mutex is
`CheckInterval`, the section itself `Latch`. `reset`, `enable` and
`setNewTimeWindowForRecentResults` are one action per critical section (the window change goes
through them in the opposite order). The argument `currentTime` is its default. The getters and
`waitUntilAccumulatorsHaveBeenFlushed` change no state; what they can see is what the properties
say whenever `resultsMutex` is free. `lastCalculationTime` starts with an arbitrary value because
nothing sets it before the first calculation.

`published`, `forgotten` and `added` are history: what was put in bins since the last reset, the
samples before a reset that has finished, and how many samples there were.

### 2.4 StatisticsCollection

Extends `MonitoredQuantity` with the thread, `map_mutex_`, the stop flag and the destructor's join.
The quantities share nothing but the mutex, so one of them is modelled; it may be added at any time.
Adding the quantity, which the code does under the mutex in one assignment, is one action. The
thread that calls `reset` holds the mutex through the two sections of the quantity's reset. The
destructor called from within the thread itself, which skips the join, is not modelled.

Or there is no collection (`Alone`, `running = "none"`): then the clients call the quantity directly,
from any thread and without `map_mutex_`.

### 2.5 SharedMemorySegment and SharedMemoryFragmentManager

`SharedMemorySegment` has the kernel's side (what the key names, which segments are marked for
removal and which still exist) and `Attach` and `Detach`, one action per system call or access to the
segment's words: `ShmGet`, `ShmAt`, `OwnerInit` or `GetNewId`, then the detaching, and `Remove` for
the owner. A failed `shmat` leaves `(void*)-1` in `shm_ptr_`, which `IsValid` takes for a mapping, as
in the code. `Signal` may come at any point: the handler detaches the manager, restores the default
action and returns, and the process goes on where it was, with no mapping; a second signal of that kind
ends it, which is a kill. `Kill` ends a process without notice; `Restart` starts it again, and an owner that was killed finds its old
segment under the key and initialises it under the managers that are attached (`OwnerInit`).
`ResetAttachedCount` makes `next_id` 1 at any time. The owner gets no signals.

`SharedMemoryFragmentManager` adds `WriteFragment` and the two read functions: the test of the
segment and the reconnection, the wait for a buffer, the write, the publication; the reading of header
and data. `active_buffer_` is a variable that outlives each of them. A fragment in `Oversized` makes
`Write` throw. `WriteFragment` is called without overwrite, so its timeout ends nothing (line 48 waits
for as long as there is a segment). `abandoned` and `kills` are history: the ids with which processes were
killed, and how many kills and resets of the count there were. Bound: `MayKill`, a kill or a reset
counts as a segment, and does not come together with a signal. `acknowledged` and `received` are history too, and so is
`retired`, the segments whose owner was destructed: `AcknowledgedOnce` uses it to tell a fragment that was lost with its segment
from one that waits.

### 2.6 SharedMemoryEventReceiver

Two segments, each with its writer; each receiver's client calls `ReadyForRead`, `ReadHeader`,
`GetFragmentsByType` for all types and `ReleaseBuffer` in a loop. An event is a header and fragments; a
part holds the number of the event it belongs to, so a mixture shows. Every check, copy and move of the
read position in the shared buffer is a step. Which of the ready buffers `GetBufferForReading` returns is
arbitrary, but for the test against `last_seen_id_` of a broadcast. `Overwritten` names the
segments whose writer takes Full and Reading buffers.

### 2.7 QuickVec, Fragment, ContainerFragmentLoader, RawEvent

One sequential program: what is hard is that sizes, capacities, offsets, pointers and two kinds of
header have to agree through long sequences of calls.

* `QuickVec` has operators on a record of size, capacity and the words of the block; `block` counts
  allocations, so that a pointer into a block that was freed can be told from a live one. Words that
  nothing wrote are `Junk`.
* `Fragment` has the functions of a fragment as operators, and a program that calls them on two
  fragments. A header's first word is a record, the others are `Stamp`; sequence id, fragment id and
  timestamp are one field. `want` is the abstract value: type, id, metadata and payload, with
  `Junk` where the program was promised nothing. Headers of versions 0 and 1 are one version `old`, a word
  shorter than the current one. Every function that looks at an old header keeps the upgraded copy that
  `fragmentHeaderPtr()` makes (`Accessed`), the ones that only read included (`ReadFragment`), and so does a loader with what it
  is given. A program begins with old fragments it has received, which have theirs, or with copies of such, which have none yet.
* `ContainerFragmentLoader` has the reading functions of `ContainerFragment`, the functions of the loader
  as operators on a record (the fragment, `index_ptr_`, whether it threw, whether it used memory that
  is not its own), and the program that calls them. Offsets are in words, the metadata is one word
  that holds a record, an index entry is a word that holds an offset. `added` is what the
  container should hold. Growth in steps of 512, 2048, 4096 and 8192 words is `GrowthSteps`, scaled to
  fragments of three words. A list given to `addFragments` may be empty; one to a container without fragments makes
  the loader read `index[-1]`, and is left to `EmptyFirst`.
* `RawEvent` adds the event: `kept` and `given` are what the list and the results of
  `releaseProduct` should be; the loop of `releaseProduct(type)` is computed an iteration at a time.
  An event without fragments is not released: the loop tests for the end last (RawEvent.hh:313), and would dereference it.

### 2.8 BufferPositions

One buffer, a call per step, with sizes: `Write`, `IncrementWritePos`, `ResetWritePos`, `Read`,
`IncrementReadPos`, `ResetReadPos`, the acquiring and releasing calls and `Detach`, by any manager in any order that
the checks let through. A call that a check refuses with an exception is a `Detach`, since that is
what `checkBuffer_` does before it throws; that includes `IncrementWritePos(0)`, which moves, detaches
and throws. `author` (who wrote which byte), `finished` (its writer marked the buffer full) and `copied`
(where the last `Read` ended) are history. The code's size test adds two unsigned 64-bit numbers; a request so
large that the sum wraps is left out.

### 2.9 ReaderRoundRobin

Which reader gets which event. Taking a buffer and giving it back are one step each, there is one writer
that writes and publishes in one step, and the scan is the operator `Scanned`; what remains is exactly the
arithmetic: `IsNext` and `Skips` on unsigned sequence ids (a `last_seen_id_` smaller than `reader_count`
wraps, so that the reader takes any event), `reader_count` that a reader joins with its first call and leaves with
`Detach`, `last_seen_id_` that starts again with 0 when it attaches again, and the timeout that gives a
slow reader's event to another one. `stayed` is history: no reader has left or lost a buffer. Bounds:
`MaxEvents`, `MaxTimeouts`.

### 2.10 GenFile, ExceptionStackTrace, Utilities

`GenFile` has the loop of the constructor of the log destination, one action per kind of directive.
A pattern is a sequence of tokens (`%N`, `%?H`, `%%`, a dot, a host's name, ...), text is a sequence of letters, and so is what
a directive prints (`printed_as`), which may have a '%' in it and is searched again; `pos` is a `size_t` with 2^16 for 2^64.
`lead` letters are in front of the tokens: some where `configureMessageFacility` puts the program's name there, none where the
pattern is a configuration's own or the plugin's default. `Documented` is the reference: the directives of
the documentation, parsed from left to right. `InFront`, `NamedAhead` and `PlainTexts` say of a pattern, and of what it prints, where
the loop does something else; they are about the documentation's parse and not about the loop.

`ExceptionStackTrace` has the map of traces, one per thread, its mutex, and what a thread does between a
throw and the end of the handler: the replaced `__cxa_throw`, nested throws, exceptions that are handed to
another thread without a throw, `ExceptionHandler` and `print_stacktrace`, whose `at()` may throw itself. It is the
build with `USE_EXCEPTIONSTACKTRACE`. `Utilities` composes the two: one process, its log first, its threads
after it.

### 2.11 ManagerThreads

Threads that share manager objects: `ManagerOf` says which thread calls which, and the threads of two
managers meet in the segment as before. A mutex is a variable that names the thread that has it.

| Actions | Code (Core/SharedMemoryManager.cc) |
|---|---|
| `GetBufferForReading`, `Register` | the test of `registered_reader_` and the registration, both before the search mutex is taken |
| `LockSearch`, `ResetBuffer`, `LoadForReading`, `LoadForWriting`, `LoadToAsk`, `Reload`, `CasId`, `CasSem`, `CheckReading`, `CheckWriting`, `StoreSequenceId` | the searches, under `search_mutex_`; each visit of a buffer waits for that buffer's mutex (`ResetBuffer`) and then looks at it without |
| `Write`, `Read`, `MarkBufferFull`, `MarkBufferEmpty`, `LockForUse`, `CopyEnd`, `StoreSem`, `StoreId` | the uses of a buffer, under its mutex |

Abstractions: everybody stays attached, `buffer_timeout_us` is 0 and nobody overwrites, so that `ResetBuffer` takes
its mutex and changes nothing. The loads of one buffer in a scan are one step (`SharedMemoryManager` has them
apart). `reader_pos` and `writer_pos` may be any buffer. A check that fails ends in `detach`, where the
thread stays: `NobodyDetached` says that none does. `ReadReadyCount` and `WriteReadyCount` take the mutexes in the
order of `ReadyForRead`.

## 3. Runs

| Run | Instance | Properties | What it shows |
|---|---|---|---|
| `shm_contention` | 2 writers and 2 readers, of which manager 1 is both; one buffer, destructive, 3 ids; manager 0 may be killed, manager 1 detach at any point and drop its buffer; events may be addressed to manager 2 | `HolderOwns`, `PoolSpec`, `NoEventLost`, `DeliveredOnce` | every race for a buffer; the segment is a `BufferPool` |
| `shm_broadcast` | 1 writer (the owner), 1 slow reader, timeout, 2 buffers, 3 ids | `NewerThanSeen` | buffers are reset and filled again during the reader's scans, claims, copies and releases; it is given only what is newer than all it remembers, and remembers nothing newer than what it was given |
| `shm_overwrite` | 1 writer with overwrite, 2 readers, destructive, 2 buffers, 3 ids | `NoTornRead` | a clobbered reader learns it from the check after its copy |
| `shm_reader_crash` | 1 writer that also polls, 2 readers of which one may be killed, timeout, 2 buffers, fairness | `ReaderCrashRecovered` | a dead reader's buffer becomes Full again |
| `manager_threads` | 2 processes, one with 2 threads that write, one with 2 that read and ask; 2 buffers, both modes; 2 ids | `OneThreadPerBuffer`, `NobodyDetached`, `EventIdsDistinct`, `NoCircle` | what the search mutex is for: the segment does not tell the threads of a process apart; no circle of waiting for mutexes |
| `positions` | 2 managers, one of them the owner, which empties by force; broadcast mode; a buffer of 3 bytes, portions of 0, 1, 2 and 4 | `NothingLeftOver`, `OnlyFinished`, `PublishedStays` | what is published was finished by one writer and stays as it is, whatever order the calls come in |
| `round_robin` | 2 readers that may leave and come back, one of them slow; 3 buffers, 6 events, 1 timeout; fairness | `InTurn`, `EventuallyTaken`, `LoneReaderTakes` | the turns are kept while both stay and neither is a round behind; every event is taken; who is left alone takes all |
| `fragment_transfer` | a receiver that owns the segment and may be destructed, killed and started again, and reset the count; 2 senders of which one may get a signal; 1 buffer, 2 segments, 2 fragments of which the first does not fit, so that the second is written after the `Write` that threw; fairness | `IdsUniqueUndisturbed`, `NoBufferLost`, `AcknowledgedOnceUndisturbed`, `FragmentArrives`, `WriteEnds` | segments come and go under senders that attach, write, throw and end |
| `event_receiver` | 2 receivers; 1 data buffer and 1 event, 2 broadcast buffers and 2 Init events of 1 fragment; fairness | `InitOnce`, `NothingForgotten`, `FragmentsOfEvent`, `ReceiversKeepUp` | header and fragments are of one event, one Init event is handed on, every receiver gets on |
| `stats_collection` | the thread, 1 adder, 1 thread that calculates, resets, switches and changes the window between 1 and 2 bins; in a collection or alone; 2 samples, 3 intervals; fairness | `SampleOnce`, `WindowIsHistory`, `CollectedFresh`, `CollectedInOrder`, `NoSampleLost`, `SampleCounted`, `StopsOnRequest` | every interleaving of the critical sections, and what more holds because of `map_mutex_` |
| `event_data` | an old and a current fragment of 1 and 2 words, 5 calls of which the first 2 may be functions of fragments; an empty list and one of both; no container, or one of version 0 | `ContentsKept`, `ContainerHolds`, `NothingWild`, `EventKeeps` | within `~CopyOld`, `~MixedLists` and `~EmptyFirst`, contents survive every sequence of calls; the container can be read back after each, also from within the event |
| `utilities` | every pattern of up to 4 of 8 tokens, by itself or behind 2 letters; a host with and without a domain, whose name is also a token; a program and a time with and without a '%' in what is printed; 2 threads, 2 types of exception that both have thrown; fairness | `NameAsDocumented`, `LogOpens`, `ThrowsArrive` | the log has its documented name but for the patterns and texts among the known deviations; the loop ends, also where `pos` wraps, if nothing printed has a '%'; throws arrive, also while other threads print |

Why the instances are enough: the protocol treats managers and buffers alike but for the owner, id
0, and the order of the scan, and every race in it is between two managers on one buffer.
`shm_contention` puts two writers and two readers on one buffer, so that every pair of calls meets
there; what needs a second buffer is a scan that has two candidates, with stale ids, resets and
overwriting between them, and those runs have two. More of each adds no kind of
interleaving and is beyond what TLC explores in minutes; the theorems below have no such bounds.
`manager_threads` needs two threads in one search, against two of another process, with a buffer for each and an
event for each; the threads of a process are symmetric. Events that are addressed to a process, which another one
cannot take, are left to the theorems.
`positions` needs portions that fill a buffer exactly and by several steps, one that never fits, and 0; a second
manager is the one after the first that gave up. `round_robin` has as many events as bring both readers past the
unsigned wrap and round twice, in fewer buffers than events; a timeout takes one reader's turn away. With 3 buffers no
reader gets a round behind; with 4 buffers and 9 events one does, and `InTurn` was checked there too, without leaving
(4596 states); `InTurnAlways` is for any number of buffers.
`stats_collection` has two
calculators since one cannot overtake itself, two samples to lose one and keep one, and three
intervals so that a window of two bins goes round. `fragment_transfer` has one buffer since what goes
wrong with a number kept too long needs another user of the same buffer, two segments so that
each wait and each kept pointer meets a removal or a restart, and both senders constructed before an id is given
out (`MaxIds` 1 bounds later constructions). `event_receiver` has two broadcasts so that one
can be skipped, and one data event to go between. In `event_data` five calls open a container,
add to it, let it grow twice and resize what was added, or put it into an event and release it; capacity
steps at 6, 11 and 17 words are crossed by one, two and three fragments. Its two
types are symmetric; its properties are invariants. In `utilities` a directive can be read wrongly because
of the text before and after it, so four tokens are one more than a pair with a neighbour on each side of the join;
with no letter in front `pos` wraps at the first directive, with two it does not; the
threads do not act before the log is open, so that patterns and exceptions are explored one after the other.

`CHECK_DEADLOCK FALSE` stands where the system really stops: the ids, the events or the samples of the instance are
used up, every process is detached or killed, the clock of the instance has reached its end, or the
program of `event_data` has made its calls.

### Known deviations

What follows fails in the model because it fails in the code. The constants named make the run or module show it;
properties in the left column that no run checks are stated in the modules for this purpose.

| Property, module | Fails with | Why; what the source says |
|---|---|---|
| `HolderOwns`, SharedMemoryManager | `BufferTimeout`, slow readers | `ResetBuffer` tests age, state and owner and then stores, and the buffer may have been released and taken again in between. A buffer that the owner empties under a slow reader and fills again becomes Full in the middle of the writing, when the reader releases it. |
| `NewerThanSeen`, SharedMemoryManager; `ChosenInOrder`, BroadcastOrder | one buffer, `Writers {0,1}`, `Readers {2}`, `Overwrite`, `MaxSeq 3` | `++next_sequence_id` again: an id lower than one already published replaces it, and the reader loads the id again after its test (SharedMemoryManager.cc:358-362) |
| `HighestIsKnown`, SharedMemoryManager; each broadcast is met once and in order | the constants of `shm_broadcast` | the reader loads the id of its candidate (SharedMemoryManager.cc:360) and then claims the buffer, whatever is in it by then: event 3 may have taken the place of event 1. It reads event 3, remembers 1 (SharedMemoryManager.cc:409), and is given event 2 and then event 3 again; "Gets the highest buffer number either written or read by this SharedMemoryManager" (SharedMemoryManager.hh:332) |
| `NoTornRead`, SharedMemoryManager | broadcast with overwrite; timeout with overwrite, also with a killed reader; two writers; a reader in `Forcers` | the late `MarkBufferEmpty` of a reader that was clobbered (SharedMemoryManager.cc:999-1020) opens the buffer under its writer |
| `ReleasedIsWritable` | one buffer, `Writers {0}`, `Readers {1,2}`, `MaxSeq 2`, the other constants of `shm_overwrite` without `Overwrite`, `FairSpec`; also two writers; with overwrite all buffers get stuck | the reader that comes second wins the compare-exchange on `sem_id` after the first has released the buffer, loses the one on `sem` (SharedMemoryManager.cc:389), and leaves its id on an Empty buffer, which no writer takes; with two writers a published buffer keeps the second one's id and is never read; "marking it Empty and ready to accept more data" (SharedMemoryManager.hh:184) |
| `WriterCrashRecovered` | one buffer, `Writers {0,1}`, `Readers {2}`, `BufferTimeout`, `Pollers {0}`, `Crashers {1}`, `MaxSeq 2`, `FairSpec` | `ResetBuffer` has no case for Writing (SharedMemoryManager.cc:1083); buffer_timeout_us is "The maximum amount of time a buffer can be left untouched by its owner" (SharedMemoryManager.hh:60) |
| `EveryBufferCounted` | two buffers, `Writers {0,1}`, `Readers {2}`, `MaxSeq 2` | `++next_sequence_id` (SharedMemoryManager.cc:473) is a load and a store, and two events get one id; "Gets the number of buffers which have been processed" (SharedMemoryManager.hh:326) |
| `OneThreadPerBuffer`, `NobodyDetached`, ManagerThreads | one manager that both writes and reads (`Threads = {w1, r1}`, one buffer) | `MarkBufferFull` stores the state before the owner (SharedMemoryManager.cc:977-981), and a buffer that is Full and its own is readable for the other thread (SharedMemoryManager.cc:335); the store of the owner then takes it away from that thread, whose next call detaches the process |
| `EventIdsDistinct`, ManagerThreads | writers in two processes | as `EveryBufferCounted`: the search mutex is a process's own (SharedMemoryManager.cc:473) |
| a process is counted once in `reader_count` | two threads that read | both may find `registered_reader_` false before either takes the search mutex (SharedMemoryManager.cc:302-306), and every turn of the round robin is one too far apart |
| every reader meets every broadcast | two readers | a reader that meets a later event first, because another one has the earlier in state Reading or it is not Full yet, sets `last_seen_id_` past it (SharedMemoryManager.cc:335, 409). `ReceiversKeepUp` is what holds. |
| `EventuallyTaken`, ReaderRoundRobin | a third reader that joins, or `Killed` not empty | only `Detach` decrements `reader_count` (SharedMemoryManager.cc:1363); with last events 3, 5 and 6 of three readers, events 7 and 8 are nobody's turn (SharedMemoryManager.cc:366-369); "Finds a buffer that is ready to be read" (SharedMemoryManager.hh:77) |
| `InTurn` without `~leftBehind'`, ReaderRoundRobin | 4 buffers, 9 events, nobody leaves | a reader that finds an event a whole round older than its last one takes it, as the code means it to: "SeqID is not "left behind" (from at least previous RR)" (SharedMemoryManager.cc:368); the reader whose turn it was then finds its next event gone and takes one of a later round (SharedMemoryManager.cc:369) |
| `LowestIsLowest`, ReaderRoundRobin | two readers | the reader that had the lowest id replaces it by its own next one (SharedMemoryManager.cc:407); "Gets the lowest sequence ID that has been read by any reader" (SharedMemoryManager.hh:338) |
| `ReadsWhatExists`, BufferPositions | the constants of `positions` | `Read` compares with the size of the buffer (SharedMemoryManager.cc:1195) and not with what was written; its message is "Attempted to read more data than exists in Shared Memory!" (SharedMemoryManager.cc:1199) |
| `OnlyFinished`, BufferPositions | `Forcers = {two}` | a forced `MarkBufferEmpty` by neither owner nor holder makes the buffer Full; "Force buffer to empty state (only if manager_id_ == 0)" (SharedMemoryManager.hh:186) |
| `IdsUnique`, SharedMemoryFragmentManager | `CountResetters` or `Killed` has the owner | `next_id` is 1 again under those attached (SharedMemoryManager.hh:218, SharedMemoryManager.cc:231); "Assign a new ID" (SharedMemoryManager.hh:200) |
| `AcknowledgedOnce` | `Killed` has the owner | a restart initialises buffers that senders were told are delivered (SharedMemoryManager.cc:231). `FragmentArrives` excepts the fragments that are published then. |
| an acknowledged fragment is read to the end | `Destructed` has the owner | the owner's destructor removes the segment with what is published in it (SharedMemoryManager.cc:1383), and a sender that has tested the segment before (SharedMemoryFragmentManager.cc:26, 50) writes into it after the removal and returns 0 (SharedMemoryFragmentManager.cc:78-80): "0 on success" (SharedMemoryFragmentManager.hh:38). `AcknowledgedOnce` allows for it by `retired`. |
| `ReadyIsReserved` | `Oversized = {1}`, `Destructed = {receiver}` | a fragment that does not fit makes `Write` throw and detach; `active_buffer_` stays (SharedMemoryFragmentManager.cc:15), so that after the reconnection `ReadyForWrite` answers true without reserving anything; "Check if a buffer is ready for writing, and if so, reserves it for use" (SharedMemoryFragmentManager.hh:65) |
| `SignalEnds` | `Signalled = {one}`, `FairSpec`, no kills | the handler restores the old action and returns (SharedMemoryManager.cc:68), and the process goes on; "then proceeding with default handlers!" (SharedMemoryManager.cc:45) |
| `FragmentsOfEvent`, SharedMemoryEventReceiver | `Overwritten` not empty | `writePos` is reset between the check and the loop, which then ends with no fragments and no error; the result of `Read` (SharedMemoryEventReceiver.cc:169) is ignored |
| `FreshStart`, `DurationsReal`, `EndTimesInOrder`, MonitoredQuantity | a quantity that is `Alone` | a direct `reset()` between the two sections of a calculation is followed by samples from before it; in a collection `CollectedFresh` and `CollectedInOrder` hold |
| `ContentsKept`, Fragment | `CopyOld` | a fragment with an old header keeps its current header apart from its words: every function that looks at the header stores the upgraded one (Fragment.hh:1213-1233), also `dataSize()` and `reserve`. A copy loses what was changed since, and `swap` exchanges the words and leaves the headers (Fragment.hh:1154), so that an old fragment that was only read is swapped with the size, type and ids of another; "Swaps two Fragment objects" (Fragment.hh:660). A container takes the words, too. |
| `NothingWild`, `ContainerHolds` | `EmptyFirst`; a small `CountLimit` | `addFragments` with an empty list, on a container without fragments, reads `index[-1]` and copies the index to the offset it finds there (ContainerFragmentLoader.hh:232-233, 335-336); so it does when `block_count` is 0 again |
| `ResizeFilled`, QuickVec | every mode | `resize(sz, val)` compares with the size it has just set, and does not write `val`: "Initialize new elements (if any) with val" (Fragment.hh:433). What such a resize brings in is `Junk` in `want`, so that `ContentsKept` says nothing of it. |
| `ContainerHolds` | `MixedLists`; a small `CountLimit` | `addFragments` that meets a wrong type after a right one has already copied the right one over the index; `block_count` has 16 bits |
| `ReadBackSizes` | `Versions <- BothCurrent`, `MaxPayload 1`, `MaxOps 2`, `MaxChanges 0`, `Garbage {0,1}` | `appendFragment` copies a header (ContainerFragmentLoader.hh:251) whose `metadata_word_count` it has not set: read back, the payload is shorter by whatever the stack held; the test requires `outfrag->dataSize()` of 4 (test/Data/ContainerFragment_t.cc:312) |
| `ThrowsArrive` | `HasThrown = {main}` | `at()` (ExceptionStackTrace.hh:193) throws with the mutex held, and the replaced `__cxa_throw` waits for it in the same thread; "Produces a stack trace summary" (ExceptionStackTrace.hh:186) |
| the printed trace is that of the exception handled | two threads, or a nested throw | there is one trace per thread, the last (ExceptionStackTrace.hh:182); "Print the Exception Stack Trace" (ExceptionHandler.cc:15) |
| `NameAsDocumented` without `NamedAhead` | the constants of `utilities` | `%?N` and `%?H` search the whole pattern, what is still to be parsed too (GenFile_mfPlugin.cc:185, 201): "%?H-work.log" on host work becomes "-work.log"; "only if it does not already appear in the parsed format. Format is parsed left-to-right." (GenFile_mfPlugin.cc:52) |
| `LogOpens` without `PlainTexts` | the constants of `utilities` | the loop goes back over the text it has written (GenFile_mfPlugin.cc:224-241): a program with "%N" in its name, or the timestamp_pattern "%%t", which strftime prints as "%t", is expanded for ever. Another '%' that is printed is expanded once more, and `NameAsDocumented` fails without `~PlainTexts`. |
| `NameAsDocumented` without `InFront`; without its `%%` | the constants of `utilities`; also the host `db.fnal` | `pos` wraps in front of the pattern and only `%N` is expanded (GenFile_mfPlugin.cc:225), as in the default "%N-%?H%t-%p.log" (GenFile_mfPlugin.cc:47); the percent sign that is left is found again (GenFile_mfPlugin.cc:178, documented at GenFile_mfPlugin.cc:50); a host's name of fewer than three letters keeps its domain (GenFile_mfPlugin.cc:147, documented at GenFile_mfPlugin.cc:54) |

### Fairness

* `FairSpec` (shared memory): weak fairness of `Step(p)` for every manager, since a process that is
  not killed goes on with its call (a killed one has no enabled step); weak fairness of the clients'
  copies, publications, releases and of their looking for buffers, since the clients of this library
  poll in loops; weak fairness of `Expire`, since time passes. No step is strongly fair.
* `FairSpec` (fragment manager): weak fairness of each manager's `Step`, so that a call that can go on
  does, and of the receivers' `ReadFragmentHeader`, since receivers poll. Nothing is assumed of
  senders starting a call, of constructions, destructions, signals or kills. `RestartSpec`, which the run
  uses, adds that an owner that was killed is started again and constructs its manager, as a supervisor
  of the data acquisition does; without it nobody reads what was published, and a sender waits for a buffer.
* `FairSpec` (round robin): weak fairness of what a living reader does, of the timeout's resets, and of
  attaching again for readers that do not leave. Nothing is assumed of the writer, of leaving or of coming back.
* `FairSpec` (event receiver): weak fairness of each receiver's `Step`, which includes its client's next
  call. Nothing is assumed of the writers.
* `CollectionSpec`: weak fairness of the threads' steps, of the clock, of the thread's loop and of
  the join; strong fairness of `LockMap`, since clients take the mutex between the thread's attempts
  and a `std::mutex` that is free again and again is got in the end.
* `FairSpec` (utilities): weak fairness of the constructor's loop and of a thread that prints; strong
  fairness of `Catch`, which takes the mutex, for the same reason.

## 4. Proofs

| Theorem | Module | Says | Assumes beyond the constants' types |
|---|---|---|---|
| `TypeCorrect` | SharedMemoryManagerProofs | `Spec => []TypeOK` | nothing: every mode |
| `LockInvariant` | SharedMemoryManagerProofs | `Spec => []LockInv` | `NothingTaken` |
| `HolderOwnsAlways` | SharedMemoryManagerProofs | `Spec => []HolderOwns` | `NothingTaken` |
| `PublishedHasDataAlways` | SharedMemoryManagerProofs | `Spec => []PublishedHasData` | `NothingTaken` |
| `DeliveredOnceAlways` | SharedMemoryManagerProofs | `Spec => DeliveredOnce` | `NothingTaken`, `Destructive` |
| `NoEventLostAlways` | SharedMemoryManagerProofs | `Spec => NoEventLost` | `NothingTaken`, `Destructive` |
| `NewerThanSeenAlways` | SharedMemoryManagerProofs | `Spec => NewerThanSeen` | `OneWriter`, `~Destructive` |
| `ChosenInOrderAlways` | SharedMemoryManagerProofs | `OrderSpec => ChosenInOrder` | `OneWriter`, `~Destructive` |
| `NoTornReadAlways` | SharedMemoryManagerProofs | `Spec => []NoTornRead` | `NobodyRepublishes` |
| `ImplementsBufferPool` | SharedMemoryManagerProofs | `Spec => PoolSpec` | `NothingTaken` |
| `TypeCorrect` | ManagerThreadsProofs | `Spec => []TypeOK` | nothing |
| `EventIdsDistinctAlways` | ManagerThreadsProofs | `Spec => []EventIdsDistinct` | `OneWritingManager` |
| `OneThreadPerBufferAlways`, `NobodyDetachedAlways` | ManagerThreadsProofs | `Spec => []OneThreadPerBuffer`, `Spec => []NobodyDetached` | `SeparateRoles` |
| `NobodyWaitsInCircle` | ManagerThreadsProofs | `Spec => [](ShortWaits /\ SomebodyFree)` | `SeparateRoles` |
| `PositionsSafe` | BufferPositionsProofs | `Spec => [](TypeOK /\ WriteInside /\ NothingLeftOver)` | nothing |
| `OnlyFinishedHolds` | BufferPositionsProofs | `Spec => []OnlyFinished` | `Forcers \subseteq {Owner}` |
| `PublishedStaysHolds` | BufferPositionsProofs | `Spec => PublishedStays` | nothing |
| `NoBufferLostHolds` | SharedMemoryFragmentManagerProofs | `Spec => []NoBufferLost` | nothing |
| `IdsUniqueHolds`, `IdsUniqueUndisturbedHolds` | SharedMemoryFragmentManagerProofs | `Spec => []IdsUnique` and the weaker one of the run | `OneLivingOwner` |
| `AcknowledgedOnceHolds`, `AcknowledgedOnceUndisturbedHolds` | SharedMemoryFragmentManagerProofs | `Spec => []AcknowledgedOnce` and the weaker one of the run | `OneLivingOwner`, `OwnerDoesNotSend` |
| `NothingRemoved` | SharedMemoryFragmentManagerProofs | `Spec => [](removed = {})` | `OneLivingOwner`, `OwnerDoesNotSend`, `Destructed` without the owner |
| `TypeCorrect` | ReaderRoundRobinProofs | `Spec => []TypeOK`, and `reader_count` is the number of registered readers | nothing |
| `InTurnAlways` | ReaderRoundRobinProofs | `Spec => InTurn` | `TwoReaders` |
| `TypeCorrect` | SharedMemoryEventReceiverProofs | `Spec => []TypeOK` | `NothingOverwritten` |
| `NothingIsForgotten`, `FragmentsAreOfEvent`, `OneInit` | SharedMemoryEventReceiverProofs | `Spec => []` of `NothingForgotten`, `FragmentsOfEvent`, `InitOnce` | `NothingOverwritten` |
| `TypeCorrect` | MonitoredQuantityProofs | `Spec => []TypeOK` | nothing |
| `CountInvariant`, `SampleOnceAlways` | MonitoredQuantityProofs | `Spec => []CountInv`, `Spec => []SampleOnce` | nothing |
| `NoSampleLostAlways` | MonitoredQuantityProofs | `Spec => NoSampleLost` | nothing |
| `WindowIsHistoryAlways` | MonitoredQuantityProofs | `Spec => []WindowIsHistory` | nothing |
| `CollectionCounts` | MonitoredQuantityProofs | `CollectionSpec => [](SampleOnce /\ WindowIsHistory)` | nothing |
| `CollectedFreshAlways`, `CollectedInOrderAlways` | MonitoredQuantityProofs | `CollectionSpec => []CollectedFresh`, `CollectionSpec => []CollectedInOrder` | nothing |
| `FragmentsKeepContents` | RawEventProofs | `Spec => []ContentsKept` | `~CopyOld`: an old fragment is not copied after its header was changed, nor swapped after it was looked at |
| `EventKeepsFragments` | RawEventProofs | `Spec /\ []ContainerHolds => []EventKeeps` | `~CopyOld` |
| `ContainersHold`, `LoaderNeverWild` | RawEventProofs | `Spec => []` of `ContainerHolds`, `NothingWild` | `~CopyOld`, `~MixedLists`, `~EmptyFirst`, `NeverFull` |
| `EventKeepsAll` | RawEventProofs | `Spec => []EventKeeps` | `~CopyOld`, `~MixedLists`, `~EmptyFirst`, `NeverFull` |

`NothingTaken == ~Overwrite /\ ~BufferTimeout /\ Owner \notin Forcers` is the mode in which ownership
can be relied on at all (see above). Crashes, detaches and signals at any point, directed buffers and
forced releases by holders are all included.

`OneLivingOwner`: one owner, which is not killed and does not call `ResetAttachedCount`. The run also kills
the owner and resets the count, and checks the properties for the time before either happens; the theorems
hold for the whole of each behaviour in which neither may happen, and for any number of kills of the others.

*The argument for the buffers.* `HolderOwns` is not inductive: it says nothing of a manager in the
middle of a call. `LockInv` adds what each point of a call knows of its buffer (`OwnInv`: from the
first compare-exchange on the buffer is the manager's, from the second on its state is the target
state, while it is released its state is already given up and its owner not yet), what is true of
every buffer (`EventInv`: a buffer in use has an owner, one that is Full or Reading has data and was
given to nobody or to its reader), and that no call is at a point that only a reset reaches. The proof rests on
one lemma, `LocalStep`: a step of `p` changes only buffers that `p` owns or nobody owns, and only `p`'s
own frame. Hence whatever the invariant says of another manager's buffer is left alone, and each
action has to be checked for its own manager and its own buffer only. `TypeCorrect` is proved first
and separately, in all modes.

`NobodyRepublishes == OneWriter /\ Destructive /\ ~BufferTimeout /\ Forcers \subseteq {Owner}` is the mode in which
a clobbered reader learns it. Overwriting, detaches at any point and kills are included. None of the four can be
dropped. TLC finds `NoTornRead` violated with a second writer, which takes the buffer that a clobbered reader has made Empty
under the first; in broadcast mode, where the late release of the clobbered reader makes Full the buffer that the
writer is copying into; with a timeout, where the late stores of `ResetBuffer` do; and with a forced release by a
reader. `OneWriter` says that at most one manager writes; with two on one buffer that is overwritten, TLC finds
`NewerThanSeen` violated: `next_sequence_id` is stored back (`EveryBufferCounted` above), and the event that a reader has
chosen is replaced by an older one before it reads the id again. Broadcast order needs `OneWriter` and nothing else: not that
buffers are left with their owners.

*The argument for the order of broadcasts.* `OrderInv`: the id of a buffer is at most `next_sequence_id`
(`IdsInv`); the writer that is about to store `next_sequence_id` stores one more than what is there, so that ids only
grow (`NumberInv`); and the candidate of a reader's scan has an id greater than `last_seen_id_`, and its buffer at least
that id, whatever was written there since (`CandidateInv`). So the id that the reader loads again and stores as its last is
a new one, and what it is given is at least as new. `MetInv` adds that nothing it was given as chosen is newer than its last:
`last_seen_id_` only grows (`LastSeenGrows`). The states of the buffers do not matter, hence neither do timeouts, overwriting
and kills. What the theorem leaves open is what the code leaves open: an event that replaced the chosen one is newer than
`last_seen_id_`, and may be given once more.

*The argument for torn reads.* A reader that passes the check after its copy finds the buffer Reading and its own. The
proof is that the writer cannot be copying then: `WritingInv` says that a buffer the writer has taken is Writing or,
if the reader it was taken from has released it since, Empty. It is never Full again before the writer is done, since no
compare-exchange of a reader succeeds on those states and nobody stores Full (`RoleInv`); a reader's store of Empty is all the harm a late
release does.

*The refinement.* `LockInv` is enough: each action is a pool step of its manager (`CasSem` is the
claim, `MarkBufferFull` and `ReleaseStoreSem` the release, `DetachStoreSem` the giving back) or
leaves `sem` and, while the state is in use, `sem_id` as they are.

*The argument for the threads.* `OneWritingManager`: all threads that write call one manager. `SeparateRoles`: no
manager has both a thread that writes and one that reads; without it the property fails (see above). `BufferInv` says that a
thread that has a buffer, uses it or gives it back finds its manager on it in the right state (`OwnedInv`), that no other thread has
it (`AloneInv`), and that none of the same process has what a search has its eye on (`CandidateInv`): it is
this that the owner on the buffer does not tell. In broadcast mode a reader could take
again what another thread of its process is giving back; that it does not is `SeenInv`: such an event is not beyond
`last_seen_id_`, which only goes up. Every action is one of a few kinds of change to the buffers (`Effect`), and the parts of the
invariant are shown for each kind. For the ids, `SearchInv` (who searches has the search mutex) makes the load and the
store of `next_sequence_id` one: nobody else of the manager is between them.

*The argument for the waiting.* `NoCircle` says that in each process with an unfinished call a step is enabled; ENABLED is
beyond the prover, so the theorem has it written out: `Free(t)` lists the points and mutexes at which `t` can step, and TLC
confirmed on the run's instance that it equals ENABLED. `MutexInv` says who has which mutex at which point, and
that a thread at work on a buffer is in no search. A search waits for threads at work on a buffer, a call for one of these or a search;
those at work wait for nobody.

*The argument for the positions.* `NothingLeftOver` speaks of published buffers only. `OneAuthor` says it of
the bytes in front of `writePos` in every state, and that while somebody writes they are that manager's; a
writer starts at 0, so what another one left is behind the position. With types and `WriteInside` it is
inductive. `PublishedStays` is a matter of the states in which a position moves.

*The argument for the ids.* `IdsInv`: a segment that is ready has `next_id` of 1 or more; a manager other than the
owner has an id only while it is attached to a segment that is ready, and its id is below `next_id`; two of
them on one segment differ. What makes it inductive is `OwnerKeeps`: the owner is attached to what the key
names or is on its way there, and initialises only a segment that is not ready, so that `next_id` never goes back under
anybody.

*The argument for lost buffers.* `HoldInv`: every buffer in use is held by a manager that is attached and whose
`active_buffer_` it is, or its id was abandoned. A detaching manager gives back everything with its id, which may be
more than its own if ids are shared: giving back too much loses nothing.

*The argument for delivery.* `DeliveryInv` counts each fragment: what is published was acknowledged, is in one
place and is not received (`Once`); no two senders have one fragment, and none that is acknowledged (`InFlight`);
a segment is empty until it is ready (`Unused`); a call finds its manager settled and the buffer it fills or
reads its own (`Settled`, `Working`). The last needs that ids differ, so `IdsInv` and `HoldInv` are part of the
invariant. `RemovedInv` adds what becomes of the segment: what is removed, or about to be, has had its owner
destructed. An owner that sends could remove it otherwise: a `Write` that does not fit throws, and `checkBuffer_` detaches first
(`OwnerDoesNotSend`). `NothingRemoved` is the case in which the owner is not destructed: then an acknowledged fragment that was
not read is still in a segment that receivers attach to.

*The argument for the samples.* `SampleOnce` says that the working values, the locals of each
calculation and the full results are disjoint. It needs that new samples are new (all sets are within
`1 .. added`) and that a call has samples in its locals only between its two sections; with these it is
`CountInv`, which is inductive.

*The argument for the window.* `WindowInv` says of the k-th bin from the working one which calculation it holds
(`Rank`), also while the mutex is held. A calculation writes the oldest bin and moves the working bin past
it: the k-th bin after it is the one that was k+1-th before, and the last one is new. What this needs of the
modulus is in the lemmas `GoesRound` and `BinAt`. A reset and a change of the window empty the bins and
start the count of calculations again.

*The argument for the collection.* A quantity `Alone` has none of `CollectedFresh` and `CollectedInOrder`. In a
collection `Separate` holds: calculations and resets are made by whoever has `map_mutex_`, one after the other
(`Exclusive`); what was added before a reset is in neither the working values nor a calculation's locals
(`Forgotten`); a calculation's interval lies between the last latched time and now (`Times`); and the bins, from the
oldest filled to the newest, end at increasing times, the newest at the last calculation (`EndTimes`). That a collection's steps
are steps of the quantity (`CollectionRefines`) carries the theorems of the quantity over.

*The argument for the event receiver.* `NothingOverwritten` says that the writers of both segments take Empty buffers
only. Then from `ReadyForRead` to `ReleaseBuffer` every check of a receiver finds the buffer its own (`CallInv`); what it
has collected are as many fragments of its event as lie in front of the read position (`ReadInv`); and what it
handed on are broadcasts in order, none beyond the last seen, with an Init event only if `initialized_` is set
(`HandedInv`). `BufferInv` ties the memory of a published buffer to one event, `WriterInv` what is written so far.

*The argument for the turns.* `TwoReaders`: with more, `EventuallyTaken` already fails (see above). `Turns` says
what is left to take (the events that are Full or not written yet) as a function of the last events of the two: while
both have taken at most event 1, all after the last; once one has its turn, every other event after its last,
and of the others all from some event on that is later than what the other one has; once both have, the turns
differ in parity and each finds all of its own after its last. So the event two after a reader's last is there when
the scan offers a later one, and the scan would have offered it. The reader that has registered without an event,
or not at all, is the case in which all after the last event of the other is left. `EventsInv` (no event in two buffers)
is what makes the scan's stop unique. The proof of types found that a reader both slow and killed was
counted beyond the bound on timeouts in the model, which was corrected.

*The argument for the event's data.* `ContentsKept` compares a value with what was promised; it does not say that the words of a
header are still where they are looked for. `Keeps` says of one fragment what `FragmentInv` says of all: its array is
allocated and as long as its capacity; its first word is a header, of the version that its upgraded copy goes with; the words of a
current header are there; and header, metadata and payload are those of the value. For each function of a fragment a
lemma says that it takes a fragment that keeps a value to one that keeps the value as the program expects it (`ResizeKeeps`,
`SetMetadataKeeps`, `CopyKeeps`, ...); these rest on one lemma for each function of `QuickVec`, which says
which words it keeps and where (`ResizeHas`, `InsertHas`, `PushAllHas`, ...). Capacity, growth steps and cushion are arbitrary.
That the upgraded header is kept by what only looks at it keeps the value, too (`AccessedKeeps`); it is why a swap needs fragments that
nobody has looked at. A copy is made of the words alone, so it keeps the value only if the header in the words is current or says what the
copy of the header says: that is why `~CopyOld`.

*The argument for the event.* `EventInv` pairs the list with what was inserted, and the results with what was asked for. The loop of
`releaseProduct(type)` keeps, after each iteration, three sequences paired with what they should be: what it has passed, what
it has taken out, and what is still in front of it (`ReleasedPaired`). Induction over the iterations
is the lemma `Induction`, which follows from the well-foundedness of the numbers (`WellFoundedInduction`) and is about sets of
numbers, since a library theorem with an operator parameter cannot be used. From it also follows that the recursive functions
exist (`ReleasingExists`, `PushingExists`).

*The argument for the container.* That a container can be read back does not tell the next function of the loader where
to write. `Loaded` says how a container is laid out between two functions: the payload begins with the words of the
fragments, one after the other (`Filled`, with `Cuts` for where each ends and `Blocks` for its words); each begins with a header that
counts them (`Headed`), which is what `create_index_` relies on; the index and the magic word follow the last of them
within the payload (`Indexed`); and the loader's pointer is to that index, unless there is no fragment yet. `Made` adds that
these are the fragments promised, and `ContainerInv` that a container is `Made` while there is a loader on it, and reads as
it should when there is none. Every function is a resize, some writes and the end that makes the index again, so there is
one lemma for making room, which moves the block and finds the pointer again, one for writing over the old index, and one
for `Reindex`, from which `AddFragmentMakes`, `AddFragmentsMakes`, `AppendFragmentMakes`, `FillLastMakes` and
`ResizeLastMakes` follow. Where one throws, because of a type, the container may have grown and is
`Loaded` with the same fragments; that none throws because the index is not found
is part of what is proved (`MakeRoomHas`). A container of version 0, which has no loader, keeps its ends in its metadata (`Version0Reads`).
`FragmentInv` is part of the invariant: what is put in is a fragment whose header counts its words.

The hypotheses are those of the known deviations above, and the run is within them. `~MixedLists`: `addFragments` that stops at a
wrong type has already written over the index. `~EmptyFirst`: an empty list is given only to a container
that has a fragment. `NeverFull`: there is a number of fragments that no list exceeds and that,
times the number of calls of a behaviour, is less than `CountLimit`; with more, `block_count` starts again at 0. Nothing in the
code keeps a program from any of them.

The inductive invariants were checked with TLC on the runs' instances before they were proved, but for
`ContainerInv`, which TLC cannot evaluate (`LoadedWith` says that there is a payload and a layout, of any length); the runs
check what follows from them.

Only model-checked: liveness (the prover has no rule for fairness); `NoCircle`, which is about what is enabled
(`NobodyWaitsInCircle` is what is proved of it); what the buffer timeout does; and the properties of the utilities. Every other
safety property of the runs is a theorem. `EventKeepsFragments` has `[]ContainerHolds` as a premise in place of the three
hypotheses about the loader that `EventKeepsAll` has.

## 5. Plan

Done, in this order: `SharedMemoryManager`, its type proof, `LockInv` and its consequences,
`BufferPool` and the refinement; `MonitoredQuantity` and its proofs; `StatisticsCollection`; the round robin
test; `SharedMemorySegment`, `SharedMemoryFragmentManager` and `SharedMemoryEventReceiver`; `QuickVec`,
`Fragment`, `ContainerFragmentLoader` and `RawEvent`; `BufferPositions` and its proofs; `ReaderRoundRobin`; signals,
kills, restarts and resets of the count in `SharedMemorySegment`, and the proofs about ids, buffers and delivery;
`GenFile`, `ExceptionStackTrace` and `Utilities`; `ManagerThreads` and its proofs; the proofs about the event
receiver, the collection, the order of broadcasts, torn reads and the turns;
the lemmas on `QuickVec` and `Fragment`, and the proofs about contents, the event and the waiting of threads; the
lemmas on the layout of a container, and the proofs about the loader.

Left, most important first:

1. `WriteFragment` with overwrite and its limit on loops; selection by type in the event receiver.
2. `Attach` and `Detach` under other threads of the process, and timeouts with threads.

## 6. Not modelled

File lookup, clock conversions, plugins and factories, build information and dictionaries: they format, do I/O
or hold constants. Of the message facility, the text of its configuration, the directories it makes and the trace
settings: text, environment and I/O. Of the exceptions, the text of the traces.

The signal handler's walk over the list of instances while it changes is outside these models: it is a data race on
a `std::list`, for which the build gives no outcomes to choose from. So is `Attach` or `Detach` of one thread
while others of the process are in a call: it replaces the mutexes that they hold. `ManagerThreads` has neither
timeouts nor overwriting. All of these are among the hazards.
