--------------------------- MODULE ManagerThreads ---------------------------
(***************************************************************************)
(* Several threads of a process call one SharedMemoryManager object.  Its  *)
(* search_mutex_ keeps their searches apart, buffer_mutexes_ what they do  *)
(* to one buffer, and a search takes the mutex of every buffer it visits.  *)
(* Between managers, that is processes, there are only the atomics in the  *)
(* segment; and the owner that they name is a manager, never a thread.     *)
(*                                                                         *)
(* Everybody stays attached, buffer_timeout_us is 0 and nobody overwrites, *)
(* so that ResetBuffer takes its mutex and changes nothing.  What a search *)
(* loads from one buffer is one step: SharedMemoryManager has it apart.    *)
(***************************************************************************)
EXTENDS Integers

CONSTANTS
    Threads, NoThread,
    ManagerOf,          \* the manager that a thread calls
    Producers, Consumers, Pollers,  \* the threads that write, read, ask for events
    NumBuffers,
    Destinations,       \* the arguments of MarkBufferFull
    MaxRetry,           \* rescans of one GetBufferForReading (the code makes 4)
    MaxSeq              \* bound: no write starts once this many ids were given out

NoOne == -1
NoBuffer == -1
Buffers == 0 .. (NumBuffers - 1)
Managers == {ManagerOf[t] : t \in Threads}

ASSUME ThreadsAssumption ==
    /\ NoThread \notin Threads
    /\ ManagerOf \in [Threads -> Nat]
    /\ Producers \subseteq Threads /\ Consumers \subseteq Threads /\ Pollers \subseteq Threads
ASSUME BuffersAssumption ==
    /\ NumBuffers \in Nat \ {0} /\ MaxRetry \in Nat /\ MaxSeq \in Nat
    /\ Destinations \subseteq Managers \cup {NoOne}

VARIABLES
    \* in the segment
    destructive_read_mode, sem, sem_id, sequence_id, next_sequence_id, reader_count,
    \* in each manager
    search_mutex, buffer_mutexes,   \* the thread that has it, or NoThread
    registered_reader, last_seen_id,
    \* of each thread
    frame,              \* the call it is in
    writing, reading    \* the buffer its client was given, or NoBuffer

segment == <<destructive_read_mode, sem, sem_id, sequence_id, next_sequence_id, reader_count>>
mutexes == <<search_mutex, buffer_mutexes>>
managers == <<registered_reader, last_seen_id>>
clients == <<writing, reading>>
vars == <<segment, mutexes, managers, frame, clients>>

Searches == {"GetBufferForReading", "GetBufferForWriting", "ReadyForRead"}
Uses == {"Write", "Read", "MarkBufferFull", "MarkBufferEmpty"}
Points == {"idle", "register", "search", "scan", "load", "reload", "cas_id", "cas_sem",
           "check", "store_seq", "lock", "copy", "store_sem", "store_id", "detach"}

Frames ==
    [call : Searches \cup Uses \cup {"none"}, pc : Points,
     pos : Buffers, ii : Nat,           \* where the scan began, and the loop counter
     buf : Buffers \cup {NoBuffer},     \* the candidate, or the buffer in use
     id : Managers \cup {NoOne},        \* the sem_id that was read, or the destination
     seq : Nat, retry : Nat]

Idle == [call |-> "none", pc |-> "idle", pos |-> 0, ii |-> 0, buf |-> NoBuffer,
         id |-> NoOne, seq |-> 0, retry |-> 0]

Init ==
    /\ destructive_read_mode \in BOOLEAN
    /\ sem = [b \in Buffers |-> "Empty"]
    /\ sem_id = [b \in Buffers |-> NoOne]
    /\ sequence_id = [b \in Buffers |-> 0]
    /\ next_sequence_id = 0 /\ reader_count = 0
    /\ search_mutex = [m \in Managers |-> NoThread]
    /\ buffer_mutexes = [m \in Managers |-> [b \in Buffers |-> NoThread]]
    /\ registered_reader = [m \in Managers |-> FALSE]
    /\ last_seen_id = [m \in Managers |-> 0]
    /\ frame = [t \in Threads |-> Idle]
    /\ writing = [t \in Threads |-> NoBuffer]
    /\ reading = [t \in Threads |-> NoBuffer]

-----------------------------------------------------------------------------
(* Helpers *)

M(t) == ManagerOf[t]
Goto(t, f) == frame' = [frame EXCEPT ![t] = f]
Set(t, point) == Goto(t, [frame[t] EXCEPT !.pc = point])
At(t, point) == frame[t].pc = point

\* Mutants of SearchFree: the search does not wait for the mutex.
SearchAnyway(t) == TRUE
SearchFree(t) == search_mutex[M(t)] = NoThread
BufferFree(t, b) == buffer_mutexes[M(t)][b] = NoThread

LockBuffer(t, b) == buffer_mutexes' = [buffer_mutexes EXCEPT ![M(t)][b] = t]
UnlockBuffer(t, b) == buffer_mutexes' = [buffer_mutexes EXCEPT ![M(t)][b] = NoThread]

\* The end of a search, and of its lock_guard.
Return(t) ==
    /\ Goto(t, Idle)
    /\ search_mutex' = [search_mutex EXCEPT ![M(t)] = NoThread]

Visited(t) == (frame[t].pos + frame[t].ii) % NumBuffers

\* The next buffer of a scan, or the end: the reader judges the candidate it has.
NextBuffer(t, f) ==
    IF f.ii + 1 < NumBuffers
    THEN Goto(t, [f EXCEPT !.pc = "scan", !.ii = @ + 1]) /\ UNCHANGED search_mutex
    ELSE IF f.call = "GetBufferForReading"
    THEN Goto(t, [f EXCEPT !.pc = "reload"]) /\ UNCHANGED search_mutex
    ELSE Return(t)

\* "continue": the reader scans again, the writer goes on to the next buffer.
Continue(t) ==
    LET f == frame[t] IN
    IF f.call = "GetBufferForWriting" THEN NextBuffer(t, [f EXCEPT !.buf = NoBuffer])
    ELSE IF f.retry < MaxRetry
    THEN /\ Goto(t, [f EXCEPT !.pc = "scan", !.buf = NoBuffer, !.seq = 0,
                              !.ii = 0, !.retry = @ + 1])
         /\ UNCHANGED search_mutex
    ELSE Return(t)

\* A mutant of Readable: broadcast mode forgets what the manager has seen.
ReadableAgain(t, b) == sem[b] = "Full" /\ sem_id[b] \in {NoOne, M(t)}
Readable(t, b) ==
    /\ sem[b] = "Full" /\ sem_id[b] \in {NoOne, M(t)}
    /\ destructive_read_mode \/ sequence_id[b] > last_seen_id[M(t)]

Holds(t, b, state) == sem[b] = state /\ sem_id[b] = M(t)

-----------------------------------------------------------------------------
(* The searches *)

\* The flag is tested before the mutex is taken.
GetBufferForReading(t) ==
    /\ t \in Consumers /\ At(t, "idle") /\ reading[t] = NoBuffer
    /\ Goto(t, [Idle EXCEPT !.call = "GetBufferForReading",
                            !.pc = IF registered_reader[M(t)] THEN "search" ELSE "register"])
    /\ UNCHANGED <<segment, mutexes, managers, clients>>

Register(t) ==
    /\ At(t, "register")
    /\ reader_count' = reader_count + 1
    /\ registered_reader' = [registered_reader EXCEPT ![M(t)] = TRUE]
    /\ Set(t, "search")
    /\ UNCHANGED <<destructive_read_mode, sem, sem_id, sequence_id, next_sequence_id,
                   mutexes, last_seen_id, clients>>

GetBufferForWriting(t) ==
    /\ t \in Producers /\ At(t, "idle") /\ writing[t] = NoBuffer
    /\ next_sequence_id < MaxSeq
    /\ Goto(t, [Idle EXCEPT !.call = "GetBufferForWriting", !.pc = "search"])
    /\ UNCHANGED <<segment, mutexes, managers, clients>>

\* ReadReadyCount goes the same way, through all buffers.
ReadyForRead(t) ==
    /\ t \in Pollers /\ At(t, "idle")
    /\ Goto(t, [Idle EXCEPT !.call = "ReadyForRead", !.pc = "search"])
    /\ UNCHANGED <<segment, mutexes, managers, clients>>

\* A scan begins at reader_pos or writer_pos, which is any buffer here.
LockSearch(t) ==
    /\ At(t, "search") /\ SearchFree(t)
    /\ search_mutex' = [search_mutex EXCEPT ![M(t)] = t]
    /\ \E b \in Buffers : Goto(t, [frame[t] EXCEPT !.pc = "scan", !.pos = b])
    /\ UNCHANGED <<segment, buffer_mutexes, managers, clients>>

\* It waits for the buffer's mutex, but the search looks at the buffer without it.
ResetBuffer(t) ==
    /\ At(t, "scan") /\ BufferFree(t, Visited(t))
    /\ Set(t, "load")
    /\ UNCHANGED <<segment, mutexes, managers, clients>>

LoadForReading(t) ==
    LET f == frame[t]
        b == Visited(t)
        found == [f EXCEPT !.buf = b, !.seq = sequence_id[b]] IN
    /\ At(t, "load") /\ f.call = "GetBufferForReading"
    /\ IF ~(Readable(t, b) /\ (f.buf = NoBuffer \/ sequence_id[b] < f.seq))
       THEN NextBuffer(t, f)
       ELSE IF sequence_id[b] = last_seen_id[M(t)] + reader_count
       THEN Goto(t, [found EXCEPT !.pc = "reload"]) /\ UNCHANGED search_mutex
       ELSE NextBuffer(t, found)
    /\ UNCHANGED <<segment, buffer_mutexes, managers, clients>>

LoadForWriting(t) ==
    LET b == Visited(t) IN
    /\ At(t, "load") /\ frame[t].call = "GetBufferForWriting"
    /\ IF sem[b] = "Empty" /\ sem_id[b] = NoOne
       THEN Goto(t, [frame[t] EXCEPT !.pc = "cas_id", !.buf = b]) /\ UNCHANGED search_mutex
       ELSE NextBuffer(t, frame[t])
    /\ UNCHANGED <<segment, buffer_mutexes, managers, clients>>

LoadToAsk(t) ==
    /\ At(t, "load") /\ frame[t].call = "ReadyForRead"
    /\ IF Readable(t, Visited(t)) THEN Return(t) ELSE NextBuffer(t, frame[t])
    /\ UNCHANGED <<segment, buffer_mutexes, managers, clients>>

\* The round robin among readers; the subtraction is of unsigned numbers.
NotMyTurn(t, seq) ==
    LET last == last_seen_id[M(t)] IN
    /\ destructive_read_mode /\ last > 0 /\ reader_count > 1
    /\ seq # last + reader_count
    /\ last >= reader_count /\ seq > last - reader_count
    /\ seq < last + 2 * reader_count

Reload(t) ==
    LET b == frame[t].buf IN
    /\ At(t, "reload")
    /\ IF b # NoBuffer /\ ~NotMyTurn(t, sequence_id[b])
          /\ sem[b] = "Full" /\ sem_id[b] \in {NoOne, M(t)}
       THEN /\ Goto(t, [frame[t] EXCEPT !.pc = "cas_id", !.id = sem_id[b], !.seq = sequence_id[b]])
            /\ UNCHANGED search_mutex
       ELSE Continue(t)
    /\ UNCHANGED <<segment, buffer_mutexes, managers, clients>>

CasId(t) ==
    LET b == frame[t].buf IN
    /\ At(t, "cas_id")
    /\ IF sem_id[b] = frame[t].id
       THEN /\ sem_id' = [sem_id EXCEPT ![b] = M(t)]
            /\ Set(t, "cas_sem") /\ UNCHANGED search_mutex
       ELSE UNCHANGED sem_id /\ Continue(t)
    /\ UNCHANGED <<destructive_read_mode, sem, sequence_id, next_sequence_id, reader_count,
                   buffer_mutexes, managers, clients>>

CasSem(t) ==
    LET b == frame[t].buf
        from == IF frame[t].call = "GetBufferForReading" THEN "Full" ELSE "Empty"
        to == IF frame[t].call = "GetBufferForReading" THEN "Reading" ELSE "Writing" IN
    /\ At(t, "cas_sem")
    /\ IF sem[b] = from
       THEN sem' = [sem EXCEPT ![b] = to] /\ Set(t, "check") /\ UNCHANGED search_mutex
       ELSE UNCHANGED sem /\ Continue(t)
    /\ UNCHANGED <<destructive_read_mode, sem_id, sequence_id, next_sequence_id, reader_count,
                   buffer_mutexes, managers, clients>>

CheckReading(t) ==
    LET b == frame[t].buf IN
    /\ At(t, "check") /\ frame[t].call = "GetBufferForReading"
    /\ IF Holds(t, b, "Reading")
       THEN /\ Return(t)
            /\ reading' = [reading EXCEPT ![t] = b]
            /\ last_seen_id' = [last_seen_id EXCEPT ![M(t)] = frame[t].seq]
       ELSE Continue(t) /\ UNCHANGED <<reading, last_seen_id>>
    /\ UNCHANGED <<segment, buffer_mutexes, registered_reader, writing>>

\* ++next_sequence_id is a load, here, and a store, in the next step.
CheckWriting(t) ==
    /\ At(t, "check") /\ frame[t].call = "GetBufferForWriting"
    /\ IF Holds(t, frame[t].buf, "Writing")
       THEN /\ Goto(t, [frame[t] EXCEPT !.pc = "store_seq", !.seq = next_sequence_id + 1])
            /\ UNCHANGED search_mutex
       ELSE Continue(t)
    /\ UNCHANGED <<segment, buffer_mutexes, managers, clients>>

StoreSequenceId(t) ==
    LET b == frame[t].buf IN
    /\ At(t, "store_seq")
    /\ next_sequence_id' = frame[t].seq
    /\ sequence_id' = [sequence_id EXCEPT ![b] = frame[t].seq]
    /\ IF Holds(t, b, "Writing")
       THEN Return(t) /\ writing' = [writing EXCEPT ![t] = b]
       ELSE Continue(t) /\ UNCHANGED writing
    /\ UNCHANGED <<destructive_read_mode, sem, sem_id, reader_count, buffer_mutexes,
                   managers, reading>>

-----------------------------------------------------------------------------
(* What clients do with their buffers *)

Use(t, call, b, id) ==
    /\ At(t, "idle")
    /\ Goto(t, [Idle EXCEPT !.call = call, !.pc = "lock", !.buf = b, !.id = id])
    /\ UNCHANGED <<segment, mutexes, managers>>

Write(t) == writing[t] # NoBuffer /\ Use(t, "Write", writing[t], NoOne) /\ UNCHANGED clients
Read(t) == reading[t] # NoBuffer /\ Use(t, "Read", reading[t], NoOne) /\ UNCHANGED clients

MarkBufferFull(t, destination) ==
    /\ writing[t] # NoBuffer
    /\ Use(t, "MarkBufferFull", writing[t], destination)
    /\ writing' = [writing EXCEPT ![t] = NoBuffer]
    /\ UNCHANGED reading

MarkBufferEmpty(t) ==
    /\ reading[t] # NoBuffer
    /\ Use(t, "MarkBufferEmpty", reading[t], NoOne)
    /\ reading' = [reading EXCEPT ![t] = NoBuffer]
    /\ UNCHANGED writing

\* The mutex, and the checks behind it: a buffer that is not the manager's is left
\* alone by MarkBufferFull, and makes the other calls detach and throw.
LockForUse(t) ==
    LET f == frame[t] IN
    /\ At(t, "lock") /\ BufferFree(t, f.buf)
    /\ IF f.call = "MarkBufferFull" /\ sem_id[f.buf] # M(t)
       THEN Goto(t, Idle) /\ UNCHANGED buffer_mutexes
       ELSE /\ LockBuffer(t, f.buf)
            /\ Set(t, IF f.call = "MarkBufferFull" THEN "store_sem"
                      ELSE IF ~Holds(t, f.buf, IF f.call = "Write" THEN "Writing" ELSE "Reading")
                      THEN "detach"
                      ELSE IF f.call = "MarkBufferEmpty" THEN "store_sem" ELSE "copy")
    /\ UNCHANGED <<segment, search_mutex, managers, clients>>

CopyEnd(t) ==
    LET b == frame[t].buf IN
    /\ At(t, "copy")
    /\ last_seen_id' = IF frame[t].call = "Write" /\ last_seen_id[M(t)] < sequence_id[b]
                       THEN [last_seen_id EXCEPT ![M(t)] = sequence_id[b]] ELSE last_seen_id
    /\ UnlockBuffer(t, b) /\ Goto(t, Idle)
    /\ UNCHANGED <<segment, search_mutex, registered_reader, clients>>

\* A mutant of MarkSem: the positions are changed under the search mutex as well.
MarkSemSearching(t) ==
    /\ SearchFree(t)
    /\ sem' = [sem EXCEPT ![frame[t].buf] = IF frame[t].call = "MarkBufferEmpty" /\ destructive_read_mode
                                            THEN "Empty" ELSE "Full"]
MarkSem(t) ==
    sem' = [sem EXCEPT ![frame[t].buf] = IF frame[t].call = "MarkBufferEmpty" /\ destructive_read_mode
                                         THEN "Empty" ELSE "Full"]

StoreSem(t) ==
    /\ At(t, "store_sem")
    /\ MarkSem(t)
    /\ Set(t, "store_id")
    /\ UNCHANGED <<destructive_read_mode, sem_id, sequence_id, next_sequence_id, reader_count,
                   mutexes, managers, clients>>

StoreId(t) ==
    LET f == frame[t] IN
    /\ At(t, "store_id")
    /\ sem_id' = [sem_id EXCEPT ![f.buf] = f.id]
    /\ UnlockBuffer(t, f.buf) /\ Goto(t, Idle)
    /\ UNCHANGED <<destructive_read_mode, sem, sequence_id, next_sequence_id, reader_count,
                   search_mutex, managers, clients>>

-----------------------------------------------------------------------------
\* What a thread does under the search mutex, and under that of a buffer.
Search(t) ==
    \/ Register(t) \/ ResetBuffer(t) \/ LoadForReading(t) \/ LoadForWriting(t) \/ LoadToAsk(t)
    \/ Reload(t) \/ CasId(t) \/ CasSem(t)
    \/ CheckReading(t) \/ CheckWriting(t) \/ StoreSequenceId(t)
UseBuffer(t) == CopyEnd(t) \/ StoreSem(t) \/ StoreId(t)
Step(t) == LockSearch(t) \/ Search(t) \/ LockForUse(t) \/ UseBuffer(t)

Client(t) ==
    \/ GetBufferForReading(t) \/ GetBufferForWriting(t) \/ ReadyForRead(t)
    \/ Write(t) \/ Read(t) \/ MarkBufferEmpty(t)
    \/ \E d \in Destinations : MarkBufferFull(t, d)

Next == \E t \in Threads : Step(t) \/ Client(t)

Spec == Init /\ [][Next]_vars

-----------------------------------------------------------------------------
(* Properties *)

TypeOK ==
    /\ destructive_read_mode \in BOOLEAN
    /\ sem \in [Buffers -> {"Empty", "Writing", "Full", "Reading"}]
    /\ sem_id \in [Buffers -> Managers \cup {NoOne}]
    /\ sequence_id \in [Buffers -> Nat]
    /\ next_sequence_id \in Nat /\ reader_count \in Nat
    /\ search_mutex \in [Managers -> Threads \cup {NoThread}]
    /\ buffer_mutexes \in [Managers -> [Buffers -> Threads \cup {NoThread}]]
    /\ registered_reader \in [Managers -> BOOLEAN]
    /\ last_seen_id \in [Managers -> Nat]
    /\ frame \in [Threads -> Frames]
    /\ writing \in [Threads -> Buffers \cup {NoBuffer}]
    /\ reading \in [Threads -> Buffers \cup {NoBuffer}]

\* The buffer that a thread's client has, or that the thread is giving back.
Using(t, b) ==
    \/ b \in {writing[t], reading[t]}
    \/ frame[t].buf = b /\ frame[t].pc \in {"lock", "copy", "store_sem", "store_id"}

\* The owner on a buffer is a manager, so that nothing a buffer says keeps it from the
\* other threads of the manager that has it; yet no two threads of a process are ever
\* given one buffer, nor one that another is giving back.
OneThreadPerBuffer ==
    \A t, u \in Threads, b \in Buffers : Using(t, b) /\ Using(u, b) => t = u

\* While a thread has a buffer its manager is on it, so that no call of any thread takes
\* the manager from the others with the Detach before an exception.
NobodyDetached ==
    \A t \in Threads :
        /\ frame[t].pc # "detach"
        /\ writing[t] # NoBuffer => Holds(t, writing[t], "Writing")
        /\ reading[t] # NoBuffer => Holds(t, reading[t], "Reading")

\* ++next_sequence_id is no atomic increment: the events of one writing process have
\* different ids because its threads search one after the other.
EventIdsDistinct ==
    \A b, c \in Buffers : b # c /\ sequence_id[b] = sequence_id[c] => sequence_id[b] = 0

\* The threads of a process never wait for each other in a circle: as long as some call
\* of it has not returned, one of them can go on.  (A search waits for buffers, a thread
\* that has a buffer's mutex never for a search; and no call goes on for ever, so with a
\* fair scheduler every call returns.)
NoCircle ==
    \A m \in Managers :
        (\E t \in Threads : M(t) = m /\ ~At(t, "idle")) => \E t \in Threads : M(t) = m /\ ENABLED Step(t)
=============================================================================
