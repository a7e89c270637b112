------------------------- MODULE SharedMemoryManager -------------------------
(***************************************************************************)
(* artdaq::SharedMemoryManager: processes exchange events through the      *)
(* buffers of one shared memory segment.  Every buffer carries two atomics *)
(* (sem, its state, and sem_id, its owner), and every process attached to  *)
(* the segment is a manager with an id of its own.  There is no lock       *)
(* between processes: search_mutex_ and buffer_mutexes_ are members of one *)
(* manager object.  An action is therefore one access to the shared atomics *)
(* (a load, a store or a compare-and-swap) together with the local work    *)
(* that follows it, and the managers interleave between any two of them.   *)
(*                                                                         *)
(* Each manager makes one call at a time.  Its call frame (the function it *)
(* is in, the point it has reached and its locals) is frame[p].            *)
(***************************************************************************)
EXTENDS Integers, FiniteSets

CONSTANTS
    NumBuffers,     \* shm_ptr_->buffer_count
    Managers,       \* manager ids; id 0 is the owner of the segment
    Writers,        \* the managers that call GetBufferForWriting
    Readers,        \* the managers that call GetBufferForReading
    Destructive,    \* shm_ptr_->destructive_read_mode; FALSE is broadcast mode
    Overwrite,      \* the argument of GetBufferForWriting
    BufferTimeout,  \* shm_ptr_->buffer_timeout_us # 0
    Destinations,   \* the arguments of MarkBufferFull
    Forcers,        \* the managers that call MarkBufferEmpty with force
    Pollers,        \* the managers that call ReadyForRead and its relatives
    Detachers,      \* the managers that may detach, or be told to by a signal
    SlowOwners,     \* the managers that may leave a buffer untouched too long
    Crashers,       \* the managers that may be killed without a Detach
    MaxRetry,       \* rescans of one GetBufferForReading (the code makes 4)
    MaxHeld,        \* bound: buffers one client holds at a time
    MaxSeq          \* bound: no write starts once this many ids were given out

NoOne == -1         \* sem_id of a buffer nobody owns
NoBuffer == -1      \* buffer_num before a candidate is found
Owner == 0          \* the manager that created the segment

Buffers == 0 .. (NumBuffers - 1)

ASSUME NumBuffersAssumption == NumBuffers \in Nat \ {0}
ASSUME ManagersAssumption == Managers \subseteq Nat
ASSUME RolesAssumption ==
    /\ Writers \subseteq Managers /\ Readers \subseteq Managers
    /\ Forcers \subseteq Managers /\ Pollers \subseteq Managers
    /\ Detachers \subseteq Managers /\ Crashers \subseteq Managers
    /\ SlowOwners \subseteq Managers
    /\ Destinations \subseteq Managers \cup {NoOne}
ASSUME ModesAssumption ==
    Destructive \in BOOLEAN /\ Overwrite \in BOOLEAN /\ BufferTimeout \in BOOLEAN
ASSUME BoundsAssumption ==
    MaxRetry \in Nat /\ MaxHeld \in Nat \ {0} /\ MaxSeq \in Nat

BufferSemaphoreFlags == {"Empty", "Writing", "Full", "Reading"}

VARIABLES
    \* ShmBuffer, per buffer
    sem,                \* BufferSemaphoreFlags
    sem_id,             \* the owner, or NoOne
    sequence_id,
    writePos,           \* 0, or 1 once the event's data is there
    stale,              \* last_touch_time is more than the timeout ago
    \* ShmStruct
    reader_pos, writer_pos, next_sequence_id, reader_count,
    \* per manager
    last_seen_id, registered_reader, frame,
    holds,              \* what the client was handed: holds[p][b]
    \* history
    readBy              \* the readers that were given what is in the buffer,
                        \* but those it was taken back from

shmBuffers == <<sem, sem_id, sequence_id, writePos, stale>>
shmStruct == <<reader_pos, writer_pos, next_sequence_id, reader_count>>
vars == <<sem, sem_id, sequence_id, writePos, stale,
          reader_pos, writer_pos, next_sequence_id, reader_count,
          last_seen_id, registered_reader, frame, holds, readBy>>

Holdings == {"none", "Writing", "Written", "Reading", "Read"}

Calls == {"none", "GetBufferForWriting", "GetBufferForReading", "ResetBuffer",
          "Write", "Read", "MarkBufferFull", "MarkBufferEmpty", "MarkBufferEmptyForced",
          "Detach"}

Points == {"idle", "scan", "reset_recheck", "reset_full", "reset_empty",
           "reset_id", "reset_empty_id", "load", "load_id", "reload", "cas_id", "cas_sem",
           "check", "store_seq", "copy", "store_sem", "release", "detach", "detach_id", "gone"}

Frames ==
    [call : Calls, pc : Points,
     pos : Buffers,                     \* rp or wp, where the scan started
     ii : Nat,                          \* the scan's loop counter
     buf : Buffers \cup {NoBuffer},     \* the buffer the call is acting on
     want : BufferSemaphoreFlags,       \* the state it expects the buffer in
     id : Managers \cup {NoOne},        \* the sem_id it read, or will store
     seq : Nat,                         \* the sequence id it read
     retry : Nat,
     todo : SUBSET Buffers]             \* Detach: the buffers left to give up

IdleFrame == [call |-> "none", pc |-> "idle", pos |-> 0, ii |-> 0, buf |-> NoBuffer,
              want |-> "Empty", id |-> NoOne, seq |-> 0, retry |-> 0, todo |-> {}]

Gone == [IdleFrame EXCEPT !.pc = "gone"]

\* Attach by the owner; the other managers have attached and taken their ids.
Init ==
    /\ sem = [b \in Buffers |-> "Empty"]
    /\ sem_id = [b \in Buffers |-> NoOne]
    /\ sequence_id = [b \in Buffers |-> 0]
    /\ writePos = [b \in Buffers |-> 0]
    /\ stale = [b \in Buffers |-> FALSE]
    /\ reader_pos = 0 /\ writer_pos = 0
    /\ next_sequence_id = 0
    /\ reader_count = 0
    /\ last_seen_id = [p \in Managers |-> 0]
    /\ registered_reader = [p \in Managers |-> FALSE]
    /\ frame = [p \in Managers |-> IdleFrame]
    /\ holds = [p \in Managers |-> [b \in Buffers |-> "none"]]
    /\ readBy = [b \in Buffers |-> {}]

-----------------------------------------------------------------------------
(* Helpers *)

NextUnwrapped(b) == b + 1   \* a mutant of Next_
Next_(b) == (b + 1) % NumBuffers
ScanBuffer(p) == (frame[p].ii + frame[p].pos) % NumBuffers
HeldBy(p) == {b \in Buffers : holds[p][b] # "none"}
At(p, call, point) == frame[p].call = call /\ frame[p].pc = point
Goto(p, f) == frame' = [frame EXCEPT ![p] = f]
Set(p, point) == Goto(p, [frame[p] EXCEPT !.pc = point])

\* touchBuffer_: only a buffer that is free or the manager's own is touched.
touchBuffer_(p, b) ==
    stale' = IF sem_id[b] \in {NoOne, p} THEN [stale EXCEPT ![b] = FALSE] ELSE stale

\* checkBuffer_ for the flags Writing and Reading.
checkBuffer_(p, b, flag) == sem_id[b] = p /\ sem[b] = flag

\* The end of one iteration of a scan: the writer goes through the passes that
\* look for Empty, then (overwrite) Full, then Reading buffers; the reader
\* judges the candidate it found.
NextBuffer(f) ==
    IF f.ii + 1 < NumBuffers THEN [f EXCEPT !.pc = "scan", !.ii = f.ii + 1]
    ELSE IF f.call = "GetBufferForReading" THEN [f EXCEPT !.pc = "reload"]
    ELSE IF ~Overwrite \/ f.want = "Reading" THEN IdleFrame
    ELSE [f EXCEPT !.pc = "scan", !.ii = 0,
                   !.want = IF f.want = "Empty" THEN "Full" ELSE "Reading"]

\* "continue" of the reader's retry loop.
Retry(f) ==
    IF f.retry < MaxRetry
    THEN [f EXCEPT !.pc = "scan", !.ii = 0, !.buf = NoBuffer, !.seq = 0, !.id = NoOne,
                   !.retry = f.retry + 1]
    ELSE IdleFrame

Continue(f) == IF f.call = "GetBufferForReading" THEN Retry(f) ELSE NextBuffer(f)

GetBuffersOwnedByManager(p) == {b \in Buffers : sem_id[b] = p}

\* Detach, from wherever the manager is: its call is abandoned.
DetachFrame(p) == [IdleFrame EXCEPT !.call = "Detach", !.pc = "detach",
                                    !.todo = GetBuffersOwnedByManager(p)]
BeginDetach(p) ==
    /\ Goto(p, DetachFrame(p))
    /\ holds' = [holds EXCEPT ![p] = [b \in Buffers |-> "none"]]

\* Mutant of tests on the shared atomics: the test is left out.
Untested(p) == TRUE

-----------------------------------------------------------------------------
(* ResetBuffer, called on every buffer a scan visits *)

StaleBroadcast(p, b) == stale[b] /\ ~Destructive /\ sem[b] = "Full" /\ p = Owner
StaleOwnRead(p, b) == stale[b] /\ sem[b] = "Reading" /\ sem_id[b] = p  \* a mutant
StaleRead(p, b) == stale[b] /\ sem[b] = "Reading" /\ sem_id[b] # p
NeedsReset(p, b) == StaleBroadcast(p, b) \/ StaleRead(p, b)

ResetBuffer(p) ==
    LET b == ScanBuffer(p) IN
    /\ frame[p].pc = "scan"
    /\ NeedsReset(p, b)
    /\ Set(p, IF StaleRead(p, b) THEN "reset_recheck" ELSE "reset_empty")
    /\ UNCHANGED <<shmBuffers, shmStruct, last_seen_id, registered_reader, holds, readBy>>

\* Only the age is checked again before the stores, not the state or the owner.
ResetRecheck(p) ==
    /\ frame[p].pc = "reset_recheck"
    /\ Set(p, IF stale[ScanBuffer(p)] THEN "reset_full" ELSE "load")
    /\ UNCHANGED <<shmBuffers, shmStruct, last_seen_id, registered_reader, holds, readBy>>

ResetStoreFull(p) ==
    LET b == ScanBuffer(p) IN
    /\ frame[p].pc = "reset_full"
    /\ sem' = [sem EXCEPT ![b] = "Full"]
    /\ readBy' = [readBy EXCEPT ![b] = @ \ {sem_id[b]}]
    /\ Set(p, "reset_id")
    /\ UNCHANGED <<sem_id, sequence_id, writePos, stale, shmStruct,
                   last_seen_id, registered_reader, holds>>

ResetStoreEmpty(p) ==
    LET b == ScanBuffer(p) IN
    /\ frame[p].pc = "reset_empty"
    /\ writePos' = [writePos EXCEPT ![b] = 0]
    /\ sem' = [sem EXCEPT ![b] = "Empty"]
    /\ Set(p, "reset_empty_id")
    /\ UNCHANGED <<sem_id, sequence_id, stale, shmStruct,
                   last_seen_id, registered_reader, holds, readBy>>

ResetStoreId(p) ==
    LET b == ScanBuffer(p) IN
    /\ frame[p].pc \in {"reset_id", "reset_empty_id"}
    /\ sem_id' = [sem_id EXCEPT ![b] = NoOne]
    /\ reader_pos' = IF frame[p].pc = "reset_empty_id" /\ reader_pos = b
                     THEN Next_(b) ELSE reader_pos
    /\ Set(p, "load")
    /\ UNCHANGED <<sem, sequence_id, writePos, stale,
                   writer_pos, next_sequence_id, reader_count,
                   last_seen_id, registered_reader, holds, readBy>>

\* ResetBuffer(b) called by a client, and the visit of one buffer by
\* ReadyForRead, ReadReadyCount, ReadyForWrite and WriteReadyCount: a reset,
\* and in the first two a touch.
Poll(p, b) ==
    /\ p \in Pollers
    /\ frame[p].pc = "idle"
    /\ Goto(p, [IdleFrame EXCEPT !.call = "ResetBuffer", !.pc = "scan", !.pos = b])
    /\ UNCHANGED <<shmBuffers, shmStruct, last_seen_id, registered_reader, holds, readBy>>

\* A mutant of Readable: broadcast mode forgets what the reader has seen.
ReadableAgain(p, b) == sem[b] = "Full" /\ sem_id[b] \in {NoOne, p}

\* The reader's test of a buffer, in its scan and in ReadyForRead.
Readable(p, b) ==
    /\ sem[b] = "Full"
    /\ sem_id[b] \in {NoOne, p}
    /\ Destructive \/ sequence_id[b] > last_seen_id[p]

\* ResetBuffer has returned, or had nothing to do.
AfterReset(p) ==
    \/ frame[p].pc = "load"
    \/ frame[p].pc = "scan" /\ ~NeedsReset(p, ScanBuffer(p))

PollEnd(p) ==
    LET b == ScanBuffer(p) IN
    /\ frame[p].call = "ResetBuffer"
    /\ AfterReset(p)
    /\ \/ Readable(p, b) /\ touchBuffer_(p, b)
       \/ UNCHANGED stale
    /\ Goto(p, IdleFrame)
    /\ UNCHANGED <<sem, sem_id, sequence_id, writePos, shmStruct,
                   last_seen_id, registered_reader, holds, readBy>>

-----------------------------------------------------------------------------
(* GetBufferForWriting *)

GetBufferForWriting(p) ==
    /\ p \in Writers
    /\ frame[p].pc = "idle"
    /\ Cardinality(HeldBy(p)) < MaxHeld
    /\ next_sequence_id < MaxSeq
    /\ Goto(p, [IdleFrame EXCEPT !.call = "GetBufferForWriting", !.pc = "scan",
                                 !.pos = writer_pos, !.want = "Empty"])
    /\ UNCHANGED <<shmBuffers, shmStruct, last_seen_id, registered_reader, holds, readBy>>

LoadSemForWriting(p) ==
    LET b == ScanBuffer(p) IN
    /\ frame[p].call = "GetBufferForWriting"
    /\ AfterReset(p)
    /\ IF sem[b] = frame[p].want
       THEN Goto(p, [frame[p] EXCEPT !.pc = "load_id", !.buf = b])
       ELSE Goto(p, NextBuffer(frame[p]))
    /\ UNCHANGED <<shmBuffers, shmStruct, last_seen_id, registered_reader, holds, readBy>>

\* The passes for Empty and Full want a buffer nobody owns, the last one takes
\* a Reading buffer from whoever reads it.
LoadIdForWriting(p) ==
    LET b == frame[p].buf IN
    /\ At(p, "GetBufferForWriting", "load_id")
    /\ IF sem_id[b] = NoOne \/ frame[p].want = "Reading"
       THEN /\ Goto(p, [frame[p] EXCEPT !.pc = "cas_id", !.id = sem_id[b]])
            /\ touchBuffer_(p, b)
       ELSE /\ Goto(p, NextBuffer(frame[p]))
            /\ UNCHANGED stale
    /\ UNCHANGED <<sem, sem_id, sequence_id, writePos, shmStruct,
                   last_seen_id, registered_reader, holds, readBy>>

\* sem_id.compare_exchange_strong(sem_id, manager_id_)
IdUnchanged(p) == sem_id[frame[p].buf] = frame[p].id
CasId(p) ==
    LET b == frame[p].buf IN
    /\ frame[p].pc = "cas_id"
    /\ IF IdUnchanged(p)
       THEN sem_id' = [sem_id EXCEPT ![b] = p] /\ Set(p, "cas_sem")
       ELSE UNCHANGED sem_id /\ Goto(p, Continue(frame[p]))
    /\ UNCHANGED <<sem, sequence_id, writePos, stale, shmStruct,
                   last_seen_id, registered_reader, holds, readBy>>

\* sem.compare_exchange_strong(sem, Writing or Reading); on failure the
\* manager goes on with sem_id still set to its own id.
SemUnchanged(p) == sem[frame[p].buf] = frame[p].want
Target(p) == IF frame[p].call = "GetBufferForWriting" THEN "Writing" ELSE "Reading"
CasSem(p) ==
    LET b == frame[p].buf IN
    /\ frame[p].pc = "cas_sem"
    /\ IF SemUnchanged(p)
       THEN sem' = [sem EXCEPT ![b] = Target(p)] /\ Set(p, "check")
       ELSE UNCHANGED sem /\ Goto(p, Continue(frame[p]))
    /\ UNCHANGED <<sem_id, sequence_id, writePos, stale, shmStruct,
                   last_seen_id, registered_reader, holds, readBy>>

\* The first half of ++next_sequence_id, a plain size_t, is a load.
CheckWriting(p) ==
    LET b == frame[p].buf IN
    /\ At(p, "GetBufferForWriting", "check")
    /\ IF checkBuffer_(p, b, "Writing")
       THEN /\ writer_pos' = Next_(b)
            /\ Goto(p, [frame[p] EXCEPT !.pc = "store_seq", !.seq = next_sequence_id + 1])
       ELSE UNCHANGED writer_pos /\ Goto(p, NextBuffer(frame[p]))
    /\ UNCHANGED <<shmBuffers, reader_pos, next_sequence_id, reader_count,
                   last_seen_id, registered_reader, holds, readBy>>

StoreSequenceId(p) ==
    LET b == frame[p].buf IN
    /\ At(p, "GetBufferForWriting", "store_seq")
    /\ next_sequence_id' = frame[p].seq
    /\ sequence_id' = [sequence_id EXCEPT ![b] = frame[p].seq]
    /\ writePos' = [writePos EXCEPT ![b] = 0]
    /\ IF checkBuffer_(p, b, "Writing")
       THEN /\ Goto(p, IdleFrame)
            /\ holds' = [holds EXCEPT ![p][b] = "Writing"]
            /\ touchBuffer_(p, b)
       ELSE Goto(p, NextBuffer(frame[p])) /\ UNCHANGED <<holds, stale>>
    /\ UNCHANGED <<sem, sem_id, reader_pos, writer_pos, reader_count,
                   last_seen_id, registered_reader, readBy>>

-----------------------------------------------------------------------------
(* GetBufferForReading *)

GetBufferForReading(p) ==
    /\ p \in Readers
    /\ frame[p].pc = "idle"
    /\ Cardinality(HeldBy(p)) < MaxHeld
    /\ reader_count' = IF registered_reader[p] THEN reader_count ELSE reader_count + 1
    /\ registered_reader' = [registered_reader EXCEPT ![p] = TRUE]
    /\ Goto(p, [IdleFrame EXCEPT !.call = "GetBufferForReading", !.pc = "scan",
                                 !.pos = reader_pos, !.want = "Full"])
    /\ UNCHANGED <<shmBuffers, reader_pos, writer_pos, next_sequence_id,
                   last_seen_id, holds, readBy>>

\* One buffer of the scan: the candidate is the lowest sequence id, and the
\* scan stops early at the one that is this reader's turn.
ScanForReading(p) ==
    LET b == ScanBuffer(p)
        better == /\ Readable(p, b)
                  /\ frame[p].buf = NoBuffer \/ sequence_id[b] < frame[p].seq
        found == [frame[p] EXCEPT !.buf = b, !.seq = sequence_id[b]] IN
    /\ frame[p].call = "GetBufferForReading"
    /\ AfterReset(p)
    /\ IF better
       THEN /\ touchBuffer_(p, b)
            /\ Goto(p, IF sequence_id[b] = last_seen_id[p] + reader_count
                       THEN [found EXCEPT !.pc = "reload"]
                       ELSE NextBuffer(found))
       ELSE UNCHANGED stale /\ Goto(p, NextBuffer(frame[p]))
    /\ UNCHANGED <<sem, sem_id, sequence_id, writePos, shmStruct,
                   last_seen_id, registered_reader, holds, readBy>>

\* The round-robin test.  The subtraction is of unsigned numbers: when more
\* readers are attached than the last id seen, it wraps and nothing is skipped.
NotMyTurn(p, seq) ==
    LET last == last_seen_id[p] IN
    /\ Destructive
    /\ last > 0
    /\ reader_count > 1
    /\ seq # last + reader_count
    /\ last >= reader_count /\ seq > last - reader_count
    /\ seq < last + 2 * reader_count

ReloadForReading(p) ==
    LET b == frame[p].buf
        acceptable == /\ ~NotMyTurn(p, sequence_id[b])
                      /\ sem_id[b] \in {NoOne, p}
                      /\ sem[b] = "Full" IN
    /\ At(p, "GetBufferForReading", "reload")
    /\ IF b # NoBuffer /\ acceptable
       THEN /\ Goto(p, [frame[p] EXCEPT !.pc = "cas_id", !.id = sem_id[b],
                                        !.seq = sequence_id[b]])
            /\ touchBuffer_(p, b)
       ELSE UNCHANGED stale /\ Goto(p, Retry(frame[p]))
    /\ UNCHANGED <<sem, sem_id, sequence_id, writePos, shmStruct,
                   last_seen_id, registered_reader, holds, readBy>>

\* Both checks, the return value and the positions; last_seen_id becomes the
\* sequence id that was read before the compare-and-swaps.
CheckReading(p) ==
    LET b == frame[p].buf IN
    /\ At(p, "GetBufferForReading", "check")
    /\ IF checkBuffer_(p, b, "Reading")
       THEN /\ Goto(p, IdleFrame)
            /\ touchBuffer_(p, b)
            /\ holds' = [holds EXCEPT ![p][b] = "Reading"]
            /\ last_seen_id' = [last_seen_id EXCEPT ![p] = frame[p].seq]
            /\ reader_pos' = IF Destructive THEN Next_(b) ELSE reader_pos
            /\ readBy' = [readBy EXCEPT ![b] = @ \cup {p}]
       ELSE /\ Goto(p, Retry(frame[p]))
            /\ UNCHANGED <<stale, holds, last_seen_id, reader_pos, readBy>>
    /\ UNCHANGED <<sem, sem_id, sequence_id, writePos,
                   writer_pos, next_sequence_id, reader_count, registered_reader>>

-----------------------------------------------------------------------------
(* Write and Read: a check, the copy, and what follows the copy *)

Write(p, b) ==
    /\ frame[p].pc = "idle"
    /\ holds[p][b] = "Writing"
    /\ IF checkBuffer_(p, b, "Writing")
       THEN /\ Goto(p, [IdleFrame EXCEPT !.call = "Write", !.pc = "copy", !.buf = b])
            /\ touchBuffer_(p, b)
            /\ UNCHANGED holds
       ELSE BeginDetach(p) /\ UNCHANGED stale
    /\ UNCHANGED <<sem, sem_id, sequence_id, writePos, shmStruct,
                   last_seen_id, registered_reader, readBy>>

WriteEnd(p) ==
    LET b == frame[p].buf IN
    /\ At(p, "Write", "copy")
    /\ writePos' = [writePos EXCEPT ![b] = 1]
    /\ touchBuffer_(p, b)
    /\ last_seen_id' = [last_seen_id EXCEPT ![p] =
                            IF @ < sequence_id[b] THEN sequence_id[b] ELSE @]
    /\ holds' = [holds EXCEPT ![p][b] = "Written"]
    /\ Goto(p, IdleFrame)
    /\ UNCHANGED <<sem, sem_id, sequence_id, shmStruct, registered_reader, readBy>>

Read(p, b) ==
    /\ frame[p].pc = "idle"
    /\ holds[p][b] = "Reading"
    /\ IF checkBuffer_(p, b, "Reading")
       THEN /\ Goto(p, [IdleFrame EXCEPT !.call = "Read", !.pc = "copy", !.buf = b])
            /\ touchBuffer_(p, b)
            /\ UNCHANGED holds
       ELSE BeginDetach(p) /\ UNCHANGED stale
    /\ UNCHANGED <<sem, sem_id, sequence_id, writePos, shmStruct,
                   last_seen_id, registered_reader, readBy>>

\* What Read returns if its copy ends now: it checks the buffer again.
ReadSucceeds(p) == checkBuffer_(p, frame[p].buf, "Reading")

ReadEnd(p) ==
    LET b == frame[p].buf IN
    /\ At(p, "Read", "copy")
    /\ IF ReadSucceeds(p) THEN touchBuffer_(p, b) ELSE UNCHANGED stale
    /\ holds' = [holds EXCEPT ![p][b] = "Read"]
    /\ Goto(p, IdleFrame)
    /\ UNCHANGED <<sem, sem_id, sequence_id, writePos, shmStruct,
                   last_seen_id, registered_reader, readBy>>

-----------------------------------------------------------------------------
(* MarkBufferFull and MarkBufferEmpty: the state first, then the owner *)

MarkBufferFull(p, b, destination) ==
    /\ frame[p].pc = "idle"
    /\ holds[p][b] = "Written"
    /\ touchBuffer_(p, b)
    /\ holds' = [holds EXCEPT ![p][b] = "none"]
    /\ IF sem_id[b] = p
       THEN /\ sem' = [sem EXCEPT ![b] = "Full"]
            /\ readBy' = [readBy EXCEPT ![b] = {}]
            /\ Goto(p, [IdleFrame EXCEPT !.call = "MarkBufferFull", !.pc = "release",
                                         !.buf = b, !.id = destination])
       ELSE UNCHANGED <<sem, readBy, frame>>
    /\ UNCHANGED <<sem_id, sequence_id, writePos, shmStruct, last_seen_id, registered_reader>>

\* checkBuffer_ throws after a Detach when the buffer is no longer the caller's.
MarkBufferEmpty(p, b) ==
    /\ frame[p].pc = "idle"
    /\ holds[p][b] \in {"Reading", "Read"}
    /\ IF checkBuffer_(p, b, "Reading")
       THEN /\ Goto(p, [IdleFrame EXCEPT !.call = "MarkBufferEmpty", !.pc = "store_sem",
                                         !.buf = b])
            /\ touchBuffer_(p, b)
            /\ holds' = [holds EXCEPT ![p][b] = "none"]
       ELSE BeginDetach(p) /\ UNCHANGED stale
    /\ UNCHANGED <<sem, sem_id, sequence_id, writePos, shmStruct,
                   last_seen_id, registered_reader, readBy>>

\* A holder drops its buffer, or the owner takes any buffer away.
MarkBufferEmptyForced(p, b) ==
    /\ p \in Forcers
    /\ frame[p].pc = "idle"
    /\ p = Owner \/ holds[p][b] # "none"
    /\ Goto(p, [IdleFrame EXCEPT !.call = "MarkBufferEmptyForced", !.pc = "store_sem",
                                 !.buf = b])
    /\ touchBuffer_(p, b)
    /\ holds' = [holds EXCEPT ![p][b] = "none"]
    /\ UNCHANGED <<sem, sem_id, sequence_id, writePos, shmStruct,
                   last_seen_id, registered_reader, readBy>>

ReleaseStoreSem(p) ==
    LET b == frame[p].buf
        toEmpty == IF frame[p].call = "MarkBufferEmptyForced"
                   THEN p = Owner \/ sem_id[b] = p
                   ELSE Destructive IN
    /\ frame[p].pc = "store_sem"
    /\ Goto(p, [frame[p] EXCEPT !.pc = "release"])
    /\ IF toEmpty
       THEN /\ writePos' = [writePos EXCEPT ![b] = 0]
            /\ sem' = [sem EXCEPT ![b] = "Empty"]
            /\ reader_pos' = IF reader_pos = b /\ ~Destructive THEN Next_(b) ELSE reader_pos
       ELSE /\ sem' = [sem EXCEPT ![b] = "Full"]
            /\ UNCHANGED <<writePos, reader_pos>>
    /\ UNCHANGED <<sem_id, sequence_id, stale, writer_pos, next_sequence_id, reader_count,
                   last_seen_id, registered_reader, holds, readBy>>

\* Mutants of ReleasedTo: sem_id is given up by no call, or not by MarkBufferEmpty.
Keeps(p) == p
ReaderKeeps(p) == IF frame[p].call = "MarkBufferEmpty" THEN p ELSE frame[p].id
ReleasedTo(p) == frame[p].id

ReleaseStoreId(p) ==
    /\ frame[p].pc = "release"
    /\ sem_id' = [sem_id EXCEPT ![frame[p].buf] = ReleasedTo(p)]
    /\ Goto(p, IdleFrame)
    /\ UNCHANGED <<sem, sequence_id, writePos, stale, shmStruct,
                   last_seen_id, registered_reader, holds, readBy>>

-----------------------------------------------------------------------------
(* Detach, from the destructor (between calls) or the signal handler (anywhere) *)

Detach(p) ==
    /\ p \in Detachers
    /\ frame[p].call # "Detach" /\ frame[p].pc # "gone"
    /\ BeginDetach(p)
    /\ UNCHANGED <<shmBuffers, shmStruct, last_seen_id, registered_reader, readBy>>

\* A mutant of GivenBack: what was being read is thrown away.
ThrownAway(s) == IF s \in {"Writing", "Reading"} THEN "Empty" ELSE s
GivenBack(s) == IF s = "Writing" THEN "Empty" ELSE IF s = "Reading" THEN "Full" ELSE s

DetachStoreSem(p) ==
    /\ At(p, "Detach", "detach")
    /\ \E b \in frame[p].todo :
        /\ \A c \in frame[p].todo : b <= c
        /\ sem' = [sem EXCEPT ![b] = GivenBack(@)]
        /\ readBy' = [readBy EXCEPT ![b] = IF sem[b] = "Reading" THEN @ \ {p} ELSE @]
        /\ Goto(p, [frame[p] EXCEPT !.pc = "detach_id", !.buf = b])
    /\ UNCHANGED <<sem_id, sequence_id, writePos, stale, shmStruct,
                   last_seen_id, registered_reader, holds>>

DetachStoreId(p) ==
    LET b == frame[p].buf IN
    /\ At(p, "Detach", "detach_id")
    /\ sem_id' = [sem_id EXCEPT ![b] = NoOne]
    /\ Goto(p, [frame[p] EXCEPT !.pc = "detach", !.todo = @ \ {b}])
    /\ UNCHANGED <<sem, sequence_id, writePos, stale, shmStruct,
                   last_seen_id, registered_reader, holds, readBy>>

DetachEnd(p) ==
    /\ At(p, "Detach", "detach")
    /\ frame[p].todo = {}
    /\ reader_count' = IF registered_reader[p] THEN reader_count - 1 ELSE reader_count
    /\ registered_reader' = [registered_reader EXCEPT ![p] = FALSE]
    /\ Goto(p, Gone)
    /\ UNCHANGED <<shmBuffers, reader_pos, writer_pos, next_sequence_id,
                   last_seen_id, holds, readBy>>

\* A kill that no handler sees: nothing in the segment is put back.
Crash(p) ==
    /\ p \in Crashers
    /\ frame[p].pc # "gone"
    /\ Goto(p, Gone)
    /\ holds' = [holds EXCEPT ![p] = [b \in Buffers |-> "none"]]
    /\ UNCHANGED <<shmBuffers, shmStruct, last_seen_id, registered_reader, readBy>>

\* buffer_timeout_us pass without a touch: of the managers that own the buffer
\* or are working on it, the live ones are slow.
Expire(b) ==
    /\ BufferTimeout
    /\ ~stale[b] /\ sem[b] # "Empty"
    /\ \A p \in Managers \ SlowOwners :
        frame[p].pc = "gone" \/ (sem_id[b] # p /\ frame[p].buf # b)
    /\ stale' = [stale EXCEPT ![b] = TRUE]
    /\ UNCHANGED <<sem, sem_id, sequence_id, writePos, shmStruct,
                   last_seen_id, registered_reader, frame, holds, readBy>>

-----------------------------------------------------------------------------
\* The next step of the call a manager is in.
Step(p) ==
    \/ ResetBuffer(p) \/ ResetRecheck(p) \/ ResetStoreFull(p) \/ ResetStoreEmpty(p) \/ ResetStoreId(p)
    \/ PollEnd(p)
    \/ LoadSemForWriting(p) \/ LoadIdForWriting(p) \/ CheckWriting(p) \/ StoreSequenceId(p)
    \/ CasId(p) \/ CasSem(p)
    \/ ScanForReading(p) \/ ReloadForReading(p) \/ CheckReading(p)
    \/ WriteEnd(p) \/ ReadEnd(p)
    \/ ReleaseStoreSem(p) \/ ReleaseStoreId(p)
    \/ DetachStoreSem(p) \/ DetachStoreId(p) \/ DetachEnd(p)

Publish(p) == \E b \in Buffers, d \in Destinations : MarkBufferFull(p, b, d)
Release(p) == \E b \in Buffers : MarkBufferEmpty(p, b)
Copy(p) == \E b \in Buffers : Write(p, b) \/ Read(p, b)

\* The calls a client makes between two steps of its own.
Client(p) ==
    \/ GetBufferForWriting(p) \/ GetBufferForReading(p)
    \/ Copy(p) \/ Publish(p) \/ Release(p)
    \/ \E b \in Buffers : Poll(p, b) \/ MarkBufferEmptyForced(p, b)

Next ==
    \/ \E p \in Managers : Step(p) \/ Client(p) \/ Detach(p) \/ Crash(p)
    \/ \E b \in Buffers : Expire(b)

Spec == Init /\ [][Next]_vars

\* A running process goes on with its call, and clients use what they are
\* given: they look for buffers again and again, copy, and release.
Fairness ==
    \A p \in Managers :
        /\ WF_vars(Step(p)) /\ WF_vars(Copy(p)) /\ WF_vars(Publish(p)) /\ WF_vars(Release(p))
        /\ WF_vars(GetBufferForReading(p)) /\ WF_vars(GetBufferForWriting(p))
        /\ \A b \in Buffers : WF_vars(Expire(b))

FairSpec == Spec /\ Fairness

-----------------------------------------------------------------------------
(* Properties *)

TypeOK ==
    /\ sem \in [Buffers -> BufferSemaphoreFlags]
    /\ sem_id \in [Buffers -> Managers \cup {NoOne}]
    /\ sequence_id \in [Buffers -> Nat]
    /\ writePos \in [Buffers -> {0, 1}]
    /\ stale \in [Buffers -> BOOLEAN]
    /\ reader_pos \in Buffers /\ writer_pos \in Buffers
    /\ next_sequence_id \in Nat
    /\ reader_count \in Int
    /\ last_seen_id \in [Managers -> Nat]
    /\ registered_reader \in [Managers -> BOOLEAN]
    /\ frame \in [Managers -> Frames]
    /\ holds \in [Managers -> [Buffers -> Holdings]]
    /\ readBy \in [Buffers -> SUBSET Managers]

\* What the owner of a buffer keeps its state at.
StateOf(h) == IF h \in {"Writing", "Written"} THEN "Writing" ELSE "Reading"

\* The dual semaphore keeps a buffer to one manager: while a client holds a
\* buffer that GetBufferForWriting or GetBufferForReading gave it, sem_id names
\* its manager and sem has its state, so no checkBuffer_ of a client that keeps
\* to the protocol throws a StateAccessViolation or an OwnerAccessViolation.
\* (Neither overwrite nor a timeout nor a forced release by the owner is on.)
HolderOwns ==
    \A p \in Managers, b \in Buffers :
        holds[p][b] # "none" => sem_id[b] = p /\ sem[b] = StateOf(holds[p][b])

\* A client is given a buffer to read in this step.
Acquires(p, b) == holds[p][b] = "none" /\ holds'[p][b] = "Reading"

\* In destructive mode every fill of a buffer goes to one reader, however many
\* scan at once; only what Detach or ResetBuffer took back from a reader is given
\* out again.
DeliveredOnce ==
    [][\A p \in Managers, b \in Buffers : Acquires(p, b) => readBy[b] = {}]_vars

\* A reader of a broadcast segment is given events that are newer than all the ids
\* it remembers.  It then remembers more than before, but nothing newer than what
\* it was given: it loaded the id before it claimed the buffer, and if the buffer
\* was emptied and filled again meanwhile, it was given a later event than it
\* knows, and may be given that one once more.  It is never given again, nor
\* passed backwards, what it chose and got (BroadcastOrder).
NewerThanSeen ==
    [][\A p \in Readers, b \in Buffers :
          Acquires(p, b) => /\ sequence_id[b] > last_seen_id[p]
                            /\ last_seen_id'[p] > last_seen_id[p]
                            /\ last_seen_id'[p] <= sequence_id[b]]_vars

\* Without overwrite an event that was published is not lost: its buffer is
\* emptied or written again only after some reader had it (and kept it).
NoEventLost ==
    [][\A b \in Buffers :
          sem[b] \in {"Full", "Reading"} /\ sem'[b] \in {"Empty", "Writing"}
              => readBy'[b] # {}]_vars

\* A reader is never offered a buffer without data.
PublishedHasData ==
    \A b \in Buffers : sem[b] = "Full" /\ sem_id[b] = NoOne => writePos[b] = 1

\* A Read that returns true gave one event's data: nobody is copying into a
\* buffer while a reader copies out of it, unless the check after the copy
\* tells the reader.  It holds with overwrite on, which takes buffers from their
\* readers, under NobodyRepublishes: one manager writes, and what a reader gives
\* back too late is Empty, not Full.
NoTornRead ==
    \A p, q \in Managers :
        At(p, "Read", "copy") /\ ReadSucceeds(p)
            => ~(At(q, "Write", "copy") /\ frame[q].buf = frame[p].buf)

\* A buffer that is released becomes "Empty and ready to accept more data".  It
\* does not with two readers, or two writers: one that loses the second
\* compare-exchange leaves its id on the buffer, and no scan takes it again.
ReleasedIsWritable ==
    \A b \in Buffers :
        sem[b] = "Empty" ~> sem[b] = "Writing" \/ (sem[b] = "Empty" /\ sem_id[b] = NoOne)

\* What a dead reader was reading is offered to the others again.
ReaderCrashRecovered ==
    \A p \in Readers, b \in Buffers :
        sem[b] = "Reading" /\ sem_id[b] = p /\ frame[p].pc = "gone" ~> sem[b] = "Full"

-----------------------------------------------------------------------------
(* What the documentation says and the code does not keep *)

\* "Gets the number of buffers which have been processed through the Shared
\* Memory": each buffer that a writer takes counts.  It does not hold for two
\* writers, whose ++next_sequence_id overlap.
EveryBufferCounted ==
    [][\A p \in Writers, b \in Buffers :
          holds[p][b] = "none" /\ holds'[p][b] = "Writing"
              => next_sequence_id' > next_sequence_id]_vars

\* "Gets the highest buffer number either written or read by this
\* SharedMemoryManager": a reader has seen nothing newer than last_seen_id_.  It
\* does not hold: the event that took the place of the chosen one is newer.
HighestIsKnown ==
    [][\A p \in Readers, b \in Buffers :
          Acquires(p, b) => last_seen_id'[p] >= sequence_id[b]]_vars

\* "The maximum amount of time a buffer can be left untouched by its owner before
\* being returned to its previous state": what a dead writer was writing is
\* Empty again.  It does not hold: ResetBuffer has no case for it.
WriterCrashRecovered ==
    \A p \in Writers, b \in Buffers :
        sem[b] = "Writing" /\ sem_id[b] = p /\ frame[p].pc = "gone" ~> sem[b] = "Empty"

-----------------------------------------------------------------------------
(* The inductive invariant behind HolderOwns, PublishedHasData, DeliveredOnce *)
(* and NoEventLost when no buffer can be taken from its owner.             *)

\* Nothing takes a buffer away: no overwrite, no timeout, no forced release by
\* the owner of the segment.
NothingTaken == ~Overwrite /\ ~BufferTimeout /\ Owner \notin Forcers

ActingPoints == {"load_id", "cas_id", "cas_sem", "check", "store_seq", "copy", "store_sem",
                 "release", "detach_id"}
OwningPoints == {"cas_sem", "check", "store_seq", "store_sem", "release"}
ResetPoints == {"reset_recheck", "reset_full", "reset_empty", "reset_id",
                "reset_empty_id", "load"}

BufferInv == \A p \in Managers : frame[p].pc \in ActingPoints => frame[p].buf \in Buffers

\* What a call expects of its buffer.
CallInv(p) ==
    LET f == frame[p] IN
    /\ f.pc \notin ResetPoints
    /\ f.call = "GetBufferForWriting" => f.want = "Empty"
    /\ f.call = "GetBufferForReading" => f.want = "Full"
    /\ f.pc \in {"load_id", "store_seq"} => f.call = "GetBufferForWriting"
    /\ f.pc \in {"cas_id", "cas_sem", "check"}
          => f.call \in {"GetBufferForWriting", "GetBufferForReading"}
    /\ f.pc \in {"detach", "detach_id"} => f.call = "Detach"
    /\ f.call = "MarkBufferEmptyForced" => p \in Forcers

\* What a manager owns in the middle of a call.
OwnInv(p) ==
    LET f == frame[p]
        b == frame[p].buf IN
    /\ f.pc = "cas_id" => f.id = NoOne \/ (f.id = p /\ sem_id[b] = p /\ holds[p][b] = "none")
    /\ f.pc \in OwningPoints => sem_id[b] = p /\ holds[p][b] = "none"
    /\ f.pc = "check" => sem[b] = Target(p)
    /\ f.pc = "store_seq" => sem[b] = "Writing"
    /\ f.pc = "copy" => holds[p][b] = IF f.call = "Write" THEN "Writing" ELSE "Reading"
    /\ f.pc = "store_sem" => IF f.call = "MarkBufferEmptyForced"
                             THEN sem[b] \in {"Writing", "Reading"} ELSE sem[b] = "Reading"
    /\ f.pc \in {"release", "detach_id"} => sem[b] \in {"Empty", "Full"}
    /\ f.call = "Detach" => (\A c \in f.todo : sem_id[c] = p)
    /\ f.pc = "detach_id" => b \in f.todo
    /\ f.call = "Detach" \/ f.pc = "gone" => \A c \in Buffers : holds[p][c] = "none"

\* What a client holds is its own, and has data from the end of the Write on.
HoldInv(p) ==
    \A b \in Buffers :
        /\ holds[p][b] # "none" => sem_id[b] = p /\ sem[b] = StateOf(holds[p][b])
        /\ holds[p][b] = "Written" => writePos[b] = 1
        /\ Destructive /\ holds[p][b] \in {"Reading", "Read"} => p \in readBy[b]

\* A buffer in use has an owner; one that is Full or being read has data, and
\* was given to nobody or to its reader.
EventInv(b) ==
    /\ sem[b] \in {"Writing", "Reading"} => sem_id[b] # NoOne
    /\ sem[b] \in {"Full", "Reading"} => writePos[b] = 1
    /\ Destructive /\ sem[b] = "Full" => readBy[b] = {}
    /\ Destructive /\ sem[b] = "Reading" => readBy[b] \subseteq {sem_id[b]}

\* The same of the buffer a reader is taking or giving back.
ReadInv(p) ==
    LET b == frame[p].buf IN
    Destructive =>
    /\ At(p, "GetBufferForReading", "check") => readBy[b] = {}
    /\ frame[p].pc = "store_sem" /\ sem[b] = "Reading" => p \in readBy[b]

LockInv ==
    /\ BufferInv
    /\ \A b \in Buffers : ~stale[b] /\ EventInv(b)
    /\ \A p \in Managers : CallInv(p) /\ OwnInv(p) /\ HoldInv(p) /\ ReadInv(p)
-----------------------------------------------------------------------------
(* The inductive invariant behind the order in which a broadcast reader     *)
(* meets events (BroadcastOrder), when one manager writes.                 *)

\* With a second writer next_sequence_id can go back, and a reader that found a
\* buffer could take a smaller id out of it than it has seen.
OneWriter == \A p, q \in Writers : p = q

\* The ids of the buffers were given out.
IdsInv == \A b \in Buffers : sequence_id[b] =< next_sequence_id

\* The writer stores the next id, so that next_sequence_id and the id of each
\* buffer only grow.
NumberInv(p) ==
    frame[p].call = "GetBufferForWriting" =>
        /\ p \in Writers
        /\ frame[p].pc = "store_seq" => frame[p].seq = next_sequence_id + 1

\* A reader's candidate is newer than all it has seen, and its buffer was only
\* filled with newer events since.
CandidateInv(p) ==
    LET f == frame[p] IN
    f.call = "GetBufferForReading" /\ f.buf # NoBuffer =>
        last_seen_id[p] < f.seq /\ f.seq =< sequence_id[f.buf]

OrderInv == IdsInv /\ \A p \in Managers : NumberInv(p) /\ CandidateInv(p)

-----------------------------------------------------------------------------
(* The inductive invariant behind NoTornRead, when one manager writes, the   *)
(* segment is read destructively and has no timeout, and no manager but the  *)
(* owner forces a release.  Overwrite, Detach and crashes are allowed.       *)

NobodyRepublishes == OneWriter /\ Destructive /\ ~BufferTimeout /\ Forcers \subseteq {Owner}

\* A writer has taken the buffer and may be copying into it, whether or not a
\* reader it was taken from has released it since.
InWriting(p, b) ==
    \/ holds[p][b] \in {"Writing", "Written"}
    \/ /\ frame[p].buf = b
       /\ \/ frame[p].call = "GetBufferForWriting" /\ frame[p].pc \in {"check", "store_seq"}
          \/ At(p, "Write", "copy")

\* Only writers write, a reader only swaps Full for Reading, nothing is reset.
RoleInv(p) ==
    LET f == frame[p] IN
    /\ f.pc \notin ResetPoints
    /\ f.call \in {"GetBufferForWriting", "Write"} => p \in Writers
    /\ f.call = "GetBufferForReading" => f.want = "Full"
    /\ f.call = "MarkBufferEmptyForced" => p = Owner
    /\ f.pc \in {"cas_id", "cas_sem", "check"}
          => f.call \in {"GetBufferForWriting", "GetBufferForReading"}
    /\ \A b \in Buffers : holds[p][b] \in {"Writing", "Written"} => p \in Writers

WritingInv ==
    \A p \in Managers, b \in Buffers :
        InWriting(p, b) => sem[b] \in {"Writing", "Empty"}

TornInv ==
    /\ BufferInv
    /\ \A b \in Buffers : ~stale[b]
    /\ \A p \in Managers : RoleInv(p)
    /\ WritingInv
=============================================================================
