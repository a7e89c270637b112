---------------------------- MODULE ReaderRoundRobin ----------------------------
(***************************************************************************)
(* Which reader gets which event in destructive mode: the test of          *)
(* GetBufferForReading on sequence ids, last_seen_id_ and reader_count,    *)
(* with readers that register at their first call, detach, attach again,   *)
(* lose a buffer to the timeout, or are killed.                            *)
(*                                                                         *)
(* Buffers are acquired and released in one step, as BufferPool promises.  *)
(* There is one writer, without overwrite.  A killed reader is one that    *)
(* takes no more steps.                                                    *)
(***************************************************************************)
EXTENDS Integers, FiniteSets

CONSTANTS
    Readers,
    Nobody,         \* sem_id is -1
    NumBuffers,
    Leavers,        \* the readers whose clients may detach, and attach again
    Killed,         \* the readers that may be killed
    SlowReaders,    \* the readers that may keep a buffer longer than the timeout
    MaxEvents,      \* bound: events written
    MaxTimeouts     \* bound: buffers that slow readers lose

ASSUME ReadersAssumption ==
    /\ IsFiniteSet(Readers)
    /\ Nobody \notin Readers /\ (Leavers \cup Killed \cup SlowReaders) \subseteq Readers
ASSUME NumbersAssumption == NumBuffers \in Nat \ {0} /\ MaxEvents \in Nat /\ MaxTimeouts \in Nat

Buffers == 0 .. NumBuffers - 1
NoBuffer == -1

VARIABLES
    \* the segment
    sem, sem_id, sequence_id, reader_pos, writer_pos,
    next_sequence_id, reader_count, lowest_seq_id_read,
    \* the readers
    last_seen_id_, registered_reader_, shm_ptr_,
    held,               \* the buffer that the reader's client works on
    timeouts,           \* how often a slow reader lost its buffer
    stayed,             \* history: no reader has left, or lost a buffer
    leftBehind          \* history: meanwhile a reader took an event left behind

segment == <<sem, sem_id, sequence_id, reader_pos, writer_pos, next_sequence_id>>
counts == <<reader_count, lowest_seq_id_read>>
readers == <<last_seen_id_, registered_reader_, shm_ptr_, held, timeouts, stayed, leftBehind>>
vars == <<sem, sem_id, sequence_id, reader_pos, writer_pos, next_sequence_id,
          reader_count, lowest_seq_id_read, last_seen_id_, registered_reader_, shm_ptr_, held,
          timeouts, stayed, leftBehind>>

Init ==
    /\ sem = [b \in Buffers |-> "Empty"] /\ sem_id = [b \in Buffers |-> Nobody]
    /\ sequence_id = [b \in Buffers |-> 0]
    /\ reader_pos = 0 /\ writer_pos = 0
    /\ next_sequence_id = 0 /\ reader_count = 0 /\ lowest_seq_id_read = 0
    /\ last_seen_id_ = [p \in Readers |-> 0]
    /\ registered_reader_ = [p \in Readers |-> FALSE]
    /\ shm_ptr_ = [p \in Readers |-> TRUE]
    /\ held = [p \in Readers |-> NoBuffer]
    /\ timeouts = 0 /\ stayed = TRUE /\ leftBehind = FALSE

SetBuffer(b, flag, id) ==
    /\ sem' = [sem EXCEPT ![b] = flag]
    /\ sem_id' = [sem_id EXCEPT ![b] = id]

-----------------------------------------------------------------------------
(* The writer *)

\* GetBufferForWriting, Write and MarkBufferFull: the next Empty buffer.
Publish ==
    \E i \in Buffers :
        LET At(k) == (writer_pos + k) % NumBuffers
            b == At(i) IN
        /\ next_sequence_id < MaxEvents
        /\ sem[b] = "Empty" /\ \A k \in 0 .. i - 1 : sem[At(k)] # "Empty"
        /\ SetBuffer(b, "Full", Nobody)
        /\ next_sequence_id' = next_sequence_id + 1
        /\ sequence_id' = [sequence_id EXCEPT ![b] = next_sequence_id']
        /\ writer_pos' = (b + 1) % NumBuffers
        /\ UNCHANGED <<reader_pos, counts, readers>>

\* ResetBuffer, called by whoever scans: Reading-->Full.
ResetBuffer(b) ==
    /\ sem[b] = "Reading"
    /\ sem_id[b] \in Killed \/ (sem_id[b] \in SlowReaders /\ timeouts < MaxTimeouts)
    /\ timeouts' = IF sem_id[b] \in Killed THEN timeouts ELSE timeouts + 1
    /\ stayed' = FALSE
    /\ SetBuffer(b, "Full", Nobody)
    /\ UNCHANGED <<sequence_id, reader_pos, writer_pos, next_sequence_id, counts,
                   last_seen_id_, registered_reader_, shm_ptr_, held, leftBehind>>

-----------------------------------------------------------------------------
(* GetBufferForReading *)

IsNextLate(last, seq, count) == seq = last + count + 1      \* a mutant
IsNext(last, seq, count) == seq = last + count

\* The scan ends with b, given the number of readers: the oldest event of those
\* before the one that is next, and that one.
Scanned(p, count, b) ==
    LET Before(k, i) == (k - reader_pos) % NumBuffers < (i - reader_pos) % NumBuffers
        full == {i \in Buffers : sem[i] = "Full"}
        Stops(i) == /\ IsNext(last_seen_id_[p], sequence_id[i], count)
                    /\ \A k \in full : Before(k, i) => sequence_id[k] > sequence_id[i]
        seen == {i \in full : \A k \in full : Before(k, i) => ~Stops(k)} IN
    b \in seen /\ \A i \in seen : sequence_id[b] <= sequence_id[i]

\* A mutant of Skips: a faster reader takes what the slower one has not taken yet.
SkipsNewer(last, seq, count) ==
    /\ last > 0 /\ count > 1
    /\ ~IsNext(last, seq, count)
    /\ seq > last
    /\ seq < last + 2 * count

\* The numbers are unsigned: last - count wraps, and a reader whose last event
\* is one of the first takes any.
Skips(last, seq, count) ==
    /\ last > 0 /\ count > 1
    /\ ~IsNext(last, seq, count)
    /\ last >= count /\ seq > last - count
    /\ seq < last + 2 * count

\* An event "left behind", by the reader whose turn it was: one of an earlier round
\* than this reader's last.
LeftBehind(last, seq, count) == last >= count /\ seq <= last - count

MayTake(p, b, count) ==
    Scanned(p, count, b) /\ ~Skips(last_seen_id_[p], sequence_id[b], count)

\* reader_count once p is registered.
CountWith(p) == IF registered_reader_[p] THEN reader_count ELSE reader_count + 1

Register(p) ==
    /\ reader_count' = CountWith(p)
    /\ registered_reader_' = [registered_reader_ EXCEPT ![p] = TRUE]

GetBufferForReading(p) ==
    \E b \in Buffers :
        /\ shm_ptr_[p] /\ held[p] = NoBuffer
        /\ MayTake(p, b, CountWith(p))
        /\ Register(p)
        /\ SetBuffer(b, "Reading", p)
        /\ held' = [held EXCEPT ![p] = b]
        /\ last_seen_id_' = [last_seen_id_ EXCEPT ![p] = sequence_id[b]]
        /\ lowest_seq_id_read' = IF lowest_seq_id_read = last_seen_id_[p] THEN sequence_id[b]
                                 ELSE lowest_seq_id_read
        /\ reader_pos' = (b + 1) % NumBuffers
        /\ leftBehind' =
               (leftBehind \/ (stayed /\ LeftBehind(last_seen_id_[p], sequence_id[b], CountWith(p))))
        /\ UNCHANGED <<sequence_id, writer_pos, next_sequence_id, shm_ptr_, timeouts, stayed>>

\* -1: the first call registers all the same.
NoBufferForReading(p) ==
    /\ shm_ptr_[p] /\ held[p] = NoBuffer /\ ~registered_reader_[p]
    /\ \A b \in Buffers : ~MayTake(p, b, CountWith(p))
    /\ Register(p)
    /\ UNCHANGED <<segment, lowest_seq_id_read, last_seen_id_, shm_ptr_, held, timeouts, stayed,
                   leftBehind>>

-----------------------------------------------------------------------------
(* MarkBufferEmpty, Detach, Attach *)

GivenBack(p) ==
    /\ sem' = [b \in Buffers |-> IF sem_id[b] = p THEN "Full" ELSE sem[b]]
    /\ sem_id' = [b \in Buffers |-> IF sem_id[b] = p THEN Nobody ELSE sem_id[b]]

\* A mutant of CountWithout: the reader stays counted.
CountStays(p) == reader_count
CountWithout(p) == IF registered_reader_[p] THEN reader_count - 1 ELSE reader_count

Detach(p) ==
    /\ GivenBack(p)
    /\ reader_count' = CountWithout(p)
    /\ registered_reader_' = [registered_reader_ EXCEPT ![p] = FALSE]
    /\ shm_ptr_' = [shm_ptr_ EXCEPT ![p] = FALSE]
    /\ held' = [held EXCEPT ![p] = NoBuffer]
    /\ stayed' = FALSE
    /\ UNCHANGED <<sequence_id, reader_pos, writer_pos, next_sequence_id,
                   lowest_seq_id_read, last_seen_id_, timeouts, leftBehind>>

\* A buffer that is no longer the reader's makes checkBuffer_ detach and throw.
MarkBufferEmpty(p) ==
    /\ held[p] # NoBuffer
    /\ IF sem[held[p]] = "Reading" /\ sem_id[held[p]] = p
       THEN /\ SetBuffer(held[p], "Empty", Nobody)
            /\ held' = [held EXCEPT ![p] = NoBuffer]
            /\ UNCHANGED <<sequence_id, reader_pos, writer_pos, next_sequence_id, counts,
                           last_seen_id_, registered_reader_, shm_ptr_, timeouts, stayed,
                           leftBehind>>
       ELSE Detach(p)

Leave(p) == p \in Leavers /\ shm_ptr_[p] /\ Detach(p)

\* The segment is there and initialised.
Attach(p) ==
    /\ ~shm_ptr_[p]
    /\ shm_ptr_' = [shm_ptr_ EXCEPT ![p] = TRUE]
    /\ last_seen_id_' = [last_seen_id_ EXCEPT ![p] = 0]
    /\ lowest_seq_id_read' = 0
    /\ UNCHANGED <<segment, reader_count, registered_reader_, held, timeouts, stayed, leftBehind>>

-----------------------------------------------------------------------------
Next ==
    \/ Publish
    \/ \E b \in Buffers : ResetBuffer(b)
    \/ \E p \in Readers :
        \/ GetBufferForReading(p) \/ NoBufferForReading(p)
        \/ MarkBufferEmpty(p) \/ Leave(p) \/ Attach(p)

Spec == Init /\ [][Next]_vars

\* Readers that are alive ask and release again and again, and time passes; one
\* that lost its buffer attaches again, one that left may stay away.
Fairness ==
    /\ \A p \in Readers \ Killed :
        /\ WF_vars(GetBufferForReading(p)) /\ WF_vars(NoBufferForReading(p))
        /\ WF_vars(MarkBufferEmpty(p))
    /\ \A p \in Readers \ Leavers : WF_vars(Attach(p))
    /\ \A b \in Buffers : WF_vars(ResetBuffer(b))

FairSpec == Spec /\ Fairness

-----------------------------------------------------------------------------
(* Properties *)

TypeOK ==
    /\ sem \in [Buffers -> {"Empty", "Full", "Reading"}]
    /\ sem_id \in [Buffers -> Readers \cup {Nobody}]
    /\ sequence_id \in [Buffers -> 0 .. MaxEvents]
    /\ reader_pos \in Buffers /\ writer_pos \in Buffers
    /\ next_sequence_id \in 0 .. MaxEvents
    /\ reader_count \in 0 .. Cardinality(Readers)
    /\ lowest_seq_id_read \in 0 .. MaxEvents
    /\ last_seen_id_ \in [Readers -> 0 .. MaxEvents]
    /\ registered_reader_ \in [Readers -> BOOLEAN]
    /\ shm_ptr_ \in [Readers -> BOOLEAN]
    /\ held \in [Readers -> Buffers \cup {NoBuffer}]
    /\ timeouts \in 0 .. MaxTimeouts /\ stayed \in BOOLEAN /\ leftBehind \in BOOLEAN

Taken == \A b \in Buffers : sem[b] = "Full" ~> sem[b] # "Full"

\* GetBufferForReading "Finds a buffer that is ready to be read": an event is
\* taken in the end, because it is always somebody's turn, as long as the readers
\* stay.
EventuallyTaken == []stayed => Taken

Alone(p) == shm_ptr_[p] /\ \A q \in Readers \ {p} : ~shm_ptr_[q]

\* The reader that stays when the others have left takes every event, whatever
\* the turns were before.
LoneReaderTakes == (\E p \in Readers : <>[]Alone(p)) => Taken

\* When two readers do not leave, each gets every other event once it has got one
\* of the later ones, whichever of them is faster, until one is so far ahead that
\* it takes an event that the other left behind.
InTurn ==
    [][\A p \in Readers :
        /\ stayed /\ ~leftBehind' /\ reader_count > 1 /\ last_seen_id_[p] >= reader_count
        /\ last_seen_id_'[p] # last_seen_id_[p]
        => last_seen_id_'[p] = last_seen_id_[p] + reader_count]_vars

\* "Gets the lowest sequence ID that has been read by any reader": no reader's
\* last event has a lower one.  (The reader that had it hands on its new one.)
LowestIsLowest ==
    \A p \in Readers :
        shm_ptr_[p] /\ last_seen_id_[p] > 0 => lowest_seq_id_read <= last_seen_id_[p]
=============================================================================
