----------------------------- MODULE BufferPositions -----------------------------
(***************************************************************************)
(* The positions of one buffer: what managers that write, skip, start      *)
(* over, read and give up do to writePos and readPos, with requests of any *)
(* size, in any order the checks let through, and with the buffer given    *)
(* back in the middle.  A call is one step here: SharedMemoryManager has   *)
(* the interleaving, without sizes.                                        *)
(***************************************************************************)
EXTENDS Integers

CONSTANTS
    Managers,
    Owner,          \* manager_id_ is 0
    NoManager,      \* sem_id is -1
    Forcers,        \* who empties buffers by force
    DestructiveRead,
    BufferSize,
    Sizes,          \* what is asked for in one call
    MaxReadPos      \* bound: nothing in the code limits readPos

ASSUME ManagersAssumption == NoManager \notin Managers /\ DestructiveRead \in BOOLEAN
ASSUME SizesAssumption == BufferSize \in Nat /\ Sizes \subseteq Nat /\ MaxReadPos \in Nat

VARIABLES
    sem, sem_id, writePos, readPos,
    attached,       \* the managers with a segment
    author,         \* who wrote which byte
    finished,       \* the writer has marked the buffer full
    copied          \* where the last Read ended, since the buffer was taken for writing

history == <<author, finished, copied>>
vars == <<sem, sem_id, writePos, readPos, attached, history>>

Bytes == 0 .. BufferSize - 1

Init ==
    /\ sem = "Empty" /\ sem_id = NoManager
    /\ writePos = 0 /\ readPos = 0
    /\ attached = Managers
    /\ author = [i \in Bytes |-> NoManager]
    /\ finished = FALSE /\ copied = 0

\* A mutant of Holds: the state is not checked.
HoldsSomehow(m, flag) == m \in attached /\ sem_id = m
Holds(m, flag) == m \in attached /\ sem_id = m /\ sem = flag

\* Mutants of GivenBack: the state stays, and a writer's buffer becomes a reader's.
GivenBackAsItIs(flag) == flag
GivenBackFull(flag) == IF flag \in {"Writing", "Reading"} THEN "Full" ELSE flag
\* What a manager that detaches makes of the buffer it holds.
GivenBack(flag) == IF flag = "Writing" THEN "Empty" ELSE IF flag = "Reading" THEN "Full" ELSE flag

Leave(m) ==
    /\ attached' = attached \ {m}
    /\ IF sem_id = m
       THEN sem' = GivenBack(sem) /\ sem_id' = NoManager
       ELSE UNCHANGED <<sem, sem_id>>

\* On an exception too.  The positions stay.
Detach(m) ==
    /\ m \in attached
    /\ Leave(m)
    /\ UNCHANGED <<writePos, readPos, history>>

Attach(m) ==
    /\ attached' = attached \cup {m} /\ m \notin attached
    /\ UNCHANGED <<sem, sem_id, writePos, readPos, history>>

-----------------------------------------------------------------------------
(* The writer *)

\* A mutant of WriteStart: what is there stays.
WriteStartKeeps(pos) == pos
\* Where a writer that gets the buffer starts.
WriteStart(pos) == 0

\* With overwrite a full one is taken too, and one that somebody is reading.
GetBufferForWriting(m) ==
    /\ m \in attached
    /\ \/ sem \in {"Empty", "Full"} /\ sem_id = NoManager
       \/ sem = "Reading"
    /\ sem' = "Writing" /\ sem_id' = m
    /\ writePos' = WriteStart(writePos)
    /\ finished' = FALSE /\ copied' = 0
    /\ UNCHANGED <<readPos, attached, author>>

\* A mutant of Fits: off by one.
FitsAlmost(pos, n) == pos + n <= BufferSize + 1
Fits(pos, n) == pos + n <= BufferSize

Extend(m, n) ==
    /\ writePos' = writePos + n
    /\ author' = [i \in Bytes |-> IF writePos <= i /\ i < writePos + n THEN m ELSE author[i]]

Write(m, n) ==
    /\ Holds(m, "Writing") /\ Fits(writePos, n)
    /\ Extend(m, n)
    /\ UNCHANGED <<sem, sem_id, readPos, attached, finished, copied>>

\* The client has filled the bytes itself; what does not fit is refused, and 0 is
\* an exception.
IncrementWritePos(m, n) ==
    /\ Holds(m, "Writing") /\ Fits(writePos, n)
    /\ Extend(m, n)
    /\ IF n = 0 THEN Leave(m) ELSE UNCHANGED <<sem, sem_id, attached>>
    /\ UNCHANGED <<readPos, finished, copied>>

ResetWritePos(m) ==
    /\ Holds(m, "Writing")
    /\ writePos' = 0
    /\ UNCHANGED <<sem, sem_id, readPos, attached, history>>

\* For any reader, or for one that is there.  A reader may give its buffer back with it.
MarkBufferFull(m, destination) ==
    /\ m \in attached /\ sem_id = m
    /\ sem' = "Full" /\ sem_id' = destination
    /\ finished' = TRUE
    /\ UNCHANGED <<writePos, readPos, attached, author, copied>>

-----------------------------------------------------------------------------
(* The reader *)

GetBufferForReading(m) ==
    /\ m \in attached
    /\ sem = "Full" /\ sem_id \in {NoManager, m}
    /\ sem' = "Reading" /\ sem_id' = m
    /\ readPos' = 0
    /\ UNCHANGED <<writePos, attached, history>>

Read(m, n) ==
    /\ Holds(m, "Reading") /\ Fits(readPos, n)
    /\ readPos' = readPos + n
    /\ copied' = readPos + n
    /\ UNCHANGED <<sem, sem_id, writePos, attached, author, finished>>

\* The position moves, in whatever state the manager holds the buffer; then 0 is refused.
IncrementReadPos(m, n) ==
    /\ m \in attached /\ sem_id = m
    /\ readPos + n <= MaxReadPos
    /\ n # 0
    /\ readPos' = readPos + n
    /\ UNCHANGED <<sem, sem_id, writePos, attached, history>>

ResetReadPos(m) ==
    /\ m \in attached /\ sem_id = m
    /\ readPos' = 0
    /\ UNCHANGED <<sem, sem_id, writePos, attached, history>>

Release(toEmpty) ==
    /\ IF toEmpty
       THEN sem' = "Empty" /\ writePos' = 0
       ELSE sem' = "Full" /\ UNCHANGED writePos
    /\ sem_id' = NoManager
    /\ UNCHANGED <<attached, history>>

MarkBufferEmpty(m) ==
    /\ Holds(m, "Reading")
    /\ Release(DestructiveRead)
    /\ readPos' = 0

\* With force nothing is checked, and only the owner and the holder empty the buffer.
MarkBufferEmptyForced(m) ==
    /\ m \in attached \cap Forcers
    /\ Release(m = Owner \/ sem_id = m)
    /\ readPos' = 0

\* The buffer was not touched for buffer_timeout_us, which may be at any time.
ResetBuffer(m) ==
    /\ m \in attached
    /\ \/ /\ sem = "Full" /\ ~DestructiveRead /\ m = Owner
          /\ Release(TRUE)
          /\ UNCHANGED readPos
       \/ /\ sem = "Reading" /\ sem_id # m
          /\ Release(FALSE)
          /\ readPos' = 0

-----------------------------------------------------------------------------
\* Every call that a check refuses with an exception is a Detach, IncrementReadPos
\* by 0 among them; one that returns without a change is no step.
Next ==
    \E m \in Managers :
        \/ Detach(m) \/ Attach(m)
        \/ GetBufferForWriting(m) \/ ResetWritePos(m)
        \/ \E d \in attached \cup {NoManager} : MarkBufferFull(m, d)
        \/ GetBufferForReading(m) \/ ResetReadPos(m)
        \/ MarkBufferEmpty(m) \/ MarkBufferEmptyForced(m) \/ ResetBuffer(m)
        \/ \E n \in Sizes :
            Write(m, n) \/ IncrementWritePos(m, n) \/ Read(m, n) \/ IncrementReadPos(m, n)

Spec == Init /\ [][Next]_vars

-----------------------------------------------------------------------------
(* Properties *)

Written == 0 .. writePos - 1
Published == sem \in {"Full", "Reading"}

\* The position of the writer stays inside of the buffer, in whatever portions
\* and however often it is written.
WriteInside == writePos \in 0 .. BufferSize

\* What is published comes from one writer: nothing is left over from one that
\* gave up in the middle.
NothingLeftOver ==
    Published => \A i, j \in Written : author[i] = author[j]

\* What a writer gave up in the middle is never published.
OnlyFinished == Published => finished

\* What is published stays as it is until the buffer is taken for writing or emptied.
PublishedStays ==
    [][Published /\ Published' => writePos' = writePos /\ author' = author]_vars

TypeOK ==
    /\ sem \in {"Empty", "Writing", "Full", "Reading"}
    /\ sem_id \in attached \cup {NoManager}
    /\ attached \subseteq Managers
    /\ writePos \in Nat /\ readPos \in Nat /\ copied \in Nat
    /\ author \in [Bytes -> Managers \cup {NoManager}]
    /\ finished \in BOOLEAN
    /\ sem = "Empty" => sem_id = NoManager
    /\ sem \in {"Writing", "Reading"} => sem_id \in attached

\* "Attempted to read more data than exists in Shared Memory!": Read returns only
\* what was written.  (It looks at the size of the buffer only.)
ReadsWhatExists == sem = "Reading" => copied <= writePos
=============================================================================
