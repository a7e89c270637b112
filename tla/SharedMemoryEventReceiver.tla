----------------------- MODULE SharedMemoryEventReceiver -----------------------
(***************************************************************************)
(* artdaq::SharedMemoryEventReceiver: events from two segments, one with   *)
(* data, each event for one receiver, and one with broadcasts, each event  *)
(* for every receiver.  ReadyForRead finds a buffer and keeps it, the      *)
(* other calls read it in place, ReleaseBuffer gives it back.              *)
(*                                                                         *)
(* Buffers are acquired and released in one step, as BufferPool promises;  *)
(* but a writer with overwrite takes Full and Reading buffers, and every   *)
(* test, copy and position is a step of its own.  A receiver's client      *)
(* calls ReadyForRead, ReadHeader, GetFragmentsByType (of all types) and   *)
(* ReleaseBuffer again and again.                                          *)
(***************************************************************************)
EXTENDS Integers, Sequences, FiniteSets

CONSTANTS
    Receivers,
    Buffers,        \* the buffers of each of the two segments
    NoBuffer,       \* current_read_buffer_ is -1
    Nobody,         \* sem_id is -1
    Writer,         \* the manager that writes to a segment
    NumEvents,      \* bound: events written to each of the two segments
    NumFragments,   \* fragments in each event
    Inits,          \* the broadcasts that consist of Init fragments
    Overwritten     \* the segments whose writer overwrites

Segments == {"data", "broadcasts"}
Fragments == 1 .. NumFragments
Parts == 0 .. NumFragments      \* part 0 is the event's header

ASSUME EventsAssumption ==
    NumEvents \in [Segments -> Nat] /\ NumFragments \in Nat \ {0} /\ Inits \subseteq Nat
ASSUME NamesAssumption ==
    /\ \A s \in Segments : NoBuffer \notin Buffers[s]
    /\ Nobody # Writer /\ {Nobody, Writer} \cap Receivers = {}
    /\ Overwritten \subseteq Segments

VARIABLES
    \* the segments
    sem, sem_id, sequence_id, writePos, readPos,
    memory,                 \* which event's data is in each part of a buffer
    writing,                \* the buffer that the segment's writer has
    events,                 \* how many events the segment's writer has begun
    endOfData,              \* the segments are marked for removal
    \* the receivers
    current_read_buffer_, current_data_source_, initialized_, last_seen_id_,
    attached,               \* the segments whose manager is attached
    call,                   \* where the receiver's call is
    types,                  \* the events whose fragment types GetFragmentTypes met
    header, output,         \* what the client got from ReadHeader and GetFragmentsByType
    handed                  \* history: the broadcasts that were handed to the client

segmentVars == <<sem, sem_id, sequence_id, writePos, readPos, memory, writing, events>>
receiverVars == <<current_read_buffer_, current_data_source_, initialized_, last_seen_id_,
                  attached, call, types, header, output, handed>>
vars == <<segmentVars, endOfData, receiverVars>>

PerBuffer(x) == [s \in Segments |-> [b \in Buffers[s] |-> x]]

Init ==
    /\ sem = PerBuffer("Empty") /\ sem_id = PerBuffer(Nobody)
    /\ sequence_id = PerBuffer(0)
    /\ writePos = PerBuffer(0) /\ readPos = PerBuffer(0)
    /\ memory = PerBuffer([i \in Parts |-> 0])
    /\ writing = [s \in Segments |-> NoBuffer]
    /\ events = [s \in Segments |-> 0]
    /\ endOfData = FALSE
    /\ current_read_buffer_ = [p \in Receivers |-> NoBuffer]
    /\ current_data_source_ = [p \in Receivers |-> "none"]
    /\ initialized_ = [p \in Receivers |-> FALSE]
    /\ last_seen_id_ = [p \in Receivers |-> 0]
    /\ attached = [p \in Receivers |-> Segments]
    /\ call = [p \in Receivers |-> "none"]
    /\ types = [p \in Receivers |-> {}]
    /\ header = [p \in Receivers |-> 0]
    /\ output = [p \in Receivers |-> <<>>]
    /\ handed = [p \in Receivers |-> <<>>]

-----------------------------------------------------------------------------
(* The writers, which the library does not contain *)

Takeable(s) == IF s \in Overwritten THEN {"Empty", "Full", "Reading"} ELSE {"Empty"}

\* GetBufferForWriting: the claim, and the new sequence id and position.
TakeBuffer(s) ==
    \E b \in Buffers[s] :
        /\ writing[s] = NoBuffer /\ events[s] < NumEvents[s]
        /\ sem[s][b] \in Takeable(s)
        /\ sem' = [sem EXCEPT ![s][b] = "Writing"]
        /\ sem_id' = [sem_id EXCEPT ![s][b] = Writer]
        /\ writing' = [writing EXCEPT ![s] = b]
        /\ events' = [events EXCEPT ![s] = @ + 1]
        /\ UNCHANGED <<sequence_id, writePos, readPos, memory, endOfData, receiverVars>>

ClearBuffer(s) ==
    LET b == writing[s] IN
    /\ b # NoBuffer
    /\ sequence_id[s][b] # events[s]
    /\ sequence_id' = [sequence_id EXCEPT ![s][b] = events[s]]
    /\ writePos' = [writePos EXCEPT ![s][b] = 0]
    /\ UNCHANGED <<sem, sem_id, readPos, memory, writing, events, endOfData, receiverVars>>

WritePart(s) ==
    LET b == writing[s] IN
    /\ b # NoBuffer
    /\ sequence_id[s][b] = events[s]
    /\ writePos[s][b] <= NumFragments
    /\ memory' = [memory EXCEPT ![s][b][writePos[s][b]] = events[s]]
    /\ writePos' = [writePos EXCEPT ![s][b] = @ + 1]
    /\ UNCHANGED <<sem, sem_id, sequence_id, readPos, writing, events, endOfData, receiverVars>>

MarkBufferFull(s) ==
    LET b == writing[s] IN
    /\ b # NoBuffer
    /\ writePos[s][b] > NumFragments /\ sequence_id[s][b] = events[s]
    /\ sem' = [sem EXCEPT ![s][b] = "Full"]
    /\ sem_id' = [sem_id EXCEPT ![s][b] = Nobody]
    /\ writing' = [writing EXCEPT ![s] = NoBuffer]
    /\ UNCHANGED <<sequence_id, writePos, readPos, memory, events, endOfData, receiverVars>>

WriterStep(s) == TakeBuffer(s) \/ ClearBuffer(s) \/ WritePart(s) \/ MarkBufferFull(s)

\* When all events are written.
RemoveSegments ==
    /\ ~endOfData
    /\ \A s \in Segments : events[s] = NumEvents[s] /\ writing[s] = NoBuffer
    /\ endOfData' = TRUE
    /\ UNCHANGED <<segmentVars, receiverVars>>

-----------------------------------------------------------------------------
(* Steps of a receiver *)

At(p, point) == call[p] = point
Goto(p, point) == call' = [call EXCEPT ![p] = point]

source(p) == current_data_source_[p]
buffer(p) == current_read_buffer_[p]

\* CheckBuffer with the flag Reading.
CheckBuffer(p) ==
    sem[source(p)][buffer(p)] = "Reading" /\ sem_id[source(p)][buffer(p)] = p

\* A step that looks, and goes on.
Look(p, point, next) ==
    /\ At(p, point)
    /\ Goto(p, next)
    /\ UNCHANGED <<segmentVars, endOfData, current_read_buffer_, current_data_source_,
                   initialized_, last_seen_id_, attached, types, header, output, handed>>

SetReadPos(p, pos) == readPos' = [readPos EXCEPT ![source(p)][buffer(p)] = pos]
MoreDataInBuffer(p) == readPos[source(p)][buffer(p)] < writePos[source(p)][buffer(p)]

Forget(p) ==
    /\ current_read_buffer_' = [current_read_buffer_ EXCEPT ![p] = NoBuffer]
    /\ current_data_source_' = [current_data_source_ EXCEPT ![p] = "none"]

\* A mutant of ReleasedTo: the mode is tested the wrong way round.
Swapped(s) == IF s = "data" THEN "Full" ELSE "Empty"
ReleasedTo(s) == IF s = "data" THEN "Empty" ELSE "Full"
\* A mutant of ReleaseBuffer: the members are reset and the buffer is kept.
OnlyForget(p) == Forget(p) /\ UNCHANGED segmentVars
\* A buffer that is no longer the receiver's is left alone.
ReleaseBuffer(p) ==
    LET s == source(p)  b == buffer(p) IN
    /\ Forget(p)
    /\ IF CheckBuffer(p)
       THEN /\ sem' = [sem EXCEPT ![s][b] = ReleasedTo(s)]
            /\ sem_id' = [sem_id EXCEPT ![s][b] = Nobody]
            /\ readPos' = [readPos EXCEPT ![s][b] = 0]
            /\ writePos' = [writePos EXCEPT ![s][b] = IF s = "data" THEN 0 ELSE @]
       ELSE UNCHANGED <<sem, sem_id, readPos, writePos>>
    /\ UNCHANGED <<sequence_id, memory, writing, events>>

-----------------------------------------------------------------------------
(* ReadyForRead *)

Ready(p, s, b) ==
    /\ sem[s][b] = "Full" /\ sem_id[s][b] \in {Nobody, p}
    /\ s = "broadcasts" => sequence_id[s][b] > last_seen_id_[p]
SegmentReady(p, s) == s \in attached[p] /\ \E b \in Buffers[s] : Ready(p, s, b)

\* At once when a buffer is being read.
ReadyForRead(p) ==
    Look(p, "none", IF buffer(p) # NoBuffer THEN "true" ELSE "broadcasts")

\* broadcasts_.ReadyForRead(), data_.ReadyForRead()
TestSegment(p, s) ==
    /\ At(p, s)
    /\ IF SegmentReady(p, s)
       THEN Goto(p, "get") /\ current_data_source_' = [current_data_source_ EXCEPT ![p] = s]
       ELSE /\ Goto(p, IF s = "broadcasts" THEN "data" ELSE "nothing")
            /\ UNCHANGED current_data_source_
    /\ UNCHANGED <<segmentVars, endOfData, current_read_buffer_, initialized_, last_seen_id_,
                   attached, types, header, output, handed>>

\* GetBufferForReading and ResetReadPos.  Which of the buffers its scan meets
\* first depends on the positions, and is any here.
GetBuffer(p) ==
    LET s == source(p) IN
    /\ At(p, "get")
    /\ \E b \in Buffers[s] :
        /\ Ready(p, s, b)
        /\ sem' = [sem EXCEPT ![s][b] = "Reading"]
        /\ sem_id' = [sem_id EXCEPT ![s][b] = p]
        /\ readPos' = [readPos EXCEPT ![s][b] = 0]
        /\ current_read_buffer_' = [current_read_buffer_ EXCEPT ![p] = b]
        /\ last_seen_id_' = IF s = "data" THEN last_seen_id_
                            ELSE [last_seen_id_ EXCEPT ![p] = sequence_id[s][b]]
        /\ Goto(p, IF s = "data" THEN "true" ELSE "types")
    /\ UNCHANGED <<sequence_id, writePos, memory, writing, events, endOfData,
                   current_data_source_, initialized_, attached, types, header, output, handed>>

\* It was there, and another receiver has it now.
GetNothing(p) ==
    /\ ~SegmentReady(p, source(p))
    /\ Look(p, "get", "nothing")

\* The end of data, the timeout, or another turn.
Nothing(p) ==
    /\ At(p, "nothing")
    /\ current_data_source_' = [current_data_source_ EXCEPT ![p] = "none"]
    /\ \E next \in {"none"} \cup (IF endOfData \/ attached[p] # Segments THEN {} ELSE {"broadcasts"}) :
           Goto(p, next)
    /\ UNCHANGED <<segmentVars, endOfData, current_read_buffer_, initialized_, last_seen_id_,
                   attached, types, header, output, handed>>

-----------------------------------------------------------------------------
(* GetFragmentTypes, for broadcasts, and the Init fragments *)

GetFragmentTypes(p) ==
    /\ At(p, "types")
    /\ IF CheckBuffer(p) THEN SetReadPos(p, 1) /\ Goto(p, "more_types")
       ELSE Goto(p, "true") /\ UNCHANGED readPos
    /\ types' = [types EXCEPT ![p] = {}]
    /\ UNCHANGED <<sem, sem_id, sequence_id, writePos, memory, writing, events, endOfData,
                   current_read_buffer_, current_data_source_, initialized_, last_seen_id_,
                   attached, header, output, handed>>

MoreTypes(p) ==
    Look(p, "more_types", IF ~MoreDataInBuffer(p) THEN "decide"
                          ELSE IF CheckBuffer(p) THEN "next_type" ELSE "true")

\* IncrementReadPos does nothing to a buffer that is not the receiver's.
NextType(p) ==
    /\ At(p, "next_type")
    /\ types' = [types EXCEPT ![p] = @ \cup {memory[source(p)][buffer(p)][readPos[source(p)][buffer(p)]]}]
    /\ IF CheckBuffer(p) THEN SetReadPos(p, readPos[source(p)][buffer(p)] + 1) ELSE UNCHANGED readPos
    /\ Goto(p, "more_types")
    /\ UNCHANGED <<sem, sem_id, sequence_id, writePos, memory, writing, events, endOfData,
                   current_read_buffer_, current_data_source_, initialized_, last_seen_id_,
                   attached, header, output, handed>>

NeverInitialized(p) == FALSE        \* a mutant of Initialized
Initialized(p) == types[p] \cap Inits # {}

\* An Init after the first is released and the search goes on.
DecideInit(p) ==
    /\ At(p, "decide")
    /\ IF types[p] \cap Inits # {} /\ initialized_[p]
       THEN ReleaseBuffer(p) /\ Goto(p, "broadcasts") /\ UNCHANGED initialized_
       ELSE /\ initialized_' = [initialized_ EXCEPT ![p] = @ \/ Initialized(p)]
            /\ Goto(p, "true")
            /\ UNCHANGED <<segmentVars, current_read_buffer_, current_data_source_>>
    /\ types' = [types EXCEPT ![p] = {}]
    /\ UNCHANGED <<endOfData, last_seen_id_, attached, header, output, handed>>

-----------------------------------------------------------------------------
(* ReadHeader, GetFragmentsByType, ReleaseBuffer *)

\* A manager that is not attached has no segment to look at: the process ends.
ReadHeader(p) ==
    /\ At(p, "true")
    /\ IF source(p) \notin attached[p]
       THEN Goto(p, "dead") /\ UNCHANGED <<current_read_buffer_, current_data_source_>>
       ELSE IF CheckBuffer(p)
       THEN Goto(p, "header") /\ UNCHANGED <<current_read_buffer_, current_data_source_>>
       ELSE Goto(p, "none") /\ Forget(p)
    /\ UNCHANGED <<segmentVars, endOfData, initialized_, last_seen_id_, attached, types,
                   header, output, handed>>

\* The client follows the pointer to the header.
UseHeader(p) ==
    /\ At(p, "header")
    /\ header' = [header EXCEPT ![p] = memory[source(p)][buffer(p)][0]]
    /\ \E next \in {"fragments", "release"} : Goto(p, next)
    /\ UNCHANGED <<segmentVars, endOfData, current_read_buffer_, current_data_source_,
                   initialized_, last_seen_id_, attached, types, output, handed>>

\* A mutant of FirstFragment: the position is where the last call left it.
SamePosition(p) == readPos[source(p)][buffer(p)]
FirstFragment(p) == 1

GetFragmentsByType(p) ==
    /\ At(p, "fragments")
    /\ IF CheckBuffer(p) THEN SetReadPos(p, FirstFragment(p)) /\ Goto(p, "more")
       ELSE Goto(p, "release") /\ UNCHANGED readPos
    /\ output' = [output EXCEPT ![p] = <<>>]
    /\ UNCHANGED <<sem, sem_id, sequence_id, writePos, memory, writing, events, endOfData,
                   current_read_buffer_, current_data_source_, initialized_, last_seen_id_,
                   attached, types, header, handed>>

MoreFragments(p) ==
    Look(p, "more", IF ~MoreDataInBuffer(p) THEN "done"
                    ELSE IF CheckBuffer(p) THEN "read" ELSE "release")

\* The check at the start of Read; when it fails the manager detaches, the
\* exception leaves GetFragmentsByType, and the members stay as they are.
Read(p) ==
    /\ At(p, "read")
    /\ IF CheckBuffer(p)
       THEN Goto(p, "copy") /\ UNCHANGED attached
       ELSE Goto(p, "none") /\ attached' = [attached EXCEPT ![p] = @ \ {source(p)}]
    /\ UNCHANGED <<segmentVars, endOfData, current_read_buffer_, current_data_source_,
                   initialized_, last_seen_id_, types, header, output, handed>>

\* The copy, and the check after it, whose answer the caller ignores.
ReadEnd(p) ==
    LET pos == readPos[source(p)][buffer(p)] IN
    /\ At(p, "copy")
    /\ output' = [output EXCEPT ![p] = Append(@, memory[source(p)][buffer(p)][pos])]
    /\ IF CheckBuffer(p) THEN SetReadPos(p, pos + 1) ELSE UNCHANGED readPos
    /\ Goto(p, "more")
    /\ UNCHANGED <<sem, sem_id, sequence_id, writePos, memory, writing, events, endOfData,
                   current_read_buffer_, current_data_source_, initialized_, last_seen_id_,
                   attached, types, header, handed>>

\* GetFragmentsByType returns its fragments, with err false.
Return(p) ==
    /\ At(p, "done")
    /\ handed' = IF source(p) = "data" THEN handed
                 ELSE [handed EXCEPT ![p] = Append(@, header[p])]
    /\ Goto(p, "release")
    /\ UNCHANGED <<segmentVars, endOfData, current_read_buffer_, current_data_source_,
                   initialized_, last_seen_id_, attached, types, header, output>>

Release(p) ==
    /\ At(p, "release")
    /\ ReleaseBuffer(p)
    /\ Goto(p, "none")
    /\ header' = [header EXCEPT ![p] = 0] /\ output' = [output EXCEPT ![p] = <<>>]
    /\ UNCHANGED <<endOfData, initialized_, last_seen_id_, attached, types, handed>>

-----------------------------------------------------------------------------
Step(p) ==
    \/ ReadyForRead(p) \/ (\E s \in Segments : TestSegment(p, s))
    \/ GetBuffer(p) \/ GetNothing(p) \/ Nothing(p)
    \/ GetFragmentTypes(p) \/ MoreTypes(p) \/ NextType(p) \/ DecideInit(p)
    \/ ReadHeader(p) \/ UseHeader(p)
    \/ GetFragmentsByType(p) \/ MoreFragments(p) \/ Read(p) \/ ReadEnd(p) \/ Return(p) \/ Release(p)

Next ==
    \/ \E s \in Segments : WriterStep(s)
    \/ RemoveSegments
    \/ \E p \in Receivers : Step(p)

Spec == Init /\ [][Next]_vars

\* The clients call ReadyForRead again and again, and every call goes on.
FairSpec == Spec /\ \A p \in Receivers : WF_vars(Step(p))

-----------------------------------------------------------------------------
(* Properties *)

Points == {"none", "broadcasts", "data", "get", "nothing", "true", "types", "more_types",
           "next_type", "decide", "header", "fragments", "more", "read", "copy", "done",
           "release", "dead"}

PerBufferIn(x, S) == DOMAIN x = Segments /\ \A s \in Segments : x[s] \in [Buffers[s] -> S]

TypeOK ==
    /\ PerBufferIn(sem, {"Empty", "Writing", "Full", "Reading"})
    /\ PerBufferIn(sem_id, Receivers \cup {Nobody, Writer})
    /\ PerBufferIn(sequence_id, Nat)
    /\ PerBufferIn(writePos, 0 .. (NumFragments + 1))
    /\ PerBufferIn(readPos, 0 .. (NumFragments + 1))
    /\ PerBufferIn(memory, [Parts -> Nat])
    /\ DOMAIN writing = Segments /\ \A s \in Segments : writing[s] \in Buffers[s] \cup {NoBuffer}
    /\ events \in [Segments -> Nat]
    /\ endOfData \in BOOLEAN
    /\ current_read_buffer_ \in [Receivers -> (UNION {Buffers[s] : s \in Segments}) \cup {NoBuffer}]
    /\ current_data_source_ \in [Receivers -> Segments \cup {"none"}]
    /\ initialized_ \in [Receivers -> BOOLEAN]
    /\ last_seen_id_ \in [Receivers -> Nat]
    /\ attached \in [Receivers -> SUBSET Segments]
    /\ call \in [Receivers -> Points]
    /\ types \in [Receivers -> SUBSET Nat]
    /\ header \in [Receivers -> Nat]
    /\ output \in [Receivers -> Seq(Nat)]
    /\ handed \in [Receivers -> Seq(Nat)]

\* The fragments that GetFragmentsByType returns without an error are all those
\* of the event whose header was read, and of no other.
FragmentsOfEvent ==
    \A p \in Receivers : At(p, "done") => output[p] = [i \in Fragments |-> header[p]]

\* "Ignore any Init fragments after the first": over the whole life of a
\* receiver its client gets one Init event, and broadcasts come in order.
InitOnce ==
    \A p \in Receivers :
        /\ Cardinality({i \in DOMAIN handed[p] : handed[p][i] \in Inits}) <= 1
        /\ \A i, j \in DOMAIN handed[p] : i < j => handed[p][i] < handed[p][j]

\* A buffer that is Reading is the current buffer of its receiver: no path
\* through ReadyForRead or an error leaves one behind.
NothingForgotten ==
    \A s \in Segments : \A b \in Buffers[s] :
        sem[s][b] = "Reading" => source(sem_id[s][b]) = s /\ buffer(sem_id[s][b]) = b

Published == IF writing["broadcasts"] = NoBuffer THEN events["broadcasts"]
             ELSE events["broadcasts"] - 1

\* Every receiver comes to the newest broadcast, whoever else reads it before and
\* whatever Init events are skipped.
ReceiversKeepUp == \A p \in Receivers : []<>(last_seen_id_[p] >= Published)
=============================================================================
