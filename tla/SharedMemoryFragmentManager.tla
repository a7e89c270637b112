---------------------- MODULE SharedMemoryFragmentManager ----------------------
(***************************************************************************)
(* artdaq::SharedMemoryFragmentManager: one fragment per buffer, from the  *)
(* processes that call WriteFragment to those that call ReadFragmentHeader *)
(* and ReadFragmentData, over a segment that may be removed and created    *)
(* again under them.  The buffer that a call works on is active_buffer_,   *)
(* which outlives the call.                                                *)
(*                                                                         *)
(* WriteFragment is called without overwrite, so that no timeout ends its  *)
(* wait for a buffer.                                                      *)
(***************************************************************************)
EXTENDS SharedMemorySegment

CONSTANTS
    Senders,        \* the managers that call WriteFragment
    Receivers,      \* the managers that read fragments
    Destructed,     \* the managers that may be destructed, and constructed again
    Oversized,      \* the fragments that do not fit into a buffer
    NoBuffer,       \* active_buffer_ is -1
    MaxFragments    \* bound: fragments written

ASSUME SendersAssumption ==
    /\ Senders \subseteq Managers /\ Destructed \subseteq Managers
    /\ Receivers \subseteq Managers \ Senders
ASSUME FragmentsAssumption ==
    MaxFragments \in Nat /\ NoBuffer \notin Buffers

Fragments == 1 .. MaxFragments

VARIABLES
    active_buffer_,
    call,           \* where WriteFragment or the two read functions are
    fragment,       \* the fragment that is written, or the one that was read
    written,        \* how many fragments were given to WriteFragment
    acknowledged,   \* history: the fragments WriteFragment returned 0 for
    received,       \* history: how often a fragment was read to the end, 2 for more than once
    abandoned,      \* history: the ids with which managers were killed, with their segments
    kills,          \* history: how many kills and resets of the count there were
    retired         \* history: the segments whose owner was destructed

ended == <<abandoned, kills, retired>>
fragmentVars == <<active_buffer_, call, fragment, written, acknowledged, received, ended>>
vars == <<segmentVars, fragmentVars>>

Init ==
    /\ SegmentInit
    /\ active_buffer_ = [p \in Managers |-> NoBuffer]
    /\ call = [p \in Managers |-> "none"]
    /\ fragment = [p \in Managers |-> 0]
    /\ written = 0
    /\ acknowledged = {}
    /\ received = [n \in Fragments |-> 0]
    /\ abandoned = {} /\ kills = 0 /\ retired = {}

In(p, point) == call[p] = point /\ At(p, "idle")
Mapped(p, point) == In(p, point) /\ Attached(p)
Next_(p, point) == call' = [call EXCEPT ![p] = point]
SetActive(p, b) == active_buffer_' = [active_buffer_ EXCEPT ![p] = b]

\* checkBuffer_ with exceptions: Detach, and the call is left.
Throw(p) ==
    /\ DetachTo(p, "idle")
    /\ Next_(p, "none")
    /\ UNCHANGED <<active_buffer_, fragment, written, acknowledged, received, ended>>

-----------------------------------------------------------------------------
(* Construction, destruction, signals *)

Construct(p) ==
    /\ In(p, "none") /\ ~IsValid(p)
    /\ IF p \in Owners THEN key # None \/ created + kills < MaxSegments
       ELSE \A s \in Segments : next_id[s] <= MaxIds
    /\ Attach(p)
    /\ Next_(p, "construct")
    /\ UNCHANGED <<active_buffer_, fragment, written, acknowledged, received, ended>>

\* Bound: a kill counts as a segment, and no signal comes with it.
MayKill == created + kills < MaxSegments /\ caught = {}

\* Every buffer of the segment is anew.
Initialize(p) ==
    /\ OwnerInit(p)
    /\ abandoned' = {x \in abandoned : x[1] # shm_ptr_[p]}
    /\ UNCHANGED <<active_buffer_, call, fragment, written, acknowledged, received, kills, retired>>

Constructed(p) ==
    /\ call[p] = "construct" /\ Returned(p)
    /\ Goto(p, "idle")
    /\ Next_(p, "none")
    /\ UNCHANGED <<kernel, segment, shm_segment_id_, shm_ptr_, manager_id_, caught,
                   active_buffer_, fragment, written, acknowledged, received, ended>>

\* The destructor; the process may construct another manager later.
Destruct(p) ==
    /\ p \in Destructed /\ In(p, "none") /\ IsValid(p)
    /\ DetachTo(p, "idle")
    /\ SetActive(p, NoBuffer)
    /\ retired' = IF p \in Owners THEN retired \cup {shm_segment_id_[p]} ELSE retired
    /\ UNCHANGED <<call, fragment, written, acknowledged, received, abandoned, kills>>

\* A call that goes on without the mapping dereferences it: not the tests of
\* WriteFragment, but every function that names a buffer.
Fault(p) ==
    /\ call[p] \in {"ready", "write", "full", "header", "between", "data", "empty"}
    /\ ~Attached(p)
    /\ Die(p)
    /\ UNCHANGED fragmentVars

End(p) ==
    /\ \/ Signal(p) /\ kills = 0 /\ UNCHANGED kills
       \/ Kill(p) /\ MayKill /\ kills' = kills + 1
    /\ abandoned' = IF attach'[p] = "dead" THEN abandoned \cup LeftBehind(p) ELSE abandoned
    /\ UNCHANGED <<active_buffer_, call, fragment, written, acknowledged, received, retired>>

StartAgain(p) ==
    /\ Restart(p)
    /\ Next_(p, "none")
    /\ SetActive(p, NoBuffer)
    /\ fragment' = [fragment EXCEPT ![p] = 0]
    /\ UNCHANGED <<written, acknowledged, received, ended>>

ResetCount(p) ==
    /\ MayKill
    /\ ResetAttachedCount(p)
    /\ kills' = kills + 1
    /\ UNCHANGED <<active_buffer_, call, fragment, written, acknowledged, received, abandoned, retired>>

-----------------------------------------------------------------------------
(* WriteFragment *)

WriteFragment(p) ==
    /\ p \in Senders /\ In(p, "none")
    /\ written < MaxFragments
    /\ written' = written + 1
    /\ fragment' = [fragment EXCEPT ![p] = written']
    /\ Next_(p, "check")
    /\ UNCHANGED <<segmentVars, active_buffer_, acknowledged, received, ended>>

CheckSegment(p) ==
    /\ In(p, "check")
    /\ IF IsEndOfData(p)
       THEN Attach(p) /\ Next_(p, "reattach")
       ELSE Next_(p, "ready") /\ UNCHANGED segmentVars
    /\ UNCHANGED <<active_buffer_, fragment, written, acknowledged, received, ended>>

Reattached(p) ==
    /\ call[p] = "reattach" /\ Returned(p)
    /\ Goto(p, "idle")
    /\ Next_(p, IF At(p, "ok") THEN "ready" ELSE "none")
    /\ UNCHANGED <<kernel, segment, shm_segment_id_, shm_ptr_, manager_id_, caught,
                   active_buffer_, fragment, written, acknowledged, received, ended>>

\* True at once when a buffer is active.
ReadyForWrite(p) ==
    LET s == shm_ptr_[p] IN
    /\ Mapped(p, "ready")
    /\ IF active_buffer_[p] # NoBuffer
       THEN UNCHANGED <<segmentVars, active_buffer_>>
       ELSE \E b \in Buffers :
            /\ sem[s][b] = "Empty" /\ sem_id[s][b] = Nobody
            /\ SetBuffer(s, b, "Writing", manager_id_[p])
            /\ SetActive(p, b)
            /\ UNCHANGED <<kernel, ready_magic, next_id, content, manager>>
    /\ Next_(p, "write")
    /\ UNCHANGED <<fragment, written, acknowledged, received, ended>>

\* No buffer is free: the loop looks at the segment before it tries again.
WaitForBuffer(p) ==
    LET s == shm_ptr_[p] IN
    /\ Mapped(p, "ready")
    /\ active_buffer_[p] = NoBuffer
    /\ \A b \in Buffers : sem[s][b] # "Empty" \/ sem_id[s][b] # Nobody
    /\ Next_(p, "check")
    /\ UNCHANGED <<segmentVars, active_buffer_, fragment, written, acknowledged, received, ended>>

Write(p) ==
    LET s == shm_ptr_[p]
        b == active_buffer_[p] IN
    /\ Mapped(p, "write")
    /\ IF Owns(p, b, "Writing") /\ fragment[p] \notin Oversized
       THEN /\ content' = [content EXCEPT ![s][b] = fragment[p]]
            /\ Next_(p, "full")
            /\ UNCHANGED <<kernel, ready_magic, next_id, sem, sem_id, manager,
                           active_buffer_, fragment, written, acknowledged, received, ended>>
       ELSE Throw(p)

\* A mutant of Destination: the buffer stays with the sender.
Sender(p) == manager_id_[p]
Destination(p) == Nobody

\* MarkBufferFull does nothing to a buffer that is not the manager's.
MarkBufferFull(p) ==
    LET s == shm_ptr_[p]
        b == active_buffer_[p] IN
    /\ Mapped(p, "full")
    /\ IF sem_id[s][b] = manager_id_[p]
       THEN SetBuffer(s, b, "Full", Destination(p))
       ELSE UNCHANGED <<sem, sem_id>>
    /\ SetActive(p, NoBuffer)
    /\ acknowledged' = acknowledged \cup {fragment[p]}
    /\ Next_(p, "none")
    /\ UNCHANGED <<kernel, ready_magic, next_id, content, manager, fragment, written, received, ended>>

-----------------------------------------------------------------------------
(* ReadFragmentHeader, ReadFragmentData *)

ReadFragmentHeader(p) ==
    LET s == shm_ptr_[p] IN
    /\ p \in Receivers /\ In(p, "none")
    /\ Attached(p)
    /\ \E b \in Buffers :
        /\ sem[s][b] = "Full" /\ sem_id[s][b] \in {Nobody, manager_id_[p]}
        /\ SetBuffer(s, b, "Reading", manager_id_[p])
        /\ SetActive(p, b)
    /\ Next_(p, "header")
    /\ UNCHANGED <<kernel, ready_magic, next_id, content, manager,
                   fragment, written, acknowledged, received, ended>>

ReadHeader(p) ==
    LET b == active_buffer_[p] IN
    /\ Mapped(p, "header")
    /\ IF Owns(p, b, "Reading")
       THEN /\ Next_(p, "between")
            /\ UNCHANGED <<segmentVars, active_buffer_, fragment, written, acknowledged, received, ended>>
       ELSE Throw(p)

ReadFragmentData(p) ==
    /\ Mapped(p, "between")
    /\ Next_(p, IF Owns(p, active_buffer_[p], "Reading") THEN "data" ELSE "none")
    /\ UNCHANGED <<segmentVars, active_buffer_, fragment, written, acknowledged, received, ended>>

ReadData(p) ==
    /\ Mapped(p, "data")
    /\ IF Owns(p, active_buffer_[p], "Reading")
       THEN /\ fragment' = [fragment EXCEPT ![p] = content[shm_ptr_[p]][active_buffer_[p]]]
            /\ Next_(p, "empty")
            /\ UNCHANGED <<segmentVars, active_buffer_, written, acknowledged, received, ended>>
       ELSE Throw(p)

\* A mutant of Released: the buffer is Full again.
Kept == "Full"
Released == "Empty"

MarkBufferEmpty(p) ==
    LET s == shm_ptr_[p]
        b == active_buffer_[p] IN
    /\ Mapped(p, "empty")
    /\ IF Owns(p, b, "Reading")
       THEN /\ SetBuffer(s, b, Released, Nobody)
            /\ SetActive(p, NoBuffer)
            /\ received' = [received EXCEPT ![fragment[p]] = IF @ = 0 THEN 1 ELSE 2]
            /\ Next_(p, "none")
            /\ UNCHANGED <<kernel, ready_magic, next_id, content, manager,
                           fragment, written, acknowledged, ended>>
       ELSE Throw(p)

-----------------------------------------------------------------------------
Step(p) ==
    \/ (AttachStep(p) /\ UNCHANGED fragmentVars)
    \/ Initialize(p) \/ Constructed(p) \/ Reattached(p)
    \/ Fault(p)
    \/ CheckSegment(p) \/ ReadyForWrite(p) \/ WaitForBuffer(p) \/ Write(p) \/ MarkBufferFull(p)
    \/ ReadHeader(p) \/ ReadFragmentData(p) \/ ReadData(p) \/ MarkBufferEmpty(p)

Next ==
    \E p \in Managers :
        \/ Step(p)
        \/ Construct(p) \/ Destruct(p) \/ End(p) \/ StartAgain(p) \/ ResetCount(p)
        \/ WriteFragment(p) \/ ReadFragmentHeader(p)

Spec == Init /\ [][Next]_vars

\* A call goes on, and the receivers ask for fragments again and again.
Fairness ==
    /\ \A p \in Managers : WF_vars(Step(p))
    /\ \A p \in Receivers : WF_vars(ReadFragmentHeader(p))

FairSpec == Spec /\ Fairness

\* An owner that was killed is started again.
RestartSpec ==
    /\ FairSpec
    /\ \A p \in Owners : WF_vars(StartAgain(p)) /\ WF_vars(Construct(p))

-----------------------------------------------------------------------------
(* Properties *)

Abandoned(s, b) == <<s, sem_id[s][b]>> \in abandoned
Holds(p, b) == Attached(p) /\ active_buffer_[p] = b

\* "Assign a new ID": no two managers that are attached to a segment have the
\* same id, whenever they came and whoever went before.
IdsUnique ==
    \A p, q \in Managers :
        p # q /\ Attached(p) /\ shm_ptr_[p] = shm_ptr_[q] /\ manager_id_[p] # Nobody
            => manager_id_[p] # manager_id_[q]

\* Nobody has been killed, and the owner has not reset the count.
Undisturbed == kills = 0

\* While nobody is killed and the owner leaves next_id alone, no two managers
\* share an id, and with it the buffers of either.
IdsUniqueUndisturbed == Undisturbed => IdsUnique

\* A buffer in use is the active buffer of a manager that is attached: those
\* that come and go leave nothing behind, unless they are killed without notice.
NoBufferLost ==
    \A s \in Segments, b \in Buffers :
        sem[s][b] \in {"Writing", "Reading"}
            => \/ \E p \in Managers : shm_ptr_[p] = s /\ Holds(p, b)
               \/ Abandoned(s, b)

\* The buffers in which a fragment is published.
Places(n) ==
    {x \in Segments \X Buffers :
        sem[x[1]][x[2]] \in {"Full", "Reading"} /\ content[x[1]][x[2]] = n}

\* A fragment that WriteFragment returned 0 for is in one buffer until it is read
\* to the end, by one receiver and once.  It is lost with its segment, and a
\* segment is only removed because its owner was destructed: no exception on the
\* way does it, whoever detaches, throws or is signalled.
AcknowledgedOnce ==
    \A n \in acknowledged :
        /\ received[n] + Cardinality(Places(n)) = 1
        /\ \A x \in Places(n) : x[1] \in removed => x[1] \in retired

\* While nobody is killed and the owner leaves next_id alone: what was acknowledged
\* waits in its segment or was read once, or is lost because the owner of its
\* segment was destructed, before or after WriteFragment returned 0 for it.
AcknowledgedOnceUndisturbed == Undisturbed => AcknowledgedOnce

\* "True if SharedMemoryFragmentManager is ready for Fragment data": the buffer
\* it is about to write to is reserved for it.  (It is not after a Write that
\* threw, if the first fragment was too large.)
ReadyIsReserved ==
    \A p \in Senders : Mapped(p, "write") => Owns(p, active_buffer_[p], "Writing")

\* A fragment that was published is read to the end, unless its segment is
\* removed, or is about to be initialised by an owner that was killed and started
\* again: then it is thrown away.
FragmentArrives ==
    \A s \in Segments, b \in Buffers, n \in Fragments :
        sem[s][b] = "Full" /\ content[s][b] = n
            ~> \/ received[n] # 0
               \/ s \in removed
               \/ \E o \in Owners : At(o, "init") /\ shm_ptr_[o] = s

\* "Detaching all Shared Memory segments, then proceeding with default
\* handlers!": a process that got a signal ends.  (It goes on, and attaches again.)
SignalEnds == \A p \in Managers : p \in caught ~> ~Alive(p)

\* A call of WriteFragment ends, whatever becomes of the segment: it returns,
\* throws, or its process has ended.
WriteEnds ==
    \A p \in Senders : call[p] \in {"check", "ready", "write"} ~> call[p] = "none" \/ ~Alive(p)
=============================================================================
