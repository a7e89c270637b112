-------------------------- MODULE SharedMemorySegment --------------------------
(***************************************************************************)
(* The life cycle of a SharedMemoryManager: a key names a segment, the     *)
(* owner creates it, initialises it and marks it for removal, the other    *)
(* managers attach to what the key names, take an id, and detach.  A       *)
(* segment that is marked lives on for those that are attached to it, while *)
(* the key may name a new one.                                             *)
(*                                                                         *)
(* Buffers are acquired and released in one step: that is what BufferPool  *)
(* promises of them while nothing is taken from its holder.                *)
(***************************************************************************)
EXTENDS Integers, FiniteSets

CONSTANTS
    Managers,       \* the manager objects, one per process
    Owners,         \* those constructed with a buffer count and a buffer size
    Buffers,        \* the buffers of a segment
    Signalled,      \* the processes that may get a signal (not the owner's)
    Killed,         \* the processes that may be killed without notice
    CountResetters, \* the owners whose clients call ResetAttachedCount
    MaxSegments,    \* bound: segments created
    MaxIds          \* bound: no manager is constructed once this many ids were given out

ASSUME RolesAssumption ==
    /\ Owners \subseteq Managers /\ CountResetters \subseteq Owners
    /\ Signalled \subseteq Managers \ Owners /\ Killed \subseteq Managers
ASSUME SegmentsAssumption == MaxSegments \in Nat \ {0} /\ MaxIds \in Nat

Segments == 1 .. MaxSegments
None == 0           \* no segment: shmget fails, and nullptr
Invalid == -1       \* what a failed shmat returns
Nobody == -1        \* the id of a manager that has none, and of a free buffer

VARIABLES
    \* the kernel
    key,                \* what the key names
    created,            \* how many segments there have been
    removed,            \* SHM_DEST: the segments marked for removal
    \* per segment
    ready_magic, next_id, sem, sem_id,
    content,            \* the number of the event in each buffer
    \* per manager
    shm_segment_id_, shm_ptr_, manager_id_,
    attach,             \* where Attach or Detach is, or how it ended
    caught              \* the processes that have caught a signal

kernel == <<key, created, removed>>
segment == <<ready_magic, next_id, sem, sem_id, content>>
manager == <<shm_segment_id_, shm_ptr_, manager_id_, attach, caught>>
segmentVars == <<key, created, removed, ready_magic, next_id, sem, sem_id, content,
                 shm_segment_id_, shm_ptr_, manager_id_, attach, caught>>

SegmentInit ==
    /\ key = None /\ created = 0 /\ removed = {}
    /\ ready_magic = [s \in Segments |-> FALSE]
    /\ next_id = [s \in Segments |-> 0]
    /\ sem = [s \in Segments |-> [b \in Buffers |-> "Empty"]]
    /\ sem_id = [s \in Segments |-> [b \in Buffers |-> Nobody]]
    /\ content = [s \in Segments |-> [b \in Buffers |-> 0]]
    /\ shm_segment_id_ = [p \in Managers |-> None]
    /\ shm_ptr_ = [p \in Managers |-> None]
    /\ manager_id_ = [p \in Managers |-> Nobody]
    /\ attach = [p \in Managers |-> "idle"]
    /\ caught = {}

-----------------------------------------------------------------------------
IsValid(p) == shm_ptr_[p] # None
Attached(p) == shm_ptr_[p] \in Segments
Destroyed(s) == s \in removed /\ \A p \in Managers : shm_ptr_[p] # s

OnlyInvalid(p) == ~Attached(p)       \* a mutant of IsEndOfData: IPC_STAT is not asked
\* Of a segment that is gone IPC_STAT fails, which counts as the end too.
IsEndOfData(p) == ~IsValid(p) \/ shm_segment_id_[p] \in removed

At(p, point) == attach[p] = point
Goto(p, point) == attach' = [attach EXCEPT ![p] = point]
Alive(p) == ~At(p, "dead")

\* checkBuffer_ for the flags Writing and Reading.
Owns(p, b, flag) ==
    LET s == shm_ptr_[p] IN sem[s][b] = flag /\ sem_id[s][b] = manager_id_[p]

SetBuffer(s, b, flag, id) ==
    /\ sem' = [sem EXCEPT ![s][b] = flag]
    /\ sem_id' = [sem_id EXCEPT ![s][b] = id]

-----------------------------------------------------------------------------
(* Detach *)

GivenBack(f) == IF f = "Writing" THEN "Empty" ELSE IF f = "Reading" THEN "Full" ELSE f

\* A mutant of GiveBackBuffers: they are left as they are.
KeepBuffers(p) == UNCHANGED <<sem, sem_id>>
GiveBackBuffers(p) ==
    LET s == shm_ptr_[p]
        Mine(b) == sem_id[s][b] = manager_id_[p] IN
    /\ sem' = [sem EXCEPT ![s] = [b \in Buffers |-> IF Mine(b) THEN GivenBack(@[b]) ELSE @[b]]]
    /\ sem_id' = [sem_id EXCEPT ![s] = [b \in Buffers |-> IF Mine(b) THEN Nobody ELSE @[b]]]

\* The process is gone, and the kernel takes back its mapping.
Die(p) ==
    /\ Goto(p, "dead")
    /\ shm_segment_id_' = [shm_segment_id_ EXCEPT ![p] = None]
    /\ shm_ptr_' = [shm_ptr_ EXCEPT ![p] = None]
    /\ manager_id_' = [manager_id_ EXCEPT ![p] = Nobody]
    /\ caught' = caught \ {p}
    /\ UNCHANGED <<kernel, segment>>

\* The buffers and the mapping.
LetGo(p) ==
    /\ IF Attached(p) THEN GiveBackBuffers(p) ELSE UNCHANGED <<sem, sem_id>>
    /\ shm_ptr_' = [shm_ptr_ EXCEPT ![p] = None]

\* The owner goes on to the removal.  A pointer that shmat did not return is
\* dereferenced, which ends the process.
DetachTo(p, next) ==
    IF shm_ptr_[p] = Invalid THEN Die(p)
    ELSE
    /\ LetGo(p)
    /\ IF manager_id_[p] = 0 /\ shm_segment_id_[p] # None
       THEN UNCHANGED manager_id_ /\ Goto(p, "remove")
       ELSE manager_id_' = [manager_id_ EXCEPT ![p] = Nobody] /\ Goto(p, next)
    /\ UNCHANGED <<kernel, ready_magic, next_id, content, shm_segment_id_, caught>>

\* shmctl(IPC_RMID): the key is free from now on.
Remove(p) ==
    /\ At(p, "remove")
    /\ removed' = removed \cup {shm_segment_id_[p]}
    /\ key' = IF key = shm_segment_id_[p] THEN None ELSE key
    /\ shm_segment_id_' = [shm_segment_id_ EXCEPT ![p] = None]
    /\ manager_id_' = [manager_id_ EXCEPT ![p] = Nobody]
    /\ Goto(p, "idle")
    /\ UNCHANGED <<created, segment, shm_ptr_, caught>>

-----------------------------------------------------------------------------
(* Attach *)

\* The owner of a segment stays attached to it, another manager detaches first.
Attach(p) ==
    /\ At(p, "idle")
    /\ IF IsValid(p) /\ manager_id_[p] # 0
       THEN DetachTo(p, "shmget")
       ELSE /\ Goto(p, IF IsValid(p) THEN "ok" ELSE "shmget")
            /\ UNCHANGED <<kernel, segment, shm_segment_id_, shm_ptr_, manager_id_, caught>>

ShmGet(p) ==
    /\ At(p, "shmget")
    /\ key # None \/ (p \in Owners /\ created < MaxSegments)
    /\ IF key # None THEN UNCHANGED <<key, created>>
       ELSE key' = created + 1 /\ created' = created + 1
    /\ shm_segment_id_' = [shm_segment_id_ EXCEPT ![p] = key']
    /\ manager_id_' = IF p \in Owners THEN [manager_id_ EXCEPT ![p] = 0] ELSE manager_id_
    /\ Goto(p, "shmat")
    /\ UNCHANGED <<removed, segment, shm_ptr_, caught>>

\* timeout_us pass without a segment.
ShmGetTimeout(p) ==
    /\ At(p, "shmget")
    /\ key = None /\ p \notin Owners
    /\ shm_segment_id_' = [shm_segment_id_ EXCEPT ![p] = None]
    /\ Goto(p, "failed")
    /\ UNCHANGED <<kernel, segment, shm_ptr_, manager_id_, caught>>

\* A mapping that fails leaves (void* )-1 in shm_ptr_.
ShmAt(p) ==
    LET s == shm_segment_id_[p] IN
    /\ At(p, "shmat")
    /\ IF Destroyed(s)
       THEN shm_ptr_' = [shm_ptr_ EXCEPT ![p] = Invalid] /\ Goto(p, "failed")
       ELSE /\ shm_ptr_' = [shm_ptr_ EXCEPT ![p] = s]
            /\ Goto(p, IF p \in Owners THEN "init" ELSE "wait")
    /\ UNCHANGED <<kernel, segment, shm_segment_id_, manager_id_, caught>>

\* A mutant of OwnerInit: the buffers of a segment are taken to be Empty.
InitKeepsBuffers(p) ==
    LET s == shm_ptr_[p] IN
    /\ At(p, "init")
    /\ next_id' = [next_id EXCEPT ![s] = 1]
    /\ ready_magic' = [ready_magic EXCEPT ![s] = TRUE]
    /\ Goto(p, "ok")
    /\ UNCHANGED <<kernel, sem, sem_id, content, shm_segment_id_, shm_ptr_, manager_id_, caught>>

\* Nobody looks at a new segment before the magic number is there.  A segment
\* that a killed owner left is initialised under those attached to it.
OwnerInit(p) ==
    LET s == shm_ptr_[p] IN
    /\ At(p, "init")
    /\ next_id' = [next_id EXCEPT ![s] = 1]
    /\ sem' = [sem EXCEPT ![s] = [b \in Buffers |-> "Empty"]]
    /\ sem_id' = [sem_id EXCEPT ![s] = [b \in Buffers |-> Nobody]]
    /\ ready_magic' = [ready_magic EXCEPT ![s] = TRUE]
    /\ Goto(p, "ok")
    /\ UNCHANGED <<kernel, content, shm_segment_id_, shm_ptr_, manager_id_, caught>>

SameId(s) == next_id[s]         \* a mutant of NextId: the id is loaded, not fetched and added to
NextId(s) == next_id[s] + 1

\* The wait for the owner, and fetch_add of next_id.
GetNewId(p) ==
    LET s == shm_ptr_[p] IN
    /\ At(p, "wait") /\ Attached(p)
    /\ ready_magic[s]
    /\ manager_id_' = [manager_id_ EXCEPT ![p] = next_id[s]]
    /\ next_id' = [next_id EXCEPT ![s] = NextId(s)]
    /\ Goto(p, "ok")
    /\ UNCHANGED <<kernel, ready_magic, sem, sem_id, content, shm_segment_id_, shm_ptr_, caught>>

\* The pointer that the handler has set to null is dereferenced in the wait.
AttachFaults(p) == At(p, "wait") /\ ~Attached(p) /\ Die(p)

\* Attach returns to a caller that only wants to be attached.
Returned(p) == attach[p] \in {"ok", "failed"}

\* The owner makes next_id 1 again.
ResetAttachedCount(p) ==
    /\ p \in CountResetters /\ At(p, "idle")
    /\ manager_id_[p] = 0 /\ Attached(p)
    /\ next_id' = [next_id EXCEPT ![shm_ptr_[p]] = 1]
    /\ UNCHANGED <<kernel, ready_magic, sem, sem_id, content, manager>>

-----------------------------------------------------------------------------
(* Signals and the end of a process *)

\* The handler detaches the manager, restores the default action, and returns
\* to where the process was.
Signal(p) ==
    /\ p \in Signalled \ caught /\ Alive(p)
    /\ IF shm_ptr_[p] = Invalid THEN Die(p)
       ELSE /\ LetGo(p)
            /\ manager_id_' = [manager_id_ EXCEPT ![p] = Nobody]
            /\ caught' = caught \cup {p}
            /\ UNCHANGED <<kernel, ready_magic, next_id, content, shm_segment_id_, attach>>

\* A kill, or the second signal of a kind, of which nobody learns.
Kill(p) == p \in Killed /\ Alive(p) /\ Die(p)

\* What a process that ends now leaves in its segment: the buffers with its id.
LeftBehind(p) == IF Attached(p) THEN {<<shm_ptr_[p], manager_id_[p]>>} ELSE {}

\* The process is started again.
Restart(p) ==
    /\ At(p, "dead")
    /\ Goto(p, "idle")
    /\ UNCHANGED <<kernel, segment, shm_segment_id_, shm_ptr_, manager_id_, caught>>

AttachStep(p) ==
    \/ ShmGet(p) \/ ShmGetTimeout(p) \/ ShmAt(p)
    \/ GetNewId(p) \/ AttachFaults(p) \/ Remove(p)
=============================================================================
