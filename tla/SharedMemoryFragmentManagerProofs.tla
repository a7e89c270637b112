------------------- MODULE SharedMemoryFragmentManagerProofs -------------------
(***************************************************************************)
(* Proofs about SharedMemoryFragmentManager, for every set of managers,     *)
(* buffers and segments: no buffer is lost, whatever comes and goes; and    *)
(* where one owner lives on and nobody resets next_id, the ids of those     *)
(* that are attached to a segment are different, and an acknowledged        *)
(* fragment is in one buffer until it is read, and read once, unless its    *)
(* segment is removed, which only the destruction of its owner does.        *)
(***************************************************************************)
EXTENDS SharedMemoryFragmentManager, FiniteSetTheorems, TLAPS

\* What the ids depend on.
idVars == <<key, created, removed, ready_magic, next_id, shm_segment_id_, shm_ptr_,
            manager_id_, attach>>

\* The calls in which a buffer is named.
Busy == {"ready", "write", "full", "header", "between", "data", "empty"}
Calls == Busy \cup {"none", "construct", "check", "reattach"}

Others == Managers \ Owners
AttachStates ==
    {"idle", "ok", "failed", "shmget", "shmat", "init", "wait", "remove", "dead"}

IdsTypeOK ==
    /\ created \in 0 .. MaxSegments /\ key \in 0 .. created
    /\ removed \subseteq 1 .. created
    /\ ready_magic \in [Segments -> BOOLEAN] /\ next_id \in [Segments -> Nat]
    /\ shm_segment_id_ \in [Managers -> 0 .. MaxSegments]
    /\ shm_ptr_ \in [Managers -> -1 .. MaxSegments]
    /\ manager_id_ \in [Managers -> {Nobody} \cup Nat]
    /\ attach \in [Managers -> AttachStates]
    /\ call \in [Managers -> Calls]

\* A segment is ready once its owner has initialised it; then next_id is 1 or more.
ReadySegments == \A s \in Segments : ready_magic[s] => s <= created /\ next_id[s] >= 1

\* The owner is at what the key names, and the key names nothing that it has left:
\* it initialises only what nobody was in.
OwnerKeeps(o) ==
    /\ attach[o] \in {"idle", "ok", "shmget", "shmat", "init", "remove"}
    /\ attach[o] \in {"idle", "ok", "init"} => shm_ptr_[o] = key
    /\ attach[o] \in {"shmget", "shmat", "remove"} => shm_ptr_[o] = None
    /\ attach[o] \in {"ok", "shmat", "init", "remove"} => key # None
    /\ attach[o] = "shmget" => key = None
    /\ attach[o] \in {"shmat", "init"} => ~ready_magic[key]
    /\ key # None => shm_segment_id_[o] = key /\ manager_id_[o] = 0 /\ key \notin removed
    /\ call[o] \in Busy => shm_ptr_[o] = key /\ key # None

\* The others have an id only while they are attached to a segment that is ready.
IdBelow(p) ==
    /\ manager_id_[p] # Nobody =>
        /\ shm_ptr_[p] \in Segments /\ ready_magic[shm_ptr_[p]]
        /\ 1 <= manager_id_[p] /\ manager_id_[p] < next_id[shm_ptr_[p]]
    /\ attach[p] \in {"shmget", "shmat"} => manager_id_[p] = Nobody
    /\ attach[p] \notin {"init", "remove"}


IdsDiffer ==
    \A p, q \in Others :
        p # q /\ manager_id_[p] # Nobody /\ shm_ptr_[p] = shm_ptr_[q]
            => manager_id_[p] # manager_id_[q]

IdsInv ==
    /\ IdsTypeOK /\ ReadySegments /\ IdsDiffer
    /\ \A o \in Owners : OwnerKeeps(o)
    /\ \A p \in Others : IdBelow(p)

\* One owner, which is not killed and does not reset next_id.
OneLivingOwner ==
    /\ \A p, q \in Owners : p = q
    /\ Killed \cap Owners = {}
    /\ CountResetters = {}

LEMMA Constants ==
    /\ Owners \subseteq Managers /\ Senders \subseteq Managers
    /\ Signalled \cap Owners = {} /\ MaxSegments \in Nat \ {0}
    /\ Segments = 1 .. MaxSegments
    /\ Segments \subseteq Nat \ {0}
BY RolesAssumption, SegmentsAssumption, SendersAssumption DEF Segments

LEMMA InitIds == Init => IdsInv
<1> SUFFICES ASSUME Init PROVE IdsInv
  OBVIOUS
<1> USE Constants DEF Init, SegmentInit, None, Nobody
<1>1. IdsTypeOK
  <2>1. created \in 0 .. MaxSegments /\ key \in 0 .. created /\ removed \subseteq 1 .. created
    OBVIOUS
  <2>2. ready_magic \in [Segments -> BOOLEAN] /\ next_id \in [Segments -> Nat]
    OBVIOUS
  <2>3. /\ shm_segment_id_ \in [Managers -> 0 .. MaxSegments]
        /\ shm_ptr_ \in [Managers -> -1 .. MaxSegments]
        /\ manager_id_ \in [Managers -> {Nobody} \cup Nat]
    OBVIOUS
  <2>4. call \in [Managers -> Calls]
    BY DEF Calls
  <2>5. attach \in [Managers -> AttachStates]
    BY DEF AttachStates
  <2> QED BY <2>1, <2>2, <2>3, <2>4, <2>5 DEF IdsTypeOK
<1>2. ReadySegments /\ IdsDiffer
  BY DEF ReadySegments, IdsDiffer, Others
<1>3. \A o \in Owners : OwnerKeeps(o)
  BY DEF OwnerKeeps, Busy
<1>4. \A p \in Others : IdBelow(p)
  BY DEF IdBelow, Others
<1> QED BY <1>1, <1>2, <1>3, <1>4 DEF IdsInv

-----------------------------------------------------------------------------
Same(q) ==
    /\ shm_segment_id_'[q] = shm_segment_id_[q] /\ shm_ptr_'[q] = shm_ptr_[q]
    /\ manager_id_'[q] = manager_id_[q] /\ attach'[q] = attach[q] /\ call'[q] = call[q]

\* A step of one manager that leaves the key and the segments alone and gives it
\* no id has only this manager to be looked at.
LEMMA LocalStep ==
    ASSUME IdsInv, NEW p \in Managers, IdsTypeOK',
           UNCHANGED <<key, created, removed, ready_magic, next_id>>,
           \A q \in Managers \ {p} : Same(q),
           p \in Owners => OwnerKeeps(p)',
           p \in Others => /\ IdBelow(p)'
                           /\ \/ manager_id_'[p] = Nobody
                              \/ /\ manager_id_'[p] = manager_id_[p]
                                 /\ shm_ptr_'[p] = shm_ptr_[p]
    PROVE  IdsInv'
<1>1. ReadySegments'
  BY DEF IdsInv, ReadySegments
<1>2. ASSUME NEW o \in Owners PROVE OwnerKeeps(o)'
  <2>1. CASE o = p
    BY <2>1
  <2>2. CASE o # p
    <3>1. Same(o) /\ OwnerKeeps(o)
      BY <2>2, Constants DEF IdsInv
    <3> QED BY <3>1 DEF OwnerKeeps, Same
  <2> QED BY <2>1, <2>2
<1>3. ASSUME NEW q \in Others PROVE IdBelow(q)'
  <2>1. CASE q = p
    BY <2>1
  <2>2. CASE q # p
    <3>1. Same(q) /\ IdBelow(q)
      BY <2>2 DEF IdsInv, Others
    <3> QED BY <3>1 DEF IdBelow, Same
  <2> QED BY <2>1, <2>2
<1>4. IdsDiffer'
  <2> SUFFICES ASSUME NEW q \in Others, NEW r \in Others, q # r,
                      manager_id_'[q] # Nobody, shm_ptr_'[q] = shm_ptr_'[r]
               PROVE  manager_id_'[q] # manager_id_'[r]
    BY DEF IdsDiffer
  <2>1. \A x \in Others : manager_id_'[x] # Nobody
            => manager_id_'[x] = manager_id_[x] /\ shm_ptr_'[x] = shm_ptr_[x]
    BY DEF Same, Others
  <2>2. CASE manager_id_'[r] = Nobody
    BY <2>2
  <2>3. CASE manager_id_'[r] # Nobody
    BY <2>1, <2>3 DEF IdsInv, IdsDiffer
  <2> QED BY <2>2, <2>3
<1> QED BY <1>1, <1>2, <1>3, <1>4 DEF IdsInv

\* A step within a call.
LEMMA CallStep ==
    ASSUME IdsInv, NEW p \in Managers, NEW c \in Calls, UNCHANGED idVars,
           call' = [call EXCEPT ![p] = c],
           c \in Busy => shm_ptr_[p] \in Segments \/ call[p] \in Busy,
           p \in Owners => attach[p] = "idle"
    PROVE  IdsInv'
<1>1. IdsTypeOK' /\ \A q \in Managers \ {p} : Same(q)
  BY DEF IdsInv, IdsTypeOK, idVars, Same
<1>2. ASSUME p \in Owners PROVE OwnerKeeps(p)'
  <2>1. OwnerKeeps(p) /\ call'[p] = c
    BY <1>2 DEF IdsInv, IdsTypeOK
  <2>2. c \in Busy => shm_ptr_[p] = key /\ key # None
    BY <1>2, <2>1, Constants DEF OwnerKeeps, None
  <2> QED BY <2>1, <2>2 DEF OwnerKeeps, idVars
<1>3. ASSUME p \in Others PROVE IdBelow(p)'
  BY <1>3 DEF IdsInv, IdBelow, idVars
<1> QED BY <1>1, <1>2, <1>3, LocalStep DEF idVars

\* The end of a process, which is none of the owner's.
LEMMA DieKeepsIds ==
    ASSUME IdsInv, NEW p \in Others, Die(p), UNCHANGED call
    PROVE  IdsInv'
<1>1. p \in Managers
  BY DEF Others
<1>2. IdsTypeOK' /\ \A q \in Managers \ {p} : Same(q)
  BY <1>1, Constants DEF Die, Goto, AttachStates, kernel, segment, IdsInv, IdsTypeOK, Same, None, Nobody
<1>3. IdBelow(p)' /\ manager_id_'[p] = Nobody
  BY <1>1 DEF Die, Goto, IdsInv, IdsTypeOK, IdBelow
<1> QED BY <1>1, <1>2, <1>3, LocalStep DEF Others, Die, kernel, segment

\* Detach.
LEMMA DetachKeepsIds ==
    ASSUME IdsInv, NEW p \in Managers, NEW next \in {"idle", "shmget"}, DetachTo(p, next),
           NEW c \in Calls \ Busy, call' = [call EXCEPT ![p] = c],
           p \in Owners => attach[p] = "idle" /\ shm_ptr_[p] # None
    PROVE  IdsInv'
<1>1. CASE p \in Owners
  <2>1. OwnerKeeps(p) /\ attach[p] = "idle" /\ key # None /\ shm_ptr_[p] = key
    BY <1>1 DEF IdsInv, OwnerKeeps
  <2>2. key \in 1 .. MaxSegments
    BY <2>1, Constants DEF IdsInv, IdsTypeOK, None
  <2>3. /\ Goto(p, "remove") /\ UNCHANGED <<manager_id_, shm_segment_id_>>
        /\ shm_ptr_' = [shm_ptr_ EXCEPT ![p] = None]
        /\ UNCHANGED <<key, created, removed, ready_magic, next_id>>
    BY <2>1, <2>2 DEF DetachTo, LetGo, OwnerKeeps, Invalid, None, kernel
  <2>4. IdsTypeOK' /\ \A q \in Managers \ {p} : Same(q)
    BY <2>3, Constants DEF Goto, AttachStates, IdsInv, IdsTypeOK, Same, None
  <2>5. OwnerKeeps(p)'
    BY <2>1, <2>3 DEF Goto, IdsInv, IdsTypeOK, OwnerKeeps
  <2> QED BY <1>1, <2>3, <2>4, <2>5, LocalStep DEF Others
<1>2. CASE p \notin Owners
  <2>1. IdBelow(p) /\ p \in Others
    BY <1>2 DEF IdsInv, Others
  <2>2. /\ UNCHANGED <<key, created, removed, ready_magic, next_id>>
        /\ \/ UNCHANGED shm_segment_id_
           \/ shm_segment_id_' = [shm_segment_id_ EXCEPT ![p] = None]
        /\ shm_ptr_' = [shm_ptr_ EXCEPT ![p] = None]
        /\ manager_id_' = [manager_id_ EXCEPT ![p] = Nobody]
        /\ Goto(p, next) \/ Goto(p, "dead")
    <3>1. manager_id_[p] # 0
      BY <2>1 DEF IdBelow, Nobody
    <3> QED BY <3>1 DEF DetachTo, LetGo, Die, kernel, segment
  <2>5. shm_segment_id_' \in [Managers -> 0 .. MaxSegments]
    <3>1. shm_segment_id_ \in [Managers -> 0 .. MaxSegments] /\ 0 \in 0 .. MaxSegments
      BY Constants DEF IdsInv, IdsTypeOK
    <3> QED BY <2>2, <3>1 DEF None
  <2>6. attach' \in [Managers -> AttachStates]
    BY <2>2 DEF Goto, AttachStates, IdsInv, IdsTypeOK
  <2>9. shm_ptr_' \in [Managers -> -1 .. MaxSegments]
    BY <2>2, Constants DEF IdsInv, IdsTypeOK, None
  <2>10. manager_id_' \in [Managers -> {Nobody} \cup Nat] /\ call' \in [Managers -> Calls]
    BY <2>2 DEF IdsInv, IdsTypeOK
  <2>7. IdsTypeOK'
    BY <2>2, <2>5, <2>6, <2>9, <2>10 DEF IdsInv, IdsTypeOK
  <2>8. \A q \in Managers \ {p} : Same(q)
    BY <2>2 DEF Goto, IdsInv, IdsTypeOK, Same
  <2>3. IdsTypeOK' /\ \A q \in Managers \ {p} : Same(q)
    BY <2>7, <2>8
  <2>4. IdBelow(p)' /\ manager_id_'[p] = Nobody
    BY <2>2 DEF Goto, IdsInv, IdsTypeOK, IdBelow
  <2> QED BY <1>2, <2>2, <2>3, <2>4, LocalStep DEF Others
<1> QED BY <1>1, <1>2
\* Attach: the owner of a segment stays, one without a segment goes on to shmget.
LEMMA AttachKeepsIds ==
    ASSUME IdsInv, NEW p \in Managers, Attach(p),
           NEW c \in Calls \ Busy, call' = [call EXCEPT ![p] = c]
    PROVE  IdsInv'
<1>1. attach[p] = "idle"
  BY DEF Attach, At
<1>2. CASE IsValid(p) /\ manager_id_[p] # 0
  <2>1. p \notin Owners
    BY <1>1, <1>2 DEF IdsInv, OwnerKeeps, IsValid
  <2> QED BY <1>2, <2>1, DetachKeepsIds DEF Attach
<1>3. CASE ~(IsValid(p) /\ manager_id_[p] # 0)
  <2>1. /\ UNCHANGED <<key, created, removed, ready_magic, next_id>>
        /\ UNCHANGED <<shm_segment_id_, shm_ptr_, manager_id_>>
        /\ attach' = [attach EXCEPT ![p] = IF IsValid(p) THEN "ok" ELSE "shmget"]
    BY <1>3 DEF Attach, Goto, kernel, segment
  <2>2. IdsTypeOK' /\ \A q \in Managers \ {p} : Same(q)
    BY <2>1 DEF AttachStates, IdsInv, IdsTypeOK, Same
  <2>3. attach'[p] = (IF IsValid(p) THEN "ok" ELSE "shmget") /\ call'[p] = c
    BY <2>1 DEF IdsInv, IdsTypeOK
  <2>4. ASSUME p \in Owners PROVE OwnerKeeps(p)'
    BY <1>1, <2>1, <2>3, <2>4 DEF IdsInv, OwnerKeeps, IsValid, None
  <2>5. ASSUME p \in Others PROVE IdBelow(p)'
    <3>1. IdBelow(p)
      BY <2>5 DEF IdsInv
    <3>2. ~IsValid(p) => manager_id_[p] = Nobody
      BY <3>1, Constants DEF IdBelow, IsValid, None
    <3> QED BY <2>1, <2>3, <3>1, <3>2 DEF IdBelow
  <2> QED BY <2>1, <2>2, <2>4, <2>5, LocalStep
<1> QED BY <1>2, <1>3

\* shmget, of the owner for a segment of its own.
LEMMA ShmGetKeepsIds ==
    ASSUME OneLivingOwner, IdsInv, NEW p \in Managers, ShmGet(p), UNCHANGED call
    PROVE  IdsInv'
<1>1. attach[p] = "shmget" /\ attach' = [attach EXCEPT ![p] = "shmat"]
  BY DEF ShmGet, At, Goto
<1>2. CASE p \in Owners
  <2>1. OwnerKeeps(p) /\ key = None /\ call[p] \notin Busy
    BY <1>1, <1>2 DEF IdsInv, OwnerKeeps
  <2>2. /\ key' = created + 1 /\ created' = created + 1 /\ created < MaxSegments
        /\ shm_segment_id_' = [shm_segment_id_ EXCEPT ![p] = key']
        /\ manager_id_' = [manager_id_ EXCEPT ![p] = 0]
        /\ UNCHANGED <<removed, ready_magic, next_id, shm_ptr_>>
    BY <1>2, <2>1 DEF ShmGet, segment
  <2>3. key' \in Segments /\ created' \in 0 .. MaxSegments /\ key' \in 0 .. created'
    BY <2>2, Constants DEF IdsInv, IdsTypeOK
  <2>4. removed' \subseteq 1 .. created' /\ key' \notin removed'
    <3>1. created \in Nat /\ removed \subseteq 1 .. created
      BY Constants DEF IdsInv, IdsTypeOK
    <3> QED BY <2>2, <3>1
  <2>5. shm_segment_id_' \in [Managers -> 0 .. MaxSegments]
    BY <2>2, <2>3, Constants DEF IdsInv, IdsTypeOK
  <2>6. IdsTypeOK'
    BY <1>1, <2>2, <2>3, <2>4, <2>5 DEF IdsInv, IdsTypeOK, AttachStates
  <2>7. ReadySegments' /\ ~ready_magic'[key']
    BY <2>2, <2>3, Constants DEF IdsInv, IdsTypeOK, ReadySegments
  <2>8. OwnerKeeps(p)'
    BY <1>1, <2>1, <2>2, <2>3, <2>4, <2>7, Constants
       DEF IdsInv, IdsTypeOK, OwnerKeeps, None
  <2>9. \A o \in Owners : OwnerKeeps(o)'
    BY <1>2, <2>8 DEF OneLivingOwner
  <2>10. \A q \in Others : Same(q)
    BY <1>1, <1>2, <2>2 DEF Same, Others, IdsInv, IdsTypeOK
  <2>11. \A q \in Others : IdBelow(q)'
    BY <2>2, <2>10 DEF IdsInv, IdBelow, Same
  <2>12. IdsDiffer'
    BY <2>10 DEF IdsInv, IdsDiffer, Same
  <2> QED BY <2>6, <2>7, <2>9, <2>11, <2>12 DEF IdsInv
<1>3. CASE p \notin Owners
  <2>1. /\ UNCHANGED <<key, created, removed, ready_magic, next_id, shm_ptr_, manager_id_>>
        /\ shm_segment_id_' = [shm_segment_id_ EXCEPT ![p] = key]
    BY <1>3 DEF ShmGet, segment
  <2>2. key \in 0 .. MaxSegments
    BY Constants DEF IdsInv, IdsTypeOK
  <2>3. IdsTypeOK' /\ \A q \in Managers \ {p} : Same(q)
    BY <1>1, <2>1, <2>2 DEF IdsInv, IdsTypeOK, AttachStates, Same
  <2>4. p \in Others /\ IdBelow(p)
    BY <1>3 DEF IdsInv, Others
  <2>5. IdBelow(p)'
    BY <1>1, <2>1, <2>4 DEF IdsInv, IdsTypeOK, IdBelow
  <2> QED BY <1>3, <2>1, <2>3, <2>5, LocalStep
<1> QED BY <1>2, <1>3

LEMMA ShmGetTimeoutKeepsIds ==
    ASSUME IdsInv, NEW p \in Managers, ShmGetTimeout(p), UNCHANGED call
    PROVE  IdsInv'
<1>1. /\ p \in Others /\ IdBelow(p)
      /\ UNCHANGED <<key, created, removed, ready_magic, next_id, shm_ptr_, manager_id_>>
      /\ shm_segment_id_' = [shm_segment_id_ EXCEPT ![p] = None]
      /\ attach' = [attach EXCEPT ![p] = "failed"]
  BY DEF ShmGetTimeout, Goto, kernel, segment, IdsInv, Others
<1>2. shm_segment_id_' \in [Managers -> 0 .. MaxSegments]
  BY <1>1, Constants DEF IdsInv, IdsTypeOK, None
<1>3. IdsTypeOK' /\ \A q \in Managers \ {p} : Same(q)
  BY <1>1, <1>2 DEF IdsInv, IdsTypeOK, AttachStates, Same
<1>4. IdBelow(p)'
  BY <1>1 DEF IdsInv, IdsTypeOK, IdBelow
<1> QED BY <1>1, <1>3, <1>4, LocalStep DEF Others

\* shmat: that of the owner does not fail, as nobody else removes its segment.
LEMMA ShmAtKeepsIds ==
    ASSUME IdsInv, NEW p \in Managers, ShmAt(p), UNCHANGED call
    PROVE  IdsInv'
<1> DEFINE s == shm_segment_id_[p]
<1>1. /\ attach[p] = "shmat" /\ s \in 0 .. MaxSegments
      /\ UNCHANGED <<key, created, removed, ready_magic, next_id, shm_segment_id_, manager_id_>>
  BY DEF ShmAt, At, kernel, segment, IdsInv, IdsTypeOK
<1>2. CASE p \in Owners
  <2>1. OwnerKeeps(p) /\ key # None /\ s = key /\ key \notin removed
    BY <1>1, <1>2 DEF IdsInv, OwnerKeeps
  <2>2. /\ shm_ptr_' = [shm_ptr_ EXCEPT ![p] = s] /\ attach' = [attach EXCEPT ![p] = "init"]
    BY <1>2, <2>1 DEF ShmAt, Destroyed, Goto
  <2>3. shm_ptr_' \in [Managers -> -1 .. MaxSegments]
    BY <1>1, <2>2, Constants DEF IdsInv, IdsTypeOK
  <2>4. IdsTypeOK' /\ \A q \in Managers \ {p} : Same(q)
    BY <1>1, <2>2, <2>3 DEF IdsInv, IdsTypeOK, AttachStates, Same
  <2>5. OwnerKeeps(p)'
    BY <1>1, <2>1, <2>2 DEF IdsInv, IdsTypeOK, OwnerKeeps
  <2> QED BY <1>1, <1>2, <2>4, <2>5, LocalStep DEF Others
<1>3. CASE p \notin Owners
  <2>1. p \in Others /\ IdBelow(p) /\ manager_id_[p] = Nobody
    BY <1>1, <1>3 DEF IdsInv, Others, IdBelow
  <2>2. /\ \/ shm_ptr_' = [shm_ptr_ EXCEPT ![p] = s]
           \/ shm_ptr_' = [shm_ptr_ EXCEPT ![p] = Invalid]
        /\ attach' = [attach EXCEPT ![p] = "wait"] \/ attach' = [attach EXCEPT ![p] = "failed"]
    BY <1>3 DEF ShmAt, Goto
  <2>3. shm_ptr_' \in [Managers -> -1 .. MaxSegments]
    <3>1. s \in -1 .. MaxSegments /\ Invalid \in -1 .. MaxSegments
      BY <1>1, Constants DEF Invalid
    <3> QED BY <2>2, <3>1 DEF IdsInv, IdsTypeOK
  <2>4. attach' \in [Managers -> AttachStates]
    BY <2>2 DEF IdsInv, IdsTypeOK, AttachStates
  <2>5. IdsTypeOK' /\ \A q \in Managers \ {p} : Same(q)
    <3>1. \A q \in Managers \ {p} : Same(q)
      BY <1>1, <2>2 DEF IdsInv, IdsTypeOK, Same
    <3> QED BY <1>1, <2>3, <2>4, <3>1 DEF IdsInv, IdsTypeOK
  <2>6. IdBelow(p)' /\ manager_id_'[p] = Nobody
    BY <1>1, <2>1, <2>2 DEF IdsInv, IdsTypeOK, IdBelow
  <2> QED BY <1>1, <1>3, <2>5, <2>6, LocalStep
<1> QED BY <1>2, <1>3
\* fetch_add of next_id: every id given out is below it.
LEMMA GetNewIdKeepsIds ==
    ASSUME IdsInv, NEW p \in Managers, GetNewId(p), UNCHANGED call
    PROVE  IdsInv'
<1> DEFINE s == shm_ptr_[p]
<1>1. /\ s \in Segments /\ ready_magic[s] /\ attach[p] = "wait" /\ p \in Others
      /\ manager_id_' = [manager_id_ EXCEPT ![p] = next_id[s]]
      /\ next_id' = [next_id EXCEPT ![s] = next_id[s] + 1]
      /\ attach' = [attach EXCEPT ![p] = "ok"]
      /\ UNCHANGED <<key, created, removed, ready_magic, shm_segment_id_, shm_ptr_>>
  BY DEF GetNewId, NextId, At, Attached, Goto, kernel, Others, IdsInv, OwnerKeeps
<1>2. next_id[s] \in Nat /\ next_id[s] >= 1
  BY <1>1 DEF IdsInv, IdsTypeOK, ReadySegments
<1>3. /\ next_id' \in [Segments -> Nat] /\ manager_id_' \in [Managers -> {Nobody} \cup Nat]
      /\ attach' \in [Managers -> AttachStates]
  BY <1>1, <1>2 DEF IdsInv, IdsTypeOK, AttachStates
<1>4. IdsTypeOK'
  BY <1>1, <1>3 DEF IdsInv, IdsTypeOK
<1>5. \A t \in Segments : next_id[t] <= next_id'[t] /\ next_id[t] \in Nat /\ next_id'[t] \in Nat
  BY <1>1, <1>2 DEF IdsInv, IdsTypeOK
<1>6. ReadySegments'
  BY <1>1, <1>5 DEF IdsInv, ReadySegments
<1>7. \A q \in Managers \ {p} : Same(q)
  BY <1>1 DEF IdsInv, IdsTypeOK, Same
<1>8. ASSUME NEW o \in Owners PROVE OwnerKeeps(o)'
  <2>1. OwnerKeeps(o) /\ Same(o)
    BY <1>1, <1>7, Constants DEF IdsInv, Others
  <2> QED BY <1>1, <2>1 DEF OwnerKeeps, Same
<1>9. manager_id_'[p] = next_id[s] /\ shm_ptr_'[p] = s /\ next_id'[s] = next_id[s] + 1
  BY <1>1 DEF IdsInv, IdsTypeOK
<1>10. ASSUME NEW q \in Others PROVE IdBelow(q)'
  <2>1. CASE q = p
    BY <1>1, <1>2, <1>9, <2>1 DEF IdsInv, IdsTypeOK, IdBelow
  <2>2. CASE q # p
    <3>1. Same(q) /\ IdBelow(q) /\ q \in Managers
      BY <1>7, <2>2 DEF IdsInv, Others
    <3>2. manager_id_[q] \in {Nobody} \cup Nat
      BY <3>1 DEF IdsInv, IdsTypeOK
    <3> QED BY <1>1, <1>5, <3>1, <3>2 DEF Same, IdBelow, Nobody
  <2> QED BY <2>1, <2>2
<1>11. \A q \in Others : q # p /\ shm_ptr_[q] = s /\ manager_id_[q] # Nobody
                            => manager_id_[q] < next_id[s]
  BY DEF IdsInv, IdBelow
<1>12. \A q \in Others : q # p /\ shm_ptr_[q] = s => manager_id_[q] # next_id[s]
  BY <1>2, <1>11 DEF Nobody, IdsInv, IdsTypeOK, Others
<1>13. IdsDiffer'
  <2> SUFFICES ASSUME NEW q \in Others, NEW r \in Others, q # r,
                      manager_id_'[q] # Nobody, shm_ptr_'[q] = shm_ptr_'[r]
               PROVE  manager_id_'[q] # manager_id_'[r]
    BY DEF IdsDiffer
  <2>1. CASE q = p
    BY <1>7, <1>9, <1>12, <2>1 DEF Same, Others
  <2>2. CASE r = p
    BY <1>7, <1>9, <1>12, <2>2 DEF Same, Others
  <2>3. CASE q # p /\ r # p
    BY <1>7, <2>3 DEF Same, Others, IdsInv, IdsDiffer
  <2> QED BY <2>1, <2>2, <2>3
<1> QED BY <1>4, <1>6, <1>8, <1>10, <1>13 DEF IdsInv

\* Nobody has an id in the segment that the owner initialises.
LEMMA OwnerInitKeepsIds ==
    ASSUME OneLivingOwner, IdsInv, NEW p \in Managers, OwnerInit(p), UNCHANGED call
    PROVE  IdsInv'
<1> DEFINE s == shm_ptr_[p]
<1>1. /\ attach[p] = "init"
      /\ next_id' = [next_id EXCEPT ![s] = 1]
      /\ ready_magic' = [ready_magic EXCEPT ![s] = TRUE]
      /\ attach' = [attach EXCEPT ![p] = "ok"]
      /\ UNCHANGED <<key, created, removed, shm_segment_id_, shm_ptr_, manager_id_>>
  BY DEF OwnerInit, At, Goto, kernel
<1>2. p \in Owners
  BY <1>1 DEF IdsInv, Others, IdBelow
<1>3. OwnerKeeps(p) /\ s = key /\ key # None /\ ~ready_magic[s] /\ s \in Segments /\ s <= created
  <2>1. OwnerKeeps(p) /\ s = key /\ key # None /\ ~ready_magic[s]
    BY <1>1, <1>2 DEF IdsInv, OwnerKeeps
  <2> QED BY <2>1, Constants DEF IdsInv, IdsTypeOK, None
<1>4. IdsTypeOK'
  BY <1>1, <1>3 DEF IdsInv, IdsTypeOK, AttachStates
<1>5. ReadySegments'
  BY <1>1, <1>3, <1>4 DEF IdsInv, IdsTypeOK, ReadySegments
<1>6. OwnerKeeps(p)'
  BY <1>1, <1>3 DEF IdsInv, IdsTypeOK, OwnerKeeps
<1>7. \A o \in Owners : OwnerKeeps(o)'
  BY <1>2, <1>6 DEF OneLivingOwner
<1>8. ASSUME NEW q \in Others PROVE Same(q) /\ IdBelow(q)'
  <2>1. Same(q) /\ IdBelow(q)
    BY <1>1, <1>2 DEF IdsInv, IdsTypeOK, Same, Others
  <2>2. manager_id_[q] # Nobody => shm_ptr_[q] # s
    BY <1>3, <2>1 DEF IdBelow
  <2> QED BY <1>1, <2>1, <2>2 DEF Same, IdBelow, IdsInv, IdsTypeOK
<1>9. IdsDiffer'
  BY <1>8 DEF IdsInv, IdsDiffer, Same
<1> QED BY <1>4, <1>5, <1>7, <1>8, <1>9 DEF IdsInv

\* Only the owner removes, and what the key names.
LEMMA RemoveKeepsIds ==
    ASSUME OneLivingOwner, IdsInv, NEW p \in Managers, Remove(p), UNCHANGED call
    PROVE  IdsInv'
<1>1. /\ attach[p] = "remove"
      /\ removed' = removed \cup {shm_segment_id_[p]}
      /\ key' = IF key = shm_segment_id_[p] THEN None ELSE key
      /\ shm_segment_id_' = [shm_segment_id_ EXCEPT ![p] = None]
      /\ manager_id_' = [manager_id_ EXCEPT ![p] = Nobody]
      /\ attach' = [attach EXCEPT ![p] = "idle"]
      /\ UNCHANGED <<created, ready_magic, next_id, shm_ptr_>>
  BY DEF Remove, At, Goto, segment
<1>2. p \in Owners
  BY <1>1 DEF IdsInv, Others, IdBelow
<1>3. OwnerKeeps(p) /\ key # None /\ shm_segment_id_[p] = key /\ shm_ptr_[p] = None
      /\ call[p] \notin Busy
  BY <1>1, <1>2 DEF IdsInv, OwnerKeeps
<1>4. key' = None /\ removed' = removed \cup {key}
  BY <1>1, <1>3
<1>5. key' \in 0 .. created' /\ removed' \subseteq 1 .. created'
  BY <1>1, <1>3, <1>4, Constants DEF IdsInv, IdsTypeOK, None
<1>6. shm_segment_id_' \in [Managers -> 0 .. MaxSegments]
  BY <1>1, Constants DEF IdsInv, IdsTypeOK, None
<1>7. IdsTypeOK'
  BY <1>1, <1>5, <1>6 DEF IdsInv, IdsTypeOK, AttachStates
<1>8. OwnerKeeps(p)'
  BY <1>1, <1>3, <1>4 DEF IdsInv, IdsTypeOK, OwnerKeeps
<1>9. \A o \in Owners : OwnerKeeps(o)'
  BY <1>2, <1>8 DEF OneLivingOwner
<1>10. ASSUME NEW q \in Others PROVE Same(q) /\ IdBelow(q)'
  <2>1. Same(q) /\ IdBelow(q)
    BY <1>1, <1>2 DEF IdsInv, IdsTypeOK, Same, Others
  <2> QED BY <1>1, <2>1 DEF Same, IdBelow
<1>11. IdsDiffer'
  BY <1>10 DEF IdsInv, IdsDiffer, Same
<1>12. ReadySegments'
  BY <1>1 DEF IdsInv, ReadySegments
<1> QED BY <1>7, <1>9, <1>10, <1>11, <1>12 DEF IdsInv

LEMMA SignalKeepsIds ==
    ASSUME IdsInv, NEW p \in Managers, Signal(p), UNCHANGED call
    PROVE  IdsInv'
<1>1. p \in Others /\ IdBelow(p)
  BY Constants DEF Signal, Others, IdsInv
<1>2. CASE shm_ptr_[p] = Invalid
  BY <1>1, <1>2, DieKeepsIds DEF Signal
<1>3. CASE shm_ptr_[p] # Invalid
  <2>1. /\ UNCHANGED <<key, created, removed, ready_magic, next_id, shm_segment_id_, attach>>
        /\ shm_ptr_' = [shm_ptr_ EXCEPT ![p] = None]
        /\ manager_id_' = [manager_id_ EXCEPT ![p] = Nobody]
    BY <1>3 DEF Signal, LetGo, kernel
  <2>2. shm_ptr_' \in [Managers -> -1 .. MaxSegments]
    BY <2>1, Constants DEF IdsInv, IdsTypeOK, None
  <2>3. IdsTypeOK' /\ \A q \in Managers \ {p} : Same(q)
    BY <2>1, <2>2 DEF IdsInv, IdsTypeOK, Same
  <2>4. IdBelow(p)' /\ manager_id_'[p] = Nobody
    BY <1>1, <2>1 DEF IdsInv, IdsTypeOK, IdBelow
  <2> QED BY <1>1, <2>1, <2>3, <2>4, LocalStep DEF Others
<1> QED BY <1>2, <1>3

LEMMA AttachStepKeepsIds ==
    ASSUME OneLivingOwner, IdsInv, NEW p \in Managers, AttachStep(p), UNCHANGED call
    PROVE  IdsInv'
<1>1. CASE AttachFaults(p)
  <2>1. p \in Others /\ Die(p)
    BY <1>1 DEF AttachFaults, At, IdsInv, OwnerKeeps, Others
  <2> QED BY <2>1, DieKeepsIds
<1> QED
  BY <1>1, ShmGetKeepsIds, ShmGetTimeoutKeepsIds, ShmAtKeepsIds, GetNewIdKeepsIds,
     RemoveKeepsIds DEF AttachStep
\* A manager becomes idle: Attach returns to its caller, or a process starts anew.
LEMMA IdleKeepsIds ==
    ASSUME IdsInv, NEW p \in Managers, attach[p] \in {"ok", "failed", "dead"}, Goto(p, "idle"),
           UNCHANGED <<key, created, removed, ready_magic, next_id>>,
           UNCHANGED <<shm_segment_id_, shm_ptr_, manager_id_>>,
           NEW c \in Calls, call' = [call EXCEPT ![p] = c],
           c \in Busy => attach[p] = "ok"
    PROVE  IdsInv'
<1>1. attach' = [attach EXCEPT ![p] = "idle"]
  BY DEF Goto
<1>2. IdsTypeOK' /\ \A q \in Managers \ {p} : Same(q)
  BY <1>1 DEF IdsInv, IdsTypeOK, AttachStates, Same
<1>3. ASSUME p \in Owners PROVE OwnerKeeps(p)'
  <2>1. OwnerKeeps(p) /\ attach'[p] = "idle" /\ call'[p] = c
    BY <1>1, <1>3 DEF IdsInv, IdsTypeOK
  <2>2. attach[p] = "ok" /\ shm_ptr_[p] = key /\ key # None
    BY <2>1 DEF OwnerKeeps
  <2> QED BY <2>1, <2>2 DEF OwnerKeeps
<1>4. ASSUME p \in Others PROVE IdBelow(p)'
  BY <1>1, <1>4 DEF IdsInv, IdsTypeOK, IdBelow
<1> QED BY <1>2, <1>3, <1>4, LocalStep

LEMMA ThrowKeepsIds ==
    ASSUME IdsInv, NEW p \in Managers, Throw(p), Attached(p), attach[p] = "idle"
    PROVE  IdsInv'
<1>1. call' = [call EXCEPT ![p] = "none"] /\ DetachTo(p, "idle") /\ "none" \in Calls \ Busy
  BY DEF Throw, Next_, Calls, Busy
<1>2. shm_ptr_[p] # None
  BY Constants DEF Attached, None
<1> QED BY <1>1, <1>2, DetachKeepsIds

\* The calls of the clients.
LEMMA CallsKeepIds ==
    ASSUME IdsInv, NEW p \in Managers,
           \/ WriteFragment(p) \/ CheckSegment(p) \/ ReadyForWrite(p) \/ WaitForBuffer(p)
           \/ Write(p) \/ MarkBufferFull(p)
           \/ ReadFragmentHeader(p) \/ ReadHeader(p) \/ ReadFragmentData(p)
           \/ ReadData(p) \/ MarkBufferEmpty(p)
    PROVE  IdsInv'
<1> USE DEF Next_, In, Mapped, At
<1>1. Busy \subseteq Calls /\ {"none", "check", "reattach"} \subseteq Calls \ Busy
  BY DEF Calls, Busy
<1>2. \A c \in Calls : UNCHANGED idVars /\ call' = [call EXCEPT ![p] = c] /\ attach[p] = "idle"
                       /\ (c \in Busy => Attached(p)) => IdsInv'
  BY CallStep DEF Attached
<1>3. CASE WriteFragment(p)
  BY <1>1, <1>2, <1>3 DEF WriteFragment, segmentVars, idVars
<1>4. CASE CheckSegment(p)
  <2>1. CASE IsEndOfData(p)
    BY <1>1, <1>4, <2>1, AttachKeepsIds DEF CheckSegment
  <2>2. CASE ~IsEndOfData(p)
    <3>1. UNCHANGED idVars /\ attach[p] = "idle" /\ call' = [call EXCEPT ![p] = "ready"]
      BY <1>4, <2>2 DEF CheckSegment, segmentVars, idVars
    <3>2. shm_ptr_[p] # None
      BY <2>2 DEF IsEndOfData, IsValid
    <3>3. CASE p \in Owners
      <4>1. shm_ptr_[p] = key /\ key \in 0 .. MaxSegments
        BY <3>1, <3>3, Constants DEF IdsInv, IdsTypeOK, OwnerKeeps
      <4>2. Attached(p)
        BY <3>2, <4>1, Constants DEF Attached, None
      <4> QED BY <1>1, <1>2, <3>1, <4>2 DEF Busy
    <3>4. CASE p \notin Owners
      <4>1. p \in Others /\ IdBelow(p)
        BY <3>4 DEF IdsInv, Others
      <4>2. IdsTypeOK' /\ \A q \in Managers \ {p} : Same(q)
        BY <1>1, <3>1 DEF IdsInv, IdsTypeOK, idVars, Same, Busy
      <4>3. IdBelow(p)'
        BY <3>1, <4>1 DEF IdBelow, idVars
      <4> QED BY <3>1, <3>4, <4>2, <4>3, LocalStep DEF idVars
    <3> QED BY <3>3, <3>4
  <2> QED BY <2>1, <2>2
<1>5. CASE ReadyForWrite(p)
  BY <1>1, <1>2, <1>5 DEF ReadyForWrite, segmentVars, idVars, kernel, manager, Busy
<1>6. CASE WaitForBuffer(p)
  BY <1>1, <1>2, <1>6 DEF WaitForBuffer, segmentVars, idVars
<1>7. CASE Write(p)
  <2>1. CASE Throw(p)
    BY <1>7, <2>1, ThrowKeepsIds DEF Write
  <2> QED BY <1>1, <1>2, <1>7, <2>1 DEF Write, idVars, kernel, manager, Busy
<1>8. CASE MarkBufferFull(p)
  BY <1>1, <1>2, <1>8 DEF MarkBufferFull, idVars, kernel, manager
<1>9. CASE ReadFragmentHeader(p)
  BY <1>1, <1>2, <1>9 DEF ReadFragmentHeader, idVars, kernel, manager, Busy
<1>10. CASE ReadHeader(p)
  <2>1. CASE Throw(p)
    BY <1>10, <2>1, ThrowKeepsIds DEF ReadHeader
  <2> QED BY <1>1, <1>2, <1>10, <2>1 DEF ReadHeader, segmentVars, idVars, Busy
<1>11. CASE ReadFragmentData(p)
  BY <1>1, <1>2, <1>11 DEF ReadFragmentData, segmentVars, idVars, Busy
<1>12. CASE ReadData(p)
  <2>1. CASE Throw(p)
    BY <1>12, <2>1, ThrowKeepsIds DEF ReadData
  <2> QED BY <1>1, <1>2, <1>12, <2>1 DEF ReadData, segmentVars, idVars, Busy
<1>13. CASE MarkBufferEmpty(p)
  <2>1. CASE Throw(p)
    BY <1>13, <2>1, ThrowKeepsIds DEF MarkBufferEmpty
  <2> QED BY <1>1, <1>2, <1>13, <2>1 DEF MarkBufferEmpty, idVars, kernel, manager
<1> QED
  BY <1>3, <1>4, <1>5, <1>6, <1>7, <1>8, <1>9, <1>10, <1>11, <1>12, <1>13

\* Construction, destruction and the ends of processes.
LEMMA LifeKeepsIds ==
    ASSUME OneLivingOwner, IdsInv, NEW p \in Managers,
           \/ Construct(p) \/ Initialize(p) \/ Constructed(p) \/ Reattached(p)
           \/ Destruct(p) \/ Fault(p) \/ End(p) \/ StartAgain(p) \/ ResetCount(p)
    PROVE  IdsInv'
<1> USE DEF Next_, In, At
<1>1. /\ {"none", "construct"} \subseteq Calls \ Busy /\ "ready" \in Calls
      /\ call \in [Managers -> Calls]
  BY DEF Calls, Busy, IdsInv, IdsTypeOK
<1>2. CASE Construct(p)
  BY <1>1, <1>2, AttachKeepsIds DEF Construct
<1>3. CASE Initialize(p)
  BY <1>3, OwnerInitKeepsIds DEF Initialize
<1>4. CASE Constructed(p)
  BY <1>1, <1>4, IdleKeepsIds DEF Constructed, Returned, kernel, segment
<1>5. CASE Reattached(p)
  BY <1>1, <1>5, IdleKeepsIds DEF Reattached, Returned, kernel, segment
<1>6. CASE Destruct(p)
  <2>1. call' = [call EXCEPT ![p] = "none"]
    BY <1>1, <1>6 DEF Destruct
  <2> QED BY <1>1, <1>6, <2>1, DetachKeepsIds DEF Destruct, IsValid
<1>7. CASE Fault(p)
  <2>1. p \in Others
    <3>1. call[p] \in Busy /\ shm_ptr_[p] \notin Segments
      BY <1>7 DEF Fault, Busy, Attached
    <3>2. key # None => key \in Segments
      BY Constants DEF IdsInv, IdsTypeOK, None
    <3> QED BY <3>1, <3>2 DEF IdsInv, OwnerKeeps, Others
  <2> QED BY <1>7, <2>1, DieKeepsIds DEF Fault, fragmentVars
<1>8. CASE End(p)
  <2>1. CASE Signal(p)
    BY <1>8, <2>1, SignalKeepsIds DEF End
  <2>2. CASE Kill(p)
    <3>1. p \in Others /\ Die(p)
      BY <2>2 DEF Kill, Others, OneLivingOwner
    <3> QED BY <1>8, <3>1, DieKeepsIds DEF End
  <2> QED BY <1>8, <2>1, <2>2 DEF End
<1>9. CASE StartAgain(p)
  BY <1>1, <1>9, IdleKeepsIds DEF StartAgain, Restart, kernel, segment
<1>10. CASE ResetCount(p)
  BY <1>10 DEF ResetCount, ResetAttachedCount, OneLivingOwner
<1> QED BY <1>2, <1>3, <1>4, <1>5, <1>6, <1>7, <1>8, <1>9, <1>10

LEMMA StepIds ==
    ASSUME OneLivingOwner
    PROVE  IdsInv /\ [Next]_vars => IdsInv'
<1> SUFFICES ASSUME IdsInv, [Next]_vars PROVE IdsInv'
  OBVIOUS
<1>1. CASE UNCHANGED vars
  BY <1>1 DEF vars, segmentVars, fragmentVars, IdsInv, IdsTypeOK, ReadySegments, IdsDiffer,
              OwnerKeeps, IdBelow
<1>2. ASSUME NEW p \in Managers, AttachStep(p) /\ UNCHANGED fragmentVars PROVE IdsInv'
  BY <1>2, AttachStepKeepsIds DEF fragmentVars
<1> QED BY <1>1, <1>2, CallsKeepIds, LifeKeepsIds DEF Next, Step

LEMMA IdsInvDiffer == ASSUME IdsInv, OneLivingOwner PROVE IdsUnique
<1> SUFFICES ASSUME NEW p \in Managers, NEW q \in Managers, p # q, Attached(p),
                    shm_ptr_[p] = shm_ptr_[q], manager_id_[p] # Nobody
             PROVE  manager_id_[p] # manager_id_[q]
  BY DEF IdsUnique
<1>1. \A o \in Owners : Attached(o) => manager_id_[o] = 0
  <2> SUFFICES ASSUME NEW o \in Owners, Attached(o) PROVE manager_id_[o] = 0
    OBVIOUS
  <2>1. shm_ptr_[o] = key /\ key # None
    BY Constants DEF Attached, IdsInv, OwnerKeeps, None
  <2> QED BY <2>1 DEF IdsInv, OwnerKeeps
<1>2. \A r \in Others : manager_id_[r] # 0
  BY DEF IdsInv, IdBelow, Nobody
<1>3. p \notin Owners \/ q \notin Owners
  BY DEF OneLivingOwner
<1>4. Attached(q)
  BY DEF Attached
<1> QED BY <1>1, <1>2, <1>3, <1>4 DEF Others, IdsInv, IdsDiffer

\* "Assign a new ID" (SharedMemoryManager::GetNewId): the ids of those attached to one
\* segment are different, however many segments there were and whoever else was
\* signalled, killed and started again, if there is one owner, it is not killed, and its
\* client does not call ResetAttachedCount.
THEOREM IdsUniqueHolds == OneLivingOwner => (Spec => []IdsUnique)
<1> SUFFICES ASSUME OneLivingOwner PROVE Spec => []IdsUnique
  OBVIOUS
<1>1. IdsInv => IdsUnique
  BY IdsInvDiffer
<1> QED BY <1>1, InitIds, StepIds, PTL DEF Spec

\* The ids of those attached to one segment are different: what fragment_transfer checks,
\* where the owner may also be killed.
THEOREM IdsUniqueUndisturbedHolds == OneLivingOwner => (Spec => []IdsUniqueUndisturbed)
<1>1. IdsUnique => IdsUniqueUndisturbed
  BY DEF IdsUniqueUndisturbed
<1> QED BY <1>1, IdsUniqueHolds, PTL
-----------------------------------------------------------------------------
(* No buffer is lost *)

Flags == {"Empty", "Writing", "Full", "Reading"}
InUse == {"Writing", "Reading"}
WriteCalls == {"check", "reattach", "ready", "write", "full"}
ReadCalls == {"header", "between", "data", "empty"}

HoldTypeOK ==
    /\ key \in Int /\ created \in Int
    /\ next_id \in [Segments -> Int]
    /\ sem \in [Segments -> [Buffers -> Flags]]
    /\ sem_id \in [Segments -> [Buffers -> Int]]
    /\ shm_segment_id_ \in [Managers -> Int] /\ shm_ptr_ \in [Managers -> Int]
    /\ manager_id_ \in [Managers -> Int]
    /\ attach \in [Managers -> AttachStates] /\ call \in [Managers -> Calls]
    /\ active_buffer_ \in [Managers -> Buffers \cup {NoBuffer}]

\* A receiver forgets its active buffer with the call, a sender does not.
Held(p, s, b) ==
    /\ shm_ptr_[p] = s /\ active_buffer_[p] = b /\ manager_id_[p] = sem_id[s][b]
    /\ attach[p] \in {"idle", "ok"}
    /\ p \notin Senders => call[p] \in ReadCalls /\ sem[s][b] = "Reading"

HeldOrAbandoned ==
    \A s \in Segments, b \in Buffers :
        sem[s][b] \in InUse => (\E p \in Managers : Held(p, s, b)) \/ Abandoned(s, b)

OnlySendersWrite == \A p \in Managers : call[p] \in WriteCalls => p \in Senders

HoldInv == HoldTypeOK /\ HeldOrAbandoned /\ OnlySendersWrite

LEMMA InitHold == Init => HoldInv
<1> SUFFICES ASSUME Init PROVE HoldInv
  OBVIOUS
<1> USE DEF Init, SegmentInit, None, Nobody
<1>1. HoldTypeOK
  <2>1. /\ sem \in [Segments -> [Buffers -> Flags]]
        /\ sem_id \in [Segments -> [Buffers -> Int]]
    BY DEF Flags
  <2>2. attach \in [Managers -> AttachStates] /\ call \in [Managers -> Calls]
    BY DEF AttachStates, Calls
  <2> QED BY <2>1, <2>2 DEF HoldTypeOK
<1>2. HeldOrAbandoned /\ OnlySendersWrite
  BY DEF HeldOrAbandoned, InUse, OnlySendersWrite, WriteCalls
<1> QED BY <1>1, <1>2 DEF HoldInv

SameHold(q) ==
    /\ shm_ptr_'[q] = shm_ptr_[q] /\ manager_id_'[q] = manager_id_[q]
    /\ attach'[q] = attach[q] /\ call'[q] = call[q]
    /\ active_buffer_'[q] = active_buffer_[q]

\* In a step of one manager a buffer in use is the one it takes, or was in use before.
LEMMA HoldStep ==
    ASSUME HoldInv, NEW p \in Managers, HoldTypeOK',
           \A q \in Managers \ {p} : SameHold(q),
           call'[p] \in WriteCalls => p \in Senders,
           \A s \in Segments, b \in Buffers : sem'[s][b] \in InUse =>
               \/ Held(p, s, b)'
               \/ /\ sem'[s][b] = sem[s][b] /\ sem_id'[s][b] = sem_id[s][b]
                  /\ Held(p, s, b) => Held(p, s, b)' \/ Abandoned(s, b)'
                  /\ Abandoned(s, b) => Abandoned(s, b)'
    PROVE  HoldInv'
<1>1. OnlySendersWrite'
  <2> SUFFICES ASSUME NEW q \in Managers, call'[q] \in WriteCalls PROVE q \in Senders
    BY DEF OnlySendersWrite
  <2> QED BY DEF SameHold, HoldInv, OnlySendersWrite
<1>2. ASSUME NEW s \in Segments, NEW b \in Buffers, sem'[s][b] \in InUse
      PROVE (\E q \in Managers : Held(q, s, b)') \/ Abandoned(s, b)'
  <2>1. CASE Held(p, s, b)'
    BY <2>1
  <2>2. CASE /\ sem'[s][b] = sem[s][b] /\ sem_id'[s][b] = sem_id[s][b]
             /\ Held(p, s, b) => Held(p, s, b)' \/ Abandoned(s, b)'
             /\ Abandoned(s, b) => Abandoned(s, b)'
    <3>1. (\E q \in Managers : Held(q, s, b)) \/ Abandoned(s, b)
      BY <1>2, <2>2 DEF HoldInv, HeldOrAbandoned
    <3>2. ASSUME NEW q \in Managers \ {p}, Held(q, s, b) PROVE Held(q, s, b)'
      BY <2>2, <3>2 DEF Held, SameHold
    <3> QED BY <2>2, <3>1, <3>2
  <2> QED BY <1>2, <2>1, <2>2
<1>3. HeldOrAbandoned'
  BY <1>2 DEF HeldOrAbandoned
<1> QED BY <1>1, <1>3 DEF HoldInv

\* A step that leaves the buffers alone keeps what the manager holds if it held nothing,
\* or keeps it.
LEMMA QuietStep ==
    ASSUME HoldInv, NEW p \in Managers, HoldTypeOK', UNCHANGED <<sem, sem_id, abandoned>>,
           \A q \in Managers \ {p} : SameHold(q),
           call'[p] \in WriteCalls => p \in Senders,
           \A s \in Segments, b \in Buffers : Held(p, s, b) /\ sem[s][b] \in InUse
                                               => Held(p, s, b)'
    PROVE  HoldInv'
BY HoldStep DEF Abandoned

\* What a manager that dies without a segment held is nothing.
LEMMA DieKeepsHold ==
    ASSUME HoldInv, NEW p \in Managers, Die(p), UNCHANGED <<call, active_buffer_>>,
           abandoned \subseteq abandoned',
           shm_ptr_[p] \in Segments => <<shm_ptr_[p], manager_id_[p]>> \in abandoned'
    PROVE  HoldInv'
<1>1. HoldTypeOK' /\ \A q \in Managers \ {p} : SameHold(q)
  BY DEF Die, Goto, kernel, segment, HoldInv, HoldTypeOK, SameHold, AttachStates, None, Nobody
<1>2. call'[p] \in WriteCalls => p \in Senders
  BY DEF HoldInv, OnlySendersWrite
<1>3. ASSUME NEW s \in Segments, NEW b \in Buffers
      PROVE /\ sem'[s][b] = sem[s][b] /\ sem_id'[s][b] = sem_id[s][b]
            /\ Held(p, s, b) => Abandoned(s, b)'
            /\ Abandoned(s, b) => Abandoned(s, b)'
  BY DEF Die, kernel, segment, Held, Abandoned
<1> QED BY <1>1, <1>2, <1>3, HoldStep

\* Detach gives back everything the manager holds.
LEMMA LetGoKeepsHold ==
    ASSUME HoldInv, NEW p \in Managers, LetGo(p), abandoned' = abandoned,
           HoldTypeOK', \A q \in Managers \ {p} : SameHold(q),
           call'[p] \in WriteCalls => p \in Senders
    PROVE  HoldInv'
<1>1. ASSUME NEW s \in Segments, NEW b \in Buffers, sem'[s][b] \in InUse
      PROVE /\ sem'[s][b] = sem[s][b] /\ sem_id'[s][b] = sem_id[s][b]
            /\ ~Held(p, s, b)
            /\ Abandoned(s, b) => Abandoned(s, b)'
  <2>1. CASE shm_ptr_[p] = s
    <3>1. GiveBackBuffers(p)
      BY <2>1 DEF LetGo, Attached
    <3>2. /\ sem'[s][b] = IF sem_id[s][b] = manager_id_[p] THEN GivenBack(sem[s][b])
                          ELSE sem[s][b]
          /\ sem_id'[s][b] = IF sem_id[s][b] = manager_id_[p] THEN Nobody ELSE sem_id[s][b]
      BY <2>1, <3>1 DEF GiveBackBuffers, HoldInv, HoldTypeOK
    <3>3. sem_id[s][b] # manager_id_[p]
      BY <1>1, <3>2 DEF GivenBack, InUse
    <3> QED BY <3>2, <3>3 DEF Held, Abandoned
  <2>2. CASE shm_ptr_[p] # s
    <3>1. sem'[s][b] = sem[s][b] /\ sem_id'[s][b] = sem_id[s][b]
      BY <2>2 DEF LetGo, GiveBackBuffers, HoldInv, HoldTypeOK
    <3> QED BY <2>2, <3>1 DEF Held, Abandoned
  <2> QED BY <2>1, <2>2
<1> QED BY <1>1, HoldStep

LEMMA LetGoTypes ==
    ASSUME HoldInv, NEW p \in Managers, LetGo(p)
    PROVE  sem' \in [Segments -> [Buffers -> Flags]] /\ sem_id' \in [Segments -> [Buffers -> Int]]
<1>1. CASE Attached(p)
  <2> DEFINE s == shm_ptr_[p]
  <2>1. s \in Segments /\ GiveBackBuffers(p)
    BY <1>1 DEF LetGo, Attached
  <2>2. [b \in Buffers |-> IF sem_id[s][b] = manager_id_[p] THEN GivenBack(sem[s][b])
                           ELSE sem[s][b]] \in [Buffers -> Flags]
    BY <2>1 DEF HoldInv, HoldTypeOK, GivenBack, Flags
  <2>3. [b \in Buffers |-> IF sem_id[s][b] = manager_id_[p] THEN Nobody ELSE sem_id[s][b]]
            \in [Buffers -> Int]
    BY <2>1 DEF HoldInv, HoldTypeOK, Nobody
  <2> QED BY <2>1, <2>2, <2>3 DEF GiveBackBuffers, HoldInv, HoldTypeOK
<1>2. CASE ~Attached(p)
  BY <1>2 DEF LetGo, HoldInv, HoldTypeOK
<1> QED BY <1>1, <1>2

LEMMA DetachKeepsHold ==
    ASSUME HoldInv, NEW p \in Managers, NEW next \in AttachStates, DetachTo(p, next),
           abandoned' = abandoned,
           call' \in [Managers -> Calls],
           active_buffer_' \in [Managers -> Buffers \cup {NoBuffer}],
           \A q \in Managers \ {p} : call'[q] = call[q] /\ active_buffer_'[q] = active_buffer_[q],
           call'[p] \in WriteCalls => p \in Senders
    PROVE  HoldInv'
<1>1. CASE shm_ptr_[p] = Invalid
  <2>1. Die(p) /\ shm_ptr_[p] \notin Segments
    BY <1>1, Constants DEF DetachTo, Invalid
  <2>2. HoldTypeOK' /\ \A q \in Managers \ {p} : SameHold(q)
    BY <2>1 DEF Die, Goto, kernel, segment, HoldInv, HoldTypeOK, SameHold, AttachStates, None, Nobody
  <2>3. \A s \in Segments, b \in Buffers : ~Held(p, s, b)
    BY <2>1 DEF Held
  <2> QED BY <2>1, <2>2, <2>3, QuietStep DEF Die, segment
<1>2. CASE shm_ptr_[p] # Invalid
  <2>1. /\ LetGo(p)
        /\ manager_id_' = manager_id_ \/ manager_id_' = [manager_id_ EXCEPT ![p] = Nobody]
        /\ Goto(p, "remove") \/ Goto(p, next)
        /\ UNCHANGED <<key, created, next_id, shm_segment_id_>>
    BY <1>2 DEF DetachTo, kernel
  <2>2. shm_ptr_' = [shm_ptr_ EXCEPT ![p] = None] /\ shm_ptr_' \in [Managers -> Int]
    BY <2>1 DEF LetGo, HoldInv, HoldTypeOK, None
  <2>3. sem' \in [Segments -> [Buffers -> Flags]] /\ sem_id' \in [Segments -> [Buffers -> Int]]
    BY <2>1, LetGoTypes
  <2>4. attach' \in [Managers -> AttachStates] /\ manager_id_' \in [Managers -> Int]
    BY <2>1 DEF Goto, HoldInv, HoldTypeOK, AttachStates, Nobody
  <2>5. HoldTypeOK'
    BY <2>1, <2>2, <2>3, <2>4 DEF HoldInv, HoldTypeOK
  <2>6. \A q \in Managers \ {p} : SameHold(q)
    BY <2>1, <2>2 DEF Goto, HoldInv, HoldTypeOK, SameHold
  <2> QED BY <2>1, <2>5, <2>6, LetGoKeepsHold
<1> QED BY <1>1, <1>2
LEMMA ThrowKeepsHold ==
    ASSUME HoldInv, NEW p \in Managers, Throw(p)
    PROVE  HoldInv'
<1>1. call' = [call EXCEPT ![p] = "none"] /\ "none" \in Calls /\ "none" \notin WriteCalls
  BY DEF Throw, Next_, Calls, WriteCalls
<1>2. "idle" \in AttachStates
  BY DEF AttachStates
<1>3. call' \in [Managers -> Calls] /\ \A q \in Managers \ {p} : call'[q] = call[q]
  BY <1>1 DEF HoldInv, HoldTypeOK
<1>4. call'[p] = "none"
  BY <1>1 DEF HoldInv, HoldTypeOK
<1> QED BY <1>1, <1>2, <1>3, <1>4, DetachKeepsHold DEF Throw, ended, HoldInv, HoldTypeOK

\* Attach, for a new manager or in WriteFragment.
LEMMA AttachKeepsHold ==
    ASSUME HoldInv, NEW p \in Managers, Attach(p), call[p] \in {"none", "check"},
           NEW c \in Calls, call' = [call EXCEPT ![p] = c], c \in WriteCalls => p \in Senders,
           UNCHANGED <<active_buffer_, abandoned>>
    PROVE  HoldInv'
<1>1. /\ call' \in [Managers -> Calls] /\ call'[p] = c
      /\ \A q \in Managers \ {p} : call'[q] = call[q]
  BY DEF HoldInv, HoldTypeOK
<1>2. CASE IsValid(p) /\ manager_id_[p] # 0
  <2>1. DetachTo(p, "shmget") /\ "shmget" \in AttachStates
    BY <1>2 DEF Attach, AttachStates
  <2> QED BY <1>1, <2>1, DetachKeepsHold DEF HoldInv, HoldTypeOK
<1>3. CASE ~(IsValid(p) /\ manager_id_[p] # 0)
  <2>1. /\ UNCHANGED <<key, created, next_id, sem, sem_id>>
        /\ UNCHANGED <<shm_segment_id_, shm_ptr_, manager_id_>>
        /\ attach' = [attach EXCEPT ![p] = IF IsValid(p) THEN "ok" ELSE "shmget"]
    BY <1>3 DEF Attach, Goto, kernel, segment
  <2>2. HoldTypeOK' /\ \A q \in Managers \ {p} : SameHold(q)
    BY <1>1, <2>1 DEF HoldInv, HoldTypeOK, SameHold, AttachStates
  <2>3. ASSUME NEW s \in Segments, NEW b \in Buffers, Held(p, s, b) PROVE Held(p, s, b)'
    <3>1. p \in Senders
      BY <2>3 DEF Held, ReadCalls
    <3>2. attach'[p] = "ok"
      BY <2>1, <2>3, Constants DEF Held, IsValid, None, HoldInv, HoldTypeOK
    <3> QED BY <2>1, <2>3, <3>1, <3>2 DEF Held
  <2> QED BY <1>1, <2>1, <2>2, <2>3, QuietStep
<1> QED BY <1>2, <1>3

LEMMA AttachStepKeepsHold ==
    ASSUME HoldInv, NEW p \in Managers, AttachStep(p), UNCHANGED fragmentVars
    PROVE  HoldInv'
<1> USE DEF At, Goto, fragmentVars, ended
<1>1. CASE AttachFaults(p)
  BY <1>1, DieKeepsHold DEF AttachFaults, Attached
<1>2. CASE ~AttachFaults(p)
  <2>1. UNCHANGED <<sem, sem_id>> /\ attach[p] \in {"shmget", "shmat", "wait", "remove"}
    BY <1>2 DEF AttachStep, ShmGet, ShmGetTimeout, ShmAt, GetNewId, Remove, segment
  <2>2. HoldTypeOK' /\ \A q \in Managers \ {p} : SameHold(q)
    <3> USE DEF HoldInv, HoldTypeOK, SameHold, AttachStates, kernel, segment
    <3>1. CASE ShmGet(p)
      <4>1. key' \in Int /\ created' \in Int
        BY <3>1 DEF ShmGet
      <4>2. manager_id_' = manager_id_ \/ manager_id_' = [manager_id_ EXCEPT ![p] = 0]
        BY <3>1 DEF ShmGet
      <4> QED BY <3>1, <4>1, <4>2 DEF ShmGet
    <3>2. CASE ShmGetTimeout(p)
      BY <3>2 DEF ShmGetTimeout, None
    <3>3. CASE ShmAt(p)
      <4>1. /\ \/ shm_ptr_' = [shm_ptr_ EXCEPT ![p] = shm_segment_id_[p]]
               \/ shm_ptr_' = [shm_ptr_ EXCEPT ![p] = Invalid]
            /\ \E x \in AttachStates : attach' = [attach EXCEPT ![p] = x]
        BY <3>3 DEF ShmAt
      <4>2. Invalid \in Int /\ shm_segment_id_[p] \in Int
        BY DEF Invalid
      <4> QED BY <3>3, <4>1, <4>2 DEF ShmAt
    <3>4. CASE GetNewId(p)
      <4>1. next_id[shm_ptr_[p]] \in Int
        BY <3>4 DEF GetNewId, Attached
      <4> QED BY <3>4, <4>1 DEF GetNewId, NextId, Attached
    <3>5. CASE Remove(p)
      BY <3>5 DEF Remove, None, Nobody
    <3> QED BY <1>2, <3>1, <3>2, <3>3, <3>4, <3>5 DEF AttachStep
  <2>3. \A s \in Segments, b \in Buffers : ~Held(p, s, b)
    BY <2>1 DEF Held
  <2>4. call'[p] \in WriteCalls => p \in Senders
    BY DEF HoldInv, OnlySendersWrite
  <2> QED BY <2>1, <2>2, <2>3, <2>4, QuietStep
<1> QED BY <1>1, <1>2

\* A buffer of the owner's segment is Empty afterwards.
LEMMA InitializeKeepsHold ==
    ASSUME HoldInv, NEW p \in Managers, Initialize(p)
    PROVE  HoldInv'
<1> DEFINE s == shm_ptr_[p]
<1>1. /\ attach[p] = "init"
      /\ sem' = [sem EXCEPT ![s] = [b \in Buffers |-> "Empty"]]
      /\ sem_id' = [sem_id EXCEPT ![s] = [b \in Buffers |-> Nobody]]
      /\ next_id' = [next_id EXCEPT ![s] = 1]
      /\ attach' = [attach EXCEPT ![p] = "ok"]
      /\ abandoned' = {x \in abandoned : x[1] # s}
      /\ UNCHANGED <<key, created, shm_segment_id_, shm_ptr_, manager_id_, active_buffer_, call>>
  BY DEF Initialize, OwnerInit, At, Goto, kernel
<1>2. HoldTypeOK' /\ \A q \in Managers \ {p} : SameHold(q)
  <2>1. sem' \in [Segments -> [Buffers -> Flags]]
    <3>1. [b \in Buffers |-> "Empty"] \in [Buffers -> Flags]
      BY DEF Flags
    <3> QED BY <1>1, <3>1 DEF HoldInv, HoldTypeOK
  <2>2. sem_id' \in [Segments -> [Buffers -> Int]]
    <3>1. [b \in Buffers |-> Nobody] \in [Buffers -> Int]
      BY DEF Nobody
    <3> QED BY <1>1, <3>1 DEF HoldInv, HoldTypeOK
  <2> QED BY <1>1, <2>1, <2>2 DEF HoldInv, HoldTypeOK, SameHold, AttachStates
<1>3. ASSUME NEW t \in Segments, NEW b \in Buffers, sem'[t][b] \in InUse
      PROVE /\ sem'[t][b] = sem[t][b] /\ sem_id'[t][b] = sem_id[t][b]
            /\ ~Held(p, t, b)
            /\ Abandoned(t, b) => Abandoned(t, b)'
  <2>1. t # s
    BY <1>1, <1>3 DEF HoldInv, HoldTypeOK, InUse
  <2> QED BY <1>1, <2>1 DEF HoldInv, HoldTypeOK, Held, Abandoned
<1>4. call'[p] \in WriteCalls => p \in Senders
  BY <1>1 DEF HoldInv, OnlySendersWrite
<1> QED BY <1>2, <1>3, <1>4, HoldStep

LEMMA EndKeepsHold ==
    ASSUME HoldInv, NEW p \in Managers, End(p)
    PROVE  HoldInv'
<1>1. CASE Die(p)
  <2>1. attach'[p] = "dead"
    BY <1>1 DEF Die, Goto, HoldInv, HoldTypeOK
  <2> QED BY <1>1, <2>1, DieKeepsHold DEF End, LeftBehind, Attached
<1>2. CASE ~Die(p)
  <2>1. /\ Alive(p) /\ LetGo(p) /\ UNCHANGED <<attach, call, active_buffer_>>
        /\ manager_id_' = [manager_id_ EXCEPT ![p] = Nobody]
        /\ UNCHANGED <<key, created, next_id, shm_segment_id_>>
    BY <1>2 DEF End, Signal, Kill, kernel
  <2>2. abandoned' = abandoned
    BY <2>1 DEF End, Alive, At
  <2>3. shm_ptr_' = [shm_ptr_ EXCEPT ![p] = None] /\ shm_ptr_' \in [Managers -> Int]
    BY <2>1 DEF LetGo, HoldInv, HoldTypeOK, None
  <2>4. sem' \in [Segments -> [Buffers -> Flags]] /\ sem_id' \in [Segments -> [Buffers -> Int]]
    BY <2>1, LetGoTypes
  <2>5. HoldTypeOK' /\ \A q \in Managers \ {p} : SameHold(q)
    BY <2>1, <2>3, <2>4 DEF HoldInv, HoldTypeOK, SameHold, Nobody
  <2>6. call'[p] \in WriteCalls => p \in Senders
    BY <2>1 DEF HoldInv, OnlySendersWrite
  <2> QED BY <2>1, <2>2, <2>5, <2>6, LetGoKeepsHold
<1> QED BY <1>1, <1>2

\* A step of a call that touches no buffer.
LEMMA QuietCallKeepsHold ==
    ASSUME HoldInv, NEW p \in Managers, NEW c \in Calls, call' = [call EXCEPT ![p] = c],
           UNCHANGED <<key, created, next_id, sem, sem_id, shm_segment_id_, shm_ptr_, manager_id_,
                       attach, active_buffer_, abandoned>>,
           c \in WriteCalls => p \in Senders,
           \/ c \in ReadCalls \/ call[p] \notin ReadCalls
           \/ ~Owns(p, active_buffer_[p], "Reading")
    PROVE  HoldInv'
<1>1. HoldTypeOK' /\ call'[p] = c /\ \A q \in Managers \ {p} : SameHold(q)
  BY DEF HoldInv, HoldTypeOK, SameHold
<1>2. ASSUME NEW s \in Segments, NEW b \in Buffers, Held(p, s, b) PROVE Held(p, s, b)'
  BY <1>1, <1>2 DEF Held, Owns
<1> QED BY <1>1, <1>2, QuietStep

\* A buffer is taken by a manager that has none, or forgets none.
LEMMA TakeKeepsHold ==
    ASSUME HoldInv, NEW p \in Managers, NEW b \in Buffers, NEW flag \in InUse,
           Attached(p), attach[p] = "idle",
           SetBuffer(shm_ptr_[p], b, flag, manager_id_[p]), SetActive(p, b),
           NEW c \in Calls, call' = [call EXCEPT ![p] = c], c \in WriteCalls => p \in Senders,
           UNCHANGED <<key, created, next_id, shm_segment_id_, shm_ptr_, manager_id_,
                       attach, abandoned>>,
           active_buffer_[p] = NoBuffer \/ (p \notin Senders /\ call[p] \notin ReadCalls),
           p \notin Senders => c \in ReadCalls /\ flag = "Reading"
    PROVE  HoldInv'
<1> DEFINE s == shm_ptr_[p]
<1>1. s \in Segments /\ flag \in Flags /\ manager_id_[p] \in Int
  BY DEF Attached, InUse, Flags, HoldInv, HoldTypeOK
<1>2. /\ sem' = [sem EXCEPT ![s][b] = flag] /\ sem_id' = [sem_id EXCEPT ![s][b] = manager_id_[p]]
      /\ active_buffer_' = [active_buffer_ EXCEPT ![p] = b]
  BY DEF SetBuffer, SetActive
<1>3. sem' \in [Segments -> [Buffers -> Flags]] /\ sem_id' \in [Segments -> [Buffers -> Int]]
  BY <1>1, <1>2 DEF HoldInv, HoldTypeOK
<1>4. HoldTypeOK' /\ \A q \in Managers \ {p} : SameHold(q)
  BY <1>2, <1>3 DEF HoldInv, HoldTypeOK, SameHold
<1>5. call'[p] = c /\ active_buffer_'[p] = b
  BY <1>2 DEF HoldInv, HoldTypeOK
<1>6. Held(p, s, b)'
  <2>1. sem'[s][b] = flag /\ sem_id'[s][b] = manager_id_[p]
    BY <1>1, <1>2 DEF HoldInv, HoldTypeOK
  <2> QED BY <1>5, <2>1 DEF Held
<1>7. \A t \in Segments, d \in Buffers : ~Held(p, t, d)
  BY FragmentsAssumption DEF Held
<1>8. ASSUME NEW t \in Segments, NEW d \in Buffers, t # s \/ d # b
      PROVE /\ sem'[t][d] = sem[t][d] /\ sem_id'[t][d] = sem_id[t][d]
            /\ Abandoned(t, d) => Abandoned(t, d)'
  <2>1. sem'[t][d] = sem[t][d] /\ sem_id'[t][d] = sem_id[t][d]
    BY <1>1, <1>2, <1>8 DEF HoldInv, HoldTypeOK
  <2> QED BY <2>1 DEF Abandoned
<1> QED BY <1>4, <1>5, <1>6, <1>7, <1>8, HoldStep

\* The active buffer is given away.
LEMMA GiveKeepsHold ==
    ASSUME HoldInv, NEW p \in Managers, NEW flag \in Flags \ InUse, Attached(p),
           NEW id \in Int,
           \/ SetBuffer(shm_ptr_[p], active_buffer_[p], flag, id)
           \/ /\ sem_id[shm_ptr_[p]][active_buffer_[p]] # manager_id_[p]
              /\ UNCHANGED <<sem, sem_id>>,
           SetActive(p, NoBuffer), call' = [call EXCEPT ![p] = "none"],
           UNCHANGED <<key, created, next_id, shm_segment_id_, shm_ptr_, manager_id_,
                       attach, abandoned>>
    PROVE  HoldInv'
<1> DEFINE s == shm_ptr_[p]
           b == active_buffer_[p]
<1>1. s \in Segments /\ b \in Buffers \cup {NoBuffer}
  BY DEF Attached, HoldInv, HoldTypeOK
<1>2. sem' \in [Segments -> [Buffers -> Flags]] /\ sem_id' \in [Segments -> [Buffers -> Int]]
  <2>1. CASE UNCHANGED <<sem, sem_id>>
    BY <2>1 DEF HoldInv, HoldTypeOK
  <2>2. CASE SetBuffer(s, b, flag, id)
    BY <1>1, <2>2 DEF SetBuffer, HoldInv, HoldTypeOK
  <2> QED BY <2>1, <2>2
<1>3. "none" \in Calls /\ "none" \notin WriteCalls
  BY DEF Calls, WriteCalls
<1>4. HoldTypeOK' /\ call'[p] = "none" /\ \A q \in Managers \ {p} : SameHold(q)
  BY <1>2, <1>3 DEF SetActive, HoldInv, HoldTypeOK, SameHold
<1>5. ASSUME NEW t \in Segments, NEW d \in Buffers, sem'[t][d] \in InUse
      PROVE /\ sem'[t][d] = sem[t][d] /\ sem_id'[t][d] = sem_id[t][d]
            /\ ~Held(p, t, d)
            /\ Abandoned(t, d) => Abandoned(t, d)'
  <2>1. CASE SetBuffer(s, b, flag, id)
    <3>1. t # s \/ d # b
      BY <1>1, <1>5, <2>1 DEF SetBuffer, HoldInv, HoldTypeOK
    <3>2. sem'[t][d] = sem[t][d] /\ sem_id'[t][d] = sem_id[t][d]
      BY <1>1, <2>1, <3>1 DEF SetBuffer, HoldInv, HoldTypeOK
    <3> QED BY <3>1, <3>2 DEF Held, Abandoned
  <2>2. CASE sem_id[s][b] # manager_id_[p] /\ UNCHANGED <<sem, sem_id>>
    BY <2>2 DEF Held, Abandoned
  <2> QED BY <2>1, <2>2
<1> QED BY <1>3, <1>4, <1>5, HoldStep

LEMMA CallsKeepHold ==
    ASSUME HoldInv, NEW p \in Managers,
           \/ WriteFragment(p) \/ CheckSegment(p) \/ ReadyForWrite(p) \/ WaitForBuffer(p)
           \/ Write(p) \/ MarkBufferFull(p)
           \/ ReadFragmentHeader(p) \/ ReadHeader(p) \/ ReadFragmentData(p)
           \/ ReadData(p) \/ MarkBufferEmpty(p)
    PROVE  HoldInv'
<1> USE DEF Next_, In, Mapped, At
<1>1. /\ Calls = WriteCalls \cup ReadCalls \cup {"none", "construct"}
      /\ WriteCalls = {"check", "reattach", "ready", "write", "full"}
      /\ ReadCalls = {"header", "between", "data", "empty"}
  BY DEF Calls, Busy, WriteCalls, ReadCalls
<1>2. call[p] \in WriteCalls => p \in Senders
  BY DEF HoldInv, OnlySendersWrite
<1> USE Constants
<1>3. CASE WriteFragment(p)
  BY <1>1, <1>3, QuietCallKeepsHold DEF WriteFragment, segmentVars, ended
<1>4. CASE CheckSegment(p)
  <2>1. CASE IsEndOfData(p)
    BY <1>1, <1>2, <1>4, <2>1, AttachKeepsHold DEF CheckSegment, ended
  <2>2. CASE ~IsEndOfData(p)
    BY <1>1, <1>2, <1>4, <2>2, QuietCallKeepsHold DEF CheckSegment, segmentVars, ended
  <2> QED BY <2>1, <2>2
<1>5. CASE ReadyForWrite(p)
  <2>1. CASE active_buffer_[p] # NoBuffer
    BY <1>1, <1>2, <1>5, <2>1, QuietCallKeepsHold DEF ReadyForWrite, segmentVars, ended
  <2>2. CASE active_buffer_[p] = NoBuffer
    <3>1. PICK b \in Buffers : /\ SetBuffer(shm_ptr_[p], b, "Writing", manager_id_[p])
                               /\ SetActive(p, b)
                               /\ UNCHANGED <<kernel, ready_magic, next_id, content, manager>>
      BY <1>5, <2>2 DEF ReadyForWrite
    <3>2. "Writing" \in InUse /\ "write" \in Calls
      BY <1>1 DEF InUse
    <3> QED BY <1>1, <1>2, <1>5, <2>2, <3>1, <3>2, TakeKeepsHold
            DEF ReadyForWrite, kernel, manager, ended
  <2> QED BY <2>1, <2>2
<1>6. CASE WaitForBuffer(p)
  BY <1>1, <1>2, <1>6, QuietCallKeepsHold DEF WaitForBuffer, segmentVars, ended
<1>7. CASE Write(p)
  <2>1. CASE Throw(p)
    BY <2>1, ThrowKeepsHold
  <2> QED BY <1>1, <1>2, <1>7, <2>1, QuietCallKeepsHold DEF Write, kernel, manager, ended
<1>8. CASE MarkBufferFull(p)
  <2>1. "Full" \in Flags \ InUse /\ Nobody \in Int
    BY DEF Flags, InUse, Nobody
  <2> QED BY <1>8, <2>1, GiveKeepsHold DEF MarkBufferFull, Destination, kernel, manager, ended
<1>9. CASE ReadFragmentHeader(p)
  <2>1. PICK b \in Buffers : /\ SetBuffer(shm_ptr_[p], b, "Reading", manager_id_[p])
                             /\ SetActive(p, b)
    BY <1>9 DEF ReadFragmentHeader
  <2>2. p \notin Senders /\ "Reading" \in InUse /\ "header" \in Calls
    BY <1>1, <1>9, SendersAssumption DEF ReadFragmentHeader, InUse
  <2> QED BY <1>1, <1>9, <2>1, <2>2, TakeKeepsHold DEF ReadFragmentHeader, kernel, manager, ended
<1>10. CASE ReadHeader(p)
  <2>1. CASE Throw(p)
    BY <2>1, ThrowKeepsHold
  <2> QED BY <1>1, <1>10, <2>1, QuietCallKeepsHold DEF ReadHeader, segmentVars, ended
<1>11. CASE ReadFragmentData(p)
  <2>1. CASE Owns(p, active_buffer_[p], "Reading")
    BY <1>1, <1>11, <2>1, QuietCallKeepsHold DEF ReadFragmentData, segmentVars, ended
  <2>2. CASE ~Owns(p, active_buffer_[p], "Reading")
    BY <1>1, <1>11, <2>2, QuietCallKeepsHold DEF ReadFragmentData, segmentVars, ended
  <2> QED BY <2>1, <2>2
<1>12. CASE ReadData(p)
  <2>1. CASE Throw(p)
    BY <2>1, ThrowKeepsHold
  <2> QED BY <1>1, <1>12, <2>1, QuietCallKeepsHold DEF ReadData, segmentVars, ended
<1>13. CASE MarkBufferEmpty(p)
  <2>1. CASE Throw(p)
    BY <2>1, ThrowKeepsHold
  <2>2. "Empty" \in Flags \ InUse /\ Nobody \in Int
    BY DEF Flags, InUse, Nobody
  <2> QED BY <1>13, <2>1, <2>2, GiveKeepsHold
          DEF MarkBufferEmpty, Released, kernel, manager, ended
<1> QED
  BY <1>3, <1>4, <1>5, <1>6, <1>7, <1>8, <1>9, <1>10, <1>11, <1>12, <1>13

LEMMA LifeKeepsHold ==
    ASSUME HoldInv, NEW p \in Managers,
           \/ Construct(p) \/ Constructed(p) \/ Reattached(p)
           \/ Destruct(p) \/ Fault(p) \/ StartAgain(p) \/ ResetCount(p)
    PROVE  HoldInv'
<1> USE DEF Next_, In, At, Goto
<1>1. /\ {"none", "construct"} \subseteq Calls \ WriteCalls /\ {"ready"} \subseteq Calls
      /\ {"idle", "shmget"} \subseteq AttachStates /\ "reattach" \in WriteCalls
      /\ {"construct", "reattach"} \cap ReadCalls = {}
  BY DEF Calls, Busy, WriteCalls, ReadCalls, AttachStates
<1>2. call[p] \in WriteCalls => p \in Senders
  BY DEF HoldInv, OnlySendersWrite
<1>3. CASE Construct(p)
  BY <1>1, <1>3, AttachKeepsHold DEF Construct, ended
<1>4. ASSUME NEW c \in {"none", "ready"}, call' = [call EXCEPT ![p] = c],
             call[p] \in {"construct", "reattach"}, c = "ready" => call[p] = "reattach",
             attach' = [attach EXCEPT ![p] = "idle"], Returned(p),
             UNCHANGED <<key, created, next_id, sem, sem_id, shm_segment_id_, shm_ptr_,
                         manager_id_, active_buffer_, abandoned>>
      PROVE HoldInv'
  <2>1. HoldTypeOK' /\ call'[p] = c /\ attach'[p] = "idle" /\ \A q \in Managers \ {p} : SameHold(q)
    BY <1>1, <1>4 DEF HoldInv, HoldTypeOK, SameHold
  <2>2. ASSUME NEW s \in Segments, NEW b \in Buffers, Held(p, s, b) PROVE Held(p, s, b)'
    BY <1>1, <1>4, <2>1, <2>2 DEF Held
  <2>3. c \in WriteCalls => p \in Senders
    BY <1>1, <1>2, <1>4
  <2> QED BY <1>4, <2>1, <2>2, <2>3, QuietStep
<1>5. CASE Constructed(p)
  BY <1>4, <1>5 DEF Constructed, kernel, segment, ended
<1>6. CASE Reattached(p)
  BY <1>4, <1>6 DEF Reattached, kernel, segment, ended
<1>7. CASE Destruct(p)
  <2>1. /\ DetachTo(p, "idle") /\ abandoned' = abandoned /\ call' = call /\ call[p] = "none"
        /\ active_buffer_' = [active_buffer_ EXCEPT ![p] = NoBuffer]
    BY <1>7 DEF Destruct, SetActive, ended
  <2> QED BY <1>1, <2>1, DetachKeepsHold DEF HoldInv, HoldTypeOK
<1>8. CASE Fault(p)
  BY <1>8, DieKeepsHold DEF Fault, fragmentVars, ended, Attached
<1>9. CASE StartAgain(p)
  <2>1. /\ attach[p] = "dead" /\ attach' = [attach EXCEPT ![p] = "idle"]
        /\ call' = [call EXCEPT ![p] = "none"]
        /\ active_buffer_' = [active_buffer_ EXCEPT ![p] = NoBuffer]
        /\ UNCHANGED <<key, created, next_id, sem, sem_id, shm_segment_id_, shm_ptr_,
                       manager_id_, abandoned>>
    BY <1>9 DEF StartAgain, Restart, SetActive, kernel, segment, ended
  <2>2. HoldTypeOK' /\ call'[p] = "none" /\ \A q \in Managers \ {p} : SameHold(q)
    BY <1>1, <2>1 DEF HoldInv, HoldTypeOK, SameHold
  <2>3. \A s \in Segments, b \in Buffers : ~Held(p, s, b)
    BY <2>1 DEF Held
  <2> QED BY <1>1, <2>1, <2>2, <2>3, QuietStep
<1>10. CASE ResetCount(p)
  <2>1. /\ next_id' = [next_id EXCEPT ![shm_ptr_[p]] = 1]
        /\ UNCHANGED <<key, created, sem, sem_id, shm_segment_id_, shm_ptr_,
                       manager_id_, attach, call, active_buffer_, abandoned>>
    BY <1>10 DEF ResetCount, ResetAttachedCount, kernel, manager, fragmentVars, ended
  <2>2. next_id' \in [Segments -> Int]
    <3>1. ASSUME NEW f \in [Segments -> Int], NEW x, NEW v \in Int
          PROVE [f EXCEPT ![x] = v] \in [Segments -> Int]
      OBVIOUS
    <3>2. next_id \in [Segments -> Int]
      BY DEF HoldInv, HoldTypeOK
    <3>3. 1 \in Int
      OBVIOUS
    <3> QED BY <2>1, <3>1, <3>2, <3>3, Zenon
  <2>3. HoldTypeOK'
    BY <2>1, <2>2 DEF HoldInv, HoldTypeOK
  <2>4. \A q \in Managers \ {p} : SameHold(q)
    BY <2>1 DEF SameHold
  <2> QED BY <1>2, <2>1, <2>3, <2>4, QuietStep DEF Held
<1> QED BY <1>3, <1>5, <1>6, <1>7, <1>8, <1>9, <1>10

LEMMA StepHold == HoldInv /\ [Next]_vars => HoldInv'
<1> SUFFICES ASSUME HoldInv, [Next]_vars PROVE HoldInv'
  OBVIOUS
<1>1. CASE UNCHANGED vars
  BY <1>1 DEF vars, segmentVars, fragmentVars, ended, HoldInv, HoldTypeOK, HeldOrAbandoned,
              OnlySendersWrite, Held, Abandoned
<1>2. ASSUME NEW p \in Managers, AttachStep(p) /\ UNCHANGED fragmentVars PROVE HoldInv'
  BY <1>2, AttachStepKeepsHold
<1> QED
  BY <1>1, <1>2, CallsKeepHold, LifeKeepsHold, InitializeKeepsHold, EndKeepsHold DEF Next, Step

\* A buffer that is Writing or Reading is the active buffer of somebody attached, or was
\* left by a process that was killed: Detach, the signal handler, the exceptions of
\* checkBuffer_ and the owner's initialisation leave nothing behind.  It needs nothing
\* of the owners, the ids or the kills.
THEOREM NoBufferLostHolds == Spec => []NoBufferLost
<1>1. HoldInv => NoBufferLost
  <2> SUFFICES ASSUME HoldInv, NEW s \in Segments, NEW b \in Buffers,
                      sem[s][b] \in {"Writing", "Reading"}
               PROVE  \/ \E p \in Managers : shm_ptr_[p] = s /\ Holds(p, b)
                      \/ Abandoned(s, b)
    BY DEF NoBufferLost
  <2>1. (\E p \in Managers : Held(p, s, b)) \/ Abandoned(s, b)
    BY DEF HoldInv, HeldOrAbandoned, InUse
  <2> QED BY <2>1 DEF Held, Holds, Attached
<1> QED BY <1>1, InitHold, StepHold, PTL DEF Spec

-----------------------------------------------------------------------------
(* Delivery *)

DeliveryTypeOK ==
    /\ written \in 0 .. MaxFragments
    /\ fragment \in [Managers -> Nat]
    /\ content \in [Segments -> [Buffers -> Nat]]
    /\ acknowledged \subseteq 1 .. written
    /\ received \in [Fragments -> Nat]

Published(s, b) == sem[s][b] \in {"Full", "Reading"}
Holding(s, b, n) == Published(s, b) /\ content[s][b] = n

\* What is published was acknowledged, is there once, and is not received yet.
Once ==
    /\ \A s \in Segments, b \in Buffers : Published(s, b) => content[s][b] \in acknowledged
    /\ \A s, t \in Segments, b, d \in Buffers :
        Published(s, b) /\ Published(t, d) /\ content[s][b] = content[t][d] => s = t /\ b = d
    /\ \A n \in Fragments :
        received[n] = IF n \in acknowledged /\ ~\E s \in Segments, b \in Buffers : Holding(s, b, n)
                      THEN 1 ELSE 0

\* No two senders write the same fragment, and none that is acknowledged.
InFlight ==
    \A p \in Managers : call[p] \in WriteCalls =>
        /\ fragment[p] \in 1 .. written /\ fragment[p] \notin acknowledged
        /\ \A q \in Managers \ {p} : call[q] \in WriteCalls => fragment[q] # fragment[p]

\* The buffers of a segment are used once its owner has initialised it.
Unused == \A s \in Segments, b \in Buffers : ~ready_magic[s] => sem[s][b] = "Empty"

\* A call finds its manager where Attach left it, with an id.
Settled(p) ==
    /\ call[p] \in Busy => attach[p] \in {"idle", "dead"}
    /\ p \in Others /\ Attached(p) =>
        attach[p] \in {"wait", "ok", "idle"} /\ (attach[p] # "wait" => manager_id_[p] # Nobody)
    /\ p \in Owners /\ key # None /\ attach[p] \in {"idle", "ok", "remove"} => ready_magic[key]

\* While it is attached nobody takes from a manager what it fills or reads.
Working(p) ==
    LET s == shm_ptr_[p]
        b == active_buffer_[p] IN
    Attached(p) =>
        /\ call[p] = "write" => b \in Buffers
        /\ call[p] = "full" => b \in Buffers /\ Owns(p, b, "Writing")
        /\ call[p] \in ReadCalls => b \in Buffers /\ Owns(p, b, "Reading")
        /\ call[p] \in {"full", "empty"} => fragment[p] = content[s][b]

DeliveryInv ==
    /\ DeliveryTypeOK /\ Once /\ InFlight /\ Unused
    /\ \A p \in Managers : Settled(p) /\ Working(p)

LEMMA InitDelivery == Init => DeliveryInv
<1> SUFFICES ASSUME Init PROVE DeliveryInv
  OBVIOUS
<1> USE DEF Init, SegmentInit, None, Nobody
<1>1. DeliveryTypeOK
  BY FragmentsAssumption DEF DeliveryTypeOK
<1>2. Once
  BY DEF Once, Published, Holding
<1>3. InFlight /\ Unused
  BY DEF InFlight, Unused, WriteCalls
<1>4. ASSUME NEW p \in Managers PROVE Settled(p) /\ Working(p)
  BY Constants DEF Settled, Working, Attached, Busy
<1> QED BY <1>1, <1>2, <1>3, <1>4 DEF DeliveryInv

-----------------------------------------------------------------------------
Inv == IdsInv /\ HoldInv /\ DeliveryInv

LEMMA HasId ==
    ASSUME Inv, NEW p \in Managers, Attached(p), call[p] \in Busy
    PROVE  manager_id_[p] # Nobody /\ ready_magic[shm_ptr_[p]]
<1>1. Settled(p)
  BY DEF Inv, DeliveryInv
<1>2. CASE p \in Owners
  <2>1. OwnerKeeps(p)
    BY <1>2 DEF Inv, IdsInv
  <2> QED BY <1>1, <1>2, <2>1 DEF Settled, OwnerKeeps, Nobody
<1>3. CASE p \notin Owners
  <2>1. p \in Others /\ IdBelow(p)
    BY <1>3 DEF Others, Inv, IdsInv
  <2> QED BY <1>1, <2>1 DEF Settled, IdBelow
<1> QED BY <1>2, <1>3

LEMMA ReadCallsBusy == ReadCalls \subseteq Busy /\ {"ready", "write", "full"} \subseteq Busy
BY DEF ReadCalls, Busy

\* What a step may do to a buffer: nothing, the owner's initialisation, or what its
\* manager may do to one that is free or its own.
May(p, s, b) ==
    \/ sem'[s][b] = sem[s][b] /\ sem_id'[s][b] = sem_id[s][b] /\ content'[s][b] = content[s][b]
    \/ ~ready_magic[s] /\ sem'[s][b] = "Empty"
    \/ /\ sem_id[s][b] = Nobody \/ (s = shm_ptr_[p] /\ sem_id[s][b] = manager_id_[p])
       /\ ready_magic[s] \/ sem[s][b] # "Empty" \/ sem'[s][b] = "Empty"

\* A step of one manager leaves to the others what they work on.
LEMMA DeliveryStep ==
    ASSUME OneLivingOwner, Inv, NEW p \in Managers,
           DeliveryTypeOK', Once', InFlight',
           \A q \in Managers \ {p} : SameHold(q) /\ fragment'[q] = fragment[q],
           p \in Others => key' = key,
           \A s \in Segments : ready_magic[s] => ready_magic'[s],
           \A s \in Segments, b \in Buffers : May(p, s, b),
           Settled(p)', Working(p)'
    PROVE  DeliveryInv'
<1>1. Unused'
  <2> SUFFICES ASSUME NEW s \in Segments, NEW b \in Buffers, ~ready_magic'[s]
               PROVE  sem'[s][b] = "Empty"
    BY DEF Unused
  <2>1. ~ready_magic[s] /\ sem[s][b] = "Empty"
    BY DEF Inv, DeliveryInv, Unused
  <2> QED BY <2>1 DEF May
<1>2. ASSUME NEW q \in Managers, q # p PROVE Settled(q)'
  <2>1. Settled(q) /\ SameHold(q)
    BY <1>2 DEF Inv, DeliveryInv
  <2>2. CASE q \in Owners
    <3>1. p \in Others /\ key' = key
      BY <1>2, <2>2 DEF OneLivingOwner, Others
    <3>2. key # None => key \in Segments
      BY Constants DEF Inv, IdsInv, IdsTypeOK, None
    <3> QED BY <2>1, <2>2, <3>1, <3>2 DEF Settled, SameHold, Others
  <2>3. CASE q \notin Owners
    BY <2>1, <2>3 DEF Settled, SameHold, Attached
  <2> QED BY <2>2, <2>3
<1>3. ASSUME NEW q \in Managers, q # p PROVE Working(q)'
  <2> SUFFICES ASSUME Attached(q), call[q] \in Busy PROVE Working(q)'
    <3>1. SameHold(q) /\ ("empty" \in ReadCalls)
      BY <1>3 DEF ReadCalls
    <3>2. CASE ~Attached(q)
      BY <3>1, <3>2 DEF Working, SameHold, Attached
    <3>3. CASE call[q] \notin Busy
      <4>1. call'[q] \notin ReadCalls /\ call'[q] # "write" /\ call'[q] # "full" /\ call'[q] # "empty"
        BY <3>1, <3>3 DEF Busy, ReadCalls, SameHold
      <4> QED BY <4>1 DEF Working
    <3> QED BY <3>2, <3>3
  <2> DEFINE s == shm_ptr_[q]
             b == active_buffer_[q]
  <2>1. Working(q) /\ SameHold(q) /\ fragment'[q] = fragment[q] /\ s \in Segments
    BY <1>3 DEF Inv, DeliveryInv, Attached
  <2>2. manager_id_[q] # Nobody /\ ready_magic[s]
    BY HasId
  <2>3. ASSUME b \in Buffers, sem_id[s][b] = manager_id_[q]
        PROVE /\ sem'[s][b] = sem[s][b] /\ sem_id'[s][b] = sem_id[s][b]
              /\ content'[s][b] = content[s][b]
    <3>1. s = shm_ptr_[p] => manager_id_[q] # manager_id_[p]
      BY <1>3, <2>2, IdsInvDiffer DEF Inv, IdsUnique
    <3> QED BY <2>1, <2>2, <2>3, <3>1 DEF May
  <2>4. call[q] \in ReadCalls \cup {"full"} => b \in Buffers /\ sem_id[s][b] = manager_id_[q]
    BY <2>1 DEF Working, Owns
  <2>5. call[q] \in ReadCalls \cup {"full"} =>
            /\ sem'[s][b] = sem[s][b] /\ sem_id'[s][b] = sem_id[s][b]
            /\ content'[s][b] = content[s][b]
    BY <2>3, <2>4
  <2>6. "empty" \in ReadCalls
    BY DEF ReadCalls
  <2> QED BY <2>1, <2>5, <2>6 DEF Working, Owns, SameHold, Attached
<1> QED BY <1>1, <1>2, <1>3 DEF DeliveryInv

LEMMA OnceKept ==
    ASSUME Once, UNCHANGED <<acknowledged, received>>,
           \A s \in Segments, b \in Buffers :
               /\ Published(s, b)' <=> Published(s, b)
               /\ Published(s, b) => content'[s][b] = content[s][b]
    PROVE  Once'
<1>1. \A s \in Segments, b \in Buffers : Published(s, b)' => content'[s][b] \in acknowledged'
  BY DEF Once
<1>2. \A s, t \in Segments, b, d \in Buffers :
        Published(s, b)' /\ Published(t, d)' /\ content'[s][b] = content'[t][d] => s = t /\ b = d
  BY DEF Once
<1>3. \A n \in Fragments, s \in Segments, b \in Buffers : Holding(s, b, n)' <=> Holding(s, b, n)
  BY DEF Holding
<1>4. \A n \in Fragments :
        received'[n] = IF n \in acknowledged'
                          /\ ~\E s \in Segments, b \in Buffers : Holding(s, b, n)'
                       THEN 1 ELSE 0
  BY <1>3 DEF Once
<1> QED BY <1>1, <1>2, <1>4 DEF Once

LEMMA InFlightKept ==
    ASSUME InFlight, NEW p \in Managers, UNCHANGED <<written, acknowledged>>,
           \A q \in Managers \ {p} : call'[q] = call[q] /\ fragment'[q] = fragment[q],
           call'[p] \in WriteCalls => call[p] \in WriteCalls /\ fragment'[p] = fragment[p]
    PROVE  InFlight'
<1>1. \A q \in Managers : call'[q] \in WriteCalls =>
        call[q] \in WriteCalls /\ fragment'[q] = fragment[q]
  OBVIOUS
<1> QED BY <1>1 DEF InFlight

\* A step that neither writes, acknowledges nor receives a fragment.
LEMMA QuietDelivery ==
    ASSUME OneLivingOwner, Inv, NEW p \in Managers,
           UNCHANGED <<written, acknowledged, received, content>>,
           fragment' \in [Managers -> Nat],
           \A q \in Managers \ {p} : SameHold(q) /\ fragment'[q] = fragment[q],
           p \in Others => key' = key,
           \A s \in Segments : ready_magic[s] => ready_magic'[s],
           \A s \in Segments, b \in Buffers :
               May(p, s, b) /\ (Published(s, b)' <=> Published(s, b)),
           call'[p] \in WriteCalls => call[p] \in WriteCalls /\ fragment'[p] = fragment[p],
           Settled(p)', Working(p)'
    PROVE  DeliveryInv'
<1>1. DeliveryTypeOK'
  BY DEF Inv, DeliveryInv, DeliveryTypeOK
<1>2. Once'
  BY OnceKept DEF Inv, DeliveryInv
<1>3. InFlight'
  BY InFlightKept DEF Inv, DeliveryInv, SameHold
<1> QED BY <1>1, <1>2, <1>3, DeliveryStep

-----------------------------------------------------------------------------
(* Attach and Detach *)

Quiet == <<written, acknowledged, received>>

LEMMA NotWorking == ASSUME NEW p, call'[p] \notin Busy PROVE Working(p)'
<1>1. call'[p] \notin ReadCalls /\ call'[p] \notin {"write", "full", "empty"}
  BY DEF Busy, ReadCalls
<1> QED BY <1>1 DEF Working

LEMMA FragmentTypes == ASSUME Inv PROVE fragment \in [Managers -> Nat]
BY DEF Inv, DeliveryInv, DeliveryTypeOK

LEMMA CallTypes ==
    ASSUME Inv PROVE call \in [Managers -> Calls] /\ attach \in [Managers -> AttachStates]
BY DEF Inv, HoldInv, HoldTypeOK

\* Nobody but the manager itself detaches it, and its buffers stay what they are for others.
LEMMA LetGoBuffers ==
    ASSUME Inv, NEW p \in Managers, LetGo(p), UNCHANGED content,
           NEW s \in Segments, NEW b \in Buffers
    PROVE  May(p, s, b) /\ (Published(s, b)' <=> Published(s, b))
<1>1. CASE shm_ptr_[p] = s
  <2>1. /\ sem'[s][b] = IF sem_id[s][b] = manager_id_[p] THEN GivenBack(sem[s][b])
                        ELSE sem[s][b]
        /\ sem_id'[s][b] = IF sem_id[s][b] = manager_id_[p] THEN Nobody ELSE sem_id[s][b]
    BY <1>1 DEF LetGo, GiveBackBuffers, Attached, Inv, HoldInv, HoldTypeOK
  <2>2. sem[s][b] \in Flags
    BY DEF Inv, HoldInv, HoldTypeOK
  <2>3. CASE sem_id[s][b] = manager_id_[p]
    BY <1>1, <2>1, <2>2, <2>3 DEF GivenBack, May, Published, Flags
  <2>4. CASE sem_id[s][b] # manager_id_[p]
    BY <2>1, <2>4 DEF May, Published
  <2> QED BY <2>3, <2>4
<1>2. CASE shm_ptr_[p] # s
  <2>1. sem'[s][b] = sem[s][b] /\ sem_id'[s][b] = sem_id[s][b]
    BY <1>2 DEF LetGo, GiveBackBuffers, Inv, HoldInv, HoldTypeOK
  <2> QED BY <2>1 DEF May, Published
<1> QED BY <1>1, <1>2

LEMMA DieDelivery ==
    ASSUME OneLivingOwner, Inv, NEW p \in Managers, Die(p),
           UNCHANGED <<Quiet, fragment>>,
           call'[p] \in WriteCalls => call[p] \in WriteCalls,
           \A q \in Managers \ {p} : call'[q] = call[q] /\ active_buffer_'[q] = active_buffer_[q]
    PROVE  DeliveryInv'
<1>1. /\ UNCHANGED <<key, ready_magic, sem, sem_id, content>>
      /\ attach' = [attach EXCEPT ![p] = "dead"]
      /\ shm_ptr_' = [shm_ptr_ EXCEPT ![p] = None]
      /\ manager_id_' = [manager_id_ EXCEPT ![p] = Nobody]
  BY DEF Die, Goto, kernel, segment
<1>2. shm_ptr_'[p] = None /\ attach'[p] = "dead" /\ ~Attached(p)'
  BY <1>1, Constants DEF Inv, HoldInv, HoldTypeOK, Attached, None
<1>3. \A q \in Managers \ {p} : SameHold(q)
  BY <1>1 DEF SameHold, Inv, HoldInv, HoldTypeOK
<1>4. Settled(p)' /\ Working(p)'
  BY <1>2 DEF Settled, Working
<1>5. \A s \in Segments, b \in Buffers : May(p, s, b) /\ (Published(s, b)' <=> Published(s, b))
  BY <1>1 DEF May, Published
<1> QED BY <1>1, <1>3, <1>4, <1>5, FragmentTypes, QuietDelivery DEF Quiet

LEMMA DetachDelivery ==
    ASSUME OneLivingOwner, Inv, NEW p \in Managers, NEW next \in AttachStates,
           DetachTo(p, next), UNCHANGED <<Quiet, fragment>>,
           NEW c \in Calls \ Busy, call' = [call EXCEPT ![p] = c],
           c \in WriteCalls => call[p] \in WriteCalls,
           \A q \in Managers \ {p} : active_buffer_'[q] = active_buffer_[q],
           p \in Owners => attach[p] = "idle"
    PROVE  DeliveryInv'
<1>1. call'[p] = c /\ \A q \in Managers \ {p} : call'[q] = call[q]
  BY CallTypes
<1>2. CASE shm_ptr_[p] = Invalid
  <2>1. Die(p)
    BY <1>2 DEF DetachTo
  <2> QED BY <1>1, <2>1, DieDelivery
<1>3. CASE shm_ptr_[p] # Invalid
  <2>1. /\ LetGo(p) /\ UNCHANGED <<key, ready_magic, content>>
        /\ manager_id_' = manager_id_ \/ manager_id_' = [manager_id_ EXCEPT ![p] = Nobody]
        /\ Goto(p, "remove") \/ Goto(p, next)
    BY <1>3 DEF DetachTo, kernel
  <2>2. shm_ptr_' = [shm_ptr_ EXCEPT ![p] = None]
    BY <2>1 DEF LetGo
  <2>3. ~Attached(p)'
    BY <2>2, Constants DEF Attached, None, Inv, HoldInv, HoldTypeOK
  <2>4. \A q \in Managers \ {p} : SameHold(q)
    BY <1>1, <2>1, <2>2 DEF Goto, SameHold, Inv, HoldInv, HoldTypeOK
  <2>5. \A s \in Segments, b \in Buffers : May(p, s, b) /\ (Published(s, b)' <=> Published(s, b))
    BY <2>1, LetGoBuffers
  <2>6. p \in Owners /\ key # None => ready_magic[key]
    BY DEF Inv, DeliveryInv, Settled
  <2>7. Settled(p)' /\ Working(p)'
    BY <1>1, <2>1, <2>3, <2>6 DEF Settled, Working
  <2> QED BY <1>1, <2>1, <2>4, <2>5, <2>7, FragmentTypes, QuietDelivery DEF Quiet
<1> QED BY <1>2, <1>3

LEMMA ThrowDelivery ==
    ASSUME OneLivingOwner, Inv, NEW p \in Managers, Throw(p), attach[p] = "idle"
    PROVE  DeliveryInv'
<1>1. "none" \in Calls \ Busy /\ "none" \notin WriteCalls /\ "idle" \in AttachStates
  BY DEF Calls, Busy, WriteCalls, AttachStates
<1> QED BY <1>1, DetachDelivery DEF Throw, Next_, Quiet

LEMMA AttachDelivery ==
    ASSUME OneLivingOwner, Inv, NEW p \in Managers, Attach(p),
           UNCHANGED <<Quiet, fragment, active_buffer_>>,
           NEW c \in Calls \ Busy, call' = [call EXCEPT ![p] = c],
           c \in WriteCalls => call[p] \in WriteCalls
    PROVE  DeliveryInv'
<1>1. attach[p] = "idle" /\ "shmget" \in AttachStates
  BY DEF Attach, At, AttachStates
<1>2. CASE IsValid(p) /\ manager_id_[p] # 0
  BY <1>1, <1>2, DetachDelivery DEF Attach
<1>3. CASE ~(IsValid(p) /\ manager_id_[p] # 0)
  <2>1. /\ UNCHANGED <<key, ready_magic, sem, sem_id, content, shm_ptr_, manager_id_>>
        /\ attach' = [attach EXCEPT ![p] = IF IsValid(p) THEN "ok" ELSE "shmget"]
    BY <1>3 DEF Attach, Goto, kernel, segment
  <2>2. /\ attach'[p] = (IF IsValid(p) THEN "ok" ELSE "shmget") /\ call'[p] = c
        /\ \A q \in Managers \ {p} : SameHold(q)
    BY <2>1, CallTypes DEF SameHold
  <2>3. Settled(p) /\ (Attached(p) => IsValid(p))
    BY Constants DEF Inv, DeliveryInv, Attached, IsValid, None
  <2>4. Settled(p)'
    BY <1>1, <2>1, <2>2, <2>3 DEF Settled, Attached
  <2>5. Working(p)'
    BY <2>2, NotWorking
  <2>6. \A s \in Segments, b \in Buffers : May(p, s, b) /\ (Published(s, b)' <=> Published(s, b))
    BY <2>1 DEF May, Published
  <2> QED BY <2>1, <2>2, <2>4, <2>5, <2>6, FragmentTypes, QuietDelivery DEF Quiet
<1> QED BY <1>2, <1>3

\* The steps to a segment: none is within a call that names a buffer.
LEMMA AttachStepDelivery ==
    ASSUME OneLivingOwner, Inv, NEW p \in Managers, AttachStep(p), UNCHANGED fragmentVars
    PROVE  DeliveryInv'
<1> USE DEF At, Goto
<1>1. CASE AttachFaults(p)
  BY <1>1, DieDelivery DEF AttachFaults, fragmentVars, Quiet
<1>2. CASE ~AttachFaults(p)
  <2>1. /\ UNCHANGED <<ready_magic, sem, sem_id, content>>
        /\ attach[p] \in {"shmget", "shmat", "wait", "remove"}
    BY <1>2 DEF AttachStep, ShmGet, ShmGetTimeout, ShmAt, GetNewId, Remove, segment
  <2>2. \A q \in Managers \ {p} : SameHold(q)
    BY <1>2 DEF AttachStep, ShmGet, ShmGetTimeout, ShmAt, GetNewId, Remove, fragmentVars,
                SameHold, Inv, HoldInv, HoldTypeOK
  <2>3. Settled(p) /\ call'[p] = call[p] /\ call[p] \notin Busy
    BY <2>1 DEF Inv, DeliveryInv, Settled, fragmentVars
  <2>4. p \in Others => key' = key
    BY <1>2 DEF AttachStep, ShmGet, ShmGetTimeout, ShmAt, GetNewId, Remove, kernel, Others,
                Inv, IdsInv, IdBelow
  <2>5. ASSUME p \in Others PROVE Settled(p)'
    <3>1. CASE ShmGet(p) \/ ShmGetTimeout(p)
      <4>1. ~Attached(p) /\ shm_ptr_' = shm_ptr_
        BY <2>3, <2>5, <3>1 DEF Settled, ShmGet, ShmGetTimeout
      <4> QED BY <2>3, <2>5, <4>1 DEF Settled, Attached, Others
    <3>2. CASE ShmAt(p)
      <4>1. /\ shm_ptr_'[p] = Invalid \/ attach'[p] = "wait"
        BY <2>5, <3>2 DEF ShmAt, Others, Inv, HoldInv, HoldTypeOK
      <4> QED BY <2>3, <2>5, <4>1, Constants DEF Settled, Attached, Others, Invalid
    <3>3. CASE GetNewId(p)
      <4>1. /\ attach'[p] = "ok" /\ manager_id_'[p] = next_id[shm_ptr_[p]]
            /\ shm_ptr_[p] \in Segments
        BY <3>3 DEF GetNewId, Attached, Inv, HoldInv, HoldTypeOK
      <4>2. next_id[shm_ptr_[p]] \in Nat
        BY <4>1 DEF Inv, IdsInv, IdsTypeOK
      <4> QED BY <2>3, <2>5, <4>1, <4>2 DEF Settled, Others, Nobody
    <3> QED BY <1>2, <2>5, <3>1, <3>2, <3>3 DEF AttachStep, Remove, Inv, IdsInv, IdBelow
  <2>6. ASSUME p \in Owners PROVE Settled(p)'
    <3>1. OwnerKeeps(p)
      BY <2>6 DEF Inv, IdsInv
    <3>2. attach'[p] \in {"shmat", "init", "failed"} \/ key' = None
      BY <1>2, <2>6, <3>1 DEF AttachStep, ShmGet, ShmGetTimeout, ShmAt, GetNewId, Remove,
                              OwnerKeeps, Inv, HoldInv, HoldTypeOK
    <3> QED BY <2>3, <2>6, <3>2 DEF Settled, Others
  <2>7. Settled(p)' /\ Working(p)'
    BY <2>3, <2>5, <2>6, NotWorking DEF Others
  <2>8. \A s \in Segments, b \in Buffers : May(p, s, b) /\ (Published(s, b)' <=> Published(s, b))
    BY <2>1 DEF May, Published
  <2> QED BY <2>1, <2>2, <2>4, <2>7, <2>8, FragmentTypes, QuietDelivery DEF Quiet, fragmentVars
<1> QED BY <1>1, <1>2

\* The owner initialises a segment that holds nothing.
LEMMA InitializeDelivery ==
    ASSUME OneLivingOwner, Inv, NEW p \in Managers, Initialize(p)
    PROVE  DeliveryInv'
<1> DEFINE s == shm_ptr_[p]
<1>1. /\ attach[p] = "init" /\ attach' = [attach EXCEPT ![p] = "ok"]
      /\ sem' = [sem EXCEPT ![s] = [b \in Buffers |-> "Empty"]]
      /\ sem_id' = [sem_id EXCEPT ![s] = [b \in Buffers |-> Nobody]]
      /\ ready_magic' = [ready_magic EXCEPT ![s] = TRUE]
      /\ UNCHANGED <<key, content, shm_ptr_, manager_id_, active_buffer_, call, fragment, Quiet>>
  BY DEF Initialize, OwnerInit, At, Goto, kernel, Quiet
<1>2. p \in Owners
  BY <1>1 DEF Inv, IdsInv, IdBelow, Others
<1>3. s = key /\ key # None /\ ~ready_magic[s]
  BY <1>1, <1>2 DEF Inv, IdsInv, OwnerKeeps
<1>4. s \in Segments
  BY <1>3, Constants DEF Inv, IdsInv, IdsTypeOK, None
<1>5. /\ ready_magic'[key] /\ \A t \in Segments : ready_magic[t] => ready_magic'[t]
      /\ attach'[p] = "ok" /\ call[p] \notin Busy
      /\ \A q \in Managers \ {p} : SameHold(q)
  <2>1. ready_magic \in [Segments -> BOOLEAN]
    BY DEF Inv, IdsInv, IdsTypeOK
  <2>2. ready_magic'[key] /\ \A t \in Segments : ready_magic[t] => ready_magic'[t]
    BY <1>1, <1>3, <1>4, <2>1
  <2>3. call[p] \notin Busy
    BY <1>1 DEF Inv, DeliveryInv, Settled
  <2>4. attach'[p] = "ok" /\ \A q \in Managers \ {p} : SameHold(q)
    BY <1>1, CallTypes DEF SameHold
  <2> QED BY <2>2, <2>3, <2>4
<1>6. ASSUME NEW t \in Segments, NEW b \in Buffers
      PROVE May(p, t, b) /\ (Published(t, b)' <=> Published(t, b))
  <2>1. CASE t = s
    <3>1. sem[t][b] = "Empty" /\ sem'[t][b] = "Empty"
      BY <1>1, <1>3, <2>1 DEF Inv, DeliveryInv, Unused, HoldInv, HoldTypeOK
    <3> QED BY <1>3, <2>1, <3>1 DEF May, Published
  <2>2. CASE t # s
    <3>1. sem'[t][b] = sem[t][b] /\ sem_id'[t][b] = sem_id[t][b]
      BY <1>1, <2>2 DEF Inv, HoldInv, HoldTypeOK
    <3> QED BY <1>1, <3>1 DEF May, Published
  <2> QED BY <2>1, <2>2
<1>7. Settled(p)'
  BY <1>1, <1>2, <1>5 DEF Settled, Others
<1>8. Working(p)'
  BY <1>1, <1>5, NotWorking
<1> QED BY <1>1, <1>5, <1>6, <1>7, <1>8, FragmentTypes, QuietDelivery DEF Quiet

\* A signal takes from a manager its buffers and its segment, which it may be at work on.
LEMMA EndDelivery ==
    ASSUME OneLivingOwner, Inv, NEW p \in Managers, End(p)
    PROVE  DeliveryInv'
<1>1. CASE Die(p)
  BY <1>1, DieDelivery DEF End, Quiet
<1>2. CASE ~Die(p)
  <2>1. /\ p \in Signalled /\ LetGo(p)
        /\ manager_id_' = [manager_id_ EXCEPT ![p] = Nobody]
        /\ UNCHANGED <<key, ready_magic, content, attach, call, active_buffer_, fragment, Quiet>>
    BY <1>2 DEF End, Signal, Kill, kernel, Quiet
  <2>2. shm_ptr_' = [shm_ptr_ EXCEPT ![p] = None]
    BY <2>1 DEF LetGo
  <2>3. ~Attached(p)' /\ \A q \in Managers \ {p} : SameHold(q)
    BY <2>1, <2>2, Constants DEF Attached, None, SameHold, Inv, HoldInv, HoldTypeOK
  <2>4. \A s \in Segments, b \in Buffers : May(p, s, b) /\ (Published(s, b)' <=> Published(s, b))
    BY <2>1, LetGoBuffers
  <2>5. p \notin Owners
    BY <2>1, Constants
  <2>6. Settled(p)' /\ Working(p)'
    BY <2>1, <2>3, <2>5 DEF Settled, Working, Inv, DeliveryInv
  <2> QED BY <2>1, <2>3, <2>4, <2>6, FragmentTypes, QuietDelivery DEF Quiet
<1> QED BY <1>1, <1>2

LEMMA LifeDelivery ==
    ASSUME OneLivingOwner, Inv, NEW p \in Managers,
           \/ Construct(p) \/ Constructed(p) \/ Reattached(p)
           \/ Destruct(p) \/ Fault(p) \/ StartAgain(p) \/ ResetCount(p)
    PROVE  DeliveryInv'
<1> USE DEF Next_, In, At, Goto
<1>1. /\ {"none", "construct", "reattach"} \subseteq Calls \ Busy
      /\ {"none", "construct"} \cap WriteCalls = {} /\ {"ready", "reattach"} \subseteq WriteCalls
      /\ "idle" \in AttachStates
  BY DEF Calls, Busy, WriteCalls, AttachStates
<1>2. Settled(p)
  BY DEF Inv, DeliveryInv
<1>3. CASE Construct(p)
  BY <1>1, <1>3, AttachDelivery DEF Construct, ended, Quiet
<1>4. CASE Constructed(p) \/ Reattached(p)
  <2>1. /\ attach[p] \in {"ok", "failed"} /\ attach' = [attach EXCEPT ![p] = "idle"]
        /\ call[p] \in {"construct", "reattach"}
        /\ UNCHANGED <<key, ready_magic, sem, sem_id, content, shm_ptr_, manager_id_,
                       active_buffer_, fragment, Quiet>>
    BY <1>4 DEF Constructed, Reattached, Returned, kernel, segment, Quiet
  <2>2. PICK c \in {"none", "ready"} :
            call' = [call EXCEPT ![p] = c] /\ (c = "ready" => call[p] = "reattach")
    BY <1>4 DEF Constructed, Reattached
  <2>3. /\ call'[p] = c /\ attach'[p] = "idle"
        /\ \A q \in Managers \ {p} : SameHold(q)
    BY <2>1, <2>2, CallTypes DEF SameHold
  <2>4. p \in Owners /\ key # None => ready_magic[key]
    <3>1. p \in Owners => attach[p] # "failed"
      BY DEF Inv, IdsInv, OwnerKeeps
    <3> QED BY <1>2, <2>1, <3>1 DEF Settled
  <2>5. Settled(p)'
    BY <1>2, <2>1, <2>3, <2>4 DEF Settled, Attached
  <2>6. Working(p)'
    BY <2>3 DEF Working, ReadCalls
  <2>7. \A s \in Segments, b \in Buffers : May(p, s, b) /\ (Published(s, b)' <=> Published(s, b))
    BY <2>1 DEF May, Published
  <2> QED BY <1>1, <2>1, <2>2, <2>3, <2>5, <2>6, <2>7, FragmentTypes, QuietDelivery DEF Quiet
<1>5. CASE Destruct(p)
  <2>1. /\ DetachTo(p, "idle") /\ UNCHANGED <<fragment, Quiet>> /\ attach[p] = "idle"
        /\ call' = [call EXCEPT ![p] = "none"]
        /\ \A q \in Managers \ {p} : active_buffer_'[q] = active_buffer_[q]
    BY <1>5, CallTypes DEF Destruct, SetActive, Quiet, Inv, HoldInv, HoldTypeOK
  <2> QED BY <1>1, <2>1, DetachDelivery
<1>6. CASE Fault(p)
  BY <1>6, DieDelivery DEF Fault, fragmentVars, Quiet
<1>7. CASE StartAgain(p)
  <2>1. /\ attach[p] = "dead" /\ attach' = [attach EXCEPT ![p] = "idle"]
        /\ call' = [call EXCEPT ![p] = "none"]
        /\ active_buffer_' = [active_buffer_ EXCEPT ![p] = NoBuffer]
        /\ fragment' = [fragment EXCEPT ![p] = 0]
        /\ UNCHANGED <<key, ready_magic, sem, sem_id, content, shm_ptr_, manager_id_, Quiet>>
    BY <1>7 DEF StartAgain, Restart, SetActive, kernel, segment, Quiet
  <2>2. /\ fragment' \in [Managers -> Nat] /\ call'[p] = "none"
        /\ \A q \in Managers \ {p} : SameHold(q) /\ fragment'[q] = fragment[q]
    BY <2>1, FragmentTypes DEF SameHold, Inv, HoldInv, HoldTypeOK
  <2>3. p \notin Owners
    BY <2>1 DEF Inv, IdsInv, OwnerKeeps
  <2>4. ~Attached(p)
    BY <1>2, <2>1, <2>3 DEF Settled, Others
  <2>5. Settled(p)'
    BY <1>1, <2>1, <2>2, <2>3, <2>4 DEF Settled, Attached
  <2>6. Working(p)'
    BY <2>1, <2>4 DEF Working, Attached
  <2>7. \A s \in Segments, b \in Buffers : May(p, s, b) /\ (Published(s, b)' <=> Published(s, b))
    BY <2>1 DEF May, Published
  <2> QED BY <1>1, <2>1, <2>2, <2>5, <2>6, <2>7, QuietDelivery DEF Quiet
<1>8. CASE ResetCount(p)
  BY <1>8 DEF ResetCount, ResetAttachedCount, OneLivingOwner
<1> QED BY <1>3, <1>4, <1>5, <1>6, <1>7, <1>8

-----------------------------------------------------------------------------
(* The calls *)

LEMMA SettledKept ==
    ASSUME NEW p \in Managers, Settled(p), attach[p] = "idle",
           UNCHANGED <<attach, shm_ptr_, manager_id_, key, ready_magic>>
    PROVE  Settled(p)'
BY DEF Settled, Attached

\* A step of a call that leaves the segment alone.
LEMMA CallDelivery ==
    ASSUME OneLivingOwner, Inv, NEW p \in Managers, attach[p] = "idle",
           UNCHANGED <<segmentVars, active_buffer_, Quiet>>,
           NEW c \in Calls, call' = [call EXCEPT ![p] = c],
           NEW n \in Nat, fragment' = [fragment EXCEPT ![p] = n],
           c \in WriteCalls => call[p] \in WriteCalls /\ n = fragment[p],
           Working(p)'
    PROVE  DeliveryInv'
<1>1. UNCHANGED <<key, ready_magic, sem, sem_id, content, attach, shm_ptr_, manager_id_>>
  BY DEF segmentVars
<1>2. /\ call'[p] = c /\ fragment'[p] = n /\ fragment' \in [Managers -> Nat]
      /\ \A q \in Managers \ {p} : SameHold(q) /\ fragment'[q] = fragment[q]
  BY <1>1, CallTypes, FragmentTypes DEF SameHold
<1>3. Settled(p)'
  BY <1>1, SettledKept DEF Inv, DeliveryInv
<1>4. \A s \in Segments, b \in Buffers : May(p, s, b) /\ (Published(s, b)' <=> Published(s, b))
  BY <1>1 DEF May, Published
<1> QED BY <1>1, <1>2, <1>3, <1>4, QuietDelivery DEF Quiet

LEMMA WriteFragmentDelivery ==
    ASSUME OneLivingOwner, Inv, NEW p \in Managers, WriteFragment(p)
    PROVE  DeliveryInv'
<1>1. /\ attach[p] = "idle" /\ written < MaxFragments /\ written' = written + 1
      /\ fragment' = [fragment EXCEPT ![p] = written + 1]
      /\ call' = [call EXCEPT ![p] = "check"]
      /\ UNCHANGED <<segmentVars, active_buffer_, acknowledged, received>>
  BY DEF WriteFragment, In, At, Next_
<1>2. UNCHANGED <<key, ready_magic, sem, sem_id, content, attach, shm_ptr_, manager_id_>>
  BY <1>1 DEF segmentVars
<1>3. /\ written \in Nat /\ written' \in 0 .. MaxFragments
      /\ acknowledged \subseteq 1 .. written
      /\ \A n \in 1 .. written : n \in 1 .. written' /\ n # written + 1
  BY <1>1, FragmentsAssumption DEF Inv, DeliveryInv, DeliveryTypeOK
<1>4. /\ call'[p] = "check" /\ fragment'[p] = written + 1
      /\ fragment' \in [Managers -> Nat]
      /\ \A q \in Managers \ {p} : SameHold(q) /\ fragment'[q] = fragment[q]
  BY <1>1, <1>2, <1>3, CallTypes, FragmentTypes DEF SameHold
<1>5. DeliveryTypeOK'
  <2>1. acknowledged \subseteq 1 .. written'
    BY <1>3
  <2> QED BY <1>1, <1>2, <1>3, <1>4, <2>1 DEF Inv, DeliveryInv, DeliveryTypeOK
<1>6. Once'
  <2>1. \A s \in Segments, b \in Buffers : Published(s, b)' <=> Published(s, b)
    BY <1>2 DEF Published
  <2> QED BY <1>1, <1>2, <2>1, OnceKept DEF Inv, DeliveryInv
<1>7. InFlight'
  <2>1. ASSUME NEW q \in Managers \ {p}, call'[q] \in WriteCalls
        PROVE  /\ fragment'[q] \in 1 .. written' /\ fragment'[q] \notin acknowledged'
               /\ fragment'[q] # fragment'[p]
               /\ \A r \in Managers \ {p, q} : call'[r] \in WriteCalls => fragment'[r] # fragment'[q]
    BY <1>1, <1>3, <1>4, <2>1 DEF Inv, DeliveryInv, InFlight, SameHold
  <2>2. fragment'[p] \in 1 .. written' /\ fragment'[p] \notin acknowledged'
    BY <1>1, <1>3, <1>4
  <2> QED BY <2>1, <2>2 DEF InFlight
<1>8. Settled(p)' /\ Working(p)'
  <2>1. "check" \notin Busy
    BY DEF Busy
  <2> QED BY <1>1, <1>2, <1>4, <2>1, SettledKept, NotWorking DEF Inv, DeliveryInv
<1>9. \A s \in Segments, b \in Buffers : May(p, s, b)
  BY <1>2 DEF May
<1> QED BY <1>2, <1>4, <1>5, <1>6, <1>7, <1>8, <1>9, DeliveryStep

\* ReserveBuffer: a buffer is taken in a segment that is ready.
LEMMA TakeDelivery ==
    ASSUME OneLivingOwner, Inv, NEW p \in Managers, attach[p] = "idle", Attached(p),
           NEW b \in Buffers, NEW flag \in InUse, SetActive(p, b),
           SetBuffer(shm_ptr_[p], b, flag, manager_id_[p]),
           sem_id[shm_ptr_[p]][b] \in {Nobody, manager_id_[p]},
           \/ sem[shm_ptr_[p]][b] = "Full" /\ flag = "Reading" /\ call' = [call EXCEPT ![p] = "header"]
           \/ /\ sem[shm_ptr_[p]][b] = "Empty" /\ flag = "Writing" /\ call[p] = "ready"
              /\ call' = [call EXCEPT ![p] = "write"],
           UNCHANGED <<kernel, ready_magic, next_id, content, manager, fragment, Quiet>>
    PROVE  DeliveryInv'
<1> DEFINE s == shm_ptr_[p]
<1>1. /\ s \in Segments /\ manager_id_[p] \in Int /\ flag \in Flags
      /\ UNCHANGED <<key, ready_magic, content, attach, shm_ptr_, manager_id_>>
  BY DEF kernel, manager, Attached, InUse, Flags, Inv, HoldInv, HoldTypeOK
<1>2. /\ sem'[s][b] = flag /\ sem_id'[s][b] = manager_id_[p] /\ active_buffer_'[p] = b
      /\ \A t \in Segments, d \in Buffers : t # s \/ d # b =>
             sem'[t][d] = sem[t][d] /\ sem_id'[t][d] = sem_id[t][d]
  BY <1>1 DEF SetBuffer, SetActive, Inv, HoldInv, HoldTypeOK
<1>3. \A q \in Managers \ {p} : SameHold(q)
  BY <1>1 DEF SetActive, SameHold, Inv, HoldInv, HoldTypeOK
<1>4. call'[p] \in WriteCalls => call[p] \in WriteCalls
  BY CallTypes DEF WriteCalls
<1>5. sem[s][b] # "Empty" \/ ready_magic[s]
  <2>1. CASE sem[s][b] = "Full"
    BY <2>1
  <2>2. CASE call[p] = "ready"
    <3>1. call[p] \in Busy
      BY <2>2 DEF Busy
    <3> QED BY <3>1, HasId
  <2> QED BY <2>1, <2>2
<1>6. ASSUME NEW t \in Segments, NEW d \in Buffers
      PROVE  May(p, t, d) /\ (Published(t, d)' <=> Published(t, d))
  <2>1. CASE t = s /\ d = b
    BY <1>2, <1>5, <2>1 DEF May, Published
  <2>2. CASE t # s \/ d # b
    BY <1>1, <1>2, <2>2 DEF May, Published
  <2> QED BY <2>1, <2>2
<1>7. Settled(p)'
  BY <1>1, SettledKept DEF Inv, DeliveryInv
<1>8. Working(p)'
  <2>1. call'[p] = "header" \/ call'[p] = "write"
    BY CallTypes
  <2>2. call'[p] = "header" => flag = "Reading"
    BY CallTypes
  <2> QED BY <1>1, <1>2, <2>1, <2>2 DEF Working, Owns, ReadCalls
<1> QED BY <1>1, <1>3, <1>4, <1>6, <1>7, <1>8, FragmentTypes, QuietDelivery DEF Quiet

\* Write: the content changes in a buffer that is the manager's, and not published.
LEMMA WriteDelivery ==
    ASSUME OneLivingOwner, Inv, NEW p \in Managers, Write(p)
    PROVE  DeliveryInv'
<1> DEFINE s == shm_ptr_[p]
           b == active_buffer_[p]
<1>1. attach[p] = "idle" /\ call[p] = "write" /\ s \in Segments /\ b \in Buffers
  BY DEF Write, Mapped, In, At, Attached, Inv, DeliveryInv, Working
<1>2. CASE Throw(p)
  BY <1>1, <1>2, ThrowDelivery
<1>3. CASE ~Throw(p)
  <2>1. /\ Owns(p, b, "Writing") /\ content' = [content EXCEPT ![s][b] = fragment[p]]
        /\ call' = [call EXCEPT ![p] = "full"]
        /\ UNCHANGED <<key, ready_magic, sem, sem_id, attach, shm_ptr_, manager_id_,
                       active_buffer_, fragment, Quiet>>
    BY <1>3 DEF Write, Next_, kernel, manager, Quiet
  <2>2. /\ content' \in [Segments -> [Buffers -> Nat]] /\ content'[s][b] = fragment[p]
        /\ \A t \in Segments, d \in Buffers : t # s \/ d # b => content'[t][d] = content[t][d]
    BY <1>1, <2>1, FragmentTypes DEF Inv, DeliveryInv, DeliveryTypeOK
  <2>3. DeliveryTypeOK'
    BY <2>1, <2>2 DEF Quiet, Inv, DeliveryInv, DeliveryTypeOK
  <2>4. ~Published(s, b) /\ \A t \in Segments, d \in Buffers : Published(t, d)' <=> Published(t, d)
    BY <2>1 DEF Owns, Published
  <2>5. Once'
    <3>1. \A t \in Segments, d \in Buffers : Published(t, d) => content'[t][d] = content[t][d]
      BY <2>2, <2>4
    <3> QED BY <2>1, <2>4, <3>1, OnceKept DEF Quiet, Inv, DeliveryInv
  <2>6. call'[p] = "full" /\ \A q \in Managers \ {p} : SameHold(q)
    BY <2>1, CallTypes DEF SameHold
  <2>7. InFlight'
    <3>1. call[p] \in WriteCalls
      BY <1>1 DEF WriteCalls
    <3> QED BY <2>1, <2>6, <3>1, InFlightKept DEF Quiet, SameHold, Inv, DeliveryInv
  <2>8. ASSUME NEW t \in Segments, NEW d \in Buffers PROVE May(p, t, d)
    <3>1. CASE t = s /\ d = b
      BY <2>1, <3>1 DEF May, Owns
    <3>2. CASE t # s \/ d # b
      BY <2>1, <2>2, <3>2 DEF May
    <3> QED BY <3>1, <3>2
  <2>9. Settled(p)'
    BY <1>1, <2>1, SettledKept DEF Inv, DeliveryInv
  <2>10. Working(p)'
    BY <1>1, <2>1, <2>2, <2>6 DEF Working, Owns, ReadCalls
  <2> QED BY <2>1, <2>3, <2>5, <2>6, <2>7, <2>8, <2>9, <2>10, DeliveryStep
<1> QED BY <1>2, <1>3

\* A buffer is given away by its manager: nobody else works on it.
LEMMA GiveDelivery ==
    ASSUME OneLivingOwner, Inv, NEW p \in Managers, attach[p] = "idle", Attached(p),
           DeliveryTypeOK', Once', InFlight',
           NEW b \in Buffers, NEW flag \in {"Full", "Empty"}, NEW old \in InUse,
           b = active_buffer_[p], Owns(p, b, old),
           SetBuffer(shm_ptr_[p], b, flag, Nobody), SetActive(p, NoBuffer),
           call' = [call EXCEPT ![p] = "none"],
           UNCHANGED <<kernel, ready_magic, next_id, content, manager, fragment>>
    PROVE  DeliveryInv'
<1> DEFINE s == shm_ptr_[p]
<1>1. s \in Segments /\ UNCHANGED <<key, ready_magic, content, attach, shm_ptr_, manager_id_>>
  BY DEF kernel, manager, Attached
<1>2. \A t \in Segments, d \in Buffers : t # s \/ d # b =>
          sem'[t][d] = sem[t][d] /\ sem_id'[t][d] = sem_id[t][d]
  BY <1>1 DEF SetBuffer, Inv, HoldInv, HoldTypeOK
<1>3. call'[p] = "none" /\ \A q \in Managers \ {p} : SameHold(q)
  BY <1>1 DEF SetActive, SameHold, Inv, HoldInv, HoldTypeOK
<1>4. ASSUME NEW t \in Segments, NEW d \in Buffers PROVE May(p, t, d)
  <2>1. CASE t = s /\ d = b
    BY <2>1 DEF May, Owns, InUse
  <2>2. CASE t # s \/ d # b
    BY <1>1, <1>2, <2>2 DEF May
  <2> QED BY <2>1, <2>2
<1>5. Settled(p)'
  BY <1>1, SettledKept DEF Inv, DeliveryInv
<1>6. Working(p)'
  BY <1>3, NotWorking DEF Busy
<1> QED BY <1>1, <1>3, <1>4, <1>5, <1>6, DeliveryStep

\* A fragment is published in one place and acknowledged in the same step.
LEMMA MarkBufferFullDelivery ==
    ASSUME OneLivingOwner, Inv, NEW p \in Managers, MarkBufferFull(p)
    PROVE  DeliveryInv'
<1>1. PICK s \in Segments, b \in Buffers, n \in Nat :
          /\ s = shm_ptr_[p] /\ b = active_buffer_[p] /\ n = fragment[p]
          /\ attach[p] = "idle" /\ call[p] = "full" /\ Attached(p)
          /\ Owns(p, b, "Writing") /\ n = content[s][b]
  BY FragmentTypes DEF MarkBufferFull, Mapped, In, At, Attached, Inv, DeliveryInv, Working
<1>2. /\ SetBuffer(s, b, "Full", Nobody) /\ SetActive(p, NoBuffer)
      /\ acknowledged' = acknowledged \cup {n} /\ call' = [call EXCEPT ![p] = "none"]
      /\ UNCHANGED <<kernel, ready_magic, next_id, content, manager, fragment, written, received>>
  BY <1>1 DEF MarkBufferFull, Owns, Destination, Next_
<1>3. /\ n \in 1 .. written /\ n \notin acknowledged
      /\ \A q \in Managers \ {p} : call[q] \in WriteCalls => fragment[q] # n
  BY <1>1 DEF WriteCalls, Inv, DeliveryInv, InFlight
<1>4. DeliveryTypeOK'
  BY <1>2, <1>3 DEF Inv, DeliveryInv, DeliveryTypeOK
<1>5. /\ Published(s, b)' /\ content'[s][b] = n /\ ~Published(s, b)
      /\ \A t \in Segments, d \in Buffers : t # s \/ d # b =>
             (Published(t, d)' <=> Published(t, d)) /\ content'[t][d] = content[t][d]
  BY <1>1, <1>2 DEF SetBuffer, Published, Owns, Inv, HoldInv, HoldTypeOK
<1>6. \A t \in Segments, d \in Buffers : Published(t, d) => content[t][d] \in acknowledged
  BY DEF Inv, DeliveryInv, Once
<1>7. Once'
  <2>1. \A t \in Segments, d \in Buffers : Published(t, d)' => content'[t][d] \in acknowledged'
    BY <1>2, <1>5, <1>6
  <2>2. \A t, u \in Segments, d, e \in Buffers :
            Published(t, d)' /\ Published(u, e)' /\ content'[t][d] = content'[u][e]
                => t = u /\ d = e
    BY <1>3, <1>5, <1>6 DEF Inv, DeliveryInv, Once
  <2>3. ASSUME NEW k \in Fragments
        PROVE  received'[k] = IF k \in acknowledged'
                                 /\ ~\E t \in Segments, d \in Buffers : Holding(t, d, k)'
                              THEN 1 ELSE 0
    <3>1. received'[k] = IF k \in acknowledged
                            /\ ~\E t \in Segments, d \in Buffers : Holding(t, d, k)
                         THEN 1 ELSE 0
      BY <1>2 DEF Inv, DeliveryInv, Once
    <3>2. CASE k = n
      BY <1>1, <1>3, <1>5, <3>1, <3>2 DEF Holding
    <3>3. CASE k # n
      <4>1. \A t \in Segments, d \in Buffers : Holding(t, d, k)' <=> Holding(t, d, k)
        BY <1>5, <3>3 DEF Holding
      <4> QED BY <1>2, <3>1, <3>3, <4>1
    <3> QED BY <3>2, <3>3
  <2> QED BY <2>1, <2>2, <2>3 DEF Once
<1>8. InFlight'
  <2>1. "none" \notin WriteCalls /\ \A q \in Managers : call'[q] \in WriteCalls =>
            q # p /\ call[q] \in WriteCalls
    BY <1>2, CallTypes DEF WriteCalls
  <2> QED BY <1>2, <1>3, <2>1 DEF Inv, DeliveryInv, InFlight
<1> QED BY <1>1, <1>2, <1>4, <1>7, <1>8, GiveDelivery DEF InUse

\* A fragment is received when it leaves its only place.
LEMMA MarkBufferEmptyDelivery ==
    ASSUME OneLivingOwner, Inv, NEW p \in Managers, MarkBufferEmpty(p)
    PROVE  DeliveryInv'
<1>1. PICK s \in Segments, b \in Buffers, n \in Nat :
          /\ s = shm_ptr_[p] /\ b = active_buffer_[p] /\ n = fragment[p]
          /\ attach[p] = "idle" /\ call[p] = "empty" /\ Attached(p)
          /\ Owns(p, b, "Reading") /\ n = content[s][b]
  BY FragmentTypes DEF MarkBufferEmpty, Mapped, In, At, Attached, Inv, DeliveryInv, Working, ReadCalls
<1>2. /\ SetBuffer(s, b, "Empty", Nobody) /\ SetActive(p, NoBuffer)
      /\ received' = [received EXCEPT ![n] = IF @ = 0 THEN 1 ELSE 2]
      /\ call' = [call EXCEPT ![p] = "none"]
      /\ UNCHANGED <<kernel, ready_magic, next_id, content, manager, fragment, written, acknowledged>>
  BY <1>1 DEF MarkBufferEmpty, Released, Next_
<1>3. Published(s, b) /\ Holding(s, b, n) /\ n \in acknowledged
  BY <1>1 DEF Published, Holding, Owns, Inv, DeliveryInv, Once
<1>4. n \in Fragments
  BY <1>3, FragmentsAssumption DEF Fragments, Inv, DeliveryInv, DeliveryTypeOK
<1>5. received' = [received EXCEPT ![n] = 1]
  <2>1. received[n] = 0
    BY <1>1, <1>3, <1>4 DEF Inv, DeliveryInv, Once
  <2> QED BY <1>2, <2>1
<1>6. received' \in [Fragments -> Nat]
  BY <1>5 DEF Inv, DeliveryInv, DeliveryTypeOK
<1>7. DeliveryTypeOK'
  BY <1>2, <1>6 DEF Inv, DeliveryInv, DeliveryTypeOK
<1>8. /\ ~Published(s, b)'
      /\ \A t \in Segments, d \in Buffers : t # s \/ d # b =>
             (Published(t, d)' <=> Published(t, d)) /\ content'[t][d] = content[t][d]
  BY <1>1, <1>2 DEF SetBuffer, Published, Inv, HoldInv, HoldTypeOK
<1>9. \A t, u \in Segments, d, e \in Buffers :
          Published(t, d) /\ Published(u, e) /\ content[t][d] = content[u][e] => t = u /\ d = e
  BY DEF Inv, DeliveryInv, Once
<1>10. Once'
  <2>1. \A t \in Segments, d \in Buffers : Published(t, d)' => content'[t][d] \in acknowledged'
    BY <1>2, <1>8 DEF Inv, DeliveryInv, Once
  <2>2. \A t, u \in Segments, d, e \in Buffers :
            Published(t, d)' /\ Published(u, e)' /\ content'[t][d] = content'[u][e]
                => t = u /\ d = e
    BY <1>8, <1>9
  <2>3. ASSUME NEW k \in Fragments
        PROVE  received'[k] = IF k \in acknowledged'
                                 /\ ~\E t \in Segments, d \in Buffers : Holding(t, d, k)'
                              THEN 1 ELSE 0
    <3>1. CASE k = n
      <4>1. \A t \in Segments, d \in Buffers : ~Holding(t, d, n)'
        BY <1>1, <1>3, <1>8, <1>9 DEF Holding
      <4>2. received'[n] = 1
        BY <1>4, <1>5 DEF Inv, DeliveryInv, DeliveryTypeOK
      <4> QED BY <1>2, <1>3, <3>1, <4>1, <4>2
    <3>2. CASE k # n
      <4>1. received'[k] = received[k]
        BY <1>5, <3>2 DEF Inv, DeliveryInv, DeliveryTypeOK
      <4>2. \A t \in Segments, d \in Buffers : Holding(t, d, k)' <=> Holding(t, d, k)
        BY <1>1, <1>3, <1>8, <3>2 DEF Holding
      <4> QED BY <1>2, <4>1, <4>2 DEF Inv, DeliveryInv, Once
    <3> QED BY <3>1, <3>2
  <2> QED BY <2>1, <2>2, <2>3 DEF Once
<1>11. InFlight'
  <2>1. call'[p] = "none" /\ "none" \notin WriteCalls
        /\ \A q \in Managers \ {p} : call'[q] = call[q] /\ fragment'[q] = fragment[q]
    BY <1>2, CallTypes DEF WriteCalls
  <2> QED BY <1>2, <2>1, InFlightKept DEF Inv, DeliveryInv
<1> QED BY <1>1, <1>2, <1>7, <1>10, <1>11, GiveDelivery DEF InUse

LEMMA CallsDelivery ==
    ASSUME OneLivingOwner, Inv, NEW p \in Managers,
           \/ CheckSegment(p) \/ ReadyForWrite(p) \/ WaitForBuffer(p)
           \/ ReadFragmentHeader(p) \/ ReadHeader(p) \/ ReadFragmentData(p) \/ ReadData(p)
    PROVE  DeliveryInv'
<1> USE DEF Next_, In, Mapped, At
<1>1. /\ {"none", "check", "ready", "write", "between", "data", "empty"} \subseteq Calls
      /\ {"check", "ready", "write"} \subseteq WriteCalls
      /\ {"none", "between", "data", "empty"} \cap WriteCalls = {}
      /\ {"none", "check", "reattach"} \subseteq Calls \ Busy /\ "reattach" \in WriteCalls
      /\ ReadCalls = {"header", "between", "data", "empty"}
  BY DEF Calls, Busy, WriteCalls, ReadCalls
<1>2. fragment[p] \in Nat /\ fragment = [fragment EXCEPT ![p] = fragment[p]]
  BY FragmentTypes
<1>3. \A c \in Calls : call' = [call EXCEPT ![p] = c] => call'[p] = c
  BY CallTypes
<1>4. active_buffer_[p] # NoBuffer => active_buffer_[p] \in Buffers
  BY DEF Inv, HoldInv, HoldTypeOK
<1>5. Working(p)
  BY DEF Inv, DeliveryInv
<1>6. CASE CheckSegment(p)
  <2>1. CASE IsEndOfData(p)
    BY <1>1, <1>6, <2>1, AttachDelivery DEF CheckSegment, Quiet
  <2>2. CASE ~IsEndOfData(p)
    <3>1. Working(p)'
      BY <1>1, <1>3, <1>6, <2>2 DEF CheckSegment, Working
    <3> QED BY <1>1, <1>2, <1>6, <2>2, <3>1, CallDelivery DEF CheckSegment, Quiet
  <2> QED BY <2>1, <2>2
<1>7. CASE WaitForBuffer(p)
  <2>1. Working(p)'
    BY <1>1, <1>3, <1>7 DEF WaitForBuffer, Working
  <2> QED BY <1>1, <1>2, <1>7, <2>1, CallDelivery DEF WaitForBuffer, Quiet
<1>8. CASE ReadyForWrite(p)
  <2>1. CASE active_buffer_[p] # NoBuffer
    <3>1. Working(p)'
      BY <1>1, <1>3, <1>4, <1>8, <2>1 DEF ReadyForWrite, Working
    <3> QED BY <1>1, <1>2, <1>8, <2>1, <3>1, CallDelivery DEF ReadyForWrite, Quiet
  <2>2. CASE active_buffer_[p] = NoBuffer
    <3>1. PICK b \in Buffers :
              /\ sem[shm_ptr_[p]][b] = "Empty" /\ sem_id[shm_ptr_[p]][b] = Nobody
              /\ SetBuffer(shm_ptr_[p], b, "Writing", manager_id_[p])
              /\ SetActive(p, b)
              /\ UNCHANGED <<kernel, ready_magic, next_id, content, manager>>
      BY <1>8, <2>2 DEF ReadyForWrite
    <3> QED BY <1>8, <3>1, TakeDelivery DEF ReadyForWrite, InUse, Quiet
  <2> QED BY <2>1, <2>2
<1>9. CASE ReadFragmentHeader(p)
  <2>1. PICK b \in Buffers :
            /\ sem[shm_ptr_[p]][b] = "Full" /\ sem_id[shm_ptr_[p]][b] \in {Nobody, manager_id_[p]}
            /\ SetBuffer(shm_ptr_[p], b, "Reading", manager_id_[p])
            /\ SetActive(p, b)
    BY <1>9 DEF ReadFragmentHeader
  <2> QED BY <1>9, <2>1, TakeDelivery DEF ReadFragmentHeader, InUse, Quiet
<1>10. CASE Throw(p) /\ attach[p] = "idle"
  BY <1>10, ThrowDelivery
<1>11. ASSUME NEW c \in {"none", "between", "data", "empty"}, NEW n \in Nat,
              Attached(p), attach[p] = "idle", call[p] \in ReadCalls,
              call' = [call EXCEPT ![p] = c], fragment' = [fragment EXCEPT ![p] = n],
              UNCHANGED <<segmentVars, active_buffer_, Quiet>>,
              c = "empty" => n = content[shm_ptr_[p]][active_buffer_[p]]
       PROVE  DeliveryInv'
  <2>1. call'[p] = c /\ fragment'[p] = n
    BY <1>1, <1>3, <1>11, FragmentTypes
  <2>2. active_buffer_[p] \in Buffers /\ Owns(p, active_buffer_[p], "Reading")
    BY <1>5, <1>11 DEF Working
  <2>3. Working(p)'
    BY <1>1, <1>11, <2>1, <2>2 DEF Working, Owns, segmentVars
  <2> QED BY <1>1, <1>11, <2>3, CallDelivery
<1>12. CASE ReadHeader(p) \/ ReadFragmentData(p)
  <2>1. PICK c \in {"none", "between", "data"} :
            \/ Throw(p)
            \/ call' = [call EXCEPT ![p] = c] /\ UNCHANGED <<segmentVars, active_buffer_, fragment, Quiet>>
    BY <1>12 DEF ReadHeader, ReadFragmentData, Quiet
  <2>2. Attached(p) /\ attach[p] = "idle" /\ call[p] \in ReadCalls
    BY <1>1, <1>12 DEF ReadHeader, ReadFragmentData
  <2> QED BY <1>2, <1>10, <1>11, <2>1, <2>2
<1>13. CASE ReadData(p)
  <2>1. Attached(p) /\ attach[p] = "idle" /\ call[p] = "data" /\ call[p] \in ReadCalls
    BY <1>1, <1>13 DEF ReadData
  <2>2. CASE Owns(p, active_buffer_[p], "Reading")
    <3>1. content[shm_ptr_[p]][active_buffer_[p]] \in Nat
      BY <1>1, <1>5, <2>1 DEF Working, Attached, Inv, DeliveryInv, DeliveryTypeOK
    <3> QED BY <1>11, <1>13, <2>1, <2>2, <3>1 DEF ReadData, Quiet
  <2>3. CASE ~Owns(p, active_buffer_[p], "Reading")
    BY <1>10, <1>13, <2>1, <2>3 DEF ReadData
  <2> QED BY <2>2, <2>3
<1> QED BY <1>6, <1>7, <1>8, <1>9, <1>12, <1>13

-----------------------------------------------------------------------------
LEMMA StepDelivery == OneLivingOwner /\ Inv /\ [Next]_vars => DeliveryInv'
<1> SUFFICES ASSUME OneLivingOwner, Inv, [Next]_vars PROVE DeliveryInv'
  OBVIOUS
<1>1. CASE UNCHANGED vars
  BY <1>1 DEF vars, segmentVars, fragmentVars, Inv, DeliveryInv, DeliveryTypeOK, Once, InFlight,
              Unused, Settled, Working, Published, Holding, Attached, Owns
<1>2. ASSUME NEW p \in Managers, AttachStep(p) /\ UNCHANGED fragmentVars PROVE DeliveryInv'
  BY <1>2, AttachStepDelivery
<1> QED
  BY <1>1, <1>2, LifeDelivery, InitializeDelivery, EndDelivery, CallsDelivery,
     WriteFragmentDelivery, WriteDelivery, MarkBufferFullDelivery, MarkBufferEmptyDelivery
     DEF Next, Step

\* What waits in a buffer waits in one, and was not read.
LEMMA DeliveryOnce ==
    ASSUME NEW n \in Fragments, Once, n \in acknowledged
    PROVE  received[n] + Cardinality(Places(n)) = 1
<1>1. CASE \E s \in Segments, b \in Buffers : Holding(s, b, n)
  <2>1. PICK s \in Segments, b \in Buffers : Holding(s, b, n)
    BY <1>1
  <2>2. Places(n) = {<<s, b>>}
    BY <2>1 DEF Once, Holding, Published, Places
  <2>3. Cardinality(Places(n)) = 1
    BY <2>2, FS_Singleton
  <2> QED BY <1>1, <2>3 DEF Once
<1>2. CASE ~\E s \in Segments, b \in Buffers : Holding(s, b, n)
  <2>1. Places(n) = {}
    BY <1>2 DEF Holding, Published, Places
  <2>2. Cardinality(Places(n)) = 0
    BY <2>1, FS_EmptySet
  <2> QED BY <1>2, <2>2 DEF Once
<1> QED BY <1>1, <1>2

-----------------------------------------------------------------------------
(* A segment is removed because its owner was destructed *)

\* The owner does not send: a Write of its own that threw would remove the segment.
OwnerDoesNotSend == Owners \cap Senders = {}

RemovedInv ==
    /\ removed \subseteq retired
    /\ \A p \in Managers : attach[p] = "remove" => shm_segment_id_[p] \in retired

SameSegment(q) == attach'[q] = attach[q] /\ shm_segment_id_'[q] = shm_segment_id_[q]

LEMMA RemovedStep ==
    ASSUME RemovedInv, NEW p \in Managers, removed' = removed, retired \subseteq retired',
           \A q \in Managers \ {p} : SameSegment(q),
           attach'[p] = "remove" => shm_segment_id_'[p] \in retired'
    PROVE  RemovedInv'
BY DEF RemovedInv, SameSegment

\* A step after which its manager does not go on to the removal.
LEMMA NoRemoval ==
    ASSUME RemovedInv, NEW p \in Managers, removed' = removed, retired' = retired,
           \A q \in Managers \ {p} : SameSegment(q), attach'[p] # "remove"
    PROVE  RemovedInv'
BY RemovedStep

LEMMA SegmentTypes ==
    ASSUME IdsInv
    PROVE  attach \in [Managers -> AttachStates] /\ shm_segment_id_ \in [Managers -> 0 .. MaxSegments]
BY DEF IdsInv, IdsTypeOK

\* Only an owner has an id with which Detach removes.
LEMMA DetachNoRemoval ==
    ASSUME IdsInv, NEW p \in Others, NEW next \in {"idle", "shmget"}, DetachTo(p, next)
    PROVE  /\ removed' = removed /\ attach'[p] # "remove"
           /\ \A q \in Managers \ {p} : SameSegment(q)
<1>1. p \in Managers /\ IdBelow(p)
  BY DEF Others, IdsInv
<1>2. manager_id_[p] # 0
  BY <1>1 DEF IdBelow, Nobody
<1>3. /\ removed' = removed
      /\ attach' = [attach EXCEPT ![p] = "dead"] \/ attach' = [attach EXCEPT ![p] = next]
      /\ shm_segment_id_' = [shm_segment_id_ EXCEPT ![p] = None] \/ shm_segment_id_' = shm_segment_id_
  BY <1>2 DEF DetachTo, Die, Goto, kernel
<1>4. attach'[p] # "remove"
  BY <1>1, <1>3, SegmentTypes
<1> QED BY <1>3, <1>4, SegmentTypes DEF SameSegment

LEMMA AttachNoRemoval ==
    ASSUME IdsInv, RemovedInv, NEW p \in Managers, Attach(p), retired' = retired
    PROVE  RemovedInv'
<1>1. CASE IsValid(p) /\ manager_id_[p] # 0
  <2>1. p \notin Owners
    BY <1>1 DEF IdsInv, OwnerKeeps, IsValid, Attach, At
  <2>2. p \in Others /\ DetachTo(p, "shmget")
    BY <1>1, <2>1 DEF Others, Attach
  <2> QED BY <2>2, DetachNoRemoval, NoRemoval
<1>2. CASE ~(IsValid(p) /\ manager_id_[p] # 0)
  <2>1. removed' = removed /\ shm_segment_id_' = shm_segment_id_
        /\ attach' = [attach EXCEPT ![p] = IF IsValid(p) THEN "ok" ELSE "shmget"]
    BY <1>2 DEF Attach, Goto, kernel
  <2>2. attach'[p] # "remove" /\ \A q \in Managers \ {p} : SameSegment(q)
    BY <2>1, SegmentTypes DEF SameSegment
  <2> QED BY <2>1, <2>2, NoRemoval
<1> QED BY <1>1, <1>2

LEMMA AttachStepRemoval ==
    ASSUME IdsInv, RemovedInv, NEW p \in Managers, AttachStep(p), UNCHANGED fragmentVars
    PROVE  RemovedInv'
<1>1. retired' = retired
  BY DEF fragmentVars, ended
<1>2. CASE Remove(p)
  <2>1. /\ removed' = removed \cup {shm_segment_id_[p]} /\ attach[p] = "remove"
        /\ attach' = [attach EXCEPT ![p] = "idle"]
        /\ shm_segment_id_' = [shm_segment_id_ EXCEPT ![p] = None]
    BY <1>2 DEF Remove, At, Goto
  <2>2. removed' \subseteq retired'
    BY <1>1, <2>1 DEF RemovedInv
  <2>3. attach'[p] # "remove" /\ \A q \in Managers \ {p} : SameSegment(q)
    BY <2>1, SegmentTypes DEF SameSegment
  <2> QED BY <1>1, <2>2, <2>3 DEF RemovedInv, SameSegment
<1>3. CASE ~Remove(p)
  <2>1. PICK point \in {"shmat", "failed", "init", "wait", "ok", "dead"} :
            /\ removed' = removed /\ attach' = [attach EXCEPT ![p] = point]
            /\ \/ shm_segment_id_' = [shm_segment_id_ EXCEPT ![p] = shm_segment_id_'[p]]
               \/ shm_segment_id_' = shm_segment_id_
    <3>1. CASE ShmGet(p)
      BY <3>1, SegmentTypes DEF ShmGet, Goto
    <3>2. CASE ShmGetTimeout(p)
      BY <3>2, SegmentTypes DEF ShmGetTimeout, Goto, kernel
    <3>3. CASE ShmAt(p)
      BY <3>3 DEF ShmAt, Goto, kernel
    <3>4. CASE GetNewId(p)
      BY <3>4 DEF GetNewId, Goto, kernel
    <3>5. CASE AttachFaults(p)
      BY <3>5, SegmentTypes DEF AttachFaults, Die, Goto, kernel
    <3> QED BY <1>3, <3>1, <3>2, <3>3, <3>4, <3>5 DEF AttachStep
  <2>2. attach'[p] # "remove" /\ \A q \in Managers \ {p} : SameSegment(q)
    BY <2>1, SegmentTypes DEF SameSegment
  <2> QED BY <1>1, <2>1, <2>2, NoRemoval
<1> QED BY <1>2, <1>3

\* No owner throws: it is still in the buffer that it reads.
LEMMA ThrowNoRemoval ==
    ASSUME OwnerDoesNotSend, Inv, RemovedInv, NEW p \in Managers, Throw(p),
           Mapped(p, "write") \/ \E c \in ReadCalls : Mapped(p, c) /\ ~Owns(p, active_buffer_[p], "Reading")
    PROVE  RemovedInv'
<1>1. p \notin Owners
  <2>1. CASE Mapped(p, "write")
    BY <2>1 DEF Mapped, In, Inv, HoldInv, OnlySendersWrite, WriteCalls, OwnerDoesNotSend
  <2>2. CASE \E c \in ReadCalls : Mapped(p, c) /\ ~Owns(p, active_buffer_[p], "Reading")
    BY <2>2 DEF Mapped, In, Inv, DeliveryInv, Working
  <2> QED BY <2>1, <2>2
<1>2. p \in Others /\ DetachTo(p, "idle") /\ retired' = retired
  BY <1>1 DEF Others, Throw, ended
<1> QED BY <1>2, DetachNoRemoval, NoRemoval DEF Inv

\* The functions, which leave attach alone or throw.
LEMMA CallsRemoval ==
    ASSUME OwnerDoesNotSend, Inv, RemovedInv, NEW p \in Managers,
           \/ WriteFragment(p) \/ CheckSegment(p) \/ ReadyForWrite(p) \/ WaitForBuffer(p)
           \/ Write(p) \/ MarkBufferFull(p)
           \/ ReadFragmentHeader(p) \/ ReadHeader(p) \/ ReadFragmentData(p)
           \/ ReadData(p) \/ MarkBufferEmpty(p)
    PROVE  RemovedInv'
<1> DEFINE Quiet_ == UNCHANGED <<removed, attach, shm_segment_id_, retired>>
<1>1. Quiet_ => RemovedInv'
  BY DEF RemovedInv
<1> USE DEF segmentVars, kernel, manager, ended
<1>2. CASE WriteFragment(p) \/ WaitForBuffer(p) \/ MarkBufferFull(p)
           \/ ReadFragmentHeader(p) \/ ReadFragmentData(p)
  BY <1>1, <1>2 DEF WriteFragment, WaitForBuffer, MarkBufferFull, ReadFragmentHeader, ReadFragmentData
<1>3. CASE CheckSegment(p)
  <2>1. CASE IsEndOfData(p)
    <3>1. Attach(p) /\ retired' = retired
      BY <1>3, <2>1 DEF CheckSegment
    <3> QED BY <3>1, AttachNoRemoval DEF Inv
  <2>2. CASE ~IsEndOfData(p)
    BY <1>1, <1>3, <2>2 DEF CheckSegment
  <2> QED BY <2>1, <2>2
<1>4. CASE ReadyForWrite(p)
  BY <1>1, <1>4 DEF ReadyForWrite
<1>5. CASE Write(p)
  <2>1. CASE Throw(p)
    BY <1>5, <2>1, ThrowNoRemoval DEF Write
  <2>2. CASE ~Throw(p)
    BY <1>1, <1>5, <2>2 DEF Write
  <2> QED BY <2>1, <2>2
<1>6. CASE ReadHeader(p) \/ ReadData(p) \/ MarkBufferEmpty(p)
  <2>1. {"header", "data", "empty"} \subseteq ReadCalls
    BY DEF ReadCalls
  <2>2. \E c \in ReadCalls : Mapped(p, c)
    BY <1>6, <2>1 DEF ReadHeader, ReadData, MarkBufferEmpty
  <2>3. CASE Owns(p, active_buffer_[p], "Reading")
    BY <1>1, <1>6, <2>3 DEF ReadHeader, ReadData, MarkBufferEmpty
  <2>4. CASE ~Owns(p, active_buffer_[p], "Reading")
    <3>1. Throw(p)
      BY <1>6, <2>4 DEF ReadHeader, ReadData, MarkBufferEmpty
    <3> QED BY <2>2, <2>4, <3>1, ThrowNoRemoval
  <2> QED BY <2>3, <2>4
<1> QED BY <1>2, <1>3, <1>4, <1>5, <1>6

\* Destruct takes note of the segment that it is about to remove.
LEMMA LifeRemoval ==
    ASSUME Inv, RemovedInv, NEW p \in Managers,
           \/ Construct(p) \/ Initialize(p) \/ Constructed(p) \/ Reattached(p)
           \/ Destruct(p) \/ Fault(p) \/ End(p) \/ StartAgain(p) \/ ResetCount(p)
    PROVE  RemovedInv'
<1> USE DEF kernel, segment, manager, ended, Goto
<1>1. IdsInv
  BY DEF Inv
<1>2. CASE Construct(p)
  <2>1. Attach(p) /\ retired' = retired
    BY <1>2 DEF Construct
  <2> QED BY <1>1, <2>1, AttachNoRemoval
<1>3. CASE Destruct(p)
  <2>1. DetachTo(p, "idle") /\ shm_ptr_[p] # None
    BY <1>3 DEF Destruct, IsValid
  <2>2. CASE p \in Owners
    <3>1. shm_ptr_[p] # Invalid
      <4>1. OwnerKeeps(p) /\ attach[p] = "idle"
        BY <1>1, <1>3, <2>2 DEF IdsInv, Destruct, In, At
      <4>2. shm_ptr_[p] = key /\ key \in Nat
        BY <1>1, <4>1, Constants DEF OwnerKeeps, IdsInv, IdsTypeOK
      <4> QED BY <4>2 DEF Invalid
    <3>2. /\ removed' = removed /\ shm_segment_id_' = shm_segment_id_
          /\ retired' = retired \cup {shm_segment_id_[p]}
          /\ \/ attach' = [attach EXCEPT ![p] = "remove"]
             \/ attach' = [attach EXCEPT ![p] = "idle"]
      BY <1>3, <2>1, <2>2, <3>1 DEF Destruct, DetachTo
    <3>3. \A q \in Managers \ {p} : SameSegment(q)
      BY <1>1, <3>2, SegmentTypes DEF SameSegment
    <3> QED BY <3>2, <3>3, RemovedStep
  <2>3. CASE p \notin Owners
    <3>1. p \in Others /\ retired' = retired
      BY <1>3, <2>3 DEF Others, Destruct
    <3> QED BY <1>1, <2>1, <3>1, DetachNoRemoval, NoRemoval
  <2> QED BY <2>2, <2>3
<1>4. CASE ResetCount(p)
  BY <1>4 DEF ResetCount, ResetAttachedCount, RemovedInv
<1>5. CASE Initialize(p) \/ Constructed(p) \/ Reattached(p) \/ StartAgain(p)
  <2>1. PICK point \in {"ok", "idle"} :
            attach' = [attach EXCEPT ![p] = point] /\ UNCHANGED <<removed, shm_segment_id_, retired>>
    BY <1>5 DEF Initialize, OwnerInit, Constructed, Reattached, StartAgain, Restart
  <2>2. attach'[p] # "remove" /\ \A q \in Managers \ {p} : SameSegment(q)
    BY <1>1, <2>1, SegmentTypes DEF SameSegment
  <2> QED BY <2>1, <2>2, NoRemoval
<1>6. ASSUME Die(p), retired' = retired PROVE RemovedInv'
  <2>1. /\ attach' = [attach EXCEPT ![p] = "dead"] /\ removed' = removed
        /\ shm_segment_id_' = [shm_segment_id_ EXCEPT ![p] = None]
    BY <1>6 DEF Die
  <2>2. attach'[p] # "remove" /\ \A q \in Managers \ {p} : SameSegment(q)
    BY <1>1, <2>1, SegmentTypes DEF SameSegment
  <2> QED BY <1>6, <2>1, <2>2, NoRemoval
<1>7. CASE Fault(p)
  BY <1>6, <1>7 DEF Fault, fragmentVars
<1>8. CASE End(p)
  <2>1. CASE Die(p)
    BY <1>6, <1>8, <2>1 DEF End
  <2>2. CASE ~Die(p)
    <3>1. UNCHANGED <<removed, attach, shm_segment_id_, retired>>
      BY <1>8, <2>2 DEF End, Signal, Kill
    <3> QED BY <3>1 DEF RemovedInv
  <2> QED BY <2>1, <2>2
<1> QED BY <1>2, <1>3, <1>4, <1>5, <1>7, <1>8

LEMMA StepRemoval == OwnerDoesNotSend /\ Inv /\ RemovedInv /\ [Next]_vars => RemovedInv'
<1> SUFFICES ASSUME OwnerDoesNotSend, Inv, RemovedInv, [Next]_vars PROVE RemovedInv'
  OBVIOUS
<1>1. CASE UNCHANGED vars
  BY <1>1 DEF vars, segmentVars, kernel, manager, fragmentVars, ended, RemovedInv
<1>2. ASSUME NEW p \in Managers, AttachStep(p) /\ UNCHANGED fragmentVars PROVE RemovedInv'
  BY <1>2, AttachStepRemoval DEF Inv
<1> QED BY <1>1, <1>2, LifeRemoval, CallsRemoval DEF Next, Step

LEMMA RemovedOnce ==
    ASSUME Inv, RemovedInv
    PROVE  AcknowledgedOnce
<1> SUFFICES ASSUME NEW n \in acknowledged
             PROVE  /\ received[n] + Cardinality(Places(n)) = 1
                    /\ \A x \in Places(n) : x[1] \in removed => x[1] \in retired
  BY DEF AcknowledgedOnce
<1>1. n \in Fragments
  BY FragmentsAssumption DEF Fragments, Inv, DeliveryInv, DeliveryTypeOK
<1>2. received[n] + Cardinality(Places(n)) = 1
  BY <1>1, DeliveryOnce DEF Inv, DeliveryInv
<1> QED BY <1>2 DEF RemovedInv

\* A fragment that WriteFragment returned 0 for is in one buffer until it is read to the
\* end, and is read once, or it is lost with a segment whose owner was destructed: no
\* signal, kill, exception or new segment on the way removes the segment of a fragment,
\* if there is one owner, which is not killed and does not send, and whose client does
\* not call ResetAttachedCount.
THEOREM AcknowledgedOnceHolds ==
    OneLivingOwner /\ OwnerDoesNotSend => (Spec => []AcknowledgedOnce)
<1> SUFFICES ASSUME OneLivingOwner, OwnerDoesNotSend PROVE Spec => []AcknowledgedOnce
  OBVIOUS
<1>1. Init => Inv /\ RemovedInv
  <2>1. Init => Inv
    BY InitIds, InitHold, InitDelivery DEF Inv
  <2>2. Init => RemovedInv
    BY DEF Init, SegmentInit, RemovedInv
  <2> QED BY <2>1, <2>2
<1>2. Inv /\ RemovedInv /\ [Next]_vars => Inv' /\ RemovedInv'
  BY StepIds, StepHold, StepDelivery, StepRemoval DEF Inv
<1>3. Inv /\ RemovedInv => AcknowledgedOnce
  BY RemovedOnce
<1> QED BY <1>1, <1>2, <1>3, PTL DEF Spec

\* What fragment_transfer checks, where the owner may also be killed: acknowledged
\* fragments are read once, or wait in one buffer of a segment that is only removed
\* by the destruction of its owner.
THEOREM AcknowledgedOnceUndisturbedHolds ==
    OneLivingOwner /\ OwnerDoesNotSend => (Spec => []AcknowledgedOnceUndisturbed)
<1>1. AcknowledgedOnce => AcknowledgedOnceUndisturbed
  BY DEF AcknowledgedOnceUndisturbed
<1> QED BY <1>1, AcknowledgedOnceHolds, PTL

\* Where the owner is not destructed either, no segment is removed: every acknowledged
\* fragment that was not read waits in a segment that is there.
THEOREM NothingRemoved ==
    OneLivingOwner /\ OwnerDoesNotSend /\ Destructed \cap Owners = {}
        => (Spec => [](removed = {}))
<1> SUFFICES ASSUME OneLivingOwner, OwnerDoesNotSend, Destructed \cap Owners = {}
             PROVE  Spec => [](removed = {})
  OBVIOUS
<1> DEFINE R == Inv /\ RemovedInv /\ retired = {}
<1>1. Init => R
  <2>1. Init => Inv
    BY InitIds, InitHold, InitDelivery DEF Inv
  <2>2. Init => RemovedInv /\ retired = {}
    BY DEF Init, SegmentInit, RemovedInv
  <2> QED BY <2>1, <2>2
<1>2. R /\ [Next]_vars => R'
  <2> SUFFICES ASSUME R, [Next]_vars PROVE R'
    OBVIOUS
  <2>1. Inv' /\ RemovedInv'
    BY StepIds, StepHold, StepDelivery, StepRemoval DEF Inv
  <2>2. retired' = retired
    <3> USE DEF ended, fragmentVars
    <3>1. CASE UNCHANGED vars
      BY <3>1 DEF vars
    <3>2. ASSUME NEW p \in Managers, Destruct(p) PROVE retired' = retired
      BY <3>2 DEF Destruct
    <3>3. ASSUME NEW p \in Managers,
                 \/ Construct(p) \/ End(p) \/ StartAgain(p) \/ ResetCount(p)
                 \/ Initialize(p) \/ Constructed(p) \/ Reattached(p) \/ Fault(p)
                 \/ AttachStep(p) /\ UNCHANGED fragmentVars
          PROVE  retired' = retired
      BY <3>3 DEF Construct, End, StartAgain, ResetCount, Initialize, Constructed, Reattached, Fault
    <3>4. ASSUME NEW p \in Managers,
                 \/ WriteFragment(p) \/ CheckSegment(p) \/ ReadyForWrite(p) \/ WaitForBuffer(p)
                 \/ Write(p) \/ MarkBufferFull(p)
          PROVE  retired' = retired
      BY <3>4 DEF WriteFragment, CheckSegment, ReadyForWrite, WaitForBuffer, Write, MarkBufferFull, Throw
    <3>5. ASSUME NEW p \in Managers,
                 \/ ReadFragmentHeader(p) \/ ReadHeader(p) \/ ReadFragmentData(p)
                 \/ ReadData(p) \/ MarkBufferEmpty(p)
          PROVE  retired' = retired
      BY <3>5 DEF ReadFragmentHeader, ReadHeader, ReadFragmentData, ReadData, MarkBufferEmpty, Throw
    <3> QED BY <3>1, <3>2, <3>3, <3>4, <3>5 DEF Next, Step
  <2> QED BY <2>1, <2>2
<1>3. R => removed = {}
  BY DEF RemovedInv
<1> QED BY <1>1, <1>2, <1>3, PTL DEF Spec
=============================================================================
